-------------------------- MODULE Workbench_proofs --------------------------
(***************************************************************************)
(* Proofs about Workbench: what the child processes of the window exclude, *)
(* and what is launched and shown when one of them has ended.              *)
(***************************************************************************)
EXTENDS Workbench, DataLemmas

----------------------------------------------------------------------------
(* The output of ctest *)

StatusSet == [Tests -> Statuses]

\* f has what the lines make of the status, one line after the other.
ReadLines(f, status, lines) ==
  /\ f \in [0..Len(lines) -> StatusSet] /\ f[0] = status
  /\ \A n \in 1..Len(lines) : f[n] = Ingest(f[n - 1], lines[n])
  /\ Ingested(status, lines) = f[Len(lines)]

\* A line gives its test the status it names and leaves the other tests.
LEMMA IngestMeans ==
  ASSUME NEW status \in StatusSet, NEW line \in LineSet
  PROVE  /\ Ingest(status, line) \in StatusSet
         /\ \A t \in Tests : Ingest(status, line)[t] =
              IF t # line.test THEN status[t] ELSE IF line.what = "start" THEN "running" ELSE line.what
  BY DEF Ingest, StatusSet, Statuses, LineSet, Verdicts

\* The lines are read one after the other.
LEMMA IngestedMeans ==
  ASSUME NEW status \in StatusSet, NEW lines \in Seq(LineSet)
  PROVE  \E f : ReadLines(f, status, lines)
  <1> DEFINE L == Len(lines)
             Round(g, n) == IF n = 0 THEN status ELSE Ingest(g[n - 1], lines[n])
             G == [n \in 1..L |-> [s \in StatusSet |-> Ingest(s, lines[n])]]
             After == CHOOSE g : g = [n \in 0..L |-> Round(g, n)]
  <1>1. L \in Nat /\ \A n \in 1..L : lines[n] \in LineSet
    BY LenProperties, ElementOfSeq
  <1>2. G \in [1..L -> [StatusSet -> StatusSet]]
    BY <1>1, IngestMeans
  <1>3. PICK f : Rounds(f, L, StatusSet, status, G)
    <2> HIDE DEF G
    <2> QED BY <1>1, <1>2, Recursion
  <1>4. f = [n \in 0..L |-> Round(f, n)]
    <2>1. ASSUME NEW n \in 0..L PROVE f[n] = Round(f, n)
      <3>1. CASE n = 0  BY <1>3, <3>1 DEF Rounds
      <3>2. CASE n # 0
        <4>1. n \in 1..L /\ n - 1 \in 0..L  BY <1>1, <3>2
        <4>2. G[n] = [s \in StatusSet |-> Ingest(s, lines[n])]  BY <4>1
        <4>3. f[n - 1] \in StatusSet  BY <1>3, <4>1 DEF Rounds
        <4> QED BY <1>3, <3>2, <4>1, <4>2, <4>3 DEF Rounds
      <3> QED BY <3>1, <3>2
    <2>2. f \in [0..L -> StatusSet]  BY <1>3 DEF Rounds
    <2> HIDE DEF Round, G
    <2> QED BY <2>1, <2>2
  <1>5. After = [n \in 0..L |-> Round(After, n)]
    <2> HIDE DEF Round, L
    <2> QED BY <1>4, Zenon
  <1>6. Ingested(status, lines) = After[L]
    BY Zenon DEF Ingested
  <1> HIDE DEF After
  <1>7. \A n \in 0..L : After[n] = Round(After, n)
    <2> HIDE DEF Round
    <2> QED BY <1>5
  <1> DEFINE Good == {n \in 0..L : After[n] \in StatusSet}
  <1>8. 0 \in Good  BY <1>1, <1>7
  <1>9. ASSUME NEW n \in 0..(L - 1), n \in Good PROVE n + 1 \in Good
    <2>1. n + 1 \in 1..L /\ n + 1 \in 0..L /\ n + 1 # 0 /\ (n + 1) - 1 = n /\ lines[n + 1] \in LineSet
      BY <1>1
    <2>2. After[n + 1] = Ingest(After[n], lines[n + 1])  BY <1>7, <2>1
    <2> QED BY <1>9, <2>1, <2>2, IngestMeans
  <1>10. 0..L \subseteq Good
    <2> HIDE DEF Good, L
    <2> QED BY <1>1, <1>8, <1>9, IntervalInduction
  <1>11. After \in [0..L -> StatusSet]
    <2> HIDE DEF Round, L
    <2> QED BY <1>5, <1>10
  <1>12. ReadLines(After, status, lines)
    <2>1. \A n \in 1..L : n \in 0..L /\ n # 0  BY <1>1
    <2> QED BY <1>1, <1>6, <1>7, <1>11, <2>1 DEF ReadLines
  <1> QED BY <1>12

\* Reading nothing changes nothing.
LEMMA IngestedNothing ==
  ASSUME NEW status \in StatusSet
  PROVE  Ingested(status, <<>>) = status
  <1>1. <<>> \in Seq(LineSet) /\ Len(<<>>) = 0  BY EmptySeq
  <1>2. PICK f : ReadLines(f, status, <<>>)  BY <1>1, IngestedMeans
  <1> QED BY <1>1, <1>2 DEF ReadLines

\* A further line is read after the others.
LEMMA IngestedAppend ==
  ASSUME NEW status \in StatusSet, NEW lines \in Seq(LineSet), NEW line \in LineSet
  PROVE  /\ Ingested(status, lines) \in StatusSet
         /\ Ingested(status, Append(lines, line)) = Ingest(Ingested(status, lines), line)
  <1> DEFINE more == Append(lines, line)
  <1>1. PICK n : n = Len(lines) /\ n \in Nat  BY LenProperties
  <1>2. /\ more \in Seq(LineSet) /\ Len(more) = n + 1 /\ more[n + 1] = line
        /\ \A i \in 1..n : more[i] = lines[i]
    BY <1>1, AppendProperties
  <1> HIDE DEF more
  <1>3. PICK f : ReadLines(f, status, lines)  BY IngestedMeans
  <1>4. PICK g : ReadLines(g, status, more)  BY <1>2, IngestedMeans
  <1> DEFINE Same == {i \in 0..n : f[i] = g[i]}
  <1>5. 0 \in Same  BY <1>1, <1>3, <1>4 DEF ReadLines
  <1>6. ASSUME NEW i \in 0..(n - 1), i \in Same PROVE i + 1 \in Same
    <2>1. /\ i + 1 \in 0..n /\ i + 1 \in 1..n /\ i + 1 \in 1..(n + 1) /\ (i + 1) - 1 = i
      BY <1>1
    <2>2. f[i + 1] = Ingest(f[i], lines[i + 1])  BY <1>1, <1>3, <2>1 DEF ReadLines
    <2>3. g[i + 1] = Ingest(g[i], more[i + 1])  BY <1>2, <1>4, <2>1 DEF ReadLines
    <2> QED BY <1>2, <1>6, <2>1, <2>2, <2>3
  <1>7. 0..n \subseteq Same
    <2> HIDE DEF Same
    <2> QED BY <1>1, <1>5, <1>6, IntervalInduction
  <1>8. f[n] = g[n] /\ f[n] \in StatusSet  BY <1>1, <1>3, <1>7 DEF ReadLines
  <1>9. g[n + 1] = Ingest(g[n], line)
    <2>1. n + 1 \in 1..(n + 1) /\ (n + 1) - 1 = n  BY <1>1
    <2>2. g[n + 1] = Ingest(g[n], more[n + 1])  BY <1>2, <1>4, <2>1 DEF ReadLines
    <2> QED BY <1>2, <2>2
  <1>10. Ingested(status, lines) = f[n] /\ Ingested(status, more) = g[n + 1]
    BY <1>1, <1>2, <1>3, <1>4 DEF ReadLines
  <1> QED BY <1>8, <1>9, <1>10 DEF more

----------------------------------------------------------------------------
(* What a step leaves alone *)

\* At most the sources of the open project are newer after the step.
SourcesSaved ==
  /\ root' = root /\ disk' \in [Root -> DiskSet]
  /\ root # None => /\ disk[root].src <= disk'[root].src /\ disk'[root].bin = disk[root].bin
                    /\ disk'[root].index = disk[root].index /\ disk'[root].cache = disk[root].cache

\* What is on disk of the open project.
LEMMA DiskMeans ==
  ASSUME DiskInv, root # None
  PROVE  /\ root \in Root /\ disk[root] \in DiskSet
         /\ disk[root].src \in Nat /\ disk[root].bin \in Nat /\ disk[root].index \in Nat
         /\ disk[root].cache \in BOOLEAN
  BY DEF DiskInv, DiskSet, Projects

\* A step that leaves the disk alone loses no source.
LEMMA DiskKept ==
  ASSUME DiskInv, UNCHANGED <<root, disk>>
  PROVE  SourcesSaved
  <1>1. root # None => disk[root].src <= disk[root].src  BY DiskMeans
  <1> QED BY <1>1 DEF SourcesSaved, DiskInv

\* Saving the documents makes the sources one version newer, or leaves them.
LEMMA SaveMeans ==
  ASSUME DiskInv, root # None, root' = root, SaveAllDocuments
  PROVE  SourcesSaved
  <1>1. PICK v \in {disk[root].src, disk[root].src + 1} : disk' = [disk EXCEPT ![root].src = v]
    BY DEF SaveAllDocuments
  <1>2. /\ root \in Root /\ disk[root] \in DiskSet /\ disk[root].src \in Nat /\ v \in Nat
        /\ disk[root].src <= v /\ disk \in [Root -> DiskSet]
    BY DiskMeans DEF DiskInv
  <1>3. ASSUME NEW d \in DiskSet
        PROVE  /\ [d EXCEPT !.src = v] \in DiskSet /\ [d EXCEPT !.src = v].src = v
               /\ [d EXCEPT !.src = v].bin = d.bin /\ [d EXCEPT !.src = v].index = d.index
               /\ [d EXCEPT !.src = v].cache = d.cache
    BY <1>2 DEF DiskSet
  <1>4. disk' = [disk EXCEPT ![root] = [disk[root] EXCEPT !.src = v]]  BY <1>1
  <1>5. disk'[root] = [disk[root] EXCEPT !.src = v] /\ disk' \in [Root -> DiskSet]
    BY <1>2, <1>3, <1>4
  <1> QED BY <1>2, <1>3, <1>5 DEF SourcesSaved

\* What the disk is made of is kept.
LEMMA DiskInvKept == ASSUME DiskInv, SourcesSaved PROVE DiskInv'
  BY DEF DiskInv, SourcesSaved

\* A build is not disturbed by a step that only saves.
LEMMA BuildKept ==
  ASSUME DiskInv, BuildInv, SourcesSaved, UNCHANGED build
  PROVE  BuildInv'
  <1>1. CASE build.stage = "idle"
    BY <1>1 DEF BuildInv, SourcesSaved
  <1>2. CASE build.stage # "idle"
    <2>1. root # None /\ disk[root].src \in Nat /\ disk'[root].src \in Nat /\ build.reads \in Nat
      BY <1>2, DiskInvKept, DiskMeans DEF BuildInv, BuildSet, SourcesSaved, DiskInv, Projects, DiskSet
    <2>2. build.reads <= disk'[root].src /\ disk'[root].bin = disk[root].bin
      BY <1>2, <2>1 DEF BuildInv, SourcesSaved
    <2> QED BY <1>2, <2>1, <2>2 DEF BuildInv, SourcesSaved
  <1> QED BY <1>1, <1>2

\* The tests are not disturbed by the steps of others.
LEMMA TestsKept ==
  ASSUME TestsInv, UNCHANGED <<root, tests, said>>
  PROVE  TestsInv'
  BY DEF TestsInv

\* Nor is an analysis.
LEMMA AnalysisKept ==
  ASSUME AnalysisInv, UNCHANGED <<root, analysis, target>>
  PROVE  AnalysisInv'
  BY DEF AnalysisInv

\* Nor is a program or a debuggee.
LEMMA LaunchKept ==
  ASSUME LaunchInv, UNCHANGED <<root, run, debug>>
  PROVE  LaunchInv'
  BY DEF LaunchInv

\* Nor is git, when the index is left alone.
LEMMA GitKept ==
  ASSUME GitInv, SourcesSaved, UNCHANGED <<git, panel>>
  PROVE  GitInv'
  BY DEF GitInv, SourcesSaved

\* The launch in the slot is not disturbed by a step that starts none of what it excludes.
LEMMA SlotKept ==
  ASSUME DiskInv, SlotInv, SourcesSaved, UNCHANGED deferred,
         Live(tests)' => Live(tests), FirstRuns' => FirstRuns,
         build'.stage # "clean" \/ build'.stage = build.stage,
         \/ build'.stage = "idle" \/ build' = build
         \/ root # None /\ build'.reads = disk'[root].src
  PROVE  SlotInv'
  <1> SUFFICES ASSUME deferred # None, deferred.do # "command"
               PROVE  SlotInv'
    BY DEF SlotInv
  <1>1. /\ deferred \in LaunchSet /\ root # None /\ deferred.of = root
        /\ ~Live(tests) /\ ~FirstRuns /\ build.stage # "clean"
        /\ deferred.wants <= disk[root].bin /\ deferred.wants <= disk[root].src
        /\ build.stage # "idle" => deferred.wants <= build.reads
    BY DEF SlotInv
  <1>2. /\ root' = root /\ disk[root].src <= disk'[root].src /\ disk'[root].bin = disk[root].bin
        /\ disk[root].src \in Nat /\ disk'[root].src \in Nat /\ deferred.wants \in Nat
    BY <1>1, DiskMeans, DiskInvKept DEF SourcesSaved, DiskInv, Projects, DiskSet, LaunchSet
  <1>3. deferred.wants <= disk'[root].src  BY <1>1, <1>2
  <1>4. build'.stage # "idle" => deferred.wants <= build'.reads  BY <1>1, <1>3
  <1> QED BY <1>1, <1>2, <1>3, <1>4 DEF SlotInv

----------------------------------------------------------------------------
(* Builds *)

\* A build that is idle needs nothing.
LEMMA IdleBuildInv == ASSUME build' = IdleBuild, root' \in Projects PROVE BuildInv'
  BY DEF IdleBuild, BuildInv, BuildSet, Stages, Procs, Projects

\* A stage that starts reads the sources as they are; otherwise the build ends.
LEMMA StartStageMeans ==
  ASSUME DiskInv', root # None, root' = root, NEW b \in BuildSet, NEW stage \in Stages \ {"idle"},
         b.of = root, b.wants <= disk'[root].src,
         stage = "clean" => b.cont = "none",
         stage = "configure" /\ b.cont # "none" => b.op = "build",
         StartStage(b, stage)
  PROVE  /\ BuildInv'
         /\ build' = IdleBuild \/ (build'.stage = stage /\ build'.reads = disk'[root].src)
  <1>1. PICK new : /\ new = build'
                   /\ \/ new = [b EXCEPT !.stage = stage, !.proc = "running", !.reads = disk'[root].src]
                      \/ new = IdleBuild
    BY DEF StartStage
  <1>2. PICK n : n = disk'[root].src /\ n \in Nat
    <2>1. disk' \in [Root -> DiskSet] /\ root \in Root  BY DEF DiskInv, Projects
    <2> QED BY <2>1 DEF DiskSet
  <1>3. CASE new = IdleBuild
    BY <1>1, <1>3, IdleBuildInv DEF DiskInv
  <1>4. CASE new = [b EXCEPT !.stage = stage, !.proc = "running", !.reads = disk'[root].src]
    <2>1. new = [b EXCEPT !.stage = stage, !.proc = "running", !.reads = n]  BY <1>2, <1>4
    <2>2. /\ new \in BuildSet /\ new.stage = stage /\ new.proc = "running" /\ new.reads = n
          /\ new.wants = b.wants /\ new.of = b.of /\ new.cont = b.cont /\ new.op = b.op
      BY <1>2, <2>1 DEF BuildSet, Procs
    <2>3. b.wants <= n /\ n <= n  BY <1>2
    <2>4. build'.wants <= build'.reads /\ build'.reads <= disk'[root].src
      BY <1>1, <1>2, <2>2, <2>3
    <2> QED BY <1>1, <1>2, <2>2, <2>4 DEF BuildInv
  <1> QED BY <1>1, <1>3, <1>4

\* A command begins a build, or leaves it.
LEMMA BeginBuildMeans ==
  ASSUME DiskInv, BuildInv, SourcesSaved, root # None, build.stage = "idle",
         NEW op \in {"configure", "build", "rebuild", "clean"}, NEW cont \in {"none", "run", "debug"},
         cont # "none" => op = "build", BeginBuild(op, cont)
  PROVE  /\ BuildInv'
         /\ build'.stage = "idle" \/ build'.reads = disk'[root].src
         /\ op = "build" => build'.stage # "clean"
  <1>1. DiskInv' /\ root' = root  BY DiskInvKept DEF SourcesSaved
  <1>2. CASE UNCHANGED build
    BY <1>2, BuildKept
  <1>3. CASE build' = IdleBuild
    BY <1>1, <1>3, IdleBuildInv DEF DiskInv, IdleBuild
  <1> DEFINE stage == FirstStage(op)
             w == IF cont = "none" THEN 0 ELSE disk'[root].src
             b == [IdleBuild EXCEPT !.op = op, !.cont = cont, !.of = root, !.wants = w]
  <1>4. CASE stage # "idle" /\ StartStage(b, stage)
    <2>1. stage \in Stages \ {"idle"} /\ (op = "build" => stage # "clean")
          /\ (stage = "clean" => op # "build")
      BY <1>4 DEF FirstStage, Stages
    <2>2. disk'[root].src \in Nat
      <3>1. disk' \in [Root -> DiskSet] /\ root \in Root  BY <1>1 DEF DiskInv, Projects
      <3> QED BY <3>1 DEF DiskSet
    <2>3. w \in Nat /\ w <= disk'[root].src  BY <2>2
    <2> HIDE DEF w, stage
    <2>4. /\ b \in BuildSet /\ b.of = root /\ b.wants = w /\ b.cont = cont /\ b.op = op
      BY <1>1, <2>3 DEF IdleBuild, BuildSet, Stages, Procs, DiskInv
    <2> HIDE DEF b
    <2>5. /\ BuildInv'
          /\ build' = IdleBuild \/ (build'.stage = stage /\ build'.reads = disk'[root].src)
      BY <1>1, <1>4, <2>1, <2>3, <2>4, StartStageMeans
    <2> QED BY <2>1, <2>5 DEF IdleBuild
  <1> QED BY <1>2, <1>3, <1>4 DEF BeginBuild

----------------------------------------------------------------------------
(* Tests *)

\* What StoppedTests() keeps and resets.
LEMMA StoppedMeans ==
  ASSUME NEW s \in TestsSet, NEW r, r = StoppedTests(s)
  PROVE  /\ r \in TestsSet /\ r.op = "idle" /\ r.proc = "none" /\ r.out = <<>>
         /\ r.going = {} /\ r.todo = {} /\ ~r.ended /\ r.known = s.known
         /\ \A t \in Tests : r.status[t] = IF s.op # "idle" /\ s.status[t] = "running" THEN "notrun"
                                           ELSE s.status[t]
  <1> DEFINE status == [t \in Tests |-> IF s.op # "idle" /\ s.status[t] = "running" THEN "notrun"
                                        ELSE s.status[t]]
  <1>1. status \in [Tests -> Statuses]  BY DEF TestsSet, Statuses
  <1>2. <<>> \in Seq(LineSet)  BY EmptySeq
  <1>3. r = [s EXCEPT !.op = "idle", !.proc = "none", !.out = <<>>, !.going = {}, !.todo = {},
                      !.ended = FALSE, !.status = status]
    BY DEF StoppedTests
  <1>4. \A t \in Tests : status[t] = IF s.op # "idle" /\ s.status[t] = "running" THEN "notrun"
                                     ELSE s.status[t]
    OBVIOUS
  <1> HIDE DEF status
  <1>5. /\ r \in TestsSet /\ r.op = "idle" /\ r.proc = "none" /\ r.out = <<>> /\ r.going = {}
        /\ r.todo = {} /\ ~r.ended /\ r.known = s.known /\ r.status = status
    BY <1>1, <1>2, <1>3 DEF TestsSet, Procs
  <1> QED BY <1>4, <1>5

\* Tests that do not run and have shown no run to its end.
LEMMA RestingTests ==
  ASSUME NEW r \in TestsSet, r.op = "idle", r.proc = "none", r.out = <<>>, r.going = {},
         r.todo = {}, ~r.ended, \A t \in Tests : r.status[t] # "running",
         NEW words \in [Tests -> {"nothing", "started"} \cup Verdicts],
         NEW open, open = None => ~r.known
  PROVE  TestsAre(r, words, open)
  BY DEF TestsAre, Running

\* A ctest that starts has said nothing; without it the tests rest.
LEMMA StartTestsMeans ==
  ASSUME DiskInv, TestsInv, root # None, root' = root,
         NEW op \in {"discover", "runall", "selected", "rerun", "preset"},
         NEW todo \in SUBSET Tests, op = "discover" => todo = {},
         NEW before \in {tests, AllNotRun(tests)}, StartTests(op, todo, before)
  PROVE  TestsInv'
  <1>1. TestsAre(tests, said, root)  BY DEF TestsInv
  <1>2. /\ before \in TestsSet /\ before.op = tests.op /\ before.known = tests.known
        /\ \A t \in Tests : before.op = "idle" => before.status[t] # "running"
    <2>1. CASE before = tests  BY <1>1, <2>1 DEF TestsAre, Running
    <2>2. CASE before = AllNotRun(tests)
      <3> DEFINE status == [t \in Tests |-> IF tests.status[t] = "disabled" THEN "disabled" ELSE "notrun"]
      <3>1. status \in [Tests -> Statuses] /\ \A t \in Tests : status[t] # "running"
        BY DEF Statuses, Verdicts
      <3>2. before = [tests EXCEPT !.status = status] /\ tests \in TestsSet
        BY <1>1, <2>2 DEF AllNotRun, TestsAre
      <3> HIDE DEF status
      <3>3. /\ before \in TestsSet /\ before.op = tests.op /\ before.known = tests.known
            /\ before.status = status
        BY <3>1, <3>2 DEF TestsSet
      <3> QED BY <3>1, <3>3
    <2> QED BY <2>1, <2>2
  <1>3. PICK r : r = StoppedTests(before)  OBVIOUS
  <1>4. /\ r \in TestsSet /\ r.op = "idle" /\ r.proc = "none" /\ r.out = <<>>
        /\ r.going = {} /\ r.todo = {} /\ ~r.ended /\ r.known = before.known
        /\ \A t \in Tests : r.status[t] # "running"
    BY <1>2, <1>3, StoppedMeans
  <1>5. /\ said' = [t \in Tests |-> "nothing"]
        /\ said' \in [Tests -> {"nothing", "started"} \cup Verdicts]
        /\ \A t \in Tests : said'[t] = "nothing"
    BY DEF StartTests, Silent
  <1>6. CASE tests' = r
    <2>1. root' = None => ~r.known  BY <1>1, <1>2, <1>4 DEF TestsAre
    <2>2. TestsAre(r, said', root')  BY <1>4, <1>5, <2>1, RestingTests
    <2> QED BY <1>6, <2>2 DEF TestsInv
  <1>7. CASE tests' = [r EXCEPT !.op = op, !.proc = "running", !.of = root,
                                !.todo = IF before.known THEN todo ELSE {}]
    <2> DEFINE new == [r EXCEPT !.op = op, !.proc = "running", !.of = root,
                                !.todo = IF before.known THEN todo ELSE {}]
    <2>1. (IF before.known THEN todo ELSE {}) \in SUBSET Tests /\ root \in Projects
      BY DEF DiskInv
    <2>2. /\ new \in TestsSet /\ new.op = op /\ new.proc = "running" /\ new.of = root
          /\ new.todo = IF before.known THEN todo ELSE {}
          /\ new.going = {} /\ new.out = <<>> /\ ~new.ended /\ new.known = r.known
          /\ new.status = r.status
      BY <1>4, <2>1 DEF TestsSet, Procs
    <2> HIDE DEF new
    <2>3. ~Running(new) => new.todo = {}  BY <1>4, <2>2 DEF Running
    <2>4. TestsAre(new, said', root')
      BY <1>4, <1>5, <2>2, <2>3 DEF TestsAre, Running, Verdicts
    <2> QED BY <1>7, <2>4 DEF TestsInv, new
  <1> QED BY <1>3, <1>6, <1>7 DEF StartTests

\* Stopping a run leaves no test running.
LEMMA StopMeans ==
  ASSUME TestsInv, root' = root, said' = said, tests' = StoppedTests(tests)
  PROVE  TestsInv' /\ ~Live(tests)'
  <1>1. TestsAre(tests, said, root)  BY DEF TestsInv
  <1>2. PICK r : r = StoppedTests(tests)  OBVIOUS
  <1>3. /\ r \in TestsSet /\ r.op = "idle" /\ r.proc = "none" /\ r.out = <<>>
        /\ r.going = {} /\ r.todo = {} /\ ~r.ended /\ r.known = tests.known
        /\ \A t \in Tests : r.status[t] # "running"
    BY <1>1, <1>2, StoppedMeans DEF TestsAre, Running
  <1>4. said \in [Tests -> {"nothing", "started"} \cup Verdicts] /\ (root = None => ~r.known)
    BY <1>1, <1>3 DEF TestsAre
  <1>5. TestsAre(r, said, root)  BY <1>3, <1>4, RestingTests
  <1> QED BY <1>2, <1>3, <1>5 DEF TestsInv, Live

\* A line that ctest prints says what it will be read as.
LEMMA PrintsMeans ==
  ASSUME TestsInv, Live(tests), NEW line \in LineSet,
         line.test \in tests.todo \/ line.test \in tests.going,
         Prints(line), root' = root,
         said' = [said EXCEPT ![line.test] = IF line.what = "start" THEN "started" ELSE line.what]
  PROVE  TestsInv' /\ Live(tests)'
  <1>1. TestsAre(tests, said, root) /\ tests.proc = "running"  BY DEF TestsInv, Live
  <1>2. Running(tests) /\ tests \in TestsSet /\ tests.op # "idle"
    BY <1>1 DEF TestsAre, Running
  <1>3. PICK word : word = IF line.what = "start" THEN "started" ELSE line.what  OBVIOUS
  <1>4. line.test \in Tests /\ line.what \in {"start"} \cup Verdicts  BY DEF LineSet
  <1>5. /\ said' \in [Tests -> {"nothing", "started"} \cup Verdicts]
        /\ \A t \in Tests : said'[t] = IF t = line.test THEN word ELSE said[t]
    BY <1>1, <1>3, <1>4 DEF TestsAre
  <1> DEFINE out == Append(tests.out, line)
             going == IF line.what = "start" THEN tests.going \cup {line.test} ELSE tests.going \ {line.test}
             todo == tests.todo \ {line.test}
  <1>6. /\ out \in Seq(LineSet) /\ going \in SUBSET Tests /\ todo \in SUBSET Tests
        /\ tests.out \in Seq(LineSet) /\ tests.status \in StatusSet
    <2>1. tests.out \in Seq(LineSet) /\ tests.going \in SUBSET Tests /\ tests.todo \in SUBSET Tests
          /\ tests.status \in StatusSet
      BY <1>2 DEF TestsSet, StatusSet
    <2> QED BY <1>4, <2>1, AppendProperties
  <1>7. tests' = [tests EXCEPT !.out = out, !.going = going, !.todo = todo]
    BY <1>2 DEF Prints, TestsSet
  <1>8. Ingested(tests.status, tests.out) \in StatusSet
        /\ Ingested(tests.status, out) = Ingest(Ingested(tests.status, tests.out), line)
    BY <1>6, IngestedAppend
  <1> HIDE DEF out, going, todo
  <1>9. PICK r : r = tests'  OBVIOUS
  <1>10. /\ r \in TestsSet /\ r.op = tests.op /\ r.proc = tests.proc /\ r.of = tests.of
         /\ r.known = tests.known /\ r.status = tests.status /\ r.ended = tests.ended /\ r.out = out
    BY <1>2, <1>6, <1>7, <1>9 DEF TestsSet
  <1>11. ASSUME NEW t \in Tests
         PROVE  /\ said'[t] = "started" => Ingested(r.status, r.out)[t] = "running"
                /\ said'[t] \in Verdicts => Ingested(r.status, r.out)[t] = said'[t]
    <2>1. Ingested(r.status, r.out)[t] =
            IF t # line.test THEN Ingested(tests.status, tests.out)[t]
            ELSE IF line.what = "start" THEN "running" ELSE line.what
      BY <1>8, <1>10, IngestMeans
    <2>2. CASE t = line.test  BY <1>3, <1>4, <1>5, <2>1, <2>2 DEF Verdicts
    <2>3. CASE t # line.test  BY <1>1, <1>2, <1>5, <2>1, <2>3 DEF TestsAre
    <2> QED BY <2>2, <2>3
  <1>12. TestsAre(r, said', root')
    BY <1>1, <1>2, <1>5, <1>10, <1>11 DEF TestsAre, Running
  <1> QED BY <1>1, <1>9, <1>10, <1>12 DEF TestsInv, Live

\* poll(): the panel says what was read; at the end no test is running.
LEMMA PollTestsMeans ==
  ASSUME TestsInv, PollTests, root' = root, said' = said
  PROVE  TestsInv' /\ (Live(tests)' => Live(tests))
  <1>1. TestsAre(tests, said, root) /\ tests \in TestsSet  BY DEF TestsInv, TestsAre
  <1>2. CASE UNCHANGED tests
    BY <1>1, <1>2 DEF TestsInv, Live
  <1>3. CASE tests.op = "discover" /\ tests' = [tests EXCEPT !.op = "idle", !.proc = "none"]
    <2>1. PICK r : r = tests'  OBVIOUS
    <2>2. /\ r \in TestsSet /\ r.op = "idle" /\ r.proc = "none" /\ r.out = tests.out
          /\ r.going = tests.going /\ r.todo = tests.todo /\ r.ended = tests.ended
          /\ r.known = tests.known /\ r.status = tests.status
      BY <1>1, <1>3, <2>1 DEF TestsSet, Procs
    <2>3. TestsAre(r, said, root)  BY <1>1, <1>3, <2>2 DEF TestsAre, Running
    <2> QED BY <2>1, <2>2, <2>3 DEF TestsInv, Live
  <1>4. CASE /\ tests.op = "discover"
             /\ \E off \in SUBSET MayBeOff :
                  tests' = [StoppedTests(tests) EXCEPT !.known = TRUE, !.status = Discovered(off)]
    <2>1. PICK s, r : s = StoppedTests(tests) /\ r = tests'  OBVIOUS
    <2>2. /\ s \in TestsSet /\ s.op = "idle" /\ s.proc = "none" /\ s.out = <<>>
          /\ s.going = {} /\ s.todo = {} /\ ~s.ended
      BY <1>1, <2>1, StoppedMeans
    <2> PICK off \in SUBSET MayBeOff :
          tests' = [StoppedTests(tests) EXCEPT !.known = TRUE, !.status = Discovered(off)]
      BY <1>4
    <2> DEFINE none == Discovered(off)
    <2>3. none \in [Tests -> Statuses] /\ \A t \in Tests : none[t] # "running"
      BY DEF Discovered, Statuses, Verdicts
    <2>4. r = [s EXCEPT !.known = TRUE, !.status = none]  BY <2>1
    <2> HIDE DEF none
    <2>5. /\ r \in TestsSet /\ r.op = "idle" /\ r.proc = "none" /\ r.out = <<>>
          /\ r.going = {} /\ r.todo = {} /\ ~r.ended /\ r.status = none
      BY <2>2, <2>3, <2>4 DEF TestsSet
    <2>6. root # None /\ said \in [Tests -> {"nothing", "started"} \cup Verdicts]
      BY <1>1, <1>4 DEF TestsAre
    <2>7. TestsAre(r, said, root)  BY <2>3, <2>5, <2>6, RestingTests
    <2> QED BY <2>1, <2>5, <2>7 DEF TestsInv, Live
  <1> DEFINE status == IF tests.known THEN Ingested(tests.status, tests.out) ELSE tests.status
             ending == [t \in Tests |-> IF status[t] = "running" THEN "failed" ELSE status[t]]
  <1>5. status \in StatusSet /\ ending \in StatusSet
    <2>1. tests.out \in Seq(LineSet) /\ tests.status \in StatusSet
      BY <1>1 DEF TestsSet, StatusSet
    <2>2. PICK f : ReadLines(f, tests.status, tests.out)  BY <2>1, IngestedMeans
    <2>3. Len(tests.out) \in 0..Len(tests.out)  BY <2>1, LenProperties
    <2>4. Ingested(tests.status, tests.out) \in StatusSet  BY <2>2, <2>3 DEF ReadLines
    <2> QED BY <2>1, <2>4 DEF StatusSet, Statuses, Verdicts
  <1>6. \A t \in Tests : ending[t] = IF status[t] = "running" THEN "failed" ELSE status[t]
    OBVIOUS
  <1>7. <<>> \in Seq(LineSet)  BY EmptySeq
  <1>8. CASE /\ tests.op \notin {"idle", "discover"}
             /\ tests' = [tests EXCEPT !.op = "idle", !.proc = "none", !.out = <<>>, !.going = {},
                                       !.todo = {}, !.ended = TRUE, !.status = ending]
    <2> HIDE DEF status, ending
    <2>1. PICK r : r = tests'  OBVIOUS
    <2>2. /\ r \in TestsSet /\ r.op = "idle" /\ r.proc = "none" /\ r.out = <<>>
          /\ r.going = {} /\ r.todo = {} /\ r.ended /\ r.known = tests.known /\ r.status = ending
      BY <1>1, <1>5, <1>7, <1>8, <2>1 DEF TestsSet, StatusSet, Procs
    <2>3. ASSUME tests.known, NEW t \in Tests
          PROVE  /\ said[t] = "started" => ending[t] = "failed"
                 /\ said[t] \in Verdicts => ending[t] = said[t]
      BY <1>1, <1>6, <1>8, <2>3 DEF TestsAre, Running, Verdicts, status
    <2>4. \A t \in Tests : ending[t] # "running"  BY <1>6
    <2>5. TestsAre(r, said, root)  BY <1>1, <2>2, <2>3, <2>4 DEF TestsAre, Running
    <2> QED BY <2>1, <2>2, <2>5 DEF TestsInv, Live
  <1>9. CASE /\ tests.op \notin {"idle", "discover"}
             /\ tests' = [tests EXCEPT !.out = <<>>, !.status = status]
    <2> HIDE DEF status, ending
    <2>1. PICK r : r = tests'  OBVIOUS
    <2>2. /\ r \in TestsSet /\ r.op = tests.op /\ r.proc = tests.proc /\ r.out = <<>>
          /\ r.going = tests.going /\ r.todo = tests.todo /\ r.ended = tests.ended
          /\ r.known = tests.known /\ r.of = tests.of /\ r.status = status
      BY <1>1, <1>5, <1>7, <1>9, <2>1 DEF TestsSet, StatusSet
    <2>3. Ingested(r.status, r.out) = status  BY <1>5, <2>2, IngestedNothing
    <2>4. tests.known => status = Ingested(tests.status, tests.out)  BY DEF status
    <2>5. ~tests.known => status = tests.status  BY DEF status
    <2>6. /\ r.op # "idle" /\ r.proc # "none" /\ root # None /\ r.of = root /\ ~r.ended
          /\ said \in [Tests -> {"nothing", "started"} \cup Verdicts]
      BY <1>1, <1>9, <2>2 DEF TestsAre
    <2>7. ASSUME tests.known PROVE TestsAre(r, said, root)
      <3>1. Running(tests) /\ Running(r)  BY <1>9, <2>2, <2>7 DEF Running
      <3>2. \A t \in Tests : /\ said[t] = "started" => Ingested(r.status, r.out)[t] = "running"
                             /\ said[t] \in Verdicts => Ingested(r.status, r.out)[t] = said[t]
        BY <1>1, <2>3, <2>4, <2>7, <3>1 DEF TestsAre
      <3> QED BY <2>2, <2>6, <3>1, <3>2 DEF TestsAre
    <2>8. ASSUME ~tests.known PROVE TestsAre(r, said, root)
      <3>1. ~Running(tests) /\ ~Running(r)  BY <2>2, <2>8 DEF Running
      <3>2. r.going = {} /\ r.todo = {} /\ \A t \in Tests : r.status[t] # "running"
        BY <1>1, <2>2, <2>5, <2>8, <3>1 DEF TestsAre
      <3> QED BY <2>2, <2>6, <2>8, <3>1, <3>2 DEF TestsAre
    <2>9. TestsAre(r, said, root)  BY <2>7, <2>8
    <2>10. Live(tests)' => Live(tests)  BY <2>1, <2>2 DEF Live
    <2> QED BY <2>1, <2>9, <2>10 DEF TestsInv
  <1> QED BY <1>2, <1>3, <1>4, <1>8, <1>9 DEF PollTests

----------------------------------------------------------------------------
(* The steps of the window *)

\* The step empties the slot, or leaves it and starts nothing that a launch
\* in it excludes.
SlotHeld ==
  \/ deferred' = None
  \/ /\ UNCHANGED deferred
     /\ Live(tests)' => Live(tests)
     /\ FirstRuns' => FirstRuns
     /\ build'.stage # "clean" \/ build'.stage = build.stage
     /\ build'.stage = "idle" \/ build' = build \/ build'.reads = disk'[root].src

\* The parts of the invariant make the whole of it when the slot is held.
LEMMA Together ==
  ASSUME IInv, SourcesSaved, SlotHeld, BuildInv', TestsInv', AnalysisInv', LaunchInv', GitInv', ExclusiveInv'
  PROVE  IInv'
  <1>1. DiskInv' /\ root' = root  BY DiskInvKept DEF IInv, SourcesSaved
  <1>2. CASE deferred' = None
    <2>1. SlotInv'  BY <1>2 DEF SlotInv
    <2> QED BY <1>1, <1>2, <2>1 DEF IInv
  <1>3. CASE /\ UNCHANGED deferred /\ deferred # None
             /\ (Live(tests)' => Live(tests)) /\ (FirstRuns' => FirstRuns)
             /\ build'.stage # "clean" \/ build'.stage = build.stage
             /\ build'.stage = "idle" \/ build' = build \/ build'.reads = disk'[root].src
    <2>1. SlotInv'
      <3>1. CASE deferred.do = "command"  BY <1>3, <3>1 DEF SlotInv
      <3>2. CASE deferred.do # "command"
        <4>1. root # None  BY <1>3, <3>2 DEF IInv, SlotInv
        <4> QED BY <1>3, <4>1, SlotKept DEF IInv
      <3> QED BY <3>1, <3>2
    <2>2. deferred'.of \in {root', None}  BY <1>1, <1>3 DEF IInv
    <2> QED BY <1>1, <2>1, <2>2 DEF IInv
  <1> QED BY <1>2, <1>3 DEF SlotHeld

\* A command that is ignored.
LEMMA IgnoredIInv ==
  ASSUME IInv, Ignored, deferred' \in {deferred, None}
  PROVE  IInv'
  <1>1. UNCHANGED <<root, disk, build, tests, analysis, run, debug, git, panel, target, said>>
    BY DEF Ignored, project, sessions
  <1>2. SourcesSaved  BY <1>1, DiskKept DEF IInv
  <1>3. ExclusiveInv'  BY <1>1 DEF IInv, ExclusiveInv, Live, FirstRuns
  <1>4. SlotHeld  BY <1>1 DEF SlotHeld, Live, FirstRuns
  <1> QED BY <1>1, <1>2, <1>3, <1>4, Together, BuildKept, TestsKept, AnalysisKept, LaunchKept, GitKept DEF IInv

\* A build is not begun beside tests or an analysis.
LEMMA BuildCommandIInv ==
  ASSUME IInv, NEW op \in {"configure", "build", "rebuild", "clean"}, BuildCommand(op),
         deferred' = None \/ (op = "build" /\ UNCHANGED deferred)
  PROVE  IInv'
  <1>1. CASE Ignored  BY <1>1, IgnoredIInv
  <1>2. CASE /\ root # None /\ ~Live(tests) /\ ~Live(analysis) /\ build.stage = "idle"
             /\ IF op = "clean" THEN UNCHANGED disk ELSE SaveAllDocuments
             /\ BeginBuild(op, "none")
             /\ UNCHANGED <<Setting, tests, analysis, run, debug, git, panel, target, said>>
    <2>1. UNCHANGED <<root, tests, analysis, run, debug, git, panel, target, said>>
      BY <1>2 DEF Setting
    <2>2. SourcesSaved  BY <1>2, <2>1, DiskKept, SaveMeans DEF IInv
    <2>3. /\ BuildInv'
          /\ build'.stage = "idle" \/ build'.reads = disk'[root].src
          /\ op = "build" => build'.stage # "clean"
      BY <1>2, <2>2, BeginBuildMeans DEF IInv
    <2>4. ExclusiveInv'  BY <1>2, <2>1 DEF IInv, ExclusiveInv, Live, FirstRuns
    <2>5. SlotHeld  BY <1>2, <2>1, <2>3 DEF SlotHeld, Live, FirstRuns
    <2> QED BY <2>1, <2>2, <2>3, <2>4, <2>5, Together, TestsKept, AnalysisKept, LaunchKept, GitKept DEF IInv
  <1> QED BY <1>1, <1>2 DEF BuildCommand

\* A cancelled build is idle.
LEMMA CancelBuildIInv ==
  ASSUME IInv, CancelBuild, deferred' = None
  PROVE  IInv'
  <1>1. UNCHANGED <<root, disk, tests, analysis, run, debug, git, panel, target, said>> /\ build' = IdleBuild
    BY DEF CancelBuild, project
  <1>2. SourcesSaved  BY <1>1, DiskKept DEF IInv
  <1>3. BuildInv'  BY <1>1, IdleBuildInv DEF IInv, DiskInv
  <1>4. ExclusiveInv'  BY <1>1 DEF IInv, ExclusiveInv, Live, FirstRuns, IdleBuild
  <1>5. SlotHeld  BY DEF SlotHeld
  <1> QED BY <1>1, <1>2, <1>3, <1>4, <1>5, Together, TestsKept, AnalysisKept, LaunchKept, GitKept DEF IInv

\* ctest is started while nothing else runs.
LEMMA TestCommandIInv ==
  ASSUME IInv, deferred' = None, root # None, ~Busy,
         NEW op \in {"discover", "runall", "selected", "rerun", "preset"},
         NEW todo \in SUBSET Tests, op = "discover" => todo = {},
         NEW before \in {tests, AllNotRun(tests)}, TestCommand(op, todo, before),
         UNCHANGED disk \/ SaveAllDocuments
  PROVE  IInv'
  <1>1. UNCHANGED <<root, build, analysis, run, debug, git, panel, target>> /\ StartTests(op, todo, before)
    BY DEF TestCommand, Setting
  <1>2. SourcesSaved  BY <1>1, DiskKept, SaveMeans DEF IInv
  <1>3. TestsInv'  BY <1>1, StartTestsMeans DEF IInv
  <1>4. ExclusiveInv'  BY <1>1 DEF ExclusiveInv, Live, FirstRuns, Busy
  <1>5. SlotHeld  BY DEF SlotHeld
  <1> QED BY <1>1, <1>2, <1>3, <1>4, <1>5, Together, BuildKept, AnalysisKept, LaunchKept, GitKept DEF IInv

\* The commands of the test panel.
LEMMA TestCommandsIInv ==
  ASSUME IInv, deferred' = None,
         DiscoverTests \/ RunAllTests \/ RunSelectedTest \/ RerunFailedTests \/ SelectCTestPreset
  PROVE  IInv'
  <1>1. CASE Ignored  BY <1>1, IgnoredIInv
  <1>2. tests.known => root # None  BY DEF IInv, TestsInv, TestsAre
  <1>3. CASE DiscoverTests /\ ~Ignored
    BY <1>3, TestCommandIInv DEF DiscoverTests
  <1>4. CASE RunAllTests /\ ~Ignored
    BY <1>2, <1>4, TestCommandIInv DEF RunAllTests
  <1>5. CASE RunSelectedTest /\ ~Ignored
    <2>1. PICK t \in Tests : TestCommand("selected", {t}, tests)
      BY <1>5 DEF RunSelectedTest
    <2>2. ~Busy /\ tests.known /\ SaveAllDocuments /\ {t} \in SUBSET Tests  BY <1>5 DEF RunSelectedTest
    <2> QED BY <1>2, <2>1, <2>2, TestCommandIInv
  <1>6. CASE RerunFailedTests /\ ~Ignored
    BY <1>6, TestCommandIInv DEF RerunFailedTests
  <1>7. CASE SelectCTestPreset /\ ~Ignored
    BY <1>7, TestCommandIInv DEF SelectCTestPreset
  <1> QED BY <1>1, <1>3, <1>4, <1>5, <1>6, <1>7

\* The tests are stopped.
LEMMA StopTestsIInv ==
  ASSUME IInv, StopTests, deferred' = None
  PROVE  IInv'
  <1>1. CASE Ignored  BY <1>1, IgnoredIInv
  <1>2. CASE ~Ignored
    <2>1. /\ UNCHANGED <<root, disk, build, analysis, run, debug, git, panel, target, said>>
          /\ tests' = StoppedTests(tests)
      BY <1>2 DEF StopTests, project
    <2>2. SourcesSaved  BY <2>1, DiskKept DEF IInv
    <2>3. TestsInv' /\ ~Live(tests)'  BY <2>1, StopMeans DEF IInv
    <2>4. ExclusiveInv'  BY <2>1, <2>3 DEF IInv, ExclusiveInv, Live, FirstRuns
    <2>5. SlotHeld  BY DEF SlotHeld
    <2> QED BY <2>1, <2>2, <2>3, <2>4, <2>5, Together, BuildKept, AnalysisKept, LaunchKept, GitKept DEF IInv
  <1> QED BY <1>1, <1>2

----------------------------------------------------------------------------
(* Analysis *)

\* The stages the tools begin with.
LEMMA FirstStagesMeans ==
  FirstStages = {"check", "sanitizer configure", "coverage configure", "valgrind", "perf record"}
  <1> DEFINE F == FirstAnalysisStage
  <1>1. DOMAIN F = {"check", "sanitizers", "coverage", "valgrind", "perf"}
    BY DEF FirstAnalysisStage
  <1>2. /\ F["check"] = "check" /\ F["sanitizers"] = "sanitizer configure" /\ F["valgrind"] = "valgrind"
        /\ F["coverage"] = "coverage configure" /\ F["perf"] = "perf record"
    BY DEF FirstAnalysisStage
  <1>3. FirstStages = {F[tool] : tool \in DOMAIN F}  BY DEF FirstStages
  <1> HIDE DEF F
  <1> QED BY <1>1, <1>2, <1>3

\* An analysis that starts belongs to the open project.
LEMMA StartAnalysisMeans ==
  ASSUME root \in Projects, root # None, root' = root, target' \in BOOLEAN,
         NEW stage \in FirstStages \cup Following, StartAnalysis(stage)
  PROVE  AnalysisInv' /\ analysis'.stage \in {"idle", stage} /\ (analysis'.stage = "idle" => ~Live(analysis)')
  <1>1. stage # "idle" /\ stage \in {"idle"} \cup FirstStages \cup Following
    BY FirstStagesMeans DEF Following
  <1>2. CASE analysis' = [stage |-> stage, proc |-> "running", of |-> root]
    BY <1>1, <1>2 DEF AnalysisInv, AnalysisSet, Procs
  <1>3. CASE analysis' = IdleAnalysis
    BY <1>3 DEF AnalysisInv, AnalysisSet, Procs, IdleAnalysis, Projects, Live
  <1> QED BY <1>1, <1>2, <1>3 DEF StartAnalysis

\* The tool's first stage runs alone.
LEMMA RunAnalysisIInv ==
  ASSUME IInv, NEW tool \in Tools, RunAnalysis(tool), deferred' = None
  PROVE  IInv'
  <1>1. CASE Ignored  BY <1>1, IgnoredIInv
  <1>2. CASE /\ target' = FALSE
             /\ UNCHANGED <<project, build, tests, analysis, run, debug, git, panel, said>>
    <2>1. UNCHANGED <<root, disk, build, tests, analysis, run, debug, git, panel, said>>
      BY <1>2 DEF project
    <2>2. SourcesSaved  BY <2>1, DiskKept DEF IInv
    <2>3. AnalysisInv'  BY <1>2, <2>1 DEF IInv, AnalysisInv
    <2>4. ExclusiveInv'  BY <2>1 DEF IInv, ExclusiveInv, Live, FirstRuns
    <2>5. SlotHeld  BY DEF SlotHeld
    <2> QED BY <2>1, <2>2, <2>3, <2>4, <2>5, Together, BuildKept, TestsKept, LaunchKept, GitKept DEF IInv
  <1>3. CASE /\ root # None /\ ~Busy
             /\ target' \in {FALSE, HasTarget(tool)}
             /\ StartAnalysis(FirstAnalysisStage[tool])
             /\ SaveAllDocuments
             /\ UNCHANGED <<Setting, build, tests, run, debug, git, panel, said>>
    <2>1. UNCHANGED <<root, build, tests, run, debug, git, panel, said>>
      BY <1>3 DEF Setting
    <2>2. SourcesSaved  BY <1>3, <2>1, SaveMeans DEF IInv
    <2>3. FirstAnalysisStage[tool] \in FirstStages
      BY Constants DEF FirstStages, FirstAnalysisStage
    <2>4. AnalysisInv'
      <3>1. HasTarget(tool) \in BOOLEAN  BY DEF HasTarget
      <3>2. target' \in BOOLEAN  BY <1>3, <3>1
      <3>3. root \in Projects  BY DEF IInv, DiskInv
      <3> QED BY <1>3, <2>1, <2>3, <3>2, <3>3, StartAnalysisMeans
    <2>5. ExclusiveInv'  BY <1>3, <2>1 DEF ExclusiveInv, Live, FirstRuns, Busy
    <2>6. SlotHeld  BY DEF SlotHeld
    <2> QED BY <2>1, <2>2, <2>4, <2>5, <2>6, Together, BuildKept, TestsKept, LaunchKept, GitKept DEF IInv
  <1> QED BY <1>1, <1>2, <1>3 DEF RunAnalysis

\* The analysis is stopped.
LEMMA StopAnalysisIInv ==
  ASSUME IInv, StopAnalysis, deferred' = None
  PROVE  IInv'
  <1>1. CASE Ignored  BY <1>1, IgnoredIInv
  <1>2. CASE ~Ignored
    <2>1. /\ UNCHANGED <<root, disk, build, tests, run, debug, git, panel, target, said>>
          /\ analysis' = IdleAnalysis
      BY <1>2 DEF StopAnalysis, project
    <2>2. SourcesSaved  BY <2>1, DiskKept DEF IInv
    <2>3. AnalysisInv'
      BY <2>1 DEF IInv, AnalysisInv, AnalysisSet, IdleAnalysis, Procs, Projects
    <2>4. ExclusiveInv'  BY <2>1 DEF IInv, ExclusiveInv, Live, FirstRuns, IdleAnalysis
    <2>5. SlotHeld  BY DEF SlotHeld
    <2> QED BY <2>1, <2>2, <2>3, <2>4, <2>5, Together, BuildKept, TestsKept, LaunchKept, GitKept DEF IInv
  <1> QED BY <1>1, <1>2

----------------------------------------------------------------------------
(* The program and the debugger *)

IdleLaunch == run' = IdleRun /\ debug' = NoDebugger

\* Neither the program nor the debugger runs.
LEMMA IdleLaunchInv ==
  ASSUME IdleLaunch
  PROVE  LaunchInv'
  BY DEF IdleLaunch, LaunchInv, IdleRun, NoDebugger, RunSet, DebugSet, Procs, Projects

\* The program starts as it is on disk, or not at all.
LEMMA StartRunMeans ==
  ASSUME DiskInv, LaunchInv, root' = root, NEW wants \in Nat,
         root # None => wants <= disk[root].bin, StartRun(wants)
  PROVE  LaunchInv' /\ UNCHANGED debug
  <1>1. CASE UNCHANGED <<run, debug>>  BY <1>1, LaunchKept
  <1>2. CASE root # None /\ UNCHANGED debug /\ run' = IdleRun
    BY <1>2 DEF LaunchInv, IdleRun, RunSet, Procs, Projects
  <1>3. ASSUME root # None, UNCHANGED debug, NEW mode \in {"process", "terminal"},
               run' = [mode |-> mode, active |-> TRUE, proc |-> "running",
                       bin |-> disk[root].bin, wants |-> wants, of |-> root]
        PROVE  LaunchInv'
    <2>1. disk[root].bin \in Nat /\ root \in Projects /\ wants <= disk[root].bin
      BY <1>3, DiskMeans DEF DiskInv
    <2> QED BY <1>3, <2>1 DEF LaunchInv, RunSet, Procs
  <1> QED BY <1>1, <1>2, <1>3 DEF StartRun

\* The debuggee starts as it is on disk, or not at all.
LEMMA StartDebugMeans ==
  ASSUME DiskInv, LaunchInv, root' = root, NEW wants \in Nat,
         root # None => wants <= disk[root].bin, StartDebug(wants)
  PROVE  LaunchInv'
  <1>1. CASE UNCHANGED <<run, debug>>  BY <1>1, LaunchKept
  <1>2. CASE IdleLaunch  BY <1>2, IdleLaunchInv
  <1>3. CASE /\ root # None
             /\ run' = [IdleRun EXCEPT !.mode = "debug", !.of = root]
             /\ debug' = [session |-> "launch", active |-> TRUE, stopped |-> FALSE,
                          bin |-> disk[root].bin, wants |-> wants, of |-> root]
    <2>1. disk[root].bin \in Nat /\ root \in Projects /\ wants <= disk[root].bin
      BY <1>3, DiskMeans DEF DiskInv
    <2>2. run' = [mode |-> "debug", active |-> FALSE, proc |-> "none", bin |-> 0, wants |-> 0, of |-> root]
      BY <1>3 DEF IdleRun
    <2>3. run' \in RunSet /\ run'.proc = "none" /\ ~run'.active /\ run'.wants <= run'.bin
      BY <2>1, <2>2 DEF RunSet, Procs
    <2>4. debug' \in DebugSet /\ debug'.of = root /\ debug'.wants <= debug'.bin
      BY <1>3, <2>1 DEF DebugSet
    <2> QED BY <2>3, <2>4 DEF LaunchInv
  <1> QED BY <1>1, <1>2, <1>3 DEF StartDebug, IdleLaunch

\* A launch, or the build before it, while neither tests nor the first stage of an analysis run.
LEMMA LaunchTogether ==
  ASSUME IInv, deferred' \in {None, deferred}, UNCHANGED Launches, SourcesSaved, LaunchInv',
         ~Live(tests), ~FirstRuns,
         \/ UNCHANGED build
         \/ root # None /\ build.stage = "idle" /\ \E cont \in {"run", "debug"} : BeginBuild("build", cont)
  PROVE  IInv'
  <1>1. UNCHANGED <<root, tests, analysis, git, panel, target, said>>  BY DEF Launches, Setting
  <1>2. /\ BuildInv'
        /\ build' = build \/ build'.stage = "idle" \/ build'.reads = disk'[root].src
        /\ build'.stage # "clean" \/ build' = build
    BY BuildKept, BeginBuildMeans DEF IInv
  <1>3. ~Live(tests)' /\ ~FirstRuns'  BY <1>1 DEF Live, FirstRuns
  <1>4. ExclusiveInv'  BY <1>3 DEF ExclusiveInv
  <1>5. SlotHeld  BY <1>2, <1>3 DEF SlotHeld
  <1> QED BY <1>1, <1>2, <1>4, <1>5, Together, TestsKept, AnalysisKept, GitKept DEF IInv

\* Running the program, or building it first.
LEMMA RunIInv ==
  ASSUME IInv, Run, deferred' \in {deferred, None}
  PROVE  IInv'
  <1>1. CASE Ignored  BY <1>1, IgnoredIInv
  <1>2. CASE ~Ignored
    <2>1. root # None /\ ~Live(tests) /\ ~FirstRuns /\ build.stage = "idle" /\ SaveAllDocuments
      BY <1>2 DEF Run, FirstRuns
    <2>2. CASE BeginBuild("build", "run") /\ UNCHANGED <<run, debug, Launches>>
      <3>1. root' = root  BY <2>2 DEF Launches, Setting
      <3>2. SourcesSaved /\ LaunchInv'  BY <2>1, <2>2, <3>1, SaveMeans, LaunchKept DEF IInv
      <3> QED BY <2>1, <2>2, <3>2, LaunchTogether
    <2>3. CASE StartRun(0) /\ UNCHANGED <<build, Launches>>
      <3>1. root' = root  BY <2>3 DEF Launches, Setting
      <3>2. 0 <= disk[root].bin  BY <2>1, DiskMeans DEF IInv
      <3>3. SourcesSaved /\ LaunchInv'  BY <2>1, <2>3, <3>1, <3>2, SaveMeans, StartRunMeans DEF IInv
      <3> QED BY <2>1, <2>3, <3>3, LaunchTogether
    <2> QED BY <1>2, <2>2, <2>3 DEF Run
  <1> QED BY <1>1, <1>2

\* A step that stops the program, or the program with the debugger, or lets it go on.
LEMMA LaunchEnds ==
  ASSUME IInv, deferred' \in {None, deferred}, LaunchInv',
         run'.active => run.active, debug'.session # "none" => debug.session # "none",
         UNCHANGED <<root, disk, build, tests, analysis, git, panel, target, said>>
  PROVE  IInv'
  <1>1. SourcesSaved  BY DiskKept DEF IInv
  <1>2. ExclusiveInv'  BY DEF IInv, ExclusiveInv, Live, FirstRuns
  <1>3. SlotHeld  BY DEF SlotHeld, Live, FirstRuns
  <1> QED BY <1>1, <1>2, <1>3, Together, BuildKept, TestsKept, AnalysisKept, GitKept DEF IInv

\* The program is stopped.
LEMMA StopRunIInv ==
  ASSUME IInv, StopRun, deferred' = None
  PROVE  IInv'
  <1>1. CASE Ignored  BY <1>1, IgnoredIInv
  <1>2. CASE ~Ignored
    <2>1. /\ run' = IdleRun
          /\ UNCHANGED <<root, disk, build, tests, analysis, debug, git, panel, target, said>>
      BY <1>2 DEF StopRun, project
    <2>2. LaunchInv' /\ ~run'.active
      BY <2>1 DEF IInv, LaunchInv, IdleRun, RunSet, Procs, Projects
    <2> QED BY <2>1, <2>2, LaunchEnds
  <1> QED BY <1>1, <1>2

\* The debugger is stopped, with the console of its program.
LEMMA DebugStopIInv ==
  ASSUME IInv, DebugStop, deferred' = None
  PROVE  IInv'
  <1>1. CASE Ignored  BY <1>1, IgnoredIInv
  <1>2. CASE ~Ignored
    <2>1. /\ IdleLaunch
          /\ UNCHANGED <<root, disk, build, tests, analysis, git, panel, target, said>>
      BY <1>2 DEF DebugStop, IdleLaunch, project
    <2>2. LaunchInv' /\ ~run'.active /\ debug'.session = "none"
      BY <2>1, IdleLaunchInv DEF IdleLaunch, IdleRun, NoDebugger
    <2> QED BY <2>1, <2>2, LaunchEnds
  <1> QED BY <1>1, <1>2

\* A debugger that goes on, stops or ends is the one that was there.
LEMMA DebuggerChanges ==
  ASSUME LaunchInv, UNCHANGED <<root, run>>, NEW active \in BOOLEAN, NEW stopped \in BOOLEAN,
         debug' = [debug EXCEPT !.active = active, !.stopped = stopped]
  PROVE  LaunchInv' /\ debug'.session = debug.session
  <1>1. PICK d : d = debug'  OBVIOUS
  <1>2. /\ d \in DebugSet /\ d.session = debug.session /\ d.of = debug.of
        /\ d.wants = debug.wants /\ d.bin = debug.bin
    BY <1>1 DEF LaunchInv, DebugSet
  <1> QED BY <1>1, <1>2 DEF LaunchInv

\* F5 goes on with the debuggee, launches it, or builds it first.
LEMMA DebugRunIInv ==
  ASSUME IInv, DebugRun, deferred' \in {deferred, None}
  PROVE  IInv'
  <1>1. CASE Ignored  BY <1>1, IgnoredIInv
  <1>2. CASE ~Ignored
    <2>1. ~Live(tests) /\ ~FirstRuns /\ build.stage = "idle"
      BY <1>2 DEF DebugRun, FirstRuns
    <2>2. CASE /\ debug' = [debug EXCEPT !.stopped = FALSE]
               /\ UNCHANGED <<project, build, tests, analysis, run, git, panel, target, said>>
      <3>1. debug.active \in BOOLEAN /\ debug' = [debug EXCEPT !.active = debug.active, !.stopped = FALSE]
        BY <2>2 DEF IInv, LaunchInv, DebugSet
      <3>2. UNCHANGED <<root, disk, build, tests, analysis, run, git, panel, target, said>>
        BY <2>2 DEF project
      <3>3. LaunchInv' /\ debug'.session = debug.session
        <4>1. PICK active : active = debug.active  OBVIOUS
        <4>2. PICK no : no = FALSE  OBVIOUS
        <4> QED BY <3>1, <3>2, <4>1, <4>2, DebuggerChanges DEF IInv
      <3> QED BY <3>2, <3>3, LaunchEnds
    <2>3. CASE /\ root # None /\ SaveAllDocuments /\ BeginBuild("build", "debug")
               /\ debug' = NoDebugger
               /\ run' = IF debug.session = "launch" THEN IdleRun ELSE run
               /\ UNCHANGED Launches
      <3>1. root' = root  BY <2>3 DEF Launches, Setting
      <3>2. SourcesSaved  BY <2>3, <3>1, SaveMeans DEF IInv
      <3>3. debug' \in DebugSet /\ debug'.session = "none" /\ debug'.wants <= debug'.bin
        BY <2>3 DEF NoDebugger, DebugSet, Projects
      <3>4. /\ run' \in RunSet /\ (run'.active <=> run'.proc # "none")
            /\ (run'.active => run'.of = root') /\ run'.wants <= run'.bin
        <4>1. CASE run' = IdleRun  BY <4>1 DEF IdleRun, RunSet, Procs, Projects
        <4>2. CASE run' = run  BY <3>1, <4>2 DEF IInv, LaunchInv
        <4> QED BY <2>3, <4>1, <4>2
      <3>5. LaunchInv'  BY <3>3, <3>4 DEF LaunchInv
      <3> QED BY <2>1, <2>3, <3>2, <3>5, LaunchTogether
    <2>4. CASE root # None /\ SaveAllDocuments /\ UNCHANGED <<build, Launches>> /\ StartDebug(0)
      <3>1. root' = root  BY <2>4 DEF Launches, Setting
      <3>2. 0 <= disk[root].bin  BY <2>4, DiskMeans DEF IInv
      <3>3. SourcesSaved /\ LaunchInv'  BY <2>4, <3>1, <3>2, SaveMeans, StartDebugMeans DEF IInv
      <3> QED BY <2>1, <2>4, <3>3, LaunchTogether
    <2>5. CASE /\ root # None /\ SaveAllDocuments /\ UNCHANGED <<build, Launches, run>>
               /\ debug' = [debug EXCEPT !.active = TRUE, !.stopped = FALSE, !.bin = disk[root].bin, !.wants = 0]
      <3>1. root' = root  BY <2>5 DEF Launches, Setting
      <3>2. disk[root].bin \in Nat /\ 0 <= disk[root].bin  BY <2>5, DiskMeans DEF IInv
      <3>3. PICK d, n : d = debug' /\ n = disk[root].bin  OBVIOUS
      <3>4. /\ d \in DebugSet /\ d.session = debug.session /\ d.of = debug.of /\ d.wants = 0 /\ d.bin = n
        BY <2>5, <3>2, <3>3 DEF IInv, LaunchInv, DebugSet
      <3>5. LaunchInv'  BY <2>5, <3>1, <3>2, <3>3, <3>4 DEF IInv, LaunchInv
      <3>6. SourcesSaved  BY <2>5, <3>1, SaveMeans DEF IInv
      <3> QED BY <2>1, <2>5, <3>5, <3>6, LaunchTogether
    <2> QED BY <1>2, <2>2, <2>3, <2>4, <2>5 DEF DebugRun
  <1> QED BY <1>1, <1>2

\* The debugger starts again, or the build before it.
LEMMA DebugRestartIInv ==
  ASSUME IInv, DebugRestart, deferred' = None
  PROVE  IInv'
  <1>1. CASE Ignored  BY <1>1, IgnoredIInv
  <1>2. CASE ~Ignored
    <2>1. /\ root # None /\ build.stage = "idle" /\ debug.session # "none" /\ SaveAllDocuments
          /\ UNCHANGED Launches
      BY <1>2 DEF DebugRestart
    <2>2. ~Live(tests) /\ ~FirstRuns  BY <2>1 DEF IInv, ExclusiveInv
    <2>3. root' = root  BY <2>1 DEF Launches, Setting
    <2>4. SourcesSaved  BY <2>1, <2>3, SaveMeans DEF IInv
    <2>5. CASE BeginBuild("build", "debug") /\ IdleLaunch
      <3>1. LaunchInv'  BY <2>5, IdleLaunchInv
      <3> QED BY <2>1, <2>2, <2>4, <2>5, <3>1, LaunchTogether
    <2>6. CASE StartDebug(0) /\ UNCHANGED build
      <3>1. 0 <= disk[root].bin  BY <2>1, DiskMeans DEF IInv
      <3>2. LaunchInv'  BY <2>3, <2>6, <3>1, StartDebugMeans DEF IInv
      <3> QED BY <2>1, <2>2, <2>4, <2>6, <3>2, LaunchTogether
    <2> QED BY <1>2, <2>5, <2>6 DEF DebugRestart, IdleLaunch
  <1> QED BY <1>1, <1>2

\* A debugger that attaches or opens a core dump, while nothing else runs.
LEMMA OpenDebuggerIInv ==
  ASSUME IInv, NEW session \in {"attach", "core"}, OpenDebugger(session), deferred' = None
  PROVE  IInv'
  <1>1. CASE Ignored  BY <1>1, IgnoredIInv
  <1>2. CASE ~Ignored
    <2>1. /\ ~Busy /\ UNCHANGED <<project, build, tests, analysis, git, panel, target, said>>
          /\ \/ UNCHANGED <<debug, run>>
             \/ /\ debug' = [NoDebugger EXCEPT !.session = session, !.active = TRUE, !.stopped = TRUE, !.of = root]
                /\ run' = IdleRun
      BY <1>2 DEF OpenDebugger
    <2>2. UNCHANGED Launches /\ UNCHANGED <<root, disk, build>>
      BY <2>1 DEF project, Launches, Setting
    <2>3. SourcesSaved  BY <2>2, DiskKept DEF IInv
    <2>4. ~Live(tests) /\ ~FirstRuns  BY <2>1 DEF Busy, FirstRuns
    <2>5. LaunchInv'
      <3>1. CASE UNCHANGED <<debug, run>>  BY <2>2, <3>1, LaunchKept DEF IInv
      <3>2. CASE /\ debug' = [NoDebugger EXCEPT !.session = session, !.active = TRUE, !.stopped = TRUE, !.of = root]
                 /\ run' = IdleRun
        <4>1. debug' = [session |-> session, active |-> TRUE, stopped |-> TRUE, bin |-> 0, wants |-> 0, of |-> root]
          BY <3>2 DEF NoDebugger
        <4>2. root \in Projects /\ root' = root  BY <2>2 DEF IInv, DiskInv
        <4>3. debug' \in DebugSet /\ debug'.of = root /\ debug'.wants <= debug'.bin
          BY <4>1, <4>2 DEF DebugSet
        <4>4. run' \in RunSet /\ ~run'.active /\ run'.proc = "none" /\ run'.wants <= run'.bin
          BY <3>2 DEF IdleRun, RunSet, Procs, Projects
        <4> QED BY <4>2, <4>3, <4>4 DEF LaunchInv
      <3> QED BY <2>1, <3>1, <3>2
    <2> QED BY <2>2, <2>3, <2>4, <2>5, LaunchTogether
  <1> QED BY <1>1, <1>2

\* The launch that waited in the slot.
LEMMA LaunchIInv ==
  ASSUME IInv, deferred # None, deferred.do # "command", Launch(deferred), deferred' = None
  PROVE  IInv'
  <1>1. /\ deferred.wants \in Nat /\ deferred.wants <= disk[root].bin /\ ~Live(tests) /\ ~FirstRuns
    BY DEF IInv, SlotInv, LaunchSet
  <1>2. UNCHANGED Launches /\ UNCHANGED <<root, disk, build>>  BY DEF Launch, Launches, Setting
  <1>3. SourcesSaved  BY <1>2, DiskKept DEF IInv
  <1>4. PICK wants \in Nat : wants = deferred.wants  BY <1>1
  <1>5. StartRun(wants) \/ StartDebug(wants)  BY <1>4 DEF Launch
  <1>6. LaunchInv'  BY <1>1, <1>2, <1>4, <1>5, StartRunMeans, StartDebugMeans DEF IInv
  <1> QED BY <1>1, <1>2, <1>3, <1>6, LaunchTogether

----------------------------------------------------------------------------
(* git *)

\* The step changes git and the panel only.
GitSteps == UNCHANGED <<root, disk, build, tests, analysis, run, debug, target, said>>

\* Then only what git and the panel know has to be shown.
LEMMA GitTogether ==
  ASSUME IInv, GitSteps, GitInv', deferred' \in {deferred, None}
  PROVE  IInv'
  <1>1. UNCHANGED <<root, disk, build, tests, analysis, run, debug, target, said>>  BY DEF GitSteps
  <1>2. SourcesSaved  BY <1>1, DiskKept DEF IInv
  <1>3. ExclusiveInv'  BY <1>1 DEF IInv, ExclusiveInv, Live, FirstRuns
  <1>4. SlotHeld  BY <1>1 DEF SlotHeld, Live, FirstRuns
  <1> QED BY <1>1, <1>2, <1>3, <1>4, Together, BuildKept, TestsKept, AnalysisKept, LaunchKept DEF IInv

\* A git command that starts shows nothing new.
LEMMA GitStartsMeans ==
  ASSUME DiskInv, GitInv, UNCHANGED <<root, disk, panel>>, root # None, git.op = "none",
         NEW op \in {"status", "stage", "diff", "history"}, git' \in GitStarts(op)
  PROVE  GitInv'
  <1>1. CASE git' = git  BY <1>1 DEF GitInv
  <1>2. CASE git' = [op |-> op, proc |-> "running", of |-> root, missed |-> git.missed /\ op # "status"]
    <2>1. PICK missed \in BOOLEAN : missed = (git.missed /\ op # "status")  OBVIOUS
    <2>2. missed <=> git.missed /\ op # "status"  BY <2>1
    <2>3. git' = [op |-> op, proc |-> "running", of |-> root, missed |-> missed]  BY <1>2, <2>1
    <2>4. root \in Projects  BY DEF DiskInv
    <2>5. /\ git' \in GitSet /\ git'.op = op /\ git'.proc = "running" /\ git'.of = root
          /\ git'.missed = missed
      BY <2>3, <2>4 DEF GitSet, Procs
    <2> QED BY <2>2, <2>5 DEF GitInv
  <1> QED BY <1>1, <1>2 DEF GitStarts

\* The commands of the git panel.
LEMMA GitCommandIInv ==
  ASSUME IInv, NEW op \in {"status", "stage", "diff", "history"}, GitCommand(op), deferred' \in {deferred, None}
  PROVE  IInv'
  <1>1. CASE Ignored  BY <1>1, IgnoredIInv
  <1>2. CASE ~Ignored
    <2>1. /\ root # None /\ git.op = "none" /\ git' \in GitStarts(op)
          /\ UNCHANGED <<root, disk, panel>> /\ GitSteps
      BY <1>2 DEF GitCommand, project, GitSteps
    <2>2. GitInv'  BY <2>1, GitStartsMeans DEF IInv
    <2> QED BY <2>1, <2>2, GitTogether
  <1> QED BY <1>1, <1>2

\* poll(): a finished status is shown, a finished staging asks for one.
LEMMA PollGitMeans ==
  ASSUME DiskInv, GitInv, PollGit, UNCHANGED <<root, disk>>
  PROVE  GitInv'
  <1>1. CASE git.op # "none" /\ Ended(git) /\ git.op = "stage" /\ git.proc = "ok"
    <2>1. UNCHANGED panel /\ root # None  BY <1>1 DEF PollGit, GitInv
    <2>2. root \in Projects  BY DEF DiskInv
    <2>3. CASE git' = [op |-> "status", proc |-> "running", of |-> root, missed |-> FALSE]
      BY <2>1, <2>2, <2>3 DEF GitInv, GitSet, Procs
    <2>4. CASE git' = [IdleGit EXCEPT !.missed = TRUE]
      BY <2>1, <2>2, <2>4 DEF GitInv, GitSet, Procs, IdleGit, Projects
    <2> QED BY <1>1, <2>3, <2>4 DEF PollGit
  <1>2. CASE git.op # "none" /\ Ended(git) /\ ~(git.op = "stage" /\ git.proc = "ok")
    <2>1. /\ git' = [IdleGit EXCEPT !.missed = git.missed]
          /\ panel' = IF git.op = "status"
                      THEN [of |-> root, seen |-> IF git.proc = "ok" THEN disk[root].index ELSE None] ELSE panel
      BY <1>2 DEF PollGit
    <2>2. git.missed \in BOOLEAN /\ root # None  BY <1>2 DEF GitInv, GitSet
    <2>3. /\ git' \in GitSet /\ git'.op = "none" /\ git'.proc = "none" /\ git'.missed = git.missed
      BY <2>1, <2>2 DEF IdleGit, GitSet, Procs, Projects
    <2>4. CASE git.op = "status"
      <3>1. panel'.of = root /\ panel'.seen \in {None, disk[root].index}
        BY <2>1, <2>4
      <3> QED BY <2>2, <2>3, <3>1 DEF GitInv
    <2>5. CASE git.op # "status"
      <3>1. panel' = panel  BY <2>1, <2>5
      <3> QED BY <1>2, <2>2, <2>3, <2>5, <3>1 DEF GitInv
    <2> QED BY <2>4, <2>5
  <1>3. CASE ~(git.op # "none" /\ Ended(git))
    <2>1. UNCHANGED panel  BY <1>3 DEF PollGit
    <2>2. CASE git' = git  BY <2>1, <2>2 DEF GitInv
    <2>3. CASE root # None /\ git.op = "none" /\ git' \in GitStarts("status")
      BY <2>1, <2>3, GitStartsMeans
    <2> QED BY <1>3, <2>2, <2>3 DEF PollGit
  <1> QED BY <1>1, <1>2, <1>3

----------------------------------------------------------------------------
(* Opening and closing a project *)

\* Nothing runs but perhaps the first status of git.
Fresh ==
  /\ DiskInv /\ GitInv /\ build = IdleBuild /\ tests = IdleTests /\ analysis = IdleAnalysis
  /\ run = IdleRun /\ debug = NoDebugger /\ target = FALSE /\ deferred = None /\ said = Silent

\* A window without operations has the invariant.
LEMMA FreshIInv == Fresh => IInv
  <1> SUFFICES ASSUME Fresh PROVE IInv
    OBVIOUS
  <1>1. DiskInv /\ GitInv  BY DEF Fresh
  <1>2. BuildInv  BY DEF Fresh, IdleBuild, BuildInv, BuildSet, Stages, Procs, Projects
  <1>3. TestsInv
    <2> DEFINE none == [t \in Tests |-> "notrun"]
    <2>1. none \in [Tests -> Statuses] /\ \A t \in Tests : none[t] # "running"  BY DEF Statuses
    <2>2. <<>> \in Seq(LineSet)  BY EmptySeq
    <2>3. tests = [op |-> "idle", known |-> FALSE, status |-> none, proc |-> "none", out |-> <<>>,
                   going |-> {}, todo |-> {}, of |-> None, ended |-> FALSE]
      BY DEF Fresh, IdleTests
    <2> HIDE DEF none
    <2>4. /\ tests \in TestsSet /\ tests.op = "idle" /\ tests.proc = "none" /\ tests.out = <<>>
          /\ tests.going = {} /\ tests.todo = {} /\ ~tests.ended /\ ~tests.known /\ tests.status = none
      BY <2>1, <2>2, <2>3 DEF TestsSet, Procs, Projects
    <2>5. said \in [Tests -> {"nothing", "started"} \cup Verdicts]  BY DEF Fresh, Silent
    <2>6. TestsAre(tests, said, root)  BY <2>1, <2>4, <2>5, RestingTests
    <2> QED BY <2>6 DEF TestsInv
  <1>4. AnalysisInv  BY DEF Fresh, AnalysisInv, AnalysisSet, IdleAnalysis, Procs, Projects
  <1>5. LaunchInv  BY DEF Fresh, LaunchInv, IdleRun, NoDebugger, RunSet, DebugSet, Procs, Projects
  <1>6. SlotInv  BY DEF Fresh, SlotInv
  <1>7. ExclusiveInv
    BY DEF Fresh, ExclusiveInv, Live, FirstRuns, IdleBuild, IdleTests, IdleAnalysis, IdleRun, NoDebugger
  <1> QED BY <1>1, <1>2, <1>3, <1>4, <1>5, <1>6, <1>7 DEF IInv, Fresh

\* The same after a step.
LEMMA FreshNext == Fresh' => IInv'
  BY FreshIInv, PTL

\* An opened project: everything of the one before it has ended.
LEMMA OpenProjectIInv ==
  ASSUME IInv, NEW p \in Root, OpenProject(p), deferred' = None
  PROVE  IInv'
  <1>1. DiskInv'  BY DEF IInv, DiskInv, OpenProject, Projects
  <1>2. PICK g : g = git'  OBVIOUS
  <1>3. /\ g \in GitSet /\ g.op \in {"none", "status"} /\ (g.op = "none" <=> g.proc = "none")
        /\ (g.op # "none" => g.of = p) /\ panel'.of = p /\ panel'.seen = None
    <2>1. p \in Projects /\ None \in Projects  BY DEF Projects
    <2>2. CASE g = [op |-> "status", proc |-> "running", of |-> p, missed |-> FALSE]
      BY <2>1, <2>2 DEF OpenProject, GitSet, Procs
    <2>3. CASE g = [IdleGit EXCEPT !.missed = TRUE]
      BY <2>1, <2>3 DEF OpenProject, GitSet, Procs, IdleGit
    <2> QED BY <1>2, <2>2, <2>3 DEF OpenProject
  <1>4. root' = p /\ p # None  BY Constants DEF OpenProject
  <1>5. GitInv'  BY <1>2, <1>3, <1>4 DEF GitInv
  <1>6. Fresh'  BY <1>1, <1>5 DEF Fresh, OpenProject, Unloaded
  <1> QED BY <1>6, FreshNext

\* A closed project leaves nothing running.
LEMMA CloseProjectIInv ==
  ASSUME IInv, CloseProject, deferred' = None
  PROVE  IInv'
  <1>1. CASE Ignored  BY <1>1, IgnoredIInv
  <1>2. CASE ~Ignored
    <2>1. /\ Unloaded /\ root' = None /\ said' = Silent /\ panel' = NoPanel /\ git' = IdleGit
          /\ UNCHANGED disk
      BY <1>2 DEF CloseProject
    <2>2. DiskInv'  BY <2>1 DEF IInv, DiskInv, Projects
    <2>3. GitInv'  BY <2>1 DEF GitInv, GitSet, Procs, IdleGit, NoPanel, Projects
    <2>4. Fresh'  BY <2>1, <2>2, <2>3 DEF Fresh, Unloaded
    <2> QED BY <2>4, FreshNext
  <1> QED BY <1>1, <1>2

----------------------------------------------------------------------------
(* poll(): what has ended is noticed *)

\* A finished stage is followed by the build; the last one leaves the launch
\* that waited for it in the slot.
LEMMA PollBuildMeans ==
  ASSUME DiskInv, BuildInv, PollBuild, UNCHANGED <<root, disk>>, deferred = None
  PROVE  /\ BuildInv'
         /\ build'.stage # "idle" => build.stage # "idle"
         /\ deferred' # None =>
              /\ build.stage # "idle" /\ build'.stage = "idle" /\ root # None
              /\ deferred' \in LaunchSet /\ deferred'.of = root
              /\ deferred'.wants <= disk[root].bin /\ deferred'.wants <= disk[root].src
  <1>1. CASE UNCHANGED <<build, deferred>>
    BY <1>1, DiskKept, BuildKept
  <1> SUFFICES ASSUME build.stage # "idle", Ended(build)
               PROVE  /\ BuildInv'
                      /\ deferred' # None =>
                           /\ build'.stage = "idle" /\ root # None
                           /\ deferred' \in LaunchSet /\ deferred'.of = root
                           /\ deferred'.wants <= disk[root].bin /\ deferred'.wants <= disk[root].src
    BY <1>1 DEF PollBuild
  <1>2. /\ build \in BuildSet /\ root # None /\ build.of = root /\ root \in Projects
        /\ build.wants <= build.reads /\ build.reads <= disk[root].src
        /\ build.wants \in Nat /\ build.reads \in Nat /\ disk[root].src \in Nat
        /\ build.stage = "clean" => build.cont = "none"
        /\ build.stage = "configure" /\ build.cont # "none" => build.op = "build"
        /\ build.stage = "build" /\ build.proc = "ok" => build.wants <= disk[root].bin
    BY DiskMeans DEF BuildInv, BuildSet, DiskInv
  <1>3. build.wants <= disk[root].src  BY <1>2
  <1>4. CASE StartStage(build, "build") /\ UNCHANGED deferred
    <2>1. DiskInv' /\ disk' = disk  BY DEF DiskInv
    <2>2. PICK b \in BuildSet : b = build  BY <1>2
    <2>3. BuildInv'  BY <1>2, <1>3, <1>4, <2>1, <2>2, StartStageMeans DEF Stages
    <2> QED BY <1>4, <2>3
  <1>5. CASE FinishBuild(build.proc = "ok") /\ (build.proc = "ok" => NextStage(build) = "idle")
    <2>1. build' = IdleBuild  BY <1>5 DEF FinishBuild
    <2>2. BuildInv' /\ build'.stage = "idle"  BY <2>1, IdleBuildInv DEF DiskInv, IdleBuild
    <2>3. ASSUME deferred' # None
          PROVE  /\ deferred' \in LaunchSet /\ deferred'.of = root
                 /\ deferred'.wants <= disk[root].bin /\ deferred'.wants <= disk[root].src
      <3>1. /\ build.proc = "ok" /\ build.cont # "none"
            /\ deferred' = [do |-> build.cont, wants |-> build.wants, of |-> root]
        BY <1>5, <2>3 DEF FinishBuild
      <3>2. build.stage = "build"
        <4>1. build.stage \in Stages  BY <1>2 DEF BuildSet
        <4> QED BY <1>2, <1>5, <3>1, <4>1 DEF NextStage, Stages
      <3>3. build.cont \in {"run", "debug"}  BY <1>2, <3>1 DEF BuildSet
      <3> QED BY <1>2, <1>3, <3>1, <3>2, <3>3 DEF LaunchSet
    <2> QED BY <1>2, <2>2, <2>3
  <1> QED BY <1>4, <1>5 DEF PollBuild

\* An analysis goes on to a later stage, or is idle.
LEMMA PollAnalysisMeans ==
  ASSUME AnalysisInv, PollAnalysis, UNCHANGED <<root, target>>, root \in Projects
  PROVE  AnalysisInv' /\ (FirstRuns' => FirstRuns)
  <1>1. CASE UNCHANGED analysis
    BY <1>1, AnalysisKept DEF FirstRuns, Live
  <1>2. CASE analysis' = IdleAnalysis
    <2>1. AnalysisInv'
      BY <1>2 DEF AnalysisInv, AnalysisSet, IdleAnalysis, Procs, Projects
    <2> QED BY <1>2, <2>1 DEF FirstRuns, Live, IdleAnalysis
  <1>3. ASSUME analysis.stage # "idle", NEW next, next = AnalysisFollows(analysis.stage, analysis.proc = "ok"),
               next # "idle", StartAnalysis(next)
        PROVE  AnalysisInv' /\ ~FirstRuns'
    <2>1. next \in Following  BY <1>3 DEF AnalysisFollows, Following
    <2>2. next \notin FirstStages  BY <2>1, FirstStagesMeans DEF Following
    <2>3. root # None /\ target' \in BOOLEAN  BY <1>3 DEF AnalysisInv
    <2>4. AnalysisInv' /\ analysis'.stage \in {"idle", next} /\ (analysis'.stage = "idle" => ~Live(analysis)')
      BY <1>3, <2>1, <2>3, StartAnalysisMeans
    <2> QED BY <2>2, <2>4 DEF FirstRuns, Live
  <1> QED BY <1>1, <1>2, <1>3 DEF PollAnalysis

\* A timer event that polls.
LEMMA PollIInv ==
  ASSUME IInv, Poll, deferred = None
  PROVE  IInv'
  <1>1. UNCHANGED <<root, disk, debug, target, said>> /\ PollGit /\ PollBuild /\ PollAnalysis /\ PollTests /\ PollRun
    BY DEF Poll, project
  <1>2. DiskInv' /\ GitInv' /\ TestsInv' /\ (Live(tests)' => Live(tests))
    BY <1>1, PollGitMeans, PollTestsMeans DEF IInv, DiskInv
  <1>3. AnalysisInv' /\ (FirstRuns' => FirstRuns)
    BY <1>1, PollAnalysisMeans DEF IInv, DiskInv
  <1>4. /\ BuildInv'
        /\ build'.stage # "idle" => build.stage # "idle"
        /\ deferred' # None =>
             /\ build.stage # "idle" /\ build'.stage = "idle" /\ root # None
             /\ deferred' \in LaunchSet /\ deferred'.of = root
             /\ deferred'.wants <= disk[root].bin /\ deferred'.wants <= disk[root].src
    BY <1>1, PollBuildMeans DEF IInv
  <1>5. run' = run \/ run' = IdleRun  BY <1>1 DEF PollRun
  <1>6. LaunchInv' /\ (run'.active => run.active)
    <2>1. CASE run' = run  BY <1>1, <2>1, LaunchKept DEF IInv
    <2>2. CASE run' = IdleRun
      <3>1. run' \in RunSet /\ ~run'.active /\ run'.proc = "none" /\ run'.wants <= run'.bin
        BY <2>2 DEF IdleRun, RunSet, Procs, Projects
      <3> QED BY <1>1, <3>1 DEF IInv, LaunchInv
    <2> QED BY <1>5, <2>1, <2>2
  <1>7. ExclusiveInv'
    BY <1>1, <1>2, <1>3, <1>4, <1>6 DEF IInv, ExclusiveInv
  <1>8. SlotInv' /\ (deferred' # None => deferred'.of \in {root', None})
    <2>1. CASE deferred' = None  BY <2>1 DEF SlotInv
    <2>2. CASE deferred' # None
      <3>1. ~Live(tests)' /\ ~FirstRuns'
        BY <1>2, <1>3, <1>4, <2>2 DEF IInv, ExclusiveInv
      <3> QED BY <1>1, <1>4, <2>2, <3>1 DEF SlotInv
    <2> QED BY <2>1, <2>2
  <1> QED BY <1>2, <1>3, <1>4, <1>6, <1>7, <1>8 DEF IInv

----------------------------------------------------------------------------
(* The tools *)

\* One directory is changed on disk.
LEMMA DiskChanged ==
  ASSUME DiskInv, root # None, root' = root, NEW d \in DiskSet, disk' = [disk EXCEPT ![root] = d]
  PROVE  DiskInv' /\ disk'[root] = d
  BY DEF DiskInv, Projects

\* A stage that ends leaves its result on disk.
LEMMA CMakeExitsIInv ==
  ASSUME IInv, CMakeExits
  PROVE  IInv'
  <1>1. PICK ok \in BOOLEAN :
          /\ build' = [build EXCEPT !.proc = IF ok THEN "ok" ELSE "failed"]
          /\ disk' = CASE build.stage = "configure" -> [disk EXCEPT ![root].cache = TRUE]
                       [] build.stage = "clean" -> [disk EXCEPT ![root].bin = IF ok THEN 0 ELSE @]
                       [] build.stage = "build" -> [disk EXCEPT ![root].bin = IF ok THEN build.reads ELSE @]
    BY DEF CMakeExits
  <1>2. /\ UNCHANGED <<root, tests, analysis, run, debug, git, panel, target, deferred, said>>
        /\ build.proc = "running"
    BY DEF CMakeExits, Window, Setting, Live
  <1>3. /\ build \in BuildSet /\ build.stage # "idle" /\ root # None /\ build.of = root /\ build.wants <= build.reads
        /\ build.reads <= disk[root].src /\ build.reads \in Nat /\ build.wants \in Nat
        /\ build.stage \in {"configure", "clean", "build"}
    BY <1>2 DEF IInv, BuildInv, BuildSet, Stages
  <1>4. PICK b : b = build'  OBVIOUS
  <1>5. /\ b \in BuildSet /\ b.stage = build.stage /\ b.op = build.op /\ b.cont = build.cont
        /\ b.reads = build.reads /\ b.wants = build.wants /\ b.of = build.of /\ b.proc # "none"
        /\ b.proc = "ok" => ok
    BY <1>1, <1>3, <1>4 DEF BuildSet, Procs
  <1>6. PICK d : d = disk[root]  OBVIOUS
  <1>7. d \in DiskSet /\ d.bin \in Nat  BY <1>3, <1>6, DiskMeans DEF IInv
  <1>8. PICK e \in DiskSet : /\ disk' = [disk EXCEPT ![root] = e]
                             /\ e.src = d.src /\ e.index = d.index
                             /\ build.stage # "clean" => e.bin = d.bin \/ e.bin = build.reads
                             /\ ok /\ build.stage = "build" => e.bin = build.reads
    <2>1. CASE build.stage = "configure"
      <3>1. disk' = [disk EXCEPT ![root] = [d EXCEPT !.cache = TRUE]]  BY <1>1, <1>6, <2>1
      <3>2. /\ [d EXCEPT !.cache = TRUE] \in DiskSet /\ [d EXCEPT !.cache = TRUE].src = d.src
            /\ [d EXCEPT !.cache = TRUE].bin = d.bin /\ [d EXCEPT !.cache = TRUE].index = d.index
        BY <1>7 DEF DiskSet
      <3> QED BY <2>1, <3>1, <3>2
    <2>2. ASSUME NEW n \in Nat
          PROVE  /\ [d EXCEPT !.bin = n] \in DiskSet /\ [d EXCEPT !.bin = n].src = d.src
                 /\ [d EXCEPT !.bin = n].bin = n /\ [d EXCEPT !.bin = n].index = d.index
      BY <1>7 DEF DiskSet
    <2>3. CASE build.stage = "clean"
      <3>1. PICK n \in Nat : n = IF ok THEN 0 ELSE d.bin  BY <1>7
      <3>2. disk' = [disk EXCEPT ![root] = [d EXCEPT !.bin = n]]  BY <1>1, <1>6, <2>3, <3>1
      <3> QED BY <2>2, <2>3, <3>2
    <2>4. CASE build.stage = "build"
      <3>1. PICK n \in Nat : n = IF ok THEN build.reads ELSE d.bin  BY <1>3, <1>7
      <3>2. disk' = [disk EXCEPT ![root] = [d EXCEPT !.bin = n]]  BY <1>1, <1>6, <2>4, <3>1
      <3>3. [d EXCEPT !.bin = n].bin = n  BY <2>2
      <3>4. n = d.bin \/ n = build.reads  BY <3>1
      <3> QED BY <2>2, <3>1, <3>2, <3>3, <3>4
    <2> QED BY <1>3, <2>1, <2>3, <2>4
  <1>9. DiskInv' /\ disk'[root] = e  BY <1>2, <1>3, <1>8, DiskChanged DEF IInv
  <1>10. BuildInv'
    <2>1. build.stage = "build" /\ b.proc = "ok" => build.wants <= e.bin
      BY <1>3, <1>5, <1>8
    <2>2. build.reads <= e.src  BY <1>3, <1>6, <1>8
    <2>3. /\ build.stage = "clean" => build.cont = "none"
          /\ build.stage = "configure" /\ build.cont # "none" => build.op = "build"
      BY <1>3 DEF IInv, BuildInv
    <2> QED BY <1>2, <1>3, <1>4, <1>5, <1>9, <2>1, <2>2, <2>3 DEF BuildInv
  <1>11. GitInv'  BY <1>2, <1>6, <1>8, <1>9 DEF IInv, GitInv
  <1>12. ExclusiveInv'  BY <1>2, <1>4, <1>5 DEF IInv, ExclusiveInv, Live, FirstRuns
  <1>13. SlotInv'
    <2>1. SUFFICES ASSUME deferred # None, deferred.do # "command" PROVE SlotInv'
      BY <1>2 DEF SlotInv
    <2>2. /\ deferred \in LaunchSet /\ deferred.of = root
          /\ ~Live(tests) /\ ~FirstRuns /\ build.stage # "clean"
          /\ deferred.wants <= disk[root].bin /\ deferred.wants <= disk[root].src
          /\ deferred.wants <= build.reads
      BY <1>3, <2>1 DEF IInv, SlotInv
    <2>3. deferred.wants <= e.bin /\ deferred.wants <= e.src  BY <1>6, <1>8, <2>2
    <2>4. ~Live(tests)' /\ ~FirstRuns'  BY <1>2, <2>2 DEF Live, FirstRuns
    <2> QED BY <1>2, <1>3, <1>4, <1>5, <1>9, <2>2, <2>3, <2>4 DEF SlotInv
  <1>14. deferred' # None => deferred'.of \in {root', None}  BY <1>2 DEF IInv
  <1> QED BY <1>2, <1>9, <1>10, <1>11, <1>12, <1>13, <1>14, TestsKept, AnalysisKept, LaunchKept DEF IInv

\* A configure that failed leaves the disk alone.
LEMMA ConfigureFailsIInv ==
  ASSUME IInv, ConfigureFails
  PROVE  IInv'
  <1>1. /\ UNCHANGED <<root, disk, tests, analysis, run, debug, git, panel, target, deferred, said>>
        /\ build.stage = "configure" /\ build' = [build EXCEPT !.proc = "failed"] /\ build.proc = "running"
    BY DEF ConfigureFails, Window, Setting, Live
  <1>2. SourcesSaved  BY <1>1, DiskKept DEF IInv
  <1>3. PICK b : b = build'  OBVIOUS
  <1>4. /\ b \in BuildSet /\ b.stage = build.stage /\ b.op = build.op /\ b.cont = build.cont
        /\ b.reads = build.reads /\ b.wants = build.wants /\ b.of = build.of /\ b.proc = "failed"
    BY <1>1, <1>3 DEF IInv, BuildInv, BuildSet, Procs
  <1>5. BuildInv'  BY <1>1, <1>3, <1>4 DEF IInv, BuildInv
  <1>6. ExclusiveInv'  BY <1>1, <1>3, <1>4 DEF IInv, ExclusiveInv, Live, FirstRuns
  <1>7. SlotInv'
    BY <1>1, <1>3, <1>4 DEF IInv, SlotInv, Live, FirstRuns
  <1> QED BY <1>1, <1>2, <1>5, <1>6, <1>7, DiskInvKept, TestsKept, AnalysisKept, LaunchKept, GitKept DEF IInv

\* The step leaves the window and all but one session.
LEMMA ToolTogether ==
  ASSUME IInv, SourcesSaved, UNCHANGED <<root, panel, target, deferred, build, git>>,
         TestsInv', AnalysisInv', LaunchInv',
         Live(tests)' => Live(tests), FirstRuns' => FirstRuns,
         run'.active => run.active, debug'.session # "none" => debug.session # "none"
  PROVE  IInv'
  <1>1. ExclusiveInv'  BY DEF IInv, ExclusiveInv
  <1>2. SlotHeld  BY DEF SlotHeld
  <1> QED BY <1>1, <1>2, Together, BuildKept, GitKept DEF IInv

\* ctest ends; it leaves a log of the tests that failed.
LEMMA CTestExitsIInv ==
  ASSUME IInv, CTestExits
  PROVE  IInv'
  <1>1. PICK ok \in BOOLEAN :
          /\ tests' = [tests EXCEPT !.proc = IF ok THEN "ok" ELSE "failed"]
          /\ disk' = [disk EXCEPT ![root].failedLog = IF tests.op = "discover" THEN @ ELSE ~ok]
    BY DEF CTestExits
  <1>2. /\ UNCHANGED <<root, build, analysis, run, debug, git, panel, target, deferred, said>>
        /\ tests.proc = "running"
    BY DEF CTestExits, Window, Setting, Live
  <1>3. TestsAre(tests, said, root) /\ tests \in TestsSet  BY DEF IInv, TestsInv, TestsAre
  <1>4. root # None  BY <1>2, <1>3 DEF TestsAre
  <1>5. PICK r : r = tests'  OBVIOUS
  <1>6. /\ r \in TestsSet /\ r.op = tests.op /\ r.known = tests.known /\ r.status = tests.status
        /\ r.out = tests.out /\ r.going = tests.going /\ r.todo = tests.todo /\ r.of = tests.of
        /\ r.ended = tests.ended /\ r.proc \in {"ok", "failed"}
    BY <1>1, <1>3, <1>5 DEF TestsSet, Procs
  <1>7. TestsAre(r, said, root)  BY <1>2, <1>3, <1>6 DEF TestsAre, Running
  <1>8. TestsInv' /\ ~Live(tests)'  BY <1>2, <1>5, <1>6, <1>7 DEF TestsInv, Live
  <1>9. PICK d : d = disk[root]  OBVIOUS
  <1>10. d \in DiskSet /\ d.src \in Nat  BY <1>4, <1>9, DiskMeans DEF IInv
  <1>11. PICK log \in BOOLEAN : log = IF tests.op = "discover" THEN d.failedLog ELSE ~ok
    BY <1>10 DEF DiskSet
  <1>12. disk' = [disk EXCEPT ![root] = [d EXCEPT !.failedLog = log]]  BY <1>1, <1>9, <1>11
  <1>13. /\ [d EXCEPT !.failedLog = log] \in DiskSet /\ [d EXCEPT !.failedLog = log].src = d.src
         /\ [d EXCEPT !.failedLog = log].bin = d.bin /\ [d EXCEPT !.failedLog = log].index = d.index
         /\ [d EXCEPT !.failedLog = log].cache = d.cache
    BY <1>10 DEF DiskSet
  <1>14. SourcesSaved
    <2>1. DiskInv' /\ disk'[root] = [d EXCEPT !.failedLog = log]
      BY <1>2, <1>4, <1>12, <1>13, DiskChanged DEF IInv
    <2> QED BY <1>2, <1>9, <1>10, <1>13, <2>1 DEF SourcesSaved, DiskInv
  <1> QED BY <1>2, <1>8, <1>14, ToolTogether, AnalysisKept, LaunchKept DEF IInv, FirstRuns, Live

\* ctest prints a line.
LEMMA PrintsIInv ==
  ASSUME IInv, Live(tests), NEW line \in LineSet,
         line.test \in tests.todo \/ line.test \in tests.going, Prints(line),
         said' = [said EXCEPT ![line.test] = IF line.what = "start" THEN "started" ELSE line.what],
         UNCHANGED <<disk, Window, build, analysis, run, debug, git>>
  PROVE  IInv'
  <1>1. UNCHANGED <<root, disk, build, analysis, run, debug, git, panel, target, deferred>>
    BY DEF Window, Setting
  <1>2. SourcesSaved  BY <1>1, DiskKept DEF IInv
  <1>3. TestsInv'  BY <1>1, PrintsMeans DEF IInv
  <1> QED BY <1>1, <1>2, <1>3, ToolTogether, AnalysisKept, LaunchKept DEF IInv, FirstRuns, Live

\* A line of ctest about a test is one that the collector understands.
LEMMA CTestPrintsIInv ==
  ASSUME IInv, NEW t \in Tests, CTestStarts(t) \/ \E v \in VerdictsOf[t] : CTestReports(t, v)
  PROVE  IInv'
  <1>1. CASE CTestStarts(t)
    <2>1. PICK line : line = [what |-> "start", test |-> t]  OBVIOUS
    <2>2. line \in LineSet /\ line.what = "start" /\ line.test = t  BY <2>1 DEF LineSet
    <2> QED BY <1>1, <2>1, <2>2, PrintsIInv DEF CTestStarts
  <1>2. ASSUME NEW v \in VerdictsOf[t], CTestReports(t, v) PROVE IInv'
    <2>1. v \in Verdicts /\ v # "start"  BY Constants DEF Verdicts
    <2>2. PICK line : line = [what |-> v, test |-> t]  OBVIOUS
    <2>3. line \in LineSet /\ line.what = v /\ line.test = t  BY <2>1, <2>2 DEF LineSet
    <2> QED BY <1>2, <2>1, <2>2, <2>3, PrintsIInv DEF CTestReports
  <1> QED BY <1>1, <1>2

\* An analyzer ends.
LEMMA AnalyzerExitsIInv ==
  ASSUME IInv, AnalyzerExits
  PROVE  IInv'
  <1>1. PICK exit \in {"ok", "failed"} : analysis' = [analysis EXCEPT !.proc = exit]
    BY DEF AnalyzerExits
  <1>2. /\ UNCHANGED <<root, disk, build, tests, run, debug, git, panel, target, deferred, said>>
        /\ analysis.proc = "running"
    BY DEF AnalyzerExits, Window, Setting, Live
  <1>3. SourcesSaved  BY <1>2, DiskKept DEF IInv
  <1>4. PICK a : a = analysis'  OBVIOUS
  <1>5. a \in AnalysisSet /\ a.stage = analysis.stage /\ a.of = analysis.of /\ a.proc = exit
    BY <1>1, <1>4 DEF IInv, AnalysisInv, AnalysisSet, Procs
  <1>6. AnalysisInv'  BY <1>2, <1>4, <1>5 DEF IInv, AnalysisInv
  <1>7. ~FirstRuns'  BY <1>4, <1>5 DEF FirstRuns, Live
  <1> QED BY <1>2, <1>3, <1>6, <1>7, ToolTogether, TestsKept, LaunchKept DEF IInv, Live

\* git ends; a staging has changed the index.
LEMMA GitExitsIInv ==
  ASSUME IInv, GitExits
  PROVE  IInv'
  <1>1. PICK exit \in {"ok", "failed"} :
          /\ git' = [git EXCEPT !.proc = exit]
          /\ disk' = [disk EXCEPT ![root].index = IF git.op = "stage" /\ exit = "ok" THEN @ + 1 ELSE @]
    BY DEF GitExits
  <1>2. /\ UNCHANGED <<root, build, tests, analysis, run, debug, panel, target, deferred, said>>
        /\ git.proc = "running"
    BY DEF GitExits, Window, Setting, Live
  <1>3. root # None  BY <1>2 DEF IInv, GitInv
  <1>4. PICK d : d = disk[root]  OBVIOUS
  <1>5. d \in DiskSet /\ d.index \in Nat /\ d.src \in Nat  BY <1>3, <1>4, DiskMeans DEF IInv
  <1>6. PICK n \in Nat : n = IF git.op = "stage" /\ exit = "ok" THEN d.index + 1 ELSE d.index
    BY <1>5
  <1>7. PICK e : e = [d EXCEPT !.index = n]  OBVIOUS
  <1>8. e \in DiskSet /\ e.src = d.src /\ e.bin = d.bin /\ e.index = n
    BY <1>5, <1>7 DEF DiskSet
  <1>9. disk' = [disk EXCEPT ![root] = e]  BY <1>1, <1>4, <1>6, <1>7
  <1>10. DiskInv' /\ disk'[root] = e  BY <1>2, <1>3, <1>8, <1>9, DiskChanged DEF IInv
  <1>11. PICK g : g = git'  OBVIOUS
  <1>12. /\ g \in GitSet /\ g.op = git.op /\ g.of = git.of /\ g.missed = git.missed /\ g.proc = exit
    BY <1>1, <1>11 DEF IInv, GitInv, GitSet, Procs
  <1>13. GitInv'
    <2>1. (git.op = "stage" /\ exit = "ok") \/ n = disk[root].index  BY <1>4, <1>6
    <2> QED BY <1>2, <1>8, <1>10, <1>11, <1>12, <2>1 DEF IInv, GitInv
  <1>14. BuildInv'  BY <1>2, <1>4, <1>8, <1>10 DEF IInv, BuildInv
  <1>15. SlotInv'  BY <1>2, <1>4, <1>8, <1>10 DEF IInv, SlotInv, Live, FirstRuns
  <1>16. ExclusiveInv'  BY <1>2 DEF IInv, ExclusiveInv, Live, FirstRuns
  <1> QED BY <1>2, <1>10, <1>13, <1>14, <1>15, <1>16, TestsKept, AnalysisKept, LaunchKept DEF IInv

\* The program ends.
LEMMA ProgramExitsIInv ==
  ASSUME IInv, ProgramExits
  PROVE  IInv'
  <1>1. /\ UNCHANGED <<root, disk, build, tests, analysis, debug, git, panel, target, deferred, said>>
        /\ run' = [run EXCEPT !.proc = "ok"] /\ run.proc = "running"
    BY DEF ProgramExits, Window, Setting, Live
  <1>2. SourcesSaved  BY <1>1, DiskKept DEF IInv
  <1>3. PICK r : r = run'  OBVIOUS
  <1>4. /\ r \in RunSet /\ r.active = run.active /\ r.of = run.of /\ r.bin = run.bin
        /\ r.wants = run.wants /\ r.proc = "ok"
    BY <1>1, <1>3 DEF IInv, LaunchInv, RunSet, Procs
  <1>5. LaunchInv'  BY <1>1, <1>3, <1>4 DEF IInv, LaunchInv
  <1> QED BY <1>1, <1>2, <1>3, <1>4, <1>5, ToolTogether, TestsKept, AnalysisKept DEF IInv, FirstRuns, Live

\* The debuggee stops or ends, or the debugger dies.
LEMMA DebuggerMovesIInv ==
  ASSUME IInv, DebuggerMoves
  PROVE  IInv'
  <1>1. UNCHANGED <<root, disk, build, tests, analysis, run, git, panel, target, deferred, said>>
    BY DEF DebuggerMoves, Window, Setting
  <1>2. SourcesSaved  BY <1>1, DiskKept DEF IInv
  <1>3. LaunchInv' /\ (debug'.session # "none" => debug.session # "none")
    <2>1. PICK yes, no : yes = TRUE /\ no = FALSE  OBVIOUS
    <2>2. debug.active \in BOOLEAN  BY DEF IInv, LaunchInv, DebugSet
    <2>3. CASE debug' = [debug EXCEPT !.stopped = TRUE]
      <3>1. debug' = [debug EXCEPT !.active = debug.active, !.stopped = TRUE]
        BY <2>3 DEF IInv, LaunchInv, DebugSet
      <3>2. PICK active : active = debug.active  OBVIOUS
      <3> QED BY <1>1, <2>1, <2>2, <3>1, <3>2, DebuggerChanges DEF IInv
    <2>4. CASE debug' = [debug EXCEPT !.active = FALSE, !.stopped = FALSE]
      BY <1>1, <2>1, <2>4, DebuggerChanges DEF IInv
    <2>5. CASE debug' = NoDebugger
      BY <1>1, <2>5 DEF IInv, LaunchInv, NoDebugger, DebugSet, Projects
    <2> QED BY <2>3, <2>4, <2>5 DEF DebuggerMoves
  <1> QED BY <1>1, <1>2, <1>3, ToolTogether, TestsKept, AnalysisKept DEF IInv, FirstRuns, Live

----------------------------------------------------------------------------
(* The inductive invariant *)

\* A command that a key calls, at once or out of the slot.
LEMMA KeyIInv ==
  ASSUME IInv, NEW c, CommandOfKey(c), deferred' \in {deferred, None}
  PROVE  IInv'
  <1>1. CASE c = "build" /\ BuildCommand(c)  BY <1>1, BuildCommandIInv
  <1>2. CASE Run  BY <1>2, RunIInv
  <1>3. CASE DebugRun  BY <1>3, DebugRunIInv
  <1>4. CASE c \in {"status", "stage"} /\ GitCommand(c)  BY <1>4, GitCommandIInv
  <1> QED BY <1>1, <1>2, <1>3, <1>4 DEF CommandOfKey

\* A command that only a menu calls.
LEMMA MenuIInv ==
  ASSUME IInv, NEW c, CommandOfMenu(c), deferred' = None
  PROVE  IInv'
  <1>1. CASE c \in {"configure", "rebuild", "clean"} /\ BuildCommand(c)  BY <1>1, BuildCommandIInv
  <1>2. CASE CancelBuild \/ Ignored  BY <1>2, CancelBuildIInv, IgnoredIInv
  <1>3. CASE StopRun \/ DebugStop \/ DebugRestart
    BY <1>3, StopRunIInv, DebugStopIInv, DebugRestartIInv
  <1>4. CASE c \in {"attach", "core"} /\ OpenDebugger(c)  BY <1>4, OpenDebuggerIInv
  <1>5. CASE DiscoverTests \/ RunAllTests \/ RunSelectedTest \/ RerunFailedTests \/ SelectCTestPreset
    BY <1>5, TestCommandsIInv
  <1>6. CASE StopTests \/ StopAnalysis  BY <1>6, StopTestsIInv, StopAnalysisIInv
  <1>7. CASE \E tool \in Tools : RunAnalysis(tool)  BY <1>7, RunAnalysisIInv
  <1>8. CASE c \in {"diff", "history"} /\ GitCommand(c)  BY <1>8, GitCommandIInv
  <1>9. CASE \E p \in Root : OpenProject(p)  BY <1>9, OpenProjectIInv
  <1>10. CASE CloseProject  BY <1>10, CloseProjectIInv
  <1> QED BY <1>1, <1>2, <1>3, <1>4, <1>5, <1>6, <1>7, <1>8, <1>9, <1>10 DEF CommandOfMenu

\* A menu puts its command into the slot.
LEMMA ClickIInv ==
  ASSUME IInv, NEW c, Click(c)
  PROVE  IInv'
  <1>1. /\ UNCHANGED <<root, disk, build, tests, analysis, run, debug, git, panel, target, said>>
        /\ deferred' = [do |-> "command", command |-> c, of |-> None]
    BY DEF Click, project, sessions
  <1>2. deferred'.do = "command" /\ deferred'.of = None  BY <1>1
  <1>3. SlotInv'  BY <1>2 DEF SlotInv
  <1>4. SourcesSaved  BY <1>1, DiskKept DEF IInv
  <1>5. ExclusiveInv'  BY <1>1 DEF IInv, ExclusiveInv, Live, FirstRuns
  <1> QED BY <1>1, <1>2, <1>3, <1>4, <1>5, DiskInvKept, BuildKept, TestsKept, AnalysisKept, LaunchKept, GitKept DEF IInv

\* A timer event executes the slot, or polls.
LEMMA OnTimerIInv ==
  ASSUME IInv, OnTimer
  PROVE  IInv'
  <1>1. CASE deferred = None  BY <1>1, PollIInv DEF OnTimer
  <1>2. CASE deferred # None /\ deferred.do = "command"
    <2>1. deferred' = None  BY <1>2 DEF OnTimer
    <2>2. PICK c : c = deferred.command  OBVIOUS
    <2>3. CommandOfKey(c) \/ CommandOfMenu(c)  BY <1>2, <2>2 DEF OnTimer
    <2> QED BY <2>1, <2>3, KeyIInv, MenuIInv
  <1>3. CASE deferred # None /\ deferred.do # "command"
    BY <1>3, LaunchIInv DEF OnTimer
  <1> QED BY <1>1, <1>2, <1>3

\* A window opens with nothing running.
LEMMA InitIInv == Init => IInv
  <1> SUFFICES ASSUME Init PROVE Fresh
    BY FreshIInv
  <1>1. DiskInv  BY Constants DEF Init, DiskInv, Projects
  <1>2. panel = [seen |-> None, of |-> root]  BY DEF Init, NoPanel
  <1>3. GitInv  BY <1>2 DEF Init, GitInv, GitSet, IdleGit, Procs, Projects
  <1> QED BY <1>1, <1>3 DEF Init, Fresh

\* Every step keeps the invariant.
LEMMA NextIInv == IInv /\ [Next]_vars => IInv'
  <1> SUFFICES ASSUME IInv, [Next]_vars PROVE IInv'
    OBVIOUS
  <1>1. CASE \E c \in use.gives \cap KeyCommands : Press(c)
    BY <1>1, KeyIInv DEF Press
  <1>2. CASE \E c \in use.gives \ KeysOfThePanel : Click(c)
    BY <1>2, ClickIInv
  <1>3. CASE OnTimer
    BY <1>3, OnTimerIInv
  <1>4. CASE ToolExits
    BY <1>4, CMakeExitsIInv, ConfigureFailsIInv, CTestExitsIInv, AnalyzerExitsIInv, GitExitsIInv DEF ToolExits
  <1>5. CASE \E t \in Tests : CTestStarts(t) \/ \E v \in VerdictsOf[t] : CTestReports(t, v)
    BY <1>5, CTestPrintsIInv
  <1>6. CASE ProgramExits \/ DebuggerMoves
    BY <1>6, ProgramExitsIInv, DebuggerMovesIInv
  <1>7. CASE UNCHANGED vars
    <2>1. UNCHANGED deferred /\ Ignored  BY <1>7 DEF vars, Ignored
    <2> QED BY <2>1, IgnoredIInv
  <1> QED BY <1>1, <1>2, <1>3, <1>4, <1>5, <1>6, <1>7 DEF Next

----------------------------------------------------------------------------
(* The theorems *)

\* What holds between the sessions, the slot and the disk whatever the user
\* commands and whenever the tools end (IdeWindow::onTimer and the commands).
THEOREM SpecIInv == Spec => []IInv
  BY InitIInv, NextIInv, PTL DEF Spec

\* CMake, ctest and the first stage of an analysis run one at a time, and
\* tests and an analysis never beside the program or the debugger.
THEOREM SpecExclusive == Spec => []Exclusive
  <1>1. IInv => Exclusive
    <2> SUFFICES ASSUME IInv PROVE Exclusive
      OBVIOUS
    <2>1. TypeOK
      <3>1. root \in Root \cup {None}  BY DEF IInv, DiskInv, Projects
      <3>2. build.stage \in Stages /\ build.proc \in Procs /\ (build.stage = "idle" <=> build.proc = "none")
        BY DEF IInv, BuildInv, BuildSet
      <3>3. tests.proc \in Procs /\ (tests.op = "idle" <=> tests.proc = "none")
            /\ \A t \in Tests : tests.status[t] \in Statuses
        BY DEF IInv, TestsInv, TestsAre, TestsSet
      <3>4. analysis.proc \in Procs /\ (analysis.stage = "idle" <=> analysis.proc = "none")
        BY DEF IInv, AnalysisInv, AnalysisSet
      <3>5. run.proc \in Procs /\ (run.active <=> run.proc # "none")
        BY DEF IInv, LaunchInv, RunSet
      <3>6. git.proc \in Procs /\ (git.op = "none" <=> git.proc = "none")
        BY DEF IInv, GitInv, GitSet
      <3> QED BY <3>1, <3>2, <3>3, <3>4, <3>5, <3>6 DEF TypeOK, Statuses
    <2>2. Live(build) => build.stage # "idle"  BY <2>1 DEF TypeOK, Live
    <2>3. Live(run) => run.active  BY <2>1 DEF TypeOK, Live
    <2> QED BY <2>1, <2>2, <2>3 DEF IInv, ExclusiveInv, FirstRuns, Exclusive
  <1> QED BY <1>1, SpecIInv, PTL

\* A program that waited for a pre-launch build is as new as the sources that
\* were saved for it (executeDeferredCommand after pollBuild).
THEOREM SpecLaunchFresh == Spec => []LaunchFresh
  <1>1. IInv => LaunchFresh
    <2> SUFFICES ASSUME IInv PROVE LaunchFresh
      OBVIOUS
    <2>1. /\ run.wants \in Nat /\ run.bin \in Nat /\ run.wants <= run.bin
          /\ debug.wants \in Nat /\ debug.bin \in Nat /\ debug.wants <= debug.bin
      BY DEF IInv, LaunchInv, RunSet, DebugSet
    <2> QED BY <2>1 DEF LaunchFresh
  <1> QED BY <1>1, SpecIInv, PTL

\* At the end of a run the panel says of every test what ctest said last of
\* it, and no test is left running (CTestSession::poll).
THEOREM SpecTestsSettle == Spec => []TestsSettle
  <1>1. IInv => TestsSettle
    <2> SUFFICES ASSUME IInv, tests.op = "idle", NEW t \in Tests
                 PROVE  /\ tests.status[t] # "running"
                        /\ tests.known /\ tests.ended =>
                             CASE said[t] = "nothing" -> TRUE
                               [] said[t] = "started" -> tests.status[t] = "failed"
                               [] OTHER -> tests.status[t] = said[t]
      BY DEF TestsSettle
    <2>1. TestsAre(tests, said, root)  BY DEF IInv, TestsInv
    <2>2. tests.status[t] # "running"  BY <2>1 DEF TestsAre, Running
    <2>3. said[t] \in {"nothing", "started"} \cup Verdicts  BY <2>1 DEF TestsAre
    <2>4. tests.known /\ tests.ended =>
            /\ said[t] = "started" => tests.status[t] = "failed"
            /\ said[t] \in Verdicts => tests.status[t] = said[t]
      BY <2>1 DEF TestsAre
    <2> QED BY <2>2, <2>3, <2>4 DEF Verdicts
  <1> QED BY <1>1, SpecIInv, PTL

\* What runs, waits or is shown is of the project that is open
\* (IdeWindow::openProject, closeProject).
THEOREM SpecOfThisProject == Spec => []OfThisProject
  <1>1. IInv => OfThisProject
    <2> SUFFICES ASSUME IInv PROVE OfThisProject
      OBVIOUS
    <2>1. build.stage # "idle" => build.of = root  BY DEF IInv, BuildInv
    <2>2. (tests.op # "idle" => tests.of = root) /\ (root = None => ~tests.known)
      BY DEF IInv, TestsInv, TestsAre
    <2>3. analysis.stage # "idle" => analysis.of = root  BY DEF IInv, AnalysisInv
    <2>4. (run.active => run.of = root) /\ (debug.session # "none" => debug.of = root)
      BY DEF IInv, LaunchInv
    <2>5. (git.op # "none" => git.of = root) /\ panel.of = root  BY DEF IInv, GitInv
    <2>6. deferred # None => deferred.of \in {root, None}  BY DEF IInv
    <2> QED BY <2>1, <2>2, <2>3, <2>4, <2>5, <2>6 DEF OfThisProject
  <1> QED BY <1>1, SpecIInv, PTL

\* An idle git panel shows the index as the last staging left it
\* (GitSession::poll, IdeWindow::pollGit).
THEOREM SpecGitCurrent == Spec => []GitCurrent
  <1>1. IInv => GitCurrent
    BY DEF IInv, GitInv, GitCurrent
  <1> QED BY <1>1, SpecIInv, PTL
=============================================================================
