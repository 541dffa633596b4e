----------------------------- MODULE Workbench -----------------------------
(* The operations IdeWindow starts as child processes and how they share the  *)
(* window: CMake stages (BuildSession, BuildWorkflow), CTest (CTestSession),  *)
(* analyzers (AnalysisSession), the program (RunSession), the debugger and    *)
(* git (GitSession).                                                          *)
(*                                                                            *)
(* Keys call a command at once, menus put it into the one slot `deferred`,    *)
(* which the next timer event executes instead of polling. A finished         *)
(* pre-launch build uses the same slot for the launch that waited for it.     *)
(*                                                                            *)
(* The process of a session is "none", "running", or has exited with "ok" or  *)
(* "failed", which the session learns when it is polled (AsyncProcess). The   *)
(* debugger is what GdbClient and LldbDap detail: whether it runs, and        *)
(* whether its program is alive and stopped. Fields named of, wants, bin and  *)
(* the variable said are history: they are never read by an action.           *)
EXTENDS Naturals, SequencesExt, FiniteSets

CONSTANTS
  Root,          \* the project directories
  Tests,         \* the tests of a project
  Tools,         \* the analysis tools the user may choose
  Uses,          \* what the user gives in one behaviour: which commands, at most how many
  FirstDisk,     \* what earlier sessions may have left of a project
  MaxVersion,    \* bound on the versions of the sources
  VerdictsOf,    \* test |-> what ctest may report of it
  None

Verdicts == {"passed", "failed", "disabled"}

DiskSet == [src : Nat, bin : Nat, cache : BOOLEAN, failedLog : BOOLEAN, index : Nat]

ASSUME Constants ==
  /\ MaxVersion \in Nat /\ VerdictsOf \in [Tests -> SUBSET Verdicts] /\ None \notin Root /\ IsFiniteSet(Tests)
  /\ Tools \subseteq {"check", "sanitizers", "coverage", "valgrind", "perf"}
  /\ FirstDisk \subseteq [Root -> DiskSet]

VARIABLES
  root, preLaunch,                             \* the open project, "build before launch"
  disk,                                        \* what the builds and git leave on disk
  build, tests, analysis, run, debug, git, panel,
  target,                                      \* sanitizer_target_ is set
  deferred,                                    \* deferred_command_
  said,                                        \* the verdicts of the last ctest
  use, commands                                \* what the user does, and how much more of it

sessions == <<build, tests, analysis, run, debug, git, panel, target>>
Setting == <<root, preLaunch, use>>
project == <<root, preLaunch, disk, use>>
vars == <<project, sessions, deferred, said, commands>>

Procs == {"none", "running", "ok", "failed"}
Live(s) == s.proc = "running"
Ended(s) == s.proc \in {"ok", "failed"}

IdleBuild == [stage |-> "idle", op |-> "none", cont |-> "none", proc |-> "none", reads |-> 0, wants |-> 0, of |-> None]
IdleTests == [op |-> "idle", known |-> FALSE, status |-> [t \in Tests |-> "notrun"],
              proc |-> "none", out |-> <<>>, going |-> {}, todo |-> {}, of |-> None, ended |-> FALSE]
IdleAnalysis == [stage |-> "idle", proc |-> "none", of |-> None]
IdleRun == [mode |-> "idle", active |-> FALSE, proc |-> "none", bin |-> 0, wants |-> 0, of |-> None]
NoDebugger == [session |-> "none", active |-> FALSE, stopped |-> FALSE, bin |-> 0, wants |-> 0, of |-> None]
IdleGit == [op |-> "none", proc |-> "none", of |-> None, missed |-> FALSE]
NoPanel == [seen |-> None, of |-> None]
Silent == [t \in Tests |-> "nothing"]

Ignored == UNCHANGED <<project, sessions, said>>

-----------------------------------------------------------------------------
(* BuildWorkflow and BuildSession *)

FirstStage(op) ==
  LET configured == disk[root].cache
  IN CASE op = "configure" -> "configure"
       [] op = "build" -> IF configured THEN "build" ELSE "configure"
       [] op = "rebuild" -> IF configured THEN "clean" ELSE "configure"
       [] op = "clean" -> IF configured THEN "clean" ELSE "idle"

NextStage(b) ==
  IF \/ b.stage = "configure" /\ b.op # "configure"
     \/ b.stage = "clean" /\ b.op = "rebuild" THEN "build" ELSE "idle"

(* The stage command starts, or the operation is finished with a failure. *)
StartStage(b, stage) ==
  \E ok \in BOOLEAN :
    /\ build' = IF ok THEN [b EXCEPT !.stage = stage, !.proc = "running", !.reads = disk'[root].src]
                      ELSE IdleBuild

(* beginBuildOperation, begin and the first stage; the presets on disk may    *)
(* refuse the operation before anything is touched.                           *)
BeginBuild(op, cont) ==
  \/ UNCHANGED build
  \/ LET stage == FirstStage(op)
     IN IF stage = "idle" THEN build' = IdleBuild
        ELSE StartStage([IdleBuild EXCEPT !.op = op, !.cont = cont, !.of = root,
                                          !.wants = IF cont = "none" THEN 0 ELSE disk'[root].src], stage)

SaveAllDocuments ==
  \E v \in {disk[root].src, disk[root].src + 1} : v <= MaxVersion /\ disk' = [disk EXCEPT ![root].src = v]

BuildCommand(op) ==
  IF root # None /\ ~Live(tests) /\ ~Live(analysis) /\ build.stage = "idle"
  THEN /\ IF op = "clean" THEN UNCHANGED disk ELSE SaveAllDocuments
       /\ BeginBuild(op, "none")
       /\ UNCHANGED <<Setting, tests, analysis, run, debug, git, panel, target, said>>
  ELSE Ignored

CancelBuild ==
  /\ build' = IdleBuild
  /\ UNCHANGED <<project, tests, analysis, run, debug, git, panel, target, said>>

(* Mutant: a failed build starts the program as well. *)
FinishAnyway(ok) ==
  /\ build' = IdleBuild
  /\ deferred' = IF build.cont # "none" THEN [do |-> build.cont, wants |-> build.wants, of |-> root]
                 ELSE deferred

FinishBuild(ok) ==
  /\ build' = IdleBuild
  /\ deferred' = IF ok /\ build.cont # "none"
                 THEN [do |-> build.cont, wants |-> build.wants, of |-> root] ELSE deferred

(* Mutant: only the last stage is finished. *)
PollLastStage ==
  IF build.stage = "build" /\ Ended(build)
  THEN FinishBuild(build.proc = "ok")
  ELSE UNCHANGED <<build, deferred>>

PollBuild ==
  IF build.stage # "idle" /\ Ended(build)
  THEN IF build.proc = "ok" /\ NextStage(build) # "idle"
       THEN StartStage(build, "build") /\ UNCHANGED deferred
       ELSE FinishBuild(build.proc = "ok")
  ELSE UNCHANGED <<build, deferred>>

-----------------------------------------------------------------------------
(* CTestSession *)

Busy == \/ build.stage # "idle" \/ run.active \/ debug.session # "none"
        \/ Live(tests) \/ Live(analysis)

StoppedTests(s) ==
  [s EXCEPT !.op = "idle", !.proc = "none", !.out = <<>>, !.going = {}, !.todo = {},
            !.ended = FALSE,
            !.status = [t \in Tests |-> IF s.op # "idle" /\ s.status[t] = "running" THEN "notrun" ELSE s.status[t]]]

(* start(): what the process before this one printed and was not read yet is  *)
(* discarded. The output is followed when the tests are known, no other       *)
(* output changes anything.                                                   *)
StartTests(op, todo, before) ==
  \E ok \in BOOLEAN :
    /\ tests' = IF ok THEN [StoppedTests(before) EXCEPT !.op = op, !.proc = "running", !.of = root,
                                                       !.todo = IF before.known THEN todo ELSE {}]
                ELSE StoppedTests(before)
    /\ said' = Silent

TestCommand(op, todo, before) ==
  /\ StartTests(op, todo, before)
  /\ UNCHANGED <<Setting, build, analysis, run, debug, git, panel, target>>

DiscoverTests ==
  IF root # None /\ disk[root].cache /\ ~Busy
  THEN TestCommand("discover", {}, tests) /\ UNCHANGED disk ELSE Ignored

AllNotRun(s) ==
  [s EXCEPT !.status = [t \in Tests |-> IF s.status[t] = "disabled" THEN "disabled" ELSE "notrun"]]

RunAllTests ==
  IF tests.known /\ ~Busy
  THEN TestCommand("runall", Tests, AllNotRun(tests)) /\ SaveAllDocuments ELSE Ignored

RunSelectedTest ==
  IF tests.known /\ ~Busy
  THEN \E t \in Tests : TestCommand("selected", {t}, tests) /\ SaveAllDocuments ELSE Ignored

RerunFailedTests ==
  IF root # None /\ disk[root].failedLog /\ ~Busy
  THEN \E todo \in SUBSET Tests : TestCommand("rerun", todo, tests) /\ UNCHANGED disk ELSE Ignored

SelectCTestPreset ==
  IF root # None /\ ~Busy
  THEN TestCommand("preset", Tests, tests) /\ UNCHANGED disk ELSE Ignored

StopTests ==
  IF Live(tests)
  THEN /\ tests' = StoppedTests(tests)
       /\ UNCHANGED <<project, build, analysis, run, debug, git, panel, target, said>>
  ELSE Ignored

(* Mutant: a result is entered for the test that was started last. *)
IngestLast(status, line) ==
  IF line.what = "start" THEN [t \in Tests |-> IF t = line.test THEN "running" ELSE status[t]]
  ELSE [t \in Tests |-> IF status[t] = "running" THEN line.what ELSE status[t]]

(* ingestRunOutput, one line of output *)
Ingest(status, line) ==
  [status EXCEPT ![line.test] = IF line.what = "start" THEN "running" ELSE line.what]

Ingested(status, lines) ==
  LET after[n \in 0..Len(lines)] == IF n = 0 THEN status ELSE Ingest(after[n - 1], lines[n])
  IN  after[Len(lines)]

(* The list ctest gives of the tests, some of which it says are disabled.     *)
Discovered(off) == [t \in Tests |-> IF t \in off THEN "disabled" ELSE "notrun"]
MayBeOff == {t \in Tests : "disabled" \in VerdictsOf[t]}

(* poll(): the lines read so far; when the process has exited, the rest of    *)
(* them, and a test that has not ended has failed. A discovery that failed    *)
(* keeps the tests known before.                                              *)
PollTests ==
  IF tests.op = "idle" THEN UNCHANGED tests
  ELSE IF tests.op = "discover"
  THEN IF ~Ended(tests) THEN UNCHANGED tests
       ELSE IF tests.proc = "ok"
       THEN \E off \in SUBSET MayBeOff :
              tests' = [StoppedTests(tests) EXCEPT !.known = TRUE, !.status = Discovered(off)]
       ELSE tests' = [tests EXCEPT !.op = "idle", !.proc = "none"]
  ELSE LET status == IF tests.known THEN Ingested(tests.status, tests.out) ELSE tests.status
       IN tests' = IF Ended(tests)
                   THEN [tests EXCEPT !.op = "idle", !.proc = "none", !.out = <<>>, !.going = {}, !.todo = {}, !.ended = TRUE,
                           !.status = [t \in Tests |-> IF status[t] = "running" THEN "failed" ELSE status[t]]]
                   ELSE [tests EXCEPT !.out = <<>>, !.status = status]

-----------------------------------------------------------------------------
(* AnalysisSession and the stages IdeWindow chains *)

FirstAnalysisStage == [check |-> "check", sanitizers |-> "sanitizer configure",
  coverage |-> "coverage configure", valgrind |-> "valgrind", perf |-> "perf record"]
FirstStages == {FirstAnalysisStage[tool] : tool \in DOMAIN FirstAnalysisStage}

(* What follows a stage, or "idle". *)
AnalysisFollows(stage, ok) ==
  CASE stage = "sanitizer configure" /\ ok -> "sanitizer build"
    [] stage = "sanitizer build" /\ ok /\ target -> "sanitizer run"
    [] stage = "coverage configure" /\ ok -> "coverage build"
    [] stage = "coverage build" /\ ok -> "coverage run"
    [] stage = "coverage run" -> "coverage report"
    [] stage = "perf record" /\ ok -> "perf report"
    [] OTHER -> "idle"

StartAnalysis(stage) ==
  \E ok \in BOOLEAN :
    /\ analysis' = IF ok THEN [stage |-> stage, proc |-> "running", of |-> root] ELSE IdleAnalysis

HasTarget(tool) == tool \in {"sanitizers", "coverage"}

(* Mutant: tests are allowed to run. *)
AnalyzeBesideTests(tool) ==
  IF root # None /\ ~Live(analysis) /\ build.stage = "idle" /\ ~run.active /\ debug.session = "none"
  THEN /\ target' \in {FALSE, HasTarget(tool)}
       /\ StartAnalysis(FirstAnalysisStage[tool])
       /\ SaveAllDocuments
       /\ UNCHANGED <<Setting, build, tests, run, debug, git, panel, said>>
  ELSE Ignored

(* The dialogs and the checks after them may end the command when the target  *)
(* of the previous analysis is already forgotten.                             *)
RunAnalysis(tool) ==
  IF root # None /\ ~Busy
  THEN \/ Ignored
       \/ /\ target' = FALSE
          /\ UNCHANGED <<project, build, tests, analysis, run, debug, git, panel, said>>
       \/ /\ target' \in {FALSE, HasTarget(tool)}
          /\ StartAnalysis(FirstAnalysisStage[tool])
          /\ SaveAllDocuments
          /\ UNCHANGED <<Setting, build, tests, run, debug, git, panel, said>>
  ELSE Ignored

StopAnalysis ==
  IF Live(analysis)
  THEN /\ analysis' = IdleAnalysis
       /\ UNCHANGED <<project, build, tests, run, debug, git, panel, target, said>>
  ELSE Ignored

PollAnalysis ==
  IF analysis.stage # "idle" /\ Ended(analysis)
  THEN LET next == AnalysisFollows(analysis.stage, analysis.proc = "ok")
       IN IF next = "idle" THEN analysis' = IdleAnalysis
          ELSE StartAnalysis(next)
  ELSE UNCHANGED <<analysis>>

-----------------------------------------------------------------------------
(* RunSession, the launch commands and the debugger *)

StartRun(wants) ==
  IF root # None /\ disk[root].bin > 0
  THEN \E ok \in BOOLEAN, mode \in {"process", "terminal"} :
              /\ run' = IF ok THEN [mode |-> mode, active |-> TRUE, proc |-> "running",
                               bin |-> disk[root].bin, wants |-> wants, of |-> root] ELSE IdleRun
         /\ UNCHANGED <<debug>>
  ELSE UNCHANGED <<run, debug>>

(* The console of the program is opened first; without a debugger it is       *)
(* closed again.                                                              *)
StartDebug(wants) ==
  IF root # None /\ disk[root].bin > 0
  THEN \E ok \in BOOLEAN :
              /\ run' = IF ok THEN [IdleRun EXCEPT !.mode = "debug", !.of = root] ELSE IdleRun
         /\ debug' = IF ok THEN [session |-> "launch", active |-> TRUE, stopped |-> FALSE,
                                 bin |-> disk[root].bin, wants |-> wants, of |-> root] ELSE NoDebugger
  ELSE UNCHANGED <<run, debug>>

Launches == <<Setting, tests, analysis, git, panel, target, said>>

Run ==
  IF root # None /\ ~Live(tests) /\ ~Live(analysis) /\ build.stage = "idle"
  THEN IF preLaunch
       THEN SaveAllDocuments /\ BeginBuild("build", "run") /\ UNCHANGED <<run, debug, Launches>>
       ELSE SaveAllDocuments /\ StartRun(0) /\ UNCHANGED <<build, Launches>>
  ELSE Ignored

StopRun ==
  IF run.active
  THEN /\ run' = IdleRun
       /\ UNCHANGED <<project, build, tests, analysis, debug, git, panel, target, said>>
  ELSE Ignored

(* F5: continues a stopped program, or launches it. A launch whose program    *)
(* has ended runs again in the same gdb; lldb-dap is started anew.            *)
DebugRun ==
  IF Live(tests) \/ Live(analysis) \/ build.stage # "idle" \/ debug.session = "core"
     \/ (debug.session # "attach" /\ root = None)
  THEN Ignored
  ELSE IF debug.session = "attach" \/ debug.active
  THEN IF debug.active /\ debug.stopped
       THEN /\ debug' = [debug EXCEPT !.stopped = FALSE]
            /\ UNCHANGED <<project, build, tests, analysis, run, git, panel, target, said>>
       ELSE Ignored
  ELSE IF preLaunch
  THEN /\ SaveAllDocuments /\ BeginBuild("build", "debug")
       /\ debug' = NoDebugger
       /\ run' = IF debug.session = "launch" THEN IdleRun ELSE run
       /\ UNCHANGED Launches
  ELSE /\ SaveAllDocuments
       /\ UNCHANGED <<build, Launches>>
       /\ \/ StartDebug(0)
          \/ /\ debug.session = "launch"
             /\ debug' = [debug EXCEPT !.active = TRUE, !.stopped = FALSE, !.bin = disk[root].bin, !.wants = 0]
             /\ UNCHANGED <<run>>

DebugStop ==
  IF debug.session # "none"
  THEN /\ debug' = NoDebugger /\ run' = IdleRun
       /\ UNCHANGED <<project, build, tests, analysis, git, panel, target, said>>
  ELSE Ignored

DebugRestart ==
  IF root # None /\ build.stage = "idle" /\ debug.session = "launch"
  THEN /\ SaveAllDocuments /\ UNCHANGED Launches
       /\ IF preLaunch
          THEN BeginBuild("build", "debug") /\ debug' = NoDebugger /\ run' = IdleRun
          ELSE StartDebug(0) /\ UNCHANGED build
  ELSE Ignored

(* Attaching to a process and opening a core dump need no project. *)
OpenDebugger(session) ==
  IF ~Busy
  THEN \E ok \in BOOLEAN :
              /\ IF ok THEN /\ debug' = [NoDebugger EXCEPT !.session = session, !.active = TRUE, !.stopped = TRUE, !.of = root]
                       /\ run' = IdleRun
                  ELSE UNCHANGED <<debug, run>>
         /\ UNCHANGED <<project, build, tests, analysis, git, panel, target, said>>
  ELSE Ignored

(* The slot after a pre-launch build: startRun() and startDebug() test        *)
(* nothing of what the guards of Run and DebugRun test.                       *)
Launch(launch) ==
  /\ IF launch.do = "run" THEN StartRun(launch.wants) ELSE StartDebug(launch.wants)
  /\ UNCHANGED <<disk, build, Launches>>

PollRun ==
  run' = IF run.active /\ Ended(run) THEN IdleRun ELSE run

-----------------------------------------------------------------------------
(* GitSession *)

GitStarts(op) ==
  {git, [op |-> op, proc |-> "running", of |-> root, missed |-> git.missed /\ op # "status"]}

(* Refreshing, staging or unstaging a file of the panel, its diff, history;   *)
(* a git that still runs refuses it.                                          *)
GitCommand(op) ==
  IF root # None /\ git.op = "none" /\ (op \in {"status", "history"} \/ panel.seen # None)
  THEN /\ git' \in GitStarts(op)
       /\ UNCHANGED <<project, build, tests, analysis, run, debug, panel, target, said>>
  ELSE Ignored

(* Mutant: the panel waits for the user to refresh it. *)
PollGitOnce ==
  IF git.op # "none" /\ Ended(git)
  THEN /\ git' = IdleGit
       /\ panel' = IF git.op = "status"
                   THEN [of |-> root, seen |-> IF git.proc = "ok" THEN disk[root].index ELSE None] ELSE panel
  ELSE UNCHANGED <<git, panel>>

(* A finished status is shown, a finished staging is followed by a status. An *)
(* idle git is asked again every fifty events when the panel is in view; only *)
(* refreshes that may show something new are followed.                        *)
PollGit ==
  IF git.op # "none" /\ Ended(git)
  THEN IF git.op = "stage" /\ git.proc = "ok"
       THEN /\ UNCHANGED panel
            /\ \E ok \in BOOLEAN :
                 git' = IF ok THEN [op |-> "status", proc |-> "running", of |-> root, missed |-> FALSE]
                              ELSE [IdleGit EXCEPT !.missed = TRUE]
       ELSE /\ git' = [IdleGit EXCEPT !.missed = git.missed]
            /\ panel' = IF git.op = "status"
                        THEN [of |-> root, seen |-> IF git.proc = "ok" THEN disk[root].index ELSE None] ELSE panel
  ELSE /\ UNCHANGED panel
       /\ git' \in IF root # None /\ git.op = "none" /\ panel.seen # disk[root].index
                   THEN {git} \cup GitStarts("status") ELSE {git}


-----------------------------------------------------------------------------
(* Opening and closing a project *)

(* Mutant: the analysis of the closed project goes on. *)
UnloadedButAnalysis ==
  /\ build' = IdleBuild /\ tests' = IdleTests /\ UNCHANGED <<analysis, target>>
  /\ run' = IdleRun /\ debug' = NoDebugger

Unloaded ==
  /\ build' = IdleBuild /\ tests' = IdleTests /\ analysis' = IdleAnalysis /\ target' = FALSE
  /\ run' = IdleRun /\ debug' = NoDebugger

OpenProject(p) ==
  /\ Unloaded /\ root' = p /\ said' = Silent
  /\ panel' = [of |-> p, seen |-> None]
  /\ \E ok \in BOOLEAN :
       git' = IF ok THEN [op |-> "status", proc |-> "running", of |-> p, missed |-> FALSE] ELSE [IdleGit EXCEPT !.missed = TRUE]
  /\ UNCHANGED <<preLaunch, use, disk>>

CloseProject ==
  IF root # None
  THEN /\ Unloaded /\ root' = None /\ said' = Silent /\ panel' = NoPanel /\ git' = IdleGit
       /\ UNCHANGED <<preLaunch, use, disk>>
  ELSE Ignored

-----------------------------------------------------------------------------
(* The tools themselves *)

Window == <<Setting, deferred, commands, panel, target>>

(* A stage ends. A failed configure may leave a cache; a build reads the      *)
(* sources as they were when it began.                                        *)
CMakeExits ==
  /\ Live(build)
  /\ \E ok \in BOOLEAN :
       /\ build' = [build EXCEPT !.proc = IF ok THEN "ok" ELSE "failed"]
       /\ disk' = CASE build.stage = "configure" -> [disk EXCEPT ![root].cache = TRUE]
                    [] build.stage = "clean" -> [disk EXCEPT ![root].bin = IF ok THEN 0 ELSE @]
                    [] build.stage = "build" -> [disk EXCEPT ![root].bin = IF ok THEN build.reads ELSE @]
  /\ UNCHANGED <<Window, tests, analysis, run, debug, git, said>>

(* A failed configure that left no cache *)
ConfigureFails ==
  /\ Live(build) /\ build.stage = "configure"
  /\ build' = [build EXCEPT !.proc = "failed"]
  /\ UNCHANGED <<disk, Window, tests, analysis, run, debug, git, said>>

Prints(line) == tests' = [tests EXCEPT !.out = Append(@, line),
  !.going = IF line.what = "start" THEN @ \cup {line.test} ELSE @ \ {line.test},
  !.todo = @ \ {line.test}]

(* ctest runs one test after the other, or several when a preset asks for it. *)
CTestStarts(t) ==
  /\ Live(tests) /\ t \in tests.todo /\ (tests.op = "preset" \/ tests.going = {})
  /\ Prints([what |-> "start", test |-> t])
  /\ said' = [said EXCEPT ![t] = "started"]
  /\ UNCHANGED <<disk, Window, build, analysis, run, debug, git>>

CTestReports(t, verdict) ==
  /\ Live(tests) /\ t \in tests.going
  /\ Prints([what |-> verdict, test |-> t])
  /\ said' = [said EXCEPT ![t] = verdict]
  /\ UNCHANGED <<disk, Window, build, analysis, run, debug, git>>

(* ctest ends, at its end or killed; a discovery ends with or without a list. *)
CTestExits ==
  /\ Live(tests)
  /\ \E ok \in BOOLEAN :
       /\ ok => tests.todo = {} /\ tests.going = {}
       /\ tests' = [tests EXCEPT !.proc = IF ok THEN "ok" ELSE "failed"]
       /\ disk' = [disk EXCEPT ![root].failedLog = IF tests.op = "discover" THEN @ ELSE ~ok]
  /\ UNCHANGED <<Window, build, analysis, run, debug, git, said>>

AnalyzerExits ==
  /\ Live(analysis)
  /\ \E exit \in {"ok", "failed"} : analysis' = [analysis EXCEPT !.proc = exit]
  /\ UNCHANGED <<disk, Window, build, tests, run, debug, git, said>>

GitExits ==
  /\ Live(git)
  /\ \E exit \in {"ok", "failed"} :
       /\ git' = [git EXCEPT !.proc = exit]
       /\ disk' = [disk EXCEPT ![root].index = IF git.op = "stage" /\ exit = "ok" THEN @ + 1 ELSE @]
  /\ UNCHANGED <<Window, build, tests, analysis, run, debug, said>>

ProgramExits ==
  /\ Live(run)
  /\ run' = [run EXCEPT !.proc = "ok"]
  /\ UNCHANGED <<disk, Window, build, tests, analysis, debug, git, said>>

(* The debuggee stops or ends, or the debugger dies. *)
DebuggerMoves ==
  /\ debug.session # "none"
  /\ \/ debug.active /\ ~debug.stopped /\ debug' = [debug EXCEPT !.stopped = TRUE]
     \/ debug.active /\ debug' = [debug EXCEPT !.active = FALSE, !.stopped = FALSE]
     \/ debug' = NoDebugger
  /\ UNCHANGED <<disk, Window, build, tests, analysis, run, git, said>>

-----------------------------------------------------------------------------
(* The window *)

KeysOfThePanel == {"status", "stage"}
KeyCommands == {"build", "run", "debug"} \cup KeysOfThePanel

CommandOfKey(c) ==
  \/ c = "build" /\ BuildCommand(c)
  \/ c = "run" /\ Run
  \/ c = "debug" /\ DebugRun
  \/ c \in {"status", "stage"} /\ GitCommand(c)

CommandOfMenu(c) ==
  \/ c \in {"configure", "rebuild", "clean"} /\ BuildCommand(c)
  \/ c = "cancel build" /\ IF build.stage # "idle" THEN CancelBuild ELSE Ignored
  \/ c = "stop run" /\ StopRun
  \/ c = "stop debug" /\ DebugStop
  \/ c = "restart debug" /\ DebugRestart
  \/ c \in {"attach", "core"} /\ OpenDebugger(c)
  \/ c = "discover" /\ DiscoverTests
  \/ c = "run tests" /\ RunAllTests
  \/ c = "run test" /\ RunSelectedTest
  \/ c = "rerun tests" /\ RerunFailedTests
  \/ c = "test preset" /\ SelectCTestPreset
  \/ c = "stop tests" /\ StopTests
  \/ c = "analyze" /\ \E tool \in Tools : RunAnalysis(tool)
  \/ c = "stop analysis" /\ StopAnalysis
  \/ c \in {"diff", "history"} /\ GitCommand(c)
  \/ c = "open" /\ \E p \in Root : OpenProject(p)
  \/ c = "close" /\ CloseProject

(* A key calls its command at once; a menu fills the slot, over whatever it   *)
(* held.                                                                      *)
Press(c) ==
  /\ commands > 0 /\ commands' = commands - 1
  /\ CommandOfKey(c) /\ UNCHANGED deferred

Click(c) ==
  /\ commands > 0 /\ commands' = commands - 1
  /\ deferred' = [do |-> "command", command |-> c, of |-> None]
  /\ UNCHANGED <<project, sessions, said>>

(* A timer event executes the command of the slot and returns, or polls. *)
Poll ==
  /\ UNCHANGED <<project, debug, target, said, commands>>
  /\ PollGit /\ PollBuild /\ PollAnalysis /\ PollTests /\ PollRun

OnTimer ==
  IF deferred # None
  THEN /\ deferred' = None /\ UNCHANGED commands
       /\ IF deferred.do = "command" THEN CommandOfKey(deferred.command) \/ CommandOfMenu(deferred.command) ELSE Launch(deferred)
  ELSE Poll

Init ==
  /\ root \in Root \cup {None} /\ preLaunch \in BOOLEAN
  /\ disk \in FirstDisk /\ use \in Uses
  /\ build = IdleBuild /\ tests = IdleTests /\ analysis = IdleAnalysis /\ run = IdleRun
  /\ debug = NoDebugger /\ git = IdleGit /\ panel = [NoPanel EXCEPT !.of = root]
  /\ target = FALSE /\ deferred = None /\ said = Silent /\ commands = use.most

ToolExits == CMakeExits \/ ConfigureFails \/ CTestExits \/ AnalyzerExits \/ GitExits

Next ==
  \/ \E c \in use.gives \cap KeyCommands : Press(c)
  \/ \E c \in use.gives \ KeysOfThePanel : Click(c)
  \/ OnTimer
  \/ ToolExits
  \/ \E t \in Tests : CTestStarts(t) \/ \E v \in VerdictsOf[t] : CTestReports(t, v)
  \/ ProgramExits \/ DebuggerMoves

Fairness ==
  /\ WF_vars(OnTimer) /\ WF_vars(CMakeExits) /\ WF_vars(AnalyzerExits) /\ WF_vars(GitExits)
  /\ WF_vars(CTestExits)

Spec == Init /\ [][Next]_vars /\ Fairness

-----------------------------------------------------------------------------
(* Properties *)

Stages == {"idle", "configure", "build", "clean"}
TypeOK ==
  /\ root \in Root \cup {None} /\ build.stage \in Stages
  /\ {build.proc, tests.proc, analysis.proc, run.proc, git.proc} \subseteq Procs
  /\ \A t \in Tests : tests.status[t] \in {"notrun", "running"} \cup Verdicts
  /\ build.stage = "idle" <=> build.proc = "none"
  /\ tests.op = "idle" <=> tests.proc = "none"
  /\ analysis.stage = "idle" <=> analysis.proc = "none"
  /\ git.op = "none" <=> git.proc = "none"
  /\ run.active <=> run.proc # "none"

(* CMake, ctest and the first stage of an analysis never run beside each      *)
(* other, and tests never beside the program or a debugger, whatever was      *)
(* started between the exit of one of them and the poll that notices it. The  *)
(* later stages of an analysis are started by the poll without such a test.   *)
Exclusive ==
  /\ TypeOK
  /\ ~(Live(build) /\ Live(tests))
  /\ Live(tests) => ~Live(run) /\ debug.session = "none"
  /\ Live(analysis) /\ analysis.stage \in FirstStages =>
       ~Live(build) /\ ~Live(tests) /\ ~Live(run) /\ debug.session = "none"

(* A program or a debuggee that waited for a pre-launch build is at least as  *)
(* new as the sources that were saved when the user asked for it: no launch   *)
(* after a stage that failed, was cancelled or only configured.               *)
LaunchFresh ==
  /\ Live(run) => run.bin >= run.wants
  /\ debug.session = "launch" => debug.bin >= debug.wants

(* At the end of a run the panel says of every test what ctest last printed   *)
(* of it, a test that ctest began and never reported has failed, and while    *)
(* no ctest runs no test is shown as running.                                 *)
TestsSettle ==
  tests.op = "idle" =>
    \A t \in Tests : /\ tests.status[t] # "running"
                     /\ tests.known /\ tests.ended => CASE said[t] = "nothing" -> TRUE
                                      [] said[t] = "started" -> tests.status[t] = "failed"
                                      [] OTHER -> tests.status[t] = said[t]

(* What runs, waits or is shown belongs to the project that is open, also     *)
(* after another project was opened while it ran.                             *)
OfThisProject ==
  /\ build.stage # "idle" => build.of = root
  /\ tests.op # "idle" => tests.of = root
  /\ analysis.stage # "idle" => analysis.of = root
  /\ run.active => run.of = root
  /\ debug.session # "none" => debug.of = root
  /\ git.op # "none" => git.of = root
  /\ panel.of = root
  /\ deferred # None => deferred.of \in {root, None}
  /\ root = None => ~tests.known

(* While git is idle the panel shows the index as the last staging left it,   *)
(* unless a git could not be started.                                         *)
GitCurrent ==
  git.op = "none" /\ ~git.missed /\ panel.seen # None => panel.seen = disk[root].index

(* Once the user gives no more commands every operation ends and the command  *)
(* in the slot is executed: the tools end, the timer runs on, and no finished *)
(* stage or test run is left unnoticed. git may be asked again and again.     *)
OperationsEnd ==
  /\ <>[](build.stage = "idle" /\ tests.op = "idle" /\ analysis.stage = "idle" /\ deferred = None)
  /\ []<>(git.op = "none")

-----------------------------------------------------------------------------
(* The inductive invariant *)

Projects == Root \cup {None}
Statuses == {"notrun", "running"} \cup Verdicts
LineSet == [what : {"start"} \cup Verdicts, test : Tests]
Following == {"sanitizer build", "sanitizer run", "coverage build", "coverage run", "coverage report", "perf report"}

BuildSet == [stage : Stages, op : {"none", "configure", "build", "rebuild", "clean"}, cont : {"none", "run", "debug"},
             proc : Procs, reads : Nat, wants : Nat, of : Projects]
TestsSet == [op : {"idle", "discover", "runall", "selected", "rerun", "preset"}, known : BOOLEAN,
             status : [Tests -> Statuses], proc : Procs, out : Seq(LineSet), going : SUBSET Tests,
             todo : SUBSET Tests, of : Projects, ended : BOOLEAN]
AnalysisSet == [stage : {"idle"} \cup FirstStages \cup Following, proc : Procs, of : Projects]
RunSet == [mode : {"idle", "process", "terminal", "debug"}, active : BOOLEAN, proc : Procs, bin : Nat, wants : Nat,
           of : Projects]
DebugSet == [session : {"none", "launch", "attach", "core"}, active : BOOLEAN, stopped : BOOLEAN, bin : Nat,
             wants : Nat, of : Projects]
GitSet == [op : {"none", "status", "stage", "diff", "history"}, proc : Procs, of : Projects, missed : BOOLEAN]
LaunchSet == [do : {"run", "debug"}, wants : Nat, of : Projects]

DiskInv == disk \in [Root -> DiskSet] /\ root \in Projects

(* What is built for a launch was saved before, is read by the build, and is  *)
(* what the build leaves.                                                     *)
BuildInv ==
  /\ build \in BuildSet
  /\ build.stage = "idle" <=> build.proc = "none"
  /\ build.stage # "idle" =>
       /\ root # None /\ build.of = root
       /\ build.wants <= build.reads /\ build.reads <= disk[root].src
       /\ build.stage = "clean" => build.cont = "none"
       /\ build.stage = "configure" /\ build.cont # "none" => build.op = "build"
       /\ build.stage = "build" /\ build.proc = "ok" => build.wants <= disk[root].bin

(* What the panel says of a test, or will say when the printed lines are      *)
(* read, is what ctest has said.                                              *)
Running(s) == s.op \notin {"idle", "discover"} /\ s.known
TestsAre(s, words, open) ==
  /\ s \in TestsSet /\ words \in [Tests -> {"nothing", "started"} \cup Verdicts]
  /\ s.op = "idle" <=> s.proc = "none"
  /\ s.op # "idle" => open # None /\ s.of = open /\ ~s.ended
  /\ open = None => ~s.known
  /\ ~Running(s) => /\ s.todo = {} /\ s.going = {} /\ s.out = <<>>
                    /\ \A t \in Tests : s.status[t] # "running"
  /\ Running(s) =>
       \A t \in Tests : /\ words[t] = "started" => Ingested(s.status, s.out)[t] = "running"
                        /\ words[t] \in Verdicts => Ingested(s.status, s.out)[t] = words[t]
  /\ s.op = "idle" /\ s.known /\ s.ended =>
       \A t \in Tests : /\ words[t] = "started" => s.status[t] = "failed"
                        /\ words[t] \in Verdicts => s.status[t] = words[t]
TestsInv == TestsAre(tests, said, root)

AnalysisInv ==
  /\ analysis \in AnalysisSet /\ target \in BOOLEAN
  /\ analysis.stage = "idle" <=> analysis.proc = "none"
  /\ analysis.stage # "idle" => root # None /\ analysis.of = root

LaunchInv ==
  /\ run \in RunSet /\ debug \in DebugSet
  /\ run.active <=> run.proc # "none"
  /\ run.active => run.of = root
  /\ debug.session # "none" => debug.of = root
  /\ run.wants <= run.bin /\ debug.wants <= debug.bin

(* The index the panel shows is the one on disk, but for a staging that has   *)
(* ended and is not noticed yet and the status that follows it.               *)
GitInv ==
  /\ git \in GitSet /\ panel.of = root
  /\ git.op = "none" <=> git.proc = "none"
  /\ git.op # "none" => root # None /\ git.of = root
  /\ panel.seen # None => root # None
  /\ git.op = "status" \/ (git.op = "stage" /\ git.proc = "ok") \/ git.missed \/ panel.seen = None
       \/ panel.seen = disk[root].index

FirstRuns == Live(analysis) /\ analysis.stage \in FirstStages

(* The launch in the slot: nothing that excludes it can start before it.      *)
SlotInv ==
  deferred # None /\ deferred.do # "command" =>
    /\ deferred \in LaunchSet /\ root # None /\ deferred.of = root
    /\ ~Live(tests) /\ ~FirstRuns /\ build.stage # "clean"
    /\ deferred.wants <= disk[root].bin /\ deferred.wants <= disk[root].src
    /\ build.stage # "idle" => deferred.wants <= build.reads

ExclusiveInv ==
  /\ build.stage # "idle" => ~Live(tests) /\ ~FirstRuns
  /\ Live(tests) => ~FirstRuns
  /\ Live(tests) \/ FirstRuns => ~run.active /\ debug.session = "none"

IInv ==
  /\ DiskInv /\ BuildInv /\ TestsInv /\ AnalysisInv /\ LaunchInv /\ GitInv /\ SlotInv
  /\ ExclusiveInv /\ (deferred # None => deferred.of \in {root, None})
=============================================================================
