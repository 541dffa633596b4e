------------------------ MODULE ChildProcesses_proofs ------------------------
(***************************************************************************)
(* Proofs about AsyncProcess: the inductive invariant IInv, the three      *)
(* invariants it implies, and the implementation of ProcessStream;         *)
(* about PseudoTerminal, the other owner of a child process: what a run    *)
(* that has ended has shown; and about LldbDapClient, which drives its     *)
(* adapter through an AsyncProcess: breakpoints and state agree. They hold *)
(* for any number of descendants, starts and chunks, breakpoints, threads  *)
(* and sessions, and whether or not descendants may leave the group.       *)
(***************************************************************************)
EXTENDS ChildProcesses, DebugClient, DataLemmas, SequenceTheorems, TLAPS

USE AsyncProcessAssumption

\* The initial state satisfies the inductive invariant.
LEMMA InitIInv == Init => IInv
  <1> SUFFICES ASSUME Init PROVE IInv
    OBVIOUS
  <1>1. TypeOK      BY EmptySeq DEF Init, TypeOK, Procs
  <1>2. ThreadsInv  BY DEF Init, ThreadsInv
  <1>3. PipeInv     BY DEF Init, PipeInv, Holders, Procs
  <1>4. StopInv     BY DEF Init, StopInv, Disowned, Group
  <1> QED BY <1>1, <1>2, <1>3, <1>4 DEF IInv

\* A step of the UI thread inside stop() or start() preserves it.
LEMMA UiStepIInv == ASSUME IInv, UiStep PROVE IInv'
  <1> USE DEF IInv, TypeOK, ThreadsInv, PipeInv, StopInv, Disowned, Procs, Group, Holders,
              uiVars, threadVars, kernelVars
  <1>1. CASE GraceOver     BY <1>1 DEF GraceOver, GroupExists
  <1>2. CASE GraceExpired  BY <1>2 DEF GraceExpired
  <1>3. CASE JoinReader    BY <1>3 DEF JoinReader
  <1>4. CASE JoinWaiter    BY <1>4 DEF JoinWaiter
  <1>5. CASE Spawn         BY <1>5 DEF Spawn
  <1>6. CASE SpawnFails    BY <1>6 DEF SpawnFails
  <1>7. CASE SpawnUnwaited
    <2>1. TypeOK'
      <3>1. /\ starts' \in Nat /\ exit_code' \in Codes \cup {None} /\ holds' \in [Procs -> Nat]
            /\ alive' \subseteq Procs /\ outside' \subseteq alive' /\ doomed' \subseteq alive'
        BY <1>7 DEF SpawnUnwaited
      <3>2. ui' = "unwind" /\ reader' = "reading" /\ launched' = FALSE
            /\ UNCHANGED <<after, process_group, input, output, delivered, running, waiter, unreaped, pipe>>
        BY <1>7 DEF SpawnUnwaited
      <3> QED BY <3>1, <3>2
    <2>2. ThreadsInv'  BY <1>7 DEF SpawnUnwaited
    <2>3. PipeInv'     BY <1>7 DEF SpawnUnwaited
    <2>4. StopInv'     BY <1>7 DEF SpawnUnwaited
    <2> QED BY <2>1, <2>2, <2>3, <2>4
  <1>8. CASE KillUnwaited   BY <1>8 DEF KillUnwaited
  <1>9. CASE ReapUnwaited   BY <1>9 DEF ReapUnwaited
  <1>10. CASE JoinUnwaited  BY <1>10 DEF JoinUnwaited
  <1> QED BY <1>1, <1>2, <1>3, <1>4, <1>5, <1>6, <1>7, <1>8, <1>9, <1>10 DEF UiStep, Unwinding

\* A call of the owner preserves it.
LEMMA OwnerCallIInv == ASSUME IInv, OwnerCall PROVE IInv'
  <1> USE DEF IInv, TypeOK, ThreadsInv, PipeInv, StopInv, Disowned, Procs, Group, Holders,
              uiVars, threadVars, kernelVars
  <1>1. ASSUME NEW next \in {"return", "spawn"}, BeginStop(next) PROVE IInv'
    <2>1. TypeOK'      BY <1>1 DEF BeginStop
    <2>2. ThreadsInv'  BY <1>1 DEF BeginStop
    <2>3. PipeInv'     BY <1>1 DEF BeginStop
    <2>4. StopInv'     BY <1>1 DEF BeginStop
    <2> QED BY <2>1, <2>2, <2>3, <2>4
  <1>2. CASE Drain
    <2>1. delivered' \in Seq(Nat)  BY <1>2, ConcatProperties DEF Drain
    <2> QED BY <1>2, <2>1 DEF Drain
  <1>3. CASE CloseInput  BY <1>3 DEF CloseInput
  <1> QED BY <1>1, <1>2, <1>3 DEF OwnerCall, Stop, Start

\* A step of the reader or of the waiter preserves it.
LEMMA ThreadStepIInv == ASSUME IInv, ReaderStep \/ WaiterStep PROVE IInv'
  <1> USE DEF IInv, TypeOK, ThreadsInv, PipeInv, StopInv, Disowned, Procs, Group, Holders,
              uiVars, threadVars, kernelVars
  <1>1. CASE ReaderRead
    <2>1. output' \in Seq(Nat) /\ pipe' \in Seq(Nat)
      BY <1>1, HeadTailProperties, AppendProperties DEF ReaderRead
    <2> QED BY <1>1, <2>1 DEF ReaderRead
  <1>2. CASE ReaderEof      BY <1>2 DEF ReaderEof
  <1>3. CASE WaiterReap     BY <1>3 DEF WaiterReap
  <1>4. CASE WaiterPublish  BY <1>4 DEF WaiterPublish
  <1> QED BY <1>1, <1>2, <1>3, <1>4 DEF ReaderStep, WaiterStep

\* A step of the child or of a descendant preserves it.
LEMMA ProcessStepIInv == ASSUME IInv, ProcessStep PROVE IInv'
  <1> USE DEF IInv, TypeOK, ThreadsInv, PipeInv, StopInv, Disowned, Procs, Group, Holders,
              uiVars, threadVars, kernelVars
  <1>1. ASSUME NEW p \in Procs, NEW k \in Kids, Fork(p, k) PROVE IInv'
    BY <1>1 DEF Fork
  <1>2. ASSUME NEW k \in Kids, Escape(k) PROVE IInv'
    BY <1>2 DEF Escape
  <1>3. ASSUME NEW p \in Procs, CloseOutput(p) PROVE IInv'
    BY <1>3 DEF CloseOutput
  <1>4. ASSUME NEW p \in Procs, Emit(p) PROVE IInv'
    <2>1. pipe' \in Seq(Nat)  BY <1>4, AppendProperties DEF Emit
    <2> QED BY <1>4, <2>1 DEF Emit
  <1>5. ASSUME NEW p \in Procs, Exit(p) PROVE IInv'
    BY <1>5 DEF Exit
  <1> QED BY <1>1, <1>2, <1>3, <1>4, <1>5 DEF ProcessStep

\* Every step of a thread, a process or the owner keeps the invariant.
LEMMA NextIInv == IInv /\ [Next]_vars => IInv'
  <1> SUFFICES ASSUME IInv, [Next]_vars PROVE IInv'
    OBVIOUS
  <1>1. CASE UNCHANGED vars
    BY <1>1 DEF vars, uiVars, threadVars, kernelVars, IInv, TypeOK, ThreadsInv, PipeInv,
                StopInv, Disowned, Procs, Group, Holders
  <1> QED BY <1>1, UiStepIInv, OwnerCallIInv, ThreadStepIInv, ProcessStepIInv DEF Next

\* IInv holds throughout every behaviour of AsyncProcess.
THEOREM SpecIInv == Spec => []IInv
  BY InitIInv, NextIInv, PTL DEF Spec

----------------------------------------------------------------------------
(* What IInv implies. *)

\* The fields keep the types process.hpp gives them (TypeOK).
THEOREM SpecTypeOK == Spec => []TypeOK
  <1>1. IInv => TypeOK  BY DEF IInv
  <1> QED BY <1>1, SpecIInv, PTL

\* running() == false after a successful start() comes with an exit code, however
\* the child ended and whoever else still lives (WaiterReap before WaiterPublish).
THEOREM SpecExitPublished == Spec => []ExitPublished
  <1>1. IInv => ExitPublished  BY DEF IInv, ThreadsInv, ExitPublished
  <1> QED BY <1>1, SpecIInv, PTL

\* A returned stop() leaves no thread, no input, no unread output and no member
\* of the group that is not being killed, whatever the descendants did.
THEOREM SpecStopReleasesAll == Spec => []StopReleasesAll
  <1>1. IInv => StopReleasesAll
    BY DEF IInv, TypeOK, ThreadsInv, PipeInv, StopInv, Disowned, StopReleasesAll
  <1> QED BY <1>1, SpecIInv, PTL

----------------------------------------------------------------------------
(* AsyncProcess implements ProcessStream. *)

\* A nonempty sequence is its head followed by its tail.
LEMMA HeadConcatTail ==
  ASSUME NEW S, NEW s \in Seq(S), s # <<>>
  PROVE  s = <<Head(s)>> \o Tail(s)
  <1> DEFINE h == Head(s)
             t == Tail(s)
             c == <<h>> \o t
  <1>1. /\ h \in S /\ t \in Seq(S) /\ Len(t) = Len(s) - 1
        /\ \A i \in 1 .. Len(t) : t[i] = s[i + 1]
    BY HeadTailProperties
  <1>2. h = s[1] /\ Len(s) \in Nat \ {0}  BY LenProperties, EmptySeq
  <1>3. <<h>> \in Seq(S) /\ Len(<<h>>) = 1 /\ <<h>>[1] = h  BY <1>1
  <1> HIDE DEF h, t
  <1>4. /\ c \in Seq(S) /\ Len(c) = 1 + Len(t)
        /\ \A i \in 1 .. 1 + Len(t) : c[i] = IF i <= 1 THEN <<h>>[i] ELSE t[i - 1]
    BY <1>1, <1>3, ConcatProperties
  <1> HIDE DEF c
  <1>5. ASSUME NEW i \in 1 .. Len(s) PROVE s[i] = c[i]
    <2>1. CASE i = 1  BY <2>1, <1>1, <1>2, <1>3, <1>4
    <2>2. CASE i # 1
      <3>1. i - 1 \in 1 .. Len(t) /\ i \in 1 .. 1 + Len(t) /\ ~(i <= 1) /\ (i - 1) + 1 = i
        BY <2>2, <1>1, <1>2
      <3>2. t[i - 1] = s[(i - 1) + 1]  BY <3>1, <1>1
      <3> QED BY <3>1, <3>2, <1>4
    <2> QED BY <2>1, <2>2
  <1>6. Len(s) = Len(c)  BY <1>1, <1>2, <1>4
  <1>7. s = c  BY <1>4, <1>5, <1>6, SeqEqual
  <1> QED BY <1>7 DEF c, h, t

Emitted == delivered \o output \o pipe
ShownCode == IF running THEN None ELSE exit_code

\* The state ProcessStream sees is unchanged by a step that leaves these alone.
LEMMA StreamStutter ==
  ASSUME UNCHANGED <<starts, running, ShownCode, Emitted, delivered>>
  PROVE  UNCHANGED Stream!streamVars
  BY DEF Stream!streamVars, Emitted, ShownCode

\* A process that was never started is a stream that was never opened.
LEMMA StreamInit == Init => Stream!Init
  <1> SUFFICES ASSUME Init PROVE Stream!Init
    OBVIOUS
  <1>1. delivered \o output \o pipe = <<>>  BY ConcatEmptySeq, EmptySeq DEF Init
  <1> QED BY <1>1 DEF Init, Stream!Init

\* Spawn is Launch, and a start() that fails is LaunchFails or invisible, whether
\* or not there was a child for a moment; everything else of the UI thread's
\* stop() and start() is invisible.
LEMMA StreamUiStep == ASSUME IInv, UiStep PROVE [Stream!Next]_(Stream!streamVars)
  <1> USE DEF IInv, TypeOK, ThreadsInv, PipeInv, StopInv, Disowned, uiVars, threadVars, kernelVars
  <1>1. CASE GraceOver     BY <1>1, StreamStutter DEF GraceOver, Emitted, ShownCode
  <1>5. CASE GraceExpired  BY <1>5, StreamStutter DEF GraceExpired, Emitted, ShownCode
  <1>6. CASE JoinReader    BY <1>6, StreamStutter DEF JoinReader, Emitted, ShownCode
  <1>2. CASE JoinWaiter    BY <1>2, StreamStutter DEF JoinWaiter, Emitted, ShownCode
  <1>3. CASE Spawn
    <2>1. Stream!Launch  BY <1>3 DEF Spawn, Stream!Launch
    <2> QED BY <2>1 DEF Stream!Next
  <1>4. CASE SpawnFails
    <2>1. ~running  BY <1>4 DEF SpawnFails
    <2>2. CASE exit_code' = exit_code
      BY <1>4, <2>1, <2>2, StreamStutter DEF SpawnFails, Emitted, ShownCode
    <2>3. CASE exit_code' = None
      <3>1. Stream!LaunchFails  BY <1>4, <2>1, <2>3 DEF SpawnFails, Stream!LaunchFails
      <3> QED BY <3>1 DEF Stream!Next
    <2> QED BY <1>4, <2>2, <2>3 DEF SpawnFails
  <1>7. CASE SpawnUnwaited
    <2>1. ~running  BY <1>7 DEF SpawnUnwaited
    <2>2. Stream!LaunchFails  BY <1>7, <2>1 DEF SpawnUnwaited, Stream!LaunchFails
    <2> QED BY <2>2 DEF Stream!Next
  <1>8. CASE KillUnwaited   BY <1>8, StreamStutter DEF KillUnwaited, Emitted, ShownCode
  <1>9. CASE ReapUnwaited   BY <1>9, StreamStutter DEF ReapUnwaited, Emitted, ShownCode
  <1>10. CASE JoinUnwaited  BY <1>10, StreamStutter DEF JoinUnwaited, Emitted, ShownCode
  <1> QED BY <1>1, <1>2, <1>3, <1>4, <1>5, <1>6, <1>7, <1>8, <1>9, <1>10 DEF UiStep, Unwinding

\* A drain() is Take: it hands over the oldest chunks and reorders nothing.
LEMMA StreamOwnerCall == ASSUME IInv, OwnerCall PROVE [Stream!Next]_(Stream!streamVars)
  <1> USE DEF IInv, TypeOK, uiVars, threadVars, kernelVars
  <1>1. ASSUME NEW next, BeginStop(next) PROVE UNCHANGED Stream!streamVars
    BY <1>1, StreamStutter DEF BeginStop, Emitted, ShownCode
  <1>3. CASE CloseInput
    BY <1>3, StreamStutter DEF CloseInput, Emitted, ShownCode
  <1>2. CASE Drain
    <2>1. delivered' \o output' \o pipe' = delivered \o output \o pipe
      <3>1. delivered \o output \in Seq(Nat)  BY ConcatProperties
      <3>2. (delivered \o output) \o <<>> = delivered \o output  BY <3>1, ConcatEmptySeq
      <3> QED BY <1>2, <3>2 DEF Drain
    <2>2. Len(delivered') \in Len(delivered) .. Len(delivered \o output \o pipe)
      <3>1. delivered \o output \in Seq(Nat)
            /\ Len(delivered \o output) = Len(delivered) + Len(output)
        BY ConcatProperties
      <3>2. Len(delivered \o output \o pipe) = Len(delivered \o output) + Len(pipe)
        BY <3>1, ConcatProperties
      <3>3. Len(delivered) \in Nat /\ Len(output) \in Nat /\ Len(pipe) \in Nat
        BY LenProperties
      <3> QED BY <1>2, <3>1, <3>2, <3>3 DEF Drain
    <2>3. Stream!Take  BY <1>2, <2>1, <2>2 DEF Drain, Stream!Take
    <2> QED BY <2>3 DEF Stream!Next
  <1> QED BY <1>1, <1>2, <1>3 DEF OwnerCall, Stop, Start

\* Moving a chunk from the pipe to output_ changes nothing the owner can see of
\* the stream; publishing the end of the leader is End.
LEMMA StreamThreadStep ==
  ASSUME IInv, ReaderStep \/ WaiterStep PROVE [Stream!Next]_(Stream!streamVars)
  <1> USE DEF IInv, TypeOK, ThreadsInv, uiVars, threadVars, kernelVars
  <1>1. CASE ReaderRead
    <2> DEFINE h == Head(pipe)
               t == Tail(pipe)
    <2>1. h \in Nat /\ t \in Seq(Nat) /\ pipe = <<h>> \o t
      BY <1>1, HeadTailProperties, HeadConcatTail DEF ReaderRead
    <2>2. output' = output \o <<h>> /\ pipe' = t
      BY <1>1, <2>1, AppendIsConcat DEF ReaderRead
    <2>3. delivered \o output' \o pipe' = delivered \o output \o pipe
      <3> HIDE DEF h, t
      <3>1. <<h>> \in Seq(Nat)  BY <2>1
      <3>2. delivered \o output \in Seq(Nat) /\ output \o <<h>> \in Seq(Nat)
        BY <3>1, ConcatProperties
      <3>3. delivered \o (output \o <<h>>) = (delivered \o output) \o <<h>>
        BY <3>1, ConcatAssociative
      <3>4. ((delivered \o output) \o <<h>>) \o t = (delivered \o output) \o (<<h>> \o t)
        BY <3>1, <3>2, <2>1, ConcatAssociative
      <3> QED BY <2>1, <2>2, <3>3, <3>4
    <2>4. UNCHANGED <<starts, running, ShownCode, delivered>>
      BY <1>1 DEF ReaderRead, ShownCode
    <2>5. delivered' \o output' \o pipe' = delivered \o output' \o pipe'
      BY <2>4
    <2> HIDE DEF h, t
    <2> QED BY <2>3, <2>4, <2>5, StreamStutter DEF Emitted
  <1>2. CASE ReaderEof   BY <1>2, StreamStutter DEF ReaderEof, Emitted, ShownCode
  <1>4. CASE WaiterReap  BY <1>4, StreamStutter DEF WaiterReap, Emitted, ShownCode
  <1>3. CASE WaiterPublish
    <2>1. Stream!End  BY <1>3 DEF WaiterPublish, Stream!End
    <2> QED BY <2>1 DEF Stream!Next
  <1> QED BY <1>1, <1>2, <1>3, <1>4 DEF ReaderStep, WaiterStep

\* Only processes of the last start hold its pipe, so Emit is Emit.
LEMMA StreamProcessStep == ASSUME IInv, ProcessStep PROVE [Stream!Next]_(Stream!streamVars)
  <1> USE DEF IInv, TypeOK, PipeInv, uiVars, threadVars, kernelVars
  <1>1. ASSUME NEW p \in Procs, Emit(p) PROVE Stream!Emit
    <2>1. holds[p] = starts /\ starts > 0  BY <1>1 DEF Emit
    <2>2. Append(pipe, starts) = pipe \o <<starts>>  BY AppendIsConcat
    <2>3. delivered \o output \in Seq(Nat) /\ <<starts>> \in Seq(Nat)
      BY ConcatProperties
    <2>4. (delivered \o output) \o (pipe \o <<starts>>) = (delivered \o output \o pipe) \o <<starts>>
      BY <2>3, ConcatAssociative
    <2>5. delivered \o output \o pipe \in Seq(Nat)  BY <2>3, ConcatProperties
    <2>6. Append(delivered \o output \o pipe, starts) = (delivered \o output \o pipe) \o <<starts>>
      BY <2>5, AppendIsConcat
    <2> QED BY <1>1, <2>1, <2>2, <2>4, <2>6 DEF Emit, Stream!Emit
  <1>2. ASSUME NEW p \in Procs, NEW k \in Kids, Fork(p, k) PROVE UNCHANGED Stream!streamVars
    BY <1>2, StreamStutter DEF Fork, Emitted, ShownCode
  <1>3. ASSUME NEW k \in Kids, Escape(k) PROVE UNCHANGED Stream!streamVars
    BY <1>3, StreamStutter DEF Escape, Emitted, ShownCode
  <1>4. ASSUME NEW p \in Procs, CloseOutput(p) PROVE UNCHANGED Stream!streamVars
    BY <1>4, StreamStutter DEF CloseOutput, Emitted, ShownCode
  <1>5. ASSUME NEW p \in Procs, Exit(p) PROVE UNCHANGED Stream!streamVars
    BY <1>5, StreamStutter DEF Exit, Emitted, ShownCode
  <1> QED BY <1>1, <1>2, <1>3, <1>4, <1>5 DEF ProcessStep, Stream!Next

\* Every behaviour of the threads, pipes and signals is one of the ordered,
\* lossless stream with a code that appears exactly when running() turns false.
THEOREM SpecStream == Spec => StreamSpec
  <1>1. IInv /\ [Next]_vars => [Stream!Next]_(Stream!streamVars)
    <2> SUFFICES ASSUME IInv, [Next]_vars PROVE [Stream!Next]_(Stream!streamVars)
      OBVIOUS
    <2>1. CASE UNCHANGED vars
      BY <2>1, StreamStutter DEF vars, uiVars, threadVars, kernelVars, Emitted, ShownCode
    <2> QED BY <2>1, StreamUiStep, StreamOwnerCall, StreamThreadStep, StreamProcessStep DEF Next
  <1> QED BY <1>1, StreamInit, SpecIInv, PTL DEF Spec, StreamSpec, Stream!Spec

----------------------------------------------------------------------------
(* PseudoTerminal *)

\* What appending, removing the head and joining do to the chunks of a sequence
\* and to their order.
LEMMA Appended ==
  ASSUME NEW s \in Seq(Nat), NEW n \in Nat
  PROVE  /\ Append(s, n) \in Seq(Nat) /\ Terminal!Range(Append(s, n)) = Terminal!Range(s) \cup {n}
         /\ Terminal!Increasing(s) /\ (\A x \in Terminal!Range(s) : x < n) => Terminal!Increasing(Append(s, n))
  <1> DEFINE a == Append(s, n)
  <1>1. /\ a \in Seq(Nat) /\ Len(a) = Len(s) + 1 /\ Len(s) \in Nat
        /\ \A i \in 1..Len(s) : a[i] = s[i]
        /\ a[Len(s) + 1] = n
    BY AppendProperties, LenProperties
  <1>2. DOMAIN a = 1..Len(s) + 1 /\ DOMAIN s = 1..Len(s)  BY <1>1, LenProperties
  <1> HIDE DEF a
  <1>3. Terminal!Range(a) = Terminal!Range(s) \cup {n}  BY <1>1, <1>2 DEF Terminal!Range
  <1>4. ASSUME Terminal!Increasing(s), \A x \in Terminal!Range(s) : x < n PROVE Terminal!Increasing(a)
    <2> SUFFICES ASSUME NEW i \in 1..Len(a), NEW j \in 1..Len(a), i < j PROVE a[i] < a[j]
      BY DEF Terminal!Increasing
    <2>0. i \in 1..Len(s)  BY <1>1
    <2>1. i \in 1..Len(s) /\ a[i] = s[i] /\ s[i] \in Terminal!Range(s)
      BY <2>0, <1>1, <1>2 DEF Terminal!Range
    <2>2. CASE j = Len(s) + 1  BY <2>1, <2>2, <1>1, <1>4
    <2>3. CASE j # Len(s) + 1
      <3>1. j \in 1..Len(s)  BY <2>3, <1>1
      <3> QED BY <3>1, <2>1, <1>1, <1>4 DEF Terminal!Increasing
    <2> QED BY <2>2, <2>3
  <1> QED BY <1>1, <1>3, <1>4 DEF a

\* See Appended.
LEMMA Headless ==
  ASSUME NEW s \in Seq(Nat), s # <<>>
  PROVE  /\ Head(s) \in Nat /\ Tail(s) \in Seq(Nat)
         /\ Terminal!Range(s) = Terminal!Range(Tail(s)) \cup {Head(s)}
         /\ Terminal!Increasing(s) =>
              Terminal!Increasing(Tail(s)) /\ \A x \in Terminal!Range(Tail(s)) : Head(s) < x
  <1> DEFINE t == Tail(s)
             h == Head(s)
  <1>1. /\ h \in Nat /\ h = s[1] /\ t \in Seq(Nat) /\ Len(s) \in Nat \ {0} /\ Len(t) = Len(s) - 1
        /\ \A i \in 1..Len(t) : t[i] = s[i + 1]
    BY HeadTailProperties, LenProperties, EmptySeq
  <1>2. DOMAIN t = 1..Len(t) /\ DOMAIN s = 1..Len(s)  BY <1>1, LenProperties
  <1> HIDE DEF t, h
  <1>3. Terminal!Range(s) = Terminal!Range(t) \cup {h}
    <2>1. ASSUME NEW i \in 1..Len(s) PROVE s[i] = h \/ \E j \in 1..Len(t) : t[j] = s[i]
      <3>1. CASE i = 1  BY <3>1, <1>1
      <3>2. CASE i # 1
        <4>1. i - 1 \in 1..Len(t) /\ (i - 1) + 1 = i  BY <3>2, <1>1
        <4>2. t[i - 1] = s[(i - 1) + 1]  BY <4>1, <1>1
        <4> QED BY <4>1, <4>2
      <3> QED BY <3>1, <3>2
    <2>2. ASSUME NEW j \in 1..Len(t) PROVE \E i \in 1..Len(s) : s[i] = t[j]
      <3>1. j + 1 \in 1..Len(s)  BY <1>1
      <3> QED BY <3>1, <1>1
    <2>3. \E i \in 1..Len(s) : s[i] = h  BY <1>1
    <2>4. ASSUME NEW x \in Terminal!Range(s) PROVE x \in Terminal!Range(t) \cup {h}
      BY <2>1, <1>2 DEF Terminal!Range
    <2>5. ASSUME NEW x \in Terminal!Range(t) PROVE x \in Terminal!Range(s)
      BY <2>2, <1>2 DEF Terminal!Range
    <2>6. h \in Terminal!Range(s)  BY <2>3, <1>2 DEF Terminal!Range
    <2> QED BY <2>4, <2>5, <2>6
  <1>4. ASSUME Terminal!Increasing(s)
        PROVE  Terminal!Increasing(t) /\ \A x \in Terminal!Range(t) : h < x
    <2>1. ASSUME NEW i \in 1..Len(t), NEW j \in 1..Len(t), i < j PROVE t[i] < t[j]
      <3>1. i + 1 \in 1..Len(s) /\ j + 1 \in 1..Len(s) /\ i + 1 < j + 1  BY <2>1, <1>1
      <3>2. s[i + 1] < s[j + 1]  BY <3>1, <1>4 DEF Terminal!Increasing
      <3> QED BY <3>2, <1>1
    <2>2. ASSUME NEW j \in 1..Len(t) PROVE h < t[j]
      <3>1. 1 \in 1..Len(s) /\ j + 1 \in 1..Len(s) /\ 1 < j + 1  BY <1>1
      <3>2. s[1] < s[j + 1]  BY <3>1, <1>4 DEF Terminal!Increasing
      <3> QED BY <3>2, <1>1
    <2> QED BY <2>1, <2>2, <1>2 DEF Terminal!Increasing, Terminal!Range
  <1> QED BY <1>1, <1>3, <1>4 DEF t, h

\* See Appended.
LEMMA Joined ==
  ASSUME NEW s \in Seq(Nat), NEW t \in Seq(Nat)
  PROVE  /\ s \o t \in Seq(Nat) /\ Terminal!Range(s \o t) = Terminal!Range(s) \cup Terminal!Range(t)
         /\ Terminal!Increasing(s) /\ Terminal!Increasing(t) /\ Terminal!Before(s, t) => Terminal!Increasing(s \o t)
  <1> DEFINE c == s \o t
  <1>1. /\ c \in Seq(Nat) /\ Len(c) = Len(s) + Len(t) /\ Len(s) \in Nat /\ Len(t) \in Nat
        /\ \A i \in 1..Len(s) + Len(t) : c[i] = IF i <= Len(s) THEN s[i] ELSE t[i - Len(s)]
    BY ConcatProperties, LenProperties
  <1>2. DOMAIN c = 1..Len(s) + Len(t) /\ DOMAIN s = 1..Len(s) /\ DOMAIN t = 1..Len(t)
    BY <1>1, LenProperties
  <1> HIDE DEF c
  <1>3. Terminal!Range(c) = Terminal!Range(s) \cup Terminal!Range(t)
    <2>1. ASSUME NEW i \in 1..Len(s) + Len(t)
          PROVE  (\E j \in 1..Len(s) : s[j] = c[i]) \/ \E j \in 1..Len(t) : t[j] = c[i]
      <3>1. CASE i <= Len(s)
        <4>1. i \in 1..Len(s) /\ c[i] = s[i]  BY <3>1, <1>1
        <4> QED BY <4>1
      <3>2. CASE ~(i <= Len(s))
        <4>1. i - Len(s) \in 1..Len(t)  BY <3>2, <1>1
        <4> QED BY <4>1, <3>2, <1>1
      <3> QED BY <3>1, <3>2
    <2>2. ASSUME NEW j \in 1..Len(s) PROVE \E i \in 1..Len(s) + Len(t) : c[i] = s[j]
      <3>1. j \in 1..Len(s) + Len(t) /\ j <= Len(s)  BY <1>1
      <3> QED BY <3>1, <1>1
    <2>3. ASSUME NEW j \in 1..Len(t) PROVE \E i \in 1..Len(s) + Len(t) : c[i] = t[j]
      <3>1. j + Len(s) \in 1..Len(s) + Len(t) /\ ~(j + Len(s) <= Len(s)) /\ (j + Len(s)) - Len(s) = j
        BY <1>1
      <3>2. c[j + Len(s)] = t[(j + Len(s)) - Len(s)]  BY <3>1, <1>1
      <3> QED BY <3>1, <3>2
    <2> QED BY <2>1, <2>2, <2>3, <1>2 DEF Terminal!Range
  <1>4. ASSUME Terminal!Increasing(s), Terminal!Increasing(t), Terminal!Before(s, t) PROVE Terminal!Increasing(c)
    <2> SUFFICES ASSUME NEW i \in 1..Len(c), NEW j \in 1..Len(c), i < j PROVE c[i] < c[j]
      BY DEF Terminal!Increasing
    <2>1. CASE j <= Len(s)
      <3>1. i \in Nat /\ j \in Nat /\ 1 <= i /\ i <= Len(s) /\ 1 <= j  BY <2>1, <1>1
      <3>2. i \in 1..Len(s) + Len(t) /\ j \in 1..Len(s) + Len(t)  BY <3>1, <2>1, <1>1
      <3>3. i \in 1..Len(s) /\ j \in 1..Len(s)  BY <3>1, <2>1
      <3>4. c[i] = s[i] /\ c[j] = s[j]  BY <3>1, <3>2, <2>1, <1>1
      <3> QED BY <3>3, <3>4, <1>4 DEF Terminal!Increasing
    <2>2. CASE i <= Len(s) /\ ~(j <= Len(s))
      <3>1. i \in 1..Len(s) /\ j - Len(s) \in 1..Len(t) /\ c[i] = s[i] /\ c[j] = t[j - Len(s)]
        BY <2>2, <1>1
      <3> QED BY <3>1, <1>4 DEF Terminal!Before
    <2>3. CASE ~(i <= Len(s))
      <3>0. i \in 1..Len(s) + Len(t) /\ j \in 1..Len(s) + Len(t) /\ ~(j <= Len(s))  BY <2>3, <1>1
      <3>1. /\ i - Len(s) \in 1..Len(t) /\ j - Len(s) \in 1..Len(t) /\ i - Len(s) < j - Len(s)
        BY <3>0, <2>3, <1>1
      <3>2. c[i] = t[i - Len(s)]  BY <3>0, <2>3, <1>1
      <3>3. c[j] = t[j - Len(s)]  BY <3>0, <1>1
      <3> QED BY <3>1, <3>2, <3>3, <1>4 DEF Terminal!Increasing
    <2> QED BY <2>1, <2>2, <2>3
  <1> QED BY <1>1, <1>3, <1>4 DEF c

\* Before() is about the chunks of both sequences.
LEMMA BeforeRange ==
  ASSUME NEW s \in Seq(Nat), NEW t \in Seq(Nat)
  PROVE  Terminal!Before(s, t) <=> \A x \in Terminal!Range(s), y \in Terminal!Range(t) : x < y
  <1>1. DOMAIN s = 1..Len(s) /\ DOMAIN t = 1..Len(t)  BY LenProperties
  <1> QED BY <1>1 DEF Terminal!Before, Terminal!Range

\* No chunks are in order, in whatever place.
LEMMA NoChunks ==
  /\ \A s : s = <<>> => s \in Seq(Nat) /\ Terminal!Range(s) = {} /\ Terminal!Increasing(s)
  /\ \A s, t : s = <<>> \/ t = <<>> => Terminal!Before(s, t)
  <1>1. ASSUME NEW s, s = <<>>
        PROVE  s \in Seq(Nat) /\ Len(s) = 0 /\ DOMAIN s = {} /\ 1..Len(s) = {}
    <2>1. s \in Seq(Nat) /\ Len(s) = 0  BY <1>1, EmptySeq
    <2>2. DOMAIN s = 1..Len(s)  BY <2>1, LenProperties
    <2>3. 1..0 = {}  OBVIOUS
    <2> QED BY <2>1, <2>2, <2>3
  <1>2. ASSUME NEW s, s = <<>>
        PROVE  s \in Seq(Nat) /\ Terminal!Range(s) = {} /\ Terminal!Increasing(s)
    <2>1. Terminal!Range(s) = {}  BY <1>1, <1>2 DEF Terminal!Range
    <2>2. Terminal!Increasing(s)  BY <1>1, <1>2 DEF Terminal!Increasing
    <2> QED BY <2>1, <2>2, <1>1, <1>2
  <1>3. ASSUME NEW s, NEW t, s = <<>> \/ t = <<>> PROVE Terminal!Before(s, t)
    <2>1. 1..Len(s) = {} \/ 1..Len(t) = {}  BY <1>1, <1>3
    <2> QED BY <2>1 DEF Terminal!Before
  <1> QED BY <1>2, <1>3

USE DEF Terminal!PseudoTerminalAssumption

\* The initial state of the terminal satisfies its inductive invariant.
LEMMA TerminalInit == Terminal!Init => Terminal!IInv
  <1> SUFFICES ASSUME Terminal!Init PROVE Terminal!IInv  OBVIOUS
  <1> USE DEF Terminal!Init
  <1>1. Terminal!TypeOK
    <2>0. Terminal!FlagsOK  BY DEF Terminal!FlagsOK
    <2>1. Terminal!FieldsOK  BY DEF Terminal!FieldsOK
    <2>2. Terminal!PeopleOK
      <3>1. t_holds \in [Terminal!Procs -> 0..t_starts]  OBVIOUS
      <3>2. t_alive = {} /\ t_outside = {} /\ t_doomed = {} /\ t_unreaped = FALSE  OBVIOUS
      <3>3. t_unreaped \in BOOLEAN  BY <3>2
      <3> QED BY ONLY <3>1, <3>2, <3>3 DEF Terminal!PeopleOK
    <2>3. Terminal!ChunksOK  BY NoChunks DEF Terminal!ChunksOK
    <2> QED BY <2>0, <2>1, <2>2, <2>3 DEF Terminal!TypeOK
  <1>2. Terminal!OrderInv  BY DEF Terminal!Init, Terminal!OrderInv, Terminal!Increasing, Terminal!Before
  <1>3. Terminal!StopInv  BY DEF Terminal!Init, Terminal!StopInv
  <1>4. Terminal!RunInv  BY DEF Terminal!Init, Terminal!RunInv
  <1> QED BY <1>1, <1>2, <1>3, <1>4 DEF Terminal!IInv

\* A step of the UI thread inside a call preserves it.
LEMMA TerminalUi == ASSUME Terminal!IInv, Terminal!UiStep PROVE Terminal!IInv'
  <1> USE DEF Terminal!IInv, Terminal!TypeOK, Terminal!FlagsOK, Terminal!FieldsOK, Terminal!ChunksOK,
      Terminal!PeopleOK, Terminal!StopInv, Terminal!RunInv, Terminal!Procs, 
        Terminal!ownerVars, Terminal!fieldVars, Terminal!threadVars, Terminal!kernelVars,
        Terminal!peopleVars, Terminal!bufferVars
  <1>0. /\ \A s : s = <<>> => s \in Seq(Nat) /\ Terminal!Range(s) = {} /\ Terminal!Increasing(s)
        /\ \A s, t : s = <<>> \/ t = <<>> => Terminal!Before(s, t)
    BY NoChunks
  <1>1. CASE Terminal!GraceOver
    <2>1. Terminal!OrderInv'  BY <1>1 DEF Terminal!GraceOver, Terminal!OrderInv, Terminal!Increasing,
        Terminal!Before
    <2> QED BY <1>1, <2>1 DEF Terminal!GraceOver
  <1>2. CASE Terminal!GraceExpired
    <2>1. Terminal!OrderInv'  BY <1>2 DEF Terminal!GraceExpired, Terminal!OrderInv,
        Terminal!Increasing, Terminal!Before
    <2> QED BY <1>2, <2>1 DEF Terminal!GraceExpired, Terminal!Group
  <1>3. CASE Terminal!CloseTerminal
    <2>1. Terminal!OrderInv'  BY <1>3 DEF Terminal!CloseTerminal, Terminal!OrderInv,
        Terminal!Increasing, Terminal!Before
    <2>2. Terminal!TypeOK'
      <3>0. Terminal!FlagsOK'  BY <1>3 DEF Terminal!CloseTerminal
      <3>1. Terminal!FieldsOK'  BY <1>3 DEF Terminal!CloseTerminal
      <3>2. Terminal!ChunksOK' /\ Terminal!PeopleOK'  BY <1>3 DEF Terminal!CloseTerminal
      <3> QED BY <3>0, <3>1, <3>2 DEF Terminal!TypeOK
    <2>3. Terminal!StopInv' /\ Terminal!RunInv'  BY <1>3 DEF Terminal!CloseTerminal
    <2> QED BY <2>1, <2>2, <2>3
  <1>4. CASE Terminal!JoinReader
    <2>1. Terminal!OrderInv'  BY <1>4, <1>0 DEF Terminal!JoinReader, Terminal!OrderInv
    <2>2. Terminal!TypeOK' /\ Terminal!StopInv'  BY <1>4, <1>0 DEF Terminal!JoinReader
    <2>3. Terminal!RunInv'  BY <1>4, <1>0 DEF Terminal!JoinReader
    <2> QED BY <2>1, <2>2, <2>3
  <1>5. CASE Terminal!JoinWaiter
    <2>0. /\ t_delivered \o t_output \in Seq(Nat)
          /\ Terminal!Range(t_delivered \o t_output) = Terminal!Range(t_delivered) \cup Terminal!Range(t_output)
          /\ Terminal!Increasing(t_delivered) /\ Terminal!Increasing(t_output) /\ Terminal!Before(t_delivered, t_output) =>
               Terminal!Increasing(t_delivered \o t_output)
      BY Joined
    <2> HIDE DEF Terminal!Range
    <2>1. Terminal!OrderInv'  BY <2>0, <1>5, <1>0 DEF Terminal!JoinWaiter, Terminal!OrderInv
    <2>2. Terminal!TypeOK'  BY <2>0, <1>5, <1>0 DEF Terminal!JoinWaiter
    <2>3. Terminal!StopInv'  BY <1>5, <1>0 DEF Terminal!JoinWaiter
    <2>4. Terminal!RunInv'  BY <2>0, <1>5, <1>0 DEF Terminal!JoinWaiter
    <2> QED BY <2>1, <2>2, <2>3, <2>4
  <1>6. CASE Terminal!Spawn
    <2>1. Terminal!OrderInv'  BY <1>6, <1>0 DEF Terminal!Spawn, Terminal!OrderInv
    <2>2. Terminal!TypeOK'
      <3>0. Terminal!FlagsOK'  BY <1>6, <1>0 DEF Terminal!Spawn
      <3>1. Terminal!FieldsOK'  BY <1>6, <1>0 DEF Terminal!Spawn
      <3>2. Terminal!ChunksOK'  BY <1>6, <1>0 DEF Terminal!Spawn
      <3>3. Terminal!PeopleOK'  BY <1>6, <1>0 DEF Terminal!Spawn
      <3> QED BY <3>0, <3>1, <3>2, <3>3 DEF Terminal!TypeOK
    <2>3. Terminal!StopInv'  BY <1>6, <1>0 DEF Terminal!Spawn
    <2>4. Terminal!RunInv'  BY <1>6, <1>0 DEF Terminal!Spawn
    <2> QED BY <2>1, <2>2, <2>3, <2>4
  <1>7. CASE Terminal!OpenSession
    <2>1. Terminal!OrderInv'  BY <1>7, <1>0 DEF Terminal!OpenSession, Terminal!OrderInv
    <2>2. Terminal!TypeOK'  BY <1>7, <1>0 DEF Terminal!OpenSession
    <2>3. Terminal!StopInv'  BY <1>7, <1>0 DEF Terminal!OpenSession
    <2>4. Terminal!RunInv'  BY <1>7, <1>0 DEF Terminal!OpenSession
    <2> QED BY <2>1, <2>2, <2>3, <2>4
  <1>8. CASE Terminal!SpawnFails
    <2>1. Terminal!OrderInv'  BY <1>8 DEF Terminal!SpawnFails, Terminal!OrderInv, Terminal!Increasing,
        Terminal!Before
    <2> QED BY <1>8, <2>1 DEF Terminal!SpawnFails
  <1>9. CASE Terminal!SpawnUnread
    <2>1. Terminal!OrderInv'  BY <1>9, <1>0 DEF Terminal!SpawnUnread, Terminal!OrderInv
    <2>2. Terminal!TypeOK'
      <3>0. Terminal!FlagsOK'  BY <1>9, <1>0 DEF Terminal!SpawnUnread
      <3>1. Terminal!FieldsOK'  BY <1>9, <1>0 DEF Terminal!SpawnUnread
      <3>2. Terminal!ChunksOK'  BY <1>9, <1>0 DEF Terminal!SpawnUnread
      <3>3. Terminal!PeopleOK'  BY <1>9, <1>0 DEF Terminal!SpawnUnread
      <3> QED BY <3>0, <3>1, <3>2, <3>3 DEF Terminal!TypeOK
    <2>3. Terminal!StopInv'  BY <1>9, <1>0 DEF Terminal!SpawnUnread
    <2>4. Terminal!RunInv'  BY <1>9, <1>0 DEF Terminal!SpawnUnread
    <2> QED BY <2>1, <2>2, <2>3, <2>4
  <1> QED BY <1>1, <1>2, <1>3, <1>4, <1>5, <1>6, <1>7, <1>8, <1>9 DEF Terminal!UiStep

\* The head of a call that begins with stop(), with the chunks where they were.
LEMMA TerminalStopHead ==
  ASSUME Terminal!IInv, NEW next \in {"return", "discard", "complete", "spawn", "open"},
         Terminal!StopHead(next), next = "complete" => t_run_active,
         t_output' \in Seq(Nat), t_delivered' \in Seq(Nat),
         Terminal!Range(t_output') \cup Terminal!Range(t_delivered') =
           Terminal!Range(t_output) \cup Terminal!Range(t_delivered),
         Terminal!Increasing(t_delivered'), Terminal!Increasing(t_output'),
         Terminal!Before(t_delivered', t_output'), t_completion' \in BOOLEAN
  PROVE  Terminal!IInv'
  <1> USE DEF Terminal!IInv, Terminal!StopHead, Terminal!threadVars, Terminal!kernelVars, 
        Terminal!peopleVars, Terminal!bufferVars
  <1>1. Terminal!TypeOK'
    <2>0. Terminal!FlagsOK'  BY DEF Terminal!TypeOK, Terminal!FlagsOK, Terminal!FieldsOK,
        Terminal!ChunksOK, Terminal!PeopleOK
    <2>1. Terminal!FieldsOK'  BY DEF Terminal!TypeOK, Terminal!FlagsOK, Terminal!FieldsOK,
        Terminal!ChunksOK, Terminal!PeopleOK
    <2>2. Terminal!ChunksOK'  BY DEF Terminal!TypeOK, Terminal!FlagsOK, Terminal!FieldsOK,
        Terminal!ChunksOK, Terminal!PeopleOK
    <2>3. Terminal!PeopleOK'  BY DEF Terminal!TypeOK, Terminal!FlagsOK, Terminal!FieldsOK,
        Terminal!ChunksOK, Terminal!PeopleOK, Terminal!Procs
    <2> QED BY <2>0, <2>1, <2>2, <2>3 DEF Terminal!TypeOK
  <1>2. Terminal!OrderInv'
    <2>1. t_tty' = t_tty /\ t_tty \in Seq(Nat) /\ t_output \in Seq(Nat) /\ t_delivered \in Seq(Nat)
      BY DEF Terminal!TypeOK, Terminal!FlagsOK, Terminal!FieldsOK, Terminal!ChunksOK, Terminal!PeopleOK
    <2>2. /\ \A x \in Terminal!Range(t_delivered), y \in Terminal!Range(t_tty) : x < y
          /\ \A x \in Terminal!Range(t_output), y \in Terminal!Range(t_tty) : x < y
      BY <2>1, BeforeRange DEF Terminal!OrderInv
    <2>3. /\ \A x \in Terminal!Range(t_delivered'), y \in Terminal!Range(t_tty) : x < y
          /\ \A x \in Terminal!Range(t_output'), y \in Terminal!Range(t_tty) : x < y
      BY <2>2
    <2>4. Terminal!Before(t_delivered', t_tty) /\ Terminal!Before(t_output', t_tty)
      BY <2>1, <2>3, BeforeRange
    <2>5. Terminal!Increasing(t_tty)  BY DEF Terminal!OrderInv
    <2> QED BY <2>1, <2>4, <2>5 DEF Terminal!OrderInv
  <1>3. Terminal!StopInv'  BY DEF Terminal!StopInv, Terminal!TypeOK, Terminal!FlagsOK,
      Terminal!FieldsOK, Terminal!ChunksOK, Terminal!PeopleOK
  <1>4. Terminal!RunInv'  BY DEF Terminal!RunInv, Terminal!TypeOK, Terminal!FlagsOK,
      Terminal!FieldsOK, Terminal!ChunksOK, Terminal!PeopleOK, Terminal!StopInv
  <1> QED BY <1>1, <1>2, <1>3, <1>4

\* A call of the owner of the terminal preserves it.
LEMMA TerminalOwner == ASSUME Terminal!IInv, Terminal!OwnerCall PROVE Terminal!IInv'
  <1>0. /\ t_output \in Seq(Nat) /\ t_delivered \in Seq(Nat) /\ t_tty \in Seq(Nat) /\ t_completion \in BOOLEAN
        /\ Terminal!Increasing(t_delivered) /\ Terminal!Increasing(t_output) /\ Terminal!Increasing(t_tty)
        /\ Terminal!Before(t_delivered, t_output) /\ Terminal!Before(t_delivered, t_tty)
        /\ Terminal!Before(t_output, t_tty)
    BY DEF Terminal!IInv, Terminal!TypeOK, Terminal!FlagsOK, Terminal!FieldsOK, Terminal!ChunksOK,
        Terminal!PeopleOK, Terminal!OrderInv
  <1>1. ASSUME NEW next \in {"return", "discard", "spawn", "open"}, Terminal!StopHead(next),
               t_completion' = t_completion /\ t_output' = t_output /\ t_delivered' = t_delivered
        PROVE  Terminal!IInv'
    <2>1. next # "complete" /\ next \in {"return", "discard", "complete", "spawn", "open"}  OBVIOUS
    <2> HIDE DEF Terminal!Range
    <2>2. /\ t_output' \in Seq(Nat) /\ t_delivered' \in Seq(Nat)
          /\ Terminal!Range(t_output') \cup Terminal!Range(t_delivered') =
               Terminal!Range(t_output) \cup Terminal!Range(t_delivered)
          /\ Terminal!Increasing(t_delivered') /\ Terminal!Increasing(t_output')
          /\ Terminal!Before(t_delivered', t_output') /\ t_completion' \in BOOLEAN
      BY <1>0, <1>1
    <2> QED BY <1>1, <2>1, <2>2, TerminalStopHead
  <1>2. CASE Terminal!Stop  BY <1>1, <1>2 DEF Terminal!Stop
  <1>3. CASE Terminal!Start  BY <1>1, <1>3 DEF Terminal!Start
  <1>4. CASE Terminal!OpenDebugConsole  BY <1>1, <1>4 DEF Terminal!OpenDebugConsole
  <1>5. CASE Terminal!Poll
    <2>1. /\ t_delivered \o t_output \in Seq(Nat)
          /\ Terminal!Range(t_delivered \o t_output) = Terminal!Range(t_delivered) \cup Terminal!Range(t_output)
          /\ Terminal!Increasing(t_delivered) /\ Terminal!Increasing(t_output) /\ Terminal!Before(t_delivered, t_output) =>
               Terminal!Increasing(t_delivered \o t_output)
      BY <1>0, Joined
    <2>2. t_delivered' = t_delivered \o t_output /\ t_output' = <<>>  BY <1>5 DEF Terminal!Poll
    <2>3. t_output' \in Seq(Nat) /\ Terminal!Range(t_output') = {} /\ Terminal!Increasing(t_output')
      BY <2>2, NoChunks
    <2>4. Terminal!Before(t_delivered', t_output') /\ Terminal!Before(t_output', t_tty)
      BY <2>2, NoChunks
    <2>5. /\ t_delivered' \in Seq(Nat) /\ Terminal!Increasing(t_delivered')
          /\ Terminal!Range(t_output') \cup Terminal!Range(t_delivered') =
               Terminal!Range(t_output) \cup Terminal!Range(t_delivered)
      BY <1>0, <2>1, <2>2, <2>3
    <2>6. CASE t_run_active /\ Terminal!StopHead("complete") /\ t_completion' = FALSE
      <3>1. "complete" \in {"return", "discard", "complete", "spawn", "open"} /\ t_completion' \in BOOLEAN
        BY <2>6
      <3> QED BY <2>3, <2>4, <2>5, <2>6, <3>1, TerminalStopHead
    <2>7. CASE /\ t_ui = "idle"
               /\ UNCHANGED <<t_ui, t_after, t_run_mode, t_run_active, t_completion, t_starts>>
               /\ UNCHANGED <<t_group, t_running, t_session, t_exit_code, t_master, t_held>>
               /\ UNCHANGED <<Terminal!threadVars, Terminal!kernelVars>>
      <3> USE DEF Terminal!threadVars, Terminal!kernelVars, Terminal!peopleVars, Terminal!bufferVars
      <3> HIDE DEF Terminal!Range
      <3>1. Terminal!TypeOK'  BY <2>3, <2>5, <2>7 DEF Terminal!IInv, Terminal!TypeOK,
          Terminal!FlagsOK, Terminal!FieldsOK, Terminal!ChunksOK, Terminal!PeopleOK, Terminal!Procs
      <3>2. Terminal!OrderInv'
        <4>1. \A x \in Terminal!Range(t_delivered'), y \in Terminal!Range(t_tty) : x < y
          BY <1>0, <2>3, <2>5, BeforeRange
        <4>2. Terminal!Before(t_delivered', t_tty)  BY <4>1, <1>0, <2>5, BeforeRange
        <4>3. t_tty' = t_tty  BY <2>7
        <4> QED BY <1>0, <2>3, <2>4, <2>5, <4>2, <4>3 DEF Terminal!OrderInv
      <3>3. Terminal!StopInv'  BY <2>2, <2>7 DEF Terminal!IInv, Terminal!StopInv
      <3>4. Terminal!RunInv'  BY <2>3, <2>5, <2>7 DEF Terminal!IInv, Terminal!RunInv
      <3> QED BY <3>1, <3>2, <3>3, <3>4 DEF Terminal!IInv
    <2> QED BY <1>5, <2>6, <2>7 DEF Terminal!Poll
  <1>6. CASE Terminal!ActivateSession
    <2>1. CASE Terminal!StopHead("return") /\ UNCHANGED <<t_completion, t_output, t_delivered>>
      BY <1>1, <2>1
    <2>2. CASE /\ t_run_mode = "DebugTerminal" /\ t_ui = "idle"
               /\ t_reader' = "polling" /\ t_held' = FALSE
               /\ UNCHANGED <<t_ui, Terminal!ownerVars, t_waiter, Terminal!kernelVars>>
               /\ UNCHANGED <<t_group, t_running, t_session, t_exit_code, t_master, t_output>>
      <3> USE DEF Terminal!IInv, Terminal!ownerVars, Terminal!kernelVars, Terminal!peopleVars,
          Terminal!bufferVars
      <3>1. Terminal!TypeOK'
        <4>0. Terminal!FlagsOK'  BY <2>2 DEF Terminal!TypeOK, Terminal!FlagsOK, Terminal!FieldsOK,
            Terminal!ChunksOK, Terminal!PeopleOK
        <4>1. Terminal!FieldsOK'  BY <2>2 DEF Terminal!TypeOK, Terminal!FlagsOK, Terminal!FieldsOK,
            Terminal!ChunksOK, Terminal!PeopleOK
        <4>2. Terminal!ChunksOK'  BY <2>2 DEF Terminal!TypeOK, Terminal!FlagsOK, Terminal!FieldsOK,
            Terminal!ChunksOK, Terminal!PeopleOK
        <4>3. Terminal!PeopleOK'  BY <2>2 DEF Terminal!TypeOK, Terminal!FlagsOK, Terminal!FieldsOK,
            Terminal!ChunksOK, Terminal!PeopleOK, Terminal!Procs
        <4> QED BY <4>0, <4>1, <4>2, <4>3 DEF Terminal!TypeOK
      <3>2. Terminal!OrderInv'  BY <2>2 DEF Terminal!OrderInv, Terminal!Increasing, Terminal!Before
      <3>3. Terminal!StopInv' /\ Terminal!RunInv'  BY <2>2 DEF Terminal!StopInv, Terminal!RunInv
      <3> QED BY <3>1, <3>2, <3>3
    <2> QED BY <1>6, <2>1, <2>2 DEF Terminal!ActivateSession
  <1> QED BY <1>2, <1>3, <1>4, <1>5, <1>6 DEF Terminal!OwnerCall

\* A step of the reader or of the waiter preserves it.
LEMMA TerminalThreads ==
  ASSUME Terminal!IInv, Terminal!ReaderStep \/ Terminal!WaiterStep
  PROVE  Terminal!IInv'
  <1> USE DEF Terminal!IInv, Terminal!TypeOK, Terminal!FlagsOK, Terminal!FieldsOK, Terminal!ChunksOK,
      Terminal!PeopleOK,
        Terminal!StopInv, Terminal!RunInv, Terminal!Procs, Terminal!ownerVars, Terminal!fieldVars,
        Terminal!threadVars, Terminal!kernelVars, Terminal!peopleVars, Terminal!bufferVars
  <1>1. CASE Terminal!ReaderRead
    <2> DEFINE h == Head(t_tty)
               t == Tail(t_tty)
               o == Append(t_output, h)
    <2>1. /\ h \in Nat /\ t \in Seq(Nat)
          /\ Terminal!Range(t_tty) = Terminal!Range(t) \cup {h}
          /\ Terminal!Increasing(t_tty) => Terminal!Increasing(t) /\ \A x \in Terminal!Range(t) : h < x
      BY <1>1, Headless DEF Terminal!ReaderRead
    <2>2. t_output' = o /\ t_tty' = t  BY <1>1 DEF Terminal!ReaderRead
    <2> HIDE DEF h, t
    <2>3. /\ o \in Seq(Nat) /\ Terminal!Range(o) = Terminal!Range(t_output) \cup {h}
          /\ Terminal!Increasing(t_output) /\ (\A x \in Terminal!Range(t_output) : x < h) => Terminal!Increasing(o)
      BY <2>1, Appended
    <2> HIDE DEF o
    <2>4. /\ \A x \in Terminal!Range(t_delivered), y \in Terminal!Range(t_output) : x < y
          /\ \A x \in Terminal!Range(t_delivered), y \in Terminal!Range(t_tty) : x < y
          /\ \A x \in Terminal!Range(t_output), y \in Terminal!Range(t_tty) : x < y
      BY BeforeRange DEF Terminal!OrderInv
    <2>5. Terminal!OrderInv'
      <3>1. Terminal!Increasing(o) /\ Terminal!Increasing(t)  BY <2>1, <2>3, <2>4 DEF Terminal!OrderInv
      <3>2. Terminal!Before(t_delivered, o) /\ Terminal!Before(t_delivered, t) /\ Terminal!Before(o, t)
        <4>1. /\ \A x \in Terminal!Range(t_delivered), y \in Terminal!Range(o) : x < y
              /\ \A x \in Terminal!Range(t_delivered), y \in Terminal!Range(t) : x < y
          BY <2>1, <2>3, <2>4
        <4>2. \A x \in Terminal!Range(o), y \in Terminal!Range(t) : x < y
          BY <2>1, <2>3, <2>4 DEF Terminal!OrderInv
        <4> QED BY <4>1, <4>2, <2>1, <2>3, BeforeRange
      <3>3. t_delivered' = t_delivered /\ Terminal!Increasing(t_delivered)
        BY <1>1 DEF Terminal!ReaderRead, Terminal!OrderInv
      <3> QED BY <2>2, <3>1, <3>2, <3>3 DEF Terminal!OrderInv
    <2>6. Terminal!ChunksOK'  BY <1>1, <2>1, <2>2, <2>3 DEF Terminal!ReaderRead
    <2>7. Terminal!FlagsOK' /\ Terminal!FieldsOK' /\ Terminal!PeopleOK'  BY <1>1 DEF Terminal!ReaderRead
    <2>8. Terminal!StopInv'  BY <1>1 DEF Terminal!ReaderRead
    <2>9. Terminal!RunInv'  BY <1>1, <2>1, <2>2, <2>3 DEF Terminal!ReaderRead
    <2> QED BY <2>5, <2>6, <2>7, <2>8, <2>9
  <1>2. ASSUME t_reader' \in {"polling", "timedOut", "done"}, t_reader # "none",
               t_reader' \in {"timedOut", "done"} => Terminal!Range(t_tty) \subseteq t_late,
               UNCHANGED <<t_ui, Terminal!ownerVars, Terminal!fieldVars, t_waiter, Terminal!kernelVars>>
        PROVE  Terminal!IInv'
    <2>1. Terminal!OrderInv'  BY <1>2 DEF Terminal!OrderInv, Terminal!Increasing, Terminal!Before
    <2>2. Terminal!ChunksOK' /\ Terminal!PeopleOK'  BY <1>2
    <2>3. Terminal!FlagsOK' /\ Terminal!FieldsOK'  BY <1>2
    <2>4. Terminal!StopInv'  BY <1>2
    <2>5. Terminal!RunInv'  BY <1>2
    <2> QED BY <2>1, <2>2, <2>3, <2>4, <2>5
  <1>3. CASE Terminal!ReaderHangup
    <2>1. Terminal!Range(t_tty) = {}  BY <1>3, NoChunks DEF Terminal!ReaderHangup
    <2> QED BY <1>2, <1>3, <2>1 DEF Terminal!ReaderHangup
  <1>4. CASE Terminal!ReaderTimeout
    <2>1. Terminal!Range(t_tty) = {}  BY <1>4, NoChunks DEF Terminal!ReaderTimeout
    <2> QED BY <1>2, <1>4, <2>1 DEF Terminal!ReaderTimeout
  <1>5. CASE Terminal!ReaderCheck
    BY <1>2, <1>5 DEF Terminal!ReaderCheck
  <1>6. CASE Terminal!WaiterStep
    <2>1. Terminal!OrderInv'
      BY <1>6 DEF Terminal!WaiterStep, Terminal!WaiterReap, Terminal!WaiterPublish, Terminal!OrderInv,
                  Terminal!Increasing, Terminal!Before
    <2>2. Terminal!ChunksOK' /\ Terminal!PeopleOK'
      BY <1>6 DEF Terminal!WaiterStep, Terminal!WaiterReap, Terminal!WaiterPublish
    <2>3. Terminal!FlagsOK'  BY <1>6 DEF Terminal!WaiterStep, Terminal!WaiterReap, Terminal!WaiterPublish
    <2>4. Terminal!FieldsOK'  BY <1>6 DEF Terminal!WaiterStep, Terminal!WaiterReap,
        Terminal!WaiterPublish
    <2>5. Terminal!StopInv' /\ Terminal!RunInv'
      BY <1>6 DEF Terminal!WaiterStep, Terminal!WaiterReap, Terminal!WaiterPublish
    <2> QED BY <2>1, <2>2, <2>3, <2>4, <2>5
  <1> QED BY <1>1, <1>3, <1>4, <1>5, <1>6 DEF Terminal!ReaderStep

\* A step of a process at the other side preserves it.
LEMMA TerminalPeople == ASSUME Terminal!IInv, Terminal!ProcessStep PROVE Terminal!IInv'
  <1> USE DEF Terminal!IInv, Terminal!TypeOK, Terminal!FlagsOK, Terminal!FieldsOK, Terminal!ChunksOK,
      Terminal!PeopleOK,
        Terminal!StopInv, Terminal!RunInv, Terminal!Procs, Terminal!ownerVars, Terminal!fieldVars,
        Terminal!threadVars, Terminal!kernelVars, Terminal!peopleVars, Terminal!bufferVars
  <1>1. ASSUME Terminal!PeopleOK',
               UNCHANGED <<t_ui, Terminal!ownerVars, Terminal!fieldVars, Terminal!threadVars, Terminal!bufferVars>>
        PROVE  Terminal!IInv'
    <2>1. Terminal!OrderInv'  BY <1>1 DEF Terminal!OrderInv, Terminal!Increasing, Terminal!Before
    <2>2. Terminal!FlagsOK' /\ Terminal!FieldsOK' /\ Terminal!ChunksOK'  BY <1>1
    <2>3. Terminal!StopInv' /\ Terminal!RunInv'  BY <1>1
    <2> QED BY <1>1, <2>1, <2>2, <2>3
  <1>2. ASSUME NEW p \in Terminal!Procs, NEW k \in TerminalKids, Terminal!Fork(p, k) PROVE Terminal!IInv'
    <2>1. Terminal!PeopleOK'  BY <1>2 DEF Terminal!Fork
    <2> QED BY <1>1, <1>2, <2>1 DEF Terminal!Fork
  <1>3. ASSUME NEW k \in TerminalKids, Terminal!Escape(k) PROVE Terminal!IInv'
    <2>1. Terminal!PeopleOK'  BY <1>3 DEF Terminal!Escape, Terminal!Group
    <2> QED BY <1>1, <1>3, <2>1 DEF Terminal!Escape
  <1>4. ASSUME NEW k \in TerminalKids, Terminal!Debuggee(k) PROVE Terminal!IInv'
    <2>1. Terminal!PeopleOK'  BY <1>4 DEF Terminal!Debuggee
    <2> QED BY <1>1, <1>4, <2>1 DEF Terminal!Debuggee
  <1>5. ASSUME NEW p \in Terminal!Procs, Terminal!CloseSlave(p) PROVE Terminal!IInv'
    <2>1. Terminal!PeopleOK'  BY <1>5 DEF Terminal!CloseSlave
    <2> QED BY <1>1, <1>5, <2>1 DEF Terminal!CloseSlave
  <1>6. ASSUME NEW p \in Terminal!Procs, Terminal!Exit(p) PROVE Terminal!IInv'
    <2>1. Terminal!PeopleOK'  BY <1>6 DEF Terminal!Exit
    <2> QED BY <1>1, <1>6, <2>1 DEF Terminal!Exit
  <1>7. ASSUME NEW p \in Terminal!Procs, Terminal!Emit(p) PROVE Terminal!IInv'
    <2> DEFINE n == t_emitted + 1
               y == Append(t_tty, n)
    <2>1. /\ n \in Nat /\ \A x \in 1..t_emitted : x < n
          /\ 1..n = (1..t_emitted) \cup {n}
      <3>1. t_emitted \in Nat  OBVIOUS
      <3> QED BY ONLY <3>1
    <2>2. t_emitted' = n /\ t_tty' = y  BY <1>7 DEF Terminal!Emit
    <2>3. t_late' = IF t_reader \in {"timedOut", "done"} THEN t_late \cup {n} ELSE t_late
      BY <1>7 DEF Terminal!Emit
    <2> HIDE DEF n
    <2>4. /\ y \in Seq(Nat) /\ Terminal!Range(y) = Terminal!Range(t_tty) \cup {n}
          /\ Terminal!Increasing(t_tty) /\ (\A x \in Terminal!Range(t_tty) : x < n) => Terminal!Increasing(y)
      BY <2>1, Appended
    <2> HIDE DEF y
    <2>5. Terminal!OrderInv'
      <3>1. Terminal!Increasing(y)  BY <2>1, <2>4 DEF Terminal!OrderInv
      <3>2. /\ \A x \in Terminal!Range(t_delivered), z \in Terminal!Range(t_tty) : x < z
            /\ \A x \in Terminal!Range(t_output), z \in Terminal!Range(t_tty) : x < z
        BY BeforeRange DEF Terminal!OrderInv
      <3>3. /\ \A x \in Terminal!Range(t_delivered), z \in Terminal!Range(y) : x < z
            /\ \A x \in Terminal!Range(t_output), z \in Terminal!Range(y) : x < z
        BY <3>2, <2>1, <2>4
      <3>4. Terminal!Before(t_delivered, y) /\ Terminal!Before(t_output, y)  BY <3>3, <2>4, BeforeRange
      <3>5. t_delivered' = t_delivered /\ t_output' = t_output  BY <1>7 DEF Terminal!Emit
      <3> QED BY <3>1, <3>4, <3>5, <2>2 DEF Terminal!OrderInv
    <2>6. Terminal!ChunksOK'  BY <1>7, <2>1, <2>2, <2>3, <2>4 DEF Terminal!Emit
    <2>7. Terminal!FlagsOK' /\ Terminal!FieldsOK' /\ Terminal!PeopleOK'  BY <1>7 DEF Terminal!Emit
    <2>8. Terminal!StopInv'  BY <1>7 DEF Terminal!Emit, Terminal!Reading
    <2>9. Terminal!RunInv'  BY <1>7, <2>1, <2>2, <2>3, <2>4 DEF Terminal!Emit, Terminal!Reading
    <2> QED BY <2>5, <2>6, <2>7, <2>8, <2>9
  <1> QED BY <1>2, <1>3, <1>4, <1>5, <1>6, <1>7 DEF Terminal!ProcessStep

\* Every step keeps it.
LEMMA TerminalNext == Terminal!IInv /\ [Terminal!Next]_(Terminal!vars) => Terminal!IInv'
  <1> SUFFICES ASSUME Terminal!IInv, [Terminal!Next]_(Terminal!vars) PROVE Terminal!IInv'
    OBVIOUS
  <1>1. CASE UNCHANGED Terminal!vars
    <2> USE <1>1 DEF Terminal!IInv, Terminal!TypeOK, Terminal!FlagsOK, Terminal!FieldsOK,
        Terminal!ChunksOK,
          Terminal!PeopleOK, Terminal!Procs, Terminal!vars, Terminal!ownerVars, Terminal!fieldVars,
          Terminal!threadVars, Terminal!kernelVars, Terminal!peopleVars, Terminal!bufferVars
    <2>1. Terminal!OrderInv'  BY DEF Terminal!OrderInv, Terminal!Increasing, Terminal!Before
    <2>2. Terminal!FlagsOK' /\ Terminal!FieldsOK' /\ Terminal!PeopleOK' /\ Terminal!ChunksOK'  OBVIOUS
    <2>3. Terminal!StopInv' /\ Terminal!RunInv'  BY DEF Terminal!StopInv, Terminal!RunInv
    <2> QED BY <2>1, <2>2, <2>3
  <1> QED BY <1>1, TerminalUi, TerminalOwner, TerminalThreads, TerminalPeople DEF Terminal!Next

\* A run that poll() reports as ended has shown all that was written to its
\* terminal, in order and once, except for chunks written after the last poll of
\* its reader (PseudoTerminal::poll(), readerLoop() and stop()).
THEOREM SpecOutputShown == Terminal!Spec => []OutputShown
  <1>1. Terminal!IInv => OutputShown
    BY DEF Terminal!IInv, Terminal!OrderInv, Terminal!Increasing, Terminal!RunInv, Terminal!OutputShown,
           OutputShown
  <1> QED BY <1>1, TerminalInit, TerminalNext, PTL DEF Terminal!Spec

----------------------------------------------------------------------------
(* LldbDapClient and its adapter *)

HIDE AsyncProcessAssumption
USE DEF Lldb!LldbDapAssumption

\* What the library defines is the same in LldbDap.
LEMMA SameLibrary ==
  /\ \A S : Lldb!IsFiniteSet(S) <=> IsFiniteSet(S)
  /\ \A S : Lldb!Cardinality(S) = Cardinality(S)
  /\ \A S : Lldb!SetToSeq(S) = SetToSeq(S)
  /\ \A S : Lldb!Max(S) = Max(S)
  /\ \A s, i : Lldb!RemoveAt(s, i) = RemoveAt(s, i)
  <1>1. \A S : Lldb!IsFiniteSet(S) <=> IsFiniteSet(S)  BY DEF Lldb!IsFiniteSet, IsFiniteSet
  <1>2. \A S : Lldb!Cardinality(S) = Cardinality(S)  BY <1>1 DEF Lldb!Cardinality, Cardinality
  <1>3. \A S : Lldb!SetToSeq(S) = SetToSeq(S)
    BY <1>2 DEF Lldb!SetToSeq, SetToSeq, Lldb!IsInjective, IsInjective
  <1>4. \A S : Lldb!Max(S) = Max(S)  BY DEF Lldb!Max, Max
  <1>5. \A s, i : Lldb!RemoveAt(s, i) = RemoveAt(s, i)  BY DEF Lldb!RemoveAt, RemoveAt
  <1> QED BY <1>1, <1>2, <1>3, <1>4, <1>5

----------------------------------------------------------------------------
(* Sequences of anything *)

\* What the library says of sequences is said of this one.
LEMMA AsSeq ==
  ASSUME NEW s, Lldb!IsSequence(s)
  PROVE  s \in Seq({s[i] : i \in 1..Len(s)}) /\ DOMAIN s = 1..Len(s) /\ Len(s) \in Nat
  <1> DEFINE T == {s[i] : i \in 1..Len(s)}
  <1>1. Len(s) \in Nat /\ s = [i \in 1..Len(s) |-> s[i]]  BY DEF Lldb!IsSequence
  <1>2. s \in [1..Len(s) -> T]  BY <1>1
  <1> QED BY <1>1, <1>2

\* A sequence of a set is one.
LEMMA FromSeq ==
  ASSUME NEW T, NEW s \in Seq(T)
  PROVE  Lldb!IsSequence(s) /\ Len(s) \in Nat /\ \A i \in 1..Len(s) : s[i] \in T
  <1>1. Len(s) \in Nat /\ s \in [1..Len(s) -> T]  BY LenProperties
  <1> QED BY <1>1 DEF Lldb!IsSequence

\* A function of the first numbers is one.
LEMMA ListOf ==
  ASSUME NEW n \in Nat, NEW f, f = [i \in 1..n |-> f[i]]
  PROVE  Lldb!IsSequence(f) /\ Len(f) = n
  <1> DEFINE T == {f[i] : i \in 1..n}
  <1>1. f \in [1..n -> T]  OBVIOUS
  <1>2. f \in Seq(T) /\ Len(f) = n
    <2> HIDE DEF T
    <2> QED BY <1>1
  <1> QED BY <1>2 DEF Lldb!IsSequence

\* Nothing is a sequence, and the only one without elements.
LEMMA NoElements ==
  /\ \A e : e = <<>> => Lldb!IsSequence(e) /\ Len(e) = 0
  /\ \A s : Lldb!IsSequence(s) /\ Len(s) = 0 => s = <<>>
  <1>1. \A e : e = <<>> => Lldb!IsSequence(e) /\ Len(e) = 0
    <2> SUFFICES ASSUME NEW e, e = <<>> PROVE Lldb!IsSequence(e) /\ Len(e) = 0  OBVIOUS
    <2>1. e \in Seq({})  OBVIOUS
    <2>2. Len(e) = 0  OBVIOUS
    <2> QED BY <2>1, <2>2, FromSeq
  <1>2. ASSUME NEW s, Lldb!IsSequence(s), Len(s) = 0 PROVE s = <<>>
    <2>1. s \in Seq({s[i] : i \in 1..Len(s)})  BY <1>2, AsSeq
    <2> QED BY <2>1, <1>2, EmptySeq
  <1> QED BY <1>1, <1>2

\* One sequence after another.
LEMMA JoinedUp ==
  ASSUME NEW s, NEW t, Lldb!IsSequence(s), Lldb!IsSequence(t)
  PROVE  /\ Lldb!IsSequence(s \o t) /\ Len(s \o t) = Len(s) + Len(t) /\ Len(s) \in Nat /\ Len(t) \in Nat
         /\ \A i \in 1..Len(s) : (s \o t)[i] = s[i]
         /\ \A i \in 1..Len(t) : (s \o t)[Len(s) + i] = t[i]
         /\ \A i \in 1..(Len(s) + Len(t)) : (s \o t)[i] = IF i <= Len(s) THEN s[i] ELSE t[i - Len(s)]
  <1> DEFINE T == {s[i] : i \in 1..Len(s)}
             U == {t[i] : i \in 1..Len(t)}
  <1>1. s \in Seq(T) /\ t \in Seq(U) /\ Len(s) \in Nat /\ Len(t) \in Nat  BY AsSeq
  <1> HIDE DEF T, U
  <1>2. s \in Seq(T \cup U) /\ t \in Seq(T \cup U)  BY <1>1
  <1>3. /\ s \o t \in Seq(T \cup U) /\ Len(s \o t) = Len(s) + Len(t)
        /\ \A i \in 1..(Len(s) + Len(t)) : (s \o t)[i] = IF i <= Len(s) THEN s[i] ELSE t[i - Len(s)]
    BY <1>2, ConcatProperties
  <1>4. \A i \in 1..Len(s) : i \in 1..(Len(s) + Len(t)) /\ i <= Len(s)  BY <1>1
  <1>5. \A i \in 1..Len(t) : /\ Len(s) + i \in 1..(Len(s) + Len(t)) /\ ~(Len(s) + i <= Len(s))
                             /\ (Len(s) + i) - Len(s) = i
    BY <1>1
  <1>6. \A i \in 1..Len(t) : (s \o t)[Len(s) + i] = t[i]  BY <1>3, <1>5
  <1> QED BY <1>1, <1>3, <1>4, <1>6, FromSeq

\* An element of the second one.
LEMMA InSecond ==
  ASSUME NEW s, NEW t, Lldb!IsSequence(s), Lldb!IsSequence(t), NEW i \in 1..Len(t)
  PROVE  (s \o t)[Len(s) + i] = t[i]
  BY JoinedUp

\* A sequence and one more element.
LEMMA AppendedTo ==
  ASSUME NEW s, NEW x, Lldb!IsSequence(s)
  PROVE  /\ Lldb!IsSequence(Append(s, x)) /\ Len(Append(s, x)) = Len(s) + 1 /\ Len(s) \in Nat
         /\ \A i \in 1..Len(s) : Append(s, x)[i] = s[i]
         /\ Append(s, x)[Len(s) + 1] = x
  <1> DEFINE T == {s[i] : i \in 1..Len(s)} \cup {x}
  <1>1. s \in Seq({s[i] : i \in 1..Len(s)}) /\ Len(s) \in Nat  BY AsSeq
  <1>2. s \in Seq(T) /\ x \in T  BY <1>1
  <1> HIDE DEF T
  <1>3. /\ Append(s, x) \in Seq(T) /\ Len(Append(s, x)) = Len(s) + 1
        /\ \A i \in 1..Len(s) : Append(s, x)[i] = s[i]
        /\ Append(s, x)[Len(s) + 1] = x
    BY <1>2, AppendProperties
  <1> QED BY <1>1, <1>3, FromSeq

\* A sequence without its head.
LEMMA Beheaded ==
  ASSUME NEW s, Lldb!IsSequence(s), s # <<>>
  PROVE  /\ Len(s) \in Nat \ {0} /\ Head(s) = s[1]
         /\ Lldb!IsSequence(Tail(s)) /\ Len(Tail(s)) = Len(s) - 1
         /\ \A i \in 1..(Len(s) - 1) : Tail(s)[i] = s[i + 1]
  <1> DEFINE T == {s[i] : i \in 1..Len(s)}
  <1>1. s \in Seq(T) /\ Len(s) \in Nat  BY AsSeq
  <1> HIDE DEF T
  <1>2. Len(s) # 0  BY <1>1, EmptySeq
  <1>3. /\ Tail(s) \in Seq(T) /\ Len(Tail(s)) = Len(s) - 1 /\ Head(s) = s[1]
        /\ \A i \in 1..(Len(s) - 1) : Tail(s)[i] = s[i + 1]
    BY <1>1, <1>2, HeadTailProperties
  <1> QED BY <1>1, <1>2, <1>3, FromSeq

\* A sequence of one element.
LEMMA OneElement ==
  ASSUME NEW x
  PROVE  Lldb!IsSequence(<<x>>) /\ Len(<<x>>) = 1 /\ <<x>>[1] = x
  <1>1. <<x>> \in Seq({x}) /\ Len(<<x>>) = 1 /\ <<x>>[1] = x  OBVIOUS
  <1> QED BY <1>1, FromSeq

\* A sequence of two elements.
LEMMA TwoElements ==
  ASSUME NEW x, NEW y
  PROVE  Lldb!IsSequence(<<x, y>>) /\ Len(<<x, y>>) = 2 /\ <<x, y>>[1] = x /\ <<x, y>>[2] = y
  <1>1. <<x, y>> \in Seq({x, y}) /\ Len(<<x, y>>) = 2 /\ <<x, y>>[1] = x /\ <<x, y>>[2] = y  OBVIOUS
  <1> QED BY <1>1, FromSeq

----------------------------------------------------------------------------
(* Sending requests *)

Flags(c) ==
  <<c.up, c.active, c.stopped, c.exited, c.initialized, c.launchSent, c.configured, c.bps, c.output>>
Pipes(c) == <<c.wire, c.pending, c.seq>>
Panels(c) ==
  <<c.thread, c.frame, c.level, c.threads, c.frames, c.variables, c.watches, c.registersOn, c.registers>>

\* A request that is awaited as what it is.
Awaited(c, m) ==
  /\ m.seq \in DOMAIN c.pending /\ c.pending[m.seq].cmd = m.cmd
  /\ m.cmd = "setBreakpoints" => c.pending[m.seq].context = <<"breakpoints", m.arg.file>>

\* d has sent more than c, all of it of some kinds.
Longer(c, d, kinds) ==
  /\ Lldb!Typed(d) /\ d.up = c.up /\ c.seq <= d.seq /\ Len(c.wire) <= Len(d.wire)
  /\ \A i \in 1..Len(c.wire) : d.wire[i] = c.wire[i]
  /\ \A i \in 1..Len(d.wire) : i > Len(c.wire) =>
       d.wire[i].cmd \in kinds /\ d.wire[i].seq >= c.seq /\ Awaited(d, d.wire[i])
  /\ \A i, j \in 1..Len(d.wire) : i > Len(c.wire) /\ i < j => d.wire[i].seq < d.wire[j].seq
  /\ \A n \in DOMAIN c.pending : n \in DOMAIN d.pending /\ d.pending[n] = c.pending[n]

\* The requests that say nothing of the program or of the breakpoints.
Harmless == Lldb!Commands \ {"initialize", "launch", "setBreakpoints", "continue", "next"}
Mildly(c, d) == Longer(c, d, Harmless) /\ Flags(d) = Flags(c)

AskedFor(q) ==
  /\ q = [cmd |-> q.cmd, arg |-> q.arg, context |-> q.context] /\ q.cmd \in Lldb!Commands
  /\ q.cmd = "variables" => Lldb!AsRows(q.context)
  /\ q.cmd = "setBreakpoints" =>
       /\ q.arg = [file |-> q.arg.file, keys |-> q.arg.keys] /\ q.arg.keys \subseteq Keys
       /\ q.context = <<"breakpoints", q.arg.file>>

\* d has sent these after what c has.
Exactly(c, d, asked) ==
  /\ Len(d.wire) = Len(c.wire) + Len(asked)
  /\ \A i \in 1..Len(asked) : LET m == d.wire[Len(c.wire) + i] IN
       m.cmd = asked[i].cmd /\ m.arg = asked[i].arg /\ m.seq = c.seq + i - 1

\* What is sent to an adapter that is up.
LEMMA Sent1 ==
  ASSUME NEW c, Lldb!Typed(c), c.up, NEW asked, Lldb!IsSequence(asked), \A i \in 1..Len(asked) : AskedFor(asked[i]),
         NEW kinds, \A i \in 1..Len(asked) : asked[i].cmd \in kinds
  PROVE  LET d == Lldb!RequestEach(c, asked) IN
         Longer(c, d, kinds) /\ Flags(d) = Flags(c) /\ Panels(d) = Panels(c) /\ Exactly(c, d, asked)
  <1> DEFINE L == Len(asked)
             W == Len(c.wire)
             more == [i \in 1..L |-> [seq |-> c.seq + i - 1, cmd |-> asked[i].cmd, arg |-> asked[i].arg]]
             news == c.seq..(c.seq + L - 1)
             wire == c.wire \o more
             pending == [n \in DOMAIN c.pending \cup news |->
                           IF n \in news
                           THEN [cmd |-> asked[n - c.seq + 1].cmd, context |-> asked[n - c.seq + 1].context]
                           ELSE c.pending[n]]
             d == [c EXCEPT !.seq = c.seq + L, !.wire = wire, !.pending = pending]
  <1>1. Lldb!RequestEach(c, asked) = d
    BY DEF Lldb!RequestEach, Lldb!Typed, Lldb!Fields
  <1>2. /\ L \in Nat /\ W \in Nat /\ c.seq \in Nat \ {0} /\ DOMAIN c.pending \subseteq 1..(c.seq - 1)
        /\ Lldb!IsSequence(c.wire)
    BY DEF Lldb!Typed, Lldb!IsSequence
  <1>3. /\ Len(more) = L /\ Lldb!IsSequence(more)
        /\ \A i \in 1..L : more[i] = [seq |-> c.seq + i - 1, cmd |-> asked[i].cmd, arg |-> asked[i].arg]
    <2>1. more = [i \in 1..L |-> more[i]]
          /\ \A i \in 1..L : more[i] = [seq |-> c.seq + i - 1, cmd |-> asked[i].cmd, arg |-> asked[i].arg]
      OBVIOUS
    <2> HIDE DEF more
    <2> QED BY <1>2, <2>1, ListOf
  <1>4. /\ \A n \in news : n \in DOMAIN pending /\ pending[n].cmd = asked[n - c.seq + 1].cmd
                           /\ pending[n].context = asked[n - c.seq + 1].context
        /\ \A n \in DOMAIN c.pending : n \in DOMAIN pending /\ pending[n] = c.pending[n]
        /\ DOMAIN pending = DOMAIN c.pending \cup news
    <2>1. \A n \in DOMAIN c.pending : n \notin news  BY <1>2
    <2> QED BY <2>1
  <1> HIDE DEF more, pending
  <1>5. /\ Lldb!IsSequence(wire) /\ Len(wire) = W + L
        /\ \A i \in 1..W : wire[i] = c.wire[i]
        /\ \A i \in 1..L : wire[W + i] = more[i]
    BY <1>2, <1>3, JoinedUp
  <1> HIDE DEF wire
  <1>6. /\ d.seq = c.seq + L /\ d.wire = wire /\ d.pending = pending /\ DOMAIN d = Lldb!Fields
        /\ Flags(d) = Flags(c) /\ Panels(d) = Panels(c)
    BY DEF Lldb!Typed, Lldb!Fields, Flags, Panels
  <1> HIDE DEF d
  <1>7. d.up = c.up /\ d.bps = c.bps /\ d.watches = c.watches /\ d.thread = c.thread /\ d.threads = c.threads
        /\ d.active = c.active /\ d.stopped = c.stopped /\ d.exited = c.exited
        /\ d.initialized = c.initialized /\ d.launchSent = c.launchSent /\ d.configured = c.configured
    BY <1>6 DEF Flags, Panels
  <1>8. ASSUME NEW i \in 1..L
        PROVE  LET m == wire[W + i] IN
               /\ m.seq = c.seq + i - 1 /\ m.cmd = asked[i].cmd /\ m.arg = asked[i].arg
               /\ Lldb!AsRequest(m) /\ m.seq \in 1..(d.seq - 1) /\ m.cmd \in kinds /\ m.seq >= c.seq
               /\ Awaited(d, m)
    <2>1. wire[W + i] = [seq |-> c.seq + i - 1, cmd |-> asked[i].cmd, arg |-> asked[i].arg]
      BY <1>3, <1>5
    <2>2. AskedFor(asked[i])  OBVIOUS
    <2>3. c.seq + i - 1 \in news /\ (c.seq + i - 1) - c.seq + 1 = i  BY <1>2
    <2>4. pending[c.seq + i - 1].cmd = asked[i].cmd /\ pending[c.seq + i - 1].context = asked[i].context
          /\ c.seq + i - 1 \in DOMAIN pending
      BY <1>4, <2>3
    <2>5. Lldb!AsRequest(wire[W + i])  BY <2>1, <2>2 DEF Lldb!AsRequest, AskedFor
    <2> QED BY <1>2, <1>6, <2>1, <2>2, <2>4, <2>5 DEF Awaited, AskedFor
  <1>9. \A i \in 1..Len(wire) : i > W => i - W \in 1..L /\ W + (i - W) = i
    BY <1>2, <1>5
  <1>10. \A i \in 1..Len(wire) : i <= W => i \in 1..W
    BY <1>2, <1>5
  <1>11. \A i \in 1..W : wire[i] = c.wire[i] /\ Lldb!AsRequest(c.wire[i]) /\ c.wire[i].seq \in 1..(c.seq - 1)
    BY <1>5 DEF Lldb!Typed
  <1>12. \A i \in 1..Len(wire) : Lldb!AsRequest(wire[i]) /\ wire[i].seq \in 1..(d.seq - 1)
    <2> SUFFICES ASSUME NEW i \in 1..Len(wire) PROVE Lldb!AsRequest(wire[i]) /\ wire[i].seq \in 1..(d.seq - 1)
      OBVIOUS
    <2>1. CASE i > W  BY <1>8, <1>9, <2>1
    <2>2. CASE ~(i > W)
      <3>1. i \in 1..W  BY <2>2, <1>2, <1>5
      <3>2. wire[i] = c.wire[i] /\ Lldb!AsRequest(c.wire[i]) /\ c.wire[i].seq \in 1..(c.seq - 1)  BY <3>1, <1>11
      <3>3. Lldb!AsRequest(wire[i])  BY <3>2
      <3>4. wire[i].seq \in 1..(c.seq - 1)  BY <3>2
      <3>5. 1..(c.seq - 1) \subseteq 1..(d.seq - 1)  BY <1>2, <1>6
      <3> QED BY <3>3, <3>4, <3>5
    <2> QED BY <2>1, <2>2
  <1>13. DOMAIN d.pending \subseteq 1..(d.seq - 1)  BY <1>2, <1>4, <1>6
  <1>19. ASSUME NEW n \in DOMAIN d.pending PROVE Lldb!AsContext(d.pending[n])
    <2>1. CASE n \in DOMAIN c.pending
      <3>1. d.pending[n] = c.pending[n]  BY <2>1, <1>4, <1>6
      <3> QED BY <3>1, <2>1, <1>19 DEF Lldb!Typed
    <2>2. CASE n \in news
      <3>1. n - c.seq + 1 \in 1..L  BY <2>2, <1>2
      <3>2. AskedFor(asked[n - c.seq + 1])  BY <3>1
      <3>3. LET q == asked[n - c.seq + 1] IN d.pending[n].cmd = q.cmd /\ d.pending[n].context = q.context
        BY <2>2, <1>4, <1>6
      <3>4. LET q == asked[n - c.seq + 1] IN
            q.cmd = "setBreakpoints" => q.context = <<"breakpoints", q.context[2]>>
        BY <3>2 DEF AskedFor
      <3> QED BY <3>2, <3>3, <3>4 DEF AskedFor, Lldb!AsContext
    <2> QED BY <2>1, <2>2, <1>4, <1>6
  <1>14. Lldb!Typed(d)  BY <1>2, <1>5, <1>6, <1>7, <1>12, <1>13, <1>19 DEF Lldb!Typed
  <1>15. \A i \in 1..Len(wire) : i > W =>
           wire[i].cmd \in kinds /\ wire[i].seq >= c.seq /\ Awaited(d, wire[i]) /\ wire[i].seq = c.seq + (i - W) - 1
    BY <1>8, <1>9
  <1>16. \A i, j \in 1..Len(wire) : i > W /\ i < j => wire[i].seq < wire[j].seq
    <2> SUFFICES ASSUME NEW i \in 1..Len(wire), NEW j \in 1..Len(wire), i > W, i < j PROVE wire[i].seq < wire[j].seq
      OBVIOUS
    <2>1. wire[i].seq = c.seq + (i - W) - 1 /\ wire[j].seq = c.seq + (j - W) - 1  BY <1>2, <1>5, <1>15
    <2> QED BY <2>1, <1>2, <1>5
  <1>17. Longer(c, d, kinds)
    <2>1. Lldb!Typed(d) /\ d.up = c.up /\ c.seq <= d.seq /\ Len(c.wire) <= Len(d.wire)
      BY <1>2, <1>5, <1>6, <1>7, <1>14
    <2>2. \A i \in 1..Len(c.wire) : d.wire[i] = c.wire[i]  BY <1>5, <1>6
    <2>3. \A i \in 1..Len(d.wire) : i > Len(c.wire) =>
            d.wire[i].cmd \in kinds /\ d.wire[i].seq >= c.seq /\ Awaited(d, d.wire[i])
      BY <1>6, <1>15
    <2>4. \A i, j \in 1..Len(d.wire) : i > Len(c.wire) /\ i < j => d.wire[i].seq < d.wire[j].seq
      BY <1>6, <1>16
    <2>5. \A n \in DOMAIN c.pending : n \in DOMAIN d.pending /\ d.pending[n] = c.pending[n]
      BY <1>4, <1>6
    <2> QED BY <2>1, <2>2, <2>3, <2>4, <2>5 DEF Longer
  <1>18. Exactly(c, d, asked)  BY <1>5, <1>6, <1>8 DEF Exactly
  <1> QED BY <1>1, <1>6, <1>17, <1>18

\* Nothing more is sent.
LEMMA SameWire ==
  ASSUME NEW c, Lldb!Typed(c), NEW d, Lldb!Typed(d), d.up = c.up, d.wire = c.wire, d.pending = c.pending, c.seq <= d.seq,
         NEW kinds
  PROVE  Longer(c, d, kinds)
  <1>1. Len(c.wire) \in Nat  BY DEF Lldb!Typed, Lldb!IsSequence
  <1> QED BY <1>1 DEF Longer

\* Requests of an adapter that may be gone.
LEMMA Sent2 ==
  ASSUME NEW c, Lldb!Typed(c), NEW asked, Lldb!IsSequence(asked), \A i \in 1..Len(asked) : AskedFor(asked[i]),
         NEW kinds, \A i \in 1..Len(asked) : asked[i].cmd \in kinds
  PROVE  LET d == Lldb!RequestEach(c, asked) IN
         Longer(c, d, kinds) /\ Flags(d) = Flags(c) /\ Panels(d) = Panels(c)
  <1>1. CASE c.up  BY <1>1, Sent1
  <1>2. CASE ~c.up
    <2> DEFINE d == [c EXCEPT !.seq = c.seq + Len(asked)]
    <2>1. Lldb!RequestEach(c, asked) = d  BY <1>2 DEF Lldb!RequestEach, Lldb!Typed, Lldb!Fields
    <2>2. Len(asked) \in Nat /\ c.seq \in Nat \ {0}  BY DEF Lldb!Typed, Lldb!IsSequence
    <2>3. /\ d.seq = c.seq + Len(asked) /\ d.wire = c.wire /\ d.pending = c.pending /\ DOMAIN d = Lldb!Fields
          /\ Flags(d) = Flags(c) /\ Panels(d) = Panels(c)
      BY DEF Lldb!Typed, Lldb!Fields, Flags, Panels
    <2> HIDE DEF d
    <2>4. d.up = c.up /\ d.bps = c.bps /\ d.watches = c.watches /\ d.thread = c.thread /\ d.threads = c.threads
          /\ d.active = c.active /\ d.stopped = c.stopped /\ d.exited = c.exited
          /\ d.initialized = c.initialized /\ d.launchSent = c.launchSent /\ d.configured = c.configured
      BY <2>3 DEF Flags, Panels
    <2>5. c.wire = <<>>  BY <1>2 DEF Lldb!Typed
    <2>6. Len(c.wire) = 0  BY <2>5
    <2>7. DOMAIN d.pending \subseteq 1..(d.seq - 1)  BY <2>2, <2>3 DEF Lldb!Typed
    <2>8. Lldb!Typed(d)  BY <2>2, <2>3, <2>4, <2>5, <2>6, <2>7 DEF Lldb!Typed
    <2>9. Longer(c, d, kinds)  BY <2>2, <2>3, <2>4, <2>8, SameWire
    <2> QED BY <2>1, <2>3, <2>9
  <1> QED BY <1>1, <1>2 DEF Lldb!Typed

\* One more request, of this kind.
OneMore(c, d, cmd) ==
  /\ Len(d.wire) = Len(c.wire) + 1
  /\ d.wire[Len(c.wire) + 1].cmd = cmd /\ d.wire[Len(c.wire) + 1].seq = c.seq

\* One request.
LEMMA Sent3 ==
  ASSUME NEW c, Lldb!Typed(c), NEW cmd \in Lldb!Commands \ {"setBreakpoints"}, NEW arg, NEW context,
         cmd = "variables" => Lldb!AsRows(context)
  PROVE  LET d == Lldb!Request(c, cmd, arg, context) IN
         /\ Longer(c, d, {cmd}) /\ Flags(d) = Flags(c) /\ Panels(d) = Panels(c)
         /\ c.up => OneMore(c, d, cmd)
  <1> DEFINE q == Lldb!Asked(cmd, arg, context)
             kinds == {cmd}
  <1>1. AskedFor(q) /\ q.cmd \in kinds /\ q.cmd = cmd  BY DEF AskedFor, Lldb!Asked
  <1> HIDE DEF q
  <1>2. PICK asked : /\ Lldb!IsSequence(asked) /\ Len(asked) = 1 /\ asked[1] = q
                     /\ Lldb!Request(c, cmd, arg, context) = Lldb!RequestEach(c, asked)
    BY OneElement DEF Lldb!Request, q
  <1>3. \A i \in 1..Len(asked) : AskedFor(asked[i]) /\ asked[i].cmd \in kinds  BY <1>1, <1>2
  <1> HIDE DEF kinds
  <1>4. LET d == Lldb!RequestEach(c, asked) IN Longer(c, d, kinds) /\ Flags(d) = Flags(c) /\ Panels(d) = Panels(c)
    BY <1>2, <1>3, Sent2
  <1>5. ASSUME c.up
        PROVE  OneMore(c, Lldb!RequestEach(c, asked), cmd)
    <2>1. Exactly(c, Lldb!RequestEach(c, asked), asked)  BY <1>2, <1>3, <1>5, Sent1
    <2>2. c.seq \in Nat  BY DEF Lldb!Typed
    <2> QED BY <2>1, <2>2, <1>1, <1>2 DEF Exactly, OneMore
  <1> QED BY <1>2, <1>4, <1>5 DEF kinds

\* The same of a request that has a name, and does not ask for variables.
LEMMA SentNamed ==
  ASSUME NEW c, Lldb!Typed(c), NEW cmd \in Lldb!Commands \ {"setBreakpoints"}, cmd # "variables",
         NEW arg, NEW context, NEW e, e = Lldb!Request(c, cmd, arg, context)
  PROVE  Longer(c, e, {cmd}) /\ Flags(e) = Flags(c) /\ (c.up => OneMore(c, e, cmd))
  <1>1. /\ Longer(c, Lldb!Request(c, cmd, arg, context), {cmd})
        /\ Flags(Lldb!Request(c, cmd, arg, context)) = Flags(c)
        /\ c.up => OneMore(c, Lldb!Request(c, cmd, arg, context), cmd)
    BY Sent3
  <1> QED BY <1>1

\* A request after requests.
LEMMA LongerStill ==
  ASSUME NEW c, NEW d, NEW e, NEW kinds, Lldb!Typed(c), Longer(c, d, kinds), Longer(d, e, kinds)
  PROVE  Longer(c, e, kinds)
  <1>1. Len(c.wire) \in Nat /\ Len(d.wire) \in Nat /\ Len(e.wire) \in Nat /\ Lldb!Typed(d) /\ Lldb!Typed(e)
        /\ c.seq \in Nat /\ d.seq \in Nat /\ e.seq \in Nat
    BY DEF Lldb!Typed, Lldb!IsSequence, Longer
  <1>2. Len(c.wire) <= Len(d.wire) /\ Len(d.wire) <= Len(e.wire) /\ c.seq <= d.seq /\ d.seq <= e.seq
    BY DEF Longer
  <1>3. \A i \in 1..Len(c.wire) : i \in 1..Len(d.wire)  BY <1>1, <1>2
  <1>4. \A i \in 1..Len(e.wire) : \/ i > Len(d.wire)
                                  \/ i \in 1..Len(d.wire)
    BY <1>1
  <1>5. \A m : Awaited(d, m) => Awaited(e, m)  BY DEF Awaited, Longer
  <1>6. ASSUME NEW i \in 1..Len(e.wire), i > Len(c.wire)
        PROVE  e.wire[i].cmd \in kinds /\ e.wire[i].seq >= c.seq /\ Awaited(e, e.wire[i])
    <2>1. CASE i > Len(d.wire)
      <3>1. e.wire[i].cmd \in kinds /\ e.wire[i].seq >= d.seq /\ Awaited(e, e.wire[i])  BY <2>1 DEF Longer
      <3>2. e.wire[i].seq \in Nat  BY <1>1 DEF Lldb!Typed
      <3> QED BY <3>1, <3>2, <1>1, <1>2
    <2>2. CASE i \in 1..Len(d.wire)
      <3>1. e.wire[i] = d.wire[i]  BY <2>2 DEF Longer
      <3>2. d.wire[i].cmd \in kinds /\ d.wire[i].seq >= c.seq /\ Awaited(d, d.wire[i])  BY <2>2, <1>6 DEF Longer
      <3> QED BY <3>1, <3>2, <1>5
    <2> QED BY <2>1, <2>2, <1>4
  <1>7. ASSUME NEW i \in 1..Len(e.wire), NEW j \in 1..Len(e.wire), i > Len(c.wire), i < j
        PROVE  e.wire[i].seq < e.wire[j].seq
    <2>1. CASE i > Len(d.wire)  BY <2>1, <1>7 DEF Longer
    <2>2. CASE i \in 1..Len(d.wire) /\ j \in 1..Len(d.wire)
      <3>1. e.wire[i] = d.wire[i] /\ e.wire[j] = d.wire[j]  BY <2>2 DEF Longer
      <3>2. d.wire[i].seq < d.wire[j].seq  BY <2>2, <1>7 DEF Longer
      <3> QED BY <3>1, <3>2
    <2>3. CASE i \in 1..Len(d.wire) /\ j > Len(d.wire)
      <3>1. e.wire[i] = d.wire[i] /\ e.wire[j].seq >= d.seq  BY <2>3 DEF Longer
      <3>2. d.wire[i].seq \in 1..(d.seq - 1)  BY <2>3, <1>1 DEF Lldb!Typed
      <3>3. e.wire[j].seq \in Nat  BY <1>1 DEF Lldb!Typed
      <3>4. d.wire[i].seq \in Nat /\ d.wire[i].seq < d.seq  BY <3>2, <1>1
      <3>5. e.wire[i].seq \in Nat /\ e.wire[i].seq < d.seq  BY <3>1, <3>4
      <3> QED BY <3>1, <3>3, <3>5, <1>1
    <2> QED BY <2>1, <2>2, <2>3, <1>4
  <1>8. \A i \in 1..Len(c.wire) : e.wire[i] = c.wire[i]  BY <1>3 DEF Longer
  <1>9. \A n \in DOMAIN c.pending : n \in DOMAIN e.pending /\ e.pending[n] = c.pending[n]
    BY DEF Longer
  <1>10. e.up = c.up  BY DEF Longer
  <1> QED BY <1>1, <1>2, <1>6, <1>7, <1>8, <1>9, <1>10 DEF Longer

----------------------------------------------------------------------------
(* The methods that leave the program and the breakpoints alone *)

\* Fields of the panels are assigned.
LEMMA Panelled ==
  ASSUME NEW c, Lldb!Typed(c), NEW d, DOMAIN d = Lldb!Fields, Flags(d) = Flags(c), Pipes(d) = Pipes(c),
         d.thread \in Threads \cup {0}, d.threads \subseteq Threads, Lldb!IsSequence(d.watches)
  PROVE  Mildly(c, d)
  <1>1. /\ d.up = c.up /\ d.bps = c.bps /\ d.wire = c.wire /\ d.pending = c.pending /\ d.seq = c.seq
        /\ d.active = c.active /\ d.stopped = c.stopped /\ d.exited = c.exited
        /\ d.initialized = c.initialized /\ d.launchSent = c.launchSent /\ d.configured = c.configured
    BY DEF Flags, Pipes
  <1>2. Lldb!Typed(d)  BY <1>1 DEF Lldb!Typed
  <1>3. c.seq <= d.seq  BY <1>1 DEF Lldb!Typed
  <1>4. Longer(c, d, Harmless)  BY <1>1, <1>2, <1>3, SameWire
  <1> QED BY <1>4 DEF Mildly

\* One after the other.
LEMMA Milder ==
  ASSUME NEW c, Lldb!Typed(c), NEW d, Mildly(c, d), NEW e, Mildly(d, e)
  PROVE  Mildly(c, e)
  BY LongerStill DEF Mildly

\* Nothing is done.
LEMMA MildNothing ==
  ASSUME NEW c, Lldb!Typed(c)
  PROVE  Mildly(c, c)
  BY Panelled DEF Lldb!Typed

\* A request of these.
LEMMA MildRequest ==
  ASSUME NEW c, Lldb!Typed(c), NEW cmd \in Harmless, NEW arg, NEW context, cmd = "variables" => Lldb!AsRows(context)
  PROVE  Mildly(c, Lldb!Request(c, cmd, arg, context)) /\ Panels(Lldb!Request(c, cmd, arg, context)) = Panels(c)
  <1>1. cmd \in Lldb!Commands \ {"setBreakpoints"}  BY DEF Harmless
  <1> DEFINE d == Lldb!Request(c, cmd, arg, context)
  <1>2. Longer(c, d, {cmd}) /\ Flags(d) = Flags(c) /\ Panels(d) = Panels(c)  BY <1>1, Sent3
  <1>3. Longer(c, d, Harmless)  BY <1>2 DEF Longer
  <1> QED BY <1>2, <1>3 DEF Mildly

\* What it leaves typed.
LEMMA MildTyped ==
  ASSUME NEW c, NEW d, Mildly(c, d)
  PROVE  Lldb!Typed(d) /\ Flags(d) = Flags(c) /\ Longer(c, d, Harmless)
  BY DEF Mildly, Longer

\* The watches are marked.
LEMMA MildMark ==
  ASSUME NEW c, Lldb!Typed(c)
  PROVE  Mildly(c, Lldb!MarkWatchesUnavailable(c))
  <1> DEFINE w == [i \in DOMAIN c.watches |-> [c.watches[i] EXCEPT !.value = Lldb!NoFrame, !.ok = FALSE]]
             d == [c EXCEPT !.watches = w]
  <1>1. Lldb!MarkWatchesUnavailable(c) = d  BY DEF Lldb!MarkWatchesUnavailable, Lldb!Typed, Lldb!Fields
  <1>2. Lldb!IsSequence(w)
    <2>1. DOMAIN c.watches = 1..Len(c.watches) /\ Len(c.watches) \in Nat  BY AsSeq DEF Lldb!Typed
    <2>2. w = [i \in 1..Len(c.watches) |-> w[i]]  BY <2>1
    <2> HIDE DEF w
    <2> QED BY <2>1, <2>2, ListOf
  <1> HIDE DEF w
  <1>3. /\ DOMAIN d = Lldb!Fields /\ Flags(d) = Flags(c) /\ Pipes(d) = Pipes(c) /\ d.thread = c.thread
        /\ d.threads = c.threads /\ d.watches = w
    BY DEF Lldb!Typed, Lldb!Fields, Flags, Pipes
  <1> HIDE DEF d
  <1>4. Mildly(c, d)  BY <1>2, <1>3, Panelled DEF Lldb!Typed
  <1> QED BY <1>1, <1>4

\* And asked for again.
LEMMA MildWatches ==
  ASSUME NEW c, Lldb!Typed(c)
  PROVE  Mildly(c, Lldb!RefreshWatches(c))
  <1>1. CASE c.stopped /\ c.frame # Lldb!NoFrame
    <2> DEFINE n == Len(c.watches)
               asked == [i \in 1..n |-> Lldb!Asked("evaluate", c.frame, <<"watch", c.watches[i].expression>>)]
               d == Lldb!MarkWatchesUnavailable(c)
    <2>1. Lldb!RefreshWatches(c) = Lldb!RequestEach(d, asked)  BY <1>1 DEF Lldb!RefreshWatches
    <2>2. n \in Nat  BY AsSeq DEF Lldb!Typed
    <2>3. asked = [i \in 1..n |-> asked[i]]
          /\ \A i \in 1..n : AskedFor(asked[i]) /\ asked[i].cmd \in Harmless
      BY DEF Lldb!Asked, AskedFor, Harmless, Lldb!Commands, Lldb!Questions
    <2> HIDE DEF asked, n
    <2>4. Lldb!IsSequence(asked) /\ \A i \in 1..Len(asked) : AskedFor(asked[i])  BY <2>2, <2>3, ListOf
    <2>5. \A i \in 1..Len(asked) : asked[i].cmd \in Harmless  BY <2>2, <2>3, ListOf
    <2>6. Mildly(c, d) /\ Lldb!Typed(d)  BY MildMark, MildTyped
    <2> HIDE DEF d
    <2>7. Mildly(d, Lldb!RequestEach(d, asked))  BY <2>4, <2>5, <2>6, Sent2 DEF Mildly
    <2> QED BY <2>1, <2>6, <2>7, Milder
  <1>2. CASE ~(c.stopped /\ c.frame # Lldb!NoFrame)
    BY <1>2, MildNothing DEF Lldb!RefreshWatches
  <1> QED BY <1>1, <1>2

\* The requests for threads, frames and scopes.
LEMMA MildRefresh ==
  ASSUME NEW c, Lldb!Typed(c)
  PROVE  Mildly(c, Lldb!RefreshState(c)) /\ Mildly(c, Lldb!RequestFrames(c)) /\ Mildly(c, Lldb!RequestScopes(c))
  <1>1. {"threads", "stackTrace", "scopes"} \subseteq Harmless  BY DEF Harmless, Lldb!Commands, Lldb!Questions
  <1> QED BY <1>1, MildRequest, MildNothing DEF Lldb!RefreshState, Lldb!RequestFrames, Lldb!RequestScopes

\* The list of threads.
LEMMA MildThreads ==
  ASSUME NEW c, Lldb!Typed(c), NEW ids, ids \subseteq Threads
  PROVE  Mildly(c, Lldb!ShowThreads(c, ids))
  <1> DEFINE least == CHOOSE t \in ids : \A u \in ids : t <= u
             thread == IF c.thread # 0 \/ ids = {} THEN c.thread ELSE least
             d == [c EXCEPT !.threads = ids, !.thread = thread]
  <1>1. Lldb!ShowThreads(c, ids) = Lldb!RequestFrames(d)  BY DEF Lldb!ShowThreads, Lldb!Typed, Lldb!Fields
  <1>2. ids # {} => least \in ids
    <2>1. ids \subseteq Nat  BY LldbAssumption
    <2>2. ids # {} => \E t \in ids : \A u \in ids : t <= u  BY <2>1, LeastNumber
    <2> QED BY <2>2
  <1> HIDE DEF least
  <1>3. thread \in Threads \cup {0}  BY <1>2 DEF Lldb!Typed
  <1> HIDE DEF thread
  <1>4. /\ DOMAIN d = Lldb!Fields /\ Flags(d) = Flags(c) /\ Pipes(d) = Pipes(c) /\ d.thread = thread
        /\ d.threads = ids /\ d.watches = c.watches
    BY DEF Lldb!Typed, Lldb!Fields, Flags, Pipes
  <1> HIDE DEF d
  <1>5. Mildly(c, d) /\ Lldb!Typed(d)
    <2>1. Mildly(c, d)  BY <1>3, <1>4, Panelled DEF Lldb!Typed
    <2> QED BY <2>1, MildTyped
  <1> QED BY <1>1, <1>5, MildRefresh, Milder

\* The frames of a thread.
LEMMA MildFrames ==
  ASSUME NEW c, Lldb!Typed(c), NEW frames
  PROVE  Mildly(c, Lldb!ShowFrames(c, frames))
  <1> DEFINE frame == IF frames = <<>> THEN Lldb!NoFrame ELSE frames[1]
             d == [c EXCEPT !.frames = frames, !.level = 0, !.frame = frame]
  <1>1. Lldb!ShowFrames(c, frames) = Lldb!RefreshWatches(Lldb!RequestScopes(d))  BY DEF Lldb!ShowFrames
  <1> HIDE DEF frame
  <1>2. /\ DOMAIN d = Lldb!Fields /\ Flags(d) = Flags(c) /\ Pipes(d) = Pipes(c) /\ d.thread = c.thread
        /\ d.threads = c.threads /\ d.watches = c.watches
    BY DEF Lldb!Typed, Lldb!Fields, Flags, Pipes
  <1> HIDE DEF d
  <1>3. Mildly(c, d) /\ Lldb!Typed(d)
    <2>1. Mildly(c, d)  BY <1>2, Panelled DEF Lldb!Typed
    <2> QED BY <2>1, MildTyped
  <1> DEFINE e == Lldb!RequestScopes(d)
  <1>4. Mildly(c, e) /\ Lldb!Typed(e)
    <2>1. Mildly(d, e)  BY <1>3, MildRefresh
    <2> QED BY <2>1, <1>3, Milder, MildTyped
  <1> HIDE DEF e
  <1>5. Mildly(c, Lldb!RefreshWatches(e))  BY <1>4, MildWatches, Milder
  <1> QED BY <1>1, <1>5 DEF e

\* The scopes of a frame.
LEMMA MildScopes ==
  ASSUME NEW c, Lldb!Typed(c), NEW frame
  PROVE  Mildly(c, Lldb!ShowScopes(c, frame))
  <1> DEFINE r == IF c.registersOn
                  THEN Lldb!Request(c, "variables", <<frame, <<"registers">>>>, <<"registers">>) ELSE c
  <1>1. "variables" \in Harmless /\ Lldb!AsRows(<<"registers">>) /\ Lldb!AsRows(<<"locals">>)
    BY DEF Harmless, Lldb!Commands, Lldb!Questions, Lldb!AsRows
  <1>2. Mildly(c, r)  BY <1>1, MildRequest, MildNothing
  <1>3. Lldb!Typed(r)  BY <1>2, MildTyped
  <1>4. Lldb!ShowScopes(c, frame) = Lldb!Request(r, "variables", <<frame, <<"locals">>>>, <<"locals">>)
    BY DEF Lldb!ShowScopes
  <1> HIDE DEF r
  <1> QED BY <1>1, <1>2, <1>3, <1>4, MildRequest, Milder

\* Fields that only the panels show.
LEMMA MildPanel ==
  ASSUME NEW c, Lldb!Typed(c), NEW level, NEW frame, NEW variables, NEW registers, NEW on
  PROVE  /\ Mildly(c, [c EXCEPT !.variables = variables]) /\ Mildly(c, [c EXCEPT !.registers = registers])
         /\ Mildly(c, [c EXCEPT !.level = level, !.frame = frame, !.variables = variables,
                                !.registers = registers])
         /\ Mildly(c, [c EXCEPT !.registersOn = on])
  <1>1. ASSUME NEW d, DOMAIN d = Lldb!Fields, Flags(d) = Flags(c), Pipes(d) = Pipes(c),
               d.thread = c.thread, d.threads = c.threads, d.watches = c.watches
        PROVE  Mildly(c, d)
    BY <1>1, Panelled DEF Lldb!Typed
  <1>2. Mildly(c, [c EXCEPT !.variables = variables])
    <2> DEFINE d == [c EXCEPT !.variables = variables]
    <2>1. /\ DOMAIN d = Lldb!Fields /\ Flags(d) = Flags(c) /\ Pipes(d) = Pipes(c)
          /\ d.thread = c.thread /\ d.threads = c.threads /\ d.watches = c.watches
      BY DEF Lldb!Typed, Lldb!Fields, Flags, Pipes
    <2> HIDE DEF d
    <2> QED BY <1>1, <2>1 DEF d
  <1>3. Mildly(c, [c EXCEPT !.registers = registers])
    <2> DEFINE d == [c EXCEPT !.registers = registers]
    <2>1. /\ DOMAIN d = Lldb!Fields /\ Flags(d) = Flags(c) /\ Pipes(d) = Pipes(c)
          /\ d.thread = c.thread /\ d.threads = c.threads /\ d.watches = c.watches
      BY DEF Lldb!Typed, Lldb!Fields, Flags, Pipes
    <2> HIDE DEF d
    <2> QED BY <1>1, <2>1 DEF d
  <1>4. Mildly(c, [c EXCEPT !.level = level, !.frame = frame, !.variables = variables, !.registers = registers])
    <2> DEFINE d == [c EXCEPT !.level = level, !.frame = frame, !.variables = variables, !.registers = registers]
    <2>1. /\ DOMAIN d = Lldb!Fields /\ Flags(d) = Flags(c) /\ Pipes(d) = Pipes(c)
          /\ d.thread = c.thread /\ d.threads = c.threads /\ d.watches = c.watches
      BY DEF Lldb!Typed, Lldb!Fields, Flags, Pipes
    <2> HIDE DEF d
    <2> QED BY <1>1, <2>1 DEF d
  <1>5. Mildly(c, [c EXCEPT !.registersOn = on])
    <2> DEFINE d == [c EXCEPT !.registersOn = on]
    <2>1. /\ DOMAIN d = Lldb!Fields /\ Flags(d) = Flags(c) /\ Pipes(d) = Pipes(c)
          /\ d.thread = c.thread /\ d.threads = c.threads /\ d.watches = c.watches
      BY DEF Lldb!Typed, Lldb!Fields, Flags, Pipes
    <2> HIDE DEF d
    <2> QED BY <1>1, <2>1 DEF d
  <1> QED BY <1>2, <1>3, <1>4, <1>5

\* The rows of an answer.
LEMMA MildVariables ==
  ASSUME NEW c, Lldb!Typed(c), NEW context, NEW list, Lldb!AsRows(context)
  PROVE  Mildly(c, Lldb!ShowVariables(c, context, list))
  <1>1. <<"registers">> # <<"locals">>  OBVIOUS
  <1>2. CASE context = <<"registers">>  BY <1>2, MildPanel DEF Lldb!ShowVariables
  <1>3. CASE context = <<"locals">>  BY <1>1, <1>3, MildPanel DEF Lldb!ShowVariables
  <1>4. CASE context # <<"registers">> /\ context # <<"locals">> /\ context[1] = "children"
    <2> DEFINE i == context[2]
               rows == SubSeq(c.variables, 1, i)
                       \o [k \in DOMAIN list |-> [list[k] EXCEPT !.depth = c.variables[i].depth + 1]]
                       \o SubSeq(c.variables, i + 1, Len(c.variables))
    <2>1. Lldb!ShowVariables(c, context, list) = IF i > Len(c.variables) THEN c ELSE [c EXCEPT !.variables = rows]
      BY <1>4 DEF Lldb!ShowVariables, Lldb!Typed, Lldb!Fields
    <2> HIDE DEF rows, i
    <2>2. Mildly(c, [c EXCEPT !.variables = rows]) /\ Mildly(c, c)  BY MildPanel, MildNothing
    <2> QED BY <2>1, <2>2
  <1> QED BY <1>2, <1>3, <1>4 DEF Lldb!AsRows

\* Some watches show something else.
LEMMA MildWatched ==
  ASSUME NEW c, Lldb!Typed(c), NEW w, Lldb!IsSequence(w)
  PROVE  Mildly(c, [c EXCEPT !.watches = w])
  <1> DEFINE d == [c EXCEPT !.watches = w]
  <1>1. /\ DOMAIN d = Lldb!Fields /\ Flags(d) = Flags(c) /\ Pipes(d) = Pipes(c)
        /\ d.thread = c.thread /\ d.threads = c.threads /\ d.watches = w
    BY DEF Lldb!Typed, Lldb!Fields, Flags, Pipes
  <1> HIDE DEF d
  <1>2. Mildly(c, d)  BY <1>1, Panelled DEF Lldb!Typed
  <1> QED BY <1>2 DEF d

\* The answer for a watch, or its refusal.
LEMMA MildAnswer ==
  ASSUME NEW c, Lldb!Typed(c), NEW e, NEW value, NEW ok
  PROVE  Mildly(c, [c EXCEPT !.watches = [i \in DOMAIN c.watches |->
                      IF c.watches[i].expression = e
                      THEN [c.watches[i] EXCEPT !.value = value, !.ok = ok] ELSE c.watches[i]]])
  <1> DEFINE w == [i \in DOMAIN c.watches |->
                     IF c.watches[i].expression = e
                     THEN [c.watches[i] EXCEPT !.value = value, !.ok = ok] ELSE c.watches[i]]
  <1>1. DOMAIN c.watches = 1..Len(c.watches) /\ Len(c.watches) \in Nat  BY AsSeq DEF Lldb!Typed
  <1>2. w = [i \in 1..Len(c.watches) |-> w[i]]  BY <1>1
  <1> HIDE DEF w
  <1>3. Lldb!IsSequence(w)  BY <1>1, <1>2, ListOf
  <1>4. Mildly(c, [c EXCEPT !.watches = w])  BY <1>3, MildWatched
  <1> QED BY <1>4 DEF w

\* The watches of the window's list.
LEMMA MildEdits ==
  ASSUME NEW c, Lldb!Typed(c)
  PROVE  /\ \A e : Mildly(c, Lldb!AddWatch(c, e))
         /\ \A i \in DOMAIN c.watches : Mildly(c, Lldb!RemoveWatch(c, i))
  <1>1. ASSUME NEW e PROVE Mildly(c, Lldb!AddWatch(c, e))
    <2> DEFINE w == Append(c.watches, [expression |-> e, value |-> Lldb!NoFrame, ok |-> FALSE])
               d == [c EXCEPT !.watches = w]
    <2>1. Lldb!AddWatch(c, e) = IF \E i \in DOMAIN c.watches : c.watches[i].expression = e THEN c
                           ELSE IF c.stopped THEN Lldb!RefreshWatches(d) ELSE d
      BY DEF Lldb!AddWatch, Lldb!Typed, Lldb!Fields
    <2>2. Lldb!IsSequence(w)  BY AppendedTo DEF Lldb!Typed
    <2> HIDE DEF w
    <2>3. Mildly(c, d)  BY <2>2, MildWatched
    <2> HIDE DEF d
    <2>4. Mildly(c, Lldb!RefreshWatches(d))  BY <2>3, MildTyped, MildWatches, Milder
    <2> QED BY <2>1, <2>3, <2>4, MildNothing
  <1>2. ASSUME NEW i \in DOMAIN c.watches PROVE Mildly(c, Lldb!RemoveWatch(c, i))
    <2> DEFINE w == RemoveAt(c.watches, i)
               T == {c.watches[k] : k \in 1..Len(c.watches)}
    <2>1. c.watches \in Seq(T) /\ i \in 1..Len(c.watches)  BY AsSeq DEF Lldb!Typed
    <2> HIDE DEF T
    <2>2. w \in Seq(T)  BY <2>1, RemoveAtProperties
    <2>3. Lldb!IsSequence(w)  BY <2>2, FromSeq
    <2>4. Lldb!RemoveWatch(c, i) = [c EXCEPT !.watches = w]  BY SameLibrary DEF Lldb!RemoveWatch, Lldb!Typed, Lldb!Fields
    <2> HIDE DEF w
    <2> QED BY <2>3, <2>4, MildWatched
  <1> QED BY <1>1, <1>2

\* What the window's panels call.
LEMMA MildInspection ==
  ASSUME NEW c, Lldb!Typed(c)
  PROVE  /\ \A t \in Threads : Mildly(c, Lldb!SelectThread(c, t))
         /\ \A l : Mildly(c, Lldb!SelectFrame(c, l))
         /\ Mildly(c, Lldb!Assign(c)) /\ Mildly(c, Lldb!Interrupt(c))
         /\ \A on : Mildly(c, Lldb!SetRegistersEnabled(c, on))
         /\ \A i : Mildly(c, Lldb!ToggleVariable(c, i))
  <1>1. ASSUME NEW t \in Threads PROVE Mildly(c, Lldb!SelectThread(c, t))
    <2> DEFINE d == [c EXCEPT !.thread = t, !.level = 0, !.frame = Lldb!NoFrame]
    <2>1. Lldb!SelectThread(c, t) = IF c.stopped THEN Lldb!RequestFrames(d) ELSE c  BY DEF Lldb!SelectThread
    <2>2. /\ DOMAIN d = Lldb!Fields /\ Flags(d) = Flags(c) /\ Pipes(d) = Pipes(c) /\ d.thread = t
          /\ d.threads = c.threads /\ d.watches = c.watches
      BY DEF Lldb!Typed, Lldb!Fields, Flags, Pipes
    <2> HIDE DEF d
    <2>3. Mildly(c, d)  BY <2>2, Panelled DEF Lldb!Typed
    <2>4. Mildly(c, Lldb!RequestFrames(d))  BY <2>3, MildTyped, MildRefresh, Milder
    <2> QED BY <2>1, <2>4, MildNothing
  <1>2. ASSUME NEW l PROVE Mildly(c, Lldb!SelectFrame(c, l))
    <2> DEFINE d == [c EXCEPT !.level = l, !.frame = c.frames[l + 1], !.variables = <<>>, !.registers = Lldb!NoFrame]
               e == Lldb!RequestScopes(d)
    <2>1. Lldb!SelectFrame(c, l) = IF c.stopped /\ l < Len(c.frames) THEN Lldb!RefreshWatches(e) ELSE c
      BY DEF Lldb!SelectFrame
    <2>2. Mildly(c, d)  BY MildPanel
    <2> HIDE DEF d
    <2>3. Mildly(c, e)  BY <2>2, MildTyped, MildRefresh, Milder
    <2> HIDE DEF e
    <2>4. Mildly(c, Lldb!RefreshWatches(e))  BY <2>3, MildTyped, MildWatches, Milder
    <2> QED BY <2>1, <2>4, MildNothing
  <1>3. Mildly(c, Lldb!Assign(c)) /\ Mildly(c, Lldb!Interrupt(c))
    <2>1. {"setExpression", "pause"} \subseteq Harmless  BY DEF Harmless, Lldb!Commands, Lldb!Questions
    <2> QED BY <2>1, MildRequest, MildNothing DEF Lldb!Assign, Lldb!Interrupt
  <1>4. ASSUME NEW on PROVE Mildly(c, Lldb!SetRegistersEnabled(c, on))
    <2> DEFINE d == [c EXCEPT !.registersOn = on]
    <2>1. Lldb!SetRegistersEnabled(c, on) =
            IF ~on THEN [d EXCEPT !.registers = Lldb!NoFrame] ELSE IF c.stopped THEN Lldb!RequestScopes(d) ELSE d
      BY DEF Lldb!SetRegistersEnabled
    <2>2. Mildly(c, d)  BY MildPanel
    <2>3. Lldb!Typed(d)  BY <2>2, MildTyped
    <2> HIDE DEF d
    <2>4. Mildly(d, [d EXCEPT !.registers = Lldb!NoFrame])  BY <2>3, MildPanel
    <2>5. Mildly(c, [d EXCEPT !.registers = Lldb!NoFrame])  BY <2>2, <2>3, <2>4, Milder
    <2>6. Mildly(c, Lldb!RequestScopes(d))  BY <2>2, <2>3, MildRefresh, Milder
    <2> QED BY <2>1, <2>2, <2>5, <2>6
  <1>5. ASSUME NEW i PROVE Mildly(c, Lldb!ToggleVariable(c, i))
    <2> DEFINE closed == SubSeq([c.variables EXCEPT ![i].expanded = FALSE], 1, i)
                         \o SubSeq(c.variables, i + 1 + Cardinality(Lldb!Subtree(c, i)), Len(c.variables))
               opened == [c.variables EXCEPT ![i].expanded = TRUE]
               arg == <<c.variables[i].at[1], c.variables[i].name>>
               d == [c EXCEPT !.variables = opened]
    <2>1. Lldb!ToggleVariable(c, i) =
            IF ~c.stopped \/ i > Len(c.variables) \/ c.variables[i].depth > 0 THEN c
            ELSE IF c.variables[i].expanded THEN [c EXCEPT !.variables = closed]
                 ELSE Lldb!Request(d, "variables", arg, <<"children", i>>)
      BY SameLibrary DEF Lldb!ToggleVariable, Lldb!Typed, Lldb!Fields
    <2> HIDE DEF closed, opened, arg
    <2>2. Mildly(c, [c EXCEPT !.variables = closed]) /\ Mildly(c, d)  BY MildPanel
    <2>3. Lldb!Typed(d)  BY <2>2, MildTyped
    <2> HIDE DEF d
    <2>4. "variables" \in Harmless /\ Lldb!AsRows(<<"children", i>>)
      BY DEF Harmless, Lldb!Commands, Lldb!Questions, Lldb!AsRows
    <2>5. Mildly(c, Lldb!Request(d, "variables", arg, <<"children", i>>))
      BY <2>2, <2>3, <2>4, MildRequest, Milder
    <2> QED BY <2>1, <2>2, <2>5, MildNothing
  <1> QED BY <1>1, <1>2, <1>3, <1>4, <1>5

----------------------------------------------------------------------------
(* Requests are sent: what stays *)

\* The old requests and the new ones.
LEMMA Parts ==
  ASSUME NEW c, Lldb!Typed(c), NEW d, NEW kinds, Longer(c, d, kinds)
  PROVE  /\ Len(c.wire) \in Nat /\ Len(d.wire) \in Nat
         /\ \A i \in 1..Len(c.wire) : i \in 1..Len(d.wire) /\ d.wire[i] = c.wire[i]
         /\ \A i \in 1..Len(d.wire) :
              \/ i \in 1..Len(c.wire) /\ d.wire[i] = c.wire[i] /\ d.wire[i].seq \in 1..(c.seq - 1)
              \/ /\ i > Len(c.wire) /\ d.wire[i].cmd \in kinds /\ d.wire[i].seq >= c.seq
                 /\ Awaited(d, d.wire[i]) /\ d.wire[i].seq \in Nat
  <1>1. /\ Len(c.wire) \in Nat /\ Len(d.wire) \in Nat /\ Len(c.wire) <= Len(d.wire)
        /\ c.seq \in Nat /\ d.seq \in Nat
    BY DEF Lldb!Typed, Lldb!IsSequence, Longer
  <1>2. \A i \in 1..Len(c.wire) : i \in 1..Len(d.wire) /\ d.wire[i] = c.wire[i] /\ c.wire[i].seq \in 1..(c.seq - 1)
    <2>1. \A i \in 1..Len(c.wire) : d.wire[i] = c.wire[i]  BY DEF Longer
    <2>2. \A i \in 1..Len(c.wire) : c.wire[i].seq \in 1..(c.seq - 1)  BY DEF Lldb!Typed
    <2>3. \A i \in 1..Len(c.wire) : i \in 1..Len(d.wire)  BY <1>1
    <2> QED BY <2>1, <2>2, <2>3
  <1>3. ASSUME NEW i \in 1..Len(d.wire), i > Len(c.wire)
        PROVE  /\ d.wire[i].cmd \in kinds /\ d.wire[i].seq >= c.seq /\ Awaited(d, d.wire[i])
               /\ d.wire[i].seq \in Nat
    <2>1. d.wire[i].seq \in 1..(d.seq - 1)  BY DEF Longer, Lldb!Typed
    <2>2. d.wire[i].cmd \in kinds /\ d.wire[i].seq >= c.seq /\ Awaited(d, d.wire[i])  BY <1>3 DEF Longer
    <2> QED BY <2>1, <2>2, <1>1
  <1>4. \A i \in 1..Len(d.wire) : i \in 1..Len(c.wire) \/ i > Len(c.wire)  BY <1>1
  <1> QED BY <1>1, <1>2, <1>3, <1>4

\* Everything is still awaited as what it is.
LEMMA MatchedLonger ==
  ASSUME NEW c, Lldb!Typed(c), NEW d, NEW kinds, Longer(c, d, kinds), NEW out, Lldb!Matched(c, out)
  PROVE  Lldb!Matched(d, out)
  <1>1. c.seq \in Nat  BY DEF Lldb!Typed
  <1>2. ASSUME NEW i \in 1..Len(d.wire) PROVE Awaited(d, d.wire[i])
    <2>1. CASE i \in 1..Len(c.wire) /\ d.wire[i] = c.wire[i]
      <3>1. Awaited(c, c.wire[i])  BY <2>1 DEF Lldb!Matched, Awaited
      <3> QED BY <3>1, <2>1 DEF Longer, Awaited
    <2> QED BY <2>1, Parts
  <1>3. ASSUME NEW i \in 1..Len(d.wire), NEW j \in 1..Len(d.wire), i < j
        PROVE  d.wire[i].seq < d.wire[j].seq
    <2>1. CASE i > Len(c.wire)  BY <1>3, <2>1 DEF Longer
    <2>2. CASE i \in 1..Len(c.wire) /\ j \in 1..Len(c.wire)
      <3>1. d.wire[i] = c.wire[i] /\ d.wire[j] = c.wire[j]  BY <2>2, Parts
      <3>2. c.wire[i].seq < c.wire[j].seq  BY <1>3, <2>2 DEF Lldb!Matched
      <3> QED BY <3>1, <3>2
    <2>3. CASE i \in 1..Len(c.wire) /\ j > Len(c.wire)
      <3>1. d.wire[i].seq \in 1..(c.seq - 1)  BY <2>3, Parts
      <3>2. d.wire[j].seq >= c.seq /\ d.wire[j].seq \in Nat
        <4>1. j \notin 1..Len(c.wire)  BY <2>3
        <4> QED BY <4>1, Parts
      <3> QED BY <3>1, <3>2, <1>1
    <2> QED BY <2>1, <2>2, <2>3, Parts
  <1>4. ASSUME NEW i \in 1..Len(out), Lldb!IsAnswer(out[i])
        PROVE  /\ out[i].seq \in DOMAIN d.pending /\ d.pending[out[i].seq].cmd = out[i].cmd
               /\ \A j \in 1..Len(d.wire) : d.wire[j].seq # out[i].seq
    <2>1. /\ out[i].seq \in DOMAIN c.pending /\ c.pending[out[i].seq].cmd = out[i].cmd
          /\ \A j \in 1..Len(c.wire) : c.wire[j].seq # out[i].seq
      BY <1>4 DEF Lldb!Matched
    <2>2. out[i].seq \in DOMAIN d.pending /\ d.pending[out[i].seq].cmd = out[i].cmd
      BY <2>1 DEF Longer
    <2>3. out[i].seq \in 1..(c.seq - 1)  BY <2>1 DEF Lldb!Typed
    <2>4. ASSUME NEW j \in 1..Len(d.wire) PROVE d.wire[j].seq # out[i].seq
      <3>1. CASE j \in 1..Len(c.wire) /\ d.wire[j] = c.wire[j]  BY <3>1, <2>1
      <3>2. CASE d.wire[j].seq >= c.seq /\ d.wire[j].seq \in Nat  BY <3>2, <2>3, <1>1
      <3> QED BY <3>1, <3>2, Parts
    <2> QED BY <2>2, <2>4
  <1>5. \A i, j \in 1..Len(out) : Lldb!IsAnswer(out[i]) /\ Lldb!IsAnswer(out[j]) /\ out[j].seq = out[i].seq => j = i
    BY DEF Lldb!Matched
  <1> QED BY <1>2, <1>3, <1>4, <1>5 DEF Lldb!Matched, Awaited

\* Nothing is started by other requests.
LEMMA StartedLonger ==
  ASSUME NEW c, Lldb!Typed(c), NEW d, NEW kinds, Longer(c, d, kinds), "initialize" \notin kinds, "launch" \notin kinds,
         d.initialized = c.initialized, d.launchSent = c.launchSent, NEW out, NEW a, Lldb!Started(c, out, a)
  PROVE  Lldb!Started(d, out, a)
  <1>1. \A i \in 1..Len(d.wire) : d.wire[i].cmd \in {"initialize", "launch"} =>
          i \in 1..Len(c.wire) /\ d.wire[i] = c.wire[i]
    BY Parts
  <1> QED BY <1>1 DEF Lldb!Started

\* The window goes on showing what it showed.
LEMMA FollowsLonger ==
  ASSUME NEW c, Lldb!Typed(c), NEW d, NEW kinds, Longer(c, d, kinds), "continue" \notin kinds, "next" \notin kinds,
         d.active = c.active, d.stopped = c.stopped, d.exited = c.exited, NEW out, NEW a, Lldb!Follows(c, out, a)
  PROVE  Lldb!Follows(d, out, a)
  <1>1. \A i \in 1..Len(d.wire) : Lldb!Resumes(d.wire[i]) => i \in 1..Len(c.wire) /\ d.wire[i] = c.wire[i]
    BY Parts DEF Lldb!Resumes
  <1>2. \A i \in 1..Len(c.wire) : i \in 1..Len(d.wire) /\ d.wire[i] = c.wire[i]  BY Parts
  <1>3. Lldb!NoResume(d) <=> Lldb!NoResume(c)  BY <1>1, <1>2 DEF Lldb!NoResume
  <1>4. \A state : Lldb!Shows(d, state) <=> Lldb!Shows(c, state)  BY DEF Lldb!Shows
  <1>5. \A state : Lldb!WillShow(d, out, state) <=> Lldb!WillShow(c, out, state)  BY <1>4 DEF Lldb!WillShow
  <1> QED BY <1>1, <1>3, <1>4, <1>5 DEF Lldb!Follows

\* All of it for requests of other kinds.
LEMMA SteadyLonger ==
  ASSUME NEW c, Lldb!Typed(c), NEW d, NEW kinds, Longer(c, d, kinds),
         kinds \cap {"initialize", "launch", "continue", "next"} = {},
         d.active = c.active, d.stopped = c.stopped, d.exited = c.exited,
         d.initialized = c.initialized, d.launchSent = c.launchSent, NEW out, NEW a, Lldb!Steady(c, out, a)
  PROVE  Lldb!Steady(d, out, a)
  BY MatchedLonger, StartedLonger, FollowsLonger DEF Lldb!Steady

\* The files asked for are the same.
LEMMA AskedLonger ==
  ASSUME NEW c, Lldb!Typed(c), NEW d, NEW kinds, Longer(c, d, kinds), "setBreakpoints" \notin kinds
  PROVE  /\ \A file : Lldb!NoAsk(d, file) <=> Lldb!NoAsk(c, file)
         /\ \A file : \A i \in 1..Len(d.wire) : Lldb!Asks(d.wire[i], file) => i \in 1..Len(c.wire) /\ d.wire[i] = c.wire[i]
  <1>1. \A i \in 1..Len(d.wire) : d.wire[i].cmd = "setBreakpoints" => i \in 1..Len(c.wire) /\ d.wire[i] = c.wire[i]
    BY Parts
  <1>2. \A i \in 1..Len(c.wire) : i \in 1..Len(d.wire) /\ d.wire[i] = c.wire[i]  BY Parts
  <1> QED BY <1>1, <1>2 DEF Lldb!Asks, Lldb!NoAsk

\* What is enabled in a file is the same.
SameEnabled(c, d) ==
  DOMAIN d.bps = DOMAIN c.bps /\ \A key \in DOMAIN c.bps : d.bps[key].enabled = c.bps[key].enabled

\* It is the same for every file.
LEMMA EnabledSame ==
  ASSUME NEW c, NEW d, SameEnabled(c, d)
  PROVE  \A file : Lldb!EnabledIn(d, file) = Lldb!EnabledIn(c, file)
  BY DEF SameEnabled, Lldb!EnabledIn

\* The adapter has been told the same.
LEMMA ToldLonger ==
  ASSUME NEW c, Lldb!Typed(c), NEW d, NEW kinds, Longer(c, d, kinds), "setBreakpoints" \notin kinds,
         SameEnabled(c, d), NEW a, Lldb!Told(c, a)
  PROVE  Lldb!Told(d, a)
  <1> SUFFICES ASSUME NEW key \in DOMAIN d.bps
               PROVE  LET file == Lldb!FileOf(key) IN
                      \/ Lldb!NoAsk(d, file) /\ a.bps[file] = Lldb!EnabledIn(d, file)
                      \/ \E i \in 1..Len(d.wire) :
                           /\ Lldb!Asks(d.wire[i], file) /\ d.wire[i].arg.keys = Lldb!EnabledIn(d, file)
                           /\ \A j \in 1..Len(d.wire) : j > i => ~Lldb!Asks(d.wire[j], file)
    BY DEF Lldb!Told
  <1>a. \A f : \A j \in 1..Len(d.wire) :
          Lldb!Asks(d.wire[j], f) => j \in 1..Len(c.wire) /\ d.wire[j] = c.wire[j]
    BY AskedLonger
  <1> DEFINE file == Lldb!FileOf(key)
  <1>1. Lldb!EnabledIn(d, file) = Lldb!EnabledIn(c, file) /\ key \in DOMAIN c.bps  BY EnabledSame DEF SameEnabled
  <1> HIDE DEF file
  <1>2. CASE Lldb!NoAsk(c, file) /\ a.bps[file] = Lldb!EnabledIn(c, file)  BY <1>1, <1>2, AskedLonger DEF file
  <1>3. ASSUME NEW i \in 1..Len(c.wire), Lldb!Asks(c.wire[i], file), c.wire[i].arg.keys = Lldb!EnabledIn(c, file),
               \A j \in 1..Len(c.wire) : j > i => ~Lldb!Asks(c.wire[j], file)
        PROVE  \E k \in 1..Len(d.wire) :
                 /\ Lldb!Asks(d.wire[k], file) /\ d.wire[k].arg.keys = Lldb!EnabledIn(d, file)
                 /\ \A j \in 1..Len(d.wire) : j > k => ~Lldb!Asks(d.wire[j], file)
    <2>1. i \in 1..Len(d.wire) /\ d.wire[i] = c.wire[i]  BY Parts
    <2>2. ASSUME NEW j \in 1..Len(d.wire), j > i PROVE ~Lldb!Asks(d.wire[j], file)
      <3>1. Lldb!Asks(d.wire[j], file) => j \in 1..Len(c.wire) /\ d.wire[j] = c.wire[j]  BY <1>a
      <3> QED BY <3>1, <2>2, <1>3
    <2> QED BY <1>1, <1>3, <2>1, <2>2
  <1>4. \/ Lldb!NoAsk(c, file) /\ a.bps[file] = Lldb!EnabledIn(c, file)
        \/ \E i \in 1..Len(c.wire) :
             /\ Lldb!Asks(c.wire[i], file) /\ c.wire[i].arg.keys = Lldb!EnabledIn(c, file)
             /\ \A j \in 1..Len(c.wire) : j > i => ~Lldb!Asks(c.wire[j], file)
    BY <1>1 DEF Lldb!Told, file
  <1> QED BY <1>2, <1>3, <1>4 DEF file

\* The same answers tell of the same files.
LEMMA TellsLonger ==
  ASSUME NEW c, Lldb!Typed(c), NEW d, NEW kinds, Longer(c, d, kinds), NEW out, Lldb!Matched(c, out)
  PROVE  \A i \in 1..Len(out) : \A file : Lldb!Tells(d, out[i], file) <=> Lldb!Tells(c, out[i], file)
  <1> SUFFICES ASSUME NEW i \in 1..Len(out), NEW file PROVE Lldb!Tells(d, out[i], file) <=> Lldb!Tells(c, out[i], file)
    OBVIOUS
  <1>1. Lldb!IsAnswer(out[i]) => out[i].seq \in DOMAIN c.pending  BY DEF Lldb!Matched
  <1>2. Lldb!IsAnswer(out[i]) => out[i].seq \in DOMAIN d.pending /\ d.pending[out[i].seq] = c.pending[out[i].seq]
    BY <1>1 DEF Longer
  <1> QED BY <1>1, <1>2 DEF Lldb!Tells

\* And the same is learnt from them.
LEMMA LearnsLonger ==
  ASSUME NEW c, Lldb!Typed(c), NEW d, NEW kinds, Longer(c, d, kinds), "setBreakpoints" \notin kinds,
         d.bps = c.bps, NEW out, Lldb!Matched(c, out), Lldb!Learns(c, out)
  PROVE  Lldb!Learns(d, out)
  <1>1. \A file : Lldb!EnabledIn(d, file) = Lldb!EnabledIn(c, file)  BY DEF Lldb!EnabledIn
  <1>2. \A file : Lldb!NoAsk(d, file) <=> Lldb!NoAsk(c, file)  BY AskedLonger
  <1>3. \A i \in 1..Len(out) : \A file : Lldb!Tells(d, out[i], file) <=> Lldb!Tells(c, out[i], file)  BY TellsLonger
  <1> QED BY <1>1, <1>2, <1>3 DEF Lldb!Learns

\* The invariant does not mind these methods.
LEMMA SoundMildly ==
  ASSUME NEW c, NEW d, Mildly(c, d), NEW out, NEW a, NEW leftover, Lldb!Sound(c, out, a, leftover)
  PROVE  Lldb!Sound(d, out, a, leftover)
  <1>1. Lldb!Typed(c) /\ Lldb!Typed(d) /\ Longer(c, d, Harmless)  BY MildTyped DEF Lldb!Sound
  <1>2. /\ d.up = c.up /\ d.bps = c.bps /\ d.active = c.active /\ d.stopped = c.stopped /\ d.exited = c.exited
        /\ d.initialized = c.initialized /\ d.launchSent = c.launchSent /\ d.configured = c.configured
    BY DEF Mildly, Flags
  <1>3. /\ Harmless \cap {"initialize", "launch", "continue", "next"} = {} /\ "setBreakpoints" \notin Harmless
    BY DEF Harmless
  <1>4. ASSUME Lldb!Told(c, a) PROVE Lldb!Told(d, a)
    <2>1. SameEnabled(c, d)  BY <1>2 DEF SameEnabled
    <2> QED BY <1>1, <1>3, <1>4, <2>1, ToldLonger
  <1>5. ASSUME Lldb!Steady(c, out, a) PROVE Lldb!Steady(d, out, a)  BY <1>1, <1>2, <1>3, <1>5, SteadyLonger
  <1>6. ASSUME Lldb!Steady(c, out, a), Lldb!Learns(c, out) PROVE Lldb!Learns(d, out)
    BY <1>1, <1>2, <1>3, <1>6, LearnsLonger DEF Lldb!Steady
  <1> QED BY <1>1, <1>2, <1>4, <1>5, <1>6 DEF Lldb!Sound, Lldb!Fresh

----------------------------------------------------------------------------
(* A message is taken *)

\* The messages after the first n.
Rest(out, n) == [i \in 1..(Len(out) - n) |-> out[n + i]]

\* They are a sequence too.
LEMMA RestIs ==
  ASSUME NEW out, Lldb!IsSequence(out), NEW n \in 0..Len(out)
  PROVE  /\ Lldb!IsSequence(Rest(out, n)) /\ Len(Rest(out, n)) = Len(out) - n /\ Len(out) \in Nat
         /\ \A i \in 1..(Len(out) - n) : Rest(out, n)[i] = out[n + i]
  <1>1. Len(out) \in Nat /\ Len(out) - n \in Nat  BY DEF Lldb!IsSequence
  <1>2. /\ Rest(out, n) = [i \in 1..(Len(out) - n) |-> Rest(out, n)[i]]
        /\ \A i \in 1..(Len(out) - n) : Rest(out, n)[i] = out[n + i]
    BY DEF Rest
  <1> QED BY <1>1, <1>2, ListOf

\* One message less.
LEMMA RestOne ==
  ASSUME NEW out, Lldb!IsSequence(out), Len(out) # 0
  PROVE  /\ Lldb!IsSequence(Rest(out, 1)) /\ Len(Rest(out, 1)) \in Nat /\ Len(out) \in Nat /\ 1 \in 1..Len(out)
         /\ \A i \in 1..Len(Rest(out, 1)) : i + 1 \in 1..Len(out) /\ i + 1 # 1 /\ Rest(out, 1)[i] = out[i + 1]
         /\ \A i \in 1..Len(out) : i = 1 \/ (i - 1 \in 1..Len(Rest(out, 1)) /\ Rest(out, 1)[i - 1] = out[i])
  <1>1. Len(out) \in Nat \ {0} /\ 1 \in 0..Len(out) /\ 1 \in 1..Len(out)  BY DEF Lldb!IsSequence
  <1>2. /\ Lldb!IsSequence(Rest(out, 1)) /\ Len(Rest(out, 1)) = Len(out) - 1
        /\ \A i \in 1..(Len(out) - 1) : Rest(out, 1)[i] = out[1 + i]
    BY <1>1, RestIs
  <1>3. ASSUME NEW i \in 1..Len(Rest(out, 1))
        PROVE  i + 1 \in 1..Len(out) /\ i + 1 # 1 /\ Rest(out, 1)[i] = out[i + 1]
    <2>1. i \in 1..(Len(out) - 1) /\ i + 1 = 1 + i  BY <1>1, <1>2
    <2>2. Rest(out, 1)[i] = out[i + 1]  BY <2>1, <1>2
    <2> QED BY <2>1, <2>2, <1>1
  <1>4. ASSUME NEW i \in 1..Len(out), i # 1
        PROVE  i - 1 \in 1..Len(Rest(out, 1)) /\ Rest(out, 1)[i - 1] = out[i]
    <2>1. i - 1 \in 1..(Len(out) - 1) /\ 1 + (i - 1) = i  BY <1>1, <1>4
    <2> QED BY <2>1, <1>2
  <1> QED BY <1>1, <1>2, <1>3, <1>4

\* The message m is taken: d awaits the others, and shows and holds verified what it says.
Alike(c, d) ==
  /\ Lldb!Typed(d) /\ d.up = c.up /\ d.wire = c.wire /\ d.configured = c.configured /\ SameEnabled(c, d)
VerifiedBy(c, d, m) ==
  \A key \in DOMAIN c.bps : LET file == Lldb!FileOf(key) IN
    /\ ~Lldb!Tells(c, m, file) => d.bps[key] = c.bps[key]
    /\ Lldb!Tells(c, m, file) /\ m.ok /\ m.body = Lldb!Resolved(Lldb!EnabledIn(c, file)) /\ c.bps[key].enabled =>
         (d.bps[key].verified <=> key \in Resolvable)
Popped(c, d, m) ==
  /\ Alike(c, d) /\ d.launchSent = c.launchSent
  /\ DOMAIN d.pending = IF Lldb!IsAnswer(m) THEN DOMAIN c.pending \ {m.seq} ELSE DOMAIN c.pending
  /\ \A n \in DOMAIN d.pending : d.pending[n] = c.pending[n]
  /\ \/ d.initialized = c.initialized
     \/ Lldb!IsAnswer(m) /\ m.ok /\ m.cmd = "initialize" /\ d.initialized
  /\ Lldb!Turn(m) => Lldb!Shows(d, Lldb!Gives(m))
  /\ ~Lldb!Turn(m) => d.active = c.active /\ d.stopped = c.stopped /\ d.exited = c.exited
  /\ VerifiedBy(c, d, m)

\* What the adapter has been told is the same.
LEMMA ToldAlike ==
  ASSUME NEW c, NEW d, Alike(c, d), NEW a, Lldb!Told(c, a)
  PROVE  Lldb!Told(d, a)
  <1>1. \A file : Lldb!EnabledIn(d, file) = Lldb!EnabledIn(c, file)  BY EnabledSame DEF Alike
  <1>2. \A file : Lldb!NoAsk(d, file) <=> Lldb!NoAsk(c, file)  BY DEF Lldb!NoAsk, Alike
  <1> QED BY <1>1, <1>2 DEF Lldb!Told, Alike, SameEnabled

\* The other messages are answers to what is awaited.
LEMMA MatchedPopped ==
  ASSUME NEW c, NEW d, NEW out, Lldb!IsSequence(out), Len(out) # 0, Popped(c, d, out[1]), Lldb!Matched(c, out)
  PROVE  Lldb!Matched(d, Rest(out, 1))
  <1> DEFINE more == Rest(out, 1)
             m == out[1]
  <1>1. /\ 1 \in 1..Len(out)
        /\ \A i \in 1..Len(more) : i + 1 \in 1..Len(out) /\ i + 1 # 1 /\ more[i] = out[i + 1] /\ i \in Int
    <2> Len(more) \in Nat  BY RestOne
    <2> QED BY RestOne
  <1>2. d.wire = c.wire  BY DEF Popped, Alike
  <1>3. /\ DOMAIN d.pending = IF Lldb!IsAnswer(m) THEN DOMAIN c.pending \ {m.seq} ELSE DOMAIN c.pending
        /\ \A n \in DOMAIN d.pending : d.pending[n] = c.pending[n]
    BY DEF Popped
  <1>4. Lldb!IsAnswer(m) => \A j \in 1..Len(c.wire) : c.wire[j].seq # m.seq  BY <1>1 DEF Lldb!Matched
  <1>5. Lldb!IsAnswer(m) => \A j \in 1..Len(out) : Lldb!IsAnswer(out[j]) /\ out[j].seq = m.seq => j = 1
    BY <1>1 DEF Lldb!Matched
  <1> HIDE DEF more, m
  <1>6. ASSUME NEW i \in 1..Len(c.wire) PROVE Awaited(d, c.wire[i])
    <2>1. Awaited(c, c.wire[i])  BY DEF Awaited, Lldb!Matched
    <2> QED BY <2>1, <1>3, <1>4 DEF Awaited
  <1>7. \A i, j \in 1..Len(c.wire) : i < j => c.wire[i].seq < c.wire[j].seq  BY DEF Lldb!Matched
  <1>8. ASSUME NEW i \in 1..Len(more), Lldb!IsAnswer(more[i])
        PROVE  /\ more[i].seq \in DOMAIN d.pending /\ d.pending[more[i].seq].cmd = more[i].cmd
               /\ \A j \in 1..Len(c.wire) : c.wire[j].seq # more[i].seq
               /\ \A j \in 1..Len(more) : Lldb!IsAnswer(more[j]) /\ more[j].seq = more[i].seq => j = i
    <2> DEFINE k == i + 1
    <2>1. k \in 1..Len(out) /\ k # 1 /\ more[i] = out[k]  BY <1>1
    <2> HIDE DEF k
    <2>2. /\ out[k].seq \in DOMAIN c.pending /\ c.pending[out[k].seq].cmd = out[k].cmd
          /\ \A j \in 1..Len(c.wire) : c.wire[j].seq # out[k].seq
          /\ \A j \in 1..Len(out) : Lldb!IsAnswer(out[j]) /\ out[j].seq = out[k].seq => j = k
      BY <1>8, <2>1 DEF Lldb!Matched
    <2>3. Lldb!IsAnswer(m) => out[k].seq # m.seq  BY <1>5, <1>8, <2>1
    <2>4. out[k].seq \in DOMAIN d.pending  BY <1>3, <2>2, <2>3
    <2>5. ASSUME NEW j \in 1..Len(more), Lldb!IsAnswer(more[j]), more[j].seq = more[i].seq PROVE j = i
      <3>1. j + 1 = k  BY <2>1, <2>2, <2>5, <1>1
      <3> QED BY <3>1, <1>1 DEF k
    <2> QED BY <2>1, <2>2, <2>4, <2>5, <1>3
  <1>9. Lldb!Matched(d, more)  BY <1>2, <1>6, <1>7, <1>8 DEF Lldb!Matched, Awaited
  <1> QED BY <1>9 DEF more

\* The start is where it was, or one step further.
LEMMA StartedPopped ==
  ASSUME NEW c, NEW d, NEW out, Lldb!IsSequence(out), Len(out) # 0, Popped(c, d, out[1]), Lldb!Matched(c, out),
         NEW a, Lldb!Started(c, out, a)
  PROVE  Lldb!Started(d, Rest(out, 1), a)
  <1> DEFINE more == Rest(out, 1)
             m == out[1]
  <1>1. /\ 1 \in 1..Len(out)
        /\ \A i \in 1..Len(more) : i + 1 \in 1..Len(out) /\ i + 1 # 1 /\ more[i] = out[i + 1]
    BY RestOne
  <1>2. d.wire = c.wire /\ d.launchSent = c.launchSent  BY DEF Popped, Alike
  <1>3. CASE d.initialized = c.initialized
    <2>1. \A i \in 1..Len(more) : Lldb!IsAnswer(more[i]) /\ more[i].cmd = "initialize" =>
            more[i].seq = 1 /\ ~d.initialized
      BY <1>1, <1>3 DEF Lldb!Started
    <2> QED BY <1>2, <1>3, <2>1 DEF Lldb!Started
  <1>4. CASE Lldb!IsAnswer(m) /\ m.ok /\ m.cmd = "initialize" /\ d.initialized
    <2>1. m.seq = 1  BY <1>1, <1>4 DEF Lldb!Started
    <2>2. \A i \in 1..Len(c.wire) : c.wire[i].cmd # "initialize"
      BY <1>1, <1>4, <2>1 DEF Lldb!Started, Lldb!Matched
    <2>3. ASSUME NEW i \in 1..Len(more), Lldb!IsAnswer(more[i]), more[i].cmd = "initialize" PROVE FALSE
      <3> DEFINE k == i + 1
      <3>1. k \in 1..Len(out) /\ k # 1 /\ more[i] = out[k]  BY <1>1
      <3> HIDE DEF k, more
      <3>2. out[k].seq = 1 /\ Lldb!IsAnswer(out[k])  BY <2>3, <3>1 DEF Lldb!Started
      <3> QED BY <1>1, <1>4, <2>1, <3>1, <3>2 DEF Lldb!Matched
    <2> QED BY <1>2, <1>4, <2>2, <2>3 DEF Lldb!Started
  <1> QED BY <1>3, <1>4 DEF Popped

\* The window still comes to show what the program does.
LEMMA FollowsPopped ==
  ASSUME NEW c, NEW d, NEW out, Lldb!IsSequence(out), Len(out) # 0, Popped(c, d, out[1]), NEW a, Lldb!Follows(c, out, a)
  PROVE  Lldb!Follows(d, Rest(out, 1), a)
  <1> DEFINE more == Rest(out, 1)
             m == out[1]
  <1>1. /\ 1 \in 1..Len(out) /\ Len(more) \in Nat /\ Len(out) \in Nat
        /\ \A i \in 1..Len(more) : i + 1 \in 1..Len(out) /\ i + 1 # 1 /\ more[i] = out[i + 1]
        /\ \A i \in 1..Len(out) : i = 1 \/ (i - 1 \in 1..Len(more) /\ more[i - 1] = out[i])
    BY RestOne
  <1>2. d.wire = c.wire  BY DEF Popped, Alike
  <1>3. Lldb!NoResume(d) <=> Lldb!NoResume(c)  BY <1>2 DEF Lldb!NoResume
  <1>4. Lldb!Turn(m) => Lldb!Shows(d, Lldb!Gives(m))  BY DEF Popped
  <1>5. ~Lldb!Turn(m) => \A state : Lldb!Shows(d, state) <=> Lldb!Shows(c, state)  BY DEF Popped, Lldb!Shows
  <1>6. ~Lldb!Turn(m) => (d.stopped <=> c.stopped)  BY DEF Popped
  <1> HIDE DEF more, m
  <1>7. Lldb!Settled(out) => ~Lldb!Turn(m) /\ Lldb!Settled(more)  BY <1>1 DEF Lldb!Settled, m
  <1>8. ASSUME NEW k \in 1..Len(out), \A j \in 1..Len(out) : j > k => ~Lldb!Turn(out[j])
        PROVE  /\ k = 1 => Lldb!Settled(more)
               /\ k # 1 => /\ k - 1 \in 1..Len(more) /\ more[k - 1] = out[k]
                           /\ \A j \in 1..Len(more) : j > k - 1 => ~Lldb!Turn(more[j])
    <2>1. ASSUME NEW j \in 1..Len(more), j > k - 1 PROVE ~Lldb!Turn(more[j])
      <3>1. j + 1 \in 1..Len(out) /\ j + 1 > k /\ more[j] = out[j + 1]  BY <1>1, <2>1
      <3> QED BY <3>1, <1>8
    <2>2. k = 1 => \A j \in 1..Len(more) : j > k - 1  BY <1>1
    <2> QED BY <1>1, <2>1, <2>2 DEF Lldb!Settled
  <1>9. ASSUME NEW state, Lldb!WillShow(c, out, state) PROVE Lldb!WillShow(d, more, state)
    <2>1. CASE Lldb!Settled(out) /\ Lldb!Shows(c, state)  BY <1>5, <1>7, <2>1 DEF Lldb!WillShow
    <2>2. ASSUME NEW i \in 1..Len(out), Lldb!Turn(out[i]), Lldb!Gives(out[i]) = state,
                 \A j \in 1..Len(out) : j > i => ~Lldb!Turn(out[j])
          PROVE  Lldb!WillShow(d, more, state)
      <3>1. CASE i = 1
        <4>1. Lldb!Turn(m) /\ Lldb!Gives(m) = state  BY <2>2, <3>1 DEF m
        <4>2. Lldb!Settled(more)  BY <1>8, <2>2, <3>1
        <4> QED BY <1>4, <4>1, <4>2 DEF Lldb!WillShow
      <3>2. CASE i # 1
        <4> DEFINE k == i - 1
        <4>1. k \in 1..Len(more) /\ more[k] = out[i] /\ \A j \in 1..Len(more) : j > k => ~Lldb!Turn(more[j])
          BY <1>8, <2>2, <3>2
        <4> HIDE DEF k
        <4> QED BY <2>2, <4>1 DEF Lldb!WillShow
      <3> QED BY <3>1, <3>2
    <2> QED BY <1>9, <2>1, <2>2 DEF Lldb!WillShow
  <1>10. a.target = "stopped" =>
           \/ Lldb!WillShow(d, more, "stopped") /\ Lldb!NoResume(d)
           \/ /\ Lldb!Settled(more) /\ Lldb!Shows(d, "running")
              /\ \A i, j \in 1..Len(d.wire) : Lldb!Resumes(d.wire[i]) /\ Lldb!Resumes(d.wire[j]) => i = j
              /\ ~Lldb!NoResume(d)
    <2>1. a.target = "stopped" =>
           \/ Lldb!WillShow(c, out, "stopped") /\ Lldb!NoResume(c)
           \/ /\ Lldb!Settled(out) /\ Lldb!Shows(c, "running")
              /\ \A i, j \in 1..Len(c.wire) : Lldb!Resumes(c.wire[i]) /\ Lldb!Resumes(c.wire[j]) => i = j
              /\ ~Lldb!NoResume(c)
      BY DEF Lldb!Follows
    <2>2. Lldb!Settled(out) /\ Lldb!Shows(c, "running") => Lldb!Settled(more) /\ Lldb!Shows(d, "running")  BY <1>5, <1>7
    <2>3. Lldb!WillShow(c, out, "stopped") => Lldb!WillShow(d, more, "stopped")  BY <1>9
    <2> QED BY <2>1, <2>2, <2>3, <1>2, <1>3
  <1>11. ASSUME d.stopped PROVE Lldb!Shows(d, "stopped") /\ a.target = "stopped" /\ Lldb!Settled(more) /\ Lldb!NoResume(d)
    <2>1. CASE Lldb!Turn(m)
      <3>1. Lldb!Gives(m) = "stopped" /\ Lldb!Shows(d, "stopped")  BY <1>4, <1>11, <2>1 DEF Lldb!Shows
      <3>2. m.type = "event" /\ m.event = "stopped"  BY <2>1, <3>1 DEF Lldb!Turn, Lldb!Gives, Lldb!IsAnswer
      <3>3. a.target = "stopped" /\ Lldb!NoResume(c) /\ \A j \in 1..Len(out) : j > 1 => ~Lldb!Turn(out[j])
        BY <1>1, <3>2 DEF Lldb!Follows, m
      <3> QED BY <1>1, <1>3, <1>8, <3>1, <3>3
    <2>2. CASE ~Lldb!Turn(m)
      <3>1. Lldb!Shows(c, "stopped") /\ a.target = "stopped" /\ Lldb!Settled(out) /\ Lldb!NoResume(c)
        BY <1>6, <1>11, <2>2 DEF Lldb!Follows
      <3> QED BY <1>3, <1>5, <1>7, <2>2, <3>1
    <2> QED BY <2>1, <2>2
  <1>12. ASSUME NEW i \in 1..Len(more), more[i].type = "event", more[i].event = "stopped"
         PROVE  a.target = "stopped" /\ Lldb!NoResume(d) /\ \A j \in 1..Len(more) : j > i => ~Lldb!Turn(more[j])
    <2>1. i + 1 \in 1..Len(out) /\ i + 1 # 1 /\ more[i] = out[i + 1] /\ (i + 1) - 1 = i  BY <1>1
    <2>2. a.target = "stopped" /\ Lldb!NoResume(c) /\ \A j \in 1..Len(out) : j > i + 1 => ~Lldb!Turn(out[j])
      BY <1>12, <2>1 DEF Lldb!Follows
    <2>3. \A j \in 1..Len(more) : j > i => ~Lldb!Turn(more[j])  BY <1>8, <2>1, <2>2
    <2> QED BY <1>3, <2>2, <2>3
  <1>13. ASSUME NEW i \in 1..Len(more), more[i].type = "event", more[i].event = "continued"
         PROVE  Lldb!Shows(d, "running") /\ \A j \in 1..Len(more) : j < i => ~Lldb!Turn(more[j])
    <2>1. i + 1 \in 1..Len(out) /\ more[i] = out[i + 1] /\ i \in Int  BY <1>1
    <2>2. Lldb!Shows(c, "running") /\ \A j \in 1..Len(out) : j < i + 1 => ~Lldb!Turn(out[j])
      BY <1>13, <2>1 DEF Lldb!Follows
    <2>3. ~Lldb!Turn(m)
      <3>1. 1 < i + 1  BY <1>1
      <3> QED BY <1>1, <2>2, <3>1 DEF m
    <2>4. ASSUME NEW j \in 1..Len(more), j < i PROVE ~Lldb!Turn(more[j])
      <3>1. j + 1 \in 1..Len(out) /\ more[j] = out[j + 1] /\ j + 1 < i + 1  BY <1>1, <2>1, <2>4
      <3> QED BY <2>2, <3>1
    <2> QED BY <1>5, <2>2, <2>3, <2>4
  <1>14. /\ a.target \in {"running", "over"} => Lldb!WillShow(d, more, a.target)
         /\ a.target = "none" /\ a.launched => Lldb!WillShow(d, more, "running")
         /\ a.target # "stopped" => Lldb!NoResume(d)
    BY <1>3, <1>9 DEF Lldb!Follows
  <1>15. Lldb!Follows(d, more, a)  BY <1>10, <1>11, <1>12, <1>13, <1>14 DEF Lldb!Follows
  <1> QED BY <1>15 DEF more

\* What is verified is still right, or comes to be.
LEMMA LearnsPopped ==
  ASSUME NEW c, NEW d, NEW out, Lldb!IsSequence(out), Len(out) # 0, Popped(c, d, out[1]), Lldb!Matched(c, out),
         Lldb!Learns(c, out)
  PROVE  Lldb!Learns(d, Rest(out, 1))
  <1> DEFINE more == Rest(out, 1)
             m == out[1]
  <1>1. /\ 1 \in 1..Len(out) /\ Len(more) \in Nat /\ Len(out) \in Nat
        /\ \A i \in 1..Len(more) : i + 1 \in 1..Len(out) /\ i + 1 # 1 /\ more[i] = out[i + 1]
        /\ \A i \in 1..Len(out) : i = 1 \/ (i - 1 \in 1..Len(more) /\ more[i - 1] = out[i])
    BY RestOne
  <1>2. d.wire = c.wire /\ SameEnabled(c, d)  BY DEF Popped, Alike
  <1>3. /\ DOMAIN d.pending = IF Lldb!IsAnswer(m) THEN DOMAIN c.pending \ {m.seq} ELSE DOMAIN c.pending
        /\ \A n \in DOMAIN d.pending : d.pending[n] = c.pending[n]
        /\ VerifiedBy(c, d, m)
    BY DEF Popped
  <1> HIDE DEF more, m
  <1>4. ASSUME NEW i \in 1..Len(more), NEW file PROVE Lldb!Tells(d, more[i], file) <=> Lldb!Tells(c, more[i], file)
    <2> DEFINE k == i + 1
    <2>1. k \in 1..Len(out) /\ k # 1 /\ more[i] = out[k]  BY <1>1
    <2> HIDE DEF k
    <2>2. ASSUME Lldb!IsAnswer(out[k]) PROVE out[k].seq \in DOMAIN d.pending
      <3>1. out[k].seq \in DOMAIN c.pending  BY <2>1, <2>2 DEF Lldb!Matched
      <3>2. Lldb!IsAnswer(m) => out[k].seq # m.seq  BY <1>1, <2>1, <2>2 DEF Lldb!Matched, m
      <3> QED BY <3>1, <3>2, <1>3
    <2>3. out[k].seq \in DOMAIN d.pending =>
            out[k].seq \in DOMAIN c.pending /\ d.pending[out[k].seq] = c.pending[out[k].seq]
      BY <1>3
    <2>4. Lldb!Tells(d, out[k], file) <=> Lldb!Tells(c, out[k], file)
      BY <2>2, <2>3 DEF Lldb!Tells
    <2> QED BY <2>1, <2>4
  <1> SUFFICES ASSUME NEW key \in DOMAIN d.bps
               PROVE  LET file == Lldb!FileOf(key) IN
                      \/ ~Lldb!NoAsk(d, file)
                      \/ \E i \in 1..Len(more) :
                           /\ Lldb!Tells(d, more[i], file) /\ more[i].ok /\ more[i].body = Lldb!Resolved(Lldb!EnabledIn(d, file))
                           /\ \A j \in 1..Len(more) : j > i => ~Lldb!Tells(d, more[j], file)
                      \/ /\ \A i \in 1..Len(more) : ~Lldb!Tells(d, more[i], file)
                         /\ d.bps[key].enabled => (d.bps[key].verified <=> key \in Resolvable)
    BY DEF Lldb!Learns, more
  <1> DEFINE file == Lldb!FileOf(key)
  <1>5. key \in DOMAIN c.bps /\ d.bps[key].enabled = c.bps[key].enabled /\ Lldb!EnabledIn(d, file) = Lldb!EnabledIn(c, file)
    BY <1>2, EnabledSame DEF SameEnabled
  <1>6. Lldb!NoAsk(d, file) <=> Lldb!NoAsk(c, file)  BY <1>2 DEF Lldb!NoAsk
  <1>7. /\ ~Lldb!Tells(c, m, file) => d.bps[key] = c.bps[key]
        /\ Lldb!Tells(c, m, file) /\ m.ok /\ m.body = Lldb!Resolved(Lldb!EnabledIn(c, file)) /\ c.bps[key].enabled =>
             (d.bps[key].verified <=> key \in Resolvable)
    BY <1>3, <1>5 DEF VerifiedBy
  <1>8. \/ ~Lldb!NoAsk(c, file)
        \/ \E i \in 1..Len(out) :
             /\ Lldb!Tells(c, out[i], file) /\ out[i].ok /\ out[i].body = Lldb!Resolved(Lldb!EnabledIn(c, file))
             /\ \A j \in 1..Len(out) : j > i => ~Lldb!Tells(c, out[j], file)
        \/ /\ \A i \in 1..Len(out) : ~Lldb!Tells(c, out[i], file)
           /\ c.bps[key].enabled => (c.bps[key].verified <=> key \in Resolvable)
    BY <1>5 DEF Lldb!Learns
  <1> HIDE DEF file
  <1>9. CASE ~Lldb!NoAsk(c, file)  BY <1>6, <1>9 DEF file
  <1>10. ASSUME NEW i \in 1..Len(out), Lldb!Tells(c, out[i], file), out[i].ok,
                out[i].body = Lldb!Resolved(Lldb!EnabledIn(c, file)),
                \A j \in 1..Len(out) : j > i => ~Lldb!Tells(c, out[j], file)
         PROVE  \/ \E k \in 1..Len(more) :
                     /\ Lldb!Tells(d, more[k], file) /\ more[k].ok /\ more[k].body = Lldb!Resolved(Lldb!EnabledIn(d, file))
                     /\ \A j \in 1..Len(more) : j > k => ~Lldb!Tells(d, more[j], file)
                \/ /\ \A k \in 1..Len(more) : ~Lldb!Tells(d, more[k], file)
                   /\ d.bps[key].enabled => (d.bps[key].verified <=> key \in Resolvable)
    <2>1. ASSUME NEW j \in 1..Len(more), j > i - 1 PROVE ~Lldb!Tells(d, more[j], file)
      <3>1. j + 1 \in 1..Len(out) /\ j + 1 > i /\ more[j] = out[j + 1]  BY <1>1, <2>1
      <3> QED BY <3>1, <1>4, <1>10
    <2>2. CASE i = 1
      <3>1. \A j \in 1..Len(more) : j > i - 1  BY <2>2, <1>1
      <3> QED BY <3>1, <2>1, <2>2, <1>5, <1>7, <1>10 DEF m
    <2>3. CASE i # 1
      <3> DEFINE k == i - 1
      <3>1. k \in 1..Len(more) /\ more[k] = out[i]  BY <1>1, <2>3
      <3>2. \A j \in 1..Len(more) : j > k => ~Lldb!Tells(d, more[j], file)  BY <2>1
      <3> HIDE DEF k
      <3> QED BY <3>1, <3>2, <1>4, <1>5, <1>10
    <2> QED BY <2>2, <2>3
  <1>11. CASE /\ \A i \in 1..Len(out) : ~Lldb!Tells(c, out[i], file)
              /\ c.bps[key].enabled => (c.bps[key].verified <=> key \in Resolvable)
    <2>1. \A i \in 1..Len(more) : ~Lldb!Tells(d, more[i], file)  BY <1>1, <1>4, <1>11
    <2>2. ~Lldb!Tells(c, m, file)  BY <1>1, <1>11 DEF m
    <2> QED BY <2>1, <2>2, <1>5, <1>7, <1>11 DEF file
  <1> QED BY <1>8, <1>9, <1>10, <1>11 DEF file

\* All of it.
LEMMA SoundPopped ==
  ASSUME NEW c, NEW d, NEW out, Len(out) # 0, NEW a, NEW leftover, Lldb!Sound(c, out, a, leftover), Alike(c, d),
         Lldb!Fresh(c, out, a) => Popped(c, d, out[1])
  PROVE  Lldb!Sound(d, Rest(out, 1), a, leftover)
  <1>1. Lldb!IsSequence(out)  BY DEF Lldb!Sound, Lldb!Messages
  <1>2. Lldb!Messages(Rest(out, 1))
    <2>1. /\ Lldb!IsSequence(Rest(out, 1))
          /\ \A i \in 1..Len(Rest(out, 1)) : i + 1 \in 1..Len(out) /\ Rest(out, 1)[i] = out[i + 1]
      BY <1>1, RestOne
    <2> QED BY <2>1 DEF Lldb!Sound, Lldb!Messages
  <1>3. Lldb!Typed(d) /\ d.up = c.up /\ d.configured = c.configured  BY DEF Alike
  <1>4. c.up /\ c.configured => Lldb!Told(d, a)  BY ToldAlike DEF Lldb!Sound
  <1>5. ASSUME Lldb!Fresh(c, out, a) PROVE Lldb!Fresh(d, Rest(out, 1), a)
    <2>1. Popped(c, d, out[1]) /\ Lldb!Matched(c, out) /\ Lldb!Started(c, out, a) /\ Lldb!Follows(c, out, a)
      BY <1>5 DEF Lldb!Fresh, Lldb!Steady
    <2>2. Lldb!Steady(d, Rest(out, 1), a)
      BY <1>1, <2>1, MatchedPopped, StartedPopped, FollowsPopped DEF Lldb!Steady
    <2>3. ASSUME c.configured PROVE Lldb!Learns(d, Rest(out, 1))
      BY <1>1, <1>5, <2>1, <2>3, LearnsPopped DEF Lldb!Fresh
    <2> QED BY <1>3, <2>2, <2>3 DEF Lldb!Fresh
  <1> QED BY <1>2, <1>3, <1>4, <1>5 DEF Lldb!Sound

----------------------------------------------------------------------------
(* The launch, and the breakpoints of every file *)

\* The program is launched once.
LEMMA SoundLaunch ==
  ASSUME NEW c, NEW out, NEW a, NEW leftover, Lldb!Sound(c, out, a, leftover)
  PROVE  Lldb!Sound(Lldb!SendLaunch(c), out, a, leftover)
  <1> SUFFICES ASSUME c.initialized, ~c.launchSent PROVE Lldb!Sound(Lldb!SendLaunch(c), out, a, leftover)
    BY DEF Lldb!SendLaunch
  <1> DEFINE e == Lldb!Request(c, "launch", <<>>, <<>>)
             d == [e EXCEPT !.launchSent = c.up]
  <1>1. Lldb!SendLaunch(c) = d  BY DEF Lldb!SendLaunch
  <1>2. Lldb!Typed(c)  BY DEF Lldb!Sound
  <1>3. "launch" \in Lldb!Commands \ {"setBreakpoints"}  BY DEF Lldb!Commands
  <1>4. /\ Longer(c, e, {"launch"}) /\ Flags(e) = Flags(c)
        /\ c.up => OneMore(c, e, "launch")
    BY <1>2, <1>3, Sent3
  <1>5. Lldb!Typed(e)  BY <1>4 DEF Longer
  <1> HIDE DEF e
  <1>6. /\ DOMAIN d = Lldb!Fields /\ d.launchSent = c.up
        /\ d.up = e.up /\ d.wire = e.wire /\ d.pending = e.pending /\ d.seq = e.seq /\ d.bps = e.bps
        /\ d.active = e.active /\ d.stopped = e.stopped /\ d.exited = e.exited
        /\ d.initialized = e.initialized /\ d.configured = e.configured
        /\ d.thread = e.thread /\ d.threads = e.threads /\ d.watches = e.watches
    BY <1>5 DEF Lldb!Typed, Lldb!Fields
  <1> HIDE DEF d
  <1>7. /\ e.up = c.up /\ e.bps = c.bps /\ e.active = c.active /\ e.stopped = c.stopped /\ e.exited = c.exited
        /\ e.initialized = c.initialized /\ e.configured = c.configured
    BY <1>4 DEF Flags
  <1>8. Lldb!Typed(d)
    <2>1. d.launchSent \in BOOLEAN  BY <1>2, <1>6 DEF Lldb!Typed
    <2> QED BY <1>5, <1>6, <2>1 DEF Lldb!Typed
  <1>9. Longer(c, d, {"launch"})
    <2>1. \A m : Awaited(e, m) => Awaited(d, m)  BY <1>6 DEF Awaited
    <2> QED BY <1>4, <1>6, <1>8, <2>1 DEF Longer
  <1>10. ASSUME Lldb!Told(c, a) PROVE Lldb!Told(d, a)
    <2>1. SameEnabled(c, d)  BY <1>6, <1>7 DEF SameEnabled
    <2> QED BY <1>2, <1>9, <1>10, <2>1, ToldLonger
  <1>11. ASSUME c.up, Lldb!Steady(c, out, a) PROVE Lldb!Steady(d, out, a)
    <2>1. Lldb!Matched(d, out)  BY <1>2, <1>9, <1>11, MatchedLonger DEF Lldb!Steady
    <2>2. Lldb!Follows(d, out, a)  BY <1>2, <1>6, <1>7, <1>9, <1>11, FollowsLonger DEF Lldb!Steady
    <2>3. Lldb!Started(c, out, a)  BY <1>11 DEF Lldb!Steady
    <2>4. \A i \in 1..Len(c.wire) : c.wire[i].cmd \notin {"initialize", "launch"}  BY <2>3 DEF Lldb!Started
    <2>5. ASSUME NEW i \in 1..Len(d.wire), d.wire[i].cmd \in {"initialize", "launch"}
          PROVE  i = Len(d.wire) /\ d.wire[i].cmd = "launch"
      <3>1. i > Len(c.wire) /\ d.wire[i].cmd \in {"launch"}  BY <1>2, <1>9, <2>4, <2>5, Parts
      <3>2. Len(c.wire) \in Nat /\ Len(d.wire) = Len(c.wire) + 1
        BY <1>2, <1>4, <1>6, <1>11 DEF Lldb!Typed, Lldb!IsSequence, OneMore
      <3> QED BY <3>1, <3>2
    <2>6. Lldb!Started(d, out, a)  BY <1>6, <1>7, <1>11, <2>3, <2>5 DEF Lldb!Started
    <2> QED BY <2>1, <2>2, <2>6 DEF Lldb!Steady
  <1>12. ASSUME Lldb!Steady(c, out, a), Lldb!Learns(c, out) PROVE Lldb!Learns(d, out)
    BY <1>2, <1>6, <1>7, <1>9, <1>12, LearnsLonger DEF Lldb!Steady
  <1>13. d.up = c.up /\ d.configured = c.configured  BY <1>6, <1>7
  <1> QED BY <1>1, <1>8, <1>10, <1>11, <1>12, <1>13 DEF Lldb!Sound, Lldb!Fresh

\* Every file that has a breakpoint is asked for, once.
LEMMA Asking ==
  ASSUME NEW c, Lldb!Typed(c)
  PROVE  LET d == Lldb!ConfigureBreakpoints(c) IN
         /\ Longer(c, d, {"setBreakpoints"}) /\ SameEnabled(c, d)
         /\ <<d.active, d.stopped, d.exited, d.initialized, d.launchSent, d.configured, d.output>>
              = <<c.active, c.stopped, c.exited, c.initialized, c.launchSent, c.configured, c.output>>
         /\ c.up => /\ \A key \in DOMAIN d.bps : ~Lldb!NoAsk(d, Lldb!FileOf(key))
                    /\ \A a : Lldb!Told(d, a)
  <1> DEFINE filesOf == {Lldb!FileOf(key) : key \in DOMAIN c.bps}
             files == SetToSeq(filesOf)
             L == Len(files)
             W == Len(c.wire)
             asked == [i \in 1..L |->
                         Lldb!Asked("setBreakpoints", [file |-> files[i], keys |-> Lldb!EnabledIn(c, files[i])],
                               <<"breakpoints", files[i]>>)]
             bps == [key \in DOMAIN c.bps |->
                       IF c.bps[key].enabled THEN [c.bps[key] EXCEPT !.verified = FALSE] ELSE c.bps[key]]
             e == [c EXCEPT !.bps = bps]
             d == Lldb!RequestEach(e, asked)
  <1>1. Lldb!ConfigureBreakpoints(c) = d  BY SameLibrary DEF Lldb!ConfigureBreakpoints, Lldb!Typed, Lldb!Fields
  <1>2. DOMAIN c.bps \subseteq Keys /\ c.bps \in [DOMAIN c.bps -> [enabled : BOOLEAN, verified : BOOLEAN]]
    BY DEF Lldb!Typed, Lldb!BpsSet
  <1>3. IsFiniteSet(filesOf)
    <2>1. IsFiniteSet(DOMAIN c.bps)  BY <1>2, LldbAssumption, SameLibrary, FS_Subset
    <2> DEFINE g == [key \in DOMAIN c.bps |-> Lldb!FileOf(key)]
    <2>2. g \in Surjection(DOMAIN c.bps, filesOf)  BY DEF Surjection
    <2> HIDE DEF g, filesOf
    <2> QED BY <2>1, <2>2, FS_Surjection
  <1>4. /\ L \in Nat /\ \A i \in 1..L : files[i] \in filesOf
        /\ \A i, j \in 1..L : files[i] = files[j] => i = j
        /\ \A x \in filesOf : \E i \in 1..L : files[i] = x
    <2> HIDE DEF filesOf
    <2> QED BY <1>3, Listed
  <1>5. /\ bps \in [DOMAIN c.bps -> [enabled : BOOLEAN, verified : BOOLEAN]] /\ DOMAIN bps = DOMAIN c.bps
        /\ \A key \in DOMAIN c.bps : bps[key].enabled = c.bps[key].enabled
    BY <1>2
  <1> HIDE DEF filesOf, files, bps, L
  <1>6. asked = [i \in 1..L |-> asked[i]]
        /\ \A i \in 1..L : /\ AskedFor(asked[i]) /\ asked[i].cmd = "setBreakpoints"
                           /\ asked[i].arg.file = files[i] /\ asked[i].arg.keys = Lldb!EnabledIn(c, files[i])
    <2>1. \A file : Lldb!EnabledIn(c, file) \subseteq Keys  BY <1>2 DEF Lldb!EnabledIn
    <2> QED BY <2>1 DEF Lldb!Asked, AskedFor, Lldb!Commands
  <1> HIDE DEF asked
  <1>7. /\ DOMAIN e = Lldb!Fields /\ e.bps = bps /\ e.up = c.up /\ e.wire = c.wire /\ e.pending = c.pending
        /\ e.seq = c.seq /\ e.watches = c.watches /\ e.thread = c.thread /\ e.threads = c.threads
        /\ e.output = c.output
        /\ e.active = c.active /\ e.stopped = c.stopped /\ e.exited = c.exited
        /\ e.initialized = c.initialized /\ e.launchSent = c.launchSent /\ e.configured = c.configured
    BY DEF Lldb!Typed, Lldb!Fields
  <1> HIDE DEF e
  <1>8. bps \in Lldb!BpsSet  BY <1>2, <1>5 DEF Lldb!BpsSet
  <1>9. Lldb!Typed(e)  BY <1>7, <1>8 DEF Lldb!Typed
  <1>10. Longer(c, e, {"setBreakpoints"})
    <2>1. c.seq <= e.seq  BY <1>7 DEF Lldb!Typed
    <2> QED BY <1>7, <1>9, <2>1, SameWire
  <1>11. Lldb!IsSequence(asked) /\ Len(asked) = L /\ \A i \in 1..Len(asked) : AskedFor(asked[i])
    BY <1>4, <1>6, ListOf
  <1>12. \A i \in 1..Len(asked) : asked[i].cmd \in {"setBreakpoints"}  BY <1>6, <1>11
  <1>13. Longer(e, d, {"setBreakpoints"}) /\ Flags(d) = Flags(e)  BY <1>9, <1>11, <1>12, Sent2
  <1>14. c.up => Exactly(e, d, asked)  BY <1>7, <1>9, <1>11, <1>12, Sent1
  <1> HIDE DEF d
  <1>15. Longer(c, d, {"setBreakpoints"})  BY <1>10, <1>13, LongerStill
  <1>16. /\ d.bps = bps /\ d.active = c.active /\ d.stopped = c.stopped /\ d.exited = c.exited
         /\ d.initialized = c.initialized /\ d.launchSent = c.launchSent /\ d.configured = c.configured
         /\ d.output = c.output
    BY <1>7, <1>13 DEF Flags
  <1>17. SameEnabled(c, d)  BY <1>5, <1>16 DEF SameEnabled
  <1>18. \A file : Lldb!EnabledIn(d, file) = Lldb!EnabledIn(c, file)  BY <1>17, EnabledSame
  <1>19. ASSUME c.up, NEW key \in DOMAIN d.bps
         PROVE  \E i \in 1..Len(d.wire) :
                  /\ Lldb!Asks(d.wire[i], Lldb!FileOf(key)) /\ d.wire[i].arg.keys = Lldb!EnabledIn(d, Lldb!FileOf(key))
                  /\ \A j \in 1..Len(d.wire) : j > i => ~Lldb!Asks(d.wire[j], Lldb!FileOf(key))
    <2>1. /\ Len(d.wire) = W + L
          /\ \A i \in 1..L : /\ d.wire[W + i].cmd = asked[i].cmd /\ d.wire[W + i].arg = asked[i].arg
      BY <1>7, <1>11, <1>14, <1>19 DEF Exactly
    <2>2. W \in Nat  BY DEF Lldb!Typed, Lldb!IsSequence
    <2>3. Lldb!FileOf(key) \in filesOf  BY <1>5, <1>16, <1>19 DEF filesOf
    <2>4. PICK k \in 1..L : files[k] = Lldb!FileOf(key)  BY <1>4, <2>3
    <2>5. Lldb!Asks(d.wire[W + k], Lldb!FileOf(key)) /\ d.wire[W + k].arg.keys = Lldb!EnabledIn(d, Lldb!FileOf(key))
      BY <1>6, <1>18, <2>1, <2>4 DEF Lldb!Asks
    <2>6. ASSUME NEW j \in 1..Len(d.wire), j > W + k PROVE ~Lldb!Asks(d.wire[j], Lldb!FileOf(key))
      <3>1. j - W \in 1..L /\ W + (j - W) = j /\ j - W # k  BY <1>4, <2>1, <2>2, <2>4, <2>6
      <3>2. d.wire[j].arg = asked[j - W].arg  BY <2>1, <3>1
      <3>3. d.wire[j].arg.file = files[j - W]  BY <1>6, <3>1, <3>2
      <3>4. files[j - W] # Lldb!FileOf(key)  BY <1>4, <2>4, <3>1
      <3> QED BY <3>3, <3>4 DEF Lldb!Asks
    <2>7. W + k \in 1..Len(d.wire)  BY <1>4, <2>1, <2>2, <2>4
    <2> QED BY <2>5, <2>6, <2>7
  <1>20. ASSUME c.up, NEW key \in DOMAIN d.bps PROVE ~Lldb!NoAsk(d, Lldb!FileOf(key))  BY <1>19, <1>20 DEF Lldb!NoAsk
  <1>21. ASSUME c.up, NEW a PROVE Lldb!Told(d, a)
    <2>1. \A key \in DOMAIN d.bps :
            \E i \in 1..Len(d.wire) :
              /\ Lldb!Asks(d.wire[i], Lldb!FileOf(key)) /\ d.wire[i].arg.keys = Lldb!EnabledIn(d, Lldb!FileOf(key))
              /\ \A j \in 1..Len(d.wire) : j > i => ~Lldb!Asks(d.wire[j], Lldb!FileOf(key))
      BY <1>19, <1>21
    <2> QED BY <2>1 DEF Lldb!Told
  <1> QED BY <1>1, <1>15, <1>16, <1>17, <1>20, <1>21

\* The breakpoints are asked for, and the adapter counts as configured or does not.
LEMMA SoundAsking ==
  ASSUME NEW c, Lldb!Typed(c), NEW out, Lldb!Messages(out), NEW a, NEW leftover,
         c.up /\ ~leftover => Lldb!Steady(c, out, a)
  PROVE  /\ Lldb!Sound(Lldb!ConfigureBreakpoints(c), out, a, leftover) /\ Lldb!ConfigureBreakpoints(c).output = c.output
         /\ Lldb!Sound([Lldb!ConfigureBreakpoints(c) EXCEPT !.configured = TRUE], out, a, leftover)
  <1> DEFINE d == Lldb!ConfigureBreakpoints(c)
             e == [d EXCEPT !.configured = TRUE]
  <1>1. /\ Longer(c, d, {"setBreakpoints"}) /\ SameEnabled(c, d)
        /\ d.active = c.active /\ d.stopped = c.stopped /\ d.exited = c.exited
        /\ d.initialized = c.initialized /\ d.launchSent = c.launchSent /\ d.configured = c.configured
        /\ d.output = c.output
        /\ c.up => /\ \A key \in DOMAIN d.bps : ~Lldb!NoAsk(d, Lldb!FileOf(key))
                   /\ Lldb!Told(d, a)
    BY Asking
  <1> HIDE DEF d
  <1>2. Lldb!Typed(d) /\ d.up = c.up  BY <1>1 DEF Longer
  <1>3. /\ DOMAIN e = Lldb!Fields /\ e.configured = TRUE
        /\ e.up = d.up /\ e.wire = d.wire /\ e.pending = d.pending /\ e.seq = d.seq /\ e.bps = d.bps
        /\ e.active = d.active /\ e.stopped = d.stopped /\ e.exited = d.exited
        /\ e.initialized = d.initialized /\ e.launchSent = d.launchSent
        /\ e.thread = d.thread /\ e.threads = d.threads /\ e.watches = d.watches
    BY <1>2 DEF Lldb!Typed, Lldb!Fields
  <1> HIDE DEF e
  <1>4. Lldb!Typed(e)  BY <1>2, <1>3 DEF Lldb!Typed
  <1>5. ASSUME NEW f, f \in {d, e} PROVE Lldb!Sound(f, out, a, leftover)
    <2>1. /\ Lldb!Typed(f) /\ f.up = c.up /\ f.wire = d.wire /\ f.pending = d.pending /\ f.seq = d.seq /\ f.bps = d.bps
          /\ f.active = c.active /\ f.stopped = c.stopped /\ f.exited = c.exited
          /\ f.initialized = c.initialized /\ f.launchSent = c.launchSent
      BY <1>1, <1>2, <1>3, <1>4, <1>5
    <2>2. Longer(c, f, {"setBreakpoints"})
      <3>1. \A m : Awaited(d, m) => Awaited(f, m)  BY <2>1 DEF Awaited
      <3> QED BY <1>1, <2>1, <3>1 DEF Longer
    <2>3. c.up => Lldb!Told(f, a)
      <3>1. \A file : Lldb!EnabledIn(f, file) = Lldb!EnabledIn(d, file)  BY <2>1 DEF Lldb!EnabledIn
      <3>2. \A file : Lldb!NoAsk(f, file) <=> Lldb!NoAsk(d, file)  BY <2>1 DEF Lldb!NoAsk
      <3> QED BY <1>1, <2>1, <3>1, <3>2 DEF Lldb!Told
    <2>4. c.up => Lldb!Learns(f, out)
      <3>1. \A file : Lldb!NoAsk(f, file) <=> Lldb!NoAsk(d, file)  BY <2>1 DEF Lldb!NoAsk
      <3> QED BY <1>1, <2>1, <3>1 DEF Lldb!Learns
    <2>5. ASSUME c.up, ~leftover PROVE Lldb!Steady(f, out, a)
      <3>1. {"setBreakpoints"} \cap {"initialize", "launch", "continue", "next"} = {}  OBVIOUS
      <3>2. Lldb!Steady(c, out, a)  BY <2>5
      <3> DEFINE kinds == {"setBreakpoints"}
      <3>3. Longer(c, f, kinds) /\ kinds \cap {"initialize", "launch", "continue", "next"} = {}  BY <2>2, <3>1
      <3> HIDE DEF kinds
      <3> QED BY <2>1, <3>2, <3>3, SteadyLonger
    <2> QED BY <2>1, <2>3, <2>4, <2>5 DEF Lldb!Sound, Lldb!Fresh
  <1> QED BY <1>1, <1>5 DEF d, e

----------------------------------------------------------------------------
(* The answers about breakpoints *)

\* A breakpoint of a file has a place of its own among them.
LEMMA Places ==
  ASSUME NEW file, NEW keys, keys \subseteq Keys, \A key \in keys : Lldb!FileOf(key) = file
  PROVE  /\ Cardinality(keys) \in Nat
         /\ \A key \in keys : Lldb!Place(key, keys) \in 1..Cardinality(keys)
         /\ \A k, l \in keys : Lldb!Place(k, keys) = Lldb!Place(l, keys) => k = l
  <1> DEFINE Upto(key) == {k \in keys : Lldb!LineOf(k) <= Lldb!LineOf(key)}
  <1>1. IsFiniteSet(keys) /\ Cardinality(keys) \in Nat
    BY LldbAssumption, SameLibrary, FS_Subset, FS_CardinalityType
  <1>2. \A k \in keys : Lldb!LineOf(k) \in Nat /\ k = <<file, Lldb!LineOf(k)>>  BY LldbAssumption DEF Lldb!FileOf, Lldb!LineOf
  <1>3. ASSUME NEW key \in keys
        PROVE  /\ IsFiniteSet(Upto(key)) /\ Lldb!Place(key, keys) = Cardinality(Upto(key))
               /\ Lldb!Place(key, keys) \in 1..Cardinality(keys)
    <2>1. Upto(key) \subseteq keys /\ key \in Upto(key)  BY <1>2
    <2>2. Lldb!Place(key, keys) = Cardinality(Upto(key))  BY SameLibrary DEF Lldb!Place
    <2> HIDE DEF Upto
    <2>3. IsFiniteSet(Upto(key)) /\ Cardinality(Upto(key)) <= Cardinality(keys)  BY <1>1, <2>1, FS_Subset
    <2>4. Cardinality(Upto(key)) \in Nat /\ Cardinality(Upto(key)) # 0
      BY <2>1, <2>3, FS_CardinalityType, FS_EmptySet
    <2> QED BY <1>1, <2>2, <2>3, <2>4
  <1>4. ASSUME NEW k \in keys, NEW l \in keys, Lldb!LineOf(k) < Lldb!LineOf(l) PROVE Lldb!Place(k, keys) # Lldb!Place(l, keys)
    <2>1. Upto(k) \subseteq Upto(l) /\ l \in Upto(l) /\ l \notin Upto(k)  BY <1>2, <1>4
    <2>2. IsFiniteSet(Upto(l))  BY <1>3
    <2> HIDE DEF Upto
    <2>3. Cardinality(Upto(k)) # Cardinality(Upto(l))  BY <2>1, <2>2, FS_Subset
    <2> QED BY <1>3, <2>3
  <1>5. ASSUME NEW k \in keys, NEW l \in keys, Lldb!Place(k, keys) = Lldb!Place(l, keys) PROVE k = l
    <2>1. ~(Lldb!LineOf(k) < Lldb!LineOf(l)) /\ ~(Lldb!LineOf(l) < Lldb!LineOf(k))  BY <1>4, <1>5
    <2>2. Lldb!LineOf(k) = Lldb!LineOf(l)  BY <1>2, <2>1
    <2> QED BY <1>2, <2>2
  <1> QED BY <1>1, <1>3, <1>5

\* The adapter's answer verifies the breakpoints it could set.
LEMMA Resolving ==
  ASSUME NEW file, NEW keys, keys \subseteq Keys, \A key \in keys : Lldb!FileOf(key) = file, NEW key \in keys
  PROVE  (Lldb!Place(key, keys) > Len(Lldb!Resolved(keys)) \/ Lldb!Resolved(keys)[Lldb!Place(key, keys)]) <=> key \in Resolvable
  <1> DEFINE n == Cardinality(keys)
             p == Lldb!Place(key, keys)
             answer == Lldb!Resolved(keys)
  <1>1. n \in Nat /\ p \in 1..n  BY Places
  <1>2. answer = [i \in 1..n |-> answer[i]]
        /\ \A i \in 1..n : answer[i] = \E k \in keys \cap Resolvable : Lldb!Place(k, keys) = i
    BY SameLibrary DEF Lldb!Resolved
  <1> HIDE DEF n, answer
  <1>3. Len(answer) = n  BY <1>1, <1>2, ListOf
  <1>4. answer[p] <=> \E k \in keys \cap Resolvable : Lldb!Place(k, keys) = p  BY <1>1, <1>2
  <1>5. answer[p] <=> key \in Resolvable  BY <1>4, Places
  <1>6. ~(p > Len(answer))  BY <1>1, <1>3
  <1> QED BY <1>5, <1>6 DEF answer

----------------------------------------------------------------------------
(* The handlers of poll() *)

\* What a handler assigns leaves the client typed.
LEMMA Taking ==
  ASSUME NEW c, Lldb!Typed(c), NEW d, DOMAIN d = Lldb!Fields, d.up = c.up, d.wire = c.wire, d.seq = c.seq,
         d.configured = c.configured, d.launchSent = c.launchSent,
         {d.initialized, d.active, d.stopped, d.exited} \subseteq BOOLEAN,
         d.bps \in Lldb!BpsSet, SameEnabled(c, d), Lldb!IsSequence(d.watches),
         d.thread \in Threads \cup {0}, d.threads \subseteq Threads,
         DOMAIN d.pending \subseteq DOMAIN c.pending, \A n \in DOMAIN d.pending : d.pending[n] = c.pending[n]
  PROVE  Alike(c, d)
  <1>1. DOMAIN d.pending \subseteq 1..(d.seq - 1)  BY DEF Lldb!Typed
  <1>2. \A n \in DOMAIN d.pending : Lldb!AsContext(d.pending[n])  BY DEF Lldb!Typed
  <1>3. Lldb!Typed(d)  BY <1>1, <1>2 DEF Lldb!Typed
  <1> QED BY <1>3 DEF Alike

\* The fields of a client, typed as they are.
LEMMA Parted ==
  ASSUME NEW c, Lldb!Typed(c)
  PROVE  /\ DOMAIN c = Lldb!Fields
         /\ {c.initialized, c.active, c.stopped, c.exited} \subseteq BOOLEAN
         /\ c.bps \in Lldb!BpsSet /\ SameEnabled(c, c) /\ Lldb!IsSequence(c.watches)
         /\ c.thread \in Threads \cup {0} /\ c.threads \subseteq Threads
  BY DEF Lldb!Typed, SameEnabled

\* The answer is awaited no more.
Dropped(c, m) == [c EXCEPT !.pending = [s \in DOMAIN c.pending \ {m.seq} |-> c.pending[s]]]

\* Nothing else is changed by that.
LEMMA DroppedIs ==
  ASSUME NEW c, Lldb!Typed(c), NEW m
  PROVE  LET d == Dropped(c, m) IN
         /\ DOMAIN d = Lldb!Fields /\ Flags(d) = Flags(c) /\ Panels(d) = Panels(c) /\ d.wire = c.wire /\ d.seq = c.seq
         /\ d.up = c.up /\ d.configured = c.configured /\ d.launchSent = c.launchSent
         /\ d.initialized = c.initialized /\ d.active = c.active /\ d.stopped = c.stopped /\ d.exited = c.exited
         /\ d.bps = c.bps /\ d.watches = c.watches /\ d.thread = c.thread /\ d.threads = c.threads
         /\ DOMAIN d.pending = DOMAIN c.pending \ {m.seq} /\ \A n \in DOMAIN d.pending : d.pending[n] = c.pending[n]
         /\ Alike(c, d) /\ Lldb!Typed(d)
  <1> DEFINE pending == [s \in DOMAIN c.pending \ {m.seq} |-> c.pending[s]]
             d == [c EXCEPT !.pending = pending]
  <1>1. DOMAIN pending = DOMAIN c.pending \ {m.seq} /\ \A n \in DOMAIN pending : pending[n] = c.pending[n]
    OBVIOUS
  <1> HIDE DEF pending
  <1>2. /\ DOMAIN d = Lldb!Fields /\ Flags(d) = Flags(c) /\ Panels(d) = Panels(c) /\ d.wire = c.wire /\ d.seq = c.seq
        /\ d.up = c.up /\ d.configured = c.configured /\ d.launchSent = c.launchSent
        /\ d.initialized = c.initialized /\ d.active = c.active /\ d.stopped = c.stopped /\ d.exited = c.exited
        /\ d.bps = c.bps /\ d.watches = c.watches /\ d.thread = c.thread /\ d.threads = c.threads
        /\ d.pending = pending
    BY DEF Lldb!Typed, Lldb!Fields, Flags, Panels
  <1>3. Dropped(c, m) = d  BY DEF Dropped, pending
  <1> HIDE DEF d
  <1>4. SameEnabled(c, d)  BY <1>2 DEF SameEnabled
  <1>5. Alike(c, d)  BY <1>1, <1>2, <1>4, Parted, Taking
  <1> QED BY <1>1, <1>2, <1>3, <1>5 DEF Alike

\* An answer taken that says nothing of the program and of the breakpoints.
LEMMA SoundDropped ==
  ASSUME NEW c, NEW out, Len(out) # 0, NEW a, NEW leftover, Lldb!Sound(c, out, a, leftover),
         Lldb!IsAnswer(out[1]), out[1].seq \in DOMAIN c.pending,
         c.pending[out[1].seq].cmd # "launch",
         out[1].ok => c.pending[out[1].seq].cmd # "setBreakpoints",
         ~out[1].ok => c.pending[out[1].seq].cmd # "initialize"
  PROVE  Lldb!Sound(Dropped(c, out[1]), Rest(out, 1), a, leftover)
  <1> DEFINE m == out[1]
             d == Dropped(c, m)
  <1>1. Lldb!Typed(c) /\ Lldb!IsSequence(out)  BY DEF Lldb!Sound, Lldb!Messages
  <1>2. /\ d.launchSent = c.launchSent /\ d.initialized = c.initialized
        /\ d.active = c.active /\ d.stopped = c.stopped /\ d.exited = c.exited /\ d.bps = c.bps
        /\ DOMAIN d.pending = DOMAIN c.pending \ {m.seq} /\ \A n \in DOMAIN d.pending : d.pending[n] = c.pending[n]
        /\ Alike(c, d)
    BY <1>1, DroppedIs
  <1> HIDE DEF d
  <1>3. ASSUME Lldb!Matched(c, out) PROVE Popped(c, d, m)
    <2>1. 1 \in 1..Len(out)  BY <1>1, RestOne
    <2>2. m.cmd = c.pending[m.seq].cmd  BY <1>3, <2>1 DEF Lldb!Matched
    <2>3. ~Lldb!Turn(m)  BY <2>2 DEF Lldb!Turn, Lldb!IsAnswer
    <2>4. VerifiedBy(c, d, m)  BY <1>2 DEF VerifiedBy, Lldb!Tells
    <2> QED BY <1>2, <2>3, <2>4 DEF Popped
  <1> QED BY <1>2, <1>3, SoundPopped DEF d, Lldb!Fresh, Lldb!Steady

\* `initialize` is granted.
LEMMA SoundInitialized ==
  ASSUME NEW c, NEW out, Len(out) # 0, NEW a, NEW leftover, Lldb!Sound(c, out, a, leftover),
         Lldb!IsAnswer(out[1]), out[1].ok, out[1].seq \in DOMAIN c.pending,
         c.pending[out[1].seq].cmd = "initialize"
  PROVE  Lldb!Sound([Dropped(c, out[1]) EXCEPT !.initialized = TRUE], Rest(out, 1), a, leftover)
  <1> DEFINE m == out[1]
             e == Dropped(c, m)
             d == [e EXCEPT !.initialized = TRUE]
  <1>1. Lldb!Typed(c) /\ Lldb!IsSequence(out)  BY DEF Lldb!Sound, Lldb!Messages
  <1>2. /\ DOMAIN e = Lldb!Fields /\ e.wire = c.wire /\ e.seq = c.seq /\ e.up = c.up /\ e.configured = c.configured
        /\ e.launchSent = c.launchSent
        /\ e.active = c.active /\ e.stopped = c.stopped /\ e.exited = c.exited
        /\ e.bps = c.bps /\ e.watches = c.watches /\ e.thread = c.thread /\ e.threads = c.threads
        /\ DOMAIN e.pending = DOMAIN c.pending \ {m.seq} /\ \A n \in DOMAIN e.pending : e.pending[n] = c.pending[n]
    BY <1>1, DroppedIs
  <1> HIDE DEF e
  <1>3. /\ DOMAIN d = Lldb!Fields /\ d.wire = e.wire /\ d.seq = e.seq /\ d.up = e.up /\ d.configured = e.configured
        /\ d.launchSent = e.launchSent /\ d.initialized = TRUE /\ d.initialized \in BOOLEAN
        /\ d.active = e.active /\ d.stopped = e.stopped /\ d.exited = e.exited
        /\ d.bps = e.bps /\ d.watches = e.watches /\ d.thread = e.thread /\ d.threads = e.threads
        /\ d.pending = e.pending
    BY <1>2 DEF Lldb!Fields
  <1> HIDE DEF d
  <1>4. SameEnabled(c, d)  BY <1>2, <1>3 DEF SameEnabled
  <1>5. Alike(c, d)
    <2>1. {d.initialized, d.active, d.stopped, d.exited} \subseteq BOOLEAN  BY <1>1, <1>2, <1>3, Parted
    <2> QED BY <1>1, <1>2, <1>3, <1>4, <2>1, Parted, Taking
  <1>6. ASSUME Lldb!Matched(c, out) PROVE Popped(c, d, m)
    <2>1. 1 \in 1..Len(out)  BY <1>1, RestOne
    <2>2. m.cmd = "initialize"  BY <1>6, <2>1 DEF Lldb!Matched
    <2>3. ~Lldb!Turn(m)  BY <2>2 DEF Lldb!Turn, Lldb!IsAnswer
    <2>4. VerifiedBy(c, d, m)  BY <1>2, <1>3 DEF VerifiedBy, Lldb!Tells
    <2> QED BY <1>2, <1>3, <1>5, <2>2, <2>3, <2>4 DEF Popped
  <1> QED BY <1>5, <1>6, SoundPopped DEF e, d, Lldb!Fresh, Lldb!Steady

\* `launch` is granted.
LEMMA SoundLaunched ==
  ASSUME NEW c, NEW out, Len(out) # 0, NEW a, NEW leftover, Lldb!Sound(c, out, a, leftover),
         Lldb!IsAnswer(out[1]), out[1].ok, out[1].seq \in DOMAIN c.pending,
         c.pending[out[1].seq].cmd = "launch"
  PROVE  Lldb!Sound([Dropped(c, out[1]) EXCEPT !.active = TRUE, !.stopped = FALSE, !.exited = FALSE],
               Rest(out, 1), a, leftover)
  <1> DEFINE m == out[1]
             e == Dropped(c, m)
             d == [e EXCEPT !.active = TRUE, !.stopped = FALSE, !.exited = FALSE]
  <1>1. Lldb!Typed(c) /\ Lldb!IsSequence(out)  BY DEF Lldb!Sound, Lldb!Messages
  <1>2. /\ DOMAIN e = Lldb!Fields /\ e.wire = c.wire /\ e.seq = c.seq /\ e.up = c.up /\ e.configured = c.configured
        /\ e.launchSent = c.launchSent /\ e.initialized = c.initialized
        /\ e.bps = c.bps /\ e.watches = c.watches /\ e.thread = c.thread /\ e.threads = c.threads
        /\ DOMAIN e.pending = DOMAIN c.pending \ {m.seq} /\ \A n \in DOMAIN e.pending : e.pending[n] = c.pending[n]
    BY <1>1, DroppedIs
  <1> HIDE DEF e
  <1>3. /\ DOMAIN d = Lldb!Fields /\ d.wire = e.wire /\ d.seq = e.seq /\ d.up = e.up /\ d.configured = e.configured
        /\ d.launchSent = e.launchSent /\ d.initialized = e.initialized
        /\ d.active = TRUE /\ d.stopped = FALSE /\ d.exited = FALSE
        /\ {d.active, d.stopped, d.exited} \subseteq BOOLEAN
        /\ d.bps = e.bps /\ d.watches = e.watches /\ d.thread = e.thread /\ d.threads = e.threads
        /\ d.pending = e.pending
    BY <1>2 DEF Lldb!Fields
  <1> HIDE DEF d
  <1>4. SameEnabled(c, d)  BY <1>2, <1>3 DEF SameEnabled
  <1>5. Alike(c, d)
    <2>1. {d.initialized, d.active, d.stopped, d.exited} \subseteq BOOLEAN  BY <1>1, <1>2, <1>3, Parted
    <2> QED BY <1>1, <1>2, <1>3, <1>4, <2>1, Parted, Taking
  <1>6. ASSUME Lldb!Matched(c, out) PROVE Popped(c, d, m)
    <2>1. 1 \in 1..Len(out)  BY <1>1, RestOne
    <2>2. m.cmd = "launch"  BY <1>6, <2>1 DEF Lldb!Matched
    <2>3. Lldb!Turn(m) /\ Lldb!Gives(m) = "running"  BY <2>2 DEF Lldb!Turn, Lldb!Gives
    <2>4. VerifiedBy(c, d, m)  BY <1>2, <1>3 DEF VerifiedBy, Lldb!Tells
    <2>5. Lldb!Shows(d, "running")  BY <1>3 DEF Lldb!Shows
    <2> QED BY <1>2, <1>3, <1>5, <2>3, <2>4, <2>5 DEF Popped
  <1> QED BY <1>5, <1>6, SoundPopped DEF e, d, Lldb!Fresh, Lldb!Steady

\* The adapter says which breakpoints it could set.
LEMMA SoundVerified ==
  ASSUME NEW c, NEW out, Len(out) # 0, NEW a, NEW leftover, Lldb!Sound(c, out, a, leftover),
         Lldb!IsAnswer(out[1]), out[1].ok, out[1].seq \in DOMAIN c.pending,
         c.pending[out[1].seq].cmd = "setBreakpoints", NEW body,
         out[1].cmd = "setBreakpoints" => body = out[1].body
  PROVE  Lldb!Sound(Lldb!Verified(Dropped(c, out[1]), c.pending[out[1].seq].context[2], body), Rest(out, 1), a, leftover)
  <1> DEFINE m == out[1]
             e == Dropped(c, m)
             named == c.pending[m.seq].context[2]
             matching == Lldb!EnabledIn(c, named)
             bps == [key \in DOMAIN c.bps |->
                       IF key \in matching
                       THEN [c.bps[key] EXCEPT !.verified =
                               Lldb!Place(key, matching) > Len(body) \/ body[Lldb!Place(key, matching)]]
                       ELSE c.bps[key]]
             d == [e EXCEPT !.bps = bps]
  <1>1. Lldb!Typed(c) /\ Lldb!IsSequence(out)  BY DEF Lldb!Sound, Lldb!Messages
  <1>2. /\ DOMAIN e = Lldb!Fields /\ e.wire = c.wire /\ e.seq = c.seq /\ e.up = c.up /\ e.configured = c.configured
        /\ e.launchSent = c.launchSent /\ e.initialized = c.initialized
        /\ e.active = c.active /\ e.stopped = c.stopped /\ e.exited = c.exited
        /\ e.bps = c.bps /\ e.watches = c.watches /\ e.thread = c.thread /\ e.threads = c.threads
        /\ DOMAIN e.pending = DOMAIN c.pending \ {m.seq} /\ \A n \in DOMAIN e.pending : e.pending[n] = c.pending[n]
    BY <1>1, DroppedIs
  <1> HIDE DEF e
  <1>3. Lldb!Verified(e, named, body) = d
    <2>1. Lldb!EnabledIn(e, named) = matching  BY <1>2 DEF Lldb!EnabledIn
    <2> QED BY <1>2, <2>1 DEF Lldb!Verified, Lldb!Fields
  <1>4. c.bps \in [DOMAIN c.bps -> [enabled : BOOLEAN, verified : BOOLEAN]] /\ DOMAIN c.bps \subseteq Keys
    BY <1>1 DEF Lldb!Typed, Lldb!BpsSet
  <1>5. matching \subseteq DOMAIN c.bps /\ \A key \in matching : Lldb!FileOf(key) = named  BY DEF Lldb!EnabledIn
  <1> HIDE DEF matching, named
  <1>6. /\ bps \in [DOMAIN c.bps -> [enabled : BOOLEAN, verified : BOOLEAN]] /\ DOMAIN bps = DOMAIN c.bps
        /\ \A key \in DOMAIN c.bps : bps[key].enabled = c.bps[key].enabled
    <2>1. ASSUME NEW key \in DOMAIN c.bps
          PROVE  bps[key] \in [enabled : BOOLEAN, verified : BOOLEAN] /\ bps[key].enabled = c.bps[key].enabled
      <3>1. (Lldb!Place(key, matching) > Len(body) \/ body[Lldb!Place(key, matching)]) \in BOOLEAN  OBVIOUS
      <3> QED BY <1>4, <3>1
    <2> QED BY <2>1
  <1>7. \A key \in DOMAIN c.bps :
          /\ key \notin matching => bps[key] = c.bps[key]
          /\ key \in matching =>
               (bps[key].verified <=> (Lldb!Place(key, matching) > Len(body) \/ body[Lldb!Place(key, matching)]))
    BY <1>4
  <1> HIDE DEF bps
  <1>8. /\ DOMAIN d = Lldb!Fields /\ d.wire = e.wire /\ d.seq = e.seq /\ d.up = e.up /\ d.configured = e.configured
        /\ d.launchSent = e.launchSent /\ d.initialized = e.initialized
        /\ d.active = e.active /\ d.stopped = e.stopped /\ d.exited = e.exited
        /\ d.bps = bps /\ d.watches = e.watches /\ d.thread = e.thread /\ d.threads = e.threads
        /\ d.pending = e.pending
    BY <1>2 DEF Lldb!Fields
  <1> HIDE DEF d
  <1>9. SameEnabled(c, d) /\ d.bps \in Lldb!BpsSet  BY <1>4, <1>6, <1>8 DEF SameEnabled, Lldb!BpsSet
  <1>10. Alike(c, d)  BY <1>1, <1>2, <1>8, <1>9, Parted, Taking
  <1>11. ASSUME Lldb!Matched(c, out) PROVE Popped(c, d, m)
    <2>1. 1 \in 1..Len(out)  BY <1>1, RestOne
    <2>2. m.cmd = "setBreakpoints" /\ body = m.body  BY <1>11, <2>1 DEF Lldb!Matched
    <2>3. ~Lldb!Turn(m)  BY <2>2 DEF Lldb!Turn, Lldb!IsAnswer
    <2>4. ASSUME NEW key \in DOMAIN c.bps
          PROVE  LET file == Lldb!FileOf(key) IN
                 /\ ~Lldb!Tells(c, m, file) => d.bps[key] = c.bps[key]
                 /\ Lldb!Tells(c, m, file) /\ m.ok /\ m.body = Lldb!Resolved(Lldb!EnabledIn(c, file)) /\ c.bps[key].enabled =>
                      (d.bps[key].verified <=> key \in Resolvable)
      <3>1. CASE ~Lldb!Tells(c, m, Lldb!FileOf(key))
        <4>1. ASSUME key \in matching PROVE FALSE
          <5>1. Lldb!FileOf(key) = named  BY <1>5, <4>1
          <5>2. c.pending[m.seq].context = <<"breakpoints", named>>  BY <1>1 DEF Lldb!Typed, Lldb!AsContext, named
          <5> QED BY <3>1, <5>1, <5>2 DEF Lldb!Tells
        <4> QED BY <3>1, <4>1, <1>7, <1>8
      <3>2. CASE Lldb!Tells(c, m, Lldb!FileOf(key)) /\ m.body = Lldb!Resolved(Lldb!EnabledIn(c, Lldb!FileOf(key))) /\ c.bps[key].enabled
        <4>1. named = Lldb!FileOf(key)  BY <3>2 DEF Lldb!Tells, named
        <4>2. matching = Lldb!EnabledIn(c, Lldb!FileOf(key)) /\ key \in matching  BY <3>2, <4>1 DEF matching, Lldb!EnabledIn
        <4>3. (Lldb!Place(key, matching) > Len(body) \/ body[Lldb!Place(key, matching)]) <=> key \in Resolvable
          <5>1. matching \subseteq Keys  BY <1>4, <1>5
          <5>2. body = Lldb!Resolved(matching)  BY <2>2, <3>2, <4>2
          <5> QED BY <1>5, <4>2, <5>1, <5>2, Resolving
        <4>4. d.bps[key].verified <=> (Lldb!Place(key, matching) > Len(body) \/ body[Lldb!Place(key, matching)])
          BY <1>7, <1>8, <4>2
        <4> HIDE DEF m
        <4> QED BY <3>2, <4>3, <4>4
      <3> QED BY <3>1, <3>2
    <2>5. VerifiedBy(c, d, m)  BY <2>4 DEF VerifiedBy
    <2> QED BY <1>2, <1>8, <1>10, <2>3, <2>5 DEF Popped
  <1> QED BY <1>3, <1>10, <1>11, SoundPopped DEF e, named, Lldb!Fresh, Lldb!Steady

\* The watches are w.
Watching(e, w) == [e EXCEPT !.watches = w]

\* `initialize` or `launch` is refused.
LEMMA SoundUnstarted ==
  ASSUME NEW c, NEW out, Len(out) # 0, NEW a, NEW leftover, Lldb!Sound(c, out, a, leftover),
         Lldb!IsAnswer(out[1]), ~out[1].ok, out[1].seq \in DOMAIN c.pending,
         c.pending[out[1].seq].cmd \in {"initialize", "launch"},
         NEW w, Lldb!IsSequence(w), NEW e, e \in {Dropped(c, out[1]), Watching(Dropped(c, out[1]), w)}
  PROVE  Lldb!Sound([e EXCEPT !.active = FALSE, !.stopped = FALSE, !.exited = TRUE], Rest(out, 1), a, leftover)
  <1> DEFINE m == out[1]
             d == [e EXCEPT !.active = FALSE, !.stopped = FALSE, !.exited = TRUE]
  <1>1. Lldb!Typed(c) /\ Lldb!IsSequence(out)  BY DEF Lldb!Sound, Lldb!Messages
  <1>2. /\ DOMAIN e = Lldb!Fields /\ e.wire = c.wire /\ e.seq = c.seq /\ e.up = c.up /\ e.configured = c.configured
        /\ e.launchSent = c.launchSent /\ e.initialized = c.initialized
        /\ e.bps = c.bps /\ e.thread = c.thread /\ e.threads = c.threads
        /\ DOMAIN e.pending = DOMAIN c.pending \ {m.seq} /\ \A n \in DOMAIN e.pending : e.pending[n] = c.pending[n]
        /\ Lldb!IsSequence(e.watches)
    <2> DEFINE g == Dropped(c, m)
    <2>1. /\ DOMAIN g = Lldb!Fields /\ g.wire = c.wire /\ g.seq = c.seq /\ g.up = c.up /\ g.configured = c.configured
          /\ g.launchSent = c.launchSent /\ g.initialized = c.initialized
          /\ g.bps = c.bps /\ g.watches = c.watches /\ g.thread = c.thread /\ g.threads = c.threads
          /\ DOMAIN g.pending = DOMAIN c.pending \ {m.seq} /\ \A n \in DOMAIN g.pending : g.pending[n] = c.pending[n]
      BY <1>1, DroppedIs
    <2>2. Lldb!IsSequence(c.watches)  BY <1>1 DEF Lldb!Typed
    <2>3. e \in {g, [g EXCEPT !.watches = w]}  BY DEF Watching
    <2> HIDE DEF g, m
    <2>4. CASE e = g  BY <2>1, <2>2, <2>4
    <2>5. CASE e = [g EXCEPT !.watches = w]
      <3>1. /\ DOMAIN e = Lldb!Fields /\ e.wire = g.wire /\ e.seq = g.seq /\ e.up = g.up /\ e.configured = g.configured
            /\ e.launchSent = g.launchSent /\ e.initialized = g.initialized
            /\ e.bps = g.bps /\ e.watches = w /\ e.thread = g.thread /\ e.threads = g.threads
            /\ e.pending = g.pending
        BY <2>1, <2>5 DEF Lldb!Fields
      <3> QED BY <2>1, <3>1
    <2> QED BY <2>3, <2>4, <2>5
  <1>3. /\ DOMAIN d = Lldb!Fields /\ d.wire = e.wire /\ d.seq = e.seq /\ d.up = e.up /\ d.configured = e.configured
        /\ d.launchSent = e.launchSent /\ d.initialized = e.initialized
        /\ d.active = FALSE /\ d.stopped = FALSE /\ d.exited = TRUE
        /\ {d.active, d.stopped, d.exited} \subseteq BOOLEAN
        /\ d.bps = e.bps /\ d.watches = e.watches /\ d.thread = e.thread /\ d.threads = e.threads
        /\ d.pending = e.pending
    BY <1>2 DEF Lldb!Fields
  <1> HIDE DEF d
  <1>4. SameEnabled(c, d)  BY <1>2, <1>3 DEF SameEnabled
  <1>5. Alike(c, d)
    <2>1. {d.initialized, d.active, d.stopped, d.exited} \subseteq BOOLEAN  BY <1>1, <1>2, <1>3, Parted
    <2> QED BY <1>1, <1>2, <1>3, <1>4, <2>1, Parted, Taking
  <1>6. ASSUME Lldb!Matched(c, out) PROVE Popped(c, d, m)
    <2>1. 1 \in 1..Len(out)  BY <1>1, RestOne
    <2>2. m.cmd \in {"initialize", "launch"}  BY <1>6, <2>1 DEF Lldb!Matched
    <2>3. Lldb!Turn(m) /\ Lldb!Gives(m) = "over"  BY <2>2 DEF Lldb!Turn, Lldb!Gives
    <2>4. VerifiedBy(c, d, m)  BY <1>2, <1>3 DEF VerifiedBy, Lldb!Tells
    <2>5. Lldb!Shows(d, "over")  BY <1>3 DEF Lldb!Shows
    <2> QED BY <1>2, <1>3, <1>5, <2>3, <2>4, <2>5 DEF Popped
  <1> QED BY <1>5, <1>6, SoundPopped DEF d, Lldb!Fresh, Lldb!Steady

\* A refusal.
LEMMA SoundRefused ==
  ASSUME NEW c, NEW out, Len(out) # 0, NEW a, NEW leftover, Lldb!Sound(c, out, a, leftover),
         Lldb!IsAnswer(out[1]), ~out[1].ok, out[1].seq \in DOMAIN c.pending
  PROVE  Lldb!Sound(Lldb!Refused(Dropped(c, out[1]), c.pending[out[1].seq]), Rest(out, 1), a, leftover)
  <1> DEFINE m == out[1]
             p == c.pending[m.seq]
             e == Dropped(c, m)
             w == [i \in DOMAIN e.watches |->
                     IF e.watches[i].expression = p.context[2]
                     THEN [e.watches[i] EXCEPT !.value = Lldb!NoFrame, !.ok = FALSE] ELSE e.watches[i]]
             f == [e EXCEPT !.watches = w]
             g == IF p.context # <<>> /\ p.context[1] = "watch" THEN f ELSE e
  <1>1. Lldb!Typed(c) /\ Lldb!Typed(e)  BY DroppedIs DEF Lldb!Sound
  <1>2. Lldb!Refused(e, p) = IF p.cmd \in {"initialize", "launch"}
                        THEN [g EXCEPT !.active = FALSE, !.stopped = FALSE, !.exited = TRUE] ELSE g
    <2> HIDE DEF e
    <2> QED BY <1>1 DEF Lldb!Refused, Lldb!Typed, Lldb!Fields
  <1>3. Lldb!IsSequence(w) /\ Mildly(e, f)
    <2>2. DOMAIN e.watches = 1..Len(e.watches) /\ Len(e.watches) \in Nat  BY <1>1, AsSeq DEF Lldb!Typed
    <2>3. w = [i \in 1..Len(e.watches) |-> w[i]]  BY <2>2
    <2> HIDE DEF w
    <2>4. Lldb!IsSequence(w)  BY <2>2, <2>3, ListOf
    <2> HIDE DEF e
    <2> QED BY <1>1, <2>4, MildWatched
  <1>4. CASE p.cmd \in {"initialize", "launch"}
    <2>1. /\ g \in {Dropped(c, out[1]), Watching(Dropped(c, out[1]), w)}
          /\ c.pending[out[1].seq].cmd \in {"initialize", "launch"}
      BY <1>4 DEF Watching
    <2> HIDE DEF g, w, e, m, p, f
    <2>2. Lldb!Sound([g EXCEPT !.active = FALSE, !.stopped = FALSE, !.exited = TRUE], Rest(out, 1), a, leftover)
      BY <1>3, <1>4, <2>1, SoundUnstarted
    <2> QED BY <1>2, <1>4, <2>2 DEF e, m, p
  <1>5. CASE p.cmd \notin {"initialize", "launch"}
    <2>1. Lldb!Sound(e, Rest(out, 1), a, leftover)  BY <1>5, SoundDropped
    <2>2. Lldb!Sound(f, Rest(out, 1), a, leftover)
      <3> HIDE DEF e, f
      <3> QED BY <1>3, <2>1, SoundMildly
    <2> QED BY <1>2, <1>5, <2>1, <2>2
  <1> QED BY <1>4, <1>5

\* An event taken.
LEMMA SoundNoticed ==
  ASSUME NEW c, NEW out, Len(out) # 0, NEW a, NEW leftover, Lldb!Sound(c, out, a, leftover), ~Lldb!IsAnswer(out[1]),
         NEW d, DOMAIN d = Lldb!Fields, d.up = c.up, d.wire = c.wire, d.seq = c.seq, d.pending = c.pending,
         d.configured = c.configured, d.launchSent = c.launchSent, d.initialized = c.initialized,
         {d.active, d.stopped, d.exited} \subseteq BOOLEAN,
         d.bps = c.bps, d.watches = c.watches, d.thread \in Threads \cup {0}, d.threads = c.threads,
         Lldb!Turn(out[1]) => Lldb!Shows(d, Lldb!Gives(out[1])),
         ~Lldb!Turn(out[1]) /\ Lldb!Follows(c, out, a) => d.active = c.active /\ d.stopped = c.stopped /\ d.exited = c.exited
  PROVE  Lldb!Sound(d, Rest(out, 1), a, leftover)
  <1>1. Lldb!Typed(c)  BY DEF Lldb!Sound
  <1>2. SameEnabled(c, d)  BY DEF SameEnabled
  <1>3. Alike(c, d)
    <2>1. {d.initialized, d.active, d.stopped, d.exited} \subseteq BOOLEAN  BY <1>1, Parted
    <2>2. d.bps \in Lldb!BpsSet /\ Lldb!IsSequence(d.watches) /\ d.threads \subseteq Threads  BY <1>1 DEF Lldb!Typed
    <2> QED BY <1>1, <1>2, <2>1, <2>2, Taking
  <1>4. VerifiedBy(c, d, out[1])  BY DEF VerifiedBy, Lldb!Tells
  <1>5. ASSUME Lldb!Follows(c, out, a) PROVE Popped(c, d, out[1])  BY <1>3, <1>4, <1>5 DEF Popped
  <1> QED BY <1>3, <1>5, SoundPopped DEF Lldb!Fresh, Lldb!Steady

\* An event.
LEMMA SoundEvent ==
  ASSUME NEW c, NEW out, Len(out) # 0, NEW a, NEW leftover, Lldb!Sound(c, out, a, leftover), out[1].type = "event"
  PROVE  Lldb!Sound(Lldb!HandleEvent(c, out[1]), Rest(out, 1), a, leftover)
  <1> DEFINE m == out[1]
  <1>1. Lldb!Typed(c) /\ Lldb!IsSequence(out) /\ 1 \in 1..Len(out)
    <2>1. Lldb!Typed(c) /\ Lldb!IsSequence(out)  BY DEF Lldb!Sound, Lldb!Messages
    <2> QED BY <2>1, RestOne
  <1>2. Lldb!AsMessage(m)  BY <1>1 DEF Lldb!Sound, Lldb!Messages
  <1>3. /\ m.event \in {"initialized", "stopped", "continued", "terminated", "exited"}
        /\ m.event = "stopped" => m.thread \in Threads
        /\ ~Lldb!IsAnswer(m) /\ m.type = "event"
    BY <1>2 DEF Lldb!AsMessage, Lldb!IsAnswer
  <1>4. Lldb!Turn(m) <=> m.event \in {"stopped", "terminated", "exited"}  BY <1>3 DEF Lldb!Turn
  <1>5. Lldb!Gives(m) = IF m.event = "stopped" THEN "stopped" ELSE "over"  BY <1>3 DEF Lldb!Gives
  <1>6. CASE m.event = "initialized"
    <2> DEFINE d == Lldb!ConfigureBreakpoints(c)
               e == [d EXCEPT !.configured = TRUE]
    <2>1. Lldb!Sound(c, Rest(out, 1), a, leftover)
      <3>1. ~Lldb!Turn(m)  BY <1>4, <1>6
      <3>2. DOMAIN c = Lldb!Fields /\ {c.active, c.stopped, c.exited} \subseteq BOOLEAN /\ c.thread \in Threads \cup {0}
        BY <1>1, Parted
      <3> QED BY <1>3, <3>1, <3>2, SoundNoticed
    <2>2. Lldb!Messages(Rest(out, 1)) /\ (c.up /\ ~leftover => Lldb!Steady(c, Rest(out, 1), a))
      BY <2>1 DEF Lldb!Sound, Lldb!Fresh
    <2>3. Lldb!Sound(e, Rest(out, 1), a, leftover)  BY <1>1, <2>2, SoundAsking
    <2>4. Lldb!HandleEvent(c, m) = Lldb!Request(e, "configurationDone", <<>>, <<>>)  BY <1>6 DEF Lldb!HandleEvent
    <2> HIDE DEF e
    <2>5. Mildly(e, Lldb!Request(e, "configurationDone", <<>>, <<>>))
      <3>1. Lldb!Typed(e)  BY <2>3 DEF Lldb!Sound
      <3>2. "configurationDone" \in Harmless  BY DEF Harmless, Lldb!Commands
      <3> QED BY <3>1, <3>2, MildRequest
    <2> QED BY <2>3, <2>4, <2>5, SoundMildly
  <1>7. CASE m.event = "stopped"
    <2> DEFINE d == [c EXCEPT !.active = TRUE, !.stopped = TRUE, !.exited = FALSE, !.thread = m.thread]
    <2>1. Lldb!HandleEvent(c, m) = Lldb!RefreshState(d)  BY <1>7 DEF Lldb!HandleEvent
    <2>2. /\ DOMAIN d = Lldb!Fields /\ d.up = c.up /\ d.wire = c.wire /\ d.seq = c.seq /\ d.pending = c.pending
          /\ d.configured = c.configured /\ d.launchSent = c.launchSent /\ d.initialized = c.initialized
          /\ {d.active, d.stopped, d.exited} \subseteq BOOLEAN
          /\ d.active = TRUE /\ d.stopped = TRUE /\ d.exited = FALSE
          /\ d.bps = c.bps /\ d.watches = c.watches /\ d.thread = m.thread /\ d.threads = c.threads
      BY <1>1 DEF Lldb!Typed, Lldb!Fields
    <2> HIDE DEF d
    <2>3. Lldb!Shows(d, "stopped")  BY <2>2 DEF Lldb!Shows
    <2>4. Lldb!Sound(d, Rest(out, 1), a, leftover)
      <3>1. Lldb!Turn(m) /\ Lldb!Gives(m) = "stopped" /\ m.thread \in Threads \cup {0}  BY <1>3, <1>4, <1>5, <1>7
      <3> QED BY <1>3, <2>2, <2>3, <3>1, SoundNoticed
    <2>5. Mildly(d, Lldb!RefreshState(d))
      <3>1. Lldb!Typed(d)  BY <2>4 DEF Lldb!Sound
      <3> QED BY <3>1, MildRefresh
    <2> QED BY <2>1, <2>4, <2>5, SoundMildly
  <1>8. CASE m.event = "continued"
    <2> DEFINE d == [c EXCEPT !.active = TRUE, !.stopped = FALSE]
    <2>1. Lldb!HandleEvent(c, m) = d  BY <1>8 DEF Lldb!HandleEvent
    <2>2. /\ DOMAIN d = Lldb!Fields /\ d.up = c.up /\ d.wire = c.wire /\ d.seq = c.seq /\ d.pending = c.pending
          /\ d.configured = c.configured /\ d.launchSent = c.launchSent /\ d.initialized = c.initialized
          /\ {d.active, d.stopped} \subseteq BOOLEAN
          /\ d.active = TRUE /\ d.stopped = FALSE /\ d.exited = c.exited
          /\ d.bps = c.bps /\ d.watches = c.watches /\ d.thread = c.thread /\ d.threads = c.threads
      BY <1>1 DEF Lldb!Typed, Lldb!Fields
    <2> HIDE DEF d
    <2>3. ASSUME Lldb!Follows(c, out, a) PROVE d.active = c.active /\ d.stopped = c.stopped /\ d.exited = c.exited
      <3>1. Lldb!Shows(c, "running")  BY <1>1, <1>3, <1>8, <2>3 DEF Lldb!Follows
      <3> QED BY <2>2, <3>1 DEF Lldb!Shows
    <2>4. Lldb!Sound(d, Rest(out, 1), a, leftover)
      <3>1. ~Lldb!Turn(m)  BY <1>4, <1>8
      <3>2. {d.active, d.stopped, d.exited} \subseteq BOOLEAN /\ c.thread \in Threads \cup {0}
        BY <1>1, <2>2, Parted
      <3> QED BY <1>3, <2>2, <2>3, <3>1, <3>2, SoundNoticed
    <2> QED BY <2>1, <2>4
  <1>9. CASE m.event \in {"terminated", "exited"}
    <2> DEFINE d == [c EXCEPT !.active = FALSE, !.stopped = FALSE, !.exited = TRUE]
    <2>1. Lldb!HandleEvent(c, m) = d  BY <1>9 DEF Lldb!HandleEvent
    <2>2. /\ DOMAIN d = Lldb!Fields /\ d.up = c.up /\ d.wire = c.wire /\ d.seq = c.seq /\ d.pending = c.pending
          /\ d.configured = c.configured /\ d.launchSent = c.launchSent /\ d.initialized = c.initialized
          /\ {d.active, d.stopped, d.exited} \subseteq BOOLEAN
          /\ d.active = FALSE /\ d.stopped = FALSE /\ d.exited = TRUE
          /\ d.bps = c.bps /\ d.watches = c.watches /\ d.thread = c.thread /\ d.threads = c.threads
      BY <1>1 DEF Lldb!Typed, Lldb!Fields
    <2> HIDE DEF d
    <2>3. Lldb!Shows(d, "over")  BY <2>2 DEF Lldb!Shows
    <2>4. Lldb!Sound(d, Rest(out, 1), a, leftover)
      <3>1. Lldb!Turn(m) /\ Lldb!Gives(m) = "over" /\ d.thread \in Threads \cup {0}
        BY <1>1, <1>4, <1>5, <1>9, <2>2, Parted
      <3> QED BY <1>3, <2>2, <2>3, <3>1, SoundNoticed
    <2> QED BY <2>1, <2>4
  <1> QED BY <1>3, <1>6, <1>7, <1>8, <1>9

\* A request is granted.
LEMMA SoundGranted ==
  ASSUME NEW c, NEW out, Len(out) # 0, NEW a, NEW leftover, Lldb!Sound(c, out, a, leftover),
         Lldb!IsAnswer(out[1]), out[1].ok, out[1].seq \in DOMAIN c.pending
  PROVE  Lldb!Sound(Lldb!Granted(Dropped(c, out[1]), c.pending[out[1].seq], out[1]), Rest(out, 1), a, leftover)
  <1> DEFINE m == out[1]
             p == c.pending[m.seq]
             e == Dropped(c, m)
             body == IF m.cmd = p.cmd THEN m.body ELSE <<>>
             d == Lldb!Granted(e, p, m)
             more == Rest(out, 1)
  <1> SUFFICES Lldb!Sound(d, more, a, leftover)  OBVIOUS
  <1>1. Lldb!Typed(c) /\ Lldb!Typed(e) /\ Lldb!IsSequence(out) /\ 1 \in 1..Len(out)
    <2>1. Lldb!Typed(c) /\ Lldb!IsSequence(out)  BY DEF Lldb!Sound, Lldb!Messages
    <2>2. Lldb!Typed(e)  BY <2>1, DroppedIs
    <2> QED BY <2>1, <2>2, RestOne
  <1>2. Lldb!AsMessage(m) /\ Lldb!AsContext(p)  BY <1>1 DEF Lldb!Sound, Lldb!Messages, Lldb!Typed
  <1>3. p.cmd \notin {"launch", "setBreakpoints"} => Lldb!Sound(e, more, a, leftover)  BY SoundDropped
  <1>4. ASSUME Mildly(e, d), p.cmd \notin {"launch", "setBreakpoints"} PROVE Lldb!Sound(d, more, a, leftover)
    <2>1. Lldb!Sound(e, more, a, leftover)  BY <1>3, <1>4
    <2> HIDE DEF d, e, more
    <2> QED BY <1>4, <2>1, SoundMildly
  <1>5. CASE p.cmd = "initialize"
    <2> DEFINE f == [e EXCEPT !.initialized = TRUE]
    <2>1. d = Lldb!SendLaunch(f)  BY <1>5 DEF Lldb!Granted
    <2>2. Lldb!Sound(f, more, a, leftover)  BY <1>5, SoundInitialized
    <2> HIDE DEF f, d, more
    <2> QED BY <2>1, <2>2, SoundLaunch
  <1>6. CASE p.cmd = "launch"
    <2>1. d = [e EXCEPT !.active = TRUE, !.stopped = FALSE, !.exited = FALSE]  BY <1>6 DEF Lldb!Granted
    <2> HIDE DEF d
    <2> QED BY <1>6, <2>1, SoundLaunched
  <1>7. CASE p.cmd = "setBreakpoints"
    <2>1. d = Lldb!Verified(e, p.context[2], body)  BY <1>7 DEF Lldb!Granted
    <2>2. m.cmd = "setBreakpoints" => body = m.body  BY <1>7
    <2> HIDE DEF d, body
    <2> QED BY <1>7, <2>1, <2>2, SoundVerified
  <1> HIDE DEF e
  <1>8. CASE p.cmd = "threads"
    <2> DEFINE ids == IF m.cmd = p.cmd THEN m.body ELSE {}
    <2>1. d = Lldb!ShowThreads(e, ids)  BY <1>8 DEF Lldb!Granted
    <2>2. ids \subseteq Threads
      <3>1. m.type = "response"  BY DEF Lldb!IsAnswer
      <3> QED BY <1>2, <1>8, <3>1 DEF Lldb!AsMessage
    <2> HIDE DEF ids
    <2>3. Mildly(e, d)  BY <1>1, <2>1, <2>2, MildThreads
    <2> QED BY <1>4, <1>8, <2>3
  <1> HIDE DEF body
  <1>9. CASE p.cmd = "stackTrace"
    <2>1. d = Lldb!ShowFrames(e, body)  BY <1>9 DEF Lldb!Granted, body
    <2>2. Mildly(e, d)  BY <1>1, <2>1, MildFrames
    <2> QED BY <1>4, <1>9, <2>2
  <1>10. CASE p.cmd = "scopes"
    <2>1. d = IF body = <<>> THEN e ELSE Lldb!ShowScopes(e, body)  BY <1>10 DEF Lldb!Granted, body
    <2>2. Mildly(e, e) /\ Mildly(e, Lldb!ShowScopes(e, body))  BY <1>1, MildNothing, MildScopes
    <2>3. Mildly(e, d)
      <3> HIDE DEF d
      <3> QED BY <2>1, <2>2
    <2> QED BY <1>4, <1>10, <2>3
  <1>11. CASE p.cmd = "variables"
    <2>1. d = IF body = <<>> THEN e ELSE Lldb!ShowVariables(e, p.context, body)  BY <1>11 DEF Lldb!Granted, body
    <2>2. Lldb!AsRows(p.context)  BY <1>2, <1>11 DEF Lldb!AsContext
    <2>3. Mildly(e, e) /\ Mildly(e, Lldb!ShowVariables(e, p.context, body))
      BY <1>1, <2>2, MildNothing, MildVariables
    <2>4. Mildly(e, d)
      <3> HIDE DEF d
      <3> QED BY <2>1, <2>3
    <2> QED BY <1>4, <1>11, <2>4
  <1>12. CASE p.cmd = "evaluate"
    <2> DEFINE w == [i \in DOMAIN e.watches |->
                       IF e.watches[i].expression = p.context[2]
                       THEN [e.watches[i] EXCEPT !.value = body, !.ok = TRUE] ELSE e.watches[i]]
    <2>1. d = [e EXCEPT !.watches = w]  BY <1>1, <1>12 DEF Lldb!Granted, body, Lldb!Typed, Lldb!Fields
    <2>2. DOMAIN e.watches = 1..Len(e.watches) /\ Len(e.watches) \in Nat  BY <1>1, AsSeq DEF Lldb!Typed
    <2>3. w = [i \in 1..Len(e.watches) |-> w[i]]  BY <2>2
    <2> HIDE DEF w
    <2>4. Lldb!IsSequence(w)  BY <2>2, <2>3, ListOf
    <2>5. Mildly(e, d)
      <3> HIDE DEF d
      <3> QED BY <1>1, <2>1, <2>4, MildWatched
    <2> QED BY <1>4, <1>12, <2>5
  <1>13. CASE p.cmd = "setExpression"
    <2>1. d = Lldb!RefreshState(e)  BY <1>13 DEF Lldb!Granted
    <2>2. Mildly(e, d)  BY <1>1, <2>1, MildRefresh
    <2> QED BY <1>4, <1>13, <2>2
  <1>14. CASE p.cmd \notin {"initialize", "launch", "setBreakpoints", "threads", "stackTrace", "scopes", "variables",
                            "evaluate", "setExpression"}
    <2>1. d = e  BY <1>14 DEF Lldb!Granted
    <2>2. Mildly(e, d)  BY <1>1, <2>1, MildNothing
    <2> QED BY <1>4, <1>14, <2>2
  <1> QED BY <1>5, <1>6, <1>7, <1>8, <1>9, <1>10, <1>11, <1>12, <1>13, <1>14

\* The first message is handled.
LEMMA SoundHandled ==
  ASSUME NEW c, NEW out, Len(out) # 0, NEW a, NEW leftover, Lldb!Sound(c, out, a, leftover)
  PROVE  Lldb!Sound(Lldb!HandleMessage(c, out[1]), Rest(out, 1), a, leftover)
  <1> DEFINE m == out[1]
  <1>1. Lldb!Typed(c) /\ Lldb!IsSequence(out) /\ 1 \in 1..Len(out)
    <2>1. Lldb!Typed(c) /\ Lldb!IsSequence(out)  BY DEF Lldb!Sound, Lldb!Messages
    <2> QED BY <2>1, RestOne
  <1>2. Lldb!AsMessage(m)  BY <1>1 DEF Lldb!Sound, Lldb!Messages
  <1>3. CASE m.type = "event"
    <2>1. Lldb!HandleMessage(c, m) = Lldb!HandleEvent(c, m)  BY <1>3 DEF Lldb!HandleMessage
    <2> QED BY <1>3, <2>1, SoundEvent
  <1>4. CASE m.type = "response" /\ m.seq \notin DOMAIN c.pending
    <2>1. Lldb!HandleMessage(c, m) = c  BY <1>4 DEF Lldb!HandleMessage, Lldb!HandleResponse
    <2>2. Alike(c, c)  BY <1>1 DEF Alike, SameEnabled
    <2>3. ~Lldb!Matched(c, out)  BY <1>1, <1>4 DEF Lldb!Matched, Lldb!IsAnswer
    <2> QED BY <2>1, <2>2, <2>3, SoundPopped DEF Lldb!Fresh, Lldb!Steady
  <1>5. CASE m.type = "response" /\ m.seq \in DOMAIN c.pending
    <2>1. Lldb!HandleMessage(c, m) = IF m.ok THEN Lldb!Granted(Dropped(c, m), c.pending[m.seq], m)
                                ELSE Lldb!Refused(Dropped(c, m), c.pending[m.seq])
      BY <1>1, <1>5 DEF Lldb!HandleMessage, Lldb!HandleResponse, Dropped, Lldb!Typed, Lldb!Fields
    <2>2. Lldb!IsAnswer(m)  BY <1>5 DEF Lldb!IsAnswer
    <2>3. CASE m.ok  BY <1>5, <2>1, <2>2, <2>3, SoundGranted
    <2>4. CASE ~m.ok  BY <1>5, <2>1, <2>2, <2>4, SoundRefused
    <2> QED BY <2>3, <2>4
  <1> QED BY <1>2, <1>3, <1>4, <1>5 DEF Lldb!AsMessage

----------------------------------------------------------------------------
(* poll() *)

\* The client after each of its messages.
Handles(f, c, L) ==
  /\ f = [n \in 0..L |-> f[n]] /\ f[0] = c
  /\ \A n \in 1..L : f[n] = Lldb!HandleMessage(f[n - 1], c.output[n])

\* There are such clients.
LEMMA Handling ==
  ASSUME NEW c, NEW L \in Nat
  PROVE  \E f : Handles(f, c, L)
  <1> DEFINE S == {m \in 0..L : \E f : Handles(f, c, m)}
  <1>1. 0 \in S
    <2> DEFINE f == [n \in 0..0 |-> c]
    <2>1. f[0] = c /\ f = [n \in 0..0 |-> f[n]]  OBVIOUS
    <2> HIDE DEF f
    <2>2. Handles(f, c, 0)  BY <2>1 DEF Handles
    <2> QED BY <2>2
  <1>2. ASSUME NEW m \in 0..(L - 1), m \in S PROVE m + 1 \in S
    <2>1. PICK f : Handles(f, c, m)  BY <1>2
    <2> DEFINE next == Lldb!HandleMessage(f[m], c.output[m + 1])
               g == [n \in 0..(m + 1) |-> IF n = m + 1 THEN next ELSE f[n]]
    <2>2. /\ g = [n \in 0..(m + 1) |-> g[n]] /\ g[m + 1] = next /\ \A n \in 0..m : g[n] = f[n]
      <3> HIDE DEF next
      <3> QED OBVIOUS
    <2> HIDE DEF g
    <2>3. g[0] = c
      <3>1. g[0] = f[0]  BY <2>2
      <3> QED BY <2>1, <3>1 DEF Handles
    <2>4. ASSUME NEW n \in 1..(m + 1) PROVE g[n] = Lldb!HandleMessage(g[n - 1], c.output[n])
      <3>1. n - 1 \in 0..m  OBVIOUS
      <3>2. g[n - 1] = f[n - 1]  BY <2>2, <3>1
      <3>3. CASE n = m + 1  BY <2>2, <3>2, <3>3
      <3>4. CASE n # m + 1
        <4>1. n \in 1..m /\ n \in 0..m  BY <3>4
        <4> QED BY <2>1, <2>2, <3>2, <4>1 DEF Handles
      <3> QED BY <3>3, <3>4
    <2>5. Handles(g, c, m + 1)  BY <2>2, <2>3, <2>4 DEF Handles
    <2> QED BY <2>5
  <1> HIDE DEF S
  <1>3. 0..L \subseteq S  BY <1>1, <1>2, IntervalInduction
  <1> QED BY <1>3 DEF S

\* All messages are handled.
LEMMA SoundAll ==
  ASSUME NEW c, NEW a, NEW leftover, Lldb!Sound(c, c.output, a, leftover)
  PROVE  \E d, out : /\ Lldb!Sound(d, out, a, leftover) /\ Lldb!IsSequence(out) /\ Len(out) = 0
                     /\ Lldb!Handled(c) = [d EXCEPT !.output = <<>>]
  <1> DEFINE out == c.output
             L == Len(out)
             Round(g, n) == IF n = 0 THEN c ELSE Lldb!HandleMessage(g[n - 1], c.output[n])
             Upto == CHOOSE g : g = [n \in 0..L |-> Round(g, n)]
  <1>1. Lldb!IsSequence(out) /\ L \in Nat  BY DEF Lldb!Sound, Lldb!Messages, Lldb!IsSequence
  <1>2. PICK f : Handles(f, c, L)  BY <1>1, Handling
  <1>3. f = [n \in 0..L |-> Round(f, n)]
    <2>1. ASSUME NEW n \in 0..L PROVE f[n] = Round(f, n)
      <3>1. CASE n = 0  BY <1>2, <3>1 DEF Handles
      <3>2. CASE n # 0
        <4>1. n \in 1..L  BY <1>1, <3>2
        <4> QED BY <1>2, <3>2, <4>1 DEF Handles
      <3> QED BY <3>1, <3>2
    <2>2. f = [n \in 0..L |-> f[n]]  BY <1>2 DEF Handles
    <2> HIDE DEF Round, L
    <2> QED BY <2>1, <2>2
  <1>4. Upto = [n \in 0..L |-> Round(Upto, n)]
    <2> HIDE DEF Round, L
    <2> QED BY <1>3, Zenon
  <1>5. Lldb!Handled(c) = [Upto[L] EXCEPT !.output = <<>>]  BY Zenon DEF Lldb!Handled
  <1> HIDE DEF Upto
  <1>6. \A n \in 0..L : Upto[n] = Round(Upto, n)
    <2> HIDE DEF Round
    <2> QED BY <1>4
  <1> DEFINE Good == {n \in 0..L : Lldb!Sound(Upto[n], Rest(out, n), a, leftover)}
  <1>7. 0 \in Good
    <2>1. Upto[0] = c  BY <1>1, <1>6
    <2>2. Rest(out, 0) = out
      <3>1. out = [i \in 1..L |-> out[i]] /\ L - 0 = L  BY <1>1 DEF Lldb!IsSequence
      <3>2. \A i \in 1..L : 0 + i = i  BY <1>1
      <3> QED BY <3>1, <3>2 DEF Rest
    <2> QED BY <1>1, <2>1, <2>2
  <1>8. ASSUME NEW n \in 0..(L - 1), n \in Good PROVE n + 1 \in Good
    <2> DEFINE more == Rest(out, n)
    <2>1. n \in 0..L /\ n + 1 \in 0..L /\ n + 1 # 0 /\ (n + 1) - 1 = n /\ n \in Nat  BY <1>1
    <2>2. /\ Lldb!IsSequence(more) /\ Len(more) = L - n /\ \A i \in 1..(L - n) : more[i] = out[n + i]
      BY <1>1, <2>1, RestIs
    <2>3. Len(more) # 0 /\ more[1] = out[n + 1]  BY <1>1, <2>1, <2>2
    <2>4. Rest(more, 1) = Rest(out, n + 1)
      <3> DEFINE k == L - (n + 1)
      <3>1. Len(more) - 1 = k /\ k \in Int /\ Len(out) - (n + 1) = k  BY <1>1, <2>1, <2>2
      <3>2. \A i \in 1..k : more[1 + i] = out[(n + 1) + i]
        <4>1. ASSUME NEW i \in 1..k PROVE more[1 + i] = out[(n + 1) + i]
          <5>1. 1 + i \in 1..(L - n) /\ n + (1 + i) = (n + 1) + i  BY <1>1, <2>1
          <5> QED BY <2>2, <5>1
        <4> QED BY <4>1
      <3> HIDE DEF k, more
      <3>3. Rest(more, 1) = [i \in 1..k |-> more[1 + i]]  BY <3>1 DEF Rest
      <3>4. Rest(out, n + 1) = [i \in 1..k |-> out[(n + 1) + i]]
        <4> HIDE DEF out
        <4> QED BY <3>1 DEF Rest, out
      <3> QED BY <3>2, <3>3, <3>4
    <2>5. Upto[n + 1] = Lldb!HandleMessage(Upto[n], more[1])
      <3>1. Upto[n + 1] = Round(Upto, n + 1)  BY <1>6, <2>1
      <3> QED BY <2>1, <2>3, <3>1
    <2>6. Lldb!Sound(Upto[n], more, a, leftover)  BY <1>8
    <2> HIDE DEF more
    <2>7. Lldb!Sound(Lldb!HandleMessage(Upto[n], more[1]), Rest(more, 1), a, leftover)  BY <2>3, <2>6, SoundHandled
    <2> QED BY <2>1, <2>4, <2>5, <2>7
  <1>9. 0..L \subseteq Good
    <2> HIDE DEF Good, L
    <2> QED BY <1>1, <1>7, <1>8, IntervalInduction
  <1>10. Lldb!Sound(Upto[L], Rest(out, L), a, leftover)  BY <1>1, <1>9
  <1>11. Lldb!IsSequence(Rest(out, L)) /\ Len(Rest(out, L)) = 0
    <2>1. L \in 0..Len(out)  BY <1>1
    <2>2. Lldb!IsSequence(Rest(out, L)) /\ Len(Rest(out, L)) = Len(out) - L  BY <1>1, <2>1, RestIs
    <2> QED BY <1>1, <2>2
  <1> HIDE DEF L, out
  <1> QED BY <1>5, <1>10, <1>11

\* The output is another.
LEMMA SoundOutput ==
  ASSUME NEW c, NEW out, NEW a, NEW leftover, Lldb!Sound(c, out, a, leftover), NEW o
  PROVE  Lldb!Sound([c EXCEPT !.output = o], out, a, leftover) /\ [c EXCEPT !.output = o].output = o
  <1> DEFINE d == [c EXCEPT !.output = o]
  <1>1. Lldb!Typed(c)  BY DEF Lldb!Sound
  <1>2. /\ DOMAIN d = Lldb!Fields /\ d.output = o
        /\ d.up = c.up /\ d.wire = c.wire /\ d.pending = c.pending /\ d.seq = c.seq /\ d.bps = c.bps
        /\ d.active = c.active /\ d.stopped = c.stopped /\ d.exited = c.exited
        /\ d.initialized = c.initialized /\ d.launchSent = c.launchSent /\ d.configured = c.configured
        /\ d.thread = c.thread /\ d.threads = c.threads /\ d.watches = c.watches
    BY <1>1 DEF Lldb!Typed, Lldb!Fields
  <1> HIDE DEF d
  <1>3. Lldb!Typed(d)  BY <1>1, <1>2 DEF Lldb!Typed
  <1>4. Lldb!Told(c, a) => Lldb!Told(d, a)
    <2>1. Alike(c, d)  BY <1>2, <1>3 DEF Alike, SameEnabled
    <2> QED BY <2>1, ToldAlike
  <1>5. ASSUME Lldb!Steady(c, out, a) PROVE Lldb!Steady(d, out, a)
    <2> DEFINE kinds == {}
    <2>1. Longer(c, d, kinds)
      <3>1. c.seq <= d.seq  BY <1>2, <1>3 DEF Lldb!Typed
      <3> QED BY <1>1, <1>2, <1>3, <3>1, SameWire
    <2>2. kinds \cap {"initialize", "launch", "continue", "next"} = {}  OBVIOUS
    <2> HIDE DEF kinds
    <2> QED BY <1>1, <1>2, <1>5, <2>1, <2>2, SteadyLonger
  <1>6. ASSUME Lldb!Steady(c, out, a), Lldb!Learns(c, out) PROVE Lldb!Learns(d, out)
    <2>1. Longer(c, d, Harmless)
      <3>1. c.seq <= d.seq  BY <1>2, <1>3 DEF Lldb!Typed
      <3> QED BY <1>1, <1>2, <1>3, <3>1, SameWire
    <2>2. "setBreakpoints" \notin Harmless  BY DEF Harmless
    <2> QED BY <1>1, <1>2, <1>6, <2>1, <2>2, LearnsLonger DEF Lldb!Steady
  <1>7. Lldb!Sound(d, out, a, leftover)  BY <1>2, <1>3, <1>4, <1>5, <1>6 DEF Lldb!Sound, Lldb!Fresh
  <1> QED BY <1>2, <1>7 DEF d

\* The window's timer, or the debugger's stop().
LEMMA SoundPoll ==
  ASSUME NEW c, NEW a, NEW leftover, Lldb!Sound(c, c.output, a, leftover)
  PROVE  Lldb!Sound(Lldb!Poll(c), Lldb!Poll(c).output, a, leftover)
  <1>1. PICK d, out : /\ Lldb!Sound(d, out, a, leftover) /\ Lldb!IsSequence(out) /\ Len(out) = 0
                      /\ Lldb!Handled(c) = [d EXCEPT !.output = <<>>]
    BY SoundAll
  <1> DEFINE h == Lldb!Handled(c)
             e == [h EXCEPT !.active = FALSE, !.stopped = FALSE, !.exited = TRUE]
  <1>2. \A nothing : nothing = <<>> => nothing = out  BY <1>1, NoElements
  <1>3. Lldb!Sound(h, out, a, leftover) /\ h.output = out
    <2>1. \A o : Lldb!Sound([d EXCEPT !.output = o], out, a, leftover) /\ [d EXCEPT !.output = o].output = o
      BY <1>1, SoundOutput
    <2> HIDE DEF h
    <2>2. ASSUME NEW nothing, nothing = <<>>
          PROVE  Lldb!Sound([d EXCEPT !.output = nothing], out, a, leftover) /\ [d EXCEPT !.output = nothing].output = out
      BY <1>2, <2>1, <2>2
    <2> QED BY <1>1, <2>2 DEF h
  <1>4. Lldb!Poll(c) = IF ~h.up /\ (h.active \/ h.launchSent) THEN e ELSE h  BY DEF Lldb!Poll
  <1> HIDE DEF h
  <1>5. CASE ~(~h.up /\ (h.active \/ h.launchSent))  BY <1>3, <1>4, <1>5
  <1>6. CASE ~h.up
    <2>1. Lldb!Typed(h) /\ Lldb!Messages(out)  BY <1>3 DEF Lldb!Sound
    <2>2. /\ DOMAIN e = Lldb!Fields /\ e.output = h.output
          /\ e.up = h.up /\ e.wire = h.wire /\ e.pending = h.pending /\ e.seq = h.seq /\ e.bps = h.bps
          /\ {e.active, e.stopped, e.exited} \subseteq BOOLEAN
          /\ e.initialized = h.initialized /\ e.launchSent = h.launchSent /\ e.configured = h.configured
          /\ e.thread = h.thread /\ e.threads = h.threads /\ e.watches = h.watches
      BY <2>1 DEF Lldb!Typed, Lldb!Fields
    <2> HIDE DEF e
    <2>3. Lldb!Typed(e)  BY <2>1, <2>2 DEF Lldb!Typed
    <2>4. ~e.up  BY <1>6, <2>2
    <2>5. Lldb!Sound(e, out, a, leftover)  BY <2>1, <2>3, <2>4 DEF Lldb!Sound
    <2> QED BY <1>3, <1>4, <2>2, <2>5
  <1> QED BY <1>5, <1>6

----------------------------------------------------------------------------
(* The commands that resume the program *)

\* A request to go on, after which the program is taken to run.
LEMMA SoundResuming ==
  ASSUME NEW c, NEW out, NEW a, NEW leftover, Lldb!Sound(c, out, a, leftover), c.up, c.active, c.stopped,
         NEW cmd \in {"continue", "next"}, NEW arg,
         NEW e, e = Lldb!Request(c, cmd, arg, <<>>),
         NEW f, DOMAIN f = Lldb!Fields, f.up = e.up, f.wire = e.wire, f.pending = e.pending, f.seq = e.seq, f.bps = e.bps,
         f.active = e.active, f.stopped = FALSE, f.stopped \in BOOLEAN, f.exited = e.exited,
         f.initialized = e.initialized, f.launchSent = e.launchSent, f.configured = e.configured,
         f.thread = e.thread, f.threads = e.threads, f.watches = e.watches
  PROVE  Lldb!Sound(f, out, a, leftover)
  <1>1. Lldb!Typed(c)  BY DEF Lldb!Sound
  <1>2. cmd \in Lldb!Commands \ {"setBreakpoints"} /\ cmd # "variables"  BY DEF Lldb!Commands
  <1>3. Longer(c, e, {cmd}) /\ Flags(e) = Flags(c) /\ OneMore(c, e, cmd)  BY <1>1, <1>2, SentNamed
  <1>4. Lldb!Typed(e)  BY <1>3 DEF Longer
  <1>5. Lldb!Typed(f)  BY <1>4 DEF Lldb!Typed
  <1>6. Longer(c, f, {cmd})
    <2> DEFINE these == {cmd}
    <2>1. \A m : Awaited(e, m) => Awaited(f, m)  BY DEF Awaited
    <2>2. Longer(c, e, these)  BY <1>3
    <2> HIDE DEF these
    <2>3. c.seq <= f.seq /\ Len(c.wire) <= Len(f.wire) /\ f.up = c.up  BY <2>2 DEF Longer
    <2>4. \A i \in 1..Len(c.wire) : f.wire[i] = c.wire[i]  BY <2>2 DEF Longer
    <2>5. \A i \in 1..Len(f.wire) : i > Len(c.wire) =>
            f.wire[i].cmd \in these /\ f.wire[i].seq >= c.seq /\ Awaited(f, f.wire[i])
      BY <2>1, <2>2 DEF Longer
    <2>6. \A i, j \in 1..Len(f.wire) : i > Len(c.wire) /\ i < j => f.wire[i].seq < f.wire[j].seq
      BY <2>2 DEF Longer
    <2>7. \A n \in DOMAIN c.pending : n \in DOMAIN f.pending /\ f.pending[n] = c.pending[n]  BY <2>2 DEF Longer
    <2>8. Longer(c, f, these)  BY <1>5, <2>3, <2>4, <2>5, <2>6, <2>7 DEF Longer
    <2> QED BY <2>8 DEF these
  <1>7. /\ f.up = c.up /\ f.bps = c.bps /\ f.active = c.active /\ f.exited = c.exited
        /\ f.initialized = c.initialized /\ f.launchSent = c.launchSent /\ f.configured = c.configured
    BY <1>3 DEF Flags
  <1> DEFINE kinds == {cmd}
  <1>8. "initialize" \notin kinds /\ "launch" \notin kinds /\ "setBreakpoints" \notin kinds  OBVIOUS
  <1>9. Longer(c, f, kinds)  BY <1>6
  <1> HIDE DEF kinds
  <1>10. ASSUME Lldb!Told(c, a) PROVE Lldb!Told(f, a)
    <2>1. SameEnabled(c, f)  BY <1>7 DEF SameEnabled
    <2> QED BY <1>1, <1>8, <1>9, <1>10, <2>1, ToldLonger
  <1>11. ASSUME Lldb!Matched(c, out) PROVE Lldb!Matched(f, out)  BY <1>1, <1>9, <1>11, MatchedLonger
  <1>12. ASSUME Lldb!Started(c, out, a) PROVE Lldb!Started(f, out, a)  BY <1>1, <1>7, <1>8, <1>9, <1>12, StartedLonger
  <1>13. ASSUME Lldb!Matched(c, out), Lldb!Learns(c, out) PROVE Lldb!Learns(f, out)
    BY <1>1, <1>7, <1>8, <1>9, <1>13, LearnsLonger
  <1>14. ASSUME Lldb!Follows(c, out, a) PROVE Lldb!Follows(f, out, a)
    <2>1. Lldb!Shows(c, "stopped") /\ a.target = "stopped" /\ Lldb!Settled(out) /\ Lldb!NoResume(c)  BY <1>14 DEF Lldb!Follows
    <2>2. Lldb!Shows(f, "running") /\ ~Lldb!Shows(c, "running")  BY <1>7, <2>1 DEF Lldb!Shows
    <2>3. Len(c.wire) \in Nat /\ Len(f.wire) = Len(c.wire) + 1 /\ f.wire[Len(c.wire) + 1].cmd = cmd
      BY <1>1, <1>3 DEF OneMore, Lldb!Typed, Lldb!IsSequence
    <2>4. ASSUME NEW i \in 1..Len(f.wire), Lldb!Resumes(f.wire[i]) PROVE i = Len(f.wire)
      <3>1. i > Len(c.wire)  BY <1>1, <1>6, <2>1, <2>4, Parts DEF Lldb!NoResume
      <3> QED BY <2>3, <3>1
    <2>5. ~Lldb!NoResume(f)
      <3>1. Len(c.wire) + 1 \in 1..Len(f.wire)  BY <2>3
      <3>2. Lldb!Resumes(f.wire[Len(c.wire) + 1])  BY <2>3 DEF Lldb!Resumes
      <3> QED BY <3>1, <3>2 DEF Lldb!NoResume
    <2>6. \A i, j \in 1..Len(f.wire) : Lldb!Resumes(f.wire[i]) /\ Lldb!Resumes(f.wire[j]) => i = j  BY <2>4
    <2>7. \A i \in 1..Len(out) : ~(out[i].type = "event" /\ out[i].event \in {"stopped", "continued"})
      <3>1. ASSUME NEW i \in 1..Len(out), out[i].type = "event", out[i].event = "stopped" PROVE FALSE
        <4>1. Lldb!Turn(out[i])  BY <3>1 DEF Lldb!Turn
        <4> QED BY <2>1, <4>1 DEF Lldb!Settled
      <3>2. ASSUME NEW i \in 1..Len(out), out[i].type = "event", out[i].event = "continued" PROVE FALSE
        BY <1>14, <2>2, <3>2 DEF Lldb!Follows
      <3> QED BY <3>1, <3>2
    <2> QED BY <2>1, <2>2, <2>5, <2>6, <2>7 DEF Lldb!Follows
  <1> QED BY <1>5, <1>7, <1>10, <1>11, <1>12, <1>13, <1>14 DEF Lldb!Sound, Lldb!Fresh, Lldb!Steady

\* Continue, and the steps.
LEMMA SoundCommands ==
  ASSUME NEW c, NEW out, NEW a, NEW leftover, Lldb!Sound(c, out, a, leftover), c.up
  PROVE  /\ Lldb!Sound(Lldb!ContinueExecution(c), out, a, leftover) /\ Lldb!ContinueExecution(c).output = c.output
         /\ Lldb!Sound(Lldb!Resume(c), out, a, leftover) /\ Lldb!Resume(c).output = c.output
  <1> SUFFICES ASSUME c.active, c.stopped
               PROVE  /\ Lldb!Sound(Lldb!ContinueExecution(c), out, a, leftover) /\ Lldb!ContinueExecution(c).output = c.output
                      /\ Lldb!Sound(Lldb!Resume(c), out, a, leftover) /\ Lldb!Resume(c).output = c.output
    BY DEF Lldb!ContinueExecution, Lldb!Resume
  <1>1. Lldb!Typed(c)  BY DEF Lldb!Sound
  <1>2. ASSUME NEW cmd \in {"continue", "next"}, NEW e, e = Lldb!Request(c, cmd, c.thread, <<>>)
        PROVE  Lldb!Typed(e) /\ e.output = c.output
    <2>1. cmd \in Lldb!Commands \ {"setBreakpoints"} /\ cmd # "variables"  BY DEF Lldb!Commands
    <2>2. Longer(c, e, {cmd}) /\ Flags(e) = Flags(c)  BY <1>1, <1>2, <2>1, Sent3
    <2> QED BY <2>2 DEF Flags, Longer
  <1>3. Lldb!Sound(Lldb!ContinueExecution(c), out, a, leftover) /\ Lldb!ContinueExecution(c).output = c.output
    <2> DEFINE e == Lldb!Request(c, "continue", c.thread, <<>>)
               f == [e EXCEPT !.stopped = FALSE, !.frames = <<>>, !.variables = <<>>, !.registers = Lldb!NoFrame]
    <2>1. Lldb!ContinueExecution(c) = Lldb!MarkWatchesUnavailable(f)  BY DEF Lldb!ContinueExecution
    <2>2. Lldb!Typed(e) /\ e.output = c.output  BY <1>2
    <2>3. e = Lldb!Request(c, "continue", c.thread, <<>>)  OBVIOUS
    <2> HIDE DEF e
    <2>4. /\ DOMAIN f = Lldb!Fields /\ f.up = e.up /\ f.wire = e.wire /\ f.pending = e.pending /\ f.seq = e.seq
          /\ f.bps = e.bps /\ f.active = e.active /\ f.stopped = FALSE /\ f.stopped \in BOOLEAN
          /\ f.exited = e.exited /\ f.initialized = e.initialized /\ f.launchSent = e.launchSent
          /\ f.configured = e.configured /\ f.thread = e.thread /\ f.threads = e.threads /\ f.watches = e.watches
          /\ f.output = e.output
      BY <2>2 DEF Lldb!Typed, Lldb!Fields
    <2> HIDE DEF f
    <2>5. Lldb!Sound(f, out, a, leftover)  BY <2>3, <2>4, SoundResuming
    <2>6. Mildly(f, Lldb!MarkWatchesUnavailable(f))
      <3>1. Lldb!Typed(f)  BY <2>5 DEF Lldb!Sound
      <3> QED BY <3>1, MildMark
    <2>7. Lldb!MarkWatchesUnavailable(f).output = f.output  BY <2>6 DEF Mildly, Flags
    <2> QED BY <2>1, <2>2, <2>4, <2>5, <2>6, <2>7, SoundMildly
  <1>4. Lldb!Sound(Lldb!Resume(c), out, a, leftover) /\ Lldb!Resume(c).output = c.output
    <2> DEFINE e == Lldb!Request(c, "next", c.thread, <<>>)
               f == [e EXCEPT !.stopped = FALSE]
    <2>1. Lldb!Resume(c) = f  BY DEF Lldb!Resume
    <2>2. Lldb!Typed(e) /\ e.output = c.output  BY <1>2
    <2>3. e = Lldb!Request(c, "next", c.thread, <<>>)  OBVIOUS
    <2> HIDE DEF e
    <2>4. /\ DOMAIN f = Lldb!Fields /\ f.up = e.up /\ f.wire = e.wire /\ f.pending = e.pending /\ f.seq = e.seq
          /\ f.bps = e.bps /\ f.active = e.active /\ f.stopped = FALSE /\ f.stopped \in BOOLEAN
          /\ f.exited = e.exited /\ f.initialized = e.initialized /\ f.launchSent = e.launchSent
          /\ f.configured = e.configured /\ f.thread = e.thread /\ f.threads = e.threads /\ f.watches = e.watches
          /\ f.output = e.output
      BY <2>2 DEF Lldb!Typed, Lldb!Fields
    <2> HIDE DEF f
    <2>5. Lldb!Sound(f, out, a, leftover)  BY <2>3, <2>4, SoundResuming
    <2> QED BY <2>1, <2>2, <2>4, <2>5
  <1> QED BY <1>3, <1>4

----------------------------------------------------------------------------
(* The commands that edit the breakpoints *)

\* The breakpoints are others, and the adapter is told if it is configured.
LEMMA SoundReconfigured ==
  ASSUME NEW c, NEW out, NEW a, NEW leftover, Lldb!Sound(c, out, a, leftover), NEW b \in Lldb!BpsSet
  PROVE  /\ Lldb!Sound(Lldb!Reconfigured([c EXCEPT !.bps = b]), out, a, leftover)
         /\ Lldb!Reconfigured([c EXCEPT !.bps = b]).output = c.output
  <1> DEFINE d == [c EXCEPT !.bps = b]
  <1>1. Lldb!Typed(c) /\ Lldb!Messages(out)  BY DEF Lldb!Sound
  <1>2. /\ DOMAIN d = Lldb!Fields /\ d.output = c.output
        /\ d.up = c.up /\ d.wire = c.wire /\ d.pending = c.pending /\ d.seq = c.seq /\ d.bps = b
        /\ d.active = c.active /\ d.stopped = c.stopped /\ d.exited = c.exited
        /\ d.initialized = c.initialized /\ d.launchSent = c.launchSent /\ d.configured = c.configured
        /\ d.thread = c.thread /\ d.threads = c.threads /\ d.watches = c.watches
    BY <1>1 DEF Lldb!Typed, Lldb!Fields
  <1> HIDE DEF d
  <1>3. Lldb!Typed(d)  BY <1>1, <1>2 DEF Lldb!Typed
  <1>4. c.up /\ ~leftover => Lldb!Steady(d, out, a)
    <2> SUFFICES ASSUME c.up, ~leftover PROVE Lldb!Steady(d, out, a)  OBVIOUS
    <2> DEFINE kinds == {}
    <2>1. Longer(c, d, kinds)
      <3>1. c.seq <= d.seq  BY <1>2, <1>3 DEF Lldb!Typed
      <3> QED BY <1>1, <1>2, <1>3, <3>1, SameWire
    <2>2. kinds \cap {"initialize", "launch", "continue", "next"} = {}  OBVIOUS
    <2>3. Lldb!Steady(c, out, a)  BY DEF Lldb!Sound, Lldb!Fresh
    <2> HIDE DEF kinds
    <2> QED BY <1>1, <1>2, <2>1, <2>2, <2>3, SteadyLonger
  <1>5. CASE d.configured
    <2>1. Lldb!Reconfigured(d) = Lldb!ConfigureBreakpoints(d)  BY <1>5 DEF Lldb!Reconfigured
    <2>2. Lldb!Sound(Lldb!ConfigureBreakpoints(d), out, a, leftover) /\ Lldb!ConfigureBreakpoints(d).output = d.output
      BY <1>1, <1>2, <1>3, <1>4, SoundAsking
    <2> QED BY <1>2, <2>1, <2>2 DEF d
  <1>6. CASE ~d.configured
    <2>1. Lldb!Reconfigured(d) = d  BY <1>6 DEF Lldb!Reconfigured
    <2>2. Lldb!Sound(d, out, a, leftover)  BY <1>1, <1>2, <1>3, <1>4, <1>6 DEF Lldb!Sound, Lldb!Fresh
    <2> QED BY <1>2, <2>1, <2>2 DEF d
  <1> QED BY <1>5, <1>6

\* Toggle, enable or disable one, and clear all.
LEMMA SoundEdits ==
  ASSUME NEW c, NEW out, NEW a, NEW leftover, Lldb!Sound(c, out, a, leftover)
  PROVE  /\ \A key \in Keys : /\ Lldb!Sound(Lldb!ToggleBreakpoint(c, key), out, a, leftover)
                              /\ Lldb!ToggleBreakpoint(c, key).output = c.output
         /\ \A key \in DOMAIN c.bps : /\ Lldb!Sound(Lldb!UpdateBreakpoint(c, key), out, a, leftover)
                                      /\ Lldb!UpdateBreakpoint(c, key).output = c.output
         /\ Lldb!Sound(Lldb!ClearBreakpoints(c), out, a, leftover) /\ Lldb!ClearBreakpoints(c).output = c.output
  <1>1. Lldb!Typed(c)  BY DEF Lldb!Sound
  <1>2. c.bps \in Lldb!BpsSet /\ DOMAIN c = Lldb!Fields  BY <1>1 DEF Lldb!Typed
  <1>3. PICK B \in SUBSET Keys : c.bps \in [B -> [enabled : BOOLEAN, verified : BOOLEAN]]  BY <1>2 DEF Lldb!BpsSet
  <1>4. ASSUME NEW key \in Keys
        PROVE  Lldb!Sound(Lldb!ToggleBreakpoint(c, key), out, a, leftover) /\ Lldb!ToggleBreakpoint(c, key).output = c.output
    <2> DEFINE b == IF key \in DOMAIN c.bps
                    THEN [k \in DOMAIN c.bps \ {key} |-> c.bps[k]]
                    ELSE [k \in DOMAIN c.bps \cup {key} |->
                            IF k = key THEN [enabled |-> TRUE, verified |-> FALSE] ELSE c.bps[k]]
    <2>1. Lldb!ToggleBreakpoint(c, key) = Lldb!Reconfigured([c EXCEPT !.bps = b])
      <3>1. "bps" \in DOMAIN c  BY <1>2 DEF Lldb!Fields
      <3> QED BY <3>1 DEF Lldb!ToggleBreakpoint
    <2>2. b \in Lldb!BpsSet
      <3>1. CASE key \in DOMAIN c.bps
        <4>1. b \in [B \ {key} -> [enabled : BOOLEAN, verified : BOOLEAN]]  BY <1>3, <3>1
        <4> QED BY <4>1 DEF Lldb!BpsSet
      <3>2. CASE key \notin DOMAIN c.bps
        <4>1. [enabled |-> TRUE, verified |-> FALSE] \in [enabled : BOOLEAN, verified : BOOLEAN]  OBVIOUS
        <4>2. b = [k \in B \cup {key} |-> IF k = key THEN [enabled |-> TRUE, verified |-> FALSE] ELSE c.bps[k]]
          BY <1>3, <3>2
        <4>3. b \in [B \cup {key} -> [enabled : BOOLEAN, verified : BOOLEAN]]  BY <1>3, <4>1, <4>2
        <4>4. B \cup {key} \in SUBSET Keys  OBVIOUS
        <4> QED BY <4>3, <4>4 DEF Lldb!BpsSet
      <3> QED BY <3>1, <3>2
    <2> HIDE DEF b
    <2> QED BY <2>1, <2>2, SoundReconfigured
  <1>5. ASSUME NEW key \in DOMAIN c.bps
        PROVE  Lldb!Sound(Lldb!UpdateBreakpoint(c, key), out, a, leftover) /\ Lldb!UpdateBreakpoint(c, key).output = c.output
    <2> DEFINE b == [c.bps EXCEPT ![key].enabled = ~c.bps[key].enabled]
    <2>1. Lldb!UpdateBreakpoint(c, key) = Lldb!Reconfigured([c EXCEPT !.bps = b])
      <3>1. "bps" \in DOMAIN c  BY <1>2 DEF Lldb!Fields
      <3> QED BY <1>2, <3>1 DEF Lldb!UpdateBreakpoint
    <2>2. b \in [B -> [enabled : BOOLEAN, verified : BOOLEAN]]  BY <1>3
    <2>3. b \in Lldb!BpsSet  BY <2>2 DEF Lldb!BpsSet
    <2> HIDE DEF b
    <2> QED BY <2>1, <2>3, SoundReconfigured
  <1>6. \A nothing : nothing = <<>> => nothing \in Lldb!BpsSet
    <2> SUFFICES ASSUME NEW nothing, nothing = <<>> PROVE nothing \in Lldb!BpsSet  OBVIOUS
    <2>1. nothing \in [{} -> [enabled : BOOLEAN, verified : BOOLEAN]]  OBVIOUS
    <2> QED BY <2>1 DEF Lldb!BpsSet
  <1>7. Lldb!Sound(Lldb!ClearBreakpoints(c), out, a, leftover) /\ Lldb!ClearBreakpoints(c).output = c.output
    <2>1. \A nothing : nothing = <<>> =>
            /\ Lldb!Sound(Lldb!Reconfigured([c EXCEPT !.bps = nothing]), out, a, leftover)
            /\ Lldb!Reconfigured([c EXCEPT !.bps = nothing]).output = c.output
      BY <1>6, SoundReconfigured
    <2> QED BY <2>1 DEF Lldb!ClearBreakpoints
  <1> QED BY <1>4, <1>5, <1>7

----------------------------------------------------------------------------
(* A session begins, and ends *)

\* An empty sequence has no element, and an empty function no argument.
LEMMA Nothing ==
  \A e : e = <<>> => Lldb!IsSequence(e) /\ Len(e) = 0 /\ DOMAIN e = {}
  BY NoElements

\* The adapter is a new one.
LEMMA NewAdapter ==
  Lldb!IdleAdapter \in Lldb!AdapterSet /\ Lldb!IdleAdapter.target = "none" /\ Lldb!IdleAdapter.launched = FALSE
  BY DEF Lldb!IdleAdapter, Lldb!AdapterSet

\* A client that has asked for nothing yet, and shows nothing of a program.
Blank(c) ==
  /\ c.wire = <<>> /\ ~c.active /\ ~c.stopped /\ ~c.exited
  /\ ~c.initialized /\ ~c.launchSent /\ ~c.configured

\* The first request of a session.
LEMMA SoundFirst ==
  ASSUME NEW c, Lldb!Typed(c), Blank(c), c.seq = 1, c.up, NEW out, Lldb!Messages(out), NEW leftover, ~leftover => out = <<>>
  PROVE  LET d == Lldb!Request(c, "initialize", <<>>, <<>>) IN
         Lldb!Sound(d, out, Lldb!IdleAdapter, leftover) /\ d.output = c.output
  <1> DEFINE d == Lldb!Request(c, "initialize", <<>>, <<>>)
             kinds == {"initialize"}
  <1>1. "initialize" \in Lldb!Commands \ {"setBreakpoints"}  BY DEF Lldb!Commands
  <1>2. Longer(c, d, kinds) /\ Flags(d) = Flags(c) /\ OneMore(c, d, "initialize")  BY <1>1, SentNamed
  <1> HIDE DEF d
  <1>3. /\ d.up = c.up /\ d.active = c.active /\ d.stopped = c.stopped /\ d.exited = c.exited
        /\ d.initialized = c.initialized /\ d.launchSent = c.launchSent /\ d.configured = c.configured
        /\ d.output = c.output
    BY <1>2 DEF Flags
  <1>4. Len(c.wire) = 0
    <2>1. c.wire = <<>>  BY DEF Blank
    <2> QED BY <2>1, Nothing
  <1>5. Len(d.wire) = 1 /\ d.wire[1].cmd = "initialize" /\ d.wire[1].seq = 1  BY <1>2, <1>4 DEF OneMore
  <1>6. Lldb!Typed(d)  BY <1>2 DEF Longer
  <1>7. ASSUME ~leftover PROVE Lldb!Fresh(d, out, Lldb!IdleAdapter)
    <2>1. Len(out) = 0  BY <1>7, Nothing
    <2>2. Lldb!Matched(d, out)
      <3>1. Lldb!Matched(c, out)  BY <1>4, <2>1 DEF Lldb!Matched
      <3> HIDE DEF kinds
      <3> QED BY <1>2, <3>1, MatchedLonger
    <2>3. Lldb!Started(d, out, Lldb!IdleAdapter)  BY <1>3, <1>5, <2>1, NewAdapter DEF Lldb!Started, Blank
    <2>4. Lldb!Follows(d, out, Lldb!IdleAdapter)
      <3>1. Lldb!NoResume(d)  BY <1>5 DEF Lldb!NoResume, Lldb!Resumes
      <3> QED BY <1>3, <2>1, <3>1, NewAdapter DEF Lldb!Follows, Blank
    <2> QED BY <1>3, <2>2, <2>3, <2>4 DEF Lldb!Fresh, Lldb!Steady, Blank
  <1> QED BY <1>3, <1>6, <1>7 DEF Lldb!Sound, Blank, d

\* start(), of a client that may have left messages to be read.
LEMMA SoundStart ==
  ASSUME NEW c, Lldb!Typed(c), NEW out, out = c.output, Lldb!Messages(out), NEW leftover, ~leftover => out = <<>>
  PROVE  Lldb!Sound(Lldb!Start(c), out, Lldb!IdleAdapter, leftover) /\ Lldb!Start(c).output = out
  <1> DEFINE b == [Lldb!IdleClient EXCEPT !.up = TRUE, !.output = c.output, !.watches = c.watches,
                     !.registersOn = c.registersOn, !.bps = c.bps]
  <1>1. Lldb!Start(c) = Lldb!Request(b, "initialize", <<>>, <<>>)  BY DEF Lldb!Start
  <1>2. /\ DOMAIN b = Lldb!Fields /\ b.up = TRUE /\ b.output = out /\ b.watches = c.watches /\ b.bps = c.bps
        /\ b.wire = <<>> /\ b.pending = <<>> /\ b.seq = 1
        /\ b.initialized = FALSE /\ b.launchSent = FALSE /\ b.configured = FALSE
        /\ b.active = FALSE /\ b.stopped = FALSE /\ b.exited = FALSE
        /\ b.thread = 0 /\ b.threads = {}
    BY DEF Lldb!IdleClient, Lldb!Fields
  <1> HIDE DEF b
  <1>3. Lldb!IsSequence(b.wire) /\ Len(b.wire) = 0 /\ DOMAIN b.pending = {}  BY <1>2, Nothing
  <1>4. Lldb!Typed(b)
    <2>1. Lldb!IsSequence(c.watches) /\ c.bps \in Lldb!BpsSet  BY DEF Lldb!Typed
    <2>2. \A i \in 1..Len(b.wire) : Lldb!AsRequest(b.wire[i]) /\ b.wire[i].seq \in 1..(b.seq - 1)  BY <1>3
    <2>3. {b.up, b.initialized, b.launchSent, b.configured, b.active, b.stopped, b.exited} \subseteq BOOLEAN
      BY <1>2
    <2>4. b.seq \in Nat \ {0}  BY <1>2
    <2>5. b.thread \in Threads \cup {0} /\ b.threads \subseteq Threads  BY <1>2
    <2> QED BY <1>2, <1>3, <2>1, <2>2, <2>3, <2>4, <2>5 DEF Lldb!Typed
  <1>5. Blank(b)  BY <1>2 DEF Blank
  <1> QED BY <1>1, <1>2, <1>4, <1>5, SoundFirst

\* stop() is done: the client may be started again.
LEMMA SoundStopped ==
  ASSUME NEW c, Lldb!Typed(c)
  PROVE  /\ Lldb!Typed(Lldb!StopDone(c)) /\ Lldb!StopDone(c).output = c.output
         /\ \A out, a, leftover : Lldb!Messages(out) => Lldb!Sound(Lldb!StopDone(c), out, a, leftover)
  <1> DEFINE d == Lldb!StopDone(c)
  <1>1. /\ DOMAIN d = Lldb!Fields /\ d.up = FALSE /\ d.output = c.output /\ d.watches = c.watches /\ d.bps = c.bps
        /\ d.wire = <<>> /\ d.pending = <<>> /\ d.seq = c.seq
        /\ d.initialized = FALSE /\ d.launchSent = FALSE /\ d.configured = FALSE
        /\ d.active = FALSE /\ d.stopped = FALSE /\ d.exited = FALSE
        /\ d.thread = c.thread /\ d.threads = c.threads
    BY DEF Lldb!StopDone, Lldb!Typed, Lldb!Fields
  <1> HIDE DEF d
  <1>2. Lldb!IsSequence(d.wire) /\ Len(d.wire) = 0 /\ DOMAIN d.pending = {}  BY <1>1, Nothing
  <1>3. Lldb!Typed(d)
    <2>1. /\ Lldb!IsSequence(c.watches) /\ c.bps \in Lldb!BpsSet /\ c.seq \in Nat \ {0}
          /\ c.thread \in Threads \cup {0} /\ c.threads \subseteq Threads
      BY DEF Lldb!Typed
    <2>2. \A i \in 1..Len(d.wire) : Lldb!AsRequest(d.wire[i]) /\ d.wire[i].seq \in 1..(d.seq - 1)  BY <1>2
    <2>3. {d.up, d.initialized, d.launchSent, d.configured, d.active, d.stopped, d.exited} \subseteq BOOLEAN
      BY <1>1
    <2> QED BY <1>1, <1>2, <2>1, <2>2, <2>3 DEF Lldb!Typed
  <1> QED BY <1>1, <1>3 DEF Lldb!Sound, d

\* stop() asks the adapter to end, and polls once more.
LEMMA SoundRequested ==
  ASSUME NEW c, NEW a, NEW leftover, Lldb!Sound(c, c.output, a, leftover)
  PROVE  Lldb!Sound(Lldb!StopRequested(c), Lldb!StopRequested(c).output, a, leftover)
  <1> DEFINE d == Lldb!Request(c, "disconnect", c.active, <<>>)
  <1>1. CASE c.up
    <2>1. Mildly(c, d)
      <3>1. Lldb!Typed(c)  BY DEF Lldb!Sound
      <3>2. "disconnect" \in Harmless  BY DEF Harmless, Lldb!Commands
      <3> QED BY <3>1, <3>2, MildRequest
    <2> HIDE DEF d
    <2>2. Lldb!Sound(d, c.output, a, leftover)  BY <2>1, SoundMildly
    <2>3. d.output = c.output  BY <2>1 DEF Mildly, Flags
    <2> QED BY <1>1, <2>2, <2>3, SoundPoll DEF Lldb!StopRequested, d
  <1>2. CASE ~c.up  BY <1>2 DEF Lldb!StopRequested
  <1> QED BY <1>1, <1>2

----------------------------------------------------------------------------
(* What the adapter does: it reads a request or none, and writes messages *)

\* d is c after the adapter has read k requests.
Serves(c, d, k) ==
  /\ Lldb!Typed(c) /\ Lldb!Typed(d) /\ d.up = c.up /\ d.pending = c.pending /\ d.bps = c.bps
  /\ d.active = c.active /\ d.stopped = c.stopped /\ d.exited = c.exited
  /\ d.initialized = c.initialized /\ d.launchSent = c.launchSent /\ d.configured = c.configured
  /\ k \in {0, 1} /\ k <= Len(c.wire) /\ Len(d.wire) = Len(c.wire) - k
  /\ \A i \in 1..Len(d.wire) : d.wire[i] = c.wire[i + k]

\* Where the requests are.
LEMMA Served ==
  ASSUME NEW c, NEW d, NEW k, Serves(c, d, k)
  PROVE  /\ \A i \in 1..Len(d.wire) : i + k \in 1..Len(c.wire) /\ d.wire[i] = c.wire[i + k]
         /\ \A i \in 1..Len(c.wire) :
              \/ i = 1 /\ k = 1
              \/ i - k \in 1..Len(d.wire) /\ c.wire[i] = d.wire[i - k]
         /\ \A i, j \in 1..Len(d.wire) : i < j => i + k < j + k
         /\ \A i, j \in 1..Len(d.wire) : i + k = j + k => i = j
         /\ k = 1 => 1 \in 1..Len(c.wire) /\ \A i \in 1..Len(d.wire) : 1 < i + k
         /\ \A i \in 1..Len(c.wire) : c.wire[i].seq \in Nat /\ Lldb!AsRequest(c.wire[i])
  <1>1. Lldb!Typed(c)  BY DEF Serves
  <1>2. Len(c.wire) \in Nat /\ \A i \in 1..Len(c.wire) : c.wire[i].seq \in Nat /\ Lldb!AsRequest(c.wire[i])
    BY <1>1 DEF Lldb!Typed, Lldb!IsSequence
  <1>3. k \in {0, 1} /\ k <= Len(c.wire) /\ Len(d.wire) = Len(c.wire) - k  BY DEF Serves
  <1>4. \A i \in 1..Len(d.wire) : i + k \in 1..Len(c.wire) /\ d.wire[i] = c.wire[i + k]  BY <1>2, <1>3 DEF Serves
  <1>5. \A i \in 1..Len(c.wire) : (i = 1 /\ k = 1) \/ (i - k \in 1..Len(d.wire) /\ i = (i - k) + k)  BY <1>2, <1>3
  <1>6. \A i \in 1..Len(c.wire) : (i = 1 /\ k = 1) \/ (i - k \in 1..Len(d.wire) /\ c.wire[i] = d.wire[i - k])
    <2> SUFFICES ASSUME NEW i \in 1..Len(c.wire), ~(i = 1 /\ k = 1)
                 PROVE  i - k \in 1..Len(d.wire) /\ c.wire[i] = d.wire[i - k]
      OBVIOUS
    <2>1. i - k \in 1..Len(d.wire) /\ i = (i - k) + k  BY <1>5
    <2> QED BY <1>4, <2>1
  <1>7. /\ \A i, j \in 1..Len(d.wire) : i < j => i + k < j + k
        /\ \A i, j \in 1..Len(d.wire) : i + k = j + k => i = j
        /\ k = 1 => 1 \in 1..Len(c.wire) /\ \A i \in 1..Len(d.wire) : 1 < i + k
    BY <1>2, <1>3
  <1> QED BY <1>2, <1>4, <1>6, <1>7

\* What has been written is after what was there.
Adds(out, more, said) ==
  /\ Lldb!IsSequence(out) /\ Lldb!IsSequence(more) /\ Lldb!IsSequence(said)
  /\ Len(out) \in Nat /\ Len(said) \in Nat /\ Len(more) = Len(out) + Len(said)
  /\ \A i \in 1..Len(out) : i \in 1..Len(more) /\ more[i] = out[i]
  /\ \A i \in 1..Len(more) :
       i \in 1..Len(out) \/ (i > Len(out) /\ \E j \in 1..Len(said) : i = Len(out) + j /\ more[i] = said[j])
  /\ \A j \in 1..Len(said) : Len(out) + j \in 1..Len(more) /\ more[Len(out) + j] = said[j]

\* Writing.
LEMMA Said ==
  ASSUME NEW out, NEW said, Lldb!IsSequence(out), Lldb!IsSequence(said)
  PROVE  Adds(out, out \o said, said)
  <1> DEFINE more == out \o said
  <1>1. /\ Lldb!IsSequence(more) /\ Len(more) = Len(out) + Len(said) /\ Len(out) \in Nat /\ Len(said) \in Nat
        /\ \A i \in 1..Len(out) : more[i] = out[i]
        /\ \A j \in 1..Len(said) : more[Len(out) + j] = said[j]
    BY JoinedUp
  <1> HIDE DEF more
  <1>2. \A i \in 1..Len(out) : i \in 1..Len(more)  BY <1>1
  <1>3. \A j \in 1..Len(said) : Len(out) + j \in 1..Len(more)  BY <1>1
  <1>4. \A i \in 1..Len(more) :
          i \in 1..Len(out) \/ (i > Len(out) /\ i - Len(out) \in 1..Len(said) /\ i = Len(out) + (i - Len(out)))
    BY <1>1
  <1>5. \A i \in 1..Len(more) :
          i \in 1..Len(out) \/ (i > Len(out) /\ \E j \in 1..Len(said) : i = Len(out) + j /\ more[i] = said[j])
    BY <1>1, <1>4
  <1> QED BY <1>1, <1>2, <1>3, <1>5 DEF Adds, more

\* Every answer it writes is the first, to the request it has read.
Answering(c, k, said) ==
  \A j \in 1..Len(said) : Lldb!IsAnswer(said[j]) =>
    k = 1 /\ j = 1 /\ said[j].seq = c.wire[1].seq /\ said[j].cmd = c.wire[1].cmd

\* Every answer is awaited as what it is.
LEMMA MatchedServed ==
  ASSUME NEW c, NEW d, NEW k, Serves(c, d, k), NEW out, NEW more, NEW said, Adds(out, more, said),
         Answering(c, k, said), Lldb!Matched(c, out)
  PROVE  Lldb!Matched(d, more)
  <1>1. /\ \A i \in 1..Len(d.wire) : i + k \in 1..Len(c.wire) /\ d.wire[i] = c.wire[i + k]
        /\ \A i, j \in 1..Len(d.wire) : i < j => i + k < j + k
        /\ k = 1 => 1 \in 1..Len(c.wire) /\ \A i \in 1..Len(d.wire) : 1 < i + k
        /\ \A i \in 1..Len(c.wire) : c.wire[i].seq \in Nat
    BY Served
  <1>2. d.pending = c.pending  BY DEF Serves
  <1>3. \A i \in 1..Len(d.wire) :
          /\ d.wire[i].seq \in DOMAIN d.pending /\ d.pending[d.wire[i].seq].cmd = d.wire[i].cmd
          /\ d.wire[i].cmd = "setBreakpoints" =>
               d.pending[d.wire[i].seq].context = <<"breakpoints", d.wire[i].arg.file>>
    <2> TAKE i \in 1..Len(d.wire)
    <2>1. i + k \in 1..Len(c.wire) /\ d.wire[i] = c.wire[i + k]  BY <1>1
    <2>2. /\ c.wire[i + k].seq \in DOMAIN c.pending /\ c.pending[c.wire[i + k].seq].cmd = c.wire[i + k].cmd
          /\ c.wire[i + k].cmd = "setBreakpoints" =>
               c.pending[c.wire[i + k].seq].context = <<"breakpoints", c.wire[i + k].arg.file>>
      BY <2>1 DEF Lldb!Matched
    <2> QED BY <1>2, <2>1, <2>2
  <1>4. \A i, j \in 1..Len(d.wire) : i < j => d.wire[i].seq < d.wire[j].seq  BY <1>1 DEF Lldb!Matched
  <1>5. ASSUME NEW i \in 1..Len(more), Lldb!IsAnswer(more[i])
        PROVE  /\ more[i].seq \in DOMAIN d.pending /\ d.pending[more[i].seq].cmd = more[i].cmd
               /\ \A j \in 1..Len(d.wire) : d.wire[j].seq # more[i].seq
               /\ \A j \in 1..Len(more) : Lldb!IsAnswer(more[j]) /\ more[j].seq = more[i].seq => j = i
    <2>1. CASE i \in 1..Len(out)
      <3>1. more[i] = out[i]  BY <2>1 DEF Adds
      <3>2. more[i].seq \in DOMAIN d.pending /\ d.pending[more[i].seq].cmd = more[i].cmd
        BY <1>2, <1>5, <2>1, <3>1 DEF Lldb!Matched
      <3>3. ASSUME NEW j \in 1..Len(d.wire) PROVE d.wire[j].seq # more[i].seq
        <4>1. j + k \in 1..Len(c.wire) /\ d.wire[j] = c.wire[j + k]  BY <1>1
        <4>2. c.wire[j + k].seq # out[i].seq  BY <1>5, <2>1, <3>1, <4>1 DEF Lldb!Matched
        <4> QED BY <3>1, <4>1, <4>2
      <3>4. ASSUME NEW j \in 1..Len(more), Lldb!IsAnswer(more[j]), more[j].seq = more[i].seq PROVE j = i
        <4>1. CASE j \in 1..Len(out)
          <5>1. more[j] = out[j]  BY <4>1 DEF Adds
          <5> QED BY <1>5, <2>1, <3>1, <3>4, <4>1, <5>1 DEF Lldb!Matched
        <4>2. CASE j \notin 1..Len(out)
          <5>1. PICK l \in 1..Len(said) : more[j] = said[l]  BY <4>2 DEF Adds
          <5>2. k = 1 /\ more[j].seq = c.wire[1].seq  BY <3>4, <5>1 DEF Answering
          <5>3. c.wire[1].seq # out[i].seq  BY <1>1, <1>5, <2>1, <3>1, <5>2 DEF Lldb!Matched
          <5> QED BY <3>1, <3>4, <5>2, <5>3
        <4> QED BY <4>1, <4>2
      <3> QED BY <3>2, <3>3, <3>4
    <2>2. CASE i \notin 1..Len(out)
      <3>1. PICK l \in 1..Len(said) : i = Len(out) + l /\ more[i] = said[l]  BY <2>2 DEF Adds
      <3>2. k = 1 /\ l = 1 /\ more[i].seq = c.wire[1].seq /\ more[i].cmd = c.wire[1].cmd  BY <1>5, <3>1 DEF Answering
      <3>3. more[i].seq \in DOMAIN d.pending /\ d.pending[more[i].seq].cmd = more[i].cmd
        BY <1>1, <1>2, <3>2 DEF Lldb!Matched
      <3>4. ASSUME NEW j \in 1..Len(d.wire) PROVE d.wire[j].seq # more[i].seq
        <4>1. /\ j + k \in 1..Len(c.wire) /\ 1 \in 1..Len(c.wire) /\ 1 < j + k /\ d.wire[j] = c.wire[j + k]
              /\ c.wire[j + k].seq \in Nat /\ c.wire[1].seq \in Nat
          BY <1>1, <3>2
        <4>2. c.wire[1].seq < c.wire[j + k].seq  BY <4>1 DEF Lldb!Matched
        <4> QED BY <3>2, <4>1, <4>2
      <3>5. ASSUME NEW j \in 1..Len(more), Lldb!IsAnswer(more[j]), more[j].seq = more[i].seq PROVE j = i
        <4>1. CASE j \in 1..Len(out)
          <5>1. more[j] = out[j]  BY <4>1 DEF Adds
          <5>2. c.wire[1].seq # out[j].seq  BY <1>1, <3>2, <3>5, <4>1, <5>1 DEF Lldb!Matched
          <5> QED BY <3>2, <3>5, <5>1, <5>2
        <4>2. CASE j \notin 1..Len(out)
          <5>1. PICK r \in 1..Len(said) : j = Len(out) + r /\ more[j] = said[r]  BY <4>2 DEF Adds
          <5>2. r = 1  BY <3>5, <5>1 DEF Answering
          <5> QED BY <3>1, <3>2, <5>1, <5>2
        <4> QED BY <4>1, <4>2
      <3> QED BY <3>3, <3>4, <3>5
    <2> QED BY <2>1, <2>2
  <1> QED BY <1>3, <1>4, <1>5 DEF Lldb!Matched

\* The program is launched once, by the request to.
LEMMA StartedServed ==
  ASSUME NEW c, NEW d, NEW k, Serves(c, d, k), NEW out, NEW more, NEW said, Adds(out, more, said),
         Answering(c, k, said), NEW a, NEW b, Lldb!Started(c, out, a),
         \/ b.launched = a.launched /\ (~a.launched => b.target = a.target)
         \/ k = 1 /\ c.wire[1].cmd = "launch" /\ b.launched
  PROVE  Lldb!Started(d, more, b)
  <1>1. /\ \A i \in 1..Len(d.wire) : i + k \in 1..Len(c.wire) /\ d.wire[i] = c.wire[i + k]
        /\ \A i, j \in 1..Len(d.wire) : i + k = j + k => i = j
        /\ k = 1 => 1 \in 1..Len(c.wire) /\ \A i \in 1..Len(d.wire) : 1 # i + k
    <2>1. k = 1 => \A i \in 1..Len(d.wire) : 1 # i + k  OBVIOUS
    <2> QED BY <2>1, Served
  <1>2. d.initialized = c.initialized /\ d.launchSent = c.launchSent  BY DEF Serves
  <1>3. ASSUME NEW i \in 1..Len(d.wire), d.wire[i].cmd = "launch"
        PROVE  ~b.launched /\ d.launchSent /\ \A j \in 1..Len(d.wire) : d.wire[j].cmd = "launch" => j = i
    <2>1. i + k \in 1..Len(c.wire) /\ c.wire[i + k].cmd = "launch"  BY <1>1, <1>3
    <2>2. /\ ~a.launched /\ c.launchSent
          /\ \A j \in 1..Len(c.wire) : c.wire[j].cmd = "launch" => j = i + k
      BY <2>1 DEF Lldb!Started
    <2>3. \A j \in 1..Len(d.wire) : d.wire[j].cmd = "launch" => j + k = i + k  BY <1>1, <2>2
    <2>4. ~(k = 1 /\ c.wire[1].cmd = "launch")  BY <1>1, <2>2
    <2> QED BY <1>1, <1>2, <2>2, <2>3, <2>4
  <1>4. ASSUME NEW i \in 1..Len(d.wire), d.wire[i].cmd = "initialize" PROVE d.wire[i].seq = 1 /\ ~d.initialized
    <2>1. i + k \in 1..Len(c.wire) /\ d.wire[i] = c.wire[i + k]  BY <1>1
    <2> QED BY <1>2, <1>4, <2>1 DEF Lldb!Started
  <1>5. ASSUME NEW i \in 1..Len(more), Lldb!IsAnswer(more[i]), more[i].cmd = "initialize"
        PROVE  more[i].seq = 1 /\ ~d.initialized
    <2>1. CASE i \in 1..Len(out)
      <3>1. more[i] = out[i]  BY <2>1 DEF Adds
      <3> QED BY <1>2, <1>5, <2>1, <3>1 DEF Lldb!Started
    <2>2. CASE i \notin 1..Len(out)
      <3>1. PICK l \in 1..Len(said) : more[i] = said[l]  BY <2>2 DEF Adds
      <3>2. k = 1 /\ more[i].seq = c.wire[1].seq /\ more[i].cmd = c.wire[1].cmd  BY <1>5, <3>1 DEF Answering
      <3>3. c.wire[1].seq = 1 /\ ~c.initialized  BY <1>1, <1>5, <3>2 DEF Lldb!Started
      <3> QED BY <1>2, <3>2, <3>3
    <2> QED BY <2>1, <2>2
  <1>6. /\ ~d.initialized => ~d.launchSent
        /\ ~d.launchSent => ~b.launched
        /\ ~b.launched => b.target = "none"
    <2>1. k = 1 /\ c.wire[1].cmd = "launch" => c.launchSent  BY <1>1 DEF Lldb!Started
    <2> QED BY <1>2, <2>1 DEF Lldb!Started
  <1> QED BY <1>3, <1>4, <1>5, <1>6 DEF Lldb!Started

\* The adapter still has, or will have, the breakpoints.
LEMMA ToldServed ==
  ASSUME NEW c, NEW d, NEW k, Serves(c, d, k), NEW a, NEW b, Lldb!Told(c, a),
         \/ b.bps = a.bps /\ (k = 1 => c.wire[1].cmd # "setBreakpoints")
         \/ /\ k = 1 /\ c.wire[1].cmd = "setBreakpoints"
            /\ b.bps[c.wire[1].arg.file] = c.wire[1].arg.keys
            /\ \A file : file # c.wire[1].arg.file => b.bps[file] = a.bps[file]
  PROVE  Lldb!Told(d, b)
  <1>1. /\ \A i \in 1..Len(d.wire) : i + k \in 1..Len(c.wire) /\ d.wire[i] = c.wire[i + k]
        /\ \A i \in 1..Len(c.wire) : (i = 1 /\ k = 1) \/ (i - k \in 1..Len(d.wire) /\ c.wire[i] = d.wire[i - k])
        /\ \A i, j \in 1..Len(d.wire) : i < j => i + k < j + k
        /\ k = 1 => 1 \in 1..Len(c.wire) /\ \A i \in 1..Len(d.wire) : 1 < i + k
    BY Served
  <1>2. SameEnabled(c, d) /\ DOMAIN d.bps = DOMAIN c.bps  BY DEF Serves, SameEnabled
  <1>3. \A file : Lldb!EnabledIn(d, file) = Lldb!EnabledIn(c, file)  BY <1>2, EnabledSame
  <1>4. SUFFICES ASSUME NEW key \in DOMAIN d.bps
                 PROVE  LET file == Lldb!FileOf(key) IN
                        \/ Lldb!NoAsk(d, file) /\ b.bps[file] = Lldb!EnabledIn(d, file)
                        \/ \E i \in 1..Len(d.wire) :
                             /\ Lldb!Asks(d.wire[i], file) /\ d.wire[i].arg.keys = Lldb!EnabledIn(d, file)
                             /\ \A j \in 1..Len(d.wire) : j > i => ~Lldb!Asks(d.wire[j], file)
    BY DEF Lldb!Told
  <1> DEFINE file == Lldb!FileOf(key)
  <1>5. \/ Lldb!NoAsk(c, file) /\ a.bps[file] = Lldb!EnabledIn(c, file)
        \/ \E i \in 1..Len(c.wire) :
             /\ Lldb!Asks(c.wire[i], file) /\ c.wire[i].arg.keys = Lldb!EnabledIn(c, file)
             /\ \A j \in 1..Len(c.wire) : j > i => ~Lldb!Asks(c.wire[j], file)
    BY <1>2, <1>4 DEF Lldb!Told
  <1> HIDE DEF file
  <1>6. CASE Lldb!NoAsk(c, file) /\ a.bps[file] = Lldb!EnabledIn(c, file)
    <2>1. Lldb!NoAsk(d, file)  BY <1>1, <1>6 DEF Lldb!NoAsk
    <2>2. b.bps[file] = a.bps[file]  BY <1>1, <1>6 DEF Lldb!NoAsk, Lldb!Asks
    <2> QED BY <1>3, <1>6, <2>1, <2>2 DEF file
  <1>7. ASSUME NEW i \in 1..Len(c.wire), Lldb!Asks(c.wire[i], file), c.wire[i].arg.keys = Lldb!EnabledIn(c, file),
               \A j \in 1..Len(c.wire) : j > i => ~Lldb!Asks(c.wire[j], file)
        PROVE  \/ Lldb!NoAsk(d, file) /\ b.bps[file] = Lldb!EnabledIn(d, file)
               \/ \E l \in 1..Len(d.wire) :
                    /\ Lldb!Asks(d.wire[l], file) /\ d.wire[l].arg.keys = Lldb!EnabledIn(d, file)
                    /\ \A j \in 1..Len(d.wire) : j > l => ~Lldb!Asks(d.wire[j], file)
    <2>1. CASE i = 1 /\ k = 1
      <3>1. \A j \in 1..Len(d.wire) : ~Lldb!Asks(d.wire[j], file)
        <4> TAKE j \in 1..Len(d.wire)
        <4>1. j + k \in 1..Len(c.wire) /\ d.wire[j] = c.wire[j + k] /\ j + k > i  BY <1>1, <2>1
        <4> QED BY <1>7, <4>1
      <3>2. b.bps[file] = Lldb!EnabledIn(c, file)  BY <1>7, <2>1 DEF Lldb!Asks
      <3> QED BY <1>3, <3>1, <3>2 DEF Lldb!NoAsk
    <2>2. CASE i - k \in 1..Len(d.wire) /\ c.wire[i] = d.wire[i - k]
      <3> DEFINE l == i - k
      <3>1. l \in 1..Len(d.wire) /\ Lldb!Asks(d.wire[l], file) /\ d.wire[l].arg.keys = Lldb!EnabledIn(d, file)
        BY <1>3, <1>7, <2>2
      <3>2. l + k = i
        <4>1. k \in Int /\ i \in Int  BY DEF Serves
        <4> QED BY <4>1
      <3> HIDE DEF l
      <3>3. ASSUME NEW j \in 1..Len(d.wire), j > l PROVE ~Lldb!Asks(d.wire[j], file)
        <4>1. j + k \in 1..Len(c.wire) /\ d.wire[j] = c.wire[j + k] /\ j + k > i  BY <1>1, <3>1, <3>2, <3>3
        <4> QED BY <1>7, <4>1
      <3> QED BY <3>1, <3>3
    <2> QED BY <1>1, <2>1, <2>2
  <1> QED BY <1>5, <1>6, <1>7 DEF file

\* The answer about the breakpoints of a file, or another.
LEMMA LearnsServed ==
  ASSUME NEW c, NEW d, NEW k, Serves(c, d, k), NEW out, NEW more, NEW said, Adds(out, more, said),
         Answering(c, k, said), Lldb!Matched(c, out), NEW a, Lldb!Told(c, a), Lldb!Learns(c, out),
         k = 1 /\ c.wire[1].cmd = "setBreakpoints" =>
           /\ Len(said) = 1 /\ Lldb!IsAnswer(said[1]) /\ said[1].ok = TRUE
           /\ said[1].seq = c.wire[1].seq /\ said[1].body = Lldb!Resolved(c.wire[1].arg.keys)
  PROVE  Lldb!Learns(d, more)
  <1>1. /\ \A i \in 1..Len(d.wire) : i + k \in 1..Len(c.wire) /\ d.wire[i] = c.wire[i + k]
        /\ \A i \in 1..Len(c.wire) : (i = 1 /\ k = 1) \/ (i - k \in 1..Len(d.wire) /\ c.wire[i] = d.wire[i - k])
        /\ k = 1 => 1 \in 1..Len(c.wire)
    BY Served
  <1>2. SameEnabled(c, d) /\ d.bps = c.bps /\ d.pending = c.pending  BY DEF Serves, SameEnabled
  <1>3. \A file : Lldb!EnabledIn(d, file) = Lldb!EnabledIn(c, file)  BY <1>2, EnabledSame
  <1>4. \A m : \A file : Lldb!Tells(d, m, file) <=> Lldb!Tells(c, m, file)  BY <1>2 DEF Lldb!Tells
  <1>5. SUFFICES ASSUME NEW key \in DOMAIN d.bps, Lldb!NoAsk(d, Lldb!FileOf(key))
                 PROVE  LET file == Lldb!FileOf(key) IN
                        \/ \E i \in 1..Len(more) :
                             /\ Lldb!Tells(d, more[i], file) /\ more[i].ok
                             /\ more[i].body = Lldb!Resolved(Lldb!EnabledIn(d, file))
                             /\ \A j \in 1..Len(more) : j > i => ~Lldb!Tells(d, more[j], file)
                        \/ /\ \A i \in 1..Len(more) : ~Lldb!Tells(d, more[i], file)
                           /\ d.bps[key].enabled => (d.bps[key].verified <=> key \in Resolvable)
    BY DEF Lldb!Learns
  <1> DEFINE file == Lldb!FileOf(key)
  <1>6. \/ Lldb!NoAsk(c, file) /\ a.bps[file] = Lldb!EnabledIn(c, file)
        \/ \E i \in 1..Len(c.wire) :
             /\ Lldb!Asks(c.wire[i], file) /\ c.wire[i].arg.keys = Lldb!EnabledIn(c, file)
             /\ \A j \in 1..Len(c.wire) : j > i => ~Lldb!Asks(c.wire[j], file)
    BY <1>2, <1>5 DEF Lldb!Told
  <1>7. \/ ~Lldb!NoAsk(c, file)
        \/ \E i \in 1..Len(out) :
             /\ Lldb!Tells(c, out[i], file) /\ out[i].ok /\ out[i].body = Lldb!Resolved(Lldb!EnabledIn(c, file))
             /\ \A j \in 1..Len(out) : j > i => ~Lldb!Tells(c, out[j], file)
        \/ /\ \A i \in 1..Len(out) : ~Lldb!Tells(c, out[i], file)
           /\ c.bps[key].enabled => (c.bps[key].verified <=> key \in Resolvable)
    BY <1>2, <1>5 DEF Lldb!Learns
  <1>8. Lldb!NoAsk(d, file)  BY <1>5
  <1> HIDE DEF file
  <1>9. ASSUME k = 1
        PROVE  /\ c.wire[1].seq \in DOMAIN c.pending /\ c.pending[c.wire[1].seq].cmd = c.wire[1].cmd
               /\ c.wire[1].cmd = "setBreakpoints" =>
                    c.pending[c.wire[1].seq].context = <<"breakpoints", c.wire[1].arg.file>>
    <2>1. 1 \in 1..Len(c.wire)  BY <1>1, <1>9
    <2> QED BY <2>1 DEF Lldb!Matched
  <1>10. ASSUME NEW i \in 1..Len(more), i \notin 1..Len(out), Lldb!Tells(c, more[i], file)
         PROVE  k = 1 /\ Lldb!Asks(c.wire[1], file)
    <2>1. PICK l \in 1..Len(said) : more[i] = said[l]  BY <1>10 DEF Adds
    <2>2. k = 1 /\ more[i].seq = c.wire[1].seq  BY <1>10, <2>1 DEF Answering, Lldb!Tells
    <2>3. c.wire[1].cmd = "setBreakpoints" /\ <<"breakpoints", c.wire[1].arg.file>> = <<"breakpoints", file>>
      BY <1>9, <1>10, <2>2 DEF Lldb!Tells
    <2> QED BY <2>2, <2>3 DEF Lldb!Asks
  <1>11. CASE k = 1 /\ Lldb!Asks(c.wire[1], file)
    <2> DEFINE n == Len(out) + 1
    <2>1. /\ c.wire[1].cmd = "setBreakpoints" /\ c.wire[1].arg.file = file
          /\ Len(said) = 1 /\ Lldb!IsAnswer(said[1]) /\ said[1].ok = TRUE
          /\ said[1].seq = c.wire[1].seq /\ said[1].body = Lldb!Resolved(c.wire[1].arg.keys)
      BY <1>11 DEF Lldb!Asks
    <2>2. n \in 1..Len(more) /\ more[n] = said[1] /\ Len(more) = n /\ n \in Nat  BY <2>1 DEF Adds
    <2>3. c.wire[1].arg.keys = Lldb!EnabledIn(c, file)
      <3>1. ~Lldb!NoAsk(c, file)  BY <1>1, <1>11 DEF Lldb!NoAsk
      <3>2. PICK i \in 1..Len(c.wire) : Lldb!Asks(c.wire[i], file) /\ c.wire[i].arg.keys = Lldb!EnabledIn(c, file)
        BY <1>6, <3>1
      <3>3. i = 1  BY <1>1, <1>8, <3>2 DEF Lldb!NoAsk
      <3> QED BY <3>2, <3>3
    <2>4. Lldb!Tells(c, more[n], file)  BY <1>9, <1>11, <2>1, <2>2 DEF Lldb!Tells
    <2>5. \A j \in 1..Len(more) : ~(j > n)  BY <2>2
    <2> HIDE DEF n
    <2>6. Lldb!Tells(d, more[n], file) /\ more[n].ok /\ more[n].body = Lldb!Resolved(Lldb!EnabledIn(d, file))
      BY <1>3, <1>4, <2>1, <2>2, <2>3, <2>4
    <2> QED BY <2>2, <2>5, <2>6 DEF file
  <1>12. CASE ~(k = 1 /\ Lldb!Asks(c.wire[1], file))
    <2>1. Lldb!NoAsk(c, file)  BY <1>1, <1>8, <1>12 DEF Lldb!NoAsk
    <2>2. \A i \in 1..Len(more) : i \notin 1..Len(out) => ~Lldb!Tells(d, more[i], file)  BY <1>4, <1>10, <1>12
    <2>3. \A i \in 1..Len(out) : i \in 1..Len(more) /\ more[i] = out[i]  BY DEF Adds
    <2>4. CASE \E i \in 1..Len(out) :
                 /\ Lldb!Tells(c, out[i], file) /\ out[i].ok /\ out[i].body = Lldb!Resolved(Lldb!EnabledIn(c, file))
                 /\ \A j \in 1..Len(out) : j > i => ~Lldb!Tells(c, out[j], file)
      <3>1. PICK i \in 1..Len(out) :
              /\ Lldb!Tells(c, out[i], file) /\ out[i].ok /\ out[i].body = Lldb!Resolved(Lldb!EnabledIn(c, file))
              /\ \A j \in 1..Len(out) : j > i => ~Lldb!Tells(c, out[j], file)
        BY <2>4
      <3>2. i \in 1..Len(more) /\ Lldb!Tells(d, more[i], file) /\ more[i].ok
            /\ more[i].body = Lldb!Resolved(Lldb!EnabledIn(d, file))
        BY <1>3, <1>4, <2>3, <3>1
      <3>3. \A j \in 1..Len(more) : j > i => ~Lldb!Tells(d, more[j], file)
        <4> TAKE j \in 1..Len(more)
        <4>1. CASE j \in 1..Len(out)  BY <1>4, <2>3, <3>1, <4>1
        <4>2. CASE j \notin 1..Len(out)  BY <2>2, <4>2
        <4> QED BY <4>1, <4>2
      <3> QED BY <3>2, <3>3 DEF file
    <2>5. CASE /\ \A i \in 1..Len(out) : ~Lldb!Tells(c, out[i], file)
               /\ c.bps[key].enabled => (c.bps[key].verified <=> key \in Resolvable)
      <3>1. \A i \in 1..Len(more) : ~Lldb!Tells(d, more[i], file)
        <4> TAKE i \in 1..Len(more)
        <4>1. CASE i \in 1..Len(out)  BY <1>4, <2>3, <2>5, <4>1
        <4>2. CASE i \notin 1..Len(out)  BY <2>2, <4>2
        <4> QED BY <4>1, <4>2
      <3> QED BY <1>2, <2>5, <3>1 DEF file
    <2> QED BY <1>7, <2>1, <2>4, <2>5
  <1> QED BY <1>11, <1>12

\* What the window shows, and the requests to go on.
LEMMA ShownServed ==
  ASSUME NEW c, NEW d, NEW k, Serves(c, d, k)
  PROVE  /\ \A state : Lldb!Shows(d, state) <=> Lldb!Shows(c, state)
         /\ Lldb!NoResume(c) => Lldb!NoResume(d)
         /\ d.stopped = c.stopped
  <1>1. \A i \in 1..Len(d.wire) : i + k \in 1..Len(c.wire) /\ d.wire[i] = c.wire[i + k]  BY Served
  <1>2. d.active = c.active /\ d.stopped = c.stopped /\ d.exited = c.exited  BY DEF Serves
  <1>3. Lldb!NoResume(c) => Lldb!NoResume(d)  BY <1>1 DEF Lldb!NoResume
  <1> QED BY <1>2, <1>3 DEF Lldb!Shows

\* Nothing that changes it is written.
LEMMA ShownKept ==
  ASSUME NEW c, NEW d, NEW k, Serves(c, d, k), NEW out, NEW more, NEW said, Adds(out, more, said),
         \A j \in 1..Len(said) : ~Lldb!Turn(said[j])
  PROVE  /\ Lldb!Settled(out) => Lldb!Settled(more)
         /\ \A state : Lldb!WillShow(c, out, state) => Lldb!WillShow(d, more, state)
         /\ \A i \in 1..Len(out) :
              (\A j \in 1..Len(out) : j > i => ~Lldb!Turn(out[j])) => \A j \in 1..Len(more) : j > i => ~Lldb!Turn(more[j])
  <1>1. \A i \in 1..Len(more) : i \notin 1..Len(out) => ~Lldb!Turn(more[i])  BY DEF Adds
  <1>2. \A i \in 1..Len(out) : i \in 1..Len(more) /\ more[i] = out[i]  BY DEF Adds
  <1>3. Lldb!Settled(out) => Lldb!Settled(more)
    <2> SUFFICES ASSUME Lldb!Settled(out), NEW i \in 1..Len(more) PROVE ~Lldb!Turn(more[i])  BY DEF Lldb!Settled
    <2>1. CASE i \in 1..Len(out)  BY <1>2, <2>1 DEF Lldb!Settled
    <2>2. CASE i \notin 1..Len(out)  BY <1>1, <2>2
    <2> QED BY <2>1, <2>2
  <1>4. ASSUME NEW i \in 1..Len(out), \A j \in 1..Len(out) : j > i => ~Lldb!Turn(out[j]),
               NEW j \in 1..Len(more), j > i
        PROVE  ~Lldb!Turn(more[j])
    <2>1. CASE j \in 1..Len(out)  BY <1>2, <1>4, <2>1
    <2>2. CASE j \notin 1..Len(out)  BY <1>1, <2>2
    <2> QED BY <2>1, <2>2
  <1>5. ASSUME NEW state, Lldb!WillShow(c, out, state) PROVE Lldb!WillShow(d, more, state)
    <2>1. CASE Lldb!Settled(out) /\ Lldb!Shows(c, state)  BY <1>3, <2>1, ShownServed DEF Lldb!WillShow
    <2>2. ASSUME NEW i \in 1..Len(out), Lldb!Turn(out[i]), Lldb!Gives(out[i]) = state,
                 \A j \in 1..Len(out) : j > i => ~Lldb!Turn(out[j])
          PROVE  Lldb!WillShow(d, more, state)
      <3>1. i \in 1..Len(more) /\ Lldb!Turn(more[i]) /\ Lldb!Gives(more[i]) = state  BY <1>2, <2>2
      <3>2. \A j \in 1..Len(more) : j > i => ~Lldb!Turn(more[j])  BY <1>4, <2>2
      <3> QED BY <3>1, <3>2 DEF Lldb!WillShow
    <2> QED BY <1>5, <2>1, <2>2 DEF Lldb!WillShow
  <1> QED BY <1>3, <1>4, <1>5

\* The last message that is written says what is shown.
LEMMA ShownLast ==
  ASSUME NEW d, NEW out, NEW more, NEW said, Adds(out, more, said), Len(said) # 0,
         Lldb!Turn(said[Len(said)])
  PROVE  Lldb!WillShow(d, more, Lldb!Gives(said[Len(said)]))
  <1>1. /\ Len(out) \in Nat /\ Len(said) \in Nat \ {0} /\ Len(more) = Len(out) + Len(said)
        /\ \A j \in 1..Len(said) : Len(out) + j \in 1..Len(more) /\ more[Len(out) + j] = said[j]
    BY DEF Adds
  <1>2. Len(said) \in 1..Len(said)  BY <1>1
  <1>3. Len(more) \in 1..Len(more) /\ more[Len(more)] = said[Len(said)]  BY <1>1, <1>2
  <1>4. \A j \in 1..Len(more) : ~(j > Len(more))  BY <1>1
  <1> DEFINE n == Len(more)
             state == Lldb!Gives(said[Len(said)])
  <1>5. n \in 1..Len(more) /\ Lldb!Turn(more[n]) /\ Lldb!Gives(more[n]) = state /\ \A j \in 1..Len(more) : j > n => ~Lldb!Turn(more[j])
    BY <1>3, <1>4
  <1> HIDE DEF n, state
  <1>6. Lldb!WillShow(d, more, state)  BY <1>5 DEF Lldb!WillShow
  <1> QED BY <1>6 DEF state

\* An event that says the program has stopped, or goes on.
Odd(m) == m.type = "event" /\ m.event \in {"stopped", "continued"}

\* The events that say that it goes on.
LEMMA ContinuedServed ==
  ASSUME NEW c, NEW d, NEW k, Serves(c, d, k), NEW out, NEW more, NEW said, Adds(out, more, said),
         NEW a, Lldb!Follows(c, out, a), NEW i \in 1..Len(out), more[i].type = "event", more[i].event = "continued"
  PROVE  Lldb!Shows(d, "running") /\ \A j \in 1..Len(more) : j < i => ~Lldb!Turn(more[j])
  <1>1. \A l \in 1..Len(out) : l \in 1..Len(more) /\ more[l] = out[l]  BY DEF Adds
  <1>2. Lldb!Shows(c, "running") /\ \A j \in 1..Len(out) : j < i => ~Lldb!Turn(out[j])  BY <1>1 DEF Lldb!Follows
  <1>3. Len(out) \in Nat /\ Len(more) \in Nat  BY DEF Adds
  <1>4. \A j \in 1..Len(more) : j < i => j \in 1..Len(out)  BY <1>3
  <1> QED BY <1>1, <1>2, <1>4, ShownServed

\* Nothing happens to the program, or it is started by the end of the configuration.
LEMMA FollowsPlain ==
  ASSUME NEW c, NEW d, NEW k, Serves(c, d, k), k = 1 => ~Lldb!Resumes(c.wire[1]),
         NEW out, NEW more, NEW said, Adds(out, more, said),
         \A j \in 1..Len(said) : ~Lldb!Turn(said[j]) /\ ~Odd(said[j]),
         NEW a, NEW b, Lldb!Follows(c, out, a), b.launched = a.launched,
         b.target = a.target \/ (a.target = "none" /\ a.launched /\ b.target = "running")
  PROVE  Lldb!Follows(d, more, b)
  <1>1. /\ \A i \in 1..Len(d.wire) : i + k \in 1..Len(c.wire) /\ d.wire[i] = c.wire[i + k]
        /\ \A i \in 1..Len(c.wire) : (i = 1 /\ k = 1) \/ (i - k \in 1..Len(d.wire) /\ c.wire[i] = d.wire[i - k])
        /\ \A i, j \in 1..Len(d.wire) : i + k = j + k => i = j
    BY Served
  <1>2. /\ \A i \in 1..Len(out) : i \in 1..Len(more) /\ more[i] = out[i]
        /\ \A i \in 1..Len(more) : i \notin 1..Len(out) => ~Odd(more[i])
    BY DEF Adds
  <1>3. /\ Lldb!Settled(out) => Lldb!Settled(more)
        /\ \A state : Lldb!WillShow(c, out, state) => Lldb!WillShow(d, more, state)
        /\ \A i \in 1..Len(out) :
             (\A j \in 1..Len(out) : j > i => ~Lldb!Turn(out[j])) => \A j \in 1..Len(more) : j > i => ~Lldb!Turn(more[j])
    BY ShownKept
  <1>4. (\A state : Lldb!Shows(d, state) <=> Lldb!Shows(c, state)) /\ (Lldb!NoResume(c) => Lldb!NoResume(d)) /\ d.stopped = c.stopped
    BY ShownServed
  <1>5. /\ b.target \in {"running", "over"} => Lldb!WillShow(d, more, b.target)
        /\ b.target = "none" /\ b.launched => Lldb!WillShow(d, more, "running")
        /\ b.target # "stopped" => Lldb!NoResume(d)
        /\ d.stopped => Lldb!Shows(d, "stopped") /\ b.target = "stopped" /\ Lldb!Settled(more) /\ Lldb!NoResume(d)
    BY <1>3, <1>4 DEF Lldb!Follows
  <1>6. ASSUME b.target = "stopped"
        PROVE  \/ Lldb!WillShow(d, more, "stopped") /\ Lldb!NoResume(d)
               \/ /\ Lldb!Settled(more) /\ Lldb!Shows(d, "running")
                  /\ \A i, j \in 1..Len(d.wire) : Lldb!Resumes(d.wire[i]) /\ Lldb!Resumes(d.wire[j]) => i = j
                  /\ ~Lldb!NoResume(d)
    <2>1. CASE Lldb!WillShow(c, out, "stopped") /\ Lldb!NoResume(c)  BY <1>3, <1>4, <2>1
    <2>2. CASE /\ Lldb!Settled(out) /\ Lldb!Shows(c, "running")
               /\ \A i, j \in 1..Len(c.wire) : Lldb!Resumes(c.wire[i]) /\ Lldb!Resumes(c.wire[j]) => i = j
               /\ ~Lldb!NoResume(c)
      <3>1. ASSUME NEW i \in 1..Len(d.wire), NEW j \in 1..Len(d.wire), Lldb!Resumes(d.wire[i]), Lldb!Resumes(d.wire[j])
            PROVE  i = j
        <4>1. i + k = j + k  BY <1>1, <2>2, <3>1
        <4> QED BY <1>1, <4>1
      <3>2. ~Lldb!NoResume(d)  BY <1>1, <2>2 DEF Lldb!NoResume
      <3> QED BY <1>3, <1>4, <2>2, <3>1, <3>2
    <2> QED BY <1>6, <2>1, <2>2 DEF Lldb!Follows
  <1>7. ASSUME NEW i \in 1..Len(more), more[i].type = "event", more[i].event = "stopped"
        PROVE  b.target = "stopped" /\ Lldb!NoResume(d) /\ \A j \in 1..Len(more) : j > i => ~Lldb!Turn(more[j])
    <2>1. i \in 1..Len(out) /\ more[i] = out[i]  BY <1>2, <1>7 DEF Odd
    <2>2. a.target = "stopped" /\ Lldb!NoResume(c) /\ \A j \in 1..Len(out) : j > i => ~Lldb!Turn(out[j])
      BY <1>7, <2>1 DEF Lldb!Follows
    <2> QED BY <1>3, <1>4, <2>1, <2>2
  <1>8. ASSUME NEW i \in 1..Len(more), more[i].type = "event", more[i].event = "continued"
        PROVE  Lldb!Shows(d, "running") /\ \A j \in 1..Len(more) : j < i => ~Lldb!Turn(more[j])
    <2>1. i \in 1..Len(out)  BY <1>2, <1>8 DEF Odd
    <2> QED BY <1>8, <2>1, ContinuedServed
  <1> QED BY <1>5, <1>6, <1>7, <1>8 DEF Lldb!Follows

\* Where the messages are, and the events that say it goes on.
LEMMA Written ==
  ASSUME NEW c, NEW d, NEW k, Serves(c, d, k), NEW out, NEW more, NEW said, Adds(out, more, said),
         NEW a, Lldb!Follows(c, out, a), \A j \in 1..Len(said) : ~Odd(said[j])
  PROVE  /\ \A i \in 1..Len(more) : Odd(more[i]) => i \in 1..Len(out) /\ more[i] = out[i]
         /\ \A i \in 1..Len(more) : more[i].type = "event" /\ more[i].event = "continued" =>
              Lldb!Shows(d, "running") /\ \A j \in 1..Len(more) : j < i => ~Lldb!Turn(more[j])
  <1>1. \A i \in 1..Len(more) : Odd(more[i]) => i \in 1..Len(out) /\ more[i] = out[i]  BY DEF Adds
  <1>2. ASSUME NEW i \in 1..Len(more), more[i].type = "event", more[i].event = "continued"
        PROVE  Lldb!Shows(d, "running") /\ \A j \in 1..Len(more) : j < i => ~Lldb!Turn(more[j])
    <2>1. i \in 1..Len(out)  BY <1>1, <1>2 DEF Odd
    <2> QED BY <1>2, <2>1, ContinuedServed
  <1> QED BY <1>1, <1>2

\* An answer about the start of the program.
LEMMA FollowsStarts ==
  ASSUME NEW c, NEW d, NEW k, Serves(c, d, k), NEW out, NEW more, NEW said, Adds(out, more, said),
         \A j \in 1..Len(said) : ~Odd(said[j]),
         NEW a, NEW b, Lldb!Follows(c, out, a), a.target = "none", b.target \in {"none", "running"},
         b.launched \/ b.target = "running" => Lldb!WillShow(d, more, "running")
  PROVE  Lldb!Follows(d, more, b)
  <1>1. /\ \A i \in 1..Len(more) : Odd(more[i]) => i \in 1..Len(out) /\ more[i] = out[i]
        /\ \A i \in 1..Len(more) : more[i].type = "event" /\ more[i].event = "continued" =>
             Lldb!Shows(d, "running") /\ \A j \in 1..Len(more) : j < i => ~Lldb!Turn(more[j])
    BY Written
  <1>2. Lldb!NoResume(c) /\ ~c.stopped  BY DEF Lldb!Follows
  <1>3. Lldb!NoResume(d) /\ d.stopped = c.stopped  BY <1>2, ShownServed
  <1>4. \A i \in 1..Len(more) : ~(more[i].type = "event" /\ more[i].event = "stopped")
    BY <1>1 DEF Lldb!Follows, Odd
  <1> QED BY <1>1, <1>2, <1>3, <1>4 DEF Lldb!Follows

\* The program ends.
LEMMA FollowsEnds ==
  ASSUME NEW c, NEW d, NEW k, Serves(c, d, k), NEW out, NEW more, NEW said, Adds(out, more, said),
         \A j \in 1..Len(said) : ~Odd(said[j]),
         NEW a, NEW b, Lldb!Follows(c, out, a), a.target = "running", b.target = "over", Lldb!WillShow(d, more, "over")
  PROVE  Lldb!Follows(d, more, b)
  <1>1. /\ \A i \in 1..Len(more) : Odd(more[i]) => i \in 1..Len(out) /\ more[i] = out[i]
        /\ \A i \in 1..Len(more) : more[i].type = "event" /\ more[i].event = "continued" =>
             Lldb!Shows(d, "running") /\ \A j \in 1..Len(more) : j < i => ~Lldb!Turn(more[j])
    BY Written
  <1>2. Lldb!NoResume(c) /\ ~c.stopped  BY DEF Lldb!Follows
  <1>3. Lldb!NoResume(d) /\ d.stopped = c.stopped  BY <1>2, ShownServed
  <1>4. \A i \in 1..Len(more) : ~(more[i].type = "event" /\ more[i].event = "stopped")
    BY <1>1 DEF Lldb!Follows, Odd
  <1> QED BY <1>1, <1>2, <1>3, <1>4 DEF Lldb!Follows

\* The program stops.
LEMMA FollowsStops ==
  ASSUME NEW c, NEW d, NEW k, Serves(c, d, k), NEW out, NEW more, NEW said, Adds(out, more, said),
         Len(said) # 0, said[Len(said)].type = "event", said[Len(said)].event = "stopped",
         \A j \in 1..Len(said) : j # Len(said) => ~Odd(said[j]),
         NEW a, NEW b, Lldb!Follows(c, out, a), a.target = "running", b.target = "stopped"
  PROVE  Lldb!Follows(d, more, b)
  <1>1. /\ Len(out) \in Nat /\ Len(said) \in Nat /\ Len(more) = Len(out) + Len(said)
        /\ \A i \in 1..Len(out) : more[i] = out[i]
        /\ \A i \in 1..Len(more) :
             i \in 1..Len(out) \/ (i > Len(out) /\ \E j \in 1..Len(said) : i = Len(out) + j /\ more[i] = said[j])
    BY DEF Adds
  <1>2. Lldb!NoResume(c) /\ ~c.stopped  BY DEF Lldb!Follows
  <1>3. Lldb!NoResume(d) /\ d.stopped = c.stopped  BY <1>2, ShownServed
  <1>4. Lldb!WillShow(d, more, "stopped")
    <2>1. Lldb!Turn(said[Len(said)]) /\ Lldb!Gives(said[Len(said)]) = "stopped"  BY DEF Lldb!Turn, Lldb!Gives, Lldb!IsAnswer
    <2> QED BY <2>1, ShownLast
  <1>5. ASSUME NEW i \in 1..Len(more), Odd(more[i]), i # Len(more) PROVE i \in 1..Len(out)
    <2> SUFFICES ASSUME i \notin 1..Len(out) PROVE FALSE  OBVIOUS
    <2>1. PICK j \in 1..Len(said) : i = Len(out) + j /\ more[i] = said[j]  BY <1>1
    <2>2. j # Len(said)  BY <1>1, <1>5, <2>1
    <2> QED BY <1>5, <2>1, <2>2
  <1>6. more[Len(more)].type = "event" /\ more[Len(more)].event = "stopped"
    <2>1. Len(said) \in 1..Len(said)  BY <1>1
    <2>2. more[Len(out) + Len(said)] = said[Len(said)]  BY <2>1 DEF Adds
    <2> QED BY <1>1, <2>2
  <1>7. ASSUME NEW i \in 1..Len(more), more[i].type = "event", more[i].event = "stopped" PROVE i = Len(more)
    <2> SUFFICES ASSUME i # Len(more) PROVE FALSE  OBVIOUS
    <2>1. i \in 1..Len(out)  BY <1>5, <1>7 DEF Odd
    <2> QED BY <1>1, <1>7, <2>1 DEF Lldb!Follows
  <1>8. ASSUME NEW i \in 1..Len(more), more[i].type = "event", more[i].event = "continued"
        PROVE  Lldb!Shows(d, "running") /\ \A j \in 1..Len(more) : j < i => ~Lldb!Turn(more[j])
    <2>1. i # Len(more)  BY <1>6, <1>8
    <2>2. i \in 1..Len(out)  BY <1>5, <1>8, <2>1 DEF Odd
    <2> QED BY <1>8, <2>2, ContinuedServed
  <1>9. \A j \in 1..Len(more) : ~(j > Len(more))  BY <1>1
  <1>10. \A i \in 1..Len(more) : more[i].type = "event" /\ more[i].event = "stopped" =>
           \A j \in 1..Len(more) : j > i => ~Lldb!Turn(more[j])
    BY <1>7, <1>9
  <1> QED BY <1>2, <1>3, <1>4, <1>8, <1>10 DEF Lldb!Follows

\* The program goes on, asked to, and the adapter may say so.
LEMMA FollowsResumes ==
  ASSUME NEW c, NEW d, Serves(c, d, 1), Lldb!Resumes(c.wire[1]),
         NEW out, NEW more, NEW said, Adds(out, more, said),
         \A j \in 1..Len(said) : ~Lldb!Turn(said[j]) /\ (said[j].type = "event" => said[j].event = "continued"),
         NEW a, NEW b, Lldb!Follows(c, out, a), a.target = "stopped", b.target = "running"
  PROVE  Lldb!Follows(d, more, b)
  <1>1. /\ \A i \in 1..Len(d.wire) : i + 1 \in 1..Len(c.wire) /\ d.wire[i] = c.wire[i + 1] /\ 1 < i + 1
        /\ 1 \in 1..Len(c.wire)
    BY Served
  <1>2. ~Lldb!NoResume(c)  BY <1>1 DEF Lldb!NoResume
  <1>3. /\ Lldb!Settled(out) /\ Lldb!Shows(c, "running")
        /\ \A i, j \in 1..Len(c.wire) : Lldb!Resumes(c.wire[i]) /\ Lldb!Resumes(c.wire[j]) => i = j
    BY <1>2 DEF Lldb!Follows
  <1>4. Lldb!NoResume(d)
    <2> SUFFICES ASSUME NEW i \in 1..Len(d.wire), Lldb!Resumes(d.wire[i]) PROVE FALSE  BY DEF Lldb!NoResume
    <2>1. i + 1 \in 1..Len(c.wire) /\ Lldb!Resumes(c.wire[i + 1]) /\ 1 < i + 1  BY <1>1
    <2>2. i + 1 = 1  BY <1>1, <1>3, <2>1
    <2> QED BY <2>1, <2>2
  <1>5. Lldb!Settled(more) /\ Lldb!WillShow(d, more, "running")
    <2>1. Lldb!Settled(more)  BY <1>3, ShownKept
    <2>2. Lldb!Shows(d, "running")  BY <1>3, ShownServed
    <2> QED BY <2>1, <2>2 DEF Lldb!WillShow
  <1>6. Lldb!Shows(d, "running") /\ d.stopped = FALSE
    <2>1. d.stopped = c.stopped /\ Lldb!Shows(d, "running")  BY <1>3, ShownServed
    <2> QED BY <2>1 DEF Lldb!Shows
  <1>7. \A i \in 1..Len(more) : ~(more[i].type = "event" /\ more[i].event = "stopped")
    <2> SUFFICES ASSUME NEW i \in 1..Len(more), more[i].type = "event", more[i].event = "stopped" PROVE FALSE
      OBVIOUS
    <2>1. Lldb!Turn(more[i])  BY DEF Lldb!Turn
    <2> QED BY <1>5, <2>1 DEF Lldb!Settled
  <1>8. \A i \in 1..Len(more) : ~Lldb!Turn(more[i])  BY <1>5 DEF Lldb!Settled
  <1> QED BY <1>4, <1>5, <1>6, <1>7, <1>8 DEF Lldb!Follows

\* A step of the adapter that keeps the parts.
LEMMA SoundServed ==
  ASSUME NEW c, NEW out, NEW a, NEW leftover, Lldb!Sound(c, out, a, leftover), c.up,
         NEW d, NEW k, Serves(c, d, k), NEW more, NEW said, Adds(out, more, said), Answering(c, k, said),
         \A j \in 1..Len(said) : Lldb!AsMessage(said[j]),
         k = 1 /\ c.wire[1].cmd = "setBreakpoints" =>
           /\ Len(said) = 1 /\ Lldb!IsAnswer(said[1]) /\ said[1].ok = TRUE
           /\ said[1].seq = c.wire[1].seq /\ said[1].body = Lldb!Resolved(c.wire[1].arg.keys),
         NEW b,
         \/ b.bps = a.bps /\ (k = 1 => c.wire[1].cmd # "setBreakpoints")
         \/ /\ k = 1 /\ c.wire[1].cmd = "setBreakpoints"
            /\ b.bps[c.wire[1].arg.file] = c.wire[1].arg.keys
            /\ \A file : file # c.wire[1].arg.file => b.bps[file] = a.bps[file],
         Lldb!Steady(c, out, a) =>
           /\ \/ b.launched = a.launched /\ (~a.launched => b.target = a.target)
              \/ k = 1 /\ c.wire[1].cmd = "launch" /\ b.launched
           /\ Lldb!Follows(d, more, b)
  PROVE  Lldb!Sound(d, more, b, leftover)
  <1>1. Lldb!Typed(d) /\ d.up = c.up /\ d.configured = c.configured  BY DEF Serves
  <1>2. Lldb!Messages(more)
    <2>1. Lldb!IsSequence(more) /\ \A i \in 1..Len(out) : Lldb!AsMessage(out[i])  BY DEF Adds, Lldb!Sound, Lldb!Messages
    <2>2. ASSUME NEW i \in 1..Len(more) PROVE Lldb!AsMessage(more[i])
      <3>1. CASE i \in 1..Len(out)
        <4>1. more[i] = out[i]  BY <3>1 DEF Adds
        <4> QED BY <2>1, <3>1, <4>1
      <3>2. CASE i \notin 1..Len(out)
        <4>1. PICK j \in 1..Len(said) : more[i] = said[j]  BY <3>2 DEF Adds
        <4> QED BY <4>1
      <3> QED BY <3>1, <3>2
    <2> QED BY <2>1, <2>2 DEF Lldb!Messages
  <1>3. ASSUME Lldb!Told(c, a) PROVE Lldb!Told(d, b)  BY <1>3, ToldServed
  <1>4. ASSUME Lldb!Steady(c, out, a) PROVE Lldb!Steady(d, more, b)
    <2>1. Lldb!Matched(d, more)  BY <1>4, MatchedServed DEF Lldb!Steady
    <2>2. Lldb!Started(d, more, b)  BY <1>4, StartedServed DEF Lldb!Steady
    <2> QED BY <1>4, <2>1, <2>2 DEF Lldb!Steady
  <1>5. ASSUME Lldb!Steady(c, out, a), Lldb!Told(c, a), Lldb!Learns(c, out) PROVE Lldb!Learns(d, more)
    <2>1. Lldb!Matched(c, out)  BY <1>5 DEF Lldb!Steady
    <2> QED BY <1>5, <2>1, LearnsServed
  <1> QED BY <1>1, <1>2, <1>3, <1>4, <1>5 DEF Lldb!Sound, Lldb!Fresh

\* Nothing happens to the program, or it is started by the end of the configuration.
LEMMA SoundPlain ==
  ASSUME NEW c, NEW out, NEW a, NEW leftover, Lldb!Sound(c, out, a, leftover), c.up,
         NEW d, NEW k, Serves(c, d, k), NEW more, NEW said, Adds(out, more, said), Answering(c, k, said),
         \A j \in 1..Len(said) : Lldb!AsMessage(said[j]) /\ ~Lldb!Turn(said[j]) /\ ~Odd(said[j]),
         k = 1 => c.wire[1].cmd \notin {"setBreakpoints", "continue", "next"},
         NEW b, b.bps = a.bps, b.launched = a.launched,
         b.target = a.target \/ (a.target = "none" /\ a.launched /\ b.target = "running")
  PROVE  Lldb!Sound(d, more, b, leftover)
  <1>1. k = 1 => ~Lldb!Resumes(c.wire[1])  BY DEF Lldb!Resumes
  <1>2. ASSUME Lldb!Steady(c, out, a) PROVE Lldb!Follows(d, more, b)
    <2>1. Lldb!Follows(c, out, a)  BY <1>2 DEF Lldb!Steady
    <2> QED BY <1>1, <2>1, FollowsPlain
  <1> QED BY <1>2, SoundServed

\* A request has been read.
LEMMA ServesRead ==
  ASSUME NEW c, Lldb!Typed(c), c.up, c.wire # <<>>, NEW o
  PROVE  LET d == [c EXCEPT !.wire = Tail(c.wire), !.output = o] IN
         /\ Serves(c, d, 1) /\ d.output = o
         /\ Head(c.wire) = c.wire[1] /\ Lldb!AsRequest(c.wire[1])
  <1> DEFINE w == Tail(c.wire)
             d == [c EXCEPT !.wire = w, !.output = o]
  <1>1. Lldb!IsSequence(c.wire)  BY DEF Lldb!Typed
  <1>2. /\ Len(c.wire) \in Nat \ {0} /\ Head(c.wire) = c.wire[1]
        /\ Lldb!IsSequence(w) /\ Len(w) = Len(c.wire) - 1
        /\ \A i \in 1..(Len(c.wire) - 1) : w[i] = c.wire[i + 1]
    BY <1>1, Beheaded
  <1> HIDE DEF w
  <1>3. /\ DOMAIN d = Lldb!Fields /\ d.wire = w /\ d.output = o
        /\ d.up = c.up /\ d.pending = c.pending /\ d.seq = c.seq /\ d.bps = c.bps
        /\ d.active = c.active /\ d.stopped = c.stopped /\ d.exited = c.exited
        /\ d.initialized = c.initialized /\ d.launchSent = c.launchSent /\ d.configured = c.configured
        /\ d.thread = c.thread /\ d.threads = c.threads /\ d.watches = c.watches
    BY DEF Lldb!Typed, Lldb!Fields
  <1> HIDE DEF d
  <1>4. 1 \in 1..Len(c.wire) /\ \A i \in 1..Len(w) : i + 1 \in 1..Len(c.wire) /\ w[i] = c.wire[i + 1]  BY <1>2
  <1>5. Lldb!Typed(d)
    <2>1. \A i \in 1..Len(d.wire) : Lldb!AsRequest(d.wire[i]) /\ d.wire[i].seq \in 1..(d.seq - 1)
      BY <1>3, <1>4 DEF Lldb!Typed
    <2> QED BY <1>2, <1>3, <2>1 DEF Lldb!Typed
  <1>6. Serves(c, d, 1)
    <2>1. 1 \in {0, 1} /\ 1 <= Len(c.wire) /\ Len(d.wire) = Len(c.wire) - 1  BY <1>2, <1>3
    <2>2. \A i \in 1..Len(d.wire) : d.wire[i] = c.wire[i + 1]  BY <1>3, <1>4
    <2> QED BY <1>3, <1>5, <2>1, <2>2 DEF Serves
  <1>7. Lldb!AsRequest(c.wire[1])  BY <1>4 DEF Lldb!Typed
  <1> QED BY <1>2, <1>3, <1>6, <1>7 DEF d, w

\* None has.
LEMMA ServesNone ==
  ASSUME NEW c, Lldb!Typed(c), NEW o
  PROVE  LET d == [c EXCEPT !.output = o] IN Serves(c, d, 0) /\ d.output = o
  <1> DEFINE d == [c EXCEPT !.output = o]
  <1>1. /\ DOMAIN d = Lldb!Fields /\ d.wire = c.wire /\ d.output = o
        /\ d.up = c.up /\ d.pending = c.pending /\ d.seq = c.seq /\ d.bps = c.bps
        /\ d.active = c.active /\ d.stopped = c.stopped /\ d.exited = c.exited
        /\ d.initialized = c.initialized /\ d.launchSent = c.launchSent /\ d.configured = c.configured
        /\ d.thread = c.thread /\ d.threads = c.threads /\ d.watches = c.watches
    BY DEF Lldb!Typed, Lldb!Fields
  <1> HIDE DEF d
  <1>2. Lldb!Typed(d)  BY <1>1 DEF Lldb!Typed
  <1>3. 0 \in {0, 1} /\ 0 <= Len(c.wire) /\ Len(d.wire) = Len(c.wire) - 0  BY <1>1 DEF Lldb!Typed, Lldb!IsSequence
  <1>4. \A i \in 1..Len(d.wire) : d.wire[i] = c.wire[i + 0]  BY <1>1, <1>3 DEF Lldb!Typed, Lldb!IsSequence
  <1>5. Serves(c, d, 0)  BY <1>1, <1>2, <1>3, <1>4 DEF Serves
  <1> QED BY <1>1, <1>5 DEF d

----------------------------------------------------------------------------
(* The actions of the adapter *)

\* A request is read.
LEMMA Reading ==
  ASSUME Lldb!IInv, client.up, client.wire # <<>>, NEW m, NEW b, NEW said, Lldb!IsSequence(said), Lldb!Read(m, b, said)
  PROVE  /\ Serves(client, client', 1) /\ Adds(client.output, client'.output, said)
         /\ Head(client.wire) = client.wire[1] /\ Lldb!AsRequest(client.wire[1])
         /\ adapter' = b /\ window' = window
  <1> DEFINE o == client.output \o said
             d == [client EXCEPT !.wire = Tail(client.wire), !.output = o]
  <1>1. Lldb!Typed(client) /\ Lldb!IsSequence(client.output)  BY DEF Lldb!IInv, Lldb!Sound, Lldb!Messages
  <1>2. client' = d /\ adapter' = b /\ window' = window
    <2>1. DOMAIN client = Lldb!Fields  BY <1>1 DEF Lldb!Typed
    <2> QED BY <2>1 DEF Lldb!Read, Lldb!Fields
  <1>3. Adds(client.output, o, said)  BY <1>1, Said
  <1> HIDE DEF o
  <1>4. /\ Serves(client, d, 1) /\ d.output = o
        /\ Head(client.wire) = client.wire[1] /\ Lldb!AsRequest(client.wire[1])
    BY <1>1, ServesRead
  <1> HIDE DEF d
  <1> QED BY <1>2, <1>3, <1>4

\* Messages are written, and nothing is read.
LEMMA Writing ==
  ASSUME Lldb!IInv, NEW said, Lldb!IsSequence(said), client' = [client EXCEPT !.output = client.output \o said]
  PROVE  Serves(client, client', 0) /\ Adds(client.output, client'.output, said)
  <1> DEFINE o == client.output \o said
  <1>1. Lldb!Typed(client) /\ Lldb!IsSequence(client.output)  BY DEF Lldb!IInv, Lldb!Sound, Lldb!Messages
  <1>2. Adds(client.output, o, said)  BY <1>1, Said
  <1> HIDE DEF o
  <1>3. Serves(client, [client EXCEPT !.output = o], 0) /\ [client EXCEPT !.output = o].output = o
    BY <1>1, ServesNone
  <1>4. client' = [client EXCEPT !.output = o]  BY DEF o
  <1> QED BY <1>2, <1>3, <1>4

\* A message may be written as an element at the end.
LEMMA WrittenLast ==
  ASSUME NEW s, NEW x, Lldb!IsSequence(s)
  PROVE  Append(s, x) = s \o <<x>>
  <1> DEFINE T == {s[i] : i \in 1..Len(s)} \cup {x}
  <1>1. s \in Seq(T)
    <2>1. s = [i \in 1..Len(s) |-> s[i]] /\ Len(s) \in Nat  BY DEF Lldb!IsSequence
    <2>2. [i \in 1..Len(s) |-> s[i]] \in [1..Len(s) -> T]  OBVIOUS
    <2> HIDE DEF T
    <2> QED BY <2>1, <2>2
  <1>2. x \in T  OBVIOUS
  <1> HIDE DEF T
  <1> QED BY <1>1, <1>2

\* The invariant after a step of the adapter.
LEMMA Stepped ==
  ASSUME Lldb!IInv, adapter' \in Lldb!AdapterSet, window' = window,
         Lldb!Sound(client', client'.output, adapter', window.leftover)
  PROVE  Lldb!IInv'
  BY DEF Lldb!IInv

\* What an answer and an event are.
LEMMA Answer ==
  ASSUME NEW m, NEW ok \in BOOLEAN, NEW body
  PROVE  LET r == Lldb!Response(m, ok, body) IN
         /\ Lldb!IsAnswer(r) /\ r.type = "response" /\ r.seq = m.seq /\ r.cmd = m.cmd /\ r.ok = ok /\ r.body = body
         /\ ~Odd(r) /\ r.type # "event"
         /\ ok /\ m.cmd # "launch" => ~Lldb!Turn(r)
         /\ m.cmd \notin {"initialize", "launch"} => ~Lldb!Turn(r)
  BY DEF Lldb!Response, Lldb!IsAnswer, Odd, Lldb!Turn

\* The same of an event.
LEMMA Notice ==
  ASSUME NEW name, NEW thread
  PROVE  LET e == Lldb!Event(name, thread) IN
         /\ ~Lldb!IsAnswer(e) /\ e.type = "event" /\ e.event = name /\ e.thread = thread
         /\ name \in {"initialized", "stopped", "continued", "terminated", "exited"}
              /\ (name = "stopped" => thread \in Threads) => Lldb!AsMessage(e)
         /\ Lldb!Turn(e) <=> name \in {"stopped", "terminated", "exited"}
         /\ Odd(e) <=> name \in {"stopped", "continued"}
         /\ name \in {"terminated", "exited"} => Lldb!Gives(e) = "over"
  BY DEF Lldb!Event, Lldb!IsAnswer, Odd, Lldb!Turn, Lldb!Gives, Lldb!AsMessage

\* One message.
LEMMA OneSaid ==
  ASSUME NEW x
  PROVE  Lldb!IsSequence(<<x>>) /\ Len(<<x>>) = 1 /\ <<x>>[1] = x /\ \A j \in 1..Len(<<x>>) : j = 1 /\ <<x>>[j] = x
  BY OneElement

\* An answer to the request that is read, which says nothing of the program.
LEMMA Answered ==
  ASSUME Lldb!IInv, client.up, client.wire # <<>>, NEW m, m = Head(client.wire),
         NEW b, NEW ok \in BOOLEAN, NEW body, Lldb!Read(m, b, <<Lldb!Response(m, ok, body)>>),
         m.cmd \notin {"setBreakpoints", "continue", "next"}, ok => m.cmd # "launch",
         ~ok => m.cmd \notin {"initialize", "launch"}, ok /\ m.cmd = "threads" => body \subseteq Threads,
         b \in Lldb!AdapterSet, b.bps = adapter.bps, b.launched = adapter.launched,
         b.target = adapter.target \/ (adapter.target = "none" /\ adapter.launched /\ b.target = "running")
  PROVE  Lldb!IInv'
  <1> DEFINE r == Lldb!Response(m, ok, body)
             said == <<r>>
  <1>1. /\ Lldb!IsAnswer(r) /\ r.type = "response" /\ r.seq = m.seq /\ r.cmd = m.cmd /\ r.ok = ok /\ r.body = body
        /\ ~Odd(r) /\ ~Lldb!Turn(r)
    BY Answer
  <1>2. Lldb!AsMessage(r)  BY <1>1 DEF Lldb!AsMessage
  <1> HIDE DEF r
  <1>3. Lldb!IsSequence(said) /\ \A j \in 1..Len(said) : j = 1 /\ said[j] = r  BY OneSaid
  <1>4. Lldb!Read(m, b, said)  BY DEF r
  <1> HIDE DEF said
  <1>5. /\ Serves(client, client', 1) /\ Adds(client.output, client'.output, said)
        /\ m = client.wire[1] /\ adapter' = b /\ window' = window
    BY <1>3, <1>4, Reading
  <1>6. Answering(client, 1, said)  BY <1>1, <1>3, <1>5 DEF Answering
  <1>7. Lldb!Sound(client, client.output, adapter, window.leftover)  BY DEF Lldb!IInv
  <1>8. Lldb!Sound(client', client'.output, b, window.leftover)
    BY <1>1, <1>2, <1>3, <1>5, <1>6, <1>7, SoundPlain
  <1> QED BY <1>5, <1>8, Stepped

\* The answers about the stopped program.
LEMMA StepAnswers ==
  ASSUME Lldb!IInv, Lldb!AdapterAnswers
  PROVE  Lldb!IInv'
  <1> DEFINE m == Head(client.wire)
  <1>1. client.up /\ client.wire # <<>> /\ m.cmd \in Lldb!Questions  BY DEF Lldb!AdapterAnswers
  <1>2. m.cmd \notin {"setBreakpoints", "continue", "next", "initialize", "launch"}  BY <1>1 DEF Lldb!Questions
  <1>3. adapter \in Lldb!AdapterSet  BY DEF Lldb!IInv
  <1>4. CASE Lldb!Read(m, adapter, <<Lldb!Response(m, FALSE, <<>>)>>)
    <2>1. FALSE \in BOOLEAN  OBVIOUS
    <2> HIDE DEF m
    <2> QED BY <1>1, <1>2, <1>3, <1>4, <2>1, Answered DEF m
  <1>5. ASSUME NEW body \in Lldb!Answers(m), Lldb!Read(m, adapter, <<Lldb!Response(m, TRUE, body)>>) PROVE Lldb!IInv'
    <2>1. m.cmd = "threads" => body \subseteq Threads
      <3> HIDE DEF m
      <3> QED BY <1>5 DEF Lldb!Answers
    <2>2. TRUE \in BOOLEAN  OBVIOUS
    <2> HIDE DEF m
    <2> QED BY <1>1, <1>2, <1>3, <1>5, <2>1, <2>2, Answered DEF m
  <1> QED BY <1>4, <1>5 DEF Lldb!AdapterAnswers

\* The answers to `initialize` and `launch`.
LEMMA StepStartsUp ==
  ASSUME Lldb!IInv, Lldb!AdapterStartsUp
  PROVE  Lldb!IInv'
  <1> DEFINE m == Head(client.wire)
             c == client
             out == client.output
             a == adapter
  <1>1. client.up /\ client.wire # <<>>  BY DEF Lldb!AdapterStartsUp
  <1>2. adapter \in Lldb!AdapterSet /\ Lldb!Sound(client, client.output, adapter, window.leftover)  BY DEF Lldb!IInv
  <1>3. ASSUME m.cmd = "initialize", Lldb!Read(m, [adapter EXCEPT !.ready = TRUE], <<Lldb!Response(m, TRUE, <<>>)>>)
        PROVE  Lldb!IInv'
    <2> DEFINE b == [adapter EXCEPT !.ready = TRUE]
    <2>1. b \in Lldb!AdapterSet /\ b.bps = adapter.bps /\ b.launched = adapter.launched /\ b.target = adapter.target
      BY <1>2 DEF Lldb!AdapterSet
    <2>2. Lldb!Read(m, b, <<Lldb!Response(m, TRUE, <<>>)>>) /\ TRUE \in BOOLEAN  BY <1>3
    <2> HIDE DEF b, m
    <2> QED BY <1>1, <1>3, <2>1, <2>2, Answered DEF m
  <1>4. ASSUME NEW b, NEW ok \in BOOLEAN, NEW body, Lldb!Read(m, b, <<Lldb!Response(m, ok, body)>>),
               m.cmd \in {"initialize", "launch"}, b \in Lldb!AdapterSet, b.bps = adapter.bps,
               ok => m.cmd = "launch" /\ b.launched /\ b.target \in {"none", "running"}, ~ok => b = adapter
        PROVE  Lldb!IInv'
    <2> DEFINE r == Lldb!Response(m, ok, body)
               said == <<r>>
    <2>1. /\ Lldb!IsAnswer(r) /\ r.type = "response" /\ r.seq = m.seq /\ r.cmd = m.cmd /\ r.ok = ok /\ ~Odd(r)
      BY <1>4, Answer
    <2>2. Lldb!AsMessage(r) /\ Lldb!Turn(r)  BY <1>4, <2>1 DEF Lldb!AsMessage, Lldb!Turn
    <2> HIDE DEF r
    <2>3. Lldb!IsSequence(said) /\ Len(said) = 1 /\ said[1] = r /\ \A j \in 1..Len(said) : j = 1 /\ said[j] = r  BY OneSaid
    <2>4. Lldb!Read(m, b, said)  BY <1>4 DEF r
    <2> HIDE DEF said
    <2>5. /\ Serves(client, client', 1) /\ Adds(client.output, client'.output, said)
          /\ m = client.wire[1] /\ adapter' = b /\ window' = window
      BY <1>1, <2>3, <2>4, Reading
    <2>6. Answering(client, 1, said)  BY <2>1, <2>3, <2>5 DEF Answering
    <2> HIDE DEF m
    <2>7. ASSUME Lldb!Steady(c, out, a)
          PROVE  ~a.launched /\ a.target = "none"
      <3>1. Lldb!Started(c, out, a)  BY <2>7 DEF Lldb!Steady
      <3>2. 1 \in 1..Len(c.wire)  BY <2>5, Served
      <3>3. c.wire[1].cmd \in {"initialize", "launch"}  BY <1>4, <2>5
      <3>4. ~a.launched
        <4>1. CASE c.wire[1].cmd = "launch"  BY <3>1, <3>2, <4>1 DEF Lldb!Started
        <4>2. CASE c.wire[1].cmd = "initialize"  BY <3>1, <3>2, <4>2 DEF Lldb!Started
        <4> QED BY <3>3, <4>1, <4>2
      <3> QED BY <3>1, <3>4 DEF Lldb!Started
    <2>8. ASSUME Lldb!Steady(c, out, a)
          PROVE  Lldb!Follows(client', client'.output, b)
      <3>1. Lldb!Follows(c, out, a)  BY <2>8 DEF Lldb!Steady
      <3>2. b.target \in {"none", "running"}  BY <1>4, <2>7, <2>8
      <3>3. ASSUME b.launched \/ b.target = "running" PROVE Lldb!WillShow(client', client'.output, "running")
        <4>1. ok  BY <1>4, <2>7, <2>8, <3>3
        <4>2. Lldb!Gives(r) = "running"
          <5>1. r.ok = TRUE /\ Lldb!IsAnswer(r)  BY <2>1, <4>1
          <5> QED BY <5>1 DEF Lldb!Gives
        <4>3. said[Len(said)] = r /\ Len(said) # 0 /\ Lldb!Turn(r)  BY <2>2, <2>3
        <4> QED BY <2>5, <4>2, <4>3, ShownLast
      <3>4. \A j \in 1..Len(said) : ~Odd(said[j])  BY <2>1, <2>3
      <3> QED BY <2>5, <2>7, <2>8, <3>1, <3>2, <3>3, <3>4, FollowsStarts
    <2>9. \/ b.launched = a.launched /\ (~a.launched => b.target = a.target)
          \/ 1 = 1 /\ client.wire[1].cmd = "launch" /\ b.launched
      BY <1>4, <2>5
    <2>10. client.wire[1].cmd # "setBreakpoints"  BY <1>4, <2>5
    <2>11. \A j \in 1..Len(said) : Lldb!AsMessage(said[j])  BY <2>2, <2>3
    <2>12. Lldb!Sound(client', client'.output, b, window.leftover)
      BY <1>1, <1>2, <1>4, <2>5, <2>6, <2>8, <2>9, <2>10, <2>11, SoundServed
    <2> QED BY <1>4, <2>5, <2>12, Stepped
  <1>5. ASSUME m.cmd = "launch",
               Lldb!Read(m, [adapter EXCEPT !.launched = TRUE, !.target = IF adapter.told THEN "running" ELSE "none"],
                    <<Lldb!Response(m, TRUE, <<>>)>>)
        PROVE  Lldb!IInv'
    <2> DEFINE b == [adapter EXCEPT !.launched = TRUE, !.target = IF adapter.told THEN "running" ELSE "none"]
    <2>1. b \in Lldb!AdapterSet /\ b.bps = adapter.bps /\ b.launched /\ b.target \in {"none", "running"}
      BY <1>2 DEF Lldb!AdapterSet
    <2>2. Lldb!Read(m, b, <<Lldb!Response(m, TRUE, <<>>)>>) /\ TRUE \in BOOLEAN  BY <1>5
    <2> HIDE DEF b, m
    <2> QED BY <1>4, <1>5, <2>1, <2>2
  <1>6. ASSUME m.cmd \in Failing, Lldb!Read(m, adapter, <<Lldb!Response(m, FALSE, <<>>)>>) PROVE Lldb!IInv'
    <2>1. m.cmd \in {"initialize", "launch"}  BY <1>6, LldbAssumption
    <2>2. FALSE \in BOOLEAN  OBVIOUS
    <2> HIDE DEF m
    <2> QED BY <1>2, <1>4, <1>6, <2>1, <2>2
  <1> QED BY <1>3, <1>5, <1>6 DEF Lldb!AdapterStartsUp

\* The event that says the adapter takes breakpoints.
LEMMA StepAnnounces ==
  ASSUME Lldb!IInv, Lldb!AdapterAnnounces
  PROVE  Lldb!IInv'
  <1> DEFINE e == Lldb!Event("initialized", 0)
             said == <<e>>
             b == [adapter EXCEPT !.announced = TRUE]
  <1>1. /\ adapter \in Lldb!AdapterSet /\ Lldb!Sound(client, client.output, adapter, window.leftover)
        /\ Lldb!IsSequence(client.output) /\ Lldb!Typed(client)
    BY DEF Lldb!IInv, Lldb!Sound, Lldb!Messages
  <1>2. Lldb!AsMessage(e) /\ ~Lldb!Turn(e) /\ ~Odd(e) /\ ~Lldb!IsAnswer(e)  BY Notice
  <1>3. client.up /\ adapter' = b /\ window' = window /\ client' = [client EXCEPT !.output = client.output \o said]
    <2>1. Append(client.output, e) = client.output \o said  BY <1>1, WrittenLast
    <2>2. DOMAIN client = Lldb!Fields  BY <1>1 DEF Lldb!Typed
    <2> HIDE DEF e
    <2> QED BY <2>1, <2>2 DEF Lldb!AdapterAnnounces, e, Lldb!Fields
  <1> HIDE DEF e
  <1>4. Lldb!IsSequence(said) /\ \A j \in 1..Len(said) : j = 1 /\ said[j] = e  BY OneSaid
  <1> HIDE DEF said
  <1>5. Serves(client, client', 0) /\ Adds(client.output, client'.output, said)  BY <1>3, <1>4, Writing
  <1>6. Answering(client, 0, said)  BY <1>2, <1>4 DEF Answering
  <1>7. b \in Lldb!AdapterSet /\ b.bps = adapter.bps /\ b.launched = adapter.launched /\ b.target = adapter.target
    BY <1>1 DEF Lldb!AdapterSet
  <1> HIDE DEF b
  <1>8. Lldb!Sound(client', client'.output, b, window.leftover)
    BY <1>1, <1>2, <1>3, <1>4, <1>5, <1>6, <1>7, SoundPlain
  <1> QED BY <1>3, <1>7, <1>8, Stepped

\* The answers about breakpoints, and to the end of the configuration.
LEMMA StepConfigured ==
  ASSUME Lldb!IInv, Lldb!AdapterConfigured
  PROVE  Lldb!IInv'
  <1> DEFINE m == Head(client.wire)
             c == client
             out == client.output
             a == adapter
  <1>1. client.up /\ client.wire # <<>>  BY DEF Lldb!AdapterConfigured
  <1>2. adapter \in Lldb!AdapterSet /\ Lldb!Sound(client, client.output, adapter, window.leftover)  BY DEF Lldb!IInv
  <1>3. ASSUME m.cmd = "setBreakpoints", m.arg.file \in Lldb!Files,
               Lldb!Read(m, [adapter EXCEPT !.bps[m.arg.file] = m.arg.keys],
                    <<Lldb!Response(m, TRUE, Lldb!Resolved(m.arg.keys))>>)
        PROVE  Lldb!IInv'
    <2> DEFINE b == [adapter EXCEPT !.bps[m.arg.file] = m.arg.keys]
               answer == Lldb!Resolved(m.arg.keys)
               r == Lldb!Response(m, TRUE, answer)
               said == <<r>>
    <2>1. /\ Lldb!IsAnswer(r) /\ r.type = "response" /\ r.seq = m.seq /\ r.cmd = m.cmd /\ r.ok = TRUE /\ r.body = answer
          /\ ~Odd(r) /\ ~Lldb!Turn(r)
      <3> HIDE DEF m, answer
      <3>1. TRUE \in BOOLEAN /\ m.cmd \notin {"initialize", "launch"}  BY <1>3
      <3> QED BY <3>1 DEF Lldb!Response, Lldb!IsAnswer, Odd, Lldb!Turn
    <2> HIDE DEF r
    <2>2. Lldb!IsSequence(said) /\ Len(said) = 1 /\ said[1] = r /\ \A j \in 1..Len(said) : j = 1 /\ said[j] = r  BY OneSaid
    <2>3. Lldb!Read(m, b, said)  BY <1>3 DEF r
    <2> HIDE DEF said, b
    <2>4. /\ Serves(client, client', 1) /\ Adds(client.output, client'.output, said)
          /\ m = client.wire[1] /\ Lldb!AsRequest(client.wire[1]) /\ adapter' = b /\ window' = window
      BY <1>1, <2>2, <2>3, Reading
    <2>5. m.arg.keys \subseteq Keys  BY <1>3, <2>4 DEF Lldb!AsRequest
    <2>6. Lldb!IsSequence(answer) /\ \A i \in 1..Len(answer) : answer[i] \in BOOLEAN
      <3> DEFINE keys == m.arg.keys
                 n == Cardinality(keys)
                 f == [i \in 1..n |-> \E key \in keys \cap Resolvable : Lldb!Place(key, keys) = i]
      <3>1. answer = f  BY SameLibrary DEF Lldb!Resolved
      <3>2. IsFiniteSet(Keys)  BY LldbAssumption, SameLibrary
      <3>3. IsFiniteSet(keys)  BY <2>5, <3>2, FS_Subset
      <3>4. n \in Nat  BY <3>3, FS_CardinalityType
      <3> HIDE DEF n
      <3>5. f = [i \in 1..n |-> f[i]]  OBVIOUS
      <3>6. \A i \in 1..n : f[i] \in BOOLEAN  OBVIOUS
      <3> HIDE DEF f
      <3>7. Lldb!IsSequence(f) /\ Len(f) = n  BY <3>4, <3>5, ListOf
      <3> QED BY <3>1, <3>6, <3>7
    <2>7. Lldb!AsMessage(r)  BY <1>3, <2>1, <2>6 DEF Lldb!AsMessage
    <2> HIDE DEF answer
    <2>8. b \in Lldb!AdapterSet /\ b.launched = adapter.launched /\ b.target = adapter.target
          /\ b.bps[m.arg.file] = m.arg.keys /\ \A file : file # m.arg.file => b.bps[file] = adapter.bps[file]
      <3> DEFINE named == m.arg.file
                 keys == m.arg.keys
      <3>1. named \in Lldb!Files /\ keys \in SUBSET Keys  BY <1>3, <2>5
      <3>2. b = [adapter EXCEPT !.bps[named] = keys]  BY DEF b
      <3> HIDE DEF named, keys
      <3>3. DOMAIN adapter.bps = Lldb!Files  BY <1>2 DEF Lldb!AdapterSet
      <3>4. b.bps = [adapter.bps EXCEPT ![named] = keys]  BY <1>2, <3>2 DEF Lldb!AdapterSet
      <3>5. b.bps \in [Lldb!Files -> SUBSET Keys]  BY <1>2, <3>1, <3>4 DEF Lldb!AdapterSet
      <3>6. b \in Lldb!AdapterSet  BY <1>2, <3>1, <3>2 DEF Lldb!AdapterSet
      <3>7. b.launched = adapter.launched /\ b.target = adapter.target  BY <1>2, <3>2 DEF Lldb!AdapterSet
      <3>8. b.bps[named] = keys /\ \A file : file # named => b.bps[file] = adapter.bps[file]
        BY <1>2, <3>1, <3>3, <3>4 DEF Lldb!AdapterSet
      <3> QED BY <3>6, <3>7, <3>8 DEF named, keys
    <2>9. Answering(client, 1, said)  BY <2>1, <2>2, <2>4 DEF Answering
    <2>10. ASSUME Lldb!Steady(c, out, a) PROVE Lldb!Follows(client', client'.output, b)
      <3>1. Lldb!Follows(c, out, a)  BY <2>10 DEF Lldb!Steady
      <3>2. ~Lldb!Resumes(c.wire[1])  BY <1>3, <2>4 DEF Lldb!Resumes
      <3>3. \A j \in 1..Len(said) : ~Lldb!Turn(said[j]) /\ ~Odd(said[j])  BY <2>1, <2>2
      <3> QED BY <2>4, <2>8, <3>1, <3>2, <3>3, FollowsPlain
    <2>11. /\ 1 = 1 /\ client.wire[1].cmd = "setBreakpoints"
           /\ b.bps[client.wire[1].arg.file] = client.wire[1].arg.keys
           /\ \A file : file # client.wire[1].arg.file => b.bps[file] = adapter.bps[file]
      BY <1>3, <2>4, <2>8
    <2>12. \A j \in 1..Len(said) : Lldb!AsMessage(said[j])  BY <2>2, <2>7
    <2>13. /\ Len(said) = 1 /\ Lldb!IsAnswer(said[1]) /\ said[1].ok = TRUE
           /\ said[1].seq = client.wire[1].seq /\ said[1].body = Lldb!Resolved(client.wire[1].arg.keys)
      BY <2>1, <2>2, <2>4 DEF answer
    <2>14. b.launched = a.launched /\ (~a.launched => b.target = a.target)  BY <2>8
    <2> HIDE DEF m
    <2>15. Lldb!Sound(client', client'.output, b, window.leftover)
      BY <1>1, <1>2, <2>4, <2>9, <2>10, <2>11, <2>12, <2>13, <2>14, SoundServed
    <2> QED BY <2>4, <2>8, <2>15, Stepped
  <1>4. ASSUME m.cmd = "configurationDone",
               Lldb!Read(m, [adapter EXCEPT !.told = TRUE,
                          !.target = IF adapter.launched /\ @ = "none" THEN "running" ELSE @],
                    <<Lldb!Response(m, TRUE, <<>>)>>)
        PROVE  Lldb!IInv'
    <2> DEFINE b == [adapter EXCEPT !.told = TRUE,
                       !.target = IF adapter.launched /\ @ = "none" THEN "running" ELSE @]
    <2>1. /\ b \in Lldb!AdapterSet /\ b.bps = adapter.bps /\ b.launched = adapter.launched
          /\ b.target = adapter.target \/ (adapter.target = "none" /\ adapter.launched /\ b.target = "running")
      BY <1>2 DEF Lldb!AdapterSet
    <2>2. Lldb!Read(m, b, <<Lldb!Response(m, TRUE, <<>>)>>) /\ TRUE \in BOOLEAN  BY <1>4
    <2> HIDE DEF b, m
    <2> QED BY <1>1, <1>4, <2>1, <2>2, Answered DEF m
  <1> QED BY <1>3, <1>4 DEF Lldb!AdapterConfigured

\* Several messages, of which none but the first is an answer.
LEMMA SaidMore ==
  ASSUME NEW r, NEW rest, Lldb!IsSequence(rest)
  PROVE  /\ Lldb!IsSequence(<<r>> \o rest) /\ Len(<<r>> \o rest) = 1 + Len(rest) /\ Len(rest) \in Nat
         /\ (<<r>> \o rest)[1] = r
         /\ \A j \in 1..Len(rest) : (<<r>> \o rest)[1 + j] = rest[j]
         /\ \A j \in 1..(1 + Len(rest)) :
              \/ j = 1 /\ (<<r>> \o rest)[j] = r
              \/ j # 1 /\ j - 1 \in 1..Len(rest) /\ (<<r>> \o rest)[j] = rest[j - 1]
  <1> DEFINE one == <<r>>
             s == one \o rest
  <1>1. Lldb!IsSequence(one) /\ Len(one) = 1 /\ one[1] = r  BY OneElement
  <1> HIDE DEF one
  <1>2. /\ Lldb!IsSequence(s) /\ Len(s) = 1 + Len(rest) /\ Len(rest) \in Nat
        /\ \A i \in 1..1 : s[i] = one[i]
        /\ \A j \in 1..Len(rest) : s[1 + j] = rest[j]
    <2>1. Lldb!IsSequence(s)  BY <1>1, JoinedUp
    <2>2. Len(s) = Len(one) + Len(rest) /\ Len(rest) \in Nat  BY <1>1, JoinedUp
    <2>3. \A i \in 1..Len(one) : s[i] = one[i]  BY <1>1, JoinedUp
    <2>4. \A j \in 1..Len(rest) : s[Len(one) + j] = rest[j]
      <3> HIDE DEF s
      <3> SUFFICES ASSUME NEW j \in 1..Len(rest) PROVE (one \o rest)[Len(one) + j] = rest[j]  BY DEF s
      <3> QED BY <1>1, InSecond
    <2> HIDE DEF s
    <2> QED BY <1>1, <2>1, <2>2, <2>3, <2>4
  <1> HIDE DEF s
  <1>3. 1 \in 1..1  OBVIOUS
  <1>4. s[1] = r  BY <1>1, <1>2, <1>3
  <1>5. \A j \in 1..(1 + Len(rest)) : j = 1 \/ (j # 1 /\ j - 1 \in 1..Len(rest) /\ 1 + (j - 1) = j)  BY <1>2
  <1>6. \A j \in 1..(1 + Len(rest)) : (j = 1 /\ s[j] = r) \/ (j # 1 /\ j - 1 \in 1..Len(rest) /\ s[j] = rest[j - 1])
    <2> TAKE j \in 1..(1 + Len(rest))
    <2>1. CASE j = 1  BY <1>4, <2>1
    <2>2. CASE j # 1 /\ j - 1 \in 1..Len(rest) /\ 1 + (j - 1) = j
      <3>1. s[1 + (j - 1)] = rest[j - 1]  BY <1>2, <2>2
      <3> QED BY <2>2, <3>1
    <2> QED BY <1>5, <2>1, <2>2
  <1> QED BY <1>2, <1>4, <1>6 DEF s, one

\* The answers to a request to go on.
LEMMA StepResumes ==
  ASSUME Lldb!IInv, client.up, client.wire # <<>>, NEW m, m = Head(client.wire), m.cmd \in {"continue", "next"}
  PROVE  /\ adapter.target = "stopped" =>
              \A told \in {<<>>, <<Lldb!Event("continued", 0)>>} :
                Lldb!Read(m, [adapter EXCEPT !.target = "running"], <<Lldb!Response(m, TRUE, <<>>)>> \o told) => Lldb!IInv'
         /\ adapter.target # "stopped" => (Lldb!Read(m, adapter, <<Lldb!Response(m, FALSE, <<>>)>>) => Lldb!IInv')
  <1> DEFINE c == client
             out == client.output
             a == adapter
  <1>1. adapter \in Lldb!AdapterSet /\ Lldb!Sound(client, client.output, adapter, window.leftover)  BY DEF Lldb!IInv
  <1>2. ASSUME NEW b, NEW r, NEW rest, Lldb!IsSequence(rest), Lldb!Read(m, b, <<r>> \o rest),
               b \in Lldb!AdapterSet, b.bps = adapter.bps, b.launched = adapter.launched,
               Lldb!IsAnswer(r), r.seq = m.seq, r.cmd = m.cmd, Lldb!AsMessage(r), ~Lldb!Turn(r), r.type # "event",
               \A j \in 1..Len(rest) : /\ Lldb!AsMessage(rest[j]) /\ ~Lldb!IsAnswer(rest[j]) /\ ~Lldb!Turn(rest[j])
                                       /\ rest[j].event = "continued",
               adapter.target = "stopped" => b.target = "running"
        PROVE  Lldb!IInv'
    <2> DEFINE said == <<r>> \o rest
    <2>1. /\ Lldb!IsSequence(said) /\ Len(said) = 1 + Len(rest) /\ Len(rest) \in Nat
          /\ \A j \in 1..(1 + Len(rest)) :
               (j = 1 /\ said[j] = r) \/ (j # 1 /\ j - 1 \in 1..Len(rest) /\ said[j] = rest[j - 1])
      BY <1>2, SaidMore
    <2>2. Lldb!Read(m, b, said)  BY <1>2
    <2> HIDE DEF said
    <2>3. /\ Serves(client, client', 1) /\ Adds(client.output, client'.output, said)
          /\ m = client.wire[1] /\ Lldb!AsRequest(client.wire[1]) /\ adapter' = b /\ window' = window
      BY <2>1, <2>2, Reading
    <2>4. \A j \in 1..Len(said) :
            /\ Lldb!AsMessage(said[j]) /\ ~Lldb!Turn(said[j])
            /\ said[j].type = "event" => said[j].event = "continued"
      BY <1>2, <2>1
    <2>5. \A j \in 1..Len(said) : Lldb!IsAnswer(said[j]) => j = 1 /\ said[j] = r  BY <1>2, <2>1
    <2>6. Answering(client, 1, said)  BY <1>2, <2>3, <2>5 DEF Answering
    <2>7. ASSUME Lldb!Steady(c, out, a)
          PROVE  /\ \/ b.launched = a.launched /\ (~a.launched => b.target = a.target)
                    \/ 1 = 1 /\ client.wire[1].cmd = "launch" /\ b.launched
                 /\ Lldb!Follows(client', client'.output, b)
      <3>1. Lldb!Follows(c, out, a) /\ Lldb!Started(c, out, a)  BY <2>7 DEF Lldb!Steady
      <3>2. 1 \in 1..Len(c.wire) /\ Lldb!Resumes(c.wire[1])  BY <2>3, Served DEF Lldb!Resumes
      <3>3. a.target = "stopped"
        <4>1. ~Lldb!NoResume(c)  BY <3>2 DEF Lldb!NoResume
        <4> QED BY <3>1, <4>1 DEF Lldb!Follows
      <3>4. a.launched  BY <3>1, <3>3 DEF Lldb!Started
      <3>5. Lldb!Follows(client', client'.output, b)
        BY <1>2, <2>3, <2>4, <3>1, <3>2, <3>3, FollowsResumes
      <3> QED BY <1>2, <3>4, <3>5
    <2>8. client.wire[1].cmd # "setBreakpoints"  BY <2>3
    <2>9. \A j \in 1..Len(said) : Lldb!AsMessage(said[j])  BY <2>4
    <2>10. Lldb!Sound(client', client'.output, b, window.leftover)
      BY <1>1, <1>2, <2>3, <2>6, <2>7, <2>8, <2>9, SoundServed
    <2> QED BY <1>2, <2>3, <2>10, Stepped
  <1>4. ASSUME NEW told \in {<<>>, <<Lldb!Event("continued", 0)>>}, adapter.target = "stopped",
               Lldb!Read(m, [adapter EXCEPT !.target = "running"], <<Lldb!Response(m, TRUE, <<>>)>> \o told)
        PROVE  Lldb!IInv'
    <2> DEFINE b == [adapter EXCEPT !.target = "running"]
               r == Lldb!Response(m, TRUE, <<>>)
               e == Lldb!Event("continued", 0)
    <2>1. b \in Lldb!AdapterSet /\ b.bps = adapter.bps /\ b.launched = adapter.launched /\ b.target = "running"
      BY <1>1 DEF Lldb!AdapterSet
    <2>2. Lldb!IsAnswer(r) /\ r.seq = m.seq /\ r.cmd = m.cmd /\ Lldb!AsMessage(r) /\ ~Lldb!Turn(r) /\ r.type # "event"
      BY DEF Lldb!Response, Lldb!IsAnswer, Lldb!Turn, Lldb!AsMessage
    <2>3. Lldb!AsMessage(e) /\ ~Lldb!IsAnswer(e) /\ ~Lldb!Turn(e) /\ e.event = "continued"  BY Notice
    <2> HIDE DEF e
    <2>4. Lldb!IsSequence(told) /\ \A j \in 1..Len(told) : told[j] = e
      <3>1. CASE told = <<>>  BY <3>1, Nothing
      <3>2. CASE told = <<e>>  BY <3>2, OneSaid
      <3> QED BY <1>4, <3>1, <3>2 DEF e
    <2> HIDE DEF b, r
    <2>5. Lldb!Read(m, b, <<r>> \o told)  BY <1>4 DEF b, r
    <2> QED BY <1>2, <2>1, <2>2, <2>3, <2>4, <2>5
  <1>5. ASSUME adapter.target # "stopped", Lldb!Read(m, adapter, <<Lldb!Response(m, FALSE, <<>>)>>) PROVE Lldb!IInv'
    <2> DEFINE r == Lldb!Response(m, FALSE, <<>>)
    <2>1. Lldb!IsAnswer(r) /\ r.seq = m.seq /\ r.cmd = m.cmd /\ Lldb!AsMessage(r) /\ ~Lldb!Turn(r) /\ r.type # "event"
      BY DEF Lldb!Response, Lldb!IsAnswer, Lldb!Turn, Lldb!AsMessage
    <2> HIDE DEF r
    <2>2. PICK rest : rest = <<>>  OBVIOUS
    <2>3. Lldb!IsSequence(rest) /\ Len(rest) = 0  BY <2>2, Nothing
    <2>4. <<r>> \o rest = <<r>>  BY <2>2
    <2>5. Lldb!Read(m, adapter, <<r>> \o rest)  BY <1>5, <2>4 DEF r
    <2>6. \A j \in 1..Len(rest) : Lldb!AsMessage(rest[j]) /\ ~Lldb!IsAnswer(rest[j]) /\ ~Lldb!Turn(rest[j])
                                  /\ rest[j].event = "continued"
      BY <2>3
    <2> QED BY <1>1, <1>2, <1>5, <2>1, <2>3, <2>5, <2>6
  <1> QED BY <1>4, <1>5

\* The program is stopped: asked to, or of itself.
LEMMA StepStops ==
  ASSUME Lldb!IInv, client.up, adapter.target = "running", NEW k \in {0, 1}, k = 1 => client.wire # <<>>,
         NEW said, NEW t \in Threads, Lldb!IsSequence(said), Len(said) # 0, Len(said) \in Nat,
         said[Len(said)] = Lldb!Event("stopped", t),
         \A j \in 1..Len(said) : j = Len(said) \/ (k = 1 /\ j = 1 /\ said[j] = Lldb!Response(client.wire[1], TRUE, <<>>)),
         Serves(client, client', k), Adds(client.output, client'.output, said),
         k = 1 => client.wire[1].cmd = "pause",
         adapter' = [adapter EXCEPT !.target = "stopped", !.stop = @ + 1], window' = window
  PROVE  Lldb!IInv'
  <1> DEFINE c == client
             out == client.output
             a == adapter
             b == [adapter EXCEPT !.target = "stopped", !.stop = @ + 1]
             e == Lldb!Event("stopped", t)
             r == Lldb!Response(client.wire[1], TRUE, <<>>)
  <1>1. adapter \in Lldb!AdapterSet /\ Lldb!Sound(client, client.output, adapter, window.leftover)  BY DEF Lldb!IInv
  <1>2. b \in Lldb!AdapterSet /\ b.bps = adapter.bps /\ b.launched = adapter.launched /\ b.target = "stopped"
    <2> DEFINE next == adapter.stop + 1
    <2>1. next \in Nat  BY <1>1 DEF Lldb!AdapterSet
    <2>2. b = [adapter EXCEPT !.target = "stopped", !.stop = next]  BY <1>1 DEF Lldb!AdapterSet
    <2> HIDE DEF next, b
    <2>3. "stopped" \in {"none", "running", "stopped", "over"}  OBVIOUS
    <2> QED BY <1>1, <2>1, <2>2, <2>3 DEF Lldb!AdapterSet
  <1>3. adapter' = b  OBVIOUS
  <1>4. Lldb!AsMessage(e) /\ ~Lldb!IsAnswer(e) /\ e.type = "event" /\ e.event = "stopped"  BY Notice
  <1>5. k = 1 => /\ Lldb!IsAnswer(r) /\ r.seq = client.wire[1].seq /\ r.cmd = client.wire[1].cmd /\ Lldb!AsMessage(r)
                 /\ ~Odd(r)
    BY DEF Lldb!Response, Lldb!IsAnswer, Lldb!AsMessage, Odd
  <1> HIDE DEF b, e, r
  <1>6. said[Len(said)] = e /\ \A j \in 1..Len(said) : j = Len(said) \/ (k = 1 /\ j = 1 /\ said[j] = r)
    BY DEF e, r
  <1>7. \A j \in 1..Len(said) : Lldb!AsMessage(said[j])  BY <1>4, <1>5, <1>6
  <1>8. Answering(client, k, said)  BY <1>4, <1>5, <1>6 DEF Answering
  <1>9. \A j \in 1..Len(said) : j # Len(said) => ~Odd(said[j])  BY <1>5, <1>6
  <1>10. ASSUME Lldb!Steady(c, out, a)
         PROVE  /\ \/ b.launched = a.launched /\ (~a.launched => b.target = a.target)
                   \/ k = 1 /\ client.wire[1].cmd = "launch" /\ b.launched
                /\ Lldb!Follows(client', client'.output, b)
    <2>1. Lldb!Follows(c, out, a) /\ Lldb!Started(c, out, a)  BY <1>10 DEF Lldb!Steady
    <2>2. a.launched  BY <2>1 DEF Lldb!Started
    <2>3. said[Len(said)].type = "event" /\ said[Len(said)].event = "stopped"  BY <1>4, <1>6
    <2>4. Lldb!Follows(client', client'.output, b)  BY <1>2, <1>9, <2>1, <2>3, FollowsStops
    <2> QED BY <1>2, <2>2, <2>4
  <1>11. k = 1 => client.wire[1].cmd # "setBreakpoints"  OBVIOUS
  <1>12. Lldb!Sound(client', client'.output, b, window.leftover)
    BY <1>1, <1>2, <1>7, <1>8, <1>10, <1>11, SoundServed
  <1> QED BY <1>2, <1>3, <1>12, Stepped

\* The answers to the requests that control the program.
LEMMA StepControls ==
  ASSUME Lldb!IInv, Lldb!AdapterControls
  PROVE  Lldb!IInv'
  <1> DEFINE m == Head(client.wire)
  <1>1. client.up /\ client.wire # <<>>  BY DEF Lldb!AdapterControls
  <1>2. adapter \in Lldb!AdapterSet /\ Lldb!Sound(client, client.output, adapter, window.leftover)  BY DEF Lldb!IInv
  <1>3. ASSUME m.cmd \in {"continue", "next"}, adapter.target = "stopped",
               NEW told \in {<<>>, <<Lldb!Event("continued", 0)>>},
               Lldb!Read(m, [adapter EXCEPT !.target = "running"], <<Lldb!Response(m, TRUE, <<>>)>> \o told)
        PROVE  Lldb!IInv'
    BY <1>1, <1>3, StepResumes
  <1>4. ASSUME m.cmd \in {"continue", "next"}, adapter.target # "stopped",
               Lldb!Read(m, adapter, <<Lldb!Response(m, FALSE, <<>>)>>)
        PROVE  Lldb!IInv'
    BY <1>1, <1>4, StepResumes
  <1>5. ASSUME m.cmd = "setExpression",
               Lldb!Read(m, [adapter EXCEPT !.writes = @ + 1], <<Lldb!Response(m, TRUE, <<>>)>>)
        PROVE  Lldb!IInv'
    <2> DEFINE b == [adapter EXCEPT !.writes = @ + 1]
    <2>1. b \in Lldb!AdapterSet /\ b.bps = adapter.bps /\ b.launched = adapter.launched /\ b.target = adapter.target
      BY <1>2 DEF Lldb!AdapterSet
    <2>2. Lldb!Read(m, b, <<Lldb!Response(m, TRUE, <<>>)>>) /\ TRUE \in BOOLEAN  BY <1>5
    <2> HIDE DEF b, m
    <2> QED BY <1>1, <1>5, <2>1, <2>2, Answered DEF m
  <1>6. ASSUME m.cmd = "setExpression", Lldb!Read(m, adapter, <<Lldb!Response(m, FALSE, <<>>)>>)
        PROVE  Lldb!IInv'
    <2>1. FALSE \in BOOLEAN  OBVIOUS
    <2> HIDE DEF m
    <2> QED BY <1>1, <1>2, <1>6, <2>1, Answered DEF m
  <1>7. ASSUME m.cmd = "pause", Lldb!Read(m, adapter, <<Lldb!Response(m, TRUE, <<>>)>>)
        PROVE  Lldb!IInv'
    <2>1. TRUE \in BOOLEAN  OBVIOUS
    <2> HIDE DEF m
    <2> QED BY <1>1, <1>2, <1>7, <2>1, Answered DEF m
  <1>8. ASSUME m.cmd = "pause", adapter.target = "running", NEW t \in Threads,
               Lldb!Read(m, [adapter EXCEPT !.target = "stopped", !.stop = @ + 1],
                    <<Lldb!Response(m, TRUE, <<>>), Lldb!Event("stopped", t)>>)
        PROVE  Lldb!IInv'
    <2> DEFINE e == Lldb!Event("stopped", t)
               r == Lldb!Response(m, TRUE, <<>>)
               said == <<r, e>>
               b == [adapter EXCEPT !.target = "stopped", !.stop = @ + 1]
    <2>1. Lldb!IsSequence(said) /\ Len(said) = 2 /\ said[1] = r /\ said[2] = e
      <3> HIDE DEF e, r
      <3> QED BY TwoElements
    <2>2. Lldb!Read(m, b, said)  BY <1>8
    <2> HIDE DEF e, r, said, b
    <2>3. /\ Serves(client, client', 1) /\ Adds(client.output, client'.output, said)
          /\ m = client.wire[1] /\ adapter' = b /\ window' = window
      BY <1>1, <2>1, <2>2, Reading
    <2>4. \A j \in 1..Len(said) : j = Len(said) \/ (1 = 1 /\ j = 1 /\ said[j] = Lldb!Response(client.wire[1], TRUE, <<>>))
      <3>1. Lldb!Response(client.wire[1], TRUE, <<>>) = r  BY <2>3 DEF r
      <3>2. \A j \in 1..Len(said) : j = Len(said) \/ j = 1  BY <2>1
      <3> QED BY <2>1, <3>1, <3>2
    <2>5. said[Len(said)] = Lldb!Event("stopped", t) /\ Len(said) # 0 /\ Len(said) \in Nat  BY <2>1 DEF e
    <2>6. client.wire[1].cmd = "pause"  BY <1>8, <2>3
    <2>7. adapter' = [adapter EXCEPT !.target = "stopped", !.stop = @ + 1]  BY <2>3 DEF b
    <2> DEFINE k == 1
    <2>8. k \in {0, 1} /\ Serves(client, client', k)
          /\ \A j \in 1..Len(said) : j = Len(said) \/ (k = 1 /\ j = 1 /\ said[j] = Lldb!Response(client.wire[1], TRUE, <<>>))
      BY <2>3, <2>4
    <2> HIDE DEF k
    <2> QED BY <1>1, <1>8, <2>1, <2>3, <2>5, <2>6, <2>7, <2>8, StepStops
  <1> QED BY <1>3, <1>4, <1>5, <1>6, <1>7, <1>8 DEF Lldb!AdapterControls

\* The program stops of itself.
LEMMA StepTargetStops ==
  ASSUME Lldb!IInv, Lldb!TargetStops
  PROVE  Lldb!IInv'
  <1>1. client.up /\ adapter.target = "running"  BY DEF Lldb!TargetStops
  <1>2. PICK t \in Threads : client' = [client EXCEPT !.output = Append(client.output, Lldb!Event("stopped", t))]
    <2>1. DOMAIN client = Lldb!Fields  BY DEF Lldb!IInv, Lldb!Sound, Lldb!Typed
    <2> QED BY <2>1 DEF Lldb!TargetStops, Lldb!Fields
  <1> DEFINE e == Lldb!Event("stopped", t)
             said == <<e>>
             k == 0
  <1>3. client' = [client EXCEPT !.output = client.output \o said]
    <2>1. Lldb!IsSequence(client.output)  BY DEF Lldb!IInv, Lldb!Sound, Lldb!Messages
    <2> HIDE DEF e
    <2>2. Append(client.output, e) = client.output \o said  BY <2>1, WrittenLast
    <2> QED BY <1>2, <2>2 DEF e
  <1> HIDE DEF e
  <1>4. Lldb!IsSequence(said) /\ Len(said) = 1 /\ said[1] = e /\ \A j \in 1..Len(said) : j = 1  BY OneSaid
  <1> HIDE DEF said
  <1>5. Serves(client, client', 0) /\ Adds(client.output, client'.output, said)  BY <1>3, <1>4, Writing
  <1>6. /\ Len(said) # 0 /\ Len(said) \in Nat /\ said[Len(said)] = Lldb!Event("stopped", t)
        /\ \A j \in 1..Len(said) : j = Len(said)
    BY <1>4 DEF e
  <1>7. adapter' = [adapter EXCEPT !.target = "stopped", !.stop = @ + 1] /\ window' = window  BY DEF Lldb!TargetStops
  <1>8. k \in {0, 1} /\ ~(k = 1) /\ Serves(client, client', k)  BY <1>5
  <1> HIDE DEF k
  <1> QED BY <1>1, <1>4, <1>5, <1>6, <1>7, <1>8, StepStops

\* It ends, and the adapter says so.
LEMMA StepTargetEnds ==
  ASSUME Lldb!IInv, Lldb!TargetEnds
  PROVE  Lldb!IInv'
  <1> DEFINE e == Lldb!Event("exited", 0)
             f == Lldb!Event("terminated", 0)
             said == <<e, f>>
             b == [adapter EXCEPT !.target = "over"]
             c == client
             out == client.output
             a == adapter
  <1>1. adapter \in Lldb!AdapterSet /\ Lldb!Sound(client, client.output, adapter, window.leftover)  BY DEF Lldb!IInv
  <1>2. /\ client.up /\ adapter.target = "running" /\ adapter' = b /\ window' = window
        /\ client' = [client EXCEPT !.output = client.output \o said]
    <2>1. DOMAIN client = Lldb!Fields  BY DEF Lldb!IInv, Lldb!Sound, Lldb!Typed
    <2> QED BY <2>1 DEF Lldb!TargetEnds, Lldb!Fields
  <1>3. /\ Lldb!AsMessage(e) /\ ~Lldb!IsAnswer(e) /\ ~Odd(e) /\ Lldb!Turn(e)
        /\ Lldb!AsMessage(f) /\ ~Lldb!IsAnswer(f) /\ ~Odd(f) /\ Lldb!Turn(f) /\ Lldb!Gives(f) = "over"
    BY DEF Lldb!Event, Lldb!IsAnswer, Odd, Lldb!Turn, Lldb!Gives, Lldb!AsMessage
  <1> HIDE DEF e, f
  <1>4. Lldb!IsSequence(said) /\ Len(said) = 2 /\ said[1] = e /\ said[2] = f  BY TwoElements
  <1> HIDE DEF said
  <1>5. Serves(client, client', 0) /\ Adds(client.output, client'.output, said)  BY <1>2, <1>4, Writing
  <1>6. \A j \in 1..Len(said) : said[j] \in {e, f}  BY <1>4
  <1>7. Answering(client, 0, said)  BY <1>3, <1>6 DEF Answering
  <1>8. b \in Lldb!AdapterSet /\ b.bps = adapter.bps /\ b.launched = adapter.launched /\ b.target = "over"
    BY <1>1 DEF Lldb!AdapterSet
  <1> HIDE DEF b
  <1>9. ASSUME Lldb!Steady(c, out, a)
        PROVE  /\ b.launched = a.launched /\ (~a.launched => b.target = a.target)
               /\ Lldb!Follows(client', client'.output, b)
    <2>1. Lldb!Follows(c, out, a) /\ Lldb!Started(c, out, a)  BY <1>9 DEF Lldb!Steady
    <2>2. a.launched  BY <1>2, <2>1 DEF Lldb!Started
    <2>3. Lldb!WillShow(client', client'.output, "over")
      <3>1. said[Len(said)] = f /\ Len(said) # 0  BY <1>4
      <3> QED BY <1>3, <1>5, <3>1, ShownLast
    <2>4. \A j \in 1..Len(said) : ~Odd(said[j])  BY <1>3, <1>6
    <2>5. Lldb!Follows(client', client'.output, b)  BY <1>2, <1>5, <1>8, <2>1, <2>3, <2>4, FollowsEnds
    <2> QED BY <1>8, <2>2, <2>5
  <1>10. \A j \in 1..Len(said) : Lldb!AsMessage(said[j])  BY <1>3, <1>6
  <1> DEFINE k == 0
  <1>11. Serves(client, client', k) /\ ~(k = 1) /\ Answering(client, k, said)  BY <1>5, <1>7
  <1> HIDE DEF k
  <1>12. Lldb!Sound(client', client'.output, b, window.leftover)
    BY <1>1, <1>2, <1>5, <1>8, <1>9, <1>10, <1>11, SoundServed
  <1> QED BY <1>2, <1>8, <1>12, Stepped

\* The adapter is gone.
LEMMA StepExits ==
  ASSUME Lldb!IInv, Lldb!AdapterExits
  PROVE  Lldb!IInv'
  <1>1. adapter \in Lldb!AdapterSet /\ Lldb!Typed(client) /\ Lldb!Messages(client.output)  BY DEF Lldb!IInv, Lldb!Sound
  <1>2. PICK last \in {<<>>, <<Lldb!Event("terminated", 0)>>} :
          client' = [client EXCEPT !.up = FALSE, !.wire = <<>>, !.output = client.output \o last]
    BY <1>1 DEF Lldb!AdapterExits, Lldb!Typed, Lldb!Fields
  <1>3. Lldb!IsSequence(last) /\ \A j \in 1..Len(last) : Lldb!AsMessage(last[j])
    <2> DEFINE e == Lldb!Event("terminated", 0)
    <2>1. Lldb!AsMessage(e)  BY Notice
    <2> HIDE DEF e
    <2>2. CASE last = <<>>  BY <2>2, Nothing
    <2>3. CASE last = <<e>>  BY <2>1, <2>3, OneSaid
    <2> QED BY <1>2, <2>2, <2>3 DEF e
  <1> DEFINE o == client.output \o last
  <1>4. Lldb!Messages(o)
    <2>1. Lldb!IsSequence(client.output)  BY <1>1 DEF Lldb!Messages
    <2>2. Adds(client.output, o, last)  BY <1>3, <2>1, Said
    <2> HIDE DEF o
    <2>3. ASSUME NEW i \in 1..Len(o) PROVE Lldb!AsMessage(o[i])
      <3>1. CASE i \in 1..Len(client.output)
        <4>1. o[i] = client.output[i]  BY <2>2, <3>1 DEF Adds
        <4> QED BY <1>1, <3>1, <4>1 DEF Lldb!Messages
      <3>2. CASE i \notin 1..Len(client.output)
        <4>1. PICK j \in 1..Len(last) : o[i] = last[j]  BY <2>2, <3>2 DEF Adds
        <4> QED BY <1>3, <4>1
      <3> QED BY <3>1, <3>2
    <2> QED BY <2>2, <2>3 DEF Lldb!Messages, Adds
  <1>5. /\ DOMAIN client' = Lldb!Fields /\ client'.up = FALSE /\ client'.wire = <<>> /\ client'.output = o
        /\ client'.pending = client.pending /\ client'.seq = client.seq /\ client'.bps = client.bps
        /\ client'.active = client.active /\ client'.stopped = client.stopped /\ client'.exited = client.exited
        /\ client'.initialized = client.initialized /\ client'.launchSent = client.launchSent
        /\ client'.configured = client.configured
        /\ client'.thread = client.thread /\ client'.threads = client.threads /\ client'.watches = client.watches
    BY <1>1, <1>2 DEF Lldb!Typed, Lldb!Fields
  <1> HIDE DEF o
  <1>6. Lldb!Typed(client')
    <2>1. Lldb!IsSequence(client'.wire) /\ Len(client'.wire) = 0  BY <1>5, Nothing
    <2>2. {client'.up, client'.initialized, client'.launchSent, client'.configured, client'.active,
           client'.stopped, client'.exited} \subseteq BOOLEAN
      BY <1>1, <1>5 DEF Lldb!Typed
    <2>3. \A i \in 1..Len(client'.wire) : Lldb!AsRequest(client'.wire[i]) /\ client'.wire[i].seq \in 1..(client'.seq - 1)
      BY <2>1
    <2> QED BY <1>1, <1>5, <2>1, <2>2, <2>3 DEF Lldb!Typed
  <1>7. adapter' \in Lldb!AdapterSet /\ window' = window  BY <1>1 DEF Lldb!AdapterExits, Lldb!AdapterSet
  <1>8. Lldb!Sound(client', client'.output, adapter', window.leftover)  BY <1>4, <1>5, <1>6 DEF Lldb!Sound
  <1> QED BY <1>7, <1>8, Stepped

----------------------------------------------------------------------------
(* The actions of the window *)

\* Another number of commands, or a restart in progress.
LEMMA Counted ==
  ASSUME window \in Lldb!UiSet, NEW stopping \in BOOLEAN, NEW restart \in BOOLEAN, NEW raced \in BOOLEAN
  PROVE  /\ window.ops < MaxOps =>
              /\ [window EXCEPT !.ops = @ + 1] \in Lldb!UiSet
              /\ [window EXCEPT !.ops = @ + 1, !.raced = raced] \in Lldb!UiSet
              /\ [window EXCEPT !.stopping = stopping, !.restart = restart, !.ops = @ + 1] \in Lldb!UiSet
         /\ [window EXCEPT !.stopping = FALSE] \in Lldb!UiSet
  <1> DEFINE next == window.ops + 1
  <1>1. window.ops \in 0..MaxOps /\ MaxOps \in Nat  BY LldbAssumption DEF Lldb!UiSet
  <1>2. ASSUME window.ops < MaxOps
        PROVE  /\ [window EXCEPT !.ops = next] \in Lldb!UiSet
               /\ [window EXCEPT !.ops = next, !.raced = raced] \in Lldb!UiSet
               /\ [window EXCEPT !.stopping = stopping, !.restart = restart, !.ops = next] \in Lldb!UiSet
    <2>1. next \in 0..MaxOps  BY <1>1, <1>2
    <2> HIDE DEF next
    <2> QED BY <2>1 DEF Lldb!UiSet
  <1>3. /\ [window EXCEPT !.ops = @ + 1] = [window EXCEPT !.ops = next]
        /\ [window EXCEPT !.ops = @ + 1, !.raced = raced] = [window EXCEPT !.ops = next, !.raced = raced]
        /\ [window EXCEPT !.stopping = stopping, !.restart = restart, !.ops = @ + 1]
             = [window EXCEPT !.stopping = stopping, !.restart = restart, !.ops = next]
    BY DEF Lldb!UiSet
  <1>4. [window EXCEPT !.stopping = FALSE] \in Lldb!UiSet  BY DEF Lldb!UiSet
  <1> QED BY <1>2, <1>3, <1>4

\* A command that keeps what is to be kept.
LEMMA Commanded ==
  ASSUME Lldb!IInv, NEW d, Lldb!Command(d), Lldb!Sound(d, client.output, adapter, window.leftover) /\ d.output = client.output
  PROVE  Lldb!IInv'
  <1>1. window \in Lldb!UiSet /\ adapter \in Lldb!AdapterSet  BY DEF Lldb!IInv
  <1>2. /\ client' = d /\ adapter' = adapter /\ window' = [window EXCEPT !.ops = @ + 1]
        /\ ~window.stopping /\ window.ops < MaxOps
    BY DEF Lldb!Command, Lldb!Idle
  <1>3. window' \in Lldb!UiSet  BY <1>1, <1>2, Counted
  <1>4. window'.leftover = window.leftover /\ window'.stopping = window.stopping  BY <1>1, <1>2 DEF Lldb!UiSet
  <1> QED BY <1>1, <1>2, <1>3, <1>4 DEF Lldb!IInv

\* The same of one that says nothing of the program or of the breakpoints.
LEMMA MildlyCommanded ==
  ASSUME Lldb!IInv, NEW d, Lldb!Command(d), Mildly(client, d)
  PROVE  Lldb!IInv'
  <1>1. Lldb!Sound(client, client.output, adapter, window.leftover)  BY DEF Lldb!IInv
  <1>2. Lldb!Sound(d, client.output, adapter, window.leftover)  BY <1>1, SoundMildly
  <1>3. d.output = client.output  BY DEF Mildly, Flags
  <1> QED BY <1>2, <1>3, Commanded

\* The window's timer.
LEMMA StepTimer ==
  ASSUME Lldb!IInv, Lldb!OnTimer
  PROVE  Lldb!IInv'
  <1>1. Lldb!Sound(client, client.output, adapter, window.leftover) /\ adapter \in Lldb!AdapterSet  BY DEF Lldb!IInv
  <1>2. client' = Lldb!Poll(client) /\ adapter' = adapter /\ window' = window  BY DEF Lldb!OnTimer
  <1>3. Lldb!Sound(client', client'.output, adapter, window.leftover)  BY <1>1, <1>2, SoundPoll
  <1> QED BY <1>1, <1>2, <1>3, Stepped

\* A session begins.
LEMMA Begun ==
  ASSUME Lldb!IInv, NEW c, Lldb!Typed(c), c.output = client.output, window.sessions < MaxSessions,
         client' = Lldb!Start(c), adapter' = Lldb!IdleAdapter,
         window' = [window EXCEPT !.stopping = FALSE, !.restart = FALSE, !.sessions = @ + 1,
                          !.leftover = client.output # <<>>, !.raced = FALSE]
  PROVE  Lldb!IInv'
  <1> DEFINE more == client.output # <<>>
             next == window.sessions + 1
             out == client.output
  <1>1. window \in Lldb!UiSet /\ Lldb!Messages(client.output)  BY DEF Lldb!IInv, Lldb!Sound
  <1>2. next \in 0..MaxSessions
    <2>1. window.sessions \in 0..MaxSessions /\ MaxSessions \in Nat  BY <1>1, LldbAssumption DEF Lldb!UiSet
    <2> QED BY <2>1
  <1>3. more \in BOOLEAN /\ (~more => out = <<>>)  OBVIOUS
  <1>4. window' = [window EXCEPT !.stopping = FALSE, !.restart = FALSE, !.sessions = next, !.leftover = more, !.raced = FALSE]
    BY <1>1 DEF Lldb!UiSet
  <1> HIDE DEF more, next, out
  <1>5. window' \in Lldb!UiSet /\ window'.leftover = more /\ window'.stopping = FALSE  BY <1>1, <1>2, <1>3, <1>4 DEF Lldb!UiSet
  <1>6. Lldb!Sound(Lldb!Start(c), out, Lldb!IdleAdapter, more) /\ Lldb!Start(c).output = out
    <2>1. out = c.output /\ Lldb!Messages(out)  BY <1>1 DEF out
    <2> QED BY <1>3, <2>1, SoundStart
  <1>7. Lldb!IdleAdapter \in Lldb!AdapterSet  BY NewAdapter
  <1> QED BY <1>5, <1>6, <1>7 DEF Lldb!IInv

\* The debugger is told to stop.
LEMMA Ending ==
  ASSUME Lldb!IInv, NEW restart \in BOOLEAN, Lldb!StopSession(restart), restart => window.sessions < MaxSessions
  PROVE  Lldb!IInv'
  <1>1. /\ window \in Lldb!UiSet /\ adapter \in Lldb!AdapterSet /\ Lldb!Sound(client, client.output, adapter, window.leftover)
    BY DEF Lldb!IInv
  <1>2. /\ client' = Lldb!StopRequested(client) /\ adapter' = adapter /\ window.ops < MaxOps
        /\ window' = [window EXCEPT !.stopping = TRUE, !.restart = restart, !.ops = @ + 1]
    BY DEF Lldb!StopSession
  <1>3. window' \in Lldb!UiSet  BY <1>1, <1>2, Counted
  <1>4. window'.leftover = window.leftover /\ window'.restart = restart /\ window'.sessions = window.sessions  BY <1>1, <1>2 DEF Lldb!UiSet
  <1>5. Lldb!Sound(client', client'.output, adapter, window.leftover)  BY <1>1, <1>2, SoundRequested
  <1> QED BY <1>1, <1>2, <1>3, <1>4, <1>5 DEF Lldb!IInv

\* stop() returns.
LEMMA StepReturns ==
  ASSUME Lldb!IInv, Lldb!StopReturns
  PROVE  Lldb!IInv'
  <1>1. window \in Lldb!UiSet /\ Lldb!Typed(client) /\ Lldb!Messages(client.output)  BY DEF Lldb!IInv, Lldb!Sound
  <1>2. client' = Lldb!StopDone(client) /\ adapter' = Lldb!IdleAdapter /\ window' = [window EXCEPT !.stopping = FALSE]
    BY DEF Lldb!StopReturns
  <1>3. window' \in Lldb!UiSet  BY <1>1, <1>2, Counted
  <1>4. window'.leftover = window.leftover /\ window'.stopping = FALSE  BY <1>1, <1>2 DEF Lldb!UiSet
  <1>5. Lldb!StopDone(client).output = client.output  BY <1>1, SoundStopped
  <1>6. Lldb!Sound(Lldb!StopDone(client), client.output, Lldb!IdleAdapter, window.leftover)  BY <1>1, SoundStopped
  <1> QED BY <1>2, <1>3, <1>4, <1>5, <1>6, NewAdapter DEF Lldb!IInv

\* It returns for a restart.
LEMMA StepRestarts ==
  ASSUME Lldb!IInv, Lldb!RestartReturns
  PROVE  Lldb!IInv'
  <1>1. Lldb!Typed(client)  BY DEF Lldb!IInv, Lldb!Sound
  <1>2. Lldb!Typed(Lldb!StopDone(client)) /\ Lldb!StopDone(client).output = client.output  BY <1>1, SoundStopped
  <1>3. window.sessions < MaxSessions  BY DEF Lldb!IInv, Lldb!RestartReturns
  <1> QED BY <1>2, <1>3, Begun DEF Lldb!RestartReturns

\* F5.
LEMMA StepRun ==
  ASSUME Lldb!IInv, Lldb!DebugRun
  PROVE  Lldb!IInv'
  <1>1. Lldb!Typed(client) /\ Lldb!Sound(client, client.output, adapter, window.leftover)  BY DEF Lldb!IInv, Lldb!Sound
  <1>2. ASSUME window.sessions < MaxSessions, Lldb!StartSession PROVE Lldb!IInv'  BY <1>1, <1>2, Begun DEF Lldb!StartSession
  <1>3. ASSUME window.sessions < MaxSessions, Lldb!StopSession(TRUE) PROVE Lldb!IInv'
    <2>1. TRUE \in BOOLEAN  OBVIOUS
    <2> QED BY <1>3, <2>1, Ending
  <1>4. ASSUME client.up, Lldb!Command(Lldb!ContinueExecution(client)) PROVE Lldb!IInv'
    <2>1. /\ Lldb!Sound(Lldb!ContinueExecution(client), client.output, adapter, window.leftover)
          /\ Lldb!ContinueExecution(client).output = client.output
      BY <1>1, <1>4, SoundCommands
    <2> QED BY <1>4, <2>1, Commanded
  <1> QED BY <1>2, <1>3, <1>4 DEF Lldb!DebugRun

\* Pause and step.
LEMMA StepSteps ==
  ASSUME Lldb!IInv, Lldb!DebugPause \/ Lldb!DebugStep
  PROVE  Lldb!IInv'
  <1>1. Lldb!Typed(client) /\ Lldb!Sound(client, client.output, adapter, window.leftover)  BY DEF Lldb!IInv, Lldb!Sound
  <1>2. ASSUME Lldb!Command(Lldb!Interrupt(client)) PROVE Lldb!IInv'
    <2>1. Mildly(client, Lldb!Interrupt(client))  BY <1>1, MildInspection
    <2> QED BY <1>2, <2>1, MildlyCommanded
  <1>3. ASSUME client.up, Lldb!Command(Lldb!Resume(client)) PROVE Lldb!IInv'
    <2>1. Lldb!Sound(Lldb!Resume(client), client.output, adapter, window.leftover) /\ Lldb!Resume(client).output = client.output
      BY <1>1, <1>3, SoundCommands
    <2> QED BY <1>3, <2>1, Commanded
  <1> QED BY <1>2, <1>3 DEF Lldb!DebugPause, Lldb!DebugStep

\* A thread or a frame is selected, or a variable assigned.
LEMMA StepInspect ==
  ASSUME Lldb!IInv, Lldb!Inspect
  PROVE  Lldb!IInv'
  <1>1. Lldb!Typed(client)  BY DEF Lldb!IInv, Lldb!Sound
  <1>2. ASSUME NEW t \in client.threads, Lldb!Command(Lldb!SelectThread(client, t)) PROVE Lldb!IInv'
    <2>1. t \in Threads  BY <1>1 DEF Lldb!Typed
    <2>2. Mildly(client, Lldb!SelectThread(client, t))  BY <1>1, <2>1, MildInspection
    <2> QED BY <1>2, <2>2, MildlyCommanded
  <1>3. ASSUME NEW l, Lldb!Command(Lldb!SelectFrame(client, l)) PROVE Lldb!IInv'
    <2>1. Mildly(client, Lldb!SelectFrame(client, l))  BY <1>1, MildInspection
    <2> QED BY <1>3, <2>1, MildlyCommanded
  <1>4. ASSUME Lldb!Command(Lldb!Assign(client)) PROVE Lldb!IInv'
    <2>1. Mildly(client, Lldb!Assign(client))  BY <1>1, MildInspection
    <2> QED BY <1>4, <2>1, MildlyCommanded
  <1> QED BY <1>2, <1>3, <1>4 DEF Lldb!Inspect

\* A row is opened or closed.
LEMMA StepExpand ==
  ASSUME Lldb!IInv, Lldb!Expand
  PROVE  Lldb!IInv'
  <1> DEFINE more == window.raced \/ \E n \in DOMAIN client.pending :
                       client.pending[n].cmd \in Lldb!Questions \ {"evaluate"}
  <1>1. /\ window \in Lldb!UiSet /\ adapter \in Lldb!AdapterSet /\ Lldb!Typed(client)
        /\ Lldb!Sound(client, client.output, adapter, window.leftover)
    BY DEF Lldb!IInv, Lldb!Sound
  <1>2. PICK i : client' = Lldb!ToggleVariable(client, i)  BY DEF Lldb!Expand
  <1>3. adapter' = adapter /\ window.ops < MaxOps /\ ~window.stopping  BY DEF Lldb!Expand, Lldb!Idle
  <1>4. more \in BOOLEAN  BY <1>1 DEF Lldb!UiSet
  <1>5. window' = [window EXCEPT !.ops = @ + 1, !.raced = more]  BY <1>1 DEF Lldb!Expand, Lldb!UiSet
  <1> HIDE DEF more
  <1>6. window' \in Lldb!UiSet
    <2>1. TRUE \in BOOLEAN  OBVIOUS
    <2> QED BY <1>1, <1>3, <1>4, <1>5, <2>1, Counted
  <1>7. window'.leftover = window.leftover /\ window'.stopping = window.stopping  BY <1>1, <1>5 DEF Lldb!UiSet
  <1>8. Mildly(client, client')  BY <1>1, <1>2, MildInspection
  <1>9. Lldb!Sound(client', client.output, adapter, window.leftover)  BY <1>1, <1>8, SoundMildly
  <1>10. client'.output = client.output  BY <1>8 DEF Mildly, Flags
  <1> QED BY <1>1, <1>3, <1>6, <1>7, <1>9, <1>10 DEF Lldb!IInv

\* The watches and the registers.
LEMMA StepWatches ==
  ASSUME Lldb!IInv, Lldb!EditWatches
  PROVE  Lldb!IInv'
  <1>1. Lldb!Typed(client)  BY DEF Lldb!IInv, Lldb!Sound
  <1>2. ASSUME NEW e, Lldb!Command(Lldb!AddWatch(client, e)) PROVE Lldb!IInv'
    <2>1. Mildly(client, Lldb!AddWatch(client, e))  BY <1>1, MildEdits
    <2> QED BY <1>2, <2>1, MildlyCommanded
  <1>3. ASSUME NEW i \in DOMAIN client.watches, Lldb!Command(Lldb!RemoveWatch(client, i)) PROVE Lldb!IInv'
    <2>1. Mildly(client, Lldb!RemoveWatch(client, i))  BY <1>1, MildEdits
    <2> QED BY <1>3, <2>1, MildlyCommanded
  <1>4. ASSUME Lldb!Command(Lldb!SetRegistersEnabled(client, ~client.registersOn)) PROVE Lldb!IInv'
    <2> DEFINE on == ~client.registersOn
    <2> HIDE DEF on
    <2>1. Mildly(client, Lldb!SetRegistersEnabled(client, on))  BY <1>1, MildInspection
    <2>2. Lldb!Command(Lldb!SetRegistersEnabled(client, on))  BY <1>4 DEF on
    <2> QED BY <2>1, <2>2, MildlyCommanded
  <1> QED BY <1>2, <1>3, <1>4 DEF Lldb!EditWatches

\* The breakpoints.
LEMMA StepBreakpoints ==
  ASSUME Lldb!IInv, Lldb!EditBreakpoints
  PROVE  Lldb!IInv'
  <1>1. Lldb!Sound(client, client.output, adapter, window.leftover)  BY DEF Lldb!IInv
  <1>2. ASSUME NEW key \in Keys, Lldb!Command(Lldb!ToggleBreakpoint(client, key)) PROVE Lldb!IInv'
    <2>1. /\ Lldb!Sound(Lldb!ToggleBreakpoint(client, key), client.output, adapter, window.leftover)
          /\ Lldb!ToggleBreakpoint(client, key).output = client.output
      BY <1>1, SoundEdits
    <2> QED BY <1>2, <2>1, Commanded
  <1>3. ASSUME NEW key \in DOMAIN client.bps, Lldb!Command(Lldb!UpdateBreakpoint(client, key)) PROVE Lldb!IInv'
    <2>1. /\ Lldb!Sound(Lldb!UpdateBreakpoint(client, key), client.output, adapter, window.leftover)
          /\ Lldb!UpdateBreakpoint(client, key).output = client.output
      BY <1>1, SoundEdits
    <2> QED BY <1>3, <2>1, Commanded
  <1>4. ASSUME Lldb!Command(Lldb!ClearBreakpoints(client)) PROVE Lldb!IInv'
    <2>1. /\ Lldb!Sound(Lldb!ClearBreakpoints(client), client.output, adapter, window.leftover)
          /\ Lldb!ClearBreakpoints(client).output = client.output
      BY <1>1, SoundEdits
    <2> QED BY <1>4, <2>1, Commanded
  <1> QED BY <1>2, <1>3, <1>4 DEF Lldb!EditBreakpoints

----------------------------------------------------------------------------
(* The invariant, and what follows from it *)

\* It holds when the program starts.
LEMMA Starting ==
  ASSUME Lldb!Init
  PROVE  Lldb!IInv
  <1> DEFINE w == [i \in 1..Cardinality(Watches) |->
                     [expression |-> SetToSeq(Watches)[i], value |-> Lldb!NoFrame, ok |-> FALSE]]
             b == [key \in Saved |-> [enabled |-> TRUE, verified |-> FALSE]]
  <1>1. Lldb!IsSequence(w)
    <2> DEFINE n == Cardinality(Watches)
    <2>1. n \in Nat
      <3>1. IsFiniteSet(Watches)  BY LldbAssumption, SameLibrary
      <3> QED BY <3>1, FS_CardinalityType
    <2> HIDE DEF n
    <2>2. w = [i \in 1..n |-> w[i]]  BY DEF n
    <2> HIDE DEF w
    <2> QED BY <2>1, <2>2, ListOf
  <1>2. b \in Lldb!BpsSet
    <2>1. [enabled |-> TRUE, verified |-> FALSE] \in [enabled : BOOLEAN, verified : BOOLEAN]  OBVIOUS
    <2>2. b \in [Saved -> [enabled : BOOLEAN, verified : BOOLEAN]]  BY <2>1
    <2>3. Saved \in SUBSET Keys  BY LldbAssumption
    <2> QED BY <2>2, <2>3 DEF Lldb!BpsSet
  <1>3. client = [Lldb!IdleClient EXCEPT !.bps = b, !.watches = w]  BY SameLibrary DEF Lldb!Init
  <1> HIDE DEF b, w
  <1>4. /\ DOMAIN client = Lldb!Fields /\ client.up = FALSE /\ client.wire = <<>> /\ client.output = <<>>
        /\ client.pending = <<>> /\ client.seq = 1
        /\ client.initialized = FALSE /\ client.launchSent = FALSE /\ client.configured = FALSE
        /\ client.active = FALSE /\ client.stopped = FALSE /\ client.exited = FALSE
        /\ client.thread = 0 /\ client.threads = {} /\ client.watches = w /\ client.bps = b
    BY <1>3 DEF Lldb!IdleClient, Lldb!Fields
  <1>5. /\ Lldb!IsSequence(client.wire) /\ Len(client.wire) = 0 /\ DOMAIN client.pending = {}
        /\ Lldb!IsSequence(client.output) /\ Len(client.output) = 0
    BY <1>4, Nothing
  <1>6. Lldb!Typed(client)
    <2>1. \A i \in 1..Len(client.wire) : Lldb!AsRequest(client.wire[i]) /\ client.wire[i].seq \in 1..(client.seq - 1)
      BY <1>5
    <2>2. {client.up, client.initialized, client.launchSent, client.configured, client.active,
           client.stopped, client.exited} \subseteq BOOLEAN
      BY <1>4
    <2>3. client.thread \in Threads \cup {0} /\ client.threads \subseteq Threads  BY <1>4
    <2>4. client.seq \in Nat \ {0} /\ DOMAIN client.pending \subseteq 1..(client.seq - 1)  BY <1>4, <1>5
    <2> QED BY <1>1, <1>2, <1>4, <1>5, <2>1, <2>2, <2>3, <2>4 DEF Lldb!Typed
  <1>7. Lldb!Messages(client.output)  BY <1>5 DEF Lldb!Messages
  <1>8. Lldb!Sound(client, client.output, adapter, window.leftover)  BY <1>4, <1>6, <1>7 DEF Lldb!Sound
  <1>9. window \in Lldb!UiSet /\ ~(window.stopping /\ window.restart)
    <2>1. 0 \in 0..MaxOps /\ 0 \in 0..MaxSessions  BY LldbAssumption
    <2> QED BY <2>1 DEF Lldb!Init, Lldb!UiSet
  <1> QED BY <1>8, <1>9, NewAdapter DEF Lldb!IInv, Lldb!Init

\* Every action keeps it.
LEMMA Keeping ==
  ASSUME Lldb!IInv, [Lldb!Next]_(Lldb!vars)
  PROVE  Lldb!IInv'
  <1>1. ASSUME UNCHANGED Lldb!vars PROVE Lldb!IInv'
    <2>1. client' = client /\ adapter' = adapter /\ window' = window  BY <1>1 DEF Lldb!vars
    <2>2. adapter \in Lldb!AdapterSet /\ Lldb!Sound(client, client.output, adapter, window.leftover)  BY DEF Lldb!IInv
    <2> QED BY <2>1, <2>2, Stepped
  <1>2. CASE Lldb!AdapterAnswers  BY <1>2, StepAnswers
  <1>3. CASE Lldb!AdapterStartsUp  BY <1>3, StepStartsUp
  <1>4. CASE Lldb!AdapterAnnounces  BY <1>4, StepAnnounces
  <1>5. CASE Lldb!AdapterConfigured  BY <1>5, StepConfigured
  <1>6. CASE Lldb!AdapterControls  BY <1>6, StepControls
  <1>7. CASE Lldb!AdapterExits  BY <1>7, StepExits
  <1>8. CASE Lldb!TargetStops  BY <1>8, StepTargetStops
  <1>9. CASE Lldb!TargetEnds  BY <1>9, StepTargetEnds
  <1>10. CASE Lldb!OnTimer  BY <1>10, StepTimer
  <1>11. CASE Lldb!DebugRun  BY <1>11, StepRun
  <1>12. CASE Lldb!DebugStop
    <2>1. FALSE \in BOOLEAN  OBVIOUS
    <2> QED BY <1>12, <2>1, Ending DEF Lldb!DebugStop
  <1>13. CASE Lldb!DebugRestart
    <2>1. TRUE \in BOOLEAN  OBVIOUS
    <2> QED BY <1>13, <2>1, Ending DEF Lldb!DebugRestart
  <1>14. CASE Lldb!StopReturns  BY <1>14, StepReturns
  <1>15. CASE Lldb!RestartReturns  BY <1>15, StepRestarts
  <1>16. CASE Lldb!DebugPause \/ Lldb!DebugStep  BY <1>16, StepSteps
  <1>17. CASE Lldb!Inspect  BY <1>17, StepInspect
  <1>18. CASE Lldb!Expand  BY <1>18, StepExpand
  <1>19. CASE Lldb!EditWatches  BY <1>19, StepWatches
  <1>20. CASE Lldb!EditBreakpoints  BY <1>20, StepBreakpoints
  <1> QED BY <1>1, <1>2, <1>3, <1>4, <1>5, <1>6, <1>7, <1>8, <1>9, <1>10, <1>11, <1>12, <1>13, <1>14, <1>15,
             <1>16, <1>17, <1>18, <1>19, <1>20
       DEF Lldb!Next, Lldb!Environment, Lldb!Window

\* The last request for the breakpoints of a file is the one that counts.
LEMMA SentIs ==
  ASSUME Lldb!IInv, client.up, client.configured, NEW key \in DOMAIN client.bps
  PROVE  Lldb!Sent(Lldb!FileOf(key)) = Lldb!EnabledIn(client, Lldb!FileOf(key))
  <1> DEFINE file == Lldb!FileOf(key)
             asks == {i \in DOMAIN client.wire :
                        client.wire[i].cmd = "setBreakpoints" /\ client.wire[i].arg.file = file}
  <1>1. Lldb!Told(client, adapter) /\ Lldb!IsSequence(client.wire)  BY DEF Lldb!IInv, Lldb!Sound, Lldb!Typed
  <1>2. \/ Lldb!NoAsk(client, file) /\ adapter.bps[file] = Lldb!EnabledIn(client, file)
        \/ \E i \in 1..Len(client.wire) :
             /\ Lldb!Asks(client.wire[i], file) /\ client.wire[i].arg.keys = Lldb!EnabledIn(client, file)
             /\ \A j \in 1..Len(client.wire) : j > i => ~Lldb!Asks(client.wire[j], file)
    BY <1>1 DEF Lldb!Told
  <1>3. DOMAIN client.wire = 1..Len(client.wire) /\ Len(client.wire) \in Nat  BY <1>1, AsSeq
  <1>4. Lldb!Sent(file) = IF asks = {} THEN adapter.bps[file] ELSE client.wire[Max(asks)].arg.keys
    BY SameLibrary DEF Lldb!Sent
  <1>5. asks = {i \in 1..Len(client.wire) : Lldb!Asks(client.wire[i], file)}  BY <1>3 DEF Lldb!Asks
  <1> HIDE DEF asks, file
  <1>6. CASE Lldb!NoAsk(client, file) /\ adapter.bps[file] = Lldb!EnabledIn(client, file)
    <2>1. asks = {}  BY <1>5, <1>6 DEF Lldb!NoAsk
    <2> QED BY <1>4, <1>6, <2>1 DEF file
  <1>7. ASSUME NEW i \in 1..Len(client.wire), Lldb!Asks(client.wire[i], file),
               client.wire[i].arg.keys = Lldb!EnabledIn(client, file),
               \A j \in 1..Len(client.wire) : j > i => ~Lldb!Asks(client.wire[j], file)
        PROVE  Lldb!Sent(file) = Lldb!EnabledIn(client, file)
    <2>1. i \in asks  BY <1>5, <1>7
    <2>2. \A j \in asks : j \in Int /\ ~(j > i)  BY <1>5, <1>7
    <2>3. \A j \in asks : i >= j  BY <1>3, <2>2
    <2>4. \A x \in asks : (\A j \in asks : x >= j) => x = i
      <3> TAKE x \in asks
      <3> HAVE \A j \in asks : x >= j
      <3>1. x >= i /\ i >= x /\ x \in Int /\ i \in Int  BY <2>1, <2>2, <2>3
      <3> QED BY <3>1
    <2>5. Max(asks) = i  BY <2>1, <2>3, <2>4 DEF Max
    <2> QED BY <1>4, <1>7, <2>1, <2>5
  <1> QED BY <1>2, <1>6, <1>7 DEF file

\* What the adapter has, or will have, is what is enabled, and what is verified is right.
LEMMA Agreeing ==
  ASSUME Lldb!IInv
  PROVE  Lldb!BreakpointsAgree
  <1> SUFFICES ASSUME client.configured, client.up PROVE
        /\ \A key \in DOMAIN client.bps : Lldb!Sent(Lldb!FileOf(key)) = Lldb!EnabledIn(client, Lldb!FileOf(key))
        /\ Lldb!Quiet => \A key \in DOMAIN client.bps :
                      client.bps[key].enabled => (client.bps[key].verified <=> key \in Resolvable)
    BY DEF Lldb!BreakpointsAgree
  <1>1. ASSUME Lldb!Quiet, NEW key \in DOMAIN client.bps, client.bps[key].enabled
        PROVE  client.bps[key].verified <=> key \in Resolvable
    <2>1. client.wire = <<>> /\ client.output = <<>> /\ ~window.leftover  BY <1>1 DEF Lldb!Quiet
    <2>2. Len(client.wire) = 0 /\ Len(client.output) = 0  BY <2>1, Nothing
    <2>3. Lldb!Learns(client, client.output)  BY <2>1 DEF Lldb!IInv, Lldb!Sound, Lldb!Fresh
    <2>4. Lldb!NoAsk(client, Lldb!FileOf(key))  BY <2>2 DEF Lldb!NoAsk
    <2>5. ~\E i \in 1..Len(client.output) : TRUE  BY <2>2
    <2> QED BY <1>1, <2>3, <2>4, <2>5 DEF Lldb!Learns
  <1> QED BY <1>1, SentIs

\* The window's view of the program is right.
LEMMA Right ==
  ASSUME Lldb!IInv
  PROVE  Lldb!SessionAgrees
  <1>1. Lldb!TypeOK
    <2>1. Lldb!Typed(client) /\ adapter \in Lldb!AdapterSet /\ window \in Lldb!UiSet  BY DEF Lldb!IInv, Lldb!Sound
    <2>2. DOMAIN client.bps \subseteq Keys  BY <2>1 DEF Lldb!Typed, Lldb!BpsSet
    <2> QED BY <2>1, <2>2 DEF Lldb!TypeOK, Lldb!Typed, Lldb!AdapterSet, Lldb!UiSet
  <1>2. ASSUME Lldb!Quiet, adapter.target # "none"
        PROVE  Lldb!Shows(client, adapter.target) /\ adapter.target \in {"running", "stopped", "over"}
    <2>1. client.wire = <<>> /\ client.output = <<>> /\ ~window.leftover /\ client.up  BY <1>2 DEF Lldb!Quiet
    <2>2. Len(client.wire) = 0 /\ Len(client.output) = 0  BY <2>1, Nothing
    <2>3. Lldb!Follows(client, client.output, adapter)  BY <2>1 DEF Lldb!IInv, Lldb!Sound, Lldb!Fresh, Lldb!Steady
    <2>4. Lldb!NoResume(client)  BY <2>2 DEF Lldb!NoResume
    <2>5. \A state : Lldb!WillShow(client, client.output, state) => Lldb!Shows(client, state)  BY <2>2 DEF Lldb!WillShow
    <2>6. adapter.target \in {"none", "running", "stopped", "over"}  BY DEF Lldb!IInv, Lldb!AdapterSet
    <2> QED BY <1>2, <2>3, <2>4, <2>5, <2>6 DEF Lldb!Follows
  <1>3. Lldb!Quiet /\ adapter.target # "none" =>
          /\ client.stopped <=> adapter.target = "stopped"
          /\ client.active <=> adapter.target \in {"running", "stopped"}
          /\ client.exited <=> adapter.target = "over"
    BY <1>2 DEF Lldb!Shows
  <1> QED BY <1>1, <1>3 DEF Lldb!SessionAgrees

\* The invariant of the specification.
THEOREM SpecLldbIInv == Lldb!Spec => []Lldb!IInv
  <1>1. Lldb!Init => Lldb!IInv  BY Starting
  <1>2. Lldb!IInv /\ [Lldb!Next]_(Lldb!vars) => Lldb!IInv'  BY Keeping
  <1> QED BY <1>1, <1>2, PTL DEF Lldb!Spec

\* The adapter has, or will have, the enabled breakpoints, and the panel shows the verified ones.
THEOREM SpecBreakpointsAgree == Lldb!Spec => []BreakpointsAgree
  <1>1. Lldb!IInv => BreakpointsAgree  BY Agreeing DEF BreakpointsAgree
  <1> QED BY <1>1, SpecLldbIInv, PTL

\* The window's view of the program is right when nothing is under way, in a session whose
\* client had nothing left to read of an earlier adapter (Quiet).
THEOREM SpecSessionAgrees == Lldb!Spec => []SessionAgrees
  <1>1. Lldb!IInv => SessionAgrees  BY Right DEF SessionAgrees
  <1> QED BY <1>1, SpecLldbIInv, PTL
=============================================================================
