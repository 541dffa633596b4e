--------------------------- MODULE PseudoTerminal ---------------------------
(***************************************************************************)
(* PseudoTerminal and the RunSession that owns it                          *)
(* (src/src/pseudo_terminal.cpp, src/src/run_session.cpp) for the terminal *)
(* transport and the debug console: the UI thread in start/stop/poll, the  *)
(* reader thread with its 100 ms poll, the waiter thread, and the kernel:  *)
(* who is alive, who is in the group, who holds the slave side.            *)
(*                                                                         *)
(* A terminal is named by the number of the start() or openSession() that  *)
(* opened it, a chunk of output by its number. "late" are the chunks       *)
(* written when the reader was past its poll: see OutputShown.             *)
(***************************************************************************)
EXTENDS Integers, Sequences, FiniteSets, Functions

CONSTANTS Leader,     \* the process start() spawns
          Kids,       \* names for its descendants and for gdb's debuggee
          Codes,      \* the exit codes a leader can end with
          None,       \* exit_code_ = -1
          MaxStarts,  \* bound on terminals opened
          MaxChunks   \* bound on chunks written

\* What the constants must satisfy.
PseudoTerminalAssumption ==
  /\ Leader \notin Kids /\ Codes # {} /\ None \notin Codes
  /\ MaxStarts \in Nat /\ MaxChunks \in Nat

VARIABLES
  ui,          \* the UI thread: "idle" (in no call) or a point of stop() or start()
  after,       \* what follows the stop() in progress
  run_mode,    \* RunSession::mode_: "Idle", "Terminal" or "DebugTerminal"
  run_active,  \* run_active_
  completion,  \* the last poll() reported the completion of the run
  group,       \* process_group_ and pid_: the number of the terminal, 0 for -1
  running, session, exit_code,
  master,      \* master_fd_ >= 0
  held,        \* held_slave_fd_ >= 0
  output,      \* output_
  reader,      \* "none", "polling", "timedOut" (poll returned 0), "done"
  waiter,      \* "none", "waiting", "reaped", "done"
  starts,      \* terminals opened so far
  delivered,   \* chunks poll() has returned since the last start, in order
  alive, outside, doomed,
  holds,       \* the terminal whose slave side a process has open, 0 for none
  unreaped,    \* the leader is a zombie
  tty,         \* chunks in the buffer of the current terminal
  emitted,     \* chunks written so far
  late

ownerVars == <<after, run_mode, run_active, completion, starts, delivered>>
fieldVars == <<group, running, session, exit_code, master, held, output>>
threadVars == <<reader, waiter>>
peopleVars == <<alive, outside, doomed, holds, unreaped>>
bufferVars == <<tty, emitted, late>>
kernelVars == <<peopleVars, bufferVars>>
vars == <<ui, ownerVars, fieldVars, threadVars, kernelVars>>

Procs == Kids \cup {Leader}
Group == alive \ outside
GroupExists == Group # {} \/ unreaped
Reading == reader \in {"polling", "timedOut"}
\* The slave side is open somewhere: reads wait instead of failing with EIO.
SlaveOpen == held \/ \E p \in Procs : holds[p] # 0 /\ holds[p] = starts

Init ==
  /\ ui = "idle" /\ after = "return"
  /\ run_mode = "Idle" /\ run_active = FALSE /\ completion = FALSE
  /\ group = 0 /\ running = FALSE /\ session = FALSE /\ exit_code = None
  /\ master = FALSE /\ held = FALSE /\ output = <<>>
  /\ reader = "none" /\ waiter = "none" /\ starts = 0 /\ delivered = <<>>
  /\ alive = {} /\ outside = {} /\ doomed = {} /\ holds = [p \in Procs |-> 0]
  /\ unreaped = FALSE /\ tty = <<>> /\ emitted = 0 /\ late = {}

----------------------------------------------------------------------------
(* The UI thread: every call of RunSession begins with, or is, a stop(). *)

\* The head of PseudoTerminal::stop(): running_ is cleared before anything else.
StopHead(next) ==
  /\ ui = "idle"
  /\ after' = next
  /\ running' = FALSE /\ group' = 0
  /\ ui' = IF group # 0 THEN "grace" ELSE "close"
  /\ UNCHANGED <<run_mode, run_active, starts, session, exit_code, master, held>>
  /\ UNCHANGED <<threadVars, kernelVars>>

Stop == StopHead("discard") /\ UNCHANGED <<completion, output, delivered>>
Start == StopHead("spawn") /\ UNCHANGED <<completion, output, delivered>>
OpenDebugConsole == StopHead("open") /\ UNCHANGED <<completion, output, delivered>>

ExitCode == IF running \/ session THEN None ELSE exit_code

\* RunSession::poll(): drain; when the run has an exit code, stop and drain again.
Poll ==
  /\ delivered' = delivered \o output /\ output' = <<>>
  /\ \/ /\ run_active /\ ExitCode # None
        /\ StopHead("complete")
        /\ completion' = FALSE
     \/ /\ ~(run_active /\ ExitCode # None)
        /\ ui = "idle" /\ output # <<>>
        /\ UNCHANGED <<ui, after, run_mode, run_active, completion, starts>>
        /\ UNCHANGED <<group, running, session, exit_code, master, held>>
        /\ UNCHANGED <<threadVars, kernelVars>>

\* The 250 ms of grace end with nobody left...
GraceOver ==
  /\ ui = "grace"
  /\ exit_code # None /\ ~GroupExists
  /\ ui' = "close"
  /\ UNCHANGED <<ownerVars, fieldVars, threadVars, kernelVars>>

\* ...or with SIGKILL for the group.
GraceExpired ==
  /\ ui = "grace"
  /\ exit_code = None \/ GroupExists
  /\ doomed' = doomed \cup Group
  /\ ui' = "close"
  /\ UNCHANGED <<ownerVars, fieldVars, threadVars>>
  /\ UNCHANGED <<alive, outside, holds, unreaped, bufferVars>>

CloseTerminal ==
  /\ ui = "close"
  /\ held' = FALSE /\ master' = FALSE
  /\ ui' = "join"
  /\ UNCHANGED <<ownerVars, group, running, session, exit_code, output>>
  /\ UNCHANGED <<threadVars, kernelVars>>

\* With the reader goes the last descriptor of the master, and what is unread.
JoinReader ==
  /\ ui = "join"
  /\ reader \in {"none", "done"}
  /\ reader' = "none" /\ tty' = <<>>
  /\ ui' = "joinWaiter"
  /\ UNCHANGED <<ownerVars, fieldVars, waiter, peopleVars, emitted, late>>

\* The end of stop(), and what the caller does before it looks at the terminal.
JoinWaiter ==
  /\ ui = "joinWaiter"
  /\ waiter \in {"none", "done"}
  /\ waiter' = "none" /\ session' = FALSE
  /\ output' = IF after = "return" THEN output ELSE <<>>
  /\ delivered' = IF after = "complete" THEN delivered \o output ELSE delivered
  /\ completion' = (after = "complete")
  /\ run_mode' = IF after = "return" THEN run_mode ELSE "Idle"
  /\ run_active' = FALSE
  /\ ui' = IF after \in {"spawn", "open"} THEN after ELSE "idle"
  /\ UNCHANGED <<after, starts, group, running, exit_code, master, held, reader, kernelVars>>

\* The rest of start(): openpty, posix_spawn, both threads.
Spawn ==
  /\ ui = "spawn" /\ starts < MaxStarts
  /\ starts' = starts + 1 /\ group' = starts + 1
  /\ exit_code' = None /\ session' = FALSE /\ running' = TRUE
  /\ master' = TRUE /\ reader' = "polling" /\ waiter' = "waiting"
  /\ run_mode' = "Terminal" /\ run_active' = TRUE
  /\ delivered' = <<>>
  /\ outside' = alive /\ alive' = alive \cup {Leader}
  /\ holds' = [holds EXCEPT ![Leader] = starts + 1]
  /\ late' = 1..emitted
  /\ ui' = "idle"
  /\ UNCHANGED <<after, completion, held, output, doomed, unreaped, tty, emitted>>

\* Nothing could be opened or spawned, or the waiter could not be created and the
\* child was killed and reaped on the spot.
SpawnFails ==
  /\ ui \in {"spawn", "open"}
  /\ exit_code' \in IF ui = "spawn" THEN {exit_code, None} ELSE {exit_code}
  /\ ui' = "idle"
  /\ UNCHANGED <<ownerVars, group, running, session, master, held, output>>
  /\ UNCHANGED <<threadVars, kernelVars>>

\* The waiter runs but the reader cannot be created: start() stops the terminal.
SpawnUnread ==
  /\ ui = "spawn" /\ starts < MaxStarts
  /\ starts' = starts + 1 /\ group' = 0
  /\ exit_code' = None /\ session' = FALSE /\ running' = FALSE
  /\ master' = TRUE /\ waiter' = "waiting"
  /\ delivered' = <<>>
  /\ outside' = alive /\ alive' = alive \cup {Leader}
  /\ holds' = [holds EXCEPT ![Leader] = starts + 1]
  /\ late' = 1..emitted
  /\ after' = "return" /\ ui' = "grace"
  /\ UNCHANGED <<run_mode, run_active, completion, held, output, reader, doomed, unreaped, tty, emitted>>

\* The rest of openSession(): the slave side is held until gdb has taken it.
OpenSession ==
  /\ ui = "open" /\ starts < MaxStarts
  /\ starts' = starts + 1
  /\ exit_code' = None /\ session' = TRUE /\ running' = TRUE
  /\ master' = TRUE /\ held' = TRUE
  /\ run_mode' = "DebugTerminal" /\ delivered' = <<>>
  /\ late' = 1..emitted
  /\ ui' = "idle"
  /\ UNCHANGED <<after, run_active, completion, group, output, threadVars>>
  /\ UNCHANGED <<peopleVars, tty, emitted>>

\* activateDebugConsole(): the reader starts before the held slave is closed; a
\* reader that cannot start stops the terminal.
ActivateSession ==
  /\ run_mode = "DebugTerminal" /\ running /\ session /\ held
  /\ \/ /\ ui = "idle"
        /\ reader' = "polling" /\ held' = FALSE
        /\ UNCHANGED <<ui, ownerVars, waiter, kernelVars>>
        /\ UNCHANGED <<group, running, session, exit_code, master, output>>
     \/ StopHead("return") /\ UNCHANGED <<completion, output, delivered>>

----------------------------------------------------------------------------
(* The threads. *)

ReaderRead ==
  /\ reader = "polling" /\ tty # <<>>
  /\ output' = Append(output, Head(tty)) /\ tty' = Tail(tty)
  /\ UNCHANGED <<ui, ownerVars, threadVars, peopleVars, emitted, late>>
  /\ UNCHANGED <<group, running, session, exit_code, master, held>>

\* read() fails with EIO: nobody has the slave open. While running_ is set the
\* loop goes on at once (debuggees come and go), otherwise it ends.
ReaderHangup ==
  /\ reader = "polling" /\ tty = <<>> /\ ~SlaveOpen /\ ~running
  /\ reader' = "done"
  /\ UNCHANGED <<ui, ownerVars, fieldVars, waiter, kernelVars>>

\* poll() returns 0 after 100 ms of silence; running_ is looked at after that.
ReaderTimeout ==
  /\ reader = "polling" /\ tty = <<>> /\ SlaveOpen
  /\ reader' = "timedOut"
  /\ UNCHANGED <<ui, ownerVars, fieldVars, waiter, kernelVars>>

\* Variants: the loop ends as soon as running_ is clear, whatever is unread; it
\* ends at the end of file only.
ReaderEndsEarly ==
  /\ reader = "timedOut" \/ (reader = "polling" /\ ~running)
  /\ reader' = IF running THEN "polling" ELSE "done"
  /\ UNCHANGED <<ui, ownerVars, fieldVars, waiter, kernelVars>>

ReaderKeepsPolling ==
  /\ reader = "timedOut"
  /\ reader' = "polling"
  /\ UNCHANGED <<ui, ownerVars, fieldVars, waiter, kernelVars>>

ReaderCheck ==
  /\ reader = "timedOut"
  /\ reader' = IF running THEN "polling" ELSE "done"
  /\ UNCHANGED <<ui, ownerVars, fieldVars, waiter, kernelVars>>

\* waiterLoop(): the exit code is stored before running_ is cleared.
WaiterReap ==
  /\ waiter = "waiting" /\ unreaped
  /\ unreaped' = FALSE /\ exit_code' \in Codes
  /\ waiter' = "reaped"
  /\ UNCHANGED <<ui, ownerVars, group, running, session, master, held, output, reader>>
  /\ UNCHANGED <<alive, outside, doomed, holds, bufferVars>>

WaiterPublish ==
  /\ waiter = "reaped"
  /\ running' = FALSE /\ waiter' = "done"
  /\ UNCHANGED <<ui, ownerVars, group, session, exit_code, master, held, output, reader, kernelVars>>

----------------------------------------------------------------------------
(* The processes at the other side. *)

Fork(p, k) ==
  /\ p \in alive \ doomed /\ k \in Kids \ alive
  /\ alive' = alive \cup {k}
  /\ outside' = IF p \in outside THEN outside \cup {k} ELSE outside
  /\ holds' = [holds EXCEPT ![k] = holds[p]]
  /\ UNCHANGED <<ui, ownerVars, fieldVars, threadVars, doomed, unreaped, bufferVars>>

\* setsid(), or redirecting the standard streams elsewhere.
Escape(k) ==
  /\ k \in (Group \ doomed) \cap Kids
  /\ outside' = outside \cup {k}
  /\ UNCHANGED <<ui, ownerVars, fieldVars, threadVars, alive, doomed, holds, unreaped, bufferVars>>

CloseSlave(p) ==
  /\ p \in alive \ doomed /\ holds[p] # 0
  /\ holds' = [holds EXCEPT ![p] = 0]
  /\ UNCHANGED <<ui, ownerVars, fieldVars, threadVars, alive, outside, doomed, unreaped, bufferVars>>

\* gdb starts the debuggee on the terminal it was given by name.
Debuggee(k) ==
  /\ run_mode = "DebugTerminal" /\ master /\ ui = "idle"
  /\ k \in Kids \ alive
  /\ alive' = alive \cup {k} /\ outside' = outside \cup {k}
  /\ holds' = [holds EXCEPT ![k] = starts]
  /\ UNCHANGED <<ui, ownerVars, fieldVars, threadVars, doomed, unreaped, bufferVars>>

\* A write to a terminal whose master side is closed fails.
Emit(p) ==
  /\ p \in alive /\ holds[p] # 0 /\ holds[p] = starts
  /\ master \/ Reading
  /\ emitted < MaxChunks
  /\ emitted' = emitted + 1 /\ tty' = Append(tty, emitted + 1)
  /\ late' = IF reader \in {"timedOut", "done"} THEN late \cup {emitted + 1} ELSE late
  /\ UNCHANGED <<ui, ownerVars, fieldVars, threadVars, peopleVars>>

Exit(p) ==
  /\ p \in alive
  /\ alive' = alive \ {p} /\ outside' = outside \ {p} /\ doomed' = doomed \ {p}
  /\ holds' = [holds EXCEPT ![p] = 0]
  /\ unreaped' = (unreaped \/ p = Leader)
  /\ UNCHANGED <<ui, ownerVars, fieldVars, threadVars, bufferVars>>

----------------------------------------------------------------------------
UiStep == GraceOver \/ GraceExpired \/ CloseTerminal \/ JoinReader \/ JoinWaiter
          \/ Spawn \/ SpawnUnread \/ OpenSession \/ SpawnFails
OwnerCall == Stop \/ Start \/ OpenDebugConsole \/ Poll \/ ActivateSession
ReaderStep == ReaderRead \/ ReaderHangup \/ ReaderTimeout \/ ReaderCheck
WaiterStep == WaiterReap \/ WaiterPublish
ProcessStep ==
  \/ \E p \in Procs, k \in Kids : Fork(p, k)
  \/ \E k \in Kids : Escape(k) \/ Debuggee(k)
  \/ \E p \in Procs : CloseSlave(p) \/ Emit(p) \/ Exit(p)

Next == UiStep \/ OwnerCall \/ ReaderStep \/ WaiterStep \/ ProcessStep

\* Threads that can run do, and SIGKILL arrives. No other process has to exit.
Fairness ==
  /\ WF_vars(UiStep) /\ WF_vars(ReaderStep) /\ WF_vars(WaiterStep)
  /\ \A p \in Procs : WF_vars(p \in doomed /\ Exit(p))

Spec == Init /\ [][Next]_vars
FairSpec == Spec /\ Fairness

----------------------------------------------------------------------------
(* Properties. *)

FlagsOK ==
  /\ run_active \in BOOLEAN /\ completion \in BOOLEAN /\ running \in BOOLEAN
  /\ session \in BOOLEAN /\ master \in BOOLEAN /\ held \in BOOLEAN
FieldsOK ==
  /\ ui \in {"idle", "grace", "close", "join", "joinWaiter", "spawn", "open"}
  /\ after \in {"return", "discard", "complete", "spawn", "open"}
  /\ run_mode \in {"Idle", "Terminal", "DebugTerminal"}
  /\ starts \in Nat /\ group \in 0..starts /\ exit_code \in Codes \cup {None}
  /\ reader \in {"none", "polling", "timedOut", "done"}
  /\ waiter \in {"none", "waiting", "reaped", "done"}
ChunksOK ==
  /\ output \in Seq(Nat) /\ delivered \in Seq(Nat) /\ tty \in Seq(Nat) /\ emitted \in Nat
  /\ Range(output) \cup Range(delivered) \cup Range(tty) \cup late \subseteq 1..emitted
PeopleOK ==
  /\ alive \subseteq Procs /\ outside \subseteq alive /\ doomed \subseteq alive
  /\ holds \in [Procs -> 0..starts] /\ unreaped \in BOOLEAN

\* The fields hold what pseudo_terminal.hpp and run_session.hpp declare.
TypeOK == FlagsOK /\ FieldsOK /\ ChunksOK /\ PeopleOK

\* When poll() reports that a run has ended, the console has been given every
\* chunk written to its terminal, in order and once. Excepted are the chunks in
\* "late": those written after the last poll() of the reader had already
\* returned, which the reader may leave behind.
OutputShown ==
  /\ TypeOK
  /\ \A i, j \in 1..Len(delivered) : i < j => delivered[i] < delivered[j]
  /\ (completion /\ ui = "idle" /\ run_mode = "Idle") =>
       1..emitted \subseteq Range(delivered) \cup late

\* A call of start(), stop() or poll() returns, also while a descendant that has
\* left the group keeps the slave side open: the reader looks at running_ every
\* 100 ms. (Every descendant writes a bounded number of chunks.)
CallsReturn == (ui # "idle") ~> (ui = "idle")

----------------------------------------------------------------------------
(* The inductive invariant. *)

Increasing(s) == \A i, j \in 1..Len(s) : i < j => s[i] < s[j]
Before(s, t) == \A i \in 1..Len(s), j \in 1..Len(t) : s[i] < t[j]

\* Chunks are in the order they were written, wherever they are.
OrderInv ==
  /\ Increasing(delivered) /\ Increasing(output) /\ Increasing(tty)
  /\ Before(delivered, output) /\ Before(delivered, tty) /\ Before(output, tty)

\* Between the points of stop() and start(), what has been closed and joined.
StopInv ==
  /\ ui \in {"join", "joinWaiter", "spawn", "open"} => ~master
  /\ ui \in {"joinWaiter", "spawn", "open"} => reader = "none" /\ tty = <<>>
  /\ ui \in {"spawn", "open"} => run_mode = "Idle" /\ ~run_active /\ ~completion /\ output = <<>>
  /\ ui = "idle" /\ run_mode = "Idle" => ~run_active /\ ~master /\ reader = "none"
  /\ after = "complete" /\ ui \in {"grace", "close", "join", "joinWaiter"} => run_active

\* A chunk of the run is at one of the three places, or late; what a reader that
\* does not read any more would have to read is late.
RunInv ==
  /\ run_active /\ ui \notin {"joinWaiter"} => reader # "none"
  /\ run_active => 1..emitted \subseteq Range(delivered) \cup Range(output) \cup Range(tty) \cup late
  /\ reader \in {"timedOut", "done"} => Range(tty) \subseteq late
  /\ completion /\ ui = "idle" /\ run_mode = "Idle" => 1..emitted \subseteq Range(delivered) \cup late

IInv == TypeOK /\ OrderInv /\ StopInv /\ RunInv
=============================================================================
