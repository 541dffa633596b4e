---------------------------- MODULE AsyncProcess ----------------------------
(***************************************************************************)
(* AsyncProcess (src/src/process.cpp): one child process group, the UI thread  *)
(* that calls start/drain/closeInput/stop, the reader thread that moves    *)
(* the output pipe into output_, the waiter thread that reaps the leader,  *)
(* and as much of the kernel as these depend on: who is alive, who is in   *)
(* the group, who holds the write end of the pipe, who was sent SIGKILL.   *)
(*                                                                         *)
(* A chunk of output is named by the number of the start() whose pipe it   *)
(* was written to. A drain() by the owner appends to "delivered".          *)
(***************************************************************************)
EXTENDS Integers, Sequences, FiniteSets

CONSTANTS Leader,     \* the process start() forks and execs
          Kids,       \* names for the processes it may fork in turn
          Codes,      \* the exit codes a leader can end with
          None,       \* exit_code_ = -1
          MaxStarts,  \* bound on successful start() calls
          MaxChunks,  \* bound on chunks written
          MayEscape   \* TRUE: a descendant may leave the group with setsid()

ASSUME AsyncProcessAssumption ==
  /\ Leader \notin Kids
  /\ Codes # {} /\ None \notin Codes
  /\ MaxStarts \in Nat /\ MaxChunks \in Nat
  /\ MayEscape \in BOOLEAN

VARIABLES
  ui,             \* where the UI thread is: "idle" (in no call), or in stop()/start()
  after,          \* what follows the stop() in progress: "return" or "spawn"
  process_group,  \* process_group_ (and pid_): the start's number, 0 for -1
  input,          \* input_fd_ >= 0
  running,        \* running_
  exit_code,      \* exit_code_
  output,         \* output_
  reader,         \* "none" (not joinable), "reading", "done"
  waiter,         \* "none" (not joinable), "waiting", "reaped", "done"
  launched,       \* the last start() returned true
  starts,         \* children so far
  delivered,      \* every chunk drain() has returned, in order
  alive,          \* processes that exist
  outside,        \* the live ones that are not in the group named by the last start
  doomed,         \* live processes with SIGKILL pending
  holds,          \* which start's pipe a process holds the write end of, 0 for none
  unreaped,       \* the leader has exited and waitpid has not returned it yet
  pipe            \* chunks in the kernel's pipe buffer

uiVars == <<ui, after, process_group, input, output, launched, starts, delivered>>
threadVars == <<running, exit_code, reader, waiter>>
kernelVars == <<alive, outside, doomed, holds, unreaped, pipe>>
vars == <<uiVars, threadVars, kernelVars>>

Procs == Kids \cup {Leader}
Group == alive \ outside
\* kill(-group, 0) succeeds: a member is alive or the leader is still a zombie.
GroupExists == Group # {} \/ unreaped
Holders == {p \in Procs : holds[p] # 0}

Init ==
  /\ ui = "idle" /\ after = "return"
  /\ process_group = 0 /\ input = FALSE
  /\ running = FALSE /\ exit_code = None /\ output = <<>>
  /\ reader = "none" /\ waiter = "none"
  /\ launched = FALSE /\ starts = 0 /\ delivered = <<>>
  /\ alive = {} /\ outside = {} /\ doomed = {}
  /\ holds = [p \in Procs |-> 0]
  /\ unreaped = FALSE /\ pipe = <<>>

----------------------------------------------------------------------------
(* The UI thread. *)

\* The head of stop(): forget the ids, close the input, send SIGTERM (which a
\* process may obey, ignore or handle, so it adds nothing to what Exit allows).
BeginStop(next) ==
  /\ ui = "idle"
  /\ after' = next
  /\ process_group' = 0
  /\ input' = FALSE
  /\ ui' = IF process_group # 0 THEN "grace" ELSE "join"
  /\ UNCHANGED <<output, launched, starts, delivered>>
  /\ UNCHANGED <<threadVars, kernelVars>>

Stop == BeginStop("return")

\* start() refuses while running_ and otherwise begins with a full stop().
Start == ~running /\ BeginStop("spawn")

\* The polling loop of stop() ends because nothing of the group is left...
GraceOver ==
  /\ ui = "grace"
  /\ ~running /\ ~GroupExists
  /\ ui' = "join"
  /\ UNCHANGED <<after, process_group, input, output, launched, starts, delivered>>
  /\ UNCHANGED <<threadVars, kernelVars>>

\* A variant that forgets descendants once the leader is gone.
GraceExpiredLeaderOnly ==
  /\ ui = "grace"
  /\ running \/ GroupExists
  /\ ui' = "join"
  /\ doomed' = IF running THEN doomed \cup Group ELSE doomed
  /\ UNCHANGED <<after, process_group, input, output, launched, starts, delivered>>
  /\ UNCHANGED <<threadVars, alive, outside, holds, unreaped, pipe>>

\* ...or because 250 ms have passed: SIGKILL goes to the whole group.
GraceExpired ==
  /\ ui = "grace"
  /\ running \/ GroupExists
  /\ ui' = "join"
  /\ doomed' = doomed \cup Group
  /\ UNCHANGED <<after, process_group, input, output, launched, starts, delivered>>
  /\ UNCHANGED <<threadVars, alive, outside, holds, unreaped, pipe>>

\* A variant that lets the reader go on by itself (detach instead of join).
DetachReader ==
  /\ ui = "join"
  /\ ui' = "joinWaiter"
  /\ UNCHANGED <<after, process_group, input, output, launched, starts, delivered>>
  /\ UNCHANGED <<threadVars, kernelVars>>

JoinReader ==
  /\ ui = "join"
  /\ reader \in {"none", "done"}
  /\ reader' = "none"
  /\ ui' = "joinWaiter"
  /\ UNCHANGED <<after, process_group, input, output, launched, starts, delivered>>
  /\ UNCHANGED <<running, exit_code, waiter, kernelVars>>

JoinWaiter ==
  /\ ui = "joinWaiter"
  /\ waiter \in {"none", "done"}
  /\ waiter' = "none"
  /\ running' = FALSE
  /\ ui' = IF after = "return" THEN "idle" ELSE "spawn"
  /\ UNCHANGED <<after, process_group, input, output, launched, starts, delivered>>
  /\ UNCHANGED <<exit_code, reader, kernelVars>>

\* The rest of start(): pipes, fork, setpgid, both threads. Whatever is still
\* alive from an earlier child is not in the new group.
Spawn ==
  /\ ui = "spawn"
  /\ starts < MaxStarts
  /\ starts' = starts + 1
  /\ process_group' = starts + 1
  /\ input' = TRUE
  /\ exit_code' = None /\ running' = TRUE
  /\ reader' = "reading" /\ waiter' = "waiting"
  /\ launched' = TRUE
  /\ ui' = "idle"
  /\ outside' = alive
  /\ alive' = alive \cup {Leader}
  /\ holds' = [holds EXCEPT ![Leader] = starts + 1]
  /\ UNCHANGED <<after, output, delivered, doomed, unreaped, pipe>>

\* pipe2 or fork fails: nothing was touched. A reader that cannot be created: the
\* child is killed and reaped on the spot and exit_code_ reset.
SpawnFails ==
  /\ ui = "spawn"
  /\ exit_code' \in {exit_code, None}
  /\ launched' = FALSE
  /\ ui' = "idle"
  /\ UNCHANGED <<after, process_group, input, output, starts, delivered>>
  /\ UNCHANGED <<running, reader, waiter, kernelVars>>

\* The reader runs but the waiter cannot be created: start() kills the group,
\* reaps the child and joins the reader itself. What was read stays in output_.
\* running_ and the ids are set and reset within the call, where nobody reads them.
SpawnUnwaited ==
  /\ ui = "spawn"
  /\ starts < MaxStarts
  /\ starts' = starts + 1
  /\ exit_code' = None /\ launched' = FALSE
  /\ reader' = "reading"
  /\ ui' = "unwind"
  /\ outside' = alive
  /\ alive' = alive \cup {Leader}
  /\ holds' = [holds EXCEPT ![Leader] = starts + 1]
  /\ UNCHANGED <<after, process_group, input, output, delivered>>
  /\ UNCHANGED <<running, waiter, doomed, unreaped, pipe>>

KillUnwaited ==
  /\ ui = "unwind"
  /\ doomed' = doomed \cup Group
  /\ ui' = "reap"
  /\ UNCHANGED <<after, process_group, input, output, launched, starts, delivered>>
  /\ UNCHANGED <<threadVars, alive, outside, holds, unreaped, pipe>>

ReapUnwaited ==
  /\ ui = "reap"
  /\ unreaped
  /\ unreaped' = FALSE
  /\ ui' = "rejoin"
  /\ UNCHANGED <<after, process_group, input, output, launched, starts, delivered>>
  /\ UNCHANGED <<threadVars, alive, outside, doomed, holds, pipe>>

JoinUnwaited ==
  /\ ui = "rejoin"
  /\ reader = "done"
  /\ reader' = "none"
  /\ ui' = "idle"
  /\ UNCHANGED <<after, process_group, input, output, launched, starts, delivered>>
  /\ UNCHANGED <<running, exit_code, waiter, kernelVars>>

Drain ==
  /\ ui = "idle"
  /\ output # <<>>
  /\ delivered' = delivered \o output
  /\ output' = <<>>
  /\ UNCHANGED <<ui, after, process_group, input, launched, starts>>
  /\ UNCHANGED <<threadVars, kernelVars>>

CloseInput ==
  /\ ui = "idle"
  /\ input
  /\ input' = FALSE
  /\ UNCHANGED <<ui, after, process_group, output, launched, starts, delivered>>
  /\ UNCHANGED <<threadVars, kernelVars>>

----------------------------------------------------------------------------
(* The two threads. *)

\* One read() and the append under output_mutex_.
ReaderRead ==
  /\ reader = "reading"
  /\ pipe # <<>>
  /\ output' = Append(output, Head(pipe))
  /\ pipe' = Tail(pipe)
  /\ UNCHANGED <<ui, after, process_group, input, launched, starts, delivered>>
  /\ UNCHANGED <<threadVars, alive, outside, doomed, holds, unreaped>>

\* read() returns 0 only when the pipe is empty and nobody holds its write end.
ReaderEof ==
  /\ reader = "reading"
  /\ pipe = <<>> /\ Holders = {}
  /\ reader' = "done"
  /\ UNCHANGED <<uiVars, running, exit_code, waiter, kernelVars>>

\* Variants: no code is stored for a child killed by a signal; the waiter first
\* waits for the reader.
WaiterReapNoSignalCode ==
  /\ waiter = "waiting"
  /\ unreaped
  /\ unreaped' = FALSE
  /\ exit_code' \in {exit_code} \cup Codes
  /\ waiter' = "reaped"
  /\ UNCHANGED <<uiVars, running, reader, alive, outside, doomed, holds, pipe>>

WaiterReapAfterEof ==
  /\ waiter = "waiting" /\ reader = "done"
  /\ unreaped
  /\ unreaped' = FALSE
  /\ exit_code' \in Codes
  /\ waiter' = "reaped"
  /\ UNCHANGED <<uiVars, running, reader, alive, outside, doomed, holds, pipe>>

\* waitpid returns; exit_code_ is stored first...
WaiterReap ==
  /\ waiter = "waiting"
  /\ unreaped
  /\ unreaped' = FALSE
  /\ exit_code' \in Codes
  /\ waiter' = "reaped"
  /\ UNCHANGED <<uiVars, running, reader, alive, outside, doomed, holds, pipe>>

\* ...and running_ is cleared after it.
WaiterPublish ==
  /\ waiter = "reaped"
  /\ running' = FALSE
  /\ waiter' = "done"
  /\ UNCHANGED <<uiVars, exit_code, reader, kernelVars>>

----------------------------------------------------------------------------
(* The kernel and the processes themselves. *)

\* A process forks: the child inherits its group and its end of the pipe.
Fork(p, k) ==
  /\ p \in alive \ doomed
  /\ k \in Kids \ alive
  /\ alive' = alive \cup {k}
  /\ outside' = IF p \in outside THEN outside \cup {k} ELSE outside
  /\ holds' = [holds EXCEPT ![k] = holds[p]]
  /\ UNCHANGED <<uiVars, threadVars, doomed, unreaped, pipe>>

\* setsid(): a descendant (never the leader) leaves the group.
Escape(k) ==
  /\ MayEscape
  /\ k \in (Group \ doomed) \cap Kids
  /\ outside' = outside \cup {k}
  /\ UNCHANGED <<uiVars, threadVars, alive, doomed, holds, unreaped, pipe>>

\* A process redirects or closes its standard output.
CloseOutput(p) ==
  /\ p \in alive \ doomed
  /\ holds[p] # 0
  /\ holds' = [holds EXCEPT ![p] = 0]
  /\ UNCHANGED <<uiVars, threadVars, alive, outside, doomed, unreaped, pipe>>

Emit(p) ==
  /\ p \in alive
  /\ holds[p] # 0
  /\ Len(delivered) + Len(output) + Len(pipe) < MaxChunks
  /\ pipe' = Append(pipe, holds[p])
  /\ UNCHANGED <<uiVars, threadVars, alive, outside, doomed, holds, unreaped>>

Exit(p) ==
  /\ p \in alive
  /\ alive' = alive \ {p}
  /\ outside' = outside \ {p}
  /\ doomed' = doomed \ {p}
  /\ holds' = [holds EXCEPT ![p] = 0]
  /\ unreaped' = (unreaped \/ p = Leader)
  /\ UNCHANGED <<uiVars, threadVars, pipe>>

----------------------------------------------------------------------------
Unwinding == SpawnUnwaited \/ KillUnwaited \/ ReapUnwaited \/ JoinUnwaited
UiStep == GraceOver \/ GraceExpired \/ JoinReader \/ JoinWaiter \/ Spawn \/ SpawnFails \/ Unwinding
OwnerCall == Stop \/ Start \/ Drain \/ CloseInput
ReaderStep == ReaderRead \/ ReaderEof
WaiterStep == WaiterReap \/ WaiterPublish
ProcessStep ==
  \/ \E p \in Procs, k \in Kids : Fork(p, k)
  \/ \E k \in Kids : Escape(k)
  \/ \E p \in Procs : CloseOutput(p) \/ Emit(p) \/ Exit(p)

Next == UiStep \/ OwnerCall \/ ReaderStep \/ WaiterStep \/ ProcessStep

\* The scheduler runs every thread that can run, and SIGKILL always arrives. No
\* other process is obliged to exit, and the owner is not obliged to call.
Fairness ==
  /\ WF_vars(UiStep)
  /\ WF_vars(ReaderStep)
  /\ WF_vars(WaiterStep)
  /\ \A p \in Procs : WF_vars(p \in doomed /\ Exit(p))

Spec == Init /\ [][Next]_vars
FairSpec == Spec /\ Fairness

----------------------------------------------------------------------------
(* Properties. *)

\* The fields hold what process.hpp declares, and the kernel's sets nest.
TypeOK ==
  /\ ui \in {"idle", "grace", "join", "joinWaiter", "spawn", "unwind", "reap", "rejoin"}
  /\ after \in {"return", "spawn"}
  /\ process_group \in Nat /\ input \in BOOLEAN
  /\ running \in BOOLEAN /\ exit_code \in Codes \cup {None}
  /\ output \in Seq(Nat) /\ pipe \in Seq(Nat) /\ delivered \in Seq(Nat)
  /\ reader \in {"none", "reading", "done"}
  /\ waiter \in {"none", "waiting", "reaped", "done"}
  /\ launched \in BOOLEAN /\ starts \in Nat
  /\ alive \subseteq Procs /\ outside \subseteq alive /\ doomed \subseteq alive
  /\ holds \in [Procs -> Nat] /\ unreaped \in BOOLEAN

\* An owner that finds running() false after a successful start() finds an exit
\* code too: every session's completion test is "!running() && exitCode()", and
\* a session whose code never came would stay busy for good.
ExitPublished == (ui = "idle" /\ launched /\ ~running) => exit_code \in Codes

\* When stop() has returned nothing of the child is left: no thread, no open
\* input, no unread output, no holder of the pipe, and whatever is still alive
\* in the group is already being killed.
StopReleasesAll ==
  (ui \in {"idle", "spawn"} /\ process_group = 0) =>
    /\ reader = "none" /\ waiter = "none" /\ ~running /\ ~input
    /\ pipe = <<>> /\ Holders = {}
    /\ Group \subseteq doomed

\* The only thing that can keep stop() and start() from returning, also a start()
\* that fails, is a descendant that has left the process group and still holds
\* the output pipe.
OnlyEscapedBlocksStop ==
  (ui # "idle") ~> (ui = "idle" \/ \E k \in Kids : k \in outside /\ holds[k] # 0)

\* The death of the leader is noticed even while a descendant keeps the pipe.
DeathNoticed == (running /\ Leader \notin alive) ~> ~running

\* What the owner waits for happens: the end of the child is noticed, and a call
\* comes back unless a descendant has escaped with the pipe.
OwnerServed == OnlyEscapedBlocksStop /\ DeathNoticed

\* The inductive strengthening: how the threads, the pipe and the group stand at
\* each point of stop() and start().
ThreadsInv ==
  /\ running <=> waiter \in {"waiting", "reaped"}
  /\ waiter \in {"reaped", "done"} => exit_code \in Codes
  /\ launched => (running \/ exit_code \in Codes)

\* Only the pipe of the last start has holders, and an ended reader read it all.
PipeInv ==
  /\ \A p \in Procs : holds[p] \in {0, starts}
  /\ reader # "reading" => (pipe = <<>> /\ Holders = {})

\* No group is owned: between the head of stop() and the next successful fork.
Disowned == ui # "idle" \/ process_group = 0

StopInv ==
  /\ ui # "idle" => process_group = 0
  /\ Disowned => ~input
  /\ (Disowned /\ ui \notin {"grace", "unwind"}) => Group \subseteq doomed
  /\ (Disowned /\ ui \notin {"grace", "join", "unwind", "reap", "rejoin"}) => reader = "none"
  /\ (Disowned /\ ui \notin {"grace", "join", "joinWaiter"}) => waiter = "none"

IInv == TypeOK /\ ThreadsInv /\ PipeInv /\ StopInv

\* AsyncProcess implements ProcessStream.
Stream == INSTANCE ProcessStream WITH
  code <- IF running THEN None ELSE exit_code,
  emitted <- delivered \o output \o pipe,
  taken <- Len(delivered)

\* What an owner may rely on, whatever the threads do: see ProcessStream. Output
\* arrives in order and once, and a completed start has one exit code.
StreamSpec == Stream!Spec
=============================================================================
