--------------------------- MODULE ProcessStream ---------------------------
(***************************************************************************)
(* What AsyncProcess (include/tuiide/process.hpp) promises to the sessions *)
(* that own one, told without threads, pipes or signals: successive child  *)
(* processes, an exit code that is visible exactly while no process runs,  *)
(* and one stream of output that is ordered, lossless and never mixes the  *)
(* output of an earlier process into that of a later one.                  *)
(***************************************************************************)
EXTENDS Integers, Sequences

CONSTANTS Codes,    \* the exit codes a child can end with
          None      \* no exit code is known (exitCode() returns nullopt)

VARIABLES starts,   \* how many children were started
          running,  \* what running() returns
          code,     \* what exitCode() returns
          emitted,  \* every chunk written so far, each named by its child's number
          taken     \* how many of those chunks drain() has handed over

streamVars == <<starts, running, code, emitted, taken>>

Init ==
  /\ starts = 0
  /\ running = FALSE
  /\ code = None
  /\ emitted = <<>>
  /\ taken = 0

\* start() succeeds: only when nothing runs, and the last exit code is forgotten.
Launch ==
  /\ ~running
  /\ starts' = starts + 1
  /\ running' = TRUE
  /\ code' = None
  /\ UNCHANGED <<emitted, taken>>

\* start() fails: the previous code stays visible, or is forgotten; a child that
\* was there for a moment may have written.
LaunchFails ==
  /\ ~running
  /\ starts' \in {starts, starts + 1}
  /\ code' = None
  /\ UNCHANGED <<running, emitted, taken>>

\* The current child (or one of its descendants) writes; nobody else may.
Emit ==
  /\ starts > 0
  /\ emitted' = Append(emitted, starts)
  /\ UNCHANGED <<starts, running, code, taken>>

\* running() turns false and exitCode() becomes known in one step.
End ==
  /\ running
  /\ running' = FALSE
  /\ code' \in Codes
  /\ UNCHANGED <<starts, emitted, taken>>

\* drain() hands over the next chunks, in the order they were written.
Take ==
  /\ taken' \in taken .. Len(emitted)
  /\ UNCHANGED <<starts, running, code, emitted>>

Next == Launch \/ LaunchFails \/ Emit \/ End \/ Take

Spec == Init /\ [][Next]_streamVars
============================================================================
