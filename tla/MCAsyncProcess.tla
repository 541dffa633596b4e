--------------------------- MODULE MCAsyncProcess ---------------------------
(***************************************************************************)
(* The owners of child processes and those who read what these write, side *)
(* by side: a behaviour is one of AsyncProcess, of PseudoTerminal or of    *)
(* OutputStreams, each with variables of its own. They share no state in   *)
(* the code either: chunks are handed over by value.                       *)
(***************************************************************************)
EXTENDS ChildProcesses

CONSTANTS k1, k2

OneKid == {k1}
TwoKids == {k1, k2}

VARIABLES
  part,        \* what this behaviour is about: "process", "terminal" or "streams"
  s_kind, s_sent, s_at, s_decoder, s_cleared, s_over

streamVars == <<s_kind, s_sent, s_at, s_decoder, s_cleared, s_over>>

Streams == INSTANCE OutputStreams WITH
  Most <- 3, MaxHeader <- 7, Block <- 3, MaxOutput <- 12, MaxLines <- 1, TabStop <- 3,
  kind <- s_kind, sent <- s_sent, at <- s_at, decoder <- s_decoder,
  cleared <- s_cleared, over <- s_over

NoStream ==
  /\ s_kind = "lines" /\ s_sent = <<>> /\ s_at = 0 /\ s_decoder = Streams!Fresh("lines")
  /\ s_cleared = 0 /\ s_over = FALSE

AllInit ==
  /\ Init /\ Terminal!Init
  /\ \/ part \in {"process", "terminal"} /\ NoStream
     \/ part = "streams" /\ Streams!Init
AllNext ==
  /\ \/ part = "process" /\ Next /\ UNCHANGED <<terminalVars, streamVars>>
     \/ part = "terminal" /\ Terminal!Next /\ UNCHANGED <<vars, streamVars>>
     \/ part = "streams" /\ Streams!Next /\ UNCHANGED <<vars, terminalVars>>
  /\ UNCHANGED part
AllSpec ==
  /\ AllInit /\ [][AllNext]_<<vars, terminalVars, streamVars, part>>
  /\ Fairness /\ Terminal!Fairness

\* What the decoders of output give: see OutputStreams.
DecodedWhole == Streams!DecodedWhole
=============================================================================
