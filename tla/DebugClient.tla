---------------------------- MODULE DebugClient ----------------------------
(* DebugClient (src/src/debug_client.cpp) with the lldb-dap back end: every   *)
(* call is handed to its LldbDapClient as it is, and the answer is the        *)
(* client's. (With the gdb back end it is GdbClient that is called; the two   *)
(* clients share no state.)                                                   *)
EXTENDS Integers

CONSTANTS Keys, Resolvable, Saved, Watches, Threads, Depth, Failing, MayDie, MaxOps,
          MaxSessions, MaxLeft, MaxStops  \* those of LldbDap

VARIABLES client, adapter, window  \* lldb_, the adapter it drives, and IdeWindow

Lldb == INSTANCE LldbDap WITH ui <- window

ASSUME LldbAssumption == Lldb!LldbDapAssumption

LldbSpec == Lldb!Spec

\* The breakpoints of a session are those of the window: see LldbDap.
BreakpointsAgree == Lldb!BreakpointsAgree

\* Client and adapter agree on the state of the program, in a session that began with
\* nothing left by an earlier adapter: see LldbDap.
SessionAgrees == Lldb!SessionAgrees

\* The panels show the frame that is selected: see LldbDap.
ShownIsCurrent == Lldb!ShownIsCurrent
=============================================================================
