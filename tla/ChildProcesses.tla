--------------------------- MODULE ChildProcesses ---------------------------
(***************************************************************************)
(* The two owners of a child process beside each other: AsyncProcess for   *)
(* the tools, PseudoTerminal for what the user runs. They share no state;  *)
(* each has variables of its own, those of PseudoTerminal begin with t_.   *)
(***************************************************************************)
EXTENDS AsyncProcess

CONSTANTS TerminalKids,  \* the descendants of a program in the terminal
          TerminalCodes  \* its exit codes

VARIABLES
  t_ui, t_after, t_run_mode, t_run_active, t_completion, t_group, t_running,
  t_session, t_exit_code, t_master, t_held, t_output, t_reader, t_waiter,
  t_starts, t_delivered, t_alive, t_outside, t_doomed, t_holds, t_unreaped,
  t_tty, t_emitted, t_late

terminalVars ==
  <<t_ui, t_after, t_run_mode, t_run_active, t_completion, t_group, t_running,
    t_session, t_exit_code, t_master, t_held, t_output, t_reader, t_waiter,
    t_starts, t_delivered, t_alive, t_outside, t_doomed, t_holds, t_unreaped,
    t_tty, t_emitted, t_late>>

Terminal == INSTANCE PseudoTerminal WITH
  Kids <- TerminalKids, Codes <- TerminalCodes,
  ui <- t_ui, after <- t_after, run_mode <- t_run_mode, run_active <- t_run_active,
  completion <- t_completion, group <- t_group, running <- t_running,
  session <- t_session, exit_code <- t_exit_code, master <- t_master, held <- t_held,
  output <- t_output, reader <- t_reader, waiter <- t_waiter, starts <- t_starts,
  delivered <- t_delivered, alive <- t_alive, outside <- t_outside,
  doomed <- t_doomed, holds <- t_holds, unreaped <- t_unreaped, tty <- t_tty,
  emitted <- t_emitted, late <- t_late

ASSUME TerminalAssumption == Terminal!PseudoTerminalAssumption

\* What the console of a run or of the debugger shows: see PseudoTerminal.
OutputShown == Terminal!OutputShown

\* The calls of the run session return: see PseudoTerminal.
CallsReturn == Terminal!CallsReturn
=============================================================================
