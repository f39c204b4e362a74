------------------------- MODULE MCTerminalSessions -------------------------
(***************************************************************************)
(* TerminalSessions on a small instance.                                   *)
(***************************************************************************)
EXTENDS TerminalSessions
=============================================================================
