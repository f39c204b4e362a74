--------------------------- MODULE MCPromptTurns ---------------------------
(***************************************************************************)
(* Small instances of PromptTurns for TLC.                                 *)
(***************************************************************************)
EXTENDS PromptTurns, TLC

PromptSymmetry == Permutations(Prompts)
=============================================================================
