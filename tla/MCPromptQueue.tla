--------------------------- MODULE MCPromptQueue ---------------------------
(***************************************************************************)
(* Small instances of PromptQueue for TLC.                                 *)
(***************************************************************************)
EXTENDS PromptQueue, TLC

\* Prompts are interchangeable: no definition names one.
PromptSymmetry == Permutations(Prompts)
=============================================================================
