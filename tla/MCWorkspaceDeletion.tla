------------------------ MODULE MCWorkspaceDeletion ------------------------
(***************************************************************************)
(* Small instances of WorkspaceDeletion for TLC.                           *)
(***************************************************************************)
EXTENDS WorkspaceDeletion, TLC

Symmetry ==
    Permutations(Deleters) \cup Permutations(Clearers)
        \cup Permutations(Sessions)
=============================================================================
