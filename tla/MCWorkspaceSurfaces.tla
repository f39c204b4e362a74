------------------------ MODULE MCWorkspaceSurfaces ------------------------
(***************************************************************************)
(* WorkspaceSurfaces on two workspaces, which are interchangeable.         *)
(***************************************************************************)
EXTENDS WorkspaceSurfaces, TLC

Symmetry == Permutations(Scopes)
=============================================================================
