---------------------------- MODULE MCSidecarLoop ----------------------------
(***************************************************************************)
(* Small instances of SidecarLoop for TLC.                                 *)
(***************************************************************************)
EXTENDS SidecarLoop
=============================================================================
