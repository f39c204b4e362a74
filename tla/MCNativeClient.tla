--------------------------- MODULE MCNativeClient ---------------------------
(***************************************************************************)
(* Small instances of NativeClient for TLC.                                *)
(***************************************************************************)
EXTENDS NativeClient
=============================================================================
