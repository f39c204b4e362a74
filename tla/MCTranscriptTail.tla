-------------------------- MODULE MCTranscriptTail --------------------------
(***************************************************************************)
(* The instances of TranscriptTail that TLC checks: the bounds are in the  *)
(* configurations.  transcript_tail: two turns with every fault;           *)
(* transcript_renamed: the same without faults and late deltas.            *)
(***************************************************************************)
EXTENDS TranscriptTail
=============================================================================
