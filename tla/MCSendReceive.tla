--------------------------- MODULE MCSendReceive ---------------------------
(* Instances of SendReceive for TLC. *)
EXTENDS SendReceive
=============================================================================
