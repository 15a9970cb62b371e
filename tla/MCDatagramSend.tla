--------------------------- MODULE MCDatagramSend ---------------------------
(* Instances of DatagramSend for TLC. *)
EXTENDS DatagramSend
=============================================================================
