---------------------------- MODULE MCSecureStream ----------------------------
(* Instances of SecureStream for TLC. *)
EXTENDS SecureStream
=============================================================================
