---------------------------- MODULE MCRoutineCall ----------------------------
(* Instances of RoutineCall for TLC. *)
EXTENDS RoutineCall
=============================================================================
