---------------------------- MODULE MCProcessTree ----------------------------
(***************************************************************************)
(* ProcessTree for TLC: pools of two, two failing system calls, so that    *)
(* both socket pairs, or a pair and a fork, may fail in one behaviour.     *)
(***************************************************************************)
EXTENDS ProcessTree
=============================================================================
