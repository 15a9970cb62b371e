---------------------------- MODULE MCCombinators ----------------------------
(***************************************************************************)
(* Combinators for TLC: two promises of the user, a call of all() or       *)
(* race() with up to two inputs, the same one twice included, one async    *)
(* function, and five acts of PHP code.  That is enough to call, settle    *)
(* both inputs and chain on one of them again.  then() and catch() of the  *)
(* user take one slot each, the slots the closures of the library are in.  *)
(***************************************************************************)
EXTENDS Combinators
=============================================================================
