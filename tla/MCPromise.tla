----------------------------- MODULE MCPromise -----------------------------
(***************************************************************************)
(* Promise for TLC: all forms of then() on heaps of three promises, and    *)
(* only onFullfilled and no handler at all on heaps of four.               *)
(***************************************************************************)
EXTENDS Promise

SmallForms ==
    Len(obj) > 3 => \A p \in DOMAIN obj :
        obj[p].onRejected.kind = "none" /\ obj[p].onFinaled.kind = "none"
=============================================================================
