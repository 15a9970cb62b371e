-------------------------- MODULE MCHttpConnection --------------------------
(***************************************************************************)
(* HttpConnection for TLC, and with it StreamConnection: two requests, the *)
(* first with a body, so that both reads of a behaviour may split one, or  *)
(* hold both.                                                              *)
(***************************************************************************)
EXTENDS HttpConnection

TwoRequests == <<[start |-> 0, header |-> 2], [start |-> 3, header |-> 1]>>
=============================================================================
