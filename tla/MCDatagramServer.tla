-------------------------- MODULE MCDatagramServer --------------------------
(***************************************************************************)
(* DatagramServer for TLC: empty, small and large datagrams on the relay,  *)
(* whose buffer holds a large one and a half; three sends of a server with *)
(* a socket of its own.                                                    *)
(***************************************************************************)
EXTENDS DatagramServer

Sizes == <<1, 0, 2, 1, 1, 2>>
=============================================================================
