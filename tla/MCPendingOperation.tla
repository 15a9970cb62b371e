------------------------- MODULE MCPendingOperation -------------------------
(* Instances of PendingOperation for TLC. *)
EXTENDS PendingOperation

\* Two timers, so that a handler of one can cancel the other, and a lookup;
\* or a timer, the other lookup and a connect.
Mixes == {<<"timer", "timer", "getaddrinfo">>,
          <<"timer", "getnameinfo", "connect">>}
=============================================================================
