--------------------------- MODULE DatagramServer ---------------------------
(***************************************************************************)
(* Respond\Server\Udp in a worker (server/udp.c).  One that the actor      *)
(* constructed, in a build without SO_REUSEPORT, is sent what the actor    *)
(* receives (mode "relay", DatagramReceive).  One that the worker itself   *)
(* constructed (mode "own"), or that a build with SO_REUSEPORT opens in    *)
(* each worker (mode "shared"), has a UDP socket of its own, on which it   *)
(* receives, sends and, in mode "own", is closed.                          *)
(*                                                                         *)
(* libuv's UDP handle is external: it takes sends in a queue, calls back   *)
(* those that are done in the order of the queue, and when it is closed    *)
(* cancels the others and calls them back before its close callback.       *)
(***************************************************************************)
EXTENDS DatagramReceive

CONSTANTS
    NSends,      \* bound: calls of send()
    NReceived    \* bound: datagrams that reach the socket

ASSUME ServerBounds == NSends \in Nat /\ NReceived \in Nat

VARIABLES
    mode,      \* which server this is
    reactor,   \* resource->reactor and its UDP handle
    sends,     \* state of the request of each send(), in the order of the calls
    promise,   \* state of the promise each send() returned
    received,  \* datagrams "recv" was emitted for
    refs,      \* references to the PHP object the reactor holds
    closed,    \* history: close() was called
    fault      \* the reactor was used when it was closed, freed or missing

own == <<reactor, sends, promise, received, refs, closed, fault>>

\* refused: uv_udp_send returned an error.  ok, failed, cancelled: done, its
\* callback is due.  answered: its callback has run.
Request == {"refused", "queued", "ok", "failed", "cancelled", "answered"}
Due == {"ok", "failed", "cancelled"}

ServerTypeOK ==
    /\ mode \in {"relay", "own", "shared"}
    /\ reactor \in {"none", "open", "closing", "freed"}
    /\ sends \in Seq(Request)
    /\ promise \in [DOMAIN sends -> {"pending", "fulfilled", "rejected"}]
    /\ received \in 0 .. NReceived /\ refs \in Nat
    /\ closed \in BOOLEAN /\ fault \in BOOLEAN

\* worker_udp_init and server_init, or, for a server of the actor with
\* SO_REUSEPORT, actor_udp_init and server_init as worker_init_cb.  A host
\* that is no address leaves the object without a reactor.
ServerInit ==
    /\ Init
    /\ mode \in {"relay", "own", "shared"}
    /\ reactor \in {"none", "open"}
    /\ refs = IF reactor = "open" THEN 1 ELSE 0
    /\ sends = <<>> /\ promise = <<>> /\ received = 0
    /\ closed = FALSE /\ fault = FALSE

HasSocket == mode # "relay" /\ ~fault

\* A method uses a handle that is closing, freed or was never made.
Fault ==
    /\ reactor # "open"
    /\ fault' = TRUE
    /\ UNCHANGED <<reactor, sends, promise, received, refs>>

-----------------------------------------------------------------------------
(* Methods *)

\* $server->send(): udp_send_data ignores what uv_udp_send returns, and the
\* request of a refused send is never called back.
ServerSend ==
    /\ HasSocket /\ Len(sends) < NSends
    /\ \/ Fault
       \/ /\ reactor = "open"
          /\ \E r \in {"queued", "refused"} : sends' = Append(sends, r)
          /\ promise' = Append(promise, "pending")
          /\ UNCHANGED <<reactor, received, refs, fault>>
    /\ UNCHANGED closed

\* $server->close(): only for a server the worker constructed.
ServerClose ==
    /\ HasSocket /\ mode = "own"
    /\ closed' = TRUE
    /\ \/ Fault
       \/ /\ reactor = "open"
          /\ reactor' = "closing"
          /\ UNCHANGED <<sends, promise, received, refs, fault>>

-----------------------------------------------------------------------------
(* The loop *)

\* worker_recv_cb, data_actor_recv_cb: a datagram that is not empty is
\* emitted; its buffer and copy are freed whatever the listeners do.
WorkerRecv ==
    /\ HasSocket /\ reactor = "open" /\ received < NReceived
    /\ received' = received + 1
    /\ UNCHANGED <<reactor, sends, promise, refs, closed, fault>>

\* The first of the queue is sent, or is refused by the kernel; the handle
\* that closes cancels all of it.
QueueMoves ==
    /\ HasSocket
    /\ \/ /\ reactor = "open"
          /\ \E s \in DOMAIN sends, r \in {"ok", "failed"} :
                /\ sends[s] = "queued"
                /\ \A t \in 1 .. s - 1 : sends[t] # "queued"
                /\ sends' = [sends EXCEPT ![s] = r]
       \/ /\ reactor = "closing"
          /\ "queued" \in Range(sends)
          /\ sends' = [s \in DOMAIN sends |->
                          IF sends[s] = "queued" THEN "cancelled" ELSE sends[s]]
    /\ UNCHANGED <<reactor, promise, received, refs, closed, fault>>

\* The send whose callback is next.
IsNext(s) == sends[s] \in Due /\ \A t \in 1 .. s - 1 : sends[t] \notin Due

\* Seeded fault: a send that was not made is not answered.
UdpSendCbOkOnly ==
    /\ HasSocket
    /\ \E s \in DOMAIN sends :
          /\ IsNext(s)
          /\ sends' = [sends EXCEPT ![s] = "answered"]
          /\ promise' = [promise EXCEPT ![s] = IF sends[s] = "ok" THEN "fulfilled" ELSE @]
    /\ UNCHANGED <<reactor, received, refs, closed, fault>>

\* udp_send_cb
UdpSendCb ==
    /\ HasSocket
    /\ \E s \in DOMAIN sends :
          /\ IsNext(s)
          /\ sends' = [sends EXCEPT ![s] = "answered"]
          /\ promise' = [promise EXCEPT ![s] =
                            IF sends[s] = "ok" THEN "fulfilled" ELSE "rejected"]
    /\ UNCHANGED <<reactor, received, refs, closed, fault>>

\* Seeded fault: the reference the reactor holds is kept.
UdpCloseCbKeeps ==
    /\ HasSocket /\ reactor = "closing"
    /\ Range(sends) \cap (Due \cup {"queued"}) = {}
    /\ reactor' = "freed"
    /\ UNCHANGED <<sends, promise, received, refs, closed, fault>>

\* udp_close_cb, after the callbacks of all sends.
UdpCloseCb ==
    /\ HasSocket /\ reactor = "closing"
    /\ Range(sends) \cap (Due \cup {"queued"}) = {}
    /\ reactor' = "freed"
    /\ refs' = refs - 1
    /\ UNCHANGED <<sends, promise, received, closed, fault>>

ServerStep ==
    ServerSend \/ ServerClose \/ WorkerRecv \/ QueueMoves \/ UdpSendCb \/ UdpCloseCb

ServerNext ==
    /\ UNCHANGED mode
    /\ \/ mode = "relay" /\ Next /\ UNCHANGED own
       \/ ServerStep /\ UNCHANGED vars

\* The kernel and the loop do their part.
ServerFairness ==
    /\ Fairness
    /\ WF_own(QueueMoves) /\ WF_own(UdpSendCb) /\ WF_own(UdpCloseCb)

ServerSpec == ServerInit /\ [][ServerNext]_<<vars, mode, own>> /\ ServerFairness

-----------------------------------------------------------------------------
(* Properties *)

\* Every send() on a socket of the worker settles its promise, one that close()
\* overtakes in the queue included, unless uv_udp_send refused it: then nothing
\* tells the caller.  Using the server after close() may end the worker first.
OwnSendSettles ==
    \A s \in 1 .. NSends :
        (s \in DOMAIN sends /\ sends[s] # "refused")
            ~> (fault \/ (s \in DOMAIN sends /\ promise[s] # "pending"))

\* close() gives the server back once, after every send it accepted has been
\* answered, and only the use of a server that is closed, or was given a bad
\* address, goes wrong.  A server of the actor is never given back.
ClosedOnce ==
    /\ refs = IF reactor = "open" \/ reactor = "closing" THEN 1 ELSE 0
    /\ reactor = "freed" => closed /\ \A s \in DOMAIN sends :
          sends[s] \in {"answered", "refused"}
    /\ fault => reactor = "none" \/ closed
    /\ mode = "shared" => ~closed
=============================================================================
