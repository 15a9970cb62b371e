--------------------------- MODULE DatagramReceive ---------------------------
(***************************************************************************)
(* Datagrams on their way from the actor's UDP socket over data_pipe to    *)
(* the "recv" listeners of a worker, in a build without SO_REUSEPORT       *)
(* (server/udp.c, reactor.c).  data_pipe is a byte stream that all workers *)
(* read.  A message is a header and the datagram; a reader takes what its  *)
(* read returned for one whole message.                                    *)
(*                                                                         *)
(* Bytes are counted in cells: message d has Size[d] of them, the first    *)
(* with its header, and a read returns at most Buffer.                     *)
(***************************************************************************)
EXTENDS Naturals, Sequences, SequencesExt

CONSTANTS
    Workers,   \* the worker processes
    Size,      \* cells of each datagram, in order of arrival; 0: it is empty
    Buffer     \* cells a read returns at most

ASSUME SizesAssumption == Size \in Seq(Nat) /\ Buffer \in Nat \ {0}

Datagrams == 1 .. Len(Size)
Message(d) == [i \in 1 .. Size[d] |-> <<d, i>>]

VARIABLES
    arrived,   \* datagrams the actor has received
    sending,   \* cells in the write queue of the actor's data_pipe
    pipe,      \* cells in the socket
    events,    \* datagrams each worker emitted "recv" for
    short,     \* history: datagrams emitted before all of them was read
    skipped,   \* history: datagrams read behind another one
    split,     \* history: datagrams a read ended in
    wild       \* whether a worker took data for a header

vars == <<arrived, sending, pipe, events, short, skipped, split, wild>>

Init ==
    /\ arrived = 0 /\ sending = <<>> /\ pipe = <<>>
    /\ events = [w \in Workers |-> <<>>]
    /\ short = {} /\ skipped = {} /\ split = {} /\ wild = FALSE

\* actor_recv_cb and rp_reactor_data_send; an empty datagram is passed over.
ActorRecv ==
    /\ arrived < Len(Size)
    /\ arrived' = arrived + 1
    /\ sending' = sending \o Message(arrived + 1)
    /\ UNCHANGED <<pipe, events, short, skipped, split, wild>>

\* Seeded fault: the end of the queue waits for the next message.
KernelWriteLagging ==
    /\ Len(sending) > 1
    /\ pipe' = Append(pipe, Head(sending))
    /\ sending' = Tail(sending)
    /\ UNCHANGED <<arrived, events, short, skipped, split, wild>>

\* The kernel takes some bytes of the write queue.
KernelWrite ==
    /\ sending # <<>>
    /\ pipe' = Append(pipe, Head(sending))
    /\ sending' = Tail(sending)
    /\ UNCHANGED <<arrived, events, short, skipped, split, wild>>

\* What a read returns: all there is, as far as the buffer goes.
ReadLen == IF Len(pipe) < Buffer THEN Len(pipe) ELSE Buffer

\* The last datagram of a read of n cells, if the read ended inside it.
EndsIn(n) == LET c == pipe[n] IN IF c[2] < Size[c[1]] THEN {c[1]} ELSE {}

\* data_actor_recv_cb: a worker emits "recv" for datagram d.
Emit(w, d) == events' = [events EXCEPT ![w] = Append(@, d)]

\* Seeded fault: the last message of a read is emitted, not the first.
DataReceiveLast(w) ==
    LET n == ReadLen IN
    /\ ~wild /\ pipe # <<>>
    /\ pipe' = SubSeq(pipe, n + 1, Len(pipe))
    /\ split' = split \cup EndsIn(n)
    /\ Emit(w, pipe[n][1])
    /\ UNCHANGED <<arrived, sending, short, skipped, wild>>

\* rp_reactor_data_receive: the first message of the read is emitted and the
\* rest of the read is freed with it.  A read that begins inside a message
\* takes data for a reactor.
DataReceive(w) ==
    LET n == ReadLen
        d == pipe[1][1]
        here == {pipe[i][1] : i \in 1 .. n}
    IN
    /\ ~wild /\ pipe # <<>>
    /\ pipe' = SubSeq(pipe, n + 1, Len(pipe))
    /\ split' = split \cup EndsIn(n)
    /\ \/ /\ pipe[1][2] = 1
          /\ Emit(w, d)
          /\ short' = IF n < Size[d] THEN short \cup {d} ELSE short
          /\ skipped' = skipped \cup (here \ {d})
          /\ UNCHANGED wild
       \/ /\ pipe[1][2] # 1
          /\ wild' = TRUE
          /\ UNCHANGED <<events, short, skipped>>
    /\ UNCHANGED <<arrived, sending>>

Next == ActorRecv \/ KernelWrite \/ \E w \in Workers : DataReceive(w)

\* The kernel sends what is written, and some worker reads what is there.
Fairness == WF_vars(KernelWrite) /\ WF_vars(\E w \in Workers : DataReceive(w))

Spec == Init /\ [][Next]_vars /\ Fairness

-----------------------------------------------------------------------------
(* Properties *)

Emitted == UNION {Range(events[w]) : w \in Workers}
InTransit == {c[1] : c \in {x \in Range(sending \o pipe) : x[2] = 1}}

\* Types; a message is whole or only its front is gone.
TypeOK ==
    /\ arrived \in 0 .. Len(Size)
    /\ Range(sending \o pipe) \subseteq UNION {Range(Message(d)) : d \in 1 .. arrived}
    /\ \A c \in Range(pipe \o sending) : c[2] < Size[c[1]] =>
          <<c[1], c[2] + 1>> \in Range(pipe \o sending)
    /\ events \in [Workers -> Seq(Datagrams)]
    /\ short \subseteq Datagrams /\ skipped \subseteq Datagrams
    /\ split \subseteq Datagrams /\ wild \in BOOLEAN

\* Although all workers read one stream, a datagram that is not empty is in
\* exactly one place: on its way, emitted by one worker and once, or lost
\* because it was read behind another one.  A worker runs wild, taking data
\* for a header, only after a read that ended inside a message: its buffer
\* was full, or the actor had not written the rest.
EachOnce ==
    /\ TypeOK
    /\ \A v, w \in Workers : v # w => Range(events[v]) \cap Range(events[w]) = {}
    /\ \A w \in Workers : IsInjective(events[w])
    /\ InTransit \cap Emitted = {} /\ Emitted \cap skipped = {} /\ skipped \cap InTransit = {}
    /\ wild => split # {}
    /\ ~wild => {d \in 1 .. arrived : Size[d] > 0} = InTransit \cup Emitted \cup skipped

\* What the actor received leaves the pipe, unless a worker ran wild.
Drained == <>[](sending = <<>> /\ (pipe = <<>> \/ wild))
=============================================================================
