---------------------------- MODULE StreamServer ----------------------------
(***************************************************************************)
(* The way of a client's connection to PHP code: Respond\Server\Pipe and   *)
(* Respond\Server\Tcp (server/pipe.c, server/tcp.c), the hand-over half of *)
(* reactor.c and the sockets rp_init_worker_manager makes.                 *)
(*                                                                         *)
(* A pipe server listens in the actor, which passes what it accepts over   *)
(* ipc_pipe; all workers read the other side of that socket and the kernel *)
(* gives each message to one of them.  The manager keeps that side open    *)
(* too, so that messages outlive the workers.  A TCP server does the same  *)
(* in a build without SO_REUSEPORT ("relay"); in a build with it every     *)
(* worker has a listening socket of its own ("reuseport").                 *)
(*                                                                         *)
(* The script may be started more than once at the same address:           *)
(* Instances are the runs of it.  The pool of an instance is abstracted to *)
(* what WorkerManager shows: while the manager lives a dead worker is      *)
(* replaced.                                                               *)
(***************************************************************************)
EXTENDS Naturals, Sequences, FiniteSets, FiniteSetsExt, SequencesExt

CONSTANTS
    NInstances, \* bound: runs of the script, numbered in the order of their start
    PoolSize,   \* bound: workers in the pool of an instance
    Conns,      \* connections clients try to make
    MaxDeaths   \* bound: workers that die while they are managed

ASSUME BoundsAssumption ==
    NInstances \in Nat /\ PoolSize \in Nat /\ MaxDeaths \in Nat

Instances == 1 .. NInstances
Workers == 1 .. PoolSize

VARIABLES
    mode,       \* "pipe", "relay" or "reuseport"
    actor,      \* each actor: "off", "script" (before run()), "loop", "over"
    manager,    \* whether the worker manager of an instance lives
    pool,       \* live workers of an instance that have entered their loop
    listening,  \* processes of an instance with a listening socket
    path,       \* pipe: whose socket the path names, if it exists
    conn,       \* state of each connection
    of, by,     \* the instance that has it, and the process of it
    sending,    \* write queue of the actor's ipc_pipe
    wire,       \* messages in the socket of ipc_pipe
    copy,       \* whether the actor has its descriptor open
    deaths,     \* workers that died while they were managed
    bound,      \* history: instances whose server_init succeeded
    refused,    \* history: connections whose message the kernel refused
    served      \* history: connections given to PHP code

procs == <<mode, actor, manager, pool, listening, path, deaths, bound>>
conns == <<conn, of, by, sending, wire, copy, refused, served>>
vars == <<procs, conns>>

Nobody == 0
Actor == 0
Processes == Workers \cup {Actor}

Init ==
    /\ mode \in {"pipe", "relay", "reuseport"}
    /\ actor = [i \in Instances |-> "off"]
    /\ manager = [i \in Instances |-> FALSE]
    /\ pool = [i \in Instances |-> {}]
    /\ listening = [i \in Instances |-> {}]
    /\ path = Nobody
    /\ conn = [c \in Conns |-> "none"]
    /\ of = [c \in Conns |-> Nobody] /\ by = [c \in Conns |-> Actor]
    /\ sending = [i \in Instances |-> <<>>] /\ wire = [i \in Instances |-> <<>>]
    /\ copy = [c \in Conns |-> FALSE]
    /\ deaths = 0 /\ bound = {} /\ refused = {} /\ served = {}

Listens(i) == Actor \in listening[i]

-----------------------------------------------------------------------------
(* Start of an instance. *)

\* __construct: the reactor is added; nothing is bound yet.
Construct(i) ==
    /\ actor[i] = "off"
    /\ \A j \in 1 .. i - 1 : actor[j] # "off"
    /\ actor' = [actor EXCEPT ![i] = "script"]
    /\ UNCHANGED <<mode, manager, pool, listening, path, deaths, bound, conns>>

\* Seeded fault: server_init of a pipe removes the path before it binds.
BindPipeAnyway(i) ==
    /\ mode = "pipe"
    /\ path' = i
    /\ listening' = [listening EXCEPT ![i] = {Actor}]
    /\ bound' = bound \cup {i}

\* server_init of pipe.c in the actor: uv_pipe_bind fails when the path
\* exists, whoever made it, and uv_listen after it; neither is looked at.
BindPipe(i) ==
    /\ mode = "pipe"
    /\ IF path = Nobody
       THEN /\ path' = i
            /\ listening' = [listening EXCEPT ![i] = {Actor}]
            /\ bound' = bound \cup {i}
       ELSE UNCHANGED <<path, listening, bound>>

\* server_init of tcp.c in the actor: the port is free unless another
\* process listens at it.
BindPort(i) ==
    /\ mode = "relay"
    /\ UNCHANGED path
    /\ IF \A j \in Instances : ~Listens(j)
       THEN /\ listening' = [listening EXCEPT ![i] = {Actor}]
            /\ bound' = bound \cup {i}
       ELSE UNCHANGED <<listening, bound>>

\* rp_init_actor_server; with SO_REUSEPORT there is no server_init_cb.
InitActor(i) ==
    \/ BindPipe(i)
    \/ BindPort(i)
    \/ mode = "reuseport" /\ UNCHANGED <<path, listening, bound>>

\* run(): the manager is forked, then the loop of the actor is initialised.
Run(i) ==
    /\ actor[i] = "script"
    /\ actor' = [actor EXCEPT ![i] = "loop"]
    /\ manager' = [manager EXCEPT ![i] = TRUE]
    /\ InitActor(i)
    /\ UNCHANGED <<mode, pool, deaths, conns>>

\* A forked worker leaves the manager's code and initialises its loop:
\* rp_init_worker_server and, with SO_REUSEPORT, server_init of tcp.c.  It
\* has the lowest number that is free.
WorkerStarts(i, w) ==
    /\ manager[i] /\ Workers \ pool[i] # {} /\ w = Min(Workers \ pool[i])
    /\ pool' = [pool EXCEPT ![i] = @ \cup {w}]
    /\ listening' = IF mode = "reuseport"
                    THEN [listening EXCEPT ![i] = @ \cup {w}] ELSE listening
    /\ UNCHANGED <<mode, actor, manager, path, deaths, bound, conns>>

-----------------------------------------------------------------------------
(* A connection. *)

\* The kernel puts a connection in the backlog of a process that listens.
\* The path leads to one socket; connections to a port with several
\* listening sockets are spread over them.
Connect(c) ==
    /\ conn[c] = "none"
    /\ \E i \in Instances, p \in Processes :
          /\ p \in listening[i]
          /\ mode = "pipe" => path = i
          /\ conn' = [conn EXCEPT ![c] = "backlog"]
          /\ of' = [of EXCEPT ![c] = i] /\ by' = [by EXCEPT ![c] = p]
    /\ UNCHANGED <<procs, sending, wire, copy, refused, served>>

\* ipc_connection_cb and rp_reactor_ipc_send: the actor accepts and writes
\* the descriptor to ipc_pipe.
AcceptAndSend(c) ==
    /\ conn[c] = "backlog" /\ by[c] = Actor
    /\ conn' = [conn EXCEPT ![c] = "sending"]
    /\ copy' = [copy EXCEPT ![c] = TRUE]
    /\ sending' = [sending EXCEPT ![of[c]] = Append(@, c)]
    /\ UNCHANGED <<procs, of, by, wire, refused, served>>

\* accepted_cb: a Connection is made and emitted as "connect".
Accepted(c) ==
    /\ conn' = [conn EXCEPT ![c] = "served"]
    /\ served' = served \cup {c}

\* socket_connection_cb: the worker keeps what it accepts.
AcceptHere(c) ==
    /\ conn[c] = "backlog" /\ by[c] \in Workers
    /\ Accepted(c)
    /\ UNCHANGED <<procs, of, by, sending, wire, copy, refused>>

\* sendmsg of the oldest message: the kernel takes it while a process has
\* the other side open, or refuses it.
SendMsg(i) ==
    /\ sending[i] # <<>>
    /\ LET c == Head(sending[i]) IN
       \/ /\ manager[i] \/ pool[i] # {}
          /\ conn' = [conn EXCEPT ![c] = "wire"]
          /\ wire' = [wire EXCEPT ![i] = Append(@, c)]
          /\ UNCHANGED refused
       \/ /\ conn' = [conn EXCEPT ![c] = "closed"]
          /\ refused' = refused \cup {c}
          /\ UNCHANGED wire
    /\ sending' = [sending EXCEPT ![i] = Tail(@)]
    /\ UNCHANGED <<procs, of, by, copy, served>>

\* Seeded fault: write2_cb closes the descriptor of sent messages only.
Write2CbSentOnly(c) ==
    /\ copy[c] /\ conn[c] # "sending" /\ c \notin refused
    /\ copy' = [copy EXCEPT ![c] = FALSE]
    /\ UNCHANGED <<procs, conn, of, by, sending, wire, refused, served>>

\* write2_cb: the actor's descriptor is closed whatever the status.
Write2Cb(c) ==
    /\ copy[c] /\ conn[c] # "sending"
    /\ copy' = [copy EXCEPT ![c] = FALSE]
    /\ UNCHANGED <<procs, conn, of, by, sending, wire, refused, served>>

\* Seeded fault: a message that was read stays for the next worker.
TakeLeaves(i, w) ==
    /\ w \in pool[i] /\ wire[i] # <<>>
    /\ Accepted(Head(wire[i]))
    /\ by' = [by EXCEPT ![Head(wire[i])] = w]
    /\ UNCHANGED <<procs, of, sending, wire, copy, refused>>

\* rp_reactor_ipc_receive and rp_accept_client: a worker takes the oldest
\* message, with its descriptor, for its copy of the server.
Take(i, w) ==
    /\ w \in pool[i] /\ wire[i] # <<>>
    /\ Accepted(Head(wire[i]))
    /\ by' = [by EXCEPT ![Head(wire[i])] = w]
    /\ wire' = [wire EXCEPT ![i] = Tail(@)]
    /\ UNCHANGED <<procs, of, sending, copy, refused>>

\* The connection ends in the worker that serves it (StreamConnection).
CloseConn(c) ==
    /\ conn[c] = "served"
    /\ conn' = [conn EXCEPT ![c] = "closed"]
    /\ UNCHANGED <<procs, of, by, sending, wire, copy, refused, served>>

-----------------------------------------------------------------------------
(* Ends of processes. *)

\* The connections the processes P of i have are closed with them; when they
\* were the last to have the other side of ipc_pipe, so are the messages in there.
Drop(i, P, last) ==
    /\ conn' = [c \in Conns |->
                  IF /\ of[c] = i
                     /\ \/ by[c] \in P /\ conn[c] \in {"backlog", "sending", "served"}
                        \/ last /\ conn[c] = "wire"
                  THEN "closed" ELSE conn[c]]
    /\ wire' = IF last THEN [wire EXCEPT ![i] = <<>>] ELSE wire

\* Seeded fault: the manager does not keep its side of ipc_pipe open.
WorkerDiesLast(i, w) ==
    /\ w \in pool[i]
    /\ IF manager[i] THEN deaths < MaxDeaths /\ deaths' = deaths + 1
                     ELSE UNCHANGED deaths
    /\ pool' = [pool EXCEPT ![i] = @ \ {w}]
    /\ listening' = [listening EXCEPT ![i] = @ \ {w}]
    /\ Drop(i, {w}, pool[i] = {w})
    /\ UNCHANGED <<mode, actor, manager, path, bound, of, by, sending, copy,
                   refused, served>>

\* A worker dies: of itself, or because its manager did.
WorkerDies(i, w) ==
    /\ w \in pool[i]
    /\ IF manager[i] THEN deaths < MaxDeaths /\ deaths' = deaths + 1
                     ELSE UNCHANGED deaths
    /\ pool' = [pool EXCEPT ![i] = @ \ {w}]
    /\ listening' = [listening EXCEPT ![i] = @ \ {w}]
    /\ Drop(i, {w}, pool[i] = {w} /\ ~manager[i])
    /\ UNCHANGED <<mode, actor, manager, path, bound, of, by, sending, copy,
                   refused, served>>

\* The manager follows its actor (WorkerManager).
ManagerDies(i) ==
    /\ manager[i] /\ actor[i] = "over"
    /\ manager' = [manager EXCEPT ![i] = FALSE]
    /\ Drop(i, {}, pool[i] = {})
    /\ UNCHANGED <<mode, actor, pool, listening, path, deaths, bound, of, by,
                   sending, copy, refused, served>>

\* releaseResource of pipe.c, as the script of an actor ends: the path is
\* removed, whoever made it.  The reactor it is read from is freed before
\* when a PHP variable still holds the server, so the path may stay as well.
Unlink ==
    IF mode = "pipe" THEN path' \in {path, Nobody} ELSE UNCHANGED path

\* The actor is over: end(), a return of run() and of the script with or
\* without a run(), or a crash.
ActorEnds(i) ==
    /\ actor[i] \in {"script", "loop"}
    /\ actor' = [actor EXCEPT ![i] = "over"]
    /\ listening' = [listening EXCEPT ![i] = @ \ {Actor}]
    /\ Unlink
    /\ Drop(i, {Actor}, FALSE)
    /\ sending' = [sending EXCEPT ![i] = <<>>]
    /\ copy' = [c \in Conns |-> copy[c] /\ of[c] # i]
    /\ UNCHANGED <<mode, manager, pool, deaths, bound, of, by, refused, served>>

-----------------------------------------------------------------------------

Next ==
    \/ \E i \in Instances :
          Construct(i) \/ Run(i) \/ SendMsg(i) \/ ManagerDies(i) \/ ActorEnds(i)
    \/ \E i \in Instances, w \in Workers :
          WorkerStarts(i, w) \/ Take(i, w) \/ WorkerDies(i, w)
    \/ \E c \in Conns :
          Connect(c) \/ AcceptAndSend(c) \/ AcceptHere(c) \/ Write2Cb(c) \/ CloseConn(c)

\* The loops run, and managers replace their workers.
Fairness ==
    /\ \A c \in Conns :
          WF_vars(AcceptAndSend(c)) /\ WF_vars(AcceptHere(c)) /\ WF_vars(Write2Cb(c))
    /\ \A i \in Instances :
          /\ WF_vars(SendMsg(i))
          /\ WF_vars(\E w \in Workers : WorkerStarts(i, w))
          /\ WF_vars(\E w \in Workers : Take(i, w))

Spec == Init /\ [][Next]_vars /\ Fairness

-----------------------------------------------------------------------------
(* Properties *)

TypeOK ==
    /\ actor \in [Instances -> {"off", "script", "loop", "over"}]
    /\ manager \in [Instances -> BOOLEAN] /\ deaths \in 0 .. MaxDeaths
    /\ \A i \in Instances :
          /\ pool[i] \subseteq Workers /\ listening[i] \subseteq pool[i] \cup {Actor}
          /\ IsInjective(sending[i] \o wire[i])
    /\ path \in Instances \cup {Nobody} /\ bound \subseteq Instances
    /\ conn \in [Conns -> {"none", "backlog", "sending", "wire", "served", "closed"}]
    /\ copy \in [Conns -> BOOLEAN] /\ served \subseteq Conns /\ refused \subseteq Conns

\* A connection is in one place: the backlog or the queue of a live actor,
\* the socket of ipc_pipe while some process can read it, or one live worker
\* that accepted or took it.  In particular it never reaches two workers.
OneHolder ==
    TypeOK /\ \A c \in Conns :
        LET i == of[c] IN
        /\ \A j \in Instances : c \in Range(sending[j]) <=> conn[c] = "sending" /\ j = i
        /\ \A j \in Instances : c \in Range(wire[j]) <=> conn[c] = "wire" /\ j = i
        /\ conn[c] = "sending" => actor[i] = "loop"
        /\ conn[c] = "backlog" => by[c] \in listening[i]
        /\ conn[c] = "wire" => manager[i] \/ pool[i] # {}
        /\ conn[c] = "served" => by[c] \in pool[i]

\* A connection that was accepted is lost before PHP code gets it only when
\* the kernel refused its message or its actor is over: the death of workers,
\* of all of them at once too, loses none.  Only with SO_REUSEPORT are the
\* connections a worker has not accepted lost with it.
LostBeforeServed ==
    \A c \in Conns : conn[c] = "closed" /\ c \notin served =>
        \/ c \in refused
        \/ actor[of[c]] = "over"
        \/ mode = "reuseport" /\ deaths > 0

\* Two instances of one pipe server listen at the same time only after a
\* third one, which never bound the path, ended and removed it: that takes a
\* live server off its path.  Two instances of a TCP server never do.
TwoListenersNeedAThird ==
    Cardinality({i \in Instances : Listens(i)}) > 1 =>
        /\ mode = "pipe"
        /\ \E j \in Instances \ bound : actor[j] = "over"

\* A client whose connection was taken from the kernel is served or hears
\* that it was closed: every copy of the descriptor is closed in the end,
\* the actor's too.
ClientIsAnswered ==
    \A c \in Conns :
        conn[c] # "none" ~> conn[c] = "served" \/ (conn[c] = "closed" /\ ~copy[c])
=============================================================================
