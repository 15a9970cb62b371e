----------------------------- MODULE RoutineCall -----------------------------
(***************************************************************************)
(* A call of $routine->execute(), from the process that makes it (the      *)
(* actor or a worker) over the shared routine socket to one of the routine *)
(* processes and back (server/routine.c, the ipc half of reactor.c).       *)
(*                                                                         *)
(* Each call has a socket pair of its own.  The caller reads one end, the  *)
(* other is passed over routine_pipe; all routines read the other side of  *)
(* that socket and the kernel gives a message to one of them.  The caller  *)
(* learns that nobody will answer from end-of-file, which its end reports  *)
(* once every copy of the passed end is closed: its own copy, the one in   *)
(* the message in flight, and the one of the routine that took it.         *)
(*                                                                         *)
(* Routines die at any time and are not replaced (WorkerManager).          *)
(* Arguments and results are abstracted; Big are the calls whose result    *)
(* is longer than one read.                                                *)
(***************************************************************************)
EXTENDS Naturals, Sequences, FiniteSets

CONSTANTS
    NCalls,    \* bound: calls of execute()
    Routines,  \* the routine processes
    Big        \* calls with a result of two reads

Calls == 1 .. NCalls
NoCall == 0
Size(c) == IF c \in Big THEN 2 ELSE 1

ASSUME CallsAssumption ==
    /\ NCalls \in Nat
    /\ Big \subseteq Calls

VARIABLES
    role,      \* task_type of the caller: "ACTOR" or "WORKER"
    inited,    \* main_loop_inited()
    made,      \* number of calls made; call c is the c-th
    queue,     \* rp_reactors_async_inits, in index order
    table,     \* resource->routine_executions
    promise,   \* state of routine_execution->promise
    pipe,      \* routine_execution->pipe
    own,       \* calls whose passed end the caller has open
    sending,   \* write queue of routine_pipe
    written,   \* calls whose write2_cb is due
    wire,      \* messages in the shared routine socket
    running,   \* the call each routine executes
    holds,     \* calls whose end a routine has open after the execution
    left,      \* reads' worth of a result the routine has yet to write
    stream,    \* reads' worth of a result the caller has yet to read
    alive,     \* routines that have not died
    begun,     \* history: executions in the order they began
    ended,     \* history: calls whose execution returned
    lost       \* history: calls that were lost, see Die, SendFails and Start

callerVars == <<role, inited, made, queue, table, promise, pipe, own, sending, written>>
routineVars == <<running, holds, left, alive>>
vars == <<callerVars, wire, stream, routineVars, begun, ended, lost>>

Init ==
    /\ role \in {"ACTOR", "WORKER"} /\ inited = FALSE
    /\ made = 0 /\ queue = <<>> /\ table = {}
    /\ promise = [c \in Calls |-> "none"]
    /\ pipe = [c \in Calls |-> "none"]
    /\ own = {} /\ sending = <<>> /\ written = {} /\ wire = <<>>
    /\ running = [r \in Routines |-> NoCall]
    /\ holds = [r \in Routines |-> {}]
    /\ left = [c \in Calls |-> 0] /\ stream = [c \in Calls |-> 0]
    /\ alive = Routines
    /\ begun = <<>> /\ ended = {} /\ lost = {}

ElementsOf(s) == {s[i] : i \in 1 .. Len(s)}

(***************************************************************************)
(* The caller.                                                             *)
(***************************************************************************)

\* Seeded fault: the end is closed without waiting for write2_cb.
AddClosing(s) ==
    LET C == ElementsOf(s) IN
    /\ table' = table \cup C
    /\ pipe' = [c \in Calls |-> IF c \in C THEN "open" ELSE pipe[c]]
    /\ UNCHANGED own
    /\ sending' = sending \o s

\* routine_execution_add of the calls of s, in order.
Add(s) ==
    LET C == ElementsOf(s) IN
    /\ table' = table \cup C
    /\ pipe' = [c \in Calls |-> IF c \in C THEN "open" ELSE pipe[c]]
    /\ own' = own \cup C
    /\ sending' = sending \o s

\* rp_reactor_async_init_ex: at once when the loop runs, else queued.
AsyncInit(c) ==
    IF inited
    THEN Add(<<c>>) /\ UNCHANGED queue
    ELSE queue' = Append(queue, c) /\ UNCHANGED <<table, pipe, own, sending>>

\* routine_async_cb_worker_free of the queued calls.
FreeQueued ==
    /\ promise' = [c \in Calls |->
                     IF c \in ElementsOf(queue) THEN "dropped" ELSE promise[c]]
    /\ lost' = lost \cup ElementsOf(queue)

\* $routine->execute()
Execute ==
    /\ made < NCalls
    /\ made' = made + 1
    /\ promise' = [promise EXCEPT ![made + 1] = "pending"]
    /\ AsyncInit(made + 1)
    /\ UNCHANGED <<role, inited, written, wire, stream, routineVars, begun, ended, lost>>

\* The loop of the caller starts.  The actor runs the init callbacks of the
\* queue, a worker the free callbacks; neither empties the queue.
Start ==
    /\ ~inited /\ inited' = TRUE
    /\ IF role = "ACTOR"
       THEN Add(queue) /\ UNCHANGED <<promise, lost>>
       ELSE FreeQueued /\ UNCHANGED <<table, pipe, own, sending>>
    /\ UNCHANGED <<role, made, queue, written, wire, stream, routineVars, begun, ended>>

\* The kernel takes the first message of the write queue.
Send ==
    /\ sending # <<>>
    /\ wire' = Append(wire, Head(sending))
    /\ sending' = Tail(sending)
    /\ written' = written \cup {Head(sending)}
    /\ UNCHANGED <<role, inited, made, queue, table, promise, pipe, own, stream,
                   routineVars, begun, ended, lost>>

\* It refuses the message (too many descriptors in flight).  write2_cb does
\* not look at the status.
SendFails ==
    /\ sending # <<>>
    /\ sending' = Tail(sending)
    /\ written' = written \cup {Head(sending)}
    /\ lost' = lost \cup {Head(sending)}
    /\ UNCHANGED <<role, inited, made, queue, table, promise, pipe, own, wire, stream,
                   routineVars, begun, ended>>

\* Seeded fault: the caller keeps the passed end.
Write2CbLeaks(c) ==
    /\ c \in written
    /\ written' = written \ {c}
    /\ UNCHANGED <<role, inited, made, queue, table, promise, pipe, own, sending, wire,
                   stream, routineVars, begun, ended, lost>>

\* write2_cb
Write2Cb(c) ==
    /\ c \in written
    /\ written' = written \ {c}
    /\ own' = own \ {c}
    /\ UNCHANGED <<role, inited, made, queue, table, promise, pipe, sending, wire, stream,
                   routineVars, begun, ended, lost>>

\* The kernel: some copy of the passed end of c is open.
SomeoneMayWrite(c) ==
    \/ c \in own
    \/ c \in ElementsOf(wire)
    \/ \E r \in alive : running[r] = c \/ c \in holds[r]

\* routine_result_read_cb, status > 0: what the first read returned is
\* unserialized, the promise resolved and the pipe closed.
ReadResult(c) ==
    /\ pipe[c] = "open" /\ stream[c] > 0
    /\ stream' = [stream EXCEPT ![c] = 0]
    /\ promise' = [promise EXCEPT ![c] = "resolved"]
    /\ pipe' = [pipe EXCEPT ![c] = "closing"]
    /\ UNCHANGED <<role, inited, made, queue, table, own, sending, written, wire,
                   routineVars, begun, ended, lost>>

\* Seeded fault: the status is not tested.
ReadEofResolves(c) ==
    /\ pipe[c] = "open" /\ stream[c] = 0 /\ ~SomeoneMayWrite(c)
    /\ promise' = [promise EXCEPT ![c] = "resolved"]
    /\ pipe' = [pipe EXCEPT ![c] = "closing"]
    /\ UNCHANGED <<role, inited, made, queue, table, own, sending, written, wire, stream,
                   routineVars, begun, ended, lost>>

\* routine_result_read_cb, status < 0: the pipe is closed, nothing settled.
ReadEof(c) ==
    /\ pipe[c] = "open" /\ stream[c] = 0 /\ ~SomeoneMayWrite(c)
    /\ pipe' = [pipe EXCEPT ![c] = "closing"]
    /\ UNCHANGED <<role, inited, made, queue, table, promise, own, sending, written, wire,
                   stream, routineVars, begun, ended, lost>>

\* routine_result_close_cb: the table frees the execution and its promise.
CloseCb(c) ==
    /\ pipe[c] = "closing"
    /\ pipe' = [pipe EXCEPT ![c] = "closed"]
    /\ table' = table \ {c}
    /\ promise' = [promise EXCEPT ![c] = IF @ = "pending" THEN "dropped" ELSE @]
    /\ UNCHANGED <<role, inited, made, queue, own, sending, written, wire, stream,
                   routineVars, begun, ended, lost>>

(***************************************************************************)
(* The routines.                                                           *)
(***************************************************************************)

\* rp_reactor_ipc_receive, rp_accept_client and accepted_cb up to the call of
\* the PHP function.
Take(r) ==
    /\ r \in alive /\ running[r] = NoCall /\ wire # <<>>
    /\ running' = [running EXCEPT ![r] = Head(wire)]
    /\ begun' = Append(begun, Head(wire))
    /\ wire' = Tail(wire)
    /\ UNCHANGED <<callerVars, stream, holds, left, alive, ended, lost>>

\* The function returns: the result is written, as far as the socket takes it
\* at once, and the shutdown queued behind it.
Return(r) ==
    LET c == running[r] IN
    /\ r \in alive /\ c # NoCall
    /\ \E n \in 0 .. Size(c) :
         /\ stream' = [stream EXCEPT ![c] = n]
         /\ left' = [left EXCEPT ![c] = Size(c) - n]
    /\ ended' = ended \cup {c}
    /\ holds' = [holds EXCEPT ![r] = @ \cup {c}]
    /\ running' = [running EXCEPT ![r] = NoCall]
    /\ UNCHANGED <<callerVars, wire, alive, begun, lost>>

\* The rest of a result goes out when there is room.  Once the caller has
\* closed its end the write fails, which routine_result_write_cb ignores.
WriteRest(r, c) ==
    /\ r \in alive /\ c \in holds[r] /\ left[c] > 0
    /\ IF pipe[c] = "open"
       THEN /\ stream' = [stream EXCEPT ![c] = @ + 1]
            /\ left' = [left EXCEPT ![c] = @ - 1]
       ELSE left' = [left EXCEPT ![c] = 0] /\ UNCHANGED stream
    /\ UNCHANGED <<callerVars, wire, running, holds, alive, begun, ended, lost>>

\* The write queue is empty: the shutdown, routine_result_shutdown_cb, uv_close.
ShutdownCb(r, c) ==
    /\ r \in alive /\ c \in holds[r] /\ left[c] = 0
    /\ holds' = [holds EXCEPT ![r] = @ \ {c}]
    /\ UNCHANGED <<callerVars, wire, stream, running, left, alive, begun, ended, lost>>

\* A routine dies.  It takes with it the call it executes and the results of
\* which nothing is written.
Die(r) ==
    /\ r \in alive
    /\ alive' = alive \ {r}
    /\ lost' = lost \cup {c \in Calls : running[r] = c}
                    \cup {c \in holds[r] : left[c] = Size(c)}
    /\ UNCHANGED <<callerVars, wire, stream, running, holds, left, begun, ended>>

Next ==
    \/ Execute \/ Start \/ Send \/ SendFails
    \/ \E c \in Calls : Write2Cb(c) \/ ReadResult(c) \/ ReadEof(c) \/ CloseCb(c)
    \/ \E r \in Routines : Take(r) \/ Return(r) \/ Die(r)
    \/ \E r \in Routines, c \in Calls : WriteRest(r, c) \/ ShutdownCb(r, c)

(***************************************************************************)
(* Every loop serves what is ready, and the PHP function returns.  Nothing *)
(* makes PHP call execute() or run(), and no routine has to die.           *)
(***************************************************************************)
Fairness ==
    /\ WF_vars(Send)
    /\ \A c \in Calls :
         WF_vars(Write2Cb(c)) /\ WF_vars(ReadResult(c))
           /\ WF_vars(ReadEof(c)) /\ WF_vars(CloseCb(c))
    /\ \A r \in Routines : WF_vars(Take(r)) /\ WF_vars(Return(r))
    /\ \A r \in Routines, c \in Calls : WF_vars(WriteRest(r, c)) /\ WF_vars(ShutdownCb(r, c))

Spec == Init /\ [][Next]_vars
FairSpec == Spec /\ Fairness
-----------------------------------------------------------------------------
(***************************************************************************)
(* Properties.                                                             *)
(***************************************************************************)

\* Types; the table of executions (routine_executions) has an entry exactly
\* while the pipe of the execution is not closed.
TypeOK ==
    /\ role \in {"ACTOR", "WORKER"} /\ inited \in BOOLEAN
    /\ made \in 0 .. NCalls /\ queue \in Seq(Calls)
    /\ promise \in [Calls -> {"none", "pending", "resolved", "dropped"}]
    /\ pipe \in [Calls -> {"none", "open", "closing", "closed"}]
    /\ table = {c \in Calls : pipe[c] \in {"open", "closing"}}
    /\ own \subseteq Calls /\ written \subseteq Calls
    /\ sending \in Seq(Calls) /\ wire \in Seq(Calls)
    /\ running \in [Routines -> Calls \cup {NoCall}]
    /\ holds \in [Routines -> SUBSET Calls]
    /\ left \in [Calls -> 0 .. 2] /\ stream \in [Calls -> 0 .. 2]
    /\ alive \subseteq Routines
    /\ begun \in Seq(Calls) /\ ended \subseteq Calls /\ lost \subseteq Calls

\* The promise of a call is released unsettled only if the call was lost: it
\* was queued in a worker before run(), its message was refused, or the routine
\* that had it died before it wrote anything.  In particular end-of-file never
\* overtakes a message in flight or a result (routine.c 56-68, reactor.c 157-161):
\* nobody executes, will execute, or has an unwritten result of such a call.
OnlyLostAreDropped ==
    /\ TypeOK
    /\ \A c \in Calls : promise[c] = "dropped" =>
        /\ c \in lost
        /\ c \notin ElementsOf(sending) \cup ElementsOf(wire)
        /\ \A r \in alive : running[r] # c /\ c \notin holds[r]

Dropped == {c \in Calls : promise[c] = "dropped"}
Abstract == INSTANCE RemoteCall WITH
    made <- 1 .. made,
    begun <- ElementsOf(begun),
    resolved <- {c \in Calls : promise[c] = "resolved"},
    dropped <- Dropped

\* Seen from PHP the calls are those of RemoteCall.
ImplementsRemoteCall == Abstract!Spec

\* A call that was sent is eventually answered or given up, and leaves the
\* table, unless every routine is dead: then it waits in the socket for ever
\* (nothing replaces a routine, and the manager keeps the socket open).
SentIsSettled ==
    \A c \in Calls : (pipe[c] = "open") ~> (pipe[c] = "closed" \/ alive = {})
=============================================================================
