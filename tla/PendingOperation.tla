--------------------------- MODULE PendingOperation ---------------------------
(***************************************************************************)
(* Operations that wait for the event loop and settle one promise: timers  *)
(* (system/timer.c, async/cancelable_promise.c), lookups                   *)
(* (network/resolver.c) and connects (connector/tcp.c, connector/pipe.c,   *)
(* internal/socket_connector.c).                                           *)
(*                                                                         *)
(* Each has a C structure, freed when its promise is settled.  An          *)
(* operation asked for before the first run() waits in                     *)
(* rp_reactors_async_inits, which run() goes through and never empties.    *)
(* Settling a promise runs PHP handlers, which may do anything PHP code    *)
(* may do, before the C function frees the structure: frames are the C     *)
(* functions in the middle of that.                                        *)
(*                                                                         *)
(* An access to freed memory ends a behaviour: nothing is known after it.  *)
(***************************************************************************)
EXTENDS Naturals, Sequences

CONSTANTS
    Ops,       \* the operations
    Kinds,     \* the mixes of operations to look at
    MaxRuns,   \* bound: calls of run()
    MaxDepth   \* bound: C functions inside each other

ASSUME OpsAssumption ==
    /\ Kinds \subseteq [Ops -> {"timer", "getaddrinfo", "getnameinfo", "connect"}]
    /\ MaxRuns \in Nat /\ MaxDepth \in Nat

VARIABLES
    kind,      \* what each operation is: a timer, a lookup or a connect
    role,      \* task_type of the process once it is running
    runs,      \* calls of run()
    phase,     \* "script": outside run(); "init": in rp_init_reactor; "loop"
    queue,     \* rp_reactors_async_inits, in index order
    next,      \* internal pointer of the queue, used in phase "init"
    mem,       \* the C structure: "none", "live" or "freed"
    uv,        \* libuv's view of the timer or request in it
    promise,   \* state of the promise
    frames,    \* operations whose settlement is running handlers
    thrown,    \* history: operations whose settlement found the promise settled
    touched,   \* history: operations whose promise PHP code settled itself
    misused,   \* history: operations used in a way the structure does not outlive
    faulty     \* the operation whose freed or uninitialised memory was used

vars == <<kind, role, runs, phase, queue, next, mem, uv, promise, frames, thrown,
          touched, misused, faulty>>

States == {"none", "pending", "fulfilled", "rejected"}

Init ==
    /\ kind \in Kinds /\ role \in {"ACTOR", "WORKER"}
    /\ runs = 0 /\ phase = "script" /\ queue = <<>> /\ next = 1
    /\ mem = [o \in Ops |-> "none"]
    /\ uv = [o \in Ops |-> "raw"]
    /\ promise = [o \in Ops |-> "none"]
    /\ frames = <<>>
    /\ thrown = {} /\ touched = {} /\ misused = {} /\ faulty = {}

Inited == runs > 0
Waiting == {queue[i] : i \in 1 .. Len(queue)}
InFrame == {frames[i] : i \in 1 .. Len(frames)}
Lookups == {o \in Ops : kind[o] \in {"getaddrinfo", "getnameinfo"}}

\* PHP code runs as the script, outside run(), or as a handler.
InUserCode == faulty = {} /\ (phase = "script" \/ frames # <<>>)
LoopIdle == faulty = {} /\ phase = "loop" /\ frames = <<>>

\* Memory of o is used that is freed: nothing is known after it.
Fault(o) ==
    /\ faulty' = {o}
    /\ UNCHANGED <<kind, role, runs, phase, queue, next, mem, uv, promise, frames,
                   thrown, touched, misused>>

(***************************************************************************)
(* Settling: rp_resolve_promise, rp_reject_promise_long.  The method       *)
(* throws when the promise is settled; the C function goes on either way.  *)
(***************************************************************************)

\* The promise of o, one of the promises p, gets state s; its handlers run,
\* and after them the C function frees the structure of o.
Settle(p, o, s) ==
    /\ Len(frames) < MaxDepth
    /\ promise' = IF p[o] = "pending" THEN [p EXCEPT ![o] = s] ELSE p
    /\ thrown' = IF p[o] = "pending" THEN thrown ELSE thrown \cup {o}
    /\ frames' = Append(frames, o)

\* getaddrinfo_async_cb releases the host name in the structure after a
\* refused call has freed it.
ReadsFreed(o) == kind[o] = "getaddrinfo" /\ uv[o] = "refused"

\* The handlers have returned: ZVAL_PTR_DTOR of the promise and rp_free.
Finish ==
    /\ faulty = {} /\ frames # <<>>
    /\ LET o == frames[Len(frames)] IN
       \/ /\ mem[o] = "freed" \/ ReadsFreed(o)
          /\ Fault(o)
       \/ /\ mem[o] = "live"
          /\ mem' = [mem EXCEPT ![o] = "freed"]
          /\ frames' = SubSeq(frames, 1, Len(frames) - 1)
          /\ UNCHANGED <<kind, role, runs, phase, queue, next, uv, promise, thrown,
                         touched, misused, faulty>>

(***************************************************************************)
(* Asking for an operation and starting it.                                *)
(***************************************************************************)

\* uv_timer_start of a fresh timer does not fail.
StartTimer(o, p) ==
    /\ kind[o] = "timer"
    /\ uv' = [uv EXCEPT ![o] = "active"]
    /\ promise' = p
    /\ UNCHANGED <<frames, thrown>>

\* uv_getaddrinfo and uv_getnameinfo may refuse.
StartLookup(o, p) ==
    /\ o \in Lookups
    /\ \/ /\ uv' = [uv EXCEPT ![o] = "active"]
          /\ promise' = p
          /\ UNCHANGED <<frames, thrown>>
       \/ uv' = [uv EXCEPT ![o] = "refused"] /\ Settle(p, o, "rejected")

\* rp_socket_connect_ex does not look at the result of uv_tcp_connect.
StartConnect(o, p) ==
    /\ kind[o] = "connect"
    /\ \E u \in {"active", "ignored"} : uv' = [uv EXCEPT ![o] = u]
    /\ promise' = p
    /\ UNCHANGED <<frames, thrown>>

StartOp(o, p) == StartTimer(o, p) \/ StartLookup(o, p) \/ StartConnect(o, p)

\* Seeded fault: an operation asked for while the loop runs is queued too.
AsyncInitQueues(o, p) ==
    /\ queue' = Append(queue, o) /\ promise' = p
    /\ UNCHANGED <<uv, frames, thrown>>

\* rp_reactor_async_init: at once when the loop was initialised, else queued.
AsyncInit(o, p) ==
    IF Inited
    THEN StartOp(o, p) /\ UNCHANGED queue
    ELSE /\ queue' = Append(queue, o) /\ promise' = p
         /\ UNCHANGED <<uv, frames, thrown>>

\* Timer::timeout(), Resolver::getaddrinfo() and getnameinfo(), connect():
\* the promise is made, and returned to PHP when the call is over.
Call(o) ==
    /\ InUserCode
    /\ mem[o] = "none"
    /\ mem' = [mem EXCEPT ![o] = "live"]
    /\ AsyncInit(o, [promise EXCEPT ![o] = "pending"])
    /\ UNCHANGED <<kind, role, runs, phase, next, touched, misused, faulty>>

\* A negative timeout or an address that does not parse.
CallInvalid(o) ==
    /\ InUserCode
    /\ mem[o] = "none"
    /\ mem' = [mem EXCEPT ![o] = "freed"]
    /\ promise' = [promise EXCEPT ![o] = "rejected"]
    /\ UNCHANGED <<kind, role, runs, phase, queue, next, uv, frames, thrown, touched,
                   misused, faulty>>

(***************************************************************************)
(* run().                                                                  *)
(***************************************************************************)

\* uv_loop_init forgets what an earlier loop had active, and main_loop_inited
\* holds from here on.  A second run goes through the same queue again.
Run ==
    /\ faulty = {} /\ phase = "script" /\ runs < MaxRuns
    /\ runs' = runs + 1 /\ phase' = "init" /\ next' = 1
    /\ uv' = [o \in Ops |-> IF uv[o] = "active" THEN "forgotten" ELSE uv[o]]
    /\ misused' = IF Inited THEN misused \cup Waiting ELSE misused
    /\ UNCHANGED <<kind, role, queue, mem, promise, frames, thrown, touched, faulty>>

\* rp_reactor_async_init_execute, in the actor.
InitExecute ==
    /\ faulty = {} /\ phase = "init" /\ frames = <<>> /\ role = "ACTOR"
    /\ next <= Len(queue)
    /\ IF mem[queue[next]] = "freed"
       THEN Fault(queue[next])
       ELSE /\ StartOp(queue[next], promise)
            /\ next' = next + 1
            /\ UNCHANGED <<kind, role, runs, phase, queue, mem, touched, misused, faulty>>

\* The queue is done.  In a worker rp_reactor_async_free_execute finds no
\* free callback for these operations.
InitDone ==
    /\ faulty = {} /\ phase = "init" /\ frames = <<>>
    /\ role = "WORKER" \/ next > Len(queue)
    /\ phase' = "loop"
    /\ UNCHANGED <<kind, role, runs, queue, next, mem, uv, promise, frames, thrown,
                   touched, misused, faulty>>

\* uv_run returns: nothing is active, uv_stop, or the mode was not RUN_DEFAULT.
RunReturns ==
    /\ LoopIdle
    /\ phase' = "script"
    /\ UNCHANGED <<kind, role, runs, queue, next, mem, uv, promise, frames, thrown,
                   touched, misused, faulty>>

(***************************************************************************)
(* Callbacks of the loop.                                                  *)
(***************************************************************************)

\* The operation o is over for libuv; its promise gets state s.
Done(o, s) ==
    /\ LoopIdle /\ uv[o] = "active"
    /\ IF mem[o] = "freed"
       THEN Fault(o)
       ELSE /\ uv' = [uv EXCEPT ![o] = "idle"]
            /\ Settle(promise, o, s)
            /\ UNCHANGED <<kind, role, runs, phase, queue, next, mem, touched, misused, faulty>>

\* timer_cb
TimerCb(o) == kind[o] = "timer" /\ Done(o, "fulfilled")

\* on_addrinfo_resolved, on_nameinfo_resolved
Resolved(o) ==
    /\ o \in Lookups
    /\ \E s \in {"fulfilled", "rejected"} : Done(o, s)

\* Seeded fault: connection_cb does not look at its status either.
ConnectionCbIgnores(o) ==
    /\ kind[o] = "connect"
    /\ \/ Done(o, "fulfilled")
       \/ /\ LoopIdle /\ uv[o] = "active"
          /\ uv' = [uv EXCEPT ![o] = "ignored"]
          /\ UNCHANGED <<kind, role, runs, phase, queue, next, mem, promise, frames,
                         thrown, touched, misused, faulty>>

\* connection_cb
ConnectionCb(o) ==
    /\ kind[o] = "connect"
    /\ \E s \in {"fulfilled", "rejected"} : Done(o, s)

(***************************************************************************)
(* Calls of PHP code on a promise.                                         *)
(***************************************************************************)

\* A timer whose structure cancel() may use: in the timers of the loop, and
\* not the one whose settlement is running handlers.
Cancellable(o) == uv[o] = "active" /\ mem[o] = "live" /\ o \notin InFrame

\* Seeded fault: the timer is not stopped.
CancelRunning(o) ==
    /\ InUserCode /\ kind[o] = "timer" /\ mem[o] = "live"
    /\ misused' = IF Cancellable(o) THEN misused ELSE misused \cup {o}
    /\ Settle(promise, o, "rejected")
    /\ UNCHANGED <<kind, role, runs, phase, queue, next, mem, uv, touched, faulty>>

\* $promise->cancel() calls timer_cancel_cb, whatever became of the timer.
\* Before the start uv_timer_stop reads memory nobody initialised, and after a
\* second run() it takes the timer out of a heap it is not in: it may find
\* nothing to do, or run wild.
Cancel(o) ==
    /\ InUserCode
    /\ kind[o] = "timer" /\ promise[o] # "none"
    /\ misused' = IF Cancellable(o) THEN misused ELSE misused \cup {o}
    /\ \/ /\ mem[o] = "freed" \/ uv[o] \in {"raw", "forgotten"}
          /\ faulty' = {o}
          /\ UNCHANGED <<uv, promise, frames, thrown>>
       \/ /\ mem[o] = "live"
          /\ uv' = [uv EXCEPT ![o] = IF @ = "raw" THEN @ ELSE "idle"]
          /\ Settle(promise, o, "rejected")
          /\ UNCHANGED faulty
    /\ UNCHANGED <<kind, role, runs, phase, queue, next, mem, touched>>

\* resolve() and reject() of the promise are public.
UserSettles(o) ==
    /\ InUserCode
    /\ promise[o] = "pending"
    /\ \E s \in {"fulfilled", "rejected"} : promise' = [promise EXCEPT ![o] = s]
    /\ touched' = touched \cup {o}
    /\ UNCHANGED <<kind, role, runs, phase, queue, next, mem, uv, frames, thrown, misused, faulty>>

-----------------------------------------------------------------------------

Next ==
    \/ \E o \in Ops : Call(o) \/ CallInvalid(o) \/ Cancel(o) \/ UserSettles(o)
    \/ Run \/ InitExecute \/ InitDone \/ RunReturns
    \/ \E o \in Ops : TimerCb(o) \/ Resolved(o) \/ ConnectionCb(o)
    \/ Finish

\* Handlers return, the queue is gone through, timers expire, lookups and
\* connects are answered while the loop runs.
Fairness ==
    /\ WF_vars(Finish) /\ WF_vars(InitExecute) /\ WF_vars(InitDone)
    /\ \A o \in Ops : WF_vars(TimerCb(o)) /\ WF_vars(Resolved(o)) /\ WF_vars(ConnectionCb(o))

Spec == Init /\ [][Next]_vars
FairSpec == Spec /\ Fairness
-----------------------------------------------------------------------------
(***************************************************************************)
(* Properties.                                                             *)
(***************************************************************************)

\* Types; a timer libuv may call back is in memory, and every frame belongs
\* to a promise that is settled.
TypeOK ==
    /\ kind \in Kinds /\ role \in {"ACTOR", "WORKER"} /\ runs \in 0 .. MaxRuns
    /\ phase \in {"script", "init", "loop"}
    /\ queue \in Seq(Ops) /\ next \in 1 .. Len(queue) + 1
    /\ mem \in [Ops -> {"none", "live", "freed"}]
    /\ uv \in [Ops -> {"raw", "active", "idle", "refused", "ignored", "forgotten"}]
    /\ promise \in [Ops -> States]
    /\ frames \in Seq(Ops) /\ Len(frames) <= MaxDepth
    /\ \A o \in InFrame : promise[o] \in {"fulfilled", "rejected"}
    /\ thrown \subseteq Ops /\ touched \subseteq Ops /\ misused \subseteq Ops
    /\ faulty \subseteq Ops

\* Freed or uninitialised memory of an operation is used only after one of two
\* misuses of that operation (a timer cancelled while no loop has it, or by its
\* own handler; a second run() with the operation in the queue), or in
\* getaddrinfo_async_cb when libuv refuses the lookup.  No other order of
\* starts, callbacks, handlers and cancels does it, nor makes an operation
\* settle a promise twice that PHP code did not settle.
FaultsAreMisuse ==
    /\ \A o \in faulty : o \in misused \/ ReadsFreed(o)
    /\ thrown \subseteq touched \cup misused

\* A promise is pending only while its operation is waiting for the loop, is
\* active in it, or was lost in one of the ways the code has: a connect that
\* failed at once, a worker that drops the queue, a loop that was replaced.
PendingIsUnderway ==
    TypeOK /\ \A o \in Ops : faulty = {} /\ promise[o] = "pending" =>
        /\ mem[o] = "live"
        /\ \/ uv[o] \in {"active", "ignored", "forgotten"}
           \/ o \in Waiting /\ (~Inited \/ role = "WORKER")
           \/ phase = "init" /\ \E i \in next .. Len(queue) : queue[i] = o

\* A started operation is settled, unless the loop is left or the memory of
\* the process is lost.
StartedIsSettled ==
    \A o \in Ops : uv[o] = "active" /\ phase = "loop" ~>
        promise[o] # "pending" \/ phase # "loop" \/ faulty # {}
=============================================================================
