---------------------------- MODULE WorkerManager ----------------------------
(***************************************************************************)
(* A manager process and its pool of children: worker_manager.c when kind  *)
(* is "worker", routine_manager.c (built with HAVE_PR_SET_PDEATHSIG) when  *)
(* it is "routine".  Both fork the pool, then watch for SIGCHLD in a loop  *)
(* of their own; the handler reaps and forks replacements.  How the two    *)
(* managers, the actor and their children end is in ProcessTree.           *)
(*                                                                         *)
(* Children are interchangeable, so the pool is two counters, the running  *)
(* children and the dead ones not yet waited for.  A system call that can  *)
(* interleave with the death of a child is a step of its own.              *)
(***************************************************************************)
EXTENDS Integers

CONSTANTS Max,           \* RP_WORKER_MAX, RP_ROUTINE_MAX
          MaxDeaths,     \* bound: children that die in a behaviour
          MaxForkFails   \* bound: calls of fork that fail

ASSUME PoolAssumption ==
    /\ Max \in Nat \ {0}
    /\ MaxDeaths \in Nat
    /\ MaxForkFails \in Nat

VARIABLES
    kind,       \* which of the two managers this is
    pc,         \* where the manager is
    left,       \* forks left in the call of makeForks that is running
    count,      \* rp_worker_count, rp_routine_count
    live,       \* children running
    zombie,     \* children dead and not waited for
    watching,   \* signal the uv_signal handle `signal` is started for
    signals,    \* notifications of SIGCHLD queued for the loop
    parent,     \* the actor: alive, or dead and (history) whether it died
                \* before the manager was in its loop
    pdeath,     \* prctl(PR_SET_PDEATHSIG, SIGHUP) was called
    hup,        \* SIGHUP was sent to the manager
    deaths,     \* history: children that died
    forkFails,  \* history: forks that failed
    unseen      \* history: children that died while SIGCHLD was not
                \* watched, and that no wait has collected since

pool == <<count, live, zombie>>
parentState == <<parent, pdeath, hup>>
vars == <<kind, pc, left, pool, watching, signals, parentState, deaths, forkFails, unseen>>

\* fork: the first makeForks.  watch, rewatch, prctl: setting up the loop.
\* run: in uv_run.  reap, refork: in signal_chld_handler.  demoted: the
\* manager went on as a member of its own pool.
Place == {"fork", "watch", "rewatch", "prctl", "run", "reap", "refork",
          "demoted", "exited"}

TypeOK ==
    /\ kind \in {"worker", "routine"}
    /\ pc \in Place
    /\ left \in Nat
    /\ count \in Nat /\ live \in Nat /\ zombie \in Nat
    /\ watching \in {"none", "CHLD", "HUP"}
    /\ signals \in Nat
    /\ parent \in {"alive", "died", "died_early"}
    /\ pdeath \in BOOLEAN /\ hup \in BOOLEAN
    /\ deaths \in Nat /\ forkFails \in Nat /\ unseen \in Nat

\* rp_init_worker_manager, rp_init_routine_manager: the manager was forked and
\* is about to make its pool.
Init ==
    /\ kind \in {"worker", "routine"}
    /\ pc = "fork" /\ left = Max
    /\ count = 0 /\ live = 0 /\ zombie = 0
    /\ watching = "none" /\ signals = 0
    /\ parent = "alive" /\ pdeath = FALSE /\ hup = FALSE
    /\ deaths = 0 /\ forkFails = 0 /\ unseen = 0

Managing == pc \notin {"demoted", "exited"}

-----------------------------------------------------------------------------
(* makeForks *)

\* One turn of the loop that succeeds.  The child returns 0 from makeForks
\* and leaves the manager's code to serve.
Fork ==
    /\ pc \in {"fork", "refork"}
    /\ left > 0
    /\ left' = left - 1
    /\ count' = count + 1
    /\ live' = live + 1
    /\ UNCHANGED <<kind, pc, zombie, watching, signals, parentState, deaths, forkFails,
                   unseen>>

\* fork returns -1: makeForks returns it, and its callers, which only test
\* for > 0, take the manager for a child.  In the handler the signal handle
\* and the loop are stopped first.
ForkFails ==
    /\ pc \in {"fork", "refork"}
    /\ left > 0
    /\ forkFails < MaxForkFails
    /\ forkFails' = forkFails + 1
    /\ pc' = "demoted"
    /\ watching' = "none"
    /\ UNCHANGED <<kind, left, pool, signals, parentState, deaths, unseen>>

\* The loop ends with the pid of a child, or with the initial 1 when there
\* was nothing to fork.
ForksDone ==
    /\ pc \in {"fork", "refork"}
    /\ left = 0
    /\ pc' = IF pc = "fork" THEN "watch" ELSE "run"
    /\ UNCHANGED <<kind, left, pool, watching, signals, parentState, deaths, forkFails,
                   unseen>>

-----------------------------------------------------------------------------
(* Setting up the manager's loop *)

\* uv_signal_start(&signal, handler, SIGCHLD)
WatchChild ==
    /\ pc = "watch"
    /\ watching' = "CHLD"
    /\ pc' = IF kind = "routine" THEN "rewatch" ELSE "prctl"
    /\ UNCHANGED <<kind, left, pool, signals, parentState, deaths, forkFails, unseen>>

\* Seeded fault: SIGHUP gets a handle of its own.
WatchHangupApart ==
    /\ pc = "rewatch"
    /\ pc' = "prctl"
    /\ UNCHANGED <<kind, left, pool, watching, signals, parentState, deaths, forkFails,
                   unseen>>

\* The routine manager starts the same handle for SIGHUP.  libuv stops a
\* started handle first, and drops the notifications of the old signal.
WatchHangup ==
    /\ pc = "rewatch"
    /\ watching' = "HUP"
    /\ unseen' = zombie
    /\ signals' = 0
    /\ pc' = "prctl"
    /\ UNCHANGED <<kind, left, pool, parentState, deaths, forkFails>>

\* prctl(PR_SET_PDEATHSIG, SIGHUP)
SetPdeathsig ==
    /\ pc = "prctl"
    /\ pdeath' = TRUE
    /\ pc' = "run"
    /\ UNCHANGED <<kind, left, pool, watching, signals, parent, hup, deaths,
                   forkFails, unseen>>

-----------------------------------------------------------------------------
(* The SIGCHLD handler *)

HandleChild ==
    /\ pc = "run"
    /\ watching = "CHLD"
    /\ signals > 0
    /\ signals' = signals - 1
    /\ pc' = "reap"
    /\ UNCHANGED <<kind, left, pool, watching, parentState, deaths, forkFails, unseen>>

\* wait_all_children: one waitpid that returns a child.
Reap ==
    /\ pc = "reap"
    /\ zombie > 0
    /\ zombie' = zombie - 1
    /\ count' = count - 1
    /\ UNCHANGED <<kind, pc, left, live, watching, signals, parentState, deaths,
                   forkFails, unseen>>

\* Seeded fault: wait_all_children stops after one child.
ReapDoneEarly ==
    /\ pc = "reap"
    /\ count < Max
    /\ pc' = "refork"
    /\ left' = Max - count
    /\ unseen' = 0
    /\ UNCHANGED <<kind, pool, watching, signals, parentState, deaths, forkFails>>

\* Seeded fault: the handler only reaps.
ReapDoneForksNone ==
    /\ pc = "reap"
    /\ zombie = 0
    /\ pc' = "refork"
    /\ left' = 0
    /\ unseen' = 0
    /\ UNCHANGED <<kind, pool, watching, signals, parentState, deaths, forkFails>>

\* No child is left to wait for: makeForks(MAX - count) begins.
ReapDone ==
    /\ pc = "reap"
    /\ zombie = 0
    /\ pc' = "refork"
    /\ left' = IF count < Max THEN Max - count ELSE 0
    /\ unseen' = 0
    /\ UNCHANGED <<kind, pool, watching, signals, parentState, deaths, forkFails>>

-----------------------------------------------------------------------------
(* The rest of the system *)

\* A child ends.  The kernel notifies a manager that watches SIGCHLD; a
\* notification not yet handled may stand for several deaths.
ChildDies ==
    /\ live > 0
    /\ deaths < MaxDeaths
    /\ live' = live - 1
    /\ zombie' = zombie + 1
    /\ deaths' = deaths + 1
    /\ IF watching = "CHLD"
       THEN /\ \/ signals' = signals + 1
               \/ signals > 0 /\ signals' = signals
            /\ UNCHANGED unseen
       ELSE unseen' = unseen + 1 /\ UNCHANGED signals
    /\ pc # "exited"
    /\ UNCHANGED <<kind, pc, left, count, watching, parentState, forkFails>>

\* The actor ends; the kernel sends SIGHUP to a manager that asked for it.
ActorDies ==
    /\ parent = "alive"
    /\ parent' = IF pc \in {"fork", "watch", "rewatch", "prctl"}
                 THEN "died_early" ELSE "died"
    /\ hup' = pdeath
    /\ UNCHANGED <<kind, left, pc, pool, watching, signals, pdeath, deaths,
                   forkFails, unseen>>

\* The worker manager has no handler for SIGHUP and dies of it anywhere; the
\* routine manager exits from signal_chld_handler.
Hangup ==
    /\ hup
    /\ Managing
    /\ kind = "routine" => pc = "run" /\ watching = "HUP"
    /\ pc' = "exited"
    /\ watching' = "none"
    /\ UNCHANGED <<kind, left, pool, signals, parentState, deaths, forkFails, unseen>>

-----------------------------------------------------------------------------

ManagerStep == Fork \/ ForksDone \/ WatchChild \/ WatchHangup \/ SetPdeathsig
               \/ HandleChild \/ Reap \/ ReapDone

Next == ManagerStep \/ ForkFails \/ ChildDies \/ ActorDies \/ Hangup

\* The manager runs, and a signal that was sent is delivered.
Fairness == WF_vars(ManagerStep) /\ WF_vars(Hangup)

Spec == Init /\ [][Next]_vars /\ Fairness

-----------------------------------------------------------------------------
(* Properties *)

\* The static counter is the number of children not waited for, although
\* children die between any two steps and notifications merge.
CountExact == Managing => count = live + zombie

\* Never more than Max processes serve, the demoted manager included.
PoolBound == live + zombie + (IF pc = "demoted" THEN 1 ELSE 0) <= Max

\* A manager waiting in its loop with nothing queued misses no child except
\* those that died while SIGCHLD was not watched.
UnreapedAreUnseen == pc = "run" /\ signals = 0 => zombie = unseen

\* A manager gives up supervising only after fork failed.
DemotedByForkFailure == pc = "demoted" => forkFails > 0

\* When children stop dying, a manager that still supervises has a full
\* pool again, less the deaths it cannot see.
PoolRestored == <>[](pc = "run" => live = Max - unseen)

\* The routine manager replaces no routine: the pool only shrinks once it
\* has been forked.
NoReplacement == [][kind = "routine" /\ pc # "fork" => live' <= live]_vars
=============================================================================
