----------------------------- MODULE ProcessTree -----------------------------
(***************************************************************************)
(* All processes of one script: run() in the actor, the two managers it    *)
(* forks and the children they fork, from the first fork until the last    *)
(* process has ended (event_loop.c, worker_manager.c, routine_manager.c,   *)
(* rp_init_reactor, rp_register_pdeath_sig).  System calls of run() may    *)
(* fail, any process may die, and the kernel tells a process that its      *)
(* parent died only if it asked, with prctl, before.                       *)
(*                                                                         *)
(* Inside a manager the steps are coarser than those of WorkerManager,     *)
(* which shows that the handler of SIGCHLD counts its children right; a    *)
(* child here is a counter of the stage it is in.                          *)
(***************************************************************************)
EXTENDS Naturals, Functions

CONSTANTS
    PoolSize,          \* RP_WORKER_MAX, RP_ROUTINE_MAX
    MaxCrashes,   \* bound: children killed from outside
    MaxFailures,  \* bound: system calls that fail
    MaxForks      \* bound: children each manager forks

ASSUME BoundsAssumption ==
    PoolSize \in Nat \ {0} /\ MaxCrashes \in Nat /\ MaxFailures \in Nat /\ MaxForks \in Nat

Kinds == {"routine", "worker"}

VARIABLES
    actor,      \* where the actor is in the script
    sigint,     \* whether SIGINT is on its way to it
    fd,         \* what run() has for the pipe to each pool
    manager,    \* where each manager is
    armed,      \* managers that asked to be told of their parent's death
    hups,        \* managers that are sent SIGHUP
    chld,       \* the worker manager has a SIGCHLD to handle
    kids,       \* children of each pool by stage
    stray,      \* children whose manager died before they asked for SIGHUP
    forks,      \* history: children forked
    crashes,    \* history: children killed from outside
    failures,   \* history: system calls that failed
    early       \* history: managers whose actor died before they asked

treeVars == <<actor, sigint, fd, manager, armed, hups, chld, kids, stray, forks,
          crashes, failures, early>>
others == <<stray, crashes, early>>

\* The actor: the next thing run() does, "loop" in uv_run, "script" in the
\* code after run().
ActorPlace == {"routine", "worker", "check", "loop", "script", "dead"}

\* A manager: makeForks, setting up its loop, in its loop, in makeForks of
\* the handler.  member: fork failed and it goes on in run() like a child;
\* serving: that child is in its loop.
ManagerPlace == {"none", "fork", "setup", "loop", "refork", "member", "serving",
                 "script", "dead"}
Alive(k) == manager[k] \notin {"none", "dead"}

\* A child: in run(), in its loop, in the script after run().
Stage == {"born", "loop", "script"}
Count(k) == kids[k]["born"] + kids[k]["loop"] + kids[k]["script"]

TreeTypeOK ==
    /\ actor \in ActorPlace /\ sigint \in BOOLEAN
    /\ fd \in [Kinds -> {"unset", "ok", "failed"}]
    /\ manager \in [Kinds -> ManagerPlace]
    /\ armed \subseteq Kinds /\ hups \subseteq armed /\ early \subseteq Kinds
    /\ chld \in BOOLEAN
    /\ kids \in [Kinds -> [Stage -> Nat]]
    /\ stray \in [Kinds -> [{"born", "loop"} -> Nat]]
    /\ forks \in [Kinds -> 0 .. MaxForks]
    /\ crashes \in 0 .. MaxCrashes /\ failures \in 0 .. MaxFailures

\* run() of a script that has servers, in the actor.
TreeInit ==
    /\ actor = "routine" /\ sigint = FALSE
    /\ fd = [k \in Kinds |-> "unset"]
    /\ manager = [k \in Kinds |-> "none"]
    /\ armed = {} /\ hups = {} /\ early = {} /\ chld = FALSE
    /\ kids = [k \in Kinds |-> [s \in Stage |-> 0]]
    /\ stray = [k \in Kinds |-> [s \in {"born", "loop"} |-> 0]]
    /\ forks = [k \in Kinds |-> 0] /\ crashes = 0 /\ failures = 0

Fails == failures < MaxFailures /\ failures' = failures + 1

-----------------------------------------------------------------------------
(* run() in the actor *)

\* rp_init_routine_manager: the socket pair and the fork.
InitRoutineManager ==
    /\ actor = "routine"
    /\ actor' = "worker"
    /\ \/ /\ fd' = [fd EXCEPT !["routine"] = "ok"]
          /\ manager' = [manager EXCEPT !["routine"] = "fork"]
          /\ UNCHANGED failures
       \/ /\ Fails
          /\ fd' = [fd EXCEPT !["routine"] = "failed"]
          /\ UNCHANGED manager
    /\ UNCHANGED <<sigint, armed, hups, chld, kids, forks, others>>

\* rp_init_worker_manager: as above, but there are two socket pairs, and
\* when the second fails the descriptor that run() looks at was never set.
InitWorkerManager ==
    /\ actor = "worker"
    /\ actor' = "check"
    /\ \/ /\ fd' = [fd EXCEPT !["worker"] = "ok"]
          /\ manager' = [manager EXCEPT !["worker"] = "fork"]
          /\ UNCHANGED failures
       \/ /\ Fails
          /\ \E r \in {"failed", "unset"} : fd' = [fd EXCEPT !["worker"] = r]
          /\ UNCHANGED manager
    /\ UNCHANGED <<sigint, armed, hups, chld, kids, forks, others>>

\* The test after both: run() returns when a descriptor is negative, and a
\* descriptor that was never set may be anything.  Otherwise rp_init_reactor
\* handles SIGINT and uv_run begins.
Check ==
    /\ actor = "check"
    /\ \/ Range(fd) # {"ok"} /\ actor' = "script"
       \/ "failed" \notin Range(fd) /\ actor' = "loop"
    /\ UNCHANGED <<sigint, fd, manager, armed, hups, chld, kids, forks, failures, others>>

\* end(), in any process that is still there, or a SIGINT from outside.
Interrupt ==
    /\ actor # "dead" /\ ~sigint
    /\ sigint' = TRUE
    /\ UNCHANGED <<actor, fd, manager, armed, hups, chld, kids, forks, failures, others>>

\* The actor is gone: managers that asked are sent SIGHUP.
ActorEnds ==
    /\ actor' = "dead"
    /\ hups' = armed \cap {k \in Kinds : Alive(k)}
    /\ early' = {k \in Kinds : manager[k] \in {"fork", "setup"}}
                    \cup ({k \in Kinds : manager[k] = "member"} \ armed)

\* rp_signal_hup_handler stops the loop and run() returns; outside the loop
\* SIGINT kills.
ActorInterrupted ==
    /\ sigint /\ actor # "dead"
    /\ sigint' = FALSE
    /\ \/ actor = "loop" /\ actor' = "script" /\ UNCHANGED <<hups, early>>
       \/ actor # "loop" /\ ActorEnds
    /\ UNCHANGED <<fd, manager, armed, chld, kids, forks, failures, stray, crashes>>

\* The end of the script, or a crash anywhere.
ActorLeaves ==
    /\ actor # "dead"
    /\ ActorEnds
    /\ UNCHANGED <<sigint, fd, manager, armed, chld, kids, forks, failures, stray, crashes>>

-----------------------------------------------------------------------------
(* The managers *)

\* Seeded fault: the handler forks one child too many.
LacksOne(k) ==
    \/ manager[k] = "fork" /\ forks[k] < PoolSize
    \/ manager[k] = "refork" /\ Count(k) <= PoolSize

\* makeForks has children left to fork.
Lacks(k) ==
    \/ manager[k] = "fork" /\ forks[k] < PoolSize
    \/ manager[k] = "refork" /\ Count(k) < PoolSize

\* makeForks: one child more.
ForkChild(k) ==
    /\ Lacks(k) /\ forks[k] < MaxForks
    /\ forks' = [forks EXCEPT ![k] = @ + 1]
    /\ kids' = [kids EXCEPT ![k]["born"] = @ + 1]
    /\ UNCHANGED <<actor, sigint, fd, manager, armed, hups, chld, failures, others>>

\* fork fails, and the manager goes on in run() as if it were the child.
ForkChildFails(k) ==
    /\ Lacks(k) /\ Fails
    /\ manager' = [manager EXCEPT ![k] = "member"]
    /\ UNCHANGED <<actor, sigint, fd, armed, hups, chld, kids, forks, others>>

\* The pool is full: the first time the manager sets up its loop.
PoolMade(k) ==
    /\ manager[k] \in {"fork", "refork"} /\ ~Lacks(k)
    /\ manager' = [manager EXCEPT ![k] = IF @ = "fork" THEN "setup" ELSE "loop"]
    /\ UNCHANGED <<actor, sigint, fd, armed, hups, chld, kids, forks, failures, others>>

\* Seeded fault: a manager does not ask for the signal.
SetupUnarmed(k) ==
    /\ manager[k] = "setup"
    /\ manager' = [manager EXCEPT ![k] = "loop"]
    /\ UNCHANGED <<actor, sigint, fd, armed, hups, chld, kids, forks, failures, others>>

\* The manager's loop is set up: prctl, and SIGCHLD is watched.
Setup(k) ==
    /\ manager[k] = "setup"
    /\ manager' = [manager EXCEPT ![k] = "loop"]
    /\ armed' = armed \cup {k}
    /\ UNCHANGED <<actor, sigint, fd, hups, chld, kids, forks, failures, others>>

\* signal_chld_handler of the worker manager; that of the routine manager is
\* not called for SIGCHLD.
SignalChld ==
    /\ manager["worker"] = "loop" /\ chld
    /\ chld' = FALSE
    /\ manager' = [manager EXCEPT !["worker"] = "refork"]
    /\ UNCHANGED <<actor, sigint, fd, armed, hups, kids, forks, failures, others>>

\* The manager of pool k is gone.  Its children in their loops asked for
\* SIGHUP and leave; the others never learn of it.
ManagerEnds(k) ==
    /\ manager' = [manager EXCEPT ![k] = "dead"]
    /\ kids' = [kids EXCEPT ![k]["born"] = 0]
    /\ stray' = [stray EXCEPT ![k]["born"] = kids[k]["born"]]

\* SIGHUP kills the worker manager and makes the routine manager exit; a
\* manager that serves handles it as a child does.
ManagerHangup(k) ==
    /\ k \in hups /\ Alive(k)
    /\ hups' = hups \ {k}
    /\ \/ manager[k] = "serving"
          /\ manager' = [manager EXCEPT ![k] = "script"] /\ UNCHANGED <<kids, stray>>
       \/ manager[k] # "serving" /\ ManagerEnds(k)
    /\ UNCHANGED <<actor, sigint, fd, armed, chld, forks, failures, crashes, early>>

-----------------------------------------------------------------------------
(* Members of a pool *)

\* A worker whose run() finds that routine_pipe was never made returns; other
\* members go on to rp_init_reactor.
Serves(k) == k = "routine" \/ fd["routine"] # "failed"

\* A member of a pool ends; only a worker manager in its loop is told.
Gone(k) == chld' = (chld \/ (k = "worker" /\ manager[k] \in {"loop", "refork"}))

\* rp_register_pdeath_sig and uv_run, or the early return.
ChildRuns(k) ==
    /\ kids[k]["born"] > 0
    /\ kids' = [kids EXCEPT ![k]["born"] = @ - 1,
                            ![k][IF Serves(k) THEN "loop" ELSE "script"] = @ + 1]
    /\ UNCHANGED <<actor, sigint, fd, manager, armed, hups, chld, forks, failures, others>>

\* The manager died: rp_signal_hup_handler stops the loop.
ChildHangup(k) ==
    /\ manager[k] = "dead" /\ kids[k]["loop"] > 0
    /\ kids' = [kids EXCEPT ![k]["loop"] = @ - 1, ![k]["script"] = @ + 1]
    /\ UNCHANGED <<actor, sigint, fd, manager, armed, hups, chld, forks, failures, others>>

\* run() returned in a child, and the script ends.
ChildEnds(k) ==
    /\ kids[k]["script"] > 0
    /\ kids' = [kids EXCEPT ![k]["script"] = @ - 1]
    /\ Gone(k)
    /\ UNCHANGED <<actor, sigint, fd, manager, armed, hups, forks, failures, others>>

ChildCrashes(k) ==
    /\ crashes < MaxCrashes
    /\ crashes' = crashes + 1
    /\ \E s \in Stage : kids[k][s] > 0 /\ kids' = [kids EXCEPT ![k][s] = @ - 1]
    /\ Gone(k)
    /\ UNCHANGED <<actor, sigint, fd, manager, armed, hups, forks, failures, stray, early>>

\* A child whose manager is gone asks for a signal that was never sent and
\* serves for ever, or returns from run() and ends.
StrayRuns(k) ==
    /\ stray[k]["born"] > 0
    /\ stray' = [stray EXCEPT ![k]["born"] = @ - 1,
                              ![k]["loop"] = @ + (IF Serves(k) THEN 1 ELSE 0)]
    /\ UNCHANGED <<actor, sigint, fd, manager, armed, hups, chld, kids, forks, failures,
                   crashes, early>>

\* A manager whose fork failed becomes a member in earnest.
MemberRuns(k) ==
    /\ manager[k] = "member"
    /\ \/ /\ Serves(k)
          /\ manager' = [manager EXCEPT ![k] = "serving"]
          /\ armed' = armed \cup {k}
       \/ /\ ~Serves(k)
          /\ manager' = [manager EXCEPT ![k] = "script"]
          /\ UNCHANGED armed
    /\ UNCHANGED <<actor, sigint, fd, hups, chld, kids, forks, failures, others>>

\* The script ends in a manager that became a member.
MemberEnds(k) ==
    /\ manager[k] = "script"
    /\ ManagerEnds(k)
    /\ hups' = hups \ {k}
    /\ UNCHANGED <<actor, sigint, fd, armed, chld, forks, failures, crashes, early>>

-----------------------------------------------------------------------------

PoolStep(k) == ForkChild(k) \/ PoolMade(k) \/ Setup(k) \/ MemberRuns(k) \/ MemberEnds(k)
ChildStep(k) == ChildRuns(k) \/ ChildHangup(k) \/ ChildEnds(k) \/ StrayRuns(k)
RunStep == InitRoutineManager \/ InitWorkerManager \/ Check

TreeNext ==
    \/ RunStep \/ Interrupt \/ ActorInterrupted \/ ActorLeaves \/ SignalChld
    \/ \E k \in Kinds :
          \/ PoolStep(k) \/ ForkChildFails(k) \/ ManagerHangup(k)
          \/ ChildStep(k) \/ ChildCrashes(k)

\* Processes run, signals arrive, and the script ends after run().
TreeFairness ==
    /\ WF_treeVars(RunStep) /\ WF_treeVars(ActorInterrupted) /\ WF_treeVars(SignalChld)
    /\ WF_treeVars(actor = "script" /\ ActorLeaves)
    /\ \A k \in Kinds :
          WF_treeVars(PoolStep(k)) /\ WF_treeVars(ManagerHangup(k)) /\ WF_treeVars(ChildStep(k))

TreeSpec == TreeInit /\ [][TreeNext]_treeVars /\ TreeFairness

-----------------------------------------------------------------------------
(* Properties *)

\* A manager forks a child for each that died, and does not fork for ever:
\* only workers whose run() returns at once, as routine_pipe is missing, are
\* replaced without having served (signal_chld_handler, run).
ForksMatchDeaths ==
    TreeTypeOK /\ \A k \in Kinds : Serves(k) => forks[k] <= PoolSize + crashes

\* The end of the actor ends the script's other processes: SIGHUP passes from
\* it to the managers and from them to their children.  The managers that had
\* not called prctl when the actor died stay with their pools, and so do the
\* children in run() when their manager died (rp_register_pdeath_sig,
\* rp_do_init_worker_manager, rp_do_init_routine_manager).
EverythingEnds ==
    actor = "dead" ~>
        \A k \in Kinds \ early : ~Alive(k) /\ Count(k) = 0 /\ stray[k]["born"] = 0
=============================================================================
