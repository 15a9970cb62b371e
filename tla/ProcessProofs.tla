---------------------------- MODULE ProcessProofs ----------------------------
(***************************************************************************)
(* Safety of the managers and of the process tree they are part of, for    *)
(* pools of any size, any number of deaths and any number of failing forks *)
(* and other system calls.                                                 *)
(***************************************************************************)
EXTENDS WorkerManager, ProcessTree, TLAPS

(* The inductive invariant, in named parts. *)

\* The counter agrees with the process table at every step.
Counted == count = live + zombie

\* makeForks never overshoots, and a manager that is demoted had a place
\* left to fill.
RoomLeft ==
    /\ count <= Max
    /\ pc \in {"fork", "refork"} => count + left <= Max
    /\ pc = "demoted" => count < Max /\ forkFails > 0

\* A notification is queued only for a manager that watches SIGCHLD, and an
\* empty queue means that every zombie was unseen.
QueueCovers ==
    /\ Managing /\ watching # "CHLD" => signals = 0
    /\ Managing /\ pc # "reap" /\ signals = 0 => zombie = unseen

\* Which signal the handle is started for, by place.
WatchingByPlace ==
    /\ pc \in {"fork", "watch"} => watching = "none"
    /\ pc = "reap" => watching = "CHLD"
    /\ kind = "routine" =>
          /\ pc \in {"prctl", "run"} => watching = "HUP"
          /\ pc \notin {"reap", "refork"}

IInv == TypeOK /\ Counted /\ RoomLeft /\ QueueCovers /\ WatchingByPlace

-----------------------------------------------------------------------------

LEMMA InitInv == Init => IInv
<1> SUFFICES ASSUME Init PROVE IInv
  OBVIOUS
<1>1. TypeOK
  BY PoolAssumption DEF Init, TypeOK, Place
<1>2. Counted /\ RoomLeft /\ QueueCovers /\ WatchingByPlace
  BY PoolAssumption DEF Init, Counted, RoomLeft, QueueCovers, WatchingByPlace
<1> QED
  BY <1>1, <1>2 DEF IInv

\* One step per action of Next.
LEMMA NextInv == IInv /\ [Next]_vars => IInv'
<1> SUFFICES ASSUME IInv, [Next]_vars PROVE IInv'
  OBVIOUS
<1> USE PoolAssumption
    DEF IInv, TypeOK, Place, Counted, RoomLeft, QueueCovers, WatchingByPlace,
        Managing, pool, parentState
<1>1. CASE Fork
  BY <1>1 DEF Fork
<1>2. CASE ForksDone
  BY <1>2 DEF ForksDone
<1>3. CASE WatchChild
  BY <1>3 DEF WatchChild
<1>4. CASE WatchHangup
  BY <1>4 DEF WatchHangup
<1>5. CASE SetPdeathsig
  BY <1>5 DEF SetPdeathsig
<1>6. CASE HandleChild
  BY <1>6 DEF HandleChild
<1>7. CASE Reap
  BY <1>7 DEF Reap
<1>8. CASE ReapDone
  BY <1>8 DEF ReapDone
<1>9. CASE ForkFails
  BY <1>9 DEF ForkFails
<1>10. CASE ChildDies
  BY <1>10 DEF ChildDies
<1>11. CASE ActorDies
  BY <1>11 DEF ActorDies
<1>12. CASE Hangup
  BY <1>12 DEF Hangup
<1>13. CASE UNCHANGED vars
  BY <1>13 DEF vars
<1> QED
  BY <1>1, <1>2, <1>3, <1>4, <1>5, <1>6, <1>7, <1>8, <1>9, <1>10, <1>11,
     <1>12, <1>13 DEF Next, ManagerStep

\* The invariant holds in every reachable state.
THEOREM Invariance == Spec => []IInv
  BY InitInv, NextInv, PTL DEF Spec

\* The variables keep their types; count, unsigned in the code, is never
\* decremented below zero.
THEOREM TypeCorrect == Spec => []TypeOK
<1>1. IInv => TypeOK
  BY DEF IInv
<1> QED
  BY <1>1, Invariance, PTL

\* The static counter is exact for every size of pool.
THEOREM CounterExact == Spec => []CountExact
<1>1. IInv => CountExact
  BY DEF IInv, Counted, CountExact
<1> QED
  BY <1>1, Invariance, PTL

\* The pool, with a demoted manager in it, never exceeds its size.
THEOREM PoolBounded == Spec => []PoolBound
<1>1. IInv => PoolBound
  BY PoolAssumption DEF IInv, TypeOK, Counted, RoomLeft, PoolBound
<1> QED
  BY <1>1, Invariance, PTL

\* An idle manager with an empty queue has missed no death it watched for.
THEOREM NoDeathMissed == Spec => []UnreapedAreUnseen
<1>1. IInv => UnreapedAreUnseen
  BY DEF IInv, QueueCovers, Managing, UnreapedAreUnseen
<1> QED
  BY <1>1, Invariance, PTL

\* Only a failing fork takes a manager out of its loop.
THEOREM OnlyForkFailureDemotes == Spec => []DemotedByForkFailure
<1>1. IInv => DemotedByForkFailure
  BY DEF IInv, RoomLeft, DemotedByForkFailure
<1> QED
  BY <1>1, Invariance, PTL

\* The routine manager never replaces a routine that died.
THEOREM RoutinesAreNotReplaced == Spec => NoReplacement
<1>1. IInv /\ [Next]_vars => [kind = "routine" /\ pc # "fork" => live' <= live]_vars
  <2> SUFFICES ASSUME IInv, [Next]_vars, kind = "routine", pc # "fork",
                      ~UNCHANGED vars
               PROVE  live' <= live
    OBVIOUS
  <2>1. ~Fork /\ live \in Nat
    BY DEF IInv, TypeOK, WatchingByPlace, Fork
  <2> QED
    BY <2>1 DEF Next, ManagerStep, ForksDone, WatchChild, WatchHangup,
       SetPdeathsig, HandleChild, Reap, ReapDone, ForkFails, ChildDies,
       ActorDies, Hangup, pool
<1> QED
  BY <1>1, Invariance, PTL DEF Spec, NoReplacement

-----------------------------------------------------------------------------
(***************************************************************************)
(* The process tree: pools of any size, any number of crashes and any      *)
(* number of failing system calls.                                         *)
(***************************************************************************)


(* The inductive invariant, in named parts. *)

\* Nothing is made before its turn in run().
NotYet ==
    /\ actor = "routine" => \A k \in Kinds : manager[k] = "none" /\ fd[k] = "unset"
    /\ actor = "worker" => manager["worker"] = "none"

\* A pool of members that serve: none of them ends its script while the
\* manager is there, so a child that is missing was killed from outside.
AccountedFor(k) ==
    /\ forks[k] <= PoolSize + crashes
    /\ manager[k] # "dead" => kids[k]["script"] = 0 /\ forks[k] <= Count(k) + crashes

TreeInv == TreeTypeOK /\ NotYet /\ \A k \in Kinds : Serves(k) => AccountedFor(k)

-----------------------------------------------------------------------------

LEMMA TreeInitInv == TreeInit => TreeInv
<1> SUFFICES ASSUME TreeInit PROVE TreeInv
  OBVIOUS
<1>1. TreeTypeOK
  <2>1. /\ fd \in [Kinds -> {"unset", "ok", "failed"}]
        /\ manager \in [Kinds -> ManagerPlace]
    BY DEF TreeInit, ManagerPlace
  <2>2. kids \in [Kinds -> [Stage -> Nat]]
    BY DEF TreeInit
  <2>3. stray \in [Kinds -> [{"born", "loop"} -> Nat]]
    BY DEF TreeInit
  <2>4. /\ forks \in [Kinds -> 0 .. MaxForks]
        /\ crashes \in 0 .. MaxCrashes /\ failures \in 0 .. MaxFailures
    BY BoundsAssumption DEF TreeInit
  <2>5. actor \in ActorPlace /\ sigint \in BOOLEAN /\ chld \in BOOLEAN
    BY DEF TreeInit, ActorPlace
  <2>6. armed \subseteq Kinds /\ hups \subseteq armed /\ early \subseteq Kinds
    BY DEF TreeInit
  <2> QED
    BY <2>1, <2>2, <2>3, <2>4, <2>5, <2>6 DEF TreeTypeOK
<1>2. NotYet /\ \A k \in Kinds : Serves(k) => AccountedFor(k)
  BY BoundsAssumption DEF TreeInit, NotYet, AccountedFor, Count, Kinds, Stage
<1> QED
  BY <1>1, <1>2 DEF TreeInv

\* The steps of run() in the actor, and what becomes of it.
LEMMA ActorTreeInv ==
    ASSUME TreeInv, RunStep \/ Interrupt \/ ActorInterrupted \/ ActorLeaves
    PROVE  TreeInv'
<1> USE BoundsAssumption
    DEF TreeInv, TreeTypeOK, ActorPlace, ManagerPlace, Stage, Kinds, NotYet, AccountedFor,
        Count, Serves, others, Fails
<1>1. CASE InitRoutineManager
  BY <1>1 DEF InitRoutineManager
<1>2. CASE InitWorkerManager
  BY <1>2 DEF InitWorkerManager
<1>3. CASE Check
  BY <1>3 DEF Check
<1>4. CASE Interrupt
  BY <1>4 DEF Interrupt
<1>5. CASE ActorInterrupted
  BY <1>5 DEF ActorInterrupted, ActorEnds, Alive
<1>6. CASE ActorLeaves
  BY <1>6 DEF ActorLeaves, ActorEnds, Alive
<1> QED
  BY <1>1, <1>2, <1>3, <1>4, <1>5, <1>6 DEF RunStep

\* The steps of the managers.
LEMMA ManagerTreeInv ==
    ASSUME TreeInv, NEW k \in Kinds,
           PoolStep(k) \/ ForkChildFails(k) \/ ManagerHangup(k) \/ SignalChld
    PROVE  TreeInv'
<1> USE BoundsAssumption
    DEF TreeInv, TreeTypeOK, ActorPlace, ManagerPlace, Stage, Kinds, NotYet, AccountedFor,
        Count, Serves, others, Fails
<1>1. CASE ForkChild(k)
  BY <1>1 DEF ForkChild, Lacks
<1>2. CASE PoolMade(k)
  BY <1>2 DEF PoolMade
<1>3. CASE Setup(k)
  BY <1>3 DEF Setup
<1>4. CASE MemberRuns(k)
  <2>1. CASE Serves(k)
    BY <1>4, <2>1 DEF MemberRuns
  <2>2. CASE ~Serves(k)
    BY <1>4, <2>2 DEF MemberRuns
  <2> QED
    BY <2>1, <2>2
<1>5. CASE MemberEnds(k)
  BY <1>5 DEF MemberEnds, ManagerEnds
<1>6. CASE ForkChildFails(k)
  BY <1>6 DEF ForkChildFails, Lacks
<1>7. CASE ManagerHangup(k)
  BY <1>7 DEF ManagerHangup, ManagerEnds, Alive
<1>8. CASE SignalChld
  BY <1>8 DEF SignalChld
<1> QED
  BY <1>1, <1>2, <1>3, <1>4, <1>5, <1>6, <1>7, <1>8 DEF PoolStep

\* The steps of the children.
LEMMA ChildTreeInv ==
    ASSUME TreeInv, NEW k \in Kinds, ChildStep(k) \/ ChildCrashes(k)
    PROVE  TreeInv'
<1> USE BoundsAssumption
    DEF TreeInv, TreeTypeOK, ActorPlace, ManagerPlace, Stage, Kinds, NotYet, AccountedFor,
        Count, Serves, others, Gone
<1>1. CASE ChildRuns(k)
  BY <1>1 DEF ChildRuns
<1>2. CASE ChildHangup(k)
  BY <1>2 DEF ChildHangup
<1>3. CASE ChildEnds(k)
  BY <1>3 DEF ChildEnds
<1>4. CASE StrayRuns(k)
  BY <1>4 DEF StrayRuns
<1>5. CASE ChildCrashes(k)
  BY <1>5 DEF ChildCrashes
<1> QED
  BY <1>1, <1>2, <1>3, <1>4, <1>5 DEF ChildStep

LEMMA TreeNextInv == TreeInv /\ [TreeNext]_treeVars => TreeInv'
<1> SUFFICES ASSUME TreeInv, [TreeNext]_treeVars PROVE TreeInv'
  OBVIOUS
<1>1. CASE RunStep \/ Interrupt \/ ActorInterrupted \/ ActorLeaves
  BY <1>1, ActorTreeInv
<1>2. CASE SignalChld
  BY <1>2, ManagerTreeInv DEF Kinds
<1>3. ASSUME NEW k \in Kinds, PoolStep(k) \/ ForkChildFails(k) \/ ManagerHangup(k) PROVE TreeInv'
  BY <1>3, ManagerTreeInv
<1>4. ASSUME NEW k \in Kinds, ChildStep(k) \/ ChildCrashes(k) PROVE TreeInv'
  BY <1>4, ChildTreeInv
<1>5. CASE UNCHANGED treeVars
  BY <1>5 DEF treeVars, TreeInv, TreeTypeOK, NotYet, AccountedFor, Count, Serves
<1> QED
  BY <1>1, <1>2, <1>3, <1>4, <1>5 DEF TreeNext

\* The invariant holds in every reachable state.
THEOREM TreeInvariance == TreeSpec => []TreeInv
  BY TreeInitInv, TreeNextInv, PTL DEF TreeSpec

\* Whatever fails and whoever dies, a manager forks no child but for one that
\* was killed, unless its members cannot serve (signal_chld_handler, run).
THEOREM ForksAreReplacements == TreeSpec => []ForksMatchDeaths
<1>1. TreeInv => ForksMatchDeaths
  BY DEF TreeInv, AccountedFor, ForksMatchDeaths
<1> QED
  BY <1>1, TreeInvariance, PTL
=============================================================================
