----------------------- MODULE PendingOperationProofs -----------------------
(***************************************************************************)
(* Proofs about PendingOperation: memory of an operation is misused only   *)
(* after a misuse of the operation, and a promise is pending only while    *)
(* its operation is under way.                                             *)
(*                                                                         *)
(* What an operation is, whatever the others do, is Sound.  An operation   *)
(* that was not misused is in one of these places at a time: to be         *)
(* started, active in the loop, or in the one frame that settles it; in    *)
(* each of them its structure is there.                                    *)
(***************************************************************************)
EXTENDS PendingOperation, SequenceTheorems, TLAPS

Settled == {"fulfilled", "rejected"}

\* Operations that run() will start, or has not come to yet.
ToStart ==
    IF ~Inited THEN Waiting
    ELSE {queue[i] : i \in {j \in 1 .. Len(queue) : phase = "init" /\ next <= j}}

\* The same, or in the queue of a worker, which is never gone through.
Queued(o) == o \in ToStart \/ (role = "WORKER" /\ o \in Waiting)

Single(f, o) == \A i, j \in 1 .. Len(f) : f[i] = o /\ f[j] = o => i = j

\* The queue has an operation once, and is gone through in run().
QueueOK ==
    /\ \A i, j \in 1 .. Len(queue) : queue[i] = queue[j] => i = j
    /\ ~Inited => phase = "script"

\* The promise and the structure of an operation.
PromiseOK(o) ==
    /\ mem[o] = "none" <=> promise[o] = "none"
    /\ mem[o] = "none" => uv[o] = "raw" /\ o \notin Waiting
    /\ promise[o] = "pending" =>
          mem[o] = "live" /\ (uv[o] \in {"active", "ignored", "forgotten"} \/ Queued(o))

\* An operation that was not misused.
UsedWell(o) ==
    /\ Single(frames, o)
    /\ o \in ToStart => uv[o] = "raw"
    /\ o \in ToStart \/ uv[o] = "active" =>
          mem[o] = "live" /\ o \notin InFrame /\ (o \in touched \/ promise[o] = "pending")
    /\ o \in InFrame => mem[o] = "live" /\ uv[o] \in {"idle", "refused"}
    /\ o \in thrown => o \in touched
    /\ o \in faulty => ReadsFreed(o)

Sound(o) == PromiseOK(o) /\ (o \in misused \/ UsedWell(o))

IInv == TypeOK /\ QueueOK /\ \A o \in Ops : Sound(o)

-----------------------------------------------------------------------------
(* Frames. *)

\* The frame of o is put on the others.
Pushed(o) ==
    /\ frames' \in Seq(Ops) /\ Len(frames') <= MaxDepth
    /\ InFrame' = InFrame \cup {o}
    /\ \A x \in Ops : Single(frames, x) /\ (x = o => x \notin InFrame) => Single(frames', x)

LEMMA PushFrame ==
    ASSUME TypeOK, NEW o \in Ops, Len(frames) < MaxDepth, frames' = Append(frames, o)
    PROVE  Pushed(o)
<1>1. PICK n \in Nat : n = Len(frames) /\ n < MaxDepth
  BY DEF TypeOK
<1>2. PICK f : f = frames'
  OBVIOUS
<1>3. /\ f \in Seq(Ops) /\ Len(f) = n + 1
      /\ \A i \in 1 .. n : f[i] = frames[i]
      /\ f[n + 1] = o
  BY <1>1, <1>2, AppendProperties DEF TypeOK
<1>4. \A i \in 1 .. n + 1 : i \in 1 .. n \/ i = n + 1
  BY <1>1
<1>5. \A i \in 1 .. n : i \in 1 .. n + 1
  BY <1>1
<1>6. n + 1 \in 1 .. n + 1 /\ n + 1 <= MaxDepth
  BY <1>1, OpsAssumption
<1>7. {f[i] : i \in 1 .. n + 1} = {frames[i] : i \in 1 .. n} \cup {o}
  BY <1>3, <1>4, <1>5, <1>6
<1>8. InFrame' = InFrame \cup {o}
  BY <1>1, <1>2, <1>3, <1>7 DEF InFrame
<1>9. ASSUME NEW x \in Ops, Single(frames, x), x = o => x \notin InFrame
      PROVE  Single(f, x)
  <2>1. x = o => \A i \in 1 .. n : frames[i] # x
    BY <1>1, <1>9 DEF InFrame
  <2> QED
    BY <1>1, <1>3, <1>4, <1>9, <2>1 DEF Single
<1> QED
  BY <1>2, <1>3, <1>6, <1>8, <1>9 DEF Pushed

\* The last frame goes.
LEMMA PopFrame ==
    ASSUME TypeOK, frames # <<>>, NEW o, o = frames[Len(frames)],
           frames' = SubSeq(frames, 1, Len(frames) - 1)
    PROVE  /\ o \in InFrame /\ o \in Ops
           /\ frames' \in Seq(Ops) /\ Len(frames') <= MaxDepth
           /\ InFrame' \subseteq InFrame
           /\ \A x \in Ops : x # o => (x \in InFrame => x \in InFrame')
           /\ \A x \in Ops : Single(frames, x) => Single(frames', x)
           /\ Single(frames, o) => o \notin InFrame'
<1>1. PICK n \in Nat : n + 1 = Len(frames) /\ n + 1 <= MaxDepth
  <2>1. Len(frames) \in Nat /\ Len(frames) # 0 /\ Len(frames) <= MaxDepth
    BY EmptySeq DEF TypeOK
  <2> QED
    BY <2>1
<1>2. PICK f : f = frames'
  OBVIOUS
<1>3. \A i \in 1 .. n + 1 : frames[i] \in Ops
  BY <1>1, ElementOfSeq DEF TypeOK
<1>4. /\ f \in Seq(Ops) /\ Len(f) = n
      /\ \A i \in 1 .. n : f[i] = frames[i]
  BY <1>1, <1>2, <1>3
<1>5. \A i \in 1 .. n + 1 : i \in 1 .. n \/ i = n + 1
  BY <1>1
<1>6. /\ \A i \in 1 .. n : i \in 1 .. n + 1 /\ i # n + 1
      /\ n + 1 \in 1 .. n + 1 /\ n <= MaxDepth
  BY <1>1, OpsAssumption
<1>7. InFrame = {frames[i] : i \in 1 .. n + 1} /\ InFrame' = {f[i] : i \in 1 .. n}
  BY <1>1, <1>2, <1>4 DEF InFrame
<1>8. o = frames[n + 1]
  BY <1>1
<1>9. o \in InFrame /\ o \in Ops /\ InFrame' \subseteq InFrame
  BY <1>3, <1>4, <1>6, <1>7, <1>8
<1>10. \A x \in Ops : x # o => (x \in InFrame => x \in InFrame')
  BY <1>4, <1>5, <1>7, <1>8
<1>11. \A x \in Ops : Single(frames, x) => Single(f, x)
  BY <1>1, <1>4, <1>6 DEF Single
<1>12. Single(frames, o) => o \notin InFrame'
  BY <1>1, <1>4, <1>6, <1>7, <1>8 DEF Single
<1> QED
  BY <1>2, <1>4, <1>6, <1>9, <1>10, <1>11, <1>12

-----------------------------------------------------------------------------
(* Steps of other operations. *)

\* The step leaves what Sound says of x as it was.
Kept(x) ==
    /\ kind' = kind
    /\ mem'[x] = mem[x] /\ uv'[x] = uv[x] /\ promise'[x] = promise[x]
    /\ (x \in InFrame)' <=> x \in InFrame
    /\ Single(frames, x) => Single(frames, x)'
    /\ (x \in ToStart)' => x \in ToStart
    /\ (x \in Waiting)' => x \in Waiting
    /\ Queued(x) => Queued(x)'
    /\ x \in misused => x \in misused'
    /\ x \in touched => x \in touched'
    /\ x \in thrown' => x \in thrown
    /\ x \in faulty' => x \in faulty

LEMMA KeptSound ==
    ASSUME NEW x \in Ops, Sound(x), Kept(x)
    PROVE  Sound(x)'
<1>1. PromiseOK(x)'
  BY DEF Sound, Kept, PromiseOK
<1>2. ASSUME UsedWell(x)
      PROVE  UsedWell(x)'
  BY <1>2 DEF Kept, UsedWell, ReadsFreed
<1> QED
  BY <1>1, <1>2 DEF Sound, Kept

QueueKept == UNCHANGED <<kind, role, runs, phase, queue, next>>

LEMMA QueueKeptFacts ==
    ASSUME QueueKept
    PROVE  /\ Waiting' = Waiting /\ ToStart' = ToStart /\ Inited' = Inited
           /\ \A x : Queued(x)' = Queued(x)
           /\ QueueOK => QueueOK'
<1>1. /\ kind' = kind /\ role' = role /\ runs' = runs
      /\ phase' = phase /\ queue' = queue /\ next' = next
  BY DEF QueueKept
<1>2. Waiting' = Waiting /\ Inited' = Inited
  BY <1>1 DEF Waiting, Inited
<1>3. ToStart' = ToStart
  BY <1>1, <1>2 DEF ToStart
<1> QED
  BY <1>1, <1>2, <1>3 DEF Queued, QueueOK

LEMMA FramesKept ==
    ASSUME frames' = frames
    PROVE  InFrame' = InFrame /\ \A x : Single(frames, x)' = Single(frames, x)
BY DEF InFrame, Single

-----------------------------------------------------------------------------
(* Settling and starting. *)

\* The promise of o is settled, by this step or before it, and its handlers
\* run.
Answered(o) ==
    /\ Pushed(o)
    /\ promise' \in [Ops -> States] /\ promise'[o] \in Settled
    /\ \A x \in Ops : x # o => promise'[x] = promise[x]
    /\ thrown' \subseteq thrown \cup {o}
    /\ \A x \in InFrame' : promise'[x] \in Settled

LEMMA SettleFacts ==
    ASSUME TypeOK, NEW o \in Ops, NEW s \in Settled, NEW p \in [Ops -> States],
           \A x \in Ops : x # o => p[x] = promise[x], p[o] # "none",
           Settle(p, o, s)
    PROVE  Answered(o) /\ (p[o] = "pending" => thrown' = thrown)
<1>1. Pushed(o)
  BY PushFrame DEF Settle
<1>2. promise' \in [Ops -> States] /\ promise'[o] \in Settled
  BY DEF Settle, Settled, States
<1>3. \A x \in Ops : x # o => promise'[x] = promise[x]
  BY DEF Settle
<1>4. thrown' \subseteq thrown \cup {o} /\ (p[o] = "pending" => thrown' = thrown)
  BY DEF Settle
<1>5. InFrame \subseteq Ops /\ \A x \in InFrame : promise[x] \in Settled
  <2>1. \A i \in 1 .. Len(frames) : frames[i] \in Ops
    BY ElementOfSeq DEF TypeOK
  <2> QED
    BY <2>1 DEF TypeOK, InFrame, Settled
<1>6. \A x \in InFrame' : promise'[x] \in Settled
  BY <1>1, <1>2, <1>3, <1>5 DEF Pushed
<1> QED
  BY <1>1, <1>2, <1>3, <1>4, <1>6 DEF Answered

UvStates == {"raw", "active", "idle", "refused", "ignored", "forgotten"}

LEMMA StartFacts ==
    ASSUME TypeOK, NEW o \in Ops, NEW p \in [Ops -> States],
           \A x \in Ops : x # o => p[x] = promise[x], p[o] # "none",
           StartOp(o, p)
    PROVE  /\ uv' \in [Ops -> UvStates] /\ \A x \in Ops : x # o => uv'[x] = uv[x]
           /\ \/ /\ uv'[o] \in {"active", "ignored"} /\ promise' = p
                 /\ frames' = frames /\ thrown' = thrown
              \/ /\ uv'[o] = "refused" /\ Answered(o)
                 /\ p[o] = "pending" => thrown' = thrown
<1>1. uv \in [Ops -> UvStates]
  BY DEF TypeOK, UvStates
<1>2. CASE StartTimer(o, p)
  BY <1>1, <1>2 DEF StartTimer, UvStates
<1>3. CASE StartConnect(o, p)
  BY <1>1, <1>3 DEF StartConnect, UvStates
<1>4. CASE uv' = [uv EXCEPT ![o] = "refused"] /\ Settle(p, o, "rejected")
  <2>1. "rejected" \in Settled
    BY DEF Settled
  <2>2. Answered(o) /\ (p[o] = "pending" => thrown' = thrown)
    BY <1>4, <2>1, SettleFacts
  <2> QED
    BY <1>1, <1>4, <2>2 DEF UvStates
<1>5. CASE uv' = [uv EXCEPT ![o] = "active"] /\ promise' = p /\ UNCHANGED <<frames, thrown>>
  BY <1>1, <1>5 DEF UvStates
<1> QED
  BY <1>2, <1>3, <1>4, <1>5 DEF StartOp, StartLookup

-----------------------------------------------------------------------------
(* Every step keeps IInv. *)

LEMMA InitIInv == Init => IInv
<1> SUFFICES ASSUME Init
             PROVE  IInv
  OBVIOUS
<1>1. /\ queue = <<>> /\ frames = <<>> /\ Len(queue) = 0 /\ Len(frames) = 0
      /\ next = 1 /\ runs = 0 /\ phase = "script"
  BY DEF Init
<1>2. Waiting = {} /\ InFrame = {} /\ ~Inited
  BY <1>1 DEF Waiting, InFrame, Inited
<1>3. TypeOK
  <2>1. kind \in Kinds /\ role \in {"ACTOR", "WORKER"}
    BY DEF Init
  <2>2. runs \in 0 .. MaxRuns /\ next \in 1 .. Len(queue) + 1 /\ Len(frames) <= MaxDepth
    BY <1>1, OpsAssumption
  <2>3. queue \in Seq(Ops) /\ frames \in Seq(Ops)
    BY <1>1
  <2> QED
    BY <1>1, <1>2, <2>1, <2>2, <2>3 DEF Init, TypeOK, States
<1>4. QueueOK
  BY <1>1 DEF QueueOK
<1>5. ASSUME NEW o \in Ops
      PROVE  Sound(o)
  <2>1. o \notin ToStart
    BY <1>2 DEF ToStart
  <2>2. Single(frames, o)
    BY <1>1 DEF Single
  <2> QED
    BY <1>2, <2>1, <2>2 DEF Init, Sound, PromiseOK, UsedWell
<1> QED
  BY <1>3, <1>4, <1>5 DEF IInv

\* Memory of o is used that is gone: o was misused, or is a lookup that was
\* refused.
LEMMA FaultStep ==
    ASSUME IInv, NEW o \in Ops, Fault(o), o \in misused \/ ReadsFreed(o)
    PROVE  IInv'
<1>1. /\ QueueKept /\ frames' = frames
      /\ mem' = mem /\ uv' = uv /\ promise' = promise /\ thrown' = thrown
      /\ touched' = touched /\ misused' = misused /\ faulty' = {o}
  BY DEF Fault, QueueKept
<1>2. InFrame' = InFrame /\ \A x : Single(frames, x)' = Single(frames, x)
  BY <1>1, FramesKept
<1>3. /\ Waiting' = Waiting /\ ToStart' = ToStart /\ QueueOK'
      /\ \A x : Queued(x)' = Queued(x)
  BY <1>1, QueueKeptFacts DEF IInv
<1>4. TypeOK'
  BY <1>1, <1>2 DEF IInv, TypeOK, QueueKept
<1>5. ASSUME NEW x \in Ops
      PROVE  Sound(x)'
  <2>1. CASE x # o
    <3>1. Kept(x)
      BY <1>1, <1>2, <1>3, <2>1 DEF Kept, QueueKept
    <3> QED
      BY <3>1, KeptSound DEF IInv
  <2>2. CASE x = o
    <3>1. PromiseOK(x)'
      BY <1>1, <1>3 DEF IInv, Sound, PromiseOK
    <3>2. ReadsFreed(x)' = ReadsFreed(x)
      BY <1>1 DEF ReadsFreed, QueueKept
    <3>3. x \in misused \/ UsedWell(x)'
      BY <1>1, <1>2, <1>3, <2>2, <3>2 DEF IInv, Sound, UsedWell
    <3> QED
      BY <1>1, <3>1, <3>3 DEF Sound
  <2> QED
    BY <2>1, <2>2
<1> QED
  BY <1>3, <1>4, <1>5 DEF IInv

LEMMA UserSettlesStep ==
    ASSUME IInv, NEW o \in Ops, UserSettles(o)
    PROVE  IInv'
<1>1. /\ QueueKept /\ frames' = frames
      /\ mem' = mem /\ uv' = uv /\ thrown' = thrown
      /\ touched' = touched \cup {o} /\ misused' = misused /\ faulty' = faulty
  BY DEF UserSettles, QueueKept
<1>2. InFrame' = InFrame /\ \A x : Single(frames, x)' = Single(frames, x)
  BY <1>1, FramesKept
<1>3. /\ Waiting' = Waiting /\ ToStart' = ToStart /\ QueueOK'
      /\ \A x : Queued(x)' = Queued(x)
  BY <1>1, QueueKeptFacts DEF IInv
<1>4. /\ promise' \in [Ops -> States] /\ promise'[o] \in Settled /\ promise[o] = "pending"
      /\ \A x \in Ops : x # o => promise'[x] = promise[x]
  BY DEF IInv, TypeOK, UserSettles, Settled, States
<1>5. TypeOK'
  <2>1. \A x \in InFrame : promise'[x] = promise[x]
    BY <1>4 DEF UserSettles, IInv, TypeOK
  <2> QED
    BY <1>1, <1>2, <1>4, <2>1 DEF IInv, TypeOK, QueueKept
<1>6. ASSUME NEW x \in Ops
      PROVE  Sound(x)'
  <2>1. CASE x # o
    <3>1. Kept(x)
      BY <1>1, <1>2, <1>3, <1>4, <2>1 DEF Kept, QueueKept
    <3> QED
      BY <3>1, KeptSound DEF IInv
  <2>2. CASE x = o
    <3>1. PromiseOK(x)'
      BY <1>1, <1>3, <1>4, <2>2 DEF IInv, Sound, PromiseOK, Settled
    <3>2. ReadsFreed(x)' = ReadsFreed(x)
      BY <1>1 DEF ReadsFreed, QueueKept
    <3>3. x \in misused \/ UsedWell(x)'
      BY <1>1, <1>2, <1>3, <2>2, <3>2 DEF IInv, Sound, UsedWell
    <3> QED
      BY <1>1, <3>1, <3>3 DEF Sound
  <2> QED
    BY <2>1, <2>2
<1> QED
  BY <1>3, <1>5, <1>6 DEF IInv

\* A callback of the loop: the structure of an operation that is active and
\* was not misused is there, and no handlers of it run.
LEMMA DoneStep ==
    ASSUME IInv, NEW o \in Ops, NEW s \in Settled, Done(o, s)
    PROVE  IInv'
<1>1. CASE mem[o] = "freed"
  <2>1. Fault(o) /\ uv[o] = "active"
    BY <1>1 DEF Done
  <2>2. o \in misused
    BY <1>1, <2>1 DEF IInv, Sound, UsedWell
  <2> QED
    BY <2>1, <2>2, FaultStep
<1>2. CASE mem[o] # "freed"
  <2>1. /\ QueueKept /\ mem' = mem /\ touched' = touched /\ misused' = misused
        /\ faulty' = faulty /\ uv[o] = "active" /\ uv' = [uv EXCEPT ![o] = "idle"]
        /\ Settle(promise, o, s)
    BY <1>2 DEF Done, QueueKept
  <2>2. TypeOK /\ Sound(o) /\ promise \in [Ops -> States]
    BY DEF IInv, TypeOK
  <2>3. mem[o] # "none" /\ promise[o] # "none"
    BY <2>1, <2>2 DEF Sound, PromiseOK
  <2>4. Answered(o) /\ (promise[o] = "pending" => thrown' = thrown)
    BY <2>1, <2>2, <2>3, SettleFacts
  <2>5. /\ Waiting' = Waiting /\ ToStart' = ToStart /\ QueueOK'
        /\ \A x : Queued(x)' = Queued(x)
    BY <2>1, QueueKeptFacts DEF IInv
  <2>6. /\ uv' \in [Ops -> UvStates] /\ uv'[o] = "idle"
        /\ \A x \in Ops : x # o => uv'[x] = uv[x]
    BY <2>1, <2>2 DEF TypeOK, UvStates
  <2>7. TypeOK'
    <3>1. /\ promise' \in [Ops -> States] /\ thrown' \subseteq Ops
          /\ frames' \in Seq(Ops) /\ Len(frames') <= MaxDepth
          /\ \A x \in InFrame' : promise'[x] \in Settled
      BY <2>2, <2>4 DEF Answered, Pushed, TypeOK
    <3> QED
      BY <2>1, <2>2, <2>6, <3>1 DEF TypeOK, QueueKept, UvStates, Settled
  <2>8. ASSUME NEW x \in Ops, x # o
        PROVE  Sound(x)'
    <3>1. Kept(x)
      BY <2>1, <2>4, <2>5, <2>6, <2>8 DEF Kept, QueueKept, Answered, Pushed
    <3> QED
      BY <2>8, <3>1, KeptSound DEF IInv
  <2>9. Sound(o)'
    <3>1. PromiseOK(o)'
      BY <2>1, <2>3, <2>4 DEF PromiseOK, Answered, Settled
    <3>2. ReadsFreed(o) => FALSE
      BY <2>1 DEF ReadsFreed
    <3>3. UsedWell(o) => UsedWell(o)'
      BY <2>1, <2>3, <2>4, <2>5, <2>6, <3>2 DEF UsedWell, Answered, Pushed
    <3> QED
      BY <2>1, <2>2, <3>1, <3>3 DEF Sound
  <2> QED
    BY <2>5, <2>7, <2>8, <2>9 DEF IInv
<1> QED
  BY <1>1, <1>2

LEMMA CancelStep ==
    ASSUME IInv, NEW o \in Ops, Cancel(o)
    PROVE  IInv'
<1>1. /\ QueueKept /\ mem' = mem /\ touched' = touched
      /\ misused' = IF Cancellable(o) THEN misused ELSE misused \cup {o}
      /\ promise[o] # "none"
  BY DEF Cancel, QueueKept
<1>2. TypeOK /\ Sound(o) /\ promise \in [Ops -> States] /\ uv \in [Ops -> UvStates]
  BY DEF IInv, TypeOK, UvStates
<1>3. /\ Waiting' = Waiting /\ ToStart' = ToStart /\ QueueOK'
      /\ \A x : Queued(x)' = Queued(x)
  BY <1>1, QueueKeptFacts DEF IInv
<1>4. mem[o] # "none"
  BY <1>1, <1>2 DEF Sound, PromiseOK
<1>5. /\ misused \subseteq misused' /\ misused' \subseteq Ops
      /\ ~Cancellable(o) => o \in misused'
  BY <1>1, <1>2 DEF TypeOK
<1>6. CASE /\ mem[o] = "freed" \/ uv[o] \in {"raw", "forgotten"}
           /\ faulty' = {o} /\ UNCHANGED <<uv, promise, frames, thrown>>
  <2>1. InFrame' = InFrame /\ \A x : Single(frames, x)' = Single(frames, x)
    BY <1>6, FramesKept
  <2>2. TypeOK'
    BY <1>1, <1>2, <1>5, <1>6, <2>1 DEF TypeOK, QueueKept
  <2>3. o \in misused'
    BY <1>5, <1>6 DEF Cancellable
  <2>4. PromiseOK(o)'
    BY <1>1, <1>2, <1>3, <1>6 DEF Sound, PromiseOK
  <2>5. ASSUME NEW x \in Ops, x # o
        PROVE  Sound(x)'
    <3>1. Kept(x)
      BY <1>1, <1>3, <1>5, <1>6, <2>1, <2>5 DEF Kept, QueueKept
    <3> QED
      BY <2>5, <3>1, KeptSound DEF IInv
  <2> QED
    BY <1>3, <2>2, <2>3, <2>4, <2>5 DEF IInv, Sound
<1>7. CASE /\ mem[o] = "live" /\ faulty' = faulty
           /\ uv' = [uv EXCEPT ![o] = IF @ = "raw" THEN @ ELSE "idle"]
           /\ Settle(promise, o, "rejected")
  <2>1. "rejected" \in Settled
    BY DEF Settled
  <2>2. Answered(o) /\ (promise[o] = "pending" => thrown' = thrown)
    BY <1>1, <1>2, <1>7, <2>1, SettleFacts
  <2>3. /\ uv' \in [Ops -> UvStates] /\ (uv[o] = "active" => uv'[o] = "idle")
        /\ \A x \in Ops : x # o => uv'[x] = uv[x]
    BY <1>2, <1>7 DEF UvStates
  <2>4. TypeOK'
    <3>1. /\ promise' \in [Ops -> States] /\ thrown' \subseteq Ops
          /\ frames' \in Seq(Ops) /\ Len(frames') <= MaxDepth
          /\ \A x \in InFrame' : promise'[x] \in Settled
      BY <1>2, <2>2 DEF Answered, Pushed, TypeOK
    <3> QED
      BY <1>1, <1>2, <1>5, <1>7, <2>3, <3>1 DEF TypeOK, QueueKept, UvStates, Settled
  <2>5. ASSUME NEW x \in Ops, x # o
        PROVE  Sound(x)'
    <3>1. Kept(x)
      BY <1>1, <1>3, <1>5, <1>7, <2>2, <2>3, <2>5 DEF Kept, QueueKept, Answered, Pushed
    <3> QED
      BY <2>5, <3>1, KeptSound DEF IInv
  <2>6. Sound(o)'
    <3>1. PromiseOK(o)'
      BY <1>1, <1>4, <2>2 DEF PromiseOK, Answered, Settled
    <3>2. CASE ~Cancellable(o)
      BY <1>5, <3>1, <3>2 DEF Sound
    <3>3. CASE Cancellable(o)
      <4>1. uv[o] = "active" /\ o \notin InFrame /\ uv'[o] = "idle"
        BY <2>3, <3>3 DEF Cancellable
      <4>2. ~ReadsFreed(o)
        BY <4>1 DEF ReadsFreed
      <4>3. UsedWell(o) => UsedWell(o)'
        BY <1>1, <1>3, <1>7, <2>2, <4>1, <4>2 DEF UsedWell, Answered, Pushed
      <4> QED
        BY <1>2, <1>5, <3>1, <4>3 DEF Sound
    <3> QED
      BY <3>2, <3>3
  <2> QED
    BY <1>3, <2>4, <2>5, <2>6 DEF IInv
<1> QED
  BY <1>6, <1>7 DEF Cancel

\* The last frame goes, and the structure of its operation with it.
LEMMA FinishStep ==
    ASSUME IInv, Finish
    PROVE  IInv'
<1>1. PICK o : o = frames[Len(frames)]
  OBVIOUS
<1>2. TypeOK /\ frames # <<>>
  BY DEF IInv, Finish
<1>3. Len(frames) \in 1 .. Len(frames)
  <2>1. Len(frames) \in Nat /\ Len(frames) # 0
    BY <1>2, EmptySeq DEF TypeOK
  <2> QED
    BY <2>1
<1>4. o \in InFrame /\ o \in Ops
  BY <1>1, <1>2, <1>3, ElementOfSeq DEF InFrame, TypeOK
<1>5. Sound(o) /\ promise[o] \in Settled
  BY <1>2, <1>4 DEF IInv, TypeOK, Settled
<1>6. CASE Fault(o) /\ (mem[o] = "freed" \/ ReadsFreed(o))
  <2>1. o \in misused \/ ReadsFreed(o)
    BY <1>4, <1>5, <1>6 DEF Sound, UsedWell
  <2> QED
    BY <1>4, <1>6, <2>1, FaultStep
<1>7. CASE /\ mem[o] = "live" /\ mem' = [mem EXCEPT ![o] = "freed"]
           /\ frames' = SubSeq(frames, 1, Len(frames) - 1)
           /\ UNCHANGED <<kind, role, runs, phase, queue, next, uv, promise, thrown,
                          touched, misused, faulty>>
  <2>1. /\ QueueKept /\ uv' = uv /\ promise' = promise /\ thrown' = thrown
        /\ touched' = touched /\ misused' = misused /\ faulty' = faulty
    BY <1>7 DEF QueueKept
  <2>2. /\ frames' \in Seq(Ops) /\ Len(frames') <= MaxDepth
        /\ InFrame' \subseteq InFrame
        /\ \A x \in Ops : x # o => (x \in InFrame => x \in InFrame')
        /\ \A x \in Ops : Single(frames, x) => Single(frames', x)
        /\ Single(frames, o) => o \notin InFrame'
    BY <1>1, <1>2, <1>7, PopFrame
  <2>3. /\ Waiting' = Waiting /\ ToStart' = ToStart /\ QueueOK'
        /\ \A x : Queued(x)' = Queued(x)
    BY <2>1, QueueKeptFacts DEF IInv
  <2>4. /\ mem' \in [Ops -> {"none", "live", "freed"}] /\ mem'[o] = "freed"
        /\ \A x \in Ops : x # o => mem'[x] = mem[x]
    BY <1>2, <1>4, <1>7 DEF TypeOK
  <2>5. TypeOK'
    <3>1. \A x \in InFrame' : promise'[x] \in {"fulfilled", "rejected"}
      BY <1>2, <2>1, <2>2 DEF TypeOK
    <3> QED
      BY <1>2, <2>1, <2>2, <2>4, <3>1 DEF TypeOK, QueueKept
  <2>6. ASSUME NEW x \in Ops, x # o
        PROVE  Sound(x)'
    <3>1. Kept(x)
      BY <2>1, <2>2, <2>3, <2>4, <2>6 DEF Kept, QueueKept
    <3> QED
      BY <2>6, <3>1, KeptSound DEF IInv
  <2>7. Sound(o)'
    <3>1. PromiseOK(o)'
      BY <1>5, <1>7, <2>1, <2>4 DEF Sound, PromiseOK, Settled
    <3>2. ReadsFreed(o)' = ReadsFreed(o)
      BY <2>1 DEF ReadsFreed, QueueKept
    <3>3. UsedWell(o) => UsedWell(o)'
      BY <1>4, <2>1, <2>2, <2>3, <3>2 DEF UsedWell
    <3> QED
      BY <1>5, <2>1, <3>1, <3>3 DEF Sound
  <2> QED
    BY <1>4, <2>3, <2>5, <2>6, <2>7 DEF IInv
<1> QED
  BY <1>1, <1>6, <1>7 DEF Finish

\* The first run() has the whole queue to start; a later one goes through it
\* again, which misuses the operations in it.
LEMMA RunStep ==
    ASSUME IInv, Run
    PROVE  IInv'
<1>1. /\ kind' = kind /\ role' = role /\ queue' = queue /\ mem' = mem
      /\ promise' = promise /\ frames' = frames /\ thrown' = thrown
      /\ touched' = touched /\ faulty' = faulty
      /\ phase = "script" /\ phase' = "init" /\ next' = 1
      /\ runs < MaxRuns /\ runs' = runs + 1
      /\ uv' = [o \in Ops |-> IF uv[o] = "active" THEN "forgotten" ELSE uv[o]]
      /\ misused' = IF Inited THEN misused \cup Waiting ELSE misused
  BY DEF Run
<1>2. TypeOK /\ QueueOK
  BY DEF IInv
<1>3. InFrame' = InFrame /\ (\A x : Single(frames, x)' = Single(frames, x))
      /\ Waiting' = Waiting /\ Waiting \subseteq Ops
  <2>1. \A i \in 1 .. Len(queue) : queue[i] \in Ops
    BY <1>2, ElementOfSeq DEF TypeOK
  <2> QED
    BY <1>1, <2>1, FramesKept DEF Waiting
<1>4. Inited'
  BY <1>1, <1>2 DEF Inited, TypeOK
<1>5. ToStart' = Waiting
  <2>1. PICK n \in Nat : n = Len(queue)
    BY <1>2 DEF TypeOK
  <2>2. {j \in 1 .. n : 1 <= j} = 1 .. n
    BY <2>1
  <2> QED
    BY <1>1, <1>4, <2>1, <2>2 DEF ToStart, Waiting
<1>6. TypeOK'
  <2>1. runs' \in 0 .. MaxRuns /\ next' \in 1 .. Len(queue') + 1
    BY <1>1, <1>2, OpsAssumption DEF TypeOK
  <2>2. uv' \in [Ops -> {"raw", "active", "idle", "refused", "ignored", "forgotten"}]
    BY <1>1, <1>2 DEF TypeOK
  <2>3. misused' \subseteq Ops
    BY <1>1, <1>2, <1>3 DEF TypeOK
  <2> QED
    BY <1>1, <1>2, <1>3, <2>1, <2>2, <2>3 DEF TypeOK
<1>7. QueueOK'
  BY <1>1, <1>2, <1>4 DEF QueueOK
<1>8. ASSUME NEW x \in Ops
      PROVE  Sound(x)'
  <2>1. Sound(x) /\ uv'[x] = (IF uv[x] = "active" THEN "forgotten" ELSE uv[x])
    BY <1>1 DEF IInv
  <2>2. Queued(x) => Queued(x)'
    <3>1. ToStart \subseteq Waiting
      BY <1>1 DEF ToStart
    <3> QED
      BY <1>1, <1>3, <1>5, <3>1 DEF Queued
  <2>3. PromiseOK(x)'
    BY <1>1, <1>3, <2>1, <2>2 DEF Sound, PromiseOK
  <2>4. x \in misused => x \in misused'
    BY <1>1
  <2>5. CASE x \in misused'
    BY <2>3, <2>5 DEF Sound
  <2>6. CASE x \notin misused'
    <3>1. UsedWell(x)
      BY <2>1, <2>4, <2>6 DEF Sound
    <3>2. x \in ToStart' => x \in ToStart
      BY <1>1, <1>5, <2>6 DEF ToStart
    <3>3. ReadsFreed(x) => ReadsFreed(x)'
      BY <1>1, <2>1 DEF ReadsFreed
    <3>4. UsedWell(x)'
      BY <1>1, <1>3, <2>1, <3>1, <3>2, <3>3 DEF UsedWell
    <3> QED
      BY <2>3, <3>4 DEF Sound
  <2> QED
    BY <2>5, <2>6
<1> QED
  BY <1>6, <1>7, <1>8 DEF IInv

\* The actor has started all of the queue, the worker leaves it.
LEMMA InitDoneStep ==
    ASSUME IInv, InitDone
    PROVE  IInv'
<1>1. /\ kind' = kind /\ role' = role /\ runs' = runs /\ queue' = queue /\ next' = next
      /\ mem' = mem /\ uv' = uv /\ promise' = promise /\ frames' = frames
      /\ thrown' = thrown /\ touched' = touched /\ misused' = misused /\ faulty' = faulty
      /\ phase = "init" /\ phase' = "loop" /\ (role = "WORKER" \/ next > Len(queue))
  BY DEF InitDone
<1>2. TypeOK /\ QueueOK
  BY DEF IInv
<1>3. InFrame' = InFrame /\ (\A x : Single(frames, x)' = Single(frames, x))
      /\ Waiting' = Waiting /\ Inited' = Inited
  BY <1>1, FramesKept DEF Waiting, Inited
<1>4. Inited
  BY <1>1, <1>2 DEF QueueOK
<1>5. ToStart' = {}
  BY <1>1, <1>3, <1>4 DEF ToStart
<1>6. ToStart \subseteq Waiting /\ (role # "WORKER" => ToStart = {})
  <2>1. ToStart \subseteq Waiting
    BY <1>4 DEF ToStart, Waiting
  <2>2. CASE next > Len(queue)
    <3>1. \A j \in 1 .. Len(queue) : ~(next <= j)
      BY <1>2, <2>2 DEF TypeOK
    <3> QED
      BY <1>4, <2>1, <3>1 DEF ToStart
  <2> QED
    BY <1>1, <2>1, <2>2
<1>7. TypeOK'
  BY <1>1, <1>2, <1>3 DEF TypeOK
<1>8. QueueOK'
  BY <1>1, <1>2, <1>4, <1>3 DEF QueueOK
<1>9. ASSUME NEW x \in Ops
      PROVE  Sound(x)'
  <2>1. Queued(x) => Queued(x)'
    BY <1>1, <1>3, <1>5, <1>6 DEF Queued
  <2>2. Kept(x)
    BY <1>1, <1>3, <1>5, <2>1 DEF Kept
  <2> QED
    BY <2>2, KeptSound DEF IInv
<1> QED
  BY <1>7, <1>8, <1>9 DEF IInv

LEMMA RunReturnsStep ==
    ASSUME IInv, RunReturns
    PROVE  IInv'
<1>1. /\ kind' = kind /\ role' = role /\ runs' = runs /\ queue' = queue /\ next' = next
      /\ mem' = mem /\ uv' = uv /\ promise' = promise /\ frames' = frames
      /\ thrown' = thrown /\ touched' = touched /\ misused' = misused /\ faulty' = faulty
      /\ phase = "loop" /\ phase' = "script"
  BY DEF RunReturns, LoopIdle
<1>2. TypeOK /\ QueueOK
  BY DEF IInv
<1>3. InFrame' = InFrame /\ (\A x : Single(frames, x)' = Single(frames, x))
      /\ Waiting' = Waiting /\ Inited' = Inited
  BY <1>1, FramesKept DEF Waiting, Inited
<1>4. Inited
  BY <1>1, <1>2 DEF QueueOK
<1>5. ToStart = {} /\ ToStart' = {}
  BY <1>1, <1>3, <1>4 DEF ToStart
<1>6. TypeOK'
  BY <1>1, <1>2, <1>3 DEF TypeOK
<1>7. QueueOK'
  BY <1>1, <1>2, <1>4, <1>3 DEF QueueOK
<1>8. ASSUME NEW x \in Ops
      PROVE  Sound(x)'
  <2>1. Kept(x)
    BY <1>1, <1>3, <1>5 DEF Kept, Queued
  <2> QED
    BY <2>1, KeptSound DEF IInv
<1> QED
  BY <1>6, <1>7, <1>8 DEF IInv

LEMMA InitExecuteStep ==
    ASSUME IInv, InitExecute
    PROVE  IInv'
<1>1. PICK o, n : o = queue[next] /\ n = Len(queue)
  OBVIOUS
<1>2. TypeOK /\ QueueOK /\ promise \in [Ops -> States]
  BY DEF IInv, TypeOK
<1>3. n \in Nat /\ next \in 1 .. n /\ o \in Ops /\ phase = "init" /\ Inited
  <2>1. n \in Nat /\ next \in 1 .. n
    BY <1>1, <1>2 DEF InitExecute, TypeOK
  <2> QED
    BY <1>1, <1>2, <2>1, ElementOfSeq DEF InitExecute, TypeOK, QueueOK
<1>4. o \in ToStart /\ o \in Waiting /\ Sound(o)
  <2>1. next \in {j \in 1 .. n : phase = "init" /\ next <= j}
    BY <1>3
  <2> QED
    BY <1>1, <1>3, <2>1 DEF ToStart, Waiting, IInv
<1>5. mem[o] # "none" /\ promise[o] # "none"
  BY <1>4 DEF Sound, PromiseOK
<1>6. CASE mem[o] = "freed"
  <2>1. Fault(o)
    BY <1>1, <1>6 DEF InitExecute
  <2>2. o \in misused
    BY <1>4, <1>6 DEF Sound, UsedWell
  <2> QED
    BY <1>3, <2>1, <2>2, FaultStep
<1>7. CASE mem[o] # "freed"
  <2>1. /\ StartOp(o, promise) /\ next' = next + 1
        /\ kind' = kind /\ role' = role /\ runs' = runs /\ phase' = phase /\ queue' = queue
        /\ mem' = mem /\ touched' = touched /\ misused' = misused /\ faulty' = faulty
    BY <1>1, <1>7 DEF InitExecute
  <2>2. /\ uv' \in [Ops -> UvStates] /\ \A x \in Ops : x # o => uv'[x] = uv[x]
        /\ \/ /\ uv'[o] \in {"active", "ignored"} /\ promise' = promise
              /\ frames' = frames /\ thrown' = thrown
           \/ /\ uv'[o] = "refused" /\ Answered(o)
              /\ promise[o] = "pending" => thrown' = thrown
    BY <1>2, <1>3, <1>5, <2>1, StartFacts
  <2>3. Waiting' = Waiting /\ Inited' = Inited
    BY <2>1 DEF Waiting, Inited
  <2>4. /\ ToStart' \subseteq ToStart /\ o \notin ToStart'
        /\ \A x : x \in ToStart /\ x # o => x \in ToStart'
    <3>1. /\ ToStart = {queue[i] : i \in {j \in 1 .. n : next <= j}}
          /\ ToStart' = {queue[i] : i \in {j \in 1 .. n : next + 1 <= j}}
      BY <1>1, <1>3, <2>1, <2>3 DEF ToStart
    <3>2. \A j \in 1 .. n : next <= j <=> (j = next \/ next + 1 <= j)
      BY <1>3
    <3>3. \A j \in 1 .. n : next + 1 <= j => j # next
      BY <1>3
    <3>4. \A j \in 1 .. n : queue[j] = o => j = next
      BY <1>1, <1>2, <1>3 DEF QueueOK
    <3> QED
      BY <1>1, <3>1, <3>2, <3>3, <3>4
  <2>5. TypeOK'
    <3>1. /\ promise' \in [Ops -> States] /\ thrown' \subseteq Ops
          /\ frames' \in Seq(Ops) /\ Len(frames') <= MaxDepth
          /\ \A x \in InFrame' : promise'[x] \in {"fulfilled", "rejected"}
      <4>1. CASE promise' = promise /\ frames' = frames /\ thrown' = thrown
        <5>1. InFrame' = InFrame
          BY <4>1, FramesKept
        <5> QED
          BY <1>2, <4>1, <5>1 DEF TypeOK
      <4>2. CASE Answered(o)
        BY <1>2, <1>3, <4>2 DEF Answered, Pushed, TypeOK, Settled
      <4> QED
        BY <2>2, <4>1, <4>2
    <3>2. next' \in 1 .. Len(queue') + 1
      BY <1>1, <1>3, <2>1
    <3> QED
      BY <1>2, <2>1, <2>2, <3>1, <3>2 DEF TypeOK, UvStates
  <2>6. QueueOK'
    BY <1>2, <2>1, <2>3 DEF QueueOK
  <2>7. ASSUME NEW x \in Ops, x # o
        PROVE  Sound(x)'
    <3>1. /\ promise'[x] = promise[x]
          /\ (x \in InFrame)' <=> x \in InFrame
          /\ Single(frames, x) => Single(frames, x)'
          /\ x \in thrown' => x \in thrown
      <4>1. CASE promise' = promise /\ frames' = frames /\ thrown' = thrown
        BY <4>1, FramesKept
      <4>2. CASE Answered(o)
        BY <2>7, <4>2 DEF Answered, Pushed
      <4> QED
        BY <2>2, <4>1, <4>2
    <3>2. Queued(x) => Queued(x)'
      BY <2>1, <2>3, <2>4, <2>7 DEF Queued
    <3>3. uv'[x] = uv[x] /\ ((x \in ToStart)' => x \in ToStart)
      BY <2>2, <2>4, <2>7
    <3>4. Kept(x)
      BY <2>1, <2>3, <3>1, <3>2, <3>3 DEF Kept
    <3> QED
      BY <2>7, <3>4, KeptSound DEF IInv
  <2>8. Sound(o)'
    <3>1. CASE /\ uv'[o] \in {"active", "ignored"} /\ promise' = promise
               /\ frames' = frames /\ thrown' = thrown
      <4>1. InFrame' = InFrame /\ Single(frames, o)' = Single(frames, o)
        BY <3>1, FramesKept
      <4>2. PromiseOK(o)'
        BY <1>4, <1>5, <2>1, <3>1 DEF Sound, PromiseOK
      <4>3. ~ReadsFreed(o) \/ uv[o] = "refused"
        BY DEF ReadsFreed
      <4>4. UsedWell(o) => UsedWell(o)'
        BY <1>4, <2>1, <2>4, <3>1, <4>1, <4>3 DEF UsedWell
      <4> QED
        BY <1>4, <2>1, <4>2, <4>4 DEF Sound
    <3>2. CASE /\ uv'[o] = "refused" /\ Answered(o)
               /\ promise[o] = "pending" => thrown' = thrown
      <4>1. PromiseOK(o)'
        BY <1>5, <2>1, <3>2 DEF PromiseOK, Answered, Settled
      <4>2. ~ReadsFreed(o) \/ uv[o] = "refused"
        BY DEF ReadsFreed
      <4>3. UsedWell(o) => UsedWell(o)'
        BY <1>3, <1>4, <2>1, <2>4, <3>2, <4>2 DEF UsedWell, Answered, Pushed
      <4> QED
        BY <1>4, <2>1, <4>1, <4>3 DEF Sound
    <3> QED
      BY <2>2, <3>1, <3>2
  <2> QED
    BY <2>5, <2>6, <2>7, <2>8 DEF IInv
<1> QED
  BY <1>6, <1>7

\* An operation that was not asked for is nowhere.
LEMMA NotAskedFor ==
    ASSUME IInv, NEW o \in Ops, mem[o] = "none"
    PROVE  /\ promise[o] = "none" /\ uv[o] = "raw" /\ o \notin Waiting
           /\ o \notin ToStart /\ o \notin InFrame
           /\ UsedWell(o) => o \notin faulty
<1>1. promise[o] = "none" /\ uv[o] = "raw" /\ o \notin Waiting
  BY DEF IInv, Sound, PromiseOK
<1>2. o \notin ToStart
  BY <1>1 DEF ToStart, Waiting
<1>3. o \notin InFrame
  BY <1>1 DEF IInv, TypeOK
<1> QED
  BY <1>1, <1>2, <1>3 DEF UsedWell, ReadsFreed

LEMMA CallInvalidStep ==
    ASSUME IInv, NEW o \in Ops, CallInvalid(o)
    PROVE  IInv'
<1>1. /\ QueueKept /\ uv' = uv /\ frames' = frames /\ thrown' = thrown
      /\ touched' = touched /\ misused' = misused /\ faulty' = faulty /\ mem[o] = "none"
  BY DEF CallInvalid, QueueKept
<1>2. TypeOK /\ Sound(o)
  BY DEF IInv
<1>3. /\ InFrame' = InFrame /\ \A x : Single(frames, x)' = Single(frames, x)
      /\ Waiting' = Waiting /\ ToStart' = ToStart /\ QueueOK'
      /\ \A x : Queued(x)' = Queued(x)
  BY <1>1, QueueKeptFacts, FramesKept DEF IInv
<1>4. /\ uv[o] = "raw" /\ o \notin Waiting /\ o \notin ToStart /\ o \notin InFrame
      /\ UsedWell(o) => o \notin faulty
  BY <1>1, NotAskedFor
<1>5. /\ mem' \in [Ops -> {"none", "live", "freed"}] /\ mem'[o] = "freed"
      /\ promise' \in [Ops -> States] /\ promise'[o] = "rejected"
      /\ \A x \in Ops : x # o => mem'[x] = mem[x] /\ promise'[x] = promise[x]
  BY <1>2 DEF CallInvalid, TypeOK, States
<1>6. TypeOK'
  <2>1. \A x \in InFrame' : promise'[x] \in {"fulfilled", "rejected"}
    BY <1>2, <1>3, <1>4 DEF CallInvalid, TypeOK
  <2> QED
    BY <1>1, <1>2, <1>5, <2>1 DEF TypeOK, QueueKept
<1>7. ASSUME NEW x \in Ops, x # o
      PROVE  Sound(x)'
  <2>1. Kept(x)
    BY <1>1, <1>3, <1>5, <1>7 DEF Kept, QueueKept
  <2> QED
    BY <1>7, <2>1, KeptSound DEF IInv
<1>8. Sound(o)'
  <2>1. PromiseOK(o)'
    BY <1>5 DEF PromiseOK
  <2>2. UsedWell(o) => UsedWell(o)'
    BY <1>1, <1>3, <1>4 DEF UsedWell
  <2> QED
    BY <1>1, <1>2, <2>1, <2>2 DEF Sound
<1> QED
  BY <1>3, <1>6, <1>7, <1>8 DEF IInv

LEMMA CallStep ==
    ASSUME IInv, NEW o \in Ops, Call(o)
    PROVE  IInv'
<1>1. PICK p : p = [promise EXCEPT ![o] = "pending"]
  OBVIOUS
<1>2. TypeOK /\ QueueOK /\ Sound(o)
  BY DEF IInv
<1>3. /\ kind' = kind /\ role' = role /\ runs' = runs /\ phase' = phase /\ next' = next
      /\ touched' = touched /\ misused' = misused /\ faulty' = faulty
      /\ mem[o] = "none" /\ AsyncInit(o, p)
  BY <1>1 DEF Call
<1>4. /\ promise[o] = "none" /\ uv[o] = "raw" /\ o \notin Waiting
      /\ o \notin ToStart /\ o \notin InFrame /\ (UsedWell(o) => o \notin faulty)
  BY <1>3, NotAskedFor
<1>5. /\ mem' \in [Ops -> {"none", "live", "freed"}] /\ mem'[o] = "live"
      /\ p \in [Ops -> States] /\ p[o] = "pending"
      /\ \A x \in Ops : x # o => mem'[x] = mem[x] /\ p[x] = promise[x]
  BY <1>1, <1>2 DEF Call, TypeOK, States
<1>6. \A x \in InFrame : p[x] \in Settled
  BY <1>1, <1>2, <1>4 DEF TypeOK, Settled
<1>7. CASE Inited
  <2>1. StartOp(o, p) /\ QueueKept
    BY <1>3, <1>7 DEF AsyncInit, QueueKept
  <2>2. /\ uv' \in [Ops -> UvStates] /\ \A x \in Ops : x # o => uv'[x] = uv[x]
        /\ \/ /\ uv'[o] \in {"active", "ignored"} /\ promise' = p
              /\ frames' = frames /\ thrown' = thrown
           \/ uv'[o] = "refused" /\ Answered(o) /\ thrown' = thrown
    <3>1. p[o] # "none"
      BY <1>5
    <3> QED
      BY <1>2, <1>5, <2>1, <3>1, StartFacts
  <2>3. /\ Waiting' = Waiting /\ ToStart' = ToStart /\ QueueOK'
        /\ \A x : Queued(x)' = Queued(x)
    BY <1>2, <2>1, QueueKeptFacts
  <2>4. TypeOK'
    <3>1. /\ promise' \in [Ops -> States] /\ thrown' \subseteq Ops
          /\ frames' \in Seq(Ops) /\ Len(frames') <= MaxDepth
          /\ \A x \in InFrame' : promise'[x] \in {"fulfilled", "rejected"}
      <4>1. CASE promise' = p /\ frames' = frames /\ thrown' = thrown
        <5>1. InFrame' = InFrame
          BY <4>1, FramesKept
        <5> QED
          BY <1>2, <1>5, <1>6, <4>1, <5>1 DEF TypeOK, Settled
      <4>2. CASE Answered(o)
        BY <1>2, <4>2 DEF Answered, Pushed, TypeOK, Settled
      <4> QED
        BY <2>2, <4>1, <4>2
    <3>2. uv' \in [Ops -> UvStates]
      BY <2>2
    <3> QED
      BY <1>2, <1>3, <1>5, <2>1, <3>1, <3>2 DEF TypeOK, QueueKept, UvStates
  <2>5. ASSUME NEW x \in Ops, x # o
        PROVE  Sound(x)'
    <3>1. /\ promise'[x] = promise[x]
          /\ (x \in InFrame)' <=> x \in InFrame
          /\ Single(frames, x) => Single(frames, x)'
          /\ x \in thrown' => x \in thrown
      <4>1. CASE promise' = p /\ frames' = frames /\ thrown' = thrown
        BY <1>5, <2>5, <4>1, FramesKept
      <4>2. CASE Answered(o)
        BY <2>5, <4>2 DEF Answered, Pushed
      <4> QED
        BY <2>2, <4>1, <4>2
    <3>2. uv'[x] = uv[x] /\ mem'[x] = mem[x]
      BY <1>5, <2>2, <2>5
    <3>3. Kept(x)
      BY <1>3, <2>1, <2>3, <3>1, <3>2 DEF Kept
    <3> QED
      BY <2>5, <3>3, KeptSound DEF IInv
  <2>6. Sound(o)'
    <3>1. CASE /\ uv'[o] \in {"active", "ignored"} /\ promise' = p
               /\ frames' = frames /\ thrown' = thrown
      <4>1. InFrame' = InFrame /\ Single(frames, o)' = Single(frames, o)
        BY <3>1, FramesKept
      <4>2. PromiseOK(o)'
        BY <1>5, <3>1 DEF PromiseOK
      <4>3. UsedWell(o) => UsedWell(o)'
        BY <1>3, <1>4, <1>5, <2>3, <3>1, <4>1 DEF UsedWell
      <4> QED
        BY <1>2, <1>3, <4>2, <4>3 DEF Sound
    <3>2. CASE uv'[o] = "refused" /\ Answered(o) /\ thrown' = thrown
      <4>1. PromiseOK(o)'
        BY <1>5, <3>2 DEF PromiseOK, Answered, Settled
      <4>2. UsedWell(o) => UsedWell(o)'
        BY <1>3, <1>4, <1>5, <2>3, <3>2 DEF UsedWell, Answered, Pushed
      <4> QED
        BY <1>2, <1>3, <4>1, <4>2 DEF Sound
    <3> QED
      BY <2>2, <3>1, <3>2
  <2> QED
    BY <2>3, <2>4, <2>5, <2>6 DEF IInv
<1>8. CASE ~Inited
  <2>1. /\ queue' = Append(queue, o) /\ promise' = p /\ uv' = uv
        /\ frames' = frames /\ thrown' = thrown
    BY <1>3, <1>8 DEF AsyncInit
  <2>2. PICK n \in Nat : n = Len(queue) /\ next \in 1 .. n + 1
    BY <1>2 DEF TypeOK
  <2>3. PICK q : q = queue'
    OBVIOUS
  <2>4. /\ q \in Seq(Ops) /\ Len(q) = n + 1 /\ q[n + 1] = o
        /\ \A i \in 1 .. n : q[i] = queue[i]
    BY <1>2, <2>1, <2>2, <2>3, AppendProperties DEF TypeOK
  <2>5. /\ \A i \in 1 .. n + 1 : i \in 1 .. n \/ i = n + 1
        /\ \A i \in 1 .. n : i \in 1 .. n + 1
        /\ n + 1 \in 1 .. n + 1 /\ next \in 1 .. n + 1 + 1
    BY <2>2
  <2>6. Waiting = {queue[i] : i \in 1 .. n} /\ Waiting' = {q[i] : i \in 1 .. n + 1}
    BY <2>2, <2>3, <2>4 DEF Waiting
  <2>7. Waiting' = Waiting \cup {o}
    BY <2>4, <2>5, <2>6
  <2>8. ToStart = Waiting /\ ToStart' = Waiting' /\ ~Inited'
    BY <1>3, <1>8 DEF ToStart, Inited
  <2>9. InFrame' = InFrame /\ \A x : Single(frames, x)' = Single(frames, x)
    BY <2>1, FramesKept
  <2>10. TypeOK'
    <3>1. next' \in 1 .. Len(queue') + 1 /\ queue' \in Seq(Ops)
      BY <1>3, <2>3, <2>4, <2>5
    <3>2. \A x \in InFrame' : promise'[x] \in {"fulfilled", "rejected"}
      BY <1>6, <2>1, <2>9 DEF Settled
    <3> QED
      BY <1>2, <1>3, <1>5, <2>1, <3>1, <3>2 DEF TypeOK
  <2>11. QueueOK'
    <3>1. \A i \in 1 .. n : queue[i] # o
      BY <1>4, <2>6
    <3>2. \A i, j \in 1 .. n : queue[i] = queue[j] => i = j
      BY <1>2, <2>2 DEF QueueOK
    <3>3. \A i, j \in 1 .. n + 1 : q[i] = q[j] => i = j
      BY <2>4, <2>5, <3>1, <3>2
    <3> QED
      BY <1>2, <1>3, <1>8, <2>3, <2>4, <3>3 DEF QueueOK
  <2>12. ASSUME NEW x \in Ops, x # o
         PROVE  Sound(x)'
    <3>1. mem'[x] = mem[x] /\ promise'[x] = promise[x]
      BY <1>5, <2>1, <2>12
    <3>2. (x \in Waiting' <=> x \in Waiting) /\ (x \in ToStart' <=> x \in ToStart)
      BY <2>7, <2>8, <2>12
    <3>3. Kept(x)
      BY <1>3, <2>1, <2>9, <3>1, <3>2 DEF Kept, Queued
    <3> QED
      BY <2>12, <3>3, KeptSound DEF IInv
  <2>13. Sound(o)'
    <3>1. o \in ToStart' /\ Queued(o)'
      BY <2>7, <2>8 DEF Queued
    <3>2. PromiseOK(o)'
      BY <1>5, <2>1, <3>1 DEF PromiseOK
    <3>3. UsedWell(o) => UsedWell(o)'
      BY <1>3, <1>4, <1>5, <2>1, <2>9 DEF UsedWell
    <3> QED
      BY <1>2, <1>3, <3>2, <3>3 DEF Sound
  <2> QED
    BY <2>10, <2>11, <2>12, <2>13 DEF IInv
<1> QED
  BY <1>7, <1>8

LEMMA StutterStep ==
    ASSUME IInv, UNCHANGED vars
    PROVE  IInv'
<1>1. /\ QueueKept /\ frames' = frames /\ mem' = mem /\ uv' = uv /\ promise' = promise
      /\ thrown' = thrown /\ touched' = touched /\ misused' = misused /\ faulty' = faulty
  BY DEF vars, QueueKept
<1>2. /\ InFrame' = InFrame /\ \A x : Single(frames, x)' = Single(frames, x)
      /\ Waiting' = Waiting /\ ToStart' = ToStart /\ QueueOK'
      /\ \A x : Queued(x)' = Queued(x)
  BY <1>1, QueueKeptFacts, FramesKept DEF IInv
<1>3. TypeOK'
  BY <1>1, <1>2 DEF IInv, TypeOK, QueueKept
<1>4. ASSUME NEW x \in Ops
      PROVE  Sound(x)'
  <2>1. Kept(x)
    BY <1>1, <1>2 DEF Kept, QueueKept
  <2> QED
    BY <2>1, KeptSound DEF IInv
<1> QED
  BY <1>2, <1>3, <1>4 DEF IInv

LEMMA NextIInv == IInv /\ [Next]_vars => IInv'
<1> SUFFICES ASSUME IInv, [Next]_vars
             PROVE  IInv'
  OBVIOUS
<1>1. ASSUME NEW o \in Ops, Call(o) \/ CallInvalid(o) \/ Cancel(o) \/ UserSettles(o)
      PROVE  IInv'
  BY <1>1, CallStep, CallInvalidStep, CancelStep, UserSettlesStep
<1>2. ASSUME NEW o \in Ops, TimerCb(o) \/ Resolved(o) \/ ConnectionCb(o)
      PROVE  IInv'
  <2>1. PICK s \in Settled : Done(o, s)
    BY <1>2 DEF TimerCb, Resolved, ConnectionCb, Settled
  <2> QED
    BY <2>1, DoneStep
<1>3. CASE Run \/ InitExecute \/ InitDone \/ RunReturns
  BY <1>3, RunStep, InitExecuteStep, InitDoneStep, RunReturnsStep
<1>4. CASE Finish
  BY <1>4, FinishStep
<1>5. CASE UNCHANGED vars
  BY <1>5, StutterStep
<1> QED
  BY <1>1, <1>2, <1>3, <1>4, <1>5 DEF Next

\* Everything the model says an operation is holds in every state: whatever
\* the handlers do, an operation that was not misused is to be started, active
\* or in one frame, with its structure there.
THEOREM Invariance == Spec => []IInv
BY InitIInv, NextIInv, PTL DEF Spec

\* rp_free and the callbacks of timer.c, resolver.c and socket_connector.c
\* touch freed or uninitialised memory of an operation only after it was
\* misused, or when libuv refused the lookup; and a promise PHP code left
\* alone is settled once.  For any operations, runs and depth of calls.
THEOREM FaultsAfterMisuse == Spec => []FaultsAreMisuse
<1>1. IInv => FaultsAreMisuse
  <2> SUFFICES ASSUME IInv
               PROVE  FaultsAreMisuse
    OBVIOUS
  <2>1. faulty \subseteq Ops /\ thrown \subseteq Ops
    BY DEF IInv, TypeOK
  <2>2. \A o \in Ops : o \in misused \/ UsedWell(o)
    BY DEF IInv, Sound
  <2> QED
    BY <2>1, <2>2 DEF FaultsAreMisuse, UsedWell
<1> QED
  BY <1>1, Invariance, PTL

\* A pending promise has its structure, and its operation is waiting for
\* rp_reactor_async_init_execute, active in the loop, or lost in one of the
\* three ways the code has of losing one.
THEOREM PendingWhileUnderway == Spec => []PendingIsUnderway
<1>1. IInv => PendingIsUnderway
  <2> SUFFICES ASSUME IInv
               PROVE  PendingIsUnderway
    OBVIOUS
  <2>1. TypeOK /\ QueueOK
    BY DEF IInv
  <2>2. ASSUME NEW o \in Ops, promise[o] = "pending"
        PROVE  /\ mem[o] = "live"
               /\ \/ uv[o] \in {"active", "ignored", "forgotten"}
                  \/ o \in Waiting /\ (~Inited \/ role = "WORKER")
                  \/ phase = "init" /\ \E i \in next .. Len(queue) : queue[i] = o
    <3>1. mem[o] = "live" /\ (uv[o] \in {"active", "ignored", "forgotten"} \/ Queued(o))
      BY <2>2 DEF IInv, Sound, PromiseOK
    <3>2. CASE o \in ToStart /\ ~Inited
      BY <3>1, <3>2 DEF ToStart
    <3>3. CASE o \in ToStart /\ Inited
      <4>1. PICK i \in 1 .. Len(queue) : phase = "init" /\ next <= i /\ queue[i] = o
        BY <3>3 DEF ToStart
      <4>2. i \in next .. Len(queue)
        BY <2>1, <4>1 DEF TypeOK
      <4> QED
        BY <3>1, <4>1, <4>2
    <3>4. CASE role = "WORKER" /\ o \in Waiting
      BY <3>1, <3>4
    <3> QED
      BY <3>1, <3>2, <3>3, <3>4 DEF Queued
  <2> QED
    BY <2>1, <2>2 DEF PendingIsUnderway
<1> QED
  BY <1>1, Invariance, PTL
=============================================================================
