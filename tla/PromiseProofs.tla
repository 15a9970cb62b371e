---------------------------- MODULE PromiseProofs ----------------------------
(***************************************************************************)
(* Proofs about Promise and Combinators, for heaps, call stacks and        *)
(* numbers of calls of any size.                                           *)
(*                                                                         *)
(* Promise: a promise settles once, and when the code comes to rest every  *)
(* settlement has gone down its chain.  Until then a settlement that has   *)
(* not passed step 3 is on the call stack, or a promise holds the function *)
(* it handed over.  An exception cuts off every settlement it abandons,    *)
(* and nothing else takes a frame away before its last step.               *)
(*                                                                         *)
(* Combinators: a generator runs exactly when it has a frame, above the    *)
(* frame of $asyncToGenerator that looks what it yields, and one that      *)
(* waits has one closure that has not run.  Such a closure is in the slot  *)
(* of a promise that is not fulfilled, or of the one whose settlement      *)
(* begins, or was overwritten.                                             *)
(*                                                                         *)
(* all() and race(): only closures and the executor of a call settle its   *)
(* promise.  Each closure is in the slot of its input, or of what then()   *)
(* of the input returned, which is rejected only with the input, and all() *)
(* waits for as many closures as have not told their result.  The executor *)
(* of a pending call ends with two closures for each input.                *)
(*                                                                         *)
(* The parts of the invariant are operators of a heap o and call frames s: *)
(* a step changes the heap first and then goes on with some frames.        *)
(***************************************************************************)
EXTENDS Combinators, FiniteSetTheorems, SequenceTheorems, WellFoundedInduction, TLAPS

CombineFrame == [kind : {"combine"}, c : Nat, i : Nat,
                 at : {"then", "catch", "caught"}, got : Value]
DriveFrame == [kind : {"drive"}, g : Nat, by : Nat, at : {"look", "send", "end"}]
GeneratorFrame == [kind : {"generator"}, g : Nat]

Frame == UserFrame \cup SettleFrame \cup CombineFrame \cup DriveFrame \cup GeneratorFrame

\* The numbers in the heap are those of promises.
HeapOK(o) ==
    /\ o \in Seq(Object) /\ Len(o) <= MaxPromises
    /\ \A p \in DOMAIN o :
          /\ o[p].next <= Len(o) /\ o[p].value <= Len(o)
          /\ o[p].onFullfilled.kind = "resolve" => o[p].onFullfilled.n \in DOMAIN o
          /\ o[p].onFinaled.kind = "resolve" => o[p].onFinaled.n \in DOMAIN o

\* Only settled promises are settled; then() gave p a next promise.
FrameOK(o, f) ==
    /\ f \in Frame
    /\ f.kind = "user" => f.exec <= Len(o)
    /\ f.kind = "settle" => /\ f.p \in DOMAIN o /\ f.value <= Len(o)
                            /\ o[f.p].state # "PENDING"
                            /\ f.gives => o[f.p].next # 0
    /\ f.kind = "combine" => f.got <= Len(o)

\* A settlement that has not called its handler is on top; the bottom is code
\* of the user.
StackOK(o, s) ==
    /\ s \in Seq(Frame) /\ s # <<>>
    /\ s[1].kind = "user"
    /\ \A i \in DOMAIN s :
          /\ FrameOK(o, s[i])
          /\ i < Len(s) /\ s[i].kind = "settle" => s[i].step > 1

\* No settlement is about to call its handler.
Quiet(s) == \A i \in DOMAIN s : s[i].kind = "settle" => s[i].step > 1

\* A settlement of p has still to come to the next promise.
Reaches(s, p) ==
    \E i \in DOMAIN s : s[i].kind = "settle" /\ s[i].p = p /\ s[i].step <= 3

\* resolve() of n is in the slot of a promise that is not fulfilled.
Waits(o, n) ==
    \E q \in DOMAIN o : /\ o[q].onFullfilled.kind = "resolve"
                        /\ o[q].onFullfilled.n = n
                        /\ o[q].state # "FULFILLED"

\* The frame on top is about to call resolve() of this promise.
Hand(o, s) ==
    LET f == s[Len(s)] IN
    {n \in DOMAIN o : /\ f.kind = "settle" /\ f.step = 1
                      /\ o[f.p].onFullfilled.kind = "resolve"
                      /\ o[f.p].onFullfilled.n = n}

\* The chains that go on when s does, but for the promises in out.
RejectsFrom(o, s, out) ==
    \A p \in DOMAIN o :
        o[p].state = "REJECTED" /\ o[p].next \notin out \cup {0} =>
            o[o[p].next].state = "REJECTED" \/ Reaches(s, p)

FulfilsFrom(o, s, out) ==
    \A p \in DOMAIN o :
        /\ o[p].state = "FULFILLED" /\ o[p].next \notin out \cup {0}
        /\ o[o[p].next].state = "PENDING"
        => Reaches(s, p) \/ Waits(o, o[p].next)

HistoryOK == cut \in SUBSET Value /\ lost \in SUBSET Id

IInv ==
    /\ HeapOK(obj) /\ StackOK(obj, stack) /\ HistoryOK
    /\ RejectsFrom(obj, stack, cut)
    /\ FulfilsFrom(obj, stack, cut \cup lost \cup Hand(obj, stack))

-----------------------------------------------------------------------------
(* Frames. *)

\* What is settled stays as it is, and a chain is never taken off.
Keeps(o, o2) ==
    /\ Len(o) \in Nat /\ Len(o2) \in Nat /\ Len(o) <= Len(o2)
    /\ DOMAIN o = 1 .. Len(o) /\ DOMAIN o2 = 1 .. Len(o2)
    /\ \A p \in DOMAIN o : o[p].state # "PENDING" =>
          o2[p].state = o[p].state /\ o2[p].value = o[p].value
    /\ \A p \in DOMAIN o : o[p].next # 0 => o2[p].next # 0

LEMMA FrameFacts ==
    /\ \A f \in Frame : \/ f \in UserFrame /\ f.kind = "user"
                        \/ f \in SettleFrame /\ f.kind = "settle"
                        \/ f \in CombineFrame /\ f.kind = "combine"
                        \/ f \in DriveFrame /\ f.kind = "drive"
                        \/ f \in GeneratorFrame /\ f.kind = "generator"
    /\ \A f \in UserFrame : f.exec \in Value /\ f.void \in BOOLEAN
    /\ \A f \in SettleFrame : /\ f.p \in Id /\ f.step \in 1 .. 4
                              /\ f.value \in Value /\ f.gives \in BOOLEAN
    /\ \A f \in CombineFrame : f.c \in Nat /\ f.i \in Nat /\ f.got \in Value
    /\ Value \subseteq Nat /\ Id \subseteq Nat
  BY BoundsAssumption
  DEF Frame, UserFrame, SettleFrame, CombineFrame, DriveFrame, GeneratorFrame, Value, Id

\* Frames are as good in a heap that keeps what is settled.
LEMMA StackKept ==
    ASSUME NEW o, NEW o2, NEW s, StackOK(o, s), Keeps(o, o2)
    PROVE  StackOK(o2, s)
<1>1. ASSUME NEW f \in Frame, FrameOK(o, f) PROVE FrameOK(o2, f)
  <2>1. CASE f \in UserFrame /\ f.kind = "user"
    <3>1. f.exec \in Nat
      BY <2>1, FrameFacts
    <3> QED
      BY <1>1, <2>1, <3>1 DEF FrameOK, Keeps
  <2>2. CASE f \in SettleFrame /\ f.kind = "settle"
    <3>1. f.value \in Nat
      BY <2>2, FrameFacts
    <3> QED
      BY <1>1, <2>2, <3>1 DEF FrameOK, Keeps
  <2>3. CASE f \in CombineFrame /\ f.kind = "combine"
    <3>1. f.got \in Nat
      BY <2>3, FrameFacts
    <3> QED
      BY <1>1, <2>3, <3>1 DEF FrameOK, Keeps
  <2>4. CASE f.kind \notin {"user", "settle", "combine"}
    BY <1>1, <2>4 DEF FrameOK
  <2> QED
    BY <2>1, <2>2, <2>3, <2>4, FrameFacts
<1>2. \A i \in DOMAIN s : s[i] \in Frame
  BY DEF StackOK
<1> QED
  BY <1>1, <1>2 DEF StackOK

\* A call pushes a frame.
LEMMA Pushed ==
    ASSUME NEW o, NEW s, StackOK(o, s), Quiet(s), NEW f, FrameOK(o, f)
    PROVE  /\ StackOK(o, Append(s, f))
           /\ Append(s, f)[Len(Append(s, f))] = f
           /\ \A p : Reaches(s, p) => Reaches(Append(s, f), p)
           /\ f.kind = "settle" /\ f.step <= 3 => Reaches(Append(s, f), f.p)
<1> DEFINE t == Append(s, f)
<1>1. /\ s \in Seq(Frame) /\ f \in Frame
      /\ Len(s) \in Nat /\ Len(s) > 0 /\ DOMAIN s = 1 .. Len(s)
  BY DEF StackOK, FrameOK
<1>2. /\ t \in Seq(Frame) /\ Len(t) = Len(s) + 1 /\ DOMAIN t = 1 .. Len(t)
      /\ \A i \in DOMAIN s : t[i] = s[i]
      /\ t[Len(t)] = f
  BY <1>1
<1> HIDE DEF t
<1>3. \A i \in DOMAIN t : i \in DOMAIN s \/ (i = Len(t) /\ i \in DOMAIN t)
  BY <1>1, <1>2
<1>4. StackOK(o, t)
  <2>1. t # <<>> /\ t[1].kind = "user"
    BY <1>1, <1>2 DEF StackOK
  <2>2. ASSUME NEW i \in DOMAIN t
        PROVE  /\ FrameOK(o, t[i])
               /\ i < Len(t) /\ t[i].kind = "settle" => t[i].step > 1
    BY <1>1, <1>2, <1>3 DEF StackOK, Quiet
  <2> QED
    BY <1>2, <2>1, <2>2 DEF StackOK
<1>5. \A p : Reaches(s, p) => Reaches(t, p)
  BY <1>1, <1>2 DEF Reaches
<1>6. f.kind = "settle" /\ f.step <= 3 => Reaches(t, f.p)
  BY <1>1, <1>2 DEF Reaches
<1> QED
  BY <1>2, <1>4, <1>5, <1>6 DEF t

\* The frame f of p goes on as g, which is past step 3 or of another promise.
Passes(f, g, p) ==
    f.kind = "settle" /\ f.p = p /\ f.step <= 3 /\ (g.p # p \/ g.step > 3)

\* A frame changes and keeps what it is; what it was to do is still to do.
LEMMA TopChanged ==
    ASSUME NEW o, NEW s, StackOK(o, s), NEW t,
           NEW f, FrameOK(o, f), f.kind = s[Len(s)].kind,
           t = [s EXCEPT ![Len(s)] = f]
    PROVE  /\ StackOK(o, t) /\ Len(t) = Len(s) /\ t[Len(t)] = f
           /\ f.kind = "settle" /\ f.step > 1 => Quiet(t)
           /\ f.kind # "settle" => Quiet(t)
           /\ \A p : Reaches(s, p) => Reaches(t, p) \/ Passes(s[Len(s)], f, p)
<1>1. /\ s \in Seq(Frame) /\ f \in Frame
      /\ Len(s) \in Nat /\ Len(s) > 0 /\ DOMAIN s = 1 .. Len(s)
  BY DEF StackOK, FrameOK
<1>2. /\ t \in Seq(Frame) /\ Len(t) = Len(s) /\ DOMAIN t = DOMAIN s
      /\ \A i \in DOMAIN s : i # Len(s) => t[i] = s[i]
      /\ t[Len(s)] = f
  BY <1>1
<1>3. StackOK(o, t)
  <2>1. t # <<>> /\ t[1].kind = "user"
    BY <1>1, <1>2 DEF StackOK
  <2>2. ASSUME NEW i \in DOMAIN t
        PROVE  /\ FrameOK(o, t[i])
               /\ i < Len(t) /\ t[i].kind = "settle" => t[i].step > 1
    BY <1>1, <1>2 DEF StackOK
  <2> QED
    BY <1>2, <2>1, <2>2 DEF StackOK
<1>4. /\ f.kind = "settle" /\ f.step > 1 => Quiet(t)
      /\ f.kind # "settle" => Quiet(t)
  BY <1>1, <1>2 DEF StackOK, Quiet
<1>5. ASSUME NEW p, Reaches(s, p)
      PROVE  Reaches(t, p) \/ Passes(s[Len(s)], f, p)
  <2>1. PICK i \in DOMAIN s : s[i].kind = "settle" /\ s[i].p = p /\ s[i].step <= 3
    BY <1>5 DEF Reaches
  <2>2. CASE i # Len(s)
    BY <1>2, <2>1, <2>2 DEF Reaches
  <2>3. CASE i = Len(s)
    <3>1. f.kind = "settle" /\ f.step \in 1 .. 4
      BY <1>1, <2>1, <2>3, FrameFacts
    <3> QED
      BY <1>1, <1>2, <2>1, <2>3, <3>1 DEF Reaches, Passes
  <2> QED
    BY <2>2, <2>3
<1> QED
  BY <1>2, <1>3, <1>4, <1>5

\* The frames from the bottom to frame n.
LEMMA Popped ==
    ASSUME NEW o, NEW s, StackOK(o, s), NEW n \in 1 .. Len(s)
    PROVE  /\ StackOK(o, SubSeq(s, 1, n)) /\ Len(SubSeq(s, 1, n)) = n
           /\ \A i \in 1 .. n : SubSeq(s, 1, n)[i] = s[i]
           /\ n < Len(s) \/ s[n].kind # "settle" => Quiet(SubSeq(s, 1, n))
           /\ \A p : Reaches(s, p) =>
                 \/ Reaches(SubSeq(s, 1, n), p)
                 \/ \E i \in n + 1 .. Len(s) :
                       s[i].kind = "settle" /\ s[i].p = p /\ s[i].step <= 3
<1> DEFINE t == SubSeq(s, 1, n)
<1>1. s \in Seq(Frame) /\ Len(s) \in Nat /\ Len(s) > 0 /\ DOMAIN s = 1 .. Len(s)
  BY DEF StackOK
<1>2. /\ t \in Seq(Frame) /\ Len(t) = n /\ DOMAIN t = 1 .. n
      /\ \A i \in 1 .. n : t[i] = s[i]
  BY <1>1
<1> HIDE DEF t
<1>3. StackOK(o, t)
  BY <1>1, <1>2 DEF StackOK
<1>4. n < Len(s) \/ s[n].kind # "settle" => Quiet(t)
  BY <1>1, <1>2 DEF StackOK, Quiet
<1>5. \A p : Reaches(s, p) =>
        \/ Reaches(t, p)
        \/ \E i \in n + 1 .. Len(s) :
              s[i].kind = "settle" /\ s[i].p = p /\ s[i].step <= 3
  BY <1>1, <1>2 DEF Reaches
<1> QED
  BY <1>2, <1>3, <1>4, <1>5 DEF t

\* A call returned into the frames s.
LEMMA ReturnedInto ==
    ASSUME NEW o, Len(o) \in Nat, Len(o) <= MaxPromises,
           NEW s, StackOK(o, s), NEW v \in 0 .. Len(o)
    PROVE  /\ StackOK(o, Returned(s, v)) /\ Len(Returned(s, v)) = Len(s)
           /\ Quiet(s) => Quiet(Returned(s, v))
           /\ \A p : Reaches(s, p) => Reaches(Returned(s, v), p)
<1> DEFINE f == s[Len(s)]
           g == [f EXCEPT !.value = v]
<1>1. /\ s \in Seq(Frame) /\ Len(s) \in 1 .. Len(s) /\ DOMAIN s = 1 .. Len(s)
      /\ f \in Frame /\ FrameOK(o, f)
  BY DEF StackOK
<1>2. CASE Returned(s, v) = s
  BY <1>2
<1>3. CASE f.kind = "settle" /\ Returned(s, v) = [s EXCEPT ![Len(s)] = g]
  <2>1. f \in SettleFrame /\ v \in Value
    BY <1>1, <1>3, FrameFacts, BoundsAssumption DEF Value
  <2>2. /\ g \in SettleFrame /\ g.kind = "settle" /\ g.p = f.p /\ g.step = f.step
        /\ g.value = v /\ f.step \in 1 .. 4 /\ g.gives = f.gives
    BY <2>1 DEF SettleFrame
  <2>3. FrameOK(o, g)
    BY <1>1, <2>1, <2>2 DEF FrameOK, Frame
  <2> HIDE DEF g
  <2>4. /\ StackOK(o, Returned(s, v)) /\ Len(Returned(s, v)) = Len(s)
        /\ g.step > 1 => Quiet(Returned(s, v))
        /\ \A p : Reaches(s, p) => Reaches(Returned(s, v), p)
    <3> DEFINE t == Returned(s, v)
    <3>1. /\ StackOK(o, t) /\ Len(t) = Len(s)
          /\ g.kind = "settle" /\ g.step > 1 => Quiet(t)
          /\ \A p : Reaches(s, p) => Reaches(t, p) \/ Passes(s[Len(s)], g, p)
      <4>1. g.kind = s[Len(s)].kind
        BY <1>3, <2>2
      <4>2. t = [s EXCEPT ![Len(s)] = g]
        BY <1>3
      <4> HIDE DEF t
      <4> QED
        BY <2>3, <4>1, <4>2, TopChanged
    <3> HIDE DEF t
    <3>2. \A p : ~Passes(f, g, p)
      BY <2>2 DEF Passes
    <3>3. \A p : Reaches(s, p) => Reaches(t, p)
      BY <3>1, <3>2
    <3> QED
      BY <2>2, <3>1, <3>3 DEF t
  <2>5. Quiet(s) => g.step > 1
    BY <1>1, <1>3, <2>2 DEF Quiet
  <2> QED
    BY <2>4, <2>5
<1>4. CASE f.kind = "combine" /\ Returned(s, v) = [s EXCEPT ![Len(s)].got = v]
  <2> DEFINE h == [f EXCEPT !.got = v]
             t == Returned(s, v)
  <2>1. f \in CombineFrame /\ v \in Value
    BY <1>1, <1>4, FrameFacts, BoundsAssumption DEF Value
  <2>2. h \in CombineFrame /\ h.kind = "combine" /\ h.got = v
    BY <2>1 DEF CombineFrame
  <2>3. FrameOK(o, h)
    BY <2>2 DEF FrameOK, Frame
  <2>4. h.kind = s[Len(s)].kind /\ t = [s EXCEPT ![Len(s)] = h]
    BY <1>4, <2>2
  <2>5. \A p : ~Passes(f, h, p)
    BY <1>4 DEF Passes
  <2> HIDE DEF h, t
  <2>6. /\ StackOK(o, t) /\ Len(t) = Len(s)
        /\ h.kind # "settle" => Quiet(t)
        /\ \A p : Reaches(s, p) => Reaches(t, p) \/ Passes(s[Len(s)], h, p)
    BY <2>3, <2>4, TopChanged
  <2> QED
    BY <2>2, <2>5, <2>6 DEF t
<1>5. \/ Returned(s, v) = s
      \/ f.kind = "settle" /\ Returned(s, v) = [s EXCEPT ![Len(s)] = g]
      \/ f.kind = "combine" /\ Returned(s, v) = [s EXCEPT ![Len(s)].got = v]
  BY DEF Returned
<1> QED
  BY <1>2, <1>3, <1>4, <1>5

\* The innermost code of the user: a set of indices has a last one.
LEMMA LastOf ==
    ASSUME NEW n \in Nat, NEW T, T \subseteq 1 .. n, T # {}
    PROVE  \E x \in T : \A y \in T : y <= x
<1> DEFINE S == {n - y : y \in T}
<1>1. /\ S \subseteq Nat /\ S # {}
      /\ \A x \in S : \E z \in T : x = n - z
      /\ \A y \in T : n - y \in S
  <2>1. \A y \in T : n - y \in Nat
    OBVIOUS
  <2>2. PICK y \in T : TRUE
    OBVIOUS
  <2>3. n - y \in S
    OBVIOUS
  <2> QED
    BY <2>1, <2>3
<1> HIDE DEF S
<1>2. PICK x \in S : \A y \in S : ~(<<y, x>> \in OpToRel(<, Nat))
  BY <1>1, WFMin, NatLessThanWellFounded, Zenon
<1>3. \A y \in S : ~(y < x)
  BY <1>1, <1>2 DEF OpToRel
<1>4. PICK z \in T : x = n - z
  BY <1>1, <1>2
<1>5. \A y \in T : ~(n - y < n - z)
  BY <1>1, <1>3, <1>4
<1> QED
  BY <1>5

\* An exception that leaves the frames s surfaces in frame n.
RaisedTo(s, n) ==
    /\ n \in 1 .. Len(s) /\ s[n].kind \in {"user", "generator", "combine"}
    /\ \A i \in n + 1 .. Len(s) : s[i].kind \in {"settle", "drive"}
    /\ stack' = IF s[n].kind = "combine"
                THEN [SubSeq(s, 1, n) EXCEPT ![n].at = "caught"]
                ELSE SubSeq(s, 1, n)
    /\ cut' = cut \cup {obj[s[i].p].next :
                         i \in {j \in n + 1 .. Len(s) : s[j].kind = "settle"}}
    /\ UNCHANGED <<obj, lost>>

\* It takes away the settlements above the innermost code that can catch it,
\* and cuts them off.
LEMMA Raised ==
    ASSUME NEW s, StackOK(obj, s), Raise(s)
    PROVE  \E n : RaisedTo(s, n)
<1> DEFINE code == {i \in DOMAIN s : s[i].kind \in {"user", "generator", "combine"}}
           n == CHOOSE i \in code : \A j \in code : j <= i
<1>1. /\ s \in Seq(Frame) /\ Len(s) \in Nat /\ Len(s) > 0 /\ DOMAIN s = 1 .. Len(s)
      /\ \A i \in DOMAIN s :
            s[i].kind \in {"user", "settle", "combine", "drive", "generator"}
  BY FrameFacts DEF StackOK
<1>2. 1 \in code /\ code \subseteq 1 .. Len(s)
  BY <1>1 DEF StackOK
<1>3. n \in code /\ \A j \in code : j <= n
  <2>1. \E x \in code : \A y \in code : y <= x
    BY <1>1, <1>2, LastOf
  <2> QED
    BY <2>1
<1>4. n \in 1 .. Len(s) /\ s[n].kind \in {"user", "generator", "combine"}
  BY <1>1, <1>3
<1>5. \A i \in n + 1 .. Len(s) : s[i].kind \in {"settle", "drive"}
  <2> SUFFICES ASSUME NEW i \in n + 1 .. Len(s) PROVE s[i].kind \in {"settle", "drive"}
    OBVIOUS
  <2>1. i \in DOMAIN s /\ ~(i <= n)
    BY <1>1, <1>4
  <2>2. i \notin code
    BY <1>3, <2>1
  <2> QED
    BY <1>1, <2>1, <2>2
<1>6. /\ stack' = IF s[n].kind = "combine"
                  THEN [SubSeq(s, 1, n) EXCEPT ![n].at = "caught"]
                  ELSE SubSeq(s, 1, n)
      /\ cut' = cut \cup {obj[s[i].p].next :
                           i \in {j \in n + 1 .. Len(s) : s[j].kind = "settle"}}
      /\ UNCHANGED <<obj, lost>>
  BY Zenon DEF Raise
<1>7. RaisedTo(s, n)
  BY <1>4, <1>5, <1>6, Zenon DEF RaisedTo
<1> QED
  BY <1>7

-----------------------------------------------------------------------------
(* Heaps, and how the chains go on. *)

LEMMA HeapFacts ==
    ASSUME NEW o, HeapOK(o)
    PROVE  /\ Len(o) \in Nat /\ DOMAIN o = 1 .. Len(o) /\ DOMAIN o \subseteq Id
           /\ \A p \in DOMAIN o :
                 /\ o[p] \in Object
                 /\ o[p].state \in {"PENDING", "FULFILLED", "REJECTED"}
                 /\ o[p].next \in 0 .. Len(o) /\ o[p].value \in 0 .. Len(o)
                 /\ o[p].next # 0 => o[p].next \in DOMAIN o
                 /\ o[p].onFullfilled \in Fn /\ o[p].onRejected \in Fn
                 /\ o[p].onFinaled \in Fn
<1>1. /\ Len(o) \in Nat /\ DOMAIN o = 1 .. Len(o)
      /\ \A p \in DOMAIN o : o[p] \in Object
  BY DEF HeapOK
<1>2. DOMAIN o \subseteq Id
  BY <1>1, BoundsAssumption DEF HeapOK, Id
<1>3. ASSUME NEW p \in DOMAIN o
      PROVE  /\ o[p].state \in {"PENDING", "FULFILLED", "REJECTED"}
             /\ o[p].next \in 0 .. Len(o) /\ o[p].value \in 0 .. Len(o)
             /\ o[p].onFullfilled \in Fn /\ o[p].onRejected \in Fn
             /\ o[p].onFinaled \in Fn
  <2>1. /\ o[p].state \in {"PENDING", "FULFILLED", "REJECTED"}
        /\ o[p].next \in Value /\ o[p].value \in Value
        /\ o[p].onFullfilled \in Fn /\ o[p].onRejected \in Fn
        /\ o[p].onFinaled \in Fn
    BY <1>1 DEF Object
  <2>2. o[p].next <= Len(o) /\ o[p].value <= Len(o)
    BY DEF HeapOK
  <2>3. o[p].next \in 0 .. Len(o) /\ o[p].value \in 0 .. Len(o)
    BY <1>1, <2>1, <2>2, BoundsAssumption DEF Value
  <2> QED
    BY <2>1, <2>3
<1> QED
  BY <1>1, <1>2, <1>3

\* Object n of the heap o becomes r.
ObjectChanged(o, o2, n, r) ==
    /\ o2 \in Seq(Object) /\ Len(o2) = Len(o) /\ DOMAIN o2 = DOMAIN o
    /\ \A q \in DOMAIN o : o2[q] = IF q = n THEN r ELSE o[q]

\* A pending promise is settled, which its slots and its next promise survive.
SettledAs(o, n, r, st) ==
    /\ r \in Object /\ r.value <= Len(o) /\ r.state = st
    /\ r.next = o[n].next /\ r.onFullfilled = o[n].onFullfilled
    /\ r.onRejected = o[n].onRejected /\ r.onFinaled = o[n].onFinaled

LEMMA HeapSettled ==
    ASSUME NEW o, HeapOK(o), NEW o2, NEW n \in DOMAIN o, NEW r, NEW st,
           o[n].state = "PENDING", SettledAs(o, n, r, st), ObjectChanged(o, o2, n, r)
    PROVE  HeapOK(o2) /\ Keeps(o, o2)
<1>1. HeapOK(o2)
  <2>1. \A q \in DOMAIN o2 :
          /\ o2[q].next <= Len(o2) /\ o2[q].value <= Len(o2)
          /\ o2[q].onFullfilled.kind = "resolve" => o2[q].onFullfilled.n \in DOMAIN o2
          /\ o2[q].onFinaled.kind = "resolve" => o2[q].onFinaled.n \in DOMAIN o2
    BY DEF ObjectChanged, SettledAs, HeapOK
  <2> QED
    BY <2>1 DEF ObjectChanged, HeapOK
<1>2. Keeps(o, o2)
  <2>1. /\ Len(o) \in Nat /\ DOMAIN o = 1 .. Len(o)
        /\ Len(o2) = Len(o) /\ DOMAIN o2 = DOMAIN o
    BY HeapFacts DEF ObjectChanged
  <2>2. \A p \in DOMAIN o : o2[p].next = o[p].next /\ (p # n => o2[p] = o[p])
    BY DEF ObjectChanged, SettledAs
  <2>3. \A p \in DOMAIN o : o[p].state # "PENDING" =>
           o2[p].state = o[p].state /\ o2[p].value = o[p].value
    BY <2>2
  <2> QED
    BY <2>1, <2>2, <2>3 DEF Keeps
<1> QED
  BY <1>1, <1>2

\* n is settled and its settlement begins: the frames s go on as t.
Begun(o, o2, n, r, st, s, t) ==
    /\ HeapOK(o) /\ HeapOK(o2)
    /\ n \in DOMAIN o /\ o[n].state = "PENDING" /\ st \in {"FULFILLED", "REJECTED"}
    /\ SettledAs(o, n, r, st) /\ ObjectChanged(o, o2, n, r)
    /\ \A p : Reaches(s, p) => Reaches(t, p)
    /\ Reaches(t, n)
    /\ t[Len(t)].kind = "settle" /\ t[Len(t)].p = n /\ t[Len(t)].step = 1

LEMMA BegunFacts ==
    ASSUME NEW o, NEW o2, NEW n, NEW r, NEW st, NEW s, NEW t, Begun(o, o2, n, r, st, s, t)
    PROVE  /\ DOMAIN o2 = DOMAIN o /\ o2[n] = r /\ n \in DOMAIN o
           /\ \A q \in DOMAIN o : q # n => o2[q] = o[q]
           /\ r.state = st /\ r.next = o[n].next /\ r.onFullfilled = o[n].onFullfilled
           /\ st \in {"FULFILLED", "REJECTED"} /\ o[n].state = "PENDING"
           /\ \A p : Reaches(s, p) => Reaches(t, p)
           /\ Reaches(t, n)
           /\ t[Len(t)].kind = "settle" /\ t[Len(t)].p = n /\ t[Len(t)].step = 1
           /\ \A p \in DOMAIN o : o[p].next # 0 => o[p].next \in DOMAIN o
<1>1. HeapOK(o)
  BY DEF Begun
<1>2. \A p \in DOMAIN o : o[p].next # 0 => o[p].next \in DOMAIN o
  BY <1>1, HeapFacts
<1> QED
  BY <1>2 DEF Begun, ObjectChanged, SettledAs

\* The chain to n may end with s, when n is rejected.
RejectsBut(o, s, c, n, st) ==
    RejectsFrom(o, s, c) \/ (st = "REJECTED" /\ RejectsFrom(o, s, c \cup {n}))

\* All chains go on, also the one that a rejected n was to take on.
LEMMA BegunRejects ==
    ASSUME NEW o, NEW o2, NEW n, NEW r, NEW st, NEW s, NEW t, Begun(o, o2, n, r, st, s, t),
           NEW c, RejectsBut(o, s, c, n, st)
    PROVE  RejectsFrom(o2, t, c)
<1>1. ASSUME NEW p \in DOMAIN o, o2[p].state = "REJECTED", o2[p].next \notin c \cup {0}
      PROVE  o2[o2[p].next].state = "REJECTED" \/ Reaches(t, p)
  <2>1. CASE p = n
    BY <2>1, BegunFacts
  <2>2. CASE p # n
    <3>1. /\ o2[p] = o[p] /\ o[p].next \in DOMAIN o
          /\ o2[n].state = st
          /\ o[p].next # n => o2[o[p].next] = o[o[p].next]
      BY <1>1, <2>2, BegunFacts
    <3>2. CASE o[p].next = n /\ st = "REJECTED"
      BY <1>1, <3>1, <3>2
    <3>3. CASE ~(o[p].next = n /\ st = "REJECTED")
      <4>1. o[o[p].next].state = "REJECTED" \/ Reaches(s, p)
        BY <1>1, <3>1, <3>3 DEF RejectsBut, RejectsFrom
      <4>2. o[n].state = "PENDING"
        BY BegunFacts
      <4>3. Reaches(s, p) => Reaches(t, p)
        BY BegunFacts
      <4> QED
        BY <3>1, <4>1, <4>2, <4>3
    <3> QED
      BY <3>2, <3>3
  <2> QED
    BY <2>1, <2>2
<1>2. DOMAIN o2 = DOMAIN o
  BY BegunFacts
<1> QED
  BY <1>1, <1>2 DEF RejectsFrom

\* The function in the slot of a fulfilled n is about to be called.
LEMMA BegunFulfils ==
    ASSUME NEW o, NEW o2, NEW n, NEW r, NEW st, NEW s, NEW t, Begun(o, o2, n, r, st, s, t),
           NEW ful, FulfilsFrom(o, s, ful),
           NEW d, \A m \in ful : m \in d \/ m = n
    PROVE  FulfilsFrom(o2, t, d \cup Hand(o2, t))
<1>1. /\ DOMAIN o2 = DOMAIN o /\ o2[n] = r
      /\ \A q \in DOMAIN o : q # n => o2[q] = o[q]
      /\ r.state = st /\ r.onFullfilled = o[n].onFullfilled
      /\ st \in {"FULFILLED", "REJECTED"}
      /\ t[Len(t)].kind = "settle" /\ t[Len(t)].p = n /\ t[Len(t)].step = 1
  BY BegunFacts
<1>2. /\ \A p \in DOMAIN o : o[p].next # 0 => o[p].next \in DOMAIN o
      /\ \A p : Reaches(s, p) => Reaches(t, p)
      /\ Reaches(t, n)
  BY BegunFacts
<1>3. ASSUME NEW p \in DOMAIN o, o2[p].state = "FULFILLED",
             o2[p].next \notin d \cup Hand(o2, t) \cup {0},
             o2[o2[p].next].state = "PENDING", p # n
      PROVE  Reaches(t, p) \/ Waits(o2, o2[p].next)
  <2> DEFINE m == o[p].next
  <2>1. /\ o2[p] = o[p] /\ m \in DOMAIN o /\ m # n /\ o[m].state = "PENDING"
        /\ o[p].state = "FULFILLED" /\ m \notin ful \cup {0} /\ m \notin Hand(o2, t)
    BY <1>1, <1>2, <1>3
  <2>2. Reaches(s, p) \/ Waits(o, m)
    BY <2>1 DEF FulfilsFrom
  <2>3. ASSUME Waits(o, m) PROVE Waits(o2, m)
    <3>1. PICK q \in DOMAIN o : /\ o[q].onFullfilled.kind = "resolve"
                                /\ o[q].onFullfilled.n = m
                                /\ o[q].state # "FULFILLED"
      BY <2>3 DEF Waits
    <3>2. CASE q # n
      BY <1>1, <3>1, <3>2 DEF Waits
    <3>3. CASE q = n /\ st = "REJECTED"
      BY <1>1, <3>1, <3>3 DEF Waits
    <3>4. CASE q = n /\ st = "FULFILLED"
      <4>1. m \in Hand(o2, t)
        BY <1>1, <2>1, <3>1, <3>4 DEF Hand
      <4> QED
        BY <2>1, <4>1
    <3> QED
      BY <1>1, <3>2, <3>3, <3>4
  <2> QED
    BY <1>2, <2>1, <2>2, <2>3
<1> QED
  BY <1>1, <1>2, <1>3 DEF FulfilsFrom

\* then() of p makes it r and adds a promise.
ThenCalled(o, o2, p, r) ==
    /\ o2 \in Seq(Object) /\ Len(o2) = Len(o) + 1 /\ DOMAIN o2 = 1 .. Len(o) + 1
    /\ \A q \in DOMAIN o : o2[q] = IF q = p THEN r ELSE o[q]
    /\ o2[Len(o) + 1] = Fresh
    /\ r.state = o[p].state /\ r.value = o[p].value /\ r.next = Len(o) + 1

LEMMA HeapThen ==
    ASSUME NEW o, HeapOK(o), Len(o) < MaxPromises, NEW o2, NEW p \in DOMAIN o, NEW r,
           ThenCalled(o, o2, p, r),
           r.onFullfilled.kind = "resolve" => r.onFullfilled.n \in DOMAIN o,
           r.onFinaled.kind = "resolve" => r.onFinaled.n \in DOMAIN o
    PROVE  HeapOK(o2) /\ Keeps(o, o2)
<1>1. /\ Len(o) \in Nat /\ DOMAIN o = 1 .. Len(o)
      /\ \A q \in DOMAIN o : o[q].next \in 0 .. Len(o) /\ o[q].value \in 0 .. Len(o)
  BY HeapFacts
<1>2. \A q \in DOMAIN o2 :
          /\ o2[q].next <= Len(o2) /\ o2[q].value <= Len(o2)
          /\ o2[q].onFullfilled.kind = "resolve" => o2[q].onFullfilled.n \in DOMAIN o2
          /\ o2[q].onFinaled.kind = "resolve" => o2[q].onFinaled.n \in DOMAIN o2
  <2>1. ASSUME NEW q \in DOMAIN o2, q = Len(o) + 1
        PROVE  /\ o2[q].next <= Len(o2) /\ o2[q].value <= Len(o2)
               /\ o2[q].onFullfilled.kind # "resolve" /\ o2[q].onFinaled.kind # "resolve"
    BY <1>1, <2>1 DEF ThenCalled, Fresh, NoFn
  <2>2. ASSUME NEW q \in DOMAIN o, q # p
        PROVE  /\ o2[q].next <= Len(o2) /\ o2[q].value <= Len(o2)
               /\ o2[q].onFullfilled.kind = "resolve" => o2[q].onFullfilled.n \in DOMAIN o2
               /\ o2[q].onFinaled.kind = "resolve" => o2[q].onFinaled.n \in DOMAIN o2
    BY <1>1, <2>2 DEF ThenCalled, HeapOK
  <2>3. /\ o2[p].next <= Len(o2) /\ o2[p].value <= Len(o2)
        /\ o2[p].onFullfilled.kind = "resolve" => o2[p].onFullfilled.n \in DOMAIN o2
        /\ o2[p].onFinaled.kind = "resolve" => o2[p].onFinaled.n \in DOMAIN o2
    BY <1>1 DEF ThenCalled
  <2>4. \A q \in DOMAIN o2 : q \in DOMAIN o \/ q = Len(o) + 1
    BY <1>1 DEF ThenCalled
  <2> QED
    BY <2>1, <2>2, <2>3, <2>4
<1>3. HeapOK(o2)
  BY <1>1, <1>2, BoundsAssumption DEF ThenCalled, HeapOK
<1>4. Keeps(o, o2)
  BY <1>1 DEF ThenCalled, Keeps
<1> QED
  BY <1>3, <1>4

\* then() of p was called, and the frames s go on as t.
WentOn(o, o2, p, r, s, t) ==
    /\ HeapOK(o) /\ p \in DOMAIN o /\ ThenCalled(o, o2, p, r)
    /\ \A q : Reaches(s, q) => Reaches(t, q)
    /\ o[p].state = "PENDING" \/ /\ Reaches(t, p)
                                 /\ t[Len(t)].kind = "settle"
                                 /\ t[Len(t)].p = p /\ t[Len(t)].step = 1

LEMMA WentOnFacts ==
    ASSUME NEW o, NEW o2, NEW p, NEW r, NEW s, NEW t, WentOn(o, o2, p, r, s, t)
    PROVE  /\ p \in DOMAIN o /\ o2[p] = r /\ r.state = o[p].state
           /\ \A q \in DOMAIN o : q # p => o2[q] = o[q]
           /\ \A q \in DOMAIN o : q \in DOMAIN o2 /\ o2[q].state = o[q].state
           /\ \A q \in DOMAIN o2 : q \in DOMAIN o \/ o2[q].state = "PENDING"
           /\ \A q \in DOMAIN o : o[q].next # 0 => o[q].next \in DOMAIN o
           /\ \A q : Reaches(s, q) => Reaches(t, q)
           /\ o[p].state = "PENDING" \/ /\ Reaches(t, p)
                                        /\ t[Len(t)].kind = "settle"
                                        /\ t[Len(t)].p = p /\ t[Len(t)].step = 1
<1>1. HeapOK(o) /\ p \in DOMAIN o /\ ThenCalled(o, o2, p, r)
  BY DEF WentOn
<1>2. /\ Len(o) \in Nat /\ DOMAIN o = 1 .. Len(o) /\ DOMAIN o2 = 1 .. Len(o) + 1
      /\ o2[p] = r /\ o2[Len(o) + 1].state = "PENDING"
      /\ \A q \in DOMAIN o : q # p => o2[q] = o[q]
      /\ r.state = o[p].state
  BY <1>1, HeapFacts DEF ThenCalled, Fresh
<1>3. \A q \in DOMAIN o : o[q].next # 0 => o[q].next \in DOMAIN o
  BY <1>1, HeapFacts
<1>4. \A q \in DOMAIN o : q \in DOMAIN o2 /\ o2[q].state = o[q].state
  BY <1>2
<1>5. \A q \in DOMAIN o2 : q \in DOMAIN o \/ o2[q].state = "PENDING"
  BY <1>2
<1> QED
  BY <1>1, <1>2, <1>3, <1>4, <1>5 DEF WentOn

\* All chains go on; the settlement of p comes to the new promise.
LEMMA ThenRejects ==
    ASSUME NEW o, NEW o2, NEW p, NEW r, NEW s, NEW t, WentOn(o, o2, p, r, s, t),
           NEW c, RejectsFrom(o, s, c)
    PROVE  RejectsFrom(o2, t, c)
<1>1. ASSUME NEW q \in DOMAIN o, o2[q].state = "REJECTED", o2[q].next \notin c \cup {0}
      PROVE  o2[o2[q].next].state = "REJECTED" \/ Reaches(t, q)
  <2>1. CASE q = p
    BY <1>1, <2>1, WentOnFacts
  <2>2. CASE q # p
    <3>1. o2[q] = o[q] /\ o[q].next \in DOMAIN o
      BY <1>1, <2>2, WentOnFacts
    <3>2. o[o[q].next].state = "REJECTED" \/ Reaches(s, q)
      BY <1>1, <3>1 DEF RejectsFrom
    <3> QED
      BY <3>1, <3>2, WentOnFacts
  <2> QED
    BY <2>1, <2>2
<1>2. \A q \in DOMAIN o2 : q \in DOMAIN o \/ o2[q].state = "PENDING"
  BY WentOnFacts
<1> QED
  BY <1>1, <1>2 DEF RejectsFrom

\* The promise that the function f of a slot resolves.
Resolves(f) == IF f.kind = "resolve" THEN {f.n} ELSE {}

\* The promises in ful are among d or f is their resolve().
HandsOver(ful, d, f) == \A m \in ful : m \in d \/ (f.kind = "resolve" /\ f.n = m)

\* The promise that a lost or replaced slot would have resolved is in d.
LEMMA ThenFulfils ==
    ASSUME NEW o, NEW o2, NEW p, NEW r, NEW s, NEW t, WentOn(o, o2, p, r, s, t),
           NEW ful, FulfilsFrom(o, s, ful), NEW d, HandsOver(ful, d, r.onFullfilled),
           HandsOver(Resolves(o[p].onFullfilled), d, r.onFullfilled)
    PROVE  FulfilsFrom(o2, t, d \cup Hand(o2, t))
<1>1. ASSUME NEW q \in DOMAIN o, o2[q].state = "FULFILLED",
             o2[q].next \notin d \cup Hand(o2, t) \cup {0},
             o2[o2[q].next].state = "PENDING", q # p
      PROVE  Reaches(t, q) \/ Waits(o2, o2[q].next)
  <2> DEFINE m == o[q].next
  <2>1. /\ o2[q] = o[q] /\ m \in DOMAIN o /\ m \in DOMAIN o2 /\ o[m].state = "PENDING"
        /\ o[q].state = "FULFILLED" /\ m \notin d \cup Hand(o2, t) \cup {0}
    BY <1>1, WentOnFacts
  <2>2. CASE r.onFullfilled.kind = "resolve" /\ r.onFullfilled.n = m
    <3>0. p \in DOMAIN o2 /\ o2[p] = r
      BY WentOnFacts
    <3>1. CASE r.state # "FULFILLED"
      BY <2>1, <2>2, <3>0, <3>1 DEF Waits
    <3>2. CASE r.state = "FULFILLED"
      <4>1. /\ t[Len(t)].kind = "settle" /\ t[Len(t)].p = p /\ t[Len(t)].step = 1
        BY <3>2, WentOnFacts
      <4>2. m \in Hand(o2, t)
        BY <2>1, <2>2, <3>0, <4>1 DEF Hand
      <4> QED
        BY <2>1, <4>2
    <3> QED
      BY <2>1, <3>1, <3>2
  <2>3. CASE ~(r.onFullfilled.kind = "resolve" /\ r.onFullfilled.n = m)
    <3>1. Reaches(s, q) \/ Waits(o, m)
      BY <2>1, <2>3 DEF FulfilsFrom, HandsOver
    <3>2. ASSUME Waits(o, m) PROVE Waits(o2, m)
      <4>1. PICK x \in DOMAIN o : /\ o[x].onFullfilled.kind = "resolve"
                                  /\ o[x].onFullfilled.n = m
                                  /\ o[x].state # "FULFILLED"
        BY <3>2 DEF Waits
      <4>2. x # p
        BY <2>1, <2>3, <4>1 DEF HandsOver, Resolves
      <4>3. x \in DOMAIN o2 /\ o2[x] = o[x]
        BY <4>1, <4>2, WentOnFacts
      <4> QED
        BY <4>1, <4>3 DEF Waits
    <3>3. Reaches(s, q) => Reaches(t, q)
      BY WentOnFacts
    <3> QED
      BY <2>1, <3>1, <3>2, <3>3
  <2> QED
    BY <2>2, <2>3
<1>2. \A q \in DOMAIN o2 : q \in DOMAIN o \/ o2[q].state = "PENDING"
  BY WentOnFacts
<1>3. o2[p].state = "FULFILLED" => Reaches(t, p)
  BY WentOnFacts
<1> QED
  BY <1>1, <1>2, <1>3 DEF FulfilsFrom

-----------------------------------------------------------------------------
(* What the actions are made of. *)

Kinds == {"user", "settle", "combine", "drive", "generator"}

LEMMA StackFacts ==
    ASSUME NEW o, NEW s, StackOK(o, s)
    PROVE  /\ s \in Seq(Frame) /\ Len(s) \in Nat /\ Len(s) > 0 /\ Len(s) \in DOMAIN s
           /\ DOMAIN s = 1 .. Len(s)
           /\ \A i \in DOMAIN s : s[i] \in Frame /\ s[i].kind \in Kinds
           /\ FrameOK(o, s[Len(s)])
<1>1. /\ s \in Seq(Frame) /\ Len(s) \in Nat /\ Len(s) > 0 /\ DOMAIN s = 1 .. Len(s)
  BY DEF StackOK
<1>2. \A i \in DOMAIN s : s[i] \in Frame /\ s[i].kind \in Kinds
  BY <1>1, FrameFacts DEF Kinds
<1> QED
  BY <1>1, <1>2 DEF StackOK

\* The invariant from its parts.
LEMMA IInvNext ==
    ASSUME HeapOK(obj'), StackOK(obj', stack'), HistoryOK',
           RejectsFrom(obj', stack', cut'),
           FulfilsFrom(obj', stack', cut' \cup lost' \cup Hand(obj', stack'))
    PROVE  IInv'
  BY DEF IInv

\* Something else than a settlement runs, and is left.
LEMMA InUser ==
    ASSUME IInv, Top.kind # "settle"
    PROVE  /\ Quiet(stack) /\ FulfilsFrom(obj, stack, cut \cup lost)
           /\ Len(stack) > 1 =>
                 /\ StackOK(obj, Below) /\ Quiet(Below)
                 /\ \A p : Reaches(stack, p) => Reaches(Below, p)
                 /\ RejectsFrom(obj, Below, cut) /\ FulfilsFrom(obj, Below, cut \cup lost)
<1>1. StackOK(obj, stack) /\ RejectsFrom(obj, stack, cut)
  BY DEF IInv
<1>2. /\ Len(stack) \in Nat /\ Len(stack) > 0 /\ Len(stack) \in DOMAIN stack
      /\ DOMAIN stack = 1 .. Len(stack)
  BY <1>1, StackFacts
<1>3. Quiet(stack)
  BY <1>1, <1>2 DEF StackOK, Quiet, Top
<1>4. FulfilsFrom(obj, stack, cut \cup lost)
  <2>1. Hand(obj, stack) = {}
    BY DEF Hand, Top
  <2> QED
    BY <2>1 DEF IInv
<1>5. ASSUME Len(stack) > 1
      PROVE  /\ StackOK(obj, Below) /\ Quiet(Below)
             /\ \A p : Reaches(stack, p) => Reaches(Below, p)
  <2> DEFINE m == Len(stack) - 1
  <2>1. Len(stack) \in Nat /\ Len(stack) > 1
    BY <1>2, <1>5
  <2>2. /\ m \in 1 .. Len(stack) /\ m < Len(stack)
        /\ \A i \in m + 1 .. Len(stack) : i = Len(stack)
    BY <2>1
  <2>3. Below = SubSeq(stack, 1, m)
    BY DEF Below
  <2> HIDE DEF m
  <2>4. /\ StackOK(obj, SubSeq(stack, 1, m)) /\ Quiet(SubSeq(stack, 1, m))
        /\ \A p : Reaches(stack, p) =>
              \/ Reaches(SubSeq(stack, 1, m), p)
              \/ \E i \in m + 1 .. Len(stack) :
                    stack[i].kind = "settle" /\ stack[i].p = p /\ stack[i].step <= 3
    BY <1>1, <2>2, Popped
  <2> QED
    BY <2>2, <2>3, <2>4 DEF Top
<1>6. ASSUME \A p : Reaches(stack, p) => Reaches(Below, p)
      PROVE  RejectsFrom(obj, Below, cut) /\ FulfilsFrom(obj, Below, cut \cup lost)
  BY <1>1, <1>4, <1>6 DEF RejectsFrom, FulfilsFrom
<1> QED
  BY <1>3, <1>4, <1>5, <1>6

\* A promise is settled by the frames s.
LEMMA SettleInv ==
    ASSUME IInv, NEW n \in DOMAIN obj, NEW r, NEW st, obj[n].state = "PENDING",
           st \in {"FULFILLED", "REJECTED"},
           SettledAs(obj, n, r, st), ObjectChanged(obj, obj', n, r),
           NEW s, StackOK(obj, s), Quiet(s), NEW v \in 0 .. Len(obj),
           stack' = Append(s, Settle(n, v, FALSE)), UNCHANGED <<cut, lost>>,
           RejectsBut(obj, s, cut, n, st), NEW ful, \A m \in ful : m \in cut \/ m \in lost \/ m = n,
           FulfilsFrom(obj, s, ful)
    PROVE  IInv' /\ Keeps(obj, obj')
<1> DEFINE f == Settle(n, v, FALSE)
<1>1. HeapOK(obj) /\ HistoryOK
  BY DEF IInv
<1>2. HeapOK(obj') /\ Keeps(obj, obj')
  BY <1>1, HeapSettled
<1>3. FrameOK(obj', f) /\ f.kind = "settle" /\ f.p = n /\ f.step = 1
  <2>1. n \in Id /\ v \in Value /\ Len(obj') = Len(obj) /\ n \in DOMAIN obj'
    <3>1. n \in Id /\ Len(obj) \in Nat /\ Len(obj) <= MaxPromises
      BY <1>1, HeapFacts DEF HeapOK
    <3>2. v \in Value
      BY <3>1, BoundsAssumption DEF Value
    <3> QED
      BY <3>1, <3>2 DEF ObjectChanged
  <2>2. obj'[n].state # "PENDING"
    BY DEF ObjectChanged, SettledAs
  <2>3. f \in SettleFrame
    BY <2>1 DEF Settle, SettleFrame
  <2> QED
    BY <2>1, <2>2, <2>3 DEF Settle, FrameOK, Frame
<1>4. StackOK(obj', s)
  BY <1>2, StackKept
<1> HIDE DEF f
<1>5. /\ StackOK(obj', stack') /\ stack'[Len(stack')] = f
      /\ \A p : Reaches(s, p) => Reaches(stack', p)
      /\ Reaches(stack', n)
  <2>1. stack' = Append(s, f)
    BY DEF f
  <2>2. /\ StackOK(obj', Append(s, f)) /\ Append(s, f)[Len(Append(s, f))] = f
        /\ \A p : Reaches(s, p) => Reaches(Append(s, f), p)
        /\ Reaches(Append(s, f), f.p)
    BY <1>3, <1>4, Pushed
  <2> QED
    BY <1>3, <2>1, <2>2
<1>6. /\ stack'[Len(stack')].kind = "settle" /\ stack'[Len(stack')].p = n
      /\ stack'[Len(stack')].step = 1
  BY <1>3, <1>5
<1>7. /\ RejectsFrom(obj', stack', cut)
      /\ FulfilsFrom(obj', stack', cut \cup lost \cup Hand(obj', stack'))
  <2>1. Begun(obj, obj', n, r, st, s, stack')
    BY <1>1, <1>2, <1>5, <1>6 DEF Begun
  <2>2. RejectsFrom(obj', stack', cut)
    BY <2>1, BegunRejects
  <2>3. \A m \in ful : m \in cut \cup lost \/ m = n
    OBVIOUS
  <2>4. FulfilsFrom(obj', stack', (cut \cup lost) \cup Hand(obj', stack'))
    BY <2>1, <2>3, BegunFulfils
  <2> QED
    BY <2>2, <2>4
<1>8. cut' = cut /\ lost' = lost /\ HistoryOK'
  BY <1>1 DEF HistoryOK
<1> QED
  BY <1>2, <1>5, <1>7, <1>8, IInvNext

Caught(f) == [f EXCEPT !.at = "caught"]

\* What is left of the frames s.
LEMMA RaisedStack ==
    ASSUME NEW s, StackOK(obj, s), NEW n, RaisedTo(s, n)
    PROVE  /\ n \in 1 .. Len(s) /\ StackOK(obj, stack') /\ Len(stack') = n
           /\ DOMAIN stack' = 1 .. n
           /\ \A i \in 1 .. n : i # n => stack'[i] = s[i]
           /\ s[n].kind \in {"user", "generator", "combine"} /\ stack'[n].kind = s[n].kind
           /\ s[n].kind # "combine" => stack'[n] = s[n]
           /\ s[n].kind = "combine" => stack'[n] = Caught(s[n])
           /\ \A p : Reaches(s, p) =>
                 \/ Reaches(stack', p)
                 \/ \E i \in n + 1 .. Len(s) :
                       s[i].kind = "settle" /\ s[i].p = p /\ s[i].step <= 3
<1> DEFINE t == SubSeq(s, 1, n)
<1>1. n \in 1 .. Len(s) /\ s[n].kind \in {"user", "generator", "combine"} /\ Len(s) \in Nat
  BY StackFacts DEF RaisedTo
<1>2. /\ StackOK(obj, t) /\ Len(t) = n /\ DOMAIN t = 1 .. n
      /\ \A i \in 1 .. n : t[i] = s[i]
      /\ \A p : Reaches(s, p) =>
            \/ Reaches(t, p)
            \/ \E i \in n + 1 .. Len(s) :
                  s[i].kind = "settle" /\ s[i].p = p /\ s[i].step <= 3
  <2>1. /\ StackOK(obj, SubSeq(s, 1, n)) /\ Len(SubSeq(s, 1, n)) = n
        /\ \A i \in 1 .. n : SubSeq(s, 1, n)[i] = s[i]
        /\ \A p : Reaches(s, p) =>
            \/ Reaches(SubSeq(s, 1, n), p)
            \/ \E i \in n + 1 .. Len(s) :
                  s[i].kind = "settle" /\ s[i].p = p /\ s[i].step <= 3
    BY <1>1, Popped
  <2> HIDE DEF t
  <2> QED
    BY <2>1, StackFacts DEF t
<1>3. stack' = IF s[n].kind = "combine" THEN [t EXCEPT ![n].at = "caught"] ELSE t
  BY DEF RaisedTo
<1>4. n \in 1 .. n
  BY <1>1
<1> HIDE DEF t
<1>5. CASE s[n].kind # "combine"
  BY <1>1, <1>2, <1>3, <1>4, <1>5
<1>6. CASE s[n].kind = "combine"
  <2> DEFINE f == [t[n] EXCEPT !.at = "caught"]
             u == stack'
  <2>1. t[n] = s[n] /\ FrameOK(obj, t[n]) /\ t[n].kind = "combine" /\ t[n] \in CombineFrame
    <3>1. t[n] = s[n] /\ FrameOK(obj, t[n])
      BY <1>2, <1>4 DEF StackOK
    <3> QED
      BY <1>6, <3>1, FrameFacts DEF FrameOK
  <2>2. f \in CombineFrame /\ f.kind = "combine" /\ f.got = t[n].got
    BY <2>1 DEF CombineFrame
  <2>3. FrameOK(obj, f)
    BY <2>1, <2>2 DEF FrameOK, Frame
  <2>4. f.kind = t[Len(t)].kind /\ u = [t EXCEPT ![Len(t)] = f]
    BY <1>2, <1>3, <1>6, <2>1, <2>2
  <2>5. \A p : ~Passes(t[Len(t)], f, p)
    BY <1>2, <2>1 DEF Passes
  <2>6. u[n] = f /\ DOMAIN u = 1 .. n /\ \A i \in 1 .. n : i # n => u[i] = t[i]
    BY <1>2, <1>4, <2>4
  <2>7. f = Caught(s[n])
    BY <2>1 DEF Caught
  <2> HIDE DEF f, u
  <2>8. /\ StackOK(obj, u) /\ Len(u) = Len(t)
        /\ \A p : Reaches(t, p) => Reaches(u, p) \/ Passes(t[Len(t)], f, p)
    BY <1>2, <2>3, <2>4, TopChanged
  <2>9. /\ StackOK(obj, u) /\ Len(u) = n /\ DOMAIN u = 1 .. n
        /\ \A i \in 1 .. n : i # n => u[i] = s[i]
        /\ u[n].kind = s[n].kind /\ u[n] = Caught(s[n])
    BY <1>2, <1>6, <2>2, <2>6, <2>7, <2>8
  <2>10. \A p : Reaches(s, p) =>
            \/ Reaches(u, p)
            \/ \E i \in n + 1 .. Len(s) :
                  s[i].kind = "settle" /\ s[i].p = p /\ s[i].step <= 3
    BY <1>2, <2>5, <2>8, Zenon
  <2> QED
    BY <1>1, <1>6, <2>9, <2>10 DEF u
<1> QED
  BY <1>5, <1>6

\* An exception leaves the frames s.
LEMMA RaiseInv ==
    ASSUME IInv, NEW s, StackOK(obj, s), RejectsFrom(obj, s, cut),
           FulfilsFrom(obj, s, cut \cup lost), Raise(s)
    PROVE  IInv' /\ Keeps(obj, obj')
<1>1. HeapOK(obj) /\ HistoryOK
  BY DEF IInv
<1>2. PICK n : RaisedTo(s, n)
  BY Raised
<1>3. /\ n \in 1 .. Len(s) /\ StackOK(obj, stack') /\ Len(stack') = n
      /\ stack'[n].kind # "settle"
      /\ \A p : Reaches(s, p) =>
            \/ Reaches(stack', p)
            \/ \E i \in n + 1 .. Len(s) :
                  s[i].kind = "settle" /\ s[i].p = p /\ s[i].step <= 3
  BY <1>2, RaisedStack
<1>4. \A p : Reaches(s, p) => Reaches(stack', p) \/ obj[p].next \in cut'
  <2>1. \A i \in n + 1 .. Len(s) : s[i].kind = "settle" => obj[s[i].p].next \in cut'
    BY <1>2 DEF RaisedTo
  <2>2. ASSUME NEW p, NEW i \in n + 1 .. Len(s), s[i].kind = "settle", s[i].p = p
        PROVE  obj[p].next \in cut'
    BY <2>1, <2>2
  <2> QED
    BY <1>3, <2>2, Zenon
<1>5. cut \subseteq cut' /\ Hand(obj, stack') = {}
  BY <1>2, <1>3 DEF Hand, RaisedTo
<1>6. RejectsFrom(obj, stack', cut')
  BY <1>4, <1>5 DEF RejectsFrom
<1>7. FulfilsFrom(obj, stack', cut' \cup lost \cup Hand(obj, stack'))
  BY <1>4, <1>5 DEF FulfilsFrom
<1>8. cut' \subseteq Value
  <2>1. ASSUME NEW i \in n + 1 .. Len(s), s[i].kind = "settle"
        PROVE  obj[s[i].p].next \in Value
    <3>1. i \in DOMAIN s /\ s[i].p \in DOMAIN obj
      BY <1>3, <2>1, StackFacts DEF StackOK, FrameOK
    <3>2. obj[s[i].p] \in Object
      BY <1>1, <3>1, HeapFacts
    <3> QED
      BY <3>2 DEF Object
  <2> QED
    BY <1>1, <1>2, <2>1 DEF HistoryOK, RaisedTo
<1>9. obj' = obj /\ lost' = lost /\ HistoryOK' /\ Keeps(obj, obj)
  BY <1>1, <1>2, <1>8, HeapFacts DEF HistoryOK, Keeps, RaisedTo
<1> QED
  BY <1>1, <1>3, <1>6, <1>7, <1>9, IInvNext

Slots == {"onFullfilled", "onRejected", "onFinaled"}

\* The object that then() makes of p.
LEMMA AttachedObject ==
    ASSUME HeapOK(obj), NEW p \in DOMAIN obj, NEW given, DOMAIN given \subseteq Slots,
           \A x \in DOMAIN given : given[x] \in Fn,
           NEW n \in Value, NEW r, r = Attached(p, given, n)
    PROVE  /\ r \in Object
           /\ r.state = obj[p].state /\ r.value = obj[p].value /\ r.next = n
           /\ r.onFullfilled = IF "onFullfilled" \in DOMAIN given
                               THEN given["onFullfilled"] ELSE obj[p].onFullfilled
           /\ r.onRejected = IF "onRejected" \in DOMAIN given
                             THEN given["onRejected"] ELSE obj[p].onRejected
           /\ r.onFinaled = IF "onFinaled" \in DOMAIN given
                            THEN given["onFinaled"] ELSE obj[p].onFinaled
<1>1. /\ obj[p] \in Object
      /\ DOMAIN obj[p] = {"state", "value", "onFullfilled", "onRejected", "onFinaled", "next"}
  BY HeapFacts DEF Object
<1>2. /\ DOMAIN r = DOMAIN obj[p]
      /\ \A slot \in DOMAIN obj[p] :
            r[slot] = IF slot \in DOMAIN given THEN given[slot]
                      ELSE IF slot = "next" THEN n ELSE obj[p][slot]
      /\ r = [slot \in DOMAIN obj[p] |-> r[slot]]
  BY DEF Attached
<1>3. /\ r.state \in {"PENDING", "FULFILLED", "REJECTED"} /\ r.value \in Value
      /\ r.onFullfilled \in Fn /\ r.onRejected \in Fn /\ r.onFinaled \in Fn
      /\ r.next \in Value
  BY <1>1, <1>2 DEF Object, Slots
<1>4. r \in Object
  BY <1>1, <1>2, <1>3 DEF Object
<1> QED
  BY <1>1, <1>2, <1>4 DEF Slots

\* then() is called on p by the frames s.
LEMMA CallThenInv ==
    ASSUME IInv, NEW p \in DOMAIN obj, NEW given, DOMAIN given \subseteq Slots,
           \A x \in DOMAIN given : given[x] \in Fn /\ Resolves(given[x]) \subseteq DOMAIN obj,
           NEW s, StackOK(obj, s), Quiet(s), RejectsFrom(obj, s, cut),
           NEW ful, FulfilsFrom(obj, s, ful),
           \/ ful = cut \cup lost
           \/ /\ "onFullfilled" \in DOMAIN given
              /\ HandsOver(ful, cut \cup lost, given["onFullfilled"]),
           CallThen(p, given, s)
    PROVE  IInv' /\ Keeps(obj, obj')
<1> DEFINE n == Len(obj) + 1
           r == Attached(p, given, n)
<1>1. HeapOK(obj) /\ HistoryOK
  BY DEF IInv
<1>2. /\ Len(obj) \in Nat /\ DOMAIN obj = 1 .. Len(obj) /\ DOMAIN obj \subseteq Id
      /\ obj[p] \in Object /\ Len(obj) < MaxPromises
      /\ n \in Value /\ n \in Nat
  <2>1. /\ Len(obj) \in Nat /\ DOMAIN obj = 1 .. Len(obj) /\ DOMAIN obj \subseteq Id
        /\ obj[p] \in Object
    BY <1>1, HeapFacts
  <2>2. Len(obj) < MaxPromises
    BY DEF CallThen, CanCreate
  <2> QED
    BY <2>1, <2>2, BoundsAssumption DEF Value
<1>3. /\ r \in Object
      /\ r.state = obj[p].state /\ r.value = obj[p].value /\ r.next = n
      /\ r.onFullfilled = IF "onFullfilled" \in DOMAIN given
                          THEN given["onFullfilled"] ELSE obj[p].onFullfilled
      /\ r.onFinaled = IF "onFinaled" \in DOMAIN given
                       THEN given["onFinaled"] ELSE obj[p].onFinaled
  <2> HIDE DEF n
  <2> QED
    BY <1>1, <1>2, AttachedObject
<1>4. /\ obj' = Append([obj EXCEPT ![p] = r], Fresh)
      /\ lost' = IF "onFullfilled" \in DOMAIN given THEN lost \cup SlotResolver(p) ELSE lost
      /\ cut' = cut
  BY DEF CallThen
<1>5. Fresh \in Object
  BY BoundsAssumption DEF Fresh, Object, NoFn, Fn, Value
<1> HIDE DEF r
<1>6. ThenCalled(obj, obj', p, r)
  <2>1. [obj EXCEPT ![p] = r] \in Seq(Object) /\ Len([obj EXCEPT ![p] = r]) = Len(obj)
    BY <1>1, <1>3 DEF HeapOK
  <2> QED
    BY <1>2, <1>3, <1>4, <1>5, <2>1 DEF ThenCalled
<1>7. HeapOK(obj') /\ Keeps(obj, obj')
  <2>1. /\ r.onFullfilled.kind = "resolve" => r.onFullfilled.n \in DOMAIN obj
        /\ r.onFinaled.kind = "resolve" => r.onFinaled.n \in DOMAIN obj
    BY <1>1, <1>3 DEF HeapOK, Resolves
  <2> QED
    BY <1>1, <1>2, <1>6, <2>1, HeapThen
<1>8. StackOK(obj', s)
  BY <1>7, StackKept
<1>9. /\ StackOK(obj', stack')
      /\ WentOn(obj, obj', p, r, s, stack')
  <2>1. Len(obj') = n /\ n \in 0 .. Len(obj') /\ Len(obj') <= MaxPromises
    BY <1>2, <1>6, <1>7 DEF ThenCalled, HeapOK
  <2>2. CASE obj[p].state = "PENDING"
    <3>1. stack' = Returned(s, n)
      BY <2>2 DEF CallThen
    <3> HIDE DEF n
    <3>2. StackOK(obj', Returned(s, n)) /\ \A q : Reaches(s, q) => Reaches(Returned(s, n), q)
      BY <1>2, <1>8, <2>1, ReturnedInto
    <3> QED
      BY <1>1, <1>6, <2>2, <3>1, <3>2 DEF WentOn
  <2>3. CASE obj[p].state # "PENDING"
    <3> DEFINE f == Settle(p, obj[p].value, TRUE)
    <3>1. stack' = Append(s, f)
      BY <2>3 DEF CallThen
    <3>2. f \in SettleFrame /\ f.kind = "settle" /\ f.p = p /\ f.step = 1
          /\ f.value = obj[p].value
      BY <1>2 DEF Settle, SettleFrame, Object
    <3>3. /\ p \in DOMAIN obj' /\ obj'[p].state # "PENDING" /\ obj'[p].value = obj[p].value
          /\ obj'[p].value <= Len(obj')
      BY <1>2, <1>3, <1>6, <1>7, <2>3 DEF ThenCalled, HeapOK
    <3>a. obj'[p].next # 0
      BY <1>2, <1>3, <1>6 DEF ThenCalled
    <3>4. FrameOK(obj', f)
      BY <3>2, <3>3, <3>a DEF FrameOK, Frame
    <3> HIDE DEF f
    <3>5. /\ StackOK(obj', Append(s, f)) /\ Append(s, f)[Len(Append(s, f))] = f
          /\ \A q : Reaches(s, q) => Reaches(Append(s, f), q)
          /\ Reaches(Append(s, f), p)
      BY <1>8, <3>2, <3>4, Pushed
    <3> QED
      BY <1>1, <1>6, <3>1, <3>2, <3>5 DEF WentOn
  <2> QED
    BY <2>2, <2>3
<1>10. RejectsFrom(obj', stack', cut)
  BY <1>9, ThenRejects
<1>11. FulfilsFrom(obj', stack', (cut \cup lost') \cup Hand(obj', stack'))
  <2>1. Resolves(obj[p].onFullfilled) = SlotResolver(p) /\ lost \subseteq lost'
    BY <1>4 DEF Resolves, SlotResolver
  <2>2. HandsOver(Resolves(obj[p].onFullfilled), cut \cup lost', r.onFullfilled)
    BY <1>3, <1>4, <2>1 DEF HandsOver, Resolves
  <2>3. HandsOver(ful, cut \cup lost', r.onFullfilled)
    BY <1>3, <2>1 DEF HandsOver
  <2> QED
    BY <1>9, <2>2, <2>3, ThenFulfils
<1>12. HistoryOK'
  <2>1. SlotResolver(p) \subseteq Id
    BY <1>1, <1>2 DEF SlotResolver, HeapOK
  <2> QED
    BY <1>1, <1>4, <2>1 DEF HistoryOK
<1> QED
  BY <1>4, <1>7, <1>9, <1>10, <1>11, <1>12, IInvNext

-----------------------------------------------------------------------------
(* The actions. *)

\* Only the stack moves, to frames that go on with all chains.
LEMMA MoveInv ==
    ASSUME IInv, UNCHANGED <<obj, cut, lost>>, StackOK(obj, stack'),
           NEW s, RejectsFrom(obj, s, cut), FulfilsFrom(obj, s, cut \cup lost),
           \A p : Reaches(s, p) => Reaches(stack', p)
    PROVE  IInv' /\ Keeps(obj, obj')
<1>1. HeapOK(obj) /\ HistoryOK /\ obj' = obj /\ cut' = cut /\ lost' = lost
  BY DEF IInv
<1>2. RejectsFrom(obj, stack', cut)
  BY DEF RejectsFrom
<1>3. FulfilsFrom(obj, stack', cut \cup lost \cup Hand(obj, stack'))
  BY DEF FulfilsFrom
<1>4. HistoryOK' /\ Keeps(obj, obj)
  BY <1>1, HeapFacts DEF HistoryOK, Keeps
<1> QED
  BY <1>1, <1>2, <1>3, <1>4, IInvNext

\* A settlement goes to its next step.
LEMMA NextStep ==
    ASSUME NEW f \in SettleFrame, f.step < 4, NEW g, g = [f EXCEPT !.step = @ + 1],
           NEW o, FrameOK(o, f)
    PROVE  /\ FrameOK(o, g) /\ f.kind = "settle" /\ g.kind = "settle" /\ g.p = f.p
           /\ f.step \in 1 .. 3 /\ g.step = f.step + 1
<1>1. f.step \in 1 .. 3 /\ f.kind = "settle"
  BY FrameFacts DEF SettleFrame
<1>2. /\ g \in SettleFrame /\ g.kind = "settle" /\ g.p = f.p
      /\ g.step = f.step + 1 /\ g.value = f.value /\ g.gives = f.gives
  BY <1>1 DEF SettleFrame
<1> QED
  BY <1>1, <1>2 DEF FrameOK, Frame

LEMMA SteppedOn ==
    ASSUME NEW o, NEW s, StackOK(o, s), NEW f, FrameOK(o, f),
           s[Len(s)].kind = "settle", s[Len(s)].step \in 1 .. 3,
           f.kind = "settle", f.p = s[Len(s)].p, f.step = s[Len(s)].step + 1,
           NEW t, t = [s EXCEPT ![Len(s)] = f]
    PROVE  /\ StackOK(o, t) /\ Quiet(t)
           /\ \A p : Reaches(s, p) =>
                 Reaches(t, p) \/ (s[Len(s)].p = p /\ s[Len(s)].step = 3)
<1>1. f.kind = s[Len(s)].kind
  OBVIOUS
<1>2. /\ StackOK(o, t)
      /\ f.kind = "settle" /\ f.step > 1 => Quiet(t)
      /\ \A p : Reaches(s, p) => Reaches(t, p) \/ Passes(s[Len(s)], f, p)
  BY <1>1, TopChanged
<1>3. \A p : Passes(s[Len(s)], f, p) => s[Len(s)].p = p /\ s[Len(s)].step = 3
  BY DEF Passes
<1>4. f.step > 1
  OBVIOUS
<1>5. Quiet(t)
  BY <1>2, <1>4
<1>6. \A p : Reaches(s, p) => Reaches(t, p) \/ (s[Len(s)].p = p /\ s[Len(s)].step = 3)
  BY <1>2, <1>3, Zenon
<1> QED
  BY <1>2, <1>5, <1>6, Zenon

\* The function of a step, and the settlement after it.  What it resolves is
\* all that the frames may leave off.
LEMMA InSettlement ==
    ASSUME IInv, Top.kind = "settle", Top.step < 4
    PROVE  /\ StackOK(obj, Advanced) /\ Quiet(Advanced)
           /\ RejectsFrom(obj, Advanced, cut \cup Resolves(FnAt(Top)))
           /\ obj[Top.p].state = "FULFILLED" => RejectsFrom(obj, Advanced, cut)
           /\ FulfilsFrom(obj, Advanced, cut \cup lost \cup Resolves(FnAt(Top)))
<1> DEFINE X == Resolves(FnAt(Top))
<1>1. /\ HeapOK(obj) /\ StackOK(obj, stack) /\ RejectsFrom(obj, stack, cut)
      /\ FulfilsFrom(obj, stack, cut \cup lost \cup Hand(obj, stack))
  BY DEF IInv
<1>2. /\ StackOK(obj, Advanced) /\ Quiet(Advanced) /\ FrameOK(obj, Top)
      /\ \A p : Reaches(stack, p) => Reaches(Advanced, p) \/ (Top.p = p /\ Top.step = 3)
  <2> DEFINE t == Advanced
             f == [Top EXCEPT !.step = @ + 1]
  <2>1. t = [stack EXCEPT ![Len(stack)] = f]
    BY DEF Advanced, Top
  <2>2. FrameOK(obj, Top) /\ Top \in SettleFrame
    <3>1. FrameOK(obj, Top)
      BY <1>1, StackFacts DEF Top
    <3> QED
      BY <3>1, FrameFacts DEF FrameOK
  <2>3. /\ FrameOK(obj, f) /\ f.kind = "settle" /\ f.p = Top.p
        /\ Top.step \in 1 .. 3 /\ f.step = Top.step + 1
    BY <2>2, NextStep
  <2> HIDE DEF t, f
  <2>4. /\ StackOK(obj, t) /\ Quiet(t)
        /\ \A p : Reaches(stack, p) => Reaches(t, p) \/ (Top.p = p /\ Top.step = 3)
    BY <1>1, <2>1, <2>3, SteppedOn DEF Top
  <2> QED
    BY <2>2, <2>4 DEF t
<1>3. Top.p \in DOMAIN obj /\ obj[Top.p].state \in {"FULFILLED", "REJECTED"}
  BY <1>1, <1>2, HeapFacts DEF FrameOK
<1>4. Top.step = 3 /\ obj[Top.p].next # 0 => obj[Top.p].next \in X
  BY DEF FnAt, ResolveOf, Resolves
<1>5. \A m \in Hand(obj, stack) : m \in X \/ Waits(obj, m)
  <2> SUFFICES ASSUME NEW m \in Hand(obj, stack) PROVE m \in X \/ Waits(obj, m)
    OBVIOUS
  <2>1. /\ Top.step = 1 /\ obj[Top.p].onFullfilled.kind = "resolve"
        /\ obj[Top.p].onFullfilled.n = m
    BY DEF Hand, Top
  <2>2. CASE obj[Top.p].state = "FULFILLED"
    BY <2>1, <2>2 DEF FnAt, Resolves
  <2>3. CASE obj[Top.p].state # "FULFILLED"
    BY <1>3, <2>1, <2>3 DEF Waits
  <2> QED
    BY <2>2, <2>3
<1> HIDE DEF X
<1>6. RejectsFrom(obj, Advanced, cut \cup X)
  BY <1>1, <1>2, <1>4 DEF RejectsFrom
<1>7. obj[Top.p].state = "FULFILLED" => RejectsFrom(obj, Advanced, cut)
  BY <1>1, <1>2 DEF RejectsFrom
<1>8. FulfilsFrom(obj, Advanced, cut \cup lost \cup X)
  BY <1>1, <1>2, <1>4, <1>5 DEF FulfilsFrom
<1> QED
  BY <1>2, <1>6, <1>7, <1>8 DEF X

\* A frame of the user's code in which executor e, if any, runs.
LEMMA UserFrameOK ==
    ASSUME NEW o, NEW e \in Value, e <= Len(o), NEW b \in BOOLEAN
    PROVE  FrameOK(o, [kind |-> "user", exec |-> e, void |-> b])
  BY DEF FrameOK, Frame, UserFrame

LEMMA StepSkip ==
    ASSUME IInv, SkipStep
    PROVE  IInv' /\ Keeps(obj, obj')
<1>1. Top.kind = "settle" /\ Top.step < 4 /\ Resolves(FnAt(Top)) = {}
  BY DEF SkipStep, Resolves
<1>2. stack' = Advanced /\ UNCHANGED <<obj, cut, lost>>
  BY DEF SkipStep
<1>3. /\ StackOK(obj, Advanced) /\ RejectsFrom(obj, Advanced, cut)
      /\ FulfilsFrom(obj, Advanced, cut \cup lost)
  BY <1>1, InSettlement
<1> QED
  BY <1>2, <1>3, MoveInv

LEMMA StepCallUser ==
    ASSUME IInv, CallUser
    PROVE  IInv' /\ Keeps(obj, obj')
<1> DEFINE f == [kind |-> "user", exec |-> 0, void |-> FnAt(Top).void]
<1>1. Top.kind = "settle" /\ Top.step \in {1, 2} /\ Resolves(FnAt(Top)) = {}
  BY DEF CallUser, InSettle, Resolves
<1>2. stack' = Append(Advanced, f) /\ UNCHANGED <<obj, cut, lost>>
  BY DEF CallUser
<1>3. /\ StackOK(obj, Advanced) /\ Quiet(Advanced) /\ RejectsFrom(obj, Advanced, cut)
      /\ FulfilsFrom(obj, Advanced, cut \cup lost)
  BY <1>1, InSettlement
<1>4. FrameOK(obj, f)
  <2>1. HeapOK(obj) /\ Top.p \in DOMAIN obj
    <3>1. StackOK(obj, stack) /\ HeapOK(obj)
      BY DEF IInv
    <3> QED
      BY <1>1, <3>1, StackFacts DEF Top, FrameOK
  <2>2. Len(obj) \in Nat /\ obj[Top.p] \in Object
    BY <2>1, HeapFacts
  <2>3. FnAt(Top) \in {obj[Top.p].onFullfilled, obj[Top.p].onRejected, obj[Top.p].onFinaled}
    BY <1>1 DEF FnAt
  <2>4. FnAt(Top).void \in BOOLEAN
    BY <2>2, <2>3 DEF Object, Fn
  <2>5. 0 \in Value /\ 0 <= Len(obj)
    BY <2>2, BoundsAssumption DEF Value
  <2> QED
    BY <2>4, <2>5, UserFrameOK
<1> HIDE DEF f
<1>5. StackOK(obj, stack') /\ \A p : Reaches(Advanced, p) => Reaches(stack', p)
  BY <1>2, <1>3, <1>4, Pushed
<1> QED
  BY <1>2, <1>3, <1>5, MoveInv

-----------------------------------------------------------------------------
(* The calls of PHP code. *)

\* Promise n with a new state, and a value of the heap.
LEMMA SettledObject ==
    ASSUME HeapOK(obj), NEW n \in DOMAIN obj, NEW st \in {"FULFILLED", "REJECTED"},
           NEW v \in 0 .. Len(obj), NEW r, r = [obj[n] EXCEPT !.state = st, !.value = v]
    PROVE  SettledAs(obj, n, r, st)
<1>1. Len(obj) \in Nat /\ Len(obj) <= MaxPromises /\ obj[n] \in Object
  BY HeapFacts DEF HeapOK
<1>2. v \in Value /\ v <= Len(obj)
  BY <1>1, BoundsAssumption DEF Value
<1>3. /\ r \in Object /\ r.value = v /\ r.state = st
      /\ r.next = obj[n].next /\ r.onFullfilled = obj[n].onFullfilled
      /\ r.onRejected = obj[n].onRejected /\ r.onFinaled = obj[n].onFinaled
  BY <1>1, <1>2 DEF Object
<1> QED
  BY <1>2, <1>3 DEF SettledAs

LEMMA OneChanged ==
    ASSUME HeapOK(obj), NEW n \in DOMAIN obj, NEW r \in Object,
           obj' = [obj EXCEPT ![n] = r]
    PROVE  ObjectChanged(obj, obj', n, r)
<1>1. /\ obj \in Seq(Object) /\ DOMAIN obj = 1 .. Len(obj) /\ Len(obj) \in Nat
  BY HeapFacts DEF HeapOK
<1> QED
  BY <1>1 DEF ObjectChanged

LEMMA StepResolve ==
    ASSUME IInv, NEW p \in DOMAIN obj, NEW v \in 0 .. Len(obj),
           Resolve(p, v)
    PROVE  IInv' /\ Keeps(obj, obj')
<1> DEFINE r == [obj[p] EXCEPT !.state = "FULFILLED", !.value = v]
<1>1. /\ HeapOK(obj) /\ StackOK(obj, stack) /\ RejectsFrom(obj, stack, cut)
      /\ Quiet(stack) /\ FulfilsFrom(obj, stack, cut \cup lost)
  BY InUser DEF IInv, InUserCode, Resolve
<1>2. SettledAs(obj, p, r, "FULFILLED")
  BY <1>1, SettledObject
<1>3. obj' = [obj EXCEPT ![p] = r]
  BY DEF Resolve
<1> HIDE DEF r
<1>4. ObjectChanged(obj, obj', p, r)
  BY <1>1, <1>2, <1>3, OneChanged DEF SettledAs
<1>5. RejectsBut(obj, stack, cut, p, "FULFILLED")
  BY <1>1 DEF RejectsBut
<1>6. /\ obj[p].state = "PENDING" /\ UNCHANGED <<cut, lost>>
      /\ stack' = Append(stack, Settle(p, v, FALSE))
  BY DEF Resolve
<1>7. \A m \in cut \cup lost : m \in cut \/ m \in lost \/ m = p
  OBVIOUS
<1> QED
  BY <1>1, <1>2, <1>4, <1>5, <1>6, <1>7, SettleInv

LEMMA StepReject ==
    ASSUME IInv, NEW p \in DOMAIN obj, Reject(p)
    PROVE  IInv' /\ Keeps(obj, obj')
<1> DEFINE v == obj[p].value
           r == [obj[p] EXCEPT !.state = "REJECTED", !.value = v]
<1>1. /\ HeapOK(obj) /\ StackOK(obj, stack) /\ RejectsFrom(obj, stack, cut)
      /\ Quiet(stack) /\ FulfilsFrom(obj, stack, cut \cup lost)
  BY InUser DEF IInv, InUserCode, Reject
<1>2. SettledAs(obj, p, r, "REJECTED")
  <2>1. v \in 0 .. Len(obj)
    BY <1>1, HeapFacts
  <2> HIDE DEF v
  <2> QED
    BY <1>1, <2>1, SettledObject
<1>3. obj' = [obj EXCEPT ![p] = r]
  <2>1. r = [obj[p] EXCEPT !.state = "REJECTED"]
    BY <1>1, HeapFacts DEF Object
  <2> QED
    BY <2>1 DEF Reject
<1> HIDE DEF r
<1>4. ObjectChanged(obj, obj', p, r)
  BY <1>1, <1>2, <1>3, OneChanged DEF SettledAs
<1>5. RejectsBut(obj, stack, cut, p, "REJECTED")
  BY <1>1 DEF RejectsBut
<1>6. /\ obj[p].state = "PENDING" /\ UNCHANGED <<cut, lost>>
      /\ stack' = Append(stack, Settle(p, 0, FALSE)) /\ 0 \in 0 .. Len(obj)
  BY <1>1, HeapFacts DEF Reject
<1>7. \A m \in cut \cup lost : m \in cut \/ m \in lost \/ m = p
  OBVIOUS
<1> QED
  BY <1>1, <1>2, <1>4, <1>5, <1>6, <1>7, SettleInv

\* A new promise has no chain.
PromiseAdded(o, o2) ==
    /\ o2 \in Seq(Object) /\ Len(o2) = Len(o) + 1 /\ DOMAIN o2 = 1 .. Len(o) + 1
    /\ \A q \in DOMAIN o : o2[q] = o[q]
    /\ o2[Len(o) + 1] = Fresh

LEMMA AddedFacts ==
    ASSUME NEW o, HeapOK(o), NEW o2, PromiseAdded(o, o2)
    PROVE  /\ \A q \in DOMAIN o : q \in DOMAIN o2 /\ o2[q] = o[q]
           /\ \A q \in DOMAIN o2 : q \in DOMAIN o \/ o2[q] = Fresh
           /\ \A q \in DOMAIN o : o[q].next # 0 => o[q].next \in DOMAIN o
           /\ Fresh.state = "PENDING" /\ Fresh.next = 0 /\ Fresh.value = 0
           /\ Fresh.onFullfilled.kind = "none" /\ Fresh.onFinaled.kind = "none"
<1>1. Len(o) \in Nat /\ DOMAIN o = 1 .. Len(o)
  BY HeapFacts
<1>2. \A q \in DOMAIN o : o[q].next # 0 => o[q].next \in DOMAIN o
  BY HeapFacts
<1>3. \A q \in DOMAIN o2 : q \in DOMAIN o \/ q = Len(o) + 1
  BY <1>1 DEF PromiseAdded
<1>4. \A q \in DOMAIN o : q \in DOMAIN o2 /\ o2[q] = o[q]
  BY <1>1 DEF PromiseAdded
<1>5. /\ Fresh.state = "PENDING" /\ Fresh.next = 0 /\ Fresh.value = 0
      /\ Fresh.onFullfilled.kind = "none" /\ Fresh.onFinaled.kind = "none"
  BY DEF Fresh, NoFn
<1>6. \A q \in DOMAIN o2 : q \in DOMAIN o \/ o2[q] = Fresh
  BY <1>3 DEF PromiseAdded
<1> QED
  BY <1>2, <1>4, <1>5, <1>6

LEMMA HeapAdded ==
    ASSUME NEW o, HeapOK(o), Len(o) < MaxPromises, NEW o2, PromiseAdded(o, o2)
    PROVE  HeapOK(o2) /\ Keeps(o, o2)
<1>1. Len(o) \in Nat /\ DOMAIN o = 1 .. Len(o) /\ Len(o2) = Len(o) + 1
  BY HeapFacts DEF PromiseAdded
<1>2. ASSUME NEW q \in DOMAIN o2
      PROVE  /\ o2[q].next <= Len(o2) /\ o2[q].value <= Len(o2)
             /\ o2[q].onFullfilled.kind = "resolve" => o2[q].onFullfilled.n \in DOMAIN o2
             /\ o2[q].onFinaled.kind = "resolve" => o2[q].onFinaled.n \in DOMAIN o2
  <2>1. CASE q \in DOMAIN o
    <3>1. /\ o2[q] = o[q]
          /\ o[q].next \in 0 .. Len(o) /\ o[q].value \in 0 .. Len(o)
      BY <2>1, HeapFacts DEF PromiseAdded
    <3>2. /\ o[q].onFullfilled.kind = "resolve" => o[q].onFullfilled.n \in DOMAIN o2
          /\ o[q].onFinaled.kind = "resolve" => o[q].onFinaled.n \in DOMAIN o2
      BY <2>1, AddedFacts DEF HeapOK
    <3> QED
      BY <1>1, <3>1, <3>2
  <2>2. CASE q \notin DOMAIN o
    <3>1. o2[q] = Fresh
      BY <2>2, AddedFacts
    <3>2. /\ o2[q].next = 0 /\ o2[q].value = 0 /\ o2[q].onFullfilled.kind = "none"
          /\ o2[q].onFinaled.kind = "none"
      BY <3>1, AddedFacts
    <3> QED
      BY <1>1, <3>2
  <2> QED
    BY <2>1, <2>2
<1>3. HeapOK(o2)
  BY <1>1, <1>2, BoundsAssumption DEF PromiseAdded, HeapOK
<1>4. Keeps(o, o2)
  BY <1>1 DEF PromiseAdded, Keeps
<1> QED
  BY <1>3, <1>4

LEMMA ChainsAdded ==
    ASSUME NEW o, HeapOK(o), NEW o2, PromiseAdded(o, o2), NEW s, NEW t,
           \A p : Reaches(s, p) => Reaches(t, p), NEW c, RejectsFrom(o, s, c),
           NEW ful, FulfilsFrom(o, s, ful)
    PROVE  RejectsFrom(o2, t, c) /\ FulfilsFrom(o2, t, ful)
<1>1. /\ \A q \in DOMAIN o : q \in DOMAIN o2 /\ o2[q] = o[q]
      /\ \A q \in DOMAIN o2 : q \in DOMAIN o \/ o2[q].state = "PENDING"
      /\ \A q \in DOMAIN o : o[q].next # 0 => o[q].next \in DOMAIN o
  BY AddedFacts
<1>2. RejectsFrom(o2, t, c)
  BY <1>1 DEF RejectsFrom
<1>3. \A n : Waits(o, n) => Waits(o2, n)
  BY <1>1 DEF Waits
<1>4. FulfilsFrom(o2, t, ful)
  BY <1>1, <1>3 DEF FulfilsFrom
<1> QED
  BY <1>2, <1>4

LEMMA StepConstruct ==
    ASSUME IInv, NEW b \in BOOLEAN, Construct(b)
    PROVE  IInv' /\ Keeps(obj, obj')
<1> DEFINE f == [kind |-> "user", exec |-> Len(obj) + 1, void |-> FALSE]
<1>1. /\ HeapOK(obj) /\ StackOK(obj, stack) /\ HistoryOK /\ RejectsFrom(obj, stack, cut)
      /\ Quiet(stack) /\ FulfilsFrom(obj, stack, cut \cup lost)
  BY InUser DEF IInv, InUserCode, Construct
<1>2. /\ Len(obj) \in Nat /\ obj \in Seq(Object) /\ DOMAIN obj = 1 .. Len(obj)
      /\ Len(obj) < MaxPromises
  BY <1>1, HeapFacts DEF HeapOK, Construct, CanCreate
<1>3. Fresh \in Object
  BY BoundsAssumption DEF Fresh, Object, NoFn, Fn, Value
<1>4. PromiseAdded(obj, obj')
  BY <1>2, <1>3 DEF Construct, PromiseAdded
<1>5. HeapOK(obj') /\ Keeps(obj, obj') /\ StackOK(obj', stack)
  BY <1>1, <1>2, <1>4, HeapAdded, StackKept
<1>6. stack' = stack \/ stack' = Append(stack, f)
  BY DEF Construct
<1>7. FrameOK(obj', f)
  <2>1. Len(obj) + 1 \in Value /\ Len(obj) + 1 <= Len(obj')
    BY <1>2, <1>4, BoundsAssumption DEF PromiseAdded, Value
  <2> QED
    BY <2>1, UserFrameOK
<1>8. f.kind = "user"
  OBVIOUS
<1> HIDE DEF f
<1>9. /\ StackOK(obj', stack') /\ \A p : Reaches(stack, p) => Reaches(stack', p)
      /\ stack'[Len(stack')].kind # "settle"
  <2>0. stack[Len(stack)].kind # "settle"
    BY DEF Construct, InUserCode, Top
  <2>1. CASE stack' = stack
    BY <1>5, <2>0, <2>1
  <2>2. CASE stack' = Append(stack, f)
    BY <1>1, <1>5, <1>7, <1>8, <2>2, Pushed
  <2> QED
    BY <1>6, <2>1, <2>2
<1>10. RejectsFrom(obj', stack', cut) /\ FulfilsFrom(obj', stack', cut \cup lost)
  BY <1>1, <1>4, <1>9, ChainsAdded
<1>11. Hand(obj', stack') = {}
  BY <1>9 DEF Hand
<1>12. cut' = cut /\ lost' = lost /\ HistoryOK'
  BY <1>1 DEF Construct, HistoryOK
<1> QED
  BY <1>5, <1>9, <1>10, <1>11, <1>12, IInvNext

LEMMA StepThen ==
    ASSUME IInv, NEW p \in DOMAIN obj, NEW form \in Forms, Then(p, form)
    PROVE  IInv' /\ Keeps(obj, obj')
<1> DEFINE given == [slot \in form |-> User]
<1>1. /\ StackOK(obj, stack) /\ RejectsFrom(obj, stack, cut)
      /\ Quiet(stack) /\ FulfilsFrom(obj, stack, cut \cup lost)
  BY InUser DEF IInv, InUserCode, Then
<1>2. DOMAIN given \subseteq Slots
  BY BoundsAssumption DEF Slots
<1>3. \A x \in DOMAIN given : given[x] \in Fn /\ Resolves(given[x]) \subseteq DOMAIN obj
  BY DEF User, Fn, Resolves
<1>4. CallThen(p, given, stack)
  BY DEF Then
<1> HIDE DEF given
<1> QED
  BY <1>1, <1>2, <1>3, <1>4, CallThenInv

LEMMA StepReturn ==
    ASSUME IInv, NEW v \in 0 .. Len(obj), Return(v)
    PROVE  IInv' /\ Keeps(obj, obj')
<1>1. /\ Top.kind = "user" /\ Len(stack) > 1 /\ stack' = Returned(Below, v)
      /\ UNCHANGED <<obj, cut, lost>>
  BY DEF Return
<1>2. /\ StackOK(obj, Below) /\ RejectsFrom(obj, Below, cut)
      /\ FulfilsFrom(obj, Below, cut \cup lost)
  BY <1>1, InUser
<1>3. Len(obj) \in Nat /\ Len(obj) <= MaxPromises
  BY HeapFacts DEF IInv, HeapOK
<1>4. StackOK(obj, stack') /\ \A p : Reaches(Below, p) => Reaches(stack', p)
  BY <1>1, <1>2, <1>3, ReturnedInto
<1> QED
  BY <1>1, <1>2, <1>4, MoveInv

LEMMA StepThrow ==
    ASSUME IInv, Throw
    PROVE  IInv' /\ Keeps(obj, obj')
<1> DEFINE n == Top.exec
           v == obj[n].value
           r == [obj[n] EXCEPT !.state = "REJECTED", !.value = v]
<1>1. Top.kind = "user" /\ Len(stack) > 1
  BY DEF Throw
<1>2. /\ StackOK(obj, Below) /\ Quiet(Below) /\ RejectsFrom(obj, Below, cut)
      /\ FulfilsFrom(obj, Below, cut \cup lost)
  BY <1>1, InUser
<1>3. HeapOK(obj) /\ StackOK(obj, stack) /\ Len(obj) \in Nat /\ DOMAIN obj = 1 .. Len(obj)
  BY HeapFacts DEF IInv
<1>4. CASE n # 0 /\ obj[n].state = "PENDING"
  <2>1. n \in DOMAIN obj
    <3>1. FrameOK(obj, Top)
      BY <1>3, StackFacts DEF Top
    <3>2. n \in Nat /\ n <= Len(obj)
      BY <1>1, <3>1, FrameFacts DEF FrameOK
    <3> QED
      BY <1>3, <1>4, <3>2
  <2>2. SettledAs(obj, n, r, "REJECTED")
    <3>1. v \in 0 .. Len(obj)
      BY <1>3, <2>1, HeapFacts
    <3> HIDE DEF v, n
    <3> QED
      BY <1>3, <2>1, <3>1, SettledObject
  <2>3. obj' = [obj EXCEPT ![n] = r]
    <3>1. r = [obj[n] EXCEPT !.state = "REJECTED"]
      BY <1>3, <2>1, HeapFacts DEF Object
    <3> QED
      BY <1>4, <3>1 DEF Throw
  <2>4. stack' = Append(Below, Settle(n, 0, FALSE)) /\ UNCHANGED <<cut, lost>>
    BY <1>4 DEF Throw
  <2> HIDE DEF r, n
  <2>5. ObjectChanged(obj, obj', n, r)
    BY <1>3, <2>1, <2>2, <2>3, OneChanged DEF SettledAs
  <2>6. RejectsBut(obj, Below, cut, n, "REJECTED")
    BY <1>2 DEF RejectsBut
  <2>7. 0 \in 0 .. Len(obj)
    BY <1>3
  <2>8. \A m \in cut \cup lost : m \in cut \/ m \in lost \/ m = n
    OBVIOUS
  <2> QED
    BY <1>2, <1>4, <2>1, <2>2, <2>4, <2>5, <2>6, <2>7, <2>8, SettleInv
<1>5. CASE ~(n # 0 /\ obj[n].state = "PENDING")
  <2>1. Raise(Below)
    BY <1>5 DEF Throw
  <2> QED
    BY <1>2, <2>1, RaiseInv
<1> QED
  BY <1>4, <1>5

\* The value of a settlement and the functions in the slots of its promise.
LEMMA SettlementFacts ==
    ASSUME IInv, Top.kind = "settle"
    PROVE  /\ HeapOK(obj) /\ StackOK(obj, stack) /\ RejectsFrom(obj, stack, cut)
           /\ Top.p \in DOMAIN obj /\ Top.step \in 1 .. 4
           /\ Top.value \in 0 .. Len(obj) /\ Top.gives \in BOOLEAN
           /\ obj[Top.p].next \in 0 .. Len(obj)
           /\ obj[Top.p].state = "FULFILLED" /\ Top.step < 4 =>
                 /\ FnAt(Top) \in Fn /\ Resolves(FnAt(Top)) \subseteq DOMAIN obj
<1>1. HeapOK(obj) /\ StackOK(obj, stack) /\ RejectsFrom(obj, stack, cut)
  BY DEF IInv
<1>2. FrameOK(obj, Top)
  BY <1>1, StackFacts DEF Top
<1>3. Top \in SettleFrame /\ Top.p \in DOMAIN obj /\ Top.value <= Len(obj)
  BY <1>2, FrameFacts DEF FrameOK
<1>4. Top.step \in 1 .. 4 /\ Top.value \in 0 .. Len(obj) /\ Top.gives \in BOOLEAN
  <2>1. Top.step \in 1 .. 4 /\ Top.value \in Nat /\ Top.gives \in BOOLEAN
    BY <1>3, FrameFacts
  <2> QED
    BY <1>1, <1>3, <2>1, HeapFacts
<1>5. /\ obj[Top.p].next \in 0 .. Len(obj)
      /\ obj[Top.p].next # 0 => obj[Top.p].next \in DOMAIN obj
      /\ obj[Top.p].onFullfilled \in Fn /\ obj[Top.p].onFinaled \in Fn
      /\ Len(obj) \in Nat
  BY <1>1, <1>3, HeapFacts
<1>6. ASSUME obj[Top.p].state = "FULFILLED", Top.step < 4
      PROVE  FnAt(Top) \in Fn /\ Resolves(FnAt(Top)) \subseteq DOMAIN obj
  <2>1. CASE Top.step = 3
    <3>1. NoFn \in Fn /\ \A n \in Nat : ResolveOf(n) \in Fn
      BY DEF NoFn, ResolveOf, Fn
    <3>2. FnAt(Top) = IF obj[Top.p].next = 0 THEN NoFn ELSE ResolveOf(obj[Top.p].next)
      BY <2>1 DEF FnAt
    <3> QED
      BY <1>5, <3>1, <3>2 DEF Resolves, ResolveOf, NoFn
  <2>2. CASE Top.step # 3
    <3>1. FnAt(Top) \in {obj[Top.p].onFullfilled, obj[Top.p].onFinaled}
      BY <1>4, <1>6, <2>2 DEF FnAt
    <3> QED
      BY <1>1, <1>3, <1>5, <3>1 DEF HeapOK, Resolves
  <2> QED
    BY <2>1, <2>2
<1> QED
  BY <1>1, <1>3, <1>4, <1>5, <1>6

LEMMA StepCallResolve ==
    ASSUME IInv, CallResolve
    PROVE  IInv' /\ Keeps(obj, obj')
<1> DEFINE n == FnAt(Top).n
           v == obj[n].value
           r == [obj[n] EXCEPT !.state = "FULFILLED", !.value = v]
<1>1. /\ Top.kind = "settle" /\ Top.step \in {1, 3} /\ obj[Top.p].state = "FULFILLED"
      /\ FnAt(Top).kind = "resolve" /\ Resolves(FnAt(Top)) = {n}
  BY DEF CallResolve, InSettle, Resolves
<1>2. /\ HeapOK(obj) /\ StackOK(obj, stack) /\ RejectsFrom(obj, stack, cut)
      /\ n \in DOMAIN obj
  BY <1>1, SettlementFacts
<1>3. /\ StackOK(obj, Advanced) /\ Quiet(Advanced) /\ RejectsFrom(obj, Advanced, cut)
      /\ FulfilsFrom(obj, Advanced, cut \cup lost \cup {n})
  BY <1>1, InSettlement
<1>4. CASE obj[n].state = "PENDING"
  <2>1. SettledAs(obj, n, r, "FULFILLED") /\ 0 \in 0 .. Len(obj)
    <3>1. v \in 0 .. Len(obj) /\ 0 \in 0 .. Len(obj)
      BY <1>2, HeapFacts
    <3> HIDE DEF v, n
    <3> QED
      BY <1>2, <3>1, SettledObject
  <2>2. obj' = [obj EXCEPT ![n] = r]
    <3>1. r = [obj[n] EXCEPT !.state = "FULFILLED"]
      BY <1>2, HeapFacts DEF Object
    <3> QED
      BY <1>4, <3>1 DEF CallResolve
  <2>3. stack' = Append(Advanced, Settle(n, 0, FALSE)) /\ UNCHANGED <<cut, lost>>
    BY <1>4 DEF CallResolve
  <2> HIDE DEF r, n
  <2>4. ObjectChanged(obj, obj', n, r)
    BY <1>2, <2>1, <2>2, OneChanged DEF SettledAs
  <2>5. RejectsBut(obj, Advanced, cut, n, "FULFILLED")
    BY <1>3 DEF RejectsBut
  <2>6. \A m \in cut \cup lost \cup {n} : m \in cut \/ m \in lost \/ m = n
    OBVIOUS
  <2> QED
    BY <1>2, <1>3, <1>4, <2>1, <2>3, <2>4, <2>5, <2>6, SettleInv
<1>5. CASE obj[n].state # "PENDING"
  <2>1. Raise(stack)
    BY <1>5 DEF CallResolve
  <2>2. \A m \in Hand(obj, stack) : m = n
    <3>1. CASE Top.step = 1
      <4>1. FnAt(Top) = obj[Top.p].onFullfilled
        BY <1>1, <3>1 DEF FnAt
      <4> QED
        BY <4>1 DEF Hand, Top
    <3>2. CASE Top.step = 3
      BY <3>2 DEF Hand, Top
    <3> QED
      BY <1>1, <3>1, <3>2
  <2>3. FulfilsFrom(obj, stack, cut \cup lost \cup Hand(obj, stack))
    BY DEF IInv
  <2>4. FulfilsFrom(obj, stack, cut \cup lost)
    BY <1>5, <2>2, <2>3 DEF FulfilsFrom
  <2> QED
    BY <1>2, <2>1, <2>4, RaiseInv
<1> QED
  BY <1>4, <1>5

LEMMA StepRejectNext ==
    ASSUME IInv, RejectNext
    PROVE  IInv' /\ Keeps(obj, obj')
<1> DEFINE n == obj[Top.p].next
           v == obj[n].value
           r == [obj[n] EXCEPT !.state = "REJECTED", !.value = v]
<1>1. /\ Top.kind = "settle" /\ Top.step = 3 /\ n # 0
      /\ Resolves(FnAt(Top)) = {n}
  BY DEF RejectNext, InSettle, Resolves, FnAt, ResolveOf
<1>2. /\ HeapOK(obj) /\ StackOK(obj, stack) /\ RejectsFrom(obj, stack, cut)
      /\ n \in DOMAIN obj
  BY <1>1, SettlementFacts, HeapFacts
<1>3. /\ StackOK(obj, Advanced) /\ Quiet(Advanced) /\ RejectsFrom(obj, Advanced, cut \cup {n})
      /\ FulfilsFrom(obj, Advanced, cut \cup lost \cup {n})
  BY <1>1, InSettlement
<1>4. CASE obj[n].state = "PENDING"
  <2>1. SettledAs(obj, n, r, "REJECTED") /\ 0 \in 0 .. Len(obj)
    <3>1. v \in 0 .. Len(obj) /\ 0 \in 0 .. Len(obj)
      BY <1>2, HeapFacts
    <3> HIDE DEF v, n
    <3> QED
      BY <1>2, <3>1, SettledObject
  <2>2. obj' = [obj EXCEPT ![n] = r]
    <3>1. r = [obj[n] EXCEPT !.state = "REJECTED"]
      BY <1>2, HeapFacts DEF Object
    <3> QED
      BY <1>4, <3>1 DEF RejectNext
  <2>3. stack' = Append(Advanced, Settle(n, 0, FALSE)) /\ UNCHANGED <<cut, lost>>
    BY <1>4 DEF RejectNext
  <2> HIDE DEF r, n
  <2>4. ObjectChanged(obj, obj', n, r)
    BY <1>2, <2>1, <2>2, OneChanged DEF SettledAs
  <2>5. RejectsBut(obj, Advanced, cut, n, "REJECTED")
    BY <1>3 DEF RejectsBut
  <2>6. \A m \in cut \cup lost \cup {n} : m \in cut \/ m \in lost \/ m = n
    OBVIOUS
  <2> QED
    BY <1>2, <1>3, <1>4, <2>1, <2>3, <2>4, <2>5, <2>6, SettleInv
<1>5. CASE obj[n].state # "PENDING"
  <2>1. Raise(stack)
    BY <1>5 DEF RejectNext
  <2>2. Hand(obj, stack) = {}
    BY <1>1 DEF Hand, Top
  <2>3. FulfilsFrom(obj, stack, cut \cup lost)
    BY <2>2 DEF IInv
  <2> QED
    BY <1>2, <2>1, <2>3, RaiseInv
<1> QED
  BY <1>4, <1>5

LEMMA StepAdopt ==
    ASSUME IInv, Adopt
    PROVE  IInv' /\ Keeps(obj, obj')
<1> DEFINE g == [FnAt(Top) EXCEPT !.void = TRUE]
           given == [slot \in {"onFullfilled"} |-> g]
           ful == cut \cup lost \cup Resolves(FnAt(Top))
<1>1. /\ Top.kind = "settle" /\ Top.step \in {1, 2, 3} /\ obj[Top.p].state = "FULFILLED"
      /\ Top.value # 0 /\ CallThen(Top.value, given, Advanced)
  BY DEF Adopt, InSettle
<1>2. /\ Top.value \in DOMAIN obj
      /\ FnAt(Top) \in Fn /\ Resolves(FnAt(Top)) \subseteq DOMAIN obj
  <2>1. HeapOK(obj) /\ Top.value \in 0 .. Len(obj)
    BY <1>1, SettlementFacts
  <2>2. DOMAIN obj = 1 .. Len(obj) /\ Len(obj) \in Nat
    BY <2>1, HeapFacts
  <2> QED
    BY <1>1, <2>1, <2>2, SettlementFacts
<1>3. /\ StackOK(obj, Advanced) /\ Quiet(Advanced) /\ RejectsFrom(obj, Advanced, cut)
      /\ FulfilsFrom(obj, Advanced, ful)
  BY <1>1, InSettlement
<1>4. g \in Fn /\ g.kind = FnAt(Top).kind /\ g.n = FnAt(Top).n
  BY <1>2 DEF Fn
<1>5. /\ DOMAIN given \subseteq Slots /\ "onFullfilled" \in DOMAIN given
      /\ given["onFullfilled"] = g /\ \A x \in DOMAIN given : given[x] = g
  BY DEF Slots
<1>6. Resolves(g) \subseteq DOMAIN obj /\ HandsOver(ful, cut \cup lost, g)
  BY <1>2, <1>4 DEF Resolves, HandsOver
<1> HIDE DEF g, given, ful
<1> QED
  BY <1>1, <1>2, <1>3, <1>4, <1>5, <1>6, CallThenInv

\* A settlement that returns has come to the next promise.
LEMMA StepFinish ==
    ASSUME IInv, Finish
    PROVE  IInv' /\ Keeps(obj, obj')
<1> DEFINE m == Len(stack) - 1
           v == IF Top.gives THEN obj[Top.p].next ELSE 0
<1>1. /\ Top.kind = "settle" /\ Top.step = 4 /\ stack' = Returned(Below, v)
      /\ UNCHANGED <<obj, cut, lost>>
  BY DEF Finish
<1>2. /\ HeapOK(obj) /\ StackOK(obj, stack) /\ RejectsFrom(obj, stack, cut)
      /\ Len(obj) \in Nat /\ Len(obj) <= MaxPromises /\ v \in 0 .. Len(obj)
  <2>1. /\ HeapOK(obj) /\ StackOK(obj, stack) /\ RejectsFrom(obj, stack, cut)
        /\ obj[Top.p].next \in 0 .. Len(obj)
    BY <1>1, SettlementFacts
  <2> QED
    BY <2>1, HeapFacts DEF HeapOK
<1>3. /\ m \in 1 .. Len(stack) /\ m < Len(stack) /\ Below = SubSeq(stack, 1, m)
      /\ \A i \in m + 1 .. Len(stack) : i = Len(stack)
  <2>1. Len(stack) \in Nat /\ Len(stack) > 0
    BY <1>2, StackFacts
  <2>2. Len(stack) # 1
    <3>1. stack[1].kind = "user"
      BY <1>2 DEF StackOK
    <3> QED
      BY <1>1, <3>1 DEF Top
  <2>3. Below = SubSeq(stack, 1, m)
    BY DEF Below
  <2>4. /\ m \in 1 .. Len(stack) /\ m < Len(stack)
        /\ \A i \in m + 1 .. Len(stack) : i = Len(stack)
    BY <2>1, <2>2
  <2> QED
    BY <2>3, <2>4
<1> HIDE DEF m, v
<1>4. /\ StackOK(obj, SubSeq(stack, 1, m))
      /\ \A p : Reaches(stack, p) =>
            \/ Reaches(SubSeq(stack, 1, m), p)
            \/ \E i \in m + 1 .. Len(stack) :
                  stack[i].kind = "settle" /\ stack[i].p = p /\ stack[i].step <= 3
  BY <1>2, <1>3, Popped
<1>5. StackOK(obj, Below) /\ \A p : Reaches(stack, p) => Reaches(Below, p)
  BY <1>1, <1>3, <1>4 DEF Top
<1>6. StackOK(obj, stack') /\ \A p : Reaches(Below, p) => Reaches(stack', p)
  BY <1>1, <1>2, <1>5, ReturnedInto
<1>7. FulfilsFrom(obj, stack, cut \cup lost)
  <2>1. Hand(obj, stack) = {}
    BY <1>1 DEF Hand, Top
  <2> QED
    BY <2>1 DEF IInv
<1> QED
  BY <1>1, <1>2, <1>5, <1>6, <1>7, MoveInv

-----------------------------------------------------------------------------
(* The theorems. *)

LEMMA InvInit == Init => IInv
<1> SUFFICES ASSUME Init PROVE IInv
  OBVIOUS
<1> DEFINE f == [kind |-> "user", exec |-> 0, void |-> FALSE]
<1>1. obj = <<>> /\ stack = <<f>> /\ cut = {} /\ lost = {}
  BY DEF Init
<1>2. HeapOK(obj) /\ DOMAIN obj = {} /\ Len(obj) = 0
  BY <1>1, BoundsAssumption DEF HeapOK
<1>3. FrameOK(obj, f)
  <2>1. 0 \in Value /\ 0 <= Len(obj)
    BY <1>2, BoundsAssumption DEF Value
  <2> QED
    BY <2>1, UserFrameOK
<1>4. f.kind = "user"
  OBVIOUS
<1> HIDE DEF f
<1>5. StackOK(obj, stack)
  <2>1. f \in Frame
    BY <1>3 DEF FrameOK
  <2> QED
    BY <1>1, <1>3, <1>4, <2>1 DEF StackOK
<1> QED
  BY <1>1, <1>2, <1>5 DEF IInv, HistoryOK, RejectsFrom, FulfilsFrom

LEMMA InvNext ==
    ASSUME IInv, [Next]_vars
    PROVE  IInv' /\ Keeps(obj, obj')
<1>1. CASE UNCHANGED vars
  <2>1. Keeps(obj, obj)
    BY HeapFacts DEF IInv, Keeps
  <2> QED
    BY <1>1, <2>1 DEF vars, IInv, HeapOK, StackOK, HistoryOK, RejectsFrom, FulfilsFrom,
                      FrameOK, Hand, Reaches, Waits
<1>2. ASSUME NEW b \in BOOLEAN, Construct(b) PROVE IInv' /\ Keeps(obj, obj')
  BY <1>2, StepConstruct
<1>3. ASSUME NEW p \in DOMAIN obj, NEW form \in Forms, Then(p, form)
      PROVE  IInv' /\ Keeps(obj, obj')
  BY <1>3, StepThen
<1>4. ASSUME NEW p \in DOMAIN obj, NEW v \in 0 .. Len(obj), Resolve(p, v)
      PROVE  IInv' /\ Keeps(obj, obj')
  BY <1>4, StepResolve
<1>5. ASSUME NEW p \in DOMAIN obj, Reject(p) PROVE IInv' /\ Keeps(obj, obj')
  BY <1>5, StepReject
<1>6. ASSUME NEW v \in 0 .. Len(obj), Return(v) PROVE IInv' /\ Keeps(obj, obj')
  BY <1>6, StepReturn
<1>7. CASE Throw
  BY <1>7, StepThrow
<1>8. CASE SkipStep
  BY <1>8, StepSkip
<1>9. CASE CallUser
  BY <1>9, StepCallUser
<1>10. CASE CallResolve
  BY <1>10, StepCallResolve
<1>11. CASE RejectNext
  BY <1>11, StepRejectNext
<1>12. CASE Adopt
  BY <1>12, StepAdopt
<1>13. CASE Finish
  BY <1>13, StepFinish
<1> QED
  BY <1>1, <1>2, <1>3, <1>4, <1>5, <1>6, <1>7, <1>8, <1>9, <1>10, <1>11, <1>12, <1>13
  DEF Next

\* A settlement that has not come to the next promise is on the call stack, or
\* its function is in a slot that will be called, or an exception cut it off.
THEOREM Invariance == Spec => []IInv
<1>1. IInv /\ [Next]_vars => IInv'
  BY InvNext
<1> QED
  BY InvInit, <1>1, PTL DEF Spec

LEMMA TypesFromInv == IInv => TypeOK
<1> SUFFICES ASSUME IInv PROVE TypeOK
  OBVIOUS
<1>1. HeapOK(obj) /\ StackOK(obj, stack) /\ HistoryOK
  BY DEF IInv
<1>2. \A i \in DOMAIN stack :
        stack[i].kind \in {"user", "settle"} => stack[i] \in UserFrame \cup SettleFrame
  BY <1>1, FrameFacts, StackFacts
<1> QED
  BY <1>1, <1>2 DEF TypeOK, HeapOK, HistoryOK

\* At rest the invariant says that every settlement went down its chain.
LEMMA ChainsFromInv == IInv => ChainsSettle
<1> SUFFICES ASSUME IInv PROVE ChainsSettle
  OBVIOUS
<1>1. StackOK(obj, stack) /\ RejectsFrom(obj, stack, cut)
  BY DEF IInv
<1>2. ASSUME Idle
      PROVE  (\A p : ~Reaches(stack, p)) /\ FulfilsFrom(obj, stack, cut \cup lost)
  <2>1. stack[1].kind = "user" /\ Len(stack) = 1 /\ DOMAIN stack = 1 .. Len(stack)
    BY <1>1, <1>2, StackFacts DEF StackOK, Idle
  <2>2. \A p : ~Reaches(stack, p)
    BY <2>1 DEF Reaches
  <2>3. Hand(obj, stack) = {}
    BY <2>1 DEF Hand
  <2> QED
    BY <2>2, <2>3 DEF IInv
<1>3. ASSUME Idle, NEW p \in DOMAIN obj, obj[p].state = "REJECTED",
             obj[p].next \notin cut \cup {0}
      PROVE  obj[obj[p].next].state = "REJECTED"
  BY <1>1, <1>2, <1>3 DEF RejectsFrom
<1>4. ASSUME Idle, NEW p \in DOMAIN obj, obj[p].state = "FULFILLED", obj[p].next # 0,
             obj[obj[p].next].state = "PENDING"
      PROVE  obj[p].next \in cut \cup lost \/ Waits(obj, obj[p].next)
  BY <1>2, <1>4 DEF FulfilsFrom
<1> QED
  BY <1>3, <1>4, TypesFromInv DEF ChainsSettle, Waits

\* At rest every settlement has gone down its chain: the promise chained last
\* to a settled one is settled too, but for the exceptions that ChainsSettle
\* names.  So settleFullfill and settleReject lose no chain, whatever the
\* handlers do.
THEOREM ChainsDoSettle == Spec => []ChainsSettle
  BY Invariance, ChainsFromInv, PTL

\* A promise settles once: no sequence of calls, whatever handlers it runs,
\* changes the state or the value of a settled promise.
THEOREM SettlesOnce == Spec => SettledForGood
<1>1. IInv /\ [Next]_vars =>
        [\A p \in DOMAIN obj :
            obj[p].state # "PENDING" =>
                /\ obj'[p].state = obj[p].state
                /\ obj'[p].value = obj[p].value]_vars
  BY InvNext DEF Keeps
<1> QED
  BY Invariance, <1>1, PTL DEF Spec, SettledForGood

-----------------------------------------------------------------------------
(* all(), race() and async: what a step does to the call stack.            *)

\* Frame f goes on as h.
Similar(f, h) ==
    /\ h.kind = f.kind
    /\ f.kind \in {"user", "generator"} => h = f
    /\ f.kind = "settle" => h.p = f.p /\ h.gives = f.gives
    /\ f.kind = "combine" => h.c = f.c /\ (f.i # 0 => h.i # 0)
    /\ f.kind = "drive" => h.g = f.g

\* t is the frames up to m, the innermost of which has gone on, and at most
\* one more.
Goes(t, m) ==
    /\ m \in 1 .. Len(stack) /\ Len(t) \in {m, m + 1} /\ DOMAIN t = 1 .. Len(t)
    /\ \A j \in 1 .. m : j # m => t[j] = stack[j]
    /\ Similar(stack[m], t[m])

Rest(t, m) == Goes(t, m) /\ Len(t) = m

LEMMA GoesFacts ==
    ASSUME NEW t, NEW m, Goes(t, m), Len(stack) \in Nat
    PROVE  /\ m \in 1 .. Len(stack) /\ m \in Nat /\ m \in 1 .. m
           /\ Len(t) \in Nat /\ Len(t) > 0 /\ m \in 1 .. Len(t)
           /\ Len(t) = m \/ Len(t) = m + 1
           /\ DOMAIN t = 1 .. Len(t)
           /\ \A j \in 1 .. m : j # m => t[j] = stack[j]
           /\ \A j \in 1 .. m : Similar(stack[j], t[j])
           /\ \A j \in 1 .. m : j \in 1 .. Len(stack) /\ j \in 1 .. Len(t)
           /\ \A j \in 1 .. Len(t) : j \in 1 .. m \/ (j = m + 1 /\ Len(t) = m + 1)
           /\ \A j \in 1 .. Len(stack) : j \in 1 .. m \/ j > m
<1>1. m \in 1 .. Len(stack) /\ (Len(t) = m \/ Len(t) = m + 1)
  BY DEF Goes
<1>2. /\ m \in Nat /\ m \in 1 .. m
      /\ Len(t) \in Nat /\ Len(t) > 0 /\ m \in 1 .. Len(t)
  BY <1>1
<1>3. /\ \A j \in 1 .. m : j \in 1 .. Len(stack) /\ j \in 1 .. Len(t)
      /\ \A j \in 1 .. Len(t) : j \in 1 .. m \/ (j = m + 1 /\ Len(t) = m + 1)
      /\ \A j \in 1 .. Len(stack) : j \in 1 .. m \/ j > m
  BY <1>1
<1>4. /\ DOMAIN t = 1 .. Len(t) /\ Similar(stack[m], t[m])
      /\ \A j \in 1 .. m : j # m => t[j] = stack[j]
  BY DEF Goes
<1>5. \A f : Similar(f, f)
  BY DEF Similar
<1>6. \A j \in 1 .. m : Similar(stack[j], t[j])
  BY <1>4, <1>5
<1> QED
  BY <1>1, <1>2, <1>3, <1>4, <1>6

LEMMA RestStack ==
    ASSUME NEW o, StackOK(o, stack)
    PROVE  Rest(stack, Len(stack))
  BY StackFacts DEF Rest, Goes, Similar

LEMMA RestBelow ==
    ASSUME NEW o, StackOK(o, stack), Len(stack) > 1
    PROVE  /\ Rest(Below, Len(stack) - 1)
           /\ Below[Len(stack) - 1] = stack[Len(stack) - 1]
<1> DEFINE m == Len(stack) - 1
<1>1. m \in 1 .. Len(stack) /\ Below = SubSeq(stack, 1, m) /\ m \in 1 .. m /\ m \in Nat
  BY StackFacts DEF Below
<1> HIDE DEF m
<1>2. /\ StackOK(o, SubSeq(stack, 1, m)) /\ Len(SubSeq(stack, 1, m)) = m
      /\ \A i \in 1 .. m : SubSeq(stack, 1, m)[i] = stack[i]
  BY <1>1, Popped
<1>3. DOMAIN SubSeq(stack, 1, m) = 1 .. m
  BY <1>2, StackFacts
<1>4. Rest(Below, m) /\ Below[m] = stack[m]
  BY <1>1, <1>2, <1>3 DEF Rest, Goes, Similar
<1> QED
  BY <1>4 DEF m

LEMMA RestTop ==
    ASSUME NEW o, StackOK(o, stack), NEW f, Similar(Top, f),
           NEW t, t = [stack EXCEPT ![Len(stack)] = f]
    PROVE  Rest(t, Len(stack)) /\ t[Len(stack)] = f
<1>1. /\ stack \in Seq(Frame) /\ Len(stack) \in Nat /\ Len(stack) > 0
      /\ DOMAIN stack = 1 .. Len(stack)
  BY StackFacts
<1>2. /\ DOMAIN t = DOMAIN stack /\ t[Len(stack)] = f
      /\ \A j \in DOMAIN stack : j # Len(stack) => t[j] = stack[j]
  BY <1>1
<1>3. Len(t) = Len(stack)
  BY <1>1
<1>4. Len(stack) \in 1 .. Len(stack) /\ Len(t) \in {Len(stack), Len(stack) + 1}
  BY <1>1, <1>3
<1> QED
  BY <1>1, <1>2, <1>3, <1>4 DEF Rest, Goes, Top

LEMMA RestAdvanced ==
    ASSUME NEW o, StackOK(o, stack), Top.kind = "settle", Top.step < 4
    PROVE  /\ Rest(Advanced, Len(stack))
           /\ Advanced[Len(stack)] = [Top EXCEPT !.step = @ + 1]
<1> DEFINE f == [Top EXCEPT !.step = @ + 1]
           t == Advanced
<1>1. FrameOK(o, Top) /\ Top \in SettleFrame
  BY StackFacts, FrameFacts DEF Top, FrameOK
<1>2. f.kind = "settle" /\ f.p = Top.p /\ f.gives = Top.gives
  BY <1>1 DEF SettleFrame
<1>3. t = [stack EXCEPT ![Len(stack)] = f]
  BY DEF Advanced, Top
<1> HIDE DEF f, t
<1>4. Similar(Top, f)
  BY <1>2 DEF Similar
<1>5. Rest(t, Len(stack)) /\ t[Len(stack)] = f
  BY <1>3, <1>4, RestTop
<1> QED
  BY <1>5 DEF f, t

LEMMA GoesPush ==
    ASSUME NEW s \in Seq(Frame), NEW m, Rest(s, m), NEW f \in Frame
    PROVE  /\ Goes(Append(s, f), m) /\ Len(Append(s, f)) = m + 1
           /\ Append(s, f)[m] = s[m] /\ Append(s, f)[m + 1] = f
<1> DEFINE t == Append(s, f)
<1>1. /\ m \in 1 .. Len(stack) /\ Len(s) = m /\ DOMAIN s = 1 .. m /\ m \in Nat
      /\ \A j \in 1 .. m : j # m => s[j] = stack[j]
      /\ Similar(stack[m], s[m])
  BY DEF Rest, Goes
<1>2. /\ Len(t) = m + 1 /\ DOMAIN t = 1 .. m + 1 /\ t[m + 1] = f
      /\ \A j \in 1 .. m : t[j] = s[j]
  BY <1>1
<1>3. m \in 1 .. m
  BY <1>1
<1>4. /\ Len(t) \in {m, m + 1} /\ DOMAIN t = 1 .. Len(t)
      /\ \A j \in 1 .. m : j # m => t[j] = stack[j]
      /\ t[m] = s[m]
  BY <1>1, <1>2, <1>3
<1>5. Goes(t, m)
  BY <1>1, <1>4 DEF Goes
<1> QED
  BY <1>2, <1>4, <1>5

LEMMA GoesReturn ==
    ASSUME NEW s \in Seq(Frame), NEW m, Rest(s, m), NEW v, NEW t, t = Returned(s, v)
    PROVE  /\ Rest(t, m)
           /\ s[m].kind \notin {"settle", "combine"} => t = s
           /\ s[m].kind = "settle" => t[m] = s[m] \/ t[m] = [s[m] EXCEPT !.value = v]
           /\ s[m].kind = "combine" => t[m] = [s[m] EXCEPT !.got = v]
<1> DEFINE f == s[m]
           g == [f EXCEPT !.value = v]
           h == [f EXCEPT !.got = v]
<1>1. /\ m \in 1 .. Len(stack) /\ Len(s) = m /\ DOMAIN s = 1 .. m /\ m \in Nat
      /\ \A j \in 1 .. m : j # m => s[j] = stack[j]
      /\ Similar(stack[m], s[m]) /\ m \in 1 .. m /\ f \in Frame
  BY DEF Rest, Goes
<1>2. \/ t = s /\ f.kind # "combine"
      \/ f.kind = "settle" /\ t = [s EXCEPT ![m] = g]
      \/ f.kind = "combine" /\ t = [s EXCEPT ![m] = h]
  BY <1>1 DEF Returned
<1>3. CASE t = s /\ f.kind # "combine"
  BY <1>1, <1>3 DEF Rest, Goes
<1>4. CASE f.kind = "settle" /\ t = [s EXCEPT ![m] = g]
  <2>1. f \in SettleFrame
    BY <1>1, <1>4, FrameFacts
  <2>2. g.kind = "settle" /\ g.p = f.p /\ g.gives = f.gives
    BY <2>1 DEF SettleFrame
  <2>3. Similar(stack[m], g)
    BY <1>1, <1>4, <2>2 DEF Similar
  <2> HIDE DEF g
  <2>4. Len(t) = m /\ DOMAIN t = 1 .. m /\ t[m] = g /\ \A j \in 1 .. m : j # m => t[j] = s[j]
    BY <1>1, <1>4
  <2>5. Rest(t, m)
    BY <1>1, <2>3, <2>4 DEF Rest, Goes
  <2> QED
    BY <1>4, <2>4, <2>5 DEF g
<1>5. CASE f.kind = "combine" /\ t = [s EXCEPT ![m] = h]
  <2>1. f \in CombineFrame
    BY <1>1, <1>5, FrameFacts
  <2>2. h.kind = "combine" /\ h.c = f.c /\ h.i = f.i
    BY <2>1 DEF CombineFrame
  <2>3. Similar(stack[m], h)
    BY <1>1, <1>5, <2>2 DEF Similar
  <2> HIDE DEF h
  <2>4. Len(t) = m /\ DOMAIN t = 1 .. m /\ t[m] = h /\ \A j \in 1 .. m : j # m => t[j] = s[j]
    BY <1>1, <1>5
  <2>5. Rest(t, m)
    BY <1>1, <2>3, <2>4 DEF Rest, Goes
  <2> QED
    BY <1>5, <2>4, <2>5 DEF h
<1> QED
  BY <1>2, <1>3, <1>4, <1>5

\* An exception that leaves the frames s, which end at m, surfaces in n.
LEMMA GoesRaise ==
    ASSUME NEW s, StackOK(obj, s), NEW m, Rest(s, m), Raise(s)
    PROVE  \E n \in 1 .. m :
              /\ Rest(stack', n) /\ stack'[n].kind \in {"user", "generator", "combine"}
              /\ stack'[n].kind = "combine" => stack'[n].at = "caught"
              /\ \A j \in 1 .. m : j > n => s[j].kind \in {"settle", "drive"}
<1>1. PICK n : RaisedTo(s, n)
  BY Raised
<1>2. /\ m \in 1 .. Len(stack) /\ Len(s) = m /\ DOMAIN s = 1 .. m /\ m \in Nat
      /\ \A j \in 1 .. m : j # m => s[j] = stack[j]
      /\ Similar(stack[m], s[m]) /\ m \in 1 .. m
  BY DEF Rest, Goes
<1>3. /\ n \in 1 .. m /\ Len(stack') = n /\ DOMAIN stack' = 1 .. n
      /\ \A i \in 1 .. n : i # n => stack'[i] = s[i]
      /\ s[n].kind \in {"user", "generator", "combine"} /\ stack'[n].kind = s[n].kind
      /\ s[n].kind # "combine" => stack'[n] = s[n]
      /\ s[n].kind = "combine" => stack'[n] = Caught(s[n])
  BY <1>1, <1>2, RaisedStack
<1>4. \A j \in 1 .. m : j > n => s[j].kind \in {"settle", "drive"}
  BY <1>1, <1>2, <1>3 DEF RaisedTo
<1>5. s[n] \in Frame
  BY <1>2, <1>3, StackFacts
<1>6. /\ Similar(s[n], stack'[n])
      /\ stack'[n].kind = "combine" => stack'[n].at = "caught"
  <2>1. CASE s[n].kind # "combine"
    BY <1>3, <2>1 DEF Similar
  <2>2. CASE s[n].kind = "combine"
    <3>1. s[n] \in CombineFrame
      BY <1>5, <2>2, FrameFacts
    <3>2. /\ Caught(s[n]).c = s[n].c /\ Caught(s[n]).i = s[n].i
          /\ Caught(s[n]).at = "caught"
      BY <3>1 DEF CombineFrame, Caught
    <3> QED
      BY <1>3, <2>2, <3>2 DEF Similar
  <2> QED
    BY <2>1, <2>2
<1>7. Similar(stack[n], stack'[n])
  <2>1. CASE n = m
    BY <1>2, <1>6, <2>1 DEF Similar
  <2>2. CASE n # m
    BY <1>2, <1>3, <1>6, <2>2
  <2> QED
    BY <2>1, <2>2
<1>8. Rest(stack', n)
  <2>1. n \in 1 .. Len(stack)
    BY <1>2, <1>3
  <2>2. \A j \in 1 .. n : j # n => stack'[j] = stack[j]
    BY <1>2, <1>3
  <2> QED
    BY <1>3, <1>7, <2>1, <2>2 DEF Rest, Goes
<1> QED
  BY <1>3, <1>4, <1>6, <1>8

-----------------------------------------------------------------------------
(* What holds of the frames that all(), race() and async add.              *)

Catching(f) == f.kind = "combine" /\ f.at = "catch"

\* Frames of one of c calls and g generators.
InLibrary(f, c, g) ==
    /\ f.kind = "combine" => f.c \in 1 .. c /\ f.i # 0
    /\ f.kind \in {"drive", "generator"} => f.g \in 1 .. g

\* f waits for then() of an input, which gives it a promise.
CatchOK(s, j) ==
    Catching(s[j]) => IF j = Len(s) THEN s[j].got # 0
                      ELSE s[j + 1].kind = "settle" /\ s[j + 1].gives

FramesOK(s, c, g) ==
    \A j \in DOMAIN s : InLibrary(s[j], c, g) /\ CatchOK(s, j)

\* A step that goes on at frame m.
FrameStep(m) ==
    /\ Goes(stack', m) /\ CatchOK(stack', m)
    /\ Len(stack') = m + 1 =>
          ~Catching(stack'[m + 1]) /\ InLibrary(stack'[m + 1], Len(calls'), Len(gens'))

\* What is in the library stays there.
Grows(s, t) ==
    /\ Len(s) \in Nat /\ Len(t) \in Nat /\ Len(s) <= Len(t)
    /\ DOMAIN s = 1 .. Len(s) /\ DOMAIN t = 1 .. Len(t)

LEMMA FramesNext ==
    ASSUME FramesOK(stack, Len(calls), Len(gens)), NEW m, FrameStep(m),
           Grows(calls, calls'), Grows(gens, gens'), Len(stack) \in Nat,
           DOMAIN stack = 1 .. Len(stack)
    PROVE  FramesOK(stack', Len(calls'), Len(gens'))
<1>1. /\ m \in 1 .. Len(stack) /\ m \in Nat /\ m \in 1 .. m
      /\ Len(stack') \in Nat /\ Len(stack') > 0 /\ m \in 1 .. Len(stack')
      /\ Len(stack') = m \/ Len(stack') = m + 1
      /\ DOMAIN stack' = 1 .. Len(stack')
      /\ \A j \in 1 .. m : j # m => stack'[j] = stack[j]
      /\ \A j \in 1 .. m : Similar(stack[j], stack'[j])
      /\ \A j \in 1 .. m : j \in 1 .. Len(stack) /\ j \in 1 .. Len(stack')
      /\ \A j \in 1 .. Len(stack') : j \in 1 .. m \/ (j = m + 1 /\ Len(stack') = m + 1)
      /\ \A j \in 1 .. Len(stack) : j \in 1 .. m \/ j > m
  BY GoesFacts DEF FrameStep
<1>2. \A f : InLibrary(f, Len(calls), Len(gens)) => InLibrary(f, Len(calls'), Len(gens'))
  BY DEF InLibrary, Grows
<1>3. \A j \in 1 .. m : Similar(stack[j], stack'[j])
  BY <1>1
<1>4. ASSUME NEW j \in 1 .. m PROVE InLibrary(stack'[j], Len(calls'), Len(gens'))
  <2>1. InLibrary(stack[j], Len(calls), Len(gens))
    BY <1>1 DEF FramesOK
  <2>2. InLibrary(stack'[j], Len(calls), Len(gens))
    BY <1>3, <2>1 DEF InLibrary, Similar
  <2> QED
    BY <1>2, <2>2
<1>5. ASSUME NEW j \in 1 .. m, j # m PROVE CatchOK(stack', j)
  <2>0. /\ j # Len(stack) /\ j # Len(stack') /\ j + 1 \in 1 .. m
    <3>1. /\ m \in 1 .. Len(stack) /\ m \in 1 .. Len(stack')
      BY <1>1
    <3>2. Len(stack) \in Nat /\ Len(stack') \in Nat /\ m \in Nat
      BY <1>1
    <3>3. j \in Nat /\ j < m /\ j + 1 \in 1 .. m
      BY <1>5, <3>2
    <3>4. m <= Len(stack) /\ m <= Len(stack')
      BY <3>1, <3>2
    <3>5. j < Len(stack) /\ j < Len(stack')
      BY <3>2, <3>3, <3>4
    <3>6. ~(Len(stack) < Len(stack)) /\ ~(Len(stack') < Len(stack'))
      BY <3>2
    <3>7. j # Len(stack) /\ j # Len(stack')
      BY <3>5, <3>6, Zenon
    <3> QED
      BY <3>3, <3>7
  <2>1. /\ j \in DOMAIN stack /\ j # Len(stack) /\ j # Len(stack')
        /\ stack'[j] = stack[j] /\ j + 1 \in 1 .. m
    BY <1>1, <1>5, <2>0
  <2>2. Similar(stack[j + 1], stack'[j + 1])
    BY <1>3, <2>1
  <2>3. CatchOK(stack, j)
    BY <2>1 DEF FramesOK
  <2> QED
    BY <2>1, <2>2, <2>3 DEF CatchOK, Similar
<1>6. \A j \in DOMAIN stack' : j \in 1 .. m \/ (j = m + 1 /\ Len(stack') = m + 1)
  BY <1>1
<1>7. Len(stack') = m + 1 => InLibrary(stack'[m + 1], Len(calls'), Len(gens'))
                             /\ CatchOK(stack', m + 1)
  BY DEF FrameStep, CatchOK
<1>8. CatchOK(stack', m)
  BY DEF FrameStep
<1> QED
  BY <1>4, <1>5, <1>6, <1>7, <1>8 DEF FramesOK

-----------------------------------------------------------------------------
(* The frames of generators. *)

\* Generator g is resumed by the frame on top of s.
Resuming(s, g) ==
    LET f == s[Len(s)] IN f.kind = "drive" /\ f.at \in {"look", "send"} /\ f.g = g

\* $asyncToGenerator calls its generator and looks what it yielded.
CallsGenerator(s, j) ==
    /\ s[j].kind = "drive" /\ s[j].at = "look" /\ j < Len(s) =>
          s[j + 1].kind = "generator" /\ s[j + 1].g = s[j].g
    /\ s[j].kind = "drive" /\ s[j].at = "send" => j = Len(s)
    /\ s[j].kind = "generator" =>
          /\ j > 1 /\ s[j - 1].kind = "drive" /\ s[j - 1].at = "look"
          /\ s[j - 1].g = s[j].g

\* The frame j is of a generator that runs, and runs nowhere else.
RunsOnce(s, gs, j) ==
    s[j].kind = "generator" =>
        /\ gs[s[j].g].state = "running"
        /\ \A i \in DOMAIN s : s[i].kind = "generator" /\ s[i].g = s[j].g => i = j

GeneratorOK(s, gs, g) ==
    /\ gs[g].state = "running" => \E j \in DOMAIN s : s[j].kind = "generator" /\ s[j].g = g
    /\ gs[g].state = "new" => Resuming(s, g)

DrivesOK(s, gs) ==
    /\ \A j \in DOMAIN s : CallsGenerator(s, j) /\ RunsOnce(s, gs, j)
    /\ \A g \in DOMAIN gs : GeneratorOK(s, gs, g)

\* A step that begins and ends no generator.
CalmStep(m) ==
    /\ Goes(stack', m)
    /\ \A j \in 1 .. Len(stack) : j > m => stack[j].kind # "generator"
    /\ stack[m].kind = "drive" =>
          (m < Len(stack) /\ stack'[m] = stack[m]) \/ stack'[m].at = "end"
    /\ Len(stack') = m + 1 => stack'[m + 1].kind \in {"user", "settle", "combine"}

\* Frames up to m are those of before, but for a drive frame that is over.
FramesStay(m) ==
    /\ \A j \in DOMAIN stack' : stack'[j].kind = "generator" =>
          /\ j \in DOMAIN stack /\ stack'[j] = stack[j] /\ j <= m
          /\ j > 1 /\ j - 1 \in DOMAIN stack' /\ stack'[j - 1] = stack[j - 1]
    /\ \A j \in DOMAIN stack : stack[j].kind = "generator" =>
          j \in DOMAIN stack' /\ stack'[j] = stack[j] /\ j <= m
    /\ \A j \in DOMAIN stack' : stack'[j].kind = "drive" /\ stack'[j].at # "end" =>
          j \in DOMAIN stack /\ stack'[j] = stack[j] /\ j < Len(stack)

LEMMA CalmFacts ==
    ASSUME DrivesOK(stack, gens), NEW m, CalmStep(m), Len(stack) \in Nat,
           DOMAIN stack = 1 .. Len(stack)
    PROVE  FramesStay(m)
<1>1. /\ m \in 1 .. Len(stack) /\ m \in Nat /\ m \in 1 .. m
      /\ Len(stack') \in Nat /\ Len(stack') > 0 /\ m \in 1 .. Len(stack')
      /\ Len(stack') = m \/ Len(stack') = m + 1
      /\ DOMAIN stack' = 1 .. Len(stack')
      /\ \A j \in 1 .. m : j # m => stack'[j] = stack[j]
      /\ \A j \in 1 .. m : Similar(stack[j], stack'[j])
      /\ \A j \in 1 .. m : j \in 1 .. Len(stack) /\ j \in 1 .. Len(stack')
      /\ \A j \in 1 .. Len(stack') : j \in 1 .. m \/ (j = m + 1 /\ Len(stack') = m + 1)
      /\ \A j \in 1 .. Len(stack) : j \in 1 .. m \/ j > m
  BY GoesFacts DEF CalmStep
<1>2. \A j \in DOMAIN stack' : j \in 1 .. m \/ (j = m + 1 /\ Len(stack') = m + 1)
  BY <1>1
<1>3. ASSUME NEW j \in DOMAIN stack', stack'[j].kind = "generator"
      PROVE  /\ j \in DOMAIN stack /\ stack'[j] = stack[j] /\ j <= m
             /\ j > 1 /\ j - 1 \in DOMAIN stack' /\ stack'[j - 1] = stack[j - 1]
  <2>1. j \in 1 .. m
    BY <1>2, <1>3 DEF CalmStep
  <2>2. stack'[j] = stack[j]
    BY <1>1, <1>3, <2>1 DEF Similar
  <2>3. CallsGenerator(stack, j)
    BY <1>1, <2>1 DEF DrivesOK
  <2>4. j > 1
    BY <1>3, <2>2, <2>3 DEF CallsGenerator
  <2>5. j - 1 \in 1 .. m /\ j - 1 # m /\ j <= m
    <3>1. m \in Nat
      BY <1>1
    <3> QED
      BY <2>1, <2>4, <3>1
  <2>6. j \in DOMAIN stack /\ j - 1 \in DOMAIN stack' /\ stack'[j - 1] = stack[j - 1]
    BY <1>1, <2>1, <2>5
  <2> QED
    BY <2>2, <2>4, <2>5, <2>6
<1>4. ASSUME NEW j \in DOMAIN stack, stack[j].kind = "generator"
      PROVE  j \in DOMAIN stack' /\ stack'[j] = stack[j] /\ j <= m
  <2>1. j \in 1 .. m
    BY <1>1, <1>4 DEF CalmStep
  <2>2. stack'[j] = stack[j]
    BY <1>1, <1>4, <2>1 DEF Similar
  <2>3. j <= m
    <3>1. m \in Nat
      BY <1>1
    <3> QED
      BY <2>1, <3>1
  <2>4. j \in DOMAIN stack'
    BY <1>1, <2>1
  <2> QED
    BY <2>2, <2>3, <2>4
<1>5. ASSUME NEW j \in DOMAIN stack', stack'[j].kind = "drive", stack'[j].at # "end"
      PROVE  j \in DOMAIN stack /\ stack'[j] = stack[j] /\ j < Len(stack)
  <2>1. j \in 1 .. m
    BY <1>2, <1>5 DEF CalmStep
  <2>2. CASE j # m
    BY <1>1, <2>1, <2>2
  <2>3. CASE j = m
    BY <1>1, <1>5, <2>3 DEF CalmStep, Similar
  <2> QED
    BY <2>2, <2>3
<1> QED
  BY <1>3, <1>4, <1>5 DEF FramesStay

\* No generator is resumed after it, and none is new.
LEMMA CalmDrives ==
    ASSUME DrivesOK(stack, gens), NEW m, CalmStep(m), Len(stack) \in Nat,
           DOMAIN stack = 1 .. Len(stack), gens' = gens,
           \A g \in DOMAIN gens : gens[g].state # "new"
    PROVE  DrivesOK(stack', gens') /\ \A g : ~Resuming(stack', g)
<1> USE DEF FramesStay
<1>1. FramesStay(m)
  BY CalmFacts
<1>2. /\ DOMAIN stack' = 1 .. Len(stack') /\ Len(stack') \in Nat
      /\ Len(stack') > 0 /\ m \in Nat /\ m \in 1 .. Len(stack)
  BY GoesFacts DEF CalmStep
<1>3. ASSUME NEW j \in DOMAIN stack', stack'[j].kind = "drive", stack'[j].at # "end"
      PROVE  /\ stack'[j].at = "look" => /\ j < Len(stack')
                                         /\ stack'[j + 1].kind = "generator"
                                         /\ stack'[j + 1].g = stack'[j].g
             /\ stack'[j].at # "send"
  <2>1. /\ j \in DOMAIN stack /\ stack'[j] = stack[j] /\ j < Len(stack)
        /\ j + 1 \in DOMAIN stack /\ j \in Nat /\ Len(stack) # j
    BY <1>1, <1>3
  <2>2. CallsGenerator(stack, j)
    BY <2>1 DEF DrivesOK
  <2>3. stack[j].at # "send"
    BY <1>3, <2>1, <2>2 DEF CallsGenerator
  <2>4. ASSUME stack[j].at = "look"
        PROVE  /\ stack[j + 1].kind = "generator" /\ stack[j + 1].g = stack[j].g
               /\ j + 1 \in DOMAIN stack' /\ stack'[j + 1] = stack[j + 1]
    <3>1. stack[j + 1].kind = "generator" /\ stack[j + 1].g = stack[j].g
      BY <1>3, <2>1, <2>2, <2>4 DEF CallsGenerator
    <3> QED
      BY <1>1, <2>1, <3>1
  <2>5. j + 1 \in DOMAIN stack' => j < Len(stack')
    BY <1>2, <2>1
  <2> QED
    BY <2>1, <2>3, <2>4, <2>5
<1>4. ASSUME NEW j \in DOMAIN stack' PROVE CallsGenerator(stack', j)
  <2>1. ASSUME stack'[j].kind = "generator"
        PROVE  /\ j > 1 /\ stack'[j - 1].kind = "drive" /\ stack'[j - 1].at = "look"
               /\ stack'[j - 1].g = stack'[j].g
    <3>1. j \in DOMAIN stack /\ CallsGenerator(stack, j)
      BY <1>1, <2>1 DEF DrivesOK
    <3> QED
      BY <1>1, <2>1, <3>1 DEF CallsGenerator
  <2>2. ASSUME stack'[j].kind = "drive", stack'[j].at = "look", j < Len(stack')
        PROVE  stack'[j + 1].kind = "generator" /\ stack'[j + 1].g = stack'[j].g
    BY <1>3, <2>2
  <2>3. ASSUME stack'[j].kind = "drive", stack'[j].at = "send" PROVE FALSE
    BY <1>3, <2>3
  <2> QED
    BY <2>1, <2>2, <2>3 DEF CallsGenerator
<1>5. ASSUME NEW j \in DOMAIN stack' PROVE RunsOnce(stack', gens', j)
  <2> SUFFICES ASSUME stack'[j].kind = "generator" PROVE RunsOnce(stack', gens', j)
    BY DEF RunsOnce
  <2>1. j \in DOMAIN stack /\ stack'[j] = stack[j] /\ RunsOnce(stack, gens, j)
    BY <1>1 DEF DrivesOK
  <2> QED
    BY <1>1, <2>1 DEF RunsOnce
<1>6. ASSUME NEW g \in DOMAIN gens PROVE GeneratorOK(stack', gens', g)
  <2>1. GeneratorOK(stack, gens, g)
    BY DEF DrivesOK
  <2> QED
    BY <1>1, <2>1 DEF GeneratorOK
<1>7. ASSUME NEW g PROVE ~Resuming(stack', g)
  <2>1. Len(stack') \in DOMAIN stack' /\ ~(Len(stack') < Len(stack'))
    BY <1>2
  <2>2. stack'[Len(stack')].kind = "drive" /\ stack'[Len(stack')].at # "end" =>
           stack'[Len(stack')].at \notin {"look", "send"}
    BY <1>3, <2>1
  <2> QED
    BY <2>2 DEF Resuming
<1> QED
  BY <1>4, <1>5, <1>6, <1>7 DEF DrivesOK

-----------------------------------------------------------------------------
(* What a step does to the heap, and the closures in the slots.            *)

Begins(s, q) ==
    LET f == s[Len(s)] IN f.kind = "settle" /\ f.p = q /\ f.step = 1

\* The function in a slot of p after then() was given functions.
Slot(q, p, given, x, f) == IF q = p /\ x \in DOMAIN given THEN given[x] ELSE f

\* The step calls then() of p with the functions given, or, when p is 0, no
\* then().  A promise that it settles begins its settlement.
HeapStep(p, given) ==
    /\ p = 0 \/ (p \in DOMAIN obj /\ Len(obj) + 1 \in DOMAIN obj')
    /\ \A q \in DOMAIN obj :
          /\ q \in DOMAIN obj' /\ q # 0 /\ q # Len(obj) + 1
          /\ obj'[q].state = obj[q].state \/ (obj[q].state = "PENDING" /\ Begins(stack', q))
          /\ obj'[q].onFullfilled = Slot(q, p, given, "onFullfilled", obj[q].onFullfilled)
          /\ obj'[q].onRejected = Slot(q, p, given, "onRejected", obj[q].onRejected)
          /\ obj'[q].onFinaled = Slot(q, p, given, "onFinaled", obj[q].onFinaled)
          /\ obj'[q].next = IF q = p THEN Len(obj) + 1 ELSE obj[q].next
          /\ q = p => \/ obj[q].state = "PENDING" /\ obj'[q].state = "PENDING"
                      \/ obj[q].state # "PENDING" /\ Begins(stack', q)
    /\ \A q \in DOMAIN obj' : q \in DOMAIN obj \/ (q = Len(obj) + 1 /\ obj'[q] = Fresh)

IsClosure(f, n) == f.kind = "library" /\ f.n = n

FulfilSlot(f, cs) == f.kind = "library" => f.n \in DOMAIN cs /\ cs[f.n].role # "reject"
RejectSlot(f, cs) ==
    /\ f.kind # "resolve"
    /\ f.kind = "library" => f.n \in DOMAIN cs /\ cs[f.n].role = "reject"
FinalSlot(f) == f.kind \in {"none", "user"}

\* The slots of each promise hold closures of the right kind.
SlotsOK(o, cs) ==
    \A q \in DOMAIN o : /\ FulfilSlot(o[q].onFullfilled, cs)
                        /\ RejectSlot(o[q].onRejected, cs) /\ FinalSlot(o[q].onFinaled)

GivenOK(given, cs) ==
    /\ "onFullfilled" \in DOMAIN given => FulfilSlot(given["onFullfilled"], cs)
    /\ "onRejected" \in DOMAIN given => RejectSlot(given["onRejected"], cs)
    /\ "onFinaled" \in DOMAIN given => FinalSlot(given["onFinaled"])

Extends(s, t) == Grows(s, t) /\ \A n \in DOMAIN s : t[n] = s[n]

LEMMA SlotsNext ==
    ASSUME SlotsOK(obj, closures), NEW p, NEW given, HeapStep(p, given),
           GivenOK(given, closures'), Extends(closures, closures')
    PROVE  SlotsOK(obj', closures')
<1>1. /\ \A f : FulfilSlot(f, closures) => FulfilSlot(f, closures')
      /\ \A f : RejectSlot(f, closures) => RejectSlot(f, closures')
  <2>1. \A n \in DOMAIN closures : n \in DOMAIN closures' /\ closures'[n] = closures[n]
    BY DEF Extends, Grows
  <2> QED
    BY <2>1 DEF FulfilSlot, RejectSlot
<1>2. ASSUME NEW q \in DOMAIN obj
      PROVE  /\ FulfilSlot(obj'[q].onFullfilled, closures')
             /\ RejectSlot(obj'[q].onRejected, closures') /\ FinalSlot(obj'[q].onFinaled)
  <2>1. /\ FulfilSlot(obj[q].onFullfilled, closures')
        /\ RejectSlot(obj[q].onRejected, closures') /\ FinalSlot(obj[q].onFinaled)
    BY <1>1 DEF SlotsOK
  <2>2. /\ obj'[q].onFullfilled = Slot(q, p, given, "onFullfilled", obj[q].onFullfilled)
        /\ obj'[q].onRejected = Slot(q, p, given, "onRejected", obj[q].onRejected)
        /\ obj'[q].onFinaled = Slot(q, p, given, "onFinaled", obj[q].onFinaled)
    BY DEF HeapStep
  <2>3. FulfilSlot(obj'[q].onFullfilled, closures')
    BY <2>1, <2>2 DEF Slot, GivenOK
  <2>4. RejectSlot(obj'[q].onRejected, closures')
    BY <2>1, <2>2 DEF Slot, GivenOK
  <2>5. FinalSlot(obj'[q].onFinaled)
    BY <2>1, <2>2 DEF Slot, GivenOK
  <2> QED
    BY <2>3, <2>4, <2>5
<1>3. /\ FulfilSlot(Fresh.onFullfilled, closures')
      /\ RejectSlot(Fresh.onRejected, closures') /\ FinalSlot(Fresh.onFinaled)
  BY DEF Fresh, NoFn, FulfilSlot, RejectSlot, FinalSlot
<1>4. \A q \in DOMAIN obj' : q \in DOMAIN obj \/ obj'[q] = Fresh
  BY DEF HeapStep
<1> QED
  BY <1>2, <1>3, <1>4 DEF SlotsOK

\* What then() takes from a slot is dropped.
LEMMA OverwrittenSlots ==
    ASSUME NEW q \in DOMAIN obj
    PROVE  /\ obj[q].onFullfilled.kind = "library" /\ obj'[q].onFullfilled # obj[q].onFullfilled
              => obj[q].onFullfilled.n \in Overwritten
           /\ obj[q].onRejected.kind = "library" /\ obj'[q].onRejected # obj[q].onRejected
              => obj[q].onRejected.n \in Overwritten
<1> DEFINE S(p) == {x \in {"onFullfilled", "onRejected", "onFinaled"} :
                       obj[p][x].kind = "library" /\ obj'[p][x] # obj[p][x]}
<1>1. \A x \in S(q) : obj[q][x].n \in Overwritten
  BY DEF Overwritten
<1> QED
  BY <1>1

LEMMA OverwrittenClosures ==
    ASSUME SlotsOK(obj, closures)
    PROVE  Overwritten \subseteq DOMAIN closures
<1> SUFFICES ASSUME NEW q \in DOMAIN obj,
                    NEW x \in {"onFullfilled", "onRejected", "onFinaled"},
                    obj[q][x].kind = "library"
             PROVE  obj[q][x].n \in DOMAIN closures
  BY DEF Overwritten
<1>1. /\ FulfilSlot(obj[q].onFullfilled, closures)
      /\ RejectSlot(obj[q].onRejected, closures) /\ FinalSlot(obj[q].onFinaled)
  BY DEF SlotsOK
<1> QED
  BY <1>1 DEF FulfilSlot, RejectSlot, FinalSlot

\* A settlement is about to call closure n.
Handing(o, s, n) == \E q \in DOMAIN o : Begins(s, q) /\ IsClosure(o[q].onFullfilled, n)

\* Closure n, which has not run, is where a fulfilment finds it.
Unrun(n) ==
    n \in DOMAIN closures \ ran /\ closures[n].role # "reject" =>
        NotReached(n) \/ Handing(obj, stack, n)

\* Closure n is where a rejection finds it, or is about to be called, unless it
\* was dropped.
Catchable(n) ==
    n \in dropped \/ \E q \in DOMAIN obj :
        IsClosure(obj[q].onRejected, n) /\ (obj[q].state # "REJECTED" \/ Begins(stack, q))

\* A closure that rejects and that has not run can still be called.
Uncaught(n) ==
    n \in DOMAIN closures \ ran /\ closures[n].role = "reject" => Catchable(n)

\* then() of p puts closure n in the slot.
Places(p, given, n) ==
    p # 0 /\ "onFullfilled" \in DOMAIN given /\ IsClosure(given["onFullfilled"], n)

\* catch() of p puts closure n in the slot.
Catches(p, given, n) ==
    p # 0 /\ "onRejected" \in DOMAIN given /\ IsClosure(given["onRejected"], n)

\* A closure that is made is put in a slot of p.
Puts(p, given, n) ==
    \/ Places(p, given, n)
    \/ closures'[n].role = "reject" /\ Catches(p, given, n)

\* What a settlement is about to call is called or handed on.
HandsOn(p, given) ==
    \A q \in DOMAIN obj :
        /\ Begins(stack, q) /\ obj[q].state = "FULFILLED" /\ obj[q].onFullfilled.kind = "library" =>
              Places(p, given, obj[q].onFullfilled.n) \/ obj[q].onFullfilled.n \in ran'
        /\ Begins(stack, q) /\ obj[q].state = "REJECTED" /\ obj[q].onRejected.kind = "library" =>
              obj[q].onRejected.n \in ran'

\* A closure in a slot is there after the step, or was dropped.
LEMMA SlotStays ==
    ASSUME NEW p, NEW given, HeapStep(p, given), dropped' = dropped \cup Overwritten,
           NEW q \in DOMAIN obj, NEW n, IsClosure(obj[q].onFullfilled, n),
           obj[q].state # "FULFILLED"
    PROVE  NotReached(n)' \/ Handing(obj', stack', n)
<1>1. CASE obj'[q].onFullfilled # obj[q].onFullfilled
  <2>1. n \in dropped'
    BY <1>1, OverwrittenSlots DEF IsClosure
  <2> QED
    BY <2>1 DEF NotReached
<1>2. CASE obj'[q].onFullfilled = obj[q].onFullfilled
  <2>1. q \in DOMAIN obj' /\ IsClosure(obj'[q].onFullfilled, n)
    BY <1>2 DEF HeapStep
  <2>2. CASE obj'[q].state # "FULFILLED"
    BY <2>1, <2>2 DEF NotReached, IsClosure, State
  <2>3. CASE obj'[q].state = "FULFILLED"
    <3>1. Begins(stack', q)
      BY <2>3 DEF HeapStep
    <3> QED
      BY <2>1, <3>1 DEF Handing
  <2> QED
    BY <2>2, <2>3
<1> QED
  BY <1>1, <1>2

LEMMA ClosurePlaced ==
    ASSUME NEW p, NEW given, HeapStep(p, given), NEW n, Places(p, given, n)
    PROVE  NotReached(n)' \/ Handing(obj', stack', n)
<1>1. p \in DOMAIN obj /\ p \in DOMAIN obj'
  BY DEF HeapStep, Places
<1>2. IsClosure(obj'[p].onFullfilled, n)
  <2>1. obj'[p].onFullfilled = Slot(p, p, given, "onFullfilled", obj[p].onFullfilled)
    BY <1>1 DEF HeapStep
  <2> QED
    BY <2>1 DEF Slot, Places
<1>3. CASE obj'[p].state = "PENDING"
  BY <1>1, <1>2, <1>3 DEF NotReached, IsClosure, State
<1>4. CASE Begins(stack', p)
  BY <1>1, <1>2, <1>4 DEF Handing
<1>5. obj'[p].state = "PENDING" \/ Begins(stack', p)
  BY <1>1 DEF HeapStep
<1> QED
  BY <1>3, <1>4, <1>5

LEMMA UnrunNext ==
    ASSUME NEW p, NEW given, HeapStep(p, given), dropped' = dropped \cup Overwritten,
           Extends(closures, closures'), ran \subseteq ran', HandsOn(p, given),
           \A n \in DOMAIN closures' :
              n \in DOMAIN closures \/ Puts(p, given, n),
           NEW n, Unrun(n)
    PROVE  Unrun(n)'
<1> SUFFICES ASSUME n \in DOMAIN closures' \ ran', closures'[n].role # "reject"
             PROVE  NotReached(n)' \/ Handing(obj', stack', n)
  BY DEF Unrun
<1>1. CASE n \notin DOMAIN closures
  BY <1>1, ClosurePlaced DEF Puts
<1>2. CASE n \in DOMAIN closures
  <2>1. NotReached(n) \/ Handing(obj, stack, n)
    BY <1>2 DEF Unrun, Extends
  <2>2. CASE n \in dropped
    BY <2>2 DEF NotReached
  <2>3. CASE \E q \in DOMAIN obj : /\ obj[q].onFullfilled.n = n /\ State(q) # "FULFILLED"
                                   /\ obj[q].onFullfilled.kind = "library"
    BY <2>3, SlotStays DEF IsClosure, State
  <2>4. CASE Handing(obj, stack, n)
    <3>1. PICK q \in DOMAIN obj : Begins(stack, q) /\ IsClosure(obj[q].onFullfilled, n)
      BY <2>4 DEF Handing
    <3>2. CASE obj[q].state # "FULFILLED"
      BY <3>1, <3>2, SlotStays
    <3>3. CASE obj[q].state = "FULFILLED"
      <4>1. Places(p, given, n)
        BY <3>1, <3>3 DEF HandsOn, IsClosure
      <4> QED
        BY <4>1, ClosurePlaced
    <3> QED
      BY <3>2, <3>3
  <2> QED
    BY <2>1, <2>2, <2>3, <2>4 DEF NotReached
<1> QED
  BY <1>1, <1>2

\* The same of the slot that a rejection calls.
LEMMA CatchStays ==
    ASSUME NEW p, NEW given, HeapStep(p, given), dropped' = dropped \cup Overwritten,
           NEW q \in DOMAIN obj, NEW n, IsClosure(obj[q].onRejected, n),
           obj[q].state # "REJECTED"
    PROVE  Catchable(n)'
<1>1. CASE obj'[q].onRejected # obj[q].onRejected
  <2>1. n \in dropped'
    BY <1>1, OverwrittenSlots DEF IsClosure
  <2> QED
    BY <2>1 DEF Catchable
<1>2. CASE obj'[q].onRejected = obj[q].onRejected
  <2>1. q \in DOMAIN obj' /\ IsClosure(obj'[q].onRejected, n)
    BY <1>2 DEF HeapStep
  <2>2. obj'[q].state # "REJECTED" \/ Begins(stack', q)
    BY DEF HeapStep
  <2> QED
    BY <2>1, <2>2 DEF Catchable
<1> QED
  BY <1>1, <1>2

LEMMA ClosureCaught ==
    ASSUME NEW p, NEW given, HeapStep(p, given), NEW n, Catches(p, given, n)
    PROVE  Catchable(n)'
<1>1. p \in DOMAIN obj /\ p \in DOMAIN obj'
  BY DEF HeapStep, Catches
<1>2. IsClosure(obj'[p].onRejected, n)
  <2>1. obj'[p].onRejected = Slot(p, p, given, "onRejected", obj[p].onRejected)
    BY <1>1 DEF HeapStep
  <2> QED
    BY <2>1 DEF Slot, Catches
<1>3. obj'[p].state = "PENDING" \/ Begins(stack', p)
  BY <1>1 DEF HeapStep
<1>4. obj'[p].state # "REJECTED" \/ Begins(stack', p)
  BY <1>3
<1> QED
  BY <1>1, <1>2, <1>4 DEF Catchable

LEMMA UncaughtNext ==
    ASSUME NEW p, NEW given, HeapStep(p, given), dropped' = dropped \cup Overwritten,
           Extends(closures, closures'), ran \subseteq ran', HandsOn(p, given),
           GivenOK(given, closures'),
           \A n \in DOMAIN closures' : n \in DOMAIN closures \/ Puts(p, given, n),
           NEW n, Uncaught(n)
    PROVE  Uncaught(n)'
<1> SUFFICES ASSUME n \in DOMAIN closures' \ ran', closures'[n].role = "reject"
             PROVE  Catchable(n)'
  BY DEF Uncaught
<1>1. CASE n \notin DOMAIN closures
  <2>1. ~Places(p, given, n)
    BY DEF Places, IsClosure, GivenOK, FulfilSlot
  <2> QED
    BY <1>1, <2>1, ClosureCaught DEF Puts
<1>2. CASE n \in DOMAIN closures
  <2>1. Catchable(n)
    BY <1>2 DEF Uncaught, Extends
  <2>2. CASE n \in dropped
    BY <2>2 DEF Catchable
  <2>3. CASE n \notin dropped
    <3>1. PICK q \in DOMAIN obj : /\ IsClosure(obj[q].onRejected, n)
                                  /\ obj[q].state # "REJECTED" \/ Begins(stack, q)
      BY <2>1, <2>3 DEF Catchable
    <3>2. CASE obj[q].state # "REJECTED"
      BY <3>1, <3>2, CatchStays
    <3>3. CASE obj[q].state = "REJECTED"
      <4>1. n \in ran'
        BY <3>1, <3>3 DEF HandsOn, IsClosure
      <4> QED
        BY <4>1
    <3> QED
      BY <3>2, <3>3
  <2> QED
    BY <2>2, <2>3
<1> QED
  BY <1>1, <1>2

-----------------------------------------------------------------------------
(* Steps that begin and end no generator. *)

\* The frames s, which end at m, are those of before but for the innermost,
\* which is not of a generator that was resumed.
Calm(s, m) ==
    /\ Rest(s, m) /\ s \in Seq(Frame)
    /\ \A j \in 1 .. Len(stack) : j > m => stack[j].kind # "generator"
    /\ stack[m].kind = "drive" => (m < Len(stack) /\ s[m] = stack[m]) \/ s[m].at = "end"

LEMMA PushCalm ==
    ASSUME NEW s, NEW m, Calm(s, m), NEW f \in Frame, stack' = Append(s, f),
           f.kind \in {"user", "settle", "combine"}, ~Catching(f),
           InLibrary(f, Len(calls'), Len(gens')),
           Catching(s[m]) => f.kind = "settle" /\ f.gives, Len(stack) \in Nat
    PROVE  /\ FrameStep(m) /\ CalmStep(m)
           /\ Len(stack') = m + 1 /\ stack'[m] = s[m] /\ stack'[m + 1] = f
           /\ stack'[Len(stack')] = f
<1>1. Goes(stack', m) /\ Len(stack') = m + 1 /\ stack'[m] = s[m] /\ stack'[m + 1] = f
  <2>1. s \in Seq(Frame) /\ Rest(s, m)
    BY DEF Calm
  <2>2. /\ Goes(Append(s, f), m) /\ Len(Append(s, f)) = m + 1
        /\ Append(s, f)[m] = s[m] /\ Append(s, f)[m + 1] = f
    BY <2>1, GoesPush
  <2> QED
    BY <2>2
<1>2. m # Len(stack')
  <2>1. m \in Nat
    BY <1>1, GoesFacts
  <2> QED
    BY <1>1, <2>1
<1>3. CatchOK(stack', m)
  BY <1>1, <1>2 DEF CatchOK
<1>4. FrameStep(m)
  BY <1>1, <1>3 DEF FrameStep
<1>5. CalmStep(m)
  BY <1>1 DEF CalmStep, Calm
<1> QED
  BY <1>1, <1>4, <1>5

LEMMA StopCalm ==
    ASSUME NEW s, NEW m, Calm(s, m), stack' = s, Catching(s[m]) => s[m].got # 0,
           Len(stack) \in Nat
    PROVE  FrameStep(m) /\ CalmStep(m) /\ Len(stack') = m
<1>1. Goes(stack', m) /\ Len(stack') = m /\ m \in Nat /\ m # m + 1
  <2>1. Goes(stack', m) /\ Len(stack') = m
    BY DEF Calm, Rest
  <2>2. m \in Nat
    BY <2>1, GoesFacts
  <2> QED
    BY <2>1, <2>2
<1>2. CatchOK(stack', m)
  BY <1>1 DEF CatchOK
<1>3. FrameStep(m)
  BY <1>1, <1>2 DEF FrameStep
<1>4. CalmStep(m)
  BY <1>1 DEF CalmStep, Calm
<1> QED
  BY <1>1, <1>3, <1>4

LEMMA ReturnCalm ==
    ASSUME NEW s, NEW m, Calm(s, m), NEW v, stack' = Returned(s, v),
           Catching(s[m]) => v # 0, Len(stack) \in Nat
    PROVE  FrameStep(m) /\ CalmStep(m) /\ Len(stack') = m
<1> DEFINE t == Returned(s, v)
<1>1. s \in Seq(Frame) /\ Rest(s, m)
  BY DEF Calm
<1>2. m \in 1 .. Len(s) /\ s[m] \in Frame
  BY <1>1, GoesFacts DEF Rest
<1>3. /\ Rest(t, m)
      /\ s[m].kind \notin {"settle", "combine"} => t = s
      /\ s[m].kind = "settle" => t[m] = s[m] \/ t[m] = [s[m] EXCEPT !.value = v]
      /\ s[m].kind = "combine" => t[m] = [s[m] EXCEPT !.got = v]
  BY <1>1, GoesReturn
<1>4. s[m].kind = "settle" => t[m].kind = "settle"
  <2> SUFFICES ASSUME s[m].kind = "settle" PROVE t[m].kind = "settle"
    OBVIOUS
  <2>1. s[m] \in SettleFrame
    BY <1>2, FrameFacts
  <2> QED
    BY <1>3, <2>1 DEF SettleFrame
<1>5. s[m].kind = "combine" => /\ t[m].kind = "combine" /\ t[m].at = s[m].at
                               /\ t[m].got = v
  <2> SUFFICES ASSUME s[m].kind = "combine"
               PROVE  t[m].kind = "combine" /\ t[m].at = s[m].at /\ t[m].got = v
    OBVIOUS
  <2>1. s[m] \in CombineFrame
    BY <1>2, FrameFacts
  <2>2. t[m] = [s[m] EXCEPT !.got = v]
    BY <1>3
  <2> QED
    BY <2>1, <2>2 DEF CombineFrame
<1> HIDE DEF t
<1>6. Goes(stack', m) /\ Len(stack') = m /\ m \in Nat /\ m # m + 1 /\ stack' = t
  <2>1. Goes(stack', m) /\ Len(stack') = m /\ stack' = t
    BY <1>3 DEF t, Rest
  <2>2. m \in Nat
    BY <2>1, GoesFacts
  <2> QED
    BY <2>1, <2>2
<1>7. CatchOK(stack', m)
  BY <1>3, <1>4, <1>5, <1>6 DEF CatchOK, Catching
<1>8. FrameStep(m)
  BY <1>6, <1>7 DEF FrameStep
<1>9. s[m].kind = stack[m].kind
  BY DEF Calm, Rest, Goes, Similar
<1>10. CalmStep(m)
  BY <1>3, <1>6, <1>9 DEF CalmStep, Calm
<1> QED
  BY <1>6, <1>8, <1>10

LEMMA RaiseCalm ==
    ASSUME NEW s, NEW m, Rest(s, m), StackOK(obj, s), Raise(s), Len(stack) \in Nat,
           \A j \in 1 .. Len(stack) : j > m => stack[j].kind # "generator"
    PROVE  \E n : FrameStep(n) /\ CalmStep(n) /\ Len(stack') = n
                  /\ stack'[n].kind \in {"user", "generator", "combine"}
<1>1. Rest(s, m) /\ s \in Seq(Frame)
  BY StackFacts
<1>2. PICK n \in 1 .. m :
              /\ Rest(stack', n) /\ stack'[n].kind \in {"user", "generator", "combine"}
              /\ stack'[n].kind = "combine" => stack'[n].at = "caught"
              /\ \A j \in 1 .. m : j > n => s[j].kind \in {"settle", "drive"}
  BY <1>1, GoesRaise
<1>3. Goes(stack', n) /\ Len(stack') = n /\ n # n + 1
  <2>1. Goes(stack', n) /\ Len(stack') = n
    BY <1>2 DEF Rest
  <2>2. n \in Nat
    BY <2>1, GoesFacts
  <2> QED
    BY <2>1, <2>2
<1>4. ~Catching(stack'[n])
  BY <1>2 DEF Catching
<1>5. FrameStep(n)
  BY <1>3, <1>4 DEF FrameStep, CatchOK
<1>6. ASSUME NEW j \in 1 .. Len(stack), j > n PROVE stack[j].kind # "generator"
  <2>1. j \in 1 .. m \/ j > m
    BY <1>1, GoesFacts DEF Rest
  <2>2. CASE j \in 1 .. m
    <3>1. s[j].kind \in {"settle", "drive"}
      BY <1>2, <1>6, <2>2
    <3>2. Similar(stack[j], s[j])
      BY <1>1, <2>2, GoesFacts DEF Rest
    <3> QED
      BY <3>1, <3>2 DEF Similar
  <2>3. CASE j > m
    BY <2>3
  <2> QED
    BY <2>1, <2>2, <2>3
<1>7. CalmStep(n)
  <2>1. stack'[n].kind = stack[n].kind
    BY <1>3 DEF Goes, Similar
  <2>2. stack[n].kind # "drive"
    BY <1>2, <2>1
  <2> QED
    BY <1>3, <1>6, <2>2 DEF CalmStep
<1> QED
  BY <1>2, <1>3, <1>5, <1>7

\* The frames from which steps go on.
LEMMA CalmStack ==
    ASSUME NEW o, StackOK(o, stack), Top.kind # "drive"
    PROVE  Calm(stack, Len(stack)) /\ stack[Len(stack)] = Top /\ Len(stack) \in Nat
<1>1. Rest(stack, Len(stack)) /\ stack \in Seq(Frame) /\ Len(stack) \in Nat
  BY RestStack, StackFacts
<1>2. \A j \in 1 .. Len(stack) : ~(j > Len(stack))
  BY <1>1
<1> QED
  BY <1>1, <1>2 DEF Calm, Top

LEMMA CalmBelow ==
    ASSUME NEW o, StackOK(o, stack), Len(stack) > 1, Top.kind # "generator"
    PROVE  Calm(Below, Len(stack) - 1) /\ Below[Len(stack) - 1] = stack[Len(stack) - 1]
<1> DEFINE m == Len(stack) - 1
<1>1. Rest(Below, m) /\ Below[m] = stack[m]
  BY RestBelow
<1>2. /\ m \in Nat /\ m < Len(stack)
      /\ \A j \in 1 .. Len(stack) : j > m => j = Len(stack)
  BY StackFacts
<1>3. Below \in Seq(Frame)
  <2>1. Below = SubSeq(stack, 1, m) /\ stack \in Seq(Frame) /\ Len(stack) \in Nat
    BY StackFacts DEF Below
  <2> QED
    BY <2>1, <1>2
<1> HIDE DEF m
<1>4. \A j \in 1 .. Len(stack) : j > m => stack[j].kind # "generator"
  BY <1>2 DEF Top
<1> QED
  BY <1>1, <1>2, <1>3, <1>4 DEF Calm, m

LEMMA CalmAdvanced ==
    ASSUME IInv, Top.kind = "settle", Top.step < 4
    PROVE  /\ Calm(Advanced, Len(stack)) /\ Advanced[Len(stack)].kind = "settle"
           /\ ~Catching(Advanced[Len(stack)]) /\ Len(stack) \in Nat
<1>1. StackOK(obj, stack) /\ StackOK(obj, Advanced)
  BY InSettlement DEF IInv
<1>2. /\ Rest(Advanced, Len(stack)) /\ Len(stack) \in Nat
      /\ Advanced[Len(stack)] = [Top EXCEPT !.step = @ + 1]
  BY <1>1, RestAdvanced, StackFacts
<1>3. Advanced \in Seq(Frame)
  BY <1>1, StackFacts
<1>4. \A j \in 1 .. Len(stack) : ~(j > Len(stack))
  BY <1>2
<1>5. Advanced[Len(stack)].kind = "settle"
  <2>1. Similar(stack[Len(stack)], Advanced[Len(stack)])
    BY <1>2 DEF Rest, Goes
  <2> QED
    BY <2>1 DEF Similar, Top
<1> QED
  BY <1>2, <1>3, <1>4, <1>5 DEF Calm, Top, Catching

\* The innermost frame, of the executor of all() and race() or of
\* $asyncToGenerator, goes on as f.
LEMMA CalmTopWith ==
    ASSUME NEW o, StackOK(o, stack), NEW f \in Frame, Similar(Top, f),
           Top.kind = "drive" => f.at = "end", NEW s, s = TopWith(f)
    PROVE  Calm(s, Len(stack)) /\ s[Len(stack)] = f /\ Len(stack) \in Nat
<1>1. /\ s = [stack EXCEPT ![Len(stack)] = f] /\ Len(stack) \in Nat /\ stack \in Seq(Frame)
      /\ Len(stack) \in DOMAIN stack
  BY StackFacts DEF TopWith
<1>2. Rest(s, Len(stack)) /\ s[Len(stack)] = f
  BY <1>1, RestTop
<1>3. s \in Seq(Frame)
  <2> DEFINE n == Len(stack)
  <2>1. stack \in Seq(Frame) /\ n \in DOMAIN stack /\ s = [stack EXCEPT ![n] = f]
    BY <1>1
  <2> HIDE DEF n
  <2> QED
    BY <2>1
<1>4. \A j \in 1 .. Len(stack) : ~(j > Len(stack))
  BY <1>1
<1> QED
  BY <1>1, <1>2, <1>3, <1>4 DEF Calm, Top

-----------------------------------------------------------------------------
(* The heap after the calls. *)

Nothing == [x \in {} |-> User]

LEMMA HeapSame ==
    ASSUME HeapOK(obj), obj' = obj
    PROVE  HeapStep(0, Nothing)
<1>1. \A q \in DOMAIN obj : q # 0 /\ q # Len(obj) + 1
  BY HeapFacts
<1> QED
  BY <1>1 DEF HeapStep, Slot

LEMMA HeapSettles ==
    ASSUME HeapOK(obj), NEW n \in DOMAIN obj, NEW r, NEW st, SettledAs(obj, n, r, st),
           obj[n].state = "PENDING", ObjectChanged(obj, obj', n, r), Begins(stack', n)
    PROVE  HeapStep(0, Nothing)
<1>1. /\ \A q \in DOMAIN obj : q # 0 /\ q # Len(obj) + 1
      /\ DOMAIN obj' = DOMAIN obj
      /\ \A q \in DOMAIN obj : q # n => obj'[q] = obj[q]
      /\ obj'[n] = r
  BY HeapFacts DEF ObjectChanged
<1>2. /\ r.next = obj[n].next /\ r.onFullfilled = obj[n].onFullfilled
      /\ r.onRejected = obj[n].onRejected /\ r.onFinaled = obj[n].onFinaled
      /\ obj'[n].state = obj[n].state \/ (obj[n].state = "PENDING" /\ Begins(stack', n))
  BY DEF SettledAs
<1> QED
  BY <1>1, <1>2 DEF HeapStep, Slot

LEMMA HeapNew ==
    ASSUME HeapOK(obj), PromiseAdded(obj, obj')
    PROVE  HeapStep(0, Nothing)
<1>1. \A q \in DOMAIN obj : q # 0 /\ q # Len(obj) + 1
  BY HeapFacts
<1>2. /\ \A q \in DOMAIN obj : q \in DOMAIN obj' /\ obj'[q] = obj[q]
      /\ \A q \in DOMAIN obj' : q \in DOMAIN obj \/ (q = Len(obj) + 1 /\ obj'[q] = Fresh)
  <2>1. Len(obj) \in Nat /\ DOMAIN obj = 1 .. Len(obj)
    BY HeapFacts
  <2>2. \A q \in DOMAIN obj' : q \in DOMAIN obj \/ q = Len(obj) + 1
    BY <2>1 DEF PromiseAdded
  <2> QED
    BY <2>2, AddedFacts DEF PromiseAdded
<1> QED
  BY <1>1, <1>2 DEF HeapStep, Slot

LEMMA HeapThens ==
    ASSUME HeapOK(obj), NEW p \in DOMAIN obj, NEW given, DOMAIN given \subseteq Slots,
           \A x \in DOMAIN given : given[x] \in Fn,
           NEW s, CallThen(p, given, s),
           obj[p].state = "PENDING" \/ Begins(stack', p)
    PROVE  HeapStep(p, given)
<1> DEFINE n == Len(obj) + 1
           r == Attached(p, given, n)
<1>1. /\ Len(obj) \in Nat /\ DOMAIN obj = 1 .. Len(obj) /\ obj \in Seq(Object)
      /\ Len(obj) < MaxPromises /\ n \in Value /\ n \in Nat
      /\ \A q \in DOMAIN obj : q # 0 /\ q # n
  <2>1. Len(obj) \in Nat /\ DOMAIN obj = 1 .. Len(obj) /\ obj \in Seq(Object)
    BY HeapFacts DEF HeapOK
  <2>2. Len(obj) < MaxPromises
    BY DEF CallThen, CanCreate
  <2> QED
    BY <2>1, <2>2, BoundsAssumption DEF Value
<1>2. obj' = Append([obj EXCEPT ![p] = r], Fresh)
  BY DEF CallThen
<1> HIDE DEF n
<1>3. /\ r \in Object /\ r.state = obj[p].state /\ r.next = n
      /\ r.onFullfilled = Slot(p, p, given, "onFullfilled", obj[p].onFullfilled)
      /\ r.onRejected = Slot(p, p, given, "onRejected", obj[p].onRejected)
      /\ r.onFinaled = Slot(p, p, given, "onFinaled", obj[p].onFinaled)
  BY <1>1, AttachedObject DEF Slot
<1> HIDE DEF r
<1>4. /\ DOMAIN obj' = 1 .. Len(obj) + 1 /\ obj'[Len(obj) + 1] = Fresh
      /\ \A q \in DOMAIN obj : obj'[q] = IF q = p THEN r ELSE obj[q]
  <2>1. [obj EXCEPT ![p] = r] \in Seq(Object) /\ Len([obj EXCEPT ![p] = r]) = Len(obj)
    BY <1>1, <1>3
  <2> QED
    BY <1>1, <1>2, <2>1
<1>5. /\ n = Len(obj) + 1 /\ n \in DOMAIN obj'
      /\ \A q \in DOMAIN obj : q \in DOMAIN obj'
      /\ \A q \in DOMAIN obj' : q \in DOMAIN obj \/ q = n
  BY <1>1, <1>4 DEF n
<1>6. ASSUME NEW q \in DOMAIN obj, q # p
      PROVE  /\ obj'[q].state = obj[q].state /\ obj'[q].next = obj[q].next
             /\ obj'[q].onFullfilled = Slot(q, p, given, "onFullfilled", obj[q].onFullfilled)
             /\ obj'[q].onRejected = Slot(q, p, given, "onRejected", obj[q].onRejected)
             /\ obj'[q].onFinaled = Slot(q, p, given, "onFinaled", obj[q].onFinaled)
  BY <1>4, <1>6 DEF Slot
<1>7. obj'[p] = r
  BY <1>4
<1> QED
  BY <1>1, <1>3, <1>4, <1>5, <1>6, <1>7 DEF HeapStep

-----------------------------------------------------------------------------
(* The invariant: the library, and what it needs of heap and frames. *)

CallOK(c) ==
    /\ calls[c].agg \in DOMAIN obj
    /\ \A i \in DOMAIN calls[c].inputs : calls[c].inputs[i] \in Own

ClosureOK(n) ==
    /\ closures[n].p \in DOMAIN obj
    /\ closures[n].role = "await" => closures[n].c \in DOMAIN gens
    /\ closures[n].role # "await" => closures[n].c \in DOMAIN calls

LibraryOK ==
    /\ calls \in Seq(Call) /\ gens \in Seq(Generator) /\ closures \in Seq(Closure)
    /\ Own \subseteq DOMAIN obj /\ mine \subseteq DOMAIN obj /\ acts \in 0 .. MaxActs
    /\ \A c \in DOMAIN calls : CallOK(c)
    /\ \A g \in DOMAIN gens : gens[g].value \in 0 .. Len(obj)
    /\ \A n \in DOMAIN closures : ClosureOK(n)
    /\ reran \subseteq ran /\ ran \subseteq DOMAIN closures /\ dropped \subseteq DOMAIN closures

\* Closure n, which has not run, resumes generator g.
Asks(n, g) ==
    n \in DOMAIN closures \ ran /\ closures[n].role = "await" /\ closures[n].c = g

\* A closure of generator g ran a second time.
Rerun(g) == \E n \in reran : closures[n].role = "await" /\ closures[n].c = g

\* A generator that waits is asked for by one closure, of what it waits for.
AwaitOK(g) ==
    /\ gens[g].state = "suspended" /\ ~Resuming(stack, g) =>
          gens[g].value # 0 /\ \E n : Asks(n, g) /\ closures[n].p = gens[g].value
    /\ ~Rerun(g) => \A n : Asks(n, g) =>
          /\ gens[g].state = "suspended" /\ gens[g].value = closures[n].p
          /\ ~Resuming(stack, g)
          /\ \A m : Asks(m, g) => m = n

AwaitsOK ==
    /\ \A g \in DOMAIN gens : AwaitOK(g)
    /\ ResumedByAwaited

CInv ==
    /\ IInv /\ LibraryOK
    /\ FramesOK(stack, Len(calls), Len(gens)) /\ SlotsOK(obj, closures)
    /\ DrivesOK(stack, gens) /\ AwaitsOK
    /\ \A n : Unrun(n) /\ Uncaught(n)

\* What a step without a generator of its own keeps.
LEMMA AwaitCalm ==
    ASSUME NEW g, AwaitOK(g), gens'[g] = gens[g], ~Resuming(stack', g),
           Resuming(stack, g) => gens[g].state # "suspended",
           Extends(closures, closures'), \A n : Asks(n, g)' <=> Asks(n, g),
           Rerun(g) => Rerun(g)'
    PROVE  AwaitOK(g)'
<1>1. \A n : Asks(n, g) => closures'[n].p = closures[n].p
  BY DEF Asks, Extends
<1>2. gens'[g].state = "suspended" => ~Resuming(stack, g)
  OBVIOUS
<1>3. ASSUME gens'[g].state = "suspended"
      PROVE  gens'[g].value # 0 /\ \E n : Asks(n, g)' /\ closures'[n].p = gens'[g].value
  BY <1>1, <1>2, <1>3 DEF AwaitOK
<1>4. ASSUME ~Rerun(g)', NEW n, Asks(n, g)'
      PROVE  /\ gens'[g].state = "suspended" /\ gens'[g].value = closures'[n].p
             /\ \A m : Asks(m, g)' => m = n
  <2>1. Asks(n, g) /\ ~Rerun(g)
    BY <1>4
  <2> QED
    BY <1>1, <2>1 DEF AwaitOK
<1> QED
  BY <1>3, <1>4 DEF AwaitOK

\* A step that resumes and begins no generator.
Steps(m, p, given) ==
    /\ FrameStep(m) /\ CalmStep(m) /\ HeapStep(p, given)
    /\ GivenOK(given, closures') /\ HandsOn(p, given)

\* Nothing waits to be resumed.
NoneResumed ==
    \A g \in DOMAIN gens : Resuming(stack, g) => gens[g].state \notin {"new", "suspended"}

LEMMA NoDrive ==
    ASSUME Top.kind # "drive"
    PROVE  NoneResumed
  BY DEF NoneResumed, Resuming, Top

\* What a step leaves of the generators and their closures.
KeepsAwaits ==
    /\ gens' = gens /\ Grows(calls, calls') /\ Extends(closures, closures')
    /\ ran \subseteq ran' /\ reran \subseteq reran'
    /\ \A n, g : Asks(n, g)' <=> Asks(n, g)
    /\ dropped' = dropped \cup Overwritten

LEMMA CalmInv ==
    ASSUME CInv, IInv', LibraryOK', NEW m, NEW p, NEW given, Steps(m, p, given),
           KeepsAwaits, NoneResumed,
           \A n \in DOMAIN closures' :
              n \in DOMAIN closures \/ Puts(p, given, n)
    PROVE  CInv'
<1>1. /\ FrameStep(m) /\ CalmStep(m) /\ HeapStep(p, given)
      /\ GivenOK(given, closures') /\ HandsOn(p, given)
  BY DEF Steps
<1>2. /\ gens' = gens /\ Grows(calls, calls') /\ Extends(closures, closures')
      /\ ran \subseteq ran' /\ reran \subseteq reran' /\ dropped' = dropped \cup Overwritten
  BY DEF KeepsAwaits
<1>3. Len(stack) \in Nat /\ DOMAIN stack = 1 .. Len(stack)
  BY StackFacts DEF CInv, IInv
<1>4. Grows(gens, gens')
  BY <1>2 DEF CInv, LibraryOK, Grows
<1>5. FramesOK(stack', Len(calls'), Len(gens'))
  BY <1>1, <1>2, <1>3, <1>4, FramesNext DEF CInv
<1>6. SlotsOK(obj', closures')
  BY <1>1, <1>2, SlotsNext DEF CInv
<1>7. \A g \in DOMAIN gens : gens[g].state # "new"
  BY DEF CInv, DrivesOK, GeneratorOK, NoneResumed
<1>8. DrivesOK(stack', gens') /\ \A g : ~Resuming(stack', g)
  BY <1>1, <1>2, <1>3, <1>7, CalmDrives DEF CInv
<1>9. ASSUME NEW g \in DOMAIN gens PROVE AwaitOK(g)'
  <2>1. Rerun(g) => Rerun(g)'
    <3> SUFFICES ASSUME Rerun(g) PROVE Rerun(g)'
      OBVIOUS
    <3>1. PICK n \in reran : closures[n].role = "await" /\ closures[n].c = g
      BY DEF Rerun
    <3>2. n \in DOMAIN closures
      BY DEF CInv, LibraryOK
    <3>3. n \in reran' /\ closures'[n] = closures[n]
      BY <1>2, <3>2 DEF Extends
    <3> QED
      BY <3>1, <3>3 DEF Rerun
  <2>2. \A n : Asks(n, g)' <=> Asks(n, g)
    BY DEF KeepsAwaits
  <2>3. Resuming(stack, g) => gens[g].state # "suspended"
    BY DEF NoneResumed
  <2>4. AwaitOK(g) /\ gens'[g] = gens[g]
    BY <1>2 DEF CInv, AwaitsOK
  <2> QED
    BY <1>2, <1>8, <2>1, <2>2, <2>3, <2>4, AwaitCalm
<1>10. ResumedByAwaited'
  <2>1. ~Resuming(stack', stack'[Len(stack')].g)
    BY <1>8
  <2> QED
    BY <2>1 DEF ResumedByAwaited, Driving, Top, Resuming
<1>11. AwaitsOK'
  BY <1>2, <1>9, <1>10 DEF AwaitsOK
<1>12. \A n : Unrun(n)' /\ Uncaught(n)'
  <2> SUFFICES ASSUME NEW n PROVE Unrun(n)' /\ Uncaught(n)'
    OBVIOUS
  <2>1. Unrun(n) /\ Uncaught(n)
    BY DEF CInv
  <2>2. Unrun(n)'
    BY <1>1, <1>2, <2>1, UnrunNext
  <2>3. Uncaught(n)'
    BY <1>1, <1>2, <2>1, UncaughtNext
  <2> QED
    BY <2>2, <2>3
<1> QED
  BY <1>5, <1>6, <1>8, <1>11, <1>12 DEF CInv

-----------------------------------------------------------------------------
(* Steps that change nothing of the library. *)

LEMMA LibrarySame ==
    ASSUME LibraryOK, SlotsOK(obj, closures), Keeps(obj, obj'), UNCHANGED <<library, history>>,
           acts' \in 0 .. MaxActs, mine' \subseteq DOMAIN obj',
           dropped' = dropped \cup Overwritten
    PROVE  LibraryOK'
<1>1. /\ calls' = calls /\ gens' = gens /\ closures' = closures
      /\ ran' = ran /\ reran' = reran
  BY DEF library, history
<1>2. /\ \A p \in DOMAIN obj : p \in DOMAIN obj'
      /\ \A n \in 0 .. Len(obj) : n \in 0 .. Len(obj')
  BY DEF Keeps
<1>3. \A c \in DOMAIN calls : CallOK(c)'
  BY <1>1, <1>2 DEF LibraryOK, CallOK
<1>4. \A n \in DOMAIN closures : ClosureOK(n)'
  BY <1>1, <1>2 DEF LibraryOK, ClosureOK
<1>5. \A g \in DOMAIN gens : gens[g].value \in 0 .. Len(obj')
  BY <1>2 DEF LibraryOK
<1>6. dropped' \subseteq DOMAIN closures
  BY OverwrittenClosures DEF LibraryOK
<1> QED
  BY <1>1, <1>2, <1>3, <1>4, <1>5, <1>6 DEF LibraryOK

LEMMA PlainInv ==
    ASSUME CInv, IInv', Keeps(obj, obj'), UNCHANGED <<library, history>>,
           acts' \in 0 .. MaxActs, mine' \subseteq DOMAIN obj',
           dropped' = dropped \cup Overwritten, NoneResumed,
           NEW m, NEW p, NEW given, Steps(m, p, given)
    PROVE  CInv'
<1>1. LibraryOK'
  BY LibrarySame DEF CInv
<1>2. /\ calls' = calls /\ gens' = gens /\ closures' = closures
      /\ ran' = ran /\ reran' = reran
  BY DEF library, history
<1>3. KeepsAwaits
  <2>1. Grows(calls, calls) /\ Extends(closures, closures)
    BY DEF CInv, LibraryOK, Grows, Extends
  <2>2. \A n, g : Asks(n, g)' <=> Asks(n, g)
    BY <1>2 DEF Asks
  <2> QED
    BY <1>2, <2>1, <2>2 DEF KeepsAwaits
<1>4. \A n \in DOMAIN closures' : n \in DOMAIN closures
  BY <1>2
<1> QED
  BY <1>1, <1>3, <1>4, CalmInv

\* A frame of a promise of the heap.
LEMMA SettleIsFrame ==
    ASSUME HeapOK(obj), NEW p \in DOMAIN obj, NEW v \in 0 .. Len(obj), NEW b \in BOOLEAN
    PROVE  /\ Settle(p, v, b) \in Frame /\ Settle(p, v, b).kind = "settle"
           /\ Settle(p, v, b).gives = b /\ Settle(p, v, b).p = p /\ Settle(p, v, b).step = 1
           /\ \A c, g : InLibrary(Settle(p, v, b), c, g)
           /\ ~Catching(Settle(p, v, b))
<1>1. p \in Id /\ v \in Value
  <2>1. p \in Id /\ Len(obj) \in Nat /\ Len(obj) <= MaxPromises
    BY HeapFacts DEF HeapOK
  <2> QED
    BY <2>1, BoundsAssumption DEF Value
<1>2. Settle(p, v, b) \in SettleFrame
  BY <1>1 DEF Settle, SettleFrame
<1> QED
  BY <1>2 DEF Settle, Frame, InLibrary, Catching

LEMMA CallThenCalm ==
    ASSUME HeapOK(obj), NEW s, NEW m, Calm(s, m), Len(stack) \in Nat,
           NEW p \in DOMAIN obj, NEW given, DOMAIN given \subseteq Slots,
           \A x \in DOMAIN given : given[x] \in Fn, CallThen(p, given, s)
    PROVE  /\ FrameStep(m) /\ CalmStep(m) /\ HeapStep(p, given)
           /\ \/ Len(stack') = m
              \/ Len(stack') = m + 1 /\ stack'[m + 1] = Settle(p, obj[p].value, TRUE)
<1>1. CASE obj[p].state = "PENDING"
  <2>1. stack' = Returned(s, Len(obj) + 1) /\ Len(obj) + 1 # 0
    BY <1>1, HeapFacts DEF CallThen
  <2>2. FrameStep(m) /\ CalmStep(m) /\ Len(stack') = m
    BY <2>1, ReturnCalm
  <2>3. HeapStep(p, given)
    BY <1>1, HeapThens
  <2> QED
    BY <2>2, <2>3
<1>2. CASE obj[p].state # "PENDING"
  <2> DEFINE f == Settle(p, obj[p].value, TRUE)
  <2>1. stack' = Append(s, f)
    BY <1>2 DEF CallThen
  <2>2. obj[p].value \in 0 .. Len(obj)
    BY HeapFacts
  <2>3. /\ f \in Frame /\ f.kind = "settle" /\ f.gives = TRUE /\ f.p = p /\ f.step = 1
        /\ \A c, g : InLibrary(f, c, g)
        /\ ~Catching(f)
    BY <2>2, SettleIsFrame
  <2> HIDE DEF f
  <2>4. /\ FrameStep(m) /\ CalmStep(m) /\ stack'[Len(stack')] = f
        /\ Len(stack') = m + 1 /\ stack'[m + 1] = f
    BY <2>1, <2>3, PushCalm
  <2>5. Begins(stack', p)
    BY <2>3, <2>4 DEF Begins
  <2>6. HeapStep(p, given)
    BY <2>5, HeapThens
  <2> QED
    BY <2>4, <2>6 DEF f
<1> QED
  BY <1>1, <1>2

\* Promise n gets the state st, and keeps its value.
LEMMA ResolvesAs ==
    ASSUME HeapOK(obj), NEW p \in DOMAIN obj, NEW v \in 0 .. Len(obj), Resolve(p, v)
    PROVE  \E r : SettledAs(obj, p, r, "FULFILLED") /\ ObjectChanged(obj, obj', p, r)
<1> DEFINE r == [obj[p] EXCEPT !.state = "FULFILLED", !.value = v]
<1>1. SettledAs(obj, p, r, "FULFILLED") /\ obj' = [obj EXCEPT ![p] = r]
  BY SettledObject DEF Resolve
<1> HIDE DEF r
<1> QED
  BY <1>1, OneChanged DEF SettledAs

LEMMA SettlesAs ==
    ASSUME HeapOK(obj), NEW n \in DOMAIN obj, NEW st \in {"FULFILLED", "REJECTED"},
           obj' = [obj EXCEPT ![n].state = st]
    PROVE  \E r : SettledAs(obj, n, r, st) /\ ObjectChanged(obj, obj', n, r)
<1> DEFINE v == obj[n].value
           r == [obj[n] EXCEPT !.state = st, !.value = v]
<1>1. SettledAs(obj, n, r, st)
  <2>1. v \in 0 .. Len(obj)
    BY HeapFacts
  <2> HIDE DEF v
  <2> QED
    BY <2>1, SettledObject
<1>2. obj' = [obj EXCEPT ![n] = r]
  <2>1. r = [obj[n] EXCEPT !.state = st]
    BY HeapFacts DEF Object
  <2> QED
    BY <2>1
<1> HIDE DEF r
<1>3. ObjectChanged(obj, obj', n, r)
  BY <1>1, <1>2, OneChanged DEF SettledAs
<1> QED
  BY <1>1, <1>3

\* Promise n is settled by the frames s.
LEMMA SettleCalm ==
    ASSUME HeapOK(obj), NEW s, NEW m, Calm(s, m), Len(stack) \in Nat, ~Catching(s[m]),
           NEW n \in DOMAIN obj, NEW v \in 0 .. Len(obj), NEW r, NEW st,
           SettledAs(obj, n, r, st), ObjectChanged(obj, obj', n, r),
           obj[n].state = "PENDING", stack' = Append(s, Settle(n, v, FALSE))
    PROVE  /\ FrameStep(m) /\ CalmStep(m) /\ HeapStep(0, Nothing)
           /\ Len(stack') = m + 1 /\ stack'[m + 1] = Settle(n, v, FALSE)
<1> DEFINE f == Settle(n, v, FALSE)
<1>1. /\ f \in Frame /\ f.kind = "settle" /\ f.p = n /\ f.step = 1
      /\ \A c, g : InLibrary(f, c, g)
      /\ ~Catching(f)
  BY SettleIsFrame
<1>2. stack' = Append(s, f)
  OBVIOUS
<1> HIDE DEF f
<1>3. /\ FrameStep(m) /\ CalmStep(m) /\ stack'[Len(stack')] = f
      /\ Len(stack') = m + 1 /\ stack'[m + 1] = f
  <2>1. /\ f \in Frame /\ f.kind \in {"user", "settle", "combine"} /\ ~Catching(f)
        /\ InLibrary(f, Len(calls'), Len(gens'))
        /\ Catching(s[m]) => f.kind = "settle" /\ f.gives
    BY <1>1
  <2>2. /\ FrameStep(m) /\ CalmStep(m)
        /\ Len(stack') = m + 1 /\ stack'[m] = s[m] /\ stack'[m + 1] = f
        /\ stack'[Len(stack')] = f
    BY <1>2, <2>1, PushCalm
  <2> QED
    BY <2>2
<1>4. Begins(stack', n)
  BY <1>1, <1>3 DEF Begins
<1>5. HeapStep(0, Nothing)
  BY <1>4, HeapSettles
<1> QED
  BY <1>3, <1>5 DEF f

\* Only a settlement runs above an executor that waits for then().
LEMMA NotCatching ==
    ASSUME CInv, Len(stack) > 1, Top.kind # "settle"
    PROVE  ~Catching(stack[Len(stack) - 1])
<1>1. Len(stack) \in Nat /\ DOMAIN stack = 1 .. Len(stack)
  BY StackFacts DEF CInv, IInv
<1>2. /\ Len(stack) - 1 \in 1 .. Len(stack) /\ Len(stack) - 1 # Len(stack)
      /\ (Len(stack) - 1) + 1 = Len(stack)
  <2> DEFINE n == Len(stack)
  <2>1. n \in Nat /\ n > 1
    BY <1>1
  <2> HIDE DEF n
  <2>2. n - 1 \in 1 .. n /\ n - 1 # n /\ (n - 1) + 1 = n
    BY <2>1
  <2> QED
    BY <2>2 DEF n
<1>3. CatchOK(stack, Len(stack) - 1)
  BY <1>1, <1>2 DEF CInv, FramesOK
<1> QED
  BY <1>2, <1>3 DEF CatchOK, Top

\* What no then() leaves of the closures.
LEMMA NothingGiven ==
    ASSUME Top.kind = "settle" /\ Top.step = 1 =>
              /\ ~(obj[Top.p].state = "FULFILLED" /\ obj[Top.p].onFullfilled.kind = "library")
              /\ ~(obj[Top.p].state = "REJECTED" /\ obj[Top.p].onRejected.kind = "library")
    PROVE  \A p, given : HandsOn(p, given)
  BY DEF HandsOn, Begins, Top

LEMMA GivenNothing == GivenOK(Nothing, closures')
  BY DEF GivenOK, Nothing

-----------------------------------------------------------------------------
(* The steps of PHP code and of settlements. *)

LEMMA Basics ==
    ASSUME CInv
    PROVE  /\ IInv /\ HeapOK(obj) /\ StackOK(obj, stack) /\ LibraryOK
           /\ Len(stack) \in Nat /\ Len(stack) \in DOMAIN stack
           /\ DOMAIN stack = 1 .. Len(stack)
           /\ Len(obj) \in Nat /\ DOMAIN obj = 1 .. Len(obj) /\ Len(obj) <= MaxPromises
           /\ mine \subseteq DOMAIN obj /\ Own \subseteq DOMAIN obj /\ acts \in 0 .. MaxActs
           /\ \A v \in {0} \cup mine : v \in 0 .. Len(obj)
           /\ InLibrary(Top, Len(calls), Len(gens)) /\ CatchOK(stack, Len(stack))
           /\ FrameOK(obj, Top)
<1>1. /\ IInv /\ HeapOK(obj) /\ StackOK(obj, stack) /\ LibraryOK
      /\ FramesOK(stack, Len(calls), Len(gens))
  BY DEF CInv, IInv
<1>2. /\ Len(stack) \in Nat /\ Len(stack) \in DOMAIN stack
      /\ DOMAIN stack = 1 .. Len(stack) /\ FrameOK(obj, Top)
  BY <1>1, StackFacts DEF Top
<1>3. Len(obj) \in Nat /\ DOMAIN obj = 1 .. Len(obj) /\ Len(obj) <= MaxPromises
  BY <1>1, HeapFacts DEF HeapOK
<1>4. mine \subseteq DOMAIN obj /\ Own \subseteq DOMAIN obj /\ acts \in 0 .. MaxActs
  BY <1>1 DEF LibraryOK
<1>5. \A v \in {0} \cup mine : v \in 0 .. Len(obj)
  BY <1>3, <1>4
<1>6. InLibrary(Top, Len(calls), Len(gens)) /\ CatchOK(stack, Len(stack))
  BY <1>1, <1>2 DEF FramesOK, Top
<1> QED
  BY <1>1, <1>2, <1>3, <1>4, <1>5, <1>6

LEMMA Deeper ==
    ASSUME CInv, Top.kind # "user"
    PROVE  Len(stack) > 1
<1>1. Len(stack) \in Nat /\ Len(stack) > 0 /\ stack[1].kind = "user"
  BY Basics, StackFacts DEF StackOK
<1>2. Len(stack) # 1
  BY <1>1 DEF Top
<1> QED
  BY <1>1, <1>2

\* What a step of PHP code or of a settlement leaves alone.
Plainly ==
    /\ UNCHANGED <<library, history>>
    /\ acts' \in 0 .. MaxActs /\ mine' \subseteq DOMAIN obj'
    /\ dropped' = dropped \cup Overwritten

\* No settlement is about to call a closure.
HandsNone ==
    Top.kind = "settle" /\ Top.step = 1 =>
        /\ ~(obj[Top.p].state = "FULFILLED" /\ obj[Top.p].onFullfilled.kind = "library")
        /\ ~(obj[Top.p].state = "REJECTED" /\ obj[Top.p].onRejected.kind = "library")

LEMMA PlainStep ==
    ASSUME CInv, IInv', Keeps(obj, obj'), Plainly, NoneResumed, HandsNone,
           NEW m, FrameStep(m), CalmStep(m), HeapStep(0, Nothing)
    PROVE  CInv'
<1>1. HandsOn(0, Nothing)
  BY NothingGiven DEF HandsNone
<1>2. Steps(m, 0, Nothing)
  BY <1>1, GivenNothing DEF Steps
<1> QED
  BY <1>2, PlainInv DEF Plainly

LEMMA MineStays ==
    ASSUME CInv, Keeps(obj, obj'), mine' = mine
    PROVE  mine' \subseteq DOMAIN obj'
  BY Basics DEF Keeps

LEMMA ActsStays ==
    ASSUME CInv, Acts \/ acts' = acts
    PROVE  acts' \in 0 .. MaxActs
  BY Basics, CombinatorsBounds DEF Acts

LEMMA CUserThens ==
    ASSUME CInv, NEW p \in mine, NEW form \in Forms, UserThens(p, form),
           dropped' = dropped \cup Overwritten
    PROVE  CInv'
<1> DEFINE given == [slot \in form |-> User]
           m == Len(stack)
<1>1. /\ Acts /\ Then(p, form) /\ UNCHANGED <<library, history>>
      /\ mine' = mine \/ mine' = mine \cup {Len(obj) + 1}
  BY DEF UserThens
<1>2. /\ IInv /\ HeapOK(obj) /\ StackOK(obj, stack) /\ p \in DOMAIN obj
      /\ mine \subseteq DOMAIN obj /\ p # 0 /\ Len(stack) \in Nat
  BY Basics, HeapFacts
<1>3. Top.kind \in {"user", "generator"} /\ CallThen(p, given, stack)
  BY <1>1 DEF Then, InUserCode
<1>4. IInv' /\ Keeps(obj, obj')
  BY <1>1, <1>2, StepThen
<1>5. DOMAIN given \subseteq Slots /\ \A x \in DOMAIN given : given[x] \in Fn /\ given[x] = User
  BY BoundsAssumption DEF Slots, User, Fn
<1> HIDE DEF given, m
<1>6. Calm(stack, m) /\ stack[m] = Top
  BY <1>2, <1>3, CalmStack DEF m
<1>7. FrameStep(m) /\ CalmStep(m) /\ HeapStep(p, given)
  BY <1>2, <1>3, <1>5, <1>6, CallThenCalm
<1>8. GivenOK(given, closures')
  BY <1>5 DEF GivenOK, FulfilSlot, RejectSlot, FinalSlot, User
<1>9. HandsOn(p, given) /\ NoneResumed
  BY <1>3, NothingGiven, NoDrive
<1>10. mine' \subseteq DOMAIN obj'
  <2>1. Len(obj) + 1 \in DOMAIN obj'
    BY <1>2, <1>7 DEF HeapStep
  <2> QED
    BY <1>1, <1>2, <1>4, <2>1 DEF Keeps
<1>11. acts' \in 0 .. MaxActs
  BY <1>1, ActsStays
<1>12. Steps(m, p, given)
  BY <1>7, <1>8, <1>9 DEF Steps
<1> QED
  BY <1>1, <1>4, <1>9, <1>10, <1>11, <1>12, PlainInv

LEMMA CUserSettles ==
    ASSUME CInv, UserSettles, dropped' = dropped \cup Overwritten
    PROVE  CInv'
<1> DEFINE m == Len(stack)
<1>1. /\ Acts /\ UNCHANGED <<library, mine, history>>
      /\ \E p \in Own : Reject(p) \/ \E v \in {0} \cup mine : Resolve(p, v)
  BY DEF UserSettles
<1>2. /\ IInv /\ HeapOK(obj) /\ StackOK(obj, stack) /\ Len(stack) \in Nat
      /\ Own \subseteq DOMAIN obj /\ 0 \in 0 .. Len(obj)
      /\ \A v \in {0} \cup mine : v \in 0 .. Len(obj)
  BY Basics
<1>3. Top.kind \in {"user", "generator"}
  BY <1>1 DEF Acts, InUserCode
<1>4. Calm(stack, m) /\ ~Catching(stack[m])
  BY <1>2, <1>3, CalmStack DEF Catching, Top
<1> HIDE DEF m
<1>5. /\ IInv' /\ Keeps(obj, obj')
      /\ FrameStep(m) /\ CalmStep(m) /\ HeapStep(0, Nothing)
  <2>1. ASSUME NEW p \in Own, Reject(p)
        PROVE  /\ IInv' /\ Keeps(obj, obj')
               /\ FrameStep(m) /\ CalmStep(m) /\ HeapStep(0, Nothing)
    <3>1. /\ p \in DOMAIN obj /\ obj[p].state = "PENDING"
          /\ obj' = [obj EXCEPT ![p].state = "REJECTED"]
          /\ stack' = Append(stack, Settle(p, 0, FALSE))
      BY <1>2, <2>1 DEF Reject
    <3>2. PICK r : SettledAs(obj, p, r, "REJECTED") /\ ObjectChanged(obj, obj', p, r)
      BY <1>2, <3>1, SettlesAs
    <3>3. FrameStep(m) /\ CalmStep(m) /\ HeapStep(0, Nothing)
      BY <1>2, <1>4, <3>1, <3>2, SettleCalm
    <3>4. IInv' /\ Keeps(obj, obj')
      BY <1>2, <2>1, <3>1, StepReject
    <3> QED
      BY <3>3, <3>4
  <2>2. ASSUME NEW p \in Own, NEW v \in {0} \cup mine, Resolve(p, v)
        PROVE  /\ IInv' /\ Keeps(obj, obj')
               /\ FrameStep(m) /\ CalmStep(m) /\ HeapStep(0, Nothing)
    <3>1. /\ p \in DOMAIN obj /\ obj[p].state = "PENDING" /\ v \in 0 .. Len(obj)
          /\ stack' = Append(stack, Settle(p, v, FALSE))
      BY <1>2, <2>2 DEF Resolve
    <3>2. PICK r : SettledAs(obj, p, r, "FULFILLED") /\ ObjectChanged(obj, obj', p, r)
      BY <1>2, <2>2, <3>1, ResolvesAs
    <3>3. FrameStep(m) /\ CalmStep(m) /\ HeapStep(0, Nothing)
      BY <1>2, <1>4, <3>1, <3>2, SettleCalm
    <3>4. IInv' /\ Keeps(obj, obj')
      BY <1>2, <2>2, <3>1, StepResolve
    <3> QED
      BY <3>3, <3>4
  <2> QED
    BY <1>1, <2>1, <2>2
<1>6. Plainly
  BY <1>1, <1>5, MineStays, ActsStays DEF Plainly
<1>7. NoneResumed /\ HandsNone
  BY <1>3, NoDrive DEF HandsNone
<1> QED
  BY <1>5, <1>6, <1>7, PlainStep

\* A frame that is no settlement is left, with the value v.
LEMMA LeavesCalm ==
    ASSUME CInv, Top.kind \notin {"settle", "generator"}, Len(stack) > 1, NEW v,
           stack' = Returned(Below, v), obj' = obj
    PROVE  \E m : FrameStep(m) /\ CalmStep(m) /\ HeapStep(0, Nothing)
<1> DEFINE m == Len(stack) - 1
<1>1. HeapOK(obj) /\ StackOK(obj, stack) /\ Len(stack) \in Nat
  BY Basics
<1>2. Calm(Below, m) /\ Below[m] = stack[m]
  BY <1>1, CalmBelow
<1>3. ~Catching(stack[m])
  BY NotCatching
<1> HIDE DEF m
<1>4. ~Catching(Below[m])
  BY <1>2, <1>3
<1>5. FrameStep(m) /\ CalmStep(m)
  BY <1>1, <1>2, <1>4, ReturnCalm
<1> QED
  BY <1>1, <1>5, HeapSame

\* An exception leaves the code on top, which is not of a generator.
LEMMA RaisesCalm ==
    ASSUME CInv, Top.kind # "generator", Len(stack) > 1, Raise(Below)
    PROVE  \E m : FrameStep(m) /\ CalmStep(m) /\ HeapStep(0, Nothing)
<1> DEFINE m == Len(stack) - 1
<1>1. HeapOK(obj) /\ StackOK(obj, stack) /\ Len(stack) \in Nat
  BY Basics
<1>2. Calm(Below, m)
  BY <1>1, CalmBelow
<1>3. StackOK(obj, Below)
  <2>1. m \in 1 .. Len(stack) /\ Below = SubSeq(stack, 1, m)
    BY <1>1 DEF Below
  <2> HIDE DEF m
  <2> QED
    BY <1>1, <2>1, Popped
<1> HIDE DEF m
<1>4. Rest(Below, m) /\ \A j \in 1 .. Len(stack) : j > m => stack[j].kind # "generator"
  BY <1>2 DEF Calm
<1>5. PICK n : FrameStep(n) /\ CalmStep(n)
  BY <1>1, <1>3, <1>4, RaiseCalm
<1>6. obj' = obj
  BY DEF Raise
<1> QED
  BY <1>1, <1>5, <1>6, HeapSame

LEMMA CUserLeaves ==
    ASSUME CInv, UserLeaves, dropped' = dropped \cup Overwritten
    PROVE  CInv'
<1>1. /\ UNCHANGED <<library, mine, history>> /\ (Acts \/ acts' = acts)
      /\ Throw \/ \E v \in {0} \cup mine : Return(v)
  BY DEF UserLeaves
<1>2. /\ IInv /\ HeapOK(obj) /\ StackOK(obj, stack) /\ Len(stack) \in Nat
      /\ 0 \in 0 .. Len(obj) /\ DOMAIN obj = 1 .. Len(obj)
      /\ \A v \in {0} \cup mine : v \in 0 .. Len(obj)
      /\ FrameOK(obj, Top)
  BY Basics
<1>3. Top.kind = "user" /\ Len(stack) > 1
  BY <1>1 DEF Return, Throw
<1>4. NoneResumed /\ HandsNone
  BY <1>3, NoDrive DEF HandsNone
<1>5. /\ IInv' /\ Keeps(obj, obj')
      /\ \E m : FrameStep(m) /\ CalmStep(m) /\ HeapStep(0, Nothing)
  <2>1. ASSUME NEW v \in {0} \cup mine, Return(v)
        PROVE  /\ IInv' /\ Keeps(obj, obj')
               /\ \E m : FrameStep(m) /\ CalmStep(m) /\ HeapStep(0, Nothing)
    <3>1. IInv' /\ Keeps(obj, obj')
      BY <1>2, <2>1, StepReturn
    <3>2. stack' = Returned(Below, v) /\ obj' = obj
      BY <2>1 DEF Return
    <3> QED
      BY <1>3, <3>1, <3>2, LeavesCalm
  <2>2. ASSUME Throw
        PROVE  /\ IInv' /\ Keeps(obj, obj')
               /\ \E m : FrameStep(m) /\ CalmStep(m) /\ HeapStep(0, Nothing)
    <3>1. IInv' /\ Keeps(obj, obj')
      BY <1>2, <2>2, StepThrow
    <3>2. CASE Top.exec # 0 /\ obj[Top.exec].state = "PENDING"
      <4> DEFINE n == Top.exec
                 m == Len(stack) - 1
      <4>1. n \in DOMAIN obj
        <5>1. n \in Nat /\ n <= Len(obj)
          BY <1>2, <1>3, FrameFacts DEF FrameOK
        <5> QED
          BY <1>2, <3>2, <5>1
      <4>2. /\ obj' = [obj EXCEPT ![n].state = "REJECTED"]
            /\ stack' = Append(Below, Settle(n, 0, FALSE))
        BY <2>2, <3>2 DEF Throw
      <4>3. Calm(Below, m) /\ Below[m] = stack[m] /\ ~Catching(stack[m])
        BY <1>2, <1>3, CalmBelow, NotCatching
      <4> HIDE DEF m, n
      <4>4. ~Catching(Below[m])
        BY <4>3
      <4>5. PICK r : SettledAs(obj, n, r, "REJECTED") /\ ObjectChanged(obj, obj', n, r)
        BY <1>2, <4>1, <4>2, SettlesAs
      <4>6. obj[n].state = "PENDING"
        BY <3>2 DEF n
      <4>7. FrameStep(m) /\ CalmStep(m) /\ HeapStep(0, Nothing)
        BY <1>2, <4>1, <4>2, <4>3, <4>4, <4>5, <4>6, SettleCalm
      <4> QED
        BY <3>1, <4>7
    <3>3. CASE ~(Top.exec # 0 /\ obj[Top.exec].state = "PENDING")
      <4>1. Raise(Below)
        BY <2>2, <3>3 DEF Throw
      <4>2. \E m : FrameStep(m) /\ CalmStep(m) /\ HeapStep(0, Nothing)
        BY <1>3, <4>1, RaisesCalm
      <4> QED
        BY <3>1, <4>2
    <3> QED
      BY <3>2, <3>3
  <2> QED
    BY <1>1, <2>1, <2>2
<1>6. Plainly
  <2>1. /\ mine' = mine /\ (Acts \/ acts' = acts)
        /\ UNCHANGED <<library, history>>
    BY <1>1
  <2>2. Keeps(obj, obj')
    BY <1>5
  <2>3. mine' \subseteq DOMAIN obj'
    BY <2>1, <2>2, MineStays
  <2>4. acts' \in 0 .. MaxActs
    BY <2>1, ActsStays
  <2> QED
    BY <2>1, <2>3, <2>4 DEF Plainly
<1> QED
  BY <1>4, <1>5, <1>6, PlainStep

LEMMA CCombineDone ==
    ASSUME CInv, CombineDone, dropped' = dropped \cup Overwritten
    PROVE  CInv'
<1> DEFINE m == Len(stack) - 1
<1>1. /\ Top.kind = "combine" /\ stack' = Below /\ mine' = mine \cup {calls[Top.c].agg}
      /\ UNCHANGED <<obj, cut, lost, library, acts, history>>
  BY DEF CombineDone, Combining
<1>2. /\ IInv /\ HeapOK(obj) /\ StackOK(obj, stack) /\ Len(stack) \in Nat /\ LibraryOK
      /\ mine \subseteq DOMAIN obj /\ acts \in 0 .. MaxActs
      /\ InLibrary(Top, Len(calls), Len(gens))
  BY Basics
<1>3. Len(stack) > 1
  BY <1>1, Deeper
<1>4. /\ StackOK(obj, Below) /\ RejectsFrom(obj, Below, cut)
      /\ FulfilsFrom(obj, Below, cut \cup lost)
  BY <1>1, <1>2, <1>3, InUser
<1>5. IInv' /\ Keeps(obj, obj')
  BY <1>1, <1>2, <1>4, MoveInv
<1>6. Calm(Below, m) /\ Below[m] = stack[m] /\ ~Catching(stack[m])
  BY <1>1, <1>2, <1>3, CalmBelow, NotCatching
<1> HIDE DEF m
<1>7. ~Catching(Below[m])
  BY <1>6
<1>8. FrameStep(m) /\ CalmStep(m) /\ HeapStep(0, Nothing)
  BY <1>1, <1>2, <1>6, <1>7, StopCalm, HeapSame
<1>9. calls[Top.c].agg \in DOMAIN obj
  <2>1. Top.c \in DOMAIN calls
    BY <1>1, <1>2 DEF InLibrary, LibraryOK
  <2> QED
    BY <1>2, <2>1 DEF LibraryOK, CallOK
<1>10. Plainly
  BY <1>1, <1>2, <1>9 DEF Plainly
<1>11. NoneResumed /\ HandsNone
  BY <1>1, NoDrive DEF HandsNone
<1> QED
  BY <1>5, <1>8, <1>10, <1>11, PlainStep

\* The driver returns.
LEMMA DriveReturns ==
    ASSUME CInv, Top.kind = "drive", Plainly, NoneResumed,
           stack' = Returned(Below, 0), UNCHANGED <<obj, cut, lost>>
    PROVE  CInv'
<1>1. /\ IInv /\ Len(obj) \in Nat /\ Len(obj) <= MaxPromises /\ 0 \in 0 .. Len(obj)
  BY Basics
<1>2. Len(stack) > 1
  BY Deeper
<1>3. PICK m : FrameStep(m) /\ CalmStep(m) /\ HeapStep(0, Nothing)
  BY <1>2, LeavesCalm
<1>4. /\ StackOK(obj, Below) /\ RejectsFrom(obj, Below, cut)
      /\ FulfilsFrom(obj, Below, cut \cup lost)
  BY <1>1, <1>2, InUser
<1>5. StackOK(obj, stack') /\ \A p : Reaches(Below, p) => Reaches(stack', p)
  BY <1>1, <1>4, ReturnedInto
<1>6. IInv' /\ Keeps(obj, obj')
  BY <1>1, <1>4, <1>5, MoveInv
<1>7. HandsNone
  BY DEF HandsNone
<1> QED
  BY <1>3, <1>6, <1>7, PlainStep

LEMMA CDriveEnd ==
    ASSUME CInv, DriveEnd, dropped' = dropped \cup Overwritten
    PROVE  CInv'
<1>1. /\ Top.kind = "drive" /\ Top.at = "end" /\ stack' = Returned(Below, 0)
      /\ UNCHANGED <<obj, cut, lost, library, held, history>>
  BY DEF DriveEnd, Driving
<1>2. NoneResumed
  BY <1>1 DEF NoneResumed, Resuming, Top
<1>3. Plainly
  BY <1>1, Basics DEF Plainly, held
<1> QED
  BY <1>1, <1>2, <1>3, DriveReturns

LEMMA CFinishes ==
    ASSUME CInv, Finishes, dropped' = dropped \cup Overwritten
    PROVE  CInv'
<1> DEFINE m == Len(stack) - 1
           v == IF Top.gives THEN obj[Top.p].next ELSE 0
<1>1. /\ Finish /\ UNCHANGED <<library, acts, history>>
      /\ mine' = mine \/ (Top.gives /\ mine' = mine \cup {obj[Top.p].next})
  BY DEF Finishes
<1>2. /\ Top.kind = "settle" /\ Top.step = 4 /\ stack' = Returned(Below, v)
      /\ UNCHANGED <<obj, cut, lost>>
  BY <1>1 DEF Finish
<1>3. /\ IInv /\ HeapOK(obj) /\ StackOK(obj, stack) /\ Len(stack) \in Nat
      /\ mine \subseteq DOMAIN obj /\ acts \in 0 .. MaxActs
      /\ DOMAIN stack = 1 .. Len(stack) /\ FrameOK(obj, Top)
  BY Basics
<1>4. Len(stack) > 1
  BY <1>2, Deeper
<1>5. IInv' /\ Keeps(obj, obj')
  BY <1>1, <1>3, StepFinish
<1>6. Top.gives => obj[Top.p].next \in DOMAIN obj /\ obj[Top.p].next # 0
  BY <1>2, <1>3, HeapFacts DEF FrameOK
<1>7. Calm(Below, m) /\ Below[m] = stack[m]
  BY <1>2, <1>3, <1>4, CalmBelow
<1>8. m \in DOMAIN stack /\ m # Len(stack) /\ m + 1 = Len(stack)
  <2> DEFINE n == Len(stack)
  <2>1. n \in Nat /\ n > 1 /\ DOMAIN stack = 1 .. n
    BY <1>3, <1>4
  <2> HIDE DEF n
  <2>2. n - 1 \in DOMAIN stack /\ n - 1 # n /\ (n - 1) + 1 = n
    BY <2>1
  <2> QED
    BY <2>2 DEF n
<1>9. Catching(stack[m]) => Top.gives
  <2>1. CatchOK(stack, m)
    BY <1>8 DEF CInv, FramesOK
  <2> QED
    BY <1>8, <2>1 DEF CatchOK, Top
<1>10. Catching(Below[m]) => v # 0
  BY <1>6, <1>7, <1>9
<1> HIDE DEF m, v
<1>11. FrameStep(m) /\ CalmStep(m) /\ HeapStep(0, Nothing)
  BY <1>2, <1>3, <1>7, <1>10, ReturnCalm, HeapSame
<1>12. Plainly
  BY <1>1, <1>2, <1>3, <1>6 DEF Plainly
<1>13. NoneResumed /\ HandsNone
  BY <1>2, NoDrive DEF HandsNone
<1> QED
  BY <1>5, <1>11, <1>12, <1>13, PlainStep

-----------------------------------------------------------------------------
(* The steps of settlements that call nothing of the library. *)

\* A step raises from a settlement.
LEMMA SettleRaises ==
    ASSUME CInv, Top.kind = "settle", Raise(stack)
    PROVE  \E m : FrameStep(m) /\ CalmStep(m) /\ HeapStep(0, Nothing)
<1>1. HeapOK(obj) /\ StackOK(obj, stack) /\ Len(stack) \in Nat
  BY Basics
<1>2. Rest(stack, Len(stack)) /\ \A j \in 1 .. Len(stack) : ~(j > Len(stack))
  BY <1>1, RestStack
<1>3. PICK n : FrameStep(n) /\ CalmStep(n)
  BY <1>1, <1>2, RaiseCalm
<1>4. obj' = obj
  BY DEF Raise
<1> QED
  BY <1>1, <1>3, <1>4, HeapSame

\* A settlement goes on, and settles promise n.
LEMMA SettleSettles ==
    ASSUME CInv, Top.kind = "settle", Top.step < 4, NEW n \in DOMAIN obj,
           NEW st \in {"FULFILLED", "REJECTED"}, obj[n].state = "PENDING",
           obj' = [obj EXCEPT ![n].state = st],
           stack' = Append(Advanced, Settle(n, 0, FALSE))
    PROVE  \E m : FrameStep(m) /\ CalmStep(m) /\ HeapStep(0, Nothing)
<1>1. IInv /\ HeapOK(obj) /\ 0 \in 0 .. Len(obj)
  BY Basics
<1>2. /\ Calm(Advanced, Len(stack)) /\ ~Catching(Advanced[Len(stack)])
      /\ Len(stack) \in Nat
  BY <1>1, CalmAdvanced
<1>3. PICK r : SettledAs(obj, n, r, st) /\ ObjectChanged(obj, obj', n, r)
  BY <1>1, SettlesAs
<1> QED
  BY <1>1, <1>2, <1>3, SettleCalm

\* What a settlement may call, from where it came.
LEMMA FnAtFacts ==
    ASSUME CInv, Top.kind = "settle", Top.step < 4
    PROVE  /\ Top.step \in {1, 2, 3} /\ Top.p \in DOMAIN obj
           /\ obj[Top.p].state \in {"FULFILLED", "REJECTED"}
           /\ obj[Top.p].state = "FULFILLED" /\ Top.step = 1 =>
                 FnAt(Top) = obj[Top.p].onFullfilled
           /\ obj[Top.p].state = "REJECTED" /\ Top.step = 1 =>
                 FnAt(Top) = obj[Top.p].onRejected
           /\ FnAt(Top).kind = "library" =>
                 /\ FnAt(Top).n \in DOMAIN closures /\ Top.step = 1
                 /\ closures[FnAt(Top).n].role = "reject" <=> obj[Top.p].state = "REJECTED"
           /\ obj[Top.p].state = "FULFILLED" => FulfilSlot(FnAt(Top), closures)
           /\ FnAt(Top).kind = "resolve" /\ Top.step = 1 => obj[Top.p].state = "FULFILLED"
<1>1. /\ IInv /\ SlotsOK(obj, closures) /\ FrameOK(obj, Top) /\ HeapOK(obj)
  BY Basics DEF CInv
<1>2. Top.p \in DOMAIN obj /\ Top.step \in 1 .. 4 /\ obj[Top.p].state # "PENDING"
  BY <1>1, SettlementFacts DEF FrameOK
<1>3. Top.step \in {1, 2, 3} /\ obj[Top.p].state \in {"FULFILLED", "REJECTED"}
  BY <1>1, <1>2, HeapFacts
<1>4. /\ FulfilSlot(obj[Top.p].onFullfilled, closures)
      /\ RejectSlot(obj[Top.p].onRejected, closures) /\ FinalSlot(obj[Top.p].onFinaled)
  BY <1>1, <1>2 DEF SlotsOK
<1>5. CASE Top.step = 1 /\ obj[Top.p].state = "FULFILLED"
  <2>1. FnAt(Top) = obj[Top.p].onFullfilled
    BY <1>5 DEF FnAt
  <2> QED
    BY <1>2, <1>3, <1>4, <1>5, <2>1 DEF FulfilSlot
<1>6. CASE Top.step = 1 /\ obj[Top.p].state = "REJECTED"
  <2>1. FnAt(Top) = obj[Top.p].onRejected
    BY <1>6 DEF FnAt
  <2> QED
    BY <1>2, <1>3, <1>4, <1>6, <2>1 DEF RejectSlot
<1>7. CASE Top.step = 2
  <2>1. FnAt(Top) = obj[Top.p].onFinaled
    BY <1>7 DEF FnAt
  <2> QED
    BY <1>2, <1>3, <1>4, <1>7, <2>1 DEF FinalSlot, FulfilSlot
<1>8. CASE Top.step = 3
  <2>1. FnAt(Top).kind \in {"none", "resolve"}
    BY <1>8 DEF FnAt, NoFn, ResolveOf
  <2> QED
    BY <1>2, <1>3, <1>8, <2>1 DEF FulfilSlot
<1> QED
  BY <1>3, <1>5, <1>6, <1>7, <1>8

\* No closure of the library is called.
LEMMA CallsNone ==
    ASSUME CInv, Top.kind = "settle", Top.step < 4, FnAt(Top).kind # "library"
    PROVE  HandsNone
  BY FnAtFacts DEF HandsNone

LEMMA CSettlePlain ==
    ASSUME CInv, SkipStep \/ CallUser \/ CallResolve \/ RejectNext,
           UNCHANGED <<library, held, history>>, dropped' = dropped \cup Overwritten
    PROVE  CInv'
<1>1. /\ IInv /\ HeapOK(obj) /\ StackOK(obj, stack) /\ Len(stack) \in Nat
      /\ acts \in 0 .. MaxActs
  BY Basics
<1>2. Top.kind = "settle" /\ Top.step < 4
  <2>1. Top.kind = "settle" /\ (Top.step < 4 \/ Top.step \in {1, 2, 3})
    BY DEF SkipStep, CallUser, CallResolve, RejectNext, InSettle
  <2> QED
    BY <2>1
<1>3. /\ Calm(Advanced, Len(stack)) /\ ~Catching(Advanced[Len(stack)])
  BY <1>1, <1>2, CalmAdvanced
<1>4. /\ IInv' /\ Keeps(obj, obj') /\ HandsNone
      /\ \E m : FrameStep(m) /\ CalmStep(m) /\ HeapStep(0, Nothing)
  <2>1. CASE SkipStep
    <3>1. IInv' /\ Keeps(obj, obj')
      BY <1>1, <2>1, StepSkip
    <3>2. stack' = Advanced /\ obj' = obj /\ FnAt(Top).kind # "library"
      BY <2>1 DEF SkipStep
    <3>3. FrameStep(Len(stack)) /\ CalmStep(Len(stack))
      BY <1>1, <1>3, <3>2, StopCalm
    <3> QED
      BY <1>1, <1>2, <3>1, <3>2, <3>3, CallsNone, HeapSame
  <2>2. CASE CallUser
    <3> DEFINE f == [kind |-> "user", exec |-> 0, void |-> FnAt(Top).void]
    <3>1. IInv' /\ Keeps(obj, obj')
      BY <1>1, <2>2, StepCallUser
    <3>2. stack' = Append(Advanced, f) /\ obj' = obj /\ FnAt(Top).kind # "library"
      BY <2>2 DEF CallUser
    <3>3. /\ f.kind = "user" /\ ~Catching(f) /\ InLibrary(f, Len(calls'), Len(gens'))
      BY DEF Catching, InLibrary
    <3> HIDE DEF f
    <3>4. f \in Frame
      <4>1. StackOK(obj', stack') /\ stack' \in Seq(Frame)
        BY <3>1, StackFacts DEF IInv
      <4>2. Advanced \in Seq(Frame) /\ Len(Advanced) = Len(stack)
        BY <1>3 DEF Calm, Rest
      <4>3. Len(stack) + 1 \in DOMAIN stack' /\ stack'[Len(stack) + 1] = f
        BY <1>1, <3>2, <4>2
      <4> QED
        BY <4>1, <4>3, StackFacts
    <3>5. FrameStep(Len(stack)) /\ CalmStep(Len(stack))
      BY <1>1, <1>3, <3>2, <3>3, <3>4, PushCalm
    <3> QED
      BY <1>1, <1>2, <3>1, <3>2, <3>5, CallsNone, HeapSame
  <2>3. CASE CallResolve
    <3> DEFINE n == FnAt(Top).n
    <3>1. IInv' /\ Keeps(obj, obj')
      BY <1>1, <2>3, StepCallResolve
    <3>2. /\ FnAt(Top).kind = "resolve" /\ Resolves(FnAt(Top)) = {n}
          /\ obj[Top.p].state = "FULFILLED"
      BY <2>3 DEF CallResolve, InSettle, Resolves
    <3>3. n \in DOMAIN obj
      BY <1>1, <1>2, <3>2, SettlementFacts
    <3>4. CASE obj[n].state = "PENDING"
      <4>1. /\ obj' = [obj EXCEPT ![n].state = "FULFILLED"]
            /\ stack' = Append(Advanced, Settle(n, 0, FALSE))
        BY <2>3, <3>4 DEF CallResolve
      <4> HIDE DEF n
      <4> QED
        BY <1>2, <3>1, <3>2, <3>3, <3>4, <4>1, SettleSettles, CallsNone
    <3>5. CASE obj[n].state # "PENDING"
      <4>1. Raise(stack)
        BY <2>3, <3>5 DEF CallResolve
      <4> QED
        BY <1>2, <3>1, <3>2, <4>1, SettleRaises, CallsNone
    <3> QED
      BY <3>4, <3>5
  <2>4. CASE RejectNext
    <3> DEFINE n == obj[Top.p].next
    <3>1. IInv' /\ Keeps(obj, obj')
      BY <1>1, <2>4, StepRejectNext
    <3>2. n # 0 /\ Top.step = 3 /\ Top.p \in DOMAIN obj
      BY <1>1, <1>2, <2>4, SettlementFacts DEF RejectNext, InSettle
    <3>3. n \in DOMAIN obj /\ HandsNone
      BY <1>1, <3>2, HeapFacts DEF HandsNone
    <3>4. CASE obj[n].state = "PENDING"
      <4>1. /\ obj' = [obj EXCEPT ![n].state = "REJECTED"]
            /\ stack' = Append(Advanced, Settle(n, 0, FALSE))
        BY <2>4, <3>4 DEF RejectNext
      <4> HIDE DEF n
      <4> QED
        BY <1>2, <3>1, <3>3, <3>4, <4>1, SettleSettles
    <3>5. CASE obj[n].state # "PENDING"
      <4>1. Raise(stack)
        BY <2>4, <3>5 DEF RejectNext
      <4> QED
        BY <1>2, <3>1, <3>3, <4>1, SettleRaises
    <3> QED
      BY <3>4, <3>5
  <2> QED
    BY <2>1, <2>2, <2>3, <2>4
<1>5. Plainly
  <2>1. mine' = mine /\ acts' = acts
    BY DEF held
  <2>2. mine' \subseteq DOMAIN obj'
    BY <1>4, <2>1, MineStays
  <2> QED
    BY <1>1, <2>1, <2>2 DEF Plainly
<1>6. NoneResumed
  BY <1>2, NoDrive
<1> QED
  BY <1>4, <1>5, <1>6, PlainStep

LEMMA CAdopt ==
    ASSUME CInv, Adopt, UNCHANGED <<library, held, history>>,
           dropped' = dropped \cup Overwritten
    PROVE  CInv'
<1> DEFINE g == [FnAt(Top) EXCEPT !.void = TRUE]
           given == [slot \in {"onFullfilled"} |-> g]
           p == Top.value
           m == Len(stack)
<1>1. /\ IInv /\ HeapOK(obj) /\ StackOK(obj, stack) /\ Len(stack) \in Nat
      /\ acts \in 0 .. MaxActs /\ DOMAIN obj = 1 .. Len(obj) /\ Len(obj) \in Nat
  BY Basics
<1>2. /\ Top.kind = "settle" /\ Top.step < 4 /\ obj[Top.p].state = "FULFILLED"
      /\ p # 0 /\ CallThen(p, given, Advanced)
  BY DEF Adopt, InSettle
<1>3. IInv' /\ Keeps(obj, obj')
  BY <1>1, StepAdopt
<1>4. p \in DOMAIN obj /\ FnAt(Top) \in Fn
  BY <1>1, <1>2, SettlementFacts
<1>5. g \in Fn /\ g.kind = FnAt(Top).kind /\ g.n = FnAt(Top).n
  BY <1>4 DEF Fn
<1>6. /\ DOMAIN given \subseteq Slots /\ DOMAIN given = {"onFullfilled"}
      /\ given["onFullfilled"] = g /\ \A x \in DOMAIN given : given[x] = g
  BY DEF Slots
<1>7. FulfilSlot(g, closures')
  <2>1. FulfilSlot(FnAt(Top), closures) /\ closures' = closures
    BY <1>2, FnAtFacts DEF library
  <2> QED
    BY <1>5, <2>1 DEF FulfilSlot
<1> HIDE DEF g, given, m, p
<1>8. Calm(Advanced, m) /\ ~Catching(Advanced[m])
  BY <1>1, <1>2, CalmAdvanced DEF m
<1>9. FrameStep(m) /\ CalmStep(m) /\ HeapStep(p, given)
  BY <1>1, <1>2, <1>4, <1>5, <1>6, <1>8, CallThenCalm
<1>10. GivenOK(given, closures')
  BY <1>6, <1>7 DEF GivenOK
<1>11. HandsOn(p, given)
  <2>0. ASSUME NEW q \in DOMAIN obj, Begins(stack, q) PROVE obj[q].state # "REJECTED"
    BY <1>2, <2>0 DEF Begins, Top
  <2> SUFFICES ASSUME NEW q \in DOMAIN obj, Begins(stack, q),
                      obj[q].state = "FULFILLED", obj[q].onFullfilled.kind = "library"
               PROVE  Places(p, given, obj[q].onFullfilled.n)
    BY <2>0 DEF HandsOn
  <2>1. q = Top.p /\ Top.step = 1
    BY DEF Begins, Top
  <2>2. FnAt(Top) = obj[q].onFullfilled
    BY <1>2, <2>1, FnAtFacts
  <2> QED
    BY <1>2, <1>5, <1>6, <2>2 DEF Places, IsClosure
<1>12. Steps(m, p, given) /\ NoneResumed
  BY <1>2, <1>9, <1>10, <1>11, NoDrive DEF Steps
<1>13. acts' \in 0 .. MaxActs /\ mine' \subseteq DOMAIN obj'
  BY <1>1, <1>3, MineStays DEF held
<1> QED
  BY <1>3, <1>12, <1>13, PlainInv

-----------------------------------------------------------------------------
(* The steps of all() and race(). *)

\* Calls keep what they were called with.
CallsKept ==
    /\ Grows(calls, calls')
    /\ \A c \in DOMAIN calls : /\ calls'[c].kind = calls[c].kind
                               /\ calls'[c].agg = calls[c].agg
                               /\ calls'[c].inputs = calls[c].inputs

LEMMA CallsSame ==
    ASSUME LibraryOK
    PROVE  /\ calls' = calls => CallsKept
           /\ gens' = gens => Grows(gens, gens')
           /\ closures' = closures => Extends(closures, closures')
  BY DEF LibraryOK, CallsKept, Grows, Extends

\* One call changes.
LEMMA CallChanged ==
    ASSUME LibraryOK, NEW c \in DOMAIN calls, NEW r \in Call,
           r.kind = calls[c].kind, r.agg = calls[c].agg, r.inputs = calls[c].inputs,
           calls' = [calls EXCEPT ![c] = r]
    PROVE  calls' \in Seq(Call) /\ CallsKept /\ DOMAIN calls' = DOMAIN calls
<1>1. calls \in Seq(Call)
  BY DEF LibraryOK
<1>2. calls' \in Seq(Call) /\ Len(calls') = Len(calls) /\ DOMAIN calls' = DOMAIN calls
  BY <1>1
<1>3. /\ Len(calls) \in Nat /\ DOMAIN calls = 1 .. Len(calls)
      /\ \A d \in DOMAIN calls : calls'[d] = IF d = c THEN r ELSE calls[d]
  BY <1>1
<1> QED
  BY <1>2, <1>3 DEF CallsKept, Grows

LEMMA LibraryNext ==
    ASSUME CInv, Keeps(obj, obj'), calls' \in Seq(Call), CallsKept,
           \A c \in DOMAIN calls' : c \in DOMAIN calls \/ CallOK(c)',
           gens' \in Seq(Generator), Grows(gens, gens'),
           \A g \in DOMAIN gens' : gens'[g].value \in 0 .. Len(obj'),
           closures' \in Seq(Closure), Extends(closures, closures'),
           \A n \in DOMAIN closures' : n \in DOMAIN closures \/ ClosureOK(n)',
           acts' \in 0 .. MaxActs, mine' \subseteq DOMAIN obj',
           reran' \subseteq ran', ran' \subseteq DOMAIN closures',
           dropped' = dropped \cup Overwritten
    PROVE  LibraryOK'
<1>1. LibraryOK /\ SlotsOK(obj, closures)
  BY DEF CInv
<1>2. \A p \in DOMAIN obj : p \in DOMAIN obj'
  BY DEF Keeps
<1>3. ASSUME NEW c \in DOMAIN calls PROVE CallOK(c)'
  <2>1. CallOK(c) /\ calls'[c].agg = calls[c].agg /\ calls'[c].inputs = calls[c].inputs
    BY <1>1 DEF LibraryOK, CallsKept
  <2> QED
    BY <1>2, <2>1 DEF CallOK
<1>4. ASSUME NEW n \in DOMAIN closures PROVE ClosureOK(n)'
  <2>1. ClosureOK(n) /\ closures'[n] = closures[n]
    BY <1>1 DEF LibraryOK, Extends
  <2>2. /\ \A c \in DOMAIN calls : c \in DOMAIN calls'
        /\ \A g \in DOMAIN gens : g \in DOMAIN gens'
    BY DEF CallsKept, Grows
  <2> QED
    BY <1>2, <2>1, <2>2 DEF ClosureOK
<1>5. Own \subseteq DOMAIN obj'
  BY <1>1, <1>2 DEF LibraryOK
<1>6. dropped' \subseteq DOMAIN closures'
  <2>1. Overwritten \subseteq DOMAIN closures /\ dropped \subseteq DOMAIN closures
    BY <1>1, OverwrittenClosures DEF LibraryOK
  <2>2. DOMAIN closures \subseteq DOMAIN closures'
    BY DEF Extends, Grows
  <2> QED
    BY <2>1, <2>2
<1> QED
  BY <1>3, <1>4, <1>5, <1>6 DEF LibraryOK

\* A step of all() or race() that begins no closure of async.
LEMMA CombineInv ==
    ASSUME CInv, IInv', Keeps(obj, obj'), calls' \in Seq(Call), CallsKept,
           \A c \in DOMAIN calls' : c \in DOMAIN calls \/ CallOK(c)', gens' = gens,
           closures' \in Seq(Closure), Extends(closures, closures'),
           NEW m, NEW p, NEW given, Steps(m, p, given),
           \A n \in DOMAIN closures' :
              \/ n \in DOMAIN closures
              \/ ClosureOK(n)' /\ closures'[n].role # "await" /\ Puts(p, given, n),
           acts' \in 0 .. MaxActs, mine' \subseteq DOMAIN obj',
           ran \subseteq ran', ran' \subseteq DOMAIN closures,
           \A n \in ran' : n \in ran \/ closures[n].role # "await",
           reran \subseteq reran', reran' \subseteq ran',
           Top.kind # "drive", dropped' = dropped \cup Overwritten
    PROVE  CInv'
<1>1. LibraryOK /\ DOMAIN closures \subseteq DOMAIN closures'
  BY DEF CInv, Extends, Grows
<1>2. /\ gens' \in Seq(Generator) /\ Grows(gens, gens')
      /\ \A g \in DOMAIN gens' : gens'[g].value \in 0 .. Len(obj')
  <2>1. \A n \in 0 .. Len(obj) : n \in 0 .. Len(obj')
    BY DEF Keeps
  <2> QED
    BY <1>1, <2>1, CallsSame DEF LibraryOK
<1>3. LibraryOK'
  BY <1>1, <1>2, LibraryNext
<1>4. \A n, g : Asks(n, g)' <=> Asks(n, g)
  <2> SUFFICES ASSUME NEW n, NEW g PROVE Asks(n, g)' <=> Asks(n, g)
    OBVIOUS
  <2>1. CASE n \in DOMAIN closures
    <3>1. n \in DOMAIN closures' /\ closures'[n] = closures[n]
      BY <1>1, <2>1 DEF Extends
    <3> QED
      BY <2>1, <3>1 DEF Asks
  <2>2. CASE n \notin DOMAIN closures
    BY <2>2 DEF Asks
  <2> QED
    BY <2>1, <2>2
<1>5. KeepsAwaits
  BY <1>4 DEF KeepsAwaits, CallsKept
<1>6. \A n \in DOMAIN closures' :
         n \in DOMAIN closures \/ Puts(p, given, n)
  OBVIOUS
<1> QED
  BY <1>3, <1>5, <1>6, NoDrive, CalmInv

\* The heap has room for another promise.
LEMMA FreshAdded ==
    ASSUME CInv, Len(obj) < MaxPromises, obj' = Append(obj, Fresh)
    PROVE  /\ PromiseAdded(obj, obj') /\ Len(obj) + 1 \in Value
           /\ 0 \in Value /\ Own \subseteq Value
<1>1. HeapOK(obj) /\ Len(obj) \in Nat /\ obj \in Seq(Object)
  BY Basics DEF HeapOK
<1>2. Fresh \in Object
  BY BoundsAssumption DEF Fresh, Object, NoFn, Fn, Value
<1>3. Len(obj) + 1 \in Value /\ 0 \in Value
  BY <1>1, BoundsAssumption DEF Value
<1>4. Own \subseteq Value
  BY CombinatorsBounds, BoundsAssumption DEF Own, Value
<1> QED
  BY <1>1, <1>2, <1>3, <1>4 DEF PromiseAdded

LEMMA CCallCombinator ==
    ASSUME CInv, NEW kind \in {"all", "race"}, NEW n \in 0 .. 2, NEW inputs \in [1 .. n -> Own],
           CallCombinator(kind, inputs), dropped' = dropped \cup Overwritten
    PROVE  CInv'
<1> DEFINE f == [kind |-> "combine", c |-> Len(calls) + 1, i |-> 1, at |-> "then", got |-> 0]
           k == [kind |-> kind, agg |-> Len(obj) + 1, inputs |-> inputs,
                 left |-> Len(inputs), results |-> {}, inner |-> <<>>, threw |-> FALSE]
           m == Len(stack)
<1>1. /\ IInv /\ HeapOK(obj) /\ StackOK(obj, stack) /\ LibraryOK /\ Len(stack) \in Nat
      /\ Len(obj) \in Nat /\ DOMAIN obj = 1 .. Len(obj) /\ Own \subseteq DOMAIN obj
      /\ RejectsFrom(obj, stack, cut) /\ HistoryOK
  BY Basics DEF IInv
<1>2. /\ Acts /\ Top.kind \in {"user", "generator"} /\ Len(obj) < MaxPromises
      /\ obj' = Append(obj, Fresh) /\ calls' = Append(calls, k)
      /\ stack' = Append(stack, f)
      /\ UNCHANGED <<cut, lost, gens, closures, mine, history>>
  BY DEF CallCombinator, Acts, InUserCode, CanCreate
<1>3. Len(obj) + 1 \in Value /\ 0 \in Value /\ Own \subseteq Value
  BY <1>2, FreshAdded
<1>4. PromiseAdded(obj, obj')
  BY <1>2, FreshAdded
<1>5. HeapOK(obj') /\ Keeps(obj, obj') /\ StackOK(obj', stack)
  BY <1>1, <1>2, <1>4, HeapAdded, StackKept
<1>6. /\ calls \in Seq(Call) /\ Len(calls) \in Nat /\ Len(calls) + 1 \in Nat
      /\ inputs \in Seq(Own) /\ inputs \in Seq(Value) /\ Len(inputs) \in Int
  <2>1. calls \in Seq(Call) /\ Len(calls) \in Nat /\ Len(calls) + 1 \in Nat
    BY <1>1 DEF LibraryOK
  <2>2. n \in Nat
    OBVIOUS
  <2>3. inputs \in Seq(Own) /\ inputs \in Seq(Value)
    BY <1>3, <2>2
  <2> QED
    BY <2>1, <2>3
<1>7. k \in Call /\ k.agg = Len(obj) + 1 /\ k.inputs = inputs
  <2>1. {} \in SUBSET Nat /\ <<>> \in Seq(Value)
    OBVIOUS
  <2> QED
    BY <1>3, <1>6, <2>1 DEF Call
<1>8. /\ f \in Frame /\ f.kind = "combine" /\ f.c = Len(calls) + 1 /\ ~Catching(f)
      /\ f.i = 1
      /\ FrameOK(obj', f)
  <2>1. f \in CombineFrame
    BY <1>3, <1>6 DEF CombineFrame
  <2> QED
    BY <1>5, <2>1, HeapFacts DEF Frame, Catching, FrameOK
<1> HIDE DEF f, k
<1>9. /\ calls' \in Seq(Call) /\ Len(calls') = Len(calls) + 1
      /\ DOMAIN calls = 1 .. Len(calls) /\ DOMAIN calls' = 1 .. Len(calls')
      /\ calls'[Len(calls) + 1] = k
      /\ \A c \in DOMAIN calls : calls'[c] = calls[c]
      /\ \A c \in DOMAIN calls' : c \in DOMAIN calls \/ c = Len(calls) + 1
  BY <1>2, <1>6, <1>7
<1>10. CallsKept
  BY <1>6, <1>9 DEF CallsKept, Grows
<1>11. \A c \in DOMAIN calls' : c \in DOMAIN calls \/ CallOK(c)'
  <2>1. \A i \in DOMAIN inputs : inputs[i] \in Own
    OBVIOUS
  <2>2. Len(obj) + 1 \in DOMAIN obj'
    BY <1>1, <1>4 DEF PromiseAdded
  <2> QED
    BY <1>7, <1>9, <2>1, <2>2 DEF CallOK
<1>12. IInv'
  <2>1. FulfilsFrom(obj, stack, cut \cup lost) /\ Quiet(stack)
    BY <1>1, <1>2, InUser
  <2>2. /\ StackOK(obj', stack') /\ stack'[Len(stack')] = f
        /\ \A p : Reaches(stack, p) => Reaches(stack', p)
    BY <1>2, <1>5, <1>8, <2>1, Pushed
  <2>3. RejectsFrom(obj', stack', cut) /\ FulfilsFrom(obj', stack', cut \cup lost)
    BY <1>1, <1>4, <2>1, <2>2, ChainsAdded
  <2>4. Hand(obj', stack') = {}
    BY <1>8, <2>2 DEF Hand
  <2>5. cut' = cut /\ lost' = lost /\ HistoryOK'
    BY <1>1, <1>2 DEF HistoryOK
  <2> QED
    BY <1>5, <2>2, <2>3, <2>4, <2>5, IInvNext
<1>13. Calm(stack, m) /\ ~Catching(stack[m])
  BY <1>1, <1>2, CalmStack DEF Catching
<1>14. InLibrary(f, Len(calls'), Len(gens'))
  BY <1>6, <1>8, <1>9 DEF InLibrary
<1> HIDE DEF m
<1>15. FrameStep(m) /\ CalmStep(m)
  <2>1. stack' = Append(stack, f) /\ f \in Frame /\ f.kind \in {"user", "settle", "combine"}
    BY <1>2, <1>8
  <2> QED
    BY <1>1, <1>8, <1>13, <1>14, <2>1, PushCalm
<1>16. Steps(m, 0, Nothing)
  <2>1. HandsOn(0, Nothing)
    BY <1>2, NothingGiven
  <2>2. HeapStep(0, Nothing)
    BY <1>1, <1>4, HeapNew
  <2> QED
    BY <1>15, <2>1, <2>2, GivenNothing DEF Steps
<1>17. /\ gens' = gens /\ closures' = closures /\ ran' = ran /\ reran' = reran
       /\ mine' = mine
  BY <1>2 DEF history
<1>18. /\ acts' \in 0 .. MaxActs /\ mine' \subseteq DOMAIN obj'
  BY <1>2, <1>5, <1>17, MineStays, ActsStays
<1>19. /\ closures' \in Seq(Closure) /\ Extends(closures, closures')
       /\ ran' \subseteq DOMAIN closures /\ reran' \subseteq ran'
  BY <1>1, <1>17, CallsSame DEF LibraryOK
<1> QED
  BY <1>2, <1>5, <1>9, <1>10, <1>11, <1>12, <1>16, <1>17, <1>18, <1>19, CombineInv

\* The innermost frame, which is no settlement, goes on as f.
LEMMA TopGoesOn ==
    ASSUME IInv, Top.kind # "settle", NEW f, FrameOK(obj, f), f.kind = Top.kind,
           NEW s, s = TopWith(f)
    PROVE  /\ StackOK(obj, s) /\ Quiet(s) /\ Len(s) = Len(stack)
           /\ \A p : Reaches(stack, p) => Reaches(s, p)
           /\ RejectsFrom(obj, s, cut) /\ FulfilsFrom(obj, s, cut \cup lost)
<1>1. StackOK(obj, stack) /\ RejectsFrom(obj, stack, cut) /\ FulfilsFrom(obj, stack, cut \cup lost)
  BY InUser DEF IInv
<1>2. s = [stack EXCEPT ![Len(stack)] = f] /\ f.kind = stack[Len(stack)].kind
  BY DEF TopWith, Top
<1>3. /\ StackOK(obj, s) /\ Len(s) = Len(stack)
      /\ f.kind # "settle" => Quiet(s)
      /\ \A p : Reaches(stack, p) => Reaches(s, p) \/ Passes(stack[Len(stack)], f, p)
  BY <1>1, <1>2, TopChanged
<1>4. \A p : ~Passes(stack[Len(stack)], f, p)
  BY DEF Passes, Top
<1>5. \A p : Reaches(stack, p) => Reaches(s, p)
  BY <1>3, <1>4
<1> QED
  BY <1>1, <1>3, <1>5 DEF RejectsFrom, FulfilsFrom

\* A new closure.
LEMMA ClosureAdded ==
    ASSUME LibraryOK, NEW k \in Closure, closures' = Append(closures, k)
    PROVE  /\ closures' \in Seq(Closure) /\ Extends(closures, closures')
           /\ Len(closures) + 1 \in DOMAIN closures' /\ Len(closures) + 1 \notin DOMAIN closures
           /\ closures'[Len(closures) + 1] = k /\ Len(closures) + 1 \in Nat
           /\ \A n \in DOMAIN closures' : n \in DOMAIN closures \/ n = Len(closures) + 1
<1>1. closures \in Seq(Closure) /\ Len(closures) \in Nat /\ DOMAIN closures = 1 .. Len(closures)
  BY DEF LibraryOK
<1>2. /\ closures' \in Seq(Closure) /\ Len(closures') = Len(closures) + 1
      /\ DOMAIN closures' = 1 .. Len(closures) + 1
      /\ closures'[Len(closures) + 1] = k
      /\ \A n \in DOMAIN closures : closures'[n] = closures[n]
  BY <1>1
<1> QED
  BY <1>1, <1>2 DEF Extends, Grows

\* The function that then() or catch() gets.
Give(slot, n) == [x \in {slot} |-> LibraryFn(n)]

LEMMA LibraryGiven ==
    ASSUME NEW slot \in Slots, NEW n \in Nat
    PROVE  /\ DOMAIN Give(slot, n) = {slot} /\ DOMAIN Give(slot, n) \subseteq Slots
           /\ Give(slot, n)[slot].kind = "library" /\ Give(slot, n)[slot].n = n
           /\ \A x \in DOMAIN Give(slot, n) :
                 /\ Give(slot, n)[x] \in Fn
                 /\ Resolves(Give(slot, n)[x]) \subseteq DOMAIN obj
           /\ \A p : p # 0 /\ slot = "onFullfilled" => Places(p, Give(slot, n), n)
           /\ \A p : p # 0 /\ slot = "onRejected" => Catches(p, Give(slot, n), n)
<1>1. /\ LibraryFn(n) \in Fn /\ LibraryFn(n).kind = "library" /\ LibraryFn(n).n = n
      /\ Resolves(LibraryFn(n)) = {}
  BY DEF LibraryFn, Fn, Resolves
<1> QED
  BY <1>1 DEF Places, Catches, IsClosure, Give

\* The executor subscribes closure k to a promise, in slot.
LEMMA CSubscribe ==
    ASSUME CInv, Top.kind = "combine", NEW f, FrameOK(obj, f), f.kind = "combine",
           f.c = Top.c, f.i # 0, NEW slot, NEW k \in Closure, k.p \in DOMAIN obj, k.c \in DOMAIN calls',
           \/ slot = "onFullfilled" /\ k.role = "fulfil"
           \/ slot = "onRejected" /\ k.role = "reject",
           Subscribe(slot, k, TopWith(f)), calls' \in Seq(Call), CallsKept,
           DOMAIN calls' = DOMAIN calls, UNCHANGED <<gens, held, history>>,
           dropped' = dropped \cup Overwritten
    PROVE  CInv'
<1> DEFINE n == Len(closures) + 1
           given == Give(slot, n)
           s == TopWith(f)
           m == Len(stack)
<1>1. /\ IInv /\ HeapOK(obj) /\ StackOK(obj, stack) /\ LibraryOK /\ Len(stack) \in Nat
      /\ acts \in 0 .. MaxActs
  BY Basics
<1>2. closures' = Append(closures, k) /\ CallThen(k.p, given, s)
  BY DEF Subscribe, Give
<1>3. /\ closures' \in Seq(Closure) /\ Extends(closures, closures')
      /\ n \in DOMAIN closures' /\ closures'[n] = k /\ n \in Nat
      /\ \A x \in DOMAIN closures' : x \in DOMAIN closures \/ x = n
  BY <1>1, <1>2, ClosureAdded
<1>4. slot \in Slots
  BY DEF Slots
<1> HIDE DEF n
<1>5. /\ DOMAIN given = {slot} /\ DOMAIN given \subseteq Slots
      /\ given[slot].kind = "library" /\ given[slot].n = n
      /\ \A x \in DOMAIN given : given[x] \in Fn /\ Resolves(given[x]) \subseteq DOMAIN obj
      /\ \A p : p # 0 /\ slot = "onFullfilled" => Places(p, given, n)
      /\ \A p : p # 0 /\ slot = "onRejected" => Catches(p, given, n)
  BY <1>3, <1>4, LibraryGiven
<1> HIDE DEF given, s
<1>6. /\ StackOK(obj, s) /\ Quiet(s)
      /\ RejectsFrom(obj, s, cut) /\ FulfilsFrom(obj, s, cut \cup lost)
  BY <1>1, TopGoesOn DEF s
<1>7. IInv' /\ Keeps(obj, obj')
  BY <1>1, <1>2, <1>5, <1>6, CallThenInv
<1>8. Calm(s, m)
  <2>1. f \in Frame /\ Similar(Top, f) /\ Top.kind # "drive"
    BY DEF FrameOK, Similar
  <2> QED
    BY <1>1, <2>1, CalmTopWith DEF s
<1> HIDE DEF m
<1>9. FrameStep(m) /\ CalmStep(m) /\ HeapStep(k.p, given)
  BY <1>1, <1>2, <1>5, <1>8, CallThenCalm
<1>10. GivenOK(given, closures')
  BY <1>3, <1>5 DEF GivenOK, FulfilSlot, RejectSlot, Slots
<1>11. HandsOn(k.p, given)
  BY NothingGiven
<1>12. Steps(m, k.p, given)
  BY <1>9, <1>10, <1>11 DEF Steps
<1>13. ASSUME NEW x \in DOMAIN closures', x \notin DOMAIN closures
       PROVE  ClosureOK(x)' /\ closures'[x].role # "await" /\ Puts(k.p, given, x)
  <2>1. closures'[x] = k /\ x = n
    BY <1>3, <1>13
  <2>2. k.p \in DOMAIN obj' /\ k.p # 0
    BY <1>9 DEF HeapStep
  <2>3. ClosureOK(x)'
    BY <2>1, <2>2 DEF ClosureOK
  <2> QED
    BY <1>5, <2>1, <2>2, <2>3 DEF Puts
<1>14. /\ ran' = ran /\ reran' = reran /\ gens' = gens /\ acts' = acts /\ mine' = mine
       /\ ran \subseteq DOMAIN closures /\ reran \subseteq ran
  BY <1>1 DEF history, held, LibraryOK
<1>15. acts' \in 0 .. MaxActs /\ mine' \subseteq DOMAIN obj'
  BY <1>1, <1>7, <1>14, MineStays
<1> QED
  BY <1>3, <1>7, <1>12, <1>13, <1>14, <1>15, CombineInv

LEMMA CombineFacts ==
    ASSUME CInv, Top.kind = "combine"
    PROVE  /\ Top.c \in DOMAIN calls /\ Top.c \in Nat /\ Top.i \in Nat /\ Top.i > 0
           /\ Top.got \in 0 .. Len(obj) /\ CallOK(Top.c) /\ calls[Top.c] \in Call
           /\ Top \in CombineFrame /\ calls \in Seq(Call)
<1>1. /\ LibraryOK /\ FrameOK(obj, Top) /\ InLibrary(Top, Len(calls), Len(gens))
      /\ Len(obj) \in Nat /\ calls \in Seq(Call)
  BY Basics DEF LibraryOK
<1>2. Top \in CombineFrame /\ Top.got \in Nat /\ Top.got <= Len(obj)
  BY <1>1, FrameFacts DEF FrameOK
<1>3. Top.c \in DOMAIN calls /\ Top.i # 0
  BY <1>1 DEF InLibrary
<1>4. Top.c \in Nat /\ Top.i \in Nat /\ Top.i > 0
  BY <1>2, <1>3 DEF CombineFrame
<1>5. Top.got \in 0 .. Len(obj)
  BY <1>1, <1>2
<1> QED
  BY <1>1, <1>2, <1>3, <1>4, <1>5 DEF LibraryOK

LEMMA CCombineThen ==
    ASSUME CInv, CombineThen, dropped' = dropped \cup Overwritten
    PROVE  CInv'
<1> DEFINE f == [Top EXCEPT !.at = "catch"]
           k == [role |-> "fulfil", c |-> Top.c, i |-> Top.i, p |-> Inputs[Top.i]]
<1>1. /\ Top.kind = "combine" /\ Top.i <= Len(Inputs)
      /\ Subscribe("onFullfilled", k, TopWith(f))
      /\ UNCHANGED <<gens, held, history>> /\ calls' = calls
  BY DEF CombineThen, Combining
<1>2. /\ Top.c \in DOMAIN calls /\ Top.c \in Nat /\ Top.i \in Nat /\ Top.i > 0
      /\ Top.got \in 0 .. Len(obj) /\ CallOK(Top.c) /\ calls[Top.c] \in Call
      /\ Top \in CombineFrame /\ calls \in Seq(Call)
  BY <1>1, CombineFacts
<1>3. /\ f \in CombineFrame /\ f.kind = "combine" /\ f.c = Top.c /\ f.got = Top.got
      /\ f.i = Top.i
  BY <1>2 DEF CombineFrame
<1>4. /\ LibraryOK /\ FrameOK(obj, Top) /\ Len(obj) \in Nat /\ Own \subseteq DOMAIN obj
  BY Basics
<1>5. FrameOK(obj, f) /\ f.i # 0
  BY <1>1, <1>2, <1>3, <1>4 DEF FrameOK, Frame
<1>6. Inputs[Top.i] \in DOMAIN obj /\ Inputs[Top.i] \in Value
  <2>1. Inputs \in Seq(Value)
    BY <1>2 DEF Inputs, Call
  <2>2. Top.i \in DOMAIN Inputs
    BY <1>1, <1>2, <2>1
  <2> QED
    BY <1>2, <1>4, <2>1, <2>2 DEF CallOK, Inputs
<1>7. /\ k \in Closure /\ k.p \in DOMAIN obj /\ k.c \in DOMAIN calls' /\ k.role = "fulfil"
  BY <1>1, <1>2, <1>6 DEF Closure
<1>8. CallsKept
  BY <1>1, <1>4, CallsSame
<1> HIDE DEF f, k
<1> QED
  BY <1>1, <1>2, <1>3, <1>5, <1>7, <1>8, CSubscribe

LEMMA CCombineCatch ==
    ASSUME CInv, CombineCatch, dropped' = dropped \cup Overwritten
    PROVE  CInv'
<1> DEFINE f == [Top EXCEPT !.at = "then", !.i = @ + 1]
           k == [role |-> "reject", c |-> Top.c, i |-> Top.i, p |-> Top.got]
           r == [calls[Top.c] EXCEPT !.inner = Append(@, Top.got)]
<1>1. /\ Top.kind = "combine" /\ Top.at = "catch"
      /\ Subscribe("onRejected", k, TopWith(f))
      /\ UNCHANGED <<gens, held, history>>
      /\ calls' = [calls EXCEPT ![Top.c].inner = Append(@, Top.got)]
  BY DEF CombineCatch, Combining
<1>2. /\ Top.c \in DOMAIN calls /\ Top.c \in Nat /\ Top.i \in Nat /\ Top.i > 0
      /\ Top.got \in 0 .. Len(obj) /\ CallOK(Top.c) /\ calls[Top.c] \in Call
      /\ Top \in CombineFrame /\ calls \in Seq(Call)
  BY <1>1, CombineFacts
<1>3. /\ f \in CombineFrame /\ f.kind = "combine" /\ f.c = Top.c /\ f.got = Top.got
      /\ f.i = Top.i + 1
  <2>1. Top.i + 1 \in Nat
    BY <1>2
  <2>2. f = [Top EXCEPT !.at = "then", !.i = Top.i + 1]
    BY <1>2 DEF CombineFrame
  <2> HIDE DEF f
  <2> QED
    BY <1>2, <2>1, <2>2 DEF CombineFrame
<1>4. /\ LibraryOK /\ FrameOK(obj, Top) /\ Len(obj) \in Nat /\ DOMAIN obj = 1 .. Len(obj)
      /\ CatchOK(stack, Len(stack)) /\ Len(obj) <= MaxPromises
  BY Basics
<1>5. FrameOK(obj, f) /\ f.i # 0
  BY <1>1, <1>2, <1>3, <1>4 DEF FrameOK, Frame
<1>6. Top.got \in DOMAIN obj /\ Top.got \in Value
  <2>1. Top.got # 0
    BY <1>1, <1>4 DEF CatchOK, Catching, Top
  <2> QED
    BY <1>2, <1>4, <2>1, BoundsAssumption DEF Value
<1>7. /\ r \in Call /\ r.kind = calls[Top.c].kind /\ r.agg = calls[Top.c].agg
      /\ r.inputs = calls[Top.c].inputs
  <2>1. calls[Top.c].inner \in Seq(Value)
    BY <1>2 DEF Call
  <2>2. Append(calls[Top.c].inner, Top.got) \in Seq(Value)
    BY <1>6, <2>1
  <2> QED
    BY <1>2, <2>2 DEF Call
<1>8. calls' = [calls EXCEPT ![Top.c] = r]
  BY <1>1, <1>2 DEF Call
<1> HIDE DEF r
<1>9. calls' \in Seq(Call) /\ CallsKept /\ DOMAIN calls' = DOMAIN calls
  BY <1>2, <1>4, <1>7, <1>8, CallChanged
<1>10. /\ k \in Closure /\ k.p \in DOMAIN obj /\ k.c \in DOMAIN calls' /\ k.role = "reject"
  BY <1>1, <1>2, <1>6, <1>9 DEF Closure
<1> HIDE DEF f, k
<1> QED
  BY <1>1, <1>3, <1>5, <1>9, <1>10, CSubscribe

\* A settlement goes on, and the promise of a call is settled or has been.
LEMMA CombinedSettled ==
    ASSUME CInv, Top.kind = "settle", Top.step < 4, FnAt(Top).kind = "library",
           NEW n \in DOMAIN obj, NEW st \in {"FULFILLED", "REJECTED"},
           \/ /\ obj[n].state = "PENDING"
              /\ obj' = [obj EXCEPT ![n].state = st]
              /\ stack' = Append(Advanced, Settle(n, 0, FALSE))
              /\ UNCHANGED <<cut, lost>>
           \/ Raise(stack)
    PROVE  /\ IInv' /\ Keeps(obj, obj')
           /\ \E m : FrameStep(m) /\ CalmStep(m) /\ HeapStep(0, Nothing)
<1>1. /\ IInv /\ HeapOK(obj) /\ StackOK(obj, stack) /\ 0 \in 0 .. Len(obj)
  BY Basics
<1>2. Resolves(FnAt(Top)) = {}
  BY DEF Resolves
<1>3. CASE /\ obj[n].state = "PENDING"
           /\ obj' = [obj EXCEPT ![n].state = st]
           /\ stack' = Append(Advanced, Settle(n, 0, FALSE))
           /\ UNCHANGED <<cut, lost>>
  <2>1. /\ StackOK(obj, Advanced) /\ Quiet(Advanced) /\ RejectsFrom(obj, Advanced, cut)
        /\ FulfilsFrom(obj, Advanced, cut \cup lost)
    BY <1>1, <1>2, InSettlement
  <2>2. PICK r : SettledAs(obj, n, r, st) /\ ObjectChanged(obj, obj', n, r)
    BY <1>1, <1>3, SettlesAs
  <2>3. RejectsBut(obj, Advanced, cut, n, st)
    BY <2>1 DEF RejectsBut
  <2>4. \A m \in cut \cup lost : m \in cut \/ m \in lost \/ m = n
    OBVIOUS
  <2>5. IInv' /\ Keeps(obj, obj')
    BY <1>1, <1>3, <2>1, <2>2, <2>3, <2>4, SettleInv
  <2> QED
    BY <1>3, <2>5, SettleSettles
<1>4. CASE Raise(stack)
  <2>1. \A m \in Hand(obj, stack) : Waits(obj, m)
    <3> SUFFICES ASSUME NEW m \in Hand(obj, stack) PROVE Waits(obj, m)
      OBVIOUS
    <3>1. /\ Top.step = 1 /\ obj[Top.p].onFullfilled.kind = "resolve"
          /\ obj[Top.p].onFullfilled.n = m
      BY DEF Hand, Top
    <3>2. Top.p \in DOMAIN obj /\ obj[Top.p].state # "FULFILLED"
      BY <3>1, FnAtFacts
    <3> QED
      BY <3>1, <3>2 DEF Waits
  <2>2. RejectsFrom(obj, stack, cut) /\ FulfilsFrom(obj, stack, cut \cup lost)
    BY <1>1, <2>1 DEF IInv, FulfilsFrom
  <2>3. IInv' /\ Keeps(obj, obj')
    BY <1>1, <1>4, <2>2, RaiseInv
  <2> QED
    BY <1>4, <2>3, SettleRaises
<1> QED
  BY <1>3, <1>4

\* The settlement runs what it was about to call.
LEMMA HandsRan ==
    ASSUME CInv, Top.kind = "settle", Top.step < 4, FnAt(Top).n \in ran'
    PROVE  HandsOn(0, Nothing)
<1> SUFFICES ASSUME NEW q \in DOMAIN obj, Begins(stack, q)
             PROVE  /\ obj[q].state = "FULFILLED" => obj[q].onFullfilled.n \in ran'
                    /\ obj[q].state = "REJECTED" => obj[q].onRejected.n \in ran'
  BY DEF HandsOn
<1>1. q = Top.p /\ Top.step = 1
  BY DEF Begins, Top
<1> QED
  BY <1>1, FnAtFacts

\* A settlement calls a closure of all() or race().
LEMMA CRuns ==
    ASSUME CInv, NEW role \in {"fulfil", "reject"}, Running(role), Ran,
           calls' \in Seq(Call), CallsKept, DOMAIN calls' = DOMAIN calls,
           UNCHANGED <<gens, closures, held>>,
           NEW st \in {"FULFILLED", "REJECTED"},
           \/ SettleCombined(st)
           \/ stack' = Advanced /\ UNCHANGED <<obj, cut, lost>>,
           dropped' = dropped \cup Overwritten
    PROVE  CInv'
<1>1. /\ IInv /\ HeapOK(obj) /\ StackOK(obj, stack) /\ LibraryOK /\ Len(stack) \in Nat
      /\ acts \in 0 .. MaxActs
  BY Basics
<1>2. Top.kind = "settle" /\ Top.step < 4 /\ FnAt(Top).kind = "library"
  BY DEF Running
<1>3. FnAt(Top).n \in DOMAIN closures /\ closures[FnAt(Top).n].role = role
  BY <1>2, FnAtFacts DEF Running
<1>4. ThisCall.agg \in DOMAIN obj
  <2>1. ClosureOK(FnAt(Top).n)
    BY <1>1, <1>3 DEF LibraryOK
  <2>2. ThisClosure.c \in DOMAIN calls
    BY <1>3, <2>1 DEF ClosureOK, ThisClosure
  <2> QED
    BY <1>1, <2>2 DEF LibraryOK, CallOK, ThisCall
<1>5. /\ IInv' /\ Keeps(obj, obj')
      /\ \E m : FrameStep(m) /\ CalmStep(m) /\ HeapStep(0, Nothing)
  <2>1. CASE SettleCombined(st)
    <3> DEFINE n == ThisCall.agg
    <3>1. \/ /\ obj[n].state = "PENDING"
             /\ obj' = [obj EXCEPT ![n].state = st]
             /\ stack' = Append(Advanced, Settle(n, 0, FALSE))
             /\ UNCHANGED <<cut, lost>>
          \/ Raise(stack)
      BY <2>1 DEF SettleCombined
    <3>2. n \in DOMAIN obj
      BY <1>4
    <3> HIDE DEF n
    <3> QED
      BY <1>2, <3>1, <3>2, CombinedSettled
  <2>2. CASE stack' = Advanced /\ UNCHANGED <<obj, cut, lost>>
    <3>1. Resolves(FnAt(Top)) = {}
      BY <1>2 DEF Resolves
    <3>2. /\ StackOK(obj, Advanced) /\ RejectsFrom(obj, Advanced, cut)
          /\ FulfilsFrom(obj, Advanced, cut \cup lost)
      BY <1>1, <1>2, <3>1, InSettlement
    <3>3. IInv' /\ Keeps(obj, obj')
      BY <1>1, <2>2, <3>2, MoveInv
    <3>4. /\ Calm(Advanced, Len(stack)) /\ ~Catching(Advanced[Len(stack)])
      BY <1>1, <1>2, CalmAdvanced
    <3>5. FrameStep(Len(stack)) /\ CalmStep(Len(stack))
      BY <1>1, <2>2, <3>4, StopCalm
    <3> QED
      BY <1>1, <2>2, <3>3, <3>5, HeapSame
  <2> QED
    BY <2>1, <2>2
<1>6. PICK m : FrameStep(m) /\ CalmStep(m) /\ HeapStep(0, Nothing)
  BY <1>5
<1>7. /\ ran \subseteq ran' /\ ran' \subseteq DOMAIN closures /\ FnAt(Top).n \in ran'
      /\ \A n \in ran' : n \in ran \/ closures[n].role # "await"
      /\ reran \subseteq reran' /\ reran' \subseteq ran'
  BY <1>1, <1>3 DEF Ran, LibraryOK
<1>8. HandsOn(0, Nothing)
  BY <1>2, <1>7, HandsRan
<1>9. Steps(m, 0, Nothing)
  BY <1>6, <1>8, GivenNothing DEF Steps
<1>10. /\ gens' = gens /\ closures' = closures /\ mine' = mine /\ acts' = acts
       /\ closures' \in Seq(Closure) /\ Extends(closures, closures')
  BY <1>1, CallsSame DEF held, LibraryOK
<1>11. acts' \in 0 .. MaxActs /\ mine' \subseteq DOMAIN obj'
  BY <1>1, <1>5, <1>10, MineStays
<1> QED
  BY <1>2, <1>5, <1>7, <1>9, <1>10, <1>11, CombineInv

LEMMA CRunAll ==
    ASSUME CInv, RunAll, dropped' = dropped \cup Overwritten
    PROVE  CInv'
<1> DEFINE c == ThisClosure.c
           i == ThisClosure.i
           r == [calls[c] EXCEPT !.results = @ \cup {i}, !.left = @ - 1]
<1>1. /\ Running("fulfil") /\ Ran /\ UNCHANGED <<gens, closures, held>>
      /\ calls' = [calls EXCEPT ![c].results = @ \cup {i}, ![c].left = @ - 1]
      /\ SettleCombined("FULFILLED") \/ (stack' = Advanced /\ UNCHANGED <<obj, cut, lost>>)
  BY DEF RunAll
<1>2. LibraryOK
  BY Basics
<1>3. FnAt(Top).n \in DOMAIN closures /\ closures[FnAt(Top).n].role = "fulfil"
  BY <1>1, FnAtFacts DEF Running
<1>4. c \in DOMAIN calls /\ i \in Nat /\ calls[c] \in Call
  <2>1. ClosureOK(FnAt(Top).n) /\ ThisClosure \in Closure
    BY <1>2, <1>3 DEF LibraryOK, ThisClosure
  <2>2. c \in DOMAIN calls
    BY <1>3, <2>1 DEF ClosureOK, ThisClosure
  <2> QED
    BY <1>2, <2>1, <2>2 DEF LibraryOK, Closure
<1> HIDE DEF c, i
<1>5. /\ r \in Call /\ r.kind = calls[c].kind /\ r.agg = calls[c].agg
      /\ r.inputs = calls[c].inputs
  <2>1. /\ calls[c].results \cup {i} \in SUBSET Nat /\ calls[c].left - 1 \in Int
    BY <1>4 DEF Call
  <2> QED
    BY <1>4, <2>1 DEF Call
<1>6. calls' = [calls EXCEPT ![c] = r]
  BY <1>1, <1>2, <1>4 DEF LibraryOK, Call
<1> HIDE DEF r
<1>7. calls' \in Seq(Call) /\ CallsKept /\ DOMAIN calls' = DOMAIN calls
  BY <1>2, <1>4, <1>5, <1>6, CallChanged
<1> QED
  BY <1>1, <1>7, CRuns

LEMMA CRunOther ==
    ASSUME CInv, RunRace \/ RunReject, dropped' = dropped \cup Overwritten
    PROVE  CInv'
<1>1. /\ Ran /\ calls' = calls /\ UNCHANGED <<gens, closures, held>>
      /\ \/ Running("fulfil") /\ SettleCombined("FULFILLED")
         \/ Running("reject") /\ SettleCombined("REJECTED")
  BY DEF RunRace, RunReject, library
<1>2. calls' \in Seq(Call) /\ CallsKept
  BY <1>1, Basics, CallsSame DEF LibraryOK
<1> QED
  BY <1>1, <1>2, CRuns

LEMMA CCombineCaught ==
    ASSUME CInv, CombineCaught, dropped' = dropped \cup Overwritten
    PROVE  CInv'
<1> DEFINE n == calls[Top.c].agg
           r == [calls[Top.c] EXCEPT !.threw = TRUE]
<1>1. /\ Top.kind = "combine"
      /\ \/ /\ obj[n].state = "PENDING"
            /\ obj' = [obj EXCEPT ![n].state = "REJECTED"]
            /\ stack' = Append(Below, Settle(n, 0, FALSE))
            /\ mine' = mine \cup {n} /\ UNCHANGED <<cut, lost>>
         \/ Raise(Below) /\ mine' = mine
      /\ calls' = [calls EXCEPT ![Top.c].threw = TRUE]
      /\ UNCHANGED <<gens, closures, acts, history>>
  BY DEF CombineCaught, Combining
<1>2. /\ Top.c \in DOMAIN calls /\ CallOK(Top.c) /\ calls[Top.c] \in Call
      /\ calls \in Seq(Call)
  BY <1>1, CombineFacts
<1>3. /\ IInv /\ HeapOK(obj) /\ StackOK(obj, stack) /\ LibraryOK /\ Len(stack) \in Nat
      /\ acts \in 0 .. MaxActs /\ 0 \in 0 .. Len(obj) /\ mine \subseteq DOMAIN obj
  BY Basics
<1>4. n \in DOMAIN obj
  BY <1>2 DEF CallOK
<1>5. /\ r \in Call /\ r.kind = calls[Top.c].kind /\ r.agg = calls[Top.c].agg
      /\ r.inputs = calls[Top.c].inputs
  BY <1>2 DEF Call
<1>6. calls' = [calls EXCEPT ![Top.c] = r]
  BY <1>1, <1>2 DEF Call
<1> HIDE DEF r, n
<1>7. calls' \in Seq(Call) /\ CallsKept /\ DOMAIN calls' = DOMAIN calls
  BY <1>2, <1>3, <1>5, <1>6, CallChanged
<1>8. Len(stack) > 1
  BY <1>1, Deeper
<1>9. /\ StackOK(obj, Below) /\ Quiet(Below) /\ RejectsFrom(obj, Below, cut)
      /\ FulfilsFrom(obj, Below, cut \cup lost)
  BY <1>1, <1>3, <1>8, InUser
<1>10. /\ IInv' /\ Keeps(obj, obj') /\ mine' \subseteq DOMAIN obj'
       /\ \E m : FrameStep(m) /\ CalmStep(m) /\ HeapStep(0, Nothing)
  <2>1. CASE /\ obj[n].state = "PENDING"
             /\ obj' = [obj EXCEPT ![n].state = "REJECTED"]
             /\ stack' = Append(Below, Settle(n, 0, FALSE))
             /\ mine' = mine \cup {n} /\ UNCHANGED <<cut, lost>>
    <3> DEFINE m == Len(stack) - 1
    <3>1. PICK o : SettledAs(obj, n, o, "REJECTED") /\ ObjectChanged(obj, obj', n, o)
      BY <1>3, <1>4, <2>1, SettlesAs
    <3>2. RejectsBut(obj, Below, cut, n, "REJECTED")
      BY <1>9 DEF RejectsBut
    <3>3. \A x \in cut \cup lost : x \in cut \/ x \in lost \/ x = n
      OBVIOUS
    <3>4. IInv' /\ Keeps(obj, obj')
      BY <1>3, <1>4, <1>9, <2>1, <3>1, <3>2, <3>3, SettleInv
    <3>5. Calm(Below, m) /\ Below[m] = stack[m] /\ ~Catching(stack[m])
      BY <1>1, <1>3, <1>8, CalmBelow, NotCatching
    <3> HIDE DEF m
    <3>6. ~Catching(Below[m])
      BY <3>5
    <3>7. FrameStep(m) /\ CalmStep(m) /\ HeapStep(0, Nothing)
      BY <1>3, <1>4, <2>1, <3>1, <3>5, <3>6, SettleCalm
    <3>8. mine' \subseteq DOMAIN obj'
      BY <1>3, <1>4, <2>1, <3>4 DEF Keeps
    <3> QED
      BY <3>4, <3>7, <3>8
  <2>2. CASE Raise(Below) /\ mine' = mine
    <3>1. IInv' /\ Keeps(obj, obj')
      BY <1>3, <1>9, <2>2, RaiseInv
    <3>2. \E m : FrameStep(m) /\ CalmStep(m) /\ HeapStep(0, Nothing)
      BY <1>1, <1>8, <2>2, RaisesCalm
    <3> QED
      BY <2>2, <3>1, <3>2, MineStays
  <2> QED
    BY <1>1, <2>1, <2>2
<1>11. PICK m : FrameStep(m) /\ CalmStep(m) /\ HeapStep(0, Nothing)
  BY <1>10
<1>12. Steps(m, 0, Nothing)
  <2>1. HandsOn(0, Nothing)
    BY <1>1, NothingGiven
  <2> QED
    BY <1>11, <2>1, GivenNothing DEF Steps
<1>13. /\ gens' = gens /\ closures' = closures /\ acts' = acts /\ ran' = ran /\ reran' = reran
       /\ closures' \in Seq(Closure) /\ Extends(closures, closures')
       /\ ran' \subseteq DOMAIN closures /\ reran' \subseteq ran' /\ acts' \in 0 .. MaxActs
  BY <1>1, <1>3, CallsSame DEF history, LibraryOK
<1> QED
  BY <1>1, <1>7, <1>10, <1>12, <1>13, CombineInv

-----------------------------------------------------------------------------
(* The steps of async. *)

\* The generator of the frame on top.
LEMMA DriveFacts ==
    ASSUME CInv, Top.kind \in {"drive", "generator"}
    PROVE  /\ Top.g \in DOMAIN gens /\ gens[Top.g] \in Generator /\ Top.g \in Nat
           /\ gens \in Seq(Generator) /\ gens[Top.g].value \in 0 .. Len(obj)
           /\ Top.kind = "drive" => Top \in DriveFrame
           /\ AwaitOK(Top.g)
<1>1. /\ LibraryOK /\ FrameOK(obj, Top) /\ InLibrary(Top, Len(calls), Len(gens))
      /\ gens \in Seq(Generator)
  BY Basics DEF LibraryOK
<1>2. Top.g \in DOMAIN gens /\ Top.g \in Nat
  BY <1>1 DEF InLibrary
<1>3. Top.kind = "drive" => Top \in DriveFrame
  BY <1>1, FrameFacts DEF FrameOK
<1> QED
  BY <1>1, <1>2, <1>3 DEF LibraryOK, CInv, AwaitsOK

LEMMA CDriveLookDone ==
    ASSUME CInv, Top.kind = "drive", Gen.state = "done", stack' = Returned(Below, 0),
           UNCHANGED <<obj, cut, lost, library, held, history>>,
           dropped' = dropped \cup Overwritten
    PROVE  CInv'
<1>1. NoneResumed
  BY DEF NoneResumed, Resuming, Top, Gen
<1>2. Plainly
  BY Basics DEF Plainly, held
<1> QED
  BY <1>1, <1>2, DriveReturns

\* send() on a generator that runs.
LEMMA CDriveSendThrows ==
    ASSUME CInv, Top.kind = "drive", Gen.state = "running", Raise(stack),
           UNCHANGED <<library, held, history>>, dropped' = dropped \cup Overwritten
    PROVE  CInv'
<1>1. /\ IInv /\ HeapOK(obj) /\ StackOK(obj, stack) /\ Len(stack) \in Nat
      /\ acts \in 0 .. MaxActs /\ mine \subseteq DOMAIN obj
  BY Basics
<1>2. NoneResumed /\ HandsNone
  BY DEF NoneResumed, Resuming, Top, Gen, HandsNone
<1>3. RejectsFrom(obj, stack, cut) /\ FulfilsFrom(obj, stack, cut \cup lost)
  BY <1>1, InUser DEF IInv
<1>4. IInv' /\ Keeps(obj, obj')
  BY <1>1, <1>3, RaiseInv
<1>5. Rest(stack, Len(stack)) /\ \A j \in 1 .. Len(stack) : ~(j > Len(stack))
  BY <1>1, RestStack
<1>6. PICK m : FrameStep(m) /\ CalmStep(m)
  BY <1>1, <1>5, RaiseCalm
<1>7. HeapStep(0, Nothing)
  BY <1>1, HeapSame DEF Raise
<1>8. Plainly
  BY <1>1, <1>4, MineStays DEF Plainly, held
<1> QED
  BY <1>2, <1>4, <1>6, <1>7, <1>8, PlainStep

\* A generator changes.
LEMMA GenChanged ==
    ASSUME LibraryOK, NEW g \in DOMAIN gens, NEW r \in Generator, r.value \in 0 .. Len(obj),
           gens' = [gens EXCEPT ![g] = r]
    PROVE  /\ gens' \in Seq(Generator) /\ Grows(gens, gens') /\ DOMAIN gens' = DOMAIN gens
           /\ gens'[g] = r /\ \A h \in DOMAIN gens : h # g => gens'[h] = gens[h]
           /\ \A h \in DOMAIN gens' : gens'[h].value \in 0 .. Len(obj)
<1>1. gens \in Seq(Generator) /\ \A h \in DOMAIN gens : gens[h].value \in 0 .. Len(obj)
  BY DEF LibraryOK
<1>2. gens' \in Seq(Generator) /\ Len(gens') = Len(gens) /\ DOMAIN gens' = DOMAIN gens
  BY <1>1
<1>3. /\ Len(gens) \in Nat /\ DOMAIN gens = 1 .. Len(gens) /\ gens'[g] = r
      /\ \A h \in DOMAIN gens : h # g => gens'[h] = gens[h]
  BY <1>1
<1>4. \A h \in DOMAIN gens' : gens'[h].value \in 0 .. Len(obj)
  BY <1>1, <1>2, <1>3
<1> QED
  BY <1>2, <1>3, <1>4 DEF Grows

\* The invariant from its parts, after a step of async.
LEMMA AsyncInv ==
    ASSUME CInv, IInv', Keeps(obj, obj'), calls' = calls, mine' = mine,
           acts' \in 0 .. MaxActs, gens' \in Seq(Generator), Grows(gens, gens'),
           \A g \in DOMAIN gens' : gens'[g].value \in 0 .. Len(obj'),
           closures' \in Seq(Closure), Extends(closures, closures'), NEW p, NEW given,
           \A n \in DOMAIN closures' :
              n \in DOMAIN closures \/ (ClosureOK(n)' /\ Places(p, given, n)),
           ran \subseteq ran', ran' \subseteq DOMAIN closures, reran' \subseteq ran',
           dropped' = dropped \cup Overwritten,
           NEW m, FrameStep(m), HeapStep(p, given), GivenOK(given, closures'),
           HandsOn(p, given), DrivesOK(stack', gens'), \A g \in DOMAIN gens' : AwaitOK(g)',
           ResumedByAwaited'
    PROVE  CInv'
<1>1. /\ LibraryOK /\ FramesOK(stack, Len(calls), Len(gens)) /\ SlotsOK(obj, closures)
      /\ \A n : Unrun(n) /\ Uncaught(n)
  BY DEF CInv
<1>2. Len(stack) \in Nat /\ DOMAIN stack = 1 .. Len(stack)
  BY Basics
<1>3. calls' \in Seq(Call) /\ CallsKept /\ \A c \in DOMAIN calls' : c \in DOMAIN calls
  BY <1>1, CallsSame DEF LibraryOK
<1>4. mine' \subseteq DOMAIN obj'
  BY MineStays
<1>5. ran' \subseteq DOMAIN closures'
  BY DEF Extends, Grows
<1>6. LibraryOK'
  BY <1>3, <1>4, <1>5, LibraryNext
<1>7. FramesOK(stack', Len(calls'), Len(gens'))
  BY <1>1, <1>2, <1>3, FramesNext DEF CallsKept
<1>8. SlotsOK(obj', closures')
  BY <1>1, SlotsNext
<1>9. \A n : Unrun(n)' /\ Uncaught(n)'
  <2> SUFFICES ASSUME NEW n PROVE Unrun(n)' /\ Uncaught(n)'
    OBVIOUS
  <2>1. \A x \in DOMAIN closures' : x \in DOMAIN closures \/ Puts(p, given, x)
    BY DEF Puts
  <2>2. Unrun(n) /\ Uncaught(n)
    BY <1>1
  <2>3. Unrun(n)'
    BY <2>1, <2>2, UnrunNext
  <2>4. Uncaught(n)'
    BY <2>1, <2>2, UncaughtNext
  <2> QED
    BY <2>3, <2>4
<1>10. AwaitsOK'
  BY DEF AwaitsOK
<1> QED
  BY <1>6, <1>7, <1>8, <1>9, <1>10 DEF CInv

\* No closure is made, and none runs.
LEMMA AsyncQuiet ==
    ASSUME CInv, IInv', UNCHANGED <<obj, calls, closures, mine, history>>,
           acts' \in 0 .. MaxActs, gens' \in Seq(Generator), Grows(gens, gens'),
           \A g \in DOMAIN gens' : gens'[g].value \in 0 .. Len(obj),
           dropped' = dropped \cup Overwritten, HandsNone,
           NEW m, FrameStep(m), DrivesOK(stack', gens'),
           \A g \in DOMAIN gens' : AwaitOK(g)', ResumedByAwaited'
    PROVE  CInv'
<1>1. /\ LibraryOK /\ HeapOK(obj) /\ closures \in Seq(Closure)
      /\ ran \subseteq DOMAIN closures /\ reran \subseteq ran
  BY Basics DEF LibraryOK
<1>2. ran' = ran /\ reran' = reran /\ closures' = closures /\ obj' = obj
  BY DEF history
<1>3. HeapStep(0, Nothing) /\ GivenOK(Nothing, closures') /\ HandsOn(0, Nothing)
  BY <1>1, <1>2, HeapSame, GivenNothing, NothingGiven DEF HandsNone
<1>4. Extends(closures, closures')
  BY <1>1, <1>2, CallsSame
<1>5. Keeps(obj, obj')
  <2>1. Keeps(obj, obj)
    BY <1>1, HeapFacts DEF Keeps
  <2> QED
    BY <1>2, <2>1
<1>6. \A g \in DOMAIN gens' : gens'[g].value \in 0 .. Len(obj')
  BY <1>2
<1>7. \A n \in DOMAIN closures' : n \in DOMAIN closures
  BY <1>2
<1> QED
  BY <1>1, <1>2, <1>3, <1>4, <1>5, <1>6, <1>7, AsyncInv

\* The generators but g.
LEMMA OthersAwait ==
    ASSUME CInv, NEW g, \A h \in DOMAIN gens : h # g => gens'[h] = gens[h],
           \A h : h # g => ~Resuming(stack', h) /\ ~Resuming(stack, h),
           Extends(closures, closures'),
           \A n, h : h # g => (Asks(n, h)' <=> Asks(n, h)), reran \subseteq reran'
    PROVE  \A h \in DOMAIN gens : h # g => AwaitOK(h)'
<1> SUFFICES ASSUME NEW h \in DOMAIN gens, h # g PROVE AwaitOK(h)'
  OBVIOUS
<1>1. AwaitOK(h) /\ reran \subseteq DOMAIN closures
  BY DEF CInv, AwaitsOK, LibraryOK
<1>2. Rerun(h) => Rerun(h)'
  <2>1. \A n \in reran : n \in reran' /\ closures'[n] = closures[n]
    BY <1>1 DEF Extends
  <2> QED
    BY <2>1 DEF Rerun
<1>3. \A n : Asks(n, h)' <=> Asks(n, h)
  OBVIOUS
<1> QED
  BY <1>1, <1>2, <1>3, AwaitCalm

\* Closures that are the same ask the same.
LEMMA AsksSame ==
    ASSUME UNCHANGED <<closures, history>>
    PROVE  /\ \A n, h : Asks(n, h)' <=> Asks(n, h)
           /\ \A h : Rerun(h)' <=> Rerun(h)
           /\ reran \subseteq reran'
  BY DEF Asks, Rerun, history

\* A step that leaves the frames below the innermost as they are.
LEMMA TopStep ==
    ASSUME CInv, Goes(stack', Len(stack))
    PROVE  /\ \A j \in 1 .. Len(stack) : stack[j].kind = "generator" => stack'[j] = stack[j]
           /\ \A j \in 1 .. Len(stack) : stack'[j].kind = "generator" => stack'[j] = stack[j]
           /\ \A j \in 1 .. Len(stack) :
                 j # Len(stack) \/ Top.kind # "drive" => CallsGenerator(stack', j)
<1>1. /\ Len(stack) \in Nat /\ DOMAIN stack = 1 .. Len(stack) /\ DrivesOK(stack, gens)
  BY Basics DEF CInv
<1>2. /\ Len(stack') \in Nat /\ Len(stack) <= Len(stack')
      /\ \A j \in 1 .. Len(stack) : j # Len(stack) => stack'[j] = stack[j]
      /\ \A j \in 1 .. Len(stack) : Similar(stack[j], stack'[j])
  <2> DEFINE m == Len(stack)
  <2>1. Goes(stack', m) /\ Len(stack) \in Nat /\ m \in Nat
    BY <1>1
  <2> HIDE DEF m
  <2>2. /\ Len(stack') \in Nat /\ (Len(stack') = m \/ Len(stack') = m + 1)
        /\ \A j \in 1 .. m : j # m => stack'[j] = stack[j]
        /\ \A j \in 1 .. m : Similar(stack[j], stack'[j])
    BY <2>1, GoesFacts
  <2>3. m <= Len(stack')
    BY <2>1, <2>2
  <2> QED
    BY <2>2, <2>3 DEF m
<1>3. \A j \in 1 .. Len(stack) : /\ stack'[j].kind = stack[j].kind
                                 /\ stack[j].kind = "generator" => stack'[j] = stack[j]
  BY <1>2 DEF Similar
<1>4. ASSUME NEW j \in 1 .. Len(stack), j # Len(stack) \/ Top.kind # "drive"
      PROVE  CallsGenerator(stack', j)
  <2>1. CallsGenerator(stack, j)
    BY <1>1 DEF DrivesOK
  <2>2. ASSUME stack'[j].kind = "drive"
        PROVE  /\ stack'[j] = stack[j] /\ stack[j].at # "send" /\ j < Len(stack)
               /\ j + 1 \in 1 .. Len(stack)
    <3>1. j # Len(stack)
      BY <1>3, <1>4, <2>2 DEF Top
    <3>2. stack'[j] = stack[j] /\ stack[j].kind = "drive"
      BY <1>2, <2>2, <3>1
    <3>3. stack[j].at # "send"
      BY <2>1, <3>1, <3>2 DEF CallsGenerator
    <3>4. j < Len(stack) /\ j + 1 \in 1 .. Len(stack)
      <4> DEFINE n == Len(stack)
      <4>1. n \in Nat /\ j \in 1 .. n /\ j # n
        BY <1>1, <3>1
      <4> HIDE DEF n
      <4>2. j < n /\ j + 1 \in 1 .. n
        BY <4>1
      <4> QED
        BY <4>2 DEF n
    <3> QED
      BY <3>2, <3>3, <3>4
  <2>3. stack'[j].kind = "drive" => stack'[j].at # "send"
    BY <2>2
  <2>4. ASSUME stack'[j].kind = "drive", stack'[j].at = "look"
        PROVE  stack'[j + 1].kind = "generator" /\ stack'[j + 1].g = stack'[j].g
    <3>1. stack[j + 1].kind = "generator" /\ stack[j + 1].g = stack[j].g
      BY <2>1, <2>2, <2>4 DEF CallsGenerator
    <3> QED
      BY <1>3, <2>2, <2>4, <3>1
  <2>5. ASSUME stack'[j].kind = "generator"
        PROVE  /\ j > 1 /\ stack'[j - 1].kind = "drive" /\ stack'[j - 1].at = "look"
               /\ stack'[j - 1].g = stack'[j].g
    <3>1. stack[j].kind = "generator" /\ stack'[j] = stack[j]
      BY <1>3, <2>5
    <3>2. /\ j > 1 /\ stack[j - 1].kind = "drive" /\ stack[j - 1].at = "look"
          /\ stack[j - 1].g = stack[j].g
      BY <2>1, <3>1 DEF CallsGenerator
    <3>3. j - 1 \in 1 .. Len(stack) /\ j - 1 # Len(stack)
      BY <1>1, <3>2
    <3>4. stack'[j - 1] = stack[j - 1]
      BY <1>2, <3>3
    <3> QED
      BY <3>1, <3>2, <3>4
  <2> QED
    BY <2>3, <2>4, <2>5 DEF CallsGenerator
<1> QED
  BY <1>3, <1>4

\* What DrivesOK says of the frames of CInv.
LEMMA DrivesFacts ==
    ASSUME CInv
    PROVE  /\ \A j \in 1 .. Len(stack) :
                 stack[j].kind = "generator" =>
                     /\ stack[j].g \in DOMAIN gens /\ gens[stack[j].g].state = "running"
                     /\ \A i \in 1 .. Len(stack) :
                           stack[i].kind = "generator" /\ stack[i].g = stack[j].g => i = j
           /\ \A g \in DOMAIN gens :
                 /\ gens[g].state = "running" => \E j \in 1 .. Len(stack) :
                                                    stack[j].kind = "generator" /\ stack[j].g = g
                 /\ gens[g].state = "new" => Resuming(stack, g)
           /\ \A g : Resuming(stack, g) => Top.kind = "drive" /\ Top.g = g
<1>1. /\ LibraryOK /\ DrivesOK(stack, gens) /\ FramesOK(stack, Len(calls), Len(gens))
      /\ DOMAIN stack = 1 .. Len(stack) /\ DOMAIN gens = 1 .. Len(gens)
  <2>1. gens \in Seq(Generator)
    BY DEF CInv, LibraryOK
  <2> QED
    BY <2>1, Basics DEF CInv
<1>2. ASSUME NEW j \in 1 .. Len(stack), stack[j].kind = "generator"
      PROVE  /\ stack[j].g \in DOMAIN gens /\ gens[stack[j].g].state = "running"
             /\ \A i \in 1 .. Len(stack) :
                   stack[i].kind = "generator" /\ stack[i].g = stack[j].g => i = j
  <2>1. RunsOnce(stack, gens, j) /\ InLibrary(stack[j], Len(calls), Len(gens))
    BY <1>1 DEF DrivesOK, FramesOK
  <2> QED
    BY <1>1, <1>2, <2>1 DEF RunsOnce, InLibrary
<1>3. ASSUME NEW g \in DOMAIN gens
      PROVE  /\ gens[g].state = "running" => \E j \in 1 .. Len(stack) :
                                                stack[j].kind = "generator" /\ stack[j].g = g
             /\ gens[g].state = "new" => Resuming(stack, g)
  <2>1. GeneratorOK(stack, gens, g)
    BY <1>1 DEF DrivesOK
  <2> QED
    BY <1>1, <2>1 DEF GeneratorOK
<1>4. \A g : Resuming(stack, g) => Top.kind = "drive" /\ Top.g = g
  BY DEF Resuming, Top
<1> QED
  BY <1>2, <1>3, <1>4

\* $asyncToGenerator is called, of a generator that is new or was.
LEMMA DrivesPushed ==
    ASSUME CInv, NEW m, m = Len(stack), Goes(stack', m), Len(stack') = m + 1,
           Top.kind # "drive", NEW f, stack'[m + 1] = f, f.kind = "drive",
           f.at \in {"look", "send"}, Grows(gens, gens'),
           \A g \in DOMAIN gens : gens'[g] = gens[g],
           \A g \in DOMAIN gens' :
              g \in DOMAIN gens \/ (g = f.g /\ gens'[g].state = "new")
    PROVE  DrivesOK(stack', gens') /\ \A g : Resuming(stack', g) <=> g = f.g
<1>1. /\ m \in Nat /\ DOMAIN stack' = 1 .. Len(stack') /\ m + 1 \in 1 .. Len(stack')
      /\ \A j \in 1 .. m : j \in 1 .. Len(stack')
      /\ \A j \in 1 .. Len(stack') : j \in 1 .. m \/ j = m + 1
  <2>1. m \in Nat
    BY Basics
  <2>2. DOMAIN stack' = 1 .. Len(stack')
    BY DEF Goes
  <2> QED
    BY <2>1, <2>2
<1>2. /\ \A j \in 1 .. m : stack[j].kind = "generator" => stack'[j] = stack[j]
      /\ \A j \in 1 .. m : stack'[j].kind = "generator" => stack'[j] = stack[j]
      /\ \A j \in 1 .. m : CallsGenerator(stack', j)
  BY TopStep
<1>3. /\ \A j \in 1 .. m :
            stack[j].kind = "generator" =>
                /\ stack[j].g \in DOMAIN gens /\ gens[stack[j].g].state = "running"
                /\ \A i \in 1 .. m :
                      stack[i].kind = "generator" /\ stack[i].g = stack[j].g => i = j
      /\ \A g \in DOMAIN gens :
            /\ gens[g].state = "running" => \E j \in 1 .. m :
                                               stack[j].kind = "generator" /\ stack[j].g = g
            /\ gens[g].state # "new"
  BY DrivesFacts
<1>4. \A g : Resuming(stack', g) <=> g = f.g
  BY DEF Resuming
<1>5. ASSUME NEW j \in 1 .. Len(stack')
      PROVE  CallsGenerator(stack', j) /\ RunsOnce(stack', gens', j)
  <2>1. CASE j \in 1 .. m
    <3>1. RunsOnce(stack', gens', j)
      BY <1>1, <1>2, <1>3, <2>1 DEF RunsOnce
    <3> QED
      BY <1>2, <2>1, <3>1
  <2>2. CASE j = m + 1
    <3>1. ~(j < Len(stack')) /\ j = Len(stack')
      BY <1>1, <2>2
    <3> QED
      BY <2>2, <3>1 DEF CallsGenerator, RunsOnce
  <2> QED
    BY <1>1, <2>1, <2>2
<1>6. ASSUME NEW g \in DOMAIN gens' PROVE GeneratorOK(stack', gens', g)
  <2>1. CASE g \in DOMAIN gens
    BY <1>1, <1>2, <1>3, <2>1 DEF GeneratorOK
  <2>2. CASE g \notin DOMAIN gens
    BY <1>4, <2>2 DEF GeneratorOK
  <2> QED
    BY <2>1, <2>2
<1> QED
  BY <1>1, <1>4, <1>5, <1>6 DEF DrivesOK

\* The generator of the frame on top runs on.
LEMMA DrivesResume ==
    ASSUME CInv, NEW m, m = Len(stack), Goes(stack', m), Len(stack') = m + 1,
           Top.kind = "drive", NEW g, g = Top.g, gens[g].state \in {"new", "suspended"},
           stack'[m].kind = "drive", stack'[m].at = "look", stack'[m].g = g,
           stack'[m + 1].kind = "generator", stack'[m + 1].g = g,
           DOMAIN gens' = DOMAIN gens, gens'[g].state = "running",
           \A h \in DOMAIN gens : h # g => gens'[h] = gens[h]
    PROVE  DrivesOK(stack', gens') /\ \A h : ~Resuming(stack', h)
<1>1. /\ m \in Nat /\ m > 0 /\ DOMAIN stack' = 1 .. Len(stack') /\ m + 1 \in 1 .. Len(stack')
      /\ \A j \in 1 .. m : j \in 1 .. Len(stack')
      /\ \A j \in 1 .. Len(stack') : j \in 1 .. m \/ j = m + 1
  <2>1. m \in Nat /\ m > 0
    BY Basics
  <2>2. DOMAIN stack' = 1 .. Len(stack')
    BY DEF Goes
  <2> QED
    BY <2>1, <2>2
<1>2. /\ \A j \in 1 .. m : stack[j].kind = "generator" => stack'[j] = stack[j]
      /\ \A j \in 1 .. m : stack'[j].kind = "generator" => stack'[j] = stack[j]
      /\ \A j \in 1 .. m : j # m => CallsGenerator(stack', j)
  BY TopStep
<1>3. /\ \A j \in 1 .. m :
            stack[j].kind = "generator" =>
                /\ stack[j].g \in DOMAIN gens /\ gens[stack[j].g].state = "running"
                /\ stack[j].g # g
                /\ \A i \in 1 .. m :
                      stack[i].kind = "generator" /\ stack[i].g = stack[j].g => i = j
      /\ \A h \in DOMAIN gens :
            /\ gens[h].state = "running" => \E j \in 1 .. m :
                                               stack[j].kind = "generator" /\ stack[j].g = h
            /\ gens[h].state = "new" => h = g
  BY DrivesFacts
<1>4. \A h : ~Resuming(stack', h)
  BY DEF Resuming
<1>5. ASSUME NEW j \in 1 .. Len(stack')
      PROVE  CallsGenerator(stack', j) /\ RunsOnce(stack', gens', j)
  <2>1. CASE j \in 1 .. m
    <3>1. RunsOnce(stack', gens', j)
      <4>1. ASSUME stack'[j].kind = "generator"
            PROVE  /\ gens'[stack'[j].g].state = "running" /\ stack'[j].g # g
                   /\ \A i \in 1 .. m :
                         stack'[i].kind = "generator" /\ stack'[i].g = stack'[j].g => i = j
        BY <1>2, <1>3, <2>1, <4>1
      <4> QED
        BY <1>1, <4>1 DEF RunsOnce
    <3>2. CallsGenerator(stack', m)
      <4>1. m # Len(stack') /\ m \in 1 .. m
        BY <1>1
      <4> QED
        BY <1>1, <4>1 DEF CallsGenerator
    <3> QED
      BY <1>2, <2>1, <3>1, <3>2
  <2>2. CASE j = m + 1
    <3>1. j > 1 /\ j - 1 = m
      BY <1>1, <2>2
    <3>2. CallsGenerator(stack', j)
      BY <2>2, <3>1 DEF CallsGenerator
    <3>3. \A i \in 1 .. m : stack'[i].kind = "generator" => stack'[i].g # g
      BY <1>2, <1>3
    <3>4. RunsOnce(stack', gens', j)
      BY <1>1, <2>2, <3>3 DEF RunsOnce
    <3> QED
      BY <3>2, <3>4
  <2> QED
    BY <1>1, <2>1, <2>2
<1>6. ASSUME NEW h \in DOMAIN gens' PROVE GeneratorOK(stack', gens', h)
  <2>1. CASE h # g
    BY <1>1, <1>2, <1>3, <2>1 DEF GeneratorOK
  <2>2. CASE h = g
    BY <1>1, <2>2 DEF GeneratorOK
  <2> QED
    BY <2>1, <2>2
<1> QED
  BY <1>1, <1>4, <1>5, <1>6 DEF DrivesOK

\* $asyncToGenerator goes on, and will resume the generator.
LEMMA DrivesGoOn ==
    ASSUME CInv, NEW m, m = Len(stack), Rest(stack', m), Top.kind = "drive",
           NEW g, g = Top.g, stack'[m].kind = "drive", stack'[m].g = g,
           stack'[m].at \in {"look", "send"}, gens' = gens
    PROVE  DrivesOK(stack', gens') /\ \A h : Resuming(stack', h) <=> h = g
<1>1. m \in Nat /\ m > 0 /\ DOMAIN stack' = 1 .. m /\ Len(stack') = m /\ Goes(stack', m)
  BY Basics DEF Rest, Goes
<1>2. /\ \A j \in 1 .. m : stack[j].kind = "generator" => stack'[j] = stack[j]
      /\ \A j \in 1 .. m : stack'[j].kind = "generator" => stack'[j] = stack[j]
      /\ \A j \in 1 .. m : j # m => CallsGenerator(stack', j)
  BY <1>1, TopStep
<1>3. /\ \A j \in 1 .. m :
            stack[j].kind = "generator" =>
                /\ stack[j].g \in DOMAIN gens /\ gens[stack[j].g].state = "running"
                /\ \A i \in 1 .. m :
                      stack[i].kind = "generator" /\ stack[i].g = stack[j].g => i = j
      /\ \A h \in DOMAIN gens :
            /\ gens[h].state = "running" => \E j \in 1 .. m :
                                               stack[j].kind = "generator" /\ stack[j].g = h
            /\ gens[h].state = "new" => h = g
  BY DrivesFacts
<1>4. \A h : Resuming(stack', h) <=> h = g
  BY <1>1 DEF Resuming
<1>5. CallsGenerator(stack', m)
  BY <1>1 DEF CallsGenerator
<1>6. ASSUME NEW j \in 1 .. m PROVE RunsOnce(stack', gens', j)
  BY <1>1, <1>2, <1>3 DEF RunsOnce
<1>7. ASSUME NEW h \in DOMAIN gens' PROVE GeneratorOK(stack', gens', h)
  BY <1>1, <1>2, <1>3, <1>4 DEF GeneratorOK
<1> QED
  BY <1>1, <1>2, <1>4, <1>5, <1>6, <1>7 DEF DrivesOK

\* The body of a generator is left.
LEMMA DrivesLeave ==
    ASSUME CInv, Top.kind = "generator", NEW m, Rest(stack', m), m # Len(stack),
           \A j \in 1 .. Len(stack) : j > m => stack[j].kind # "generator" \/ j = Len(stack),
           stack'[m].kind = "drive" => m = Len(stack) - 1 /\ stack'[m] = stack[m],
           NEW g, g = Top.g, DOMAIN gens' = DOMAIN gens,
           gens'[g].state \in {"suspended", "done"},
           \A h \in DOMAIN gens : h # g => gens'[h] = gens[h]
    PROVE  /\ DrivesOK(stack', gens')
           /\ \A h : Resuming(stack', h) => h = g
           /\ m = Len(stack) - 1 /\ stack'[m] = stack[m] =>
                 Resuming(stack', g) /\ stack'[m].kind = "drive" /\ stack'[m].at = "look"
<1> DEFINE n == Len(stack)
<1>1. n \in Nat /\ n \in 1 .. n /\ stack[n] = Top /\ Goes(stack', m) /\ Len(stack') = m
  BY Basics DEF Top, Rest
<1>2. /\ m \in 1 .. n /\ m \in Nat /\ DOMAIN stack' = 1 .. m /\ m \in 1 .. m
      /\ \A j \in 1 .. m : j # m => stack'[j] = stack[j]
      /\ \A j \in 1 .. m : Similar(stack[j], stack'[j])
  BY <1>1, GoesFacts
<1>3. DrivesOK(stack, gens) /\ DOMAIN stack = 1 .. n
  BY Basics DEF CInv
<1>4. /\ \A j \in 1 .. n :
            stack[j].kind = "generator" =>
                /\ stack[j].g \in DOMAIN gens /\ gens[stack[j].g].state = "running"
                /\ stack[j].g = g => j = n
                /\ \A i \in 1 .. n :
                      stack[i].kind = "generator" /\ stack[i].g = stack[j].g => i = j
      /\ \A h \in DOMAIN gens :
            /\ gens[h].state = "running" => \E j \in 1 .. n :
                                               stack[j].kind = "generator" /\ stack[j].g = h
            /\ gens[h].state # "new"
  BY <1>1, DrivesFacts
<1> HIDE DEF n
<1>5. /\ m < n /\ \A j \in 1 .. m : j \in 1 .. n /\ j # n
      /\ \A j \in 1 .. n : j \in 1 .. m \/ j > m
  BY <1>1, <1>2 DEF n
<1>6. CallsGenerator(stack, n)
  BY <1>1, <1>3 DEF DrivesOK
<1>7. /\ n > 1 /\ stack[n - 1].kind = "drive" /\ stack[n - 1].at = "look"
      /\ stack[n - 1].g = g
  BY <1>1, <1>6 DEF CallsGenerator
<1>8. ASSUME NEW h, Resuming(stack', h) PROVE h = g
  <2>1. stack'[m].kind = "drive" /\ stack'[m].g = h
    BY <1>1, <1>8 DEF Resuming
  <2> QED
    BY <1>7, <2>1 DEF n
<1>9. m = n - 1 /\ stack'[m] = stack[m] =>
         Resuming(stack', g) /\ stack'[m].kind = "drive" /\ stack'[m].at = "look"
  BY <1>1, <1>7 DEF Resuming
<1>10. \A j \in 1 .. m : /\ stack'[j].kind = stack[j].kind
                         /\ stack[j].kind = "generator" => stack'[j] = stack[j]
                         /\ stack'[j].kind = "drive" => stack'[j] = stack[j]
  BY <1>2 DEF Similar
<1>11. ASSUME NEW j \in 1 .. m PROVE CallsGenerator(stack', j)
  <2>1. CallsGenerator(stack, j)
    BY <1>3, <1>5 DEF DrivesOK
  <2>2. stack'[j].kind = "drive" => stack'[j].at # "send"
    BY <1>5, <1>10, <2>1 DEF CallsGenerator, n
  <2>3. ASSUME stack'[j].kind = "drive", stack'[j].at = "look", j < m
        PROVE  stack'[j + 1].kind = "generator" /\ stack'[j + 1].g = stack'[j].g
    <3>1. j + 1 \in 1 .. m /\ j < Len(stack)
      <4>1. j < n /\ j + 1 \in 1 .. m
        BY <1>1, <1>2, <1>5, <2>3
      <4> QED
        BY <4>1 DEF n
    <3> QED
      BY <1>10, <2>1, <2>3, <3>1 DEF CallsGenerator
  <2>4. ASSUME stack'[j].kind = "generator"
        PROVE  /\ j > 1 /\ stack'[j - 1].kind = "drive" /\ stack'[j - 1].at = "look"
               /\ stack'[j - 1].g = stack'[j].g
    <3>1. stack[j].kind = "generator" /\ stack'[j] = stack[j]
      BY <1>10, <2>4
    <3>2. /\ j > 1 /\ stack[j - 1].kind = "drive" /\ stack[j - 1].at = "look"
          /\ stack[j - 1].g = stack[j].g
      BY <2>1, <3>1 DEF CallsGenerator
    <3>3. j - 1 \in 1 .. m /\ j - 1 # m
      BY <1>2, <3>2
    <3> QED
      BY <1>2, <3>1, <3>2, <3>3
  <2> QED
    BY <1>1, <2>2, <2>3, <2>4 DEF CallsGenerator
<1>12. ASSUME NEW j \in 1 .. m PROVE RunsOnce(stack', gens', j)
  BY <1>2, <1>4, <1>5, <1>10 DEF RunsOnce
<1>13. ASSUME NEW h \in DOMAIN gens' PROVE GeneratorOK(stack', gens', h)
  <2>1. CASE h = g
    BY <2>1 DEF GeneratorOK
  <2>2. CASE h # g
    <3>1. ASSUME gens'[h].state = "running"
          PROVE  \E j \in 1 .. m : stack'[j].kind = "generator" /\ stack'[j].g = h
      <4>1. PICK j \in 1 .. n : stack[j].kind = "generator" /\ stack[j].g = h
        BY <1>4, <2>2, <3>1
      <4>2. j # n
        BY <1>1, <2>2, <4>1
      <4>3. j \in 1 .. m
        BY <1>5, <4>1, <4>2 DEF n
      <4> QED
        BY <1>10, <4>1, <4>3
    <3>2. gens'[h].state # "new"
      BY <1>4, <2>2
    <3> QED
      BY <1>2, <3>1, <3>2 DEF GeneratorOK
  <2> QED
    BY <2>1, <2>2
<1> QED
  BY <1>2, <1>8, <1>9, <1>11, <1>12, <1>13 DEF DrivesOK, n

\* What is known of the frame that $asyncToGenerator, or a generator, adds.
LEMMA AsyncFrame ==
    ASSUME NEW f, f \in DriveFrame \cup GeneratorFrame, f.g \in 1 .. Len(gens'), NEW m,
           Goes(stack', m), ~Catching(stack'[m]), m + 1 = Len(stack') => stack'[m + 1] = f
    PROVE  FrameStep(m)
<1>1. f.kind \in {"drive", "generator"}
  BY DEF DriveFrame, GeneratorFrame
<1> QED
  BY <1>1 DEF FrameStep, CatchOK, Catching, InLibrary

LEMMA CCallAsync ==
    ASSUME CInv, CallAsync, dropped' = dropped \cup Overwritten
    PROVE  CInv'
<1> DEFINE f == [kind |-> "drive", g |-> Len(gens) + 1, by |-> 0, at |-> "look"]
           r == [state |-> "new", value |-> 0]
           m == Len(stack)
<1>1. /\ IInv /\ HeapOK(obj) /\ StackOK(obj, stack) /\ LibraryOK /\ m \in Nat
      /\ Len(obj) \in Nat
  BY Basics
<1>2. /\ Acts /\ Top.kind \in {"user", "generator"}
      /\ gens' = Append(gens, r) /\ stack' = Append(stack, f)
      /\ UNCHANGED <<obj, cut, lost, calls, closures, mine, history>>
  BY DEF CallAsync, Acts, InUserCode
<1>3. /\ gens \in Seq(Generator) /\ Len(gens) \in Nat /\ DOMAIN gens = 1 .. Len(gens)
      /\ \A g \in DOMAIN gens : gens[g].value \in 0 .. Len(obj)
  BY <1>1 DEF LibraryOK
<1>4. r \in Generator /\ 0 \in Value
  BY BoundsAssumption DEF Generator, Value
<1>5. /\ f \in DriveFrame /\ f.kind = "drive" /\ f.at = "look" /\ f.g = Len(gens) + 1
      /\ f \in Frame /\ FrameOK(obj, f)
  <2>1. f \in DriveFrame
    BY <1>3 DEF DriveFrame
  <2> QED
    BY <2>1 DEF Frame, FrameOK
<1> HIDE DEF f
<1>6. /\ gens' \in Seq(Generator) /\ Len(gens') = Len(gens) + 1 /\ DOMAIN gens' = 1 .. Len(gens')
      /\ gens'[Len(gens) + 1] = r /\ Grows(gens, gens')
      /\ \A g \in DOMAIN gens : gens'[g] = gens[g]
      /\ \A g \in DOMAIN gens' : g \in DOMAIN gens \/ g = Len(gens) + 1
  BY <1>2, <1>3, <1>4 DEF Grows
<1>7. /\ Goes(stack', m) /\ Len(stack') = m + 1 /\ stack'[m] = Top /\ stack'[m + 1] = f
      /\ stack'[Len(stack')] = f
  <2>1. Rest(stack, m) /\ stack \in Seq(Frame)
    BY <1>1, RestStack, StackFacts
  <2> HIDE DEF m
  <2>2. /\ Goes(Append(stack, f), m) /\ Len(Append(stack, f)) = m + 1
        /\ Append(stack, f)[m] = stack[m] /\ Append(stack, f)[m + 1] = f
    BY <1>5, <2>1, GoesPush
  <2> QED
    BY <1>2, <2>2 DEF Top, m
<1>8. IInv'
  <2>1. Quiet(stack) /\ FulfilsFrom(obj, stack, cut \cup lost) /\ RejectsFrom(obj, stack, cut)
    BY <1>1, <1>2, InUser DEF IInv
  <2>2. StackOK(obj, stack') /\ \A p : Reaches(stack, p) => Reaches(stack', p)
    BY <1>1, <1>2, <1>5, <2>1, Pushed
  <2> QED
    BY <1>1, <1>2, <2>1, <2>2, MoveInv
<1>9. DrivesOK(stack', gens') /\ \A g : Resuming(stack', g) <=> g = f.g
  <2>1. \A g \in DOMAIN gens' : g \in DOMAIN gens \/ (g = f.g /\ gens'[g].state = "new")
    BY <1>5, <1>6
  <2> HIDE DEF m
  <2>2. m = Len(stack)
    BY DEF m
  <2> QED
    BY <1>2, <1>5, <1>6, <1>7, <2>1, <2>2, DrivesPushed
<1>10. \A g : ~Resuming(stack, g)
  BY <1>2 DEF Resuming, Top
<1>11. /\ \A n, h : Asks(n, h)' <=> Asks(n, h)
       /\ reran' = reran /\ Extends(closures, closures') /\ acts' \in 0 .. MaxActs
  BY <1>1, <1>2, AsksSame, CallsSame, ActsStays DEF history
<1>12. ASSUME NEW g \in DOMAIN gens' PROVE AwaitOK(g)'
  <2> DEFINE new == Len(gens) + 1
  <2>1. new \notin DOMAIN gens
    BY <1>3
  <2>2. CASE g # new
    <3>1. g \in DOMAIN gens
      BY <1>6, <2>2
    <3>2. \A h : h # new => ~Resuming(stack', h) /\ ~Resuming(stack, h)
      BY <1>5, <1>9, <1>10
    <3>3. \A h \in DOMAIN gens : h # new => gens'[h] = gens[h]
      BY <1>6
    <3> HIDE DEF new
    <3>4. \A h \in DOMAIN gens : h # new => AwaitOK(h)'
      BY <1>11, <3>2, <3>3, OthersAwait
    <3> QED
      BY <2>2, <3>1, <3>4
  <2>3. CASE g = new
    <3>1. gens'[g].state = "new"
      BY <1>6, <2>3
    <3>2. ASSUME NEW n, Asks(n, g) PROVE FALSE
      <4>1. n \in DOMAIN closures /\ closures[n].role = "await" /\ closures[n].c = g
        BY <3>2 DEF Asks
      <4>2. ClosureOK(n)
        BY <1>1, <4>1 DEF LibraryOK
      <4> QED
        BY <2>1, <2>3, <4>1, <4>2 DEF ClosureOK
    <3>3. \A n : ~Asks(n, g)'
      BY <1>11, <3>2
    <3> QED
      BY <3>1, <3>3 DEF AwaitOK
  <2> QED
    BY <2>2, <2>3
<1>13. ResumedByAwaited'
  BY <1>5, <1>7 DEF ResumedByAwaited, Driving, Top
<1>14. FrameStep(m)
  <2>1. f.g \in 1 .. Len(gens')
    BY <1>3, <1>5, <1>6
  <2>2. ~Catching(stack'[m])
    BY <1>2, <1>7 DEF Catching
  <2> HIDE DEF m
  <2> QED
    BY <1>5, <1>7, <2>1, <2>2, AsyncFrame
<1>15. \A g \in DOMAIN gens' : gens'[g].value \in 0 .. Len(obj)
  <2>1. r.value \in 0 .. Len(obj)
    BY <1>1
  <2> HIDE DEF r
  <2> QED
    BY <1>3, <1>6, <2>1
<1>16. HandsNone
  BY <1>2 DEF HandsNone
<1> HIDE DEF m
<1> QED
  BY <1>2, <1>6, <1>8, <1>9, <1>11, <1>12, <1>13, <1>14, <1>15, <1>16, AsyncQuiet

LEMMA CRunAwait ==
    ASSUME CInv, RunAwait, dropped' = dropped \cup Overwritten
    PROVE  CInv'
<1>0. PICK n, g : n = FnAt(Top).n /\ g = closures[n].c
  OBVIOUS
<1> DEFINE f == [kind |-> "drive", g |-> g, by |-> n, at |-> "send"]
           m == Len(stack)
<1>1. /\ IInv /\ HeapOK(obj) /\ StackOK(obj, stack) /\ LibraryOK /\ m \in Nat
      /\ Len(obj) \in Nat /\ acts \in 0 .. MaxActs
  BY Basics
<1>2. /\ Running("await") /\ Ran /\ stack' = Append(Advanced, f)
      /\ UNCHANGED <<obj, cut, lost, library, held>>
  BY <1>0 DEF RunAwait, ThisClosure
<1>3. /\ Top.kind = "settle" /\ Top.step < 4 /\ FnAt(Top).kind = "library"
      /\ closures[n].role = "await"
  BY <1>0, <1>2 DEF Running
<1>4. n \in DOMAIN closures
  BY <1>0, <1>3, FnAtFacts
<1>5. /\ n \in Nat /\ n # 0 /\ g \in DOMAIN gens /\ g \in Nat /\ closures \in Seq(Closure)
      /\ g \in 1 .. Len(gens) /\ gens \in Seq(Generator)
  <2>1. closures \in Seq(Closure) /\ gens \in Seq(Generator) /\ ClosureOK(n)
    BY <1>1, <1>4 DEF LibraryOK
  <2>2. g \in DOMAIN gens
    BY <1>0, <1>3, <2>1 DEF ClosureOK
  <2> QED
    BY <1>4, <2>1, <2>2
<1>6. /\ ran' = ran \cup {n}
      /\ reran' = IF n \in ran THEN reran \cup {n} ELSE reran
      /\ gens' = gens /\ closures' = closures /\ calls' = calls
      /\ mine' = mine /\ acts' = acts
  BY <1>0, <1>2 DEF Ran, library, held
<1>7. /\ f \in DriveFrame /\ f.kind = "drive" /\ f.at = "send" /\ f.g = g /\ f.by = n
      /\ f \in Frame /\ FrameOK(obj, f)
  <2>1. f \in DriveFrame
    BY <1>5 DEF DriveFrame
  <2> QED
    BY <2>1 DEF Frame, FrameOK
<1> HIDE DEF f
<1>8. /\ Calm(Advanced, m) /\ ~Catching(Advanced[m])
  BY <1>1, <1>3, CalmAdvanced
<1>9. /\ Goes(stack', m) /\ Len(stack') = m + 1 /\ stack'[m] = Advanced[m]
      /\ stack'[m + 1] = f /\ stack'[Len(stack')] = f
  <2>1. Rest(Advanced, m) /\ Advanced \in Seq(Frame)
    BY <1>8 DEF Calm
  <2> HIDE DEF m
  <2>2. /\ Goes(Append(Advanced, f), m) /\ Len(Append(Advanced, f)) = m + 1
        /\ Append(Advanced, f)[m] = Advanced[m] /\ Append(Advanced, f)[m + 1] = f
    BY <1>7, <2>1, GoesPush
  <2> QED
    BY <1>2, <2>2
<1>10. IInv' /\ Keeps(obj, obj')
  <2>1. Resolves(FnAt(Top)) = {}
    BY <1>3 DEF Resolves
  <2>2. /\ StackOK(obj, Advanced) /\ Quiet(Advanced) /\ RejectsFrom(obj, Advanced, cut)
        /\ FulfilsFrom(obj, Advanced, cut \cup lost)
    BY <1>1, <1>3, <2>1, InSettlement
  <2>3. StackOK(obj, stack') /\ \A p : Reaches(Advanced, p) => Reaches(stack', p)
    BY <1>2, <1>7, <2>2, Pushed
  <2> QED
    BY <1>1, <1>2, <2>2, <2>3, MoveInv
<1>11. Grows(gens, gens') /\ Extends(closures, closures')
  BY <1>1, <1>6, CallsSame
<1>12. DrivesOK(stack', gens') /\ \A h : Resuming(stack', h) <=> h = g
  <2> HIDE DEF m
  <2>1. m = Len(stack) /\ Top.kind # "drive"
    BY <1>3 DEF m
  <2>2. \A h \in DOMAIN gens : gens'[h] = gens[h]
    BY <1>6
  <2>3. DrivesOK(stack', gens') /\ \A h : Resuming(stack', h) <=> h = f.g
    BY <1>6, <1>7, <1>9, <1>11, <2>1, <2>2, DrivesPushed
  <2> QED
    BY <1>7, <2>3
<1>13. \A h : ~Resuming(stack, h)
  BY <1>3 DEF Resuming, Top
<1>14. /\ ran \subseteq ran' /\ ran' \subseteq DOMAIN closures /\ reran' \subseteq ran'
       /\ reran \subseteq reran' /\ n \in ran'
  BY <1>1, <1>4, <1>6 DEF LibraryOK
<1>15. \A x, h : Asks(x, h)' => Asks(x, h) /\ x # n
  BY <1>6 DEF Asks
<1>16. \A x, h : h # g => (Asks(x, h)' <=> Asks(x, h))
  BY <1>0, <1>6 DEF Asks
<1>17. AwaitOK(g)
  BY <1>5 DEF CInv, AwaitsOK
<1>18. Rerun(g) \/ n \in ran => Rerun(g)'
  BY <1>0, <1>3, <1>6, <1>14 DEF Rerun
<1>19. n \notin ran => Asks(n, g)
  BY <1>0, <1>3, <1>4 DEF Asks
<1>20. AwaitOK(g)'
  <2>1. ASSUME ~Rerun(g)', NEW x, Asks(x, g)' PROVE FALSE
    BY <1>15, <1>17, <1>18, <1>19, <2>1 DEF AwaitOK
  <2> QED
    BY <1>12, <2>1 DEF AwaitOK
<1>21. ASSUME NEW h \in DOMAIN gens' PROVE AwaitOK(h)'
  <2>1. \A i \in DOMAIN gens : i # g => gens'[i] = gens[i]
    BY <1>6
  <2>2. \A i : i # g => ~Resuming(stack', i) /\ ~Resuming(stack, i)
    BY <1>12, <1>13
  <2>3. \A i \in DOMAIN gens : i # g => AwaitOK(i)'
    BY <1>11, <1>14, <1>16, <2>1, <2>2, OthersAwait
  <2> QED
    BY <1>6, <1>20, <2>3
<1>22. ResumedByAwaited'
  <2>1. Top'.g = g /\ Top'.by = n /\ Gen' = gens[g]
    BY <1>6, <1>7, <1>9 DEF Top, Gen
  <2>2. ASSUME gens[g].state = "suspended"
        PROVE  closures[n].p = gens[g].value \/ Rerun(g)'
    BY <1>17, <1>18, <1>19 DEF AwaitOK
  <2> QED
    BY <1>5, <1>6, <2>1, <2>2 DEF ResumedByAwaited, Driving, Rerun
<1>23. FrameStep(m)
  <2>1. f.g \in 1 .. Len(gens') /\ ~Catching(stack'[m])
    BY <1>5, <1>6, <1>7, <1>8, <1>9
  <2> HIDE DEF m
  <2> QED
    BY <1>7, <1>9, <2>1, AsyncFrame
<1>24. HeapStep(0, Nothing) /\ GivenOK(Nothing, closures')
  BY <1>1, <1>2, HeapSame, GivenNothing
<1>25. HandsOn(0, Nothing)
  BY <1>0, <1>3, <1>14, HandsRan
<1>26. /\ gens' \in Seq(Generator) /\ closures' \in Seq(Closure) /\ acts' \in 0 .. MaxActs
       /\ \A h \in DOMAIN gens' : gens'[h].value \in 0 .. Len(obj')
       /\ \A x \in DOMAIN closures' : x \in DOMAIN closures
  BY <1>1, <1>2, <1>5, <1>6 DEF LibraryOK
<1> HIDE DEF m
<1> QED
  BY <1>6, <1>10, <1>11, <1>12, <1>14, <1>21, <1>22, <1>23, <1>24, <1>25, <1>26, AsyncInv

\* No closure asks for a generator that is resumed or runs, unless one ran twice.
LEMMA NoneAsks ==
    ASSUME CInv, NEW g, g = Top.g,
           Top.kind = "generator" \/ (Top.kind = "drive" /\ Top.at \in {"look", "send"})
    PROVE  /\ g \in DOMAIN gens /\ \A n : Asks(n, g) => Rerun(g)
           /\ \A h : h # g => ~Resuming(stack, h)
           /\ Top.kind = "generator" => gens[g].state = "running"
<1>1. AwaitOK(g) /\ g \in DOMAIN gens
  BY DriveFacts
<1>2. Top.kind = "generator" => gens[g].state = "running"
  BY Basics, DrivesFacts DEF Top
<1>3. Top.kind = "drive" => Resuming(stack, g)
  BY DEF Resuming, Top
<1>4. \A n : Asks(n, g) => Rerun(g)
  BY <1>1, <1>2, <1>3 DEF AwaitOK
<1>5. \A h : h # g => ~Resuming(stack, h)
  BY DrivesFacts
<1> QED
  BY <1>1, <1>2, <1>4, <1>5

\* Generator g is resumed, runs or is done after the step.
LEMMA AwaitsQuiet ==
    ASSUME CInv, UNCHANGED <<closures, history>>, NEW g, g \in DOMAIN gens,
           \A n : Asks(n, g) => Rerun(g), DOMAIN gens' = DOMAIN gens,
           \A h \in DOMAIN gens : h # g => gens'[h] = gens[h],
           \A h : h # g => ~Resuming(stack', h) /\ ~Resuming(stack, h),
           gens'[g].state = "suspended" => Resuming(stack', g)
    PROVE  \A h \in DOMAIN gens' : AwaitOK(h)'
<1>1. /\ \A n, h : Asks(n, h)' <=> Asks(n, h)
      /\ \A h : Rerun(h)' <=> Rerun(h)
      /\ reran \subseteq reran' /\ Extends(closures, closures')
  BY Basics, AsksSame, CallsSame
<1>2. \A h \in DOMAIN gens : h # g => AwaitOK(h)'
  BY <1>1, OthersAwait
<1>3. AwaitOK(g)'
  BY <1>1 DEF AwaitOK
<1> QED
  BY <1>2, <1>3

LEMMA CResume ==
    ASSUME CInv, Top.kind = "drive", Top.at \in {"look", "send"},
           Gen.state \in {"new", "suspended"}, Resume,
           UNCHANGED <<obj, cut, lost, calls, closures, held, history>>,
           dropped' = dropped \cup Overwritten
    PROVE  CInv'
<1>0. PICK g : g = Top.g
  OBVIOUS
<1> DEFINE f == [Top EXCEPT !.at = "look"]
           e == [kind |-> "generator", g |-> g]
           r == [gens[g] EXCEPT !.state = "running"]
           s == TopWith(f)
           m == Len(stack)
<1>1. /\ IInv /\ HeapOK(obj) /\ StackOK(obj, stack) /\ LibraryOK /\ m \in Nat
      /\ Len(obj) \in Nat /\ acts \in 0 .. MaxActs
  BY Basics
<1>2. /\ g \in DOMAIN gens /\ gens[g] \in Generator /\ g \in Nat /\ Top \in DriveFrame
      /\ gens \in Seq(Generator) /\ gens[g].value \in 0 .. Len(obj) /\ g \in 1 .. Len(gens)
  BY <1>0, DriveFacts
<1>3. /\ gens' = [gens EXCEPT ![g].state = "running"] /\ stack' = Append(s, e)
      /\ gens[g].state \in {"new", "suspended"}
  BY <1>0 DEF Resume, Gen
<1>4. /\ f \in DriveFrame /\ f.kind = "drive" /\ f.at = "look" /\ f.g = g
      /\ f \in Frame /\ FrameOK(obj, f) /\ Similar(Top, f)
  <2>1. f \in DriveFrame /\ f.kind = "drive" /\ f.at = "look" /\ f.g = g
    BY <1>0, <1>2 DEF DriveFrame
  <2> HIDE DEF f
  <2> QED
    BY <1>0, <2>1 DEF Frame, FrameOK, Similar
<1>5. e \in GeneratorFrame /\ e \in Frame /\ FrameOK(obj, e) /\ e.kind = "generator" /\ e.g = g
  BY <1>2 DEF GeneratorFrame, Frame, FrameOK
<1>6. /\ r \in Generator /\ r.state = "running" /\ r.value = gens[g].value
  BY <1>2 DEF Generator
<1>7. gens' = [gens EXCEPT ![g] = r]
  BY <1>2, <1>3 DEF Generator
<1> HIDE DEF f, e, r, s
<1>8. /\ gens' \in Seq(Generator) /\ Grows(gens, gens') /\ DOMAIN gens' = DOMAIN gens
      /\ gens'[g] = r /\ \A h \in DOMAIN gens : h # g => gens'[h] = gens[h]
      /\ \A h \in DOMAIN gens' : gens'[h].value \in 0 .. Len(obj)
  BY <1>1, <1>2, <1>6, <1>7, GenChanged
<1>9. Rest(s, m) /\ s[m] = f /\ s \in Seq(Frame)
  <2>1. s = [stack EXCEPT ![Len(stack)] = f]
    BY DEF s, TopWith
  <2>2. Rest(s, m) /\ s[m] = f
    BY <1>1, <1>4, <2>1, RestTop
  <2>3. StackOK(obj, s)
    BY <1>1, <1>4, TopGoesOn DEF s
  <2> QED
    BY <2>2, <2>3, StackFacts
<1>10. /\ Goes(stack', m) /\ Len(stack') = m + 1 /\ stack'[m] = f
       /\ stack'[m + 1] = e /\ stack'[Len(stack')] = e
  <2> HIDE DEF m
  <2>1. /\ Goes(Append(s, e), m) /\ Len(Append(s, e)) = m + 1
        /\ Append(s, e)[m] = s[m] /\ Append(s, e)[m + 1] = e
    BY <1>5, <1>9, GoesPush
  <2> QED
    BY <1>3, <1>9, <2>1
<1>11. IInv'
  <2>1. /\ StackOK(obj, s) /\ Quiet(s)
        /\ RejectsFrom(obj, s, cut) /\ FulfilsFrom(obj, s, cut \cup lost)
    BY <1>1, <1>4, TopGoesOn DEF s
  <2>2. StackOK(obj, stack') /\ \A p : Reaches(s, p) => Reaches(stack', p)
    BY <1>3, <1>5, <2>1, Pushed
  <2> QED
    BY <1>1, <2>1, <2>2, MoveInv
<1>12. DrivesOK(stack', gens') /\ \A h : ~Resuming(stack', h)
  <2>1. m = Len(stack)
    OBVIOUS
  <2> HIDE DEF m
  <2>2. /\ Goes(stack', m) /\ Len(stack') = m + 1
        /\ stack'[m].kind = "drive" /\ stack'[m].at = "look" /\ stack'[m].g = g
        /\ stack'[m + 1].kind = "generator" /\ stack'[m + 1].g = g
    BY <1>4, <1>5, <1>10
  <2>3. /\ DOMAIN gens' = DOMAIN gens /\ gens'[g].state = "running"
        /\ \A h \in DOMAIN gens : h # g => gens'[h] = gens[h]
    BY <1>6, <1>8
  <2>4. gens[g].state \in {"new", "suspended"}
    BY <1>3
  <2> QED
    BY <1>0, <2>1, <2>2, <2>3, <2>4, DrivesResume
<1>13. \A h \in DOMAIN gens' : AwaitOK(h)'
  <2>1. /\ \A n : Asks(n, g) => Rerun(g)
        /\ \A h : h # g => ~Resuming(stack, h)
    BY <1>0, NoneAsks
  <2>2. gens'[g].state # "suspended"
    BY <1>6, <1>8
  <2> QED
    BY <1>2, <1>8, <1>12, <2>1, <2>2, AwaitsQuiet
<1>14. ResumedByAwaited'
  BY <1>5, <1>10 DEF ResumedByAwaited, Driving, Top
<1>15. FrameStep(m)
  <2>1. e.g \in 1 .. Len(gens') /\ ~Catching(stack'[m])
    <3>1. Len(gens) \in Nat /\ Len(gens') \in Nat /\ Len(gens) <= Len(gens')
      BY <1>8 DEF Grows
    <3> QED
      BY <1>2, <1>4, <1>5, <1>10, <3>1 DEF Catching
  <2> HIDE DEF m
  <2> QED
    BY <1>5, <1>10, <2>1, AsyncFrame
<1>16. HandsNone /\ mine' = mine /\ acts' = acts
  BY DEF HandsNone, held
<1> HIDE DEF m
<1> QED
  BY <1>1, <1>8, <1>11, <1>12, <1>13, <1>14, <1>15, <1>16, AsyncQuiet

\* $asyncToGenerator looks again, or sends back the value it found.
LEMMA CDriveMoves ==
    ASSUME CInv, Top.kind = "drive", Top.at \in {"look", "send"}, NEW f,
           \/ f = [Top EXCEPT !.at = "look"] /\ Gen.state = "done"
           \/ /\ f = [Top EXCEPT !.at = "send", !.by = 0]
              /\ Gen.state = "suspended" /\ Gen.value = 0,
           stack' = TopWith(f),
           UNCHANGED <<obj, cut, lost, library, held, history>>,
           dropped' = dropped \cup Overwritten
    PROVE  CInv'
<1>0. PICK g : g = Top.g
  OBVIOUS
<1> DEFINE m == Len(stack)
<1>1. /\ IInv /\ HeapOK(obj) /\ StackOK(obj, stack) /\ LibraryOK /\ m \in Nat
      /\ Len(obj) \in Nat /\ acts \in 0 .. MaxActs
  BY Basics
<1>2. /\ g \in DOMAIN gens /\ gens \in Seq(Generator) /\ Top \in DriveFrame
  BY <1>0, DriveFacts
<1>3. /\ gens' = gens /\ calls' = calls /\ closures' = closures /\ mine' = mine
      /\ acts' = acts /\ ran' = ran /\ reran' = reran
  BY DEF library, held, history
<1>4. /\ f \in DriveFrame /\ f.kind = "drive" /\ f.at \in {"look", "send"} /\ f.g = g
      /\ f.at = "send" => f.by = 0 /\ gens[g].value = 0
      /\ gens[g].state \in {"suspended", "done"}
  <2>1. CASE f = [Top EXCEPT !.at = "look"] /\ Gen.state = "done"
    BY <1>0, <1>2, <2>1 DEF DriveFrame, Gen
  <2>2. CASE /\ f = [Top EXCEPT !.at = "send", !.by = 0]
             /\ Gen.state = "suspended" /\ Gen.value = 0
    BY <1>0, <1>2, <2>2 DEF DriveFrame, Gen
  <2> QED
    BY <2>1, <2>2
<1>5. f \in Frame /\ FrameOK(obj, f) /\ Similar(Top, f)
  BY <1>0, <1>4 DEF Frame, FrameOK, Similar
<1>6. Rest(stack', m) /\ stack'[m] = f /\ Len(stack') = m
  <2>1. stack' = [stack EXCEPT ![Len(stack)] = f]
    BY DEF TopWith
  <2> QED
    BY <1>1, <1>5, <2>1, RestTop DEF Rest
<1>7. IInv'
  <2>1. /\ StackOK(obj, stack') /\ Quiet(stack')
        /\ RejectsFrom(obj, stack', cut) /\ FulfilsFrom(obj, stack', cut \cup lost)
    BY <1>1, <1>4, <1>5, TopGoesOn
  <2> QED
    BY <1>1, <2>1, MoveInv
<1>8. DrivesOK(stack', gens') /\ \A h : Resuming(stack', h) <=> h = g
  <2>1. m = Len(stack)
    OBVIOUS
  <2> HIDE DEF m
  <2> QED
    BY <1>0, <1>3, <1>4, <1>6, <2>1, DrivesGoOn
<1>9. \A h \in DOMAIN gens' : AwaitOK(h)'
  <2>1. /\ \A n : Asks(n, g) => Rerun(g)
        /\ \A h : h # g => ~Resuming(stack, h)
    BY <1>0, NoneAsks
  <2> QED
    BY <1>2, <1>3, <1>8, <2>1, AwaitsQuiet
<1>10. ResumedByAwaited'
  <2>1. Top' = f /\ (Gen' = gens[g])
    BY <1>3, <1>4, <1>6 DEF Top, Gen
  <2> QED
    BY <1>4, <2>1 DEF ResumedByAwaited, Driving
<1>11. FrameStep(m)
  <2>1. f.g \in 1 .. Len(gens') /\ ~Catching(stack'[m]) /\ m + 1 # Len(stack')
    BY <1>1, <1>2, <1>3, <1>4, <1>6 DEF Catching
  <2>2. Goes(stack', m)
    BY <1>6 DEF Rest
  <2> HIDE DEF m
  <2> QED
    BY <1>4, <2>1, <2>2, AsyncFrame
<1>12. HandsNone
  BY DEF HandsNone
<1>13. /\ gens' \in Seq(Generator) /\ Grows(gens, gens')
       /\ \A h \in DOMAIN gens' : gens'[h].value \in 0 .. Len(obj)
  BY <1>1, <1>2, <1>3, CallsSame DEF LibraryOK
<1> HIDE DEF m
<1> QED
  BY <1>1, <1>3, <1>7, <1>8, <1>9, <1>10, <1>11, <1>12, <1>13, AsyncQuiet

LEMMA CDriveSend ==
    ASSUME CInv, DriveSend, dropped' = dropped \cup Overwritten
    PROVE  CInv'
<1>1. /\ Top.kind = "drive" /\ Top.at \in {"look", "send"}
      /\ UNCHANGED <<calls, closures, held, history>>
      /\ \/ Gen.state = "suspended" /\ Resume /\ UNCHANGED <<obj, cut, lost>>
         \/ /\ Gen.state = "done" /\ stack' = TopWith([Top EXCEPT !.at = "look"])
            /\ UNCHANGED <<obj, cut, lost, gens>>
         \/ Gen.state = "running" /\ Raise(stack) /\ gens' = gens
  BY DEF DriveSend, Driving
<1>2. CASE Gen.state = "suspended" /\ Resume /\ UNCHANGED <<obj, cut, lost>>
  BY <1>1, <1>2, CResume
<1>3. CASE /\ Gen.state = "done" /\ stack' = TopWith([Top EXCEPT !.at = "look"])
           /\ UNCHANGED <<obj, cut, lost, gens>>
  <2>1. UNCHANGED <<obj, cut, lost, library, held, history>>
    BY <1>1, <1>3 DEF library
  <2> DEFINE f == [Top EXCEPT !.at = "look"]
  <2>2. f = [Top EXCEPT !.at = "look"] /\ stack' = TopWith(f)
    BY <1>3
  <2> HIDE DEF f
  <2> QED
    BY <1>1, <1>3, <2>1, <2>2, CDriveMoves
<1>4. CASE Gen.state = "running" /\ Raise(stack) /\ gens' = gens
  BY <1>1, <1>4, CDriveSendThrows DEF library
<1> QED
  BY <1>1, <1>2, <1>3, <1>4

LEMMA CDriveLook ==
    ASSUME CInv, DriveLook, dropped' = dropped \cup Overwritten
    PROVE  CInv'
<1>1. /\ Top.kind = "drive" /\ Top.at \in {"look", "send"}
      /\ UNCHANGED <<obj, cut, lost, calls, closures, held, history>>
      /\ \/ Gen.state = "new" /\ Resume
         \/ Gen.state = "done" /\ stack' = Returned(Below, 0) /\ gens' = gens
         \/ /\ Gen.state = "suspended" /\ Gen.value = 0
            /\ stack' = TopWith([Top EXCEPT !.at = "send", !.by = 0]) /\ gens' = gens
  BY DEF DriveLook, Driving
<1>2. CASE Gen.state = "new" /\ Resume
  BY <1>1, <1>2, CResume
<1>3. CASE Gen.state = "done" /\ stack' = Returned(Below, 0) /\ gens' = gens
  BY <1>1, <1>3, CDriveLookDone DEF library
<1>4. CASE /\ Gen.state = "suspended" /\ Gen.value = 0
           /\ stack' = TopWith([Top EXCEPT !.at = "send", !.by = 0]) /\ gens' = gens
  <2>1. UNCHANGED <<obj, cut, lost, library, held, history>>
    BY <1>1, <1>4 DEF library
  <2> DEFINE f == [Top EXCEPT !.at = "send", !.by = 0]
  <2>2. f = [Top EXCEPT !.at = "send", !.by = 0] /\ stack' = TopWith(f)
    BY <1>4
  <2> HIDE DEF f
  <2> QED
    BY <1>1, <1>4, <2>1, <2>2, CDriveMoves
<1> QED
  BY <1>1, <1>2, <1>3, <1>4

LEMMA CDriveAwait ==
    ASSUME CInv, DriveAwait, dropped' = dropped \cup Overwritten
    PROVE  CInv'
<1>0. PICK g, v, n : g = Top.g /\ v = gens[g].value /\ n = Len(closures) + 1
  OBVIOUS
<1> DEFINE f == [Top EXCEPT !.at = "end"]
           k == [role |-> "await", c |-> g, i |-> 0, p |-> v]
           given == Give("onFullfilled", n)
           s == TopWith(f)
           m == Len(stack)
<1>1. /\ IInv /\ HeapOK(obj) /\ StackOK(obj, stack) /\ LibraryOK /\ m \in Nat
      /\ Len(obj) \in Nat /\ acts \in 0 .. MaxActs /\ DOMAIN obj = 1 .. Len(obj)
      /\ Len(obj) <= MaxPromises
  BY Basics
<1>2. /\ g \in DOMAIN gens /\ gens \in Seq(Generator) /\ Top \in DriveFrame
      /\ v \in 0 .. Len(obj) /\ g \in Nat
  BY <1>0, DriveFacts DEF DriveAwait, Driving
<1>3. /\ Top.kind = "drive" /\ Top.at = "look" /\ v # 0 /\ gens[g].state = "suspended"
      /\ UNCHANGED <<calls, gens, held, history>>
      /\ Subscribe("onFullfilled", k, s)
  BY <1>0 DEF DriveAwait, Driving, Gen
<1>4. /\ gens' = gens /\ calls' = calls /\ mine' = mine
      /\ acts' = acts /\ ran' = ran /\ reran' = reran
  BY <1>3 DEF held, history
<1>5. closures' = Append(closures, k) /\ CallThen(v, given, s)
  BY <1>0, <1>3 DEF Subscribe, Give
<1>6. /\ f \in DriveFrame /\ f.kind = "drive" /\ f.at = "end" /\ f.g = g
  BY <1>0, <1>2 DEF DriveFrame
<1>7. v \in DOMAIN obj /\ v \in Value
  BY <1>1, <1>2, <1>3, BoundsAssumption DEF Value
<1>8. k \in Closure /\ k.role = "await" /\ k.c = g /\ k.p = v
  BY <1>2, <1>7 DEF Closure
<1> HIDE DEF f, k, s
<1>9. f \in Frame /\ FrameOK(obj, f) /\ Similar(Top, f)
  BY <1>0, <1>3, <1>6 DEF Frame, FrameOK, Similar
<1>10. /\ closures' \in Seq(Closure) /\ Extends(closures, closures')
       /\ n \in DOMAIN closures' /\ closures'[n] = k /\ n \in Nat /\ n \notin DOMAIN closures
       /\ \A x \in DOMAIN closures' : x \in DOMAIN closures \/ x = n
  BY <1>0, <1>1, <1>5, <1>8, ClosureAdded
<1>11. /\ DOMAIN given = {"onFullfilled"} /\ DOMAIN given \subseteq Slots
       /\ given["onFullfilled"].kind = "library" /\ given["onFullfilled"].n = n
       /\ \A x \in DOMAIN given : given[x] \in Fn /\ Resolves(given[x]) \subseteq DOMAIN obj
       /\ Places(v, given, n)
  <2>1. "onFullfilled" \in Slots
    BY DEF Slots
  <2> QED
    BY <1>3, <1>10, <2>1, LibraryGiven
<1> HIDE DEF given
<1>12. /\ StackOK(obj, s) /\ Quiet(s)
       /\ RejectsFrom(obj, s, cut) /\ FulfilsFrom(obj, s, cut \cup lost)
  BY <1>1, <1>3, <1>6, <1>9, TopGoesOn DEF s
<1>13. IInv' /\ Keeps(obj, obj')
  BY <1>1, <1>5, <1>7, <1>11, <1>12, CallThenInv
<1>14. Calm(s, m)
  BY <1>1, <1>6, <1>9, CalmTopWith DEF s
<1> HIDE DEF m
<1>15. FrameStep(m) /\ CalmStep(m) /\ HeapStep(v, given)
  <2>1. Len(stack) \in Nat
    BY Basics
  <2> QED
    BY <1>1, <1>5, <1>7, <1>11, <1>14, <2>1, CallThenCalm
<1>16. GivenOK(given, closures')
  BY <1>8, <1>10, <1>11 DEF GivenOK, FulfilSlot
<1>17. HandsOn(v, given)
  BY <1>3, NothingGiven
<1>18. /\ \A x : Asks(x, g) => Rerun(g)
       /\ \A h : h # g => ~Resuming(stack, h)
  BY <1>0, <1>3, NoneAsks
<1>19. DrivesOK(stack', gens') /\ \A h : ~Resuming(stack', h)
  <2>1. \A h \in DOMAIN gens : gens[h].state # "new"
    BY <1>3, <1>18, DrivesFacts
  <2> QED
    BY <1>4, <1>15, <2>1, Basics, CalmDrives DEF CInv
<1>20. /\ reran \subseteq DOMAIN closures /\ ran \subseteq DOMAIN closures
       /\ reran \subseteq ran
  BY <1>1 DEF LibraryOK
<1>21. \A x, h : Asks(x, h)' <=> Asks(x, h) \/ (x = n /\ h = g)
  <2> SUFFICES ASSUME NEW x, NEW h
               PROVE  Asks(x, h)' <=> Asks(x, h) \/ (x = n /\ h = g)
    OBVIOUS
  <2>1. CASE x \in DOMAIN closures
    <3>1. x \in DOMAIN closures' /\ closures'[x] = closures[x] /\ x # n
      BY <1>10, <2>1 DEF Extends, Grows
    <3> QED
      BY <1>4, <2>1, <3>1 DEF Asks
  <2>2. CASE x = n
    BY <1>4, <1>8, <1>10, <1>20, <2>2 DEF Asks
  <2>3. CASE x \notin DOMAIN closures /\ x # n
    BY <1>10, <2>3 DEF Asks
  <2> QED
    BY <2>1, <2>2, <2>3
<1>22. Rerun(g) => Rerun(g)'
  <2>1. \A x \in reran : closures'[x] = closures[x]
    BY <1>10, <1>20 DEF Extends
  <2> QED
    BY <1>4, <2>1 DEF Rerun
<1>23. AwaitOK(g)'
  <2>1. v # 0 /\ Asks(n, g)' /\ closures'[n].p = v /\ gens'[g].value = v
        /\ gens'[g].state = "suspended"
    BY <1>0, <1>3, <1>4, <1>8, <1>10, <1>21
  <2>2. ~Rerun(g)' => \A x : Asks(x, g)' => x = n
    BY <1>18, <1>21, <1>22
  <2> QED
    BY <1>19, <2>1, <2>2 DEF AwaitOK
<1>24. ASSUME NEW h \in DOMAIN gens' PROVE AwaitOK(h)'
  <2>1. \A i \in DOMAIN gens : i # g => gens'[i] = gens[i]
    BY <1>4
  <2>2. \A i : i # g => ~Resuming(stack', i) /\ ~Resuming(stack, i)
    BY <1>18, <1>19
  <2>3. \A x, i : i # g => (Asks(x, i)' <=> Asks(x, i))
    BY <1>21
  <2>4. \A i \in DOMAIN gens : i # g => AwaitOK(i)'
    BY <1>4, <1>10, <2>1, <2>2, <2>3, OthersAwait
  <2> QED
    BY <1>4, <1>23, <2>4
<1>25. ResumedByAwaited'
  BY <1>19 DEF ResumedByAwaited, Driving, Top, Resuming
<1>26. ASSUME NEW x \in DOMAIN closures', x \notin DOMAIN closures
       PROVE  ClosureOK(x)' /\ Places(v, given, x)
  <2>1. x = n /\ closures'[x] = k
    BY <1>10, <1>26
  <2>2. v \in DOMAIN obj'
    BY <1>7, <1>15 DEF HeapStep
  <2> QED
    BY <1>2, <1>4, <1>8, <1>11, <2>1, <2>2 DEF ClosureOK
<1>27. /\ gens' \in Seq(Generator) /\ Grows(gens, gens')
       /\ \A h \in DOMAIN gens' : gens'[h].value \in 0 .. Len(obj')
  <2>1. \A x \in 0 .. Len(obj) : x \in 0 .. Len(obj')
    BY <1>13 DEF Keeps
  <2> QED
    BY <1>1, <1>2, <1>4, <2>1, CallsSame DEF LibraryOK
<1> QED
  BY <1>1, <1>4, <1>10, <1>13, <1>15, <1>16, <1>17, <1>19, <1>20, <1>24, <1>25, <1>26,
     <1>27, AsyncInv

\* The body of a generator yields, returns or throws.
LEMMA CGeneratorLeft ==
    ASSUME CInv, Top.kind = "generator", NEW r \in Generator, r.value \in 0 .. Len(obj),
           r.state \in {"suspended", "done"}, gens' = [gens EXCEPT ![Top.g] = r],
           \/ stack' = Below /\ UNCHANGED <<obj, cut, lost>>
           \/ Raise(Below) /\ r.state = "done",
           Acts \/ acts' = acts,
           UNCHANGED <<calls, closures, mine, history>>, dropped' = dropped \cup Overwritten
    PROVE  CInv'
<1>0. PICK g : g = Top.g
  OBVIOUS
<1>1. /\ IInv /\ HeapOK(obj) /\ StackOK(obj, stack) /\ LibraryOK /\ Len(stack) \in Nat
      /\ Len(obj) \in Nat
  BY Basics
<1>2. /\ g \in DOMAIN gens /\ \A n : Asks(n, g) => Rerun(g)
      /\ \A h : h # g => ~Resuming(stack, h)
  BY <1>0, NoneAsks
<1>3. /\ gens' \in Seq(Generator) /\ Grows(gens, gens') /\ DOMAIN gens' = DOMAIN gens
      /\ gens'[g] = r /\ \A h \in DOMAIN gens : h # g => gens'[h] = gens[h]
      /\ \A h \in DOMAIN gens' : gens'[h].value \in 0 .. Len(obj)
  BY <1>0, <1>1, <1>2, GenChanged
<1>4. Len(stack) > 1
  BY Deeper
<1>5. /\ StackOK(obj, Below) /\ Quiet(Below) /\ RejectsFrom(obj, Below, cut)
      /\ FulfilsFrom(obj, Below, cut \cup lost)
      /\ Rest(Below, Len(stack) - 1)
      /\ Below[Len(stack) - 1] = stack[Len(stack) - 1]
  BY <1>1, <1>4, InUser, RestBelow
<1>6. PICK l : l = Len(stack) - 1
  OBVIOUS
<1>7. l \in Nat /\ l # Len(stack) /\ l < Len(stack)
      /\ \A j \in 1 .. Len(stack) : j > l => j = Len(stack)
  BY <1>1, <1>4, <1>6
<1>8. /\ IInv' /\ obj' = obj
      /\ \E m : /\ Rest(stack', m) /\ m # Len(stack) /\ ~Catching(stack'[m])
                /\ \A j \in 1 .. Len(stack) :
                      j > m => stack[j].kind # "generator" \/ j = Len(stack)
                /\ stack'[m].kind = "drive" => m = Len(stack) - 1 /\ stack'[m] = stack[m]
                /\ r.state = "suspended" => m = Len(stack) - 1 /\ stack'[m] = stack[m]
  <2>1. CASE stack' = Below /\ UNCHANGED <<obj, cut, lost>>
    <3>1. IInv'
      BY <1>1, <1>5, <2>1, MoveInv
    <3>2. ~Catching(stack[l])
      BY <1>4, <1>6, NotCatching
    <3>3. Rest(stack', l) /\ stack'[l] = stack[l]
      BY <1>5, <1>6, <2>1
    <3> QED
      BY <1>6, <1>7, <2>1, <3>1, <3>2, <3>3
  <2>2. CASE Raise(Below) /\ r.state = "done"
    <3>1. IInv'
      BY <1>1, <1>5, <2>2, RaiseInv
    <3>2. obj' = obj
      BY <2>2 DEF Raise
    <3>3. StackOK(obj, Below) /\ Rest(Below, l) /\ Raise(Below)
      BY <1>5, <1>6, <2>2
    <3>4. PICK n \in 1 .. l :
              /\ Rest(stack', n) /\ stack'[n].kind \in {"user", "generator", "combine"}
              /\ stack'[n].kind = "combine" => stack'[n].at = "caught"
              /\ \A j \in 1 .. l : j > n => Below[j].kind \in {"settle", "drive"}
      BY <3>3, GoesRaise
    <3>5. n # Len(stack) /\ ~Catching(stack'[n]) /\ stack'[n].kind # "drive"
      BY <1>7, <3>4 DEF Catching
    <3>6. ASSUME NEW j \in 1 .. Len(stack), j > n, j # Len(stack)
          PROVE  stack[j].kind # "generator"
      <4>1. j \in 1 .. l
        BY <1>1, <1>7, <3>6
      <4>2. Similar(stack[j], Below[j])
        BY <1>1, <3>3, <4>1, GoesFacts DEF Rest
      <4>3. Below[j].kind \in {"settle", "drive"}
        BY <3>4, <3>6, <4>1
      <4> QED
        BY <4>2, <4>3 DEF Similar
    <3> QED
      BY <2>2, <3>1, <3>2, <3>4, <3>5, <3>6
  <2> QED
    BY <2>1, <2>2
<1>9. PICK m : /\ Rest(stack', m) /\ m # Len(stack) /\ ~Catching(stack'[m])
               /\ \A j \in 1 .. Len(stack) :
                     j > m => stack[j].kind # "generator" \/ j = Len(stack)
               /\ stack'[m].kind = "drive" => m = Len(stack) - 1 /\ stack'[m] = stack[m]
               /\ r.state = "suspended" => m = Len(stack) - 1 /\ stack'[m] = stack[m]
  BY <1>8
<1>10. /\ DrivesOK(stack', gens')
       /\ \A h : Resuming(stack', h) => h = g
       /\ m = Len(stack) - 1 /\ stack'[m] = stack[m] =>
             Resuming(stack', g) /\ stack'[m].kind = "drive" /\ stack'[m].at = "look"
  <2>1. gens'[g].state \in {"suspended", "done"} /\ Top.kind = "generator"
    BY <1>3
  <2>2. DOMAIN gens' = DOMAIN gens /\ \A h \in DOMAIN gens : h # g => gens'[h] = gens[h]
    BY <1>3
  <2> QED
    BY <1>0, <1>9, <2>1, <2>2, DrivesLeave
<1>11. \A h \in DOMAIN gens' : AwaitOK(h)'
  BY <1>2, <1>3, <1>9, <1>10, AwaitsQuiet
<1>12. ResumedByAwaited'
  <2>1. ASSUME stack'[m].kind = "drive" PROVE stack'[m].at = "look"
    BY <1>9, <1>10, <2>1
  <2>2. Len(stack') = m
    BY <1>9 DEF Rest
  <2> QED
    BY <2>1, <2>2 DEF ResumedByAwaited, Driving, Top
<1>13. FrameStep(m)
  <2>1. Goes(stack', m) /\ Len(stack') = m /\ m \in Nat
    BY <1>1, <1>9, GoesFacts DEF Rest
  <2>2. m # m + 1
    BY <2>1
  <2> QED
    BY <1>9, <2>1, <2>2 DEF FrameStep, CatchOK
<1>14. HandsNone /\ acts' \in 0 .. MaxActs
  BY ActsStays DEF HandsNone
<1>15. UNCHANGED <<obj, calls, closures, mine, history>>
  BY <1>8
<1>16. IInv'
  BY <1>8
<1> QED
  BY <1>3, <1>10, <1>11, <1>12, <1>13, <1>14, <1>15, <1>16, AsyncQuiet

LEMMA CYields ==
    ASSUME CInv, NEW v \in {0} \cup mine, Yield(v), dropped' = dropped \cup Overwritten
    PROVE  CInv'
<1> DEFINE r == [state |-> "suspended", value |-> v]
<1>1. /\ Acts /\ Top.kind = "generator" /\ gens' = [gens EXCEPT ![Top.g] = r]
      /\ stack' = Below /\ UNCHANGED <<obj, cut, lost>>
      /\ UNCHANGED <<calls, closures, mine, history>>
  BY DEF Yield
<1>2. v \in 0 .. Len(obj) /\ v \in Value
  <2>1. v \in 0 .. Len(obj) /\ Len(obj) \in Nat /\ Len(obj) <= MaxPromises
    BY Basics
  <2> QED
    BY <2>1, BoundsAssumption DEF Value
<1>3. r \in Generator /\ r.value \in 0 .. Len(obj) /\ r.state = "suspended"
  BY <1>2 DEF Generator
<1> HIDE DEF r
<1> QED
  BY <1>1, <1>3, CGeneratorLeft

LEMMA CGeneratorEnds ==
    ASSUME CInv, GeneratorEnds, dropped' = dropped \cup Overwritten
    PROVE  CInv'
<1> DEFINE r == [state |-> "done", value |-> 0]
<1>1. /\ Top.kind = "generator" /\ gens' = [gens EXCEPT ![Top.g] = r]
      /\ (stack' = Below /\ UNCHANGED <<obj, cut, lost>>) \/ Raise(Below)
      /\ UNCHANGED <<calls, closures, mine, history>> /\ acts' = acts
  BY DEF GeneratorEnds, held
<1>2. r \in Generator /\ r.value \in 0 .. Len(obj) /\ r.state = "done"
  <2>1. 0 \in Value /\ 0 \in 0 .. Len(obj)
    BY Basics, BoundsAssumption DEF Value
  <2> QED
    BY <2>1 DEF Generator
<1> HIDE DEF r
<1> QED
  BY <1>1, <1>2, CGeneratorLeft

-----------------------------------------------------------------------------
(* The specification *)

LEMMA CInvInit ==
    ASSUME CombinatorsInit
    PROVE  CInv
<1> DEFINE u == [kind |-> "user", exec |-> 0, void |-> FALSE]
<1>1. /\ obj = [p \in 1 .. Given |-> Fresh] /\ stack = <<u>>
      /\ cut = {} /\ lost = {}
      /\ calls = <<>> /\ gens = <<>> /\ closures = <<>>
      /\ mine = 1 .. Given /\ acts = 0
      /\ ran = {} /\ reran = {} /\ dropped = {}
  BY DEF CombinatorsInit
<1>2. Given \in Nat /\ Given <= MaxPromises /\ 0 \in Value /\ MaxActs \in Nat
  BY CombinatorsBounds, BoundsAssumption DEF Value
<1>3. Fresh \in Object
  BY <1>2 DEF Fresh, Object, NoFn, Fn
<1>4. obj \in Seq(Object) /\ Len(obj) = Given /\ DOMAIN obj = 1 .. Given
  BY <1>1, <1>2, <1>3
<1>5. \A p \in DOMAIN obj : obj[p] = Fresh
  BY <1>1, <1>4
<1>6. HeapOK(obj)
  BY <1>2, <1>4, <1>5 DEF HeapOK, Fresh, NoFn
<1>7. u \in Frame /\ u.kind = "user" /\ u.exec = 0
  BY <1>2 DEF Frame, UserFrame
<1> HIDE DEF u
<1>8. stack \in Seq(Frame) /\ Len(stack) = 1 /\ DOMAIN stack = {1} /\ stack[1] = u
  BY <1>1, <1>7
<1>9. StackOK(obj, stack)
  <2>1. FrameOK(obj, u)
    BY <1>2, <1>4, <1>7 DEF FrameOK
  <2>2. stack # <<>>
    BY <1>1
  <2> QED
    BY <1>7, <1>8, <2>1, <2>2 DEF StackOK
<1>10. RejectsFrom(obj, stack, cut) /\ FulfilsFrom(obj, stack, cut \cup lost \cup Hand(obj, stack))
  BY <1>5 DEF RejectsFrom, FulfilsFrom, Fresh
<1>11. IInv
  BY <1>1, <1>6, <1>9, <1>10 DEF IInv, HistoryOK
<1>12. LibraryOK
  <2>1. calls \in Seq(Call) /\ gens \in Seq(Generator) /\ closures \in Seq(Closure)
    BY <1>1
  <2>2. DOMAIN calls = {} /\ DOMAIN gens = {} /\ DOMAIN closures = {}
    BY <1>1
  <2>3. Own \subseteq DOMAIN obj /\ mine \subseteq DOMAIN obj /\ acts \in 0 .. MaxActs
    BY <1>1, <1>2, <1>4 DEF Own
  <2>4. /\ \A c \in DOMAIN calls : CallOK(c)
        /\ \A g \in DOMAIN gens : gens[g].value \in 0 .. Len(obj)
        /\ \A n \in DOMAIN closures : ClosureOK(n)
    BY <2>2
  <2> QED
    BY <1>1, <2>1, <2>3, <2>4 DEF LibraryOK
<1>13. FramesOK(stack, Len(calls), Len(gens))
  BY <1>7, <1>8 DEF FramesOK, InLibrary, CatchOK, Catching
<1>14. SlotsOK(obj, closures)
  BY <1>5 DEF SlotsOK, Fresh, NoFn, FulfilSlot, RejectSlot, FinalSlot
<1>15. DrivesOK(stack, gens)
  BY <1>1, <1>7, <1>8 DEF DrivesOK, CallsGenerator, RunsOnce
<1>16. AwaitsOK
  BY <1>1, <1>7, <1>8 DEF AwaitsOK, ResumedByAwaited, Driving, Top
<1>17. \A n : Unrun(n) /\ Uncaught(n)
  BY <1>1 DEF Unrun, Uncaught
<1> QED
  BY <1>11, <1>12, <1>13, <1>14, <1>15, <1>16, <1>17 DEF CInv

LEMMA CInvNext ==
    ASSUME CInv, [CombinatorsNext]_allVars
    PROVE  CInv'
<1>1. CASE CombinatorsNext
  <2>1. dropped' = dropped \cup Overwritten
    BY <1>1 DEF CombinatorsNext
  <2>2. ASSUME NEW p \in mine, NEW form \in Forms, UserThens(p, form) PROVE CInv'
    BY <2>1, <2>2, CUserThens
  <2>3. CASE UserSettles
    BY <2>1, <2>3, CUserSettles
  <2>4. CASE UserLeaves
    BY <2>1, <2>4, CUserLeaves
  <2>5. ASSUME NEW kind \in {"all", "race"}, NEW n \in 0 .. 2,
               NEW inputs \in [1 .. n -> Own], CallCombinator(kind, inputs)
        PROVE  CInv'
    BY <2>1, <2>5, CCallCombinator
  <2>6. CASE CallAsync
    BY <2>1, <2>6, CCallAsync
  <2>7. CASE CombineThen
    BY <2>1, <2>7, CCombineThen
  <2>8. CASE CombineCatch
    BY <2>1, <2>8, CCombineCatch
  <2>9. CASE CombineDone
    BY <2>1, <2>9, CCombineDone
  <2>10. CASE CombineCaught
    BY <2>1, <2>10, CCombineCaught
  <2>11. CASE RunAll
    BY <2>1, <2>11, CRunAll
  <2>12. CASE RunRace \/ RunReject
    BY <2>1, <2>12, CRunOther
  <2>13. CASE RunAwait
    BY <2>1, <2>13, CRunAwait
  <2>14. CASE DriveSend
    BY <2>1, <2>14, CDriveSend
  <2>15. CASE DriveLook
    BY <2>1, <2>15, CDriveLook
  <2>16. CASE DriveAwait
    BY <2>1, <2>16, CDriveAwait
  <2>17. CASE DriveEnd
    BY <2>1, <2>17, CDriveEnd
  <2>18. ASSUME NEW v \in {0} \cup mine, Yield(v) PROVE CInv'
    BY <2>1, <2>18, CYields
  <2>19. CASE GeneratorEnds
    BY <2>1, <2>19, CGeneratorEnds
  <2>20. CASE SettleSteps
    BY <2>1, <2>20, CSettlePlain, CAdopt DEF SettleSteps
  <2>21. CASE Finishes
    BY <2>1, <2>21, CFinishes
  <2> QED
    BY <1>1, <2>2, <2>3, <2>4, <2>5, <2>6, <2>7, <2>8, <2>9, <2>10, <2>11, <2>12, <2>13,
       <2>14, <2>15, <2>16, <2>17, <2>18, <2>19, <2>20, <2>21 DEF CombinatorsNext
<1>2. CASE UNCHANGED allVars
  <2>1. UNCHANGED <<obj, stack, cut, lost, calls, gens, closures, mine, acts, ran, reran, dropped>>
    BY <1>2 DEF allVars, vars, library, held, history
  <2> QED
    <3>1. IInv'
      BY <2>1 DEF CInv, IInv, HistoryOK
    <3>2. LibraryOK'
      BY <2>1 DEF CInv, LibraryOK, CallOK, ClosureOK
    <3>3. FramesOK(stack', Len(calls'), Len(gens')) /\ SlotsOK(obj', closures')
      BY <2>1 DEF CInv
    <3>4. DrivesOK(stack', gens')
      BY <2>1 DEF CInv
    <3>5. AwaitsOK'
      BY <2>1 DEF CInv, AwaitsOK, AwaitOK, Asks, Rerun, ResumedByAwaited, Driving, Gen, Top
    <3>6. \A n : Unrun(n)' /\ Uncaught(n)'
      BY <2>1 DEF CInv, Unrun, Uncaught, Catchable, NotReached, State
    <3> QED
      BY <3>1, <3>2, <3>3, <3>4, <3>5, <3>6 DEF CInv
<1> QED
  BY <1>1, <1>2

\* The frames of all(), race() and async, and the closures in the slots, are
\* what the next steps need, whatever PHP code does in between.
THEOREM CombinatorsInvariance == CombinatorsSpec => []CInv
<1>1. CInv /\ [CombinatorsNext]_allVars => CInv'
  BY CInvNext
<1>2. CombinatorsInit => CInv
  BY CInvInit
<1> QED
  BY <1>1, <1>2, PTL DEF CombinatorsSpec

\* No step of all(), race(), async or of PHP code leaves a value of a wrong
\* kind: a number that is not of a promise, a closure of a call that is not.
THEOREM CombinatorsTypes == CombinatorsSpec => []CombinatorsTypeOK
<1>1. CInv => CombinatorsTypeOK
  BY TypesFromInv DEF CInv, LibraryOK, CombinatorsTypeOK
<1> QED
  BY CombinatorsInvariance, <1>1, PTL

\* A generator gets at a yield what it yielded there, or the value of the
\* promise it awaits there, unless a closure of it runs a second time: send()
\* in $asyncToGenerator never comes to another yield.
THEOREM SentWhatItAwaits == CombinatorsSpec => []ResumedByAwaited
<1>1. CInv => ResumedByAwaited
  BY DEF CInv, AwaitsOK
<1> QED
  BY CombinatorsInvariance, <1>1, PTL

\* At rest no generator is left running, and one that is suspended waits for
\* a promise that is not fulfilled, or its closure was overwritten: $await is
\* never fulfilled with its closure forgotten.
THEOREM AwaitsAreAnswered == CombinatorsSpec => []AwaitIsAnswered
<1>1. CInv => AwaitIsAnswered
  <2> SUFFICES ASSUME CInv, Idle, NEW g \in DOMAIN gens
               PROVE  /\ gens[g].state \in {"suspended", "done"}
                      /\ gens[g].state = "suspended" =>
                            \E n \in DOMAIN closures :
                               /\ closures[n].role = "await" /\ closures[n].c = g
                               /\ closures[n].p = gens[g].value
                               /\ NotReached(n)
    BY DEF AwaitIsAnswered
  <2>1. DOMAIN stack = 1 .. 1 /\ stack[1].kind = "user" /\ Len(stack) = 1
    <3>1. StackOK(obj, stack) /\ DOMAIN stack = 1 .. Len(stack)
      BY Basics
    <3> QED
      BY <3>1 DEF StackOK, Idle
  <2>2. ~Resuming(stack, g) /\ \A n : ~Handing(obj, stack, n)
    BY <2>1 DEF Resuming, Handing, Begins
  <2>3. /\ GeneratorOK(stack, gens, g) /\ AwaitOK(g) /\ gens[g] \in Generator
        /\ \A n : Unrun(n)
    BY DEF CInv, DrivesOK, AwaitsOK, LibraryOK
  <2>4. gens[g].state \in {"suspended", "done"}
    BY <2>1, <2>2, <2>3 DEF GeneratorOK, Generator
  <2>5. ASSUME gens[g].state = "suspended"
        PROVE  \E n \in DOMAIN closures :
                  /\ closures[n].role = "await" /\ closures[n].c = g
                  /\ closures[n].p = gens[g].value
                  /\ NotReached(n)
    <3>1. PICK n : Asks(n, g) /\ closures[n].p = gens[g].value
      BY <2>2, <2>3, <2>5 DEF AwaitOK
    <3>2. NotReached(n)
      BY <2>2, <2>3, <3>1 DEF Unrun, Asks
    <3> QED
      BY <3>1, <3>2 DEF Asks
  <2> QED
    BY <2>4, <2>5
<1> QED
  BY CombinatorsInvariance, <1>1, PTL

\* The settlements of a chain are not lost either when its handlers are those
\* of all(), race() and async, or call them.
THEOREM CombinedChainsSettle == CombinatorsSpec => []ChainsSettle
<1>1. CInv => ChainsSettle
  BY ChainsFromInv DEF CInv
<1> QED
  BY CombinatorsInvariance, <1>1, PTL

-----------------------------------------------------------------------------
(***************************************************************************)
(* all() and race() tell the truth, and settle.  Only the closures of a    *)
(* call and its executor settle its promise, which PHP code does not have  *)
(* until then and no chain leads to.  The executor makes two closures for  *)
(* each input, and what runs of them is told.                              *)
(***************************************************************************)

IsAgg(x) == \E c \in DOMAIN calls : calls[c].agg = x

\* A promise that then() returned.
Chained(x) == x \in DOMAIN obj \ Own /\ ~IsAgg(x)

\* x is the promise that a then() on p returned, and rejected by p only.
Follows(p, x) ==
    /\ p \in DOMAIN obj /\ Chained(x)
    /\ \A q \in DOMAIN obj : obj[q].next = x => q = p
    /\ State(x) = "REJECTED" => State(p) = "REJECTED"

\* Each call has a promise of its own.
AggsOK ==
    \A c \in DOMAIN calls :
        /\ calls[c].agg \in DOMAIN obj \ Own
        /\ \A d \in DOMAIN calls : calls[d].agg = calls[c].agg => d = c

\* What a settlement passes on goes to promises that then() returned.
NextsOK ==
    \A q \in DOMAIN obj :
        /\ obj[q].next # 0 => Follows(q, obj[q].next)
        /\ obj[q].onFullfilled.kind = "resolve" => Chained(obj[q].onFullfilled.n)

InnersOK ==
    \A c \in DOMAIN calls : \A i \in DOMAIN calls[c].inner :
        i \in DOMAIN calls[c].inputs /\ Follows(calls[c].inputs[i], calls[c].inner[i])

\* A closure in a slot of q runs when its promise is settled.
HeldOK ==
    \A q \in DOMAIN obj :
        /\ LET f == obj[q].onFullfilled IN
           f.kind = "library" => q = closures[f.n].p \/ State(closures[f.n].p) = "FULFILLED"
        /\ LET f == obj[q].onRejected IN f.kind = "library" => q = closures[f.n].p

\* The closures of a call are of its inputs.
MadeOK(n) ==
    LET k == calls[closures[n].c]
        i == closures[n].i
    IN  /\ closures[n].role = "fulfil" => i \in DOMAIN k.inputs /\ closures[n].p = k.inputs[i]
        /\ closures[n].role = "reject" => i \in DOMAIN k.inner /\ closures[n].p = k.inner[i]

Fulfils(n, c) == n \in DOMAIN closures /\ closures[n].role = "fulfil" /\ closures[n].c = c
Rejects(n, c) == n \in DOMAIN closures /\ closures[n].role = "reject" /\ closures[n].c = c

\* The executor in frame j is at input i, and waits for then() of it or has
\* what then() returned.
CombineOK(j) ==
    LET f == stack[j]
        k == calls[f.c]
    IN  /\ f.at = "then" => \A n : Fulfils(n, f.c) => closures[n].i < f.i
        /\ f.at = "catch" =>
              /\ \A n : Fulfils(n, f.c) => closures[n].i <= f.i
              /\ \E n : Fulfils(n, f.c) /\ closures[n].i = f.i
              /\ f.i \in DOMAIN k.inputs
              /\ IF j = Len(stack) THEN Follows(k.inputs[f.i], f.got)
                 ELSE LET g == stack[j + 1] IN
                      g.kind = "settle" /\ g.p = k.inputs[f.i] /\ g.gives
        /\ f.at # "caught" => f.i = Len(k.inner) + 1
        /\ \A h \in DOMAIN stack : stack[h].kind = "combine" /\ stack[h].c = f.c => h = j

\* No frame runs an executor of PHP code; the executors of the library.
ExecutorsOK ==
    \A j \in DOMAIN stack : /\ stack[j].kind = "user" => stack[j].exec = 0
                            /\ stack[j].kind = "combine" => CombineOK(j)

\* A closure of all() ran twice.
Recounts(c) == \E n \in reran : Fulfils(n, c)

\* all() counts the closures that ran.
CountsOK(c) ==
    LET k == calls[c] IN
    /\ \A i \in k.results :
          i \in DOMAIN k.inputs /\ \E n \in ran : Fulfils(n, c) /\ closures[n].i = i
    /\ \A n, m : Fulfils(n, c) /\ Fulfils(m, c) /\ closures[n].i = closures[m].i => n = m
    /\ k.kind = "all" => Recounts(c) \/ k.left + Cardinality(k.results) = Len(k.inputs)

\* Why the promise of a call is settled.
SettledOK(c) ==
    LET k == calls[c] IN
    /\ Combined(c) = "FULFILLED" /\ k.kind = "all" => k.left <= 0
    /\ Combined(c) = "FULFILLED" /\ k.kind = "race" =>
          \E i \in DOMAIN k.inputs : State(k.inputs[i]) = "FULFILLED"
    /\ Combined(c) = "REJECTED" =>
          k.threw \/ \E i \in DOMAIN k.inputs : State(k.inputs[i]) = "REJECTED"

\* Call c was told what its closures that ran had to tell.
ToldOK(c) ==
    LET k == calls[c] IN
    /\ k.kind = "all" => /\ \A n \in ran : Fulfils(n, c) => closures[n].i \in k.results
                         /\ k.left + Cardinality(k.results) <= Len(k.inputs)
    /\ \A n \in ran : Rejects(n, c) \/ (Fulfils(n, c) /\ k.kind = "race") =>
          Combined(c) # "PENDING"
    /\ Combined(c) = "PENDING" /\ k.kind = "all" /\ k.inputs # <<>> => k.left >= 1

\* Call c needs its executor no more.
Over(c) == Combined(c) # "PENDING" \/ Len(calls[c].inner) = Len(calls[c].inputs)

HasExecutor(c) == \E j \in DOMAIN stack : stack[j].kind = "combine" /\ stack[j].c = c

\* Call c has closures for the inputs its executor has been through, and the
\* executor goes through all.
AsksOK(c) ==
    /\ Over(c) \/ HasExecutor(c)
    /\ \A i \in DOMAIN calls[c].inner : /\ \E n : Fulfils(n, c) /\ closures[n].i = i
                                        /\ \E n : Rejects(n, c) /\ closures[n].i = i

-----------------------------------------------------------------------------
(* What a step does to the heap, for all() and race(). *)

\* The step settles n, and no other promise.
Settling(n, st) ==
    /\ n # 0 => n \in DOMAIN obj /\ obj[n].state = "PENDING"
    /\ \A q \in DOMAIN obj : obj'[q].state = IF q = n THEN st ELSE obj[q].state

\* It rejects a promise that then() returned only for a promise before it.
PassedOn(n, st) ==
    Chained(n) /\ st = "REJECTED" =>
        \E q \in DOMAIN obj : obj[q].next = n /\ obj[q].state = "REJECTED"

\* Calls keep what they have, and a new call has the new promise, which no
\* then() made.
CallsOn(p) ==
    /\ CallsKept
    /\ \A c \in DOMAIN calls : \A i \in DOMAIN calls[c].inner :
          i \in DOMAIN calls'[c].inner /\ calls'[c].inner[i] = calls[c].inner[i]
    /\ \A c \in DOMAIN calls' :
          \/ c \in DOMAIN calls
          \/ c = Len(calls) + 1 /\ p = 0 /\ Len(obj) + 1 \in DOMAIN obj'
             /\ calls'[c].agg = Len(obj) + 1 /\ calls'[c].inner = <<>>

LEMMA StatesOn ==
    ASSUME NEW p, NEW given, HeapStep(p, given), NEW n, NEW st, Settling(n, st),
           NEW q \in DOMAIN obj, obj[q].state # "PENDING"
    PROVE  q \in DOMAIN obj' /\ obj'[q].state = obj[q].state
<1>1. q # n
  BY DEF HeapStep, Settling
<1> QED
  BY <1>1 DEF HeapStep, Settling

LEMMA AggsNext ==
    ASSUME CInv, AggsOK, NEW p, NEW given, HeapStep(p, given), CallsOn(p)
    PROVE  AggsOK' /\ \A x : Chained(x) => Chained(x)'
<1>1. /\ \A q \in DOMAIN obj : q \in DOMAIN obj' /\ q # Len(obj) + 1
      /\ Own \subseteq DOMAIN obj
  BY Basics DEF HeapStep
<1>2. \A c \in DOMAIN calls : /\ c \in DOMAIN calls' /\ calls'[c].agg = calls[c].agg
                              /\ calls[c].agg \in DOMAIN obj \ Own
  BY DEF CallsOn, CallsKept, Grows, AggsOK
<1>3. \A c \in DOMAIN calls' :
         c \in DOMAIN calls \/ (c = Len(calls) + 1 /\ calls'[c].agg = Len(obj) + 1
                              /\ Len(obj) + 1 \in DOMAIN obj')
  BY DEF CallsOn
<1>4. ASSUME NEW c \in DOMAIN calls' PROVE calls'[c].agg \in DOMAIN obj' \ Own
  BY <1>1, <1>2, <1>3
<1>5. ASSUME NEW c \in DOMAIN calls', NEW d \in DOMAIN calls', calls'[d].agg = calls'[c].agg
      PROVE  d = c
  BY <1>1, <1>2, <1>3, <1>5 DEF AggsOK
<1>6. ASSUME NEW x, Chained(x) PROVE Chained(x)'
  BY <1>1, <1>2, <1>3, <1>6 DEF Chained, IsAgg
<1> QED
  BY <1>4, <1>5, <1>6 DEF AggsOK

LEMMA FollowsNext ==
    ASSUME CInv, AggsOK, NEW p, NEW given, HeapStep(p, given), CallsOn(p),
           NEW n, NEW st, Settling(n, st), PassedOn(n, st),
           NEW x, NEW y, Follows(x, y)
    PROVE  Follows(x, y)'
<1>1. /\ x \in DOMAIN obj /\ x \in DOMAIN obj' /\ Chained(y) /\ Chained(y)'
      /\ y \in DOMAIN obj /\ y # 0 /\ y # Len(obj) + 1
      /\ \A q \in DOMAIN obj : obj[q].next = y => q = x
      /\ obj[y].state = "REJECTED" => obj[x].state = "REJECTED"
  BY AggsNext DEF Follows, Chained, HeapStep, State
<1>2. ASSUME NEW q \in DOMAIN obj', obj'[q].next = y PROVE q = x
  BY <1>1, <1>2 DEF HeapStep, Fresh
<1>3. ASSUME obj'[y].state = "REJECTED" PROVE obj'[x].state = "REJECTED"
  <2>1. CASE obj[y].state = "REJECTED"
    BY <1>1, <2>1, StatesOn
  <2>2. CASE obj[y].state # "REJECTED"
    <3>1. y = n /\ st = "REJECTED"
      BY <1>1, <1>3, <2>2 DEF Settling
    <3>2. obj[x].state = "REJECTED"
      BY <1>1, <3>1 DEF PassedOn
    <3> QED
      BY <1>1, <3>2, StatesOn
  <2> QED
    BY <2>1, <2>2
<1> QED
  BY <1>1, <1>2, <1>3 DEF Follows, State

\* What then() of p gets goes where a settlement may go.
GivenTells(p, given) ==
    /\ "onFullfilled" \in DOMAIN given =>
          LET f == given["onFullfilled"] IN
          /\ f.kind = "resolve" => Chained(f.n)
          /\ f.kind = "library" =>
                p = closures'[f.n].p \/ obj[closures'[f.n].p].state = "FULFILLED"
    /\ "onRejected" \in DOMAIN given =>
          LET f == given["onRejected"] IN f.kind = "library" => p = closures'[f.n].p

LEMMA NextsNext ==
    ASSUME CInv, AggsOK, NextsOK, NEW p, NEW given, HeapStep(p, given), CallsOn(p),
           GivenTells(p, given), NEW n, NEW st, Settling(n, st), PassedOn(n, st)
    PROVE  NextsOK'
<1>1. /\ \A x : Chained(x) => Chained(x)'
      /\ \A x, y : Follows(x, y) => Follows(x, y)'
  BY AggsNext, FollowsNext
<1>2. /\ HeapOK(obj) /\ Own \subseteq DOMAIN obj /\ Len(obj) \in Nat
      /\ DOMAIN obj = 1 .. Len(obj) /\ Len(obj) + 1 \notin DOMAIN obj
  BY Basics
<1>3. ASSUME NEW q \in DOMAIN obj', NEW y, y = obj'[q].next, y # 0 PROVE Follows(q, y)'
  <2>1. CASE q \in DOMAIN obj /\ q # p
    <3>1. obj'[q].next = obj[q].next
      BY <2>1 DEF HeapStep
    <3>2. Follows(q, y)
      BY <1>3, <2>1, <3>1 DEF NextsOK
    <3> QED
      BY <1>1, <3>2
  <2>2. CASE q \in DOMAIN obj /\ q = p
    <3>1. /\ y = Len(obj) + 1 /\ obj'[p].next = y /\ p \in DOMAIN obj' /\ p # 0 /\ y \in DOMAIN obj' /\ y # 0
          /\ \A x \in DOMAIN obj' : x \in DOMAIN obj \/ (x = y /\ obj'[x] = Fresh)
          /\ \A x \in DOMAIN obj : obj'[x].next = IF x = p THEN y ELSE obj[x].next
      BY <1>2, <1>3, <2>2 DEF HeapStep
    <3>2. \A x \in DOMAIN obj : obj[x].next # y
      <4>1. \A x \in DOMAIN obj : obj[x].next <= Len(obj)
        BY <1>2 DEF HeapOK
      <4>2. \A x \in 0 .. Len(obj) : x # Len(obj) + 1
        BY <1>2
      <4> QED
        BY <1>2, <3>1, <4>1, <4>2, HeapFacts
    <3>3. ~IsAgg(y)'
      <4>1. \A c \in DOMAIN calls' : c \in DOMAIN calls /\ calls'[c].agg = calls[c].agg
        BY <2>2, <3>1 DEF CallsOn, CallsKept
      <4>2. \A c \in DOMAIN calls : calls[c].agg \in DOMAIN obj
        BY DEF AggsOK
      <4> QED
        BY <1>2, <3>1, <4>1, <4>2 DEF IsAgg
    <3>4. Chained(y)'
      BY <1>2, <3>1, <3>3 DEF Chained
    <3>5. obj'[y].state = "PENDING" /\ obj'[y].next = 0
      BY <1>2, <3>1 DEF Fresh
    <3>6. \A x \in DOMAIN obj' : obj'[x].next = y => x = p
      BY <3>1, <3>2, <3>5
    <3> QED
      BY <2>2, <3>1, <3>4, <3>5, <3>6 DEF Follows, State
  <2>3. CASE q \notin DOMAIN obj
    BY <1>3, <2>3 DEF HeapStep, Fresh
  <2> QED
    BY <2>1, <2>2, <2>3
<1>4. ASSUME NEW q \in DOMAIN obj', obj'[q].onFullfilled.kind = "resolve",
             NEW y, y = obj'[q].onFullfilled.n
      PROVE  Chained(y)'
  <2>1. CASE q \in DOMAIN obj
    <3>1. obj'[q].onFullfilled = Slot(q, p, given, "onFullfilled", obj[q].onFullfilled)
      BY <2>1 DEF HeapStep
    <3>2. Chained(y)
      BY <1>4, <2>1, <3>1 DEF Slot, NextsOK, GivenTells
    <3> QED
      BY <1>1, <3>2
  <2>2. CASE q \notin DOMAIN obj
    BY <1>4, <2>2 DEF HeapStep, Fresh, NoFn
  <2> QED
    BY <2>1, <2>2
<1> QED
  BY <1>3, <1>4 DEF NextsOK

LEMMA HeldNext ==
    ASSUME CInv, HeldOK, NEW p, NEW given, HeapStep(p, given),
           Extends(closures, closures'), GivenOK(given, closures'),
           GivenTells(p, given), NEW n, NEW st, Settling(n, st),
           \A x \in DOMAIN closures' : closures'[x].p \in DOMAIN obj
    PROVE  HeldOK'
<1>1. \A x \in DOMAIN closures : x \in DOMAIN closures' /\ closures'[x] = closures[x]
  BY DEF Extends, Grows
<1>2. \A x \in DOMAIN closures' : obj[closures'[x].p].state = "FULFILLED" =>
                                  obj'[closures'[x].p].state = "FULFILLED"
  BY StatesOn
<1>3. SlotsOK(obj, closures)
  BY DEF CInv
<1>4. ASSUME NEW q \in DOMAIN obj', obj'[q].onFullfilled.kind = "library"
      PROVE  LET x == obj'[q].onFullfilled.n IN
             q = closures'[x].p \/ obj'[closures'[x].p].state = "FULFILLED"
  <2>1. CASE q \in DOMAIN obj
    <3> DEFINE f == obj'[q].onFullfilled
    <3>1. f = Slot(q, p, given, "onFullfilled", obj[q].onFullfilled)
      BY <2>1 DEF HeapStep
    <3>2. CASE f = obj[q].onFullfilled
      <4>1. f.n \in DOMAIN closures
        BY <1>3, <1>4, <2>1, <3>2 DEF SlotsOK, FulfilSlot
      <4>2. q = closures[f.n].p \/ obj[closures[f.n].p].state = "FULFILLED"
        BY <1>4, <2>1, <3>2 DEF HeldOK, State
      <4> QED
        BY <1>1, <1>2, <4>1, <4>2
    <3>3. CASE q = p /\ "onFullfilled" \in DOMAIN given /\ f = given["onFullfilled"]
      <4>1. f.n \in DOMAIN closures'
        BY <1>4, <3>3 DEF GivenOK, FulfilSlot
      <4>2. q = closures'[f.n].p \/ obj[closures'[f.n].p].state = "FULFILLED"
        BY <1>4, <3>3 DEF GivenTells
      <4> QED
        BY <1>2, <4>1, <4>2
    <3> QED
      BY <3>1, <3>2, <3>3 DEF Slot
  <2>2. CASE q \notin DOMAIN obj
    BY <1>4, <2>2 DEF HeapStep, Fresh, NoFn
  <2> QED
    BY <2>1, <2>2
<1>5. ASSUME NEW q \in DOMAIN obj', obj'[q].onRejected.kind = "library"
      PROVE  q = closures'[obj'[q].onRejected.n].p
  <2>1. CASE q \in DOMAIN obj
    <3> DEFINE f == obj'[q].onRejected
    <3>1. f = Slot(q, p, given, "onRejected", obj[q].onRejected)
      BY <2>1 DEF HeapStep
    <3>2. CASE f = obj[q].onRejected
      <4>1. f.n \in DOMAIN closures /\ q = closures[f.n].p
        BY <1>3, <1>5, <2>1, <3>2 DEF SlotsOK, RejectSlot, HeldOK
      <4> QED
        BY <1>1, <4>1
    <3>3. CASE q = p /\ "onRejected" \in DOMAIN given /\ f = given["onRejected"]
      BY <1>5, <3>3 DEF GivenTells
    <3> QED
      BY <3>1, <3>2, <3>3 DEF Slot
  <2>2. CASE q \notin DOMAIN obj
    BY <1>5, <2>2 DEF HeapStep, Fresh, NoFn
  <2> QED
    BY <2>1, <2>2
<1> QED
  BY <1>4, <1>5 DEF HeldOK, State

\* What then() returned for the inputs of the calls, and the closures.
InnersNew ==
    \A c \in DOMAIN calls' : \A i \in DOMAIN calls'[c].inner :
        \/ c \in DOMAIN calls /\ i \in DOMAIN calls[c].inner
        \/ i \in DOMAIN calls'[c].inputs /\ Follows(calls'[c].inputs[i], calls'[c].inner[i])

LEMMA InnersNext ==
    ASSUME CInv, AggsOK, InnersOK, NEW p, NEW given, HeapStep(p, given), CallsOn(p),
           InnersNew, NEW n, NEW st, Settling(n, st), PassedOn(n, st)
    PROVE  InnersOK'
<1>1. \A x, y : Follows(x, y) => Follows(x, y)'
  BY FollowsNext
<1>2. ASSUME NEW c \in DOMAIN calls', NEW i \in DOMAIN calls'[c].inner
      PROVE  i \in DOMAIN calls'[c].inputs /\ Follows(calls'[c].inputs[i], calls'[c].inner[i])
  <2>1. CASE c \in DOMAIN calls /\ i \in DOMAIN calls[c].inner
    <3>1. /\ i \in DOMAIN calls[c].inputs /\ Follows(calls[c].inputs[i], calls[c].inner[i])
      BY <2>1 DEF InnersOK
    <3>2. calls'[c].inputs = calls[c].inputs /\ calls'[c].inner[i] = calls[c].inner[i]
      BY <2>1 DEF CallsOn, CallsKept
    <3> QED
      BY <3>1, <3>2
  <2> QED
    BY <1>2, <2>1 DEF InnersNew
<1> QED
  BY <1>1, <1>2 DEF InnersOK

LEMMA MadeNext ==
    ASSUME CInv, NEW p, CallsOn(p), \A n \in DOMAIN closures : MadeOK(n),
           Extends(closures, closures'),
           \A n \in DOMAIN closures' : n \in DOMAIN closures \/ MadeOK(n)'
    PROVE  \A n \in DOMAIN closures' : MadeOK(n)'
<1> SUFFICES ASSUME NEW n \in DOMAIN closures PROVE MadeOK(n)'
  OBVIOUS
<1>1. closures'[n] = closures[n] /\ MadeOK(n)
  BY DEF Extends
<1>2. CASE closures[n].role \in {"fulfil", "reject"}
  <2>1. closures[n].c \in DOMAIN calls
    BY <1>2, Basics DEF LibraryOK, ClosureOK
  <2>2. calls'[closures[n].c].inputs = calls[closures[n].c].inputs
    BY <2>1 DEF CallsOn, CallsKept
  <2> QED
    BY <1>1, <2>1, <2>2 DEF MadeOK, CallsOn
<1>3. CASE closures[n].role \notin {"fulfil", "reject"}
  BY <1>1, <1>3 DEF MadeOK
<1> QED
  BY <1>2, <1>3

HeapTells ==
    /\ AggsOK /\ NextsOK /\ InnersOK /\ HeldOK
    /\ \A n \in DOMAIN closures : MadeOK(n)

\* The step calls then() of p with the functions given, or settles n.
HeapMove(p, given, n, st) ==
    /\ HeapStep(p, given) /\ GivenOK(given, closures') /\ GivenTells(p, given)
    /\ Settling(n, st) /\ PassedOn(n, st)
    /\ CallsOn(p) /\ InnersNew /\ Extends(closures, closures')
    /\ \A x \in DOMAIN closures' :
          x \in DOMAIN closures \/ (closures'[x].p \in DOMAIN obj /\ MadeOK(x)')

LEMMA HeapTellsNext ==
    ASSUME CInv, HeapTells, NEW p, NEW given, NEW n, NEW st, HeapMove(p, given, n, st)
    PROVE  HeapTells' /\ \A x, y : Follows(x, y) => Follows(x, y)'
<1>1. /\ HeapStep(p, given) /\ GivenOK(given, closures') /\ GivenTells(p, given)
      /\ Settling(n, st) /\ PassedOn(n, st)
      /\ CallsOn(p) /\ InnersNew /\ Extends(closures, closures')
      /\ AggsOK /\ NextsOK /\ InnersOK /\ HeldOK /\ \A x \in DOMAIN closures : MadeOK(x)
  BY DEF HeapMove, HeapTells
<1>2. \A x \in DOMAIN closures' : closures'[x].p \in DOMAIN obj
  BY <1>1, Basics DEF HeapMove, LibraryOK, ClosureOK, Extends
<1>3. AggsOK' /\ NextsOK'
  BY <1>1, AggsNext, NextsNext
<1>4. InnersOK'
  BY <1>1, InnersNext
<1>5. HeldOK'
  BY <1>1, <1>2, HeldNext
<1>6. \A x \in DOMAIN closures' : MadeOK(x)'
  <2>1. \A x \in DOMAIN closures' : x \in DOMAIN closures \/ MadeOK(x)'
    BY DEF HeapMove
  <2> QED
    BY <1>1, <2>1, MadeNext
<1>7. \A x, y : Follows(x, y) => Follows(x, y)'
  BY <1>1, FollowsNext
<1> QED
  BY <1>3, <1>4, <1>5, <1>6, <1>7 DEF HeapTells

-----------------------------------------------------------------------------
(* What a step does to the executors of all() and race(). *)

\* Frame f goes on as h, and an executor is where it was or throws.
Kept(f, h) == f.kind = "combine" => h.at = "caught" \/ (h.at = f.at /\ h.i = f.i)

\* What then() returned to an executor that waits for it.
Gets(f) == Catching(f) => Follows(calls[f.c].inputs[f.i], f.got)

FulfilsSame(c) ==
    \A n : Fulfils(n, c)' => Fulfils(n, c) /\ closures'[n].i = closures[n].i

\* The executors in the frames behind m are over.
Gone(m) ==
    \A c : \A j \in DOMAIN stack : j > m /\ stack[j].kind = "combine" /\ stack[j].c = c => Over(c)'

\* The frames up to m go on, and no executor begins.
Went(m) ==
    /\ Goes(stack', m) /\ Kept(stack[m], stack'[m]) /\ Gone(m)
    /\ Len(stack') = m => Gets(stack'[m])
    /\ Len(stack') = m + 1 =>
          /\ ~Catching(stack'[m]) /\ stack'[m + 1].kind # "combine"
          /\ stack'[m + 1].kind = "user" => stack'[m + 1].exec = 0

LEMMA FulfilsOn ==
    ASSUME Extends(closures, closures')
    PROVE  \A c : /\ \A n : Fulfils(n, c) => Fulfils(n, c)' /\ closures'[n].i = closures[n].i
                  /\ \A n : Rejects(n, c) => Rejects(n, c)' /\ closures'[n].i = closures[n].i
<1>1. \A n \in DOMAIN closures : n \in DOMAIN closures' /\ closures'[n] = closures[n]
  BY DEF Extends, Grows
<1> QED
  BY <1>1 DEF Fulfils, Rejects

LEMMA Between ==
    ASSUME NEW n \in Nat, NEW m \in 1 .. n, NEW j \in 1 .. m, j # m
    PROVE  j + 1 \in 1 .. m /\ j # n /\ j # m + 1
  OBVIOUS

\* An executor below the innermost frame is where it was.
LEMMA ExecutorBelow ==
    ASSUME CInv, ExecutorsOK, NEW m, Goes(stack', m),
           NEW j \in 1 .. m, j # m, stack[j].kind = "combine",
           NEW c, c = stack[j].c, calls'[c].inputs = calls[c].inputs,
           calls'[c].inner = calls[c].inner, FulfilsSame(c), Extends(closures, closures'),
           \A x, y : Follows(x, y) => Follows(x, y)',
           Len(stack') = m + 1 => stack'[m + 1].kind # "combine" \/ stack'[m + 1].c # c
    PROVE  CombineOK(j)'
<1>1. /\ Len(stack) \in Nat /\ DOMAIN stack = 1 .. Len(stack)
  BY Basics
<1>2. /\ m \in 1 .. Len(stack) /\ m \in Nat /\ j \in Nat /\ Len(stack') \in Nat
      /\ Len(stack') = m \/ Len(stack') = m + 1
      /\ DOMAIN stack' = 1 .. Len(stack')
      /\ stack'[j] = stack[j]
      /\ \A x \in 1 .. m : Similar(stack[x], stack'[x])
      /\ \A x \in 1 .. m : x \in DOMAIN stack
      /\ \A x \in 1 .. Len(stack') : x \in 1 .. m \/ (x = m + 1 /\ Len(stack') = m + 1)
  BY <1>1, GoesFacts
<1>3. j + 1 \in 1 .. m /\ j # Len(stack) /\ j # Len(stack')
  BY <1>1, <1>2, Between
<1>4. CombineOK(j) /\ j \in DOMAIN stack
  BY <1>2 DEF ExecutorsOK
<1>5. \A h \in DOMAIN stack' : stack'[h].kind = "combine" /\ stack'[h].c = c => h = j
  <2> SUFFICES ASSUME NEW h \in DOMAIN stack', stack'[h].kind = "combine", stack'[h].c = c
               PROVE  h = j
    OBVIOUS
  <2>1. h \in 1 .. m
    BY <1>2
  <2>2. stack[h].kind = "combine" /\ stack[h].c = c /\ h \in DOMAIN stack
    BY <1>2, <2>1 DEF Similar
  <2> QED
    BY <1>4, <2>2 DEF CombineOK
<1>6. stack[j].at = "catch" =>
         /\ stack'[j + 1].kind = "settle" /\ stack'[j + 1].p = calls[c].inputs[stack[j].i]
         /\ stack'[j + 1].gives
  <2>1. Similar(stack[j + 1], stack'[j + 1])
    BY <1>2, <1>3
  <2> QED
    BY <1>3, <1>4, <2>1 DEF CombineOK, Similar
<1>7. \A n : Fulfils(n, c) => Fulfils(n, c)' /\ closures'[n].i = closures[n].i
  BY FulfilsOn
<1> QED
  BY <1>2, <1>3, <1>4, <1>5, <1>6, <1>7 DEF CombineOK, FulfilsSame

\* So is the executor whose frame is the innermost that goes on.
LEMMA ExecutorAt ==
    ASSUME CInv, ExecutorsOK, NEW m, Went(m), stack[m].kind = "combine",
           NEW c, c = stack[m].c, calls'[c].inputs = calls[c].inputs,
           calls'[c].inner = calls[c].inner, FulfilsSame(c), Extends(closures, closures'),
           \A x, y : Follows(x, y) => Follows(x, y)'
    PROVE  CombineOK(m)'
<1>1. /\ Len(stack) \in Nat /\ DOMAIN stack = 1 .. Len(stack)
  BY Basics
<1>2. /\ m \in 1 .. Len(stack) /\ m \in Nat /\ m # m + 1
      /\ Len(stack') = m \/ Len(stack') = m + 1
      /\ DOMAIN stack' = 1 .. Len(stack')
      /\ \A x \in 1 .. m : Similar(stack[x], stack'[x])
      /\ m \in 1 .. m
      /\ \A x \in 1 .. m : x \in DOMAIN stack
      /\ \A x \in 1 .. Len(stack') : x \in 1 .. m \/ (x = m + 1 /\ Len(stack') = m + 1)
  BY <1>1, GoesFacts DEF Went
<1>3. CombineOK(m) /\ m \in DOMAIN stack
  BY <1>2 DEF ExecutorsOK
<1>4. \A h \in DOMAIN stack' : stack'[h].kind = "combine" /\ stack'[h].c = c => h = m
  <2> SUFFICES ASSUME NEW h \in DOMAIN stack', stack'[h].kind = "combine", stack'[h].c = c
               PROVE  h = m
    OBVIOUS
  <2>1. h \in 1 .. m
    BY <1>2 DEF Went
  <2>2. stack[h].kind = "combine" /\ stack[h].c = c /\ h \in DOMAIN stack
    BY <1>2, <2>1 DEF Similar
  <2> QED
    BY <1>3, <2>2 DEF CombineOK
<1>5. stack'[m].kind = "combine" /\ stack'[m].c = c
  BY <1>2 DEF Similar
<1>6. stack'[m].at # "caught" => stack'[m].at = stack[m].at /\ stack'[m].i = stack[m].i
  BY DEF Went, Kept
<1>7. stack'[m].at = "catch" => /\ m = Len(stack')
                                /\ Follows(calls[c].inputs[stack'[m].i], stack'[m].got)
  BY <1>2, <1>5 DEF Went, Gets, Catching
<1>8. \A n : Fulfils(n, c) => Fulfils(n, c)' /\ closures'[n].i = closures[n].i
  BY FulfilsOn
<1> QED
  BY <1>2, <1>3, <1>4, <1>5, <1>6, <1>7, <1>8 DEF CombineOK, FulfilsSame

LEMMA ExecutorsNext ==
    ASSUME CInv, ExecutorsOK, NEW m, Went(m),
           \A c \in DOMAIN calls : /\ calls'[c].inputs = calls[c].inputs
                                   /\ calls'[c].inner = calls[c].inner /\ FulfilsSame(c),
           Extends(closures, closures'),
           \A x, y : Follows(x, y) => Follows(x, y)'
    PROVE  ExecutorsOK'
<1>1. /\ Len(stack) \in Nat /\ DOMAIN stack = 1 .. Len(stack)
      /\ FramesOK(stack, Len(calls), Len(gens)) /\ DOMAIN calls = 1 .. Len(calls)
  BY Basics DEF CInv, LibraryOK
<1>2. /\ m \in 1 .. Len(stack) /\ m \in Nat /\ Goes(stack', m)
      /\ DOMAIN stack' = 1 .. Len(stack')
      /\ \A x \in 1 .. m : Similar(stack[x], stack'[x])
      /\ \A x \in 1 .. m : x \in DOMAIN stack
      /\ \A x \in 1 .. Len(stack') : x \in 1 .. m \/ (x = m + 1 /\ Len(stack') = m + 1)
  BY <1>1, GoesFacts DEF Went
<1> SUFFICES ASSUME NEW j \in DOMAIN stack'
             PROVE  /\ stack'[j].kind = "user" => stack'[j].exec = 0
                    /\ stack'[j].kind = "combine" => CombineOK(j)'
  BY DEF ExecutorsOK
<1>3. CASE j \in 1 .. m
  <2>1. stack'[j].kind = "user" => stack'[j].exec = 0
    BY <1>2, <1>3 DEF ExecutorsOK, Similar
  <2>2. ASSUME stack'[j].kind = "combine" PROVE CombineOK(j)'
    <3>1. stack[j].kind = "combine" /\ j \in DOMAIN stack
      BY <1>2, <1>3, <2>2 DEF Similar
    <3>2. stack[j].c \in DOMAIN calls
      BY <1>1, <3>1 DEF FramesOK, InLibrary
    <3>3. CASE j = m
      BY <3>1, <3>2, <3>3, ExecutorAt
    <3>4. CASE j # m
      <4>1. Len(stack') = m + 1 => stack'[m + 1].kind # "combine"
        BY DEF Went
      <4> QED
        BY <1>2, <1>3, <3>1, <3>2, <3>4, <4>1, ExecutorBelow
    <3> QED
      BY <3>3, <3>4
  <2> QED
    BY <2>1, <2>2
<1>4. CASE j = m + 1 /\ Len(stack') = m + 1
  BY <1>4 DEF Went
<1> QED
  BY <1>2, <1>3, <1>4

-----------------------------------------------------------------------------
(* What a step does to the counts and promises of calls. *)

LEMMA CountsKept ==
    ASSUME LibraryOK, NEW c \in DOMAIN calls, CountsOK(c),
           calls'[c].kind = calls[c].kind, calls'[c].inputs = calls[c].inputs,
           calls'[c].left = calls[c].left, calls'[c].results = calls[c].results,
           Extends(closures, closures'), FulfilsSame(c), ran \subseteq ran', reran \subseteq reran'
    PROVE  CountsOK(c)'
<1>1. \A n : Fulfils(n, c) => Fulfils(n, c)' /\ closures'[n].i = closures[n].i
  BY DEF Fulfils, Extends, Grows
<1>2. \A i \in calls[c].results :
          i \in DOMAIN calls[c].inputs /\ \E n \in ran' : Fulfils(n, c)' /\ closures'[n].i = i
  BY <1>1 DEF CountsOK
<1>3. ASSUME NEW n, NEW m, Fulfils(n, c)', Fulfils(m, c)', closures'[n].i = closures'[m].i
      PROVE  n = m
  BY <1>3 DEF FulfilsSame, CountsOK
<1>4. Recounts(c) => Recounts(c)'
  BY <1>1 DEF Recounts
<1> QED
  BY <1>2, <1>3, <1>4 DEF CountsOK

\* The promise of a call that the step does not settle.
LEMMA SettledKept ==
    ASSUME CInv, AggsOK, NEW c \in DOMAIN calls, SettledOK(c),
           calls'[c].kind = calls[c].kind, calls'[c].inputs = calls[c].inputs,
           calls'[c].agg = calls[c].agg,
           calls'[c].left <= calls[c].left, calls[c].threw => calls'[c].threw,
           calls'[c].left \in Int,
           NEW p, NEW given, HeapStep(p, given), NEW n, NEW st, Settling(n, st),
           n # calls[c].agg
    PROVE  SettledOK(c)'
<1>1. calls[c].agg \in DOMAIN obj
  BY DEF AggsOK
<1>2. obj'[calls[c].agg].state = obj[calls[c].agg].state
  BY <1>1 DEF Settling
<1>3. \A i \in DOMAIN calls[c].inputs : calls[c].inputs[i] \in DOMAIN obj
  BY Basics DEF LibraryOK, CallOK
<1>4. \A i \in DOMAIN calls[c].inputs : obj[calls[c].inputs[i]].state \in {"FULFILLED", "REJECTED"} =>
         obj'[calls[c].inputs[i]].state = obj[calls[c].inputs[i]].state
  BY <1>3, StatesOn
<1>5. calls[c].left \in Int
  <2>1. calls[c] \in Call
    BY Basics DEF LibraryOK
  <2> QED
    BY <2>1 DEF Call
<1> QED
  BY <1>2, <1>4, <1>5 DEF SettledOK, Combined, State

\* A promise of a call that is settled stays so.
LEMMA CombinedStays ==
    ASSUME CInv, AggsOK, NEW c \in DOMAIN calls, calls'[c].agg = calls[c].agg,
           NEW p, NEW given, HeapStep(p, given), NEW n, NEW st, Settling(n, st)
    PROVE  Combined(c) # "PENDING" => Combined(c)' # "PENDING"
<1>1. calls[c].agg \in DOMAIN obj
  BY DEF AggsOK
<1> QED
  BY <1>1, StatesOn DEF Combined, State

LEMMA ToldKept ==
    ASSUME LibraryOK, NEW c \in DOMAIN calls, ToldOK(c),
           calls'[c].kind = calls[c].kind, calls'[c].inputs = calls[c].inputs,
           calls'[c].left = calls[c].left, calls'[c].results = calls[c].results,
           Extends(closures, closures'), Combined(c) # "PENDING" => Combined(c)' # "PENDING",
           \A x \in ran' : x \in ran \/ closures[x].role = "await" \/ closures[x].c # c,
           ran' \subseteq DOMAIN closures
    PROVE  ToldOK(c)'
<1>1. \A x \in ran' : /\ Fulfils(x, c)' => Fulfils(x, c) /\ x \in ran
                      /\ Rejects(x, c)' => Rejects(x, c) /\ x \in ran
                      /\ closures'[x].i = closures[x].i
  BY DEF Fulfils, Rejects, Extends
<1>2. calls'[c].kind = "all" => /\ \A x \in ran' : Fulfils(x, c)' => closures'[x].i \in calls'[c].results
                              /\ calls'[c].left + Cardinality(calls'[c].results) <= Len(calls'[c].inputs)
  BY <1>1 DEF ToldOK
<1>3. \A x \in ran' : Rejects(x, c)' \/ (Fulfils(x, c)' /\ calls'[c].kind = "race") =>
          Combined(c)' # "PENDING"
  BY <1>1 DEF ToldOK
<1>4. Combined(c)' = "PENDING" /\ calls'[c].kind = "all" /\ calls'[c].inputs # <<>> =>
          calls'[c].left >= 1
  BY DEF ToldOK
<1> QED
  BY <1>2, <1>3, <1>4 DEF ToldOK

\* Its executor goes on, or is over.
LEMMA AsksKept ==
    ASSUME CInv, NEW c \in DOMAIN calls, AsksOK(c),
           calls'[c].inputs = calls[c].inputs, calls'[c].inner = calls[c].inner,
           Combined(c) # "PENDING" => Combined(c)' # "PENDING",
           Extends(closures, closures'), NEW m, Goes(stack', m), Gone(m)
    PROVE  AsksOK(c)'
<1>1. Len(stack) \in Nat /\ DOMAIN stack = 1 .. Len(stack)
  BY Basics
<1>2. /\ DOMAIN stack' = 1 .. Len(stack')
      /\ \A j \in 1 .. m : Similar(stack[j], stack'[j]) /\ j \in 1 .. Len(stack')
      /\ \A j \in 1 .. Len(stack) : j \in 1 .. m \/ j > m
  BY <1>1, GoesFacts
<1>3. Over(c) => Over(c)'
  BY DEF Over
<1>4. ASSUME HasExecutor(c) PROVE Over(c)' \/ HasExecutor(c)'
  <2>1. PICK j \in DOMAIN stack : stack[j].kind = "combine" /\ stack[j].c = c
    BY <1>4 DEF HasExecutor
  <2>2. CASE j \in 1 .. m
    <3>1. j \in DOMAIN stack' /\ stack'[j].kind = "combine" /\ stack'[j].c = c
      BY <1>2, <2>1, <2>2 DEF Similar
    <3> QED
      BY <3>1 DEF HasExecutor
  <2>3. CASE j > m
    BY <2>1, <2>3 DEF Gone
  <2> QED
    BY <1>1, <1>2, <2>2, <2>3
<1>5. \A i \in DOMAIN calls'[c].inner : /\ \E n : Fulfils(n, c)' /\ closures'[n].i = i
                                      /\ \E n : Rejects(n, c)' /\ closures'[n].i = i
  <2> SUFFICES ASSUME NEW i \in DOMAIN calls[c].inner
               PROVE  /\ \E n : Fulfils(n, c)' /\ closures'[n].i = i
                      /\ \E n : Rejects(n, c)' /\ closures'[n].i = i
    OBVIOUS
  <2>1. PICK x, y : Fulfils(x, c) /\ closures[x].i = i /\ Rejects(y, c) /\ closures[y].i = i
    BY DEF AsksOK
  <2>2. /\ Fulfils(x, c)' /\ closures'[x].i = i
        /\ Rejects(y, c)' /\ closures'[y].i = i
    BY <2>1, FulfilsOn
  <2> QED
    BY <2>2
<1> QED
  BY <1>3, <1>4, <1>5 DEF AsksOK

-----------------------------------------------------------------------------
(* Steps that are not of the executors and closures of all() and race(). *)

TInv ==
    /\ HeapTells /\ ExecutorsOK
    /\ \A c \in DOMAIN calls : CountsOK(c) /\ SettledOK(c) /\ ToldOK(c) /\ AsksOK(c)

\* No closure runs for all() or race(), and none of theirs is made.
QuietLibrary ==
    /\ calls' = calls /\ Extends(closures, closures')
    /\ \A x \in DOMAIN closures' : x \in DOMAIN closures \/ closures'[x].role = "await"
    /\ ran \subseteq ran' /\ reran \subseteq reran' /\ ran' \subseteq DOMAIN closures
    /\ \A x \in ran' : x \in ran \/ closures[x].role = "await"

LEMMA QuietStep ==
    ASSUME CInv, TInv, QuietLibrary, NEW m, Went(m), NEW p, NEW given, NEW n, NEW st,
           HeapMove(p, given, n, st), ~IsAgg(n)
    PROVE  TInv'
<1>1. HeapTells' /\ \A x, y : Follows(x, y) => Follows(x, y)'
  BY HeapTellsNext DEF TInv
<1>2. \A c : FulfilsSame(c)
  <2> SUFFICES ASSUME NEW c, NEW x, Fulfils(x, c)'
               PROVE  Fulfils(x, c) /\ closures'[x].i = closures[x].i
    BY DEF FulfilsSame
  <2>1. x \in DOMAIN closures' /\ closures'[x].role = "fulfil" /\ closures'[x].c = c
    BY DEF Fulfils
  <2>2. x \in DOMAIN closures /\ closures'[x] = closures[x]
    BY <2>1 DEF QuietLibrary, Extends
  <2> QED
    BY <2>1, <2>2 DEF Fulfils
<1>3. ExecutorsOK'
  BY <1>1, <1>2, ExecutorsNext DEF TInv, QuietLibrary
<1>4. ASSUME NEW c \in DOMAIN calls PROVE CountsOK(c)' /\ SettledOK(c)' /\ ToldOK(c)' /\ AsksOK(c)'
  <2>1. calls'[c] = calls[c] /\ CountsOK(c) /\ SettledOK(c) /\ LibraryOK /\ AggsOK
        /\ ToldOK(c) /\ AsksOK(c)
    BY Basics DEF QuietLibrary, TInv, HeapTells
  <2>2. HeapStep(p, given) /\ Settling(n, st) /\ n # calls[c].agg
    BY DEF HeapMove, IsAgg
  <2>3. calls'[c].left \in Int /\ calls'[c].left <= calls[c].left
    <3>1. calls[c] \in Call
      BY <2>1 DEF LibraryOK
    <3>2. calls[c].left \in Int
      BY <3>1 DEF Call
    <3> QED
      BY <2>1, <3>2
  <2>4. CountsOK(c)'
    BY <1>2, <2>1, CountsKept DEF QuietLibrary
  <2>5. SettledOK(c)'
    BY <2>1, <2>2, <2>3, SettledKept
  <2>6. Combined(c) # "PENDING" => Combined(c)' # "PENDING"
    BY <2>1, <2>2, CombinedStays
  <2>7. ToldOK(c)'
    BY <2>1, <2>6, ToldKept DEF QuietLibrary
  <2>8. AsksOK(c)'
    BY <2>1, <2>6, AsksKept DEF QuietLibrary, Went
  <2> QED
    BY <2>4, <2>5, <2>7, <2>8
<1> QED
  BY <1>1, <1>3, <1>4 DEF TInv, QuietLibrary

LEMMA QuietSame ==
    ASSUME CInv, calls' = calls, closures' = closures, ran \subseteq ran', reran \subseteq reran',
           ran' \subseteq DOMAIN closures, \A x \in ran' : x \in ran \/ closures[x].role = "await"
    PROVE  QuietLibrary /\ (\A p : CallsOn(p)) /\ InnersNew /\ Extends(closures, closures')
<1>1. CallsKept /\ Extends(closures, closures')
  BY Basics, CallsSame
<1> QED
  BY <1>1 DEF QuietLibrary, CallsOn, InnersNew

LEMMA QuietUnchanged ==
    ASSUME CInv, UNCHANGED <<library, history>>
    PROVE  QuietLibrary /\ closures' = closures
<1>1. calls' = calls /\ closures' = closures /\ ran' = ran /\ reran' = reran
  BY DEF library, history
<1>2. ran' \subseteq DOMAIN closures
  BY <1>1, Basics DEF LibraryOK
<1> QED
  BY <1>1, <1>2, QuietSame

\* The heap stays as it is.
LEMMA StillStep ==
    ASSUME CInv, TInv, NEW m, Went(m), obj' = obj, calls' = calls, closures' = closures,
           ran \subseteq ran', reran \subseteq reran',
           \A x \in ran' : x \in ran \/ (x \in DOMAIN closures /\ closures[x].role = "await")
    PROVE  TInv'
<1>1. /\ QuietLibrary /\ CallsOn(0) /\ InnersNew /\ Extends(closures, closures')
      /\ HeapOK(obj) /\ 0 \notin DOMAIN obj
  <2>1. ran \subseteq DOMAIN closures
    BY Basics DEF LibraryOK
  <2>2. ran' \subseteq DOMAIN closures
    BY <2>1
  <2> QED
    BY <2>2, QuietSame, Basics
<1>2. HeapStep(0, Nothing) /\ GivenOK(Nothing, closures')
  BY <1>1, HeapSame, GivenNothing
<1>3. /\ GivenTells(0, Nothing) /\ Settling(0, "REJECTED") /\ PassedOn(0, "REJECTED")
      /\ ~IsAgg(0)
  <2>1. ~IsAgg(0)
    BY <1>1 DEF TInv, HeapTells, AggsOK, IsAgg
  <2> QED
    BY <1>1, <2>1 DEF GivenTells, Nothing, Settling, PassedOn, Chained
<1>4. HeapMove(0, Nothing, 0, "REJECTED")
  BY <1>1, <1>2, <1>3 DEF HeapMove
<1> QED
  BY <1>1, <1>3, <1>4, QuietStep

\* Promise n is settled.
LEMMA SettlesStep ==
    ASSUME CInv, TInv, NEW m, Went(m), calls' = calls, closures' = closures,
           ran' = ran, reran' = reran,
           NEW n, NEW st, Settling(n, st), PassedOn(n, st), ~IsAgg(n), HeapStep(0, Nothing)
    PROVE  TInv'
<1>1. QuietLibrary /\ CallsOn(0) /\ InnersNew /\ Extends(closures, closures')
  <2>1. ran' \subseteq DOMAIN closures
    BY Basics DEF LibraryOK
  <2> QED
    BY <2>1, QuietSame
<1>2. GivenOK(Nothing, closures') /\ GivenTells(0, Nothing)
  BY GivenNothing DEF GivenTells, Nothing
<1>3. HeapMove(0, Nothing, n, st)
  BY <1>1, <1>2 DEF HeapMove
<1> QED
  BY <1>1, <1>3, QuietStep

\* then() of p is called.
LEMMA ThenStep ==
    ASSUME CInv, TInv, NEW m, Went(m), QuietLibrary,
           NEW p, NEW given, HeapStep(p, given), GivenOK(given, closures'),
           GivenTells(p, given), Settling(0, "REJECTED"),
           \A x \in DOMAIN closures' : x \in DOMAIN closures \/ closures'[x].p \in DOMAIN obj
    PROVE  TInv'
<1>1. 0 \notin DOMAIN obj /\ ~IsAgg(0)
  BY Basics DEF TInv, HeapTells, AggsOK, IsAgg
<1>2. PassedOn(0, "REJECTED")
  BY <1>1 DEF PassedOn, Chained
<1>3. CallsOn(p) /\ InnersNew
  BY Basics, CallsSame DEF QuietLibrary, CallsOn, InnersNew
<1>4. \A x \in DOMAIN closures' :
          x \in DOMAIN closures \/ (closures'[x].p \in DOMAIN obj /\ MadeOK(x)')
  <2> SUFFICES ASSUME NEW x \in DOMAIN closures', x \notin DOMAIN closures
               PROVE  closures'[x].p \in DOMAIN obj /\ MadeOK(x)'
    OBVIOUS
  <2>1. closures'[x].role = "await"
    BY DEF QuietLibrary
  <2>2. MadeOK(x)'
    BY <2>1 DEF MadeOK
  <2> QED
    BY <2>2
<1>5. HeapMove(p, given, 0, "REJECTED")
  BY <1>2, <1>3, <1>4 DEF HeapMove, QuietLibrary
<1> QED
  BY <1>1, <1>5, QuietStep

-----------------------------------------------------------------------------
(* Where the frames of a step go. *)

LEMMA WentStop ==
    ASSUME NEW m, Rest(stack', m), Kept(stack[m], stack'[m]), Gets(stack'[m]),
           Gone(m), Len(stack) \in Nat
    PROVE  Went(m)
<1>1. Goes(stack', m) /\ Len(stack') = m /\ m \in Nat
  BY GoesFacts DEF Rest
<1>2. m # m + 1
  BY <1>1
<1> QED
  BY <1>1, <1>2 DEF Went

LEMMA WentPush ==
    ASSUME NEW s \in Seq(Frame), NEW m, Rest(s, m), Kept(stack[m], s[m]), ~Catching(s[m]),
           NEW f \in Frame, stack' = Append(s, f), f.kind # "combine",
           f.kind = "user" => f.exec = 0, Gone(m), Len(stack) \in Nat
    PROVE  Went(m)
<1>1. Goes(stack', m) /\ Len(stack') = m + 1 /\ stack'[m] = s[m] /\ stack'[m + 1] = f
  BY GoesPush
<1>2. m # m + 1
  BY <1>1, GoesFacts
<1> QED
  BY <1>1, <1>2 DEF Went

LEMMA WentReturn ==
    ASSUME NEW s \in Seq(Frame), NEW m, Rest(s, m), Kept(stack[m], s[m]), NEW v,
           stack' = Returned(s, v), Gone(m), Len(stack) \in Nat,
           Catching(s[m]) => Follows(calls[s[m].c].inputs[s[m].i], v)
    PROVE  Went(m)
<1> DEFINE t == Returned(s, v)
<1>1. /\ Rest(t, m)
      /\ s[m].kind \notin {"settle", "combine"} => t = s
      /\ s[m].kind = "settle" => t[m] = s[m] \/ t[m] = [s[m] EXCEPT !.value = v]
      /\ s[m].kind = "combine" => t[m] = [s[m] EXCEPT !.got = v]
  BY GoesReturn
<1>2. t = stack' /\ s[m] \in Frame /\ s[m].kind = stack[m].kind
  <2>1. m \in 1 .. Len(s)
    BY GoesFacts DEF Rest
  <2> QED
    BY <2>1 DEF Rest, Goes, Similar
<1> HIDE DEF t
<1>3. CASE s[m].kind = "combine"
  <2>1. s[m] \in CombineFrame
    BY <1>2, <1>3, FrameFacts
  <2>2. /\ t[m].kind = "combine" /\ t[m].c = s[m].c /\ t[m].i = s[m].i
        /\ t[m].at = s[m].at /\ t[m].got = v
    BY <1>1, <1>3, <2>1 DEF CombineFrame
  <2>3. Kept(stack[m], t[m]) /\ Gets(t[m])
    BY <1>3, <2>2 DEF Kept, Gets, Catching
  <2> QED
    BY <1>1, <1>2, <2>3, WentStop
<1>4. CASE s[m].kind # "combine"
  <2>1. t[m].kind = s[m].kind
    BY <1>1, <1>2 DEF Rest, Goes, Similar
  <2>2. Kept(stack[m], t[m]) /\ Gets(t[m])
    BY <1>2, <1>4, <2>1 DEF Kept, Gets, Catching
  <2> QED
    BY <1>1, <1>2, <2>2, WentStop
<1> QED
  BY <1>3, <1>4

LEMMA WentRaise ==
    ASSUME NEW s, StackOK(obj, s), NEW m, Rest(s, m), Raise(s), Gone(m), Len(stack) \in Nat,
           DOMAIN stack = 1 .. Len(stack)
    PROVE  \E n : Went(n)
<1>1. PICK n \in 1 .. m :
              /\ Rest(stack', n) /\ stack'[n].kind \in {"user", "generator", "combine"}
              /\ stack'[n].kind = "combine" => stack'[n].at = "caught"
              /\ \A j \in 1 .. m : j > n => s[j].kind \in {"settle", "drive"}
  BY GoesRaise
<1>2. stack'[n].kind = stack[n].kind
  BY <1>1 DEF Rest, Goes, Similar
<1>3. Kept(stack[n], stack'[n]) /\ Gets(stack'[n])
  BY <1>1, <1>2 DEF Kept, Gets, Catching
<1>4. /\ \A j \in 1 .. m : s[j].kind = stack[j].kind
      /\ \A j \in 1 .. Len(stack) : j \in 1 .. m \/ j > m
  BY GoesFacts DEF Rest, Similar
<1>5. Gone(n)
  BY <1>1, <1>4 DEF Gone
<1> QED
  BY <1>1, <1>3, <1>5, WentStop

\* The frames s, which do not wait for it, call then() of p.
LEMMA WentThen ==
    ASSUME HeapOK(obj), NEW s \in Seq(Frame), NEW m, Rest(s, m), Kept(stack[m], s[m]),
           ~Catching(s[m]), NEW p \in DOMAIN obj, NEW given, CallThen(p, given, s),
           Gone(m), Len(stack) \in Nat
    PROVE  Went(m)
<1>1. CASE obj[p].state = "PENDING"
  <2>1. stack' = Returned(s, Len(obj) + 1)
    BY <1>1 DEF CallThen
  <2> QED
    BY <2>1, WentReturn
<1>2. CASE obj[p].state # "PENDING"
  <2> DEFINE f == Settle(p, obj[p].value, TRUE)
  <2>1. stack' = Append(s, f)
    BY <1>2 DEF CallThen
  <2>2. f \in Frame /\ f.kind = "settle"
    BY HeapFacts, SettleIsFrame
  <2> HIDE DEF f
  <2> QED
    BY <2>1, <2>2, WentPush
<1> QED
  BY <1>1, <1>2

LEMMA ThenSettlesNone ==
    ASSUME HeapOK(obj), NEW p \in DOMAIN obj, NEW given, DOMAIN given \subseteq Slots,
           \A x \in DOMAIN given : given[x] \in Fn, NEW s, CallThen(p, given, s)
    PROVE  Settling(0, "REJECTED")
<1> DEFINE n == Len(obj) + 1
           r == Attached(p, given, n)
<1>1. /\ Len(obj) \in Nat /\ DOMAIN obj = 1 .. Len(obj) /\ obj \in Seq(Object)
      /\ n \in Value
  <2>1. Len(obj) \in Nat /\ DOMAIN obj = 1 .. Len(obj) /\ obj \in Seq(Object)
    BY HeapFacts DEF HeapOK
  <2>2. Len(obj) < MaxPromises
    BY DEF CallThen, CanCreate
  <2> QED
    BY <2>1, <2>2, BoundsAssumption DEF Value
<1>2. obj' = Append([obj EXCEPT ![p] = r], Fresh)
  BY DEF CallThen
<1> HIDE DEF n
<1>3. r \in Object /\ r.state = obj[p].state
  BY <1>1, AttachedObject
<1> HIDE DEF r
<1>4. \A q \in DOMAIN obj : obj'[q] = IF q = p THEN r ELSE obj[q]
  <2>1. [obj EXCEPT ![p] = r] \in Seq(Object) /\ Len([obj EXCEPT ![p] = r]) = Len(obj)
    BY <1>1, <1>3
  <2> QED
    BY <1>1, <1>2, <2>1
<1>5. \A q \in DOMAIN obj : q # 0
  BY <1>1
<1> QED
  BY <1>3, <1>4, <1>5 DEF Settling

\* The frames from which a step may go on.
From(s, m) ==
    /\ s \in Seq(Frame) /\ Rest(s, m) /\ Kept(stack[m], s[m]) /\ ~Catching(s[m])
    /\ Gone(m)

LEMMA GoneTop ==
    ASSUME CInv
    PROVE  Gone(Len(stack))
<1>1. Len(stack) \in Nat /\ DOMAIN stack = 1 .. Len(stack)
  BY Basics
<1>2. \A j \in DOMAIN stack : ~(j > Len(stack))
  BY <1>1
<1> QED
  BY <1>2 DEF Gone

LEMMA FromTop ==
    ASSUME CInv, Top.kind # "combine"
    PROVE  /\ From(stack, Len(stack)) /\ StackOK(obj, stack) /\ Len(stack) \in Nat
           /\ DOMAIN stack = 1 .. Len(stack)
<1>1. StackOK(obj, stack) /\ stack \in Seq(Frame) /\ Len(stack) \in Nat
  BY Basics, StackFacts
<1>2. Rest(stack, Len(stack))
  BY <1>1, RestStack
<1> QED
  BY <1>1, <1>2, GoneTop, Basics DEF From, Kept, Catching, Top

LEMMA FromBelow ==
    ASSUME CInv, Len(stack) > 1,
           \A c : Top.kind = "combine" /\ Top.c = c => Over(c)'
    PROVE  \E m : /\ Below \in Seq(Frame) /\ Rest(Below, m) /\ Kept(stack[m], Below[m])
                  /\ Top.kind # "settle" => From(Below, m)
                  /\ Below[m] = stack[m] /\ m \in DOMAIN stack /\ m # Len(stack)
                  /\ Len(stack) = m + 1 /\ m + 1 \in DOMAIN stack /\ Gone(m)
                  /\ StackOK(obj, Below) /\ Len(stack) \in Nat
                  /\ DOMAIN stack = 1 .. Len(stack)
<1> DEFINE m == Len(stack) - 1
<1>1. StackOK(obj, stack) /\ stack \in Seq(Frame) /\ Len(stack) \in Nat
  BY Basics, StackFacts
<1>2. Rest(Below, m) /\ Below[m] = stack[m]
  BY <1>1, RestBelow
<1>3. Top.kind # "settle" => ~Catching(stack[m])
  BY NotCatching
<1>4. m \in 1 .. Len(stack) /\ m # Len(stack) /\ Len(stack) = m + 1
  <2> DEFINE n == Len(stack)
  <2>1. n \in Nat /\ n > 1
    BY <1>1
  <2> HIDE DEF n
  <2>2. n - 1 \in 1 .. n /\ n - 1 # n /\ n = (n - 1) + 1
    BY <2>1
  <2> QED
    BY <2>2 DEF n
<1>5. Below = SubSeq(stack, 1, m)
  BY DEF Below
<1> HIDE DEF m
<1>6. StackOK(obj, Below) /\ Below \in Seq(Frame)
  <2>1. StackOK(obj, Below)
    BY <1>1, <1>4, <1>5, Popped
  <2> QED
    BY <2>1, StackFacts
<1>7. Kept(stack[m], Below[m])
  BY <1>2 DEF Kept
<1>8. DOMAIN stack = 1 .. Len(stack) /\ Len(stack) \in DOMAIN stack
  BY Basics
<1>9. Gone(m)
  <2>1. \A j \in 1 .. m + 1 : j > m => j = m + 1
    BY <1>4
  <2>2. \A j \in DOMAIN stack : j > m => stack[j] = Top
    BY <1>4, <1>8, <2>1 DEF Top
  <2> QED
    BY <2>2 DEF Gone
<1> QED
  BY <1>1, <1>2, <1>3, <1>4, <1>6, <1>7, <1>8, <1>9 DEF From

LEMMA FromAdvanced ==
    ASSUME CInv, Top.kind = "settle", Top.step < 4
    PROVE  From(Advanced, Len(stack)) /\ Len(stack) \in Nat
<1>1. Calm(Advanced, Len(stack)) /\ ~Catching(Advanced[Len(stack)]) /\ Len(stack) \in Nat
  BY Basics, CalmAdvanced
<1> QED
  BY <1>1, GoneTop DEF From, Calm, Kept, Top

\* The driver on top goes on as f.
LEMMA FromTopWith ==
    ASSUME CInv, Top.kind = "drive", NEW f \in Frame, Similar(Top, f)
    PROVE  From(TopWith(f), Len(stack)) /\ Len(stack) \in Nat
<1> DEFINE s == TopWith(f)
<1>1. /\ StackOK(obj, stack) /\ stack \in Seq(Frame) /\ Len(stack) \in Nat
      /\ Len(stack) \in DOMAIN stack /\ s = [stack EXCEPT ![Len(stack)] = f]
  BY Basics, StackFacts DEF TopWith
<1> HIDE DEF s
<1>2. Rest(s, Len(stack)) /\ s[Len(stack)] = f
  BY <1>1, RestTop
<1>3. s \in Seq(Frame)
  <2> DEFINE n == Len(stack)
  <2>1. stack \in Seq(Frame) /\ n \in DOMAIN stack /\ s = [stack EXCEPT ![n] = f]
    BY <1>1
  <2> HIDE DEF n
  <2> QED
    BY <2>1
<1>4. f.kind = "drive"
  BY DEF Similar
<1>5. From(s, Len(stack))
  BY <1>2, <1>3, <1>4, GoneTop DEF From, Kept, Catching, Top
<1> QED
  BY <1>1, <1>5 DEF s

LEMMA FromGoes ==
    ASSUME NEW s, NEW m, From(s, m), Len(stack) \in Nat
    PROVE  /\ stack' = s => Went(m)
           /\ \A v : stack' = Returned(s, v) => Went(m)
           /\ \A f \in Frame : stack' = Append(s, f) /\ f.kind # "combine"
                 /\ (f.kind = "user" => f.exec = 0) => Went(m)
<1>1. /\ s \in Seq(Frame) /\ Rest(s, m) /\ Kept(stack[m], s[m]) /\ ~Catching(s[m])
      /\ Gone(m)
  BY DEF From
<1>2. stack' = s => Went(m)
  BY <1>1, WentStop DEF Gets
<1>3. \A v : stack' = Returned(s, v) => Went(m)
  BY <1>1, WentReturn
<1>4. ASSUME NEW f \in Frame, stack' = Append(s, f), f.kind # "combine",
             f.kind = "user" => f.exec = 0
      PROVE  Went(m)
  BY <1>1, <1>4, WentPush
<1> QED
  BY <1>2, <1>3, <1>4

-----------------------------------------------------------------------------
(* The steps of PHP code, for all() and race(). *)

LEMMA TUserThens ==
    ASSUME CInv, TInv, NEW p \in mine, NEW form \in Forms, UserThens(p, form)
    PROVE  TInv'
<1> DEFINE given == [slot \in form |-> User]
           m == Len(stack)
<1>1. /\ Top.kind \in {"user", "generator"} /\ CallThen(p, given, stack)
      /\ UNCHANGED <<library, history>>
  BY DEF UserThens, Then, InUserCode
<1>2. HeapOK(obj) /\ p \in DOMAIN obj /\ StackOK(obj, stack)
  BY Basics
<1>3. DOMAIN given \subseteq Slots /\ \A x \in DOMAIN given : given[x] \in Fn /\ given[x] = User
  BY BoundsAssumption DEF Slots, User, Fn
<1> HIDE DEF given
<1>4. From(stack, m) /\ m \in Nat
  BY <1>1, FromTop
<1>5. Calm(stack, m)
  BY <1>1, <1>2, CalmStack
<1>6. Went(m)
  BY <1>1, <1>2, <1>4, WentThen DEF From
<1>7. HeapStep(p, given)
  BY <1>1, <1>2, <1>3, <1>4, <1>5, CallThenCalm
<1>8. Settling(0, "REJECTED")
  BY <1>1, <1>2, <1>3, ThenSettlesNone
<1>9. GivenOK(given, closures') /\ GivenTells(p, given)
  BY <1>3 DEF GivenOK, GivenTells, FulfilSlot, RejectSlot, FinalSlot, User
<1>10. QuietLibrary /\ closures' = closures
  BY <1>1, QuietUnchanged
<1> HIDE DEF m
<1> QED
  BY <1>6, <1>7, <1>8, <1>9, <1>10, ThenStep

\* PHP code does not have the promise of a call as one it may settle.
LEMMA TUserSettles ==
    ASSUME CInv, TInv, UserSettles
    PROVE  TInv'
<1> DEFINE m == Len(stack)
<1>1. /\ Top.kind \in {"user", "generator"} /\ UNCHANGED <<library, history>>
      /\ \E p \in Own : Reject(p) \/ \E v \in {0} \cup mine : Resolve(p, v)
  BY DEF UserSettles, Acts, InUserCode
<1>2. /\ HeapOK(obj) /\ StackOK(obj, stack) /\ Own \subseteq DOMAIN obj /\ 0 \in 0 .. Len(obj)
      /\ \A v \in {0} \cup mine : v \in 0 .. Len(obj)
  BY Basics
<1>3. From(stack, m) /\ m \in Nat
  BY <1>1, FromTop
<1>4. Calm(stack, m) /\ ~Catching(stack[m])
  BY <1>1, <1>2, CalmStack DEF Catching, Top
<1>5. \A p \in Own : ~IsAgg(p) /\ ~Chained(p)
  BY DEF TInv, HeapTells, AggsOK, IsAgg, Chained
<1> HIDE DEF m
<1> DEFINE Done(p, st, v, r) ==
                 /\ SettledAs(obj, p, r, st) /\ ObjectChanged(obj, obj', p, r)
                 /\ obj[p].state = "PENDING" /\ stack' = Append(stack, Settle(p, v, FALSE))
<1>6. PICK p, st, v, r : p \in Own /\ v \in 0 .. Len(obj) /\ Done(p, st, v, r)
  <2>1. ASSUME NEW p \in Own, Reject(p)
        PROVE  \E r : Done(p, "REJECTED", 0, r)
    <3>1. /\ p \in DOMAIN obj /\ obj[p].state = "PENDING"
          /\ obj' = [obj EXCEPT ![p].state = "REJECTED"]
          /\ stack' = Append(stack, Settle(p, 0, FALSE))
      BY <1>2, <2>1 DEF Reject
    <3> QED
      BY <1>2, <3>1, SettlesAs
  <2>2. ASSUME NEW p \in Own, NEW v \in {0} \cup mine, Resolve(p, v)
        PROVE  \E r : Done(p, "FULFILLED", v, r)
    <3>1. /\ p \in DOMAIN obj /\ obj[p].state = "PENDING" /\ v \in 0 .. Len(obj)
          /\ stack' = Append(stack, Settle(p, v, FALSE))
      BY <1>2, <2>2 DEF Resolve
    <3> QED
      BY <1>2, <2>2, <3>1, ResolvesAs
  <2> HIDE DEF Done
  <2> QED
    BY <1>1, <1>2, <2>1, <2>2
<1>7. Settle(p, v, FALSE) \in Frame /\ Settle(p, v, FALSE).kind = "settle"
  BY <1>2, <1>6, SettleIsFrame
<1>8. Went(m)
  BY <1>3, <1>6, <1>7, FromGoes DEF m
<1>9. HeapStep(0, Nothing)
  BY <1>2, <1>3, <1>4, <1>6, SettleCalm DEF m
<1>10. Settling(p, st)
  BY <1>2, <1>6 DEF Settling, SettledAs, ObjectChanged
<1>11. PassedOn(p, st)
  BY <1>5, <1>6 DEF PassedOn
<1>12. calls' = calls /\ closures' = closures /\ ran' = ran /\ reran' = reran
  BY <1>1 DEF library, history
<1> QED
  BY <1>5, <1>6, <1>8, <1>9, <1>10, <1>11, <1>12, SettlesStep

LEMMA TUserLeaves ==
    ASSUME CInv, TInv, UserLeaves
    PROVE  TInv'
<1>1. /\ UNCHANGED <<library, history>>
      /\ Throw \/ \E v \in {0} \cup mine : Return(v)
  BY DEF UserLeaves
<1>2. Top.kind = "user" /\ Len(stack) > 1
  BY <1>1 DEF Return, Throw
<1>3. PICK m : /\ Rest(Below, m) /\ From(Below, m) /\ StackOK(obj, Below) /\ Len(stack) \in Nat
               /\ DOMAIN stack = 1 .. Len(stack)
  BY <1>2, FromBelow
<1>4. Top.exec = 0
  <2>1. Len(stack) \in DOMAIN stack
    BY Basics
  <2> QED
    BY <1>2, <2>1 DEF TInv, ExecutorsOK, Top
<1>5. obj' = obj /\ \E n : Went(n)
  <2>1. ASSUME NEW v, Return(v) PROVE obj' = obj /\ Went(m)
    BY <1>3, <2>1, FromGoes DEF Return
  <2>2. ASSUME Throw PROVE obj' = obj /\ \E n : Went(n)
    <3>1. Raise(Below)
      BY <1>4, <2>2 DEF Throw
    <3>2. obj' = obj
      BY <3>1 DEF Raise
    <3> QED
      BY <1>3, <3>1, <3>2, WentRaise DEF From
  <2> QED
    BY <1>1, <2>1, <2>2
<1>6. calls' = calls /\ closures' = closures /\ ran' = ran /\ reran' = reran
  BY <1>1 DEF library, history
<1> QED
  BY <1>5, <1>6, StillStep

LEMMA TCombineDone ==
    ASSUME CInv, TInv, CombineDone
    PROVE  TInv'
<1>1. /\ Top.kind = "combine" /\ stack' = Below /\ obj' = obj /\ calls' = calls
      /\ closures' = closures /\ ran' = ran /\ reran' = reran
      /\ Top.at = "then" /\ Top.i > Len(Inputs)
  BY DEF CombineDone, Combining, library, history
<1>2. Len(stack) > 1
  BY <1>1, Deeper
<1>5. ASSUME NEW c, Top.c = c PROVE Over(c)'
  <2>1. c \in DOMAIN calls /\ calls[c] \in Call /\ Top.i \in Nat /\ Inputs = calls[c].inputs
    BY <1>1, <1>5, CombineFacts DEF Inputs
  <2>2. Len(stack) \in DOMAIN stack
    BY Basics
  <2>3. Top.i = Len(calls[c].inner) + 1
    BY <1>1, <1>5, <2>2 DEF TInv, ExecutorsOK, CombineOK, Top
  <2> DEFINE a == Len(calls[c].inner)
             b == Len(calls[c].inputs)
  <2>4. /\ DOMAIN calls[c].inner = 1 .. a /\ DOMAIN calls[c].inputs = 1 .. b
        /\ a \in Nat /\ b \in Nat
    <3>1. calls[c].inner \in Seq(Value) /\ calls[c].inputs \in Seq(Value)
      BY <2>1 DEF Call
    <3> QED
      BY <3>1
  <2>5. \A i \in DOMAIN calls[c].inner : i \in DOMAIN calls[c].inputs
    BY <2>1 DEF TInv, HeapTells, InnersOK
  <2>6. a + 1 > b
    BY <1>1, <2>1, <2>3
  <2> HIDE DEF a, b
  <2>7. \A i \in 1 .. a : i \in 1 .. b
    BY <2>4, <2>5
  <2>8. a = b
    BY <2>4, <2>6, <2>7
  <2> QED
    BY <1>1, <2>8 DEF Over, a, b
<1>3. PICK m : From(Below, m) /\ Len(stack) \in Nat
  BY <1>1, <1>2, <1>5, FromBelow
<1>4. Went(m)
  BY <1>1, <1>3, FromGoes
<1> QED
  BY <1>1, <1>4, StillStep

-----------------------------------------------------------------------------
(* The steps of async, for all() and race(). *)

LEMMA TCallAsync ==
    ASSUME CInv, TInv, CallAsync
    PROVE  TInv'
<1> DEFINE f == [kind |-> "drive", g |-> Len(gens) + 1, by |-> 0, at |-> "look"]
<1>1. /\ Top.kind \in {"user", "generator"} /\ stack' = Append(stack, f) /\ obj' = obj
      /\ calls' = calls /\ closures' = closures /\ ran' = ran /\ reran' = reran
  BY DEF CallAsync, Acts, InUserCode, history
<1>2. f \in Frame /\ f.kind = "drive"
  <2>1. Len(gens) + 1 \in Nat
    BY Basics DEF LibraryOK
  <2> QED
    BY <2>1 DEF Frame, DriveFrame
<1> HIDE DEF f
<1>3. Went(Len(stack))
  BY <1>1, <1>2, FromTop, FromGoes
<1> QED
  BY <1>1, <1>3, StillStep

LEMMA TRunAwait ==
    ASSUME CInv, TInv, RunAwait
    PROVE  TInv'
<1> DEFINE f == [kind |-> "drive", g |-> ThisClosure.c, by |-> FnAt(Top).n, at |-> "send"]
<1>1. /\ Top.kind = "settle" /\ Top.step < 4 /\ FnAt(Top).kind = "library" /\ Ran
      /\ stack' = Append(Advanced, f) /\ UNCHANGED <<obj, library>>
  BY DEF RunAwait, Running
<1>2. f \in Frame /\ f.kind = "drive"
  <2>1. FnAt(Top).n \in DOMAIN closures /\ closures \in Seq(Closure)
    BY <1>1, FnAtFacts, Basics DEF LibraryOK
  <2>2. ThisClosure \in Closure /\ FnAt(Top).n \in Nat
    BY <2>1 DEF ThisClosure
  <2>3. ThisClosure.c \in Nat
    BY <2>2 DEF Closure
  <2> QED
    BY <2>2, <2>3 DEF Frame, DriveFrame
<1> HIDE DEF f
<1>3. Went(Len(stack))
  BY <1>1, <1>2, FromAdvanced, FromGoes
<1>4. calls' = calls /\ closures' = closures /\ ran \subseteq ran' /\ reran \subseteq reran'
  BY <1>1 DEF library, Ran
<1>5. \A x \in ran' : x \in ran \/ (x \in DOMAIN closures /\ closures[x].role = "await")
  <2>1. FnAt(Top).n \in DOMAIN closures /\ closures[FnAt(Top).n].role = "await"
    BY <1>1, FnAtFacts DEF RunAwait, Running
  <2> QED
    BY <1>1, <2>1 DEF Ran
<1> QED
  BY <1>1, <1>3, <1>4, <1>5, StillStep

\* The driver on top goes on, calls its generator, returns or throws.
LEMMA DriveWent ==
    ASSUME CInv, Top.kind = "drive",
           \/ Resume
           \/ stack' = TopWith([Top EXCEPT !.at = "look"])
           \/ stack' = TopWith([Top EXCEPT !.at = "send", !.by = 0])
           \/ stack' = Returned(Below, 0)
           \/ Raise(stack)
    PROVE  \E m : Went(m)
<1>1. Top \in DriveFrame /\ Top.g \in Nat
  BY DriveFacts
<1> DEFINE look == [Top EXCEPT !.at = "look"]
           send == [Top EXCEPT !.at = "send", !.by = 0]
           gen == [kind |-> "generator", g |-> Top.g]
<1>2. /\ look \in Frame /\ Similar(Top, look)
      /\ send \in Frame /\ Similar(Top, send)
      /\ gen \in Frame /\ gen.kind = "generator"
  BY <1>1 DEF Frame, DriveFrame, GeneratorFrame, Similar
<1>3. Resume => stack' = Append(TopWith(look), gen)
  BY DEF Resume
<1> HIDE DEF look, send, gen
<1>4. From(TopWith(look), Len(stack)) /\ From(TopWith(send), Len(stack)) /\ Len(stack) \in Nat
  BY <1>2, FromTopWith
<1>5. CASE Resume
  BY <1>2, <1>3, <1>4, <1>5, FromGoes
<1>6. CASE stack' = TopWith(look) \/ stack' = TopWith(send)
  BY <1>4, <1>6, FromGoes
<1>7. CASE stack' = Returned(Below, 0)
  <2>1. Len(stack) > 1
    BY Deeper
  <2>2. PICK m : From(Below, m)
    BY <2>1, FromBelow
  <2> QED
    BY <1>4, <1>7, <2>2, FromGoes
<1>8. CASE Raise(stack)
  BY <1>8, FromTop, WentRaise DEF From
<1> QED
  BY <1>5, <1>6, <1>7, <1>8 DEF look, send

LEMMA TDrives ==
    ASSUME CInv, TInv, DriveSend \/ DriveLook \/ DriveEnd
    PROVE  TInv'
<1>1. /\ Top.kind = "drive" /\ obj' = obj /\ calls' = calls /\ closures' = closures
      /\ ran' = ran /\ reran' = reran
  BY DEF DriveSend, DriveLook, DriveEnd, Driving, Raise, library, history
<1>2. \/ Resume
      \/ stack' = TopWith([Top EXCEPT !.at = "look"])
      \/ stack' = TopWith([Top EXCEPT !.at = "send", !.by = 0])
      \/ stack' = Returned(Below, 0)
      \/ Raise(stack)
  BY DEF DriveSend, DriveLook, DriveEnd
<1>3. PICK m : Went(m)
  BY <1>1, <1>2, DriveWent
<1> QED
  BY <1>1, <1>3, StillStep

LEMMA TDriveAwait ==
    ASSUME CInv, TInv, DriveAwait
    PROVE  TInv'
<1> DEFINE f == [Top EXCEPT !.at = "end"]
           k == [role |-> "await", c |-> Top.g, i |-> 0, p |-> Gen.value]
           n == Len(closures) + 1
           given == Give("onFullfilled", n)
           s == TopWith(f)
<1>1. /\ Top.kind = "drive" /\ Gen.value # 0 /\ closures' = Append(closures, k)
      /\ CallThen(Gen.value, given, s) /\ calls' = calls /\ ran' = ran /\ reran' = reran
  BY DEF DriveAwait, Driving, Subscribe, Give, history
<1>2. /\ HeapOK(obj) /\ StackOK(obj, stack) /\ LibraryOK /\ DOMAIN obj = 1 .. Len(obj)
      /\ Len(obj) \in Nat /\ Len(obj) <= MaxPromises /\ Len(stack) \in Nat
  BY Basics
<1>3. Gen.value \in DOMAIN obj /\ Gen.value \in Value /\ Top.g \in Nat /\ Top \in DriveFrame
  <2>1. Gen.value \in 0 .. Len(obj) /\ Top.g \in Nat /\ Top \in DriveFrame
    BY <1>1, DriveFacts DEF Gen
  <2> QED
    BY <1>1, <1>2, <2>1, BoundsAssumption DEF Value
<1>4. k \in Closure /\ k.role = "await" /\ k.p = Gen.value
  BY <1>3 DEF Closure
<1>5. f \in Frame /\ Similar(Top, f) /\ f.at = "end"
  BY <1>3 DEF Frame, DriveFrame, Similar
<1> HIDE DEF f, k
<1>6. /\ Extends(closures, closures') /\ n \in DOMAIN closures' /\ closures'[n] = k
      /\ n \in Nat /\ \A x \in DOMAIN closures' : x \in DOMAIN closures \/ x = n
  BY <1>1, <1>2, <1>4, ClosureAdded
<1> HIDE DEF n
<1>7. /\ DOMAIN given = {"onFullfilled"} /\ DOMAIN given \subseteq Slots
      /\ given["onFullfilled"].kind = "library" /\ given["onFullfilled"].n = n
      /\ \A x \in DOMAIN given : given[x] \in Fn
  BY <1>6, LibraryGiven DEF Slots
<1> HIDE DEF given
<1>8. From(s, Len(stack)) /\ Calm(s, Len(stack))
  BY <1>1, <1>2, <1>5, FromTopWith, CalmTopWith
<1> HIDE DEF s
<1>9. Went(Len(stack))
  BY <1>1, <1>2, <1>3, <1>8, WentThen DEF From
<1>10. HeapStep(Gen.value, given)
  BY <1>1, <1>2, <1>3, <1>7, <1>8, CallThenCalm
<1>11. Settling(0, "REJECTED")
  BY <1>1, <1>2, <1>3, <1>7, ThenSettlesNone
<1>12. GivenOK(given, closures') /\ GivenTells(Gen.value, given)
  BY <1>4, <1>6, <1>7 DEF GivenOK, GivenTells, FulfilSlot
<1>13. QuietLibrary
  <2>1. ran' \subseteq DOMAIN closures
    BY <1>1, <1>2 DEF LibraryOK
  <2> QED
    BY <1>1, <1>4, <1>6, <2>1 DEF QuietLibrary
<1>14. \A x \in DOMAIN closures' : x \in DOMAIN closures \/ closures'[x].p \in DOMAIN obj
  BY <1>3, <1>4, <1>6
<1> QED
  BY <1>9, <1>10, <1>11, <1>12, <1>13, <1>14, ThenStep

LEMMA TGenerator ==
    ASSUME CInv, TInv, GeneratorEnds \/ \E v \in {0} \cup mine : Yield(v)
    PROVE  TInv'
<1>1. /\ Top.kind = "generator" /\ obj' = obj /\ calls' = calls /\ closures' = closures
      /\ ran' = ran /\ reran' = reran /\ (stack' = Below \/ Raise(Below))
  BY DEF GeneratorEnds, Yield, Raise, history
<1>2. Len(stack) > 1
  BY <1>1, Deeper
<1>3. PICK m : /\ Rest(Below, m) /\ From(Below, m) /\ StackOK(obj, Below) /\ Len(stack) \in Nat
               /\ DOMAIN stack = 1 .. Len(stack) /\ Gone(m)
  BY <1>1, <1>2, FromBelow
<1>4. \E n : Went(n)
  BY <1>1, <1>3, FromGoes, WentRaise
<1> QED
  BY <1>1, <1>4, StillStep

-----------------------------------------------------------------------------
(* The steps of settlements, for all() and race(). *)

\* What a settlement calls: resolve() of a promise that then() returned, or a
\* closure of a promise that is settled as this one.
LEMMA FnAtTells ==
    ASSUME CInv, TInv, Top.kind = "settle", Top.step < 4
    PROVE  /\ FnAt(Top).kind = "resolve" => Chained(FnAt(Top).n)
           /\ FnAt(Top).kind = "library" /\ obj[Top.p].state = "FULFILLED" =>
                 obj[closures[FnAt(Top).n].p].state = "FULFILLED"
           /\ FnAt(Top).kind = "library" /\ obj[Top.p].state = "REJECTED" =>
                 closures[FnAt(Top).n].p = Top.p
<1>1. /\ Top.step \in {1, 2, 3} /\ Top.p \in DOMAIN obj
      /\ obj[Top.p].state \in {"FULFILLED", "REJECTED"}
      /\ obj[Top.p].state = "FULFILLED" /\ Top.step = 1 => FnAt(Top) = obj[Top.p].onFullfilled
      /\ obj[Top.p].state = "REJECTED" /\ Top.step = 1 => FnAt(Top) = obj[Top.p].onRejected
      /\ FnAt(Top).kind = "library" => Top.step = 1
      /\ FnAt(Top).kind = "resolve" /\ Top.step = 1 => obj[Top.p].state = "FULFILLED"
  BY FnAtFacts
<1>2. NextsOK /\ HeldOK
  BY DEF TInv, HeapTells
<1>3. ASSUME FnAt(Top).kind = "resolve" PROVE Chained(FnAt(Top).n)
  <2>1. CASE Top.step = 1
    BY <1>1, <1>2, <1>3, <2>1 DEF NextsOK
  <2>2. CASE Top.step = 2
    <3>1. FnAt(Top) = obj[Top.p].onFinaled
      BY <2>2 DEF FnAt
    <3>2. FinalSlot(obj[Top.p].onFinaled)
      BY <1>1 DEF CInv, SlotsOK
    <3> QED
      BY <1>3, <3>1, <3>2 DEF FinalSlot
  <2>3. CASE Top.step = 3
    <3>1. obj[Top.p].next # 0 /\ FnAt(Top).n = obj[Top.p].next
      BY <1>3, <2>3 DEF FnAt, NoFn, ResolveOf
    <3> QED
      BY <1>1, <1>2, <3>1 DEF NextsOK, Follows
  <2> QED
    BY <1>1, <2>1, <2>2, <2>3
<1> QED
  BY <1>1, <1>2, <1>3 DEF HeldOK, State

LEMMA TCallUser ==
    ASSUME CInv, TInv, CallUser
    PROVE  Went(Len(stack))
<1> DEFINE f == [kind |-> "user", exec |-> 0, void |-> FnAt(Top).void]
<1>1. /\ Top.kind = "settle" /\ Top.step < 4 /\ stack' = Append(Advanced, f)
  BY DEF CallUser, InSettle
<1>2. FnAt(Top) \in Fn
  <2>1. /\ Top.step \in {1, 2} /\ Top.p \in DOMAIN obj /\ HeapOK(obj)
    BY <1>1, Basics, SettlementFacts DEF CallUser, InSettle
  <2>2. FnAt(Top) \in {obj[Top.p].onFullfilled, obj[Top.p].onRejected, obj[Top.p].onFinaled}
    BY <2>1 DEF FnAt
  <2>3. obj[Top.p] \in Object
    BY <2>1 DEF HeapOK
  <2> QED
    BY <2>2, <2>3 DEF Object
<1>3. f \in Frame /\ f.kind = "user" /\ f.exec = 0
  <2>1. FnAt(Top).void \in BOOLEAN /\ 0 \in Value
    BY <1>2, BoundsAssumption DEF Fn, Value
  <2> QED
    BY <2>1 DEF Frame, UserFrame
<1> HIDE DEF f
<1> QED
  BY <1>1, <1>3, FromAdvanced, FromGoes

\* A settlement settles n, or throws when n is settled.
LEMMA SettlementGoes ==
    ASSUME CInv, TInv, Top.kind = "settle", Top.step < 4,
           NEW n \in DOMAIN obj, NEW st \in {"FULFILLED", "REJECTED"},
           \/ /\ obj[n].state = "PENDING"
              /\ obj' = [obj EXCEPT ![n].state = st]
              /\ stack' = Append(Advanced, Settle(n, 0, FALSE))
           \/ obj[n].state # "PENDING" /\ Raise(stack)
    PROVE  /\ HeapStep(0, Nothing) /\ \E m : Went(m)
           /\ Settling(n, st) \/ (Settling(0, st) /\ obj[n].state # "PENDING")
<1>1. HeapOK(obj) /\ StackOK(obj, stack) /\ 0 \in 0 .. Len(obj) /\ 0 \notin DOMAIN obj
  BY Basics
<1>2. From(Advanced, Len(stack)) /\ Len(stack) \in Nat
  BY FromAdvanced
<1>3. CASE /\ obj[n].state = "PENDING"
           /\ obj' = [obj EXCEPT ![n].state = st]
           /\ stack' = Append(Advanced, Settle(n, 0, FALSE))
  <2>1. Settle(n, 0, FALSE) \in Frame /\ Settle(n, 0, FALSE).kind = "settle"
    BY <1>1, SettleIsFrame
  <2>2. Went(Len(stack))
    BY <1>2, <1>3, <2>1, FromGoes
  <2>3. HeapStep(0, Nothing)
    BY <1>3, SettleSettles
  <2>4. PICK r : SettledAs(obj, n, r, st) /\ ObjectChanged(obj, obj', n, r)
    BY <1>1, <1>3, SettlesAs
  <2>5. Settling(n, st)
    BY <1>3, <2>4 DEF Settling, SettledAs, ObjectChanged
  <2> QED
    BY <2>2, <2>3, <2>5
<1>4. CASE obj[n].state # "PENDING" /\ Raise(stack)
  <2>1. obj' = obj /\ \E m : Went(m)
    BY <1>1, <1>4, FromTop, WentRaise DEF Raise, From
  <2> QED
    BY <1>1, <1>4, <2>1, HeapSame DEF Settling
<1> QED
  BY <1>3, <1>4

\* A settlement settles n, which then() returned, or throws.
LEMMA TPasses ==
    ASSUME CInv, TInv, Top.kind = "settle", Top.step < 4,
           UNCHANGED <<library, history>>, NEW n, n \in DOMAIN obj, Chained(n),
           NEW st \in {"FULFILLED", "REJECTED"}, PassedOn(n, st),
           \/ /\ obj[n].state = "PENDING"
              /\ obj' = [obj EXCEPT ![n].state = st]
              /\ stack' = Append(Advanced, Settle(n, 0, FALSE))
           \/ Raise(stack)
    PROVE  TInv'
<1>1. /\ HeapOK(obj) /\ StackOK(obj, stack) /\ 0 \in 0 .. Len(obj)
      /\ calls' = calls /\ closures' = closures /\ ran' = ran /\ reran' = reran
  BY Basics DEF library, history
<1>2. CASE /\ obj[n].state = "PENDING"
           /\ obj' = [obj EXCEPT ![n].state = st]
           /\ stack' = Append(Advanced, Settle(n, 0, FALSE))
  <2>1. HeapStep(0, Nothing) /\ Settling(n, st) /\ \E m : Went(m)
    BY <1>2, SettlementGoes
  <2> QED
    BY <1>1, <2>1, SettlesStep DEF Chained
<1>3. CASE Raise(stack)
  <2>1. obj' = obj /\ \E m : Went(m)
    BY <1>1, <1>3, FromTop, WentRaise DEF Raise, From
  <2> QED
    BY <1>1, <2>1, StillStep
<1> QED
  BY <1>2, <1>3

LEMMA TAdopt ==
    ASSUME CInv, TInv, Adopt, UNCHANGED <<library, history>>
    PROVE  TInv'
<1> DEFINE g == [FnAt(Top) EXCEPT !.void = TRUE]
           given == [slot \in {"onFullfilled"} |-> g]
           p == Top.value
<1>1. /\ IInv /\ HeapOK(obj) /\ StackOK(obj, stack)
  BY Basics
<1>2. /\ Top.kind = "settle" /\ Top.step < 4 /\ obj[Top.p].state = "FULFILLED"
      /\ p # 0 /\ CallThen(p, given, Advanced)
  BY DEF Adopt, InSettle
<1>3. p \in DOMAIN obj /\ FnAt(Top) \in Fn
  BY <1>1, <1>2, SettlementFacts
<1>4. g \in Fn /\ g.kind = FnAt(Top).kind /\ g.n = FnAt(Top).n
  BY <1>3 DEF Fn
<1>5. /\ DOMAIN given \subseteq Slots /\ DOMAIN given = {"onFullfilled"}
      /\ given["onFullfilled"] = g /\ \A x \in DOMAIN given : given[x] \in Fn
  BY <1>4 DEF Slots
<1>6. GivenOK(given, closures') /\ GivenTells(p, given)
  <2>1. /\ FulfilSlot(FnAt(Top), closures) /\ closures' = closures
        /\ g.kind = "resolve" => Chained(g.n)
        /\ g.kind = "library" => obj[closures'[g.n].p].state = "FULFILLED"
    BY <1>2, <1>4, FnAtFacts, FnAtTells DEF library
  <2> HIDE DEF g, given
  <2> QED
    BY <1>4, <1>5, <2>1 DEF FulfilSlot, GivenOK, GivenTells
<1> HIDE DEF g, given, p
<1>7. /\ From(Advanced, Len(stack)) /\ Calm(Advanced, Len(stack)) /\ Len(stack) \in Nat
  BY <1>1, <1>2, FromAdvanced, CalmAdvanced
<1>8. Went(Len(stack))
  BY <1>1, <1>2, <1>3, <1>7, WentThen DEF From
<1>9. HeapStep(p, given)
  BY <1>1, <1>2, <1>3, <1>5, <1>7, CallThenCalm
<1>10. Settling(0, "REJECTED")
  BY <1>1, <1>2, <1>3, <1>5, ThenSettlesNone
<1>11. QuietLibrary /\ closures' = closures
  BY QuietUnchanged
<1> QED
  BY <1>6, <1>8, <1>9, <1>10, <1>11, ThenStep

LEMMA TSettleSteps ==
    ASSUME CInv, TInv, SettleSteps
    PROVE  TInv'
<1>1. /\ SkipStep \/ CallUser \/ CallResolve \/ RejectNext \/ Adopt
      /\ UNCHANGED <<library, history>>
  BY DEF SettleSteps
<1>2. Top.kind = "settle" /\ Top.step < 4 /\ HeapOK(obj) /\ IInv
  <2>1. Top.kind = "settle" /\ (Top.step < 4 \/ Top.step \in {1, 2, 3})
    BY <1>1 DEF SkipStep, CallUser, CallResolve, RejectNext, Adopt, InSettle
  <2> QED
    BY <2>1, Basics
<1>3. calls' = calls /\ closures' = closures /\ ran' = ran /\ reran' = reran
  BY <1>1 DEF library, history
<1>4. CASE SkipStep
  <2>1. stack' = Advanced /\ obj' = obj
    BY <1>4 DEF SkipStep
  <2>2. Went(Len(stack))
    BY <1>2, <2>1, FromAdvanced, FromGoes
  <2> QED
    BY <1>3, <2>1, <2>2, StillStep
<1>5. CASE CallUser
  <2>1. obj' = obj
    BY <1>5 DEF CallUser
  <2> QED
    BY <1>3, <1>5, <2>1, TCallUser, StillStep
<1>6. CASE CallResolve
  <2> DEFINE n == FnAt(Top).n
  <2>1. /\ FnAt(Top).kind = "resolve"
        /\ \/ /\ obj[n].state = "PENDING"
              /\ obj' = [obj EXCEPT ![n].state = "FULFILLED"]
              /\ stack' = Append(Advanced, Settle(n, 0, FALSE))
           \/ Raise(stack)
    BY <1>6 DEF CallResolve
  <2>2. Chained(n)
    BY <1>2, <2>1, FnAtTells
  <2> HIDE DEF n
  <2>3. n \in DOMAIN obj /\ PassedOn(n, "FULFILLED")
    BY <2>2 DEF Chained, PassedOn
  <2> QED
    BY <1>1, <1>2, <2>1, <2>2, <2>3, TPasses
<1>7. CASE RejectNext
  <2> DEFINE n == obj[Top.p].next
  <2>1. /\ n # 0 /\ obj[Top.p].state = "REJECTED"
        /\ \/ /\ obj[n].state = "PENDING"
              /\ obj' = [obj EXCEPT ![n].state = "REJECTED"]
              /\ stack' = Append(Advanced, Settle(n, 0, FALSE))
           \/ Raise(stack)
    BY <1>7 DEF RejectNext, InSettle
  <2>2. Top.p \in DOMAIN obj /\ n = obj[Top.p].next
    BY <1>2, SettlementFacts
  <2>3. Chained(n)
    BY <2>1, <2>2 DEF TInv, HeapTells, NextsOK, Follows
  <2>4. n \in DOMAIN obj /\ PassedOn(n, "REJECTED")
    BY <2>1, <2>2, <2>3 DEF Chained, PassedOn
  <2> HIDE DEF n
  <2> QED
    BY <1>1, <1>2, <2>1, <2>3, <2>4, TPasses
<1>8. CASE Adopt
  BY <1>1, <1>8, TAdopt
<1> QED
  BY <1>1, <1>4, <1>5, <1>6, <1>7, <1>8

\* What an executor waited for is what the settlement gives.
LEMMA TFinishes ==
    ASSUME CInv, TInv, Finishes
    PROVE  TInv'
<1> DEFINE v == IF Top.gives THEN obj[Top.p].next ELSE 0
<1>1. /\ Top.kind = "settle" /\ stack' = Returned(Below, v) /\ obj' = obj
      /\ calls' = calls /\ closures' = closures /\ ran' = ran /\ reran' = reran
  BY DEF Finishes, Finish, library, history
<1>2. Len(stack) > 1 /\ FrameOK(obj, Top)
  BY <1>1, Deeper, Basics
<1>3. PICK m : /\ Below \in Seq(Frame) /\ Rest(Below, m) /\ Kept(stack[m], Below[m])
               /\ Below[m] = stack[m] /\ m \in DOMAIN stack /\ m # Len(stack)
               /\ Len(stack) = m + 1 /\ Len(stack) \in Nat /\ Gone(m)
  BY <1>1, <1>2, FromBelow
<1>4. ASSUME Catching(Below[m])
      PROVE  Follows(calls[Below[m].c].inputs[Below[m].i], v)
  <2>1. CombineOK(m) /\ stack[m].at = "catch"
    BY <1>3, <1>4 DEF TInv, ExecutorsOK, Catching
  <2>2. /\ stack[m + 1].gives /\ stack[m + 1].p = calls[stack[m].c].inputs[stack[m].i]
    BY <1>3, <2>1 DEF CombineOK
  <2>3. Top.gives /\ Top.p = calls[Below[m].c].inputs[Below[m].i]
    BY <1>3, <2>2 DEF Top
  <2>4. v = obj[Top.p].next /\ v # 0 /\ Top.p \in DOMAIN obj
    BY <1>1, <1>2, <2>3 DEF FrameOK
  <2> HIDE DEF v
  <2> QED
    BY <2>3, <2>4 DEF TInv, HeapTells, NextsOK
<1> HIDE DEF v
<1>5. Went(m)
  BY <1>1, <1>3, <1>4, WentReturn
<1> QED
  BY <1>1, <1>5, StillStep

-----------------------------------------------------------------------------
(* The steps of all() and race() that tell. *)

\* Call c is told, and no closure is made.
LEMMA CallStep ==
    ASSUME CInv, TInv, NEW c \in DOMAIN calls, CallsKept, DOMAIN calls' = DOMAIN calls,
           \A d \in DOMAIN calls : calls'[d].inner = calls[d].inner /\ (d # c => calls'[d] = calls[d]),
           closures' = closures, ran \subseteq ran', reran \subseteq reran',
           NEW m, Went(m), HeapStep(0, Nothing),
           NEW n \in {0, calls[c].agg}, NEW st, Settling(n, st),
           \A x \in ran' : x \in ran \/ (x \in DOMAIN closures /\ closures[x].c = c),
           CountsOK(c)', SettledOK(c)', ToldOK(c)'
    PROVE  TInv'
<1>1. /\ HeapTells /\ ExecutorsOK /\ AggsOK /\ LibraryOK /\ 0 \notin DOMAIN obj
      /\ \A d \in DOMAIN calls : CountsOK(d) /\ SettledOK(d) /\ ToldOK(d) /\ AsksOK(d)
      /\ ran' \subseteq DOMAIN closures
  BY Basics DEF TInv, HeapTells, LibraryOK
<1>2. \A d \in DOMAIN calls : /\ calls'[d].inputs = calls[d].inputs
                              /\ calls'[d].inner = calls[d].inner /\ FulfilsSame(d)
  BY DEF CallsKept, FulfilsSame, Fulfils
<1>3. CallsOn(0) /\ InnersNew /\ Extends(closures, closures')
  BY <1>1, CallsSame DEF CallsOn, InnersNew
<1>4. PassedOn(n, st)
  BY <1>1 DEF PassedOn, Chained, IsAgg
<1>5. GivenOK(Nothing, closures') /\ GivenTells(0, Nothing)
  BY GivenNothing DEF GivenTells, Nothing
<1>6. HeapMove(0, Nothing, n, st)
  BY <1>3, <1>4, <1>5 DEF HeapMove
<1>7. HeapTells' /\ \A x, y : Follows(x, y) => Follows(x, y)'
  BY <1>1, <1>6, HeapTellsNext
<1>8. ExecutorsOK'
  BY <1>1, <1>2, <1>3, <1>7, ExecutorsNext
<1>9. ASSUME NEW d \in DOMAIN calls, d # c PROVE CountsOK(d)' /\ SettledOK(d)' /\ ToldOK(d)'
  <2>1. calls'[d] = calls[d] /\ CountsOK(d) /\ SettledOK(d) /\ n # calls[d].agg
    BY <1>1, <1>9 DEF AggsOK
  <2>2. calls'[d].left \in Int /\ calls'[d].left <= calls[d].left
    <3>1. calls[d] \in Call
      BY <1>1 DEF LibraryOK
    <3>2. calls[d].left \in Int
      BY <3>1 DEF Call
    <3> QED
      BY <2>1, <3>2
  <2>3. CountsOK(d)'
    BY <1>1, <1>2, <1>3, <2>1, CountsKept
  <2>4. SettledOK(d)'
    BY <1>1, <2>1, <2>2, SettledKept
  <2>5. Combined(d) # "PENDING" => Combined(d)' # "PENDING"
    BY <1>1, <2>1, CombinedStays
  <2>6. \A x \in ran' : x \in ran \/ closures[x].role = "await" \/ closures[x].c # d
    BY <1>9
  <2>7. ToldOK(d)'
    BY <1>1, <1>3, <2>1, <2>5, <2>6, ToldKept
  <2> QED
    BY <2>3, <2>4, <2>7
<1>10. ASSUME NEW d \in DOMAIN calls PROVE AsksOK(d)'
  <2>1. calls'[d].agg = calls[d].agg
    BY DEF CallsKept
  <2>2. Combined(d) # "PENDING" => Combined(d)' # "PENDING"
    BY <1>1, <2>1, CombinedStays
  <2> QED
    BY <1>1, <1>2, <1>3, <2>2, AsksKept DEF Went
<1>11. \A d \in DOMAIN calls' : CountsOK(d)' /\ SettledOK(d)' /\ ToldOK(d)' /\ AsksOK(d)'
  BY <1>9, <1>10
<1> QED
  BY <1>7, <1>8, <1>11 DEF TInv

\* The closure that a settlement runs, and its call.
LEMMA ThisFacts ==
    ASSUME CInv, TInv, NEW role \in {"fulfil", "reject"}, Running(role), Ran
    PROVE  LET n == FnAt(Top).n
               c == closures[n].c
           IN  /\ Top.kind = "settle" /\ Top.step < 4 /\ FnAt(Top).kind = "library"
               /\ n \in DOMAIN closures /\ closures[n].role = role
               /\ ThisClosure = closures[n] /\ ThisCall = calls[c]
               /\ c \in DOMAIN calls /\ calls[c] \in Call /\ calls[c].agg \in DOMAIN obj
               /\ MadeOK(n) /\ CountsOK(c) /\ SettledOK(c) /\ ToldOK(c)
               /\ closures[n].i \in Nat /\ closures[n].p \in DOMAIN obj
               /\ role = "fulfil" => obj[closures[n].p].state = "FULFILLED"
               /\ role = "reject" => obj[closures[n].p].state = "REJECTED"
               /\ ran' = ran \cup {n} /\ (n \in ran => n \in reran')
               /\ ran \subseteq ran' /\ reran \subseteq reran'
<1> DEFINE n == FnAt(Top).n
           c == closures[n].c
<1>1. /\ Top.kind = "settle" /\ Top.step < 4 /\ FnAt(Top).kind = "library"
      /\ closures[n].role = role
  BY DEF Running
<1>2. /\ n \in DOMAIN closures /\ obj[Top.p].state \in {"FULFILLED", "REJECTED"}
      /\ role = "reject" <=> obj[Top.p].state = "REJECTED"
  BY <1>1, FnAtFacts
<1>3. /\ obj[Top.p].state = "FULFILLED" => obj[closures[n].p].state = "FULFILLED"
      /\ obj[Top.p].state = "REJECTED" => closures[n].p = Top.p
  BY <1>1, FnAtTells
<1>4. ThisClosure = closures[n] /\ ThisCall = calls[c]
  BY DEF ThisClosure, ThisCall
<1>5. ran' = ran \cup {n} /\ (n \in ran => n \in reran') /\ reran \subseteq reran'
  BY DEF Ran
<1> HIDE DEF n
<1>6. /\ c \in DOMAIN calls /\ closures[n].p \in DOMAIN obj
  BY <1>1, <1>2, Basics DEF LibraryOK, ClosureOK
<1>7. closures[n].i \in Nat
  <2>1. closures[n] \in Closure
    BY <1>2, Basics DEF LibraryOK
  <2> QED
    BY <2>1 DEF Closure
<1> HIDE DEF c
<1>8. /\ calls[c] \in Call /\ calls[c].agg \in DOMAIN obj
      /\ CountsOK(c) /\ SettledOK(c) /\ ToldOK(c)
  BY <1>6, Basics DEF LibraryOK, CallOK, TInv
<1>9. MadeOK(n)
  BY <1>2 DEF TInv, HeapTells
<1> QED
  BY <1>1, <1>2, <1>3, <1>4, <1>5, <1>6, <1>7, <1>8, <1>9 DEF n, c

\* An input tells its state to call c.
LEMMA TTells ==
    ASSUME CInv, TInv, NEW c \in DOMAIN calls, NEW agg, agg = calls[c].agg,
           NEW st \in {"FULFILLED", "REJECTED"}, Top.kind = "settle", Top.step < 4,
           \/ /\ obj[agg].state = "PENDING"
              /\ obj' = [obj EXCEPT ![agg].state = st]
              /\ stack' = Append(Advanced, Settle(agg, 0, FALSE))
           \/ obj[agg].state # "PENDING" /\ Raise(stack),
           calls' = calls, closures' = closures, reran \subseteq reran',
           NEW n \in DOMAIN closures, closures[n].c = c, ran' = ran \cup {n},
           calls[c].kind = "race" \/ closures[n].role = "reject",
           NEW i \in DOMAIN calls[c].inputs, obj[calls[c].inputs[i]].state = st,
           calls[c].kind = "race" \/ st = "REJECTED"
    PROVE  TInv'
<1>1. /\ calls[c] \in Call /\ agg \in DOMAIN obj /\ calls[c].inputs[i] \in DOMAIN obj
      /\ CountsOK(c) /\ SettledOK(c) /\ ToldOK(c)
      /\ AggsOK /\ 0 \notin DOMAIN obj /\ LibraryOK
      /\ ran \subseteq ran' /\ ran' \subseteq DOMAIN closures
      /\ \A x \in ran' : x \in ran \/ (x \in DOMAIN closures /\ closures[x].c = c)
  BY Basics DEF LibraryOK, CallOK, TInv, HeapTells, AggsOK
<1>2. /\ HeapStep(0, Nothing) /\ \E m : Went(m)
      /\ Settling(agg, st) \/ (Settling(0, st) /\ obj[agg].state # "PENDING")
  BY <1>1, SettlementGoes
<1>3. obj'[agg].state # "PENDING"
  BY <1>1, <1>2 DEF Settling
<1>8. ToldOK(c)'
  <2>1. \A x \in ran' : \/ x \in ran
                        \/ closures[x].role = "reject" \/ calls[c].kind = "race"
    OBVIOUS
  <2>2. Combined(c)' # "PENDING"
    BY <1>3 DEF Combined
  <2>3. \A x : Fulfils(x, c)' <=> Fulfils(x, c)
    BY DEF Fulfils
  <2>4. calls[c].kind = "all" =>
           /\ \A x \in ran' : Fulfils(x, c) => closures[x].i \in calls[c].results
           /\ calls[c].left + Cardinality(calls[c].results) <= Len(calls[c].inputs)
    <3>1. calls[c].kind = "all" => calls[c].kind # "race"
      OBVIOUS
    <3>2. \A x \in ran' : Fulfils(x, c) => x \in ran \/ calls[c].kind = "race"
      BY <2>1 DEF Fulfils
    <3> QED
      BY <1>1, <3>1, <3>2 DEF ToldOK
  <2> QED
    BY <2>2, <2>3, <2>4 DEF ToldOK
<1>4. CallsKept /\ Extends(closures, closures')
  BY Basics, CallsSame
<1>5. CountsOK(c)'
  <2>1. FulfilsSame(c)
    BY DEF FulfilsSame, Fulfils
  <2> QED
    BY <1>1, <1>4, <2>1, CountsKept
<1>6. CASE Settling(agg, st)
  <2>1. obj'[agg].state = st
    BY <1>1, <1>6 DEF Settling
  <2>2. obj'[calls[c].inputs[i]].state = st
    BY <1>1, <1>2, <1>6, StatesOn
  <2>3. SettledOK(c)'
    BY <2>1, <2>2 DEF SettledOK, Combined, State
  <2> QED
    BY <1>1, <1>2, <1>4, <1>5, <1>6, <1>8, <2>3, CallStep
<1>7. CASE Settling(0, st)
  <2>1. 0 # agg
    BY <1>1
  <2>2. calls'[c].left \in Int /\ calls'[c].left <= calls[c].left
    <3>1. calls[c].left \in Int
      BY <1>1 DEF Call
    <3> QED
      BY <3>1
  <2>3. SettledOK(c)'
    BY <1>1, <1>2, <1>7, <2>1, <2>2, SettledKept
  <2> QED
    BY <1>1, <1>2, <1>4, <1>5, <1>7, <1>8, <2>3, CallStep
<1> QED
  BY <1>2, <1>6, <1>7

LEMMA TRunRace ==
    ASSUME CInv, TInv, RunRace
    PROVE  TInv'
<1>1. /\ Running("fulfil") /\ Ran /\ ThisCall.kind = "race" /\ SettleCombined("FULFILLED")
      /\ calls' = calls /\ closures' = closures
  BY DEF RunRace, library
<1>2. PICK n, c : /\ Top.kind = "settle" /\ Top.step < 4 /\ n \in DOMAIN closures
                  /\ closures[n].role = "fulfil" /\ closures[n].c = c /\ ThisCall = calls[c]
                  /\ c \in DOMAIN calls /\ MadeOK(n) /\ obj[closures[n].p].state = "FULFILLED"
                  /\ ran' = ran \cup {n} /\ reran \subseteq reran'
  BY <1>1, ThisFacts
<1>3. PICK agg : agg = calls[c].agg
  OBVIOUS
<1>4. PICK i \in DOMAIN calls[c].inputs : obj[calls[c].inputs[i]].state = "FULFILLED"
  BY <1>2 DEF MadeOK
<1>5. \/ /\ obj[agg].state = "PENDING"
         /\ obj' = [obj EXCEPT ![agg].state = "FULFILLED"]
         /\ stack' = Append(Advanced, Settle(agg, 0, FALSE))
      \/ obj[agg].state # "PENDING" /\ Raise(stack)
  BY <1>1, <1>2, <1>3 DEF SettleCombined
<1> QED
  BY <1>1, <1>2, <1>3, <1>4, <1>5, TTells

\* The closure is in catch() of what then() of the input returned, which is
\* rejected with the input.
LEMMA TRunReject ==
    ASSUME CInv, TInv, RunReject
    PROVE  TInv'
<1>1. /\ Running("reject") /\ Ran /\ SettleCombined("REJECTED")
      /\ calls' = calls /\ closures' = closures
  BY DEF RunReject, library
<1>2. PICK n, c : /\ Top.kind = "settle" /\ Top.step < 4 /\ n \in DOMAIN closures
                  /\ closures[n].role = "reject" /\ closures[n].c = c /\ ThisCall = calls[c]
                  /\ c \in DOMAIN calls /\ MadeOK(n) /\ obj[closures[n].p].state = "REJECTED"
                  /\ ran' = ran \cup {n} /\ reran \subseteq reran'
  BY <1>1, ThisFacts
<1>3. PICK agg : agg = calls[c].agg
  OBVIOUS
<1>4. PICK i : /\ i \in DOMAIN calls[c].inner /\ obj[calls[c].inner[i]].state = "REJECTED"
  BY <1>2 DEF MadeOK
<1>5. i \in DOMAIN calls[c].inputs /\ obj[calls[c].inputs[i]].state = "REJECTED"
  BY <1>2, <1>4 DEF TInv, HeapTells, InnersOK, Follows, State
<1>6. \/ /\ obj[agg].state = "PENDING"
         /\ obj' = [obj EXCEPT ![agg].state = "REJECTED"]
         /\ stack' = Append(Advanced, Settle(agg, 0, FALSE))
      \/ obj[agg].state # "PENDING" /\ Raise(stack)
  BY <1>1, <1>2, <1>3 DEF SettleCombined
<1> QED
  BY <1>1, <1>2, <1>3, <1>5, <1>6, TTells

\* A closure of all() that runs is one result more, or runs again.
LEMMA CountsTold ==
    ASSUME NEW c \in DOMAIN calls, calls[c] \in Call, CountsOK(c),
           NEW n, Fulfils(n, c), NEW i \in DOMAIN calls[c].inputs, i = closures[n].i,
           closures' = closures, ran' = ran \cup {n}, n \in ran => n \in reran',
           reran \subseteq reran',
           calls'[c].inputs = calls[c].inputs, calls'[c].kind = calls[c].kind,
           calls'[c].left = calls[c].left - 1, calls'[c].results = calls[c].results \cup {i}
    PROVE  CountsOK(c)'
<1>1. \A m : (Fulfils(m, c)' <=> Fulfils(m, c)) /\ closures'[m].i = closures[m].i
  BY DEF Fulfils
<1>2. \A j \in calls'[c].results :
          j \in DOMAIN calls'[c].inputs /\ \E m \in ran' : Fulfils(m, c)' /\ closures'[m].i = j
  BY <1>1 DEF CountsOK
<1>3. ASSUME NEW m, NEW h, Fulfils(m, c)', Fulfils(h, c)', closures'[m].i = closures'[h].i
      PROVE  m = h
  BY <1>1, <1>3 DEF CountsOK
<1>4. Recounts(c) => Recounts(c)'
  BY <1>1 DEF Recounts
<1>5. CASE i \in calls[c].results
  <2>1. PICK m \in ran : Fulfils(m, c) /\ closures[m].i = i
    BY <1>5 DEF CountsOK
  <2>2. m = n
    BY <2>1 DEF CountsOK
  <2>3. Recounts(c)'
    BY <1>1, <2>1, <2>2 DEF Recounts
  <2> QED
    BY <1>2, <1>3, <2>3 DEF CountsOK
<1>6. CASE i \notin calls[c].results
  <2> DEFINE s == calls[c].results
  <2>1. IsFiniteSet(s)
    <3>1. calls[c].inputs \in Seq(Value)
      BY DEF Call
    <3>2. Len(calls[c].inputs) \in Nat /\ DOMAIN calls[c].inputs = 1 .. Len(calls[c].inputs)
      BY <3>1
    <3>3. IsFiniteSet(DOMAIN calls[c].inputs)
      BY <3>2, FS_Interval
    <3>4. s \in SUBSET DOMAIN calls[c].inputs
      BY DEF CountsOK
    <3> QED
      BY <3>3, <3>4, FS_Subset
  <2>2. Cardinality(s \cup {i}) = Cardinality(s) + 1 /\ Cardinality(s) \in Nat
    BY <1>6, <2>1, FS_AddElement, FS_CardinalityType
  <2>3. calls[c].left \in Int
    BY DEF Call
  <2>4. calls[c].left + Cardinality(s) = Len(calls[c].inputs) =>
        calls'[c].left + Cardinality(calls'[c].results) = Len(calls'[c].inputs)
    <3> DEFINE x == Cardinality(s)
               y == Cardinality(s \cup {i})
               l == calls[c].left
               k == calls'[c].left
               z == Len(calls[c].inputs)
    <3>1. x \in Nat /\ y = x + 1 /\ l \in Int /\ k = l - 1
      BY <2>2, <2>3
    <3>2. calls'[c].results = s \cup {i} /\ Len(calls'[c].inputs) = z
      OBVIOUS
    <3> HIDE DEF x, y, l, k, z
    <3>3. l + x = z => k + y = z
      BY <3>1
    <3> QED
      BY <3>2, <3>3 DEF x, y, l, k, z
  <2> QED
    BY <1>2, <1>3, <1>4, <2>4 DEF CountsOK
<1> QED
  BY <1>5, <1>6

\* What it told is a result, and no other closure has told less.
LEMMA ResultsTold ==
    ASSUME LibraryOK, NEW c \in DOMAIN calls, calls[c] \in Call, CountsOK(c), ToldOK(c),
           NEW n, Fulfils(n, c), NEW i \in DOMAIN calls[c].inputs, i = closures[n].i,
           closures' = closures, ran' = ran \cup {n}, calls[c].kind = "all",
           calls'[c].inputs = calls[c].inputs, calls'[c].kind = calls[c].kind,
           calls'[c].left = calls[c].left - 1, calls'[c].results = calls[c].results \cup {i},
           Combined(c) # "PENDING" => Combined(c)' # "PENDING",
           calls[c].left = 1 => Combined(c)' # "PENDING"
    PROVE  ToldOK(c)'
<1>1. \A m : /\ Fulfils(m, c)' <=> Fulfils(m, c)
             /\ Rejects(m, c)' <=> Rejects(m, c)
             /\ closures'[m].i = closures[m].i
  BY DEF Fulfils, Rejects
<1>2. \A m \in ran' : Fulfils(m, c)' => closures'[m].i \in calls'[c].results
  BY <1>1 DEF ToldOK
<1>3. calls'[c].left + Cardinality(calls'[c].results) <= Len(calls'[c].inputs)
  <2> DEFINE s == calls[c].results
             x == Cardinality(s)
             y == Cardinality(s \cup {i})
             l == calls[c].left
             k == calls'[c].left
             z == Len(calls[c].inputs)
  <2>1. calls[c].inputs \in Seq(Value) /\ l \in Int
    BY DEF Call
  <2>2. z \in Nat /\ DOMAIN calls[c].inputs = 1 .. z
    BY <2>1
  <2>3. IsFiniteSet(s)
    <3>1. IsFiniteSet(DOMAIN calls[c].inputs)
      BY <2>2, FS_Interval
    <3>2. s \in SUBSET DOMAIN calls[c].inputs
      BY DEF CountsOK
    <3> QED
      BY <3>1, <3>2, FS_Subset
  <2>4. x \in Nat /\ y \in Nat /\ y <= x + 1
    <3>1. x \in Nat
      BY <2>3, FS_CardinalityType
    <3>2. CASE i \in s
      <4>1. s \cup {i} = s
        BY <3>2
      <4>2. y = x
        BY <4>1
      <4> HIDE DEF x, y
      <4> QED
        BY <3>1, <4>2
    <3>3. CASE i \notin s
      <4>1. y = x + 1
        BY <2>3, <3>3, FS_AddElement
      <4> HIDE DEF x, y
      <4> QED
        BY <3>1, <4>1
    <3> QED
      BY <3>2, <3>3
  <2>5. l + x <= z /\ k = l - 1
    BY DEF ToldOK
  <2>6. calls'[c].results = s \cup {i} /\ Len(calls'[c].inputs) = z
    OBVIOUS
  <2> HIDE DEF s, x, y, l, k, z
  <2>7. k + y <= z
    BY <2>1, <2>2, <2>4, <2>5
  <2> QED
    BY <2>6, <2>7 DEF s, y, k, z
<1>4. ASSUME NEW m \in ran', Rejects(m, c)' \/ (Fulfils(m, c)' /\ calls'[c].kind = "race")
      PROVE  Combined(c)' # "PENDING"
  <2>1. Rejects(m, c)
    BY <1>1, <1>4
  <2>2. m \in ran
    BY <2>1 DEF Fulfils, Rejects
  <2> QED
    BY <2>1, <2>2 DEF ToldOK
<1>5. ASSUME Combined(c)' = "PENDING", calls'[c].inputs # <<>> PROVE calls'[c].left >= 1
  <2> DEFINE l == calls[c].left
             k == calls'[c].left
  <2>1. l >= 1 /\ l # 1 /\ k = l - 1
    BY <1>5 DEF ToldOK
  <2>2. l \in Int
    BY DEF Call
  <2> HIDE DEF l, k
  <2>3. k >= 1
    BY <2>1, <2>2
  <2> QED
    BY <2>3 DEF k
<1> QED
  BY <1>2, <1>3, <1>4, <1>5 DEF ToldOK

LEMMA TRunAll ==
    ASSUME CInv, TInv, RunAll
    PROVE  TInv'
<1>1. /\ Running("fulfil") /\ Ran /\ ThisCall.kind = "all" /\ closures' = closures
      /\ calls' = [calls EXCEPT ![ThisClosure.c].results = @ \cup {ThisClosure.i},
                                ![ThisClosure.c].left = @ - 1]
      /\ IF ThisCall.left = 1 THEN SettleCombined("FULFILLED")
         ELSE stack' = Advanced /\ obj' = obj
  BY DEF RunAll
<1>2. PICK n, c, i :
         /\ Top.kind = "settle" /\ Top.step < 4 /\ n \in DOMAIN closures
         /\ closures[n].role = "fulfil" /\ closures[n].c = c /\ ThisCall = calls[c]
         /\ ThisClosure = closures[n] /\ i = closures[n].i /\ i \in Nat
         /\ c \in DOMAIN calls /\ calls[c] \in Call /\ calls[c].agg \in DOMAIN obj
         /\ MadeOK(n) /\ CountsOK(c) /\ SettledOK(c) /\ ToldOK(c)
         /\ ran' = ran \cup {n} /\ (n \in ran => n \in reran')
         /\ ran \subseteq ran' /\ reran \subseteq reran'
  BY <1>1, ThisFacts
<1>3. PICK agg : agg = calls[c].agg /\ agg \in DOMAIN obj
  BY <1>2
<1>4. /\ i \in DOMAIN calls[c].inputs /\ Fulfils(n, c) /\ calls[c].left \in Int
      /\ AggsOK /\ HeapOK(obj) /\ agg # 0 /\ LibraryOK /\ calls \in Seq(Call)
  <2>1. i \in DOMAIN calls[c].inputs /\ Fulfils(n, c)
    BY <1>2 DEF MadeOK, Fulfils
  <2>2. calls[c].left \in Int
    BY <1>2 DEF Call
  <2>3. AggsOK
    BY DEF TInv, HeapTells
  <2>4. HeapOK(obj) /\ agg # 0 /\ LibraryOK
    BY <1>3, Basics
  <2> QED
    BY <2>1, <2>2, <2>3, <2>4 DEF LibraryOK
<1> DEFINE r == [calls[c] EXCEPT !.results = @ \cup {i}, !.left = @ - 1]
<1>5. /\ r \in Call /\ r.kind = calls[c].kind /\ r.agg = calls[c].agg
      /\ r.inputs = calls[c].inputs /\ r.inner = calls[c].inner /\ r.threw = calls[c].threw
      /\ r.left = calls[c].left - 1 /\ r.results = calls[c].results \cup {i}
  <2>1. /\ calls[c].results \cup {i} \in SUBSET Nat /\ calls[c].left - 1 \in Int
    BY <1>2, <1>4 DEF Call
  <2> QED
    BY <1>2, <2>1 DEF Call
<1>6. calls' = [calls EXCEPT ![c] = r]
  BY <1>1, <1>2, <1>4 DEF Call
<1> HIDE DEF r
<1>7. CallsKept /\ DOMAIN calls' = DOMAIN calls
  BY <1>2, <1>4, <1>5, <1>6, CallChanged
<1>8. /\ calls'[c] = r
      /\ \A d \in DOMAIN calls : calls'[d].inner = calls[d].inner /\ (d # c => calls'[d] = calls[d])
  BY <1>2, <1>4, <1>5, <1>6
<1>9. CountsOK(c)'
  <2>1. /\ calls'[c].inputs = calls[c].inputs /\ calls'[c].kind = calls[c].kind
        /\ calls'[c].left = calls[c].left - 1
        /\ calls'[c].results = calls[c].results \cup {i}
    BY <1>5, <1>8
  <2> QED
    BY <1>1, <1>2, <1>4, <2>1, CountsTold
<1>10. calls'[c].left \in Int /\ calls'[c].left <= calls[c].left
       /\ (calls[c].left = 1 => calls'[c].left <= 0)
  BY <1>4, <1>5, <1>8
<1>11. \A x \in ran' : x \in ran \/ (x \in DOMAIN closures /\ closures[x].c = c)
  BY <1>2
<1>12. ASSUME HeapStep(0, Nothing), NEW o, Settling(o, "FULFILLED"),
              calls[c].left = 1 => Combined(c)' # "PENDING"
       PROVE  ToldOK(c)'
  <2>1. /\ calls'[c].inputs = calls[c].inputs /\ calls'[c].kind = calls[c].kind
        /\ calls'[c].left = calls[c].left - 1 /\ calls'[c].agg = calls[c].agg
        /\ calls'[c].results = calls[c].results \cup {i}
    BY <1>5, <1>8
  <2>2. Combined(c) # "PENDING" => Combined(c)' # "PENDING"
    BY <1>2, <1>4, <1>12, <2>1, CombinedStays
  <2>3. calls[c].kind = "all"
    BY <1>1, <1>2
  <2> QED
    BY <1>1, <1>2, <1>4, <1>12, <2>1, <2>2, <2>3, ResultsTold
<1>13. ASSUME HeapStep(0, Nothing), Settling(0, "FULFILLED"), NEW m, Went(m),
              calls[c].left = 1 => Combined(c)' # "PENDING"
       PROVE  TInv'
  <2>1. SettledOK(c)'
    BY <1>2, <1>3, <1>4, <1>5, <1>8, <1>10, <1>13, SettledKept
  <2>2. ToldOK(c)'
    BY <1>13, <1>12
  <2> QED
    BY <1>1, <1>2, <1>7, <1>8, <1>9, <1>13, <1>11, <2>1, <2>2, CallStep
<1>14. CASE ThisCall.left = 1
  <2>1. \/ /\ obj[agg].state = "PENDING"
           /\ obj' = [obj EXCEPT ![agg].state = "FULFILLED"]
           /\ stack' = Append(Advanced, Settle(agg, 0, FALSE))
        \/ obj[agg].state # "PENDING" /\ Raise(stack)
    BY <1>1, <1>2, <1>3, <1>14 DEF SettleCombined
  <2>2. /\ HeapStep(0, Nothing) /\ \E m : Went(m)
        /\ Settling(agg, "FULFILLED")
           \/ (Settling(0, "FULFILLED") /\ obj[agg].state # "PENDING")
    BY <1>2, <1>3, <2>1, SettlementGoes
  <2>3. Combined(c)' # "PENDING"
    <3>1. obj'[agg].state # "PENDING" /\ calls'[c].agg = agg
      BY <1>3, <1>5, <1>8, <2>2 DEF Settling
    <3> QED
      BY <3>1 DEF Combined
  <2>4. CASE Settling(agg, "FULFILLED")
    <3>1. obj'[agg].state = "FULFILLED"
      BY <1>3, <2>4 DEF Settling
    <3>2. calls'[c].kind = "all" /\ calls'[c].agg = agg /\ calls'[c].left <= 0
      BY <1>1, <1>2, <1>3, <1>5, <1>8, <1>10, <1>14
    <3>3. SettledOK(c)'
      BY <3>1, <3>2 DEF SettledOK, Combined, State
    <3>4. ToldOK(c)'
      BY <1>12, <2>2, <2>3, <2>4
    <3> QED
      BY <1>1, <1>2, <1>3, <1>7, <1>8, <1>9, <1>11, <2>2, <2>4, <3>3, <3>4, CallStep
  <2>5. CASE Settling(0, "FULFILLED")
    BY <1>13, <2>2, <2>3, <2>5
  <2> QED
    BY <2>2, <2>4, <2>5
<1>15. CASE ThisCall.left # 1
  <2>1. stack' = Advanced /\ obj' = obj
    BY <1>1, <1>15
  <2>2. HeapStep(0, Nothing) /\ Settling(0, "FULFILLED")
    <3>1. \A q \in DOMAIN obj : q # 0
      BY Basics
    <3> QED
      BY <1>4, <2>1, <3>1, HeapSame DEF Settling
  <2>3. Went(Len(stack))
    BY <1>2, <2>1, FromAdvanced, FromGoes
  <2>4. calls[c].left # 1
    BY <1>2, <1>15
  <2> QED
    BY <1>13, <2>2, <2>3, <2>4
<1> QED
  BY <1>14, <1>15

\* The executor threw, and its call says so.
LEMMA TCombineCaught ==
    ASSUME CInv, TInv, CombineCaught
    PROVE  TInv'
<1>1. /\ Top.kind = "combine" /\ closures' = closures /\ ran' = ran /\ reran' = reran
      /\ LET agg == calls[Top.c].agg IN
         \/ /\ obj[agg].state = "PENDING"
            /\ obj' = [obj EXCEPT ![agg].state = "REJECTED"]
            /\ stack' = Append(Below, Settle(agg, 0, FALSE))
         \/ obj[agg].state # "PENDING" /\ Raise(Below)
      /\ calls' = [calls EXCEPT ![Top.c].threw = TRUE]
  BY DEF CombineCaught, Combining, history
<1>2. PICK c : /\ c = Top.c /\ c \in DOMAIN calls /\ CallOK(c) /\ calls[c] \in Call
               /\ calls \in Seq(Call)
  BY <1>1, CombineFacts
<1>3. PICK n : n = calls[c].agg /\ n \in DOMAIN obj
  BY <1>2 DEF CallOK
<1>4. /\ \/ /\ obj[n].state = "PENDING"
            /\ obj' = [obj EXCEPT ![n].state = "REJECTED"]
            /\ stack' = Append(Below, Settle(n, 0, FALSE))
         \/ obj[n].state # "PENDING" /\ Raise(Below)
      /\ calls' = [calls EXCEPT ![c].threw = TRUE]
  BY <1>1, <1>2, <1>3
<1> DEFINE r == [calls[c] EXCEPT !.threw = TRUE]
<1>5. /\ r \in Call /\ r.kind = calls[c].kind /\ r.agg = calls[c].agg
      /\ r.inputs = calls[c].inputs /\ r.inner = calls[c].inner /\ r.threw
      /\ r.left = calls[c].left /\ r.results = calls[c].results /\ r.left \in Int
  BY <1>2 DEF Call
<1>6. calls' = [calls EXCEPT ![c] = r]
  BY <1>2, <1>4 DEF Call
<1> HIDE DEF r
<1>7. /\ HeapOK(obj) /\ StackOK(obj, stack) /\ LibraryOK /\ Len(stack) > 1
      /\ 0 \in 0 .. Len(obj) /\ \A q \in DOMAIN obj : q # 0
  BY <1>1, Basics, Deeper
<1>8. CallsKept /\ DOMAIN calls' = DOMAIN calls
  BY <1>2, <1>5, <1>6, <1>7, CallChanged
<1>9. /\ calls'[c] = r
      /\ \A d \in DOMAIN calls : calls'[d].inner = calls[d].inner /\ (d # c => calls'[d] = calls[d])
  BY <1>2, <1>5, <1>6
<1>10. CountsOK(c) /\ SettledOK(c) /\ AggsOK /\ 0 # n
  BY <1>2, <1>3, <1>7 DEF TInv, HeapTells
<1>11. CountsOK(c)'
  <2>1. FulfilsSame(c) /\ Extends(closures, closures')
    BY <1>1, <1>7, CallsSame DEF FulfilsSame, Fulfils
  <2> QED
    BY <1>1, <1>2, <1>5, <1>7, <1>9, <1>10, <2>1, CountsKept
<1>12. obj'[n].state # "PENDING" /\ calls'[c].agg = n
  <2>1. CASE /\ obj[n].state = "PENDING"
             /\ obj' = [obj EXCEPT ![n].state = "REJECTED"]
             /\ stack' = Append(Below, Settle(n, 0, FALSE))
    <3>1. PICK o : SettledAs(obj, n, o, "REJECTED") /\ ObjectChanged(obj, obj', n, o)
      BY <1>3, <1>7, <2>1, SettlesAs
    <3> QED
      BY <1>3, <1>5, <1>9, <3>1 DEF SettledAs, ObjectChanged
  <2>2. CASE obj[n].state # "PENDING" /\ Raise(Below)
    BY <1>3, <1>5, <1>9, <2>2 DEF Raise
  <2> QED
    BY <1>4, <2>1, <2>2
<1>13. Combined(c)' # "PENDING" /\ Over(c)'
  BY <1>12 DEF Combined, Over
<1>14. ToldOK(c)'
  <2>1. /\ Extends(closures, closures') /\ ToldOK(c)
        /\ ran' \subseteq DOMAIN closures /\ \A x \in ran' : x \in ran
    BY <1>1, <1>2, <1>7, CallsSame DEF TInv, LibraryOK
  <2> QED
    BY <1>2, <1>5, <1>7, <1>9, <1>13, <2>1, ToldKept
<1>15. \A x \in ran' : x \in ran \/ (x \in DOMAIN closures /\ closures[x].c = c)
  BY <1>1
<1>16. PICK m : /\ From(Below, m) /\ StackOK(obj, Below) /\ Len(stack) \in Nat
                /\ DOMAIN stack = 1 .. Len(stack)
  <2>1. \A d : Top.kind = "combine" /\ Top.c = d => Over(d)'
    BY <1>2, <1>13
  <2> QED
    BY <1>1, <1>7, <2>1, FromBelow
<1>17. CASE /\ obj[n].state = "PENDING"
            /\ obj' = [obj EXCEPT ![n].state = "REJECTED"]
            /\ stack' = Append(Below, Settle(n, 0, FALSE))
  <2>1. Settle(n, 0, FALSE) \in Frame /\ Settle(n, 0, FALSE).kind = "settle"
    BY <1>3, <1>7, SettleIsFrame
  <2>2. Went(m)
    BY <1>16, <1>17, <2>1, FromGoes
  <2>4. PICK o : SettledAs(obj, n, o, "REJECTED") /\ ObjectChanged(obj, obj', n, o)
    BY <1>3, <1>7, <1>17, SettlesAs
  <2>3. HeapStep(0, Nothing)
    <3>1. Calm(Below, Len(stack) - 1) /\ Below[Len(stack) - 1] = stack[Len(stack) - 1]
          /\ ~Catching(stack[Len(stack) - 1])
      BY <1>1, <1>7, CalmBelow, NotCatching
    <3> QED
      BY <1>3, <1>7, <1>16, <1>17, <2>4, <3>1, SettleCalm
  <2>5. Settling(n, "REJECTED") /\ obj'[n].state = "REJECTED"
    BY <1>3, <1>17, <2>4 DEF Settling, SettledAs, ObjectChanged
  <2>6. SettledOK(c)'
    BY <1>3, <1>5, <1>9, <2>5 DEF SettledOK, Combined, State
  <2> QED
    BY <1>1, <1>2, <1>3, <1>8, <1>9, <1>11, <1>14, <1>15, <2>2, <2>3, <2>5, <2>6, CallStep
<1>18. CASE Raise(Below)
  <2>1. obj' = obj /\ \E j : Went(j)
    BY <1>16, <1>18, WentRaise DEF Raise, From
  <2>2. HeapStep(0, Nothing) /\ Settling(0, "REJECTED")
    BY <1>7, <2>1, HeapSame DEF Settling
  <2>3. SettledOK(c)'
    BY <1>2, <1>3, <1>5, <1>9, <1>10, <2>2, SettledKept
  <2> QED
    BY <1>1, <1>2, <1>8, <1>9, <1>11, <1>14, <1>15, <2>1, <2>2, <2>3, CallStep
<1> QED
  BY <1>4, <1>17, <1>18

LEMMA TCallCombinator ==
    ASSUME CInv, TInv, NEW kind \in {"all", "race"}, NEW n \in 0 .. 2,
           NEW inputs \in [1 .. n -> Own], CallCombinator(kind, inputs)
    PROVE  TInv'
<1> DEFINE f == [kind |-> "combine", c |-> Len(calls) + 1, i |-> 1, at |-> "then", got |-> 0]
           k == [kind |-> kind, agg |-> Len(obj) + 1, inputs |-> inputs,
                 left |-> Len(inputs), results |-> {}, inner |-> <<>>, threw |-> FALSE]
           m == Len(stack)
<1>0. PICK d : d = Len(calls) + 1
  OBVIOUS
<1>1. /\ HeapOK(obj) /\ StackOK(obj, stack) /\ LibraryOK /\ m \in Nat
      /\ Len(obj) \in Nat /\ DOMAIN obj = 1 .. Len(obj) /\ 0 \notin DOMAIN obj
      /\ stack \in Seq(Frame) /\ DOMAIN stack = 1 .. m
      /\ FramesOK(stack, Len(calls), Len(gens))
  BY Basics, StackFacts DEF CInv
<1>2. /\ Top.kind \in {"user", "generator"} /\ Len(obj) < MaxPromises
      /\ obj' = Append(obj, Fresh) /\ calls' = Append(calls, k)
      /\ stack' = Append(stack, f)
      /\ closures' = closures /\ ran' = ran /\ reran' = reran
  BY DEF CallCombinator, Acts, InUserCode, CanCreate, history
<1>3. Len(obj) + 1 \in Value /\ 0 \in Value /\ Own \subseteq Value
  BY <1>2, FreshAdded
<1>4. PromiseAdded(obj, obj')
  BY <1>2, FreshAdded
<1>5. /\ calls \in Seq(Call) /\ Len(calls) \in Nat /\ d \in Nat
      /\ DOMAIN calls = 1 .. Len(calls) /\ d \notin DOMAIN calls
      /\ inputs \in Seq(Value) /\ Len(inputs) \in Int
  <2>1. calls \in Seq(Call) /\ Len(calls) \in Nat
    BY <1>1 DEF LibraryOK
  <2>2. n \in Nat
    OBVIOUS
  <2>3. inputs \in Seq(Value)
    BY <1>3, <2>2
  <2> QED
    BY <1>0, <2>1, <2>3
<1>6. /\ k \in Call /\ k.agg = Len(obj) + 1 /\ k.inputs = inputs /\ k.inner = <<>>
      /\ k.results = {} /\ k.left = Len(inputs)
  <2>1. {} \in SUBSET Nat /\ <<>> \in Seq(Value)
    OBVIOUS
  <2> QED
    BY <1>3, <1>5, <2>1 DEF Call
<1>7. /\ f \in Frame /\ f.kind = "combine" /\ f.c = d /\ f.i = 1 /\ f.at = "then"
  <2>1. f \in CombineFrame
    BY <1>0, <1>3, <1>5 DEF CombineFrame
  <2> QED
    BY <1>0, <2>1 DEF Frame
<1>8. /\ DOMAIN calls' = 1 .. d /\ calls'[d] = k /\ Len(calls') = d
      /\ \A c \in DOMAIN calls : c \in DOMAIN calls' /\ calls'[c] = calls[c] /\ c # d
      /\ \A c \in DOMAIN calls' : c \in DOMAIN calls \/ c = d
  BY <1>0, <1>2, <1>5, <1>6
<1> HIDE DEF f, k
<1>9. /\ Len(obj) + 1 \in DOMAIN obj' /\ obj'[Len(obj) + 1] = Fresh
      /\ \A q \in DOMAIN obj : obj'[q] = obj[q]
  BY <1>1, <1>4, AddedFacts DEF PromiseAdded
<1>10. CallsOn(0) /\ InnersNew
  <2>1. CallsKept
    BY <1>0, <1>5, <1>8 DEF CallsKept, Grows
  <2>2. DOMAIN k.inner = {}
    BY <1>6
  <2> QED
    BY <1>0, <1>6, <1>8, <1>9, <2>1, <2>2 DEF CallsOn, InnersNew
<1>11. HeapMove(0, Nothing, 0, "REJECTED")
  <2>1. HeapStep(0, Nothing)
    BY <1>1, <1>4, HeapNew
  <2>2. GivenOK(Nothing, closures') /\ GivenTells(0, Nothing)
    BY GivenNothing DEF GivenTells, Nothing
  <2>3. Settling(0, "REJECTED") /\ PassedOn(0, "REJECTED")
    BY <1>1, <1>9 DEF Settling, PassedOn, Chained
  <2>4. Extends(closures, closures')
    BY <1>1, <1>2, CallsSame
  <2> QED
    BY <1>2, <1>10, <2>1, <2>2, <2>3, <2>4 DEF HeapMove
<1>12. HeapTells' /\ \A x, y : Follows(x, y) => Follows(x, y)'
  BY <1>11, HeapTellsNext DEF TInv
<1>13. \A c : FulfilsSame(c)
  BY <1>2 DEF FulfilsSame, Fulfils
<1>14. \A x : ~Fulfils(x, d)' /\ ~Rejects(x, d)'
  BY <1>1, <1>2, <1>5 DEF Fulfils, Rejects, LibraryOK, ClosureOK
<1>15. /\ Goes(stack', m) /\ Len(stack') = m + 1 /\ stack'[m + 1] = f
       /\ \A j \in 1 .. m : stack'[j] = stack[j]
       /\ DOMAIN stack' = 1 .. m + 1
       /\ \A j \in 1 .. m + 1 : j \in 1 .. m \/ j = m + 1
  <2>1. Rest(stack, m)
    BY <1>1, RestStack
  <2>2. Goes(stack', m) /\ Len(stack') = m + 1 /\ stack'[m + 1] = f
    BY <1>1, <1>2, <1>7, <2>1, GoesPush
  <2>3. \A j \in 1 .. m : stack'[j] = stack[j]
    BY <1>1, <1>2, <1>7
  <2> HIDE DEF m
  <2> QED
    BY <1>1, <2>2, <2>3, GoesFacts
<1>16. \A j \in 1 .. m : stack[j].kind = "combine" => stack[j].c \in DOMAIN calls
  BY <1>1, <1>5 DEF FramesOK, InLibrary
<1>17. ExecutorsOK'
  <2> SUFFICES ASSUME NEW j \in DOMAIN stack'
               PROVE  /\ stack'[j].kind = "user" => stack'[j].exec = 0
                      /\ stack'[j].kind = "combine" => CombineOK(j)'
    BY DEF ExecutorsOK
  <2>1. CASE j \in 1 .. m
    <3>1. stack'[j].kind = "user" => stack'[j].exec = 0
      BY <1>1, <1>15, <2>1 DEF TInv, ExecutorsOK
    <3>2. ASSUME stack'[j].kind = "combine" PROVE CombineOK(j)'
      <4>1. stack[j].kind = "combine" /\ j # m
        BY <1>2, <1>15, <2>1, <3>2 DEF Top
      <4>2. PICK c : c = stack[j].c /\ c \in DOMAIN calls
        BY <1>16, <2>1, <4>1
      <4>3. calls'[c].inputs = calls[c].inputs /\ calls'[c].inner = calls[c].inner
            /\ f.c # c
        BY <1>7, <1>8, <4>2
      <4>4. ExecutorsOK /\ Extends(closures, closures')
        BY <1>11 DEF TInv, HeapMove
      <4> HIDE DEF m
      <4> QED
        BY <1>12, <1>13, <1>15, <2>1, <4>1, <4>2, <4>3, <4>4, ExecutorBelow
    <3> QED
      BY <3>1, <3>2
  <2>2. CASE j = m + 1
    <3>1. \A h \in DOMAIN stack' : stack'[h].kind = "combine" /\ stack'[h].c = d => h = j
      BY <1>5, <1>8, <1>15, <1>16, <2>2
    <3>2. calls'[d].inner = <<>> /\ Len(calls'[d].inner) + 1 = 1
      BY <1>6, <1>8
    <3>3. stack'[j] = f
      BY <1>15, <2>2
    <3> HIDE DEF m
    <3> QED
      BY <1>7, <1>14, <3>1, <3>2, <3>3 DEF CombineOK
  <2> QED
    BY <1>15, <2>1, <2>2
<1>18. ASSUME NEW c \in DOMAIN calls PROVE CountsOK(c)' /\ SettledOK(c)' /\ ToldOK(c)' /\ AsksOK(c)'
  <2>1. calls'[c] = calls[c] /\ CountsOK(c) /\ SettledOK(c) /\ AggsOK /\ calls[c].agg # 0
    BY <1>1, <1>8 DEF TInv, HeapTells, AggsOK
  <2>2. HeapStep(0, Nothing) /\ Settling(0, "REJECTED") /\ Extends(closures, closures')
    BY <1>11 DEF HeapMove
  <2>3. calls'[c].left \in Int /\ calls'[c].left <= calls[c].left
    <3>1. calls[c] \in Call
      BY <1>5
    <3>2. calls[c].left \in Int
      BY <3>1 DEF Call
    <3> QED
      BY <2>1, <3>2
  <2>4. CountsOK(c)'
    BY <1>1, <1>2, <1>13, <2>1, <2>2, CountsKept
  <2>5. SettledOK(c)'
    BY <2>1, <2>2, <2>3, SettledKept
  <2>6. Combined(c) # "PENDING" => Combined(c)' # "PENDING"
    BY <2>1, <2>2, CombinedStays
  <2>7. ran' \subseteq DOMAIN closures /\ \A x \in ran' : x \in ran
    BY <1>1, <1>2 DEF LibraryOK
  <2>8. ToldOK(c) /\ AsksOK(c) /\ Gone(m)
    BY GoneTop DEF TInv
  <2>9. ToldOK(c)'
    BY <1>1, <2>1, <2>2, <2>6, <2>7, <2>8, ToldKept
  <2> HIDE DEF m
  <2>10. AsksOK(c)'
    BY <1>15, <2>1, <2>2, <2>6, <2>8, AsksKept
  <2> QED
    BY <2>4, <2>5, <2>9, <2>10
<1>19. CountsOK(d)'
  <2>1. /\ calls'[d].results = {} /\ calls'[d].left = Len(inputs) /\ calls'[d].inputs = inputs
    BY <1>6, <1>8
  <2>2. Len(inputs) + Cardinality({}) = Len(inputs)
    BY <1>5, FS_EmptySet
  <2> QED
    BY <1>14, <2>1, <2>2 DEF CountsOK
<1>20. SettledOK(d)'
  <2>1. obj'[calls'[d].agg].state = "PENDING"
    BY <1>6, <1>8, <1>9 DEF Fresh
  <2> QED
    BY <2>1 DEF SettledOK, Combined, State
<1>21. ToldOK(d)'
  <2>1. /\ calls'[d].results = {} /\ calls'[d].left = Len(inputs) /\ calls'[d].inputs = inputs
    BY <1>6, <1>8
  <2>2. PICK l : l = Len(inputs) /\ l \in Nat
    BY <1>5
  <2>3. l + Cardinality({}) <= l
    BY <2>2, FS_EmptySet
  <2>4. inputs # <<>> => l >= 1
    BY <1>5, <2>2
  <2> QED
    BY <1>14, <2>1, <2>2, <2>3, <2>4 DEF ToldOK
<1>22. AsksOK(d)'
  <2>1. HasExecutor(d)'
    <3>1. m + 1 \in 1 .. m + 1
      BY <1>1
    <3> QED
      BY <1>7, <1>15, <3>1 DEF HasExecutor
  <2>2. DOMAIN calls'[d].inner = {}
    BY <1>6, <1>8
  <2> QED
    BY <2>1, <2>2 DEF AsksOK
<1>23. ASSUME NEW c \in DOMAIN calls'
       PROVE  CountsOK(c)' /\ SettledOK(c)' /\ ToldOK(c)' /\ AsksOK(c)'
  <2>1. CASE c \in DOMAIN calls
    BY <1>18, <2>1
  <2>2. CASE c = d
    BY <1>19, <1>20, <1>21, <1>22, <2>2
  <2> QED
    BY <1>8, <2>1, <2>2
<1> QED
  BY <1>12, <1>17, <1>23 DEF TInv

-----------------------------------------------------------------------------
(* The executor calls then() and catch(). *)

\* The frames after the executor called then() of p, as f.
LEMMA SubscribeGoes ==
    ASSUME CInv, Top.kind = "combine", NEW f \in Frame, f.kind = "combine",
           f.c = Top.c, f.i # 0, NEW p \in DOMAIN obj, NEW given,
           CallThen(p, given, TopWith(f)), NEW m, m = Len(stack)
    PROVE  /\ Goes(stack', m) /\ DOMAIN stack' = 1 .. Len(stack')
           /\ /\ stack'[m].kind = "combine" /\ stack'[m].c = f.c /\ stack'[m].i = f.i
              /\ stack'[m].at = f.at
           /\ \/ Len(stack') = m /\ stack'[m].got = Len(obj) + 1
              \/ /\ Len(stack') = m + 1 /\ stack'[m + 1].kind = "settle"
                 /\ stack'[m + 1].p = p /\ stack'[m + 1].gives
<1> DEFINE s == TopWith(f)
<1>1. /\ HeapOK(obj) /\ StackOK(obj, stack) /\ stack \in Seq(Frame) /\ m \in Nat
      /\ m \in DOMAIN stack /\ s = [stack EXCEPT ![Len(stack)] = f]
  BY Basics, StackFacts DEF TopWith
<1>2. Similar(Top, f)
  BY DEF Similar
<1>3. CallThen(p, given, s)
  OBVIOUS
<1> HIDE DEF s
<1>4. Rest(s, m) /\ s[m] = f
  BY <1>1, <1>2, RestTop
<1>5. s \in Seq(Frame)
  BY <1>1
<1>6. CASE obj[p].state = "PENDING"
  <2>1. PICK v : v = Len(obj) + 1 /\ stack' = Returned(s, v)
    BY <1>3, <1>6 DEF CallThen
  <2>2. s[m].kind = "combine"
    BY <1>4
  <2>3. Rest(stack', m) /\ stack'[m] = [s[m] EXCEPT !.got = v]
    <3> DEFINE u == Returned(s, v)
    <3>1. Rest(s, m) /\ s \in Seq(Frame)
      BY <1>4, <1>5
    <3>2. /\ Rest(u, m)
          /\ s[m].kind \notin {"settle", "combine"} => u = s
          /\ s[m].kind = "settle" => u[m] = s[m] \/ u[m] = [s[m] EXCEPT !.value = v]
          /\ s[m].kind = "combine" => u[m] = [s[m] EXCEPT !.got = v]
      BY <3>1, GoesReturn
    <3> HIDE DEF u
    <3> QED
      BY <2>1, <2>2, <3>2 DEF u
  <2>4. f \in CombineFrame
    BY FrameFacts
  <2>5. /\ stack'[m].kind = "combine" /\ stack'[m].c = f.c /\ stack'[m].i = f.i
        /\ stack'[m].at = f.at /\ stack'[m].got = v
    BY <1>4, <2>3, <2>4 DEF CombineFrame
  <2> QED
    BY <2>1, <2>3, <2>5 DEF Rest, Goes
<1>7. CASE obj[p].state # "PENDING"
  <2> DEFINE g == Settle(p, obj[p].value, TRUE)
  <2>1. stack' = Append(s, g)
    BY <1>3, <1>7 DEF CallThen
  <2>2. g \in Frame /\ g.kind = "settle" /\ g.p = p /\ g.gives
    BY <1>1, HeapFacts, SettleIsFrame
  <2> HIDE DEF g
  <2>3. Goes(stack', m) /\ Len(stack') = m + 1 /\ stack'[m] = f /\ stack'[m + 1] = g
    BY <1>4, <1>5, <2>1, <2>2, GoesPush
  <2> QED
    BY <2>2, <2>3 DEF Goes
<1> QED
  BY <1>6, <1>7

\* The heap, and the closures.
LEMMA SubscribeTells ==
    ASSUME CInv, TInv, Top.kind = "combine", NEW f \in Frame, f.kind = "combine",
           f.c = Top.c, f.i # 0, NEW slot, NEW k \in Closure, k.p \in DOMAIN obj,
           \/ slot = "onFullfilled" /\ k.role = "fulfil"
           \/ slot = "onRejected" /\ k.role = "reject",
           Subscribe(slot, k, TopWith(f)), CallsOn(k.p), InnersNew,
           NEW n, n = Len(closures) + 1,
           closures'[n] = k => MadeOK(n)'
    PROVE  /\ HeapTells' /\ \A x, y : Follows(x, y) => Follows(x, y)'
           /\ Extends(closures, closures') /\ n \in DOMAIN closures' /\ closures'[n] = k
           /\ n \notin DOMAIN closures
           /\ \A x \in DOMAIN closures' : x \in DOMAIN closures \/ x = n
           /\ obj'[k.p].next = Len(obj) + 1
           /\ \E given : HeapStep(k.p, given)
           /\ Settling(0, "REJECTED")
<1>1. /\ HeapOK(obj) /\ StackOK(obj, stack) /\ LibraryOK /\ Len(stack) \in Nat
      /\ 0 \notin DOMAIN obj
  BY Basics
<1>2. PICK given : given = Give(slot, n)
  OBVIOUS
<1>3. closures' = Append(closures, k) /\ CallThen(k.p, given, TopWith(f))
  BY <1>2 DEF Subscribe, Give
<1>4. /\ Extends(closures, closures') /\ n \in DOMAIN closures' /\ closures'[n] = k
      /\ n \notin DOMAIN closures
      /\ n \in Nat /\ \A x \in DOMAIN closures' : x \in DOMAIN closures \/ x = n
  BY <1>1, <1>3, ClosureAdded
<1>5. slot \in Slots
  BY DEF Slots
<1>6. /\ DOMAIN given = {slot} /\ DOMAIN given \subseteq Slots
      /\ given[slot].kind = "library" /\ given[slot].n = n
      /\ \A x \in DOMAIN given : given[x] \in Fn
  BY <1>2, <1>4, <1>5, LibraryGiven
<1>7. PICK s : s = TopWith(f)
  OBVIOUS
<1>8. Calm(s, Len(stack))
  <2>1. f \in Frame /\ Similar(Top, f) /\ Top.kind # "drive"
    BY DEF Similar
  <2> QED
    BY <1>1, <1>7, <2>1, CalmTopWith
<1>9. HeapStep(k.p, given)
  BY <1>1, <1>3, <1>6, <1>7, <1>8, CallThenCalm
<1>10. Settling(0, "REJECTED")
  BY <1>1, <1>3, <1>6, ThenSettlesNone
<1>11. GivenOK(given, closures') /\ GivenTells(k.p, given)
  BY <1>4, <1>6 DEF GivenOK, GivenTells, FulfilSlot, RejectSlot, Slots
<1>12. PassedOn(0, "REJECTED")
  BY <1>1 DEF PassedOn, Chained
<1>13. \A x \in DOMAIN closures' :
          x \in DOMAIN closures \/ (closures'[x].p \in DOMAIN obj /\ MadeOK(x)')
  <2>1. MadeOK(n)'
    BY <1>4
  <2> QED
    BY <1>4, <2>1
<1>14. HeapMove(k.p, given, 0, "REJECTED")
  BY <1>4, <1>9, <1>10, <1>11, <1>12, <1>13 DEF HeapMove
<1>15. HeapTells' /\ \A x, y : Follows(x, y) => Follows(x, y)'
  BY <1>14, HeapTellsNext DEF TInv
<1>16. obj'[k.p].next = Len(obj) + 1
  BY <1>9 DEF HeapStep
<1> QED
  BY <1>4, <1>9, <1>10, <1>15, <1>16

\* Executors below, and what the calls count.
LEMMA SubscribeStep ==
    ASSUME CInv, TInv, Top.kind = "combine", NEW f \in Frame, f.kind = "combine",
           NEW c \in DOMAIN calls, c = Top.c, f.c = c, f.i # 0,
           NEW slot, NEW k \in Closure, k.p \in DOMAIN obj, k.c = c,
           \/ slot = "onFullfilled" /\ k.role = "fulfil"
           \/ slot = "onRejected" /\ k.role = "reject",
           Subscribe(slot, k, TopWith(f)), CallsOn(k.p), InnersNew,
           DOMAIN calls' = DOMAIN calls, ran' = ran, reran' = reran,
           \A d \in DOMAIN calls : d # c => calls'[d] = calls[d],
           calls'[c].left = calls[c].left, calls'[c].results = calls[c].results,
           calls'[c].threw = calls[c].threw,
           k.role = "fulfil" => \A x : Fulfils(x, c) => closures[x].i # k.i,
           NEW n, n = Len(closures) + 1, closures'[n] = k => MadeOK(n)',
           NEW m, m = Len(stack),
           CombineOK(m)',
           \A i \in DOMAIN calls'[c].inner : /\ \E x : Fulfils(x, c)' /\ closures'[x].i = i
                                             /\ \E x : Rejects(x, c)' /\ closures'[x].i = i
    PROVE  TInv'
<1>1. /\ LibraryOK /\ AggsOK /\ ExecutorsOK /\ m \in Nat /\ 0 \notin DOMAIN obj
      /\ DOMAIN stack = 1 .. m /\ m \in DOMAIN stack
      /\ FramesOK(stack, Len(calls), Len(gens)) /\ DOMAIN calls = 1 .. Len(calls)
      /\ stack[m] = Top
  BY Basics DEF TInv, HeapTells, CInv, LibraryOK, Top
<1>2. /\ HeapTells' /\ \A x, y : Follows(x, y) => Follows(x, y)'
      /\ Extends(closures, closures') /\ n \in DOMAIN closures' /\ closures'[n] = k
      /\ n \notin DOMAIN closures
      /\ \A x \in DOMAIN closures' : x \in DOMAIN closures \/ x = n
      /\ \E given : HeapStep(k.p, given)
      /\ Settling(0, "REJECTED")
  BY <1>1, SubscribeTells
<1>3. \A d \in DOMAIN calls : /\ calls'[d].inputs = calls[d].inputs
                              /\ calls'[d].kind = calls[d].kind /\ calls'[d].agg = calls[d].agg
  BY DEF CallsOn, CallsKept
<1>4. \A x, d : Fulfils(x, d)' => \/ Fulfils(x, d) /\ closures'[x].i = closures[x].i
                                  \/ x = n /\ d = c /\ k.role = "fulfil" /\ closures'[x].i = k.i
  BY <1>2 DEF Fulfils, Extends
<1>5. \A x, d : Fulfils(x, d) => Fulfils(x, d)' /\ closures'[x].i = closures[x].i
  BY <1>2 DEF Fulfils, Extends, Grows
<1>6. \A d : d # c => FulfilsSame(d)
  BY <1>4 DEF FulfilsSame
<1>7. CountsOK(c)'
  <2>1. CountsOK(c)
    BY DEF TInv
  <2>2. \A i \in calls'[c].results :
            i \in DOMAIN calls'[c].inputs /\ \E x \in ran' : Fulfils(x, c)' /\ closures'[x].i = i
    BY <1>3, <1>5, <2>1 DEF CountsOK
  <2>3. ASSUME NEW x, NEW y, Fulfils(x, c)', Fulfils(y, c)', closures'[x].i = closures'[y].i
        PROVE  x = y
    <3>1. /\ Fulfils(x, c) \/ (x = n /\ closures'[x].i = k.i /\ k.role = "fulfil")
          /\ Fulfils(y, c) \/ (y = n /\ closures'[y].i = k.i /\ k.role = "fulfil")
          /\ Fulfils(x, c) => closures'[x].i = closures[x].i
          /\ Fulfils(y, c) => closures'[y].i = closures[y].i
      BY <1>4, <1>5, <2>3
    <3>2. CASE Fulfils(x, c) /\ Fulfils(y, c)
      BY <2>1, <2>3, <3>1, <3>2 DEF CountsOK
    <3>3. CASE ~Fulfils(x, c) \/ ~Fulfils(y, c)
      BY <2>3, <3>1, <3>3
    <3> QED
      BY <3>2, <3>3
  <2>4. Recounts(c) => Recounts(c)'
    BY <1>5 DEF Recounts
  <2> QED
    BY <1>3, <2>1, <2>2, <2>3, <2>4 DEF CountsOK
<1>8. ASSUME NEW d \in DOMAIN calls PROVE CountsOK(d)' /\ SettledOK(d)' /\ ToldOK(d)'
  <2>1. /\ CountsOK(d) /\ SettledOK(d) /\ ToldOK(d) /\ calls'[d].left = calls[d].left
        /\ calls'[d].results = calls[d].results /\ calls'[d].threw = calls[d].threw
    BY DEF TInv
  <2>2. CountsOK(d)'
    <3>1. CASE d = c
      BY <1>7, <3>1
    <3>2. CASE d # c
      BY <1>1, <1>2, <1>3, <1>6, <2>1, <3>2, CountsKept
    <3> QED
      BY <3>1, <3>2
  <2>3. calls[d].left \in Int /\ 0 # calls[d].agg
    <3>1. calls[d] \in Call
      BY <1>1 DEF LibraryOK
    <3> QED
      BY <1>1, <3>1 DEF Call, AggsOK
  <2>4. calls'[d].left \in Int /\ calls'[d].left <= calls[d].left
    BY <2>1, <2>3
  <2>5. SettledOK(d)'
    BY <1>1, <1>2, <1>3, <2>1, <2>3, <2>4, SettledKept
  <2>6. Combined(d) # "PENDING" => Combined(d)' # "PENDING"
    BY <1>1, <1>2, <1>3, CombinedStays
  <2>7. ran' \subseteq DOMAIN closures /\ \A x \in ran' : x \in ran
    BY <1>1 DEF LibraryOK
  <2>8. ToldOK(d)'
    BY <1>1, <1>2, <1>3, <2>1, <2>6, <2>7, ToldKept
  <2> QED
    BY <2>2, <2>5, <2>8
<1>9. PICK given : CallThen(k.p, given, TopWith(f))
  BY DEF Subscribe
<1>10. /\ Goes(stack', m) /\ DOMAIN stack' = 1 .. Len(stack')
       /\ stack'[m].kind = "combine" /\ stack'[m].c = c /\ m \in DOMAIN stack'
       /\ Len(stack') = m \/ Len(stack') = m + 1
       /\ Len(stack') = m + 1 => stack'[m + 1].kind = "settle"
  <2>1. PICK p \in DOMAIN obj : p = k.p
    OBVIOUS
  <2>2. CallThen(p, given, TopWith(f)) /\ f.c = Top.c
    BY <1>9, <2>1
  <2>3. m # m + 1
    BY <1>1
  <2>4. Goes(stack', m)
    BY <2>2, SubscribeGoes
  <2>5. m \in 1 .. m
    BY <1>1, GoesFacts, <2>4
  <2>6. m \in DOMAIN stack'
    BY <1>1, <2>4, <2>5, GoesFacts
  <2> QED
    BY <2>2, <2>3, <2>6, SubscribeGoes
<1>11. ASSUME NEW d \in DOMAIN calls PROVE AsksOK(d)'
  <2>1. CASE d = c
    <3>1. HasExecutor(c)'
      BY <1>10 DEF HasExecutor
    <3> QED
      BY <2>1, <3>1 DEF AsksOK
  <2>2. CASE d # c
    <3>1. calls'[d] = calls[d] /\ AsksOK(d)
      BY <2>2 DEF TInv
    <3>2. Combined(d) # "PENDING" => Combined(d)' # "PENDING"
      BY <1>1, <1>2, <1>3, CombinedStays
    <3>3. Gone(m)
      BY GoneTop
    <3> QED
      BY <1>2, <1>10, <3>1, <3>2, <3>3, AsksKept
  <2> QED
    BY <2>1, <2>2
<1>12. ExecutorsOK'
  <2> SUFFICES ASSUME NEW j \in DOMAIN stack'
               PROVE  /\ stack'[j].kind = "user" => stack'[j].exec = 0
                      /\ stack'[j].kind = "combine" => CombineOK(j)'
    BY DEF ExecutorsOK
  <2>1. j \in 1 .. m \/ (j = m + 1 /\ Len(stack') = m + 1)
    <3>1. PICK l : l = Len(stack') /\ (l = m \/ l = m + 1) /\ j \in 1 .. l
      BY <1>10
    <3>2. \A x \in 1 .. m + 1 : x \in 1 .. m \/ x = m + 1
      BY <1>1
    <3> QED
      BY <3>1, <3>2
  <2>2. CASE j = m
    BY <1>10, <2>2
  <2>3. CASE j \in 1 .. m /\ j # m
    <3>1. stack'[j] = stack[j] /\ j \in DOMAIN stack
      BY <1>1, <1>10, <2>3 DEF Goes
    <3>2. ASSUME stack[j].kind = "combine" PROVE CombineOK(j)'
      <4>1. PICK d : d = stack[j].c /\ d \in DOMAIN calls
        BY <1>1, <3>1, <3>2 DEF FramesOK, InLibrary
      <4>2. d # c
        <5>1. CombineOK(j)
          BY <1>1, <3>1, <3>2 DEF ExecutorsOK
        <5>2. \A h \in DOMAIN stack : stack[h].kind = "combine" /\ stack[h].c = d => h = j
          BY <4>1, <5>1 DEF CombineOK
        <5> QED
          BY <1>1, <2>3, <5>2
      <4>3. calls'[d].inputs = calls[d].inputs /\ calls'[d].inner = calls[d].inner
            /\ FulfilsSame(d)
        BY <1>6, <4>1, <4>2
      <4>4. Len(stack') = m + 1 => stack'[m + 1].kind # "combine"
        BY <1>10
      <4> QED
        BY <1>1, <1>2, <1>10, <2>3, <3>2, <4>1, <4>3, <4>4, ExecutorBelow
    <3> QED
      BY <1>1, <3>1, <3>2 DEF ExecutorsOK
  <2>4. CASE j = m + 1 /\ Len(stack') = m + 1
    BY <1>10, <2>4
  <2> QED
    BY <2>1, <2>2, <2>3, <2>4
<1> QED
  BY <1>2, <1>8, <1>12, <1>11 DEF TInv

\* The executor is the only one of its call.
LEMMA SubscribeAlone ==
    ASSUME CInv, TInv, Top.kind = "combine", NEW m, m = Len(stack), NEW c, c = Top.c,
           Goes(stack', m), Len(stack') = m + 1 => stack'[m + 1].kind = "settle"
    PROVE  \A h \in DOMAIN stack' : stack'[h].kind = "combine" /\ stack'[h].c = c => h = m
<1>1. /\ m \in Nat /\ DOMAIN stack = 1 .. m /\ m \in DOMAIN stack /\ stack[m] = Top
      /\ \A x \in 1 .. m + 1 : x \in 1 .. m \/ x = m + 1
  BY Basics DEF Top
<1>2. /\ \A h \in DOMAIN stack : stack[h].kind = "combine" /\ stack[h].c = c => h = m
  BY <1>1 DEF TInv, ExecutorsOK, CombineOK
<1> SUFFICES ASSUME NEW h \in DOMAIN stack', stack'[h].kind = "combine", stack'[h].c = c,
                    h # m
             PROVE  FALSE
  OBVIOUS
<1>3. PICK l : l = Len(stack') /\ (l = m \/ l = m + 1) /\ h \in 1 .. l
  BY DEF Goes
<1>4. h \in 1 .. m \/ (h = m + 1 /\ l = m + 1)
  BY <1>1, <1>3
<1>5. CASE h \in 1 .. m
  <2>1. stack'[h] = stack[h]
    BY <1>5 DEF Goes
  <2> QED
    BY <1>1, <1>2, <1>5, <2>1
<1>6. CASE h = m + 1 /\ l = m + 1
  BY <1>3, <1>6
<1> QED
  BY <1>4, <1>5, <1>6

LEMMA NextFollows ==
    ASSUME NextsOK', NEW q \in DOMAIN obj', NEW y, y = obj'[q].next, y # 0
    PROVE  Follows(q, y)'
BY DEF NextsOK, Follows

LEMMA InnersAsked ==
    ASSUME Extends(closures, closures'), NEW c, AsksOK(c), NEW i \in DOMAIN calls[c].inner
    PROVE  /\ \E x : Fulfils(x, c)' /\ closures'[x].i = i
           /\ \E x : Rejects(x, c)' /\ closures'[x].i = i
<1>1. PICK x, y : Fulfils(x, c) /\ closures[x].i = i /\ Rejects(y, c) /\ closures[y].i = i
  BY DEF AsksOK
<1>2. /\ Fulfils(x, c)' /\ closures'[x].i = i
      /\ Rejects(y, c)' /\ closures'[y].i = i
  BY <1>1, FulfilsOn
<1> QED
  BY <1>2

LEMMA TCombineThen ==
    ASSUME CInv, TInv, CombineThen
    PROVE  TInv'
<1> DEFINE f == [Top EXCEPT !.at = "catch"]
           k == [role |-> "fulfil", c |-> Top.c, i |-> Top.i, p |-> Inputs[Top.i]]
<1>1. /\ Top.kind = "combine" /\ Top.at = "then" /\ Top.i <= Len(Inputs)
      /\ Subscribe("onFullfilled", k, TopWith(f))
      /\ calls' = calls /\ ran' = ran /\ reran' = reran
  BY DEF CombineThen, Combining, history
<1>2. /\ Top.c \in DOMAIN calls /\ Top.c \in Nat /\ Top.i \in Nat /\ Top.i > 0
      /\ CallOK(Top.c) /\ calls[Top.c] \in Call
      /\ Top \in CombineFrame /\ calls \in Seq(Call)
  BY <1>1, CombineFacts
<1>3. PICK c, i, m, n :
         /\ c \in DOMAIN calls /\ i \in Nat
         /\ c = Top.c /\ i = Top.i /\ m = Len(stack) /\ n = Len(closures) + 1
  BY <1>2
<1>4. PICK p : p = calls[c].inputs[i]
  OBVIOUS
<1>5. /\ f \in CombineFrame /\ f \in Frame /\ f.kind = "combine" /\ f.c = c
      /\ f.i = i /\ f.at = "catch" /\ f.i # 0
  BY <1>2, <1>3 DEF CombineFrame, Frame
<1>6. /\ i \in DOMAIN calls[c].inputs /\ p \in DOMAIN obj /\ p \in Value /\ Inputs[Top.i] = p
  <2>1. calls[c].inputs \in Seq(Value) /\ Inputs = calls[c].inputs
    BY <1>2, <1>3 DEF Inputs, Call
  <2>2. i \in DOMAIN calls[c].inputs
    BY <1>1, <1>2, <1>3, <2>1
  <2> QED
    BY <1>2, <1>3, <1>4, <2>1, <2>2, Basics DEF CallOK
<1>7. /\ k \in Closure /\ k.role = "fulfil" /\ k.c = c /\ k.i = i /\ k.p = p
  BY <1>2, <1>3, <1>6 DEF Closure
<1> HIDE DEF f, k
<1>8. /\ LibraryOK /\ m \in Nat /\ m \in DOMAIN stack /\ stack[m] = Top
      /\ Len(obj) \in Nat /\ DOMAIN obj = 1 .. Len(obj)
  BY <1>3, Basics DEF Top
<1>9. /\ \A x : Fulfils(x, c) => closures[x].i < i
      /\ i = Len(calls[c].inner) + 1
  BY <1>1, <1>3, <1>8 DEF TInv, ExecutorsOK, CombineOK
<1>10. \A x : Fulfils(x, c) => closures[x].i \in Int /\ closures[x].i # i
  <2>1. \A x \in DOMAIN closures : closures[x] \in Closure
    BY <1>8 DEF LibraryOK
  <2>2. \A x : Fulfils(x, c) => closures[x].i \in Nat
    BY <2>1 DEF Fulfils, Closure
  <2> QED
    BY <1>9, <2>2
<1>11. CallsOn(p) /\ InnersNew
  BY <1>1, <1>8, CallsSame DEF CallsOn, InnersNew
<1>12. closures'[n] = k => MadeOK(n)'
  BY <1>1, <1>4, <1>6, <1>7 DEF MadeOK
<1>13. /\ HeapTells' /\ Extends(closures, closures') /\ closures'[n] = k
       /\ \A x \in DOMAIN closures' : x \in DOMAIN closures \/ x = n
       /\ n \in DOMAIN closures'
       /\ obj'[p].next = Len(obj) + 1
       /\ \E given : HeapStep(p, given)
  BY <1>1, <1>3, <1>5, <1>6, <1>7, <1>11, <1>12, SubscribeTells
<1>14. /\ Goes(stack', m)
       /\ stack'[m].kind = "combine" /\ stack'[m].c = c /\ stack'[m].i = i
       /\ stack'[m].at = "catch"
       /\ \/ Len(stack') = m /\ stack'[m].got = Len(obj) + 1
          \/ /\ Len(stack') = m + 1 /\ stack'[m + 1].kind = "settle"
             /\ stack'[m + 1].p = p /\ stack'[m + 1].gives
  <2>1. PICK given : CallThen(p, given, TopWith(f))
    BY <1>1, <1>7 DEF Subscribe
  <2> QED
    BY <1>1, <1>3, <1>5, <1>6, <2>1, SubscribeGoes
<1>15. m # m + 1
  BY <1>8
<1>16. \A h \in DOMAIN stack' : stack'[h].kind = "combine" /\ stack'[h].c = c => h = m
  BY <1>1, <1>3, <1>14, <1>15, SubscribeAlone
<1>17. \A x : Fulfils(x, c)' => closures'[x].i <= i
  <2> SUFFICES ASSUME NEW x, Fulfils(x, c)' PROVE closures'[x].i <= i
    OBVIOUS
  <2>1. CASE x = n
    BY <1>3, <1>7, <1>13, <2>1
  <2>2. CASE x # n
    <3>1. Fulfils(x, c) /\ closures'[x] = closures[x]
      BY <1>13, <2>2 DEF Fulfils, Extends
    <3> QED
      BY <1>9, <1>10, <3>1
  <2> QED
    BY <2>1, <2>2
<1>18. ASSUME Len(stack') = m, NEW y, y = stack'[m].got
       PROVE  Follows(p, y)'
  <2>1. y = Len(obj) + 1 /\ y # 0
    BY <1>8, <1>14, <1>15, <1>18
  <2>2. p \in DOMAIN obj' /\ NextsOK'
    BY <1>6, <1>13 DEF HeapStep, HeapTells
  <2> QED
    BY <1>13, <2>1, <2>2, NextFollows
<1>19. Fulfils(n, c)' /\ closures'[n].i = i
  BY <1>7, <1>13 DEF Fulfils
<1>20. CombineOK(m)'
  BY <1>1, <1>4, <1>6, <1>9, <1>14, <1>15, <1>16, <1>17, <1>18, <1>19 DEF CombineOK
<1>21. \A j \in DOMAIN calls'[c].inner : /\ \E x : Fulfils(x, c)' /\ closures'[x].i = j
                                         /\ \E x : Rejects(x, c)' /\ closures'[x].i = j
  BY <1>1, <1>3, <1>13, InnersAsked DEF TInv
<1> QED
  BY <1>1, <1>3, <1>5, <1>6, <1>7, <1>10, <1>11, <1>12, <1>20, <1>21, SubscribeStep

LEMMA TCombineCatch ==
    ASSUME CInv, TInv, CombineCatch
    PROVE  TInv'
<1> DEFINE f == [Top EXCEPT !.at = "then", !.i = @ + 1]
           k == [role |-> "reject", c |-> Top.c, i |-> Top.i, p |-> Top.got]
<1>1. /\ Top.kind = "combine" /\ Top.at = "catch"
      /\ Subscribe("onRejected", k, TopWith(f)) /\ ran' = ran /\ reran' = reran
      /\ calls' = [calls EXCEPT ![Top.c].inner = Append(@, Top.got)]
  BY DEF CombineCatch, Combining, history
<1>2. /\ Top.c \in DOMAIN calls /\ Top.c \in Nat /\ Top.i \in Nat /\ Top.i > 0
      /\ CallOK(Top.c) /\ calls[Top.c] \in Call
      /\ Top \in CombineFrame /\ calls \in Seq(Call)
  BY <1>1, CombineFacts
<1>3. PICK c, i, m, n, p :
         /\ c \in DOMAIN calls /\ i \in Nat
         /\ c = Top.c /\ i = Top.i /\ m = Len(stack) /\ n = Len(closures) + 1
         /\ p = Top.got
  BY <1>2
<1>4. /\ LibraryOK /\ m \in Nat /\ m \in DOMAIN stack /\ stack[m] = Top
  BY <1>3, Basics DEF Top
<1>5. /\ \A x : Fulfils(x, c) => closures[x].i <= i
      /\ i = Len(calls[c].inner) + 1 /\ i \in DOMAIN calls[c].inputs
      /\ Follows(calls[c].inputs[i], p) /\ \E x : Fulfils(x, c) /\ closures[x].i = i
  BY <1>1, <1>3, <1>4 DEF TInv, ExecutorsOK, CombineOK
<1>6. p \in DOMAIN obj /\ p \in Value
  <2>1. p \in DOMAIN obj
    BY <1>5 DEF Follows, Chained
  <2> QED
    BY <2>1, Basics, BoundsAssumption DEF Value
<1>7. /\ f \in CombineFrame /\ f \in Frame /\ f.kind = "combine" /\ f.c = c
      /\ f.i = i + 1 /\ f.at = "then" /\ f.i # 0
  <2>1. i + 1 \in Nat /\ i + 1 # 0
    BY <1>3
  <2>2. f = [Top EXCEPT !.at = "then", !.i = i + 1]
    BY <1>2, <1>3 DEF CombineFrame
  <2> HIDE DEF f
  <2> QED
    BY <1>2, <1>3, <2>1, <2>2 DEF CombineFrame, Frame
<1>8. /\ k \in Closure /\ k.role = "reject" /\ k.c = c /\ k.i = i /\ k.p = p
  BY <1>2, <1>3, <1>6 DEF Closure
<1> HIDE DEF f, k
<1> DEFINE r == [calls[c] EXCEPT !.inner = Append(@, p)]
<1>9. /\ r \in Call /\ r.kind = calls[c].kind /\ r.agg = calls[c].agg
      /\ r.inputs = calls[c].inputs /\ r.left = calls[c].left /\ r.results = calls[c].results
      /\ r.threw = calls[c].threw
      /\ DOMAIN r.inner = 1 .. i /\ Len(r.inner) = i /\ r.inner[i] = p
      /\ \A j \in DOMAIN calls[c].inner : j \in DOMAIN r.inner /\ r.inner[j] = calls[c].inner[j]
      /\ \A j \in DOMAIN r.inner : j \in DOMAIN calls[c].inner \/ j = i
  <2>1. calls[c].inner \in Seq(Value)
    BY <1>2, <1>3 DEF Call
  <2>2. PICK s : s = calls[c].inner /\ s \in Seq(Value) /\ i = Len(s) + 1
    BY <1>5, <2>1
  <2>3. /\ Append(s, p) \in Seq(Value) /\ Len(Append(s, p)) = i /\ DOMAIN Append(s, p) = 1 .. i
        /\ Append(s, p)[i] = p
        /\ \A j \in DOMAIN s : j \in DOMAIN Append(s, p) /\ Append(s, p)[j] = s[j]
        /\ \A j \in DOMAIN Append(s, p) : j \in DOMAIN s \/ j = i
    BY <1>6, <2>2
  <2>4. r = [calls[c] EXCEPT !.inner = Append(s, p)]
    BY <1>2, <1>3, <2>2 DEF Call
  <2> HIDE DEF r
  <2> QED
    BY <1>2, <1>3, <2>2, <2>3, <2>4 DEF Call
<1>10. calls' = [calls EXCEPT ![c] = r]
  BY <1>1, <1>2, <1>3 DEF Call
<1> HIDE DEF r
<1>11. CallsKept /\ DOMAIN calls' = DOMAIN calls
  BY <1>3, <1>4, <1>9, <1>10, CallChanged
<1>12. calls'[c] = r /\ \A d \in DOMAIN calls : d # c => calls'[d] = calls[d]
  BY <1>2, <1>3, <1>10
<1>13. CallsOn(p)
  BY <1>9, <1>11, <1>12 DEF CallsOn
<1>14. InnersNew
  BY <1>5, <1>9, <1>11, <1>12 DEF InnersNew
<1>15. i \in DOMAIN r.inner
  <2>1. i \in 1 .. i
    BY <1>5, <1>2, <1>3
  <2> QED
    BY <1>9, <2>1
<1>16. closures'[n] = k => MadeOK(n)'
  BY <1>8, <1>9, <1>12, <1>15 DEF MadeOK
<1>17. /\ HeapTells' /\ Extends(closures, closures') /\ closures'[n] = k
       /\ \A x \in DOMAIN closures' : x \in DOMAIN closures \/ x = n
       /\ n \in DOMAIN closures'
  BY <1>1, <1>3, <1>6, <1>7, <1>8, <1>13, <1>14, <1>16, SubscribeTells
<1>18. /\ Goes(stack', m)
       /\ stack'[m].kind = "combine" /\ stack'[m].c = c /\ stack'[m].i = i + 1
       /\ stack'[m].at = "then"
       /\ Len(stack') = m + 1 => stack'[m + 1].kind = "settle"
  <2>1. PICK given : CallThen(p, given, TopWith(f))
    BY <1>1, <1>8 DEF Subscribe
  <2>2. m # m + 1
    BY <1>4
  <2> QED
    BY <1>1, <1>3, <1>6, <1>7, <2>1, <2>2, SubscribeGoes
<1>19. \A h \in DOMAIN stack' : stack'[h].kind = "combine" /\ stack'[h].c = c => h = m
  BY <1>1, <1>3, <1>18, SubscribeAlone
<1>20. \A x : Fulfils(x, c)' => closures'[x].i < i + 1
  <2> SUFFICES ASSUME NEW x, Fulfils(x, c)' PROVE closures'[x].i < i + 1
    OBVIOUS
  <2>1. x # n
    BY <1>8, <1>17 DEF Fulfils
  <2>2. Fulfils(x, c) /\ closures'[x] = closures[x]
    BY <1>17, <2>1 DEF Fulfils, Extends
  <2>3. closures[x].i \in Nat
    <3>1. closures[x] \in Closure
      BY <1>4, <2>2 DEF LibraryOK, Fulfils
    <3> QED
      BY <3>1 DEF Closure
  <2> QED
    BY <1>5, <2>2, <2>3
<1>21. CombineOK(m)'
  BY <1>9, <1>12, <1>18, <1>19, <1>20 DEF CombineOK
<1>22. ASSUME NEW j \in DOMAIN calls'[c].inner
       PROVE  /\ \E x : Fulfils(x, c)' /\ closures'[x].i = j
              /\ \E x : Rejects(x, c)' /\ closures'[x].i = j
  <2>1. CASE j \in DOMAIN calls[c].inner
    BY <1>3, <1>17, <2>1, InnersAsked DEF TInv
  <2>2. CASE j = i
    <3>1. PICK x : Fulfils(x, c) /\ closures[x].i = i
      BY <1>5
    <3>2. Fulfils(x, c)' /\ closures'[x].i = i
      BY <1>17, <3>1, FulfilsOn
    <3>3. Rejects(n, c)' /\ closures'[n].i = i
      BY <1>8, <1>17 DEF Rejects
    <3> QED
      BY <2>2, <3>2, <3>3
  <2> QED
    BY <1>9, <1>12, <2>1, <2>2
<1>23. /\ calls'[c].left = calls[c].left /\ calls'[c].results = calls[c].results
       /\ calls'[c].threw = calls[c].threw
       /\ k.role = "fulfil" => \A x : Fulfils(x, c) => closures[x].i # k.i
  BY <1>8, <1>9, <1>12
<1>24. /\ DOMAIN calls' = DOMAIN calls /\ CallsOn(k.p) /\ InnersNew /\ k.p \in DOMAIN obj
       /\ \A d \in DOMAIN calls : d # c => calls'[d] = calls[d]
  BY <1>6, <1>8, <1>11, <1>12, <1>13, <1>14
<1>25. /\ Subscribe("onRejected", k, TopWith(f)) /\ k.role = "reject" /\ k.c = c
       /\ Top.kind = "combine" /\ ran' = ran /\ reran' = reran
  BY <1>1, <1>8
<1>26. \A j \in DOMAIN calls'[c].inner : /\ \E x : Fulfils(x, c)' /\ closures'[x].i = j
                                         /\ \E x : Rejects(x, c)' /\ closures'[x].i = j
  BY <1>22
<1>27. /\ f \in Frame /\ f.kind = "combine" /\ f.c = c /\ f.i # 0 /\ k \in Closure
  BY <1>7, <1>8
<1>28. /\ c = Top.c /\ m = Len(stack) /\ n = Len(closures) + 1 /\ c \in DOMAIN calls
  BY <1>3
<1> QED
  BY <1>16, <1>21, <1>23, <1>24, <1>25, <1>26, <1>27, <1>28, SubscribeStep

-----------------------------------------------------------------------------
(* Every step. *)

LEMMA TInvNext ==
    ASSUME CInv, TInv, [CombinatorsNext]_allVars
    PROVE  TInv'
<1>1. CASE CombinatorsNext
  <2>1. ASSUME NEW p \in mine, NEW form \in Forms, UserThens(p, form) PROVE TInv'
    BY <2>1, TUserThens
  <2>2. ASSUME NEW kind \in {"all", "race"}, NEW n \in 0 .. 2,
               NEW inputs \in [1 .. n -> Own], CallCombinator(kind, inputs)
        PROVE  TInv'
    BY <2>2, TCallCombinator
  <2>3. CASE UserSettles \/ UserLeaves \/ CallAsync
    BY <2>3, TUserSettles, TUserLeaves, TCallAsync
  <2>4. CASE CombineThen \/ CombineCatch \/ CombineDone \/ CombineCaught
    BY <2>4, TCombineThen, TCombineCatch, TCombineDone, TCombineCaught
  <2>5. CASE RunAll \/ RunRace \/ RunReject \/ RunAwait
    BY <2>5, TRunAll, TRunRace, TRunReject, TRunAwait
  <2>6. CASE DriveSend \/ DriveLook \/ DriveAwait \/ DriveEnd
    BY <2>6, TDrives, TDriveAwait
  <2>7. CASE GeneratorEnds \/ \E v \in {0} \cup mine : Yield(v)
    BY <2>7, TGenerator
  <2>8. CASE SettleSteps \/ Finishes
    BY <2>8, TSettleSteps, TFinishes
  <2> QED
    BY <1>1, <2>1, <2>2, <2>3, <2>4, <2>5, <2>6, <2>7, <2>8 DEF CombinatorsNext
<1>2. CASE UNCHANGED allVars
  <2>1. /\ obj' = obj /\ stack' = stack /\ calls' = calls /\ closures' = closures
        /\ ran' = ran /\ reran' = reran
    BY <1>2 DEF allVars, vars, library, history
  <2>2. HeapTells'
    <3>1. AggsOK' /\ NextsOK'
      BY <2>1 DEF TInv, HeapTells, AggsOK, NextsOK, Follows, Chained, IsAgg, State
    <3>2. InnersOK' /\ HeldOK'
      BY <2>1 DEF TInv, HeapTells, InnersOK, HeldOK, Follows, Chained, IsAgg, State
    <3>3. \A n \in DOMAIN closures' : MadeOK(n)'
      BY <2>1 DEF TInv, HeapTells, MadeOK
    <3> QED
      BY <3>1, <3>2, <3>3 DEF HeapTells
  <2>3. ExecutorsOK'
    BY <2>1 DEF TInv, ExecutorsOK, CombineOK, Fulfils, Follows, Chained, IsAgg, State
  <2>4. \A c \in DOMAIN calls' : CountsOK(c)' /\ SettledOK(c)'
    BY <2>1 DEF TInv, CountsOK, SettledOK, Recounts, Fulfils, Combined, State
  <2>5. \A c \in DOMAIN calls' : ToldOK(c)' /\ AsksOK(c)'
    BY <2>1 DEF TInv, ToldOK, AsksOK, Over, HasExecutor, Fulfils, Rejects, Combined
  <2> QED
    BY <2>2, <2>3, <2>4, <2>5 DEF TInv
<1> QED
  BY <1>1, <1>2

LEMMA TInvInit ==
    ASSUME CombinatorsInit
    PROVE  TInv
<1>1. /\ obj = [p \in 1 .. Given |-> Fresh] /\ DOMAIN obj = 1 .. Given
      /\ stack = <<[kind |-> "user", exec |-> 0, void |-> FALSE]>>
      /\ calls = <<>> /\ closures = <<>>
  BY DEF CombinatorsInit
<1>2. DOMAIN calls = {} /\ DOMAIN closures = {} /\ DOMAIN stack = {1}
      /\ stack[1].kind = "user" /\ stack[1].exec = 0
  BY <1>1
<1>3. \A q \in DOMAIN obj : /\ obj[q].next = 0 /\ obj[q].onFullfilled.kind = "none"
                            /\ obj[q].onRejected.kind = "none"
  BY <1>1 DEF Fresh, NoFn
<1>4. HeapTells
  BY <1>2, <1>3 DEF HeapTells, AggsOK, NextsOK, InnersOK, HeldOK
<1>5. ExecutorsOK
  BY <1>2 DEF ExecutorsOK
<1> QED
  BY <1>2, <1>4, <1>5 DEF TInv

\* What the calls were told by the closures that ran, and which of them are
\* still to run, whatever PHP code does in between.
THEOREM CallsInvariance == CombinatorsSpec => []TInv
<1>1. CombinatorsInit => TInv
  BY TInvInit
<1>2. CInv /\ TInv /\ [CombinatorsNext]_allVars => TInv'
  BY TInvNext
<1> QED
  BY CombinatorsInvariance, <1>1, <1>2, PTL DEF CombinatorsSpec

\* When all() is fulfilled, as many closures told their results as there are
\* inputs, each of another input, unless one told twice.
LEMMA TellsTruth ==
    ASSUME CInv, TInv
    PROVE  CombinedIsTrue
<1> SUFFICES ASSUME NEW c \in DOMAIN calls, Combined(c) = "FULFILLED", calls[c].kind = "all",
                    ~Recounts(c)
             PROVE  calls[c].results = DOMAIN calls[c].inputs
  BY DEF CombinedIsTrue, TInv, SettledOK, Recounts, Fulfils
<1>1. CountsOK(c) /\ calls[c].left <= 0 /\ calls[c] \in Call
  BY Basics DEF TInv, SettledOK, LibraryOK
<1> DEFINE r == calls[c].results
           l == calls[c].left
           n == Len(calls[c].inputs)
<1>2. n \in Nat /\ DOMAIN calls[c].inputs = 1 .. n /\ l \in Int
  <2>1. calls[c].inputs \in Seq(Value) /\ calls[c].left \in Int
    BY <1>1 DEF Call
  <2> QED
    BY <2>1
<1>3. r \subseteq 1 .. n /\ l + Cardinality(r) = n
  BY <1>1, <1>2 DEF CountsOK
<1> HIDE DEF r, l, n
<1>4. IsFiniteSet(1 .. n) /\ Cardinality(1 .. n) = n
  BY <1>2, FS_Interval
<1>5. /\ IsFiniteSet(r) /\ Cardinality(r) <= n
      /\ Cardinality(r) = n => r = 1 .. n
  <2>1. r \in SUBSET (1 .. n)
    BY <1>3
  <2> QED
    BY <1>4, <2>1, FS_Subset
<1>6. Cardinality(r) = n
  <2>1. Cardinality(r) \in Nat /\ l <= 0
    BY <1>1, <1>5, FS_CardinalityType DEF l
  <2> QED
    BY <1>2, <1>3, <1>5, <2>1
<1> QED
  BY <1>2, <1>5, <1>6 DEF r, n

\* all() and race() tell the truth about their inputs, whatever PHP code does
\* with them: a promise of all() is fulfilled only when each input gave its
\* result or a closure of it ran twice, one of race() when an input is, and
\* both are rejected when an input is or the executor threw.
THEOREM CombinatorsTellTruth == CombinatorsSpec => []CombinedIsTrue
<1>1. CInv /\ TInv => CombinedIsTrue
  BY TellsTruth
<1> QED
  BY CombinatorsInvariance, CallsInvariance, <1>1, PTL

\* At rest no executor goes on and no settlement begins.
LEMMA AtRest ==
    ASSUME CInv, Idle
    PROVE  (\A c : ~HasExecutor(c)) /\ (\A q : ~Begins(stack, q))
<1>1. DOMAIN stack = 1 .. Len(stack) /\ stack[1].kind = "user" /\ Len(stack) = 1
  BY Basics DEF StackOK, Idle
<1>2. \A j \in DOMAIN stack : j = 1
  BY <1>1
<1> QED
  BY <1>1, <1>2 DEF HasExecutor, Begins

\* At rest an input of a pending call that has not given it its result is
\* silent: the closures the executor made for it are where a settlement finds
\* them, so one that has not run belongs to a promise that is not settled so.
LEMMA InputSilent ==
    ASSUME CInv, TInv, Idle, NEW c \in DOMAIN calls, Combined(c) = "PENDING",
           NEW i \in DOMAIN calls[c].inputs,
           \/ calls[c].kind = "race" \/ i \notin calls[c].results
           \/ State(calls[c].inputs[i]) = "REJECTED"
    PROVE  Silent(c, i)
<1> DEFINE p == calls[c].inputs[i]
           x == calls[c].inner[i]
<1>1. /\ ToldOK(c) /\ AsksOK(c) /\ HeapTells /\ calls[c] \in Call
      /\ \A n : Unrun(n) /\ Uncaught(n)
  BY Basics DEF TInv, CInv, LibraryOK
<1>2. (\A d : ~HasExecutor(d)) /\ (\A q : ~Begins(stack, q))
  BY AtRest
<1>3. Len(calls[c].inner) = Len(calls[c].inputs)
  BY <1>1, <1>2 DEF AsksOK, Over
<1>4. i \in DOMAIN calls[c].inner
  <2>1. calls[c].inner \in Seq(Value) /\ calls[c].inputs \in Seq(Value)
    BY <1>1 DEF Call
  <2> QED
    BY <1>3, <2>1
<1>5. Follows(p, x)
  BY <1>1, <1>4 DEF HeapTells, InnersOK
<1>6. obj[p].state \in {"PENDING", "FULFILLED", "REJECTED"}
  <2>1. p \in DOMAIN obj
    BY <1>5 DEF Follows
  <2> QED
    BY <2>1, Basics, HeapFacts DEF Object
<1>7. CASE State(p) = "FULFILLED"
  <2>1. PICK n : Fulfils(n, c) /\ closures[n].i = i
    BY <1>1, <1>4 DEF AsksOK
  <2>2. calls[c].kind \in {"all", "race"}
    BY <1>1 DEF Call
  <2>3. n \notin ran
    <3>1. calls[c].kind = "race" \/ i \notin calls[c].results
      BY <1>7
    <3> QED
      BY <1>1, <2>1, <2>2, <3>1 DEF ToldOK
  <2>4. NotReached(n)
    <3>1. NotReached(n) \/ Handing(obj, stack, n)
      BY <1>1, <2>1, <2>3 DEF Unrun, Fulfils
    <3> QED
      BY <1>2, <3>1 DEF Handing
  <2> QED
    BY <1>7, <2>1, <2>3, <2>4 DEF Silent, Fulfils
<1>8. CASE State(p) = "REJECTED"
  <2> SUFFICES ASSUME obj[p].next = x, x \notin cut
               PROVE  \E n \in dropped : closures[n].role = "reject" /\ closures[n].c = c
    BY <1>8 DEF Silent
  <2>1. PICK n : Rejects(n, c) /\ closures[n].i = i
    BY <1>1, <1>4 DEF AsksOK
  <2>2. n \notin ran
    BY <1>1, <2>1 DEF ToldOK
  <2>3. closures[n].p = x
    BY <1>1, <2>1 DEF HeapTells, MadeOK, Rejects
  <2>4. State(x) = "REJECTED"
    <3>1. ChainsSettle
      BY ChainsFromInv DEF CInv
    <3>2. p \in DOMAIN obj /\ x # 0
      BY <1>5, Basics DEF Follows, Chained
    <3> HIDE DEF p, x
    <3> QED
      BY <1>8, <3>1, <3>2 DEF ChainsSettle, State
  <2>5. Catchable(n)
    BY <1>1, <2>1, <2>2 DEF Uncaught, Rejects
  <2>6. ASSUME NEW q \in DOMAIN obj, IsClosure(obj[q].onRejected, n), obj[q].state # "REJECTED"
        PROVE  FALSE
    <3>1. q = closures[n].p
      BY <1>1, <2>6 DEF HeapTells, HeldOK, IsClosure
    <3> QED
      BY <2>3, <2>4, <2>6, <3>1 DEF State
  <2>7. n \in dropped
    BY <1>2, <2>5, <2>6 DEF Catchable
  <2> QED
    BY <2>1, <2>7 DEF Rejects
<1> QED
  BY <1>6, <1>7, <1>8 DEF Silent, State

\* At rest a pending call of all() has an input that gave it no result.
LEMMA ResultMissing ==
    ASSUME CInv, TInv, NEW c \in DOMAIN calls, Combined(c) = "PENDING",
           calls[c].kind = "all", calls[c].inputs # <<>>
    PROVE  \E i \in DOMAIN calls[c].inputs : i \notin calls[c].results
<1> DEFINE r == calls[c].results
           l == calls[c].left
           n == Len(calls[c].inputs)
<1>1. CountsOK(c) /\ ToldOK(c) /\ calls[c] \in Call
  BY Basics DEF TInv, LibraryOK
<1>2. n \in Nat /\ DOMAIN calls[c].inputs = 1 .. n /\ l \in Int
  <2>1. calls[c].inputs \in Seq(Value) /\ calls[c].left \in Int
    BY <1>1 DEF Call
  <2> QED
    BY <2>1
<1>3. l >= 1 /\ l + Cardinality(r) <= n
  BY <1>1 DEF ToldOK
<1> SUFFICES ASSUME 1 .. n \subseteq r PROVE FALSE
  BY <1>2
<1>4. r = 1 .. n
  BY <1>1, <1>2 DEF CountsOK
<1> HIDE DEF r, l, n
<1>5. Cardinality(r) = n
  BY <1>2, <1>4, FS_Interval
<1> QED
  BY <1>2, <1>3, <1>5

\* No promise of all() or race() is forgotten: at rest it is settled, or an
\* input that its kind waits for is pending, or its closure was overwritten or
\* its chain cut, whatever PHP code did in between.
THEOREM CombinationsSettle == CombinatorsSpec => []CombinedSettles
<1>1. CInv /\ TInv => CombinedSettles
  <2> SUFFICES ASSUME CInv, TInv, Idle, NEW c \in DOMAIN calls, Combined(c) = "PENDING"
               PROVE  IF calls[c].kind = "race"
                      THEN \A i \in DOMAIN calls[c].inputs : Silent(c, i)
                      ELSE /\ \/ calls[c].inputs = <<>>
                              \/ \E i \in DOMAIN calls[c].inputs : Silent(c, i)
                           /\ \A i \in DOMAIN calls[c].inputs :
                                 State(calls[c].inputs[i]) = "REJECTED" => Silent(c, i)
    BY DEF CombinedSettles
  <2>1. calls[c].kind \in {"all", "race"}
    <3>1. calls[c] \in Call
      BY Basics DEF LibraryOK
    <3> QED
      BY <3>1 DEF Call
  <2>2. \A i \in DOMAIN calls[c].inputs : State(calls[c].inputs[i]) = "REJECTED" => Silent(c, i)
    BY InputSilent
  <2>3. calls[c].kind = "race" => \A i \in DOMAIN calls[c].inputs : Silent(c, i)
    BY InputSilent
  <2>4. ASSUME calls[c].kind = "all", calls[c].inputs # <<>>
        PROVE  \E i \in DOMAIN calls[c].inputs : Silent(c, i)
    <3>1. PICK i \in DOMAIN calls[c].inputs : i \notin calls[c].results
      BY <2>4, ResultMissing
    <3> QED
      BY <3>1, InputSilent
  <2> QED
    BY <2>1, <2>2, <2>3, <2>4
<1> QED
  BY CombinatorsInvariance, CallsInvariance, <1>1, PTL
=============================================================================
