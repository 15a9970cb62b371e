------------------------- MODULE EventEmitterProofs -------------------------
(***************************************************************************)
(* Proofs about EventEmitter: an emission calls registrations in order and *)
(* none twice, and skips one only for a reason the code has.               *)
(*                                                                         *)
(* Emissions of one event walk the same table with the same pointer.  What *)
(* saves the outer one is that an inner one leaves the pointer behind all  *)
(* elements, and that elements are added behind them.                      *)
(***************************************************************************)
EXTENDS EventEmitter, SequenceTheorems, WellFoundedInduction, TLAPS

\* Elements of a table are below the next free index of it.
BelowNext == \A e \in Events : \A k \in DOMAIN cache[e] : k < next[e]

\* No emission of the same event is inside the n-th.
Innermost(s, n) == \A m \in n + 1 .. Len(s) : s[m].ev # s[n].ev

\* An emission has called something, in order, and below the next free index.
CallsInOrder ==
    \A n \in DOMAIN stack : LET f == stack[n] IN
        /\ f.invoked # <<>>
        /\ \A i, j \in DOMAIN f.invoked : i < j => f.invoked[i] < f.invoked[j]
        /\ ~f.freed => Index(f) < next[f.ev]

\* The innermost emission of an event goes on from the pointer, and what is left
\* to call comes after what it called last.
PointerAhead ==
    \A n \in DOMAIN stack : LET f == stack[n] IN
        Innermost(stack, n) /\ ~f.freed
           => \A k \in From(f.ev, pointer[f.ev]) : k >= Index(f)

\* An emission with another one of its event inside is marked.
ReenteredMarked ==
    \A n \in DOMAIN stack : ~stack[n].reentered => Innermost(stack, n)

\* An undisturbed emission stands at the element it called last, and has called
\* what it should up to there.
Undisturbed ==
    \A n \in DOMAIN stack : LET f == stack[n] IN
        ~f.freed /\ ~f.reentered /\ ~f.selfOff =>
           /\ Index(f) \in From(f.ev, pointer[f.ev])
           /\ f.expected \subseteq DOMAIN cache[f.ev]
           /\ \A k \in f.expected : k \in Range(f.invoked) \/ k > Index(f)

IInv ==
    /\ TypeOK /\ BelowNext /\ CallsInOrder /\ PointerAhead
    /\ ReenteredMarked /\ Undisturbed

-----------------------------------------------------------------------------
(* Tables, frames and the stack of emissions. *)

\* Min of some indices is the first of them.
LEMMA MinOfIndices ==
    ASSUME NEW T, T \subseteq Nat, T # {}
    PROVE  Min(T) \in T /\ \A y \in T : Min(T) <= y
<1>1. PICK x \in T : \A y \in T : ~(<<y, x>> \in OpToRel(<, Nat))
  BY WFMin, NatLessThanWellFounded, Zenon
<1>2. \A y \in T : ~(y < x)
  BY <1>1 DEF OpToRel
<1>3. \E m \in T : \A y \in T : m <= y
  BY <1>2
<1> QED
  BY <1>3 DEF Min

\* A table has its indices below MaxIndex.
LEMMA TableFacts ==
    \A t : t \in Table <=> /\ DOMAIN t \subseteq 0 .. MaxIndex - 1
                         /\ t \in [DOMAIN t -> Listeners]
  BY DEF Table

\* A function on 1 .. Len(s) to frames is a stack.
LEMMA StackOfFrames ==
    ASSUME NEW s \in Seq(Frame), NEW t, t \in [DOMAIN s -> Frame]
    PROVE  t \in Seq(Frame) /\ Len(t) = Len(s) /\ DOMAIN t = DOMAIN s
<1>1. DOMAIN s = 1 .. Len(s) /\ Len(s) \in Nat
  OBVIOUS
<1>2. t \in Seq(Frame)
  BY <1>1, SeqDef, Zenon
<1> QED
  BY <1>1, <1>2

\* The frames of a stack, and what they have called.
LEMMA FrameFacts ==
    ASSUME NEW s \in Seq(Frame)
    PROVE  /\ Len(s) \in Nat /\ DOMAIN s = 1 .. Len(s)
           /\ \A n \in DOMAIN s : s[n] \in Frame
           /\ \A f \in Frame : /\ f.ev \in Events
                               /\ f.invoked \in Seq(0 .. MaxIndex - 1)
                               /\ f.freed \in BOOLEAN /\ f.reentered \in BOOLEAN
                               /\ f.selfOff \in BOOLEAN
                               /\ f.expected \in SUBSET (0 .. MaxIndex - 1)
                               /\ f.invoked # <<>> => Index(f) \in 0 .. MaxIndex - 1
<1>1. /\ Len(s) \in Nat /\ DOMAIN s = 1 .. Len(s)
      /\ \A n \in DOMAIN s : s[n] \in Frame
  OBVIOUS
<1>2. ASSUME NEW f \in Frame
      PROVE  /\ f.ev \in Events
             /\ f.invoked \in Seq(0 .. MaxIndex - 1)
             /\ f.freed \in BOOLEAN /\ f.reentered \in BOOLEAN
             /\ f.selfOff \in BOOLEAN
             /\ f.expected \in SUBSET (0 .. MaxIndex - 1)
  BY DEF Frame
<1>3. ASSUME NEW f \in Frame, f.invoked # <<>>
      PROVE  Index(f) \in 0 .. MaxIndex - 1
  <2>1. Len(f.invoked) \in 1 .. Len(f.invoked)
    BY <1>2, <1>3, EmptySeq
  <2> QED
    BY <1>2, <2>1, ElementOfSeq DEF Index, Last
<1> QED
  BY <1>1, <1>2, <1>3

\* Leaving the innermost emission.
LEMMA PopFacts ==
    ASSUME NEW s \in Seq(Frame), s # <<>>
    PROVE  /\ Front(s) \in Seq(Frame) /\ Len(Front(s)) = Len(s) - 1
           /\ DOMAIN Front(s) = 1 .. Len(s) - 1
           /\ \A n \in 1 .. Len(s) - 1 : Front(s)[n] = s[n]
<1>1. Len(s) \in Nat \ {0} /\ \A n \in 1 .. Len(s) : s[n] \in Frame
  BY EmptySeq, FrameFacts
<1>2. PICK n \in Nat : Len(s) = n + 1
  <2>1. Len(s) - 1 \in Nat /\ Len(s) = (Len(s) - 1) + 1
    BY <1>1
  <2> QED
    BY <2>1
<1>3. Front(s) = SubSeq(s, 1, n)
  BY <1>2 DEF Front
<1>4. /\ SubSeq(s, 1, n) \in Seq(Frame) /\ Len(SubSeq(s, 1, n)) = n
      /\ \A k \in 1 .. n : SubSeq(s, 1, n)[k] = s[k]
  BY <1>1, <1>2, SubSeqProperties
<1> QED
  BY <1>2, <1>3, <1>4, LenProperties

-----------------------------------------------------------------------------
(* The inductive invariant. *)

LEMMA InitInv == Init => IInv
<1> SUFFICES ASSUME Init
             PROVE  IInv
  OBVIOUS
<1> USE BoundsAssumption DEF Init
<1>1. <<>> \in Table /\ DOMAIN <<>> = {}
  <2>1. DOMAIN <<>> = {} /\ <<>> \in [{} -> Listeners]
    OBVIOUS
  <2> QED
    BY <2>1, TableFacts
<1>2. TypeOK
  <2>1. /\ hook = cache /\ hook \in [Events -> Table]
        /\ next \in [Events -> 0 .. MaxIndex] /\ pointer \in [Events -> 0 .. MaxIndex]
    BY <1>1
  <2>2. stack \in Seq(Frame)
    OBVIOUS
  <2> QED
    BY <2>1, <2>2 DEF TypeOK
<1>3. BelowNext
  BY <1>1 DEF BelowNext
<1>4. CallsInOrder /\ PointerAhead /\ ReenteredMarked /\ Undisturbed
  BY DEF CallsInOrder, PointerAhead, ReenteredMarked, Undisturbed
<1> QED
  BY <1>2, <1>3, <1>4 DEF IInv

\* on() appends behind all elements of the table.
LEMMA OnInv ==
    ASSUME IInv, NEW e \in Events, NEW l \in Listeners, On(e, l)
    PROVE  IInv'
<1> USE BoundsAssumption DEF IInv
<1>0. PICK x : x = next[e]
  OBVIOUS
<1>1. /\ x \in 0 .. MaxIndex - 1
      /\ hook' = [hook EXCEPT ![e] = With(@, x, l)]
      /\ cache' = [cache EXCEPT ![e] = With(@, x, l)]
      /\ next' = [next EXCEPT ![e] = x + 1]
      /\ UNCHANGED <<pointer, stack, silenced, fault>>
  BY <1>0 DEF On, TypeOK
<1>2. ASSUME NEW t \in Table
      PROVE  With(t, x, l) \in Table /\ DOMAIN With(t, x, l) = DOMAIN t \cup {x}
  <2>1. /\ DOMAIN With(t, x, l) = DOMAIN t \cup {x}
        /\ With(t, x, l) \in [DOMAIN t \cup {x} -> Listeners]
    BY TableFacts DEF With
  <2> QED
    BY <1>1, <2>1, TableFacts
<1>3. /\ DOMAIN cache'[e] = DOMAIN cache[e] \cup {x}
      /\ \A d \in Events \ {e} : cache'[d] = cache[d] /\ next'[d] = next[d]
      /\ next'[e] = x + 1 /\ cache[e] \in Table
  BY <1>1, <1>2 DEF TypeOK
<1>4. TypeOK'
  <2>1. hook' = cache' /\ hook' \in [Events -> Table]
    BY <1>1, <1>2 DEF TypeOK
  <2>2. next' \in [Events -> 0 .. MaxIndex]
    BY <1>1 DEF TypeOK
  <2> QED
    BY <1>1, <2>1, <2>2 DEF TypeOK
<1>5. \A k \in DOMAIN cache[e] : k \in Nat /\ k < x
  BY <1>0, <1>3, TableFacts DEF BelowNext
<1>6. BelowNext'
  BY <1>0, <1>1, <1>3, <1>5 DEF BelowNext
<1>7. /\ stack \in Seq(Frame)
      /\ \A n \in DOMAIN stack : /\ stack[n].ev \in Events
                               /\ Index(stack[n]) \in 0 .. MaxIndex - 1
  BY FrameFacts DEF TypeOK, CallsInOrder
<1>8. CallsInOrder'
  BY <1>0, <1>1, <1>3, <1>7 DEF CallsInOrder
<1>9. PointerAhead'
  BY <1>0, <1>1, <1>3, <1>7 DEF PointerAhead, CallsInOrder, From
<1>10. ReenteredMarked'
  BY <1>1 DEF ReenteredMarked
<1>11. Undisturbed'
  BY <1>1, <1>3, <1>7 DEF Undisturbed, From
<1> QED
  BY <1>4, <1>6, <1>8, <1>9, <1>10, <1>11

\* off() takes one element out of the table; the frames of the event forget it.
LEMMA OffInv ==
    ASSUME IInv, NEW e \in Events, NEW l \in Listeners, Off(e, l)
    PROVE  IInv'
<1> USE BoundsAssumption DEF IInv
<1>1. PICK k \in DOMAIN hook[e] :
          /\ hook' = [hook EXCEPT ![e] = Without(@, k)]
          /\ cache' = [cache EXCEPT ![e] = Without(@, k)]
          /\ stack' = OnFrames(e, LAMBDA f :
                [f EXCEPT !.expected = @ \ {k},
                          !.selfOff = @ \/ Index(f) = k])
          /\ UNCHANGED <<next, pointer, silenced, fault>>
  BY Zenon DEF Off
<1>2. ASSUME NEW t \in Table
      PROVE  Without(t, k) \in Table /\ DOMAIN Without(t, k) = DOMAIN t \ {k}
  <2>1. /\ DOMAIN Without(t, k) = DOMAIN t \ {k}
        /\ Without(t, k) \in [DOMAIN t \ {k} -> Listeners]
    BY TableFacts DEF Without, Restrict
  <2> QED
    BY <2>1, TableFacts
<1>3. /\ DOMAIN cache'[e] = DOMAIN cache[e] \ {k}
      /\ \A d \in Events \ {e} : cache'[d] = cache[d]
      /\ \A d \in Events : DOMAIN cache'[d] \subseteq DOMAIN cache[d]
  BY <1>1, <1>2 DEF TypeOK
<1>4. /\ Len(stack) \in Nat /\ DOMAIN stack = 1 .. Len(stack)
      /\ \A n \in DOMAIN stack : /\ stack[n] \in Frame
                               /\ stack[n].ev \in Events
                               /\ stack[n].expected \in SUBSET (0 .. MaxIndex - 1)
                               /\ stack[n].selfOff \in BOOLEAN
                               /\ Index(stack[n]) \in 0 .. MaxIndex - 1
  BY FrameFacts DEF TypeOK, CallsInOrder
<1>5. /\ DOMAIN stack' = DOMAIN stack
      /\ \A n \in DOMAIN stack :
            stack'[n] = IF stack[n].ev = e
                        THEN [stack[n] EXCEPT !.expected = @ \ {k},
                                              !.selfOff = @ \/ Index(stack[n]) = k]
                        ELSE stack[n]
  BY <1>1 DEF OnFrames
<1>6. ASSUME NEW n \in DOMAIN stack
      PROVE  /\ stack'[n] \in Frame
             /\ stack'[n].ev = stack[n].ev /\ stack'[n].invoked = stack[n].invoked
             /\ ~stack'[n].freed => ~stack[n].freed
             /\ ~stack'[n].reentered => ~stack[n].reentered
             /\ Index(stack'[n]) = Index(stack[n])
             /\ ~stack'[n].selfOff => ~stack[n].selfOff
             /\ stack[n].ev = e => stack'[n].expected = stack[n].expected \ {k}
             /\ stack[n].ev = e /\ ~stack'[n].selfOff => Index(stack[n]) # k
             /\ stack[n].ev # e => stack'[n] = stack[n]
  <2>1. CASE stack[n].ev # e
    BY <1>4, <1>5, <2>1
  <2>2. CASE stack[n].ev = e
    <3>1. PICK b : b = (stack[n].selfOff \/ Index(stack[n]) = k)
      OBVIOUS
    <3>2. b \in BOOLEAN
      BY <3>1, Zenon
    <3>3. stack'[n] = [stack[n] EXCEPT !.expected = @ \ {k}, !.selfOff = b]
      BY <1>5, <2>2, <3>1, Zenon
    <3>4. stack[n] \in Frame
      BY <1>4
    <3>5. /\ stack'[n] \in Frame
          /\ stack'[n].ev = stack[n].ev /\ stack'[n].invoked = stack[n].invoked
          /\ ~stack'[n].freed => ~stack[n].freed
          /\ ~stack'[n].reentered => ~stack[n].reentered
          /\ stack'[n].expected = stack[n].expected \ {k}
          /\ stack'[n].selfOff = b
      BY <3>2, <3>3, <3>4 DEF Frame
    <3>6. ~b => ~stack[n].selfOff /\ Index(stack[n]) # k
      BY <3>1, Zenon
    <3>7. Index(stack'[n]) = Index(stack[n])
      BY <3>5, Zenon DEF Index
    <3> QED
      BY <2>2, <3>5, <3>6, <3>7, Zenon
  <2> QED
    BY <2>1, <2>2
<1>7. /\ stack' \in Seq(Frame) /\ Len(stack') = Len(stack)
  BY <1>1, <1>4, <1>5, <1>6, StackOfFrames DEF OnFrames, TypeOK
<1>8. TypeOK'
  <2>1. hook' = cache' /\ hook' \in [Events -> Table]
    BY <1>1, <1>2 DEF TypeOK
  <2> QED
    BY <1>1, <1>7, <2>1 DEF TypeOK
<1>9. BelowNext'
  BY <1>1, <1>3 DEF BelowNext
<1>10. CallsInOrder'
  <2> SUFFICES ASSUME NEW n \in DOMAIN stack
               PROVE  /\ stack'[n].invoked # <<>>
                      /\ \A i, j \in DOMAIN stack'[n].invoked :
                            i < j => stack'[n].invoked[i] < stack'[n].invoked[j]
                      /\ ~stack'[n].freed => Index(stack'[n]) < next'[stack'[n].ev]
    BY <1>5 DEF CallsInOrder
  <2>1. /\ stack[n].invoked # <<>>
        /\ \A i, j \in DOMAIN stack[n].invoked :
              i < j => stack[n].invoked[i] < stack[n].invoked[j]
        /\ ~stack[n].freed => Index(stack[n]) < next[stack[n].ev]
    BY DEF CallsInOrder
  <2> QED
    BY <1>1, <1>6, <2>1
<1>11. \A n \in DOMAIN stack : Innermost(stack', n) <=> Innermost(stack, n)
  BY <1>4, <1>6, <1>7 DEF Innermost
<1>12. PointerAhead'
  BY <1>1, <1>3, <1>4, <1>5, <1>6, <1>11 DEF PointerAhead, From
<1>13. ReenteredMarked'
  BY <1>5, <1>6, <1>11 DEF ReenteredMarked
<1>14. Undisturbed'
  <2> SUFFICES ASSUME NEW n \in DOMAIN stack,
                      ~stack'[n].freed, ~stack'[n].reentered, ~stack'[n].selfOff
               PROVE  /\ Index(stack'[n]) \in DOMAIN cache'[stack'[n].ev]
                      /\ Index(stack'[n]) >= pointer'[stack'[n].ev]
                      /\ stack'[n].expected \subseteq DOMAIN cache'[stack'[n].ev]
                      /\ \A j \in stack'[n].expected :
                            j \in Range(stack'[n].invoked) \/ j > Index(stack'[n])
    BY <1>5 DEF Undisturbed, From
  <2>0. /\ stack'[n].ev = stack[n].ev /\ stack'[n].invoked = stack[n].invoked
        /\ ~stack[n].freed /\ ~stack[n].reentered /\ ~stack[n].selfOff
        /\ stack[n].ev = e => Index(stack[n]) # k
        /\ stack[n].ev = e => stack'[n].expected = stack[n].expected \ {k}
        /\ stack[n].ev # e => stack'[n].expected = stack[n].expected
        /\ Index(stack'[n]) = Index(stack[n])
    <3>1. /\ stack'[n].ev = stack[n].ev /\ stack'[n].invoked = stack[n].invoked
          /\ Index(stack'[n]) = Index(stack[n])
          /\ stack[n].ev = e => stack'[n].expected = stack[n].expected \ {k}
          /\ stack[n].ev # e => stack'[n] = stack[n]
      BY <1>6
    <3>2. /\ ~stack'[n].freed => ~stack[n].freed
          /\ ~stack'[n].reentered => ~stack[n].reentered
          /\ ~stack'[n].selfOff => ~stack[n].selfOff
      BY <1>6
    <3>3. stack[n].ev = e /\ ~stack'[n].selfOff => Index(stack[n]) # k
      BY <1>6
    <3> QED
      BY <3>1, <3>2, <3>3, Zenon
  <2>1. /\ Index(stack[n]) \in From(stack[n].ev, pointer[stack[n].ev])
        /\ stack[n].expected \subseteq DOMAIN cache[stack[n].ev]
        /\ \A j \in stack[n].expected :
              j \in Range(stack[n].invoked) \/ j > Index(stack[n])
    BY <2>0, Zenon DEF Undisturbed
  <2>2. stack'[n].expected \subseteq stack[n].expected
    BY <1>4, <2>0
  <2>3. stack'[n].expected \subseteq DOMAIN cache'[stack'[n].ev]
    BY <1>3, <1>4, <2>0, <2>1
  <2>4. /\ Index(stack[n]) \in DOMAIN cache'[stack[n].ev]
        /\ Index(stack[n]) >= pointer'[stack[n].ev]
    BY <1>1, <1>3, <1>4, <2>0, <2>1 DEF From
  <2> QED
    BY <2>0, <2>1, <2>2, <2>3, <2>4
<1> QED
  BY <1>8, <1>9, <1>10, <1>12, <1>13, <1>14

\* removeListeners() frees the table: the emissions that walk it are marked.
LEMMA RemoveListenersInv ==
    ASSUME IInv, NEW e \in Events, RemoveListeners(e)
    PROVE  IInv'
<1> USE BoundsAssumption DEF IInv
<1>1. /\ hook' = [hook EXCEPT ![e] = <<>>]
      /\ cache' = [cache EXCEPT ![e] = <<>>]
      /\ next' = [next EXCEPT ![e] = 0]
      /\ pointer' = [pointer EXCEPT ![e] = 0]
      /\ stack' = OnFrames(e, LAMBDA f : [f EXCEPT !.freed = TRUE])
      /\ UNCHANGED <<silenced, fault>>
  BY Zenon DEF RemoveListeners
<1>2. <<>> \in Table /\ DOMAIN <<>> = {}
  <2>1. DOMAIN <<>> = {} /\ <<>> \in [{} -> Listeners]
    OBVIOUS
  <2> QED
    BY <2>1, TableFacts
<1>3. /\ DOMAIN cache'[e] = {}
      /\ \A d \in Events \ {e} : /\ cache'[d] = cache[d] /\ next'[d] = next[d]
                                 /\ pointer'[d] = pointer[d]
  BY <1>1, <1>2 DEF TypeOK
<1>4. /\ Len(stack) \in Nat /\ DOMAIN stack = 1 .. Len(stack)
      /\ \A n \in DOMAIN stack : stack[n] \in Frame /\ stack[n].ev \in Events
  BY FrameFacts DEF TypeOK
<1>5. /\ DOMAIN stack' = DOMAIN stack
      /\ \A n \in DOMAIN stack :
            stack'[n] = IF stack[n].ev = e
                        THEN [stack[n] EXCEPT !.freed = TRUE] ELSE stack[n]
  BY <1>1 DEF OnFrames
<1>6. ASSUME NEW n \in DOMAIN stack
      PROVE  /\ stack'[n] \in Frame
             /\ stack'[n].ev = stack[n].ev /\ stack'[n].invoked = stack[n].invoked
             /\ stack'[n].reentered = stack[n].reentered
             /\ stack[n].ev = e => stack'[n].freed
             /\ stack[n].ev # e => stack'[n] = stack[n]
  BY <1>4, <1>5 DEF Frame
<1>7. /\ stack' \in Seq(Frame) /\ Len(stack') = Len(stack)
  BY <1>1, <1>4, <1>5, <1>6, StackOfFrames DEF OnFrames, TypeOK
<1>8. TypeOK'
  <2>1. hook' = cache' /\ hook' \in [Events -> Table]
    BY <1>1, <1>2 DEF TypeOK
  <2> QED
    BY <1>1, <1>7, <2>1 DEF TypeOK
<1>9. BelowNext'
  BY <1>1, <1>3 DEF BelowNext
<1>10. CallsInOrder'
  BY <1>3, <1>4, <1>5, <1>6 DEF CallsInOrder, Index
<1>11. \A n \in DOMAIN stack : Innermost(stack', n) <=> Innermost(stack, n)
  BY <1>4, <1>6, <1>7 DEF Innermost
<1>12. PointerAhead'
  BY <1>3, <1>4, <1>5, <1>6, <1>11 DEF PointerAhead, From
<1>13. ReenteredMarked'
  BY <1>5, <1>6, <1>11 DEF ReenteredMarked
<1>14. Undisturbed'
  BY <1>3, <1>4, <1>5, <1>6 DEF Undisturbed, From
<1> QED
  BY <1>8, <1>9, <1>10, <1>12, <1>13, <1>14

\* One more call of an emission.
LEMMA OneMoreCall ==
    ASSUME NEW s \in Seq(0 .. MaxIndex - 1), NEW m \in 0 .. MaxIndex - 1
    PROVE  /\ Append(s, m) \in Seq(0 .. MaxIndex - 1) /\ Append(s, m) # <<>>
           /\ DOMAIN s = 1 .. Len(s) /\ Len(s) \in Nat
           /\ DOMAIN Append(s, m) = 1 .. Len(s) + 1
           /\ \A i \in 1 .. Len(s) : Append(s, m)[i] = s[i]
           /\ Append(s, m)[Len(s) + 1] = m /\ Last(Append(s, m)) = m
           /\ m \in Range(Append(s, m))
           /\ \A k \in Range(s) : k \in Range(Append(s, m))
<1>1. /\ Append(s, m) \in Seq(0 .. MaxIndex - 1) /\ Append(s, m) # <<>>
      /\ DOMAIN s = 1 .. Len(s) /\ Len(s) \in Nat
      /\ Len(Append(s, m)) = Len(s) + 1
      /\ DOMAIN Append(s, m) = 1 .. Len(s) + 1
      /\ \A i \in 1 .. Len(s) : Append(s, m)[i] = s[i]
      /\ Append(s, m)[Len(s) + 1] = m
  BY AppendProperties, LenProperties
<1>2. Last(Append(s, m)) = m
  BY <1>1 DEF Last
<1>3. /\ m \in Range(Append(s, m))
      /\ \A k \in Range(s) : k \in Range(Append(s, m))
  BY <1>1 DEF Range
<1> QED
  BY <1>1, <1>2, <1>3

\* Calling something later than the last call keeps the calls in order.
LEMMA MoreInOrder ==
    ASSUME NEW s \in Seq(0 .. MaxIndex - 1), NEW m \in 0 .. MaxIndex - 1,
           s # <<>>, m > Last(s),
           \A i, j \in DOMAIN s : i < j => s[i] < s[j]
    PROVE  \A i, j \in DOMAIN Append(s, m) :
              i < j => Append(s, m)[i] < Append(s, m)[j]
<1>1. PICK n \in Nat \ {0} : n = Len(s)
  BY EmptySeq
<1>2. /\ DOMAIN s = 1 .. n /\ DOMAIN Append(s, m) = 1 .. n + 1
      /\ \A k \in 1 .. n : Append(s, m)[k] = s[k]
      /\ Append(s, m)[n + 1] = m
  BY <1>1, OneMoreCall
<1>3. \A k \in 1 .. n : s[k] \in 0 .. MaxIndex - 1 /\ (k < n => s[k] < s[n])
  <2>1. \A k \in 1 .. n : s[k] \in 0 .. MaxIndex - 1
    BY <1>1, <1>2, ElementOfSeq
  <2>2. n \in DOMAIN s
    BY <1>2
  <2> QED
    BY <1>2, <2>1, <2>2
<1>4. s[n] < m
  BY <1>1 DEF Last
<1>5. \A k \in 1 .. n : s[k] < m
  <2> TAKE k \in 1 .. n
  <2>1. CASE k = n
    BY <1>4, <2>1
  <2>2. CASE k < n
    <3>1. s[k] \in 0 .. MaxIndex - 1 /\ s[n] \in 0 .. MaxIndex - 1 /\ s[k] < s[n]
      BY <1>3, <2>2
    <3> QED
      BY <1>4, <3>1
  <2> QED
    BY <2>1, <2>2
<1> SUFFICES ASSUME NEW i \in 1 .. n + 1, NEW j \in 1 .. n + 1, i < j
             PROVE  Append(s, m)[i] < Append(s, m)[j]
  BY <1>2
<1>6. i \in 1 .. n
  OBVIOUS
<1>7. CASE j \in 1 .. n
  BY <1>2, <1>6, <1>7
<1>8. CASE j = n + 1
  BY <1>2, <1>5, <1>6, <1>8
<1>9. j \in 1 .. n \/ j = n + 1
  OBVIOUS
<1> QED
  BY <1>7, <1>8, <1>9

\* emit() rewinds the pointer and calls the first element; the emissions of the
\* event that are in progress are marked.
LEMMA EmitInv ==
    ASSUME IInv, NEW e \in Events, Emit(e)
    PROVE  IInv'
<1> USE BoundsAssumption DEF IInv
<1>1. /\ DOMAIN cache[e] # {}
      /\ pointer' = [pointer EXCEPT ![e] = 0]
      /\ UNCHANGED <<hook, next, cache, silenced, fault>>
  BY DEF Emit
<1>2. PICK m : m = Min(From(e, 0))
  OBVIOUS
<1>3. PICK s : s = OnFrames(e, LAMBDA f : [f EXCEPT !.reentered = TRUE])
  OBVIOUS
<1>4. PICK new : new = [ev |-> e, invoked |-> <<m>>, freed |-> FALSE,
                        expected |-> DOMAIN cache[e],
                        reentered |-> FALSE, selfOff |-> FALSE]
  OBVIOUS
<1>5. stack' = Append(s, new)
  BY <1>2, <1>3, <1>4, Zenon DEF Emit
<1>6. DOMAIN cache[e] \subseteq 0 .. MaxIndex - 1
  BY TableFacts DEF TypeOK
<1>7. /\ m \in DOMAIN cache[e] /\ m \in 0 .. MaxIndex - 1
      /\ \A k \in DOMAIN cache[e] : m <= k
  <2>1. From(e, 0) = DOMAIN cache[e]
    BY <1>6 DEF From
  <2>2. From(e, 0) # {} /\ From(e, 0) \subseteq Nat
    BY <1>1, <1>6, <2>1
  <2> QED
    BY <1>2, <1>6, <2>1, <2>2, MinOfIndices
<1>8. /\ new \in Frame /\ new.ev = e /\ new.invoked = <<m>>
      /\ new.expected = DOMAIN cache[e] /\ Index(new) = m
      /\ m \in Range(new.invoked)
  <2>1. <<m>> \in Seq(0 .. MaxIndex - 1) /\ Last(<<m>>) = m /\ m \in Range(<<m>>)
    BY <1>7 DEF Last, Range
  <2>2. new \in Frame
    BY <1>4, <1>6, <2>1 DEF Frame
  <2>3. new.ev = e /\ new.invoked = <<m>> /\ new.expected = DOMAIN cache[e]
    BY <1>4
  <2> QED
    BY <2>1, <2>2, <2>3 DEF Index
<1>9. /\ Len(stack) \in Nat /\ DOMAIN stack = 1 .. Len(stack)
      /\ \A n \in DOMAIN stack : stack[n] \in Frame /\ stack[n].ev \in Events
  BY FrameFacts DEF TypeOK
<1>10. /\ DOMAIN s = DOMAIN stack
       /\ \A n \in DOMAIN stack :
             s[n] = IF stack[n].ev = e
                    THEN [stack[n] EXCEPT !.reentered = TRUE] ELSE stack[n]
  BY <1>3 DEF OnFrames
<1>11. ASSUME NEW n \in DOMAIN stack
       PROVE  /\ s[n] \in Frame
              /\ s[n].ev = stack[n].ev /\ s[n].invoked = stack[n].invoked
              /\ ~s[n].freed => ~stack[n].freed
              /\ stack[n].ev = e => s[n].reentered
              /\ stack[n].ev # e => s[n] = stack[n]
  BY <1>9, <1>10 DEF Frame
<1>12. s \in Seq(Frame) /\ Len(s) = Len(stack)
  BY <1>3, <1>9, <1>10, <1>11, StackOfFrames DEF OnFrames, TypeOK
<1>13. /\ stack' \in Seq(Frame) /\ Len(stack') = Len(stack) + 1
       /\ DOMAIN stack' = 1 .. Len(stack) + 1
       /\ \A n \in 1 .. Len(stack) : stack'[n] = s[n]
       /\ stack'[Len(stack) + 1] = new
  BY <1>5, <1>8, <1>9, <1>12, AppendProperties, LenProperties
<1>14. /\ Innermost(stack', Len(stack) + 1)
       /\ \A n \in 1 .. Len(stack) :
             /\ stack[n].ev = e => ~Innermost(stack', n)
             /\ stack[n].ev # e => (Innermost(stack', n) <=> Innermost(stack, n))
  <2>1. Innermost(stack', Len(stack) + 1)
    BY <1>9, <1>13 DEF Innermost
  <2>2. ASSUME NEW n \in 1 .. Len(stack), stack[n].ev = e
        PROVE  ~Innermost(stack', n)
    <3>1. stack'[n].ev = e /\ stack'[Len(stack) + 1].ev = e
      BY <1>8, <1>9, <1>11, <1>13, <2>2
    <3>2. Len(stack) + 1 \in n + 1 .. Len(stack')
      BY <1>9, <1>13
    <3> QED
      BY <3>1, <3>2 DEF Innermost
  <2>3. ASSUME NEW n \in 1 .. Len(stack), stack[n].ev # e
        PROVE  Innermost(stack', n) <=> Innermost(stack, n)
    <3>1. \A j \in 1 .. Len(stack) : stack'[j].ev = stack[j].ev
      BY <1>9, <1>11, <1>13
    <3>2. stack'[Len(stack) + 1].ev = e
      BY <1>8, <1>13
    <3>3. \A j \in n + 1 .. Len(stack) + 1 : j = Len(stack) + 1 \/ j \in 1 .. Len(stack)
      BY <1>9
    <3>4. \A j \in n + 1 .. Len(stack) : j \in n + 1 .. Len(stack) + 1
      BY <1>9
    <3> QED
      BY <1>9, <1>13, <2>3, <3>1, <3>2, <3>3, <3>4 DEF Innermost
  <2> QED
    BY <2>1, <2>2, <2>3
<1>15. TypeOK'
  BY <1>1, <1>13 DEF TypeOK
<1>16. BelowNext'
  BY <1>1 DEF BelowNext
<1>17. /\ \A d \in Events \ {e} : pointer'[d] = pointer[d]
       /\ pointer'[e] = 0
  BY <1>1 DEF TypeOK
<1>18. CallsInOrder'
  <2> SUFFICES ASSUME NEW n \in 1 .. Len(stack) + 1
               PROVE  /\ stack'[n].invoked # <<>>
                      /\ \A i, j \in DOMAIN stack'[n].invoked :
                            i < j => stack'[n].invoked[i] < stack'[n].invoked[j]
                      /\ ~stack'[n].freed => Index(stack'[n]) < next'[stack'[n].ev]
    BY <1>13 DEF CallsInOrder
  <2>1. CASE n = Len(stack) + 1
    <3>1. m < next[e]
      BY <1>7 DEF BelowNext
    <3>2. <<m>> # <<>> /\ DOMAIN <<m>> = {1}
      OBVIOUS
    <3>3. stack'[n] = new
      BY <1>13, <2>1
    <3>4. /\ new.invoked # <<>> /\ Index(new) < next'[new.ev]
          /\ \A i, j \in DOMAIN new.invoked : i < j => FALSE
      BY <1>1, <1>8, <3>1, <3>2
    <3> QED
      BY <3>3, <3>4
  <2>2. CASE n \in 1 .. Len(stack)
    <3>1. stack'[n] = s[n] /\ n \in DOMAIN stack
      BY <1>9, <1>13, <2>2
    <3>2. /\ stack[n].invoked # <<>>
          /\ \A i, j \in DOMAIN stack[n].invoked :
                i < j => stack[n].invoked[i] < stack[n].invoked[j]
          /\ ~stack[n].freed => Index(stack[n]) < next[stack[n].ev]
      BY <3>1 DEF CallsInOrder
    <3>3. Index(s[n]) = Index(stack[n])
      BY <1>11, <3>1 DEF Index
    <3> QED
      BY <1>1, <1>11, <3>1, <3>2, <3>3
  <2> QED
    BY <1>9, <2>1, <2>2
<1>19. PointerAhead'
  BY <1>1, <1>7, <1>8, <1>9, <1>11, <1>13, <1>14, <1>17 DEF PointerAhead, From
<1>20. ReenteredMarked'
  BY <1>9, <1>11, <1>13, <1>14 DEF ReenteredMarked
<1>21. Undisturbed'
  <2> SUFFICES ASSUME NEW n \in 1 .. Len(stack) + 1,
                      ~stack'[n].freed, ~stack'[n].reentered, ~stack'[n].selfOff
               PROVE  /\ Index(stack'[n]) \in DOMAIN cache[stack'[n].ev]
                      /\ Index(stack'[n]) >= pointer'[stack'[n].ev]
                      /\ stack'[n].expected \subseteq DOMAIN cache[stack'[n].ev]
                      /\ \A j \in stack'[n].expected :
                            j \in Range(stack'[n].invoked) \/ j > Index(stack'[n])
    BY <1>1, <1>13 DEF Undisturbed, From
  <2>1. CASE n = Len(stack) + 1
    <3>1. stack'[n] = new
      BY <1>13, <2>1
    <3>2. \A j \in DOMAIN cache[e] : j = m \/ j > m
      BY <1>6, <1>7
    <3> QED
      BY <1>7, <1>8, <1>17, <3>1, <3>2
  <2>2. CASE n \in 1 .. Len(stack)
    <3>1. stack'[n] = s[n] /\ n \in DOMAIN stack
      BY <1>9, <1>13, <2>2
    <3>2. stack[n].ev # e
      BY <1>11, <3>1
    <3>3. s[n] = stack[n]
      BY <1>11, <3>1, <3>2
    <3>4. pointer'[stack[n].ev] = pointer[stack[n].ev]
      BY <1>9, <1>17, <3>1, <3>2
    <3> QED
      BY <3>1, <3>3, <3>4 DEF Undisturbed, From
  <2> QED
    BY <1>9, <2>1, <2>2
<1> QED
  BY <1>15, <1>16, <1>18, <1>19, <1>20, <1>21

\* The positions above the n-th of L.
LEMMA Between ==
    ASSUME NEW L \in Nat \ {0}, NEW n \in 1 .. L - 1
    PROVE  /\ L \in n + 1 .. L
           /\ \A j \in n + 1 .. L - 1 : j \in 1 .. L - 1 /\ j \in n + 1 .. L
           /\ \A j \in n + 1 .. L : j = L \/ j \in n + 1 .. L - 1
  OBVIOUS

\* An emission ends with the pointer behind all elements: by its last call's
\* return, or by an exception.
LEMMA EndInv ==
    ASSUME IInv, stack # <<>>,
           NEW p \in 0 .. MaxIndex, From(Top.ev, p) = {},
           pointer' = [pointer EXCEPT ![Top.ev] = p],
           stack' = Front(stack), silenced' \in BOOLEAN,
           UNCHANGED <<hook, next, cache, fault>>
    PROVE  IInv'
<1> USE BoundsAssumption DEF IInv
<1>1. /\ Len(stack) \in Nat \ {0} /\ DOMAIN stack = 1 .. Len(stack)
      /\ \A n \in DOMAIN stack : stack[n] \in Frame /\ stack[n].ev \in Events
  BY FrameFacts, EmptySeq DEF TypeOK
<1>2. /\ stack' \in Seq(Frame) /\ Len(stack') = Len(stack) - 1
      /\ DOMAIN stack' = 1 .. Len(stack) - 1
      /\ \A n \in 1 .. Len(stack) - 1 : stack'[n] = stack[n] /\ n \in DOMAIN stack
  <2>1. stack \in Seq(Frame)
    BY DEF TypeOK
  <2>2. /\ Front(stack) \in Seq(Frame) /\ Len(Front(stack)) = Len(stack) - 1
        /\ DOMAIN Front(stack) = 1 .. Len(stack) - 1
        /\ \A n \in 1 .. Len(stack) - 1 : Front(stack)[n] = stack[n]
    BY <2>1, PopFacts
  <2>3. \A n \in 1 .. Len(stack) - 1 : n \in 1 .. Len(stack)
    BY <1>1
  <2> QED
    BY <1>1, <2>2, <2>3
<1>3. PICK e \in Events : e = Top.ev
  BY <1>1 DEF Top
<1>4. /\ stack[Len(stack)].ev = e /\ From(e, p) = {} /\ pointer'[e] = p
      /\ \A d \in Events \ {e} : pointer'[d] = pointer[d]
      /\ pointer' \in [Events -> 0 .. MaxIndex]
  BY <1>3 DEF Top, TypeOK
<1>5. \A n \in 1 .. Len(stack) - 1 :
         /\ stack[n].ev = e => ~Innermost(stack, n)
         /\ stack[n].ev # e => (Innermost(stack', n) <=> Innermost(stack, n))
         /\ Innermost(stack, n) => Innermost(stack', n)
  <2>1. ASSUME NEW n \in 1 .. Len(stack) - 1
        PROVE  /\ Len(stack) \in n + 1 .. Len(stack)
               /\ \A j \in n + 1 .. Len(stack) - 1 :
                     /\ j \in 1 .. Len(stack) - 1 /\ j \in n + 1 .. Len(stack)
                     /\ stack'[j].ev = stack[j].ev
               /\ \A j \in n + 1 .. Len(stack) :
                     j = Len(stack) \/ j \in n + 1 .. Len(stack) - 1
               /\ stack'[n].ev = stack[n].ev
    <3>1. /\ Len(stack) \in n + 1 .. Len(stack)
          /\ \A j \in n + 1 .. Len(stack) - 1 :
                j \in 1 .. Len(stack) - 1 /\ j \in n + 1 .. Len(stack)
          /\ \A j \in n + 1 .. Len(stack) :
                j = Len(stack) \/ j \in n + 1 .. Len(stack) - 1
      BY <1>1, Between
    <3>2. \A j \in 1 .. Len(stack) - 1 : stack'[j].ev = stack[j].ev
      BY <1>2
    <3> QED
      BY <3>1, <3>2
  <2> QED
    BY <1>2, <1>4, <2>1 DEF Innermost
<1>6. TypeOK'
  BY <1>2, <1>4 DEF TypeOK
<1>7. BelowNext'
  BY DEF BelowNext
<1>8. CallsInOrder'
  BY <1>2 DEF CallsInOrder, Index
<1>9. PointerAhead'
  <2> SUFFICES ASSUME NEW n \in 1 .. Len(stack) - 1, ~stack[n].freed,
                      Innermost(stack', n), NEW k \in DOMAIN cache[stack[n].ev],
                      k >= pointer'[stack[n].ev]
               PROVE  k >= Index(stack[n])
    BY <1>2 DEF PointerAhead, From, Index
  <2>1. CASE stack[n].ev = e
    BY <1>4, <2>1 DEF From
  <2>2. CASE stack[n].ev # e
    <3>1. n \in DOMAIN stack /\ Innermost(stack, n)
      BY <1>2, <1>5, <2>2
    <3>2. pointer'[stack[n].ev] = pointer[stack[n].ev]
      BY <1>1, <1>4, <2>2, <3>1
    <3> QED
      BY <3>1, <3>2 DEF PointerAhead, From
  <2> QED
    BY <2>1, <2>2
<1>10. ReenteredMarked'
  BY <1>2, <1>5 DEF ReenteredMarked
<1>11. Undisturbed'
  <2> SUFFICES ASSUME NEW n \in 1 .. Len(stack) - 1, ~stack[n].freed,
                      ~stack[n].reentered, ~stack[n].selfOff
               PROVE  /\ Index(stack[n]) \in DOMAIN cache[stack[n].ev]
                      /\ Index(stack[n]) >= pointer'[stack[n].ev]
                      /\ stack[n].expected \subseteq DOMAIN cache[stack[n].ev]
                      /\ \A j \in stack[n].expected :
                            j \in Range(stack[n].invoked) \/ j > Index(stack[n])
    BY <1>2 DEF Undisturbed, From, Index
  <2>1. stack[n].ev # e
    BY <1>2, <1>5 DEF ReenteredMarked
  <2>2. pointer'[stack[n].ev] = pointer[stack[n].ev]
    BY <1>1, <1>2, <1>4, <2>1
  <2> QED
    BY <1>2, <2>2 DEF Undisturbed, From
<1> QED
  BY <1>6, <1>7, <1>8, <1>9, <1>10, <1>11

\* Nothing the invariant is about changes.
LEMMA SameEmissions ==
    ASSUME IInv, UNCHANGED <<hook, next, cache, pointer, stack>>,
           silenced' \in BOOLEAN, fault' \in BOOLEAN
    PROVE  IInv'
  BY DEF IInv, TypeOK, BelowNext, CallsInOrder, PointerAhead, ReenteredMarked,
         Undisturbed, From, Innermost, Index

\* An exception ends the emission, with the pointer at the end of the table.
LEMMA ThrowInv ==
    ASSUME IInv, Throw
    PROVE  IInv'
<1> USE BoundsAssumption
<1>1. CASE Top.freed
  BY <1>1, SameEmissions DEF Throw, UseFreedTable, IInv, TypeOK
<1>2. CASE ~Top.freed
  <2>1. /\ stack # <<>> /\ stack' = Front(stack)
        /\ pointer' = [pointer EXCEPT ![Top.ev] = next[Top.ev]]
        /\ silenced' = (Len(stack) = 1) /\ UNCHANGED <<hook, next, cache, fault>>
    BY <1>2, Zenon DEF Throw
  <2>2. silenced' \in BOOLEAN
    BY <2>1, Zenon
  <2>3. Len(stack) \in DOMAIN stack
    BY <2>1, FrameFacts, EmptySeq DEF IInv, TypeOK
  <2>4. Top.ev \in Events
    BY <2>3, FrameFacts DEF Top, IInv, TypeOK
  <2>5. PICK p \in 0 .. MaxIndex : p = next[Top.ev]
    BY <2>4 DEF IInv, TypeOK
  <2>6. From(Top.ev, p) = {}
    <3>1. cache[Top.ev] \in Table
      BY <2>4 DEF IInv, TypeOK
    <3>2. \A k \in DOMAIN cache[Top.ev] : k \in Nat /\ k < p
      BY <2>4, <2>5, <3>1, TableFacts DEF IInv, BelowNext
    <3> QED
      BY <3>2 DEF From
  <2> QED
    BY <2>1, <2>2, <2>5, <2>6, EndInv
<1> QED
  BY <1>1, <1>2

\* zend_hash_move_forward: the pointer after the running listener's return.
Forwarded ==
    LET here == From(Top.ev, pointer[Top.ev])
    IN  IF here = {} THEN pointer[Top.ev] ELSE Min(here) + 1

\* The pointer after the running listener's return, in terms of the invariant:
\* not before what was called last, and right behind it if nothing disturbed.
LEMMA PointerAfterReturn ==
    ASSUME IInv, stack # <<>>, ~Top.freed
    PROVE  /\ Forwarded \in 0 .. MaxIndex /\ Forwarded >= pointer[Top.ev]
           /\ \A k \in From(Top.ev, Forwarded) : k > Index(Top)
           /\ ~Top.reentered /\ ~Top.selfOff => Forwarded = Index(Top) + 1
<1> USE BoundsAssumption DEF IInv
<1>a. PICK here : here = From(Top.ev, pointer[Top.ev])
  OBVIOUS
<1>b. PICK p : p = Forwarded
  OBVIOUS
<1>c. p = IF here = {} THEN pointer[Top.ev] ELSE Min(here) + 1
  BY <1>a, <1>b, Zenon DEF Forwarded
<1>1. /\ Len(stack) \in Nat \ {0} /\ Len(stack) \in DOMAIN stack
      /\ Top \in Frame /\ Top.ev \in Events /\ Index(Top) \in 0 .. MaxIndex - 1
  <2>1. Len(stack) \in Nat \ {0} /\ Len(stack) \in DOMAIN stack
    BY FrameFacts, EmptySeq DEF TypeOK
  <2>2. Top \in Frame /\ Top.invoked # <<>>
    BY <2>1, FrameFacts DEF Top, TypeOK, CallsInOrder
  <2> QED
    BY <2>1, <2>2, FrameFacts DEF TypeOK
<1>2. PICK e \in Events : e = Top.ev
  BY <1>1
<1>3. PICK q \in 0 .. MaxIndex : q = pointer[e]
  BY DEF TypeOK
<1>4. PICK x \in 0 .. MaxIndex - 1 : x = Index(Top)
  BY <1>1
<1>5. DOMAIN cache[e] \subseteq 0 .. MaxIndex - 1
  BY TableFacts DEF TypeOK
<1>6. here = {k \in DOMAIN cache[e] : k >= q}
  BY <1>2, <1>3, <1>a DEF From
<1>7. \A k \in here : k >= x
  <2>1. Innermost(stack, Len(stack))
    BY <1>1 DEF Innermost
  <2> QED
    BY <1>1, <1>4, <1>a, <2>1 DEF PointerAhead, Top
<1>8. ~Top.reentered /\ ~Top.selfOff => x \in here
  BY <1>1, <1>4, <1>a, Zenon DEF Undisturbed, Top
<1>9. CASE here = {}
  BY <1>2, <1>3, <1>4, <1>6, <1>8, <1>9, <1>b, <1>c DEF From
<1>10. CASE here # {}
  <2>1. Min(here) \in here /\ \A y \in here : Min(here) <= y
    <3>1. here \subseteq Nat
      BY <1>5, <1>6
    <3> QED
      BY <1>10, <3>1, MinOfIndices, Zenon
  <2>2. PICK m \in 0 .. MaxIndex - 1 : m = Min(here)
    BY <1>5, <1>6, <2>1
  <2>3. p = m + 1
    BY <1>10, <1>c, <2>2
  <2>4. m >= x /\ m >= q
    BY <1>6, <1>7, <2>1, <2>2
  <2>5. ~Top.reentered /\ ~Top.selfOff => m = x
    BY <1>8, <2>1, <2>2, <2>4
  <2>6. \A k \in From(Top.ev, p) : k > x
    BY <1>2, <1>5, <2>3, <2>4 DEF From
  <2> QED
    BY <1>2, <1>3, <1>4, <1>b, <2>3, <2>4, <2>5, <2>6
<1> QED
  BY <1>9, <1>10

\* The innermost emission goes on with the first element after the pointer.
LEMMA NextCallInv ==
    ASSUME IInv, stack # <<>>, ~Top.freed,
           NEW p \in 0 .. MaxIndex, p >= pointer[Top.ev],
           \A k \in From(Top.ev, p) : k > Index(Top),
           ~Top.reentered /\ ~Top.selfOff => p = Index(Top) + 1,
           From(Top.ev, p) # {},
           pointer' = [pointer EXCEPT ![Top.ev] = p],
           stack' = [stack EXCEPT ![Len(stack)].invoked =
                        Append(@, Min(From(Top.ev, p)))],
           UNCHANGED <<hook, next, cache, silenced, fault>>
    PROVE  IInv'
<1> USE BoundsAssumption DEF IInv
<1>1. PICK L \in Nat \ {0} : L = Len(stack)
  BY FrameFacts, EmptySeq DEF TypeOK
<1>2. /\ DOMAIN stack = 1 .. L /\ L \in 1 .. L
      /\ \A n \in 1 .. L : stack[n] \in Frame /\ stack[n].ev \in Events
  BY <1>1, FrameFacts DEF TypeOK
<1>3. PICK e \in Events : e = Top.ev
  BY <1>1, <1>2 DEF Top
<1>4. DOMAIN cache[e] \subseteq 0 .. MaxIndex - 1
  BY TableFacts DEF TypeOK
<1>5. PICK m : m = Min(From(e, p))
  OBVIOUS
<1>6. /\ m \in DOMAIN cache[e] /\ m \in 0 .. MaxIndex - 1 /\ m >= p
      /\ \A k \in DOMAIN cache[e] : k >= p => k >= m
  <2>1. From(e, p) \subseteq Nat
    BY <1>4 DEF From
  <2>2. m \in From(e, p) /\ \A y \in From(e, p) : m <= y
    BY <1>3, <1>5, <2>1, MinOfIndices, Zenon
  <2> QED
    BY <1>4, <2>1, <2>2 DEF From
<1>7. PICK f \in Frame : f = stack[L]
  BY <1>2
<1>8. /\ f.ev = e /\ f.invoked \in Seq(0 .. MaxIndex - 1)
      /\ f.invoked # <<>> /\ ~f.freed /\ Index(f) \in 0 .. MaxIndex - 1
      /\ m > Index(f) /\ Innermost(stack, L)
      /\ \A i, j \in DOMAIN f.invoked : i < j => f.invoked[i] < f.invoked[j]
      /\ ~f.reentered /\ ~f.selfOff => p = Index(f) + 1
  <2>1. f = Top
    BY <1>1, <1>7 DEF Top
  <2>2. /\ f.invoked # <<>>
        /\ \A i, j \in DOMAIN f.invoked : i < j => f.invoked[i] < f.invoked[j]
    BY <1>2, <1>7 DEF CallsInOrder
  <2>3. Innermost(stack, L)
    BY <1>1 DEF Innermost
  <2>4. f.ev = e /\ ~f.freed /\ (~f.reentered /\ ~f.selfOff => p = Index(f) + 1)
    BY <1>3, <2>1
  <2>5. m > Index(f)
    BY <1>3, <1>6, <2>1 DEF From
  <2> QED
    BY <2>2, <2>3, <2>4, <2>5, FrameFacts DEF TypeOK
<1>9. PICK g : g = [f EXCEPT !.invoked = Append(@, m)]
  OBVIOUS
<1>10. /\ g \in Frame /\ g.ev = e /\ g.invoked = Append(f.invoked, m)
       /\ ~g.freed /\ g.expected = f.expected
       /\ ~g.reentered => ~f.reentered
       /\ ~g.selfOff => ~f.selfOff
  <2>1. Append(f.invoked, m) \in Seq(0 .. MaxIndex - 1)
    BY <1>6, <1>8, OneMoreCall
  <2> QED
    BY <1>8, <1>9, <2>1 DEF Frame
<1>11. Index(g) = m
  BY <1>6, <1>8, <1>10, OneMoreCall DEF Index
<1>12. stack' = [stack EXCEPT ![L] = g]
  <2>1. stack' = [stack EXCEPT ![L].invoked = Append(@, m)]
    BY <1>1, <1>3, <1>5, Zenon
  <2>2. [stack EXCEPT ![L].invoked = Append(@, m)] = [stack EXCEPT ![L] = g]
    BY <1>7, <1>9, Zenon
  <2> QED
    BY <2>1, <2>2
<1>13. /\ stack' \in Seq(Frame) /\ Len(stack') = L /\ DOMAIN stack' = 1 .. L
       /\ stack'[L] = g /\ \A n \in 1 .. L : n # L => stack'[n] = stack[n]
  <2>1. /\ DOMAIN stack' = 1 .. L /\ stack'[L] = g
        /\ \A n \in 1 .. L : n # L => stack'[n] = stack[n]
    BY <1>2, <1>12, Zenon
  <2>2. stack' \in [DOMAIN stack -> Frame]
    <3>1. \A n \in 1 .. L : stack'[n] \in Frame
      BY <1>2, <1>10, <2>1
    <3>2. stack' = [n \in 1 .. L |-> stack'[n]]
      BY <1>2, <1>12
    <3> QED
      BY <1>2, <3>1, <3>2
  <2> QED
    BY <1>1, <2>1, <2>2, StackOfFrames, Zenon DEF TypeOK
<1>14. /\ pointer' \in [Events -> 0 .. MaxIndex] /\ pointer'[e] = p
       /\ \A d \in Events \ {e} : pointer'[d] = pointer[d]
  BY <1>3 DEF TypeOK
<1>15. /\ \A n \in 1 .. L : Innermost(stack', n) <=> Innermost(stack, n)
       /\ \A n \in 1 .. L : n # L /\ stack[n].ev = e => ~Innermost(stack, n)
  <2>1. \A n \in 1 .. L : stack'[n].ev = stack[n].ev
    BY <1>7, <1>8, <1>10, <1>13
  <2>2. \A n \in 1 .. L : \A j \in n + 1 .. L : j \in 1 .. L
    OBVIOUS
  <2>3. \A n \in 1 .. L : n # L => L \in n + 1 .. L
    OBVIOUS
  <2> QED
    BY <1>1, <1>7, <1>8, <1>13, <2>1, <2>2, <2>3 DEF Innermost
<1>16. TypeOK'
  BY <1>13, <1>14 DEF TypeOK
<1>17. BelowNext'
  BY DEF BelowNext
<1>18. CallsInOrder'
  <2> SUFFICES ASSUME NEW n \in 1 .. L
               PROVE  /\ stack'[n].invoked # <<>>
                      /\ \A i, j \in DOMAIN stack'[n].invoked :
                            i < j => stack'[n].invoked[i] < stack'[n].invoked[j]
                      /\ ~stack'[n].freed => Index(stack'[n]) < next[stack'[n].ev]
    BY <1>13 DEF CallsInOrder
  <2>1. CASE n = L
    <3>1. m < next[e]
      BY <1>6 DEF BelowNext
    <3>2. g.invoked # <<>>
      BY <1>6, <1>8, <1>10, OneMoreCall
    <3>3. \A i, j \in DOMAIN g.invoked : i < j => g.invoked[i] < g.invoked[j]
      BY <1>6, <1>8, <1>10, MoreInOrder DEF Index
    <3>4. stack'[n] = g
      BY <1>13, <2>1
    <3> QED
      BY <1>10, <1>11, <3>1, <3>2, <3>3, <3>4
  <2>2. CASE n # L
    <3>1. stack'[n] = stack[n] /\ n \in DOMAIN stack
      BY <1>2, <1>13, <2>2
    <3> QED
      BY <3>1 DEF CallsInOrder
  <2> QED
    BY <2>1, <2>2
<1>19. PointerAhead'
  <2> SUFFICES ASSUME NEW n \in 1 .. L, ~stack'[n].freed, Innermost(stack', n),
                      NEW k \in DOMAIN cache[stack'[n].ev],
                      k >= pointer'[stack'[n].ev]
               PROVE  k >= Index(stack'[n])
    BY <1>13 DEF PointerAhead, From
  <2>1. CASE n = L
    <3>1. stack'[n] = g
      BY <1>13, <2>1
    <3> QED
      BY <1>6, <1>10, <1>11, <1>14, <3>1
  <2>2. CASE n # L
    <3>1. stack'[n] = stack[n] /\ n \in DOMAIN stack /\ Innermost(stack, n)
      BY <1>2, <1>13, <1>15, <2>2
    <3>2. stack[n].ev \in Events \ {e}
      BY <1>2, <1>15, <2>2, <3>1
    <3>3. pointer'[stack[n].ev] = pointer[stack[n].ev]
      BY <1>14, <3>2
    <3> QED
      BY <3>1, <3>3 DEF PointerAhead, From
  <2> QED
    BY <2>1, <2>2
<1>20. ReenteredMarked'
  <2> SUFFICES ASSUME NEW n \in 1 .. L, ~stack'[n].reentered
               PROVE  Innermost(stack', n)
    BY <1>13 DEF ReenteredMarked
  <2>1. CASE n = L
    BY <1>8, <1>15, <2>1
  <2>2. CASE n # L
    BY <1>2, <1>13, <1>15, <2>2 DEF ReenteredMarked
  <2> QED
    BY <2>1, <2>2
<1>21. Undisturbed'
  <2> SUFFICES ASSUME NEW n \in 1 .. L, ~stack'[n].freed,
                      ~stack'[n].reentered, ~stack'[n].selfOff
               PROVE  /\ Index(stack'[n]) \in DOMAIN cache[stack'[n].ev]
                      /\ Index(stack'[n]) >= pointer'[stack'[n].ev]
                      /\ stack'[n].expected \subseteq DOMAIN cache[stack'[n].ev]
                      /\ \A j \in stack'[n].expected :
                            j \in Range(stack'[n].invoked) \/ j > Index(stack'[n])
    BY <1>13 DEF Undisturbed, From
  <2>1. CASE n = L
    <3>1. stack'[n] = g
      BY <1>13, <2>1
    <3>2. ~f.reentered /\ ~f.selfOff
      BY <1>10, <3>1
    <3>3. /\ f.expected \subseteq DOMAIN cache[e]
          /\ \A j \in f.expected : j \in Range(f.invoked) \/ j > Index(f)
      BY <1>2, <1>7, <1>8, <3>2 DEF Undisturbed
    <3>4. p = Index(f) + 1
      BY <1>8, <3>2
    <3>5. /\ m \in Range(g.invoked)
          /\ \A k \in Range(f.invoked) : k \in Range(g.invoked)
      BY <1>6, <1>8, <1>10, OneMoreCall
    <3>6. \A j \in f.expected : j > Index(f) => j >= p
      <4>1. \A j \in f.expected : j \in Nat
        BY <1>4, <3>3
      <4>2. PICK x \in Nat : x = Index(f)
        BY <1>8
      <4>3. \A j \in Nat : j > x => j >= x + 1
        OBVIOUS
      <4> QED
        BY <3>4, <4>1, <4>2, <4>3
    <3>7. \A j \in f.expected : j \in Range(f.invoked) \/ j = m \/ j > m
      BY <1>4, <1>6, <3>3, <3>6
    <3> QED
      BY <1>6, <1>10, <1>11, <1>14, <3>1, <3>3, <3>5, <3>7
  <2>2. CASE n # L
    <3>1. stack'[n] = stack[n] /\ n \in DOMAIN stack
      BY <1>2, <1>13, <2>2
    <3>2. Innermost(stack, n)
      BY <3>1 DEF ReenteredMarked
    <3>3. stack[n].ev \in Events \ {e}
      BY <1>2, <1>15, <2>2, <3>2
    <3>4. pointer'[stack[n].ev] = pointer[stack[n].ev]
      BY <1>14, <3>3
    <3> QED
      BY <3>1, <3>4 DEF Undisturbed, From
  <2> QED
    BY <2>1, <2>2
<1> QED
  BY <1>16, <1>17, <1>18, <1>19, <1>20, <1>21

\* A listener returns: the emission ends or goes on.
LEMMA ReturnInv ==
    ASSUME IInv, Return
    PROVE  IInv'
<1>1. CASE Top.freed
  BY <1>1, SameEmissions DEF Return, UseFreedTable, IInv, TypeOK
<1>2. CASE ~Top.freed
  <2>1. PICK p : p = Forwarded
    OBVIOUS
  <2>3. /\ stack # <<>> /\ pointer' = [pointer EXCEPT ![Top.ev] = p]
        /\ stack' = IF From(Top.ev, p) = {}
                    THEN Front(stack)
                    ELSE [stack EXCEPT ![Len(stack)].invoked =
                             Append(@, Min(From(Top.ev, p)))]
        /\ UNCHANGED <<hook, next, cache, silenced, fault>>
    BY <1>2, <2>1, Zenon DEF Return, Forwarded
  <2>4. /\ p \in 0 .. MaxIndex /\ p >= pointer[Top.ev]
        /\ \A k \in From(Top.ev, p) : k > Index(Top)
        /\ ~Top.reentered /\ ~Top.selfOff => p = Index(Top) + 1
    BY <1>2, <2>1, <2>3, PointerAfterReturn, Zenon
  <2>5. CASE From(Top.ev, p) = {}
    <3>1. stack' = Front(stack) /\ silenced' \in BOOLEAN
      BY <2>3, <2>5, Zenon DEF IInv, TypeOK
    <3> QED
      BY <2>3, <2>4, <2>5, <3>1, EndInv, Zenon
  <2>6. CASE From(Top.ev, p) # {}
    <3>1. stack' = [stack EXCEPT ![Len(stack)].invoked =
                       Append(@, Min(From(Top.ev, p)))]
      BY <2>3, <2>6, Zenon
    <3> QED
      BY <1>2, <2>3, <2>4, <2>6, <3>1, NextCallInv, Zenon
  <2> QED
    BY <2>5, <2>6, Zenon
<1> QED
  BY <1>1, <1>2

LEMMA NextInv == IInv /\ [Next]_vars => IInv'
<1> SUFFICES ASSUME IInv, [Next]_vars
             PROVE  IInv'
  OBVIOUS
<1>1. CASE UNCHANGED vars
  BY <1>1, SameEmissions DEF vars, IInv, TypeOK
<1>2. ASSUME NEW e \in Events, NEW l \in Listeners, On(e, l)
      PROVE  IInv'
  BY <1>2, OnInv
<1>3. ASSUME NEW e \in Events, NEW l \in Listeners, Off(e, l)
      PROVE  IInv'
  BY <1>3, OffInv
<1>4. ASSUME NEW e \in Events, RemoveListeners(e)
      PROVE  IInv'
  BY <1>4, RemoveListenersInv
<1>5. ASSUME NEW e \in Events, Emit(e)
      PROVE  IInv'
  BY <1>5, EmitInv
<1>6. CASE Return
  BY <1>6, ReturnInv
<1>7. CASE Throw
  BY <1>7, ThrowInv
<1> QED
  BY <1>1, <1>2, <1>3, <1>4, <1>5, <1>6, <1>7, Zenon DEF Next

-----------------------------------------------------------------------------
(* Theorems. *)

\* The inductive invariant of event_emitter.c holds whatever listeners do while
\* emissions walk the table.
THEOREM Invariance == Spec => []IInv
  BY InitInv, NextInv, PTL DEF Spec

\* emit() calls registrations in the order they were made and none twice, for
\* any nesting of emissions, registrations and removals inside listeners.
THEOREM EmissionsCallInOrder == Spec => []CalledInOrder
<1>1. IInv => CalledInOrder
  BY Zenon DEF IInv, CallsInOrder, CalledInOrder
<1> QED
  BY <1>1, Invariance, PTL

\* An emission that ends by the return of its last listener has called every
\* listener registered all through it, unless the same event was emitted inside
\* it or a running listener unregistered itself.
THEOREM EmissionsSkipNone == Spec => NoneSkipped
<1>1. ASSUME IInv, Return, Len(stack') < Len(stack),
             ~Top.reentered, ~Top.selfOff
      PROVE  Top.expected \subseteq Range(Top.invoked)
  <2>1. /\ stack # <<>> /\ stack \in Seq(Frame)
        /\ Len(stack) \in Nat /\ Len(stack) \in DOMAIN stack
    BY <1>1, FrameFacts, EmptySeq DEF Return, IInv, TypeOK
  <2>2. ~Top.freed
    <3>1. stack' # stack
      BY <1>1, <2>1
    <3> QED
      BY <1>1, <3>1, Zenon DEF Return, UseFreedTable
  <2>3. PICK p : p = Forwarded
    OBVIOUS
  <2>5. stack' = IF From(Top.ev, p) = {}
                 THEN Front(stack)
                 ELSE [stack EXCEPT ![Len(stack)].invoked =
                          Append(@, Min(From(Top.ev, p)))]
    BY <1>1, <2>2, <2>3, Zenon DEF Return, Forwarded
  <2>6. From(Top.ev, p) = {}
    <3>1. CASE From(Top.ev, p) # {}
      <4>1. stack' = [stack EXCEPT ![Len(stack)].invoked =
                         Append(@, Min(From(Top.ev, p)))]
        BY <2>5, <3>1, Zenon
      <4>2. PICK x : x = [stack[Len(stack)] EXCEPT !.invoked =
                             Append(@, Min(From(Top.ev, p)))]
        OBVIOUS
      <4>3. stack' = [stack EXCEPT ![Len(stack)] = x]
        BY <4>1, <4>2, Zenon
      <4>4. Len(stack') = Len(stack)
        BY <2>1, <4>3
      <4> QED
        BY <1>1, <2>1, <4>4
    <3> QED
      BY <3>1
  <2>7. p = Index(Top) + 1
    BY <1>1, <2>1, <2>2, <2>3, PointerAfterReturn, Zenon
  <2>8. /\ Index(Top) \in From(Top.ev, pointer[Top.ev])
        /\ Top.expected \subseteq DOMAIN cache[Top.ev]
        /\ \A k \in Top.expected : k \in Range(Top.invoked) \/ k > Index(Top)
    BY <1>1, <2>1, <2>2, Zenon DEF IInv, Undisturbed, Top
  <2>9. Top.ev \in Events
    BY <2>1, FrameFacts DEF Top
  <2>10. DOMAIN cache[Top.ev] \subseteq 0 .. MaxIndex - 1
    BY <1>1, <2>9, TableFacts DEF IInv, TypeOK
  <2>11. PICK x \in Nat : x = Index(Top)
    BY BoundsAssumption, <2>8, <2>10 DEF From
  <2>12. ASSUME NEW k \in Top.expected, k > Index(Top)
         PROVE  FALSE
    <3>1. k \in DOMAIN cache[Top.ev] /\ k \in Nat
      BY BoundsAssumption, <2>8, <2>10
    <3>2. k >= p
      BY <2>7, <2>11, <2>12, <3>1
    <3> QED
      BY <2>6, <3>1, <3>2 DEF From
  <2> QED
    BY <2>8, <2>12
<1>2. IInv /\ [Next]_vars =>
         [Return /\ Len(stack') < Len(stack)
          => \/ Top.reentered
             \/ Top.selfOff
             \/ Top.expected \subseteq Range(Top.invoked)]_vars
  BY <1>1, Zenon
<1> QED
  BY <1>2, Invariance, PTL DEF Spec, NoneSkipped
=============================================================================
