-------------------------- MODULE RoutineCallProofs --------------------------
(***************************************************************************)
(* Proofs about RoutineCall: a promise is released unsettled only for a    *)
(* call that was lost, and a call is what RemoteCall says.                 *)
(*                                                                         *)
(* The inductive invariant follows a call through the sequences it is in:  *)
(* the queue, the write queue of routine_pipe, the socket, a routine.      *)
(***************************************************************************)
EXTENDS RoutineCall, SequenceTheorems, TLAPS

Queued == ElementsOf(queue)
Sending == ElementsOf(sending)
Wire == ElementsOf(wire)
Begun == ElementsOf(begun)

Distinct(s) == \A i, j \in 1 .. Len(s) : s[i] = s[j] => i = j

\* A live routine executes c or has its end open.
Taken(c) == \E r \in alive : running[r] = c \/ c \in holds[r]

\* The call is neither on its way nor with a live routine.
Gone(c) == c \notin Sending \cup Wire /\ ~Taken(c)

\* The state of the pipe bounds the state of the promise.
PromiseFollowsPipe ==
    \A c \in Calls :
        /\ promise[c] = "none" <=> c > made
        /\ c > made => pipe[c] = "none"
        /\ pipe[c] = "none" => promise[c] \in {"none", "pending", "dropped"}
        /\ pipe[c] = "open" => promise[c] = "pending"
        /\ pipe[c] = "closing" => promise[c] \in {"pending", "resolved"}
        /\ pipe[c] = "closed" => promise[c] \in {"resolved", "dropped"}
        /\ ~inited => pipe[c] = "none" /\ promise[c] # "dropped"

\* A call is on its way once, with its pipe open, and before it has begun.
OnTheWayOnce ==
    /\ Distinct(queue) /\ Distinct(sending) /\ Distinct(wire)
    /\ Queued \subseteq 1 .. made
    /\ Sending \cap Wire = {} /\ (Sending \cup Wire) \cap Begun = {}
    /\ Sending \subseteq own /\ Sending \cap written = {}
    /\ \A c \in Sending \cup Wire : pipe[c] = "open"
    /\ \A c \in Begun \cup written : pipe[c] # "none"

\* One routine executes a call, from its beginning to its end.
ExecutedOnce ==
    /\ \A r, s \in Routines : running[r] # NoCall /\ running[r] = running[s] => r = s
    /\ \A r \in Routines : running[r] # NoCall => running[r] \in Begun \ ended
    /\ \A r \in alive : running[r] # NoCall => pipe[running[r]] = "open"
    /\ \A r \in Routines : holds[r] \subseteq ended
    /\ ended \subseteq Begun

\* No read of a result gets lost on its way to an open pipe.
ResultIsKept ==
    \A c \in Calls :
        /\ stream[c] > 0 => c \in ended
        /\ pipe[c] = "open" /\ c \in ended => stream[c] + left[c] = Size(c)
        /\ promise[c] = "resolved" => c \in ended

\* Who has an open pipe gets an answer or was lost; who is given up was lost.
AnsweredOrLost ==
    \A c \in Calls :
        /\ pipe[c] = "open" => ~Gone(c) \/ stream[c] > 0 \/ c \in lost
        /\ promise[c] = "dropped" => c \in lost /\ Gone(c)
        /\ pipe[c] = "closing" /\ promise[c] = "pending" => c \in lost /\ Gone(c)

IInv ==
    /\ TypeOK /\ PromiseFollowsPipe /\ OnTheWayOnce /\ ExecutedOnce
    /\ ResultIsKept /\ AnsweredOrLost
-----------------------------------------------------------------------------
(* Sequences of calls without repetitions. *)

\* Append adds one element (zend_hash_next_index_insert, uv_write2).
LEMMA ElementsOfAppend ==
    ASSUME NEW S, NEW s \in Seq(S), NEW e \in S
    PROVE  /\ Append(s, e) \in Seq(S)
           /\ ElementsOf(Append(s, e)) = ElementsOf(s) \cup {e}
           /\ Distinct(s) /\ e \notin ElementsOf(s) => Distinct(Append(s, e))
<1> DEFINE t == Append(s, e)
<1>1. /\ t \in Seq(S) /\ Len(t) = Len(s) + 1 /\ Len(s) \in Nat
      /\ \A i \in 1 .. Len(s) : t[i] = s[i]
      /\ t[Len(s) + 1] = e
  OBVIOUS
<1> HIDE DEF t
<1>2. ElementsOf(t) = ElementsOf(s) \cup {e}
  BY <1>1 DEF ElementsOf
<1>3. Distinct(s) /\ e \notin ElementsOf(s) => Distinct(t)
  BY <1>1 DEF ElementsOf, Distinct
<1> QED
  BY <1>1, <1>2, <1>3 DEF t

\* \o joins the elements (the init callbacks of a whole queue).
LEMMA ElementsOfConcat ==
    ASSUME NEW S, NEW s \in Seq(S), NEW t \in Seq(S)
    PROVE  /\ s \o t \in Seq(S)
           /\ ElementsOf(s \o t) = ElementsOf(s) \cup ElementsOf(t)
           /\ Distinct(s) /\ Distinct(t) /\ ElementsOf(s) \cap ElementsOf(t) = {}
                 => Distinct(s \o t)
<1> DEFINE u == s \o t
<1>1. /\ u \in Seq(S) /\ Len(u) = Len(s) + Len(t) /\ Len(s) \in Nat /\ Len(t) \in Nat
      /\ \A i \in 1 .. Len(s) : u[i] = s[i]
      /\ \A i \in 1 .. Len(t) : u[Len(s) + i] = t[i]
      /\ \A i \in 1 .. Len(u) : i \in 1 .. Len(s) \/ i - Len(s) \in 1 .. Len(t)
  OBVIOUS
<1> HIDE DEF u
<1>2. ElementsOf(u) = ElementsOf(s) \cup ElementsOf(t)
  <2>1. ElementsOf(s) \cup ElementsOf(t) \subseteq ElementsOf(u)
    <3>1. \A i \in 1 .. Len(s) : i \in 1 .. Len(u)
      BY <1>1
    <3>2. \A i \in 1 .. Len(t) : Len(s) + i \in 1 .. Len(u)
      BY <1>1
    <3> QED
      BY <3>1, <3>2, <1>1 DEF ElementsOf
  <2>2. ASSUME NEW i \in 1 .. Len(u)
        PROVE  u[i] \in ElementsOf(s) \cup ElementsOf(t)
    <3>1. CASE i \in 1 .. Len(s)
      BY <3>1, <1>1 DEF ElementsOf
    <3>2. CASE i - Len(s) \in 1 .. Len(t)
      <4>1. u[i] = t[i - Len(s)]
        BY <3>2, <1>1
      <4> QED
        BY <3>2, <4>1 DEF ElementsOf
    <3> QED
      BY <3>1, <3>2, <1>1
  <2> QED
    BY <2>1, <2>2 DEF ElementsOf
<1>3. ASSUME Distinct(s), Distinct(t), ElementsOf(s) \cap ElementsOf(t) = {}
      PROVE  Distinct(u)
  <2> SUFFICES ASSUME NEW i \in 1 .. Len(u), NEW j \in 1 .. Len(u), u[i] = u[j], i < j
               PROVE  FALSE
    <3>1. Len(u) \in Nat
      BY <1>1
    <3> QED
      BY <3>1 DEF Distinct
  <2>1. CASE j \in 1 .. Len(s)
    BY <2>1, <1>1, <1>3 DEF Distinct
  <2>2. CASE i \notin 1 .. Len(s)
    <3>1. i - Len(s) \in 1 .. Len(t) /\ j - Len(s) \in 1 .. Len(t)
      BY <2>2, <1>1
    <3>2. u[i] = t[i - Len(s)] /\ u[j] = t[j - Len(s)]
      BY <3>1, <1>1
    <3>3. i - Len(s) # j - Len(s)
      BY <1>1
    <3> QED
      BY <3>1, <3>2, <3>3, <1>3 DEF Distinct
  <2>3. CASE i \in 1 .. Len(s) /\ j \notin 1 .. Len(s)
    <3>1. j - Len(s) \in 1 .. Len(t)
      BY <2>3, <1>1
    <3>2. u[i] = s[i] /\ u[j] = t[j - Len(s)]
      BY <3>1, <2>3, <1>1
    <3> QED
      BY <3>1, <3>2, <2>3, <1>3 DEF ElementsOf
  <2> QED
    BY <2>1, <2>2, <2>3, <1>1
<1> QED
  BY <1>1, <1>2, <1>3 DEF u

\* Head and Tail part the elements (the first message of a socket).
LEMMA ElementsOfTail ==
    ASSUME NEW S, NEW s \in Seq(S), s # <<>>
    PROVE  /\ Head(s) \in S /\ Tail(s) \in Seq(S)
           /\ ElementsOf(s) = ElementsOf(Tail(s)) \cup {Head(s)}
           /\ Distinct(s) => Distinct(Tail(s)) /\ Head(s) \notin ElementsOf(Tail(s))
<1> DEFINE t == Tail(s)
<1>1. /\ Len(s) \in Nat \ {0} /\ Head(s) = s[1] /\ Head(s) \in S
      /\ t \in Seq(S) /\ Len(t) = Len(s) - 1
      /\ \A i \in 1 .. Len(t) : t[i] = s[i + 1]
  BY HeadTailProperties, EmptySeq, LenProperties, SMTT(30)
<1> HIDE DEF t
<1>2. ElementsOf(s) = ElementsOf(t) \cup {Head(s)}
  <2>1. ElementsOf(t) \cup {Head(s)} \subseteq ElementsOf(s)
    BY <1>1 DEF ElementsOf
  <2>2. ASSUME NEW i \in 1 .. Len(s), i # 1
        PROVE  s[i] \in ElementsOf(t)
    <3>1. i - 1 \in 1 .. Len(t) /\ t[i - 1] = s[i]
      BY <1>1, <2>2
    <3> QED
      BY <3>1 DEF ElementsOf
  <2> QED
    BY <1>1, <2>1, <2>2 DEF ElementsOf
<1>3. Distinct(s) => Distinct(t) /\ Head(s) \notin ElementsOf(t)
  BY <1>1 DEF ElementsOf, Distinct
<1> QED
  BY <1>1, <1>2, <1>3 DEF t

\* The empty sequence and that of one call.
LEMMA ElementsOfShort ==
    /\ ElementsOf(<<>>) = {} /\ Distinct(<<>>)
    /\ \A c : ElementsOf(<<c>>) = {c} /\ Distinct(<<c>>)
  BY DEF ElementsOf, Distinct
-----------------------------------------------------------------------------
(* The inductive invariant. *)

\* Before the loop starts nothing is sent.
LEMMA InitInv == Init => IInv
<1> SUFFICES ASSUME Init
             PROVE  IInv
  OBVIOUS
<1> USE CallsAssumption DEF Init
<1>1. Queued = {} /\ Sending = {} /\ Wire = {} /\ Begun = {}
  BY ElementsOfShort DEF Queued, Sending, Wire, Begun
<1>2. Distinct(queue) /\ Distinct(sending) /\ Distinct(wire)
  BY ElementsOfShort
<1>3. TypeOK
  <2>1. /\ made \in 0 .. NCalls /\ queue \in Seq(Calls) /\ sending \in Seq(Calls)
        /\ wire \in Seq(Calls) /\ begun \in Seq(Calls)
    OBVIOUS
  <2>2. /\ promise \in [Calls -> {"none", "pending", "resolved", "dropped"}]
        /\ pipe \in [Calls -> {"none", "open", "closing", "closed"}]
        /\ table = {c \in Calls : pipe[c] \in {"open", "closing"}}
    OBVIOUS
  <2>3. /\ running \in [Routines -> Calls \cup {NoCall}]
        /\ holds \in [Routines -> SUBSET Calls]
        /\ left \in [Calls -> 0 .. 2] /\ stream \in [Calls -> 0 .. 2]
    OBVIOUS
  <2> QED
    BY <2>1, <2>2, <2>3 DEF TypeOK
<1>4. PromiseFollowsPipe
  BY DEF PromiseFollowsPipe, Calls
<1>5. OnTheWayOnce
  BY <1>1, <1>2 DEF OnTheWayOnce
<1>6. ExecutedOnce /\ ResultIsKept /\ AnsweredOrLost
  BY DEF ExecutedOnce, ResultIsKept, AnsweredOrLost
<1> QED
  BY <1>3, <1>4, <1>5, <1>6 DEF IInv

\* The sequences are sequences of calls.
LEMMA ElementsAreCalls ==
    TypeOK => /\ Queued \subseteq Calls /\ Sending \subseteq Calls
              /\ Wire \subseteq Calls /\ Begun \subseteq Calls
  BY ElementOfSeq DEF TypeOK, Queued, Sending, Wire, Begun, ElementsOf

\* What a step leaves alone keeps its elements.
LEMMA SameElements ==
    /\ queue' = queue => Queued' = Queued /\ Distinct(queue') = Distinct(queue)
    /\ sending' = sending => Sending' = Sending /\ Distinct(sending') = Distinct(sending)
    /\ wire' = wire => Wire' = Wire /\ Distinct(wire') = Distinct(wire)
    /\ begun' = begun => Begun' = Begun
  BY DEF Queued, Sending, Wire, Begun

\* execute(): the call is queued or sent.
LEMMA ExecuteInv == IInv /\ Execute => IInv'
<1> SUFFICES ASSUME IInv, Execute
             PROVE  IInv'
  OBVIOUS
<1> USE CallsAssumption DEF IInv
<1> DEFINE c == made + 1
<1>1. made \in Nat /\ c \in Calls /\ c > made /\ made' = c
  BY DEF TypeOK, Execute, Calls
<1>a. \A x \in Calls : x # c => (x > made' <=> x > made)
  BY <1>1 DEF Calls
<1>2. pipe[c] = "none" /\ promise[c] = "none"
  BY <1>1 DEF PromiseFollowsPipe
<1>3. c \notin Queued \cup Sending \cup Wire \cup Begun \cup written
  BY <1>1, <1>2 DEF OnTheWayOnce
<1>4. CASE inited
  <2>1. /\ table' = table \cup {c} /\ own' = own \cup {c}
        /\ pipe' = [pipe EXCEPT ![c] = "open"]
        /\ sending' = Append(sending, c) /\ queue' = queue
    BY <1>1, <1>4, ElementsOfShort DEF Execute, AsyncInit, Add, TypeOK
  <2>2. Sending' = Sending \cup {c} /\ Distinct(sending') /\ sending' \in Seq(Calls)
    BY <1>1, <1>3, <2>1, ElementsOfAppend DEF TypeOK, OnTheWayOnce, Sending
  <2>3. /\ Queued' = Queued /\ Wire' = Wire /\ Begun' = Begun
        /\ Distinct(queue') /\ Distinct(wire')
    BY <2>1, SameElements DEF Execute, OnTheWayOnce, routineVars
  <2> HIDE DEF c
  <2> USE DEF Execute, routineVars
  <2>4. TypeOK'
    BY <1>1, <2>1, <2>2 DEF TypeOK
  <2>5. PromiseFollowsPipe'
    BY <1>1, <1>a, <2>1, <1>4 DEF TypeOK, PromiseFollowsPipe
  <2>6. OnTheWayOnce'
    BY <1>1, <1>2, <1>3, <2>1, <2>2, <2>3 DEF TypeOK, OnTheWayOnce
  <2>7. ExecutedOnce'
    BY <1>1, <1>2, <1>3, <2>1, <2>3 DEF TypeOK, ExecutedOnce
  <2>8. ResultIsKept'
    BY <1>1, <1>2, <1>3, <2>1, <2>3 DEF TypeOK, ResultIsKept, ExecutedOnce, c
  <2>9. AnsweredOrLost'
    BY <1>1, <1>2, <1>3, <2>1, <2>2, <2>3 DEF TypeOK, AnsweredOrLost, Gone, Taken, c
  <2> QED
    BY <2>4, <2>5, <2>6, <2>7, <2>8, <2>9
<1>5. CASE ~inited
  <2>1. /\ queue' = Append(queue, c)
        /\ UNCHANGED <<table, pipe, own, sending>>
    BY <1>5 DEF Execute, AsyncInit
  <2>2. Queued' = Queued \cup {c} /\ Distinct(queue') /\ queue' \in Seq(Calls)
    BY <1>1, <1>3, <2>1, ElementsOfAppend DEF TypeOK, OnTheWayOnce, Queued
  <2>3. /\ Sending' = Sending /\ Wire' = Wire /\ Begun' = Begun
        /\ Distinct(sending') /\ Distinct(wire')
    BY <2>1, SameElements DEF Execute, OnTheWayOnce, routineVars
  <2> HIDE DEF c
  <2> USE DEF Execute, routineVars
  <2>4. TypeOK'
    BY <1>1, <2>1, <2>2 DEF TypeOK
  <2>5. PromiseFollowsPipe'
    BY <1>1, <1>a, <1>2, <2>1, <1>5 DEF TypeOK, PromiseFollowsPipe
  <2>6. OnTheWayOnce'
    BY <1>1, <1>2, <1>3, <2>1, <2>2, <2>3 DEF TypeOK, OnTheWayOnce, c
  <2>7. ExecutedOnce'
    BY <1>1, <1>2, <1>3, <2>1, <2>3 DEF TypeOK, ExecutedOnce
  <2>8. ResultIsKept'
    BY <1>1, <1>2, <1>3, <2>1, <2>3 DEF TypeOK, ResultIsKept, c
  <2>9. AnsweredOrLost'
    BY <1>1, <1>2, <1>3, <2>1, <2>3 DEF TypeOK, AnsweredOrLost, Gone, Taken, c
  <2> QED
    BY <2>4, <2>5, <2>6, <2>7, <2>8, <2>9
<1> QED
  BY <1>4, <1>5
-----------------------------------------------------------------------------
\* The loop starts: the actor sends the queue, a worker gives it up.
LEMMA StartInv == IInv /\ Start => IInv'
<1> SUFFICES ASSUME IInv, Start
             PROVE  IInv'
  OBVIOUS
<1> USE CallsAssumption DEF IInv
<1>1. \A c \in Calls : pipe[c] = "none" /\ promise[c] \in {"none", "pending"}
  BY DEF TypeOK, PromiseFollowsPipe, Start
<1>2. Sending = {} /\ Wire = {} /\ Begun = {} /\ written = {}
  BY <1>1, ElementsAreCalls DEF OnTheWayOnce, TypeOK
<1>3. Queued \subseteq Calls /\ \A c \in Queued : promise[c] = "pending"
  BY <1>1 DEF TypeOK, OnTheWayOnce, PromiseFollowsPipe, Calls
<1>4. ended = {} /\ \A c \in Calls : stream[c] = 0
  BY <1>2 DEF ExecutedOnce, ResultIsKept, TypeOK
<1>5. /\ Queued' = Queued /\ Wire' = Wire /\ Begun' = Begun
      /\ Distinct(queue') /\ Distinct(wire')
  BY SameElements DEF Start, OnTheWayOnce, routineVars
<1>6. CASE role = "ACTOR"
  <2>1. /\ table' = table \cup Queued /\ own' = own \cup Queued
        /\ pipe' = [c \in Calls |-> IF c \in Queued THEN "open" ELSE pipe[c]]
        /\ sending' = sending \o queue
        /\ UNCHANGED <<promise, lost>>
    BY <1>6 DEF Start, Add, Queued
  <2>2. Sending' = Queued /\ Distinct(sending') /\ sending' \in Seq(Calls)
    <3>1. /\ sending \in Seq(Calls) /\ queue \in Seq(Calls)
          /\ Distinct(sending) /\ Distinct(queue)
      BY DEF TypeOK, OnTheWayOnce
    <3>2. ElementsOf(sending) = {}
      BY <1>2 DEF Sending
    <3>3. /\ ElementsOf(sending \o queue) = ElementsOf(sending) \cup ElementsOf(queue)
          /\ Distinct(sending \o queue) /\ sending \o queue \in Seq(Calls)
      <4>1. ElementsOf(sending) \cap ElementsOf(queue) = {}
        BY <3>2
      <4> QED
        BY <3>1, <4>1, ElementsOfConcat, Zenon
    <3> QED
      BY <2>1, <3>2, <3>3, Zenon DEF Sending, Queued
  <2> USE DEF Start, routineVars
  <2>3. TypeOK'
    <3>1. /\ pipe' \in [Calls -> {"none", "open", "closing", "closed"}]
          /\ table' = {c \in Calls : pipe'[c] \in {"open", "closing"}}
      BY <1>1, <1>3, <2>1 DEF TypeOK
    <3> QED
      BY <1>3, <2>1, <2>2, <3>1 DEF TypeOK
  <2>4. PromiseFollowsPipe'
    BY <1>1, <1>3, <2>1 DEF TypeOK, PromiseFollowsPipe
  <2>5. OnTheWayOnce'
    BY <1>2, <1>3, <1>5, <2>1, <2>2 DEF TypeOK, OnTheWayOnce
  <2>6. ExecutedOnce'
    BY <1>2, <1>5, <2>1 DEF TypeOK, ExecutedOnce
  <2>7. ResultIsKept'
    BY <1>3, <1>4, <2>1 DEF TypeOK, ResultIsKept
  <2>8. AnsweredOrLost'
    BY <1>1, <1>2, <1>3, <1>5, <2>1, <2>2 DEF TypeOK, AnsweredOrLost, Gone, Taken
  <2> QED
    BY <2>3, <2>4, <2>5, <2>6, <2>7, <2>8
<1>7. CASE role # "ACTOR"
  <2>1. /\ promise' = [c \in Calls |-> IF c \in Queued THEN "dropped" ELSE promise[c]]
        /\ lost' = lost \cup Queued
        /\ UNCHANGED <<table, pipe, own, sending>>
    BY <1>7 DEF Start, FreeQueued, Queued
  <2>2. Sending' = Sending /\ Distinct(sending')
    BY <2>1, SameElements DEF OnTheWayOnce
  <2>3. \A r \in alive : running[r] = NoCall /\ holds[r] = {}
    BY <1>2, <1>4 DEF ExecutedOnce, TypeOK
  <2> USE DEF Start, routineVars
  <2>4. TypeOK'
    BY <1>3, <2>1 DEF TypeOK
  <2>5. PromiseFollowsPipe'
    BY <1>1, <1>3, <2>1 DEF TypeOK, PromiseFollowsPipe
  <2>6. OnTheWayOnce'
    BY <1>2, <1>5, <2>1, <2>2 DEF TypeOK, OnTheWayOnce
  <2>7. ExecutedOnce'
    BY <1>5, <2>1 DEF TypeOK, ExecutedOnce
  <2>8. ResultIsKept'
    BY <1>1, <1>3, <2>1 DEF TypeOK, ResultIsKept
  <2>9. AnsweredOrLost'
    BY <1>1, <1>2, <1>3, <1>5, <2>1, <2>2, <2>3
       DEF TypeOK, AnsweredOrLost, Gone, Taken, Calls, NoCall
  <2> QED
    BY <2>4, <2>5, <2>6, <2>7, <2>8, <2>9
<1> QED
  BY <1>6, <1>7

\* The write queue moves: the message is in the socket, or lost.
LEMMA SendInv == IInv /\ (Send \/ SendFails) => IInv'
<1> SUFFICES ASSUME IInv, Send \/ SendFails
             PROVE  IInv'
  OBVIOUS
<1> USE CallsAssumption DEF IInv
<1> DEFINE c == Head(sending)
<1>1. /\ c \in Calls /\ sending' \in Seq(Calls) /\ Distinct(sending')
      /\ Sending = Sending' \cup {c} /\ c \notin Sending'
  <2>1. /\ sending \in Seq(Calls) /\ sending # <<>> /\ Distinct(sending)
        /\ sending' = Tail(sending)
    BY DEF Send, SendFails, TypeOK, OnTheWayOnce
  <2> QED
    BY <2>1, ElementsOfTail DEF Sending
<1>2. /\ c \notin Wire \cup Begun /\ pipe[c] = "open" /\ c \in own
  BY <1>1 DEF OnTheWayOnce
<1>3. Queued' = Queued /\ Begun' = Begun /\ Distinct(queue')
  BY SameElements DEF Send, SendFails, OnTheWayOnce, routineVars
<1>4. CASE Send
  <2>1. /\ wire' = Append(wire, c) /\ written' = written \cup {c} /\ lost' = lost
    BY <1>4 DEF Send
  <2>2. Wire' = Wire \cup {c} /\ Distinct(wire') /\ wire' \in Seq(Calls)
    BY <1>1, <1>2, <2>1, ElementsOfAppend DEF TypeOK, OnTheWayOnce, Wire
  <2> HIDE DEF c
  <2> USE <1>4 DEF Send, routineVars
  <2>3. TypeOK'
    BY <1>1, <2>1, <2>2 DEF TypeOK
  <2>4. PromiseFollowsPipe'
    BY DEF PromiseFollowsPipe
  <2>5. OnTheWayOnce'
    BY <1>1, <1>2, <1>3, <2>1, <2>2 DEF TypeOK, OnTheWayOnce
  <2>6. ExecutedOnce' /\ ResultIsKept'
    BY <1>3 DEF ExecutedOnce, ResultIsKept
  <2>7. AnsweredOrLost'
    BY <1>1, <1>2, <2>1, <2>2, PromiseFollowsPipe
       DEF PromiseFollowsPipe, AnsweredOrLost, Gone, Taken
  <2> QED
    BY <2>3, <2>4, <2>5, <2>6, <2>7
<1>5. CASE SendFails
  <2>1. wire' = wire /\ written' = written \cup {c} /\ lost' = lost \cup {c}
    BY <1>5 DEF SendFails
  <2>2. Wire' = Wire /\ Distinct(wire')
    BY <2>1, SameElements DEF OnTheWayOnce
  <2> HIDE DEF c
  <2> USE <1>5 DEF SendFails, routineVars
  <2>3. TypeOK'
    BY <1>1, <2>1 DEF TypeOK
  <2>4. PromiseFollowsPipe'
    BY DEF PromiseFollowsPipe
  <2>5. OnTheWayOnce'
    BY <1>1, <1>2, <1>3, <2>1, <2>2 DEF TypeOK, OnTheWayOnce
  <2>6. ExecutedOnce' /\ ResultIsKept'
    BY <1>3 DEF ExecutedOnce, ResultIsKept
  <2>7. AnsweredOrLost'
    BY <1>1, <1>2, <2>1, <2>2 DEF AnsweredOrLost, Gone, Taken
  <2> QED
    BY <2>3, <2>4, <2>5, <2>6, <2>7
<1> QED
  BY <1>4, <1>5
-----------------------------------------------------------------------------
\* The callbacks of the caller's loop.
LEMMA CallerInv ==
    ASSUME IInv, NEW c \in Calls,
           Write2Cb(c) \/ ReadResult(c) \/ ReadEof(c) \/ CloseCb(c)
    PROVE  IInv'
<1> USE CallsAssumption DEF IInv
<1>1. /\ UNCHANGED <<role, inited, made, queue, sending, wire, routineVars,
                     begun, ended, lost>>
  BY DEF Write2Cb, ReadResult, ReadEof, CloseCb
<1>2. /\ Queued' = Queued /\ Sending' = Sending /\ Wire' = Wire /\ Begun' = Begun
      /\ Distinct(queue') /\ Distinct(sending') /\ Distinct(wire')
  BY <1>1, SameElements DEF OnTheWayOnce
<1>3. \A x \in Calls : Gone(x)' <=> Gone(x)
  BY <1>1, <1>2 DEF Gone, Taken, routineVars
<1>4. CASE Write2Cb(c)
  <2> USE <1>4 DEF Write2Cb
  <2>1. TypeOK'
    BY DEF TypeOK, routineVars
  <2>2. PromiseFollowsPipe' /\ OnTheWayOnce'
    BY <1>1, <1>2 DEF PromiseFollowsPipe, OnTheWayOnce
  <2>3. ExecutedOnce' /\ ResultIsKept' /\ AnsweredOrLost'
    BY <1>1, <1>2, <1>3 DEF ExecutedOnce, ResultIsKept, AnsweredOrLost, routineVars
  <2> QED
    BY <2>1, <2>2, <2>3
<1>5. CASE ReadResult(c)
  <2> USE <1>5 DEF ReadResult
  <2>1. c \in ended /\ c \notin Sending \cup Wire /\ \A r \in Routines : running[r] # c
    BY DEF TypeOK, ResultIsKept, ExecutedOnce, OnTheWayOnce, Calls, NoCall
  <2>2. TypeOK'
    BY DEF TypeOK, routineVars
  <2>3. PromiseFollowsPipe'
    BY <1>1 DEF TypeOK, PromiseFollowsPipe
  <2>4. OnTheWayOnce'
    BY <1>1, <1>2, <2>1 DEF TypeOK, OnTheWayOnce
  <2>5. ExecutedOnce'
    BY <1>1, <1>2, <2>1 DEF TypeOK, ExecutedOnce, routineVars
  <2>6. ResultIsKept'
    BY <1>1, <2>1 DEF TypeOK, ResultIsKept, routineVars
  <2>7. AnsweredOrLost'
    BY <1>1, <1>3 DEF TypeOK, AnsweredOrLost
  <2> QED
    BY <2>2, <2>3, <2>4, <2>5, <2>6, <2>7
<1>6. CASE ReadEof(c)
  <2> USE <1>6 DEF ReadEof
  <2>1. Gone(c)
    BY DEF SomeoneMayWrite, Gone, Taken, OnTheWayOnce, Wire
  <2>2. c \in lost
    BY <2>1 DEF AnsweredOrLost
  <2>3. TypeOK'
    BY DEF TypeOK, routineVars
  <2>4. PromiseFollowsPipe'
    BY <1>1 DEF TypeOK, PromiseFollowsPipe
  <2>5. OnTheWayOnce'
    BY <1>1, <1>2, <2>1 DEF TypeOK, OnTheWayOnce, Gone
  <2>6. ExecutedOnce'
    BY <1>1, <1>2, <2>1 DEF TypeOK, ExecutedOnce, routineVars, Gone, Taken
  <2>7. ResultIsKept'
    BY <1>1 DEF TypeOK, ResultIsKept, routineVars
  <2>8. AnsweredOrLost'
    BY <1>1, <1>3, <2>1, <2>2 DEF TypeOK, AnsweredOrLost
  <2> QED
    BY <2>3, <2>4, <2>5, <2>6, <2>7, <2>8
<1>7. CASE CloseCb(c)
  <2> USE <1>7 DEF CloseCb
  <2>1. promise[c] \in {"pending", "resolved"}
    BY DEF PromiseFollowsPipe
  <2>2. TypeOK'
    BY <2>1 DEF TypeOK, routineVars
  <2>3. PromiseFollowsPipe'
    BY <1>1, <2>1 DEF TypeOK, PromiseFollowsPipe
  <2>4. OnTheWayOnce'
    BY <1>1, <1>2 DEF TypeOK, OnTheWayOnce
  <2>5. ExecutedOnce'
    BY <1>1, <1>2 DEF TypeOK, ExecutedOnce, routineVars
  <2>6. ResultIsKept'
    BY <1>1, <2>1 DEF TypeOK, ResultIsKept, routineVars
  <2>7. AnsweredOrLost'
    BY <1>1, <1>3, <2>1 DEF TypeOK, AnsweredOrLost
  <2> QED
    BY <2>2, <2>3, <2>4, <2>5, <2>6, <2>7
<1> QED
  BY <1>4, <1>5, <1>6, <1>7

\* A routine takes the first message of the socket.
LEMMA TakeInv ==
    ASSUME IInv, NEW r \in Routines, Take(r)
    PROVE  IInv'
<1> USE CallsAssumption DEF IInv
<1>0. PICK c : c = Head(wire)
  OBVIOUS
<1>1. /\ c \in Calls /\ wire' \in Seq(Calls) /\ Distinct(wire')
      /\ Wire = Wire' \cup {c} /\ c \notin Wire'
  <2>1. wire \in Seq(Calls) /\ wire # <<>> /\ Distinct(wire) /\ wire' = Tail(wire)
    BY DEF Take, TypeOK, OnTheWayOnce
  <2> QED
    BY <1>0, <2>1, ElementsOfTail DEF Wire
<1>2. begun' \in Seq(Calls) /\ Begun' = Begun \cup {c}
  <2>1. begun \in Seq(Calls) /\ begun' = Append(begun, c)
    BY <1>0 DEF Take, TypeOK
  <2> QED
    BY <1>1, <2>1, ElementsOfAppend DEF Begun
<1>3. /\ c \notin Sending \cup Begun /\ pipe[c] = "open" /\ c # NoCall
  BY <1>1 DEF OnTheWayOnce, Calls, NoCall
<1>4. Queued' = Queued /\ Sending' = Sending /\ Distinct(queue') /\ Distinct(sending')
  BY SameElements DEF Take, OnTheWayOnce, callerVars
<1>5. running' = [running EXCEPT ![r] = c] /\ running[r] = NoCall /\ r \in alive
  BY <1>0 DEF Take
<1> USE DEF Take, callerVars
<1>6. TypeOK'
  BY <1>1, <1>2 , <1>5 DEF TypeOK
<1>7. PromiseFollowsPipe'
  BY DEF PromiseFollowsPipe
<1>8. OnTheWayOnce'
  BY <1>1, <1>2, <1>3, <1>4 DEF TypeOK, OnTheWayOnce
<1>9. ExecutedOnce'
  BY <1>1, <1>2, <1>3, <1>5 DEF TypeOK, ExecutedOnce
<1>10. ResultIsKept'
  BY DEF ResultIsKept
<1>11. AnsweredOrLost'
  <2>1. running'[r] = c /\ alive' = alive /\ holds' = holds
    BY <1>5 DEF TypeOK
  <2>2. Taken(c)'
    BY <1>5, <2>1 DEF Taken
  <2>3. ASSUME NEW x \in Calls \ {c}
        PROVE  Taken(x)' <=> Taken(x)
    <3>1. x # NoCall
      BY DEF Calls, NoCall
    <3>2. \A q \in alive : running'[q] = x <=> running[q] = x
      BY <1>5, <2>1, <3>1 DEF TypeOK
    <3> QED
      BY <2>1, <3>2 DEF Taken
  <2>4. \A x \in Calls \ {c} : Gone(x)' <=> Gone(x)
    BY <1>1, <1>4, <2>3 DEF Gone
  <2>5. promise[c] = "pending"
    BY <1>1, <1>3 DEF PromiseFollowsPipe
  <2> QED
    BY <1>1, <1>3, <2>2, <2>4, <2>5 DEF AnsweredOrLost, Gone
<1> QED
  BY <1>6, <1>7, <1>8, <1>9, <1>10, <1>11

\* The function returns; c has its result, and r its end.
LEMMA ReturnInv ==
    ASSUME IInv, NEW r \in Routines, Return(r)
    PROVE  IInv'
<1> USE CallsAssumption DEF IInv
<1>0. PICK c : c = running[r]
  OBVIOUS
<1>1. /\ c \in Calls /\ c \in Begun \ ended /\ pipe[c] = "open" /\ r \in alive
  BY <1>0 DEF Return, TypeOK, ExecutedOnce
<1>2. PICK n \in 0 .. Size(c) : /\ stream' = [stream EXCEPT ![c] = n]
                               /\ left' = [left EXCEPT ![c] = Size(c) - n]
  BY <1>0 DEF Return
<1>3. /\ ended' = ended \cup {c}
      /\ holds' = [holds EXCEPT ![r] = @ \cup {c}]
      /\ running' = [running EXCEPT ![r] = NoCall]
      /\ UNCHANGED <<callerVars, wire, alive, begun, lost>>
  BY <1>0 DEF Return
<1>4. Size(c) \in 1 .. 2
  BY DEF Size
<1>5. /\ Queued' = Queued /\ Sending' = Sending /\ Wire' = Wire /\ Begun' = Begun
      /\ Distinct(queue') /\ Distinct(sending') /\ Distinct(wire')
  BY <1>3, SameElements DEF OnTheWayOnce, callerVars
<1>6. TypeOK'
  BY <1>1, <1>2, <1>3, <1>4 DEF TypeOK, callerVars
<1>7. PromiseFollowsPipe' /\ OnTheWayOnce'
  BY <1>3, <1>5 DEF PromiseFollowsPipe, OnTheWayOnce, callerVars
<1>8. ExecutedOnce'
  BY <1>0, <1>1, <1>3, <1>5 DEF TypeOK, ExecutedOnce, callerVars
<1>9. ResultIsKept'
  BY <1>1, <1>2, <1>3, <1>4 DEF TypeOK, ResultIsKept, callerVars
<1>10. AnsweredOrLost'
  <2>1. Taken(c)'
    BY <1>1, <1>3 DEF TypeOK, Taken
  <2>2. \A x \in Calls \ {c} : Taken(x)' <=> Taken(x)
    <3> SUFFICES ASSUME NEW x \in Calls \ {c}, NEW q \in alive
                 PROVE  (running'[q] = x \/ x \in holds'[q])
                          <=> (running[q] = x \/ x \in holds[q])
      BY <1>3 DEF Taken
    <3>1. x # NoCall
      BY DEF Calls, NoCall
    <3> QED
      BY <1>0, <1>3, <3>1 DEF TypeOK
  <2>3. \A x \in Calls \ {c} : /\ Gone(x)' <=> Gone(x)
                              /\ stream'[x] = stream[x]
    BY <1>2, <1>5, <2>2 DEF Gone, TypeOK
  <2>4. promise[c] = "pending"
    BY <1>1 DEF PromiseFollowsPipe
  <2>5. Gone(c)' <=> FALSE
    BY <2>1 DEF Gone
  <2> QED
    BY <1>1, <1>3, <2>3, <2>4, <2>5 DEF AnsweredOrLost, callerVars
<1> QED
  BY <1>6, <1>7, <1>8, <1>9, <1>10

\* The rest of a result is written, or given up with the pipe it was for.
LEMMA WriteRestInv ==
    ASSUME IInv, NEW r \in Routines, NEW c \in Calls, WriteRest(r, c)
    PROVE  IInv'
<1> USE CallsAssumption DEF IInv
<1>1. /\ c \in ended /\ left[c] > 0 /\ r \in alive /\ c \in holds[r]
  BY DEF WriteRest, TypeOK, ExecutedOnce
<1>2. UNCHANGED <<callerVars, wire, running, holds, alive, begun, ended, lost>>
  BY DEF WriteRest
<1>3. /\ Queued' = Queued /\ Sending' = Sending /\ Wire' = Wire /\ Begun' = Begun
      /\ Distinct(queue') /\ Distinct(sending') /\ Distinct(wire')
  BY <1>2, SameElements DEF OnTheWayOnce, callerVars
<1>4. PromiseFollowsPipe' /\ OnTheWayOnce' /\ ExecutedOnce'
  BY <1>2, <1>3 DEF PromiseFollowsPipe, OnTheWayOnce, ExecutedOnce, callerVars
<1>5. /\ stream' \in [Calls -> 0 .. 2] /\ left' \in [Calls -> 0 .. 2]
      /\ \A x \in Calls \ {c} : stream'[x] = stream[x] /\ left'[x] = left[x]
      /\ pipe[c] = "open" => stream'[c] + left'[c] = Size(c)
  <2>1. CASE pipe[c] = "open"
    <3>1. stream[c] + left[c] = Size(c) /\ Size(c) \in 1 .. 2
      BY <1>1, <2>1 DEF ResultIsKept, Size
    <3>2. /\ stream' = [stream EXCEPT ![c] = @ + 1]
          /\ left' = [left EXCEPT ![c] = @ - 1]
      BY <2>1 DEF WriteRest
    <3>3. /\ stream \in [Calls -> 0 .. 2] /\ left \in [Calls -> 0 .. 2]
          /\ stream[c] + 1 \in 0 .. 2 /\ left[c] - 1 \in 0 .. 2
          /\ (stream[c] + 1) + (left[c] - 1) = Size(c)
      <4>1. /\ stream \in [Calls -> 0 .. 2] /\ left \in [Calls -> 0 .. 2]
            /\ stream[c] \in 0 .. 2 /\ left[c] \in 0 .. 2
        BY DEF TypeOK
      <4> HIDE DEF IInv
      <4> QED
        BY <1>1, <3>1, <4>1
    <3> QED
      BY <3>2, <3>3
  <2>2. CASE pipe[c] # "open"
    <3>1. left' = [left EXCEPT ![c] = 0] /\ stream' = stream
      BY <2>2 DEF WriteRest
    <3> QED
      BY <2>2, <3>1 DEF TypeOK
  <2> QED
    BY <2>1, <2>2
<1>6. TypeOK'
  BY <1>2, <1>5 DEF TypeOK, callerVars
<1>7. ResultIsKept'
  BY <1>1, <1>2, <1>5 DEF TypeOK, ResultIsKept, callerVars
<1>8. AnsweredOrLost'
  <2>1. \A x \in Calls : Gone(x)' <=> Gone(x)
    BY <1>2, <1>3 DEF Gone, Taken
  <2>2. ~Gone(c)
    BY <1>1 DEF Gone, Taken
  <2> QED
    BY <1>2, <1>5, <2>1, <2>2 DEF AnsweredOrLost, callerVars
<1> QED
  BY <1>4, <1>6, <1>7, <1>8

\* The routine closes its end when the result is written: the caller has it.
LEMMA ShutdownInv ==
    ASSUME IInv, NEW r \in Routines, NEW c \in Calls, ShutdownCb(r, c)
    PROVE  IInv'
<1> USE CallsAssumption DEF IInv
<1>1. /\ c \in ended /\ left[c] = 0 /\ r \in alive /\ c \in holds[r]
      /\ holds' = [holds EXCEPT ![r] = @ \ {c}]
      /\ UNCHANGED <<callerVars, wire, stream, running, left, alive, begun, ended, lost>>
  BY DEF ShutdownCb, TypeOK, ExecutedOnce
<1>2. /\ Queued' = Queued /\ Sending' = Sending /\ Wire' = Wire /\ Begun' = Begun
      /\ Distinct(queue') /\ Distinct(sending') /\ Distinct(wire')
  BY <1>1, SameElements DEF OnTheWayOnce, callerVars
<1>3. TypeOK'
  BY <1>1 DEF TypeOK, callerVars
<1>4. PromiseFollowsPipe' /\ OnTheWayOnce' /\ ResultIsKept'
  BY <1>1, <1>2 DEF PromiseFollowsPipe, OnTheWayOnce, ResultIsKept, callerVars
<1>5. ExecutedOnce'
  BY <1>1, <1>2 DEF ExecutedOnce, TypeOK, callerVars
<1>6. AnsweredOrLost'
  <2>1. \A x \in Calls \ {c} : Gone(x)' <=> Gone(x)
    BY <1>1, <1>2 DEF Gone, Taken, TypeOK
  <2>2. Gone(c) => Gone(c)'
    BY <1>1, <1>2 DEF Gone, Taken, TypeOK
  <2>3. ~Gone(c)
    BY <1>1 DEF Gone, Taken
  <2>4. pipe[c] = "open" => stream[c] > 0
    BY <1>1 DEF ResultIsKept, Size, TypeOK
  <2> QED
    BY <1>1, <2>1, <2>2, <2>3, <2>4 DEF AnsweredOrLost, callerVars
<1> QED
  BY <1>3, <1>4, <1>5, <1>6

\* A routine dies: what it had and has written nothing of is lost.
LEMMA DieInv ==
    ASSUME IInv, NEW r \in Routines, Die(r)
    PROVE  IInv'
<1> USE CallsAssumption DEF IInv
<1>1. /\ r \in alive /\ alive' = alive \ {r}
      /\ lost' = lost \cup {c \in Calls : running[r] = c}
                      \cup {c \in holds[r] : left[c] = Size(c)}
      /\ UNCHANGED <<callerVars, wire, stream, running, holds, left, begun, ended>>
  BY DEF Die
<1>2. /\ Queued' = Queued /\ Sending' = Sending /\ Wire' = Wire /\ Begun' = Begun
      /\ Distinct(queue') /\ Distinct(sending') /\ Distinct(wire')
  BY <1>1, SameElements DEF OnTheWayOnce, callerVars
<1>3. TypeOK'
  BY <1>1 DEF TypeOK, callerVars
<1>4. PromiseFollowsPipe' /\ OnTheWayOnce' /\ ResultIsKept'
  BY <1>1, <1>2 DEF PromiseFollowsPipe, OnTheWayOnce, ResultIsKept, callerVars
<1>5. ExecutedOnce'
  BY <1>1, <1>2 DEF ExecutedOnce, callerVars
<1>6. AnsweredOrLost'
  <2>1. ASSUME NEW c \in Calls
        PROVE  Gone(c) => Gone(c)'
    BY <1>1, <1>2 DEF Gone, Taken
  <2>2. ASSUME NEW c \in Calls, pipe[c] = "open", Gone(c)', ~Gone(c)
        PROVE  stream[c] > 0 \/ c \in lost'
    <3>1. running[r] = c \/ c \in holds[r]
      BY <1>1, <1>2, <2>2 DEF Gone, Taken
    <3>2. CASE running[r] = c
      BY <1>1, <3>2
    <3>3. CASE c \in holds[r]
      BY <1>1, <2>2, <3>3 DEF ExecutedOnce, ResultIsKept, TypeOK
    <3> QED
      BY <3>1, <3>2, <3>3
  <2> QED
    BY <1>1, <2>1, <2>2 DEF AnsweredOrLost, callerVars
<1> QED
  BY <1>3, <1>4, <1>5, <1>6

-----------------------------------------------------------------------------
LEMMA NextInv == IInv /\ [Next]_vars => IInv'
<1> SUFFICES ASSUME IInv, [Next]_vars
             PROVE  IInv'
  OBVIOUS
<1>1. CASE Execute \/ Start \/ Send \/ SendFails
  BY <1>1, ExecuteInv, StartInv, SendInv
<1>2. ASSUME NEW c \in Calls, Write2Cb(c) \/ ReadResult(c) \/ ReadEof(c) \/ CloseCb(c)
      PROVE  IInv'
  BY <1>2, CallerInv
<1>3. ASSUME NEW r \in Routines, Take(r) \/ Return(r) \/ Die(r)
      PROVE  IInv'
  BY <1>3, TakeInv, ReturnInv, DieInv
<1>4. ASSUME NEW r \in Routines, NEW c \in Calls, WriteRest(r, c) \/ ShutdownCb(r, c)
      PROVE  IInv'
  BY <1>4, WriteRestInv, ShutdownInv
<1>5. CASE UNCHANGED vars
  <2>1. /\ Queued' = Queued /\ Sending' = Sending /\ Wire' = Wire /\ Begun' = Begun
        /\ Distinct(queue') /\ Distinct(sending') /\ Distinct(wire')
    BY <1>5, SameElements DEF IInv, OnTheWayOnce, vars, callerVars
  <2>2. TypeOK'
    BY <1>5 DEF IInv, TypeOK, vars, callerVars, routineVars
  <2>3. PromiseFollowsPipe' /\ OnTheWayOnce' /\ ExecutedOnce' /\ ResultIsKept'
    BY <1>5, <2>1 DEF IInv, PromiseFollowsPipe, OnTheWayOnce, ExecutedOnce, ResultIsKept,
                      vars, callerVars, routineVars
  <2>4. AnsweredOrLost'
    BY <1>5, <2>1 DEF IInv, AnsweredOrLost, Gone, Taken, vars, callerVars, routineVars
  <2> QED
    BY <2>2, <2>3, <2>4 DEF IInv
<1> QED
  BY <1>1, <1>2, <1>3, <1>4, <1>5 DEF Next

\* Every reachable state of the caller and the routines satisfies the invariant.
THEOREM Invariance == Spec => []IInv
  BY InitInv, NextInv, PTL DEF Spec

\* A promise is released unsettled only for a call that was lost, and that no
\* live routine has or will have: end-of-file overtakes neither a message in
\* flight nor a result (routine_result_read_cb, rp_reactor_ipc_send's write2_cb).
THEOREM DroppedWereLost == Spec => []OnlyLostAreDropped
<1>1. IInv => OnlyLostAreDropped
  BY DEF IInv, AnsweredOrLost, Gone, Taken, Sending, Wire, OnlyLostAreDropped
<1> QED
  BY <1>1, Invariance, PTL

-----------------------------------------------------------------------------
(* The refinement of RemoteCall. *)

Resolved == {c \in Calls : promise[c] = "resolved"}

\* No call has been made before the script runs.
LEMMA InitRefines == Init => Abstract!Init
  BY ElementsOfShort DEF Init, Abstract!Init, Dropped, Calls

\* What RemoteCall sees of a step that leaves it alone.
LEMMA Stutters ==
    made' = made /\ begun' = begun /\ ended' = ended /\ promise' = promise
       => UNCHANGED Abstract!vars
  BY DEF Abstract!vars, Dropped

\* Every step of the caller, the socket and the routines is a step of
\* RemoteCall or leaves it alone: execute() makes a call, a routine that takes
\* the message begins it, its return finishes it, the read of the result
\* resolves it; the close callback of an unsettled call and the start of a
\* worker with a queue give calls up.
LEMMA NextRefines == IInv /\ [Next]_vars => [Abstract!Next]_(Abstract!vars)
<1> SUFFICES ASSUME IInv, [Next]_vars
             PROVE  [Abstract!Next]_(Abstract!vars)
  OBVIOUS
<1> USE CallsAssumption DEF IInv
<1>1. CASE Execute
  <2>1. made + 1 \in Calls /\ made + 1 \notin 1 .. made
        /\ 1 .. made' = (1 .. made) \cup {made + 1}
    BY <1>1 DEF Execute, TypeOK, Calls
  <2>2. Resolved' = Resolved /\ Dropped' = Dropped
    <3>1. promise[made + 1] = "none"
      BY <2>1 DEF PromiseFollowsPipe, TypeOK
    <3> QED
      BY <1>1, <2>1, <3>1 DEF Execute, Resolved, Dropped, TypeOK
  <2>3. begun' = begun /\ ended' = ended
    BY <1>1 DEF Execute
  <2>4. Abstract!Make(made + 1)
    BY <2>1, <2>2, <2>3 DEF Abstract!Make, Resolved
  <2> QED
    BY <2>1, <2>4 DEF Abstract!Next
<1>2. CASE Start
  <2>1. CASE role = "ACTOR"
    BY <1>2, <2>1, Stutters DEF Start
  <2>2. CASE role # "ACTOR"
    <3>1. /\ promise' = [c \in Calls |-> IF c \in Queued THEN "dropped" ELSE promise[c]]
          /\ made' = made /\ begun' = begun /\ ended' = ended /\ ~inited
      BY <1>2, <2>2 DEF Start, FreeQueued, Queued
    <3>2. \A c \in Queued : c \in Calls /\ c \in 1 .. made /\ promise[c] = "pending"
      BY <3>1, ElementsAreCalls DEF TypeOK, OnTheWayOnce, PromiseFollowsPipe, Calls
    <3>3. Resolved' = Resolved /\ Dropped' = Dropped \cup Queued
      BY <3>1, <3>2 DEF Resolved, Dropped
    <3>4. CASE Queued = {}
      BY <3>1, <3>3, <3>4 DEF Abstract!vars, Resolved
    <3>5. CASE Queued # {}
      <4>1. Queued \subseteq (1 .. made) \ (Resolved \cup Dropped)
        BY <3>2 DEF Resolved, Dropped
      <4>2. Abstract!Drop(Queued)
        BY <3>1, <3>3, <3>5, <4>1 DEF Abstract!Drop, Resolved
      <4> QED
        BY <3>2, <4>2 DEF Abstract!Next
    <3> QED
      BY <3>4, <3>5
  <2> QED
    BY <2>1, <2>2
<1>3. CASE Send \/ SendFails
  BY <1>3, Stutters DEF Send, SendFails, routineVars
<1>4. ASSUME NEW c \in Calls, Write2Cb(c) \/ ReadEof(c)
      PROVE  UNCHANGED Abstract!vars
  BY <1>4, Stutters DEF Write2Cb, ReadEof
<1>5. ASSUME NEW c \in Calls, ReadResult(c)
      PROVE  Abstract!Resolve(c)
  <2>1. /\ c \in ended /\ promise[c] = "pending"
        /\ promise' = [promise EXCEPT ![c] = "resolved"]
        /\ made' = made /\ begun' = begun /\ ended' = ended
    BY <1>5 DEF ReadResult, ResultIsKept, PromiseFollowsPipe
  <2>2. Resolved' = Resolved \cup {c} /\ Dropped' = Dropped
    BY <2>1 DEF Resolved, Dropped, TypeOK
  <2>3. c \notin Resolved \cup Dropped
    BY <2>1 DEF Resolved, Dropped
  <2> QED
    BY <2>1, <2>2, <2>3 DEF Abstract!Resolve, Resolved
<1>6. ASSUME NEW c \in Calls, CloseCb(c)
      PROVE  Abstract!Drop({c}) \/ UNCHANGED Abstract!vars
  <2>1. /\ made' = made /\ begun' = begun /\ ended' = ended
        /\ promise' = [promise EXCEPT ![c] = IF @ = "pending" THEN "dropped" ELSE @]
        /\ promise[c] \in {"pending", "resolved"}
    BY <1>6 DEF CloseCb, PromiseFollowsPipe
  <2>2. CASE promise[c] = "pending"
    <3>1. Resolved' = Resolved /\ Dropped' = Dropped \cup {c}
      BY <2>1, <2>2 DEF Resolved, Dropped, TypeOK
    <3>2. c \in 1 .. made /\ c \notin Resolved \cup Dropped
      BY <2>2 DEF Resolved, Dropped, PromiseFollowsPipe, TypeOK, Calls
    <3> QED
      BY <2>1, <3>1, <3>2 DEF Abstract!Drop, Resolved
  <2>3. CASE promise[c] = "resolved"
    BY <2>1, <2>3, Stutters DEF TypeOK
  <2> QED
    BY <2>1, <2>2, <2>3
<1>7. ASSUME NEW r \in Routines, Take(r)
      PROVE  Abstract!Next
  <2>1. PICK c : c = Head(wire)
    OBVIOUS
  <2>2. /\ begun \in Seq(Calls) /\ wire \in Seq(Calls) /\ wire # <<>>
        /\ begun' = Append(begun, c)
        /\ made' = made /\ ended' = ended /\ promise' = promise
    BY <1>7, <2>1 DEF Take, callerVars, TypeOK
  <2>3. c \in Calls /\ c \in Wire
    BY <2>1, <2>2, ElementsOfTail DEF Wire
  <2>4. c \in 1 .. made /\ c \notin Begun \cup Dropped
    BY <2>3 DEF OnTheWayOnce, PromiseFollowsPipe, Dropped, TypeOK, Calls
  <2>5. ElementsOf(begun') = ElementsOf(begun) \cup {c}
    BY <2>2, <2>3, ElementsOfAppend
  <2>6. Abstract!Begin(c)
    BY <2>2, <2>4, <2>5 DEF Abstract!Begin, Begun, Dropped
  <2> QED
    BY <2>3, <2>6 DEF Abstract!Next
<1>8. ASSUME NEW r \in Routines, Return(r)
      PROVE  Abstract!Next
  <2>1. PICK c : c = running[r]
    OBVIOUS
  <2>2. /\ c \in Calls /\ c \in Begun \ ended /\ pipe[c] = "open"
    BY <1>8, <2>1 DEF Return, TypeOK, ExecutedOnce
  <2>3. ended' = ended \cup {c} /\ made' = made /\ begun' = begun /\ promise' = promise
    BY <1>8, <2>1 DEF Return, callerVars
  <2>4. c \notin Dropped
    BY <2>2 DEF PromiseFollowsPipe, Dropped
  <2>5. Abstract!Finish(c)
    BY <2>2, <2>3, <2>4 DEF Abstract!Finish, Begun, Dropped
  <2> QED
    BY <2>2, <2>5 DEF Abstract!Next
<1>9. ASSUME NEW r \in Routines, Die(r)
      PROVE  UNCHANGED Abstract!vars
  BY <1>9, Stutters DEF Die, callerVars
<1>10. ASSUME NEW r \in Routines, NEW c \in Calls, WriteRest(r, c) \/ ShutdownCb(r, c)
       PROVE  UNCHANGED Abstract!vars
  BY <1>10, Stutters DEF WriteRest, ShutdownCb, callerVars
<1>11. CASE UNCHANGED vars
  BY <1>11, Stutters DEF vars, callerVars
<1>12. \A c \in Calls : Abstract!Resolve(c) \/ Abstract!Drop({c}) => Abstract!Next
  BY DEF Abstract!Next
<1> QED
  BY <1>1, <1>2, <1>3, <1>4, <1>5, <1>6, <1>7, <1>8, <1>9, <1>10, <1>11, <1>12 DEF Next

\* Seen from PHP, calls behave as RemoteCall says: executed at most once,
\* resolved at most once and with the outcome of an execution that returned,
\* never resolved or executed after they were given up.
THEOREM CallsAreRemoteCalls == Spec => ImplementsRemoteCall
  BY InitRefines, NextRefines, Invariance, PTL
     DEF Spec, ImplementsRemoteCall, Abstract!Spec
=============================================================================
