----------------------- MODULE StreamConnectionProofs -----------------------
(***************************************************************************)
(* Safety of StreamConnection for every number of writes, reads and held   *)
(* references: alone, with the hook that the HTTP server conjoins to it    *)
(* (HttpConnection), whatever requests the peer sends, and under a secure  *)
(* stream (SecureStream).                                                  *)
(***************************************************************************)
EXTENDS HttpConnection, SecureStream, TLAPS

(* The inductive invariant, in named parts. *)

\* The CLOSED flag says exactly whether uv_close was called.
FlagMatchesHandle ==
    /\ "CLOSED" \in flag <=> handle # "open"
    /\ closedBy = "none" <=> handle = "open"

\* The loop owns one reference until releaseResource.
RefsCounted == refcount = IF released THEN held ELSE held + 1

\* "close" is being emitted exactly between CloseCb and ReturnClose.
ClosePhases ==
    /\ cb = "close" <=> handle = "closed" /\ ~released
    /\ released => handle = "closed" /\ cb = "none"
    /\ closes > 0 <=> handle = "closed"

\* Write callbacks have run for a prefix of the writes, one event each.
CallbacksFollowWrites ==
    /\ Len(reports) = called
    /\ called <= Len(writes)
    /\ \A i \in 1..called : reports[i] = writes[i] /\ writes[i] # "queued"

\* What closing does to the requests that are pending.
RequestsSettled ==
    /\ handle # "open" => \A i \in 1..Len(writes) : writes[i] # "queued"
    /\ handle = "open" => \A i \in 1..Len(writes) : writes[i] # "cancelled"
    /\ handle = "closed" => called = Len(writes) /\ shutreq # "pending"

\* end() on an open connection keeps close() out.
EndKeepsCloseOut ==
    /\ shutreq # "none" => "SHUTDOWN" \in flag /\ closedBy # "user"
    /\ closedBy = "shutdown" =>
          \A i \in 1..Len(writes) : writes[i] # "cancelled"

IInv ==
    /\ TypeOK
    /\ NoLoopFault
    /\ FlagMatchesHandle
    /\ RefsCounted
    /\ ClosePhases
    /\ CallbacksFollowWrites
    /\ RequestsSettled
    /\ EndKeepsCloseOut

-----------------------------------------------------------------------------

\* Cancelling keeps the length of the queue and every settled outcome.
LEMMA CancelLemma ==
    ASSUME TypeOK, handle = "open", UvClose
    PROVE  /\ writes' \in Seq(Outcome)
           /\ Len(writes') = Len(writes)
           /\ \A i \in 1..Len(writes) :
                 /\ writes'[i] # "queued"
                 /\ writes[i] # "queued" => writes'[i] = writes[i]
           /\ handle' = "closing"
           /\ fault' = fault
<1> DEFINE w == [i \in DOMAIN writes |->
                    IF i \in Queued THEN "cancelled" ELSE writes[i]]
<1>1. writes' = w /\ handle' = "closing" /\ fault' = fault
  BY DEF UvClose
<1>2. writes \in Seq(Outcome) /\ DOMAIN writes = 1..Len(writes)
  BY DEF TypeOK
<1>3. \A i \in 1..Len(writes) :
          writes[i] \in Outcome /\ "cancelled" \in Outcome
  BY <1>2 DEF Outcome
<1>4. w \in [1..Len(writes) -> Outcome]
  BY <1>2, <1>3
<1>5. Len(writes) \in Nat
  BY <1>2
<1>6. w \in Seq(Outcome) /\ Len(w) = Len(writes)
  BY <1>4, <1>5
<1>7. \A i \in 1..Len(writes) :
          /\ w[i] # "queued"
          /\ writes[i] # "queued" => w[i] = writes[i]
  BY <1>2 DEF Queued
<1> QED
  BY <1>1, <1>6, <1>7


LEMMA InitInv == Init => IInv
<1> SUFFICES ASSUME Init PROVE IInv
  OBVIOUS
<1>1. Len(writes) = 0 /\ Len(reports) = 0 /\ <<>> \in Seq(Outcome)
  BY DEF Init
<1>2. TypeOK
  BY <1>1 DEF Init, TypeOK, Flags, Event
<1>3. NoLoopFault /\ FlagMatchesHandle /\ RefsCounted /\ ClosePhases
  BY DEF Init, NoLoopFault, FlagMatchesHandle, RefsCounted, ClosePhases
<1>4. CallbacksFollowWrites /\ RequestsSettled /\ EndKeepsCloseOut
  BY <1>1 DEF Init, CallbacksFollowWrites, RequestsSettled, EndKeepsCloseOut
<1> QED
  BY <1>2, <1>3, <1>4 DEF IInv

\* A faulting method call changes nothing else.
LEMMA UserFaultInv == IInv /\ UserFault => IInv'
  BY DEF IInv, UserFault, uvVars, TypeOK, NoLoopFault, FlagMatchesHandle,
         RefsCounted, ClosePhases, CallbacksFollowWrites, RequestsSettled,
         EndKeepsCloseOut

\* connection_close, called with the rest of the state unchanged, keeps the
\* invariant: it reaches uv_close only on an open handle.
LEMMA ConnectionCloseFacts ==
    ASSUME IInv, NEW by \in {"user", "read", "shutdown"}, ConnectionClose(by)
    PROVE  /\ flag' = flag \cup {"CLOSED"}
           /\ fault' = fault
           /\ handle' = (IF handle = "open" THEN "closing" ELSE handle)
           /\ closedBy' = (IF handle = "open" THEN by ELSE closedBy)
           /\ writes' \in Seq(Outcome)
           /\ Len(writes') = Len(writes)
           /\ \A i \in 1..Len(writes) :
                 /\ writes'[i] # "queued"
                 /\ writes[i] # "queued" => writes'[i] = writes[i]
<1>1. CASE "CLOSED" \in flag
  <2>1. UNCHANGED <<flag, handle, writes, closedBy, fault>>
    BY <1>1 DEF ConnectionClose
  <2>2. handle # "open"
    BY <1>1 DEF IInv, FlagMatchesHandle
  <2>3. flag = flag \cup {"CLOSED"}
    BY <1>1
  <2> QED
    BY <2>1, <2>2, <2>3 DEF IInv, TypeOK, RequestsSettled
<1>2. CASE "CLOSED" \notin flag
  <2>1. flag' = flag \cup {"CLOSED"} /\ closedBy' = by /\ UvClose
    BY <1>2 DEF ConnectionClose
  <2>2. handle = "open" /\ TypeOK
    BY <1>2 DEF IInv, FlagMatchesHandle
  <2> QED
    BY <2>1, <2>2, CancelLemma
<1> QED
  BY <1>1, <1>2

LEMMA WriteInv == IInv /\ Write => IInv'
<1> SUFFICES ASSUME IInv, Write PROVE IInv'
  OBVIOUS
<1>1. CASE released
  BY <1>1, UserFaultInv DEF Write
<1>2. CASE ~released
  <2>1. /\ handle = "open"
        /\ writes' = Append(writes, "queued")
        /\ UNCHANGED <<flag, refcount, held, released, cb, handle, shutreq,
                       called, reads, reports, closes, closedBy, fault>>
    BY <1>2 DEF Write, UvWriteAccepts
  <2>2. /\ writes' \in Seq(Outcome)
        /\ Len(writes') = Len(writes) + 1
        /\ \A i \in 1..Len(writes) : writes'[i] = writes[i]
        /\ writes'[Len(writes) + 1] = "queued"
    BY <2>1 DEF IInv, TypeOK, Outcome
  <2>3. Len(writes) \in Nat /\ called \in Nat
    BY DEF IInv, TypeOK
  <2>4. closedBy = "none" /\ ~(cb = "close") /\ closes = closes'
    BY <2>1 DEF IInv, FlagMatchesHandle, ClosePhases
  <2>5. TypeOK' /\ NoLoopFault' /\ FlagMatchesHandle' /\ RefsCounted' /\ ClosePhases'
    BY <2>1, <2>2 DEF IInv, TypeOK, NoLoopFault, FlagMatchesHandle,
       RefsCounted, ClosePhases
  <2>6. CallbacksFollowWrites'
    BY <2>1, <2>2, <2>3 DEF IInv, CallbacksFollowWrites
  <2>7. RequestsSettled'
    BY <2>1, <2>2, <2>3 DEF IInv, RequestsSettled
  <2>8. EndKeepsCloseOut'
    BY <2>1, <2>4 DEF IInv, EndKeepsCloseOut
  <2> QED
    BY <2>5, <2>6, <2>7, <2>8 DEF IInv
<1> QED
  BY <1>1, <1>2

LEMMA EndInv == ASSUME NEW d \in BOOLEAN, IInv, End(d) PROVE IInv'
<1>1. CASE released
  BY <1>1, UserFaultInv DEF End
<1>2. CASE ~released
  <2>1. /\ d => handle = "open"
        /\ writes' = IF d THEN Append(writes, "queued") ELSE writes
        /\ flag' = flag \cup {"SHUTDOWN"}
        /\ shutreq' = IF handle = "open" THEN "pending" ELSE shutreq
        /\ UNCHANGED <<refcount, held, released, cb, handle, called, reads,
                       reports, closes, closedBy, fault>>
    BY <1>2 DEF End, UvWriteAccepts, ConnectionShutdown
  <2>2. /\ writes' \in Seq(Outcome)
        /\ Len(writes') \in {Len(writes), Len(writes) + 1}
        /\ handle # "open" => writes' = writes
        /\ \A i \in 1..Len(writes) : writes'[i] = writes[i]
        /\ \A i \in 1..Len(writes') : i \notin 1..Len(writes) => writes'[i] = "queued"
    BY <2>1 DEF IInv, TypeOK, Outcome
  <2>3. Len(writes) \in Nat /\ called \in Nat
    BY DEF IInv, TypeOK
  <2>5. TypeOK' /\ NoLoopFault' /\ FlagMatchesHandle' /\ RefsCounted' /\ ClosePhases'
    BY <2>1, <2>2 DEF IInv, TypeOK, NoLoopFault, FlagMatchesHandle,
       RefsCounted, ClosePhases, Flags
  <2>6. CallbacksFollowWrites'
    BY <2>1, <2>2, <2>3 DEF IInv, CallbacksFollowWrites
  <2>7. RequestsSettled'
    BY <2>1, <2>2, <2>3 DEF IInv, RequestsSettled
  <2>8. EndKeepsCloseOut'
    <3>1. handle = "open" => closedBy = "none"
      BY DEF IInv, FlagMatchesHandle
    <3> QED
      BY <2>1, <2>2, <3>1 DEF IInv, EndKeepsCloseOut
  <2> QED
    BY <2>5, <2>6, <2>7, <2>8 DEF IInv
<1> QED
  BY <1>1, <1>2

\* The three callers of connection_close, each with what it changes besides.
LEMMA CloseInv == IInv /\ Close => IInv'
<1> SUFFICES ASSUME IInv, Close PROVE IInv'
  OBVIOUS
<1>1. /\ "SHUTDOWN" \notin flag
      /\ ConnectionClose("user")
      /\ UNCHANGED <<refcount, held, released, cb, shutreq, called, reads,
                     reports, closes>>
  BY DEF Close
<1>2. /\ flag' = flag \cup {"CLOSED"}
      /\ fault' = fault
      /\ handle' = (IF handle = "open" THEN "closing" ELSE handle)
      /\ closedBy' = (IF handle = "open" THEN "user" ELSE closedBy)
      /\ writes' \in Seq(Outcome)
      /\ Len(writes') = Len(writes)
      /\ \A i \in 1..Len(writes) :
            /\ writes'[i] # "queued"
            /\ writes[i] # "queued" => writes'[i] = writes[i]
  BY <1>1, ConnectionCloseFacts
<1>3. shutreq = "none"
  BY <1>1 DEF IInv, EndKeepsCloseOut
<1>4. TypeOK' /\ NoLoopFault' /\ FlagMatchesHandle' /\ RefsCounted' /\ ClosePhases'
  BY <1>1, <1>2 DEF IInv, TypeOK, NoLoopFault, FlagMatchesHandle,
     RefsCounted, ClosePhases, Flags
<1>5. CallbacksFollowWrites'
  BY <1>1, <1>2 DEF IInv, TypeOK, CallbacksFollowWrites
<1>6. RequestsSettled'
  BY <1>1, <1>2 DEF IInv, TypeOK, RequestsSettled
<1>7. EndKeepsCloseOut'
  BY <1>1, <1>2, <1>3 DEF IInv, TypeOK, EndKeepsCloseOut, RequestsSettled
<1> QED
  BY <1>4, <1>5, <1>6, <1>7 DEF IInv

\* What only moves references, or counts reads and emissions, keeps the rest.
LEMMA AddRefInv == IInv /\ AddRef => IInv'
  BY DEF IInv, AddRef, uvVars, TypeOK, NoLoopFault, FlagMatchesHandle,
         RefsCounted, ClosePhases, CallbacksFollowWrites, RequestsSettled,
         EndKeepsCloseOut

LEMMA DropRefInv == IInv /\ DropRef => IInv'
  BY DEF IInv, DropRef, uvVars, TypeOK, NoLoopFault, FlagMatchesHandle,
         RefsCounted, ClosePhases, CallbacksFollowWrites, RequestsSettled,
         EndKeepsCloseOut

LEMMA InspectInv == IInv /\ Inspect => IInv'
  BY UserFaultInv DEF Inspect

LEMMA KernelWriteInv == IInv /\ KernelWrite => IInv'
<1> SUFFICES ASSUME IInv, KernelWrite PROVE IInv'
  OBVIOUS
<1>1. PICK i \in Queued, o \in {"ok", "failed"} :
          writes' = [writes EXCEPT ![i] = o]
  BY DEF KernelWrite
<1>2. /\ handle = "open"
      /\ UNCHANGED <<flag, refcount, held, released, cb, handle, shutreq,
                     called, reads, reports, closes, closedBy, fault>>
  BY DEF KernelWrite
<1>3. i \in 1..Len(writes) /\ writes[i] = "queued"
  BY DEF Queued, IInv, TypeOK
<1>4. /\ writes' \in Seq(Outcome)
      /\ Len(writes') = Len(writes)
      /\ \A j \in 1..Len(writes) : writes'[j] = IF j = i THEN o ELSE writes[j]
  BY <1>1, <1>3 DEF IInv, TypeOK, Outcome
<1>5. closedBy = "none"
  BY <1>2 DEF IInv, FlagMatchesHandle
<1>6. TypeOK' /\ NoLoopFault' /\ FlagMatchesHandle' /\ RefsCounted' /\ ClosePhases'
  BY <1>2, <1>4 DEF IInv, TypeOK, NoLoopFault, FlagMatchesHandle,
     RefsCounted, ClosePhases
<1>7. CallbacksFollowWrites'
  BY <1>2, <1>3, <1>4 DEF IInv, TypeOK, CallbacksFollowWrites
<1>8. RequestsSettled' /\ EndKeepsCloseOut'
  BY <1>2, <1>4, <1>5 DEF IInv, TypeOK, RequestsSettled, EndKeepsCloseOut
<1> QED
  BY <1>6, <1>7, <1>8 DEF IInv

\* Until the handle is closed, the resource a callback fetches is there.
LEMMA ResourcePresent == IInv /\ handle # "closed" => ~ResourceGone
  BY DEF IInv, ResourceGone, ClosePhases, RefsCounted, TypeOK

LEMMA ReadInv == IInv /\ (ReadData \/ ReadError) => IInv'
<1> SUFFICES ASSUME IInv, ReadData \/ ReadError PROVE IInv'
  OBVIOUS
<1>1. /\ handle = "open"
      /\ cb' \in {"data", "error"}
      /\ reads' \in {reads, reads + 1}
      /\ UNCHANGED <<flag, refcount, held, released, handle, shutreq, writes,
                     called, reports, closes, closedBy, fault>>
  BY ResourcePresent DEF ReadData, ReadError, uvVars
<1> QED
  BY <1>1 DEF IInv, TypeOK, Event, NoLoopFault, FlagMatchesHandle,
     RefsCounted, ClosePhases, CallbacksFollowWrites, RequestsSettled,
     EndKeepsCloseOut

LEMMA WriteCbInv == IInv /\ WriteCb => IInv'
<1> SUFFICES ASSUME IInv, WriteCb PROVE IInv'
  OBVIOUS
<1>1. /\ handle # "closed"
      /\ cb' = "write"
      /\ called < Len(writes)
      /\ writes[called + 1] # "queued"
      /\ called' = called + 1
      /\ reports' = Append(reports, writes[called + 1])
      /\ UNCHANGED <<flag, refcount, held, released, handle, shutreq, writes,
                     reads, closes, closedBy, fault>>
  BY ResourcePresent DEF WriteCb
<1>2. called \in Nat /\ Len(writes) \in Nat /\ writes[called + 1] \in Outcome
  BY <1>1 DEF IInv, TypeOK
<1>3. /\ reports' \in Seq(Outcome)
      /\ Len(reports') = called + 1
      /\ \A i \in 1..called : reports'[i] = reports[i]
      /\ reports'[called + 1] = writes[called + 1]
  BY <1>1, <1>2 DEF IInv, TypeOK, CallbacksFollowWrites
<1>4. TypeOK' /\ NoLoopFault' /\ FlagMatchesHandle' /\ RefsCounted' /\ ClosePhases'
  BY <1>1, <1>2, <1>3 DEF IInv, TypeOK, Event, NoLoopFault,
     FlagMatchesHandle, RefsCounted, ClosePhases
<1>5. CallbacksFollowWrites'
  BY <1>1, <1>2, <1>3 DEF IInv, CallbacksFollowWrites
<1>6. RequestsSettled' /\ EndKeepsCloseOut'
  BY <1>1 DEF IInv, RequestsSettled, EndKeepsCloseOut
<1> QED
  BY <1>4, <1>5, <1>6 DEF IInv

LEMMA ReturnInv == IInv /\ Return => IInv'
  BY DEF IInv, Return, uvVars, TypeOK, Event, NoLoopFault, FlagMatchesHandle,
         RefsCounted, ClosePhases, CallbacksFollowWrites, RequestsSettled,
         EndKeepsCloseOut

LEMMA ReturnErrorInv == IInv /\ ReturnError => IInv'
<1> SUFFICES ASSUME IInv, ReturnError PROVE IInv'
  OBVIOUS
<1>1. /\ cb = "error" /\ cb' = "none"
      /\ ConnectionClose("read")
      /\ UNCHANGED <<refcount, held, released, shutreq, called, reads,
                     reports, closes>>
  BY DEF ReturnError
<1>2. /\ flag' = flag \cup {"CLOSED"}
      /\ fault' = fault
      /\ handle' = (IF handle = "open" THEN "closing" ELSE handle)
      /\ closedBy' = (IF handle = "open" THEN "read" ELSE closedBy)
      /\ writes' \in Seq(Outcome)
      /\ Len(writes') = Len(writes)
      /\ \A i \in 1..Len(writes) :
            /\ writes'[i] # "queued"
            /\ writes[i] # "queued" => writes'[i] = writes[i]
  BY <1>1, ConnectionCloseFacts
<1>3. handle # "closed"
  BY <1>1 DEF IInv, ClosePhases
<1>4. TypeOK' /\ NoLoopFault' /\ FlagMatchesHandle' /\ RefsCounted' /\ ClosePhases'
  BY <1>1, <1>2, <1>3 DEF IInv, TypeOK, NoLoopFault, FlagMatchesHandle,
     RefsCounted, ClosePhases, Flags
<1>5. CallbacksFollowWrites'
  BY <1>1, <1>2 DEF IInv, TypeOK, CallbacksFollowWrites
<1>6. RequestsSettled'
  BY <1>1, <1>2 DEF IInv, TypeOK, RequestsSettled
<1>7. EndKeepsCloseOut'
  BY <1>1, <1>2, <1>3 DEF IInv, TypeOK, EndKeepsCloseOut, RequestsSettled
<1> QED
  BY <1>4, <1>5, <1>6, <1>7 DEF IInv

LEMMA ShutdownCbInv == IInv /\ ShutdownCb => IInv'
<1> SUFFICES ASSUME IInv, ShutdownCb PROVE IInv'
  OBVIOUS
<1>1. /\ shutreq = "pending" /\ shutreq' = "done"
      /\ handle = "open" => Queued = {}
      /\ handle # "closed"
      /\ ConnectionClose("shutdown")
      /\ UNCHANGED <<refcount, held, released, cb, called, reads, reports,
                     closes>>
  BY ResourcePresent DEF ShutdownCb
<1>2. /\ flag' = flag \cup {"CLOSED"}
      /\ fault' = fault
      /\ handle' = (IF handle = "open" THEN "closing" ELSE handle)
      /\ closedBy' = (IF handle = "open" THEN "shutdown" ELSE closedBy)
      /\ writes' \in Seq(Outcome)
      /\ Len(writes') = Len(writes)
      /\ \A i \in 1..Len(writes) :
            /\ writes'[i] # "queued"
            /\ writes[i] # "queued" => writes'[i] = writes[i]
  BY <1>1, ConnectionCloseFacts
<1>3. \A i \in 1..Len(writes) : writes[i] # "queued"
  BY <1>1 DEF IInv, TypeOK, RequestsSettled, Queued
<1>4. TypeOK' /\ NoLoopFault' /\ FlagMatchesHandle' /\ RefsCounted' /\ ClosePhases'
  BY <1>1, <1>2 DEF IInv, TypeOK, NoLoopFault, FlagMatchesHandle,
     RefsCounted, ClosePhases, Flags
<1>5. CallbacksFollowWrites'
  BY <1>1, <1>2 DEF IInv, TypeOK, CallbacksFollowWrites
<1>6. RequestsSettled'
  BY <1>1, <1>2 DEF IInv, TypeOK, RequestsSettled
<1>7. EndKeepsCloseOut'
  BY <1>1, <1>2, <1>3 DEF IInv, TypeOK, EndKeepsCloseOut, RequestsSettled
<1> QED
  BY <1>4, <1>5, <1>6, <1>7 DEF IInv

LEMMA CloseCbInv == IInv /\ CloseCb => IInv'
<1> SUFFICES ASSUME IInv, CloseCb PROVE IInv'
  OBVIOUS
<1>1. /\ handle = "closing" /\ handle' = "closed"
      /\ called = Len(writes)
      /\ shutreq # "pending"
      /\ cb' = "close"
      /\ closes' = closes + 1
      /\ UNCHANGED <<flag, refcount, held, released, shutreq, writes, called,
                     reads, reports, closedBy, fault>>
  BY ResourcePresent DEF CloseCb
<1>2. ~released
  BY <1>1 DEF IInv, ClosePhases
<1> QED
  BY <1>1, <1>2 DEF IInv, TypeOK, Event, NoLoopFault, FlagMatchesHandle,
     RefsCounted, ClosePhases, CallbacksFollowWrites, RequestsSettled,
     EndKeepsCloseOut

LEMMA ReturnCloseInv == IInv /\ ReturnClose => IInv'
<1> SUFFICES ASSUME IInv, ReturnClose PROVE IInv'
  OBVIOUS
<1>1. /\ cb = "close" /\ cb' = "none"
      /\ released' = TRUE /\ refcount' = refcount - 1
      /\ UNCHANGED <<flag, held, handle, shutreq, writes, called, reads,
                     reports, closes, closedBy, fault>>
  BY DEF ReturnClose, ReleaseResource, uvVars
<1>2. handle = "closed" /\ ~released
  BY <1>1 DEF IInv, ClosePhases
<1> QED
  BY <1>1, <1>2 DEF IInv, TypeOK, Event, NoLoopFault, FlagMatchesHandle,
     RefsCounted, ClosePhases, CallbacksFollowWrites, RequestsSettled,
     EndKeepsCloseOut

LEMMA StutterInv == IInv /\ UNCHANGED vars => IInv'
  BY DEF IInv, vars, TypeOK, NoLoopFault, FlagMatchesHandle, RefsCounted,
         ClosePhases, CallbacksFollowWrites, RequestsSettled, EndKeepsCloseOut

LEMMA NextInv == IInv /\ [Next]_vars => IInv'
  BY WriteInv, EndInv, CloseInv, AddRefInv, DropRefInv, InspectInv,
     KernelWriteInv, ReadInv, WriteCbInv, ReturnInv, ReturnErrorInv,
     ShutdownCbInv, CloseCbInv, ReturnCloseInv, StutterInv
     DEF Next, UserCall, LoopStep

\* The invariant holds in every reachable state.
THEOREM Invariance == Spec => []IInv
  BY InitInv, NextInv, PTL DEF Spec

\* The variables keep their types.
THEOREM TypeCorrect == Spec => []TypeOK
<1>1. IInv => TypeOK
  BY DEF IInv
<1> QED
  BY <1>1, Invariance, PTL

\* No callback of the loop touches freed memory and uv_close is called once,
\* for any number of writes, reads and references.
THEOREM LoopNeverFaults == Spec => []NoLoopFault
<1>1. IInv => NoLoopFault
  BY DEF IInv
<1> QED
  BY <1>1, Invariance, PTL

\* Every accepted write is reported once, in order, before "close".
THEOREM WritesAreReported == Spec => []WritesReported
<1>1. IInv => WritesReported
  <2> SUFFICES ASSUME IInv PROVE WritesReported
    OBVIOUS
  <2>1. DOMAIN reports = 1..called
    BY DEF IInv, TypeOK, CallbacksFollowWrites
  <2>2. closes > 0 => called = Len(writes)
    BY DEF IInv, ClosePhases, RequestsSettled
  <2> QED
    BY <2>1, <2>2 DEF IInv, CallbacksFollowWrites, WritesReported
<1> QED
  BY <1>1, Invariance, PTL

\* close() never overtakes an accepted end().
THEOREM EndingIsGraceful == Spec => []EndIsGraceful
<1>1. IInv => EndIsGraceful
  BY DEF IInv, TypeOK, EndKeepsCloseOut, EndIsGraceful
<1> QED
  BY <1>1, Invariance, PTL

\* After "close" is emitted nothing more is reported.
THEOREM ClosingIsLast == Spec => CloseIsLast
<1>1. ASSUME IInv, [Next]_vars, closes > 0
      PROVE  UNCHANGED <<closes, reads, reports>>
  <2>1. handle = "closed" /\ called = Len(writes)
    BY <1>1 DEF IInv, ClosePhases, RequestsSettled
  <2>2. ~ReadData /\ ~ReadError /\ ~WriteCb /\ ~CloseCb /\ ~ShutdownCb
    BY <2>1 DEF IInv, RequestsSettled, ReadData, ReadError, WriteCb, CloseCb,
       ShutdownCb
  <2>3. CASE UserCall
    BY <2>3 DEF UserCall, Write, End, Close, Inspect, AddRef, DropRef, UserFault
  <2>4. CASE Return \/ ReturnError \/ ReturnClose \/ KernelWrite
    BY <2>4 DEF Return, ReturnError, ReturnClose, KernelWrite
  <2>5. CASE UNCHANGED vars
    BY <2>5 DEF vars
  <2> QED
    BY <1>1, <2>2, <2>3, <2>4, <2>5 DEF Next, LoopStep
<1>2. IInv /\ [Next]_vars => [closes > 0 => UNCHANGED <<closes, reads, reports>>]_vars
  BY <1>1
<1> QED
  BY <1>2, Invariance, PTL DEF Spec, CloseIsLast

-----------------------------------------------------------------------------
(* Under the HTTP server. *)

\* A connection with the hook of the HTTP server behaves, but for what the
\* hook does, as StreamConnection says (http_connection_read_cb).
THEOREM HookIsTransparent == HttpSpec => Spec
<1>1. HttpInit => Init
  BY DEF HttpInit
<1>2. [HttpNext]_<<vars, http>> => [Next]_vars
  BY DEF HttpNext
<1> QED
  BY <1>1, <1>2, PTL DEF HttpSpec, Spec

\* The safety of the connection, under the HTTP server: the loop uses no freed
\* connection, every write is reported once and in order, an accepted end is
\* not closed over, and nothing follows the close event.
THEOREM HttpConnectionIsSafe ==
    HttpSpec => [](NoLoopFault /\ WritesReported /\ EndIsGraceful) /\ CloseIsLast
  BY HookIsTransparent, LoopNeverFaults, WritesAreReported, EndingIsGraceful,
     ClosingIsLast, PTL

\* The reads follow each other, and none is of nothing.
ReadsFollow ==
    /\ pos \in Nat
    /\ chunks \in Seq(Nat \X Nat)
    /\ \A i \in DOMAIN chunks : chunks[i][1] < pos

HttpInv ==
    /\ hooked \in BOOLEAN /\ unset \in Nat /\ parsed \in Seq(DOMAIN Requests)
    /\ ReadsFollow
    /\ WholeRequestsOnly

\* What the peer sends of a request, and that requests do not overlap.
LEMMA RequestFacts ==
    ASSUME NEW r \in DOMAIN Requests
    PROVE  /\ Requests[r].start \in Nat /\ Requests[r].header \in Nat \ {0}
           /\ r \in Nat
           /\ \A s \in DOMAIN Requests :
                 r < s => Requests[r].start + Requests[r].header <= Requests[s].start
<1>1. Requests[r] \in [start : Nat, header : Nat \ {0}] /\ r \in Nat
  <2> DEFINE S == [start : Nat, header : Nat \ {0}]
  <2>1. Requests \in Seq(S)
    BY RequestsAssumption
  <2> HIDE DEF S
  <2>2. Requests[r] \in S /\ r \in Nat
    BY <2>1
  <2> QED
    BY <2>2 DEF S
<1>2. Requests[r].start \in Nat /\ Requests[r].header \in Nat \ {0}
  BY <1>1
<1> QED
  BY <1>1, <1>2, RequestsAssumption

\* A read adds to the requests that come whole what the parser finds in it.
LEMMA WholeAfterRead ==
    ASSUME ReadsFollow, NEW n \in 1 .. Sent - pos, HttpRead(n)
    PROVE  Whole' = Whole \cup ParseHeader(n)
<1>1. n \in Nat /\ pos \in Nat /\ chunks \in Seq(Nat \X Nat) /\ Sent \in Int /\ HeaderMax \in Nat
  BY RequestsAssumption DEF ReadsFollow
<1>2. chunks' = Append(chunks, <<pos, pos + n>>)
  BY DEF HttpRead
<1>3. Range(chunks') = Range(chunks) \cup {<<pos, pos + n>>}
  <2>1. \A c \in Range(chunks') : c \in Range(chunks) \cup {<<pos, pos + n>>}
    BY <1>1, <1>2 DEF Range
  <2>2. \A i \in DOMAIN chunks : chunks[i] \in Range(chunks')
    <3> TAKE i \in DOMAIN chunks
    <3>1. i \in DOMAIN chunks' /\ chunks'[i] = chunks[i]
      BY <1>1, <1>2
    <3> QED
      BY <3>1 DEF Range
  <2>3. <<pos, pos + n>> \in Range(chunks')
    <3>1. Len(chunks) + 1 \in DOMAIN chunks' /\ chunks'[Len(chunks) + 1] = <<pos, pos + n>>
      BY <1>1, <1>2
    <3> QED
      BY <3>1 DEF Range
  <2> QED
    BY <2>1, <2>2, <2>3 DEF Range
<1>4. ASSUME NEW r \in DOMAIN Requests
      PROVE  r \in ParseHeader(n) <=>
                /\ pos = Requests[r].start
                /\ (pos + n) - pos \in Requests[r].header .. HeaderMax
  <2>1. Requests[r].header \in Nat
    BY RequestFacts
  <2> QED
    BY <1>1, <2>1 DEF ParseHeader, Found
<1>5. ParseHeader(n) \subseteq DOMAIN Requests
  BY DEF ParseHeader, Found
<1>6. Whole' = {r \in DOMAIN Requests : \E c \in Range(chunks') :
                  /\ c[1] = Requests[r].start
                  /\ c[2] - c[1] \in Requests[r].header .. HeaderMax}
  BY DEF Whole
<1>7. ASSUME NEW r \in DOMAIN Requests
      PROVE  r \in Whole' <=> r \in Whole \/ r \in ParseHeader(n)
  <2> DEFINE Comes(c) == /\ c[1] = Requests[r].start
                         /\ c[2] - c[1] \in Requests[r].header .. HeaderMax
  <2>1. r \in Whole' <=> \E c \in Range(chunks') : Comes(c)
    BY <1>6
  <2>2. r \in Whole <=> \E c \in Range(chunks) : Comes(c)
    BY DEF Whole
  <2>3. r \in ParseHeader(n) <=> Comes(<<pos, pos + n>>)
    BY <1>4
  <2> QED
    BY <1>3, <2>1, <2>2, <2>3
<1>8. Whole' \subseteq DOMAIN Requests /\ Whole \subseteq DOMAIN Requests
  BY <1>6 DEF Whole
<1> QED
  BY <1>5, <1>7, <1>8

\* What came whole so far begins before the place the next read begins at.
LEMMA WholeIsBehind ==
    ASSUME ReadsFollow, NEW r \in Whole
    PROVE  r \in DOMAIN Requests /\ Requests[r].start < pos
<1>1. PICK c \in Range(chunks) : c[1] = Requests[r].start
  BY DEF Whole
<1>2. PICK i \in DOMAIN chunks : chunks[i] = c
  BY <1>1 DEF Range
<1> QED
  BY <1>1, <1>2 DEF ReadsFollow, Whole

LEMMA HttpInitInv == HttpInit => HttpInv
<1> SUFFICES ASSUME HttpInit PROVE HttpInv
  OBVIOUS
<1> USE DEF HttpInit
<1>1. ReadsFollow
  BY DEF ReadsFollow
<1>2. Range(chunks) = {} /\ Range(parsed) = {}
  BY DEF Range
<1>3. Whole = {}
  BY <1>2 DEF Whole
<1>4. WholeRequestsOnly
  BY <1>2, <1>3 DEF WholeRequestsOnly
<1>5. parsed \in Seq(DOMAIN Requests)
  OBVIOUS
<1> QED
  BY <1>1, <1>4, <1>5 DEF HttpInv

\* http_connection_read_cb
LEMMA HttpReadInv ==
    ASSUME HttpInv, NEW n \in 1 .. Sent - pos, HttpRead(n)
    PROVE  HttpInv'
<1>1. /\ pos \in Nat /\ n \in Nat \ {0} /\ pos' = pos + n
      /\ chunks \in Seq(Nat \X Nat) /\ chunks' = Append(chunks, <<pos, pos + n>>)
  BY RequestsAssumption DEF HttpInv, ReadsFollow, HttpRead
<1>2. ReadsFollow'
  <2>1. pos' \in Nat /\ chunks' \in Seq(Nat \X Nat)
    BY <1>1
  <2>2. ASSUME NEW i \in DOMAIN chunks' PROVE chunks'[i][1] < pos'
    <3>1. CASE i \in DOMAIN chunks
      BY <1>1, <3>1 DEF HttpInv, ReadsFollow
    <3>2. CASE i = Len(chunks) + 1
      BY <1>1, <3>2
    <3> QED
      BY <1>1, <3>1, <3>2
  <2> QED
    BY <2>1, <2>2 DEF ReadsFollow
<1>3. Whole' = Whole \cup ParseHeader(n)
  BY WholeAfterRead DEF HttpInv
<1>4. hooked' = hooked /\ hooked \in BOOLEAN /\ unset \in Nat /\ parsed \in Seq(DOMAIN Requests)
  BY DEF HttpInv, HttpRead
<1>5. Len(chunks') = Len(chunks) + 1 /\ Len(chunks) \in Nat /\ Len(parsed) \in Nat
  BY <1>1, <1>4
<1>6. CASE ~hooked
  <2>1. parsed' = parsed /\ unset' = unset
    BY <1>6 DEF HttpRead
  <2>2. WholeRequestsOnly'
    BY <1>4, <1>6, <2>1 DEF HttpInv, WholeRequestsOnly
  <2> QED
    BY <1>2, <1>4, <2>1, <2>2 DEF HttpInv
<1>7. CASE hooked /\ \E r \in ParseHeader(n) : parsed' = Append(parsed, r) /\ UNCHANGED unset
  <2>1. PICK r \in ParseHeader(n) : parsed' = Append(parsed, r) /\ UNCHANGED unset
    BY <1>7
  <2>2. r \in DOMAIN Requests /\ Requests[r].start = pos
    BY DEF ParseHeader, Found
  <2>3. ParseHeader(n) = {r}
    <3> SUFFICES ASSUME NEW s \in ParseHeader(n), s # r PROVE FALSE
      OBVIOUS
    <3>1. s \in DOMAIN Requests /\ Requests[s].start = pos
      BY DEF ParseHeader, Found
    <3>2. /\ Requests[r].start \in Nat /\ Requests[r].header \in Nat \ {0}
          /\ Requests[s].start \in Nat /\ Requests[s].header \in Nat \ {0}
      BY <2>2, <3>1, RequestFacts
    <3>3. r < s \/ s < r
      BY <2>2, <3>1, RequestFacts
    <3>4. CASE r < s
      <4>1. Requests[r].start + Requests[r].header <= Requests[s].start
        BY <2>2, <3>1, <3>4, RequestFacts
      <4> QED
        BY <2>2, <3>1, <3>2, <4>1
    <3>5. CASE s < r
      <4>1. Requests[s].start + Requests[s].header <= Requests[r].start
        BY <2>2, <3>1, <3>5, RequestFacts
      <4> QED
        BY <2>2, <3>1, <3>2, <4>1
    <3> QED
      BY <3>3, <3>4, <3>5
  <2>4. parsed' \in Seq(DOMAIN Requests) /\ Len(parsed') = Len(parsed) + 1
    BY <1>4, <2>1, <2>2
  <2>5. Range(parsed') = Range(parsed) \cup {r}
    <3>1. \A q \in Range(parsed') : q \in Range(parsed) \cup {r}
      BY <1>4, <2>1 DEF Range
    <3>2. ASSUME NEW i \in DOMAIN parsed PROVE parsed[i] \in Range(parsed')
      <4>1. i \in DOMAIN parsed' /\ parsed'[i] = parsed[i]
        BY <1>4, <2>1
      <4> QED
        BY <4>1 DEF Range
    <3>3. r \in Range(parsed')
      <4>1. Len(parsed) + 1 \in DOMAIN parsed' /\ parsed'[Len(parsed) + 1] = r
        BY <1>4, <2>1
      <4> QED
        BY <4>1 DEF Range
    <3> QED
      BY <3>1, <3>2, <3>3 DEF Range
  <2>6. Range(parsed') = Whole'
    BY <1>3, <1>7, <2>3, <2>5 DEF HttpInv, WholeRequestsOnly
  <2>7. ASSUME NEW i \in DOMAIN parsed PROVE parsed[i] < r
    <3>1. parsed[i] \in Whole
      BY <1>7 DEF HttpInv, WholeRequestsOnly, Range
    <3>2. parsed[i] \in DOMAIN Requests /\ Requests[parsed[i]].start < pos
      BY <3>1, WholeIsBehind DEF HttpInv
    <3>3. ~(r < parsed[i]) /\ parsed[i] # r
      <4>1. parsed[i] # r
        BY <1>1, <2>2, <3>2
      <4>2. ASSUME r < parsed[i] PROVE FALSE
        <5>1. /\ Requests[r].start \in Nat /\ Requests[r].header \in Nat
              /\ Requests[r].start + Requests[r].header <= Requests[parsed[i]].start
              /\ Requests[parsed[i]].start \in Nat
          BY <2>2, <3>2, <4>2, RequestFacts
        <5> QED
          BY <1>1, <2>2, <3>2, <5>1
      <4> QED
        BY <4>1, <4>2
    <3>4. r \in Nat /\ parsed[i] \in Nat
      BY <2>2, <3>2, RequestsAssumption
    <3> QED
      BY <3>3, <3>4
  <2>8. ASSUME NEW i \in DOMAIN parsed', NEW j \in DOMAIN parsed', i < j
        PROVE  parsed'[i] < parsed'[j]
    <3>1. i \in DOMAIN parsed /\ parsed'[i] = parsed[i]
      BY <1>4, <2>1, <2>4, <2>8
    <3>2. CASE j \in DOMAIN parsed
      <4>1. parsed'[j] = parsed[j]
        BY <1>4, <2>1, <3>2
      <4> QED
        BY <1>7, <2>8, <3>1, <3>2, <4>1 DEF HttpInv, WholeRequestsOnly
    <3>3. CASE j = Len(parsed) + 1
      <4>1. parsed'[j] = r
        BY <1>4, <2>1, <3>3
      <4> QED
        BY <2>7, <3>1, <4>1
    <3> QED
      BY <1>4, <2>1, <3>2, <3>3
  <2>9. unset' = Len(chunks') - Len(parsed')
    BY <1>4, <1>5, <1>7, <2>1, <2>4 DEF HttpInv, WholeRequestsOnly
  <2>10. WholeRequestsOnly'
    BY <1>4, <1>7, <2>6, <2>8, <2>9 DEF WholeRequestsOnly
  <2> QED
    BY <1>2, <1>4, <2>1, <2>4, <2>10 DEF HttpInv
<1>8. CASE hooked /\ ParseHeader(n) = {} /\ unset' = unset + 1 /\ UNCHANGED parsed
  <2>1. Range(parsed') = Whole'
    BY <1>3, <1>8 DEF HttpInv, WholeRequestsOnly
  <2>2. unset' = Len(chunks') - Len(parsed')
    BY <1>4, <1>5, <1>8 DEF HttpInv, WholeRequestsOnly
  <2>3. WholeRequestsOnly'
    BY <1>4, <1>8, <2>1, <2>2 DEF HttpInv, WholeRequestsOnly
  <2> QED
    BY <1>2, <1>4, <1>8, <2>3 DEF HttpInv
<1> QED
  BY <1>6, <1>7, <1>8 DEF HttpRead

\* However the bytes of the peer are cut into reads, the HTTP server reports
\* exactly the requests that come whole in one read, each once and in order
\* (http_connection_read_cb).
THEOREM WholeRequestsAreParsed == HttpSpec => []WholeRequestsOnly
<1>1. HttpInv /\ [HttpNext]_<<vars, http>> => HttpInv'
  <2> SUFFICES ASSUME HttpInv, [HttpNext]_<<vars, http>> PROVE HttpInv'
    OBVIOUS
  <2>1. CASE \E n \in 1 .. Sent - pos : HttpRead(n)
    BY <2>1, HttpReadInv
  <2>2. CASE UNCHANGED http
    BY <2>2 DEF http, HttpInv, ReadsFollow, WholeRequestsOnly, Whole
  <2> QED
    BY <2>1, <2>2 DEF HttpNext
<1>2. HttpInv => WholeRequestsOnly
  BY DEF HttpInv
<1> QED
  BY <1>1, <1>2, HttpInitInv, PTL DEF HttpSpec

-----------------------------------------------------------------------------
(***************************************************************************)
(* Under a secure stream: the two objects release each other once, the     *)
(* loop never meets a freed one, and no record stays in the BIO but those  *)
(* that SSL_read put there.                                                *)
(*                                                                         *)
(* The argument is about nesting: the callbacks of the secure stream run   *)
(* inside those of the connection, so the place in connection_read_cb and  *)
(* the event that PHP code handles tell which callback of the connection   *)
(* runs, and with it which of the two objects are there.                   *)
(***************************************************************************)

BelowTypes ==
    /\ flag \subseteq Flags /\ held = 0 /\ released \in BOOLEAN
    /\ cb \in {"none", "data", "error", "write", "close"}
    /\ handle \in {"open", "closing", "closed"}
    /\ fault \in {"none", "double_close", "loop_after_free", "user_after_free"}

\* The CLOSED flag says whether uv_close was called; "close" is emitted between
\* the close callback and the release.
ClosesOnce ==
    /\ "CLOSED" \in flag <=> handle # "open"
    /\ cb = "close" <=> handle = "closed" /\ ~released
    /\ released => handle = "closed" /\ cb = "none"

\* What runs of the secure stream runs inside a callback of the connection.
Nested ==
    /\ at # "idle" <=> cb = "data"
    /\ event \in {"connect", "resolve"} => at = "flush"
    /\ event \in {"reject", "data"} => at = "records"
    /\ event = "write" <=> cb = "write"
    /\ event = "close" <=> cb = "close"

\* A connector is there from the connect to the end of the handlers, which run
\* after the handshake.
ConnectorLives ==
    /\ at \in {"shake", "refuse"} => shaking
    /\ shaking => event \notin {"connect", "resolve", "reject"}
    /\ side = "client" => event # "connect"
    /\ side = "server" => event \notin {"resolve", "reject"}
    /\ side = "client" /\ (shaking \/ event \in {"resolve", "reject"})
          => connector = "live"

\* What is in the BIO is the end of a handshake that is sent soon, what the
\* connection refused, or an answer of SSL_read.
Unsent == at # "flush" /\ writeBio > 0 => Refuses \/ answer

SecureIInv ==
    /\ BelowTypes /\ ClosesOnce /\ Nested /\ ConnectorLives /\ Unsent
    /\ ReleasedTogether /\ NoLoopFault

-----------------------------------------------------------------------------
(* What the helpers do. *)

\* connection_close reaches uv_close only with an open handle.
LEMMA CloseFacts ==
    ASSUME SecureIInv, ConnectionClose("secure") \/ ConnectionClose("read")
                 \/ ConnectionClose("shutdown")
    PROVE  /\ flag' = flag \cup {"CLOSED"} /\ fault' = fault
           /\ handle' = (IF handle = "open" THEN "closing" ELSE handle)
           /\ closedBy' \in {"none", "read", "shutdown", "secure"}
<1>1. CASE "CLOSED" \in flag
  BY <1>1 DEF SecureIInv, ClosesOnce, ConnectionClose, ReleasedTogether, SecureTypeOK
<1>2. CASE "CLOSED" \notin flag
  <2>1. handle = "open"
    BY <1>2 DEF SecureIInv, ClosesOnce
  <2> QED
    BY <1>2, <2>1 DEF ConnectionClose, UvClose
<1> QED
  BY <1>1, <1>2

\* write_bio_to_socket leaves records only if the connection refuses them.
LEMMA FlushFacts ==
    ASSUME SecureIInv, NEW n \in Nat, Flush(n) \/ (n > 0 /\ WriteBioToSocket(n))
    PROVE  /\ writeBio' \in Nat /\ answer' \in BOOLEAN
           /\ writeBio' > 0 => Refuses \/ (n = 0 /\ UNCHANGED <<writeBio, answer>>)
<1>1. CASE n = 0
  BY <1>1 DEF Flush, SecureIInv, ReleasedTogether, SecureTypeOK
<1>2. CASE n > 0
  <2>1. WriteBioToSocket(n)
    BY <1>2 DEF Flush
  <2>2. PICK k \in 1 .. n :
           IF Refuses
           THEN writeBio' = n - k /\ UNCHANGED <<writes, answer>>
           ELSE /\ writes' = writes \o [i \in 1 .. k |-> "queued"]
                /\ writeBio' = 0 /\ answer' = FALSE
    BY <2>1 DEF WriteBioToSocket
  <2>3. answer \in BOOLEAN
    BY DEF SecureIInv, ReleasedTogether, SecureTypeOK
  <2>4. CASE Refuses
    <3>1. writeBio' = n - k /\ answer' = answer
      BY <2>2, <2>4
    <3>2. writeBio' \in Nat
      BY <3>1
    <3>3. answer' \in BOOLEAN
      BY <2>3, <3>1, Zenon
    <3> QED
      BY <2>4, <3>2, <3>3, Zenon
  <2>5. CASE ~Refuses
    <3>1. writeBio' = 0 /\ answer' = FALSE
      BY <2>2, <2>5, Zenon
    <3>2. answer' \in BOOLEAN
      BY <3>1, Zenon
    <3>3. writeBio' \in Nat /\ ~(writeBio' > 0)
      BY <3>1
    <3> QED
      BY <3>2, <3>3, Zenon
  <2> QED
    BY <2>4, <2>5, Zenon
<1> QED
  BY <1>1, <1>2

-----------------------------------------------------------------------------
(* The steps. *)

\* What changes nothing.
LEMMA SecureStutterInv ==
    ASSUME SecureIInv, UNCHANGED allVars
    PROVE  SecureIInv'
<1>1. UNCHANGED <<flag, refcount, held, released, cb, handle, fault, closedBy>>
  BY DEF allVars, vars
<1>2. UNCHANGED <<side, shaking, ssl, at, event, given, readBio, writeBio, answer,
                  freed, srefs, sheld, promise, connector>>
  BY DEF allVars, secureVars
<1>3. (BelowTypes /\ ClosesOnce /\ Nested /\ ConnectorLives)'
  BY <1>1, <1>2 DEF SecureIInv, BelowTypes, ClosesOnce, Nested, ConnectorLives
<1>4. SecureTypeOK'
  <2>1. shaking' \in BOOLEAN /\ given' \in BOOLEAN /\ freed' \in BOOLEAN
        /\ answer' \in BOOLEAN
    BY <1>1, <1>2, Zenon DEF SecureIInv, ReleasedTogether, SecureTypeOK
  <2>2. /\ closedBy' \in {"none", "read", "shutdown", "secure"}
        /\ refcount' \in 0 .. 2 /\ side' \in {"server", "client"}
        /\ ssl' \in {"going", "done", "failed"}
        /\ at' \in {"idle", "shake", "refuse", "flush", "records"}
        /\ event' \in {"none", "connect", "resolve", "reject", "data", "write", "close"}
    BY <1>1, <1>2, SMT DEF SecureIInv, ReleasedTogether, SecureTypeOK
  <2>3. /\ readBio' \in Nat /\ writeBio' \in Nat
        /\ srefs' \in Nat /\ sheld' \in 0 .. MaxHeld
        /\ promise' \in {"none", "pending", "fulfilled", "rejected"}
        /\ connector' \in {"none", "live", "freed"}
    BY <1>1, <1>2, BoundsAssumption DEF SecureIInv, ReleasedTogether, SecureTypeOK
  <2> QED
    BY <2>1, <2>2, <2>3, Zenon DEF SecureTypeOK
<1>5. Unsent'
  BY <1>1, <1>2, Zenon DEF SecureIInv, Unsent, Refuses
<1> QED
  BY <1>1, <1>2, <1>3, <1>4, <1>5 DEF SecureIInv, ReleasedTogether, NoLoopFault

\* A read on the connection: the object is there while the handle is open.
LEMMA SecureReadInv ==
    ASSUME SecureIInv, SecureRead
    PROVE  SecureIInv'
BY DEF SecureIInv, BelowTypes, ClosesOnce, Nested, ConnectorLives, Unsent, Refuses,
         ReleasedTogether, SecureTypeOK, NoLoopFault,
       SecureRead, ReadData, LoopIdle, LoopFault, ResourceGone, uvVars, objects, outcome

\* The hooks of the write event.
LEMMA SecureWriteCbInv ==
    ASSUME SecureIInv, SecureWriteCb
    PROVE  SecureIInv'
BY DEF SecureIInv, BelowTypes, ClosesOnce, Nested, ConnectorLives, Unsent, Refuses,
         ReleasedTogether, SecureTypeOK, NoLoopFault,
       SecureWriteCb, SecureGone, WriteCb, LoopIdle, LoopFault, ResourceGone, uvVars,
       objects, bios, outcome

\* The hooks of the close event.
LEMMA SecureCloseCbInv ==
    ASSUME SecureIInv, SecureCloseCb
    PROVE  SecureIInv'
BY DEF SecureIInv, BelowTypes, ClosesOnce, Nested, ConnectorLives, Unsent, Refuses,
         ReleasedTogether, SecureTypeOK, NoLoopFault,
       SecureCloseCb, SecureGone, CloseCb, LoopIdle, LoopFault, ResourceGone, uvVars,
       objects, bios, outcome

\* releaseResource of both objects.
LEMMA ReturnSecureCloseInv ==
    ASSUME SecureIInv, ReturnSecureClose
    PROVE  SecureIInv'
BY DEF SecureIInv, BelowTypes, ClosesOnce, Nested, ConnectorLives, Unsent, Refuses,
         ReleasedTogether, SecureTypeOK, NoLoopFault,
       ReturnSecureClose, uvVars, bios, outcome

\* The listeners of "write" have returned.
LEMMA ReturnWriteInv ==
    ASSUME SecureIInv, ReturnWrite
    PROVE  SecureIInv'
BY DEF SecureIInv, BelowTypes, ClosesOnce, Nested, ConnectorLives, Unsent, Refuses,
         ReleasedTogether, SecureTypeOK, NoLoopFault,
       ReturnWrite, Return, uvVars, objects, bios, outcome

\* An error or the end of the stream, which the secure stream does not hear of.
LEMMA ReadErrorInv ==
    ASSUME SecureIInv, Below, ReadError
    PROVE  SecureIInv'
BY DEF SecureIInv, BelowTypes, ClosesOnce, Nested, ConnectorLives, Unsent, Refuses,
         ReleasedTogether, SecureTypeOK, NoLoopFault,
       Below, ReadError, LoopIdle, LoopFault, ResourceGone, uvVars, secureVars

\* read_cb closes after it.
LEMMA SecureReturnErrorInv ==
    ASSUME SecureIInv, Below, ReturnError
    PROVE  SecureIInv'
<1>1. /\ flag' = flag \cup {"CLOSED"} /\ fault' = fault
      /\ handle' = (IF handle = "open" THEN "closing" ELSE handle)
      /\ closedBy' \in {"none", "read", "shutdown", "secure"}
  BY CloseFacts DEF Below, ReturnError
<1> QED
  BY <1>1 DEF SecureIInv, BelowTypes, ClosesOnce, Nested, ConnectorLives, Unsent, Refuses,
         ReleasedTogether, SecureTypeOK, NoLoopFault, Flags,
         Below, ReturnError, uvVars, secureVars

\* The connection is shut down.
LEMMA SecureShutdownCbInv ==
    ASSUME SecureIInv, Below, ShutdownCb
    PROVE  SecureIInv'
<1>1. ~ResourceGone
  BY DEF SecureIInv, ClosesOnce, ReleasedTogether, Below, ShutdownCb, ResourceGone
<1>2. /\ flag' = flag \cup {"CLOSED"} /\ fault' = fault
      /\ handle' = (IF handle = "open" THEN "closing" ELSE handle)
      /\ closedBy' \in {"none", "read", "shutdown", "secure"}
  BY <1>1, CloseFacts DEF ShutdownCb
<1> QED
  BY <1>1, <1>2 DEF SecureIInv, BelowTypes, ClosesOnce, Nested, ConnectorLives, Unsent,
                    Refuses,
         ReleasedTogether, SecureTypeOK, NoLoopFault, Flags,
         Below, ShutdownCb, LoopIdle, uvVars, secureVars

\* The kernel takes a write.
LEMMA SecureKernelWriteInv ==
    ASSUME SecureIInv, Below, KernelWrite
    PROVE  SecureIInv'
BY DEF SecureIInv, BelowTypes, ClosesOnce, Nested, ConnectorLives, Unsent, Refuses,
         ReleasedTogether, SecureTypeOK, NoLoopFault,
       Below, KernelWrite, secureVars

\* A server announces the stream, with its last message unsent.
LEMMA ServerDoneInv ==
    ASSUME SecureIInv, ServerDone
    PROVE  SecureIInv'
<1>1. SecureTypeOK'
  <2>1. shaking' \in BOOLEAN /\ given' \in BOOLEAN /\ freed' \in BOOLEAN
        /\ answer' \in BOOLEAN
    BY Zenon DEF SecureIInv, ReleasedTogether, SecureTypeOK, ServerDone, ShakeDone, vars
  <2>2. /\ closedBy' \in {"none", "read", "shutdown", "secure"}
        /\ refcount' \in 0 .. 2 /\ side' \in {"server", "client"}
        /\ ssl' \in {"going", "done", "failed"}
        /\ at' \in {"idle", "shake", "refuse", "flush", "records"}
        /\ event' \in {"none", "connect", "resolve", "reject", "data", "write", "close"}
    BY DEF SecureIInv, ReleasedTogether, SecureTypeOK, ServerDone, ShakeDone, vars
  <2>3. /\ readBio' \in Nat /\ writeBio' \in Nat
        /\ srefs' \in Nat /\ sheld' \in 0 .. MaxHeld
        /\ promise' \in {"none", "pending", "fulfilled", "rejected"}
        /\ connector' \in {"none", "live", "freed"}
    BY DEF SecureIInv, ReleasedTogether, SecureTypeOK, ServerDone, ShakeDone, vars
  <2> QED
    BY <2>1, <2>2, <2>3, Zenon DEF SecureTypeOK
<1>2. (BelowTypes /\ ClosesOnce /\ Nested /\ ConnectorLives)'
  BY DEF SecureIInv, BelowTypes, ClosesOnce, Nested, ConnectorLives, ReleasedTogether,
         SecureTypeOK, ServerDone, ShakeDone, vars
<1>3. Unsent' /\ NoLoopFault'
  BY DEF SecureIInv, Unsent, NoLoopFault, ServerDone, ShakeDone, vars
<1>4. ReleasedTogether'
  BY <1>1, <1>2 DEF SecureIInv, ReleasedTogether, BelowTypes, ConnectorLives, SecureTypeOK,
                    ServerDone, ShakeDone, vars
<1> QED
  BY <1>1, <1>2, <1>3, <1>4 DEF SecureIInv

\* The promise of connect() is fulfilled, with the last message unsent.
LEMMA ClientDoneInv ==
    ASSUME SecureIInv, ClientDone
    PROVE  SecureIInv'
<1>1. SecureTypeOK'
  <2>1. shaking' \in BOOLEAN /\ given' \in BOOLEAN /\ freed' \in BOOLEAN
        /\ answer' \in BOOLEAN
    BY Zenon DEF SecureIInv, ReleasedTogether, SecureTypeOK, ClientDone, ShakeDone, vars
  <2>2. /\ closedBy' \in {"none", "read", "shutdown", "secure"}
        /\ refcount' \in 0 .. 2 /\ side' \in {"server", "client"}
        /\ ssl' \in {"going", "done", "failed"}
        /\ at' \in {"idle", "shake", "refuse", "flush", "records"}
        /\ event' \in {"none", "connect", "resolve", "reject", "data", "write", "close"}
    BY DEF SecureIInv, ReleasedTogether, SecureTypeOK, ClientDone, ShakeDone, vars
  <2>3. /\ readBio' \in Nat /\ writeBio' \in Nat
        /\ srefs' \in Nat /\ sheld' \in 0 .. MaxHeld
        /\ promise' \in {"none", "pending", "fulfilled", "rejected"}
        /\ connector' \in {"none", "live", "freed"}
    BY DEF SecureIInv, ReleasedTogether, SecureTypeOK, ClientDone, ShakeDone, vars
  <2> QED
    BY <2>1, <2>2, <2>3, Zenon DEF SecureTypeOK
<1>2. (BelowTypes /\ ClosesOnce /\ Nested /\ ConnectorLives)'
  BY DEF SecureIInv, BelowTypes, ClosesOnce, Nested, ConnectorLives, ReleasedTogether,
         SecureTypeOK, ClientDone, ShakeDone, vars
<1>3. Unsent' /\ NoLoopFault'
  BY DEF SecureIInv, Unsent, NoLoopFault, ClientDone, ShakeDone, vars
<1>4. ReleasedTogether'
  BY <1>1, <1>2 DEF SecureIInv, ReleasedTogether, BelowTypes, ConnectorLives, SecureTypeOK,
                    ClientDone, ShakeDone, vars
<1> QED
  BY <1>1, <1>2, <1>3, <1>4 DEF SecureIInv

\* A certificate for another name: the connection closes first.
LEMMA ClientMismatchInv ==
    ASSUME SecureIInv, ClientMismatch
    PROVE  SecureIInv'
<1>1. /\ flag' = flag \cup {"CLOSED"} /\ fault' = fault
      /\ handle' = (IF handle = "open" THEN "closing" ELSE handle)
      /\ closedBy' \in {"none", "read", "shutdown", "secure"}
  BY CloseFacts DEF ClientMismatch
<1>2. SecureTypeOK'
  <2>1. shaking' \in BOOLEAN /\ given' \in BOOLEAN /\ freed' \in BOOLEAN
        /\ answer' \in BOOLEAN
    BY Zenon DEF SecureIInv, ReleasedTogether, SecureTypeOK, ClientMismatch, ShakeDone,
                 objects
  <2>2. /\ refcount' \in 0 .. 2 /\ side' \in {"server", "client"}
        /\ ssl' \in {"going", "done", "failed"}
        /\ at' \in {"idle", "shake", "refuse", "flush", "records"}
        /\ event' \in {"none", "connect", "resolve", "reject", "data", "write", "close"}
    BY DEF SecureIInv, ReleasedTogether, SecureTypeOK, ClientMismatch, ShakeDone, objects
  <2>3. /\ readBio' \in Nat /\ writeBio' \in Nat
        /\ srefs' \in Nat /\ sheld' \in 0 .. MaxHeld
        /\ promise' \in {"none", "pending", "fulfilled", "rejected"}
        /\ connector' \in {"none", "live", "freed"}
    BY DEF SecureIInv, ReleasedTogether, SecureTypeOK, ClientMismatch, ShakeDone, objects
  <2> QED
    BY <1>1, <2>1, <2>2, <2>3, Zenon DEF SecureTypeOK
<1>3. (BelowTypes /\ ClosesOnce /\ Nested /\ ConnectorLives)'
  BY <1>1 DEF SecureIInv, BelowTypes, ClosesOnce, Nested, ConnectorLives, Flags,
              ReleasedTogether, SecureTypeOK, ClientMismatch, ShakeDone, objects
<1>4. Unsent' /\ NoLoopFault'
  <2>1. handle' # "open"
    BY <1>1
  <2> QED
    BY <1>1, <2>1 DEF SecureIInv, Unsent, Refuses, NoLoopFault
<1>5. ReleasedTogether'
  BY <1>2, <1>3 DEF SecureIInv, ReleasedTogether, ConnectorLives, SecureTypeOK,
                    ClientMismatch,
                    ShakeDone, objects
<1> QED
  BY <1>2, <1>3, <1>4, <1>5 DEF SecureIInv

\* No certificate.
LEMMA ClientNoCertificateInv ==
    ASSUME SecureIInv, ClientNoCertificate
    PROVE  SecureIInv'
<1>1. SecureTypeOK'
  <2>1. shaking' \in BOOLEAN /\ given' \in BOOLEAN /\ freed' \in BOOLEAN
        /\ answer' \in BOOLEAN
    BY Zenon DEF SecureIInv, ReleasedTogether, SecureTypeOK, ClientNoCertificate,
                 ShakeDone, vars, objects, outcome
  <2>2. /\ closedBy' \in {"none", "read", "shutdown", "secure"}
        /\ refcount' \in 0 .. 2 /\ side' \in {"server", "client"}
        /\ ssl' \in {"going", "done", "failed"}
        /\ at' \in {"idle", "shake", "refuse", "flush", "records"}
        /\ event' \in {"none", "connect", "resolve", "reject", "data", "write", "close"}
    BY DEF SecureIInv, ReleasedTogether, SecureTypeOK, ClientNoCertificate, ShakeDone,
           vars, objects, outcome
  <2>3. /\ readBio' \in Nat /\ writeBio' \in Nat
        /\ srefs' \in Nat /\ sheld' \in 0 .. MaxHeld
        /\ promise' \in {"none", "pending", "fulfilled", "rejected"}
        /\ connector' \in {"none", "live", "freed"}
    BY DEF SecureIInv, ReleasedTogether, SecureTypeOK, ClientNoCertificate, ShakeDone,
           vars, objects, outcome
  <2> QED
    BY <2>1, <2>2, <2>3, Zenon DEF SecureTypeOK
<1>2. (BelowTypes /\ ClosesOnce /\ Nested /\ ConnectorLives)'
  BY DEF SecureIInv, BelowTypes, ClosesOnce, Nested, ConnectorLives, ReleasedTogether,
         SecureTypeOK, ClientNoCertificate, ShakeDone, vars, objects, outcome
<1>3. Unsent' /\ NoLoopFault'
  BY DEF SecureIInv, Unsent, NoLoopFault, ClientNoCertificate, ShakeDone, vars, objects,
         outcome
<1>4. ReleasedTogether'
  BY <1>1, <1>2 DEF SecureIInv, ReleasedTogether, BelowTypes, ConnectorLives, SecureTypeOK,
                    ClientNoCertificate, ShakeDone, vars, objects, outcome
<1> QED
  BY <1>1, <1>2, <1>3, <1>4 DEF SecureIInv

\* The handlers have returned and the connector goes.
LEMMA ReturnAnnouncedInv ==
    ASSUME SecureIInv, ReturnAnnounced
    PROVE  SecureIInv'
BY DEF SecureIInv, BelowTypes, ClosesOnce, Nested, ConnectorLives, Unsent, Refuses,
         ReleasedTogether, SecureTypeOK, NoLoopFault,
       ReturnAnnounced, vars, objects, bios

\* A server closes after a handshake that failed.
LEMMA ShakeRefuseInv ==
    ASSUME SecureIInv, ShakeRefuse
    PROVE  SecureIInv'
<1>1. CASE side = "server"
  <2>1. /\ flag' = flag \cup {"CLOSED"} /\ fault' = fault
        /\ handle' = (IF handle = "open" THEN "closing" ELSE handle)
        /\ closedBy' \in {"none", "read", "shutdown", "secure"}
    BY <1>1, CloseFacts DEF ShakeRefuse
  <2> QED
    BY <2>1 DEF SecureIInv, BelowTypes, ClosesOnce, Nested, ConnectorLives, Unsent, Refuses,
         ReleasedTogether, SecureTypeOK, NoLoopFault, Flags,
           ShakeRefuse, objects, bios, outcome
<1>2. CASE side # "server"
  BY <1>2 DEF SecureIInv, BelowTypes, ClosesOnce, Nested, ConnectorLives, Unsent, Refuses,
         ReleasedTogether, SecureTypeOK, NoLoopFault, Flags,
         ShakeRefuse, objects, bios, outcome
<1> QED
  BY <1>1, <1>2

\* The handshake sends a message or waits for one.
LEMMA ShakeWantsInv ==
    ASSUME SecureIInv, ShakeWants
    PROVE  SecureIInv'
BY FlushFacts DEF SecureIInv, BelowTypes, ClosesOnce, Nested, ConnectorLives, Unsent, Refuses,
         ReleasedTogether, SecureTypeOK, NoLoopFault,
       ShakeWants, objects, outcome

\* The handshake sends an alert.
LEMMA ShakeFailsInv ==
    ASSUME SecureIInv, ShakeFails
    PROVE  SecureIInv'
<1>0. /\ writeBio' \in Nat /\ answer' \in BOOLEAN
      /\ writeBio' > 0 => Refuses \/ UNCHANGED <<writeBio, answer>>
  <2>1. PICK n \in Nat : Flush(n)
    BY DEF SecureIInv, ReleasedTogether, SecureTypeOK, ShakeFails
  <2> QED
    BY <2>1, FlushFacts, Zenon
<1>1. SecureTypeOK'
  <2>1. shaking' \in BOOLEAN /\ given' \in BOOLEAN /\ freed' \in BOOLEAN
        /\ answer' \in BOOLEAN
    BY <1>0, Zenon DEF SecureIInv, ReleasedTogether, SecureTypeOK, ShakeFails, objects,
                       outcome
  <2>2. /\ closedBy' \in {"none", "read", "shutdown", "secure"}
        /\ refcount' \in 0 .. 2 /\ side' \in {"server", "client"}
        /\ ssl' \in {"going", "done", "failed"}
        /\ at' \in {"idle", "shake", "refuse", "flush", "records"}
        /\ event' \in {"none", "connect", "resolve", "reject", "data", "write", "close"}
    BY DEF SecureIInv, ReleasedTogether, SecureTypeOK, ShakeFails, objects, outcome
  <2>3. /\ readBio' \in Nat /\ writeBio' \in Nat
        /\ srefs' \in Nat /\ sheld' \in 0 .. MaxHeld
        /\ promise' \in {"none", "pending", "fulfilled", "rejected"}
        /\ connector' \in {"none", "live", "freed"}
    BY <1>0 DEF SecureIInv, ReleasedTogether, SecureTypeOK, ShakeFails, objects, outcome
  <2> QED
    BY <2>1, <2>2, <2>3, Zenon DEF SecureTypeOK
<1>2. (BelowTypes /\ ClosesOnce /\ Nested /\ ConnectorLives)'
  BY DEF SecureIInv, BelowTypes, ClosesOnce, Nested, ConnectorLives, ReleasedTogether,
         SecureTypeOK, ShakeFails, objects, outcome
<1>3. Unsent' /\ NoLoopFault'
  BY <1>0 DEF SecureIInv, Nested, Unsent, Refuses, NoLoopFault, ShakeFails, objects, outcome
<1>4. ReleasedTogether'
  BY <1>1, <1>2 DEF SecureIInv, ReleasedTogether, BelowTypes, ConnectorLives, SecureTypeOK,
                    ShakeFails, objects, outcome
<1> QED
  BY <1>1, <1>2, <1>3, <1>4 DEF SecureIInv

\* The last message of the handshake is sent.
LEMMA ShakeFlushInv ==
    ASSUME SecureIInv, ShakeFlush
    PROVE  SecureIInv'
BY FlushFacts DEF SecureIInv, BelowTypes, ClosesOnce, Nested, ConnectorLives, Unsent, Refuses,
         ReleasedTogether, SecureTypeOK, NoLoopFault,
       ShakeFlush, objects, outcome

\* A record is given to PHP code.
LEMMA ReadRecordInv ==
    ASSUME SecureIInv, ReadRecord
    PROVE  SecureIInv'
BY DEF SecureIInv, BelowTypes, ClosesOnce, Nested, ConnectorLives, Unsent, Refuses,
         ReleasedTogether, SecureTypeOK, NoLoopFault,
       ReadRecord, vars, objects, outcome

\* SSL_read has no more data, and may leave an answer in the BIO.
LEMMA ReadEndsInv ==
    ASSUME SecureIInv, ReadEnds
    PROVE  SecureIInv'
<1>1. SecureTypeOK'
  <2>1. shaking' \in BOOLEAN /\ given' \in BOOLEAN /\ freed' \in BOOLEAN
        /\ answer' \in BOOLEAN
    BY Zenon DEF SecureIInv, ReleasedTogether, SecureTypeOK, ReadEnds, Return, uvVars,
                 objects, outcome
  <2>2. /\ closedBy' \in {"none", "read", "shutdown", "secure"}
        /\ refcount' \in 0 .. 2 /\ side' \in {"server", "client"}
        /\ ssl' \in {"going", "done", "failed"}
        /\ at' \in {"idle", "shake", "refuse", "flush", "records"}
        /\ event' \in {"none", "connect", "resolve", "reject", "data", "write", "close"}
    BY DEF SecureIInv, ReleasedTogether, SecureTypeOK, ReadEnds, Return, uvVars, objects,
           outcome
  <2>3. /\ readBio' \in Nat /\ writeBio' \in Nat
        /\ srefs' \in Nat /\ sheld' \in 0 .. MaxHeld
        /\ promise' \in {"none", "pending", "fulfilled", "rejected"}
        /\ connector' \in {"none", "live", "freed"}
    BY DEF SecureIInv, ReleasedTogether, SecureTypeOK, ReadEnds, Return, uvVars, objects,
           outcome
  <2> QED
    BY <2>1, <2>2, <2>3, Zenon DEF SecureTypeOK
<1>2. (BelowTypes /\ ClosesOnce /\ Nested /\ ConnectorLives)'
  BY DEF SecureIInv, BelowTypes, ClosesOnce, Nested, ConnectorLives, ReleasedTogether,
         SecureTypeOK, ReadEnds, Return, uvVars, objects, outcome
<1>3. Unsent' /\ NoLoopFault'
  <2>1. UNCHANGED <<flag, handle, fault>> /\ at = "records"
    BY DEF ReadEnds, Return, uvVars
  <2>2. UNCHANGED <<writeBio, answer>> \/ answer'
    BY Zenon DEF ReadEnds
  <2> QED
    BY <2>1, <2>2, Zenon DEF SecureIInv, Unsent, Refuses, NoLoopFault
<1>4. ReleasedTogether'
  BY <1>1, <1>2 DEF SecureIInv, ReleasedTogether, BelowTypes, ConnectorLives, SecureTypeOK,
                    ReadEnds, Return, uvVars, objects, outcome
<1> QED
  BY <1>1, <1>2, <1>3, <1>4 DEF SecureIInv

\* The listeners of "data" have returned.
LEMMA ReturnDataInv ==
    ASSUME SecureIInv, ReturnData
    PROVE  SecureIInv'
BY DEF SecureIInv, BelowTypes, ClosesOnce, Nested, ConnectorLives, Unsent, Refuses,
         ReleasedTogether, SecureTypeOK, NoLoopFault,
       ReturnData, vars, objects, bios, outcome

\* write()
LEMMA SecureWriteInv ==
    ASSUME SecureIInv, SecureWrite
    PROVE  SecureIInv'
BY FlushFacts DEF SecureIInv, BelowTypes, ClosesOnce, Nested, ConnectorLives, Unsent, Refuses,
         ReleasedTogether, SecureTypeOK, NoLoopFault,
       SecureWrite, CanCallSecure, CanWrite, UseFreed, UserFault, secureVars, uvVars,
       SecureUnchanged, objects, outcome

\* end()
LEMMA SecureEndInv ==
    ASSUME SecureIInv, NEW d \in BOOLEAN, SecureEnd(d)
    PROVE  SecureIInv'
<1>0. /\ writeBio' \in Nat /\ answer' \in BOOLEAN
      /\ writeBio' > 0 => Refuses \/ UNCHANGED <<writeBio, answer>>
  <2>1. CASE d
    <3>1. PICK n \in Nat : n > 0 /\ WriteBioToSocket(n)
      BY <2>1 DEF SecureIInv, ReleasedTogether, SecureTypeOK, SecureEnd
    <3> QED
      BY <3>1, FlushFacts, Zenon
  <2>2. CASE ~d
    <3>1. UNCHANGED <<writeBio, answer>>
      BY <2>2, Zenon DEF SecureEnd
    <3> QED
      BY <3>1, Zenon DEF SecureIInv, ReleasedTogether, SecureTypeOK
  <2> QED
    BY <2>1, <2>2
<1>1. SecureTypeOK'
  <2>1. shaking' \in BOOLEAN /\ given' \in BOOLEAN /\ freed' \in BOOLEAN
        /\ answer' \in BOOLEAN
    BY <1>0, Zenon DEF SecureIInv, ReleasedTogether, SecureTypeOK, SecureEnd, CanWrite,
                       SecureUnchanged, objects, outcome
  <2>2. /\ closedBy' \in {"none", "read", "shutdown", "secure"}
        /\ refcount' \in 0 .. 2 /\ side' \in {"server", "client"}
        /\ ssl' \in {"going", "done", "failed"}
        /\ at' \in {"idle", "shake", "refuse", "flush", "records"}
        /\ event' \in {"none", "connect", "resolve", "reject", "data", "write", "close"}
    BY DEF SecureIInv, ReleasedTogether, SecureTypeOK, SecureEnd, CanWrite,
           SecureUnchanged, objects, outcome
  <2>3. /\ readBio' \in Nat /\ writeBio' \in Nat
        /\ srefs' \in Nat /\ sheld' \in 0 .. MaxHeld
        /\ promise' \in {"none", "pending", "fulfilled", "rejected"}
        /\ connector' \in {"none", "live", "freed"}
    BY <1>0 DEF SecureIInv, ReleasedTogether, SecureTypeOK, SecureEnd, CanWrite,
                SecureUnchanged, objects, outcome
  <2> QED
    BY <2>1, <2>2, <2>3, Zenon DEF SecureTypeOK
<1>2. (BelowTypes /\ ClosesOnce /\ Nested /\ ConnectorLives)'
  <2>1. flag' = flag \/ flag' = flag \cup {"SHUTDOWN"}
    BY DEF SecureEnd, ConnectionShutdown
  <2>2. UNCHANGED <<held, released, cb, handle, fault, at, event, shaking, side,
  connector>>
    BY Zenon DEF SecureEnd, SecureUnchanged, objects, outcome
  <2>3. flag' \subseteq Flags /\ ("CLOSED" \in flag' <=> "CLOSED" \in flag)
    BY <2>1 DEF SecureIInv, BelowTypes, Flags
  <2>4. BelowTypes'
    BY <2>2, <2>3, Zenon DEF SecureIInv, BelowTypes
  <2>5. (ClosesOnce /\ Nested /\ ConnectorLives)'
    BY <2>2, <2>3, Zenon DEF SecureIInv, ClosesOnce, Nested, ConnectorLives
  <2> QED
    BY <2>4, <2>5
<1>3. Unsent' /\ NoLoopFault'
  BY <1>0 DEF SecureIInv, Unsent, Refuses, NoLoopFault, SecureEnd, ConnectionShutdown,
              SecureUnchanged
<1>4. ReleasedTogether'
  BY <1>1, <1>2 DEF SecureIInv, ReleasedTogether, SecureEnd, SecureUnchanged, objects, outcome
<1> QED
  BY <1>1, <1>2, <1>3, <1>4 DEF SecureIInv

\* close()
LEMMA SecureCloseInv ==
    ASSUME SecureIInv, SecureClose
    PROVE  SecureIInv'
<1>1. /\ flag' = flag \cup {"CLOSED"} /\ fault' = fault
      /\ handle' = (IF handle = "open" THEN "closing" ELSE handle)
      /\ closedBy' \in {"none", "read", "shutdown", "secure"}
  BY CloseFacts DEF SecureClose
<1> QED
  BY <1>1 DEF SecureIInv, BelowTypes, ClosesOnce, Nested, ConnectorLives, Unsent, Refuses,
         ReleasedTogether, SecureTypeOK, NoLoopFault, Flags,
         SecureClose, CanCallSecure, bios, objects, outcome

\* PHP code keeps the stream, or drops it.
LEMMA KeepRefInv ==
    ASSUME SecureIInv, KeepRef
    PROVE  SecureIInv'
BY BoundsAssumption DEF SecureIInv, BelowTypes, ClosesOnce, Nested, ConnectorLives, Unsent,
                        Refuses,
         ReleasedTogether, SecureTypeOK, NoLoopFault,
       KeepRef, CanCallSecure, vars, bios, outcome

LEMMA LoseRefInv ==
    ASSUME SecureIInv, LoseRef
    PROVE  SecureIInv'
BY BoundsAssumption DEF SecureIInv, BelowTypes, ClosesOnce, Nested, ConnectorLives, Unsent,
                        Refuses,
         ReleasedTogether, SecureTypeOK, NoLoopFault,
       LoseRef, CanCallSecure, vars, bios, outcome

LEMMA SecureInitInv == SecureInit => SecureIInv
<1> SUFFICES ASSUME SecureInit
             PROVE  SecureIInv
  OBVIOUS
<1>1. /\ flag = {} /\ held = 0 /\ released = FALSE /\ cb = "none"
      /\ handle = "open" /\ fault = "none" /\ event = "none" /\ at = "idle"
      /\ writeBio = 0
  BY Zenon DEF SecureInit, Accepted, Connected
<1>2. BelowTypes /\ ClosesOnce /\ Nested
  BY <1>1 DEF BelowTypes, ClosesOnce, Nested, Flags
<1>3. ConnectorLives /\ Unsent /\ NoLoopFault
  <2>1. side = "client" => connector = "live"
    BY DEF SecureInit, Accepted, Connected
  <2> QED
    BY <1>1, <2>1 DEF ConnectorLives, Unsent, NoLoopFault
<1>4. SecureTypeOK
  <2>1. shaking \in BOOLEAN /\ given \in BOOLEAN /\ freed \in BOOLEAN
        /\ answer \in BOOLEAN
    BY Zenon DEF SecureInit, Accepted, Connected
  <2>2. /\ closedBy \in {"none", "read", "shutdown", "secure"}
        /\ refcount \in 0 .. 2 /\ side \in {"server", "client"}
        /\ ssl \in {"going", "done", "failed"}
        /\ at \in {"idle", "shake", "refuse", "flush", "records"}
        /\ event \in {"none", "connect", "resolve", "reject", "data", "write", "close"}
    BY SMT DEF SecureInit, Accepted, Connected
  <2>3. /\ readBio \in Nat /\ writeBio \in Nat
        /\ srefs \in Nat /\ sheld \in 0 .. MaxHeld
        /\ promise \in {"none", "pending", "fulfilled", "rejected"}
        /\ connector \in {"none", "live", "freed"}
    BY BoundsAssumption DEF SecureInit, Accepted, Connected
  <2> QED
    BY <2>1, <2>2, <2>3, Zenon DEF SecureTypeOK
<1>5. ReleasedTogether
  <2>1. released = freed /\ ~released /\ ~freed
    BY Zenon DEF SecureInit
  <2>2. refcount = 2 /\ srefs = sheld + 1 /\ event = "none"
    BY DEF SecureInit
  <2> QED
    BY <1>4, <2>1, <2>2 DEF ReleasedTogether
<1> QED
  BY <1>2, <1>3, <1>4, <1>5 DEF SecureIInv

LEMMA SecureNextInv == SecureIInv /\ [SecureNext]_allVars => SecureIInv'
<1> SUFFICES ASSUME SecureIInv, [SecureNext]_allVars
             PROVE  SecureIInv'
  OBVIOUS
<1>1. CASE SecureCall
  BY <1>1, SecureWriteInv, SecureEndInv, SecureCloseInv, KeepRefInv, LoseRefInv
     DEF SecureCall
<1>2. CASE Handshake
  BY <1>2, ShakeWantsInv, ShakeFailsInv, ShakeRefuseInv, ServerDoneInv, ClientDoneInv,
     ClientMismatchInv, ClientNoCertificateInv, ReturnAnnouncedInv, ShakeFlushInv
     DEF Handshake
<1>3. CASE Records
  BY <1>3, ReadRecordInv, ReadEndsInv, ReturnDataInv DEF Records
<1>4. CASE Below
  <2>1. Below /\ (ReadError \/ ReturnError \/ ShutdownCb \/ KernelWrite)
    BY <1>4 DEF Below
  <2> QED
    BY <2>1, ReadErrorInv, SecureReturnErrorInv, SecureShutdownCbInv, SecureKernelWriteInv
<1>5. CASE SecureRead \/ SecureWriteCb \/ ReturnWrite \/ SecureCloseCb \/ ReturnSecureClose
  BY <1>5, SecureReadInv, SecureWriteCbInv, ReturnWriteInv, SecureCloseCbInv,
     ReturnSecureCloseInv
<1>6. CASE UNCHANGED allVars
  BY <1>6, SecureStutterInv
<1> QED
  BY <1>1, <1>2, <1>3, <1>4, <1>5, <1>6 DEF SecureNext

-----------------------------------------------------------------------------
(* Theorems. *)

\* Every reachable state of a secure stream, its connection and its handshake
\* satisfies the invariant (stream/secure.c, server/secure.c, connector/secure.c).
THEOREM SecureInvariance == SecureSpec => []SecureIInv
  BY SecureInitInv, SecureNextInv, PTL DEF SecureSpec

\* The two objects give back each other's reference once, in one close callback,
\* and the connector is there while the handlers of its promise run
\* (connection_close_cb, releaseResource of secure.c).
THEOREM ObjectsReleasedTogether == SecureSpec => []ReleasedTogether
<1>1. SecureIInv => ReleasedTogether
  BY DEF SecureIInv
<1> QED
  BY <1>1, SecureInvariance, PTL

\* What PHP code and the handshake put into the BIO is given to the connection
\* before the callback ends, unless the connection refuses it; what stays is an
\* answer of SSL_read (write_bio_to_socket and its callers).
THEOREM RecordsAreSent == SecureSpec => []BioIsFlushed
<1>1. SecureIInv => BioIsFlushed
  BY DEF SecureIInv, Unsent, BioIsFlushed
<1> QED
  BY <1>1, SecureInvariance, PTL

\* However the handshake, records, methods and callbacks of both objects
\* interleave, no callback of the loop meets a freed object and no handle is
\* closed twice, although close() of a secure stream does not test SHUTDOWN.
THEOREM SecureLoopNeverFaults == SecureSpec => []NoLoopFault
<1>1. SecureIInv => NoLoopFault
  BY DEF SecureIInv
<1> QED
  BY <1>1, SecureInvariance, PTL
=============================================================================
