------------------------------- MODULE Promise -------------------------------
(***************************************************************************)
(* Promises (phpsrc/src/Async/Promise.php) and the PHP code that uses      *)
(* them.  Everything is synchronous: resolve, reject and then run handlers *)
(* before they return, and a handler may itself create, resolve, reject or *)
(* chain any promise, return one, or throw.  The state is the heap of      *)
(* promises and the PHP call stack, whose bottom frame is the main program *)
(* or a callback of the event loop.  Functions and frames that all(),      *)
(* race() and async add to these are in Combinators.                       *)
(*                                                                         *)
(* A value is 0 (anything that is not a promise) or the number of a        *)
(* promise; reasons are never promises.                                    *)
(***************************************************************************)
EXTENDS Naturals, Sequences

CONSTANTS MaxPromises,  \* bound: promises in the heap
          MaxDepth,     \* bound: frames on the call stack
          Forms         \* bound: the sets of handlers a then() may pass

ASSUME BoundsAssumption ==
    /\ MaxPromises \in Nat
    /\ MaxDepth \in Nat
    /\ Forms \subseteq SUBSET {"onFullfilled", "onRejected", "onFinaled"}

VARIABLES
    obj,    \* the promises, numbered in the order of their creation
    stack,  \* call frames, the innermost last
    cut,    \* history: promises whose settlement an exception cut off
    lost    \* history: promises whose resolver was dropped from a slot

vars == <<obj, stack, cut, lost>>

Id == 1 .. MaxPromises
Value == 0 .. MaxPromises

\* What a slot holds: nothing, a function of the user, the resolve method of
\* promise n, or closure n of the library (Combinators); void: inside a
\* closure that drops what it returns.
Fn == [kind : {"none", "user", "resolve", "library"}, n : Nat, void : BOOLEAN]
NoFn == [kind |-> "none", n |-> 0, void |-> FALSE]
User == [kind |-> "user", n |-> 0, void |-> FALSE]
ResolveOf(n) == [kind |-> "resolve", n |-> n, void |-> FALSE]

Object == [state : {"PENDING", "FULFILLED", "REJECTED"}, value : Value,
           onFullfilled : Fn, onRejected : Fn, onFinaled : Fn, next : Value]
Fresh == [state |-> "PENDING", value |-> 0, onFullfilled |-> NoFn,
          onRejected |-> NoFn, onFinaled |-> NoFn, next |-> 0]

\* user: PHP code; exec is the promise whose executor it is, or 0.
\* settle: settleFullfill or settleReject of p, about to do step 1 (the
\* handler), 2 (onFinaled), 3 (the next promise) or 4 (return); value is the
\* local variable; gives: then() called it and will return the next promise.
UserFrame == [kind : {"user"}, exec : Value, void : BOOLEAN]
SettleFrame == [kind : {"settle"}, p : Id, step : 1 .. 4, value : Value,
                gives : BOOLEAN]

TypeOK ==
    /\ obj \in Seq(Object) /\ Len(obj) <= MaxPromises
    /\ \A p \in DOMAIN obj : obj[p].next <= Len(obj)
    /\ \A i \in DOMAIN stack :
          stack[i].kind \in {"user", "settle"} => stack[i] \in UserFrame \cup SettleFrame
    /\ cut \in SUBSET Value
    /\ lost \in SUBSET Id

Init ==
    /\ obj = <<>>
    /\ stack = <<[kind |-> "user", exec |-> 0, void |-> FALSE]>>
    /\ cut = {}
    /\ lost = {}

-----------------------------------------------------------------------------
(* The call stack *)

Top == stack[Len(stack)]
Below == SubSeq(stack, 1, Len(stack) - 1)
InUserCode == Top.kind \in {"user", "generator"}
CanCall == Len(stack) < MaxDepth
CanCreate == Len(obj) < MaxPromises

Settle(p, value, gives) ==
    [kind |-> "settle", p |-> p, step |-> 1, value |-> value, gives |-> gives]

\* The frames s after the call above them returned v.  settleFullfill keeps
\* it in $value and the executor of all() in a temporary; settleReject and
\* other code ignore it.
Returned(s, v) ==
    LET f == s[Len(s)] IN
    CASE f.kind = "settle" -> IF obj[f.p].state = "FULFILLED"
                              THEN [s EXCEPT ![Len(s)].value = v] ELSE s
      [] f.kind = "combine" -> [s EXCEPT ![Len(s)].got = v]
      [] OTHER -> s

\* An exception leaves the code on top of the frames s.  It surfaces in the
\* innermost PHP code of the user, which may catch it, or throw on, or in
\* execute(), which called an executor of the library; the settlements in
\* between are abandoned.
Raise(s) ==
    LET code == {i \in DOMAIN s : s[i].kind \in {"user", "generator", "combine"}}
        n == CHOOSE i \in code : \A j \in code : j <= i
        abandoned == {i \in n + 1 .. Len(s) : s[i].kind = "settle"}
    IN  /\ stack' = IF s[n].kind = "combine"
                    THEN [SubSeq(s, 1, n) EXCEPT ![n].at = "caught"]
                    ELSE SubSeq(s, 1, n)
        /\ cut' = cut \cup {obj[s[i].p].next : i \in abandoned}
        /\ UNCHANGED <<obj, lost>>

\* The resolver in the slot onFullfilled of p, if any: it is dropped when
\* the slot is written.
SlotResolver(p) ==
    IF obj[p].onFullfilled.kind = "resolve" THEN {obj[p].onFullfilled.n} ELSE {}

-----------------------------------------------------------------------------
(* Calls made by PHP code *)

\* new Promise(), or new Promise($executor): execute() calls the executor.
Construct(withExecutor) ==
    /\ InUserCode /\ CanCreate
    /\ withExecutor => CanCall
    /\ obj' = Append(obj, Fresh)
    /\ stack' = IF withExecutor
                THEN Append(stack, [kind |-> "user", exec |-> Len(obj) + 1,
                                    void |-> FALSE])
                ELSE stack
    /\ UNCHANGED <<cut, lost>>

\* p with the functions given in its slots; the other slots stay.
Attached(p, given, n) ==
    [slot \in DOMAIN obj[p] |->
        IF slot \in DOMAIN given THEN given[slot]
        ELSE IF slot = "next" THEN n ELSE obj[p][slot]]

\* Seeded fault: then() on a settled promise waits for a settlement.
CallThenWaits(p, given, s) ==
    /\ CanCreate
    /\ obj' = Append([obj EXCEPT ![p] = Attached(p, given, Len(obj) + 1)], Fresh)
    /\ lost' = IF "onFullfilled" \in DOMAIN given
               THEN lost \cup SlotResolver(p) ELSE lost
    /\ stack' = Returned(s, Len(obj) + 1)
    /\ UNCHANGED cut

\* $p->then(), catch() and finally() called by the frames s: the slots given
\* are overwritten, p gets a new next promise, and a settled promise settles
\* again at once.
CallThen(p, given, s) ==
    /\ CanCreate
    /\ obj' = Append([obj EXCEPT ![p] = Attached(p, given, Len(obj) + 1)], Fresh)
    /\ lost' = IF "onFullfilled" \in DOMAIN given
               THEN lost \cup SlotResolver(p) ELSE lost
    /\ IF obj[p].state = "PENDING"
       THEN stack' = Returned(s, Len(obj) + 1)
       ELSE CanCall /\ stack' = Append(s, Settle(p, obj[p].value, TRUE))
    /\ UNCHANGED cut

Then(p, form) ==
    InUserCode /\ CallThen(p, [slot \in form |-> User], stack)

\* Seeded fault: resolve() does not look at the state.
ResolveAgain(p, v) ==
    /\ InUserCode /\ CanCall
    /\ obj' = [obj EXCEPT ![p].state = "FULFILLED", ![p].value = v]
    /\ stack' = Append(stack, Settle(p, v, FALSE))
    /\ UNCHANGED <<cut, lost>>

\* $p->resolve($v).  On a settled promise it throws in the code that called
\* it, which changes nothing.
Resolve(p, v) ==
    /\ InUserCode /\ CanCall
    /\ obj[p].state = "PENDING"
    /\ obj' = [obj EXCEPT ![p].state = "FULFILLED", ![p].value = v]
    /\ stack' = Append(stack, Settle(p, v, FALSE))
    /\ UNCHANGED <<cut, lost>>

\* $p->reject($reason)
Reject(p) ==
    /\ InUserCode /\ CanCall
    /\ obj[p].state = "PENDING"
    /\ obj' = [obj EXCEPT ![p].state = "REJECTED"]
    /\ stack' = Append(stack, Settle(p, 0, FALSE))
    /\ UNCHANGED <<cut, lost>>

\* A handler or an executor returns.
Return(v) ==
    /\ Top.kind = "user" /\ Len(stack) > 1
    /\ Top.void \/ Top.exec # 0 => v = 0
    /\ stack' = Returned(Below, v)
    /\ UNCHANGED <<obj, cut, lost>>

\* A handler or an executor throws.  execute() turns the exception of an
\* executor into a rejection, which throws when the promise is settled.
Throw ==
    /\ Top.kind = "user" /\ Len(stack) > 1
    /\ IF Top.exec # 0 /\ obj[Top.exec].state = "PENDING"
       THEN /\ obj' = [obj EXCEPT ![Top.exec].state = "REJECTED"]
            /\ stack' = Append(Below, Settle(Top.exec, 0, FALSE))
            /\ UNCHANGED <<cut, lost>>
       ELSE Raise(Below)

-----------------------------------------------------------------------------
(* settleFullfill and settleReject *)

InSettle(state, steps) ==
    /\ Top.kind = "settle"
    /\ obj[Top.p].state = state
    /\ Top.step \in steps

Advanced == [stack EXCEPT ![Len(stack)].step = @ + 1]

\* The function of a step: a slot, or the resolve method of the next promise.
FnAt(f) ==
    LET o == obj[f.p] IN
    CASE f.step = 1 ->
            IF o.state = "FULFILLED" THEN o.onFullfilled ELSE o.onRejected
      [] f.step = 2 -> o.onFinaled
      [] f.step = 3 -> IF o.next = 0 THEN NoFn ELSE ResolveOf(o.next)

\* There is no such handler, or no next promise.
SkipStep ==
    /\ Top.kind = "settle" /\ Top.step < 4
    /\ FnAt(Top).kind = "none"
    /\ stack' = Advanced
    /\ UNCHANGED <<obj, cut, lost>>

\* invokeCall with a plain value, or settleReject: a function of the user.
CallUser ==
    /\ InSettle("FULFILLED", {1, 2}) \/ InSettle("REJECTED", {1, 2})
    /\ FnAt(Top).kind = "user"
    /\ Top.value = 0
    /\ CanCall
    /\ stack' = Append(Advanced, [kind |-> "user", exec |-> 0,
                                  void |-> FnAt(Top).void])
    /\ UNCHANGED <<obj, cut, lost>>

\* invokeCall with a plain value: the resolve method of a promise, from step
\* 3 or from the closure an adoption left in the slot.
CallResolve ==
    /\ InSettle("FULFILLED", {1, 3})
    /\ FnAt(Top).kind = "resolve"
    /\ Top.value = 0
    /\ LET n == FnAt(Top).n IN
       IF obj[n].state = "PENDING"
       THEN /\ CanCall
            /\ obj' = [obj EXCEPT ![n].state = "FULFILLED"]
            /\ stack' = Append(Advanced, Settle(n, 0, FALSE))
            /\ UNCHANGED <<cut, lost>>
       ELSE Raise(stack)

\* The last step of settleReject: the rejection goes on to the next promise,
\* whether or not a handler saw it.
RejectNext ==
    /\ InSettle("REJECTED", {3})
    /\ obj[Top.p].next # 0
    /\ LET n == obj[Top.p].next IN
       IF obj[n].state = "PENDING"
       THEN /\ CanCall
            /\ obj' = [obj EXCEPT ![n].state = "REJECTED"]
            /\ stack' = Append(Advanced, Settle(n, 0, FALSE))
            /\ UNCHANGED <<cut, lost>>
       ELSE Raise(stack)

\* invokeCall with a promise: a closure around the function goes into its
\* slot, and the value becomes the next promise that then() returns.
Adopt ==
    /\ InSettle("FULFILLED", {1, 2, 3})
    /\ FnAt(Top).kind # "none"
    /\ Top.value # 0
    /\ CallThen(Top.value,
                [slot \in {"onFullfilled"} |-> [FnAt(Top) EXCEPT !.void = TRUE]],
                Advanced)

\* The settlement is over; a then() that called it returns the next promise.
Finish ==
    /\ Top.kind = "settle" /\ Top.step = 4
    /\ stack' = Returned(Below, IF Top.gives THEN obj[Top.p].next ELSE 0)
    /\ UNCHANGED <<obj, cut, lost>>

-----------------------------------------------------------------------------

Next ==
    \/ \E b \in BOOLEAN : Construct(b)
    \/ \E p \in DOMAIN obj :
          \/ \E form \in Forms : Then(p, form)
          \/ \E v \in 0 .. Len(obj) : Resolve(p, v)
          \/ Reject(p)
    \/ \E v \in 0 .. Len(obj) : Return(v)
    \/ Throw
    \/ SkipStep \/ CallUser \/ CallResolve \/ RejectNext \/ Adopt \/ Finish

Spec == Init /\ [][Next]_vars

-----------------------------------------------------------------------------
(* Properties *)

Idle == Len(stack) = 1

\* A promise settles once and keeps its value, although handlers running in
\* the middle of a settlement call resolve and reject again.
SettledForGood ==
    [][\A p \in DOMAIN obj :
          obj[p].state # "PENDING" =>
              /\ obj'[p].state = obj[p].state
              /\ obj'[p].value = obj[p].value]_vars

\* When the code comes to rest, every settlement has gone down its chain.  The
\* promise chained last to a rejected one is rejected, unless an exception cut
\* the settlement off.  The one chained to a fulfilled promise is pending only
\* because an exception cut it off, because it waits for a promise a handler
\* returned that is pending or was rejected, or because another then() took
\* the slot of that promise.
ChainsSettle ==
    /\ TypeOK
    /\ Idle => \A p \in DOMAIN obj :
        LET n == obj[p].next IN
        /\ obj[p].state = "REJECTED" /\ n \notin cut \cup {0} => obj[n].state = "REJECTED"
        /\ obj[p].state = "FULFILLED" /\ n # 0 /\ obj[n].state = "PENDING"
           => \/ n \in cut \cup lost
              \/ \E q \in DOMAIN obj : /\ obj[q].onFullfilled.kind = "resolve"
                                       /\ obj[q].onFullfilled.n = n
                                       /\ obj[q].state # "FULFILLED"
=============================================================================
