----------------------------- MODULE Combinators -----------------------------
(***************************************************************************)
(* Promise::all(), Promise::race() and async (phpsrc/src/Async/Promise.php *)
(* and Async.php) on the promises of Promise.  Their closures sit in the   *)
(* slots of promises they did not make, where then() overwrites them and   *)
(* runs them again, so everything the user does to an input matters.       *)
(*                                                                         *)
(* Frames added to the call stack: combine, the executor of all() or       *)
(* race() in its loop over the inputs; drive, $asyncToGenerator;           *)
(* generator, the body of an async function, PHP code of the user.         *)
(*                                                                         *)
(* PHP code begins with promises it constructed, which only it settles,    *)
(* and calls then() on those and on all that then(), all() and race()      *)
(* returned to it.                                                         *)
(***************************************************************************)
EXTENDS Integers, Promise

CONSTANTS
    Given,     \* bound: promises that PHP code constructed
    MaxCalls,  \* bound: calls of all() and race(), and of async
    MaxActs    \* bound: calls, settlements, yields and throws of PHP code

ASSUME CombinatorsBounds == Given \in 0 .. MaxPromises /\ MaxCalls \in Nat /\ MaxActs \in Nat

VARIABLES
    calls,     \* the calls of all() and race()
    gens,      \* the generators of async functions
    closures,  \* the closures all(), race() and async made
    mine,      \* promises PHP code has
    acts,      \* history: what PHP code did
    ran,       \* history: closures that ran
    reran,     \* history: closures that ran twice
    dropped    \* history: closures overwritten in a slot

library == <<calls, gens, closures>>
held == <<mine, acts>>
history == <<ran, reran>>
allVars == <<vars, library, held, history, dropped>>

\* left: $promisesCount; results: the keys of $results; inner[i]: what then()
\* on input i returned; threw: execute() caught an exception.
Call == [kind : {"all", "race"}, agg : Value, inputs : Seq(Value), left : Int,
         results : SUBSET Nat, inner : Seq(Value), threw : BOOLEAN]

\* value: what the generator yielded last.
Generator == [state : {"new", "running", "suspended", "done"}, value : Value]

\* fulfil, reject: of input p, number i, of call c; await: generator c waits
\* for p.
Closure == [role : {"fulfil", "reject", "await"}, c : Nat, i : Nat, p : Value]

CombinatorsTypeOK ==
    /\ TypeOK
    /\ calls \in Seq(Call) /\ gens \in Seq(Generator) /\ closures \in Seq(Closure)
    /\ mine \subseteq DOMAIN obj /\ acts \in 0 .. MaxActs
    /\ reran \subseteq ran /\ ran \subseteq DOMAIN closures
    /\ dropped \subseteq DOMAIN closures

CombinatorsInit ==
    /\ obj = [p \in 1 .. Given |-> Fresh]
    /\ stack = <<[kind |-> "user", exec |-> 0, void |-> FALSE]>>
    /\ cut = {} /\ lost = {}
    /\ calls = <<>> /\ gens = <<>> /\ closures = <<>>
    /\ mine = 1 .. Given /\ acts = 0
    /\ ran = {} /\ reran = {} /\ dropped = {}

LibraryFn(n) == [kind |-> "library", n |-> n, void |-> FALSE]
TopWith(f) == [stack EXCEPT ![Len(stack)] = f]

\* A new closure for slot of p, put there by p's then() or catch(), which the
\* frames s called.
Subscribe(slot, closure, s) ==
    /\ closures' = Append(closures, closure)
    /\ CallThen(closure.p, [x \in {slot} |-> LibraryFn(Len(closures) + 1)], s)

-----------------------------------------------------------------------------
(* PHP code *)

Acts == InUserCode /\ acts < MaxActs /\ acts' = acts + 1
Own == 1 .. Given

\* A pending promise gives the next promise at once, a settled one when its
\* settlement is over.
UserThens(p, form) ==
    /\ Acts /\ Then(p, form)
    /\ mine' = IF obj[p].state = "PENDING" THEN mine \cup {Len(obj) + 1} ELSE mine
    /\ UNCHANGED <<library, history>>

UserSettles ==
    /\ Acts
    /\ \E p \in Own : Reject(p) \/ \E v \in {0} \cup mine : Resolve(p, v)
    /\ UNCHANGED <<library, mine, history>>

UserLeaves ==
    /\ \/ Return(0) /\ UNCHANGED acts
       \/ Acts /\ (Throw \/ \E v \in mine : Return(v))
    /\ UNCHANGED <<library, mine, history>>

\* Promise::all($inputs), Promise::race($inputs): the new promise, and its
\* executor begins.
CallCombinator(kind, inputs) ==
    /\ Acts /\ CanCreate /\ CanCall /\ Len(calls) < MaxCalls
    /\ obj' = Append(obj, Fresh)
    /\ calls' = Append(calls, [kind |-> kind, agg |-> Len(obj) + 1, inputs |-> inputs,
                               left |-> Len(inputs), results |-> {}, inner |-> <<>>,
                               threw |-> FALSE])
    /\ stack' = Append(stack, [kind |-> "combine", c |-> Len(calls) + 1, i |-> 1,
                               at |-> "then", got |-> 0])
    /\ UNCHANGED <<cut, lost, gens, closures, mine, history>>

\* An async function is called.
CallAsync ==
    /\ Acts /\ CanCall /\ Len(gens) < MaxCalls
    /\ gens' = Append(gens, [state |-> "new", value |-> 0])
    /\ stack' = Append(stack, [kind |-> "drive", g |-> Len(gens) + 1, by |-> 0,
                               at |-> "look"])
    /\ UNCHANGED <<obj, cut, lost, calls, closures, mine, history>>

-----------------------------------------------------------------------------
(* The executor of all() and race() *)

Combining(at) == Top.kind = "combine" /\ Top.at = at
Inputs == calls[Top.c].inputs

\* $promise->then(...)
CombineThen ==
    /\ Combining("then") /\ Top.i <= Len(Inputs)
    /\ Subscribe("onFullfilled",
                 [role |-> "fulfil", c |-> Top.c, i |-> Top.i, p |-> Inputs[Top.i]],
                 TopWith([Top EXCEPT !.at = "catch"]))
    /\ UNCHANGED <<calls, gens, held, history>>

\* ->catch(...)
CombineCatch ==
    /\ Combining("catch")
    /\ calls' = [calls EXCEPT ![Top.c].inner = Append(@, Top.got)]
    /\ Subscribe("onRejected",
                 [role |-> "reject", c |-> Top.c, i |-> Top.i, p |-> Top.got],
                 TopWith([Top EXCEPT !.at = "then", !.i = @ + 1]))
    /\ UNCHANGED <<gens, held, history>>

\* The loop is over, and the promise is given to the caller.
CombineDone ==
    /\ Combining("then") /\ Top.i > Len(Inputs)
    /\ stack' = Below
    /\ mine' = mine \cup {calls[Top.c].agg}
    /\ UNCHANGED <<obj, cut, lost, library, acts, history>>

\* execute() caught an exception: reject() of the new promise, which throws
\* out of all() or race() when a closure has settled it.
CombineCaught ==
    /\ Combining("caught")
    /\ LET agg == calls[Top.c].agg IN
       IF obj[agg].state = "PENDING"
       THEN /\ obj' = [obj EXCEPT ![agg].state = "REJECTED"]
            /\ stack' = Append(Below, Settle(agg, 0, FALSE))
            /\ mine' = mine \cup {agg}
            /\ UNCHANGED <<cut, lost>>
       ELSE Raise(Below) /\ UNCHANGED mine
    /\ calls' = [calls EXCEPT ![Top.c].threw = TRUE]
    /\ UNCHANGED <<gens, closures, acts, history>>

-----------------------------------------------------------------------------
(* A settlement calls a closure of the library *)

Running(role) ==
    /\ Top.kind = "settle" /\ Top.step \in {1, 2} /\ Top.value = 0
    /\ FnAt(Top).kind = "library"
    /\ closures[FnAt(Top).n].role = role

ThisClosure == closures[FnAt(Top).n]
ThisCall == calls[ThisClosure.c]

Ran ==
    /\ ran' = ran \cup {FnAt(Top).n}
    /\ reran' = IF FnAt(Top).n \in ran THEN reran \cup {FnAt(Top).n} ELSE reran

\* $resolve or $reject of the call's promise.
SettleCombined(state) ==
    IF obj[ThisCall.agg].state = "PENDING"
    THEN /\ CanCall
         /\ obj' = [obj EXCEPT ![ThisCall.agg].state = state]
         /\ stack' = Append(Advanced, Settle(ThisCall.agg, 0, FALSE))
         /\ UNCHANGED <<cut, lost>>
    ELSE Raise(stack)

\* Seeded fault: the last result is not waited for.
RunAllEarly ==
    /\ Running("fulfil") /\ ThisCall.kind = "all"
    /\ Ran
    /\ calls' = [calls EXCEPT ![ThisClosure.c].results = @ \cup {ThisClosure.i},
                              ![ThisClosure.c].left = @ - 1]
    /\ IF ThisCall.left <= 2 THEN SettleCombined("FULFILLED")
       ELSE stack' = Advanced /\ UNCHANGED <<obj, cut, lost>>
    /\ UNCHANGED <<gens, closures, held>>

\* The closure of all(): a result more, and $resolve with the last.
RunAll ==
    /\ Running("fulfil") /\ ThisCall.kind = "all"
    /\ Ran
    /\ calls' = [calls EXCEPT ![ThisClosure.c].results = @ \cup {ThisClosure.i},
                              ![ThisClosure.c].left = @ - 1]
    /\ IF ThisCall.left = 1 THEN SettleCombined("FULFILLED")
       ELSE stack' = Advanced /\ UNCHANGED <<obj, cut, lost>>
    /\ UNCHANGED <<gens, closures, held>>

\* The closure of race()
RunRace ==
    /\ Running("fulfil") /\ ThisCall.kind = "race"
    /\ Ran
    /\ SettleCombined("FULFILLED")
    /\ UNCHANGED <<library, held>>

\* Seeded fault: a rejection of an input is not passed on.
RunRejectNot ==
    /\ Running("reject")
    /\ Ran
    /\ stack' = Advanced
    /\ UNCHANGED <<obj, cut, lost, library, held>>

\* The closure that all() and race() pass to catch()
RunReject ==
    /\ Running("reject")
    /\ Ran
    /\ SettleCombined("REJECTED")
    /\ UNCHANGED <<library, held>>

\* The closure of async
RunAwait ==
    /\ Running("await") /\ CanCall
    /\ Ran
    /\ stack' = Append(Advanced, [kind |-> "drive", g |-> ThisClosure.c,
                                  by |-> FnAt(Top).n, at |-> "send"])
    /\ UNCHANGED <<obj, cut, lost, library, held>>

-----------------------------------------------------------------------------
(* $asyncToGenerator, and the generator *)

Driving(at) == Top.kind = "drive" /\ Top.at = at
Gen == gens[Top.g]

\* The generator runs on, called by $asyncToGenerator.
Resume ==
    /\ CanCall
    /\ gens' = [gens EXCEPT ![Top.g].state = "running"]
    /\ stack' = Append(TopWith([Top EXCEPT !.at = "look"]),
                       [kind |-> "generator", g |-> Top.g])

\* Seeded fault: $asyncToGenerator is not called after send().
DriveSendEnds ==
    /\ Driving("send") /\ Gen.state = "suspended" /\ CanCall
    /\ gens' = [gens EXCEPT ![Top.g].state = "running"]
    /\ stack' = Append(TopWith([Top EXCEPT !.at = "end"]),
                       [kind |-> "generator", g |-> Top.g])
    /\ UNCHANGED <<obj, cut, lost, calls, closures, held, history>>

\* $generator->send(): nothing on one that is done, an exception on one that
\* is running.
DriveSend ==
    /\ Driving("send")
    /\ \/ Gen.state = "suspended" /\ Resume /\ UNCHANGED <<obj, cut, lost>>
       \/ /\ Gen.state = "done"
          /\ stack' = TopWith([Top EXCEPT !.at = "look"])
          /\ UNCHANGED <<obj, cut, lost, gens>>
       \/ Gen.state = "running" /\ Raise(stack) /\ UNCHANGED gens
    /\ UNCHANGED <<calls, closures, held, history>>

\* valid() begins the generator, current() is what it yielded: a value is
\* sent back.
DriveLook ==
    /\ Driving("look")
    /\ \/ Gen.state = "new" /\ Resume
       \/ /\ Gen.state = "done"
          /\ stack' = Returned(Below, 0) /\ UNCHANGED gens
       \/ /\ Gen.state = "suspended" /\ Gen.value = 0
          /\ stack' = TopWith([Top EXCEPT !.at = "send", !.by = 0])
          /\ UNCHANGED gens
    /\ UNCHANGED <<obj, cut, lost, calls, closures, held, history>>

\* Seeded fault: a promise is sent back like any value.
DriveAwaitNot ==
    /\ Driving("look") /\ Gen.state = "suspended" /\ Gen.value # 0
    /\ stack' = TopWith([Top EXCEPT !.at = "send", !.by = 0])
    /\ UNCHANGED <<obj, cut, lost, library, held, history>>

\* A promise is awaited: $await->then()
DriveAwait ==
    /\ Driving("look") /\ Gen.state = "suspended" /\ Gen.value # 0
    /\ Subscribe("onFullfilled",
                 [role |-> "await", c |-> Top.g, i |-> 0, p |-> Gen.value],
                 TopWith([Top EXCEPT !.at = "end"]))
    /\ UNCHANGED <<calls, gens, held, history>>

DriveEnd ==
    /\ Driving("end")
    /\ stack' = Returned(Below, 0)
    /\ UNCHANGED <<obj, cut, lost, library, held, history>>

\* The body of the async function yields, returns or throws.
Yield(v) ==
    /\ Acts /\ Top.kind = "generator"
    /\ gens' = [gens EXCEPT ![Top.g] = [state |-> "suspended", value |-> v]]
    /\ stack' = Below
    /\ UNCHANGED <<obj, cut, lost, calls, closures, mine, history>>

GeneratorEnds ==
    /\ Top.kind = "generator"
    /\ gens' = [gens EXCEPT ![Top.g] = [state |-> "done", value |-> 0]]
    /\ (stack' = Below /\ UNCHANGED <<obj, cut, lost>>) \/ Raise(Below)
    /\ UNCHANGED <<calls, closures, held, history>>

-----------------------------------------------------------------------------

\* Steps of Promise that call nothing of the library.
SettleSteps ==
    /\ SkipStep \/ CallUser \/ CallResolve \/ RejectNext \/ Adopt
    /\ UNCHANGED <<library, held, history>>

\* A then() that settled its promise gives PHP code the next promise.
Finishes ==
    /\ Finish
    /\ mine' = IF Top.gives /\ Below[Len(Below)].kind \in {"user", "generator"}
               THEN mine \cup {obj[Top.p].next} ELSE mine
    /\ UNCHANGED <<library, acts, history>>

\* The closures in the slots of a promise that another function replaced.
Overwritten ==
    UNION {{obj[p][slot].n : slot \in {x \in {"onFullfilled", "onRejected", "onFinaled"} :
                obj[p][x].kind = "library" /\ obj'[p][x] # obj[p][x]}} : p \in DOMAIN obj}

CombinatorsNext ==
    /\ \/ \E p \in mine, form \in Forms : UserThens(p, form)
       \/ UserSettles \/ UserLeaves
       \/ \E kind \in {"all", "race"}, n \in 0 .. 2 :
             \E inputs \in [1 .. n -> Own] : CallCombinator(kind, inputs)
       \/ CallAsync
       \/ CombineThen \/ CombineCatch \/ CombineDone \/ CombineCaught
       \/ RunAll \/ RunRace \/ RunReject \/ RunAwait
       \/ DriveSend \/ DriveLook \/ DriveAwait \/ DriveEnd
       \/ \E v \in {0} \cup mine : Yield(v)
       \/ GeneratorEnds
       \/ SettleSteps \/ Finishes
    /\ dropped' = dropped \cup Overwritten

CombinatorsSpec == CombinatorsInit /\ [][CombinatorsNext]_allVars

-----------------------------------------------------------------------------
(* Properties *)

State(p) == obj[p].state
Combined(c) == obj[calls[c].agg].state

\* A closure that has not run: overwritten, or in the slot of a promise that
\* is not fulfilled.
NotReached(n) ==
    n \in dropped
    \/ \E q \in DOMAIN obj : obj[q].onFullfilled.n = n /\ State(q) # "FULFILLED"
                             /\ obj[q].onFullfilled.kind = "library"

\* What all() and race() say of their inputs is true: all() is fulfilled when
\* each input gave its result, race() when an input is fulfilled, and both
\* are rejected when an input is.  The exceptions are part of the code: a
\* later then() on an input runs the closure of all() a second time, which
\* counts as another result, and an exception in the executor rejects.
CombinedIsTrue ==
    \A c \in DOMAIN calls : LET k == calls[c] IN
        /\ Combined(c) = "FULFILLED" /\ k.kind = "all" =>
              \/ k.results = DOMAIN k.inputs
              \/ \E n \in reran : closures[n].role = "fulfil" /\ closures[n].c = c
        /\ Combined(c) = "FULFILLED" /\ k.kind = "race" =>
              \E i \in DOMAIN k.inputs : State(k.inputs[i]) = "FULFILLED"
        /\ Combined(c) = "REJECTED" =>
              k.threw \/ \E i \in DOMAIN k.inputs : State(k.inputs[i]) = "REJECTED"

\* Why input i of call c has told the combined promise nothing: it is pending,
\* its closure was overwritten by another then(), its value is a promise that
\* is not fulfilled, or its rejection went to the promise of another then().
Silent(c, i) ==
    LET p == calls[c].inputs[i] IN
    \/ State(p) = "PENDING"
    \/ /\ State(p) = "FULFILLED"
       /\ \E n \in DOMAIN closures \ ran :
             closures[n].role = "fulfil" /\ closures[n].c = c /\ closures[n].i = i
             /\ NotReached(n)
    \/ /\ State(p) = "REJECTED"
       /\ \/ obj[p].next # calls[c].inner[i]
          \/ obj[p].next \in cut
          \/ \E n \in dropped : closures[n].role = "reject" /\ closures[n].c = c

\* When the code comes to rest, the promise of all() or race() is settled, or
\* an input that matters is silent.  all() and race() of nothing stay pending
\* for ever.
CombinedSettles ==
    Idle => \A c \in DOMAIN calls : LET k == calls[c] IN
        Combined(c) = "PENDING" =>
            IF k.kind = "race" THEN \A i \in DOMAIN k.inputs : Silent(c, i)
            ELSE /\ k.inputs = <<>> \/ \E i \in DOMAIN k.inputs : Silent(c, i)
                 /\ \A i \in DOMAIN k.inputs : State(k.inputs[i]) = "REJECTED" => Silent(c, i)

\* An async function gets at a yield what it yielded there, or the value of
\* the promise it awaits there.  The exception is a then() on a promise it
\* awaited before, which runs the closure again and resumes the function with
\* an old value wherever it is.
ResumedByAwaited ==
    Driving("send") /\ Gen.state = "suspended" =>
        \/ Gen.value = 0 /\ Top.by = 0
        \/ /\ Top.by # 0
           /\ \/ closures[Top.by].p = Gen.value
              \/ \E n \in reran : closures[n].role = "await" /\ closures[n].c = Top.g

\* When the code comes to rest, an async function waits only for a promise
\* that is not fulfilled, or whose slot another then() took.  A rejection
\* never reaches it.
AwaitIsAnswered ==
    Idle => \A g \in DOMAIN gens :
        /\ gens[g].state \in {"suspended", "done"}
        /\ gens[g].state = "suspended" =>
              \/ gens[g].value # 0 /\ State(gens[g].value) # "FULFILLED"
              \/ \E n \in DOMAIN closures :
                    /\ closures[n].role = "await" /\ closures[n].c = g
                    /\ closures[n].p = gens[g].value
                    /\ NotReached(n)
=============================================================================
