---------------------------- MODULE EventEmitter ----------------------------
(***************************************************************************)
(* The listeners of one native object (src/internal/event_emitter.c).  The *)
(* registrations of an event live in two tables under the same index, the  *)
(* PHP array `hook` and the table of prepared calls `hook_cache`; emit     *)
(* walks the second with its internal pointer, of which there is one per   *)
(* table, whatever the number of emissions in progress.                    *)
(*                                                                         *)
(* The code runs on one thread.  What interleaves is what listeners do     *)
(* while an emission is walking: register, unregister, emit again, throw.  *)
(* `stack` holds the emissions in progress, the innermost last, and the    *)
(* listener of the last one is the code that is running.                   *)
(*                                                                         *)
(* A missing table and an empty one behave alike here (only getListeners   *)
(* tells them apart), so every event has a table.  The pointer of a PHP    *)
(* hash table is modelled as a lower bound: the current element is the     *)
(* first one at or after it, which is what deletion and insertion keep.    *)
(***************************************************************************)
EXTENDS Naturals, Sequences, FiniteSetsExt, Functions, SequencesExt

CONSTANTS Events,
          Listeners,
          MaxIndex,   \* bound: registrations of an event before a removal
          MaxDepth    \* bound: emissions in progress at once

ASSUME BoundsAssumption == MaxIndex \in Nat /\ MaxDepth \in Nat

VARIABLES
    hook,      \* event -> index -> listener (the PHP array)
    next,      \* event -> next free index of that array
    cache,     \* event -> index -> prepared call
    pointer,   \* event -> internal pointer of that table
    stack,     \* emissions in progress
    silenced,  \* an exception nobody caught is pending in run()
    fault      \* an emission used a table that had been freed

vars == <<hook, next, cache, pointer, stack, silenced, fault>>

Table == UNION {[D -> Listeners] : D \in SUBSET (0 .. MaxIndex - 1)}

\* ev: the event.  invoked: indices called so far, the last one is running.
\* freed: removeListeners freed the table.  expected: what was registered
\* when the emission began and still is.  reentered, selfOff: another
\* emission of the event began inside this one; its running listener was
\* unregistered.
Frame == [ev : Events, invoked : Seq(0 .. MaxIndex - 1), freed : BOOLEAN,
          expected : SUBSET (0 .. MaxIndex - 1), reentered : BOOLEAN,
          selfOff : BOOLEAN]

\* Types; the two tables hold the same registrations under the same indices
\* after any mix of on, off and removeListeners, during emissions included.
TypeOK ==
    /\ hook = cache
    /\ hook \in [Events -> Table]
    /\ next \in [Events -> 0 .. MaxIndex]
    /\ pointer \in [Events -> 0 .. MaxIndex]
    /\ stack \in Seq(Frame)
    /\ silenced \in BOOLEAN
    /\ fault \in BOOLEAN

\* rp_event_hook_init
Init ==
    /\ hook = [e \in Events |-> <<>>]
    /\ next = [e \in Events |-> 0]
    /\ cache = [e \in Events |-> <<>>]
    /\ pointer = [e \in Events |-> 0]
    /\ stack = <<>>
    /\ silenced = FALSE
    /\ fault = FALSE

-----------------------------------------------------------------------------

\* PHP code runs: a listener, or code outside any emission.
Running == ~fault /\ ~silenced

Top == stack[Len(stack)]
Index(f) == Last(f.invoked)

\* The stack after f is applied to the emissions of event e.
OnFrames(e, f(_)) ==
    [n \in DOMAIN stack |-> IF stack[n].ev = e THEN f(stack[n]) ELSE stack[n]]

\* zend_hash_get_current_data: the elements from p on, the current one first.
From(e, p) == {k \in DOMAIN cache[e] : k >= p}

With(f, k, l) == [j \in DOMAIN f \cup {k} |-> IF j = k THEN l ELSE f[j]]
Without(f, k) == Restrict(f, DOMAIN f \ {k})

-----------------------------------------------------------------------------

\* rp_event_emitter_on
On(e, l) ==
    /\ Running
    /\ next[e] < MaxIndex
    /\ hook' = [hook EXCEPT ![e] = With(@, next[e], l)]
    /\ cache' = [cache EXCEPT ![e] = With(@, next[e], l)]
    /\ next' = [next EXCEPT ![e] = @ + 1]
    /\ UNCHANGED <<pointer, stack, silenced, fault>>

\* rp_event_emitter_off: array_search finds the first registration of l.
Off(e, l) ==
    /\ Running
    /\ \E k \in DOMAIN hook[e] :
          /\ hook[e][k] = l
          /\ \A j \in DOMAIN hook[e] : hook[e][j] = l => k <= j
          /\ hook' = [hook EXCEPT ![e] = Without(@, k)]
          /\ cache' = [cache EXCEPT ![e] = Without(@, k)]
          /\ stack' = OnFrames(e, LAMBDA f :
                [f EXCEPT !.expected = @ \ {k},
                          !.selfOff = @ \/ Index(f) = k])
    /\ UNCHANGED <<next, pointer, silenced, fault>>

\* rp_event_emitter_removeListeners: both tables are freed.
RemoveListeners(e) ==
    /\ Running
    /\ hook' = [hook EXCEPT ![e] = <<>>]
    /\ cache' = [cache EXCEPT ![e] = <<>>]
    /\ next' = [next EXCEPT ![e] = 0]
    /\ pointer' = [pointer EXCEPT ![e] = 0]
    /\ stack' = OnFrames(e, LAMBDA f : [f EXCEPT !.freed = TRUE])
    /\ UNCHANGED <<silenced, fault>>

\* Seeded fault: emit does not rewind the pointer.
EmitNoRewind(e) ==
    /\ Running
    /\ Len(stack) < MaxDepth
    /\ From(e, pointer[e]) # {}
    /\ stack' = Append(OnFrames(e, LAMBDA f : [f EXCEPT !.reentered = TRUE]),
                       [ev |-> e, invoked |-> <<Min(From(e, pointer[e]))>>,
                        freed |-> FALSE, expected |-> DOMAIN cache[e],
                        reentered |-> FALSE, selfOff |-> FALSE])
    /\ UNCHANGED <<hook, next, cache, pointer, silenced, fault>>

\* rp_event_emitter_emit up to the first call; an event without listeners
\* changes nothing that is seen again.
Emit(e) ==
    /\ Running
    /\ Len(stack) < MaxDepth
    /\ DOMAIN cache[e] # {}
    /\ pointer' = [pointer EXCEPT ![e] = 0]
    /\ stack' = Append(OnFrames(e, LAMBDA f : [f EXCEPT !.reentered = TRUE]),
                       [ev |-> e, invoked |-> <<Min(From(e, 0))>>,
                        freed |-> FALSE, expected |-> DOMAIN cache[e],
                        reentered |-> FALSE, selfOff |-> FALSE])
    /\ UNCHANGED <<hook, next, cache, silenced, fault>>

\* The innermost emission goes on with a table that removeListeners freed:
\* what happens then is undefined, and the model stops.
UseFreedTable ==
    /\ fault' = TRUE
    /\ UNCHANGED <<hook, next, cache, pointer, stack, silenced>>

\* Seeded fault: the pointer is rewound when an emission ends.
ReturnRewinds ==
    /\ Running
    /\ stack # <<>>
    /\ ~Top.freed
    /\ LET e == Top.ev
           here == From(e, pointer[e])
           p == IF here = {} THEN pointer[e] ELSE Min(here) + 1
       IN  IF From(e, p) = {}
           THEN /\ pointer' = [pointer EXCEPT ![e] = 0]
                /\ stack' = Front(stack)
           ELSE /\ pointer' = [pointer EXCEPT ![e] = p]
                /\ stack' = [stack EXCEPT ![Len(stack)].invoked =
                                Append(@, Min(From(e, p)))]
    /\ UNCHANGED <<hook, next, cache, silenced, fault>>

\* The running listener returns: zend_hash_move_forward, then the next call
\* or the end of the emission.
Return ==
    /\ Running
    /\ stack # <<>>
    /\ IF Top.freed
       THEN UseFreedTable
       ELSE LET e == Top.ev
                here == From(e, pointer[e])
                p == IF here = {} THEN pointer[e] ELSE Min(here) + 1
            IN  /\ pointer' = [pointer EXCEPT ![e] = p]
                /\ stack' = IF From(e, p) = {}
                            THEN Front(stack)
                            ELSE [stack EXCEPT ![Len(stack)].invoked =
                                     Append(@, Min(From(e, p)))]
                /\ UNCHANGED <<hook, next, cache, silenced, fault>>

\* The running listener throws.  PHP refuses to call the listeners after it
\* while the exception is pending, so the walk only moves the pointer to the
\* end.  The listener that emitted may catch the exception or let it go on;
\* an exception from an emission of the event loop stays pending in run().
Throw ==
    /\ Running
    /\ stack # <<>>
    /\ IF Top.freed
       THEN UseFreedTable
       ELSE /\ pointer' = [pointer EXCEPT ![Top.ev] = next[Top.ev]]
            /\ stack' = Front(stack)
            /\ silenced' = (Len(stack) = 1)
            /\ UNCHANGED <<hook, next, cache, fault>>

Next ==
    \/ \E e \in Events, l \in Listeners : On(e, l) \/ Off(e, l)
    \/ \E e \in Events : RemoveListeners(e) \/ Emit(e)
    \/ Return
    \/ Throw

Spec == Init /\ [][Next]_vars

-----------------------------------------------------------------------------
(* Properties *)

\* An emission calls registrations in the order they were made and none
\* twice, although nested emissions move the pointer it walks with.
CalledInOrder ==
    TypeOK /\ \A n \in DOMAIN stack :
        \A i, j \in DOMAIN stack[n].invoked :
            i < j => stack[n].invoked[i] < stack[n].invoked[j]

\* A listener that was registered all through an emission is called by it,
\* except when the emission ended by an exception, when the same event was
\* emitted inside it, or when a listener unregistered itself while running
\* (which makes the walk step over its successor).
NoneSkipped ==
    [][Return /\ Len(stack') < Len(stack)
       => \/ Top.reentered
          \/ Top.selfOff
          \/ Top.expected \subseteq Range(Top.invoked)]_vars
=============================================================================
