------------------------------ MODULE RemoteCall ------------------------------
(***************************************************************************)
(* What $routine->execute() promises its caller, without processes, pipes  *)
(* and tables: a call is executed at most once, its promise is resolved at *)
(* most once and only with the outcome of an execution that ended, and a   *)
(* promise that was given up is neither resolved nor executed for later.   *)
(***************************************************************************)
EXTENDS Naturals

CONSTANT Calls

VARIABLES
    made,      \* calls of execute()
    begun,     \* calls whose execution began
    ended,     \* calls whose execution returned
    resolved,  \* calls whose promise is resolved
    dropped    \* calls whose promise was released unsettled

vars == <<made, begun, ended, resolved, dropped>>

Init ==
    /\ made = {} /\ begun = {} /\ ended = {}
    /\ resolved = {} /\ dropped = {}

Make(c) ==
    /\ c \notin made
    /\ made' = made \cup {c}
    /\ UNCHANGED <<begun, ended, resolved, dropped>>

Begin(c) ==
    /\ c \in made \ (begun \cup dropped)
    /\ begun' = begun \cup {c}
    /\ UNCHANGED <<made, ended, resolved, dropped>>

Finish(c) ==
    /\ c \in begun \ (ended \cup dropped)
    /\ ended' = ended \cup {c}
    /\ UNCHANGED <<made, begun, resolved, dropped>>

Resolve(c) ==
    /\ c \in ended \ (resolved \cup dropped)
    /\ resolved' = resolved \cup {c}
    /\ UNCHANGED <<made, begun, ended, dropped>>

\* Several calls at once: a worker that starts gives up its whole queue.
Drop(C) ==
    /\ C # {} /\ C \subseteq made \ (resolved \cup dropped)
    /\ dropped' = dropped \cup C
    /\ UNCHANGED <<made, begun, ended, resolved>>

Next ==
    \/ \E c \in Calls : Make(c) \/ Begin(c) \/ Finish(c) \/ Resolve(c)
    \/ \E C \in SUBSET Calls : Drop(C)

Spec == Init /\ [][Next]_vars
=============================================================================
