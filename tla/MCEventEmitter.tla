--------------------------- MODULE MCEventEmitter ---------------------------
(* Instances of EventEmitter for TLC. *)
EXTENDS EventEmitter, TLC

\* Listeners are interchangeable, they are only compared, and so are events.
Symmetry == Permutations(Listeners) \cup Permutations(Events)
=============================================================================
