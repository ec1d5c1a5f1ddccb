---------------------------- MODULE MCEventBus ----------------------------
(* Small instances of EventBus: copies are interchangeable slots and the    *)
(* workers of a queue run the same program.                                 *)
EXTENDS EventBus, TLC

Symmetry == Permutations(Workers) \cup Permutations(Copies)
=============================================================================
