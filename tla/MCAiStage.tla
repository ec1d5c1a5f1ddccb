---------------------------- MODULE MCAiStage ----------------------------
(* Small instances of AiStage; workers and copies are interchangeable.      *)
EXTENDS AiStage, TLC

Symmetry == Permutations(Workers) \cup Permutations(Copies)
=============================================================================
