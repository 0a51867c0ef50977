---------------------------- MODULE MCAnswerRelay ----------------------------
(* Finite instances of AnswerRelay for TLC. *)
EXTENDS AnswerRelay, TLC

TaskSymmetry == Permutations(Tasks)
=============================================================================
