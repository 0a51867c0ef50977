---------------------------- MODULE MCRunManager ----------------------------
(* Finite instances of RunManager for TLC. *)
EXTENDS RunManager, TLC

=============================================================================
