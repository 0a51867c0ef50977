----------------------------- MODULE MCDomainTask -----------------------------
(* Small instance of DomainTask. *)
EXTENDS DomainTask, TLC
==============================================================================
