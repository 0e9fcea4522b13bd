------------------------------ MODULE MCActions ------------------------------
(* Instances of SessionActions for TLC. *)
EXTENDS SessionActions
==============================================================================
