------------------------------ MODULE MCRelay ------------------------------
(* Instances of Relay for TLC: the constants are given in the .cfg files. *)
EXTENDS Relay
=============================================================================
