------------------------------- MODULE MCClient -------------------------------
(* Instances of Client for TLC: lists without users and with two, and one error  *)
(* that ends the client and one that does not.                                   *)
EXTENDS Client
MCLists == {<<>>, <<<<97, 98>>, <<99>>>>}
=============================================================================
