------------------------------ MODULE MCServer ------------------------------
(* Model checking of Server: which connection gets which block is all the same. *)
EXTENDS Server, TLC

Symmetry == Permutations(Conn)
=============================================================================
