--------------------------- MODULE MCDirectBuffer ---------------------------
(* Instance of DirectBuffer for TLC. *)
EXTENDS DirectBuffer
=============================================================================
