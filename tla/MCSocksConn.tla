----------------------------- MODULE MCSocksConn -----------------------------
(* Instances of SocksConn for TLC: the constants are given in the .cfg files. *)
EXTENDS SocksConn
=============================================================================
