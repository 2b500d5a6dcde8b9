----------------------------- MODULE MCSelector -----------------------------
(* Instances of SelectorLoop for TLC.  The numbers are the real ones, with the *)
(* descriptors that matter: the first, the last the selector takes, and the    *)
(* first it refuses.  Liveness is checked, so that no symmetry is declared.    *)
EXTENDS SelectorLoop
MCFd == {0, 1023, 1024}
=============================================================================
