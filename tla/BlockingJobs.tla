---------------------------- MODULE BlockingJobs ----------------------------
(***************************************************************************)
(* What selector.h promises to a handler that hands its blocking work to a *)
(* thread: the result is presented once, and only after the work is done.  *)
(***************************************************************************)
CONSTANT Thread

VARIABLE status     \* per thread: no work, working, or result not presented yet

Init == status = [t \in Thread |-> "idle"]

Begin(t)   == status[t] = "idle"     /\ status' = [status EXCEPT ![t] = "working"]
Finish(t)  == status[t] = "working"  /\ status' = [status EXCEPT ![t] = "finished"]
Present(t) == status[t] = "finished" /\ status' = [status EXCEPT ![t] = "idle"]

Next == \E t \in Thread : Begin(t) \/ Finish(t) \/ Present(t)

Spec == Init /\ [][Next]_status
=============================================================================
