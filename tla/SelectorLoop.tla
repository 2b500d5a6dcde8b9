----------------------------- MODULE SelectorLoop -----------------------------
(***************************************************************************)
(* selector_select as a whole: the wake-up of Notify and the table of      *)
(* SelectorTable in one thread.  Handlers, called by handle_iteration or,  *)
(* under the mutex, by handle_block_notifications, change the table; a job *)
(* carries the descriptor of the connection whose handler started it.      *)
(***************************************************************************)
EXTENDS Notify, SelectorTable

VARIABLE fd     \* per thread: the descriptor its job is for

loopVars == <<vars, tableVars, fd>>

LoopInit ==
    /\ Init
    /\ TableInit
    /\ fd \in [Thread -> {0}]

\* A DNS thread looks at no item: selector_notify_block only makes the job.
ThreadStep(t) == req_dns_thread(t) /\ UNCHANGED <<tableVars, fd>>

\* handle_iteration over 0..max_fd.
HandleIteration == Ready /\ LookAt(max_fd) /\ UNCHANGED fd

\* Inside it, a handler starts a thread for its own descriptor ...
HandlerStartsThread(t, d) ==
    /\ StartThread(t)
    /\ fd' = [fd EXCEPT ![t] = d]
    /\ UNCHANGED tableVars

\* ... and any handler calls the selector.
HandlerCalls ==
    /\ spc \in {"iterate", "handle"}
    /\ TableCall
    /\ UNCHANGED <<vars, fd>>

\* The item of the job's descriptor is looked at, in use or not.
NotifyJob(t) ==
    /\ HandleJob
    /\ t \in jobs /\ jobs' = jobs \ {t}
    /\ LookAt(fd[t])
    /\ UNCHANGED fd

SelectStep ==
    /\ Sleep \/ Interrupted \/ IterationEnds \/ LockJobs \/ UnlockJobs
    /\ UNCHANGED <<tableVars, fd>>

LoopNext ==
    \/ \E t \in Thread :
         \/ ThreadStep(t)
         \/ NotifyJob(t)
         \/ \E d \in Used : HandlerStartsThread(t, d)
    \/ HandleIteration
    \/ HandlerCalls
    \/ SelectStep

LoopSpec == LoopInit /\ [][LoopNext]_loopVars

\* As in Notify: a handler returns, threads run, and nothing is assumed of
\* descriptors.
LoopFairness ==
    /\ WF_loopVars(SelectStep \/ \E t \in Thread : NotifyJob(t))
    /\ \A t \in Thread :
         /\ WF_loopVars(ThreadStep(t))
         /\ SF_loopVars(Lock(t) /\ UNCHANGED <<tableVars, fd>>)

FairLoopSpec == LoopSpec /\ LoopFairness

\* The list, the mutex and the signal of Notify, and the numbers of the table: an
\* index into it, the argument of pselect too, is never negative, not even when no
\* descriptor is registered.
LoopTypeOK == TypeOK /\ TableTypeOK /\ fd \in [Thread -> Nat]
=============================================================================
