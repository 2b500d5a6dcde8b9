------------------------------- MODULE Notify -------------------------------
(***************************************************************************)
(* How a DNS thread wakes the selector (selector.c): a list of jobs under  *)
(* a mutex, and a signal that only pselect lets in.                        *)
(*                                                                         *)
(* Each thread serves one connection that waits in REQ_DNS, so that a      *)
(* thread also names its job.  The order of the list is left out: the      *)
(* selector handles all of it.                                             *)
(*                                                                         *)
(* Assumed: handle_block_notifications, which reads j->next after free(j), *)
(* still finds there what it was.  In C that is undefined, and a thread in *)
(* getaddrinfo might be given the block between the two; what the list     *)
(* would be then is not modelled.  pselect fails with EINTR only.          *)
(***************************************************************************)
CONSTANT Thread

CONSTANT Selector, Free     \* holders of the mutex that are not threads

ASSUME NotifyAssumption == Selector \notin Thread /\ Free \notin Thread /\ Selector # Free

VARIABLES
    pc,         \* per thread: where it is in req_dns_thread
    spc,        \* where the selector thread is in selector_select
    jobs,       \* resolution_jobs: what is left of the list
    mutex,      \* resolution_mutex
    pending     \* SIGCHLD is pending for the selector thread

vars == <<pc, spc, jobs, mutex, pending>>

TypeOK ==
    /\ pc \in [Thread -> {"none", "getaddrinfo", "lock", "push", "unlock", "kill"}]
    /\ spc \in {"iterate", "pselect", "asleep", "lock", "handle"}
    /\ jobs \subseteq Thread
    /\ mutex \in Thread \cup {Selector, Free}
    /\ pending \in BOOLEAN

\* selector_init has blocked the signal before there is any thread.
Init ==
    /\ pc = [t \in Thread |-> "none"]
    /\ spc = "pselect"
    /\ jobs = {}
    /\ mutex = Free
    /\ pending = FALSE

Goto(t, l) == pc' = [pc EXCEPT ![t] = l]

-----------------------------------------------------------------------------
(* A DNS thread. *)

\* Mutants: the form a plausible bug would give to the definition each is named
\* for.  PROJECT.json says which property refutes it.
Lock_NoWait(t) ==
    /\ pc[t] = "lock"
    /\ mutex' = t /\ Goto(t, "push")
    /\ UNCHANGED <<spc, jobs, pending>>

\* Without SIG_BLOCK: the signal is lost on a selector that is not in pselect.
Kill_NotBlocked(t) ==
    /\ pc[t] = "kill"
    /\ pending' = (pending \/ spc = "asleep") /\ Goto(t, "none")
    /\ UNCHANGED <<spc, jobs, mutex>>

\* The list is dropped after its first job.
UnlockJobs_Early ==
    /\ spc = "handle"
    /\ jobs' = {} /\ mutex' = Free /\ spc' = "pselect"
    /\ UNCHANGED <<pc, pending>>

\* The name is resolved, or it is not.
Resolved(t) ==
    /\ pc[t] = "getaddrinfo" /\ Goto(t, "lock")
    /\ UNCHANGED <<spc, jobs, mutex, pending>>

Lock(t) ==
    /\ pc[t] = "lock" /\ mutex = Free
    /\ mutex' = t /\ Goto(t, "push")
    /\ UNCHANGED <<spc, jobs, pending>>

Push(t) ==
    /\ pc[t] = "push"
    /\ jobs' = jobs \cup {t} /\ Goto(t, "unlock")
    /\ UNCHANGED <<spc, mutex, pending>>

Unlock(t) ==
    /\ pc[t] = "unlock"
    /\ mutex' = Free /\ Goto(t, "kill")
    /\ UNCHANGED <<spc, jobs, pending>>

\* A signal that is pending already is not pending twice; one that finds the
\* selector in pselect ends that call, see Interrupted.
Kill(t) ==
    /\ pc[t] = "kill"
    /\ pending' = TRUE /\ Goto(t, "none")
    /\ UNCHANGED <<spc, jobs, mutex>>

req_dns_thread(t) == Resolved(t) \/ Lock(t) \/ Push(t) \/ Unlock(t) \/ Kill(t)

-----------------------------------------------------------------------------
(* The selector thread. *)

\* handle_iteration: a req_read among its handlers starts a thread.  The
\* connection of t has no other work: its last job was handled.
StartThread(t) ==
    /\ spc = "iterate" /\ pc[t] = "none" /\ t \notin jobs
    /\ Goto(t, "getaddrinfo")
    /\ UNCHANGED <<spc, jobs, mutex, pending>>

IterationEnds ==
    /\ spc = "iterate" /\ spc' = "lock"
    /\ UNCHANGED <<pc, jobs, mutex, pending>>

\* pselect finds no descriptor ready and the signal not pending.
Sleep ==
    /\ spc = "pselect" /\ ~pending
    /\ spc' = "asleep"
    /\ UNCHANGED <<pc, jobs, mutex, pending>>

\* -1 with EINTR: the signal is taken, no descriptor is looked at.
Interrupted ==
    /\ spc \in {"pselect", "asleep"} /\ pending
    /\ pending' = FALSE /\ spc' = "lock"
    /\ UNCHANGED <<pc, jobs, mutex>>

\* Descriptors are ready, or the timeout is over: the signal stays pending.
Ready ==
    /\ spc \in {"pselect", "asleep"}
    /\ spc' = "iterate"
    /\ UNCHANGED <<pc, jobs, mutex, pending>>

LockJobs ==
    /\ spc = "lock" /\ mutex = Free
    /\ mutex' = Selector /\ spc' = "handle"
    /\ UNCHANGED <<pc, jobs, pending>>

\* handle_block of one job.
HandleJob ==
    /\ spc = "handle"
    /\ \E t \in jobs : jobs' = jobs \ {t}
    /\ UNCHANGED <<pc, spc, mutex, pending>>

UnlockJobs ==
    /\ spc = "handle" /\ jobs = {}
    /\ mutex' = Free /\ spc' = "pselect"
    /\ UNCHANGED <<pc, jobs, pending>>

handle_block_notifications == LockJobs \/ HandleJob \/ UnlockJobs

selector_select == Sleep \/ Interrupted \/ IterationEnds \/ handle_block_notifications

Next ==
    \/ \E t \in Thread : req_dns_thread(t) \/ StartThread(t)
    \/ Ready
    \/ selector_select

Spec == Init /\ [][Next]_vars

\* Threads run and the server loops, but nothing is assumed of descriptors and
\* the timeout of 100 seconds does not come to the rescue: Ready is not fair.
\* Lock is strongly fair, a mutex does not starve a thread for ever.
Fairness ==
    /\ WF_vars(selector_select)
    /\ \A t \in Thread : WF_vars(req_dns_thread(t)) /\ SF_vars(Lock(t))

FairSpec == Spec /\ Fairness

-----------------------------------------------------------------------------
(* Properties. *)

\* The list is only touched by the holder of the mutex.
JobsAreGuarded ==
    /\ \A t \in Thread : pc[t] \in {"push", "unlock"} <=> mutex = t
    /\ spc = "handle" <=> mutex = Selector

\* The selector never enters pselect, or stays in it, over a job whose thread
\* has sent its signal: that signal is still pending.
NoLostWakeup ==
    \A t \in jobs :
        (pc[t] = "none" /\ spc \in {"pselect", "asleep"}) => pending

\* A result is presented once, after the thread has finished its work.
Jobs == INSTANCE BlockingJobs WITH
    status <- [t \in Thread |->
        IF t \in jobs THEN "finished"
        ELSE IF pc[t] \in {"getaddrinfo", "lock", "push"} THEN "working" ELSE "idle"]

PresentedOnce == Jobs!Spec

\* Every resolution gets as far as its handler, even if no descriptor is ever
\* ready.
ResolutionIsHandled ==
    \A t \in Thread : (pc[t] = "getaddrinfo") ~> (pc[t] = "none" /\ t \notin jobs)
=============================================================================
