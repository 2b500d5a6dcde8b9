---------------------------- MODULE SelectorProofs ----------------------------
(***************************************************************************)
(* Theorems about the selector.  First the hand-over of module Notify, for *)
(* any set of threads: no wake-up is lost, and each result is presented    *)
(* once.  Then SelectorLoop: the selector stays inside its table, pselect  *)
(* is given what the handlers have asked for, for any number of threads    *)
(* and descriptors and any limit of the platform that selector_new has     *)
(* made room for, and the hand-over is that of Notify.                     *)
(***************************************************************************)
EXTENDS SelectorLoop, TLAPS

-----------------------------------------------------------------------------
(* The hand-over. *)

\* A thread has a job in the list only from its push on, so that one thread
\* never has two.
PushedJobs == \A t \in jobs : pc[t] \in {"unlock", "kill", "none"}

\* What every step keeps.
Inv == TypeOK /\ JobsAreGuarded /\ PushedJobs /\ NoLostWakeup

LEMMA InvInit == Init => Inv
BY NotifyAssumption
   DEF Init, Inv, TypeOK, JobsAreGuarded, PushedJobs, NoLostWakeup

\* The steps of one DNS thread.
LEMMA ThreadKeepsInv ==
    ASSUME Inv, NEW t \in Thread, req_dns_thread(t)
    PROVE  Inv'
<1> USE NotifyAssumption
<1>1. CASE Resolved(t)
  BY <1>1 DEF Inv, TypeOK, JobsAreGuarded, PushedJobs, NoLostWakeup, Resolved, Goto
<1>2. CASE Lock(t)
  BY <1>2 DEF Inv, TypeOK, JobsAreGuarded, PushedJobs, NoLostWakeup, Lock, Goto
<1>3. CASE Push(t)
  BY <1>3 DEF Inv, TypeOK, JobsAreGuarded, PushedJobs, NoLostWakeup, Push, Goto
<1>4. CASE Unlock(t)
  BY <1>4 DEF Inv, TypeOK, JobsAreGuarded, PushedJobs, NoLostWakeup, Unlock, Goto
<1>5. CASE Kill(t)
  BY <1>5 DEF Inv, TypeOK, JobsAreGuarded, PushedJobs, NoLostWakeup, Kill, Goto
<1> QED BY <1>1, <1>2, <1>3, <1>4, <1>5 DEF req_dns_thread

\* The steps of the selector thread.
LEMMA SelectorKeepsInv ==
    ASSUME Inv, Ready \/ selector_select \/ \E t \in Thread : StartThread(t)
    PROVE  Inv'
<1> USE NotifyAssumption
<1>1. ASSUME NEW t \in Thread, StartThread(t) PROVE Inv'
  BY <1>1 DEF Inv, TypeOK, JobsAreGuarded, PushedJobs, NoLostWakeup, StartThread, Goto
<1>2. CASE Ready
  BY <1>2 DEF Inv, TypeOK, JobsAreGuarded, PushedJobs, NoLostWakeup, Ready
<1>3. CASE IterationEnds
  BY <1>3 DEF Inv, TypeOK, JobsAreGuarded, PushedJobs, NoLostWakeup, IterationEnds
<1>4. CASE Sleep
  BY <1>4 DEF Inv, TypeOK, JobsAreGuarded, PushedJobs, NoLostWakeup, Sleep
<1>5. CASE Interrupted
  BY <1>5 DEF Inv, TypeOK, JobsAreGuarded, PushedJobs, NoLostWakeup, Interrupted
<1>6. CASE LockJobs
  BY <1>6 DEF Inv, TypeOK, JobsAreGuarded, PushedJobs, NoLostWakeup, LockJobs
<1>7. CASE HandleJob
  BY <1>7 DEF Inv, TypeOK, JobsAreGuarded, PushedJobs, NoLostWakeup, HandleJob
<1>8. CASE UnlockJobs
  BY <1>8 DEF Inv, TypeOK, JobsAreGuarded, PushedJobs, NoLostWakeup, UnlockJobs
<1> QED BY <1>1, <1>2, <1>3, <1>4, <1>5, <1>6, <1>7, <1>8
        DEF selector_select, handle_block_notifications

LEMMA InvStep == Inv /\ [Next]_vars => Inv'
<1> SUFFICES ASSUME Inv, [Next]_vars PROVE Inv'
  OBVIOUS
<1>1. CASE Next
  BY <1>1, ThreadKeepsInv, SelectorKeepsInv DEF Next
<1>2. CASE UNCHANGED vars
  BY <1>2 DEF Inv, TypeOK, JobsAreGuarded, PushedJobs, NoLostWakeup, vars
<1> QED BY <1>1, <1>2

LEMMA InvAlways == Spec => []Inv
BY InvInit, InvStep, PTL DEF Spec

\* The threads and the selector only take values the code gives them.
THEOREM NotifyTypeCorrect == Spec => []TypeOK
BY InvAlways, PTL DEF Inv

\* The list of jobs is only touched under the mutex.
THEOREM JobsUnderMutex == Spec => []JobsAreGuarded
BY InvAlways, PTL DEF Inv

\* The selector never sleeps over a job whose thread has sent its signal.
THEOREM WakeupIsNotLost == Spec => []NoLostWakeup
BY InvAlways, PTL DEF Inv

-----------------------------------------------------------------------------
(* Each step is a step of BlockingJobs or a stutter. *)

\* What the mapping says of one thread.
StatusOf(t) ==
    IF t \in jobs THEN "finished"
    ELSE IF pc[t] \in {"getaddrinfo", "lock", "push"} THEN "working" ELSE "idle"

Status == [t \in Thread |-> StatusOf(t)]

\* A step that changes what the mapping says of one thread only.
LEMMA StatusChange ==
    ASSUME NEW t \in Thread, \A u \in Thread \ {t} : StatusOf(u)' = StatusOf(u)
    PROVE  Status' = [Status EXCEPT ![t] = StatusOf(t)']
BY DEF Status

\* A step that changes it of no thread.
LEMMA StatusStays ==
    ASSUME \A u \in Thread : StatusOf(u)' = StatusOf(u)
    PROVE  Status' = Status
BY DEF Status

LEMMA StepRefines ==
    ASSUME Inv, [Next]_vars
    PROVE  Jobs!Next \/ Status' = Status
<1>1. CASE UNCHANGED vars
  BY <1>1 DEF vars, Status, StatusOf
<1>2. ASSUME NEW t \in Thread, req_dns_thread(t) PROVE Jobs!Next \/ Status' = Status
  <2>1. CASE Push(t)
    <3>1. t \notin jobs /\ pc[t] = "push"
      BY <2>1 DEF Push, Inv, PushedJobs
    <3>2. StatusOf(t) = "working" /\ StatusOf(t)' = "finished"
      BY <2>1, <3>1 DEF Push, StatusOf
    <3>3. \A u \in Thread \ {t} : StatusOf(u)' = StatusOf(u)
      BY <2>1 DEF Push, Goto, StatusOf, Inv, TypeOK
    <3>4. Status[t] = "working" /\ Status' = [Status EXCEPT ![t] = "finished"]
      BY <3>2, <3>3, StatusChange DEF Status
    <3> QED BY <3>4 DEF Jobs!Next, Jobs!Finish, Status, StatusOf
  <2>2. CASE Resolved(t) \/ Lock(t) \/ Unlock(t) \/ Kill(t)
    <3>1. \A u \in Thread : StatusOf(u)' = StatusOf(u)
      BY <2>2 DEF Resolved, Lock, Unlock, Kill, Goto, StatusOf, Inv, TypeOK
    <3> QED BY <3>1, StatusStays
  <2> QED BY <1>2, <2>1, <2>2 DEF req_dns_thread
<1>3. ASSUME NEW t \in Thread, StartThread(t) PROVE Jobs!Next \/ Status' = Status
  <2>1. StatusOf(t) = "idle" /\ StatusOf(t)' = "working"
    BY <1>3 DEF StartThread, Goto, StatusOf, Inv, TypeOK
  <2>2. \A u \in Thread \ {t} : StatusOf(u)' = StatusOf(u)
    BY <1>3 DEF StartThread, Goto, StatusOf, Inv, TypeOK
  <2>3. Status[t] = "idle" /\ Status' = [Status EXCEPT ![t] = "working"]
    BY <2>1, <2>2, StatusChange DEF Status
  <2> QED BY <2>3 DEF Jobs!Next, Jobs!Begin, Status, StatusOf
<1>4. CASE HandleJob
  <2>1. PICK t \in jobs : jobs' = jobs \ {t}
    BY <1>4 DEF HandleJob
  <2>2. t \in Thread
    BY <2>1 DEF Inv, TypeOK
  <2>3. spc = "handle" /\ mutex = Selector
    BY <1>4 DEF HandleJob, Inv, JobsAreGuarded
  <2>4. pc[t] \in {"kill", "none"}
    BY <2>1, <2>2, <2>3, NotifyAssumption DEF Inv, JobsAreGuarded, PushedJobs
  <2>5. StatusOf(t) = "finished" /\ StatusOf(t)' = "idle"
    BY <1>4, <2>1, <2>4 DEF HandleJob, StatusOf
  <2>6. \A u \in Thread \ {t} : StatusOf(u)' = StatusOf(u)
    BY <1>4, <2>1 DEF HandleJob, StatusOf
  <2>7. Status[t] = "finished" /\ Status' = [Status EXCEPT ![t] = "idle"]
    BY <2>2, <2>5, <2>6, StatusChange DEF Status
  <2> QED BY <2>2, <2>7 DEF Jobs!Next, Jobs!Present, Status, StatusOf
<1>5. CASE Ready \/ IterationEnds \/ Sleep \/ Interrupted \/ LockJobs \/ UnlockJobs
  <2>1. jobs' = jobs /\ pc' = pc
    BY <1>5 DEF Ready, IterationEnds, Sleep, Interrupted, LockJobs, UnlockJobs
  <2> QED BY <2>1 DEF Status, StatusOf
<1> QED BY <1>1, <1>2, <1>3, <1>4, <1>5
        DEF Next, selector_select, handle_block_notifications

\* Notify implements BlockingJobs: a handler is given the result of its thread
\* once, and only when that thread has finished its work.
THEOREM ResultPresentedOnce == Spec => PresentedOnce
<1>1. Init => Jobs!Init
  BY DEF Init, Jobs!Init
<1>2. Inv /\ [Next]_vars => (Jobs!Next \/ Status' = Status)
  BY StepRefines
<1>3. Inv /\ [Next]_vars =>
        [Jobs!Next]_([t \in Thread |->
            IF t \in jobs THEN "finished"
            ELSE IF pc[t] \in {"getaddrinfo", "lock", "push"} THEN "working" ELSE "idle"])
  BY <1>2 DEF Status, StatusOf
<1> QED BY <1>1, <1>3, InvAlways, PTL DEF Spec, PresentedOnce, Jobs!Spec

-----------------------------------------------------------------------------
(* The table. *)

Slot == 0..(FD_SETSIZE - 1)

\* The table never grows: what selector_new allocated is enough.
TableTypes ==
    /\ fd_size = FD_SETSIZE + 1
    /\ Used \subseteq Slot
    /\ item \in [Used -> Interest]
    /\ max_fd \in Slot
    /\ touched \subseteq Slot

JobsHaveSlots == fd \in [Thread -> Slot]

TableInv == TableTypes /\ SelectSeesEverything /\ JobsHaveSlots

-----------------------------------------------------------------------------
LEMMA InitEstablishesInv == LoopInit => TableInv
<1>. SUFFICES ASSUME LoopInit PROVE TableInv
  OBVIOUS
<1>1. PICK started \in SUBSET Listeners :
        /\ item = [d \in started |-> {"OP_READ"}]
        /\ master_r = started
        /\ max_fd \in started \cup {0} /\ \A d \in started : d <= max_fd
  BY DEF LoopInit, TableInit
<1>2. Used = started
  BY <1>1 DEF Used
<1>3. started \subseteq Slot /\ 0 \in Slot
  BY TableAssumption DEF Slot
<1>4. TableTypes
  BY <1>1, <1>2, <1>3, TableAssumption DEF LoopInit, TableInit, TableTypes, Interest
<1>5. SelectSeesEverything
  BY <1>1, <1>2 DEF LoopInit, TableInit, SelectSeesEverything
<1>6. JobsHaveSlots
  BY <1>3 DEF LoopInit, JobsHaveSlots
<1>. QED
  BY <1>4, <1>5, <1>6 DEF TableInv

LEMMA RefusedKeeps ==
    ASSUME TableTypes, SelectSeesEverything, NEW d, Refused(d)
    PROVE  TableTypes' /\ SelectSeesEverything'
BY DEF Refused, TableTypes, SelectSeesEverything, Used

LEMMA WrongStateKeeps ==
    ASSUME TableTypes, SelectSeesEverything, NEW d \in Slot, WrongState(d), UNCHANGED fd_size
    PROVE  TableTypes' /\ SelectSeesEverything'
BY DEF WrongState, TableTypes, SelectSeesEverything, Used

LEMMA LookAtKeeps ==
    ASSUME TableTypes, SelectSeesEverything, NEW d \in Slot, LookAt(d)
    PROVE  TableTypes' /\ SelectSeesEverything'
BY DEF LookAt, TableTypes, SelectSeesEverything, Used

\* A descriptor the selector takes is below the size, so that nothing grows.
LEMMA CapacityIsEnough ==
    ASSUME TableTypes, NEW d \in Fd, ~INVALID_FD(d)
    PROVE  d \in Slot /\ ~(d > fd_size)
BY TableAssumption DEF TableTypes, INVALID_FD, Slot

LEMMA RegisterKeeps ==
    ASSUME TableTypes, SelectSeesEverything, NEW d \in Fd, NEW i \in Interest, selector_register(d, i)
    PROVE  TableTypes' /\ SelectSeesEverything'
<1>1. CASE Refused(d)
  BY <1>1, RefusedKeeps
<1>2. CASE ~INVALID_FD(d) /\ ensure_capacity(d) /\ d \in Used /\ WrongState(d)
  BY <1>2, CapacityIsEnough, WrongStateKeeps DEF ensure_capacity
<1>3. CASE /\ ~INVALID_FD(d) /\ ensure_capacity(d) /\ d \notin Used
           /\ touched' = {d}
           /\ item' = [e \in Used \cup {d} |-> IF e = d THEN i ELSE item[e]]
           /\ max_fd' = IF d > max_fd THEN d ELSE max_fd
           /\ items_update_fdset_for_fd(d, i)
  <2>1. d \in Slot /\ fd_size' = fd_size
    BY <1>3, CapacityIsEnough DEF ensure_capacity
  <2>2. Used' = Used \cup {d} /\ item'[d] = i /\ \A e \in Used : item'[e] = item[e]
    BY <1>3 DEF Used
  <2>3. TableTypes'
    BY <1>3, <2>1, <2>2 DEF TableTypes, Slot
  <2>4. max_fd' \in Used' \cup {0} /\ \A e \in Used' : e <= max_fd'
    BY <1>3, <2>1, <2>2 DEF SelectSeesEverything, TableTypes, Slot
  <2>5. master_r' = {e \in Used' : "OP_READ" \in item'[e]}
    BY <1>3, <2>2 DEF items_update_fdset_for_fd, SelectSeesEverything
  <2>6. master_w' = {e \in Used' : "OP_WRITE" \in item'[e]}
    BY <1>3, <2>2 DEF items_update_fdset_for_fd, SelectSeesEverything
  <2>. QED
    BY <2>3, <2>4, <2>5, <2>6 DEF SelectSeesEverything
<1>. QED
  BY <1>1, <1>2, <1>3 DEF selector_register

LEMMA UnregisterKeeps ==
    ASSUME TableTypes, SelectSeesEverything, NEW d \in Fd, selector_unregister_fd(d)
    PROVE  TableTypes' /\ SelectSeesEverything'
<1>1. CASE Refused(d)
  BY <1>1, RefusedKeeps
<1>2. CASE ~INVALID_FD(d) /\ d \notin Used /\ WrongState(d) /\ UNCHANGED fd_size
  BY <1>2, CapacityIsEnough, WrongStateKeeps
<1>3. CASE /\ ~INVALID_FD(d) /\ d \in Used
           /\ touched' = {d}
           /\ item' = [e \in Used \ {d} |-> item[e]]
           /\ items_max_fd(item', max_fd')
           /\ items_update_fdset_for_fd(d, {})
           /\ UNCHANGED fd_size
  <2>1. d \in Slot
    BY <1>3, CapacityIsEnough
  <2>2. Used' = Used \ {d} /\ \A e \in Used' : item'[e] = item[e]
    BY <1>3 DEF Used
  <2>3. /\ max_fd' \in Used' \cup {0}
        /\ \A e \in Used' : e <= max_fd'
    \* What is in use is below the old max_fd, so that the scan misses nothing.
    <3>1. {e \in Used' : e <= max_fd} = Used'
      BY <2>2 DEF SelectSeesEverything
    <3>. QED
      BY <1>3, <3>1 DEF items_max_fd, Used
  <2>4. max_fd' \in Slot
    BY <2>2, <2>3, TableAssumption DEF TableTypes, Slot
  <2>5. TableTypes'
    BY <1>3, <2>1, <2>2, <2>4 DEF TableTypes
  <2>6. master_r' = {e \in Used' : "OP_READ" \in item'[e]}
    BY <1>3, <2>2 DEF items_update_fdset_for_fd, SelectSeesEverything
  <2>7. master_w' = {e \in Used' : "OP_WRITE" \in item'[e]}
    BY <1>3, <2>2 DEF items_update_fdset_for_fd, SelectSeesEverything
  <2>. QED
    BY <2>3, <2>5, <2>6, <2>7 DEF SelectSeesEverything
<1>. QED
  BY <1>1, <1>2, <1>3 DEF selector_unregister_fd

LEMMA SetInterestKeeps ==
    ASSUME TableTypes, SelectSeesEverything, NEW d \in Fd, NEW i \in Interest, selector_set_interest(d, i)
    PROVE  TableTypes' /\ SelectSeesEverything'
<1>1. CASE Refused(d)
  BY <1>1, RefusedKeeps
<1>2. CASE ~INVALID_FD(d) /\ d \notin Used /\ WrongState(d) /\ UNCHANGED fd_size
  BY <1>2, CapacityIsEnough, WrongStateKeeps
<1>3. CASE /\ ~INVALID_FD(d) /\ d \in Used
           /\ touched' = {d}
           /\ item' = [item EXCEPT ![d] = i]
           /\ items_update_fdset_for_fd(d, i)
           /\ UNCHANGED <<max_fd, fd_size>>
  <2>1. d \in Slot
    BY <1>3, CapacityIsEnough
  <2>2. /\ Used' = Used /\ item' \in [Used -> Interest]
        /\ item'[d] = i /\ \A e \in Used \ {d} : item'[e] = item[e]
    BY <1>3 DEF Used, TableTypes
  <2>3. TableTypes'
    BY <1>3, <2>1, <2>2 DEF TableTypes
  <2>4. master_r' = {e \in Used' : "OP_READ" \in item'[e]}
    BY <1>3, <2>2 DEF items_update_fdset_for_fd, SelectSeesEverything
  <2>5. master_w' = {e \in Used' : "OP_WRITE" \in item'[e]}
    BY <1>3, <2>2 DEF items_update_fdset_for_fd, SelectSeesEverything
  <2>. QED
    BY <1>3, <2>2, <2>3, <2>4, <2>5 DEF SelectSeesEverything
<1>. QED
  BY <1>1, <1>2, <1>3 DEF selector_set_interest

LEMMA SameTableKeeps ==
    ASSUME TableTypes, SelectSeesEverything, UNCHANGED tableVars
    PROVE  TableTypes' /\ SelectSeesEverything'
BY DEF tableVars, TableTypes, SelectSeesEverything, Used

\* One step of the selector or of a thread keeps the invariant.
LEMMA StepKeepsInv == TableInv /\ [LoopNext]_loopVars => TableInv'
<1>. SUFFICES ASSUME TableInv, [LoopNext]_loopVars PROVE TableInv'
  OBVIOUS
<1>. USE DEF TableInv
<1>1. ASSUME NEW t \in Thread, ThreadStep(t) PROVE TableInv'
  BY <1>1, SameTableKeeps DEF ThreadStep, JobsHaveSlots
<1>2. ASSUME NEW t \in Thread, NotifyJob(t) PROVE TableInv'
  <2>1. fd[t] \in Slot
    BY DEF JobsHaveSlots
  <2>. QED
    BY <1>2, <2>1, LookAtKeeps DEF NotifyJob, JobsHaveSlots
<1>3. ASSUME NEW t \in Thread, NEW d \in Used, HandlerStartsThread(t, d) PROVE TableInv'
  <2>1. d \in Slot
    BY DEF TableTypes
  <2>2. JobsHaveSlots'
    BY <1>3, <2>1 DEF HandlerStartsThread, JobsHaveSlots
  <2>. QED
    BY <1>3, <2>2, SameTableKeeps DEF HandlerStartsThread
<1>4. CASE HandleIteration
  BY <1>4, LookAtKeeps DEF HandleIteration, TableTypes, JobsHaveSlots
<1>5. CASE HandlerCalls
  <2>1. PICK d \in Fd : \/ selector_unregister_fd(d)
                        \/ \E i \in Interest : selector_register(d, i) \/ selector_set_interest(d, i)
    BY <1>5 DEF HandlerCalls, TableCall
  <2>2. JobsHaveSlots'
    BY <1>5 DEF HandlerCalls, JobsHaveSlots
  <2>. QED
    BY <2>1, <2>2, RegisterKeeps, UnregisterKeeps, SetInterestKeeps
<1>6. CASE SelectStep
  BY <1>6, SameTableKeeps DEF SelectStep, JobsHaveSlots
<1>7. CASE UNCHANGED loopVars
  BY <1>7, SameTableKeeps DEF loopVars, JobsHaveSlots
<1>. QED
  BY <1>1, <1>2, <1>3, <1>4, <1>5, <1>6, <1>7 DEF LoopNext

LEMMA TableInvariant == LoopSpec => []TableInv
BY InitEstablishesInv, StepKeepsInv, PTL DEF LoopSpec

-----------------------------------------------------------------------------
\* The whole selector implements the wake-up alone: its handlers and its table
\* take no step that Notify does not have.
THEOREM LoopImplementsNotify == LoopSpec => Spec
<1>1. LoopInit => Init
  BY DEF LoopInit
<1>2. [LoopNext]_loopVars => [Next]_vars
  <2>. SUFFICES ASSUME LoopNext PROVE [Next]_vars
    BY DEF loopVars
  <2>1. ASSUME NEW t \in Thread, ThreadStep(t) PROVE Next
    BY <2>1 DEF ThreadStep, Next
  <2>2. ASSUME NEW t \in Thread, NotifyJob(t) PROVE Next
    BY <2>2 DEF NotifyJob, Next, selector_select, handle_block_notifications
  <2>3. ASSUME NEW t \in Thread, NEW d \in Used, HandlerStartsThread(t, d) PROVE Next
    BY <2>3 DEF HandlerStartsThread, Next
  <2>4. CASE HandleIteration
    BY <2>4 DEF HandleIteration, Next
  <2>5. CASE HandlerCalls
    BY <2>5 DEF HandlerCalls
  <2>6. CASE SelectStep
    BY <2>6 DEF SelectStep, Next, selector_select, handle_block_notifications
  <2>. QED
    BY <2>1, <2>2, <2>3, <2>4, <2>5, <2>6 DEF LoopNext
<1>. QED
  BY <1>1, <1>2, PTL DEF LoopSpec, Spec

\* So that no wake-up is lost in the whole selector either, whatever handlers do
\* to the table between two looks at the list of jobs.
THEOREM LoopLosesNoWakeup == LoopSpec => []NoLostWakeup
BY LoopImplementsNotify, WakeupIsNotLost, PTL

\* The handler of a connection, which is called with the item of the descriptor
\* its thread was started for, is called once for each resolution.
THEOREM LoopPresentsOnce == LoopSpec => PresentedOnce
BY LoopImplementsNotify, ResultPresentedOnce, PTL

\* Handlers called under the mutex, of whatever descriptor, neither release it nor
\* touch the list of jobs.
THEOREM LoopGuardsJobs == LoopSpec => []JobsAreGuarded
BY LoopImplementsNotify, JobsUnderMutex, PTL

-----------------------------------------------------------------------------
\* No access outside the block of items and no bit outside an fd_set, although
\* the test before ensure_capacity is off by one: with room for every descriptor
\* of the platform from the start, growth is never asked for.
THEOREM AccessesStayInside == LoopSpec => []InsideTable
<1>1. TableInv => InsideTable
  <2>. SUFFICES ASSUME TableInv PROVE InsideTable
    OBVIOUS
  <2>1. Slot \subseteq 0..(fd_size - 1)
    BY TableAssumption DEF TableInv, TableTypes, Slot
  <2>2. master_r \cup master_w \subseteq Used
    BY DEF TableInv, SelectSeesEverything
  <2>. QED
    BY <2>1, <2>2 DEF TableInv, TableTypes, InsideTable, Slot
<1>. QED
  BY <1>1, TableInvariant, PTL

\* The selector's table and its jobs have their types too: whatever handlers ask
\* for, max_fd and the descriptor of a job are numbers of slots.
THEOREM LoopTypeCorrect == LoopSpec => []LoopTypeOK
<1>1. TableInv => TableTypeOK /\ fd \in [Thread -> Nat]
  <2>. SUFFICES ASSUME TableInv PROVE TableTypeOK /\ fd \in [Thread -> Nat]
    OBVIOUS
  <2>1. Slot \subseteq Nat /\ FD_SETSIZE + 1 \in Nat
    BY TableAssumption DEF Slot
  <2>2. fd_size \in Nat /\ max_fd \in Nat /\ Used \subseteq Nat /\ touched \subseteq Nat
    BY <2>1 DEF TableInv, TableTypes
  <2>3. master_r \subseteq Used /\ master_w \subseteq Used
    BY DEF TableInv, SelectSeesEverything
  <2>4. \A d \in Used : item[d] \in Interest
    BY DEF TableInv, TableTypes
  <2>5. fd \in [Thread -> Nat]
    BY <2>1 DEF TableInv, JobsHaveSlots
  <2>. QED
    BY <2>2, <2>3, <2>4, <2>5 DEF TableTypeOK
<1>. QED
  BY <1>1, TableInvariant, LoopImplementsNotify, NotifyTypeCorrect, PTL DEF LoopTypeOK

\* pselect waits for exactly what the handlers asked for.
THEOREM PselectSeesEveryInterest == LoopSpec => []SelectSeesEverything
<1>1. TableInv => SelectSeesEverything
  BY DEF TableInv
<1>. QED
  BY <1>1, TableInvariant, PTL
=============================================================================
