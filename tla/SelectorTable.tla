---------------------------- MODULE SelectorTable ----------------------------
(***************************************************************************)
(* The table of items of selector.c: one slot for each descriptor, the     *)
(* prototypes of the sets that pselect gets, and max_fd, up to which       *)
(* pselect and handle_iteration look.                                      *)
(*                                                                         *)
(* An item is here the interest of a used slot; handler and data follow    *)
(* it.  Slots out of use are not in DOMAIN item.  Memory is always found.  *)
(***************************************************************************)
EXTENDS Integers

CONSTANTS
    FD_SETSIZE,     \* ITEMS_MAX_SIZE
    INITIAL_N,      \* what main.c asks selector_new for
    Fd,             \* descriptors the kernel may hand out
    Listeners       \* those start_server opens

Interest == SUBSET {"OP_READ", "OP_WRITE"}

VARIABLES
    fd_size,    \* slots allocated
    item,       \* per slot in use: its interest
    max_fd,
    master_r, master_w,
    touched     \* ghost: the slots the last call looked at

tableVars == <<fd_size, item, max_fd, master_r, master_w, touched>>

Used == DOMAIN item

\* Mutants: the form a plausible bug would give to the definition each is named
\* for.  PROJECT.json says which property refutes it.
INVALID_FD_Inclusive(d) == d < 0 \/ d > FD_SETSIZE

items_max_fd_Exclusive(table, m) ==
    LET scanned == {d \in DOMAIN table : d < max_fd}
    IN m \in scanned \cup {0} /\ \A d \in scanned : d <= m

items_max_fd_NoneIsMinusOne(table, m) ==
    LET scanned == {d \in DOMAIN table : d <= max_fd}
    IN m \in scanned \cup {-1} /\ \A d \in scanned : d <= m

\* The least power of two above n, at most what the platform has, and one more.
next_capacity(n) ==
    LET tmp == 2 ^ (CHOOSE b \in 0..n : n < 2 ^ b /\ (b = 0 \/ 2 ^ (b - 1) <= n))
    IN (IF tmp > FD_SETSIZE THEN FD_SETSIZE ELSE tmp) + 1

\* m is what items_max_fd returns for a table scanned up to max_fd.
items_max_fd(table, m) ==
    LET scanned == {d \in DOMAIN table : d <= max_fd}
    IN m \in scanned \cup {0} /\ \A d \in scanned : d <= m

INVALID_FD(d) == d < 0 \/ d >= FD_SETSIZE

\* items_update_fdset_for_fd, for a slot in use with interest i, or for one that
\* unregister has just cleared, with OP_NOOP.
items_update_fdset_for_fd(d, i) ==
    /\ master_r' = IF "OP_READ" \in i THEN master_r \cup {d} ELSE master_r \ {d}
    /\ master_w' = IF "OP_WRITE" \in i THEN master_w \cup {d} ELSE master_w \ {d}

\* The numbers of the program: selector_new(1023) allocates every slot the
\* platform can use, and one more.
ASSUME TableAssumption ==
    /\ FD_SETSIZE \in Nat /\ FD_SETSIZE > 0
    /\ next_capacity(INITIAL_N) = FD_SETSIZE + 1
    /\ Fd \subseteq Int
    /\ Listeners \subseteq 0..(FD_SETSIZE - 1)

\* selector_new, and as many listeners as could be started.
TableInit ==
    /\ fd_size = next_capacity(INITIAL_N)
    /\ \E started \in SUBSET Listeners :
         /\ item = [d \in started |-> {"OP_READ"}]
         /\ master_r = started
         /\ max_fd \in started \cup {0} /\ \A d \in started : d <= max_fd
    /\ master_w = {}
    /\ touched = {}

-----------------------------------------------------------------------------
(* A call that an argument makes fail changes nothing. *)
Refused(d) == INVALID_FD(d) /\ touched' = {} /\ UNCHANGED <<fd_size, item, max_fd, master_r, master_w>>

\* The slot d has not the state the call needs.
WrongState(d) == touched' = {d} /\ UNCHANGED <<item, max_fd, master_r, master_w>>

\* ensure_capacity is asked only when the descriptor is greater than the size.
ensure_capacity(d) == fd_size' = IF d > fd_size THEN next_capacity(d) ELSE fd_size

selector_register(d, i) ==
    \/ Refused(d)
    \/ /\ ~INVALID_FD(d)
       /\ ensure_capacity(d)
       /\ \/ d \in Used /\ WrongState(d)
          \/ /\ d \notin Used
             /\ touched' = {d}
             /\ item' = [e \in Used \cup {d} |-> IF e = d THEN i ELSE item[e]]
             /\ max_fd' = IF d > max_fd THEN d ELSE max_fd
             /\ items_update_fdset_for_fd(d, i)

selector_unregister_fd(d) ==
    \/ Refused(d)
    \/ /\ ~INVALID_FD(d)
       /\ \/ d \notin Used /\ WrongState(d)
          \/ /\ d \in Used
             /\ touched' = {d}
             /\ item' = [e \in Used \ {d} |-> item[e]]
             /\ items_max_fd(item', max_fd')
             /\ items_update_fdset_for_fd(d, {})
       /\ UNCHANGED fd_size

selector_set_interest(d, i) ==
    \/ Refused(d)
    \/ /\ ~INVALID_FD(d)
       /\ \/ d \notin Used /\ WrongState(d)
          \/ /\ d \in Used
             /\ touched' = {d}
             /\ item' = [item EXCEPT ![d] = i]
             /\ items_update_fdset_for_fd(d, i)
             /\ UNCHANGED max_fd
       /\ UNCHANGED fd_size

\* What handlers may ask for, with a number that is theirs, stale, or the 0 of a
\* structure that was cleared.
TableCall ==
    \E d \in Fd :
        \/ selector_unregister_fd(d)
        \/ \E i \in Interest : selector_register(d, i) \/ selector_set_interest(d, i)

\* The loops over 0..max_fd and the look at the slot of a job.
LookAt(d) == touched' = {d} /\ UNCHANGED <<fd_size, item, max_fd, master_r, master_w>>

-----------------------------------------------------------------------------
(* Properties. *)

TableTypeOK ==
    /\ fd_size \in Nat /\ max_fd \in Nat
    /\ Used \subseteq Nat /\ \A d \in Used : item[d] \in Interest
    /\ master_r \cup master_w \cup touched \subseteq Nat

\* No slot is looked at that was not allocated, although selector_register asks
\* for room only when the descriptor is greater than the size, and no bit is
\* kept that fd_set has no room for.
InsideTable ==
    /\ touched \subseteq 0..(fd_size - 1)
    /\ Used \subseteq 0..(fd_size - 1)
    /\ master_r \cup master_w \subseteq 0..(FD_SETSIZE - 1)

\* pselect is given every interest and no other: its sets are those of the items
\* and reach up to the largest descriptor in use.
SelectSeesEverything ==
    /\ master_r = {d \in Used : "OP_READ" \in item[d]}
    /\ master_w = {d \in Used : "OP_WRITE" \in item[d]}
    /\ max_fd \in Used \cup {0}
    /\ \A d \in Used : d <= max_fd
=============================================================================
