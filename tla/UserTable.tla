----------------------------- MODULE UserTable -----------------------------
(***************************************************************************)
(* users/user_mgmt.c: the array of users, how many of its slots are in     *)
(* use, and whether clients must authenticate.  users[0..total_users-1] is *)
(* the sequence t.users, so that total_users is its length; slots behind   *)
(* it are never read before add_user writes them.  Operators have the      *)
(* names of the C functions; one that changes the table returns            *)
(* [table, ret].  Allocation does not fail.                                *)
(***************************************************************************)
EXTENDS Integers, Sequences, Commands

CONSTANT MAX_USERS

ASSUME UsersAssumption == MAX_USERS \in Nat \ {0}

User  == [name : Name, pass : Password]
Table == [users : Seq(User), require_auth : BOOLEAN]

EmptyTable == [users |-> <<>>, require_auth |-> FALSE]

total_users(t) == Len(t.users)

needs_auth(t) == t.require_auth

valid_credentials(u, name, pass) == u.name = name /\ u.pass = pass

\* TRUE where the C function returns 0.
process_authentication_request(t, name, pass) ==
    needs_auth(t) => \E i \in 1..total_users(t) : valid_credentials(t.users[i], name, pass)

Named(t, name) == {i \in 1..total_users(t) : t.users[i].name = name}

\* The first slot with that name; 0 stands for the -1 of the C function.
user_exists_by_username(t, name) ==
    IF Named(t, name) = {} THEN 0
    ELSE CHOOSE i \in Named(t, name) : \A j \in Named(t, name) : i <= j

\* Mutants: the form a plausible bug would give to the definition each is named
\* for.  PROJECT.json says which property refutes it.
WithoutSlot_NoSwap(t, pos) == SubSeq(t.users, 1, total_users(t) - 1)
add_user_NoLookup(t, u) ==
    IF total_users(t) = MAX_USERS THEN [table |-> t, ret |-> "ADD_MAX_USERS"]
    ELSE [table |-> [users |-> Append(t.users, u), require_auth |-> TRUE], ret |-> "ADD_OK"]

\* users[pos] = users[total_users - 1]; total_users--
WithoutSlot(t, pos) ==
    [i \in 1..(total_users(t) - 1) |-> IF i = pos THEN t.users[total_users(t)] ELSE t.users[i]]

remove_user_StillRequired(t, name) ==
    LET pos == user_exists_by_username(t, name)
    IN  IF pos = 0 THEN [table |-> t, ret |-> -1]
        ELSE [table |-> [t EXCEPT !.users = WithoutSlot(t, pos)], ret |-> 0]

remove_user(t, name) ==
    LET pos == user_exists_by_username(t, name)
    IN  IF pos = 0 THEN [table |-> t, ret |-> -1]
        ELSE [table |-> [users |-> WithoutSlot(t, pos),
                         require_auth |-> t.require_auth /\ total_users(t) > 1],
              ret |-> 0]

\* The limit is tested before the name.
add_user(t, u) ==
    IF total_users(t) = MAX_USERS THEN [table |-> t, ret |-> "ADD_MAX_USERS"]
    ELSE IF user_exists_by_username(t, u.name) # 0 THEN [table |-> t, ret |-> "ADD_USER_EXISTS"]
    ELSE [table |-> [users |-> Append(t.users, u), require_auth |-> TRUE], ret |-> "ADD_OK"]

change_password(t, name, new_password) ==
    LET pos == user_exists_by_username(t, name)
    IN  IF pos = 0 THEN [table |-> t, ret |-> -1]
        ELSE [table |-> [t EXCEPT !.users[pos].pass = new_password], ret |-> 0]

-----------------------------------------------------------------------------
(* controlProtocol/cpCommands.c: what a command does and answers.          *)

addProxyUser(t, cmd) ==
    LET r == add_user(t, [name |-> cmd.name, pass |-> cmd.pass])
    IN  [table  |-> r.table,
         answer |-> CASE r.ret = "ADD_OK"          -> "OK"
                      [] r.ret = "ADD_MAX_USERS"   -> "CPERROR_USER_LIMIT"
                      [] r.ret = "ADD_USER_EXISTS" -> "CPERROR_ALREADY_EXISTS"]

AnswerFor(r) ==
    [table |-> r.table, answer |-> IF r.ret < 0 THEN "CPERROR_INEXISTING_USER" ELSE "OK"]

removeProxyUser(t, cmd) == AnswerFor(remove_user(t, cmd.name))
changePassword(t, cmd)  == AnswerFor(change_password(t, cmd.name, cmd.pass))

\* The switch of executeWrite.
Execute(t, cmd) ==
    CASE cmd.op = "CP_ADD_USER"    -> addProxyUser(t, cmd)
      [] cmd.op = "CP_REM_USER"    -> removeProxyUser(t, cmd)
      [] cmd.op = "CP_CHANGE_PASS" -> changePassword(t, cmd)
      [] cmd.op = "malformed"      -> [table |-> t, answer |-> "CPERROR_INVALID_FORMAT"]
      [] cmd.op = "query"          -> [table |-> t, answer |-> "DATA"]
      [] OTHER                     -> [table |-> t, answer |-> "OK"]

\* set_sniffer_state, by the two commands that switch the dissector.
switchPassDissectors(on, cmd) ==
    CASE cmd.op = "CP_DISSECTOR_ON"  -> TRUE
      [] cmd.op = "CP_DISSECTOR_OFF" -> FALSE
      [] OTHER                       -> on
=============================================================================
