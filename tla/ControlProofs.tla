--------------------------- MODULE ControlProofs ---------------------------
(***************************************************************************)
(* Theorems about ControlConn, for every set of names and passwords, every *)
(* limit and every command of other connections: the table of users stays  *)
(* a directory, the handlers never meet a state they are not written for,  *)
(* replies are waited for, and the connection implements ControlService.   *)
(***************************************************************************)
EXTENDS ControlConn, FiniteSetTheorems, SequenceTheorems, TLAPS

-----------------------------------------------------------------------------
(* What the pointer operations of buffer.c preserve and return, as in      *)
(* RelayProofs.                                                            *)

\* Receiving at most the free space keeps R <= W <= limit, which is what the
\* assertion of buffer_write_adv asks, and adds exactly n pending bytes.
LEMMA WriteAdvKeepsBuffer ==
    ASSUME NEW b \in Pointers, WellFormed(b), Compacted(b), NEW n \in 0..WriteSpace(b)
    PROVE  /\ buffer_write_adv(b, n) \in Pointers
           /\ Compacted(buffer_write_adv(b, n))
           /\ WellFormed(buffer_write_adv(b, n))
           /\ Pending(buffer_write_adv(b, n)) = Pending(b) + n
           /\ n > 0 => buffer_can_read(buffer_write_adv(b, n))
BY LimitAssumption
   DEF Pointers, WellFormed, Compacted, WriteSpace, Pending, buffer_write_adv, buffer_can_read

\* Sending at most the pending bytes keeps R <= W <= limit, removes exactly n
\* of them, and leaves all the space free when none is left.
LEMMA ReadAdvKeepsBuffer ==
    ASSUME NEW b \in Pointers, WellFormed(b), NEW n \in 0..Pending(b)
    PROVE  /\ buffer_read_adv(b, n) \in Pointers
           /\ Compacted(buffer_read_adv(b, n))
           /\ WellFormed(buffer_read_adv(b, n))
           /\ Pending(buffer_read_adv(b, n)) = Pending(b) - n
           /\ buffer_can_read(buffer_read_adv(b, n)) <=> n # Pending(b)
           /\ n = Pending(b) => WriteSpace(buffer_read_adv(b, n)) = Limit
<1> DEFINE c == [b EXCEPT !.read = @ + n]
<1>1. c = [read |-> b.read + n, write |-> b.write]
  BY DEF Pointers
<1>2. CASE c.read = c.write
  <2>1. buffer_read_adv(b, n) = [read |-> 0, write |-> 0]
    BY <1>1, <1>2 DEF buffer_read_adv, buffer_compact, Pointers
  <2>2. n = Pending(b)
    BY <1>1, <1>2 DEF Pointers, Pending
  <2> QED BY <2>1, <2>2, LimitAssumption
          DEF Pointers, WellFormed, Compacted, WriteSpace, Pending, buffer_can_read
<1>3. CASE c.read # c.write
  <2>1. buffer_read_adv(b, n) = c
    BY <1>3 DEF buffer_read_adv
  <2> QED BY <2>1, <1>1, <1>3, LimitAssumption
          DEF Pointers, WellFormed, Compacted, WriteSpace, Pending, buffer_can_read
<1> QED BY <1>2, <1>3

-----------------------------------------------------------------------------
(* The table of users. *)

GoodTable(t) ==
    /\ t \in Table
    /\ Len(t.users) <= MAX_USERS
    /\ \A i, j \in 1..Len(t.users) : t.users[i].name = t.users[j].name => i = j
    /\ t.require_auth <=> Len(t.users) > 0

(* user_exists_by_username finds the only slot with a name, or 0.          *)
LEMMA Lookup ==
    ASSUME NEW t, GoodTable(t), NEW name
    PROVE  LET pos == user_exists_by_username(t, name)
           IN  \/ pos = 0 /\ Named(t, name) = {}
               \/ pos \in 1..Len(t.users) /\ Named(t, name) = {pos}
PROOF
<1>1. CASE Named(t, name) = {}
  BY <1>1 DEF user_exists_by_username
<1>2. CASE Named(t, name) # {}
  <2>1. PICK i \in Named(t, name) : TRUE
    BY <1>2
  <2>2. i \in 1..Len(t.users)
    BY <2>1 DEF Named, total_users
  <2>3. Named(t, name) = {i}
    BY <2>1 DEF Named, total_users, GoodTable
  <2>4. i <= i
    BY <2>2
  <2>5. (CHOOSE k \in Named(t, name) : \A j \in Named(t, name) : k <= j) = i
    BY <2>3, <2>4
  <2>. QED
    BY <2>2, <2>3, <2>5, <1>2 DEF user_exists_by_username
<1>. QED
  BY <1>1, <1>2

(* What makes a good table of a sequence of users.                         *)
LEMMA TableOf ==
    ASSUME NEW s \in Seq(User), NEW b \in BOOLEAN,
           Len(s) <= MAX_USERS, b <=> Len(s) > 0,
           \A i, j \in 1..Len(s) : s[i].name = s[j].name => i = j
    PROVE  GoodTable([users |-> s, require_auth |-> b])
PROOF
  BY DEF GoodTable, Table

(* add_user keeps names distinct and the table within MAX_USERS.           *)
LEMMA AddKeepsTable ==
    ASSUME NEW t, GoodTable(t), NEW u \in User
    PROVE  GoodTable(add_user(t, u).table)
PROOF
<1>. DEFINE r == add_user(t, u)
            s == Append(t.users, u)
<1>1. CASE Len(t.users) = MAX_USERS \/ user_exists_by_username(t, u.name) # 0
  BY <1>1 DEF add_user, total_users
<1>2. CASE Len(t.users) # MAX_USERS /\ user_exists_by_username(t, u.name) = 0
  <2>1. r.table = [users |-> s, require_auth |-> TRUE]
    BY <1>2 DEF add_user, total_users
  <2>2. t.users \in Seq(User) /\ Len(t.users) \in Nat /\ Len(t.users) <= MAX_USERS
    BY DEF GoodTable, Table
  <2>3. s \in Seq(User) /\ Len(s) = Len(t.users) + 1 /\ s[Len(s)] = u
        /\ \A i \in 1..Len(t.users) : s[i] = t.users[i]
    BY <2>2
  <2>4. \A i \in 1..Len(t.users) : t.users[i].name # u.name
    BY <1>2, Lookup DEF Named, total_users
  <2>5. ASSUME NEW i \in 1..Len(s), NEW j \in 1..Len(s), s[i].name = s[j].name
        PROVE  i = j
    <3>1. CASE i = Len(s) \/ j = Len(s)
      BY <2>2, <2>3, <2>4, <2>5, <3>1
    <3>2. CASE i # Len(s) /\ j # Len(s)
      <4>1. i \in 1..Len(t.users) /\ j \in 1..Len(t.users)
        BY <2>2, <2>3, <3>2
      <4>. QED
        BY <4>1, <2>3, <2>5 DEF GoodTable
    <3>. QED
      BY <3>1, <3>2
  <2>6. Len(s) <= MAX_USERS /\ Len(s) > 0
    BY <1>2, <2>2, <2>3, UsersAssumption
  <2>. QED
    BY <2>1, <2>3, <2>5, <2>6, TableOf
<1>. QED
  BY <1>1, <1>2

(* Swapping the last user into the slot of the removed one leaves every    *)
(* other user, once.                                                       *)
LEMMA RemoveKeepsTable ==
    ASSUME NEW t, GoodTable(t), NEW name
    PROVE  GoodTable(remove_user(t, name).table)
PROOF
<1>. DEFINE pos == user_exists_by_username(t, name)
            n   == Len(t.users)
            s   == WithoutSlot(t, pos)
<1>1. CASE pos = 0
  BY <1>1 DEF remove_user
<1>2. CASE pos # 0
  <2>1. pos \in 1..n
    BY <1>2, Lookup
  <2>2. t.users \in Seq(User) /\ n \in Nat /\ n > 0 /\ n <= MAX_USERS
    BY <2>1 DEF GoodTable, Table
  <2>3. remove_user(t, name).table =
          [users |-> s, require_auth |-> t.require_auth /\ n > 1]
    BY <1>2 DEF remove_user, total_users
  <2>4. s = [i \in 1..(n - 1) |-> IF i = pos THEN t.users[n] ELSE t.users[i]]
    BY DEF WithoutSlot, total_users
  <2>5. s \in Seq(User) /\ Len(s) = n - 1
    BY <2>2, <2>4
  <2>6. \A i, j \in 1..(n - 1) : s[i].name = s[j].name => i = j
    <3>. SUFFICES ASSUME NEW i \in 1..(n - 1), NEW j \in 1..(n - 1), s[i].name = s[j].name
                  PROVE  i = j
      OBVIOUS
    <3>1. i \in 1..n /\ j \in 1..n /\ n \in 1..n /\ i # n /\ j # n
      BY <2>2
    <3>. QED
      BY <3>1, <2>4 DEF GoodTable
  <2>7. t.require_auth = TRUE
    BY <2>2 DEF GoodTable, Table
  <2>8. (n > 1) \in BOOLEAN /\ (n > 1 <=> Len(s) > 0) /\ Len(s) <= MAX_USERS
    BY <2>2, <2>5, UsersAssumption
  <2>9. (t.require_auth /\ n > 1) = (n > 1)
    BY <2>7
  <2>. HIDE DEF s
  <2>10. GoodTable([users |-> s, require_auth |-> (n > 1)])
    BY <2>5, <2>6, <2>8, TableOf
  <2>. QED
    BY <2>3, <2>9, <2>10
<1>. QED
  BY <1>1, <1>2

(* change_password touches no name.                                        *)
LEMMA ChangeKeepsTable ==
    ASSUME NEW t, GoodTable(t), NEW name, NEW p \in Password
    PROVE  GoodTable(change_password(t, name, p).table)
PROOF
<1>. DEFINE pos == user_exists_by_username(t, name)
            s   == [t.users EXCEPT ![pos].pass = p]
<1>1. CASE pos = 0
  BY <1>1 DEF change_password
<1>2. CASE pos # 0
  <2>1. pos \in 1..Len(t.users)
    BY <1>2, Lookup
  <2>2. t.users \in Seq(User)
    BY DEF GoodTable, Table
  <2>3. change_password(t, name, p).table = [t EXCEPT !.users = s]
    BY <1>2 DEF change_password
  <2>4. t.users[pos] \in User
    BY <2>1, <2>2
  <2>5. [t.users[pos] EXCEPT !.pass = p] \in User
        /\ [t.users[pos] EXCEPT !.pass = p].name = t.users[pos].name
    BY <2>4 DEF User
  <2>6. s \in Seq(User) /\ Len(s) = Len(t.users)
        /\ \A i \in 1..Len(t.users) : s[i].name = t.users[i].name
    BY <2>1, <2>2, <2>5
  <2>. QED
    BY <2>3, <2>6 DEF GoodTable, Table
<1>. QED
  BY <1>1, <1>2

(* No command leads out of the good tables.                                *)
LEMMA CommandKeepsTable ==
    ASSUME NEW t, GoodTable(t), NEW cmd \in Command
    PROVE  GoodTable(Execute(t, cmd).table)
PROOF
<1>1. CASE cmd.op = "CP_ADD_USER"
  <2>1. [name |-> cmd.name, pass |-> cmd.pass] \in User
    BY <1>1 DEF Command, User
  <2>. QED
    BY <1>1, <2>1, AddKeepsTable DEF Execute, addProxyUser
<1>2. CASE cmd.op = "CP_REM_USER"
  BY <1>2, RemoveKeepsTable DEF Execute, removeProxyUser, AnswerFor
<1>3. CASE cmd.op = "CP_CHANGE_PASS"
  <2>1. cmd.pass \in Password
    BY <1>3 DEF Command
  <2>. QED
    BY <1>3, <2>1, ChangeKeepsTable DEF Execute, changePassword, AnswerFor
<1>4. CASE cmd.op \in {"query", "CP_DISSECTOR_ON", "CP_DISSECTOR_OFF", "malformed"}
  BY <1>4 DEF Execute
<1>. QED
  BY <1>1, <1>2, <1>3, <1>4 DEF Command

-----------------------------------------------------------------------------
(* The connection.  ConnOK is the part of the invariant that is about the  *)
(* controlProtConn; a handler keeps it before anything is sent.            *)

Buffers(c) ==
    /\ WellFormed(c.writeBuffer) /\ Compacted(c.writeBuffer)
    /\ WellFormed(c.readBuffer)  /\ Compacted(c.readBuffer)

HasHandler(c) == c.state # "CP_OK" /\ (c.state = "CP_HELLO" => c.interest = OP_WRITE)

HasCommand(c) ==
    c.state = "CP_EXECUTE" /\ c.interest = OP_WRITE
        => c.command # NoCommand \/ c.execAnsWritten

Scheduled(c) ==
    buffer_can_read(c.writeBuffer)
        => \/ c.interest = OP_WRITE
           \/ c.state \in {"CP_AUTH", "CP_ERROR"} /\ ~c.validPassword

ConnOK(c) == c \in Conns /\ Buffers(c) /\ HasHandler(c) /\ HasCommand(c) /\ Scheduled(c)

(* A fresh connection is in order.                                         *)
LEMMA NewConnOK == ConnOK(newControlProtConn)
PROOF
  BY LimitAssumption
     DEF newControlProtConn, ConnOK, Conns, CpStates, Buffers, HasHandler, HasCommand,
         Scheduled, buffer_reset, Pointers, WellFormed, Compacted, buffer_can_read,
         OP_READ, OP_WRITE

(* What fits into the write buffer leaves it well formed and not empty.    *)
LEMMA Written ==
    ASSUME NEW c, ConnOK(c), NEW n \in {1, 2}, n <= WriteSpace(c.writeBuffer)
    PROVE  LET b == buffer_write_adv(c.writeBuffer, n)
           IN  b \in Pointers /\ WellFormed(b) /\ Compacted(b) /\ buffer_can_read(b)
PROOF
<1>1. c.writeBuffer \in Pointers /\ WellFormed(c.writeBuffer) /\ Compacted(c.writeBuffer)
  BY DEF ConnOK, Conns, Buffers
<1>2. n \in 0..WriteSpace(c.writeBuffer) /\ n > 0
  BY <1>1, LimitAssumption DEF WriteSpace, Pointers
<1>. QED
  BY <1>1, <1>2, WriteAdvKeepsBuffer

LEMMA HelloKeeps ==
    ASSUME NEW c, ConnOK(c), c.state = "CP_HELLO", c.interest = OP_WRITE
    PROVE  ConnOK(helloWrite(c)) /\ helloWrite(c).readBuffer = c.readBuffer
PROOF
<1>1. CASE c.helloWritten
  BY <1>1 DEF helloWrite, ConnOK, Conns, CpStates, Buffers, HasHandler, HasCommand,
              Scheduled, OP_READ, OP_WRITE
<1>2. CASE ~c.helloWritten /\ HelloSize > WriteSpace(c.writeBuffer)
  BY <1>2 DEF helloWrite, ConnOK, Conns, CpStates, Buffers, HasHandler, HasCommand,
              Scheduled, OP_READ, OP_WRITE
<1>3. CASE ~c.helloWritten /\ ~(HelloSize > WriteSpace(c.writeBuffer))
  <2>. DEFINE b == buffer_write_adv(c.writeBuffer, HelloSize)
  <2>1. HelloSize <= WriteSpace(c.writeBuffer)
    BY <1>3, LimitAssumption DEF HelloSize, ConnOK, Conns, WriteSpace, Pointers
  <2>2. b \in Pointers /\ WellFormed(b) /\ Compacted(b) /\ buffer_can_read(b)
    BY <2>1, Written DEF HelloSize
  <2>3. helloWrite(c) = [c EXCEPT !.writeBuffer = b, !.helloWritten = TRUE]
    BY <1>3 DEF helloWrite
  <2>. HIDE DEF b
  <2>. QED
    BY <2>2, <2>3 DEF ConnOK, Conns, Buffers, HasHandler, HasCommand, Scheduled
<1>. QED
  BY <1>1, <1>2, <1>3

LEMMA AuthKeeps ==
    ASSUME NEW c, ConnOK(c), c.state = "CP_AUTH", c.interest = OP_WRITE
    PROVE  ConnOK(authWrite(c)) /\ authWrite(c).readBuffer = c.readBuffer
PROOF
<1>1. CASE c.authAnsWritten \/ ~AnswersAuth(c)
  BY <1>1 DEF authWrite, AnswersAuth, ConnOK, Conns, CpStates, Buffers, HasHandler,
              HasCommand, Scheduled, OP_READ, OP_WRITE
<1>2. CASE ~c.authAnsWritten /\ AnswersAuth(c)
  <2>. DEFINE n == AuthSize
              b == buffer_write_adv(c.writeBuffer, n)
  <2>1. n \in {1, 2} /\ n <= WriteSpace(c.writeBuffer)
    BY <1>2 DEF AuthSize, AnswersAuth
  <2>2. b \in Pointers /\ WellFormed(b) /\ Compacted(b) /\ buffer_can_read(b)
    BY <2>1, Written
  <2>3. authWrite(c) = [c EXCEPT !.writeBuffer = b, !.authAnsWritten = c.validPassword,
                                 !.interest = IF c.validPassword THEN c.interest ELSE OP_READ]
    BY <1>2 DEF authWrite, AnswerAuth
  <2>. HIDE DEF b
  <2>. QED
    BY <2>2, <2>3 DEF ConnOK, Conns, Buffers, HasHandler, HasCommand, Scheduled
<1>. QED
  BY <1>1, <1>2

(* Every command has an answer, which is not the missing one.              *)
LEMMA AnswerOfCommand ==
    ASSUME NEW t, NEW cmd \in Command
    PROVE  Execute(t, cmd).answer \in Answers
PROOF
<1>1. CASE cmd.op = "CP_ADD_USER"
  <2>. DEFINE u == [name |-> cmd.name, pass |-> cmd.pass]
  <2>1. add_user(t, u).ret \in {"ADD_OK", "ADD_MAX_USERS", "ADD_USER_EXISTS"}
    BY DEF add_user
  <2>. QED
    BY <1>1, <2>1 DEF Execute, addProxyUser, Answers
<1>2. CASE cmd.op # "CP_ADD_USER"
  BY <1>2 DEF Execute, removeProxyUser, changePassword, AnswerFor, Answers
<1>. QED
  BY <1>1, <1>2

LEMMA NoCommandIsNone == NoCommand \notin Command
PROOF
  BY DEF NoCommand, Command

(* The answer is written whole or not at all.                              *)
LEMMA ExecAnswerKeeps ==
    ASSUME NEW c, ConnOK(c), c.state = "CP_EXECUTE", c.interest = OP_WRITE
    PROVE  ConnOK(WriteExecAnswer(c)) /\ WriteExecAnswer(c).readBuffer = c.readBuffer
PROOF
<1>. DEFINE n == AnswerSize(c.execAnswer)
            b == buffer_write_adv(c.writeBuffer, n)
<1>1. CASE n > WriteSpace(c.writeBuffer)
  BY <1>1 DEF WriteExecAnswer
<1>2. CASE ~(n > WriteSpace(c.writeBuffer))
  <2>1. n \in {1, 2} /\ n <= WriteSpace(c.writeBuffer)
    BY <1>2, LimitAssumption DEF AnswerSize, ConnOK, Conns, WriteSpace, Pointers
  <2>2. b \in Pointers /\ WellFormed(b) /\ Compacted(b) /\ buffer_can_read(b)
    BY <2>1, Written
  <2>3. WriteExecAnswer(c) = [c EXCEPT !.writeBuffer = b, !.execAnsWritten = TRUE,
                                       !.command = NoCommand]
    BY <1>2 DEF WriteExecAnswer
  <2>. HIDE DEF b
  <2>. QED
    BY <2>2, <2>3 DEF ConnOK, Conns, Buffers, HasHandler, HasCommand, Scheduled
<1>. QED
  BY <1>1, <1>2

LEMMA ExecuteKeeps ==
    ASSUME NEW c, ConnOK(c), c.state = "CP_EXECUTE", c.interest = OP_WRITE
    PROVE  ConnOK(executeWrite(c)) /\ executeWrite(c).readBuffer = c.readBuffer
PROOF
<1>1. CASE c.execAnsWritten
  BY <1>1 DEF executeWrite, ConnOK, Conns, CpStates, Buffers, HasHandler, HasCommand,
              Scheduled, OP_READ, OP_WRITE
<1>2. CASE ~c.execAnsWritten /\ Executes(c)
  <2>. DEFINE a == Execute(table, c.command).answer
              d == [c EXCEPT !.execAnswer = a]
  <2>1. c.command \in Command
    BY <1>2 DEF Executes, ConnOK, Conns
  <2>2. a \in Answers
    BY <2>1, AnswerOfCommand
  <2>3. ConnOK(d) /\ d.state = "CP_EXECUTE" /\ d.interest = OP_WRITE
        /\ d.readBuffer = c.readBuffer
    <3>. HIDE DEF a
    <3>. QED
      BY <2>2 DEF ConnOK, Conns, Buffers, HasHandler, HasCommand, Scheduled
  <2>4. executeWrite(c) = WriteExecAnswer(d)
    BY <1>2 DEF executeWrite
  <2>. HIDE DEF d
  <2>. QED
    BY <2>3, <2>4, ExecAnswerKeeps
<1>3. CASE ~c.execAnsWritten /\ ~Executes(c)
  <2>1. c.execAnswer # NoAnswer
    BY <1>3 DEF Executes, ConnOK, HasCommand
  <2>2. executeWrite(c) = WriteExecAnswer(c)
    BY <1>3, <2>1 DEF executeWrite
  <2>. QED
    BY <2>2, ExecAnswerKeeps
<1>. QED
  BY <1>1, <1>2, <1>3

(* Whatever state a write event finds, its handler keeps the connection in *)
(* order, and there is one.                                                *)
LEMMA WriteKeeps ==
    ASSUME NEW c, ConnOK(c), c.interest = OP_WRITE, c.state # "CP_ERROR"
    PROVE  ConnOK(stm_handler_write(c)) /\ stm_handler_write(c).readBuffer = c.readBuffer
PROOF
<1>1. c.state \in {"CP_HELLO", "CP_AUTH", "CP_EXECUTE"}
  BY DEF ConnOK, HasHandler, Conns, CpStates
<1>2. CASE c.state = "CP_HELLO"
  BY <1>2, HelloKeeps DEF stm_handler_write
<1>3. CASE c.state = "CP_AUTH"
  BY <1>3, AuthKeeps DEF stm_handler_write
<1>4. CASE c.state = "CP_EXECUTE"
  BY <1>4, ExecuteKeeps DEF stm_handler_write
<1>. QED
  BY <1>1, <1>2, <1>3, <1>4

(* An answer that has just been written is not the missing one.            *)
LEMMA WrittenIsAnswer ==
    ASSUME NEW c, ConnOK(c), c.interest = OP_WRITE, c.state # "CP_ERROR",
           stm_handler_write(c).execAnsWritten, ~c.execAnsWritten
    PROVE  stm_handler_write(c).execAnswer \in Answers
PROOF
<1>. DEFINE d == stm_handler_write(c)
<1>1. c \in Conns
  BY DEF ConnOK
<1>2. c.state = "CP_EXECUTE"
  <2>1. c.state \in {"CP_HELLO", "CP_AUTH", "CP_EXECUTE"}
    BY DEF ConnOK, HasHandler, Conns, CpStates
  <2>2. c.state # "CP_HELLO"
    BY <1>1 DEF stm_handler_write, helloWrite, Conns
  <2>3. c.state # "CP_AUTH"
    BY <1>1 DEF stm_handler_write, authWrite, AnswerAuth, Conns
  <2>. QED
    BY <2>1, <2>2, <2>3
<1>3. d = executeWrite(c)
  BY <1>2 DEF stm_handler_write
<1>4. CASE Executes(c)
  <2>. DEFINE a == Execute(table, c.command).answer
  <2>1. a \in Answers
    BY <1>1, <1>4, AnswerOfCommand DEF Executes, Conns
  <2>2. d = WriteExecAnswer([c EXCEPT !.execAnswer = a])
    BY <1>3, <1>4 DEF executeWrite
  <2>. HIDE DEF a, d
  <2>3. d.execAnswer = a
    BY <1>1, <2>2 DEF WriteExecAnswer, Conns
  <2>. QED
    BY <2>1, <2>3 DEF d
<1>5. CASE ~Executes(c)
  <2>1. c.execAnswer # NoAnswer
    BY <1>2, <1>5 DEF Executes, ConnOK, HasCommand
  <2>2. d.execAnswer = c.execAnswer
    BY <1>1, <1>3, <1>5, <2>1 DEF executeWrite, WriteExecAnswer, Conns
  <2>. QED
    BY <1>1, <2>1, <2>2 DEF Conns
<1>. QED
  BY <1>4, <1>5

(* So does sending some of what is pending.                                *)
LEMMA SendKeeps ==
    ASSUME NEW c, ConnOK(c), NEW n \in 1..Pending(c.writeBuffer)
    PROVE  LET d == [c EXCEPT !.writeBuffer = buffer_read_adv(@, n)]
           IN  ConnOK(d) /\ d.readBuffer = c.readBuffer
PROOF
<1>. DEFINE b == buffer_read_adv(c.writeBuffer, n)
<1>1. c.writeBuffer \in Pointers /\ WellFormed(c.writeBuffer)
  BY DEF ConnOK, Conns, Buffers
<1>2. n \in 0..Pending(c.writeBuffer) /\ Pending(c.writeBuffer) > 0
  BY <1>1, LimitAssumption DEF Pending, Pointers
<1>3. b \in Pointers /\ WellFormed(b) /\ Compacted(b)
  BY <1>1, <1>2, ReadAdvKeepsBuffer
<1>4. buffer_can_read(c.writeBuffer)
  BY <1>2 DEF Pending, buffer_can_read
<1>. HIDE DEF b
<1>5. [c EXCEPT !.writeBuffer = buffer_read_adv(@, n)] = [c EXCEPT !.writeBuffer = b]
  BY DEF b
<1>. QED
  BY <1>3, <1>4, <1>5 DEF ConnOK, Conns, Buffers, HasHandler, HasCommand, Scheduled

(* A parser stops behind the first piece that is not a part.               *)
LEMMA FirstStop ==
    ASSUME NEW q \in Seq(Pieces), Stops(q) # {}
    PROVE  Consumed(q) \in Stops(q) /\ \A j \in Stops(q) : Consumed(q) <= j
PROOF
<1>1. Stops(q) \subseteq Nat
  <2>1. Len(q) \in Nat
    OBVIOUS
  <2>. QED
    BY <2>1 DEF Stops
<1>2. \E i \in Stops(q) : \A j \in Stops(q) : ~(<<j, i>> \in OpToRel(<, Nat))
  BY <1>1, NatLessThanWellFounded, WFMin
<1>3. PICK i \in Stops(q) : \A j \in Stops(q) : ~(<<j, i>> \in OpToRel(<, Nat))
  BY <1>2
<1>4. \A j \in Stops(q) : ~(j < i)
  BY <1>1, <1>3, Zenon DEF OpToRel
<1>5. \A j \in Stops(q) : i <= j
  BY <1>1, <1>4
<1>. QED
  BY <1>5 DEF Consumed

(* It consumes no more than there is, and its verdict is a piece.          *)
LEMMA ParserStops ==
    ASSUME NEW q \in Seq(Pieces)
    PROVE  Consumed(q) \in 0..Len(q) /\ Verdict(q) \in Pieces
PROOF
<1>1. Len(q) \in Nat
  OBVIOUS
<1>2. CASE Stops(q) = {}
  BY <1>1, <1>2 DEF Consumed, Verdict, Pieces
<1>3. CASE Stops(q) # {}
  <2>1. Consumed(q) \in 1..Len(q)
    BY <1>3, FirstStop DEF Stops
  <2>. QED
    BY <1>1, <1>3, <2>1 DEF Verdict
<1>. QED
  BY <1>2, <1>3

(* Parsing frees what was consumed and leaves the rest in order.           *)
LEMMA ParsedKeeps ==
    ASSUME NEW c, ConnOK(c), NEW q \in Seq(Pieces), Len(q) = Pending(c.readBuffer)
    PROVE  LET b == buffer_read_adv(c.readBuffer, Consumed(q))
           IN  /\ b \in Pointers /\ WellFormed(b) /\ Compacted(b)
               /\ Pending(b) = Len(q) - Consumed(q)
PROOF
<1>1. c.readBuffer \in Pointers /\ WellFormed(c.readBuffer)
  BY DEF ConnOK, Conns, Buffers
<1>2. Consumed(q) \in 0..Pending(c.readBuffer)
  BY ParserStops
<1>. QED
  BY <1>1, <1>2, ReadAdvKeepsBuffer

(* Whatever state a read event finds, there is a handler, and whatever the *)
(* parser finds it keeps the connection in order: the handler of           *)
(* CP_EXECUTE only reads when the last answer has been sent.               *)
LEMMA ReadKeeps ==
    ASSUME NEW c, ConnOK(c), c.interest = OP_READ, c.state # "CP_ERROR",
           NEW q \in Seq(Pieces), Len(q) = Pending(c.readBuffer),
           NEW d \in stm_handler_read(c, q)
    PROVE  ConnOK(d) /\ Pending(d.readBuffer) = Len(q) - Consumed(q)
PROOF
<1>. DEFINE b == buffer_read_adv(c.readBuffer, Consumed(q))
<1>1. /\ b \in Pointers /\ WellFormed(b) /\ Compacted(b)
      /\ Pending(b) = Len(q) - Consumed(q)
  BY ParsedKeeps
<1>2. Verdict(q) \in Pieces
  BY ParserStops
<1>3. Parsed(c, q) = [c EXCEPT !.readBuffer = b]
  BY DEF Parsed
<1>. HIDE DEF b
<1>4. c.state \in {"CP_AUTH", "CP_EXECUTE"}
  BY DEF ConnOK, HasHandler, Conns, CpStates, OP_READ, OP_WRITE
<1>5. CASE c.state = "CP_AUTH"
  <2>1. d \in authRead(c, q)
    BY <1>5 DEF stm_handler_read
  <2>2. CASE Verdict(q) = "part"
    <3>1. d = [c EXCEPT !.readBuffer = b]
      BY <1>3, <2>1, <2>2 DEF authRead
    <3>. QED
      BY <1>1, <3>1 DEF ConnOK, Conns, Buffers, HasHandler, HasCommand, Scheduled
  <2>3. CASE Verdict(q) = "bad"
    <3>1. d = [c EXCEPT !.readBuffer = b, !.state = "CP_ERROR"]
      BY <1>3, <2>1, <2>3 DEF authRead, ConnOK, Conns
    <3>. QED
      BY <1>1, <1>5, <3>1 DEF ConnOK, Conns, CpStates, Buffers, HasHandler, HasCommand,
                              Scheduled, OP_READ, OP_WRITE
  <2>4. CASE Verdict(q) = "end"
    <3>1. PICK ok \in BOOLEAN :
            d = [Parsed(c, q) EXCEPT !.validPassword = ok, !.interest = OP_WRITE]
      BY <2>1, <2>4 DEF authRead
    <3>2. d = [c EXCEPT !.readBuffer = b, !.validPassword = ok, !.interest = OP_WRITE]
      BY <1>3, <3>1 DEF ConnOK, Conns
    <3>. QED
      BY <1>1, <1>5, <3>2 DEF ConnOK, Conns, CpStates, Buffers, HasHandler, HasCommand,
                              Scheduled, OP_READ, OP_WRITE
  <2>. QED
    BY <1>2, <2>2, <2>3, <2>4 DEF Pieces
<1>6. CASE c.state = "CP_EXECUTE"
  <2>1. d \in executeRead(c, q)
    BY <1>6 DEF stm_handler_read
  <2>2. ~buffer_can_read(c.writeBuffer)
    BY <1>6 DEF ConnOK, Scheduled, OP_READ, OP_WRITE
  <2>3. CASE Verdict(q) = "part"
    <3>1. d = [c EXCEPT !.readBuffer = b]
      BY <1>3, <2>1, <2>3 DEF executeRead
    <3>. QED
      BY <1>1, <3>1 DEF ConnOK, Conns, Buffers, HasHandler, HasCommand, Scheduled
  <2>4. CASE Verdict(q) = "bad"
    <3>1. d = [c EXCEPT !.readBuffer = b, !.state = "CP_ERROR"]
      BY <1>3, <2>1, <2>4 DEF executeRead, ConnOK, Conns
    <3>. QED
      BY <1>1, <2>2, <3>1 DEF ConnOK, Conns, CpStates, Buffers, HasHandler, HasCommand,
                              Scheduled, OP_READ, OP_WRITE
  <2>5. CASE Verdict(q) = "end"
    <3>1. PICK cmd \in Command :
            d = [Parsed(c, q) EXCEPT !.command = cmd, !.interest = OP_WRITE]
      BY <2>1, <2>5 DEF executeRead
    <3>2. d = [c EXCEPT !.readBuffer = b, !.command = cmd, !.interest = OP_WRITE]
      BY <1>3, <3>1 DEF ConnOK, Conns
    <3>. QED
      BY <1>1, <1>6, <2>2, <3>2, NoCommandIsNone
         DEF ConnOK, Conns, CpStates, Buffers, HasHandler, HasCommand,
             Scheduled, OP_READ, OP_WRITE
  <2>. QED
    BY <1>2, <2>3, <2>4, <2>5 DEF Pieces
<1>. QED
  BY <1>4, <1>5, <1>6

-----------------------------------------------------------------------------
(* The inductive invariant: the types, the connection in order, a good     *)
(* table, and nothing left of a connection that was closed.                *)

Inv ==
    /\ TypeOK
    /\ ConnOK(cpc)
    /\ GoodTable(table)
    /\ ~live => cpc = newControlProtConn

(* A program started without users, or with one, starts in order.          *)
LEMMA InitInv == Init => Inv
PROOF
<1>. SUFFICES ASSUME Init PROVE Inv
  OBVIOUS
<1>1. GoodTable(EmptyTable)
  <2>1. <<>> \in Seq(User) /\ Len(<<>>) = 0
    OBVIOUS
  <2>. QED
    BY <2>1, UsersAssumption DEF GoodTable, EmptyTable, Table
<1>2. GoodTable(table)
  BY <1>1, AddKeepsTable DEF Init
<1>3. ConnOK(cpc)
  BY NewConnOK DEF Init
<1>4. cpc.readBuffer = buffer_reset
  BY DEF Init, newControlProtConn
<1>5. pending = <<>> /\ wire = <<>> /\ Len(pending) = 0 /\ Len(wire) = 0
      /\ Pending(cpc.readBuffer) = 0
  BY <1>4 DEF Init, Pending, buffer_reset
<1>6. pending \in Seq(Pieces) /\ wire \in Seq(Pieces) /\ Len(pending) + Len(wire) <= MaxAhead
  BY <1>5, ControlAssumption
<1>7. TypeOK
  BY <1>2, <1>3, <1>5, <1>6 DEF Init, TypeOK, ConnOK, Buffers, GoodTable
<1>. QED
  BY <1>2, <1>3, <1>7 DEF Inv, Init

(* Carrying out a command, or none, leaves a good table.                   *)
LEMMA EffectsKeep ==
    ASSUME Inv, Effects(cpc)
    PROVE  GoodTable(table') /\ sniffer_state' \in BOOLEAN /\ by' \in {"client", "another"}
PROOF
<1>1. CASE Executes(cpc)
  <2>1. cpc.command \in Command
    BY <1>1 DEF Inv, Executes, ConnOK, Conns
  <2>2. GoodTable(table')
    BY <1>1, <2>1, CommandKeepsTable DEF Inv, Effects
  <2>3. sniffer_state' \in BOOLEAN
    BY <1>1 DEF Inv, TypeOK, Effects, switchPassDissectors
  <2>. QED
    BY <1>1, <2>2, <2>3 DEF Effects
<1>2. CASE ~Executes(cpc)
  BY <1>2 DEF Inv, TypeOK, Effects, usersVars
<1>. QED
  BY <1>1, <1>2

(* What is left when the connection is freed.                              *)
LEMMA FreeKeeps ==
    ASSUME Inv, Free, up' \in BOOLEAN, GoodTable(table'), sniffer_state' \in BOOLEAN,
           by' \in {"client", "another"}
    PROVE  Inv'
PROOF
<1>1. ConnOK(cpc')
  BY NewConnOK DEF Free
<1>2. cpc'.readBuffer = buffer_reset
  BY DEF Free, newControlProtConn
<1>3. pending' = <<>> /\ wire' = <<>> /\ Len(pending') = 0 /\ Len(wire') = 0
      /\ Pending(cpc'.readBuffer) = 0
  BY <1>2 DEF Free, Pending, buffer_reset
<1>4. /\ pending' \in Seq(Pieces) /\ wire' \in Seq(Pieces)
      /\ Len(pending') + Len(wire') <= MaxAhead
  BY <1>3, ControlAssumption
<1>5. TypeOK'
  BY <1>1, <1>3, <1>4 DEF Free, TypeOK, ConnOK, Buffers, GoodTable
<1>. QED
  BY <1>1, <1>5 DEF Inv, Free

LEMMA WriteHandlerKeeps == ASSUME Inv, cpWriteHandler PROVE Inv'
PROOF
<1>. DEFINE c == stm_handler_write(cpc)
<1>1. live /\ cpc.interest = OP_WRITE /\ cpc.state # "CP_ERROR" /\ live'
  BY DEF cpWriteHandler, Handle, Event
<1>2. ConnOK(c) /\ c.readBuffer = cpc.readBuffer
  BY <1>1, WriteKeeps DEF Inv
<1>3. \/ cpc' = c
      \/ \E n \in 1..Pending(c.writeBuffer) :
            cpc' = [c EXCEPT !.writeBuffer = buffer_read_adv(@, n)]
  BY DEF cpWriteHandler
<1>4. answered' = Answered(cpc, c)
  BY DEF cpWriteHandler
<1>. HIDE DEF c
<1>5. ConnOK(cpc') /\ cpc'.readBuffer = cpc.readBuffer
  BY <1>2, <1>3, SendKeeps
<1>6. GoodTable(table') /\ sniffer_state' \in BOOLEAN /\ by' \in {"client", "another"}
  BY EffectsKeep DEF cpWriteHandler
<1>7. answered' \in Answers \cup {"none", "password accepted", "password refused"}
  <2>1. CASE c.execAnsWritten /\ ~cpc.execAnsWritten
    <3>1. c.execAnswer \in Answers
      BY <1>1, <2>1, WrittenIsAnswer DEF Inv, c
    <3>. QED
      BY <1>4, <2>1, <3>1 DEF Answered
  <2>2. CASE ~(c.execAnsWritten /\ ~cpc.execAnsWritten)
    BY <1>4, <2>2 DEF Answered, Inv, TypeOK
  <2>. QED
    BY <2>1, <2>2
<1>8. UNCHANGED <<pending, netVars, live, up>>
  BY DEF cpWriteHandler
<1>9. TypeOK'
  BY <1>5, <1>6, <1>7, <1>8 DEF Inv, TypeOK, ConnOK, Buffers, GoodTable, netVars
<1>. QED
  BY <1>1, <1>5, <1>6, <1>9 DEF Inv

(* A connection is closed by a send that fails, or the server ends.        *)
LEMMA WriteEndsKeep == ASSUME Inv, cpWriteFails \/ cpWriteSigpipe PROVE Inv'
PROOF
<1>1. GoodTable(table') /\ sniffer_state' \in BOOLEAN /\ by' \in {"client", "another"}
  BY EffectsKeep DEF cpWriteFails, cpWriteSigpipe
<1>2. CASE cpWriteFails
  <2>1. Free /\ up' \in BOOLEAN
    BY <1>2 DEF cpWriteFails, Inv, TypeOK
  <2>. QED
    BY <1>1, <2>1, FreeKeeps
<1>3. CASE cpWriteSigpipe
  <2>1. UNCHANGED connVars /\ up' \in BOOLEAN
    BY <1>3 DEF cpWriteSigpipe
  <2>2. TypeOK'
    BY <1>1, <2>1 DEF Inv, TypeOK, connVars, netVars, GoodTable
  <2>. QED
    BY <1>1, <2>1, <2>2 DEF Inv, connVars
<1>. QED
  BY <1>2, <1>3

(* recv fills the free space and the parser consumes some of what is       *)
(* there; between them they move pieces and lose none.                     *)
LEMMA ReadHandlerKeeps == ASSUME Inv, cpReadHandler PROVE Inv'
PROOF
<1>1. PICK n \in Received :
        LET c == [cpc EXCEPT !.readBuffer = buffer_write_adv(@, n)]
            q == pending \o SubSeq(wire, 1, n)
        IN  /\ cpc' \in stm_handler_read(c, q)
            /\ pending' = SubSeq(q, Consumed(q) + 1, Len(q))
            /\ wire' = SubSeq(wire, n + 1, Len(wire))
  BY DEF cpReadHandler
<1>. DEFINE b == buffer_write_adv(cpc.readBuffer, n)
            c == [cpc EXCEPT !.readBuffer = b]
            q == pending \o SubSeq(wire, 1, n)
<1>2. /\ cpc \in Conns /\ ConnOK(cpc) /\ cpc.readBuffer \in Pointers
      /\ WellFormed(cpc.readBuffer) /\ Compacted(cpc.readBuffer)
      /\ pending \in Seq(Pieces) /\ wire \in Seq(Pieces)
      /\ Len(pending) = Pending(cpc.readBuffer)
      /\ Len(pending) + Len(wire) <= MaxAhead
  BY DEF Inv, TypeOK, ConnOK, Conns, Buffers
<1>3. n \in 0..WriteSpace(cpc.readBuffer) /\ n \in 0..Len(wire)
  BY <1>2, LimitAssumption DEF Received, WriteSpace, buffer_can_write, Pointers
<1>4. /\ b \in Pointers /\ WellFormed(b) /\ Compacted(b)
      /\ Pending(b) = Len(pending) + n
  BY <1>2, <1>3, WriteAdvKeepsBuffer
<1>5. /\ cpc' \in stm_handler_read(c, q)
      /\ pending' = SubSeq(q, Consumed(q) + 1, Len(q))
      /\ wire' = SubSeq(wire, n + 1, Len(wire))
  BY <1>1
<1>6. cpc.interest = OP_READ /\ cpc.state # "CP_ERROR" /\ live /\ live'
  BY DEF cpReadHandler, Handle, Event
<1>. HIDE DEF b
<1>7. ConnOK(c) /\ c.readBuffer = b /\ c.interest = OP_READ /\ c.state # "CP_ERROR"
  BY <1>2, <1>4, <1>6 DEF ConnOK, Conns, Buffers, HasHandler, HasCommand, Scheduled
<1>8. SubSeq(wire, 1, n) \in Seq(Pieces) /\ Len(SubSeq(wire, 1, n)) = n
  BY <1>2, <1>3
<1>9. q \in Seq(Pieces) /\ Len(q) = Len(pending) + n
  BY <1>2, <1>8
<1>. HIDE DEF c, q
<1>10. ConnOK(cpc') /\ Pending(cpc'.readBuffer) = Len(q) - Consumed(q)
  BY <1>4, <1>5, <1>7, <1>9, ReadKeeps
<1>11. Consumed(q) \in 0..Len(q)
  BY <1>9, ParserStops
<1>12. pending' \in Seq(Pieces) /\ Len(pending') = Len(q) - Consumed(q)
  BY <1>5, <1>9, <1>11
<1>13. wire' \in Seq(Pieces) /\ Len(wire') = Len(wire) - n
  BY <1>2, <1>3, <1>5
<1>14. Len(pending') + Len(wire') <= MaxAhead
  BY <1>2, <1>3, <1>9, <1>11, <1>12, <1>13, ControlAssumption
<1>15. answered' = "none" /\ UNCHANGED <<fin, sockerr, live, up, usersVars>>
  BY DEF cpReadHandler
<1>16. TypeOK'
  BY <1>10, <1>12, <1>13, <1>14, <1>15 DEF Inv, TypeOK, ConnOK, Buffers, usersVars
<1>. QED
  BY <1>6, <1>10, <1>15, <1>16 DEF Inv, usersVars

(* The events that only free the connection, and the next connection.      *)
LEMMA EndsKeep == ASSUME Inv, cpReadEnds \/ cpError PROVE Inv'
PROOF
<1>1. Free /\ UNCHANGED <<up, usersVars>>
  BY DEF cpReadEnds, cpError
<1>. QED
  BY <1>1, FreeKeeps DEF Inv, TypeOK, usersVars

LEMMA AcceptKeeps == ASSUME Inv, passive_cp_socket_handler PROVE Inv'
PROOF
<1>1. cpc' = cpc /\ live' = TRUE /\ UNCHANGED <<pending, netVars, up, answered, usersVars>>
  BY DEF Inv, passive_cp_socket_handler
<1>2. TypeOK'
  BY <1>1 DEF Inv, TypeOK, netVars, usersVars
<1>. QED
  BY <1>1, <1>2 DEF Inv, usersVars

(* The client only changes the socket, others only what all share.         *)
LEMMA ClientKeeps == ASSUME Inv, Environment PROVE Inv'
PROOF
<1>1. UNCHANGED <<cpc, pending, live, up, answered, usersVars>>
  BY DEF Environment, ClientSends, ClientEnds, ClientResets
<1>2. fin' \in BOOLEAN /\ sockerr' \in {"none", "ECONNRESET", "EPIPE"}
  BY DEF Environment, ClientSends, ClientEnds, ClientResets, Inv, TypeOK
<1>3. wire' \in Seq(Pieces) /\ Len(pending) + Len(wire') <= MaxAhead
  <2>1. CASE ClientSends
    <3>1. PICK x \in Pieces : wire' = Append(wire, x)
      BY <2>1 DEF ClientSends
    <3>2. wire \in Seq(Pieces) /\ pending \in Seq(Pieces)
          /\ Len(pending) + Len(wire) < MaxAhead
      BY <2>1 DEF ClientSends, Inv, TypeOK
    <3>. QED
      BY <3>1, <3>2, ControlAssumption
  <2>2. CASE ClientEnds \/ ClientResets
    BY <2>2 DEF ClientEnds, ClientResets, Inv, TypeOK
  <2>. QED
    BY <2>1, <2>2 DEF Environment
<1>4. TypeOK'
  BY <1>1, <1>2, <1>3 DEF Inv, TypeOK, usersVars
<1>. QED
  BY <1>1, <1>4 DEF Inv, usersVars

LEMMA OtherKeeps == ASSUME Inv, OtherConnection PROVE Inv'
PROOF
<1>1. PICK cmd \in OtherCommands :
        /\ table' = Execute(table, cmd).table
        /\ sniffer_state' = switchPassDissectors(sniffer_state, cmd)
  BY DEF OtherConnection
<1>2. GoodTable(table')
  BY <1>1, CommandKeepsTable, ControlAssumption DEF Inv
<1>3. sniffer_state' \in BOOLEAN
  BY <1>1 DEF Inv, TypeOK, switchPassDissectors
<1>4. by' = "another" /\ UNCHANGED <<connVars, up>>
  BY DEF OtherConnection
<1>5. TypeOK'
  BY <1>2, <1>3, <1>4 DEF Inv, TypeOK, connVars, netVars, GoodTable
<1>. QED
  BY <1>2, <1>4, <1>5 DEF Inv, connVars

LEMMA StepInv == Inv /\ [Next]_vars => Inv'
PROOF
<1>. SUFFICES ASSUME Inv, [Next]_vars PROVE Inv'
  OBVIOUS
<1>1. CASE cpWriteHandler
  BY <1>1, WriteHandlerKeeps
<1>2. CASE cpWriteFails \/ cpWriteSigpipe
  BY <1>2, WriteEndsKeep
<1>3. CASE cpReadHandler
  BY <1>3, ReadHandlerKeeps
<1>4. CASE cpReadEnds \/ cpError
  BY <1>4, EndsKeep
<1>5. CASE passive_cp_socket_handler
  BY <1>5, AcceptKeeps
<1>6. CASE Environment
  BY <1>6, ClientKeeps
<1>7. CASE OtherConnection
  BY <1>7, OtherKeeps
<1>8. CASE UNCHANGED vars
  BY <1>8 DEF Inv, TypeOK, vars, connVars, netVars, usersVars
<1>. QED
  BY <1>1, <1>2, <1>3, <1>4, <1>5, <1>6, <1>7, <1>8 DEF Next

LEMMA InvHolds == Spec => []Inv
PROOF
  BY InitInv, StepInv, PTL DEF Spec

-----------------------------------------------------------------------------

(* Every handler leaves the connection, its buffers and the table typed,   *)
(* and each read buffer holds exactly the pieces received and not parsed.  *)
THEOREM ControlTypeCorrect == Spec => []TypeOK
PROOF
<1>1. Inv => TypeOK
  BY DEF Inv
<1>. QED
  BY <1>1, InvHolds, PTL

(* stm.c never meets an event for which its state has no handler, which    *)
(* would abort the server with every connection in it.                     *)
THEOREM ControlHandlers == Spec => []HandlerForEveryInterest
PROOF
<1>1. Inv => HandlerForEveryInterest
  BY DEF Inv, ConnOK, HasHandler, HandlerForEveryInterest
<1>. QED
  BY <1>1, InvHolds, PTL

(* executeWrite is only called with a command to carry out or an answer to *)
(* send, so that it never takes the one for a failed allocation.           *)
THEOREM ControlCommands == Spec => []CommandBehindAnswer
PROOF
<1>1. Inv => CommandBehindAnswer
  BY DEF Inv, ConnOK, HasCommand, CommandBehindAnswer
<1>. QED
  BY <1>1, InvHolds, PTL

(* Whatever send takes of a reply, the rest is waited for, except that of  *)
(* a refused password.                                                     *)
THEOREM ControlReplies == Spec => []ReplyIsScheduled
PROOF
<1>1. Inv => ReplyIsScheduled
  BY DEF Inv, ConnOK, Scheduled, ReplyIsScheduled
<1>. QED
  BY <1>1, InvHolds, PTL

(* No sequence of commands, of any number of connections, leaves a name    *)
(* twice in the table, more users than there is room for, or               *)
(* authentication asked of clients without a user or the reverse.          *)
THEOREM UsersStayOK == Spec => []UsersOK
PROOF
<1>1. Inv => UsersOK
  BY DEF Inv, GoodTable, UsersOK, total_users, needs_auth
<1>. QED
  BY <1>1, InvHolds, PTL

(* process_authentication_request, which looks for any slot with the name  *)
(* and the password, agrees with the directory, which has one password for *)
(* each name.                                                              *)
LEMMA TableAuthAgrees == GoodTable(table) => AuthAgrees
PROOF
<1>. SUFFICES ASSUME GoodTable(table), NEW n \in Name, NEW p \in Password
              PROVE  process_authentication_request(table, n, p)
                        <=> DOMAIN Accounts = {} \/ (n \in DOMAIN Accounts /\ Accounts[n] = p)
  BY DEF AuthAgrees
<1>. DEFINE D == {table.users[i].name : i \in 1..total_users(table)}
            pos == user_exists_by_username(table, n)
<1>1. DOMAIN Accounts = D /\ (n \in D => Accounts[n] = table.users[pos].pass)
  BY DEF Accounts
<1>2. total_users(table) = Len(table.users) /\ total_users(table) \in Nat
      /\ (needs_auth(table) <=> total_users(table) > 0)
  BY DEF GoodTable, Table, total_users, needs_auth
<1>3. needs_auth(table) <=> D # {}
  <2>1. CASE total_users(table) > 0
    <3>1. 1 \in 1..total_users(table)
      BY <1>2, <2>1
    <3>2. table.users[1].name \in D
      BY <3>1
    <3>. HIDE DEF D
    <3>. QED
      BY <1>2, <2>1, <3>2
  <2>2. CASE ~(total_users(table) > 0)
    <3>1. 1..total_users(table) = {}
      BY <1>2, <2>2
    <3>2. D = {}
      BY <3>1
    <3>. HIDE DEF D
    <3>. QED
      BY <1>2, <2>2, <3>2
  <2>. QED
    BY <2>1, <2>2
<1>4. ASSUME n \in D
      PROVE  (\E i \in 1..total_users(table) : valid_credentials(table.users[i], n, p))
                <=> table.users[pos].pass = p
  <2>1. Named(table, n) # {}
    BY <1>4 DEF Named
  <2>2. pos \in 1..total_users(table) /\ Named(table, n) = {pos}
    BY <1>2, <2>1, Lookup
  <2>. HIDE DEF pos
  <2>. QED
    BY <2>2 DEF Named, valid_credentials
<1>5. ASSUME n \notin D
      PROVE  ~\E i \in 1..total_users(table) : valid_credentials(table.users[i], n, p)
  BY <1>5 DEF valid_credentials
<1>. HIDE DEF D, pos
<1>. QED
  BY <1>1, <1>3, <1>4, <1>5 DEF process_authentication_request

(* A SOCKS client is let in exactly with the password its name has in the  *)
(* directory, or by anyone while there are no users: removing a user or    *)
(* changing a password takes effect, for every table and every name.       *)
THEOREM UsersAuthenticate == Spec => []AuthAgrees
PROOF
<1>1. Inv => AuthAgrees
  BY TableAuthAgrees DEF Inv
<1>. QED
  BY <1>1, InvHolds, PTL

-----------------------------------------------------------------------------
(* A table as a directory. *)

AccountsOf(t) ==
    [n \in {t.users[i].name : i \in 1..total_users(t)} |->
        t.users[user_exists_by_username(t, n)].pass]

(* Every user of a good table is found by name, with that user's password. *)
LEMMA Entry ==
    ASSUME NEW t, GoodTable(t), NEW i \in 1..Len(t.users)
    PROVE  /\ t.users[i].name \in DOMAIN AccountsOf(t)
           /\ AccountsOf(t)[t.users[i].name] = t.users[i].pass
PROOF
<1>. DEFINE n == t.users[i].name
            pos == user_exists_by_username(t, n)
<1>1. i \in Named(t, n) /\ total_users(t) = Len(t.users)
  BY DEF Named, total_users
<1>2. pos = i
  BY <1>1, Lookup
<1>3. n \in {t.users[j].name : j \in 1..total_users(t)}
  BY <1>1
<1>4. AccountsOf(t)[n] = t.users[pos].pass
  BY <1>3 DEF AccountsOf
<1>. QED
  BY <1>2, <1>3, <1>4 DEF AccountsOf

(* A function that agrees with every user and knows no other name is the   *)
(* directory of the table.                                                 *)
LEMMA DirectoryOf ==
    ASSUME NEW t, GoodTable(t), NEW D, NEW d, d = [n \in D |-> d[n]],
           \A i \in 1..Len(t.users) :
              t.users[i].name \in D /\ d[t.users[i].name] = t.users[i].pass,
           \A n \in D : \E i \in 1..Len(t.users) : t.users[i].name = n
    PROVE  AccountsOf(t) = d
PROOF
<1>. DEFINE N == {t.users[i].name : i \in 1..total_users(t)}
<1>1. total_users(t) = Len(t.users)
  BY DEF total_users
<1>2. N = D
  BY <1>1
<1>3. ASSUME NEW n \in D PROVE AccountsOf(t)[n] = d[n]
  BY Entry
<1>4. AccountsOf(t) = [n \in N |-> t.users[user_exists_by_username(t, n)].pass]
  BY DEF AccountsOf
<1>5. AccountsOf(t) = [n \in D |-> AccountsOf(t)[n]]
  BY <1>2, <1>4
<1>. QED
  BY <1>3, <1>5

(* The names of a table are as many as its users.                          *)
LEMMA DirectorySize ==
    ASSUME NEW t, GoodTable(t)
    PROVE  Cardinality(DOMAIN AccountsOf(t)) = Len(t.users)
PROOF
<1>. DEFINE k == Len(t.users)
            D == DOMAIN AccountsOf(t)
            f == [i \in 1..k |-> t.users[i].name]
<1>1. k \in Nat
  BY DEF GoodTable, Table
<1>2. D = {t.users[i].name : i \in 1..k}
  BY DEF AccountsOf, total_users
<1>3. f \in [1..k -> D]
  BY <1>2
<1>4. \A i, j \in 1..k : f[i] = f[j] => i = j
  BY DEF GoodTable
<1>5. \A n \in D : \E i \in 1..k : f[i] = n
  BY <1>2
<1>. HIDE DEF f, D, k
<1>6. DOMAIN f = 1..k
  BY <1>3
<1>7. f \in Bijection(1..k, D)
  BY <1>3, <1>4, <1>5, <1>6 DEF Bijection, Injection, Surjection, IsInjective
<1>8. Cardinality(D) = k
  BY <1>1, <1>7, FS_CountingElements DEF ExistsBijection
<1>. QED
  BY <1>8 DEF k, D

(* A name that is in no slot is not in the directory.                      *)
LEMMA Unknown ==
    ASSUME NEW t, GoodTable(t), NEW name
    PROVE  name \in DOMAIN AccountsOf(t) <=> user_exists_by_username(t, name) # 0
PROOF
<1>1. DOMAIN AccountsOf(t) = {t.users[i].name : i \in 1..Len(t.users)}
  BY DEF AccountsOf, total_users
<1>2. name \in DOMAIN AccountsOf(t) <=> Named(t, name) # {}
  BY <1>1 DEF Named, total_users
<1>3. Named(t, name) # {} <=> user_exists_by_username(t, name) # 0
  <2>. DEFINE pos == user_exists_by_username(t, name)
  <2>1. \/ pos = 0 /\ Named(t, name) = {}
        \/ pos \in 1..Len(t.users) /\ Named(t, name) = {pos}
    BY Lookup
  <2>2. Len(t.users) \in Nat
    BY DEF GoodTable, Table
  <2>. HIDE DEF pos
  <2>3. QED
    BY <2>1, <2>2 DEF pos
<1>. QED
  BY <1>2, <1>3

(* add_user adds to the directory.                                         *)
LEMMA AddActs ==
    ASSUME NEW t, GoodTable(t), NEW u \in User,
           Len(t.users) # MAX_USERS, user_exists_by_username(t, u.name) = 0
    PROVE  AccountsOf(add_user(t, u).table) = Service!Having(AccountsOf(t), u.name, u.pass)
PROOF
<1>. DEFINE s == Append(t.users, u)
            r == add_user(t, u).table
            d == AccountsOf(t)
            D == DOMAIN d \cup {u.name}
            e == [m \in D |-> IF m = u.name THEN u.pass ELSE d[m]]
<1>1. r.users = s /\ GoodTable(r)
  BY AddKeepsTable DEF add_user, total_users
<1>2. t.users \in Seq(User) /\ Len(t.users) \in Nat
  BY DEF GoodTable, Table
<1>3. Len(s) = Len(t.users) + 1 /\ s[Len(s)] = u
      /\ \A i \in 1..Len(t.users) : s[i] = t.users[i]
  BY <1>2
<1>4. u.name \notin DOMAIN d
  BY Unknown
<1>5. DOMAIN d = {t.users[i].name : i \in 1..Len(t.users)}
  BY DEF AccountsOf, total_users
<1>6. \A i \in 1..Len(t.users) : d[t.users[i].name] = t.users[i].pass
  BY Entry
<1>. HIDE DEF s, r, d
<1>7. ASSUME NEW i \in 1..Len(s)
      PROVE  s[i].name \in D /\ e[s[i].name] = s[i].pass
  <2>1. CASE i = Len(s)
    BY <1>3, <2>1
  <2>2. CASE i # Len(s)
    <3>1. i \in 1..Len(t.users)
      BY <1>2, <1>3, <2>2
    <3>2. s[i].name \in DOMAIN d
      BY <1>3, <1>5, <3>1
    <3>. QED
      BY <1>3, <1>4, <1>6, <3>1, <3>2
  <2>. QED
    BY <2>1, <2>2
<1>8. ASSUME NEW n \in D PROVE \E i \in 1..Len(s) : s[i].name = n
  <2>1. CASE n = u.name
    <3>1. Len(s) \in 1..Len(s)
      BY <1>2, <1>3
    <3>. QED
      BY <1>3, <2>1, <3>1
  <2>2. CASE n \in DOMAIN d
    <3>1. PICK i \in 1..Len(t.users) : t.users[i].name = n
      BY <1>5, <2>2
    <3>2. i \in 1..Len(s)
      BY <1>2, <1>3
    <3>. QED
      BY <1>3, <3>1, <3>2
  <2>. QED
    BY <2>1, <2>2
<1>9. e = [m \in D |-> e[m]]
  OBVIOUS
<1>. HIDE DEF e, D
<1>10. AccountsOf(r) = e
  BY <1>1, <1>7, <1>8, <1>9, DirectoryOf
<1>. QED
  BY <1>10 DEF Service!Having, e, D, d, r

(* remove_user takes one name out of it.                                   *)
LEMMA RemoveActs ==
    ASSUME NEW t, GoodTable(t), NEW name, user_exists_by_username(t, name) # 0
    PROVE  AccountsOf(remove_user(t, name).table) = Service!Without(AccountsOf(t), name)
PROOF
<1>. DEFINE pos == user_exists_by_username(t, name)
            k == Len(t.users)
            s == WithoutSlot(t, pos)
            r == remove_user(t, name).table
            d == AccountsOf(t)
            D == DOMAIN d \ {name}
            e == [m \in D |-> d[m]]
<1>1. r.users = s /\ GoodTable(r)
  BY RemoveKeepsTable DEF remove_user
<1>2. pos \in 1..k /\ Named(t, name) = {pos}
  BY Lookup
<1>3. t.users \in Seq(User) /\ k \in Nat
  BY DEF GoodTable, Table
<1>4. s = [i \in 1..(k - 1) |-> IF i = pos THEN t.users[k] ELSE t.users[i]]
  BY DEF WithoutSlot, total_users
<1>5. Len(s) = k - 1
  BY <1>2, <1>3, <1>4
<1>6. \A i \in 1..k : t.users[i].name = name <=> i = pos
  BY <1>2 DEF Named, total_users
<1>7. DOMAIN d = {t.users[i].name : i \in 1..k}
  BY DEF AccountsOf, total_users
<1>8. \A i \in 1..k : d[t.users[i].name] = t.users[i].pass
  BY Entry
<1>. HIDE DEF s, r, d, pos, k
<1>9. ASSUME NEW i \in 1..Len(s)
      PROVE  s[i].name \in D /\ e[s[i].name] = s[i].pass
  <2>. DEFINE j == IF i = pos THEN k ELSE i
  <2>1. j \in 1..k /\ j # pos /\ s[i] = t.users[j]
    BY <1>2, <1>3, <1>4, <1>5
  <2>. HIDE DEF j
  <2>2. t.users[j].name \in D
    BY <1>6, <1>7, <2>1
  <2>. QED
    BY <1>8, <2>1, <2>2
<1>10. ASSUME NEW n \in D PROVE \E i \in 1..Len(s) : s[i].name = n
  <2>1. PICK j \in 1..k : t.users[j].name = n /\ j # pos
    BY <1>6, <1>7
  <2>. DEFINE i == IF j = k THEN pos ELSE j
  <2>2. i \in 1..(k - 1) /\ s[i] = t.users[j]
    BY <1>2, <1>3, <1>4, <2>1
  <2>. HIDE DEF i
  <2>. QED
    BY <1>5, <2>1, <2>2
<1>11. e = [m \in D |-> e[m]]
  OBVIOUS
<1>. HIDE DEF e, D
<1>12. AccountsOf(r) = e
  BY <1>1, <1>9, <1>10, <1>11, DirectoryOf
<1>. QED
  BY <1>12 DEF Service!Without, e, D, d, r

(* change_password changes one entry.                                      *)
LEMMA ChangeActs ==
    ASSUME NEW t, GoodTable(t), NEW name, NEW p \in Password,
           user_exists_by_username(t, name) # 0
    PROVE  AccountsOf(change_password(t, name, p).table) =
               Service!Having(AccountsOf(t), name, p)
PROOF
<1>. DEFINE pos == user_exists_by_username(t, name)
            k == Len(t.users)
            s == [t.users EXCEPT ![pos].pass = p]
            r == change_password(t, name, p).table
            d == AccountsOf(t)
            D == DOMAIN d \cup {name}
            e == [m \in D |-> IF m = name THEN p ELSE d[m]]
<1>1. r = [t EXCEPT !.users = s]
  BY DEF change_password
<1>14. GoodTable(r)
  BY ChangeKeepsTable
<1>2. pos \in 1..k /\ Named(t, name) = {pos}
  BY Lookup
<1>3. t.users \in Seq(User) /\ k \in Nat /\ t \in Table
  BY DEF GoodTable, Table
<1>4. Len(s) = k /\ \A i \in 1..k : t.users[i] \in User /\
        s[i] = IF i = pos THEN [t.users[i] EXCEPT !.pass = p] ELSE t.users[i]
  BY <1>2, <1>3
<1>5. \A i \in 1..k : s[i].name = t.users[i].name
                      /\ s[i].pass = IF i = pos THEN p ELSE t.users[i].pass
  BY <1>4 DEF User
<1>6. \A i \in 1..k : t.users[i].name = name <=> i = pos
  BY <1>2 DEF Named, total_users
<1>7. DOMAIN d = {t.users[i].name : i \in 1..k}
  BY DEF AccountsOf, total_users
<1>8. \A i \in 1..k : d[t.users[i].name] = t.users[i].pass
  BY Entry
<1>9. r.users = s
  BY <1>1, <1>3 DEF Table
<1>. HIDE DEF s, r, d, pos, k
<1>10. ASSUME NEW i \in 1..Len(s)
      PROVE  s[i].name \in D /\ e[s[i].name] = s[i].pass
  BY <1>4, <1>5, <1>6, <1>7, <1>8
<1>11. ASSUME NEW n \in D PROVE \E i \in 1..Len(s) : s[i].name = n
  BY <1>2, <1>4, <1>5, <1>6, <1>7
<1>12. e = [m \in D |-> e[m]]
  OBVIOUS
<1>. HIDE DEF e, D
<1>13. AccountsOf(r) = e
  BY <1>9, <1>10, <1>11, <1>12, <1>14, DirectoryOf
<1>. QED
  BY <1>13 DEF Service!Having, e, D, d, r

LEMMA SameCardinality == \A S : Service!Cardinality(S) = Cardinality(S)
PROOF
  BY Zenon DEF Service!Cardinality, Cardinality

(* What a command does to the table it does to the directory, and its      *)
(* answer is the one the directory calls for.                              *)
LEMMA CommandActs ==
    ASSUME NEW t, GoodTable(t), NEW cmd \in Command
    PROVE  Service!Outcome(AccountsOf(t), cmd) =
               <<AccountsOf(Execute(t, cmd).table), Execute(t, cmd).answer>>
PROOF
<1>. DEFINE d == AccountsOf(t)
            pos == user_exists_by_username(t, cmd.name)
<1>1. Service!Full(d) <=> Len(t.users) = MAX_USERS
  <2>1. Cardinality(DOMAIN d) = Len(t.users)
    BY DirectorySize
  <2>. HIDE DEF d
  <2>. QED
    BY <2>1, SameCardinality DEF Service!Full
<1>2. cmd.name \in DOMAIN d <=> pos # 0
  BY Unknown
<1>3. total_users(t) = Len(t.users)
  BY DEF total_users
<1>4. CASE cmd.op = "CP_ADD_USER"
  <2>. DEFINE u == [name |-> cmd.name, pass |-> cmd.pass]
  <2>1. u \in User /\ u.name = cmd.name /\ u.pass = cmd.pass
    BY <1>4 DEF Command, User
  <2>2. CASE Len(t.users) = MAX_USERS \/ pos # 0
    <3>1. Execute(t, cmd) = [table |-> t, answer |-> IF Len(t.users) = MAX_USERS
                              THEN "CPERROR_USER_LIMIT" ELSE "CPERROR_ALREADY_EXISTS"]
      BY <1>3, <1>4, <2>1, <2>2 DEF Execute, addProxyUser, add_user
    <3>. QED
      BY <1>1, <1>2, <1>4, <2>2, <3>1 DEF Service!Outcome
  <2>3. CASE Len(t.users) # MAX_USERS /\ pos = 0
    <3>1. Execute(t, cmd) = [table |-> add_user(t, u).table, answer |-> "OK"]
      BY <1>3, <1>4, <2>1, <2>3 DEF Execute, addProxyUser, add_user
    <3>2. AccountsOf(add_user(t, u).table) = Service!Having(d, cmd.name, cmd.pass)
      BY <2>1, <2>3, AddActs
    <3>. QED
      BY <1>1, <1>2, <1>4, <2>3, <3>1, <3>2 DEF Service!Outcome
  <2>. QED
    BY <2>2, <2>3
<1>5. CASE cmd.op = "CP_REM_USER"
  <2>1. CASE pos = 0
    <3>1. Execute(t, cmd) = [table |-> t, answer |-> "CPERROR_INEXISTING_USER"]
      BY <1>5, <2>1 DEF Execute, removeProxyUser, AnswerFor, remove_user
    <3>. QED
      BY <1>2, <1>5, <2>1, <3>1 DEF Service!Outcome
  <2>2. CASE pos # 0
    <3>1. Execute(t, cmd) = [table |-> remove_user(t, cmd.name).table, answer |-> "OK"]
      BY <1>5, <2>2 DEF Execute, removeProxyUser, AnswerFor, remove_user
    <3>2. AccountsOf(remove_user(t, cmd.name).table) = Service!Without(d, cmd.name)
      BY <2>2, RemoveActs
    <3>. QED
      BY <1>2, <1>5, <2>2, <3>1, <3>2 DEF Service!Outcome
  <2>. QED
    BY <2>1, <2>2
<1>6. CASE cmd.op = "CP_CHANGE_PASS"
  <2>1. CASE pos = 0
    <3>1. Execute(t, cmd) = [table |-> t, answer |-> "CPERROR_INEXISTING_USER"]
      BY <1>6, <2>1 DEF Execute, changePassword, AnswerFor, change_password
    <3>. QED
      BY <1>2, <1>6, <2>1, <3>1 DEF Service!Outcome
  <2>2. CASE pos # 0
    <3>1. Execute(t, cmd) = [table |-> change_password(t, cmd.name, cmd.pass).table,
                             answer |-> "OK"]
      BY <1>6, <2>2 DEF Execute, changePassword, AnswerFor, change_password
    <3>2. cmd.pass \in Password
      BY <1>6 DEF Command
    <3>3. AccountsOf(change_password(t, cmd.name, cmd.pass).table)
              = Service!Having(d, cmd.name, cmd.pass)
      BY <2>2, <3>2, ChangeActs
    <3>. QED
      BY <1>2, <1>6, <2>2, <3>1, <3>3 DEF Service!Outcome
  <2>. QED
    BY <2>1, <2>2
<1>7. CASE cmd.op \in {"query", "CP_DISSECTOR_ON", "CP_DISSECTOR_OFF", "malformed"}
  <2>1. Execute(t, cmd) = [table |-> t, answer |-> CASE cmd.op = "malformed" -> "CPERROR_INVALID_FORMAT"
                             [] cmd.op = "query" -> "DATA" [] OTHER -> "OK"]
    BY <1>7 DEF Execute
  <2>. QED
    BY <1>7, <2>1 DEF Service!Outcome
<1>. QED
  BY <1>4, <1>5, <1>6, <1>7 DEF Command

-----------------------------------------------------------------------------
(* Whole messages in what the client has sent.                             *)

(* Joining sequences, element by element.                                  *)
LEMMA Joined ==
    ASSUME NEW x \in Seq(Pieces), NEW y \in Seq(Pieces)
    PROVE  /\ x \o y \in Seq(Pieces) /\ Len(x \o y) = Len(x) + Len(y)
           /\ \A i \in 1..Len(x) : (x \o y)[i] = x[i]
           /\ \A i \in 1..Len(y) : (x \o y)[Len(x) + i] = y[i]
PROOF
  OBVIOUS

LEMMA EndsAreFinite ==
    ASSUME NEW q \in Seq(Pieces)
    PROVE  Ends(q) \subseteq 1..Len(q) /\ IsFiniteSet(Ends(q)) /\ Cardinality(Ends(q)) \in Nat
PROOF
<1>1. 1 \in Int /\ Len(q) \in Int
  OBVIOUS
<1>2. Ends(q) \in SUBSET (1..Len(q))
  BY DEF Ends
<1>3. IsFiniteSet(1..Len(q))
  BY <1>1, FS_Interval
<1>. HIDE DEF Ends
<1>4. IsFiniteSet(Ends(q))
  BY <1>2, <1>3, FS_Subset
<1>. QED
  BY <1>2, <1>4, FS_CardinalityType

(* One more piece is one more message if it ends one.                      *)
LEMMA EndsOfAppend ==
    ASSUME NEW q \in Seq(Pieces), NEW p \in Pieces
    PROVE  Cardinality(Ends(Append(q, p))) = Cardinality(Ends(q)) + One(p = "end")
PROOF
<1>. DEFINE n == Len(q)
            a == Append(q, p)
<1>1. n \in Nat
  OBVIOUS
<1>2. Len(a) = n + 1 /\ a[n + 1] = p /\ \A i \in 1..n : a[i] = q[i]
  OBVIOUS
<1>3. Ends(q) \subseteq 1..n /\ IsFiniteSet(Ends(q)) /\ Cardinality(Ends(q)) \in Nat
  BY EndsAreFinite
<1>4. n + 1 \notin Ends(q)
  BY <1>1, <1>3
<1>. HIDE DEF a
<1>5. Ends(a) = IF p = "end" THEN Ends(q) \cup {n + 1} ELSE Ends(q)
  <2>1. \A i : i \in Ends(a) <=> i \in 1..(n + 1) /\ a[i] = "end"
    BY <1>2 DEF Ends
  <2>2. \A i : i \in Ends(q) <=> i \in 1..n /\ q[i] = "end"
    BY DEF Ends
  <2>3. \A i : i \in 1..(n + 1) <=> i \in 1..n \/ i = n + 1
    BY <1>1
  <2>4. CASE p = "end"
    BY <1>2, <2>1, <2>2, <2>3, <2>4
  <2>5. CASE p # "end"
    BY <1>2, <2>1, <2>2, <2>3, <2>5
  <2>. QED
    BY <2>4, <2>5
<1>6. Cardinality(Ends(q) \cup {n + 1}) = Cardinality(Ends(q)) + 1
  BY <1>3, <1>4, FS_AddElement
<1>. HIDE DEF n
<1>. QED
  BY <1>3, <1>5, <1>6 DEF One, a

(* What a parser consumes is one message if it finds its end, and none     *)
(* otherwise.                                                              *)
LEMMA EndsOfRest ==
    ASSUME NEW q \in Seq(Pieces), NEW r \in Seq(Pieces)
    PROVE  LET rest == SubSeq(q, Consumed(q) + 1, Len(q))
           IN  Cardinality(Ends(q \o r)) =
                   Cardinality(Ends(rest \o r)) + One(Verdict(q) = "end")
PROOF
<1>. DEFINE k == Consumed(q)
            rest == SubSeq(q, k + 1, Len(q))
            a == q \o r
            b == rest \o r
            A == {i \in Ends(a) : i > k}
            f == [i \in Ends(b) |-> i + k]
<1>1. k \in 0..Len(q) /\ Len(q) \in Nat /\ Len(r) \in Nat
  BY ParserStops
<1>2. \A i \in 1..k : q[i] = "end" <=> i = k /\ Verdict(q) = "end"
  <2>1. CASE Stops(q) = {}
    BY <1>1, <2>1 DEF Stops, Verdict
  <2>2. CASE Stops(q) # {}
    <3>1. k \in 1..Len(q) /\ Verdict(q) = q[k]
      BY <2>2, FirstStop DEF Verdict, Stops
    <3>2. \A i \in 1..k : i # k => i \notin Stops(q)
      BY <1>1, <2>2, FirstStop
    <3>3. \A i \in 1..k : i # k => q[i] = "part"
      BY <1>1, <3>2 DEF Stops
    <3>. QED
      BY <3>1, <3>3
  <2>. QED
    BY <2>1, <2>2
<1>3. Verdict(q) = "end" => k \in 1..k
  <2>1. Verdict(q) = "end" => Stops(q) # {}
    BY DEF Verdict
  <2>2. Stops(q) # {} => k \in 1..Len(q)
    BY FirstStop DEF Stops
  <2>. QED
    BY <2>1, <2>2
<1>4. rest \in Seq(Pieces) /\ Len(rest) = Len(q) - k
      /\ \A i \in 1..Len(rest) : rest[i] = q[i + k]
  BY <1>1
<1>. HIDE DEF rest, k
<1>5. a \in Seq(Pieces) /\ Len(a) = Len(q) + Len(r)
      /\ (\A i \in 1..Len(q) : a[i] = q[i])
      /\ (\A i \in 1..Len(r) : a[Len(q) + i] = r[i])
  BY Joined
<1>6. b \in Seq(Pieces) /\ Len(b) = Len(rest) + Len(r)
      /\ (\A i \in 1..Len(rest) : b[i] = rest[i])
      /\ (\A i \in 1..Len(r) : b[Len(rest) + i] = r[i])
  BY <1>4, Joined
<1>. HIDE DEF a, b
<1>7. Len(a) = Len(b) + k
  BY <1>1, <1>4, <1>5, <1>6
<1>8. ASSUME NEW i \in 1..Len(b) PROVE i + k \in 1..Len(a) /\ b[i] = a[i + k]
  <2>1. i + k \in 1..Len(a)
    BY <1>1, <1>4, <1>5, <1>6
  <2>2. CASE i \in 1..Len(rest)
    <3>1. i + k \in 1..Len(q)
      BY <1>1, <1>4, <2>2
    <3>. QED
      BY <1>4, <1>5, <1>6, <2>1, <2>2, <3>1
  <2>3. CASE i \notin 1..Len(rest)
    <3>1. i - Len(rest) \in 1..Len(r)
      BY <1>1, <1>4, <1>6, <2>3
    <3>2. Len(rest) + (i - Len(rest)) = i /\ Len(q) + (i - Len(rest)) = i + k
      BY <1>1, <1>4
    <3>. QED
      BY <1>5, <1>6, <2>1, <3>1, <3>2
  <2>. QED
    BY <2>2, <2>3
<1>9. f \in Bijection(Ends(b), A)
  <2>1. \A i \in Ends(b) : i + k \in A
    BY <1>1, <1>8 DEF Ends
  <2>2. \A j \in A : j - k \in Ends(b) /\ (j - k) + k = j
    <3>. SUFFICES ASSUME NEW j \in A PROVE j - k \in Ends(b) /\ (j - k) + k = j
      OBVIOUS
    <3>1. j \in 1..Len(a) /\ j > k /\ a[j] = "end"
      BY DEF Ends
    <3>2. j - k \in 1..Len(b) /\ (j - k) + k = j
      BY <1>1, <1>4, <1>6, <1>7, <3>1
    <3>3. b[j - k] = a[j]
      BY <1>8, <3>2
    <3>. QED
      BY <3>1, <3>2, <3>3 DEF Ends
  <2>3. \A i, j \in Ends(b) : i + k = j + k => i = j
    BY <1>1 DEF Ends
  <2>. HIDE DEF A
  <2>4. f \in [Ends(b) -> A]
    BY <2>1
  <2>5. \A i, j \in DOMAIN f : f[i] = f[j] => i = j
    BY <2>3
  <2>6. \A j \in A : \E i \in Ends(b) : f[i] = j
    BY <2>2
  <2>. HIDE DEF f
  <2>. QED
    BY <2>4, <2>5, <2>6 DEF Bijection, Injection, Surjection, IsInjective
<1>10. IsFiniteSet(Ends(a)) /\ IsFiniteSet(Ends(b)) /\ Cardinality(Ends(b)) \in Nat
  BY <1>5, <1>6, EndsAreFinite
<1>. HIDE DEF f
<1>11. IsFiniteSet(A) /\ Cardinality(A) = Cardinality(Ends(b))
  <2>. HIDE DEF A
  <2>. QED
    BY <1>9, <1>10, FS_Bijection DEF ExistsBijection
<1>12. Ends(a) = IF Verdict(q) = "end" THEN A \cup {k} ELSE A
  <2>1. \A i : i \in Ends(a) <=> i \in 1..Len(a) /\ a[i] = "end"
    BY DEF Ends
  <2>2. \A i \in 1..k : i \in 1..Len(a) /\ a[i] = q[i]
    BY <1>1, <1>5
  <2>3. \A i \in 1..k : i \in Ends(a) <=> i = k /\ Verdict(q) = "end"
    BY <1>2, <2>1, <2>2
  <2>4. \A i \in Ends(a) : i \in 1..k \/ i > k
    BY <1>1, <1>5, <2>1
  <2>5. CASE Verdict(q) = "end"
    BY <1>1, <1>3, <2>3, <2>4, <2>5
  <2>6. CASE Verdict(q) # "end"
    BY <1>1, <2>3, <2>4, <2>6
  <2>. QED
    BY <2>5, <2>6
<1>13. k \notin A
  BY <1>1
<1>. HIDE DEF A
<1>. QED
  BY <1>10, <1>11, <1>12, <1>13, FS_AddElement DEF One, a, b, rest, k

-----------------------------------------------------------------------------
(* Whose turn it is.  A command is known from the moment its message was   *)
(* whole until it is carried out, and then nothing is waiting to be sent,  *)
(* so that its answer is written by the same handler.                      *)

InTurn(c) ==
    /\ c.state = "CP_HELLO"   => ~c.authAnsWritten
    /\ c.state = "CP_AUTH"    => c.helloWritten /\ (c.authAnsWritten => c.interest = OP_WRITE)
    /\ c.state = "CP_EXECUTE" => c.helloWritten /\ c.authAnsWritten
    /\ \/ c.state = "CP_EXECUTE" /\ c.interest = OP_WRITE /\ c.execAnsWritten
       \/ ~c.execAnsWritten /\ c.execAnswer = NoAnswer
    /\ c.command # NoCommand =>
          /\ c.state = "CP_EXECUTE" /\ c.interest = OP_WRITE
          /\ ~c.execAnsWritten /\ ~buffer_can_read(c.writeBuffer)

Sound ==
    /\ Inv
    /\ InTurn(cpc)
    /\ ~live => pending = <<>> /\ wire = <<>> /\ answered = "none"

LEMMA NewInTurn == InTurn(newControlProtConn)
PROOF
  BY DEF newControlProtConn, InTurn, NoCommand

(* An empty buffer has room for any answer.                                *)
LEMMA RoomWhenEmpty ==
    ASSUME NEW c, ConnOK(c), ~buffer_can_read(c.writeBuffer), NEW n \in {1, 2}
    PROVE  n <= WriteSpace(c.writeBuffer)
PROOF
  BY ControlAssumption, LimitAssumption
     DEF ConnOK, Conns, Buffers, Pointers, WellFormed, Compacted, buffer_can_read, WriteSpace

(* What each write handler does, its buffer aside.                         *)
LEMMA HelloWrites ==
    ASSUME NEW c, ConnOK(c), InTurn(c), c.state = "CP_HELLO", c.interest = OP_WRITE
    PROVE  LET d == helloWrite(c)
           IN  /\ InTurn(d)
               /\ d.command = NoCommand /\ c.command = NoCommand
               /\ ~d.authAnsWritten /\ ~c.authAnsWritten
               /\ ~d.execAnsWritten
               /\ c.helloWritten => d.helloWritten
               /\ d.state = "CP_AUTH" => d.interest = OP_READ
PROOF
<1>. DEFINE b == buffer_write_adv(c.writeBuffer, HelloSize)
<1>1. helloWrite(c) = IF c.helloWritten /\ ~buffer_can_read(c.writeBuffer)
         THEN [c EXCEPT !.interest = OP_READ, !.state = "CP_AUTH"]
         ELSE IF c.helloWritten THEN c
         ELSE IF HelloSize > WriteSpace(c.writeBuffer) THEN [c EXCEPT !.state = "CP_ERROR"]
         ELSE [c EXCEPT !.writeBuffer = b, !.helloWritten = TRUE]
  BY DEF helloWrite
<1>. HIDE DEF b
<1>. QED
  BY <1>1 DEF InTurn, ConnOK, Conns, OP_READ, OP_WRITE

LEMMA AuthWrites ==
    ASSUME NEW c, ConnOK(c), InTurn(c), c.state = "CP_AUTH", c.interest = OP_WRITE
    PROVE  LET d == authWrite(c)
           IN  /\ InTurn(d)
               /\ d.command = NoCommand /\ c.command = NoCommand
               /\ c.helloWritten /\ d.helloWritten
               /\ ~d.execAnsWritten
               /\ IF AnswersAuth(c)
                  THEN /\ ~c.authAnsWritten /\ d.authAnsWritten = c.validPassword
                       /\ ~d.authAnsWritten => d.interest = OP_READ
                  ELSE /\ d.authAnsWritten = c.authAnsWritten
                       /\ ~c.authAnsWritten => d = c
PROOF
<1>. DEFINE b == buffer_write_adv(c.writeBuffer, AuthSize)
<1>1. authWrite(c) = IF c.authAnsWritten /\ ~buffer_can_read(c.writeBuffer)
         THEN [c EXCEPT !.interest = OP_READ, !.state = "CP_EXECUTE"]
         ELSE IF AnswersAuth(c)
         THEN [c EXCEPT !.writeBuffer = b, !.authAnsWritten = c.validPassword,
                        !.interest = IF c.validPassword THEN c.interest ELSE OP_READ]
         ELSE c
  BY DEF authWrite, AnswerAuth
<1>2. AnswersAuth(c) => ~c.authAnsWritten
  BY DEF AnswersAuth
<1>. HIDE DEF b
<1>. QED
  BY <1>1, <1>2 DEF InTurn, ConnOK, Conns, OP_READ, OP_WRITE

LEMMA ExecuteWrites ==
    ASSUME NEW c, ConnOK(c), InTurn(c), c.state = "CP_EXECUTE", c.interest = OP_WRITE
    PROVE  LET d == executeWrite(c)
           IN  /\ InTurn(d)
               /\ d.command = NoCommand
               /\ c.helloWritten /\ d.helloWritten /\ c.authAnsWritten /\ d.authAnsWritten
               /\ IF Executes(c)
                  THEN /\ c.command \in Command /\ ~c.execAnsWritten /\ d.execAnsWritten
                       /\ d.execAnswer = Execute(table, c.command).answer
                  ELSE c.command = NoCommand /\ c.execAnsWritten
PROOF
<1>1. CASE Executes(c)
  <2>. DEFINE a == Execute(table, c.command).answer
              n == AnswerSize(a)
              b == buffer_write_adv(c.writeBuffer, n)
  <2>1. c.command \in Command /\ c.command # NoCommand /\ ~c.execAnsWritten
    BY <1>1 DEF Executes, ConnOK, Conns
  <2>2. n \in {1, 2}
    BY DEF AnswerSize
  <2>3. n <= WriteSpace(c.writeBuffer)
    BY <2>1, <2>2, RoomWhenEmpty DEF InTurn
  <2>4. ~(n > WriteSpace(c.writeBuffer))
    BY <2>2, <2>3, LimitAssumption DEF ConnOK, Conns, WriteSpace, Pointers
  <2>5. executeWrite(c) = WriteExecAnswer([c EXCEPT !.execAnswer = a])
    BY <1>1, <2>1 DEF executeWrite
  <2>. HIDE DEF a
  <2>6. executeWrite(c) = [c EXCEPT !.execAnswer = a, !.writeBuffer = b,
                                    !.execAnsWritten = TRUE, !.command = NoCommand]
    BY <2>4, <2>5 DEF WriteExecAnswer, ConnOK, Conns
  <2>. HIDE DEF b, n
  <2>. QED
    BY <1>1, <2>1, <2>6 DEF InTurn, ConnOK, Conns, a
<1>2. CASE ~Executes(c)
  <2>1. c.command = NoCommand /\ c.execAnsWritten
    BY <1>2 DEF Executes, ConnOK, HasCommand, InTurn
  <2>2. executeWrite(c) = IF buffer_can_read(c.writeBuffer) THEN c
           ELSE [c EXCEPT !.execAnsWritten = FALSE, !.execAnswer = NoAnswer,
                          !.interest = OP_READ]
    BY <2>1 DEF executeWrite
  <2>. QED
    BY <1>2, <2>1, <2>2 DEF InTurn, ConnOK, Conns
<1>. QED
  BY <1>1, <1>2

-----------------------------------------------------------------------------
(* The mapping, while the connection is open and when it is not.           *)

PhaseOf(c) == IF ~c.helloWritten THEN "hello" ELSE IF ~c.authAnsWritten THEN "auth" ELSE "ready"
DueOf(c)   == c.state = "CP_AUTH" /\ c.interest = OP_WRITE /\ ~c.authAnsWritten
Messages   == Cardinality(Ends(pending \o wire))

LEMMA OpenMaps ==
    ASSUME live, up
    PROVE  /\ Phase = PhaseOf(cpc)
           /\ Todo = Messages + One(DueOf(cpc)) + One(cpc.command # NoCommand)
PROOF
  BY DEF Phase, PhaseOf, Todo, Messages, AuthDue, DueOf

LEMMA OpenMapsNext ==
    ASSUME live', up'
    PROVE  /\ Phase' = PhaseOf(cpc')
           /\ Todo' = Messages' + One(DueOf(cpc')) + One(cpc'.command # NoCommand)
PROOF
  BY DEF Phase, PhaseOf, Todo, Messages, AuthDue, DueOf

LEMMA SameCommands == Service!NoCommand = NoCommand /\ Service!Command = Command
PROOF
  BY DEF NoCommand, Service!NoCommand, Command, Service!Command

LEMMA AccountsMap == Accounts = AccountsOf(table) /\ Accounts' = AccountsOf(table')
PROOF
  BY DEF Accounts, AccountsOf

LEMMA MessagesType == ASSUME TypeOK PROVE Messages \in Nat
PROOF
<1>1. pending \o wire \in Seq(Pieces)
  BY Joined DEF TypeOK
<1>. QED
  BY <1>1, EndsAreFinite DEF Messages

(* Carrying out the command that was read is what the service does with it. *)
LEMMA ExecutedIsObeyed ==
    ASSUME Sound, live, up, Executes(cpc), Effects(cpc)
    PROVE  /\ cpc.command \in Command /\ cpc.command # NoCommand
           /\ Accounts' = Service!Outcome(Accounts, cpc.command)[1]
           /\ Execute(table, cpc.command).answer = Service!Outcome(Accounts, cpc.command)[2]
           /\ sniffer_state' = Service!Switched(cpc.command)
           /\ by' = "client"
PROOF
<1>1. cpc.command \in Command /\ cpc.command # NoCommand
  BY DEF Executes, Sound, Inv, ConnOK, Conns
<1>2. GoodTable(table)
  BY DEF Sound, Inv
<1>3. table' = Execute(table, cpc.command).table
      /\ sniffer_state' = switchPassDissectors(sniffer_state, cpc.command) /\ by' = "client"
  BY DEF Effects
<1>4. Service!Outcome(Accounts, cpc.command)
        = <<AccountsOf(Execute(table, cpc.command).table), Execute(table, cpc.command).answer>>
  BY <1>1, <1>2, CommandActs, AccountsMap
<1>5. Accounts' = AccountsOf(Execute(table, cpc.command).table)
  BY <1>3, AccountsMap
<1>6. sniffer_state' = Service!Switched(cpc.command)
  BY <1>3 DEF switchPassDissectors, Service!Switched
<1>. QED
  BY <1>1, <1>3, <1>4, <1>5, <1>6

-----------------------------------------------------------------------------
(* Every step of the connection is one of the service, or none.            *)

LEMMA WriteHandlerServes ==
    ASSUME Sound, cpWriteHandler
    PROVE  InTurn(cpc') /\ (Service!Next \/ UNCHANGED Service!vars)
PROOF
<1>. DEFINE d == stm_handler_write(cpc)
            M == Messages
<1>1. /\ live /\ up /\ live' = live /\ up' = up
      /\ cpc.interest = OP_WRITE /\ cpc.state # "CP_ERROR"
      /\ UNCHANGED <<pending, wire>> /\ answered' = Answered(cpc, d) /\ Effects(cpc)
  BY DEF cpWriteHandler, Handle, Event, netVars
<1>2. ConnOK(cpc) /\ InTurn(cpc) /\ TypeOK /\ GoodTable(table)
  BY DEF Sound, Inv
<1>3. ConnOK(d)
  BY <1>1, <1>2, WriteKeeps
<1>4. PICK w : cpc' = [d EXCEPT !.writeBuffer = w]
  <2>1. CASE cpc' = d
    <3>1. d = [d EXCEPT !.writeBuffer = d.writeBuffer]
      BY <1>3 DEF ConnOK, Conns
    <3>. QED
      BY <2>1, <3>1
  <2>2. CASE cpc' # d
    <3>1. PICK n \in 1..Pending(d.writeBuffer) :
             cpc' = [d EXCEPT !.writeBuffer = buffer_read_adv(@, n)]
      BY <2>2 DEF cpWriteHandler
    <3>. QED
      BY <3>1
  <2>. QED
    BY <2>1, <2>2
<1>. HIDE DEF d
<1>5. /\ cpc'.state = d.state /\ cpc'.interest = d.interest /\ cpc'.command = d.command
      /\ cpc'.execAnswer = d.execAnswer /\ cpc'.helloWritten = d.helloWritten
      /\ cpc'.authAnsWritten = d.authAnsWritten /\ cpc'.execAnsWritten = d.execAnsWritten
  BY <1>3, <1>4 DEF ConnOK, Conns
<1>6. InTurn(d) /\ d.command = NoCommand => InTurn(cpc')
  BY <1>5 DEF InTurn
<1>7. /\ Phase = PhaseOf(cpc) /\ Phase' = PhaseOf(d)
      /\ Todo = M + One(DueOf(cpc)) + One(cpc.command # NoCommand)
      /\ Todo' = M + One(DueOf(d)) + One(d.command # NoCommand)
  <2>1. Messages' = M
    BY <1>1 DEF Messages
  <2>2. PhaseOf(cpc') = PhaseOf(d) /\ DueOf(cpc') = DueOf(d)
    BY <1>5 DEF PhaseOf, DueOf
  <2>. QED
    BY <1>1, <1>5, <2>1, <2>2, OpenMaps, OpenMapsNext
<1>8. M \in Nat
  BY <1>2, MessagesType
<1>. HIDE DEF M
<1>9. CASE cpc.state = "CP_HELLO"
  <2>1. d = helloWrite(cpc)
    BY <1>9 DEF d, stm_handler_write
  <2>2. /\ InTurn(d) /\ d.command = NoCommand /\ cpc.command = NoCommand
        /\ ~d.authAnsWritten /\ ~cpc.authAnsWritten /\ ~d.execAnsWritten
        /\ cpc.helloWritten => d.helloWritten
        /\ d.state = "CP_AUTH" => d.interest = OP_READ
    BY <1>1, <1>2, <1>9, <2>1, HelloWrites
  <2>3. ~Executes(cpc) /\ ~AnswersAuth(cpc)
    BY <1>9 DEF Executes, AnswersAuth
  <2>4. UNCHANGED usersVars /\ answered' = answered
    BY <1>1, <2>2, <2>3 DEF Effects, Answered
  <2>5. Todo' = Todo
    BY <1>7, <1>9, <2>2 DEF DueOf, OP_READ, OP_WRITE
  <2>6. Accounts' = Accounts
    BY <2>4, AccountsMap DEF usersVars
  <2>7. Phase' = Phase \/ (Phase = "hello" /\ Phase' = "auth")
    BY <1>7, <2>2 DEF PhaseOf
  <2>. QED
    BY <1>1, <1>5, <1>6, <2>2, <2>4, <2>5, <2>6, <2>7
       DEF Service!Next, Service!Greet, Service!vars, Service!users, usersVars
<1>10. CASE cpc.state = "CP_AUTH"
  <2>1. d = authWrite(cpc)
    BY <1>10 DEF d, stm_handler_write
  <2>2. /\ InTurn(d) /\ d.command = NoCommand /\ cpc.command = NoCommand
        /\ cpc.helloWritten /\ d.helloWritten /\ ~d.execAnsWritten
        /\ IF AnswersAuth(cpc)
           THEN /\ ~cpc.authAnsWritten /\ d.authAnsWritten = cpc.validPassword
                /\ ~d.authAnsWritten => d.interest = OP_READ
           ELSE d.authAnsWritten = cpc.authAnsWritten /\ (~cpc.authAnsWritten => d = cpc)
    BY <1>1, <1>2, <1>10, <2>1, AuthWrites
  <2>3. ~Executes(cpc)
    BY <1>10 DEF Executes
  <2>4. UNCHANGED usersVars
    BY <1>1, <2>3 DEF Effects
  <2>5. Accounts' = Accounts
    BY <2>4, AccountsMap DEF usersVars
  <2>6. CASE AnswersAuth(cpc)
    <3>1. answered' = IF cpc.validPassword THEN "password accepted" ELSE "password refused"
      BY <1>1, <2>2, <2>6 DEF Answered
    <3>2. Phase = "auth" /\ Phase' = IF cpc.validPassword THEN "ready" ELSE "auth"
      BY <1>2, <1>7, <2>2, <2>6 DEF PhaseOf, ConnOK, Conns
    <3>3. Todo = M + 1 /\ Todo' = M
      BY <1>1, <1>7, <1>8, <1>10, <2>2, <2>6 DEF DueOf, One, OP_READ, OP_WRITE
    <3>4. Todo > 0 /\ Todo' = Todo - 1
      BY <1>8, <3>3
    <3>5. Service!CheckPassword
      BY <1>1, <1>5, <2>2, <2>4, <2>5, <3>1, <3>2, <3>4
         DEF Service!CheckPassword, Service!users, usersVars
    <3>. QED
      BY <1>6, <2>2, <3>5 DEF Service!Next
  <2>7. CASE ~AnswersAuth(cpc)
    <3>1. answered' = answered
      BY <1>1, <2>2, <2>7 DEF Answered
    <3>2. Phase' = Phase
      BY <1>7, <2>2, <2>7 DEF PhaseOf
    <3>3. Todo' = Todo
      BY <1>7, <2>2, <2>7 DEF DueOf
    <3>. QED
      BY <1>1, <1>5, <1>6, <2>2, <2>4, <2>5, <3>1, <3>2, <3>3
         DEF Service!vars, Service!users, usersVars
  <2>. QED
    BY <2>6, <2>7
<1>11. CASE cpc.state = "CP_EXECUTE"
  <2>1. d = executeWrite(cpc)
    BY <1>11 DEF d, stm_handler_write
  <2>2. /\ InTurn(d) /\ d.command = NoCommand
        /\ cpc.helloWritten /\ d.helloWritten /\ cpc.authAnsWritten /\ d.authAnsWritten
        /\ IF Executes(cpc)
           THEN /\ cpc.command \in Command /\ ~cpc.execAnsWritten /\ d.execAnsWritten
                /\ d.execAnswer = Execute(table, cpc.command).answer
           ELSE cpc.command = NoCommand /\ cpc.execAnsWritten
    BY <1>1, <1>2, <1>11, <2>1, ExecuteWrites
  <2>3. Phase = "ready" /\ Phase' = "ready"
    BY <1>7, <2>2 DEF PhaseOf
  <2>4. ~AnswersAuth(cpc)
    BY <1>11 DEF AnswersAuth
  <2>5. CASE Executes(cpc)
    <3>1. /\ cpc.command # NoCommand
          /\ Accounts' = Service!Outcome(Accounts, cpc.command)[1]
          /\ Execute(table, cpc.command).answer = Service!Outcome(Accounts, cpc.command)[2]
          /\ sniffer_state' = Service!Switched(cpc.command)
          /\ by' = "client"
      BY <1>1, <2>5, ExecutedIsObeyed
    <3>2. answered' = Service!Outcome(Accounts, cpc.command)[2]
      BY <1>1, <2>2, <2>5, <3>1 DEF Answered
    <3>3. Todo = M + 1 /\ Todo' = M
      BY <1>7, <1>8, <2>2, <3>1 DEF DueOf, One
    <3>4. Todo' = Todo - 1
      BY <1>8, <3>3
    <3>5. Service!Obey
      BY <1>1, <1>5, <2>2, <2>3, <3>1, <3>2, <3>4, SameCommands
         DEF Service!Obey, Service!Obeyed
    <3>. QED
      BY <1>6, <2>2, <3>5 DEF Service!Next
  <2>6. CASE ~Executes(cpc)
    <3>1. UNCHANGED usersVars /\ answered' = answered
      BY <1>1, <2>2, <2>4, <2>6 DEF Effects, Answered
    <3>2. Accounts' = Accounts
      BY <3>1, AccountsMap DEF usersVars
    <3>3. Todo' = Todo
      BY <1>7, <2>2, <2>6 DEF DueOf
    <3>. QED
      BY <1>1, <1>5, <1>6, <2>2, <2>3, <2>6, <3>1, <3>2, <3>3
         DEF Service!vars, Service!users, usersVars
  <2>. QED
    BY <2>5, <2>6
<1>. QED
  BY <1>1, <1>2, <1>9, <1>10, <1>11 DEF ConnOK, HasHandler, Conns, CpStates

(* Freeing the connection closes it, and is a step of the service whether  *)
(* or not a command was carried out before it.                             *)
LEMMA ClosedServes ==
    ASSUME Sound, live, up, ~(live' /\ up'),
           UNCHANGED usersVars \/ (Executes(cpc) /\ Effects(cpc))
    PROVE  Service!Next
PROOF
<1>1. Phase # "closed" /\ Phase' = "closed" /\ Todo' = 0
  BY DEF Phase, Todo
<1>2. Service!Closed
  BY <1>1 DEF Service!Closed
<1>3. CASE UNCHANGED usersVars
  <2>1. Accounts' = Accounts
    BY <1>3, AccountsMap DEF usersVars
  <2>. QED
    BY <1>2, <1>3, <2>1, SameCommands
       DEF Service!Next, Service!Close, Service!users, usersVars
<1>4. CASE Executes(cpc) /\ Effects(cpc)
  <2>1. /\ cpc.command # NoCommand
        /\ Accounts' = Service!Outcome(Accounts, cpc.command)[1]
        /\ sniffer_state' = Service!Switched(cpc.command)
        /\ by' = "client"
    BY <1>4, ExecutedIsObeyed
  <2>. QED
    BY <1>2, <2>1, SameCommands
       DEF Service!Next, Service!ObeyAndClose, Service!Obeyed
<1>. QED
  BY <1>3, <1>4

LEMMA LostServes ==
    ASSUME Sound, cpWriteFails \/ cpWriteSigpipe \/ cpReadEnds \/ cpError
    PROVE  Service!Next /\ InTurn(cpc')
           /\ (~live' => pending' = <<>> /\ wire' = <<>> /\ answered' = "none")
PROOF
<1>1. CASE cpWriteFails \/ cpReadEnds \/ cpError
  <2>1. live /\ up /\ Free
    BY <1>1 DEF cpWriteFails, cpReadEnds, cpError, Handle, Event
  <2>2. UNCHANGED usersVars \/ (Executes(cpc) /\ Effects(cpc))
    BY <1>1 DEF cpWriteFails, cpReadEnds, cpError, Effects
  <2>. QED
    BY <2>1, <2>2, ClosedServes, NewInTurn DEF Free
<1>2. CASE cpWriteSigpipe
  <2>1. live /\ up /\ ~up' /\ UNCHANGED connVars
    BY <1>2 DEF cpWriteSigpipe, Handle, Event
  <2>2. UNCHANGED usersVars \/ (Executes(cpc) /\ Effects(cpc))
    BY <1>2 DEF cpWriteSigpipe, Effects
  <2>. QED
    BY <2>1, <2>2, ClosedServes DEF Sound, connVars, netVars
<1>. QED
  BY <1>1, <1>2

(* What each read handler makes of the bytes: a message that is whole and  *)
(* one that waits for its answer are never counted both or neither.        *)
LEMMA HandlerReads ==
    ASSUME NEW c \in Conns, Scheduled(c), InTurn(c), c.interest = OP_READ,
           NEW q, Verdict(q) \in Pieces,
           c.state \in {"CP_AUTH", "CP_EXECUTE"}, NEW d \in stm_handler_read(c, q)
    PROVE  /\ InTurn(d) /\ PhaseOf(d) = PhaseOf(c)
           /\ One(DueOf(d)) + One(d.command # NoCommand) = One(Verdict(q) = "end")
           /\ \/ d.command = NoCommand
              \/ d.command \in Command /\ Verdict(q) = "end" /\ PhaseOf(d) = "ready"
PROOF
<1>. DEFINE p == Parsed(c, q)
<1>1. /\ p.state = c.state /\ p.interest = c.interest /\ p.command = c.command
      /\ p.execAnswer = c.execAnswer /\ p.helloWritten = c.helloWritten
      /\ p.authAnsWritten = c.authAnsWritten /\ p.execAnsWritten = c.execAnsWritten
      /\ p.writeBuffer = c.writeBuffer /\ DOMAIN p = DOMAIN c
  BY DEF Parsed, Conns
<1>2. c.command = NoCommand /\ ~c.execAnsWritten /\ c.execAnswer = NoAnswer
  BY DEF InTurn, OP_READ, OP_WRITE
<1>. DEFINE rejected == [p EXCEPT !.state = "CP_ERROR"]
<1>3. rejected.state = "CP_ERROR" /\ rejected.interest = c.interest
      /\ rejected.command = c.command /\ rejected.execAnswer = c.execAnswer
      /\ rejected.helloWritten = c.helloWritten /\ rejected.authAnsWritten = c.authAnsWritten
      /\ rejected.execAnsWritten = c.execAnsWritten
  BY <1>1 DEF Conns
<1>. HIDE DEF p, rejected
<1>4. CASE Verdict(q) = "part"
  <2>1. d = p
    BY <1>4 DEF stm_handler_read, authRead, executeRead, p
  <2>. QED
    BY <1>1, <1>2, <1>4, <2>1 DEF InTurn, PhaseOf, DueOf, One, OP_READ, OP_WRITE
<1>5. CASE Verdict(q) = "bad"
  <2>1. d = rejected
    BY <1>5 DEF stm_handler_read, authRead, executeRead, p, rejected
  <2>. QED
    BY <1>2, <1>3, <1>5, <2>1 DEF InTurn, PhaseOf, DueOf, One, OP_READ, OP_WRITE
<1>6. CASE Verdict(q) = "end" /\ c.state = "CP_AUTH"
  <2>1. PICK ok \in BOOLEAN : d = [p EXCEPT !.validPassword = ok, !.interest = OP_WRITE]
    BY <1>6 DEF stm_handler_read, authRead, p
  <2>2. /\ d.state = c.state /\ d.interest = OP_WRITE /\ d.command = c.command
        /\ d.execAnswer = c.execAnswer /\ d.helloWritten = c.helloWritten
        /\ d.authAnsWritten = c.authAnsWritten /\ d.execAnsWritten = c.execAnsWritten
    BY <1>1, <2>1 DEF Conns
  <2>3. ~c.authAnsWritten
    BY <1>6 DEF InTurn, OP_READ, OP_WRITE
  <2>. QED
    BY <1>2, <1>6, <2>2, <2>3 DEF InTurn, PhaseOf, DueOf, One
<1>7. CASE Verdict(q) = "end" /\ c.state = "CP_EXECUTE"
  <2>1. PICK cmd \in Command : d = [p EXCEPT !.command = cmd, !.interest = OP_WRITE]
    BY <1>7 DEF stm_handler_read, executeRead, p
  <2>2. /\ d.state = c.state /\ d.interest = OP_WRITE /\ d.command = cmd
        /\ d.execAnswer = c.execAnswer /\ d.helloWritten = c.helloWritten
        /\ d.authAnsWritten = c.authAnsWritten /\ d.execAnsWritten = c.execAnsWritten
        /\ d.writeBuffer = c.writeBuffer
    BY <1>1, <2>1 DEF Conns
  <2>3. ~buffer_can_read(c.writeBuffer)
    BY <1>7 DEF Scheduled, OP_READ, OP_WRITE
  <2>4. cmd # NoCommand
    BY NoCommandIsNone
  <2>. QED
    BY <1>2, <1>7, <2>2, <2>3, <2>4 DEF InTurn, PhaseOf, DueOf, One
<1>. QED
  BY <1>4, <1>5, <1>6, <1>7 DEF Pieces

(* A whole message that was read is a command taken up, or a password to   *)
(* be checked; it counts as unanswered before and after.                   *)
LEMMA ReadHandlerServes ==
    ASSUME Sound, cpReadHandler
    PROVE  InTurn(cpc') /\ Service!Next
PROOF
<1>1. PICK n \in Received :
        LET c == [cpc EXCEPT !.readBuffer = buffer_write_adv(@, n)]
            q == pending \o SubSeq(wire, 1, n)
        IN  /\ cpc' \in stm_handler_read(c, q)
            /\ pending' = SubSeq(q, Consumed(q) + 1, Len(q))
            /\ wire' = SubSeq(wire, n + 1, Len(wire))
  BY DEF cpReadHandler
<1>. DEFINE b == buffer_write_adv(cpc.readBuffer, n)
            c == [cpc EXCEPT !.readBuffer = b]
            q == pending \o SubSeq(wire, 1, n)
            r == SubSeq(wire, n + 1, Len(wire))
            M == Messages
<1>2. /\ live /\ up /\ live' = live /\ up' = up /\ answered' = "none"
      /\ cpc.interest = OP_READ /\ cpc.state # "CP_ERROR" /\ UNCHANGED usersVars
  BY DEF cpReadHandler, Handle, Event
<1>3. /\ cpc \in Conns /\ ConnOK(cpc) /\ InTurn(cpc) /\ TypeOK
      /\ pending \in Seq(Pieces) /\ wire \in Seq(Pieces)
      /\ cpc.readBuffer \in Pointers /\ WellFormed(cpc.readBuffer) /\ Compacted(cpc.readBuffer)
  BY DEF Sound, Inv, TypeOK, ConnOK, Conns, Buffers
<1>4. n \in 0..WriteSpace(cpc.readBuffer) /\ n \in 0..Len(wire)
  BY <1>3, LimitAssumption DEF Received, WriteSpace, buffer_can_write, Pointers
<1>5. SubSeq(wire, 1, n) \in Seq(Pieces) /\ r \in Seq(Pieces) /\ wire = SubSeq(wire, 1, n) \o r
  <2>1. SubSeq(wire, 1, n) \in Seq(Pieces) /\ r \in Seq(Pieces)
    BY <1>3, <1>4
  <2>2. /\ 1 \in 1..(Len(wire) + 1) /\ n \in (1 - 1)..Len(wire)
        /\ Len(wire) \in n..Len(wire)
    BY <1>3, <1>4
  <2>3. SubSeq(wire, 1, n) \o r = SubSeq(wire, 1, Len(wire))
    BY <1>3, <2>2, ConcatAdjacentSubSeq
  <2>. QED
    BY <1>3, <2>1, <2>3, SubSeqFull
<1>6. q \in Seq(Pieces) /\ pending \o wire = q \o r
  <2>1. q \in Seq(Pieces)
    BY <1>3, <1>5, Joined
  <2>2. ASSUME NEW u \in Seq(Pieces), NEW v \in Seq(Pieces), NEW w \in Seq(Pieces)
        PROVE  (u \o v) \o w = u \o (v \o w)
    BY ConcatAssociative
  <2>3. q \o r = pending \o (SubSeq(wire, 1, n) \o r)
    <3>. HIDE DEF r
    <3>. QED
      BY <1>3, <1>5, <2>2
  <2>. QED
    BY <1>5, <2>1, <2>3
<1>7. cpc' \in stm_handler_read(c, q) /\ pending' = SubSeq(q, Consumed(q) + 1, Len(q)) /\ wire' = r
  BY <1>1
<1>8. b \in Pointers
  BY <1>3, <1>4, WriteAdvKeepsBuffer
<1>. HIDE DEF b
<1>9. /\ c \in Conns /\ Scheduled(c) /\ InTurn(c) /\ c.interest = OP_READ
      /\ c.state = cpc.state /\ PhaseOf(c) = PhaseOf(cpc)
  BY <1>2, <1>3, <1>8 DEF ConnOK, Conns, Scheduled, InTurn, PhaseOf
<1>10. c.state \in {"CP_AUTH", "CP_EXECUTE"}
  BY <1>2, <1>3, <1>9 DEF ConnOK, HasHandler, Conns, CpStates, OP_READ, OP_WRITE
<1>. HIDE DEF c, q, r
<1>11. Verdict(q) \in Pieces /\ Consumed(q) \in 0..Len(q)
  BY <1>6, ParserStops
<1>12. /\ InTurn(cpc') /\ PhaseOf(cpc') = PhaseOf(cpc)
       /\ One(DueOf(cpc')) + One(cpc'.command # NoCommand) = One(Verdict(q) = "end")
       /\ \/ cpc'.command = NoCommand
          \/ cpc'.command \in Command /\ Verdict(q) = "end" /\ PhaseOf(cpc') = "ready"
  BY <1>7, <1>9, <1>10, <1>11, HandlerReads
<1>13. M = Messages' + One(Verdict(q) = "end")
  BY <1>5, <1>6, <1>7, EndsOfRest DEF Messages
<1>14. M \in Nat /\ Messages' \in Nat
  <2>1. SubSeq(q, Consumed(q) + 1, Len(q)) \in Seq(Pieces)
    BY <1>6, <1>11
  <2>2. pending' \o wire' \in Seq(Pieces)
    BY <1>5, <1>7, <2>1, Joined
  <2>. QED
    BY <1>3, <2>2, MessagesType, EndsAreFinite DEF Messages
<1>15. cpc.command = NoCommand /\ One(DueOf(cpc)) = 0 /\ One(cpc.command # NoCommand) = 0
  BY <1>2, <1>3 DEF InTurn, DueOf, One, OP_READ, OP_WRITE
<1>16. /\ Phase = PhaseOf(cpc) /\ Phase' = PhaseOf(cpc')
       /\ Todo = M + One(DueOf(cpc)) + One(cpc.command # NoCommand)
       /\ Todo' = Messages' + One(DueOf(cpc')) + One(cpc'.command # NoCommand)
  BY <1>2, OpenMaps, OpenMapsNext
<1>19. Verdict(q) = "end" => M > 0
  <2>1. CASE Verdict(q) = "end"
    <3>1. One(Verdict(q) = "end") = 1
      BY <2>1 DEF One
    <3>. HIDE DEF M
    <3>. QED
      BY <1>13, <1>14, <3>1
  <2>. QED
    BY <2>1
<1>. HIDE DEF M
<1>17. Todo = M /\ Todo' = M
  <2>1. One(DueOf(cpc')) \in Int /\ One(cpc'.command # NoCommand) \in Int
    BY DEF One
  <2>. QED
    BY <1>12, <1>13, <1>14, <1>15, <1>16, <2>1
<1>18. Accounts' = Accounts
  BY <1>2, AccountsMap DEF usersVars
<1>. QED
  BY <1>2, <1>12, <1>15, <1>16, <1>17, <1>18, <1>19, SameCommands
     DEF Service!Next, Service!TakeUp, Service!users, usersVars

(* The next connection has nothing of the last.                            *)
LEMMA AcceptServes ==
    ASSUME Sound, passive_cp_socket_handler
    PROVE  InTurn(cpc') /\ Service!Next
PROOF
<1>1. /\ ~live /\ up /\ live' /\ up' /\ pending = <<>> /\ wire = <<>> /\ answered = "none"
      /\ cpc' = newControlProtConn /\ UNCHANGED <<pending, wire, answered, usersVars>>
  BY DEF passive_cp_socket_handler, Sound, netVars
<1>2. Phase = "closed" /\ Todo = 0 /\ Phase' = PhaseOf(cpc')
      /\ Todo' = Messages' + One(DueOf(cpc')) + One(cpc'.command # NoCommand)
  BY <1>1, OpenMapsNext DEF Phase, Todo
<1>3. Messages' = 0
  <2>1. pending' \o wire' = <<>>
    BY <1>1
  <2>2. Ends(<<>>) = {}
    BY DEF Ends
  <2>. QED
    BY <2>1, <2>2, FS_EmptySet DEF Messages
<1>4. PhaseOf(cpc') = "hello" /\ ~DueOf(cpc') /\ cpc'.command = NoCommand
  BY <1>1 DEF newControlProtConn, PhaseOf, DueOf
<1>5. Accounts' = Accounts
  BY <1>1, AccountsMap DEF usersVars
<1>6. Phase' = "hello" /\ Todo' = 0
  BY <1>2, <1>3, <1>4 DEF One
<1>. QED
  BY <1>1, <1>2, <1>4, <1>5, <1>6, NewInTurn, SameCommands
     DEF Service!Next, Service!Connect, Service!users, usersVars

LEMMA ClientWrites ==
    ASSUME Environment
    PROVE  /\ live /\ up /\ live' /\ up'
           /\ UNCHANGED <<cpc, pending, live, up, answered, usersVars>>
PROOF
<1>1. live /\ up
  BY DEF Environment, ClientSends, ClientEnds, ClientResets
<1>2. UNCHANGED <<cpc, pending, live, up, answered, usersVars>>
  BY DEF Environment, ClientSends, ClientEnds, ClientResets
<1>3. live' = live /\ up' = up
  BY <1>2
<1>. QED
  BY <1>1, <1>2, <1>3

(* A piece of the client is a message more if it ends one.                 *)
LEMMA ClientServes ==
    ASSUME Sound, Environment
    PROVE  InTurn(cpc') /\ (Service!Next \/ UNCHANGED Service!vars)
PROOF
<1>1. /\ live /\ up /\ live' /\ up'
      /\ UNCHANGED <<cpc, pending, live, up, answered, usersVars>>
  BY ClientWrites
<1>2. InTurn(cpc') /\ TypeOK
  BY <1>1 DEF Sound, Inv
<1>3. Phase' = Phase /\ Phase # "closed"
  BY <1>1, OpenMaps, OpenMapsNext DEF PhaseOf
<1>4. Accounts' = Accounts
  BY <1>1, AccountsMap DEF usersVars
<1>5. /\ Todo = Messages + One(DueOf(cpc)) + One(cpc.command # NoCommand)
      /\ Todo' = Messages' + One(DueOf(cpc)) + One(cpc.command # NoCommand)
  BY <1>1, OpenMaps, OpenMapsNext DEF DueOf
<1>6. Todo' = Todo \/ Todo' = Todo + 1
  <2>1. CASE ClientSends
    <3>1. PICK p \in Pieces : wire' = Append(wire, p)
      BY <2>1 DEF ClientSends
    <3>2. pending \in Seq(Pieces) /\ wire \in Seq(Pieces)
      BY <1>2 DEF TypeOK
    <3>3. pending \o wire \in Seq(Pieces)
      BY <3>2, Joined
    <3>6. pending' \o wire' = Append(pending \o wire, p)
      <4>1. pending' \o wire' = pending \o Append(wire, p)
        BY <1>1, <3>1
      <4>. QED
        BY <3>2, <4>1
    <3>4. Messages' = Messages + One(p = "end")
      BY <3>3, <3>6, EndsOfAppend DEF Messages
    <3>5. Messages \in Nat /\ One(p = "end") \in {0, 1}
          /\ One(DueOf(cpc)) \in {0, 1} /\ One(cpc.command # NoCommand) \in {0, 1}
      BY <1>2, MessagesType DEF One
    <3>. QED
      BY <1>5, <3>4, <3>5
  <2>2. CASE ClientEnds \/ ClientResets
    BY <1>1, <1>5, <2>2 DEF ClientEnds, ClientResets, Messages
  <2>. QED
    BY <2>1, <2>2 DEF Environment
<1>. QED
  BY <1>1, <1>2, <1>3, <1>4, <1>6
     DEF Service!Next, Service!Ask, Service!vars, Service!users, usersVars

(* A command of another connection acts on the same directory.             *)
LEMMA OtherServes ==
    ASSUME Sound, OtherConnection
    PROVE  InTurn(cpc') /\ Service!Next
PROOF
<1>1. PICK cmd \in OtherCommands :
        /\ table' = Execute(table, cmd).table
        /\ sniffer_state' = switchPassDissectors(sniffer_state, cmd)
  BY DEF OtherConnection
<1>2. by' = "another" /\ UNCHANGED <<connVars, up>>
  BY DEF OtherConnection
<1>3. cmd \in Command
  BY ControlAssumption
<1>4. GoodTable(table) /\ InTurn(cpc')
  BY <1>2 DEF Sound, Inv, connVars
<1>5. Service!Outcome(Accounts, cmd)
        = <<AccountsOf(Execute(table, cmd).table), Execute(table, cmd).answer>>
  BY <1>3, <1>4, CommandActs, AccountsMap
<1>6. Accounts' = Service!Outcome(Accounts, cmd)[1]
  BY <1>1, <1>5, AccountsMap
<1>7. sniffer_state' = Service!Switched(cmd)
  BY <1>1 DEF switchPassDissectors, Service!Switched
<1>8. Phase' = Phase /\ Todo' = Todo
  BY <1>2 DEF Phase, Todo, AuthDue, connVars, netVars
<1>9. cmd \in Service!Command
  BY <1>3, SameCommands
<1>10. Service!ObeyAnother
  BY <1>2, <1>6, <1>7, <1>8, <1>9 DEF Service!ObeyAnother, connVars
<1>. QED
  BY <1>4, <1>10 DEF Service!Next

LEMMA InitServes == Init => Sound /\ Service!Init
PROOF
<1>. SUFFICES ASSUME Init PROVE Sound /\ Service!Init
  OBVIOUS
<1>1. Sound
  BY InitInv, NewInTurn DEF Init, Sound
<1>2. GoodTable(table)
  BY <1>1 DEF Sound, Inv
<1>3. DOMAIN Accounts \in SUBSET Name /\ Accounts \in [DOMAIN Accounts -> Password]
  <2>1. /\ DOMAIN Accounts = {table.users[i].name : i \in 1..Len(table.users)}
        /\ Accounts = [n \in DOMAIN Accounts |-> Accounts[n]]
    BY AccountsMap DEF AccountsOf, total_users
  <2>2. \A i \in 1..Len(table.users) : table.users[i] \in User
    BY <1>2 DEF GoodTable, Table
  <2>3. \A i \in 1..Len(table.users) :
           Accounts[table.users[i].name] = table.users[i].pass
    BY <1>2, Entry, AccountsMap
  <2>4. ASSUME NEW n \in DOMAIN Accounts PROVE n \in Name /\ Accounts[n] \in Password
    BY <2>1, <2>2, <2>3 DEF User
  <2>. HIDE DEF Accounts
  <2>. QED
    BY <2>1, <2>4
<1>4. Accounts \in UNION {[S -> Password] : S \in SUBSET Name}
  BY <1>3
<1>5. Service!Cardinality(DOMAIN Accounts) <= MAX_USERS
  BY <1>2, DirectorySize, SameCardinality, AccountsMap DEF GoodTable
<1>6. Phase = "closed" /\ Todo = 0
  BY DEF Init, Phase, Todo
<1>. QED
  BY <1>1, <1>4, <1>5, <1>6, SameCommands DEF Service!Init, Init

LEMMA StepServes ==
    Sound /\ [Next]_vars => Sound' /\ [Service!Next]_Service!vars
PROOF
<1>. SUFFICES ASSUME Sound, [Next]_vars PROVE Sound' /\ [Service!Next]_Service!vars
  OBVIOUS
<1>1. Inv'
  BY StepInv DEF Sound
<1>2. CASE UNCHANGED vars
  <2>1. Sound'
    BY <1>1, <1>2 DEF Sound, vars, connVars, netVars
  <2>2. UNCHANGED Service!vars
    BY <1>2, AccountsMap DEF vars, connVars, netVars, usersVars, Service!vars, Service!users,
          Phase, Todo, AuthDue
  <2>. QED
    BY <2>1, <2>2
<1>3. CASE cpWriteHandler
  <2>1. live'
    BY <1>3 DEF cpWriteHandler, Handle, Event
  <2>. QED
    BY <1>1, <1>3, <2>1, WriteHandlerServes DEF Sound
<1>4. CASE cpWriteFails \/ cpWriteSigpipe \/ cpReadEnds \/ cpError
  BY <1>1, <1>4, LostServes DEF Sound
<1>5. CASE cpReadHandler
  <2>1. live'
    BY <1>5 DEF cpReadHandler, Handle, Event
  <2>. QED
    BY <1>1, <1>5, <2>1, ReadHandlerServes DEF Sound
<1>6. CASE passive_cp_socket_handler
  <2>1. live'
    BY <1>6 DEF passive_cp_socket_handler
  <2>. QED
    BY <1>1, <1>6, <2>1, AcceptServes DEF Sound
<1>7. CASE Environment
  <2>1. live'
    BY <1>7, ClientWrites
  <2>. QED
    BY <1>1, <1>7, <2>1, ClientServes DEF Sound
<1>8. CASE OtherConnection
  <2>1. UNCHANGED connVars
    BY <1>8 DEF OtherConnection
  <2>. QED
    BY <1>1, <1>8, <2>1, OtherServes DEF Sound, connVars, netVars
<1>. QED
  BY <1>2, <1>3, <1>4, <1>5, <1>6, <1>7, <1>8 DEF Next

(* The connection implements ControlService, for every buffer, any names   *)
(* and passwords, any limit and any commands of others: a command is only  *)
(* taken up behind an accepted password, carried out once, and answered    *)
(* with what it did to the directory.                                      *)
THEOREM ConnectionImplementsService == Spec => FollowsService
PROOF
<1>. QED
  BY InitServes, StepServes, PTL DEF Spec, FollowsService, Service!Spec
=============================================================================
