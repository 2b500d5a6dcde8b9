--------------------------- MODULE ControlService ---------------------------
(***************************************************************************)
(* What the management protocol promises: each message of a client gets    *)
(* one answer, no command is carried out before the password was accepted, *)
(* and a command acts at once on a directory that maps names to passwords. *)
(***************************************************************************)
EXTENDS Integers, FiniteSets, Commands

CONSTANT MAX_USERS

VARIABLES
    phase,      \* "closed", "hello", "auth" or "ready"
    todo,       \* whole messages the client has sent and that have no answer
    asked,      \* the command taken up and not carried out yet
    answer,     \* the answer just given, until the next message is taken up
    dir,        \* the directory
    sniffing,   \* are passwords looked for in the traffic?
    by          \* who sent the last command: this client or another

users == <<dir, sniffing, by>>
vars  == <<phase, todo, asked, answer, users>>

Without(d, n)    == [m \in DOMAIN d \ {n} |-> d[m]]
Having(d, n, p)  == [m \in DOMAIN d \cup {n} |-> IF m = n THEN p ELSE d[m]]
Full(d)          == Cardinality(DOMAIN d) = MAX_USERS

\* The directory a command leaves, and its answer.
Outcome(d, cmd) ==
    CASE cmd.op = "CP_ADD_USER" ->
           IF Full(d) THEN <<d, "CPERROR_USER_LIMIT">>
           ELSE IF cmd.name \in DOMAIN d THEN <<d, "CPERROR_ALREADY_EXISTS">>
           ELSE <<Having(d, cmd.name, cmd.pass), "OK">>
      [] cmd.op \in {"CP_REM_USER", "CP_CHANGE_PASS"} /\ cmd.name \notin DOMAIN d ->
           <<d, "CPERROR_INEXISTING_USER">>
      [] cmd.op = "CP_REM_USER" /\ cmd.name \in DOMAIN d -> <<Without(d, cmd.name), "OK">>
      [] cmd.op = "CP_CHANGE_PASS" /\ cmd.name \in DOMAIN d ->
           <<Having(d, cmd.name, cmd.pass), "OK">>
      [] cmd.op = "malformed" -> <<d, "CPERROR_INVALID_FORMAT">>
      [] cmd.op = "query"     -> <<d, "DATA">>
      [] OTHER -> <<d, "OK">>

Switched(cmd) ==
    CASE cmd.op = "CP_DISSECTOR_ON"  -> TRUE
      [] cmd.op = "CP_DISSECTOR_OFF" -> FALSE
      [] OTHER                       -> sniffing

Init ==
    /\ phase = "closed" /\ todo = 0 /\ asked = NoCommand /\ answer = "none"
    /\ dir \in UNION {[S -> Password] : S \in SUBSET Name}
    /\ Cardinality(DOMAIN dir) <= MAX_USERS
    /\ sniffing \in BOOLEAN /\ by = "another"

Connect ==
    /\ phase = "closed" /\ phase' = "hello"
    /\ UNCHANGED <<todo, asked, answer, users>>

Greet == phase = "hello" /\ phase' = "auth" /\ UNCHANGED <<todo, asked, answer, users>>

Ask == phase # "closed" /\ todo' = todo + 1 /\ UNCHANGED <<phase, asked, answer, users>>

\* More of a message is read; if it is now whole, a command is known.
TakeUp ==
    /\ answer' = "none"
    /\ \/ UNCHANGED asked
       \/ phase = "ready" /\ todo > 0 /\ asked = NoCommand /\ asked' \in Command
    /\ UNCHANGED <<phase, todo, users>>

CheckPassword ==
    /\ phase = "auth" /\ todo > 0 /\ todo' = todo - 1
    /\ \/ answer' = "password accepted" /\ phase' = "ready"
       \/ answer' = "password refused"  /\ UNCHANGED phase
    /\ UNCHANGED <<asked, users>>

\* The command taken up is carried out.
Obeyed ==
    /\ asked # NoCommand /\ asked' = NoCommand
    /\ dir' = Outcome(dir, asked)[1]
    /\ sniffing' = Switched(asked)
    /\ by' = "client"

Obey ==
    /\ Obeyed
    /\ todo' = todo - 1 /\ answer' = Outcome(dir, asked)[2]
    /\ UNCHANGED phase

ObeyAnother ==
    /\ by' = "another"
    /\ UNCHANGED <<phase, todo, asked, answer>>
    /\ LET before == dir
           after  == dir'
       IN  \E cmd \in Command : sniffing' = Switched(cmd) /\ after = Outcome(before, cmd)[1]

\* A connection may be lost at any time, also between a command and its answer.
Closed == phase # "closed" /\ phase' = "closed" /\ todo' = 0 /\ answer' = "none"

Close        == Closed /\ asked' = NoCommand /\ UNCHANGED users
ObeyAndClose == Closed /\ Obeyed

Next == ObeyAnother \/ Connect \/ Greet \/ Ask \/ TakeUp \/ CheckPassword \/ Obey
        \/ Close \/ ObeyAndClose

Spec == Init /\ [][Next]_vars
=============================================================================
