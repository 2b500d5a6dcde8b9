---------------------------- MODULE SocksSession ----------------------------
(***************************************************************************)
(* What a SOCKS connection promises its client until the relay begins:     *)
(* one whole answer to each message, in the order of the protocol, success *)
(* only for an origin that was reached, and no request after a login that  *)
(* was refused (RFC 1929, section 2: the server must close).               *)
(***************************************************************************)
EXTENDS Sequences

CONSTANTS Methods, Codes

VARIABLES
    session,    \* the message whose answer is due: "hello", "auth", "request";
                \* or "relay", or "closed"
    answers,    \* the answers given
    reached     \* the origin is connected

Init == session = "hello" /\ answers = <<>> /\ reached = FALSE

Greet ==
    /\ session = "hello"
    /\ \E m \in Methods :
         /\ answers' = Append(answers, <<"hello", m>>)
         /\ session' = CASE m = "NO_AUTH"   -> "request"
                         [] m = "USER_PASS" -> "auth"
                         [] OTHER           -> "closed"
    /\ UNCHANGED reached

Authenticate ==
    /\ session = "auth"
    /\ \E ok \in BOOLEAN :
         /\ answers' = Append(answers, <<"auth", ok>>)
         /\ session' = IF ok THEN "request" ELSE "closed"
    /\ UNCHANGED reached

\* The origin may be tried, reached and lost again before the answer.
Reach == session = "request" /\ reached' = ~reached /\ UNCHANGED <<session, answers>>

Answer ==
    /\ session = "request"
    /\ \E code \in Codes :
         /\ answers' = Append(answers, <<"req", code>>)
         /\ code = "SUCCESS" => reached
         /\ session' = IF code = "SUCCESS" THEN "relay" ELSE "closed"
    /\ UNCHANGED reached

Close ==
    /\ session \in {"hello", "auth", "request"} /\ session' = "closed"
    /\ UNCHANGED answers /\ reached' \in BOOLEAN

Next == Greet \/ Authenticate \/ Reach \/ Answer \/ Close

Spec == Init /\ [][Next]_<<session, answers, reached>>
=============================================================================
