---------------------------- MODULE RelayProofs ----------------------------
(***************************************************************************)
(* The safety invariants of Relay for every buffer size, every number of   *)
(* bytes, with and without early data and spurious readiness.              *)
(***************************************************************************)
EXTENDS Relay, TLAPS

-----------------------------------------------------------------------------
(* What the pointer operations of buffer.c preserve and return. *)

\* Receiving at most the free space keeps R <= W <= limit, which is what the
\* assertion of buffer_write_adv asks, and adds exactly n pending bytes.
LEMMA WriteAdvKeepsBuffer ==
    ASSUME NEW b \in Pointers, WellFormed(b), Compacted(b), NEW n \in 0..WriteSpace(b)
    PROVE  /\ buffer_write_adv(b, n) \in Pointers
           /\ Compacted(buffer_write_adv(b, n))
           /\ WellFormed(buffer_write_adv(b, n))
           /\ Pending(buffer_write_adv(b, n)) = Pending(b) + n
           /\ n > 0 => buffer_can_read(buffer_write_adv(b, n))
BY LimitAssumption
   DEF Pointers, WellFormed, Compacted, WriteSpace, Pending, buffer_write_adv, buffer_can_read

\* Sending at most the pending bytes keeps R <= W <= limit, removes exactly n
\* of them, and leaves all the space free when none is left.
LEMMA ReadAdvKeepsBuffer ==
    ASSUME NEW b \in Pointers, WellFormed(b), NEW n \in 0..Pending(b)
    PROVE  /\ buffer_read_adv(b, n) \in Pointers
           /\ Compacted(buffer_read_adv(b, n))
           /\ WellFormed(buffer_read_adv(b, n))
           /\ Pending(buffer_read_adv(b, n)) = Pending(b) - n
           /\ buffer_can_read(buffer_read_adv(b, n)) <=> n # Pending(b)
           /\ n = Pending(b) => WriteSpace(buffer_read_adv(b, n)) = Limit
<1> DEFINE c == [b EXCEPT !.read = @ + n]
<1>1. c = [read |-> b.read + n, write |-> b.write]
  BY DEF Pointers
<1>2. CASE c.read = c.write
  <2>1. buffer_read_adv(b, n) = [read |-> 0, write |-> 0]
    BY <1>1, <1>2 DEF buffer_read_adv, buffer_compact, Pointers
  <2>2. n = Pending(b)
    BY <1>1, <1>2 DEF Pointers, Pending
  <2> QED BY <2>1, <2>2, LimitAssumption
          DEF Pointers, WellFormed, Compacted, WriteSpace, Pending, buffer_can_read
<1>3. CASE c.read # c.write
  <2>1. buffer_read_adv(b, n) = c
    BY <1>3 DEF buffer_read_adv
  <2> QED BY <2>1, <1>1, <1>3, LimitAssumption
          DEF Pointers, WellFormed, Compacted, WriteSpace, Pending, buffer_can_read
<1> QED BY <1>2, <1>3

\* A full buffer holds bytes that can still be sent, provided it is not a
\* buffer of which everything was read: buffer_read_adv never leaves one.
LEMMA FullHasPending ==
    ASSUME NEW b \in Pointers, WellFormed(b), Compacted(b),
           ~buffer_can_write(b)
    PROVE  buffer_can_read(b)
BY LimitAssumption DEF Pointers, WellFormed, Compacted, buffer_can_write, buffer_can_read

-----------------------------------------------------------------------------
(* The two sides of a connection. *)

\* The two sides and who is opposite to whom.
LEMMA TwoSides ==
    ASSUME NEW x \in Side
    PROVE  /\ Other(x) \in Side
           /\ Other(x) # x
           /\ Other(Other(x)) = x
           /\ Side = {x, Other(x)}
BY DEF Side, Other, CLI, SRC

\* Reading and writing are different interests.
LEMMA TwoInterests == OP_READ # OP_WRITE /\ OP_READ \in Interest /\ OP_WRITE \in Interest
BY DEF OP_READ, OP_WRITE, Interest

\* The part of every handler call that consumes its readiness.
LEMMA TurnKeepsSlave ==
    ASSUME TypeOK, NEW x \in Side, NEW op \in Interest, Turn(x, op)
    PROVE  slave' \in SUBSET (Side \X Interest)
BY DEF TypeOK, Turn

\* What recv can return fits into the buffer and was sent by the peer.
LEMMA ReceivedFits ==
    ASSUME TypeOK, NEW x \in Side, buffer_can_write(write_buff[x]), Available(x) > 0
    PROVE  LET n == MinOf(Available(x), WriteSpace(write_buff[x]))
           IN  /\ n \in 0..WriteSpace(write_buff[x])
               /\ n > 0
               /\ taken[x] + n \in 0..MaxSend
               /\ taken[x] + n <= sent[x]
BY RelayAssumption, LimitAssumption
   DEF TypeOK, Available, MinOf, WriteSpace, Pointers, buffer_can_write

\* What send can return is at most what is pending.
LEMMA SentIsPending ==
    ASSUME TypeOK, NEW x \in Side,
           NEW n \in MinOf(1, Pending(read_buff(x)))..Pending(read_buff(x))
    PROVE  /\ read_buff(x) \in Pointers
           /\ WellFormed(read_buff(x))
           /\ Compacted(read_buff(x))
           /\ n \in 0..Pending(read_buff(x))
BY TwoSides, LimitAssumption
   DEF TypeOK, MinOf, Pending, Pointers, WellFormed, read_buff

\* The initial buffers, the one with the bytes behind the request included.
LEMMA InitialBuffers ==
    ASSUME init_copy_structure
    PROVE  /\ write_buff \in [Side -> Pointers]
           /\ \A x \in Side : /\ WellFormed(write_buff[x])
                              /\ Compacted(write_buff[x])
                              /\ Pending(write_buff[x]) = EarlyBytes(x)
<1>1. PICK r \in 1..(Limit - Early) :
        write_buff = [x \in Side |->
           IF x = SRC /\ Early > 0 THEN [read |-> r, write |-> r + Early]
                                   ELSE [read |-> 0, write |-> 0]]
  BY DEF init_copy_structure, buffer_reset
<1> QED
  BY <1>1, RelayAssumption, LimitAssumption
     DEF Pointers, WellFormed, Compacted, Pending, EarlyBytes, Side, CLI, SRC

-----------------------------------------------------------------------------

\* Every initial state is well typed.
LEMMA InitTypeOK == Init => TypeOK
<1> SUFFICES ASSUME Init PROVE TypeOK
  OBVIOUS
<1>1. init_copy_structure
  BY DEF Init
<1>2. write_buff \in [Side -> Pointers] /\ \A x \in Side : WellFormed(write_buff[x]) /\ Compacted(write_buff[x])
  BY <1>1, InitialBuffers
<1> QED
  BY <1>1, <1>2, RelayAssumption
     DEF Init, init_copy_structure, TypeOK, Interest, OP_READ, OP_WRITE

\* Every step keeps the state well typed.
LEMMA NextTypeOK == TypeOK /\ [Next]_vars => TypeOK'
<1> SUFFICES ASSUME TypeOK, [Next]_vars PROVE TypeOK'
  OBVIOUS
<1> USE RelayAssumption
<1>1. ASSUME NEW x \in Side, PeerSend(x) PROVE TypeOK'
  BY <1>1 DEF PeerSend, TypeOK, copyVars, sockVars
<1>2. ASSUME NEW x \in Side, PeerFin(x) PROVE TypeOK'
  BY <1>2 DEF PeerFin, TypeOK, copyVars, sockVars
<1>3. ASSUME NEW x \in Side, PeerReset(x) PROVE TypeOK'
  BY <1>3 DEF PeerReset, TypeOK, copyVars
<1>4. ASSUME NEW x \in Side, PeerDrain(x) PROVE TypeOK'
  BY <1>4 DEF PeerDrain, TypeOK, copyVars, peerVars
<1>5. CASE ErrnoOfOthers
  BY <1>5 DEF ErrnoOfOthers, TypeOK, copyVars, peerVars, sockVars
<1>6. CASE selector_select
  BY <1>6 DEF selector_select, Watched, TypeOK, copyVars, peerVars, sockVars
<1>7. ASSUME NEW x \in Side, NEW op \in Interest, Skip(x, op) PROVE TypeOK'
  <2>1. slave' \in SUBSET (Side \X Interest)
    BY <1>7, TurnKeepsSlave DEF Skip
  <2> QED BY <1>7, <2>1 DEF Skip, TypeOK, copyVars, peerVars, sockVars
<1>8. ASSUME NEW x \in Side, ReadPause(x) PROVE TypeOK'
  <2>1. slave' \in SUBSET (Side \X Interest)
    BY <1>8, TurnKeepsSlave, TwoInterests DEF ReadPause, Handle
  <2>2. interests' \in [Side -> SUBSET Interest] /\ item' \in [Side -> SUBSET Interest]
    BY <1>8 DEF ReadPause, TypeOK
  <2> QED BY <1>8, <2>1, <2>2 DEF ReadPause, TypeOK, peerVars, sockVars
<1>9. ASSUME NEW x \in Side, ReadAgain(x) PROVE TypeOK'
  <2>1. slave' \in SUBSET (Side \X Interest)
    BY <1>9, TurnKeepsSlave, TwoInterests DEF ReadAgain, Handle
  <2>2. errno' \in {"EAGAIN", "other"}
    BY <1>9 DEF ReadAgain, TypeOK
  <2> QED BY <1>9, <2>1, <2>2 DEF ReadAgain, TypeOK, copyVars, peerVars, sockVars
<1>10. ASSUME NEW x \in Side, ReadBytes(x) PROVE TypeOK'
  <2> DEFINE n == MinOf(Available(x), WriteSpace(write_buff[x]))
  <2>1. slave' \in SUBSET (Side \X Interest)
    BY <1>10, TurnKeepsSlave, TwoInterests DEF ReadBytes, Handle
  <2>2. n \in 0..WriteSpace(write_buff[x]) /\ taken[x] + n \in 0..MaxSend /\ taken[x] + n <= sent[x]
    BY <1>10, ReceivedFits DEF ReadBytes
  <2>3. taken' \in [Side -> 0..MaxSend] /\ \A z \in Side : taken'[z] <= sent[z]
    BY <1>10, <2>2 DEF ReadBytes, TypeOK
  <2>4. /\ write_buff' \in [Side -> Pointers]
        /\ \A z \in Side : WellFormed(write_buff'[z]) /\ Compacted(write_buff'[z])
    BY <1>10, <2>2, WriteAdvKeepsBuffer DEF ReadBytes, TypeOK
  <2>5. interests' \in [Side -> SUBSET Interest] /\ item' \in [Side -> SUBSET Interest]
    BY <1>10, TwoSides, TwoInterests DEF ReadBytes, TypeOK
  <2> QED BY <1>10, <2>1, <2>3, <2>4, <2>5 DEF ReadBytes, TypeOK, peerVars, sockVars
<1>11. ASSUME NEW x \in Side, ReadEnd(x) PROVE TypeOK'
  <2>1. slave' \in SUBSET (Side \X Interest)
    BY <1>11, TurnKeepsSlave, TwoInterests DEF ReadEnd, StreamEnds, NothingPending, Handle
  <2>2. int_connection' \in [Side -> SUBSET Interest]
    BY <1>11, TwoSides DEF ReadEnd, StreamEnds, NothingPending, TypeOK
  <2>3. interests' \in [Side -> SUBSET Interest] /\ item' \in [Side -> SUBSET Interest]
    BY <1>11, TwoSides DEF ReadEnd, StreamEnds, NothingPending, TypeOK
  <2>4. /\ shut_rd' \in [Side -> BOOLEAN] /\ shut_wr' \in [Side -> BOOLEAN]
        /\ sockerr' \in [Side -> {"none", "ECONNRESET", "EPIPE"}]
        /\ errno' \in {"EAGAIN", "other"}
        /\ state' \in {"COPY", "DONE", "ERROR"}
    BY <1>11, TwoSides DEF ReadEnd, StreamEnds, NothingPending, TypeOK
  <2> QED BY <1>11, <2>1, <2>2, <2>3, <2>4 DEF ReadEnd, StreamEnds, NothingPending, TypeOK, peerVars
<1>12. ASSUME NEW x \in Side, WriteAgain(x) PROVE TypeOK'
  <2>1. slave' \in SUBSET (Side \X Interest)
    BY <1>12, TurnKeepsSlave, TwoInterests DEF WriteAgain, Handle
  <2> QED BY <1>12, <2>1 DEF WriteAgain, TypeOK, copyVars, peerVars, sockVars
<1>13. ASSUME NEW x \in Side, WriteError(x) PROVE TypeOK'
  <2>1. slave' \in SUBSET (Side \X Interest)
    BY <1>13, TurnKeepsSlave, TwoInterests DEF WriteError, Handle
  <2> QED BY <1>13, <2>1 DEF WriteError, TypeOK, copyVars, peerVars
<1>14. ASSUME NEW x \in Side, WriteSigpipe(x) PROVE TypeOK'
  <2>1. slave' \in SUBSET (Side \X Interest)
    BY <1>14, TurnKeepsSlave, TwoInterests DEF WriteSigpipe, Handle
  <2> QED BY <1>14, <2>1 DEF WriteSigpipe, TypeOK, copyVars, peerVars, sockVars
<1>15. ASSUME NEW x \in Side, WriteBytes(x) PROVE TypeOK'
  <2>1. slave' \in SUBSET (Side \X Interest)
    BY <1>15, TurnKeepsSlave, TwoInterests DEF WriteBytes, Handle
  <2>2. PICK n \in MinOf(1, Pending(read_buff(x)))..Pending(read_buff(x)) :
          /\ given' = [given EXCEPT ![x] = @ + n]
          /\ write_buff' = [write_buff EXCEPT ![Other(x)] = buffer_read_adv(read_buff(x), n)]
    BY <1>15 DEF WriteBytes
  <2>3. given' \in [Side -> Nat]
    BY <2>2, SentIsPending DEF TypeOK
  <2>4. /\ write_buff' \in [Side -> Pointers]
        /\ \A z \in Side : WellFormed(write_buff'[z]) /\ Compacted(write_buff'[z])
    BY <2>2, SentIsPending, ReadAdvKeepsBuffer, TwoSides DEF TypeOK
  <2>5. interests' \in [Side -> SUBSET Interest] /\ item' \in [Side -> SUBSET Interest]
    BY <1>15, TwoSides, TwoInterests DEF WriteBytes, TypeOK
  <2>6. shut_wr' \in [Side -> BOOLEAN] /\ room' \in [Side -> BOOLEAN]
    BY <1>15 DEF WriteBytes, TypeOK
  <2> QED BY <1>15, <2>1, <2>3, <2>4, <2>5, <2>6 DEF WriteBytes, TypeOK, peerVars
<1>16. CASE UNCHANGED vars
  BY <1>16 DEF vars, copyVars, peerVars, sockVars, TypeOK
<1> QED
  BY <1>1, <1>2, <1>3, <1>4, <1>5, <1>6, <1>7, <1>8, <1>9, <1>10, <1>11,
     <1>12, <1>13, <1>14, <1>15, <1>16
     DEF Next, Environment, handle_iteration, copy_read, copy_write

\* Type correctness: in particular R <= W <= limit, the invariant buffer.h
\* states, holds in both buffers through any interleaving of the two sides.
THEOREM TypeCorrect == Spec => []TypeOK
BY InitTypeOK, NextTypeOK, PTL DEF Spec

-----------------------------------------------------------------------------
(* The inductive invariant.  None of the safety invariants is inductive on  *)
(* its own: that a paused reader is resumed needs the agreement of the two  *)
(* structures (whose writer the end of a stream silences), which needs that *)
(* the relay reads only where it may; the half close needs all of them.     *)

Relaying ==
    /\ SelectorInSync
    /\ ConnectionBitsAgree
    /\ PausedReadersResume
    /\ PendingIsScheduled
    /\ NothingToWriteYet
    /\ BytesConserved
    /\ HalfCloseAfterDrain

RelayInv == TypeOK /\ Relaying

\* A connection enters COPY with the invariant.
LEMMA InitRelaying == Init => Relaying
<1> SUFFICES ASSUME Init PROVE Relaying
  OBVIOUS
<1>1. TypeOK /\ init_copy_structure
  BY InitTypeOK DEF Init
<1>2. \A x \in Side : Pending(write_buff[x]) = EarlyBytes(x)
  BY <1>1, InitialBuffers
<1>3. SelectorInSync /\ ConnectionBitsAgree /\ PausedReadersResume /\ HalfCloseAfterDrain
  BY <1>1, TwoSides
     DEF Init, init_copy_structure, SelectorInSync, ConnectionBitsAgree,
         PausedReadersResume, HalfCloseAfterDrain, OP_READ, OP_WRITE, Side
<1>4. BytesConserved
  BY <1>2, TwoSides, RelayAssumption DEF Init, BytesConserved, EarlyBytes
<1>5. PendingIsScheduled
  BY DEF Init, PendingIsScheduled
<1>6. NothingToWriteYet
  BY TwoSides, TwoInterests DEF Init, NothingToWriteYet
<1> QED BY <1>3, <1>4, <1>5, <1>6 DEF Relaying

\* A step that leaves the relay's own variables alone keeps the invariant.
LEMMA FrameKeepsRelaying ==
    ASSUME Relaying,
           UNCHANGED <<state, alive, copyVars, item, shut_wr, taken, given>>
    PROVE  Relaying'
BY DEF Relaying, SelectorInSync, ConnectionBitsAgree, PausedReadersResume,
       PendingIsScheduled, NothingToWriteYet, BytesConserved, HalfCloseAfterDrain,
       Running, Wedged, copyVars

\* A step that ends the relaying keeps it vacuously.
LEMMA ClosingKeepsRelaying == ASSUME ~Running' PROVE Relaying'
BY DEF Relaying, SelectorInSync, ConnectionBitsAgree, PausedReadersResume,
       PendingIsScheduled, NothingToWriteYet, BytesConserved, HalfCloseAfterDrain

\* A buffer without room that nothing was received into holds the bytes behind
\* the request.
LEMMA FullAtFirst ==
    ASSUME TypeOK, BytesConserved, Running, NEW x \in Side,
           taken[x] = 0, ~buffer_can_write(write_buff[x])
    PROVE  x = SRC /\ Wedged
<1>1. x = SRC
  <2> SUFFICES ASSUME x # SRC PROVE FALSE
    OBVIOUS
  <2>1. EarlyBytes(x) = 0
    BY DEF EarlyBytes
  <2>2. /\ Pending(write_buff[x]) = taken[x] + EarlyBytes(x) - given[Other(x)]
        /\ write_buff[x] \in Pointers /\ WellFormed(write_buff[x]) /\ Compacted(write_buff[x])
        /\ given[Other(x)] \in Nat
    BY TwoSides DEF BytesConserved, TypeOK
  <2>3. Pending(write_buff[x]) <= 0
    BY <2>1, <2>2
  <2>4. buffer_can_read(write_buff[x])
    BY <2>2, FullHasPending
  <2> QED BY <2>2, <2>3, <2>4 DEF Pointers, WellFormed, Pending, buffer_can_read
<1> QED BY <1>1 DEF Wedged

\* Pausing a reader: its buffer is full, so the other side has something to
\* send and is registered for it, or it is Wedged.
LEMMA ReadPauseKeepsRelaying ==
    ASSUME TypeOK, Relaying, NEW x \in Side, ReadPause(x)
    PROVE  Relaying'
<1> DEFINE y == Other(x)
<1>0. Running /\ y = Other(x) /\ y \in Side /\ y # x /\ Other(y) = x /\ Side = {x, y}
  BY TwoSides DEF ReadPause, Handle, Turn
<1>1. /\ interests' = [interests EXCEPT ![x] = (@ \cap {OP_WRITE}) \cap int_connection[x]]
      /\ item' = [item EXCEPT ![x] = interests'[x]]
      /\ UNCHANGED <<state, alive, int_connection, write_buff, shut_wr, taken, given>>
      /\ OP_READ \in item[x]
      /\ ~buffer_can_write(write_buff[x])
  BY DEF ReadPause, Handle, sockVars
<1> HIDE DEF y
<1>2. /\ interests'[x] = (interests[x] \cap {OP_WRITE}) \cap int_connection[x]
      /\ interests'[y] = interests[y] /\ item'[x] = interests'[x] /\ item'[y] = item[y]
  BY <1>0, <1>1 DEF TypeOK
<1>3. item = interests
  BY <1>0 DEF Relaying, SelectorInSync
<1>4. buffer_can_read(write_buff[x])
  BY <1>0, <1>1, FullHasPending DEF TypeOK
<1>5. OP_READ \in int_connection[x] /\ OP_WRITE \in int_connection[y]
  BY <1>0, <1>1, <1>3 DEF Relaying, ConnectionBitsAgree
<1>6. OP_WRITE \in item[y] \/ (x = SRC /\ Wedged)
  <2>1. CASE taken[x] = 0
    BY <1>0, <1>1, <2>1, FullAtFirst DEF Relaying
  <2>2. CASE taken[x] # 0
    <3>1. taken[x] > 0
      BY <2>2, RelayAssumption DEF TypeOK
    <3> QED BY <1>0, <1>4, <1>5, <3>1 DEF Relaying, PendingIsScheduled
  <2> QED BY <2>1, <2>2
<1>7. SelectorInSync'
  BY <1>0, <1>1, <1>2, <1>3 DEF SelectorInSync, TypeOK
<1>8. ConnectionBitsAgree'
  BY <1>0, <1>1, <1>2, TwoInterests DEF Relaying, ConnectionBitsAgree, Running
<1>9. PausedReadersResume'
  <2>1. Wedged' <=> Wedged
    BY <1>1 DEF Wedged
  <2> QED BY <1>0, <1>1, <1>2, <1>3, <1>4, <1>5, <1>6, <2>1
     DEF Relaying, PausedReadersResume, ConnectionBitsAgree
<1>10. PendingIsScheduled'
  BY <1>0, <1>1, <1>2, <1>3 DEF Relaying, PendingIsScheduled
<1>11. HalfCloseAfterDrain'
  BY <1>0, <1>1, <1>2, <1>3 DEF Relaying, HalfCloseAfterDrain
<1>12. BytesConserved' /\ NothingToWriteYet'
  BY <1>0, <1>1, <1>2, <1>3 DEF Relaying, BytesConserved, NothingToWriteYet, EarlyBytes
<1> QED BY <1>7, <1>8, <1>9, <1>10, <1>11, <1>12 DEF Relaying

\* Receiving: the other side is registered for writing in the same call.
LEMMA ReadBytesKeepsRelaying ==
    ASSUME TypeOK, Relaying, NEW x \in Side, ReadBytes(x)
    PROVE  Relaying'
<1> DEFINE y == Other(x)
           n == MinOf(Available(x), WriteSpace(write_buff[x]))
<1>0. Running /\ y = Other(x) /\ y \in Side /\ y # x /\ Other(y) = x /\ Side = {x, y}
  BY TwoSides DEF ReadBytes, Handle, Turn
<1>1. /\ taken' = [taken EXCEPT ![x] = @ + n]
      /\ write_buff' = [write_buff EXCEPT ![x] = buffer_write_adv(@, n)]
      /\ interests' = [interests EXCEPT ![y] = (@ \cup {OP_WRITE}) \cap int_connection[y]]
      /\ item' = [item EXCEPT ![y] = interests'[y]]
      /\ UNCHANGED <<state, alive, int_connection, shut_wr, given>>
      /\ OP_READ \in item[x]
  BY DEF ReadBytes, Handle, sockVars
<1>2. n \in 0..WriteSpace(write_buff[x]) /\ n > 0
  BY ReceivedFits DEF ReadBytes
<1> HIDE DEF y, n
<1>3. /\ interests'[y] = (interests[y] \cup {OP_WRITE}) \cap int_connection[y]
      /\ interests'[x] = interests[x] /\ item'[y] = interests'[y] /\ item'[x] = item[x]
      /\ taken'[x] = taken[x] + n /\ taken'[y] = taken[y] /\ taken[x] \in Nat
      /\ write_buff'[x] = buffer_write_adv(write_buff[x], n) /\ write_buff'[y] = write_buff[y]
  BY <1>0, <1>1, RelayAssumption DEF TypeOK
<1>4. /\ buffer_can_read(write_buff'[x])
      /\ Pending(write_buff'[x]) = Pending(write_buff[x]) + n
  BY <1>2, <1>3, WriteAdvKeepsBuffer DEF TypeOK
<1>5. item = interests
  BY <1>0 DEF Relaying, SelectorInSync
<1>6. OP_READ \in int_connection[x] /\ OP_WRITE \in int_connection[y]
  BY <1>0, <1>1, <1>5 DEF Relaying, ConnectionBitsAgree
<1>7. SelectorInSync'
  BY <1>0, <1>1, <1>3, <1>5 DEF SelectorInSync, TypeOK
<1>8. ConnectionBitsAgree'
  BY <1>0, <1>1, <1>3, TwoInterests DEF Relaying, ConnectionBitsAgree, Running
<1>9. PausedReadersResume'
  <2>1. x = SRC => ~Wedged
    BY DEF ReadBytes, Wedged
  <2>2. x # SRC => Wedged' = Wedged
    <3>1. x # SRC => y = SRC
      BY <1>0 DEF Side
    <3> QED BY <1>0, <1>3, <3>1 DEF Wedged
  <2>3. OP_READ \in item'[x] /\ OP_READ \in int_connection'[x]
    BY <1>1, <1>3, <1>6
  <2>4. (OP_READ \in int_connection[y] /\ OP_READ \notin item[y])
          => \/ buffer_can_read(write_buff[y]) /\ OP_WRITE \in item[x]
             \/ y = SRC /\ Wedged
    BY <1>0 DEF Relaying, PausedReadersResume
  <2>5. OP_READ \in int_connection[y] => (OP_READ \in item'[y] <=> OP_READ \in item[y])
    BY <1>3, <1>5, TwoInterests
  <2>6. (OP_READ \in int_connection'[y] /\ OP_READ \notin item'[y])
          => \/ buffer_can_read(write_buff'[y]) /\ OP_WRITE \in item'[x]
             \/ y = SRC /\ Wedged'
    BY <1>0, <1>1, <1>3, <2>1, <2>2, <2>4, <2>5
  <2> QED BY <1>0, <2>3, <2>6 DEF PausedReadersResume
<1>10. PendingIsScheduled'
  BY <1>0, <1>1, <1>3, <1>5 DEF Relaying, PendingIsScheduled
<1>11. NothingToWriteYet'
  <2>1. taken'[x] # 0
    BY <1>2, <1>3
  <2>2. taken'[y] = 0 => OP_WRITE \notin item'[x]
    BY <1>0, <1>3 DEF Relaying, NothingToWriteYet
  <2> QED BY <1>0, <2>1, <2>2 DEF NothingToWriteYet
<1>12. BytesConserved'
  <2>1. Pending(write_buff[x]) = taken[x] + EarlyBytes(x) - given[y]
        /\ Pending(write_buff[y]) = taken[y] + EarlyBytes(y) - given[x]
    BY <1>0 DEF Relaying, BytesConserved
  <2>2. EarlyBytes(x) \in Int /\ given[y] \in Int /\ n \in Int
    BY <1>0, <1>2, RelayAssumption DEF TypeOK, EarlyBytes
  <2>3. Pending(write_buff'[x]) = taken'[x] + EarlyBytes(x) - given'[y]
    BY <1>1, <1>3, <1>4, <2>1, <2>2
  <2>4. Pending(write_buff'[y]) = taken'[y] + EarlyBytes(y) - given'[x]
    BY <1>1, <1>3, <2>1
  <2> QED BY <1>0, <2>3, <2>4 DEF BytesConserved, EarlyBytes
<1>13. HalfCloseAfterDrain'
  BY <1>0, <1>1, <1>3, <1>5, <1>6, TwoInterests DEF Relaying, HalfCloseAfterDrain
<1> QED BY <1>7, <1>8, <1>9, <1>10, <1>11, <1>12, <1>13 DEF Relaying

\* The end of a stream: the other side keeps its interest in writing while
\* bytes are pending and is shut down at once when none are.
LEMMA ReadEndKeepsRelaying ==
    ASSUME TypeOK, Relaying, NEW x \in Side, ReadEnd(x)
    PROVE  Relaying'
<1> DEFINE y == Other(x)
           conn == [int_connection EXCEPT ![x] = @ \ {OP_READ}, ![y] = @ \cap {OP_READ}]
           drained == ~buffer_can_read(write_buff[x])
<1>0. Running /\ y = Other(x) /\ y \in Side /\ y # x /\ Other(y) = x /\ Side = {x, y}
  BY TwoSides DEF ReadEnd, StreamEnds, NothingPending, Handle, Turn
<1>1. /\ int_connection' = conn
      /\ UNCHANGED <<alive, write_buff, taken, given>>
      /\ OP_READ \in item[x]
      /\ state' = IF conn[x] = OP_NOOP /\ conn[y] = OP_NOOP THEN "DONE" ELSE "COPY"
      /\ shut_wr' = IF drained THEN [shut_wr EXCEPT ![y] = TRUE] ELSE shut_wr
  BY DEF ReadEnd, StreamEnds, NothingPending, Handle
<1>2. /\ interests'[x] = interests[x] \cap conn[x]
      /\ interests'[y] = IF drained THEN interests[y] \cap conn[y] ELSE interests[y]
      /\ item'[x] = interests'[x]
      /\ item'[y] = IF drained THEN interests'[y] ELSE item[y]
      /\ interests' \in [Side -> SUBSET Interest] /\ item' \in [Side -> SUBSET Interest]
  <2> DEFINE mine == [interests EXCEPT ![x] = @ \cap conn[x]]
  <2>1. /\ interests' = IF drained THEN [mine EXCEPT ![y] = @ \cap conn[y]] ELSE mine
        /\ item' = IF drained THEN [item EXCEPT ![x] = interests'[x], ![y] = interests'[y]]
                              ELSE [item EXCEPT ![x] = interests'[x]]
    BY DEF ReadEnd, StreamEnds, NothingPending
  <2> HIDE DEF y, conn, drained
  <2>2. /\ interests \in [Side -> SUBSET Interest] /\ item \in [Side -> SUBSET Interest]
        /\ mine \in [Side -> SUBSET Interest]
        /\ mine[x] = interests[x] \cap conn[x] /\ mine[y] = interests[y]
    BY <1>0 DEF TypeOK
  <2>3. CASE drained
    BY <1>0, <2>1, <2>2, <2>3
  <2>4. CASE ~drained
    BY <1>0, <2>1, <2>2, <2>4
  <2> QED BY <2>3, <2>4
<1>3. /\ conn[x] = int_connection[x] \ {OP_READ}
      /\ conn[y] = int_connection[y] \cap {OP_READ}
      /\ int_connection[x] \subseteq {OP_READ, OP_WRITE}
      /\ int_connection[y] \subseteq {OP_READ, OP_WRITE}
  BY <1>0 DEF TypeOK, Interest
<1>4. /\ drained => shut_wr'[y] = TRUE /\ shut_wr'[x] = shut_wr[x]
      /\ ~drained => shut_wr' = shut_wr
  BY <1>0, <1>1 DEF TypeOK
<1> HIDE DEF y, conn
<1>5. item = interests
  BY <1>0 DEF Relaying, SelectorInSync
<1>6. OP_READ \in int_connection[x] /\ OP_WRITE \in int_connection[y]
  BY <1>0, <1>1, <1>5 DEF Relaying, ConnectionBitsAgree
<1>7. OP_WRITE \in int_connection[x] <=> OP_READ \in int_connection[y]
  BY <1>0 DEF Relaying, ConnectionBitsAgree
<1> SUFFICES ASSUME Running' PROVE Relaying'
  BY ClosingKeepsRelaying
<1>8. OP_READ \in int_connection[y]
  BY <1>1, <1>3, <1>7, TwoInterests DEF Running, OP_NOOP
<1>9. SelectorInSync'
  BY <1>0, <1>2, <1>5 DEF SelectorInSync
<1>10. ConnectionBitsAgree'
  BY <1>0, <1>1, <1>2, <1>3, <1>7, <1>8, TwoInterests DEF Relaying, ConnectionBitsAgree
<1>11. PausedReadersResume'
  <2>1. Wedged' <=> Wedged
    BY <1>1 DEF Wedged
  <2> QED BY <1>0, <1>1, <1>2, <1>3, <1>5, <1>7, <1>8, <2>1, TwoInterests
          DEF Relaying, PausedReadersResume
<1>12. PendingIsScheduled'
  BY <1>0, <1>1, <1>2, <1>3, <1>5, TwoInterests DEF Relaying, PendingIsScheduled
<1>13. BytesConserved' /\ NothingToWriteYet'
  BY <1>0, <1>1, <1>2, <1>5 DEF Relaying, BytesConserved, NothingToWriteYet, EarlyBytes
<1>14. HalfCloseAfterDrain'
  <2>1. CASE drained
    <3>1. /\ OP_READ \notin int_connection'[x] /\ ~buffer_can_read(write_buff'[x])
          /\ OP_WRITE \notin item'[y]
      BY <1>1, <1>2, <1>3, <2>1, TwoInterests
    <3>2. shut_wr'[x] => /\ OP_READ \notin int_connection'[y]
                         /\ ~buffer_can_read(write_buff'[y])
                         /\ OP_WRITE \notin item'[x]
      BY <1>0, <1>1, <1>2, <1>3, <1>4, <1>5, <2>1 DEF Relaying, HalfCloseAfterDrain
    <3> QED BY <1>0, <3>1, <3>2 DEF HalfCloseAfterDrain
  <2>2. CASE ~drained
    BY <1>0, <1>1, <1>2, <1>3, <1>4, <1>5, <2>2 DEF Relaying, HalfCloseAfterDrain
  <2> QED BY <2>1, <2>2
<1> QED BY <1>9, <1>10, <1>11, <1>12, <1>13, <1>14 DEF Relaying

\* Sending: the reader of these bytes is turned on again in the same call,
\* and the writer goes quiet only when nothing is left.
LEMMA WriteBytesKeepsRelaying ==
    ASSUME TypeOK, Relaying, NEW x \in Side, WriteBytes(x)
    PROVE  Relaying'
<1> DEFINE y == Other(x)
<1>0. Running /\ y = Other(x) /\ y \in Side /\ y # x /\ Other(y) = x /\ Side = {x, y}
  BY TwoSides DEF WriteBytes, Handle, Turn
<1>1. PICK n \in MinOf(1, Pending(read_buff(x)))..Pending(read_buff(x)) :
        LET left == buffer_read_adv(read_buff(x), n)
            drained == ~buffer_can_read(left)
            resumed == [interests EXCEPT ![y] = (@ \cup {OP_READ}) \cap int_connection[y]]
        IN  /\ given' = [given EXCEPT ![x] = @ + n]
            /\ write_buff' = [write_buff EXCEPT ![y] = left]
            /\ interests' = IF drained
                 THEN [resumed EXCEPT ![x] = (@ \cap {OP_READ}) \cap int_connection[x]]
                 ELSE resumed
            /\ item' = IF drained
                 THEN [item EXCEPT ![x] = interests'[x], ![y] = interests'[y]]
                 ELSE [item EXCEPT ![y] = interests'[y]]
            /\ shut_wr' = [shut_wr EXCEPT
                 ![x] = @ \/ (drained /\ OP_WRITE \notin int_connection[x])]
  BY DEF WriteBytes
<1> DEFINE left == buffer_read_adv(read_buff(x), n)
           drained == ~buffer_can_read(left)
<1>2. /\ UNCHANGED <<state, alive, int_connection, taken>>
      /\ OP_WRITE \in item[x] /\ ~shut_wr[x]
  BY DEF WriteBytes, Handle, Broken
<1>3. n \in 0..Pending(write_buff[y]) /\ read_buff(x) = write_buff[y]
  BY SentIsPending DEF read_buff
<1>4. /\ Pending(left) = Pending(write_buff[y]) - n
      /\ left \in Pointers /\ WellFormed(left)
      /\ drained => WriteSpace(left) = Limit
      /\ ~drained => buffer_can_read(write_buff[y])
  <2>1. write_buff[y] \in Pointers /\ WellFormed(write_buff[y]) /\ Compacted(write_buff[y])
    BY <1>0 DEF TypeOK
  <2>2. Pending(write_buff[y]) \in Nat
    BY <2>1, LimitAssumption DEF Pointers, WellFormed, Pending
  <2>3. drained <=> n = Pending(write_buff[y])
    BY <1>3, <2>1, ReadAdvKeepsBuffer
  <2>4. ~drained => buffer_can_read(write_buff[y])
    BY <1>3, <2>2, <2>3 DEF buffer_can_read, Pending
  <2> QED BY <1>3, <2>1, <2>3, <2>4, ReadAdvKeepsBuffer
<1>5. /\ interests'[y] = (interests[y] \cup {OP_READ}) \cap int_connection[y]
      /\ interests'[x] = IF drained THEN (interests[x] \cap {OP_READ}) \cap int_connection[x]
                                    ELSE interests[x]
      /\ item'[y] = interests'[y]
      /\ item'[x] = IF drained THEN interests'[x] ELSE item[x]
      /\ write_buff'[y] = left /\ write_buff'[x] = write_buff[x]
      /\ given'[x] = given[x] + n /\ given'[y] = given[y]
      /\ interests' \in [Side -> SUBSET Interest] /\ item' \in [Side -> SUBSET Interest]
      /\ shut_wr'[x] = (drained /\ OP_WRITE \notin int_connection[x])
      /\ shut_wr'[y] = shut_wr[y]
  <2> DEFINE resumed == [interests EXCEPT ![y] = (@ \cup {OP_READ}) \cap int_connection[y]]
  <2>1. /\ given' = [given EXCEPT ![x] = @ + n]
        /\ write_buff' = [write_buff EXCEPT ![y] = left]
        /\ interests' = IF drained
             THEN [resumed EXCEPT ![x] = (@ \cap {OP_READ}) \cap int_connection[x]]
             ELSE resumed
        /\ item' = IF drained
             THEN [item EXCEPT ![x] = interests'[x], ![y] = interests'[y]]
             ELSE [item EXCEPT ![y] = interests'[y]]
        /\ shut_wr' = [shut_wr EXCEPT
             ![x] = @ \/ (drained /\ OP_WRITE \notin int_connection[x])]
    BY <1>1
  <2> HIDE DEF y, left, drained
  <2>2. /\ interests \in [Side -> SUBSET Interest] /\ item \in [Side -> SUBSET Interest]
        /\ int_connection \in [Side -> SUBSET Interest]
        /\ resumed \in [Side -> SUBSET Interest]
        /\ resumed[y] = (interests[y] \cup {OP_READ}) \cap int_connection[y]
        /\ resumed[x] = interests[x]
    BY <1>0, TwoInterests DEF TypeOK
  <2>3. /\ write_buff'[y] = left /\ write_buff'[x] = write_buff[x]
        /\ given'[x] = given[x] + n /\ given'[y] = given[y]
        /\ shut_wr'[x] = (drained /\ OP_WRITE \notin int_connection[x])
        /\ shut_wr'[y] = shut_wr[y]
    BY <1>0, <1>2, <2>1 DEF TypeOK
  <2> HIDE DEF resumed
  <2>4. CASE drained
    <3>1. interests' = [resumed EXCEPT ![x] = (@ \cap {OP_READ}) \cap int_connection[x]]
      BY <2>1, <2>4
    <3>2. item' = [item EXCEPT ![x] = interests'[x], ![y] = interests'[y]]
      BY <2>1, <2>4
    <3>3. /\ interests'[y] = resumed[y]
          /\ interests'[x] = (interests[x] \cap {OP_READ}) \cap int_connection[x]
          /\ interests' \in [Side -> SUBSET Interest]
      BY <1>0, <2>2, <3>1
    <3>4. item'[y] = interests'[y] /\ item'[x] = interests'[x] /\ item' \in [Side -> SUBSET Interest]
      BY <1>0, <2>2, <3>2, <3>3
    <3> QED BY <2>2, <2>3, <2>4, <3>3, <3>4
  <2>5. CASE ~drained
    BY <1>0, <2>1, <2>2, <2>3, <2>5
  <2> QED BY <2>4, <2>5
<1> HIDE DEF y, left, drained
<1>6. item = interests
  BY <1>0 DEF Relaying, SelectorInSync
<1>7. OP_WRITE \in int_connection[x] <=> OP_READ \in int_connection[y]
  BY <1>0 DEF Relaying, ConnectionBitsAgree
<1>8. SelectorInSync'
  <2>1. \A z \in Side : item'[z] = interests'[z]
    BY <1>0, <1>5, <1>6
  <2> QED BY <1>5, <2>1 DEF SelectorInSync
<1>9. ConnectionBitsAgree'
  BY <1>0, <1>2, <1>5, TwoInterests DEF Relaying, ConnectionBitsAgree, Running
<1>10. PausedReadersResume'
  <2>1. OP_READ \in int_connection[x] => OP_WRITE \in int_connection[y]
    BY <1>0 DEF Relaying, ConnectionBitsAgree
  <2>2. (OP_READ \in int_connection[x] /\ OP_READ \notin item[x])
          => \/ buffer_can_read(write_buff[x]) /\ OP_WRITE \in item[y]
             \/ x = SRC /\ Wedged
    BY <1>0 DEF Relaying, PausedReadersResume
  <2>5. x = SRC => (Wedged' <=> Wedged)
    BY <1>2, <1>5 DEF Wedged
  <2>3. (OP_READ \in int_connection[x] /\ OP_READ \notin item'[x])
          => \/ buffer_can_read(write_buff'[x]) /\ OP_WRITE \in item'[y]
             \/ x = SRC /\ Wedged'
    BY <1>5, <1>6, <2>1, <2>2, <2>5, TwoInterests
  <2>4. OP_READ \in int_connection[y] => OP_READ \in item'[y]
    BY <1>5
  <2> QED BY <1>0, <1>2, <2>3, <2>4 DEF PausedReadersResume
<1>11. PendingIsScheduled'
  BY <1>0, <1>2, <1>4, <1>5, <1>6, TwoInterests DEF Relaying, PendingIsScheduled, drained
<1>12. NothingToWriteYet'
  <2>1. taken[y] # 0
    BY <1>0, <1>2 DEF Relaying, NothingToWriteYet
  <2>2. taken[x] = 0 => OP_WRITE \notin item'[y]
    BY <1>0, <1>5, <1>6, TwoInterests DEF Relaying, NothingToWriteYet
  <2> QED BY <1>0, <1>2, <2>1, <2>2 DEF NothingToWriteYet
<1>13. BytesConserved'
  <2>1. Pending(write_buff[x]) = taken[x] + EarlyBytes(x) - given[y]
        /\ Pending(write_buff[y]) = taken[y] + EarlyBytes(y) - given[x]
    BY <1>0 DEF Relaying, BytesConserved
  <2>2. EarlyBytes(y) \in Int /\ given[x] \in Int /\ n \in Int /\ taken[y] \in Int
    BY <1>0, <1>3, RelayAssumption DEF TypeOK, EarlyBytes
  <2>3. Pending(write_buff'[y]) = taken'[y] + EarlyBytes(y) - given'[x]
    BY <1>2, <1>4, <1>5, <2>1, <2>2
  <2>4. Pending(write_buff'[x]) = taken'[x] + EarlyBytes(x) - given'[y]
    BY <1>2, <1>5, <2>1
  <2> QED BY <1>0, <2>3, <2>4 DEF BytesConserved, EarlyBytes
<1>14. HalfCloseAfterDrain'
  <2>1. shut_wr'[x] => /\ OP_READ \notin int_connection'[y]
                       /\ ~buffer_can_read(write_buff'[y])
                       /\ OP_WRITE \notin item'[x]
    BY <1>2, <1>5, <1>7, TwoInterests DEF drained
  <2>2. shut_wr'[y] => /\ OP_READ \notin int_connection'[x]
                       /\ ~buffer_can_read(write_buff'[x])
                       /\ OP_WRITE \notin item'[y]
    BY <1>0, <1>2, <1>5, <1>6, TwoInterests DEF Relaying, HalfCloseAfterDrain
  <2> QED BY <1>0, <2>1, <2>2 DEF HalfCloseAfterDrain
<1> QED BY <1>8, <1>9, <1>10, <1>11, <1>12, <1>13, <1>14 DEF Relaying

\* Every step keeps the invariant.
LEMMA NextRelaying == TypeOK /\ Relaying /\ [Next]_vars => Relaying'
<1> SUFFICES ASSUME TypeOK, Relaying, [Next]_vars PROVE Relaying'
  OBVIOUS
<1>1. ASSUME NEW x \in Side, PeerSend(x) \/ PeerFin(x) \/ PeerReset(x) \/ PeerDrain(x)
      PROVE  Relaying'
  BY <1>1, FrameKeepsRelaying DEF PeerSend, PeerFin, PeerReset, PeerDrain, sockVars
<1>2. CASE ErrnoOfOthers \/ selector_select
  BY <1>2, FrameKeepsRelaying DEF ErrnoOfOthers, selector_select, sockVars
<1>3. ASSUME NEW x \in Side, NEW op \in Interest, Skip(x, op) PROVE Relaying'
  BY <1>3, FrameKeepsRelaying DEF Skip, sockVars
<1>4. ASSUME NEW x \in Side, ReadAgain(x) \/ WriteAgain(x) PROVE Relaying'
  BY <1>4, FrameKeepsRelaying DEF ReadAgain, WriteAgain, sockVars
<1>5. ASSUME NEW x \in Side, WriteError(x) \/ WriteSigpipe(x) PROVE Relaying'
  BY <1>5, ClosingKeepsRelaying DEF WriteError, WriteSigpipe, Running
<1>6. CASE UNCHANGED vars
  BY <1>6, FrameKeepsRelaying DEF vars, sockVars
<1> QED
  BY <1>1, <1>2, <1>3, <1>4, <1>5, <1>6, ReadPauseKeepsRelaying, ReadBytesKeepsRelaying,
     ReadEndKeepsRelaying, WriteBytesKeepsRelaying
     DEF Next, Environment, handle_iteration, copy_read, copy_write

\* The invariant holds in every reachable state.
THEOREM RelayCorrect == Spec => []RelayInv
<1>1. Init => RelayInv
  BY InitTypeOK, InitRelaying DEF RelayInv
<1>2. RelayInv /\ [Next]_vars => RelayInv'
  BY NextTypeOK, NextRelaying DEF RelayInv
<1> QED BY <1>1, <1>2, PTL DEF Spec

\* Nothing is lost, duplicated or invented between a recv and the send that
\* hands the bytes on, whatever the sizes and the interleaving.
THEOREM ByteConservation == Spec => []BytesConserved
<1>1. RelayInv => BytesConserved
  BY DEF RelayInv, Relaying
<1> QED BY <1>1, RelayCorrect, PTL

\* Flow control is free of deadlock once the origin has answered: whoever
\* stopped reading for lack of room is turned on again by a writer that is
\* registered and has work, unless it is an origin whose buffer is Wedged.
THEOREM PausedReadersAreResumed == Spec => []PausedReadersResume
<1>1. RelayInv => PausedReadersResume
  BY DEF RelayInv, Relaying
<1> QED BY <1>1, RelayCorrect, PTL

\* The end of a stream is passed on after its last byte, and nothing is sent
\* after it: copy_write never meets the SIGPIPE of its own shutdown.
THEOREM HalfClose == Spec => []HalfCloseAfterDrain
<1>1. RelayInv => HalfCloseAfterDrain
  BY DEF RelayInv, Relaying
<1> QED BY <1>1, RelayCorrect, PTL

\* A relayed connection can always be reached by some event, unless it is
\* Wedged and its client has ended.
THEOREM NeverLeftOrphaned == Spec => []NeverOrphaned
<1>1. RelayInv => NeverOrphaned
  <2> SUFFICES ASSUME RelayInv, Running, \A x \in Side : item[x] = OP_NOOP
               PROVE  Wedged /\ OP_READ \notin int_connection[CLI]
    BY DEF NeverOrphaned
  <2>1. \A x \in Side : OP_READ \in int_connection[x] => x = SRC /\ Wedged
    BY TwoSides DEF RelayInv, Relaying, PausedReadersResume, OP_NOOP
  <2>2. PICK x \in Side : OP_READ \in int_connection[x]
    BY DEF RelayInv, Relaying, ConnectionBitsAgree
  <2> QED BY <2>1, <2>2 DEF Side, CLI, SRC
<1> QED BY <1>1, RelayCorrect, PTL

\* The case the last theorems leave out is one the relay does not get out of:
\* as long as it runs, a Wedged buffer stays as it is, nothing is received from
\* the origin, and its end is not either.
THEOREM WedgedForGood == Spec => [][Wedged /\ Running' => Wedged']_vars
<1>1. ASSUME RelayInv, [Next]_vars, Wedged, Running' PROVE Wedged'
  <2>2. ASSUME NEW x \in Side, ReadBytes(x) PROVE Wedged'
    <3>1. x # SRC
      BY <1>1, <2>2 DEF ReadBytes, Wedged
    <3> QED BY <1>1, <2>2, <3>1 DEF RelayInv, TypeOK, ReadBytes, Wedged, Side
  <2>3. ASSUME NEW x \in Side, WriteBytes(x) PROVE Wedged'
    <3>1. Running /\ OP_WRITE \in item[x]
      BY <2>3 DEF WriteBytes, Handle, Turn
    <3>2. taken[Other(x)] # 0
      BY <1>1, <3>1, TwoSides DEF RelayInv, Relaying, NothingToWriteYet
    <3>3. Other(x) # SRC
      BY <1>1, <3>2 DEF Wedged
    <3>4. UNCHANGED taken /\ write_buff'[SRC] = write_buff[SRC]
      BY <1>1, <2>3, <3>3, TwoSides DEF RelayInv, TypeOK, WriteBytes, Side
    <3> QED BY <1>1, <3>4 DEF Wedged
  <2>4. CASE UNCHANGED <<write_buff, taken>>
    BY <1>1, <2>4 DEF Wedged
  <2> QED
    BY <1>1, <2>2, <2>3, <2>4
       DEF Next, Environment, PeerSend, PeerFin, PeerReset, PeerDrain, ErrnoOfOthers,
           selector_select, handle_iteration, Skip, copy_read, copy_write, ReadPause, ReadAgain,
           ReadEnd, WriteAgain, WriteError, WriteSigpipe, vars, copyVars
<1>2. RelayInv /\ [Next]_vars => [Wedged /\ Running' => Wedged']_vars
  BY <1>1
<1> QED BY <1>2, RelayCorrect, PTL DEF Spec
=============================================================================
