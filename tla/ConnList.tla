------------------------------ MODULE ConnList ------------------------------
(***************************************************************************)
(* The list of management connections of controlProtocol.c: nodes linked   *)
(* by nextConn, each in the block of memory of its connection.  When a     *)
(* connection goes, what its handlers decide is in ControlConn; here are   *)
(* the list, the blocks and the count of connections.                      *)
(*                                                                         *)
(* A node freed while it was linked keeps its place.  Its content is then  *)
(* that of free memory: a walk over it may go on or end the process, and   *)
(* its descriptor may or may not be the one a search looks for.            *)
(***************************************************************************)
EXTENDS Integers, Sequences, SequencesExt

CONSTANTS
    Block,      \* addresses calloc may return for a connection
    MaxRefused  \* bound: connections the selector refuses

VARIABLES
    connList,   \* addresses from connList->first along nextConn
    looped,     \* is the last node followed by itself instead of NULL?
    live,       \* blocks of open connections
    current_mgmt_connections,
    refused,    \* connections refused so far
    up          \* is the server running?

vars == <<connList, looped, live, current_mgmt_connections, refused, up>>

Init ==
    /\ connList = <<>> /\ looped = FALSE /\ live = {}
    /\ current_mgmt_connections = 0 /\ refused = 0 /\ up = TRUE

Freed(s) == ToSet(s) \ live

\* A walk over s that meets memory already freed may end the process.
Survives(s) == up' = TRUE \/ (Freed(s) # {} /\ up' = FALSE)

Place(c) == CHOOSE i \in 1..Len(connList) : connList[i] = c

\* The new node has nextConn = NULL from calloc.  If its address is still in the
\* list, the walk ends at the new node itself, which becomes its own successor.
\* A list with such a loop is walked for ever.
addToList(c) ==
    \/ /\ looped /\ c \notin ToSet(connList)
       /\ up' = FALSE /\ UNCHANGED <<connList, looped>>
    \/ /\ ~looped /\ c \notin ToSet(connList)
       /\ connList' = Append(connList, c) /\ looped' = FALSE
       /\ Survives(connList)
    \/ /\ c \in ToSet(connList)
       /\ connList' = SubSeq(connList, 1, Place(c)) /\ looped' = TRUE
       /\ Survives(SubSeq(connList, 1, Place(c) - 1))

\* removeRec takes out the first node with c's descriptor: c, or a freed node in
\* front of it.  A node that is its own successor stays, without the loop.
removeFromList(c) ==
    \/ /\ c \notin ToSet(connList)
       /\ IF looped THEN up' = FALSE ELSE Survives(connList)
       /\ UNCHANGED <<connList, looped>>
    \/ \E d \in ToSet(connList) :
         /\ d = c \/ d \notin live
         /\ c \in ToSet(connList) => Place(d) <= Place(c)
         /\ Survives(SubSeq(connList, 1, Place(d) - 1))
         /\ IF looped /\ Place(d) = Len(connList)
            THEN looped' = FALSE /\ UNCHANGED connList
            ELSE connList' = RemoveAt(connList, Place(d)) /\ UNCHANGED looped

freeControlProtConn(c) ==
    /\ live' = live \ {c}
    /\ current_mgmt_connections' = current_mgmt_connections - 1

\* passive_cp_socket_handler, when everything succeeds.
Accept ==
    \E c \in Block \ live :
        /\ up
        /\ addToList(c)
        /\ live' = live \cup {c}
        /\ current_mgmt_connections' = current_mgmt_connections + 1
        /\ UNCHANGED refused

\* The selector refuses the descriptor of a connection already in the list,
\* which is then freed and counted out without having been counted.
Refuse ==
    \E c \in Block \ live :
        /\ up /\ refused < MaxRefused
        /\ addToList(c)
        /\ freeControlProtConn(c)
        /\ refused' = refused + 1

\* The end of cpReadHandler and cpWriteHandler when recv or send fails.
End ==
    \E c \in live :
        /\ up
        /\ removeFromList(c)
        /\ freeControlProtConn(c)
        /\ UNCHANGED refused

\* cpError.
cpError ==
    \E c \in live :
        /\ up
        /\ freeControlProtConn(c)
        /\ UNCHANGED <<connList, looped, refused, up>>

Next == Accept \/ Refuse \/ End \/ cpError

Spec == Init /\ [][Next]_vars

\* A node is freed after it was unlinked: every node of the list is the
\* connection of a client that is still there.
UnlinkedBeforeFreed == Freed(connList) = {}
=============================================================================
