-------------------------- MODULE ClientConnection --------------------------
(***************************************************************************)
(* Class ClientConnection by itself: objects that own a handle of the      *)
(* socket library, and whoever uses them constructing, moving, accepting,  *)
(* closing and destroying them in any order.  The server's table creates   *)
(* its entries in place and never moves one; the class is movable all the  *)
(* same, and a user who keeps entries in a container of another kind, or   *)
(* takes one out of the table, moves them.                                 *)
(***************************************************************************)
EXTENDS SteamSockets

CONSTANTS
  Object,    \* places in memory that may hold a ClientConnection
  Invalid    \* k_HSteamNetConnection_Invalid

ASSUME InvalidAssumption == Invalid \notin Conn

VARIABLES
  alive,      \* the objects that are constructed
  net_connection, connection_state,
  asserted    \* the assertion of the destructor failed

objectVars == <<alive, net_connection, connection_state, asserted>>
vars == <<socketVars, objectVars>>

ConnectionState == {"CONNECTING", "CONNECTED", "CLOSED"}

TypeOK ==
  /\ SocketsTypeOK
  /\ alive \subseteq Object
  /\ net_connection \in [Object -> Conn \cup {Invalid}]
  /\ connection_state \in [Object -> ConnectionState]
  /\ asserted \in BOOLEAN

Init ==
  /\ SocketsInit
  /\ alive = {}
  /\ net_connection = [o \in Object |-> Invalid]
  /\ connection_state = [o \in Object |-> "CONNECTING"]
  /\ asserted = FALSE

valid(o) == o \in alive /\ net_connection[o] # Invalid
Owned == {net_connection[o] : o \in {p \in alive : valid(p)}}

-----------------------------------------------------------------------------
(* The operations.                                                         *)

\* A handle the library has reported as connecting, and that may be lost by
\* now; its user makes one object for each.
Construct(o, c) ==
  /\ o \notin alive /\ c \notin Owned
  /\ handle[c] \in {"Connecting"} \cup Lost
  /\ alive' = alive \cup {o}
  /\ net_connection' = [net_connection EXCEPT ![o] = c]
  /\ connection_state' = [connection_state EXCEPT ![o] = "CONNECTING"]
  /\ UNCHANGED <<socketVars, asserted>>

\* Mutants: the object that is moved from keeps its handle, or the one that is
\* moved to its state.
keepsHandle(handles, other) == handles
staysConnecting(states, o, other) == [states EXCEPT ![o] = "CONNECTING"]

invalidate(handles, other) == [handles EXCEPT ![other] = Invalid]
takesState(states, o, other) == [states EXCEPT ![o] = states[other]]

\* Mutant: the handle is not taken over.
onlyInvalidates(o, other) ==
  /\ net_connection' = invalidate(net_connection, other)
  /\ connection_state' = takesState(connection_state, o, other)

moved(o, other) ==
  /\ net_connection' = invalidate([net_connection EXCEPT ![o] = net_connection[other]], other)
  /\ connection_state' = takesState(connection_state, o, other)

MoveConstruct(o, other) ==
  /\ o \notin alive /\ other \in alive
  /\ alive' = alive \cup {o}
  /\ moved(o, other)
  /\ UNCHANGED <<socketVars, asserted>>

\* operator=: what the object held is overwritten.  On itself it does nothing.
MoveAssign(o, other) ==
  /\ {o, other} \subseteq alive /\ o # other
  /\ moved(o, other)
  /\ UNCHANGED <<socketVars, alive, asserted>>

\* On an invalid handle, and on one that is not CONNECTING, the library refuses.
accept(o) ==
  /\ valid(o)
  /\ CanAccept(net_connection[o])
  /\ AcceptConnection(net_connection[o], callbacks)
  /\ connection_state' = [connection_state EXCEPT ![o] = "CONNECTED"]
  /\ UNCHANGED <<sent, alive, net_connection, asserted>>

setPollGroup(o) ==
  /\ valid(o)
  /\ handle[net_connection[o]] \in Live
  /\ SetConnectionPollGroup(net_connection[o])
  /\ UNCHANGED <<sent, objectVars>>

close(o) ==
  /\ o \in alive
  /\ IF valid(o) /\ handle[net_connection[o]] \in Live
     THEN CloseConnection(net_connection[o], callbacks) /\ UNCHANGED sent
     ELSE UNCHANGED socketVars
  /\ connection_state' = [connection_state EXCEPT ![o] = "CLOSED"]
  /\ UNCHANGED <<alive, net_connection, asserted>>

\* Mutant: the destructor asks the wrong state too.
openOrConnecting(o) == valid(o) /\ connection_state[o] = "CONNECTED"

\* What the destructor asserts the contrary of.
stillOpen(o) == valid(o) /\ connection_state[o] # "CLOSED"

Destroy(o) ==
  /\ o \in alive
  /\ alive' = alive \ {o}
  /\ asserted' = (asserted \/ stillOpen(o))
  /\ UNCHANGED <<socketVars, net_connection, connection_state>>

Use ==
  \/ \E o \in Object :
       \/ \E c \in Conn : Construct(o, c)
       \/ \E other \in Object : MoveConstruct(o, other) \/ MoveAssign(o, other)
       \/ accept(o) \/ setPollGroup(o) \/ close(o) \/ Destroy(o)

Network ==
  /\ \E c \in Conn : PeerConnects(c) \/ (\E how \in Lost : PeerIsLost(c, how)) \/ PeerSends(c)
  /\ UNCHANGED objectVars

Next == ~asserted /\ (Use \/ Network)

Spec == Init /\ [][Next]_vars

-----------------------------------------------------------------------------
(* Properties.                                                             *)

\* However the objects are moved, no handle has two owners, one of which could
\* close it under the other (ClientConnection.cpp:36-63).
OneOwner ==
  \A o, other \in alive :
    valid(o) /\ valid(other) /\ o # other => net_connection[o] # net_connection[other]

\* The state an owner keeps, and decides by whom to send to, is what became of
\* its handle: it follows the handle through every move, and only a loss that
\* no callback has reported yet separates the two (ClientConnection.h:58-61).
StateIsTrue ==
  \A o \in {p \in alive : valid(p)} :
    LET state == handle[net_connection[o]] IN
    /\ connection_state[o] = "CONNECTING" => state \in {"Connecting"} \cup Lost
    /\ connection_state[o] = "CONNECTED" => state \in {"Connected"} \cup Lost
    /\ connection_state[o] = "CLOSED" => state = "Destroyed"

\* What the objects need for these to be inductive.
IInv == TypeOK /\ OneOwner /\ StateIsTrue

\* The destructor's assertion (ClientConnection.cpp:67) stops the process just
\* when the object that goes is the last to know of a live connection.
AssertionIsExact ==
  [][\A o \in alive \ alive' :
       asserted' = (valid(o) /\ handle[net_connection[o]] \in Live)]_vars

\* The move assignment has no such assertion: it is the one way in which a live
\* connection may lose its owner without a word (ClientConnection.cpp:50-63), and
\* it does so only to what was assigned over.
UnownedOnlyWhenAssignedOver ==
  [][\A c \in Owned \ Owned' :
       handle[c] \in Live =>
         \/ asserted'
         \/ \E o, other \in Object : net_connection[o] = c /\ MoveAssign(o, other)]_vars
=============================================================================
