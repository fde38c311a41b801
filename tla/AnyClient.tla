------------------------------ MODULE AnyClient ------------------------------
(***************************************************************************)
(* The client library under an application that connects, connects again,  *)
(* closes and updates in whatever order it likes, from its main loop and   *)
(* from inside its callbacks, which it sets before.  It keeps to what the  *)
(* class asks of its user: initializeConnection comes first, for it sets   *)
(* members the other calls read, and updateConnection is not called from   *)
(* inside a callback.  Sends, which change nothing of the client's own,    *)
(* are left out: ExampleClient has them.                                   *)
(***************************************************************************)
EXTENDS Client

CONSTANT MaxConnects   \* bound: calls of initializeConnection

ASSUME ConnectsAssumption == MaxConnects \in Nat

VARIABLES
  packet_callback, connection_status_change_callback,   \* is one set?
  connects,
  over,      \* connections whose end a callback has reported
  careless   \* was a connection replaced before its end was reported, or unclosed?

applicationVars == <<packet_callback, connection_status_change_callback, connects, over, careless>>
anyVars == <<socketVars, clientVars, applicationVars>>

\* A connection that is gone, and a change that reports it.
Ended(c) == handle[c] \in Lost \cup {"Destroyed"}
Ends(info) == info.new \in Lost \cup {"None"}

AnyTypeOK ==
  /\ SocketsTypeOK
  /\ server_connection \in Conn \cup {NoConn}
  /\ packet_index \in 0 .. MaxProcessedPackets
  /\ batch \in Nat
  /\ pc \in {"main", "processReceivedPackets", "processConnectionStateChanges", "RunCallbacks", "callback"}
  /\ outcome \in {"running", "nullPacket", "exit"}
  /\ packet_callback \in BOOLEAN /\ connection_status_change_callback \in BOOLEAN
  /\ connects \in 0 .. MaxConnects
  /\ over \subseteq Conn
  /\ careless \in BOOLEAN

AnyInit ==
  /\ SocketsInit
  /\ ClientInit
  /\ pc = "main"
  /\ outcome = "running"
  /\ packet_callback \in BOOLEAN /\ connection_status_change_callback \in BOOLEAN
  /\ connects = 0
  /\ over = {}
  /\ careless = FALSE

-----------------------------------------------------------------------------
(* Calls of the application.                                               *)

InCallback == pc = "callback" \/ (packet_callback /\ pc = "processReceivedPackets" /\ packet_index > 0)

\* There is nothing left of the connection the next one replaces.
Settled ==
  server_connection \in Conn /\ handle[server_connection] # "Unused" =>
    server_connection \in over /\ handle[server_connection] \notin Live

\* An address that does not parse leaves the connection as it was; otherwise it
\* is overwritten, not closed.
Connect ==
  /\ pc = "main" \/ InCallback
  /\ connects < MaxConnects
  /\ connects' = connects + 1
  /\ \/ UNCHANGED <<socketVars, server_connection, careless>>
     \/ initializeConnection /\ careless' = (careless \/ ~Settled)
  /\ UNCHANGED <<packet_index, batch, pc, outcome, packet_callback, connection_status_change_callback, over>>

\* On a handle that is not live the library does nothing.
Close ==
  /\ pc = "main" \/ InCallback
  /\ CanReceive(server_connection)
  /\ closeConnection(callbacks)
  /\ UNCHANGED <<packet_index, batch, pc, outcome, applicationVars>>

Update ==
  /\ pc = "main"
  /\ connects > 0
  /\ updateConnection
  /\ UNCHANGED applicationVars

-----------------------------------------------------------------------------
(* The library.                                                            *)

\* onSteamNetConnectionStatusChanged.
AnyDispatch ==
  /\ pc = "RunCallbacks"
  /\ batch > 0
  /\ batch' = batch - 1
  /\ callbacks' = Tail(callbacks)
  /\ LET info == Head(callbacks)
     IN IF connection_status_change_callback
        THEN /\ pc' = "callback"
             /\ over' = IF Ends(info) THEN over \cup {info.conn} ELSE over
             /\ UNCHANGED outcome
        ELSE outcome' = "exit" /\ UNCHANGED <<pc, over>>
  /\ UNCHANGED <<handle, unread, grouped, sent, server_connection, packet_index,
                 packet_callback, connection_status_change_callback, connects, careless>>

ReturnFromCallback ==
  /\ \/ pc = "callback" /\ pc' = "RunCallbacks"
     \/ pc = "RunCallbacks" /\ batch = 0 /\ pc' = "main"
  /\ UNCHANGED <<socketVars, server_connection, packet_index, batch, outcome, applicationVars>>

Library ==
  \/ AnyDispatch \/ ReturnFromCallback
  \/ (processReceivedPacket \/ packetsDone \/ processConnectionStateChanges) /\ UNCHANGED applicationVars

AnyNetwork ==
  /\ \E c \in Conn : PeerAccepts(c) \/ (\E how \in Lost : PeerIsLost(c, how)) \/ PeerSends(c)
  /\ UNCHANGED <<clientVars, applicationVars>>

AnyNext == outcome = "running" /\ (Connect \/ Close \/ Update \/ Library \/ AnyNetwork)

AnySpec == AnyInit /\ [][AnyNext]_anyVars

\* The application goes on calling updateConnection and returns from its
\* callbacks, whatever else it does.
FairAnySpec == AnySpec /\ WF_anyVars(outcome = "running" /\ (Update \/ Library))

-----------------------------------------------------------------------------
(* Properties.                                                             *)

\* closeConnection has no argument and the callback that reports a loss has one
\* (Client.cpp:119-132, 169-172): the two mean the same connection as long as the
\* application replaces a connection only when its end was reported and it is
\* closed.  Then nothing that is queued can make it close the wrong one, and no
\* connection but its own is alive.
LossIsOfTheCurrent ==
  ~careless =>
    /\ \A i \in DOMAIN callbacks : callbacks[i].new \in Lost => callbacks[i].conn = server_connection
    /\ \A c \in Conn : handle[c] \in Live => c = server_connection

\* What is queued of a connection's end is true, and nobody hears of a loss after
\* another end of the same connection.
EndsAreNews ==
  \A i \in DOMAIN callbacks :
    Ends(callbacks[i]) =>
      /\ Ended(callbacks[i].conn)
      /\ \A j \in DOMAIN callbacks :
           i < j /\ callbacks[j].conn = callbacks[i].conn => callbacks[j].new \notin Lost

\* What was reported as ended has ended, and no loss of it is on its way.
OverIsOver ==
  \A c \in over :
    /\ Ended(c)
    /\ \A i \in DOMAIN callbacks : callbacks[i].new \in Lost => callbacks[i].conn # c

\* The end of a connection was reported or is in the queue, the connections
\* nobody holds any more included (Client.cpp:108-132, 169-172).
NoEndIsForgotten ==
  outcome = "running" =>
    \A c \in Conn :
      Ended(c) => c \in over \/ \E i \in DOMAIN callbacks : callbacks[i].conn = c /\ Ends(callbacks[i])

\* What makes LossIsOfTheCurrent inductive: an application that waits for a
\* connection's end to be reported has no loss of it in the queue any more.
AnyIInv ==
  /\ AnyTypeOK
  /\ batch <= Len(callbacks)
  /\ EndsAreNews
  /\ OverIsOver
  /\ NoEndIsForgotten
  /\ LossIsOfTheCurrent

\* The end of every connection is reported, the ones that were replaced or closed
\* by the application included, and however much the server sends.
EndIsReported ==
  \A c \in Conn : Ended(c) ~> c \in over \/ outcome # "running"
=============================================================================
