------------------------------- MODULE Client -------------------------------
(***************************************************************************)
(* The client library: class Client, one connection to the server.  Its    *)
(* methods are operators; the application (module ExampleClient) decides   *)
(* when they are called.                                                   *)
(***************************************************************************)
EXTENDS SteamSockets

CONSTANTS
  MaxProcessedPackets,   \* Client::max_processed_packets
  NoConn                 \* server_connection when there is none

ASSUME ClientAssumption == MaxProcessedPackets \in Nat \ {0} /\ NoConn \notin Conn

VARIABLES
  server_connection,
  packet_index,   \* loop variable of processReceivedPackets
  batch,          \* callbacks RunCallbacks still has to hand over
  pc,             \* where the main thread is
  outcome         \* "running", or what ended the process

clientVars == <<server_connection, packet_index, batch, pc, outcome>>

ClientInit ==
  /\ server_connection \in Conn \cup {NoConn}   \* not initialized
  /\ packet_index = 0
  /\ batch = 0

\* GetConnectionInfo leaves the state None for a handle it does not know.
connected == server_connection \in Conn /\ handle[server_connection] = "Connected"

\* Mutant: a second connection is made and not kept.
keepsFirst ==
  \/ \E c \in Conn : /\ ConnectByIPAddress(c)
                     /\ server_connection' = IF server_connection = NoConn THEN c ELSE server_connection
  \/ server_connection' = NoConn /\ UNCHANGED socketVars

initializeConnection ==
  \/ \E c \in Conn : ConnectByIPAddress(c) /\ server_connection' = c
  \/ server_connection' = NoConn /\ UNCHANGED socketVars

closeConnection(queue) ==
  /\ CloseConnection(server_connection, queue)
  /\ UNCHANGED <<sent, server_connection>>

\* The library takes the packet while the connection is up and refuses it
\* otherwise; the result is ignored.
sendDataToServer(kind) ==
  SendMessageToConnection(server_connection, [kind |-> kind, who |-> server_connection])

-----------------------------------------------------------------------------
(* updateConnection: packets, then callbacks.                              *)

updateConnection ==
  /\ pc' = "processReceivedPackets"
  /\ packet_index' = 0
  /\ UNCHANGED <<socketVars, server_connection, batch, outcome>>

\* Mutant: one packet too many.
oneMorePacket == packet_index <= MaxProcessedPackets

\* The condition of the loop.
morePackets == packet_index < MaxProcessedPackets

\* One turn of the loop.  A failed receive is only logged: without a packet
\* callback the next use of the null packet is Release.
processReceivedPacket ==
  /\ pc = "processReceivedPackets"
  /\ morePackets
  /\ \/ /\ ~CanReceive(server_connection)
        /\ outcome' = "nullPacket"
        /\ UNCHANGED <<socketVars, packet_index>>
     \/ /\ CanReceive(server_connection)
        /\ unread[server_connection] > 0
        /\ ReceiveMessage(server_connection)
        /\ packet_index' = packet_index + 1
        /\ UNCHANGED outcome
  /\ UNCHANGED <<server_connection, batch, pc>>

\* Mutant: the loop is left by returning from updateConnection.
returnsFromLoop ==
  /\ pc = "processReceivedPackets"
  /\ ~morePackets \/ (CanReceive(server_connection) /\ unread[server_connection] = 0)
  /\ pc' = "main"
  /\ UNCHANGED <<socketVars, server_connection, packet_index, batch, outcome>>

packetsDone ==
  /\ pc = "processReceivedPackets"
  /\ \/ ~morePackets
     \/ CanReceive(server_connection) /\ unread[server_connection] = 0
  /\ pc' = "processConnectionStateChanges"
  /\ UNCHANGED <<socketVars, server_connection, packet_index, batch, outcome>>

processConnectionStateChanges ==
  /\ pc = "processConnectionStateChanges"
  /\ pc' = "RunCallbacks"
  /\ batch' = Len(callbacks)
  /\ UNCHANGED <<socketVars, server_connection, packet_index, outcome>>
=============================================================================
