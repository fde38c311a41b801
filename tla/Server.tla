------------------------------- MODULE Server -------------------------------
(***************************************************************************)
(* The server library: class Server and the ClientConnection objects its   *)
(* table owns.  Its methods are operators here; the application (module    *)
(* ExampleServer) decides when they are called.  A method that calls the   *)
(* socket library states what happens to socketVars as well.               *)
(***************************************************************************)
EXTENDS SteamSockets, LineSource

CONSTANT MaxProcessedPackets   \* Server::max_processed_packets

ASSUME ServerAssumption == MaxProcessedPackets \in Nat

\* A handle is a number of 32 bits, so closing them one by one comes to an end.
ASSUME HandlesAssumption == IsFiniteSet(Conn)

VARIABLES
  running, quit_requested,
  listening_socket, poll_group, \* "garbage" until openConnection assigns them
  connections,    \* connection_state of each entry; "ABSENT": no entry
  packet_index,   \* loop variable of processPendingPackets
  pc,             \* where the main thread is
  batch           \* callbacks RunCallbacks still has to hand over

serverVars == <<running, quit_requested, listening_socket, poll_group, connections>>

SocketHandle == {"garbage", "invalid", "valid"}
ConnectionState == {"NONE", "CONNECTING", "CONNECTED", "CLOSED"}
Registered == {c \in Conn : connections[c] # "ABSENT"}

ServerTypeOK ==
  /\ running \in BOOLEAN
  /\ quit_requested \in BOOLEAN
  /\ listening_socket \in SocketHandle
  /\ poll_group \in SocketHandle
  /\ connections \in [Conn -> {"ABSENT"} \cup ConnectionState]
  /\ packet_index \in 0 .. MaxProcessedPackets
  /\ batch \in Nat

\* The constructor: the two handles are left uninitialized.
ServerInit ==
  /\ running = FALSE
  /\ quit_requested = FALSE
  /\ listening_socket = "garbage"
  /\ poll_group = "garbage"
  /\ connections = [c \in Conn |-> "ABSENT"]
  /\ packet_index = 0
  /\ batch = 0

\* The states the library passes on; k_..._FindingRoute has no entry.
CONNECTION_STATUS_MAPPINGS ==
  [None |-> "NONE", ClosedByPeer |-> "CLOSED_BY_PEER",
   ProblemDetectedLocally |-> "PROBLEM_DETECTED_LOCALLY",
   Connecting |-> "CONNECTING", Connected |-> "CONNECTED"]

-----------------------------------------------------------------------------
(* Opening and closing.                                                    *)

\* Mutant: a missing poll group does not stop the server.
openKeepsRunningWithoutPollGroup(listens, groups) == listens

\* running after the two creation calls returned.
opened(listens, groups) == listens /\ groups

openConnection(listens, groups) ==
  /\ listening_socket' = IF listens THEN "valid" ELSE "invalid"
  /\ poll_group' = IF groups THEN "valid" ELSE "invalid"
  /\ running' = opened(listens, groups)
  /\ UNCHANGED <<quit_requested, connections>>

\* Every entry is closed, then destroyed with the table, then the sockets go;
\* the listen socket takes with it the connections that came in through it,
\* those the server never accepted included.  quit_requested stays set, so what this
\* posts is handed over only if the server is closed from its packet callback: the
\* updateConnection it is in goes on to RunCallbacks.
closeConnection(incoming) ==
  /\ quit_requested' = TRUE
  /\ running' = FALSE
  /\ connections' = [c \in Conn |-> "ABSENT"]
  /\ listening_socket' = "invalid"
  /\ poll_group' = "invalid"
  /\ CloseAll(Registered \cup incoming)

-----------------------------------------------------------------------------
(* The table of client connections.  try_emplace keeps an existing entry.  *)

createClientConnection(table, c) ==
  [table EXCEPT ![c] = IF @ = "ABSENT" THEN "CONNECTING" ELSE @]

\* Mutant: close leaves connection_state alone.
keepsState(table, c) == table

\* ClientConnection::accept when the library accepts, and ::close.
accepted(table, c) == [table EXCEPT ![c] = "CONNECTED"]
closed(table, c) == [table EXCEPT ![c] = "CLOSED"]

removeClientConnection(table, c) == [table EXCEPT ![c] = "ABSENT"]

\* Mutant: the entry goes, the library's connection stays.
removeWithoutClose(table, c, queue) ==
  /\ connections' = removeClientConnection(table, c)
  /\ callbacks' = queue
  /\ UNCHANGED <<handle, unread, grouped>>

\* Mutant: the connection is closed, its entry stays.
closeWithoutRemove(table, c, queue) ==
  /\ connections' = closed(table, c)
  /\ CloseConnection(c, queue)

\* close() sets CLOSED unconditionally, so the assertion of
\* removeClientConnection holds and the entry is gone when the call returns.
closeClientConnection(table, c, queue) ==
  /\ connections' = removeClientConnection(closed(table, c), c)
  /\ CloseConnection(c, queue)

\* Mutant: nobody is left out.
broadcastToAll(except) == {c \in Conn : connections[c] = "CONNECTED"}

\* Who sendPacketToAllConnectedClientsImpl sends to.
connectedExcept(except) == {c \in Conn \ {except} : connections[c] = "CONNECTED"}

sendReliablePacket(notice, c) == SendMessageToConnection(c, notice)

-----------------------------------------------------------------------------
(* updateConnection, in the steps the network can come between.            *)

updateConnection ==
  /\ IF quit_requested \/ ~running
     THEN pc' = "main" /\ UNCHANGED packet_index
     ELSE pc' = "processPendingPackets" /\ packet_index' = 0
  /\ UNCHANGED <<socketVars, lineVars, serverVars, batch, outcome>>

\* Mutant: one packet too many.
oneMorePacket == packet_index <= MaxProcessedPackets

morePackets == packet_index < MaxProcessedPackets

\* Mutant: the loop does not advance.
sameIndex(index) == index

nextIndex(index) == index + 1

\* One turn of the loop.  On an invalid poll group the call returns -1; the
\* loop goes on and dereferences the null packet.
processPendingPacket ==
  /\ pc = "processPendingPackets"
  /\ morePackets
  /\ \/ /\ poll_group # "valid"
        /\ outcome' = "nullPacket"
        /\ UNCHANGED <<socketVars, packet_index>>
     \/ /\ poll_group = "valid"
        /\ \E c \in Readable :
             /\ ReceiveMessage(c)
             /\ outcome' = IF c \in Registered THEN outcome ELSE "unregisteredPacket"
        /\ packet_index' = nextIndex(packet_index)
  /\ UNCHANGED <<lineVars, serverVars, pc, batch>>

noMorePackets == ~morePackets \/ (poll_group = "valid" /\ Readable = {})

\* Mutant: what ends the loop ends the update.
returnsFromUpdate ==
  /\ pc = "processPendingPackets"
  /\ pc' = "main"
  /\ packet_index' = 0
  /\ UNCHANGED <<socketVars, lineVars, serverVars, batch, outcome>>

\* The loop is left or, without a packet callback, not entered.
leavePackets ==
  /\ pc = "processPendingPackets"
  /\ pc' = "processConnectionStateChanges"
  /\ packet_index' = 0
  /\ UNCHANGED <<socketVars, lineVars, serverVars, batch, outcome>>

packetsDone == noMorePackets /\ leavePackets

\* RunCallbacks takes the callbacks queued so far.
processConnectionStateChanges ==
  /\ pc = "processConnectionStateChanges"
  /\ pc' = "RunCallbacks"
  /\ batch' = Len(callbacks)
  /\ UNCHANGED <<socketVars, lineVars, serverVars, packet_index, outcome>>

callbacksDone ==
  /\ pc = "RunCallbacks"
  /\ batch = 0
  /\ pc' = "processUserInput"
  /\ UNCHANGED <<socketVars, lineVars, serverVars, packet_index, batch, outcome>>

processUserInput ==
  /\ pc = "processUserInput"
  /\ \/ /\ input_queue = <<>>
        /\ pc' = "main"
        /\ UNCHANGED <<lineVars, quit_requested>>
     \/ /\ readInput
        /\ IF Head(input_queue) = "/quit"
           THEN quit_requested' = TRUE /\ pc' = "main"
           ELSE UNCHANGED <<quit_requested, pc>>
  /\ UNCHANGED <<socketVars, running, listening_socket, poll_group, connections,
                 packet_index, batch, outcome>>
=============================================================================
