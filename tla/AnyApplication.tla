--------------------------- MODULE AnyApplication ---------------------------
(***************************************************************************)
(* The server library under an application that opens, closes and updates *)
(* the server, sets its callbacks and works on its table and on the        *)
(* ClientConnections it gets from it in whatever order it likes, from its  *)
(* main loop and from inside its callbacks.  What it does not do:          *)
(*   - speak of connections no callback told it about, or of entries that  *)
(*     do not exist;                                                       *)
(*   - remove an entry without closing it (the assertion of                *)
(*     removeClientConnection), move a ClientConnection (module            *)
(*     ClientConnection), or join another poll group than the server's;    *)
(*   - update or destroy the server from inside a callback, or replace a   *)
(*     callback from inside that same callback.                            *)
(* Sends, which change nothing of the server's own, are left out, and      *)
(* max_processed_packets is a constant.                                    *)
(***************************************************************************)
EXTENDS Server

CONSTANT MaxOpens   \* bound: calls of openConnection

ASSUME OpensAssumption == MaxOpens \in Nat

VARIABLES
  packet_callback, connection_status_change_callback,   \* is one set?
  known,     \* connections a callback has reported
  opens,
  forgotten,  \* does a listen socket listen whose handle was overwritten?
  orphaned    \* connections that came in through one

applicationVars == <<packet_callback, connection_status_change_callback, known, opens, forgotten, orphaned>>
vars == <<socketVars, lineVars, serverVars, packet_index, pc, batch, outcome, applicationVars>>

TypeOK ==
  /\ SocketsTypeOK
  /\ LineTypeOK
  /\ ServerTypeOK
  /\ pc \in {"main", "processPendingPackets", "processConnectionStateChanges", "RunCallbacks",
             "callback", "processUserInput", "~Server"}
  /\ outcome \in {"running", "badFuture", "nullPacket", "unregisteredPacket", "exit", "joinableThread"}
  /\ packet_callback \in BOOLEAN /\ connection_status_change_callback \in BOOLEAN
  /\ known \subseteq Conn
  /\ opens \in 0 .. MaxOpens
  /\ forgotten \in BOOLEAN
  /\ orphaned \subseteq Conn

Init ==
  /\ SocketsInit
  /\ LineInit
  /\ ServerInit
  /\ pc = "main"
  /\ outcome = "running"
  /\ packet_callback = FALSE /\ connection_status_change_callback = FALSE
  /\ known = {}
  /\ opens = 0
  /\ forgotten = FALSE
  /\ orphaned = {}

-----------------------------------------------------------------------------
(* Opening, and what the application does outside callbacks.               *)

InPacketCallback == pc = "processPendingPackets" /\ packet_index > 0

InCallback == pc = "callback" \/ InPacketCallback

\* An address that does not parse leaves the two handles as they were.
\* Otherwise a socket and a group from an earlier call are overwritten, not
\* closed: what came in through the one stays, and the other's packets are out of
\* reach.
Open ==
  /\ pc = "main" \/ InCallback
  /\ opens < MaxOpens
  /\ opens' = opens + 1
  /\ \/ /\ running' = FALSE
        /\ UNCHANGED <<quit_requested, listening_socket, poll_group, connections, grouped, forgotten, orphaned>>
     \/ /\ \E listens, groups \in BOOLEAN : openConnection(listens, groups)
        /\ grouped' = {}
        /\ IF listening_socket = "valid"
           THEN forgotten' = TRUE /\ orphaned' = {c \in Conn : handle[c] # "Unused"}
           ELSE UNCHANGED <<forgotten, orphaned>>
  /\ UNCHANGED <<handle, callbacks, unread, sent, lineVars, packet_index, pc, batch, outcome,
                 packet_callback, connection_status_change_callback, known>>

Update ==
  /\ pc = "main"
  /\ updateConnection
  /\ UNCHANGED applicationVars

\* The connections of the listen socket the server holds.
Incoming == IF listening_socket = "valid" THEN Conn \ orphaned ELSE {}

\* Mutant: a server that was told to quit is left as it is.
closesUnlessQuit == running /\ ~quit_requested

\* What the destructor asks before it closes anything.
closesWhenDestroyed == running

\* The body of ~Server.  Then the members go, the input controller with its
\* thread first.
Destroy ==
  /\ pc = "main"
  /\ pc' = "~Server"
  /\ IF closesWhenDestroyed
     THEN closeConnection(Incoming)
     ELSE UNCHANGED <<socketVars, serverVars>>
  /\ UNCHANGED <<lineVars, packet_index, batch, outcome, applicationVars>>

DestroyMembers ==
  /\ pc = "~Server"
  /\ outcome' = "joinableThread"
  /\ UNCHANGED <<socketVars, lineVars, serverVars, packet_index, pc, batch, applicationVars>>

-----------------------------------------------------------------------------
(* Calls the application makes anywhere.                                   *)

\* Handles no openConnection assigned denote no socket and no group.
Close == closeConnection(Incoming)

Create(c) ==
  /\ connections' = createClientConnection(connections, c)
  /\ UNCHANGED socketVars

\* On a handle that is closed already the library does nothing.
CloseHandle(c) ==
  IF handle[c] \in Live THEN CloseConnection(c, callbacks) /\ UNCHANGED sent ELSE UNCHANGED socketVars

CloseEntry(c) == connections' = closed(connections, c) /\ CloseHandle(c)

RemoveEntry(c) ==
  /\ connections[c] = "CLOSED"
  /\ connections' = removeClientConnection(connections, c)
  /\ UNCHANGED socketVars

CloseAndRemove(c) ==
  IF handle[c] \in Live
  THEN closeClientConnection(connections, c, callbacks) /\ UNCHANGED sent
  ELSE connections' = removeClientConnection(closed(connections, c), c) /\ UNCHANGED socketVars

\* accept returns false when the library refuses, and changes nothing.
Accept(c) ==
  /\ CanAccept(c)
  /\ AcceptConnection(c, callbacks)
  /\ connections' = accepted(connections, c)
  /\ UNCHANGED sent

JoinPollGroup(c) ==
  /\ poll_group = "valid" /\ handle[c] \in Live
  /\ SetConnectionPollGroup(c)
  /\ UNCHANGED <<sent, connections>>

TableCall ==
  /\ \/ \E c \in known : Create(c)
     \/ \E c \in Registered :
          CloseEntry(c) \/ RemoveEntry(c) \/ CloseAndRemove(c) \/ Accept(c) \/ JoinPollGroup(c)
  /\ UNCHANGED <<running, quit_requested, listening_socket, poll_group>>

Call ==
  /\ pc = "main" \/ InCallback
  /\ Close \/ TableCall
  /\ UNCHANGED <<lineVars, packet_index, pc, batch, outcome, applicationVars>>

SetCallback ==
  /\ \/ /\ pc \in {"main", "callback"}
        /\ packet_callback' \in BOOLEAN
        /\ UNCHANGED connection_status_change_callback
     \/ /\ pc = "main" \/ InPacketCallback
        /\ connection_status_change_callback' \in BOOLEAN
        /\ UNCHANGED packet_callback
  /\ UNCHANGED <<socketVars, lineVars, serverVars, packet_index, pc, batch, outcome,
                 known, opens, forgotten, orphaned>>

-----------------------------------------------------------------------------
(* The library.                                                            *)

ReceivePackets ==
  /\ \/ packet_callback /\ (processPendingPacket \/ packetsDone)
     \/ ~packet_callback /\ leavePackets
  /\ UNCHANGED applicationVars

Dispatch ==
  /\ pc = "RunCallbacks"
  /\ batch > 0
  /\ batch' = batch - 1
  /\ callbacks' = Tail(callbacks)
  /\ IF connection_status_change_callback
     THEN /\ known' = known \cup {Head(callbacks).conn}
          /\ pc' = "callback"
          /\ UNCHANGED outcome
     ELSE /\ outcome' = "exit"
          /\ UNCHANGED <<known, pc>>
  /\ UNCHANGED <<handle, unread, grouped, sent, lineVars, serverVars, packet_index,
                 packet_callback, connection_status_change_callback, opens, forgotten, orphaned>>

ReturnFromCallback ==
  /\ pc = "callback"
  /\ pc' = "RunCallbacks"
  /\ UNCHANGED <<socketVars, lineVars, serverVars, packet_index, batch, outcome, applicationVars>>

Library ==
  \/ ReceivePackets \/ Dispatch \/ ReturnFromCallback
  \/ (processConnectionStateChanges \/ callbacksDone \/ processUserInput) /\ UNCHANGED applicationVars

\* A listen socket the server has forgotten goes on listening.
Network ==
  /\ \E c \in Conn :
       \/ listening_socket = "valid" /\ PeerConnects(c) /\ UNCHANGED orphaned
       \/ forgotten /\ PeerConnects(c) /\ orphaned' = orphaned \cup {c}
       \/ ((\E how \in Lost : PeerIsLost(c, how)) \/ PeerSends(c)) /\ UNCHANGED orphaned
  /\ UNCHANGED <<lineVars, serverVars, packet_index, pc, batch, outcome, packet_callback,
                 connection_status_change_callback, known, opens, forgotten>>

Operator ==
  /\ \E line \in Line : addInput(line)
  /\ UNCHANGED <<socketVars, serverVars, packet_index, pc, batch, outcome, applicationVars>>

Next == outcome = "running" /\ (Open \/ Update \/ Destroy \/ DestroyMembers \/ Call \/ SetCallback
                               \/ Library \/ Network \/ Operator)

Spec == Init /\ [][Next]_vars

\* The application goes on calling updateConnection and returns from its
\* callbacks, whatever else it does.
FairSpec == Spec /\ WF_vars(outcome = "running" /\ (Update \/ Library))

-----------------------------------------------------------------------------
(* What no application can break.                                          *)

\* A packet that is received has an entry (the assertion of Server.cpp:241):
\* only an entry can join the poll group, and it leaves it before it can be
\* removed, whatever the order of the calls and whoever closes it.
PollGroupRegistered == grouped \subseteq Registered

\* An entry the broadcasts take for connected stands for a handle that was
\* accepted and has not been given back (Server.cpp:136), reopening included.
ConnectedIsHeld ==
  \A c \in Conn : connections[c] = "CONNECTED" => handle[c] \in {"Connected"} \cup Lost

\* A server that was opened at most once leaves no live connection in its table
\* when its destructor's body is over, which closes them only if the server runs
\* (Server.cpp:48-56).
OneOpenLeavesNothing ==
  pc = "~Server" /\ opens <= 1 => \A c \in Registered : handle[c] \notin Live

PendingConnect(c) == \E i \in DOMAIN callbacks : callbacks[i].conn = c /\ callbacks[i].new = "Connecting"

\* The null packet of a failed receive (Server.cpp:228-233) is met only after a
\* packet callback of the same loop has stopped the server, by closing it or by an
\* openConnection that failed: no loop begins without a poll group, whatever opened
\* half way or failed before, and nothing the peers do leads there.
NullOnlyAfterPacketCallback ==
  outcome = "nullPacket" => packet_index > 0 /\ ~running /\ poll_group = "invalid"

\* A peer that connects to a server that runs is reported, whatever the application
\* did before: set no packet callback, failed to open, opened twice.  What makes a
\* running server deaf is quit_requested alone, which closeConnection sets and
\* openConnection does not clear (Server.cpp:199, 300).
PendingIsReported ==
  \A c \in Conn : PendingConnect(c) /\ running ~>
    c \in known \/ ~running \/ quit_requested \/ outcome # "running" \/ pc = "~Server"

\* Connections the library has told of, or is about to.
Reported == known \cup Registered \cup {callbacks[i].conn : i \in DOMAIN callbacks}

\* An entry can be closed only after its handle was used, so that a closed entry
\* stays closed and no closed handle can be in the poll group.
ClosedStaysClosed ==
  /\ \A c \in Reported : handle[c] # "Unused"
  /\ \A c \in Conn : connections[c] = "CLOSED" => handle[c] = "Destroyed"
  /\ \A c \in grouped : handle[c] \in Live

\* What these need to be inductive: that, and that the queue is never shorter
\* than what RunCallbacks has still to hand over.
IInv == TypeOK /\ PollGroupRegistered /\ ConnectedIsHeld /\ ClosedStaysClosed /\ batch <= Len(callbacks)

=============================================================================
