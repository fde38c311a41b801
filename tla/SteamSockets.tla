---------------------------- MODULE SteamSockets ----------------------------
(***************************************************************************)
(* GameNetworkingSockets, the library both programs link against, as one   *)
(* process sees it.  It is not part of the repository: it is modelled from *)
(* the calls Server.cpp, ClientConnection.cpp and Client.cpp make, the     *)
(* results they test and the connection states their headers map.          *)
(*                                                                         *)
(* The library runs a service thread of its own, so the network may move a *)
(* connection between any two calls of the program; each call is atomic    *)
(* (the library takes its global lock).  State changes are not delivered   *)
(* when they happen: a snapshot is queued and RunCallbacks hands it over   *)
(* later, by which time the connection may have moved on.                  *)
(***************************************************************************)
EXTENDS Naturals, Sequences, FiniteSets

LOCAL INSTANCE SequencesExt

CONSTANTS
  Conn,        \* connection handles; each is used for one connection
  MaxUnread    \* bound: packets waiting unread on one connection

ASSUME SocketsAssumption == MaxUnread \in Nat

VARIABLES
  handle,      \* what the library knows of each handle
  callbacks,   \* queued SteamNetConnectionStatusChangedCallback_t, oldest first
  unread,      \* packets received on a connection and not read yet
  grouped,     \* the connections assigned to the server's poll group
  sent         \* the packets accepted for sending on each connection, in order

socketVars == <<handle, callbacks, unread, grouped, sent>>

Lost == {"ClosedByPeer", "ProblemDetectedLocally"}
Live == {"Connecting", "Connected"} \cup Lost
SteamState == {"None"} \cup Live

Change == [conn : Conn, old : SteamState, new : SteamState]

\* The server's packets say something about a client; the example client's are
\* one reliable and one unreliable series.
Notice == [kind : {"welcome", "joined", "left", "reliable", "unreliable"}, who : Conn]

SocketsTypeOK ==
  /\ handle \in [Conn -> {"Unused", "Destroyed"} \cup Live]
  /\ callbacks \in Seq(Change)
  /\ unread \in [Conn -> 0 .. MaxUnread]
  /\ grouped \in SUBSET Conn
  /\ sent \in [Conn -> Seq(Notice)]

SocketsInit ==
  /\ handle = [c \in Conn |-> "Unused"]
  /\ callbacks = <<>>
  /\ unread = [c \in Conn |-> 0]
  /\ grouped = {}
  /\ sent = [c \in Conn |-> <<>>]

Posted(queue, c, from, to) == Append(queue, [conn |-> c, old |-> from, new |-> to])

-----------------------------------------------------------------------------
(* Calls.  queue is the callback queue the call appends to: the one that   *)
(* is left when the callback being handled has been taken off.             *)

CanAccept(c) == handle[c] = "Connecting"

AcceptConnection(c, queue) ==
  /\ handle' = [handle EXCEPT ![c] = "Connected"]
  /\ callbacks' = Posted(queue, c, "Connecting", "Connected")
  /\ UNCHANGED <<unread, grouped>>

\* Destroys the handle and discards what was received on it and not read.
CloseConnection(c, queue) ==
  /\ handle' = [handle EXCEPT ![c] = "Destroyed"]
  /\ callbacks' = Posted(queue, c, handle[c], "None")
  /\ unread' = [unread EXCEPT ![c] = 0]
  /\ grouped' = grouped \ {c}

SetConnectionPollGroup(c) ==
  /\ grouped' = grouped \cup {c}
  /\ UNCHANGED <<handle, callbacks, unread>>

\* The connections ReceiveMessagesOnPollGroup may return a packet of.
Readable == {c \in grouped : unread[c] > 0}

ReceiveMessage(c) ==
  /\ unread' = [unread EXCEPT ![c] = @ - 1]
  /\ UNCHANGED <<handle, callbacks, grouped, sent>>

\* A connection that is not connected, or is none, refuses the packet.
SendMessageToConnection(c, notice) ==
  sent' = [x \in Conn |-> IF x = c /\ handle[x] = "Connected"
                          THEN Append(sent[x], notice) ELSE sent[x]]

\* On a handle of ours; the result is negative when the handle is not live.
CanReceive(c) == c \in Conn /\ handle[c] \in Live

ConnectByIPAddress(c) ==
  /\ handle[c] = "Unused"
  /\ handle' = [handle EXCEPT ![c] = "Connecting"]
  /\ callbacks' = Posted(callbacks, c, "None", "Connecting")
  /\ UNCHANGED <<unread, grouped, sent>>

\* What closing the connections of order one after the other posts.
Closings(order) == [i \in DOMAIN order |-> [conn |-> order[i], old |-> handle[order[i]], new |-> "None"]]

\* The connections of S are closed in some order and the poll group is destroyed.
\* That is a call for each of them, but one step is enough: what the network does
\* between two of the calls might as well come before the first, but for the order
\* of callbacks about different connections.
CloseAll(S) ==
  /\ handle' = [c \in Conn |-> IF c \in S /\ handle[c] \in Live THEN "Destroyed" ELSE handle[c]]
  /\ \E order \in SetToSeqs({c \in S : handle[c] \in Live}) : callbacks' = callbacks \o Closings(order)
  /\ unread' = [c \in Conn |-> IF c \in S THEN 0 ELSE unread[c]]
  /\ grouped' = {}
  /\ UNCHANGED sent

-----------------------------------------------------------------------------
(* The network and the peers.                                              *)

PeerConnects(c) ==
  /\ handle[c] = "Unused"
  /\ handle' = [handle EXCEPT ![c] = "Connecting"]
  /\ callbacks' = Posted(callbacks, c, "None", "Connecting")
  /\ UNCHANGED <<unread, grouped, sent>>

PeerAccepts(c) ==
  /\ handle[c] = "Connecting"
  /\ handle' = [handle EXCEPT ![c] = "Connected"]
  /\ callbacks' = Posted(callbacks, c, "Connecting", "Connected")
  /\ UNCHANGED <<unread, grouped, sent>>

\* The peer closes the connection, or the library gives it up (a timeout).
PeerIsLost(c, how) ==
  /\ handle[c] \in {"Connecting", "Connected"}
  /\ handle' = [handle EXCEPT ![c] = how]
  /\ callbacks' = Posted(callbacks, c, handle[c], how)
  /\ UNCHANGED <<unread, grouped, sent>>

PeerSends(c) ==
  /\ handle[c] = "Connected"
  /\ unread[c] < MaxUnread
  /\ unread' = [unread EXCEPT ![c] = @ + 1]
  /\ UNCHANGED <<handle, callbacks, grouped, sent>>
=============================================================================
