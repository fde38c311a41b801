---------------------------- MODULE ExampleServer ----------------------------
(***************************************************************************)
(* The example server program: its main function and its connection status *)
(* callback, on top of the server library and the socket library, with the *)
(* input controller's poll thread behind input_queue.                      *)
(*                                                                         *)
(* The main thread runs from one call of the socket library to the next as *)
(* one step; peers, the network and the poll thread come in between.  A    *)
(* broadcast is one step for each of its recipients.  Two calls are one    *)
(* step only where it makes no difference what comes in between: a handle  *)
(* whose accept is refused is lost already and moves no more; one that is  *)
(* not given its poll group may as well be lost before the attempt as      *)
(* between it and the close; for closeConnection see CloseAll.             *)
(***************************************************************************)
EXTENDS Server

CONSTANT NoConn

ASSUME NoConnAssumption == NoConn \notin Conn

VARIABLES
  serving,     \* the connection of the callback that is running
  recipients   \* the connections its broadcast has still to be sent to

vars == <<socketVars, lineVars, serverVars, packet_index, pc, batch, outcome, serving, recipients>>

Pc == {"openConnection", "main", "processPendingPackets", "processConnectionStateChanges",
       "RunCallbacks", "setPollGroup", "welcome", "announce", "farewell", "processUserInput", "kill"}

\* What may end the process.
Outcome == {"running", "badFuture", "nullPacket", "unregisteredPacket", "unmappedStatus",
            "alreadyRegistered", "notRegistered", "joinableThread"}

TypeOK ==
  /\ SocketsTypeOK
  /\ LineTypeOK
  /\ ServerTypeOK
  /\ pc \in Pc
  /\ outcome \in Outcome
  /\ serving \in Conn \cup {NoConn}
  /\ recipients \subseteq Conn

Init ==
  /\ SocketsInit
  /\ LineInit
  /\ ServerInit
  /\ pc = "openConnection"
  /\ outcome = "running"
  /\ serving = NoConn
  /\ recipients = {}

-----------------------------------------------------------------------------
(* main                                                                    *)

\* The address is a literal ParseString accepts; the two sockets may fail.
OpenConnection ==
  /\ pc = "openConnection"
  /\ \E listens, groups \in BOOLEAN : openConnection(listens, groups)
  /\ pc' = "main"
  /\ UNCHANGED <<socketVars, lineVars, packet_index, batch, outcome, serving, recipients>>

UpdateConnection ==
  /\ pc = "main"
  /\ ~quit_requested
  /\ updateConnection
  /\ UNCHANGED <<serving, recipients>>

CloseServer ==
  /\ pc = "main"
  /\ quit_requested
  /\ closeConnection(Conn)
  /\ pc' = "kill"
  /\ UNCHANGED <<lineVars, packet_index, batch, outcome, serving, recipients>>

\* The library is shut down and main returns; the destructor of the input
\* controller destroys its thread while it is joinable.
ReturnFromMain ==
  /\ pc = "kill"
  /\ outcome' = "joinableThread"
  /\ UNCHANGED <<socketVars, lineVars, serverVars, packet_index, pc, batch, serving, recipients>>

-----------------------------------------------------------------------------
(* connectionStatusChangeCallback                                          *)

staysInCallbacks == UNCHANGED <<lineVars, running, quit_requested, listening_socket,
                                poll_group, packet_index>>

\* A new connection: make an entry and accept it, or drop it again.
OnConnecting(c, queue) ==
  /\ serving' = c
  /\ UNCHANGED <<sent, recipients>>
  /\ IF c \in Registered
     THEN /\ outcome' = "alreadyRegistered"
          /\ callbacks' = queue
          /\ UNCHANGED <<handle, unread, grouped, connections, pc>>
     ELSE /\ UNCHANGED outcome
          /\ LET table == createClientConnection(connections, c)
             IN IF CanAccept(c)
                THEN /\ AcceptConnection(c, queue)
                     /\ connections' = accepted(table, c)
                     /\ pc' = "setPollGroup"
                ELSE closeClientConnection(table, c, queue) /\ UNCHANGED pc

SetPollGroup ==
  /\ pc = "setPollGroup"
  /\ \/ /\ SetConnectionPollGroup(serving)
        /\ pc' = "welcome"
        /\ UNCHANGED connections
     \/ /\ closeClientConnection(connections, serving, callbacks)
        /\ pc' = "RunCallbacks"
  /\ staysInCallbacks
  /\ UNCHANGED <<sent, batch, outcome, serving, recipients>>

Welcome ==
  /\ pc = "welcome"
  /\ sendReliablePacket([kind |-> "welcome", who |-> serving], serving)
  /\ recipients' = connectedExcept(serving)
  /\ pc' = "announce"
  /\ staysInCallbacks
  /\ UNCHANGED <<handle, callbacks, unread, grouped, connections, batch, outcome, serving>>

\* One turn of the loop of a broadcast.  The table has its entries in any order,
\* and no entry comes, goes or changes before the loop is over.
sendToNext(kind) ==
  /\ \E r \in recipients :
       /\ sendReliablePacket([kind |-> kind, who |-> serving], r)
       /\ recipients' = recipients \ {r}
  /\ UNCHANGED <<handle, callbacks, unread, grouped, connections, pc>>

Announce ==
  /\ pc = "announce"
  /\ \/ sendToNext("joined")
     \/ /\ recipients = {}
        /\ pc' = "RunCallbacks"
        /\ UNCHANGED <<socketVars, connections, recipients>>
  /\ staysInCallbacks
  /\ UNCHANGED <<batch, outcome, serving>>

\* Mutant: asks for the wrong state.
wasConnecting(old) == old = "CONNECTING"

\* Only the departure of a client that was announced is announced.
wasConnected(old) == old = "CONNECTED"

\* A connection that is over: the others are told if it was up.
OnLost(c, old, queue) ==
  /\ serving' = c
  /\ callbacks' = queue
  /\ UNCHANGED <<handle, unread, grouped, sent, connections>>
  /\ IF c \notin Registered
     THEN outcome' = "notRegistered" /\ UNCHANGED <<pc, recipients>>
     ELSE /\ recipients' = IF wasConnected(old) THEN connectedExcept(c) ELSE {}
          /\ pc' = "farewell"
          /\ UNCHANGED outcome

\* It is closed when everyone has been told.
Farewell ==
  /\ pc = "farewell"
  /\ \/ sendToNext("left")
     \/ /\ recipients = {}
        /\ closeClientConnection(connections, serving, callbacks)
        /\ pc' = "RunCallbacks"
        /\ UNCHANGED <<sent, recipients>>
  /\ staysInCallbacks
  /\ UNCHANGED <<batch, outcome, serving>>

\* Mutants: the branch also serves NONE, or forgets the library's own verdict.
LostOrGone == {"CLOSED_BY_PEER", "PROBLEM_DETECTED_LOCALLY", "NONE"}
OnlyClosedByPeer == {"CLOSED_BY_PEER"}

\* The case labels of the branch that closes the connection.
LostStatus == {"CLOSED_BY_PEER", "PROBLEM_DETECTED_LOCALLY"}

Ignored(queue, end) ==
  /\ callbacks' = queue
  /\ outcome' = end
  /\ UNCHANGED <<handle, unread, grouped, sent, connections, pc, serving, recipients>>

\* onSteamNetConnectionStatusChanged, then the switch of the callback.
Dispatch ==
  /\ pc = "RunCallbacks"
  /\ batch > 0
  /\ batch' = batch - 1
  /\ staysInCallbacks
  /\ LET info == Head(callbacks)
         rest == Tail(callbacks)
         status == CONNECTION_STATUS_MAPPINGS
     IN IF ~({info.old, info.new} \subseteq DOMAIN status)
        THEN Ignored(rest, "unmappedStatus")
        ELSE \/ status[info.new] = "CONNECTING" /\ OnConnecting(info.conn, rest)
             \/ status[info.new] \in LostStatus /\ OnLost(info.conn, status[info.old], rest)
             \/ status[info.new] \notin LostStatus \cup {"CONNECTING"} /\ Ignored(rest, outcome)

-----------------------------------------------------------------------------
Main ==
  \/ OpenConnection \/ UpdateConnection \/ CloseServer \/ ReturnFromMain
  \/ Dispatch \/ SetPollGroup \/ Welcome \/ Announce \/ Farewell
  \/ /\ processPendingPacket \/ packetsDone \/ processConnectionStateChanges
        \/ callbacksDone \/ processUserInput
     /\ UNCHANGED <<serving, recipients>>

Network ==
  /\ \E c \in Conn :
       \/ listening_socket = "valid" /\ PeerConnects(c)
       \/ \E how \in Lost : PeerIsLost(c, how)
       \/ PeerSends(c)
  /\ UNCHANGED <<lineVars, serverVars, packet_index, pc, batch, outcome, serving, recipients>>

PollThread ==
  /\ \/ (\E line \in Line : addInput(line)) /\ UNCHANGED outcome
     \/ FutureError
  /\ UNCHANGED <<socketVars, serverVars, packet_index, pc, batch, serving, recipients>>

Next == outcome = "running" /\ (Main \/ Network \/ PollThread)

Spec == Init /\ [][Next]_vars

\* The main thread is scheduled; no peer has to connect, send or leave, and
\* no operator has to type.
FairSpec == Spec /\ WF_vars(outcome = "running" /\ Main)

-----------------------------------------------------------------------------
(* Safety.                                                                 *)

\* A packet is only ever received for an entry of the table: a connection
\* leaves the poll group whenever its entry goes, whichever of the two ends
\* first (the assertion of Server::processPendingPacket, Server.cpp:241).
PollGroupRegistered == grouped \subseteq Registered

\* The only ways the process ends by itself: the poll thread's exhausted
\* future, the joinable thread when main returns, and a lost connection that
\* has no entry.  No null packet is dereferenced, no packet is for an unknown
\* connection and no connection is created twice (Server.cpp:233, 241 and
\* ExampleServer.cpp:63).
OnlyKnownAbort == outcome \in {"running", "badFuture", "joinableThread", "notRegistered"}

\* The connections a queue of callbacks is about, and those among them whose
\* CONNECTING status is still to be handed over.
About(queue) == {queue[i].conn : i \in DOMAIN queue}
PendingConnects(queue) == {queue[i].conn : i \in {j \in DOMAIN queue : queue[j].new = "Connecting"}}

\* No handle is leaked: one that is still alive in the library has an entry,
\* or the callback that will give it one has not run yet.  Every path of the
\* callback, the failing ones included, keeps this (ExampleServer.cpp:45-93).
NoLeakedHandle ==
  \A c \in Conn : handle[c] \in Live => c \in Registered \cup PendingConnects(callbacks)

PendingLosses(queue) == {queue[i].conn : i \in {j \in DOMAIN queue : queue[j].new \in Lost}}

\* No loss is forgotten: while the process runs, a connection that is lost and not
\* given back has the report of its loss still in the queue or is being closed for
\* it, whatever became of its accept, its poll group and its entry
\* (ExampleServer.cpp:42-83).
NoLossIsForgotten ==
  outcome = "running" =>
    \A c \in Conn : handle[c] \in Lost => c \in PendingLosses(callbacks) \/ (pc = "farewell" /\ c = serving)

\* Between two steps of the main thread, an entry is CONNECTED (the mere
\* CONNECTING and CLOSED ones never survive a callback) and stands for a handle
\* that was accepted and has not been given back.
TableMatchesSockets ==
  \A c \in Registered : connections[c] = "CONNECTED" /\ handle[c] \in {"Connected"} \cup Lost

\* The failing assertion of ExampleServer.cpp:45 is met only for a peer that
\* was never told anything: its accept or its poll group failed after it was
\* lost.  A client that was welcomed always has its entry when it is lost.
AbortOnlyForUnwelcomed == outcome = "notRegistered" => sent[serving] = <<>>

-----------------------------------------------------------------------------
(* The inductive invariant.                                                *)

ConnectsOnce(queue) ==
  \A i, j \in DOMAIN queue :
    queue[i].new = "Connecting" /\ queue[j].new = "Connecting" /\ queue[i].conn = queue[j].conn => i = j

\* A connection is announced to the server once, before it has an entry.
CallbacksAreNews ==
  /\ \A c \in About(callbacks) : handle[c] # "Unused"
  /\ PendingConnects(callbacks) \cap Registered = {}
  /\ ConnectsOnce(callbacks)
  /\ pc # "kill" => \A c \in PendingConnects(callbacks) : handle[c] \in Live

InsideCallback == pc \in {"setPollGroup", "welcome", "announce", "farewell"}

ControlMatchesState ==
  /\ batch <= Len(callbacks)
  /\ running => poll_group = "valid"
  /\ pc = "processPendingPackets" => running
  /\ InsideCallback => serving \in Registered
  /\ recipients \subseteq Registered \ {serving}
  /\ pc \notin {"announce", "farewell"} => recipients = {}

\* The safety properties above, with what makes them inductive: that a packet
\* or a callback finds its entry depends on which callbacks are still queued.
IInv ==
  /\ TypeOK
  /\ PollGroupRegistered
  /\ OnlyKnownAbort
  /\ NoLeakedHandle
  /\ TableMatchesSockets
  /\ CallbacksAreNews
  /\ ControlMatchesState

-----------------------------------------------------------------------------
(* What the clients are told.                                              *)

Told(r, kind) == {c \in Conn : \E i \in DOMAIN sent[r] : sent[r][i] = [kind |-> kind, who |-> c]}

\* A client's packets begin with its own welcome, say nothing twice, say
\* nothing else about itself, and nothing about a client after its departure
\* (ExampleServer.cpp:50-56 and 85-92: who each packet goes to, and when).
StreamsWellFormed ==
  \A r \in Conn : LET s == sent[r] IN
    /\ \A i \in DOMAIN s : (s[i].kind = "welcome") = (i = 1) /\ (s[i].who = r) = (i = 1)
    /\ \A i, j \in DOMAIN s : i < j /\ s[i].who = s[j].who => s[i].kind = "joined" /\ s[j].kind = "left"

\* Whom a client believes to be there, from the packets sent to it.
Roster(r) == Told(r, "joined") \ Told(r, "left")

Present == {c \in Registered : handle[c] = "Connected"}

\* Between callbacks, a client that is present believes in nobody who has no
\* entry any more, and of two that are present exactly one knows of the other.
RosterAgreement ==
  ~InsideCallback =>
    \A r \in Present :
      /\ Roster(r) \subseteq Registered
      /\ \A s \in Present \ {r} : (s \in Roster(r)) # (r \in Roster(s))

\* What the assertion of ExampleServer.cpp:45-46 says: "Connection should be
\* registered before" it is reported as lost.
RegisteredBefore == outcome # "notRegistered"

\* A newcomer is a member from its welcome on, and one whose loss is being
\* announced is a member no more.
Entering == IF pc \in {"setPollGroup", "welcome"} THEN {serving} ELSE {}
Leaving == IF pc = "farewell" THEN {serving} ELSE {}

PlaceOf(c) ==
  IF c \in Registered \ (Entering \cup Leaving) THEN IF handle[c] = "Connected" THEN "inside" ELSE "cutOff"
  ELSE IF handle[c] = "Destroyed" \/ c \in Leaving THEN "over" ELSE "outside"

roomPlace == [c \in Conn |-> PlaceOf(c)]

\* What the loop of a broadcast has still to send.
roomNews ==
  {[to |-> r, notice |-> [kind |-> IF pc = "announce" THEN "joined" ELSE "left", who |-> serving]] :
     r \in recipients}

\* The callbacks, the table and the sockets together are the room of module
\* Lobby: although a callback is many calls, the network moves between them and
\* its news are old, every arrival and every departure takes place at one moment
\* and is told to each member of that moment, one after the other and before
\* anything else happens in the room, unless the member is cut off first
\* (ExampleServer.cpp:36-103, Server.cpp:129-144).
Room == INSTANCE Lobby WITH place <- roomPlace, inbox <- sent, news <- roomNews
ImplementsLobby == Room!LobbySpec

-----------------------------------------------------------------------------
(* Liveness, under FairSpec.                                               *)

\* A connection that the network lost while the server runs is closed in the
\* library in the end, its bounded batch of packets and the callbacks before
\* it notwithstanding - unless the process ends first.
LostPeerIsReleased ==
  \A c \in Conn :
    handle[c] \in Lost /\ running ~> handle[c] = "Destroyed" \/ outcome # "running"

QuitTyped == \E i \in DOMAIN input_queue : input_queue[i] = "/quit"

\* A "/quit" in the queue of a server that runs ends the process, however much
\* the peers send and however many of them come and go.
QuitStops == QuitTyped /\ running ~> outcome # "running"

\* What the program says of itself, "The server only knows one command:
\* '/quit'" (Server.cpp:294): the command is obeyed.
QuitIsObeyed == QuitTyped ~> quit_requested \/ outcome # "running"
=============================================================================
