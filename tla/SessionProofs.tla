---------------------------- MODULE SessionProofs ----------------------------
(***************************************************************************)
(* In a session each program behaves as it does alone against a network    *)
(* that is free to do anything: what is proved of ExampleServer and of     *)
(* ExampleClient holds of the two together, for any number of handles,     *)
(* any bounds, and with or without losses.                                 *)
(***************************************************************************)
EXTENDS Session, ExampleServerProofs

\* A step of the link is, for the server, a step of its network, or nothing.
LEMMA LinkForServer ==
  ASSUME outcome = "running", NEW c \in Conn, Link(c)
  PROVE  Network \/ UNCHANGED vars
PROOF
<1>1. CASE Request(c)
  BY <1>1 DEF Request, ServerHears, Network
<1>2. CASE Answer(c)
  BY <1>2 DEF Answer, ClientHears, serverProgram, vars
<1>3. CASE SendUp(c)
  <2>1. CASE PeerSends(c)
    BY <1>3, <2>1 DEF SendUp, ServerHears, Network
  <2>2. CASE UNCHANGED socketVars
    BY <1>3, <2>2 DEF SendUp, ServerHears, vars
  <2>3. QED
    BY <1>3, <2>1, <2>2 DEF SendUp
<1>4. CASE SendDown(c)
  BY <1>4 DEF SendDown, ClientHears, serverProgram, vars
<1>5. CASE ServerLosesPeer(c)
  BY <1>5 DEF ServerLosesPeer, ServerHears, Network
<1>6. CASE ClientLosesPeer(c)
  BY <1>6 DEF ClientLosesPeer, ClientHears, serverProgram, vars
<1>7. QED
  BY <1>1, <1>2, <1>3, <1>4, <1>5, <1>6 DEF Link

\* What reaches the server's side of the link reaches it while it runs.
LEMMA LinkWhenServerIsOver ==
  ASSUME outcome # "running", NEW c \in Conn, Link(c)
  PROVE  UNCHANGED vars
PROOF
<1>1. ~Request(c) /\ ~SendUp(c) /\ ~ServerLosesPeer(c)
  BY DEF Request, SendUp, ServerLosesPeer
<1>2. QED
  BY <1>1 DEF Link, Answer, SendDown, ClientLosesPeer, ClientHears, serverProgram, vars

LEMMA SessionStepForServer ==
  ASSUME SessionNext
  PROVE  [Next]_vars
PROOF
<1>1. CASE Server
  BY <1>1 DEF Server, Next
<1>2. CASE Client
  BY <1>2 DEF Client, serverProgram, vars
<1>3. CASE \E c \in Conn : Link(c)
  <2>1. PICK c \in Conn : Link(c)
    BY <1>3
  <2>2. CASE outcome = "running"
    BY <2>1, <2>2, LinkForServer DEF Next
  <2>3. CASE outcome # "running"
    BY <2>1, <2>3, LinkWhenServerIsOver
  <2>4. QED
    BY <2>2, <2>3
<1>4. QED
  BY <1>1, <1>2, <1>3 DEF SessionNext

\* The server of a session does what ExampleServer lets it do: the link is one
\* of the networks it was checked against (ExampleServer.cpp:105-131).
THEOREM SessionImplementsServer == SessionSpec => Spec
PROOF
<1>1. SessionInit => Init
  BY DEF SessionInit
<1>2. [SessionNext]_sessionVars => [Next]_vars
  BY SessionStepForServer DEF sessionVars, serverProgram, vars
<1>3. QED
  BY <1>1, <1>2, PTL DEF SessionSpec, Spec

\* The server's inductive invariant holds in every session: no handle is
\* leaked, every packet is for an entry, and every entry stands for a handle.
THEOREM SessionServerInvariance == SessionSpec => []IInv
PROOF
  BY SessionImplementsServer, Invariance, PTL

-----------------------------------------------------------------------------
(* The client.                                                             *)

\* A step of the link is, for the client, a step of its network, or nothing.
LEMMA LinkForClient ==
  ASSUME NEW c \in Conn, Link(c)
  PROVE  (c_outcome = "running" /\ Peer!Network(c)) \/ UNCHANGED Peer!vars
PROOF
<1>1. CASE Request(c)
  BY <1>1 DEF Request, ServerHears, clientProgram, clientSockets, clientMain,
              Peer!vars, Peer!socketVars, Peer!clientVars
<1>2. CASE Answer(c)
  BY <1>2 DEF Answer, ClientHears, clientMain, Peer!Network, Peer!clientVars
<1>3. CASE SendUp(c)
  BY <1>3 DEF SendUp, ServerHears, clientProgram, clientSockets, clientMain,
              Peer!vars, Peer!socketVars, Peer!clientVars
<1>4. CASE SendDown(c)
  BY <1>4 DEF SendDown, ClientHears, clientMain, Peer!Network, Peer!clientVars
<1>5. CASE ServerLosesPeer(c)
  BY <1>5 DEF ServerLosesPeer, ServerHears, clientProgram, clientSockets, clientMain,
              Peer!vars, Peer!socketVars, Peer!clientVars
<1>6. CASE ClientLosesPeer(c)
  BY <1>6 DEF ClientLosesPeer, ClientHears, clientMain, Peer!Network, Peer!clientVars,
              Lost, Peer!Lost
<1>7. QED
  BY <1>1, <1>2, <1>3, <1>4, <1>5, <1>6 DEF Link

\* The client of a session does what ExampleClient lets it do: an answer, a
\* packet or a loss is one its network was free to give it before
\* (ExampleClient.cpp:31-87).
THEOREM SessionImplementsClient == SessionSpec => Peer!Spec
PROOF
<1>1. SessionInit => Peer!Init
  BY DEF SessionInit
<1>2. SessionNext => [Peer!Next]_Peer!vars
  <2> SUFFICES ASSUME SessionNext PROVE [Peer!Next]_Peer!vars
    OBVIOUS
  <2>1. CASE Server
    BY <2>1 DEF Server, clientProgram, clientSockets, clientMain,
                Peer!vars, Peer!socketVars, Peer!clientVars
  <2>2. CASE Client
    BY <2>2 DEF Client, Peer!Next
  <2>3. CASE \E c \in Conn : Link(c)
    BY <2>3, LinkForClient DEF Peer!Next
  <2>4. QED
    BY <2>1, <2>2, <2>3 DEF SessionNext
<1>3. UNCHANGED sessionVars => UNCHANGED Peer!vars
  BY DEF sessionVars, clientProgram, clientSockets, clientMain,
         Peer!vars, Peer!socketVars, Peer!clientVars
<1>4. QED
  BY <1>1, <1>2, <1>3, PTL DEF SessionSpec, Peer!Spec

\* What is proved of the client alone.  What AnyClient says of other applications
\* is not used: its variables stand still.
PeerProofs == INSTANCE ClientProofs
  WITH handle <- c_handle, callbacks <- c_callbacks, unread <- c_unread, grouped <- c_grouped,
       sent <- c_sent, packet_index <- c_packet_index, batch <- c_batch, pc <- c_pc,
       outcome <- c_outcome, MaxConnects <- 0, packet_callback <- FALSE,
       connection_status_change_callback <- TRUE, connects <- 0, over <- {}, careless <- FALSE

\* Both instances of the client are the same client.
LEMMA SameClient ==
  /\ Peer!Init => PeerProofs!Init
  /\ Peer!Main => PeerProofs!Main
  /\ Peer!Next => PeerProofs!Next
  /\ UNCHANGED Peer!vars => UNCHANGED PeerProofs!vars
  /\ PeerProofs!AtMostOneRefused => Peer!AtMostOneRefused
PROOF
<1>1. Peer!Init => PeerProofs!Init
  BY DEF Peer!Init, PeerProofs!Init, Peer!SocketsInit, PeerProofs!SocketsInit, Peer!ClientInit,
         PeerProofs!ClientInit
<1>2. Peer!Main => PeerProofs!Main
  BY DEF Peer!socketVars, PeerProofs!socketVars, Peer!Posted, PeerProofs!Posted,
         Peer!CloseConnection, PeerProofs!CloseConnection, Peer!Lost, PeerProofs!Lost,
         Peer!ConnectByIPAddress, PeerProofs!ConnectByIPAddress, Peer!SendMessageToConnection,
         PeerProofs!SendMessageToConnection, Peer!CanReceive, PeerProofs!CanReceive,
         Peer!ReceiveMessage, PeerProofs!ReceiveMessage, Peer!connected, PeerProofs!connected,
         Peer!initializeConnection, PeerProofs!initializeConnection, Peer!closeConnection, PeerProofs!closeConnection,
         Peer!sendDataToServer, PeerProofs!sendDataToServer, Peer!updateConnection,
         PeerProofs!updateConnection, Peer!morePackets, PeerProofs!morePackets,
         Peer!processReceivedPacket, PeerProofs!processReceivedPacket, Peer!packetsDone,
         PeerProofs!packetsDone, Peer!processConnectionStateChanges,
         PeerProofs!processConnectionStateChanges, Peer!Live, PeerProofs!Live,
         Peer!InitializeConnection, PeerProofs!InitializeConnection, Peer!WhileNotConnected,
         PeerProofs!WhileNotConnected, Peer!moreMessages, PeerProofs!moreMessages,
         Peer!asserted, PeerProofs!asserted, Peer!AssertConnected, PeerProofs!AssertConnected,
         Peer!Send, PeerProofs!Send, Peer!Finish, PeerProofs!Finish, Peer!LostState,
         PeerProofs!LostState, Peer!Dispatch, PeerProofs!Dispatch, Peer!CallbacksDone,
         PeerProofs!CallbacksDone, Peer!Main, PeerProofs!Main, Peer!clientVars, PeerProofs!clientVars
<1>3. Peer!Next => PeerProofs!Next
  BY <1>2 DEF Peer!Posted, PeerProofs!Posted, Peer!Lost, PeerProofs!Lost, Peer!PeerAccepts,
         PeerProofs!PeerAccepts, Peer!PeerIsLost, PeerProofs!PeerIsLost, Peer!PeerSends,
         PeerProofs!PeerSends, Peer!Network, PeerProofs!Network, Peer!Next, PeerProofs!Next,
         Peer!clientVars, PeerProofs!clientVars
<1>4. UNCHANGED Peer!vars => UNCHANGED PeerProofs!vars
  BY DEF Peer!vars, PeerProofs!vars, Peer!socketVars, PeerProofs!socketVars, Peer!clientVars,
         PeerProofs!clientVars
<1>5. PeerProofs!AtMostOneRefused => Peer!AtMostOneRefused
  BY DEF Peer!AtMostOneRefused, PeerProofs!AtMostOneRefused
<1>6. QED
  BY <1>1, <1>2, <1>3, <1>4, <1>5

\* In every session, and in a build with assertions, the client hands its library
\* at most one packet that is refused, the last one, and only when its connection
\* is gone already (Client.cpp:151, 161).  This is not about delivery: a lossy
\* link drops any number of unreliable packets the library has accepted.
THEOREM SessionClientRefusedOnce == SessionSpec => []Peer!AtMostOneRefused
PROOF
<1>1. PeerProofs!Spec => []PeerProofs!AtMostOneRefused
  BY PeerProofs!OneIsRefusedAtMost, SocketsAssumption, ServerAssumption, NoConnAssumption,
     SessionAssumption
<1>2. [Peer!Next]_Peer!vars => [PeerProofs!Next]_PeerProofs!vars
  BY SameClient
<1>3. Peer!Init => PeerProofs!Init
  BY SameClient
<1>4. PeerProofs!AtMostOneRefused => Peer!AtMostOneRefused
  BY SameClient
<1>5. QED
  BY SessionImplementsClient, <1>1, <1>2, <1>3, <1>4, PTL DEF Peer!Spec, PeerProofs!Spec

-----------------------------------------------------------------------------
(* The two together: a client that was welcomed finishes.                  *)

\* What a callback of the server, or any other step but its closing, does to one
\* connection: it sends only on what is connected, and closes what was connected
\* only when it has told it nothing yet.
LEMMA ServerEffect ==
  ASSUME IInv, RoomInv, outcome = "running", outcome' = "running", Main \/ PollThread, ~CloseServer,
         NEW c \in Conn
  PROVE  /\ sent'[c] # sent[c] => handle[c] = "Connected" /\ handle'[c] = handle[c]
         /\ \/ handle'[c] = handle[c]
            \/ handle[c] = "Connecting" /\ handle'[c] = "Connected"
            \/ handle'[c] = "Destroyed" /\ (handle[c] # "Connected" \/ sent[c] = <<>>)
PROOF
<1>1. /\ handle \in [Conn -> {"Unused", "Destroyed"} \cup Live]
      /\ callbacks \in Seq(Change)
      /\ \A x \in Registered : handle[x] \in {"Connected"} \cup Lost
      /\ batch <= Len(callbacks) /\ batch \in Nat
      /\ InsideCallback => serving \in Conn
  BY DEF IInv, TypeOK, SocketsTypeOK, ServerTypeOK, TableMatchesSockets, ControlMatchesState, Registered
<1>2. CASE \/ OpenConnection \/ UpdateConnection \/ ReturnFromMain \/ PollThread
           \/ processPendingPacket \/ packetsDone \/ processConnectionStateChanges
           \/ callbacksDone \/ processUserInput
  <2>1. UNCHANGED <<handle, sent>>
    BY <1>2 DEF OpenConnection, UpdateConnection, updateConnection, ReturnFromMain, PollThread,
                processPendingPacket, ReceiveMessage, packetsDone, leavePackets,
                processConnectionStateChanges, callbacksDone, processUserInput, socketVars
  <2>2. QED
    BY <2>1
<1>3. CASE SetPollGroup
  <2>1. serving \in Conn /\ sent[serving] = <<>> /\ UNCHANGED sent
    BY <1>1, <1>3 DEF SetPollGroup, InsideCallback, RoomInv, Greeted
  <2>2. UNCHANGED handle \/ handle' = [handle EXCEPT ![serving] = "Destroyed"]
    BY <1>3 DEF SetPollGroup, SetConnectionPollGroup, closeClientConnection, CloseConnection
  <2>3. QED
    BY <1>1, <2>1, <2>2
<1>4. CASE Welcome \/ Announce
  <2>1. UNCHANGED handle
    BY <1>4 DEF Welcome, Announce, sendToNext, socketVars
  <2>2. sent'[c] # sent[c] => handle[c] = "Connected"
    BY <1>4 DEF Welcome, Announce, sendToNext, sendReliablePacket, SendMessageToConnection, socketVars
  <2>3. QED
    BY <2>1, <2>2
<1>5. CASE Farewell
  <2>1. serving \in Conn /\ handle[serving] # "Connected"
    BY <1>1, <1>5 DEF Farewell, InsideCallback, RoomInv, FarewellIsForLost, Lost
  <2>2. CASE sendToNext("left")
    <3>1. UNCHANGED handle
      BY <2>2 DEF sendToNext
    <3>2. sent'[c] # sent[c] => handle[c] = "Connected"
      BY <2>2 DEF sendToNext, sendReliablePacket, SendMessageToConnection
    <3>3. QED
      BY <3>1, <3>2
  <2>3. CASE UNCHANGED sent /\ handle' = [handle EXCEPT ![serving] = "Destroyed"]
    BY <1>1, <2>1, <2>3
  <2>4. QED
    BY <1>5, <2>2, <2>3 DEF Farewell, closeClientConnection, CloseConnection
<1>6. CASE Dispatch
  <2> DEFINE info == Head(callbacks)
             rest == Tail(callbacks)
             d == info.conn
             status == CONNECTION_STATUS_MAPPINGS
  <2>1. pc = "RunCallbacks" /\ callbacks # <<>>
    BY <1>1, <1>6, EmptySeq DEF Dispatch
  <2>2. info \in Change /\ d \in Conn /\ info.new \in SteamState
    BY <1>1, <2>1, TakenFacts DEF Change
  <2>3. /\ status[info.new] = "CONNECTING" => info.new = "Connecting"
        /\ status[info.new] \in LostStatus => info.new \in Lost
    BY <2>2, MappingFacts
  <2>4. info.new = "Connecting" /\ d \notin Registered => handle[d] # "Destroyed" /\ sent[d] = <<>>
    <3>1. info.new = "Connecting" => d \in PendingConnects(callbacks)
      BY <1>1, <2>1, TakenFacts
    <3>2. d \in PendingConnects(callbacks) => handle[d] \in Live
      BY <2>1 DEF IInv, CallbacksAreNews
    <3>3. "Destroyed" \notin Live
      BY DEF Live, Lost
    <3>4. d \notin Registered /\ handle[d] # "Destroyed" => sent[d] = <<>>
      BY <2>2 DEF RoomInv, Greeted
    <3> HIDE DEF d, info
    <3>5. QED
      BY <3>1, <3>2, <3>3, <3>4
  <2>5. \/ UNCHANGED <<handle, sent>>
        \/ status[info.new] = "CONNECTING" /\ OnConnecting(d, rest)
        \/ status[info.new] \in LostStatus /\ OnLost(d, status[info.old], rest)
    BY <1>6 DEF Dispatch, Ignored
  <2> HIDE DEF info, rest, d, status
  <2>6. CASE UNCHANGED <<handle, sent>>
    BY <2>6
  <2>7. CASE status[info.new] = "CONNECTING" /\ OnConnecting(d, rest)
    <3>1. d \notin Registered /\ UNCHANGED sent /\ sent[d] = <<>>
      BY <2>3, <2>4, <2>7 DEF OnConnecting
    <3>2. \/ handle[d] = "Connecting" /\ handle' = [handle EXCEPT ![d] = "Connected"]
          \/ handle' = [handle EXCEPT ![d] = "Destroyed"]
      BY <2>7, <3>1 DEF OnConnecting, CanAccept, AcceptConnection, closeClientConnection, CloseConnection
    <3>3. QED
      BY <1>1, <2>2, <3>1, <3>2
  <2>8. CASE status[info.new] \in LostStatus /\ OnLost(d, status[info.old], rest)
    BY <2>8 DEF OnLost
  <2>9. QED
    BY <2>5, <2>6, <2>7, <2>8
<1>7. QED
  BY <1>2, <1>3, <1>4, <1>5, <1>6 DEF Main

\* The server starts to run when it opens, and stops when it closes.
LEMMA ServerControl ==
  ASSUME IInv, NobodyBeforeOpen, Main \/ PollThread
  PROVE  /\ NobodyBeforeOpen'
         /\ running' => ~CloseServer /\ (running \/ (pc = "openConnection" /\ UNCHANGED <<handle, sent>>))
PROOF
<1>1. CASE OpenConnection
  <2>1. /\ pc = "openConnection" /\ pc' = "main" /\ UNCHANGED <<handle, sent>>
        /\ ~running /\ \A c \in Conn : sent[c] = <<>>
    BY <1>1 DEF OpenConnection, NobodyBeforeOpen, socketVars
  <2>2. QED
    BY <2>1 DEF NobodyBeforeOpen, CloseServer
<1>2. CASE CloseServer
  BY <1>2 DEF CloseServer, closeConnection, NobodyBeforeOpen
<1>3. CASE PollThread
  BY <1>3 DEF PollThread, socketVars, serverVars, NobodyBeforeOpen, CloseServer
<1>4. CASE UpdateConnection \/ ReturnFromMain \/ processPendingPacket \/ packetsDone
           \/ processConnectionStateChanges \/ callbacksDone \/ processUserInput
  <2>1. pc # "openConnection" /\ UNCHANGED <<handle, sent, running>> /\ pc' # "openConnection"
    BY <1>4 DEF UpdateConnection, updateConnection, ReturnFromMain, processPendingPacket, ReceiveMessage,
         packetsDone, leavePackets, processConnectionStateChanges, callbacksDone, processUserInput, socketVars,
         serverVars
  <2>2. quit_requested => quit_requested'
    BY <1>4 DEF UpdateConnection, updateConnection, ReturnFromMain, processPendingPacket,
         packetsDone, leavePackets, processConnectionStateChanges, callbacksDone, processUserInput, serverVars
  <2>3. ~running /\ ~quit_requested => pc' = "main"
    BY <1>4 DEF UpdateConnection, updateConnection, ReturnFromMain, processPendingPacket, NobodyBeforeOpen,
         packetsDone, leavePackets, processConnectionStateChanges, callbacksDone, processUserInput
  <2>4. running' => ~CloseServer
    BY <2>1 DEF CloseServer, closeConnection
  <2>5. QED
    BY <2>1, <2>2, <2>3, <2>4 DEF NobodyBeforeOpen
<1>5. CASE Dispatch \/ SetPollGroup \/ Welcome \/ Announce \/ Farewell
  <2>1. /\ pc \in {"RunCallbacks", "setPollGroup", "welcome", "announce", "farewell"}
        /\ pc' # "openConnection" /\ UNCHANGED <<running, quit_requested>>
    BY <1>5 DEF Dispatch, OnConnecting, OnLost, Ignored, SetPollGroup, Welcome, Announce, Farewell,
                sendToNext, staysInCallbacks
  <2>2. QED
    BY <2>1 DEF NobodyBeforeOpen, CloseServer
<1>6. QED
  BY <1>1, <1>2, <1>3, <1>4, <1>5 DEF Main

\* What the client's program does to its connection, as it was proved of it alone.
LEMMA ClientEffect ==
  ASSUME PeerProofs!IInv, c_outcome = "running", Peer!Main
  PROVE  /\ \A c \in Conn : c_handle[c] \in Up => c_handle'[c] \in Up
         /\ \/ c_outcome' \in {"running", "finished"}
            \/ UNCHANGED c_handle /\ \A c \in Conn : c_handle[c] \notin Up
PROOF
<1>1. PeerProofs!Main
  BY SameClient
<1>2. \A c \in Conn : c_handle[c] \in {"Connecting", "Connected"} => c_handle'[c] \in {"Connecting", "Connected"}
  BY <1>1, PeerProofs!ProgramKeepsUp, SocketsAssumption, ServerAssumption, NoConnAssumption, SessionAssumption
<1>3. \/ c_outcome' \in {"running", "finished"}
      \/ UNCHANGED c_handle /\ \A c \in Conn : c_handle[c] \notin {"Connecting", "Connected"}
  BY <1>1, PeerProofs!ProgramFailsWhenDown, SocketsAssumption, ServerAssumption, NoConnAssumption,
     SessionAssumption
<1>4. QED
  BY <1>2, <1>3 DEF Up

\* A step of the server.
LEMMA ServerKeepsSession ==
  ASSUME IInv, RoomInv, PeerProofs!IInv, SessionInv, Server
  PROVE  SessionInv'
PROOF
<1>1. /\ outcome = "running" /\ (Main \/ PollThread)
      /\ UNCHANGED <<c_handle, c_outcome, lossy>>
  BY DEF Server, clientProgram, clientSockets, clientMain
<1>2. NobodyBeforeOpen' /\ FailedIsDown'
  BY <1>1, ServerControl DEF SessionInv, FailedIsDown
<1>3. ASSUME ~lossy, outcome' = "running", running', NEW c \in Conn
      PROVE  /\ handle'[c] \in Up => c_handle[c] \in Up
             /\ sent'[c] # <<>> => (c_outcome = "running" => handle'[c] = "Connected")
                                   /\ c_outcome \in {"running", "finished"}
  <2>1. ~CloseServer /\ (running \/ (pc = "openConnection" /\ UNCHANGED <<handle, sent>>))
    BY <1>1, <1>3, ServerControl DEF SessionInv
  <2>2. CASE pc = "openConnection" /\ UNCHANGED <<handle, sent>>
    BY <2>2 DEF SessionInv, NobodyBeforeOpen, Up
  <2>3. CASE running
    <3>1. /\ sent'[c] # sent[c] => handle[c] = "Connected" /\ handle'[c] = handle[c]
          /\ \/ handle'[c] = handle[c]
             \/ handle[c] = "Connecting" /\ handle'[c] = "Connected"
             \/ handle'[c] = "Destroyed" /\ (handle[c] # "Connected" \/ sent[c] = <<>>)
      BY <1>1, <1>3, <2>1, ServerEffect
    <3>2. handle[c] \in Up => c_handle[c] \in Up
      BY <1>1, <1>3, <2>3 DEF SessionInv, UpAtBothEnds
    <3>3. sent[c] # <<>> => (c_outcome = "running" => handle[c] = "Connected")
                            /\ c_outcome \in {"running", "finished"}
      BY <1>1, <1>3, <2>3 DEF SessionInv, WelcomedStaysUp
    <3>4. c_handle[c] \in Up => c_outcome \in {"running", "finished"}
      <4>1. c_outcome \in {"running", "nullPacket", "notConnected", "finished"}
        BY DEF PeerProofs!IInv, PeerProofs!TypeOK
      <4>2. QED
        BY <4>1 DEF SessionInv, FailedIsDown
    <3>5. QED
      BY <3>1, <3>2, <3>3, <3>4 DEF Up
  <2>4. QED
    BY <2>1, <2>2, <2>3
<1>4. UpAtBothEnds' /\ WelcomedStaysUp'
  BY <1>1, <1>3 DEF UpAtBothEnds, WelcomedStaysUp
<1>5. QED
  BY <1>2, <1>4 DEF SessionInv

\* A step of the client.
LEMMA ClientKeepsSession ==
  ASSUME PeerProofs!IInv, SessionInv, Client
  PROVE  SessionInv'
PROOF
<1>1. /\ c_outcome = "running" /\ Peer!Main
      /\ UNCHANGED <<handle, sent, outcome, running, quit_requested, listening_socket, pc, lossy>>
  BY DEF Client, serverProgram, socketVars, serverVars, linkVars
<1>2. /\ \A c \in Conn : c_handle[c] \in Up => c_handle'[c] \in Up
      /\ \/ c_outcome' \in {"running", "finished"}
         \/ UNCHANGED c_handle /\ \A c \in Conn : c_handle[c] \notin Up
  BY <1>1, ClientEffect
<1>3. NobodyBeforeOpen'
  BY <1>1 DEF SessionInv, NobodyBeforeOpen
<1>4. UpAtBothEnds'
  BY <1>1, <1>2 DEF SessionInv, UpAtBothEnds
<1>5. FailedIsDown'
  BY <1>2 DEF FailedIsDown
<1>6. WelcomedStaysUp'
  <2> SUFFICES ASSUME ~lossy, outcome = "running", running, NEW c \in Conn, sent[c] # <<>>
               PROVE  handle[c] = "Connected" /\ c_outcome' \in {"running", "finished"}
    BY <1>1 DEF WelcomedStaysUp
  <2>1. handle[c] = "Connected"
    BY <1>1 DEF SessionInv, WelcomedStaysUp
  <2>2. c_handle[c] \in Up
    BY <2>1 DEF SessionInv, UpAtBothEnds, Up
  <2>3. QED
    BY <1>2, <2>1, <2>2
<1>7. QED
  BY <1>3, <1>4, <1>5, <1>6 DEF SessionInv

\* A step of the link.
LEMMA LinkKeepsSession ==
  ASSUME IInv, PeerProofs!IInv, SessionInv, NEW c \in Conn, Link(c)
  PROVE  SessionInv'
PROOF
<1>1. /\ handle \in [Conn -> {"Unused", "Destroyed"} \cup Live]
      /\ c_handle \in [Conn -> {"Unused", "Destroyed"} \cup PeerProofs!Live]
  BY DEF IInv, TypeOK, SocketsTypeOK, PeerProofs!IInv, PeerProofs!TypeOK, PeerProofs!SocketsTypeOK
<1>2. /\ UNCHANGED <<sent, outcome, running, quit_requested, listening_socket, pc, c_outcome, lossy>>
  BY DEF Link, Request, Answer, SendUp, SendDown, ServerLosesPeer, ClientLosesPeer, ServerHears, ClientHears,
         serverProgram, socketVars, serverVars, linkVars, clientProgram, clientMain,
         PeerConnects, PeerSends, PeerIsLost
<1>3. \/ UNCHANGED <<handle, c_handle>>
      \/ /\ Request(c) /\ UNCHANGED c_handle
         /\ handle[c] = "Unused" /\ handle' = [handle EXCEPT ![c] = "Connecting"]
      \/ /\ Answer(c) /\ UNCHANGED handle
         /\ c_handle' = [c_handle EXCEPT ![c] = "Connected"]
      \/ /\ ServerLosesPeer(c) /\ UNCHANGED c_handle
         /\ handle[c] \in Up /\ \E how \in Lost : handle' = [handle EXCEPT ![c] = how]
      \/ /\ ClientLosesPeer(c) /\ UNCHANGED handle
         /\ c_handle[c] \in Up /\ \E how \in Lost : c_handle' = [c_handle EXCEPT ![c] = how]
  BY DEF Link, Request, Answer, SendUp, SendDown, ServerLosesPeer, ClientLosesPeer, ServerHears, ClientHears,
         serverProgram, socketVars, clientProgram, clientSockets, PeerConnects, PeerSends, PeerIsLost,
         Peer!PeerAccepts, Peer!PeerSends, Peer!PeerIsLost, Up
<1>4. CASE UNCHANGED <<handle, c_handle>>
  BY <1>2, <1>4 DEF SessionInv, UpAtBothEnds, WelcomedStaysUp, FailedIsDown, NobodyBeforeOpen
<1>5. CASE /\ Request(c) /\ UNCHANGED c_handle
           /\ handle[c] = "Unused" /\ handle' = [handle EXCEPT ![c] = "Connecting"]
  <2>1. c_handle[c] = "Connecting" /\ listening_socket = "valid" /\ c_outcome = "running"
    BY <1>5 DEF Request
  <2>2. NobodyBeforeOpen' /\ FailedIsDown'
    BY <1>2, <1>5, <2>1 DEF SessionInv, NobodyBeforeOpen, FailedIsDown
  <2>3. handle'[c] = "Connecting" /\ \A d \in Conn \ {c} : handle'[d] = handle[d]
    BY <1>1, <1>5
  <2>4. UpAtBothEnds'
    BY <1>2, <1>5, <2>1, <2>3 DEF SessionInv, UpAtBothEnds, Up
  <2>5. WelcomedStaysUp'
    BY <1>2, <1>5, <2>1, <2>3 DEF SessionInv, WelcomedStaysUp
  <2>6. QED
    BY <2>2, <2>4, <2>5 DEF SessionInv
<1>6. CASE /\ Answer(c) /\ UNCHANGED handle
           /\ c_handle' = [c_handle EXCEPT ![c] = "Connected"]
  <2>1. c_outcome = "running"
    BY <1>6 DEF Answer
  <2>2. \A d \in Conn : c_handle[d] \in Up => c_handle'[d] \in Up
    BY <1>1, <1>6 DEF Up
  <2>3. QED
    BY <1>2, <1>6, <2>1, <2>2
       DEF SessionInv, UpAtBothEnds, WelcomedStaysUp, FailedIsDown, NobodyBeforeOpen
<1>7. CASE /\ ServerLosesPeer(c) /\ UNCHANGED c_handle
           /\ handle[c] \in Up /\ \E how \in Lost : handle' = [handle EXCEPT ![c] = how]
  <2>1. outcome = "running" /\ (lossy \/ c_outcome # "running" \/ Down(c_handle[c]))
    BY <1>7 DEF ServerLosesPeer
  <2>2. handle'[c] \notin Up /\ \A d \in Conn \ {c} : handle'[d] = handle[d]
    BY <1>1, <1>7 DEF Lost, Up
  <2>3. NobodyBeforeOpen' /\ FailedIsDown' /\ UpAtBothEnds'
    BY <1>2, <1>7, <2>2 DEF SessionInv, NobodyBeforeOpen, FailedIsDown, UpAtBothEnds, Up
  <2>4. WelcomedStaysUp'
    <3>1. ~lossy /\ running => c_outcome # "running"
      BY <1>7, <2>1 DEF SessionInv, UpAtBothEnds, Up, Down, Lost
    <3>2. QED
      BY <1>2, <2>1, <3>1 DEF SessionInv, WelcomedStaysUp
  <2>5. QED
    BY <2>3, <2>4 DEF SessionInv
<1>8. CASE /\ ClientLosesPeer(c) /\ UNCHANGED handle
           /\ c_handle[c] \in Up /\ \E how \in Lost : c_handle' = [c_handle EXCEPT ![c] = how]
  <2>1. c_outcome = "running" /\ (lossy \/ outcome # "running" \/ Down(handle[c]) \/ ~running)
    BY <1>8 DEF ClientLosesPeer
  <2>2. \A d \in Conn \ {c} : c_handle'[d] = c_handle[d]
    BY <1>1, <1>8
  <2>3. Down(handle[c]) => handle[c] \notin Up
    BY DEF Down, Lost, Up
  <2>4. QED
    BY <1>2, <1>8, <2>1, <2>2, <2>3
       DEF SessionInv, UpAtBothEnds, WelcomedStaysUp, FailedIsDown, NobodyBeforeOpen
<1>9. QED
  BY <1>3, <1>4, <1>5, <1>6, <1>7, <1>8

LEMMA InitSession == SessionInit => SessionInv
PROOF
<1> SUFFICES ASSUME SessionInit
             PROVE  SessionInv
  OBVIOUS
<1>1. /\ ~running /\ listening_socket = "garbage" /\ pc = "openConnection"
      /\ \A c \in Conn : handle[c] = "Unused" /\ sent[c] = <<>>
      /\ c_outcome = "running"
  BY DEF SessionInit, Init, SocketsInit, ServerInit, Peer!Init
<1>2. QED
  BY <1>1 DEF SessionInv, UpAtBothEnds, WelcomedStaysUp, FailedIsDown, NobodyBeforeOpen

LEMMA StepOfSession ==
  ASSUME IInv, RoomInv, PeerProofs!IInv, SessionInv, [SessionNext]_sessionVars
  PROVE  SessionInv'
PROOF
<1>1. CASE UNCHANGED sessionVars
  BY <1>1 DEF sessionVars, serverProgram, clientProgram, clientSockets, clientMain, linkVars, socketVars,
              serverVars, SessionInv, UpAtBothEnds, WelcomedStaysUp, FailedIsDown, NobodyBeforeOpen
<1>2. CASE Server
  BY <1>2, ServerKeepsSession
<1>3. CASE Client
  BY <1>3, ClientKeepsSession
<1>4. CASE \E c \in Conn : Link(c)
  BY <1>4, LinkKeepsSession
<1>5. QED
  BY <1>1, <1>2, <1>3, <1>4 DEF SessionNext

\* In every session the client's own invariant holds.
LEMMA SessionPeerInvariance == SessionSpec => []PeerProofs!IInv
PROOF
<1>1. PeerProofs!Spec => []PeerProofs!IInv
  BY PeerProofs!ClientInvariance, SocketsAssumption, ServerAssumption, NoConnAssumption,
     SessionAssumption
<1>2. [Peer!Next]_Peer!vars => [PeerProofs!Next]_PeerProofs!vars
  BY SameClient
<1>3. Peer!Init => PeerProofs!Init
  BY SameClient
<1>4. QED
  BY SessionImplementsClient, <1>1, <1>2, <1>3, PTL DEF Peer!Spec, PeerProofs!Spec

\* Without losses a connection is up at the client for as long as the server that
\* runs has it (ExampleServer.cpp:36-103, ExampleClient.cpp:31-46).
THEOREM SessionInvariance == SessionSpec => []SessionInv
PROOF
<1>1. IInv /\ RoomInv /\ PeerProofs!IInv /\ SessionInv /\ [SessionNext]_sessionVars => SessionInv'
  BY StepOfSession
<1>2. QED
  BY SessionServerInvariance, SessionImplementsServer, RoomInvariance, SessionPeerInvariance, InitSession,
     <1>1, PTL DEF SessionSpec

\* On a network that loses nothing, a client that was welcomed ends by finishing
\* its series, for any number of messages: neither failing assertion nor null
\* packet comes first while the server runs (ExampleClient.cpp:64-87,
\* ExampleServer.cpp:36-103).
THEOREM WelcomedClientsFinish == SessionSpec => []WelcomedFinishes
PROOF
<1>1. SessionInv => WelcomedFinishes
  BY DEF SessionInv, WelcomedStaysUp, NobodyBeforeOpen, WelcomedFinishes
<1>2. QED
  BY <1>1, SessionInvariance, PTL
=============================================================================
