------------------------- MODULE AnyApplicationProofs -------------------------
(***************************************************************************)
(* Proofs about the server library under any application: whatever is      *)
(* called, in whatever order and from wherever, a received packet has an   *)
(* entry and an entry that counts as connected is held by the library.     *)
(***************************************************************************)
EXTENDS AnyApplication, SteamSocketsProofs

LOCAL INSTANCE SequencesExt

\* The connections a queue of callbacks is about.
About(queue) == {queue[i].conn : i \in DOMAIN queue}

\* A posted callback keeps the queue a queue of changes, one longer.
LEMMA PostedType ==
  ASSUME NEW queue \in Seq(Change), NEW c \in Conn, NEW from \in SteamState, NEW to \in SteamState
  PROVE  /\ Posted(queue, c, from, to) \in Seq(Change)
         /\ Len(Posted(queue, c, from, to)) = Len(queue) + 1
         /\ Len(queue) \in Nat
         /\ About(Posted(queue, c, from, to)) \subseteq About(queue) \cup {c}
PROOF
<1> DEFINE info == [conn |-> c, old |-> from, new |-> to]
           longer == Posted(queue, c, from, to)
           n == Len(queue)
<1>1. info \in Change
  BY DEF Change
<1>2. /\ longer \in Seq(Change)
      /\ Len(longer) = n + 1
      /\ \A i \in 1 .. n : longer[i] = queue[i]
      /\ longer[n + 1] = info
  BY <1>1, AppendProperties DEF Posted
<1>3. n \in Nat /\ DOMAIN queue = 1 .. n /\ DOMAIN longer = 1 .. n + 1
  BY <1>2, LenProperties
<1>4. DOMAIN longer = DOMAIN queue \cup {n + 1}
  BY <1>3
<1> HIDE DEF longer
<1>5. About(longer) \subseteq About(queue) \cup {c}
  BY <1>2, <1>3, <1>4 DEF About
<1>6. QED
  BY <1>2, <1>3, <1>5 DEF longer

\* A callback that is taken off the front.
LEMMA TakenType ==
  ASSUME NEW queue \in Seq(Change), queue # <<>>
  PROVE  /\ Tail(queue) \in Seq(Change)
         /\ Len(Tail(queue)) = Len(queue) - 1
         /\ Len(queue) \in Nat
         /\ Head(queue).conn \in About(queue)
         /\ Head(queue).conn \in Conn
         /\ About(Tail(queue)) \subseteq About(queue)
PROOF
<1> DEFINE rest == Tail(queue)
           n == Len(queue)
<1>1. /\ Head(queue) \in Change
      /\ rest \in Seq(Change)
      /\ Len(rest) = n - 1
      /\ \A i \in 1 .. Len(rest) : rest[i] = queue[i + 1]
  BY HeadTailProperties
<1>2. n \in Nat \ {0} /\ Head(queue) = queue[1]
  BY EmptySeq
<1>3. DOMAIN queue = 1 .. n /\ DOMAIN rest = 1 .. n - 1
  BY <1>1, LenProperties
<1>4. /\ \A i \in DOMAIN rest : i + 1 \in DOMAIN queue /\ rest[i] = queue[i + 1]
      /\ 1 \in DOMAIN queue
  BY <1>1, <1>2, <1>3
<1> HIDE DEF rest
<1>5. About(rest) \subseteq About(queue)
  BY <1>4 DEF About
<1>6. QED
  BY <1>1, <1>2, <1>4, <1>5 DEF rest, About, Change

\* The part of IInv that is about the sockets and the table.
Data ==
  /\ SocketsTypeOK
  /\ connections \in [Conn -> {"ABSENT"} \cup ConnectionState]
  /\ PollGroupRegistered
  /\ ConnectedIsHeld
  /\ ClosedStaysClosed
  /\ batch \in Nat
  /\ batch <= Len(callbacks)

\* The rest of it.
Control ==
  /\ LineTypeOK
  /\ running \in BOOLEAN /\ quit_requested \in BOOLEAN
  /\ listening_socket \in SocketHandle /\ poll_group \in SocketHandle
  /\ packet_index \in 0 .. MaxProcessedPackets
  /\ pc \in {"main", "processPendingPackets", "processConnectionStateChanges", "RunCallbacks",
             "callback", "processUserInput", "~Server"}
  /\ outcome \in {"running", "badFuture", "nullPacket", "unregisteredPacket", "exit", "joinableThread"}
  /\ packet_callback \in BOOLEAN /\ connection_status_change_callback \in BOOLEAN
  /\ known \subseteq Conn
  /\ opens \in 0 .. MaxOpens
  /\ forgotten \in BOOLEAN
  /\ orphaned \subseteq Conn

LEMMA Parts == (IInv <=> Data /\ Control) /\ (IInv' <=> Data' /\ Control')
PROOF
  BY DEF IInv, TypeOK, ServerTypeOK, Data, Control

\* A connection is moved to a later state and this is reported: an entry of the
\* table must be told if it counted as connected, and be there if it is grouped.
LEMMA MovedKeepsData ==
  ASSUME Data, UNCHANGED known, NEW c \in Conn, NEW to \in SteamState,
         NEW new \in {"Connecting", "Connected", "Destroyed"} \cup Lost,
         handle[c] \in SteamState \/ handle[c] = "Unused",
         handle' = [handle EXCEPT ![c] = new],
         \E from \in SteamState : callbacks' = Posted(callbacks, c, from, to),
         unread' = unread \/ unread' = [unread EXCEPT ![c] = 0],
         grouped' = grouped \/ grouped' = grouped \ {c},
         UNCHANGED <<sent, batch>>,
         connections' \in [Conn -> {"ABSENT"} \cup ConnectionState],
         \A x \in Conn \ {c} : connections'[x] = connections[x],
         connections'[c] = "CONNECTED" => new \in {"Connected"} \cup Lost,
         connections'[c] = "CLOSED" => new = "Destroyed",
         c \in grouped' => connections'[c] # "ABSENT" /\ new \in Live
  PROVE  Data'
PROOF
<1>1. SocketsTypeOK /\ batch \in Nat /\ batch <= Len(callbacks)
  BY DEF Data
<1>2. callbacks' \in Seq(Change) /\ batch' <= Len(callbacks')
  BY <1>1, PostedType DEF SocketsTypeOK
<1>3. SocketsTypeOK'
  <2>1. handle' \in [Conn -> {"Unused", "Destroyed"} \cup Live]
    BY <1>1 DEF SocketsTypeOK, Live, Lost
  <2>2. unread' \in [Conn -> 0 .. MaxUnread]
    <3>1. unread \in [Conn -> 0 .. MaxUnread] /\ 0 \in 0 .. MaxUnread
      BY <1>1, SocketsAssumption DEF SocketsTypeOK
    <3>2. QED
      BY <3>1
  <2>3. grouped' \subseteq Conn /\ sent' \in [Conn -> Seq(Notice)]
    BY <1>1 DEF SocketsTypeOK
  <2>4. QED
    BY <1>2, <2>1, <2>2, <2>3 DEF SocketsTypeOK
<1>4. PollGroupRegistered'
  BY <1>1 DEF Data, SocketsTypeOK, PollGroupRegistered, Registered
<1>5. ConnectedIsHeld'
  BY <1>1 DEF Data, SocketsTypeOK, ConnectedIsHeld
<1>6. ClosedStaysClosed'
  <2>1. PICK from \in SteamState : callbacks' = Posted(callbacks, c, from, to)
    OBVIOUS
  <2>2. About(callbacks') \subseteq About(callbacks) \cup {c}
    BY <1>1, <2>1, PostedType DEF SocketsTypeOK
  <2>3. Reported' \subseteq Reported \cup {c} /\ Reported' \subseteq Conn \cup known
    <3>1. Registered' \subseteq Registered \cup {c} /\ Registered' \subseteq Conn
      BY DEF Registered
    <3>2. About(callbacks') \subseteq Conn
      <4>1. \A i \in DOMAIN callbacks' : callbacks'[i] \in Change
        BY <1>2, LenProperties, ElementOfSeq
      <4>2. QED
        BY <4>1 DEF About, Change
    <3>3. QED
      BY <2>2, <3>1, <3>2 DEF Reported, About
  <2>4. \A x \in Conn \ {c} : handle'[x] = handle[x]
    BY <1>1 DEF SocketsTypeOK
  <2>5. handle'[c] = new /\ new # "Unused"
    BY <1>1 DEF SocketsTypeOK, Lost
  <2>6. \A x \in Reported' : handle'[x] # "Unused"
    BY <2>3, <2>4, <2>5 DEF Data, ClosedStaysClosed, Reported
  <2>7. \A x \in Conn : connections'[x] = "CLOSED" => handle'[x] = "Destroyed"
    BY <2>4, <2>5 DEF Data, ClosedStaysClosed
  <2>8. \A x \in grouped' : handle'[x] \in Live
    BY <1>1, <2>4, <2>5 DEF Data, ClosedStaysClosed, SocketsTypeOK
  <2>9. QED
    BY <2>6, <2>7, <2>8 DEF ClosedStaysClosed
<1>7. QED
  BY <1>1, <1>2, <1>3, <1>4, <1>5, <1>6 DEF Data

\* A step that does not concern the table or the sockets.
LEMMA DataUnchanged ==
  ASSUME Data, UNCHANGED <<handle, callbacks, unread, grouped, sent, connections, batch, known>>
  PROVE  Data'
PROOF
  BY DEF Data, SocketsTypeOK, PollGroupRegistered, ConnectedIsHeld, ClosedStaysClosed, Reported, Registered

\* A step that leaves handles, queue and table alone and reads or brings packets.
LEMMA PacketsKeepData ==
  ASSUME Data, UNCHANGED <<handle, callbacks, sent, connections, batch, known>>,
         unread' \in [Conn -> 0 .. MaxUnread],
         grouped' \subseteq grouped
  PROVE  Data'
PROOF
  BY DEF Data, SocketsTypeOK, PollGroupRegistered, ConnectedIsHeld, ClosedStaysClosed, Reported, Registered

\* Closing a handle that is live.
LEMMA CloseKeepsData ==
  ASSUME Data, NEW c \in Conn, handle[c] \in Live,
         CloseConnection(c, callbacks), UNCHANGED <<sent, batch, known>>,
         NEW state \in {"ABSENT", "CLOSED"},
         connections' = [connections EXCEPT ![c] = state]
  PROVE  Data'
PROOF
<1>1. SteamState = {"None"} \cup Live /\ Lost \subseteq Live /\ "Connected" \in Live
  BY DEF SteamState, Live
<1>2. connections' \in [Conn -> {"ABSENT"} \cup ConnectionState]
  BY DEF Data, ConnectionState
<1>3. connections'[c] = state /\ \A x \in Conn \ {c} : connections'[x] = connections[x]
  BY DEF Data
<1>4. \E from \in SteamState : callbacks' = Posted(callbacks, c, from, "None")
  BY <1>1 DEF CloseConnection
<1>5. grouped' = grouped \ {c} /\ unread' = [unread EXCEPT ![c] = 0]
      /\ handle' = [handle EXCEPT ![c] = "Destroyed"]
  BY DEF CloseConnection
<1>6. QED
  BY <1>1, <1>2, <1>3, <1>4, <1>5, MovedKeepsData

\* An entry that the library no longer holds, or that was closed, is dropped.
LEMMA TableOnlyKeepsData ==
  ASSUME Data, NEW c \in Conn, handle[c] \notin Live, c \in Registered,
         UNCHANGED <<handle, callbacks, unread, grouped, sent, batch, known>>,
         NEW state \in {"ABSENT", "CLOSED"},
         connections' = [connections EXCEPT ![c] = state]
  PROVE  Data'
PROOF
<1>1. handle[c] = "Destroyed" /\ c \notin grouped
  BY DEF Data, SocketsTypeOK, ClosedStaysClosed, Reported
<1>2. connections' \in [Conn -> {"ABSENT"} \cup ConnectionState]
      /\ connections'[c] = state /\ \A x \in Conn \ {c} : connections'[x] = connections[x]
  BY DEF Data, ConnectionState
<1>3. PollGroupRegistered' /\ ConnectedIsHeld'
  BY <1>1, <1>2 DEF Data, PollGroupRegistered, ConnectedIsHeld, Registered
<1>4. ClosedStaysClosed'
  <2>1. Registered' \subseteq Registered
    BY <1>2 DEF Registered
  <2>2. QED
    BY <1>1, <1>2, <2>1 DEF Data, ClosedStaysClosed, Reported
<1>5. QED
  BY <1>2, <1>3, <1>4 DEF Data, SocketsTypeOK

\* Closing the server: all entries go, and with them everything in the group.
LEMMA CloseAllKeepsData ==
  ASSUME Data, known \subseteq Conn, NEW incoming \in SUBSET Conn, closeConnection(incoming), UNCHANGED <<batch, known>>
  PROVE  Data'
PROOF
<1> DEFINE all == Registered \cup incoming
           S == {c \in all : handle[c] \in Live}
<1>1. SocketsTypeOK /\ callbacks \in Seq(Change) /\ CloseAll(all) /\ all \subseteq Conn
  BY DEF Data, SocketsTypeOK, closeConnection, Registered
<1>2. /\ connections' = [c \in Conn |-> "ABSENT"]
      /\ grouped' = {}
      /\ \A c \in Conn : handle'[c] = IF c \in all /\ handle[c] \in Live THEN "Destroyed" ELSE handle[c]
  BY DEF closeConnection, CloseAll
<1>3. PICK order \in SetToSeqs(S) : callbacks' = callbacks \o Closings(order)
  BY <1>1 DEF CloseAll
<1>4. SocketsTypeOK'
  BY <1>1, CloseAllType, HandlesAssumption
<1>5. /\ Len(callbacks) \in Nat /\ Len(callbacks') \in Nat /\ Len(callbacks) <= Len(callbacks')
      /\ \A i \in DOMAIN callbacks : callbacks'[i] = callbacks[i]
      /\ \A i \in DOMAIN callbacks' \ DOMAIN callbacks : callbacks'[i].conn \in S
  BY <1>1, <1>3, ClosingsFacts, HandlesAssumption
<1>6. ClosedStaysClosed'
  <2>1. Registered' = {}
    BY <1>2 DEF Registered
  <2>2. Reported' \subseteq Reported \cup S
    BY <1>5, <2>1 DEF Reported
  <2>3. \A c \in Reported \cup S : handle[c] # "Unused"
    BY DEF Data, ClosedStaysClosed, Live, Lost
  <2>4. Reported' \subseteq Conn
    <3>1. \A i \in DOMAIN callbacks' : callbacks'[i] \in Change
      BY <1>4, LenProperties, ElementOfSeq DEF SocketsTypeOK
    <3>2. QED
      BY <2>1, <3>1 DEF Reported, Change
  <2>5. \A c \in Reported' : handle'[c] # "Unused"
    BY <1>2, <2>2, <2>3, <2>4
  <2>6. QED
    BY <1>2, <2>5 DEF ClosedStaysClosed
<1>7. QED
  BY <1>2, <1>4, <1>5, <1>6 DEF Data, PollGroupRegistered, ConnectedIsHeld

-----------------------------------------------------------------------------
(* The steps.                                                              *)

\* One call about the table.
LEMMA TableCallKeepsData ==
  Data /\ known \subseteq Conn /\ TableCall /\ UNCHANGED <<batch, known>> => Data'
PROOF
<1> SUFFICES ASSUME Data, known \subseteq Conn, TableCall, UNCHANGED <<batch, known>>
             PROVE  Data'
  OBVIOUS
<1>1. CASE \E c \in known : Create(c)
  <2>1. PICK c \in known : Create(c)
    BY <1>1
  <2>2. /\ UNCHANGED <<handle, callbacks, unread, grouped, sent>>
        /\ connections' = [connections EXCEPT ![c] = IF @ = "ABSENT" THEN "CONNECTING" ELSE @]
    BY <2>1 DEF Create, createClientConnection, socketVars
  <2>3. connections' \in [Conn -> {"ABSENT"} \cup ConnectionState]
    BY <2>2 DEF Data, ConnectionState
  <2>4. PollGroupRegistered'
    BY <2>2 DEF Data, PollGroupRegistered, Registered
  <2>5. ConnectedIsHeld'
    BY <2>2 DEF Data, ConnectedIsHeld
  <2>6. ClosedStaysClosed'
    <3>1. Registered' \subseteq Registered \cup {c}
      BY <2>2 DEF Registered
    <3>2. QED
      BY <2>2, <3>1 DEF Data, ClosedStaysClosed, Reported
  <2>7. QED
    BY <2>2, <2>3, <2>4, <2>5, <2>6 DEF Data, SocketsTypeOK
<1>2. ASSUME NEW c \in Registered, CloseEntry(c) \/ CloseAndRemove(c)
      PROVE  Data'
  <2>1. c \in Conn
    BY DEF Registered
  <2>2. PICK state \in {"ABSENT", "CLOSED"} : connections' = [connections EXCEPT ![c] = state]
    BY <1>2, <2>1
       DEF CloseEntry, CloseAndRemove, closed, removeClientConnection, closeClientConnection, Data
  <2>3. CASE handle[c] \in Live
    <3>1. CloseConnection(c, callbacks) /\ UNCHANGED sent
      BY <1>2, <2>3 DEF CloseEntry, CloseHandle, CloseAndRemove, closeClientConnection
    <3>2. QED
      BY <2>1, <2>2, <2>3, <3>1, CloseKeepsData
  <2>4. CASE handle[c] \notin Live
    <3>1. UNCHANGED <<handle, callbacks, unread, grouped, sent>>
      BY <1>2, <2>4 DEF CloseEntry, CloseHandle, CloseAndRemove, socketVars
    <3>2. QED
      BY <2>1, <2>2, <2>4, <3>1, TableOnlyKeepsData
  <2>5. QED
    BY <2>3, <2>4
<1>3. ASSUME NEW c \in Registered, RemoveEntry(c)
      PROVE  Data'
  <2>1. c \in Conn
    BY DEF Registered
  <2>2. /\ UNCHANGED <<handle, callbacks, unread, grouped, sent>>
        /\ connections' = [connections EXCEPT ![c] = "ABSENT"]
    BY <1>3 DEF RemoveEntry, removeClientConnection, socketVars
  <2>3. handle[c] = "Destroyed"
    BY <1>3, <2>1 DEF RemoveEntry, Data, ClosedStaysClosed
  <2>4. handle[c] \notin Live
    BY <2>3 DEF Live, Lost
  <2>5. QED
    BY <1>3, <2>1, <2>2, <2>4, TableOnlyKeepsData
<1>4. ASSUME NEW c \in Registered, Accept(c)
      PROVE  Data'
  <2>1. c \in Conn
    BY DEF Registered
  <2>2. /\ handle[c] = "Connecting"
        /\ handle' = [handle EXCEPT ![c] = "Connected"]
        /\ callbacks' = Posted(callbacks, c, "Connecting", "Connected")
        /\ connections' = [connections EXCEPT ![c] = "CONNECTED"]
        /\ UNCHANGED <<unread, grouped, sent>>
    BY <1>4 DEF Accept, CanAccept, AcceptConnection, accepted
  <2>3. /\ "Connecting" \in SteamState /\ "Connected" \in SteamState
        /\ "Connected" \in {"Connecting", "Connected", "Destroyed"} \cup Lost
    BY DEF SteamState, Live
  <2>4. connections' \in [Conn -> {"ABSENT"} \cup ConnectionState]
    BY <2>2 DEF Data, ConnectionState
  <2>5. connections'[c] = "CONNECTED" /\ \A x \in Conn \ {c} : connections'[x] = connections[x]
    BY <2>1, <2>2 DEF Data
  <2>6. QED
    BY <2>1, <2>2, <2>3, <2>4, <2>5, MovedKeepsData DEF Live
<1>5. ASSUME NEW c \in Registered, JoinPollGroup(c)
      PROVE  Data'
  BY <1>5 DEF JoinPollGroup, SetConnectionPollGroup, Registered, Data, SocketsTypeOK,
              PollGroupRegistered, ConnectedIsHeld, ClosedStaysClosed, Reported
<1>6. QED
  BY <1>1, <1>2, <1>3, <1>4, <1>5 DEF TableCall

\* A call of the application.
LEMMA CallKeepsIInv == IInv /\ Call => IInv'
PROOF
<1> SUFFICES ASSUME IInv, Call
             PROVE  IInv'
  OBVIOUS
<1>1. Data /\ Control /\ known \subseteq Conn /\ UNCHANGED <<batch, known>>
  BY Parts DEF Control, Call, applicationVars
<1>2. Data'
  <2>1. CASE Close
    BY <1>1, <2>1, CloseAllKeepsData DEF Close, Incoming
  <2>2. CASE TableCall
    BY <1>1, <2>2, TableCallKeepsData
  <2>3. QED
    BY <2>1, <2>2 DEF Call
<1>3. Control'
  <2>1. CASE Close
    BY <1>1, <2>1 DEF Call, Close, closeConnection, Control, LineTypeOK, lineVars, applicationVars, SocketHandle
  <2>2. CASE TableCall
    BY <1>1, <2>2 DEF Call, TableCall, Control, LineTypeOK, lineVars, applicationVars
  <2>3. QED
    BY <2>1, <2>2 DEF Call
<1>4. QED
  BY <1>2, <1>3, Parts

\* Setting one of the callbacks.
LEMMA SetCallbackKeepsIInv == IInv /\ SetCallback => IInv'
PROOF
<1> SUFFICES ASSUME IInv, SetCallback
             PROVE  IInv'
  OBVIOUS
<1>1. Data /\ Control
  BY Parts
<1>2. Data'
  BY <1>1, DataUnchanged DEF SetCallback, socketVars, serverVars
<1>3. packet_callback' \in BOOLEAN /\ connection_status_change_callback' \in BOOLEAN
  BY <1>1 DEF SetCallback, Control
<1>4. Control'
  BY <1>1, <1>3 DEF SetCallback, lineVars, serverVars, Control, LineTypeOK
<1>5. QED
  BY <1>2, <1>4, Parts

\* Opening, updating and destroying the server.
LEMMA MainKeepsIInv == IInv /\ (Open \/ Update \/ Destroy \/ DestroyMembers) => IInv'
PROOF
<1> SUFFICES ASSUME IInv, Open \/ Update \/ Destroy \/ DestroyMembers
             PROVE  IInv'
  OBVIOUS
<1>1. Data /\ Control
  BY Parts
<1>2. CASE Open
  <2>1. /\ UNCHANGED <<handle, callbacks, unread, sent, connections, batch, known>>
        /\ grouped' \subseteq grouped
    BY <1>2 DEF Open, openConnection
  <2>2. Data'
    <3>1. unread' \in [Conn -> 0 .. MaxUnread]
      BY <1>1, <2>1 DEF Data, SocketsTypeOK
    <3>2. QED
      BY <1>1, <2>1, <3>1, PacketsKeepData
  <2>3. running' \in BOOLEAN /\ quit_requested' \in BOOLEAN
        /\ listening_socket' \in SocketHandle /\ poll_group' \in SocketHandle
    <3>1. CASE running' = FALSE /\ UNCHANGED <<quit_requested, listening_socket, poll_group>>
      BY <1>1, <3>1 DEF Control
    <3>2. CASE \E listens, groups \in BOOLEAN : openConnection(listens, groups)
      BY <1>1, <3>2 DEF openConnection, opened, Control, SocketHandle
    <3>3. QED
      BY <1>2, <3>1, <3>2 DEF Open
  <2>4. opens' \in 0 .. MaxOpens
    BY <1>1, <1>2, OpensAssumption DEF Open, Control
  <2>5. forgotten' \in BOOLEAN /\ orphaned' \subseteq Conn
    BY <1>1, <1>2 DEF Open, Control
  <2>6. Control'
    BY <1>1, <1>2, <2>3, <2>4, <2>5 DEF Open, Control, LineTypeOK, lineVars
  <2>7. QED
    BY <2>2, <2>6, Parts
<1>3. CASE Update
  <2>1. Data'
    BY <1>1, <1>3, DataUnchanged DEF Update, updateConnection, socketVars, serverVars, applicationVars
  <2>2. packet_index' \in 0 .. MaxProcessedPackets
    BY <1>1, <1>3, ServerAssumption DEF Update, updateConnection, Control
  <2>3. Control'
    BY <1>1, <1>3, <2>2 DEF Update, updateConnection, lineVars, serverVars, applicationVars,
                            Control, LineTypeOK
  <2>4. QED
    BY <2>1, <2>3, Parts
<1>4. CASE Destroy
  <2>1. Data'
    <3>1. CASE closesWhenDestroyed
      BY <1>1, <1>4, <3>1, CloseAllKeepsData DEF Destroy, Incoming, applicationVars, Control
    <3>2. CASE ~closesWhenDestroyed
      BY <1>1, <1>4, <3>2, DataUnchanged DEF Destroy, socketVars, serverVars, applicationVars
    <3>3. QED
      BY <3>1, <3>2
  <2>2. Control'
    BY <1>1, <1>4 DEF Destroy, closeConnection, lineVars, serverVars, applicationVars, Control,
                      LineTypeOK, SocketHandle
  <2>3. QED
    BY <2>1, <2>2, Parts
<1>5. CASE DestroyMembers
  <2>1. Data'
    BY <1>1, <1>5, DataUnchanged DEF DestroyMembers, socketVars, serverVars, applicationVars
  <2>2. Control'
    BY <1>1, <1>5 DEF DestroyMembers, lineVars, serverVars, applicationVars, Control, LineTypeOK
  <2>3. QED
    BY <2>1, <2>2, Parts
<1>6. QED
  BY <1>2, <1>3, <1>4, <1>5

\* The steps of updateConnection.
LEMMA PacketStepKeepsIInv == IInv /\ ReceivePackets => IInv'
PROOF
<1> SUFFICES ASSUME IInv, ReceivePackets
             PROVE  IInv'
  OBVIOUS
<1>1. Data /\ Control
  BY Parts
<1>2. CASE processPendingPacket
  <2>1. Data' /\ packet_index' \in 0 .. MaxProcessedPackets
              /\ outcome' \in {"nullPacket", "unregisteredPacket", outcome}
    <3>1. CASE poll_group # "valid"
      BY <1>1, <1>2, <3>1, DataUnchanged
         DEF processPendingPacket, ReceivePackets, socketVars, serverVars, applicationVars, Control
    <3>2. CASE poll_group = "valid"
      <4>1. PICK c \in Readable : ReceiveMessage(c)
        BY <1>2, <3>2 DEF processPendingPacket
      <4>2. UNCHANGED <<handle, callbacks, sent, grouped, connections, batch, known>>
        BY <1>2, <4>1 DEF processPendingPacket, ReceivePackets, ReceiveMessage, serverVars, applicationVars
      <4>3. unread' \in [Conn -> 0 .. MaxUnread]
        BY <1>1, <4>1, SocketsAssumption DEF ReceiveMessage, Readable, Data, SocketsTypeOK
      <4>4. Data'
        BY <1>1, <4>2, <4>3, PacketsKeepData
      <4>5. packet_index' \in 0 .. MaxProcessedPackets
        BY <1>1, <1>2, <3>2, ServerAssumption DEF processPendingPacket, morePackets, nextIndex, Control
      <4>6. QED
        BY <1>2, <3>2, <4>4, <4>5 DEF processPendingPacket
    <3>3. QED
      BY <3>1, <3>2
  <2>2. Control'
    BY <1>1, <1>2, <2>1 DEF processPendingPacket, ReceivePackets, lineVars, serverVars,
                            applicationVars, Control, LineTypeOK
  <2>3. QED
    BY <2>1, <2>2, Parts
<1>3. CASE leavePackets
  <2>1. Data'
    BY <1>1, <1>3, DataUnchanged DEF leavePackets, ReceivePackets, socketVars, serverVars, applicationVars
  <2>2. Control'
    BY <1>1, <1>3, ServerAssumption DEF leavePackets, ReceivePackets, lineVars, serverVars,
                                        applicationVars, Control, LineTypeOK
  <2>3. QED
    BY <2>1, <2>2, Parts
<1>4. QED
  BY <1>2, <1>3 DEF ReceivePackets, packetsDone

LEMMA DispatchKeepsIInv == IInv /\ Dispatch => IInv'
PROOF
<1> SUFFICES ASSUME IInv, Dispatch
             PROVE  IInv'
  OBVIOUS
<1>1. Data /\ Control
  BY Parts
<1>2. /\ batch \in Nat \ {0} /\ batch <= Len(callbacks) /\ batch' = batch - 1
      /\ callbacks \in Seq(Change) /\ callbacks' = Tail(callbacks)
  BY <1>1 DEF Dispatch, Data, SocketsTypeOK
<1>3. callbacks # <<>>
  BY <1>2, EmptySeq
<1>4. /\ Tail(callbacks) \in Seq(Change) /\ Len(Tail(callbacks)) = Len(callbacks) - 1
      /\ Len(callbacks) \in Nat
      /\ Head(callbacks).conn \in About(callbacks) /\ Head(callbacks).conn \in Conn
      /\ About(Tail(callbacks)) \subseteq About(callbacks)
  BY <1>2, <1>3, TakenType
<1>5. batch' \in Nat /\ batch' <= Len(callbacks')
  BY <1>2, <1>4
<1>6. UNCHANGED <<handle, unread, grouped, sent, connections>>
      /\ known' \subseteq known \cup {Head(callbacks).conn}
  BY DEF Dispatch, serverVars
<1>7. ClosedStaysClosed'
  <2>1. Reported' \subseteq Reported
    BY <1>2, <1>4, <1>6 DEF Reported, About, Registered
  <2>2. QED
    BY <1>1, <1>6, <2>1 DEF Data, ClosedStaysClosed
<1>8. Data'
  BY <1>1, <1>2, <1>4, <1>5, <1>6, <1>7 DEF Data, SocketsTypeOK, PollGroupRegistered,
                                            ConnectedIsHeld, Registered
<1>9. Control'
  BY <1>1, <1>4 DEF Dispatch, lineVars, serverVars, Control, LineTypeOK
<1>10. QED
  BY <1>8, <1>9, Parts

LEMMA RestOfUpdateKeepsIInv ==
  /\ IInv
  /\ \/ ReturnFromCallback
     \/ (processConnectionStateChanges \/ callbacksDone \/ processUserInput) /\ UNCHANGED applicationVars
  => IInv'
PROOF
<1> SUFFICES ASSUME IInv, UNCHANGED applicationVars,
                    \/ ReturnFromCallback \/ processConnectionStateChanges
                    \/ callbacksDone \/ processUserInput
             PROVE  IInv'
  BY DEF ReturnFromCallback
<1>1. Data /\ Control
  BY Parts
<1>2. CASE ReturnFromCallback \/ callbacksDone
  <2>1. UNCHANGED <<socketVars, lineVars, serverVars, packet_index, batch, outcome>>
        /\ pc' \in {"RunCallbacks", "processUserInput"}
    BY <1>2 DEF ReturnFromCallback, callbacksDone
  <2>2. Data'
    BY <1>1, <2>1, DataUnchanged DEF socketVars, serverVars, applicationVars
  <2>3. Control'
    BY <1>1, <2>1 DEF lineVars, serverVars, applicationVars, Control, LineTypeOK
  <2>4. QED
    BY <2>2, <2>3, Parts
<1>3. CASE processUserInput
  <2>1. Data'
    BY <1>1, <1>3, DataUnchanged DEF processUserInput, socketVars, applicationVars
  <2>2. LineTypeOK'
    <3>1. input_queue # <<>> => Tail(input_queue) \in Seq(Line)
      BY <1>1, HeadTailProperties DEF Control, LineTypeOK
    <3>2. QED
      BY <1>1, <1>3, <3>1 DEF processUserInput, readInput, lineVars, Control, LineTypeOK
  <2>3. Control'
    BY <1>1, <1>3, <2>2 DEF processUserInput, applicationVars, Control
  <2>4. QED
    BY <2>1, <2>3, Parts
<1>4. CASE processConnectionStateChanges
  <2>1. Len(callbacks) \in Nat
    BY <1>1, LenProperties DEF Data, SocketsTypeOK
  <2>2. Data'
    <3>1. UNCHANGED <<handle, callbacks, unread, grouped, sent, connections, known>>
          /\ batch' = Len(callbacks)
      BY <1>4 DEF processConnectionStateChanges, socketVars, serverVars, applicationVars
    <3>2. QED
      BY <1>1, <2>1, <3>1 DEF Data, SocketsTypeOK, PollGroupRegistered, ConnectedIsHeld,
                              ClosedStaysClosed, Reported, Registered
  <2>3. Control'
    BY <1>1, <1>4 DEF processConnectionStateChanges, lineVars, serverVars, applicationVars, Control,
                      LineTypeOK
  <2>4. QED
    BY <2>2, <2>3, Parts
<1>5. QED
  BY <1>2, <1>3, <1>4

\* The network and the operator, who take no part in the calls.
LEMMA NetworkKeepsIInv == IInv /\ Network => IInv'
PROOF
<1> SUFFICES ASSUME IInv, Network
             PROVE  IInv'
  OBVIOUS
<1>1. Data /\ Control /\ UNCHANGED <<connections, batch, known>>
  BY Parts DEF Network, serverVars
<1>2. Control'
  BY <1>1 DEF Network, lineVars, serverVars, Control, LineTypeOK
<1>3. connections \in [Conn -> {"ABSENT"} \cup ConnectionState] /\ PollGroupRegistered /\ ConnectedIsHeld
      /\ ClosedStaysClosed
  BY <1>1 DEF Data
<1>4. SteamState = {"None"} \cup Live /\ Live = {"Connecting", "Connected"} \cup Lost
      /\ Lost = {"ClosedByPeer", "ProblemDetectedLocally"}
  BY DEF SteamState, Live, Lost
<1>5. ASSUME NEW c \in Conn, PeerConnects(c)
      PROVE  Data'
  <2>1. /\ handle[c] = "Unused"
        /\ handle' = [handle EXCEPT ![c] = "Connecting"]
        /\ callbacks' = Posted(callbacks, c, "None", "Connecting")
        /\ UNCHANGED <<unread, grouped, sent>>
    BY <1>5 DEF PeerConnects
  <2>2. connections[c] # "CONNECTED" /\ connections[c] # "CLOSED"
    BY <1>3, <1>4, <2>1 DEF ConnectedIsHeld, ClosedStaysClosed
  <2>3. c \in grouped => connections[c] # "ABSENT"
    BY <1>3 DEF PollGroupRegistered, Registered
  <2>4. QED
    BY <1>1, <1>3, <1>4, <2>1, <2>2, <2>3, MovedKeepsData
<1>6. ASSUME NEW c \in Conn, NEW how \in Lost, PeerIsLost(c, how)
      PROVE  Data'
  <2>1. /\ handle[c] \in {"Connecting", "Connected"}
        /\ handle' = [handle EXCEPT ![c] = how]
        /\ callbacks' = Posted(callbacks, c, handle[c], how)
        /\ UNCHANGED <<unread, grouped, sent>>
    BY <1>6 DEF PeerIsLost
  <2>2. (c \in grouped => connections[c] # "ABSENT") /\ connections[c] # "CLOSED"
    BY <1>3, <2>1 DEF PollGroupRegistered, Registered, ClosedStaysClosed
  <2>3. how \in SteamState /\ how \in {"Connecting", "Connected", "Destroyed"} \cup Lost
        /\ handle[c] \in SteamState /\ how \in Live
    BY <1>4, <2>1
  <2>4. \E from \in SteamState : callbacks' = Posted(callbacks, c, from, how)
    BY <2>1, <2>3
  <2>5. QED
    BY <1>1, <1>3, <2>1, <2>2, <2>3, <2>4, MovedKeepsData
<1>7. ASSUME NEW c \in Conn, PeerSends(c)
      PROVE  Data'
  <2>1. unread' \in [Conn -> 0 .. MaxUnread]
    BY <1>1, <1>7, SocketsAssumption DEF PeerSends, Data, SocketsTypeOK
  <2>2. QED
    BY <1>1, <1>7, <2>1, PacketsKeepData DEF PeerSends
<1>8. Data'
  BY <1>5, <1>6, <1>7 DEF Network
<1>9. QED
  BY <1>2, <1>8, Parts

LEMMA OperatorKeepsIInv == IInv /\ Operator => IInv'
PROOF
<1> SUFFICES ASSUME IInv, Operator
             PROVE  IInv'
  OBVIOUS
<1>1. Data /\ Control
  BY Parts
<1>2. PICK line \in Line : addInput(line)
  BY DEF Operator
<1>3. Data'
  BY <1>1, DataUnchanged DEF Operator, socketVars, serverVars, applicationVars
<1>4. LineTypeOK'
  BY <1>1, <1>2, AppendProperties DEF addInput, Control, LineTypeOK
<1>5. Control'
  BY <1>1, <1>4 DEF Operator, serverVars, applicationVars, Control
<1>6. QED
  BY <1>3, <1>5, Parts

-----------------------------------------------------------------------------
(* The invariant.                                                          *)

LEMMA InitIInv == Init => IInv
PROOF
<1> SUFFICES ASSUME Init
             PROVE  IInv
  OBVIOUS
<1>1. Data
  <2>1. <<>> \in Seq(Change) /\ Len(<<>>) = 0 /\ <<>> \in Seq(Notice)
    BY EmptySeq
  <2>2. SocketsTypeOK
    BY <2>1, SocketsAssumption DEF Init, SocketsInit, SocketsTypeOK
  <2>3. QED
    BY <2>1, <2>2 DEF Init, SocketsInit, ServerInit, Data, PollGroupRegistered, ConnectedIsHeld,
                       ClosedStaysClosed, Reported, Registered
<1>2. Control
  <2>1. LineTypeOK
    BY DEF Init, LineInit, LineTypeOK
  <2>2. packet_index \in 0 .. MaxProcessedPackets /\ opens \in 0 .. MaxOpens
    BY ServerAssumption, OpensAssumption DEF Init, ServerInit
  <2>3. QED
    BY <2>1, <2>2 DEF Init, ServerInit, Control, SocketHandle
<1>3. QED
  BY <1>1, <1>2, Parts

LEMMA NextIInv == IInv /\ [Next]_vars => IInv'
PROOF
<1> SUFFICES ASSUME IInv, [Next]_vars
             PROVE  IInv'
  OBVIOUS
<1>1. CASE UNCHANGED vars
  <2>1. Data'
    BY <1>1, Parts, DataUnchanged DEF vars, socketVars, serverVars, applicationVars
  <2>2. Control'
    BY <1>1, Parts DEF vars, lineVars, serverVars, applicationVars, Control, LineTypeOK
  <2>3. QED
    BY <2>1, <2>2, Parts
<1>2. CASE Open \/ Update \/ Destroy \/ DestroyMembers
  BY <1>2, MainKeepsIInv
<1>3. CASE Call \/ SetCallback
  BY <1>3, CallKeepsIInv, SetCallbackKeepsIInv
<1>4. CASE Library
  <2>1. CASE ReceivePackets
    BY <2>1, PacketStepKeepsIInv
  <2>2. CASE Dispatch
    BY <2>2, DispatchKeepsIInv
  <2>3. CASE ReturnFromCallback
    BY <2>3, RestOfUpdateKeepsIInv
  <2>4. CASE (processConnectionStateChanges \/ callbacksDone \/ processUserInput) /\ UNCHANGED applicationVars
    BY <2>4, RestOfUpdateKeepsIInv
  <2>5. QED
    BY <1>4, <2>1, <2>2, <2>3, <2>4, Zenon DEF Library
<1>5. CASE Network \/ Operator
  BY <1>5, NetworkKeepsIInv, OperatorKeepsIInv
<1>6. QED
  BY <1>1, <1>2, <1>3, <1>4, <1>5 DEF Next

\* Whatever an application calls, and in whatever order, the invariant holds.
THEOREM AnyInvariance == Spec => []IInv
PROOF
  BY InitIInv, NextIInv, PTL DEF Spec

\* The variables keep their types under any application.
THEOREM AnyTypeCorrect == Spec => []TypeOK
PROOF
<1>1. IInv => TypeOK
  BY DEF IInv
<1>2. QED
  BY <1>1, AnyInvariance, PTL

\* The assertion on received packets (Server.cpp:241) holds for any application.
THEOREM AnyPacketsAreForEntries == Spec => []PollGroupRegistered
PROOF
<1>1. IInv => PollGroupRegistered
  BY DEF IInv
<1>2. QED
  BY <1>1, AnyInvariance, PTL

\* The broadcasts take for connected only what the library still holds
\* (Server.cpp:136), for any application.
THEOREM AnyConnectedIsHeld == Spec => []ConnectedIsHeld
PROOF
<1>1. IInv => ConnectedIsHeld
  BY DEF IInv
<1>2. QED
  BY <1>1, AnyInvariance, PTL

-----------------------------------------------------------------------------
(* The poll group and the listen socket, while the server runs.            *)

\* A server that runs has both sockets, and what polls the group while it is
\* invalid is a packet loop whose callback closed the server or failed to open it.
GroupInv ==
  /\ NullOnlyAfterPacketCallback
  /\ running => poll_group = "valid" /\ listening_socket = "valid"
  /\ pc = "processPendingPackets" =>
       \/ poll_group = "valid"
       \/ packet_index > 0 /\ ~running /\ poll_group = "invalid"

LEMMA NextGroupInv == IInv /\ GroupInv /\ [Next]_vars => GroupInv'
PROOF
<1> SUFFICES ASSUME IInv, GroupInv, [Next]_vars
             PROVE  GroupInv'
  OBVIOUS
<1> USE DEF GroupInv, NullOnlyAfterPacketCallback
<1>1. packet_index \in Nat /\ (Next => outcome # "nullPacket")
  BY ServerAssumption DEF IInv, TypeOK, ServerTypeOK, Next
<1>2. CASE UNCHANGED vars
  BY <1>2 DEF vars, serverVars
<1>3. CASE Next /\ Open
  <2>1. CASE running' = FALSE /\ UNCHANGED <<listening_socket, poll_group, packet_index, pc, outcome>>
    BY <1>1, <1>3, <2>1
  <2>2. ASSUME NEW listens \in BOOLEAN, NEW groups \in BOOLEAN, openConnection(listens, groups),
               UNCHANGED <<packet_index, pc, outcome>>
        PROVE  GroupInv'
    BY <1>1, <1>3, <2>2 DEF Open, InCallback, InPacketCallback, openConnection, opened
  <2>3. QED
    BY <1>3, <2>1, <2>2 DEF Open
<1>4. CASE Next /\ Update
  BY <1>1, <1>4 DEF Update, updateConnection, serverVars
<1>5. CASE Destroy
  BY <1>5 DEF Destroy, closeConnection, serverVars
<1>6. CASE DestroyMembers
  BY <1>6 DEF DestroyMembers, serverVars
<1>7. CASE Call
  BY <1>1, <1>7 DEF Call, Close, closeConnection, TableCall, InCallback, InPacketCallback
<1>8. CASE Next /\ ReceivePackets
  <2>1. CASE processPendingPacket
    <3>1. CASE poll_group # "valid"
      BY <1>1, <2>1, <3>1 DEF processPendingPacket, serverVars
    <3>2. CASE poll_group = "valid"
      BY <1>1, <1>8, <2>1, <3>2 DEF processPendingPacket, serverVars
    <3>3. QED
      BY <3>1, <3>2
  <2>2. CASE leavePackets
    BY <1>1, <1>8, <2>2 DEF leavePackets, serverVars
  <2>3. QED
    BY <1>8, <2>1, <2>2 DEF ReceivePackets, packetsDone
<1>9. CASE Dispatch \/ ReturnFromCallback
  BY <1>1, <1>9 DEF Dispatch, ReturnFromCallback, serverVars
<1>10. CASE processConnectionStateChanges \/ callbacksDone \/ processUserInput
  BY <1>10 DEF processConnectionStateChanges, callbacksDone, processUserInput, serverVars
<1>11. CASE Network \/ Operator
  BY <1>11 DEF Network, Operator, serverVars
<1>12. CASE SetCallback
  BY <1>12 DEF SetCallback, serverVars
<1>13. QED
  BY <1>2, <1>3, <1>4, <1>5, <1>6, <1>7, <1>8, <1>9, <1>10, <1>11, <1>12 DEF Next, Library

LEMMA GroupInvariance == Spec => [](IInv /\ GroupInv)
PROOF
<1>1. Init => GroupInv
  BY DEF Init, ServerInit, GroupInv, NullOnlyAfterPacketCallback
<1>2. QED
  BY <1>1, NextGroupInv, AnyInvariance, PTL DEF Spec

\* The null packet of a failed receive (Server.cpp:228-233) is met only in a loop
\* whose packet callback has left the server stopped and without a poll group: by
\* closing it, or by opening it again without success (Server.cpp:187-192).  The
\* peers alone never lead there, nor does anything done before the loop began.
THEOREM NullIsOnlyAfterPacketCallback == Spec => []NullOnlyAfterPacketCallback
PROOF
<1>1. GroupInv => NullOnlyAfterPacketCallback
  BY DEF GroupInv
<1>2. QED
  BY <1>1, GroupInvariance, PTL

-----------------------------------------------------------------------------
(* One call of openConnection.                                             *)

Quiet == \A c \in Conn : handle[c] \notin Live

\* Before the first open nobody comes in.  After it the server runs; or it failed
\* to open, and runs no callback that would tell of a connection; or it was closed,
\* and every connection with it.
OpenedOnce ==
  /\ opens <= 1 => ~forgotten /\ orphaned = {}
  /\ opens = 0 => /\ ~running /\ listening_socket # "valid"
                  /\ known = {} /\ Registered = {} /\ pc \in {"main", "~Server"}
  /\ opens <= 1 =>
       \/ running /\ pc # "~Server"
       \/ ~running /\ known = {} /\ Registered = {} /\ pc \in {"main", "~Server"}
       \/ ~running /\ listening_socket # "valid" /\ Quiet

\* What the application does to the table leaves a quiet library quiet.
LEMMA TableCallStaysQuiet ==
  ASSUME IInv, TableCall, Quiet
  PROVE  Quiet'
PROOF
<1>1. handle \in [Conn -> {"Unused", "Destroyed"} \cup Live] /\ Registered \subseteq Conn
  BY DEF IInv, TypeOK, SocketsTypeOK, Registered
<1>2. CASE \E c \in known : Create(c)
  BY <1>2 DEF Create, socketVars, Quiet
<1>3. ASSUME NEW c \in Registered,
             CloseEntry(c) \/ RemoveEntry(c) \/ CloseAndRemove(c) \/ Accept(c) \/ JoinPollGroup(c)
      PROVE  Quiet'
  <2>1. handle[c] \notin Live /\ handle[c] # "Connecting"
    BY <1>1 DEF Quiet, Live
  <2>2. QED
    BY <1>3, <2>1 DEF CloseEntry, CloseHandle, RemoveEntry, CloseAndRemove, Accept, CanAccept, JoinPollGroup,
                      socketVars, Quiet
<1>4. QED
  BY <1>2, <1>3 DEF TableCall

\* closeConnection leaves no live connection behind, the first time.
LEMMA CloseMakesQuiet ==
  ASSUME closeConnection(Incoming), listening_socket = "valid", orphaned = {}
  PROVE  Quiet'
PROOF
<1>1. Registered \cup Incoming = Conn
  BY DEF Incoming, Registered
<1>2. \A c \in Conn : handle'[c] = IF handle[c] \in Live THEN "Destroyed" ELSE handle[c]
  BY <1>1 DEF closeConnection, CloseAll
<1>3. QED
  BY <1>2 DEF Quiet, Live, Lost

LEMMA NextOpenedOnce == IInv /\ GroupInv /\ OpenedOnce /\ [Next]_vars => OpenedOnce'
PROOF
<1> SUFFICES ASSUME IInv, GroupInv, OpenedOnce, [Next]_vars
             PROVE  OpenedOnce'
  OBVIOUS
<1>1. /\ opens \in Nat
      /\ running => listening_socket = "valid"
  BY OpensAssumption DEF IInv, TypeOK, GroupInv
<1>2. ASSUME UNCHANGED <<handle, connections, running, listening_socket, opens, known, forgotten, orphaned>>,
             pc' # pc => pc' = "main" \/ ((pc \notin {"main", "~Server"} \/ running) /\ pc' # "~Server")
      PROVE  OpenedOnce'
  BY <1>1, <1>2 DEF OpenedOnce, Quiet, Registered
<1>3. CASE UNCHANGED vars
  BY <1>2, <1>3 DEF vars, socketVars, serverVars, applicationVars
<1>4. CASE Open
  <2>1. /\ pc = "main" \/ pc = "callback" \/ pc = "processPendingPackets"
        /\ opens' = opens + 1 /\ UNCHANGED <<handle, known, pc, connections>>
    BY <1>4 DEF Open, InCallback, InPacketCallback, openConnection
  <2>2. CASE opens = 0
    <3>1. pc = "main" /\ known = {} /\ Registered = {} /\ ~forgotten /\ orphaned = {}
      BY <2>1, <2>2 DEF OpenedOnce
    <3>2. UNCHANGED <<forgotten, orphaned>>
      BY <1>4, <2>2 DEF Open, OpenedOnce
    <3>3. Registered' = {} /\ known' = {} /\ pc' = "main" /\ running' \in BOOLEAN
      BY <1>4, <2>1, <3>1 DEF Open, openConnection, opened, Registered
    <3>4. QED
      BY <2>1, <2>2, <3>1, <3>2, <3>3 DEF OpenedOnce
  <2>3. CASE opens # 0
    BY <1>1, <2>1, <2>3 DEF OpenedOnce
  <2>4. QED
    BY <2>2, <2>3
<1>5. CASE Update
  BY <1>2, <1>5 DEF Update, updateConnection, socketVars, serverVars, applicationVars
<1>6. ASSUME closeConnection(Incoming), pc' \in {pc, "~Server"}, UNCHANGED applicationVars
      PROVE  OpenedOnce'
  <2>1. CASE running /\ opens <= 1
    <3>1. Quiet'
      BY <1>1, <1>6, <2>1, CloseMakesQuiet DEF OpenedOnce
    <3>2. QED
      BY <1>1, <1>6, <2>1, <3>1 DEF closeConnection, applicationVars, OpenedOnce
  <2>2. CASE ~running /\ opens <= 1
    <3>1. listening_socket = "valid" => Quiet'
      BY <1>6, <2>2, CloseMakesQuiet DEF OpenedOnce
    <3>2. listening_socket # "valid" /\ Quiet => Quiet'
      BY <1>6 DEF closeConnection, CloseAll, Quiet, Live, Lost
    <3>3. known = {} /\ Registered = {} => known' = {} /\ Registered' = {}
      BY <1>6 DEF closeConnection, applicationVars, Registered
    <3>4. QED
      BY <1>1, <1>6, <2>2, <3>1, <3>2, <3>3 DEF closeConnection, applicationVars, OpenedOnce
  <2>3. QED
    BY <1>1, <1>6, <2>1, <2>2 DEF applicationVars, OpenedOnce
<1>7. CASE Destroy
  <2>1. CASE running
    BY <1>6, <1>7, <2>1 DEF Destroy, closesWhenDestroyed
  <2>2. CASE ~running
    BY <1>1, <1>7, <2>2 DEF Destroy, closesWhenDestroyed, socketVars, serverVars, applicationVars,
                       OpenedOnce, Quiet, Registered
  <2>3. QED
    BY <2>1, <2>2
<1>8. CASE DestroyMembers
  BY <1>2, <1>8 DEF DestroyMembers, socketVars, serverVars, applicationVars
<1>9. CASE Call
  <2>1. CASE Close
    BY <1>6, <1>9, <2>1 DEF Call, Close
  <2>2. CASE TableCall
    <3>1. Quiet => Quiet'
      BY <2>2, TableCallStaysQuiet
    <3>2. known # {} \/ Registered # {}
      BY <2>2 DEF TableCall
    <3>3. UNCHANGED <<running, listening_socket, opens, known, forgotten, orphaned, pc>>
      BY <1>9, <2>2 DEF Call, TableCall, applicationVars
    <3>4. QED
      BY <1>1, <3>1, <3>2, <3>3 DEF OpenedOnce
  <2>3. QED
    BY <1>9, <2>1, <2>2 DEF Call
<1>10. CASE ReceivePackets
  <2>1. UNCHANGED <<handle, connections, running, listening_socket, opens, known, forgotten, orphaned>>
    BY <1>10 DEF ReceivePackets, packetsDone, processPendingPacket, leavePackets, ReceiveMessage,
                 socketVars, serverVars, applicationVars
  <2>2. pc' # pc => pc \notin {"main", "~Server"} /\ pc' # "~Server"
    BY <1>10 DEF ReceivePackets, packetsDone, processPendingPacket, leavePackets
  <2>3. QED
    BY <1>2, <2>1, <2>2
<1>11. CASE Dispatch
  BY <1>1, <1>11 DEF Dispatch, serverVars, OpenedOnce, Quiet, Registered
<1>12. CASE ReturnFromCallback
  BY <1>2, <1>12 DEF ReturnFromCallback, socketVars, serverVars, applicationVars
<1>13. CASE /\ processConnectionStateChanges \/ callbacksDone \/ processUserInput
            /\ UNCHANGED applicationVars
  BY <1>2, <1>13 DEF processConnectionStateChanges, callbacksDone, processUserInput,
                     socketVars, serverVars, applicationVars
<1>14. CASE Network
  <2>1. UNCHANGED <<connections, running, listening_socket, opens, known, forgotten, pc>>
    BY <1>14 DEF Network, serverVars
  <2>2. PICK c \in Conn :
          \/ listening_socket = "valid" /\ PeerConnects(c) /\ UNCHANGED orphaned
          \/ forgotten /\ PeerConnects(c) /\ orphaned' = orphaned \cup {c}
          \/ ((\E how \in Lost : PeerIsLost(c, how)) \/ PeerSends(c)) /\ UNCHANGED orphaned
    BY <1>14 DEF Network
  <2>3. opens <= 1 => UNCHANGED orphaned
    BY <2>2 DEF OpenedOnce
  <2>4. listening_socket # "valid" /\ ~forgotten /\ Quiet => Quiet'
    BY <2>2 DEF Quiet, PeerIsLost, PeerSends, Live
  <2>5. QED
    BY <1>1, <2>1, <2>3, <2>4 DEF OpenedOnce, Registered
<1>15. CASE Operator
  BY <1>2, <1>15 DEF Operator, socketVars, serverVars, applicationVars
<1>16. CASE SetCallback
  BY <1>2, <1>16 DEF SetCallback, socketVars, serverVars
<1>17. QED
  BY <1>3, <1>4, <1>5, <1>7, <1>8, <1>9, <1>10, <1>11, <1>12, <1>13, <1>14, <1>15, <1>16, Zenon DEF Next, Library

\* A server that was opened at most once leaves no live connection in its table
\* (Server.cpp:48-56).
THEOREM DestructorClosesAll == Spec => []OneOpenLeavesNothing
PROOF
<1>1. Init => OpenedOnce
  BY DEF Init, ServerInit, OpenedOnce, Registered
<1>2. IInv /\ OpenedOnce => OneOpenLeavesNothing
  BY OpensAssumption DEF IInv, TypeOK, OpenedOnce, OneOpenLeavesNothing, Registered, Quiet
<1>3. QED
  BY <1>1, <1>2, NextOpenedOnce, GroupInvariance, PTL DEF Spec
=============================================================================
