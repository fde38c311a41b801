------------------------ MODULE ExampleServerProofs ------------------------
(***************************************************************************)
(* Proofs about the example server: for every set of connections, every    *)
(* bound and every line, the specification keeps the inductive invariant,  *)
(* and with it the safety properties that are its conjuncts.               *)
(***************************************************************************)
EXTENDS ExampleServer, SteamSocketsProofs

LOCAL INSTANCE SequencesExt

-----------------------------------------------------------------------------
(* The callback queue.                                                     *)

\* A queue of callbacks is about connections.
LEMMA AboutConn ==
  ASSUME NEW queue \in Seq(Change)
  PROVE  About(queue) \subseteq Conn /\ PendingConnects(queue) \subseteq About(queue)
PROOF
<1>1. \A i \in DOMAIN queue : queue[i] \in Change
  BY LenProperties, ElementOfSeq
<1>2. QED
  BY <1>1 DEF About, PendingConnects, Change

\* A callback that is posted at the end: the queue grows by one, it is about
\* one connection more, and only a callback that reports CONNECTING adds to
\* those that are still to be announced to the server.
LEMMA PostedFacts ==
  ASSUME NEW queue \in Seq(Change), NEW c \in Conn, NEW from \in SteamState, NEW to \in SteamState
  PROVE  LET longer == Posted(queue, c, from, to) IN
         /\ longer \in Seq(Change)
         /\ Len(longer) = Len(queue) + 1
         /\ About(longer) = About(queue) \cup {c}
         /\ to # "Connecting" => PendingConnects(longer) = PendingConnects(queue)
         /\ to = "Connecting" => PendingConnects(longer) = PendingConnects(queue) \cup {c}
         /\ ConnectsOnce(queue) /\ (to # "Connecting" \/ c \notin About(queue)) => ConnectsOnce(longer)
PROOF
<1> DEFINE info == [conn |-> c, old |-> from, new |-> to]
           longer == Posted(queue, c, from, to)
           n == Len(queue)
<1>1. info \in Change
  BY DEF Change
<1>2. /\ longer \in Seq(Change)
      /\ Len(longer) = n + 1
      /\ \A i \in 1 .. n : longer[i] = queue[i]
      /\ longer[n + 1] = info
  BY <1>1, AppendProperties DEF Posted
<1>3. n \in Nat /\ DOMAIN queue = 1 .. n /\ DOMAIN longer = 1 .. n + 1
  BY <1>2, LenProperties
<1>4. DOMAIN longer = DOMAIN queue \cup {n + 1} /\ n + 1 \notin DOMAIN queue
  BY <1>3
<1>5. \A i \in DOMAIN queue : longer[i] = queue[i]
  BY <1>2, <1>3
<1> HIDE DEF longer
<1>6. About(longer) = About(queue) \cup {c}
  BY <1>2, <1>4, <1>5 DEF About
<1>7. /\ to # "Connecting" => PendingConnects(longer) = PendingConnects(queue)
      /\ to = "Connecting" => PendingConnects(longer) = PendingConnects(queue) \cup {c}
  BY <1>2, <1>4, <1>5 DEF PendingConnects
<1>8. ASSUME ConnectsOnce(queue), to # "Connecting" \/ c \notin About(queue)
      PROVE  ConnectsOnce(longer)
  BY <1>2, <1>4, <1>5, <1>8 DEF ConnectsOnce, About
<1>9. QED
  BY <1>2, <1>6, <1>7, <1>8 DEF longer

\* A callback that is taken off the front: if it reports CONNECTING, no other
\* one for the same connection does.
LEMMA TakenFacts ==
  ASSUME NEW queue \in Seq(Change), queue # <<>>
  PROVE  LET info == Head(queue)
             rest == Tail(queue)
         IN
         /\ info \in Change
         /\ rest \in Seq(Change)
         /\ Len(rest) = Len(queue) - 1
         /\ info.conn \in About(queue)
         /\ About(rest) \subseteq About(queue)
         /\ PendingConnects(queue) =
              PendingConnects(rest) \cup (IF info.new = "Connecting" THEN {info.conn} ELSE {})
         /\ ConnectsOnce(queue) =>
              /\ ConnectsOnce(rest)
              /\ info.new = "Connecting" => info.conn \notin PendingConnects(rest)
PROOF
<1> DEFINE info == Head(queue)
           rest == Tail(queue)
           n == Len(queue)
<1>1. /\ info \in Change
      /\ rest \in Seq(Change)
      /\ Len(rest) = n - 1
      /\ \A i \in 1 .. Len(rest) : rest[i] = queue[i + 1]
  BY HeadTailProperties
<1>2. n \in Nat \ {0} /\ info = queue[1]
  BY EmptySeq
<1>3. DOMAIN queue = 1 .. n /\ DOMAIN rest = 1 .. n - 1
  BY <1>1, LenProperties
<1>4. /\ \A i \in DOMAIN rest : i + 1 \in DOMAIN queue \ {1} /\ rest[i] = queue[i + 1]
      /\ \A i \in DOMAIN queue \ {1} : i - 1 \in DOMAIN rest /\ rest[i - 1] = queue[i]
      /\ 1 \in DOMAIN queue
  BY <1>1, <1>2, <1>3
<1>5. DOMAIN queue \subseteq Nat /\ DOMAIN rest \subseteq Nat
  BY <1>3
<1> HIDE DEF info, rest
<1>6. info.conn \in About(queue) /\ About(rest) \subseteq About(queue)
  BY <1>2, <1>4 DEF About
<1>7. PendingConnects(queue) =
        PendingConnects(rest) \cup (IF info.new = "Connecting" THEN {info.conn} ELSE {})
  <2>1. PendingConnects(queue) \subseteq
          PendingConnects(rest) \cup (IF info.new = "Connecting" THEN {info.conn} ELSE {})
    BY <1>2, <1>4 DEF PendingConnects
  <2>2. PendingConnects(rest) \subseteq PendingConnects(queue)
    BY <1>4 DEF PendingConnects
  <2>3. info.new = "Connecting" => info.conn \in PendingConnects(queue)
    BY <1>2, <1>4 DEF PendingConnects
  <2>4. QED
    BY <2>1, <2>2, <2>3
<1>8. ASSUME ConnectsOnce(queue)
      PROVE  /\ ConnectsOnce(rest)
             /\ info.new = "Connecting" => info.conn \notin PendingConnects(rest)
  <2>1. ConnectsOnce(rest)
    <3> SUFFICES ASSUME NEW i \in DOMAIN rest, NEW j \in DOMAIN rest,
                        rest[i].new = "Connecting", rest[j].new = "Connecting",
                        rest[i].conn = rest[j].conn
                 PROVE  i = j
      BY DEF ConnectsOnce
    <3>1. i + 1 = j + 1
      BY <1>4, <1>8 DEF ConnectsOnce
    <3>2. QED
      BY <3>1, <1>5
  <2>2. info.new = "Connecting" => info.conn \notin PendingConnects(rest)
    <3> SUFFICES ASSUME info.new = "Connecting",
                        NEW i \in DOMAIN rest, rest[i].new = "Connecting", rest[i].conn = info.conn
                 PROVE  FALSE
      BY DEF PendingConnects
    <3>1. i + 1 = 1
      BY <1>2, <1>4, <1>8 DEF ConnectsOnce
    <3>2. QED
      BY <3>1, <1>4
  <2>3. QED
    BY <2>1, <2>2
<1>9. QED
  BY <1>1, <1>6, <1>7, <1>8 DEF info, rest

-----------------------------------------------------------------------------
(* One callback.                                                           *)

\* The situation in which the callback about c works: queue is what is left
\* of the callbacks, and c itself is not announced in it any more.
Serving(c, queue) ==
  /\ c \in Conn
  /\ handle[c] \in Live
  /\ queue \in Seq(Change)
  /\ \A x \in About(queue) : handle[x] # "Unused"
  /\ ConnectsOnce(queue)
  /\ c \notin PendingConnects(queue)
  /\ PendingConnects(queue) \cap Registered = {}
  /\ \A x \in PendingConnects(queue) : handle[x] \in Live
  /\ \A x \in Conn \ {c} : handle[x] \in Live => x \in Registered \cup PendingConnects(queue)

\* The part of IInv about the sockets and the table.
Data ==
  /\ SocketsTypeOK
  /\ connections \in [Conn -> {"ABSENT"} \cup ConnectionState]
  /\ PollGroupRegistered
  /\ NoLeakedHandle
  /\ TableMatchesSockets
  /\ CallbacksAreNews

\* The mappings know every state the library reports, and tell them apart.
LEMMA MappingFacts ==
  /\ SteamState = DOMAIN CONNECTION_STATUS_MAPPINGS
  /\ \A state \in SteamState :
       /\ CONNECTION_STATUS_MAPPINGS[state] = "CONNECTING" => state = "Connecting"
       /\ CONNECTION_STATUS_MAPPINGS[state] \in LostStatus => state \in Lost
PROOF
  BY DEF SteamState, Live, Lost, CONNECTION_STATUS_MAPPINGS, LostStatus

\* A callback that reports CONNECTING, or that is about an entry of the table,
\* finds such a situation.
LEMMA TakenServing ==
  ASSUME IInv, pc # "kill", callbacks # <<>>,
         LET info == Head(callbacks) IN info.new = "Connecting" \/ info.conn \in Registered
  PROVE  Serving(Head(callbacks).conn, Tail(callbacks))
PROOF
<1> DEFINE info == Head(callbacks)
           rest == Tail(callbacks)
<1>1. callbacks \in Seq(Change)
  BY DEF IInv, TypeOK, SocketsTypeOK
<1>2. /\ info \in Change
      /\ rest \in Seq(Change)
      /\ About(rest) \subseteq About(callbacks)
      /\ PendingConnects(callbacks) =
           PendingConnects(rest) \cup (IF info.new = "Connecting" THEN {info.conn} ELSE {})
      /\ ConnectsOnce(rest)
      /\ info.new = "Connecting" => info.conn \notin PendingConnects(rest)
  BY <1>1, TakenFacts DEF IInv, CallbacksAreNews
<1> HIDE DEF info, rest
<1>3. info.conn \in Conn
  BY <1>2 DEF Change
<1>4. handle[info.conn] \in Live
  BY <1>2, <1>3 DEF IInv, CallbacksAreNews, TableMatchesSockets, info, Live
<1>5. info.conn \notin PendingConnects(rest)
  BY <1>2 DEF IInv, CallbacksAreNews, info
<1>6. QED
  BY <1>2, <1>3, <1>4, <1>5 DEF Serving, IInv, CallbacksAreNews, NoLeakedHandle, info, rest

\* closeClientConnection, from any such situation and with any table that
\* differs in the entry of c at most, leaves no entry, no handle and no poll
\* group membership of c behind.
LEMMA CloseKeepsData ==
  ASSUME Data, NEW c, NEW queue, Serving(c, queue),
         NEW table \in [Conn -> {"ABSENT"} \cup ConnectionState],
         \A x \in Conn \ {c} : table[x] = connections[x],
         closeClientConnection(table, c, queue), sent' \in [Conn -> Seq(Notice)]
  PROVE  Data' /\ Len(callbacks') = Len(queue) + 1
PROOF
<1>1. /\ handle' = [handle EXCEPT ![c] = "Destroyed"]
      /\ callbacks' = Posted(queue, c, handle[c], "None")
      /\ unread' = [unread EXCEPT ![c] = 0]
      /\ grouped' = grouped \ {c}
      /\ connections' = [[table EXCEPT ![c] = "CLOSED"] EXCEPT ![c] = "ABSENT"]
  BY DEF closeClientConnection, CloseConnection, removeClientConnection, closed
<1>2. c \in Conn /\ queue \in Seq(Change) /\ handle[c] \in SteamState /\ "None" \in SteamState
  BY DEF Serving, SteamState
<1>3. /\ callbacks' \in Seq(Change)
      /\ Len(callbacks') = Len(queue) + 1
      /\ About(callbacks') = About(queue) \cup {c}
      /\ PendingConnects(callbacks') = PendingConnects(queue)
      /\ ConnectsOnce(callbacks')
  BY <1>1, <1>2, PostedFacts DEF Serving
<1>4. /\ connections' \in [Conn -> {"ABSENT"} \cup ConnectionState]
      /\ connections'[c] = "ABSENT"
      /\ \A x \in Conn \ {c} : connections'[x] = connections[x]
  BY <1>1, <1>2 DEF ConnectionState
<1>5. Registered' = Registered \ {c}
  BY <1>4 DEF Registered
<1>6. /\ handle' \in [Conn -> {"Unused", "Destroyed"} \cup Live]
      /\ handle'[c] = "Destroyed"
      /\ \A x \in Conn \ {c} : handle'[x] = handle[x]
  BY <1>1, <1>2 DEF Data, SocketsTypeOK
<1>7. SocketsTypeOK'
  BY <1>1, <1>2, <1>3, <1>6, SocketsAssumption DEF Data, SocketsTypeOK
<1>8. PollGroupRegistered'
  BY <1>1, <1>5 DEF Data, PollGroupRegistered
<1>9. "Destroyed" \notin Live
  BY DEF Live, Lost
<1>10. NoLeakedHandle'
  BY <1>2, <1>3, <1>5, <1>6, <1>9 DEF Serving, NoLeakedHandle
<1>11. TableMatchesSockets'
  BY <1>2, <1>4, <1>5, <1>6 DEF Data, TableMatchesSockets, Registered
<1>12. CallbacksAreNews'
  <2>1. \A x \in About(callbacks') : handle'[x] # "Unused"
    <3>1. About(queue) \subseteq Conn
      BY <1>2, AboutConn
    <3>2. QED
      BY <1>3, <1>6, <3>1 DEF Serving
  <2>2. PendingConnects(queue) \subseteq Conn \ {c}
    BY <1>2, AboutConn DEF Serving
  <2>3. QED
    BY <1>3, <1>5, <1>6, <2>1, <2>2 DEF Serving, CallbacksAreNews
<1>13. QED
  BY <1>3, <1>4, <1>7, <1>8, <1>10, <1>11, <1>12 DEF Data

-----------------------------------------------------------------------------
(* The steps.                                                              *)

\* The other part of IInv.
Control ==
  /\ LineTypeOK
  /\ ServerTypeOK
  /\ pc \in Pc
  /\ serving \in Conn \cup {NoConn}
  /\ recipients \subseteq Conn
  /\ OnlyKnownAbort
  /\ ControlMatchesState

LEMMA Parts == (IInv <=> Data /\ Control) /\ (IInv' <=> Data' /\ Control')
PROOF
<1>1. IInv <=> Data /\ Control
  <2>1. OnlyKnownAbort => outcome \in Outcome
    BY DEF OnlyKnownAbort, Outcome
  <2>2. QED
    BY <2>1 DEF IInv, Data, Control, TypeOK, ServerTypeOK
<1>2. IInv' <=> Data' /\ Control'
  <2>1. OnlyKnownAbort' => outcome' \in Outcome
    BY DEF OnlyKnownAbort, Outcome
  <2>2. QED
    BY <2>1 DEF IInv, Data, Control, TypeOK, ServerTypeOK
<1>3. QED
  BY <1>1, <1>2

\* Steps that leave the sockets and the table alone.
LEMMA DataUnchanged ==
  ASSUME Data, UNCHANGED <<socketVars, connections>>, pc # "kill" \/ pc' = "kill"
  PROVE  Data'
PROOF
  BY DEF Data, socketVars, SocketsTypeOK, PollGroupRegistered, NoLeakedHandle, TableMatchesSockets,
         CallbacksAreNews, Registered

\* Steps of the network: a connection appears, is lost or gets a packet.
LEMMA NetworkKeepsIInv == IInv /\ Network => IInv'
PROOF
<1> SUFFICES ASSUME IInv, Network
             PROVE  IInv'
  OBVIOUS
<1>1. Data /\ Control
  BY Parts
<1>2. UNCHANGED <<connections, pc, Registered>>
  BY DEF Network, serverVars, Registered
<1>3. callbacks \in Seq(Change) /\ handle \in [Conn -> {"Unused", "Destroyed"} \cup Live]
  BY <1>1 DEF Data, SocketsTypeOK
<1>4. ASSUME NEW c \in Conn, NEW from \in SteamState, NEW to \in Live,
             handle' = [handle EXCEPT ![c] = to],
             callbacks' = Posted(callbacks, c, from, to),
             UNCHANGED <<unread, grouped, sent>>,
             \/ handle[c] = "Unused" /\ to = "Connecting"
             \/ handle[c] \in {"Connecting", "Connected"} /\ to \in Lost
      PROVE  Data' /\ Len(callbacks') = Len(callbacks) + 1
  <2>1. to \in SteamState /\ (to \in Lost => to # "Connecting") /\ "Unused" \notin Live /\ Lost \subseteq Live
    BY DEF SteamState, Live, Lost
  <2>2. /\ callbacks' \in Seq(Change)
        /\ Len(callbacks') = Len(callbacks) + 1
        /\ About(callbacks') = About(callbacks) \cup {c}
        /\ to # "Connecting" => PendingConnects(callbacks') = PendingConnects(callbacks)
        /\ to = "Connecting" => PendingConnects(callbacks') = PendingConnects(callbacks) \cup {c}
    <3> DEFINE longer == Posted(callbacks, c, from, to)
    <3>1. /\ longer \in Seq(Change)
          /\ Len(longer) = Len(callbacks) + 1
          /\ About(longer) = About(callbacks) \cup {c}
          /\ to # "Connecting" => PendingConnects(longer) = PendingConnects(callbacks)
          /\ to = "Connecting" => PendingConnects(longer) = PendingConnects(callbacks) \cup {c}
      BY <1>3, <2>1, PostedFacts
    <3>2. QED
      BY <1>4, <3>1
  <2>3. ConnectsOnce(callbacks')
    <3>1. to # "Connecting" \/ c \notin About(callbacks)
      BY <1>1, <1>4, <2>1 DEF Data, CallbacksAreNews
    <3>2. QED
      BY <1>1, <1>3, <1>4, <2>1, <3>1, PostedFacts DEF Data, CallbacksAreNews
  <2>4. /\ handle' \in [Conn -> {"Unused", "Destroyed"} \cup Live]
        /\ handle'[c] = to
        /\ \A x \in Conn \ {c} : handle'[x] = handle[x]
    BY <1>3, <1>4
  <2>5. SocketsTypeOK'
    BY <1>1, <1>4, <2>2, <2>4 DEF Data, SocketsTypeOK
  <2>6. PollGroupRegistered'
    BY <1>1, <1>2, <1>4 DEF Data, PollGroupRegistered
  <2>7. NoLeakedHandle'
    BY <1>1, <1>2, <1>4, <2>2, <2>4, <2>1 DEF Data, NoLeakedHandle, Live
  <2>8. TableMatchesSockets'
    BY <1>1, <1>2, <1>4, <2>1, <2>4 DEF Data, TableMatchesSockets, Registered, Lost
  <2>9. CallbacksAreNews'
    <3>1. About(callbacks) \subseteq Conn /\ PendingConnects(callbacks) \subseteq Conn
      BY <1>3, AboutConn
    <3>2. \A x \in About(callbacks') : handle'[x] # "Unused"
      BY <1>1, <2>1, <2>2, <2>4, <3>1 DEF Data, CallbacksAreNews
    <3>3. PendingConnects(callbacks') \cap Registered' = {}
      BY <1>1, <1>2, <1>4, <2>1, <2>2 DEF Data, CallbacksAreNews, TableMatchesSockets, Lost
    <3>4. pc' # "kill" => \A x \in PendingConnects(callbacks') : handle'[x] \in Live
      BY <1>1, <1>2, <2>2, <2>4, <3>1 DEF Data, CallbacksAreNews
    <3>5. QED
      BY <2>3, <3>2, <3>3, <3>4 DEF CallbacksAreNews
  <2>10. QED
    BY <1>1, <1>2, <2>2, <2>5, <2>6, <2>7, <2>8, <2>9 DEF Data
<1>5. Data' /\ Len(callbacks') >= Len(callbacks)
  <2>1. Len(callbacks) \in Nat
    BY <1>3, LenProperties
  <2>2. ASSUME NEW c \in Conn, PeerConnects(c)
        PROVE  Data' /\ Len(callbacks') >= Len(callbacks)
    <3>1. "Connecting" \in Live /\ "None" \in SteamState
      BY DEF Live, SteamState
    <3>2. Data' /\ Len(callbacks') = Len(callbacks) + 1
      BY ONLY <1>4, <2>2, <3>1 DEF PeerConnects
    <3>3. QED
      BY <2>1, <3>2
  <2>3. ASSUME NEW c \in Conn, NEW how \in Lost, PeerIsLost(c, how)
        PROVE  Data' /\ Len(callbacks') >= Len(callbacks)
    <3>1. how \in Live /\ {"Connecting", "Connected"} \subseteq SteamState
      BY DEF Live, SteamState
    <3>2. Data' /\ Len(callbacks') = Len(callbacks) + 1
      BY ONLY <1>4, <2>3, <3>1 DEF PeerIsLost
    <3>3. QED
      BY <2>1, <3>2
  <2>4. CASE \E c \in Conn : PeerSends(c)
    <3>1. SocketsTypeOK' /\ UNCHANGED <<handle, callbacks, grouped>>
      BY <1>1, <2>4, SocketsAssumption DEF Data, SocketsTypeOK, PeerSends
    <3>2. QED
      BY <1>1, <1>2, <2>1, <3>1 DEF Data, PollGroupRegistered, NoLeakedHandle, TableMatchesSockets,
                                CallbacksAreNews
  <2>5. QED
    BY <2>2, <2>3, <2>4 DEF Network
<1>6. Control'
  <2>1. UNCHANGED <<lineVars, serverVars, packet_index, pc, batch, outcome, serving, recipients>>
    BY DEF Network
  <2>2. Len(callbacks) \in Nat /\ Len(callbacks') \in Nat
    BY <1>3, <1>5, LenProperties DEF Data, SocketsTypeOK
  <2>3. QED
    BY <1>1, <1>2, <1>5, <2>1, <2>2
       DEF Control, LineTypeOK, ServerTypeOK, OnlyKnownAbort, ControlMatchesState, InsideCallback,
           lineVars, serverVars
<1>7. QED
  BY <1>5, <1>6, Parts

\* The poll thread touches input_queue, spent and outcome only.
LEMMA PollThreadKeepsIInv == IInv /\ PollThread => IInv'
PROOF
<1> SUFFICES ASSUME IInv, PollThread
             PROVE  IInv'
  OBVIOUS
<1>1. UNCHANGED <<socketVars, serverVars, packet_index, pc, batch, serving, recipients>>
  BY DEF PollThread
<1>2. Data /\ Control
  BY Parts
<1>3. Data'
  BY <1>1, <1>2 DEF Data, socketVars, serverVars, SocketsTypeOK, PollGroupRegistered, NoLeakedHandle,
                    TableMatchesSockets, CallbacksAreNews, Registered
<1>4. LineTypeOK' /\ OnlyKnownAbort'
  <2>1. CASE (\E line \in Line : addInput(line)) /\ UNCHANGED outcome
    BY <1>2, <2>1, AppendProperties DEF Control, LineTypeOK, OnlyKnownAbort, addInput
  <2>2. CASE FutureError
    BY <1>2, <2>2 DEF Control, LineTypeOK, OnlyKnownAbort, FutureError, lineVars
  <2>3. QED
    BY <2>1, <2>2 DEF PollThread
<1>5. Control'
  BY <1>1, <1>2, <1>4 DEF Control, ServerTypeOK, ControlMatchesState, InsideCallback, Registered,
                          socketVars, serverVars
<1>6. QED
  BY <1>3, <1>5, Parts

-----------------------------------------------------------------------------
(* The callback.                                                           *)

\* Accepting a connection that is still CONNECTING turns its announcement into
\* an entry.
LEMMA AcceptKeepsData ==
  ASSUME Data, NEW c, NEW queue, Serving(c, queue), c \notin Registered, CanAccept(c),
         AcceptConnection(c, queue), UNCHANGED sent,
         connections' = accepted(createClientConnection(connections, c), c)
  PROVE  Data' /\ Len(callbacks') = Len(queue) + 1 /\ c \in Registered'
PROOF
<1>1. /\ handle' = [handle EXCEPT ![c] = "Connected"]
      /\ callbacks' = Posted(queue, c, "Connecting", "Connected")
      /\ UNCHANGED <<unread, grouped>>
  BY DEF AcceptConnection
<1>2. c \in Conn /\ queue \in Seq(Change) /\ "Connecting" \in SteamState /\ "Connected" \in SteamState
  BY DEF Serving, SteamState, Live
<1>3. /\ callbacks' \in Seq(Change)
      /\ Len(callbacks') = Len(queue) + 1
      /\ About(callbacks') = About(queue) \cup {c}
      /\ PendingConnects(callbacks') = PendingConnects(queue)
      /\ ConnectsOnce(callbacks')
  <2> DEFINE longer == Posted(queue, c, "Connecting", "Connected")
  <2>1. /\ longer \in Seq(Change)
        /\ Len(longer) = Len(queue) + 1
        /\ About(longer) = About(queue) \cup {c}
        /\ PendingConnects(longer) = PendingConnects(queue)
        /\ ConnectsOnce(queue) => ConnectsOnce(longer)
    BY <1>2, PostedFacts
  <2>2. QED
    BY <1>1, <2>1 DEF Serving
<1>4. /\ connections' \in [Conn -> {"ABSENT"} \cup ConnectionState]
      /\ connections'[c] = "CONNECTED"
      /\ \A x \in Conn \ {c} : connections'[x] = connections[x]
  BY <1>2 DEF ConnectionState, accepted, createClientConnection, Data
<1>5. Registered' = Registered \cup {c}
  BY <1>2, <1>4 DEF Registered
<1>6. /\ handle' \in [Conn -> {"Unused", "Destroyed"} \cup Live]
      /\ handle'[c] = "Connected"
      /\ \A x \in Conn \ {c} : handle'[x] = handle[x]
  BY <1>1, <1>2 DEF Data, SocketsTypeOK, Live
<1>7. SocketsTypeOK'
  BY <1>1, <1>3, <1>6 DEF Data, SocketsTypeOK
<1>8. PollGroupRegistered'
  BY <1>1, <1>5 DEF Data, PollGroupRegistered
<1>9. NoLeakedHandle'
  BY <1>3, <1>5, <1>6 DEF Serving, NoLeakedHandle
<1>10. TableMatchesSockets'
  BY <1>2, <1>4, <1>5, <1>6 DEF Data, TableMatchesSockets, Registered
<1>11. CallbacksAreNews'
  <2>1. About(queue) \subseteq Conn /\ PendingConnects(queue) \subseteq Conn \ {c}
    BY <1>2, AboutConn DEF Serving
  <2>2. QED
    BY <1>3, <1>5, <1>6, <2>1 DEF Serving, CallbacksAreNews
<1>12. QED
  BY <1>3, <1>4, <1>5, <1>7, <1>8, <1>9, <1>10, <1>11 DEF Data

\* Sending changes what was sent, and keeps its type.
LEMMA SendKeepsData ==
  ASSUME Data, NEW c, NEW notice \in Notice, SendMessageToConnection(c, notice),
         UNCHANGED <<handle, callbacks, unread, grouped, connections>>,
         pc # "kill" \/ pc' = "kill"
  PROVE  Data'
PROOF
<1>1. sent' \in [Conn -> Seq(Notice)]
  <2>1. \A x \in Conn : sent[x] \in Seq(Notice) /\ Append(sent[x], notice) \in Seq(Notice)
    BY AppendProperties DEF Data, SocketsTypeOK
  <2>2. QED
    BY <2>1 DEF SendMessageToConnection
<1>2. QED
  BY <1>1 DEF Data, SocketsTypeOK, PollGroupRegistered, NoLeakedHandle, TableMatchesSockets,
              CallbacksAreNews, Registered

\* What is left of Control when a step stays inside RunCallbacks.
LEMMA CallbackKeepsControl ==
  ASSUME Control, staysInCallbacks,
         connections' \in [Conn -> {"ABSENT"} \cup ConnectionState],
         batch' \in Nat, batch' <= Len(callbacks'),
         pc' \in {"RunCallbacks", "setPollGroup", "welcome", "announce", "farewell"},
         serving' \in Conn \cup {NoConn},
         OnlyKnownAbort',
         InsideCallback' => serving' \in Registered',
         recipients' \subseteq Registered' \ {serving'},
         pc' \notin {"announce", "farewell"} => recipients' = {}
  PROVE  Control'
PROOF
  BY DEF Control, staysInCallbacks, LineTypeOK, lineVars, ServerTypeOK, Pc, ControlMatchesState, Registered

\* One callback, whatever it reports.
LEMMA DispatchKeepsIInv == IInv /\ Dispatch => IInv'
PROOF
<1> SUFFICES ASSUME IInv, Dispatch
             PROVE  IInv'
  OBVIOUS
<1> DEFINE info == Head(callbacks)
           rest == Tail(callbacks)
           status == CONNECTION_STATUS_MAPPINGS
<1>1. Data /\ Control
  BY Parts
<1>2. /\ pc = "RunCallbacks"
      /\ batch > 0
      /\ batch' = batch - 1
      /\ staysInCallbacks
  BY DEF Dispatch
<1>3. /\ callbacks \in Seq(Change)
      /\ batch \in Nat
      /\ batch <= Len(callbacks)
      /\ callbacks # <<>>
      /\ recipients = {}
  BY <1>1, <1>2, EmptySeq DEF Data, SocketsTypeOK, Control, ServerTypeOK, ControlMatchesState
<1>4. /\ info \in Change
      /\ rest \in Seq(Change)
      /\ Len(rest) = Len(callbacks) - 1
      /\ About(rest) \subseteq About(callbacks)
      /\ PendingConnects(callbacks) =
           PendingConnects(rest) \cup (IF info.new = "Connecting" THEN {info.conn} ELSE {})
      /\ ConnectsOnce(rest)
  BY <1>1, <1>3, TakenFacts DEF Data, CallbacksAreNews
<1>5. Len(callbacks) \in Nat /\ Len(rest) \in Nat /\ batch' \in Nat /\ batch' <= Len(rest)
  BY <1>2, <1>3, <1>4, LenProperties
<1>6. info.conn \in Conn /\ info.old \in SteamState /\ info.new \in SteamState
  BY <1>4 DEF Change
<1>7. ASSUME info.new = "Connecting" \/ info.conn \in Registered
      PROVE  Serving(info.conn, rest)
  BY <1>2, <1>3, <1>7, TakenServing
<1>8. connections \in [Conn -> {"ABSENT"} \cup ConnectionState]
  BY <1>1 DEF Data
<1>9. /\ {info.old, info.new} \subseteq DOMAIN status
      /\ status[info.new] = "CONNECTING" => info.new = "Connecting"
      /\ status[info.new] \in LostStatus => info.new # "Connecting"
      /\ info.new = "Connecting" => status[info.new] = "CONNECTING"
  BY <1>6, MappingFacts DEF Lost, SteamState, Live, CONNECTION_STATUS_MAPPINGS
<1> HIDE DEF info, rest, status
<1>10. CASE status[info.new] = "CONNECTING" /\ OnConnecting(info.conn, rest)
  <2>1. Serving(info.conn, rest)
    BY <1>7, <1>9, <1>10
  <2>2. info.conn \notin Registered
    <3>1. info.conn \in PendingConnects(callbacks)
      BY <1>4, <1>9, <1>10
    <3>2. QED
      BY <1>1, <3>1 DEF Data, CallbacksAreNews
  <2> DEFINE table == createClientConnection(connections, info.conn)
  <2>3. /\ serving' = info.conn
        /\ UNCHANGED <<sent, outcome, recipients>>
        /\ IF CanAccept(info.conn)
           THEN /\ AcceptConnection(info.conn, rest)
                /\ connections' = accepted(table, info.conn)
                /\ pc' = "setPollGroup"
           ELSE closeClientConnection(table, info.conn, rest) /\ UNCHANGED pc
    BY <1>10, <2>2 DEF OnConnecting
  <2>4. /\ table \in [Conn -> {"ABSENT"} \cup ConnectionState]
        /\ \A x \in Conn \ {info.conn} : table[x] = connections[x]
    BY <1>6, <1>8 DEF createClientConnection, ConnectionState
  <2>5. Data' /\ Len(callbacks') = Len(rest) + 1 /\ (CanAccept(info.conn) => info.conn \in Registered')
    <3>1. CASE CanAccept(info.conn)
      BY <1>1, <2>1, <2>2, <2>3, <3>1, AcceptKeepsData
    <3>2. CASE ~CanAccept(info.conn)
      <4> HIDE DEF table
      <4>1. closeClientConnection(table, info.conn, rest) /\ sent' \in [Conn -> Seq(Notice)]
        BY <1>1, <2>3, <3>2 DEF Data, SocketsTypeOK
      <4>2. QED
        BY <1>1, <2>1, <2>4, <3>2, <4>1, CloseKeepsData
    <3>3. QED
      BY <3>1, <3>2
  <2>6. Control'
    <3>1. InsideCallback' => serving' \in Registered'
      BY <1>2, <2>3, <2>5 DEF InsideCallback
    <3>2. OnlyKnownAbort'
      BY <1>1, <2>3 DEF Control, OnlyKnownAbort
    <3>3. pc' \in {"RunCallbacks", "setPollGroup"}
      BY <1>2, <2>3
    <3>4. batch' <= Len(callbacks')
      BY <1>5, <2>5
    <3>5. connections' \in [Conn -> {"ABSENT"} \cup ConnectionState]
      BY <2>5 DEF Data
    <3>6. QED
      BY <1>1, <1>2, <1>3, <1>5, <1>6, <2>3, <3>1, <3>2, <3>3, <3>4, <3>5, CallbackKeepsControl
  <2>7. QED
    BY <2>5, <2>6, Parts
<1>11. CASE status[info.new] \in LostStatus /\ OnLost(info.conn, status[info.old], rest)
  <2>1. /\ serving' = info.conn /\ callbacks' = rest
        /\ UNCHANGED <<handle, unread, grouped, sent, connections, Registered>>
    BY <1>11 DEF OnLost, Registered
  <2>2. PendingConnects(rest) = PendingConnects(callbacks)
    BY <1>4, <1>9, <1>11
  <2>3. /\ pc' \in {"RunCallbacks", "farewell"}
        /\ OnlyKnownAbort'
        /\ pc' = "farewell" => info.conn \in Registered
        /\ pc' # "farewell" => recipients' = {}
        /\ recipients' \subseteq Registered \ {info.conn}
    <3>1. connectedExcept(info.conn) \subseteq Registered \ {info.conn}
      BY DEF connectedExcept, Registered
    <3>2. CASE info.conn \notin Registered
      <4>1. outcome' = "notRegistered" /\ UNCHANGED <<pc, recipients>>
        BY <1>11, <3>2 DEF OnLost
      <4>2. QED
        BY <1>2, <1>3, <4>1 DEF OnlyKnownAbort
    <3>3. CASE info.conn \in Registered
      <4>1. /\ recipients' \in {connectedExcept(info.conn), {}}
            /\ pc' = "farewell"
            /\ UNCHANGED outcome
        BY <1>11, <3>3 DEF OnLost
      <4>2. QED
        BY <1>1, <3>1, <3>3, <4>1 DEF Control, OnlyKnownAbort
    <3>4. QED
      BY <3>2, <3>3
  <2>4. Data'
    BY <1>1, <1>2, <1>4, <2>1, <2>2, <2>3
       DEF Data, SocketsTypeOK, PollGroupRegistered, NoLeakedHandle, TableMatchesSockets,
           CallbacksAreNews
  <2>5. Control'
    <3>1. InsideCallback' => serving' \in Registered'
      BY <2>1, <2>3 DEF InsideCallback
    <3>2. pc' \notin {"announce", "farewell"} => recipients' = {}
      BY <2>3
    <3>3. QED
      BY <1>1, <1>2, <1>5, <1>6, <1>8, <2>1, <2>3, <3>1, <3>2, CallbackKeepsControl
  <2>6. QED
    BY <2>4, <2>5, Parts
<1>12. CASE status[info.new] \notin LostStatus \cup {"CONNECTING"} /\ Ignored(rest, outcome)
  <2>1. /\ callbacks' = rest
        /\ UNCHANGED <<outcome, handle, unread, grouped, sent, connections, pc, serving, recipients>>
    BY <1>12 DEF Ignored
  <2>2. PendingConnects(rest) = PendingConnects(callbacks)
    BY <1>4, <1>9, <1>12
  <2>3. Data'
    BY <1>1, <1>2, <1>4, <2>1, <2>2
       DEF Data, SocketsTypeOK, PollGroupRegistered, NoLeakedHandle, TableMatchesSockets,
           CallbacksAreNews, Registered
  <2>4. Control'
    <3>1. OnlyKnownAbort' /\ ~InsideCallback' /\ serving' \in Conn \cup {NoConn}
      BY <1>1, <1>2, <2>1 DEF Control, OnlyKnownAbort, InsideCallback
    <3>2. QED
      BY <1>1, <1>2, <1>3, <1>5, <1>8, <2>1, <3>1, CallbackKeepsControl
  <2>5. QED
    BY <2>3, <2>4, Parts
<1>13. QED
  BY <1>9, <1>10, <1>11, <1>12 DEF Dispatch, info, rest, status

\* A turn of a broadcast: one packet, and one recipient less.
LEMMA TurnKeepsData ==
  ASSUME Data, serving \in Conn, pc # "kill", NEW kind \in {"joined", "left"}, sendToNext(kind)
  PROVE  /\ Data'
         /\ recipients' \subseteq recipients
         /\ UNCHANGED <<handle, callbacks, connections, pc>>
PROOF
<1>1. PICK r \in recipients : /\ SendMessageToConnection(r, [kind |-> kind, who |-> serving])
                              /\ recipients' = recipients \ {r}
  BY DEF sendToNext, sendReliablePacket
<1>2. UNCHANGED <<handle, callbacks, unread, grouped, connections, pc>>
  BY DEF sendToNext
<1>3. [kind |-> kind, who |-> serving] \in Notice
  BY DEF Notice
<1>4. QED
  BY <1>1, <1>2, <1>3, SendKeepsData

\* The rest of the callback: serving, which has its entry, is put into the poll
\* group, or dropped, and greeted; or it is seen off and dropped.
LEMMA AcceptedKeepsIInv == IInv /\ (SetPollGroup \/ Welcome \/ Announce \/ Farewell) => IInv'
PROOF
<1> SUFFICES ASSUME IInv, SetPollGroup \/ Welcome \/ Announce \/ Farewell
             PROVE  IInv'
  OBVIOUS
<1>1. Data /\ Control
  BY Parts
<1>2. /\ InsideCallback
      /\ staysInCallbacks
      /\ UNCHANGED <<batch, outcome, serving>>
  BY DEF SetPollGroup, Welcome, Announce, Farewell, InsideCallback
<1>3. /\ serving \in Registered
      /\ serving \in Conn
      /\ batch \in Nat
      /\ batch <= Len(callbacks)
      /\ callbacks \in Seq(Change)
      /\ Len(callbacks) \in Nat
      /\ pc # "kill"
      /\ OnlyKnownAbort'
      /\ connections \in [Conn -> {"ABSENT"} \cup ConnectionState]
      /\ recipients \subseteq Registered \ {serving}
      /\ pc \in {"setPollGroup", "welcome"} => recipients = {}
      /\ Registered' = {c \in Conn : connections'[c] # "ABSENT"}
  BY <1>1, <1>2, LenProperties
     DEF Control, ControlMatchesState, ServerTypeOK, Registered, Data, SocketsTypeOK,
         OnlyKnownAbort, InsideCallback
<1>4. SUFFICES /\ Data'
               /\ Len(callbacks') >= Len(callbacks) /\ Len(callbacks') \in Nat
               /\ pc' \in {"RunCallbacks", "welcome", "announce", "farewell"}
               /\ pc' # "RunCallbacks" => serving \in Registered'
               /\ recipients' \subseteq Registered' \ {serving}
               /\ pc' \notin {"announce", "farewell"} => recipients' = {}
  <2>1. InsideCallback' => serving' \in Registered'
    BY <1>2, <1>4 DEF InsideCallback
  <2>2. connections' \in [Conn -> {"ABSENT"} \cup ConnectionState]
    BY <1>4 DEF Data
  <2>3. batch' \in Nat /\ batch' <= Len(callbacks') /\ serving' \in Conn \cup {NoConn}
    BY <1>2, <1>3, <1>4
  <2>4. pc' \in {"RunCallbacks", "setPollGroup", "welcome", "announce", "farewell"}
    BY <1>4
  <2>5. recipients' \subseteq Registered' \ {serving'}
    BY <1>2, <1>4
  <2>6. Control'
    BY ONLY <1>1, <1>2, <1>3, <1>4, <2>1, <2>2, <2>3, <2>4, <2>5, CallbackKeepsControl
  <2>7. QED
    BY <1>4, <2>6, Parts
<1>5. ASSUME closeClientConnection(connections, serving, callbacks), pc' = "RunCallbacks",
             UNCHANGED <<sent, recipients>>, recipients = {}
      PROVE  /\ Data'
             /\ Len(callbacks') >= Len(callbacks) /\ Len(callbacks') \in Nat
             /\ recipients' = {} /\ pc' = "RunCallbacks"
  <2>1. sent' \in [Conn -> Seq(Notice)]
    BY <1>1, <1>5 DEF Data, SocketsTypeOK
  <2>2. Serving(serving, callbacks)
    BY <1>1, <1>3 DEF Serving, Data, TableMatchesSockets, CallbacksAreNews, NoLeakedHandle, Live
  <2>3. Data' /\ Len(callbacks') = Len(callbacks) + 1
    BY <1>1, <1>3, <1>5, <2>1, <2>2, CloseKeepsData
  <2>4. QED
    BY <1>3, <1>5, <2>3
<1>6. ASSUME NEW kind \in {"joined", "left"}, sendToNext(kind), pc \in {"announce", "farewell"}
      PROVE  /\ Data'
             /\ Len(callbacks') >= Len(callbacks) /\ Len(callbacks') \in Nat
             /\ pc' \in {"announce", "farewell"}
             /\ serving \in Registered' /\ recipients' \subseteq Registered' \ {serving}
  <2>1. Data' /\ recipients' \subseteq recipients /\ UNCHANGED <<callbacks, connections, pc>>
    BY <1>1, <1>3, <1>6, TurnKeepsData
  <2>2. Registered' = Registered
    BY <2>1 DEF Registered
  <2>3. QED
    BY <1>3, <1>6, <2>1, <2>2
<1>7. CASE SetPollGroup
  <2>1. CASE SetConnectionPollGroup(serving) /\ pc' = "welcome" /\ UNCHANGED <<connections, sent, recipients>>
    <3>1. grouped' = grouped \cup {serving} /\ UNCHANGED <<handle, callbacks, unread, Registered>>
      BY <2>1 DEF SetConnectionPollGroup, Registered
    <3>2. Data'
      BY <1>1, <1>3, <2>1, <3>1
         DEF Data, SocketsTypeOK, PollGroupRegistered, NoLeakedHandle, TableMatchesSockets,
             CallbacksAreNews
    <3>3. recipients' = {}
      BY <1>3, <1>7, <2>1 DEF SetPollGroup
    <3>4. QED
      BY <1>3, <2>1, <3>1, <3>2, <3>3
  <2>2. CASE /\ closeClientConnection(connections, serving, callbacks)
             /\ pc' = "RunCallbacks"
             /\ UNCHANGED <<sent, recipients>>
    BY <1>3, <1>5, <1>7, <2>2 DEF SetPollGroup
  <2>3. QED
    BY <1>7, <2>1, <2>2 DEF SetPollGroup
<1>8. CASE Welcome
  <2>1. [kind |-> "welcome", who |-> serving] \in Notice
    BY <1>3 DEF Notice
  <2>2. Data'
    BY <1>1, <1>3, <1>8, <2>1, SendKeepsData DEF Welcome, sendReliablePacket
  <2>3. Registered' = Registered /\ UNCHANGED callbacks /\ pc' = "announce"
    BY <1>8 DEF Welcome, Registered
  <2>4. recipients' \subseteq Registered \ {serving}
    BY <1>8 DEF Welcome, connectedExcept, Registered
  <2>5. QED
    BY <1>3, <2>2, <2>3, <2>4
<1>9. CASE Announce
  <2>1. CASE sendToNext("joined")
    BY <1>6, <1>9, <2>1 DEF Announce
  <2>2. CASE recipients = {} /\ pc' = "RunCallbacks" /\ UNCHANGED <<socketVars, connections, recipients>>
    <3>1. Data' /\ UNCHANGED callbacks
      BY <1>1, <1>3, <2>2, DataUnchanged DEF socketVars
    <3>2. QED
      BY <1>3, <2>2, <3>1
  <2>3. QED
    BY <1>9, <2>1, <2>2 DEF Announce
<1>10. CASE Farewell
  <2>1. CASE sendToNext("left")
    BY <1>6, <1>10, <2>1 DEF Farewell
  <2>2. CASE /\ recipients = {}
             /\ closeClientConnection(connections, serving, callbacks)
             /\ pc' = "RunCallbacks"
             /\ UNCHANGED <<sent, recipients>>
    BY <1>5, <2>2
  <2>3. QED
    BY <1>10, <2>1, <2>2 DEF Farewell
<1>11. QED
  BY <1>7, <1>8, <1>9, <1>10

-----------------------------------------------------------------------------
(* main and updateConnection.                                              *)

LEMMA MainLoopKeepsIInv == IInv /\ (OpenConnection \/ UpdateConnection \/ ReturnFromMain) => IInv'
PROOF
<1> SUFFICES ASSUME IInv, OpenConnection \/ UpdateConnection \/ ReturnFromMain
             PROVE  IInv'
  OBVIOUS
<1>1. Data /\ Control
  BY Parts
<1>2. Data'
  BY <1>1, DataUnchanged
     DEF OpenConnection, openConnection, UpdateConnection, updateConnection, ReturnFromMain, serverVars
<1>3. UNCHANGED Registered
  BY DEF OpenConnection, openConnection, UpdateConnection, updateConnection, ReturnFromMain,
         serverVars, Registered
<1>4. CASE OpenConnection
  <2>1. ServerTypeOK' /\ (running' => poll_group' = "valid")
    BY <1>1, <1>4 DEF Control, OpenConnection, openConnection, opened, ServerTypeOK, SocketHandle
  <2>2. QED
    BY <1>1, <1>2, <1>3, <1>4, <2>1, Parts
       DEF Control, OpenConnection, LineTypeOK, lineVars, socketVars, Pc, OnlyKnownAbort,
           ControlMatchesState, InsideCallback
<1>5. CASE UpdateConnection
  <2>1. ServerTypeOK'
    BY <1>1, <1>5, ServerAssumption
       DEF Control, UpdateConnection, updateConnection, ServerTypeOK, serverVars
  <2>2. QED
    BY <1>1, <1>2, <1>3, <1>5, <2>1, Parts
       DEF Control, UpdateConnection, updateConnection, LineTypeOK, lineVars, socketVars, serverVars,
           Pc, OnlyKnownAbort, ControlMatchesState, InsideCallback
<1>6. CASE ReturnFromMain
  BY <1>1, <1>2, <1>3, <1>6, Parts
     DEF Control, ReturnFromMain, LineTypeOK, ServerTypeOK, lineVars, socketVars, serverVars,
         OnlyKnownAbort, ControlMatchesState, InsideCallback
<1>7. QED
  BY <1>4, <1>5, <1>6

\* The callbacks that closing everything posts announce no connection.
LEMMA ClosingsAnnounceNothing ==
  ASSUME NEW S \in SUBSET Conn, \A c \in S : handle[c] \in Live,
         NEW order \in SetToSeqs(S), NEW queue \in Seq(Change)
  PROVE  LET longer == queue \o Closings(order) IN
         /\ About(longer) \subseteq About(queue) \cup S
         /\ PendingConnects(longer) = PendingConnects(queue)
         /\ ConnectsOnce(queue) => ConnectsOnce(longer)
PROOF
<1> DEFINE longer == queue \o Closings(order)
<1>1. /\ DOMAIN queue \subseteq DOMAIN longer
      /\ \A i \in DOMAIN queue : longer[i] = queue[i]
      /\ \A i \in DOMAIN longer \ DOMAIN queue : longer[i].conn \in S /\ longer[i].new = "None"
  BY ClosingsFacts, HandlesAssumption
<1> HIDE DEF longer
<1>2. About(longer) \subseteq About(queue) \cup S
  BY <1>1 DEF About
<1>3. PendingConnects(longer) = PendingConnects(queue)
  BY <1>1 DEF PendingConnects
<1>4. ConnectsOnce(queue) => ConnectsOnce(longer)
  BY <1>1 DEF ConnectsOnce
<1>5. QED
  BY <1>2, <1>3, <1>4 DEF longer

\* Closing the server takes every entry and every live handle with it.
LEMMA CloseServerKeepsIInv == IInv /\ CloseServer => IInv'
PROOF
<1> SUFFICES ASSUME IInv, CloseServer
             PROVE  IInv'
  OBVIOUS
<1>1. Data /\ Control
  BY Parts
<1> DEFINE S == {c \in Conn : handle[c] \in Live}
<1>2. /\ connections' = [c \in Conn |-> "ABSENT"]
      /\ \A c \in Conn : handle'[c] = IF handle[c] \in Live THEN "Destroyed" ELSE handle[c]
      /\ grouped' = {}
      /\ pc' = "kill"
      /\ CloseAll(Conn)
      /\ UNCHANGED <<lineVars, batch, outcome, serving, recipients>>
  <2>1. Registered \cup Conn = Conn
    BY DEF Registered
  <2>2. QED
    BY <2>1 DEF CloseServer, closeConnection, CloseAll
<1>3. PICK order \in SetToSeqs(S) : callbacks' = callbacks \o Closings(order)
  BY <1>2 DEF CloseAll
<1>4. callbacks \in Seq(Change) /\ About(callbacks) \subseteq Conn
  BY <1>1, AboutConn DEF Data, SocketsTypeOK
<1>5. /\ About(callbacks') \subseteq About(callbacks) \cup S
      /\ PendingConnects(callbacks') = PendingConnects(callbacks)
      /\ ConnectsOnce(callbacks) => ConnectsOnce(callbacks')
      /\ Len(callbacks) \in Nat /\ Len(callbacks') \in Nat /\ Len(callbacks) <= Len(callbacks')
  BY <1>3, <1>4, ClosingsAnnounceNothing, ClosingsFacts, HandlesAssumption
<1>6. Registered' = {}
  BY <1>2 DEF Registered
<1>7. SocketsTypeOK'
  BY <1>1, <1>2, CloseAllType, HandlesAssumption DEF Data
<1>8. NoLeakedHandle'
  BY <1>2 DEF NoLeakedHandle, Live, Lost
<1>9. CallbacksAreNews'
  <2>1. \A c \in About(callbacks) : handle[c] # "Unused"
    BY <1>1 DEF Data, CallbacksAreNews
  <2>2. \A c \in About(callbacks') : handle'[c] # "Unused"
    BY <1>2, <1>4, <1>5, <2>1
  <2>3. QED
    BY <1>1, <1>2, <1>5, <1>6, <2>2 DEF Data, CallbacksAreNews
<1>10. Data'
  BY <1>2, <1>6, <1>7, <1>8, <1>9 DEF Data, PollGroupRegistered, TableMatchesSockets
<1>11. ServerTypeOK' /\ ~running'
  BY <1>1, <1>2 DEF Control, CloseServer, closeConnection, ServerTypeOK, SocketHandle
<1>12. recipients = {}
  BY <1>1 DEF Control, ControlMatchesState, CloseServer
<1>13. batch \in Nat /\ batch <= Len(callbacks')
  BY <1>1, <1>5 DEF Control, ServerTypeOK, ControlMatchesState
<1>14. Control'
  BY <1>1, <1>2, <1>11, <1>12, <1>13
     DEF Control, LineTypeOK, lineVars, Pc, OnlyKnownAbort, ControlMatchesState, InsideCallback
<1>15. QED
  BY <1>10, <1>14, Parts

\* The packets of one turn: the poll group is valid, and a packet it returns is
\* for a connection in the table.
LEMMA PacketKeepsIInv == IInv /\ processPendingPacket /\ UNCHANGED <<serving, recipients>> => IInv'
PROOF
<1> SUFFICES ASSUME IInv, processPendingPacket, UNCHANGED <<serving, recipients>>
             PROVE  IInv'
  OBVIOUS
<1>1. Data /\ Control
  BY Parts
<1>2. /\ pc = "processPendingPackets" /\ morePackets
      /\ UNCHANGED <<lineVars, serverVars, pc, batch, serving, recipients>>
  BY DEF processPendingPacket
<1>3. poll_group = "valid"
  BY <1>1, <1>2 DEF Control, ControlMatchesState
<1>4. PICK c \in Readable :
        /\ ReceiveMessage(c)
        /\ outcome' = IF c \in Registered THEN outcome ELSE "unregisteredPacket"
        /\ packet_index' = nextIndex(packet_index)
  BY <1>3 DEF processPendingPacket
<1>5. c \in Conn /\ unread[c] > 0 /\ c \in Registered
  BY <1>1 DEF Readable, Data, SocketsTypeOK, PollGroupRegistered
<1>6. SocketsTypeOK' /\ UNCHANGED <<handle, callbacks, grouped, Registered>>
  BY <1>1, <1>2, <1>4, <1>5, SocketsAssumption
     DEF Data, SocketsTypeOK, ReceiveMessage, serverVars, Registered
<1>7. Data'
  BY <1>1, <1>2, <1>6
     DEF Data, PollGroupRegistered, NoLeakedHandle, TableMatchesSockets, CallbacksAreNews, serverVars
<1>8. packet_index' \in 0 .. MaxProcessedPackets
  BY <1>1, <1>2, <1>4, ServerAssumption DEF Control, ServerTypeOK, morePackets, nextIndex
<1>9. Control'
  BY <1>1, <1>2, <1>4, <1>5, <1>6, <1>8
     DEF Control, LineTypeOK, lineVars, ServerTypeOK, serverVars, OnlyKnownAbort, ControlMatchesState,
         InsideCallback
<1>10. QED
  BY <1>7, <1>9, Parts

\* The other steps of updateConnection.
LEMMA UpdateKeepsIInv ==
  /\ IInv
  /\ packetsDone \/ processConnectionStateChanges \/ callbacksDone \/ processUserInput
  /\ UNCHANGED <<serving, recipients>>
  => IInv'
PROOF
<1> SUFFICES ASSUME IInv, UNCHANGED <<serving, recipients>>,
                    packetsDone \/ processConnectionStateChanges \/ callbacksDone \/ processUserInput
             PROVE  IInv'
  OBVIOUS
<1>1. Data /\ Control
  BY Parts
<1>2. UNCHANGED <<socketVars, running, listening_socket, poll_group, connections, outcome>> /\ pc # "kill"
  BY DEF packetsDone, leavePackets, processConnectionStateChanges, callbacksDone, processUserInput,
         serverVars
<1>3. Data'
  BY <1>1, <1>2, DataUnchanged
<1>4. Len(callbacks) \in Nat /\ UNCHANGED <<callbacks, Registered>>
  BY <1>1, <1>2, LenProperties DEF Data, SocketsTypeOK, socketVars, Registered
<1>5. CASE processConnectionStateChanges
  <2>1. ServerTypeOK'
    BY <1>1, <1>2, <1>4, <1>5, ServerAssumption
       DEF Control, ServerTypeOK, processConnectionStateChanges, serverVars
  <2>2. Control'
    BY <1>1, <1>2, <1>4, <1>5, <2>1
       DEF Control, processConnectionStateChanges, LineTypeOK, lineVars, Pc, OnlyKnownAbort,
           ControlMatchesState, InsideCallback
  <2>3. QED
    BY <1>3, <2>2, Parts
<1>6. CASE callbacksDone
  <2>1. Control'
    BY <1>1, <1>2, <1>4, <1>6
       DEF Control, callbacksDone, ServerTypeOK, serverVars, LineTypeOK, lineVars, Pc, OnlyKnownAbort,
           ControlMatchesState, InsideCallback
  <2>2. QED
    BY <1>3, <2>1, Parts
<1>7. CASE processUserInput
  <2>1. LineTypeOK' /\ quit_requested' \in BOOLEAN /\ pc' \in {"main", "processUserInput"}
    <3>1. CASE UNCHANGED <<lineVars, quit_requested>> /\ pc' = "main"
      BY <1>1, <3>1 DEF Control, LineTypeOK, ServerTypeOK, lineVars
    <3>2. CASE readInput
      <4>1. input_queue' \in Seq(Line) /\ UNCHANGED spent
        BY <1>1, <3>2, HeadTailProperties DEF Control, LineTypeOK, readInput
      <4>2. quit_requested' \in BOOLEAN /\ pc' \in {"main", "processUserInput"}
        <5>1. CASE Head(input_queue) = "/quit"
          BY <1>1, <1>7, <3>2, <5>1 DEF processUserInput, readInput
        <5>2. CASE Head(input_queue) # "/quit"
          BY <1>1, <1>7, <3>2, <5>2 DEF processUserInput, readInput, Control, ServerTypeOK
        <5>3. QED
          BY <5>1, <5>2
      <4>3. QED
        BY <1>1, <4>1, <4>2 DEF Control, LineTypeOK
    <3>3. QED
      BY <1>7, <3>1, <3>2 DEF processUserInput
  <2>2. UNCHANGED <<packet_index, batch>> /\ pc = "processUserInput"
    BY <1>7 DEF processUserInput
  <2>3. Control'
    BY <1>1, <1>2, <1>4, <2>1, <2>2
       DEF Control, ServerTypeOK, Pc, OnlyKnownAbort, ControlMatchesState, InsideCallback
  <2>4. QED
    BY <1>3, <2>3, Parts
<1>8. CASE packetsDone
  <2>1. ServerTypeOK'
    BY <1>1, <1>2, <1>4, <1>8, ServerAssumption
       DEF Control, ServerTypeOK, packetsDone, leavePackets, serverVars
  <2>2. Control'
    BY <1>1, <1>2, <1>4, <1>8, <2>1
       DEF Control, packetsDone, leavePackets, LineTypeOK, lineVars, serverVars, Pc, OnlyKnownAbort,
           ControlMatchesState, InsideCallback
  <2>3. QED
    BY <1>3, <2>2, Parts
<1>9. QED
  BY <1>5, <1>6, <1>7, <1>8

-----------------------------------------------------------------------------
(* The theorems.                                                           *)

LEMMA InitIInv == Init => IInv
PROOF
<1> SUFFICES ASSUME Init
             PROVE  IInv
  OBVIOUS
<1>1. callbacks = <<>> /\ Registered = {} /\ About(callbacks) = {} /\ PendingConnects(callbacks) = {}
  BY EmptySeq DEF Init, SocketsInit, ServerInit, Registered, About, PendingConnects
<1>2. SocketsTypeOK
  BY SocketsAssumption DEF Init, SocketsInit, SocketsTypeOK
<1>3. Data
  BY <1>1, <1>2
     DEF Init, SocketsInit, ServerInit, Data, PollGroupRegistered, NoLeakedHandle, Live, Lost,
         TableMatchesSockets, CallbacksAreNews, ConnectsOnce
<1>4. Control
  <2>1. LineTypeOK
    BY DEF Init, LineInit, LineTypeOK
  <2>2. Len(callbacks) = 0
    <3>1. Len(<<>>) = 0
      OBVIOUS
    <3>2. QED
      BY <1>1, <3>1
  <2>3. ServerTypeOK
    <3>1. packet_index \in 0 .. MaxProcessedPackets /\ batch \in Nat
      BY ServerAssumption DEF Init, ServerInit
    <3>2. connections \in [Conn -> {"ABSENT"} \cup ConnectionState]
      BY DEF Init, ServerInit
    <3>3. QED
      BY <3>1, <3>2 DEF Init, ServerInit, ServerTypeOK, SocketHandle
  <2>4. QED
    BY <2>1, <2>2, <2>3
       DEF Init, ServerInit, Control, Pc, OnlyKnownAbort, ControlMatchesState, InsideCallback
<1>5. QED
  BY <1>3, <1>4, Parts

LEMMA NextIInv == IInv /\ [Next]_vars => IInv'
PROOF
<1>1. ASSUME IInv, UNCHANGED vars
      PROVE  IInv'
  BY <1>1
     DEF vars, socketVars, lineVars, serverVars, IInv, TypeOK, SocketsTypeOK, LineTypeOK, ServerTypeOK,
         PollGroupRegistered, OnlyKnownAbort, NoLeakedHandle, TableMatchesSockets, CallbacksAreNews,
         ControlMatchesState, InsideCallback, Registered
<1>2. ASSUME IInv, Main
      PROVE  IInv'
  BY <1>2, MainLoopKeepsIInv, CloseServerKeepsIInv, DispatchKeepsIInv, AcceptedKeepsIInv,
     PacketKeepsIInv, UpdateKeepsIInv DEF Main
<1>3. QED
  BY <1>1, <1>2, NetworkKeepsIInv, PollThreadKeepsIInv DEF Next

\* The invariant holds in every reachable state, for any number of clients, any
\* bound on unread packets and any number of packets per turn.
THEOREM Invariance == Spec => []IInv
PROOF
  BY InitIInv, NextIInv, PTL DEF Spec

\* Every variable keeps its type.
THEOREM TypeCorrect == Spec => []TypeOK
PROOF
<1>1. IInv => TypeOK
  BY DEF IInv
<1>2. QED
  BY <1>1, Invariance, PTL

\* Server::processPendingPacket only meets packets of registered connections.
THEOREM PacketsAreForEntries == Spec => []PollGroupRegistered
PROOF
<1>1. IInv => PollGroupRegistered
  BY DEF IInv
<1>2. QED
  BY <1>1, Invariance, PTL

\* The process never ends by a null packet, a packet for an unknown connection
\* or a connection created twice.
THEOREM AbortsAreKnown == Spec => []OnlyKnownAbort
PROOF
<1>1. IInv => OnlyKnownAbort
  BY DEF IInv
<1>2. QED
  BY <1>1, Invariance, PTL

\* No live handle is ever without an entry or a callback that will make one.
THEOREM HandlesAreKept == Spec => []NoLeakedHandle
PROOF
<1>1. IInv => NoLeakedHandle
  BY DEF IInv
<1>2. QED
  BY <1>1, Invariance, PTL

\* Every entry is CONNECTED and stands for a handle that is still held.
THEOREM TableIsRight == Spec => []TableMatchesSockets
PROOF
<1>1. IInv => TableMatchesSockets
  BY DEF IInv
<1>2. QED
  BY <1>1, Invariance, PTL

-----------------------------------------------------------------------------
(* No loss is forgotten.                                                   *)

\* Posting keeps the losses of a queue and adds its own.
LEMMA LossesKept ==
  ASSUME NEW queue \in Seq(Change), NEW c \in Conn, NEW from \in SteamState, NEW to \in SteamState
  PROVE  LET longer == Posted(queue, c, from, to) IN
         /\ PendingLosses(queue) \subseteq PendingLosses(longer)
         /\ to \in Lost => c \in PendingLosses(longer)
PROOF
<1> DEFINE info == [conn |-> c, old |-> from, new |-> to]
           longer == Append(queue, info)
<1>1. info \in Change
  BY DEF Change
<1>2. /\ Len(queue) \in Nat
      /\ DOMAIN queue = 1 .. Len(queue)
      /\ DOMAIN longer = 1 .. Len(queue) + 1
      /\ \A i \in DOMAIN queue : longer[i] = queue[i]
      /\ longer[Len(queue) + 1] = info
  BY <1>1, AppendProperties, LenProperties
<1>3. DOMAIN queue \subseteq DOMAIN longer /\ Len(queue) + 1 \in DOMAIN longer
  BY <1>2
<1>4. info.conn = c /\ info.new = to
  OBVIOUS
<1> HIDE DEF info, longer
<1>5. PendingLosses(queue) \subseteq PendingLosses(longer)
  BY <1>2, <1>3 DEF PendingLosses
<1>6. to \in Lost => c \in PendingLosses(longer)
  BY <1>2, <1>3, <1>4 DEF PendingLosses
<1>7. QED
  BY <1>5, <1>6 DEF Posted, info, longer

\* Taking the first callback takes at most the loss it reports.
LEMMA LossesLeft ==
  ASSUME NEW queue \in Seq(Change), queue # <<>>
  PROVE  LET info == Head(queue) IN
         PendingLosses(queue) \subseteq
           PendingLosses(Tail(queue)) \cup (IF info.new \in Lost THEN {info.conn} ELSE {})
PROOF
<1> DEFINE info == Head(queue)
           rest == Tail(queue)
           n == Len(queue)
<1>1. /\ Len(rest) = n - 1
      /\ rest \in Seq(Change)
      /\ \A i \in 1 .. Len(rest) : rest[i] = queue[i + 1]
  BY HeadTailProperties
<1>2. n \in Nat \ {0} /\ info = queue[1]
  BY EmptySeq
<1>3. DOMAIN queue = 1 .. n /\ DOMAIN rest = 1 .. n - 1
  BY <1>1, LenProperties
<1>4. \A i \in DOMAIN queue \ {1} : i - 1 \in DOMAIN rest /\ rest[i - 1] = queue[i]
  BY <1>1, <1>2, <1>3
<1> HIDE DEF info, rest
<1>5. PendingLosses(queue) \subseteq PendingLosses(rest) \cup (IF info.new \in Lost THEN {info.conn} ELSE {})
  <2> SUFFICES ASSUME NEW i \in DOMAIN queue, queue[i].new \in Lost
               PROVE  queue[i].conn \in PendingLosses(rest) \cup (IF info.new \in Lost THEN {info.conn} ELSE {})
    BY DEF PendingLosses
  <2>1. CASE i = 1
    BY <1>2, <2>1
  <2>2. CASE i # 1
    BY <1>4, <2>2 DEF PendingLosses
  <2>3. QED
    BY <2>1, <2>2
<1>6. QED
  BY <1>5 DEF info, rest

\* A step about c alone, that ends with c not lost or with its loss queued, and
\* takes no other loss out of the queue; a callback that closes a connection is
\* left for c only.
LEMMA OnlyOneChanges ==
  ASSUME NoLossIsForgotten, outcome = "running", NEW c,
         \A x \in Conn \ {c} : handle'[x] = handle[x],
         PendingLosses(callbacks) \subseteq PendingLosses(callbacks') \cup {c},
         handle'[c] \in Lost => c \in PendingLosses(callbacks') \/ (pc' = "farewell" /\ c = serving'),
         pc = "farewell" => serving = c \/ UNCHANGED <<pc, serving>>
  PROVE  NoLossIsForgotten'
PROOF
<1> SUFFICES ASSUME NEW x \in Conn, handle'[x] \in Lost
             PROVE  x \in PendingLosses(callbacks') \/ (pc' = "farewell" /\ x = serving')
  BY DEF NoLossIsForgotten, PendingLosses
<1>1. CASE x = c
  BY <1>1
<1>2. CASE x # c
  BY <1>2 DEF NoLossIsForgotten
<1>3. QED
  BY <1>1, <1>2

\* Closing the connection about which a callback is: it is not lost any more.
LEMMA CloseForgetsNoLoss ==
  ASSUME NoLossIsForgotten, outcome = "running", SocketsTypeOK,
         NEW c \in Conn, handle[c] \in SteamState, NEW queue \in Seq(Change), NEW table,
         PendingLosses(callbacks) \subseteq PendingLosses(queue) \cup {c},
         closeClientConnection(table, c, queue),
         pc = "farewell" => serving = c
  PROVE  NoLossIsForgotten'
PROOF
<1>1. /\ handle' = [handle EXCEPT ![c] = "Destroyed"]
      /\ callbacks' = Posted(queue, c, handle[c], "None")
  BY DEF closeClientConnection, CloseConnection
<1>2. handle'[c] \notin Lost /\ \A x \in Conn \ {c} : handle'[x] = handle[x]
  BY <1>1 DEF SocketsTypeOK, Lost
<1>3. "None" \in SteamState
  BY DEF SteamState
<1>4. PendingLosses(queue) \subseteq PendingLosses(callbacks')
  BY <1>1, <1>3, LossesKept
<1>5. QED
  BY <1>2, <1>4, OnlyOneChanges

LEMMA DispatchForgetsNoLoss ==
  ASSUME IInv, NoLossIsForgotten, outcome = "running", Dispatch
  PROVE  NoLossIsForgotten'
PROOF
<1> DEFINE info == Head(callbacks)
           rest == Tail(callbacks)
           status == CONNECTION_STATUS_MAPPINGS
<1>1. /\ pc = "RunCallbacks" /\ callbacks \in Seq(Change) /\ callbacks # <<>>
      /\ SocketsTypeOK
  BY EmptySeq DEF Dispatch, IInv, TypeOK, SocketsTypeOK, ServerTypeOK, ControlMatchesState
<1>2. /\ info \in Change /\ rest \in Seq(Change)
      /\ PendingLosses(callbacks) \subseteq
           PendingLosses(rest) \cup (IF info.new \in Lost THEN {info.conn} ELSE {})
  BY <1>1, TakenFacts, LossesLeft
<1>3. info.conn \in Conn /\ info.old \in SteamState /\ info.new \in SteamState
  BY <1>2 DEF Change
<1>4. ASSUME info.new = "Connecting" \/ info.conn \in Registered
      PROVE  handle[info.conn] \in Live
  BY <1>1, <1>4, TakenServing DEF Serving
<1>5. /\ {info.old, info.new} \subseteq DOMAIN status
      /\ status[info.new] = "CONNECTING" => info.new = "Connecting"
      /\ info.new \in Lost => status[info.new] \in LostStatus
  BY <1>3, MappingFacts DEF Lost, LostStatus, CONNECTION_STATUS_MAPPINGS
<1> HIDE DEF info, rest, status
<1>6. CASE status[info.new] = "CONNECTING" /\ OnConnecting(info.conn, rest)
  <2>1. CASE info.conn \in Registered
    BY <1>6, <2>1 DEF OnConnecting, NoLossIsForgotten
  <2>2. CASE info.conn \notin Registered /\ CanAccept(info.conn)
    <3>1. /\ handle' = [handle EXCEPT ![info.conn] = "Connected"]
          /\ callbacks' = Posted(rest, info.conn, "Connecting", "Connected")
      BY <1>6, <2>2 DEF OnConnecting, AcceptConnection
    <3>2. PendingLosses(rest) \subseteq PendingLosses(callbacks')
      BY <1>2, <1>3, <3>1, LossesKept DEF SteamState, Live
    <3>3. handle'[info.conn] \notin Lost /\ \A x \in Conn \ {info.conn} : handle'[x] = handle[x]
      BY <1>1, <1>3, <3>1 DEF SocketsTypeOK, Lost
    <3>4. QED
      BY <1>1, <1>2, <3>2, <3>3, OnlyOneChanges
  <2>3. CASE info.conn \notin Registered /\ ~CanAccept(info.conn)
    <3>1. closeClientConnection(createClientConnection(connections, info.conn), info.conn, rest)
      BY <1>6, <2>3 DEF OnConnecting
    <3>2. handle[info.conn] \in SteamState
      BY <1>4, <1>5, <1>6 DEF SteamState
    <3>3. QED
      BY <1>1, <1>2, <1>3, <3>1, <3>2, CloseForgetsNoLoss
  <2>4. QED
    BY <2>1, <2>2, <2>3
<1>7. CASE status[info.new] \in LostStatus /\ OnLost(info.conn, status[info.old], rest)
  <2>1. CASE info.conn \notin Registered
    BY <1>7, <2>1 DEF OnLost, NoLossIsForgotten
  <2>2. CASE info.conn \in Registered
    <3>1. UNCHANGED handle /\ callbacks' = rest /\ pc' = "farewell" /\ serving' = info.conn
      BY <1>7, <2>2 DEF OnLost
    <3>2. QED
      BY <1>1, <1>2, <3>1, OnlyOneChanges
  <2>3. QED
    BY <2>1, <2>2
<1>8. CASE status[info.new] \notin LostStatus \cup {"CONNECTING"} /\ Ignored(rest, outcome)
  <2>1. callbacks' = rest /\ UNCHANGED handle
    BY <1>8 DEF Ignored
  <2>2. PendingLosses(callbacks) \subseteq PendingLosses(callbacks')
    BY <1>2, <1>5, <1>8, <2>1
  <2>3. QED
    BY <1>1, <2>1, <2>2 DEF NoLossIsForgotten
<1>9. QED
  BY <1>5, <1>6, <1>7, <1>8 DEF Dispatch, info, rest, status

LEMMA NetworkForgetsNoLoss ==
  ASSUME IInv, NoLossIsForgotten, outcome = "running", Network
  PROVE  NoLossIsForgotten'
PROOF
<1>1. callbacks \in Seq(Change) /\ handle \in [Conn -> {"Unused", "Destroyed"} \cup Live]
  BY DEF IInv, TypeOK, SocketsTypeOK
<1>2. PICK c \in Conn : PeerConnects(c) \/ (\E how \in Lost : PeerIsLost(c, how)) \/ PeerSends(c)
  BY DEF Network
<1> UNCHANGED <<pc, serving>>
  BY DEF Network
<1>3. CASE PeerConnects(c)
  <2>1. handle'[c] \notin Lost /\ \A x \in Conn \ {c} : handle'[x] = handle[x]
    BY <1>1, <1>3 DEF PeerConnects, Lost
  <2>2. PendingLosses(callbacks) \subseteq PendingLosses(callbacks')
    BY <1>1, <1>3, LossesKept DEF PeerConnects, SteamState, Live
  <2>3. QED
    BY <2>1, <2>2, OnlyOneChanges
<1>4. ASSUME NEW how \in Lost, PeerIsLost(c, how)
      PROVE  NoLossIsForgotten'
  <2>1. \A x \in Conn \ {c} : handle'[x] = handle[x]
    BY <1>1, <1>4 DEF PeerIsLost
  <2>2. /\ callbacks' = Posted(callbacks, c, handle[c], how)
        /\ handle[c] \in SteamState /\ how \in SteamState
    BY <1>4 DEF PeerIsLost, SteamState, Live
  <2>3. PendingLosses(callbacks) \subseteq PendingLosses(callbacks') /\ c \in PendingLosses(callbacks')
    BY <1>1, <1>4, <2>2, LossesKept
  <2>4. QED
    BY <2>1, <2>3, OnlyOneChanges
<1>5. CASE PeerSends(c)
  <2>1. UNCHANGED <<handle, callbacks>>
    BY <1>5 DEF PeerSends
  <2>2. QED
    BY <2>1 DEF NoLossIsForgotten, PendingLosses
<1>6. QED
  BY <1>2, <1>3, <1>4, <1>5

\* A connection the network gave up is not lost from sight: until it is closed,
\* the report that closes it is queued or being served.
THEOREM LossesAreReported == Spec => []NoLossIsForgotten
PROOF
<1>1. Init => NoLossIsForgotten
  BY DEF Init, SocketsInit, NoLossIsForgotten, Lost
<1>2. IInv /\ NoLossIsForgotten /\ [Next]_vars => NoLossIsForgotten'
  <2> SUFFICES ASSUME IInv, NoLossIsForgotten, [Next]_vars
               PROVE  NoLossIsForgotten'
    OBVIOUS
  <2>1. CASE UNCHANGED vars
    BY <2>1 DEF vars, socketVars, NoLossIsForgotten, PendingLosses
  <2>2. CASE outcome = "running" /\ Network
    BY <2>2, NetworkForgetsNoLoss
  <2>3. CASE outcome = "running" /\ Dispatch
    BY <2>3, DispatchForgetsNoLoss
  <2>4. CASE outcome = "running" /\ (SetPollGroup \/ Farewell)
    <3>1. /\ SocketsTypeOK /\ callbacks \in Seq(Change)
          /\ serving \in Conn /\ handle[serving] \in SteamState
      BY <2>4 DEF SetPollGroup, Farewell, IInv, TypeOK, SocketsTypeOK, TableMatchesSockets,
                  ControlMatchesState, InsideCallback, Registered, SteamState, Live
    <3>2. CASE UNCHANGED <<handle, callbacks>> /\ (pc = "farewell" => UNCHANGED <<pc, serving>>)
      BY <2>4, <3>2 DEF NoLossIsForgotten, PendingLosses
    <3>3. CASE closeClientConnection(connections, serving, callbacks)
      BY <2>4, <3>1, <3>3, CloseForgetsNoLoss
    <3>4. QED
      BY <2>4, <3>2, <3>3 DEF SetPollGroup, SetConnectionPollGroup, Farewell, sendToNext
  <2>5. CASE outcome = "running" /\ CloseServer
    <3>1. \A c \in Conn : handle'[c] \notin Lost
      BY <2>5 DEF CloseServer, closeConnection, CloseAll, Registered, Live, Lost
    <3>2. QED
      BY <3>1 DEF NoLossIsForgotten
  <2>6. CASE outcome = "running" /\ (\/ OpenConnection \/ UpdateConnection \/ ReturnFromMain
                                    \/ Welcome \/ Announce \/ PollThread
                                    \/ processPendingPacket \/ packetsDone \/ processConnectionStateChanges
                                    \/ callbacksDone \/ processUserInput)
    <3>1. UNCHANGED <<handle, callbacks>> /\ (pc = "farewell" => UNCHANGED <<pc, serving>>)
      BY <2>6 DEF OpenConnection, UpdateConnection, updateConnection, ReturnFromMain, Welcome, Announce,
                  sendToNext, PollThread, processPendingPacket, ReceiveMessage, packetsDone, leavePackets,
                  processConnectionStateChanges, callbacksDone, processUserInput, socketVars
    <3>2. QED
      BY <2>6, <3>1 DEF NoLossIsForgotten, PendingLosses
  <2>7. QED
    BY <2>1, <2>2, <2>3, <2>4, <2>5, <2>6 DEF Next, Main
<1>3. QED
  BY <1>1, <1>2, Invariance, PTL DEF Spec

-----------------------------------------------------------------------------
(* What the clients are told: the server implements module Lobby.          *)

\* The losses a queue of callbacks reports, and that none is reported twice.
Losses(queue) == {queue[i] : i \in {j \in DOMAIN queue : queue[j].new \in Lost}}
LostOnce(queue) ==
  \A i, j \in DOMAIN queue :
    queue[i].new \in Lost /\ queue[j].new \in Lost /\ queue[i].conn = queue[j].conn => i = j

\* A connection that has no entry has been told nothing, until its handle goes;
\* nor has one that is not welcomed yet.
Greeted ==
  /\ \A c \in Conn \ Registered : handle[c] # "Destroyed" => sent[c] = <<>>
  /\ pc \in {"setPollGroup", "welcome"} => sent[serving] = <<>>

\* A loss is reported once, after it happened; of an entry, as the loss of what
\* was connected, and of a connection without one only if it was told nothing.
LossesAreNews ==
  /\ LostOnce(callbacks)
  /\ \A x \in Losses(callbacks) :
       /\ handle[x.conn] \in {"Destroyed"} \cup Lost
       /\ x.conn \in Registered => x.old = "Connected"
       /\ x.conn \notin Registered /\ pc # "kill" => sent[x.conn] = <<>>

\* Whom the others are told of is lost, and will not be reported again.
FarewellIsForLost ==
  pc = "farewell" => handle[serving] \in Lost /\ \A x \in Losses(callbacks) : x.conn # serving

RoomInv == Greeted /\ LossesAreNews /\ FarewellIsForLost /\ AbortOnlyForUnwelcomed

LEMMA LossesPosted ==
  ASSUME NEW queue \in Seq(Change), NEW c \in Conn, NEW from \in SteamState, NEW to \in SteamState
  PROVE  LET longer == Posted(queue, c, from, to) IN
         /\ to \notin Lost => Losses(longer) = Losses(queue) /\ (LostOnce(queue) => LostOnce(longer))
         /\ Losses(longer) \subseteq Losses(queue) \cup {[conn |-> c, old |-> from, new |-> to]}
         /\ (\A x \in Losses(queue) : x.conn # c) /\ LostOnce(queue) => LostOnce(longer)
PROOF
<1> DEFINE info == [conn |-> c, old |-> from, new |-> to]
           longer == Posted(queue, c, from, to)
           n == Len(queue)
<1>1. info \in Change
  BY DEF Change
<1>2. /\ longer \in Seq(Change)
      /\ Len(longer) = n + 1
      /\ \A i \in 1 .. n : longer[i] = queue[i]
      /\ longer[n + 1] = info
  BY <1>1, AppendProperties DEF Posted
<1>3. n \in Nat /\ DOMAIN queue = 1 .. n /\ DOMAIN longer = 1 .. n + 1
  BY <1>2, LenProperties
<1>4. DOMAIN longer = DOMAIN queue \cup {n + 1} /\ n + 1 \notin DOMAIN queue
  BY <1>3
<1>5. \A i \in DOMAIN queue : longer[i] = queue[i]
  BY <1>2, <1>3
<1> HIDE DEF longer
<1>6. to \notin Lost => Losses(longer) = Losses(queue) /\ (LostOnce(queue) => LostOnce(longer))
  BY <1>2, <1>4, <1>5 DEF Losses, LostOnce
<1>7. Losses(longer) \subseteq Losses(queue) \cup {info}
  BY <1>2, <1>4, <1>5 DEF Losses
<1>8. ASSUME \A x \in Losses(queue) : x.conn # c, LostOnce(queue)
      PROVE  LostOnce(longer)
  BY <1>2, <1>4, <1>5, <1>8 DEF Losses, LostOnce
<1>9. QED
  BY <1>6, <1>7, <1>8 DEF longer

LEMMA LossesTaken ==
  ASSUME NEW queue \in Seq(Change), queue # <<>>, LostOnce(queue)
  PROVE  LET info == Head(queue)
             rest == Tail(queue)
         IN
         /\ LostOnce(rest)
         /\ Losses(rest) \subseteq Losses(queue)
         /\ info.new \in Lost => /\ info \in Losses(queue)
                                 /\ \A x \in Losses(rest) : x.conn # info.conn
PROOF
<1> DEFINE info == Head(queue)
           rest == Tail(queue)
           n == Len(queue)
<1>1. /\ rest \in Seq(Change)
      /\ Len(rest) = n - 1
      /\ \A i \in 1 .. Len(rest) : rest[i] = queue[i + 1]
  BY HeadTailProperties
<1>2. n \in Nat \ {0} /\ info = queue[1]
  BY EmptySeq
<1>3. DOMAIN queue = 1 .. n /\ DOMAIN rest = 1 .. n - 1
  BY <1>1, LenProperties
<1>4. /\ \A i \in DOMAIN rest : i + 1 \in DOMAIN queue \ {1} /\ rest[i] = queue[i + 1]
      /\ 1 \in DOMAIN queue
  BY <1>1, <1>2, <1>3
<1>5. DOMAIN rest \subseteq Nat
  BY <1>3
<1> HIDE DEF info, rest
<1>6. LostOnce(rest)
  <2> SUFFICES ASSUME NEW i \in DOMAIN rest, NEW j \in DOMAIN rest,
                      rest[i].new \in Lost, rest[j].new \in Lost, rest[i].conn = rest[j].conn
               PROVE  i = j
    BY DEF LostOnce
  <2>1. i + 1 = j + 1
    BY <1>4 DEF LostOnce
  <2>2. QED
    BY <2>1, <1>5
<1>7. Losses(rest) \subseteq Losses(queue)
  BY <1>4 DEF Losses
<1>8. info.new \in Lost => info \in Losses(queue)
  BY <1>2, <1>4 DEF Losses
<1>9. ASSUME info.new \in Lost, NEW i \in DOMAIN rest, rest[i].new \in Lost
      PROVE  rest[i].conn # info.conn
  BY <1>2, <1>4, <1>9 DEF LostOnce
<1>10. QED
  BY <1>6, <1>7, <1>8, <1>9 DEF Losses, info, rest

LEMMA LossesConn ==
  ASSUME NEW queue \in Seq(Change), NEW x \in Losses(queue)
  PROVE  x.conn \in Conn
PROOF
<1>1. \A i \in DOMAIN queue : queue[i] \in Change
  BY LenProperties, ElementOfSeq
<1>2. QED
  BY <1>1 DEF Losses, Change

\* The callbacks that closing everything posts report no loss.
LEMMA ClosingsReportNothing ==
  ASSUME NEW S \in SUBSET Conn, \A c \in S : handle[c] \in Live,
         NEW order \in SetToSeqs(S), NEW queue \in Seq(Change)
  PROVE  LET longer == queue \o Closings(order) IN
         /\ Losses(longer) = Losses(queue)
         /\ LostOnce(queue) => LostOnce(longer)
PROOF
<1> DEFINE longer == queue \o Closings(order)
<1>1. /\ DOMAIN queue \subseteq DOMAIN longer
      /\ \A i \in DOMAIN queue : longer[i] = queue[i]
      /\ \A i \in DOMAIN longer \ DOMAIN queue : longer[i].new = "None"
  BY ClosingsFacts, HandlesAssumption
<1>2. "None" \notin Lost
  BY DEF Lost
<1> HIDE DEF longer
<1>3. Losses(longer) = Losses(queue)
  BY <1>1, <1>2 DEF Losses
<1>4. LostOnce(queue) => LostOnce(longer)
  BY <1>1, <1>2 DEF LostOnce
<1>5. QED
  BY <1>3, <1>4 DEF longer

\* A broadcast that has reached everyone leaves no news.
LEMMA NoNews == (recipients = {} => roomNews = {}) /\ (recipients' = {} => roomNews' = {})
PROOF
  BY DEF roomNews

\* Steps that leave the sockets' connections, the table and the streams alone,
\* outside of the callback.
LEMMA StillRoom ==
  ASSUME IInv, RoomInv, UNCHANGED <<handle, callbacks, sent, connections, serving, recipients>>,
         UNCHANGED pc \/ (~InsideCallback /\ ~InsideCallback' /\ pc # "kill"),
         outcome' # "notRegistered"
  PROVE  RoomInv' /\ UNCHANGED <<roomPlace, sent, roomNews>>
PROOF
<1>1. UNCHANGED <<Registered, Entering, Leaving>>
  BY DEF Registered, Entering, Leaving, InsideCallback
<1>2. UNCHANGED roomPlace
  BY <1>1 DEF roomPlace, PlaceOf
<1>3. UNCHANGED roomNews
  <2>1. CASE UNCHANGED pc
    BY <2>1 DEF roomNews
  <2>2. CASE ~InsideCallback
    BY <2>2, NoNews DEF IInv, ControlMatchesState, InsideCallback
  <2>3. QED
    BY <2>1, <2>2
<1>4. Greeted'
  BY <1>1 DEF RoomInv, Greeted, InsideCallback
<1>5. LossesAreNews' /\ FarewellIsForLost'
  BY <1>1 DEF RoomInv, LossesAreNews, FarewellIsForLost, InsideCallback
<1>6. QED
  BY <1>2, <1>3, <1>4, <1>5 DEF RoomInv, AbortOnlyForUnwelcomed

\* The network: who is inside may be cut off, and nothing else is noticed.
LEMMA NetworkInRoom ==
  ASSUME IInv, RoomInv, outcome = "running", Network
  PROVE  RoomInv' /\ (Room!LobbyNext \/ UNCHANGED <<roomPlace, sent, roomNews>>)
PROOF
<1>1. UNCHANGED <<connections, serving, recipients, pc, outcome, Registered, Entering, Leaving,
                  InsideCallback, roomNews>>
  BY DEF Network, serverVars, Registered, Entering, Leaving, InsideCallback, roomNews
<1>2. /\ callbacks \in Seq(Change) /\ handle \in [Conn -> {"Unused", "Destroyed"} \cup Live]
      /\ \A c \in Registered : handle[c] \in {"Connected"} \cup Lost
      /\ InsideCallback => serving \in Registered
  BY DEF IInv, TypeOK, SocketsTypeOK, TableMatchesSockets, ControlMatchesState
<1>3. /\ LostOnce(callbacks)
      /\ \A x \in Losses(callbacks) :
           /\ x.conn \in Conn
           /\ handle[x.conn] \in {"Destroyed"} \cup Lost
           /\ x.conn \in Registered => x.old = "Connected"
           /\ x.conn \notin Registered /\ pc # "kill" => sent[x.conn] = <<>>
      /\ pc = "farewell" => handle[serving] \in Lost /\ \A x \in Losses(callbacks) : x.conn # serving
  BY <1>2, LossesConn DEF RoomInv, LossesAreNews, FarewellIsForLost
<1>4. ASSUME NEW c \in Conn, PeerConnects(c)
      PROVE  RoomInv' /\ UNCHANGED <<roomPlace, sent, roomNews>>
  <2>1. /\ handle[c] = "Unused" /\ handle' = [handle EXCEPT ![c] = "Connecting"]
        /\ callbacks' = Posted(callbacks, c, "None", "Connecting") /\ UNCHANGED sent
    BY <1>4 DEF PeerConnects
  <2>2. c \notin Registered /\ (\A x \in Conn \ {c} : handle'[x] = handle[x]) /\ handle'[c] = "Connecting"
    BY <1>2, <2>1 DEF Lost
  <2>3. Losses(callbacks') = Losses(callbacks) /\ LostOnce(callbacks')
    <3>1. "None" \in SteamState /\ "Connecting" \in SteamState /\ "Connecting" \notin Lost
      BY DEF SteamState, Live, Lost
    <3>2. QED
      BY <1>2, <1>3, <2>1, <3>1, LossesPosted
  <2>4. LossesAreNews'
    <3>1. \A x \in Losses(callbacks) : x.conn # c
      BY <1>3, <2>1 DEF Lost
    <3>2. QED
      BY <1>1, <1>3, <2>1, <2>2, <2>3, <3>1 DEF LossesAreNews
  <2>5. Greeted'
    BY <1>1, <1>2, <2>1, <2>2 DEF RoomInv, Greeted, InsideCallback
  <2>6. UNCHANGED roomPlace
    BY <1>1, <2>1, <2>2 DEF roomPlace, PlaceOf
  <2>7. FarewellIsForLost'
    BY <1>1, <1>3, <2>1, <2>2, <2>3 DEF FarewellIsForLost, Lost
  <2>8. QED
    BY <1>1, <2>1, <2>4, <2>5, <2>6, <2>7 DEF RoomInv, AbortOnlyForUnwelcomed
<1>5. ASSUME NEW c \in Conn, NEW how \in Lost, PeerIsLost(c, how)
      PROVE  RoomInv' /\ (Room!LobbyNext \/ UNCHANGED <<roomPlace, sent, roomNews>>)
  <2>1. /\ handle[c] \in {"Connecting", "Connected"} /\ handle' = [handle EXCEPT ![c] = how]
        /\ callbacks' = Posted(callbacks, c, handle[c], how) /\ UNCHANGED sent
    BY <1>5 DEF PeerIsLost
  <2>2. (\A x \in Conn \ {c} : handle'[x] = handle[x]) /\ handle'[c] \in Lost
    BY <1>2, <2>1
  <2>3. c \in Registered => handle[c] = "Connected"
    BY <1>2, <2>1 DEF Lost
  <2>4. c \notin Registered => sent[c] = <<>>
    BY <2>1 DEF RoomInv, Greeted
  <2>5. \A x \in Losses(callbacks) : x.conn # c
    BY <1>3, <2>1 DEF Lost
  <2> DEFINE news == [conn |-> c, old |-> handle[c], new |-> how]
  <2>6. Losses(callbacks') \subseteq Losses(callbacks) \cup {news} /\ LostOnce(callbacks')
    <3>1. handle[c] \in SteamState /\ how \in SteamState
      BY <2>1 DEF SteamState, Live
    <3>2. QED
      BY <1>2, <1>3, <2>1, <2>5, <3>1, LossesPosted
  <2>7. LossesAreNews'
    <3>1. news.conn = c /\ news.old = handle[c]
      OBVIOUS
    <3> HIDE DEF news
    <3>2. QED
      BY <1>1, <1>3, <2>1, <2>2, <2>3, <2>4, <2>5, <2>6, <3>1 DEF LossesAreNews
  <2>8. Greeted'
    <3>1. \A x \in Conn \ Registered : handle'[x] # "Destroyed" => sent[x] = <<>>
      BY <2>2, <2>4 DEF RoomInv, Greeted
    <3>2. QED
      BY <1>1, <2>1, <3>1 DEF RoomInv, Greeted
  <2>9. FarewellIsForLost'
    <3>1. pc = "farewell" => serving \in Conn \ {c}
      BY <1>2, <1>3, <2>1 DEF InsideCallback, Registered, Lost
    <3>2. news.conn = c
      OBVIOUS
    <3> HIDE DEF news
    <3>3. QED
      BY <1>1, <1>3, <2>2, <2>6, <3>1, <3>2 DEF FarewellIsForLost
  <2>10. CASE c \in Registered \ (Entering \cup Leaving)
    <3>1. /\ roomPlace[c] = "inside"
          /\ roomPlace' = [roomPlace EXCEPT ![c] = "cutOff"]
      BY <1>1, <2>2, <2>3, <2>10 DEF roomPlace, PlaceOf, Lost
    <3>2. Room!CutOff(c)
      BY <1>1, <2>1, <3>1 DEF Room!CutOff
    <3>3. QED
      BY <1>1, <2>1, <2>7, <2>8, <2>9, <3>2 DEF RoomInv, AbortOnlyForUnwelcomed, Room!LobbyNext
  <2>11. CASE c \notin Registered \ (Entering \cup Leaving)
    <3>1. UNCHANGED roomPlace
      BY <1>1, <2>1, <2>2, <2>11 DEF roomPlace, PlaceOf, Lost
    <3>2. QED
      BY <1>1, <2>1, <2>7, <2>8, <2>9, <3>1 DEF RoomInv, AbortOnlyForUnwelcomed
  <2>12. QED
    BY <2>10, <2>11
<1>6. ASSUME NEW c \in Conn, PeerSends(c)
      PROVE  RoomInv' /\ UNCHANGED <<roomPlace, sent, roomNews>>
  BY <1>1, <1>6, StillRoom DEF PeerSends
<1>7. QED
  BY <1>4, <1>5, <1>6 DEF Network

\* The main loop and the poll thread.
LEMMA MainLoopInRoom ==
  ASSUME IInv, RoomInv, outcome = "running",
         \/ OpenConnection \/ UpdateConnection \/ ReturnFromMain \/ PollThread
         \/ /\ \/ processPendingPacket \/ packetsDone \/ processConnectionStateChanges
               \/ callbacksDone \/ processUserInput
            /\ UNCHANGED <<serving, recipients>>
  PROVE  RoomInv' /\ UNCHANGED <<roomPlace, sent, roomNews>>
PROOF
<1> USE StillRoom DEF serverVars, socketVars, InsideCallback
<1>1. CASE OpenConnection
  BY <1>1 DEF OpenConnection, openConnection
<1>2. CASE UpdateConnection
  BY <1>2 DEF UpdateConnection, updateConnection
<1>3. CASE ReturnFromMain
  BY <1>3 DEF ReturnFromMain
<1>4. CASE PollThread
  BY <1>4 DEF PollThread, FutureError
<1>5. CASE processPendingPacket /\ UNCHANGED <<serving, recipients>>
  BY <1>5 DEF processPendingPacket, ReceiveMessage
<1>6. CASE packetsDone /\ UNCHANGED <<serving, recipients>>
  BY <1>6 DEF packetsDone, leavePackets
<1>7. CASE processConnectionStateChanges /\ UNCHANGED <<serving, recipients>>
  BY <1>7 DEF processConnectionStateChanges
<1>8. CASE callbacksDone /\ UNCHANGED <<serving, recipients>>
  BY <1>8 DEF callbacksDone
<1>9. CASE processUserInput /\ UNCHANGED <<serving, recipients>>
  BY <1>9 DEF processUserInput
<1>10. QED
  BY <1>1, <1>2, <1>3, <1>4, <1>5, <1>6, <1>7, <1>8, <1>9

\* closeConnection: the room is closed.
LEMMA CloseInRoom ==
  ASSUME IInv, RoomInv, outcome = "running", CloseServer
  PROVE  RoomInv' /\ Room!LobbyNext
PROOF
<1> DEFINE S == {c \in Conn : handle[c] \in Live}
<1>1. /\ pc = "main" /\ pc' = "kill" /\ UNCHANGED <<outcome, serving, recipients, sent>>
      /\ connections' = [c \in Conn |-> "ABSENT"]
      /\ \A c \in Conn : handle'[c] = IF handle[c] \in Live THEN "Destroyed" ELSE handle[c]
      /\ \E order \in SetToSeqs(S) : callbacks' = callbacks \o Closings(order)
  <2>1. Registered \cup Conn = Conn
    BY DEF Registered
  <2>2. QED
    BY <2>1 DEF CloseServer, closeConnection, CloseAll
<1>2. /\ callbacks \in Seq(Change) /\ handle \in [Conn -> {"Unused", "Destroyed"} \cup Live]
      /\ \A c \in Registered : handle[c] \in {"Connected"} \cup Lost
      /\ recipients = {}
  BY <1>1 DEF IInv, TypeOK, SocketsTypeOK, TableMatchesSockets, ControlMatchesState
<1>3. /\ Registered' = {} /\ Entering \cup Leaving = {} /\ Entering' \cup Leaving' = {}
      /\ roomNews = {} /\ roomNews' = {}
      /\ \A c \in Conn : handle'[c] = IF handle[c] = "Unused" THEN "Unused" ELSE "Destroyed"
  BY <1>1, <1>2, NoNews DEF Registered, Entering, Leaving, Live, Lost
<1>4. Greeted'
  <2>1. \A c \in Conn : handle[c] = "Unused" => c \notin Registered
    BY <1>2 DEF Lost
  <2>2. \A c \in Conn : handle'[c] # "Destroyed" => sent[c] = <<>>
    BY <1>3, <2>1 DEF RoomInv, Greeted
  <2>3. QED
    BY <1>1, <2>2 DEF Greeted
<1>5. LossesAreNews' /\ FarewellIsForLost'
  <2>1. \A x \in Losses(callbacks) : x.conn \in Conn /\ handle[x.conn] # "Unused"
    BY <1>2, LossesConn DEF RoomInv, LossesAreNews, Lost
  <2>2. LostOnce(callbacks)
    BY DEF RoomInv, LossesAreNews
  <2>3. Losses(callbacks') = Losses(callbacks) /\ LostOnce(callbacks')
    BY <1>1, <1>2, <2>2, ClosingsReportNothing
  <2>4. QED
    BY <1>1, <1>3, <2>1, <2>3 DEF LossesAreNews, FarewellIsForLost
<1>6. Room!CloseRoom
  <2>1. \A c \in Conn : roomPlace'[c] = IF handle[c] = "Unused" THEN "outside" ELSE "over"
    BY <1>3 DEF roomPlace, PlaceOf
  <2>2. \A c \in Conn : roomPlace[c] = "outside" <=> (c \notin Registered /\ handle[c] # "Destroyed")
    BY <1>3 DEF roomPlace, PlaceOf
  <2>3. \A c \in Conn : handle[c] = "Unused" => roomPlace[c] = "outside"
    BY <1>2, <2>2 DEF Lost
  <2> DEFINE refused == {c \in Conn : roomPlace[c] = "outside" /\ handle[c] # "Unused"}
  <2>4. roomPlace' = [c \in Conn |-> IF c \in refused \/ roomPlace[c] # "outside"
                                     THEN "over" ELSE "outside"]
    <3>1. DOMAIN roomPlace' = Conn /\ roomPlace' = [c \in Conn |-> roomPlace'[c]]
      BY DEF roomPlace
    <3>2. QED
      BY <2>1, <2>3, <3>1
  <2>5. refused \in SUBSET {c \in Conn : roomPlace[c] = "outside"}
    OBVIOUS
  <2>6. QED
    BY <1>1, <1>3, <2>4, <2>5 DEF Room!CloseRoom
<1>7. QED
  BY <1>1, <1>4, <1>5, <1>6 DEF RoomInv, AbortOnlyForUnwelcomed, Room!LobbyNext

\* closeClientConnection in any branch of the callback: the invariant stays if
\* the losses that are still to be reported are those of other connections, or
\* the one that is closed was told nothing.
LEMMA CloseKeepsRoomInv ==
  ASSUME IInv, RoomInv, NEW c \in Conn, NEW queue \in Seq(Change), handle[c] \in Live,
         Losses(queue) \subseteq Losses(callbacks), LostOnce(queue),
         NEW table \in [Conn -> {"ABSENT"} \cup ConnectionState],
         \A x \in Conn \ {c} : table[x] = connections[x],
         closeClientConnection(table, c, queue),
         pc # "kill", pc' = "RunCallbacks", outcome' = "running",
         \A x \in Losses(queue) : x.conn = c => sent'[c] = <<>>,
         \A x \in Conn \ Registered : sent'[x] = sent[x]
  PROVE  /\ RoomInv'
         /\ Registered' = Registered \ {c}
         /\ handle'[c] = "Destroyed"
         /\ \A x \in Conn \ {c} : handle'[x] = handle[x]
PROOF
<1>1. /\ handle' = [handle EXCEPT ![c] = "Destroyed"]
      /\ callbacks' = Posted(queue, c, handle[c], "None")
      /\ connections' = [[table EXCEPT ![c] = "CLOSED"] EXCEPT ![c] = "ABSENT"]
  BY DEF closeClientConnection, CloseConnection, removeClientConnection, closed
<1>2. callbacks \in Seq(Change) /\ handle \in [Conn -> {"Unused", "Destroyed"} \cup Live]
  BY DEF IInv, TypeOK, SocketsTypeOK
<1>3. /\ handle'[c] = "Destroyed"
      /\ \A x \in Conn \ {c} : handle'[x] = handle[x]
  BY <1>1, <1>2
<1>4. Registered' = Registered \ {c}
  BY <1>1 DEF Registered
<1>5. Losses(callbacks') = Losses(queue) /\ LostOnce(callbacks')
  <2>1. handle[c] \in SteamState /\ "None" \in SteamState /\ "None" \notin Lost
    BY DEF SteamState, Lost
  <2>2. QED
    BY <1>1, <2>1, LossesPosted
<1>6. LossesAreNews'
  <2>1. \A x \in Losses(queue) :
          /\ x.conn \in Conn
          /\ handle[x.conn] \in {"Destroyed"} \cup Lost
          /\ x.conn \in Registered => x.old = "Connected"
          /\ x.conn \notin Registered => sent[x.conn] = <<>>
    BY <1>2, LossesConn DEF RoomInv, LossesAreNews
  <2>2. QED
    BY <1>3, <1>4, <1>5, <2>1 DEF LossesAreNews
<1>7. Greeted'
  <2>1. \A x \in Conn \ Registered : handle[x] # "Destroyed" => sent[x] = <<>>
    BY DEF RoomInv, Greeted
  <2>2. QED
    BY <1>3, <1>4, <2>1 DEF Greeted
<1>8. QED
  BY <1>3, <1>4, <1>6, <1>7 DEF RoomInv, FarewellIsForLost, AbortOnlyForUnwelcomed

\* One callback: a connection is taken in without being seen yet, refused, or
\* seen off by everyone who is inside.
LEMMA DispatchInRoom ==
  ASSUME IInv, RoomInv, outcome = "running", Dispatch
  PROVE  RoomInv' /\ (Room!LobbyNext \/ UNCHANGED <<roomPlace, sent, roomNews>>)
PROOF
<1> DEFINE info == Head(callbacks)
           rest == Tail(callbacks)
           status == CONNECTION_STATUS_MAPPINGS
           c == info.conn
<1>1. pc = "RunCallbacks" /\ batch > 0
  BY DEF Dispatch
<1>2. /\ callbacks \in Seq(Change) /\ handle \in [Conn -> {"Unused", "Destroyed"} \cup Live]
      /\ connections \in [Conn -> {"ABSENT"} \cup ConnectionState]
      /\ sent \in [Conn -> Seq(Notice)]
      /\ batch \in Nat /\ batch <= Len(callbacks)
      /\ \A x \in Registered : connections[x] = "CONNECTED" /\ handle[x] \in {"Connected"} \cup Lost
  BY DEF IInv, TypeOK, SocketsTypeOK, ServerTypeOK, TableMatchesSockets, ControlMatchesState
<1>3. callbacks # <<>>
  BY <1>1, <1>2, EmptySeq
<1>4. info \in Change /\ rest \in Seq(Change)
  BY <1>2, <1>3, TakenFacts
<1>5. c \in Conn /\ info.old \in SteamState /\ info.new \in SteamState
  BY <1>4 DEF Change
<1>6. /\ \A x \in Losses(callbacks) :
           /\ x.conn \in Conn
           /\ handle[x.conn] \in {"Destroyed"} \cup Lost
           /\ x.conn \in Registered => x.old = "Connected"
           /\ x.conn \notin Registered => sent[x.conn] = <<>>
      /\ LostOnce(callbacks)
  BY <1>1, <1>2, LossesConn DEF RoomInv, LossesAreNews
<1>7. /\ LostOnce(rest)
      /\ Losses(rest) \subseteq Losses(callbacks)
      /\ info.new \in Lost => info \in Losses(callbacks) /\ \A x \in Losses(rest) : x.conn # c
  BY <1>2, <1>3, <1>6, LossesTaken
<1>8. /\ {info.old, info.new} \subseteq DOMAIN status
      /\ status[info.new] = "CONNECTING" => info.new = "Connecting"
      /\ status[info.new] \in LostStatus => info.new \in Lost
      /\ info.old = "Connected" => status[info.old] = "CONNECTED"
  <2>1. "Connected" \in DOMAIN status /\ status["Connected"] = "CONNECTED"
    BY DEF CONNECTION_STATUS_MAPPINGS
  <2>2. QED
    BY <1>5, <2>1, MappingFacts
<1>9. info.new = "Connecting" \/ c \in Registered => Serving(c, rest)
  BY <1>1, <1>3, TakenServing
<1>10. Entering = {} /\ Leaving = {} /\ recipients = {} /\ roomNews = {}
  BY <1>1, NoNews DEF Entering, Leaving, IInv, ControlMatchesState
<1>11. /\ roomPlace \in [Conn -> {"inside", "cutOff", "over", "outside"}]
       /\ \A x \in Conn : roomPlace[x] =
            IF x \in Registered THEN IF handle[x] = "Connected" THEN "inside" ELSE "cutOff"
            ELSE IF handle[x] = "Destroyed" THEN "over" ELSE "outside"
  BY <1>2, <1>10 DEF roomPlace, PlaceOf
<1> HIDE DEF info, rest, status, c
<1>12. CASE status[info.new] = "CONNECTING" /\ OnConnecting(c, rest)
  <2>1. info.new = "Connecting" /\ Serving(c, rest)
    BY <1>8, <1>9, <1>12
  <2>2. c \notin Registered
    <3>1. c \in PendingConnects(callbacks)
      BY <1>2, <1>3, <2>1, TakenFacts DEF info, c
    <3>2. QED
      BY <3>1 DEF IInv, CallbacksAreNews
  <2> DEFINE table == createClientConnection(connections, c)
  <2>3. /\ serving' = c
        /\ UNCHANGED <<sent, outcome, recipients>>
        /\ IF CanAccept(c)
           THEN /\ AcceptConnection(c, rest)
                /\ connections' = accepted(table, c)
                /\ pc' = "setPollGroup"
           ELSE closeClientConnection(table, c, rest) /\ UNCHANGED pc
    BY <1>12, <2>2 DEF OnConnecting
  <2>4. /\ table \in [Conn -> {"ABSENT"} \cup ConnectionState]
        /\ \A x \in Conn \ {c} : table[x] = connections[x]
    BY <1>2, <1>5 DEF createClientConnection, ConnectionState
  <2>5. handle[c] \in Live /\ sent[c] = <<>>
    BY <1>5, <2>1, <2>2 DEF Serving, RoomInv, Greeted, Live, Lost
  <2>6. CASE CanAccept(c)
    <3>1. /\ handle[c] = "Connecting" /\ handle' = [handle EXCEPT ![c] = "Connected"]
          /\ callbacks' = Posted(rest, c, "Connecting", "Connected")
          /\ connections' = [table EXCEPT ![c] = "CONNECTED"] /\ pc' = "setPollGroup"
      BY <2>3, <2>6 DEF CanAccept, AcceptConnection, accepted
    <3>2. handle'[c] = "Connected" /\ \A x \in Conn \ {c} : handle'[x] = handle[x]
      BY <1>2, <1>5, <3>1
    <3>3. Registered' = Registered \cup {c}
      BY <1>5, <2>4, <3>1 DEF Registered
    <3>4. Losses(callbacks') = Losses(rest) /\ LostOnce(callbacks')
      <4>1. "Connecting" \in SteamState /\ "Connected" \in SteamState /\ "Connected" \notin Lost
        BY DEF SteamState, Live, Lost
      <4>2. QED
        BY <1>4, <1>5, <1>7, <3>1, <4>1, LossesPosted
    <3>5. \A x \in Losses(callbacks) : x.conn # c
      BY <1>6, <3>1 DEF Lost
    <3>6. LossesAreNews'
      BY <1>6, <1>7, <2>3, <3>2, <3>3, <3>4, <3>5 DEF LossesAreNews
    <3>7. Greeted'
      <4>1. \A x \in Conn \ Registered' : handle'[x] # "Destroyed" => sent[x] = <<>>
        BY <3>2, <3>3 DEF RoomInv, Greeted
      <4>2. QED
        BY <2>3, <2>5, <3>1, <4>1 DEF Greeted
    <3>8. Entering' = {c} /\ Leaving' = {} /\ roomNews' = {}
      BY <1>10, <2>3, <3>1, NoNews DEF Entering, Leaving
    <3>9. \A x \in Conn : roomPlace'[x] = roomPlace[x]
      BY <1>5, <1>11, <2>2, <2>3, <2>5, <3>1, <3>2, <3>3, <3>8 DEF roomPlace, PlaceOf
    <3>10. UNCHANGED <<roomPlace, sent, roomNews>>
      BY <1>10, <2>3, <3>8, <3>9 DEF roomPlace
    <3>11. QED
      BY <2>3, <3>1, <3>6, <3>7, <3>10 DEF RoomInv, FarewellIsForLost, AbortOnlyForUnwelcomed
  <2>7. CASE ~CanAccept(c)
    <3>1. closeClientConnection(table, c, rest) /\ pc' = "RunCallbacks" /\ outcome' = "running"
      BY <1>1, <2>3, <2>7
    <3> HIDE DEF table
    <3>2. /\ RoomInv'
          /\ Registered' = Registered \ {c}
          /\ handle'[c] = "Destroyed"
          /\ \A x \in Conn \ {c} : handle'[x] = handle[x]
      BY <1>1, <1>4, <1>5, <1>7, <2>3, <2>4, <2>5, <3>1, CloseKeepsRoomInv
    <3>3. Entering' = {} /\ Leaving' = {}
      BY <3>1 DEF Entering, Leaving
    <3>4. UNCHANGED <<sent, roomNews>>
      BY <1>10, <2>3, NoNews
    <3>5. roomPlace[c] \in {"over", "outside"} /\ roomPlace[c] = "outside"
      BY <1>5, <1>11, <2>2, <2>5 DEF Live, Lost
    <3>6. roomPlace' = [roomPlace EXCEPT ![c] = "over"]
      <4>1. \A x \in Conn : roomPlace'[x] = IF x = c THEN "over" ELSE roomPlace[x]
        BY <1>11, <3>2, <3>3 DEF roomPlace, PlaceOf
      <4>2. QED
        BY <4>1 DEF roomPlace
    <3>7. QED
      BY <1>5, <3>2, <3>4, <3>5, <3>6 DEF Room!LobbyNext, Room!Refuse
  <2>8. QED
    BY <2>6, <2>7
<1>13. CASE status[info.new] \in LostStatus /\ OnLost(c, status[info.old], rest)
  <2>1. /\ serving' = c /\ callbacks' = rest /\ UNCHANGED <<handle, sent, connections, Registered>>
        /\ info.new \in Lost
        /\ info \in Losses(callbacks) /\ \A x \in Losses(rest) : x.conn # c
    BY <1>7, <1>8, <1>13 DEF OnLost, Registered
  <2>2. LossesAreNews'
    BY <1>1, <1>6, <1>7, <2>1 DEF LossesAreNews
  <2>3. CASE c \notin Registered
    <3>1. outcome' = "notRegistered" /\ UNCHANGED <<pc, recipients>>
      BY <1>13, <2>3 DEF OnLost
    <3>2. sent[c] = <<>>
      BY <1>6, <2>1, <2>3 DEF c
    <3>3. Entering' = {} /\ Leaving' = {} /\ roomNews' = {}
      BY <1>1, <1>10, <3>1, NoNews DEF Entering, Leaving
    <3>4. UNCHANGED <<roomPlace, sent, roomNews>>
      BY <1>10, <2>1, <3>3 DEF roomPlace, PlaceOf
    <3>5. Greeted'
      BY <1>1, <2>1, <3>1 DEF RoomInv, Greeted
    <3>6. QED
      BY <1>1, <2>1, <2>2, <3>1, <3>2, <3>4, <3>5 DEF RoomInv, FarewellIsForLost, AbortOnlyForUnwelcomed
  <2>4. CASE c \in Registered
    <3>1. handle[c] \in Lost /\ info.old = "Connected" /\ handle[c] # "Connected"
      <4>1. handle[c] \in {"Destroyed"} \cup Lost /\ info.old = "Connected"
        BY <1>6, <2>1, <2>4 DEF c
      <4>2. QED
        BY <1>2, <2>4, <4>1 DEF Lost
    <3>2. recipients' = connectedExcept(c) /\ pc' = "farewell" /\ UNCHANGED outcome
      BY <1>8, <1>13, <2>4, <3>1 DEF OnLost, wasConnected
    <3>3. Greeted'
      BY <2>1, <3>2 DEF RoomInv, Greeted
    <3>4. FarewellIsForLost'
      BY <2>1, <3>1 DEF FarewellIsForLost
    <3>5. Entering' = {} /\ Leaving' = {c}
      BY <2>1, <3>2 DEF Entering, Leaving
    <3>6. roomPlace[c] = "cutOff"
      BY <1>5, <1>11, <2>4, <3>1
    <3>7. roomPlace' = [roomPlace EXCEPT ![c] = "over"]
      <4>1. \A x \in Conn : roomPlace'[x] = IF x = c THEN "over" ELSE roomPlace[x]
        BY <1>11, <2>1, <3>5 DEF roomPlace, PlaceOf
      <4>2. QED
        BY <4>1 DEF roomPlace
    <3>8. connectedExcept(c) = Room!Members \ {c}
      BY <1>2, <1>11 DEF connectedExcept, Registered, Room!Members
    <3>9. roomNews' = Room!Owed(Room!Members \ {c}, "left", c)
      BY <2>1, <3>2, <3>8 DEF roomNews, Room!Owed
    <3>10. Room!Leave(c)
      BY <1>10, <2>1, <3>6, <3>7, <3>9 DEF Room!Leave
    <3>11. QED
      BY <1>5, <2>2, <3>2, <3>3, <3>4, <3>10 DEF Room!LobbyNext, RoomInv, AbortOnlyForUnwelcomed
  <2>5. QED
    BY <2>3, <2>4
<1>14. CASE status[info.new] \notin LostStatus \cup {"CONNECTING"} /\ Ignored(rest, outcome)
  <2>1. callbacks' = rest /\ UNCHANGED <<outcome, handle, sent, connections, pc, serving, recipients>>
    BY <1>14 DEF Ignored
  <2>2. UNCHANGED <<Registered, Entering, Leaving>>
    BY <2>1 DEF Registered, Entering, Leaving
  <2>3. UNCHANGED <<roomPlace, sent, roomNews>>
    BY <2>1, <2>2 DEF roomPlace, roomNews, PlaceOf
  <2>4. LossesAreNews'
    BY <1>6, <1>7, <2>1, <2>2 DEF LossesAreNews
  <2>5. Greeted'
    BY <1>1, <2>1, <2>2 DEF RoomInv, Greeted
  <2>6. QED
    BY <1>1, <2>1, <2>3, <2>4, <2>5 DEF RoomInv, FarewellIsForLost, AbortOnlyForUnwelcomed
<1>15. QED
  BY <1>8, <1>12, <1>13, <1>14 DEF Dispatch, info, rest, status, c

\* A turn of a broadcast is a member being told.
LEMMA TurnInRoom ==
  ASSUME IInv, RoomInv, outcome = "running", pc \in {"announce", "farewell"},
         sendToNext(IF pc = "announce" THEN "joined" ELSE "left"),
         UNCHANGED <<serving, outcome>>
  PROVE  RoomInv' /\ Room!LobbyNext
PROOF
<1> DEFINE kind == IF pc = "announce" THEN "joined" ELSE "left"
           notice == [kind |-> kind, who |-> serving]
<1>1. PICK r \in recipients : SendMessageToConnection(r, notice) /\ recipients' = recipients \ {r}
  BY DEF sendToNext, sendReliablePacket
<1>2. UNCHANGED <<handle, callbacks, connections, pc, Registered, Entering, Leaving>>
  BY DEF sendToNext, Registered, Entering, Leaving
<1>3. /\ serving \in Registered /\ r \in Registered \ {serving} /\ r \in Conn
      /\ sent \in [Conn -> Seq(Notice)]
  BY DEF IInv, TypeOK, SocketsTypeOK, ControlMatchesState, InsideCallback, Registered
<1>4. roomPlace[r] = IF handle[r] = "Connected" THEN "inside" ELSE "cutOff"
  BY <1>3 DEF roomPlace, PlaceOf, Entering, Leaving
<1>5. UNCHANGED roomPlace
  BY <1>2 DEF roomPlace, PlaceOf
<1> DEFINE d == [to |-> r, notice |-> notice]
<1>6. /\ d \in roomNews
      /\ roomNews' = roomNews \ {d}
  <2>1. roomNews = {[to |-> x, notice |-> notice] : x \in recipients}
    BY DEF roomNews
  <2>2. roomNews' = {[to |-> x, notice |-> notice] : x \in recipients'}
    BY <1>2 DEF roomNews
  <2> HIDE DEF notice
  <2>3. QED
    BY <1>1, <2>1, <2>2
<1>7. sent' = [sent EXCEPT ![d.to] = IF roomPlace[d.to] = "inside" THEN Append(@, d.notice) ELSE @]
  <2> HIDE DEF notice
  <2>1. sent' = [x \in Conn |-> IF x = r /\ handle[x] = "Connected" THEN Append(sent[x], notice) ELSE sent[x]]
    BY <1>1 DEF SendMessageToConnection
  <2>2. QED
    BY <1>3, <1>4, <2>1
<1>8. \A x \in Conn \ Registered : sent'[x] = sent[x]
  BY <1>3, <1>7
<1> HIDE DEF d
<1>9. Room!LobbyNext
  BY <1>5, <1>6, <1>7 DEF Room!LobbyNext, Room!Tell
<1>10. LossesAreNews'
  <2>1. \A x \in Losses(callbacks) : x.conn \in Conn
    BY LossesConn DEF IInv, TypeOK, SocketsTypeOK
  <2>2. QED
    BY <1>2, <1>8, <2>1 DEF RoomInv, LossesAreNews
<1>11. Greeted'
  BY <1>2, <1>8 DEF RoomInv, Greeted
<1>12. FarewellIsForLost'
  BY <1>2 DEF RoomInv, FarewellIsForLost
<1>13. QED
  BY <1>9, <1>10, <1>11, <1>12 DEF RoomInv, AbortOnlyForUnwelcomed

\* The rest of the callback: a connection is refused after all, or welcomed; the
\* others are told; one that left is closed without being noticed any more.
LEMMA AcceptedInRoom ==
  ASSUME IInv, RoomInv, outcome = "running", SetPollGroup \/ Welcome \/ Announce \/ Farewell
  PROVE  RoomInv' /\ (Room!LobbyNext \/ UNCHANGED <<roomPlace, sent, roomNews>>)
PROOF
<1> DEFINE c == serving
           welcome == [kind |-> "welcome", who |-> c]
<1>1. InsideCallback /\ UNCHANGED <<serving, outcome>> /\ pc # "kill"
  BY DEF SetPollGroup, Welcome, Announce, Farewell, InsideCallback
<1>2. /\ c \in Conn /\ c \in Registered
      /\ callbacks \in Seq(Change) /\ handle \in [Conn -> {"Unused", "Destroyed"} \cup Live]
      /\ connections \in [Conn -> {"ABSENT"} \cup ConnectionState]
      /\ sent \in [Conn -> Seq(Notice)]
      /\ \A x \in Registered : connections[x] = "CONNECTED" /\ handle[x] \in {"Connected"} \cup Lost
  BY <1>1 DEF IInv, TypeOK, SocketsTypeOK, ServerTypeOK, TableMatchesSockets, ControlMatchesState,
              Registered
<1>3. /\ LostOnce(callbacks)
      /\ \A x \in Losses(callbacks) :
           /\ x.conn \in Conn
           /\ handle[x.conn] \in {"Destroyed"} \cup Lost
           /\ x.conn \in Registered => x.old = "Connected"
           /\ x.conn \notin Registered => sent[x.conn] = <<>>
  BY <1>1, <1>2, LossesConn DEF RoomInv, LossesAreNews
<1>4. pc \in {"setPollGroup", "welcome"} => /\ Entering = {c} /\ Leaving = {}
                                           /\ recipients = {} /\ roomNews = {}
                                           /\ sent[c] = <<>>
  BY NoNews DEF Entering, Leaving, IInv, ControlMatchesState, RoomInv, Greeted
<1>5. pc \in {"setPollGroup", "welcome"} =>
        /\ roomPlace[c] = "outside"
        /\ \A x \in Conn \ {c} : roomPlace[x] =
             IF x \in Registered THEN IF handle[x] = "Connected" THEN "inside" ELSE "cutOff"
             ELSE IF handle[x] = "Destroyed" THEN "over" ELSE "outside"
  BY <1>2, <1>4 DEF roomPlace, PlaceOf, Lost
<1>6. handle[c] \in Live
  BY <1>2 DEF Live
<1>7. CASE SetPollGroup
  <2>1. UNCHANGED <<sent, recipients>> /\ pc = "setPollGroup"
    BY <1>7 DEF SetPollGroup
  <2>2. roomNews' = {}
    BY <1>4, <2>1, NoNews
  <2>3. CASE SetConnectionPollGroup(c) /\ pc' = "welcome" /\ UNCHANGED connections
    <3>1. UNCHANGED <<handle, callbacks, connections, Registered>>
      BY <2>3 DEF SetConnectionPollGroup, Registered
    <3>2. UNCHANGED <<Entering, Leaving>>
      BY <1>1, <1>4, <2>1, <2>3 DEF Entering, Leaving
    <3>3. RoomInv'
      BY <1>1, <1>4, <2>1, <2>3, <3>1
         DEF RoomInv, Greeted, LossesAreNews, FarewellIsForLost, AbortOnlyForUnwelcomed
    <3>4. UNCHANGED roomPlace
      BY <3>1, <3>2 DEF roomPlace, PlaceOf
    <3>5. QED
      BY <1>4, <2>1, <2>2, <3>3, <3>4
  <2>4. CASE closeClientConnection(connections, c, callbacks) /\ pc' = "RunCallbacks"
    <3>1. /\ RoomInv'
          /\ Registered' = Registered \ {c}
          /\ handle'[c] = "Destroyed"
          /\ \A x \in Conn \ {c} : handle'[x] = handle[x]
      BY <1>1, <1>2, <1>3, <1>4, <1>6, <2>1, <2>4, CloseKeepsRoomInv
    <3>2. Entering' = {} /\ Leaving' = {}
      BY <2>4 DEF Entering, Leaving
    <3>3. roomPlace' = [roomPlace EXCEPT ![c] = "over"]
      <4>1. \A x \in Conn : roomPlace'[x] = IF x = c THEN "over" ELSE roomPlace[x]
        BY <1>5, <2>1, <3>1, <3>2 DEF roomPlace, PlaceOf
      <4>2. QED
        BY <4>1 DEF roomPlace
    <3>4. QED
      BY <1>2, <1>4, <1>5, <2>1, <2>2, <3>1, <3>3 DEF Room!LobbyNext, Room!Refuse
  <2>5. QED
    BY <1>7, <2>3, <2>4 DEF SetPollGroup
<1>8. CASE Welcome
  <2> DEFINE where == IF handle[c] = "Connected" THEN "inside" ELSE "cutOff"
  <2>1. /\ pc = "welcome" /\ pc' = "announce"
        /\ UNCHANGED <<handle, callbacks, connections, Registered>>
        /\ recipients' = connectedExcept(c)
        /\ sent' = [r \in Conn |-> IF r = c /\ handle[r] = "Connected"
                                   THEN Append(sent[r], welcome) ELSE sent[r]]
    BY <1>8 DEF Welcome, sendReliablePacket, SendMessageToConnection, Registered
  <2>2. Append(<<>>, welcome) = <<welcome>>
    OBVIOUS
  <2>3. sent' = [sent EXCEPT ![c] = IF where = "inside" THEN <<welcome>> ELSE <<>>]
    <3> HIDE DEF welcome
    <3>1. QED
      BY <1>2, <1>4, <2>1, <2>2
  <2>4. Entering' = {} /\ Leaving' = {}
    BY <2>1 DEF Entering, Leaving
  <2>5. roomPlace' = [roomPlace EXCEPT ![c] = where]
    <3>1. \A x \in Conn : roomPlace'[x] = IF x = c THEN where ELSE roomPlace[x]
      BY <1>2, <1>5, <2>1, <2>4 DEF roomPlace, PlaceOf
    <3>2. QED
      BY <3>1 DEF roomPlace
  <2>6. connectedExcept(c) = Room!Members
    BY <1>2, <1>5, <2>1 DEF connectedExcept, Registered, Room!Members
  <2>7. roomNews' = Room!Owed(Room!Members, "joined", c)
    BY <1>1, <2>1, <2>6 DEF roomNews, Room!Owed
  <2>8. Room!Join(c)
    <3>1. where \in {"inside", "cutOff"}
      OBVIOUS
    <3> HIDE DEF where
    <3>2. QED
      BY <1>4, <1>5, <2>1, <2>3, <2>5, <2>7, <3>1 DEF Room!Join
  <2>9. Greeted'
    BY <1>2, <2>1 DEF RoomInv, Greeted
  <2>10. LossesAreNews'
    BY <1>2, <1>3, <2>1 DEF LossesAreNews
  <2>11. QED
    BY <1>1, <1>2, <2>1, <2>8, <2>9, <2>10
       DEF RoomInv, FarewellIsForLost, AbortOnlyForUnwelcomed, Room!LobbyNext
<1>9. CASE Announce /\ recipients = {} /\ UNCHANGED <<socketVars, connections, recipients>> /\ pc' = "RunCallbacks"
  <2>1. /\ pc = "announce" /\ UNCHANGED <<handle, callbacks, sent, connections, Registered>>
        /\ roomNews = {} /\ roomNews' = {}
    BY <1>9, NoNews DEF Announce, socketVars, Registered
  <2>2. UNCHANGED <<Entering, Leaving>>
    BY <1>9, <2>1 DEF Entering, Leaving
  <2>3. UNCHANGED roomPlace
    BY <2>1, <2>2 DEF roomPlace, PlaceOf
  <2>4. QED
    BY <1>1, <1>9, <2>1, <2>3
       DEF RoomInv, Greeted, LossesAreNews, FarewellIsForLost, AbortOnlyForUnwelcomed
<1>10. CASE /\ Farewell /\ recipients = {} /\ UNCHANGED <<sent, recipients>>
            /\ closeClientConnection(connections, c, callbacks) /\ pc' = "RunCallbacks"
  <2>1. pc = "farewell" /\ roomNews = {} /\ roomNews' = {}
    BY <1>10, NoNews DEF Farewell
  <2>2. \A x \in Losses(callbacks) : x.conn # c
    BY <2>1 DEF RoomInv, FarewellIsForLost
  <2>3. /\ RoomInv'
        /\ Registered' = Registered \ {c}
        /\ handle'[c] = "Destroyed"
        /\ \A x \in Conn \ {c} : handle'[x] = handle[x]
    BY <1>1, <1>2, <1>3, <1>6, <1>10, <2>2, CloseKeepsRoomInv
  <2>4. Entering = {} /\ Entering' = {} /\ Leaving = {c} /\ Leaving' = {}
    BY <1>10, <2>1 DEF Entering, Leaving
  <2>5. \A x \in Conn : roomPlace'[x] = roomPlace[x]
    BY <2>3, <2>4 DEF roomPlace, PlaceOf
  <2>6. UNCHANGED roomPlace
    BY <2>5 DEF roomPlace
  <2>7. QED
    BY <1>10, <2>1, <2>3, <2>6
<1>11. CASE Announce /\ sendToNext("joined")
  BY <1>1, <1>11, TurnInRoom DEF Announce
<1>12. CASE Farewell /\ sendToNext("left")
  BY <1>1, <1>12, TurnInRoom DEF Farewell
<1>13. QED
  BY <1>7, <1>8, <1>9, <1>10, <1>11, <1>12 DEF Announce, Farewell

LEMMA InitInRoom == Init => RoomInv /\ Room!LobbyInit
PROOF
<1> SUFFICES ASSUME Init PROVE RoomInv /\ Room!LobbyInit
  OBVIOUS
<1>1. /\ Registered = {} /\ Entering = {} /\ Leaving = {} /\ callbacks = <<>>
      /\ \A c \in Conn : handle[c] = "Unused"
      /\ sent = [c \in Conn |-> <<>>]
      /\ pc = "openConnection" /\ outcome = "running" /\ roomNews = {}
  BY NoNews DEF Init, SocketsInit, ServerInit, Registered, Entering, Leaving
<1>2. DOMAIN callbacks = {}
  BY <1>1
<1>3. Losses(callbacks) = {} /\ LostOnce(callbacks)
  BY <1>2 DEF Losses, LostOnce
<1>4. RoomInv
  BY <1>1, <1>3 DEF RoomInv, Greeted, LossesAreNews, FarewellIsForLost, AbortOnlyForUnwelcomed
<1>5. Room!LobbyInit
  BY <1>1 DEF Room!LobbyInit, roomPlace, PlaceOf
<1>6. QED
  BY <1>4, <1>5

LEMMA StepInRoom ==
  ASSUME IInv, RoomInv, [Next]_vars
  PROVE  RoomInv' /\ (Room!LobbyNext \/ UNCHANGED <<roomPlace, sent, roomNews>>)
PROOF
<1>1. CASE UNCHANGED vars
  <2>1. UNCHANGED <<Registered, Entering, Leaving>>
    BY <1>1 DEF vars, serverVars, Registered, Entering, Leaving
  <2>2. UNCHANGED <<roomPlace, sent, roomNews>>
    BY <1>1, <2>1 DEF vars, socketVars, roomPlace, roomNews, PlaceOf
  <2>3. RoomInv'
    BY <1>1, <2>1 DEF vars, socketVars, RoomInv, Greeted, LossesAreNews, FarewellIsForLost,
                      AbortOnlyForUnwelcomed
  <2>4. QED
    BY <2>2, <2>3
<1>2. CASE Next
  BY <1>2, NetworkInRoom, MainLoopInRoom, CloseInRoom, DispatchInRoom, AcceptedInRoom DEF Next, Main
<1>3. QED
  BY <1>1, <1>2

LEMMA RoomInvariance == Spec => []RoomInv
PROOF
<1>1. IInv /\ RoomInv /\ [Next]_vars => RoomInv'
  BY StepInRoom
<1>2. QED
  BY InitInRoom, Invariance, <1>1, PTL DEF Spec

\* The callbacks, the table and the sockets together behave as the room, with a
\* call of the library for each recipient of an announcement and the network
\* between any two of them: whoever is lost in the middle of one, those that
\* remain are told of each arrival and each departure, of one at a time
\* (ExampleServer.cpp:36-103, Server.cpp:129-144).
THEOREM ServerImplementsLobby == Spec => ImplementsLobby
PROOF
<1>1. IInv /\ RoomInv /\ [Next]_vars => [Room!LobbyNext]_<<roomPlace, sent, roomNews>>
  BY StepInRoom
<1>2. QED
  BY InitInRoom, Invariance, RoomInvariance, <1>1, PTL
     DEF Spec, ImplementsLobby, Room!LobbySpec, Room!lobbyVars

\* The process ends over a connection without an entry only when that
\* connection was told nothing (ExampleServer.cpp:45-46).
THEOREM AbortIsForUnwelcomed == Spec => []AbortOnlyForUnwelcomed
PROOF
<1>1. RoomInv => AbortOnlyForUnwelcomed
  BY DEF RoomInv
<1>2. QED
  BY RoomInvariance, <1>1, PTL

\* What is proved of the room holds of the server.
RoomProofs == INSTANCE LobbyProofs WITH place <- roomPlace, inbox <- sent, news <- roomNews

LEMMA RoomLobbyInv == Spec => [](RoomProofs!LobbyInv /\ RoomProofs!RostersAgree)
PROOF
<1>1. Room!LobbyInit => RoomProofs!LobbyInit
  BY DEF Room!LobbyInit, RoomProofs!LobbyInit
<1>2. Room!LobbyNext => RoomProofs!LobbyNext
  BY DEF Room!LobbyNext, Room!Join, Room!Tell, Room!CutOff, Room!Leave, Room!Refuse, Room!CloseRoom,
         Room!Owed, Room!Members,
         RoomProofs!LobbyNext, RoomProofs!Join, RoomProofs!Tell, RoomProofs!CutOff, RoomProofs!Leave,
         RoomProofs!Refuse, RoomProofs!CloseRoom, RoomProofs!Owed, RoomProofs!Members
<1>3. RoomProofs!LobbySpec => [](RoomProofs!LobbyInv /\ RoomProofs!RostersAgree)
  BY RoomProofs!LobbyInvariance
<1>4. QED
  BY ServerImplementsLobby, <1>1, <1>2, <1>3, PTL
     DEF ImplementsLobby, Room!LobbySpec, Room!lobbyVars,
         RoomProofs!LobbySpec, RoomProofs!lobbyVars

\* Whatever the clients and the network do, a client is told nothing twice,
\* nothing before its welcome, and nothing of a client after its departure
\* (ExampleServer.cpp:50-56 and 85-92).
THEOREM StreamsAreWellFormed == Spec => []StreamsWellFormed
PROOF
<1>1. RoomProofs!LobbyInv => StreamsWellFormed
  BY DEF StreamsWellFormed, RoomProofs!LobbyInv, RoomProofs!StreamsMatchPlaces, RoomProofs!WellFormed
<1>2. QED
  BY RoomLobbyInv, <1>1, PTL

\* Between callbacks every client that is present believes in entries only, and
\* of two that are present exactly one knows of the other, even if one that was
\* to be told was lost before its turn (ExampleServer.cpp:50-56 and 85-92,
\* Server.cpp:129-144).
THEOREM RostersAreRight == Spec => []RosterAgreement
PROOF
<1>1. IInv /\ RoomProofs!RostersAgree => RosterAgreement
  <2> SUFFICES ASSUME IInv, RoomProofs!RostersAgree, ~InsideCallback
               PROVE  \A r \in Present :
                        /\ Roster(r) \subseteq Registered
                        /\ \A s \in Present \ {r} : (s \in Roster(r)) # (r \in Roster(s))
    BY DEF RosterAgreement
  <2>1. Entering = {} /\ Leaving = {} /\ Registered \subseteq Conn
    BY DEF Entering, Leaving, InsideCallback, Registered
  <2>2. roomNews = {}
    BY NoNews DEF IInv, ControlMatchesState, InsideCallback
  <2>3. RoomProofs!Inside = Present /\ RoomProofs!Members = Registered
    BY <2>1 DEF RoomProofs!Inside, RoomProofs!Members, Present, roomPlace, PlaceOf
  <2>4. \A r : RoomProofs!Roster(r) = Roster(r)
    BY DEF RoomProofs!Roster, Roster, RoomProofs!Told, Told
  <2>5. QED
    BY <2>2, <2>3, <2>4 DEF RoomProofs!RostersAgree
<1>2. QED
  BY Invariance, RoomLobbyInv, <1>1, PTL
=============================================================================
