------------------------- MODULE SteamSocketsProofs -------------------------
(***************************************************************************)
(* What every call of the socket library, and everything the network does, *)
(* leaves of its types.  The proofs about the modules that make the calls  *)
(* rest on these lemmas.                                                   *)
(***************************************************************************)
EXTENDS SteamSockets, SequenceTheorems, FiniteSetTheorems, TLAPS

LOCAL INSTANCE SequencesExt

\* The states a connection may report, by name.
LEMMA States ==
  /\ SteamState = {"None"} \cup Live
  /\ Live = {"Connecting", "Connected", "ClosedByPeer", "ProblemDetectedLocally"}
  /\ Lost = {"ClosedByPeer", "ProblemDetectedLocally"}
PROOF
  BY DEF SteamState, Live, Lost

\* Before the first call.
LEMMA InitSocketsType == SocketsInit => SocketsTypeOK
PROOF
<1>1. <<>> \in Seq(Change) /\ <<>> \in Seq(Notice) /\ 0 \in 0 .. MaxUnread
  BY SocketsAssumption
<1>2. QED
  BY <1>1 DEF SocketsInit, SocketsTypeOK

\* A step that does not call the library.
LEMMA SocketsUnchanged == SocketsTypeOK /\ UNCHANGED socketVars => SocketsTypeOK'
PROOF
  BY DEF SocketsTypeOK, socketVars

\* A callback posted at the end of a queue.
LEMMA PostedChange ==
  ASSUME NEW queue \in Seq(Change), NEW c \in Conn, NEW from \in SteamState, NEW to \in SteamState
  PROVE  Posted(queue, c, from, to) \in Seq(Change)
PROOF
<1>1. [conn |-> c, old |-> from, new |-> to] \in Change
  BY DEF Change
<1>2. QED
  BY <1>1, AppendProperties DEF Posted

\* Accepting a connection.
LEMMA AcceptType ==
  ASSUME SocketsTypeOK, NEW c \in Conn, NEW queue \in Seq(Change),
         AcceptConnection(c, queue), UNCHANGED sent
  PROVE  SocketsTypeOK'
PROOF
<1>1. callbacks' \in Seq(Change)
  BY States, PostedChange DEF AcceptConnection
<1>2. QED
  BY <1>1, States DEF AcceptConnection, SocketsTypeOK

\* Closing a connection that is still known to the library.
LEMMA CloseType ==
  ASSUME SocketsTypeOK, NEW c \in Conn, handle[c] \in Live, NEW queue \in Seq(Change),
         CloseConnection(c, queue), UNCHANGED sent
  PROVE  SocketsTypeOK'
PROOF
<1>1. callbacks' \in Seq(Change)
  BY States, PostedChange DEF CloseConnection
<1>2. unread' \in [Conn -> 0 .. MaxUnread]
  BY SocketsAssumption DEF CloseConnection, SocketsTypeOK
<1>3. QED
  BY <1>1, <1>2, States DEF CloseConnection, SocketsTypeOK

\* The callbacks that closing everything adds to a queue: behind those it held,
\* each about a connection that was closed, and none about a loss.
LEMMA ClosingsFacts ==
  ASSUME IsFiniteSet(Conn), NEW S \in SUBSET Conn, \A c \in S : handle[c] \in Live,
         NEW order \in SetToSeqs(S), NEW queue \in Seq(Change)
  PROVE  /\ queue \o Closings(order) \in Seq(Change)
         /\ Len(queue) \in Nat /\ Len(queue \o Closings(order)) \in Nat
         /\ Len(queue) <= Len(queue \o Closings(order))
         /\ DOMAIN queue \subseteq DOMAIN (queue \o Closings(order))
         /\ \A i \in DOMAIN queue : (queue \o Closings(order))[i] = queue[i]
         /\ \A i \in DOMAIN (queue \o Closings(order)) \ DOMAIN queue :
              /\ (queue \o Closings(order))[i].conn \in S
              /\ (queue \o Closings(order))[i].new = "None"
PROOF
<1>1. Cardinality(S) \in Nat
  BY FS_Subset, FS_CardinalityType
<1>2. order \in [1 .. Cardinality(S) -> S]
  BY DEF SetToSeqs
<1>3. \A i \in 1 .. Cardinality(S) : Closings(order)[i] \in [conn : S, old : Live, new : {"None"}]
  BY <1>2 DEF Closings
<1>4. /\ DOMAIN Closings(order) = 1 .. Cardinality(S)
      /\ Closings(order) \in [1 .. Cardinality(S) -> [conn : S, old : Live, new : {"None"}]]
  BY <1>2, <1>3 DEF Closings
<1>5. Closings(order) \in Seq(Change) /\ Len(Closings(order)) = Cardinality(S)
  <2>1. [conn : S, old : Live, new : {"None"}] \subseteq Change
    BY DEF Change, SteamState
  <2>2. QED
    BY <1>1, <1>4, <2>1
<1>6. /\ queue \o Closings(order) \in Seq(Change)
      /\ Len(queue \o Closings(order)) = Len(queue) + Cardinality(S)
      /\ \A i \in 1 .. Len(queue) + Cardinality(S) :
           (queue \o Closings(order))[i] = IF i <= Len(queue) THEN queue[i] ELSE Closings(order)[i - Len(queue)]
  BY <1>5, ConcatProperties
<1>7. /\ Len(queue) \in Nat /\ DOMAIN queue = 1 .. Len(queue)
      /\ DOMAIN (queue \o Closings(order)) = 1 .. Len(queue) + Cardinality(S)
  BY <1>6, LenProperties
<1>8. \A i \in DOMAIN (queue \o Closings(order)) \ DOMAIN queue :
        /\ i - Len(queue) \in 1 .. Cardinality(S)
        /\ (queue \o Closings(order))[i] = Closings(order)[i - Len(queue)]
  BY <1>1, <1>6, <1>7
<1>9. QED
  BY <1>1, <1>4, <1>6, <1>7, <1>8

\* Closing everything.
LEMMA CloseAllType ==
  ASSUME IsFiniteSet(Conn), SocketsTypeOK, NEW S \in SUBSET Conn, CloseAll(S)
  PROVE  SocketsTypeOK'
PROOF
<1>1. callbacks' \in Seq(Change)
  BY ClosingsFacts DEF CloseAll, SocketsTypeOK
<1>2. unread' \in [Conn -> 0 .. MaxUnread]
  BY SocketsAssumption DEF CloseAll, SocketsTypeOK
<1>3. QED
  BY <1>1, <1>2 DEF CloseAll, SocketsTypeOK

\* Joining the poll group.
LEMMA PollGroupType ==
  ASSUME SocketsTypeOK, NEW c \in Conn, SetConnectionPollGroup(c), UNCHANGED sent
  PROVE  SocketsTypeOK'
PROOF
  BY DEF SetConnectionPollGroup, SocketsTypeOK

\* Reading a packet.
LEMMA ReceiveType ==
  ASSUME SocketsTypeOK, NEW c \in Conn, unread[c] > 0, ReceiveMessage(c)
  PROVE  SocketsTypeOK'
PROOF
<1>1. unread' \in [Conn -> 0 .. MaxUnread]
  BY SocketsAssumption DEF ReceiveMessage, SocketsTypeOK
<1>2. QED
  BY <1>1 DEF ReceiveMessage, SocketsTypeOK

\* Sending a packet.
LEMMA SendType ==
  ASSUME SocketsTypeOK, NEW c, NEW notice \in Notice,
         SendMessageToConnection(c, notice), UNCHANGED <<handle, callbacks, unread, grouped>>
  PROVE  SocketsTypeOK'
PROOF
<1>1. sent' \in [Conn -> Seq(Notice)]
  <2>1. \A x \in Conn : sent[x] \in Seq(Notice) /\ Append(sent[x], notice) \in Seq(Notice)
    BY AppendProperties DEF SocketsTypeOK
  <2>2. QED
    BY <2>1 DEF SendMessageToConnection
<1>2. QED
  BY <1>1 DEF SocketsTypeOK

\* A connection that begins, at either end.
LEMMA ConnectType ==
  ASSUME SocketsTypeOK, NEW c \in Conn, PeerConnects(c) \/ ConnectByIPAddress(c)
  PROVE  SocketsTypeOK'
PROOF
<1>1. callbacks' \in Seq(Change)
  BY States, PostedChange DEF PeerConnects, ConnectByIPAddress, SocketsTypeOK
<1>2. QED
  BY <1>1, States DEF PeerConnects, ConnectByIPAddress, SocketsTypeOK

\* What the network and the peers do to it then.
LEMMA NetworkType ==
  ASSUME SocketsTypeOK, NEW c \in Conn,
         PeerAccepts(c) \/ (\E how \in Lost : PeerIsLost(c, how)) \/ PeerSends(c)
  PROVE  SocketsTypeOK'
PROOF
<1>1. CASE PeerAccepts(c)
  <2>1. callbacks' \in Seq(Change)
    BY <1>1, States, PostedChange DEF PeerAccepts, SocketsTypeOK
  <2>2. QED
    BY <1>1, <2>1, States DEF PeerAccepts, SocketsTypeOK
<1>2. ASSUME NEW how \in Lost, PeerIsLost(c, how)
      PROVE  SocketsTypeOK'
  <2>1. handle[c] \in SteamState /\ how \in SteamState
    BY <1>2, States DEF PeerIsLost
  <2>2. callbacks' \in Seq(Change)
    BY <1>2, <2>1, PostedChange DEF PeerIsLost, SocketsTypeOK
  <2>3. QED
    BY <1>2, <2>2, States DEF PeerIsLost, SocketsTypeOK
<1>3. CASE PeerSends(c)
  <2>1. unread' \in [Conn -> 0 .. MaxUnread]
    BY <1>3, SocketsAssumption DEF PeerSends, SocketsTypeOK
  <2>2. QED
    BY <1>3, <2>1 DEF PeerSends, SocketsTypeOK
<1>4. QED
  BY <1>1, <1>2, <1>3
=============================================================================
