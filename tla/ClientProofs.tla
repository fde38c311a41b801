---------------------------- MODULE ClientProofs ----------------------------
(***************************************************************************)
(* Proofs about class Client, in the example program and under any         *)
(* application.  For any number of messages and any bound, and whatever    *)
(* the network does between two calls, at most one packet of the example   *)
(* is refused; and for any number of connections made by any application,  *)
(* the end of each is reported and, unless the application was careless,   *)
(* is never taken for the end of another.                                  *)
(***************************************************************************)
EXTENDS ExampleClient, AnyClient, SteamSocketsProofs

-----------------------------------------------------------------------------
(* The callback queue.                                                     *)

\* A callback is taken off the front: the others move up.
LEMMA TakenFacts ==
  ASSUME NEW queue \in Seq(Change), queue # <<>>
  PROVE  /\ Tail(queue) \in Seq(Change) /\ Len(Tail(queue)) = Len(queue) - 1 /\ Len(queue) \in Nat \ {0}
         /\ 1 \in DOMAIN queue /\ Head(queue) = queue[1] /\ DOMAIN queue = 1 .. Len(queue)
         /\ \A i \in DOMAIN queue : i \in Nat \ {0} /\ queue[i] \in Change
         /\ \A i \in DOMAIN Tail(queue) :
              i \in Nat \ {0} /\ i + 1 \in DOMAIN queue /\ Tail(queue)[i] = queue[i + 1]
         /\ \A i \in DOMAIN queue \ {1} : i - 1 \in DOMAIN Tail(queue) /\ Tail(queue)[i - 1] = queue[i]
PROOF
<1> DEFINE rest == Tail(queue)
           n == Len(queue)
<1>1. /\ rest \in Seq(Change)
      /\ Len(rest) = n - 1
      /\ \A i \in 1 .. Len(rest) : rest[i] = queue[i + 1]
  BY HeadTailProperties
<1>2. n \in Nat \ {0} /\ Head(queue) = queue[1]
  BY EmptySeq
<1>3. /\ DOMAIN queue = 1 .. n /\ DOMAIN rest = 1 .. n - 1
      /\ \A i \in DOMAIN queue : queue[i] \in Change
  BY <1>1, LenProperties, ElementOfSeq
<1>4. \A i \in DOMAIN rest : i \in Nat \ {0} /\ i + 1 \in DOMAIN queue /\ rest[i] = queue[i + 1]
  BY <1>1, <1>2, <1>3
<1>5. \A i \in DOMAIN queue \ {1} : i \in Nat /\ i - 1 \in DOMAIN rest /\ i = (i - 1) + 1
  BY <1>2, <1>3
<1>6. \A i \in DOMAIN queue \ {1} : rest[i - 1] = queue[i]
  <2> TAKE i \in DOMAIN queue \ {1}
  <2>1. rest[i - 1] = queue[(i - 1) + 1]
    BY <1>4, <1>5
  <2>2. QED
    BY <1>5, <2>1
<1>7. 1 \in DOMAIN queue /\ \A i \in DOMAIN queue : i \in Nat \ {0}
  BY <1>2, <1>3
<1>8. QED
  BY <1>1, <1>2, <1>3, <1>4, <1>5, <1>6, <1>7

-----------------------------------------------------------------------------
(* The example program.                                                    *)

\* The variables that are not the library's.
ClientTypeOK ==
  /\ server_connection \in Conn \cup {NoConn}
  /\ packet_index \in 0 .. MaxProcessedPackets
  /\ batch \in Nat
  /\ pc \in {"initializeConnection", "connected", "processReceivedPackets",
             "processConnectionStateChanges", "RunCallbacks", "assert", "send", "kill"}
  /\ outcome \in {"running", "nullPacket", "notConnected", "finished"}
  /\ message_index \in 0 .. 2 * NumOfMessages

\* Nothing is used but the connection to the server.
OthersUnused == \A c \in Conn : c # server_connection => handle[c] = "Unused" /\ sent[c] = <<>>

\* What each place of the main thread goes with.
Places ==
  /\ pc = "initializeConnection" => callbacks = <<>> /\ \A c \in Conn : handle[c] = "Unused"
  /\ pc \in Waiting => message_index = 0 /\ \A c \in Conn : sent[c] = <<>>
  /\ pc \notin Waiting => server_connection \in Conn /\ handle[server_connection] \in {"Connected"} \cup Lost
  /\ pc = "send" => moreMessages /\ message_index = Len(sent[server_connection])

LEMMA Parts ==
  /\ IInv <=> /\ SocketsTypeOK /\ ClientTypeOK /\ AtMostOneRefused /\ LossIsLast
              /\ batch <= Len(callbacks) /\ OthersUnused /\ Places
  /\ IInv' <=> /\ SocketsTypeOK' /\ ClientTypeOK' /\ AtMostOneRefused' /\ LossIsLast'
               /\ batch' <= Len(callbacks') /\ OthersUnused' /\ Places'
PROOF
  BY DEF IInv, TypeOK, ClientTypeOK, OthersUnused, Places

\* A callback posted behind a queue that reports no loss.
LEMMA PostedLoss ==
  ASSUME NEW queue \in Seq(Change), NEW c \in Conn, NEW from \in SteamState, NEW to \in SteamState,
         \A i \in DOMAIN queue : queue[i].conn = c /\ queue[i].new \notin Lost
  PROVE  LET longer == Posted(queue, c, from, to) IN
         /\ longer \in Seq(Change) /\ Len(longer) = Len(queue) + 1 /\ Len(queue) \in Nat
         /\ \A i \in DOMAIN longer :
              longer[i].conn = c /\ (longer[i].new \in Lost => i = Len(longer) /\ to \in Lost)
PROOF
<1> DEFINE info == [conn |-> c, old |-> from, new |-> to]
           longer == Posted(queue, c, from, to)
           n == Len(queue)
<1>1. info \in Change
  BY DEF Change
<1>2. /\ longer \in Seq(Change)
      /\ Len(longer) = n + 1
      /\ \A i \in 1 .. n : longer[i] = queue[i]
      /\ longer[n + 1] = info
  BY <1>1, AppendProperties DEF Posted
<1>3. n \in Nat /\ DOMAIN queue = 1 .. n /\ DOMAIN longer = 1 .. n + 1
  BY <1>2, LenProperties
<1>4. DOMAIN longer = DOMAIN queue \cup {n + 1}
  BY <1>3
<1> HIDE DEF longer
<1>5. QED
  BY <1>2, <1>3, <1>4 DEF longer

\* A callback is taken off the front: a loss was alone.
LEMMA TakenLoss ==
  ASSUME NEW queue \in Seq(Change), queue # <<>>,
         NEW P \in SUBSET Conn,
         \A i \in DOMAIN queue : queue[i].conn \in P /\ (queue[i].new \in Lost => i = Len(queue))
  PROVE  /\ Tail(queue) \in Seq(Change) /\ Len(Tail(queue)) = Len(queue) - 1 /\ Len(queue) \in Nat \ {0}
         /\ \A i \in DOMAIN Tail(queue) :
              Tail(queue)[i].conn \in P /\ (Tail(queue)[i].new \in Lost => i = Len(Tail(queue)))
         /\ \A i \in DOMAIN Tail(queue) : \E j \in DOMAIN queue : Tail(queue)[i] = queue[j]
         /\ Head(queue).conn \in P
         /\ \E j \in DOMAIN queue : Head(queue) = queue[j]
         /\ Head(queue).new \in Lost => Tail(queue) = <<>>
PROOF
<1> DEFINE rest == Tail(queue)
           n == Len(queue)
<1>1. /\ rest \in Seq(Change) /\ Len(rest) = n - 1 /\ n \in Nat \ {0}
      /\ 1 \in DOMAIN queue /\ Head(queue) = queue[1]
      /\ \A i \in DOMAIN rest : i \in Nat /\ i + 1 \in DOMAIN queue /\ rest[i] = queue[i + 1]
  BY TakenFacts
<1>2. \A i \in DOMAIN rest : rest[i].conn \in P /\ (rest[i].new \in Lost => i = Len(rest))
  BY <1>1
<1>3. Head(queue).new \in Lost => rest = <<>>
  <2>1. Head(queue).new \in Lost => Len(rest) = 0
    BY <1>1
  <2>2. Len(rest) = 0 => rest = <<>>
    BY <1>1, EmptySeq
  <2>3. QED
    BY <2>1, <2>2
<1>4. QED
  BY <1>1, <1>2, <1>3

\* What the program and the network do while nothing is sent and no callback is
\* taken: handles may move on, packets come and go.
LEMMA AtMostOneKept ==
  ASSUME AtMostOneRefused, SocketsTypeOK, UNCHANGED <<server_connection, message_index, sent>>,
         \A c \in Conn : handle'[c] = "Connected" => handle[c] = "Connected" \/ message_index = 0
  PROVE  AtMostOneRefused'
PROOF
<1>1. \A c \in Conn : Len(sent[c]) \in Nat
  BY LenProperties DEF SocketsTypeOK
<1>2. QED
  BY <1>1 DEF AtMostOneRefused

-----------------------------------------------------------------------------
(* The steps.                                                              *)

LEMMA InitializeKeepsIInv == IInv /\ InitializeConnection => IInv'
PROOF
<1> SUFFICES ASSUME IInv, InitializeConnection
             PROVE  IInv'
  OBVIOUS
<1>1. /\ SocketsTypeOK /\ ClientTypeOK /\ OthersUnused /\ Places /\ batch <= Len(callbacks)
      /\ callbacks = <<>> /\ message_index = 0
      /\ (\A c \in Conn : sent[c] = <<>> /\ handle[c] = "Unused")
  BY Parts, ClientAssumption DEF InitializeConnection, Places, OthersUnused, Waiting
<1>2. /\ pc' = "connected" /\ UNCHANGED <<packet_index, batch, outcome, message_index>>
  BY DEF InitializeConnection
<1>3. CASE server_connection' = NoConn /\ UNCHANGED socketVars
  <2>1. SocketsTypeOK' /\ UNCHANGED <<handle, callbacks, sent>>
    BY <1>1, <1>3, SocketsUnchanged DEF socketVars
  <2>2. ClientTypeOK'
    BY <1>1, <1>2, <1>3 DEF ClientTypeOK
  <2>3. AtMostOneRefused' /\ LossIsLast' /\ OthersUnused' /\ Places' /\ batch' <= Len(callbacks')
    BY <1>1, <1>2, <1>3, <2>1, ClientAssumption
       DEF AtMostOneRefused, LossIsLast, OthersUnused, Places, Waiting
  <2>4. QED
    BY <2>1, <2>2, <2>3, Parts
<1>4. ASSUME NEW c \in Conn, ConnectByIPAddress(c), server_connection' = c
      PROVE  IInv'
  <2>1. SocketsTypeOK'
    BY <1>1, <1>4, ConnectType
  <2>2. /\ handle' = [handle EXCEPT ![c] = "Connecting"] /\ UNCHANGED sent
        /\ callbacks' = Posted(callbacks, c, "None", "Connecting")
    BY <1>4 DEF ConnectByIPAddress
  <2>3. callbacks \in Seq(Change) /\ "None" \in SteamState /\ "Connecting" \in SteamState \ Lost
    BY <1>1, States DEF SocketsTypeOK
  <2>4. /\ Len(callbacks') = Len(callbacks) + 1 /\ Len(callbacks) \in Nat
        /\ \A i \in DOMAIN callbacks' : callbacks'[i].conn = c /\ callbacks'[i].new \notin Lost
    <3>1. \A i \in DOMAIN callbacks : callbacks[i].conn = c /\ callbacks[i].new \notin Lost
      BY <1>1, EmptySeq
    <3>2. LET longer == Posted(callbacks, c, "None", "Connecting") IN
          /\ Len(longer) = Len(callbacks) + 1 /\ Len(callbacks) \in Nat
          /\ \A i \in DOMAIN longer :
               longer[i].conn = c /\ (longer[i].new \in Lost => "Connecting" \in Lost)
      BY <2>3, <3>1, PostedLoss
    <3>3. QED
      BY <2>2, <2>3, <3>2
  <2>5. LossIsLast'
    BY <1>4, <2>4 DEF LossIsLast
  <2>6. batch' <= Len(callbacks')
    BY <1>1, <1>2, <2>4 DEF ClientTypeOK
  <2>7. ClientTypeOK' /\ OthersUnused' /\ Places'
    BY <1>1, <1>2, <1>4, <2>2 DEF ClientTypeOK, OthersUnused, Places, Waiting
  <2>8. AtMostOneRefused'
    BY <1>1, <1>2, <1>4, <2>2 DEF AtMostOneRefused
  <2>9. QED
    BY <2>1, <2>5, <2>6, <2>7, <2>8, Parts
<1>5. QED
  BY <1>3, <1>4 DEF InitializeConnection, initializeConnection

\* The steps of the main thread that touch neither the sockets' handles nor what
\* was sent.
LEMMA WaitingKeepsIInv ==
  IInv /\ (\/ WhileNotConnected \/ AssertConnected \/ Finish \/ CallbacksDone
           \/ (processReceivedPacket \/ packetsDone \/ processConnectionStateChanges)
                /\ UNCHANGED message_index)
    => IInv'
PROOF
<1> SUFFICES ASSUME IInv, UNCHANGED message_index,
                    \/ WhileNotConnected \/ AssertConnected \/ Finish \/ CallbacksDone
                    \/ processReceivedPacket \/ packetsDone \/ processConnectionStateChanges
             PROVE  IInv'
  BY DEF WhileNotConnected, AssertConnected, Finish, CallbacksDone
<1>1. /\ SocketsTypeOK /\ ClientTypeOK /\ OthersUnused /\ Places /\ batch <= Len(callbacks)
      /\ AtMostOneRefused /\ LossIsLast
  BY Parts
<1>2. UNCHANGED <<handle, callbacks, grouped, sent, server_connection, message_index>>
  BY DEF WhileNotConnected, updateConnection, AssertConnected, Finish, CallbacksDone, socketVars,
         processReceivedPacket, ReceiveMessage, packetsDone, processConnectionStateChanges
<1>3. SocketsTypeOK'
  <2>1. CASE processReceivedPacket /\ CanReceive(server_connection) /\ ReceiveMessage(server_connection)
             /\ unread[server_connection] > 0
    BY <1>1, <2>1, ReceiveType DEF CanReceive
  <2>2. CASE UNCHANGED socketVars
    BY <1>1, <2>2, SocketsUnchanged
  <2>3. QED
    BY <2>1, <2>2 DEF WhileNotConnected, updateConnection, AssertConnected, Finish, CallbacksDone,
       processReceivedPacket, packetsDone, processConnectionStateChanges
<1>4. Len(callbacks) \in Nat /\ AtMostOneRefused' /\ LossIsLast' /\ OthersUnused'
  BY <1>1, <1>2, LenProperties DEF SocketsTypeOK, AtMostOneRefused, LossIsLast, OthersUnused
<1>5. batch' \in Nat /\ batch' <= Len(callbacks')
  BY <1>1, <1>2, <1>4
     DEF WhileNotConnected, updateConnection, AssertConnected, Finish, CallbacksDone, ClientTypeOK,
         processReceivedPacket, packetsDone, processConnectionStateChanges
<1>6. packet_index' \in 0 .. MaxProcessedPackets
  BY <1>1, ClientAssumption
     DEF WhileNotConnected, updateConnection, AssertConnected, Finish, CallbacksDone, ClientTypeOK,
         processReceivedPacket, morePackets, packetsDone, processConnectionStateChanges
<1>7. /\ pc' \in {"connected", "processReceivedPackets", "processConnectionStateChanges", "RunCallbacks",
                  "assert", "send", "kill"}
      /\ outcome' \in {"running", "nullPacket", "notConnected", "finished"}
  BY <1>1
     DEF WhileNotConnected, updateConnection, AssertConnected, Finish, CallbacksDone, ClientTypeOK,
         processReceivedPacket, packetsDone, processConnectionStateChanges
<1>8. ClientTypeOK'
  BY <1>1, <1>2, <1>5, <1>6, <1>7 DEF ClientTypeOK
<1>9. Places'
  <2>1. pc' \in Waiting => pc \in Waiting
    BY DEF WhileNotConnected, updateConnection, AssertConnected, Finish, CallbacksDone, Waiting,
         processReceivedPacket, packetsDone, processConnectionStateChanges
  <2>2. pc' \notin Waiting => pc \notin Waiting \/ connected
    BY DEF WhileNotConnected, updateConnection, AssertConnected, Finish, CallbacksDone, Waiting,
         processReceivedPacket, packetsDone, processConnectionStateChanges
  <2>3. pc' = "send" => moreMessages /\ connected
    BY <1>1 DEF WhileNotConnected, updateConnection, AssertConnected, asserted, Finish, CallbacksDone,
         processReceivedPacket, packetsDone, processConnectionStateChanges
  <2>4. pc' = "send" => message_index = Len(sent[server_connection])
    <3>1. connected => message_index - Len(sent[server_connection]) = 0
      BY <1>1 DEF AtMostOneRefused, connected, ClientTypeOK
    <3>2. connected => Len(sent[server_connection]) \in Nat
      BY <1>1, LenProperties DEF connected, SocketsTypeOK
    <3>3. QED
      BY <1>1, <2>3, <3>1, <3>2 DEF ClientTypeOK
  <2>5. QED
    BY <1>1, <1>2, <1>7, <2>1, <2>2, <2>3, <2>4 DEF Places, connected, moreMessages
<1>10. QED
  BY <1>3, <1>4, <1>5, <1>8, <1>9, Parts

\* A send.  The one before it was taken, or the assertion would have failed.
LEMMA SendKeepsIInv == IInv /\ Send => IInv'
PROOF
<1> SUFFICES ASSUME IInv, Send
             PROVE  IInv'
  OBVIOUS
<1> DEFINE c == server_connection
           kind == IF message_index < NumOfMessages THEN "reliable" ELSE "unreliable"
           notice == [kind |-> kind, who |-> c]
<1>1. /\ SocketsTypeOK /\ ClientTypeOK /\ OthersUnused /\ Places /\ batch <= Len(callbacks) /\ LossIsLast
      /\ pc = "send" /\ c \in Conn /\ handle[c] \in {"Connected"} \cup Lost
      /\ moreMessages /\ message_index = Len(sent[c])
  BY Parts DEF Send, Places, Waiting
<1>2. /\ UNCHANGED <<handle, callbacks, unread, grouped, server_connection, packet_index, batch, outcome>>
      /\ message_index' = message_index + 1 /\ pc' = "assert"
      /\ SendMessageToConnection(c, notice)
  BY DEF Send, sendDataToServer
<1>3. notice \in Notice
  BY <1>1 DEF Notice
<1>4. SocketsTypeOK'
  BY <1>1, <1>2, <1>3, SendType
<1>5. ClientTypeOK'
  BY <1>1, <1>2, MessagesAssumption DEF ClientTypeOK, moreMessages
<1>6. sent'[c] = (IF handle[c] = "Connected" THEN Append(sent[c], notice) ELSE sent[c])
      /\ \A d \in Conn \ {c} : sent'[d] = sent[d]
  BY <1>1, <1>2 DEF SendMessageToConnection
<1>7. Len(sent[c]) \in Nat /\ Len(Append(sent[c], notice)) = Len(sent[c]) + 1
  BY <1>1, <1>3, AppendProperties, LenProperties DEF SocketsTypeOK
<1>8. AtMostOneRefused'
  BY <1>1, <1>2, <1>6, <1>7 DEF AtMostOneRefused
<1>9. LossIsLast' /\ OthersUnused' /\ Places'
  BY <1>1, <1>2, <1>6 DEF LossIsLast, OthersUnused, Places, Waiting
<1>10. QED
  BY <1>1, <1>2, <1>4, <1>5, <1>8, <1>9, Parts

\* A callback: a loss closes the connection, which is lost and not closed yet.
LEMMA DispatchKeepsIInv == IInv /\ Dispatch => IInv'
PROOF
<1> SUFFICES ASSUME IInv, Dispatch
             PROVE  IInv'
  OBVIOUS
<1> DEFINE c == server_connection
<1>1. /\ SocketsTypeOK /\ ClientTypeOK /\ OthersUnused /\ Places /\ batch <= Len(callbacks) /\ LossIsLast
      /\ AtMostOneRefused
  BY Parts
<1>2. /\ pc = "RunCallbacks" /\ batch \in Nat \ {0} /\ batch' = batch - 1
      /\ UNCHANGED <<packet_index, pc, outcome, message_index, sent, server_connection>>
      /\ callbacks \in Seq(Change)
  BY <1>1 DEF Dispatch, closeConnection, ClientTypeOK, SocketsTypeOK
<1>3. message_index = 0 /\ \A x \in Conn : sent[x] = <<>>
  BY <1>1, <1>2 DEF Places, Waiting
<1>4. callbacks # <<>>
  BY <1>1, <1>2, EmptySeq
<1>5. c \in Conn
  <2>1. \A i \in DOMAIN callbacks : callbacks[i] \in Change
    BY <1>2, LenProperties, ElementOfSeq
  <2>2. 1 \in DOMAIN callbacks
    BY <1>2, <1>4, EmptySeq, LenProperties
  <2>3. QED
    BY <1>1, <2>1, <2>2 DEF LossIsLast, Change
<1>6. \A i \in DOMAIN callbacks : callbacks[i].conn \in {c} /\ (callbacks[i].new \in Lost => i = Len(callbacks))
  BY <1>1 DEF LossIsLast
<1>7. /\ Tail(callbacks) \in Seq(Change) /\ Len(Tail(callbacks)) = Len(callbacks) - 1
      /\ Len(callbacks) \in Nat \ {0}
      /\ (\A i \in DOMAIN Tail(callbacks) :
            Tail(callbacks)[i].conn = c /\ (Tail(callbacks)[i].new \in Lost => i = Len(Tail(callbacks))))
      /\ (\A i \in DOMAIN Tail(callbacks) : \E j \in DOMAIN callbacks : Tail(callbacks)[i] = callbacks[j])
      /\ (\E j \in DOMAIN callbacks : Head(callbacks) = callbacks[j])
      /\ Head(callbacks).new \in Lost => Tail(callbacks) = <<>>
  <2>1. {c} \in SUBSET Conn
    BY <1>5
  <2>2. QED
    BY <1>2, <1>4, <1>6, <2>1, TakenLoss
<1>8. AtMostOneRefused' /\ Places' /\ ClientTypeOK'
  <2>1. ClientTypeOK'
    BY <1>1, <1>2 DEF ClientTypeOK
  <2>2. Places'
    BY <1>1, <1>2, <1>3 DEF Places, Waiting
  <2>3. AtMostOneRefused'
    BY <1>2, <1>3 DEF AtMostOneRefused
  <2>4. QED
    BY <2>1, <2>2, <2>3
<1>9. CASE Head(callbacks).new \in LostState
  <2>1. handle[c] \in Lost /\ Tail(callbacks) = <<>>
    BY <1>1, <1>7, <1>9 DEF LossIsLast, LostState
  <2>2. CloseConnection(c, Tail(callbacks))
    BY <1>9 DEF Dispatch, closeConnection
  <2>3. handle[c] \in Live /\ handle[c] \in SteamState /\ "None" \in SteamState \ Lost
    BY <2>1, States
  <2>4. SocketsTypeOK'
    BY <1>1, <1>2, <1>5, <1>7, <2>2, <2>3, CloseType
  <2>5. /\ callbacks' = Posted(Tail(callbacks), c, handle[c], "None")
        /\ handle' = [handle EXCEPT ![c] = "Destroyed"]
    BY <2>2 DEF CloseConnection
  <2>6. \A i \in DOMAIN Tail(callbacks) : Tail(callbacks)[i].conn = c /\ Tail(callbacks)[i].new \notin Lost
    BY <2>1
  <2>7. Len(callbacks') = Len(Tail(callbacks)) + 1
        /\ \A i \in DOMAIN callbacks' : callbacks'[i].conn = c /\ callbacks'[i].new \notin Lost
    <3>1. LET longer == Posted(Tail(callbacks), c, handle[c], "None") IN
          /\ Len(longer) = Len(Tail(callbacks)) + 1
          /\ \A i \in DOMAIN longer :
               longer[i].conn = c /\ (longer[i].new \in Lost => "None" \in Lost)
      <4> DEFINE rest == Tail(callbacks)
                 from == handle[c]
      <4>1. /\ rest \in Seq(Change) /\ from \in SteamState /\ "None" \in SteamState
            /\ \A i \in DOMAIN rest : rest[i].conn = c /\ rest[i].new \notin Lost
        BY <1>7, <2>3, <2>6
      <4> HIDE DEF rest, from, c
      <4>2. LET longer == Posted(rest, c, from, "None") IN
            /\ Len(longer) = Len(rest) + 1
            /\ \A i \in DOMAIN longer :
                 longer[i].conn = c /\ (longer[i].new \in Lost => "None" \in Lost)
        BY <1>5, <4>1, PostedLoss
      <4>3. QED
        BY <4>2 DEF rest, from, c
    <3>2. QED
      BY <2>3, <2>5, <3>1
  <2>8. LossIsLast' /\ batch' <= Len(callbacks')
    BY <1>1, <1>2, <1>7, <2>7 DEF LossIsLast
  <2>9. OthersUnused'
    BY <1>1, <1>2, <2>5 DEF OthersUnused, SocketsTypeOK
  <2>10. QED
    BY <1>8, <2>4, <2>8, <2>9, Parts
<1>10. CASE Head(callbacks).new \notin LostState
  <2>1. callbacks' = Tail(callbacks) /\ UNCHANGED <<handle, unread, grouped>>
    BY <1>10 DEF Dispatch
  <2>2. SocketsTypeOK'
    BY <1>1, <1>2, <1>7, <2>1 DEF SocketsTypeOK
  <2>3. LossIsLast'
    BY <1>1, <1>2, <1>7, <2>1 DEF LossIsLast
  <2>4. batch' <= Len(callbacks') /\ OthersUnused'
    BY <1>1, <1>2, <1>7, <2>1 DEF OthersUnused
  <2>5. QED
    BY <1>8, <2>2, <2>3, <2>4, Parts
<1>11. QED
  BY <1>9, <1>10

\* The network.
LEMMA NetworkKeepsIInv == IInv /\ (\E c \in Conn : Network(c)) => IInv'
PROOF
<1> SUFFICES ASSUME IInv, NEW c \in Conn, Network(c)
             PROVE  IInv'
  OBVIOUS
<1>1. /\ SocketsTypeOK /\ ClientTypeOK /\ OthersUnused /\ Places /\ batch <= Len(callbacks) /\ LossIsLast
      /\ AtMostOneRefused
  BY Parts
<1>2. UNCHANGED <<server_connection, packet_index, batch, pc, outcome, message_index, sent>>
  BY DEF Network, clientVars, PeerAccepts, PeerIsLost, PeerSends
<1>3. SocketsTypeOK' /\ ClientTypeOK'
  BY <1>1, <1>2, NetworkType DEF Network, ClientTypeOK
<1>4. /\ \A x \in Conn \ {c} : handle'[x] = handle[x]
      /\ handle[c] # "Unused"
  BY <1>1 DEF Network, PeerAccepts, PeerIsLost, PeerSends, SocketsTypeOK
<1>5. c = server_connection
  BY <1>1, <1>4 DEF OthersUnused
<1>6. OthersUnused'
  BY <1>1, <1>2, <1>4, <1>5 DEF OthersUnused
<1>7. /\ handle[c] \in {"Connected"} \cup Lost => handle'[c] \in {"Connected"} \cup Lost
      /\ handle'[c] = "Connected" => handle[c] \in {"Connecting", "Connected"}
  BY <1>1, States DEF Network, PeerAccepts, PeerIsLost, PeerSends, SocketsTypeOK
<1>8. Places'
  BY <1>1, <1>2, <1>4, <1>5, <1>7, ClientAssumption DEF Places, moreMessages
<1>9. AtMostOneRefused'
  <2>1. handle[c] = "Connecting" => message_index = 0
    BY <1>1, <1>5, States DEF Places
  <2>2. QED
    BY <1>1, <1>2, <1>4, <1>7, <2>1, AtMostOneKept
<1>10. LossIsLast' /\ batch' <= Len(callbacks')
  <2>1. callbacks \in Seq(Change)
    BY <1>1 DEF SocketsTypeOK
  <2>2. CASE PeerSends(c)
    BY <1>1, <1>2, <2>2 DEF PeerSends, LossIsLast
  <2>3. ASSUME NEW from \in SteamState, NEW to \in SteamState, handle[c] \notin Lost,
               callbacks' = Posted(callbacks, c, from, to), to \in Lost => handle'[c] \in Lost
        PROVE  LossIsLast' /\ batch' <= Len(callbacks')
    <3>1. \A i \in DOMAIN callbacks : callbacks[i].conn = c /\ callbacks[i].new \notin Lost
      BY <1>1, <1>5, <2>3 DEF LossIsLast
    <3>2. /\ Len(callbacks') = Len(callbacks) + 1 /\ Len(callbacks) \in Nat
          /\ \A i \in DOMAIN callbacks' :
               callbacks'[i].conn = c /\ (callbacks'[i].new \in Lost => i = Len(callbacks') /\ to \in Lost)
      BY <2>1, <2>3, <3>1, PostedLoss
    <3>3. QED
      BY <1>1, <1>2, <1>5, <2>3, <3>2 DEF LossIsLast, ClientTypeOK
  <2>4. CASE PeerAccepts(c)
    BY <1>1, <2>3, <2>4, States DEF PeerAccepts
  <2>5. ASSUME NEW how \in Lost, PeerIsLost(c, how)
        PROVE  LossIsLast' /\ batch' <= Len(callbacks')
    <3>1. handle[c] \in SteamState /\ handle[c] \notin Lost /\ how \in SteamState /\ handle'[c] = how
          /\ callbacks' = Posted(callbacks, c, handle[c], how)
      BY <1>1, <2>5, States DEF PeerIsLost, SocketsTypeOK
    <3>2. QED
      BY <2>3, <2>5, <3>1
  <2>6. QED
    BY <2>2, <2>4, <2>5 DEF Network
<1>11. QED
  BY <1>3, <1>6, <1>8, <1>9, <1>10, Parts

-----------------------------------------------------------------------------
(* The theorems.                                                           *)

LEMMA InitIInv == Init => IInv
PROOF
<1> SUFFICES ASSUME Init
             PROVE  IInv
  OBVIOUS
<1>1. SocketsTypeOK
  BY InitSocketsType DEF Init
<1>2. ClientTypeOK
  BY ClientAssumption, MessagesAssumption DEF Init, ClientInit, ClientTypeOK
<1>3. callbacks = <<>> /\ Len(callbacks) = 0
  BY EmptySeq DEF Init, SocketsInit
<1>4. \A c \in Conn : handle[c] = "Unused" /\ sent[c] = <<>> /\ Len(sent[c]) = 0
  BY EmptySeq DEF Init, SocketsInit
<1>5. message_index = 0 /\ batch = 0 /\ pc = "initializeConnection"
  BY DEF Init, ClientInit
<1>6. AtMostOneRefused
  BY <1>4, <1>5 DEF AtMostOneRefused
<1>7. LossIsLast /\ OthersUnused /\ Places
  BY <1>3, <1>4, <1>5, EmptySeq DEF LossIsLast, OthersUnused, Places, Waiting
<1>8. QED
  BY <1>1, <1>2, <1>3, <1>5, <1>6, <1>7, Parts

LEMMA NextIInv == IInv /\ [Next]_vars => IInv'
PROOF
<1> SUFFICES ASSUME IInv, [Next]_vars
             PROVE  IInv'
  OBVIOUS
<1>1. CASE UNCHANGED vars
  <2>1. SocketsTypeOK /\ SocketsTypeOK'
    BY <1>1, Parts, SocketsUnchanged DEF vars
  <2>2. QED
    BY <1>1, <2>1, Parts
       DEF vars, socketVars, clientVars, ClientTypeOK, AtMostOneRefused, LossIsLast, OthersUnused, Places,
           moreMessages
<1>2. CASE InitializeConnection
  BY <1>2, InitializeKeepsIInv
<1>3. CASE \/ WhileNotConnected \/ AssertConnected \/ Finish \/ CallbacksDone
           \/ (processReceivedPacket \/ packetsDone \/ processConnectionStateChanges)
                /\ UNCHANGED message_index
  BY <1>3, WaitingKeepsIInv
<1>4. CASE Send
  BY <1>4, SendKeepsIInv
<1>5. CASE Dispatch
  BY <1>5, DispatchKeepsIInv
<1>6. CASE \E c \in Conn : Network(c)
  BY <1>6, NetworkKeepsIInv
<1>7. QED
  BY <1>1, <1>2, <1>3, <1>4, <1>5, <1>6 DEF Next, Main

\* The invariant holds for any number of messages.
THEOREM ClientInvariance == Spec => []IInv
PROOF
  BY InitIInv, NextIInv, PTL DEF Spec

\* The client's variables keep their types.
THEOREM ClientTypeCorrect == Spec => []TypeOK
PROOF
<1>1. IInv => TypeOK
  BY DEF IInv
<1>2. QED
  BY <1>1, ClientInvariance, PTL

\* However long the series and whenever the connection goes, in a build with
\* assertions at most one packet is handed to a library that refuses it
\* (Client.cpp:151, 161).
THEOREM OneIsRefusedAtMost == Spec => []AtMostOneRefused
PROOF
<1>1. IInv => AtMostOneRefused
  BY DEF IInv
<1>2. QED
  BY <1>1, ClientInvariance, PTL

-----------------------------------------------------------------------------
(* What the program itself does to its connections.                        *)

\* It closes one only when that is lost already.
LEMMA ProgramKeepsUp ==
  IInv /\ Main => \A c \in Conn : handle[c] \in {"Connecting", "Connected"} => handle'[c] \in {"Connecting", "Connected"}
PROOF
<1> SUFFICES ASSUME IInv, Main, NEW c \in Conn, handle[c] \in {"Connecting", "Connected"}
             PROVE  handle'[c] \in {"Connecting", "Connected"}
  OBVIOUS
<1>1. SocketsTypeOK /\ ClientTypeOK /\ LossIsLast /\ batch <= Len(callbacks)
  BY Parts
<1>2. CASE InitializeConnection
  <2>1. CASE UNCHANGED socketVars
    BY <2>1 DEF socketVars
  <2>2. ASSUME NEW d \in Conn, ConnectByIPAddress(d)
        PROVE  handle'[c] \in {"Connecting", "Connected"}
    BY <1>1, <2>2 DEF ConnectByIPAddress, SocketsTypeOK
  <2>3. QED
    BY <1>2, <2>1, <2>2 DEF InitializeConnection, initializeConnection
<1>3. CASE Dispatch
  <2>1. callbacks # <<>> /\ callbacks \in Seq(Change)
    BY <1>1, <1>3, EmptySeq DEF Dispatch, ClientTypeOK, SocketsTypeOK
  <2>2. 1 \in DOMAIN callbacks /\ Head(callbacks) = callbacks[1]
    BY <2>1, TakenFacts
  <2>3. CASE Head(callbacks).new \in LostState
    <3>1. handle[server_connection] \in Lost
      BY <1>1, <2>2, <2>3 DEF LossIsLast, LostState
    <3>2. handle' = [handle EXCEPT ![server_connection] = "Destroyed"] /\ c # server_connection
      BY <1>3, <2>3, <3>1, States DEF Dispatch, closeConnection, CloseConnection
    <3>3. QED
      BY <1>1, <3>2 DEF SocketsTypeOK
  <2>4. CASE Head(callbacks).new \notin LostState
    BY <1>3, <2>4 DEF Dispatch
  <2>5. QED
    BY <2>3, <2>4
<1>4. CASE ~InitializeConnection /\ ~Dispatch
  <2>1. UNCHANGED handle
    BY <1>4 DEF Main, WhileNotConnected, updateConnection, AssertConnected, Send, Finish, CallbacksDone,
                processReceivedPacket, ReceiveMessage, packetsDone, processConnectionStateChanges, socketVars
  <2>2. QED
    BY <2>1
<1>5. QED
  BY <1>2, <1>3, <1>4

\* It ends in failure only when no connection is up.
LEMMA ProgramFailsWhenDown ==
  IInv /\ Main /\ outcome = "running" =>
    \/ outcome' \in {"running", "finished"}
    \/ UNCHANGED handle /\ \A c \in Conn : handle[c] \notin {"Connecting", "Connected"}
PROOF
<1> SUFFICES ASSUME IInv, Main, outcome = "running", outcome' \notin {"running", "finished"}
             PROVE  UNCHANGED handle /\ \A c \in Conn : handle[c] \notin {"Connecting", "Connected"}
  OBVIOUS
<1>1. OthersUnused /\ Places /\ ClientTypeOK
  BY Parts
<1>2. \/ AssertConnected /\ ~asserted
      \/ processReceivedPacket /\ ~CanReceive(server_connection)
  BY DEF Main, InitializeConnection, WhileNotConnected, updateConnection, AssertConnected, Send, Finish,
         Dispatch, CallbacksDone, processReceivedPacket, packetsDone, processConnectionStateChanges
<1>3. UNCHANGED handle
  BY <1>2 DEF AssertConnected, processReceivedPacket, ReceiveMessage, socketVars
<1>4. server_connection \in Conn => handle[server_connection] \notin {"Connecting", "Connected"}
  <2>1. CASE AssertConnected /\ ~asserted
    <3>1. server_connection \in Conn /\ handle[server_connection] \in {"Connected"} \cup Lost
      BY <1>1, <2>1 DEF AssertConnected, Places, Waiting
    <3>2. QED
      BY <2>1, <3>1, States DEF asserted, connected
  <2>2. CASE ~CanReceive(server_connection)
    BY <2>2, States DEF CanReceive
  <2>3. QED
    BY <1>2, <2>1, <2>2
<1>5. \A c \in Conn : handle[c] \notin {"Connecting", "Connected"}
  BY <1>1, <1>4 DEF OthersUnused
<1>6. QED
  BY <1>3, <1>5

-----------------------------------------------------------------------------
(* Any application.                                                        *)

\* The variables of AnyClient that are not the library's.
AnyClientTypeOK ==
  /\ server_connection \in Conn \cup {NoConn}
  /\ packet_index \in 0 .. MaxProcessedPackets
  /\ batch \in Nat /\ batch <= Len(callbacks)
  /\ pc \in {"main", "processReceivedPackets", "processConnectionStateChanges", "RunCallbacks", "callback"}
  /\ outcome \in {"running", "nullPacket", "exit"}
  /\ packet_callback \in BOOLEAN /\ connection_status_change_callback \in BOOLEAN
  /\ connects \in 0 .. MaxConnects
  /\ over \subseteq Conn
  /\ careless \in BOOLEAN

\* What is said of the ends of connections.
EndsInv == EndsAreNews /\ OverIsOver /\ NoEndIsForgotten

LEMMA AnyParts ==
  /\ AnyIInv <=> SocketsTypeOK /\ AnyClientTypeOK /\ EndsInv /\ LossIsOfTheCurrent
  /\ AnyIInv' <=> SocketsTypeOK' /\ AnyClientTypeOK' /\ EndsInv' /\ LossIsOfTheCurrent'
PROOF
  BY DEF AnyIInv, AnyTypeOK, AnyClientTypeOK, EndsInv

\* A change that is queued is of a connection.
LEMMA QueuedChange ==
  ASSUME SocketsTypeOK, NEW i \in DOMAIN callbacks
  PROVE  callbacks[i] \in Change /\ callbacks[i].conn \in Conn /\ i \in Nat /\ callbacks \in Seq(Change)
PROOF
<1>1. callbacks \in Seq(Change)
  BY DEF SocketsTypeOK
<1>2. callbacks[i] \in Change /\ i \in Nat
  BY <1>1, LenProperties, ElementOfSeq
<1>3. QED
  BY <1>1, <1>2 DEF Change

\* A step that posts a change of c: nobody was told yet that c ended, and c ends
\* in the step just when the change says so.
LEMMA PostingKeepsEnds ==
  ASSUME SocketsTypeOK, EndsInv, over \subseteq Conn,
         NEW c \in Conn, NEW from \in SteamState, NEW to \in SteamState,
         callbacks' = Posted(callbacks, c, from, to),
         UNCHANGED <<over, outcome>>,
         \A d \in Conn : d # c => handle'[d] = handle[d],
         to \in Lost => ~Ended(c),
         Ended(c) \/ to \in Lost \cup {"None"} <=> Ended(c)'
  PROVE  EndsInv'
PROOF
<1> DEFINE n == Len(callbacks')
           Gone == Lost \cup {"Destroyed"}
<1>1. /\ \A i \in DOMAIN callbacks' : i \in Nat /\ (i \in DOMAIN callbacks \/ i = n)
      /\ \A i \in DOMAIN callbacks : i \in DOMAIN callbacks' /\ i < n /\ callbacks'[i] = callbacks[i]
      /\ n \in DOMAIN callbacks'
      /\ callbacks'[n].conn = c /\ callbacks'[n].new = to
  <2> DEFINE info == [conn |-> c, old |-> from, new |-> to]
             m == Len(callbacks)
  <2>1. callbacks \in Seq(Change) /\ info \in Change
    BY DEF SocketsTypeOK, Change
  <2>2. /\ n = m + 1 /\ callbacks' \in Seq(Change)
        /\ \A i \in 1 .. m : callbacks'[i] = callbacks[i]
        /\ callbacks'[n] = info
    BY <2>1, AppendProperties DEF Posted
  <2>3. m \in Nat /\ DOMAIN callbacks = 1 .. m /\ DOMAIN callbacks' = 1 .. m + 1
    BY <2>1, <2>2, LenProperties
  <2>4. /\ \A i \in DOMAIN callbacks' : i \in Nat /\ (i \in DOMAIN callbacks \/ i = n)
        /\ \A i \in DOMAIN callbacks : i \in DOMAIN callbacks' /\ i < n
        /\ n \in DOMAIN callbacks'
    BY <2>2, <2>3
  <2>5. callbacks'[n].conn = c /\ callbacks'[n].new = to
    BY <2>2
  <2> HIDE DEF n, m, info
  <2>6. QED
    BY <2>2, <2>3, <2>4, <2>5
<1>2. \A d \in Conn : Ended(d) => Ended(d)'
  BY DEF Ended
<1>3. \A i \in DOMAIN callbacks : callbacks[i].conn \in Conn
  BY QueuedChange
<1> HIDE DEF n
<1>4. EndsAreNews'
  <2> SUFFICES ASSUME NEW i \in DOMAIN callbacks', Ends(callbacks'[i])
               PROVE  /\ handle'[callbacks'[i].conn] \in Gone
                      /\ \A j \in DOMAIN callbacks' :
                           i < j /\ callbacks'[j].conn = callbacks'[i].conn => callbacks'[j].new \notin Lost
    BY DEF EndsAreNews, Ends, Ended
  <2>1. CASE i \in DOMAIN callbacks
    <3>1. callbacks'[i] = callbacks[i] /\ callbacks[i].conn \in Conn
      BY <1>1, <1>3, <2>1
    <3>2. /\ Ended(callbacks[i].conn)
          /\ \A j \in DOMAIN callbacks :
               i < j /\ callbacks[j].conn = callbacks[i].conn => callbacks[j].new \notin Lost
      BY <2>1, <3>1 DEF EndsInv, EndsAreNews
    <3>3. callbacks[i].conn = c => to \notin Lost
      BY <3>2
    <3>4. handle'[callbacks'[i].conn] \in Gone
      BY <1>2, <3>1, <3>2 DEF Ended, Gone
    <3>5. ASSUME NEW j \in DOMAIN callbacks', i < j, callbacks'[j].conn = callbacks'[i].conn
          PROVE  callbacks'[j].new \notin Lost
      BY <1>1, <3>1, <3>2, <3>3, <3>5
    <3>6. QED
      BY <3>4, <3>5
  <2>2. CASE i = n
    <3>1. Ended(c)' /\ callbacks'[i].conn = c
      BY <1>1, <2>2 DEF Ends
    <3>2. \A j \in DOMAIN callbacks' : ~(i < j)
      BY <1>1, <2>2
    <3>3. QED
      BY <3>1, <3>2 DEF Ended
  <2>3. QED
    BY <1>1, <2>1, <2>2
<1>5. OverIsOver'
  <2> SUFFICES ASSUME NEW d \in over
               PROVE  /\ Ended(d)'
                      /\ \A i \in DOMAIN callbacks' :
                           callbacks'[i].new \in Lost => callbacks'[i].conn # d
    BY DEF OverIsOver, Ended
  <2>1. /\ Ended(d) /\ d \in Conn
        /\ \A i \in DOMAIN callbacks : callbacks[i].new \in Lost => callbacks[i].conn # d
    BY DEF EndsInv, OverIsOver
  <2>2. to \in Lost => d # c
    BY <2>1
  <2>3. QED
    BY <1>1, <1>2, <2>1, <2>2
<1>6. NoEndIsForgotten'
  <2> SUFFICES ASSUME outcome = "running", NEW d \in Conn, Ended(d)', d \notin over
               PROVE  \E i \in DOMAIN callbacks' : callbacks'[i].conn = d /\ Ends(callbacks'[i])
    BY DEF NoEndIsForgotten, Ends, Ended
  <2>1. CASE Ended(d)
    <3>1. PICK i \in DOMAIN callbacks : callbacks[i].conn = d /\ Ends(callbacks[i])
      BY <2>1 DEF EndsInv, NoEndIsForgotten
    <3>2. QED
      BY <1>1, <3>1
  <2>2. CASE ~Ended(d)
    <3>1. d = c /\ to \in Lost \cup {"None"}
      BY <2>2 DEF Ended
    <3>2. QED
      BY <1>1, <3>1 DEF Ends
  <2>3. QED
    BY <2>1, <2>2
<1>7. QED
  BY <1>4, <1>5, <1>6 DEF EndsInv

\* A step that leaves the connections and the queue as they are.
LEMMA StillKeepsEnds ==
  ASSUME EndsInv, LossIsOfTheCurrent,
         UNCHANGED <<handle, callbacks, over, server_connection, careless>>,
         outcome' = "running" => outcome = "running"
  PROVE  EndsInv' /\ LossIsOfTheCurrent'
PROOF
  BY DEF EndsInv, EndsAreNews, OverIsOver, NoEndIsForgotten, LossIsOfTheCurrent, Ends, Ended

\* What one more callback adds to the queue, and to its losses.
LEMMA PostedLength ==
  ASSUME NEW queue \in Seq(Change), NEW c \in Conn, NEW from \in SteamState, NEW to \in SteamState
  PROVE  Len(queue) \in Nat /\ Len(Posted(queue, c, from, to)) = Len(queue) + 1
PROOF
<1>1. [conn |-> c, old |-> from, new |-> to] \in Change
  BY DEF Change
<1>2. QED
  BY <1>1, AppendProperties, LenProperties DEF Posted

LEMMA PostedLosses ==
  ASSUME NEW queue \in Seq(Change), NEW c \in Conn, NEW from \in SteamState, NEW to \in SteamState,
         NEW D \in SUBSET Conn, \A i \in DOMAIN queue : queue[i].new \in Lost => queue[i].conn \in D,
         to \in Lost => c \in D
  PROVE  \A i \in DOMAIN Posted(queue, c, from, to) :
           Posted(queue, c, from, to)[i].new \in Lost => Posted(queue, c, from, to)[i].conn \in D
PROOF
<1> DEFINE info == [conn |-> c, old |-> from, new |-> to]
           longer == Posted(queue, c, from, to)
           n == Len(queue)
<1>1. info \in Change
  BY DEF Change
<1>2. /\ longer \in Seq(Change)
      /\ Len(longer) = n + 1
      /\ \A i \in 1 .. n : longer[i] = queue[i]
      /\ longer[n + 1] = info
  BY <1>1, AppendProperties DEF Posted
<1>3. n \in Nat /\ DOMAIN queue = 1 .. n /\ DOMAIN longer = 1 .. n + 1
  BY <1>2, LenProperties
<1>4. \A i \in DOMAIN longer : i \in DOMAIN queue \/ i = n + 1
  BY <1>3
<1> HIDE DEF longer, n
<1>5. QED
  BY <1>2, <1>3, <1>4 DEF longer

\* initializeConnection, over an old connection or not.  What is left of the old
\* one, when the application has waited for its end, is not a loss.
LEMMA ConnectKeepsAny == AnyIInv /\ Connect => AnyIInv'
PROOF
<1> SUFFICES ASSUME AnyIInv, Connect
             PROVE  AnyIInv'
  OBVIOUS
<1>1. SocketsTypeOK /\ AnyClientTypeOK /\ EndsInv /\ LossIsOfTheCurrent
  BY AnyParts
<1>2. /\ UNCHANGED <<packet_index, batch, pc, outcome, packet_callback, connection_status_change_callback, over>>
      /\ connects' = connects + 1 /\ connects < MaxConnects
  BY DEF Connect
<1>3. CASE UNCHANGED <<socketVars, server_connection, careless>>
  <2>1. SocketsTypeOK' /\ UNCHANGED <<handle, callbacks>>
    BY <1>1, <1>3, SocketsUnchanged DEF socketVars
  <2>2. AnyClientTypeOK'
    BY <1>1, <1>2, <1>3, <2>1, ConnectsAssumption DEF AnyClientTypeOK
  <2>3. EndsInv' /\ LossIsOfTheCurrent'
    BY <1>1, <1>2, <1>3, <2>1, StillKeepsEnds
  <2>4. QED
    BY <2>1, <2>2, <2>3, AnyParts
<1>4. CASE initializeConnection /\ careless' = (careless \/ ~Settled)
  <2>1. ASSUME ~careless'
        PROVE  /\ \A c \in Conn : handle[c] \notin Live
               /\ \A i \in DOMAIN callbacks : callbacks[i].new \notin Lost
    <3>1. ~careless /\ Settled
      BY <1>1, <1>4, <2>1 DEF AnyClientTypeOK
    <3>2. \A c \in Conn : handle[c] \notin Live
      BY <1>1, <3>1 DEF LossIsOfTheCurrent, Settled, Live, Lost
    <3>3. \A i \in DOMAIN callbacks : callbacks[i].conn \in Conn
      BY <1>1, QueuedChange
    <3>4. ASSUME NEW i \in DOMAIN callbacks, callbacks[i].new \in Lost
          PROVE  FALSE
      <4>1. callbacks[i].conn = server_connection /\ server_connection \in Conn
        BY <1>1, <3>1, <3>3, <3>4 DEF LossIsOfTheCurrent
      <4>2. Ended(server_connection)
        BY <1>1, <3>4, <4>1 DEF EndsInv, EndsAreNews, Ends
      <4>3. server_connection \in over
        BY <3>1, <4>1, <4>2 DEF Settled, Ended, Lost
      <4>4. QED
        BY <1>1, <3>4, <4>1, <4>3 DEF EndsInv, OverIsOver
    <3>5. QED
      BY <3>2, <3>4
  <2>2. CASE server_connection' = NoConn /\ UNCHANGED socketVars
    <3>1. SocketsTypeOK' /\ UNCHANGED <<handle, callbacks>>
      BY <1>1, <2>2, SocketsUnchanged DEF socketVars
    <3>2. AnyClientTypeOK'
      BY <1>1, <1>2, <1>4, <2>2, <3>1, ConnectsAssumption DEF AnyClientTypeOK
    <3>3. EndsInv'
      BY <1>1, <1>2, <3>1 DEF EndsInv, EndsAreNews, OverIsOver, NoEndIsForgotten, Ended, Ends
    <3>4. LossIsOfTheCurrent'
      BY <2>1, <3>1 DEF LossIsOfTheCurrent
    <3>5. QED
      BY <3>1, <3>2, <3>3, <3>4, AnyParts
  <2>3. ASSUME NEW c \in Conn, ConnectByIPAddress(c), server_connection' = c
        PROVE  AnyIInv'
    <3>1. /\ handle[c] = "Unused" /\ handle' = [handle EXCEPT ![c] = "Connecting"]
          /\ callbacks' = Posted(callbacks, c, "None", "Connecting")
      BY <2>3 DEF ConnectByIPAddress
    <3>2. SocketsTypeOK'
      BY <1>1, <2>3, ConnectType
    <3>3. /\ "None" \in SteamState /\ "Connecting" \in SteamState
          /\ "Connecting" \notin Lost \cup {"None", "Destroyed"} /\ "Unused" \notin Lost \cup {"Destroyed"}
      BY States
    <3>4. handle'[c] = "Connecting" /\ \A d \in Conn : d # c => handle'[d] = handle[d]
      BY <1>1, <3>1 DEF SocketsTypeOK
    <3>5. ~Ended(c) /\ ~Ended(c)'
      BY <3>1, <3>3, <3>4 DEF Ended
    <3>6. EndsInv'
      BY <1>1, <1>2, <3>1, <3>3, <3>4, <3>5, PostingKeepsEnds DEF AnyClientTypeOK
    <3>7. LossIsOfTheCurrent'
      <4> SUFFICES ASSUME ~careless'
                   PROVE  /\ \A i \in DOMAIN callbacks' :
                               callbacks'[i].new \in Lost => callbacks'[i].conn = server_connection'
                          /\ \A d \in Conn : handle'[d] \in Live => d = server_connection'
        BY DEF LossIsOfTheCurrent
      <4>1. \A d \in Conn : handle'[d] \in Live => d = c
        BY <2>1, <3>4
      <4>2. \A i \in DOMAIN callbacks' : callbacks'[i].new \notin Lost
        <5>1. /\ {} \in SUBSET Conn /\ callbacks \in Seq(Change)
              /\ \A i \in DOMAIN callbacks : callbacks[i].new \in Lost => callbacks[i].conn \in {}
          BY <1>1, <2>1 DEF SocketsTypeOK
        <5>2. \A i \in DOMAIN callbacks' : callbacks'[i].new \in Lost => callbacks'[i].conn \in {}
          BY <3>1, <3>3, <5>1, PostedLosses
        <5>3. QED
          BY <5>2
      <4>3. QED
        BY <2>3, <4>1, <4>2
    <3>8. Len(callbacks) \in Nat /\ Len(callbacks') = Len(callbacks) + 1
      BY <1>1, <3>1, <3>3, PostedLength DEF SocketsTypeOK
    <3>9. AnyClientTypeOK'
      BY <1>1, <1>2, <1>4, <2>3, <3>8, ConnectsAssumption DEF AnyClientTypeOK
    <3>10. QED
      BY <3>2, <3>6, <3>7, <3>9, AnyParts
  <2>4. QED
    BY <1>4, <2>2, <2>3 DEF initializeConnection
<1>5. QED
  BY <1>3, <1>4 DEF Connect

\* closeConnection.
LEMMA CloseKeepsAny == AnyIInv /\ Close => AnyIInv'
PROOF
<1> SUFFICES ASSUME AnyIInv, Close
             PROVE  AnyIInv'
  OBVIOUS
<1> DEFINE c == server_connection
<1>1. SocketsTypeOK /\ AnyClientTypeOK /\ EndsInv /\ LossIsOfTheCurrent
  BY AnyParts
<1>2. /\ c \in Conn /\ handle[c] \in Live /\ CloseConnection(c, callbacks)
      /\ UNCHANGED <<sent, server_connection, packet_index, batch, pc, outcome>>
      /\ UNCHANGED <<packet_callback, connection_status_change_callback, connects, over, careless>>
  BY DEF Close, CanReceive, closeConnection, applicationVars
<1>3. /\ handle' = [handle EXCEPT ![c] = "Destroyed"]
      /\ callbacks' = Posted(callbacks, c, handle[c], "None")
  BY <1>2 DEF CloseConnection
<1>4. callbacks \in Seq(Change) /\ SocketsTypeOK'
  BY <1>1, <1>2, CloseType DEF SocketsTypeOK
<1>5. /\ handle[c] \in SteamState /\ "None" \in SteamState /\ "None" \notin Lost
      /\ "Destroyed" \notin Live
  BY <1>2, States
<1>6. handle'[c] = "Destroyed" /\ \A d \in Conn : d # c => handle'[d] = handle[d]
  BY <1>1, <1>2, <1>3 DEF SocketsTypeOK
<1>7. Ended(c)'
  BY <1>2, <1>6 DEF Ended
<1>8. EndsInv'
  <2> DEFINE from == handle[c]
  <2>1. callbacks' = Posted(callbacks, c, from, "None") /\ from \in SteamState
    BY <1>3, <1>5
  <2> HIDE DEF from
  <2>2. /\ over \subseteq Conn /\ UNCHANGED <<over, outcome>>
        /\ "None" \in Lost \cup {"None"}
    BY <1>1, <1>2 DEF AnyClientTypeOK
  <2>3. ASSUME NEW d \in Conn, d = c
        PROVE  EndsInv'
    <3>1. /\ callbacks' = Posted(callbacks, d, from, "None") /\ Ended(d)'
          /\ \A x \in Conn : x # d => handle'[x] = handle[x]
      BY <1>6, <2>1, <2>3 DEF Ended
    <3>2. QED
      BY <1>1, <1>5, <2>1, <2>2, <3>1, PostingKeepsEnds
  <2>4. QED
    BY <1>2, <2>3
<1>9. LossIsOfTheCurrent'
  <2> SUFFICES ASSUME ~careless
               PROVE  /\ \A i \in DOMAIN callbacks' : callbacks'[i].new \in Lost => callbacks'[i].conn = c
                      /\ \A d \in Conn : handle'[d] \in Live => d = c
    BY <1>2 DEF LossIsOfTheCurrent
  <2>1. \A i \in DOMAIN callbacks : callbacks[i].new \in Lost => callbacks[i].conn \in {c}
    BY <1>1 DEF LossIsOfTheCurrent
  <2>2. \A i \in DOMAIN callbacks' : callbacks'[i].new \in Lost => callbacks'[i].conn \in {c}
    <3> DEFINE D == {c}
    <3>1. D \in SUBSET Conn /\ c \in D
      BY <1>2
    <3> HIDE DEF D
    <3>2. \A i \in DOMAIN callbacks : callbacks[i].new \in Lost => callbacks[i].conn \in D
      BY <2>1 DEF D
    <3>3. \A i \in DOMAIN callbacks' : callbacks'[i].new \in Lost => callbacks'[i].conn \in D
      BY <1>2, <1>3, <1>4, <1>5, <3>1, <3>2, PostedLosses
    <3>4. QED
      BY <3>3 DEF D
  <2>3. \A d \in Conn : handle'[d] \in Live => d = c
    BY <1>1, <1>6 DEF LossIsOfTheCurrent
  <2>4. QED
    BY <2>2, <2>3
<1>10. Len(callbacks) \in Nat /\ Len(callbacks') = Len(callbacks) + 1
  BY <1>2, <1>3, <1>4, <1>5, PostedLength
<1>11. AnyClientTypeOK'
  BY <1>1, <1>2, <1>10 DEF AnyClientTypeOK
<1>12. QED
  BY <1>4, <1>8, <1>9, <1>11, AnyParts

\* What changes neither connections nor the queue.
LEMMA QuietKeepsAny ==
  ASSUME AnyIInv, UNCHANGED applicationVars,
         \/ Update \/ ReturnFromCallback
         \/ processReceivedPacket \/ packetsDone \/ processConnectionStateChanges
  PROVE  AnyIInv'
PROOF
<1>1. SocketsTypeOK /\ AnyClientTypeOK /\ EndsInv /\ LossIsOfTheCurrent
  BY AnyParts
<1>2. /\ UNCHANGED <<handle, callbacks, grouped, sent, server_connection>>
      /\ UNCHANGED <<packet_callback, connection_status_change_callback, connects, over, careless>>
  BY DEF Update, updateConnection, ReturnFromCallback, socketVars, processReceivedPacket, ReceiveMessage,
         packetsDone, processConnectionStateChanges, applicationVars
<1>3. SocketsTypeOK'
  <2>1. CASE CanReceive(server_connection) /\ ReceiveMessage(server_connection) /\ unread[server_connection] > 0
    BY <1>1, <2>1, ReceiveType DEF CanReceive
  <2>2. CASE UNCHANGED socketVars
    BY <1>1, <2>2, SocketsUnchanged
  <2>3. QED
    BY <2>1, <2>2 DEF Update, updateConnection, ReturnFromCallback, processReceivedPacket, packetsDone,
                      processConnectionStateChanges
<1>4. Len(callbacks) \in Nat
  BY <1>1, LenProperties DEF SocketsTypeOK
<1>5. batch' \in Nat /\ batch' <= Len(callbacks')
  BY <1>1, <1>2, <1>4 DEF Update, updateConnection, ReturnFromCallback, AnyClientTypeOK,
                          processReceivedPacket, packetsDone, processConnectionStateChanges
<1>6. packet_index' \in 0 .. MaxProcessedPackets
  BY <1>1, ClientAssumption
     DEF Update, updateConnection, ReturnFromCallback, AnyClientTypeOK, processReceivedPacket, morePackets,
         packetsDone, processConnectionStateChanges
<1>7. /\ pc' \in {"main", "processReceivedPackets", "processConnectionStateChanges", "RunCallbacks", "callback"}
      /\ outcome' \in {"running", "nullPacket", "exit"}
  BY <1>1 DEF Update, updateConnection, ReturnFromCallback, AnyClientTypeOK, processReceivedPacket,
              packetsDone, processConnectionStateChanges
<1>8. AnyClientTypeOK'
  BY <1>1, <1>2, <1>5, <1>6, <1>7 DEF AnyClientTypeOK
<1>9. \/ UNCHANGED outcome
      \/ outcome' = "nullPacket"
  BY DEF Update, updateConnection, ReturnFromCallback, processReceivedPacket, packetsDone,
         processConnectionStateChanges
<1>10. EndsInv' /\ LossIsOfTheCurrent'
  BY <1>1, <1>2, <1>9, StillKeepsEnds
<1>11. QED
  BY <1>3, <1>8, <1>10, AnyParts

\* onSteamNetConnectionStatusChanged: the first change leaves the queue.  When it
\* is an end, the losses of that connection have left it before.
LEMMA DispatchKeepsAny == AnyIInv /\ outcome = "running" /\ AnyDispatch => AnyIInv'
PROOF
<1> SUFFICES ASSUME AnyIInv, outcome = "running", AnyDispatch
             PROVE  AnyIInv'
  OBVIOUS
<1> DEFINE info == Head(callbacks)
<1>1. SocketsTypeOK /\ AnyClientTypeOK /\ EndsInv /\ LossIsOfTheCurrent /\ callbacks \in Seq(Change)
  BY AnyParts DEF SocketsTypeOK
<1>2. /\ batch \in Nat \ {0} /\ batch' = batch - 1 /\ callbacks' = Tail(callbacks)
      /\ UNCHANGED <<handle, unread, grouped, sent, server_connection, packet_index,
                     packet_callback, connection_status_change_callback, connects, careless>>
      /\ \/ /\ pc' = "callback" /\ UNCHANGED outcome
            /\ over' = IF Ends(info) THEN over \cup {info.conn} ELSE over
         \/ outcome' = "exit" /\ UNCHANGED <<pc, over>>
  BY <1>1 DEF AnyDispatch, AnyClientTypeOK
<1>3. callbacks # <<>>
  BY <1>1, <1>2, EmptySeq DEF AnyClientTypeOK
<1>4. /\ callbacks' \in Seq(Change) /\ Len(callbacks') = Len(callbacks) - 1 /\ Len(callbacks) \in Nat \ {0}
      /\ 1 \in DOMAIN callbacks /\ info = callbacks[1]
      /\ \A i \in DOMAIN callbacks' :
           i \in Nat \ {0} /\ i + 1 \in DOMAIN callbacks /\ callbacks'[i] = callbacks[i + 1]
      /\ \A i \in DOMAIN callbacks \ {1} : i - 1 \in DOMAIN callbacks' /\ callbacks'[i - 1] = callbacks[i]
  BY <1>1, <1>2, <1>3, TakenFacts
<1>5. info.conn \in Conn
  BY <1>1, <1>4, QueuedChange
<1> HIDE DEF info
<1>6. SocketsTypeOK'
  BY <1>1, <1>2, <1>4 DEF SocketsTypeOK
<1>7. AnyClientTypeOK'
  BY <1>1, <1>2, <1>4, <1>5 DEF AnyClientTypeOK
<1>8. EndsAreNews'
  <2> SUFFICES ASSUME NEW i \in DOMAIN callbacks', Ends(callbacks'[i])
               PROVE  /\ handle[callbacks'[i].conn] \in Lost \cup {"Destroyed"}
                      /\ \A j \in DOMAIN callbacks' :
                           i < j /\ callbacks'[j].conn = callbacks'[i].conn => callbacks'[j].new \notin Lost
    BY <1>2 DEF EndsAreNews, Ends, Ended
  <2>1. /\ Ended(callbacks[i + 1].conn)
        /\ \A j \in DOMAIN callbacks :
             i + 1 < j /\ callbacks[j].conn = callbacks[i + 1].conn => callbacks[j].new \notin Lost
    BY <1>1, <1>4 DEF EndsInv, EndsAreNews
  <2>2. ASSUME NEW j \in DOMAIN callbacks', i < j, callbacks'[j].conn = callbacks'[i].conn
        PROVE  callbacks'[j].new \notin Lost
    <3>1. j + 1 \in DOMAIN callbacks /\ i + 1 < j + 1
      BY <1>4, <2>2
    <3>2. QED
      BY <1>4, <2>1, <2>2, <3>1
  <2>3. QED
    BY <1>4, <2>1, <2>2 DEF Ended
<1>9. OverIsOver'
  <2> SUFFICES ASSUME NEW d \in over'
               PROVE  /\ Ended(d)
                      /\ \A i \in DOMAIN callbacks' : callbacks'[i].new \in Lost => callbacks'[i].conn # d
    BY <1>2 DEF OverIsOver, Ended
  <2>1. CASE d \in over
    BY <1>1, <1>4, <2>1 DEF EndsInv, OverIsOver
  <2>2. CASE d = info.conn /\ Ends(info)
    <3>1. /\ Ended(d)
          /\ \A j \in DOMAIN callbacks : 1 < j /\ callbacks[j].conn = d => callbacks[j].new \notin Lost
      BY <1>1, <1>4, <2>2 DEF EndsInv, EndsAreNews
    <3>2. \A i \in DOMAIN callbacks' : 1 < i + 1
      BY <1>4
    <3>3. QED
      BY <1>4, <3>1, <3>2
  <2>3. QED
    BY <1>2, <2>1, <2>2
<1>10. NoEndIsForgotten'
  <2> SUFFICES ASSUME outcome' = "running", NEW d \in Conn, Ended(d), d \notin over'
               PROVE  \E i \in DOMAIN callbacks' : callbacks'[i].conn = d /\ Ends(callbacks'[i])
    BY <1>2 DEF NoEndIsForgotten, Ended, Ends
  <2>1. over' = IF Ends(info) THEN over \cup {info.conn} ELSE over
    BY <1>2
  <2>2. PICK i \in DOMAIN callbacks : callbacks[i].conn = d /\ Ends(callbacks[i])
    BY <1>1, <2>1 DEF EndsInv, NoEndIsForgotten
  <2>3. i # 1
    BY <1>4, <2>1, <2>2
  <2>4. QED
    BY <1>4, <2>2, <2>3
<1>11. LossIsOfTheCurrent'
  BY <1>1, <1>2, <1>4 DEF LossIsOfTheCurrent
<1>12. QED
  BY <1>6, <1>7, <1>8, <1>9, <1>10, <1>11, AnyParts DEF EndsInv

\* The network.  It can only take a connection that is alive, and so has not
\* been reported as ended.
LEMMA NetworkKeepsAny == AnyIInv /\ AnyNetwork => AnyIInv'
PROOF
<1> SUFFICES ASSUME AnyIInv, NEW c \in Conn,
                    PeerAccepts(c) \/ (\E how \in Lost : PeerIsLost(c, how)) \/ PeerSends(c),
                    UNCHANGED <<clientVars, applicationVars>>
             PROVE  AnyIInv'
  BY DEF AnyNetwork
<1>1. SocketsTypeOK /\ AnyClientTypeOK /\ EndsInv /\ LossIsOfTheCurrent /\ callbacks \in Seq(Change)
  BY AnyParts DEF SocketsTypeOK
<1>2. /\ UNCHANGED <<server_connection, packet_index, batch, pc, outcome>>
      /\ UNCHANGED <<packet_callback, connection_status_change_callback, connects, over, careless>>
  BY DEF clientVars, applicationVars
<1>3. SocketsTypeOK'
  BY <1>1, NetworkType
<1>4. CASE PeerSends(c)
  <2>1. UNCHANGED <<handle, callbacks>>
    BY <1>4 DEF PeerSends
  <2>2. AnyClientTypeOK'
    BY <1>1, <1>2, <2>1 DEF AnyClientTypeOK
  <2>3. EndsInv' /\ LossIsOfTheCurrent'
    BY <1>1, <1>2, <2>1, StillKeepsEnds
  <2>4. QED
    BY <1>3, <2>2, <2>3, AnyParts
<1>5. ASSUME NEW from \in SteamState, NEW to \in SteamState \ {"None"},
             handle[c] \in Live \ Lost,
             handle' = [handle EXCEPT ![c] = to], callbacks' = Posted(callbacks, c, from, to)
      PROVE  AnyIInv'
  <2>1. handle'[c] = to /\ \A d \in Conn : d # c => handle'[d] = handle[d]
    BY <1>1, <1>5 DEF SocketsTypeOK
  <2>2. "Destroyed" \notin SteamState /\ "None" \notin Lost
    BY States
  <2>3. ~Ended(c) /\ (Ended(c)' <=> to \in Lost)
    BY <1>5, <2>1, <2>2, States DEF Ended
  <2>4. EndsInv'
    <3>1. /\ over \subseteq Conn /\ UNCHANGED <<over, outcome>>
          /\ Ended(c) \/ to \in Lost \cup {"None"} <=> Ended(c)'
      BY <1>1, <1>2, <1>5, <2>3 DEF AnyClientTypeOK
    <3>2. QED
      BY <1>1, <1>5, <2>1, <2>3, <3>1, PostingKeepsEnds
  <2>5. Len(callbacks) \in Nat /\ Len(callbacks') = Len(callbacks) + 1
    BY <1>1, <1>5, PostedLength
  <2>6. AnyClientTypeOK'
    BY <1>1, <1>2, <2>5 DEF AnyClientTypeOK
  <2>7. LossIsOfTheCurrent'
    <3> SUFFICES ASSUME ~careless
                 PROVE  /\ \A i \in DOMAIN callbacks' :
                             callbacks'[i].new \in Lost => callbacks'[i].conn = server_connection
                        /\ \A d \in Conn : handle'[d] \in Live => d = server_connection
      BY <1>2 DEF LossIsOfTheCurrent
    <3>1. c = server_connection
      BY <1>1, <1>5 DEF LossIsOfTheCurrent
    <3> DEFINE D == {c}
    <3>2. D \in SUBSET Conn /\ c \in D
      OBVIOUS
    <3>3. \A i \in DOMAIN callbacks : callbacks[i].new \in Lost => callbacks[i].conn \in D
      BY <1>1, <3>1 DEF LossIsOfTheCurrent
    <3> HIDE DEF D
    <3>4. \A i \in DOMAIN callbacks' : callbacks'[i].new \in Lost => callbacks'[i].conn \in D
      BY <1>1, <1>5, <3>2, <3>3, PostedLosses
    <3>5. QED
      BY <1>1, <2>1, <3>1, <3>4 DEF LossIsOfTheCurrent, D
  <2>8. QED
    BY <1>3, <2>4, <2>6, <2>7, AnyParts
<1>6. CASE PeerAccepts(c)
  BY <1>5, <1>6, States DEF PeerAccepts
<1>7. ASSUME NEW how \in Lost, PeerIsLost(c, how)
      PROVE  AnyIInv'
  <2>1. /\ handle[c] \in SteamState /\ handle[c] \in Live \ Lost /\ how \in SteamState \ {"None"}
        /\ handle' = [handle EXCEPT ![c] = how] /\ callbacks' = Posted(callbacks, c, handle[c], how)
    BY <1>7, States DEF PeerIsLost
  <2>2. QED
    BY <1>5, <2>1
<1>8. QED
  BY <1>4, <1>6, <1>7

LEMMA InitAnyIInv == AnyInit => AnyIInv
PROOF
<1> SUFFICES ASSUME AnyInit
             PROVE  AnyIInv
  OBVIOUS
<1>1. /\ SocketsTypeOK /\ callbacks = <<>> /\ Len(callbacks) = 0 /\ DOMAIN callbacks = {}
      /\ over = {} /\ \A c \in Conn : handle[c] = "Unused"
  BY InitSocketsType, EmptySeq DEF AnyInit, SocketsInit
<1>2. AnyClientTypeOK
  <2>1. packet_index \in 0 .. MaxProcessedPackets /\ connects \in 0 .. MaxConnects
        /\ batch \in Nat /\ batch <= Len(callbacks)
    BY <1>1, ClientAssumption, ConnectsAssumption DEF AnyInit, ClientInit
  <2>2. packet_callback \in BOOLEAN /\ connection_status_change_callback \in BOOLEAN /\ careless \in BOOLEAN
    BY Zenon DEF AnyInit
  <2>3. QED
    BY <1>1, <2>1, <2>2 DEF AnyInit, ClientInit, AnyClientTypeOK
<1>3. EndsInv /\ LossIsOfTheCurrent
  BY <1>1, States DEF EndsInv, EndsAreNews, OverIsOver, NoEndIsForgotten, LossIsOfTheCurrent, Ended
<1>4. QED
  BY <1>1, <1>2, <1>3, AnyParts

LEMMA NextAnyIInv == AnyIInv /\ [AnyNext]_anyVars => AnyIInv'
PROOF
<1> SUFFICES ASSUME AnyIInv, [AnyNext]_anyVars
             PROVE  AnyIInv'
  OBVIOUS
<1>1. CASE UNCHANGED anyVars
  <2>1. SocketsTypeOK /\ AnyClientTypeOK /\ EndsInv /\ LossIsOfTheCurrent /\ SocketsTypeOK'
    BY <1>1, AnyParts, SocketsUnchanged DEF anyVars
  <2>2. UNCHANGED <<handle, callbacks, server_connection, packet_index, batch, pc, outcome, packet_callback,
                    connection_status_change_callback, connects, over, careless>>
    BY <1>1 DEF anyVars, socketVars, clientVars, applicationVars
  <2>3. AnyClientTypeOK'
    BY <2>1, <2>2 DEF AnyClientTypeOK
  <2>4. EndsInv' /\ LossIsOfTheCurrent'
    BY <2>1, <2>2, StillKeepsEnds
  <2>5. QED
    BY <2>1, <2>3, <2>4, AnyParts
<1>2. CASE Connect
  BY <1>2, ConnectKeepsAny
<1>3. CASE Close
  BY <1>3, CloseKeepsAny
<1>4. CASE /\ UNCHANGED applicationVars
           /\ \/ Update \/ ReturnFromCallback
              \/ processReceivedPacket \/ packetsDone \/ processConnectionStateChanges
  BY <1>4, QuietKeepsAny
<1>5. CASE outcome = "running" /\ AnyDispatch
  BY <1>5, DispatchKeepsAny
<1>6. CASE AnyNetwork
  BY <1>6, NetworkKeepsAny
<1>7. QED
  BY <1>1, <1>2, <1>3, <1>4, <1>5, <1>6 DEF AnyNext, Library, Update, ReturnFromCallback

\* The invariant of class Client, for any number of connections and of calls of
\* initializeConnection, whatever the application does.
THEOREM AnyInvariance == AnySpec => []AnyIInv
PROOF
  BY InitAnyIInv, NextAnyIInv, PTL DEF AnySpec

\* The client's variables keep their types under any application.
THEOREM AnyTypeCorrect == AnySpec => []AnyTypeOK
PROOF
<1>1. AnyIInv => AnyTypeOK
  BY DEF AnyIInv
<1>2. QED
  BY <1>1, AnyInvariance, PTL

\* An application that replaces a connection only when its end was reported and it
\* is closed never closes another than the one that is reported lost, though
\* closeConnection does not say which (Client.cpp:119-132, 169-172).
THEOREM LossesAreOfTheCurrent == AnySpec => []LossIsOfTheCurrent
PROOF
<1>1. AnyIInv => LossIsOfTheCurrent
  BY DEF AnyIInv
<1>2. QED
  BY <1>1, AnyInvariance, PTL

\* While the client runs, the end of each connection was reported or waits in the
\* queue, also of the ones that were overwritten (Client.cpp:108-132, 169-172).
\* What is left for liveness is that the queue is handed over.
THEOREM EndsAreNotForgotten == AnySpec => []NoEndIsForgotten
PROOF
<1>1. AnyIInv => NoEndIsForgotten
  BY DEF AnyIInv
<1>2. QED
  BY <1>1, AnyInvariance, PTL
=============================================================================
