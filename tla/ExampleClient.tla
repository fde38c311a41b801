---------------------------- MODULE ExampleClient ----------------------------
(***************************************************************************)
(* The example client program: it waits for its connection, sends a series *)
(* of reliable and one of unreliable packets and ends.  The network may    *)
(* take the connection away between any two of its calls.                  *)
(***************************************************************************)
EXTENDS Client

CONSTANT NumOfMessages   \* NUM_OF_MESSAGES, of each kind

ASSUME MessagesAssumption == NumOfMessages \in Nat \ {0}

VARIABLE message_index   \* of both series together

vars == <<socketVars, clientVars, message_index>>

TypeOK ==
  /\ SocketsTypeOK
  /\ server_connection \in Conn \cup {NoConn}
  /\ packet_index \in 0 .. MaxProcessedPackets
  /\ batch \in Nat
  /\ pc \in {"initializeConnection", "connected", "processReceivedPackets",
             "processConnectionStateChanges", "RunCallbacks", "assert", "send", "kill"}
  /\ outcome \in {"running", "nullPacket", "notConnected", "finished"}
  /\ message_index \in 0 .. 2 * NumOfMessages

Init ==
  /\ SocketsInit
  /\ ClientInit
  /\ pc = "initializeConnection"
  /\ outcome = "running"
  /\ message_index = 0

-----------------------------------------------------------------------------
(* main                                                                    *)

\* The address is a literal ParseString accepts; the result is ignored.
InitializeConnection ==
  /\ pc = "initializeConnection"
  /\ initializeConnection
  /\ pc' = "connected"
  /\ UNCHANGED <<packet_index, batch, outcome, message_index>>

\* The condition of the loop.
WhileNotConnected ==
  /\ pc = "connected"
  /\ \/ ~connected /\ updateConnection
     \/ connected /\ pc' = "assert" /\ UNCHANGED <<socketVars, server_connection, packet_index, batch, outcome>>
  /\ UNCHANGED message_index

moreMessages == message_index < 2 * NumOfMessages

\* Mutant: the assertion is compiled out.
notAsserted == TRUE

\* The assertion both sends begin with.
asserted == connected

AssertConnected ==
  /\ pc = "assert"
  /\ moreMessages
  /\ \/ asserted /\ pc' = "send" /\ UNCHANGED outcome
     \/ ~asserted /\ outcome' = "notConnected" /\ UNCHANGED pc
  /\ UNCHANGED <<socketVars, server_connection, packet_index, batch, message_index>>

Send ==
  /\ pc = "send"
  /\ sendDataToServer(IF message_index < NumOfMessages THEN "reliable" ELSE "unreliable")
  /\ message_index' = message_index + 1
  /\ pc' = "assert"
  /\ UNCHANGED <<handle, callbacks, unread, grouped, server_connection, packet_index, batch, outcome>>

\* The library is given time to finish up, then shut down; main returns.
Finish ==
  /\ \/ pc = "assert" /\ ~moreMessages /\ pc' = "kill" /\ UNCHANGED outcome
     \/ pc = "kill" /\ outcome' = "finished" /\ UNCHANGED pc
  /\ UNCHANGED <<socketVars, server_connection, packet_index, batch, message_index>>

-----------------------------------------------------------------------------
(* connectionStatusChangeCallback, behind the mapping of the states.       *)

\* Mutant: the branch forgets the library's own verdict.
OnlyClosedByPeer == {"ClosedByPeer"}

\* Mutant: every change but the first closes the connection.
LostOrConnected == Lost \cup {"Connected"}

\* The states whose mapping closes the connection.
LostState == Lost

Dispatch ==
  /\ pc = "RunCallbacks"
  /\ batch > 0
  /\ batch' = batch - 1
  /\ IF Head(callbacks).new \in LostState
     THEN closeConnection(Tail(callbacks))
     ELSE callbacks' = Tail(callbacks) /\ UNCHANGED <<handle, unread, grouped, sent, server_connection>>
  /\ UNCHANGED <<packet_index, pc, outcome, message_index>>

CallbacksDone ==
  /\ pc = "RunCallbacks"
  /\ batch = 0
  /\ pc' = "connected"
  /\ UNCHANGED <<socketVars, server_connection, packet_index, batch, outcome, message_index>>

-----------------------------------------------------------------------------
Main ==
  \/ InitializeConnection \/ WhileNotConnected \/ AssertConnected \/ Send \/ Finish
  \/ Dispatch \/ CallbacksDone
  \/ (processReceivedPacket \/ packetsDone \/ processConnectionStateChanges) /\ UNCHANGED message_index

Network(c) ==
  /\ PeerAccepts(c) \/ (\E how \in Lost : PeerIsLost(c, how)) \/ PeerSends(c)
  /\ UNCHANGED <<clientVars, message_index>>

Next == outcome = "running" /\ (Main \/ \E c \in Conn : Network(c))

Spec == Init /\ [][Next]_vars

\* The main thread is scheduled, and the library does not leave a connection
\* CONNECTING for ever: it times out.
FairSpec ==
  /\ Spec
  /\ WF_vars(outcome = "running" /\ Main)
  /\ \A c \in Conn : WF_vars(outcome = "running" /\ handle[c] = "Connecting" /\ Network(c))

-----------------------------------------------------------------------------
(* Properties.                                                             *)

\* Every packet but one at most that the program hands over is accepted, and one
\* is missing only once the connection is gone: the assertion in front of each
\* send (Client.cpp:151, 161) leaves a window of a single call.
AtMostOneRefused ==
  server_connection \in Conn =>
    /\ message_index - Len(sent[server_connection]) \in {0, 1}
    /\ message_index > Len(sent[server_connection]) => handle[server_connection] # "Connected"

Waiting == {"initializeConnection", "connected", "processReceivedPackets",
            "processConnectionStateChanges", "RunCallbacks"}

\* A loss is the last thing reported of a connection before it is closed, so the
\* one that closes it finds it lost and not closed yet.
LossIsLast ==
  \A i \in DOMAIN callbacks :
    /\ callbacks[i].conn = server_connection
    /\ callbacks[i].new \in Lost => i = Len(callbacks) /\ handle[server_connection] \in Lost

\* What makes AtMostOneRefused inductive: no handle but the server's is used,
\* nothing is sent while the program waits, and when it sends, its connection has
\* been up and everything before has been taken.
IInv ==
  /\ TypeOK
  /\ AtMostOneRefused
  /\ LossIsLast
  /\ batch <= Len(callbacks)
  /\ \A c \in Conn : c # server_connection => handle[c] = "Unused" /\ sent[c] = <<>>
  /\ pc = "initializeConnection" => callbacks = <<>> /\ \A c \in Conn : handle[c] = "Unused"
  /\ pc \in Waiting => message_index = 0 /\ \A c \in Conn : sent[c] = <<>>
  /\ pc \notin Waiting => server_connection \in Conn /\ handle[server_connection] \in {"Connected"} \cup Lost
  /\ pc = "send" => moreMessages /\ message_index = Len(sent[server_connection])

\* The loop that waits for the connection is left: the server answers, or what
\* the library reports instead ends the loop - and the process with it
\* (ExampleClient.cpp:64-67).
WaitingEnds ==
  pc \in Waiting ~> pc = "assert" \/ outcome # "running"

\* Client.cpp:88-91: a failed receive is an error that is reported, "Error
\* checking for messages", and not one that ends the process.
ReceiveErrorIsSurvived == outcome # "nullPacket"
=============================================================================
