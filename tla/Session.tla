------------------------------ MODULE Session ------------------------------
(***************************************************************************)
(* The two example programs together: the server, one client and what      *)
(* connects them.  The server's variables keep their names; the client's   *)
(* begin with c_, except those only it has.  What the network did on its   *)
(* own in ExampleServer and ExampleClient now follows from what the other  *)
(* end does, from delays and, on a lossy network, from losses.              *)
(***************************************************************************)
EXTENDS ExampleServer

CONSTANT NumOfMessages   \* NUM_OF_MESSAGES of the client

\* Both programs take the same number of packets at once, at least one.
ASSUME SessionAssumption ==
  /\ MaxProcessedPackets # 0
  /\ NumOfMessages \in Nat \ {0}

VARIABLES
  c_handle, c_callbacks, c_unread, c_grouped, c_sent,
  server_connection, c_packet_index, c_batch, c_pc, c_outcome, message_index,
  answered,   \* connections the server has accepted: the answer is on its way
  passed,     \* how many packets the network is done with, in each direction
  lossy       \* may the network lose packets and connections?

serverProgram == <<socketVars, lineVars, serverVars, packet_index, pc, batch, outcome, serving, recipients>>

Peer == INSTANCE ExampleClient
  WITH handle <- c_handle, callbacks <- c_callbacks, unread <- c_unread, grouped <- c_grouped,
       sent <- c_sent, packet_index <- c_packet_index, batch <- c_batch, pc <- c_pc,
       outcome <- c_outcome

clientSockets == <<c_handle, c_callbacks, c_unread, c_grouped, c_sent>>
clientMain == <<server_connection, c_packet_index, c_batch, c_pc, c_outcome, message_index>>
clientProgram == <<clientSockets, clientMain>>
linkVars == <<answered, passed, lossy>>

SessionInit ==
  /\ Init
  /\ Peer!Init
  /\ answered = {}
  /\ passed = [c \in Conn |-> [up |-> 0, down |-> 0]]
  /\ lossy \in BOOLEAN

-----------------------------------------------------------------------------
(* The two programs, each by itself.                                       *)

Server ==
  /\ outcome = "running"
  /\ Main \/ PollThread
  /\ answered' = answered \cup {c \in Conn : handle'[c] = "Connected"}
  /\ UNCHANGED <<clientProgram, passed, lossy>>

\* The library is shut down half a second after the last send: without losses
\* that is time enough for what was sent to arrive, if there is still a server.
FinishedUp ==
  lossy \/ outcome # "running" \/ \A c \in Conn : passed[c].up = Len(c_sent[c]) \/ handle[c] # "Connected"

Client ==
  /\ c_outcome = "running"
  /\ Peer!Main
  /\ c_pc = "kill" => FinishedUp
  /\ UNCHANGED <<serverProgram, linkVars>>

-----------------------------------------------------------------------------
(* The link.                                                               *)

ServerHears == UNCHANGED <<lineVars, serverVars, packet_index, pc, batch, outcome, serving, recipients, clientProgram,
                         lossy>>
ClientHears == UNCHANGED <<serverProgram, clientMain, answered, lossy>>

\* The connect request arrives.
Request(c) ==
  /\ outcome = "running" /\ listening_socket = "valid"
  /\ c_outcome = "running" /\ c_handle[c] = "Connecting"
  /\ PeerConnects(c)
  /\ ServerHears /\ UNCHANGED linkVars

Answer(c) ==
  /\ c_outcome = "running"
  /\ c \in answered
  /\ Peer!PeerAccepts(c)
  /\ ClientHears /\ UNCHANGED passed

\* Packets arrive in the order they were sent; an unreliable one may not.
SendUp(c) ==
  /\ outcome = "running"
  /\ passed[c].up < Len(c_sent[c])
  /\ \/ PeerSends(c)
     \/ lossy /\ c_sent[c][passed[c].up + 1].kind = "unreliable" /\ UNCHANGED socketVars
  /\ passed' = [passed EXCEPT ![c].up = @ + 1]
  /\ ServerHears /\ UNCHANGED answered

SendDown(c) ==
  /\ c_outcome = "running"
  /\ passed[c].down < Len(sent[c])
  /\ Peer!PeerSends(c)
  /\ passed' = [passed EXCEPT ![c].down = @ + 1]
  /\ ClientHears

Down(state) == state \in {"Destroyed"} \cup Lost

\* A connection that the other end no longer has, or will never answer, is given
\* up.
ServerLosesPeer(c) ==
  /\ outcome = "running"
  /\ lossy \/ c_outcome # "running" \/ Down(c_handle[c])
  /\ \E how \in Lost : PeerIsLost(c, how)
  /\ ServerHears /\ UNCHANGED linkVars

ClientLosesPeer(c) ==
  /\ c_outcome = "running"
  /\ lossy \/ outcome # "running" \/ Down(handle[c]) \/ ~running
  /\ \E how \in Lost : Peer!PeerIsLost(c, how)
  /\ ClientHears /\ UNCHANGED passed

Link(c) ==
  Request(c) \/ Answer(c) \/ SendUp(c) \/ SendDown(c) \/ ServerLosesPeer(c) \/ ClientLosesPeer(c)

SessionNext == Server \/ Client \/ \E c \in Conn : Link(c)

sessionVars == <<serverProgram, clientProgram, linkVars>>
SessionSpec == SessionInit /\ [][SessionNext]_sessionVars

\* Both main threads are scheduled, what was sent arrives unless it is lost, and
\* an end that is alone finds out (the library's timeouts).
FairSessionSpec ==
  /\ SessionSpec
  /\ WF_sessionVars(outcome = "running" /\ Main /\ Server)
  /\ WF_sessionVars(Client)
  /\ \A c \in Conn :
       /\ WF_sessionVars(Request(c) \/ ClientLosesPeer(c))
       /\ WF_sessionVars(Answer(c) \/ ClientLosesPeer(c))
       /\ WF_sessionVars(SendUp(c) \/ ServerLosesPeer(c))
       /\ WF_sessionVars(ServerLosesPeer(c))

-----------------------------------------------------------------------------
(* Properties.                                                             *)

Released(c) == handle[c] \in {"Unused", "Destroyed"} /\ connections[c] = "ABSENT"

\* No session stays half open: whatever the network loses and whenever, the
\* client's process ends, and a server that goes on running has given the
\* connection back and forgotten it (ExampleServer.cpp:42-60 at one end,
\* ExampleClient.cpp:35-45 and 64-67 at the other).
NothingStaysHalfOpen ==
  \A c \in Conn : <>[](c_outcome # "running" /\ (Released(c) \/ ~running \/ outcome # "running"))

\* On a network that loses nothing a client that has been welcomed ends by having
\* sent its series, while there is a server: nothing either program does to the
\* connection comes before it is done (ExampleClient.cpp:64-87 against
\* ExampleServer.cpp:36-103).  That it ends at all is NothingStaysHalfOpen.
WelcomedFinishes ==
  \A c \in Conn :
    ~lossy /\ sent[c] # <<>> /\ c_outcome # "running" =>
      c_outcome = "finished" \/ quit_requested \/ outcome # "running"

\* What WelcomedFinishes rests on, when the network loses nothing.  A connection
\* the server still has is one the client still has, for the server is the last
\* to know that it is over; so a client that was welcomed stays connected for as
\* long as it runs, and one that failed has nothing the server could welcome.
Up == {"Connecting", "Connected"}

UpAtBothEnds ==
  ~lossy /\ outcome = "running" /\ running => \A c \in Conn : handle[c] \in Up => c_handle[c] \in Up

WelcomedStaysUp ==
  ~lossy /\ outcome = "running" /\ running =>
    \A c \in Conn : sent[c] # <<>> =>
      /\ c_outcome = "running" => handle[c] = "Connected"
      /\ c_outcome \in {"running", "finished"}

FailedIsDown ==
  c_outcome \in {"nullPacket", "notConnected"} => \A c \in Conn : c_handle[c] \notin Up

\* Nobody was there before the server opened, and a server that did not open has
\* nothing to say.
NobodyBeforeOpen ==
  /\ pc = "openConnection" =>
       ~running /\ listening_socket # "valid" /\ \A c \in Conn : handle[c] = "Unused" /\ sent[c] = <<>>
  /\ running \/ quit_requested \/ (pc \in {"openConnection", "main"} /\ \A c \in Conn : sent[c] = <<>>)

SessionInv == UpAtBothEnds /\ WelcomedStaysUp /\ FailedIsDown /\ NobodyBeforeOpen
=============================================================================
