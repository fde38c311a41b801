# A TLA+ model of chaos-in-multiplayer

The repository is a small client/server library in C++ on top of Valve's
GameNetworkingSockets, with an example server and an example client. This
directory holds TLA+ modules for it, configurations that let TLC check them on
small instances, and proofs that TLAPS checks for instances of any size.

## 1. The system

| Part | State | Operations | Interacts with |
|---|---|---|---|
| `Server` (`Source/Server/Server.cpp`) | `running`, `quit_requested`, `listening_socket`, `poll_group`, the table `connections`, `max_processed_packets` | open, update (packets, then callbacks, then input), close; create, close and remove an entry; send to one, to all, to all but one | calls the socket library; is called back by it inside `RunCallbacks`; reads the input controller's queue; calls the application's callbacks |
| `ClientConnection` | handle, poll group, alias, `connection_state` | accept, setPollGroup, close, move | owned by the server's table |
| Example server (`Examples/ExampleServer`) | none of its own | `main` loop, packet callback, connection status callback | drives `Server`, and changes its table from within `Server`'s own update |
| `InputController` | `exit_requested`, mutex, queue, the thread | poll thread, `inputAvailable`, `readInput` | a poll thread, a thread per `std::async`, the owner's thread |
| `Client` (`Source/Client/Client.cpp`) | `server_connection`, callbacks | initialize, update, send, close, `connected` | the socket library |
| Example client | none | `main`, status callback | drives `Client` |
| `Packet`, `NetworkingUtils`, status types | bytes; none; enums | copy; init, log, kill | — |
| GameNetworkingSockets (external) | handles, queued callbacks, unread packets, poll group | accept, close, send, receive, run callbacks | a service thread of its own |

What makes this hard is that three parties move at once. The socket library has
a thread of its own: a peer may connect, send, close or time out between any two
calls the server makes. What it does is reported later, as a queued *snapshot*,
so every callback acts on news that may be old. And the operator's lines come
from a second thread, through a class whose own construction and destruction
race with that thread.

What makes each part correct:

* *Server and example server*: the table, the library's handles and the poll
  group agree whenever the program looks at them, whatever order connects,
  losses and failures come in; no handle is leaked; what the clients are told
  about each other agrees with the table; nobody can keep the server from
  closing lost connections or from quitting.
* *InputController*: what is typed reaches the owner once and in order; the queue
  is touched by one thread at a time and only while it exists.
* *ClientConnection*: a handle has one owner, whose state is the handle's, and the
  destructor asserts just when a live connection would be lost.
* *Client*: sends only while connected; never touches a packet it did not get;
  the end of every connection is reported, and it is that of the current one.
* *Both together*: an end that is alone finds out, and a client that was welcomed
  finishes what it came for.

`PROJECT.json` lists the hazards line by line with the properties that watch them.

## 2. The modules

```
SteamSockets        the socket library as one process sees it, external
LineSource          the promise of the input controller, as fragments and as a specification
Lobby               the promise of the example server to its clients, with its invariant
Server              EXTENDS SteamSockets, LineSource: class Server, as operators
ExampleServer       EXTENDS Server: the program, all threads, properties, refinement of Lobby
AnyApplication      EXTENDS Server: the library under opens, closes and table calls in any order
ClientConnection    EXTENDS SteamSockets: the class by itself, moves and destructor included
InputController     the class with its three threads; shown to implement LineSource
Client              EXTENDS SteamSockets: class Client, as operators
ExampleClient       EXTENDS Client: the program, the network, properties
AnyClient           EXTENDS Client: the library connecting and closing in any order
Session             ExampleServer and an INSTANCE of ExampleClient, joined by a link

SteamSocketsProofs, LobbyProofs, ExampleServerProofs, AnyApplicationProofs,
ClientConnectionProofs, ClientProofs, InputControllerProofs, SessionProofs
                    theorems and their proofs
MCExampleServer, MCAnyApplication, MCClientConnection, MCInputController,
MCExampleClient, MCAnyClient, MCSession
                    instances for TLC
```

**SteamSockets.** One operator per library call and one per network event.
Assumptions, taken from how the code uses the library: each call is atomic;
callbacks are delivered first in first out, and a callback that was queued is
delivered although its connection has been closed since; `RunCallbacks` hands
over what was queued when it was called (`batch`); `AcceptConnection` succeeds
exactly while the connection is still connecting; `CloseConnection` queues a
change to None, drops unread packets and takes the connection out of its poll
group; closing the listen socket closes the connections that came in through it,
whose callbacks are queued in some order;
sending on a connection that is not connected has no effect (the code
ignores the result); receiving on a connection that is closed or never existed
gives a negative result. Server and client are separate processes, each with a
library of its own, so each program's module has its own copy of this state. A
handle is used for one connection; handles are not reused.

**Server.** The constructor leaves the two socket handles `"garbage"`. The table
is a function to `"ABSENT"` or a connection state. `updateConnection` is split
where the network can come in between: one receive call, the end of the loop, the
call of `RunCallbacks`, one callback, one look at the input at a time. A receive
on an invalid poll group dereferences null and a packet of an unregistered
connection fails an assertion; both are outcomes of the model.

**ExampleServer.** The callback is cut into steps at the calls after which
another thread can make a difference: `OnConnecting` (create, accept, or close
again), `SetPollGroup`, `Welcome`, `Announce`; `OnLost` (look up the entry) and
`Farewell` (tell the others, then close). A broadcast is a loop with one library
call per recipient, and so is the model: `recipients` holds the connections the
loop has still to come to, each step of `Announce` and `Farewell` sends to one of
them, in any order, and peers may be lost or ask to connect in between. A send
to one that was lost meanwhile has no effect. What is joined into one step, and
why it makes no difference, is in the header of the module. An assertion
that fails, an exception that is not caught and the end of `main` set `outcome`,
and the process stops there. In a build without assertions the same path at
`ExampleServer.cpp:45` throws from `connections.at`, so `"notRegistered"` ends
the process either way. `ParseString` is given a literal it accepts, so only the
two handle creations can fail in `OpenConnection`; each can, on its own.

**Lobby.** The abstract server: a room without sockets, callbacks or a table. A
connection is outside, inside, cut off or over. An arrival or a departure takes
place at one moment and makes `news`, owed to each member of that moment; the
members are told one by one (`Tell`), and nobody else comes or goes until the last
was told. A member may be cut off at any time, also between two of these; it hears
nothing from then on, and stays a member for the others until its departure is
announced. ExampleServer implements it under the mapping that reads `place` from
the handle, the entry and the position in the callback (`roomPlace`), `news` from
the recipients the broadcast has left (`roomNews`), and `inbox` from the packets
the library took (`sent`).

**AnyApplication.** The example server uses the library in one way only. Here the
application opens and closes the server, sets and clears its callbacks, and
creates, accepts, adds to the poll group, closes and removes the connections of
its table, in any order, from `main` and from inside both callbacks, with up to
`MaxOpens` calls of `openConnection` and the destructor at any time. An
`openConnection` may succeed, fail in either of its two handle creations, or fail
on the address. It speaks only of connections it was told about and entries that
exist, and closes an entry before it removes it, as the assertion of
`removeClientConnection` asks. Left out are the sends, which change nothing of the
server's own, `setMaxProcessedPackets`, moves out of the table, poll groups of the
application's own, updating or destroying the server from inside a callback, and
replacing a callback from inside that same callback. A callback may be missing,
which for the status callback ends the process and for the packet callback skips
the packet loop.

**ClientConnection.** The class with its objects as places in memory: construction
on a reported handle, both moves, accept, setPollGroup, close, and the destructor
with its assertion. The server creates its entries in place; the class is movable
all the same, and its correctness under moves is a property of its own.

**LineSource and InputController.** ExampleServer does not carry the input
controller's threads: it uses LineSource, at most one line and then a thread
that can end the process. InputController models the class in full and is shown
to implement LineSource under the mapping "spent = the outer future has no
state and its line is not on its way to the queue". Touching a mutex or a queue
outside its life is undefined behaviour: the model lets the process die or the
line vanish. `exit_requested` is a plain bool read by another thread: before it
is initialized it reads as anything, afterwards the old value may be seen.
`std::async` without a policy may defer, and a deferred future never becomes
ready here.

**Client, ExampleClient and AnyClient.** One thread. Each receive, each
callback and each look at the connection is a step of its own, because the
library's thread may move the connection in between; `asserted` and `Send` are
two steps for the same reason. The example sets no packet callback, so the first
use of a null packet is `Release`: `"nullPacket"`. `NoConn` is the handle after a
failed `initializeConnection`, whose result the program ignores. AnyClient does
for `Client` what AnyApplication does for `Server`: it connects up to
`MaxConnects` times, over a connection that may still be open, closes and
reconnects from inside callbacks, and may pass an address that does not parse.

**Session.** The two programs with what lies between them. The server's variables
are those of ExampleServer; the client is an instance of ExampleClient over
variables of its own. What the network did by itself in the two modules now
follows from the other end: a connection is requested because the client asked,
answered because the server accepted, and a packet arrives because one was sent,
in the order it was sent, after a delay. `lossy` is chosen at the start: a lossy
network may drop an unreliable packet and give a connection up at either end; one
that is not does so only when the other end is gone or will never answer. The
client's library is shut down half a second after the last send
(`NetworkingUtils.cpp:76-83`); `FinishedUp` says that without losses this is long
enough for what was sent to arrive. Hiding the client leaves a run of
ExampleServer and hiding the server leaves one of ExampleClient; both are proved,
so all that is proved of the programs holds in a session.

### Where the states and steps come from

`PROJECT.json` maps every definition to its lines. The rule of thumb: a variable
has the name of the member it stands for, an operator the name of its method,
and an action with a capital letter is a statement of `main`, of a callback, or a
call of the application that has no name in the source. Definitions marked
`Mutant` are deliberately wrong versions used to show that a property can fail; no
specification uses them.

## 3. What TLC checks

| Run | Instance | Shows |
|---|---|---|
| `server` | 2 clients, 1 unread packet each, 2 packets per turn, lines `/quit` and `hello` | the safety properties and the inductive invariant, `LostPeerIsReleased`, `QuitStops` |
| `server_broadcast` | 3 clients, no packets from them, no lines | what the clients are told: `StreamsWellFormed`, `RosterAgreement`, refinement of Lobby |
| `any_application` | 1 connection, 2 opens, 2 unread packets, 2 per turn | what no application can break |
| `client_connection` | 2 objects, 2 handles | ownership under moves, the destructor's assertion |
| `input_controller` | 2 lines waiting at most | exclusion, the queue is not read empty, delivery, refinement of LineSource |
| `client` | 1 connection, 2 unread packets, 2 per turn, 2 messages of each kind | `AtMostOneRefused`, `WaitingEnds` |
| `any_client` | 2 connections, 3 calls of `initializeConnection`, 1 unread packet | `LossIsOfTheCurrent` and its inductive invariant `AnyIInv`, `EndIsReported` |
| `session` | both programs, 1 client, 1 message of each kind, lossy or not | `WelcomedFinishes` and its inductive invariant `SessionInv`, `NothingStaysHalfOpen` |
| `server_registered_before` | 2 clients | *fails*: finding 1 |
| `server_quit_obeyed` | 2 clients | *fails*: finding 2 |
| `input_second_quit` | 2 lines waiting at most | *fails*: finding 3 |
| `client_receive_error` | as `client` | *fails*: finding 4 |

The properties, in words. Of the server:

* `PollGroupRegistered` — what can be received is for an entry of the table; in
  AnyApplication, whatever the application calls.
* `OnlyKnownAbort` — the process ends by the exhausted future, by the joinable
  thread, or by a lost connection without an entry, and in no other way.
* `NoLeakedHandle` — a live handle has an entry or a pending CONNECTING callback.
* `NoLossIsForgotten` — while the process runs, a connection that is lost and not
  given back has the report of its loss in the queue, or is the one that is being
  closed for it: the safety half of
  `LostPeerIsReleased`.
* `TableMatchesSockets` — an entry is CONNECTED and its handle is held.
* `AbortOnlyForUnwelcomed` — the failing assertion is met only for a peer that
  was never greeted, never for a client that was in.
* `StreamsWellFormed` — each client's packets: welcome first, nothing about
  itself otherwise, nothing twice, nothing about a client that left.
* `RosterAgreement` — between callbacks nobody believes in a client that has no
  entry, and of two present clients exactly one knows of the other.
* `ImplementsLobby` — the program is the room of module Lobby.
* `LostPeerIsReleased`, `QuitStops` — a lost connection is given back to the
  library, and a `/quit` that is queued ends a server that runs.

Of the server library under any application:

* `ConnectedIsHeld` — what the broadcasts take for connected was accepted and has
  not been given back.
* `OneOpenLeavesNothing` — a server that was opened once leaves no live connection
  in its table when it is destroyed.
* `NullOnlyAfterPacketCallback` — the packet loop uses a packet it did not get only
  after a packet callback of the same loop stopped the server, by closing it or by
  an `openConnection` that failed. Nothing the peers do leads there, and no loop
  begins without its group, whatever opened half way before.
* `PendingIsReported` — a peer that connects to a running server is reported,
  unless the server was told to quit.

Of the connection objects:

* `OneOwner`, `StateIsTrue` — a handle has one owner, and what the owner says of it
  is so, up to a loss no callback has reported yet.
* `AssertionIsExact` — the destructor asserts just when a live connection goes.
* `UnownedOnlyWhenAssignedOver` — apart from that assertion, a live connection
  loses its owner in the move assignment only, and only the one assigned over.

Of the input controller: `QueueIsExclusive`, `FrontNeverEmpty`, `LineIsDelivered`,
`ImplementsLineSource`.

Of the client:

* `AtMostOneRefused` — in a build with assertions, at most one send is refused
  because the connection is already gone, whatever the network does. It counts
  refused sends; a packet the library took may still be lost on the way.
* `WaitingEnds` — the wait for the connection ends.
* `LossIsOfTheCurrent` — for an application that replaces a connection only when
  its end was reported and it is closed, a loss in the queue is of the connection
  that `closeConnection`, which has no argument, would close.
* `NoEndIsForgotten`, a conjunct of `AnyIInv` — the end of a connection was reported
  or is in the queue, replaced or not: the safety half of
* `EndIsReported` — every connection's end is reported, replaced or not.

Of the two programs together:

* `WelcomedFinishes` — without losses a welcomed client ends by finishing its
  series, unless the server was told to quit or has ended.
* `UpAtBothEnds`, a conjunct of `SessionInv` — on a network that loses nothing a
  connection the running server still has is one the client still has.
* `NothingStaysHalfOpen` — the client's process ends, and a server that goes on
  running has given its connection back, whatever is lost and when.

**Bounds.** Two clients give every pair of roles (served and bystander, lost and
present). A broadcast with two recipients, one or both lost between its sends,
takes three clients: `server_broadcast` has them, and leaves out packets and lines
(`MaxUnread` = `MaxProcessedPackets` = 0, no `Line`), which a broadcast neither
reads nor writes. More clients are covered by the theorems, which are about any
number. Each connection contributes at
most four callbacks (connecting, connected, lost, None), so the callback queue
needs no bound. `MaxUnread` bounds packets waiting on a connection and
`MaxProcessedPackets` stands for the 5 of the source: with 1 packet of each of two
clients and 2 per turn the loop ends both by its bound and by an empty group.
AnyApplication has one connection, because every call is about one and what they
share is in the theorems; `MaxOpens` = 2 reaches every combination of a working and
a failed open before another. Three `initializeConnection` calls and two
connections let AnyClient replace a connection, and fail to. Two objects and two
handles are the least for a move over an open connection. One client and one
message of each kind make a session short enough to be followed to its end with
every loss. `MaxTyped` bounds lines that wait at the
terminal; two are enough for a line that is served and one that is discarded.
For the client by itself, two messages
stand for the ten of each series: the series ends and changes kind, with a send
before and after each. Symmetry is used in `client_connection` and
`server_broadcast` only, which check no liveness. Deadlock is not checked where the process may end, which is everywhere.

**Fairness.** `FairSpec` of ExampleServer is weak fairness of the main thread:
it never blocks (the calls do not wait), so it is scheduled. Nothing is assumed
of peers, of the network or of the operator. `FairSpec` of AnyApplication and of
AnyClient is weak fairness of the library's own steps and of the next call of
`updateConnection`: the application returns from its callbacks and goes on updating,
whatever else it does in between; it is not made to do anything else.
`FairSpec` of InputController is weak
fairness of each thread, and strong fairness of taking the mutex in `addInput`:
the owner takes the same mutex once per turn, so the poll thread finds it free
again and again but not for ever; the owner holds it for the time of one
`empty()` or `pop()`, between turns full of network calls, and no operating
system starves a waiter under these conditions. That the owner goes on asking holds
while the server runs; one that failed to open never asks (finding 2), and then
nothing is delivered. `FairSpec` of ExampleClient is
weak fairness of the main thread, which waits for nothing, and of the network for
a connection that is still connecting: the library gives up an attempt after its
timeout, so `Connecting` does not last. Nothing is assumed of it after that.
`FairSessionSpec` schedules both main threads and has the link do, for each
request, answer and packet, one of two things: deliver it, or let the end that
waits for it time out, which the library always does. The operator and the
poll thread are left out of it.

## 4. What the checks found

1. **A peer that is gone too early ends the server** (`server_registered_before`).
   It connects and closes, or times out, before `RunCallbacks`. The CONNECTING
   callback cannot accept it and drops the entry; the next callback reports the
   loss and fails the assertion "Connection should be registered before". A
   failing `setPollGroup` after such a loss leads to the same place.
2. **A server that could not open cannot be told to quit** (`server_quit_obeyed`).
   `updateConnection` returns before it looks at the input, and `main` loops on.
3. **One line per process** (`input_second_quit`). The future launched inside the
   loop hides the outer one; its line is thrown away, and the outer one, now
   without a state, makes `wait_for` throw in a thread nobody catches in. In the run
   a first line was served, and the second is a `/quit` that is typed but never read.
4. **A failed receive is used** (`client_receive_error`). When the server refuses
   the client or does not answer, the status callback closes the connection and
   the loop polls it again; the error is logged and the null packet released. The
   same happens when `initializeConnection` fails.

Besides these, the models show where the promises of the code end. The passing
properties are stated with exactly these exceptions:

* The assertion on sending is not the caller's to keep: a connection lost between two
  sends ends the client (`"notConnected"`), and a loss in the window after the
  assertion drops the packet unnoticed, the case of `AtMostOneRefused`.
* A normal end of `main` does not exist: the input controller destroys a joinable
  thread (`"joinableThread"`).
* `closeConnection` leaves `quit_requested` set, so a server that is opened again
  listens and never runs a callback: the exception in `PendingIsReported`.
* When only the poll group cannot be created the failure to listen is logged and
  the listen socket goes on listening. Peers connect to a server that will never
  look at them and time out by themselves (`NothingStaysHalfOpen`).
* A second `openConnection` that fails clears `running`, and the destructor then
  leaves the entries of the first unclosed: `OneOpenLeavesNothing` is about one
  open. A second one that succeeds forgets the first listen socket (`forgotten`).
* A packet callback that closes the server, or calls `openConnection` and fails,
  makes the loop poll a group that does not exist and use the null packet: the case
  of `NullOnlyAfterPacketCallback`.
* Assigning over a `ClientConnection` drops the live connection it held without the
  assertion of the destructor: the case of `UnownedOnlyWhenAssignedOver`.
* A client that calls `initializeConnection` again over an open connection can then
  close the wrong one from its status callback: `careless` in AnyClient.

## 5. What is proved

The proofs hold for every set `Conn`, every natural `MaxUnread` and
`MaxProcessedPackets` (the latter positive for the client), any lines, messages, objects and numbers of opens.
Assumptions: `SocketsAssumption`, `ServerAssumption`, `HandlesAssumption` (a server's
handles are finitely many, so that closing them all ends), `NoConnAssumption` (the
placeholder is not a connection), `OpensAssumption`, `ConnectsAssumption`,
`InvalidAssumption`, `SessionAssumption` and those of the client and the input
controller. TLC evaluates each on the runs of its module.

**ExampleServerProofs.** `Invariance` is `Spec => []IInv`; from it `TypeCorrect`,
`PacketsAreForEntries`, `AbortsAreKnown`, `HandlesAreKept`, `TableIsRight`.
The safety properties are not inductive as they stand. That the callback finds
no entry when it creates one, and that no handle is leaked, depends on the
callbacks that are still queued: `CallbacksAreNews` says that each connection is
announced once, only while it has no entry and, until the server is closed, only
while the library holds its handle. `ControlMatchesState` ties the position of
the main thread to the rest: the packet loop runs only with a valid poll group,
the later steps of the callback only for a registered connection, and `batch`
never exceeds the queue. The proof first says what appending to and taking from
the queue does (`PostedFacts`, `TakenFacts`), then what one call of
`closeClientConnection` or `accept` does to sockets and table (`CloseKeepsData`,
`AcceptKeepsData`) in the situation `Serving` every callback is in; the lemmas
about the actions combine these with the control part. `LossesAreReported` is a
second induction on top of it: `NoLossIsForgotten` needs only that each callback
takes at most its own report out of the queue (`LossesLeft`) and finds the handle it
closes (`TakenServing`), so a close never leaves another connection without its
report.

**The refinement of Lobby.** `ServerImplementsLobby` is the step simulation: every
step of the program is a step of the room or leaves it as it is, with an arrival at
the welcome, a departure where its callback finds the entry, and each send of a
broadcast a `Tell`. It needs, besides `IInv`, that whoever is in the table has been
greeted (`Greeted`), that the loss of a connection is reported once and only while
its entry is there (`LossesAreNews`), that the farewell is for a connection that is
lost (`FarewellIsForLost`), and `AbortOnlyForUnwelcomed`, which is proved with it:
together `RoomInv`. LobbyProofs proves the invariant of the room, `LobbyInv`, which speaks of
what each member has been told and is still owed together: the members may disagree
in the middle of a broadcast, and `RostersWillAgree` says they will not when it is
over; `RoomProofs`, an instance of that module under the
mapping, carries it back, and `StreamsAreWellFormed` and `RostersAreRight` follow
for any number of clients.

**AnyApplicationProofs.** The invariant of the library, whatever calls it:
`ClosedStaysClosed` (an entry is closed only after its handle, and a closed handle is
in no poll group) makes `PollGroupRegistered` and `ConnectedIsHeld` inductive.
`NullIsOnlyAfterPacketCallback` needs that a running server has both sockets and that the
packet loop loses its group only inside a packet callback (`GroupInv`); `DestructorClosesAll` needs
what one open leads to (`OpenedOnce`): a server that runs, one that failed to open
and tells nobody of a connection, or one that was closed and has no live connection.

**ClientConnectionProofs.** `OneOwner` and `StateIsTrue` are inductive together; the
two action properties follow from them.

**ClientProofs.** Of the example client: `AtMostOneRefused` with what the position in
`main` says of connection and messages, and that a loss is the last thing queued of
a connection that is not closed (`LossIsLast`).

Of the client library under any application, `AnyIInv`. `LossIsOfTheCurrent` is
not inductive: an application with care connects again once its connection's end
was reported, so the step needs that a reported end leaves no loss of the same
connection in the queue. `OverIsOver` says this. It in turn needs `EndsAreNews`: a
queued end is true, and no loss of the same connection comes after it. The converse,
`NoEndIsForgotten`, is not needed for it and is proved in the same induction because
it is what `EndIsReported` rests on: an end has a callback of its own whatever became
of the handle. One lemma about appending a change (`PostingKeepsEnds`) serves the four
steps that post one; `AnyDispatch` is the step that takes one.

**InputControllerProofs.** The invariant ties the mutex to the positions of the
two threads that take it and the life of the members to the owner's position;
`InputImplementsLineSource` is the step simulation.

**SessionProofs.** A session is a run of ExampleServer and one of ExampleClient
(`SessionImplementsServer`, `SessionImplementsClient`), so their invariants hold in
it. On these rests `SessionInvariance`, which relates the two ends of each
connection, for any number of messages. `WelcomedFinishes` is not
inductive: that the client has not failed must follow from what the server has.
`UpAtBothEnds` says that the server is the last to know, `WelcomedStaysUp` that who
was sent anything stays connected while it runs, `FailedIsDown` that a client that
failed had no connection left, and `NobodyBeforeOpen` that none of this is about
the time before the server opened. The proof uses each program only through what
was proved of it alone: `ServerEffect` (what a step of the server that does not
close does to one handle and its stream, from `IInv` and `RoomInv`) and
`ClientEffect` (a step of the client keeps what is up, and the client fails only
with nothing up); what is left is the link. The packets themselves need not be
followed from send to receipt.

Only model-checked: liveness (`LostPeerIsReleased`, `QuitStops`,
`PendingIsReported`, `LineIsDelivered`, `WaitingEnds`, `EndIsReported`,
`NothingStaysHalfOpen`), which with ENABLED is outside what the prover can do.
Every invariant and every action property the passing runs check is a theorem.

## 6. What is not modelled, and why

* `Packet`, aliases and message texts: a packet is a kind and the client it is
  about, and the class copies bytes once and is read afterwards.
* `NetworkingUtils`, but for the wait before the library is shut down: start, log
  and stop of the external library, with no state a program reads.
* The unreliable and the unexcepted sends of the server: same control flow, other
  arguments. AnyApplication and AnyClient leave the sends out, which change nothing
  in the library's own state, as AnyApplication does `setMaxProcessedPackets`; ExampleServer and ExampleClient have them.
* `ensureClientConnectionExists` (no caller) and `connectToServer` (no body).
* Moves of an entry out of the server's table: the application that does this is
  left to ClientConnection.
* Two servers in one process (the callback
  instance is static), running out of memory, send queues that are full, and
  handle reuse.
* The build files.

## 7. Plan

Done: SteamSockets, LineSource, Server, ExampleServer, InputController, Client and
ExampleClient; then Lobby, AnyApplication, ClientConnection, AnyClient and Session;
the proofs of all the invariants, action properties and refinements the runs check.

Next: two clients in a session, with the roster each of them has *received* instead
of what was sent to it.
