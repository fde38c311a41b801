--------------------------- MODULE InputController ---------------------------
(***************************************************************************)
(* Class InputController, with its owner (the server's main thread), its   *)
(* poll thread and the thread std::async reads the standard input on.      *)
(*                                                                         *)
(* The poll thread is the first member to be initialized and starts at     *)
(* once, before exit_requested, the mutex and the queue are constructed,   *)
(* and it is destroyed last, after them.  What it does to a member outside *)
(* that member's life is undefined: it may end the process ("wildAccess"), *)
(* or seem to work and leave no trace in the queue.                        *)
(***************************************************************************)
EXTENDS Naturals, Sequences

CONSTANTS
  Line,       \* what can be typed; "/quit" is the server's one command
  MaxTyped    \* bound: lines typed and not read yet

ASSUME InputAssumption == MaxTyped \in Nat \ {0}

VARIABLES
  stdin,           \* lines typed and not read yet
  reader,          \* the thread of std::async
  input_future,    \* pollInput's variable, the one declared before the loop
  input,           \* the line a reader or pollInput holds
  poll,            \* where the poll thread is
  main,            \* where the owner is
  exit_requested,  \* "raw" before its initializer runs
  mutex,           \* who holds input_queue_mutex
  input_queue,
  life,            \* of the mutex and the queue
  quit_requested,  \* the owner has read "/quit"
  outcome

asyncVars == <<reader, input_future, input>>
queueVars == <<mutex, input_queue>>
ownerVars == <<main, exit_requested, life, quit_requested>>
vars == <<stdin, asyncVars, poll, queueVars, ownerVars, outcome>>

NoLine == "no line"

TypeOK ==
  /\ stdin \in Seq(Line)
  /\ reader \in {"idle", "waitForInput"}
  /\ input_future \in {"none", "pending", "deferred", "ready", "invalid"}
  /\ input \in Line \cup {NoLine}
  /\ poll \in {"start", "while", "wait_for", "addInput", "emplace", "async", "~future", "finished"}
  /\ mutex \in {"free", "main", "poll"}
  /\ input_queue \in Seq(Line)
  /\ main \in {"exit_requested", "input_queue", "inputAvailable", "empty", "readInput", "front",
               "~InputController", "~input_queue", "~thread"}
  /\ exit_requested \in {"raw", "false", "true"}
  /\ life \in {"raw", "live", "destroyed"}
  /\ quit_requested \in BOOLEAN
  /\ outcome \in {"running", "badFuture", "wildAccess", "joinableThread"}

\* The constructor has started the poll thread and initialized nothing else.
Init ==
  /\ stdin = <<>>
  /\ reader = "idle" /\ input_future = "none" /\ input = NoLine
  /\ poll = "start"
  /\ mutex = "free" /\ input_queue = <<>>
  /\ main = "exit_requested" /\ exit_requested = "raw" /\ life = "raw"
  /\ quit_requested = FALSE
  /\ outcome = "running"

-----------------------------------------------------------------------------
(* The standard input.                                                     *)

TypeLine ==
  /\ Len(stdin) < MaxTyped
  /\ \E line \in Line : stdin' = Append(stdin, line)
  /\ UNCHANGED asyncVars

\* waitForInput returns: for the future of pollInput, or for the one in the
\* loop's block, whose value nobody takes.
waitForInput ==
  /\ reader = "waitForInput"
  /\ stdin # <<>>
  /\ stdin' = Tail(stdin)
  /\ reader' = "idle"
  /\ IF input_future = "pending"
     THEN input_future' = "ready" /\ input' = Head(stdin)
     ELSE UNCHANGED <<input_future, input>>

-----------------------------------------------------------------------------
(* The poll thread.                                                        *)

\* std::async with the default policy: a thread, or deferred until someone
\* calls get, which the loop never does without the state being ready.
StartPolling ==
  /\ poll = "start"
  /\ poll' = "while"
  /\ \/ input_future' = "pending" /\ reader' = "waitForInput"
     \/ input_future' = "deferred" /\ UNCHANGED reader
  /\ UNCHANGED <<input, queueVars, outcome>>

\* exit_requested is a plain bool: before it is initialized it reads as
\* anything, and once it is set the thread may still see the old value.
ReadExitRequested ==
  /\ poll = "while"
  /\ poll' = "wait_for" \/ (exit_requested # "false" /\ poll' = "finished")
  /\ UNCHANGED <<asyncVars, queueVars, outcome>>

\* Mutant: the future keeps its line.
stillReady == "ready"

\* get() gives the line up and leaves the future without a state.
futureAfterGet == "invalid"

WaitFor ==
  /\ poll = "wait_for"
  /\ \/ /\ input_future = "ready"
        /\ input_future' = futureAfterGet
        /\ poll' = "addInput"
        /\ UNCHANGED outcome
     \/ /\ input_future = "invalid"
        /\ outcome' = "badFuture"
        /\ UNCHANGED <<input_future, poll>>
     \/ /\ input_future \in {"pending", "deferred"}
        /\ poll' = "while"
        /\ UNCHANGED <<input_future, outcome>>
  /\ UNCHANGED <<reader, input, queueVars>>

\* Mutant: the lock is not taken.
neverWaits == TRUE

\* What the lock_guard of addInput waits for.
lockIsFree == mutex = "free"

addInput ==
  /\ poll = "addInput" /\ life = "live"
  /\ lockIsFree
  /\ mutex' = "poll"
  /\ poll' = "emplace"
  /\ UNCHANGED <<asyncVars, input_queue, outcome>>

\* Mutant: the lock is not released.
heldAfterEmplace == "poll"

\* Who holds the mutex when addInput has returned.
releasedByPoll == "free"

emplace ==
  /\ poll = "emplace" /\ life = "live"
  /\ input_queue' = Append(input_queue, input)
  /\ input' = NoLine
  /\ mutex' = releasedByPoll
  /\ poll' = "async"
  /\ UNCHANGED <<reader, input_future, outcome>>

\* The mutex and the queue are not constructed yet, or destroyed already.
addInputOutsideLife ==
  /\ poll \in {"addInput", "emplace"} /\ life # "live"
  /\ input' = NoLine
  /\ \/ outcome' = "wildAccess" /\ UNCHANGED poll
     \/ poll' = "async" /\ UNCHANGED outcome
  /\ UNCHANGED <<reader, input_future, queueVars>>

\* A second input_future, local to the block: it hides the first.
AsyncInBlock ==
  /\ poll = "async"
  /\ \/ reader' = "waitForInput" /\ poll' = "~future"
     \/ poll' = "while" /\ UNCHANGED reader
  /\ UNCHANGED <<input_future, input, queueVars, outcome>>

\* The block ends: the future's destructor waits for the reader.
LeaveBlock ==
  /\ poll = "~future"
  /\ reader = "idle"
  /\ poll' = "while"
  /\ UNCHANGED <<asyncVars, queueVars, outcome>>

pollInput ==
  \/ StartPolling \/ ReadExitRequested \/ WaitFor \/ addInput \/ emplace
  \/ addInputOutsideLife \/ AsyncInBlock \/ LeaveBlock

-----------------------------------------------------------------------------
(* The owner: Server, which asks in processUserInput and goes on until it  *)
(* has read "/quit".                                                       *)

ConstructMembers ==
  /\ \/ /\ main = "exit_requested" /\ main' = "input_queue"
        /\ exit_requested' = "false" /\ UNCHANGED life
     \/ /\ main = "input_queue" /\ main' = "inputAvailable"
        /\ life' = "live" /\ UNCHANGED exit_requested
  /\ UNCHANGED <<queueVars, quit_requested, outcome>>

\* The lock_guard of inputAvailable, or of readInput.
Lock ==
  /\ mutex = "free"
  /\ mutex' = "main"
  /\ \/ main = "inputAvailable" /\ main' = "empty"
     \/ main = "readInput" /\ main' = "front"
  /\ UNCHANGED <<input_queue, exit_requested, life, quit_requested, outcome>>

\* Mutant: an empty queue is read.
alwaysAvailable == TRUE

\* What inputAvailable returns.
available == input_queue # <<>>

inputAvailable ==
  /\ main = "empty"
  /\ mutex' = "free"
  /\ main' = IF available THEN "readInput" ELSE "inputAvailable"
  /\ UNCHANGED <<input_queue, exit_requested, life, quit_requested, outcome>>

\* front() and pop() of an empty queue are undefined: see FrontNeverEmpty.
readInput ==
  /\ main = "front"
  /\ input_queue # <<>>
  /\ input_queue' = Tail(input_queue)
  /\ mutex' = "free"
  /\ quit_requested' = (Head(input_queue) = "/quit")
  /\ main' = IF Head(input_queue) = "/quit" THEN "~InputController" ELSE "inputAvailable"
  /\ UNCHANGED <<exit_requested, life, outcome>>

\* The destructor's body, then its members in reverse; nobody joined the thread.
Destroy ==
  /\ \/ /\ main = "~InputController" /\ main' = "~input_queue"
        /\ exit_requested' = "true" /\ UNCHANGED <<life, outcome>>
     \/ /\ main = "~input_queue" /\ main' = "~thread"
        /\ life' = "destroyed" /\ UNCHANGED <<exit_requested, outcome>>
     \/ /\ main = "~thread" /\ outcome' = "joinableThread"
        /\ UNCHANGED <<main, exit_requested, life>>
  /\ UNCHANGED <<queueVars, quit_requested>>

-----------------------------------------------------------------------------
Terminal == TypeLine /\ UNCHANGED <<poll, queueVars, ownerVars, outcome>>
Reader == waitForInput /\ UNCHANGED <<poll, queueVars, ownerVars, outcome>>
PollThread == pollInput /\ UNCHANGED <<stdin, ownerVars>>
Owner ==
  /\ ConstructMembers \/ Lock \/ inputAvailable \/ readInput \/ Destroy
  /\ UNCHANGED <<stdin, asyncVars, poll>>

Next == outcome = "running" /\ (Terminal \/ Reader \/ PollThread \/ Owner)

Spec == Init /\ [][Next]_vars

\* Every thread is scheduled, and the poll thread gets the mutex some time:
\* the owner does all its network work between two turns with it.  That the owner
\* keeps asking is so of a server that runs; one that failed to open never does
\* (see QuitIsObeyed of ExampleServer).
FairSpec ==
  /\ Spec
  /\ WF_vars(outcome = "running" /\ Reader)
  /\ WF_vars(outcome = "running" /\ PollThread)
  /\ WF_vars(outcome = "running" /\ Owner)
  /\ SF_vars(outcome = "running" /\ poll = "addInput" /\ PollThread)

-----------------------------------------------------------------------------
(* Properties.                                                             *)

\* While the queue lives, the two threads are never inside it together: the
\* three lock_guards of InputController.cpp:57, 68 and 74 see to it.
QueueIsExclusive ==
  ~(life = "live" /\ poll = "emplace" /\ main \in {"empty", "front"})

\* readInput takes the front of the queue without asking again, after the lock
\* was released in between: the line inputAvailable saw is still there
\* (Server.cpp:284-286, InputController.cpp:75-76).
FrontNeverEmpty == main = "front" => input_queue # <<>>

Adding == {"addInput", "emplace"}

\* What makes these inductive: when the members live, who holds the mutex and
\* where, and that the poll thread has a line when it has taken one.
IInv ==
  /\ TypeOK
  /\ FrontNeverEmpty
  /\ main = "readInput" => input_queue # <<>>
  /\ (life = "raw") <=> (main \in {"exit_requested", "input_queue"})
  /\ (life = "destroyed") <=> (main = "~thread")
  /\ (mutex = "main") <=> (main \in {"empty", "front"})
  /\ life = "live" => ((mutex = "poll") <=> (poll = "emplace"))
  /\ life = "raw" => (mutex = "free" /\ poll # "emplace")
  /\ input_future = "ready" => input \in Line
  /\ poll \in Adding => input_future = "invalid"
  /\ (poll \in Adding /\ outcome = "running") => input \in Line
  /\ poll = "start" => input_future = "none"

\* The threads of this class give their owner at most one line, whatever is
\* typed; then the poll thread can only end the process.
OneLine == INSTANCE LineSource
  WITH spent <- input_future = "invalid" /\ poll \notin Adding
ImplementsLineSource == OneLine!LineSourceSpec

\* A line the poll thread took off its future while the queue lives reaches the
\* owner, while that asks for it and unless the process ends first.
LineIsDelivered ==
  poll = "addInput" /\ life = "live" ~> main = "front" \/ outcome # "running"

QuitTyped == \E i \in DOMAIN stdin : stdin[i] = "/quit"

\* "The server only knows one command: '/quit'" (Server.cpp:294, printed after
\* any other line): a "/quit" that is typed when a first line, another one, is
\* being served is read in its turn.
SecondQuitIsRead ==
  /\ main = "front" /\ Head(input_queue) # "/quit"
  /\ poll = "~future" /\ QuitTyped
  ~> quit_requested \/ outcome = "wildAccess"
=============================================================================
