------------------------ MODULE InputControllerProofs ------------------------
(***************************************************************************)
(* Proofs about class InputController and its threads: the queue is never  *)
(* used by two of them, the owner always finds the line it was promised,   *)
(* and the class implements module LineSource, for every set of lines and  *)
(* any number of them typed.                                               *)
(***************************************************************************)
EXTENDS InputController, SequenceTheorems, TLAPS

THEOREM InitHolds == Init => IInv
PROOF
<1> SUFFICES ASSUME Init PROVE IInv
  OBVIOUS
<1>1. TypeOK
  BY InputAssumption, EmptySeq DEF Init, TypeOK
<1>2. QED
  BY <1>1 DEF Init, IInv, FrontNeverEmpty, Adding

\* What is common to the steps: which variables each thread leaves alone.
LEMMA TerminalKeeps ==
  ASSUME IInv, Terminal
  PROVE  IInv'
PROOF
<1>1. stdin' \in Seq(Line)
  BY DEF Terminal, TypeLine, IInv, TypeOK
<1>2. UNCHANGED <<asyncVars, poll, queueVars, ownerVars, outcome>>
  BY DEF Terminal, TypeLine
<1>3. TypeOK'
  BY <1>1, <1>2 DEF IInv, TypeOK, asyncVars, queueVars, ownerVars
<1>4. QED
  BY <1>2, <1>3 DEF IInv, FrontNeverEmpty, Adding, asyncVars, queueVars, ownerVars

LEMMA ReaderKeeps ==
  ASSUME IInv, Reader
  PROVE  IInv'
PROOF
<1>1. stdin' \in Seq(Line) /\ Head(stdin) \in Line
  BY DEF Reader, waitForInput, IInv, TypeOK
<1>2. UNCHANGED <<poll, queueVars, ownerVars, outcome>>
  BY DEF Reader
<1>3. TypeOK'
  BY <1>1, <1>2 DEF Reader, waitForInput, IInv, TypeOK, queueVars, ownerVars
<1>4. input_future = "pending" => input_future' = "ready" /\ input' \in Line
  BY <1>1 DEF Reader, waitForInput
<1>5. input_future # "pending" => UNCHANGED <<input_future, input>>
  BY DEF Reader, waitForInput
<1>6. QED
  BY <1>2, <1>3, <1>4, <1>5 DEF IInv, FrontNeverEmpty, Adding, queueVars, ownerVars

LEMMA PollThreadKeeps ==
  ASSUME IInv, outcome = "running", PollThread
  PROVE  IInv'
PROOF
<1> USE DEF asyncVars, queueVars, ownerVars, Adding
<1>1. UNCHANGED <<stdin, ownerVars>> /\ TypeOK
  BY DEF PollThread, IInv
<1>2. CASE StartPolling
  <2>1. TypeOK'
    BY <1>1, <1>2 DEF StartPolling, TypeOK
  <2>2. QED
    BY <1>1, <1>2, <2>1 DEF StartPolling, IInv, FrontNeverEmpty
<1>3. CASE ReadExitRequested
  <2>1. TypeOK'
    BY <1>1, <1>3 DEF ReadExitRequested, TypeOK
  <2>2. QED
    BY <1>1, <1>3, <2>1 DEF ReadExitRequested, IInv, FrontNeverEmpty
<1>4. CASE WaitFor
  <2>1. TypeOK'
    BY <1>1, <1>4 DEF WaitFor, futureAfterGet, TypeOK
  <2>2. QED
    BY <1>1, <1>4, <2>1 DEF WaitFor, futureAfterGet, IInv, FrontNeverEmpty
<1>5. CASE addInput
  <2>1. TypeOK'
    BY <1>1, <1>5 DEF addInput, TypeOK
  <2>2. QED
    BY <1>1, <1>5, <2>1 DEF addInput, lockIsFree, IInv, FrontNeverEmpty
<1>6. CASE emplace
  <2>1. input \in Line /\ input_queue \in Seq(Line)
    BY <1>6 DEF emplace, IInv, TypeOK
  <2>2. input_queue' \in Seq(Line) /\ input_queue' # <<>>
    BY <2>1, <1>6 DEF emplace
  <2>3. TypeOK'
    BY <1>1, <1>6, <2>2 DEF emplace, releasedByPoll, TypeOK
  <2>4. QED
    BY <1>1, <1>6, <2>2, <2>3 DEF emplace, releasedByPoll, IInv, FrontNeverEmpty
<1>7. CASE addInputOutsideLife
  <2>1. TypeOK'
    BY <1>1, <1>7 DEF addInputOutsideLife, TypeOK
  <2>2. QED
    BY <1>1, <1>7, <2>1 DEF addInputOutsideLife, IInv, FrontNeverEmpty
<1>8. CASE AsyncInBlock
  <2>1. TypeOK'
    BY <1>1, <1>8 DEF AsyncInBlock, TypeOK
  <2>2. QED
    BY <1>1, <1>8, <2>1 DEF AsyncInBlock, IInv, FrontNeverEmpty
<1>9. CASE LeaveBlock
  <2>1. TypeOK'
    BY <1>1, <1>9 DEF LeaveBlock, TypeOK
  <2>2. QED
    BY <1>1, <1>9, <2>1 DEF LeaveBlock, IInv, FrontNeverEmpty
<1>10. QED
  BY <1>2, <1>3, <1>4, <1>5, <1>6, <1>7, <1>8, <1>9 DEF PollThread, pollInput

LEMMA OwnerKeeps ==
  ASSUME IInv, Owner
  PROVE  IInv'
PROOF
<1> USE DEF asyncVars, queueVars, ownerVars, Adding
<1>1. UNCHANGED <<stdin, asyncVars, poll>> /\ TypeOK
  BY DEF Owner, IInv
<1>2. CASE ConstructMembers
  <2>1. TypeOK'
    BY <1>1, <1>2 DEF ConstructMembers, TypeOK
  <2>2. QED
    BY <1>1, <1>2, <2>1 DEF ConstructMembers, IInv, FrontNeverEmpty
<1>3. CASE Lock
  <2>1. TypeOK'
    BY <1>1, <1>3 DEF Lock, TypeOK
  <2>2. QED
    BY <1>1, <1>3, <2>1 DEF Lock, IInv, FrontNeverEmpty
<1>4. CASE inputAvailable
  <2>1. TypeOK'
    BY <1>1, <1>4 DEF inputAvailable, TypeOK
  <2>2. QED
    BY <1>1, <1>4, <2>1 DEF inputAvailable, available, IInv, FrontNeverEmpty
<1>5. CASE readInput
  <2>1. input_queue' \in Seq(Line)
    BY <1>1, <1>5 DEF readInput, TypeOK
  <2>2. TypeOK'
    BY <1>1, <1>5, <2>1 DEF readInput, TypeOK
  <2>3. QED
    BY <1>1, <1>5, <2>2 DEF readInput, IInv, FrontNeverEmpty
<1>6. CASE Destroy
  <2>1. TypeOK'
    BY <1>1, <1>6 DEF Destroy, TypeOK
  <2>2. QED
    BY <1>1, <1>6, <2>1 DEF Destroy, IInv, FrontNeverEmpty
<1>7. QED
  BY <1>2, <1>3, <1>4, <1>5, <1>6 DEF Owner

\* IInv holds always: while the members live the mutex is the poll thread's
\* just when it is inside addInput, and the owner's just when it is inside
\* inputAvailable or readInput (InputController.cpp:55-79).
THEOREM InputInvariance == Spec => []IInv
PROOF
<1>1. IInv /\ [Next]_vars => IInv'
  <2> SUFFICES ASSUME IInv, [Next]_vars PROVE IInv'
    OBVIOUS
  <2>1. CASE Next
    BY <2>1, TerminalKeeps, ReaderKeeps, PollThreadKeeps, OwnerKeeps DEF Next
  <2>2. CASE UNCHANGED vars
    BY <2>2 DEF vars, asyncVars, queueVars, ownerVars, IInv, TypeOK, FrontNeverEmpty, Adding
  <2>3. QED
    BY <2>1, <2>2
<1>2. QED
  BY InitHolds, <1>1, PTL DEF Spec

-----------------------------------------------------------------------------
(* The properties of the runs.                                             *)

\* Every variable keeps the type its declaration gives it, for any number of
\* lines: the threads move only along the code's own program points.
THEOREM InputTypeCorrect == Spec => []TypeOK
PROOF
<1>1. IInv => TypeOK
  BY DEF IInv
<1>2. QED
  BY InputInvariance, <1>1, PTL

\* The two threads are never inside the queue together while it lives: the
\* three lock_guards suffice (InputController.cpp:57, 68 and 74).
THEOREM QueueHasOneUser == Spec => []QueueIsExclusive
PROOF
<1>1. IInv => QueueIsExclusive
  BY DEF IInv, TypeOK, QueueIsExclusive
<1>2. QED
  BY InputInvariance, <1>1, PTL

\* readInput always finds the line that inputAvailable saw, although the lock
\* was released between the two (Server.cpp:284-286).
THEOREM FrontIsThere == Spec => []FrontNeverEmpty
PROOF
<1>1. IInv => FrontNeverEmpty
  BY DEF IInv
<1>2. QED
  BY InputInvariance, <1>1, PTL

-----------------------------------------------------------------------------
(* The class implements LineSource.                                        *)

\* What the owner sees of the poll thread's only line: handed over or lost.
spent == input_future = "invalid" /\ poll \notin Adding

LEMMA InitImplements == Init => OneLine!LineSourceInit
PROOF
  BY DEF Init, Adding, OneLine!LineSourceInit, OneLine!LineInit

LEMMA PollThreadImplements ==
  ASSUME IInv, outcome = "running", PollThread
  PROVE  OneLine!LineSourceNext \/ UNCHANGED <<input_queue, spent, outcome>>
PROOF
<1> USE DEF asyncVars, queueVars, ownerVars, Adding, spent
<1>1. CASE emplace
  <2>1. input \in Line /\ ~spent /\ spent' = TRUE /\ input_queue' = Append(input_queue, input)
    BY <1>1 DEF emplace, IInv
  <2>2. OneLine!addInput(input) /\ UNCHANGED outcome
    BY <1>1, <2>1 DEF emplace, OneLine!addInput
  <2>3. QED
    BY <2>1, <2>2 DEF OneLine!LineSourceNext
<1>2. CASE addInputOutsideLife
  <2>1. ~spent /\ UNCHANGED input_queue
    BY <1>2 DEF addInputOutsideLife, IInv
  <2>2. CASE poll' = "async" /\ UNCHANGED outcome
    <3>1. OneLine!LoseLine
      BY <1>2, <2>1, <2>2 DEF addInputOutsideLife, IInv, OneLine!LoseLine
    <3>2. QED
      BY <2>2, <3>1 DEF OneLine!LineSourceNext
  <2>3. CASE outcome' = "wildAccess" /\ UNCHANGED poll
    BY <1>2, <2>3 DEF addInputOutsideLife, OneLine!LineSourceNext, OneLine!lineVars
  <2>4. QED
    BY <1>2, <2>2, <2>3 DEF addInputOutsideLife
<1>3. CASE WaitFor
  <2>1. CASE input_future = "invalid"
    BY <1>3, <2>1 DEF WaitFor, OneLine!LineSourceNext, OneLine!FutureError, OneLine!lineVars
  <2>2. CASE input_future # "invalid"
    BY <1>3, <2>2 DEF WaitFor, futureAfterGet
  <2>3. QED
    BY <2>1, <2>2
<1>4. CASE StartPolling
  BY <1>4 DEF StartPolling, IInv
<1>5. CASE ReadExitRequested
  BY <1>5 DEF ReadExitRequested
<1>6. CASE addInput
  BY <1>6 DEF addInput
<1>7. CASE AsyncInBlock
  BY <1>7 DEF AsyncInBlock
<1>8. CASE LeaveBlock
  BY <1>8 DEF LeaveBlock
<1>9. QED
  BY <1>1, <1>2, <1>3, <1>4, <1>5, <1>6, <1>7, <1>8 DEF PollThread, pollInput

LEMMA OwnerImplements ==
  ASSUME outcome = "running", Owner
  PROVE  OneLine!LineSourceNext \/ UNCHANGED <<input_queue, spent, outcome>>
PROOF
<1> USE DEF asyncVars, queueVars, ownerVars, Adding, spent
<1>1. UNCHANGED spent
  BY DEF Owner
<1>2. CASE readInput
  BY <1>1, <1>2 DEF readInput, OneLine!readInput, OneLine!LineSourceNext
<1>3. CASE Destroy
  BY <1>1, <1>3 DEF Destroy, OneLine!LineSourceNext, OneLine!lineVars
<1>4. CASE ConstructMembers \/ Lock \/ inputAvailable
  BY <1>1, <1>4 DEF ConstructMembers, Lock, inputAvailable
<1>5. QED
  BY <1>2, <1>3, <1>4 DEF Owner

\* The class gives its owner at most one line, and then its thread can only
\* end the process (InputController.cpp:41-53: the future of the block hides
\* the one the loop asks).
THEOREM InputImplementsLineSource == Spec => ImplementsLineSource
PROOF
<1>1. IInv /\ [Next]_vars => [OneLine!LineSourceNext]_<<input_queue, spent, outcome>>
  <2> SUFFICES ASSUME IInv, [Next]_vars
               PROVE  OneLine!LineSourceNext \/ UNCHANGED <<input_queue, spent, outcome>>
    OBVIOUS
  <2>1. CASE outcome = "running" /\ Terminal
    BY <2>1 DEF Terminal, TypeLine, asyncVars, queueVars, spent, Adding
  <2>2. CASE outcome = "running" /\ Reader
    BY <2>2 DEF Reader, waitForInput, queueVars, spent, Adding
  <2>3. CASE outcome = "running" /\ (PollThread \/ Owner)
    BY <2>3, PollThreadImplements, OwnerImplements
  <2>4. CASE UNCHANGED vars
    BY <2>4 DEF vars, asyncVars, queueVars, spent, Adding
  <2>5. QED
    BY <2>1, <2>2, <2>3, <2>4 DEF Next
<1>2. QED
  BY InitImplements, InputInvariance, <1>1, PTL
    DEF Spec, ImplementsLineSource, OneLine!LineSourceSpec, spent
=============================================================================
