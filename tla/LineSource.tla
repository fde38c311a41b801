----------------------------- MODULE LineSource -----------------------------
(***************************************************************************)
(* What the input controller gives its owner: a queue of lines that gets   *)
(* at most ONE line in its life, after which its thread can only end the   *)
(* process (it waits on a future that holds no state any more).  Module    *)
(* InputController shows that the threads of the class do just this.       *)
(***************************************************************************)
EXTENDS Sequences

CONSTANT Line    \* the lines an operator types

VARIABLES
  input_queue,
  spent,         \* the only line there will be has been handed over or lost
  outcome        \* "running", or what ended the process

lineVars == <<input_queue, spent>>

LineTypeOK ==
  /\ input_queue \in Seq(Line)
  /\ spent \in BOOLEAN

LineInit ==
  /\ input_queue = <<>>
  /\ spent \in BOOLEAN

addInput(line) ==
  /\ ~spent
  /\ spent' = TRUE
  /\ input_queue' = Append(input_queue, line)

readInput ==
  /\ input_queue # <<>>
  /\ input_queue' = Tail(input_queue)
  /\ UNCHANGED spent

\* Pushed into a queue that is not constructed yet, or is no longer.
LoseLine ==
  /\ ~spent
  /\ spent' = TRUE
  /\ UNCHANGED input_queue

FutureError ==
  /\ spent
  /\ outcome' = "badFuture"
  /\ UNCHANGED lineVars

-----------------------------------------------------------------------------
(* The promise as a specification.                                         *)

LineSourceInit == LineInit /\ outcome = "running"

LineSourceNext ==
  /\ outcome = "running"
  /\ \/ /\ (\E line \in Line : addInput(line)) \/ readInput \/ LoseLine
        /\ UNCHANGED outcome
     \/ FutureError
     \/ /\ outcome' \notin {"running", "badFuture"}
        /\ UNCHANGED lineVars

LineSourceSpec == LineSourceInit /\ [][LineSourceNext]_<<input_queue, spent, outcome>>
=============================================================================
