--------------------------------- MODULE Trails --------------------------------
(***************************************************************************)
(* The Thought Trail (ormica/observe/trace.py): the TraceObserver follows  *)
(* the events of the bus, keeps one trace for each task and writes it to   *)
(* memory when the task ends; Ormica.trace_for reads them.  Tasks run at   *)
(* the same time, again when they are retried or resumed, are left without *)
(* an end by what is no Exception, or fail without having begun.           *)
(*                                                                         *)
(* A trace is [attempt, thoughts, status]; a thought is named by its       *)
(* attempt and its number.                                                 *)
(***************************************************************************)
EXTENDS Naturals, Sequences

CONSTANTS
  Jobs,          \* tasks
  MaxAttempts,   \* bound on the attempts of a task
  MaxThoughts    \* bound on the thoughts of an attempt

ASSUME TrailsAssumption == {MaxAttempts, MaxThoughts} \subseteq Nat

VARIABLES
  attempt,    \* task -> attempts begun
  inTurn,     \* tasks whose agent is at work
  opened,     \* _open: task -> trace or NoTrace
  closed,     \* _done
  kept,       \* traces/{task_id} in memory
  recorded,   \* ghost: task -> attempt -> thoughts emitted
  outcome,    \* ghost: task -> the trace status of its last end, with the attempt
  unwritten   \* ghost: <<task, attempt>> whose trace could not be written

trailVars == <<attempt, inTurn, opened, closed, kept, recorded, outcome, unwritten>>

NoTrace == [attempt |-> 0, thoughts |-> <<>>, status |-> "none"]

TrailsInit ==
  /\ attempt = [j \in Jobs |-> 0] /\ inTurn = {}
  /\ opened = [j \in Jobs |-> NoTrace]
  /\ closed = [j \in Jobs |-> NoTrace]
  /\ kept = [j \in Jobs |-> NoTrace]
  /\ recorded = [j \in Jobs |-> [a \in 1..MaxAttempts |-> 0]]
  /\ outcome = [j \in Jobs |-> <<0, "none">>]
  /\ unwritten = {}

-------------------------------------------------------------------------------
(* The observer *)

\* Mutant: a trace that is open is gone on with.
OnTaskStartedOnce(j, a) ==
  opened' = IF opened[j] # NoTrace THEN opened
            ELSE [opened EXCEPT ![j] = [attempt |-> a, thoughts |-> <<>>, status |-> "running"]]

\* A new trace takes the place of one that was left open.
OnTaskStarted(j, a) ==
  opened' = [opened EXCEPT ![j] = [attempt |-> a, thoughts |-> <<>>, status |-> "running"]]

\* A thought of a task that is not open is dropped.
OnThink(j, thought) ==
  opened' = IF opened[j] = NoTrace THEN opened
            ELSE [opened EXCEPT ![j].thoughts = Append(@, thought)]

\* A write that raises is swallowed.
Persist(j, trace) ==
  \/ kept' = [kept EXCEPT ![j] = trace] /\ UNCHANGED unwritten
  \/ unwritten' = unwritten \cup {<<j, trace.attempt>>} /\ UNCHANGED kept

\* The trace that is open, if any, is closed and written.
OnTaskFinished(j, status) ==
  IF opened[j] = NoTrace
  THEN UNCHANGED <<opened, closed, kept, outcome, unwritten>>
  ELSE LET trace == [opened[j] EXCEPT !.status = status]
       IN /\ opened' = [opened EXCEPT ![j] = NoTrace]
          /\ closed' = [closed EXCEPT ![j] = trace]
          /\ outcome' = [outcome EXCEPT ![j] = <<trace.attempt, status>>]
          /\ Persist(j, trace)

-------------------------------------------------------------------------------
(* What emits *)

\* A runner starts a task, the first time or again.
Begin(j) ==
  /\ j \notin inTurn /\ attempt[j] < MaxAttempts
  /\ attempt' = [attempt EXCEPT ![j] = @ + 1]
  /\ inTurn' = inTurn \cup {j}
  /\ OnTaskStarted(j, attempt[j] + 1)
  /\ UNCHANGED <<closed, kept, recorded, outcome, unwritten>>

\* Its agent has thought.
Recorded(j) ==
  LET a == attempt[j]
  IN /\ j \in inTurn /\ recorded[j][a] < MaxThoughts
     /\ recorded' = [recorded EXCEPT ![j][a] = @ + 1]
     /\ OnThink(j, <<a, recorded[j][a] + 1>>)
     /\ UNCHANGED <<attempt, inTurn, closed, kept, outcome, unwritten>>

\* The turn is over.
Ended(j) ==
  /\ j \in inTurn
  /\ inTurn' = inTurn \ {j}
  /\ \E status \in {"done", "failed"} : OnTaskFinished(j, status)
  /\ UNCHANGED <<attempt, recorded>>

\* A task is failed behind a prerequisite, without a turn.
FailedUnbegun(j) ==
  /\ j \notin inTurn
  /\ OnTaskFinished(j, "failed")
  /\ UNCHANGED <<attempt, inTurn, recorded>>

\* KeyboardInterrupt, a cancellation: no event tells of it.
LeftOpen(j) ==
  /\ j \in inTurn
  /\ inTurn' = inTurn \ {j}
  /\ UNCHANGED <<attempt, opened, closed, kept, recorded, outcome, unwritten>>

\* A new process has the traces in memory only.
Revived ==
  /\ inTurn' = {}
  /\ opened' = [j \in Jobs |-> NoTrace] /\ closed' = [j \in Jobs |-> NoTrace]
  /\ UNCHANGED <<attempt, kept, recorded, outcome, unwritten>>

TrailsNext ==
  \/ \E j \in Jobs : Begin(j) \/ Recorded(j) \/ Ended(j) \/ FailedUnbegun(j) \/ LeftOpen(j)
  \/ Revived

-------------------------------------------------------------------------------
(* What is read *)

ForTask(j) == IF closed[j] # NoTrace THEN closed[j] ELSE opened[j]

TraceFor(j) == IF kept[j] # NoTrace THEN kept[j] ELSE ForTask(j)

(* A trace has the thoughts of one attempt of its task, all of them and in   *)
(* their order, however tasks interleave and attempts break off; and what    *)
(* trace_for returns as ended is the attempt that ended last, with its       *)
(* outcome, unless that trace could not be written (TraceObserver.notify,    *)
(* Ormica.trace_for).                                                        *)
TrailsTell ==
  \A j \in Jobs :
    /\ \A trace \in {opened[j], closed[j], kept[j]} \ {NoTrace} :
         trace.thoughts = [n \in 1..recorded[j][trace.attempt] |-> <<trace.attempt, n>>]
    /\ j \in inTurn => opened[j].attempt = attempt[j]
    /\ TraceFor(j).status \in {"done", "failed"} =>
         \/ <<TraceFor(j).attempt, TraceFor(j).status>> = outcome[j]
         \/ <<j, outcome[j][1]>> \in unwritten
================================================================================
