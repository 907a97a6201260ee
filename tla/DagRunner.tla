------------------------------- MODULE DagRunner -------------------------------
(***************************************************************************)
(* One call of Ormica.arun_dag: AsyncDagRunner runs a dependency graph of  *)
(* tasks in one asyncio process (ormica/runtime.py).                       *)
(*                                                                         *)
(* Code between two awaits is one step.  The processes of the model are    *)
(* the coroutine run(), asleep in asyncio.wait, and one future per         *)
(* launched task: waiting for the semaphore, active (its agent works), or  *)
(* ended (returned, run() has not been woken yet).  Several futures may    *)
(* end before run() looks, and it sees them in no particular order.        *)
(*                                                                         *)
(* Records are written one at a time: the checkpoint of the queue and the  *)
(* skip of everything behind a failure are loops with a write in each      *)
(* round, which may raise or be cut off between two of them.               *)
(*                                                                         *)
(* A record write or a callback may raise outside _process's try: the      *)
(* future ends broken, and run() raises when it meets it, leaving the      *)
(* other futures to themselves.                                            *)
(***************************************************************************)
EXTENDS Naturals, FiniteSets

CONSTANTS
  Tasks,        \* the tasks of the process (org._tasks)
  Graphs,       \* the dependency graphs considered: task -> set of tasks
  Priority,     \* task -> _PRIORITY_RANK
  Created,      \* task -> created_at
  MaxTasks,     \* max_tasks
  Concurrency   \* concurrency

ASSUME TasksAssumption == IsFiniteSet(Tasks)
ASSUME GraphsAssumption == Graphs \subseteq [Tasks -> SUBSET Tasks]
ASSUME OrderAssumption ==
  /\ Priority \in [Tasks -> Nat] /\ Created \in [Tasks -> Nat]
  /\ \A s, t \in Tasks : Created[s] = Created[t] => s = t
ASSUME LimitsAssumption == MaxTasks \in Nat \ {0} /\ Concurrency \in Nat \ {0}

VARIABLES
  deps,         \* depends_on of every task; never changes
  status,       \* task.status in memory
  rec,          \* status in the record tasks/{id}, "absent" if there is none
  phase,        \* where run() is: one of Phases
  queue,        \* the tasks of this call
  ahead,        \* tasks _checkpoint_queue has still to record, or the stack of
                \* _block_downstream
  indeg,        \* task -> prerequisites run() still waits for
  remaining,    \* tasks run() has not seen end
  launched,     \* tasks with a future, and tasks that were blocked
  waiting,      \* futures queued on the semaphore
  round,        \* number of _schedule_ready calls
  batch,        \* task -> the _schedule_ready call that launched it
  active,       \* futures inside _process
  ended,        \* futures that ended and run() has not looked at
  broken,       \* tasks at whose record, or right after it, something raised
  starts        \* history: task -> number of times its agent was started

graph == <<deps, queue>>
vars == <<deps, status, rec, phase, queue, ahead, indeg, remaining, launched, waiting, round,
          batch, active, ended, broken, starts>>

Terminal == {"done", "failed"}
Statuses == {"pending", "running"} \cup Terminal
Phases == {"idle", "checkpoint", "running", "settling", "returned", "refused", "raised"}

\* (priority, created_at)
Before(s, t) ==
  \/ Priority[s] < Priority[t]
  \/ Priority[s] = Priority[t] /\ Created[s] < Created[t]

\* Only prerequisites inside this call's queue are honoured.
Needs(t) == deps[t] \cap queue

Init ==
  /\ deps \in Graphs
  /\ status = [t \in Tasks |-> "pending"]
  /\ rec = [t \in Tasks |-> "absent"]
  /\ phase = "idle"
  /\ queue = {} /\ ahead = {} /\ remaining = {} /\ launched = {}
  /\ indeg = [t \in Tasks |-> 0]
  /\ waiting = {} /\ active = {} /\ ended = {} /\ broken = {}
  /\ round = 0
  /\ batch = [t \in Tasks |-> 0]
  /\ starts = [t \in Tasks |-> 0]

-------------------------------------------------------------------------------
(* run() up to its first await *)

\* _sorted_queue: the first max_tasks of the tasks, in order.
FirstOf(S) == {t \in S : Cardinality({s \in S : Before(s, t)}) < MaxTasks}

\* _detect_cycle: Kahn's algorithm takes tasks away while one has no
\* prerequisite left; stuck is the largest set in which every task has one.
Stuck(q) ==
  {t \in q : \E S \in SUBSET q : t \in S /\ \A s \in S : deps[s] \cap S # {}}

\* Mutant: prerequisites outside the queue are counted too.
DegreesOfAll(q) == [t \in Tasks |-> IF t \in q THEN Cardinality(deps[t]) ELSE 0]

Degrees(q) == [t \in Tasks |-> IF t \in q THEN Cardinality(deps[t] \cap q) ELSE 0]

\* Mutant: one prerequisite may still be missing.
ScheduleEarly(left, degree, taken) ==
  LET ready == {t \in left \ taken : degree[t] <= 1}
  IN /\ launched' = taken \cup ready
     /\ waiting' = waiting \cup ready
     /\ round' = round + 1
     /\ batch' = [t \in Tasks |-> IF t \in ready THEN round' ELSE batch[t]]
     /\ phase' = IF waiting \cup ready \cup active = {} THEN "returned" ELSE "running"

\* Launch every task nothing blocks any more; a call without futures returns.
Schedule(left, degree, taken) ==
  LET ready == {t \in left \ taken : degree[t] = 0}
  IN /\ launched' = taken \cup ready
     /\ waiting' = waiting \cup ready
     /\ round' = round + 1
     /\ batch' = [t \in Tasks |-> IF t \in ready THEN round' ELSE batch[t]]
     /\ phase' = IF waiting \cup ready \cup active = {} THEN "returned" ELSE "running"

\* The queue is chosen; nothing of it is recorded yet.
Begin ==
  /\ phase = "idle"
  /\ phase' = "checkpoint"
  /\ queue' = FirstOf({t \in Tasks : status[t] = "pending"})
  /\ ahead' = queue'
  /\ UNCHANGED <<deps, status, rec, indeg, remaining, launched, waiting, round, batch, active,
                 ended, broken, starts>>

\* The queue is recorded in its order.
FirstAhead(t) == t \in ahead /\ \A s \in ahead \ {t} : Before(t, s)

Checkpoint(t) ==
  /\ phase = "checkpoint" /\ FirstAhead(t)
  /\ rec' = [rec EXCEPT ![t] = status[t]]
  /\ ahead' = ahead \ {t}
  /\ UNCHANGED <<graph, status, phase, indeg, remaining, launched, waiting, round, batch,
                 active, ended, broken, starts>>

\* A write raises, the record being there or not; those behind it are not written.
CheckpointBreaks(t) ==
  /\ phase = "checkpoint" /\ FirstAhead(t)
  /\ rec' \in {rec, [rec EXCEPT ![t] = status[t]]}
  /\ broken' = broken \cup {t}
  /\ ahead' = ahead \ {t}
  /\ phase' = "raised"
  /\ UNCHANGED <<graph, status, indeg, remaining, launched, waiting, round, batch, active,
                 ended, starts>>

\* With the whole queue recorded: refuse cycles, launch what is ready.
Launch ==
  /\ phase = "checkpoint" /\ ahead = {}
  /\ IF Stuck(queue) = {}
     THEN /\ remaining' = queue
          /\ indeg' = Degrees(queue)
          /\ Schedule(queue, Degrees(queue), {})
     ELSE /\ phase' = "refused"
          /\ UNCHANGED <<remaining, indeg, launched, waiting, round, batch>>
  /\ UNCHANGED <<graph, status, rec, ahead, active, ended, broken, starts>>

-------------------------------------------------------------------------------
(* The futures: _bounded and _process *)

\* The semaphore serves its queue first come, first served.
First(t) ==
  /\ t \in waiting
  /\ \A s \in waiting \ {t} :
       batch[t] < batch[s] \/ (batch[t] = batch[s] /\ Before(t, s))

FreeSlot == Cardinality(active) < Concurrency

\* The durable "running" checkpoint, then the agent is called.
Start(t) ==
  /\ First(t) /\ FreeSlot
  /\ waiting' = waiting \ {t}
  /\ active' = active \cup {t}
  /\ status' = [status EXCEPT ![t] = "running"]
  /\ rec' = [rec EXCEPT ![t] = "running"]
  /\ starts' = [starts EXCEPT ![t] = @ + 1]
  /\ UNCHANGED <<graph, phase, ahead, indeg, remaining, launched, round, batch, ended, broken>>

\* That checkpoint or on_task_start raises: the agent is never called.
BreakStart(t) ==
  /\ First(t) /\ FreeSlot
  /\ waiting' = waiting \ {t}
  /\ ended' = ended \cup {t}
  /\ broken' = broken \cup {t}
  /\ status' = [status EXCEPT ![t] = "running"]
  /\ rec' \in {rec, [rec EXCEPT ![t] = "running"]}
  /\ UNCHANGED <<graph, phase, ahead, indeg, remaining, launched, round, batch, active, starts>>

Leave(t, outcome) ==
  /\ t \in active
  /\ active' = active \ {t}
  /\ ended' = ended \cup {t}
  /\ status' = [status EXCEPT ![t] = outcome]
  /\ UNCHANGED <<graph, phase, ahead, indeg, remaining, launched, waiting, round, batch, starts>>

\* Mutant: the final record is not written.
EndUnrecorded(t, outcome) ==
  /\ Leave(t, outcome)
  /\ UNCHANGED <<rec, broken>>

\* The agent answers or raises; the finally block writes the record.
End(t, outcome) ==
  /\ Leave(t, outcome)
  /\ rec' = [rec EXCEPT ![t] = outcome]
  /\ UNCHANGED broken

\* The finally block raises: at the record write, or after it in on_task_done.
BreakEnd(t, outcome) ==
  /\ Leave(t, outcome)
  /\ rec' \in {rec, [rec EXCEPT ![t] = outcome]}
  /\ broken' = broken \cup {t}

\* run() has raised and the event loop closes: a future is cancelled.  The
\* finally block records the status the task has, which changes nothing.
Cancel(t) ==
  /\ phase = "raised"
  /\ t \in waiting \cup active
  /\ waiting' = waiting \ {t}
  /\ active' = active \ {t}
  /\ UNCHANGED <<graph, status, rec, phase, ahead, indeg, remaining, launched, round, batch,
                 ended, broken, starts>>

-------------------------------------------------------------------------------
(* run() woken by asyncio.wait: the for loop over the futures that ended *)

\* Mutant: a failure skips whatever is left.
AllBlocked(f) == remaining \ launched

\* What a task that failed puts on the stack of _block_downstream, without
\* what the loop would only pop: tasks that are launched or gone.
Blocked(f) == {t \in remaining \ launched : f \in deps[t]}

\* One of the futures seen to have ended, when the last is dealt with.
Looks(f) == phase \in {"running", "settling"} /\ ahead = {} /\ f \in ended

Settle(f) ==
  /\ Looks(f) /\ f \notin broken
  /\ phase' = "settling"
  /\ ended' = ended \ {f}
  /\ remaining' = remaining \ {f}
  /\ \/ /\ status[f] = "done"
        /\ indeg' = [t \in Tasks |-> IF t \in queue /\ f \in deps[t] THEN indeg[t] - 1
                                    ELSE indeg[t]]
        /\ UNCHANGED ahead
     \/ /\ status[f] # "done"
        /\ ahead' = Blocked(f)
        /\ UNCHANGED indeg
  /\ UNCHANGED <<graph, status, rec, launched, waiting, round, batch, active, broken, starts>>

\* fut.result() raises; the futures not looked at are left to themselves.
Raise(f) ==
  /\ Looks(f) /\ f \in broken
  /\ phase' = "raised"
  /\ ended' = {}
  /\ UNCHANGED <<graph, status, rec, ahead, indeg, remaining, launched, waiting, round, batch,
                 active, broken, starts>>

\* Mutant: a skipped task is not recorded.
SkipUnrecorded(t) ==
  /\ phase = "settling" /\ t \in ahead
  /\ status' = [status EXCEPT ![t] = "failed"]
  /\ remaining' = remaining \ {t}
  /\ launched' = launched \cup {t}
  /\ ahead' = (ahead \cup Blocked(t)) \ {t}
  /\ UNCHANGED <<graph, rec, phase, indeg, waiting, round, batch, active, ended, broken, starts>>

\* Mutant: only the direct dependents of a failure are skipped.
SkipShallow(t) ==
  /\ phase = "settling" /\ t \in ahead
  /\ status' = [status EXCEPT ![t] = "failed"]
  /\ rec' = [rec EXCEPT ![t] = "failed"]
  /\ remaining' = remaining \ {t}
  /\ launched' = launched \cup {t}
  /\ ahead' = ahead \ {t}
  /\ UNCHANGED <<graph, phase, indeg, waiting, round, batch, active, ended, broken, starts>>

\* A round of _block_downstream: a task is skipped, what depends on it is next.
Skip(t) ==
  /\ phase = "settling" /\ t \in ahead
  /\ status' = [status EXCEPT ![t] = "failed"]
  /\ rec' = [rec EXCEPT ![t] = "failed"]
  /\ remaining' = remaining \ {t}
  /\ launched' = launched \cup {t}
  /\ ahead' = (ahead \cup Blocked(t)) \ {t}
  /\ UNCHANGED <<graph, phase, indeg, waiting, round, batch, active, ended, broken, starts>>

\* Its write or event raises out of run(): failed in memory, recorded or not.
SkipBreaks(t) ==
  /\ phase = "settling" /\ t \in ahead
  /\ status' = [status EXCEPT ![t] = "failed"]
  /\ rec' \in {rec, [rec EXCEPT ![t] = "failed"]}
  /\ broken' = broken \cup {t}
  /\ phase' = "raised"
  /\ ahead' = {} /\ ended' = {}
  /\ UNCHANGED <<graph, indeg, remaining, launched, waiting, round, batch, active, starts>>

\* Mutant: nothing is launched when futures ended.
WaitOnly ==
  /\ phase = "settling" /\ ended \cup ahead = {}
  /\ phase' = "running"
  /\ UNCHANGED <<graph, status, rec, ahead, indeg, remaining, launched, waiting, round, batch,
                 active, ended, broken, starts>>

\* All are dealt with: what became ready is launched.
Relaunch ==
  /\ phase = "settling" /\ ended \cup ahead = {}
  /\ Schedule(remaining, indeg, launched)
  /\ UNCHANGED <<graph, status, rec, ahead, indeg, remaining, active, ended, broken, starts>>

RunStep ==
  \/ Begin \/ Launch \/ Relaunch
  \/ \E t \in Tasks : \/ Checkpoint(t) \/ CheckpointBreaks(t)
                      \/ Settle(t) \/ Raise(t) \/ Skip(t) \/ SkipBreaks(t)

\* Nobody else moves while run() is between two awaits.
FutureStep(t) ==
  /\ phase # "settling"
  /\ \/ Start(t) \/ BreakStart(t)
     \/ \E outcome \in Terminal : End(t, outcome) \/ BreakEnd(t, outcome)

Next == RunStep \/ \E t \in Tasks : FutureStep(t) \/ Cancel(t)

Spec == Init /\ [][Next]_vars

-------------------------------------------------------------------------------
(* Properties *)

TypeOK ==
  /\ deps \in [Tasks -> SUBSET Tasks]
  /\ status \in [Tasks -> Statuses]
  /\ rec \in [Tasks -> Statuses \cup {"absent"}]
  /\ phase \in Phases
  /\ queue \subseteq Tasks /\ remaining \subseteq queue /\ launched \subseteq queue
  /\ ahead \subseteq queue
  /\ indeg \in [Tasks -> Nat]
  /\ waiting \subseteq launched /\ active \subseteq launched
  /\ ended \subseteq launched /\ broken \subseteq queue
  /\ round \in Nat /\ batch \in [Tasks -> Nat]
  /\ starts \in [Tasks -> Nat]

(* The strengthening that makes the safety properties inductive.           *)

\* Before the first future nothing has happened.
IdleEmpty ==
  /\ phase = "idle" => queue = {}
  /\ phase \in {"idle", "checkpoint"} =>
       /\ remaining = {} /\ launched = {} /\ broken = {}
       /\ \A t \in Tasks : status[t] = "pending"

\* A loop over ahead is at work in two phases only; what is to be skipped has
\* no future, and a prerequisite that failed.
AheadKnown ==
  /\ ahead # {} => phase \in {"checkpoint", "settling", "raised"}
  /\ phase = "settling" =>
       /\ ahead \subseteq remaining \ launched
       /\ \A t \in ahead : \E d \in Needs(t) : status[d] = "failed"

\* A task has one future at most, and is in one place.
OnePlace ==
  /\ waiting \cap active = {} /\ waiting \cap ended = {} /\ active \cap ended = {}
  /\ phase \in {"running", "settling", "returned"} =>
       launched \cap remaining = waiting \cup active \cup ended
  /\ phase \in {"returned", "refused"} => waiting \cup active \cup ended = {}

StatusKnown ==
  /\ \A t \in waiting : status[t] = "pending"
  /\ \A t \in active : status[t] = "running"
  /\ \A t \in ended \ broken : status[t] \in Terminal
  /\ phase # "raised" => \A t \in queue \ launched : status[t] = "pending"
  /\ phase \in {"running", "settling", "returned"} =>
       \A t \in queue \ remaining : status[t] \in Terminal
  /\ \A t \in Tasks : status[t] = "pending" => starts[t] = 0

\* The counter of run() is the number of prerequisites not seen done yet.
SeenDone(t) == {d \in Needs(t) : d \notin remaining /\ status[d] = "done"}

DegreesExact ==
  phase \in {"running", "settling"} =>
    \A t \in queue : indeg[t] = Cardinality(Needs(t) \ SeenDone(t))

\* What has a future has all its prerequisites done; what waits for one has
\* none that failed unless it is to be skipped, and is launched as soon as
\* nothing is missing.
LaunchedReady ==
  /\ \A t \in waiting \cup active \cup ended : \A d \in Needs(t) : status[d] = "done"
  /\ phase \in {"running", "returned"} =>
       \A t \in remaining \ launched : \E d \in Needs(t) : d \in remaining
  /\ phase \in {"running", "settling"} =>
       \A t \in remaining \ launched :
         t \in ahead \/ \A d \in Needs(t) \ remaining : status[d] = "done"

DagInv ==
  TypeOK /\ IdleEmpty /\ AheadKnown /\ OnePlace /\ StatusKnown /\ DegreesExact /\ LaunchedReady

(* A task is started at most once, and only when every prerequisite in the *)
(* queue is done, whatever order run() sees the futures end in             *)
(* ("a task runs only once every task it depends on has reached done").    *)
NeverEarly ==
  \A t \in Tasks : /\ starts[t] <= 1
                   /\ starts[t] > 0 => \A d \in Needs(t) : status[d] = "done"

(* A task that failed without being started is behind a failed one; no     *)
(* independent branch is skipped.                                          *)
SkippedForCause ==
  \A t \in Tasks :
    status[t] = "failed" /\ starts[t] = 0 => \E d \in Needs(t) : status[d] = "failed"

(* When run() returns nobody was forgotten: every task of the call is done *)
(* or failed, and its record says the same.                                *)
ReturnsFinished ==
  phase = "returned" =>
    \A t \in queue : status[t] \in Terminal /\ rec[t] = status[t]

(* What is on disk is what is in memory, between any two writes of the    *)
(* checkpoint or of a chain of skips too, except for a task whose own      *)
(* write raised and for those the checkpoint has not come to: a crash or a *)
(* raise anywhere loses no outcome of any other task.                      *)
RecordsFollow ==
  \A t \in queue :
    \/ rec[t] = status[t] \/ t \in broken
    \/ phase \in {"checkpoint", "raised"} /\ t \in ahead
===============================================================================
