------------------------------- MODULE PlannedRun ------------------------------
(***************************************************************************)
(* A queue that is run by arun_dag, filled by hand (Ormica.task) or by     *)
(* Ormica.plan and enqueue_plan: the i-th task a plan makes is the i-th of *)
(* Slots; tasks that are no part of the plan have no dependencies.         *)
(***************************************************************************)
EXTENDS DagRunner, Planner

CONSTANT Slots   \* a sequence of tasks, in the order of their creation

ASSUME SlotsAssumption ==
  /\ Slots \in Seq(Tasks) /\ IsInjective(Slots)
  /\ MaxLeaves <= Len(Slots)

VARIABLE due     \* ghost: task -> the tasks the plan puts before it

plannedVars == <<vars, planVars, due>>

PlannedInit ==
  /\ Init /\ PlanInit
  /\ stage = "asked" => deps = [t \in Tasks |-> {}]
  /\ due = [t \in Tasks |-> {}]

\* Pairs of places in the order of creation as dependencies between the tasks
\* created there.
AmongTasks(pairs) ==
  [t \in Tasks |-> {Slots[p[2]] : p \in {p \in pairs : Slots[p[1]] = t}}]

\* enqueue_plan; the plan itself is of no use any more.
Enqueue ==
  /\ stage = "planned" /\ Sortable
  /\ LET made == Built
         places == (DOMAIN made) \X (DOMAIN made)
     IN /\ deps' = AmongTasks({p \in places : made[p[2]] \in Attach(made[p[1]])})
        /\ due' = AmongTasks({p \in places : WaitsFor(made[p[1]], made[p[2]])})
  /\ stage' = "enqueued"
  /\ up' = <<>> /\ needs' = <<>>
  /\ UNCHANGED <<todo, status, rec, phase, queue, ahead, indeg, remaining, launched, waiting,
                 round, batch, active, ended, broken, starts>>

\* PlanError: nothing is enqueued.
EnqueueRefused ==
  /\ stage = "planned" /\ ~Sortable
  /\ stage' = "refused"
  /\ UNCHANGED <<vars, up, needs, todo, due>>

Planning == Decompose \/ Expand \/ PlanFails \/ PlanDone

PlannedNext ==
  \/ Planning /\ UNCHANGED <<vars, due>>
  \/ Enqueue \/ EnqueueRefused
  \/ stage = "enqueued" /\ Next /\ UNCHANGED <<planVars, due>>

\* Coroutines go on, as in DagRunner; nobody is bound to plan, or to enqueue.
PlannedSpec ==
  /\ PlannedInit /\ [][PlannedNext]_plannedVars
  /\ WF_plannedVars(stage = "enqueued" /\ RunStep /\ UNCHANGED <<planVars, due>>)
  /\ \A t \in Tasks : WF_plannedVars(FutureStep(t) /\ UNCHANGED <<planVars, due>>)

-------------------------------------------------------------------------------
(* A task of a plan is started only when every task it is to wait for is   *)
(* done, however deep in the plan the dependency was stated; and tasks are *)
(* made in an order in which none waits for a later one, so that a plan is *)
(* never refused by the runner (Plan.to_tasks, "the sequential runner      *)
(* executes in this order").                                               *)
PlanKept ==
  /\ \A t \in Tasks : starts[t] > 0 => \A d \in due[t] \cap queue : status[d] = "done"
  /\ \A i, j \in DOMAIN Slots : Slots[j] \in due[Slots[i]] => j < i

(* A call on a queue, planned or not, ends: it returns, raises or refuses; *)
(* neither the semaphore nor a missed wake-up leaves it hanging.           *)
PlannedRunEnds == stage = "enqueued" ~> phase \in {"returned", "raised", "refused"}
================================================================================
