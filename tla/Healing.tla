-------------------------------- MODULE Healing -------------------------------
(***************************************************************************)
(* Ormica.run and arun with heal=HealingPolicy(...): retries with backoff, *)
(* circuit breakers per target, rerouting, respawning and the dead letter  *)
(* (ormica/runtime.py, ormica/healing.py).                                 *)
(*                                                                         *)
(* The two runners make the same judgements of an attempt.  The sequential *)
(* one takes one task off its queue at a time; the concurrent one runs the *)
(* whole queue as one pass, and judges the pass in queue order when its    *)
(* last task has ended.  A pass of the model is either.                    *)
(*                                                                         *)
(* Time is what is left of each wait: of the cooldown of a circuit, of the *)
(* sleep of the runner.  The shared memory is writable throughout (what a  *)
(* failing write does to a run is in DagRunner and DurableRun).            *)
(***************************************************************************)
EXTENDS Arbor, Sequences, FiniteSets

CONSTANTS
  Tasks,        \* the tasks of the run
  Queue,        \* the tasks in the order of _sorted_queue
  Slots,        \* concurrency
  MaxRetries,   \* max_retries
  Threshold,    \* circuit_threshold
  Cooldown,     \* circuit_cooldown, in ticks
  BackoffBase,  \* backoff_base, in ticks
  BackoffMax,   \* backoff_max, in ticks
  Setups        \* the runners and policies considered, see setup

ASSUME QueueAssumption ==
  /\ Queue \in Seq(Tasks)
  /\ \A t \in Tasks : \E i \in 1..Len(Queue) : Queue[i] = t
  /\ \A i, j \in 1..Len(Queue) : Queue[i] = Queue[j] => i = j
ASSUME PolicyAssumption ==
  /\ Slots \in Nat \ {0} /\ MaxRetries \in Nat /\ Threshold \in Nat \ {0}
  /\ Cooldown \in Nat /\ BackoffBase \in Nat /\ BackoffMax \in Nat
  /\ Setups \subseteq [concurrent : BOOLEAN, reroute : BOOLEAN, respawn : BOOLEAN]

VARIABLES
  setup,       \* arun or run, reroute, respawn; never changes
  phase,       \* running or returned
  queue,       \* pending
  pass,        \* the tasks of this pass that are not judged yet
  status,      \* task.status
  record,      \* the status in the record of the task
  target,      \* task.target
  attempts,    \* attempts: failures of the task
  fails,       \* fails: failures of the target in a row
  open,        \* ticks until the circuit of the target closes
  dead,        \* org._dead_letter
  sleep,       \* ticks the runner still sleeps
  begun,       \* history: how often the task was started
  streak,      \* history: attempts at the target that failed since one succeeded
  waited       \* history: ticks since the task failed, up to BackoffMax

tasks == <<status, record, target>>
breaker == <<fails, open>>
history == <<begun, streak, waited>>
vars == <<tree, setup, phase, queue, pass, tasks, attempts, breaker, dead, sleep,
          history>>

Concurrent == setup.concurrent
Reroute == setup.reroute
Respawn == setup.respawn

Targets == Names \cup {Root}
Ended == {"done", "failed"}
Least(a, b) == IF a < b THEN a ELSE b

\* HealingPolicy.backoff
Backoff(k) == Least(BackoffMax, BackoffBase * 2 ^ (k - 1))

Init ==
  /\ ArborInit
  /\ setup \in Setups
  /\ phase = "running"
  /\ queue = Queue /\ pass = <<>>
  /\ status = [t \in Tasks |-> "pending"]
  /\ record = [t \in Tasks |-> "pending"]
  /\ target \in [Tasks -> Targets]
  /\ attempts = [t \in Tasks |-> 0]
  /\ fails = [n \in Targets |-> 0]
  /\ open = [n \in Targets |-> 0]
  /\ dead = <<>>
  /\ sleep = 0
  /\ begun = [t \in Tasks |-> 0]
  /\ streak = [n \in Targets |-> 0]
  /\ waited = [t \in Tasks |-> 0]

-------------------------------------------------------------------------------
(* A pass *)

Members(s) == {s[i] : i \in 1..Len(s)}

\* Mutant: only the first task of the pass is looked at.
RerouteFirst(s) ==
  [t \in Tasks |-> IF Reroute /\ t = s[1] /\ open[target[t]] > 0 THEN Root ELSE target[t]]

\* Off open circuits, for good: the task keeps the root as its target.
Rerouted(s) ==
  [t \in Tasks |->
     IF Reroute /\ t \in Members(s) /\ open[target[t]] > 0 THEN Root ELSE target[t]]

\* Begin the next pass when the runner has slept.
NextPass ==
  /\ phase = "running" /\ pass = <<>> /\ queue # <<>> /\ sleep = 0
  /\ pass' = IF Concurrent THEN queue ELSE <<Head(queue)>>
  /\ queue' = IF Concurrent THEN <<>> ELSE Tail(queue)
  /\ target' = Rerouted(pass')
  /\ UNCHANGED <<tree, setup, phase, status, record, attempts, breaker, dead, sleep,
                 history>>

\* The semaphore is first come, first served.
IsNext(t) ==
  \E i \in 1..Len(pass) :
    /\ pass[i] = t /\ status[t] = "pending"
    /\ \A j \in 1..(i - 1) : status[pass[j]] # "pending"

Start(t) ==
  /\ IsNext(t)
  /\ Cardinality({u \in Tasks : status[u] = "running"}) < Slots
  /\ status' = [status EXCEPT ![t] = "running"]
  /\ record' = [record EXCEPT ![t] = "running"]
  /\ begun' = [begun EXCEPT ![t] = @ + 1]
  /\ UNCHANGED <<tree, setup, phase, queue, pass, target, attempts, breaker, dead,
                 sleep, streak, waited>>

Found(n) == n = Root \/ n \in Live

\* The agent answers; only a target that is in the tree has one.
Succeed(t) ==
  /\ status[t] = "running" /\ Found(target[t])
  /\ status' = [status EXCEPT ![t] = "done"]
  /\ record' = [record EXCEPT ![t] = "done"]
  /\ streak' = [streak EXCEPT ![target[t]] = 0]
  /\ UNCHANGED <<tree, setup, phase, queue, pass, target, attempts, breaker, dead,
                 sleep, begun, waited>>

\* The agent raises, the answer is not of the declared type, or there is no such node.
Failing(t) ==
  /\ status[t] = "running"
  /\ status' = [status EXCEPT ![t] = "failed"]
  /\ record' = [record EXCEPT ![t] = "failed"]
  /\ streak' = [streak EXCEPT ![target[t]] = @ + 1]
  /\ waited' = [waited EXCEPT ![t] = 0]
  /\ UNCHANGED <<tree, setup, phase, queue, pass, target, attempts, breaker, dead,
                 sleep, begun>>

-------------------------------------------------------------------------------
(* Judging the head of the pass, once every task of it has ended *)

AllEnded == pass # <<>> /\ \A i \in 1..Len(pass) : status[pass[i]] \in Ended

\* Mutant: a success leaves the count of failures standing.
CountStands(n) == UNCHANGED breaker

ResetCount(n) ==
  /\ fails' = [fails EXCEPT ![n] = 0]
  /\ UNCHANGED open

\* What the runner sleeps after a judgement: the sequential one after every
\* retry, the concurrent one when the pass leaves something to retry.
Pause(retried, t) ==
  sleep' = IF Concurrent
           THEN IF queue' = <<>> THEN 0 ELSE Backoff(1)
           ELSE IF retried THEN Backoff(attempts'[t]) ELSE 0

JudgeDone ==
  LET t == Head(pass)
  IN /\ AllEnded
     /\ status[t] = "done"
     /\ ResetCount(target[t])
     /\ pass' = Tail(pass)
     /\ UNCHANGED <<tree, setup, phase, queue, tasks, attempts, dead, history>>
     /\ Pause(FALSE, t)

\* One more failure breaks the circuit of n.
Trips(n) == n # Root /\ fails[n] + 1 >= Threshold /\ open[n] = 0

\* _respawn: a node that cannot be found stays missing.
RespawnNode(n) == IF Respawn /\ n \in Live THEN Regrow(n) ELSE UNCHANGED tree

Break(n) ==
  IF Trips(n)
  THEN /\ open' = [open EXCEPT ![n] = Cooldown]
       /\ RespawnNode(n)
  ELSE UNCHANGED <<open, tree>>

\* Mutant: one retry more than max_retries.
RetriesMore(t) == attempts[t] <= MaxRetries

RetriesLeft(t) == attempts[t] + 1 <= MaxRetries

\* Back to the end of the queue; the record keeps saying failed.
Retry(t) ==
  /\ status' = [status EXCEPT ![t] = "pending"]
  /\ queue' = Append(queue, t)
  /\ UNCHANGED <<record, dead>>

Bury(t) ==
  /\ status' = [status EXCEPT ![t] = "dead"]
  /\ dead' = Append(dead, t)
  /\ record' = [record EXCEPT ![t] = "dead"]
  /\ UNCHANGED queue

JudgeFailed ==
  LET t == Head(pass)
      n == target[t]
  IN /\ AllEnded
     /\ status[t] = "failed"
     /\ attempts' = [attempts EXCEPT ![t] = @ + 1]
     /\ fails' = [fails EXCEPT ![n] = @ + 1]
     /\ Break(n)
     /\ IF RetriesLeft(t) THEN Retry(t) ELSE Bury(t)
     /\ pass' = Tail(pass)
     /\ Pause(RetriesLeft(t), t)
     /\ UNCHANGED <<setup, phase, target, history>>

\* Mutant: the runner returns when a pass is over.
ReturnEarly ==
  /\ phase = "running" /\ pass = <<>>
  /\ phase' = "returned"
  /\ UNCHANGED <<tree, setup, queue, pass, tasks, attempts, breaker, dead, sleep,
                 history>>

\* Mutant: the runner goes on until everything is done.
ReturnWhenDone ==
  /\ phase = "running" /\ pass = <<>> /\ \A t \in Tasks : status[t] = "done"
  /\ phase' = "returned"
  /\ UNCHANGED <<tree, setup, queue, pass, tasks, attempts, breaker, dead, sleep, history>>

Return ==
  /\ phase = "running" /\ pass = <<>> /\ queue = <<>>
  /\ phase' = "returned"
  /\ UNCHANGED <<tree, setup, queue, pass, tasks, attempts, breaker, dead, sleep,
                 history>>

-------------------------------------------------------------------------------

Less(k) == IF k = 0 THEN 0 ELSE k - 1

\* A tick passes while something waits for the time.
Tick ==
  /\ phase = "running"
  /\ sleep > 0 \/ \E n \in Targets : open[n] > 0
  /\ sleep' = Less(sleep)
  /\ open' = [n \in Targets |-> Less(open[n])]
  /\ waited' = [t \in Tasks |-> Least(waited[t] + 1, BackoffMax)]
  /\ UNCHANGED <<tree, setup, phase, queue, pass, tasks, attempts, fails, dead, begun,
                 streak>>

Attempt(t) == Start(t) \/ Succeed(t) \/ Failing(t)
Judge == JudgeDone \/ JudgeFailed
Next == NextPass \/ (\E t \in Tasks : Attempt(t)) \/ Judge \/ Return \/ Tick
Spec == Init /\ [][Next]_vars

\* The runner runs, agents answer or fail, and time passes.
FairSpec ==
  /\ Spec
  /\ WF_vars(NextPass \/ Judge \/ Return) /\ WF_vars(Tick)
  /\ \A t \in Tasks : WF_vars(Attempt(t))

-------------------------------------------------------------------------------
(* Properties *)

Distinct(s) == \A i, j \in 1..Len(s) : s[i] = s[j] => i = j

\* No task is lost, doubled or left behind by a retry: it waits in the queue,
\* has its turn in the pass or is in the dead letter, in one place once, unless
\* it is done, and its status says which; when the run returns, every task is
\* done or in the dead letter (_run_healing, _run_healing_async).
NoTaskLost ==
  /\ Distinct(queue) /\ Distinct(pass) /\ Distinct(dead)
  /\ Members(queue) \cap Members(pass) = {}
  /\ \A t \in Members(queue) : status[t] = "pending"
  /\ \A t \in Tasks : status[t] = "dead" <=> t \in Members(dead)
  /\ \A t \in Tasks : t \notin Members(queue) \cup Members(pass) => status[t] \in {"done", "dead"}
  /\ phase = "returned" => \A t \in Tasks : status[t] \in {"done", "dead"}

\* A task is given up when, and only when, it was started max_retries + 1 times
\* and never succeeded; until then no start is wasted (healing.py, max_retries).
DeadForCause ==
  \A t \in Tasks :
    /\ begun[t] <= MaxRetries + 1
    /\ status[t] = "dead" => begun[t] = MaxRetries + 1
    /\ status[t] = "pending" => begun[t] = attempts[t]

\* With reroute, no attempt is made at a target while its circuit is open, from
\* the moment it opens until the cooldown is over, whichever tasks are queued
\* (healing.py, "taken out of rotation for a cooldown").
OpenIsRested ==
  [][Reroute => \A t \in Tasks :
       status[t] = "pending" /\ status'[t] = "running" => open[target[t]] = 0]_vars

\* The sequential runner breaks the circuit of a target only after as many
\* failures in a row there, counted where the work was done (circuit_threshold).
\* Of the concurrent one this is not so: it counts a pass in the order of the
\* queue, where failures can be in a row that were not so in time.
BrokenForCause ==
  [][\A n \in Targets : open[n] = 0 /\ open'[n] > 0 /\ ~Concurrent => streak[n] >= Threshold]_vars

\* Healing takes nodes from the tree only in the branch of a target whose
\* circuit breaks in that very step, and that node has its place back unless
\* the governor refused the spawn (_respawn).
CutForCause ==
  [][parent' # parent =>
       \E n \in Live :
         /\ open[n] = 0 /\ open'[n] = Cooldown
         /\ Live \ DOMAIN parent' \subseteq Branch(n)
         /\ approved' > approved => n \in DOMAIN parent' /\ parent'[n] = parent[n]]_vars

\* Outside of an attempt, the record of a task says what became of it: a task
\* that waits for its retry is recorded as failed, and a dead one as dead.
RecordsTell ==
  \A t \in Tasks :
    record[t] = IF status[t] = "pending" /\ begun[t] > 0 THEN "failed" ELSE status[t]

\* A retry is not started before the backoff of the runner that makes it.
RetriesRest ==
  [][\A t \in Tasks : status[t] = "pending" /\ status'[t] = "running" /\ attempts[t] > 0
       => waited[t] >= IF Concurrent THEN Backoff(1) ELSE Backoff(attempts[t])]_vars

\* What healing does has its cause, but for the circuits of the concurrent
\* runner, and its records say what it did.
HealsForCause == BrokenForCause /\ CutForCause /\ RetriesRest /\ []RecordsTell

\* However the attempts end, the run returns: retries run out.
RunReturns == <>(phase = "returned")
===============================================================================
