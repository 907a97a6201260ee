--------------------------- MODULE DistributedWorker ---------------------------
(***************************************************************************)
(* A fleet of DistributedWorkers draining one shared task queue without a  *)
(* dispatcher (ormica/distributed.py).                                     *)
(*                                                                         *)
(* Shared state: one record per task in the mycelium (rec) and the lease   *)
(* table.  Everything else is local to a worker.  Each access to shared    *)
(* state is one step, so workers interleave between the membership test    *)
(* and the write of _publish, between load_tasks and the claim, between    *)
(* the claim and the re-read, and around both record writes of _execute.   *)
(*                                                                         *)
(* The heartbeat is a second thread of the worker: a beat begins when its  *)
(* timer fires and its claim may still be in flight when the task ends,    *)
(* because the stopper waits one second only.                              *)
(***************************************************************************)
EXTENDS LeaseTable, Sequences, FiniteSets

CONSTANTS
  NoTask,       \* no task
  Deps,         \* task -> set of tasks it depends on (depends_on)
  Rank,         \* task -> place in the (priority, created_at) order
  Local,        \* worker -> sequence of the tasks in its own process (org._tasks)
  MaxTasks,     \* max_tasks
  IdleRounds,   \* idle_rounds
  IdleCap,      \* bound on the counted idle polls; IdleRounds > IdleCap: never leaves
  Heartbeat,    \* heartbeat
  Prompt,       \* TRUE: lease_ttl outlasts the pause between a claim and the next write
  MaxCrashes    \* bound on the workers that die

ASSUME NoTaskAssumption == NoTask \notin Tasks
ASSUME DepsAssumption == Deps \in [Tasks -> SUBSET Tasks]
ASSUME RankAssumption ==
  /\ Rank \in [Tasks -> Nat]
  /\ \A s, t \in Tasks : Rank[s] = Rank[t] => s = t
ASSUME LocalAssumption == Local \in [Workers -> Seq(Tasks)]
ASSUME BoundsAssumption ==
  /\ MaxTasks \in Nat /\ IdleRounds \in Nat /\ IdleCap \in Nat /\ MaxCrashes \in Nat
  /\ Heartbeat \in BOOLEAN /\ Prompt \in BOOLEAN

VARIABLES
  rec,       \* task -> status of the record tasks/{id}, "absent" if there is none
  pc,        \* worker -> the step it is at
  todo,      \* worker -> local tasks _publish has still to look at
  cur,       \* worker -> the task it publishes, claims or executes
  snap,      \* worker -> the statuses its last load_tasks returned
  cand,      \* worker -> candidates _try_claim_one has not tried yet
  idle,      \* worker -> empty polls in a row
  tally,     \* worker -> RunResult
  beat,      \* worker -> task of a heartbeat claim in flight
  runs,      \* history: task -> number of times an agent was started on it
  crashes    \* number of workers that died

locals == <<todo, cur, snap, cand, idle, tally>>
vars == <<leases, rec, pc, todo, cur, snap, cand, idle, tally, beat, runs, crashes>>

Statuses == {"absent", "pending", "running", "done", "failed"}
Terminal == {"done", "failed"}

\* publish: _publish's loop; write: it found no record; poll: the while test;
\* try_run, try_skip: claiming from the candidates; check_run, check_skip: claimed,
\* re-reading; start, skip: about to write the record; running: the agent works;
\* release_*: the finally, after that outcome; stopped: run() returned; dead.
Stages == {"publish", "write", "poll", "try_run", "try_skip", "check_run", "check_skip",
           "start", "skip", "running", "release_done", "release_failed", "stopped", "dead"}
Gone == {"stopped", "dead"}

Init ==
  /\ LeasesInit
  /\ rec = [t \in Tasks |-> "absent"]
  /\ pc = [w \in Workers |-> "publish"]
  /\ todo = Local
  /\ cur = [w \in Workers |-> NoTask]
  /\ snap = [w \in Workers |-> rec]
  /\ cand = [w \in Workers |-> {}]
  /\ idle = [w \in Workers |-> 0]
  /\ tally = [w \in Workers |-> [processed |-> 0, succeeded |-> 0, failed |-> 0]]
  /\ beat = [w \in Workers |-> NoTask]
  /\ runs = [t \in Tasks |-> 0]
  /\ crashes = 0

Goto(w, stage) == pc' = [pc EXCEPT ![w] = stage]

-------------------------------------------------------------------------------
(* _publish: test whether the record exists, then write it as pending. *)

PublishCheck(w) ==
  /\ pc[w] = "publish"
  /\ todo[w] # <<>>
  /\ IF rec[Head(todo[w])] = "absent"
     THEN /\ cur' = [cur EXCEPT ![w] = Head(todo[w])]
          /\ Goto(w, "write")
     ELSE UNCHANGED <<cur, pc>>
  /\ todo' = [todo EXCEPT ![w] = Tail(@)]
  /\ UNCHANGED <<leases, rec, snap, cand, idle, tally, beat, runs, crashes>>

PublishWrite(w) ==
  /\ pc[w] = "write"
  /\ rec' = [rec EXCEPT ![cur[w]] = "pending"]
  /\ cur' = [cur EXCEPT ![w] = NoTask]
  /\ Goto(w, "publish")
  /\ UNCHANGED <<leases, todo, snap, cand, idle, tally, beat, runs, crashes>>

PublishDone(w) ==
  /\ pc[w] = "publish"
  /\ todo[w] = <<>>
  /\ Goto(w, "poll")
  /\ UNCHANGED <<leases, rec, locals, beat, runs, crashes>>

-------------------------------------------------------------------------------
(* One round of run(): load, claim runnable work, else claim blocked work. *)

\* Prerequisites inside the loaded queue; others are ignored.
Queued(s) == {t \in Tasks : s[t] # "absent"}
DepsIn(s, t) == Deps[t] \cap Queued(s)

\* Mutant: a task is runnable unless a prerequisite has failed.
RunnableUnlessFailed(s) ==
  {t \in Tasks : s[t] = "pending" /\ \A d \in DepsIn(s, t) : s[d] # "failed"}

\* Pending tasks whose in-queue prerequisites are all done.
Runnable(s) == {t \in Tasks : s[t] = "pending" /\ \A d \in DepsIn(s, t) : s[d] = "done"}

\* Pending tasks with a failed prerequisite.
Blocked(s) == {t \in Tasks : s[t] = "pending" /\ \E d \in DepsIn(s, t) : s[d] = "failed"}

LoadTasks(w) ==
  /\ pc[w] = "poll"
  /\ tally[w].processed < MaxTasks
  /\ snap' = [snap EXCEPT ![w] = rec]
  /\ cand' = [cand EXCEPT ![w] = Runnable(rec)]
  /\ Goto(w, "try_run")
  /\ UNCHANGED <<leases, rec, todo, cur, idle, tally, beat, runs, crashes>>

LimitReached(w) ==
  /\ pc[w] = "poll"
  /\ tally[w].processed >= MaxTasks
  /\ Goto(w, "stopped")
  /\ UNCHANGED <<leases, rec, locals, beat, runs, crashes>>

IsFirst(t, S) == t \in S /\ \A u \in S : Rank[t] <= Rank[u]

\* The lease of the next candidate in order is won ...
Win(w, t) ==
  /\ Grant(t, w, TTL)
  /\ cur' = [cur EXCEPT ![w] = t]
  /\ Goto(w, IF pc[w] = "try_run" THEN "check_run" ELSE "check_skip")
  /\ UNCHANGED cand

\* ... or it is passed over.
PassOver(w, t) ==
  /\ ~Claimable(t, w)
  /\ cand' = [cand EXCEPT ![w] = @ \ {t}]
  /\ UNCHANGED <<leases, cur, pc>>

TryClaim(w) ==
  /\ pc[w] \in {"try_run", "try_skip"}
  /\ \E t \in Tasks : IsFirst(t, cand[w]) /\ (Win(w, t) \/ PassOver(w, t))
  /\ UNCHANGED <<rec, todo, snap, idle, tally, beat, runs, crashes>>

\* Mutant: the task is kept whatever its record says.
KeepBlindly(w) ==
  /\ Goto(w, IF pc[w] = "check_run" THEN "start" ELSE "skip")
  /\ idle' = [idle EXCEPT ![w] = 0]
  /\ UNCHANGED <<leases, cur, cand>>

\* Re-read the record under the lease: a task still pending is the worker's ...
Keep(w) ==
  /\ rec[cur[w]] \in {"pending", "absent"}
  /\ Goto(w, IF pc[w] = "check_run" THEN "start" ELSE "skip")
  /\ idle' = [idle EXCEPT ![w] = 0]
  /\ UNCHANGED <<leases, cur, cand>>

\* ... any other is put back, and the next candidate is tried.
PutBack(w) ==
  /\ rec[cur[w]] \notin {"pending", "absent"}
  /\ Release(cur[w], w)
  /\ cand' = [cand EXCEPT ![w] = @ \ {cur[w]}]
  /\ cur' = [cur EXCEPT ![w] = NoTask]
  /\ Goto(w, IF pc[w] = "check_run" THEN "try_run" ELSE "try_skip")
  /\ UNCHANGED idle

Recheck(w) ==
  /\ pc[w] \in {"check_run", "check_skip"}
  /\ Keep(w) \/ PutBack(w)
  /\ UNCHANGED <<rec, todo, snap, tally, beat, runs, crashes>>

\* Mutant: blocked tasks are never reaped.
TurnAway(w) ==
  /\ pc[w] = "try_run"
  /\ cand[w] = {}
  /\ Goto(w, "try_skip")
  /\ UNCHANGED <<leases, rec, locals, beat, runs, crashes>>

\* No runnable task was won: try the blocked ones.
TurnToBlocked(w) ==
  /\ pc[w] = "try_run"
  /\ cand[w] = {}
  /\ cand' = [cand EXCEPT ![w] = Blocked(snap[w])]
  /\ Goto(w, "try_skip")
  /\ UNCHANGED <<leases, rec, todo, cur, snap, idle, tally, beat, runs, crashes>>

Unfinished(s) == \E t \in Tasks : s[t] \in {"pending", "running"}

\* Mutant: empty polls are not counted.
IdleUncounted(w) ==
  /\ pc[w] = "try_skip"
  /\ cand[w] = {}
  /\ Goto(w, IF Unfinished(snap[w]) THEN "poll" ELSE "stopped")
  /\ UNCHANGED <<leases, rec, locals, beat, runs, crashes>>

\* Nothing was won at all: leave if the queue is drained or the patience used up.
Idle(w) ==
  LET rounds == IF idle[w] < IdleCap THEN idle[w] + 1 ELSE IdleCap
  IN /\ pc[w] = "try_skip"
     /\ cand[w] = {}
     /\ IF Unfinished(snap[w])
        THEN /\ idle' = [idle EXCEPT ![w] = rounds]
             /\ Goto(w, IF rounds >= IdleRounds THEN "stopped" ELSE "poll")
        ELSE /\ Goto(w, "stopped")
             /\ UNCHANGED idle
     /\ UNCHANGED <<leases, rec, todo, cur, snap, cand, tally, beat, runs, crashes>>

-------------------------------------------------------------------------------
(* _execute and _skip, then the release in run()'s finally. *)

\* Mutant: the agent works without the "running" checkpoint.
StartUnrecorded(w) ==
  /\ pc[w] = "start"
  /\ runs' = [runs EXCEPT ![cur[w]] = @ + 1]
  /\ Goto(w, "running")
  /\ UNCHANGED <<leases, rec, locals, beat, crashes>>

\* The durable "running" checkpoint; then the agent works.
Start(w) ==
  /\ pc[w] = "start"
  /\ rec' = [rec EXCEPT ![cur[w]] = "running"]
  /\ runs' = [runs EXCEPT ![cur[w]] = @ + 1]
  /\ Goto(w, "running")
  /\ UNCHANGED <<leases, locals, beat, crashes>>

\* The heartbeat's timer fires: it goes to claim the task again.
BeatBegin(w) ==
  /\ Heartbeat
  /\ pc[w] = "running"
  /\ beat[w] = NoTask
  /\ beat' = [beat EXCEPT ![w] = cur[w]]
  /\ UNCHANGED <<leases, rec, pc, locals, runs, crashes>>

\* The heartbeat's claim takes effect; a refusal or an error is swallowed.
BeatEnd(w) ==
  /\ beat[w] # NoTask
  /\ \/ Grant(beat[w], w, TTL)
     \/ UNCHANGED leases
  /\ beat' = [beat EXCEPT ![w] = NoTask]
  /\ UNCHANGED <<rec, pc, locals, runs, crashes>>

\* The agent answers or raises, and the final record is written.
Finish(w, outcome) ==
  /\ pc[w] = "running"
  /\ rec' = [rec EXCEPT ![cur[w]] = outcome]
  /\ Goto(w, IF outcome = "done" THEN "release_done" ELSE "release_failed")
  /\ UNCHANGED <<leases, locals, beat, runs, crashes>>

\* _skip: a task behind a failed prerequisite is marked failed, never run.
SkipTask(w) ==
  /\ pc[w] = "skip"
  /\ rec' = [rec EXCEPT ![cur[w]] = "failed"]
  /\ Goto(w, "release_failed")
  /\ UNCHANGED <<leases, locals, beat, runs, crashes>>

\* Release, count, next round.  claimed.status is what this worker just wrote.
ReleaseTask(w) ==
  /\ pc[w] \in {"release_done", "release_failed"}
  /\ Release(cur[w], w)
  /\ tally' = [tally EXCEPT ![w] =
                 [processed |-> @.processed + 1,
                  succeeded |-> @.succeeded + IF pc[w] = "release_done" THEN 1 ELSE 0,
                  failed |-> @.failed + IF pc[w] = "release_failed" THEN 1 ELSE 0]]
  /\ cur' = [cur EXCEPT ![w] = NoTask]
  /\ Goto(w, "poll")
  /\ UNCHANGED <<rec, todo, snap, cand, idle, beat, runs, crashes>>

-------------------------------------------------------------------------------
(* Failures and time *)

\* The process dies: its lease and its last record stay behind.
Crash(w) ==
  /\ pc[w] \notin Gone
  /\ crashes < MaxCrashes
  /\ crashes' = crashes + 1
  /\ Goto(w, "dead")
  /\ beat' = [beat EXCEPT ![w] = NoTask]
  /\ UNCHANGED <<leases, rec, locals, runs>>

\* A record write raises inside _execute or _skip (a locked database): the
\* finally releases the lease and the exception ends run().
Abort(w) ==
  /\ pc[w] \in {"start", "skip", "running"}
  /\ crashes < MaxCrashes
  /\ crashes' = crashes + 1
  /\ Release(cur[w], w)
  /\ Goto(w, "dead")
  /\ UNCHANGED <<rec, locals, beat, runs>>

\* Between winning a lease and the next record write.
Committing(w) == pc[w] \in {"check_run", "check_skip", "start", "skip"}

\* Under Prompt no lease runs out while its owner is between claim and write.
Tick ==
  /\ \E t \in Tasks : leases[t].left > 0
  /\ Prompt => \A w \in Workers : Committing(w) => leases[cur[w]].left > 1
  /\ Elapse
  /\ UNCHANGED <<rec, pc, locals, beat, runs, crashes>>

Step(w) ==
  \/ PublishCheck(w) \/ PublishWrite(w) \/ PublishDone(w)
  \/ LoadTasks(w) \/ LimitReached(w) \/ TryClaim(w) \/ Recheck(w)
  \/ TurnToBlocked(w) \/ Idle(w)
  \/ Start(w) \/ SkipTask(w) \/ ReleaseTask(w)
  \/ \E outcome \in Terminal : Finish(w, outcome)

Next ==
  \/ \E w \in Workers : \/ Step(w)
                        \/ BeatBegin(w) \/ BeatEnd(w)
                        \/ Crash(w) \/ Abort(w)
  \/ Tick

Spec == Init /\ [][Next]_vars

\* Every live worker keeps taking steps (the brain answers, the store answers)
\* and time passes; nothing is owed by a worker that died, nor is any beat.
FairSpec == Spec /\ \A w \in Workers : WF_vars(Step(w)) /\ WF_vars(BeatEnd(w))
                 /\ WF_vars(Tick)
-------------------------------------------------------------------------------
(* Properties *)

TypeOK ==
  /\ LeasesTypeOK
  /\ rec \in [Tasks -> Statuses]
  /\ pc \in [Workers -> Stages]
  /\ todo \in [Workers -> Seq(Tasks)]
  /\ cur \in [Workers -> Tasks \cup {NoTask}]
  /\ snap \in [Workers -> [Tasks -> Statuses]]
  /\ cand \in [Workers -> SUBSET Tasks]
  /\ idle \in [Workers -> Nat]
  /\ tally \in [Workers -> [processed : Nat, succeeded : Nat, failed : Nat]]
  /\ beat \in [Workers -> Tasks \cup {NoTask}]
  /\ runs \in [Tasks -> Nat]
  /\ crashes \in Nat

(* The strengthening that makes the safety properties inductive: what each *)
(* stage of a worker knows about the records and the leases, whatever the  *)
(* other workers do meanwhile.                                             *)

Publishes(w, t) == \E i \in 1..Len(Local[w]) : Local[w][i] = t

PublisherKnows ==
  \A w \in Workers :
    /\ \A i \in 1..Len(todo[w]) : Publishes(w, todo[w][i])
    /\ pc[w] = "write" => Publishes(w, cur[w]) /\ rec[cur[w]] = "absent"

\* Snapshots age, but what they saw finished stays finished, and what they saw
\* published stays published; candidates were pending when they were loaded.
SnapshotsHold ==
  \A w \in Workers, t \in Tasks :
    /\ snap[w][t] # "absent" => rec[t] # "absent"
    /\ snap[w][t] \in Terminal => rec[t] = snap[w][t]
    /\ t \in cand[w] => snap[w][t] = "pending"

\* Between claim and write the lease is the worker's own and alive.
LeaseHeld ==
  \A w \in Workers :
    Committing(w) => /\ leases[cur[w]].owner = w
                     /\ leases[cur[w]].left > 0
                     /\ rec[cur[w]] # "absent"

RecordKnown ==
  \A w \in Workers :
    /\ pc[w] \in {"start", "skip"} => rec[cur[w]] = "pending"
    /\ pc[w] = "running" => rec[cur[w]] = "running"
    /\ pc[w] \in {"release_done", "release_failed"} => rec[cur[w]] \in Terminal

Busy(w) == pc[w] \notin {"publish", "poll", "try_run", "try_skip"} \cup Gone

OneRunner ==
  \A v, w \in Workers :
    pc[v] = "running" /\ pc[w] = "running" /\ cur[v] = cur[w] => v = w

RunsCounted ==
  \A t \in Tasks : /\ rec[t] \in {"absent", "pending"} => runs[t] = 0
                   /\ runs[t] <= 1

FleetInv ==
  /\ TypeOK
  /\ \A w \in Workers : Busy(w) => cur[w] \in Tasks
  /\ PublisherKnows
  /\ SnapshotsHold
  /\ LeaseHeld
  /\ RecordKnown
  /\ OneRunner
  /\ RunsCounted

(* No task is run twice, by one worker or by two, although workers act on  *)
(* stale snapshots, lose leases to the clock and die                       *)
(* (distributed-execution.md: "no task run twice").                        *)
RunOnce == \A t \in Tasks : runs[t] <= 1

(* An agent only works on a task whose prerequisites are all done now: the *)
(* decision was taken on a snapshot, and nothing may have undone it since. *)
ReadyWhenRunning ==
  \A w \in Workers :
    pc[w] \in {"start", "running"} => \A d \in Deps[cur[w]] : rec[d] = "done"

(* A task that failed without ever being run is behind a failed            *)
(* prerequisite: the fleet never writes off work that could have been done.*)
SkippedForCause ==
  \A t \in Tasks :
    rec[t] = "failed" /\ runs[t] = 0 => \E d \in Deps[t] : rec[d] = "failed"

(* The fleet keeps to the graph: it runs nothing before its prerequisites    *)
(* and writes nothing off without a failed one.                              *)
DependenciesKept == ReadyWhenRunning /\ SkippedForCause

(* A final record is final: no late writer, publisher or heartbeat changes *)
(* a task that is done or failed.                                          *)
FinalStays == [][\A t \in Tasks : rec[t] \in Terminal => rec'[t] = rec[t]]_vars

(* A live worker holds no lease on work it is not doing: what a late       *)
(* heartbeat or a refused claim leaves behind only covers finished tasks.  *)
NoIdleLock ==
  \A w \in Workers, t \in Tasks :
    leases[t].owner = w /\ leases[t].left > 0 /\ pc[w] # "dead" /\ cur[w] # t
      => rec[t] \in Terminal

(* When the last worker has left and none died or hit max_tasks, the queue *)
(* is drained, although each leaves after idle_rounds polls with work still*)
(* in flight elsewhere ("a fleet of workers all exit once the queue is     *)
(* drained").                                                              *)
AllLeft == \A w \in Workers : pc[w] = "stopped" /\ tally[w].processed < MaxTasks

DrainedAtExit == AllLeft => \A t \in Tasks : rec[t] \in Terminal

(* The workers' tallies add up: every finished task is counted by exactly  *)
(* one worker (crashes aside), however many contended for it.              *)
Finished == {t \in Tasks : rec[t] \in Terminal}
Counting == {w \in Workers : pc[w] \in {"release_done", "release_failed"}}
Strokes == UNION {{w} \X (1..tally[w].processed) : w \in Workers}

CountedOnce ==
  crashes = 0 => Cardinality(Strokes) + Cardinality(Counting) = Cardinality(Finished)

(* Workers leave nothing behind: no lease, no unfinished work, no count.     *)
NothingLeft == NoIdleLock /\ DrainedAtExit /\ CountedOnce

(* Every worker leaves in the end, even when a crash left work nobody can  *)
(* finish: idle polls are bounded.                                         *)
EveryWorkerLeaves == \A w \in Workers : <>(pc[w] \in Gone)

(* A task whose worker died mid-task is taken over and finished by a       *)
(* worker that keeps polling (distributed.py: "if a worker dies mid-task,  *)
(* its lease expires and another worker reclaims the task").               *)
DeadWorkReclaimed ==
  \A w \in Workers, t \in Tasks :
    []<>(pc[w] = "poll") => (rec[t] = "running" ~> rec[t] \in Terminal)
===============================================================================
