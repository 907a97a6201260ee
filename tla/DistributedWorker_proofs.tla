------------------------ MODULE DistributedWorker_proofs ------------------------
(***************************************************************************)
(* Proofs about DistributedWorker, for any fleet, any task graph and any   *)
(* bounds, under assumptions each theorem names: leases outlast the pause  *)
(* between a claim and the next record write (Prompt), a task is published *)
(* by one process only (PublishedOnce), a process creates a task after its *)
(* prerequisites (PrerequisitesFirst), and the queue is what the processes *)
(* of the fleet created (EveryTaskPublished).                              *)
(*                                                                         *)
(* The invariants come in layers, each using those before it: FleetInv     *)
(* (records and leases), GraphInv (prerequisites), LockInv (leases left    *)
(* over), DrainInv (unfinished work), CountInv (tallies).                  *)
(***************************************************************************)
EXTENDS DistributedWorker, SequenceTheorems, FiniteSetTheorems, WellFoundedInduction, TLAPS

PublishedOnce ==
  \A v, w \in Workers, t \in Tasks : Publishes(v, t) /\ Publishes(w, t) => v = w

USE NoWorkerAssumption, TTLAssumption, NoTaskAssumption

(* The steps of Next one by one, for the case splits below.                 *)
StepKinds(w) ==
  \/ PublishCheck(w) \/ PublishWrite(w) \/ PublishDone(w) \/ LoadTasks(w)
  \/ LimitReached(w) \/ TryClaim(w) \/ Recheck(w) \/ TurnToBlocked(w) \/ Idle(w)
  \/ Start(w) \/ SkipTask(w) \/ ReleaseTask(w)
  \/ Finish(w, "done") \/ Finish(w, "failed")
  \/ BeatBegin(w) \/ BeatEnd(w) \/ Crash(w) \/ Abort(w)

(* A step is one of a worker's actions or the passing of time.              *)
LEMMA NextKinds ==
  [Next]_vars => (\E w \in Workers : StepKinds(w)) \/ Tick \/ UNCHANGED vars
  BY DEF Next, Step, StepKinds, Terminal

(* What release leaves of the leases: a table of the same type, where only  *)
(* the caller's own lease can be gone.                                      *)
LEMMA ReleaseFacts ==
  ASSUME LeasesTypeOK, NEW w \in Workers, NEW t \in Tasks, Release(t, w)
  PROVE  /\ leases' \in [Tasks -> Lease]
         /\ \A u \in Tasks : leases[u].owner # w => leases'[u] = leases[u]
  BY DEF LeasesTypeOK, Release, Lease, Free

(* What a granted claim changes in the table of leases.                     *)
LEMMA GrantFacts ==
  ASSUME LeasesTypeOK, NEW w \in Workers, NEW t \in Tasks, Grant(t, w, TTL)
  PROVE  /\ leases' \in [Tasks -> Lease]
         /\ leases'[t] = [owner |-> w, left |-> TTL]
         /\ \A u \in Tasks : u # t => leases'[u] = leases[u]
         /\ Claimable(t, w)
  BY DEF LeasesTypeOK, Grant, Lease

(* What the passing of time changes in the table of leases.                 *)
LEMMA ElapseFacts ==
  ASSUME LeasesTypeOK, Elapse
  PROVE  /\ leases' \in [Tasks -> Lease]
         /\ \A u \in Tasks : /\ leases'[u].owner = leases[u].owner
                             /\ leases[u].left > 1 => leases'[u].left > 0
  BY DEF LeasesTypeOK, Elapse, Lease

-------------------------------------------------------------------------------
(* Typing *)

CurOK == \A w \in Workers : Busy(w) => cur[w] \in Tasks

\* What _publish takes from its list of local tasks.
LEMMA HeadTailOfQueue ==
  ASSUME NEW q \in Seq(Tasks), q # <<>>
  PROVE  /\ Head(q) \in Tasks /\ Tail(q) \in Seq(Tasks) /\ Len(q) > 0
         /\ Head(q) = q[1] /\ Len(Tail(q)) = Len(q) - 1
         /\ \A i \in 1..Len(Tail(q)) : Tail(q)[i] = q[i + 1]
  OBVIOUS

(* An action of a worker keeps the types.                                   *)
LEMMA TypingStep ==
  ASSUME TypeOK, CurOK, NEW w \in Workers, StepKinds(w)
  PROVE  TypeOK'
<1> USE DEF TypeOK, LeasesTypeOK, CurOK, Busy, Gone, Goto, locals
<1>1. CASE PublishCheck(w)
  <2>1. Head(todo[w]) \in Tasks /\ Tail(todo[w]) \in Seq(Tasks)
    <3>1. todo[w] \in Seq(Tasks) /\ todo[w] # <<>>
      BY <1>1 DEF PublishCheck
    <3>. QED
      BY ONLY <3>1, HeadTailOfQueue
  <2>2. PICK t \in Tasks : t = Head(todo[w])
    BY <2>1
  <2>3. \/ UNCHANGED <<cur, pc>>
        \/ cur' = [cur EXCEPT ![w] = t] /\ pc' = [pc EXCEPT ![w] = "write"]
    BY <1>1, <2>2 DEF PublishCheck
  <2>4. cur' \in [Workers -> Tasks \cup {NoTask}]
    BY <2>3
  <2>5. pc' \in [Workers -> Stages]
    BY <2>3 DEF Stages
  <2>. QED
    BY <1>1, <2>1, <2>4, <2>5 DEF PublishCheck
<1>2. CASE PublishWrite(w)
  BY <1>2 DEF PublishWrite, Stages, Statuses
<1>3. CASE PublishDone(w)
  BY <1>3 DEF PublishDone, Stages
<1>4. CASE LoadTasks(w)
  BY <1>4 DEF LoadTasks, Stages, Runnable
<1>5. CASE LimitReached(w)
  BY <1>5 DEF LimitReached, Stages
<1>6. CASE TryClaim(w)
  <2>1. UNCHANGED <<rec, todo, snap, idle, tally, beat, runs, crashes>>
    BY <1>6 DEF TryClaim
  <2>2. PICK t \in Tasks : Win(w, t) \/ PassOver(w, t)
    BY <1>6 DEF TryClaim
  <2>3. CASE Win(w, t)
    <3>1. leases' \in [Tasks -> Lease]
      BY <2>3, GrantFacts DEF Win
    <3>2. cur' \in [Workers -> Tasks \cup {NoTask}] /\ pc' \in [Workers -> Stages] /\ cand' = cand
      BY <2>3 DEF Win, Stages
    <3>. QED
      BY <2>1, <3>1, <3>2
  <2>4. CASE PassOver(w, t)
    BY <2>1, <2>4 DEF PassOver
  <2>. QED
    BY <2>2, <2>3, <2>4
<1>7. CASE Recheck(w)
  <2>1. UNCHANGED <<rec, todo, snap, tally, beat, runs, crashes>> /\ cur[w] \in Tasks
    BY <1>7 DEF Recheck
  <2>2. CASE Keep(w)
    BY <1>7, <2>1, <2>2 DEF Keep, Stages
  <2>3. CASE PutBack(w)
    <3>1. leases' \in [Tasks -> Lease]
      BY <2>1, <2>3, ReleaseFacts DEF PutBack
    <3>2. pc' \in [Workers -> Stages]
      BY <2>3 DEF PutBack, Stages
    <3>3. cand' \in [Workers -> SUBSET Tasks] /\ cur' \in [Workers -> Tasks \cup {NoTask}]
      BY <2>3 DEF PutBack
    <3>. QED
      BY <2>1, <2>3, <3>1, <3>2, <3>3 DEF PutBack
  <2>. QED
    BY <1>7, <2>2, <2>3 DEF Recheck
<1>8. CASE TurnToBlocked(w)
  BY <1>8 DEF TurnToBlocked, Stages, Blocked
<1>9. CASE Idle(w)
  <2>1. UNCHANGED <<leases, rec, todo, cur, snap, cand, tally, beat, runs, crashes>>
    BY <1>9 DEF Idle
  <2>2. idle' \in [Workers -> Nat]
    BY <1>9, BoundsAssumption DEF Idle
  <2>3. pc' \in [Workers -> Stages]
    <3>1. Goto(w, "stopped") \/ Goto(w, "poll")
      BY <1>9 DEF Idle
    <3>2. CASE Goto(w, "stopped")
      BY <3>2 DEF Stages
    <3>3. CASE Goto(w, "poll")
      BY <3>3 DEF Stages
    <3>. QED
      BY <3>1, <3>2, <3>3
  <2>. QED
    BY <2>1, <2>2, <2>3
<1>10. CASE Start(w)
  <2>1. cur[w] \in Tasks
    BY <1>10 DEF Start
  <2>2. runs' \in [Tasks -> Nat] /\ rec' \in [Tasks -> Statuses]
    BY <1>10, <2>1 DEF Start, Statuses
  <2>. QED
    BY <1>10, <2>2 DEF Start, Stages
<1>11. CASE SkipTask(w)
  BY <1>11 DEF SkipTask, Stages, Statuses
<1>12. CASE ReleaseTask(w)
  <2>1. cur[w] \in Tasks
    BY <1>12 DEF ReleaseTask
  <2>2. tally' \in [Workers -> [processed : Nat, succeeded : Nat, failed : Nat]]
    BY <1>12 DEF ReleaseTask
  <2>. QED
    BY <1>12, <2>1, <2>2, ReleaseFacts DEF ReleaseTask, Stages
<1>13. CASE Finish(w, "done")
  BY <1>13 DEF Finish, Stages, Statuses
<1>14. CASE Finish(w, "failed")
  BY <1>14 DEF Finish, Stages, Statuses
<1>15. CASE BeatBegin(w)
  BY <1>15 DEF BeatBegin
<1>16. CASE BeatEnd(w)
  BY <1>16, GrantFacts DEF BeatEnd
<1>17. CASE Crash(w)
  BY <1>17 DEF Crash, Stages
<1>18. CASE Abort(w)
  <2>1. cur[w] \in Tasks
    BY <1>18 DEF Abort
  <2>. QED
    BY <1>18, <2>1, ReleaseFacts DEF Abort, Stages
<1>. QED
  BY <1>1, <1>2, <1>3, <1>4, <1>5, <1>6, <1>7, <1>8, <1>9, <1>10, <1>11, <1>12, <1>13,
     <1>14, <1>15, <1>16, <1>17, <1>18 DEF StepKinds

-------------------------------------------------------------------------------
(* What one step can touch *)

\* A worker's step leaves the other workers' local state alone.
LEMMA OthersKeep ==
  ASSUME TypeOK, NEW w \in Workers, StepKinds(w), NEW v \in Workers, v # w
  PROVE  /\ pc'[v] = pc[v] /\ cur'[v] = cur[v] /\ todo'[v] = todo[v]
         /\ snap'[v] = snap[v] /\ cand'[v] = cand[v]
<1> USE DEF TypeOK, Goto, locals
<1>1. CASE PublishCheck(w) \/ PublishWrite(w) \/ PublishDone(w) \/ LoadTasks(w) \/ LimitReached(w)
  BY <1>1 DEF PublishCheck, PublishWrite, PublishDone, LoadTasks, LimitReached
<1>2. CASE TryClaim(w) \/ Recheck(w)
  BY <1>2 DEF TryClaim, Win, PassOver, Recheck, Keep, PutBack
<1>3. CASE TurnToBlocked(w) \/ Idle(w) \/ Start(w) \/ SkipTask(w) \/ ReleaseTask(w)
  BY <1>3 DEF TurnToBlocked, Idle, Start, SkipTask, ReleaseTask
<1>4. CASE Finish(w, "done") \/ Finish(w, "failed")
  BY <1>4 DEF Finish
<1>5. CASE BeatBegin(w) \/ BeatEnd(w) \/ Crash(w) \/ Abort(w)
  BY <1>5 DEF BeatBegin, BeatEnd, Crash, Abort
<1>. QED
  BY <1>1, <1>2, <1>3, <1>4, <1>5 DEF StepKinds

\* Only the record of the worker's own task can change, and only so.
LEMMA RecordChanges ==
  ASSUME TypeOK, NEW w \in Workers, StepKinds(w), NEW t \in Tasks, rec'[t] # rec[t]
  PROVE  /\ t = cur[w]
         /\ \/ pc[w] = "write" /\ rec'[t] = "pending" /\ pc'[w] = "publish"
            \/ /\ pc[w] = "start" /\ rec'[t] = "running"
               /\ pc'[w] = "running" /\ cur'[w] = cur[w]
            \/ pc[w] = "skip" /\ rec'[t] = "failed" /\ pc'[w] = "release_failed"
            \/ /\ pc[w] = "running" /\ rec'[t] \in Terminal
               /\ pc'[w] \in {"release_done", "release_failed"}
<1> USE DEF TypeOK, Goto, locals
<1>1. CASE PublishWrite(w)
  BY <1>1 DEF PublishWrite
<1>2. CASE Start(w) \/ SkipTask(w)
  BY <1>2 DEF Start, SkipTask
<1>3. CASE Finish(w, "done") \/ Finish(w, "failed")
  BY <1>3 DEF Finish, Terminal
<1>4. CASE PublishCheck(w) \/ PublishDone(w) \/ LoadTasks(w) \/ LimitReached(w) \/ TryClaim(w)
           \/ Recheck(w) \/ TurnToBlocked(w) \/ Idle(w) \/ ReleaseTask(w)
           \/ BeatBegin(w) \/ BeatEnd(w) \/ Crash(w) \/ Abort(w)
  BY <1>4 DEF PublishCheck, PublishDone, LoadTasks, LimitReached, TryClaim, Recheck,
    TurnToBlocked, Idle, ReleaseTask, BeatBegin, BeatEnd, Crash, Abort
<1>. QED
  BY <1>1, <1>2, <1>3, <1>4 DEF StepKinds

\* Only a lease the worker may claim, or its own, can change.
LEMMA LeaseChanges ==
  ASSUME TypeOK, CurOK, NEW w \in Workers, StepKinds(w), NEW t \in Tasks,
         leases'[t] # leases[t]
  PROVE  Claimable(t, w)
<1> USE DEF TypeOK, Goto, locals, CurOK, Busy, Gone
<1>1. CASE TryClaim(w)
  BY <1>1, GrantFacts DEF TryClaim, Win, PassOver
<1>2. CASE BeatEnd(w)
  BY <1>2, GrantFacts DEF BeatEnd
<1>3. CASE Recheck(w)
  <2>1. cur[w] \in Tasks
    BY <1>3 DEF Recheck
  <2>. QED
    BY <1>3, <2>1, ReleaseFacts DEF Recheck, Keep, PutBack, Claimable
<1>4. CASE ReleaseTask(w) \/ Abort(w)
  <2>1. cur[w] \in Tasks
    BY <1>4 DEF ReleaseTask, Abort
  <2>. QED
    BY <1>4, <2>1, ReleaseFacts DEF ReleaseTask, Abort, Claimable
<1>5. CASE PublishCheck(w) \/ PublishWrite(w) \/ PublishDone(w) \/ LoadTasks(w) \/ LimitReached(w)
           \/ TurnToBlocked(w) \/ Idle(w) \/ Start(w) \/ SkipTask(w)
           \/ Finish(w, "done") \/ Finish(w, "failed") \/ BeatBegin(w) \/ Crash(w)
  BY <1>5 DEF PublishCheck, PublishWrite, PublishDone, LoadTasks, LimitReached,
    TurnToBlocked, Idle, Start, SkipTask, Finish, BeatBegin, Crash
<1>. QED
  BY <1>1, <1>2, <1>3, <1>4, <1>5 DEF StepKinds

-------------------------------------------------------------------------------
(* The conjuncts of FleetInv, one lemma each *)

(* A busy worker has a task.                                                *)
LEMMA CurStep ==
  ASSUME TypeOK, CurOK, NEW w \in Workers, StepKinds(w)
  PROVE  CurOK'
<1> SUFFICES ASSUME NEW v \in Workers, Busy(v)'
             PROVE  cur'[v] \in Tasks
  BY DEF CurOK
<1>1. CASE v # w
  BY <1>1, OthersKeep DEF CurOK, Busy
<1>2. CASE v = w
  <2> USE DEF TypeOK, CurOK, Busy, Gone, Goto, locals
  <2>1. CASE PublishCheck(w)
    <3>1. todo[w] \in Seq(Tasks) /\ todo[w] # <<>>
      BY <2>1 DEF PublishCheck
    <3>2. Head(todo[w]) \in Tasks
      BY ONLY <3>1, HeadTailOfQueue
    <3>. QED
      BY <1>2, <2>1, <3>2 DEF PublishCheck
  <2>2. CASE PublishWrite(w) \/ PublishDone(w) \/ LoadTasks(w) \/ LimitReached(w)
    BY <1>2, <2>2 DEF PublishWrite, PublishDone, LoadTasks, LimitReached
  <2>3. CASE TryClaim(w)
    BY <1>2, <2>3 DEF TryClaim, Win, PassOver
  <2>4. CASE Recheck(w)
    BY <1>2, <2>4 DEF Recheck, Keep, PutBack
  <2>5. CASE TurnToBlocked(w) \/ Idle(w) \/ ReleaseTask(w)
    BY <1>2, <2>5 DEF TurnToBlocked, Idle, ReleaseTask
  <2>6. CASE Start(w) \/ SkipTask(w) \/ Finish(w, "done") \/ Finish(w, "failed")
    BY <1>2, <2>6 DEF Start, SkipTask, Finish
  <2>7. CASE BeatBegin(w) \/ BeatEnd(w) \/ Crash(w) \/ Abort(w)
    BY <1>2, <2>7 DEF BeatBegin, BeatEnd, Crash, Abort
  <2>. QED
    BY <2>1, <2>2, <2>3, <2>4, <2>5, <2>6, <2>7 DEF StepKinds
<1>. QED
  BY <1>1, <1>2

\* A record another process publishes is never the one this worker is publishing.
LEMMA PublisherStep ==
  ASSUME TypeOK, CurOK, PublisherKnows, RecordKnown, PublishedOnce,
         NEW w \in Workers, StepKinds(w)
  PROVE  PublisherKnows'
<1> SUFFICES ASSUME NEW v \in Workers
             PROVE  /\ \A i \in 1..Len(todo'[v]) : Publishes(v, todo'[v][i])
                    /\ pc'[v] = "write" => Publishes(v, cur'[v]) /\ rec'[cur'[v]] = "absent"
  BY DEF PublisherKnows, Publishes
<1>1. CASE v # w
  <2>1. /\ pc'[v] = pc[v] /\ cur'[v] = cur[v] /\ todo'[v] = todo[v]
    BY <1>1, OthersKeep
  <2>2. pc[v] = "write" => rec'[cur[v]] = rec[cur[v]]
    <3> SUFFICES ASSUME pc[v] = "write", rec'[cur[v]] # rec[cur[v]]
                 PROVE  FALSE
      OBVIOUS
    <3>1. cur[v] \in Tasks
      BY DEF CurOK, Busy, Gone
    <3>2. rec[cur[v]] = "absent" /\ Publishes(v, cur[v])
      BY DEF PublisherKnows
    <3>3. cur[v] = cur[w] /\ pc[w] = "write"
      BY <3>1, <3>2, RecordChanges DEF RecordKnown
    <3>4. Publishes(w, cur[v])
      BY <3>3 DEF PublisherKnows
    <3>. QED
      BY <1>1, <3>1, <3>2, <3>4 DEF PublishedOnce
  <2>. QED
    BY <2>1, <2>2 DEF PublisherKnows
<1>2. CASE v = w
  <2> USE DEF TypeOK, Goto, locals
  <2>1. CASE PublishCheck(w)
    <3>1. todo[w] \in Seq(Tasks) /\ todo[w] # <<>>
      BY <2>1 DEF PublishCheck
    <3>2. todo'[w] = Tail(todo[w]) /\ rec' = rec
      BY <2>1 DEF PublishCheck
    <3>3. pc'[w] = "write" => cur'[w] = Head(todo[w]) /\ rec[Head(todo[w])] = "absent"
      BY <2>1 DEF PublishCheck
    <3>4. \A i \in 1..Len(todo[w]) : Publishes(w, todo[w][i])
      BY DEF PublisherKnows
    <3>5. /\ Len(todo[w]) \in Nat /\ Len(todo[w]) > 0 /\ Len(Tail(todo[w])) = Len(todo[w]) - 1
          /\ Head(todo[w]) = todo[w][1]
          /\ \A i \in 1..Len(Tail(todo[w])) : Tail(todo[w])[i] = todo[w][i + 1]
      BY ONLY <3>1, HeadTailOfQueue, LenProperties
    <3>6. Publishes(w, Head(todo[w]))
      BY ONLY <3>4, <3>5
    <3>7. \A i \in 1..Len(Tail(todo[w])) : Publishes(w, Tail(todo[w])[i])
      BY ONLY <3>4, <3>5
    <3>. QED
      BY <1>2, <3>2, <3>3, <3>6, <3>7
  <2>2. CASE pc'[w] # "write" /\ todo'[w] = todo[w]
    BY <1>2, <2>2 DEF PublisherKnows
  <2>3. CASE BeatBegin(w) \/ BeatEnd(w)
    BY <1>2, <2>3 DEF PublisherKnows, BeatBegin, BeatEnd
  <2>4. CASE PublishWrite(w) \/ PublishDone(w) \/ LoadTasks(w) \/ LimitReached(w)
    <3>. pc'[w] # "write" /\ todo'[w] = todo[w]
      BY <2>4 DEF PublishWrite, PublishDone, LoadTasks, LimitReached
    <3>. QED
      BY <2>2
  <2>5. CASE TryClaim(w) \/ Recheck(w)
    <3>. pc'[w] # "write" /\ todo'[w] = todo[w]
      BY <2>5 DEF TryClaim, Win, PassOver, Recheck, Keep, PutBack
    <3>. QED
      BY <2>2
  <2>6. CASE TurnToBlocked(w) \/ Idle(w) \/ ReleaseTask(w) \/ Start(w) \/ SkipTask(w)
             \/ Finish(w, "done") \/ Finish(w, "failed") \/ Crash(w) \/ Abort(w)
    <3>. pc'[w] # "write" /\ todo'[w] = todo[w]
      BY <2>6 DEF TurnToBlocked, Idle, ReleaseTask, Start, SkipTask, Finish, Crash, Abort
    <3>. QED
      BY <2>2
  <2>. QED
    BY <2>1, <2>3, <2>4, <2>5, <2>6 DEF StepKinds
<1>. QED
  BY <1>1, <1>2

\* Records only move forward: absent, pending, running, done or failed.
LEMMA RecordsAdvance ==
  ASSUME TypeOK, CurOK, PublisherKnows, RecordKnown, NEW w \in Workers, StepKinds(w),
         NEW t \in Tasks, rec'[t] # rec[t]
  PROVE  \/ rec[t] = "absent" /\ rec'[t] = "pending"
         \/ rec[t] = "pending" /\ rec'[t] \in {"running", "failed"}
         \/ rec[t] = "running" /\ rec'[t] \in Terminal
  BY RecordChanges DEF PublisherKnows, RecordKnown

(* What a worker saw finished stays finished.                               *)
LEMMA SnapshotsStep ==
  ASSUME TypeOK, CurOK, PublisherKnows, RecordKnown, SnapshotsHold,
         NEW w \in Workers, StepKinds(w)
  PROVE  SnapshotsHold'
<1> SUFFICES ASSUME NEW v \in Workers, NEW t \in Tasks
             PROVE  /\ snap'[v][t] # "absent" => rec'[t] # "absent"
                    /\ snap'[v][t] \in Terminal => rec'[t] = snap'[v][t]
                    /\ t \in cand'[v] => snap'[v][t] = "pending"
  BY DEF SnapshotsHold
<1>1. /\ rec[t] # "absent" => rec'[t] # "absent"
      /\ rec[t] \in Terminal => rec'[t] = rec[t]
  BY RecordsAdvance DEF Terminal
<1>2. CASE snap'[v] = snap[v] /\ (t \in cand'[v] => t \in cand[v])
  BY <1>1, <1>2 DEF SnapshotsHold, Terminal
<1>3. CASE v # w
  BY <1>2, <1>3, OthersKeep
<1>4. CASE v = w
  <2> USE DEF TypeOK, Goto, locals
  <2>1. CASE LoadTasks(w)
    <3>1. snap'[w] = rec /\ cand'[w] = Runnable(rec) /\ rec' = rec
      BY <2>1 DEF LoadTasks
    <3>. QED
      BY <1>4, <3>1 DEF Runnable
  <2>2. CASE TurnToBlocked(w)
    <3>1. snap'[w] = snap[w] /\ cand'[w] = Blocked(snap[w]) /\ rec' = rec
      BY <2>2 DEF TurnToBlocked
    <3>. QED
      BY <1>4, <3>1 DEF Blocked, SnapshotsHold
  <2>3. CASE TryClaim(w) \/ Recheck(w)
    BY <1>2, <1>4, <2>3 DEF TryClaim, Win, PassOver, Recheck, Keep, PutBack
  <2>4. CASE PublishCheck(w) \/ PublishWrite(w) \/ PublishDone(w) \/ LimitReached(w)
             \/ Idle(w) \/ Start(w) \/ SkipTask(w) \/ ReleaseTask(w)
    BY <1>2, <1>4, <2>4 DEF PublishCheck, PublishWrite, PublishDone, LimitReached,
      Idle, Start, SkipTask, ReleaseTask
  <2>5. CASE Finish(w, "done") \/ Finish(w, "failed") \/ BeatBegin(w) \/ BeatEnd(w)
             \/ Crash(w) \/ Abort(w)
    BY <1>2, <1>4, <2>5 DEF Finish, BeatBegin, BeatEnd, Crash, Abort
  <2>. QED
    BY <2>1, <2>2, <2>3, <2>4, <2>5 DEF StepKinds
<1>. QED
  BY <1>3, <1>4

\* A lease held between claim and write is out of every other worker's reach.
LEMMA HeldLeaseKept ==
  ASSUME TypeOK, CurOK, LeaseHeld, NEW w \in Workers, StepKinds(w),
         NEW v \in Workers, v # w, Committing(v)
  PROVE  cur[v] \in Tasks /\ leases'[cur[v]] = leases[cur[v]]
<1>1. cur[v] \in Tasks
  BY DEF CurOK, Busy, Gone, Committing
<1>2. ~Claimable(cur[v], w)
  BY DEF Claimable, LeaseHeld
<1>. QED
  BY <1>1, <1>2, LeaseChanges

(* A worker between its claim and its record write keeps the lease.         *)
LEMMA LeaseHeldStep ==
  ASSUME TypeOK, CurOK, PublisherKnows, RecordKnown, SnapshotsHold, LeaseHeld,
         NEW w \in Workers, StepKinds(w)
  PROVE  LeaseHeld'
<1> SUFFICES ASSUME NEW v \in Workers, Committing(v)'
             PROVE  /\ leases'[cur'[v]].owner = v
                    /\ leases'[cur'[v]].left > 0
                    /\ rec'[cur'[v]] # "absent"
  BY DEF LeaseHeld
<1>1. \A t \in Tasks : rec[t] # "absent" => rec'[t] # "absent"
  BY RecordsAdvance DEF Terminal
<1>2. CASE v # w
  <2>1. Committing(v) /\ cur'[v] = cur[v]
    BY <1>2, OthersKeep DEF Committing
  <2>. QED
    BY <1>1, <1>2, <2>1, HeldLeaseKept DEF LeaseHeld
<1>3. CASE v = w /\ Committing(w) /\ cur'[w] = cur[w] /\ leases' = leases
  <2>1. cur[w] \in Tasks
    BY <1>3 DEF CurOK, Busy, Gone, Committing
  <2>. QED
    BY <1>1, <1>3, <2>1 DEF LeaseHeld
<1>4. CASE v = w
  <2> USE DEF Goto, locals
  <2>1. pc \in [Workers -> Stages] /\ cur \in [Workers -> Tasks \cup {NoTask}]
    BY DEF TypeOK
  <2>2. CASE TryClaim(w)
    <3>1. PICK t \in Tasks : IsFirst(t, cand[w]) /\ (Win(w, t) \/ PassOver(w, t))
      BY <2>2 DEF TryClaim
    <3>2. pc[w] \in {"try_run", "try_skip"} /\ rec' = rec
      BY <2>2 DEF TryClaim
    <3>3. Win(w, t)
      BY <1>4, <3>1, <3>2 DEF PassOver, Committing
    <3>4. cur'[w] = t /\ leases'[t] = [owner |-> w, left |-> TTL]
      BY <2>1, <3>3, GrantFacts DEF Win, TypeOK
    <3>5. rec[t] # "absent"
      BY <3>1 DEF IsFirst, SnapshotsHold
    <3>. QED
      BY <1>4, <3>2, <3>4, <3>5
  <2>3. CASE Recheck(w)
    <3>1. pc[w] \in {"check_run", "check_skip"}
      BY <2>3 DEF Recheck
    <3>2. Keep(w)
      BY <1>4, <2>1, <2>3, <3>1 DEF Recheck, PutBack, Committing
    <3>. QED
      BY <1>3, <1>4, <3>1, <3>2 DEF Keep, Committing
  <2>4. CASE BeatEnd(w)
    <3>1. Committing(w) /\ cur'[w] = cur[w] /\ rec' = rec
      BY <1>4, <2>4 DEF BeatEnd, Committing
    <3>2. cur[w] \in Tasks /\ beat[w] \in Tasks
      BY <2>4, <3>1 DEF CurOK, Busy, Gone, Committing, BeatEnd, TypeOK
    <3>3. leases' = leases \/ Grant(beat[w], w, TTL)
      BY <2>4 DEF BeatEnd
    <3>4. leases[cur[w]].owner = w /\ leases[cur[w]].left > 0
      BY <3>1 DEF LeaseHeld
    <3>5. Grant(beat[w], w, TTL) =>
            \/ leases'[cur[w]] = leases[cur[w]]
            \/ leases'[cur[w]] = [owner |-> w, left |-> TTL]
      BY <3>2, GrantFacts DEF TypeOK
    <3>6. leases'[cur[w]].owner = w /\ leases'[cur[w]].left > 0
      BY <3>3, <3>4, <3>5
    <3>. QED
      BY <1>1, <1>4, <3>1, <3>2, <3>6 DEF LeaseHeld
  <2>5. CASE BeatBegin(w)
    BY <1>3, <1>4, <2>5 DEF BeatBegin, Committing
  <2>6. CASE PublishCheck(w) \/ PublishWrite(w) \/ PublishDone(w) \/ LoadTasks(w)
             \/ LimitReached(w) \/ TurnToBlocked(w) \/ Idle(w)
    BY <1>4, <2>1, <2>6 DEF Committing, PublishCheck, PublishWrite, PublishDone, LoadTasks,
      LimitReached, TurnToBlocked, Idle
  <2>7. CASE Start(w) \/ SkipTask(w) \/ ReleaseTask(w) \/ Finish(w, "done")
             \/ Finish(w, "failed") \/ Crash(w) \/ Abort(w)
    BY <1>4, <2>1, <2>7 DEF Committing, Start, SkipTask, ReleaseTask, Finish, Crash, Abort
  <2>. QED
    BY <2>2, <2>3, <2>4, <2>5, <2>6, <2>7 DEF StepKinds
<1>. QED
  BY <1>2, <1>4

\* Two workers past the claim of one task are one worker.
LEMMA OneCommitter ==
  ASSUME LeaseHeld, NEW v \in Workers, NEW w \in Workers,
         Committing(v), Committing(w), cur[v] = cur[w]
  PROVE  v = w
  BY DEF LeaseHeld

(* The record stays what the stage of the worker takes it for.              *)
LEMMA RecordKnownStep ==
  ASSUME TypeOK, CurOK, PublisherKnows, RecordKnown, LeaseHeld, OneRunner,
         NEW w \in Workers, StepKinds(w)
  PROVE  RecordKnown'
<1> SUFFICES ASSUME NEW v \in Workers
             PROVE  /\ pc'[v] \in {"start", "skip"} => rec'[cur'[v]] = "pending"
                    /\ pc'[v] = "running" => rec'[cur'[v]] = "running"
                    /\ pc'[v] \in {"release_done", "release_failed"} =>
                         rec'[cur'[v]] \in Terminal
  BY DEF RecordKnown
<1>1. CASE v # w
  <2>1. pc'[v] = pc[v] /\ cur'[v] = cur[v]
    BY <1>1, OthersKeep
  <2> SUFFICES ASSUME pc[v] \in {"start", "skip", "running", "release_done", "release_failed"},
                      rec'[cur[v]] # rec[cur[v]]
               PROVE  FALSE
    BY <2>1 DEF RecordKnown
  <2>2. cur[v] \in Tasks
    BY DEF CurOK, Busy, Gone
  <2>3. cur[v] = cur[w] /\ pc[w] \in {"write", "start", "skip", "running"}
    BY <2>2, RecordChanges
  <2>4. pc[v] \notin {"release_done", "release_failed"}
    BY <2>2, RecordsAdvance DEF RecordKnown, Terminal
  <2>5. CASE pc[v] = "running"
    <3>0. rec[cur[w]] = "running"
      BY <2>3, <2>5 DEF RecordKnown
    <3>1. pc[w] = "running"
      BY <2>3, <3>0 DEF RecordKnown, PublisherKnows
    <3>. QED
      BY <1>1, <2>3, <2>5, <3>1 DEF OneRunner
  <2>6. CASE pc[v] \in {"start", "skip"}
    <3>0. rec[cur[w]] = "pending"
      BY <2>3, <2>6 DEF RecordKnown
    <3>1. pc[w] \in {"start", "skip"}
      BY <2>3, <3>0 DEF RecordKnown, PublisherKnows
    <3>. QED
      BY <1>1, <2>3, <2>6, <3>1, OneCommitter DEF Committing
  <2>. QED
    BY <2>4, <2>5, <2>6
<1>2. CASE v = w
  <2> USE DEF TypeOK, Goto, locals
  <2>1. CASE Recheck(w)
    <3>1. pc[w] \in {"check_run", "check_skip"} /\ rec' = rec
      BY <2>1 DEF Recheck
    <3>2. CASE Keep(w)
      <4>1. cur'[w] = cur[w] /\ rec[cur[w]] \in {"pending", "absent"}
            /\ pc'[w] \in {"start", "skip"}
        BY <3>1, <3>2 DEF Keep
      <4>2. rec[cur[w]] # "absent"
        BY <3>1 DEF LeaseHeld, Committing
      <4>. QED
        BY <1>2, <3>1, <4>1, <4>2
    <3>3. CASE PutBack(w)
      BY <1>2, <3>1, <3>3 DEF PutBack
    <3>. QED
      BY <2>1, <3>2, <3>3 DEF Recheck
  <2>2. CASE Start(w) \/ SkipTask(w)
    <3>1. cur[w] \in Tasks
      BY <2>2 DEF CurOK, Busy, Gone, Start, SkipTask
    <3>. QED
      BY <1>2, <2>2, <3>1 DEF Start, SkipTask, Terminal
  <2>3. CASE Finish(w, "done") \/ Finish(w, "failed")
    <3>1. cur[w] \in Tasks
      BY <2>3 DEF CurOK, Busy, Gone, Finish
    <3>. QED
      BY <1>2, <2>3, <3>1 DEF Finish, Terminal
  <2>4. CASE BeatBegin(w) \/ BeatEnd(w)
    BY <1>2, <2>4 DEF BeatBegin, BeatEnd, RecordKnown
  <2>5. CASE PublishCheck(w) \/ PublishWrite(w) \/ PublishDone(w) \/ LoadTasks(w)
             \/ LimitReached(w) \/ TurnToBlocked(w) \/ Idle(w)
    <3>1. CASE PublishCheck(w)
      BY <1>2, <3>1 DEF PublishCheck
    <3>2. CASE PublishWrite(w) \/ PublishDone(w)
      BY <1>2, <3>2 DEF PublishWrite, PublishDone
    <3>3. CASE LoadTasks(w) \/ LimitReached(w)
      BY <1>2, <3>3 DEF LoadTasks, LimitReached
    <3>4. CASE TurnToBlocked(w) \/ Idle(w)
      BY <1>2, <3>4 DEF TurnToBlocked, Idle
    <3>. QED
      BY <2>5, <3>1, <3>2, <3>3, <3>4
  <2>6. CASE TryClaim(w) \/ ReleaseTask(w) \/ Crash(w) \/ Abort(w)
    BY <1>2, <2>6 DEF TryClaim, Win, PassOver, ReleaseTask, Crash, Abort
  <2>. QED
    BY <2>1, <2>2, <2>3, <2>4, <2>5, <2>6 DEF StepKinds
<1>. QED
  BY <1>1, <1>2

(* No second worker comes to run a task that is running.                    *)
LEMMA OneRunnerStep ==
  ASSUME TypeOK, CurOK, RecordKnown, OneRunner, NEW w \in Workers, StepKinds(w)
  PROVE  OneRunner'
<1>1. \A v \in Workers : pc'[v] = "running" =>
        \/ pc[v] = "running" /\ cur'[v] = cur[v]
        \/ v = w /\ rec[cur'[v]] = "pending"
  <2> SUFFICES ASSUME NEW v \in Workers, pc'[v] = "running"
               PROVE  \/ pc[v] = "running" /\ cur'[v] = cur[v]
                      \/ v = w /\ rec[cur'[v]] = "pending"
    OBVIOUS
  <2>1. CASE v # w
    BY <2>1, OthersKeep
  <2>2. CASE v = w
    <3> USE DEF TypeOK, Goto, locals
    <3>1. CASE Start(w)
      BY <2>2, <3>1 DEF Start, RecordKnown
    <3>2. CASE BeatBegin(w) \/ BeatEnd(w)
      BY <2>2, <3>2 DEF BeatBegin, BeatEnd
    <3>3. CASE PublishCheck(w) \/ PublishWrite(w) \/ PublishDone(w) \/ LoadTasks(w)
               \/ LimitReached(w) \/ TurnToBlocked(w) \/ Idle(w)
      BY <2>2, <3>3 DEF PublishCheck, PublishWrite, PublishDone, LoadTasks,
        LimitReached, TurnToBlocked, Idle
    <3>4. CASE TryClaim(w) \/ Recheck(w)
      BY <2>2, <3>4 DEF TryClaim, Win, PassOver, Recheck, Keep, PutBack
    <3>5. CASE SkipTask(w) \/ ReleaseTask(w) \/ Finish(w, "done") \/ Finish(w, "failed")
               \/ Crash(w) \/ Abort(w)
      BY <2>2, <3>5 DEF SkipTask, ReleaseTask, Finish, Crash, Abort
    <3>. QED
      BY <3>1, <3>2, <3>3, <3>4, <3>5 DEF StepKinds
  <2>. QED
    BY <2>1, <2>2
<1>. QED
  BY <1>1 DEF OneRunner, RecordKnown

\* An agent is started only on a record that is pending, so never started before.
LEMMA RunsStep ==
  ASSUME TypeOK, CurOK, PublisherKnows, RecordKnown, RunsCounted,
         NEW w \in Workers, StepKinds(w)
  PROVE  RunsCounted'
<1> SUFFICES ASSUME NEW t \in Tasks
             PROVE  /\ rec'[t] \in {"absent", "pending"} => runs'[t] = 0
                    /\ runs'[t] <= 1
  BY DEF RunsCounted
<1>1. rec'[t] \in {"absent", "pending"} => rec[t] \in {"absent", "pending"}
  BY RecordsAdvance DEF Terminal
<1>2. CASE runs' = runs
  BY <1>1, <1>2 DEF RunsCounted
<1>3. CASE Start(w)
  <2>1. cur[w] \in Tasks /\ rec[cur[w]] = "pending"
    BY <1>3 DEF Start, CurOK, Busy, Gone, RecordKnown
  <2>2. runs[cur[w]] = 0
    BY <2>1 DEF RunsCounted
  <2>3. rec' = [rec EXCEPT ![cur[w]] = "running"]
    BY <1>3 DEF Start
  <2>4. runs' = [runs EXCEPT ![cur[w]] = runs[cur[w]] + 1]
    BY <1>3 DEF Start
  <2>5. CASE t = cur[w]
    <3>1. rec'[t] = "running"
      BY <2>1, <2>3, <2>5 DEF TypeOK
    <3>2. runs'[t] = 1
      BY <2>1, <2>2, <2>4, <2>5 DEF TypeOK
    <3>. QED
      BY <3>1, <3>2
  <2>6. CASE t # cur[w]
    <3>1. runs'[t] = runs[t]
      BY <2>4, <2>6 DEF TypeOK
    <3>. QED
      BY <1>1, <3>1 DEF RunsCounted
  <2>. QED
    BY <2>5, <2>6
<1>4. CASE ~Start(w)
  <2>1. runs' = runs
    BY <1>4 DEF StepKinds, PublishCheck, PublishWrite, PublishDone, LoadTasks, LimitReached,
      TryClaim, Recheck, TurnToBlocked, Idle, SkipTask, ReleaseTask, Finish, BeatBegin,
      BeatEnd, Crash, Abort
  <2>. QED
    BY <1>2, <2>1
<1>. QED
  BY <1>3, <1>4

-------------------------------------------------------------------------------
(* Time, and the whole invariant *)

(* Under Prompt, time passes without a lease running out before its write.  *)
LEMMA TickStep ==
  ASSUME FleetInv, Prompt, Tick
  PROVE  FleetInv'
<1>1. LeasesTypeOK' /\ UNCHANGED <<rec, pc, todo, cur, snap, cand, idle, tally, beat, runs, crashes>>
  BY ElapseFacts DEF Tick, FleetInv, TypeOK, LeasesTypeOK, locals
<1>2. TypeOK'
  BY <1>1 DEF FleetInv, TypeOK
<1>3. LeaseHeld'
  <2> SUFFICES ASSUME NEW w \in Workers, Committing(w)
               PROVE  leases'[cur[w]].owner = w /\ leases'[cur[w]].left > 0
    BY <1>1 DEF LeaseHeld, Committing, FleetInv
  <2>1. cur[w] \in Tasks
    BY DEF FleetInv, Busy, Gone, Committing
  <2>2. leases[cur[w]].owner = w /\ leases[cur[w]].left > 1
    BY DEF Tick, FleetInv, LeaseHeld
  <2>. QED
    BY <2>1, <2>2, ElapseFacts DEF Tick, FleetInv, TypeOK
<1>4. /\ \A w \in Workers : Busy(w)' => cur'[w] \in Tasks
      /\ SnapshotsHold' /\ RecordKnown' /\ OneRunner' /\ RunsCounted'
  BY <1>1 DEF FleetInv, Busy, SnapshotsHold, RecordKnown, OneRunner, RunsCounted
<1>5. PublisherKnows'
  BY <1>1 DEF FleetInv, PublisherKnows, Publishes
<1>. QED
  BY <1>2, <1>3, <1>4, <1>5 DEF FleetInv

\* The invariant holds at the start.
LEMMA FleetInit ==
  ASSUME Init
  PROVE  FleetInv
<1>1. TypeOK
  BY LocalAssumption DEF Init, TypeOK, LeasesInit, LeasesTypeOK, Lease, Free, Statuses, Stages
<1>2. PublisherKnows
  BY DEF Init, PublisherKnows, Publishes
<1>. QED
  BY <1>1, <1>2 DEF Init, FleetInv, Busy, SnapshotsHold, LeaseHeld, RecordKnown, OneRunner,
    RunsCounted, Committing, Terminal

(* Every step of the fleet keeps the invariant.                             *)
LEMMA FleetStep ==
  ASSUME FleetInv, Prompt, PublishedOnce, [Next]_vars
  PROVE  FleetInv'
<1>1. CASE \E w \in Workers : StepKinds(w)
  <2>1. PICK w \in Workers : StepKinds(w)
    BY <1>1
  <2>2. /\ TypeOK /\ CurOK /\ PublisherKnows /\ SnapshotsHold /\ LeaseHeld /\ RecordKnown
        /\ OneRunner /\ RunsCounted
    BY DEF FleetInv, CurOK
  <2>3. TypeOK' /\ CurOK' /\ PublisherKnows' /\ SnapshotsHold'
    BY <2>1, <2>2, TypingStep, CurStep, PublisherStep, SnapshotsStep
  <2>4. LeaseHeld' /\ RecordKnown' /\ OneRunner' /\ RunsCounted'
    BY <2>1, <2>2, LeaseHeldStep, RecordKnownStep, OneRunnerStep, RunsStep
  <2>. QED
    BY <2>3, <2>4 DEF FleetInv, CurOK
<1>2. CASE UNCHANGED vars
  BY <1>2 DEF vars, FleetInv, TypeOK, LeasesTypeOK, Busy, PublisherKnows, Publishes,
    SnapshotsHold, LeaseHeld, Committing, RecordKnown, OneRunner, RunsCounted
<1>. QED
  BY <1>1, <1>2, NextKinds, TickStep

(* The inductive invariant of the fleet: between its claim and its write a *)
(* worker owns a live lease and knows the record, so nobody else moves it. *)
THEOREM FleetInvHolds ==
  ASSUME Prompt, PublishedOnce
  PROVE  Spec => []FleetInv
  BY FleetInit, FleetStep, PTL DEF Spec

(* No task is ever run twice, for any number of workers and tasks.         *)
THEOREM RunOnceHolds ==
  ASSUME Prompt, PublishedOnce
  PROVE  Spec => []RunOnce
<1>1. FleetInv => RunOnce
  BY DEF FleetInv, RunsCounted, RunOnce
<1>. QED
  BY <1>1, FleetInvHolds, PTL

(* A record that is done or failed is never written again.                 *)
THEOREM FinalStaysHolds ==
  ASSUME Prompt, PublishedOnce
  PROVE  Spec => FinalStays
<1>1. FleetInv /\ [Next]_vars => [\A t \in Tasks : rec[t] \in Terminal => rec'[t] = rec[t]]_vars
  <2> SUFFICES ASSUME FleetInv, [Next]_vars, NEW t \in Tasks, rec[t] \in Terminal
               PROVE  rec'[t] = rec[t]
    OBVIOUS
  <2>1. CASE \E w \in Workers : StepKinds(w)
    BY <2>1, RecordsAdvance DEF FleetInv, CurOK, Terminal
  <2>2. CASE Tick \/ UNCHANGED vars
    BY <2>2 DEF Tick, vars
  <2>. QED
    BY <2>1, <2>2, NextKinds
<1>. QED
  BY <1>1, FleetInvHolds, PTL DEF Spec, FinalStays

-------------------------------------------------------------------------------
(* The task graph *)

\* A process creates a task after the tasks it waits for, as Plan.to_tasks does, in
\* dependency order: in the list _publish walks, prerequisites come first.
PrerequisitesFirst ==
  \A w \in Workers : \A i \in 1..Len(Local[w]) : \A d \in Deps[Local[w][i]] :
    \E j \in 1..(i - 1) : Local[w][j] = d

\* How many of its local tasks a worker has looked at.
Viewed(w) == Len(Local[w]) - Len(todo[w])

\* The tasks a live worker has looked at have a record, but for the one it is
\* about to write.
Progress ==
  \A w \in Workers :
    /\ Len(todo[w]) <= Len(Local[w])
    /\ \A i \in 1..Len(todo[w]) : todo[w][i] = Local[w][i + Viewed(w)]
    /\ pc[w] = "write" => Viewed(w) > 0 /\ cur[w] = Local[w][Viewed(w)]
    /\ pc[w] \notin {"publish", "write", "dead"} => todo[w] = <<>>
    /\ pc[w] # "dead" =>
         \A i \in 1..Viewed(w) :
           rec[Local[w][i]] # "absent" \/ (pc[w] = "write" /\ i = Viewed(w))

\* A task is never in the queue without its prerequisites.
QueueClosed == \A t \in Tasks : rec[t] # "absent" => \A d \in Deps[t] : rec[d] # "absent"

AllDone(t) == \A d \in Deps[t] : rec[d] = "done"
SomeFailed(t) == \E d \in Deps[t] : rec[d] = "failed"

\* What a worker has decided to run or to write off is still so.
ClaimsReady ==
  \A w \in Workers :
    /\ pc[w] \in {"try_run", "check_run"} => \A t \in cand[w] : AllDone(t)
    /\ pc[w] \in {"check_run", "start", "running"} => AllDone(cur[w])
    /\ pc[w] \in {"try_skip", "check_skip"} => \A t \in cand[w] : SomeFailed(t)
    /\ pc[w] \in {"check_skip", "skip"} => SomeFailed(cur[w])

RunsKnown == \A t \in Tasks : rec[t] = "running" => runs[t] > 0

GraphInv == Progress /\ QueueClosed /\ ClaimsReady /\ RunsKnown /\ SkippedForCause

\* The tasks looked at are an initial part of the list.
LEMMA ViewedWithin ==
  ASSUME TypeOK, NEW w \in Workers
  PROVE  /\ Viewed(w) \in Int
         /\ 1..Viewed(w) \subseteq 1..Len(Local[w])
<1>1. Len(Local[w]) \in Nat /\ Len(todo[w]) \in Nat
  BY LocalAssumption, LenProperties DEF TypeOK
<1>2. \A a, b \in Nat : a - b \in Int /\ 1..(a - b) \subseteq 1..a
  OBVIOUS
<1>. QED
  BY <1>1, <1>2 DEF Viewed

\* What a step leaves of the records: nothing is taken back.
LEMMA RecordsLast ==
  ASSUME FleetInv, NEW w \in Workers, StepKinds(w), NEW t \in Tasks
  PROVE  /\ rec[t] # "absent" => rec'[t] # "absent"
         /\ rec[t] = "done" => rec'[t] = "done"
         /\ rec[t] = "failed" => rec'[t] = "failed"
  BY RecordsAdvance DEF FleetInv, CurOK, Terminal

\* A worker's list of local tasks only changes as it publishes.
LEMMA QueueWalk ==
  ASSUME TypeOK, NEW w \in Workers, StepKinds(w), ~PublishCheck(w)
  PROVE  /\ todo'[w] = todo[w]
         /\ pc'[w] = "write" => pc[w] = "write" /\ cur'[w] = cur[w]
         /\ pc[w] = "write" => pc'[w] = "write" \/ PublishWrite(w) \/ pc'[w] = "dead"
         /\ pc[w] = "dead" => pc'[w] = "dead"
         /\ pc'[w] \notin {"publish", "write", "dead"} =>
              pc[w] \notin {"publish", "write", "dead"} \/ todo[w] = <<>>
<1> USE DEF TypeOK, Goto, locals
<1>1. CASE PublishWrite(w) \/ PublishDone(w) \/ LoadTasks(w) \/ LimitReached(w)
  BY <1>1 DEF PublishWrite, PublishDone, LoadTasks, LimitReached
<1>2. CASE TryClaim(w) \/ Recheck(w)
  BY <1>2 DEF TryClaim, Win, PassOver, Recheck, Keep, PutBack
<1>3. CASE TurnToBlocked(w) \/ Idle(w) \/ Start(w) \/ SkipTask(w) \/ ReleaseTask(w)
  BY <1>3 DEF TurnToBlocked, Idle, Start, SkipTask, ReleaseTask
<1>4. CASE Finish(w, "done") \/ Finish(w, "failed") \/ Crash(w) \/ Abort(w)
  BY <1>4 DEF Finish, Crash, Abort, Gone
<1>5. CASE BeatBegin(w) \/ BeatEnd(w)
  BY <1>5 DEF BeatBegin, BeatEnd
<1>. QED
  BY <1>1, <1>2, <1>3, <1>4, <1>5 DEF StepKinds

(* Whoever steps, each worker's list is walked in order and what it has    *)
(* passed is in the queue.                                                 *)
LEMMA ProgressStep ==
  ASSUME FleetInv, Progress, NEW w \in Workers, StepKinds(w)
  PROVE  Progress'
<1> SUFFICES ASSUME NEW v \in Workers
    PROVE  /\ Len(todo'[v]) <= Len(Local[v])
           /\ \A i \in 1..Len(todo'[v]) : todo'[v][i] = Local[v][i + Viewed(v)']
           /\ pc'[v] = "write" => Viewed(v)' > 0 /\ cur'[v] = Local[v][Viewed(v)']
           /\ pc'[v] \notin {"publish", "write", "dead"} => todo'[v] = <<>>
           /\ pc'[v] # "dead" =>
                \A i \in 1..Viewed(v)' :
                  rec'[Local[v][i]] # "absent" \/ (pc'[v] = "write" /\ i = Viewed(v)')
  BY DEF Progress
<1>1. TypeOK /\ Local[v] \in Seq(Tasks) /\ todo[v] \in Seq(Tasks)
  BY LocalAssumption DEF FleetInv, TypeOK
<1>2. Len(Local[v]) \in Nat /\ Len(todo[v]) \in Nat
  BY <1>1, LenProperties
<1>3. \A i \in 1..Len(Local[v]) : Local[v][i] \in Tasks
  BY <1>1
<1>4. \A i \in 1..Len(Local[v]) : rec[Local[v][i]] # "absent" => rec'[Local[v][i]] # "absent"
  BY <1>3, RecordsLast
<1>5. CASE todo'[v] = todo[v] /\ pc'[v] = pc[v] /\ cur'[v] = cur[v]
  <2>1. Viewed(v)' = Viewed(v)
    BY <1>5 DEF Viewed
  <2>2. 1..Viewed(v) \subseteq 1..Len(Local[v])
    BY <1>1, ViewedWithin
  <2>. QED
    BY <1>4, <1>5, <2>1, <2>2 DEF Progress
<1>6. CASE v # w
  BY <1>1, <1>5, <1>6, OthersKeep
<1>7. CASE v = w /\ PublishCheck(w)
  <2>1. /\ pc[v] = "publish" /\ todo[v] # <<>> /\ todo'[v] = Tail(todo[v]) /\ rec' = rec
        /\ \/ pc'[v] = "write" /\ cur'[v] = Head(todo[v])
           \/ pc'[v] = "publish" /\ rec[Head(todo[v])] # "absent"
    BY <1>1, <1>7 DEF PublishCheck, TypeOK, Goto
  <2>2. /\ Len(todo[v]) > 0 /\ Len(todo'[v]) = Len(todo[v]) - 1 /\ Head(todo[v]) = todo[v][1]
        /\ \A i \in 1..Len(todo'[v]) : todo'[v][i] = todo[v][i + 1]
    BY <1>1, <2>1, HeadTailOfQueue
  <2>3. /\ Len(todo[v]) <= Len(Local[v])
        /\ \A i \in 1..Len(todo[v]) : todo[v][i] = Local[v][i + Viewed(v)]
        /\ \A i \in 1..Viewed(v) : rec[Local[v][i]] # "absent"
    BY <2>1 DEF Progress
  <2>4. Viewed(v)' = Viewed(v) + 1 /\ Viewed(v) \in Nat
    BY <1>2, <2>2, <2>3 DEF Viewed
  <2>5. Head(todo[v]) = Local[v][Viewed(v) + 1]
    BY <1>2, <2>2, <2>3, <2>4
  <2>6. \A i \in 1..Len(todo'[v]) : todo'[v][i] = Local[v][i + Viewed(v)']
    <3> SUFFICES ASSUME NEW i \in 1..Len(todo'[v])
                 PROVE  todo'[v][i] = Local[v][i + Viewed(v)']
      OBVIOUS
    <3>1. i + 1 \in 1..Len(todo[v]) /\ todo'[v][i] = todo[v][i + 1]
      BY <1>2, <2>2
    <3>2. todo[v][i + 1] = Local[v][(i + 1) + Viewed(v)]
      BY <2>3, <3>1
    <3>3. (i + 1) + Viewed(v) = i + Viewed(v)'
      BY <1>2, <2>2, <2>4
    <3>. QED
      BY <3>1, <3>2, <3>3
  <2>7. Len(todo'[v]) <= Len(Local[v]) /\ Viewed(v)' > 0
    BY <1>2, <2>2, <2>3, <2>4
  <2>8. \A i \in 1..Viewed(v)' :
          rec'[Local[v][i]] # "absent" \/ (pc'[v] = "write" /\ i = Viewed(v)')
    <3> SUFFICES ASSUME NEW i \in 1..Viewed(v)'
                 PROVE  rec[Local[v][i]] # "absent" \/ (pc'[v] = "write" /\ i = Viewed(v)')
      BY <2>1
    <3>1. i \in 1..Viewed(v) \/ i = Viewed(v) + 1
      BY <2>4
    <3>. QED
      BY <2>1, <2>3, <2>4, <2>5, <3>1
  <2>. QED
    BY <2>1, <2>4, <2>5, <2>6, <2>7, <2>8
<1>8. CASE v = w /\ ~PublishCheck(w)
  <2>1. /\ todo'[v] = todo[v] /\ Viewed(v)' = Viewed(v)
        /\ pc'[v] = "write" => pc[v] = "write" /\ cur'[v] = cur[v]
        /\ pc[v] = "write" => pc'[v] = "write" \/ PublishWrite(v) \/ pc'[v] = "dead"
        /\ pc[v] = "dead" => pc'[v] = "dead"
        /\ pc'[v] \notin {"publish", "write", "dead"} =>
             pc[v] \notin {"publish", "write", "dead"} \/ todo[v] = <<>>
    BY <1>1, <1>8, QueueWalk DEF Viewed
  <2>2. ASSUME pc'[v] # "dead", NEW i \in 1..Viewed(v)
        PROVE  rec'[Local[v][i]] # "absent" \/ (pc'[v] = "write" /\ i = Viewed(v))
    <3>1. rec[Local[v][i]] # "absent" \/ (pc[v] = "write" /\ i = Viewed(v))
      BY <2>1, <2>2 DEF Progress
    <3>2. i \in 1..Len(Local[v])
      BY <1>2, <2>2 DEF Viewed
    <3>3. CASE pc[v] = "write" /\ PublishWrite(v) /\ i = Viewed(v)
      <4>1. cur[v] = Local[v][i] /\ cur[v] \in Tasks
        BY <1>3, <3>2, <3>3 DEF Progress
      <4>. QED
        BY <1>1, <3>3, <4>1 DEF PublishWrite, TypeOK
    <3>. QED
      BY <1>4, <2>1, <2>2, <3>1, <3>2, <3>3
  <2>. QED
    BY <2>1, <2>2 DEF Progress
<1>. QED
  BY <1>6, <1>7, <1>8

(* A task gets its record after its prerequisites, so the prerequisites    *)
(* outside the loaded queue, which run() ignores, are none.                *)
LEMMA QueueClosedStep ==
  ASSUME FleetInv, PrerequisitesFirst, Progress, QueueClosed, NEW w \in Workers, StepKinds(w)
  PROVE  QueueClosed'
<1> SUFFICES ASSUME NEW t \in Tasks, rec'[t] # "absent", NEW d \in Deps[t]
             PROVE  rec'[d] # "absent"
  BY DEF QueueClosed
<1>1. d \in Tasks
  BY DepsAssumption
<1>2. CASE rec[t] # "absent"
  BY <1>1, <1>2, RecordsLast DEF QueueClosed
<1>3. CASE rec[t] = "absent"
  <2>1. TypeOK /\ pc[w] = "write" /\ t = cur[w]
    BY <1>3, RecordChanges DEF FleetInv, RecordKnown
  <2>2. Local[w] \in Seq(Tasks) /\ todo[w] \in Seq(Tasks) /\ Len(Local[w]) \in Nat /\ Len(todo[w]) \in Nat
    BY <2>1, LocalAssumption, LenProperties DEF TypeOK
  <2>3. t = Local[w][Viewed(w)] /\ Viewed(w) \in 1..Len(Local[w])
    <3>1. Viewed(w) > 0 /\ t = Local[w][Viewed(w)]
      BY <2>1 DEF Progress
    <3>. QED
      BY <2>1, <3>1, ViewedWithin
  <2>4. PICK j \in 1..(Viewed(w) - 1) : Local[w][j] = d
    BY <2>3 DEF PrerequisitesFirst
  <2>5. j \in 1..Viewed(w) /\ j # Viewed(w)
    BY <2>2, <2>3, <2>4
  <2>6. rec[d] # "absent"
    BY <2>1, <2>4, <2>5 DEF Progress
  <2>. QED
    BY <1>1, <2>6, RecordsLast
<1>. QED
  BY <1>2, <1>3

\* The same of the records after the step.
DoneNext(t) == \A d \in Deps[t] : rec'[d] = "done"
FailedNext(t) == \E d \in Deps[t] : rec'[d] = "failed"

\* What was ready, or hopeless, remains so.
LEMMA VerdictsLast ==
  ASSUME FleetInv, NEW w \in Workers, StepKinds(w), NEW t \in Tasks
  PROVE  /\ AllDone(t) => DoneNext(t)
         /\ SomeFailed(t) => FailedNext(t)
<1>1. Deps[t] \subseteq Tasks
  BY DepsAssumption
<1>. QED
  BY <1>1, RecordsLast DEF AllDone, SomeFailed, DoneNext, FailedNext

(* The decision to run a task, or to write it off, is still right when it  *)
(* is carried out, however old the snapshot it was taken on.               *)
LEMMA ClaimsReadyStep ==
  ASSUME FleetInv, QueueClosed, ClaimsReady, NEW w \in Workers, StepKinds(w)
  PROVE  ClaimsReady'
<1> SUFFICES ASSUME NEW v \in Workers
    PROVE  /\ pc'[v] \in {"try_run", "check_run"} => \A t \in cand'[v] : DoneNext(t)
           /\ pc'[v] \in {"check_run", "start", "running"} => DoneNext(cur'[v])
           /\ pc'[v] \in {"try_skip", "check_skip"} => \A t \in cand'[v] : FailedNext(t)
           /\ pc'[v] \in {"check_skip", "skip"} => FailedNext(cur'[v])
  BY DEF ClaimsReady, AllDone, SomeFailed, DoneNext, FailedNext
<1>1. /\ TypeOK /\ CurOK
      /\ cand[v] \in SUBSET Tasks /\ (Busy(v) => cur[v] \in Tasks)
  BY DEF FleetInv, TypeOK, CurOK
<1>2. /\ pc[v] \in {"try_run", "check_run"} => \A t \in cand[v] : DoneNext(t)
      /\ pc[v] \in {"check_run", "start", "running"} => DoneNext(cur[v])
      /\ pc[v] \in {"try_skip", "check_skip"} => \A t \in cand[v] : FailedNext(t)
      /\ pc[v] \in {"check_skip", "skip"} => FailedNext(cur[v])
  BY <1>1, VerdictsLast DEF ClaimsReady, Busy, Gone
<1>3. CASE v # w
  BY <1>1, <1>2, <1>3, OthersKeep
<1>4. CASE v = w
  <2> USE DEF Goto, locals
  <2>1. /\ pc \in [Workers -> Stages] /\ cur \in [Workers -> Tasks \cup {NoTask}]
        /\ cand \in [Workers -> SUBSET Tasks]
    BY <1>1 DEF TypeOK
  <2>2. CASE LoadTasks(w)
    <3>1. pc'[w] = "try_run" /\ cand'[w] = Runnable(rec) /\ rec' = rec
      BY <2>1, <2>2 DEF LoadTasks
    <3>2. \A t \in Runnable(rec) : \A d \in Deps[t] : rec[d] = "done"
      BY DepsAssumption DEF Runnable, DepsIn, Queued, QueueClosed
    <3>. QED
      BY <1>4, <3>1, <3>2 DEF DoneNext
  <2>3. CASE TurnToBlocked(w)
    <3>1. pc'[w] = "try_skip" /\ cand'[w] = Blocked(snap[w]) /\ rec' = rec
      BY <2>1, <2>3 DEF TurnToBlocked
    <3>2. \A t \in Blocked(snap[w]) : \E d \in Deps[t] : d \in Tasks /\ snap[w][d] = "failed"
      BY DEF Blocked, DepsIn, Queued
    <3>3. \A d \in Tasks : snap[w][d] = "failed" => rec[d] = "failed"
      BY DEF FleetInv, SnapshotsHold, Terminal
    <3>. QED
      BY <1>4, <3>1, <3>2, <3>3 DEF FailedNext
  <2>4. CASE TryClaim(w)
    <3>1. PICK t \in Tasks : IsFirst(t, cand[w]) /\ (Win(w, t) \/ PassOver(w, t))
      BY <2>4 DEF TryClaim
    <3>2. t \in cand[w] /\ pc[w] \in {"try_run", "try_skip"}
      BY <2>4, <3>1 DEF TryClaim, IsFirst
    <3>3. CASE Win(w, t)
      BY <1>2, <1>4, <2>1, <3>2, <3>3 DEF Win
    <3>4. CASE PassOver(w, t)
      BY <1>2, <1>4, <2>1, <3>2, <3>4 DEF PassOver
    <3>. QED
      BY <3>1, <3>3, <3>4
  <2>5. CASE Recheck(w)
    <3>1. pc[w] \in {"check_run", "check_skip"} /\ (Keep(w) \/ PutBack(w))
      BY <2>5 DEF Recheck
    <3>2. CASE Keep(w)
      BY <1>2, <1>4, <2>1, <3>1, <3>2 DEF Keep
    <3>3. CASE PutBack(w)
      BY <1>2, <1>4, <2>1, <3>1, <3>3 DEF PutBack
    <3>. QED
      BY <3>1, <3>2, <3>3
  <2>6. CASE BeatBegin(w) \/ BeatEnd(w)
    BY <1>2, <1>4, <2>6 DEF BeatBegin, BeatEnd
  <2>7. CASE Start(w)
    BY <1>2, <1>4, <2>1, <2>7 DEF Start
  <2>8. CASE PublishCheck(w) \/ PublishWrite(w) \/ PublishDone(w) \/ LimitReached(w) \/ Idle(w)
    BY <1>4, <2>1, <2>8 DEF PublishCheck, PublishWrite, PublishDone, LimitReached, Idle
  <2>9. CASE SkipTask(w) \/ ReleaseTask(w) \/ Finish(w, "done") \/ Finish(w, "failed")
             \/ Crash(w) \/ Abort(w)
    BY <1>4, <2>1, <2>9 DEF SkipTask, ReleaseTask, Finish, Crash, Abort
  <2>. QED
    BY <2>2, <2>3, <2>4, <2>5, <2>6, <2>7, <2>8, <2>9 DEF StepKinds
<1>. QED
  BY <1>3, <1>4

(* A run that is recorded has been counted, and only a task behind a failed *)
(* prerequisite fails without one.                                         *)
LEMMA SkippedStep ==
  ASSUME FleetInv, ClaimsReady, RunsKnown, SkippedForCause, NEW w \in Workers, StepKinds(w)
  PROVE  RunsKnown' /\ SkippedForCause'
<1>1. TypeOK /\ RecordKnown /\ CurOK
  BY DEF FleetInv, CurOK
<1>2. /\ \A t \in Tasks : runs'[t] >= runs[t] /\ runs[t] \in Nat /\ runs'[t] \in Nat
      /\ pc[w] = "start" /\ pc'[w] = "running" => runs'[cur[w]] > 0
  <2>1. CASE Start(w)
    <3>1. cur[w] \in Tasks /\ runs' = [runs EXCEPT ![cur[w]] = runs[cur[w]] + 1]
      BY <1>1, <2>1 DEF Start, CurOK, Busy, Gone
    <3>2. \A t \in Tasks : runs'[t] = IF t = cur[w] THEN runs[t] + 1 ELSE runs[t]
      BY <1>1, <3>1 DEF TypeOK
    <3>. QED
      BY <1>1, <3>1, <3>2 DEF TypeOK
  <2>2. CASE ~Start(w)
    <3>1. runs' = runs
      BY <2>2 DEF StepKinds, PublishCheck, PublishWrite, PublishDone, LoadTasks, LimitReached,
        TryClaim, Recheck, TurnToBlocked, Idle, SkipTask, ReleaseTask, Finish, BeatBegin,
        BeatEnd, Crash, Abort
    <3>2. ~(pc[w] = "start" /\ pc'[w] = "running")
      BY <1>1, <2>2 DEF StepKinds, PublishCheck, PublishWrite, PublishDone, LoadTasks,
        LimitReached, TryClaim, Recheck, TurnToBlocked, Idle, SkipTask, ReleaseTask, Finish,
        BeatBegin, BeatEnd, Crash, Abort, TypeOK, Goto
    <3>. QED
      BY <1>1, <3>1, <3>2 DEF TypeOK
  <2>. QED
    BY <2>1, <2>2
<1>3. ASSUME NEW t \in Tasks, rec'[t] = "running"
      PROVE  runs'[t] > 0
  <2>1. CASE rec[t] = "running"
    BY <1>2, <2>1 DEF RunsKnown
  <2>2. CASE rec[t] # "running"
    <3>1. t = cur[w] /\ pc[w] = "start" /\ pc'[w] = "running"
      BY <1>1, <1>3, <2>2, RecordChanges DEF Terminal
    <3>. QED
      BY <1>2, <3>1
  <2>. QED
    BY <2>1, <2>2
<1>4. ASSUME NEW t \in Tasks, rec'[t] = "failed", runs'[t] = 0
      PROVE  FailedNext(t)
  <2>1. runs[t] = 0
    BY <1>2, <1>4
  <2>2. CASE rec[t] = "failed"
    <3>1. SomeFailed(t)
      BY <2>1, <2>2 DEF SkippedForCause, SomeFailed
    <3>. QED
      BY <3>1, VerdictsLast
  <2>3. CASE rec[t] # "failed"
    <3>1. t = cur[w] /\ pc[w] \in {"skip", "running"}
      BY <1>1, <1>4, <2>3, RecordChanges
    <3>2. pc[w] # "running"
      BY <2>1, <3>1, <1>1 DEF RecordKnown, RunsKnown
    <3>3. SomeFailed(t)
      BY <3>1, <3>2 DEF ClaimsReady
    <3>. QED
      BY <3>3, VerdictsLast
  <2>. QED
    BY <2>2, <2>3
<1>. QED
  BY <1>3, <1>4 DEF RunsKnown, SkippedForCause, FailedNext

(* The invariant of the task graph is inductive.                           *)
LEMMA GraphInit ==
  ASSUME Init
  PROVE  GraphInv
<1>0. \A n \in Nat : n - n = 0 /\ 1..0 = {} /\ n <= n
  OBVIOUS
<1>1. \A w \in Workers : Len(Local[w]) \in Nat /\ Viewed(w) = 0
  BY <1>0, LocalAssumption, LenProperties DEF Init, Viewed
<1>2. Progress
  <2> SUFFICES ASSUME NEW w \in Workers
               PROVE  /\ Len(todo[w]) <= Len(Local[w])
                      /\ \A i \in 1..Len(todo[w]) : todo[w][i] = Local[w][i + Viewed(w)]
                      /\ pc[w] = "publish" /\ 1..Viewed(w) = {}
    BY DEF Progress
  <2>1. todo[w] = Local[w] /\ pc[w] = "publish"
    BY DEF Init
  <2>. QED
    BY <1>0, <1>1, <2>1
<1>. QED
  BY <1>2 DEF Init, GraphInv, QueueClosed, ClaimsReady, RunsKnown, SkippedForCause

(* Every step of the fleet keeps the graph invariant.                       *)
LEMMA GraphStep ==
  ASSUME FleetInv, GraphInv, PrerequisitesFirst, [Next]_vars
  PROVE  GraphInv'
<1>1. CASE \E w \in Workers : StepKinds(w)
  BY <1>1, ProgressStep, QueueClosedStep, ClaimsReadyStep, SkippedStep DEF GraphInv
<1>2. CASE UNCHANGED <<rec, pc, todo, cur, cand, runs>>
  <2>1. Progress => Progress'
    <3>1. rec' = rec /\ pc' = pc /\ todo' = todo /\ cur' = cur
      BY <1>2
    <3>2. \A w \in Workers : Viewed(w)' = Viewed(w)
      BY <3>1 DEF Viewed
    <3>. QED
      BY <3>1, <3>2 DEF Progress
  <2>2. ClaimsReady => ClaimsReady'
    BY <1>2 DEF ClaimsReady, AllDone, SomeFailed
  <2>3. QueueClosed /\ RunsKnown /\ SkippedForCause => (QueueClosed /\ RunsKnown /\ SkippedForCause)'
    BY <1>2 DEF QueueClosed, RunsKnown, SkippedForCause
  <2>. QED
    BY <2>1, <2>2, <2>3 DEF GraphInv
<1>. QED
  BY <1>1, <1>2, NextKinds DEF Tick, vars, locals

(* A worker keeps to the task graph: what it runs has all its              *)
(* prerequisites done, what it writes off has one that failed.             *)
THEOREM DependenciesKeptHolds ==
  ASSUME Prompt, PublishedOnce, PrerequisitesFirst
  PROVE  Spec => []DependenciesKept
<1>1. Spec => []GraphInv
  BY FleetInvHolds, GraphInit, GraphStep, PTL DEF Spec
<1>2. GraphInv => DependenciesKept
  BY DEF GraphInv, ClaimsReady, AllDone, DependenciesKept, ReadyWhenRunning
<1>. QED
  BY <1>1, <1>2, PTL

-------------------------------------------------------------------------------
(* What the workers leave behind *)

\* Between two tasks a worker holds none.
HandsEmpty == \A w \in Workers : ~Busy(w) /\ pc[w] # "dead" => cur[w] = NoTask

\* A lease runs for somebody, and only on a task that has a record.
LeasesTell ==
  \A t \in Tasks : /\ leases[t].owner = NoWorker => leases[t].left = 0
                   /\ leases[t].owner # NoWorker => rec[t] # "absent"

\* A beat in flight is for the task being run or for one that is finished.
BeatsTell ==
  \A w \in Workers :
    beat[w] # NoTask =>
      /\ rec[beat[w]] # "absent"
      /\ \/ pc[w] = "dead"
         \/ pc[w] = "running" /\ cur[w] = beat[w]
         \/ rec[beat[w]] \in Terminal

LockInv == HandsEmpty /\ LeasesTell /\ BeatsTell /\ NoIdleLock

\* The task a worker has in hand changes when it takes or leaves one.
LEMMA HandsStep ==
  ASSUME FleetInv, HandsEmpty, NEW w \in Workers, StepKinds(w)
  PROVE  HandsEmpty'
<1> SUFFICES ASSUME NEW v \in Workers, ~Busy(v)', pc'[v] # "dead"
             PROVE  cur'[v] = NoTask
  BY DEF HandsEmpty
<1>1. TypeOK /\ (~Busy(v) /\ pc[v] # "dead" => cur[v] = NoTask)
  BY DEF FleetInv, HandsEmpty
<1>2. CASE v # w
  BY <1>1, <1>2, OthersKeep DEF Busy
<1>3. CASE v = w
  <2> USE DEF Goto, locals, Busy, Gone
  <2>1. pc \in [Workers -> Stages] /\ cur \in [Workers -> Tasks \cup {NoTask}]
    BY <1>1 DEF TypeOK
  <2>2. CASE PublishCheck(w) \/ PublishWrite(w) \/ PublishDone(w) \/ LoadTasks(w) \/ LimitReached(w)
    BY <1>1, <1>3, <2>1, <2>2 DEF PublishCheck, PublishWrite, PublishDone, LoadTasks, LimitReached
  <2>3. CASE TryClaim(w) \/ Recheck(w)
    BY <1>1, <1>3, <2>1, <2>3 DEF TryClaim, Win, PassOver, Recheck, Keep, PutBack
  <2>4. CASE TurnToBlocked(w) \/ Idle(w) \/ Start(w) \/ SkipTask(w) \/ ReleaseTask(w)
    BY <1>1, <1>3, <2>1, <2>4 DEF TurnToBlocked, Idle, Start, SkipTask, ReleaseTask
  <2>5. CASE Finish(w, "done") \/ Finish(w, "failed") \/ Crash(w) \/ Abort(w)
    BY <1>1, <1>3, <2>1, <2>5 DEF Finish, Crash, Abort
  <2>6. CASE BeatBegin(w) \/ BeatEnd(w)
    BY <1>1, <1>3, <2>6 DEF BeatBegin, BeatEnd
  <2>. QED
    BY <2>2, <2>3, <2>4, <2>5, <2>6 DEF StepKinds
<1>. QED
  BY <1>2, <1>3

(* The kinds of change a step makes to a lease: won with the task, renewed *)
(* by a beat, or dropped.                                                  *)
LEMMA LeaseKinds ==
  ASSUME FleetInv, NEW w \in Workers, StepKinds(w), NEW t \in Tasks
  PROVE  \/ leases'[t] = leases[t]
         \/ leases'[t] = Free
         \/ /\ leases'[t] = [owner |-> w, left |-> TTL]
            /\ \/ t \in cand[w] /\ cur'[w] = t /\ pc'[w] \in {"check_run", "check_skip"}
               \/ beat[w] = t
<1>1. TypeOK /\ CurOK
  BY DEF FleetInv, CurOK
<1> USE DEF Goto, locals
<1>2. /\ leases \in [Tasks -> Lease] /\ cur \in [Workers -> Tasks \cup {NoTask}]
      /\ pc \in [Workers -> Stages]
  BY <1>1 DEF TypeOK, LeasesTypeOK
<1>3. \A u : Release(u, w) => leases'[t] \in {leases[t], Free}
  BY <1>2 DEF Release
<1>4. CASE TryClaim(w)
  <2>1. PICK u \in Tasks : IsFirst(u, cand[w]) /\ (Win(w, u) \/ PassOver(w, u))
    BY <1>4 DEF TryClaim
  <2>2. pc[w] \in {"try_run", "try_skip"} /\ u \in cand[w]
    BY <1>4, <2>1 DEF TryClaim, IsFirst
  <2>3. CASE Win(w, u)
    <3>1. leases' = [leases EXCEPT ![u] = [owner |-> w, left |-> TTL]]
      BY <2>3 DEF Win, Grant
    <3>2. cur'[w] = u /\ pc'[w] \in {"check_run", "check_skip"}
      BY <1>2, <2>2, <2>3 DEF Win
    <3>. QED
      BY <1>2, <2>2, <3>1, <3>2
  <2>4. CASE PassOver(w, u)
    BY <2>4 DEF PassOver
  <2>. QED
    BY <2>1, <2>3, <2>4
<1>5. CASE BeatEnd(w)
  <2>1. leases' = leases \/ leases' = [leases EXCEPT ![beat[w]] = [owner |-> w, left |-> TTL]]
    BY <1>5 DEF BeatEnd, Grant
  <2>. QED
    BY <1>2, <2>1
<1>6. CASE Recheck(w)
  BY <1>3, <1>6 DEF Recheck, Keep, PutBack
<1>7. CASE ReleaseTask(w) \/ Abort(w)
  BY <1>3, <1>7 DEF ReleaseTask, Abort
<1>8. CASE PublishCheck(w) \/ PublishWrite(w) \/ PublishDone(w) \/ LoadTasks(w) \/ LimitReached(w)
           \/ TurnToBlocked(w) \/ Idle(w) \/ Start(w) \/ SkipTask(w)
           \/ Finish(w, "done") \/ Finish(w, "failed") \/ BeatBegin(w) \/ Crash(w)
  BY <1>8 DEF PublishCheck, PublishWrite, PublishDone, LoadTasks, LimitReached,
    TurnToBlocked, Idle, Start, SkipTask, Finish, BeatBegin, Crash
<1>. QED
  BY <1>4, <1>5, <1>6, <1>7, <1>8 DEF StepKinds

(* Only tasks with a record are ever leased.                               *)
LEMMA LeasesTellStep ==
  ASSUME FleetInv, LeasesTell, BeatsTell, NEW w \in Workers, StepKinds(w)
  PROVE  LeasesTell'
<1> SUFFICES ASSUME NEW t \in Tasks
             PROVE  /\ leases'[t].owner = NoWorker => leases'[t].left = 0
                    /\ leases'[t].owner # NoWorker => rec'[t] # "absent"
  BY DEF LeasesTell
<1>1. CASE leases'[t] = leases[t]
  BY <1>1, RecordsLast DEF LeasesTell
<1>2. CASE leases'[t] = Free
  BY <1>2 DEF Free
<1>3. CASE leases'[t] = [owner |-> w, left |-> TTL] /\ (t \in cand[w] \/ beat[w] = t)
  <2>1. rec[t] # "absent"
    BY <1>3 DEF FleetInv, SnapshotsHold, BeatsTell
  <2>. QED
    BY <1>3, <2>1, RecordsLast
<1>. QED
  BY <1>1, <1>2, <1>3, LeaseKinds

\* When a beat starts, and what it leaves when it is over.
LEMMA BeatKinds ==
  ASSUME FleetInv, NEW w \in Workers, StepKinds(w), NEW v \in Workers, beat'[v] # NoTask
  PROVE  /\ beat'[v] = beat[v] \/ (v = w /\ BeatBegin(w) /\ beat'[w] = cur[w])
         /\ pc[v] = "dead" => pc'[v] = "dead"
         /\ pc[v] = "running" /\ cur[v] \in Tasks =>
              \/ pc'[v] = "running" /\ cur'[v] = cur[v]
              \/ pc'[v] = "dead"
              \/ rec'[cur[v]] \in Terminal
<1> USE DEF Goto, locals
<1>1. /\ TypeOK /\ beat \in [Workers -> Tasks \cup {NoTask}]
      /\ pc \in [Workers -> Stages]
  BY DEF FleetInv, TypeOK
<1>2. beat'[v] = beat[v] \/ (v = w /\ BeatBegin(w) /\ beat'[w] = cur[w])
  BY <1>1 DEF StepKinds, PublishCheck, PublishWrite, PublishDone, LoadTasks, LimitReached,
    TryClaim, Recheck, TurnToBlocked, Idle, Start, SkipTask, ReleaseTask, Finish, BeatBegin,
    BeatEnd, Crash, Abort
<1>3. CASE v # w
  BY <1>1, <1>2, <1>3, OthersKeep
<1>4. CASE v = w
  <2>1. pc[w] = "dead" => pc'[w] = "dead"
    BY <1>1 DEF StepKinds, PublishCheck, PublishWrite, PublishDone, LoadTasks, LimitReached,
      TryClaim, Recheck, TurnToBlocked, Idle, Start, SkipTask, ReleaseTask, Finish, BeatBegin,
      BeatEnd, Crash, Abort, Gone
  <2>2. CASE pc[w] = "running" /\ cur[w] \in Tasks
    <3>1. CASE Finish(w, "done") \/ Finish(w, "failed")
      BY <1>4, <2>2, <3>1 DEF Finish, FleetInv, TypeOK, Terminal
    <3>2. CASE BeatBegin(w) \/ BeatEnd(w) \/ Crash(w) \/ Abort(w)
      BY <1>1, <1>4, <2>2, <3>2 DEF BeatBegin, BeatEnd, Crash, Abort
    <3>3. StepKinds(w) => Finish(w, "done") \/ Finish(w, "failed") \/ BeatBegin(w) \/ BeatEnd(w)
                           \/ Crash(w) \/ Abort(w)
      BY <2>2 DEF StepKinds, PublishCheck, PublishWrite, PublishDone, LoadTasks, LimitReached,
        TryClaim, Recheck, TurnToBlocked, Idle, Start, SkipTask, ReleaseTask
    <3>. QED
      BY <1>2, <1>4, <2>1, <3>1, <3>2, <3>3
  <2>. QED
    BY <1>2, <1>4, <2>1, <2>2
<1>. QED
  BY <1>3, <1>4

(* A late beat can only be for a task that is over.                        *)
LEMMA BeatsStep ==
  ASSUME FleetInv, BeatsTell, NEW w \in Workers, StepKinds(w)
  PROVE  BeatsTell'
<1> SUFFICES ASSUME NEW v \in Workers, beat'[v] # NoTask
             PROVE  /\ rec'[beat'[v]] # "absent"
                    /\ \/ pc'[v] = "dead"
                       \/ pc'[v] = "running" /\ cur'[v] = beat'[v]
                       \/ rec'[beat'[v]] \in Terminal
  BY DEF BeatsTell
<1>0. beat \in [Workers -> Tasks \cup {NoTask}] /\ TypeOK /\ CurOK
  BY DEF FleetInv, TypeOK, CurOK
<1>1. CASE beat'[v] = beat[v]
  <2>1. beat[v] \in Tasks
    BY <1>0, <1>1
  <2>2. rec'[beat[v]] # "absent" /\ (rec[beat[v]] \in Terminal => rec'[beat[v]] \in Terminal)
    BY <1>1, <2>1, RecordsLast DEF BeatsTell, Terminal
  <2>. QED
    BY <1>1, <2>1, <2>2, BeatKinds DEF BeatsTell
<1>2. CASE v = w /\ BeatBegin(w) /\ beat'[w] = cur[w]
  <2>1. pc[w] = "running" /\ UNCHANGED <<rec, pc, cur>> /\ cur[w] \in Tasks
    BY <1>0, <1>2 DEF BeatBegin, locals, CurOK, Busy, Gone
  <2>. QED
    BY <1>2, <2>1 DEF FleetInv, RecordKnown
<1>. QED
  BY <1>1, <1>2, BeatKinds

\* A worker lets go of a task by releasing it, finished or back in the queue.
LEMMA LettingGo ==
  ASSUME FleetInv, HandsEmpty, LeasesTell, NEW w \in Workers, StepKinds(w), NEW t \in Tasks,
         cur[w] = t, cur'[w] # t, pc[w] # "dead"
  PROVE  \/ leases'[t].owner # w
         \/ rec'[t] \in Terminal
<1> USE DEF Goto, locals
<1>1. /\ TypeOK /\ Busy(w) /\ leases \in [Tasks -> Lease] /\ pc \in [Workers -> Stages]
  BY DEF FleetInv, TypeOK, LeasesTypeOK, HandsEmpty
<1>2. CASE PublishWrite(w)
  <2>1. rec[t] = "absent" /\ leases' = leases
    BY <1>2 DEF PublishWrite, FleetInv, PublisherKnows
  <2>. QED
    BY <2>1 DEF LeasesTell
<1>3. CASE Recheck(w)
  <2>1. PutBack(w)
    BY <1>3 DEF Recheck, Keep
  <2>2. leases' = [leases EXCEPT ![t] = Free]
    BY <1>3, <2>1 DEF PutBack, Release, Recheck, FleetInv, LeaseHeld, Committing
  <2>. QED
    BY <1>1, <2>2 DEF Free
<1>4. CASE ReleaseTask(w)
  BY <1>4 DEF ReleaseTask, FleetInv, RecordKnown
<1>5. CASE PublishCheck(w) \/ PublishDone(w) \/ LoadTasks(w) \/ LimitReached(w) \/ TryClaim(w)
           \/ TurnToBlocked(w) \/ Idle(w)
  BY <1>1, <1>5 DEF PublishCheck, PublishDone, LoadTasks, LimitReached, TryClaim, TurnToBlocked,
    Idle, Busy
<1>6. CASE Start(w) \/ SkipTask(w) \/ Finish(w, "done") \/ Finish(w, "failed")
           \/ BeatBegin(w) \/ BeatEnd(w) \/ Crash(w) \/ Abort(w)
  BY <1>6 DEF Start, SkipTask, Finish, BeatBegin, BeatEnd, Crash, Abort
<1>. QED
  BY <1>2, <1>3, <1>4, <1>5, <1>6 DEF StepKinds

(* A live worker is the owner of what it works on and of finished tasks.   *)
LEMMA IdleLockStep ==
  ASSUME FleetInv, LockInv, NEW w \in Workers, StepKinds(w)
  PROVE  NoIdleLock'
<1> SUFFICES ASSUME NEW v \in Workers, NEW t \in Tasks,
                    leases'[t].owner = v, leases'[t].left > 0, pc'[v] # "dead", cur'[v] # t
             PROVE  rec'[t] \in Terminal
  BY DEF NoIdleLock
<1>1. /\ TypeOK /\ pc[v] # "dead" /\ (rec[t] \in Terminal => rec'[t] \in Terminal)
  <2>1. TypeOK
    BY DEF FleetInv
  <2>2. pc[v] # "dead"
    <3>1. CASE v # w
      BY <2>1, <3>1, OthersKeep
    <3>2. CASE v = w
      BY <3>2, <2>1 DEF StepKinds, PublishCheck, PublishWrite, PublishDone, LoadTasks,
        LimitReached, TryClaim, Recheck, TurnToBlocked, Idle, Start, SkipTask, ReleaseTask,
        Finish, BeatBegin, BeatEnd, Crash, Abort, Gone
    <3>. QED
      BY <3>1, <3>2
  <2>. QED
    BY <2>1, <2>2, RecordsLast DEF Terminal
<1>2. CASE leases'[t] = leases[t]
  <2>1. CASE cur[v] # t
    BY <1>1, <1>2, <2>1 DEF LockInv, NoIdleLock
  <2>2. CASE cur[v] = t
    <3>1. v = w
      BY <1>1, <2>2, OthersKeep
    <3>. QED
      BY <1>1, <2>2, <3>1, LettingGo DEF LockInv
  <2>. QED
    BY <2>1, <2>2
<1>3. CASE leases'[t] = Free
  BY <1>3 DEF Free
<1>4. CASE /\ leases'[t] = [owner |-> w, left |-> TTL]
           /\ \/ t \in cand[w] /\ cur'[w] = t /\ pc'[w] \in {"check_run", "check_skip"}
              \/ beat[w] = t
  <2>1. v = w /\ beat[w] = t
    BY <1>4
  <2>2. CASE pc[w] = "running" /\ cur[w] = t
    BY <1>1, <2>1, <2>2, LettingGo DEF LockInv
  <2>. QED
    BY <1>1, <2>1, <2>2 DEF LockInv, BeatsTell
<1>. QED
  BY <1>2, <1>3, <1>4, LeaseKinds

(* Nothing is leased, held or in flight at the start.                       *)
LEMMA LockInit ==
  ASSUME Init
  PROVE  LockInv
  BY DEF Init, LeasesInit, Free, LockInv, HandsEmpty, LeasesTell, BeatsTell, NoIdleLock

(* Every step, and the passing of time, keeps what leases and beats tell.   *)
LEMMA LockStep ==
  ASSUME FleetInv, LockInv, [Next]_vars
  PROVE  LockInv'
<1>1. CASE \E w \in Workers : StepKinds(w)
  BY <1>1, HandsStep, LeasesTellStep, BeatsStep, IdleLockStep DEF LockInv
<1>2. CASE Tick
  <2>1. /\ UNCHANGED <<rec, pc, cur, beat>> /\ leases \in [Tasks -> Lease]
        /\ leases' = [t \in Tasks |->
                        [owner |-> leases[t].owner,
                         left |-> IF leases[t].left > 0 THEN leases[t].left - 1 ELSE 0]]
    BY <1>2 DEF Tick, locals, Elapse, FleetInv, TypeOK, LeasesTypeOK
  <2>2. \A t \in Tasks : /\ leases'[t].owner = leases[t].owner
                         /\ leases'[t].left > 0 => leases[t].left > 0
                         /\ leases[t].left = 0 => leases'[t].left = 0
    BY <2>1 DEF Lease
  <2>3. HandsEmpty' /\ BeatsTell'
    BY <2>1 DEF LockInv, HandsEmpty, BeatsTell, Busy
  <2>4. LeasesTell' /\ NoIdleLock'
    BY <2>1, <2>2 DEF LockInv, LeasesTell, NoIdleLock
  <2>. QED
    BY <2>3, <2>4 DEF LockInv
<1>3. CASE UNCHANGED vars
  BY <1>3 DEF vars, LockInv, HandsEmpty, LeasesTell, BeatsTell, NoIdleLock, Busy
<1>. QED
  BY <1>1, <1>2, <1>3, NextKinds

-------------------------------------------------------------------------------
(* Why the queue is drained when the last worker leaves: a task that could  *)
(* be run, or written off, is in somebody's hands, or somebody has still to *)
(* look at it.                                                              *)

Attended(t) == \E v \in Workers : Busy(v) /\ cur[v] = t

\* A worker that died or reached max_tasks leaves work to the others.
Excused == \E v \in Workers : \/ pc[v] = "dead"
                              \/ pc[v] = "stopped" /\ tally[v].processed >= MaxTasks

Waits(t) == \E d \in Deps[t] : rec[d] \notin Terminal

\* The worker has yet to load the queue, or t is among what it has loaded.
WillLook(v, t) ==
  \/ pc[v] \in {"publish", "write", "poll", "start", "skip", "running",
                "release_done", "release_failed"}
  \/ pc[v] \in {"try_run", "check_run"} /\ t \in cand[v] \cup Blocked(snap[v])
  \/ pc[v] \in {"try_skip", "check_skip"} /\ t \in cand[v]

PendingCovered ==
  \A t \in Tasks :
    rec[t] = "pending" =>
      Attended(t) \/ Excused \/ Waits(t) \/ \E v \in Workers : WillLook(v, t)

RunningCovered ==
  \A t \in Tasks :
    rec[t] = "running" => Excused \/ \E v \in Workers : pc[v] = "running" /\ cur[v] = t

DrainInv == PendingCovered /\ RunningCovered

\* A worker that has left stays away.
LEMMA GoneStays ==
  ASSUME TypeOK, NEW w \in Workers, StepKinds(w), NEW v \in Workers, pc[v] \in Gone
  PROVE  pc'[v] = pc[v] /\ tally'[v] = tally[v]
<1> USE DEF TypeOK, Goto, locals
<1>1. CASE ReleaseTask(w)
  BY <1>1 DEF ReleaseTask, Gone
<1>2. CASE PublishCheck(w) \/ PublishWrite(w) \/ PublishDone(w) \/ LoadTasks(w) \/ LimitReached(w)
  BY <1>2 DEF PublishCheck, PublishWrite, PublishDone, LoadTasks, LimitReached, Gone
<1>3. CASE TryClaim(w) \/ Recheck(w)
  BY <1>3 DEF TryClaim, Win, PassOver, Recheck, Keep, PutBack, Gone
<1>4. CASE TurnToBlocked(w) \/ Idle(w) \/ Start(w) \/ SkipTask(w)
  BY <1>4 DEF TurnToBlocked, Idle, Start, SkipTask, Gone
<1>5. CASE Finish(w, "done") \/ Finish(w, "failed") \/ BeatBegin(w) \/ BeatEnd(w)
           \/ Crash(w) \/ Abort(w)
  BY <1>5 DEF Finish, BeatBegin, BeatEnd, Crash, Abort, Gone
<1>. QED
  BY <1>1, <1>2, <1>3, <1>4, <1>5 DEF StepKinds

\* The death of a worker, or its max_tasks, is not undone.
LEMMA ExcusedStays ==
  ASSUME TypeOK, NEW w \in Workers, StepKinds(w), Excused
  PROVE  Excused'
  BY GoneStays DEF Excused, Gone

(* A pending task in somebody's hands stays there, until its record moves  *)
(* or the worker dies.                                                     *)
LEMMA AttendedStays ==
  ASSUME FleetInv, NEW w \in Workers, StepKinds(w), NEW t \in Tasks,
         rec[t] = "pending", rec'[t] = "pending", Attended(t)
  PROVE  Attended(t)' \/ Excused'
<1>1. PICK v \in Workers : Busy(v) /\ cur[v] = t
  BY DEF Attended
<1>2. TypeOK /\ pc \in [Workers -> Stages] /\ rec \in [Tasks -> Statuses]
  BY DEF FleetInv, TypeOK
<1> SUFFICES (Busy(v)' /\ cur'[v] = t) \/ pc'[v] = "dead"
  BY DEF Attended, Excused
<1>3. CASE v # w
  BY <1>1, <1>2, <1>3, OthersKeep DEF Busy
<1>4. CASE v = w
  <2> USE DEF Goto, locals
  <2>1. CASE Recheck(w)
    <3>1. Keep(w)
      BY <1>1, <1>4, <2>1 DEF Recheck, PutBack
    <3>. QED
      BY <1>1, <1>2, <1>4, <2>1, <3>1 DEF Recheck, Keep, Busy, Gone
  <2>2. CASE PublishWrite(w) \/ ReleaseTask(w)
    BY <1>1, <1>4, <2>2 DEF PublishWrite, ReleaseTask, FleetInv, PublisherKnows, RecordKnown,
      Terminal
  <2>3. CASE Start(w) \/ SkipTask(w) \/ Finish(w, "done") \/ Finish(w, "failed")
    BY <1>1, <1>2, <1>4, <2>3 DEF Start, SkipTask, Finish
  <2>4. CASE BeatBegin(w) \/ BeatEnd(w)
    BY <1>1, <1>4, <2>4 DEF BeatBegin, BeatEnd, Busy
  <2>5. CASE Crash(w) \/ Abort(w)
    BY <1>2, <1>4, <2>5 DEF Crash, Abort
  <2>6. CASE PublishCheck(w) \/ PublishDone(w) \/ LoadTasks(w) \/ LimitReached(w) \/ TryClaim(w)
             \/ TurnToBlocked(w) \/ Idle(w)
    BY <1>1, <1>4, <2>6 DEF PublishCheck, PublishDone, LoadTasks, LimitReached, TryClaim,
      TurnToBlocked, Idle, Busy, Gone
  <2>. QED
    BY <2>1, <2>2, <2>3, <2>4, <2>5, <2>6 DEF StepKinds
<1>. QED
  BY <1>3, <1>4

\* A task a claim passes over is in the hands of the owner of its lease.
LEMMA PassedOverAttended ==
  ASSUME FleetInv, LockInv, NEW w \in Workers, NEW t \in Tasks, rec[t] = "pending",
         ~Claimable(t, w)
  PROVE  Attended(t) \/ Excused
<1>1. leases \in [Tasks -> Lease] /\ leases[t].owner # w /\ leases[t].left # 0
  BY DEF Claimable, FleetInv, TypeOK, LeasesTypeOK
<1>2. leases[t].owner \in Workers /\ leases[t].left > 0
  BY <1>1 DEF Lease, LockInv, LeasesTell
<1>3. PICK v \in Workers : v = leases[t].owner
  BY <1>2
<1>4. CASE pc[v] = "dead"
  BY <1>4 DEF Excused
<1>5. CASE pc[v] # "dead"
  <2>1. cur[v] = t
    BY <1>2, <1>3, <1>5 DEF LockInv, NoIdleLock, Terminal
  <2>2. Busy(v)
    BY <1>5, <2>1 DEF LockInv, HandsEmpty
  <2>. QED
    BY <2>1, <2>2 DEF Attended
<1>. QED
  BY <1>4, <1>5

(* A worker that has still to look at a pending task does so, or leaves it  *)
(* in somebody's hands, or finds that it has to wait.                       *)
LEMMA LookStays ==
  ASSUME FleetInv, LockInv, NEW w \in Workers, StepKinds(w), NEW t \in Tasks,
         rec[t] = "pending", rec'[t] = "pending", ~Waits(t),
         NEW v \in Workers, WillLook(v, t)
  PROVE  WillLook(v, t)' \/ Attended(t)' \/ Excused'
<1>1. /\ TypeOK /\ pc \in [Workers -> Stages] /\ snap \in [Workers -> [Tasks -> Statuses]]
      /\ cand \in [Workers -> SUBSET Tasks]
  BY DEF FleetInv, TypeOK
<1>2. CASE v # w
  BY <1>1, <1>2, OthersKeep DEF WillLook, Blocked, DepsIn, Queued
<1>3. CASE v = w
  <2> USE DEF Goto, locals
  <2>1. CASE PublishCheck(w) \/ PublishWrite(w) \/ PublishDone(w)
    BY <1>1, <1>3, <2>1 DEF PublishCheck, PublishWrite, PublishDone, WillLook
  <2>2. CASE LoadTasks(w)
    <3>1. pc'[w] = "try_run" /\ snap'[w] = rec /\ cand'[w] = Runnable(rec)
      BY <1>1, <2>2 DEF LoadTasks
    <3>2. t \in Runnable(rec) \cup Blocked(rec)
      BY DEF Runnable, Blocked, DepsIn, Waits, Terminal
    <3>. QED
      BY <1>3, <3>1, <3>2 DEF WillLook
  <2>3. CASE LimitReached(w)
    <3>1. pc'[w] = "stopped" /\ tally'[w] = tally[w] /\ tally[w].processed >= MaxTasks
      BY <1>1, <2>3 DEF LimitReached
    <3>. QED
      BY <3>1 DEF Excused
  <2>4. CASE TryClaim(w)
    <3>1. PICK u \in Tasks : IsFirst(u, cand[w]) /\ (Win(w, u) \/ PassOver(w, u))
      BY <2>4 DEF TryClaim
    <3>2. pc[w] \in {"try_run", "try_skip"} /\ snap' = snap
      BY <2>4 DEF TryClaim
    <3>3. CASE Win(w, u)
      <4>1. cand' = cand /\ pc'[w] = IF pc[w] = "try_run" THEN "check_run" ELSE "check_skip"
        BY <1>1, <3>3 DEF Win
      <4>. QED
        BY <1>3, <3>2, <4>1 DEF WillLook
    <3>4. CASE PassOver(w, u) /\ u # t
      <4>1. cand'[w] = cand[w] \ {u} /\ pc' = pc
        BY <1>1, <3>4 DEF PassOver
      <4>. QED
        BY <1>3, <3>2, <3>4, <4>1 DEF WillLook
    <3>5. CASE PassOver(w, u) /\ u = t
      <4>1. Attended(t) \/ Excused
        BY <3>5, PassedOverAttended DEF PassOver
      <4>. QED
        BY <1>1, <4>1, AttendedStays, ExcusedStays
    <3>. QED
      BY <3>1, <3>3, <3>4, <3>5
  <2>5. CASE Recheck(w)
    <3>1. pc[w] \in {"check_run", "check_skip"} /\ snap' = snap
      BY <2>5 DEF Recheck
    <3>2. CASE Keep(w)
      BY <1>1, <1>3, <3>1, <3>2 DEF Keep, WillLook
    <3>3. CASE PutBack(w)
      <4>1. /\ cand'[w] = cand[w] \ {cur[w]} /\ cur[w] # t
            /\ pc'[w] = IF pc[w] = "check_run" THEN "try_run" ELSE "try_skip"
        BY <1>1, <3>3 DEF PutBack
      <4>. QED
        BY <1>3, <3>1, <4>1 DEF WillLook
    <3>. QED
      BY <2>5, <3>2, <3>3 DEF Recheck
  <2>6. CASE TurnToBlocked(w)
    <3>1. /\ pc[w] = "try_run" /\ cand[w] = {} /\ pc'[w] = "try_skip"
          /\ cand'[w] = Blocked(snap[w])
      BY <1>1, <2>6 DEF TurnToBlocked
    <3>. QED
      BY <1>3, <3>1 DEF WillLook
  <2>7. CASE Idle(w)
    BY <1>3, <2>7 DEF Idle, WillLook
  <2>8. CASE Start(w) \/ SkipTask(w) \/ ReleaseTask(w) \/ Finish(w, "done") \/ Finish(w, "failed")
    BY <1>1, <1>3, <2>8 DEF Start, SkipTask, ReleaseTask, Finish, WillLook
  <2>9. CASE Crash(w) \/ Abort(w)
    BY <1>1, <2>9 DEF Crash, Abort, Excused
  <2>10. CASE BeatBegin(w) \/ BeatEnd(w)
    BY <1>3, <2>10 DEF BeatBegin, BeatEnd, WillLook, Blocked, DepsIn, Queued
  <2>. QED
    BY <2>1, <2>2, <2>3, <2>4, <2>5, <2>6, <2>7, <2>8, <2>9, <2>10 DEF StepKinds
<1>. QED
  BY <1>2, <1>3

(* A pending task that is ready never slips through between the workers.   *)
LEMMA PendingStep ==
  ASSUME FleetInv, LockInv, PendingCovered, NEW w \in Workers, StepKinds(w)
  PROVE  PendingCovered'
<1> SUFFICES ASSUME NEW t \in Tasks, rec'[t] = "pending"
             PROVE  Attended(t)' \/ Excused' \/ Waits(t)' \/ \E v \in Workers : WillLook(v, t)'
  BY DEF PendingCovered
<1>1. TypeOK /\ Deps[t] \subseteq Tasks
  BY DepsAssumption DEF FleetInv
<1>2. CASE rec[t] # "pending"
  <2>1. pc'[w] = "publish"
    BY <1>1, <1>2, RecordChanges DEF Terminal
  <2>. QED
    BY <2>1 DEF WillLook
<1>3. CASE rec[t] = "pending" /\ Waits(t)
  <2>1. PICK d \in Deps[t] : rec[d] \notin Terminal
    BY <1>3 DEF Waits
  <2>2. CASE rec'[d] = rec[d]
    BY <2>1, <2>2 DEF Waits
  <2>3. CASE rec'[d] # rec[d]
    <3>1. rec'[d] \in Terminal => pc'[w] \in {"release_done", "release_failed"}
      BY <1>1, <2>3, RecordChanges DEF Terminal
    <3>. QED
      BY <3>1 DEF Waits, WillLook
  <2>. QED
    BY <2>2, <2>3
<1>4. CASE rec[t] = "pending" /\ ~Waits(t)
  BY <1>1, <1>4, AttendedStays, ExcusedStays, LookStays DEF PendingCovered
<1>. QED
  BY <1>2, <1>3, <1>4

(* A record says running only while a worker is at it, or one is dead.     *)
LEMMA RunningStep ==
  ASSUME FleetInv, RunningCovered, NEW w \in Workers, StepKinds(w)
  PROVE  RunningCovered'
<1> SUFFICES ASSUME NEW t \in Tasks, rec'[t] = "running"
             PROVE  Excused' \/ \E v \in Workers : pc'[v] = "running" /\ cur'[v] = t
  BY DEF RunningCovered
<1>1. TypeOK /\ pc \in [Workers -> Stages] /\ rec \in [Tasks -> Statuses]
  BY DEF FleetInv, TypeOK
<1>2. CASE rec[t] # "running"
  BY <1>1, <1>2, RecordChanges DEF Terminal
<1>3. CASE rec[t] = "running" /\ Excused
  BY <1>1, <1>3, ExcusedStays
<1>4. CASE rec[t] = "running" /\ \E v \in Workers : pc[v] = "running" /\ cur[v] = t
  <2>1. PICK v \in Workers : pc[v] = "running" /\ cur[v] = t
    BY <1>4
  <2>2. CASE v # w
    BY <1>1, <2>1, <2>2, OthersKeep
  <2>3. CASE v = w
    <3> USE DEF Goto, locals
    <3>1. ~Finish(w, "done") /\ ~Finish(w, "failed")
      BY <1>1, <2>1, <2>3 DEF Finish
    <3>2. StepKinds(w) => BeatBegin(w) \/ BeatEnd(w) \/ Crash(w) \/ Abort(w)
      BY <2>1, <2>3, <3>1 DEF StepKinds, PublishCheck, PublishWrite, PublishDone, LoadTasks,
        LimitReached, TryClaim, Recheck, TurnToBlocked, Idle, Start, SkipTask, ReleaseTask
    <3>3. CASE BeatBegin(w) \/ BeatEnd(w)
      BY <2>1, <2>3, <3>3 DEF BeatBegin, BeatEnd
    <3>4. CASE Crash(w) \/ Abort(w)
      BY <1>1, <3>4 DEF Crash, Abort, Excused
    <3>. QED
      BY <3>2, <3>3, <3>4
  <2>. QED
    BY <2>2, <2>3
<1>. QED
  BY <1>2, <1>3, <1>4 DEF RunningCovered

(* No task is pending or running at the start.                              *)
LEMMA DrainInit ==
  ASSUME Init
  PROVE  DrainInv
  BY DEF Init, DrainInv, PendingCovered, RunningCovered

(* Every step of the fleet keeps the tasks covered.                         *)
LEMMA DrainStep ==
  ASSUME FleetInv, LockInv, DrainInv, [Next]_vars
  PROVE  DrainInv'
<1>1. CASE \E w \in Workers : StepKinds(w)
  BY <1>1, PendingStep, RunningStep DEF DrainInv
<1>2. CASE UNCHANGED <<rec, pc, cur, snap, cand, tally>>
  <2>1. RunningCovered => RunningCovered'
    BY <1>2 DEF RunningCovered, Excused
  <2>2. PendingCovered => PendingCovered'
    BY <1>2 DEF PendingCovered, Excused, Attended, Busy, Waits, WillLook, Blocked, DepsIn, Queued
  <2>. QED
    BY <2>1, <2>2 DEF DrainInv
<1>. QED
  BY <1>1, <1>2, NextKinds DEF Tick, vars, locals

\* Every task of the queue was created in one of the fleet's processes.
EveryTaskPublished == \A t \in Tasks : \E w \in Workers : Publishes(w, t)

\* A nonempty set of numbers has a least element.
LEMMA LeastElement ==
  ASSUME NEW S \in SUBSET Nat, S # {}
  PROVE  \E n \in S : \A m \in S : n <= m
<1>1. PICK n \in S : \A m \in S : ~(<<m, n>> \in OpToRel(<, Nat))
  BY NatLessThanWellFounded, WFMin
<1>2. \A m \in S : ~(m < n)
  BY <1>1 DEF OpToRel
<1>. QED
  BY <1>2

(* When all have left in peace, the first unfinished task of a process     *)
(* would be one that is ready: somebody would still have had to look at it. *)
LEMMA NothingPendingAtExit ==
  ASSUME FleetInv, GraphInv, DrainInv, PrerequisitesFirst, AllLeft, NEW w \in Workers
  PROVE  \A i \in 1..Len(Local[w]) : rec[Local[w][i]] \in Terminal
<1> DEFINE Open == {i \in 1..Len(Local[w]) : rec[Local[w][i]] \notin Terminal}
<1> SUFFICES ASSUME Open # {} PROVE FALSE
  OBVIOUS
<1>1. TypeOK /\ Local[w] \in Seq(Tasks) /\ Len(Local[w]) \in Nat
  BY LocalAssumption, LenProperties DEF FleetInv, TypeOK
<1>2. PICK i \in Open : \A j \in Open : i <= j
  <2>1. Open \in SUBSET Nat
    BY <1>1
  <2>. QED
    BY <2>1, LeastElement
<1>3. PICK t \in Tasks : t = Local[w][i]
  BY <1>1
<1>4. pc[w] = "stopped" /\ todo[w] = <<>>
  BY DEF AllLeft, GraphInv, Progress
<1>5. rec[t] # "absent"
  <2>1. Viewed(w) = Len(Local[w])
    BY <1>1, <1>4 DEF Viewed
  <2>. QED
    BY <1>3, <1>4, <2>1 DEF GraphInv, Progress
<1>6. ~Waits(t)
  <2> SUFFICES ASSUME NEW d \in Deps[t], rec[d] \notin Terminal PROVE FALSE
    BY DEF Waits
  <2>1. PICK j \in 1..(i - 1) : Local[w][j] = d
    BY <1>3 DEF PrerequisitesFirst
  <2>2. j \in Open /\ ~(i <= j)
    BY <1>1, <2>1
  <2>. QED
    BY <1>2, <2>2
<1>7. ~Excused /\ ~Attended(t) /\ \A v \in Workers : ~WillLook(v, t) /\ pc[v] # "running"
  <2>1. \A v \in Workers : pc[v] = "stopped" /\ tally[v].processed < MaxTasks
    BY DEF AllLeft
  <2>2. \A v \in Workers : tally[v].processed \in Nat
    BY <1>1 DEF TypeOK
  <2>3. ~Excused
    BY <2>1, <2>2, BoundsAssumption DEF Excused
  <2>. QED
    BY <2>1, <2>3 DEF Attended, Busy, Gone, WillLook
<1>8. rec[t] \in {"pending", "running"}
  BY <1>1, <1>3, <1>5 DEF TypeOK, Statuses, Terminal
<1>. QED
  BY <1>6, <1>7, <1>8 DEF DrainInv, PendingCovered, RunningCovered

(* A fleet that left in peace has drained the queue.                       *)
LEMMA DrainedHolds ==
  ASSUME FleetInv, GraphInv, DrainInv, PrerequisitesFirst, EveryTaskPublished
  PROVE  DrainedAtExit
<1> SUFFICES ASSUME AllLeft, NEW t \in Tasks
             PROVE  rec[t] \in Terminal
  BY DEF DrainedAtExit
<1>1. PICK w \in Workers : Publishes(w, t)
  BY DEF EveryTaskPublished
<1>. QED
  BY <1>1, NothingPendingAtExit DEF Publishes

-------------------------------------------------------------------------------
(* The tallies *)

CountInv ==
  /\ IsFiniteSet(Strokes) /\ IsFiniteSet(Counting) /\ IsFiniteSet(Finished)
  /\ CountedOnce

(* What a step does to the three sets that are counted: a task is finished *)
(* by a worker that will count it, and counted once.                       *)
LEMMA CountKinds ==
  ASSUME FleetInv, NEW w \in Workers, StepKinds(w)
  PROVE  \/ UNCHANGED <<Strokes, Counting, Finished, crashes>>
         \/ \E t \in Tasks \ Finished :
              /\ Finished' = Finished \cup {t}
              /\ w \notin Counting /\ Counting' = Counting \cup {w}
              /\ UNCHANGED <<Strokes, crashes>>
         \/ \E n \in Nat :
              /\ <<w, n>> \notin Strokes /\ Strokes' = Strokes \cup {<<w, n>>}
              /\ w \in Counting /\ Counting' = Counting \ {w}
              /\ UNCHANGED <<Finished, crashes>>
         \/ /\ crashes' > 0 /\ Counting' \in {Counting, Counting \ {w}}
            /\ UNCHANGED <<Strokes, Finished>>
<1> USE DEF Goto, locals
<1>1. /\ TypeOK /\ CurOK /\ RecordKnown /\ pc \in [Workers -> Stages]
      /\ rec \in [Tasks -> Statuses] /\ crashes \in Nat
      /\ tally \in [Workers -> [processed : Nat, succeeded : Nat, failed : Nat]]
  BY DEF FleetInv, TypeOK, CurOK
<1>2. CASE UNCHANGED <<pc, tally, rec, crashes>>
  BY <1>2 DEF Strokes, Counting, Finished
<1>3. ASSUME UNCHANGED <<tally, crashes>>, rec' = rec,
             \A v \in Workers \ {w} : pc'[v] = pc[v],
             {pc[w], pc'[w]} \cap {"release_done", "release_failed"} = {}
      PROVE  UNCHANGED <<Strokes, Counting, Finished, crashes>>
  <2>1. Strokes' = Strokes /\ Finished' = Finished
    BY <1>3 DEF Strokes, Finished
  <2>2. Counting' = Counting
    BY <1>3 DEF Counting
  <2>. QED
    BY <1>3, <2>1, <2>2
<1>4. CASE PublishCheck(w) \/ PublishDone(w) \/ LoadTasks(w) \/ LimitReached(w)
  <2>1. /\ UNCHANGED <<tally, crashes, rec>> /\ \A v \in Workers \ {w} : pc'[v] = pc[v]
        /\ {pc[w], pc'[w]} \cap {"release_done", "release_failed"} = {}
    BY <1>1, <1>4 DEF PublishCheck, PublishDone, LoadTasks, LimitReached
  <2>. QED
    BY <1>3, <2>1
<1>5. CASE TryClaim(w) \/ Recheck(w) \/ TurnToBlocked(w) \/ Idle(w)
  <2>1. /\ UNCHANGED <<tally, crashes, rec>> /\ \A v \in Workers \ {w} : pc'[v] = pc[v]
    BY <1>1, <1>5 DEF TryClaim, Win, PassOver, Recheck, Keep, PutBack, TurnToBlocked, Idle
  <2>2. {pc[w], pc'[w]} \cap {"release_done", "release_failed"} = {}
    BY <1>1, <1>5 DEF TryClaim, Win, PassOver, Recheck, Keep, PutBack, TurnToBlocked, Idle
  <2>. QED
    BY <1>3, <2>1, <2>2
<1>6. CASE BeatBegin(w) \/ BeatEnd(w)
  BY <1>2, <1>6 DEF BeatBegin, BeatEnd
<1>7. CASE PublishWrite(w) \/ Start(w)
  <2>1. PICK s \in Statuses : /\ cur[w] \in Tasks /\ rec' = [rec EXCEPT ![cur[w]] = s]
                              /\ rec[cur[w]] \notin Terminal /\ s \notin Terminal
    BY <1>1, <1>7 DEF PublishWrite, Start, CurOK, Busy, Gone, RecordKnown, FleetInv,
      PublisherKnows, Statuses, Terminal
  <2>2. Finished' = Finished
    BY <1>1, <2>1 DEF Finished
  <2>3. Counting' = Counting /\ UNCHANGED <<tally, crashes>>
    BY <1>1, <1>7 DEF PublishWrite, Start, Counting
  <2>. QED
    BY <2>2, <2>3 DEF Strokes
<1>8. CASE SkipTask(w) \/ Finish(w, "done") \/ Finish(w, "failed")
  <2>1. PICK t \in Tasks : t = cur[w]
    BY <1>1, <1>8 DEF SkipTask, Finish, CurOK, Busy, Gone
  <2>2. PICK s \in Terminal : rec' = [rec EXCEPT ![t] = s]
    BY <1>8, <2>1 DEF SkipTask, Finish, Terminal
  <2>3. t \in Tasks \ Finished
    BY <1>1, <1>8, <2>1 DEF SkipTask, Finish, RecordKnown, Finished, Terminal
  <2>4. Finished' = Finished \cup {t}
    BY <1>1, <2>2 DEF Finished
  <2>5. /\ w \notin Counting /\ UNCHANGED <<tally, crashes>>
        /\ \A v \in Workers \ {w} : pc'[v] = pc[v]
        /\ pc'[w] \in {"release_done", "release_failed"}
    BY <1>1, <1>8 DEF SkipTask, Finish, Counting
  <2>6. Counting' = Counting \cup {w}
    BY <2>5 DEF Counting
  <2>. QED
    BY <2>3, <2>4, <2>5, <2>6 DEF Strokes
<1>9. CASE ReleaseTask(w)
  <2>1. PICK n \in Nat : n = tally[w].processed
    BY <1>1
  <2>2. /\ tally'[w].processed = n + 1
        /\ \A v \in Workers \ {w} : tally'[v] = tally[v]
    BY <1>1, <1>9, <2>1 DEF ReleaseTask
  <2>3. Strokes' = UNION {{v} \X (1..tally'[v].processed) : v \in Workers}
    BY DEF Strokes
  <2>4. 1..(n + 1) = (1..n) \cup {n + 1}
    OBVIOUS
  <2>5. <<w, n + 1>> \notin Strokes
    BY <2>1 DEF Strokes
  <2>6. Strokes' = Strokes \cup {<<w, n + 1>>}
    <3>1. ASSUME NEW e \in Strokes' PROVE e \in Strokes \cup {<<w, n + 1>>}
      <4>0. PICK v \in Workers : e \in {v} \X (1..tally'[v].processed)
        BY <2>3, <3>1
      <4>1. PICK k \in 1..tally'[v].processed : e = <<v, k>>
        BY <4>0
      <4>2. CASE v = w
        BY <2>1, <2>2, <2>4, <4>1, <4>2 DEF Strokes
      <4>3. CASE v # w
        BY <2>2, <4>1, <4>3 DEF Strokes
      <4>. QED
        BY <4>2, <4>3
    <3>2. ASSUME NEW e \in Strokes PROVE e \in Strokes'
      <4>0. PICK v \in Workers : e \in {v} \X (1..tally[v].processed)
        BY <3>2 DEF Strokes
      <4>1. PICK k \in 1..tally[v].processed : e = <<v, k>>
        BY <4>0
      <4>2. k \in 1..tally'[v].processed
        BY <2>1, <2>2, <2>4, <4>1
      <4>. QED
        BY <2>3, <4>1, <4>2
    <3>3. <<w, n + 1>> \in Strokes'
      BY <2>2, <2>3, <2>4
    <3>. QED
      BY <3>1, <3>2, <3>3
  <2>7. /\ w \in Counting /\ UNCHANGED <<rec, crashes>>
        /\ \A v \in Workers \ {w} : pc'[v] = pc[v]
        /\ pc'[w] = "poll"
    BY <1>1, <1>9 DEF ReleaseTask, Counting
  <2>8. Counting' = Counting \ {w}
    BY <2>7 DEF Counting
  <2>9. n + 1 \in Nat /\ Finished' = Finished
    BY <2>7 DEF Finished
  <2>. QED
    BY <2>5, <2>6, <2>7, <2>8, <2>9
<1>10. CASE Crash(w) \/ Abort(w)
  <2>1. /\ crashes' = crashes + 1 /\ UNCHANGED <<rec, tally>> /\ pc'[w] = "dead"
        /\ \A v \in Workers \ {w} : pc'[v] = pc[v]
    BY <1>1, <1>10 DEF Crash, Abort
  <2>2. Counting' = Counting \ {w}
    BY <2>1 DEF Counting
  <2>. QED
    BY <1>1, <2>1, <2>2 DEF Strokes, Finished
<1>. QED
  BY <1>4, <1>5, <1>6, <1>7, <1>8, <1>9, <1>10 DEF StepKinds

(* At the start nothing is finished, nothing counted.                       *)
LEMMA CountInit ==
  ASSUME Init
  PROVE  CountInv
<1>1. Strokes = {}
  <2>1. \A w \in Workers : tally[w].processed = 0
    BY DEF Init
  <2>2. 1..0 = {}
    OBVIOUS
  <2>. QED
    BY <2>1, <2>2 DEF Strokes
<1>2. Counting = {} /\ Finished = {}
  BY DEF Init, Counting, Finished, Terminal
<1>. QED
  BY <1>1, <1>2, FS_EmptySet DEF CountInv, CountedOnce

(* Every step of the fleet keeps the count.                                *)
LEMMA CountStep ==
  ASSUME FleetInv, CountInv, [Next]_vars
  PROVE  CountInv'
<1>1. ASSUME NEW w \in Workers, StepKinds(w)
      PROVE  CountInv'
  <2>0. /\ IsFiniteSet(Strokes) /\ IsFiniteSet(Counting) /\ IsFiniteSet(Finished) /\ CountedOnce
        /\ Cardinality(Strokes) \in Nat /\ Cardinality(Counting) \in Nat
        /\ Cardinality(Finished) \in Nat
    BY FS_CardinalityType DEF CountInv
  <2>1. CASE UNCHANGED <<Strokes, Counting, Finished, crashes>>
    BY <2>0, <2>1 DEF CountInv, CountedOnce
  <2>2. ASSUME NEW t \in Tasks \ Finished, Finished' = Finished \cup {t},
               w \notin Counting, Counting' = Counting \cup {w},
               UNCHANGED <<Strokes, crashes>>
        PROVE  CountInv'
    <3>1. /\ IsFiniteSet(Finished') /\ Cardinality(Finished') = Cardinality(Finished) + 1
          /\ IsFiniteSet(Counting') /\ Cardinality(Counting') = Cardinality(Counting) + 1
      BY <2>0, <2>2, FS_AddElement
    <3>. QED
      BY <2>0, <2>2, <3>1 DEF CountInv, CountedOnce
  <2>3. ASSUME NEW n \in Nat, <<w, n>> \notin Strokes, Strokes' = Strokes \cup {<<w, n>>},
               w \in Counting, Counting' = Counting \ {w},
               UNCHANGED <<Finished, crashes>>
        PROVE  CountInv'
    <3>1. /\ IsFiniteSet(Strokes') /\ Cardinality(Strokes') = Cardinality(Strokes) + 1
          /\ IsFiniteSet(Counting') /\ Cardinality(Counting') = Cardinality(Counting) - 1
      BY <2>0, <2>3, FS_AddElement, FS_RemoveElement
    <3>. QED
      BY <2>0, <2>3, <3>1 DEF CountInv, CountedOnce
  <2>4. CASE /\ crashes' > 0 /\ Counting' \in {Counting, Counting \ {w}}
             /\ UNCHANGED <<Strokes, Finished>>
    <3>1. IsFiniteSet(Counting')
      BY <2>0, <2>4, FS_RemoveElement
    <3>. QED
      BY <2>0, <2>4, <3>1 DEF CountInv, CountedOnce
  <2>. QED
    BY <1>1, <2>1, <2>2, <2>3, <2>4, CountKinds
<1>2. CASE UNCHANGED <<pc, rec, tally, crashes>>
  BY <1>2 DEF CountInv, CountedOnce, Strokes, Counting, Finished
<1>. QED
  BY <1>1, <1>2, NextKinds DEF Tick, vars, locals

(* The workers leave nothing behind: no live worker sits on a lease of     *)
(* unfinished work, when all have left the queue is drained, and every     *)
(* finished task is in exactly one tally.                                  *)
THEOREM NothingLeftHolds ==
  ASSUME Prompt, PublishedOnce, PrerequisitesFirst, EveryTaskPublished
  PROVE  Spec => []NothingLeft
<1>1. Spec => [](FleetInv /\ GraphInv /\ LockInv)
  BY FleetInvHolds, GraphInit, GraphStep, LockInit, LockStep, PTL DEF Spec
<1>2. Spec => []DrainInv
  BY <1>1, DrainInit, DrainStep, PTL DEF Spec
<1>3. Spec => []CountInv
  BY <1>1, CountInit, CountStep, PTL DEF Spec
<1>4. FleetInv /\ GraphInv /\ LockInv /\ DrainInv /\ CountInv => NothingLeft
  BY DrainedHolds DEF LockInv, CountInv, NothingLeft
<1>. QED
  BY <1>1, <1>2, <1>3, <1>4, PTL
===============================================================================
