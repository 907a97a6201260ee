--------------------------- MODULE DurableRun_proofs ---------------------------
(***************************************************************************)
(* Proofs about DagRunner and what is built on it, DurableRun and            *)
(* PlannedRun: first one call of arun_dag, for every finite set of tasks,    *)
(* every dependency graph, every order, max_tasks and concurrency; then a    *)
(* queue over its lives, for any number of crashes, calls and resumes;       *)
(* then Plan.to_tasks on every tree of steps a planner can build, and the    *)
(* call on the tasks it makes.                                               *)
(***************************************************************************)
EXTENDS DurableRun, PlannedRun, SequenceTheorems, FiniteSetTheorems, TLAPS

USE TasksAssumption

-------------------------------------------------------------------------------
(* The operators                                                             *)

\* A set with one element less counts one less.
LEMMA CountDown ==
  ASSUME NEW A \in SUBSET Tasks
  PROVE  /\ Cardinality(A) \in Nat
         /\ Cardinality(A) = 0 <=> A = {}
         /\ \A x \in A : Cardinality(A \ {x}) = Cardinality(A) - 1
<1>1. IsFiniteSet(A)
  BY FS_Subset
<1>2. Cardinality(A) \in Nat /\ (Cardinality(A) = 0 <=> A = {})
  BY <1>1, FS_CardinalityType, FS_EmptySet
<1>3. ASSUME NEW x \in A PROVE Cardinality(A \ {x}) = Cardinality(A) - 1
  BY <1>1, <1>3, FS_RemoveElement
<1>. QED
  BY <1>2, <1>3

\* The cut of the queue only leaves tasks out.
LEMMA FirstOfFacts ==
  ASSUME NEW S
  PROVE  FirstOf(S) \subseteq S
  BY DEF FirstOf

-------------------------------------------------------------------------------
(* The futures: what Start, BreakStart, End, BreakEnd and Cancel do alike    *)

Moves(t) ==
  /\ phase # "settling"
  /\ \/ Start(t) \/ BreakStart(t) \/ Cancel(t)
     \/ \E outcome \in Terminal : End(t, outcome) \/ BreakEnd(t, outcome)

\* A round of one of the loops of run().
Rounded(t) ==
  \/ Checkpoint(t) \/ CheckpointBreaks(t)
  \/ Settle(t) \/ Raise(t) \/ Skip(t) \/ SkipBreaks(t)

(* The actions of a step: the moves of one future, and those of run() itself.*)
LEMMA NextKinds ==
  [Next]_vars =>
    \/ Begin \/ Launch \/ Relaunch \/ UNCHANGED vars
    \/ \E t \in Tasks : Rounded(t) \/ Moves(t)
<1>1. \A t : Cancel(t) => phase # "settling"
  BY DEF Cancel
<1>. QED
  BY <1>1 DEF Next, RunStep, FutureStep, Moves, Rounded

(* What an action that moves one future changes.                             *)
LEMMA MoveFacts ==
  ASSUME DagInv, NEW t \in Tasks, Moves(t)
  PROVE  /\ UNCHANGED <<deps, queue, phase, ahead, indeg, remaining, launched, round, batch>>
         /\ t \in waiting \cup active
         /\ waiting' = waiting \ {t}
         /\ active' \subseteq active \cup {t} /\ active \ {t} \subseteq active'
         /\ ended' \subseteq ended \cup {t} /\ ended \subseteq ended'
         /\ broken' \subseteq broken \cup {t} /\ broken \subseteq broken'
         /\ status' \in [Tasks -> Statuses] /\ rec' \in [Tasks -> Statuses \cup {"absent"}]
         /\ \A s \in Tasks \ {t} : status'[s] = status[s] /\ rec'[s] = rec[s]
         /\ phase \notin {"idle", "checkpoint", "settling"}
  <1> USE DEF DagInv, TypeOK, OnePlace
  <1>0. phase # "settling" /\ (waiting \cup active # {} => phase \notin {"idle", "checkpoint"})
    BY DEF Moves, IdleEmpty
  <1>1. CASE Start(t)
    BY <1>0, <1>1 DEF Start, First, graph, Statuses
  <1>2. CASE BreakStart(t)
    BY <1>0, <1>2 DEF BreakStart, First, graph, Statuses
  <1>3. CASE Cancel(t)
    BY <1>0, <1>3 DEF Cancel, graph
  <1>4. CASE \E o \in Terminal : End(t, o) \/ BreakEnd(t, o)
    <2>1. PICK o \in Terminal : End(t, o) \/ BreakEnd(t, o)
      BY <1>4
    <2>2. Leave(t, o)
      BY <2>1 DEF End, BreakEnd
    <2>3. waiting' = waiting \ {t} /\ t \in active
      BY <2>2 DEF Leave
    <2>4. rec' \in {rec, [rec EXCEPT ![t] = o]} /\ broken' \in {broken, broken \cup {t}}
      BY <2>1 DEF End, BreakEnd
    <2>. QED
      BY <1>0, <2>2, <2>3, <2>4 DEF Leave, graph, Statuses
  <1>. QED
    BY <1>1, <1>2, <1>3, <1>4 DEF Moves

(* Moving one future keeps every task in one place.                          *)
LEMMA MoveKeepsInv ==
  ASSUME DagInv, NEW t \in Tasks, Moves(t)
  PROVE  DagInv'
<1>1. /\ UNCHANGED <<deps, queue, phase, ahead, indeg, remaining, launched, round, batch>>
      /\ t \in waiting \cup active /\ t \in launched /\ t \in queue
      /\ waiting' = waiting \ {t}
      /\ active' \subseteq active \cup {t} /\ active \ {t} \subseteq active'
      /\ ended' \subseteq ended \cup {t} /\ ended \subseteq ended'
      /\ broken' \subseteq broken \cup {t} /\ broken \subseteq broken'
      /\ status' \in [Tasks -> Statuses] /\ rec' \in [Tasks -> Statuses \cup {"absent"}]
      /\ \A s \in Tasks \ {t} : status'[s] = status[s]
      /\ phase \notin {"idle", "checkpoint", "settling"}
  BY MoveFacts DEF DagInv, TypeOK
<1>2. starts' \in [Tasks -> Nat] /\ \A s \in Tasks \ {t} : starts'[s] = starts[s]
  BY DEF DagInv, TypeOK, Moves, Start, BreakStart, Cancel, End, BreakEnd, Leave
<1>3. /\ t \notin active' \cap ended'
      /\ t \in active' => status'[t] = "running"
      /\ t \in ended' \ broken' => status'[t] \in Terminal
      /\ status'[t] = "pending" => starts'[t] = 0
      /\ status'[t] # status[t] => status[t] # "done"
  <2> USE DEF DagInv, TypeOK, OnePlace, StatusKnown, Terminal
  <2>1. CASE Start(t)
    BY <2>1 DEF Start, First
  <2>2. CASE BreakStart(t)
    BY <2>2 DEF BreakStart, First
  <2>3. CASE Cancel(t)
    BY <2>3 DEF Cancel
  <2>4. ASSUME NEW o \in Terminal, Leave(t, o), broken' \in {broken, broken \cup {t}}
        PROVE  /\ t \notin active' \cap ended' /\ t \notin active'
               /\ status'[t] = o /\ status[t] = "running"
    BY <2>4 DEF Leave
  <2>5. CASE \E o \in Terminal : End(t, o) \/ BreakEnd(t, o)
    BY <2>4, <2>5 DEF End, BreakEnd
  <2>. QED
    BY <2>1, <2>2, <2>3, <2>5 DEF Moves
<1>4. TypeOK'
  BY <1>1, <1>2 DEF DagInv, TypeOK
<1>5. IdleEmpty' /\ AheadKnown'
  BY <1>1 DEF DagInv, IdleEmpty, AheadKnown
<1>6. OnePlace'
  <2>1. waiting' \cap active' = {} /\ waiting' \cap ended' = {} /\ active' \cap ended' = {}
    BY <1>1, <1>3 DEF DagInv, OnePlace
  <2>2. phase = "running" => t \in active' \cup ended'
    BY DEF DagInv, Moves, Start, BreakStart, Cancel, End, BreakEnd, Leave
  <2>3. phase \notin {"returned", "refused"}
    BY <1>1 DEF DagInv, OnePlace
  <2>. QED
    BY <1>1, <2>1, <2>2, <2>3 DEF DagInv, OnePlace
<1>7. StatusKnown'
  <2>1. /\ \A s \in waiting' : status'[s] = "pending"
        /\ \A s \in active' : status'[s] = "running"
        /\ \A s \in ended' \ broken' : status'[s] \in Terminal
    BY <1>1, <1>3 DEF DagInv, TypeOK, StatusKnown
  <2>2. phase # "raised" => \A s \in queue \ launched : status'[s] = "pending"
    BY <1>1 DEF DagInv, TypeOK, StatusKnown
  <2>3. phase \in {"running", "returned"} => \A s \in queue \ remaining : status'[s] \in Terminal
    BY <1>1 DEF DagInv, TypeOK, StatusKnown, OnePlace
  <2>4. \A s \in Tasks : status'[s] = "pending" => starts'[s] = 0
    BY <1>1, <1>2, <1>3 DEF DagInv, StatusKnown
  <2>. QED
    BY <1>1, <2>1, <2>2, <2>3, <2>4 DEF StatusKnown
<1>8. DegreesExact'
  <2> SUFFICES ASSUME phase = "running", NEW s \in queue
               PROVE  SeenDone(s)' = SeenDone(s)
    BY <1>1 DEF DagInv, DegreesExact, Needs
  <2>1. t \in remaining
    BY <1>1 DEF DagInv, OnePlace
  <2>. QED
    BY <1>1, <2>1 DEF SeenDone, Needs, DagInv, TypeOK
<1>9. LaunchedReady'
  <2>1. \A s \in waiting' \cup active' \cup ended' : s \in waiting \cup active \cup ended
    BY <1>1
  <2>2. \A s, d \in Tasks : d \in Needs(s)' => d \in Needs(s)
    BY <1>1 DEF Needs
  <2>3. \A d \in Tasks : status[d] = "done" => status'[d] = "done"
    BY <1>1, <1>3
  <2>4. waiting \cup active \cup ended \subseteq Tasks /\ \A s \in Tasks : Needs(s) \subseteq Tasks
    BY DEF DagInv, TypeOK, Needs
  <2>5. \A s \in waiting' \cup active' \cup ended' : \A d \in Needs(s)' : status'[d] = "done"
    BY <1>1, <2>1, <2>2, <2>3, <2>4 DEF DagInv, LaunchedReady, Needs
  <2>6. phase \in {"running", "returned"} => \A s \in remaining \ launched : \E d \in Needs(s)' : d \in remaining
    BY <1>1 DEF DagInv, LaunchedReady, Needs
  <2>7. phase = "running" =>
          \A s \in remaining \ launched :
            s \in ahead \/ \A d \in Needs(s)' \ remaining : status'[d] = "done"
    BY <1>1, <2>3, <2>4 DEF DagInv, LaunchedReady, Needs, TypeOK
  <2>. QED
    BY <1>1, <2>5, <2>6, <2>7 DEF LaunchedReady
<1>. QED
  BY <1>4, <1>5, <1>6, <1>7, <1>8, <1>9 DEF DagInv

-------------------------------------------------------------------------------
(* From the first look at the queue to the first futures                     *)

(* The queue is taken from tasks nothing has happened to.                    *)
LEMMA BeginKeepsInv ==
  ASSUME DagInv, Begin
  PROVE  DagInv'
<1>1. /\ phase = "idle" /\ phase' = "checkpoint"
      /\ queue' \subseteq Tasks /\ ahead' = queue'
      /\ UNCHANGED <<deps, status, rec, indeg, remaining, launched, waiting, round, batch, active,
                     ended, broken, starts>>
  BY FirstOfFacts DEF Begin
<1>2. /\ remaining = {} /\ launched = {} /\ broken = {}
      /\ waiting = {} /\ active = {} /\ ended = {}
      /\ \A t \in Tasks : status[t] = "pending" /\ starts[t] = 0
  BY <1>1 DEF DagInv, IdleEmpty, TypeOK, StatusKnown
<1>3. TypeOK'
  BY <1>1, <1>2 DEF DagInv, TypeOK, Phases
<1>4. IdleEmpty' /\ AheadKnown' /\ OnePlace' /\ StatusKnown'
  BY <1>1, <1>2 DEF IdleEmpty, AheadKnown, OnePlace, StatusKnown
<1>5. DegreesExact' /\ LaunchedReady'
  BY <1>1, <1>2 DEF DegreesExact, LaunchedReady
<1>. QED
  BY <1>3, <1>4, <1>5 DEF DagInv

(* So it is while it is recorded, and where a write raises.                  *)
LEMMA CheckpointKeepsInv ==
  ASSUME DagInv, NEW t \in Tasks, Checkpoint(t) \/ CheckpointBreaks(t)
  PROVE  DagInv'
<1>1. /\ phase = "checkpoint" /\ t \in ahead /\ ahead' = ahead \ {t}
      /\ rec' \in {rec, [rec EXCEPT ![t] = status[t]]}
      /\ \/ phase' = "checkpoint" /\ broken' = broken
         \/ phase' = "raised" /\ broken' = broken \cup {t}
      /\ UNCHANGED <<deps, queue, status, indeg, remaining, launched, waiting, round, batch, active,
                     ended, starts>>
  BY DEF Checkpoint, CheckpointBreaks, FirstAhead, graph
<1>2. /\ remaining = {} /\ launched = {} /\ broken = {} /\ t \in queue
      /\ waiting = {} /\ active = {} /\ ended = {}
      /\ \A u \in Tasks : status[u] = "pending" /\ starts[u] = 0
  BY <1>1 DEF DagInv, IdleEmpty, TypeOK, StatusKnown
<1>3. TypeOK'
  BY <1>1, <1>2 DEF DagInv, TypeOK, Phases
<1>4. IdleEmpty' /\ AheadKnown' /\ OnePlace'
  BY <1>1, <1>2 DEF IdleEmpty, AheadKnown, OnePlace
<1>5. StatusKnown'
  BY <1>1, <1>2, <1>3 DEF StatusKnown, TypeOK
<1>6. DegreesExact' /\ LaunchedReady'
  BY <1>1, <1>2 DEF DegreesExact, LaunchedReady
<1>. QED
  BY <1>3, <1>4, <1>5, <1>6 DEF DagInv

(* The first futures are launched with exact counters.                       *)
LEMMA LaunchKeepsInv ==
  ASSUME DagInv, Launch
  PROVE  DagInv'
<1>1. /\ phase = "checkpoint" /\ ahead = {}
      /\ UNCHANGED <<deps, queue, status, rec, ahead, active, ended, broken, starts>>
  BY DEF Launch, graph
<1>2. /\ remaining = {} /\ launched = {} /\ broken = {}
      /\ waiting = {} /\ active = {} /\ ended = {} /\ queue \subseteq Tasks
      /\ \A t \in Tasks : status[t] = "pending" /\ starts[t] = 0
  BY <1>1 DEF DagInv, IdleEmpty, TypeOK, StatusKnown
<1>3. CASE Stuck(queue) # {}
  <2>1. phase' = "refused" /\ UNCHANGED <<remaining, indeg, launched, waiting, round, batch>>
    BY <1>3 DEF Launch
  <2>2. TypeOK'
    BY <1>1, <2>1 DEF DagInv, TypeOK, Phases
  <2>3. IdleEmpty' /\ AheadKnown' /\ OnePlace' /\ DegreesExact' /\ LaunchedReady'
    BY <1>1, <1>2, <2>1 DEF IdleEmpty, AheadKnown, OnePlace, DegreesExact, LaunchedReady
  <2>4. StatusKnown'
    BY <1>1, <1>2, <2>1 DEF StatusKnown
  <2>. QED
    BY <2>2, <2>3, <2>4 DEF DagInv
<1>4. CASE Stuck(queue) = {}
  <2> DEFINE ready == {t \in queue : Degrees(queue)[t] = 0}
  <2>1. /\ remaining' = queue /\ indeg' = Degrees(queue)
        /\ launched' = ready /\ waiting' = ready
        /\ round' = round + 1
        /\ batch' = [t \in Tasks |-> IF t \in ready THEN round' ELSE batch[t]]
        /\ phase' = IF ready = {} THEN "returned" ELSE "running"
    BY <1>2, <1>4 DEF Launch, Schedule
  <2>2. \A t \in queue : /\ t \in Tasks /\ Needs(t) \subseteq Tasks
                         /\ Degrees(queue)[t] = Cardinality(Needs(t))
    BY <1>2 DEF Degrees, Needs
  <2>3. \A t \in queue : Degrees(queue)[t] = 0 <=> Needs(t) = {}
    BY <2>2, CountDown
  <2>4. Degrees(queue) \in [Tasks -> Nat]
    <3>1. \A t \in Tasks : Cardinality(deps[t] \cap queue) \in Nat
      BY <1>2, CountDown
    <3>. QED
      BY <3>1 DEF Degrees
  <2>5. \A t \in queue : Needs(t)' = Needs(t) /\ SeenDone(t)' = {}
    BY <1>1, <1>2, <2>1 DEF Needs, SeenDone
  <2> HIDE DEF ready
  <2>6. ready \subseteq queue
    BY DEF ready
  <2>7. TypeOK'
    BY <1>1, <1>2, <2>1, <2>4, <2>6 DEF DagInv, TypeOK, Phases
  <2>8. IdleEmpty' /\ AheadKnown' /\ OnePlace'
    BY <1>1, <1>2, <2>1, <2>6 DEF IdleEmpty, AheadKnown, OnePlace
  <2>9. StatusKnown'
    BY <1>1, <1>2, <2>1, <2>6 DEF StatusKnown
  <2>10. DegreesExact'
    BY <1>1, <2>1, <2>2, <2>5 DEF DegreesExact
  <2>11. LaunchedReady'
    <3>1. \A t \in ready : Needs(t)' = {}
      BY <2>3, <2>5, <2>6 DEF ready
    <3>2. \A t \in queue \ ready : \E d \in Needs(t)' : d \in queue
      BY <2>3, <2>5 DEF ready, Needs
    <3>3. \A t \in queue : Needs(t)' \ queue = {}
      BY <2>5 DEF Needs
    <3>. QED
      BY <1>1, <1>2, <2>1, <2>6, <3>1, <3>2, <3>3 DEF LaunchedReady
  <2>. QED
    BY <2>7, <2>8, <2>9, <2>10, <2>11 DEF DagInv
<1>. QED
  BY <1>3, <1>4

-------------------------------------------------------------------------------
(* run() woken: the futures that ended are dealt with one by one             *)

(* A future that ended is taken off the counters, or blocks its dependents.  *)
LEMMA SettleKeepsInv ==
  ASSUME DagInv, NEW f \in Tasks, Settle(f)
  PROVE  DagInv'
<1>1. /\ phase \in {"running", "settling"} /\ phase' = "settling"
      /\ ahead = {} /\ f \in ended /\ f \notin broken
      /\ ended' = ended \ {f} /\ remaining' = remaining \ {f}
      /\ UNCHANGED <<deps, queue, status, rec, launched, waiting, round, batch, active, broken, starts>>
  BY DEF Settle, Looks, graph
<1>2. \/ status[f] = "done" /\ ahead' = {}
         /\ indeg' = [t \in Tasks |-> IF t \in queue /\ f \in deps[t] THEN indeg[t] - 1 ELSE indeg[t]]
      \/ status[f] # "done" /\ ahead' = Blocked(f) /\ indeg' = indeg
  BY <1>1 DEF Settle
<1>3. f \in launched /\ f \in remaining /\ f \in queue /\ status[f] \in Terminal
  BY <1>1 DEF DagInv, TypeOK, OnePlace, StatusKnown
<1>4. \A t \in Tasks : Needs(t)' = Needs(t) /\ Needs(t) \subseteq Tasks
  BY <1>1 DEF Needs, DagInv, TypeOK
<1>5. ASSUME NEW t \in queue
      PROVE  indeg'[t] \in Nat /\ indeg'[t] = Cardinality(Needs(t)' \ SeenDone(t)')
  <2> DEFINE A == Needs(t) \ SeenDone(t)
             B == Needs(t)' \ SeenDone(t)'
  <2>1. t \in Tasks /\ A \in SUBSET Tasks /\ indeg[t] = Cardinality(A) /\ indeg[t] \in Nat
    BY <1>1, <1>4 DEF DagInv, TypeOK, DegreesExact
  <2>2. \A d : /\ d \in A <=> d \in Needs(t) /\ (d \in remaining \/ status[d] # "done")
               /\ d \in B <=> d \in Needs(t) /\ (d \in remaining' \/ status[d] # "done")
    BY <1>1, <1>4, <2>1 DEF SeenDone
  <2>3. CASE status[f] = "done" /\ f \in deps[t]
    <3>1. f \in Needs(t)
      BY <1>3, <2>3 DEF Needs
    <3>2. f \in A /\ B = A \ {f}
      BY <1>1, <1>3, <2>2, <2>3, <3>1
    <3>3. indeg'[t] = indeg[t] - 1
      BY <1>2, <2>1, <2>3
    <3> HIDE DEF A, B
    <3>4. Cardinality(A \ {f}) = Cardinality(A) - 1 /\ Cardinality(A \ {f}) \in Nat
      BY <2>1, <3>2, CountDown
    <3>. QED
      BY <2>1, <3>2, <3>3, <3>4 DEF B
  <2>4. CASE ~(status[f] = "done" /\ f \in deps[t])
    <3>1. f \notin Needs(t) \/ status[f] # "done"
      BY <2>4 DEF Needs
    <3>2. B = A
      BY <1>1, <2>2, <3>1
    <3>3. indeg'[t] = indeg[t]
      BY <1>2, <2>1, <2>4
    <3>. QED
      BY <2>1, <3>2, <3>3
  <2>. QED
    BY <2>3, <2>4
<1>6. indeg' \in [Tasks -> Nat]
  <2>1. \A t \in Tasks \ queue : indeg'[t] = indeg[t]
    BY <1>2 DEF DagInv, TypeOK
  <2>2. indeg' = [t \in Tasks |-> indeg'[t]]
    BY <1>2 DEF DagInv, TypeOK
  <2>3. \A t \in Tasks : indeg'[t] \in Nat
    BY <1>5, <2>1 DEF DagInv, TypeOK
  <2>. QED
    BY <2>2, <2>3
<1>7. \A t \in ahead' : t \in remaining' /\ t \notin launched /\ t \in queue /\ f \in Needs(t) /\ status[f] = "failed"
  BY <1>1, <1>2, <1>3 DEF Blocked, Needs, Terminal, DagInv, TypeOK
<1>8. TypeOK'
  BY <1>1, <1>6, <1>7 DEF DagInv, TypeOK, Phases
<1>9. IdleEmpty' /\ OnePlace'
  BY <1>1, <1>3 DEF DagInv, IdleEmpty, OnePlace
<1>10. AheadKnown'
  <2>1. \A t \in ahead' : t \in Tasks /\ t \in remaining' \ launched' /\ \E d \in Needs(t)' : status'[d] = "failed"
    <3> SUFFICES ASSUME NEW t \in ahead'
                 PROVE  t \in Tasks /\ t \in remaining' \ launched' /\ f \in Needs(t)' /\ status'[f] = "failed"
      OBVIOUS
    <3>1. t \in Tasks
      BY <1>7 DEF DagInv, TypeOK
    <3>. QED
      BY <1>1, <1>4, <1>7, <3>1
  <2>. QED
    BY <1>1, <2>1 DEF AheadKnown
<1>11. StatusKnown'
  BY <1>1, <1>3 DEF DagInv, StatusKnown
<1>12. DegreesExact'
  BY <1>1, <1>5 DEF DegreesExact
<1>13. LaunchedReady'
  <2>1. \A t \in waiting' \cup active' \cup ended' : \A d \in Needs(t)' : status'[d] = "done"
    BY <1>1, <1>4 DEF DagInv, LaunchedReady, TypeOK
  <2>2. ASSUME NEW t \in remaining' \ launched', NEW d \in Needs(t)' \ remaining', status'[d] # "done"
        PROVE  t \in ahead'
    <3>1. t \in Tasks /\ t \in remaining \ launched /\ d \in Needs(t)
      BY <1>1, <1>4, <2>2 DEF DagInv, TypeOK
    <3>2. d = f
      BY <1>1, <2>2, <3>1 DEF DagInv, LaunchedReady
    <3>3. f \in deps[t]
      BY <3>1, <3>2 DEF Needs
    <3>. QED
      BY <1>1, <1>2, <2>2, <3>1, <3>2, <3>3 DEF Blocked
  <2>. QED
    BY <1>1, <2>1, <2>2 DEF LaunchedReady
<1>. QED
  BY <1>8, <1>9, <1>10, <1>11, <1>12, <1>13 DEF DagInv

(* One task is skipped, and what depends on it is to be skipped.             *)
LEMMA SkipKeepsInv ==
  ASSUME DagInv, NEW t \in Tasks, Skip(t)
  PROVE  DagInv'
<1>1. /\ phase = "settling" /\ phase' = "settling" /\ t \in ahead
      /\ status' = [status EXCEPT ![t] = "failed"] /\ rec' = [rec EXCEPT ![t] = "failed"]
      /\ remaining' = remaining \ {t} /\ launched' = launched \cup {t}
      /\ ahead' = (ahead \cup Blocked(t)) \ {t}
      /\ UNCHANGED <<deps, queue, indeg, waiting, round, batch, active, ended, broken, starts>>
  BY DEF Skip, graph
<1>2. /\ t \in remaining /\ t \notin launched /\ t \in queue /\ status[t] = "pending"
      /\ t \notin waiting /\ t \notin active /\ t \notin ended
  BY <1>1 DEF DagInv, TypeOK, AheadKnown, StatusKnown
<1>3. /\ \A u \in Tasks : status'[u] = IF u = t THEN "failed" ELSE status[u]
      /\ \A u \in Tasks : Needs(u)' = Needs(u) /\ Needs(u) \subseteq Tasks
      /\ remaining \subseteq Tasks /\ queue \subseteq Tasks /\ ahead \subseteq Tasks
      /\ waiting \cup active \cup ended \subseteq Tasks
  BY <1>1 DEF Needs, DagInv, TypeOK
<1>4. \A u \in Blocked(t) : u \in remaining /\ u \notin launched /\ t \in Needs(u) /\ u \in Tasks
  BY <1>2, <1>3 DEF Blocked, Needs
<1>5. TypeOK'
  <2>1. ahead' \subseteq queue
    BY <1>1, <1>4 DEF DagInv, TypeOK
  <2>2. status' \in [Tasks -> Statuses] /\ rec' \in [Tasks -> Statuses \cup {"absent"}]
    BY <1>1 DEF DagInv, TypeOK, Statuses, Terminal
  <2>. QED
    BY <1>1, <1>2, <2>1, <2>2 DEF DagInv, TypeOK
<1>6. IdleEmpty' /\ OnePlace'
  BY <1>1, <1>2 DEF DagInv, IdleEmpty, OnePlace
<1>7. AheadKnown'
  <2>1. ASSUME NEW u \in ahead'
        PROVE  u \in remaining' \ launched' /\ \E d \in Needs(u)' : status'[d] = "failed"
    <3>1. u # t /\ u \in Tasks
      BY <1>1, <1>3, <1>4
    <3>2. CASE u \in ahead
      <4>1. PICK d \in Needs(u) : status[d] = "failed"
        BY <1>1, <3>2 DEF DagInv, AheadKnown
      <4>2. d \in Tasks /\ status'[d] = "failed" /\ d \in Needs(u)'
        BY <1>3, <3>1, <4>1
      <4>. QED
        BY <1>1, <3>1, <3>2, <4>2 DEF DagInv, AheadKnown
    <3>3. CASE u \in Blocked(t)
      BY <1>1, <1>3, <1>4, <3>1, <3>3
    <3>. QED
      BY <1>1, <3>2, <3>3
  <2>. QED
    BY <1>1, <2>1 DEF AheadKnown
<1>8. StatusKnown'
  <2>1. \A u \in Tasks : status'[u] = "pending" => status[u] = "pending"
    BY <1>3
  <2>. QED
    BY <1>1, <1>2, <1>3, <2>1 DEF DagInv, TypeOK, StatusKnown, Terminal
<1>9. DegreesExact'
  <2>1. ASSUME NEW u \in queue PROVE SeenDone(u)' = SeenDone(u) /\ Needs(u)' = Needs(u)
    <3>1. u \in Tasks
      BY <1>3
    <3>2. \A d \in Needs(u) : (d \notin remaining' /\ status'[d] = "done") <=> (d \notin remaining /\ status[d] = "done")
      BY <1>1, <1>2, <1>3, <3>1
    <3>. QED
      BY <1>3, <3>1, <3>2 DEF SeenDone
  <2>. QED
    BY <1>1, <2>1 DEF DagInv, DegreesExact
<1>10. LaunchedReady'
  <2>1. \A u \in waiting' \cup active' \cup ended' : \A d \in Needs(u)' : status'[d] = "done"
    BY <1>1, <1>2, <1>3 DEF DagInv, LaunchedReady
  <2>2. ASSUME NEW u \in remaining' \ launched', NEW d \in Needs(u)' \ remaining', status'[d] # "done"
        PROVE  u \in ahead'
    <3>1. u \in Tasks /\ u # t /\ u \in remaining \ launched /\ d \in Needs(u) /\ d \in Tasks
      BY <1>1, <1>3, <2>2
    <3>2. CASE d = t
      <4>1. t \in deps[u]
        BY <3>1, <3>2 DEF Needs
      <4>. QED
        BY <1>1, <3>1, <4>1 DEF Blocked
    <3>3. CASE d # t
      BY <1>1, <1>3, <2>2, <3>1, <3>3 DEF DagInv, LaunchedReady
    <3>. QED
      BY <3>2, <3>3
  <2>. QED
    BY <1>1, <2>1, <2>2 DEF LaunchedReady
<1>. QED
  BY <1>5, <1>6, <1>7, <1>8, <1>9, <1>10 DEF DagInv

(* A broken future, or a write for a task to be skipped, raises out of run().*)
LEMMA RaiseKeepsInv ==
  ASSUME DagInv, NEW t \in Tasks, Raise(t) \/ SkipBreaks(t)
  PROVE  DagInv'
<1>1. /\ phase \in {"running", "settling"} /\ phase' = "raised" /\ ended' = {} /\ ahead' = {}
      /\ broken' \subseteq broken \cup {t}
      /\ UNCHANGED <<deps, queue, indeg, remaining, launched, waiting, round, batch, active, starts>>
  BY DEF Raise, Looks, SkipBreaks, graph
<1>2. \/ UNCHANGED <<status, rec, broken>>
      \/ /\ t \in queue /\ t \notin launched /\ status[t] = "pending"
         /\ status' = [status EXCEPT ![t] = "failed"]
         /\ rec' \in {rec, [rec EXCEPT ![t] = "failed"]}
  BY DEF Raise, SkipBreaks, graph, DagInv, TypeOK, AheadKnown, StatusKnown
<1>3. TypeOK'
  <2>1. status' \in [Tasks -> Statuses] /\ rec' \in [Tasks -> Statuses \cup {"absent"}]
    BY <1>2 DEF DagInv, TypeOK, Statuses, Terminal
  <2>2. broken' \subseteq queue
    BY <1>1, <1>2 DEF DagInv, TypeOK
  <2>. QED
    BY <1>1, <2>1, <2>2 DEF DagInv, TypeOK, Phases
<1>4. IdleEmpty' /\ AheadKnown' /\ OnePlace' /\ DegreesExact'
  BY <1>1 DEF DagInv, IdleEmpty, AheadKnown, OnePlace, DegreesExact
<1>5. \A u \in Tasks : /\ status'[u] = status[u] \/ (status[u] = "pending" /\ u \notin launched /\ status'[u] = "failed")
  BY <1>2 DEF DagInv, TypeOK
<1>6. StatusKnown'
  BY <1>1, <1>5 DEF DagInv, TypeOK, StatusKnown
<1>7. LaunchedReady'
  <2>1. \A u \in waiting \cup active : \A d \in Needs(u) : d \in Tasks /\ status'[d] = "done"
    BY <1>5 DEF DagInv, TypeOK, LaunchedReady, Needs
  <2>. QED
    BY <1>1, <2>1 DEF LaunchedReady, Needs
<1>. QED
  BY <1>3, <1>4, <1>6, <1>7 DEF DagInv

(* With everything dealt with, what became ready is launched.                *)
LEMMA RelaunchKeepsInv ==
  ASSUME DagInv, Relaunch
  PROVE  DagInv'
<1> DEFINE ready == {t \in remaining \ launched : indeg[t] = 0}
<1>1. /\ phase = "settling" /\ ended = {} /\ ahead = {}
      /\ UNCHANGED <<deps, queue, status, rec, ahead, indeg, remaining, active, ended, broken, starts>>
  BY DEF Relaunch, graph
<1>2. /\ launched' = launched \cup ready
      /\ waiting' = waiting \cup ready
      /\ round' = round + 1
      /\ batch' = [t \in Tasks |-> IF t \in ready THEN round' ELSE batch[t]]
      /\ phase' = IF waiting \cup ready \cup active = {} THEN "returned" ELSE "running"
  BY DEF Relaunch, Schedule
<1>3. /\ \A t \in Tasks : Needs(t)' = Needs(t) /\ Needs(t) \subseteq Tasks
      /\ remaining \subseteq queue /\ queue \subseteq Tasks
  BY <1>1 DEF Needs, DagInv, TypeOK
<1>4. ASSUME NEW t \in queue
      PROVE  /\ indeg[t] = 0 <=> Needs(t) \subseteq SeenDone(t)
             /\ SeenDone(t)' = SeenDone(t)
  <2>1. t \in Tasks /\ Needs(t) \ SeenDone(t) \in SUBSET Tasks
    BY <1>3
  <2>2. indeg[t] = Cardinality(Needs(t) \ SeenDone(t))
    BY <1>1 DEF DagInv, DegreesExact
  <2>3. indeg[t] = 0 <=> Needs(t) \ SeenDone(t) = {}
    BY <2>1, <2>2, CountDown
  <2>4. SeenDone(t)' = SeenDone(t)
    BY <1>1, <1>3, <2>1 DEF SeenDone
  <2>. QED
    BY <2>3, <2>4
<1>5. \A t \in ready : t \in remaining \ launched /\ t \in queue /\ t \in Tasks /\ status[t] = "pending"
                       /\ t \notin waiting /\ t \notin active
  BY <1>1, <1>3 DEF DagInv, TypeOK, StatusKnown
<1>6. \A t \in ready : \A d \in Needs(t) : status[d] = "done"
  BY <1>4, <1>5 DEF SeenDone
<1>7. \A t \in remaining \ launched' : \A d \in Needs(t) \ remaining : status[d] = "done"
  BY <1>1, <1>2 DEF DagInv, LaunchedReady
<1>8. \A t \in remaining \ launched' : \E d \in Needs(t) : d \in remaining
  <2> SUFFICES ASSUME NEW t \in remaining \ launched'
               PROVE  \E d \in Needs(t) : d \in remaining
    OBVIOUS
  <2>1. t \in queue /\ indeg[t] # 0
    BY <1>2, <1>3
  <2>2. PICK d \in Needs(t) : d \notin SeenDone(t)
    BY <1>4, <2>1
  <2>. QED
    BY <1>7, <2>2 DEF SeenDone
<1> HIDE DEF ready
<1>9. TypeOK'
  BY <1>1, <1>2, <1>5 DEF DagInv, TypeOK, Phases
<1>10. IdleEmpty' /\ AheadKnown'
  BY <1>1, <1>2 DEF IdleEmpty, AheadKnown
<1>11. OnePlace'
  BY <1>1, <1>2, <1>5 DEF DagInv, TypeOK, OnePlace
<1>12. StatusKnown'
  BY <1>1, <1>2, <1>5 DEF DagInv, TypeOK, StatusKnown
<1>13. DegreesExact'
  BY <1>1, <1>3, <1>4 DEF DagInv, DegreesExact
<1>14. LaunchedReady'
  <2>1. \A t \in waiting' \cup active' \cup ended' : \A d \in Needs(t)' : status'[d] = "done"
    BY <1>1, <1>2, <1>3, <1>5, <1>6 DEF DagInv, TypeOK, LaunchedReady
  <2>2. \A t \in remaining' \ launched' : t \in Tasks
    BY <1>1, <1>3
  <2>. QED
    BY <1>1, <1>3, <1>7, <1>8, <2>1, <2>2 DEF LaunchedReady
<1>. QED
  BY <1>9, <1>10, <1>11, <1>12, <1>13, <1>14 DEF DagInv

-------------------------------------------------------------------------------
(* The theorems about a call                                                 *)

(* Before the call nothing has a place.                                      *)
LEMMA DagInvInit ==
  ASSUME Init
  PROVE  DagInv
<1>1. TypeOK
  BY GraphsAssumption DEF Init, TypeOK, Statuses, Phases
<1>. QED
  BY <1>1 DEF Init, DagInv, IdleEmpty, AheadKnown, OnePlace, StatusKnown, DegreesExact, LaunchedReady

(* Every step of the runner keeps the invariant.                             *)
LEMMA DagInvStep ==
  ASSUME DagInv, [Next]_vars
  PROVE  DagInv'
<1>1. CASE UNCHANGED vars
  BY <1>1 DEF vars, DagInv, TypeOK, IdleEmpty, AheadKnown, OnePlace, StatusKnown, DegreesExact,
    LaunchedReady, Needs, SeenDone
<1>2. ASSUME NEW t \in Tasks, Rounded(t) \/ Moves(t)
      PROVE  DagInv'
  BY <1>2, CheckpointKeepsInv, SettleKeepsInv, SkipKeepsInv, RaiseKeepsInv, MoveKeepsInv DEF Rounded
<1>. QED
  BY <1>1, <1>2, NextKinds, BeginKeepsInv, LaunchKeepsInv, RelaunchKeepsInv

(* The inductive invariant of the scheduler: its counters are exact, every   *)
(* future has its prerequisites, and every status fits the task's place.     *)
THEOREM DagInvHolds == Spec => []DagInv
  BY DagInvInit, DagInvStep, PTL DEF Spec

\* The rounds that change a status: a task that waited for its turn is skipped.
LEMMA SkipFacts ==
  ASSUME DagInv, NEW t \in Tasks, Skip(t) \/ SkipBreaks(t)
  PROVE  /\ t \in queue /\ status[t] = "pending" /\ t \notin active
         /\ \E d \in Needs(t) : status[d] = "failed"
         /\ status' = [status EXCEPT ![t] = "failed"]
         /\ UNCHANGED <<deps, queue, active, starts>>
  BY DEF Skip, SkipBreaks, graph, DagInv, TypeOK, AheadKnown, StatusKnown

\* The other rounds of run(), and its steps between two loops.
RunOnly ==
  \/ Begin \/ Launch \/ Relaunch
  \/ \E t \in Tasks : Checkpoint(t) \/ CheckpointBreaks(t) \/ Settle(t) \/ Raise(t)

LEMMA RunOnlyFacts ==
  ASSUME RunOnly
  PROVE  /\ UNCHANGED <<deps, status, active, starts>>
         /\ phase # "idle" => UNCHANGED queue
         /\ phase = "idle" => Begin
  BY DEF RunOnly, Begin, Launch, Relaunch, Checkpoint, CheckpointBreaks, Settle, Looks, Raise, graph

\* A step changes the status of one task at most: a future's, or a skipped one's.
LEMMA StepKinds ==
  ASSUME [Next]_vars
  PROVE  \/ RunOnly \/ UNCHANGED vars
         \/ \E t \in Tasks : Skip(t) \/ SkipBreaks(t) \/ Moves(t)
  BY NextKinds DEF RunOnly, Rounded

\* A task that is done or failed stays so, whoever moves.
LEMMA TerminalStays ==
  ASSUME DagInv, [Next]_vars, NEW t \in Tasks, status[t] \in Terminal
  PROVE  status'[t] = status[t]
<1>1. CASE RunOnly \/ UNCHANGED vars
  BY <1>1, RunOnlyFacts DEF vars
<1>2. CASE \E s \in Tasks : Moves(s)
  BY <1>2, MoveFacts DEF DagInv, StatusKnown, Terminal
<1>3. CASE \E s \in Tasks : Skip(s) \/ SkipBreaks(s)
  BY <1>3, SkipFacts DEF Terminal, DagInv, TypeOK
<1>. QED
  BY <1>1, <1>2, <1>3, StepKinds

\* After the call has begun its queue and the graph are fixed.
LEMMA GraphFixed ==
  ASSUME DagInv, [Next]_vars
  PROVE  /\ UNCHANGED deps
         /\ phase # "idle" => UNCHANGED queue
         /\ phase = "idle" => \A t \in Tasks : status[t] = "pending" /\ starts[t] = 0
<1>1. UNCHANGED deps /\ (phase # "idle" => UNCHANGED queue)
  <2>1. CASE RunOnly \/ UNCHANGED vars
    BY <2>1, RunOnlyFacts DEF vars
  <2>2. CASE \E t \in Tasks : Moves(t) \/ Skip(t) \/ SkipBreaks(t)
    BY <2>2, MoveFacts, SkipFacts
  <2>. QED
    BY <2>1, <2>2, StepKinds
<1>. QED
  BY <1>1 DEF DagInv, IdleEmpty, StatusKnown

\* Who starts an agent.
LEMMA StartsGrow ==
  ASSUME DagInv, [Next]_vars, NEW t \in Tasks
  PROVE  \/ starts'[t] = starts[t]
         \/ /\ starts[t] = 0 /\ starts'[t] = 1 /\ t \in waiting
            /\ phase # "idle"
<1>1. CASE Start(t)
  BY <1>1 DEF Start, First, DagInv, TypeOK, StatusKnown, IdleEmpty
<1>2. CASE RunOnly \/ UNCHANGED vars
  BY <1>2, RunOnlyFacts DEF vars
<1>3. CASE \E s \in Tasks : Skip(s) \/ SkipBreaks(s)
  BY <1>3, SkipFacts
<1>4. ASSUME ~Start(t), NEW s \in Tasks, Moves(s)
      PROVE  starts'[t] = starts[t]
  BY <1>4 DEF DagInv, TypeOK, Moves, Start, BreakStart, Cancel, End, BreakEnd, Leave
<1>. QED
  BY <1>1, <1>2, <1>3, <1>4, StepKinds

(* A step starts a task only behind prerequisites that are done.             *)
LEMMA NeverEarlyStep ==
  ASSUME DagInv, NeverEarly, [Next]_vars
  PROVE  NeverEarly'
<1> SUFFICES ASSUME NEW t \in Tasks
             PROVE  /\ starts'[t] <= 1
                    /\ starts'[t] > 0 => \A d \in Needs(t)' : status'[d] = "done"
  BY DEF NeverEarly
<1>1. starts'[t] <= 1
  BY StartsGrow DEF NeverEarly
<1>2. ASSUME starts'[t] > 0
      PROVE  \A d \in Needs(t)' : status'[d] = "done"
  <2>1. phase # "idle" /\ \A d \in Needs(t) : d \in Tasks /\ status[d] = "done"
    BY <1>2, StartsGrow, GraphFixed DEF NeverEarly, DagInv, TypeOK, LaunchedReady, Needs
  <2>2. Needs(t)' = Needs(t)
    BY <2>1, GraphFixed DEF Needs
  <2>. QED
    BY <2>1, <2>2, TerminalStays DEF Terminal
<1>. QED
  BY <1>1, <1>2

(* A task is started at most once and never before all its prerequisites     *)
(* in the queue are done, for every graph and every order of events.         *)
THEOREM NeverEarlyHolds == Spec => []NeverEarly
<1>1. Init => NeverEarly
  BY DEF Init, NeverEarly
<1>. QED
  BY <1>1, DagInvHolds, NeverEarlyStep, PTL DEF Spec

-------------------------------------------------------------------------------
(* What the outcome of a call means                                          *)

\* An active task's agent was started; a broken future is never settled; a
\* graph with stuck tasks was refused.
Sound ==
  /\ \A t \in active : starts[t] > 0
  /\ phase \in {"running", "settling"} => broken \subseteq ended
  /\ phase \in {"returned", "refused"} => broken = {}
  /\ phase \in {"running", "settling", "returned"} => Stuck(queue) = {}

(* A step keeps what the end of a call relies on.                            *)
LEMMA SoundStep ==
  ASSUME DagInv, Sound, [Next]_vars
  PROVE  Sound'
<1>1. CASE Begin \/ Launch
  <2>1. active' = {} /\ broken' = {} /\ deps' = deps
    BY <1>1 DEF Begin, Launch, DagInv, IdleEmpty, TypeOK, graph
  <2>2. phase' \in {"running", "settling", "returned"} => Stuck(queue') = {}
    BY <1>1 DEF Begin, Launch, Schedule, graph
  <2>3. Stuck(queue)' = Stuck(queue')
    BY <2>1 DEF Stuck
  <2>. QED
    BY <2>1, <2>2, <2>3 DEF Sound
<1>2. CASE \E t \in Tasks : Moves(t)
  <2>1. PICK t \in Tasks : Moves(t)
    BY <1>2
  <2>2. Stuck(queue)' = Stuck(queue) /\ phase' = phase
    BY <2>1, MoveFacts DEF Stuck
  <2>3. phase \notin {"returned", "refused"}
    BY <2>1, MoveFacts DEF DagInv, OnePlace
  <2>4. broken' \ broken \subseteq ended' /\ ended \subseteq ended'
    BY <2>1 DEF Moves, Start, BreakStart, Cancel, End, BreakEnd, Leave
  <2>5. \A s \in active' : starts'[s] > 0
    BY <2>1 DEF Moves, Start, BreakStart, Cancel, End, BreakEnd, Leave, Sound, DagInv, TypeOK
  <2>. QED
    BY <2>2, <2>3, <2>4, <2>5 DEF Sound
<1>3. CASE Relaunch \/ \E t \in Tasks : Settle(t) \/ Skip(t)
  <2>1. /\ UNCHANGED <<deps, queue, active, starts, broken>>
        /\ phase \in {"running", "settling"} /\ phase' \in {"running", "settling", "returned"}
        /\ broken \subseteq ended' /\ (phase' = "returned" => ended = {})
    BY <1>3 DEF Relaunch, Schedule, Settle, Looks, Skip, graph, Sound
  <2>2. Stuck(queue)' = Stuck(queue)
    BY <2>1 DEF Stuck
  <2>. QED
    BY <2>1, <2>2 DEF Sound
<1>4. CASE \E t \in Tasks : Checkpoint(t) \/ CheckpointBreaks(t) \/ Raise(t) \/ SkipBreaks(t)
  BY <1>4 DEF Checkpoint, CheckpointBreaks, Raise, SkipBreaks, Sound
<1>5. CASE UNCHANGED vars
  BY <1>5 DEF vars, Sound, Stuck
<1>. QED
  BY <1>1, <1>2, <1>3, <1>4, <1>5, NextKinds DEF Rounded

(* A step that changes a status writes the record, or its write raised.      *)
LEMMA RecordsFollowStep ==
  ASSUME DagInv, RecordsFollow, [Next]_vars
  PROVE  RecordsFollow'
<1>1. CASE Begin
  BY <1>1, FirstOfFacts DEF Begin, RecordsFollow
<1>2. ASSUME NEW t \in Tasks, Checkpoint(t) \/ CheckpointBreaks(t)
      PROVE  RecordsFollow'
  BY <1>2 DEF Checkpoint, CheckpointBreaks, graph, RecordsFollow, DagInv, TypeOK
<1>3. CASE Launch \/ Relaunch \/ \E t \in Tasks : Settle(t)
  <2>1. /\ UNCHANGED <<queue, status, rec, broken>>
        /\ ahead = {} \/ phase = "settling"
    BY <1>3 DEF Launch, Relaunch, Settle, Looks, graph
  <2>2. \A t \in queue : rec[t] = status[t] \/ t \in broken
    BY <2>1 DEF RecordsFollow
  <2>. QED
    BY <2>1, <2>2 DEF RecordsFollow
<1>4. ASSUME NEW t \in Tasks, Raise(t) \/ Skip(t) \/ SkipBreaks(t)
      PROVE  RecordsFollow'
  BY <1>4 DEF Raise, Looks, Skip, SkipBreaks, graph, RecordsFollow, DagInv, TypeOK
<1>5. CASE \E t \in Tasks : Moves(t)
  <2>1. PICK t \in Tasks : Moves(t)
    BY <1>5
  <2>2. t \in queue => rec'[t] = status'[t] \/ t \in broken' \/ (phase = "raised" /\ t \in ahead)
    BY <2>1, MoveFacts DEF Moves, Start, BreakStart, Cancel, End, BreakEnd, Leave, RecordsFollow, DagInv, TypeOK
  <2>3. /\ UNCHANGED <<queue, phase, ahead>> /\ queue \subseteq Tasks /\ broken \subseteq broken'
        /\ \A s \in Tasks \ {t} : status'[s] = status[s] /\ rec'[s] = rec[s]
    BY <2>1, MoveFacts DEF DagInv, TypeOK
  <2>. QED
    BY <2>2, <2>3 DEF RecordsFollow
<1>6. CASE UNCHANGED vars
  BY <1>6 DEF vars, RecordsFollow
<1>. QED
  BY <1>1, <1>2, <1>3, <1>4, <1>5, <1>6, NextKinds DEF Rounded

(* What is on disk is what is in memory, between any two writes too, except  *)
(* where a write raised and for what a checkpoint has not come to.           *)
THEOREM RecordsFollowHolds == Spec => []RecordsFollow
<1>1. Init => RecordsFollow
  BY DEF Init, RecordsFollow
<1>. QED
  BY <1>1, DagInvHolds, RecordsFollowStep, PTL DEF Spec

(* What the end of a call relies on holds throughout.                        *)
LEMMA SoundHolds == Spec => []Sound
<1>1. Init => Sound
  BY DEF Init, Sound
<1>. QED
  BY <1>1, DagInvHolds, SoundStep, PTL DEF Spec

(* A call that returns has forgotten no task of its queue: each is done or   *)
(* failed, and recorded so.  Were one left, it would wait for another that   *)
(* is left, and those tasks would be a cycle the call had refused.           *)
LEMMA NobodyForgotten ==
  ASSUME DagInv, Sound, RecordsFollow
  PROVE  ReturnsFinished
<1>1. ASSUME phase = "returned"
      PROVE  \A t \in queue : status[t] \in Terminal /\ rec[t] = status[t]
  <2>1. remaining \cap launched = {} /\ broken = {} /\ remaining \subseteq queue
    BY <1>1 DEF DagInv, TypeOK, OnePlace, Sound
  <2>2. \A t \in remaining : deps[t] \cap remaining # {}
    BY <1>1, <2>1 DEF DagInv, LaunchedReady, Needs
  <2>3. \A t \in remaining : t \in Stuck(queue)
    BY <2>1, <2>2 DEF Stuck
  <2>4. remaining = {}
    BY <1>1, <2>3 DEF Sound
  <2>. QED
    BY <1>1, <2>1, <2>4 DEF DagInv, StatusKnown, RecordsFollow
<1>. QED
  BY <1>1 DEF ReturnsFinished

(* A call that returns has forgotten no task of its queue.                   *)
THEOREM ReturnsFinishedHolds == Spec => []ReturnsFinished
  BY NobodyForgotten, DagInvHolds, SoundHolds, RecordsFollowHolds, PTL

(* A step fails an unstarted task only behind one that failed.               *)
LEMMA SkippedStep ==
  ASSUME DagInv, Sound, SkippedForCause, [Next]_vars
  PROVE  SkippedForCause'
<1> SUFFICES ASSUME NEW t \in Tasks, status'[t] = "failed", starts'[t] = 0
             PROVE  \E d \in Needs(t)' : status'[d] = "failed"
  BY DEF SkippedForCause
<1>1. starts[t] = 0
  BY StartsGrow
<1>2. ASSUME phase # "idle", \E d \in Needs(t) : status[d] = "failed"
      PROVE  \E d \in Needs(t)' : status'[d] = "failed"
  <2>1. PICK d \in Needs(t) : status[d] = "failed" /\ d \in Tasks
    BY <1>2 DEF Needs, DagInv, TypeOK
  <2>2. Needs(t)' = Needs(t)
    BY <1>2, GraphFixed DEF Needs
  <2>. QED
    BY <2>1, <2>2, TerminalStays DEF Terminal
<1>3. CASE status[t] = "failed"
  <2>1. phase # "idle"
    BY <1>3, GraphFixed
  <2>. QED
    BY <1>1, <1>2, <1>3, <2>1 DEF SkippedForCause
<1>4. CASE status[t] # "failed"
  <2>1. CASE RunOnly \/ UNCHANGED vars
    BY <1>4, <2>1, RunOnlyFacts DEF vars
  <2>2. ASSUME NEW s \in Tasks, Skip(s) \/ SkipBreaks(s)
        PROVE  \E d \in Needs(t)' : status'[d] = "failed"
    <3>1. s = t /\ \E d \in Needs(t) : status[d] = "failed"
      BY <1>4, <2>2, SkipFacts DEF DagInv, TypeOK
    <3>2. phase # "idle"
      BY <2>2 DEF Skip, SkipBreaks
    <3>. QED
      BY <1>2, <3>1, <3>2
  <2>3. CASE \E s \in Tasks : Moves(s)
    <3>1. PICK s \in Tasks : Moves(s)
      BY <2>3
    <3>2. s = t
      BY <1>4, <3>1, MoveFacts
    <3>3. t \in active
      BY <1>4, <3>1, <3>2 DEF Moves, Start, BreakStart, Cancel, End, BreakEnd, Leave, DagInv, TypeOK
    <3>. QED
      BY <1>1, <3>3 DEF Sound
  <2>. QED
    BY <2>1, <2>2, <2>3, StepKinds
<1>. QED
  BY <1>3, <1>4

(* A task that failed without being started is behind one that failed.       *)
THEOREM SkippedForCauseHolds == Spec => []SkippedForCause
<1>1. Init => SkippedForCause
  BY DEF Init, SkippedForCause
<1>. QED
  BY <1>1, DagInvHolds, SoundHolds, SkippedStep, PTL DEF Spec

-------------------------------------------------------------------------------
(* The inductive invariant of a queue                                        *)

LifeTypes ==
  /\ status \in [Tasks -> Statuses \cup {"absent"}]
  /\ rec \in [Tasks -> Statuses \cup {"absent"}]
  /\ waiting \subseteq Tasks /\ active \subseteq Tasks
  /\ queue \subseteq Tasks /\ remaining \subseteq queue /\ ahead \subseteq Tasks
  /\ starts \in [Tasks -> Nat] /\ excuses \in [Tasks -> Nat]

\* A task is in one place, and the tasks at hand are the run's.
Places ==
  /\ waiting \cap active = {} /\ waiting \cap ended = {} /\ active \cap ended = {}
  /\ phase \in {"idle", "checkpoint"} =>
       waiting = {} /\ active = {} /\ ended = {} /\ remaining = {} /\ launched = {}
  /\ phase \in {"checkpoint", "running", "settling"} =>
       /\ waiting \cup active \cup ended \subseteq launched
       /\ \A t \in queue \ launched : status[t] = "pending"
  /\ phase = "checkpoint" => ahead \subseteq queue
  /\ phase = "settling" => ahead \subseteq remaining \ launched
  /\ phase = "reloaded" => ahead \subseteq waiting /\ active = {}
  /\ phase = "resumed" => (ahead = {} /\ \A s, t \in active : s = t)

\* What waits is pending, what is at work is recorded as running, and what is
\* pending is not recorded as done.
Marks ==
  /\ \A t \in waiting : status[t] = "pending"
  /\ \A t \in active : rec[t] = "running"
  /\ \A t \in Tasks : status[t] = "pending" => rec[t] # "done"

\* Every start of a task that may be started again has been excused.
Idle(t) ==
  \/ status[t] = "pending" \/ rec[t] \in {"pending", "absent"}
  \/ rec[t] = "running" /\ t \notin active

Excused ==
  \A t \in Tasks : /\ starts[t] <= 1 + excuses[t]
                   /\ Idle(t) => starts[t] <= excuses[t]

LifeInv == LifeTypes /\ Places /\ Marks /\ Excused

-------------------------------------------------------------------------------
(* A step of the life of a queue                                             *)

\* A step of the future of a task.
OneStep(t) == FutureStep(t) \/ Cancel(t)

\* A step of arun_dag is run()'s or a future's.
LEMMA DagKinds ==
  ASSUME LifeInv, DagStep
  PROVE  RunStep \/ \E t \in Tasks : OneStep(t)
  BY DEF DagStep, Next, OneStep

\* The excuses of a step of arun_dag.
LEMMA DagExcuses ==
  ASSUME LifeInv, DagStep, NEW t \in Tasks
  PROVE  excuses'[t] = IF t \in active \ active' /\ t \notin ended' \ broken'
                       THEN excuses[t] + 1 ELSE excuses[t]
  BY DEF DagStep

\* run() moves pending tasks only, and starts none itself.
RunEffect ==
  /\ UNCHANGED <<active, starts>>
  /\ status' \in [Tasks -> Statuses \cup {"absent"}]
  /\ rec' \in [Tasks -> Statuses \cup {"absent"}]
  /\ waiting' \subseteq Tasks /\ ahead' \subseteq Tasks
  /\ queue' \subseteq Tasks /\ remaining' \subseteq queue'
  /\ Places'
  /\ \A t \in waiting' : status'[t] = "pending"
  /\ \A t \in Tasks :
       \/ status'[t] = status[t] /\ rec'[t] = rec[t]
       \/ /\ t \notin active /\ status[t] = "pending" /\ status'[t] \in {"pending", "failed"}
          /\ rec'[t] \in {rec[t], status'[t]}

\* A call takes pending tasks only.
LEMMA BeginEffect ==
  ASSUME LifeInv, Begin
  PROVE  RunEffect
<1>1. PICK q : q = FirstOf({t \in Tasks : status[t] = "pending"})
  OBVIOUS
<1>2. q \subseteq {t \in Tasks : status[t] = "pending"}
  BY <1>1 DEF FirstOf
<1>3. /\ phase = "idle" /\ phase' = "checkpoint" /\ queue' = q /\ ahead' = q
      /\ UNCHANGED <<status, rec, remaining, launched, waiting, active, ended, starts>>
  BY <1>1 DEF Begin
<1>4. LifeTypes /\ Places /\ Marks
  BY DEF LifeInv
<1>5. Places'
  BY <1>2, <1>3, <1>4 DEF Places
<1>. QED
  BY <1>2, <1>3, <1>4, <1>5 DEF RunEffect, LifeTypes, Places, Marks

\* A record of the checkpoint, written or not.
LEMMA CheckpointEffect ==
  ASSUME LifeInv, NEW t \in Tasks, Checkpoint(t) \/ CheckpointBreaks(t)
  PROVE  RunEffect
<1>1. /\ phase = "checkpoint" /\ t \in ahead /\ ahead' = ahead \ {t}
      /\ phase' \in {"checkpoint", "raised"}
      /\ rec' \in {rec, [rec EXCEPT ![t] = status[t]]}
      /\ UNCHANGED <<queue, status, remaining, launched, waiting, active, ended, starts>>
  BY DEF Checkpoint, CheckpointBreaks, FirstAhead, graph
<1>2. LifeTypes /\ Places /\ Marks
  BY DEF LifeInv
<1>3. status[t] = "pending" /\ t \notin active
  BY <1>1, <1>2 DEF Places
<1>4. Places'
  BY <1>1, <1>2 DEF Places
<1>5. rec' \in [Tasks -> Statuses \cup {"absent"}]
  BY <1>1, <1>2 DEF LifeTypes
<1>. QED
  BY <1>1, <1>2, <1>3, <1>4, <1>5 DEF RunEffect, LifeTypes, Marks

\* Tasks that become ready are pending and have no future yet.
LEMMA ScheduleEffect ==
  ASSUME LifeInv, NEW left, NEW degree, NEW taken, Schedule(left, degree, taken),
         left \subseteq queue, launched \subseteq taken, waiting \cup active \subseteq taken,
         ended = {}, ahead = {}, remaining' = left,
         \A t \in queue \ taken : status[t] = "pending",
         UNCHANGED <<queue, status, rec, ahead, active, ended, starts>>
  PROVE  RunEffect
<1>1. PICK ready : ready = {t \in left \ taken : degree[t] = 0}
  OBVIOUS
<1>2. /\ ready \subseteq left \ taken
      /\ launched' = taken \cup ready /\ waiting' = waiting \cup ready
      /\ phase' \in {"returned", "running"}
  BY <1>1 DEF Schedule
<1>3. LifeTypes /\ Places /\ Marks
  BY DEF LifeInv
<1>4. \A t \in waiting' : status'[t] = "pending"
  BY <1>2, <1>3 DEF Marks
<1>5. Places'
  BY <1>2, <1>3 DEF Places
<1>. QED
  BY <1>2, <1>3, <1>4, <1>5 DEF RunEffect, LifeTypes

\* The queue is recorded: it is refused, or its ready tasks are launched.
LEMMA LaunchEffect ==
  ASSUME LifeInv, Launch
  PROVE  RunEffect
<1>1. /\ phase = "checkpoint" /\ ahead = {}
      /\ UNCHANGED <<queue, status, rec, ahead, active, ended, starts>>
  BY DEF Launch, graph
<1>2. LifeTypes /\ Places /\ Marks
  BY DEF LifeInv
<1>3. CASE Stuck(queue) = {}
  <2>1. remaining' = queue /\ Schedule(queue, Degrees(queue), {})
    BY <1>3 DEF Launch
  <2>2. /\ launched = {} /\ waiting = {} /\ active = {} /\ ended = {}
        /\ \A t \in queue \ {} : status[t] = "pending"
    BY <1>1, <1>2 DEF Places
  <2>. QED
    BY <1>1, <2>1, <2>2, ScheduleEffect
<1>4. CASE Stuck(queue) # {}
  <2>1. phase' = "refused" /\ UNCHANGED <<remaining, launched, waiting>>
    BY <1>4 DEF Launch
  <2>2. Places'
    BY <1>1, <1>2, <2>1 DEF Places
  <2>. QED
    BY <1>1, <1>2, <2>1, <2>2 DEF RunEffect, LifeTypes, Marks
<1>. QED
  BY <1>3, <1>4

\* All futures that ended are dealt with.
LEMMA RelaunchEffect ==
  ASSUME LifeInv, Relaunch
  PROVE  RunEffect
<1>1. /\ phase = "settling" /\ ended = {} /\ ahead = {} /\ remaining' = remaining
      /\ Schedule(remaining, indeg, launched)
      /\ UNCHANGED <<queue, status, rec, ahead, active, ended, starts>>
  BY DEF Relaunch, graph
<1>2. /\ remaining \subseteq queue /\ waiting \cup active \subseteq launched
      /\ \A t \in queue \ launched : status[t] = "pending"
  BY <1>1 DEF LifeInv, LifeTypes, Places
<1>. QED
  BY <1>1, <1>2, ScheduleEffect

\* A future that ended is looked at.
LEMMA SettleEffect ==
  ASSUME LifeInv, NEW f \in Tasks, Settle(f) \/ Raise(f)
  PROVE  RunEffect
<1>1. /\ phase \in {"running", "settling"} /\ phase' \in {"settling", "raised"}
      /\ ended' \subseteq ended /\ remaining' \subseteq remaining
      /\ ahead = {} /\ ahead' \in {{}, Blocked(f)} /\ f \in ended
      /\ phase' = "settling" => remaining' = remaining \ {f}
      /\ UNCHANGED <<queue, status, rec, launched, waiting, active, starts>>
  BY DEF Settle, Raise, Looks, graph
<1>2. LifeTypes /\ Places /\ Marks
  BY DEF LifeInv
<1>3. ahead' \subseteq Tasks /\ (phase' = "settling" => ahead' \subseteq remaining' \ launched')
  <2>1. CASE ahead' = {}
    BY <2>1
  <2>2. CASE ahead' = Blocked(f) /\ ahead' # {}
    <3>1. phase' = "settling" => remaining' = remaining \ {f}
      BY DEF Settle, Raise
    <3>2. f \in launched
      BY <1>1, <1>2 DEF Places
    <3>3. Blocked(f) \subseteq remaining \ launched /\ remaining \subseteq Tasks
      BY <1>2 DEF Blocked, LifeTypes
    <3>. QED
      BY <1>1, <2>2, <3>1, <3>2, <3>3
  <2>. QED
    BY <1>1, <2>1, <2>2
<1>4. Places'
  BY <1>1, <1>2, <1>3 DEF Places
<1>. QED
  BY <1>1, <1>2, <1>3, <1>4 DEF RunEffect, LifeTypes, Marks

\* A task is skipped, recorded or not.
LEMMA SkipEffect ==
  ASSUME LifeInv, NEW t \in Tasks, Skip(t) \/ SkipBreaks(t)
  PROVE  RunEffect
<1>1. /\ phase = "settling" /\ t \in ahead
      /\ status' = [status EXCEPT ![t] = "failed"]
      /\ rec' \in {rec, [rec EXCEPT ![t] = "failed"]}
      /\ ended' \subseteq ended /\ UNCHANGED <<queue, waiting, active, starts>>
      /\ \/ /\ phase' = "settling"
            /\ remaining' = remaining \ {t} /\ launched' = launched \cup {t}
            /\ ahead' = (ahead \cup Blocked(t)) \ {t}
         \/ phase' = "raised" /\ remaining' = remaining /\ ahead' = {}
  BY DEF Skip, SkipBreaks, graph
<1>2. LifeTypes /\ Places /\ Marks
  BY DEF LifeInv
<1>3. /\ t \in queue /\ t \notin launched /\ status[t] = "pending"
      /\ t \notin active /\ t \notin waiting
  BY <1>1, <1>2 DEF Places, LifeTypes
<1>4. Blocked(t) \subseteq remaining \ launched
  BY DEF Blocked
<1>5. ahead' \subseteq Tasks /\ remaining' \subseteq queue'
  BY <1>1, <1>2, <1>4 DEF LifeTypes
<1>6. /\ status' \in [Tasks -> Statuses \cup {"absent"}]
      /\ rec' \in [Tasks -> Statuses \cup {"absent"}]
  BY <1>1, <1>2 DEF LifeTypes, Statuses, Terminal
<1>7. \A u \in Tasks \ {t} : status'[u] = status[u] /\ rec'[u] = rec[u]
  BY <1>1, <1>2 DEF LifeTypes
<1>8. status'[t] = "failed" /\ rec'[t] \in {rec[t], "failed"}
  BY <1>1, <1>2 DEF LifeTypes
<1>9. Places'
  <2>1. CASE phase' = "raised"
    BY <1>1, <1>2, <2>1 DEF Places
  <2>2. CASE phase' = "settling"
    <3>1. ahead' \subseteq remaining' \ launched'
      BY <1>1, <1>2, <1>4, <2>2 DEF Places
    <3>2. \A u \in queue' \ launched' : status'[u] = "pending"
      BY <1>1, <1>2, <1>7, <2>2 DEF Places, LifeTypes
    <3>3. waiting' \cup active' \cup ended' \subseteq launched'
      BY <1>1, <1>2, <2>2 DEF Places
    <3>. QED
      BY <1>1, <1>2, <2>2, <3>1, <3>2, <3>3 DEF Places
  <2>. QED
    BY <1>1, <2>1, <2>2
<1>10. \A u \in waiting' : status'[u] = "pending"
  BY <1>1, <1>2, <1>3, <1>7 DEF Marks, LifeTypes
<1>. QED
  BY <1>1, <1>2, <1>3, <1>5, <1>6, <1>7, <1>8, <1>9, <1>10 DEF RunEffect, LifeTypes

\* Every step of run().
LEMMA RunSays ==
  ASSUME LifeInv, RunStep
  PROVE  RunEffect
  BY BeginEffect, CheckpointEffect, LaunchEffect, RelaunchEffect, SettleEffect, SkipEffect
  DEF RunStep

\* The types are kept by a step of arun_dag.
LEMMA DagTypes ==
  ASSUME LifeInv, DagStep
  PROVE  LifeTypes'
<1>1. excuses' \in [Tasks -> Nat]
  BY DEF DagStep, LifeInv, LifeTypes
<1>2. ASSUME RunStep
      PROVE  LifeTypes'
  BY <1>1, <1>2, RunSays DEF RunEffect, LifeInv, LifeTypes
<1>3. ASSUME NEW t \in Tasks, OneStep(t)
      PROVE  LifeTypes'
  BY <1>1, <1>3
  DEF LifeInv, LifeTypes, OneStep, FutureStep, Start, BreakStart, End, BreakEnd, Leave, Cancel,
      First, graph, Statuses, Terminal
<1>. QED
  BY <1>2, <1>3, DagKinds

\* A step of run() keeps the invariant.
LEMMA RunKeeps ==
  ASSUME LifeInv, DagStep, RunStep
  PROVE  Places' /\ Marks' /\ Excused'
<1>0. LifeTypes /\ Places /\ Marks /\ Excused /\ RunEffect /\ active' = active /\ starts' = starts
  BY RunSays DEF LifeInv, RunEffect
<1>1. \A t \in Tasks : excuses'[t] = excuses[t]
  BY <1>0, DagExcuses
<1>2. \A t \in Tasks : /\ status'[t] = "pending" => rec'[t] # "done"
                       /\ t \in active => rec'[t] = rec[t]
                       /\ Idle(t)' => Idle(t)
  BY <1>0 DEF RunEffect, Marks, Idle
<1>3. Marks'
  BY <1>0, <1>2 DEF RunEffect, Marks, LifeTypes
<1>. QED
  BY <1>0, <1>1, <1>2, <1>3 DEF RunEffect, Excused

\* What a future does, in five kinds.
LEMMA OneKinds ==
  ASSUME LifeInv, NEW t \in Tasks, OneStep(t), phase \notin {"idle", "settling"}
  PROVE  /\ UNCHANGED <<queue, ahead, phase, remaining, launched>>
         /\ \A u \in Tasks \ {t} :
              status'[u] = status[u] /\ rec'[u] = rec[u] /\ starts'[u] = starts[u]
         /\ \/ \* Start
               /\ t \in waiting /\ waiting' = waiting \ {t} /\ active' = active \cup {t}
               /\ ended' = ended /\ status'[t] = "running" /\ rec'[t] = "running"
               /\ starts'[t] = starts[t] + 1
            \/ \* BreakStart
               /\ t \in waiting /\ waiting' = waiting \ {t} /\ active' = active
               /\ ended' = ended \cup {t} /\ status'[t] = "running"
               /\ rec'[t] \in {rec[t], "running"} /\ starts'[t] = starts[t]
            \/ \* End and BreakEnd
               /\ t \in active /\ waiting' = waiting /\ active' = active \ {t}
               /\ ended' = ended \cup {t} /\ status'[t] \in Terminal
               /\ rec'[t] \in Terminal \/ (rec'[t] = rec[t] /\ t \in broken')
               /\ starts'[t] = starts[t]
            \/ \* Cancel
               /\ t \in waiting \cup active
               /\ waiting' = waiting \ {t} /\ active' = active \ {t} /\ ended' = ended
               /\ status'[t] = status[t] /\ rec'[t] = rec[t] /\ starts'[t] = starts[t]
<1>1. CASE Start(t)
  BY <1>1 DEF Start, First, LifeInv, LifeTypes, graph
<1>2. CASE BreakStart(t)
  BY <1>2 DEF BreakStart, First, LifeInv, LifeTypes, graph
<1>3. ASSUME NEW outcome \in Terminal, End(t, outcome) \/ BreakEnd(t, outcome)
      PROVE  /\ UNCHANGED <<queue, ahead, phase, remaining, launched>>
             /\ \A u \in Tasks \ {t} :
                  status'[u] = status[u] /\ rec'[u] = rec[u] /\ starts'[u] = starts[u]
             /\ t \in active /\ waiting' = waiting /\ active' = active \ {t}
             /\ ended' = ended \cup {t} /\ status'[t] \in Terminal
             /\ rec'[t] \in Terminal \/ (rec'[t] = rec[t] /\ t \in broken')
             /\ starts'[t] = starts[t]
  BY <1>3 DEF End, BreakEnd, Leave, LifeInv, LifeTypes, graph
<1>4. CASE Cancel(t)
  BY <1>4 DEF Cancel, graph
<1>. QED
  BY <1>1, <1>2, <1>3, <1>4 DEF OneStep, FutureStep

\* A step of a future keeps the invariant.
LEMMA OneKeeps ==
  ASSUME LifeInv, DagStep, NEW t \in Tasks, OneStep(t)
  PROVE  Places' /\ Marks' /\ Excused'
<1>0. /\ Places /\ Marks /\ Excused /\ LifeTypes /\ LifeTypes'
      /\ phase \notin {"idle", "settling", "reloaded", "resumed"}
  <2>1. LifeTypes'
    BY DagTypes
  <2>2. phase \notin {"idle", "settling"}
    BY DEF LifeInv, Places, OneStep, FutureStep, Start, First, BreakStart, End, BreakEnd, Leave, Cancel
  <2>. QED
    BY <2>1, <2>2 DEF LifeInv, DagStep, Phases
<1>1. /\ UNCHANGED <<queue, ahead, phase, remaining, launched>>
      /\ \A u \in Tasks \ {t} :
           status'[u] = status[u] /\ rec'[u] = rec[u] /\ starts'[u] = starts[u]
  BY <1>0, OneKinds
<1>2. \A u \in Tasks \ {t} : (u \in active <=> u \in active') /\ excuses'[u] = excuses[u]
  <2>1. \A u \in Tasks \ {t} : u \in active <=> u \in active'
    BY <1>0, OneKinds
  <2>. QED
    BY <2>1, DagExcuses
<1>3. \A u \in Tasks \ {t} : /\ starts'[u] <= 1 + excuses'[u]
                             /\ Idle(u)' => starts'[u] <= excuses'[u]
  BY <1>0, <1>1, <1>2 DEF Excused, Idle
<1>4. excuses'[t] = IF t \in active \ active' /\ t \notin ended' \ broken'
                    THEN excuses[t] + 1 ELSE excuses[t]
  BY DagExcuses
<1>5. excuses[t] \in Nat /\ starts[t] \in Nat
  BY <1>0 DEF LifeTypes
<1>6. CASE /\ t \in waiting /\ waiting' = waiting \ {t} /\ active' = active \cup {t}
           /\ ended' = ended /\ status'[t] = "running" /\ rec'[t] = "running"
           /\ starts'[t] = starts[t] + 1
  <2>1. Places'
    BY <1>0, <1>1, <1>6 DEF Places, LifeTypes
  <2>2. Marks'
    BY <1>0, <1>1, <1>6 DEF Marks, LifeTypes
  <2>3. starts[t] <= excuses[t] /\ excuses'[t] = excuses[t] /\ ~Idle(t)'
    BY <1>0, <1>4, <1>6 DEF Marks, Excused, Idle
  <2>. QED
    BY <1>3, <1>5, <1>6, <2>1, <2>2, <2>3 DEF Excused
<1>7. CASE /\ t \in waiting /\ waiting' = waiting \ {t} /\ active' = active
           /\ ended' = ended \cup {t} /\ status'[t] = "running"
           /\ rec'[t] \in {rec[t], "running"} /\ starts'[t] = starts[t]
  <2>1. Places'
    BY <1>0, <1>1, <1>7 DEF Places, LifeTypes
  <2>2. Marks'
    BY <1>0, <1>1, <1>7 DEF Marks, LifeTypes, Places
  <2>3. starts[t] <= excuses[t] /\ excuses'[t] = excuses[t]
    BY <1>0, <1>4, <1>7 DEF Marks, Excused, Idle
  <2>. QED
    BY <1>3, <1>5, <1>7, <2>1, <2>2, <2>3 DEF Excused
<1>8. CASE /\ t \in active /\ waiting' = waiting /\ active' = active \ {t}
           /\ ended' = ended \cup {t} /\ status'[t] \in Terminal
           /\ rec'[t] \in Terminal \/ (rec'[t] = rec[t] /\ t \in broken')
           /\ starts'[t] = starts[t]
  <2>1. Places'
    BY <1>0, <1>1, <1>8 DEF Places, LifeTypes
  <2>2. Marks'
    BY <1>0, <1>1, <1>8 DEF Marks, LifeTypes, Places, Terminal
  <2>3. starts[t] <= 1 + excuses[t] /\ excuses'[t] \in {excuses[t], excuses[t] + 1}
    BY <1>0, <1>4, <1>8 DEF Excused
  <2>4. CASE rec'[t] \in Terminal
    <3>1. ~Idle(t)'
      BY <1>8, <2>4 DEF Idle, Terminal
    <3>. QED
      BY <1>3, <1>5, <1>8, <2>1, <2>2, <2>3, <3>1 DEF Excused
  <2>5. CASE rec'[t] = rec[t] /\ t \in broken'
    <3>1. excuses'[t] = excuses[t] + 1
      BY <1>4, <1>8, <2>5
    <3>. QED
      BY <1>3, <1>5, <1>8, <2>1, <2>2, <2>3, <3>1 DEF Excused
  <2>. QED
    BY <1>8, <2>4, <2>5
<1>9. CASE /\ t \in waiting \cup active
           /\ waiting' = waiting \ {t} /\ active' = active \ {t} /\ ended' = ended
           /\ status'[t] = status[t] /\ rec'[t] = rec[t] /\ starts'[t] = starts[t]
  <2>1. Places'
    BY <1>0, <1>1, <1>9 DEF Places, LifeTypes
  <2>2. Marks'
    BY <1>0, <1>1, <1>9 DEF Marks, LifeTypes, Places
  <2>3. CASE t \in active
    <3>1. excuses'[t] = excuses[t] + 1
      BY <1>0, <1>4, <1>9, <2>3 DEF Places
    <3>2. starts[t] <= 1 + excuses[t]
      BY <1>0 DEF Excused
    <3>. QED
      BY <1>3, <1>5, <1>9, <2>1, <2>2, <3>1, <3>2 DEF Excused
  <2>4. CASE t \notin active
    <3>1. excuses'[t] = excuses[t] /\ (Idle(t)' => Idle(t))
      BY <1>4, <1>9, <2>4 DEF Idle
    <3>2. starts[t] <= 1 + excuses[t] /\ (Idle(t) => starts[t] <= excuses[t])
      BY <1>0 DEF Excused
    <3>. QED
      BY <1>3, <1>5, <1>9, <2>1, <2>2, <3>1, <3>2 DEF Excused
  <2>. QED
    BY <2>3, <2>4
<1>. QED
  BY <1>0, <1>6, <1>7, <1>8, <1>9, OneKinds

\* The process dies.
LEMMA CrashKeeps ==
  ASSUME LifeInv, Crash
  PROVE  LifeInv'
<1>0. Places /\ Marks /\ Excused /\ LifeTypes
  BY DEF LifeInv
<1>1. /\ phase' = "down" /\ ahead' = {} /\ waiting' = {} /\ active' = {} /\ ended' = {}
      /\ excuses' = [t \in Tasks |-> IF t \in active THEN excuses[t] + 1 ELSE excuses[t]]
      /\ UNCHANGED <<queue, status, rec, remaining, launched, starts>>
  BY DEF Crash, graph
<1>2. LifeTypes' /\ Places' /\ Marks'
  BY <1>0, <1>1 DEF LifeTypes, Places, Marks
<1>3. ASSUME NEW t \in Tasks
      PROVE  starts'[t] <= 1 + excuses'[t] /\ (Idle(t)' => starts'[t] <= excuses'[t])
  <2>1. /\ starts[t] \in Nat /\ excuses[t] \in Nat
        /\ starts[t] <= 1 + excuses[t] /\ (Idle(t) => starts[t] <= excuses[t])
    BY <1>0 DEF LifeTypes, Excused
  <2>2. CASE t \in active
    BY <1>1, <2>1, <2>2
  <2>3. CASE t \notin active
    BY <1>1, <2>1, <2>3 DEF Idle
  <2>. QED
    BY <2>2, <2>3
<1>. QED
  BY <1>2, <1>3 DEF LifeInv, Excused

\* arun_dag is called again.
LEMMA CallKeeps ==
  ASSUME LifeInv, CallAgain
  PROVE  LifeInv'
<1>0. Places /\ Marks /\ Excused /\ LifeTypes
  BY DEF LifeInv
<1>1. /\ phase' = "idle" /\ waiting = {} /\ active = {} /\ ended' = {}
      /\ queue' = {} /\ ahead' = {} /\ remaining' = {} /\ launched' = {}
      /\ UNCHANGED <<status, rec, waiting, active, starts, excuses>>
  BY DEF CallAgain, Free
<1>2. LifeTypes' /\ Places' /\ Marks'
  BY <1>0, <1>1 DEF LifeTypes, Places, Marks
<1>3. Excused'
  BY <1>0, <1>1 DEF Excused, Idle
<1>. QED
  BY <1>2, <1>3 DEF LifeInv

\* resume() puts back what was cut off, and what failed where it is asked to.
LEMMA ResumeKeeps ==
  ASSUME LifeInv, NEW retry \in BOOLEAN, Resume(retry)
  PROVE  /\ LifeInv'
         /\ \A t \in Tasks : rec[t] = "done" => rec'[t] = "done"
<1>0. Places /\ Marks /\ Excused /\ LifeTypes /\ waiting = {} /\ active = {}
  BY DEF LifeInv, Resume, Free
<1>1. PICK q : q = FirstOf({t \in Tasks : status'[t] = "pending"})
  OBVIOUS
<1>2. q \subseteq {t \in Tasks : status'[t] = "pending"}
  BY <1>1 DEF FirstOf
<1>3. /\ queue' = q /\ ahead' = q /\ waiting' = q /\ phase' \in {"returned", "reloaded"}
      /\ excuses' = [t \in Tasks |-> IF rec[t] = "failed" /\ retry THEN excuses[t] + 1
                                     ELSE excuses[t]]
      /\ status' = Loaded(retry)
      /\ remaining' = {} /\ launched' = {} /\ ended' = {}
      /\ UNCHANGED <<rec, active, starts>>
  BY <1>1 DEF Resume
<1>4. \A t \in Tasks : status'[t] = IF rec[t] = "running" \/ (rec[t] = "failed" /\ retry)
                                    THEN "pending" ELSE rec[t]
  BY <1>3 DEF Loaded
<1>5. LifeTypes'
  <2>1. status' \in [Tasks -> Statuses \cup {"absent"}]
    BY <1>0, <1>3 DEF LifeTypes, Loaded, Statuses
  <2>2. rec' \in [Tasks -> Statuses \cup {"absent"}]
    BY <1>0, <1>3 DEF LifeTypes
  <2>3. excuses' \in [Tasks -> Nat]
    BY <1>0, <1>3 DEF LifeTypes
  <2>4. /\ queue' \subseteq Tasks /\ waiting' \subseteq Tasks /\ ahead' \subseteq Tasks
        /\ remaining' \subseteq queue'
    BY <1>2, <1>3
  <2>. QED
    BY <1>0, <1>3, <2>1, <2>2, <2>3, <2>4 DEF LifeTypes
<1>6. Places'
  BY <1>0, <1>3 DEF Places
<1>7. /\ \A t \in Tasks : rec[t] = "done" => t \notin q
      /\ \A t \in Tasks : status'[t] = "pending" => rec[t] # "done"
  BY <1>2, <1>4
<1>8. Marks'
  BY <1>0, <1>2, <1>3, <1>7 DEF Marks
<1>9. ASSUME NEW t \in Tasks
      PROVE  starts'[t] <= 1 + excuses'[t] /\ (Idle(t)' => starts'[t] <= excuses'[t])
  <2>1. /\ starts[t] \in Nat /\ excuses[t] \in Nat
        /\ starts[t] <= 1 + excuses[t] /\ (Idle(t) => starts[t] <= excuses[t])
    BY <1>0 DEF LifeTypes, Excused
  <2>2. CASE rec[t] = "failed" /\ retry
    BY <1>3, <2>1, <2>2
  <2>3. CASE ~(rec[t] = "failed" /\ retry)
    <3>1. Idle(t)' => rec[t] \in {"pending", "absent", "running"}
      BY <1>0, <1>2, <1>3, <1>4, <2>3 DEF Idle
    <3>2. Idle(t)' => Idle(t)
      BY <1>0, <3>1 DEF Idle
    <3>. QED
      BY <1>3, <2>1, <2>3, <3>2
  <2>. QED
    BY <2>2, <2>3
<1>10. \A t \in Tasks : rec[t] = "done" => rec'[t] = "done"
  BY <1>3, <1>7
<1>. QED
  BY <1>5, <1>6, <1>8, <1>9, <1>10 DEF LifeInv, Excused

\* A record of the checkpoint of resume().
LEMMA SeqCheckpointKeeps ==
  ASSUME LifeInv, NEW t \in Tasks, SeqCheckpoint(t)
  PROVE  /\ LifeInv'
         /\ \A u \in Tasks : rec[u] = "done" => rec'[u] = "done"
<1>0. Places /\ Marks /\ Excused /\ LifeTypes
  BY DEF LifeInv
<1>1. /\ phase = "reloaded" /\ t \in ahead /\ ahead' = ahead \ {t}
      /\ rec' = [rec EXCEPT ![t] = status[t]]
      /\ phase' = IF ahead' = {} THEN "resumed" ELSE "reloaded"
      /\ UNCHANGED <<queue, status, remaining, launched, waiting, active, ended, starts, excuses>>
  BY DEF SeqCheckpoint, FirstAhead, graph
<1>2. t \in waiting /\ active = {} /\ status[t] = "pending"
  BY <1>0, <1>1 DEF Places, Marks
<1>3. LifeTypes'
  BY <1>0, <1>1 DEF LifeTypes
<1>4. Places'
  BY <1>0, <1>1, <1>2 DEF Places
<1>5. Marks'
  BY <1>0, <1>1, <1>2 DEF Marks, LifeTypes
<1>6. \A u \in Tasks : Idle(u)' => Idle(u)
  BY <1>0, <1>1, <1>2 DEF Idle, LifeTypes
<1>7. \A u \in Tasks : rec[u] = "done" => rec'[u] = "done"
  BY <1>0, <1>1, <1>2 DEF Marks, LifeTypes
<1>. QED
  BY <1>0, <1>1, <1>3, <1>4, <1>5, <1>6, <1>7 DEF LifeInv, Excused

\* The sequential loop starts a task.
LEMMA SeqStartKeeps ==
  ASSUME LifeInv, NEW t \in Tasks, SeqStart(t)
  PROVE  /\ LifeInv'
         /\ \A u \in Tasks : rec[u] = "done" => rec'[u] = "done"
<1>0. Places /\ Marks /\ Excused /\ LifeTypes /\ phase = "resumed"
  BY DEF LifeInv, SeqStart
<1>1. /\ t \in waiting /\ active = {} /\ waiting' = waiting \ {t} /\ active' = {t}
      /\ status' = [status EXCEPT ![t] = "running"]
      /\ rec' = [rec EXCEPT ![t] = "running"]
      /\ starts' = [starts EXCEPT ![t] = @ + 1]
      /\ UNCHANGED <<queue, ahead, phase, remaining, launched, ended, excuses>>
  BY DEF SeqStart, Start, First, graph
<1>2. LifeTypes'
  BY <1>0, <1>1 DEF LifeTypes, Statuses
<1>3. Places'
  BY <1>0, <1>1 DEF Places
<1>4. Marks'
  BY <1>0, <1>1 DEF Marks, LifeTypes
<1>5. ASSUME NEW u \in Tasks
      PROVE  starts'[u] <= 1 + excuses'[u] /\ (Idle(u)' => starts'[u] <= excuses'[u])
  <2>1. /\ starts[u] \in Nat /\ excuses[u] \in Nat
        /\ starts[u] <= 1 + excuses[u] /\ (Idle(u) => starts[u] <= excuses[u])
    BY <1>0 DEF LifeTypes, Excused
  <2>2. CASE u = t
    <3>1. Idle(t) /\ ~Idle(t)'
      BY <1>0, <1>1 DEF Marks, Idle, LifeTypes
    <3>. QED
      BY <1>0, <1>1, <2>1, <2>2, <3>1 DEF LifeTypes
  <2>3. CASE u # t
    BY <1>0, <1>1, <2>1, <2>3 DEF Idle, LifeTypes
  <2>. QED
    BY <2>2, <2>3
<1>6. \A u \in Tasks : rec[u] = "done" => rec'[u] = "done"
  BY <1>0, <1>1 DEF Marks, LifeTypes
<1>. QED
  BY <1>2, <1>3, <1>4, <1>5, <1>6 DEF LifeInv, Excused

\* The sequential loop ends a task.
LEMMA SeqEndKeeps ==
  ASSUME LifeInv, NEW t \in Tasks, NEW outcome \in Terminal, SeqEnd(t, outcome)
  PROVE  /\ LifeInv'
         /\ \A u \in Tasks : rec[u] = "done" => rec'[u] = "done"
<1>0. Places /\ Marks /\ Excused /\ LifeTypes /\ phase = "resumed"
  BY DEF LifeInv, SeqEnd
<1>1. /\ active = {t} /\ active' = {} /\ phase' \in {"returned", "resumed"}
      /\ status' = [status EXCEPT ![t] = outcome]
      /\ rec' = [rec EXCEPT ![t] = outcome]
      /\ UNCHANGED <<queue, ahead, waiting, remaining, launched, ended, starts, excuses>>
  BY <1>0 DEF SeqEnd, Places, graph
<1>2. LifeTypes'
  BY <1>0, <1>1 DEF LifeTypes, Statuses
<1>3. Places'
  BY <1>0, <1>1 DEF Places
<1>4. Marks'
  BY <1>0, <1>1 DEF Marks, LifeTypes, Terminal, Places
<1>5. ASSUME NEW u \in Tasks
      PROVE  Idle(u)' => Idle(u)
  BY <1>0, <1>1 DEF Idle, LifeTypes, Terminal
<1>6. Excused'
  BY <1>0, <1>1, <1>5 DEF Excused
<1>7. \A u \in Tasks : rec[u] = "done" => rec'[u] = "done"
  BY <1>0, <1>1 DEF Marks, LifeTypes
<1>. QED
  BY <1>2, <1>3, <1>4, <1>6, <1>7 DEF LifeInv

\* A record write or a callback raises out of the sequential loop.
LEMMA SeqBreakKeeps ==
  ASSUME LifeInv, SeqBreak
  PROVE  /\ LifeInv'
         /\ \A u \in Tasks : rec[u] = "done" => rec'[u] = "done"
<1>0. Places /\ Marks /\ Excused /\ LifeTypes /\ phase \in {"reloaded", "resumed"}
  BY DEF LifeInv, SeqBreak
<1>1. /\ phase' = "raised" /\ ahead' = {} /\ waiting' = {} /\ active' = {}
      /\ UNCHANGED <<queue, remaining, launched, ended, starts>>
  BY DEF SeqBreak, graph
<1>2. ASSUME NEW t \in Tasks, status' \in [Tasks -> Statuses \cup {"absent"}],
             rec' \in [Tasks -> Statuses \cup {"absent"}], excuses' \in [Tasks -> Nat],
             \A u \in Tasks \ {t} : /\ status'[u] = status[u] /\ rec'[u] = rec[u]
                                    /\ excuses'[u] = excuses[u] /\ u \notin active,
             status'[t] # "pending", rec[t] # "done",
             starts[t] <= excuses'[t]
      PROVE  /\ LifeInv'
             /\ \A u \in Tasks : rec[u] = "done" => rec'[u] = "done"
  <2>1. LifeTypes' /\ Places' /\ Marks'
    BY <1>0, <1>1, <1>2 DEF LifeTypes, Places, Marks
  <2>2. ASSUME NEW u \in Tasks
        PROVE  starts'[u] <= 1 + excuses'[u] /\ (Idle(u)' => starts'[u] <= excuses'[u])
    <3>1. CASE u = t
      BY <1>0, <1>1, <1>2, <3>1 DEF LifeTypes
    <3>2. CASE u # t
      BY <1>0, <1>1, <1>2, <3>2 DEF Excused, Idle
    <3>. QED
      BY <3>1, <3>2
  <2>. QED
    BY <1>2, <2>1, <2>2 DEF LifeInv, Excused
<1>3. PICK t \in Tasks :
        \/ /\ FirstAhead(t)
           /\ rec' \in {rec, [rec EXCEPT ![t] = status[t]]}
           /\ UNCHANGED <<status, excuses>>
        \/ /\ active = {} /\ First(t)
           /\ status' = [status EXCEPT ![t] = "running"]
           /\ rec' \in {rec, [rec EXCEPT ![t] = "running"]}
           /\ UNCHANGED excuses
        \/ /\ t \in active
           /\ \E outcome \in Terminal :
                /\ status' = [status EXCEPT ![t] = outcome]
                /\ rec' \in {rec, [rec EXCEPT ![t] = outcome]}
           /\ excuses' = [excuses EXCEPT ![t] = @ + 1]
  BY DEF SeqBreak
<1>4. CASE /\ active = {} /\ First(t)
           /\ status' = [status EXCEPT ![t] = "running"]
           /\ rec' \in {rec, [rec EXCEPT ![t] = "running"]}
           /\ UNCHANGED excuses
  <2>1. status[t] = "pending" /\ rec[t] # "done" /\ starts[t] <= excuses[t]
    BY <1>0, <1>4 DEF First, Marks, Excused, Idle
  <2>2. /\ status' \in [Tasks -> Statuses \cup {"absent"}]
        /\ rec' \in [Tasks -> Statuses \cup {"absent"}] /\ excuses' \in [Tasks -> Nat]
        /\ \A u \in Tasks \ {t} : /\ status'[u] = status[u] /\ rec'[u] = rec[u]
                                  /\ excuses'[u] = excuses[u] /\ u \notin active
        /\ status'[t] = "running" /\ excuses'[t] = excuses[t]
    BY <1>0, <1>4 DEF LifeTypes, Statuses
  <2>. QED
    BY <1>2, <2>1, <2>2
<1>5. CASE /\ t \in active
           /\ \E outcome \in Terminal :
                /\ status' = [status EXCEPT ![t] = outcome]
                /\ rec' \in {rec, [rec EXCEPT ![t] = outcome]}
           /\ excuses' = [excuses EXCEPT ![t] = @ + 1]
  <2>1. rec[t] = "running" /\ starts[t] <= 1 + excuses[t] /\ \A u \in Tasks \ {t} : u \notin active
    BY <1>0, <1>5 DEF Marks, Excused, Places
  <2>2. /\ status' \in [Tasks -> Statuses \cup {"absent"}]
        /\ rec' \in [Tasks -> Statuses \cup {"absent"}] /\ excuses' \in [Tasks -> Nat]
        /\ \A u \in Tasks \ {t} : /\ status'[u] = status[u] /\ rec'[u] = rec[u]
                                  /\ excuses'[u] = excuses[u]
        /\ status'[t] \in Terminal /\ excuses'[t] = 1 + excuses[t]
    BY <1>0, <1>5 DEF LifeTypes, Statuses, Terminal
  <2>. QED
    BY <1>2, <2>1, <2>2 DEF Terminal
<1>6. CASE /\ FirstAhead(t)
           /\ rec' \in {rec, [rec EXCEPT ![t] = status[t]]}
           /\ UNCHANGED <<status, excuses>>
  <2>1. t \in ahead /\ t \in waiting /\ active = {} /\ status[t] = "pending"
    BY <1>0, <1>6 DEF FirstAhead, Places, Marks
  <2>2. LifeTypes' /\ Places'
    BY <1>0, <1>1, <1>6 DEF LifeTypes, Places
  <2>3. Marks'
    BY <1>0, <1>1, <1>6, <2>1 DEF Marks, LifeTypes
  <2>4. \A u \in Tasks : Idle(u)' => Idle(u)
    BY <1>0, <1>1, <1>6, <2>1 DEF Idle, LifeTypes
  <2>5. \A u \in Tasks : rec[u] = "done" => rec'[u] = "done"
    BY <1>0, <1>6, <2>1 DEF Marks, LifeTypes
  <2>. QED
    BY <1>0, <1>1, <1>6, <2>2, <2>3, <2>4, <2>5 DEF LifeInv, Excused
<1>. QED
  BY <1>3, <1>4, <1>5, <1>6

-------------------------------------------------------------------------------
(* The theorems about a queue                                                *)

\* A process begins with nothing done.
LEMMA LifeInit ==
  ASSUME DurableInit PROVE LifeInv
  BY DEF DurableInit, Init, LifeInv, LifeTypes, Places, Marks, Excused, Idle, Statuses

\* A step of arun_dag keeps what is recorded as done.
LEMMA DagKeepsDone ==
  ASSUME LifeInv, DagStep
  PROVE  \A u \in Tasks : rec[u] = "done" => rec'[u] = "done"
<1>0. Places /\ Marks /\ LifeTypes
  BY DEF LifeInv
<1>1. ASSUME RunStep
      PROVE  \A u \in Tasks : rec[u] = "done" => rec'[u] = "done"
  BY <1>0, <1>1, RunSays DEF RunEffect, Marks
<1>2. ASSUME NEW t \in Tasks, OneStep(t)
      PROVE  \A u \in Tasks : rec[u] = "done" => rec'[u] = "done"
  <2>1. phase \notin {"idle", "settling"}
    BY <1>0, <1>2
    DEF Places, OneStep, FutureStep, Start, First, BreakStart, End, BreakEnd, Leave, Cancel
  <2>. QED
    BY <1>0, <1>2, <2>1, OneKinds DEF Marks
<1>. QED
  BY <1>1, <1>2, DagKinds

\* Every step keeps the invariant, and what is recorded as done.
LEMMA LifeStep ==
  ASSUME LifeInv, [DurableNext]_durableVars
  PROVE  LifeInv' /\ \A u \in Tasks : rec[u] = "done" => rec'[u] = "done"
<1>1. ASSUME DagStep
      PROVE  LifeInv'
  BY <1>1, DagKinds, DagTypes, OneKeeps, RunKeeps DEF LifeInv
<1>2. ASSUME Crash \/ CallAgain
      PROVE  \A u \in Tasks : rec[u] = "done" => rec'[u] = "done"
  BY <1>2 DEF Crash, CallAgain
<1>3. CASE UNCHANGED durableVars
  BY <1>3 DEF durableVars, vars, LifeInv, LifeTypes, Places, Marks, Excused, Idle
<1>. QED
  BY <1>1, <1>2, <1>3, DagKeepsDone, CrashKeeps, CallKeeps, ResumeKeeps, SeqCheckpointKeeps,
     SeqStartKeeps, SeqEndKeeps, SeqBreakKeeps DEF DurableNext

\* The inductive invariant of the life of a queue.
THEOREM LifeInvHolds == DurableSpec => []LifeInv
  BY LifeInit, LifeStep, PTL DEF DurableSpec

\* Across any calls, crashes and resumes, a task is started again only if its
\* agent was cut off or retry_failed put it back.
THEOREM RerunsExcusedHolds == DurableSpec => []RerunsExcused
<1>1. LifeInv => RerunsExcused
  BY DEF LifeInv, Excused, RerunsExcused
<1>. QED
  BY <1>1, LifeInvHolds, PTL

\* A task recorded as done is so through every later call and process.
THEOREM DoneStaysHolds == DurableSpec => DoneStays
<1>1. LifeInv /\ [DurableNext]_durableVars =>
        [\A t \in Tasks : rec[t] = "done" => rec'[t] = "done"]_durableVars
  BY LifeStep
<1>. QED
  BY <1>1, LifeInvHolds, PTL DEF DurableSpec, DoneStays

-------------------------------------------------------------------------------
(* Plans: the tree of steps                                                  *)

\* A step comes after the one it is part of, and needs others of its level.
PlanFormed ==
  /\ up \in Seq(Nat) /\ needs \in Seq(SUBSET Nat) /\ Len(needs) = Len(up)
  /\ \A x \in Steps : up[x] < x /\ needs[x] \subseteq Substeps(up[x]) \ {x}

LEMMA LeastNumber ==
  ASSUME NEW S \in SUBSET Nat, S # {}
  PROVE  \E n \in S : \A m \in S : n <= m
<1>1. PICK n \in S : \A m \in S : ~(<<m, n>> \in OpToRel(<, Nat))
  BY NatLessThanWellFounded, WFMin, Zenon
<1>2. \A m \in S : ~(m < n)
  BY <1>1 DEF OpToRel
<1>. QED
  BY <1>2

\* The size of an interval.
LEMMA IntervalCounts ==
  ASSUME NEW a \in Int, NEW b \in Int
  PROVE  /\ IsFiniteSet(a..b)
         /\ Cardinality(a..b) = IF a > b THEN 0 ELSE b - a + 1
  BY FS_Interval

LEMMA CountsUpTo ==
  ASSUME NEW n \in Nat
  PROVE  IsFiniteSet(1..n) /\ Cardinality(1..n) = n
  BY IntervalCounts

LEMMA StepsFacts ==
  ASSUME PlanFormed
  PROVE  /\ Len(up) \in Nat /\ Steps = 1..Len(up) /\ Steps \subseteq Nat \ {0} /\ IsFiniteSet(Steps)
         /\ Cardinality(Steps) = Len(up)
         /\ \A x \in Steps : /\ up[x] \in Nat /\ up[x] < x /\ (up[x] # 0 => up[x] \in Steps)
                             /\ needs[x] \subseteq Steps
                             /\ \A y \in needs[x] : up[y] = up[x] /\ y # x
<1>1. Len(up) \in Nat /\ Steps = 1..Len(up)
  BY LenProperties DEF PlanFormed, Steps
<1>2. IsFiniteSet(Steps) /\ Cardinality(Steps) = Len(up)
  BY <1>1, CountsUpTo
<1>3. \A x \in Steps : up[x] \in Nat /\ up[x] < x
  BY <1>1, ElementOfSeq DEF PlanFormed
<1>4. \A x \in Steps : up[x] # 0 => up[x] \in Steps
  BY <1>1, <1>3
<1>5. \A x \in Steps : /\ needs[x] \subseteq Steps
                       /\ \A y \in needs[x] : up[y] = up[x] /\ y # x
  BY DEF PlanFormed, Substeps
<1>. QED
  BY <1>1, <1>2, <1>3, <1>4, <1>5

\* The equation of AboveOf has a solution: the least sets closed upwards.
LEMMA AboveSolved ==
  ASSUME PlanFormed
  PROVE  AboveOf = [x \in Steps |-> {x} \cup IF up[x] = 0 THEN {} ELSE AboveOf[up[x]]]
<1>. DEFINE Closed(S) == \A z \in S : up[z] = 0 \/ up[z] \in S
            f == [x \in Steps |-> {y \in Steps : \A S \in SUBSET Steps : x \in S /\ Closed(S) => y \in S}]
<1>1. ASSUME NEW x \in Steps
      PROVE  f[x] = {x} \cup IF up[x] = 0 THEN {} ELSE f[up[x]]
  <2>. DEFINE T == {x} \cup IF up[x] = 0 THEN {} ELSE f[up[x]]
  <2>0. up[x] # 0 => up[x] \in Steps
    BY StepsFacts
  <2>1. ASSUME NEW u \in Steps, NEW z \in f[u] PROVE up[z] = 0 \/ up[z] \in f[u]
    <3>1. z \in Steps /\ (up[z] # 0 => up[z] \in Steps)
      BY StepsFacts
    <3>. QED
      BY <3>1
  <2>2. \A u \in Steps : u \in f[u] /\ f[u] \subseteq Steps
    OBVIOUS
  <2>3. Closed(T) /\ T \in SUBSET Steps /\ x \in T
    BY <2>0, <2>1, <2>2
  <2>4. f[x] \subseteq T
    BY <2>3
  <2>5. ASSUME up[x] # 0, NEW y \in f[up[x]] PROVE y \in f[x]
    BY <2>0, <2>5
  <2>6. T \subseteq f[x]
    BY <2>2, <2>5
  <2>. QED
    BY <2>4, <2>6
<1>2. f = [x \in Steps |-> f[x]]
  OBVIOUS
<1>. HIDE DEF f
<1>3. f = [x \in Steps |-> {x} \cup IF up[x] = 0 THEN {} ELSE f[up[x]]]
  BY <1>1, <1>2
<1>4. \E g : g = [x \in Steps |-> {x} \cup IF up[x] = 0 THEN {} ELSE g[up[x]]]
  BY <1>3
<1>. QED
  BY <1>4, Zenon DEF AboveOf

LEMMA AboveTells ==
  ASSUME PlanFormed, NEW x \in Steps
  PROVE  /\ x \in Above(x)
         /\ Above(x) = {x} \cup IF up[x] = 0 THEN {} ELSE Above(up[x])
         /\ \A y \in Above(x) : y \in Steps /\ y <= x
<1>1. \A z \in Steps : Above(z) = {z} \cup IF up[z] = 0 THEN {} ELSE Above(up[z])
  BY AboveSolved DEF Above
<1>. DEFINE S == {z \in Steps : \E y \in Above(z) : ~(y \in Steps /\ y <= z)}
<1>2. ASSUME S # {} PROVE FALSE
  <2>1. S \in SUBSET Nat
    BY StepsFacts
  <2>2. PICK z \in S : \A m \in S : z <= m
    BY <1>2, <2>1, LeastNumber
  <2>3. z \in Steps /\ z \in Nat /\ up[z] \in Nat /\ up[z] < z /\ (up[z] # 0 => up[z] \in Steps)
    BY StepsFacts
  <2>4. PICK y \in Above(z) : ~(y \in Steps /\ y <= z)
    BY <2>2
  <2>5. y # z
    BY <2>3, <2>4
  <2>6. up[z] # 0 /\ y \in Above(up[z])
    BY <1>1, <2>3, <2>4, <2>5
  <2>7. up[z] \notin S
    BY <2>2, <2>3
  <2>8. y \in Steps /\ y <= up[z]
    BY <2>3, <2>6, <2>7
  <2>. QED
    BY <2>3, <2>4, <2>8, StepsFacts
<1>. QED
  BY <1>1, <1>2

LEMMA AboveTrans ==
  ASSUME PlanFormed, NEW x \in Steps, NEW y \in Above(x)
  PROVE  Above(y) \subseteq Above(x)
<1>. DEFINE S == {z \in Steps : \E u \in Above(z) : ~(Above(u) \subseteq Above(z))}
<1>2. ASSUME S # {} PROVE FALSE
  <2>1. S \in SUBSET Nat
    BY StepsFacts
  <2>2. PICK z \in S : \A m \in S : z <= m
    BY <1>2, <2>1, LeastNumber
  <2>3. z \in Steps /\ z \in Nat /\ up[z] \in Nat /\ up[z] < z /\ (up[z] # 0 => up[z] \in Steps)
    BY StepsFacts
  <2>4. PICK u \in Above(z) : ~(Above(u) \subseteq Above(z))
    BY <2>2
  <2>5. u # z
    BY <2>4
  <2>6. up[z] # 0 /\ u \in Above(up[z]) /\ Above(up[z]) \subseteq Above(z)
    BY <2>3, <2>4, <2>5, AboveTells
  <2>7. up[z] \notin S
    BY <2>2, <2>3
  <2>. QED
    BY <2>3, <2>4, <2>6, <2>7
<1>. QED
  BY <1>2

LEMMA AboveChain ==
  ASSUME PlanFormed, NEW a \in Steps, NEW x \in Above(a), NEW y \in Above(a)
  PROVE  x \in Above(y) \/ y \in Above(x)
<1>. DEFINE S == {z \in Steps : \E u, v \in Above(z) : u \notin Above(v) /\ v \notin Above(u)}
<1>2. ASSUME S # {} PROVE FALSE
  <2>1. S \in SUBSET Nat
    BY StepsFacts
  <2>2. PICK z \in S : \A m \in S : z <= m
    BY <1>2, <2>1, LeastNumber
  <2>3. z \in Steps /\ z \in Nat /\ up[z] \in Nat /\ up[z] < z /\ (up[z] # 0 => up[z] \in Steps)
    BY StepsFacts
  <2>4. PICK u \in Above(z), v \in Above(z) : u \notin Above(v) /\ v \notin Above(u)
    BY <2>2
  <2>5. u # z /\ v # z
    BY <2>4
  <2>6. up[z] # 0 /\ u \in Above(up[z]) /\ v \in Above(up[z])
    BY <2>3, <2>4, <2>5, AboveTells
  <2>7. up[z] \notin S
    BY <2>2, <2>3
  <2>. QED
    BY <2>3, <2>4, <2>6, <2>7
<1>. QED
  BY <1>2

\* A path runs through one step of a level.
LEMMA OneOfALevel ==
  ASSUME PlanFormed, NEW a \in Steps, NEW x \in Above(a), NEW y \in Above(a), up[x] = up[y]
  PROVE  x = y
<1>1. ASSUME NEW u \in Steps, NEW v \in Steps, u \in Above(v), up[u] = up[v], u # v
      PROVE  FALSE
  <2>1. up[v] # 0 /\ u \in Above(up[v])
    BY <1>1, AboveTells
  <2>2. up[v] \in Steps /\ up[u] < u
    BY <2>1, StepsFacts
  <2>3. u <= up[v]
    BY <2>1, <2>2, AboveTells
  <2>. QED
    BY <1>1, <2>2, <2>3, StepsFacts
<1>2. x \in Steps /\ y \in Steps
  BY AboveTells
<1>. QED
  BY <1>1, <1>2, AboveChain

\* Paths that part do so once.
LEMMA PartOnce ==
  ASSUME PlanFormed, NEW a \in Steps, NEW b \in Steps,
         NEW x \in Above(a), NEW y \in Above(b), up[x] = up[y], x # y,
         NEW u \in Above(a), NEW v \in Above(b), up[u] = up[v], u # v
  PROVE  x = u /\ y = v
<1>1. x \in Steps /\ y \in Steps /\ u \in Steps /\ v \in Steps
  BY AboveTells
<1>2. ASSUME NEW p \in Above(a), NEW q \in Above(b), NEW r \in Above(a), NEW s \in Above(b),
             up[p] = up[q], up[r] = up[s], p # q, p # r, p \in Above(r)
      PROVE  FALSE
  <2>1. r \in Steps /\ s \in Steps /\ p \in Steps /\ q \in Steps
    BY AboveTells
  <2>2. up[r] # 0 /\ p \in Above(up[r])
    BY <1>2, <2>1, AboveTells
  <2>3. p \in Above(s)
    BY <1>2, <2>1, <2>2, AboveTells
  <2>4. p \in Above(b)
    BY <2>3, AboveTrans
  <2>. QED
    BY <1>2, <2>4, OneOfALevel
<1>3. x = u
  <2>1. x \in Above(u) \/ u \in Above(x)
    BY AboveChain
  <2>. QED
    BY <1>2, <2>1
<1>4. y = v
  <2>1. up[y] = up[v]
    BY <1>3
  <2>. QED
    BY <2>1, OneOfALevel
<1>. QED
  BY <1>3, <1>4

\* A path goes down from level to level.
LEMMA NextOnPath ==
  ASSUME PlanFormed, NEW l \in Steps, NEW s \in Above(l), s # l
  PROVE  \E x \in Above(l) : x \in Substeps(s)
<1>. DEFINE S == {x \in Above(l) : x > s}
<1>1. l \in Nat /\ s \in Nat /\ Above(l) \subseteq Steps /\ s <= l /\ l \in Above(l)
  BY StepsFacts, AboveTells
<1>2. l \in S /\ S \in SUBSET Nat
  BY <1>1, StepsFacts
<1>3. PICK x \in S : \A m \in S : x <= m
  BY <1>2, LeastNumber
<1>4. x \in Steps /\ x \in Nat /\ x > s /\ x \in Above(l) /\ up[x] \in Nat /\ up[x] < x
  BY <1>1, StepsFacts
<1>5. s \in Above(x)
  <2>1. s \in Above(x) \/ x \in Above(s)
    BY <1>4, AboveChain
  <2>2. x \notin Above(s)
    BY <1>1, <1>4, AboveTells
  <2>. QED
    BY <2>1, <2>2
<1>6. up[x] # 0 /\ s \in Above(up[x])
  BY <1>1, <1>4, <1>5, AboveTells
<1>7. up[x] \in Steps /\ up[x] \in Above(x)
  <2>1. up[x] \in Steps
    BY <1>4, <1>6, StepsFacts
  <2>. QED
    BY <1>4, <1>6, <2>1, AboveTells
<1>8. s <= up[x] /\ up[x] \in Above(l)
  BY <1>4, <1>6, <1>7, AboveTells, AboveTrans
<1>9. up[x] = s
  BY <1>1, <1>3, <1>4, <1>8
<1>. QED
  BY <1>4, <1>9 DEF Substeps

\* And starts at the top.
LEMMA TopOnPath ==
  ASSUME PlanFormed, NEW l \in Steps
  PROVE  \E x \in Above(l) : x \in Substeps(0)
<1>1. Above(l) \in SUBSET Nat /\ Above(l) # {} /\ Above(l) \subseteq Steps
  BY StepsFacts, AboveTells
<1>2. PICK x \in Above(l) : \A m \in Above(l) : x <= m
  BY <1>1, LeastNumber
<1>3. x \in Steps /\ up[x] \in Nat /\ up[x] < x /\ x \in Nat
  BY <1>1, StepsFacts
<1>4. up[x] = 0
  <2>. SUFFICES ASSUME up[x] # 0 PROVE FALSE
    OBVIOUS
  <2>1. up[x] \in Steps
    BY <1>3, StepsFacts
  <2>2. up[x] \in Above(x)
    BY <1>3, <2>1, AboveTells
  <2>3. up[x] \in Above(l)
    BY <2>2, AboveTrans
  <2>. QED
    BY <1>2, <1>3, <2>3
<1>. QED
  BY <1>3, <1>4 DEF Substeps

\* Nothing is below a leaf.
LEMMA NothingBelow ==
  ASSUME PlanFormed, NEW l \in Leaves, NEW z \in Steps, l \in Above(z)
  PROVE  z = l
<1>. DEFINE S == {m \in Steps : l \in Above(m) /\ m # l}
<1>1. SUFFICES ASSUME S # {} PROVE FALSE
  OBVIOUS
<1>2. S \in SUBSET Nat
  BY StepsFacts
<1>3. PICK m \in S : \A k \in S : m <= k
  BY <1>1, <1>2, LeastNumber
<1>4. m \in Steps /\ m \in Nat /\ up[m] \in Nat /\ up[m] < m /\ (up[m] # 0 => up[m] \in Steps)
  BY StepsFacts
<1>5. up[m] # 0 /\ l \in Above(up[m])
  BY <1>3, <1>4, AboveTells
<1>6. up[m] = l
  BY <1>3, <1>4, <1>5
<1>. QED
  BY <1>4, <1>6 DEF Leaves, Substeps

\* What a step inherits are the needs on its path.
LEMMA InheritedTells ==
  ASSUME PlanFormed, NEW a \in Steps
  PROVE  Inherited[a] = UNION {needs[x] : x \in Above(a)}
<1>. DEFINE F(x) == UNION {needs[y] : y \in Above(x)}
            f == [x \in Steps |-> F(x)]
<1>1. ASSUME NEW x \in Steps
      PROVE  F(x) = needs[x] \cup IF up[x] = 0 THEN {} ELSE F(up[x])
  BY AboveTells
<1>2. ASSUME NEW x \in Steps
      PROVE  f[x] = needs[x] \cup IF up[x] = 0 THEN {} ELSE f[up[x]]
  <2>1. up[x] # 0 => up[x] \in Steps
    BY StepsFacts
  <2>. QED
    BY <1>1, <2>1
<1>. HIDE DEF F
<1>3. f = [x \in Steps |-> f[x]]
  OBVIOUS
<1>. HIDE DEF f
<1>4. f = [x \in Steps |-> needs[x] \cup IF up[x] = 0 THEN {} ELSE f[up[x]]]
  BY <1>2, <1>3
<1>5. \E g : g = [x \in Steps |-> needs[x] \cup IF up[x] = 0 THEN {} ELSE g[up[x]]]
  BY <1>4
<1>6. Inherited = [x \in Steps |-> needs[x] \cup IF up[x] = 0 THEN {} ELSE Inherited[up[x]]]
  BY <1>5, Zenon DEF Inherited
<1>. DEFINE S == {x \in Steps : Inherited[x] # F(x)}
<1>7. ASSUME S # {} PROVE FALSE
  <2>1. S \in SUBSET Nat
    BY StepsFacts
  <2>2. PICK x \in S : \A m \in S : x <= m
    BY <1>7, <2>1, LeastNumber
  <2>3. x \in Steps /\ x \in Nat /\ up[x] \in Nat /\ up[x] < x /\ (up[x] # 0 => up[x] \in Steps)
    BY StepsFacts
  <2>4. up[x] # 0 => Inherited[up[x]] = F(up[x])
    BY <2>2, <2>3
  <2>5. Inherited[x] = needs[x] \cup IF up[x] = 0 THEN {} ELSE Inherited[up[x]]
    BY <1>6, <2>3
  <2>. QED
    BY <1>1, <2>2, <2>3, <2>4, <2>5
<1>. QED
  BY <1>7 DEF F

\* What the index lists for a step are the leaves it is above.
LEMMA LeavesByStepTells ==
  ASSUME PlanFormed, NEW d \in Steps
  PROVE  LeavesByStep[d] = {l \in Leaves : d \in Above(l)}
<1>. DEFINE F(s) == {l \in Leaves : s \in Above(l)}
            E(s, g) == IF s \in Leaves THEN {s} ELSE UNION {g[x] : x \in Substeps(s)}
            f == [s \in Steps |-> F(s)]
<1>0. Leaves \subseteq Steps /\ \A s : Substeps(s) \subseteq Steps
  BY DEF Leaves, Substeps
<1>1. ASSUME NEW s \in Steps
      PROVE  F(s) = IF s \in Leaves THEN {s} ELSE UNION {F(x) : x \in Substeps(s)}
  <2>1. CASE s \in Leaves
    <3>1. \A l \in F(s) : l = s
      BY <1>0, <2>1, NothingBelow
    <3>2. s \in F(s)
      BY <2>1, AboveTells
    <3>. QED
      BY <2>1, <3>1, <3>2
  <2>2. CASE s \notin Leaves
    <3>1. ASSUME NEW x \in Substeps(s), NEW l \in F(x) PROVE l \in F(s)
      <4>1. x \in Steps /\ up[x] = s /\ s # 0 /\ l \in Steps /\ x \in Above(l)
        BY <1>0, StepsFacts DEF Substeps
      <4>2. s \in Above(x)
        BY <4>1, AboveTells
      <4>3. s \in Above(l)
        BY <4>1, <4>2, AboveTrans
      <4>. QED
        BY <4>3
    <3>2. ASSUME NEW l \in F(s) PROVE \E x \in Substeps(s) : l \in F(x)
      <4>1. l \in Steps /\ l \in Leaves /\ s \in Above(l) /\ l # s
        BY <1>0, <2>2
      <4>. QED
        BY <4>1, NextOnPath
    <3>. QED
      BY <2>2, <3>1, <3>2
  <2>. QED
    BY <2>1, <2>2
<1>. HIDE DEF F
<1>2. ASSUME NEW s \in Steps
      PROVE  f[s] = E(s, f)
  BY <1>0, <1>1
<1>3. f = [s \in Steps |-> f[s]]
  OBVIOUS
<1>. HIDE DEF f
<1>4. f = [s \in Steps |-> IF s \in Leaves THEN {s} ELSE UNION {f[x] : x \in Substeps(s)}]
  BY <1>2, <1>3
<1>5. \E g : g = [s \in Steps |-> IF s \in Leaves THEN {s} ELSE UNION {g[x] : x \in Substeps(s)}]
  BY <1>4
<1>6. LeavesByStep =
        [s \in Steps |-> IF s \in Leaves THEN {s} ELSE UNION {LeavesByStep[x] : x \in Substeps(s)}]
  BY <1>5, Zenon DEF LeavesByStep
<1>. DEFINE S == {n \in Nat : \E s \in Steps : n = Len(up) - s /\ LeavesByStep[s] # F(s)}
<1>7. ASSUME S # {} PROVE FALSE
  <2>1. PICK n \in S : \A m \in S : n <= m
    BY <1>7, LeastNumber
  <2>2. PICK s \in Steps : n = Len(up) - s /\ LeavesByStep[s] # F(s)
    BY <2>1
  <2>3. Steps = 1..Len(up) /\ Len(up) \in Nat
    BY StepsFacts
  <2>4. ASSUME NEW x \in Substeps(s) PROVE LeavesByStep[x] = F(x)
    <3>1. x \in Steps /\ s < x
      BY StepsFacts DEF Substeps
    <3>2. Len(up) - x \in Nat /\ Len(up) - x < n
      BY <2>2, <2>3, <3>1
    <3>. QED
      BY <2>1, <3>1, <3>2
  <2>5. LeavesByStep[s] = IF s \in Leaves THEN {s} ELSE UNION {LeavesByStep[x] : x \in Substeps(s)}
    BY <1>6
  <2>. QED
    BY <1>1, <2>2, <2>4, <2>5
<1>8. LeavesByStep[d] = F(d)
  <2>1. Len(up) - d \in Nat
    BY StepsFacts
  <2>. QED
    BY <1>7, <2>1
<1>. QED
  BY <1>8 DEF F

\* Nobody waits for itself.
LEMMA NotForItself ==
  ASSUME PlanFormed, NEW a \in Steps
  PROVE  ~WaitsFor(a, a)
<1>1. SUFFICES ASSUME NEW x \in Above(a), NEW y \in Above(a), y \in needs[x] PROVE FALSE
  BY DEF WaitsFor
<1>2. x \in Steps /\ y # x /\ up[y] = up[x]
  BY <1>1, AboveTells, StepsFacts
<1>. QED
  BY <1>2, OneOfALevel

(* Plan.to_tasks gives a leaf the leaves it is to wait for, and no other.    *)
LEMMA AttachTells ==
  ASSUME PlanFormed, NEW a \in Leaves
  PROVE  Attach(a) = {b \in Leaves : WaitsFor(a, b)}
<1>1. a \in Steps /\ Leaves \subseteq Steps
  BY DEF Leaves
<1>2. Above(a) \subseteq Steps /\ \A x \in Steps : needs[x] \subseteq Steps
  BY <1>1, AboveTells, StepsFacts
<1>3. Inherited[a] = UNION {needs[x] : x \in Above(a)}
  BY <1>1, InheritedTells
<1>4. \A d \in Inherited[a] : LeavesByStep[d] = {l \in Leaves : d \in Above(l)}
  BY <1>2, <1>3, LeavesByStepTells
<1>5. ASSUME NEW b \in Leaves, WaitsFor(a, b) PROVE b \in Attach(a)
  <2>1. PICK x \in Above(a), y \in Above(b) : y \in needs[x]
    BY <1>5 DEF WaitsFor
  <2>2. b # a
    BY <1>1, <1>5, NotForItself
  <2>3. y \in Inherited[a]
    BY <1>3, <2>1
  <2>4. b \in LeavesByStep[y]
    BY <1>4, <2>1, <2>3
  <2>. QED
    BY <2>2, <2>3, <2>4 DEF Attach
<1>6. ASSUME NEW b \in Attach(a) PROVE b \in Leaves /\ WaitsFor(a, b)
  <2>1. PICK d \in Inherited[a] : b \in LeavesByStep[d]
    BY DEF Attach
  <2>. QED
    BY <1>3, <1>4, <2>1 DEF WaitsFor
<1>. QED
  BY <1>5, <1>6
-------------------------------------------------------------------------------
(* Plans: the order of the tasks                                             *)

\* Adding an element to a set, taking the first off a queue, and joining two.
LEMMA QueueMoves ==
  ASSUME NEW S, NEW q \in Seq(S)
  PROVE  /\ \A e \in S : /\ Append(q, e) \in Seq(S) /\ Range(Append(q, e)) = Range(q) \cup {e}
                         /\ DOMAIN Append(q, e) = 1..(Len(q) + 1) /\ Append(q, e)[Len(q) + 1] = e
                         /\ \A i \in 1..Len(q) : Append(q, e)[i] = q[i]
         /\ q # <<>> => /\ Head(q) \in S /\ Tail(q) \in Seq(S) /\ 1 \in DOMAIN q /\ q[1] = Head(q)
                        /\ Range(q) = {Head(q)} \cup Range(Tail(q))
                        /\ \A i \in DOMAIN Tail(q) : i + 1 \in DOMAIN q /\ Tail(q)[i] = q[i + 1]
         /\ DOMAIN q = 1..Len(q) /\ Len(q) \in Nat /\ Range(q) \subseteq S
<1>1. DOMAIN q = 1..Len(q) /\ Len(q) \in Nat /\ Range(q) \subseteq S
  BY LenProperties, RangeOfSeq
<1>2. ASSUME NEW e \in S
      PROVE  /\ Append(q, e) \in Seq(S) /\ Range(Append(q, e)) = Range(q) \cup {e}
             /\ DOMAIN Append(q, e) = 1..(Len(q) + 1) /\ Append(q, e)[Len(q) + 1] = e
             /\ \A i \in 1..Len(q) : Append(q, e)[i] = q[i]
  <2>. DEFINE a == Append(q, e)
  <2>1. /\ a \in Seq(S) /\ Len(a) = Len(q) + 1 /\ a[Len(q) + 1] = e
        /\ \A i \in 1..Len(q) : a[i] = q[i]
    BY AppendProperties
  <2>2. DOMAIN a = 1..(Len(q) + 1)
    BY <2>1, LenProperties
  <2>. HIDE DEF a
  <2>3. \A i \in 1..(Len(q) + 1) : i \in 1..Len(q) \/ i = Len(q) + 1
    BY <1>1
  <2>4. 1..Len(q) \subseteq 1..(Len(q) + 1) /\ Len(q) + 1 \in 1..(Len(q) + 1)
    BY <1>1
  <2>5. Range(a) = Range(q) \cup {e}
    <3>1. \A x \in Range(a) : x \in Range(q) \cup {e}
      BY <1>1, <2>1, <2>2, <2>3 DEF Range
    <3>2. \A x \in Range(q) \cup {e} : x \in Range(a)
      BY <1>1, <2>1, <2>2, <2>4 DEF Range
    <3>. QED
      BY <3>1, <3>2
  <2>. QED
    BY <2>1, <2>2, <2>5 DEF a
<1>3. ASSUME q # <<>>
      PROVE  /\ Head(q) \in S /\ Tail(q) \in Seq(S) /\ 1 \in DOMAIN q /\ q[1] = Head(q)
             /\ Range(q) = {Head(q)} \cup Range(Tail(q))
             /\ \A i \in DOMAIN Tail(q) : i + 1 \in DOMAIN q /\ Tail(q)[i] = q[i + 1]
  <2>. DEFINE h == Head(q)
              t == Tail(q)
  <2>1. /\ h \in S /\ t \in Seq(S) /\ Len(t) = Len(q) - 1
        /\ \A i \in 1..Len(t) : t[i] = q[i + 1]
    BY <1>3, HeadTailProperties
  <2>2. q[1] = h
    BY <1>3
  <2>3. Len(q) # 0
    BY <1>3, EmptySeq
  <2>4. DOMAIN t = 1..Len(t)
    BY <2>1, LenProperties
  <2>. HIDE DEF h, t
  <2>5. 1 \in DOMAIN q /\ \A i \in DOMAIN t : i + 1 \in DOMAIN q /\ t[i] = q[i + 1]
    BY <1>1, <2>1, <2>3, <2>4
  <2>6. Range(q) = {h} \cup Range(t)
    <3>1. ASSUME NEW i \in DOMAIN q PROVE q[i] = h \/ \E k \in DOMAIN t : t[k] = q[i]
      <4>1. CASE i = 1
        BY <2>2, <4>1
      <4>2. CASE i # 1
        <5>1. i - 1 \in DOMAIN t /\ (i - 1) + 1 = i
          BY <1>1, <2>1, <2>3, <2>4, <4>2
        <5>. QED
          BY <2>5, <5>1
      <4>. QED
        BY <4>1, <4>2
    <3>. QED
      BY <2>2, <2>5, <3>1 DEF Range
  <2>. QED
    BY <2>1, <2>2, <2>5, <2>6 DEF h, t
<1>. QED
  BY <1>1, <1>2, <1>3

LEMMA Joined ==
  ASSUME NEW S, NEW q \in Seq(S), NEW r \in Seq(S)
  PROVE  /\ q \o r \in Seq(S) /\ Range(q \o r) = Range(q) \cup Range(r)
         /\ DOMAIN (q \o r) = 1..(Len(q) + Len(r))
         /\ \A i \in 1..(Len(q) + Len(r)) :
              \/ i \in DOMAIN q /\ (q \o r)[i] = q[i]
              \/ i - Len(q) \in DOMAIN r /\ (q \o r)[i] = r[i - Len(q)] /\ i > Len(q)
<1>. DEFINE j == q \o r
<1>1. /\ j \in Seq(S) /\ Len(j) = Len(q) + Len(r)
      /\ \A i \in 1..(Len(q) + Len(r)) : j[i] = IF i <= Len(q) THEN q[i] ELSE r[i - Len(q)]
  BY ConcatProperties
<1>2. /\ DOMAIN q = 1..Len(q) /\ DOMAIN r = 1..Len(r) /\ Len(q) \in Nat /\ Len(r) \in Nat
  BY LenProperties
<1>3. DOMAIN j = 1..(Len(q) + Len(r))
  BY <1>1, LenProperties
<1>. HIDE DEF j
<1>4. ASSUME NEW i \in 1..(Len(q) + Len(r))
      PROVE  \/ i \in DOMAIN q /\ j[i] = q[i]
             \/ i - Len(q) \in DOMAIN r /\ j[i] = r[i - Len(q)] /\ i > Len(q)
  BY <1>1, <1>2
<1>5. \A i \in DOMAIN q : i \in DOMAIN j /\ j[i] = q[i]
  BY <1>1, <1>2, <1>3
<1>6. ASSUME NEW i \in DOMAIN r PROVE \E k \in DOMAIN j : j[k] = r[i]
  <2>1. Len(q) + i \in DOMAIN j /\ (Len(q) + i) - Len(q) = i /\ ~(Len(q) + i <= Len(q))
    BY <1>2, <1>3
  <2>. QED
    BY <1>1, <1>3, <2>1
<1>7. Range(j) = Range(q) \cup Range(r)
  <2>1. \A x \in Range(j) : x \in Range(q) \cup Range(r)
    BY <1>3, <1>4 DEF Range
  <2>2. \A x \in Range(q) \cup Range(r) : x \in Range(j)
    BY <1>5, <1>6 DEF Range
  <2>. QED
    BY <2>1, <2>2
<1>. QED
  BY <1>1, <1>3, <1>4, <1>7 DEF j

\* What is repeated n times: f is base, and after each round what G makes of it.
Rounds(f, T, base, G, N) ==
  f \in [0..N -> T] /\ f[0] = base /\ \A n \in 1..N : f[n] = G[f[n - 1]]

LEMMA Iterated ==
  ASSUME NEW T, NEW base \in T, NEW G \in [T -> T], NEW N \in Nat
  PROVE  \E f : Rounds(f, T, base, G, N)
<1>. DEFINE Solves(f, n) == f \in [0..n -> T] /\ \A m \in 0..n : f[m] = IF m = 0 THEN base ELSE G[f[m - 1]]
            S == {n \in Nat : ~\E f : Solves(f, n)}
<1>1. ASSUME S # {} PROVE FALSE
  <2>1. PICK l \in S : \A m \in S : l <= m
    BY <1>1, LeastNumber
  <2>2. l # 0
    <3>. DEFINE f == [m \in 0..0 |-> base]
    <3>1. Solves(f, 0)
      OBVIOUS
    <3>. QED
      BY <2>1, <3>1
  <2>. DEFINE n == l - 1
  <2>3. n \in Nat /\ n \notin S /\ n + 1 = l /\ l \in Nat
    <3>. HIDE DEF Solves
    <3>. QED
      BY <2>1, <2>2
  <2>4. PICK f : Solves(f, n)
    BY <2>3
  <2>. DEFINE g == [m \in 0..l |-> IF m = l THEN G[f[n]] ELSE f[m]]
  <2>5. \A m \in 0..l : /\ m # l => m \in 0..n /\ g[m] = f[m]
                        /\ m # 0 => m - 1 \in 0..n /\ m - 1 \in 0..l /\ g[m - 1] = f[m - 1]
    BY <2>3
  <2>6. \A m \in 0..n : f[m] \in T /\ f[m] = IF m = 0 THEN base ELSE G[f[m - 1]]
    BY <2>4
  <2>7. \A m \in 0..l : g[m] \in T /\ g[m] = IF m = 0 THEN base ELSE G[g[m - 1]]
    <3>. TAKE m \in 0..l
    <3>1. CASE m = l
      <4>1. g[m] = G[f[n]] /\ g[m - 1] = f[n] /\ m # 0 /\ n \in 0..n
        BY <2>2, <2>3, <2>5, <3>1
      <4>. QED
        BY <2>6, <4>1
    <3>2. CASE m # l
      BY <2>5, <2>6, <3>2
    <3>. QED
      BY <3>1, <3>2
  <2>8. g = [m \in 0..l |-> g[m]]
    OBVIOUS
  <2>. HIDE DEF g
  <2>9. Solves(g, l)
    BY <2>7, <2>8
  <2>. QED
    BY <2>1, <2>9
<1>2. PICK f : Solves(f, N)
  BY <1>1
<1>3. 0 \in 0..N /\ \A n \in 1..N : n \in 0..N /\ n # 0
  OBVIOUS
<1>. QED
  BY <1>2, <1>3 DEF Rounds

\* The elements of a finite set of numbers, each once.
LEMMA AscendingTells ==
  ASSUME NEW S \in SUBSET Nat, IsFiniteSet(S)
  PROVE  Ascending(S) \in Seq(S) /\ IsInjective(Ascending(S)) /\ Range(Ascending(S)) = S
<1>. DEFINE N == Cardinality(S)
            B(x) == {y \in S : y < x}
            C(x) == Cardinality(B(x))
            o == Ascending(S)
<1>1. N \in Nat /\ IsFiniteSet(1..N) /\ Cardinality(1..N) = N
  <2>1. N \in Nat
    BY FS_CardinalityType
  <2>. QED
    BY <2>1, CountsUpTo
<1>2. ASSUME NEW x \in S PROVE IsFiniteSet(B(x)) /\ C(x) \in Nat /\ C(x) < N
  <2>1. B(x) \subseteq S /\ x \notin B(x) /\ x \in S
    OBVIOUS
  <2>. HIDE DEF B
  <2>2. IsFiniteSet(B(x)) /\ C(x) <= N /\ C(x) # N
    BY <2>1, FS_Subset
  <2>3. C(x) \in Nat
    BY <2>2, FS_CardinalityType
  <2>. QED
    BY <1>1, <2>2, <2>3
<1>3. ASSUME NEW x \in S, NEW y \in S, x < y PROVE C(x) < C(y)
  <2>1. B(x) \subseteq B(y) /\ x \in B(y) /\ x \notin B(x)
    <3>1. x \in Nat /\ y \in Nat
      OBVIOUS
    <3>2. ASSUME NEW z \in S, z < x PROVE z < y
      <4>1. z \in Nat
        OBVIOUS
      <4>. QED
        BY <1>3, <3>1, <3>2, <4>1
    <3>3. x < y /\ ~(x < x)
      BY <1>3, <3>1
    <3>. QED
      BY <3>2, <3>3
  <2>2. IsFiniteSet(B(y)) /\ C(x) \in Nat /\ C(y) \in Nat
    BY <1>2
  <2>. HIDE DEF B
  <2>3. C(x) <= C(y) /\ C(x) # C(y)
    BY <2>1, <2>2, FS_Subset
  <2>. QED
    BY <2>2, <2>3
<1>4. ASSUME NEW x \in S, NEW y \in S, C(x) = C(y) PROVE x = y
  <2>1. C(x) \in Nat /\ C(y) \in Nat /\ x \in Nat /\ y \in Nat
    BY <1>2
  <2>2. ~(x < y) /\ ~(y < x)
    BY <1>3, <1>4, <2>1
  <2>. QED
    BY <2>1, <2>2
<1>. HIDE DEF B
<1>5. ASSUME NEW n \in 1..N PROVE \E x \in S : C(x) = n - 1
  <2>. DEFINE g == [x \in S |-> C(x) + 1]
  <2>1. g \in [S -> 1..N] /\ \A x, y \in S : g[x] = g[y] => x = y
    BY <1>1, <1>2, <1>4
  <2>2. g \in Injection(S, 1..N)
    BY <2>1 DEF Injection, IsInjective
  <2>3. g \in Surjection(S, 1..N)
    BY <1>1, <2>2, FS_Injection
  <2>4. PICK x \in S : g[x] = n
    BY <2>3 DEF Surjection
  <2>. QED
    BY <1>2, <2>4
<1>. DEFINE pick(n) == CHOOSE x \in S : C(x) = n - 1
<1>6. ASSUME NEW n \in 1..N PROVE pick(n) \in S /\ C(pick(n)) = n - 1
  BY <1>5
<1>7. o = [n \in 1..N |-> pick(n)]
  BY DEF Ascending, B
<1>. HIDE DEF o, C, pick
<1>8. DOMAIN o = 1..N /\ \A n \in 1..N : o[n] \in S /\ C(o[n]) = n - 1
  BY <1>6, <1>7
<1>13. o \in [1..N -> S]
  BY <1>6, <1>7
<1>9. o \in Seq(S)
  BY <1>1, <1>13, SeqDef
<1>10. IsInjective(o)
  <2>1. \A m, n \in 1..N : o[m] = o[n] => m = n
    BY <1>1, <1>8
  <2>. QED
    BY <1>8, <2>1 DEF IsInjective
<1>11. ASSUME NEW x \in S PROVE \E n \in DOMAIN o : o[n] = x
  <2>1. C(x) + 1 \in 1..N /\ (C(x) + 1) - 1 = C(x)
    BY <1>1, <1>2
  <2>2. o[C(x) + 1] \in S /\ C(o[C(x) + 1]) = C(x)
    BY <1>8, <2>1
  <2>. QED
    BY <1>4, <1>8, <2>1, <2>2
<1>12. Range(o) = S
  BY <1>8, <1>11 DEF Range
<1>. QED
  BY <1>9, <1>10, <1>12 DEF o
\* Moves of queues without doubles leave none.
LEMMA OnceMoves ==
  ASSUME NEW S, NEW q \in Seq(S), IsInjective(q)
  PROVE  /\ \A e \in S : e \notin Range(q) => IsInjective(Append(q, e))
         /\ q # <<>> => IsInjective(Tail(q)) /\ Head(q) \notin Range(Tail(q))
<1>0. DOMAIN q = 1..Len(q) /\ Len(q) \in Nat
  BY QueueMoves
<1>1. ASSUME NEW e \in S, e \notin Range(q) PROVE IsInjective(Append(q, e))
  <2>. DEFINE a == Append(q, e)
  <2>1. /\ DOMAIN a = 1..(Len(q) + 1) /\ a[Len(q) + 1] = e
        /\ \A i \in 1..Len(q) : a[i] = q[i]
    BY QueueMoves
  <2>. HIDE DEF a
  <2>2. \A i \in 1..(Len(q) + 1) : i \in 1..Len(q) \/ i = Len(q) + 1
    BY <1>0
  <2>3. \A i \in 1..Len(q) : q[i] # e
    BY <1>0, <1>1 DEF Range
  <2>4. \A i, j \in 1..Len(q) : q[i] = q[j] => i = j
    BY <1>0 DEF IsInjective
  <2>5. \A i, j \in 1..(Len(q) + 1) : a[i] = a[j] => i = j
    BY <2>1, <2>2, <2>3, <2>4
  <2>6. IsInjective(a)
    BY <2>1, <2>5 DEF IsInjective
  <2>. QED
    BY <2>6 DEF a
<1>2. ASSUME q # <<>> PROVE IsInjective(Tail(q)) /\ Head(q) \notin Range(Tail(q))
  <2>. DEFINE t == Tail(q)
  <2>1. /\ t \in Seq(S) /\ 1 \in DOMAIN q /\ q[1] = Head(q)
        /\ \A i \in DOMAIN t : i + 1 \in DOMAIN q /\ t[i] = q[i + 1]
    BY <1>2, QueueMoves
  <2>2. DOMAIN t = 1..Len(t) /\ Len(t) \in Nat
    BY <2>1, QueueMoves
  <2>. HIDE DEF t
  <2>3. \A i, j \in DOMAIN q : q[i] = q[j] => i = j
    BY DEF IsInjective
  <2>4. \A i, j \in DOMAIN t : t[i] = t[j] => i = j
    BY <2>1, <2>2, <2>3
  <2>5. \A i \in DOMAIN t : t[i] # q[1]
    BY <2>1, <2>2, <2>3
  <2>6. IsInjective(t) /\ Head(q) \notin Range(t)
    BY <2>1, <2>4, <2>5 DEF IsInjective, Range
  <2>. QED
    BY <2>6 DEF t
<1>. QED
  BY <1>1, <1>2

LEMMA OnceJoined ==
  ASSUME NEW S, NEW q \in Seq(S), NEW r \in Seq(S), IsInjective(q), IsInjective(r),
         Range(q) \cap Range(r) = {}
  PROVE  IsInjective(q \o r)
<1>. DEFINE j == q \o r
            L == Len(q) + Len(r)
<1>1. /\ DOMAIN j = 1..L
      /\ \A i \in 1..L : \/ i \in DOMAIN q /\ j[i] = q[i]
                         \/ i - Len(q) \in DOMAIN r /\ j[i] = r[i - Len(q)] /\ i > Len(q)
  BY Joined
<1>2. Len(q) \in Nat /\ Len(r) \in Nat
  BY LenProperties
<1>. HIDE DEF j
<1>3. /\ \A m, n \in DOMAIN q : q[m] = q[n] => m = n
      /\ \A m, n \in DOMAIN r : r[m] = r[n] => m = n
      /\ \A m \in DOMAIN q, n \in DOMAIN r : q[m] # r[n]
  BY DEF IsInjective, Range
<1>4. ASSUME NEW m \in 1..L, NEW n \in 1..L, j[m] = j[n] PROVE m = n
  <2>1. m - Len(q) = n - Len(q) => m = n
    BY <1>2
  <2>2. CASE m \in DOMAIN q /\ j[m] = q[m]
    BY <1>1, <1>3, <1>4, <2>2
  <2>3. CASE m - Len(q) \in DOMAIN r /\ j[m] = r[m - Len(q)]
    BY <1>1, <1>3, <1>4, <2>1, <2>3
  <2>. QED
    BY <1>1, <2>2, <2>3
<1>5. IsInjective(j)
  BY <1>1, <1>4 DEF IsInjective
<1>. QED
  BY <1>5 DEF j

\* Between two rounds of Kahn's algorithm.
NeedsFirst(q) == \A i \in DOMAIN q : \A d \in needs[q[i]] : \E k \in DOMAIN q : k < i /\ q[k] = d

KahnStates(level) ==
  {r \in [order : Seq(level), ready : Seq(level)] :
     /\ IsInjective(r.order) /\ IsInjective(r.ready)
     /\ Range(r.order) \cap Range(r.ready) = {}
     /\ NeedsFirst(r.order)
     /\ \A x \in Range(r.ready) : needs[x] \subseteq Range(r.order)
     /\ \A x \in level : needs[x] \subseteq Range(r.order) => x \in Range(r.order) \cup Range(r.ready)}

LEMMA KahnStarts ==
  ASSUME PlanFormed, NEW level \in SUBSET Steps
  PROVE  [order |-> <<>>, ready |-> Ascending({x \in level : needs[x] = {}})] \in KahnStates(level)
<1>. DEFINE F == {x \in level : needs[x] = {}}
            r == [order |-> <<>>, ready |-> Ascending(F)]
<1>1. F \in SUBSET Nat /\ IsFiniteSet(F)
  BY StepsFacts, FS_Subset
<1>2. Ascending(F) \in Seq(F) /\ IsInjective(Ascending(F)) /\ Range(Ascending(F)) = F
  BY <1>1, AscendingTells
<1>3. Ascending(F) \in Seq(level)
  BY <1>2, SeqMonotonic
<1>4. <<>> \in Seq(level) /\ DOMAIN <<>> = {}
  BY EmptySeq
<1>5. IsInjective(<<>>) /\ Range(<<>>) = {} /\ NeedsFirst(<<>>)
  BY <1>4 DEF IsInjective, Range, NeedsFirst
<1>. QED
  BY <1>2, <1>3, <1>4, <1>5 DEF KahnStates

LEMMA TakenKeeps ==
  ASSUME PlanFormed, NEW level \in SUBSET Steps, NEW r \in KahnStates(level), r.ready # <<>>
  PROVE  Taken(level, r) \in KahnStates(level) /\ Len(Taken(level, r).order) = Len(r.order) + 1
<1>. DEFINE h == Head(r.ready)
            t == Tail(r.ready)
            o == Append(r.order, h)
            F == {x \in level : h \in needs[x] /\ needs[x] \subseteq Range(o)}
            n == [order |-> o, ready |-> t \o Ascending(F)]
<1>1. /\ r.order \in Seq(level) /\ r.ready \in Seq(level)
      /\ IsInjective(r.order) /\ IsInjective(r.ready)
      /\ Range(r.order) \cap Range(r.ready) = {}
      /\ NeedsFirst(r.order)
      /\ \A x \in Range(r.ready) : needs[x] \subseteq Range(r.order)
      /\ \A x \in level : needs[x] \subseteq Range(r.order) => x \in Range(r.order) \cup Range(r.ready)
  BY DEF KahnStates
<1>2. /\ h \in level /\ t \in Seq(level) /\ Range(r.ready) = {h} \cup Range(t)
      /\ IsInjective(t) /\ h \notin Range(t)
  BY <1>1, QueueMoves, OnceMoves
<1>3. h \notin Range(r.order) /\ needs[h] \subseteq Range(r.order)
  BY <1>1, <1>2
<1>4. /\ o \in Seq(level) /\ Range(o) = Range(r.order) \cup {h} /\ IsInjective(o)
      /\ DOMAIN o = 1..(Len(r.order) + 1) /\ o[Len(r.order) + 1] = h
      /\ \A i \in 1..Len(r.order) : o[i] = r.order[i]
  BY <1>1, <1>2, <1>3, QueueMoves, OnceMoves
<1>5. DOMAIN r.order = 1..Len(r.order) /\ Len(r.order) \in Nat
  BY <1>1, QueueMoves
<1>. DEFINE q == r.order
<1>6. NeedsFirst(o)
  <2>. HIDE DEF o, h
  <2>1. SUFFICES ASSUME NEW i \in DOMAIN o, NEW d \in needs[o[i]]
                 PROVE  \E k \in DOMAIN o : k < i /\ o[k] = d
    BY DEF NeedsFirst
  <2>2. CASE i \in 1..Len(q)
    <3>1. d \in needs[q[i]] /\ i \in DOMAIN q
      BY <1>4, <1>5, <2>1, <2>2
    <3>2. PICK k \in DOMAIN q : k < i /\ q[k] = d
      BY <1>1, <3>1 DEF NeedsFirst
    <3>3. k \in DOMAIN o /\ o[k] = d
      BY <1>4, <1>5, <3>2
    <3>. QED
      BY <3>2, <3>3
  <2>3. CASE i \notin 1..Len(q)
    <3>1. i = Len(q) + 1
      BY <1>4, <1>5, <2>3
    <3>2. d \in Range(q)
      BY <1>3, <1>4, <2>1, <3>1
    <3>3. PICK k \in DOMAIN q : q[k] = d
      BY <3>2 DEF Range
    <3>4. k \in DOMAIN o /\ k < i /\ o[k] = d
      BY <1>4, <1>5, <3>1, <3>3
    <3>. QED
      BY <3>4
  <2>. QED
    BY <2>2, <2>3
<1>7. F \in SUBSET Nat /\ IsFiniteSet(F) /\ F \subseteq level
  <2>1. F \subseteq level /\ level \subseteq Steps
    OBVIOUS
  <2>. HIDE DEF F
  <2>. QED
    BY <2>1, StepsFacts, FS_Subset
<1>8. /\ F \cap Range(o) = {} /\ F \cap Range(t) = {}
      /\ \A x \in F : needs[x] \subseteq Range(o)
  <2>1. ASSUME NEW x \in F, x \in Range(q) PROVE FALSE
    <3>1. PICK i \in DOMAIN q : q[i] = x
      BY <2>1 DEF Range
    <3>2. h \in needs[q[i]]
      BY <3>1
    <3>3. \E k \in DOMAIN q : q[k] = h
      BY <1>1, <3>2 DEF NeedsFirst
    <3>. QED
      BY <1>3, <3>3 DEF Range
  <2>2. ASSUME NEW x \in F, x \in Range(r.ready) PROVE FALSE
    BY <1>1, <1>3, <2>2
  <2>. QED
    BY <1>2, <1>4, <2>1, <2>2
<1>0. \A x \in level : needs[x] \subseteq Range(o) => x \in Range(o) \cup Range(t) \cup F
  BY <1>1, <1>2, <1>4
<1>. HIDE DEF F
<1>9. Ascending(F) \in Seq(level) /\ IsInjective(Ascending(F)) /\ Range(Ascending(F)) = F
  BY <1>7, AscendingTells, SeqMonotonic
<1>10. /\ t \o Ascending(F) \in Seq(level) /\ IsInjective(t \o Ascending(F))
       /\ Range(t \o Ascending(F)) = Range(t) \cup F
  <2>. HIDE DEF t
  <2>1. Range(t) \cap Range(Ascending(F)) = {}
    BY <1>8, <1>9
  <2>. QED
    BY <1>2, <1>9, <2>1, Joined, OnceJoined
<1>11. Range(o) \cap Range(t \o Ascending(F)) = {}
  BY <1>1, <1>2, <1>4, <1>8, <1>10
<1>12. \A x \in Range(t \o Ascending(F)) : needs[x] \subseteq Range(o)
  BY <1>1, <1>2, <1>4, <1>8, <1>10
<1>13. \A x \in level : needs[x] \subseteq Range(o) => x \in Range(o) \cup Range(t \o Ascending(F))
  BY <1>0, <1>10
<1>14. n \in KahnStates(level)
  <2>. HIDE DEF h, t, o
  <2>. QED
    BY <1>4, <1>6, <1>10, <1>11, <1>12, <1>13 DEF KahnStates
<1>15. Len(n.order) = Len(r.order) + 1
  BY <1>1, <1>2, AppendProperties
<1>. QED
  BY <1>14, <1>15 DEF Taken, F

\* The rounds solve the equation of Kahn, and what is between them is as it should be.
LEMMA KahnTells ==
  ASSUME PlanFormed, NEW s \in Steps \cup {0}
  PROVE  \A n \in 0..Cardinality(Substeps(s)) :
           /\ Kahn(s)[n] \in KahnStates(Substeps(s))
           /\ Kahn(s)[n].ready # <<>> => Len(Kahn(s)[n].order) = n
<1>. DEFINE level == Substeps(s)
            N == Cardinality(level)
            T == KahnStates(level)
            base == [order |-> <<>>, ready |-> Ascending({x \in level : needs[x] = {}})]
            Next1(r) == IF r.ready = <<>> THEN r ELSE Taken(level, r)
            G == [r \in T |-> Next1(r)]
<1>1. level \in SUBSET Steps /\ N \in Nat
  <2>1. level \in SUBSET Steps
    BY DEF Substeps
  <2>. QED
    BY <2>1, StepsFacts, FS_Subset, FS_CardinalityType
<1>2. base \in T
  BY <1>1, KahnStarts
<1>. HIDE DEF level, base, T
<1>3. ASSUME NEW r \in T
      PROVE  Next1(r) \in T /\ (r.ready # <<>> => Len(Next1(r).order) = Len(r.order) + 1)
  BY <1>1, TakenKeeps DEF T
<1>0. Len(base.order) = 0
  BY EmptySeq DEF base
<1>13. \A r \in T : r.ready = <<>> => Next1(r).ready = <<>>
  OBVIOUS
<1>. HIDE DEF Next1, N
<1>4. G \in [T -> T]
  BY <1>3
<1>5. PICK f : Rounds(f, T, base, G, N)
  <2>. HIDE DEF G
  <2>. QED
    BY <1>1, <1>2, <1>4, Iterated
<1>6. f = [n \in 0..N |-> IF n = 0 THEN base ELSE Next1(f[n - 1])]
  <2>1. \A n \in 0..N : f[n] \in T /\ f[n] = IF n = 0 THEN base ELSE G[f[n - 1]]
    <3>1. \A n \in 0..N : n = 0 \/ n \in 1..N
      BY <1>1
    <3>. QED
      BY <1>5, <3>1 DEF Rounds
  <2>2. ASSUME NEW n \in 0..N PROVE f[n] = IF n = 0 THEN base ELSE Next1(f[n - 1])
    <3>1. n # 0 => n - 1 \in 0..N
      BY <1>1
    <3>. QED
      BY <2>1, <3>1
  <2>3. f = [n \in 0..N |-> f[n]]
    BY <1>5 DEF Rounds
  <2>. QED
    BY <2>2, <2>3
<1>7. \E g : g = [n \in 0..N |-> IF n = 0 THEN base ELSE Next1(g[n - 1])]
  BY <1>6
<1>8. Kahn(s) = [n \in 0..N |-> IF n = 0 THEN base ELSE Next1(Kahn(s)[n - 1])]
  BY <1>7, Zenon DEF Kahn, level, base, Next1, N
<1>. DEFINE Good(n) == /\ Kahn(s)[n] \in T
                       /\ Kahn(s)[n].ready # <<>> => Len(Kahn(s)[n].order) = n
            S == {n \in 0..N : ~Good(n)}
<1>9. ASSUME S # {} PROVE FALSE
  <2>1. S \in SUBSET Nat
    BY <1>1
  <2>2. PICK n \in S : \A m \in S : n <= m
    BY <1>9, <2>1, LeastNumber
  <2>3. n \in 0..N /\ ~Good(n)
    OBVIOUS
  <2>4. n # 0
    BY <1>0, <1>2, <1>8, <2>3
  <2>5. n - 1 \in 0..N /\ n - 1 \notin S
    BY <1>1, <2>2, <2>3, <2>4
  <2>6. Kahn(s)[n] = Next1(Kahn(s)[n - 1])
    BY <1>8, <2>3, <2>4
  <2>7. Good(n - 1) /\ n - 1 + 1 = n
    BY <2>3, <2>5
  <2>8. Kahn(s)[n] \in T
    BY <1>3, <2>6, <2>7
  <2>9. Kahn(s)[n].ready # <<>> => Len(Kahn(s)[n].order) = n
    BY <1>3, <1>13, <2>6, <2>7
  <2>. QED
    BY <2>3, <2>8, <2>9
<1>. QED
  BY <1>9 DEF T, N, level

(* A level is sorted so that each step comes after those it needs, and is    *)
(* sorted as a whole unless it raises (_toposort).                           *)
LEMMA ToposortTells ==
  ASSUME PlanFormed, NEW s \in Steps \cup {0}
  PROVE  /\ Toposort(s) \in Seq(Substeps(s)) /\ IsInjective(Toposort(s)) /\ NeedsFirst(Toposort(s))
         /\ Len(Toposort(s)) = Cardinality(Substeps(s)) => Range(Toposort(s)) = Substeps(s)
<1>. DEFINE level == Substeps(s)
            N == Cardinality(level)
            r == Kahn(s)[N]
            o == Toposort(s)
<1>1. IsFiniteSet(level) /\ N \in Nat
  <2>1. level \in SUBSET Steps
    BY DEF Substeps
  <2>. QED
    BY <2>1, StepsFacts, FS_Subset, FS_CardinalityType
<1>2. r \in KahnStates(level)
  BY <1>1, KahnTells
<1>3. o = r.order
  BY DEF Toposort
<1>4. o \in Seq(level) /\ IsInjective(o) /\ NeedsFirst(o)
  <2>. HIDE DEF r, o
  <2>. QED
    BY <1>2, <1>3 DEF KahnStates
<1>. HIDE DEF o, level
<1>5. ASSUME Len(o) = N PROVE Range(o) = level
  <2>1. DOMAIN o = 1..N /\ o \in [1..N -> level] /\ IsFiniteSet(1..N) /\ Cardinality(1..N) = N
    <3>1. o \in [1..N -> level] /\ DOMAIN o = 1..N
      BY <1>4, <1>5, LenProperties
    <3>. HIDE DEF N
    <3>. QED
      BY <1>1, <3>1, CountsUpTo
  <2>2. o \in Injection(1..N, level)
    BY <1>4, <2>1 DEF Injection, IsInjective
  <2>3. o \in Surjection(1..N, level)
    BY <1>1, <2>1, <2>2, FS_Injection
  <2>. QED
    BY <2>1, <2>3 DEF Surjection, Range
<1>. QED
  BY <1>4, <1>5 DEF o, level

\* In every set of steps of a level one needs none of them.
NoCycle(level) == \A S \in SUBSET level : S # {} => \E x \in S : needs[x] \cap S = {}

(* _toposort raises for a cycle and for nothing else.                        *)
LEMMA SortedUnlessCycle ==
  ASSUME PlanFormed, NEW s \in Steps \cup {0}
  PROVE  Len(Toposort(s)) = Cardinality(Substeps(s)) <=> NoCycle(Substeps(s))
<1>. DEFINE level == Substeps(s)
            N == Cardinality(level)
            r == Kahn(s)[N]
            o == Toposort(s)
<1>1. /\ IsFiniteSet(level) /\ N \in Nat /\ level \subseteq Steps
      /\ \A x \in level : needs[x] \subseteq level
  <2>1. level \in SUBSET Steps
    BY DEF Substeps
  <2>2. \A x \in level : needs[x] \subseteq level
    BY StepsFacts DEF Substeps
  <2>. QED
    BY <2>1, <2>2, StepsFacts, FS_Subset, FS_CardinalityType
<1>2. r \in KahnStates(level) /\ (r.ready # <<>> => Len(r.order) = N)
  BY <1>1, KahnTells
<1>3. o = r.order
  BY DEF Toposort
<1>4. /\ o \in Seq(level) /\ IsInjective(o) /\ NeedsFirst(o)
      /\ Len(o) = N => Range(o) = level
      /\ Range(o) \subseteq level /\ DOMAIN o = 1..Len(o) /\ Len(o) \in Nat
  <2>1. o \in Seq(level)
    BY ToposortTells
  <2>. HIDE DEF o
  <2>2. Range(o) \subseteq level /\ DOMAIN o = 1..Len(o) /\ Len(o) \in Nat
    BY <2>1, QueueMoves
  <2>. QED
    BY <2>1, <2>2, ToposortTells DEF o
<1>. HIDE DEF r, o, N
<1>5. ASSUME Len(o) = N PROVE NoCycle(level)
  <2>. SUFFICES ASSUME NEW S \in SUBSET level, S # {} PROVE \E x \in S : needs[x] \cap S = {}
    BY DEF NoCycle
  <2>. DEFINE J == {i \in DOMAIN o : o[i] \in S}
  <2>1. J \in SUBSET Nat /\ J # {}
    BY <1>4, <1>5 DEF Range
  <2>2. PICK i \in J : \A k \in J : i <= k
    BY <2>1, LeastNumber
  <2>3. ASSUME NEW d \in needs[o[i]], d \in S PROVE FALSE
    <3>1. PICK k \in DOMAIN o : k < i /\ o[k] = d
      BY <1>4, <2>3 DEF NeedsFirst
    <3>2. k \in J /\ k \in Nat /\ i \in Nat
      BY <2>1, <2>3, <3>1
    <3>. QED
      BY <2>2, <3>1, <3>2
  <2>. QED
    BY <2>3
<1>6. ASSUME NoCycle(level) PROVE Len(o) = N
  <2>1. CASE r.ready # <<>>
    BY <1>2, <1>3, <2>1
  <2>2. CASE r.ready = <<>>
    <3>. DEFINE left == level \ Range(o)
    <3>1. \A x \in level : needs[x] \subseteq Range(o) => x \in Range(o)
      <4>1. Range(r.ready) = {}
        BY <2>2, EmptySeq DEF Range
      <4>. QED
        BY <1>2, <1>3, <4>1 DEF KahnStates
    <3>2. left = {}
      <4>1. \A x \in left : needs[x] \cap left # {}
        BY <1>1, <3>1
      <4>. HIDE DEF left
      <4>2. left \in SUBSET level
        BY DEF left
      <4>. QED
        BY <1>6, <4>1, <4>2 DEF NoCycle
    <3>3. o \in Bijection(1..Len(o), level)
      <4>1. o \in [1..Len(o) -> level]
        BY <1>4, LenProperties
      <4>2. \A x \in level : \E i \in 1..Len(o) : o[i] = x
        BY <1>4, <3>2 DEF Range
      <4>. QED
        BY <1>4, <4>1, <4>2 DEF Bijection, Injection, Surjection, IsInjective
    <3>4. IsFiniteSet(1..Len(o)) /\ Cardinality(1..Len(o)) = Len(o)
      BY <1>4, CountsUpTo
    <3>. QED
      <4>1. o \in Injection(1..Len(o), level) /\ o \in Surjection(1..Len(o), level)
        BY <3>3 DEF Bijection
      <4>2. Cardinality(1..Len(o)) = Cardinality(level)
        BY <1>1, <4>1, FS_Injection
      <4>. QED
        BY <3>4, <4>2 DEF N
  <2>. QED
    BY <2>1, <2>2
<1>. QED
  BY <1>5, <1>6 DEF o, N

\* Where the paths to a and b part, the one to a comes first in its level.
Earlier(a, b) ==
  \E x \in Above(a), y \in Above(b) :
    /\ up[x] = up[y]
    /\ \E i, j \in DOMAIN Toposort(up[x]) :
         i < j /\ Toposort(up[x])[i] = x /\ Toposort(up[x])[j] = y

InOrder(q) == \A i, j \in DOMAIN q : i < j => Earlier(q[i], q[j])

\* What comes later in this order nobody waits for.
LEMMA NeverForLater ==
  ASSUME PlanFormed, NEW a \in Steps, NEW b \in Steps, Earlier(a, b)
  PROVE  a # b /\ ~WaitsFor(a, b)
<1>1. PICK x \in Above(a), y \in Above(b) :
        /\ up[x] = up[y]
        /\ \E i, j \in DOMAIN Toposort(up[x]) :
             i < j /\ Toposort(up[x])[i] = x /\ Toposort(up[x])[j] = y
  BY DEF Earlier
<1>. DEFINE T == Toposort(up[x])
<1>2. PICK i \in DOMAIN T, j \in DOMAIN T : i < j /\ T[i] = x /\ T[j] = y
  BY <1>1
<1>3. x \in Steps /\ y \in Steps /\ up[x] \in Steps \cup {0}
  <2>1. x \in Steps /\ y \in Steps
    BY AboveTells
  <2>. QED
    BY <2>1, StepsFacts
<1>4. T \in Seq(Substeps(up[x])) /\ IsInjective(T) /\ NeedsFirst(T)
  BY <1>3, ToposortTells
<1>5. i \in Nat /\ j \in Nat
  <2>1. DOMAIN T = 1..Len(T)
    BY <1>4, LenProperties
  <2>. HIDE DEF T
  <2>. QED
    BY <2>1
<1>. HIDE DEF T
<1>6. x # y
  BY <1>2, <1>4, <1>5 DEF IsInjective
<1>7. a # b
  BY <1>1, <1>6, OneOfALevel
<1>8. ASSUME WaitsFor(a, b) PROVE FALSE
  <2>1. PICK u \in Above(a), v \in Above(b) : v \in needs[u]
    BY <1>8 DEF WaitsFor
  <2>2. up[u] = up[v] /\ u # v
    <3>1. u \in Steps
      BY AboveTells
    <3>. QED
      BY <2>1, <3>1, StepsFacts
  <2>3. x = u /\ y = v
    BY <1>1, <1>6, <2>2, PartOnce
  <2>4. y \in needs[T[i]]
    BY <1>2, <2>1, <2>3
  <2>5. PICK k \in DOMAIN T : k < i /\ T[k] = y
    BY <2>4, <1>4 DEF NeedsFirst
  <2>6. k = j
    BY <1>2, <1>4, <2>5 DEF IsInjective
  <2>. QED
    BY <1>2, <1>5, <2>5, <2>6
<1>. QED
  BY <1>7, <1>8

\* Substeps take the place of their step.
LEMMA EarlierBelow ==
  ASSUME PlanFormed, NEW h \in Steps, NEW c \in Substeps(h)
  PROVE  /\ \A u : Earlier(u, h) => Earlier(u, c)
         /\ \A v : Earlier(h, v) => Earlier(c, v)
<1>1. c \in Steps /\ up[c] = h /\ h # 0
  BY StepsFacts DEF Substeps
<1>2. Above(h) \subseteq Above(c)
  BY <1>1, AboveTells
<1>. QED
  BY <1>2 DEF Earlier

LEMMA LevelInOrder ==
  ASSUME PlanFormed, NEW s \in Steps \cup {0}
  PROVE  InOrder(Toposort(s))
<1>. DEFINE T == Toposort(s)
<1>1. T \in Seq(Substeps(s))
  BY ToposortTells
<1>2. ASSUME NEW i \in DOMAIN T, NEW j \in DOMAIN T, i < j PROVE Earlier(T[i], T[j])
  <2>1. T[i] \in Substeps(s) /\ T[j] \in Substeps(s)
    <3>. HIDE DEF T
    <3>. QED
      BY <1>1, QueueMoves DEF Range
  <2>2. /\ T[i] \in Steps /\ up[T[i]] = s /\ T[i] \in Above(T[i])
        /\ T[j] \in Steps /\ up[T[j]] = s /\ T[j] \in Above(T[j])
    <3>. HIDE DEF T
    <3>. QED
      BY <2>1, AboveTells DEF Substeps
  <2>. QED
    BY <1>2, <2>2 DEF Earlier
<1>. QED
  BY <1>2 DEF InOrder

\* The order of queues.
LEMMA OrderMoves ==
  ASSUME NEW S, NEW q \in Seq(S), InOrder(q)
  PROVE  /\ \A e \in S : (\A u \in Range(q) : Earlier(u, e)) => InOrder(Append(q, e))
         /\ q # <<>> => InOrder(Tail(q)) /\ \A v \in Range(Tail(q)) : Earlier(Head(q), v)
         /\ \A r \in Seq(S) : InOrder(r) /\ (\A u \in Range(q), v \in Range(r) : Earlier(u, v))
                              => InOrder(q \o r)
<1>0. DOMAIN q = 1..Len(q) /\ Len(q) \in Nat /\ \A i, j \in DOMAIN q : i < j => Earlier(q[i], q[j])
  BY QueueMoves DEF InOrder
<1>1. ASSUME NEW e \in S, \A u \in Range(q) : Earlier(u, e) PROVE InOrder(Append(q, e))
  <2>. DEFINE a == Append(q, e)
  <2>1. /\ DOMAIN a = 1..(Len(q) + 1) /\ a[Len(q) + 1] = e
        /\ \A i \in 1..Len(q) : a[i] = q[i]
    BY QueueMoves
  <2>. HIDE DEF a
  <2>2. ASSUME NEW i \in DOMAIN a, NEW j \in DOMAIN a, i < j PROVE Earlier(a[i], a[j])
    <3>1. i \in 1..Len(q) /\ (j \in 1..Len(q) \/ j = Len(q) + 1)
      BY <1>0, <2>1, <2>2
    <3>2. a[i] = q[i] /\ a[i] \in Range(q)
      BY <1>0, <2>1, <3>1 DEF Range
    <3>3. CASE j \in 1..Len(q)
      BY <1>0, <2>1, <2>2, <3>1, <3>3
    <3>4. CASE j = Len(q) + 1
      BY <1>1, <2>1, <3>2, <3>4
    <3>. QED
      BY <3>1, <3>3, <3>4
  <2>3. InOrder(a)
    BY <2>2 DEF InOrder
  <2>. QED
    BY <2>3 DEF a
<1>2. ASSUME q # <<>> PROVE InOrder(Tail(q)) /\ \A v \in Range(Tail(q)) : Earlier(Head(q), v)
  <2>. DEFINE t == Tail(q)
              h == Head(q)
  <2>1. /\ t \in Seq(S) /\ 1 \in DOMAIN q /\ q[1] = h
        /\ \A i \in DOMAIN t : i + 1 \in DOMAIN q /\ t[i] = q[i + 1]
    BY <1>2, QueueMoves
  <2>2. DOMAIN t = 1..Len(t) /\ Len(t) \in Nat
    BY <2>1, QueueMoves
  <2>. HIDE DEF t, h
  <2>3. ASSUME NEW i \in DOMAIN t, NEW j \in DOMAIN t, i < j PROVE Earlier(t[i], t[j])
    <3>1. i + 1 < j + 1
      BY <2>2, <2>3
    <3>. QED
      BY <1>0, <2>1, <3>1
  <2>4. ASSUME NEW j \in DOMAIN t PROVE Earlier(h, t[j])
    <3>1. 1 < j + 1
      BY <2>2
    <3>. QED
      BY <1>0, <2>1, <3>1
  <2>5. InOrder(t) /\ \A v \in Range(t) : Earlier(h, v)
    BY <2>3, <2>4 DEF InOrder, Range
  <2>. QED
    BY <2>5 DEF t, h
<1>3. ASSUME NEW r \in Seq(S), InOrder(r), \A u \in Range(q), v \in Range(r) : Earlier(u, v)
      PROVE  InOrder(q \o r)
  <2>. DEFINE j == q \o r
              L == Len(q) + Len(r)
  <2>1. /\ DOMAIN j = 1..L
        /\ \A i \in 1..L : \/ i \in DOMAIN q /\ j[i] = q[i]
                           \/ i - Len(q) \in DOMAIN r /\ j[i] = r[i - Len(q)] /\ i > Len(q)
    BY Joined
  <2>2. Len(r) \in Nat /\ \A m, n \in DOMAIN r : m < n => Earlier(r[m], r[n])
    BY <1>3, QueueMoves DEF InOrder
  <2>3. \A m \in DOMAIN q, n \in DOMAIN r : Earlier(q[m], r[n])
    BY <1>3 DEF Range
  <2>. HIDE DEF j
  <2>4. ASSUME NEW m \in 1..L, NEW n \in 1..L, m < n PROVE Earlier(j[m], j[n])
    <3>1. CASE m \in DOMAIN q /\ j[m] = q[m]
      BY <1>0, <2>1, <2>3, <2>4, <3>1
    <3>2. CASE m - Len(q) \in DOMAIN r /\ j[m] = r[m - Len(q)] /\ m > Len(q)
      <4>1. n \notin DOMAIN q
        BY <1>0, <2>4, <3>2
      <4>2. n - Len(q) \in DOMAIN r /\ j[n] = r[n - Len(q)]
        BY <2>1, <4>1
      <4>3. m - Len(q) < n - Len(q)
        BY <1>0, <2>4
      <4>. QED
        BY <2>2, <3>2, <4>2, <4>3
    <3>. QED
      BY <2>1, <3>1, <3>2
  <2>5. InOrder(j)
    BY <2>1, <2>4 DEF InOrder
  <2>. QED
    BY <2>5 DEF j
<1>. QED
  BY <1>1, <1>2, <1>3

\* While the tasks of a plan are made.
BuildStates ==
  {r \in [made : Seq(Leaves), ahead : Seq(Steps)] :
     /\ InOrder(r.made) /\ InOrder(r.ahead)
     /\ \A u \in Range(r.made), v \in Range(r.ahead) : Earlier(u, v)}

LEMMA BuildStarts ==
  ASSUME PlanFormed
  PROVE  [made |-> <<>>, ahead |-> Toposort(0)] \in BuildStates
<1>1. Toposort(0) \in Seq(Steps) /\ InOrder(Toposort(0))
  <2>1. Toposort(0) \in Seq(Substeps(0)) /\ Substeps(0) \subseteq Steps
    BY ToposortTells DEF Substeps
  <2>. QED
    BY <2>1, LevelInOrder, SeqMonotonic
<1>2. <<>> \in Seq(Leaves) /\ DOMAIN <<>> = {}
  BY EmptySeq
<1>3. InOrder(<<>>) /\ Range(<<>>) = {}
  BY <1>2 DEF InOrder, Range
<1>. QED
  BY <1>1, <1>2, <1>3 DEF BuildStates

LEMMA VisitedKeeps ==
  ASSUME PlanFormed, NEW r \in BuildStates, r.ahead # <<>>
  PROVE  Visited(r) \in BuildStates
<1>. DEFINE h == Head(r.ahead)
            t == Tail(r.ahead)
<1>1. /\ r.made \in Seq(Leaves) /\ r.ahead \in Seq(Steps)
      /\ InOrder(r.made) /\ InOrder(r.ahead)
      /\ \A u \in Range(r.made), v \in Range(r.ahead) : Earlier(u, v)
  BY DEF BuildStates
<1>2. /\ h \in Steps /\ t \in Seq(Steps) /\ Range(r.ahead) = {h} \cup Range(t)
      /\ InOrder(t) /\ \A v \in Range(t) : Earlier(h, v)
  BY <1>1, QueueMoves, OrderMoves
<1>. HIDE DEF h, t
<1>3. CASE h \in Leaves
  <2>. DEFINE m == Append(r.made, h)
  <2>1. m \in Seq(Leaves) /\ Range(m) = Range(r.made) \cup {h} /\ InOrder(m)
    BY <1>1, <1>2, <1>3, QueueMoves, OrderMoves
  <2>2. Visited(r) = [made |-> m, ahead |-> t]
    BY <1>3 DEF Visited, h, t
  <2>. HIDE DEF m
  <2>3. \A u \in Range(m), v \in Range(t) : Earlier(u, v)
    BY <1>1, <1>2, <2>1
  <2>. QED
    BY <1>2, <2>1, <2>2, <2>3 DEF BuildStates
<1>4. CASE h \notin Leaves
  <2>. DEFINE T == Toposort(h)
              q == T \o t
  <2>1. T \in Seq(Substeps(h)) /\ InOrder(T) /\ Substeps(h) \subseteq Steps
    BY <1>2, ToposortTells, LevelInOrder DEF Substeps
  <2>2. T \in Seq(Steps) /\ Range(T) \subseteq Substeps(h)
    BY <2>1, SeqMonotonic, QueueMoves
  <2>. HIDE DEF T
  <2>3. \A c \in Range(T), v \in Range(t) : Earlier(c, v)
    BY <1>2, <2>2, EarlierBelow
  <2>4. q \in Seq(Steps) /\ InOrder(q) /\ Range(q) = Range(T) \cup Range(t)
    BY <1>2, <2>1, <2>2, <2>3, Joined, OrderMoves
  <2>5. Visited(r) = [made |-> r.made, ahead |-> q]
    BY <1>4 DEF Visited, h, t, T
  <2>. HIDE DEF q
  <2>6. \A u \in Range(r.made), v \in Range(q) : Earlier(u, v)
    BY <1>1, <1>2, <2>2, <2>4, EarlierBelow
  <2>. QED
    BY <1>1, <2>4, <2>5, <2>6 DEF BuildStates
<1>. QED
  BY <1>3, <1>4

\* n steps have been visited, and every leaf has its task or is below what is ahead.
Covered(n, r) ==
  \E V \in SUBSET Steps :
    /\ r.ahead # <<>> => Cardinality(V) = n
    /\ V \cap Range(r.ahead) = {}
    /\ \A v \in V \cup Range(r.ahead) : up[v] = 0 \/ up[v] \in V
    /\ \A l \in Leaves : l \in Range(r.made) \/ \E v \in Range(r.ahead) : v \in Above(l)

LEMMA CoverStarts ==
  ASSUME PlanFormed, Sortable
  PROVE  Covered(0, [made |-> <<>>, ahead |-> Toposort(0)])
<1>. DEFINE T == Toposort(0)
<1>1. Range(T) = Substeps(0)
  BY ToposortTells DEF Sortable
<1>. HIDE DEF T
<1>2. \A l \in Leaves : \E v \in Range(T) : v \in Above(l)
  BY <1>1, TopOnPath DEF Leaves
<1>3. \A v \in Range(T) : up[v] = 0
  BY <1>1 DEF Substeps
<1>4. Covered(0, [made |-> <<>>, ahead |-> T])
  <2>1. Cardinality({}) = 0 /\ {} \in SUBSET Steps
    BY FS_EmptySet
  <2>. QED
    BY <1>2, <1>3, <2>1 DEF Covered
<1>. QED
  BY <1>4 DEF T

LEMMA VisitedCovers ==
  ASSUME PlanFormed, Sortable, NEW n \in Nat, NEW r \in BuildStates, r.ahead # <<>>, Covered(n, r)
  PROVE  Covered(n + 1, Visited(r))
<1>. DEFINE h == Head(r.ahead)
            t == Tail(r.ahead)
<1>1. /\ r.made \in Seq(Leaves) /\ r.ahead \in Seq(Steps) /\ InOrder(r.ahead)
  BY DEF BuildStates
<1>2. /\ h \in Steps /\ t \in Seq(Steps) /\ Range(r.ahead) = {h} \cup Range(t)
      /\ \A v \in Range(t) : Earlier(h, v)
  BY <1>1, QueueMoves, OrderMoves
<1>3. PICK V \in SUBSET Steps :
        /\ r.ahead # <<>> => Cardinality(V) = n
        /\ V \cap Range(r.ahead) = {}
        /\ \A v \in V \cup Range(r.ahead) : up[v] = 0 \/ up[v] \in V
        /\ \A l \in Leaves : l \in Range(r.made) \/ \E v \in Range(r.ahead) : v \in Above(l)
  BY DEF Covered
<1>. HIDE DEF h, t
<1>. DEFINE W == V \cup {h}
<1>4. h \notin V /\ h \notin Range(t)
  <2>1. \A v \in Range(t) : v \in Steps
    BY <1>2, QueueMoves
  <2>. QED
    BY <1>2, <1>3, <2>1, NeverForLater
<1>5. Cardinality(W) = n + 1 /\ W \in SUBSET Steps
  <2>1. IsFiniteSet(V)
    BY StepsFacts, FS_Subset
  <2>. QED
    BY <1>2, <1>3, <1>4, <2>1, FS_AddElement
<1>6. CASE h \in Leaves
  <2>. DEFINE m == Append(r.made, h)
  <2>1. Range(m) = Range(r.made) \cup {h}
    BY <1>1, <1>6, QueueMoves
  <2>2. Visited(r) = [made |-> m, ahead |-> t]
    BY <1>6 DEF Visited, h, t
  <2>. HIDE DEF m
  <2>3. W \cap Range(t) = {} /\ \A v \in W \cup Range(t) : up[v] = 0 \/ up[v] \in W
    BY <1>2, <1>3, <1>4
  <2>4. ASSUME NEW l \in Leaves PROVE l \in Range(m) \/ \E v \in Range(t) : v \in Above(l)
    <3>1. CASE h \in Above(l)
      <4>1. l = h
        BY <1>6, <3>1, NothingBelow DEF Leaves
      <4>. QED
        BY <2>1, <4>1
    <3>2. CASE h \notin Above(l)
      BY <1>2, <1>3, <2>1, <3>2
    <3>. QED
      BY <3>1, <3>2
  <2>. HIDE DEF W
  <2>. QED
    BY <1>5, <2>2, <2>3, <2>4 DEF Covered
<1>7. CASE h \notin Leaves
  <2>. DEFINE T == Toposort(h)
              q == T \o t
  <2>1. T \in Seq(Substeps(h)) /\ Range(T) = Substeps(h) /\ Substeps(h) \subseteq Steps
    BY <1>2, ToposortTells DEF Substeps, Sortable
  <2>2. T \in Seq(Steps)
    BY <2>1, SeqMonotonic
  <2>. HIDE DEF T
  <2>3. Range(q) = Substeps(h) \cup Range(t)
    BY <1>2, <2>1, <2>2, Joined
  <2>4. Visited(r) = [made |-> r.made, ahead |-> q]
    BY <1>7 DEF Visited, h, t, T
  <2>. HIDE DEF q
  <2>5. \A c \in Substeps(h) : up[c] = h /\ c # h /\ c \notin V
    <3>1. ASSUME NEW c \in Substeps(h) PROVE c \in Steps /\ up[c] = h /\ c # h /\ h # 0
      BY <1>2, StepsFacts DEF Substeps
    <3>2. \A c \in Substeps(h) : c \notin V
      BY <1>3, <1>4, <3>1
    <3>. QED
      BY <3>1, <3>2
  <2>6. W \cap Range(q) = {} /\ \A v \in W \cup Range(q) : up[v] = 0 \/ up[v] \in W
    BY <1>2, <1>3, <1>4, <2>3, <2>5
  <2>7. ASSUME NEW l \in Leaves PROVE l \in Range(r.made) \/ \E v \in Range(q) : v \in Above(l)
    <3>1. CASE h \in Above(l)
      <4>1. l \in Steps /\ h # l
        BY <1>7 DEF Leaves
      <4>. QED
        BY <2>3, <3>1, <4>1, NextOnPath
    <3>2. CASE h \notin Above(l)
      BY <1>2, <1>3, <2>3, <3>2
    <3>. QED
      BY <3>1, <3>2
  <2>. HIDE DEF W
  <2>. QED
    BY <1>5, <2>4, <2>6, <2>7 DEF Covered
<1>. QED
  BY <1>6, <1>7

\* What a predicate of states says of the start and keeps, holds after each round.
LEMMA BuildTells ==
  ASSUME PlanFormed
  PROVE  \A n \in 0..Len(up) : /\ Build[n] \in BuildStates
                               /\ Sortable => Covered(n, Build[n])
<1>. DEFINE N == Len(up)
            T == BuildStates
            base == [made |-> <<>>, ahead |-> Toposort(0)]
            Next1(r) == IF r.ahead = <<>> THEN r ELSE Visited(r)
            G == [r \in T |-> Next1(r)]
<1>1. N \in Nat
  BY StepsFacts
<1>2. base \in T /\ (Sortable => Covered(0, base))
  BY BuildStarts, CoverStarts
<1>3. ASSUME NEW r \in T
      PROVE  /\ Next1(r) \in T
             /\ \A n \in Nat : Sortable /\ Covered(n, r) => Covered(n + 1, Next1(r))
  <2>1. CASE r.ahead = <<>>
    BY <2>1 DEF Covered
  <2>2. CASE r.ahead # <<>>
    BY <2>2, VisitedKeeps, VisitedCovers
  <2>. QED
    BY <2>1, <2>2
<1>. HIDE DEF base, T, Next1, N
<1>4. G \in [T -> T]
  BY <1>3
<1>5. PICK f : Rounds(f, T, base, G, N)
  <2>. HIDE DEF G
  <2>. QED
    BY <1>1, <1>2, <1>4, Iterated
<1>6. f = [n \in 0..N |-> IF n = 0 THEN base ELSE Next1(f[n - 1])]
  <2>1. \A n \in 0..N : f[n] \in T /\ f[n] = IF n = 0 THEN base ELSE G[f[n - 1]]
    <3>1. \A n \in 0..N : n = 0 \/ n \in 1..N
      BY <1>1
    <3>. QED
      BY <1>5, <3>1 DEF Rounds
  <2>2. ASSUME NEW n \in 0..N PROVE f[n] = IF n = 0 THEN base ELSE Next1(f[n - 1])
    <3>1. n # 0 => n - 1 \in 0..N
      BY <1>1
    <3>. QED
      BY <2>1, <3>1
  <2>3. f = [n \in 0..N |-> f[n]]
    BY <1>5 DEF Rounds
  <2>. QED
    BY <2>2, <2>3
<1>7. \E g : g = [n \in 0..N |-> IF n = 0 THEN base ELSE Next1(g[n - 1])]
  BY <1>6
<1>8. Build = [n \in 0..N |-> IF n = 0 THEN base ELSE Next1(Build[n - 1])]
  BY <1>7, Zenon DEF Build, base, Next1, N
<1>. DEFINE Good(n) == Build[n] \in T /\ (Sortable => Covered(n, Build[n]))
            S == {n \in 0..N : ~Good(n)}
<1>9. ASSUME S # {} PROVE FALSE
  <2>1. S \in SUBSET Nat
    BY <1>1
  <2>2. PICK n \in S : \A m \in S : n <= m
    BY <1>9, <2>1, LeastNumber
  <2>3. n \in 0..N /\ n \in Nat /\ ~Good(n)
    BY <1>1
  <2>4. n # 0
    BY <1>2, <1>8, <2>3
  <2>5. n - 1 \in 0..N /\ n - 1 \in Nat /\ (n - 1) + 1 = n /\ n - 1 \notin S
    BY <1>1, <2>2, <2>3, <2>4
  <2>6. Build[n] = Next1(Build[n - 1])
    BY <1>8, <2>3, <2>4
  <2>7. Good(n - 1)
    BY <2>5
  <2>. QED
    BY <1>3, <2>3, <2>5, <2>6, <2>7
<1>. QED
  BY <1>9 DEF T, N

(* The tasks of a plan are its leaves, each once, in an order in which none  *)
(* is to wait for a later one; and no more than there are leaves.            *)
LEMMA BuiltTells ==
  ASSUME PlanFormed
  PROVE  /\ Built \in Seq(Leaves) /\ IsInjective(Built)
         /\ Len(Built) <= Cardinality(Leaves)
         /\ \A i, j \in DOMAIN Built : WaitsFor(Built[i], Built[j]) => j < i
         /\ Sortable => Range(Built) = Leaves
<1>. DEFINE N == Len(up)
            r == Build[N]
            o == Built
<1>1. N \in Nat /\ Leaves \subseteq Steps /\ IsFiniteSet(Leaves)
  <2>1. Leaves \subseteq Steps
    BY DEF Leaves
  <2>. QED
    BY <2>1, StepsFacts, FS_Subset
<1>2. r \in BuildStates /\ (Sortable => Covered(N, r))
  BY <1>1, BuildTells
<1>3. o = r.made
  BY DEF Built
<1>. HIDE DEF r, o
<1>4. o \in Seq(Leaves) /\ InOrder(o) /\ r.ahead \in Seq(Steps)
  BY <1>2, <1>3 DEF BuildStates
<1>5. DOMAIN o = 1..Len(o) /\ Len(o) \in Nat /\ \A i \in DOMAIN o : o[i] \in Leaves /\ o[i] \in Steps
  <2>1. DOMAIN o = 1..Len(o) /\ Len(o) \in Nat /\ Range(o) \subseteq Leaves
    BY <1>4, QueueMoves
  <2>. QED
    BY <1>1, <2>1 DEF Range
<1>6. \A i, j \in DOMAIN o : i < j => o[i] # o[j] /\ ~WaitsFor(o[i], o[j])
  BY <1>4, <1>5, NeverForLater DEF InOrder
<1>7. IsInjective(o)
  <2>1. \A i, j \in DOMAIN o : i < j \/ j < i \/ i = j
    BY <1>5
  <2>2. \A i, j \in DOMAIN o : o[i] = o[j] => i = j
    BY <1>6, <2>1
  <2>. QED
    BY <2>2 DEF IsInjective
<1>8. \A i, j \in DOMAIN o : WaitsFor(o[i], o[j]) => j < i
  <2>1. \A i, j \in DOMAIN o : i < j \/ j < i \/ i = j
    BY <1>5
  <2>. QED
    BY <1>5, <1>6, <2>1, NotForItself
<1>9. Len(o) <= Cardinality(Leaves)
  <2>1. o \in [1..Len(o) -> Leaves] /\ IsFiniteSet(1..Len(o)) /\ Cardinality(1..Len(o)) = Len(o)
    <3>1. o \in [1..Len(o) -> Leaves]
      BY <1>4, LenProperties
    <3>2. IsFiniteSet(1..Len(o)) /\ Cardinality(1..Len(o)) = Len(o)
      BY <1>5, CountsUpTo
    <3>. QED
      BY <3>1, <3>2
  <2>2. o \in Injection(1..Len(o), Leaves)
    BY <1>5, <1>7, <2>1 DEF Injection, IsInjective
  <2>. QED
    BY <1>1, <2>1, <2>2, FS_Injection
<1>10. ASSUME Sortable PROVE Range(o) = Leaves
  <2>1. PICK V \in SUBSET Steps :
          /\ r.ahead # <<>> => Cardinality(V) = N
          /\ V \cap Range(r.ahead) = {}
          /\ \A l \in Leaves : l \in Range(r.made) \/ \E v \in Range(r.ahead) : v \in Above(l)
    BY <1>2, <1>10 DEF Covered
  <2>2. r.ahead = <<>>
    <3>. SUFFICES ASSUME r.ahead # <<>> PROVE FALSE
      OBVIOUS
    <3>1. V = Steps
      BY <2>1, StepsFacts, FS_Subset
    <3>2. Head(r.ahead) \in Steps /\ Head(r.ahead) \in Range(r.ahead)
      BY <1>4, QueueMoves
    <3>. QED
      BY <2>1, <3>1, <3>2
  <2>3. Range(r.ahead) = {}
    BY <2>2 DEF Range
  <2>4. Range(o) \subseteq Leaves
    BY <1>4, QueueMoves
  <2>. QED
    BY <1>3, <2>1, <2>3, <2>4
<1>. QED
  BY <1>4, <1>7, <1>8, <1>9, <1>10 DEF o

-------------------------------------------------------------------------------
(* Plans: how they grow                                                      *)

\* A function on 1..n is a sequence.
LEMMA FromFunction ==
  ASSUME NEW S, NEW n \in Nat, NEW f \in [1..n -> S]
  PROVE  f \in Seq(S) /\ Len(f) = n
  BY IsASeq

\* An answer of the brain adds leaves; the step it is about is no leaf any more.
LEMMA ParsedTells ==
  ASSUME PlanFormed, NEW s \in Steps \cup {0}, NEW n \in Nat, Parsed(s, n)
  PROVE  /\ PlanFormed'
         /\ Len(up') = Len(up) + n /\ Steps' = 1..(Len(up) + n)
         /\ n > 0 => Leaves' = (Leaves \ {s}) \cup (Len(up) + 1)..(Len(up) + n)
<1>. DEFINE L == Len(up)
            new == (L + 1)..(L + n)
<1>1. L \in Nat /\ Steps = 1..L /\ s \in Nat /\ s <= L
  BY StepsFacts
<1>2. /\ up' = [x \in 1..(L + n) |-> IF x \in new THEN s ELSE up[x]]
      /\ \E d \in [new -> SUBSET new] :
           /\ \A x \in new : x \notin d[x]
           /\ needs' = [x \in 1..(L + n) |-> IF x \in new THEN d[x] ELSE needs[x]]
  BY DEF Parsed
<1>3. PICK d \in [new -> SUBSET new] :
        /\ \A x \in new : x \notin d[x]
        /\ needs' = [x \in 1..(L + n) |-> IF x \in new THEN d[x] ELSE needs[x]]
  BY <1>2
<1>. HIDE DEF L
<1>4. 1..(L + n) = Steps \cup new /\ Steps \cap new = {} /\ L + n \in Nat
  BY <1>1
<1>5. /\ \A x \in new : up'[x] = s /\ needs'[x] = d[x] /\ x \in Nat /\ s < x
      /\ \A x \in Steps : up'[x] = up[x] /\ needs'[x] = needs[x]
  BY <1>1, <1>2, <1>3, <1>4
<1>6. \A x \in Steps : /\ up[x] \in Nat /\ up[x] < x /\ needs[x] \in SUBSET Nat
                       /\ needs[x] \subseteq Steps /\ \A y \in needs[x] : up[y] = up[x] /\ y # x
  BY StepsFacts
<1>7. up' \in Seq(Nat) /\ Len(up') = L + n
  <2>1. up' \in [1..(L + n) -> Nat]
    BY <1>1, <1>2, <1>4, <1>6
  <2>. QED
    BY <1>4, <2>1, FromFunction
<1>8. needs' \in Seq(SUBSET Nat) /\ Len(needs') = L + n
  <2>1. \A x \in new : d[x] \in SUBSET Nat
    BY <1>5
  <2>2. needs' \in [1..(L + n) -> SUBSET Nat]
    BY <1>3, <1>4, <1>6, <2>1
  <2>. QED
    BY <1>4, <2>2, FromFunction
<1>9. Steps' = 1..(L + n)
  BY <1>2 DEF Steps
<1>10. PlanFormed'
  <2>1. \A x \in Steps' : up'[x] < x
    BY <1>4, <1>5, <1>6, <1>9
  <2>2. \A x \in Steps' : \A y \in needs'[x] : y \in Steps' /\ up'[y] = up'[x] /\ y # x
    <3>1. \A x \in new : \A y \in d[x] : y \in new /\ y # x
      BY <1>3
    <3>2. \A x \in new : \A y \in needs'[x] : y \in new /\ y # x /\ up'[y] = s /\ up'[x] = s
      BY <1>5, <3>1
    <3>3. \A x \in Steps : \A y \in needs'[x] : y \in Steps /\ y # x /\ up'[y] = up'[x]
      BY <1>5, <1>6
    <3>. HIDE DEF new
    <3>. QED
      BY <1>4, <1>9, <3>2, <3>3
  <2>3. \A x \in Steps' : up'[x] < x /\ needs'[x] \subseteq Substeps(up[x])' \ {x}
    BY <2>1, <2>2 DEF Substeps
  <2>. QED
    BY <1>7, <1>8, <2>3 DEF PlanFormed
<1>11. ASSUME n > 0
       PROVE  Leaves' = (Leaves \ {s}) \cup new
  <2>1. Leaves' = {x \in Steps' : \A y \in Steps' : up'[y] # x}
    BY DEF Leaves, Substeps
  <2>2. Leaves = {x \in Steps : \A y \in Steps : up[y] # x}
    BY DEF Leaves, Substeps
  <2>3. \A x \in new : \A y \in Steps' : up'[y] # x
    BY <1>1, <1>4, <1>5, <1>6, <1>9
  <2>4. L + 1 \in new
    BY <1>1, <1>11
  <2>5. \A x \in Steps : (\A y \in Steps' : up'[y] # x) <=> x # s /\ \A y \in Steps : up[y] # x
    BY <1>4, <1>5, <1>9, <2>4
  <2>. QED
    BY <1>4, <1>9, <2>1, <2>2, <2>3, <2>5
<1>. QED
  BY <1>7, <1>9, <1>10, <1>11 DEF L

\* What the planner has in hand: the calls of _expand still to make are for leaves.
PlanTypes ==
  /\ PlanFormed
  /\ Cardinality(Leaves) <= MaxLeaves
  /\ stage \in {"asked", "planning", "planned", "failed", "refused", "enqueued"}
  /\ stage = "asked" => up = <<>>
  /\ todo \in Seq([step : Nat, depth : Nat])
  /\ stage = "planning" => /\ \A i \in DOMAIN todo : todo[i].step \in Leaves
                           /\ \A i, j \in DOMAIN todo : todo[i].step = todo[j].step => i = j

\* The calls for the steps of one answer.
LEMMA CallsTells ==
  ASSUME NEW n \in Nat, NEW depth \in Nat, Len(up) \in Nat
  PROVE  /\ Calls(n, depth) \in Seq([step : Nat, depth : Nat]) /\ Len(Calls(n, depth)) = n
         /\ DOMAIN Calls(n, depth) = 1..n
         /\ \A i \in 1..n : Calls(n, depth)[i].step = Len(up) + i
<1>. DEFINE C == [step : Nat, depth : Nat]
<1>1. Calls(n, depth) \in [1..n -> C] /\ \A i \in 1..n : Calls(n, depth)[i].step = Len(up) + i
  BY DEF Calls
<1>. HIDE DEF C
<1>2. Calls(n, depth) \in Seq(C) /\ Len(Calls(n, depth)) = n
  BY <1>1, FromFunction
<1>. QED
  BY <1>1, <1>2 DEF C

\* An empty plan.
LEMMA NoSteps ==
  ASSUME up = <<>>, needs = <<>>
  PROVE  PlanFormed /\ Steps = {} /\ Leaves = {} /\ Cardinality(Leaves) = 0
<1>1. up \in Seq(Nat) /\ needs \in Seq(SUBSET Nat) /\ Len(needs) = Len(up) /\ DOMAIN up = {}
  BY EmptySeq
<1>2. Steps = {} /\ Leaves = {}
  BY <1>1 DEF Steps, Leaves
<1>. QED
  BY <1>1, <1>2, FS_EmptySet DEF PlanFormed

LEMMA DecomposeKeeps ==
  ASSUME PlanTypes, Decompose
  PROVE  PlanTypes'
<1>1. PICK n \in Widths : n <= MaxLeaves /\ Parsed(0, n) /\ todo' = Calls(n, PlanDepth)
  BY DEF Decompose
<1>2. n \in Nat /\ PlanDepth \in Nat /\ MaxLeaves \in Nat
  BY PlannerAssumption
<1>3. up = <<>> /\ stage' = "planning" /\ PlanFormed
  BY DEF Decompose, PlanTypes
<1>4. Len(up) = 0 /\ Steps = {} /\ Leaves = {}
  BY <1>3, EmptySeq DEF Steps, Leaves
<1>5. /\ PlanFormed' /\ Steps' = 1..n /\ (n > 0 => Leaves' = 1..n)
  BY <1>1, <1>2, <1>3, <1>4, ParsedTells
<1>6. Leaves' = 1..n
  <2>1. CASE n = 0
    BY <1>2, <1>5, <2>1 DEF Leaves
  <2>. QED
    BY <1>2, <1>5, <2>1
<1>7. Cardinality(Leaves') = n
  BY <1>2, <1>6, CountsUpTo
<1>8. /\ todo' \in Seq([step : Nat, depth : Nat]) /\ DOMAIN todo' = 1..n
      /\ \A i \in 1..n : todo'[i].step = i
  <2>1. Len(up) \in Nat
    BY <1>4
  <2>2. /\ Calls(n, PlanDepth) \in Seq([step : Nat, depth : Nat]) /\ DOMAIN Calls(n, PlanDepth) = 1..n
        /\ \A i \in 1..n : Calls(n, PlanDepth)[i].step = Len(up) + i
    BY <1>2, <2>1, CallsTells
  <2>. QED
    BY <1>1, <1>4, <2>2
<1>. QED
  BY <1>1, <1>3, <1>5, <1>6, <1>7, <1>8 DEF PlanTypes

LEMMA ExpandKeeps ==
  ASSUME PlanTypes, Expand
  PROVE  PlanTypes'
<1>. DEFINE C == [step : Nat, depth : Nat]
            s == Head(todo).step
            m == Head(todo).depth
            rest == Tail(todo)
<1>1. /\ stage = "planning" /\ stage' = stage /\ todo # <<>> /\ todo \in Seq(C) /\ PlanFormed
      /\ \A i \in DOMAIN todo : todo[i].step \in Leaves
      /\ \A i, j \in DOMAIN todo : todo[i].step = todo[j].step => i = j
  BY DEF Expand, PlanTypes
<1>. HIDE DEF C
<1>2. /\ Head(todo) \in C /\ rest \in Seq(C) /\ DOMAIN rest = 1..Len(rest) /\ Len(rest) \in Nat
      /\ \A i \in DOMAIN rest : i + 1 \in DOMAIN todo /\ rest[i] = todo[i + 1]
      /\ 1 \in DOMAIN todo /\ todo[1] = Head(todo)
  BY <1>1, QueueMoves
<1>3. s \in Leaves /\ m \in Nat /\ Leaves \subseteq Steps
  <2>1. Head(todo) \in [step : Nat, depth : Nat] /\ s \in Leaves
    BY <1>1, <1>2 DEF C
  <2>. QED
    BY <2>1 DEF Leaves
<1>. HIDE DEF s, m, rest
<1>4. /\ \A i \in DOMAIN rest : rest[i].step \in Leaves \ {s}
      /\ \A i, j \in DOMAIN rest : rest[i].step = rest[j].step => i = j
  <2>1. \A i \in DOMAIN rest : i + 1 # 1 /\ rest[i].step = todo[i + 1].step
    BY <1>2
  <2>2. \A i \in DOMAIN rest : rest[i].step # s
    BY <1>1, <1>2, <2>1 DEF s
  <2>3. \A i, j \in DOMAIN rest : rest[i].step = rest[j].step => i + 1 = j + 1
    BY <1>1, <1>2, <2>1
  <2>4. \A i, j \in DOMAIN rest : i + 1 = j + 1 => i = j
    BY <1>2
  <2>. QED
    BY <1>1, <1>2, <2>1, <2>2, <2>3, <2>4
<1>5. CASE UNCHANGED <<up, needs>> /\ todo' = rest
  <2>1. PlanFormed' /\ Leaves' = Leaves
    BY <1>1, <1>5 DEF PlanFormed, Steps, Substeps, Leaves
  <2>. QED
    BY <1>1, <1>2, <1>4, <1>5, <2>1 DEF PlanTypes, C
<1>6. CASE /\ m > 1
           /\ \E n \in Widths : /\ n > 1 /\ Cardinality(Leaves) + n - 1 <= MaxLeaves
                                /\ Parsed(s, n) /\ todo' = Calls(n, m - 1) \o rest
  <2>1. PICK n \in Widths : /\ n > 1 /\ Cardinality(Leaves) + n - 1 <= MaxLeaves
                            /\ Parsed(s, n) /\ todo' = Calls(n, m - 1) \o rest
    BY <1>6
  <2>2. n \in Nat /\ m - 1 \in Nat /\ MaxLeaves \in Nat /\ Len(up) \in Nat /\ Steps = 1..Len(up)
    BY <1>1, <1>3, <1>6, <2>1, PlannerAssumption, StepsFacts
  <2>. DEFINE new == (Len(up) + 1)..(Len(up) + n)
              c == Calls(n, m - 1)
  <2>3. PlanFormed' /\ Leaves' = (Leaves \ {s}) \cup new
    BY <1>1, <1>3, <2>1, <2>2, ParsedTells
  <2>4. Cardinality(Leaves') <= MaxLeaves
    <3>1. IsFiniteSet(Leaves) /\ IsFiniteSet(Leaves \ {s}) /\ IsFiniteSet(new) /\ Cardinality(new) = n
      <4>1. IsFiniteSet(Leaves)
        BY <1>1, <1>3, StepsFacts, FS_Subset
      <4>2. IsFiniteSet(new) /\ Cardinality(new) = n
        <5>1. Len(up) + 1 \in Int /\ Len(up) + n \in Int /\ Len(up) + 1 <= Len(up) + n
          BY <2>1, <2>2
        <5>2. IsFiniteSet(new) /\ Cardinality(new) = (Len(up) + n) - (Len(up) + 1) + 1
          BY <5>1, IntervalCounts
        <5>. QED
          BY <2>2, <5>2
      <4>. QED
        BY <4>1, <4>2, FS_Subset
    <3>2. Cardinality(Leaves \ {s}) = Cardinality(Leaves) - 1 /\ Cardinality(Leaves) \in Nat
      BY <1>3, <3>1, FS_RemoveElement, FS_CardinalityType
    <3>3. (Leaves \ {s}) \cap new = {}
      BY <1>3, <2>2
    <3>4. Cardinality((Leaves \ {s}) \cup new) = Cardinality(Leaves) - 1 + n
      <4>1. Cardinality((Leaves \ {s}) \cup new)
              = Cardinality(Leaves \ {s}) + Cardinality(new) - Cardinality((Leaves \ {s}) \cap new)
        BY <3>1, FS_Union
      <4>2. Cardinality((Leaves \ {s}) \cap new) = 0
        BY <3>3, FS_EmptySet
      <4>. QED
        BY <2>2, <3>1, <3>2, <4>1, <4>2
    <3>. QED
      BY <2>1, <2>2, <2>3, <3>2, <3>4
  <2>5. /\ c \in Seq(C) /\ Len(c) = n /\ DOMAIN c = 1..n
        /\ \A i \in 1..n : c[i].step = Len(up) + i
    BY <2>2, CallsTells DEF C
  <2>. HIDE DEF c
  <2>6. /\ todo' \in Seq(C) /\ DOMAIN todo' = 1..(n + Len(rest))
        /\ \A i \in 1..(n + Len(rest)) :
             \/ i \in 1..n /\ todo'[i] = c[i]
             \/ i - n \in DOMAIN rest /\ todo'[i] = rest[i - n]
    <3>1. todo' = c \o rest
      BY <2>1 DEF c
    <3>. QED
      BY <1>2, <2>5, <3>1, Joined
  <2>7. Len(rest) \in Nat
    BY <1>2
  <2>8. \A i \in DOMAIN todo' :
          \/ i \in 1..n /\ todo'[i].step = Len(up) + i
          \/ i - n \in DOMAIN rest /\ todo'[i].step = rest[i - n].step /\ rest[i - n].step \in Leaves \ {s}
    BY <1>4, <2>5, <2>6
  <2>9. \A i \in DOMAIN todo' : todo'[i].step \in Leaves'
    BY <2>2, <2>3, <2>8
  <2>10. \A i, j \in DOMAIN todo' : todo'[i].step = todo'[j].step => i = j
    <3>. SUFFICES ASSUME NEW i \in DOMAIN todo', NEW j \in DOMAIN todo', todo'[i].step = todo'[j].step
                  PROVE  i = j
      OBVIOUS
    <3>0. i \in Nat /\ j \in Nat
      BY <2>2, <2>6, <2>7
    <3>1. \A x \in Leaves : x \in Nat /\ x <= Len(up)
      BY <1>3, <2>2
    <3>2. \A k \in DOMAIN todo' :
            \/ k \in 1..n /\ todo'[k].step = Len(up) + k /\ todo'[k].step > Len(up)
            \/ k \notin 1..n /\ k - n \in DOMAIN rest /\ todo'[k].step = rest[k - n].step
               /\ todo'[k].step <= Len(up)
      <4>1. \A k \in DOMAIN todo' : k - n \in DOMAIN rest => k \notin 1..n
        BY <1>2, <2>2, <2>6
      <4>2. \A k \in 1..n : Len(up) + k > Len(up)
        BY <2>2
      <4>. QED
        BY <2>8, <3>1, <4>1, <4>2
    <3>3. CASE i \in 1..n \/ j \in 1..n
      <4>1. i \in 1..n /\ j \in 1..n
        BY <2>2, <3>1, <3>2, <3>3
      <4>2. Len(up) + i = Len(up) + j
        BY <2>2, <3>2, <4>1
      <4>. QED
        BY <2>2, <3>0, <4>2
    <3>4. CASE i \notin 1..n /\ j \notin 1..n
      <4>1. i - n = j - n
        BY <1>4, <3>2, <3>4
      <4>. QED
        BY <2>2, <3>0, <4>1
    <3>. QED
      BY <3>3, <3>4
  <2>. QED
    BY <1>1, <2>3, <2>4, <2>6, <2>9, <2>10 DEF PlanTypes, C
<1>. QED
  BY <1>5, <1>6 DEF Expand, s, m, rest

LEMMA PlanningKeeps ==
  ASSUME PlanTypes, Planning
  PROVE  PlanTypes'
<1>1. CASE PlanFails \/ PlanDone
  <2>1. UNCHANGED <<up, needs, todo>> /\ stage' \in {"failed", "planned"}
    BY <1>1 DEF PlanFails, PlanDone
  <2>2. PlanFormed' /\ Leaves' = Leaves
    BY <2>1 DEF PlanTypes, PlanFormed, Steps, Substeps, Leaves
  <2>. QED
    BY <2>1, <2>2 DEF PlanTypes
<1>. QED
  BY <1>1, DecomposeKeeps, ExpandKeeps DEF Planning

-------------------------------------------------------------------------------
(* A queue that may be filled by a plan                                      *)

\* The dependencies of the tasks: those of the plan are among them, and go back
\* in the order of creation.
DueKept ==
  /\ due \in [Tasks -> SUBSET Tasks]
  /\ \A t \in Tasks : due[t] \subseteq deps[t]
  /\ \A i, j \in DOMAIN Slots : Slots[j] \in due[Slots[i]] => j < i

\* What a call relies on and promises.
CallInv == DagInv /\ NeverEarly /\ Sound /\ SkippedForCause /\ RecordsFollow

PlannedInv ==
  /\ PlanTypes /\ CallInv
  /\ stage # "enqueued" => phase = "idle"
  /\ DueKept

LEMMA AmongTells ==
  ASSUME NEW pairs \in SUBSET ((DOMAIN Slots) \X (DOMAIN Slots))
  PROVE  /\ AmongTasks(pairs) \in [Tasks -> SUBSET Tasks]
         /\ \A t \in Tasks : \A u :
              u \in AmongTasks(pairs)[t] <=> \E p \in pairs : Slots[p[1]] = t /\ Slots[p[2]] = u
<1>1. \A p \in pairs : Slots[p[1]] \in Tasks /\ Slots[p[2]] \in Tasks
  <2>1. \A i \in DOMAIN Slots : Slots[i] \in Tasks
    BY SlotsAssumption, LenProperties
  <2>. QED
    BY <2>1
<1>. QED
  BY <1>1 DEF AmongTasks

LEMMA CallStep ==
  ASSUME CallInv, [Next]_vars
  PROVE  CallInv' /\ UNCHANGED deps
  BY DagInvStep, NeverEarlyStep, SoundStep, SkippedStep, RecordsFollowStep, GraphFixed DEF CallInv

LEMMA PlannedStarts ==
  ASSUME PlannedInit
  PROVE  PlannedInv
<1>1. Init /\ PlanInit /\ due = [t \in Tasks |-> {}]
  BY DEF PlannedInit
<1>2. CallInv /\ phase = "idle"
  BY <1>1, DagInvInit DEF Init, CallInv, NeverEarly, Sound, SkippedForCause, RecordsFollow
<1>3. PlanTypes
  <2>1. up = <<>> /\ needs = <<>> /\ todo = <<>> /\ stage \in {"asked", "enqueued"}
    BY <1>1 DEF PlanInit
  <2>2. todo \in Seq([step : Nat, depth : Nat])
    BY <2>1
  <2>3. MaxLeaves \in Nat
    BY PlannerAssumption
  <2>. QED
    BY <2>1, <2>2, <2>3, NoSteps DEF PlanTypes
<1>4. DueKept
  <2>1. \A i \in DOMAIN Slots : Slots[i] \in Tasks
    BY SlotsAssumption, LenProperties
  <2>. QED
    BY <1>1, <1>2, <2>1 DEF DueKept
<1>. QED
  BY <1>2, <1>3, <1>4 DEF PlannedInv

\* A plan that is enqueued: its tasks are as many as there are slots at most,
\* they get the dependencies the plan means, and each comes after those it is
\* to wait for.
LEMMA EnqueueKeeps ==
  ASSUME PlannedInv, Enqueue
  PROVE  PlannedInv'
<1>. DEFINE made == Built
            places == (DOMAIN made) \X (DOMAIN made)
            attached == {p \in places : made[p[2]] \in Attach(made[p[1]])}
            meant == {p \in places : WaitsFor(made[p[1]], made[p[2]])}
<1>1. /\ PlanTypes /\ DagInv /\ NeverEarly /\ DueKept /\ phase = "idle" /\ stage' = "enqueued"
      /\ deps' = AmongTasks(attached) /\ due' = AmongTasks(meant)
      /\ up' = <<>> /\ needs' = <<>>
      /\ UNCHANGED <<todo, status, rec, phase, queue, ahead, indeg, remaining, launched, waiting,
                     round, batch, active, ended, broken, starts>>
  BY DEF Enqueue, PlannedInv, CallInv
<1>2. /\ made \in Seq(Leaves) /\ Len(made) <= Cardinality(Leaves)
      /\ \A i, j \in DOMAIN made : WaitsFor(made[i], made[j]) => j < i
  BY <1>1, BuiltTells DEF PlanTypes
<1>3. \A i \in DOMAIN made : made[i] \in Leaves /\ Attach(made[i]) = {b \in Leaves : WaitsFor(made[i], b)}
  <2>1. \A i \in DOMAIN made : made[i] \in Leaves
    BY <1>2, ElementOfSeq, LenProperties
  <2>. QED
    BY <1>1, <2>1, AttachTells DEF PlanTypes
<1>4. DOMAIN made \subseteq DOMAIN Slots
  <2>1. DOMAIN made = 1..Len(made) /\ Len(made) \in Nat
    BY <1>2, LenProperties
  <2>2. DOMAIN Slots = 1..Len(Slots) /\ Len(Slots) \in Nat /\ MaxLeaves <= Len(Slots)
    BY SlotsAssumption, LenProperties
  <2>3. Cardinality(Leaves) <= MaxLeaves /\ Cardinality(Leaves) \in Nat /\ MaxLeaves \in Nat
    <3>1. PlanFormed /\ Leaves \subseteq Steps
      BY <1>1 DEF PlanTypes, Leaves
    <3>2. IsFiniteSet(Leaves)
      BY <3>1, StepsFacts, FS_Subset
    <3>3. Cardinality(Leaves) \in Nat
      BY <3>2, FS_CardinalityType
    <3>. QED
      BY <1>1, <3>3, PlannerAssumption DEF PlanTypes
  <2>. QED
    BY <1>2, <2>1, <2>2, <2>3
<1>. HIDE DEF made
<1>5. attached \in SUBSET ((DOMAIN Slots) \X (DOMAIN Slots)) /\ meant \subseteq attached
  BY <1>3, <1>4
<1>6. \A p \in meant : p[1] \in DOMAIN Slots /\ p[2] \in DOMAIN Slots /\ p[2] < p[1]
  BY <1>2, <1>4
<1>. HIDE DEF attached, meant
<1>7. /\ deps' \in [Tasks -> SUBSET Tasks] /\ due' \in [Tasks -> SUBSET Tasks]
      /\ \A t \in Tasks : due'[t] \subseteq deps'[t]
      /\ \A t \in Tasks : \A u \in due'[t] : \E p \in meant : Slots[p[1]] = t /\ Slots[p[2]] = u
  <2>1. meant \in SUBSET ((DOMAIN Slots) \X (DOMAIN Slots))
    BY <1>5
  <2>2. /\ due' \in [Tasks -> SUBSET Tasks]
        /\ \A t \in Tasks : \A u :
             u \in due'[t] <=> \E p \in meant : Slots[p[1]] = t /\ Slots[p[2]] = u
    BY <1>1, <2>1, AmongTells
  <2>3. /\ deps' \in [Tasks -> SUBSET Tasks]
        /\ \A t \in Tasks : \A u :
             u \in deps'[t] <=> \E p \in attached : Slots[p[1]] = t /\ Slots[p[2]] = u
    BY <1>1, <1>5, AmongTells
  <2>4. ASSUME NEW t \in Tasks, NEW u \in due'[t] PROVE u \in deps'[t]
    BY <1>5, <2>2, <2>3
  <2>. QED
    BY <2>2, <2>3, <2>4
<1>8. DueKept'
  <2>1. ASSUME NEW i \in DOMAIN Slots, NEW j \in DOMAIN Slots, Slots[j] \in due'[Slots[i]]
        PROVE  j < i
    <3>1. Slots[i] \in Tasks /\ IsInjective(Slots)
      BY SlotsAssumption, LenProperties
    <3>2. PICK p \in meant : Slots[p[1]] = Slots[i] /\ Slots[p[2]] = Slots[j]
      BY <1>7, <2>1, <3>1
    <3>3. p[1] = i /\ p[2] = j
      BY <1>6, <3>1, <3>2 DEF IsInjective
    <3>. QED
      BY <1>6, <3>2, <3>3
  <2>. QED
    BY <1>7, <2>1 DEF DueKept
<1>9. /\ queue = {} /\ waiting = {} /\ active = {} /\ ended = {}
      /\ \A t \in Tasks : starts[t] = 0 /\ status[t] = "pending"
  BY <1>1 DEF DagInv, TypeOK, IdleEmpty, StatusKnown
<1>10. DagInv'
  <2>1. TypeOK'
    BY <1>1, <1>7 DEF DagInv, TypeOK
  <2>2. IdleEmpty' /\ AheadKnown' /\ OnePlace' /\ StatusKnown'
    BY <1>1 DEF DagInv, IdleEmpty, AheadKnown, OnePlace, StatusKnown
  <2>3. DegreesExact' /\ LaunchedReady'
    BY <1>1, <1>9 DEF DegreesExact, LaunchedReady
  <2>. QED
    BY <2>1, <2>2, <2>3 DEF DagInv
<1>11. NeverEarly' /\ Sound' /\ SkippedForCause' /\ RecordsFollow'
  BY <1>1, <1>9 DEF NeverEarly, Sound, SkippedForCause, RecordsFollow
<1>12. PlanTypes'
  <2>1. todo' \in Seq([step : Nat, depth : Nat]) /\ MaxLeaves \in Nat
    BY <1>1, PlannerAssumption DEF PlanTypes
  <2>2. PlanFormed' /\ Leaves' = {}
    <3>1. up' \in Seq(Nat) /\ needs' \in Seq(SUBSET Nat) /\ Len(needs') = Len(up') /\ DOMAIN up' = {}
      BY <1>1, EmptySeq
    <3>. QED
      BY <3>1 DEF PlanFormed, Steps, Leaves
  <2>3. Cardinality(Leaves') = 0
    BY <2>2, FS_EmptySet
  <2>. QED
    BY <1>1, <2>1, <2>2, <2>3 DEF PlanTypes
<1>. QED
  BY <1>1, <1>8, <1>10, <1>11, <1>12 DEF PlannedInv, CallInv

\* Steps that leave the tasks, or the plan, as they are.
LEMMA TasksAlike ==
  ASSUME PlannedInv, UNCHANGED <<vars, due>>
  PROVE  CallInv' /\ DueKept' /\ phase' = phase
<1>1. CallInv' /\ deps' = deps /\ phase' = phase
  BY CallStep DEF PlannedInv, vars
<1>. QED
  BY <1>1 DEF PlannedInv, DueKept

LEMMA PlanAlike ==
  ASSUME PlanTypes, UNCHANGED <<up, needs, todo>>, stage' \in {stage, "refused"}
  PROVE  PlanTypes'
<1>1. PlanFormed' /\ Leaves' = Leaves
  BY DEF PlanTypes, PlanFormed, Steps, Substeps, Leaves
<1>. QED
  BY <1>1 DEF PlanTypes

LEMMA PlannedStep ==
  ASSUME PlannedInv, [PlannedNext]_plannedVars
  PROVE  PlannedInv'
<1>1. CASE Planning /\ UNCHANGED <<vars, due>>
  <2>1. stage # "enqueued"
    BY <1>1 DEF Planning, Decompose, Expand, PlanFails, PlanDone
  <2>. QED
    BY <1>1, <2>1, PlanningKeeps, TasksAlike DEF PlannedInv
<1>2. CASE Enqueue
  BY <1>2, EnqueueKeeps
<1>3. CASE EnqueueRefused
  <2>1. UNCHANGED <<vars, due>> /\ UNCHANGED <<up, needs, todo>> /\ stage # "enqueued" /\ stage' = "refused"
    BY <1>3 DEF EnqueueRefused
  <2>. QED
    BY <2>1, PlanAlike, TasksAlike DEF PlannedInv
<1>4. CASE stage = "enqueued" /\ Next /\ UNCHANGED <<planVars, due>>
  <2>1. CallInv' /\ deps' = deps
    BY <1>4, CallStep DEF PlannedInv
  <2>2. PlanTypes' /\ stage' = "enqueued"
    BY <1>4, PlanAlike DEF PlannedInv, planVars
  <2>. QED
    BY <1>4, <2>1, <2>2 DEF PlannedInv, DueKept
<1>5. CASE UNCHANGED plannedVars
  <2>1. UNCHANGED <<vars, due>> /\ UNCHANGED <<up, needs, todo>> /\ stage' = stage
    BY <1>5 DEF plannedVars, planVars
  <2>. QED
    BY <2>1, PlanAlike, TasksAlike DEF PlannedInv
<1>. QED
  BY <1>1, <1>2, <1>3, <1>4, <1>5 DEF PlannedNext

(* The inductive invariant of a queue that may be filled by a plan: the    *)
(* planner has a tree with room for its leaves in hand, a call begins only *)
(* when the tasks are there, and they wait for all that the plan means.    *)
THEOREM PlannedInvHolds == PlannedSpec => []PlannedInv
  BY PlannedStarts, PlannedStep, PTL DEF PlannedSpec

\* What to_tasks makes of a plan: it raises where a level has a cycle, and nowhere
\* else; else there is a task for each leaf, once, with the dependencies the plan
\* means and after those it is to wait for.
PlanTasks ==
  /\ \A a \in Leaves : Attach(a) = {b \in Leaves : WaitsFor(a, b)}
  /\ Built \in Seq(Leaves) /\ IsInjective(Built)
  /\ \A i, j \in DOMAIN Built : WaitsFor(Built[i], Built[j]) => j < i
  /\ Sortable <=> \A s \in Steps \cup {0} : NoCycle(Substeps(s))
  /\ Sortable => Range(Built) = Leaves

(* Flattening refuses cycles only, and loses no leaf, no dependency and no   *)
(* order, for every tree of steps a planner can build.                       *)
THEOREM PlanTasksHolds == PlannedSpec => []PlanTasks
<1>1. PlannedInv => PlanTasks
  BY AttachTells, BuiltTells, SortedUnlessCycle DEF PlannedInv, PlanTypes, PlanTasks, Sortable
<1>. QED
  BY <1>1, PlannedInvHolds, PTL

(* What is proved of a call holds of one whose queue a plan has filled.      *)
THEOREM PlannedCallHolds ==
  PlannedSpec => [](DagInv /\ NeverEarly /\ SkippedForCause /\ ReturnsFinished /\ RecordsFollow)
<1>1. PlannedInv => DagInv /\ NeverEarly /\ SkippedForCause /\ ReturnsFinished /\ RecordsFollow
  BY NobodyForgotten DEF PlannedInv, CallInv
<1>. QED
  BY <1>1, PlannedInvHolds, PTL

(* A task of a plan is started only when every task it is to wait for is     *)
(* done, and tasks are made in an order in which none waits for a later one. *)
THEOREM PlanKeptHolds == PlannedSpec => []PlanKept
<1>1. PlannedInv => PlanKept
  <2>. SUFFICES ASSUME PlannedInv PROVE PlanKept
    OBVIOUS
  <2>1. \A t \in Tasks : starts[t] > 0 => \A d \in due[t] \cap queue : status[d] = "done"
    BY DEF PlannedInv, CallInv, NeverEarly, DueKept, Needs
  <2>. QED
    BY <2>1 DEF PlannedInv, DueKept, PlanKept
<1>. QED
  BY <1>1, PlannedInvHolds, PTL

================================================================================
