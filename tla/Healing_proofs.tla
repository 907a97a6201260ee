---------------------------- MODULE Healing_proofs -----------------------------
(***************************************************************************)
(* Proofs about Healing, for any tasks, policy, tree and either runner.    *)
(***************************************************************************)
EXTENDS Healing, FiniteSetTheorems, TLAPS

USE NamesAssumption, SpawnsAssumption

(* A list of tasks lists tasks.                                             *)
LEMMA InTasks ==
  ASSUME NEW s \in Seq(Tasks)
  PROVE  Members(s) \subseteq Tasks
<1>1. \A i \in 1..Len(s) : s[i] \in Tasks
  OBVIOUS
<1>. QED
  BY <1>1 DEF Members

(* What the loop takes from the front of a list without doubles.            *)
LEMMA HeadTail ==
  ASSUME NEW s \in Seq(Tasks), s # <<>>
  PROVE  /\ Head(s) \in Tasks /\ Tail(s) \in Seq(Tasks)
         /\ Members(s) = {Head(s)} \cup Members(Tail(s))
         /\ Distinct(s) => Distinct(Tail(s)) /\ Head(s) \notin Members(Tail(s))
<1>1. /\ Head(s) \in Tasks /\ Tail(s) \in Seq(Tasks) /\ Len(s) > 0
      /\ Head(s) = s[1] /\ Len(Tail(s)) = Len(s) - 1 /\ Len(s) \in Nat
      /\ \A i \in 1..Len(Tail(s)) : Tail(s)[i] = s[i + 1]
  OBVIOUS
<1>2. ASSUME NEW x \in Members(s), x # Head(s)
      PROVE  x \in Members(Tail(s))
  <2>1. PICK i \in 1..Len(s) : x = s[i]
    BY <1>2 DEF Members
  <2>2. i - 1 \in 1..Len(Tail(s)) /\ Tail(s)[i - 1] = x
    BY <1>1, <1>2, <2>1
  <2>. QED
    BY <2>2 DEF Members
<1>3. ASSUME NEW x \in Members(Tail(s))
      PROVE  \E i \in 2..Len(s) : x = s[i]
  <2>1. PICK i \in 1..Len(Tail(s)) : x = Tail(s)[i]
    BY <1>3 DEF Members
  <2>2. i + 1 \in 2..Len(s) /\ x = s[i + 1]
    BY <1>1, <2>1
  <2>. QED
    BY <2>2
<1>4. Members(s) = {Head(s)} \cup Members(Tail(s))
  <2>1. Head(s) \in Members(s)
    BY <1>1 DEF Members
  <2>2. Members(Tail(s)) \subseteq Members(s)
    BY <1>1, <1>3 DEF Members
  <2>. QED
    BY <1>2, <2>1, <2>2
<1>5. ASSUME Distinct(s)
      PROVE  Distinct(Tail(s)) /\ Head(s) \notin Members(Tail(s))
  <2>1. ASSUME NEW i \in 1..Len(Tail(s)), NEW j \in 1..Len(Tail(s)),
               Tail(s)[i] = Tail(s)[j]
        PROVE  i = j
    BY <1>1, <1>5, <2>1 DEF Distinct
  <2>2. Head(s) \notin Members(Tail(s))
    BY <1>1, <1>3, <1>5 DEF Distinct
  <2>. QED
    BY <2>1, <2>2 DEF Distinct
<1>. QED
  BY <1>1, <1>4, <1>5

(* What a retry or the dead letter adds at the end of a list.               *)
LEMMA AppendOne ==
  ASSUME NEW s \in Seq(Tasks), NEW t \in Tasks
  PROVE  /\ Append(s, t) \in Seq(Tasks)
         /\ Members(Append(s, t)) = Members(s) \cup {t}
         /\ Distinct(s) /\ t \notin Members(s) => Distinct(Append(s, t))
<1>1. /\ Append(s, t) \in Seq(Tasks) /\ Len(Append(s, t)) = Len(s) + 1 /\ Len(s) \in Nat
      /\ Append(s, t)[Len(s) + 1] = t
      /\ \A i \in 1..Len(s) : Append(s, t)[i] = s[i]
  OBVIOUS
<1>2. ASSUME NEW x PROVE x \in Members(Append(s, t)) <=> x \in Members(s) \/ x = t
  <2>1. CASE x \in Members(Append(s, t))
    <3>1. PICK i \in 1..(Len(s) + 1) : x = Append(s, t)[i]
      BY <1>1, <2>1 DEF Members
    <3>2. i \in 1..Len(s) \/ i = Len(s) + 1
      BY <1>1
    <3>. QED
      BY <1>1, <3>1, <3>2 DEF Members
  <2>2. CASE x \in Members(s)
    <3>1. PICK i \in 1..Len(s) : x = s[i]
      BY <2>2 DEF Members
    <3>2. i \in 1..Len(Append(s, t)) /\ x = Append(s, t)[i]
      BY <1>1, <3>1
    <3>. QED
      BY <2>2, <3>2 DEF Members
  <2>3. CASE x = t
    <3>1. Len(s) + 1 \in 1..Len(Append(s, t))
      BY <1>1
    <3>. QED
      BY <1>1, <2>3, <3>1 DEF Members
  <2>. QED
    BY <2>1, <2>2, <2>3
<1>3. ASSUME Distinct(s), t \notin Members(s),
             NEW i \in 1..Len(Append(s, t)), NEW j \in 1..Len(Append(s, t)),
             Append(s, t)[i] = Append(s, t)[j]
      PROVE  i = j
  <2>1. (i \in 1..Len(s) \/ i = Len(s) + 1) /\ (j \in 1..Len(s) \/ j = Len(s) + 1)
    BY <1>1
  <2>. QED
    BY <1>1, <1>3, <2>1 DEF Distinct, Members
<1>. QED
  BY <1>1, <1>2, <1>3 DEF Distinct

(* A list that is empty, and one of a single task.                          *)
LEMMA Short ==
  ASSUME NEW t \in Tasks
  PROVE  /\ <<t>> \in Seq(Tasks) /\ Members(<<t>>) = {t} /\ Distinct(<<t>>)
         /\ <<>> \in Seq(Tasks) /\ Members(<<>>) = {} /\ Distinct(<<>>)
  BY DEF Members, Distinct

-------------------------------------------------------------------------------
(* The invariant *)

Statuses == {"pending", "running", "done", "failed", "dead"}

Kinds ==
  /\ setup \in Setups
  /\ queue \in Seq(Tasks) /\ pass \in Seq(Tasks) /\ dead \in Seq(Tasks)
  /\ status \in [Tasks -> Statuses]
  /\ target \in [Tasks -> Targets] /\ open \in [Targets -> Nat]
  /\ attempts \in [Tasks -> Nat] /\ begun \in [Tasks -> Nat]

\* NoTaskLost says where a task is; a runner that returned has nothing left.
Placed ==
  /\ Distinct(queue) /\ Distinct(pass) /\ Distinct(dead)
  /\ Members(queue) \cap Members(pass) = {}
  /\ \A t \in Members(queue) : status[t] = "pending"
  /\ \A t \in Members(pass) : status[t] # "dead"
  /\ \A t \in Tasks : status[t] = "dead" <=> t \in Members(dead)
  /\ \A t \in Tasks :
       t \notin Members(queue) \cup Members(pass) => status[t] \in {"done", "dead"}
  /\ phase = "returned" => queue = <<>> /\ pass = <<>>

\* How often a task was started is told by its failures and its status.
Count(t) ==
  /\ status[t] = "pending" => begun[t] = attempts[t]
  /\ status[t] \in {"running", "failed"} => begun[t] = attempts[t] + 1
  /\ status[t] \in {"pending", "running", "failed"} => attempts[t] <= MaxRetries
  /\ status[t] = "dead" => begun[t] = MaxRetries + 1
  /\ status[t] = "done" => begun[t] <= MaxRetries + 1
Counted == \A t \in Tasks : Count(t)

\* The root has no circuit, and nothing waits in the pass for an open one.
Rested ==
  /\ open[Root] = 0
  /\ Reroute => \A t \in Members(pass) : status[t] = "pending" => open[target[t]] = 0

HealInv == Kinds /\ Placed /\ Counted /\ Rested

(* A run starts with every task in the queue.                               *)
LEMMA HealInit == Init => HealInv
<1>. SUFFICES ASSUME Init PROVE HealInv
  OBVIOUS
<1>1. Kinds
  BY QueueAssumption DEF Init, Kinds, Statuses, Targets
<1>2. Placed
  <2>1. Distinct(queue) /\ Distinct(pass) /\ Distinct(dead)
    BY QueueAssumption DEF Init, Distinct
  <2>2. Members(queue) = Tasks /\ Members(pass) = {} /\ Members(dead) = {}
    BY QueueAssumption DEF Init, Members
  <2>. QED
    BY <2>1, <2>2 DEF Init, Placed
<1>3. Counted
  BY PolicyAssumption DEF Init, Counted, Count
<1>4. Rested
  BY DEF Init, Rested, Targets, Members
<1>. QED
  BY <1>1, <1>2, <1>3, <1>4 DEF HealInv

(* A pass takes the whole queue, or its head, and leaves open circuits.     *)
LEMMA NextPassKeeps == HealInv /\ NextPass => HealInv'
<1>. SUFFICES ASSUME HealInv, NextPass PROVE HealInv'
  OBVIOUS
<1>1. /\ queue \in Seq(Tasks) /\ queue # <<>> /\ pass = <<>>
      /\ Distinct(queue) /\ Members(pass) = {} /\ phase = "running"
  BY Short DEF HealInv, Kinds, Placed, NextPass, Members
<1>2. /\ queue' \in Seq(Tasks) /\ pass' \in Seq(Tasks)
      /\ Distinct(queue') /\ Distinct(pass')
      /\ Members(queue') \cap Members(pass') = {}
      /\ Members(queue') \cup Members(pass') = Members(queue)
  <2>1. CASE Concurrent
    <3>1. queue' = <<>> /\ pass' = queue
      BY <2>1 DEF NextPass
    <3>2. queue' \in Seq(Tasks) /\ Members(queue') = {} /\ Distinct(queue')
      BY <3>1 DEF Members, Distinct
    <3>. QED
      BY <1>1, <3>1, <3>2
  <2>2. CASE ~Concurrent
    <3>1. queue' = Tail(queue) /\ pass' = <<Head(queue)>>
      BY <2>2 DEF NextPass
    <3>2. Head(queue) \in Tasks
      BY <1>1, HeadTail
    <3>. QED
      BY <1>1, <3>1, <3>2, HeadTail, Short
  <2>. QED
    BY <2>1, <2>2
<1>3. target' = Rerouted(pass') /\ UNCHANGED <<setup, phase, status, dead, open, attempts, begun>>
  BY DEF NextPass, breaker, history
<1>4. Kinds'
  <2>1. target' \in [Tasks -> Targets]
    BY <1>3 DEF HealInv, Kinds, Rerouted, Targets
  <2>. QED
    BY <1>2, <1>3, <2>1 DEF HealInv, Kinds
<1>5. Placed'
  <2>1. Members(dead)' = Members(dead) /\ Distinct(dead)'
    BY <1>3 DEF HealInv, Placed, Members, Distinct
  <2>2. \A t \in Members(queue) : status[t] = "pending"
    BY DEF HealInv, Placed
  <2>. QED
    BY <1>1, <1>2, <1>3, <2>1, <2>2 DEF HealInv, Placed
<1>6. Counted'
  BY <1>3 DEF HealInv, Counted, Count
<1>7. Rested'
  <2>1. ASSUME Reroute', NEW t \in Members(pass')
        PROVE  open'[target'[t]] = 0
    <3>1. t \in Tasks
      BY <1>2, <2>1 DEF Members
    <3>2. Reroute
      BY <1>3, <2>1 DEF Reroute
    <3>3. target'[t] = IF open[target[t]] > 0 THEN Root ELSE target[t]
      BY <1>3, <2>1, <3>1, <3>2 DEF Rerouted
    <3>4. open[target[t]] \in Nat /\ open[Root] = 0
      BY <3>1 DEF HealInv, Kinds, Rested
    <3>. QED
      BY <1>3, <3>3, <3>4
  <2>2. Members(pass)' = Members(pass')
    BY DEF Members
  <2>. QED
    BY <1>3, <2>1, <2>2 DEF HealInv, Rested
<1>. QED
  BY <1>4, <1>5, <1>6, <1>7 DEF HealInv

(* A start, an answer and a failure change the status of a task of the pass.*)
LEMMA AttemptKeeps ==
  ASSUME NEW t \in Tasks, HealInv, Attempt(t)
  PROVE  HealInv'
<1>1. UNCHANGED <<setup, phase, queue, pass, dead, target, open, attempts>>
  BY DEF Attempt, Start, Succeed, Failing, breaker, history
<1>2. /\ Members(queue)' = Members(queue) /\ Members(pass)' = Members(pass)
      /\ Members(dead)' = Members(dead)
      /\ Distinct(queue)' = Distinct(queue) /\ Distinct(pass)' = Distinct(pass)
      /\ Distinct(dead)' = Distinct(dead)
  BY <1>1 DEF Members, Distinct
<1>3. t \in Members(pass)
  <2>1. CASE Start(t)
    BY <2>1 DEF Start, IsNext, Members
  <2>2. CASE Succeed(t) \/ Failing(t)
    <3>1. status[t] = "running"
      BY <2>2 DEF Succeed, Failing
    <3>2. t \notin Members(queue) \cup Members(pass) => FALSE
      BY <3>1 DEF HealInv, Placed
    <3>3. t \notin Members(queue)
      BY <3>1 DEF HealInv, Placed
    <3>. QED
      BY <3>2, <3>3
  <2>. QED
    BY <2>1, <2>2 DEF Attempt
<1>4. \E x \in {"running", "done", "failed"} : status' = [status EXCEPT ![t] = x]
  BY DEF Attempt, Start, Succeed, Failing
<1>5. status[t] \in {"pending", "running"}
  BY DEF Attempt, Start, IsNext, Succeed, Failing
<1>6. Kinds'
  <2>1. status' \in [Tasks -> Statuses]
    BY <1>4 DEF HealInv, Kinds, Statuses
  <2>2. begun' \in [Tasks -> Nat]
    <3>1. begun \in [Tasks -> Nat]
      BY DEF HealInv, Kinds
    <3>2. begun' = begun \/ begun' = [begun EXCEPT ![t] = @ + 1]
      BY DEF Attempt, Start, Succeed, Failing
    <3>. QED
      BY <3>1, <3>2
  <2>. QED
    BY <1>1, <2>1, <2>2 DEF HealInv, Kinds
<1>7. Placed'
  <2>1. PICK x \in {"running", "done", "failed"} : status' = [status EXCEPT ![t] = x]
    BY <1>4
  <2>2. \A u \in Tasks : status'[u] = IF u = t THEN x ELSE status[u]
    BY <2>1 DEF HealInv, Kinds
  <2>3. Members(queue) \subseteq Tasks /\ Members(pass) \subseteq Tasks
    BY InTasks DEF HealInv, Kinds
  <2>4. t \notin Members(queue) /\ t \notin Members(dead)
    BY <1>3, <1>5 DEF HealInv, Placed
  <2>. QED
    BY <1>1, <1>2, <1>3, <2>2, <2>3, <2>4 DEF HealInv, Placed
<1>8. Counted'
  <2>1. CASE Start(t)
    BY <1>1, <1>5, <2>1 DEF HealInv, Kinds, Counted, Count, Start, IsNext
  <2>2. CASE Succeed(t)
    BY <1>1, <2>2, PolicyAssumption DEF HealInv, Kinds, Counted, Count, Succeed
  <2>3. CASE Failing(t)
    BY <1>1, <2>3 DEF HealInv, Kinds, Counted, Count, Failing
  <2>. QED
    BY <2>1, <2>2, <2>3 DEF Attempt
<1>9. Rested'
  <2>1. Reroute' = Reroute
    BY <1>1 DEF Reroute
  <2>2. \A u \in Members(pass) : status'[u] = "pending" => status[u] = "pending"
    <3>1. Members(pass) \subseteq Tasks
      BY InTasks DEF HealInv, Kinds
    <3>. QED
      BY <1>4, <3>1 DEF HealInv, Kinds
  <2>. QED
    BY <1>1, <1>2, <2>1, <2>2 DEF HealInv, Rested
<1>. QED
  BY <1>6, <1>7, <1>8, <1>9 DEF HealInv

(* What every judgement starts from: the head of a pass that has ended.     *)
LEMMA Judged ==
  ASSUME HealInv, AllEnded
  PROVE  /\ Head(pass) \in Tasks /\ Tail(pass) \in Seq(Tasks)
         /\ Head(pass) \in Members(pass)
         /\ Members(pass) = {Head(pass)} \cup Members(Tail(pass))
         /\ Head(pass) \notin Members(Tail(pass)) /\ Distinct(Tail(pass))
         /\ Head(pass) \notin Members(queue) /\ Head(pass) \notin Members(dead)
         /\ \A t \in Members(pass) : status[t] \in Ended
         /\ phase # "returned"
<1>1. pass \in Seq(Tasks) /\ pass # <<>> /\ Distinct(pass)
  BY DEF HealInv, Kinds, Placed, AllEnded
<1>2. \A t \in Members(pass) : status[t] \in Ended
  BY DEF AllEnded, Members
<1>3. /\ Head(pass) \in Tasks /\ Tail(pass) \in Seq(Tasks)
      /\ Members(pass) = {Head(pass)} \cup Members(Tail(pass))
      /\ Head(pass) \notin Members(Tail(pass)) /\ Distinct(Tail(pass))
  BY <1>1, HeadTail
<1>. QED
  BY <1>1, <1>2, <1>3 DEF HealInv, Placed

(* A task that is done leaves the pass.                                     *)
LEMMA JudgeDoneKeeps == HealInv /\ JudgeDone => HealInv'
<1>. SUFFICES ASSUME HealInv, JudgeDone PROVE HealInv'
  OBVIOUS
<1>. DEFINE t == Head(pass)
<1>1. AllEnded /\ status[t] = "done" /\ pass' = Tail(pass)
  BY DEF JudgeDone
<1>2. UNCHANGED <<setup, phase, queue, status, dead, target, open, attempts, begun>>
  BY DEF JudgeDone, ResetCount, tasks, history
<1>3. /\ Members(queue)' = Members(queue) /\ Members(dead)' = Members(dead)
      /\ Members(pass)' = Members(Tail(pass))
      /\ Distinct(queue)' = Distinct(queue) /\ Distinct(dead)' = Distinct(dead)
      /\ Distinct(pass)' = Distinct(Tail(pass))
  BY <1>1, <1>2 DEF Members, Distinct
<1>4. Kinds'
  BY <1>1, <1>2, Judged DEF HealInv, Kinds
<1>5. Placed'
  BY <1>1, <1>2, <1>3, Judged DEF HealInv, Placed
<1>6. Counted'
  BY <1>2 DEF HealInv, Counted, Count
<1>7. Rested'
  BY <1>1, <1>2, <1>3, Judged DEF HealInv, Rested, Ended
<1>. QED
  BY <1>4, <1>5, <1>6, <1>7 DEF HealInv

(* A failure is retried or buried; a circuit breaks while nothing waits.    *)
LEMMA JudgeFailedKeeps == HealInv /\ JudgeFailed => HealInv'
<1>. SUFFICES ASSUME HealInv, JudgeFailed PROVE HealInv'
  OBVIOUS
<1>. DEFINE t == Head(pass)
<1>1. /\ AllEnded /\ status[t] = "failed" /\ pass' = Tail(pass)
      /\ attempts' = [attempts EXCEPT ![t] = @ + 1]
      /\ UNCHANGED <<setup, phase, target, begun>>
  BY DEF JudgeFailed, history
<1>2. open' = open \/ (target[t] # Root /\ open' = [open EXCEPT ![target[t]] = Cooldown])
  BY DEF JudgeFailed, Break, Trips
<1>3. IF attempts[t] + 1 <= MaxRetries
      THEN /\ status' = [status EXCEPT ![t] = "pending"]
           /\ queue' = Append(queue, t) /\ dead' = dead
      ELSE /\ status' = [status EXCEPT ![t] = "dead"]
           /\ dead' = Append(dead, t) /\ queue' = queue
  BY DEF JudgeFailed, RetriesLeft, Retry, Bury
<1>4. /\ t \in Tasks /\ queue \in Seq(Tasks) /\ dead \in Seq(Tasks)
      /\ status \in [Tasks -> Statuses]
      /\ t \notin Members(queue) /\ t \notin Members(dead)
      /\ t \notin Members(Tail(pass))
      /\ Members(pass) = {t} \cup Members(Tail(pass))
      /\ Distinct(Tail(pass)) /\ Tail(pass) \in Seq(Tasks)
  BY <1>1, Judged DEF HealInv, Kinds
<1>5. /\ queue' \in Seq(Tasks) /\ dead' \in Seq(Tasks)
      /\ Distinct(queue') /\ Distinct(dead')
      /\ Members(queue') = Members(queue) \cup (IF queue' = queue THEN {} ELSE {t})
      /\ Members(dead') = Members(dead) \cup (IF queue' = queue THEN {t} ELSE {})
      /\ status' = [status EXCEPT ![t] = IF queue' = queue THEN "dead" ELSE "pending"]
  <2>1. Distinct(queue) /\ Distinct(dead)
    BY DEF HealInv, Placed
  <2>2. /\ Append(queue, t) \in Seq(Tasks) /\ Append(dead, t) \in Seq(Tasks)
        /\ Members(Append(queue, t)) = Members(queue) \cup {t}
        /\ Members(Append(dead, t)) = Members(dead) \cup {t}
        /\ Distinct(Append(queue, t)) /\ Distinct(Append(dead, t))
    BY <1>4, <2>1, AppendOne
  <2>3. CASE attempts[t] + 1 <= MaxRetries
    <3>1. /\ status' = [status EXCEPT ![t] = "pending"]
          /\ queue' = Append(queue, t) /\ dead' = dead
      BY <1>3, <2>3
    <3>2. queue' # queue
      BY <1>4, <2>2, <3>1
    <3>. QED
      BY <1>4, <2>1, <2>2, <3>1, <3>2
  <2>4. CASE ~(attempts[t] + 1 <= MaxRetries)
    <3>1. /\ status' = [status EXCEPT ![t] = "dead"]
          /\ dead' = Append(dead, t) /\ queue' = queue
      BY <1>3, <2>4
    <3>. QED
      BY <1>4, <2>1, <2>2, <3>1
  <2>. QED
    BY <2>3, <2>4
<1>6. /\ Members(queue)' = Members(queue') /\ Members(dead)' = Members(dead')
      /\ Members(pass)' = Members(Tail(pass)) /\ Distinct(pass)' = Distinct(Tail(pass))
      /\ Distinct(queue)' = Distinct(queue') /\ Distinct(dead)' = Distinct(dead')
  BY <1>1 DEF Members, Distinct
<1>7. Kinds'
  <2>1. open' \in [Targets -> Nat]
    BY <1>2, PolicyAssumption DEF HealInv, Kinds
  <2>2. status' \in [Tasks -> Statuses]
    BY <1>5 DEF HealInv, Kinds, Statuses
  <2>3. attempts' \in [Tasks -> Nat]
    BY <1>1, <1>4 DEF HealInv, Kinds
  <2>. QED
    BY <1>1, <1>4, <1>5, <2>1, <2>2, <2>3 DEF HealInv, Kinds
<1>8. Placed'
  <2>. DEFINE x == IF queue' = queue THEN "dead" ELSE "pending"
  <2>1. \A u \in Tasks : status'[u] = IF u = t THEN x ELSE status[u]
    BY <1>4, <1>5
  <2>2. /\ Members(queue) \subseteq Tasks /\ Members(Tail(pass)) \subseteq Tasks
        /\ Members(dead) \subseteq Tasks
    BY <1>4, InTasks
  <2>3. /\ Members(queue') \cap Members(Tail(pass)) = {}
        /\ \A u \in Members(queue') : status'[u] = "pending"
        /\ \A u \in Members(Tail(pass)) : status'[u] # "dead"
    BY <1>4, <1>5, <2>1, <2>2 DEF HealInv, Placed
  <2>4. \A u \in Tasks : status'[u] = "dead" <=> u \in Members(dead')
    BY <1>4, <1>5, <2>1 DEF HealInv, Placed
  <2>5. \A u \in Tasks : u \notin Members(queue') \cup Members(Tail(pass))
                           => status'[u] \in {"done", "dead"}
    BY <1>4, <1>5, <2>1 DEF HealInv, Placed
  <2>6. phase' # "returned"
    BY <1>1, Judged
  <2>. QED
    BY <1>4, <1>5, <1>6, <2>3, <2>4, <2>5, <2>6 DEF Placed
<1>9. Counted'
  <2>. SUFFICES ASSUME NEW u \in Tasks PROVE Count(u)'
    BY DEF Counted
  <2>1. /\ attempts[u] \in Nat /\ begun'[u] = begun[u] /\ Count(u)
        /\ status'[u] = IF u = t THEN IF attempts[t] + 1 <= MaxRetries THEN "pending" ELSE "dead"
                        ELSE status[u]
        /\ attempts'[u] = IF u = t THEN attempts[u] + 1 ELSE attempts[u]
    BY <1>1, <1>3 DEF HealInv, Kinds, Counted
  <2>2. CASE u # t
    BY <2>1, <2>2 DEF Count
  <2>3. CASE u = t
    BY <1>1, <2>1, <2>3, PolicyAssumption DEF Count
  <2>. QED
    BY <2>2, <2>3
<1>10. Rested'
  <2>1. open'[Root] = 0
    BY <1>2 DEF HealInv, Kinds, Rested, Targets
  <2>2. \A u \in Members(Tail(pass)) : status'[u] # "pending"
    <3>1. /\ Members(Tail(pass)) \subseteq Tasks
          /\ \A u \in Members(pass) : status[u] \in Ended
      BY <1>1, <1>4, InTasks, Judged
    <3>. QED
      BY <1>4, <1>5, <3>1 DEF Ended
  <2>. QED
    BY <1>6, <2>1, <2>2 DEF Rested
<1>. QED
  BY <1>7, <1>8, <1>9, <1>10 DEF HealInv

(* A step that moves no task leaves every task where it was.                *)
LEMMA PlacedStays ==
  ASSUME Placed, UNCHANGED <<queue, pass, dead, status>>,
         phase' = phase \/ (queue = <<>> /\ pass = <<>>)
  PROVE  Placed'
<1>1. /\ Members(queue)' = Members(queue) /\ Members(pass)' = Members(pass)
      /\ Members(dead)' = Members(dead)
      /\ Distinct(queue)' = Distinct(queue) /\ Distinct(pass)' = Distinct(pass)
      /\ Distinct(dead)' = Distinct(dead)
  BY DEF Members, Distinct
<1>. QED
  BY <1>1 DEF Placed

(* The runner returns when it has nothing left.                             *)
LEMMA ReturnKeeps == HealInv /\ Return => HealInv'
<1>. SUFFICES ASSUME HealInv, Return PROVE HealInv'
  OBVIOUS
<1>1. /\ UNCHANGED <<setup, queue, pass, status, dead, target, open, attempts, begun>>
      /\ queue = <<>> /\ pass = <<>>
  BY DEF Return, tasks, breaker, history
<1>2. Kinds' /\ Counted' /\ Rested'
  BY <1>1 DEF HealInv, Kinds, Counted, Count, Rested, Reroute, Members
<1>3. Placed'
  BY <1>1, PlacedStays DEF HealInv
<1>. QED
  BY <1>2, <1>3 DEF HealInv

(* A cooldown that runs out leaves a circuit closed that was closed.        *)
LEMMA TickKeeps == HealInv /\ Tick => HealInv'
<1>. SUFFICES ASSUME HealInv, Tick PROVE HealInv'
  OBVIOUS
<1>1. UNCHANGED <<setup, phase, queue, pass, status, dead, target, attempts, begun>>
  BY DEF Tick, tasks
<1>2. /\ \A n \in Targets : open'[n] = Less(open[n])
      /\ open \in [Targets -> Nat] /\ open' \in [Targets -> Nat]
  BY DEF Tick, Less, HealInv, Kinds
<1>3. Kinds' /\ Placed' /\ Counted'
  <2>1. Kinds'
    BY <1>1, <1>2 DEF HealInv, Kinds
  <2>2. Placed'
    BY <1>1, PlacedStays DEF HealInv
  <2>3. Counted'
    BY <1>1 DEF HealInv, Counted, Count
  <2>. QED
    BY <2>1, <2>2, <2>3
<1>4. Rested'
  <2>1. open'[Root] = 0
    BY <1>2 DEF HealInv, Rested, Less, Targets
  <2>2. ASSUME Reroute, NEW t \in Members(pass), status[t] = "pending"
        PROVE  open'[target[t]] = 0
    <3>1. t \in Tasks
      BY InTasks DEF HealInv, Kinds
    <3>2. target[t] \in Targets /\ open[target[t]] = 0
      BY <2>2, <3>1 DEF HealInv, Kinds, Rested
    <3>. QED
      BY <1>2, <3>2 DEF Less
  <2>. QED
    BY <1>1, <2>1, <2>2 DEF Rested, Reroute, Members
<1>. QED
  BY <1>3, <1>4 DEF HealInv

(* Every step of a healing run keeps the invariant.                         *)
LEMMA HealStep == HealInv /\ [Next]_vars => HealInv'
<1>. SUFFICES ASSUME HealInv, [Next]_vars PROVE HealInv'
  OBVIOUS
<1>1. CASE NextPass
  BY <1>1, NextPassKeeps
<1>2. CASE \E t \in Tasks : Attempt(t)
  BY <1>2, AttemptKeeps
<1>3. CASE Judge
  BY <1>3, JudgeDoneKeeps, JudgeFailedKeeps DEF Judge
<1>4. CASE Return
  BY <1>4, ReturnKeeps
<1>5. CASE Tick
  BY <1>5, TickKeeps
<1>6. CASE UNCHANGED vars
  <2>1. UNCHANGED <<setup, phase, queue, pass, status, dead, target, open, attempts, begun>>
    BY <1>6 DEF vars, tasks, breaker, history
  <2>2. Kinds'
    BY <2>1 DEF HealInv, Kinds
  <2>3. Counted'
    BY <2>1 DEF HealInv, Counted, Count
  <2>4. Rested'
    BY <2>1 DEF HealInv, Rested, Reroute, Members
  <2>5. Placed'
    BY <2>1, PlacedStays DEF HealInv
  <2>. QED
    BY <2>2, <2>3, <2>4, <2>5 DEF HealInv
<1>. QED
  BY <1>1, <1>2, <1>3, <1>4, <1>5, <1>6 DEF Next

(* The invariant holds throughout.                                          *)
LEMMA HealAlways == Spec => []HealInv
  BY HealInit, HealStep, PTL DEF Spec

\* A step that moves a task from waiting to work is its start, in the pass.
LEMMA StartsInPass ==
  ASSUME HealInv, Next, NEW t \in Tasks, status[t] = "pending", status'[t] = "running"
  PROVE  t \in Members(pass)
<1>1. CASE \E u \in Tasks : Start(u)
  <2>1. PICK u \in Tasks : Start(u)
    BY <1>1
  <2>2. u = t
    BY <2>1 DEF Start, HealInv, Kinds
  <2>. QED
    BY <2>1, <2>2 DEF Start, IsNext, Members
<1>2. CASE \E u \in Tasks : Succeed(u) \/ Failing(u)
  BY <1>2 DEF Succeed, Failing, HealInv, Kinds
<1>3. CASE NextPass \/ Return \/ Tick \/ JudgeDone
  BY <1>3 DEF NextPass, Return, Tick, JudgeDone, tasks
<1>4. CASE JudgeFailed
  <2>1. \E u \in Tasks, x \in {"pending", "dead"} : status' = [status EXCEPT ![u] = x]
    BY <1>4, Judged DEF JudgeFailed, Retry, Bury
  <2>. QED
    BY <2>1 DEF HealInv, Kinds
<1>. QED
  BY <1>1, <1>2, <1>3, <1>4 DEF Next, Attempt, Judge

-------------------------------------------------------------------------------
(* Theorems *)

(* Under any policy and either runner, a task is in one place only, its      *)
(* status says which, and a run returns with none left behind                *)
(* (_run_healing, _run_healing_async).                                       *)
THEOREM NoTaskLostHolds == Spec => []NoTaskLost
<1>1. HealInv => NoTaskLost
  <2>. SUFFICES ASSUME HealInv PROVE NoTaskLost
    OBVIOUS
  <2>1. phase = "returned" => Members(queue) = {} /\ Members(pass) = {}
    BY DEF HealInv, Placed, Members
  <2>. QED
    BY <2>1 DEF HealInv, Placed, NoTaskLost
<1>. QED
  BY <1>1, HealAlways, PTL

(* A task dies after max_retries + 1 starts, and after no fewer; that many    *)
(* are all it gets (healing.py, max_retries).                                *)
THEOREM DeadForCauseHolds == Spec => []DeadForCause
<1>1. HealInv => DeadForCause
  <2>. SUFFICES ASSUME HealInv, NEW t \in Tasks
       PROVE  /\ begun[t] <= MaxRetries + 1
              /\ status[t] = "dead" => begun[t] = MaxRetries + 1
              /\ status[t] = "pending" => begun[t] = attempts[t]
    BY DEF DeadForCause
  <2>1. /\ Count(t) /\ status[t] \in Statuses
        /\ begun[t] \in Nat /\ attempts[t] \in Nat /\ MaxRetries \in Nat
    BY PolicyAssumption DEF HealInv, Kinds, Counted
  <2>. QED
    BY <2>1 DEF Count, Statuses
<1>. QED
  BY <1>1, HealAlways, PTL

(* With reroute, no attempt is made at a target whose circuit is open         *)
(* (healing.py, "taken out of rotation for a cooldown").                      *)
THEOREM OpenIsRestedHolds == Spec => OpenIsRested
<1>. DEFINE Rests ==
       Reroute => \A t \in Tasks :
         status[t] = "pending" /\ status'[t] = "running" => open[target[t]] = 0
<1>1. HealInv /\ [Next]_vars => [Rests]_vars
  <2>. SUFFICES ASSUME HealInv, Next, Reroute, NEW t \in Tasks,
                       status[t] = "pending", status'[t] = "running"
                PROVE  open[target[t]] = 0
    BY DEF Rests
  <2>1. t \in Members(pass)
    BY StartsInPass
  <2>. QED
    BY <2>1 DEF HealInv, Rested
<1>. QED
  BY <1>1, HealAlways, PTL DEF Spec, OpenIsRested

-------------------------------------------------------------------------------
(* What healing does, and why *)

(* A pause is a number of ticks within the maximum.                         *)
LEMMA BackoffBounds ==
  ASSUME NEW k \in Nat, k > 0
  PROVE  Backoff(k) \in Nat /\ Backoff(k) <= BackoffMax
<1>. DEFINE S == 1..(k - 1)
<1>1. IsFiniteSet(S) /\ Cardinality(S) = k - 1
  BY FS_Interval
<1>2. IsFiniteSet(SUBSET S) /\ Cardinality(SUBSET S) = 2 ^ (k - 1)
  BY <1>1, FS_SUBSET
<1>3. 2 ^ (k - 1) \in Nat
  BY <1>2, FS_CardinalityType
<1>4. PICK x \in Nat : x = 2 ^ (k - 1)
  BY <1>3
<1>5. BackoffBase * x \in Nat
  BY PolicyAssumption
<1>. QED
  BY <1>4, <1>5, PolicyAssumption DEF Backoff, Least

\* How long the runner rests before a retry of t.
Backs(t) == IF Concurrent THEN Backoff(1) ELSE Backoff(attempts[t])

CauseTypes ==
  /\ fails \in [Targets -> Nat] /\ streak \in [Targets -> Nat]
  /\ waited \in [Tasks -> Nat] /\ sleep \in Nat /\ approved \in Nat
  /\ record \in [Tasks -> Statuses]

\* The sequential runner has one task in its pass, and works while awake.
OneByOne ==
  ~Concurrent => /\ \A s, t \in Members(pass) : s = t
                 /\ Members(pass) = {} \/ sleep = 0

\* What a retry has waited, and the runner still sleeps, is its backoff; by
\* the time of the pass it has waited all of it.
Rests(t) ==
  status[t] = "pending" /\ attempts[t] > 0 =>
    /\ waited[t] + sleep >= Backs(t)
    /\ t \in Members(pass) => waited[t] >= Backs(t)

\* The sequential runner has counted no more failures of a target than there
\* were in a row, but for a success it has not judged yet.
Streaks ==
  ~Concurrent =>
    /\ \A n \in Targets :
         \/ fails[n] <= streak[n]
         \/ \E t \in Members(pass) : status[t] = "done" /\ target[t] = n
    /\ \A t \in Members(pass) :
         status[t] = "failed" => fails[target[t]] < streak[target[t]]

CauseInv ==
  /\ CauseTypes /\ RecordsTell /\ OneByOne /\ Streaks
  /\ \A t \in Tasks : Rests(t)

\* A run begins with nothing counted and nothing to wait for.
LEMMA CauseInit == Init => CauseInv
<1>. SUFFICES ASSUME Init PROVE CauseInv
  OBVIOUS
<1>1. Members(pass) = {}
  BY DEF Init, Members
<1>2. CauseTypes /\ RecordsTell
  BY DEF Init, ArborInit, CauseTypes, RecordsTell, Statuses
<1>3. OneByOne /\ Streaks /\ \A t \in Tasks : Rests(t)
  BY <1>1 DEF Init, OneByOne, Streaks, Rests
<1>. QED
  BY <1>2, <1>3 DEF CauseInv

\* A pass of the sequential runner is the head of the queue; what is in the
\* queue has rested once the runner wakes.
LEMMA NextPassCause == HealInv /\ CauseInv /\ NextPass => CauseInv'
<1>. SUFFICES ASSUME HealInv, CauseInv, NextPass PROVE CauseInv'
  OBVIOUS
<1>1. /\ queue \in Seq(Tasks) /\ queue # <<>> /\ Members(pass) = {} /\ sleep = 0
      /\ \A t \in Members(queue) : status[t] = "pending"
  BY DEF HealInv, Kinds, Placed, NextPass, Members
<1>2. /\ UNCHANGED <<tree, setup, status, record, attempts, fails, sleep, begun, streak, waited>>
      /\ Concurrent' = Concurrent
  BY DEF NextPass, breaker, history, Concurrent
<1>3. /\ Members(pass)' \subseteq Members(queue) /\ Members(queue) \subseteq Tasks
      /\ ~Concurrent => \A s, t \in Members(pass)' : s = t
  <2>1. Members(pass)' = Members(pass')
    BY DEF Members
  <2>2. CASE Concurrent
    BY <1>1, <2>1, <2>2, InTasks DEF NextPass
  <2>3. CASE ~Concurrent
    <3>1. pass' = <<Head(queue)>> /\ Head(queue) \in Tasks /\ Head(queue) \in Members(queue)
      BY <1>1, <2>3, HeadTail DEF NextPass
    <3>. QED
      BY <1>1, <2>1, <3>1, Short, InTasks
  <2>. QED
    BY <2>2, <2>3
<1>4. CauseTypes' /\ RecordsTell'
  BY <1>2 DEF CauseInv, CauseTypes, RecordsTell, tree
<1>5. OneByOne'
  BY <1>1, <1>2, <1>3 DEF OneByOne
<1>6. ASSUME NEW t \in Tasks PROVE Rests(t)'
  <2>1. Backs(t)' = Backs(t)
    BY <1>2 DEF Backs
  <2>2. waited[t] \in Nat /\ Rests(t)
    BY DEF CauseInv, CauseTypes
  <2>. QED
    BY <1>1, <1>2, <2>1, <2>2 DEF Rests
<1>7. Streaks'
  BY <1>1, <1>2, <1>3 DEF CauseInv, Streaks
<1>. QED
  BY <1>4, <1>5, <1>6, <1>7 DEF CauseInv

\* A start, an answer and a failure: a failure adds to the streak, a success
\* ends it and stays in the pass until it is judged.
LEMMA AttemptCause ==
  ASSUME NEW t \in Tasks, HealInv, CauseInv, Attempt(t)
  PROVE  CauseInv'
<1>1. /\ UNCHANGED <<tree, setup, queue, pass, target, fails, sleep, attempts>>
      /\ Members(pass)' = Members(pass) /\ Concurrent' = Concurrent
  BY DEF Attempt, Start, Succeed, Failing, breaker, Members, Concurrent
<1>2. /\ Members(pass) \subseteq Tasks /\ status[t] \in {"pending", "running"}
      /\ status \in [Tasks -> Statuses] /\ target \in [Tasks -> Targets]
      /\ begun \in [Tasks -> Nat]
  BY InTasks DEF HealInv, Kinds, Attempt, Start, IsNext, Succeed, Failing
<1>3. t \in Members(pass)
  <2>1. CASE Start(t)
    BY <2>1 DEF Start, IsNext, Members
  <2>2. CASE Succeed(t) \/ Failing(t)
    <3>1. status[t] = "running"
      BY <2>2 DEF Succeed, Failing
    <3>. QED
      BY <3>1 DEF HealInv, Placed
  <2>. QED
    BY <2>1, <2>2 DEF Attempt
<1>4. PICK x \in {"running", "done", "failed"} :
        status' = [status EXCEPT ![t] = x] /\ record' = [record EXCEPT ![t] = x]
  BY DEF Attempt, Start, Succeed, Failing
<1>5. /\ waited' \in [Tasks -> Nat] /\ \A u \in Tasks : u # t => waited'[u] = waited[u]
      /\ begun' \in [Tasks -> Nat] /\ \A u \in Tasks : u # t => begun'[u] = begun[u]
      /\ streak' \in [Targets -> Nat]
  BY <1>2 DEF CauseInv, CauseTypes, Attempt, Start, Succeed, Failing
<1>6. CauseTypes' /\ RecordsTell'
  <2>1. CauseTypes'
    BY <1>1, <1>4, <1>5 DEF CauseInv, CauseTypes, Statuses, tree
  <2>2. RecordsTell'
    BY <1>2, <1>4, <1>5 DEF CauseInv, CauseTypes, RecordsTell
  <2>. QED
    BY <2>1, <2>2
<1>7. OneByOne'
  BY <1>1 DEF CauseInv, OneByOne
<1>8. ASSUME NEW u \in Tasks PROVE Rests(u)'
  <2>1. Backs(u)' = Backs(u)
    BY <1>1 DEF Backs
  <2>2. CASE u = t
    BY <1>2, <1>4, <2>2 DEF Rests
  <2>3. CASE u # t
    <3>1. Rests(u) /\ status'[u] = status[u] /\ waited'[u] = waited[u]
      BY <1>2, <1>4, <1>5, <2>3 DEF CauseInv
    <3>. QED
      BY <1>1, <2>1, <3>1 DEF Rests
  <2>. QED
    BY <2>2, <2>3
<1>9. Streaks'
  <2>. SUFFICES ASSUME ~Concurrent PROVE Streaks'
    BY <1>1 DEF Streaks
  <2>1. /\ \A u \in Members(pass) : u = t
        /\ \A n \in Targets : fails[n] <= streak[n]
    BY <1>2, <1>3 DEF CauseInv, OneByOne, Streaks
  <2>2. /\ \A n \in Targets : fails[n] \in Nat /\ streak[n] \in Nat
        /\ streak \in [Targets -> Nat]
    BY DEF CauseInv, CauseTypes
  <2>3. status'[t] = x
    BY <1>2, <1>4
  <2>4. CASE Start(t)
    <3>1. streak' = streak /\ x = "running"
      BY <1>2, <1>4, <2>4 DEF Start
    <3>. QED
      BY <1>1, <2>1, <2>3, <3>1 DEF Streaks
  <2>5. CASE Succeed(t)
    <3>1. streak' = [streak EXCEPT ![target[t]] = 0] /\ x = "done"
      BY <1>2, <1>4, <2>5 DEF Succeed
    <3>2. \A n \in Targets : n # target[t] => streak'[n] = streak[n]
      BY <3>1
    <3>. QED
      BY <1>1, <1>3, <2>1, <2>3, <3>1, <3>2 DEF Streaks
  <2>6. CASE Failing(t)
    <3>1. streak' = [streak EXCEPT ![target[t]] = @ + 1] /\ x = "failed"
      BY <1>2, <1>4, <2>6 DEF Failing
    <3>2. /\ \A n \in Targets : streak'[n] = IF n = target[t] THEN streak[n] + 1 ELSE streak[n]
          /\ target[t] \in Targets
      BY <1>2, <2>2, <3>1
    <3>3. \A n \in Targets : fails[n] <= streak'[n]
      BY <2>1, <2>2, <3>2
    <3>4. fails[target[t]] < streak'[target[t]]
      BY <2>1, <2>2, <3>2
    <3>. QED
      BY <1>1, <2>1, <3>3, <3>4 DEF Streaks
  <2>. QED
    BY <2>4, <2>5, <2>6 DEF Attempt
<1>. QED
  BY <1>6, <1>7, <1>8, <1>9 DEF CauseInv

\* Nothing of a pass that is judged waits, and the sequential runner is left
\* with an empty pass.
LEMMA JudgedCause ==
  ASSUME HealInv, CauseInv, AllEnded, pass' = Tail(pass), setup' = setup
  PROVE  /\ Members(pass)' = Members(pass) \ {Head(pass)}
         /\ Members(pass)' \subseteq Members(pass) /\ Members(pass) \subseteq Tasks
         /\ ~Concurrent => Members(pass)' = {} /\ sleep = 0
         /\ Concurrent' = Concurrent
         /\ \A u \in Tasks : status[u] = "pending" => u \in Members(queue)
<1>1. Members(pass)' = Members(Tail(pass)) /\ Members(pass) \subseteq Tasks
  BY InTasks DEF Members, HealInv, Kinds
<1>2. \A u \in Tasks : status[u] = "pending" => u \in Members(queue)
  BY Judged DEF HealInv, Placed, Ended
<1>3. Members(pass)' = Members(pass) \ {Head(pass)} /\ Head(pass) \in Members(pass)
  BY <1>1, Judged
<1>4. ~Concurrent => Members(pass)' = {} /\ sleep = 0
  BY <1>3 DEF CauseInv, OneByOne
<1>. QED
  BY <1>1, <1>2, <1>3, <1>4 DEF Concurrent

\* A success is judged: the count of its target starts anew.
LEMMA JudgeDoneCause == HealInv /\ CauseInv /\ JudgeDone => CauseInv'
<1>. SUFFICES ASSUME HealInv, CauseInv, JudgeDone PROVE CauseInv'
  OBVIOUS
<1>. DEFINE t == Head(pass)
<1>1. /\ AllEnded /\ status[t] = "done" /\ pass' = Tail(pass)
      /\ UNCHANGED <<tree, setup, queue, status, record, target, attempts, begun, streak, waited>>
      /\ fails' = [fails EXCEPT ![target[t]] = 0]
      /\ sleep' = IF Concurrent THEN IF queue' = <<>> THEN 0 ELSE Backoff(1) ELSE 0
  BY DEF JudgeDone, ResetCount, tasks, history, Pause
<1>2. /\ Members(pass)' \subseteq Members(pass) /\ Members(pass) \subseteq Tasks
      /\ Members(pass)' = Members(pass) \ {t}
      /\ ~Concurrent => Members(pass)' = {} /\ sleep = 0
      /\ Concurrent' = Concurrent
      /\ \A u \in Tasks : status[u] = "pending" => u \in Members(queue)
      /\ t \in Tasks /\ t \in Members(pass) /\ \A u \in Members(pass) : status[u] # "pending"
  BY <1>1, JudgedCause, Judged DEF Ended
<1>3. Backoff(1) \in Nat
  BY BackoffBounds
<1>4. CauseTypes' /\ RecordsTell'
  <2>1. sleep' \in Nat /\ fails' \in [Targets -> Nat]
    BY <1>1, <1>3 DEF CauseInv, CauseTypes
  <2>. QED
    BY <1>1, <2>1 DEF CauseInv, CauseTypes, RecordsTell, tree
<1>5. OneByOne'
  BY <1>2 DEF OneByOne
<1>6. ASSUME NEW u \in Tasks PROVE Rests(u)'
  <2>1. Backs(u)' = Backs(u) /\ waited[u] \in Nat /\ Rests(u) /\ attempts[u] \in Nat
    BY <1>1 DEF Backs, Concurrent, CauseInv, CauseTypes, HealInv, Kinds
  <2>2. CASE Concurrent
    <3>1. u \in Members(queue) => queue # <<>>
      BY DEF Members
    <3>2. status[u] = "pending" => sleep' = Backs(u)
      BY <1>1, <1>2, <2>2, <3>1 DEF Backs
    <3>. QED
      BY <1>1, <1>2, <1>3, <2>1, <2>2, <3>2 DEF Rests, Backs
  <2>3. CASE ~Concurrent
    BY <1>1, <1>2, <2>1, <2>3 DEF Rests
  <2>. QED
    BY <2>2, <2>3
<1>7. Streaks'
  <2>. SUFFICES ASSUME ~Concurrent PROVE Streaks'
    BY <1>2 DEF Streaks
  <2>1. /\ \A n \in Targets : fails[n] \in Nat /\ streak[n] \in Nat
        /\ fails \in [Targets -> Nat]
        /\ \A u \in Members(pass) : u = t
        /\ target[t] \in Targets
    BY <1>2 DEF CauseInv, CauseTypes, OneByOne, HealInv, Kinds
  <2>2. \A n \in Targets : fails'[n] = IF n = target[t] THEN 0 ELSE fails[n]
    BY <1>1, <2>1
  <2>3. \A n \in Targets : n # target[t] => fails[n] <= streak[n]
    BY <2>1 DEF CauseInv, Streaks
  <2>4. \A n \in Targets : fails'[n] <= streak'[n]
    BY <1>1, <2>1, <2>2, <2>3
  <2>. QED
    BY <1>2, <2>4 DEF Streaks
<1>. QED
  BY <1>4, <1>5, <1>6, <1>7 DEF CauseInv

\* A failure is counted against its target, and what is retried rests.
LEMMA JudgeFailedCause == HealInv /\ CauseInv /\ JudgeFailed => CauseInv'
<1>. SUFFICES ASSUME HealInv, CauseInv, JudgeFailed PROVE CauseInv'
  OBVIOUS
<1>. DEFINE t == Head(pass)
            retried == attempts[t] + 1 <= MaxRetries
<1>1. /\ AllEnded /\ status[t] = "failed" /\ pass' = Tail(pass)
      /\ UNCHANGED <<setup, target, begun, streak, waited>>
      /\ attempts' = [attempts EXCEPT ![t] = @ + 1]
      /\ fails' = [fails EXCEPT ![target[t]] = @ + 1]
      /\ sleep' = IF Concurrent THEN IF queue' = <<>> THEN 0 ELSE Backoff(1)
                  ELSE IF retried THEN Backoff(attempts'[t]) ELSE 0
  BY DEF JudgeFailed, history, Pause, RetriesLeft
<1>2. /\ Members(pass)' \subseteq Members(pass) /\ Members(pass) \subseteq Tasks
      /\ Members(pass)' = Members(pass) \ {t}
      /\ ~Concurrent => Members(pass)' = {} /\ sleep = 0
      /\ Concurrent' = Concurrent
      /\ \A u \in Tasks : status[u] = "pending" => u \in Members(queue)
      /\ t \in Tasks /\ t \in Members(pass) /\ \A u \in Members(pass) : status[u] # "pending"
  BY <1>1, JudgedCause, Judged DEF Ended
<1>3. IF retried
      THEN /\ status' = [status EXCEPT ![t] = "pending"] /\ record' = record
           /\ queue' = Append(queue, t)
      ELSE /\ status' = [status EXCEPT ![t] = "dead"]
           /\ record' = [record EXCEPT ![t] = "dead"] /\ queue' = queue
  BY DEF JudgeFailed, RetriesLeft, Retry, Bury
<1>4. /\ status \in [Tasks -> Statuses] /\ attempts \in [Tasks -> Nat] /\ queue \in Seq(Tasks)
      /\ target[t] \in Targets /\ begun[t] > 0 /\ attempts'[t] = attempts[t] + 1
      /\ \A u \in Tasks : u # t => attempts'[u] = attempts[u] /\ status'[u] = status[u]
      /\ \A u \in Tasks : attempts'[u] \in Nat
  <2>1. /\ status \in [Tasks -> Statuses] /\ attempts \in [Tasks -> Nat] /\ queue \in Seq(Tasks)
        /\ target[t] \in Targets /\ begun[t] = attempts[t] + 1
    BY <1>1, <1>2 DEF HealInv, Kinds, Counted, Count
  <2>. QED
    BY <1>1, <1>2, <1>3, <2>1
<1>5. Backoff(1) \in Nat /\ Backoff(attempts'[t]) \in Nat
  BY <1>2, <1>4, BackoffBounds
<1>6. approved' \in Nat
  BY DEF JudgeFailed, Break, RespawnNode, Regrow, tree, CauseInv, CauseTypes
<1>7. CauseTypes'
  <2>1. sleep' \in Nat
    BY <1>1, <1>5
  <2>2. fails' \in [Targets -> Nat]
    <3>1. fails \in [Targets -> Nat]
      BY DEF CauseInv, CauseTypes
    <3>2. PICK n \in Targets : fails' = [fails EXCEPT ![n] = @ + 1]
      BY <1>1, <1>4
    <3>. QED
      BY <3>1, <3>2
  <2>3. record' \in [Tasks -> Statuses]
    <3>1. record' = record \/ record' = [record EXCEPT ![t] = "dead"]
      BY <1>3
    <3>. QED
      BY <3>1 DEF CauseInv, CauseTypes, Statuses
  <2>. QED
    BY <1>1, <1>6, <2>1, <2>2, <2>3 DEF CauseInv, CauseTypes
<1>8. RecordsTell'
  <2>. SUFFICES ASSUME NEW u \in Tasks
                PROVE  record'[u] = IF status'[u] = "pending" /\ begun'[u] > 0 THEN "failed"
                                    ELSE status'[u]
    BY DEF RecordsTell
  <2>1. /\ record[u] = IF status[u] = "pending" /\ begun[u] > 0 THEN "failed" ELSE status[u]
        /\ record \in [Tasks -> Statuses]
    BY DEF CauseInv, CauseTypes, RecordsTell
  <2>2. CASE u = t
    BY <1>1, <1>2, <1>3, <1>4, <2>1, <2>2
  <2>3. CASE u # t
    BY <1>1, <1>2, <1>3, <1>4, <2>1, <2>3
  <2>. QED
    BY <2>2, <2>3
<1>9. OneByOne'
  BY <1>2 DEF OneByOne
<1>10. ASSUME NEW u \in Tasks PROVE Rests(u)'
  <2>1. waited[u] \in Nat /\ Rests(u) /\ attempts[u] \in Nat /\ waited'[u] = waited[u]
    BY <1>1, <1>4 DEF CauseInv, CauseTypes
  <2>2. ~(status'[u] = "pending" /\ u \in Members(pass)')
    BY <1>2, <1>4
  <2>3. CASE Concurrent
    <3>1. status'[u] = "pending" => queue' # <<>>
      <4>1. CASE u = t /\ status'[u] = "pending"
        BY <1>2, <1>3, <1>4, <4>1
      <4>2. CASE u # t /\ status'[u] = "pending"
        <5>1. queue # <<>>
          BY <1>2, <1>4, <4>2 DEF Members
        <5>. QED
          BY <1>2, <1>3, <1>4, <5>1
      <4>. QED
        BY <4>1, <4>2
    <3>2. status'[u] = "pending" => sleep' = Backs(u)'
      BY <1>1, <1>2, <2>3, <3>1 DEF Backs, Backoff, Least
    <3>. QED
      BY <1>2, <1>5, <2>1, <2>2, <2>3, <3>2 DEF Rests, Backs
  <2>4. CASE ~Concurrent /\ u = t
    <3>1. Backs(u)' = Backoff(attempts'[t])
      BY <1>2, <2>4 DEF Backs, Backoff, Least
    <3>2. status'[u] = "pending" => sleep' = Backoff(attempts'[t])
      BY <1>1, <1>2, <1>3, <1>4, <2>4
    <3>. QED
      BY <1>5, <2>1, <2>2, <2>4, <3>1, <3>2 DEF Rests
  <2>5. CASE ~Concurrent /\ u # t
    <3>1. Backs(u)' = Backs(u)
      BY <1>2, <1>4, <2>5 DEF Backs, Backoff, Least
    <3>2. status'[u] = "pending" /\ attempts'[u] > 0 => waited[u] + sleep >= Backs(u)
      BY <1>4, <2>1, <2>5 DEF Rests
    <3>3. sleep' \in Nat /\ sleep = 0
      BY <1>2, <1>7, <2>5 DEF CauseTypes
    <3>4. Backs(u) \in Nat \/ ~(attempts[u] > 0)
      BY <2>1, BackoffBounds DEF Backs
    <3>. QED
      BY <1>4, <2>1, <2>2, <2>5, <3>1, <3>2, <3>3, <3>4 DEF Rests
  <2>. QED
    BY <2>3, <2>4, <2>5
<1>11. Streaks'
  <2>. SUFFICES ASSUME ~Concurrent PROVE Streaks'
    BY <1>2 DEF Streaks
  <2>1. /\ \A n \in Targets : fails[n] \in Nat /\ streak[n] \in Nat
        /\ fails \in [Targets -> Nat]
        /\ \A u \in Members(pass) : u = t
    BY <1>2 DEF CauseInv, CauseTypes, OneByOne
  <2>2. \A n \in Targets : fails'[n] = IF n = target[t] THEN fails[n] + 1 ELSE fails[n]
    BY <1>1, <2>1
  <2>3. \A n \in Targets : fails[n] <= streak[n]
    BY <1>1, <2>1 DEF CauseInv, Streaks
  <2>4. fails[target[t]] < streak[target[t]]
    BY <1>1, <1>2 DEF CauseInv, Streaks
  <2>5. \A n \in Targets : fails'[n] <= streak'[n]
    BY <1>1, <1>4, <2>1, <2>2, <2>3, <2>4
  <2>. QED
    BY <1>2, <2>5 DEF Streaks
<1>. QED
  BY <1>7, <1>8, <1>9, <1>10, <1>11 DEF CauseInv

\* A tick is waited by every task, and slept by the runner.
LEMMA TickCause == HealInv /\ CauseInv /\ Tick => CauseInv'
<1>. SUFFICES ASSUME HealInv, CauseInv, Tick PROVE CauseInv'
  OBVIOUS
<1>1. /\ UNCHANGED <<tree, setup, pass, status, record, target, attempts, fails, begun, streak>>
      /\ sleep' = Less(sleep)
      /\ waited' = [t \in Tasks |-> Least(waited[t] + 1, BackoffMax)]
      /\ Members(pass)' = Members(pass) /\ Concurrent' = Concurrent
  BY DEF Tick, tasks, Members, Concurrent
<1>2. /\ \A t \in Tasks : waited[t] \in Nat
      /\ waited \in [Tasks -> Nat] /\ sleep \in Nat /\ BackoffMax \in Nat
  BY PolicyAssumption DEF CauseInv, CauseTypes
<1>3. CauseTypes' /\ RecordsTell'
  <2>1. waited' \in [Tasks -> Nat] /\ sleep' \in Nat
    BY <1>1, <1>2 DEF Least, Less
  <2>. QED
    BY <1>1, <2>1 DEF CauseInv, CauseTypes, RecordsTell, tree
<1>4. OneByOne' /\ Streaks'
  <2>1. sleep = 0 => sleep' = 0
    BY <1>1 DEF Less
  <2>. QED
    BY <1>1, <2>1 DEF CauseInv, OneByOne, Streaks
<1>5. ASSUME NEW t \in Tasks PROVE Rests(t)'
  <2>1. Backs(t)' = Backs(t) /\ Rests(t) /\ attempts[t] \in Nat
    BY <1>1 DEF Backs, CauseInv, HealInv, Kinds
  <2>2. attempts[t] > 0 => Backs(t) \in Nat /\ Backs(t) <= BackoffMax
    BY <2>1, BackoffBounds DEF Backs
  <2>3. waited'[t] = IF waited[t] + 1 < BackoffMax THEN waited[t] + 1 ELSE BackoffMax
    BY <1>1, <1>2 DEF Least
  <2>4. sleep' \in Nat /\ sleep' + 1 >= sleep
    BY <1>1, <1>2 DEF Less
  <2>. QED
    BY <1>1, <1>2, <2>1, <2>2, <2>3, <2>4 DEF Rests
<1>. QED
  BY <1>3, <1>4, <1>5 DEF CauseInv

\* Every step of a healing run keeps the causes of what it does.
LEMMA CauseStep == HealInv /\ CauseInv /\ [Next]_vars => CauseInv'
<1>. SUFFICES ASSUME HealInv, CauseInv, [Next]_vars PROVE CauseInv'
  OBVIOUS
<1>1. CASE Return \/ UNCHANGED vars
  <2>1. UNCHANGED <<tree, setup, pass, status, record, target, attempts, fails, sleep, begun,
                    streak, waited>>
    BY <1>1 DEF Return, vars, tasks, breaker, history
  <2>2. Members(pass)' = Members(pass) /\ Concurrent' = Concurrent
    BY <2>1 DEF Members, Concurrent
  <2>3. \A t \in Tasks : Rests(t)' <=> Rests(t)
    BY <2>1, <2>2 DEF Rests, Backs
  <2>. QED
    BY <2>1, <2>2, <2>3 DEF CauseInv, CauseTypes, RecordsTell, OneByOne, Streaks, tree
<1>. QED
  BY <1>1, NextPassCause, AttemptCause, JudgeDoneCause, JudgeFailedCause, TickCause
  DEF Next, Judge

\* Both invariants hold throughout.
LEMMA CauseAlways == Spec => [](HealInv /\ CauseInv)
  BY HealInit, HealStep, CauseInit, CauseStep, PTL DEF Spec

\* The steps of the three properties.
Breaks == \A n \in Targets : open[n] = 0 /\ open'[n] > 0 /\ ~Concurrent => streak[n] >= Threshold
Cuts ==
  parent' # parent =>
    \E n \in Live :
      /\ open[n] = 0 /\ open'[n] = Cooldown
      /\ Live \ DOMAIN parent' \subseteq Branch(n)
      /\ approved' > approved => n \in DOMAIN parent' /\ parent'[n] = parent[n]
Retries ==
  \A t \in Tasks : status[t] = "pending" /\ status'[t] = "running" /\ attempts[t] > 0
    => waited[t] >= IF Concurrent THEN Backoff(1) ELSE Backoff(attempts[t])

\* Circuits and the tree change when a failure is judged, or circuits with
\* the time.
LEMMA OnlyJudgement ==
  ASSUME HealInv, CauseInv, Next, ~JudgeFailed
  PROVE  UNCHANGED tree /\ (UNCHANGED open \/ open' = [n \in Targets |-> Less(open[n])])
  BY DEF Next, NextPass, Attempt, Start, Succeed, Failing, Judge, JudgeDone, ResetCount, Return,
         Tick, breaker

\* A circuit breaks for failures in a row, and only with it is the tree cut.
LEMMA JudgeFailedHeals ==
  ASSUME HealInv, CauseInv, JudgeFailed
  PROVE  Breaks /\ Cuts
<1>. DEFINE n == target[Head(pass)]
<1>1. /\ n \in Targets /\ Head(pass) \in Members(pass) /\ status[Head(pass)] = "failed"
      /\ fails \in [Targets -> Nat] /\ streak \in [Targets -> Nat] /\ open \in [Targets -> Nat]
      /\ Threshold \in Nat /\ Cooldown \in Nat
  BY Judged, PolicyAssumption DEF JudgeFailed, HealInv, Kinds, CauseInv, CauseTypes
<1>2. CASE Trips(n)
  <2>1. /\ open' = [open EXCEPT ![n] = Cooldown] /\ RespawnNode(n)
        /\ fails[n] + 1 >= Threshold /\ open[n] = 0
    BY <1>2 DEF JudgeFailed, Break, Trips
  <2>2. Breaks
    <3>1. ~Concurrent => fails[n] < streak[n]
      BY <1>1 DEF CauseInv, Streaks
    <3>2. \A m \in Targets : m # n => open'[m] = open[m]
      BY <1>1, <2>1
    <3>3. \A m \in Targets : open[m] \in Nat /\ streak[m] \in Nat /\ fails[m] \in Nat
      BY <1>1
    <3>4. ~Concurrent => streak[n] >= Threshold
      BY <1>1, <2>1, <3>1, <3>3
    <3>. QED
      BY <3>2, <3>3, <3>4 DEF Breaks
  <2>3. Cuts
    <3>. SUFFICES ASSUME parent' # parent PROVE Cuts
      BY DEF Cuts
    <3>1. n \in Live /\ Regrow(n)
      BY <2>1 DEF RespawnNode, tree
    <3>2. open'[n] = Cooldown
      BY <1>1, <2>1
    <3>3. approved \in Nat
      BY DEF CauseInv, CauseTypes
    <3>4. /\ Live \ DOMAIN parent' \subseteq Branch(n)
          /\ approved' > approved => n \in DOMAIN parent' /\ parent'[n] = parent[n]
      BY <3>1, <3>3, SpawnsAssumption DEF Regrow, Live
    <3>. QED
      BY <2>1, <3>1, <3>2, <3>4 DEF Cuts
  <2>. QED
    BY <2>2, <2>3
<1>3. CASE ~Trips(n)
  <2>1. UNCHANGED <<open, tree>>
    BY <1>3 DEF JudgeFailed, Break
  <2>. QED
    BY <1>1, <2>1 DEF Breaks, Cuts, tree
<1>. QED
  BY <1>2, <1>3

\* Healing has its causes: circuits break for failures in a row, the tree is
\* cut where a circuit breaks, retries rest, and records say what became of a
\* task (_run_healing, _respawn).
THEOREM HealsForCauseHolds == Spec => HealsForCause
<1>1. HealInv /\ CauseInv /\ [Next]_vars => [Breaks]_vars /\ [Cuts]_vars /\ [Retries]_vars
  <2>. SUFFICES ASSUME HealInv, CauseInv, Next PROVE Breaks /\ Cuts /\ Retries
    BY DEF Breaks, Cuts, Retries
  <2>1. Breaks /\ Cuts
    <3>1. CASE JudgeFailed
      BY <3>1, JudgeFailedHeals
    <3>2. CASE ~JudgeFailed
      <4>1. \A n \in Targets : open'[n] = open[n] \/ open'[n] = Less(open[n])
        BY <3>2, OnlyJudgement
      <4>2. parent' = parent
        BY <3>2, OnlyJudgement DEF tree
      <4>. QED
        BY <4>1, <4>2 DEF Breaks, Cuts, Less
    <3>. QED
      BY <3>1, <3>2
  <2>2. Retries
    BY StartsInPass DEF Retries, CauseInv, Rests, Backs
  <2>. QED
    BY <2>1, <2>2
<1>2. CauseInv => RecordsTell
  BY DEF CauseInv
<1>3. Spec => BrokenForCause
  BY <1>1, CauseAlways, PTL DEF Spec, BrokenForCause, Breaks
<1>4. Spec => CutForCause
  BY <1>1, CauseAlways, PTL DEF Spec, CutForCause, Cuts
<1>5. Spec => RetriesRest
  BY <1>1, CauseAlways, PTL DEF Spec, RetriesRest, Retries
<1>6. Spec => []RecordsTell
  BY <1>2, CauseAlways, PTL
<1>. QED
  BY <1>3, <1>4, <1>5, <1>6, PTL DEF HealsForCause
===============================================================================
