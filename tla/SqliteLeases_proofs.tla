-------------------------- MODULE SqliteLeases_proofs --------------------------
(***************************************************************************)
(* Proofs about SqliteLeases, for any number of workers and tasks and any  *)
(* lease length: the inductive invariant, mutual exclusion of beliefs, and *)
(* the refinement of LeaseTable.                                           *)
(***************************************************************************)
EXTENDS SqliteLeases, TLAPS

USE SqliteTTLAssumption, SqliteNoWorkerAssumption, MaxTimeAssumption

(* Typing: every step keeps rows, calls and beliefs in their sets.          *)
LEMMA Typing == Spec => []TypeOK
<1>1. Init => TypeOK
  BY DEF Init, TypeOK, Row, NoRow, Call, Stages
<1>2. TypeOK /\ [Next]_vars => TypeOK'
  <2> SUFFICES ASSUME TypeOK, [Next]_vars PROVE TypeOK'
    OBVIOUS
  <2> USE DEF TypeOK, Row, Call, Stages, Taken, Open
  <2>1. ASSUME NEW w \in Workers, NEW t \in Tasks, CallClaim(w, t) PROVE TypeOK'
    BY <2>1 DEF CallClaim
  <2>2. ASSUME NEW w \in Workers, NEW t \in Tasks, ReleaseRow(w, t) PROVE TypeOK'
    BY <2>2 DEF ReleaseRow, NoRow
  <2>3. ASSUME NEW w \in Workers, Insert(w) PROVE TypeOK'
    BY <2>3 DEF Insert
  <2>4. ASSUME NEW w \in Workers, Update(w) PROVE TypeOK'
    BY <2>4 DEF Update
  <2>5. ASSUME NEW w \in Workers, Commit(w) PROVE TypeOK'
    <3>1. belief' \in [Workers -> [Tasks -> Nat]]
      <4>1. call[w].at + TTL \in Nat /\ call[w].key \in Tasks
        OBVIOUS
      <4>. QED
        BY <4>1, <2>5 DEF Commit
    <3>2. call' \in [Workers -> Call]
      <4>1. call' = [call EXCEPT ![w].stage = "idle"]
        BY <2>5 DEF Commit
      <4>. QED
        BY <4>1
    <3>. QED
      BY <3>1, <3>2, <2>5 DEF Commit
  <2>6. ASSUME NEW w \in Workers, Fail(w) PROVE TypeOK'
    BY <2>6 DEF Fail
  <2>7. ASSUME NEW w \in Workers, Crash(w) PROVE TypeOK'
    BY <2>7 DEF Crash
  <2>8. CASE Tick
    BY <2>8 DEF Tick
  <2>9. CASE UNCHANGED vars
    BY <2>9 DEF vars
  <2>. QED
    BY <2>1, <2>2, <2>3, <2>4, <2>5, <2>6, <2>7, <2>8, <2>9 DEF Next
<1>. QED
  BY <1>1, <1>2, PTL DEF Spec

(* Every step keeps TransactionSound: only the holder of the write lock     *)
(* changes the table, so what it worked on is what is committed.            *)
LEMMA TransactionStep ==
  TypeOK /\ TypeOK' /\ BeliefBacked /\ TransactionSound /\ [Next]_vars => TransactionSound'
<1> SUFFICES ASSUME TypeOK, TypeOK', TransactionSound, [Next]_vars
             PROVE TransactionSound'
  OBVIOUS
<1> USE DEF TypeOK, Row, Call, Stages, Taken, Open, TransactionSound, WorkedRow, Takeable
<1>1. ASSUME NEW w \in Workers, NEW t \in Tasks, CallClaim(w, t)
      PROVE TransactionSound'
  BY <1>1 DEF CallClaim
<1>2. ASSUME NEW w \in Workers, NEW t \in Tasks, ReleaseRow(w, t)
      PROVE TransactionSound'
  BY <1>2 DEF ReleaseRow
<1>3. ASSUME NEW w \in Workers, Insert(w) PROVE TransactionSound'
  <2>. DEFINE k == call[w].key
              row == [owner |-> w, expires |-> call[w].at + TTL]
  <2>1. /\ k \in Tasks /\ call[w].at \in Nat /\ call[w].at <= now /\ row \in Row
        /\ \A v \in Workers : writer # v
    BY <1>3 DEF Insert
  <2>2. \A v \in Workers : v # w => call'[v] = call[v]
    BY <1>3 DEF Insert
  <2>3. /\ writer' = w /\ now' = now /\ table' = table
        /\ call'[w].at = call[w].at /\ call'[w].key = k
        /\ call'[w].stage = IF table[k] = NoRow THEN "inserted" ELSE "ignored"
    BY <1>3 DEF Insert
  <2>4. CASE table[k] = NoRow
    <3>1. work' = [table EXCEPT ![k] = row]
      BY <2>4, <1>3 DEF Insert
    <3>2. work'[k] = row /\ \A t \in Tasks : t # k => work'[t] = table[t]
      BY <3>1, <2>1
    <3>3. Takeable(table[k], w, call[w].at)
      BY <2>4, <2>1 DEF NoRow
    <3>. QED
      BY <2>1, <2>2, <2>3, <2>4, <3>2, <3>3
  <2>5. CASE table[k] # NoRow
    BY <2>1, <2>2, <2>3, <2>5, <1>3 DEF Insert
  <2>. QED
    BY <2>4, <2>5
<1>4. ASSUME NEW w \in Workers, Update(w) PROVE TransactionSound'
  <2>. DEFINE k == call[w].key
              row == [owner |-> w, expires |-> call[w].at + TTL]
  <2>1. /\ k \in Tasks /\ call[w].at \in Nat /\ call[w].at <= now /\ row \in Row
        /\ writer = w /\ \A v \in Workers : v # w => call'[v] = call[v]
    BY <1>4 DEF Update
  <2>2. /\ writer' = w /\ now' = now /\ table' = table
        /\ call'[w].at = call[w].at /\ call'[w].key = k
    BY <1>4, <2>1 DEF Update
  <2>3. CASE Takeable(work[k], w, call[w].at)
    <3>1. work' = [work EXCEPT ![k] = row] /\ call'[w].stage = "won"
      BY <2>3, <1>4 DEF Update
    <3>2. work'[k] = row /\ \A t \in Tasks : t # k => work'[t] = work[t]
      BY <3>1, <2>1
    <3>3. \A t \in Tasks : WorkedRow(w, t)
      BY <2>1
    <3>4. Takeable(table[k], w, call[w].at)
      BY <2>1, <2>3, <3>3
    <3>. QED
      BY <2>1, <2>2, <3>1, <3>2, <3>3, <3>4
  <2>4. CASE ~Takeable(work[k], w, call[w].at)
    <3>1. /\ work' = work
          /\ call'[w].stage = IF call[w].stage = "inserted" THEN "won" ELSE "lost"
      BY <2>4, <1>4 DEF Update
    <3>2. \A t \in Tasks : WorkedRow(w, t)
      BY <2>1
    <3>3. call[w].stage \in {"inserted", "ignored"}
      BY <1>4 DEF Update
    <3>4. call'[w].stage \in Taken => call[w].stage = "inserted"
      BY <3>1, <3>3
    <3>5. call'[w].stage \in Open
      BY <3>1
    <3>6. \A t \in Tasks : WorkedRow(w, t)'
      <4>1. CASE call[w].stage = "inserted"
        BY <4>1, <2>1, <2>2, <3>1, <3>2
      <4>2. CASE call[w].stage = "ignored"
        BY <4>2, <2>1, <2>2, <3>1, <3>2
      <4>. QED
        BY <3>3, <4>1, <4>2
    <3>7. call'[w].stage \in Taken => work'[k] = row
      BY <2>1, <3>1, <3>4
    <3>. QED
      BY <2>1, <2>2, <3>5, <3>6, <3>7
  <2>. QED
    BY <2>3, <2>4
<1>5. ASSUME NEW w \in Workers, Commit(w) PROVE TransactionSound'
  <2>1. writer = w /\ writer' = NoWorker /\ now' = now
    BY <1>5 DEF Commit
  <2>2. call' = [call EXCEPT ![w].stage = "idle"]
    BY <1>5 DEF Commit
  <2>. QED
    BY <2>1, <2>2
<1>6. ASSUME NEW w \in Workers, Fail(w) PROVE TransactionSound'
  BY <1>6 DEF Fail
<1>7. ASSUME NEW w \in Workers, Crash(w) PROVE TransactionSound'
  BY <1>7 DEF Crash
<1>8. CASE Tick
  BY <1>8 DEF Tick
<1>9. CASE UNCHANGED vars
  BY <1>9 DEF vars
<1>. QED
  BY <1>1, <1>2, <1>3, <1>4, <1>5, <1>6, <1>7, <1>8, <1>9 DEF Next

(* Every step keeps BeliefBacked: a commit can only replace a row that was  *)
(* expired at a clock reading already in the past, which nobody counts on.  *)
LEMMA BeliefStep ==
  TypeOK /\ TypeOK' /\ BeliefBacked /\ TransactionSound /\ [Next]_vars => BeliefBacked'
<1> SUFFICES ASSUME TypeOK, TypeOK', BeliefBacked, TransactionSound, [Next]_vars
             PROVE BeliefBacked'
  OBVIOUS
<1> USE DEF TypeOK, BeliefBacked, Believes
<1>1. ASSUME NEW w \in Workers, NEW t \in Tasks, CallClaim(w, t) PROVE BeliefBacked'
  BY <1>1 DEF CallClaim
<1>2. ASSUME NEW w \in Workers, NEW t \in Tasks, ReleaseRow(w, t) PROVE BeliefBacked'
  BY <1>2 DEF ReleaseRow
<1>3. ASSUME NEW w \in Workers, Insert(w) PROVE BeliefBacked'
  BY <1>3 DEF Insert
<1>4. ASSUME NEW w \in Workers, Update(w) PROVE BeliefBacked'
  BY <1>4 DEF Update
<1>5. ASSUME NEW w \in Workers, Commit(w) PROVE BeliefBacked'
  <2> SUFFICES ASSUME NEW v \in Workers, NEW t \in Tasks, belief'[v][t] > now
               PROVE table'[t] = [owner |-> v, expires |-> belief'[v][t]]
    BY <1>5 DEF Commit
  <2>1. /\ writer = w /\ table' = work /\ now' = now
        /\ call[w].at \in Nat /\ call[w].at <= now /\ call[w].key \in Tasks
    BY <1>5 DEF Commit, TransactionSound, Call, Open
  <2>2. CASE call[w].stage = "won" /\ v = w /\ t = call[w].key
    BY <2>1, <2>2, <1>5 DEF Commit, TransactionSound, Taken, Call
  <2>3. CASE ~(call[w].stage = "won" /\ v = w /\ t = call[w].key)
    <3>1. belief'[v][t] = belief[v][t]
      BY <2>3, <2>1, <1>5 DEF Commit
    <3>2. table[t] = [owner |-> v, expires |-> belief[v][t]] /\ belief[v][t] > now
      BY <3>1
    <3>3. WorkedRow(w, t)
      BY <2>1 DEF TransactionSound
    <3>4. CASE work[t] = table[t]
      BY <3>1, <3>2, <3>4, <2>1
    <3>5. CASE work[t] # table[t]
      BY <3>2, <3>3, <3>5, <2>1, <2>3, <1>5 DEF WorkedRow, Takeable, Taken, Commit
    <3>. QED
      BY <3>4, <3>5
  <2>. QED
    BY <2>2, <2>3
<1>6. ASSUME NEW w \in Workers, Fail(w) PROVE BeliefBacked'
  BY <1>6 DEF Fail
<1>7. ASSUME NEW w \in Workers, Crash(w) PROVE BeliefBacked'
  BY <1>7 DEF Crash
<1>8. CASE Tick
  BY <1>8 DEF Tick
<1>9. CASE UNCHANGED vars
  BY <1>9 DEF vars
<1>. QED
  BY <1>1, <1>2, <1>3, <1>4, <1>5, <1>6, <1>7, <1>8, <1>9 DEF Next

(* The inductive invariant: typing, beliefs backed by rows, and             *)
(* transactions that hold what they read.                                   *)
THEOREM InvHolds == Spec => []Inv
<1>1. Init => BeliefBacked /\ TransactionSound
  BY DEF Init, BeliefBacked, TransactionSound, Believes, Open
<1>2. TypeOK /\ TypeOK' /\ BeliefBacked /\ TransactionSound /\ [Next]_vars
        => BeliefBacked' /\ TransactionSound'
  BY TransactionStep, BeliefStep
<1>. QED
  BY <1>1, <1>2, Typing, PTL DEF Spec, Inv

(* Mutual exclusion: at no time do two workers both count on a lease of     *)
(* the same task.                                                           *)
THEOREM ExclusiveBeliefHolds == Spec => []ExclusiveBelief
<1>1. ASSUME Inv PROVE ExclusiveBelief
  <2> SUFFICES ASSUME NEW t \in Tasks, NEW v \in Workers, NEW w \in Workers,
                      Believes(v, t), Believes(w, t)
               PROVE v = w
    BY DEF ExclusiveBelief
  <2>1. table[t].owner = v /\ table[t].owner = w
    <3>1. /\ table[t] = [owner |-> v, expires |-> belief[v][t]]
          /\ table[t] = [owner |-> w, expires |-> belief[w][t]]
      BY <1>1 DEF Inv, BeliefBacked
    <3>. QED
      BY <3>1
  <2>. QED
    BY <2>1
<1>. QED
  BY <1>1, InvHolds, PTL

-------------------------------------------------------------------------------
(* Refinement of LeaseTable *)

(* What the abstract table shows of a row.                                  *)
LEMMA LeasesAt ==
  ASSUME NEW t \in Tasks
  PROVE  /\ Leases[t] = [owner |-> table[t].owner, left |-> Left(table[t])]
         /\ Leases[t].owner = table[t].owner
         /\ Leases[t].left = Left(table[t])
  BY DEF Leases

(* Committing a transaction that took its row is an atomic claim, granted   *)
(* with what the lease has left when it becomes visible.                    *)
LEMMA CommitGrants ==
  ASSUME Inv, NEW w \in Workers, Commit(w), call[w].stage = "won"
  PROVE  \E n \in 0..TTL : LT!Grant(call[w].key, w, n)
<1>. DEFINE k == call[w].key
            row == [owner |-> w, expires |-> call[w].at + TTL]
<1>1. /\ k \in Tasks /\ call[w].at \in Nat /\ call[w].at <= now /\ now \in Nat
      /\ table \in [Tasks -> Row]
  BY DEF Inv, TypeOK, Call, TransactionSound
<1>2. /\ writer = w /\ table' = work /\ now' = now
      /\ work[k] = row
      /\ \A t \in Tasks : WorkedRow(w, t)
  BY DEF Commit, Inv, TransactionSound, Open, Taken
<1>3. Left(row) \in 0..TTL
  BY <1>1 DEF Left
<1>4. LT!Claimable(k, w)
  <2>1. table[k].owner = w \/ table[k].expires <= call[w].at
    BY <1>2, <1>1 DEF WorkedRow, Takeable
  <2>2. table[k].expires <= call[w].at => Left(table[k]) = 0
    BY <1>1 DEF Left, Row
  <2>. QED
    BY <2>1, <2>2, <1>1, LeasesAt DEF LT!Claimable
<1>5. \A t \in Tasks : t # k => table'[t] = table[t]
  BY <1>2 DEF WorkedRow
<1>6. Leases' = [Leases EXCEPT ![k] = [owner |-> w, left |-> Left(row)]]
  <2>1. \A t \in Tasks : Leases'[t] = [owner |-> table'[t].owner, left |-> Left(table[t])']
    BY DEF Leases
  <2>2. \A t \in Tasks : t # k => Leases'[t] = Leases[t]
    <3>1. \A t \in Tasks : t # k => Left(table[t])' = Left(table[t])
      BY <1>5, <1>2 DEF Left
    <3>. QED
      BY <2>1, <1>5, <3>1, LeasesAt
  <2>3. Leases'[k] = [owner |-> w, left |-> Left(row)]
    BY <2>1, <1>1, <1>2 DEF Left
  <2>. QED
    BY <2>2, <2>3, <1>1 DEF Leases
<1>. QED
  BY <1>3, <1>4, <1>6 DEF LT!Grant

(* A transaction that took nothing commits nothing.                         *)
LEMMA CommitLost ==
  ASSUME Inv, NEW w \in Workers, Commit(w), call[w].stage = "lost"
  PROVE  UNCHANGED Leases
<1>1. /\ writer = w /\ table' = work /\ now' = now
      /\ \A t \in Tasks : work[t] = table[t]
  BY DEF Commit, Inv, TransactionSound, Open, Taken, WorkedRow
<1>2. table' = table
  BY <1>1 DEF Inv, TypeOK
<1>. QED
  BY <1>1, <1>2 DEF Leases, Left

(* One unit of time counts every lease down by one.                         *)
LEMMA TickElapses == ASSUME Inv, Tick PROVE LT!Elapse
<1>1. now \in Nat /\ now' = now + 1 /\ table' = table /\ table \in [Tasks -> Row]
  BY DEF Inv, TypeOK, Tick
<1>2. ASSUME NEW t \in Tasks
      PROVE Left(table[t])' = IF Left(table[t]) > 0 THEN Left(table[t]) - 1 ELSE 0
  BY <1>1 DEF Left, Row
<1>3. \A t \in Tasks :
        Leases'[t] = [owner |-> table[t].owner,
                      left |-> IF Leases[t].left > 0 THEN Leases[t].left - 1 ELSE 0]
  BY <1>1, <1>2, LeasesAt DEF Leases
<1>. QED
  BY <1>3, LeasesAt DEF LT!Elapse, Leases

(* A release of the row is a release of the lease.                          *)
LEMMA ReleaseReleases ==
  ASSUME Inv, NEW w \in Workers, NEW t \in Tasks, ReleaseRow(w, t)
  PROVE  LT!Release(t, w)
<1>1. now \in Nat /\ now' = now /\ table \in [Tasks -> Row]
  BY DEF Inv, TypeOK, ReleaseRow
<1>2. CASE table[t].owner = w
  <2>1. table' = [table EXCEPT ![t] = NoRow]
    BY <1>2 DEF ReleaseRow
  <2>2. Leases' = [Leases EXCEPT ![t] = LT!Free]
    <3>1. \A s \in Tasks : s # t => Left(table[s])' = Left(table[s]) /\ table'[s] = table[s]
      BY <2>1, <1>1 DEF Left
    <3>2. Left(table[t])' = 0 /\ table'[t].owner = NoWorker
      BY <2>1, <1>1 DEF Left, NoRow
    <3>3. \A s \in Tasks : Leases'[s] = [owner |-> table'[s].owner, left |-> Left(table[s])']
      BY DEF Leases
    <3>. QED
      BY <3>1, <3>2, <3>3 DEF Leases, LT!Free
  <2>. QED
    BY <2>2, <1>2, LeasesAt DEF LT!Release
<1>3. CASE table[t].owner # w
  <2>1. table' = table
    BY <1>3 DEF ReleaseRow
  <2>2. Leases' = Leases
    BY <2>1, <1>1 DEF Leases, Left
  <2>. QED
    BY <2>2, <1>3, LeasesAt DEF LT!Release
<1>. QED
  BY <1>2, <1>3

(* The backend implements the claimable interface: every step of a process  *)
(* is one atomic claim, release or passage of time, or changes nothing a    *)
(* caller can see.                                                          *)
THEOREM RefinesLeaseTable == Spec => ImplementsLeaseTable
<1>1. Init => LT!LeasesInit
  BY DEF Init, LT!LeasesInit, LT!Free, Leases, Left, NoRow
<1>2. Inv /\ [Next]_vars => [LT!LeaseNext]_Leases
  <2> SUFFICES ASSUME Inv, [Next]_vars PROVE LT!LeaseNext \/ UNCHANGED Leases
    OBVIOUS
  <2>1. ASSUME NEW w \in Workers, NEW t \in Tasks, CallClaim(w, t)
        PROVE UNCHANGED Leases
    BY <2>1 DEF CallClaim, Leases, Left
  <2>2. ASSUME NEW w \in Workers, NEW t \in Tasks, ReleaseRow(w, t)
        PROVE LT!LeaseNext
    BY <2>2, ReleaseReleases DEF LT!LeaseNext
  <2>3. ASSUME NEW w \in Workers, Insert(w) \/ Update(w) \/ Fail(w) \/ Crash(w)
        PROVE UNCHANGED Leases
    BY <2>3 DEF Insert, Update, Fail, Crash, Leases, Left
  <2>4. ASSUME NEW w \in Workers, Commit(w) PROVE LT!LeaseNext \/ UNCHANGED Leases
    <3>1. call[w].key \in Tasks /\ call[w].stage \in {"won", "lost"}
      BY <2>4 DEF Commit, Inv, TypeOK, Call
    <3>2. CASE call[w].stage = "won"
      BY <3>1, <3>2, <2>4, CommitGrants DEF LT!LeaseNext
    <3>3. CASE call[w].stage = "lost"
      BY <3>3, <2>4, CommitLost
    <3>. QED
      BY <3>1, <3>2, <3>3
  <2>5. CASE Tick
    BY <2>5, TickElapses DEF LT!LeaseNext
  <2>6. CASE UNCHANGED vars
    BY <2>6 DEF vars, Leases, Left
  <2>. QED
    BY <2>1, <2>2, <2>3, <2>4, <2>5, <2>6 DEF Next
<1>. QED
  BY <1>1, <1>2, InvHolds, PTL DEF Spec, ImplementsLeaseTable, LT!LeaseSpec
===============================================================================
