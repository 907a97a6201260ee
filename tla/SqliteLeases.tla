----------------------------- MODULE SqliteLeases -----------------------------
(***************************************************************************)
(* SqliteBackend.claim / release, as several processes run them against    *)
(* one database file.                                                      *)
(*                                                                         *)
(* A claim reads the caller's clock first (Mycelium.now in                 *)
(* DistributedWorker._claim), then runs two statements in one transaction: *)
(* INSERT OR IGNORE of a new row, and an UPDATE guarded by                 *)
(* "owner = me OR expires <= my now".  The first statement takes SQLite's  *)
(* write lock, which the process keeps until it commits or rolls back, so  *)
(* time may pass and other callers may read their clocks between any two   *)
(* steps.  A process may crash anywhere; SQLite then discards its          *)
(* transaction.                                                            *)
(*                                                                         *)
(* belief is what the caller concludes from a claim that returned True:    *)
(* "the task is mine until my now + ttl".                                  *)
(***************************************************************************)
EXTENDS Naturals

CONSTANTS Workers, Tasks, NoWorker, TTL,
          MaxTime     \* bound on the clock, for model checking

ASSUME SqliteNoWorkerAssumption == NoWorker \notin Workers
ASSUME SqliteTTLAssumption == TTL \in Nat \ {0}
ASSUME MaxTimeAssumption == MaxTime \in Nat

VARIABLES
  table,    \* committed rows of leases: task -> [owner, expires]
  work,     \* the table as the open write transaction sees it
  writer,   \* the process that holds the write lock, or NoWorker
  call,     \* worker -> its claim() in progress
  belief,   \* worker -> task -> time until which it counts on its lease
  now       \* the clock all processes read

vars == <<table, work, writer, call, belief, now>>

Row == [owner : Workers \cup {NoWorker}, expires : Nat]
NoRow == [owner |-> NoWorker, expires |-> 0]
\* idle; called, with the clock read; after the INSERT (a row added or ignored);
\* after the UPDATE (some row changed by either statement, or none).
Stages == {"idle", "called", "inserted", "ignored", "won", "lost"}
Taken == {"inserted", "won"}
Open == {"inserted", "ignored", "won", "lost"}
Call == [stage : Stages, key : Tasks, at : Nat]

Init ==
  /\ table = [t \in Tasks |-> NoRow]
  /\ work = table
  /\ writer = NoWorker
  /\ call \in [Workers -> [stage : {"idle"}, key : Tasks, at : {0}]]
  /\ belief = [w \in Workers |-> [t \in Tasks |-> 0]]
  /\ now = 0

\* The caller reads its clock and enters claim().
CallClaim(w, t) ==
  /\ call[w].stage = "idle"
  /\ call' = [call EXCEPT ![w] = [stage |-> "called", key |-> t, at |-> now]]
  /\ UNCHANGED <<table, work, writer, belief, now>>

\* INSERT OR IGNORE: takes the write lock and adds a row if the key has none.
Insert(w) ==
  LET k == call[w].key
  IN /\ call[w].stage = "called"
     /\ writer = NoWorker
     /\ writer' = w
     /\ work' = IF table[k] = NoRow
                THEN [table EXCEPT ![k] = [owner |-> w, expires |-> call[w].at + TTL]]
                ELSE table
     /\ call' = [call EXCEPT ![w].stage = IF table[k] = NoRow THEN "inserted" ELSE "ignored"]
     /\ UNCHANGED <<table, belief, now>>

\* Mutant: the guard asks whether the lease ends within a time unit.
TakeableEarly(row, w, at) == row.owner = w \/ row.expires <= at + 1

\* The row may be taken: it is the caller's own, or expired at the caller's now.
Takeable(row, w, at) == row.owner = w \/ row.expires <= at

\* The guarded UPDATE takes a row of the caller's own or an expired one.
Update(w) ==
  LET k == call[w].key
      takes == Takeable(work[k], w, call[w].at)
  IN /\ call[w].stage \in {"inserted", "ignored"}
     /\ work' = IF takes
                THEN [work EXCEPT ![k] = [owner |-> w, expires |-> call[w].at + TTL]]
                ELSE work
     /\ call' = [call EXCEPT ![w].stage = IF takes \/ @ = "inserted" THEN "won" ELSE "lost"]
     /\ UNCHANGED <<table, writer, belief, now>>

\* commit(), and claim() returns whether either statement changed a row.
Commit(w) ==
  /\ call[w].stage \in {"won", "lost"}
  /\ table' = work
  /\ writer' = NoWorker
  /\ belief' = IF call[w].stage = "won"
               THEN [belief EXCEPT ![w][call[w].key] = call[w].at + TTL]
               ELSE belief
  /\ call' = [call EXCEPT ![w].stage = "idle"]
  /\ UNCHANGED <<work, now>>

\* A statement fails (the database stays locked past busy_timeout, a disk
\* error): rollback() and the exception reaches the caller.
Fail(w) ==
  /\ call[w].stage # "idle"
  /\ writer' = IF writer = w THEN NoWorker ELSE writer
  /\ call' = [call EXCEPT ![w].stage = "idle"]
  /\ UNCHANGED <<table, work, belief, now>>

\* Mutant: DELETE without the owner in its WHERE clause.
ReleaseAnyRow(w, t) ==
  /\ call[w].stage = "idle"
  /\ writer = NoWorker
  /\ table' = [table EXCEPT ![t] = NoRow]
  /\ belief' = [belief EXCEPT ![w][t] = 0]
  /\ UNCHANGED <<work, writer, call, now>>

\* release(): one DELETE guarded by the owner, committed at once.
ReleaseRow(w, t) ==
  /\ call[w].stage = "idle"
  /\ writer = NoWorker
  /\ table' = IF table[t].owner = w THEN [table EXCEPT ![t] = NoRow] ELSE table
  /\ belief' = [belief EXCEPT ![w][t] = 0]
  /\ UNCHANGED <<work, writer, call, now>>

\* The process dies: its transaction is discarded, and it counts on nothing.
Crash(w) ==
  /\ writer' = IF writer = w THEN NoWorker ELSE writer
  /\ call' = [call EXCEPT ![w].stage = "idle"]
  /\ belief' = [belief EXCEPT ![w] = [t \in Tasks |-> 0]]
  /\ UNCHANGED <<table, work, now>>

Tick ==
  /\ now < MaxTime
  /\ now' = now + 1
  /\ UNCHANGED <<table, work, writer, call, belief>>

Next ==
  \/ \E w \in Workers :
       \/ \E t \in Tasks : CallClaim(w, t) \/ ReleaseRow(w, t)
       \/ Insert(w) \/ Update(w) \/ Commit(w) \/ Fail(w) \/ Crash(w)
  \/ Tick

Spec == Init /\ [][Next]_vars

-------------------------------------------------------------------------------
(* Properties *)

TypeOK ==
  /\ table \in [Tasks -> Row]
  /\ work \in [Tasks -> Row]
  /\ writer \in Workers \cup {NoWorker}
  /\ call \in [Workers -> Call]
  /\ belief \in [Workers -> [Tasks -> Nat]]
  /\ now \in Nat

Believes(w, t) == belief[w][t] > now

(* Mutual exclusion as the callers see it: two workers never both count on *)
(* a lease of the same task, whatever happens between the clock reading,   *)
(* the two statements and the commit of each of them                       *)
(* (claim.py: "exactly one caller can hold a key's lease at a time").      *)
ExclusiveBelief ==
  \A t \in Tasks : \A v, w \in Workers :
    Believes(v, t) /\ Believes(w, t) => v = w

(* The strengthening that makes it inductive: whoever counts on a lease    *)
(* has the row, with the expiry it counts on; a write transaction works on *)
(* the committed table plus the rows it took, which were takeable; and no  *)
(* caller's clock reading is ahead of the clock.                           *)
BeliefBacked ==
  \A w \in Workers, t \in Tasks :
    Believes(w, t) => table[t] = [owner |-> w, expires |-> belief[w][t]]

\* What process w's open transaction may hold at a key.
WorkedRow(w, t) ==
  \/ work[t] = table[t]
  \/ /\ t = call[w].key
     /\ call[w].stage \in Taken
     /\ work[t] = [owner |-> w, expires |-> call[w].at + TTL]
     /\ Takeable(table[t], w, call[w].at)

TransactionSound ==
  \A w \in Workers :
    /\ call[w].at <= now
    /\ call[w].stage \in Open <=> writer = w
    /\ writer = w =>
         /\ \A t \in Tasks : WorkedRow(w, t)
         /\ call[w].stage \in Taken =>
              work[call[w].key] = [owner |-> w, expires |-> call[w].at + TTL]

Inv == TypeOK /\ BeliefBacked /\ TransactionSound

-------------------------------------------------------------------------------
(* Refinement: a commit is the atomic claim of LeaseTable, whose leases    *)
(* show only the time each row has left.                                   *)

Left(row) == IF row.expires > now THEN row.expires - now ELSE 0

Leases == [t \in Tasks |-> [owner |-> table[t].owner, left |-> Left(table[t])]]

LT == INSTANCE LeaseTable WITH leases <- Leases

(* Every run of the backend is one the claimable interface promises:       *)
(* claims and releases take effect atomically, a live lease of another     *)
(* owner is never taken, and a release touches the caller's lease only.    *)
ImplementsLeaseTable == LT!LeaseSpec
===============================================================================
