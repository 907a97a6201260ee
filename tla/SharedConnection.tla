---------------------------- MODULE SharedConnection ----------------------------
(***************************************************************************)
(* One SqliteBackend in the hands of two threads, a worker and a heartbeat *)
(* (ormica/mycelium/sqlite_backend.py, DistributedWorker._start_heartbeat),*)
(* which may still be that of an earlier task: both use one connection,    *)
(* and with it one transaction, which is begun by the first statement,     *)
(* committed or rolled back by whoever comes first, and holds SQLite's     *)
(* write lock from its first change.  Another process has a connection of  *)
(* its own.                                                                *)
(*                                                                         *)
(* There is one task, with its record and its lease.  A record is the      *)
(* number of its write.  Leases outlast the run; module SqliteLeases has   *)
(* their expiry.                                                           *)
(***************************************************************************)
EXTENDS Naturals

CONSTANTS
  MaxDeeds,   \* bound on the calls of the worker
  MaxBeats    \* bound on the claims of the heartbeat

ASSUME ConnectionAssumption == {MaxDeeds, MaxBeats} \subseteq Nat

Strands == {"worker", "beat"}

VARIABLES
  rows,         \* what is committed: [record, lease], the lease "free", "us" or "them"
  draft,        \* the same as the transaction has it
  transaction,  \* "none", "begun", or "locked" with the write lock
  strand,       \* thread -> [at, doing, took], took once a statement has changed a row
  locker,       \* the other process has the write lock
  holding,      \* who counts on the lease, of "us" and "them"
  deeds, beats, \* calls so far
  may,          \* ghost: what the record may be, given the calls that returned
  undone        \* ghost: what rollbacks of the heartbeat have dropped of the worker's: its
                \* last "record", the "lease" it counts on

connectionVars == <<rows, draft, transaction, strand, locker, holding, deeds, beats, may, undone>>

Claims == {"claim", "sweep"}
Quiet == [at |-> "quiet", doing |-> "nothing", took |-> FALSE]

ConnectionInit ==
  /\ rows = [record |-> 0, lease |-> "free"] /\ draft = rows
  /\ transaction = "none"
  /\ strand = [s \in Strands |-> Quiet]
  /\ locker = FALSE
  /\ holding = {} /\ deeds = 0 /\ beats = 0
  /\ may = {0} /\ undone = {}

Seen == IF transaction = "locked" THEN draft ELSE rows
Moved(s, at, took) == strand' = [strand EXCEPT ![s].at = at, ![s].took = took]

-------------------------------------------------------------------------------
(* The two threads *)

\* Mycelium.write of the record, claim, release.  Who releases counts on
\* nothing any more.
WorkerCalls(doing) ==
  /\ strand["worker"].at = "quiet" /\ deeds < MaxDeeds
  /\ deeds' = deeds + 1
  /\ strand' = [strand EXCEPT !["worker"] = [at |-> "first", doing |-> doing, took |-> FALSE]]
  /\ IF doing = "release"
     THEN holding' = holding \ {"us"} /\ undone' = undone \ {"lease"}
     ELSE UNCHANGED <<holding, undone>>
  /\ UNCHANGED <<rows, draft, transaction, locker, beats, may>>

Beats(doing) ==
  /\ strand["beat"].at = "quiet" /\ beats < MaxBeats
  /\ beats' = beats + 1
  /\ strand' = [strand EXCEPT !["beat"] = [at |-> "first", doing |-> doing, took |-> FALSE]]
  /\ UNCHANGED <<rows, draft, transaction, locker, holding, deeds, may, undone>>

\* A statement that has the write lock, or gets it.
Statement(s, at, change, took) ==
  /\ ~locker
  /\ transaction' = "locked"
  /\ draft' = change
  /\ Moved(s, at, took)
  /\ UNCHANGED <<rows, locker, holding, deeds, beats>>

Runs(s, doing, at) == strand[s].doing = doing /\ strand[s].at = at

WriteRecord(s) ==
  /\ Runs(s, "write", "first")
  /\ Statement(s, "commit", [Seen EXCEPT !.record = deeds], TRUE)
  /\ may' = may \cup {deeds} /\ undone' = undone \ {"record"}

Deletes(s) ==
  /\ Runs(s, "release", "first")
  /\ Statement(s, "commit", [Seen EXCEPT !.lease = IF @ = "us" THEN "free" ELSE @], TRUE)
  /\ UNCHANGED <<may, undone>>

\* The two statements of a claim of another task change neither.
ClaimsAnother(s) ==
  \E at \in {"first", "second"} :
    /\ Runs(s, "sweep", at)
    /\ Statement(s, IF at = "first" THEN "second" ELSE "commit", Seen, FALSE)
    /\ UNCHANGED <<may, undone>>

InsertLease(s) ==
  /\ Runs(s, "claim", "first")
  /\ Statement(s, "second", [Seen EXCEPT !.lease = IF @ = "free" THEN "us" ELSE @],
               Seen.lease = "free")
  /\ UNCHANGED <<may, undone>>

UpdateLease(s) ==
  /\ Runs(s, "claim", "second")
  /\ Statement(s, "commit", Seen, strand[s].took \/ Seen.lease = "us")
  /\ UNCHANGED <<may, undone>>

\* The other process keeps its lock past busy_timeout: the statement raises, in
\* a transaction that has begun.  Only claim catches that.
Busy(s) ==
  /\ strand[s].at \in {"first", "second"}
  /\ locker /\ transaction # "locked"
  /\ transaction' = "begun"
  /\ IF strand[s].doing \in Claims THEN Moved(s, "rollback", FALSE)
                                    ELSE Moved(s, "quiet", FALSE)
  /\ UNCHANGED <<rows, draft, locker, holding, deeds, beats, may, undone>>

\* What a call that returns has brought about.
Returns(s) ==
  /\ strand' = [strand EXCEPT ![s] = Quiet]
  /\ may' = IF strand[s].doing = "write" /\ "record" \notin undone THEN {deeds} ELSE may
  /\ holding' = IF s = "worker" /\ strand[s].doing = "claim" /\ strand[s].took
                THEN holding \cup {"us"} ELSE holding

\* Mutant: set returns without a commit.
CommitsClaims(s) ==
  /\ strand[s].at = "commit"
  /\ Returns(s)
  /\ IF strand[s].doing = "write"
     THEN UNCHANGED <<rows, transaction>>
     ELSE /\ transaction' = "none"
          /\ rows' = IF transaction = "locked" THEN draft ELSE rows
  /\ UNCHANGED <<draft, locker, deeds, beats, undone>>

\* commit() of whatever is in the transaction; nothing, where the other thread
\* has ended it.
Commits(s) ==
  /\ strand[s].at = "commit"
  /\ Returns(s)
  /\ transaction' = "none"
  /\ rows' = IF transaction = "locked" THEN draft ELSE rows
  /\ UNCHANGED <<draft, locker, deeds, beats, undone>>

\* rollback() of the same; what the other thread has changed and not committed
\* goes with it.
RollsBack(s) ==
  /\ strand[s].at = "rollback"
  /\ strand' = [strand EXCEPT ![s] = Quiet]
  /\ transaction' = "none"
  /\ undone' = undone \cup
       {f \in {"record", "lease"} :
          /\ s = "beat" /\ transaction = "locked" /\ draft[f] # rows[f]
          /\ f = "lease" => strand["worker"].doing = "claim"}
  /\ UNCHANGED <<rows, draft, locker, holding, deeds, beats, may>>

-------------------------------------------------------------------------------
(* The other process *)

TheyLock ==
  /\ ~locker /\ transaction # "locked"
  /\ locker' = TRUE
  /\ UNCHANGED <<rows, draft, transaction, strand, holding, deeds, beats, may, undone>>

\* Its claim of the lease is granted if it is free; or it was busy with
\* another key.
TheyCommit(claims) ==
  /\ locker /\ locker' = FALSE
  /\ IF claims /\ rows.lease = "free"
     THEN rows' = [rows EXCEPT !.lease = "them"] /\ holding' = holding \cup {"them"}
     ELSE UNCHANGED <<rows, holding>>
  /\ UNCHANGED <<draft, transaction, strand, deeds, beats, may, undone>>

ConnectionNext ==
  \/ \E doing \in {"write", "claim", "release"} : WorkerCalls(doing)
  \/ \E doing \in Claims : Beats(doing)
  \/ TheyLock \/ \E claims \in BOOLEAN : TheyCommit(claims)
  \/ \E s \in Strands :
       \/ WriteRecord(s) \/ Deletes(s) \/ ClaimsAnother(s) \/ InsertLease(s) \/ UpdateLease(s)
       \/ Busy(s) \/ Commits(s) \/ RollsBack(s)

-------------------------------------------------------------------------------
(* Of two threads on one connection each may end the transaction of the      *)
(* other.  Still, the record on disk is that of the last write that returned, *)
(* or of one that may yet come, and a lease that claim granted is in the     *)
(* table and nobody else's, unless the heartbeat's claim was rolled back     *)
(* between the worker's statement and its commit (SqliteBackend.set, claim). *)
ConnectionTells ==
  /\ rows.record \in may
  /\ "lease" \notin undone => /\ "us" \in holding => rows.lease = "us"
                              /\ holding # {"us", "them"}
================================================================================
