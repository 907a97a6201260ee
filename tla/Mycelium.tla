------------------------------- MODULE Mycelium -------------------------------
(* The shared memory and the three stores it can sit on: a dictionary        *)
(* ("memory"), a dictionary rewritten to a JSON file on every change         *)
(* ("file"), and a SQLite database that several processes open ("sqlite").   *)
(* One call of a backend is one step; what Mycelium, Stigma and Postbox make *)
(* of several calls is in module Substrate.  Each process has one connection *)
(* to SQLite (module SharedConnection has two threads on one); a call that   *)
(* raises does not roll back, and its transaction stays open.                *)
EXTENDS Naturals

CONSTANTS
  Procs,     \* the processes that have the store open
  Keys,
  NoEntry,   \* no entry under a key
  Never      \* expires_at None

ASSUME MyceliumAssumption == Never \notin Nat

VARIABLES
  backend,   \* the kind of store
  file,      \* what is on disk: the JSON file, or the table of entries
  mem,       \* _store of every process; with SQLite, what its open transaction shows
  txn,       \* the transaction of every process, one of Transactions
  now,       \* the clock behind Mycelium.now
  owed       \* ghost: what disk may hold under a key, given the calls that returned

store == <<backend, file, mem, txn, now, owed>>

Kinds == {"memory", "file", "sqlite"}
\* "begun" by a statement that raised, "reads" once a read has fixed what it
\* shows, "writes" with a change that a later commit will take with it.
Transactions == {"none", "begun", "reads", "writes"}
Empty == [k \in Keys |-> NoEntry]

-------------------------------------------------------------------------------
(* Entries and reads *)

\* json: the value is JSON-serializable.
Entry(value, json, expires) ==
  [value |-> value, json |-> json, at |-> now, expires |-> expires]

IsExpired(e) == e.expires # Never /\ now >= e.expires

\* The entries a process works on.
View(p) == IF backend = "sqlite" /\ txn[p] \in {"none", "begun"} THEN file ELSE mem[p]

\* A call that reads: an open transaction shows from now on what it has seen.
Reads(p) ==
  /\ IF backend = "sqlite" /\ txn[p] = "begun"
     THEN txn' = [txn EXCEPT ![p] = "reads"] /\ mem' = [mem EXCEPT ![p] = file]
     ELSE UNCHANGED <<txn, mem>>
  /\ UNCHANGED <<backend, file, now, owed>>

Holds(p, k) == View(p)[k] # NoEntry

\* Mycelium.read and all: expired entries are there, and are not seen.
Readable(p, k) == Holds(p, k) /\ ~IsExpired(View(p)[k])

Expired(p) == {k \in Keys : Holds(p, k) /\ IsExpired(View(p)[k])}

-------------------------------------------------------------------------------
(* Writes.  raised: the call ends in an exception. *)

\* json.dumps goes through every entry, not only through the new one.
Dumps(entries) == \A k \in Keys : entries[k] # NoEntry => entries[k].json

\* A call that returned promises its entry; one that raised may still show.
Promise(k, e, raised) ==
  owed' = [owed EXCEPT ![k] = IF raised THEN @ \cup {e} ELSE {e}]

DictChange(p, k, e, raised) ==
  /\ backend = "memory"
  /\ ~raised
  /\ mem' = [mem EXCEPT ![p][k] = e]
  /\ UNCHANGED <<file, txn, owed>>

\* Mutant: a flush that fails is not reported.
FileChangeQuiet(p, k, e, raised) ==
  /\ backend = "file"
  /\ ~raised
  /\ mem' = [mem EXCEPT ![p][k] = e]
  /\ file' \in {file} \cup {f \in {mem'[p]} : Dumps(f)}
  /\ Promise(k, e, raised)
  /\ UNCHANGED txn

\* The dictionary changes first; _flush then writes a temporary file and moves
\* it over the old one, or raises and leaves the old one.
FileChange(p, k, e, raised) ==
  /\ backend = "file"
  /\ mem' = [mem EXCEPT ![p][k] = e]
  /\ ~raised => Dumps(mem'[p])
  /\ file' = IF raised THEN file ELSE mem'[p]
  /\ Promise(k, e, raised)
  /\ UNCHANGED txn

\* A statement gets SQLite's write lock unless another process has it, or has
\* committed since the transaction began to read.
MayWrite(p) ==
  /\ \A q \in Procs \ {p} : txn[q] # "writes"
  /\ txn[p] = "reads" => mem[p] = file

\* The encoding or the statement raises, which may leave a transaction that has
\* changed nothing; some errors make SQLite roll back.
StatementRaises(p) ==
  /\ \/ txn' = [txn EXCEPT ![p] = IF @ = "none" THEN "begun" ELSE @] /\ UNCHANGED mem
     \/ txn' = [txn EXCEPT ![p] = "none"] /\ mem' = [mem EXCEPT ![p] = Empty]
  /\ UNCHANGED <<file, owed>>

\* The statement came through and commit() raises.
CommitRaises(p, k, e) ==
  /\ MayWrite(p)
  /\ txn' = [txn EXCEPT ![p] = "writes"]
  /\ mem' = [mem EXCEPT ![p] = [View(p) EXCEPT ![k] = e]]
  /\ Promise(k, e, TRUE)
  /\ UNCHANGED file

\* The commit takes along what earlier calls have left in the transaction.
TableStores(p, k, e) ==
  /\ MayWrite(p)
  /\ file' = [View(p) EXCEPT ![k] = e]
  /\ txn' = [txn EXCEPT ![p] = "none"]
  /\ mem' = [mem EXCEPT ![p] = Empty]
  /\ Promise(k, e, FALSE)

\* One statement and its commit; the value is encoded before either.
TableChange(p, k, e, raised) ==
  /\ backend = "sqlite"
  /\ \/ raised /\ StatementRaises(p)
     \/ /\ e # NoEntry => e.json
        /\ IF raised THEN CommitRaises(p, k, e) ELSE TableStores(p, k, e)

\* What set and delete have in common.
Change(p, k, e, raised) ==
  /\ \/ DictChange(p, k, e, raised)
     \/ FileChange(p, k, e, raised)
     \/ TableChange(p, k, e, raised)
  /\ UNCHANGED <<backend, now>>

\* A dictionary writes nothing for a key it does not have; SQLite commits.
Delete(p, k, raised) ==
  IF backend = "sqlite" \/ Holds(p, k)
  THEN Change(p, k, NoEntry, raised)
  ELSE ~raised /\ UNCHANGED store

\* A process dies and comes back: the file is loaded, a dictionary is gone, an
\* open transaction is rolled back.
Restart(p) ==
  /\ mem' = [mem EXCEPT ![p] = IF backend = "file" THEN file ELSE Empty]
  /\ txn' = [txn EXCEPT ![p] = "none"]
  /\ UNCHANGED <<backend, file, now, owed>>

Open ==
  /\ backend \in Kinds
  /\ file = Empty
  /\ mem = [p \in Procs |-> Empty]
  /\ txn = [p \in Procs |-> "none"]
  /\ now = 0
  /\ owed = [k \in Keys |-> {NoEntry}]

-------------------------------------------------------------------------------
(* Whatever a call that returned has written is what the disk holds, unless  *)
(* a later call raised, which may or may not have come through: no failed    *)
(* flush, restart, stale transaction or write of another key brings an older *)
(* entry back.                                                               *)
AckedSurvives == backend # "memory" => \A k \in Keys : file[k] \in owed[k]
===============================================================================
