--------------------------- MODULE Substrate_proofs ---------------------------
(***************************************************************************)
(* Proofs about the shared memory, for any processes, keys and values, and *)
(* for each of the three stores; about the letters, the searches and the   *)
(* connection that use it (Memory); and about the votes and the evolution  *)
(* of a forest (Forests), which sort as a search does.                     *)
(***************************************************************************)
EXTENDS Memory, Forests, Integers, SequenceTheorems, FiniteSetTheorems, FunctionTheorems,
        WellFoundedInduction, TLAPS

USE SubstrateAssumption

(* What makes AckedSurvives inductive: the dictionary of a file store, too, *)
(* holds only what is owed, as the next flush puts all of it on disk; and    *)
(* so does an open transaction that writes, of which there is one at most.   *)
StoreInv ==
  /\ backend \in Kinds
  /\ DOMAIN file = Keys /\ DOMAIN owed = Keys
  /\ DOMAIN mem = Procs /\ \A p \in Procs : DOMAIN mem[p] = Keys
  /\ txn \in [Procs -> Transactions]
  /\ AckedSurvives
  /\ backend = "file" => \A k \in Keys : mem[Solo][k] \in owed[k]
  /\ backend = "sqlite" =>
       \A p \in Procs : txn[p] = "writes" =>
         /\ \A k \in Keys : mem[p][k] \in owed[k]
         /\ \A q \in Procs \ {p} : txn[q] # "writes"

\* A store that is not shared has one user.
SoloInv ==
  /\ DOMAIN pc = Procs
  /\ \A p \in Procs : pc[p] # "idle" /\ backend # "sqlite" => p = Solo

AckInv == StoreInv /\ SoloInv /\ topic \in [Procs -> Topics]

\* What a statement builds on that gets the write lock.
LEMMA ViewFacts ==
  ASSUME StoreInv, NEW p \in Procs, backend = "sqlite", MayWrite(p)
  PROVE  /\ DOMAIN View(p) = Keys
         /\ \A k \in Keys : View(p)[k] \in owed[k]
         /\ \/ View(p) = file
            \/ txn[p] = "writes" /\ View(p) = mem[p]
         /\ \A q \in Procs \ {p} : txn[q] # "writes"
<1>1. txn[p] \in Transactions
  BY DEF StoreInv
<1>2. View(p) = file \/ (txn[p] = "writes" /\ View(p) = mem[p])
  BY <1>1 DEF View, MayWrite, Transactions
<1>. QED
  BY <1>2 DEF StoreInv, AckedSurvives, MayWrite

\* The three ways in which a call of SQLite goes: it changes nothing, it leaves
\* its change in a transaction, or it commits.
TableEffect(p, k, e, raised) ==
  /\ backend = "sqlite"
  /\ DOMAIN mem' = Procs /\ txn' \in [Procs -> Transactions]
  /\ \A q \in Procs \ {p} : mem'[q] = mem[q] /\ txn'[q] = txn[q]
  /\ \/ /\ raised /\ UNCHANGED <<file, owed>>
        /\ \/ mem'[p] = mem[p] /\ txn'[p] = txn[p]
           \/ mem'[p] = mem[p] /\ txn[p] = "none" /\ txn'[p] = "begun"
           \/ mem'[p] = Empty /\ txn'[p] = "none"
     \/ /\ raised /\ MayWrite(p) /\ txn'[p] = "writes" /\ file' = file
        /\ mem'[p] = [View(p) EXCEPT ![k] = e]
        /\ owed' = [owed EXCEPT ![k] = @ \cup {e}]
     \/ /\ ~raised /\ MayWrite(p) /\ txn'[p] = "none" /\ mem'[p] = Empty
        /\ file' = [View(p) EXCEPT ![k] = e]
        /\ owed' = [owed EXCEPT ![k] = {e}]

LEMMA TableKinds ==
  ASSUME StoreInv, NEW p \in Procs, NEW k \in Keys, NEW e, NEW raised \in BOOLEAN,
         TableChange(p, k, e, raised)
  PROVE  TableEffect(p, k, e, raised)
<1>. USE DEF TableEffect
<1>1. backend = "sqlite" /\ DOMAIN mem = Procs /\ txn \in [Procs -> Transactions]
  BY DEF StoreInv, TableChange
<1>2. CASE raised /\ StatementRaises(p)
  BY <1>1, <1>2 DEF StatementRaises, Transactions
<1>3. CASE raised /\ CommitRaises(p, k, e)
  BY <1>1, <1>3 DEF CommitRaises, Transactions, Promise
<1>4. CASE ~raised /\ TableStores(p, k, e)
  BY <1>1, <1>4 DEF TableStores, Transactions, Promise
<1>. QED
  BY <1>2, <1>3, <1>4 DEF TableChange

(* One call of a backend, by a process that may use the store.             *)
LEMMA ChangeKeeps ==
  ASSUME StoreInv, NEW p \in Procs, NEW k \in Keys, NEW e, NEW raised \in BOOLEAN,
         backend # "sqlite" => p = Solo, Change(p, k, e, raised)
  PROVE  StoreInv' /\ backend' = backend
<1>3. ASSUME TableChange(p, k, e, raised)
      PROVE  TableEffect(p, k, e, raised)
  BY <1>3, TableKinds
<1>4. ASSUME backend = "sqlite", MayWrite(p)
      PROVE  /\ DOMAIN View(p) = Keys /\ \A l \in Keys : View(p)[l] \in owed[l]
             /\ \A q \in Procs \ {p} : txn[q] # "writes"
  BY <1>4, ViewFacts
<1>. USE DEF StoreInv, AckedSurvives, Kinds
<1>0. backend' = backend
  BY DEF Change
<1>1. CASE DictChange(p, k, e, raised)
  BY <1>0, <1>1 DEF DictChange
<1>2. CASE FileChange(p, k, e, raised)
  <2>1. /\ backend = "file" /\ p = Solo
        /\ mem' = [mem EXCEPT ![p][k] = e] /\ txn' = txn
        /\ file' = IF raised THEN file ELSE mem'[p]
        /\ owed' = [owed EXCEPT ![k] = IF raised THEN @ \cup {e} ELSE {e}]
    BY <1>2 DEF FileChange, Promise
  <2>2. /\ DOMAIN mem' = Procs /\ \A q \in Procs : DOMAIN mem'[q] = Keys
        /\ \A l \in Keys : mem'[p][l] = IF l = k THEN e ELSE mem[p][l]
    BY <2>1
  <2>3. /\ DOMAIN owed' = Keys
        /\ \A l \in Keys \ {k} : owed'[l] = owed[l]
        /\ e \in owed'[k] /\ (raised => owed[k] \subseteq owed'[k])
    BY <2>1
  <2>4. \A l \in Keys : mem'[p][l] \in owed'[l]
    BY <2>1, <2>2, <2>3
  <2>5. DOMAIN file' = Keys /\ \A l \in Keys : file'[l] \in owed'[l]
    <3>1. CASE raised
      BY <2>1, <2>3, <3>1
    <3>2. CASE ~raised
      BY <2>1, <2>2, <2>4, <3>2
    <3>. QED
      BY <3>1, <3>2
  <2>. QED
    BY <1>0, <2>1, <2>2, <2>3, <2>4, <2>5
<1>5. CASE TableChange(p, k, e, raised)
  <2>1. /\ DOMAIN Empty = Keys
        /\ backend = "sqlite" /\ DOMAIN mem' = Procs /\ txn' \in [Procs -> Transactions]
        /\ \A q \in Procs \ {p} : mem'[q] = mem[q] /\ txn'[q] = txn[q]
    BY <1>3, <1>5 DEF Empty, TableEffect
  <2>2. CASE /\ raised /\ UNCHANGED <<file, owed>>
             /\ \/ mem'[p] = mem[p] /\ txn'[p] = txn[p]
                \/ mem'[p] = mem[p] /\ txn[p] = "none" /\ txn'[p] = "begun"
                \/ mem'[p] = Empty /\ txn'[p] = "none"
    BY <1>0, <2>1, <2>2
  <2>3. CASE /\ MayWrite(p) /\ txn'[p] = "writes" /\ file' = file
             /\ mem'[p] = [View(p) EXCEPT ![k] = e]
             /\ owed' = [owed EXCEPT ![k] = @ \cup {e}]
    <3>1. /\ DOMAIN View(p) = Keys /\ \A l \in Keys : View(p)[l] \in owed[l]
          /\ \A q \in Procs \ {p} : txn[q] # "writes"
      BY <2>1, <2>3, <1>4
    <3>2. \A l \in Keys : owed[l] \subseteq owed'[l] /\ mem'[p][l] \in owed'[l]
      BY <2>3, <3>1
    <3>. QED
      BY <1>0, <2>1, <2>3, <3>1, <3>2
  <2>4. CASE /\ MayWrite(p) /\ txn'[p] = "none" /\ mem'[p] = Empty
             /\ file' = [View(p) EXCEPT ![k] = e]
             /\ owed' = [owed EXCEPT ![k] = {e}]
    <3>1. /\ DOMAIN View(p) = Keys /\ \A l \in Keys : View(p)[l] \in owed[l]
          /\ \A q \in Procs \ {p} : txn[q] # "writes"
      BY <2>1, <2>4, <1>4
    <3>2. \A l \in Keys : file'[l] \in owed'[l]
      BY <2>4, <3>1
    <3>. QED
      BY <1>0, <2>1, <2>4, <3>1, <3>2
  <2>. QED
    BY <1>3, <1>5, <2>2, <2>3, <2>4 DEF TableEffect
<1>. QED
  BY <1>1, <1>2, <1>5 DEF Change

(* A read leaves what it was, or opens the eyes of a transaction.            *)
LEMMA ReadsKeeps ==
  ASSUME StoreInv, NEW p \in Procs, Reads(p)
  PROVE  /\ StoreInv' /\ UNCHANGED <<backend, file, now, owed>>
         /\ \A q \in Procs : mem'[q] = mem[q] \/ mem'[q] = file
         /\ \A q \in Procs \ {p} : mem'[q] = mem[q] /\ txn'[q] = txn[q]
         /\ View(p)' = View(p)
         /\ \/ mem' = mem /\ txn' = txn
            \/ backend = "sqlite" /\ txn'[p] = "reads" /\ mem'[p] = file
<1>1. UNCHANGED <<backend, file, now, owed>>
  BY DEF Reads
<1>2. CASE backend = "sqlite" /\ txn[p] = "begun"
  <2>1. txn' = [txn EXCEPT ![p] = "reads"] /\ mem' = [mem EXCEPT ![p] = file]
    BY <1>2 DEF Reads
  <2>2. /\ txn' \in [Procs -> Transactions] /\ DOMAIN mem' = Procs
        /\ txn'[p] = "reads" /\ mem'[p] = file
        /\ \A q \in Procs \ {p} : mem'[q] = mem[q] /\ txn'[q] = txn[q]
    BY <2>1 DEF StoreInv, Transactions
  <2>3. StoreInv'
    BY <1>1, <1>2, <2>2 DEF StoreInv, AckedSurvives
  <2>. QED
    BY <1>1, <1>2, <2>2, <2>3 DEF View
<1>3. CASE ~(backend = "sqlite" /\ txn[p] = "begun")
  <2>1. mem' = mem /\ txn' = txn
    BY <1>3 DEF Reads
  <2>. QED
    BY <1>1, <2>1 DEF StoreInv, AckedSurvives, View
<1>. QED
  BY <1>2, <1>3

LEMMA DeleteKeeps ==
  ASSUME StoreInv, NEW p \in Procs, NEW k \in Keys, NEW raised \in BOOLEAN,
         backend # "sqlite" => p = Solo, Delete(p, k, raised)
  PROVE  StoreInv' /\ backend' = backend
<1>1. CASE Change(p, k, NoEntry, raised)
  BY <1>1, ChangeKeeps
<1>2. CASE UNCHANGED store
  BY <1>2 DEF store, StoreInv, AckedSurvives
<1>. QED
  BY <1>1, <1>2 DEF Delete

LEMMA AckInvInit == Init => AckInv
<1>. SUFFICES ASSUME Init
              PROVE  AckInv
  OBVIOUS
<1>1. StoreInv
  BY DEF Init, Open, Empty, StoreInv, AckedSurvives, Transactions
<1>2. SoloInv
  BY DEF Init, SoloInv
<1>3. topic \in [Procs -> Topics]
  BY DEF Init
<1>. QED
  BY <1>1, <1>2, <1>3 DEF AckInv

(* A step of p that may use the store, and that moves no other process.    *)
LEMMA SoloKept ==
  ASSUME SoloInv, NEW p \in Procs, NEW place, backend # "sqlite" => p = Solo,
         backend' = backend, pc' = pc \/ Goes(p, place)
  PROVE  SoloInv'
BY DEF SoloInv, Goes

LEMMA AckInvNext == AckInv /\ [Next]_vars => AckInv'
<1>. SUFFICES ASSUME AckInv, [Next]_vars
              PROVE  AckInv'
  OBVIOUS
<1>. USE DEF AckInv
<1>1. ASSUME NEW p \in Procs, NEW raised \in BOOLEAN, NEW k \in Notes, NEW v \in Values,
             NEW e \in Expiries, Write(p, k, v, e, raised)
      PROVE  AckInv'
  BY <1>1, ChangeKeeps, SoloKept DEF Write, Starts, local
<1>2. ASSUME NEW p \in Procs, NEW raised \in BOOLEAN, NEW k \in Notes, Forget(p, k, raised)
      PROVE  AckInv'
  BY <1>2, DeleteKeeps, SoloKept DEF Forget, Starts, local
<1>3. ASSUME NEW p \in Procs, NEW raised \in BOOLEAN, NEW t \in Topics, Emit(p, t, raised)
      PROVE  AckInv'
  BY <1>3, ChangeKeeps, SoloKept DEF Emit, Starts, local
<1>4. ASSUME NEW p \in Procs, NEW raised \in BOOLEAN, ReinforceWrite(p, raised)
      PROVE  AckInv'
  <2>1. (backend # "sqlite" => p = Solo) /\ topic[p] \in Keys
    BY <1>4 DEF SoloInv, ReinforceWrite
  <2>. QED
    BY <1>4, <2>1, ChangeKeeps, SoloKept DEF ReinforceWrite
<1>5. ASSUME NEW p \in Procs, NEW raised \in BOOLEAN, NEW k \in Keys, SweepDelete(p, k, raised)
      PROVE  AckInv'
  <2>1. backend # "sqlite" => p = Solo
    BY <1>5 DEF SoloInv, SweepDelete
  <2>. QED
    BY <1>5, <2>1, DeleteKeeps, SoloKept DEF SweepDelete
<1>6. ASSUME NEW p \in Procs, NEW raised \in BOOLEAN, NEW m \in Messages, Send(p, m, raised)
      PROVE  AckInv'
  <2>1. (backend # "sqlite" => p = Solo) /\ m \in Keys /\ pc' = pc
        /\ Change(p, m, Entry(FALSE, TRUE, Never), raised)
    BY <1>6 DEF Send, Starts, local
  <2>2. StoreInv' /\ backend' = backend
    BY <2>1, ChangeKeeps
  <2>3. SoloInv'
    BY <2>1, <2>2 DEF SoloInv
  <2>4. topic' = topic
    BY <1>6 DEF Send, local
  <2>. QED
    BY <2>2, <2>3, <2>4
<1>7. ASSUME NEW p \in Procs, NEW raised \in BOOLEAN, NEW m \in Messages, FetchMark(p, m, raised)
      PROVE  AckInv'
  <2>1. backend # "sqlite" => p = Solo
    BY <1>7 DEF SoloInv, FetchMark
  <2>2. pc' = pc \/ Goes(p, "idle")
    BY <1>7 DEF FetchMark
  <2>3. Change(p, m, Entry(TRUE, TRUE, Never), raised) /\ m \in Keys /\ topic' = topic
    BY <1>7 DEF FetchMark
  <2>4. StoreInv' /\ backend' = backend
    BY <2>1, <2>3, ChangeKeeps
  <2>. QED
    BY <2>1, <2>2, <2>3, <2>4, SoloKept
<1>8. ASSUME NEW p \in Procs, UNCHANGED store \/ Reads(p), topic' \in [Procs -> Topics],
             pc' = pc \/ \E place : Goes(p, place), backend # "sqlite" => p = Solo
      PROVE  AckInv'
  <2>1. StoreInv' /\ backend' = backend
    <3>1. CASE UNCHANGED store
      BY <3>1 DEF StoreInv, AckedSurvives, store
    <3>2. CASE Reads(p)
      BY <3>2, ReadsKeeps
    <3>. QED
      BY <1>8, <3>1, <3>2
  <2>. QED
    BY <1>8, <2>1, SoloKept
<1>9. ASSUME NEW p \in Procs,
             (\E t \in Topics : ReinforceLoad(p, t)) \/ Evaporate(p) \/ PruneExpired(p)
               \/ FetchScan(p) \/ FetchReturn(p)
      PROVE  AckInv'
  <2>1. /\ UNCHANGED store \/ Reads(p)
        /\ topic' \in [Procs -> Topics] /\ \E place : Goes(p, place)
    BY <1>9 DEF ReinforceLoad, Evaporate, PruneExpired, Sweep, FetchScan, FetchReturn
  <2>2. backend # "sqlite" => p = Solo
    BY <1>9 DEF ReinforceLoad, Evaporate, PruneExpired, Sweep, FetchScan, FetchReturn,
                Starts, SoloInv
  <2>. QED
    BY <1>8, <2>1, <2>2
<1>10. ASSUME NEW p \in Procs, Crash(p)
       PROVE  AckInv'
  <2>1. /\ UNCHANGED <<backend, file, owed>> /\ (backend # "sqlite" => p = Solo)
        /\ mem' = [mem EXCEPT ![p] = IF backend = "file" THEN file ELSE Empty]
        /\ txn' = [txn EXCEPT ![p] = "none"] /\ Goes(p, "idle")
    BY <1>10 DEF Crash, Restart
  <2>2. /\ txn' \in [Procs -> Transactions] /\ txn'[p] = "none"
        /\ \A q \in Procs \ {p} : mem'[q] = mem[q] /\ txn'[q] = txn[q]
        /\ DOMAIN mem' = Procs /\ \A q \in Procs : DOMAIN mem'[q] = Keys
        /\ backend = "file" => mem'[p] = file
    BY <2>1 DEF StoreInv, Empty, Transactions
  <2>3. StoreInv'
    BY <2>1, <2>2 DEF StoreInv, AckedSurvives, Kinds
  <2>4. topic' = topic
    BY <1>10 DEF Crash
  <2>. QED
    BY <2>1, <2>3, <2>4, SoloKept
<1>11. ASSUME Tick \/ UNCHANGED vars
       PROVE  AckInv'
  BY <1>11 DEF AckInv, Tick, vars, local, store, StoreInv, AckedSurvives, SoloInv
<1>12. ASSUME NEW p \in Procs, Look(p)
       PROVE  AckInv'
  <2>1. Reads(p) /\ pc' = pc /\ topic' = topic
    BY <1>12 DEF Look, local
  <2>2. StoreInv' /\ backend' = backend
    BY <2>1, ReadsKeeps
  <2>. QED
    BY <2>1, <2>2 DEF SoloInv
<1>. QED
  BY <1>1, <1>2, <1>3, <1>4, <1>5, <1>6, <1>7, <1>9, <1>10, <1>11, <1>12 DEF Next

(* Whatever fails or dies, an entry whose write returned is what the disk  *)
(* holds, until a later call on its key returns or raises.                 *)
THEOREM AckedSurvivesHolds == Spec => []AckedSurvives
<1>1. AckInv => AckedSurvives
  BY DEF AckInv, StoreInv
<1>. QED
  BY <1>1, AckInvInit, AckInvNext, PTL DEF Spec

-------------------------------------------------------------------------------
(* Halves *)

(* Twice a power of two is the next one.                                    *)
LEMMA PowerOfTwo ==
  /\ 2 ^ 0 = 1
  /\ \A n \in Nat : 2 ^ n \in Nat /\ 2 ^ n > 0 /\ 2 ^ (n + 1) = 2 * 2 ^ n
<1>1. 2 ^ 0 = 1
  <2>1. Cardinality(SUBSET {}) = 2 ^ Cardinality({}) /\ Cardinality({}) = 0
    BY FS_SUBSET, FS_EmptySet
  <2>2. SUBSET {} = {{}}
    OBVIOUS
  <2>3. Cardinality({{}}) = 1
    BY FS_Singleton
  <2>. QED
    BY <2>1, <2>2, <2>3
<1>2. ASSUME NEW n \in Nat
      PROVE  2 ^ n \in Nat /\ 2 ^ n > 0 /\ 2 ^ (n + 1) = 2 * 2 ^ n
  <2>. DEFINE S == 1..n
              x == n + 1
              T == 1..x
              P == SUBSET S
              Q == {A \cup {x} : A \in P}
  <2>1. IsFiniteSet(S) /\ Cardinality(S) = n /\ IsFiniteSet(T) /\ Cardinality(T) = n + 1
    <3>1. 1 \in Int /\ n \in Int /\ n + 1 \in Int /\ ~(1 > n + 1) /\ n + 1 - 1 + 1 = n + 1
      OBVIOUS
    <3>2. n = IF 1 > n THEN 0 ELSE n - 1 + 1
      OBVIOUS
    <3>. QED
      BY ONLY FS_Interval, <3>1, <3>2
  <2>2. /\ IsFiniteSet(P) /\ Cardinality(P) = 2 ^ n
        /\ Cardinality(SUBSET T) = 2 ^ (n + 1)
    BY <2>1, FS_SUBSET
  <2>3. x \notin S /\ T = S \cup {x}
    OBVIOUS
  <2>. HIDE DEF S, T, x
  <2>4. SUBSET T = P \cup Q /\ P \cap Q = {}
    <3>1. ASSUME NEW A \in SUBSET T PROVE A \in P \cup Q
      <4>1. CASE x \notin A
        BY <2>3, <3>1, <4>1
      <4>2. CASE x \in A
        <5>1. A \ {x} \in P /\ A = (A \ {x}) \cup {x}
          BY <2>3, <3>1, <4>2
        <5>. QED
          BY <5>1
      <4>. QED
        BY <4>1, <4>2
    <3>2. P \cup Q \subseteq SUBSET T /\ P \cap Q = {}
      BY <2>3
    <3>. QED
      BY <3>1, <3>2
  <2>5. ExistsBijection(P, Q)
    <3>. DEFINE f == [A \in P |-> A \cup {x}]
    <3>1. f \in [P -> Q] /\ \A B \in Q : \E A \in P : f[A] = B
      OBVIOUS
    <3>2. \A A, B \in P : f[A] = f[B] => A = B
      BY <2>3
    <3>. HIDE DEF f, P, Q
    <3>3. f \in Bijection(P, Q)
      BY <3>1, <3>2 DEF Bijection, Injection, Surjection, IsInjective
    <3>. QED
      BY <3>3 DEF ExistsBijection
  <2>6. IsFiniteSet(Q) /\ Cardinality(Q) = 2 ^ n
    BY <2>2, <2>5, FS_Bijection
  <2>. HIDE DEF P, Q
  <2>7. Cardinality(P \cup Q) = Cardinality(P) + Cardinality(Q) - Cardinality(P \cap Q)
    BY <2>2, <2>6, FS_Union
  <2>8. Cardinality(P \cap Q) = 0 /\ Cardinality(P) \in Nat
    BY <2>2, <2>4, FS_EmptySet, FS_CardinalityType
  <2>9. Cardinality(P) # 0
    <3>1. P # {}
      BY DEF P
    <3>. QED
      BY <2>2, <3>1, FS_EmptySet
  <2>10. PICK c \in Nat : c = 2 ^ n
    BY <2>2, <2>8
  <2>11. PICK d : d = 2 ^ (n + 1) /\ d = Cardinality(P \cup Q)
    BY <2>2, <2>4
  <2>12. d = c + c /\ c > 0
    BY <2>2, <2>6, <2>7, <2>8, <2>9, <2>10, <2>11
  <2>. QED
    BY <2>10, <2>11, <2>12
<1>. QED
  BY <1>1, <1>2

(* Half of what is left after n halvings is what is left after one more.    *)
LEMMA DivBound ==
  ASSUME NEW v \in Nat, NEW k \in Nat, k > 0, NEW m \in Nat
  PROVE  v \div k \in Nat /\ (v \div k <= m <=> v < (m + 1) * k)
<1>1. PICK q \in Nat : q = v \div k
  OBVIOUS
<1>2. PICK r \in Nat : v = q * k + r /\ r < k
  BY <1>1
<1>3. CASE q <= m
  <2>1. q * k <= m * k
    BY <1>3
  <2>2. (m + 1) * k = m * k + k
    OBVIOUS
  <2>. QED
    BY <1>1, <1>2, <1>3, <2>1, <2>2
<1>4. CASE q >= m + 1
  <2>1. q * k >= (m + 1) * k
    BY <1>4
  <2>. QED
    BY <1>1, <1>2, <1>4, <2>1
<1>. QED
  BY <1>3, <1>4

LEMMA HalfBound ==
  ASSUME NEW v \in Nat, NEW k \in Nat, k > 0, NEW m \in Nat, v \div k <= m
  PROVE  v \div (2 * k) <= m \div 2
<1>1. v < (m + 1) * k
  BY DivBound
<1>2. PICK h \in Nat : h = m \div 2 /\ m + 1 <= 2 * (h + 1)
  BY m \div 2 \in Nat
<1>3. (m + 1) * k <= (2 * (h + 1)) * k
  BY <1>2
<1>4. (2 * (h + 1)) * k = (h + 1) * (2 * k)
  OBVIOUS
<1>. QED
  BY <1>1, <1>2, <1>3, <1>4, DivBound, 2 * k \in Nat, 2 * k > 0
-------------------------------------------------------------------------------
(* What a call of a backend leaves where *)

\* Nothing lies where a store keeps nothing.
Clean ==
  \A k \in Keys :
    /\ backend = "memory" => file[k] = NoEntry
    /\ \A q \in Procs :
         IF backend = "sqlite" THEN txn[q] \in {"none", "begun"} => mem[q][k] = NoEntry
                               ELSE q # Solo => mem[q][k] = NoEntry

\* An entry that lay somewhere under a key before the step, or none.
Stays(l, x) == x = NoEntry \/ x = file[l] \/ \E q \in Procs : x = mem[q][l]

(* Every entry a call leaves was there before, or is the one of the call.   *)
LEMMA ChangeSpreads ==
  ASSUME StoreInv, Clean, NEW p \in Procs, NEW k \in Keys, NEW e, NEW raised \in BOOLEAN,
         backend # "sqlite" => p = Solo, Change(p, k, e, raised)
  PROVE  /\ Clean' /\ now' = now
         /\ \A q \in Procs \ {p} : mem'[q] = mem[q] /\ txn'[q] = txn[q]
         /\ \A l \in Keys :
              /\ Stays(l, file'[l]) \/ (l = k /\ file'[l] = e)
              /\ \A q \in Procs : Stays(l, mem'[q][l]) \/ (l = k /\ mem'[q][l] = e)
         /\ ~raised => /\ file'[k] \in {e, NoEntry}
                       /\ \A q \in Procs : \/ mem'[q][k] \in {e, NoEntry}
                                           \/ backend = "sqlite" /\ txn'[q] = "reads"
<1>1. /\ backend \in Kinds /\ Solo \in Procs /\ DOMAIN file = Keys
      /\ DOMAIN mem = Procs /\ \A q \in Procs : DOMAIN mem[q] = Keys
      /\ txn \in [Procs -> Transactions] /\ backend' = backend /\ now' = now
  BY DEF StoreInv, Change
<1>2. CASE DictChange(p, k, e, raised)
  <2>1. /\ backend = "memory" /\ p = Solo /\ mem' = [mem EXCEPT ![p][k] = e]
        /\ UNCHANGED <<file, txn>>
    BY <1>2 DEF DictChange
  <2>2. \A l \in Keys, q \in Procs :
          mem'[q][l] = IF q = p /\ l = k THEN e ELSE mem[q][l]
    BY <1>1, <2>1
  <2>. QED
    BY <1>1, <2>1, <2>2 DEF Clean, Stays
<1>3. CASE FileChange(p, k, e, raised)
  <2>1. /\ backend = "file" /\ p = Solo /\ mem' = [mem EXCEPT ![p][k] = e]
        /\ file' = (IF raised THEN file ELSE mem'[p]) /\ txn' = txn
    BY <1>3 DEF FileChange
  <2>2. \A l \in Keys, q \in Procs :
          mem'[q][l] = IF q = p /\ l = k THEN e ELSE mem[q][l]
    BY <1>1, <2>1
  <2>3. \A l \in Keys : file'[l] = IF raised THEN file[l] ELSE mem'[p][l]
    BY <2>1
  <2>. QED
    BY <1>1, <2>1, <2>2, <2>3 DEF Clean, Stays
<1>4. CASE TableChange(p, k, e, raised)
  <2>1. TableEffect(p, k, e, raised)
    BY <1>4, TableKinds
  <2>2. /\ backend = "sqlite"
        /\ \A q \in Procs \ {p} : mem'[q] = mem[q] /\ txn'[q] = txn[q]
        /\ \A l \in Keys : Empty[l] = NoEntry
    BY <2>1 DEF TableEffect, Empty
  <2>3. CASE /\ raised /\ UNCHANGED <<file, owed>>
             /\ \/ mem'[p] = mem[p] /\ txn'[p] = txn[p]
                \/ mem'[p] = mem[p] /\ txn[p] = "none" /\ txn'[p] = "begun"
                \/ mem'[p] = Empty /\ txn'[p] = "none"
    BY <1>1, <2>2, <2>3 DEF Clean, Stays
  <2>4. ASSUME MayWrite(p)
        PROVE  /\ \A l \in Keys : View(p)[l] = file[l] \/ View(p)[l] = mem[p][l]
               /\ DOMAIN View(p) = Keys
               /\ \A q \in Procs \ {p} : txn[q] # "writes"
    BY <2>2, <2>4, ViewFacts
  <2>5. CASE /\ raised /\ MayWrite(p) /\ txn'[p] = "writes" /\ file' = file
             /\ mem'[p] = [View(p) EXCEPT ![k] = e]
    <3>1. \A l \in Keys : mem'[p][l] = IF l = k THEN e ELSE View(p)[l]
      BY <2>4, <2>5
    <3>2. Clean'
      BY <1>1, <2>2, <2>5 DEF Clean
    <3>3. ASSUME NEW l \in Keys
          PROVE  /\ Stays(l, file'[l])
                 /\ \A q \in Procs : Stays(l, mem'[q][l]) \/ (l = k /\ mem'[q][l] = e)
      <4>1. Stays(l, file'[l])
        BY <2>5 DEF Stays
      <4>2. (mem'[p][l] = e /\ l = k) \/ mem'[p][l] = View(p)[l]
        BY <3>1
      <4>3. Stays(l, View(p)[l])
        BY <2>4, <2>5 DEF Stays
      <4>4. \A q \in Procs \ {p} : mem'[q][l] = mem[q][l] /\ Stays(l, mem[q][l])
        BY <2>2 DEF Stays
      <4>. QED
        BY <4>1, <4>2, <4>3, <4>4
    <3>. QED
      BY <1>1, <2>2, <2>5, <3>2, <3>3
  <2>6. CASE /\ ~raised /\ MayWrite(p) /\ txn'[p] = "none" /\ mem'[p] = Empty
             /\ file' = [View(p) EXCEPT ![k] = e]
    <3>1. \A l \in Keys : file'[l] = IF l = k THEN e ELSE View(p)[l]
      BY <2>4, <2>6
    <3>2. \A q \in Procs \ {p} : txn[q] = "reads" \/ mem[q][k] = NoEntry
      BY <1>1, <2>2, <2>4, <2>6 DEF Clean, Transactions
    <3>. QED
      BY <1>1, <2>2, <2>4, <2>6, <3>1, <3>2 DEF Clean, Stays
  <2>. QED
    BY <2>1, <2>3, <2>5, <2>6 DEF TableEffect
<1>. QED
  BY <1>2, <1>3, <1>4 DEF Change

(* What a read leaves where.                                                *)
LEMMA ReadsSpreads ==
  ASSUME StoreInv, Clean, NEW p \in Procs, Reads(p)
  PROVE  /\ Clean' /\ UNCHANGED <<backend, file, now>>
         /\ \A l \in Keys, q \in Procs : Stays(l, mem'[q][l])
<1>1. UNCHANGED <<backend, file, now>>
  BY DEF Reads
<1>2. CASE backend = "sqlite" /\ txn[p] = "begun"
  <2>1. /\ \A q \in Procs \ {p} : mem'[q] = mem[q] /\ txn'[q] = txn[q]
        /\ mem'[p] = file /\ txn'[p] = "reads"
    BY <1>2, ReadsKeeps DEF Reads, StoreInv
  <2>. QED
    BY <1>1, <1>2, <2>1 DEF Clean, Stays
<1>3. CASE ~(backend = "sqlite" /\ txn[p] = "begun")
  BY <1>1, <1>3 DEF Reads, Clean, Stays
<1>. QED
  BY <1>2, <1>3

-------------------------------------------------------------------------------
(* Trails *)

\* A trail that is kept somewhere is no stronger than what was laid on it.
Faint(e, t) ==
  e # NoEntry =>
    /\ e.value \in Nat /\ e.at \in Nat /\ e.at <= now
    /\ StrengthAt(e) <= laid[t]

TrailTypes ==
  /\ now \in Nat /\ laid \in [Topics -> Nat]
  /\ base \in [Procs -> Nat] /\ faded \in [Procs -> Nat]
  /\ \A p \in Procs : faded[p] <= base[p]

KeptFaint == \A t \in Topics : Faint(file[t], t) /\ \A q \in Procs : Faint(mem[q][t], t)

TrailInv ==
  /\ TrailTypes /\ KeptFaint
  /\ \A p \in Procs : pc[p] = "reinforce" => faded[p] <= laid[topic[p]]

(* What a process senses, it may build on.                                  *)
LEMMA SensedFaint ==
  ASSUME AckInv, TrailInv, NEW p \in Procs, NEW t \in Topics
  PROVE  Sensed(p, t) \in Nat /\ Sensed(p, t) <= laid[t]
<1>1. laid[t] \in Nat
  BY DEF TrailInv, TrailTypes
<1>2. CASE ~Readable(p, t)
  BY <1>1, <1>2 DEF Sensed
<1>3. CASE Readable(p, t)
  <2>1. View(p)[t] # NoEntry /\ Faint(View(p)[t], t)
    BY <1>3 DEF Readable, Holds, View, TrailInv, KeptFaint
  <2>2. /\ View(p)[t].value \in Nat /\ now - View(p)[t].at \in Nat
        /\ StrengthAt(View(p)[t]) <= laid[t]
    BY <2>1 DEF Faint, TrailInv, TrailTypes
  <2>3. PICK n \in Nat, k \in Nat : n = now - View(p)[t].at /\ k = 2 ^ n /\ k > 0
    BY <2>2, PowerOfTwo
  <2>4. View(p)[t].value \div k \in Nat
    BY <2>2, <2>3, DivBound, <1>1
  <2>. QED
    BY <1>3, <2>2, <2>3, <2>4 DEF Sensed, StrengthAt
<1>. QED
  BY <1>2, <1>3

(* While no time passes, a trail stays as faint as it was.                  *)
LEMMA FaintStays ==
  ASSUME NEW e, NEW t \in Topics, Faint(e, t), TrailTypes, now' = now,
         laid'[t] \in Nat, laid[t] <= laid'[t]
  PROVE  Faint(e, t)'
<1>1. CASE e = NoEntry
  BY <1>1 DEF Faint
<1>2. CASE e # NoEntry
  <2>1. /\ e.value \in Nat /\ e.at \in Nat /\ e.at <= now
        /\ StrengthAt(e) <= laid[t] /\ laid[t] \in Nat
    BY <1>2 DEF Faint, TrailTypes
  <2>2. StrengthAt(e)' = StrengthAt(e)
    BY DEF StrengthAt
  <2>3. PICK n \in Nat, k \in Nat : n = now - e.at /\ k = 2 ^ n /\ k > 0
    BY <2>1, PowerOfTwo DEF TrailTypes
  <2>4. StrengthAt(e) \in Nat
    BY <2>1, <2>3, DivBound DEF StrengthAt
  <2>. QED
    BY <2>1, <2>2, <2>4 DEF Faint
<1>. QED
  BY <1>1, <1>2

(* A fresh trail is as strong as it was laid.                               *)
LEMMA FaintFresh ==
  ASSUME NEW s \in Nat, NEW t \in Topics, NEW e, e.value = s, e.at = now,
         TrailTypes, now' = now, s <= laid'[t]
  PROVE  Faint(e, t)'
<1>1. now \in Nat /\ now - now = 0 /\ e.at <= now
  BY DEF TrailTypes
<1>2. s \div 1 = s
  OBVIOUS
<1>3. StrengthAt(e)' = s
  BY <1>1, <1>2, PowerOfTwo DEF StrengthAt
<1>. QED
  BY <1>1, <1>3 DEF Faint, TrailTypes

(* A half-life passes: what was faint enough is half as strong.             *)
LEMMA FaintHalves ==
  ASSUME NEW e, NEW t \in Topics, Faint(e, t), TrailTypes, now' = now + 1,
         laid'[t] = laid[t] \div 2
  PROVE  Faint(e, t)'
<1>1. CASE e = NoEntry
  BY <1>1 DEF Faint
<1>2. CASE e # NoEntry
  <2>1. /\ e.value \in Nat /\ e.at \in Nat /\ e.at <= now /\ now \in Nat
        /\ StrengthAt(e) <= laid[t] /\ laid[t] \in Nat
    BY <1>2 DEF Faint, TrailTypes
  <2>2. PICK n \in Nat, k \in Nat :
          n = now - e.at /\ k = 2 ^ n /\ k > 0 /\ 2 ^ (n + 1) = 2 * k
    BY <2>1, PowerOfTwo
  <2>3. now' - e.at = n + 1
    BY <2>1, <2>2
  <2>4. StrengthAt(e) = e.value \div k /\ StrengthAt(e)' = e.value \div (2 * k)
    BY <2>2, <2>3 DEF StrengthAt
  <2>5. e.value \div (2 * k) <= laid[t] \div 2
    BY <2>1, <2>2, <2>4, HalfBound
  <2>. QED
    BY <2>1, <2>4, <2>5 DEF Faint
<1>. QED
  BY <1>1, <1>2

(* A call of a backend that brings no trail, or one that is faint enough.   *)
LEMMA ChangeFaint ==
  ASSUME AckInv, Clean, TrailInv, NEW p \in Procs, NEW k \in Keys, NEW e, NEW raised \in BOOLEAN,
         backend # "sqlite" => p = Solo, Change(p, k, e, raised),
         laid' \in [Topics -> Nat], \A t \in Topics : laid[t] <= laid'[t],
         k \in Topics => Faint(e, k)'
  PROVE  KeptFaint' /\ now' = now
<1>1. /\ now' = now
      /\ \A l \in Keys :
           /\ Stays(l, file'[l]) \/ (l = k /\ file'[l] = e)
           /\ \A q \in Procs : Stays(l, mem'[q][l]) \/ (l = k /\ mem'[q][l] = e)
  BY ChangeSpreads DEF AckInv
<1>2. ASSUME NEW t \in Topics, NEW f, Stays(t, f) \/ (t = k /\ f = e) PROVE Faint(f, t)'
  <2>1. CASE t = k /\ f = e
    BY <2>1
  <2>2. CASE Stays(t, f)
    <3>1. Faint(f, t)
      BY <2>2 DEF Stays, TrailInv, KeptFaint, Faint
    <3>. QED
      BY <1>1, <3>1, FaintStays DEF TrailInv
  <2>. QED
    BY <1>2, <2>1, <2>2
<1>3. ASSUME NEW t \in Topics, NEW q \in Procs PROVE Faint(mem[q][t], t)'
  <2>1. PICK f : f = mem'[q][t]
    OBVIOUS
  <2>. QED
    BY <1>1, <1>2, <2>1
<1>4. ASSUME NEW t \in Topics PROVE Faint(file[t], t)'
  <2>1. PICK f : f = file'[t]
    OBVIOUS
  <2>. QED
    BY <1>1, <1>2, <2>1
<1>. QED
  BY <1>1, <1>3, <1>4 DEF KeptFaint

(* The same for a read.                                                     *)
LEMMA ReadsFaint ==
  ASSUME AckInv, Clean, TrailInv, NEW p \in Procs, Reads(p), laid' = laid
  PROVE  KeptFaint' /\ Clean' /\ now' = now
<1>1. /\ Clean' /\ UNCHANGED <<backend, file, now>>
      /\ \A l \in Keys, q \in Procs : Stays(l, mem'[q][l])
  BY ReadsSpreads DEF AckInv
<1>2. ASSUME NEW t \in Topics, NEW f, Stays(t, f) PROVE Faint(f, t)'
  <2>1. Faint(f, t)
    BY <1>2 DEF Stays, TrailInv, KeptFaint, Faint
  <2>. QED
    BY <1>1, <2>1 DEF Faint, StrengthAt
<1>3. ASSUME NEW t \in Topics, NEW q \in Procs PROVE Faint(file[t], t)' /\ Faint(mem[q][t], t)'
  <2>1. PICK f, g : f = file'[t] /\ g = mem'[q][t]
    OBVIOUS
  <2>2. Stays(t, f) /\ Stays(t, g)
    BY <1>1, <2>1 DEF Stays
  <2>. QED
    BY <1>2, <2>1, <2>2
<1>. QED
  BY <1>1, <1>3, SubstrateAssumption DEF KeptFaint

(* The same for a delete.                                                   *)
LEMMA DeleteFaint ==
  ASSUME AckInv, Clean, TrailInv, NEW p \in Procs, NEW k \in Keys, NEW raised \in BOOLEAN,
         backend # "sqlite" => p = Solo, Delete(p, k, raised), laid' = laid
  PROVE  KeptFaint' /\ now' = now
<1>1. CASE Change(p, k, NoEntry, raised)
  <2>1. laid' \in [Topics -> Nat] /\ \A t \in Topics : laid[t] <= laid'[t]
    BY DEF TrailInv, TrailTypes
  <2>2. k \in Topics => Faint(NoEntry, k)'
    BY DEF Faint
  <2>. QED
    BY <1>1, <2>1, <2>2, ChangeFaint
<1>2. CASE UNCHANGED store
  BY <1>2 DEF store, TrailInv, KeptFaint, Faint, StrengthAt
<1>. QED
  BY <1>1, <1>2 DEF Delete

(* A step that starts no reinforce.                                         *)
LEMMA NoReinforce ==
  ASSUME TrailInv, topic \in [Procs -> Topics], KeptFaint', now' = now, laid' \in [Topics -> Nat],
         \A t \in Topics : laid[t] <= laid'[t],
         base' \in [Procs -> Nat], faded' \in [Procs -> Nat],
         \A q \in Procs : faded'[q] <= base'[q],
         \A q \in Procs : pc'[q] = "reinforce" =>
           pc[q] = "reinforce" /\ faded'[q] = faded[q] /\ topic'[q] = topic[q]
  PROVE  TrailInv'
<1>1. ASSUME NEW q \in Procs, pc'[q] = "reinforce" PROVE faded'[q] <= laid'[topic'[q]]
  <2>1. /\ topic[q] \in Topics /\ topic'[q] = topic[q] /\ faded'[q] = faded[q]
        /\ faded[q] <= laid[topic[q]] /\ laid[topic[q]] <= laid'[topic[q]]
    BY <1>1 DEF TrailInv
  <2>2. faded[q] \in Nat /\ laid[topic[q]] \in Nat /\ laid'[topic[q]] \in Nat
    BY <2>1 DEF TrailInv, TrailTypes
  <2>. QED
    BY <2>1, <2>2
<1>. QED
  BY <1>1 DEF TrailInv, TrailTypes

(* What is laid adds to a trail.                                            *)
LEMMA LayAdds ==
  ASSUME TrailInv, NEW t \in Topics, NEW n \in Nat, Lay(t, n)
  PROVE  /\ laid' \in [Topics -> Nat] /\ laid'[t] = laid[t] + n
         /\ \A u \in Topics : laid[u] <= laid'[u] /\ laid[u] \in Nat
<1>1. laid \in [Topics -> Nat]
  BY DEF TrailInv, TrailTypes
<1>2. \A u \in Topics : laid'[u] = IF u = t THEN laid[u] + n ELSE laid[u]
  BY <1>1 DEF Lay
<1>. QED
  BY <1>1, <1>2 DEF Lay

(* An empty store holds no trail.                                           *)
LEMMA TrailInit == Init => TrailInv /\ Clean
<1>. SUFFICES ASSUME Init PROVE TrailInv /\ Clean
  OBVIOUS
<1>1. /\ \A k \in Keys : file[k] = NoEntry /\ \A q \in Procs : mem[q][k] = NoEntry
  BY DEF Init, Open, Empty
<1>2. TrailTypes
  BY DEF Init, Open, TrailTypes
<1>. QED
  BY <1>1, <1>2 DEF Init, TrailInv, KeptFaint, Faint, Clean

(* Every step keeps trails faint, and stores clean.                         *)
LEMMA TrailNext == AckInv /\ Clean /\ TrailInv /\ [Next]_vars => TrailInv' /\ Clean'
<1>. SUFFICES ASSUME AckInv, Clean, TrailInv, [Next]_vars PROVE TrailInv' /\ Clean'
  OBVIOUS
<1>0. /\ \A p \in Procs, q \in Procs : \A place : Goes(p, place) => pc'[q] = pc[q] \/ pc'[q] = place
      /\ topic \in [Procs -> Topics] /\ StoreInv
      /\ base \in [Procs -> Nat] /\ faded \in [Procs -> Nat] /\ \A q \in Procs : faded[q] <= base[q]
      /\ \A p \in Procs : pc[p] # "idle" /\ backend # "sqlite" => p = Solo
      /\ laid \in [Topics -> Nat] /\ \A t \in Topics : laid[t] \in Nat /\ laid[t] <= laid[t]
      /\ {Floor, Amount} \subseteq Nat
  BY DEF Goes, AckInv, SoloInv, TrailInv, TrailTypes
<1>1. ASSUME NEW p \in Procs, NEW raised \in BOOLEAN, NEW k \in Notes, NEW v \in Values,
             NEW e \in Expiries, Write(p, k, v, e, raised)
      PROVE  TrailInv' /\ Clean'
  <2>1. /\ (backend # "sqlite" => p = Solo) /\ k \in Keys /\ k \notin Topics
        /\ Change(p, k, Entry(v, v \in Encodable, e), raised)
        /\ UNCHANGED <<pc, base, faded, topic, laid>>
    BY <1>1 DEF Write, Starts, local, ghosts
  <2>2. KeptFaint' /\ now' = now /\ Clean'
    <3>1. now' = now /\ Clean'
      BY <1>0, <2>1, ChangeSpreads
    <3>2. laid' \in [Topics -> Nat] /\ \A t \in Topics : laid[t] <= laid'[t]
      BY <1>0, <2>1
    <3>3. KeptFaint'
      BY <2>1, <3>2, ChangeFaint
    <3>. QED
      BY <3>1, <3>3
  <2>. QED
    BY <1>0, <2>1, <2>2, NoReinforce
<1>2. ASSUME NEW p \in Procs, NEW raised \in BOOLEAN, NEW k \in Keys, Delete(p, k, raised),
             backend # "sqlite" => p = Solo, UNCHANGED <<base, faded, topic, laid>>,
             pc' = pc \/ Goes(p, "idle") \/ Goes(p, "sweep")
      PROVE  TrailInv' /\ Clean'
  <2>1. KeptFaint' /\ now' = now
    BY <1>2, DeleteFaint
  <2>2. Clean'
    BY <1>0, <1>2, ChangeSpreads DEF Delete, store, Clean
  <2>3. \A q \in Procs : pc'[q] = "reinforce" => pc[q] = "reinforce"
    BY <1>0, <1>2
  <2>. QED
    BY <1>0, <1>2, <2>1, <2>2, <2>3, NoReinforce
<1>3. ASSUME NEW p \in Procs, NEW raised \in BOOLEAN, NEW t \in Topics, Emit(p, t, raised)
      PROVE  TrailInv' /\ Clean'
  <2>1. PICK e :
        /\ (backend # "sqlite" => p = Solo) /\ t \in Keys
        /\ e.value = Amount /\ e.at = now /\ Change(p, t, e, raised)
        /\ Lay(t, Amount) /\ UNCHANGED <<pc, base, faded, topic>>
    BY <1>3 DEF Emit, Starts, local, Entry
  <2>2. now' = now /\ Clean'
    BY <1>0, <2>1, ChangeSpreads
  <2>3. Faint(e, t)'
    BY <1>0, <2>1, <2>2, LayAdds, FaintFresh DEF TrailInv
  <2>4. KeptFaint'
    BY <2>1, <2>3, LayAdds, ChangeFaint
  <2>. QED
    BY <1>0, <2>1, <2>2, <2>4, LayAdds, NoReinforce
<1>4. ASSUME NEW p \in Procs, NEW raised \in BOOLEAN, ReinforceWrite(p, raised)
      PROVE  TrailInv' /\ Clean'
  <2>. DEFINE t == topic[p]
  <2>1. PICK e :
        /\ (backend # "sqlite" => p = Solo) /\ t \in Keys /\ t \in Topics
        /\ e.value = base[p] + Amount /\ e.at = now /\ Change(p, t, e, raised)
        /\ Lay(t, Amount + (base[p] - faded[p])) /\ UNCHANGED topic /\ pc[p] = "reinforce"
        /\ base' = [base EXCEPT ![p] = 0] /\ faded' = [faded EXCEPT ![p] = 0]
        /\ pc' = [pc EXCEPT ![p] = "idle"]
    BY <1>0, <1>4 DEF ReinforceWrite, Goes, Entry
  <2>2. now' = now /\ Clean'
    BY <1>0, <2>1, ChangeSpreads
  <2>3. /\ base[p] + Amount \in Nat /\ base[p] + Amount <= laid'[t]
        /\ laid' \in [Topics -> Nat] /\ \A u \in Topics : laid[u] <= laid'[u]
    <3>1. PICK n : n = Amount + (base[p] - faded[p])
      OBVIOUS
    <3>2. /\ n \in Nat /\ faded[p] <= laid[t] /\ faded[p] \in Nat /\ base[p] \in Nat
          /\ Amount \in Nat /\ laid[t] \in Nat
      BY <1>0, <2>1, <3>1 DEF TrailInv
    <3>3. Lay(t, n)
      BY <2>1, <3>1
    <3>4. laid' \in [Topics -> Nat] /\ laid'[t] = laid[t] + n /\ \A u \in Topics : laid[u] <= laid'[u]
      BY <2>1, <3>2, <3>3, LayAdds
    <3>. QED
      BY <3>1, <3>2, <3>4
  <2>4. Faint(e, t)'
    BY <2>1, <2>2, <2>3, FaintFresh DEF TrailInv
  <2>5. KeptFaint'
    BY <2>1, <2>3, <2>4, ChangeFaint
  <2>6. /\ \A q \in Procs : pc'[q] = "reinforce" => pc[q] = "reinforce" /\ q # p
        /\ \A q \in Procs : q # p => base'[q] = base[q] /\ faded'[q] = faded[q]
        /\ base' \in [Procs -> Nat] /\ faded' \in [Procs -> Nat] /\ base'[p] = 0 /\ faded'[p] = 0
    BY <1>0, <2>1 DEF AckInv, SoloInv
  <2>. QED
    BY <1>0, <2>1, <2>2, <2>3, <2>5, <2>6, NoReinforce
<1>5. ASSUME NEW p \in Procs, NEW raised \in BOOLEAN, NEW m \in Messages, NEW e,
             backend # "sqlite" => p = Solo, Change(p, m, e, raised),
             UNCHANGED <<base, faded, topic, laid>>, pc' = pc \/ Goes(p, "idle")
      PROVE  TrailInv' /\ Clean'
  <2>1. m \in Keys /\ m \notin Topics
    OBVIOUS
  <2>2. KeptFaint' /\ now' = now /\ Clean'
    BY <1>0, <1>5, <2>1, ChangeFaint, ChangeSpreads
  <2>3. \A q \in Procs : pc'[q] = "reinforce" => pc[q] = "reinforce"
    BY <1>0, <1>5
  <2>. QED
    BY <1>0, <1>5, <2>2, <2>3, NoReinforce
<1>6. ASSUME NEW p \in Procs, NEW t \in Topics, ReinforceLoad(p, t)
      PROVE  TrailInv' /\ Clean'
  <2>1. /\ Reads(p) /\ laid' = laid
        /\ base' = [base EXCEPT ![p] = Sensed(p, t)] /\ topic' = [topic EXCEPT ![p] = t]
        /\ faded' = [faded EXCEPT ![p] = Sensed(p, t)] /\ Goes(p, "reinforce")
    BY <1>6 DEF ReinforceLoad
  <2>2. Sensed(p, t) \in Nat /\ Sensed(p, t) <= laid[t]
    BY SensedFaint
  <2>3. KeptFaint' /\ Clean' /\ now' = now
    BY <2>1, ReadsFaint
  <2>4. ASSUME NEW q \in Procs, pc'[q] = "reinforce" PROVE faded'[q] <= laid'[topic'[q]]
    <3>1. CASE q = p
      BY <1>0, <2>1, <2>2, <3>1
    <3>2. CASE q # p
      <4>1. faded'[q] = faded[q] /\ topic'[q] = topic[q] /\ pc'[q] = pc[q]
        BY <1>0, <2>1, <3>2 DEF Goes
      <4>. QED
        BY <2>1, <2>4, <4>1 DEF TrailInv
    <3>. QED
      BY <3>1, <3>2
  <2>5. TrailTypes'
    <3>1. PICK s \in Nat : s = Sensed(p, t)
      BY <2>2
    <3>2. /\ base' \in [Procs -> Nat] /\ faded' \in [Procs -> Nat]
          /\ \A q \in Procs : faded'[q] <= base'[q]
      BY <1>0, <2>1, <3>1
    <3>. QED
      BY <1>0, <2>1, <2>3, <3>2 DEF TrailInv, TrailTypes
  <2>. QED
    BY <2>3, <2>4, <2>5 DEF TrailInv
<1>7. ASSUME NEW p \in Procs, UNCHANGED store \/ Reads(p), UNCHANGED <<base, faded, topic, laid>>,
             \A q \in Procs : pc'[q] = "reinforce" => pc[q] = "reinforce"
      PROVE  TrailInv' /\ Clean'
  <2>1. KeptFaint' /\ Clean' /\ now' = now
    <3>1. CASE UNCHANGED store
      BY <1>7, <3>1 DEF store, TrailInv, KeptFaint, Faint, StrengthAt, Clean
    <3>2. CASE Reads(p)
      BY <1>7, <3>2, ReadsFaint
    <3>. QED
      BY <1>7, <3>1, <3>2
  <2>. QED
    BY <1>0, <1>7, <2>1, NoReinforce
<1>8. ASSUME NEW p \in Procs,
             Evaporate(p) \/ PruneExpired(p) \/ FetchScan(p) \/ FetchReturn(p) \/ Look(p)
      PROVE  TrailInv' /\ Clean'
  <2>1. /\ UNCHANGED store \/ Reads(p)
        /\ UNCHANGED <<base, faded, topic, laid>>
        /\ pc' = pc \/ Goes(p, "idle") \/ Goes(p, "sweep") \/ Goes(p, "fetch")
    BY <1>8 DEF Look, local, Evaporate, PruneExpired, Sweep, FetchScan, FetchReturn, ghosts
  <2>. QED
    BY <1>0, <1>7, <2>1
<1>9. ASSUME NEW p \in Procs, Crash(p) PROVE TrailInv' /\ Clean'
  <2>1. /\ UNCHANGED <<backend, file, now, laid, topic>> /\ (backend # "sqlite" => p = Solo)
        /\ mem' = [mem EXCEPT ![p] = IF backend = "file" THEN file ELSE Empty]
        /\ txn' = [txn EXCEPT ![p] = "none"] /\ Goes(p, "idle")
        /\ base' = [base EXCEPT ![p] = 0] /\ faded' = [faded EXCEPT ![p] = 0]
    BY <1>9 DEF Crash, Restart
  <2>2. \A q \in Procs, k \in Keys :
          mem'[q][k] = IF q = p THEN IF backend = "file" THEN file[k] ELSE NoEntry
                       ELSE mem[q][k]
    BY <1>0, <2>1 DEF StoreInv, Empty
  <2>3. Clean'
    BY <1>0, <2>1, <2>2 DEF Clean, StoreInv
  <2>4. ASSUME NEW t \in Topics, NEW q \in Procs PROVE Faint(file[t], t)' /\ Faint(mem[q][t], t)'
    <3>1. \A f : Faint(f, t)' <=> Faint(f, t)
      BY <2>1 DEF Faint, StrengthAt
    <3>2. Faint(file[t], t) /\ Faint(mem[q][t], t) /\ Faint(NoEntry, t) /\ t \in Keys
      BY DEF TrailInv, KeptFaint, Faint
    <3>3. PICK f, g : f = file'[t] /\ g = mem'[q][t]
      OBVIOUS
    <3>4. Faint(f, t) /\ Faint(g, t)
      BY <2>1, <2>2, <3>2, <3>3
    <3>. QED
      BY <3>1, <3>3, <3>4
  <2>5. KeptFaint'
    BY <1>0, <2>4 DEF KeptFaint
  <2>6. \A q \in Procs : pc'[q] = "reinforce" => pc[q] = "reinforce" /\ q # p
    BY <2>1 DEF Goes, AckInv, SoloInv
  <2>7. /\ base' \in [Procs -> Nat] /\ faded' \in [Procs -> Nat] /\ base'[p] = 0 /\ faded'[p] = 0
        /\ \A q \in Procs : q # p => base'[q] = base[q] /\ faded'[q] = faded[q]
    BY <1>0, <2>1
  <2>. QED
    BY <1>0, <2>1, <2>3, <2>5, <2>6, <2>7, NoReinforce
<1>10. ASSUME Tick PROVE TrailInv' /\ Clean'
  <2>1. /\ now' = now + 1 /\ UNCHANGED <<backend, file, mem, txn, pc, base, topic>>
        /\ \A t \in Topics : laid'[t] = laid[t] \div 2
        /\ laid' = [t \in Topics |-> laid[t] \div 2]
        /\ faded' = [p \in Procs |-> faded[p] \div 2]
    BY <1>10 DEF Tick, local
  <2>2. KeptFaint'
    <3>1. \A t \in Topics : \A e : Faint(e, t) => Faint(e, t)'
      BY <2>1, FaintHalves DEF TrailInv
    <3>2. \A t \in Topics : \A q \in Procs :
            Faint(file[t], t) /\ Faint(mem[q][t], t) /\ file'[t] = file[t] /\ mem'[q][t] = mem[q][t]
      BY <2>1 DEF TrailInv, KeptFaint
    <3>3. ASSUME NEW t \in Topics, NEW q \in Procs PROVE Faint(file[t], t)' /\ Faint(mem[q][t], t)'
      <4>1. PICK f, g : f = file[t] /\ g = mem[q][t] /\ f = file'[t] /\ g = mem'[q][t]
        BY <3>2
      <4>2. Faint(f, t)' /\ Faint(g, t)'
        BY <3>1, <3>2, <4>1
      <4>. QED
        BY <4>1, <4>2
    <3>. QED
      BY <1>0, <3>3 DEF KeptFaint
  <2>3. TrailTypes'
    <3>1. \A n \in Nat : n \div 2 \in Nat /\ n \div 2 <= n
      OBVIOUS
    <3>2. \A p \in Procs : faded'[p] = faded[p] \div 2 /\ faded'[p] \in Nat /\ faded'[p] <= base[p]
      BY <1>0, <2>1, <3>1
    <3>. QED
      BY <1>0, <2>1, <3>1, <3>2 DEF TrailInv, TrailTypes
  <2>4. Clean'
    BY <2>1 DEF Clean
  <2>5. ASSUME NEW p \in Procs, pc'[p] = "reinforce" PROVE faded'[p] <= laid'[topic'[p]]
    <3>1. \A m, n \in Nat : m <= n => m \div 2 <= n \div 2
      OBVIOUS
    <3>2. faded[p] <= laid[topic[p]] /\ faded[p] \in Nat /\ topic[p] \in Topics /\ laid[topic[p]] \in Nat
      BY <1>0, <2>1, <2>5 DEF TrailInv
    <3>3. faded'[p] = faded[p] \div 2 /\ laid'[topic'[p]] = laid[topic[p]] \div 2
      BY <2>1, <3>2
    <3>. QED
      BY <3>1, <3>2, <3>3
  <2>. QED
    BY <2>1, <2>2, <2>3, <2>4, <2>5 DEF TrailInv
<1>11. ASSUME NEW p \in Procs, NEW raised \in BOOLEAN, NEW k \in Keys,
              (k \in Notes /\ Forget(p, k, raised)) \/ SweepDelete(p, k, raised)
       PROVE  TrailInv' /\ Clean'
  BY <1>0, <1>2, <1>11 DEF Forget, SweepDelete, Starts, local, ghosts
<1>12. ASSUME NEW p \in Procs, NEW raised \in BOOLEAN, NEW m \in Messages,
              Send(p, m, raised) \/ FetchMark(p, m, raised)
       PROVE  TrailInv' /\ Clean'
  BY <1>0, <1>5, <1>12 DEF Send, FetchMark, Starts, local
<1>13. CASE UNCHANGED vars
  BY <1>0, <1>7, <1>13, SubstrateAssumption DEF vars, local, ghosts
<1>. QED
  BY <1>1, <1>3, <1>4, <1>6, <1>8, <1>9, <1>10, <1>11, <1>12, <1>13 DEF Next

(* The store and its trails, throughout.                                     *)
LEMMA TrailAlways == Spec => [](AckInv /\ Clean /\ TrailInv)
  BY AckInvInit, AckInvNext, TrailInit, TrailNext, PTL DEF Spec

(* No process ever sees a trail stronger than everything laid on it,         *)
(* decayed: stale reads, failed flushes, restarts and sweeps make none       *)
(* (Stigma.reinforce, Signal.strength_at).                                   *)
THEOREM NeverInventedHolds == Spec => []NeverInvented
<1>1. AckInv /\ TrailInv => NeverInvented
  BY SensedFaint DEF NeverInvented
<1>. QED
  BY <1>1, TrailAlways, PTL

-------------------------------------------------------------------------------
(* Messages *)

\* Messages a fetch has returned, will return, or has lost.
Taken == handed \cup dropped \cup UNION {batch[q] : q \in Procs}

\* A copy of a message was sent, and if it is flagged it was taken.
Told(m, e) ==
  e # NoEntry => /\ m \in sent
                 /\ e.value = TRUE \/ e.value = FALSE
                 /\ e.value = TRUE => m \in Taken

\* No copy of a message is left unread, but in what an open transaction has
\* read before: that is seen, and is never written.
Flagged(e) == e = NoEntry \/ e.value = TRUE
Marked(m) ==
  /\ Flagged(file[m])
  /\ \A q \in Procs : Flagged(mem[q][m]) \/ (backend = "sqlite" /\ txn[q] = "reads")

AtDesk(p) ==
  /\ batch[p] \subseteq sent
  /\ todo[p] # {} => pc[p] \in {"sweep", "fetch"}
  /\ batch[p] # {} => pc[p] = "fetch"
  /\ pc[p] = "fetch" => todo[p] \subseteq batch[p]

Desk ==
  /\ now \in 0 .. MaxTime
  /\ pc \in [Procs -> {"idle", "reinforce", "sweep", "fetch"}]
  /\ todo \in [Procs -> SUBSET Keys] /\ batch \in [Procs -> SUBSET Messages]
  /\ handed \cup dropped \subseteq sent
  /\ \A p \in Procs : AtDesk(p)

Copies == \A m \in Messages : Told(m, file[m]) /\ \A q \in Procs : Told(m, mem[q][m])

\* What was returned, and what a fetch has worked through, is marked.
Marks ==
  /\ \A m \in Messages \cap handed : Marked(m)
  /\ \A p \in Procs : \A m \in batch[p] \ todo[p] : Marked(m)

MailInv == Desk /\ Copies /\ Marks

(* A call of a backend brings no copy of a message but a proper one.        *)
LEMMA ChangeLetters ==
  ASSUME AckInv, Clean, Copies, NEW p \in Procs, NEW k \in Keys, NEW e, NEW raised \in BOOLEAN,
         backend # "sqlite" => p = Solo, Change(p, k, e, raised),
         sent \subseteq sent', Taken \subseteq Taken',
         k \in Messages => Told(k, e)'
  PROVE  Copies'
<1>1. \A l \in Keys :
        /\ Stays(l, file'[l]) \/ (l = k /\ file'[l] = e)
        /\ \A q \in Procs : Stays(l, mem'[q][l]) \/ (l = k /\ mem'[q][l] = e)
  BY ChangeSpreads DEF AckInv
<1>2. ASSUME NEW m \in Messages, NEW f, Stays(m, f) \/ (m = k /\ f = e) PROVE Told(m, f)'
  <2>1. CASE m = k /\ f = e
    BY <2>1
  <2>2. CASE Stays(m, f)
    <3>1. Told(m, f)
      BY <2>2 DEF Stays, Copies, Told
    <3>. QED
      BY <3>1 DEF Told
  <2>. QED
    BY <1>2, <2>1, <2>2
<1>3. ASSUME NEW m \in Messages, NEW q \in Procs PROVE Told(m, mem[q][m])'
  <2>1. PICK f : f = mem'[q][m]
    OBVIOUS
  <2>. QED
    BY <1>1, <1>2, <2>1
<1>4. ASSUME NEW m \in Messages PROVE Told(m, file[m])'
  <2>1. PICK f : f = file'[m]
    OBVIOUS
  <2>. QED
    BY <1>1, <1>2, <2>1
<1>. QED
  BY <1>3, <1>4 DEF Copies

(* A marked message stays marked, but for a copy of it that is unread.      *)
LEMMA ChangeMarked ==
  ASSUME AckInv, Clean, NEW p \in Procs, NEW k \in Keys, NEW e, NEW raised \in BOOLEAN,
         backend # "sqlite" => p = Solo, Change(p, k, e, raised), NEW m \in Messages, Marked(m),
         k = m => Flagged(e)
  PROVE  Marked(m)'
<1>1. /\ m \in Keys /\ backend \in Kinds /\ DOMAIN file = Keys /\ Flagged(NoEntry)
      /\ DOMAIN mem = Procs /\ \A q \in Procs : DOMAIN mem[q] = Keys
      /\ backend' = backend /\ \A q \in Procs \ {p} : mem'[q] = mem[q] /\ txn'[q] = txn[q]
  BY ChangeSpreads DEF AckInv, StoreInv, Change, Flagged
<1>2. \A x : Flagged(x)' <=> Flagged(x)
  BY DEF Flagged
<1>3. SUFFICES /\ Flagged(file'[m])
               /\ Flagged(mem'[p][m]) \/ (backend = "sqlite" /\ txn'[p] = "reads")
  <2>1. ASSUME NEW q \in Procs
        PROVE  Flagged(mem'[q][m]) \/ (backend' = "sqlite" /\ txn'[q] = "reads")
    BY <1>1, <1>3 DEF Marked
  <2>. QED
    BY <1>2, <1>3, <2>1 DEF Marked, Flagged
<1>4. CASE DictChange(p, k, e, raised)
  <2>1. /\ backend = "memory" /\ file' = file
        /\ mem'[p][m] = IF m = k THEN e ELSE mem[p][m]
    BY <1>1, <1>4 DEF DictChange
  <2>. QED
    BY <1>1, <2>1 DEF Marked
<1>5. CASE FileChange(p, k, e, raised)
  <2>1. /\ backend = "file" /\ file' = (IF raised THEN file ELSE mem'[p])
        /\ mem'[p][m] = IF m = k THEN e ELSE mem[p][m]
    BY <1>1, <1>5 DEF FileChange
  <2>. QED
    BY <1>1, <2>1 DEF Marked
<1>6. CASE TableChange(p, k, e, raised)
  <2>1. TableEffect(p, k, e, raised) /\ backend = "sqlite"
    <3>1. StoreInv
      BY DEF AckInv
    <3>2. TableEffect(p, k, e, raised)
      BY <1>6, <3>1, TableKinds
    <3>. QED
      BY <1>6, <3>2 DEF TableChange
  <2>2. CASE /\ raised /\ UNCHANGED <<file, owed>>
             /\ \/ mem'[p] = mem[p] /\ txn'[p] = txn[p]
                \/ mem'[p] = mem[p] /\ txn[p] = "none" /\ txn'[p] = "begun"
                \/ mem'[p] = Empty /\ txn'[p] = "none"
    <3>1. Empty[m] = NoEntry
      BY <1>1 DEF Empty
    <3>2. \/ mem'[p][m] = NoEntry
          \/ mem'[p][m] = mem[p][m] /\ (txn[p] = "reads" => txn'[p] = "reads")
      BY <2>2, <3>1
    <3>. QED
      BY <1>1, <2>1, <2>2, <3>2 DEF Marked
  <2>3. ASSUME MayWrite(p)
        PROVE  DOMAIN View(p) = Keys /\ Flagged(View(p)[m])
    <3>1. DOMAIN View(p) = Keys /\ (View(p) = file \/ (txn[p] = "writes" /\ View(p) = mem[p]))
      BY <2>1, <2>3, ViewFacts DEF AckInv
    <3>2. Flagged(file[m]) /\ (txn[p] = "writes" => Flagged(mem[p][m]))
      BY DEF Marked
    <3>. QED
      BY <3>1, <3>2
  <2>4. CASE MayWrite(p) /\ file' = file /\ mem'[p] = [View(p) EXCEPT ![k] = e]
    <3>1. mem'[p][m] = IF m = k THEN e ELSE View(p)[m]
      BY <1>1, <2>3, <2>4
    <3>. QED
      BY <2>3, <2>4, <3>1 DEF Marked
  <2>5. CASE MayWrite(p) /\ mem'[p] = Empty /\ file' = [View(p) EXCEPT ![k] = e]
    <3>1. file'[m] = (IF m = k THEN e ELSE View(p)[m]) /\ mem'[p][m] = NoEntry
      BY <1>1, <2>3, <2>5 DEF Empty
    <3>. QED
      BY <1>1, <2>3, <2>5, <3>1
  <2>. QED
    BY <2>1, <2>2, <2>4, <2>5 DEF TableEffect
<1>. QED
  BY <1>4, <1>5, <1>6 DEF Change

(* What a process reads was there.                                           *)
LEMMA ReadsMail ==
  ASSUME AckInv, Clean, Copies, NEW p \in Procs, UNCHANGED store \/ Reads(p),
         sent \subseteq sent', Taken \subseteq Taken'
  PROVE  Copies' /\ (\A m \in Messages : Marked(m) => Marked(m)') /\ now' = now
<1>1. /\ UNCHANGED <<backend, file, now>>
      /\ \A l \in Keys, q \in Procs : Stays(l, mem'[q][l])
      /\ \A q \in Procs : (mem'[q] = mem[q] /\ txn'[q] = txn[q]) \/ mem'[q] = file
  <2>1. CASE UNCHANGED store
    BY <2>1 DEF store, Stays
  <2>2. CASE Reads(p)
    BY <2>2, ReadsSpreads, ReadsKeeps DEF AckInv
  <2>. QED
    BY <2>1, <2>2
<1>2. ASSUME NEW m \in Messages, NEW f, Stays(m, f) PROVE Told(m, f)'
  <2>1. Told(m, f)
    BY <1>2 DEF Stays, Copies, Told
  <2>. QED
    BY <2>1 DEF Told
<1>3. ASSUME NEW m \in Messages, NEW q \in Procs PROVE Told(m, file[m])' /\ Told(m, mem[q][m])'
  <2>1. PICK f, g : f = file'[m] /\ g = mem'[q][m]
    OBVIOUS
  <2>2. Stays(m, f) /\ Stays(m, g)
    BY <1>1, <2>1 DEF Stays
  <2>. QED
    BY <1>2, <2>1, <2>2
<1>4. ASSUME NEW m \in Messages, Marked(m) PROVE Marked(m)'
  <2>1. ASSUME NEW q \in Procs
        PROVE  Flagged(mem'[q][m]) \/ (backend = "sqlite" /\ (txn'[q] = "reads"))
    BY <1>1, <1>4 DEF Marked
  <2>2. Flagged(file[m])
    BY <1>4 DEF Marked
  <2>. QED
    BY <1>1, <2>1, <2>2 DEF Marked, Flagged
<1>. QED
  BY <1>1, <1>3, <1>4, SubstrateAssumption DEF Copies

(* The same of a delete.                                                    *)
LEMMA DeleteMail ==
  ASSUME AckInv, Clean, Copies, NEW p \in Procs, NEW k \in Keys, NEW raised \in BOOLEAN,
         backend # "sqlite" => p = Solo, Delete(p, k, raised),
         UNCHANGED <<sent, handed, dropped, batch>>
  PROVE  Copies' /\ \A m \in Messages : Marked(m) => Marked(m)'
<1>1. Taken' = Taken
  BY DEF Taken
<1>2. CASE Change(p, k, NoEntry, raised)
  <2>1. k \in Messages => Told(k, NoEntry)'
    BY DEF Told
  <2>2. Flagged(NoEntry)
    BY DEF Flagged
  <2>. QED
    BY <1>1, <1>2, <2>1, <2>2, ChangeLetters, ChangeMarked
<1>3. CASE UNCHANGED store
  BY <1>1, <1>3 DEF store, Copies, Told, Marked, Flagged
<1>. QED
  BY <1>2, <1>3 DEF Delete

(* A step of one process that leaves the mail where it is.                  *)
LEMMA DeskStays ==
  ASSUME MailInv, UNCHANGED <<batch, sent, handed, dropped>>,
         now' \in 0 .. MaxTime, pc' \in [Procs -> {"idle", "reinforce", "sweep", "fetch"}],
         todo' \in [Procs -> SUBSET Keys],
         \A q \in Procs : \/ pc'[q] = pc[q] /\ todo'[q] = todo[q]
                          \/ /\ pc[q] # "fetch" /\ pc'[q] # "fetch"
                             /\ todo'[q] # {} => pc'[q] = "sweep",
         Copies', \A m \in Messages : Marked(m) => Marked(m)'
  PROVE  MailInv'
<1>1. ASSUME NEW q \in Procs
      PROVE  AtDesk(q)' /\ \A m \in batch'[q] \ todo'[q] : m \in batch[q] \ todo[q]
  BY DEF MailInv, Desk, AtDesk
<1>2. Desk'
  BY <1>1 DEF MailInv, Desk
<1>3. Marks'
  BY <1>1 DEF MailInv, Marks, Desk
<1>. QED
  BY <1>2, <1>3 DEF MailInv

(* No message is anywhere to begin with.                                    *)
LEMMA InboxFirst == Init => MailInv
<1>. SUFFICES ASSUME Init PROVE MailInv
  OBVIOUS
<1>1. /\ \A k \in Keys : file[k] = NoEntry /\ \A q \in Procs : mem[q][k] = NoEntry
  BY DEF Init, Open, Empty
<1>2. Copies
  BY <1>1 DEF Copies, Told
<1>3. Desk
  BY DEF Init, Open, Desk, AtDesk
<1>4. Marks
  BY DEF Init, Marks
<1>. QED
  BY <1>2, <1>3, <1>4 DEF MailInv

\* What the steps below start from.
LEMMA MailFacts ==
  ASSUME AckInv, MailInv
  PROVE  /\ \A p \in Procs : pc[p] # "idle" /\ backend # "sqlite" => p = Solo
         /\ pc \in [Procs -> {"idle", "reinforce", "sweep", "fetch"}] /\ now \in 0 .. MaxTime
         /\ todo \in [Procs -> SUBSET Keys] /\ batch \in [Procs -> SUBSET Messages]
         /\ handed \cup dropped \subseteq sent /\ \A p \in Procs : AtDesk(p)
         /\ Copies
  BY DEF AckInv, SoloInv, MailInv, Desk

\* A call on a key that is no message leaves the mail.
LEMMA OtherKeys ==
  ASSUME AckInv, Clean, MailInv, NEW p \in Procs, NEW k \in Keys \ Messages, NEW e,
         NEW raised \in BOOLEAN, backend # "sqlite" => p = Solo, Change(p, k, e, raised),
         UNCHANGED <<todo, batch, sent, handed, dropped>>,
         pc' = pc \/ (pc[p] = "reinforce" /\ Goes(p, "idle"))
  PROVE  MailInv'
<1>1. Taken' = Taken
  BY DEF Taken
<1>2. Copies' /\ now' = now
  BY <1>1, ChangeLetters, ChangeSpreads, MailFacts DEF AckInv
<1>3. \A m \in Messages : Marked(m) => Marked(m)'
  BY ChangeMarked
<1>4. /\ pc' \in [Procs -> {"idle", "reinforce", "sweep", "fetch"}]
      /\ \A q \in Procs : pc'[q] = pc[q] \/ (pc[q] = "reinforce" /\ pc'[q] = "idle")
  BY MailFacts DEF Goes
<1>5. \A q \in Procs : pc[q] = "reinforce" => todo'[q] = {}
  BY MailFacts DEF AtDesk
<1>. QED
  BY <1>2, <1>3, <1>4, <1>5, MailFacts, DeskStays

\* A message that is sent is a new one, and unread.
LEMMA SendKeeps ==
  ASSUME AckInv, Clean, MailInv, NEW p \in Procs, NEW m \in Messages, NEW raised \in BOOLEAN,
         Send(p, m, raised)
  PROVE  MailInv'
<1>1. PICK e :
        /\ backend # "sqlite" => p = Solo
        /\ m \notin sent /\ sent' = sent \cup {m} /\ m \in Keys
        /\ Change(p, m, e, raised) /\ e.value = FALSE
        /\ UNCHANGED <<pc, todo, batch, handed, dropped>>
  BY DEF Send, Starts, Entry, local
<1>2. Taken' = Taken
  BY <1>1 DEF Taken
<1>3. Told(m, e)'
  BY <1>1 DEF Told
<1>4. Copies' /\ now' = now
  BY <1>1, <1>2, <1>3, ChangeLetters, ChangeSpreads, MailFacts DEF AckInv
<1>5. \A n \in Messages : n # m /\ Marked(n) => Marked(n)'
  BY <1>1, ChangeMarked
<1>6. Marks'
  BY <1>1, <1>5, MailFacts DEF MailInv, Marks, AtDesk
<1>7. Desk'
  BY <1>1, <1>4 DEF MailInv, Desk, AtDesk
<1>. QED
  BY <1>4, <1>6, <1>7 DEF MailInv

\* mark_read flags a message of the fetch; one that raises loses the fetch.
LEMMA FetchMarkKeeps ==
  ASSUME AckInv, Clean, MailInv, NEW p \in Procs, NEW m \in Messages, NEW raised \in BOOLEAN,
         FetchMark(p, m, raised)
  PROVE  MailInv'
<1>1. PICK e :
        /\ pc[p] = "fetch" /\ m \in todo[p] /\ m \in Keys /\ m \in batch[p]
        /\ backend # "sqlite" => p = Solo
        /\ Change(p, m, e, raised) /\ e.value = TRUE
        /\ UNCHANGED <<sent, handed>>
        /\ IF raised
           THEN /\ dropped' = dropped \cup batch[p]
                /\ todo' = [todo EXCEPT ![p] = {}]
                /\ batch' = [batch EXCEPT ![p] = {}]
                /\ pc' = [pc EXCEPT ![p] = "idle"]
           ELSE /\ todo' = [todo EXCEPT ![p] = @ \ {m}]
                /\ UNCHANGED <<pc, batch, dropped>>
  BY MailFacts DEF FetchMark, Entry, Goes, AtDesk
<1>2. Taken \subseteq Taken' /\ m \in Taken' /\ m \in sent
  <2>1. \A q \in Procs : batch[q] \subseteq dropped' \cup batch'[q]
    BY <1>1, MailFacts
  <2>2. dropped \subseteq dropped' /\ handed' = handed
    BY <1>1
  <2>3. ASSUME NEW x \in UNION {batch[q] : q \in Procs} PROVE x \in Taken'
    BY <2>1 DEF Taken
  <2>. QED
    BY <1>1, <2>2, <2>3, MailFacts DEF Taken, AtDesk
<1>3. Told(m, e)'
  BY <1>1, <1>2 DEF Told
<1>4. Copies' /\ now' = now
  BY <1>1, <1>2, <1>3, ChangeLetters, ChangeSpreads, MailFacts DEF AckInv
<1>5. \A n \in Messages : Marked(n) => Marked(n)'
  <2>1. Flagged(e)
    BY <1>1 DEF Flagged
  <2>. QED
    BY <1>1, <2>1, ChangeMarked
<1>6. ~raised => Marked(m)'
  <2>1. ~raised => /\ file'[m] \in {e, NoEntry} /\ backend' = backend
                   /\ \A q \in Procs : \/ mem'[q][m] \in {e, NoEntry}
                                       \/ backend = "sqlite" /\ txn'[q] = "reads"
    BY <1>1, ChangeSpreads DEF AckInv, Change
  <2>. QED
    BY <1>1, <2>1 DEF Marked, Flagged
<1>7. CASE raised
  <2>1. /\ \A q \in Procs : q # p => batch'[q] = batch[q] /\ todo'[q] = todo[q] /\ pc'[q] = pc[q]
        /\ batch'[p] = {} /\ todo'[p] = {} /\ pc'[p] = "idle"
        /\ dropped' = dropped \cup batch[p]
    BY <1>1, <1>7, MailFacts
  <2>2. Marks'
    BY <1>1, <1>5, <2>1, MailFacts DEF MailInv, Marks
  <2>3. Desk'
    <3>1. /\ pc' \in [Procs -> {"idle", "reinforce", "sweep", "fetch"}]
          /\ todo' \in [Procs -> SUBSET Keys] /\ batch' \in [Procs -> SUBSET Messages]
      BY <1>1, <1>7, MailFacts
    <3>2. \A q \in Procs : AtDesk(q)'
      BY <1>1, <2>1, MailFacts DEF AtDesk
    <3>. QED
      BY <1>1, <1>4, <2>1, <3>1, <3>2, MailFacts DEF Desk, AtDesk
  <2>. QED
    BY <1>4, <2>2, <2>3 DEF MailInv
<1>8. CASE ~raised
  <2>1. /\ \A q \in Procs : q # p => todo'[q] = todo[q]
        /\ todo'[p] = todo[p] \ {m} /\ UNCHANGED <<pc, batch, dropped, sent, handed>>
    BY <1>1, <1>8, MailFacts
  <2>2. Marks'
    BY <1>5, <1>6, <1>8, <2>1, MailFacts DEF MailInv, Marks
  <2>3. Desk'
    <3>1. todo' \in [Procs -> SUBSET Keys]
      BY <1>1, <1>8, MailFacts
    <3>2. \A q \in Procs : AtDesk(q)'
      BY <2>1, MailFacts DEF AtDesk
    <3>. QED
      BY <1>4, <2>1, <3>1, <3>2, MailFacts DEF Desk
  <2>. QED
    BY <1>4, <2>2, <2>3 DEF MailInv
<1>. QED
  BY <1>7, <1>8

\* A fetch takes what is unread.
LEMMA FetchScanKeeps ==
  ASSUME AckInv, Clean, MailInv, NEW p \in Procs, FetchScan(p)
  PROVE  MailInv'
<1>1. /\ Reads(p) /\ UNCHANGED <<sent, handed, dropped>> /\ pc[p] = "idle"
      /\ \A q \in Procs : q # p => batch'[q] = batch[q] /\ todo'[q] = todo[q] /\ pc'[q] = pc[q]
      /\ batch'[p] = Unread(p) /\ todo'[p] = Unread(p) /\ pc'[p] = "fetch"
      /\ pc' \in [Procs -> {"idle", "reinforce", "sweep", "fetch"}]
      /\ todo' \in [Procs -> SUBSET Keys] /\ batch' \in [Procs -> SUBSET Messages]
  BY MailFacts DEF FetchScan, Starts, Goes, Unread
<1>2. ASSUME NEW m \in Unread(p) PROVE m \in Messages /\ m \in sent
  <2>1. /\ m \in Messages /\ View(p)[m] # NoEntry
    BY DEF Unread, Readable, Holds
  <2>2. View(p)[m] = file[m] \/ View(p)[m] = mem[p][m]
    BY DEF View
  <2>. QED
    BY <2>1, <2>2, MailFacts DEF Copies, Told
<1>3. Taken \subseteq Taken'
  <2>1. batch[p] = {}
    BY <1>1, MailFacts DEF AtDesk
  <2>2. \A q \in Procs : batch[q] \subseteq batch'[q]
    BY <1>1, <2>1
  <2>. QED
    BY <1>1, <2>2 DEF Taken
<1>4. Copies' /\ (\A m \in Messages : Marked(m) => Marked(m)') /\ now' = now
  BY <1>1, <1>3, ReadsMail, MailFacts
<1>5. Marks'
  BY <1>1, <1>4 DEF MailInv, Marks
<1>6. Desk'
  <2>1. \A q \in Procs : AtDesk(q)'
    BY <1>1, <1>2, MailFacts DEF AtDesk
  <2>. QED
    BY <1>1, <1>4, <2>1, MailFacts DEF Desk
<1>. QED
  BY <1>4, <1>5, <1>6 DEF MailInv

\* A process that returns its fetch, or dies, leaves its desk.
LEMMA LeavesDesk ==
  ASSUME AckInv, MailInv, NEW p \in Procs,
         pc' = [pc EXCEPT ![p] = "idle"], todo' = [todo EXCEPT ![p] = {}],
         batch' = [batch EXCEPT ![p] = {}], sent' = sent, now' = now,
         handed' \cup dropped' = handed \cup dropped \cup batch[p],
         \A m \in Messages \cap handed' : Marked(m),
         \A m \in Messages : Marked(m) => Marked(m)',
         \A m \in Messages : Told(m, file[m])' /\ \A q \in Procs : Told(m, mem[q][m])'
  PROVE  MailInv'
<1>1. /\ \A q \in Procs : q # p => batch'[q] = batch[q] /\ todo'[q] = todo[q] /\ pc'[q] = pc[q]
      /\ batch'[p] = {} /\ todo'[p] = {} /\ pc'[p] = "idle"
      /\ pc' \in [Procs -> {"idle", "reinforce", "sweep", "fetch"}]
      /\ todo' \in [Procs -> SUBSET Keys] /\ batch' \in [Procs -> SUBSET Messages]
  BY MailFacts
<1>2. Marks'
  BY <1>1, MailFacts DEF MailInv, Marks
<1>3. Desk'
  <2>1. \A q \in Procs : AtDesk(q)'
    BY <1>1, MailFacts DEF AtDesk
  <2>2. handed' \cup dropped' \subseteq sent'
    BY MailFacts DEF AtDesk
  <2>. QED
    BY <1>1, <2>1, <2>2, MailFacts DEF Desk
<1>. QED
  BY <1>2, <1>3 DEF MailInv, Copies

\* A copy tells what it told, if what is taken stays taken.
LEMMA TakenGrows ==
  ASSUME NEW p \in Procs, batch \in [Procs -> SUBSET Messages],
         batch' = [batch EXCEPT ![p] = {}], sent' = sent,
         handed' \cup dropped' = handed \cup dropped \cup batch[p], NEW m, NEW e, Told(m, e)
  PROVE  Told(m, e)'
<1>1. \A q \in Procs : batch[q] \subseteq handed' \cup dropped' \cup batch'[q]
  OBVIOUS
<1>2. ASSUME NEW x \in UNION {batch[q] : q \in Procs} PROVE x \in Taken'
  BY <1>1 DEF Taken
<1>3. Taken \subseteq Taken'
  BY <1>2 DEF Taken
<1>. QED
  BY <1>3 DEF Told

\* A fetch hands out what it has marked.
LEMMA FetchReturnKeeps ==
  ASSUME AckInv, MailInv, NEW p \in Procs, FetchReturn(p)
  PROVE  MailInv'
<1>1. /\ todo[p] = {} /\ UNCHANGED <<store, sent, dropped>> /\ handed' = handed \cup batch[p]
      /\ pc' = [pc EXCEPT ![p] = "idle"] /\ batch' = [batch EXCEPT ![p] = {}]
      /\ todo' = [todo EXCEPT ![p] = {}]
  BY MailFacts DEF FetchReturn, Goes
<1>2. \A m \in Messages \cap handed' : Marked(m)
  BY <1>1 DEF MailInv, Marks
<1>3. \A m \in Messages : Marked(m) => Marked(m)'
  BY <1>1 DEF Marked, Flagged, store
<1>4. ASSUME NEW m \in Messages, NEW q \in Procs PROVE Told(m, file[m])' /\ Told(m, mem[q][m])'
  <2>1. PICK f, g : f = file[m] /\ g = mem[q][m] /\ f = file'[m] /\ g = mem'[q][m]
    BY <1>1 DEF store
  <2>2. Told(m, f) /\ Told(m, g)
    BY <2>1, MailFacts DEF Copies
  <2>3. Told(m, f)' /\ Told(m, g)'
    BY <1>1, <2>2, TakenGrows, MailFacts
  <2>. QED
    BY <2>1, <2>3
<1>5. now' = now
  BY <1>1 DEF store
<1>. QED
  BY <1>1, <1>2, <1>3, <1>4, <1>5, LeavesDesk

\* A process that dies loses its fetch, and what was in memory only.
LEMMA CrashMail ==
  ASSUME AckInv, Clean, MailInv, NEW p \in Procs, Crash(p)
  PROVE  MailInv'
<1>1. /\ UNCHANGED <<backend, file, now, sent, handed>> /\ dropped' = dropped \cup batch[p]
      /\ mem' = [mem EXCEPT ![p] = IF backend = "file" THEN file ELSE Empty]
      /\ pc' = [pc EXCEPT ![p] = "idle"] /\ batch' = [batch EXCEPT ![p] = {}]
      /\ todo' = [todo EXCEPT ![p] = {}]
  BY DEF Crash, Restart, Goes
<1>2. /\ \A q \in Procs, k \in Keys :
           mem'[q][k] = IF q = p THEN IF backend = "file" THEN file[k] ELSE NoEntry ELSE mem[q][k]
      /\ \A q \in Procs \ {p} : txn'[q] = txn[q]
  BY <1>1 DEF AckInv, StoreInv, Empty, Crash, Restart
<1>3. \A m \in Messages \cap handed' : Marked(m)
  BY <1>1 DEF MailInv, Marks
<1>4. \A m \in Messages : Marked(m) => Marked(m)'
  BY <1>1, <1>2 DEF Marked, Flagged
<1>5. ASSUME NEW m \in Messages, NEW q \in Procs PROVE Told(m, file[m])' /\ Told(m, mem[q][m])'
  <2>1. PICK f, g : f = file'[m] /\ g = mem'[q][m]
    OBVIOUS
  <2>2. f = file[m] /\ g \in {file[m], NoEntry, mem[q][m]}
    BY <1>1, <1>2, <2>1
  <2>3. Told(m, f) /\ Told(m, g)
    <3>1. Told(m, file[m]) /\ Told(m, mem[q][m])
      BY MailFacts DEF Copies
    <3>2. Told(m, NoEntry)
      BY DEF Told
    <3>. QED
      BY <2>2, <3>1, <3>2
  <2>4. Told(m, f)' /\ Told(m, g)'
    BY <1>1, <2>3, TakenGrows, MailFacts
  <2>. QED
    BY <2>1, <2>4
<1>. QED
  BY <1>1, <1>3, <1>4, <1>5, LeavesDesk

\* Every step keeps the mail.
LEMMA InboxStep == AckInv /\ Clean /\ MailInv /\ [Next]_vars => MailInv'
<1>. SUFFICES ASSUME AckInv, Clean, MailInv, [Next]_vars PROVE MailInv'
  OBVIOUS
<1>1. ASSUME NEW p \in Procs, NEW raised \in BOOLEAN, NEW k \in Notes, NEW v \in Values,
             NEW e \in Expiries, Write(p, k, v, e, raised)
      PROVE  MailInv'
  <2>1. /\ (backend # "sqlite" => p = Solo) /\ k \in Keys \ Messages
        /\ Change(p, k, Entry(v, v \in Encodable, e), raised)
        /\ UNCHANGED <<pc, todo, batch, sent, handed, dropped>>
    BY <1>1 DEF Write, Starts, local, ghosts
  <2>. QED
    BY <2>1, OtherKeys
<1>2. ASSUME NEW p \in Procs, NEW raised \in BOOLEAN, NEW t \in Topics,
             Emit(p, t, raised) \/ (topic[p] = t /\ ReinforceWrite(p, raised))
      PROVE  MailInv'
  <2>1. PICK e :
        /\ (backend # "sqlite" => p = Solo) /\ t \in Keys \ Messages
        /\ Change(p, t, e, raised) /\ UNCHANGED <<todo, batch, sent, handed, dropped>>
        /\ pc' = pc \/ (pc[p] = "reinforce" /\ Goes(p, "idle"))
    <3>1. CASE Emit(p, t, raised)
      BY <3>1, MailFacts DEF Emit, Starts, local
    <3>2. CASE topic[p] = t /\ ReinforceWrite(p, raised)
      BY <3>2, MailFacts DEF ReinforceWrite
    <3>. QED
      BY <1>2, <3>1, <3>2
  <2>. QED
    BY <2>1, OtherKeys, MailFacts DEF Goes
<1>3. ASSUME NEW p \in Procs, NEW raised \in BOOLEAN, NEW k \in Notes, Forget(p, k, raised)
      PROVE  MailInv'
  <2>1. /\ (backend # "sqlite" => p = Solo) /\ k \in Keys /\ Delete(p, k, raised)
        /\ UNCHANGED <<pc, todo, batch, sent, handed, dropped>>
    BY <1>3 DEF Forget, Starts, local, ghosts
  <2>2. now' = now
    BY <2>1, ChangeSpreads DEF AckInv, Delete, store
  <2>. QED
    BY <2>1, <2>2, DeleteMail, DeskStays, MailFacts
<1>4. ASSUME NEW p \in Procs, NEW raised \in BOOLEAN, NEW k \in Keys, SweepDelete(p, k, raised)
      PROVE  MailInv'
  <2>1. /\ (backend # "sqlite" => p = Solo) /\ Delete(p, k, raised) /\ pc[p] = "sweep"
        /\ UNCHANGED <<batch, sent, handed, dropped>>
        /\ todo' \in [Procs -> SUBSET Keys]
        /\ \A q \in Procs : q # p => todo'[q] = todo[q] /\ pc'[q] = pc[q]
        /\ pc' \in [Procs -> {"idle", "reinforce", "sweep", "fetch"}]
        /\ pc'[p] # "fetch" /\ (todo'[p] # {} => pc'[p] = "sweep")
    BY <1>4, MailFacts DEF SweepDelete, Goes, ghosts
  <2>2. now' = now
    BY <2>1, ChangeSpreads DEF AckInv, Delete, store
  <2>3. Copies' /\ \A m \in Messages : Marked(m) => Marked(m)'
    BY <2>1, DeleteMail, MailFacts
  <2>4. \A q \in Procs : \/ pc'[q] = pc[q] /\ todo'[q] = todo[q]
                         \/ /\ pc[q] # "fetch" /\ pc'[q] # "fetch"
                            /\ todo'[q] # {} => pc'[q] = "sweep"
    BY <2>1
  <2>. QED
    BY <2>1, <2>2, <2>3, <2>4, DeskStays, MailFacts
<1>5. ASSUME NEW p \in Procs, NEW raised \in BOOLEAN, NEW m \in Messages,
             Send(p, m, raised) \/ FetchMark(p, m, raised)
      PROVE  MailInv'
  BY <1>5, SendKeeps, FetchMarkKeeps
<1>6. ASSUME NEW p \in Procs, UNCHANGED store \/ Reads(p), UNCHANGED <<batch, sent, handed, dropped>>,
             pc' \in [Procs -> {"idle", "reinforce", "sweep", "fetch"}],
             todo' \in [Procs -> SUBSET Keys],
             \A q \in Procs : \/ pc'[q] = pc[q] /\ todo'[q] = todo[q]
                              \/ /\ pc[q] # "fetch" /\ pc'[q] # "fetch"
                                 /\ todo'[q] # {} => pc'[q] = "sweep"
      PROVE  MailInv'
  <2>1. Taken' = Taken
    BY <1>6 DEF Taken
  <2>2. Copies' /\ (\A m \in Messages : Marked(m) => Marked(m)') /\ now' = now
    BY <1>6, <2>1, ReadsMail, MailFacts
  <2>. QED
    BY <1>6, <2>2, DeskStays, MailFacts
<1>7. ASSUME NEW p \in Procs, NEW t \in Topics, ReinforceLoad(p, t)
      PROVE  MailInv'
  <2>1. /\ Reads(p) /\ UNCHANGED <<todo, batch, sent, handed, dropped>>
        /\ pc[p] = "idle" /\ pc' = [pc EXCEPT ![p] = "reinforce"]
    BY <1>7 DEF ReinforceLoad, Starts, Goes
  <2>2. todo[p] = {}
    BY <2>1, MailFacts DEF AtDesk
  <2>. QED
    BY <1>6, <2>1, <2>2, MailFacts
<1>8. ASSUME NEW p \in Procs, NEW keys \in SUBSET Keys, Sweep(p, keys)
      PROVE  MailInv'
  <2>1. /\ Reads(p) /\ UNCHANGED <<batch, sent, handed, dropped>>
        /\ pc[p] = "idle" /\ todo' = [todo EXCEPT ![p] = keys]
        /\ pc' = [pc EXCEPT ![p] = IF keys = {} THEN "idle" ELSE "sweep"]
    BY <1>8 DEF Sweep, Starts, Goes, ghosts
  <2>2. /\ todo' \in [Procs -> SUBSET Keys]
        /\ pc' \in [Procs -> {"idle", "reinforce", "sweep", "fetch"}]
        /\ \A q \in Procs : \/ pc'[q] = pc[q] /\ todo'[q] = todo[q]
                            \/ /\ pc[q] # "fetch" /\ pc'[q] # "fetch"
                               /\ todo'[q] # {} => pc'[q] = "sweep"
    BY <2>1, MailFacts
  <2>. QED
    BY <1>6, <2>1, <2>2, MailFacts
<1>9. ASSUME NEW p \in Procs, Evaporate(p) \/ PruneExpired(p) PROVE MailInv'
  BY <1>8, <1>9 DEF Evaporate, PruneExpired, Expired
<1>10. ASSUME NEW p \in Procs, FetchScan(p) \/ FetchReturn(p) \/ Crash(p) PROVE MailInv'
  BY <1>10, FetchScanKeeps, FetchReturnKeeps, CrashMail
<1>11. ASSUME NEW p \in Procs, Look(p) PROVE MailInv'
  <2>1. Reads(p) /\ UNCHANGED <<pc, todo, batch, sent, handed, dropped>>
    BY <1>11 DEF Look, local, ghosts
  <2>. QED
    BY <1>6, <2>1, MailFacts
<1>12. CASE Tick
  <2>1. /\ UNCHANGED <<backend, file, mem, txn, pc, todo, batch, sent, handed, dropped>>
        /\ now' \in 0 .. MaxTime
    BY <1>12, MailFacts DEF Tick, local
  <2>2. Taken' = Taken
    BY <2>1 DEF Taken
  <2>3. Copies' /\ \A m \in Messages : Marked(m) => Marked(m)'
    BY <2>1, <2>2, MailFacts DEF Copies, Told, Marked, Flagged
  <2>. QED
    BY <2>1, <2>3, DeskStays, MailFacts
<1>13. CASE UNCHANGED vars
  <2>1. UNCHANGED store /\ UNCHANGED <<pc, todo, batch, sent, handed, dropped>>
    BY <1>13 DEF vars, local, ghosts
  <2>. QED
    BY <1>6, <2>1, MailFacts, SubstrateAssumption
<1>14. ASSUME NEW p \in Procs, NEW raised \in BOOLEAN, ReinforceWrite(p, raised)
       PROVE  MailInv'
  BY <1>2, <1>14 DEF AckInv
<1>. QED
  BY <1>1, <1>2, <1>3, <1>4, <1>5, <1>7, <1>9, <1>10, <1>11, <1>12, <1>13, <1>14 DEF Next

\* A fetch of what another had returned before it began is stuck: it has read a
\* transaction from before the message was marked, in which it cannot write.
Stuck(p) ==
  /\ past[p] \subseteq handed
  /\ \A m \in batch[p] \cap past[p] :
       m \in todo[p] /\ backend = "sqlite" /\ txn[p] = "reads" /\ ~Flagged(mem[p][m])

PastInv == DOMAIN past = Procs /\ \A p \in Procs : Stuck(p)

LEMMA PastFirst == Init => PastInv
  BY DEF Init, PastInv, Stuck

\* A step of p that is none of a fetch, and the others' view of it.
LEMMA PastStays ==
  ASSUME MailInv, PastInv, NEW p \in Procs, backend' = backend, handed \subseteq handed',
         DOMAIN past' = Procs, Stuck(p)',
         \A q \in Procs \ {p} : /\ mem'[q] = mem[q] /\ txn'[q] = txn[q] /\ past'[q] = past[q]
                                /\ batch'[q] = batch[q] /\ todo'[q] = todo[q]
  PROVE  PastInv'
<1>1. ASSUME NEW q \in Procs \ {p} PROVE Stuck(q)'
  BY DEF PastInv, Stuck, Flagged
<1>. QED
  BY <1>1 DEF PastInv

\* Every step keeps them so.
LEMMA PastStep == AckInv /\ Clean /\ MailInv /\ PastInv /\ [Next]_vars => PastInv'
<1>. SUFFICES ASSUME AckInv, Clean, MailInv, PastInv, [Next]_vars PROVE PastInv'
  OBVIOUS
<1>0. /\ DOMAIN past = Procs /\ \A p \in Procs : Stuck(p)
      /\ \A p \in Procs : batch[p] # {} => pc[p] = "fetch"
      /\ txn \in [Procs -> Transactions] /\ DOMAIN mem = Procs
  BY MailFacts DEF PastInv, AtDesk, AckInv, StoreInv
<1>1. ASSUME NEW p \in Procs, NEW k \in Keys, NEW e, NEW raised \in BOOLEAN,
             backend # "sqlite" => p = Solo, Change(p, k, e, raised),
             batch[p] = {}, UNCHANGED <<batch, handed, past>>,
             \A q \in Procs \ {p} : todo'[q] = todo[q]
      PROVE  PastInv'
  <2>1. backend' = backend /\ \A q \in Procs \ {p} : mem'[q] = mem[q] /\ txn'[q] = txn[q]
    BY <1>1, ChangeSpreads DEF AckInv, Change
  <2>2. Stuck(p)'
    BY <1>0, <1>1 DEF Stuck
  <2>. QED
    BY <1>0, <1>1, <2>1, <2>2, PastStays
<1>2. ASSUME NEW p \in Procs, UNCHANGED store \/ Reads(p), batch[p] = {},
             UNCHANGED <<batch, handed, past>>, \A q \in Procs \ {p} : todo'[q] = todo[q]
      PROVE  PastInv'
  <2>1. backend' = backend /\ \A q \in Procs \ {p} : mem'[q] = mem[q] /\ txn'[q] = txn[q]
    BY <1>2, ReadsKeeps DEF AckInv, store
  <2>2. Stuck(p)'
    BY <1>0, <1>2 DEF Stuck
  <2>. QED
    BY <1>0, <1>2, <2>1, <2>2, PastStays
<1>3. ASSUME NEW p \in Procs, NEW raised \in BOOLEAN, NEW k \in Notes, NEW v \in Values,
             NEW e \in Expiries, Write(p, k, v, e, raised)
      PROVE  PastInv'
  BY <1>0, <1>1, <1>3 DEF Write, Starts, local, ghosts
<1>4. ASSUME NEW p \in Procs, NEW raised \in BOOLEAN, NEW k \in Keys, Delete(p, k, raised),
             backend # "sqlite" => p = Solo, batch[p] = {}, UNCHANGED <<batch, handed, past>>,
             \A q \in Procs \ {p} : todo'[q] = todo[q]
      PROVE  PastInv'
  BY <1>1, <1>2, <1>4 DEF Delete
<1>5. ASSUME NEW p \in Procs, NEW raised \in BOOLEAN, NEW k \in Keys,
             (k \in Notes /\ Forget(p, k, raised)) \/ SweepDelete(p, k, raised)
      PROVE  PastInv'
  <2>1. /\ Delete(p, k, raised) /\ (backend # "sqlite" => p = Solo) /\ batch[p] = {}
        /\ UNCHANGED <<batch, handed, past>> /\ \A q \in Procs \ {p} : todo'[q] = todo[q]
    BY <1>0, <1>5, MailFacts DEF Forget, SweepDelete, Starts, local, ghosts
  <2>. QED
    BY <1>4, <2>1
<1>6. ASSUME NEW p \in Procs, NEW raised \in BOOLEAN, NEW t \in Topics, Emit(p, t, raised)
      PROVE  PastInv'
  BY <1>0, <1>1, <1>6 DEF Emit, Starts, local
<1>7. ASSUME NEW p \in Procs, NEW raised \in BOOLEAN, ReinforceWrite(p, raised)
      PROVE  PastInv'
  <2>1. topic[p] \in Keys /\ (backend # "sqlite" => p = Solo) /\ batch[p] = {}
    BY <1>0, <1>7, MailFacts DEF ReinforceWrite, AckInv
  <2>. QED
    BY <1>0, <1>1, <1>7, <2>1 DEF ReinforceWrite
<1>8. ASSUME NEW p \in Procs, NEW raised \in BOOLEAN, NEW m \in Messages, Send(p, m, raised)
      PROVE  PastInv'
  BY <1>0, <1>1, <1>8 DEF Send, Starts, local
<1>9. ASSUME NEW p \in Procs, NEW raised \in BOOLEAN, NEW m \in Messages, FetchMark(p, m, raised)
      PROVE  PastInv'
  <2>1. PICK e :
        /\ pc[p] = "fetch" /\ Change(p, m, e, raised) /\ handed' = handed /\ m \in Keys
        /\ backend # "sqlite" => p = Solo
        /\ \A q \in Procs \ {p} : batch'[q] = batch[q] /\ todo'[q] = todo[q] /\ past'[q] = past[q]
        /\ DOMAIN past' = Procs
        /\ IF raised THEN past'[p] = {} ELSE batch' = batch /\ past' = past
    BY <1>0, <1>9, MailFacts DEF FetchMark
  <2>2. backend' = backend /\ \A q \in Procs \ {p} : mem'[q] = mem[q] /\ txn'[q] = txn[q]
    BY <2>1, ChangeSpreads DEF AckInv, Change
  <2>3. Stuck(p)'
    <3>1. CASE raised
      BY <2>1, <3>1 DEF Stuck
    <3>2. CASE ~raised
      <4>1. SUFFICES ASSUME NEW n \in batch[p] \cap past[p] PROVE FALSE
        BY <1>0, <2>1, <3>2, <4>1 DEF Stuck
      <4>2. /\ backend = "sqlite" /\ txn[p] = "reads" /\ ~Flagged(mem[p][n])
            /\ n \in Messages \cap handed
        BY <1>0, MailFacts DEF Stuck
      <4>3. Flagged(file[n])
        BY <4>2 DEF MailInv, Marks, Marked
      <4>4. ~MayWrite(p)
        BY <4>2, <4>3 DEF MayWrite
      <4>5. TableChange(p, m, e, raised)
        BY <2>1, <4>2 DEF Change, DictChange, FileChange
      <4>. QED
        BY <3>2, <4>4, <4>5 DEF TableChange, TableStores
    <3>. QED
      BY <3>1, <3>2
  <2>. QED
    BY <2>1, <2>2, <2>3, PastStays
<1>10. ASSUME NEW p \in Procs, NEW t \in Topics, ReinforceLoad(p, t) PROVE PastInv'
  BY <1>0, <1>2, <1>10 DEF ReinforceLoad, Starts
<1>11. ASSUME NEW p \in Procs, NEW keys \in SUBSET Keys, Sweep(p, keys) PROVE PastInv'
  <2>1. /\ Reads(p) /\ batch[p] = {} /\ UNCHANGED <<batch, handed, past>>
        /\ \A q \in Procs \ {p} : todo'[q] = todo[q]
    BY <1>0, <1>11, MailFacts DEF Sweep, Starts, ghosts
  <2>. QED
    BY <1>2, <2>1
<1>12. ASSUME NEW p \in Procs, Evaporate(p) \/ PruneExpired(p) PROVE PastInv'
  BY <1>11, <1>12 DEF Evaporate, PruneExpired, Expired
<1>13. ASSUME NEW p \in Procs, FetchScan(p) PROVE PastInv'
  <2>1. /\ Reads(p) /\ handed' = handed /\ DOMAIN past' = Procs /\ past'[p] = handed
        /\ batch'[p] = Unread(p) /\ todo'[p] = Unread(p)
        /\ \A q \in Procs \ {p} : batch'[q] = batch[q] /\ todo'[q] = todo[q] /\ past'[q] = past[q]
    BY <1>0, <1>13, MailFacts DEF FetchScan
  <2>2. backend' = backend /\ \A q \in Procs \ {p} : mem'[q] = mem[q] /\ txn'[q] = txn[q]
    BY <2>1, ReadsKeeps DEF AckInv
  <2>3. ASSUME NEW m \in Unread(p) \cap handed
        PROVE  backend = "sqlite" /\ txn[p] = "reads" /\ ~Flagged(mem[p][m])
    <3>1. m \in Messages /\ View(p)[m] # NoEntry /\ ~View(p)[m].value
      BY DEF Unread, Readable, Holds
    <3>2. PICK f : f = View(p)[m] /\ ~Flagged(f)
      <4>1. View(p)[m].value # TRUE
        BY <3>1
      <4>. QED
        BY <3>1, <4>1 DEF Flagged
    <3>3. /\ Flagged(file[m])
          /\ Flagged(mem[p][m]) \/ (backend = "sqlite" /\ txn[p] = "reads")
      BY <3>1 DEF MailInv, Marks, Marked
    <3>4. f = mem[p][m]
      BY <3>2, <3>3 DEF View
    <3>. QED
      BY <3>2, <3>3, <3>4
  <2>4. \A m \in Unread(p) \cap handed : txn'[p] = "reads" /\ mem'[p] = mem[p]
    BY <2>1, <2>3 DEF Reads
  <2>5. Stuck(p)'
    BY <2>1, <2>2, <2>3, <2>4 DEF Stuck, Flagged
  <2>. QED
    BY <2>1, <2>2, <2>5, PastStays
<1>14. ASSUME NEW p \in Procs, FetchReturn(p) PROVE PastInv'
  <2>1. /\ UNCHANGED <<store, todo>> /\ handed \subseteq handed' /\ DOMAIN past' = Procs
        /\ past'[p] = {}
        /\ \A q \in Procs \ {p} : batch'[q] = batch[q] /\ past'[q] = past[q]
    BY <1>0, <1>14, MailFacts DEF FetchReturn
  <2>2. Stuck(p)'
    BY <2>1 DEF Stuck
  <2>. QED
    BY <2>1, <2>2, PastStays DEF store
<1>15. ASSUME NEW p \in Procs, Crash(p) PROVE PastInv'
  <2>1. /\ handed' = handed /\ DOMAIN past' = Procs /\ past'[p] = {} /\ backend' = backend
        /\ \A q \in Procs \ {p} : batch'[q] = batch[q] /\ past'[q] = past[q] /\ todo'[q] = todo[q]
        /\ \A q \in Procs \ {p} : mem'[q] = mem[q] /\ txn'[q] = txn[q]
    BY <1>0, <1>15, MailFacts DEF Crash, Restart
  <2>2. Stuck(p)'
    BY <2>1 DEF Stuck
  <2>. QED
    BY <2>1, <2>2, PastStays
<1>16. ASSUME NEW p \in Procs, Look(p) PROVE PastInv'
  BY <1>0, <1>2, <1>16 DEF Look, local, ghosts
<1>17. ASSUME Tick \/ UNCHANGED vars PROVE PastInv'
  <2>1. UNCHANGED <<backend, mem, txn, todo, batch, handed, past>>
    BY <1>17 DEF Tick, vars, store, local, ghosts
  <2>. QED
    BY <2>1 DEF PastInv, Stuck, Flagged
<1>. QED
  BY <1>3, <1>5, <1>6, <1>7, <1>8, <1>9, <1>10, <1>12, <1>13, <1>14, <1>15, <1>16, <1>17 DEF Next

(* The store and the mail, throughout.                                      *)
LEMMA InboxAlways == Spec => [](AckInv /\ Clean /\ MailInv /\ PastInv)
  BY InboxFirst, InboxStep, PastFirst, PastStep, TrailAlways, PTL DEF Spec

(* What a process holds of the shared memory is its own: it belongs to the   *)
(* call it is in, and only SQLite has a second user (Mycelium).              *)
THEOREM SubstrateInvHolds == Spec => []SubstrateInv
<1>1. AckInv /\ MailInv => SubstrateInv
  BY MailFacts DEF SubstrateInv, AtDesk, AckInv, StoreInv
<1>. QED
  BY <1>1, InboxAlways, PTL

(* A fetch returns no message that another had returned when it began, and   *)
(* one that is flagged was returned, is in a fetch under way, or was lost    *)
(* with a fetch that raised or died (Postbox.fetch, mark_read).              *)
THEOREM MailKeptHolds == Spec => []MailKept
<1>1. AckInv /\ MailInv => LostForCause
  <2>. SUFFICES ASSUME AckInv, MailInv, NEW p \in Procs, NEW m \in Messages,
                       Holds(p, m), View(p)[m].value
                PROVE  m \in Taken
    BY DEF LostForCause, Taken
  <2>1. View(p)[m] = file[m] \/ View(p)[m] = mem[p][m]
    BY DEF View
  <2>2. Told(m, View(p)[m]) /\ View(p)[m] # NoEntry
    BY <2>1, MailFacts DEF Copies, Holds
  <2>3. View(p)[m].value = TRUE
    BY <2>2 DEF Told
  <2>. QED
    BY <2>2, <2>3 DEF Told
<1>2. PastInv => NoRedelivery
  BY DEF PastInv, Stuck, NoRedelivery
<1>. QED
  BY <1>1, <1>2, InboxAlways, PTL DEF MailKept

HIDE SubstrateAssumption

-------------------------------------------------------------------------------
(* Threads.                                                                  *)
(*                                                                           *)
(* A message is in reply to an older one, so each has an opening; links do   *)
(* not leave a conversation (SameOpening), and a set that links do not leave *)
(* has its opening and then all that came of it, oldest first.               *)

MailSpec == MailInit /\ [][MailNext]_mailVars

LetterKinds == [from : Members, to : Members, re : Nat]

\* The recipients and the senders are nodes, and nothing answers a later message.
Linear(ls) ==
  /\ ls \in Seq(LetterKinds)
  /\ \A x \in 1..Len(ls) : ls[x].re < x

LEMMA LeastElement ==
  ASSUME NEW S \in SUBSET Nat, S # {}
  PROVE  \E n \in S : \A m \in S : n <= m
<1>1. PICK n \in S : \A m \in S : ~(<<m, n>> \in OpToRel(<, Nat))
  BY NatLessThanWellFounded, WFMin, Zenon
<1>2. \A m \in S : ~(m < n)
  BY <1>1 DEF OpToRel
<1>. QED
  BY <1>2

LEMMA LettersFacts ==
  ASSUME NEW ls, Linear(ls)
  PROVE  /\ Len(ls) \in Nat /\ DOMAIN ls = 1..Len(ls)
         /\ \A x \in 1..Len(ls) : /\ x \in Nat \ {0} /\ ls[x].re \in Nat /\ ls[x].re < x
                                  /\ ls[x].from \in Members /\ ls[x].to \in Members
                                  /\ ls[x].re # 0 => ls[x].re \in 1..Len(ls)
<1>1. /\ Len(ls) \in Nat /\ DOMAIN ls = 1..Len(ls)
      /\ \A x \in 1..Len(ls) : ls[x] \in LetterKinds /\ ls[x].re < x
  BY LenProperties, ElementOfSeq DEF Linear
<1>2. \A x \in 1..Len(ls) : ls[x].re \in Nat /\ ls[x].from \in Members /\ ls[x].to \in Members
  BY <1>1 DEF LetterKinds
<1>. QED
  BY <1>1, <1>2

\* The openings of the first n messages solve the equation of Origins.
LEMMA OriginsSolved ==
  ASSUME NEW ls, Linear(ls)
  PROVE  Origins(ls) = [x \in DOMAIN ls |-> IF ls[x].re = 0 THEN x ELSE Origins(ls)[ls[x].re]]
<1>. DEFINE L == Len(ls)
            Solves(p, n) == p = [x \in 1..n |-> IF ls[x].re = 0 THEN x ELSE p[ls[x].re]]
            S == {n \in Nat : n <= L /\ ~\E p : Solves(p, n)}
<1>0. L \in Nat /\ DOMAIN ls = 1..L /\ \A x \in 1..L : ls[x].re \in Nat /\ ls[x].re < x
  BY LettersFacts
<1>. HIDE DEF L
<1>1. ASSUME S # {} PROVE FALSE
  <2>1. PICK l \in S : \A m \in S : l <= m
    BY <1>1, LeastElement
  <2>2. l \in Nat /\ l <= L /\ ~\E p : Solves(p, l)
    BY <2>1
  <2>3. l # 0
    <3>1. Solves([x \in 1..0 |-> 0], 0)
      OBVIOUS
    <3>. QED
      BY <2>2, <3>1
  <2>. DEFINE n == l - 1
  <2>4. n \in Nat /\ n < l /\ n <= L /\ n \notin S
    BY <1>0, <2>1, <2>2, <2>3
  <2>5. PICK p : Solves(p, n)
    BY <2>4
  <2>. DEFINE q == [x \in 1..l |-> IF x = l THEN IF ls[l].re = 0 THEN l ELSE p[ls[l].re] ELSE p[x]]
  <2>6. \A x \in 1..l : /\ ls[x].re # 0 => ls[x].re \in 1..n /\ ls[x].re \in 1..l /\ ls[x].re # l
                        /\ x # l => x \in 1..n /\ q[x] = p[x]
    BY <1>0, <2>2, <2>4
  <2>7. \A x \in 1..n : p[x] = IF ls[x].re = 0 THEN x ELSE p[ls[x].re]
    BY <2>5
  <2>8. \A x \in 1..l : ls[x].re # 0 => q[ls[x].re] = p[ls[x].re]
    BY <2>6
  <2>9. \A x \in 1..l : q[x] = IF ls[x].re = 0 THEN x ELSE q[ls[x].re]
    <3>. TAKE x \in 1..l
    <3>1. CASE x = l
      BY <2>8, <3>1
    <3>2. CASE x # l
      BY <2>6, <2>7, <2>8, <3>2
    <3>. QED
      BY <3>1, <3>2
  <2>10. q = [x \in 1..l |-> q[x]]
    OBVIOUS
  <2>. HIDE DEF q
  <2>11. Solves(q, l)
    BY <2>9, <2>10
  <2>. QED
    BY <2>2, <2>11
<1>2. \E p : Solves(p, L)
  BY <1>0, <1>1
<1>3. \E p : p = [x \in DOMAIN ls |-> IF ls[x].re = 0 THEN x ELSE p[ls[x].re]]
  BY <1>0, <1>2
<1>. QED
  BY <1>3, Zenon DEF Origins

LEMMA OpeningOf ==
  ASSUME NEW ls, Linear(ls), NEW x \in DOMAIN ls
  PROVE  /\ ls[x].re = 0 => Origins(ls)[x] = x
         /\ ls[x].re # 0 => Origins(ls)[x] = Origins(ls)[ls[x].re]
BY OriginsSolved

\* The walk, over a mailbox in which nothing answers a later message.
LEMMA ThreadIsWhole == ASSUME Linear(letters) PROVE ThreadWhole
<1>. DEFINE Closed(S) == \A y \in S : Linked(y) \subseteq S
<1>0. /\ Len(letters) \in Nat /\ Letters = 1..Len(letters)
      /\ \A x \in Letters : /\ x \in Nat \ {0} /\ letters[x].re \in Nat /\ letters[x].re < x
                            /\ letters[x].re # 0 => letters[x].re \in Letters
  BY LettersFacts DEF Letters
<1>1. \A x \in Letters : /\ letters[x].re = 0 => Opening(x) = x
                         /\ letters[x].re # 0 => Opening(x) = Opening(letters[x].re)
  BY OpeningOf DEF Opening, Letters
\* SameOpening: a link stays within the conversation.
<1>2. ASSUME NEW y \in Letters, NEW x \in Linked(y)
      PROVE  x \in Letters /\ Opening(x) = Opening(y)
  <2>1. (x = letters[y].re /\ x # 0) \/ (x \in Letters /\ letters[x].re = y)
    BY DEF Linked
  <2>2. y # 0
    BY <1>0
  <2>. QED
    BY <1>0, <1>1, <2>1, <2>2
<1>3. ASSUME NEW S \in SUBSET Letters, Closed(S), NEW m \in S PROVE Opening(m) \in S
  <2>. DEFINE T == {x \in Letters : x \in S /\ Opening(x) = Opening(m)}
  <2>1. T \in SUBSET Nat /\ T # {}
    BY <1>0, <1>3
  <2>2. PICK l \in T : \A k \in T : l <= k
    BY <2>1, LeastElement
  <2>3. l \in Letters /\ l \in S /\ Opening(l) = Opening(m)
    BY <2>2
  <2>4. CASE letters[l].re = 0
    BY <1>1, <2>3, <2>4
  <2>5. CASE letters[l].re # 0
    <3>1. letters[l].re \in Linked(l)
      BY <2>5 DEF Linked
    <3>2. letters[l].re \in T /\ letters[l].re < l /\ letters[l].re \in Nat /\ l \in Nat
      BY <1>0, <1>2, <1>3, <2>3, <3>1
    <3>. QED
      BY <2>2, <3>2
  <2>. QED
    BY <2>4, <2>5
<1>4. ASSUME NEW S \in SUBSET Letters, Closed(S), NEW o \in S, NEW x \in Letters, Opening(x) = o
      PROVE  x \in S
  <2>. DEFINE T == {y \in Letters : Opening(y) = o /\ y \notin S}
  <2>1. SUFFICES ASSUME T # {} PROVE FALSE
    BY <1>4
  <2>2. PICK l \in T : \A k \in T : l <= k
    BY <1>0, <2>1, LeastElement
  <2>3. l \in Letters /\ l \notin S /\ Opening(l) = o
    BY <2>2
  <2>4. letters[l].re # 0
    BY <1>1, <2>3
  <2>. DEFINE r == letters[l].re
  <2>5. r \in Letters /\ r < l /\ r \in Nat /\ l \in Nat /\ Opening(r) = o
    BY <1>0, <1>1, <2>3, <2>4
  <2>6. l \in Linked(r)
    BY <2>3 DEF Linked
  <2>7. r \notin S
    BY <1>4, <2>3, <2>6
  <2>8. r \in T
    BY <2>5, <2>7
  <2>. QED
    BY <2>2, <2>5, <2>8
<1>5. ASSUME NEW m \in Letters PROVE Thread(m) = {x \in Letters : Opening(x) = Opening(m)}
  <2>. DEFINE C == {x \in Letters : Opening(x) = Opening(m)}
  <2>1. C \in SUBSET Letters /\ m \in C /\ Closed(C)
    BY <1>2
  <2>2. Thread(m) \subseteq C
    BY <2>1 DEF Thread
  <2>3. ASSUME NEW x \in C, NEW S \in SUBSET Letters, m \in S, Closed(S) PROVE x \in S
    <3>1. Opening(m) \in S
      BY <1>3, <2>3
    <3>. QED
      BY <1>4, <2>3, <3>1
  <2>4. C \subseteq Thread(m)
    BY <2>3 DEF Thread
  <2>. QED
    BY <2>2, <2>4
<1>. QED
  BY <1>5 DEF ThreadWhole

LEMMA PostsKeeps ==
  ASSUME Linear(letters), NEW from \in Members, NEW to \in Members, NEW re \in Letters \cup {0},
         Posts(from, to, re)
  PROVE  Linear(letters')
<1>1. PICK e : e = [from |-> from, to |-> to, re |-> re]
  OBVIOUS
<1>2. PICK n : n = Len(letters)
  OBVIOUS
<1>3. n \in Nat /\ Letters = 1..n /\ letters \in Seq(LetterKinds) /\ \A x \in 1..n : letters[x].re < x
  BY <1>2, LettersFacts DEF Letters, Linear
<1>4. re \in Nat /\ re < n + 1 /\ e \in LetterKinds /\ e.re = re
  BY <1>1, <1>3 DEF LetterKinds
<1>5. letters' = Append(letters, e)
  BY <1>1 DEF Posts
<1>6. /\ letters' \in Seq(LetterKinds) /\ Len(letters') = n + 1
      /\ letters'[n + 1] = e /\ \A x \in 1..n : letters'[x] = letters[x]
  BY <1>2, <1>3, <1>4, <1>5, AppendProperties
<1>7. \A x \in 1..(n + 1) : x = n + 1 \/ x \in 1..n
  BY <1>3
<1>. QED
  BY <1>3, <1>4, <1>6, <1>7 DEF Linear

(* A thread is the whole conversation of a message and nothing else, however *)
(* it branched and whoever is asked, for any nodes and any number of letters *)
(* sent by hand, by the tool or in reply (Postbox.thread).                   *)
THEOREM ThreadWholeHolds == MailSpec => []ThreadWhole
<1>1. MailInit => Linear(letters)
  BY DEF MailInit, Linear
<1>2. Linear(letters) /\ [MailNext]_mailVars => Linear(letters')
  <2>. SUFFICES ASSUME Linear(letters), [MailNext]_mailVars PROVE Linear(letters')
    OBVIOUS
  <2>1. CASE UNCHANGED letters
    BY <2>1
  <2>2. ASSUME NEW n \in Members, NEW to \in Members, NEW re \in Letters \cup {0}, SendByHand(n, to, re)
        PROVE  Linear(letters')
    BY <2>2, PostsKeeps DEF SendByHand
  <2>3. ASSUME NEW m \in Letters, Reply(m) PROVE Linear(letters')
    <3>1. letters[m].to \in Members /\ letters[m].from \in Members
      BY LettersFacts DEF Letters
    <3>. QED
      BY <2>3, <3>1, PostsKeeps DEF Reply
  <2>4. ASSUME NEW n \in Members, ToolCalled(n) PROVE Linear(letters')
    <3>1. ASSUME NEW to \in Addressees, Posts(n, to, 0) PROVE Linear(letters')
      BY <3>1, MailroomAssumption, PostsKeeps
    <3>. QED
      BY <2>1, <2>4, <3>1 DEF ToolCalled
  <2>. QED
    BY <2>1, <2>2, <2>3, <2>4 DEF MailNext, mailVars, NewTurn
<1>3. ASSUME Linear(letters) PROVE ThreadWhole
  BY <1>3, ThreadIsWhole
<1>4. Linear(letters) => ThreadWhole
  BY <1>3
<1>. DEFINE I == Linear(letters)
<1>5. I /\ [MailNext]_mailVars => I'
  BY <1>2
<1>. HIDE DEF I
<1>6. MailInit => I
  BY <1>1 DEF I
<1>7. I => ThreadWhole
  BY <1>4 DEF I
<1>. QED
  BY <1>5, <1>6, <1>7, PTL DEF MailSpec

-------------------------------------------------------------------------------
(* The connection of SharedConnection.                                       *)
(*                                                                         *)
(* What counts is what the next commit would make of the table (Seen): a    *)
(* record that was written and whose call has not returned is there, and so *)
(* is a lease that a claim under way has taken, unless a rollback of the    *)
(* heartbeat has dropped it, which undone then says.                        *)

ConnectionSpec == ConnectionInit /\ [][ConnectionNext]_connectionVars

Stops == {"quiet", "first", "second", "commit", "rollback"}
Doings == {"nothing", "write", "claim", "release", "sweep"}
Leases == {"free", "us", "them"}

WireTypes ==
  /\ strand \in [Strands -> [at : Stops, doing : Doings, took : BOOLEAN]]
  /\ strand["beat"].doing \in Claims \cup {"nothing"}
  /\ rows \in [record : Nat, lease : Leases]
  /\ draft \in [record : Nat, lease : Leases]
  /\ deeds \in Nat
  /\ locker => transaction # "locked"

RecordIsSafe ==
  /\ rows.record \in may /\ Seen.record \in may
  /\ strand["worker"].doing = "write" /\ strand["worker"].at = "commit" /\ "record" \notin undone =>
       Seen.record = deeds

TheirLease == "them" \in holding => rows.lease = "them" /\ Seen.lease = "them"

OurLease ==
  /\ "us" \in holding => strand["worker"].doing # "release"
  /\ "lease" \notin undone =>
       /\ "us" \in holding => rows.lease = "us" /\ Seen.lease = "us"
       /\ strand["worker"].doing = "claim" /\ strand["worker"].took = TRUE => Seen.lease = "us"

WireInv == WireTypes /\ RecordIsSafe /\ TheirLease /\ OurLease

LEMMA WireInit == ConnectionInit => WireInv
  BY DEF ConnectionInit, WireInv, WireTypes, RecordIsSafe, TheirLease, OurLease, Seen, Strands, Stops,
         Doings, Leases, Quiet, Claims

(* Where a thread is after a step, and that the other stays where it is.    *)
LEMMA MovedFacts ==
  ASSUME WireTypes, NEW s \in Strands, NEW at \in Stops, NEW took \in BOOLEAN, Moved(s, at, took)
  PROVE  /\ strand' \in [Strands -> [at : Stops, doing : Doings, took : BOOLEAN]]
         /\ strand'[s].at = at /\ strand'[s].doing = strand[s].doing /\ strand'[s].took = took
         /\ \A o \in Strands : o # s => strand'[o] = strand[o]
         /\ strand'["beat"].doing \in Claims \cup {"nothing"}
  BY DEF WireTypes, Moved, Strands

LEMMA QuietFacts ==
  ASSUME WireTypes, NEW s \in Strands, strand' = [strand EXCEPT ![s] = Quiet]
  PROVE  /\ strand' \in [Strands -> [at : Stops, doing : Doings, took : BOOLEAN]]
         /\ strand'[s].at = "quiet" /\ strand'[s].doing = "nothing" /\ strand'[s].took = FALSE
         /\ \A o \in Strands : o # s => strand'[o] = strand[o]
         /\ strand'["beat"].doing \in Claims \cup {"nothing"}
<1>1. Quiet \in [at : Stops, doing : Doings, took : BOOLEAN]
  BY DEF Quiet, Stops, Doings
<1>. QED
  BY <1>1 DEF WireTypes, Strands, Quiet

LEMMA StartFacts ==
  ASSUME WireTypes, NEW s \in Strands, NEW doing \in Doings, s = "beat" => doing \in Claims,
         strand' = [strand EXCEPT ![s] = [at |-> "first", doing |-> doing, took |-> FALSE]]
  PROVE  /\ strand' \in [Strands -> [at : Stops, doing : Doings, took : BOOLEAN]]
         /\ strand'[s].at = "first" /\ strand'[s].doing = doing /\ strand'[s].took = FALSE
         /\ \A o \in Strands : o # s => strand'[o] = strand[o]
         /\ strand'["beat"].doing \in Claims \cup {"nothing"}
<1>1. [at |-> "first", doing |-> doing, took |-> FALSE] \in [at : Stops, doing : Doings, took : BOOLEAN]
  BY DEF Stops
<1>. QED
  BY <1>1 DEF WireTypes, Strands

(* What a statement does to what is seen.                                    *)
LEMMA StatementFacts ==
  ASSUME WireTypes, NEW s \in Strands, NEW at \in Stops, NEW took \in BOOLEAN,
         NEW change \in [record : Nat, lease : Leases], Statement(s, at, change, took)
  PROVE  /\ WireTypes' /\ Seen' = change
         /\ UNCHANGED <<rows, holding, deeds>>
         /\ strand'[s].at = at /\ strand'[s].doing = strand[s].doing /\ strand'[s].took = took
         /\ \A o \in Strands : o # s => strand'[o] = strand[o]
<1>1. Moved(s, at, took) /\ ~locker' /\ transaction' = "locked" /\ draft' = change
      /\ UNCHANGED <<rows, holding, deeds>>
  BY DEF Statement
<1>. QED
  BY <1>1, MovedFacts DEF WireTypes, Seen

LEMMA SeenTyped == ASSUME WireTypes PROVE Seen \in [record : Nat, lease : Leases]
  BY DEF WireTypes, Seen

LEMMA WorkerCallsKeeps ==
  ASSUME WireInv, NEW doing \in {"write", "claim", "release"}, WorkerCalls(doing)
  PROVE  WireInv'
<1>1. WireTypes /\ "worker" \in Strands /\ doing \in Doings /\ "worker" # "beat"
  BY DEF WireInv, Strands, Doings
<1>2. UNCHANGED <<rows, draft, transaction, locker, beats, may>> /\ deeds' = deeds + 1
      /\ strand' = [strand EXCEPT !["worker"] = [at |-> "first", doing |-> doing, took |-> FALSE]]
      /\ IF doing = "release"
         THEN holding' = holding \ {"us"} /\ undone' = undone \ {"lease"}
         ELSE UNCHANGED <<holding, undone>>
  BY DEF WorkerCalls
<1>3. /\ strand' \in [Strands -> [at : Stops, doing : Doings, took : BOOLEAN]]
      /\ strand'["worker"].at = "first" /\ strand'["worker"].doing = doing /\ strand'["worker"].took = FALSE
      /\ strand'["beat"].doing \in Claims \cup {"nothing"}
  BY <1>1, <1>2, StartFacts
<1>4. Seen' = Seen
  BY <1>2 DEF Seen
<1>5. WireTypes'
  BY <1>1, <1>2, <1>3 DEF WireTypes
<1>6. RecordIsSafe'
  BY <1>2, <1>3, <1>4 DEF WireInv, RecordIsSafe
<1>7. TheirLease'
  BY <1>2, <1>4 DEF WireInv, TheirLease
<1>8. OurLease'
  BY <1>2, <1>3, <1>4 DEF WireInv, OurLease
<1>. QED
  BY <1>5, <1>6, <1>7, <1>8 DEF WireInv

LEMMA BeatsKeeps ==
  ASSUME WireInv, NEW doing \in Claims, Beats(doing)
  PROVE  WireInv'
<1>1. WireTypes /\ "worker" \in Strands /\ "beat" \in Strands /\ doing \in Doings /\ "worker" # "beat"
  BY DEF WireInv, Strands, Doings, Claims
<1>2. UNCHANGED <<rows, draft, transaction, locker, holding, deeds, may, undone>>
      /\ strand' = [strand EXCEPT !["beat"] = [at |-> "first", doing |-> doing, took |-> FALSE]]
  BY DEF Beats
<1>3. /\ strand' \in [Strands -> [at : Stops, doing : Doings, took : BOOLEAN]]
      /\ strand'["worker"] = strand["worker"]
      /\ strand'["beat"].doing \in Claims \cup {"nothing"}
  <2>1. PICK s \in Strands : s = "beat"
    BY <1>1
  <2>2. strand' = [strand EXCEPT ![s] = [at |-> "first", doing |-> doing, took |-> FALSE]]
    BY <2>1, <1>2
  <2>3. strand' \in [Strands -> [at : Stops, doing : Doings, took : BOOLEAN]]
    BY <2>1, <2>2, <1>1, StartFacts
  <2>4. \A o \in Strands : o # s => strand'[o] = strand[o]
    BY <2>1, <2>2, <1>1, StartFacts
  <2>5. strand'["beat"].doing \in Claims \cup {"nothing"}
    BY <2>1, <2>2, <1>1, StartFacts
  <2>. QED
    BY <2>1, <2>3, <2>4, <2>5, <1>1
<1>4. Seen' = Seen
  BY <1>2 DEF Seen
<1>. QED
  BY <1>1, <1>2, <1>3, <1>4 DEF WireInv, WireTypes, RecordIsSafe, TheirLease, OurLease

LEMMA StatementsKeep ==
  ASSUME WireInv, NEW s \in Strands,
         WriteRecord(s) \/ Deletes(s) \/ ClaimsAnother(s) \/ InsertLease(s) \/ UpdateLease(s)
  PROVE  WireInv'
<1>1. /\ WireTypes /\ Seen \in [record : Nat, lease : Leases] /\ {"worker", "beat"} = Strands
      /\ {"first", "second", "commit"} \subseteq Stops /\ strand[s].took \in BOOLEAN
      /\ "worker" # "beat"
  BY SeenTyped DEF WireInv, Strands, Stops, WireTypes
<1>2. s = "beat" => strand[s].doing \in Claims \cup {"nothing"}
  BY <1>1 DEF WireTypes
<1>3. CASE WriteRecord(s)
  <2>1. s = "worker" /\ strand[s].doing = "write"
    BY <1>1, <1>2, <1>3 DEF WriteRecord, Runs, Claims
  <2>2. PICK change \in [record : Nat, lease : Leases] :
          change.record = deeds /\ change.lease = Seen.lease /\ Statement(s, "commit", change, TRUE)
    BY <1>1, <1>3 DEF WriteRecord, WireTypes
  <2>3. /\ WireTypes' /\ Seen' = change /\ UNCHANGED <<rows, holding, deeds>>
        /\ strand'[s].at = "commit" /\ strand'[s].doing = strand[s].doing
    BY <2>2, <1>1, StatementFacts
  <2>4. may' = may \cup {deeds} /\ undone' = undone \ {"record"}
    BY <1>3 DEF WriteRecord
  <2>. QED
    BY <2>1, <2>2, <2>3, <2>4 DEF WireInv, RecordIsSafe, TheirLease, OurLease
<1>4. CASE Deletes(s)
  <2>1. s = "worker" /\ strand[s].doing = "release"
    BY <1>1, <1>2, <1>4 DEF Deletes, Runs, Claims
  <2>2. PICK change \in [record : Nat, lease : Leases] :
          /\ change.record = Seen.record /\ (Seen.lease # "us" => change.lease = Seen.lease)
          /\ Statement(s, "commit", change, TRUE)
    <3>1. "free" \in Leases
      BY DEF Leases
    <3>. QED
      BY <3>1, <1>1, <1>4 DEF Deletes
  <2>3. /\ WireTypes' /\ Seen' = change /\ UNCHANGED <<rows, holding, deeds>>
        /\ strand'[s].doing = strand[s].doing
    BY <2>2, <1>1, StatementFacts
  <2>4. UNCHANGED <<may, undone>>
    BY <1>4 DEF Deletes
  <2>. QED
    BY <2>1, <2>2, <2>3, <2>4 DEF WireInv, RecordIsSafe, TheirLease, OurLease
<1>5. CASE ClaimsAnother(s)
  <2>1. PICK at \in {"first", "second"} :
          Runs(s, "sweep", at) /\ Statement(s, IF at = "first" THEN "second" ELSE "commit", Seen, FALSE)
          /\ UNCHANGED <<may, undone>>
    BY <1>5 DEF ClaimsAnother
  <2>2. PICK stop \in Stops : Statement(s, stop, Seen, FALSE)
    BY <2>1, <1>1
  <2>3. /\ WireTypes' /\ Seen' = Seen /\ UNCHANGED <<rows, holding, deeds>>
        /\ strand'[s].doing = strand[s].doing
        /\ \A o \in Strands : o # s => strand'[o] = strand[o]
    BY <2>2, <1>1, StatementFacts
  <2>4. CASE s = "worker"
    BY <2>1, <2>3, <2>4 DEF WireInv, RecordIsSafe, TheirLease, OurLease, Runs
  <2>5. CASE s = "beat"
    BY <2>1, <2>3, <2>5, <1>1 DEF WireInv, RecordIsSafe, TheirLease, OurLease
  <2>. QED
    BY <2>4, <2>5, <1>1
<1>6. CASE InsertLease(s)
  <2>1. PICK change \in [record : Nat, lease : Leases] :
          /\ change.record = Seen.record /\ change.lease = IF Seen.lease = "free" THEN "us" ELSE Seen.lease
          /\ Statement(s, "second", change, Seen.lease = "free")
    <3>1. "us" \in Leases
      BY DEF Leases
    <3>. QED
      BY <3>1, <1>1, <1>6 DEF InsertLease
  <2>2. PICK took \in BOOLEAN : took = (Seen.lease = "free")
    OBVIOUS
  <2>3. /\ WireTypes' /\ Seen' = change /\ UNCHANGED <<rows, holding, deeds>>
        /\ strand'[s].doing = strand[s].doing /\ strand'[s].at = "second" /\ strand'[s].took = took
        /\ \A o \in Strands : o # s => strand'[o] = strand[o]
    BY <2>1, <2>2, <1>1, StatementFacts
  <2>4. UNCHANGED <<may, undone>> /\ strand[s].doing = "claim"
    BY <1>6 DEF InsertLease, Runs
  <2>5. CASE s = "worker"
    BY <2>1, <2>2, <2>3, <2>4, <2>5 DEF WireInv, RecordIsSafe, TheirLease, OurLease
  <2>6. CASE s = "beat"
    BY <2>1, <2>3, <2>4, <2>6, <1>1 DEF WireInv, RecordIsSafe, TheirLease, OurLease
  <2>. QED
    BY <2>5, <2>6, <1>1
<1>7. CASE UpdateLease(s)
  <2>1. PICK took \in BOOLEAN : took = (strand[s].took \/ Seen.lease = "us")
    OBVIOUS
  <2>2. Statement(s, "commit", Seen, took)
    BY <2>1, <1>7 DEF UpdateLease
  <2>3. /\ WireTypes' /\ Seen' = Seen /\ UNCHANGED <<rows, holding, deeds>>
        /\ strand'[s].doing = strand[s].doing /\ strand'[s].took = took
        /\ \A o \in Strands : o # s => strand'[o] = strand[o]
    BY <2>2, <1>1, StatementFacts
  <2>4. UNCHANGED <<may, undone>> /\ strand[s].doing = "claim"
    BY <1>7 DEF UpdateLease, Runs
  <2>5. CASE s = "worker"
    BY <2>1, <2>3, <2>4, <2>5, <1>1 DEF WireInv, RecordIsSafe, TheirLease, OurLease
  <2>6. CASE s = "beat"
    BY <2>3, <2>4, <2>6, <1>1 DEF WireInv, RecordIsSafe, TheirLease, OurLease
  <2>. QED
    BY <2>5, <2>6, <1>1
<1>. QED
  BY <1>3, <1>4, <1>5, <1>6, <1>7

LEMMA BusyKeeps ==
  ASSUME WireInv, NEW s \in Strands, Busy(s)
  PROVE  WireInv'
<1>1. WireTypes /\ {"worker", "beat"} = Strands /\ "worker" # "beat" /\ {"rollback", "quiet"} \subseteq Stops
  BY DEF WireInv, Strands, Stops
<1>2. UNCHANGED <<rows, draft, locker, holding, deeds, beats, may, undone>> /\ transaction # "locked"
      /\ transaction' = "begun"
  BY DEF Busy
<1>3. PICK stop \in Stops : Moved(s, stop, FALSE) /\ stop # "commit"
  BY <1>1 DEF Busy
<1>4. /\ strand' \in [Strands -> [at : Stops, doing : Doings, took : BOOLEAN]]
      /\ strand'[s].at = stop /\ strand'[s].doing = strand[s].doing /\ strand'[s].took = FALSE
      /\ \A o \in Strands : o # s => strand'[o] = strand[o]
      /\ strand'["beat"].doing \in Claims \cup {"nothing"}
  BY <1>1, <1>3, MovedFacts
<1>5. Seen' = Seen
  BY <1>2 DEF Seen
<1>6. WireTypes'
  BY <1>1, <1>2, <1>4 DEF WireTypes
<1>7. CASE s = "worker"
  BY <1>2, <1>3, <1>4, <1>5, <1>6, <1>7 DEF WireInv, RecordIsSafe, TheirLease, OurLease
<1>8. CASE s = "beat"
  BY <1>1, <1>2, <1>4, <1>5, <1>6, <1>8 DEF WireInv, RecordIsSafe, TheirLease, OurLease
<1>. QED
  BY <1>1, <1>7, <1>8

LEMMA CommitsKeeps ==
  ASSUME WireInv, NEW s \in Strands, Commits(s)
  PROVE  WireInv'
<1>1. WireTypes /\ {"worker", "beat"} = Strands /\ "worker" # "beat"
  BY DEF WireInv, Strands
<1>2. /\ UNCHANGED <<draft, locker, deeds, undone>> /\ transaction' = "none" /\ rows' = Seen
      /\ strand' = [strand EXCEPT ![s] = Quiet] /\ strand[s].at = "commit"
      /\ may' = IF strand[s].doing = "write" /\ "record" \notin undone THEN {deeds} ELSE may
      /\ holding' = IF s = "worker" /\ strand[s].doing = "claim" /\ strand[s].took
                    THEN holding \cup {"us"} ELSE holding
  BY DEF Commits, Returns, Seen
<1>3. Seen' = Seen
  BY <1>2 DEF Seen
<1>4. /\ strand' \in [Strands -> [at : Stops, doing : Doings, took : BOOLEAN]]
      /\ strand'[s].at = "quiet" /\ strand'[s].doing = "nothing" /\ strand'[s].took = FALSE
      /\ \A o \in Strands : o # s => strand'[o] = strand[o]
      /\ strand'["beat"].doing \in Claims \cup {"nothing"}
  BY <1>1, <1>2, QuietFacts
<1>5. WireTypes'
  BY <1>1, <1>2, <1>4, SeenTyped DEF WireTypes
<1>6. strand[s].took \in BOOLEAN /\ (s = "beat" => strand[s].doing # "write")
  BY <1>1 DEF WireTypes, Claims
<1>7. CASE s = "worker"
  <2>1. RecordIsSafe'
    BY <1>2, <1>3, <1>4, <1>7 DEF WireInv, RecordIsSafe
  <2>2. CASE strand[s].doing = "claim" /\ strand[s].took = TRUE
    BY <1>2, <1>3, <1>4, <1>5, <1>7, <2>1, <2>2 DEF WireInv, TheirLease, OurLease
  <2>3. CASE ~(strand[s].doing = "claim" /\ strand[s].took = TRUE)
    <3>1. holding' = holding
      BY <1>2, <1>6, <2>3
    <3>. QED
      BY <1>2, <1>3, <1>4, <1>5, <1>7, <2>1, <3>1 DEF WireInv, TheirLease, OurLease
  <2>. QED
    BY <2>2, <2>3
<1>8. CASE s = "beat"
  <2>1. holding' = holding /\ may' = may /\ strand'["worker"] = strand["worker"]
    BY <1>1, <1>2, <1>4, <1>6, <1>8
  <2>. QED
    BY <2>1, <1>2, <1>3, <1>5 DEF WireInv, RecordIsSafe, TheirLease, OurLease
<1>. QED
  BY <1>1, <1>7, <1>8

LEMMA RollsBackKeeps ==
  ASSUME WireInv, NEW s \in Strands, RollsBack(s)
  PROVE  WireInv'
<1>1. WireTypes /\ {"worker", "beat"} = Strands /\ "worker" # "beat"
  BY DEF WireInv, Strands
<1>2. /\ UNCHANGED <<rows, draft, locker, holding, deeds, beats, may>> /\ transaction' = "none"
      /\ strand' = [strand EXCEPT ![s] = Quiet] /\ undone \subseteq undone'
      /\ s = "beat" /\ transaction = "locked" /\ draft.record # rows.record => "record" \in undone'
      /\ s = "beat" /\ transaction = "locked" /\ draft.lease # rows.lease
           /\ strand["worker"].doing = "claim" => "lease" \in undone'
  BY DEF RollsBack
<1>3. Seen' = rows /\ (transaction # "locked" => Seen = rows) /\ (transaction = "locked" => Seen = draft)
  BY <1>2 DEF Seen
<1>4. /\ strand' \in [Strands -> [at : Stops, doing : Doings, took : BOOLEAN]]
      /\ strand'[s].at = "quiet" /\ strand'[s].doing = "nothing" /\ strand'[s].took = FALSE
      /\ \A o \in Strands : o # s => strand'[o] = strand[o]
      /\ strand'["beat"].doing \in Claims \cup {"nothing"}
  BY <1>1, <1>2, QuietFacts
<1>5. WireTypes'
  BY <1>1, <1>2, <1>4 DEF WireTypes
<1>6. CASE s = "worker"
  BY <1>2, <1>3, <1>4, <1>5, <1>6 DEF WireInv, RecordIsSafe, TheirLease, OurLease
<1>7. CASE s = "beat"
  <2>1. strand'["worker"] = strand["worker"]
    BY <1>1, <1>4, <1>7
  <2>2. "record" \notin undone' => Seen.record = rows.record
    BY <1>2, <1>3, <1>7
  <2>3. "lease" \notin undone' /\ strand["worker"].doing = "claim" => Seen.lease = rows.lease
    BY <1>2, <1>3, <1>7
  <2>. QED
    BY <2>1, <2>2, <2>3, <1>2, <1>3, <1>5 DEF WireInv, RecordIsSafe, TheirLease, OurLease
<1>. QED
  BY <1>1, <1>6, <1>7

LEMMA TheyKeep ==
  ASSUME WireInv, TheyLock \/ \E claims \in BOOLEAN : TheyCommit(claims)
  PROVE  WireInv'
<1>1. CASE TheyLock
  <2>1. UNCHANGED <<rows, draft, transaction, strand, holding, deeds, may, undone>> /\ transaction # "locked"
    BY <1>1 DEF TheyLock
  <2>2. Seen' = Seen
    BY <2>1 DEF Seen
  <2>. QED
    BY <2>1, <2>2 DEF WireInv, WireTypes, RecordIsSafe, TheirLease, OurLease
<1>2. ASSUME NEW claims \in BOOLEAN, TheyCommit(claims) PROVE WireInv'
  <2>1. UNCHANGED <<draft, transaction, strand, deeds, may, undone>> /\ ~locker' /\ locker
    BY <1>2 DEF TheyCommit
  <2>2. Seen = rows /\ Seen' = rows'
    BY <2>1 DEF WireInv, WireTypes, Seen
  <2>3. CASE UNCHANGED <<rows, holding>>
    BY <2>1, <2>2, <2>3 DEF WireInv, WireTypes, RecordIsSafe, TheirLease, OurLease
  <2>4. CASE rows.lease = "free" /\ rows' = [rows EXCEPT !.lease = "them"] /\ holding' = holding \cup {"them"}
    <3>1. rows'.lease = "them" /\ rows'.record = rows.record /\ rows' \in [record : Nat, lease : Leases]
      BY <2>4 DEF WireInv, WireTypes, Leases
    <3>. QED
      BY <2>1, <2>2, <2>4, <3>1 DEF WireInv, WireTypes, RecordIsSafe, TheirLease, OurLease
  <2>. QED
    BY <1>2, <2>3, <2>4 DEF TheyCommit
<1>. QED
  BY <1>1, <1>2

LEMMA WireStep ==
  ASSUME WireInv, [ConnectionNext]_connectionVars
  PROVE  WireInv'
<1>1. CASE UNCHANGED connectionVars
  BY <1>1 DEF connectionVars, WireInv, WireTypes, RecordIsSafe, TheirLease, OurLease, Seen
<1>. QED
  BY <1>1, WorkerCallsKeeps, BeatsKeeps, StatementsKeep, BusyKeeps, CommitsKeeps, RollsBackKeeps, TheyKeep
     DEF ConnectionNext

(* Of two threads on one connection each may end the transaction of the      *)
(* other; still the record on disk is that of the last write that returned,  *)
(* or of one that may yet come, and a granted lease is in the table and      *)
(* nobody else's, unless a rollback of the heartbeat dropped it              *)
(* (SqliteBackend.set, claim).                                               *)
THEOREM ConnectionTellsHolds == ConnectionSpec => []ConnectionTells
<1>1. WireInv => ConnectionTells
  BY DEF WireInv, RecordIsSafe, TheirLease, OurLease, ConnectionTells
<1>. QED
  BY <1>1, WireInit, WireStep, PTL DEF ConnectionSpec

-------------------------------------------------------------------------------
(* A sort.  The number of those ahead tells the places of a finite set       *)
(* apart, so each number below its size belongs to one place.                *)

LEMMA AheadOfNext ==
  ASSUME NEW D \in SUBSET Nat, IsFiniteSet(D), NEW f \in [D -> Nat], NEW i \in D, NEW j \in D,
         f[i] > f[j] \/ (f[i] = f[j] /\ i < j)
  PROVE  /\ IsFiniteSet(Ahead(f, i)) /\ IsFiniteSet(Ahead(f, j))
         /\ Cardinality(Ahead(f, i)) \in Nat /\ Cardinality(Ahead(f, j)) \in Nat
         /\ Cardinality(Ahead(f, i)) < Cardinality(Ahead(f, j))
<1>. DEFINE A == Ahead(f, i)
            B == Ahead(f, j)
<1>1. A \subseteq D /\ B \subseteq D
  BY DEF Ahead
<1>2. IsFiniteSet(A) /\ IsFiniteSet(B) /\ Cardinality(A) \in Nat /\ Cardinality(B) \in Nat
  BY <1>1, FS_Subset, FS_CardinalityType
<1>3. A \subseteq B
  <2>1. ASSUME NEW k \in A PROVE k \in B
    <3>1. k \in D /\ k \in Nat /\ i \in Nat /\ j \in Nat /\ f[k] \in Nat /\ f[i] \in Nat /\ f[j] \in Nat
      BY <1>1
    <3>2. f[k] > f[i] \/ (f[k] = f[i] /\ k < i)
      BY DEF Ahead
    <3>. QED
      BY <3>1, <3>2 DEF Ahead
  <2>. QED
    BY <2>1
<1>4. i \in B /\ i \notin A
  <2>1. i \in Nat /\ f[i] \in Nat
    OBVIOUS
  <2>. QED
    BY <2>1 DEF Ahead
<1>5. Cardinality(A) <= Cardinality(B) /\ Cardinality(A) # Cardinality(B)
  BY <1>2, <1>3, <1>4, FS_Subset
<1>. QED
  BY <1>2, <1>5

LEMMA AheadTells ==
  ASSUME NEW D \in SUBSET Nat, IsFiniteSet(D), NEW f \in [D -> Nat]
  PROVE  /\ \A i \in D : /\ IsFiniteSet(Ahead(f, i)) /\ Cardinality(Ahead(f, i)) \in Nat
                         /\ Cardinality(Ahead(f, i)) < Cardinality(D)
         /\ \A i, j \in D : Cardinality(Ahead(f, i)) < Cardinality(Ahead(f, j)) =>
                             f[i] > f[j] \/ (f[i] = f[j] /\ i < j)
         /\ \A i, j \in D : Cardinality(Ahead(f, i)) = Cardinality(Ahead(f, j)) => i = j
<1>. DEFINE N == Cardinality(D)
            C(i) == Cardinality(Ahead(f, i))
<1>1. N \in Nat
  BY FS_CardinalityType
<1>2. ASSUME NEW i \in D
      PROVE  IsFiniteSet(Ahead(f, i)) /\ C(i) \in Nat /\ C(i) < N
  <2>1. Ahead(f, i) \subseteq D /\ i \notin Ahead(f, i)
    <3>1. i \in Nat /\ f[i] \in Nat
      OBVIOUS
    <3>. QED
      BY <3>1 DEF Ahead
  <2>2. /\ IsFiniteSet(Ahead(f, i)) /\ C(i) <= N
        /\ C(i) # N
    BY <2>1, FS_Subset
  <2>3. C(i) \in Nat
    BY <2>2, FS_CardinalityType
  <2>. QED
    BY <1>1, <2>2, <2>3
<1>3. ASSUME NEW i \in D, NEW j \in D, i # j
      PROVE  f[i] > f[j] \/ (f[i] = f[j] /\ i < j) \/ f[j] > f[i] \/ (f[j] = f[i] /\ j < i)
  <2>1. i \in Nat /\ j \in Nat /\ f[i] \in Nat /\ f[j] \in Nat
    OBVIOUS
  <2>. QED
    BY <1>3, <2>1
<1>4. ASSUME NEW i \in D, NEW j \in D, C(i) < C(j)
      PROVE  f[i] > f[j] \/ (f[i] = f[j] /\ i < j)
  <2>1. i # j
    BY <1>2, <1>4
  <2>2. f[j] > f[i] \/ (f[j] = f[i] /\ j < i) => C(j) < C(i)
    BY AheadOfNext
  <2>. QED
    BY <1>2, <1>3, <1>4, <2>1, <2>2
<1>5. \A i, j \in D : C(i) = C(j) => i = j
  <2>. SUFFICES ASSUME NEW i \in D, NEW j \in D, C(i) = C(j), i # j PROVE FALSE
    OBVIOUS
  <2>1. C(i) < C(j) \/ C(j) < C(i)
    BY <1>3, AheadOfNext
  <2>. QED
    BY <1>2, <2>1
<1>. QED
  BY <1>2, <1>4, <1>5

\* list.sort: every place once, and none behind one with a lower score.
LEMMA Sorted ==
  ASSUME NEW D \in SUBSET Nat, IsFiniteSet(D), NEW f \in [D -> Nat]
  PROVE  LET o == HighestFirst(f)
             N == Cardinality(D)
         IN  /\ N \in Nat /\ o \in [1..N -> D]
             /\ \A n \in 1..N : Cardinality(Ahead(f, o[n])) = n - 1
             /\ \A i \in D : \E n \in 1..N : o[n] = i
             /\ \A m, n \in 1..N : m < n => /\ o[m] # o[n] /\ f[o[m]] >= f[o[n]]
                                            /\ f[o[m]] = f[o[n]] => o[m] < o[n]
<1>. DEFINE N == Cardinality(D)
            o == HighestFirst(f)
            C(i) == Cardinality(Ahead(f, i))
<1>1. N \in Nat /\ IsFiniteSet(1..N) /\ Cardinality(1..N) = N
  BY FS_CardinalityType, FS_Interval
<1>2. /\ \A i \in D : IsFiniteSet(Ahead(f, i)) /\ C(i) \in Nat /\ C(i) < N
      /\ \A i, j \in D : C(i) < C(j) => f[i] > f[j] \/ (f[i] = f[j] /\ i < j)
      /\ \A i, j \in D : C(i) = C(j) => i = j
  BY AheadTells
<1>3. ASSUME NEW n \in 1..N PROVE \E i \in D : C(i) = n - 1
  <2>. DEFINE g == [i \in D |-> C(i) + 1]
  <2>1. g \in [D -> 1..N] /\ \A i, j \in D : g[i] = g[j] => i = j
    BY <1>1, <1>2
  <2>2. g \in Injection(D, 1..N)
    BY <2>1 DEF Injection, IsInjective
  <2>3. g \in Surjection(D, 1..N)
    BY <1>1, <2>2, FS_Injection
  <2>4. PICK i \in D : g[i] = n
    BY <2>3 DEF Surjection
  <2>. QED
    BY <1>2, <2>4
<1>4. ASSUME NEW n \in 1..N PROVE o[n] \in D /\ C(o[n]) = n - 1
  <2>1. o[n] = CHOOSE i \in D : C(i) = n - 1
    BY DEF HighestFirst
  <2>. QED
    BY <1>3, <2>1
<1>5. o \in [1..N -> D]
  <2>1. o = [n \in 1..N |-> o[n]]
    BY DEF HighestFirst
  <2>. QED
    BY <1>4, <2>1
<1>6. ASSUME NEW i \in D PROVE \E n \in 1..N : o[n] = i
  <2>1. C(i) + 1 \in 1..N /\ (C(i) + 1) - 1 = C(i)
    BY <1>1, <1>2
  <2>2. o[C(i) + 1] \in D /\ C(o[C(i) + 1]) = C(i)
    BY <1>4, <2>1
  <2>. QED
    BY <1>2, <2>1, <2>2
<1>7. ASSUME NEW m \in 1..N, NEW n \in 1..N, m < n
       PROVE  /\ o[m] # o[n] /\ f[o[m]] >= f[o[n]]
              /\ f[o[m]] = f[o[n]] => o[m] < o[n]
  <2>1. /\ o[m] \in D /\ o[n] \in D /\ C(o[m]) = m - 1 /\ C(o[n]) = n - 1
    BY <1>4
  <2>2. C(o[m]) < C(o[n])
    BY <1>1, <1>7, <2>1
  <2>3. f[o[m]] > f[o[n]] \/ (f[o[m]] = f[o[n]] /\ o[m] < o[n])
    BY <1>2, <2>1, <2>2
  <2>4. f[o[m]] \in Nat /\ f[o[n]] \in Nat /\ o[m] \in Nat /\ o[n] \in Nat
    BY <2>1
  <2>. QED
    BY <2>3, <2>4
<1>. QED
  BY <1>1, <1>4, <1>5, <1>6, <1>7

-------------------------------------------------------------------------------
(* Searches.                                                                 *)
(*                                                                           *)
(* What is in seen stays there while a search runs, whoever writes.  As long *)
(* as no two calls overlap, at most one thread is between its two steps, on  *)
(* a key whose vector is not what the entry says (OneAtWork), and a search   *)
(* finds everybody at rest, so the slots it has passed are in scored (Loop). *)

RecallSpec == RecallInit /\ [][RecallNext]_recallVars

Vector(k) == IF book[k] = NoBook THEN NoVector ELSE book[k].close

Writings ==
  {Resting} \cup [step : {"embeds"}, key : BookKeys, entry : Books]
            \cup [step : {"drops"}, key : BookKeys, entry : {NoBook}]
Matches == [key : BookKeys, entry : Books, score : Nat]
SearchFields == {"step", "at", "size", "late", "key", "entry"}

RecallTypes ==
  /\ index \in {"semantic", "chroma"}
  /\ book \in [BookKeys -> Books \cup {NoBook}] /\ vectors \in [BookKeys -> Closeness \cup {NoVector}]
  /\ slots \in Seq(BookKeys \cup {NoKey}) /\ writing \in [Threads -> Writings]
  /\ scored \in Seq(Matches) /\ IsFiniteSet(Stored) /\ unembedded \subseteq BookKeys
  /\ search = [x \in SearchFields |-> search[x]] /\ search.at \in Nat
  /\ search.step \in {"none", "next", "score", "told", "raised"}
  /\ ~Searching => search.at = 0

\* The dictionary has a slot for each entry.
Slotted ==
  /\ \A i \in DOMAIN slots : slots[i] # NoKey => slots[i] \in Stored
  /\ \A k \in Stored : \E i \in DOMAIN slots : slots[i] = k
  /\ \A i, j \in DOMAIN slots : slots[i] = slots[j] /\ slots[i] # NoKey => i = j

\* What a search comes upon was there while it ran.
Noticed ==
  /\ Searching => \A k \in Stored : <<k, book[k]>> \in seen
  /\ search.step = "score" =>
       search.key \in BookKeys /\ search.entry \in Books /\ <<search.key, search.entry>> \in seen
  /\ \A i \in DOMAIN scored : <<scored[i].key, scored[i].entry>> \in seen

\* ChromaDB has an entry with its vector, and the dictionaries do at rest, but
\* where the embedder raised.
OneAtWork ==
  /\ index = "chroma" => /\ \A k \in BookKeys : vectors[k] = Vector(k)
                         /\ unembedded = {}
                         /\ \A w \in Threads : writing[w].step # "embeds"
  /\ clean =>
       /\ \A v, w \in Threads : writing[v] # Resting /\ writing[w] # Resting => v = w
       /\ \A k \in BookKeys : (\A w \in Threads : writing[w].key # k) =>
                              k \in unembedded \/ vectors[k] = Vector(k)
       /\ \A w \in Threads : writing[w].step = "embeds" => book[writing[w].key] = writing[w].entry
       /\ \A w \in Threads : writing[w].step = "drops" /\ index = "semantic" =>
                               vectors[writing[w].key] = NoVector
       /\ Searching => \A w \in Threads : writing[w] = Resting

\* The slots a search is done with.
Passed(j) == j <= search.at /\ (search.step = "score" => j < search.at)

\* No key is in two of the matches.
KeysOnce(ms) == \A i, j \in DOMAIN ms : ms[i].key = ms[j].key => i = j

\* The matches are entries that are stored, with their scores.
AsStored(ms) ==
  \A i \in DOMAIN ms : /\ ms[i].key \in Stored /\ ms[i].entry = book[ms[i].key]
                       /\ ms[i].score = Weight(ms[i].key)

Loop ==
  clean /\ search.step \in {"next", "score"} =>
    /\ search.size = Cardinality(Stored)
    /\ KeysOnce(scored) /\ AsStored(scored)
    /\ \A i \in DOMAIN scored : \E j \in DOMAIN slots : Passed(j) /\ slots[j] = scored[i].key
    /\ \A j \in DOMAIN slots :
         Passed(j) /\ slots[j] # NoKey =>
           Weight(slots[j]) = 0 \/ \E i \in DOMAIN scored : scored[i].key = slots[j]
    /\ search.step = "score" =>
         /\ search.at \in DOMAIN slots /\ search.key = slots[search.at]
         /\ search.entry = book[search.key]

RecallInv == RecallTypes /\ Slotted /\ Noticed /\ OneAtWork /\ Loop /\ RecallTells

\* A sequence that has grown by one.
LEMMA GrownByOne ==
  ASSUME NEW S, NEW q \in Seq(S), NEW e \in S
  PROVE  LET p == Append(q, e)
             k == Len(q) + 1
         IN  /\ Len(q) \in Nat /\ p \in Seq(S) /\ Len(p) = k /\ p[k] = e /\ p # <<>>
             /\ DOMAIN p = 1..k /\ DOMAIN q = 1..Len(q)
             /\ \A i \in 1..Len(q) : p[i] = q[i] /\ q[i] \in S
BY AppendProperties, LenProperties, ElementOfSeq

LEMMA RecallNumbers ==
  /\ Topmost \in Nat /\ Topmost > 0 /\ Closeness \subseteq Nat
  /\ NoKey \notin BookKeys /\ NoVector \notin Closeness
BY RecallAssumption, RecallMarks

LEMMA StoredFacts ==
  ASSUME RecallTypes, NEW k \in BookKeys
  PROVE  /\ k \in Stored <=> book[k] \in Books
         /\ k \in Stored => /\ book[k].close \in Closeness /\ book[k].close \in Nat
                            /\ Vector(k) = book[k].close
         /\ k \notin Stored => book[k] = NoBook /\ Vector(k) = NoVector
<1>1. NoBook \notin Books
  BY DEF NoBook, Books
<1>2. book[k] \in Books \cup {NoBook} /\ Closeness \subseteq Nat
  BY RecallNumbers DEF RecallTypes
<1>3. \A e \in Books : e.close \in Closeness
  BY DEF Books
<1>. QED
  BY <1>1, <1>2, <1>3 DEF Stored, Vector

\* The list that Ranked makes of the matches.
LEMMA RankedFacts ==
  ASSUME NEW ms \in Seq(Matches)
  PROVE  LET r == Ranked(ms)
         IN  /\ r \in Seq(Matches) /\ Len(r) <= Topmost
             /\ \A n \in DOMAIN r : ~IsOld(r[n].entry, search.late) /\ \E i \in DOMAIN ms : r[n] = ms[i]
             /\ \A m, n \in DOMAIN r : m < n => r[m].score >= r[n].score
             /\ KeysOnce(ms) => KeysOnce(r)
             /\ \A i \in DOMAIN ms :
                  \/ IsOld(ms[i].entry, search.late) \/ \E n \in DOMAIN r : r[n] = ms[i]
                  \/ \E T \in SUBSET DOMAIN ms :
                       /\ i \notin T /\ IsFiniteSet(T) /\ Cardinality(T) \in Nat /\ Cardinality(T) >= Topmost
                       /\ \A j \in T : ms[j].score >= ms[i].score
<1>. DEFINE D == DOMAIN ms
            score == [i \in D |-> ms[i].score]
            C(i) == Cardinality(Ahead(score, i))
            told == {i \in D : C(i) < Topmost /\ ~IsOld(ms[i].entry, search.late)}
            f == [i \in told |-> score[i]]
            order == HighestFirst(f)
            N == Cardinality(told)
            r == Ranked(ms)
<1>1. D \in SUBSET Nat /\ IsFiniteSet(D) /\ \A i \in D : ms[i] \in Matches
  <2>1. Len(ms) \in Nat /\ D = 1..Len(ms) /\ \A i \in 1..Len(ms) : ms[i] \in Matches
    BY LenProperties, ElementOfSeq
  <2>2. IsFiniteSet(1..Len(ms)) /\ 1..Len(ms) \in SUBSET Nat
    BY <2>1, FS_Interval
  <2>. QED
    BY <2>1, <2>2
<1>2. score \in [D -> Nat] /\ \A i \in D : score[i] = ms[i].score /\ ms[i].score \in Nat
  BY <1>1 DEF Matches
<1>3. /\ \A i \in D : IsFiniteSet(Ahead(score, i)) /\ C(i) \in Nat
      /\ \A i, j \in D : C(i) = C(j) => i = j
  <2>. HIDE DEF D, score
  <2>. QED
    BY <1>1, <1>2, AheadTells
<1>4. told \in SUBSET D /\ told \in SUBSET Nat /\ IsFiniteSet(told) /\ f \in [told -> Nat]
  BY <1>1, <1>2, FS_Subset
<1>5. N <= Topmost
  <2>. DEFINE g == [i \in told |-> C(i) + 1]
  <2>1. IsFiniteSet(1..Topmost) /\ Cardinality(1..Topmost) = Topmost
    BY RecallNumbers, FS_Interval
  <2>2. \A i \in told : C(i) \in Nat /\ C(i) < Topmost
    BY <1>3
  <2>3. \A i \in told : C(i) + 1 \in 1..Topmost
    BY <2>2, RecallNumbers
  <2>4. g \in [told -> 1..Topmost] /\ \A i, j \in told : g[i] = g[j] => i = j
    BY <1>3, <1>4, <2>2, <2>3
  <2>5. g \in Injection(told, 1..Topmost)
    BY <2>4 DEF Injection, IsInjective
  <2>. HIDE DEF g, told
  <2>. QED
    BY <2>1, <2>5, FS_Injection
<1>6. /\ N \in Nat /\ order \in [1..N -> told]
      /\ \A i \in told : \E n \in 1..N : order[n] = i
      /\ \A m, n \in 1..N : m < n => order[m] # order[n] /\ ms[order[m]].score >= ms[order[n]].score
  <2>1. \A i \in told : f[i] = ms[i].score
    BY <1>2, <1>4
  <2>. HIDE DEF told, f, order
  <2>2. /\ N \in Nat /\ order \in [1..N -> told]
        /\ \A i \in told : \E n \in 1..N : order[n] = i
        /\ \A m, n \in 1..N : m < n => order[m] # order[n] /\ f[order[m]] >= f[order[n]]
    BY <1>4, Sorted DEF order
  <2>. QED
    BY <2>1, <2>2
<1>7. r = [n \in 1..N |-> ms[order[n]]]
  <2>1. r = [n \in DOMAIN order |-> ms[order[n]]]
    BY DEF Ranked
  <2>. QED
    BY <1>6, <2>1
<1>8. /\ \A i \in told : i \in D /\ ~IsOld(ms[i].entry, search.late)
      /\ \A i \in D \ told : IsOld(ms[i].entry, search.late) \/ C(i) >= Topmost
  BY <1>3, RecallNumbers
<1>. HIDE DEF r, order, told, f, N
<1>9. /\ r \in Seq(Matches) /\ Len(r) = N /\ DOMAIN r = 1..N
      /\ \A n \in 1..N : order[n] \in told /\ r[n] = ms[order[n]]
  <2>1. \A n \in 1..N : order[n] \in told /\ order[n] \in D /\ r[n] = ms[order[n]] /\ r[n] \in Matches
    BY <1>1, <1>4, <1>6, <1>7
  <2>2. r \in [1..N -> Matches]
    BY <1>7, <2>1
  <2>3. r \in Seq(Matches)
    BY <1>6, <2>2, SeqDef
  <2>4. Len(r) \in Nat /\ 1..Len(r) = 1..N
    BY <2>2, <2>3, LenProperties
  <2>5. Len(r) = N
    BY <1>6, <2>4
  <2>. QED
    BY <2>1, <2>2, <2>3, <2>5
<1>10. \A n \in DOMAIN r : ~IsOld(r[n].entry, search.late) /\ \E i \in D : r[n] = ms[i]
  BY <1>8, <1>9
<1>11. \A m, n \in DOMAIN r : m < n => r[m].score >= r[n].score
  BY <1>6, <1>9
<1>12. ASSUME KeysOnce(ms) PROVE KeysOnce(r)
  <2>. SUFFICES ASSUME NEW m \in 1..N, NEW n \in 1..N, r[m].key = r[n].key PROVE m = n
    BY <1>9 DEF KeysOnce
  <2>1. order[m] \in D /\ order[n] \in D /\ ms[order[m]].key = ms[order[n]].key
    BY <1>8, <1>9
  <2>2. order[m] = order[n]
    BY <1>12, <2>1 DEF KeysOnce
  <2>3. ~(m < n) /\ ~(n < m) /\ m \in Nat /\ n \in Nat
    BY <1>6, <2>2
  <2>. QED
    BY <2>3
<1>13. ASSUME NEW i \in D, ~IsOld(ms[i].entry, search.late), ~\E n \in DOMAIN r : r[n] = ms[i]
       PROVE  \E T \in SUBSET D :
                /\ i \notin T /\ IsFiniteSet(T) /\ Cardinality(T) \in Nat /\ Cardinality(T) >= Topmost
                /\ \A j \in T : ms[j].score >= ms[i].score
  <2>1. i \notin told
    BY <1>6, <1>9, <1>13
  <2>2. C(i) >= Topmost
    BY <1>8, <1>13, <2>1
  <2>3. ASSUME NEW j \in Ahead(score, i) PROVE j \in D /\ j # i /\ ms[j].score >= ms[i].score
    <3>1. j \in D /\ (score[j] > score[i] \/ (score[j] = score[i] /\ j < i))
      BY DEF Ahead
    <3>2. /\ j \in Nat /\ i \in Nat /\ score[i] = ms[i].score /\ score[j] = ms[j].score
          /\ ms[i].score \in Nat /\ ms[j].score \in Nat
      BY <1>1, <1>2, <3>1
    <3>. QED
      BY <3>1, <3>2
  <2>. QED
    BY <1>3, <2>2, <2>3
<1>. QED
  BY <1>5, <1>9, <1>10, <1>11, <1>12, <1>13 DEF r

\* What is told of entries as they are stored, all the close ones among them.
LEMMA ToldOf ==
  ASSUME RecallTypes, NEW ms \in Seq(Matches), KeysOnce(ms), AsStored(ms),
         \A k \in Stored : Weight(k) = 0 \/ \E i \in DOMAIN ms : ms[i].key = k
  PROVE  LET r == Ranked(ms)
         IN  /\ KeysOnce(r) /\ AsStored(r)
             /\ \A k \in Stored :
                  \/ Weight(k) = 0 \/ IsOld(book[k], search.late)
                  \/ \E n \in DOMAIN r : r[n].key = k
                  \/ Cardinality({l \in Stored \ {k} : Weight(l) >= Weight(k)}) >= Topmost
<1>1. PICK r : r = Ranked(ms)
  OBVIOUS
<1>2. /\ \A n \in DOMAIN r : \E i \in DOMAIN ms : r[n] = ms[i]
      /\ KeysOnce(r)
      /\ \A i \in DOMAIN ms :
           \/ IsOld(ms[i].entry, search.late) \/ \E n \in DOMAIN r : r[n] = ms[i]
           \/ \E T \in SUBSET DOMAIN ms :
                /\ i \notin T /\ IsFiniteSet(T) /\ Cardinality(T) \in Nat /\ Cardinality(T) >= Topmost
                /\ \A j \in T : ms[j].score >= ms[i].score
  BY <1>1, RankedFacts
<1>3. AsStored(r)
  BY <1>2 DEF AsStored
<1>4. ASSUME NEW k \in Stored, Weight(k) # 0, ~IsOld(book[k], search.late),
             ~\E n \in DOMAIN r : r[n].key = k
      PROVE  Cardinality({l \in Stored \ {k} : Weight(l) >= Weight(k)}) >= Topmost
  <2>. DEFINE L == {l \in Stored \ {k} : Weight(l) >= Weight(k)}
  <2>1. PICK i \in DOMAIN ms : ms[i].key = k
    BY <1>4
  <2>2. ms[i].entry = book[k] /\ ms[i].score = Weight(k)
    BY <2>1 DEF AsStored
  <2>3. ~\E n \in DOMAIN r : r[n] = ms[i]
    BY <1>4, <2>1
  <2>4. PICK T \in SUBSET DOMAIN ms :
          /\ i \notin T /\ IsFiniteSet(T) /\ Cardinality(T) \in Nat /\ Cardinality(T) >= Topmost
          /\ \A j \in T : ms[j].score >= ms[i].score
    BY <1>2, <1>4, <2>2, <2>3
  <2>. DEFINE g == [j \in T |-> ms[j].key]
  <2>5. \A j \in T : ms[j].key \in Stored /\ ms[j].key # k /\ Weight(ms[j].key) >= Weight(k)
    BY <2>1, <2>2, <2>4 DEF AsStored, KeysOnce
  <2>6. \A i1, j1 \in T : g[i1] = g[j1] => i1 = j1
    BY <2>4 DEF KeysOnce
  <2>7. g \in Injection(T, L)
    BY <2>5, <2>6 DEF Injection, IsInjective
  <2>8. L \subseteq Stored /\ IsFiniteSet(Stored)
    BY DEF RecallTypes
  <2>9. IsFiniteSet(L)
    BY <2>8, FS_Subset
  <2>. HIDE DEF L, g
  <2>10. Cardinality(T) <= Cardinality(L) /\ Cardinality(L) \in Nat
    BY <2>7, <2>9, FS_Injection, FS_CardinalityType
  <2>11. Cardinality(L) >= Topmost
    BY <2>4, <2>10, RecallNumbers
  <2>. QED
    BY <2>11 DEF L
<1>. QED
  BY <1>1, <1>2, <1>3, <1>4

\* The four steps of the writers: a search loses nothing it has seen.
LEMMA WriterKeeps ==
  ASSUME RecallInv, UNCHANGED <<search, scored>>, seen \subseteq seen', clean' => clean /\ ~Searching,
         Searching => \A k \in Stored' : <<k, book'[k]>> \in seen'
  PROVE  Noticed' /\ Loop' /\ RecallTells'
<1>1. Noticed'
  <2>1. \A i \in DOMAIN scored' : <<scored'[i].key, scored'[i].entry>> \in seen'
    BY DEF RecallInv, Noticed
  <2>2. Searching' => \A k \in Stored' : <<k, book'[k]>> \in seen'
    BY DEF Searching
  <2>3. search'.step = "score" =>
          search'.key \in BookKeys /\ search'.entry \in Books /\ <<search'.key, search'.entry>> \in seen'
    BY DEF RecallInv, Noticed
  <2>. QED
    BY <2>1, <2>2, <2>3 DEF Noticed
<1>2. Loop'
  BY DEF Loop, Searching
<1>3. RecallTells'
  <2>1. ASSUME search.step = "told"
        PROVE  /\ Len(scored) <= Topmost /\ ~clean'
               /\ \A i \in DOMAIN scored : /\ <<scored[i].key, scored[i].entry>> \in seen'
                                           /\ ~IsOld(scored[i].entry, search.late)
               /\ \A i, j \in DOMAIN scored : i < j => scored[i].score >= scored[j].score
    BY <2>1 DEF RecallInv, RecallTells, Searching
  <2>2. search.step = "raised" => ~clean'
    BY DEF Searching
  <2>. QED
    BY <2>1, <2>2 DEF RecallTells
<1>. QED
  BY <1>1, <1>2, <1>3

LEMMA WritingFacts ==
  ASSUME RecallTypes, NEW w \in Threads
  PROVE  /\ writing[w] # Resting =>
              writing[w].key \in BookKeys /\ writing[w].step \in {"embeds", "drops"}
         /\ writing[w].step = "embeds" => writing[w] # Resting /\ writing[w].entry \in Books
         /\ writing[w].step = "drops" => writing[w] # Resting
         /\ writing[w] = Resting => writing[w].key = NoKey /\ writing[w].step = "rests"
BY DEF RecallTypes, Writings, Resting

\* The entry in its dictionary.
LEMMA BookPut ==
  ASSUME RecallTypes, Slotted, NEW k \in BookKeys, NEW e \in Books, Puts(k, e)
  PROVE  /\ book' \in [BookKeys -> Books \cup {NoBook}] /\ slots' \in Seq(BookKeys \cup {NoKey})
         /\ IsFiniteSet(Stored') /\ Slotted' /\ book'[k] = e /\ e # NoBook
         /\ \A l \in BookKeys \ {k} : book'[l] = book[l]
         /\ seen \subseteq seen' /\ (Searching => \A l \in Stored' : <<l, book'[l]>> \in seen')
<1>1. /\ book' \in [BookKeys -> Books \cup {NoBook}] /\ book'[k] = e /\ e # NoBook
      /\ \A l \in BookKeys \ {k} : book'[l] = book[l]
  BY DEF RecallTypes, Puts, Books, NoBook
<1>2. Stored' = Stored \cup {k}
  BY <1>1 DEF Stored
<1>3. IsFiniteSet(Stored')
  BY <1>2, FS_AddElement DEF RecallTypes
<1>4. slots' \in Seq(BookKeys \cup {NoKey}) /\ Slotted'
  <2>1. CASE k \in Stored
    <3>1. slots' = slots
      BY <2>1 DEF Puts
    <3>. QED
      BY <1>2, <2>1, <3>1 DEF RecallTypes, Slotted
  <2>2. CASE k \notin Stored
    <3>1. slots' = Append(slots, k)
      BY <2>2 DEF Puts
    <3>2. PICK n : n = Len(slots)
      OBVIOUS
    <3>3. k \in BookKeys \cup {NoKey} /\ slots \in Seq(BookKeys \cup {NoKey})
      BY DEF RecallTypes
    <3>4. /\ n \in Nat /\ DOMAIN slots = 1..n /\ slots' \in Seq(BookKeys \cup {NoKey})
          /\ DOMAIN slots' = 1..(n + 1) /\ slots'[n + 1] = k /\ \A i \in 1..n : slots'[i] = slots[i]
      BY <3>1, <3>2, <3>3, GrownByOne
    <3>5. \A i \in 1..n : slots[i] # k
      BY <2>2, <3>4, RecallNumbers DEF Slotted
    <3>6. \A i \in 1..(n + 1) : i \in 1..n \/ i = n + 1
      BY <3>4
    <3>7. \A i \in 1..n : i \in 1..(n + 1)
      BY <3>4
    <3>8. n + 1 \in 1..(n + 1)
      BY <3>4
    <3>9. \A i \in DOMAIN slots' : slots'[i] # NoKey => slots'[i] \in Stored'
      BY <1>2, <3>4, <3>6 DEF Slotted
    <3>10. \A l \in Stored' : \E i \in DOMAIN slots' : slots'[i] = l
      BY <1>2, <3>4, <3>7, <3>8 DEF Slotted
    <3>11. \A i, j \in DOMAIN slots' : slots'[i] = slots'[j] /\ slots'[i] # NoKey => i = j
      BY <3>4, <3>5, <3>6 DEF Slotted
    <3>. QED
      BY <3>4, <3>9, <3>10, <3>11 DEF Slotted
  <2>. QED
    BY <2>1, <2>2
<1>5. seen \subseteq seen' /\ (Searching => \A l \in Stored' : <<l, book'[l]>> \in seen')
  BY DEF Puts, Notices, Stored
<1>. QED
  BY <1>1, <1>3, <1>4, <1>5

LEMMA SetEntryKeeps == ASSUME RecallInv, NEW w \in Threads, SetEntry(w) PROVE RecallInv'
<1>. USE DEF RecallInv
<1>1. PICK k \in BookKeys, e \in Books : Upsert(w, k, e) \/ PutEntry(w, k, e)
  BY DEF SetEntry
<1>2. /\ book' \in [BookKeys -> Books \cup {NoBook}] /\ slots' \in Seq(BookKeys \cup {NoKey})
      /\ IsFiniteSet(Stored') /\ Slotted' /\ book'[k] = e /\ e # NoBook
      /\ \A l \in BookKeys \ {k} : book'[l] = book[l]
      /\ seen \subseteq seen' /\ (Searching => \A l \in Stored' : <<l, book'[l]>> \in seen')
  BY <1>1, BookPut DEF Upsert, PutEntry
<1>3. /\ UNCHANGED <<index, search, scored, unembedded>> /\ writing[w] = Resting
      /\ clean' => clean /\ ~Searching /\ \A v \in Threads \ {w} : writing[v] = Resting
  BY DEF SetEntry, OthersWrite
<1>4. Noticed' /\ Loop' /\ RecallTells'
  BY <1>2, <1>3, WriterKeeps
<1>5. e.close \in Closeness /\ Vector(k)' = e.close
  BY <1>2 DEF Books, Vector
<1>6. \A l \in BookKeys \ {k} : Vector(l)' = Vector(l)
  BY <1>2 DEF Vector
<1>7. clean' => \A v \in Threads : writing[v] = Resting /\ writing[v].key = NoKey /\ writing[v].step = "rests"
  BY <1>3, WritingFacts
<1>8. clean' => \A l \in BookKeys : l \in unembedded \/ vectors[l] = Vector(l)
  BY <1>3, <1>7, RecallNumbers DEF OneAtWork
<1>9. CASE Upsert(w, k, e)
  <2>1. /\ index = "chroma" /\ writing' = writing /\ vectors'[k] = e.close
        /\ vectors' \in [BookKeys -> Closeness \cup {NoVector}]
        /\ \A l \in BookKeys \ {k} : vectors'[l] = vectors[l]
    BY <1>5, <1>9 DEF Upsert, RecallTypes
  <2>2. RecallTypes'
    BY <1>2, <1>3, <2>1 DEF RecallTypes, Searching
  <2>3. \A l \in BookKeys : vectors'[l] = Vector(l)'
    BY <1>3, <1>5, <1>6, <2>1 DEF OneAtWork
  <2>4. clean' => /\ \A v \in Threads : writing'[v] = Resting /\ writing'[v].step = "rests"
                  /\ ~Searching'
    BY <1>3, <1>7, <2>1 DEF Searching
  <2>5. \A v \in Threads : writing'[v].step # "embeds"
    BY <2>1 DEF OneAtWork
  <2>6. OneAtWork'
    BY <1>3, <2>1, <2>3, <2>4, <2>5 DEF OneAtWork
  <2>. QED
    BY <1>2, <1>4, <2>2, <2>6
<1>10. CASE PutEntry(w, k, e)
  <2>1. PICK x : x = [step |-> "embeds", key |-> k, entry |-> e]
    OBVIOUS
  <2>2. x \in Writings /\ x.step = "embeds" /\ x.key = k /\ x.entry = e
    BY <2>1 DEF Writings
  <2>3. /\ index = "semantic" /\ vectors' = vectors /\ writing' \in [Threads -> Writings]
        /\ writing'[w] = x /\ \A v \in Threads \ {w} : writing'[v] = writing[v]
    BY <1>10, <2>1, <2>2 DEF PutEntry, RecallTypes
  <2>4. RecallTypes'
    BY <1>2, <1>3, <2>3 DEF RecallTypes, Searching
  <2>5. index' # "chroma" /\ (clean' => ~Searching')
    BY <1>3, <2>3 DEF Searching
  <2>6. clean' => \A v \in Threads \ {w} : writing'[v] = Resting /\ writing'[v].step = "rests"
    BY <1>7, <2>3
  <2>7. clean' => \A l \in BookKeys : (\A v \in Threads : writing'[v].key # l) =>
                    l \in unembedded' \/ vectors'[l] = Vector(l)'
    BY <1>3, <1>6, <1>8, <2>2, <2>3
  <2>8. OneAtWork'
    BY <1>2, <2>2, <2>3, <2>5, <2>6, <2>7 DEF OneAtWork
  <2>. QED
    BY <1>2, <1>4, <2>4, <2>8
<1>. QED
  BY <1>1, <1>9, <1>10

LEMMA PutVectorKeeps == ASSUME RecallInv, NEW w \in Threads, PutVector(w) PROVE RecallInv'
<1>. USE DEF RecallInv
<1>1. PICK k : k = writing[w].key
  OBVIOUS
<1>2. PICK e : e = writing[w].entry
  OBVIOUS
<1>3. k \in BookKeys /\ e \in Books /\ writing[w] # Resting /\ writing[w].step = "embeds"
  BY <1>1, <1>2, WritingFacts DEF PutVector
<1>4. e.close \in Closeness
  BY <1>3 DEF Books
<1>5. /\ UNCHANGED <<index, slots, book, search, scored, seen, clean>>
      /\ vectors' \in [BookKeys -> Closeness \cup {NoVector}] /\ vectors'[k] = e.close
      /\ \A l \in BookKeys \ {k} : vectors'[l] = vectors[l]
      /\ unembedded' = unembedded \ {k}
      /\ writing' \in [Threads -> Writings] /\ writing'[w] = Resting
      /\ \A v \in Threads \ {w} : writing'[v] = writing[v]
  BY <1>1, <1>2, <1>3, <1>4 DEF PutVector, RecallTypes, Writings
<1>6. Stored' = Stored /\ \A l \in BookKeys : Vector(l)' = Vector(l)
  BY <1>5 DEF Stored, Vector
<1>7. RecallTypes' /\ Slotted'
  BY <1>5, <1>6 DEF RecallTypes, Slotted, Searching
<1>8. clean' => clean /\ ~Searching /\ \A v \in Threads \ {w} : writing[v] = Resting
  BY <1>3, <1>5 DEF OneAtWork
<1>9. Noticed' /\ Loop' /\ RecallTells'
  <2>1. Searching => \A l \in Stored' : <<l, book'[l]>> \in seen'
    BY <1>5, <1>6 DEF Noticed
  <2>. QED
    BY <1>5, <1>8, <2>1, WriterKeeps
<1>10. index' # "chroma"
  BY <1>3, <1>5 DEF OneAtWork
<1>11. clean' => \A v \in Threads : writing'[v] = Resting /\ writing'[v].step = "rests"
  BY <1>5, <1>8 DEF Resting
<1>12. clean' => Vector(k)' = e.close
  <2>1. clean' => book[k] = e
    BY <1>1, <1>2, <1>3, <1>8 DEF OneAtWork
  <2>2. e # NoBook
    BY <1>3 DEF Books, NoBook
  <2>. QED
    BY <1>5, <2>1, <2>2 DEF Vector
<1>13. clean' => \A l \in BookKeys : l \in unembedded' \/ vectors'[l] = Vector(l)'
  <2>1. ASSUME clean', NEW l \in BookKeys, l # k PROVE l \in unembedded \/ vectors[l] = Vector(l)
    <3>1. \A v \in Threads : writing[v].key # l
      BY <1>1, <1>8, <2>1, RecallNumbers DEF Resting
    <3>. QED
      BY <1>8, <2>1, <3>1 DEF OneAtWork
  <2>. QED
    BY <1>5, <1>6, <1>12, <2>1
<1>14. clean' => ~Searching'
  BY <1>5, <1>8 DEF Searching
<1>15. OneAtWork'
  BY <1>10, <1>11, <1>13, <1>14 DEF OneAtWork
<1>. QED
  BY <1>7, <1>9, <1>15

LEMMA EmbedRaisesKeeps == ASSUME RecallInv, NEW w \in Threads, EmbedRaises(w) PROVE RecallInv'
<1>. USE DEF RecallInv
<1>1. PICK k : k = writing[w].key
  OBVIOUS
<1>2. PICK e : e = writing[w].entry
  OBVIOUS
<1>3. k \in BookKeys /\ e \in Books /\ writing[w] # Resting /\ writing[w].step = "embeds"
  BY <1>1, <1>2, WritingFacts DEF EmbedRaises
<1>5. /\ UNCHANGED <<index, slots, book, search, scored, seen, clean>>
      /\ vectors' = vectors /\ unembedded' = unembedded \cup {k}
      /\ writing' \in [Threads -> Writings] /\ writing'[w] = Resting
      /\ \A v \in Threads \ {w} : writing'[v] = writing[v]
  BY <1>1, <1>2, <1>3 DEF EmbedRaises, RecallTypes, Writings
<1>6. Stored' = Stored /\ \A l \in BookKeys : Vector(l)' = Vector(l)
  BY <1>5 DEF Stored, Vector
<1>7. RecallTypes' /\ Slotted'
  BY <1>3, <1>5, <1>6 DEF RecallTypes, Slotted, Searching
<1>8. clean' => clean /\ ~Searching /\ \A v \in Threads \ {w} : writing[v] = Resting
  BY <1>3, <1>5 DEF OneAtWork
<1>9. Noticed' /\ Loop' /\ RecallTells'
  <2>1. Searching => \A l \in Stored' : <<l, book'[l]>> \in seen'
    BY <1>5, <1>6 DEF Noticed
  <2>. QED
    BY <1>5, <1>8, <2>1, WriterKeeps
<1>10. index' # "chroma"
  BY <1>3, <1>5 DEF OneAtWork
<1>11. clean' => \A v \in Threads : writing'[v] = Resting /\ writing'[v].step = "rests"
  BY <1>5, <1>8 DEF Resting
<1>13. clean' => \A l \in BookKeys : l \in unembedded' \/ vectors'[l] = Vector(l)'
  <2>1. ASSUME clean', NEW l \in BookKeys, l # k PROVE l \in unembedded \/ vectors[l] = Vector(l)
    <3>1. \A v \in Threads : writing[v].key # l
      BY <1>1, <1>8, <2>1, RecallNumbers DEF Resting
    <3>. QED
      BY <1>8, <2>1, <3>1 DEF OneAtWork
  <2>. QED
    BY <1>5, <1>6, <2>1
<1>14. clean' => ~Searching'
  BY <1>5, <1>8 DEF Searching
<1>15. OneAtWork'
  BY <1>10, <1>11, <1>13, <1>14 DEF OneAtWork
<1>. QED
  BY <1>7, <1>9, <1>15

LEMMA DropVectorKeeps == ASSUME RecallInv, NEW w \in Threads, DropVector(w) PROVE RecallInv'
<1>. USE DEF RecallInv
<1>1. PICK k \in BookKeys :
        /\ writing' = [writing EXCEPT ![w] = [step |-> "drops", key |-> k, entry |-> NoBook]]
        /\ vectors' = IF index = "semantic" THEN [vectors EXCEPT ![k] = NoVector] ELSE vectors
  BY DEF DropVector
<1>2. PICK x : x = [step |-> "drops", key |-> k, entry |-> NoBook]
  OBVIOUS
<1>3. x \in Writings /\ x.step = "drops" /\ x.key = k
  BY <1>2 DEF Writings
<1>4. /\ UNCHANGED <<index, slots, book, unembedded, search, scored, seen>> /\ writing[w] = Resting
      /\ clean' => clean /\ ~Searching /\ \A v \in Threads \ {w} : writing[v] = Resting
  BY DEF DropVector, OthersWrite
<1>5. /\ writing' \in [Threads -> Writings] /\ writing'[w] = x
      /\ \A v \in Threads \ {w} : writing'[v] = writing[v]
      /\ vectors' \in [BookKeys -> Closeness \cup {NoVector}]
      /\ index = "semantic" => vectors'[k] = NoVector
      /\ index # "semantic" => vectors' = vectors
      /\ \A l \in BookKeys \ {k} : vectors'[l] = vectors[l]
  BY <1>1, <1>2, <1>3 DEF RecallTypes
<1>6. Stored' = Stored /\ \A l \in BookKeys : Vector(l)' = Vector(l)
  BY <1>4 DEF Stored, Vector
<1>7. RecallTypes' /\ Slotted'
  BY <1>4, <1>5, <1>6 DEF RecallTypes, Slotted, Searching
<1>8. Noticed' /\ Loop' /\ RecallTells'
  <2>1. Searching => \A l \in Stored' : <<l, book'[l]>> \in seen'
    BY <1>4, <1>6 DEF Noticed
  <2>. QED
    BY <1>4, <2>1, WriterKeeps
<1>9. index' = "chroma" => /\ \A l \in BookKeys : vectors'[l] = Vector(l)'
                           /\ unembedded' = {}
                           /\ \A v \in Threads : writing'[v].step # "embeds"
  BY <1>3, <1>4, <1>5, <1>6 DEF OneAtWork
<1>10. clean' => \A v \in Threads \ {w} : writing'[v] = Resting /\ writing'[v].step = "rests"
  BY <1>4, <1>5 DEF Resting
<1>11. clean' => \A l \in BookKeys : (\A v \in Threads : writing'[v].key # l) =>
                                         l \in unembedded' \/ vectors'[l] = Vector(l)'
  <2>1. ASSUME clean', NEW l \in BookKeys, l # k PROVE l \in unembedded \/ vectors[l] = Vector(l)
    <3>1. \A v \in Threads : writing[v].key # l
      BY <1>4, <2>1, RecallNumbers DEF Resting
    <3>. QED
      BY <1>4, <2>1, <3>1 DEF OneAtWork
  <2>. QED
    BY <1>3, <1>4, <1>5, <1>6, <2>1
<1>12. clean' => ~Searching'
  BY <1>4 DEF Searching
<1>13. OneAtWork'
  BY <1>3, <1>4, <1>5, <1>9, <1>10, <1>11, <1>12 DEF OneAtWork
<1>. QED
  BY <1>7, <1>8, <1>13

LEMMA DropEntryKeeps == ASSUME RecallInv, NEW w \in Threads, DropEntry(w) PROVE RecallInv'
<1>. USE DEF RecallInv
<1>1. PICK k : k = writing[w].key
  OBVIOUS
<1>2. k \in BookKeys /\ writing[w] # Resting /\ writing[w].step = "drops"
  BY <1>1, WritingFacts DEF DropEntry
<1>3. /\ UNCHANGED <<index, search, scored, seen, clean>>
      /\ book' \in [BookKeys -> Books \cup {NoBook}] /\ book'[k] = NoBook
      /\ \A l \in BookKeys \ {k} : book'[l] = book[l]
      /\ vectors' \in [BookKeys -> Closeness \cup {NoVector}]
      /\ index = "chroma" => vectors'[k] = NoVector
      /\ index # "chroma" => vectors' = vectors
      /\ \A l \in BookKeys \ {k} : vectors'[l] = vectors[l]
      /\ unembedded' = unembedded \ {k}
      /\ writing' \in [Threads -> Writings] /\ writing'[w] = Resting
      /\ \A v \in Threads \ {w} : writing'[v] = writing[v]
  BY <1>1, <1>2 DEF DropEntry, RecallTypes, Writings
<1>4. Stored' = Stored \ {k} /\ Vector(k)' = NoVector /\ \A l \in BookKeys \ {k} : Vector(l)' = Vector(l)
  BY <1>2, <1>3 DEF Stored, Vector
<1>5. IsFiniteSet(Stored')
  BY <1>4, FS_Subset DEF RecallTypes
<1>6. slots' \in Seq(BookKeys \cup {NoKey}) /\ Slotted'
  <2>1. PICK n : n = Len(slots)
    OBVIOUS
  <2>2. n \in Nat /\ DOMAIN slots = 1..n /\ \A i \in 1..n : slots[i] \in BookKeys \cup {NoKey}
    BY <2>1, LenProperties, ElementOfSeq DEF RecallTypes
  <2>3. slots' = [i \in 1..n |-> IF slots[i] = k THEN NoKey ELSE slots[i]]
    BY <1>1, <2>2 DEF DropEntry
  <2>4. slots' \in [1..n -> BookKeys \cup {NoKey}]
    BY <2>2, <2>3
  <2>5. \A i \in 1..n : slots'[i] # NoKey => slots'[i] = slots[i] /\ slots[i] # k /\ slots[i] # NoKey
    BY <2>3
  <2>6. \A i \in 1..n : slots[i] # k => slots'[i] = slots[i]
    BY <2>3
  <2>7. slots' \in Seq(BookKeys \cup {NoKey})
    BY <2>2, <2>4, SeqDef
  <2>8. DOMAIN slots' = 1..n
    BY <2>3
  <2>. QED
    BY <1>4, <2>2, <2>5, <2>6, <2>7, <2>8 DEF Slotted
<1>7. RecallTypes'
  BY <1>3, <1>5, <1>6 DEF RecallTypes, Searching
<1>8. clean' => clean /\ ~Searching /\ \A v \in Threads \ {w} : writing[v] = Resting
  BY <1>2, <1>3 DEF OneAtWork
<1>9. Noticed' /\ Loop' /\ RecallTells'
  <2>1. \A l \in Stored' : l \in Stored /\ book'[l] = book[l]
    BY <1>3, <1>4 DEF Stored
  <2>2. Searching => \A l \in Stored' : <<l, book'[l]>> \in seen'
    BY <1>3, <2>1 DEF Noticed
  <2>. QED
    BY <1>3, <1>8, <2>2, WriterKeeps
<1>10. clean' => \A v \in Threads : writing'[v] = Resting /\ writing'[v].step = "rests"
  BY <1>3, <1>8 DEF Resting
<1>11. clean' /\ index = "semantic" => vectors'[k] = NoVector
  BY <1>1, <1>2, <1>3, <1>8 DEF OneAtWork
<1>12. index' = "chroma" => /\ \A l \in BookKeys : vectors'[l] = Vector(l)'
                            /\ unembedded' = {}
                            /\ \A v \in Threads : writing'[v].step # "embeds"
  BY <1>3, <1>4 DEF OneAtWork, Resting
<1>13. clean' => \A l \in BookKeys : l \in unembedded' \/ vectors'[l] = Vector(l)'
  <2>1. ASSUME clean', NEW l \in BookKeys, l # k PROVE l \in unembedded \/ vectors[l] = Vector(l)
    <3>1. \A v \in Threads : writing[v].key # l
      BY <1>1, <1>8, <2>1, RecallNumbers DEF Resting
    <3>. QED
      BY <1>8, <2>1, <3>1 DEF OneAtWork
  <2>2. index = "semantic" \/ index = "chroma"
    BY DEF RecallTypes
  <2>. QED
    BY <1>3, <1>4, <1>11, <1>12, <2>1, <2>2
<1>14. clean' => ~Searching'
  BY <1>3, <1>8 DEF Searching
<1>15. OneAtWork'
  BY <1>10, <1>12, <1>13, <1>14 DEF OneAtWork
<1>. QED
  BY <1>6, <1>7, <1>9, <1>15

\* A step of a search leaves what is stored alone.
StoreAlone == UNCHANGED <<index, slots, book, vectors, unembedded, writing>>

LEMMA StoreStays ==
  ASSUME RecallTypes, Slotted, StoreAlone
  PROVE  /\ Slotted' /\ Stored' = Stored
         /\ \A l \in BookKeys : Vector(l)' = Vector(l) /\ Weight(l)' = Weight(l)
         /\ unembedded' \subseteq BookKeys
         /\ IsFiniteSet(Stored') /\ index' \in {"semantic", "chroma"}
         /\ book' \in [BookKeys -> Books \cup {NoBook}] /\ vectors' \in [BookKeys -> Closeness \cup {NoVector}]
         /\ slots' \in Seq(BookKeys \cup {NoKey}) /\ writing' \in [Threads -> Writings]
<1>1. Stored' = Stored /\ \A l \in BookKeys : Vector(l)' = Vector(l) /\ Weight(l)' = Weight(l)
  BY DEF StoreAlone, Stored, Vector, Weight
<1>. QED
  BY <1>1 DEF StoreAlone, RecallTypes, Slotted

LEMMA WorkStays ==
  ASSUME RecallTypes, OneAtWork, StoreAlone, clean' => clean,
         clean' /\ Searching' => Searching \/ \A w \in Threads : writing[w] = Resting
  PROVE  OneAtWork'
<1>1. \A l \in BookKeys : Vector(l)' = Vector(l)
  BY DEF StoreAlone, Vector
<1>2. clean' /\ Searching' => \A w \in Threads : writing'[w] = Resting
  BY DEF OneAtWork, StoreAlone
<1>3. index' = "chroma" => /\ \A k \in BookKeys : vectors'[k] = Vector(k)'
                           /\ unembedded' = {}
                           /\ \A w \in Threads : writing'[w].step # "embeds"
  BY <1>1 DEF OneAtWork, StoreAlone
<1>4. clean' =>
       /\ \A v, w \in Threads : writing'[v] # Resting /\ writing'[w] # Resting => v = w
       /\ \A k \in BookKeys : (\A w \in Threads : writing'[w].key # k) =>
                              k \in unembedded' \/ vectors'[k] = Vector(k)'
       /\ \A w \in Threads : writing'[w].step = "embeds" => book'[writing'[w].key] = writing'[w].entry
       /\ \A w \in Threads : writing'[w].step = "drops" /\ index' = "semantic" =>
                               vectors'[writing'[w].key] = NoVector
  BY <1>1 DEF OneAtWork, StoreAlone
<1>. QED
  BY <1>2, <1>3, <1>4 DEF OneAtWork

LEMMA GrowOldKeeps == ASSUME RecallInv, GrowOld PROVE RecallInv'
<1>. USE DEF RecallInv
<1>1. StoreAlone /\ UNCHANGED <<search, scored, seen, clean>>
  BY DEF GrowOld, StoreAlone
<1>2. Stored' = Stored /\ Slotted' /\ RecallTypes'
  <2>1. Searching' = Searching
    BY <1>1 DEF Searching
  <2>. QED
    BY <1>1, <2>1, StoreStays DEF RecallTypes
<1>3. OneAtWork'
  BY <1>1, WorkStays DEF Searching
<1>4. Noticed' /\ RecallTells'
  BY <1>1, <1>2 DEF Noticed, RecallTells, Searching, StoreAlone, Weight
<1>5. Loop'
  BY <1>1, <1>2 DEF Loop, Passed, AsStored, KeysOnce, StoreAlone, Weight
<1>. QED
  BY <1>2, <1>3, <1>4, <1>5

LEMMA SearchBeginsKeeps == ASSUME RecallInv, SearchBegins PROVE RecallInv'
<1>. USE DEF RecallInv
<1>1. /\ StoreAlone /\ scored' = <<>> /\ search.step = "none" /\ search.at = 0 /\ search'.at = 0
      /\ search'.step = "next" /\ search'.size = Cardinality(Stored)
      /\ search' = [x \in SearchFields |-> search'[x]]
      /\ seen' = {<<k, book[k]>> : k \in Stored}
      /\ clean' => clean /\ \A w \in Threads : writing[w] = Resting
  BY DEF SearchBegins, StoreAlone, RecallTypes, SearchFields, Searching
<1>2. DOMAIN scored' = {} /\ scored' \in Seq(Matches)
  BY <1>1
<1>3. Stored' = Stored /\ Slotted' /\ RecallTypes'
  <2>1. Searching'
    BY <1>1 DEF Searching
  <2>. QED
    BY <1>1, <1>2, <2>1, StoreStays DEF RecallTypes
<1>4. OneAtWork'
  BY <1>1, WorkStays
<1>5. Noticed' /\ RecallTells'
  BY <1>1, <1>2, <1>3 DEF Noticed, RecallTells, StoreAlone
<1>6. Loop'
  <2>1. \A j \in DOMAIN slots' : ~Passed(j)'
    <3>1. \A j \in DOMAIN slots' : j \in Nat /\ j > 0
      BY <1>3, LenProperties DEF RecallTypes
    <3>. QED
      BY <1>1, <3>1 DEF Passed
  <2>. QED
    BY <1>1, <1>2, <1>3, <2>1 DEF Loop, KeysOnce, AsStored
<1>. QED
  BY <1>3, <1>4, <1>5, <1>6

LEMMA RecalledKeeps == ASSUME RecallInv, Recalled PROVE RecallInv'
<1>. USE DEF RecallInv
<1>1. /\ StoreAlone /\ scored' = <<>> /\ clean' = clean /\ search'.step = "none" /\ search'.at = 0
      /\ search' = [x \in SearchFields |-> search'[x]]
  BY DEF Recalled, StoreAlone, SearchFields, NoSearch
<1>2. DOMAIN scored' = {} /\ scored' \in Seq(Matches) /\ ~Searching'
  BY <1>1 DEF Searching
<1>3. Slotted' /\ RecallTypes'
  BY <1>1, <1>2, StoreStays DEF RecallTypes
<1>4. OneAtWork'
  BY <1>1, <1>2, WorkStays
<1>5. Noticed' /\ RecallTells' /\ Loop'
  BY <1>1, <1>2 DEF Noticed, RecallTells, Loop
<1>. QED
  BY <1>3, <1>4, <1>5

\* The last step of a search: the matches are ranked and told.
LEMMA TellsKeeps ==
  ASSUME RecallInv, StoreAlone, Searching, UNCHANGED <<seen, clean>>,
         search' = [search EXCEPT !.step = "told"],
         NEW ms \in Seq(Matches), scored' = Ranked(ms),
         \A i \in DOMAIN ms : <<ms[i].key, ms[i].entry>> \in seen,
         clean => /\ KeysOnce(ms) /\ AsStored(ms)
                  /\ \A k \in Stored : Weight(k) = 0 \/ \E i \in DOMAIN ms : ms[i].key = k
  PROVE  RecallInv'
<1>. USE DEF RecallInv
<1>1. PICK r : r = Ranked(ms)
  OBVIOUS
<1>2. /\ r \in Seq(Matches) /\ Len(r) <= Topmost
      /\ \A n \in DOMAIN r : ~IsOld(r[n].entry, search.late) /\ \E i \in DOMAIN ms : r[n] = ms[i]
      /\ \A m, n \in DOMAIN r : m < n => r[m].score >= r[n].score
  BY <1>1, RankedFacts
<1>3. clean => /\ KeysOnce(r) /\ AsStored(r)
               /\ \A k \in Stored :
                    \/ Weight(k) = 0 \/ IsOld(book[k], search.late)
                    \/ \E n \in DOMAIN r : r[n].key = k
                    \/ Cardinality({l \in Stored \ {k} : Weight(l) >= Weight(k)}) >= Topmost
  BY <1>1, ToldOf
<1>4. /\ search'.step = "told" /\ search'.at = search.at /\ search'.late = search.late
      /\ search' = [x \in SearchFields |-> search'[x]] /\ Searching'
  BY DEF RecallTypes, SearchFields, Searching
<1>5. scored' = r /\ seen' = seen /\ clean' = clean /\ book' = book
  BY <1>1 DEF StoreAlone
<1>6. Slotted' /\ RecallTypes' /\ Stored' = Stored
  BY <1>2, <1>4, <1>5, StoreStays DEF RecallTypes
<1>7. OneAtWork'
  BY <1>5, WorkStays
<1>8. \A n \in DOMAIN r : <<r[n].key, r[n].entry>> \in seen
  BY <1>2
<1>9. Noticed' /\ Loop'
  BY <1>4, <1>5, <1>6, <1>8 DEF Noticed, Loop
<1>10. /\ clean => \A n \in DOMAIN r : r[n].entry = book[r[n].key] /\ r[n].score = Weight(r[n].key)
       /\ \A k \in BookKeys : Weight(k)' = Weight(k)
  BY <1>3, StoreStays DEF AsStored
<1>11. RecallTells'
  <2>1. \A k \in Stored : Weight(k)' = Weight(k)
    BY <1>10 DEF Stored
  <2>2. ASSUME clean, NEW k \in Stored
        PROVE  \/ Weight(k)' = 0 \/ IsOld(book'[k], search'.late)
               \/ \E n \in DOMAIN scored' : scored'[n].key = k
               \/ Cardinality({l \in Stored' \ {k} : Weight(l)' >= Weight(k)'}) >= Topmost
    <3>1. {l \in Stored' \ {k} : Weight(l)' >= Weight(k)'} = {l \in Stored \ {k} : Weight(l) >= Weight(k)}
      BY <1>6, <2>1, <2>2
    <3>2. Weight(k)' = Weight(k)
      BY <2>1, <2>2
    <3>. QED
      BY <1>3, <1>4, <1>5, <2>2, <3>1, <3>2
  <2>3. ASSUME clean, NEW n \in DOMAIN r
        PROVE  r[n].entry = book[r[n].key] /\ r[n].score = Weight(r[n].key)'
    <3>1. r[n].key \in Stored
      BY <1>3, <2>3 DEF AsStored
    <3>. QED
      BY <1>10, <2>1, <2>3, <3>1
  <2>4. ASSUME clean, NEW n \in DOMAIN scored'
        PROVE  scored'[n].entry = book'[scored'[n].key] /\ scored'[n].score = Weight(scored[n].key)'
    BY <1>5, <2>3, <2>4
  <2>5. /\ Len(scored') <= Topmost
        /\ \A n \in DOMAIN scored' : /\ <<scored'[n].key, scored'[n].entry>> \in seen'
                                     /\ ~IsOld(scored'[n].entry, search'.late)
        /\ \A m, n \in DOMAIN scored' : m < n => scored'[m].score >= scored'[n].score
        /\ clean' => \A m, n \in DOMAIN scored' : scored'[m].key = scored'[n].key => m = n
    BY <1>2, <1>3, <1>4, <1>5, <1>8 DEF KeysOnce
  <2>. QED
    BY <1>4, <1>5, <1>6, <2>2, <2>4, <2>5 DEF RecallTells
<1>. QED
  BY <1>6, <1>7, <1>9, <1>11

LEMMA QueryKeeps == ASSUME RecallInv, Query PROVE RecallInv'
<1>. USE DEF RecallInv
<1>1. PICK N : N = Cardinality(Stored)
  OBVIOUS
<1>2. N \in Nat /\ IsFiniteSet(1..N) /\ Cardinality(1..N) = N
  <2>1. N \in Nat
    BY <1>1, FS_CardinalityType DEF RecallTypes
  <2>. QED
    BY <2>1, FS_Interval
<1>3. PICK order \in [1..N -> Stored] :
        /\ \A i, j \in DOMAIN order : order[i] = order[j] => i = j
        /\ scored' = Ranked([i \in DOMAIN order |-> Match(order[i], book[order[i]], vectors[order[i]])])
  BY <1>1 DEF Query
<1>4. PICK ms : ms = [i \in 1..N |-> Match(order[i], book[order[i]], vectors[order[i]])]
  OBVIOUS
<1>5. scored' = Ranked(ms)
  <2>1. DOMAIN order = 1..N
    OBVIOUS
  <2>. QED
    BY <1>3, <1>4, <2>1
<1>6. \A k \in Stored : k \in BookKeys /\ book[k] \in Books /\ vectors[k] = Weight(k) /\ vectors[k] \in Nat
  <2>1. Stored \subseteq BookKeys
    BY DEF Stored
  <2>2. \A k \in Stored : book[k] \in Books /\ vectors[k] = book[k].close /\ vectors[k] \in Nat
    BY <2>1, StoredFacts DEF OneAtWork, Query
  <2>3. unembedded = {}
    BY DEF OneAtWork, Query
  <2>. QED
    BY <2>1, <2>2, <2>3 DEF Weight
<1>7. \A i \in 1..N : /\ ms[i].key = order[i] /\ ms[i].entry = book[order[i]]
                      /\ ms[i].score = Weight(order[i]) /\ ms[i] \in Matches
  BY <1>4, <1>6 DEF Match, Matches
<1>8. ms \in Seq(Matches) /\ DOMAIN ms = 1..N
  <2>1. ms \in [1..N -> Matches]
    BY <1>4, <1>7
  <2>. QED
    BY <1>2, <2>1, SeqDef
<1>9. \A k \in Stored : \E i \in 1..N : order[i] = k
  <2>1. order \in Injection(1..N, Stored)
    BY <1>3 DEF Injection, IsInjective
  <2>2. order \in Surjection(1..N, Stored)
    BY <1>1, <1>2, <2>1, FS_Injection DEF RecallTypes
  <2>. QED
    BY <2>2 DEF Surjection
<1>10. KeysOnce(ms) /\ AsStored(ms)
  BY <1>3, <1>7, <1>8 DEF KeysOnce, AsStored
<1>11. StoreAlone /\ Searching /\ UNCHANGED <<seen, clean>> /\ search' = [search EXCEPT !.step = "told"]
  BY DEF Query, StoreAlone, Searching
<1>12. \A i \in DOMAIN ms : <<ms[i].key, ms[i].entry>> \in seen
  BY <1>7, <1>8, <1>11 DEF Noticed
<1>13. \A k \in Stored : \E i \in DOMAIN ms : ms[i].key = k
  BY <1>7, <1>8, <1>9
<1>. QED
  BY <1>5, <1>8, <1>10, <1>11, <1>12, <1>13, TellsKeeps

LEMMA NextEntryKeeps == ASSUME RecallInv, NextEntry PROVE RecallInv'
<1>. USE DEF RecallInv
<1>. DEFINE ahead == {i \in DOMAIN slots : i > search.at /\ slots[i] # NoKey}
            least == CHOOSE i \in ahead : \A j \in ahead : i <= j
<1>1. /\ StoreAlone /\ Searching /\ UNCHANGED <<seen, clean>> /\ search.step = "next"
      /\ search = [x \in SearchFields |-> search[x]] /\ search.at \in Nat
  BY DEF NextEntry, StoreAlone, Searching, RecallTypes
<1>2. \A j \in DOMAIN slots : j \in Nat
  BY LenProperties DEF RecallTypes
<1>3. \A j \in DOMAIN slots : Passed(j) <=> j <= search.at
  BY <1>1 DEF Passed
<1>4. CASE /\ Cardinality(Stored) # search.size
           /\ search' = [search EXCEPT !.step = "raised"] /\ UNCHANGED scored
  <2>1. ~clean
    BY <1>1, <1>4 DEF Loop
  <2>2. /\ search'.step = "raised" /\ search'.at = search.at
        /\ search' = [x \in SearchFields |-> search'[x]] /\ Searching'
    BY <1>1, <1>4 DEF SearchFields, Searching
  <2>3. Slotted' /\ RecallTypes' /\ Stored' = Stored
    BY <1>1, <1>4, <2>2, StoreStays DEF RecallTypes
  <2>4. OneAtWork'
    BY <1>1, WorkStays
  <2>5. Noticed' /\ Loop' /\ RecallTells'
    BY <1>1, <1>4, <2>1, <2>2, <2>3 DEF Noticed, Loop, RecallTells, StoreAlone
  <2>. QED
    BY <2>3, <2>4, <2>5
<1>5. CASE /\ ahead # {} /\ UNCHANGED scored
           /\ search' = [search EXCEPT !.step = "score", !.at = least, !.key = slots[least],
                                       !.entry = book[slots[least]]]
  <2>1. PICK i : i = least
    OBVIOUS
  <2>2. i \in ahead /\ \A j \in ahead : i <= j
    <3>1. ahead \in SUBSET Nat
      BY <1>2
    <3>. HIDE DEF ahead
    <3>2. \E n \in ahead : \A m \in ahead : n <= m
      BY <1>5, <3>1, LeastElement
    <3>. QED
      BY <2>1, <3>2
  <2>3. i \in DOMAIN slots /\ i \in Nat /\ i > search.at /\ slots[i] # NoKey
    BY <1>2, <2>2
  <2>4. \A j \in DOMAIN slots : j < i /\ slots[j] # NoKey => j <= search.at
    BY <1>1, <1>2, <2>2, <2>3
  <2>5. PICK k : k = slots[i]
    OBVIOUS
  <2>6. k \in Stored /\ k \in BookKeys /\ book[k] \in Books /\ <<k, book[k]>> \in seen
    <3>1. k \in Stored
      BY <2>3, <2>5 DEF Slotted
    <3>2. k \in BookKeys
      BY <3>1 DEF Stored
    <3>. QED
      BY <1>1, <3>1, <3>2, StoredFacts DEF Noticed
  <2>7. /\ search'.step = "score" /\ search'.at = i /\ search'.key = k /\ search'.entry = book[k]
        /\ search'.size = search.size
        /\ search' = [x \in SearchFields |-> search'[x]] /\ Searching'
    <3>. HIDE DEF least
    <3>1. search' = [search EXCEPT !.step = "score", !.at = i, !.key = k, !.entry = book[k]]
      BY <1>5, <2>1, <2>5
    <3>. QED
      BY <1>1, <3>1 DEF SearchFields, Searching
  <2>8. Slotted' /\ RecallTypes' /\ Stored' = Stored
    BY <1>1, <1>5, <2>3, <2>7, StoreStays DEF RecallTypes
  <2>9. OneAtWork'
    BY <1>1, WorkStays
  <2>10. Noticed' /\ RecallTells'
    <3>1. RecallTells'
      BY <2>7 DEF RecallTells
    <3>2. \A l \in Stored' : <<l, book'[l]>> \in seen'
      BY <1>1, <2>8 DEF Noticed, StoreAlone
    <3>3. \A l \in DOMAIN scored' : <<scored'[l].key, scored'[l].entry>> \in seen'
      BY <1>1, <1>5 DEF Noticed
    <3>4. search'.key \in BookKeys /\ search'.entry \in Books /\ <<search'.key, search'.entry>> \in seen'
      BY <1>1, <2>6, <2>7
    <3>. QED
      BY <3>1, <3>2, <3>3, <3>4 DEF Noticed
  <2>11. \A j \in DOMAIN slots : Passed(j)' <=> j < i
    BY <1>2, <2>3, <2>7 DEF Passed
  <2>12. \A j \in DOMAIN slots : Passed(j) => Passed(j)'
    BY <1>1, <1>2, <1>3, <2>3, <2>11
  <2>13. \A j \in DOMAIN slots : Passed(j)' /\ slots[j] # NoKey => Passed(j)
    BY <1>3, <2>4, <2>11
  <2>14. slots' = slots /\ book' = book /\ scored' = scored /\ clean' = clean
    BY <1>1, <1>5 DEF StoreAlone
  <2>15. /\ AsStored(scored) => AsStored(scored)'
         /\ \A l \in BookKeys : Weight(l)' = Weight(l)
    <3>1. \A l \in Stored : Weight(l)' = Weight(l)
      BY <1>1, StoreStays DEF Stored
    <3>. QED
      BY <1>1, <2>8, <2>14, <3>1, StoreStays DEF AsStored
  <2>16. KeysOnce(scored) => KeysOnce(scored)'
    BY <2>14 DEF KeysOnce
  <2>17. Loop'
    <3>1. \A j \in DOMAIN slots : slots[j] # NoKey => slots[j] \in BookKeys
      BY DEF Slotted, Stored
    <3>. QED
      BY <1>1, <2>3, <2>5, <2>7, <2>8, <2>12, <2>13, <2>14, <2>15, <2>16, <3>1 DEF Loop
  <2>. QED
    BY <2>8, <2>9, <2>10, <2>17
<1>6. CASE /\ ahead = {} /\ scored' = Ranked(scored) /\ search' = [search EXCEPT !.step = "told"]
  <2>1. scored \in Seq(Matches) /\ \A i \in DOMAIN scored : <<scored[i].key, scored[i].entry>> \in seen
    BY DEF RecallTypes, Noticed
  <2>2. ASSUME clean
        PROVE  /\ KeysOnce(scored) /\ AsStored(scored)
               /\ \A k \in Stored : Weight(k) = 0 \/ \E i \in DOMAIN scored : scored[i].key = k
    <3>1. ASSUME NEW k \in Stored PROVE Weight(k) = 0 \/ \E i \in DOMAIN scored : scored[i].key = k
      <4>1. PICK j \in DOMAIN slots : slots[j] = k
        BY DEF Slotted
      <4>2. k # NoKey
        BY RecallNumbers DEF Stored
      <4>3. Passed(j)
        BY <1>1, <1>2, <1>3, <1>6, <4>1, <4>2
      <4>. QED
        BY <1>1, <2>2, <4>1, <4>2, <4>3 DEF Loop
    <3>. QED
      BY <1>1, <2>2, <3>1 DEF Loop
  <2>. QED
    BY <1>1, <1>6, <2>1, <2>2, TellsKeeps
<1>. QED
  BY <1>4, <1>5, <1>6 DEF NextEntry

LEMMA ScoresKeeps == ASSUME RecallInv, Scores PROVE RecallInv'
<1>. USE DEF RecallInv
<1>1. /\ StoreAlone /\ Searching /\ UNCHANGED <<seen, clean>> /\ search.step = "score"
      /\ search = [x \in SearchFields |-> search[x]] /\ search.at \in Nat
      /\ search.key \in BookKeys /\ search.entry \in Books /\ <<search.key, search.entry>> \in seen
  BY DEF Scores, StoreAlone, Searching, RecallTypes, Noticed
<1>2. \A j \in DOMAIN slots : j \in Nat
  BY LenProperties DEF RecallTypes
<1>3. PICK v : v = vectors[search.key]
  OBVIOUS
<1>4. v \in Closeness \cup {NoVector}
  BY <1>1, <1>3 DEF RecallTypes
<1>5. clean => /\ search.at \in DOMAIN slots /\ search.key = slots[search.at] /\ search.key \in Stored
               /\ search.entry = book[search.key]
               /\ v = NoVector => search.key \in unembedded
               /\ v # NoVector => v = Weight(search.key)
  <2>. SUFFICES ASSUME clean
                PROVE  /\ search.at \in DOMAIN slots /\ search.key = slots[search.at] /\ search.key \in Stored
                       /\ search.entry = book[search.key]
                       /\ v = NoVector => search.key \in unembedded
                       /\ v # NoVector => v = Weight(search.key)
    OBVIOUS
  <2>1. search.at \in DOMAIN slots /\ search.key = slots[search.at] /\ search.entry = book[search.key]
    BY <1>1 DEF Loop
  <2>2. search.key \in Stored
    BY <1>1, <2>1, RecallNumbers DEF Slotted
  <2>3. \A w \in Threads : writing[w].key # search.key
    BY <1>1, RecallNumbers DEF OneAtWork, Resting
  <2>4. search.key \in unembedded \/ v = Vector(search.key)
    BY <1>1, <1>3, <2>3 DEF OneAtWork
  <2>5. book[search.key].close \in Closeness /\ Vector(search.key) = book[search.key].close
    BY <1>1, <2>2, StoredFacts
  <2>6. v # NoVector => v = Weight(search.key)
    BY <1>3, <2>4, <2>5 DEF Weight
  <2>. QED
    BY <1>1, <2>1, <2>2, <2>4, <2>5, <2>6, RecallNumbers
<1>6. OneAtWork'
  BY <1>1, WorkStays
<1>7. CASE v = NoVector
  <2>1. search' = [search EXCEPT !.step = "raised"] /\ UNCHANGED scored
    BY <1>3, <1>7 DEF Scores
  <2>2. /\ search'.step = "raised" /\ search'.at = search.at
        /\ search' = [x \in SearchFields |-> search'[x]] /\ Searching'
    BY <1>1, <2>1 DEF SearchFields, Searching
  <2>3. Slotted' /\ RecallTypes' /\ Stored' = Stored
    BY <1>1, <2>1, <2>2, StoreStays DEF RecallTypes
  <2>4. Noticed' /\ Loop' /\ RecallTells'
    <3>1. clean' => search.key \in unembedded' \cap Stored' /\ vectors'[search.key] = NoVector
      BY <1>1, <1>3, <1>5, <1>7, <2>3 DEF StoreAlone
    <3>. QED
      BY <1>1, <2>1, <2>2, <2>3, <3>1 DEF Noticed, Loop, RecallTells, StoreAlone
  <2>. QED
    BY <1>6, <2>3, <2>4
<1>8. CASE v # NoVector
  <2>1. /\ search' = [search EXCEPT !.step = "next"]
        /\ scored' = IF v > 0 THEN Append(scored, Match(search.key, search.entry, v)) ELSE scored
    BY <1>3, <1>8 DEF Scores
  <2>2. v \in Nat
    BY <1>4, <1>8, RecallNumbers
  <2>3. PICK m : m = Match(search.key, search.entry, v)
    OBVIOUS
  <2>4. m \in Matches /\ m.key = search.key /\ m.entry = search.entry /\ m.score = v
    BY <1>1, <2>2, <2>3 DEF Match, Matches
  <2>5. PICK n : n = Len(scored)
    OBVIOUS
  <2>6. scored \in Seq(Matches) /\ n \in Nat /\ DOMAIN scored = 1..n
    BY <2>5, LenProperties DEF RecallTypes
  <2>7. /\ search'.step = "next" /\ search'.at = search.at /\ search'.size = search.size
        /\ search' = [x \in SearchFields |-> search'[x]] /\ Searching'
    BY <1>1, <2>1 DEF SearchFields, Searching
  <2>8. /\ scored' \in Seq(Matches) /\ \A i \in 1..n : i \in DOMAIN scored' /\ scored'[i] = scored[i]
        /\ v > 0 => DOMAIN scored' = 1..(n + 1) /\ scored'[n + 1] = m
        /\ v = 0 => scored' = scored
        /\ \A i \in DOMAIN scored' : i \in 1..n \/ (v > 0 /\ i = n + 1)
    <3>1. CASE v > 0
      <4>1. scored' = Append(scored, m)
        BY <2>1, <2>3, <3>1
      <4>2. /\ scored' \in Seq(Matches) /\ DOMAIN scored' = 1..(n + 1) /\ scored'[n + 1] = m
            /\ \A i \in 1..n : scored'[i] = scored[i]
        BY <2>4, <2>5, <2>6, <4>1, GrownByOne
      <4>. QED
        BY <2>6, <3>1, <4>2
    <3>2. CASE ~(v > 0)
      BY <2>1, <2>2, <2>6, <3>2
    <3>. QED
      BY <3>1, <3>2
  <2>9. Slotted' /\ RecallTypes' /\ Stored' = Stored
    BY <1>1, <2>7, <2>8, StoreStays DEF RecallTypes
  <2>10. slots' = slots /\ book' = book /\ clean' = clean /\ seen' = seen
    BY <1>1 DEF StoreAlone
  <2>11. Noticed'
    BY <1>1, <2>4, <2>6, <2>7, <2>8, <2>9, <2>10 DEF Noticed
  <2>12. RecallTells'
    BY <2>7 DEF RecallTells
  <2>13. \A j \in DOMAIN slots : /\ Passed(j) <=> j < search.at
                                 /\ Passed(j)' <=> j <= search.at
    BY <1>1, <1>2, <2>7 DEF Passed
  <2>14. ASSUME clean
         PROVE  /\ search'.size = Cardinality(Stored') /\ KeysOnce(scored)' /\ AsStored(scored)'
                /\ \A i \in DOMAIN scored' : \E j \in DOMAIN slots : Passed(j)' /\ slots[j] = scored'[i].key
                /\ \A j \in DOMAIN slots :
                     Passed(j)' /\ slots[j] # NoKey =>
                       Weight(slots[j]) = 0 \/ \E i \in DOMAIN scored' : scored'[i].key = slots[j]
    <3>1. /\ search.size = Cardinality(Stored) /\ KeysOnce(scored) /\ AsStored(scored)
          /\ \A i \in DOMAIN scored : \E j \in DOMAIN slots : Passed(j) /\ slots[j] = scored[i].key
          /\ \A j \in DOMAIN slots :
               Passed(j) /\ slots[j] # NoKey =>
                 Weight(slots[j]) = 0 \/ \E i \in DOMAIN scored : scored[i].key = slots[j]
      BY <1>1, <2>14 DEF Loop
    <3>2. \A i \in 1..n : scored[i].key # search.key
      <4>1. ASSUME NEW i \in 1..n, scored[i].key = search.key PROVE FALSE
        <5>1. PICK j \in DOMAIN slots : j < search.at /\ slots[j] = search.key
          BY <2>6, <2>13, <3>1, <4>1
        <5>2. slots[j] # NoKey
          BY <1>1, <5>1, RecallNumbers
        <5>3. j = search.at
          BY <1>5, <2>14, <5>1, <5>2 DEF Slotted
        <5>. QED
          BY <1>1, <1>2, <5>1, <5>3
      <4>. QED
        BY <4>1
    <3>3. KeysOnce(scored)'
      BY <2>4, <2>6, <2>8, <3>1, <3>2 DEF KeysOnce
    <3>4. AsStored(scored)'
      <4>1. \A l \in Stored : Weight(l)' = Weight(l)
        BY <1>1, StoreStays DEF Stored
      <4>2. \A i \in 1..n : /\ scored'[i].key \in Stored /\ scored'[i].entry = book[scored'[i].key]
                             /\ scored'[i].score = Weight(scored'[i].key)
        BY <2>6, <2>8, <3>1 DEF AsStored
      <4>3. m.key \in Stored /\ m.entry = book[m.key] /\ m.score = Weight(m.key)
        BY <1>5, <1>8, <2>4, <2>14
      <4>4. \A i \in DOMAIN scored' : /\ scored'[i].key \in Stored /\ scored'[i].entry = book[scored'[i].key]
                                       /\ scored'[i].score = Weight(scored'[i].key)
        BY <2>8, <4>2, <4>3
      <4>. QED
        BY <2>9, <2>10, <4>1, <4>4 DEF AsStored
    <3>5. \A i \in DOMAIN scored' : \E j \in DOMAIN slots : Passed(j)' /\ slots[j] = scored'[i].key
      <4>1. \A j \in DOMAIN slots : Passed(j) => Passed(j)'
        BY <1>1, <1>2, <2>13
      <4>2. PICK a : a = search.at
        OBVIOUS
      <4>3. a \in DOMAIN slots /\ a <= search.at /\ slots[a] = search.key
        BY <1>1, <1>5, <2>14, <4>2
      <4>4. Passed(a)'
        BY <2>13, <4>3
      <4>5. ASSUME NEW i \in 1..n PROVE \E j \in DOMAIN slots : Passed(j)' /\ slots[j] = scored'[i].key
        BY <2>6, <2>8, <3>1, <4>1
      <4>6. ASSUME v > 0 PROVE \E j \in DOMAIN slots : Passed(j)' /\ slots[j] = scored'[n + 1].key
        BY <2>4, <2>8, <4>3, <4>4, <4>6
      <4>. QED
        BY <2>8, <4>5, <4>6
    <3>6. ASSUME NEW j \in DOMAIN slots, Passed(j)', slots[j] # NoKey
          PROVE  Weight(slots[j]) = 0 \/ \E i \in DOMAIN scored' : scored'[i].key = slots[j]
      <4>1. CASE j = search.at
        <5>1. v = 0 => Weight(slots[j]) = 0
          BY <1>5, <1>8, <2>14, <4>1
        <5>2. v > 0 => n + 1 \in DOMAIN scored' /\ scored'[n + 1].key = slots[j]
          BY <1>5, <2>4, <2>6, <2>8, <2>14, <4>1
        <5>. QED
          BY <2>2, <5>1, <5>2
      <4>2. CASE j # search.at
        <5>1. Passed(j)
          BY <1>1, <1>2, <2>13, <3>6, <4>2
        <5>. QED
          BY <2>6, <2>8, <3>1, <3>6, <5>1
      <4>. QED
        BY <4>1, <4>2
    <3>. QED
      BY <2>7, <2>9, <3>1, <3>3, <3>4, <3>5, <3>6
  <2>15. Loop'
    <3>1. /\ \A j \in DOMAIN slots : slots[j] # NoKey => slots[j] \in Stored
          /\ \A l \in Stored : Weight(l)' = Weight(l)
      BY <1>1, StoreStays DEF Slotted, Stored
    <3>. QED
      BY <2>7, <2>10, <2>14, <3>1 DEF Loop
  <2>. QED
    BY <1>6, <2>9, <2>11, <2>12, <2>15
<1>. QED
  BY <1>7, <1>8

LEMMA RecallStep == ASSUME RecallInv, [RecallNext]_recallVars PROVE RecallInv'
<1>1. CASE UNCHANGED recallVars
  <2>1. StoreAlone /\ UNCHANGED <<search, scored, seen, clean>>
    BY <1>1 DEF recallVars, StoreAlone
  <2>2. Stored' = Stored /\ Slotted' /\ RecallTypes'
    <3>1. Searching' = Searching
      BY <2>1 DEF Searching
    <3>. QED
      BY <2>1, <3>1, StoreStays DEF RecallTypes, RecallInv
  <2>3. OneAtWork'
    BY <2>1, WorkStays DEF Searching, RecallInv
  <2>4. Noticed' /\ RecallTells'
    BY <2>1, <2>2 DEF Noticed, RecallTells, Searching, StoreAlone, Weight, RecallInv
  <2>5. Loop'
    BY <2>1, <2>2 DEF Loop, Passed, AsStored, KeysOnce, StoreAlone, Weight, RecallInv
  <2>. QED
    BY <2>2, <2>3, <2>4, <2>5 DEF RecallInv
<1>. QED
  BY <1>1, SetEntryKeeps, PutVectorKeeps, EmbedRaisesKeeps, DropVectorKeeps, DropEntryKeeps, GrowOldKeeps, SearchBeginsKeeps,
     QueryKeeps, NextEntryKeeps, ScoresKeeps, RecalledKeeps DEF RecallNext

LEMMA RecallFirst == ASSUME RecallInit PROVE RecallInv
<1>1. Stored = {} /\ IsFiniteSet(Stored) /\ DOMAIN slots = {} /\ DOMAIN scored = {}
  <2>1. Stored = {}
    BY DEF RecallInit, Stored
  <2>2. DOMAIN slots = {} /\ DOMAIN scored = {}
    BY DEF RecallInit
  <2>. QED
    BY <2>1, <2>2, FS_EmptySet
<1>2. search.step = "none" /\ search.at = 0 /\ ~Searching
  BY DEF RecallInit, NoSearch, Searching
<1>3. search = [x \in SearchFields |-> search[x]]
  BY DEF RecallInit, NoSearch, SearchFields
<1>4. RecallTypes
  BY <1>1, <1>2, <1>3 DEF RecallInit, RecallTypes, Writings
<1>5. unembedded = {} /\ \A k \in BookKeys : vectors[k] = Vector(k)
  BY DEF RecallInit, Vector
<1>6. \A w \in Threads : writing[w] = Resting /\ writing[w].step = "rests"
  BY DEF RecallInit, Resting
<1>7. OneAtWork
  BY <1>2, <1>5, <1>6 DEF OneAtWork
<1>. QED
  BY <1>1, <1>2, <1>4, <1>7 DEF RecallInv, Slotted, Noticed, Loop, RecallTells

(* A search tells at most k entries, each there while it ran and not expired *)
(* when it began, best first; while no two calls overlap it raises only over *)
(* an entry the embedder raised on before it had a vector, tells each entry  *)
(* once with its own score, or its older one's where the embedder raised,    *)
(* and leaves a close one out only for k as close, for any keys, threads,    *)
(* closeness and number of writes (Mycelium.search and both backends).       *)
THEOREM RecallTellsHolds == RecallSpec => []RecallTells
<1>1. RecallInit => RecallInv
  BY RecallFirst
<1>2. RecallInv /\ [RecallNext]_recallVars => RecallInv'
  BY RecallStep
<1>3. RecallInv => RecallTells
  BY DEF RecallInv
<1>. QED
  BY <1>1, <1>2, <1>3, PTL DEF RecallSpec

(* What a process holds of the shared memory is its own, a search tells what  *)
(* was there to be found, and two threads of one connection spoil each        *)
(* other's writes in one way only (Mycelium, Mycelium.search, SqliteBackend). *)
THEOREM MemoryTellsHolds == Spec /\ RecallSpec /\ ConnectionSpec => []MemoryTells
BY SubstrateInvHolds, RecallTellsHolds, ConnectionTellsHolds, PTL DEF MemoryTells

(* What is in an inbox stays there until it is read, and no walk of a thread *)
(* loses or doubles a message (Postbox.fetch, Postbox.thread).               *)
THEOREM MailSoundHolds == Spec /\ MailSpec => []MailSound
BY MailKeptHolds, ThreadWholeHolds, PTL DEF MailSound

-------------------------------------------------------------------------------
(* Generations.                                                              *)
(*                                                                           *)
(* The best of a generation is the first of the next pool, so where grades   *)
(* are steady it is graded again as it was (Carried).                        *)

EvolveSpec == EvolveInit /\ [][EvolveNext]_evolveVars

Genomes == [prefs : Genes, fitness : Grades]
Ranking == [1..Population -> Genomes]

\* A grade of these preferences.
Fair(g) == steady => g.fitness = merit[g.prefs]

EvolveTypes ==
  /\ merit \in [Genes -> Grades] /\ pool \in [1..Population -> Genes]
  /\ graded \in Seq(Genomes) /\ Len(graded) <= Population
  /\ generations \in Seq(Ranking)
  /\ fittest.fitness \in Nat /\ (generations = <<>> => fittest = NoGenome)

Carried ==
  /\ \A n \in 1..Len(graded) : graded[n].prefs = pool[n] /\ Fair(graded[n])
  /\ generations # <<>> => LET best == generations[Len(generations)][1]
                           IN pool[1] = best.prefs /\ Fair(best)

EvolveInv == EvolveTypes /\ Carried /\ BestKept

LEMMA PopulationFacts ==
  /\ Population \in Nat /\ Survivors \in Nat /\ 1 \in 1..Population /\ 1 \in 1..Survivors
  /\ Grades \subseteq Nat
  BY EvolutionAssumption

\* The ranking of a generation that has been graded.
LEMMA RankingOf ==
  ASSUME NEW s \in Seq(Genomes), Len(s) = Population
  PROVE  LET r == ByFitness(s)
         IN  /\ r \in Ranking
             /\ \A n \in 1..Population : \E m \in 1..Population : r[n] = s[m]
             /\ \A m \in 1..Population : r[1].fitness >= s[m].fitness
<1>. DEFINE D == 1..Population
            f == [n \in D |-> s[n].fitness]
            o == HighestFirst(f)
            r == ByFitness(s)
<1>1. DOMAIN s = D /\ \A n \in D : s[n] \in Genomes /\ s[n].fitness \in Nat
  <2>1. DOMAIN s = D /\ \A n \in D : s[n] \in Genomes
    BY LenProperties, ElementOfSeq
  <2>. QED
    BY <2>1, PopulationFacts DEF Genomes
<1>2. D \in SUBSET Nat /\ IsFiniteSet(D) /\ Cardinality(D) = Population /\ f \in [D -> Nat]
  <2>1. IsFiniteSet(D) /\ Cardinality(D) = Population
    BY PopulationFacts, FS_Interval
  <2>2. D \in SUBSET Nat
    BY PopulationFacts
  <2>. QED
    BY <1>1, <2>1, <2>2
<1>3. r = [n \in D |-> s[o[n]]]
  BY <1>1 DEF ByFitness
<1>. HIDE DEF o, r
<1>4. /\ o \in [D -> D] /\ \A i \in D : \E n \in D : o[n] = i
      /\ \A m, n \in D : m < n => f[o[m]] >= f[o[n]]
  <2>1. /\ o \in [1..Cardinality(D) -> D] /\ \A i \in D : \E n \in 1..Cardinality(D) : o[n] = i
        /\ \A m, n \in 1..Cardinality(D) : m < n => f[o[m]] >= f[o[n]]
    <3>. HIDE DEF D, f
    <3>. QED
      BY <1>2, Sorted DEF o
  <2>. QED
    BY <1>2, <2>1
<1>5. r \in Ranking
  BY <1>1, <1>3, <1>4 DEF Ranking
<1>6. \A n \in D : \E m \in D : r[n] = s[m]
  BY <1>3, <1>4
<1>7. ASSUME NEW m \in D PROVE r[1].fitness >= s[m].fitness
  <2>1. PICK n \in D : o[n] = m
    BY <1>4
  <2>2. 1 \in D /\ r[1] = s[o[1]] /\ o[1] \in D /\ f[o[1]] = r[1].fitness /\ f[m] = s[m].fitness
    BY <1>3, <1>4, PopulationFacts
  <2>3. f[m] \in Nat
    BY <1>2
  <2>4. n = 1 \/ 1 < n
    OBVIOUS
  <2>5. n = 1 => r[1].fitness >= s[m].fitness
    BY <2>1, <2>2, <2>3
  <2>6. 1 < n => f[o[1]] >= f[o[n]]
    BY <1>4, <2>2
  <2>. QED
    BY <2>1, <2>2, <2>4, <2>5, <2>6
<1>. QED
  BY <1>5, <1>6, <1>7 DEF r

LEMMA EvaluateKeeps == ASSUME EvolveInv, Evaluate PROVE EvolveInv'
<1>1. PICK grade \in Grades :
        /\ Len(graded) < Population
        /\ steady => grade = merit[pool[Len(graded) + 1]]
        /\ graded' = Append(graded, [prefs |-> pool[Len(graded) + 1], fitness |-> grade])
        /\ UNCHANGED <<steady, merit, pool, fittest, generations>>
  BY DEF Evaluate
<1>. DEFINE k == Len(graded) + 1
            x == [prefs |-> pool[k], fitness |-> grade]
<1>2. /\ graded \in Seq(Genomes) /\ Len(graded) \in Nat /\ k \in 1..Population
      /\ pool[k] \in Genes /\ x \in Genomes
  BY <1>1, PopulationFacts DEF EvolveInv, EvolveTypes, Genomes
<1>3. graded' \in Seq(Genomes) /\ Len(graded') = k /\ graded'[k] = x /\ k \in Nat
      /\ \A n \in 1..Len(graded) : graded'[n] = graded[n]
  BY <1>1, <1>2
<1>4. EvolveTypes'
  BY <1>1, <1>2, <1>3 DEF EvolveInv, EvolveTypes
<1>5. Carried'
  <2>1. ASSUME NEW n \in 1..k PROVE graded'[n].prefs = pool[n] /\ (steady => graded'[n].fitness = merit[pool[n]])
    <3>1. CASE n = k
      BY <1>1, <1>3, <3>1
    <3>2. CASE n # k
      <4>1. n \in 1..Len(graded)
        BY <1>2, <3>2
      <4>. QED
        BY <1>3, <4>1 DEF EvolveInv, Carried, Fair
    <3>. QED
      BY <3>1, <3>2
  <2>. QED
    BY <1>1, <1>3, <2>1 DEF EvolveInv, Carried, Fair
<1>6. BestKept'
  BY <1>1 DEF EvolveInv, BestKept
<1>. QED
  BY <1>4, <1>5, <1>6 DEF EvolveInv

LEMMA GenerationKeeps == ASSUME EvolveInv, Generation PROVE EvolveInv'
<1>1. PICK r : r = ByFitness(graded)
  OBVIOUS
<1>2. /\ Len(graded) = Population
      /\ generations' = Append(generations, r)
      /\ fittest' = IF fittest = NoGenome \/ r[1].fitness > fittest.fitness THEN r[1] ELSE fittest
      /\ pool' \in Refilled(r) /\ graded' = <<>> /\ UNCHANGED <<steady, merit>>
  BY <1>1 DEF Generation
<1>3. /\ r \in Ranking
      /\ \A n \in 1..Population : \E m \in 1..Population : r[n] = graded[m]
      /\ \A m \in 1..Population : r[1].fitness >= graded[m].fitness
  BY <1>1, <1>2, RankingOf DEF EvolveInv, EvolveTypes
<1>4. /\ \A n \in 1..Population : r[n] \in Genomes /\ r[n].fitness \in Nat /\ Fair(r[n])
      /\ \A n \in 1..Population : r[1].fitness >= r[n].fitness
  <2>1. ASSUME NEW n \in 1..Population PROVE r[n] \in Genomes /\ r[n].fitness \in Nat /\ Fair(r[n])
    <3>1. r[n] \in Genomes /\ r[n].fitness \in Nat
      BY <1>3, PopulationFacts DEF Ranking, Genomes
    <3>2. PICK m \in 1..Population : r[n] = graded[m]
      BY <1>3
    <3>. QED
      BY <1>2, <3>1, <3>2 DEF EvolveInv, Carried
  <2>2. ASSUME NEW n \in 1..Population PROVE r[1].fitness >= r[n].fitness
    BY <1>3
  <2>. QED
    BY <2>1, <2>2
<1>5. pool' \in [1..Population -> Genes] /\ pool'[1] = r[1].prefs
  BY <1>2, PopulationFacts DEF Refilled
<1>. DEFINE G == Len(generations)
<1>6. /\ generations \in Seq(Ranking) /\ G \in Nat /\ generations' \in Seq(Ranking)
      /\ Len(generations') = G + 1 /\ generations'[G + 1] = r
      /\ \A g \in 1..G : generations'[g] = generations[g] /\ generations[g] \in Ranking
      /\ DOMAIN generations' = 1..(G + 1) /\ DOMAIN generations = 1..G /\ generations' # <<>>
  <2>1. generations \in Seq(Ranking) /\ r \in Ranking
    BY <1>3 DEF EvolveInv, EvolveTypes
  <2>. QED
    BY <1>2, <2>1, GrownByOne
<1>7. /\ fittest'.fitness \in Nat /\ fittest'.fitness >= fittest.fitness /\ fittest'.fitness >= r[1].fitness
      /\ fittest' = r[1] \/ (fittest' = fittest /\ fittest # NoGenome)
  <2>1. r[1].fitness \in Nat /\ fittest.fitness \in Nat
    BY <1>4, PopulationFacts DEF EvolveInv, EvolveTypes
  <2>2. NoGenome.fitness = 0
    BY DEF NoGenome
  <2>. QED
    BY <1>2, <2>1, <2>2
<1>8. EvolveTypes'
  <2>1. graded' \in Seq(Genomes) /\ Len(graded') <= Population
    BY <1>2, PopulationFacts
  <2>. QED
    BY <1>2, <1>5, <1>6, <1>7, <2>1 DEF EvolveInv, EvolveTypes
<1>9. Carried'
  <2>1. Fair(r[1])'
    BY <1>2, <1>4, PopulationFacts DEF Fair
  <2>2. Len(graded') = 0
    BY <1>2
  <2>. QED
    BY <1>5, <1>6, <2>1, <2>2 DEF Carried
<1>10. ASSUME NEW g \in 1..(G + 1), NEW n \in 1..Population
       PROVE  generations'[g][n].fitness <= fittest'.fitness
  <2>1. CASE g = G + 1
    <3>1. generations'[g][n] = r[n] /\ r[n].fitness \in Nat /\ r[1].fitness \in Nat
      BY <1>4, <1>6, <2>1, PopulationFacts
    <3>. QED
      BY <1>4, <1>7, <3>1
  <2>2. CASE g \in 1..G
    <3>1. generations'[g] = generations[g] /\ generations[g][n].fitness \in Nat /\ n \in DOMAIN generations[g]
      BY <1>6, <2>2, PopulationFacts DEF Ranking, Genomes
    <3>2. generations[g][n].fitness <= fittest.fitness
      BY <1>6, <2>2, <3>1 DEF EvolveInv, BestKept
    <3>. QED
      BY <1>7, <3>1, <3>2 DEF EvolveInv, EvolveTypes
  <2>. QED
    BY <1>6, <2>1, <2>2
<1>11. ASSUME NEW g \in 1..(G + 1), steady, g > 1
       PROVE  generations'[g][1].fitness >= generations'[g - 1][1].fitness
  <2>1. CASE g = G + 1
    <3>1. /\ G \in 1..G /\ generations'[g - 1] = generations[G] /\ generations'[g] = r
          /\ generations # <<>>
      BY <1>6, <1>11, <2>1
    <3>2. pool[1] = generations[G][1].prefs /\ generations[G][1].fitness = merit[pool[1]]
      BY <1>11, <3>1 DEF EvolveInv, Carried, Fair
    <3>3. 1 \in 1..Len(graded) /\ graded[1].fitness = merit[pool[1]]
      BY <1>2, <1>11, PopulationFacts DEF EvolveInv, Carried, Fair
    <3>. QED
      BY <1>2, <1>3, <3>1, <3>2, <3>3
  <2>2. CASE g \in 1..G
    <3>1. g - 1 \in 1..G
      BY <1>6, <1>11, <2>2
    <3>. QED
      BY <1>6, <1>11, <2>2, <3>1 DEF EvolveInv, BestKept
  <2>. QED
    BY <1>6, <2>1, <2>2
<1>12. \E g \in 1..(G + 1) : \E n \in 1..Population : generations'[g][n] = fittest'
  <2>1. CASE fittest' = r[1]
    BY <1>6, <2>1, PopulationFacts
  <2>2. CASE fittest' = fittest /\ generations # <<>>
    <3>1. PICK g \in 1..G : \E n \in DOMAIN generations[g] : generations[g][n] = fittest
      BY <1>6, <2>2 DEF EvolveInv, BestKept
    <3>2. DOMAIN generations[g] = 1..Population /\ generations'[g] = generations[g] /\ g \in 1..(G + 1)
      BY <1>6 DEF Ranking
    <3>. QED
      BY <2>2, <3>1, <3>2
  <2>3. CASE fittest' = fittest /\ generations = <<>> /\ fittest # NoGenome
    BY <2>3 DEF EvolveInv, EvolveTypes
  <2>. QED
    BY <1>7, <2>1, <2>2, <2>3
<1>13. BestKept'
  <2>1. \A g \in 1..(G + 1) : DOMAIN (generations'[g]) = 1..Population
    BY <1>3, <1>6 DEF Ranking
  <2>. QED
    BY <1>2, <1>6, <1>10, <1>11, <1>12, <2>1 DEF BestKept
<1>. QED
  BY <1>8, <1>9, <1>13 DEF EvolveInv

(* The result of evolve is the best that any generation has seen, though     *)
(* grades vary; and where they do not, no generation is worse than the one   *)
(* before it, for any sizes, preferences and grades (evolve).                *)
THEOREM BestKeptHolds == EvolveSpec => []BestKept
<1>1. EvolveInit => EvolveInv
  <2>. SUFFICES ASSUME EvolveInit PROVE EvolveInv
    OBVIOUS
  <2>1. EvolveTypes
    BY PopulationFacts DEF EvolveInit, EvolveTypes, NoGenome
  <2>. QED
    BY <2>1 DEF EvolveInit, EvolveInv, Carried, BestKept
<1>2. EvolveInv /\ [EvolveNext]_evolveVars => EvolveInv'
  <2>. SUFFICES ASSUME EvolveInv, [EvolveNext]_evolveVars PROVE EvolveInv'
    OBVIOUS
  <2>1. CASE UNCHANGED evolveVars
    BY <2>1 DEF evolveVars, EvolveInv, EvolveTypes, Carried, Fair, BestKept
  <2>. QED
    BY <2>1, EvaluateKeeps, GenerationKeeps DEF EvolveNext
<1>. QED
  BY <1>1, <1>2, PTL DEF EvolveSpec, EvolveInv

-------------------------------------------------------------------------------
(* Votes.                                                                    *)
(*                                                                           *)
(* A thread that was answered, by the cache or by the brain, is left alone;  *)
(* a thread that has stored an entry owes an eviction, so an entry too many  *)
(* is matched by a thread between the two (CacheKept).                       *)

VotingSpec == VotingInit /\ [][VotingNext]_votingVars

TreePlaces == {"out", "touch", "think", "store", "measure", "evict", "answered", "broken"}
Entries == [prompt : Prompts, answer : Answers]
Evicting == {t \in Trees : treeAt[t] \in {"measure", "evict"}}

\* One entry for a prompt, each with an answer that was given to it.
OnePerPrompt(c) == \A i, j \in DOMAIN c : c[i].prompt = c[j].prompt => i = j
AllGiven(c) == \A i \in DOMAIN c : <<c[i].prompt, c[i].answer>> \in given

VotingTypes ==
  /\ prompt \in [Trees -> Prompts] /\ treeAt \in [Trees -> TreePlaces]
  /\ answer = [t \in Trees |-> answer[t]]
  /\ cache \in Seq(Entries)

AnswersGiven ==
  \A t \in Trees : treeAt[t] \in {"touch", "store", "measure", "evict", "answered"} =>
    answer[t] \in Answers /\ <<prompt[t], answer[t]>> \in given

CacheKept ==
  /\ OnePerPrompt(cache) /\ AllGiven(cache)
  /\ CacheSize # 0 => Len(cache) <= CacheSize + Cardinality(Evicting)

Settled ==
  verdict.consensus =>
    /\ \A t \in Trees : treeAt[t] = "answered"
    /\ LET for == {t \in Trees : answer[t] = verdict.answer}
       IN /\ \A a \in Answers \ {verdict.answer} :
               Cardinality({t \in Trees : answer[t] = a}) < Cardinality(for)
          /\ Cardinality(for) * 100 >= Threshold * Cardinality(Trees)

VotingInv == VotingTypes /\ AnswersGiven /\ CacheKept /\ Settled

LEMMA VotingNumbers ==
  /\ Trees = 1..Cardinality(Trees) /\ IsFiniteSet(Trees) /\ Cardinality(Trees) \in Nat /\ 1 \in Trees
  /\ CacheSize \in Nat /\ Threshold \in Nat
<1>1. Cardinality(Trees) \in Nat
  BY VotingAssumption, FS_CardinalityType
<1>. QED
  BY <1>1, VotingAssumption

LEMMA EvictingFacts == IsFiniteSet(Evicting) /\ Cardinality(Evicting) \in Nat
<1>1. Evicting \subseteq Trees
  BY DEF Evicting
<1>. QED
  BY <1>1, VotingNumbers, FS_Subset, FS_CardinalityType

\* One more of the threads at a place, or one less.
LEMMA OneMore ==
  ASSUME NEW A, NEW B, NEW t, IsFiniteSet(A), t \notin A, B = A \cup {t}
  PROVE  Cardinality(B) = Cardinality(A) + 1
BY FS_AddElement

\* The operations of the OrderedDict.
LEMMA MovedToEndFacts ==
  ASSUME NEW c \in Seq(Entries), NEW k \in DOMAIN c, NEW d, d = MovedToEnd(c, k)
  PROVE  /\ d \in Seq(Entries) /\ Len(d) = Len(c) /\ DOMAIN d = DOMAIN c
         /\ \A i \in DOMAIN d : \E j \in DOMAIN c : d[i] = c[j]
         /\ OnePerPrompt(c) => OnePerPrompt(d)
<1>. DEFINE n == Len(c)
            from(i) == IF i < k THEN i ELSE IF i < n THEN i + 1 ELSE k
<1>1. /\ n \in Nat /\ DOMAIN c = 1..n /\ k \in 1..n /\ \A i \in 1..n : c[i] \in Entries
  BY LenProperties, ElementOfSeq
<1>2. \A i \in 1..n : from(i) \in 1..n
  BY <1>1
<1>3. d = [i \in 1..n |-> c[from(i)]]
  BY <1>1 DEF MovedToEnd
<1>4. d \in Seq(Entries) /\ DOMAIN d = 1..n
  BY <1>1, <1>2, <1>3, IsASeq
<1>5. Len(d) = n
  BY <1>1, <1>4, LenProperties
<1>6. ASSUME NEW i \in 1..n, NEW j \in 1..n, from(i) = from(j) PROVE i = j
  <2>1. n \in Nat /\ k \in 1..n /\ k \in Nat /\ k <= n
    BY <1>1
  <2>. HIDE DEF n
  <2>2. ASSUME NEW x \in 1..n
        PROVE  \/ x < k /\ from(x) = x
               \/ x >= k /\ x < n /\ from(x) = x + 1
               \/ x >= k /\ x = n /\ from(x) = k
    <3>1. x \in Nat /\ x <= n
      BY <2>1
    <3>2. x < k \/ (x >= k /\ x < n) \/ (x >= k /\ x = n)
      BY <2>1, <3>1
    <3>3. x >= k => ~(x < k)
      BY <2>1, <3>1
    <3>4. x = n => ~(x < n)
      BY <2>1
    <3>. QED
      BY <3>2, <3>3, <3>4
  <2>3. i \in Nat /\ j \in Nat
    BY <2>1
  <2>. HIDE DEF from
  <2>. QED
    BY <1>6, <2>1, <2>2, <2>3
<1>7. OnePerPrompt(c) => OnePerPrompt(d)
  <2>. HIDE DEF from, n
  <2>. QED
    BY <1>1, <1>2, <1>3, <1>4, <1>6 DEF OnePerPrompt
<1>. HIDE DEF from, n
<1>8. \A i \in DOMAIN d : \E j \in DOMAIN c : d[i] = c[j]
  BY <1>1, <1>2, <1>3, <1>4
<1>. QED
  BY <1>1, <1>4, <1>5, <1>7, <1>8 DEF n

LEMMA DroppedFacts ==
  ASSUME NEW c \in Seq(Entries), c # <<>>
  PROVE  /\ Tail(c) \in Seq(Entries) /\ Len(Tail(c)) = Len(c) - 1 /\ Len(c) \in Nat \ {0}
         /\ \A i \in DOMAIN Tail(c) : \E j \in DOMAIN c : Tail(c)[i] = c[j]
         /\ OnePerPrompt(c) => OnePerPrompt(Tail(c))
<1>1. PICK n : n = Len(c)
  OBVIOUS
<1>2. PICK d : d = Tail(c)
  OBVIOUS
<1>3. /\ n \in Nat \ {0} /\ DOMAIN c = 1..n /\ d \in Seq(Entries) /\ Len(d) = n - 1
      /\ DOMAIN d = 1..(n - 1) /\ \A i \in 1..(n - 1) : d[i] = c[i + 1]
  BY <1>1, <1>2, LenProperties
<1>4. \A i \in DOMAIN d : \E j \in DOMAIN c : d[i] = c[j]
  <2>1. \A i \in 1..(n - 1) : i + 1 \in 1..n
    BY <1>3
  <2>. QED
    BY <1>3, <2>1
<1>5. OnePerPrompt(c) => OnePerPrompt(d)
  <2>1. \A i, j \in 1..(n - 1) : i + 1 \in 1..n /\ (i + 1 = j + 1 => i = j)
    BY <1>3
  <2>. QED
    <3>. SUFFICES ASSUME OnePerPrompt(c), NEW i \in 1..(n - 1), NEW j \in 1..(n - 1),
                         d[i].prompt = d[j].prompt
                  PROVE  i = j
      BY <1>3 DEF OnePerPrompt
    <3>1. c[i + 1].prompt = c[j + 1].prompt
      BY <1>3
    <3>2. i + 1 = j + 1
      BY <1>3, <2>1, <3>1 DEF OnePerPrompt
    <3>. QED
      BY <2>1, <3>2
<1>. QED
  BY <1>1, <1>2, <1>3, <1>4, <1>5

\* The group with the most votes is one of them, and has a vote.
LEMMA MajorityFacts ==
  ASSUME NEW s, s = [t \in Trees |-> s[t]], Majority(s).consensus
  PROVE  LET for == {t \in Trees : s[t] = Majority(s).answer}
         IN  /\ \A a \in Answers \ {Majority(s).answer} :
                  Cardinality({t \in Trees : s[t] = a}) < Cardinality(for)
             /\ Cardinality(for) * 100 >= Threshold * Cardinality(Trees)
<1>. DEFINE f == [i \in Trees |-> Count(s, s[i])]
            o == HighestFirst(f)
            top == s[o[1]]
<1>1. DOMAIN s = Trees /\ Len(s) = Cardinality(Trees)
  BY VotingNumbers
<1>2. \A a : /\ Voters(s, a) = {t \in Trees : s[t] = a}
             /\ IsFiniteSet(Voters(s, a)) /\ Count(s, a) \in Nat
             /\ Count(s, a) = Cardinality({t \in Trees : s[t] = a})
  <2>1. \A a : Voters(s, a) \subseteq Trees /\ Voters(s, a) = {t \in Trees : s[t] = a}
    BY <1>1 DEF Voters
  <2>. QED
    BY <2>1, VotingNumbers, FS_Subset, FS_CardinalityType DEF Count
<1>3. Trees \in SUBSET Nat /\ f \in [Trees -> Nat]
  BY <1>2, VotingNumbers
<1>4. o[1] \in Trees
  <2>1. 1 \in 1..Cardinality(Trees)
    BY VotingNumbers
  <2>2. o \in [1..Cardinality(Trees) -> Trees]
    <3>. HIDE DEF f
    <3>. QED
      BY <1>3, VotingNumbers, Sorted
  <2>. QED
    BY <2>1, <2>2
<1>5. /\ Majority(s).answer = top
      /\ \A i \in Trees : s[i] # top => Count(s, s[i]) < Count(s, top)
      /\ Count(s, top) * 100 >= Threshold * Len(s)
  BY <1>1 DEF Majority
<1>. HIDE DEF o, f
<1>6. PICK x : x = top
  OBVIOUS
<1>7. Count(s, x) > 0
  <2>1. o[1] \in Voters(s, x)
    BY <1>2, <1>4, <1>6
  <2>2. Voters(s, x) # {}
    BY <2>1
  <2>. QED
    BY <1>2, <2>2, FS_EmptySet DEF Count
<1>8. ASSUME NEW a \in Answers, a # x PROVE Count(s, a) < Count(s, x)
  <2>1. CASE Voters(s, a) = {}
    BY <1>2, <1>7, <2>1, FS_EmptySet DEF Count
  <2>2. CASE Voters(s, a) # {}
    <3>1. PICK i \in Trees : s[i] = a
      BY <1>2, <2>2
    <3>. QED
      BY <1>5, <1>6, <1>8, <3>1
  <2>. QED
    BY <2>1, <2>2
<1>9. Majority(s).answer = x
  BY <1>5, <1>6
<1>10. Count(s, x) * 100 >= Threshold * Cardinality(Trees)
  BY <1>1, <1>5, <1>6
<1>. QED
  BY <1>2, <1>8, <1>9, <1>10

\* A thread takes a step with a cache that is as it should be.
LEMMA ThreadKeeps ==
  ASSUME VotingInv, NEW t \in Trees, treeAt[t] # "answered",
         NEW place \in TreePlaces, treeAt' = [treeAt EXCEPT ![t] = place],
         answer' = [answer EXCEPT ![t] = answer'[t]],
         UNCHANGED <<prompt, verdict>>, given \subseteq given',
         place \in {"touch", "store", "measure", "evict", "answered"} =>
           answer'[t] \in Answers /\ <<prompt[t], answer'[t]>> \in given',
         cache' \in Seq(Entries), OnePerPrompt(cache'), AllGiven(cache)',
         CacheSize # 0 => Len(cache') <= CacheSize + Cardinality(Evicting')
  PROVE  VotingInv'
<1>1. VotingTypes'
  BY DEF VotingInv, VotingTypes
<1>2. AnswersGiven'
  BY DEF VotingInv, VotingTypes, AnswersGiven
<1>3. CacheKept'
  <2>1. OnePerPrompt(cache)'
    BY DEF OnePerPrompt
  <2>. QED
    BY <2>1 DEF CacheKept
<1>4. Settled'
  BY DEF VotingInv, VotingTypes, Settled
<1>. QED
  BY <1>1, <1>2, <1>3, <1>4 DEF VotingInv

LEMMA AllGivenStays == AllGiven(cache) /\ given \subseteq given' /\ cache' = cache => AllGiven(cache)'
  BY DEF AllGiven

\* The threads that owe an eviction, where t stays among them or outside.
LEMMA OwingStays ==
  ASSUME VotingInv, NEW t \in Trees, NEW place,
         treeAt[t] \in {"measure", "evict"} <=> place \in {"measure", "evict"},
         treeAt' = [treeAt EXCEPT ![t] = place]
  PROVE  Evicting' = Evicting
BY DEF VotingInv, VotingTypes, Evicting

LEMMA CacheLookKeeps == ASSUME VotingInv, NEW t \in Trees, CacheLook(t) PROVE VotingInv'
<1>1. /\ treeAt[t] = "out" /\ UNCHANGED <<prompt, cache, given, verdict>>
      /\ \/ /\ Cached(prompt[t]) /\ treeAt' = [treeAt EXCEPT ![t] = "touch"]
            /\ answer' = [answer EXCEPT ![t] = cache[Place(prompt[t])].answer]
         \/ answer' = answer /\ treeAt' = [treeAt EXCEPT ![t] = "think"]
  BY DEF CacheLook, Gets, Says
<1>2. answer = [u \in Trees |-> answer[u]] /\ cache \in Seq(Entries) /\ CacheKept
  BY DEF VotingInv, VotingTypes
<1>3. answer' = [answer EXCEPT ![t] = answer'[t]]
  BY <1>1, <1>2
<1>4. Evicting' = Evicting
  BY <1>1, OwingStays
<1>5. AllGiven(cache)' /\ OnePerPrompt(cache')
  BY <1>1, <1>2, AllGivenStays DEF CacheKept
<1>6. Len(cache') = Len(cache)
  BY <1>1
<1>7. CASE Cached(prompt[t]) /\ treeAt' = [treeAt EXCEPT ![t] = "touch"]
           /\ answer' = [answer EXCEPT ![t] = cache[Place(prompt[t])].answer]
  <2>1. PICK k : k = Place(prompt[t])
    OBVIOUS
  <2>2. k \in DOMAIN cache /\ cache[k].prompt = prompt[t]
    BY <1>7, <2>1 DEF Cached, Place
  <2>3. cache[k] \in Entries /\ <<prompt[t], cache[k].answer>> \in given
    BY <1>2, <2>2, ElementOfSeq, LenProperties DEF CacheKept, AllGiven
  <2>4. answer'[t] \in Answers /\ <<prompt[t], answer'[t]>> \in given'
    BY <1>1, <1>2, <1>7, <2>1, <2>3 DEF Entries
  <2>5. "touch" \in TreePlaces
    BY DEF TreePlaces
  <2>. QED
    BY <1>1, <1>2, <1>3, <1>4, <1>5, <1>6, <1>7, <2>4, <2>5, ThreadKeeps DEF CacheKept
<1>8. CASE answer' = answer /\ treeAt' = [treeAt EXCEPT ![t] = "think"]
  <2>1. "think" \in TreePlaces
    BY DEF TreePlaces
  <2>. QED
    BY <1>1, <1>2, <1>3, <1>4, <1>5, <1>6, <1>8, <2>1, ThreadKeeps DEF CacheKept
<1>. QED
  BY <1>1, <1>7, <1>8

LEMMA CacheTouchKeeps == ASSUME VotingInv, NEW t \in Trees, CacheTouch(t) PROVE VotingInv'
<1>1. PICK place \in {"answered", "broken"} :
        /\ treeAt[t] = "touch" /\ treeAt' = [treeAt EXCEPT ![t] = place]
        /\ UNCHANGED <<prompt, answer, given, verdict>>
        /\ cache' = IF Cached(prompt[t]) THEN MovedToEnd(cache, Place(prompt[t])) ELSE cache
  BY DEF CacheTouch, Gets
<1>2. /\ answer = [u \in Trees |-> answer[u]] /\ cache \in Seq(Entries) /\ CacheKept
      /\ answer[t] \in Answers /\ <<prompt[t], answer[t]>> \in given
  BY <1>1 DEF VotingInv, VotingTypes, AnswersGiven
<1>3. Evicting' = Evicting
  BY <1>1, OwingStays
<1>4. /\ cache' \in Seq(Entries) /\ Len(cache') = Len(cache) /\ OnePerPrompt(cache')
      /\ \A i \in DOMAIN cache' : \E j \in DOMAIN cache : cache'[i] = cache[j]
  <2>1. CASE Cached(prompt[t])
    <3>1. Place(prompt[t]) \in DOMAIN cache
      BY <2>1 DEF Cached, Place
    <3>. QED
      BY <1>1, <1>2, <2>1, <3>1, MovedToEndFacts DEF CacheKept
  <2>2. CASE ~Cached(prompt[t])
    BY <1>1, <1>2, <2>2 DEF CacheKept
  <2>. QED
    BY <2>1, <2>2
<1>5. AllGiven(cache)'
  BY <1>1, <1>2, <1>4 DEF CacheKept, AllGiven
<1>6. place \in TreePlaces /\ treeAt[t] # "answered"
  BY <1>1 DEF TreePlaces
<1>. QED
  BY <1>1, <1>2, <1>3, <1>4, <1>5, <1>6, ThreadKeeps DEF CacheKept

LEMMA InnerKeeps == ASSUME VotingInv, NEW t \in Trees, InnerThinks(t) \/ InnerRaises(t) PROVE VotingInv'
<1>1. /\ treeAt[t] = "think" /\ UNCHANGED <<prompt, cache, verdict>>
      /\ \/ \E a \in Answers : /\ answer' = [answer EXCEPT ![t] = a] /\ given' = given \cup {<<prompt[t], a>>}
                               /\ treeAt' = [treeAt EXCEPT ![t] = "store"]
         \/ answer' = answer /\ given' = given /\ treeAt' = [treeAt EXCEPT ![t] = "broken"]
  BY DEF InnerThinks, InnerRaises, Gets, Says
<1>2. answer = [u \in Trees |-> answer[u]] /\ cache \in Seq(Entries) /\ CacheKept
  BY DEF VotingInv, VotingTypes
<1>3. PICK place \in {"store", "broken"} :
        /\ treeAt' = [treeAt EXCEPT ![t] = place]
        /\ place = "store" => answer'[t] \in Answers /\ <<prompt[t], answer'[t]>> \in given'
  BY <1>1, <1>2
<1>4. Evicting' = Evicting
  BY <1>1, <1>3, OwingStays
<1>5. given \subseteq given' /\ answer' = [answer EXCEPT ![t] = answer'[t]]
  BY <1>1, <1>2
<1>6. AllGiven(cache)' /\ OnePerPrompt(cache') /\ Len(cache') = Len(cache)
  BY <1>1, <1>2, <1>5, AllGivenStays DEF CacheKept
<1>7. place \in TreePlaces /\ treeAt[t] # "answered"
  BY <1>1 DEF TreePlaces
<1>. QED
  BY <1>1, <1>2, <1>3, <1>4, <1>5, <1>6, <1>7, ThreadKeeps DEF CacheKept

LEMMA CacheStoreKeeps == ASSUME VotingInv, NEW t \in Trees, CacheStore(t) PROVE VotingInv'
<1>1. PICK e :
        /\ e = [prompt |-> prompt[t], answer |-> answer[t]]
        /\ treeAt[t] = "store" /\ treeAt' = [treeAt EXCEPT ![t] = "measure"]
        /\ UNCHANGED <<prompt, answer, given, verdict>>
        /\ cache' = IF Cached(prompt[t]) THEN [cache EXCEPT ![Place(prompt[t])] = e] ELSE Append(cache, e)
  BY DEF CacheStore, Gets
<1>2. /\ answer = [u \in Trees |-> answer[u]] /\ cache \in Seq(Entries) /\ CacheKept
      /\ treeAt \in [Trees -> TreePlaces] /\ prompt[t] \in Prompts
      /\ answer[t] \in Answers /\ <<prompt[t], answer[t]>> \in given
  BY <1>1 DEF VotingInv, VotingTypes, AnswersGiven
<1>3. e \in Entries /\ e.prompt = prompt[t] /\ e.answer = answer[t]
  BY <1>1, <1>2 DEF Entries
<1>4. Cardinality(Evicting') = Cardinality(Evicting) + 1 /\ Cardinality(Evicting) \in Nat
  <2>1. t \notin Evicting /\ Evicting' = Evicting \cup {t}
    BY <1>1, <1>2 DEF Evicting
  <2>. QED
    BY <2>1, OneMore, EvictingFacts
<1>5. PICK n : n = Len(cache)
  OBVIOUS
<1>6. n \in Nat /\ DOMAIN cache = 1..n /\ \A i \in 1..n : cache[i] \in Entries
  BY <1>2, <1>5, LenProperties, ElementOfSeq
<1>7. /\ cache' \in Seq(Entries) /\ Len(cache') <= n + 1 /\ Len(cache') \in Nat /\ OnePerPrompt(cache')
      /\ \A i \in DOMAIN cache' : cache'[i] = e \/ \E j \in DOMAIN cache : cache'[i] = cache[j]
  <2>1. CASE Cached(prompt[t])
    <3>1. PICK k : k = Place(prompt[t])
      OBVIOUS
    <3>2. k \in 1..n /\ cache[k].prompt = prompt[t] /\ cache' = [cache EXCEPT ![k] = e]
      BY <1>1, <1>6, <2>1, <3>1 DEF Cached, Place
    <3>3. /\ DOMAIN cache' = 1..n /\ cache'[k] = e
          /\ \A i \in 1..n : i # k => cache'[i] = cache[i]
      BY <1>6, <3>2
    <3>4. cache' \in Seq(Entries) /\ Len(cache') = n
      BY <1>2, <1>3, <1>5, <1>6, <3>2, ExceptSeq
    <3>5. OnePerPrompt(cache')
      <4>1. \A i \in 1..n : cache'[i].prompt = cache[i].prompt
        BY <1>3, <3>2, <3>3
      <4>. QED
        BY <1>2, <1>6, <3>3, <4>1 DEF CacheKept, OnePerPrompt
    <3>. QED
      BY <1>6, <3>3, <3>4, <3>5
  <2>2. CASE ~Cached(prompt[t])
    <3>1. cache' = Append(cache, e)
      BY <1>1, <2>2
    <3>2. /\ cache' \in Seq(Entries) /\ Len(cache') = n + 1 /\ cache'[n + 1] = e
          /\ DOMAIN cache' = 1..(n + 1) /\ \A i \in 1..n : cache'[i] = cache[i]
      BY <1>2, <1>3, <1>5, <3>1, GrownByOne
    <3>3. \A i \in 1..n : cache[i].prompt # e.prompt
      BY <1>3, <1>6, <2>2 DEF Cached
    <3>4. \A i \in 1..(n + 1) : i = n + 1 \/ i \in 1..n
      BY <1>6
    <3>5. OnePerPrompt(cache')
      BY <1>2, <1>6, <3>2, <3>3, <3>4 DEF CacheKept, OnePerPrompt
    <3>. QED
      BY <1>6, <3>2, <3>4, <3>5
  <2>. QED
    BY <2>1, <2>2
<1>8. AllGiven(cache)'
  BY <1>1, <1>2, <1>3, <1>7 DEF CacheKept, AllGiven
<1>9. CacheSize # 0 => Len(cache') <= CacheSize + Cardinality(Evicting')
  BY <1>2, <1>4, <1>5, <1>6, <1>7, VotingNumbers DEF CacheKept
<1>10. "measure" \in TreePlaces
  BY DEF TreePlaces
<1>. QED
  BY <1>1, <1>2, <1>7, <1>8, <1>9, <1>10, ThreadKeeps

\* One thread less owes an eviction.
LEMMA OweLess ==
  ASSUME VotingInv, NEW t \in Trees, treeAt[t] \in {"measure", "evict"}, NEW place \in {"answered", "broken"},
         treeAt' = [treeAt EXCEPT ![t] = place]
  PROVE  Cardinality(Evicting) = Cardinality(Evicting') + 1 /\ Cardinality(Evicting') \in Nat
<1>1. t \notin Evicting' /\ Evicting = Evicting' \cup {t}
  BY DEF VotingInv, VotingTypes, Evicting
<1>2. IsFiniteSet(Evicting') /\ Cardinality(Evicting') \in Nat
  BY <1>1, EvictingFacts, FS_Subset, FS_CardinalityType
<1>. QED
  BY <1>1, <1>2, OneMore

LEMMA CacheMeasureKeeps == ASSUME VotingInv, NEW t \in Trees, CacheMeasure(t) PROVE VotingInv'
<1>1. PICK place \in {"evict", "answered"} :
        /\ treeAt[t] = "measure" /\ treeAt' = [treeAt EXCEPT ![t] = place]
        /\ UNCHANGED <<prompt, answer, cache, given, verdict>>
        /\ place = "answered" => ~(CacheSize # 0 /\ Len(cache) > CacheSize)
  BY DEF CacheMeasure, Gets
<1>2. /\ answer = [u \in Trees |-> answer[u]] /\ cache \in Seq(Entries) /\ CacheKept
      /\ answer[t] \in Answers /\ <<prompt[t], answer[t]>> \in given
  BY <1>1 DEF VotingInv, VotingTypes, AnswersGiven
<1>3. CacheSize # 0 => Len(cache') <= CacheSize + Cardinality(Evicting')
  <2>1. CASE place = "evict"
    <3>1. Evicting' = Evicting
      BY <1>1, <2>1, OwingStays
    <3>. QED
      BY <1>1, <1>2, <3>1 DEF CacheKept
  <2>2. CASE place = "answered"
    <3>1. Cardinality(Evicting') \in Nat
      BY <1>1, <2>2, OweLess
    <3>2. Len(cache) \in Nat
      BY <1>2, LenProperties
    <3>. QED
      BY <1>1, <2>2, <3>1, <3>2, VotingNumbers
  <2>. QED
    BY <1>1, <2>1, <2>2
<1>4. OnePerPrompt(cache') /\ AllGiven(cache)'
  BY <1>1, <1>2, AllGivenStays DEF CacheKept
<1>5. place \in TreePlaces /\ treeAt[t] # "answered"
  BY <1>1 DEF TreePlaces
<1>. QED
  BY <1>1, <1>2, <1>3, <1>4, <1>5, ThreadKeeps

LEMMA CacheEvictKeeps == ASSUME VotingInv, NEW t \in Trees, CacheEvict(t) PROVE VotingInv'
<1>1. PICK place \in {"answered", "broken"} :
        /\ treeAt[t] = "evict" /\ treeAt' = [treeAt EXCEPT ![t] = place]
        /\ UNCHANGED <<prompt, answer, given, verdict>>
        /\ cache' = IF cache = <<>> THEN cache ELSE Tail(cache)
  BY DEF CacheEvict, Gets
<1>2. /\ answer = [u \in Trees |-> answer[u]] /\ cache \in Seq(Entries) /\ CacheKept
      /\ answer[t] \in Answers /\ <<prompt[t], answer[t]>> \in given
  BY <1>1 DEF VotingInv, VotingTypes, AnswersGiven
<1>3. Cardinality(Evicting) = Cardinality(Evicting') + 1 /\ Cardinality(Evicting') \in Nat
  BY <1>1, OweLess
<1>4. /\ cache' \in Seq(Entries) /\ OnePerPrompt(cache')
      /\ \A i \in DOMAIN cache' : \E j \in DOMAIN cache : cache'[i] = cache[j]
      /\ CacheSize # 0 => Len(cache') <= CacheSize + Cardinality(Evicting')
  <2>1. CASE cache # <<>>
    <3>1. cache' = Tail(cache)
      BY <1>1, <2>1
    <3>2. Len(Tail(cache)) = Len(cache) - 1 /\ Len(cache) \in Nat
      BY <1>2, <2>1, DroppedFacts
    <3>3. CacheSize # 0 => Len(cache) <= CacheSize + Cardinality(Evicting)
      BY <1>2 DEF CacheKept
    <3>4. CacheSize # 0 => Len(cache') <= CacheSize + Cardinality(Evicting')
      BY <1>3, <3>1, <3>2, <3>3, VotingNumbers
    <3>. QED
      BY <1>2, <2>1, <3>1, <3>4, DroppedFacts DEF CacheKept
  <2>2. CASE cache = <<>>
    <3>1. cache' = cache /\ Len(cache) = 0
      BY <1>1, <2>2
    <3>2. CacheSize # 0 => Len(cache') <= CacheSize + Cardinality(Evicting')
      BY <1>3, <3>1, VotingNumbers
    <3>. QED
      BY <1>2, <3>1, <3>2 DEF CacheKept
  <2>. QED
    BY <2>1, <2>2
<1>5. AllGiven(cache)'
  BY <1>1, <1>2, <1>4 DEF CacheKept, AllGiven
<1>6. place \in TreePlaces /\ treeAt[t] # "answered"
  BY <1>1 DEF TreePlaces
<1>. QED
  BY <1>1, <1>2, <1>4, <1>5, <1>6, ThreadKeeps

LEMMA ClearKeeps == ASSUME VotingInv, CacheClear PROVE VotingInv'
<1>1. cache' = <<>> /\ UNCHANGED <<prompt, treeAt, answer, given, verdict>>
  BY DEF CacheClear
<1>2. cache' \in Seq(Entries) /\ Len(cache') = 0 /\ DOMAIN cache' = {}
  BY <1>1
<1>3. Cardinality(Evicting') \in Nat
  <2>1. Evicting' = Evicting
    BY <1>1 DEF Evicting
  <2>. QED
    BY <2>1, EvictingFacts
<1>4. CacheKept'
  BY <1>2, <1>3, VotingNumbers DEF CacheKept, OnePerPrompt, AllGiven
<1>. QED
  BY <1>1, <1>2, <1>4 DEF VotingInv, VotingTypes, AnswersGiven, Settled

LEMMA ReconcileKeeps == ASSUME VotingInv, Reconcile \/ AttemptRaised PROVE VotingInv'
<1>1. UNCHANGED <<prompt, treeAt, answer, cache, given>>
  BY DEF Reconcile, AttemptRaised
<1>2. VotingTypes' /\ AnswersGiven'
  BY <1>1 DEF VotingInv, VotingTypes, AnswersGiven
<1>3. CacheKept'
  BY <1>1 DEF VotingInv, CacheKept, OnePerPrompt, AllGiven, Evicting
<1>4. Settled'
  <2>1. CASE AttemptRaised
    <3>1. verdict' = Raised /\ Raised.consensus = FALSE
      BY <2>1 DEF AttemptRaised, Raised
    <3>. QED
      BY <3>1 DEF Settled
  <2>2. CASE Reconcile
    <3>1. PICK s : s = [t \in Trees |-> answer[t]]
      OBVIOUS
    <3>2. /\ s = [t \in Trees |-> s[t]] /\ \A t \in Trees : s[t] = answer[t]
      BY <3>1
    <3>3. verdict' = Majority(s) /\ \A t \in Trees : treeAt[t] = "answered"
      BY <2>2, <3>1 DEF Reconcile
    <3>4. PICK v : v = verdict'
      OBVIOUS
    <3>5. \A a : {t \in Trees : s[t] = a} = {t \in Trees : answer[t] = a}
      BY <3>2
    <3>6. v.consensus =>
            /\ \A a \in Answers \ {v.answer} :
                 Cardinality({t \in Trees : s[t] = a}) < Cardinality({t \in Trees : s[t] = v.answer})
            /\ Cardinality({t \in Trees : s[t] = v.answer}) * 100 >= Threshold * Cardinality(Trees)
      BY <3>2, <3>3, <3>4, MajorityFacts
    <3>7. v.consensus =>
            /\ \A a \in Answers \ {v.answer} :
                 Cardinality({t \in Trees : answer[t] = a}) < Cardinality({t \in Trees : answer[t] = v.answer})
            /\ Cardinality({t \in Trees : answer[t] = v.answer}) * 100 >= Threshold * Cardinality(Trees)
      BY <3>5, <3>6
    <3>8. UNCHANGED <<treeAt, answer>>
      BY <1>1
    <3>. QED
      BY <3>3, <3>4, <3>7, <3>8 DEF Settled
  <2>. QED
    BY <2>1, <2>2
<1>. QED
  BY <1>2, <1>3, <1>4 DEF VotingInv

LEMMA VotingStep == ASSUME VotingInv, [VotingNext]_votingVars PROVE VotingInv'
<1>1. CASE UNCHANGED votingVars
  <2>1. UNCHANGED <<prompt, treeAt, answer, cache, given, verdict>>
    BY <1>1 DEF votingVars
  <2>2. VotingTypes' /\ AnswersGiven'
    BY <2>1 DEF VotingInv, VotingTypes, AnswersGiven
  <2>3. CacheKept'
    BY <2>1 DEF VotingInv, CacheKept, OnePerPrompt, AllGiven, Evicting
  <2>4. Settled'
    BY <2>1 DEF VotingInv, Settled
  <2>. QED
    BY <2>2, <2>3, <2>4 DEF VotingInv
<1>. QED
  BY <1>1, CacheLookKeeps, CacheTouchKeeps, InnerKeeps, CacheStoreKeeps, CacheMeasureKeeps, CacheEvictKeeps,
     ClearKeeps, ReconcileKeeps DEF VotingNext

LEMMA VotingFirst == ASSUME VotingInit PROVE VotingInv
<1>1. /\ prompt \in [Trees -> Prompts] /\ treeAt = [t \in Trees |-> "out"] /\ cache = <<>>
      /\ verdict.consensus = FALSE
  BY DEF VotingInit, NoVerdict
<1>2. answer = [t \in Trees |-> answer[t]]
  BY DEF VotingInit
<1>3. cache \in Seq(Entries) /\ Len(cache) = 0 /\ DOMAIN cache = {}
  BY <1>1
<1>4. CacheKept
  BY <1>3, EvictingFacts, VotingNumbers DEF CacheKept, OnePerPrompt, AllGiven
<1>5. VotingTypes
  BY <1>1, <1>2, <1>3 DEF VotingTypes, TreePlaces
<1>. QED
  BY <1>1, <1>4, <1>5 DEF VotingInv, AnswersGiven, Settled

(* Trees that share a brain conclude from answers it gave to their prompts,  *)
(* and the cache stays what it should be, for any number of trees, prompts,  *)
(* answers and any size (forest.py, cache.py).                               *)
THEOREM VotesKeptHolds == VotingSpec => []VotesKept
<1>1. VotingInv => VotesKept
  BY DEF VotingInv, AnswersGiven, CacheKept, OnePerPrompt, AllGiven, Evicting, Settled,
         VotesKept, VerdictSound, CacheSound
<1>2. VotingInit => VotingInv
  BY VotingFirst
<1>3. VotingInv /\ [VotingNext]_votingVars => VotingInv'
  BY VotingStep
<1>. QED
  BY <1>1, <1>2, <1>3, PTL DEF VotingSpec

(* A forest's consensus and an evolution's winner are what the answers and   *)
(* the grades say, whatever the order and the cache (Forest.asolve, evolve). *)
THEOREM ForestSoundHolds == VotingSpec /\ EvolveSpec => []ForestSound
BY VotesKeptHolds, BestKeptHolds, PTL DEF ForestSound
===============================================================================
