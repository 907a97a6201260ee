------------------------------ MODULE LeaseTable ------------------------------
(***************************************************************************)
(* What a ClaimableBackend promises its callers: a table of exclusive,     *)
(* expiring leases, at most one per task, on which claim and release are   *)
(* atomic.                                                                 *)
(*                                                                         *)
(* A lease is stored as (owner, expires_at) and compared with the caller's *)
(* clock.  Only the time a lease has left can be observed, so the table    *)
(* keeps left = max(0, expires_at - now) and the passage of one unit of    *)
(* time (Elapse) counts every lease down.  A task without a lease is owned *)
(* by NoWorker.  SqliteLeases.tla is the detailed backend, with clocks and *)
(* transactions, that implements this module.                              *)
(***************************************************************************)
EXTENDS Naturals

CONSTANTS Workers,    \* worker_id of every worker; unique, as the class requires
          Tasks,      \* the tasks whose key tasks/{id} is leased
          NoWorker,   \* the owner of a task nobody has leased
          TTL         \* lease_ttl, in units of time

ASSUME NoWorkerAssumption == NoWorker \notin Workers
ASSUME TTLAssumption == TTL \in Nat \ {0}

VARIABLE leases       \* task -> [owner, left]

Lease == [owner : Workers \cup {NoWorker}, left : 0..TTL]
Free == [owner |-> NoWorker, left |-> 0]

LeasesTypeOK == leases \in [Tasks -> Lease]

LeasesInit == leases = [t \in Tasks |-> Free]

\* Mutant: whoever asks gets the lease.
ClaimableByAll(t, w) == leases[t].owner \in Workers \cup {NoWorker}

\* No lease, one already held by the caller, or one that has expired.
Claimable(t, w) == leases[t].owner = w \/ leases[t].left = 0

\* claim() answers True; n is the time the new lease has left when it is stored.
Grant(t, w, n) ==
  /\ Claimable(t, w)
  /\ leases' = [leases EXCEPT ![t] = [owner |-> w, left |-> n]]

\* release() drops the caller's own lease and nobody else's.
Release(t, w) ==
  leases' = IF leases[t].owner = w THEN [leases EXCEPT ![t] = Free] ELSE leases

Elapse ==
  leases' = [t \in Tasks |->
               [owner |-> leases[t].owner,
                left |-> IF leases[t].left > 0 THEN leases[t].left - 1 ELSE 0]]

-------------------------------------------------------------------------------
(* The promise as a specification of its own.  A claim may be stored with  *)
(* less than TTL left: the caller read its clock before the backend served *)
(* the call.                                                               *)

LeaseNext ==
  \/ \E t \in Tasks, w \in Workers : \/ \E n \in 0..TTL : Grant(t, w, n)
                                     \/ Release(t, w)
  \/ Elapse

LeaseSpec == LeasesInit /\ [][LeaseNext]_leases
===============================================================================
