------------------------------- MODULE Substrate ------------------------------
(* What agents do with the shared memory: plain entries with a time to live, *)
(* pheromone trails (Stigma) and an inbox of messages (Postbox).  On SQLite  *)
(* several processes work at once and interleave between the calls of the    *)
(* backend; the other two stores have one process, but every call that       *)
(* writes can raise, and the process can die between two of them.            *)
EXTENDS Mycelium, FiniteSets

CONSTANTS
  Solo,        \* the process of a store that is not shared
  Notes,       \* plain keys: without the prefixes of the other two
  Values,      \* what is written under them
  Encodable,   \* the values that json.dumps takes
  Topics,      \* keys of trails
  Messages,    \* keys of messages, all for one inbox
  Amount,      \* strength laid by one emit or reinforce
  Floor,       \* Stigma.floor
  Life,        \* the ttl of an entry that has one, in half-lives
  MaxTime,     \* bound on the clock, in half-lives
  MaxCalls,    \* bound on the calls started
  MaxCrashes   \* bound on crashes

ASSUME SubstrateAssumption ==
  /\ Keys = Notes \cup Topics \cup Messages /\ Topics # {}
  /\ Notes \cap Topics = {} /\ (Notes \cup Topics) \cap Messages = {}
  /\ Solo \in Procs
  /\ {Amount, Floor, Life, MaxTime, MaxCalls, MaxCrashes} \subseteq Nat

VARIABLES
  pc,        \* the call a process is in
  base,      \* the strength reinforce has read
  topic,     \* the trail it has read it from
  todo,      \* keys a sweep or a fetch has still to work through
  batch,     \* the messages a fetch will return
  calls,     \* ghost: calls started
  crashes,   \* ghost
  sent,      \* ghost: messages some send was called with
  handed,    \* ghost: messages some fetch has returned
  dropped,   \* ghost: messages of a fetch that raised or died
  faded,     \* ghost: what the strength in base has decayed to since it was read
  laid,      \* ghost: everything ever laid on a trail, decayed
  past       \* ghost: what fetches had returned when that of a process began

local == <<pc, base, topic, todo, batch>>
ghosts == <<sent, handed, dropped, faded, laid, past>>
vars == <<store, local, calls, crashes, ghosts>>

Init ==
  /\ Open
  /\ pc = [p \in Procs |-> "idle"]
  /\ base = [p \in Procs |-> 0]
  /\ topic = [p \in Procs |-> CHOOSE t \in Topics : TRUE]
  /\ todo = [p \in Procs |-> {}]
  /\ batch = [p \in Procs |-> {}]
  /\ calls = 0
  /\ crashes = 0
  /\ sent = {} /\ handed = {} /\ dropped = {}
  /\ faded = base
  /\ laid = [t \in Topics |-> 0]
  /\ past = [p \in Procs |-> {}]

\* p starts a call; where the store is not shared there is one process.
Starts(p) ==
  /\ pc[p] = "idle"
  /\ backend # "sqlite" => p = Solo
  /\ calls < MaxCalls
  /\ calls' = calls + 1
  /\ UNCHANGED crashes

Goes(p, place) == pc' = [pc EXCEPT ![p] = place]

-------------------------------------------------------------------------------
(* Plain entries *)

\* Mycelium.write, and Scope.write which adds the author.
Write(p, k, v, expires, raised) ==
  /\ Starts(p)
  /\ Change(p, k, Entry(v, v \in Encodable, expires), raised)
  /\ UNCHANGED <<local, ghosts>>

\* Mycelium.delete.
Forget(p, k, raised) ==
  /\ Starts(p)
  /\ Delete(p, k, raised)
  /\ UNCHANGED <<local, ghosts>>

-------------------------------------------------------------------------------
(* Trails *)

\* Mutant: the strength as it was stored.
StoredStrength(e) == e.value

\* Signal.strength_at: a trail loses half of its strength in a half-life.
\* Amount is a multiple of 2^MaxTime, so that the halves are exact.
StrengthAt(e) == e.value \div (2 ^ (now - e.at))

\* _load, then strength_at: the strength a process would build on.
Sensed(p, t) == IF Readable(p, t) THEN StrengthAt(View(p)[t]) ELSE 0

\* A call that raised may have changed the dictionary all the same.
Lay(t, strength) == laid' = [laid EXCEPT ![t] = @ + strength]

\* Stigma.emit: a fresh trail in place of what was there.
Emit(p, t, raised) ==
  /\ Starts(p)
  /\ Change(p, t, Entry(Amount, TRUE, Never), raised)
  /\ Lay(t, Amount)
  /\ UNCHANGED <<local, sent, handed, dropped, faded, past>>

\* Stigma.reinforce up to its write.
ReinforceLoad(p, t) ==
  /\ Starts(p)
  /\ base' = [base EXCEPT ![p] = Sensed(p, t)]
  /\ faded' = [faded EXCEPT ![p] = Sensed(p, t)]
  /\ topic' = [topic EXCEPT ![p] = t]
  /\ Goes(p, "reinforce")
  /\ Reads(p)
  /\ UNCHANGED <<todo, batch, sent, handed, dropped, laid, past>>

\* The write of reinforce: what it has read counts as fresh, and so what has
\* faded of it in the meantime is laid once more.
ReinforceWrite(p, raised) ==
  /\ pc[p] = "reinforce"
  /\ Change(p, topic[p], Entry(base[p] + Amount, TRUE, Never), raised)
  /\ Lay(topic[p], Amount + (base[p] - faded[p]))
  /\ base' = [base EXCEPT ![p] = 0]
  /\ faded' = [faded EXCEPT ![p] = 0]
  /\ Goes(p, "idle")
  /\ UNCHANGED <<topic, todo, batch, calls, crashes, sent, handed, dropped, past>>

-------------------------------------------------------------------------------
(* Sweeps: the keys to delete are read first, then deleted one by one *)

Sweep(p, keys) ==
  /\ Starts(p)
  /\ todo' = [todo EXCEPT ![p] = keys]
  /\ Goes(p, IF keys = {} THEN "idle" ELSE "sweep")
  /\ Reads(p)
  /\ UNCHANGED <<base, topic, batch, ghosts>>

\* Stigma.evaporate.
Evaporate(p) ==
  Sweep(p, {t \in Topics : Readable(p, t) /\ Sensed(p, t) < Floor})

\* Mycelium.prune_expired.
PruneExpired(p) == Sweep(p, Expired(p))

SweepDelete(p, k, raised) ==
  /\ pc[p] = "sweep"
  /\ k \in todo[p]
  /\ Delete(p, k, raised)
  /\ todo' = [todo EXCEPT ![p] = IF raised THEN {} ELSE @ \ {k}]
  /\ Goes(p, IF raised \/ todo[p] = {k} THEN "idle" ELSE "sweep")
  /\ UNCHANGED <<base, topic, batch, calls, crashes, ghosts>>

-------------------------------------------------------------------------------
(* Messages; the value of the entry is Message.read *)

\* Postbox.send, and reply, which is a send to the sender; ids are fresh.
Send(p, m, raised) ==
  /\ Starts(p)
  /\ m \notin sent
  /\ sent' = sent \cup {m}
  /\ Change(p, m, Entry(FALSE, TRUE, Never), raised)
  /\ UNCHANGED <<local, handed, dropped, faded, laid, past>>

\* Mutant: the whole inbox.
WholeInbox(p) == {m \in Messages : Readable(p, m)}

\* Postbox.unread.
Unread(p) == {m \in Messages : Readable(p, m) /\ ~View(p)[m].value}

\* fetch up to the first mark_read.
FetchScan(p) ==
  /\ Starts(p)
  /\ todo' = [todo EXCEPT ![p] = Unread(p)]
  /\ batch' = [batch EXCEPT ![p] = Unread(p)]
  /\ past' = [past EXCEPT ![p] = handed]
  /\ Goes(p, "fetch")
  /\ Reads(p)
  /\ UNCHANGED <<base, topic, sent, handed, dropped, faded, laid>>

\* mark_read writes the message it was given, as read.  No call takes a
\* message out of the store between its read and its write.
FetchMark(p, m, raised) ==
  /\ pc[p] = "fetch"
  /\ m \in todo[p]
  /\ Change(p, m, Entry(TRUE, TRUE, Never), raised)
  /\ IF raised
     THEN /\ dropped' = dropped \cup batch[p]
          /\ todo' = [todo EXCEPT ![p] = {}]
          /\ batch' = [batch EXCEPT ![p] = {}]
          /\ past' = [past EXCEPT ![p] = {}]
          /\ Goes(p, "idle")
     ELSE /\ todo' = [todo EXCEPT ![p] = @ \ {m}]
          /\ UNCHANGED <<pc, batch, dropped, past>>
  /\ UNCHANGED <<base, topic, calls, crashes, sent, handed, faded, laid>>

FetchReturn(p) ==
  /\ pc[p] = "fetch"
  /\ todo[p] = {}
  /\ handed' = handed \cup batch[p]
  /\ batch' = [batch EXCEPT ![p] = {}]
  /\ past' = [past EXCEPT ![p] = {}]
  /\ Goes(p, "idle")
  /\ UNCHANGED <<store, base, topic, todo, calls, crashes, sent, dropped, faded, laid>>

-------------------------------------------------------------------------------
(* The environment *)

\* Any other read of the store; it matters in an open transaction only.
Look(p) ==
  /\ pc[p] = "idle"
  /\ Reads(p)
  /\ UNCHANGED <<local, calls, crashes, ghosts>>

\* A process dies, in a call or between two, and is started again.
Crash(p) ==
  /\ backend # "sqlite" => p = Solo
  /\ crashes < MaxCrashes
  /\ crashes' = crashes + 1
  /\ Restart(p)
  /\ dropped' = dropped \cup batch[p]
  /\ Goes(p, "idle")
  /\ base' = [base EXCEPT ![p] = 0]
  /\ faded' = [faded EXCEPT ![p] = 0]
  /\ todo' = [todo EXCEPT ![p] = {}]
  /\ batch' = [batch EXCEPT ![p] = {}]
  /\ past' = [past EXCEPT ![p] = {}]
  /\ UNCHANGED <<topic, calls, sent, handed, laid>>

\* A half-life passes, between the two steps of a reinforce too.
Tick ==
  /\ now < MaxTime
  /\ now' = now + 1
  /\ faded' = [p \in Procs |-> faded[p] \div 2]
  /\ laid' = [t \in Topics |-> laid[t] \div 2]
  /\ UNCHANGED <<backend, file, mem, txn, owed, local, calls, crashes, sent, handed, dropped, past>>

Expiries == {Never, now + Life}

Next ==
  \/ \E p \in Procs, raised \in BOOLEAN :
       \/ \E k \in Notes, v \in Values, e \in Expiries : Write(p, k, v, e, raised)
       \/ \E k \in Notes : Forget(p, k, raised)
       \/ \E t \in Topics : Emit(p, t, raised)
       \/ ReinforceWrite(p, raised)
       \/ \E k \in Keys : SweepDelete(p, k, raised)
       \/ \E m \in Messages : Send(p, m, raised)
       \/ \E m \in Messages : FetchMark(p, m, raised)
  \/ \E p \in Procs :
       \/ \E t \in Topics : ReinforceLoad(p, t)
       \/ Evaporate(p) \/ PruneExpired(p)
       \/ FetchScan(p) \/ FetchReturn(p)
       \/ Look(p) \/ Crash(p)
  \/ Tick

Spec == Init /\ [][Next]_vars

-------------------------------------------------------------------------------
(* Properties *)

(* The variables have their types, what a process has read is kept no longer *)
(* than the call that read it, and a store that is not shared has one user.  *)
SubstrateInv ==
  /\ backend \in Kinds
  /\ now \in 0 .. MaxTime
  /\ pc \in [Procs -> {"idle", "reinforce", "sweep", "fetch"}]
  /\ handed \cup dropped \subseteq sent
  /\ \A p \in Procs :
       /\ todo[p] \subseteq Keys /\ batch[p] \subseteq sent
       /\ todo[p] # {} => pc[p] \in {"sweep", "fetch"}
       /\ batch[p] # {} => pc[p] = "fetch" /\ todo[p] \subseteq batch[p]
       /\ pc[p] # "idle" => backend = "sqlite" \/ p = Solo

(* No process ever sees a trail stronger than everything that was laid on    *)
(* it, decayed.  A reinforce that is slow counts as fresh what has faded     *)
(* between its read and its write, and lays that much again; nothing else    *)
(* makes pheromone: stale reads and transactions, failed flushes, restarts   *)
(* and sweeps only lose it (Stigma.reinforce, Signal.strength_at).           *)
NeverInvented ==
  \A p \in Procs, t \in Topics : Sensed(p, t) <= laid[t]

(* A fetch returns no message that another had returned when it began,       *)
(* whatever failed or died in between: one that reads a transaction left     *)
(* open, in which the message is unread, never comes to return it.  Two      *)
(* fetches that overlap can both return it (Postbox.fetch).                  *)
NoRedelivery ==
  \A p \in Procs : pc[p] = "fetch" /\ todo[p] = {} => batch[p] \cap past[p] = {}

(* A message flagged as read has been returned by a fetch, is about to be,   *)
(* or was lost with a fetch that raised or died: nothing else takes a        *)
(* message out of an inbox (Postbox.fetch, mark_read).                       *)
LostForCause ==
  \A p \in Procs, m \in Messages :
    Holds(p, m) /\ View(p)[m].value =>
      m \in handed \cup dropped \cup UNION {batch[q] : q \in Procs}

(* An inbox hands no message out again, and loses none without a fault.      *)
MailKept == NoRedelivery /\ LostForCause
===============================================================================
