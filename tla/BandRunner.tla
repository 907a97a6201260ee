------------------------------- MODULE BandRunner ------------------------------
(***************************************************************************)
(* A call of TaskRunner.run or AsyncTaskRunner.run without healing         *)
(* (ormica/runtime.py): the sequential loop, or bands of equal priority    *)
(* gathered under a semaphore; around every turn the records, the events   *)
(* and the callbacks of _process.  A record that cannot be written and a   *)
(* callback that raises leave _process and end the run; the turns that are *)
(* still out then go on, or are cancelled with the event loop.             *)
(* The call begins with its queue recorded; the writes of that checkpoint   *)
(* one by one are in module DurableRun.                                    *)
(***************************************************************************)
EXTENDS AgentTurn

CONSTANTS
  Setups,       \* what a call may find: [target, rank] of the tasks
  Created,      \* Task.created_at
  MaxTasks,     \* max_tasks
  Concurrency,  \* slots of the semaphore
  MaxFaults     \* bound on raises outside the turn and on cancellations

\* A call without tasks does nothing.
ASSUME CallAssumption == IsFiniteSet(Tasks) /\ Tasks # {}
ASSUME RunnerAssumption ==
  /\ Setups \subseteq [target : [Tasks -> Nodes], rank : [Tasks -> Nat]]
  /\ Created \in [Tasks -> Nat]
  /\ MaxTasks \in Nat \ {0}
  /\ Concurrency \in Nat \ {0} /\ MaxFaults \in Nat

VARIABLES
  mode,      \* "sync" or "async"
  rank,      \* task -> its place in _PRIORITY_RANK
  queue,     \* the tasks of this run in the order of _sorted_queue
  phase,     \* "running", "returned", "raised"
  band,      \* the rank that is gathered
  line,      \* tasks of the band that wait for a slot, in the order of the queue
  inside,    \* tasks in _process
  status,    \* Task.status
  rec,       \* the status in the record tasks/{id}
  told,      \* the last event about the task
  tokens,    \* Task.tokens_used
  result,    \* RunResult
  faults

runVars == <<mode, rank, queue, phase, band, line, inside, status, rec, told, tokens, result, faults>>
vars == <<turnVars, target, runVars>>

fixed == <<target, mode, rank, queue>>

Queued == {queue[i] : i \in DOMAIN queue}
Ranks == {rank[t] : t \in Queued}
Slots == IF mode = "sync" THEN 1 ELSE Concurrency

\* _sorted_queue: by priority, then by age, cut at max_tasks.
Before(t, u) == rank[t] < rank[u] \/ (rank[t] = rank[u] /\ Created[t] < Created[u])
Sorted(q) ==
  /\ \A i, j \in DOMAIN q : i < j => Before(q[i], q[j])
  /\ \A t \in Tasks \ {q[i] : i \in DOMAIN q}, i \in DOMAIN q : Before(q[i], t)

\* The tasks of one band; the sequential runner knows one band only.
BandOf(m, r) == {t \in Queued : m = "async" => rank[t] = r}

NoResult == [processed |-> 0, succeeded |-> 0, failed |-> 0, tokens |-> 0]

\* Up to the first band, every record written as pending.
Init ==
  /\ \E s \in Setups : target = s.target /\ rank = s.rank
  /\ TurnInit
  /\ queue \in [1..Min({MaxTasks, Cardinality(Tasks)}) -> Tasks] /\ Sorted(queue)
  /\ mode \in {"sync", "async"}
  /\ phase = "running"
  /\ band = Min(Ranks)
  /\ line = BandOf(mode, Min(Ranks))
  /\ inside = {}
  /\ status = [t \in Tasks |-> "pending"]
  /\ rec = [t \in Tasks |-> IF t \in Queued THEN "pending" ELSE "absent"]
  /\ told = [t \in Tasks |-> "nothing"]
  /\ tokens = [t \in Tasks |-> 0]
  /\ result = NoResult
  /\ faults = 0

\* Where something raises outside the turn: a record, or a callback after it.
Faults == {"none", "record", "callback"}

\* An exception leaves _process: the first of them ends the run, and the
\* sequential loop drops what it had still to do.
Escapes(fault, rest) ==
  /\ fault # "none" => faults < MaxFaults
  /\ faults' = IF fault = "none" THEN faults ELSE faults + 1
  /\ phase' = IF fault = "none" THEN phase ELSE "raised"
  /\ line' = IF fault # "none" /\ mode = "sync" THEN {} ELSE rest

-------------------------------------------------------------------------------
(* _process *)

\* _capture_result: an answer that breaks the task's contract fails it.
Captured(o, parses) == IF o = "answers" /\ parses THEN "done" ELSE "failed"

\* Mutant: a turn that raises keeps its slot.
FinishKeepsSlot(t, o, parses, fault, rest) ==
  LET s == Captured(o, parses) IN
  /\ o = "answers" \/ parses
  /\ status' = [status EXCEPT ![t] = s]
  /\ rec' = [rec EXCEPT ![t] = IF fault = "record" THEN "running" ELSE s]
  /\ told' = [told EXCEPT ![t] = IF fault = "record" THEN "started" ELSE s]
  /\ tokens' = IF o = "answers" THEN [tokens EXCEPT ![t] = @ + (used' - used)] ELSE tokens
  /\ inside' = IF o = "raises" THEN inside ELSE inside \ {t}
  /\ Escapes(fault, rest)

\* The end of _process: the tokens of the last response, the record, the
\* event, the callback, the slot.
Finish(t, o, parses, fault, rest) ==
  LET s == Captured(o, parses) IN
  /\ o = "answers" \/ parses
  /\ status' = [status EXCEPT ![t] = s]
  /\ rec' = [rec EXCEPT ![t] = IF fault = "record" THEN "running" ELSE s]
  /\ told' = [told EXCEPT ![t] = IF fault = "record" THEN "started" ELSE s]
  /\ tokens' = IF o = "answers" THEN [tokens EXCEPT ![t] = @ + (used' - used)] ELSE tokens
  /\ inside' = inside \ {t}
  /\ Escapes(fault, rest)

Ends(t, o, rest) ==
  \E parses \in BOOLEAN, fault \in Faults : Finish(t, o, parses, fault, rest)

\* The first in line gets a slot.
Takes(t) ==
  /\ t \in line /\ \A u \in line \ {t} : Before(t, u)
  /\ Cardinality(inside) < Slots

\* The running record or on_task_start raises, outside the try: the task
\* stays as it is.
EnterBreaks(t, fault) ==
  /\ Takes(t)
  /\ fault # "none"
  /\ status' = [status EXCEPT ![t] = "running"]
  /\ rec' = IF fault = "record" THEN rec ELSE [rec EXCEPT ![t] = "running"]
  /\ told' = IF fault = "record" THEN told ELSE [told EXCEPT ![t] = "started"]
  /\ Escapes(fault, line \ {t})
  /\ UNCHANGED <<turnVars, fixed, band, inside, tokens, result>>

\* The target is not in the tree any more.
Unresolved(t, o) ==
  /\ o = "raises"
  /\ Over(t)
  /\ UNCHANGED <<state, used, metrics, trace>>

\* _process up to the first await of the turn, or to its end.
Enter(t, o) ==
  /\ Takes(t)
  /\ Begins(t, o) \/ Unresolved(t, o)
  /\ IF o = "goes"
     THEN /\ status' = [status EXCEPT ![t] = "running"]
          /\ rec' = [rec EXCEPT ![t] = "running"]
          /\ told' = [told EXCEPT ![t] = "started"]
          /\ inside' = inside \cup {t}
          /\ line' = line \ {t}
          /\ UNCHANGED <<phase, tokens, faults>>
     ELSE Ends(t, o, line \ {t})
  /\ UNCHANGED <<fixed, band, result>>

\* The turn goes on, and _process with it where the turn is over.
Advance(t, o) ==
  /\ t \in inside
  /\ Resumes(t, o)
  /\ IF o = "goes"
     THEN UNCHANGED <<phase, line, inside, status, rec, told, tokens, faults>>
     ELSE Ends(t, o, line)
  /\ UNCHANGED <<fixed, band, result>>

-------------------------------------------------------------------------------
(* run *)

\* Mutant: the bands are not waited for.
NextBandAtOnce ==
  /\ phase = "running" /\ mode = "async"
  /\ line = {}
  /\ \E r \in Ranks : r > band
  /\ band' = Min({r \in Ranks : r > band})
  /\ line' = BandOf(mode, band')
  /\ UNCHANGED <<turnVars, fixed, phase, inside, status, rec, told, tokens, result, faults>>

\* gather returns: the next band.
NextBand ==
  /\ phase = "running" /\ mode = "async"
  /\ line = {} /\ inside = {}
  /\ \E r \in Ranks : r > band
  /\ band' = Min({r \in Ranks : r > band})
  /\ line' = BandOf(mode, band')
  /\ UNCHANGED <<turnVars, fixed, phase, inside, status, rec, told, tokens, result, faults>>

\* The sum of f over S, counted out: a point for every unit of every f[x].
Points(f, S) == UNION {{x} \X (1..f[x]) : x \in S}
Total(f, S) == Cardinality(Points(f, S))

\* _tally.
Tally ==
  [processed |-> Cardinality(Queued),
   succeeded |-> Cardinality({t \in Queued : status[t] = "done"}),
   failed |-> Cardinality({t \in Queued : status[t] = "failed"}),
   tokens |-> Total(tokens, Queued)]

Return ==
  /\ phase = "running"
  /\ line = {} /\ inside = {}
  /\ mode = "async" => \A r \in Ranks : r <= band
  /\ phase' = "returned"
  /\ result' = Tally
  /\ UNCHANGED <<turnVars, fixed, band, line, inside, status, rec, told, tokens, faults>>

\* Ctrl-C, a cancelled run, or the event loop that ends after run raised: every
\* turn is cut off, and its record written again as running.  A tool at work
\* in its thread may still finish.
Cancel(late) ==
  /\ phase \in {"running", "raised"} /\ inside # {}
  /\ phase = "running" => faults < MaxFaults
  /\ faults' = IF phase = "running" THEN faults + 1 ELSE faults
  /\ turn' = [t \in Tasks |->
                IF t \notin inside THEN turn[t]
                ELSE [IF t \in late /\ turn[t].at = "tools" THEN Emitted(turn[t], TRUE)
                      ELSE turn[t] EXCEPT !.at = "cut"]]
  /\ phase' = "raised"
  /\ inside' = {} /\ line' = {}
  /\ UNCHANGED <<state, used, metrics, trace, fixed, band, status, rec, told, tokens, result>>

Process(t) ==
  \E o \in {"goes", "answers", "raises"} : Enter(t, o) \/ Advance(t, o)

Next ==
  \/ \E t \in Tasks : Process(t) \/ \E fault \in Faults : EnterBreaks(t, fault)
  \/ NextBand
  \/ Return
  \/ \E late \in SUBSET inside : Cancel(late)

\* The model and the tools answer at last, and the loop serves every task.
Fairness ==
  /\ \A t \in Tasks : WF_vars(Process(t))
  /\ WF_vars(NextBand) /\ WF_vars(Return)

Spec == Init /\ [][Next]_vars /\ Fairness

-------------------------------------------------------------------------------
TurnTypeOK ==
  /\ turn \in [Tasks -> Frame]
  /\ state \in [Nodes -> {"idle", "working", "done", "failed"}]
  /\ used \in Nat /\ metrics \in Nat /\ trace \in [Tasks -> Nat]
  /\ target \in [Tasks -> Nodes] /\ rank \in [Tasks -> Nat] /\ queue \in Seq(Tasks)
  /\ mode \in {"sync", "async"} /\ phase \in {"running", "returned", "raised"}
  /\ band \in Nat /\ line \in SUBSET Tasks /\ inside \in SUBSET Tasks
  /\ status \in [Tasks -> {"pending", "running", "done", "failed"}]
  /\ rec \in [Tasks -> {"absent", "pending", "running", "done", "failed"}]
  /\ told \in [Tasks -> {"nothing", "started", "done", "failed"}]
  /\ tokens \in [Tasks -> Nat] /\ faults \in Nat

\* The shared budget is overdrawn by no more than the turns that fit in the
\* semaphore can still spend: one response each where the agent has no tools,
\* a whole tool loop each where it has (TokenBudget is checked before a think
\* or before a loop, and consumed after the model has answered).
SpendBounded ==
  LET loop == IF \E t \in Queued : HasTools(t) THEN MaxIterations ELSE 1
  IN used <= Max({Limit - 1, 0}) + Slots * loop * Max(Costs \cup {0})

\* What the budget, the metrics and the traces say was spent is the same, in
\* every order the answers come in and however the turns end; a run's report
\* never says more.
AccountsAgree ==
  /\ used = metrics
  /\ used = Total(trace, Tasks)
  /\ \A t \in Tasks : tokens[t] <= trace[t]
  /\ result.tokens <= used

\* Where a verify rule holds, a task that ends done has an answer that passed
\* it, whatever number of corrections and tool calls came before.
DoneIsVerified ==
  \A t \in Tasks :
    /\ status[t] = "done" /\ HasVerify(t) => turn[t].verdict = "passed"
    /\ turn[t].attempt <= MaxVerify /\ turn[t].thinks <= Max({MaxVerify, MaxIterations})

\* The rate limit of emit_signal holds for the task as a whole.
SignalsRationed == \A t \in Tasks : turn[t].laid <= MaxPerTurn

\* What the tasks may spend and lay is bounded, and accounted for.
SpendKept == SpendBounded /\ AccountsAgree /\ SignalsRationed

\* A node says it is working only while a turn is out on it or was cut off;
\* a node with a turn out says something else only after another task's turn
\* on it has ended: the state is not per task.
NodeTells ==
  /\ \A n \in Nodes : state[n] = "working" =>
       \E t \in Tasks : target[t] = n /\ (InTurn(t) \/ turn[t].at = "cut")
  /\ \A t \in Tasks : InTurn(t) /\ state[target[t]] # "working" =>
       \E u \in Tasks \ {t} : target[u] = target[t] /\ turn[u].at = "over"

\* No turn of a lower priority begins before every task of a higher one has
\* ended, also when a callback or a record has broken the run.
BandsInOrder ==
  \A t, u \in Queued :
    turn[t].at # "out" /\ rank[u] < rank[t] => status[u] \in {"done", "failed"}

\* An event never says that a task ended before its record does, nor otherwise
\* than the record; when run returns, every task has ended and the report
\* counts it once.
OutcomesAgree ==
  /\ \A t \in Tasks :
       /\ told[t] \in {"done", "failed"} => rec[t] = told[t]
       /\ rec[t] \in {"done", "failed"} => status[t] = rec[t]
  /\ phase = "returned" =>
       /\ \A t \in Queued : told[t] \in {"done", "failed"}
       /\ result.succeeded + result.failed = result.processed

\* A run is well-formed, keeps the order of its bands and tells nothing but
\* what happened.
RunTells == TurnTypeOK /\ BandsInOrder /\ OutcomesAgree

\* run ends, and so does every turn it began.
RunEnds == <>[](phase \in {"returned", "raised"} /\ inside = {} /\ line = {})
================================================================================
