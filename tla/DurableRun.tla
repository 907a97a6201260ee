------------------------------- MODULE DurableRun -------------------------------
(***************************************************************************)
(* The life of a task queue over several calls and several processes: a    *)
(* call of arun_dag (DagRunner.tla), a crash anywhere in it, a fresh       *)
(* process on the same store, and Ormica.resume(), which reloads the       *)
(* records and hands what is pending to the sequential TaskRunner          *)
(* (ormica/core.py, ormica/runtime.py).                                    *)
(*                                                                         *)
(* The sequential runner uses the same variables: queue is its queue,      *)
(* ahead what its checkpoint has still to record, waiting what its for     *)
(* loop has still to do, active the task in hand.                          *)
(* A task that was never recorded is not in the fresh process: "absent".   *)
(***************************************************************************)
EXTENDS DagRunner

CONSTANTS
  MaxCrashes,   \* bound on the crashes and the raises in resume()
  MaxRetries,   \* bound on the calls with retry_failed
  MaxCalls      \* bound on further arun_dag calls

ASSUME LifeAssumption == MaxCrashes \in Nat /\ MaxRetries \in Nat /\ MaxCalls \in Nat

VARIABLES
  crashes, retries, calls,
  excuses       \* history: task -> times it was cut off, or put back by retry_failed

life == <<crashes, retries, calls>>
durableVars == <<vars, life, excuses>>

DurableInit ==
  /\ Init
  /\ crashes = 0 /\ retries = 0 /\ calls = 0
  /\ excuses = [t \in Tasks |-> 0]

\* Between two calls: nothing of this process is at work.
Free == phase \in {"down", "returned", "refused", "raised"} /\ waiting \cup active = {}

-------------------------------------------------------------------------------
\* A step of arun_dag.  A future that breaks or is cancelled at work is cut off.
DagStep ==
  /\ phase \in Phases /\ Next
  /\ excuses' = [t \in Tasks |->
                   IF t \in active \ active' /\ t \notin ended' \ broken'
                   THEN excuses[t] + 1 ELSE excuses[t]]
  /\ UNCHANGED life

\* The process dies, between two records too.  Only the records are left.
Crash ==
  /\ phase \in {"checkpoint", "running", "settling", "raised", "reloaded", "resumed"}
  /\ crashes < MaxCrashes
  /\ crashes' = crashes + 1
  /\ phase' = "down"
  /\ excuses' = [t \in Tasks |-> IF t \in active THEN excuses[t] + 1 ELSE excuses[t]]
  /\ ahead' = {} /\ waiting' = {} /\ active' = {} /\ ended' = {} /\ broken' = {}
  /\ UNCHANGED <<graph, status, rec, indeg, remaining, launched, round, batch, starts,
                 retries, calls>>

\* arun_dag is called again on the tasks this process has.
CallAgain ==
  /\ Free /\ phase # "down"
  /\ calls < MaxCalls
  /\ calls' = calls + 1
  /\ phase' = "idle"
  /\ queue' = {} /\ ahead' = {} /\ remaining' = {} /\ launched' = {}
  /\ ended' = {} /\ broken' = {}
  /\ UNCHANGED <<deps, status, rec, indeg, waiting, round, batch, active, starts,
                 crashes, retries, excuses>>

\* Mutant: everything is put back, finished work included.
LoadedReset(retry) ==
  [t \in Tasks |-> IF (rec[t] = "failed" /\ ~retry) \/ rec[t] = "absent" THEN rec[t] ELSE "pending"]

\* Mutant: interrupted tasks are left as they are.
LoadedAsIs(retry) ==
  [t \in Tasks |-> IF rec[t] = "failed" /\ retry THEN "pending" ELSE rec[t]]

\* load_tasks, then what resume() makes of the statuses.
Loaded(retry) ==
  [t \in Tasks |->
     IF rec[t] = "running" \/ (rec[t] = "failed" /\ retry) THEN "pending" ELSE rec[t]]

\* resume(), up to the checkpoint of TaskRunner.run.
Resume(retry) ==
  /\ Free
  /\ retry => retries < MaxRetries
  /\ retries' = IF retry THEN retries + 1 ELSE retries
  /\ status' = Loaded(retry)
  /\ LET q == FirstOf({t \in Tasks : status'[t] = "pending"})
     IN /\ queue' = q /\ ahead' = q /\ waiting' = q
        /\ phase' = IF q = {} THEN "returned" ELSE "reloaded"
  /\ excuses' = [t \in Tasks |-> IF rec[t] = "failed" /\ retry THEN excuses[t] + 1
                                 ELSE excuses[t]]
  /\ remaining' = {} /\ launched' = {} /\ ended' = {} /\ broken' = {}
  /\ batch' = [t \in Tasks |-> 0]
  /\ UNCHANGED <<deps, rec, indeg, round, active, starts, crashes, calls>>

-------------------------------------------------------------------------------
(* TaskRunner.run and its _process, one task after the other *)

SeqCheckpoint(t) ==
  /\ phase = "reloaded" /\ FirstAhead(t)
  /\ rec' = [rec EXCEPT ![t] = status[t]]
  /\ ahead' = ahead \ {t}
  /\ phase' = IF ahead' = {} THEN "resumed" ELSE "reloaded"
  /\ UNCHANGED <<graph, status, indeg, remaining, launched, waiting, round, batch, active,
                 ended, broken, starts, life, excuses>>

SeqStart(t) ==
  /\ phase = "resumed"
  /\ active = {}
  /\ Start(t)
  /\ UNCHANGED <<life, excuses>>

\* One bad task does not abort the whole run.
SeqEnd(t, outcome) ==
  /\ phase = "resumed"
  /\ t \in active
  /\ active' = {}
  /\ status' = [status EXCEPT ![t] = outcome]
  /\ rec' = [rec EXCEPT ![t] = outcome]
  /\ phase' = IF waiting = {} THEN "returned" ELSE "resumed"
  /\ UNCHANGED <<graph, ahead, indeg, remaining, launched, waiting, round, batch, ended,
                 broken, starts, life, excuses>>

\* A record write, of the checkpoint too, or a callback raises out of run().
SeqBreak ==
  /\ phase \in {"reloaded", "resumed"}
  /\ crashes < MaxCrashes
  /\ crashes' = crashes + 1
  /\ \E t \in Tasks :
       \/ /\ FirstAhead(t)
          /\ rec' \in {rec, [rec EXCEPT ![t] = status[t]]}
          /\ UNCHANGED <<status, excuses>>
       \/ /\ ahead = {} /\ active = {} /\ First(t)
          /\ status' = [status EXCEPT ![t] = "running"]
          /\ rec' \in {rec, [rec EXCEPT ![t] = "running"]}
          /\ UNCHANGED excuses
       \/ /\ t \in active
          /\ \E outcome \in Terminal :
               /\ status' = [status EXCEPT ![t] = outcome]
               /\ rec' \in {rec, [rec EXCEPT ![t] = outcome]}
          /\ excuses' = [excuses EXCEPT ![t] = @ + 1]
  /\ phase' = "raised"
  /\ ahead' = {} /\ waiting' = {} /\ active' = {}
  /\ UNCHANGED <<graph, indeg, remaining, launched, round, batch, ended, broken, starts,
                 retries, calls>>

DurableNext ==
  \/ DagStep
  \/ Crash \/ CallAgain
  \/ \E retry \in BOOLEAN : Resume(retry)
  \/ \E t \in Tasks : \/ SeqCheckpoint(t) \/ SeqStart(t)
                      \/ \E outcome \in Terminal : SeqEnd(t, outcome)
  \/ SeqBreak

DurableSpec == DurableInit /\ [][DurableNext]_durableVars
\* Coroutines and the sequential loop go on, and somebody calls resume() whenever
\* a call is over or its process is gone.  Crashes and further calls are not owed.
DurableFair ==
  /\ DurableSpec
  /\ WF_durableVars(DagStep)
  /\ WF_durableVars(\E t \in Tasks : \/ SeqCheckpoint(t) \/ SeqStart(t)
                                     \/ \E outcome \in Terminal : SeqEnd(t, outcome))
  /\ WF_durableVars(Resume(FALSE))
-------------------------------------------------------------------------------
(* Properties *)

(* A task is started again only if it was cut off while its agent worked,  *)
(* or put back by retry_failed: crashes and repeated calls repeat no       *)
(* finished work (durable-runs.md: "skipping what's done and re-running    *)
(* only what didn't finish").                                              *)
RerunsExcused == \A t \in Tasks : starts[t] <= 1 + excuses[t]

(* A task recorded as done stays done through every later call and process.*)
DoneStays == [][\A t \in Tasks : rec[t] = "done" => rec'[t] = "done"]_durableVars

(* Work that was checkpointed is not lost: with resume() called after      *)
(* every interruption, each recorded task ends done or failed.             *)
NothingLost == \A t \in Tasks : rec[t] # "absent" ~> rec[t] \in Terminal

(* A task runs only after all the tasks in its depends_on are done, in a   *)
(* resumed run too (dag-execution.md:37, :103); prerequisites that were    *)
(* never recorded are left out.                                            *)
ResumeHonoursGraph ==
  [][\A t \in Tasks :
       starts'[t] > starts[t] => \A d \in deps[t] : rec[d] \in {"done", "absent"}]_durableVars
===============================================================================
