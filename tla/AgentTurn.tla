------------------------------- MODULE AgentTurn -------------------------------
(***************************************************************************)
(* One turn of an agent for one task: Agent.act, or Agent.act_with_tools   *)
(* where the node has tools (ormica/agent.py), over a RetryingBrain        *)
(* (ormica/brain/retry.py), with the rate-limited emit_signal tool         *)
(* (ormica/stigma/emit_tool.py).                                           *)
(*                                                                         *)
(* A turn runs from one await to the next without interruption: the awaits *)
(* are brain.think and, in the tool loop, each call of a tool.  Turns of   *)
(* several tasks interleave there and share the token budget and, where    *)
(* they have the same target, the state of the node.                       *)
(*                                                                         *)
(* Every step tells its caller what became of the turn: "goes" on,         *)
(* "answers" or "raises".                                                  *)
(***************************************************************************)
EXTENDS Integers, FiniteSets, Sequences, FiniteSetsExt

CONSTANTS
  Tasks,
  Nodes,
  ToolNodes,      \* nodes that have tools
  VerifiedNodes,  \* nodes under a verify rule
  Limit,          \* TokenBudget.limit
  Costs,          \* the tokens a response may cost
  MaxVerify,      \* max_verify_attempts
  MaxIterations,  \* max_iterations of the tool loop
  MaxRetries,     \* RetryingBrain.max_retries
  MaxPerTurn,     \* EmitToolConfig.max_per_turn
  MaxCalls        \* bound on the tool calls of one response

ASSUME TurnAssumption ==
  /\ ToolNodes \subseteq Nodes /\ VerifiedNodes \subseteq Nodes
  /\ Costs \subseteq Nat
  /\ {Limit, MaxRetries} \subseteq Nat
  /\ {MaxVerify, MaxIterations, MaxPerTurn, MaxCalls} \subseteq Nat \ {0}

VARIABLES
  target,    \* task -> the node it resolves to
  turn,      \* task -> the frame of its turn
  state,     \* node -> NodeState
  used,      \* TokenBudget.used
  metrics,   \* MetricsObserver.tokens
  trace      \* task -> tokens of the entries of its Trace

turnVars == <<turn, state, used, metrics, trace>>

Places == {"out", "think", "tools", "over", "cut"}

\* attempt is the verify attempt, thinks the iterations begun, retries those
\* of the brain, asked the tool calls of the response still to make, emitted
\* the counter of the EmitToolBuilder.  Ghosts: laid, the signals the task has
\* laid; verdict, what verify said of the last text.
Frame ==
  [at : Places, attempt : Nat, thinks : Nat, retries : Nat, asked : Nat, emitted : Nat,
   laid : Nat, verdict : {"none", "failed", "passed"}]

NoFrame ==
  [at |-> "out", attempt |-> 0, thinks |-> 0, retries |-> 0, asked |-> 0, emitted |-> 0,
   laid |-> 0, verdict |-> "none"]

TurnInit ==
  /\ turn = [t \in Tasks |-> NoFrame]
  /\ state = [n \in Nodes |-> "idle"]
  /\ used = 0 /\ metrics = 0
  /\ trace = [t \in Tasks |-> 0]

HasTools(t) == target[t] \in ToolNodes
HasVerify(t) == target[t] \in VerifiedNodes
InTurn(t) == turn[t].at \in {"think", "tools"}

\* TokenBudget.exhausted.
Exhausted(spent) == spent >= Limit

Sets(t, s) == state' = [state EXCEPT ![target[t]] = s]
Frames(t, f) == turn' = [turn EXCEPT ![t] = f]
Over(t) == Frames(t, [turn[t] EXCEPT !.at = "over"])

\* The next think of the turn.
Again(t, f) == Frames(t, [f EXCEPT !.at = "think", !.thinks = @ + 1, !.retries = 0])

-------------------------------------------------------------------------------
(* Agent.act *)

\* A hard pre rule raises before the state of the node is touched.
ActRefused(t, o) ==
  /\ o = "raises"
  /\ Over(t)
  /\ UNCHANGED state

ActStart(t, o) ==
  IF Exhausted(used)
  THEN o = "raises" /\ Over(t) /\ Sets(t, "failed")
  ELSE o = "goes" /\ Again(t, [turn[t] EXCEPT !.attempt = 1]) /\ Sets(t, "working")

\* Agent.act up to its first await.
ActBegins(t, o) ==
  /\ turn[t].at = "out" /\ ~HasTools(t)
  /\ ActRefused(t, o) \/ ActStart(t, o)
  /\ UNCHANGED <<used, metrics, trace>>

\* What think.recorded adds to the metrics and to the open trace of the task.
Counted(c) == metrics' = metrics + c
Traced(t, c) == trace' = [trace EXCEPT ![t] = @ + c]

Consumed(c) == used' = used + c

\* The answer is recorded and paid for.
Spend(t, c) == Traced(t, c) /\ Counted(c) /\ Consumed(c)

\* Mutant: the post rules are enforced before the tokens are consumed.
TextBreaksRuleFirst(t, c, o) ==
  /\ turn[t].at = "think"
  /\ Traced(t, c) /\ Counted(c) /\ UNCHANGED used
  /\ o = "raises" /\ Over(t) /\ Sets(t, "failed")

\* A final text breaks a hard post rule.
TextBreaksRule(t, c, o) ==
  /\ turn[t].at = "think"
  /\ Spend(t, c)
  /\ o = "raises" /\ Over(t) /\ Sets(t, "failed")

TextAccepted(t, c, o) ==
  /\ turn[t].at = "think"
  /\ Spend(t, c)
  /\ o = "answers" /\ Sets(t, "done")
  /\ Frames(t, [turn[t] EXCEPT !.at = "over",
                               !.verdict = IF HasVerify(t) THEN "passed" ELSE "none"])

\* _verify_check finds a hard violation: the turn is still to correct itself,
\* or VerificationFailed.
Failed(t) == [turn[t] EXCEPT !.verdict = "failed"]
GivesUp(t, o) ==
  o = "raises" /\ Frames(t, [Failed(t) EXCEPT !.at = "over"]) /\ Sets(t, "failed")
Corrects(t, o) ==
  o = "goes" /\ Again(t, [Failed(t) EXCEPT !.attempt = @ + 1]) /\ UNCHANGED state

\* The budget is checked before every attempt of act.
ActTextFails(t, c, o) ==
  /\ turn[t].at = "think" /\ ~HasTools(t) /\ HasVerify(t)
  /\ Spend(t, c)
  /\ IF turn[t].attempt < MaxVerify /\ ~Exhausted(used + c)
     THEN Corrects(t, o) ELSE GivesUp(t, o)

-------------------------------------------------------------------------------
(* Agent.act_with_tools *)

\* The next iteration, or ToolLoopExceeded.
LoopGoes(t, f, o) ==
  IF f.thinks < MaxIterations
  THEN o = "goes" /\ Again(t, f) /\ UNCHANGED state
  ELSE o = "raises" /\ Frames(t, [f EXCEPT !.at = "over"]) /\ Sets(t, "failed")

\* The budget is checked once, before the state of the node is touched, and
\* the pre rules never.
LoopBegins(t, o) ==
  /\ turn[t].at = "out" /\ HasTools(t)
  /\ IF Exhausted(used)
     THEN o = "raises" /\ Over(t) /\ UNCHANGED state
     ELSE o = "goes" /\ Again(t, [turn[t] EXCEPT !.attempt = 1]) /\ Sets(t, "working")
  /\ UNCHANGED <<used, metrics, trace>>

\* Mutant: the last attempt is let through.
LoopTextFailsOpen(t, c, o) ==
  /\ turn[t].at = "think" /\ HasTools(t) /\ HasVerify(t)
  /\ Spend(t, c)
  /\ IF turn[t].attempt < MaxVerify
     THEN LoopGoes(t, [Failed(t) EXCEPT !.attempt = @ + 1], o)
     ELSE o = "answers" /\ Frames(t, [Failed(t) EXCEPT !.at = "over"]) /\ Sets(t, "done")

\* _passed_verify: a correction uses up an iteration.
LoopTextFails(t, c, o) ==
  /\ turn[t].at = "think" /\ HasTools(t) /\ HasVerify(t)
  /\ Spend(t, c)
  /\ IF turn[t].attempt < MaxVerify
     THEN LoopGoes(t, [Failed(t) EXCEPT !.attempt = @ + 1], o)
     ELSE GivesUp(t, o)

\* The model asks for n calls.
LoopAsks(t, c, n, o) ==
  /\ turn[t].at = "think" /\ HasTools(t)
  /\ Spend(t, c)
  /\ o = "goes"
  /\ Frames(t, [turn[t] EXCEPT !.at = "tools", !.asked = n])
  /\ UNCHANGED state

\* EmitToolBuilder.__call__: over the limit nothing counts, below it the
\* refused calls do too.
Emitted(f, accepted) ==
  IF f.emitted >= MaxPerTurn THEN f
  ELSE [f EXCEPT !.emitted = @ + 1, !.laid = IF accepted THEN @ + 1 ELSE @]

\* What one call may leave of the frame: an emission, or nothing where the
\* tool is another one, unknown, or raises: all of that is text for the model.
Called(f) == {Emitted(f, a) : a \in BOOLEAN} \cup {f}

LoopCalls(t, o) ==
  /\ turn[t].at = "tools"
  /\ \E f \in Called([turn[t] EXCEPT !.asked = @ - 1]) :
       IF f.asked > 0
       THEN o = "goes" /\ Frames(t, f) /\ UNCHANGED state
       ELSE LoopGoes(t, f, o)
  /\ UNCHANGED <<used, metrics, trace>>

-------------------------------------------------------------------------------
(* The brain *)

\* RetryingBrain.think: a transient error with retries left.
BrainRetries(t, o) ==
  /\ turn[t].at = "think"
  /\ turn[t].retries < MaxRetries
  /\ o = "goes"
  /\ Frames(t, [turn[t] EXCEPT !.retries = @ + 1])
  /\ UNCHANGED <<state, used, metrics, trace>>

\* Mutant: the try of the turn does not cover the brain.
BrainRaisesOutside(t, o) ==
  /\ turn[t].at = "think"
  /\ o = "raises" /\ Over(t)
  /\ UNCHANGED <<state, used, metrics, trace>>

\* Any other error, or the retries are used up.
BrainRaises(t, o) ==
  /\ turn[t].at = "think"
  /\ o = "raises" /\ Over(t) /\ Sets(t, "failed")
  /\ UNCHANGED <<used, metrics, trace>>

-------------------------------------------------------------------------------
\* A turn begins ...
Begins(t, o) == ActBegins(t, o) \/ LoopBegins(t, o)

\* ... and goes on with what the brain or a tool gives back.
Thinks(t, c, o) ==
  \/ TextBreaksRule(t, c, o)
  \/ TextAccepted(t, c, o)
  \/ ActTextFails(t, c, o)
  \/ LoopTextFails(t, c, o)
  \/ \E n \in 1..MaxCalls : LoopAsks(t, c, n, o)

Resumes(t, o) ==
  \/ \E c \in Costs : Thinks(t, c, o)
  \/ LoopCalls(t, o)
  \/ BrainRetries(t, o)
  \/ BrainRaises(t, o)
================================================================================
