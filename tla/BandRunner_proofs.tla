--------------------------- MODULE BandRunner_proofs ---------------------------
(***************************************************************************)
(* Proofs about BandRunner and the turns of AgentTurn it runs, for any     *)
(* tasks, nodes, budgets and limits.                                       *)
(***************************************************************************)
EXTENDS BandRunner, FiniteSetTheorems, WellFoundedInduction, TLAPS

-------------------------------------------------------------------------------
(* What a turn does in one step *)

\* What holds of the frame of a task, whatever its turn has been through.
FrameOK(t, f) ==
  /\ f.at = "out" => f = NoFrame
  /\ f.at \in {"think", "tools"} => f.thinks > 0
  /\ f.at = "tools" => HasTools(t) /\ f.asked > 0
  /\ HasTools(t) => f.thinks <= MaxIterations
  /\ ~HasTools(t) => f.thinks <= f.attempt
  /\ f.attempt <= MaxVerify
  /\ f.laid <= f.emitted /\ f.emitted <= MaxPerTurn

FramesKept == \A t \in Tasks : FrameOK(t, turn[t])

\* The frame of t becomes f, for c tokens.
Moved(t, f, c) ==
  /\ turn' = [u \in Tasks |-> IF u = t THEN f ELSE turn[u]]
  /\ used' = used + c /\ metrics' = metrics + c
  /\ trace' = [u \in Tasks |-> IF u = t THEN trace[u] + c ELSE trace[u]]

NodeSays(t, s) == state' = [n \in Nodes |-> IF n = target[t] THEN s ELSE state[n]]

\* The responses a turn may still get once the budget is used up.
Left(t, f) ==
  IF f.at = "think" THEN (IF HasTools(t) THEN MaxIterations - f.thinks + 1 ELSE 1)
  ELSE IF f.at = "tools" THEN MaxIterations - f.thinks ELSE 0

\* A response is paid for out of what was left of the turn, or while the budget lasts.
Paid(t, f, c) ==
  \/ c = 0 /\ Left(t, f) <= Left(t, turn[t])
  \/ Left(t, f) < Left(t, turn[t])
  \/ used + c < Limit /\ Left(t, f) <= Left(t, turn[t])

FirstFrame ==
  [at |-> "think", attempt |-> 1, thinks |-> 1, retries |-> 0, asked |-> 0, emitted |-> 0,
   laid |-> 0, verdict |-> "none"]
Unbegun == [NoFrame EXCEPT !.at = "over"]

\* The kinds of a turn's first step.
Opens(t, o) ==
  \/ /\ o = "goes" /\ used < Limit
     /\ Moved(t, FirstFrame, 0) /\ NodeSays(t, "working")
  \/ /\ o = "raises"
     /\ Moved(t, Unbegun, 0) /\ (state' = state \/ NodeSays(t, "failed"))

\* The kinds of its later steps.
Continues(t, o, f, c) ==
  /\ Moved(t, f, c) /\ Paid(t, f, c)
  /\ \/ o = "goes" /\ f.at \in {"think", "tools"} /\ state' = state
     \/ /\ o = "answers" /\ f.at = "over" /\ NodeSays(t, "done")
        /\ HasVerify(t) => f.verdict = "passed"
     \/ o = "raises" /\ f.at = "over" /\ NodeSays(t, "failed")

\* The types a turn's step relies on.
TurnTypes ==
  /\ turn \in [Tasks -> Frame]
  /\ state \in [Nodes -> {"idle", "working", "done", "failed"}]
  /\ used \in Nat /\ metrics \in Nat /\ trace \in [Tasks -> Nat]
  /\ target \in [Tasks -> Nodes]

\* What Sets and Frames do, point by point.
LEMMA SetsSays ==
  ASSUME TurnTypes, NEW t \in Tasks, NEW s, Sets(t, s)
  PROVE  NodeSays(t, s)
  BY DEF TurnTypes, Sets, NodeSays

\* A response of the model is worth what the budget, the metrics and the trace take.
LEMMA SpendMoves ==
  ASSUME TurnTypes, NEW t \in Tasks, NEW c \in Nat, NEW f, Spend(t, c), Frames(t, f)
  PROVE  Moved(t, f, c)
<1>1. turn' = [u \in Tasks |-> IF u = t THEN f ELSE turn[u]]
  BY DEF TurnTypes, Frames
<1>2. trace' = [u \in Tasks |-> IF u = t THEN trace[u] + c ELSE trace[u]]
  BY DEF TurnTypes, Spend, Traced
<1>. QED
  BY <1>1, <1>2 DEF Spend, Counted, Consumed, Moved

\* A step without a response costs nothing.
LEMMA StillMoves ==
  ASSUME TurnTypes, NEW t \in Tasks, NEW f, UNCHANGED <<used, metrics, trace>>, Frames(t, f)
  PROVE  Moved(t, f, 0)
<1>1. turn' = [u \in Tasks |-> IF u = t THEN f ELSE turn[u]]
  BY DEF TurnTypes, Frames
<1>2. trace' = [u \in Tasks |-> IF u = t THEN trace[u] + 0 ELSE trace[u]]
  BY DEF TurnTypes
<1>. QED
  BY <1>1, <1>2 DEF TurnTypes, Moved

FrameFields == {"at", "attempt", "thinks", "retries", "asked", "emitted", "laid", "verdict"}

\* What a new frame keeps of the old one where the step is not about it.
Keeps(f, g) ==
  /\ g \in Frame
  /\ g.emitted = f.emitted /\ g.laid = f.laid

\* The frames of a text that is accepted, of one that fails verification, of a
\* further attempt, and of a response that asks for n calls.
Accepting(f, v) == [f EXCEPT !.at = "over", !.verdict = v]
Failing(f) == [f EXCEPT !.verdict = "failed"]
Attempting(f) == [f EXCEPT !.attempt = @ + 1]
Asking(f, n) == [f EXCEPT !.at = "tools", !.asked = n]

\* A frame is a function on its fields.
LEMMA FrameForm ==
  ASSUME NEW f \in Frame
  PROVE  f = [x \in FrameFields |-> f[x]]
  BY DEF Frame, FrameFields

\* The frame of the next think, field by field.
LEMMA AgainForm ==
  ASSUME NEW f \in Frame,
         NEW g, g = [f EXCEPT !.at = "think", !.thinks = @ + 1, !.retries = 0]
  PROVE  g = [at |-> "think", attempt |-> f.attempt, thinks |-> f.thinks + 1, retries |-> 0,
              asked |-> f.asked, emitted |-> f.emitted, laid |-> f.laid, verdict |-> f.verdict]
  BY FrameForm DEF FrameFields, Frame

\* The frame of the next think.
LEMMA AgainFrame ==
  ASSUME NEW f \in Frame,
         NEW g, g = [f EXCEPT !.at = "think", !.thinks = @ + 1, !.retries = 0]
  PROVE  /\ Keeps(f, g)
         /\ g.at = "think" /\ g.thinks = f.thinks + 1
         /\ g.attempt = f.attempt /\ g.verdict = f.verdict
<1>1. g = [at |-> "think", attempt |-> f.attempt, thinks |-> f.thinks + 1, retries |-> 0,
           asked |-> f.asked, emitted |-> f.emitted, laid |-> f.laid, verdict |-> f.verdict]
  BY AgainForm
<1>. QED
  BY <1>1 DEF Frame, Places, Keeps

\* The frame of a turn that is over.
LEMMA OverFrame ==
  ASSUME NEW f \in Frame, NEW g, g = [f EXCEPT !.at = "over"]
  PROVE  /\ Keeps(f, g)
         /\ g.at = "over" /\ g.thinks = f.thinks
         /\ g.attempt = f.attempt /\ g.verdict = f.verdict
<1>1. g = [at |-> "over", attempt |-> f.attempt, thinks |-> f.thinks, retries |-> f.retries,
           asked |-> f.asked, emitted |-> f.emitted, laid |-> f.laid, verdict |-> f.verdict]
  BY FrameForm DEF FrameFields, Frame
<1>. QED
  BY <1>1 DEF Frame, Places, Keeps

\* The frame of a text that is accepted.
LEMMA AcceptedFrame ==
  ASSUME NEW f \in Frame, NEW v \in {"none", "passed"},
         NEW g, g = Accepting(f, v)
  PROVE  /\ Keeps(f, g)
         /\ g.at = "over" /\ g.thinks = f.thinks
         /\ g.attempt = f.attempt /\ g.verdict = v
<1>1. g = [at |-> "over", attempt |-> f.attempt, thinks |-> f.thinks, retries |-> f.retries,
           asked |-> f.asked, emitted |-> f.emitted, laid |-> f.laid, verdict |-> v]
  BY FrameForm DEF FrameFields, Frame, Accepting
<1>. QED
  BY <1>1 DEF Frame, Places, Keeps

\* The frame of a text that fails verification, before and after it counts as
\* an attempt.
LEMMA FailedFrame ==
  ASSUME NEW f \in Frame,
         NEW g, g = Failing(f),
         NEW h, h = Attempting(g)
  PROVE  /\ Keeps(f, g) /\ Keeps(f, h)
         /\ g.at = f.at /\ g.thinks = f.thinks /\ g.attempt = f.attempt
         /\ h.at = f.at /\ h.thinks = f.thinks /\ h.attempt = f.attempt + 1
<1>1. g = [at |-> f.at, attempt |-> f.attempt, thinks |-> f.thinks, retries |-> f.retries,
           asked |-> f.asked, emitted |-> f.emitted, laid |-> f.laid, verdict |-> "failed"]
  BY FrameForm DEF FrameFields, Frame, Failing
<1>2. g \in Frame /\ g.attempt = f.attempt
  BY <1>1 DEF Frame
<1>3. h = [at |-> f.at, attempt |-> f.attempt + 1, thinks |-> f.thinks, retries |-> f.retries,
           asked |-> f.asked, emitted |-> f.emitted, laid |-> f.laid, verdict |-> "failed"]
  BY <1>1, <1>2, FrameForm DEF FrameFields, Frame, Attempting
<1>. QED
  BY <1>1, <1>3 DEF Frame, Keeps

\* The frame of a response that asks for n calls.
LEMMA AsksFrame ==
  ASSUME NEW f \in Frame, NEW n \in Nat, NEW g, g = Asking(f, n)
  PROVE  /\ Keeps(f, g)
         /\ g.at = "tools" /\ g.asked = n /\ g.thinks = f.thinks
         /\ g.attempt = f.attempt /\ g.verdict = f.verdict
<1>1. g = [at |-> "tools", attempt |-> f.attempt, thinks |-> f.thinks, retries |-> f.retries,
           asked |-> n, emitted |-> f.emitted, laid |-> f.laid, verdict |-> f.verdict]
  BY FrameForm DEF FrameFields, Frame, Asking
<1>. QED
  BY <1>1 DEF Frame, Places, Keeps

\* The frame of a brain that tries again.
LEMMA RetryFrame ==
  ASSUME NEW f \in Frame, NEW g, g = [f EXCEPT !.retries = @ + 1]
  PROVE  /\ Keeps(f, g)
         /\ g.at = f.at /\ g.asked = f.asked /\ g.thinks = f.thinks
         /\ g.attempt = f.attempt /\ g.verdict = f.verdict
<1>1. g = [at |-> f.at, attempt |-> f.attempt, thinks |-> f.thinks, retries |-> f.retries + 1,
           asked |-> f.asked, emitted |-> f.emitted, laid |-> f.laid, verdict |-> f.verdict]
  BY FrameForm DEF FrameFields, Frame
<1>. QED
  BY <1>1 DEF Frame, Keeps

\* A call of emit_signal keeps what it lays within what it counts, and that
\* within the limit.
LEMMA EmittedFrame ==
  ASSUME NEW f \in Frame, f.laid <= f.emitted, f.emitted <= MaxPerTurn, NEW a \in BOOLEAN,
         NEW g, g = Emitted(f, a)
  PROVE  /\ g \in Frame
         /\ g.at = f.at /\ g.asked = f.asked /\ g.thinks = f.thinks
         /\ g.attempt = f.attempt /\ g.verdict = f.verdict
         /\ g.laid <= g.emitted /\ g.emitted <= MaxPerTurn
<1>1. CASE f.emitted >= MaxPerTurn
  BY <1>1 DEF Emitted
<1>2. CASE ~(f.emitted >= MaxPerTurn)
  <2>1. g = [f EXCEPT !.emitted = @ + 1, !.laid = IF a THEN @ + 1 ELSE @]
    BY <1>2 DEF Emitted
  <2>2. g = [at |-> f.at, attempt |-> f.attempt, thinks |-> f.thinks, retries |-> f.retries,
             asked |-> f.asked, emitted |-> f.emitted + 1,
             laid |-> IF a THEN f.laid + 1 ELSE f.laid, verdict |-> f.verdict]
    BY <2>1, FrameForm DEF FrameFields, Frame
  <2>. QED
    BY <1>2, <2>2, TurnAssumption DEF Frame
<1>. QED
  BY <1>1, <1>2

\* What one call leaves.
LEMMA CalledFrame ==
  ASSUME NEW f \in Frame, f.asked > 0, f.laid <= f.emitted, f.emitted <= MaxPerTurn,
         NEW g \in Called([f EXCEPT !.asked = @ - 1])
  PROVE  /\ g \in Frame
         /\ g.at = f.at /\ g.thinks = f.thinks
         /\ g.attempt = f.attempt /\ g.verdict = f.verdict
         /\ g.laid <= g.emitted /\ g.emitted <= MaxPerTurn
<1>. DEFINE e == [f EXCEPT !.asked = @ - 1]
<1>1. e = [at |-> f.at, attempt |-> f.attempt, thinks |-> f.thinks, retries |-> f.retries,
           asked |-> f.asked - 1, emitted |-> f.emitted, laid |-> f.laid, verdict |-> f.verdict]
  BY FrameForm DEF FrameFields, Frame
<1>2. /\ e \in Frame /\ e.at = f.at /\ e.thinks = f.thinks /\ e.attempt = f.attempt
      /\ e.verdict = f.verdict /\ e.laid = f.laid /\ e.emitted = f.emitted
  BY <1>1 DEF Frame
<1>3. PICK a \in BOOLEAN : g = Emitted(e, a) \/ g = e
  BY DEF Called
<1>. QED
  BY <1>2, <1>3, EmittedFrame

\* The first step of a turn.
LEMMA BeginKinds ==
  ASSUME TurnTypes, NEW t \in Tasks, NEW o, turn[t] = NoFrame,
         Begins(t, o) \/ (o = "raises" /\ Over(t) /\ UNCHANGED <<state, used, metrics, trace>>)
  PROVE  Opens(t, o)
<1>1. UNCHANGED <<used, metrics, trace>>
  BY DEF Begins, ActBegins, LoopBegins
<1>2. Over(t) => Moved(t, Unbegun, 0)
  BY <1>1, StillMoves DEF Over, Unbegun
<1>3. Again(t, [turn[t] EXCEPT !.attempt = 1]) => Moved(t, FirstFrame, 0)
  <2>0. [NoFrame EXCEPT !.attempt = 1] =
          [at |-> "out", attempt |-> 1, thinks |-> 0, retries |-> 0, asked |-> 0, emitted |-> 0,
           laid |-> 0, verdict |-> "none"]
    BY DEF NoFrame
  <2>1. ASSUME NEW f, f = [at |-> "out", attempt |-> 1, thinks |-> 0, retries |-> 0, asked |-> 0,
                           emitted |-> 0, laid |-> 0, verdict |-> "none"]
        PROVE  [f EXCEPT !.at = "think", !.thinks = @ + 1, !.retries = 0] = FirstFrame
    <3>1. /\ f \in Frame /\ f.thinks = 0
          /\ f.attempt = 1 /\ f.asked = 0 /\ f.emitted = 0 /\ f.laid = 0 /\ f.verdict = "none"
      BY <2>1 DEF Frame, Places
    <3>2. [f EXCEPT !.at = "think", !.thinks = @ + 1, !.retries = 0] =
            [at |-> "think", attempt |-> f.attempt, thinks |-> f.thinks + 1, retries |-> 0,
             asked |-> f.asked, emitted |-> f.emitted, laid |-> f.laid, verdict |-> f.verdict]
      BY <3>1, AgainForm
    <3>. QED
      BY <3>1, <3>2 DEF FirstFrame
  <2>2. Again(t, [turn[t] EXCEPT !.attempt = 1]) => Frames(t, FirstFrame)
    BY <2>0, <2>1 DEF Again
  <2>. QED
    BY <1>1, <2>2, StillMoves
<1>5. \A s : Sets(t, s) => NodeSays(t, s)
  BY SetsSays
<1>6. used < Limit <=> ~Exhausted(used)
  BY TurnAssumption DEF Exhausted, TurnTypes
<1>. QED
  BY <1>2, <1>3, <1>5, <1>6 DEF Opens, Begins, ActBegins, ActRefused, ActStart, LoopBegins

\* A later step of a turn: a text, a request for calls, the answer of a call,
\* a transient error or an error of the model.
LEMMA ResumeKinds ==
  ASSUME TurnTypes, NEW t \in Tasks, NEW o, InTurn(t), FrameOK(t, turn[t]), Resumes(t, o)
  PROVE  \E f \in Frame, c \in Costs \cup {0} : Continues(t, o, f, c) /\ FrameOK(t, f)
<1>. DEFINE g == turn[t]
<1>0. g \in Frame /\ used \in Nat
  BY DEF TurnTypes
<1>1. \A s : Sets(t, s) => NodeSays(t, s)
  BY SetsSays
<1>2. ASSUME NEW f, Frames(t, f), UNCHANGED <<used, metrics, trace>>
      PROVE  Moved(t, f, 0)
  BY <1>2, StillMoves
<1>3. ASSUME NEW c \in Costs, NEW f, Spend(t, c), Frames(t, f)
      PROVE  Moved(t, f, c)
  BY <1>3, SpendMoves, TurnAssumption
<1>4. ASSUME NEW f \in Frame, NEW c \in Costs, f.at = "over"
      PROVE  g.at = "think" => Paid(t, f, c)
  BY <1>0, <1>4, TurnAssumption DEF Paid, Left, FrameOK, Frame
<1>5. ASSUME NEW f \in Frame, f.at = "over"
      PROVE  Paid(t, f, 0)
  BY <1>0, <1>5, TurnAssumption DEF Paid, Left, FrameOK, Frame
<1>6. ASSUME NEW c \in Costs, TextBreaksRule(t, c, o)
      PROVE  \E f \in Frame : Continues(t, o, f, c) /\ FrameOK(t, f)
  <2>1. PICK f : f = [g EXCEPT !.at = "over"]
    OBVIOUS
  <2>2. /\ Keeps(g, f) /\ f.at = "over" /\ f.thinks = g.thinks /\ f.attempt = g.attempt
    BY <1>0, <2>1, OverFrame
  <2>3. Moved(t, f, c) /\ NodeSays(t, "failed")
    BY <1>1, <1>3, <1>6, <2>1 DEF TextBreaksRule, Over
  <2>. QED
    BY <1>4, <1>6, <2>2, <2>3 DEF Continues, FrameOK, Keeps, TextBreaksRule
<1>7. ASSUME NEW c \in Costs, TextAccepted(t, c, o)
      PROVE  \E f \in Frame : Continues(t, o, f, c) /\ FrameOK(t, f)
  <2>. DEFINE v == IF HasVerify(t) THEN "passed" ELSE "none"
  <2>1. PICK f : f = Accepting(g, v)
    OBVIOUS
  <2>2. /\ Keeps(g, f) /\ f.at = "over" /\ f.thinks = g.thinks /\ f.attempt = g.attempt
        /\ f.verdict = v
    BY <1>0, <2>1, AcceptedFrame, v \in {"none", "passed"}
  <2>3. Moved(t, f, c) /\ NodeSays(t, "done")
    BY <1>1, <1>3, <1>7, <2>1 DEF TextAccepted, Accepting
  <2>. QED
    BY <1>4, <1>7, <2>2, <2>3 DEF Continues, FrameOK, Keeps, TextAccepted
<1>8. PICK n : n = Failing(g)
  OBVIOUS
<1>9. PICK m : m = Attempting(n)
  OBVIOUS
<1>10. /\ Keeps(g, n) /\ n.at = g.at /\ n.thinks = g.thinks /\ n.attempt = g.attempt
       /\ Keeps(g, m) /\ m.at = g.at /\ m.thinks = g.thinks /\ m.attempt = g.attempt + 1
  BY <1>0, <1>8, <1>9, FailedFrame
<1>11. ASSUME NEW c \in Costs, Spend(t, c), g.at = "think", GivesUp(t, o)
       PROVE  \E f \in Frame : Continues(t, o, f, c) /\ FrameOK(t, f)
  <2>1. PICK f : f = [n EXCEPT !.at = "over"]
    OBVIOUS
  <2>2. /\ Keeps(g, f) /\ f.at = "over" /\ f.thinks = g.thinks /\ f.attempt = g.attempt
    BY <1>10, <2>1, OverFrame DEF Keeps
  <2>3. Moved(t, f, c) /\ NodeSays(t, "failed")
    BY <1>1, <1>3, <1>8, <1>11, <2>1 DEF GivesUp, Failed, Failing
  <2>. QED
    BY <1>4, <1>11, <2>2, <2>3 DEF Continues, FrameOK, Keeps, GivesUp
<1>12. ASSUME NEW c \in Costs, ActTextFails(t, c, o)
       PROVE  \E f \in Frame : Continues(t, o, f, c) /\ FrameOK(t, f)
  <2>1. CASE GivesUp(t, o)
    BY <1>11, <1>12, <2>1 DEF ActTextFails
  <2>2. CASE Corrects(t, o) /\ g.attempt < MaxVerify /\ ~Exhausted(used + c)
    <3>1. PICK f : f = [m EXCEPT !.at = "think", !.thinks = @ + 1, !.retries = 0]
      OBVIOUS
    <3>2. /\ Keeps(m, f) /\ f.at = "think" /\ f.thinks = m.thinks + 1 /\ f.attempt = m.attempt
      BY <1>10, <3>1, AgainFrame DEF Keeps
    <3>3. Moved(t, f, c) /\ state' = state
      BY <1>3, <1>8, <1>9, <1>12, <2>2, <3>1
      DEF ActTextFails, Corrects, Again, Failed, Failing, Attempting
    <3>4. used + c < Limit
      BY <1>0, <2>2, TurnAssumption DEF Exhausted
    <3>5. Paid(t, f, c)
      BY <1>12, <3>2, <3>4 DEF Paid, Left, ActTextFails
    <3>6. FrameOK(t, f)
      BY <1>0, <1>10, <1>12, <2>2, <3>2, TurnAssumption DEF FrameOK, Keeps, Frame, ActTextFails
    <3>. QED
      BY <2>2, <3>2, <3>3, <3>5, <3>6 DEF Continues, Keeps, Corrects
  <2>. QED
    BY <1>12, <2>1, <2>2 DEF ActTextFails
<1>13. ASSUME NEW c \in Costs, LoopTextFails(t, c, o)
       PROVE  \E f \in Frame : Continues(t, o, f, c) /\ FrameOK(t, f)
  <2>1. CASE GivesUp(t, o)
    BY <1>11, <1>13, <2>1 DEF LoopTextFails
  <2>2. CASE LoopGoes(t, m, o) /\ g.attempt < MaxVerify
    <3>1. CASE m.thinks < MaxIterations
      <4>1. PICK f : f = [m EXCEPT !.at = "think", !.thinks = @ + 1, !.retries = 0]
        OBVIOUS
      <4>2. /\ Keeps(m, f) /\ f.at = "think" /\ f.thinks = m.thinks + 1 /\ f.attempt = m.attempt
        BY <1>10, <4>1, AgainFrame DEF Keeps
      <4>3. Moved(t, f, c) /\ state' = state /\ o = "goes"
        BY <1>3, <1>13, <2>2, <3>1, <4>1 DEF LoopTextFails, LoopGoes, Again
      <4>4. Paid(t, f, c)
        BY <1>0, <1>10, <1>13, <4>2, TurnAssumption DEF Paid, Left, LoopTextFails, Frame
      <4>5. FrameOK(t, f)
        BY <1>0, <1>10, <1>13, <2>2, <3>1, <4>2, TurnAssumption
        DEF FrameOK, Keeps, Frame, LoopTextFails
      <4>. QED
        BY <4>2, <4>3, <4>4, <4>5 DEF Continues, Keeps
    <3>2. CASE ~(m.thinks < MaxIterations)
      <4>1. PICK f : f = [m EXCEPT !.at = "over"]
        OBVIOUS
      <4>2. /\ Keeps(m, f) /\ f.at = "over" /\ f.thinks = m.thinks /\ f.attempt = m.attempt
        BY <1>10, <4>1, OverFrame DEF Keeps
      <4>3. Moved(t, f, c) /\ NodeSays(t, "failed") /\ o = "raises"
        BY <1>1, <1>3, <1>13, <2>2, <3>2, <4>1 DEF LoopTextFails, LoopGoes
      <4>4. FrameOK(t, f)
        BY <1>0, <1>10, <1>13, <2>2, <4>2, TurnAssumption
        DEF FrameOK, Keeps, Frame, LoopTextFails
      <4>. QED
        BY <1>4, <1>13, <4>2, <4>3, <4>4 DEF Continues, Keeps, LoopTextFails
    <3>. QED
      BY <3>1, <3>2
  <2>. QED
    BY <1>8, <1>9, <1>13, <2>1, <2>2 DEF LoopTextFails, Failed, Failing, Attempting
<1>14. ASSUME NEW c \in Costs, NEW k \in 1..MaxCalls, LoopAsks(t, c, k, o)
       PROVE  \E f \in Frame : Continues(t, o, f, c) /\ FrameOK(t, f)
  <2>0. k \in Nat /\ k > 0
    BY TurnAssumption
  <2>1. PICK f : f = Asking(g, k)
    OBVIOUS
  <2>2. /\ Keeps(g, f) /\ f.at = "tools" /\ f.thinks = g.thinks /\ f.attempt = g.attempt
        /\ f.asked = k
    BY <1>0, <2>0, <2>1, AsksFrame
  <2>3. Moved(t, f, c) /\ state' = state /\ o = "goes" /\ g.at = "think" /\ HasTools(t)
    BY <1>3, <1>14, <2>1 DEF LoopAsks, Asking
  <2>4. Paid(t, f, c)
    BY <1>0, <2>2, <2>3, TurnAssumption DEF Paid, Left, Frame
  <2>. QED
    BY <2>0, <2>2, <2>3, <2>4 DEF Continues, FrameOK, Keeps
<1>15. ASSUME LoopCalls(t, o)
       PROVE  \E f \in Frame : Continues(t, o, f, 0) /\ FrameOK(t, f)
  <2>1. PICK h \in Called([g EXCEPT !.asked = @ - 1]) :
          IF h.asked > 0 THEN o = "goes" /\ Frames(t, h) /\ UNCHANGED state
          ELSE LoopGoes(t, h, o)
    BY <1>15 DEF LoopCalls
  <2>2. g.at = "tools" /\ HasTools(t) /\ g.asked > 0 /\ g.thinks <= MaxIterations
    BY <1>15 DEF LoopCalls, FrameOK
  <2>3. /\ h \in Frame
        /\ h.at = g.at /\ h.thinks = g.thinks /\ h.attempt = g.attempt
        /\ h.laid <= h.emitted /\ h.emitted <= MaxPerTurn
    BY <1>0, <2>1, <2>2, CalledFrame DEF FrameOK
  <2>4. CASE h.asked > 0
    <3>1. Moved(t, h, 0) /\ state' = state /\ o = "goes"
      BY <1>2, <1>15, <2>1, <2>4 DEF LoopCalls
    <3>2. Paid(t, h, 0)
      BY <1>0, <2>2, <2>3, TurnAssumption DEF Paid, Left, Frame
    <3>. QED
      BY <2>2, <2>3, <2>4, <3>1, <3>2 DEF Continues, FrameOK
  <2>5. CASE ~(h.asked > 0) /\ h.thinks < MaxIterations
    <3>1. PICK f : f = [h EXCEPT !.at = "think", !.thinks = @ + 1, !.retries = 0]
      OBVIOUS
    <3>2. /\ Keeps(h, f) /\ f.at = "think" /\ f.thinks = h.thinks + 1 /\ f.attempt = h.attempt
      BY <2>3, <3>1, AgainFrame
    <3>3. Moved(t, f, 0) /\ state' = state /\ o = "goes"
      BY <1>2, <1>15, <2>1, <2>5, <3>1 DEF LoopCalls, LoopGoes, Again
    <3>4. Paid(t, f, 0)
      BY <1>0, <2>2, <2>3, <3>2, TurnAssumption DEF Paid, Left, Frame
    <3>5. FrameOK(t, f)
      BY <1>0, <2>2, <2>3, <2>5, <3>2, TurnAssumption DEF FrameOK, Keeps, Frame
    <3>. QED
      BY <3>2, <3>3, <3>4, <3>5 DEF Continues, Keeps
  <2>6. CASE ~(h.asked > 0) /\ ~(h.thinks < MaxIterations)
    <3>1. PICK f : f = [h EXCEPT !.at = "over"]
      OBVIOUS
    <3>2. /\ Keeps(h, f) /\ f.at = "over" /\ f.thinks = h.thinks /\ f.attempt = h.attempt
      BY <2>3, <3>1, OverFrame
    <3>3. Moved(t, f, 0) /\ NodeSays(t, "failed") /\ o = "raises"
      BY <1>1, <1>2, <1>15, <2>1, <2>6, <3>1 DEF LoopCalls, LoopGoes
    <3>4. FrameOK(t, f)
      BY <2>2, <2>3, <3>2 DEF FrameOK, Keeps
    <3>. QED
      BY <1>5, <3>2, <3>3, <3>4 DEF Continues, Keeps
  <2>. QED
    BY <2>4, <2>5, <2>6
<1>16. ASSUME BrainRetries(t, o)
       PROVE  \E f \in Frame : Continues(t, o, f, 0) /\ FrameOK(t, f)
  <2>1. PICK f : f = [g EXCEPT !.retries = @ + 1]
    OBVIOUS
  <2>2. /\ Keeps(g, f) /\ f.at = g.at /\ f.asked = g.asked /\ f.thinks = g.thinks
        /\ f.attempt = g.attempt
    BY <1>0, <2>1, RetryFrame
  <2>3. Moved(t, f, 0) /\ state' = state /\ o = "goes" /\ g.at = "think"
    BY <1>2, <1>16, <2>1 DEF BrainRetries
  <2>4. Paid(t, f, 0)
    BY <1>0, <2>2, <2>3, TurnAssumption DEF Paid, Left, Frame
  <2>. QED
    BY <2>2, <2>3, <2>4 DEF Continues, FrameOK, Keeps
<1>17. ASSUME BrainRaises(t, o)
       PROVE  \E f \in Frame : Continues(t, o, f, 0) /\ FrameOK(t, f)
  <2>1. PICK f : f = [g EXCEPT !.at = "over"]
    OBVIOUS
  <2>2. /\ Keeps(g, f) /\ f.at = "over" /\ f.thinks = g.thinks /\ f.attempt = g.attempt
    BY <1>0, <2>1, OverFrame
  <2>3. Moved(t, f, 0) /\ NodeSays(t, "failed") /\ o = "raises"
    BY <1>1, <1>2, <1>17, <2>1 DEF BrainRaises, Over
  <2>. QED
    BY <1>5, <2>2, <2>3 DEF Continues, FrameOK, Keeps
<1>. QED
  BY <1>6, <1>7, <1>12, <1>13, <1>14, <1>15, <1>16, <1>17 DEF Resumes, Thinks

-------------------------------------------------------------------------------
(* What a step of the run does *)

\* The status, the record, the event and the tokens of t, and the frame of its turn.
Changes(t, f, c, s, r, e, d) ==
  /\ Moved(t, f, c)
  /\ status' = [u \in Tasks |-> IF u = t THEN s ELSE status[u]]
  /\ rec' = [u \in Tasks |-> IF u = t THEN r ELSE rec[u]]
  /\ told' = [u \in Tasks |-> IF u = t THEN e ELSE told[u]]
  /\ tokens' = [u \in Tasks |-> IF u = t THEN tokens[u] + d ELSE tokens[u]]
  /\ UNCHANGED <<fixed, band, result>>

\* What the end of _process leaves, where the record may be the one that fails.
Settles(t, f, c, s, d, fault) ==
  Changes(t, f, c, s, IF fault = "record" THEN "running" ELSE s,
          IF fault = "record" THEN "started" ELSE s, d)

\* The turn of t begins ...
Entered(t) ==
  /\ Takes(t) /\ used < Limit
  /\ Changes(t, FirstFrame, 0, "running", "running", "started", 0)
  /\ NodeSays(t, "working")
  /\ inside' = inside \cup {t} /\ line' = line \ {t}
  /\ UNCHANGED <<phase, faults>>

\* ... goes on ...
Went(t, f, c) ==
  /\ t \in inside /\ f.at \in {"think", "tools"}
  /\ Moved(t, f, c) /\ Paid(t, f, c) /\ FrameOK(t, f)
  /\ UNCHANGED <<state, fixed, band, result, phase, line, inside, faults>>
  /\ UNCHANGED <<status, rec, told, tokens>>

\* ... and is over, whether it was begun or not.
Closed(t, f, c, s, d, fault) ==
  /\ Settles(t, f, c, s, d, fault)
  /\ f.at = "over" /\ FrameOK(t, f)
  /\ s \in {"done", "failed"} /\ d <= c
  /\ s = "done" /\ HasVerify(t) => f.verdict = "passed"
  /\ \/ t \in inside /\ Paid(t, f, c) /\ (NodeSays(t, "done") \/ NodeSays(t, "failed"))
     \/ Takes(t) /\ c = 0 /\ (state' = state \/ NodeSays(t, "failed"))
  /\ inside' = inside \ {t}
  /\ Escapes(fault, line \ {t})

\* Every task in line is untouched, and every task in _process is in its turn.
Placed ==
  /\ \A t \in line : turn[t] = NoFrame
  /\ inside = {t \in Tasks : InTurn(t)}

\* The types, for the parts of the proof that need a turn's step.
LEMMA TypesOfTurn ==
  ASSUME TurnTypeOK PROVE TurnTypes
  BY DEF TurnTypeOK, TurnTypes

\* The frames a turn opens with.
LEMMA FirstFrames ==
  /\ FirstFrame \in Frame /\ Unbegun \in Frame /\ NoFrame \in Frame
  /\ Unbegun.at = "over" /\ Unbegun.verdict = "none"
  /\ \A t : FrameOK(t, FirstFrame) /\ FrameOK(t, Unbegun) /\ FrameOK(t, NoFrame)
<1>1. Unbegun = [at |-> "over", attempt |-> 0, thinks |-> 0, retries |-> 0, asked |-> 0,
                 emitted |-> 0, laid |-> 0, verdict |-> "none"]
  BY DEF Unbegun, NoFrame
<1>. QED
  BY <1>1, TurnAssumption DEF FirstFrame, NoFrame, Frame, Places, FrameOK

\* What the end of _process does, task by task.
LEMMA FinishSays ==
  ASSUME TurnTypeOK, NEW t \in Tasks, NEW o, NEW f, NEW c \in Nat, NEW rest,
         Moved(t, f, c), Ends(t, o, rest), UNCHANGED <<fixed, band, result>>
  PROVE  \E s \in {"done", "failed"}, d \in Nat, fault \in Faults :
           /\ Settles(t, f, c, s, d, fault)
           /\ s \in {"done", "failed"} /\ d <= c /\ (s = "done" => o = "answers")
           /\ inside' = inside \ {t}
           /\ Escapes(fault, rest)
<1>1. PICK parses \in BOOLEAN, fault \in Faults : Finish(t, o, parses, fault, rest)
  BY DEF Ends
<1>s. PICK s : s = Captured(o, parses)
  OBVIOUS
<1>d. PICK d : d = IF o = "answers" THEN used' - used ELSE 0
  OBVIOUS
<1>2. s \in {"done", "failed"} /\ (s = "done" => o = "answers")
  BY <1>s DEF Captured
<1>3. d \in Nat /\ d <= c
  BY <1>d DEF Moved, TurnTypeOK
<1>4. tokens' = [u \in Tasks |-> IF u = t THEN tokens[u] + d ELSE tokens[u]]
  <2>1. CASE o = "answers"
    BY <1>1, <1>d, <2>1 DEF Finish, TurnTypeOK
  <2>2. CASE o # "answers"
    BY <1>1, <1>d, <2>2 DEF Finish, TurnTypeOK
  <2>. QED
    BY <2>1, <2>2
<1>5. /\ status' = [u \in Tasks |-> IF u = t THEN s ELSE status[u]]
      /\ rec' = [u \in Tasks |-> IF u = t THEN IF fault = "record" THEN "running" ELSE s
                                 ELSE rec[u]]
      /\ told' = [u \in Tasks |-> IF u = t THEN IF fault = "record" THEN "started" ELSE s
                                  ELSE told[u]]
  BY <1>1, <1>s DEF Finish, TurnTypeOK
<1>6. inside' = inside \ {t} /\ Escapes(fault, rest)
  BY <1>1 DEF Finish
<1>7. Settles(t, f, c, s, d, fault)
  BY <1>4, <1>5 DEF Changes, Settles
<1>. QED
  BY <1>1, <1>2, <1>3, <1>6, <1>7

\* A step of a task is one of these three.
LEMMA ProcessKinds ==
  ASSUME TurnTypeOK, FramesKept, Placed, NEW t \in Tasks, Process(t)
  PROVE  \/ Entered(t)
         \/ \E f \in Frame, c \in Costs \cup {0} : Went(t, f, c)
         \/ \E f \in Frame, c \in Costs \cup {0}, s \in {"done", "failed"}, d \in Nat,
               fault \in Faults : Closed(t, f, c, s, d, fault)
<1>0. TurnTypes /\ Costs \cup {0} \subseteq Nat
  BY TypesOfTurn, TurnAssumption
<1>1. PICK o \in {"goes", "answers", "raises"} : Enter(t, o) \/ Advance(t, o)
  BY DEF Process
<1>2. CASE Enter(t, o)
  <2>1. turn[t] = NoFrame /\ Takes(t)
    BY <1>2 DEF Enter, Takes, Placed
  <2>2. Opens(t, o) /\ UNCHANGED <<fixed, band, result>>
    BY <1>0, <1>2, <2>1, BeginKinds DEF Enter, Unresolved
  <2>3. CASE o = "goes"
    <3>1. Moved(t, FirstFrame, 0) /\ NodeSays(t, "working") /\ used < Limit
      BY <2>2, <2>3 DEF Opens
    <3>2. /\ status' = [u \in Tasks |-> IF u = t THEN "running" ELSE status[u]]
          /\ rec' = [u \in Tasks |-> IF u = t THEN "running" ELSE rec[u]]
          /\ told' = [u \in Tasks |-> IF u = t THEN "started" ELSE told[u]]
          /\ inside' = inside \cup {t} /\ line' = line \ {t}
          /\ UNCHANGED <<phase, tokens, faults>>
      BY <1>2, <2>3 DEF Enter, TurnTypeOK
    <3>3. tokens' = [u \in Tasks |-> IF u = t THEN tokens[u] + 0 ELSE tokens[u]]
      BY <3>2 DEF TurnTypeOK
    <3>. QED
      BY <2>1, <2>2, <3>1, <3>2, <3>3 DEF Entered, Changes
  <2>4. CASE o # "goes"
    <3>1. Moved(t, Unbegun, 0) /\ (state' = state \/ NodeSays(t, "failed")) /\ o = "raises"
      BY <2>2, <2>4 DEF Opens
    <3>2. Ends(t, o, line \ {t})
      BY <1>2, <2>4 DEF Enter
    <3>3. PICK s \in {"done", "failed"}, d \in Nat, fault \in Faults :
            /\ Settles(t, Unbegun, 0, s, d, fault)
            /\ s \in {"done", "failed"} /\ d <= 0 /\ (s = "done" => o = "answers")
            /\ inside' = inside \ {t}
            /\ Escapes(fault, line \ {t})
      BY <2>2, <3>1, <3>2, FinishSays
    <3>4. Closed(t, Unbegun, 0, s, d, fault)
      BY <2>1, <3>1, <3>3, FirstFrames DEF Closed
    <3>. QED
      BY <3>4, FirstFrames
  <2>. QED
    BY <2>3, <2>4
<1>3. CASE Advance(t, o)
  <2>1. t \in inside /\ InTurn(t) /\ FrameOK(t, turn[t]) /\ Resumes(t, o)
    BY <1>3 DEF Advance, Placed, FramesKept
  <2>2. PICK f \in Frame, c \in Costs \cup {0} : Continues(t, o, f, c) /\ FrameOK(t, f)
    BY <1>0, <2>1, ResumeKinds
  <2>3. Moved(t, f, c) /\ Paid(t, f, c) /\ UNCHANGED <<fixed, band, result>>
    BY <1>3, <2>2 DEF Continues, Advance
  <2>4. CASE o = "goes"
    <3>1. Went(t, f, c)
      BY <1>3, <2>1, <2>2, <2>3, <2>4 DEF Advance, Continues, Went
    <3>. QED
      BY <3>1
  <2>5. CASE o # "goes"
    <3>1. /\ f.at = "over" /\ (NodeSays(t, "done") \/ NodeSays(t, "failed"))
          /\ o = "answers" /\ HasVerify(t) => f.verdict = "passed"
      BY <2>2, <2>5 DEF Continues
    <3>2. Ends(t, o, line)
      BY <1>3, <2>5 DEF Advance
    <3>3. line = line \ {t}
      BY <2>1 DEF Placed, InTurn, NoFrame
    <3>4. PICK s \in {"done", "failed"}, d \in Nat, fault \in Faults :
            /\ Settles(t, f, c, s, d, fault)
            /\ s \in {"done", "failed"} /\ d <= c /\ (s = "done" => o = "answers")
            /\ inside' = inside \ {t}
            /\ Escapes(fault, line)
      BY <1>0, <2>3, <3>2, FinishSays, c \in Nat
    <3>5. Closed(t, f, c, s, d, fault)
      BY <2>1, <2>2, <2>3, <3>1, <3>3, <3>4 DEF Closed
    <3>. QED
      BY <3>5
  <2>. QED
    BY <2>4, <2>5
<1>. QED
  BY <1>1, <1>2, <1>3

-------------------------------------------------------------------------------
(* Types and frames *)

\* A nonempty set of numbers has a least element, which is its Min.
LEMMA LeastElement ==
  ASSUME NEW S \in SUBSET Nat, S # {}
  PROVE  Min(S) \in S /\ \A m \in S : Min(S) <= m
<1>1. PICK n \in S : \A m \in S : ~(<<m, n>> \in OpToRel(<, Nat))
  BY NatLessThanWellFounded, WFMin
<1>2. \A m \in S : ~(m < n)
  BY <1>1 DEF OpToRel
<1>3. \A m \in S : n <= m
  BY <1>2
<1>. QED
  BY <1>3 DEF Min

\* The larger of two numbers.
LEMMA LargerOfTwo ==
  ASSUME NEW a \in Int, NEW b \in Int
  PROVE  Max({a, b}) \in {a, b} /\ Max({a, b}) >= a /\ Max({a, b}) >= b
<1>1. \E m \in {a, b} : \A n \in {a, b} : m >= n
  OBVIOUS
<1>. QED
  BY <1>1 DEF Max

\* The queue holds tasks, finitely many of them, and their ranks are numbers.
LEMMA QueueTypes ==
  ASSUME TurnTypeOK
  PROVE  Queued \in SUBSET Tasks /\ IsFiniteSet(Queued) /\ Ranks \in SUBSET Nat
<1>1. Queued \in SUBSET Tasks
  BY DEF TurnTypeOK, Queued
<1>. QED
  BY <1>1, CallAssumption, FS_Subset DEF Ranks, TurnTypeOK

\* A call begins with a queue, a first band, and no frame.
LEMMA InitTypes ==
  ASSUME Init
  PROVE  /\ TurnTypeOK /\ FramesKept
         /\ \A t \in Tasks : turn[t] = NoFrame
         /\ Ranks # {} /\ band \in Ranks /\ \A r \in Ranks : band <= r
<1>1. PICK s \in Setups : target = s.target /\ rank = s.rank
  BY DEF Init
<1>2. target \in [Tasks -> Nodes] /\ rank \in [Tasks -> Nat]
  BY <1>1, RunnerAssumption
<1>. DEFINE n == Min({MaxTasks, Cardinality(Tasks)})
<1>3. n \in Nat \ {0}
  <2>1. Cardinality(Tasks) \in Nat /\ Cardinality(Tasks) # 0
    BY CallAssumption, FS_CardinalityType, FS_EmptySet
  <2>2. {MaxTasks, Cardinality(Tasks)} \in SUBSET Nat /\ MaxTasks # 0
    BY <2>1, RunnerAssumption
  <2>. QED
    BY <2>1, <2>2, LeastElement
<1>4. queue \in [1..n -> Tasks]
  BY DEF Init
<1>. HIDE DEF n
<1>5. queue \in Seq(Tasks) /\ queue[1] \in Queued
  BY <1>3, <1>4 DEF Queued
<1>6. Queued \in SUBSET Tasks
  BY <1>4 DEF Queued
<1>7. Ranks \in SUBSET Nat /\ Ranks # {}
  BY <1>2, <1>5, <1>6 DEF Ranks
<1>8. band \in Ranks /\ \A r \in Ranks : band <= r
  BY <1>7, LeastElement DEF Init
<1>9. \A t \in Tasks : turn[t] = NoFrame
  BY DEF Init, TurnInit
<1>10. turn \in [Tasks -> Frame] /\ FramesKept
  BY <1>9, FirstFrames DEF Init, TurnInit, FramesKept
<1>11. TurnTypeOK
  BY <1>2, <1>5, <1>6, <1>7, <1>8, <1>10 DEF Init, TurnInit, TurnTypeOK, BandOf, NoResult
<1>. QED
  BY <1>7, <1>8, <1>9, <1>10, <1>11

\* A cancelled turn keeps what it has laid and what verify has said.
LEMMA CancelSays ==
  ASSUME TurnTypeOK, FramesKept, NEW late, Cancel(late)
  PROVE  \A t \in Tasks :
           /\ turn'[t] \in Frame /\ FrameOK(t, turn'[t])
           /\ t \notin inside => turn'[t] = turn[t]
           /\ t \in inside => turn'[t].at = "cut" /\ turn'[t].verdict = turn[t].verdict
<1>. SUFFICES ASSUME NEW t \in Tasks
              PROVE  /\ turn'[t] \in Frame /\ FrameOK(t, turn'[t])
                     /\ t \notin inside => turn'[t] = turn[t]
                     /\ t \in inside => turn'[t].at = "cut" /\ turn'[t].verdict = turn[t].verdict
  OBVIOUS
<1>0. turn[t] \in Frame /\ FrameOK(t, turn[t])
  BY DEF TurnTypeOK, FramesKept
<1>1. CASE t \notin inside
  <2>1. turn'[t] = turn[t]
    BY <1>1 DEF Cancel
  <2>. QED
    BY <1>0, <1>1, <2>1
<1>2. CASE t \in inside
  <2>1. PICK f : f = IF t \in late /\ turn[t].at = "tools" THEN Emitted(turn[t], TRUE) ELSE turn[t]
    OBVIOUS
  <2>2. PICK g : g = [f EXCEPT !.at = "cut"]
    OBVIOUS
  <2>3. turn'[t] = g
    BY <1>2, <2>1, <2>2 DEF Cancel
  <2>4. /\ f \in Frame /\ f.thinks = turn[t].thinks /\ f.attempt = turn[t].attempt
        /\ f.verdict = turn[t].verdict /\ f.laid <= f.emitted /\ f.emitted <= MaxPerTurn
    BY <1>0, <2>1, EmittedFrame DEF FrameOK
  <2>5. g = [at |-> "cut", attempt |-> f.attempt, thinks |-> f.thinks, retries |-> f.retries,
             asked |-> f.asked, emitted |-> f.emitted, laid |-> f.laid, verdict |-> f.verdict]
    BY <2>2, <2>4, FrameForm DEF FrameFields, Frame
  <2>. QED
    BY <1>0, <1>2, <2>3, <2>4, <2>5 DEF Frame, Places, FrameOK
<1>. QED
  BY <1>1, <1>2

\* A turn that moves on keeps the types of what is spent.
LEMMA MovedTypes ==
  ASSUME TurnTypeOK, NEW t \in Tasks, NEW f \in Frame, NEW c \in Nat, Moved(t, f, c)
  PROVE  /\ turn' \in [Tasks -> Frame] /\ used' \in Nat /\ metrics' \in Nat
         /\ trace' \in [Tasks -> Nat]
<1>1. turn' \in [Tasks -> Frame]
  BY DEF Moved, TurnTypeOK
<1>2. used' \in Nat /\ metrics' \in Nat
  BY DEF Moved, TurnTypeOK
<1>3. trace' \in [Tasks -> Nat]
  <2>1. trace \in [Tasks -> Nat]
    BY DEF TurnTypeOK
  <2>. QED
    BY <2>1 DEF Moved
<1>. QED
  BY <1>1, <1>2, <1>3

\* The types are kept.
LEMMA TypesStep ==
  ASSUME TurnTypeOK, FramesKept, Placed, [Next]_vars
  PROVE  TurnTypeOK'
<1>0. Costs \cup {0} \subseteq Nat
  BY TurnAssumption
<1>1. ASSUME NEW t \in Tasks, Entered(t)
      PROVE  TurnTypeOK'
  BY <1>1, FirstFrames DEF Entered, Changes, Moved, NodeSays, TurnTypeOK, fixed
<1>2. ASSUME NEW t \in Tasks, NEW f \in Frame, NEW c \in Costs \cup {0}, Went(t, f, c)
      PROVE  TurnTypeOK'
  <2>1. /\ turn' \in [Tasks -> Frame] /\ used' \in Nat /\ metrics' \in Nat
        /\ trace' \in [Tasks -> Nat]
    BY <1>0, <1>2, MovedTypes DEF Went
  <2>. QED
    BY <1>2, <2>1 DEF Went, TurnTypeOK, fixed
<1>3. ASSUME NEW t \in Tasks, NEW f \in Frame, NEW c \in Costs \cup {0},
             NEW s \in {"done", "failed"}, NEW d \in Nat, NEW fault \in Faults,
             Closed(t, f, c, s, d, fault)
      PROVE  TurnTypeOK'
  <2>1. /\ turn' \in [Tasks -> Frame] /\ used' \in Nat /\ metrics' \in Nat
        /\ trace' \in [Tasks -> Nat]
    <3>1. Moved(t, f, c) /\ c \in Nat
      BY <1>0, <1>3 DEF Closed, Settles, Changes
    <3>. QED
      BY <3>1, MovedTypes
  <2>2. state' \in [Nodes -> {"idle", "working", "done", "failed"}]
    BY <1>3 DEF Closed, NodeSays, TurnTypeOK
  <2>3. /\ status' \in [Tasks -> {"pending", "running", "done", "failed"}]
        /\ rec' \in [Tasks -> {"absent", "pending", "running", "done", "failed"}]
        /\ told' \in [Tasks -> {"nothing", "started", "done", "failed"}]
        /\ tokens' \in [Tasks -> Nat]
    BY <1>3 DEF Closed, Settles, Changes, TurnTypeOK
  <2>4. phase' \in {"running", "returned", "raised"} /\ line' \in SUBSET Tasks
        /\ inside' \in SUBSET Tasks /\ faults' \in Nat
    BY <1>3 DEF Closed, Escapes, TurnTypeOK
  <2>5. UNCHANGED <<fixed, band>>
    BY <1>3 DEF Closed, Settles, Changes
  <2>. QED
    BY <2>1, <2>2, <2>3, <2>4, <2>5 DEF TurnTypeOK, fixed
<1>4. ASSUME NEW t \in Tasks, NEW fault \in Faults, EnterBreaks(t, fault)
      PROVE  TurnTypeOK'
  BY <1>4 DEF EnterBreaks, Escapes, TurnTypeOK, fixed, turnVars
<1>5. ASSUME NextBand
      PROVE  TurnTypeOK'
  <2>1. {r \in Ranks : r > band} \in SUBSET Nat /\ {r \in Ranks : r > band} # {}
    BY <1>5, QueueTypes DEF NextBand
  <2>2. band' \in Nat
    BY <1>5, <2>1, LeastElement DEF NextBand
  <2>3. line' \in SUBSET Tasks
    BY <1>5, QueueTypes DEF NextBand, BandOf, fixed
  <2>. QED
    BY <1>5, <2>2, <2>3 DEF NextBand, TurnTypeOK, fixed, turnVars
<1>6. ASSUME Return
      PROVE  TurnTypeOK'
  BY <1>6 DEF Return, TurnTypeOK, fixed, turnVars
<1>7. ASSUME NEW late \in SUBSET inside, Cancel(late)
      PROVE  TurnTypeOK'
  <2>1. turn' \in [Tasks -> Frame]
    BY <1>7, CancelSays DEF Cancel
  <2>. QED
    <3>1. /\ faults' \in Nat /\ phase' = "raised" /\ inside' = {} /\ line' = {}
          /\ UNCHANGED <<state, used, metrics, trace, fixed, band, status, rec, told, tokens>>
      BY <1>7 DEF Cancel, TurnTypeOK
    <3>. QED
      BY <2>1, <3>1 DEF TurnTypeOK, fixed
<1>8. CASE UNCHANGED vars
  BY <1>8 DEF vars, TurnTypeOK, runVars, turnVars
<1>. QED
  BY <1>1, <1>2, <1>3, <1>4, <1>5, <1>6, <1>7, <1>8, ProcessKinds DEF Next

\* The frames are kept.
LEMMA FramesStep ==
  ASSUME TurnTypeOK, FramesKept, Placed, [Next]_vars
  PROVE  FramesKept'
<1>1. ASSUME NEW t \in Tasks, NEW f, NEW c, Moved(t, f, c), FrameOK(t, f), UNCHANGED fixed
      PROVE  FramesKept'
  BY <1>1 DEF Moved, FramesKept, FrameOK, HasTools, fixed
<1>2. ASSUME NEW t \in Tasks, Process(t)
      PROVE  FramesKept'
  <2>1. CASE Entered(t)
    BY <1>1, <2>1, FirstFrames DEF Entered, Changes
  <2>2. ASSUME NEW f \in Frame, NEW c \in Costs \cup {0}, Went(t, f, c)
        PROVE  FramesKept'
    BY <1>1, <2>2 DEF Went
  <2>3. ASSUME NEW f \in Frame, NEW c \in Costs \cup {0}, NEW s \in {"done", "failed"},
               NEW d \in Nat, NEW fault \in Faults, Closed(t, f, c, s, d, fault)
        PROVE  FramesKept'
    BY <1>1, <2>3 DEF Closed, Settles, Changes
  <2>. QED
    BY <1>2, <2>1, <2>2, <2>3, ProcessKinds
<1>3. CASE UNCHANGED <<turn, target>>
  BY <1>3 DEF FramesKept, FrameOK, HasTools
<1>4. ASSUME NEW late \in SUBSET inside, Cancel(late)
      PROVE  FramesKept'
  <2>1. \A t \in Tasks : FrameOK(t, turn'[t]) /\ UNCHANGED target
    BY <1>4, CancelSays DEF Cancel, fixed
  <2>. QED
    BY <2>1 DEF FramesKept, FrameOK, HasTools
<1>. QED
  BY <1>2, <1>3, <1>4
  DEF Next, EnterBreaks, NextBand, Return, vars, turnVars, runVars, fixed

-------------------------------------------------------------------------------
(* Where the tasks are *)

Fresh(t) ==
  /\ turn[t] = NoFrame /\ status[t] = "pending" /\ rec[t] = "pending" /\ told[t] = "nothing"

Ended(t) == told[t] \in {"done", "failed"} /\ rec[t] = told[t] /\ status[t] = told[t]

\* The tasks in line are those of the band, and untouched; a turn is begun for
\* none but the bands up to this one, and a task that has ended has no turn.
LineKept ==
  /\ Placed
  /\ \A t \in line : t \in Queued /\ Fresh(t) /\ (mode = "async" => rank[t] = band)
  /\ \A t \in Tasks : turn[t].at # "out" => t \in Queued /\ (mode = "async" => rank[t] <= band)
  /\ \A t \in Tasks : status[t] \in {"done", "failed"} => turn[t].at = "over"

\* While nothing has broken the run, the tasks up to this band wait, are in
\* _process or have ended, and the others are untouched.
RunKept ==
  /\ phase = "running" =>
       \A t \in Queued :
         IF mode = "async" /\ rank[t] > band THEN Fresh(t)
         ELSE t \in line \/ t \in inside \/ Ended(t)
  /\ mode = "async" => \A t \in Queued : rank[t] < band => status[t] \in {"done", "failed"}
  /\ mode = "sync" /\ line # {} => phase = "running"
  /\ phase = "returned" => line = {} /\ inside = {}

PlacesKept == LineKept /\ RunKept

\* Init puts the tasks of the first band in line.
LEMMA InitPlaces ==
  ASSUME Init
  PROVE  PlacesKept
<1>1. /\ TurnTypeOK /\ \A t \in Tasks : turn[t] = NoFrame
      /\ band \in Ranks /\ \A r \in Ranks : band <= r
  BY InitTypes
<1>2. Queued \in SUBSET Tasks /\ \A t \in Queued : rank[t] \in Nat /\ band <= rank[t]
  BY <1>1, QueueTypes DEF TurnTypeOK, Ranks
<1>3. /\ line = BandOf(mode, band) /\ inside = {} /\ phase = "running" /\ band \in Nat
      /\ \A t \in Queued : Fresh(t)
  BY <1>1, <1>2 DEF Init, Fresh, TurnTypeOK
<1>4. \A t \in Tasks : status[t] = "pending" /\ turn[t].at = "out"
  BY <1>1 DEF Init, NoFrame
<1>5. LineKept
  BY <1>1, <1>2, <1>3, <1>4 DEF LineKept, Placed, Fresh, BandOf, InTurn
<1>6. RunKept
  BY <1>2, <1>3 DEF RunKept, BandOf
<1>. QED
  BY <1>5, <1>6 DEF PlacesKept

\* Every step keeps the tasks in their places.
LEMMA LineStep ==
  ASSUME TurnTypeOK, FramesKept, PlacesKept, [Next]_vars
  PROVE  LineKept'
<1>0. /\ Placed /\ LineKept
      /\ Queued \in SUBSET Tasks
      /\ \A t \in line \cup inside : t \in Tasks
      /\ \A t \in line : t \notin inside
      /\ \A t \in Tasks : turn[t] = NoFrame => turn[t].at = "out"
      /\ \A t \in inside : turn[t].at \in {"think", "tools"}
      /\ band \in Nat /\ \A t \in Tasks : rank[t] \in Nat
  BY QueueTypes DEF PlacesKept, LineKept, Placed, TurnTypeOK, InTurn, NoFrame
<1>1. ASSUME NEW t \in Tasks, Entered(t)
      PROVE  LineKept'
  <2>0. t \in line /\ t \in Queued /\ (mode = "async" => rank[t] = band)
    BY <1>0, <1>1 DEF Entered, Takes, LineKept
  <2>1. /\ \A u \in Tasks : turn'[u] = IF u = t THEN FirstFrame ELSE turn[u]
        /\ \A u \in Tasks : status'[u] = IF u = t THEN "running" ELSE status[u]
        /\ \A u \in Tasks \ {t} : rec'[u] = rec[u] /\ told'[u] = told[u]
        /\ inside' = inside \cup {t} /\ line' = line \ {t}
        /\ UNCHANGED <<mode, rank, queue, band>>
    BY <1>1 DEF Entered, Changes, Moved, fixed
  <2>2. FirstFrame.at = "think"
    BY DEF FirstFrame
  <2>3. Placed'
    BY <1>0, <2>0, <2>1, <2>2 DEF Placed, InTurn
  <2>4. \A u \in Tasks : turn'[u].at # "out" =>
          u \in Queued /\ (mode = "async" => rank[u] <= band)
    BY <1>0, <2>0, <2>1 DEF LineKept
  <2>. QED
    BY <1>0, <2>1, <2>3, <2>4 DEF LineKept, Fresh, Queued
<1>2. ASSUME NEW t \in Tasks, NEW f \in Frame, NEW c \in Costs \cup {0}, Went(t, f, c)
      PROVE  LineKept'
  <2>1. /\ \A u \in Tasks : turn'[u] = IF u = t THEN f ELSE turn[u]
        /\ t \in inside /\ f.at \in {"think", "tools"}
        /\ UNCHANGED <<mode, rank, queue, band, line, inside, status, rec, told>>
    BY <1>2 DEF Went, Moved, fixed
  <2>2. Placed'
    BY <1>0, <2>1 DEF Placed, InTurn
  <2>3. status[t] \notin {"done", "failed"}
    BY <1>0, <2>1 DEF LineKept
  <2>4. t \in Queued /\ (mode = "async" => rank[t] <= band)
    BY <1>0, <2>1 DEF LineKept
  <2>. QED
    BY <1>0, <2>1, <2>2, <2>3, <2>4 DEF LineKept, Fresh, Queued
<1>3. ASSUME NEW t \in Tasks, NEW f \in Frame, NEW c \in Costs \cup {0},
             NEW s \in {"done", "failed"}, NEW d \in Nat, NEW fault \in Faults,
             Closed(t, f, c, s, d, fault)
      PROVE  LineKept'
  <2>1. /\ \A u \in Tasks : turn'[u] = IF u = t THEN f ELSE turn[u]
        /\ f.at = "over"
        /\ \A u \in Tasks \ {t} : status'[u] = status[u] /\ rec'[u] = rec[u] /\ told'[u] = told[u]
        /\ UNCHANGED <<mode, rank, queue, band>>
        /\ inside' = inside \ {t} /\ line' \in SUBSET (line \ {t})
        /\ t \in line \/ t \in inside
    BY <1>3 DEF Closed, Settles, Changes, Moved, fixed, Escapes, Takes
  <2>2. t \in Queued /\ (mode = "async" => rank[t] <= band)
    BY <1>0, <2>1 DEF LineKept
  <2>3. Placed'
    BY <1>0, <2>1 DEF Placed, InTurn
  <2>. QED
    BY <1>0, <2>1, <2>2, <2>3 DEF LineKept, Fresh, Queued
<1>4. ASSUME NEW t \in Tasks, NEW fault \in Faults, EnterBreaks(t, fault)
      PROVE  LineKept'
  <2>1. /\ \A u \in Tasks \ {t} : status'[u] = status[u] /\ rec'[u] = rec[u] /\ told'[u] = told[u]
        /\ status'[t] = "running"
        /\ UNCHANGED <<turn, inside, mode, rank, queue, band>>
        /\ line' \in SUBSET (line \ {t})
    BY <1>4 DEF EnterBreaks, fixed, turnVars, TurnTypeOK, Escapes
  <2>2. Placed'
    BY <1>0, <2>1 DEF Placed, InTurn
  <2>. QED
    BY <1>0, <2>1, <2>2 DEF LineKept, Fresh, Queued
<1>5. ASSUME NextBand
      PROVE  LineKept'
  <2>1. /\ phase = "running" /\ mode = "async" /\ inside = {} /\ line = {}
        /\ UNCHANGED <<turn, inside, mode, rank, queue, status, rec, told>>
        /\ band' = Min({r \in Ranks : r > band})
        /\ line' = BandOf(mode, band')
    BY <1>5 DEF NextBand, turnVars, fixed
  <2>2. /\ {r \in Ranks : r > band} \in SUBSET Nat /\ {r \in Ranks : r > band} # {}
    BY <1>5, QueueTypes DEF NextBand
  <2>3. band' \in Nat /\ band' > band
    BY <2>1, <2>2, LeastElement
  <2>4. \A t \in line' : t \in Queued /\ rank[t] = band' /\ Fresh(t)
    BY <2>1, <2>3 DEF PlacesKept, RunKept, BandOf, Queued, TurnTypeOK
  <2>5. \A t \in line' : turn'[t] = NoFrame
    BY <2>1, <2>4 DEF Fresh
  <2>6. Placed'
    BY <1>0, <2>1, <2>5 DEF Placed, InTurn
  <2>7. \A t \in Tasks : turn[t].at # "out" => t \in Queued /\ rank[t] <= band'
    BY <1>0, <2>1, <2>3 DEF LineKept, TurnTypeOK
  <2>. QED
    BY <1>0, <2>1, <2>4, <2>6, <2>7 DEF LineKept, Fresh, Queued
<1>6. CASE UNCHANGED <<turn, inside, line, mode, rank, queue, band, status, rec, told>>
  BY <1>0, <1>6 DEF LineKept, Placed, Fresh, InTurn, Queued
<1>7. ASSUME NEW late \in SUBSET inside, Cancel(late)
      PROVE  LineKept'
  <2>1. /\ inside' = {} /\ line' = {}
        /\ UNCHANGED <<mode, rank, queue, band, status, rec, told>>
    BY <1>7 DEF Cancel, fixed
  <2>2. \A t \in Tasks : IF t \in inside THEN turn'[t].at = "cut" ELSE turn'[t] = turn[t]
    BY <1>7, CancelSays
  <2>3. Placed'
    BY <1>0, <2>1, <2>2 DEF Placed, InTurn
  <2>4. \A t \in Tasks : status[t] \in {"done", "failed"} => t \notin inside
    BY <1>0 DEF LineKept
  <2>. QED
    BY <1>0, <2>1, <2>2, <2>3, <2>4 DEF LineKept, Queued
<1>. QED
  BY <1>0, <1>1, <1>2, <1>3, <1>4, <1>5, <1>6, <1>7, ProcessKinds
  DEF Next, Return, vars, runVars, turnVars, fixed

\* A step leaves a task alone that is neither in line nor in _process.
LEMMA Untouched ==
  ASSUME TurnTypeOK, FramesKept, PlacesKept, [Next]_vars,
         NEW u \in Tasks, u \notin line, u \notin inside
  PROVE  /\ turn'[u] = turn[u] /\ status'[u] = status[u] /\ rec'[u] = rec[u]
         /\ told'[u] = told[u]
<1>0. Placed
  BY DEF PlacesKept, LineKept
<1>1. ASSUME NEW t \in Tasks, Process(t)
      PROVE  /\ turn'[u] = turn[u] /\ status'[u] = status[u] /\ rec'[u] = rec[u]
             /\ told'[u] = told[u]
  <2>1. CASE Entered(t)
    BY <2>1 DEF Entered, Takes, Changes, Moved
  <2>2. ASSUME NEW f \in Frame, NEW c \in Costs \cup {0}, Went(t, f, c)
        PROVE  /\ turn'[u] = turn[u] /\ status'[u] = status[u] /\ rec'[u] = rec[u]
               /\ told'[u] = told[u]
    BY <2>2 DEF Went, Moved
  <2>3. ASSUME NEW f \in Frame, NEW c \in Costs \cup {0}, NEW s \in {"done", "failed"},
               NEW d \in Nat, NEW fault \in Faults, Closed(t, f, c, s, d, fault)
        PROVE  /\ turn'[u] = turn[u] /\ status'[u] = status[u] /\ rec'[u] = rec[u]
               /\ told'[u] = told[u]
    BY <2>3 DEF Closed, Takes, Settles, Changes, Moved
  <2>. QED
    BY <1>0, <1>1, <2>1, <2>2, <2>3, ProcessKinds
<1>2. ASSUME NEW t \in Tasks, NEW fault \in Faults, EnterBreaks(t, fault)
      PROVE  /\ turn'[u] = turn[u] /\ status'[u] = status[u] /\ rec'[u] = rec[u]
             /\ told'[u] = told[u]
  BY <1>2 DEF EnterBreaks, Takes, turnVars, TurnTypeOK
<1>3. ASSUME NEW late \in SUBSET inside, Cancel(late)
      PROVE  /\ turn'[u] = turn[u] /\ status'[u] = status[u] /\ rec'[u] = rec[u]
             /\ told'[u] = told[u]
  BY <1>3, CancelSays DEF Cancel
<1>. QED
  BY <1>1, <1>2, <1>3 DEF Next, NextBand, Return, vars, turnVars, runVars

\* What has ended stays as it is.
LEMMA EndStays ==
  ASSUME TurnTypeOK, FramesKept, PlacesKept, [Next]_vars,
         NEW u \in Tasks, status[u] \in {"done", "failed"}
  PROVE  /\ u \notin line /\ u \notin inside
         /\ turn'[u] = turn[u] /\ status'[u] = status[u] /\ rec'[u] = rec[u]
         /\ told'[u] = told[u]
<1>1. turn[u].at = "over"
  BY DEF PlacesKept, LineKept
<1>2. u \notin line /\ u \notin inside
  BY <1>1 DEF PlacesKept, LineKept, Placed, NoFrame, InTurn
<1>. QED
  BY <1>2, Untouched

\* Every step keeps what is known of the run.
LEMMA RunStep ==
  ASSUME TurnTypeOK, FramesKept, PlacesKept, [Next]_vars
  PROVE  RunKept'
<1>0. /\ Placed /\ LineKept /\ RunKept
      /\ Queued \in SUBSET Tasks
      /\ \A t \in inside : turn[t].at \in {"think", "tools"}
      /\ band \in Nat /\ \A t \in Tasks : rank[t] \in Nat
  BY QueueTypes DEF PlacesKept, LineKept, Placed, TurnTypeOK, InTurn, NoFrame
<1>1. \A u \in Queued : Ended(u) =>
        /\ u \notin line /\ u \notin inside
        /\ turn'[u] = turn[u] /\ status'[u] = status[u] /\ rec'[u] = rec[u] /\ told'[u] = told[u]
  BY <1>0, EndStays DEF Ended
<1>2. \A u \in Queued : mode = "async" /\ rank[u] > band /\ Fresh(u) =>
        turn'[u] = turn[u] /\ status'[u] = status[u] /\ rec'[u] = rec[u] /\ told'[u] = told[u]
  <2>1. \A u \in Queued : mode = "async" /\ rank[u] > band /\ Fresh(u) =>
          u \notin line /\ u \notin inside
    BY <1>0 DEF Fresh, LineKept, Placed, InTurn, NoFrame
  <2>. QED
    BY <1>0, <2>1, Untouched
<1>3. \A u \in Queued : status[u] \in {"done", "failed"} => status'[u] = status[u]
  BY <1>0, EndStays
<1>4. ASSUME NEW t \in Tasks, t \in line \/ t \in inside, UNCHANGED <<fixed, band>>,
             line' = line \ {t} \/ (t \in inside /\ line' = line),
             \/ inside' = inside \cup {t}
             \/ inside' = inside \ {t} /\ (phase' = "running" => Ended(t)'),
             phase' = phase \/ phase' = "raised",
             phase' = "raised" /\ mode = "sync" => line' = {} \/ phase = "raised"
      PROVE  RunKept'
  <2>1. UNCHANGED <<mode, rank, Queued>>
    BY <1>4 DEF fixed, Queued
  <2>2. phase # "returned" /\ phase' # "returned"
    BY <1>0, <1>4 DEF RunKept
  <2>3. ASSUME phase' = "running", NEW u \in Queued
        PROVE  IF mode = "async" /\ rank[u] > band THEN Fresh(u)'
               ELSE u \in line' \/ u \in inside' \/ Ended(u)'
    <3>1. phase = "running"
      BY <1>4, <2>3
    <3>2. CASE mode = "async" /\ rank[u] > band
      BY <1>0, <1>2, <2>3, <3>1, <3>2 DEF RunKept, Fresh
    <3>3. CASE ~(mode = "async" /\ rank[u] > band)
      <4>1. u \in line \/ u \in inside \/ Ended(u)
        BY <1>0, <2>3, <3>1, <3>3 DEF RunKept
      <4>2. CASE Ended(u)
        BY <1>1, <2>3, <3>3, <4>2 DEF Ended
      <4>3. CASE u = t
        BY <1>4, <2>3, <3>3, <4>3
      <4>4. CASE u # t /\ (u \in line \/ u \in inside)
        BY <1>4, <3>3, <4>4
      <4>. QED
        BY <4>1, <4>2, <4>3, <4>4
    <3>. QED
      BY <3>2, <3>3
  <2>4. mode = "async" => \A u \in Queued : rank[u] < band => status'[u] \in {"done", "failed"}
    BY <1>0, <1>3 DEF RunKept
  <2>5. mode = "sync" /\ line' # {} => phase' = "running"
    BY <1>0, <1>4 DEF RunKept
  <2>. QED
    BY <1>4, <2>1, <2>2, <2>3, <2>4, <2>5 DEF RunKept, Fresh, Ended
<1>5. ASSUME NEW t \in Tasks, Process(t)
      PROVE  RunKept'
  <2>1. CASE Entered(t)
    BY <1>4, <2>1 DEF Entered, Takes, Changes
  <2>2. ASSUME NEW f \in Frame, NEW c \in Costs \cup {0}, Went(t, f, c)
        PROVE  RunKept'
    <3>1. /\ UNCHANGED <<fixed, band, phase, line, inside>>
          /\ t \in inside /\ inside' = inside \cup {t}
      BY <2>2 DEF Went
    <3>. QED
      BY <1>4, <3>1
  <2>3. ASSUME NEW f \in Frame, NEW c \in Costs \cup {0}, NEW s \in {"done", "failed"},
               NEW d \in Nat, NEW fault \in Faults, Closed(t, f, c, s, d, fault)
        PROVE  RunKept'
    <3>1. /\ t \in line \/ t \in inside
          /\ UNCHANGED <<fixed, band>>
          /\ inside' = inside \ {t}
          /\ Escapes(fault, line \ {t})
      BY <2>3 DEF Closed, Takes, Settles, Changes
    <3>2. CASE fault = "none"
      <4>1. Ended(t)'
        BY <2>3, <3>2 DEF Closed, Settles, Changes, Ended
      <4>. QED
        BY <1>4, <3>1, <3>2, <4>1 DEF Escapes
    <3>3. CASE fault # "none" /\ mode = "sync"
      <4>1. phase' = "raised" /\ line' = {} /\ UNCHANGED <<mode, rank, band, Queued>>
        BY <3>1, <3>3 DEF Escapes, fixed, Queued
      <4>. QED
        BY <3>3, <4>1 DEF RunKept
    <3>4. CASE fault # "none" /\ mode # "sync"
      <4>1. phase' = "raised" /\ line' = line \ {t}
        BY <3>1, <3>4 DEF Escapes
      <4>. QED
        BY <1>4, <3>1, <3>4, <4>1
    <3>. QED
      BY <3>2, <3>3, <3>4
  <2>. QED
    BY <1>0, <1>5, <2>1, <2>2, <2>3, ProcessKinds
<1>6. ASSUME NEW t \in Tasks, NEW fault \in Faults, EnterBreaks(t, fault)
      PROVE  RunKept'
  <2>1. /\ phase' = "raised" /\ (mode = "sync" => line' = {})
        /\ UNCHANGED <<mode, rank, band, Queued>>
    BY <1>6 DEF EnterBreaks, Escapes, fixed, Queued
  <2>. QED
    BY <1>0, <1>3, <2>1 DEF RunKept
<1>7. ASSUME NextBand
      PROVE  RunKept'
  <2>1. /\ phase = "running" /\ mode = "async" /\ inside = {} /\ line = {}
        /\ UNCHANGED <<turn, phase, inside, mode, rank, queue, status, rec, told, Queued>>
        /\ band' = Min({r \in Ranks : r > band})
        /\ line' = BandOf(mode, band')
    BY <1>7 DEF NextBand, turnVars, fixed, Queued
  <2>2. /\ {r \in Ranks : r > band} \in SUBSET Nat /\ {r \in Ranks : r > band} # {}
    BY <1>7, QueueTypes DEF NextBand
  <2>3. /\ band' \in Nat /\ band' > band
        /\ \A r \in Ranks : r > band => band' <= r
    BY <2>1, <2>2, LeastElement
  <2>4. ASSUME NEW u \in Queued
        PROVE  /\ rank[u] > band => Fresh(u) /\ band' <= rank[u]
               /\ ~(rank[u] > band) => Ended(u)
    BY <1>0, <2>1, <2>3 DEF RunKept, Ranks
  <2>5. ASSUME NEW u \in Queued
        PROVE  IF rank[u] > band' THEN Fresh(u) ELSE u \in line' \/ Ended(u)
    <3>1. CASE rank[u] > band'
      BY <1>0, <2>3, <2>4, <3>1
    <3>2. CASE rank[u] = band'
      BY <2>1, <2>3, <3>2 DEF BandOf
    <3>3. CASE rank[u] < band'
      BY <1>0, <2>3, <2>4, <3>3
    <3>. QED
      BY <1>0, <2>3, <3>1, <3>2, <3>3
  <2>6. \A u \in Queued : rank[u] < band' => status[u] \in {"done", "failed"}
    BY <1>0, <2>3, <2>4 DEF Ended
  <2>. QED
    BY <2>1, <2>5, <2>6 DEF RunKept, Fresh, Ended
<1>8. ASSUME Return
      PROVE  RunKept'
  <2>1. /\ phase' = "returned" /\ line' = {} /\ inside' = {}
        /\ UNCHANGED <<mode, rank, band, status, Queued>>
    BY <1>8 DEF Return, fixed, Queued
  <2>. QED
    BY <1>0, <2>1 DEF RunKept
<1>9. ASSUME NEW late \in SUBSET inside, Cancel(late)
      PROVE  RunKept'
  <2>1. /\ phase' = "raised" /\ line' = {}
        /\ UNCHANGED <<mode, rank, band, status, Queued>>
    BY <1>9 DEF Cancel, fixed, Queued
  <2>. QED
    BY <1>0, <2>1 DEF RunKept
<1>10. CASE UNCHANGED vars
  BY <1>0, <1>10 DEF vars, turnVars, runVars, RunKept, Fresh, Ended, Queued
<1>. QED
  BY <1>5, <1>6, <1>7, <1>8, <1>9, <1>10 DEF Next

-------------------------------------------------------------------------------
(* The order of the bands, and what the run tells *)

\* A turn begins only when every task before its band has ended.
LEMMA BandsStep ==
  ASSUME TurnTypeOK, FramesKept, PlacesKept, BandsInOrder, [Next]_vars
  PROVE  BandsInOrder'
<1>0. /\ Placed /\ LineKept /\ RunKept
      /\ Queued \in SUBSET Tasks /\ IsFiniteSet(Tasks) /\ inside \in SUBSET Tasks
      /\ \A t \in Tasks : rank[t] \in Nat
      /\ \A t \in inside : turn[t].at # "out"
  BY QueueTypes, CallAssumption DEF PlacesKept, LineKept, Placed, TurnTypeOK, InTurn
<1>1. UNCHANGED <<rank, Queued>>
  BY DEF Next, Process, Enter, Advance, EnterBreaks, NextBand, Return, Cancel, fixed, Queued,
         vars, runVars
<1>2. \A u \in Queued : status[u] \in {"done", "failed"} => status'[u] = status[u]
  BY <1>0, EndStays
<1>3. ASSUME NEW t \in Queued, Takes(t), NEW u \in Queued, rank[u] < rank[t]
      PROVE  status[u] \in {"done", "failed"}
  <2>1. t \in line
    BY <1>3 DEF Takes
  <2>2. CASE mode = "async"
    BY <1>0, <1>3, <2>1, <2>2 DEF RunKept, LineKept
  <2>3. CASE mode = "sync"
    <3>1. phase = "running"
      BY <1>0, <2>1, <2>3 DEF RunKept
    <3>2. inside = {}
      <4>1. Cardinality(inside) < 1
        BY <1>3, <2>3 DEF Takes, Slots
      <4>2. IsFiniteSet(inside) /\ Cardinality(inside) \in Nat
        BY <1>0, FS_Subset, FS_CardinalityType
      <4>. QED
        BY <4>1, <4>2, FS_EmptySet
    <3>3. u \notin line
      BY <1>0, <1>3 DEF Takes, Before
    <3>. QED
      BY <1>0, <2>3, <3>1, <3>2, <3>3 DEF RunKept, Ended
  <2>. QED
    BY <2>2, <2>3 DEF TurnTypeOK
<1>4. \A t \in Queued : t \in line => turn[t].at = "out"
  BY <1>0 DEF Placed, NoFrame
<1>5. ASSUME NEW t \in Tasks, turn'[t].at # "out", turn[t].at = "out"
      PROVE  Takes(t)
  <2>1. CASE t \notin line
    BY <1>0, <1>5, <2>1, Untouched
  <2>2. CASE t \in line
    <3>0. t \notin inside
      BY <1>0, <1>5
    <3>1. ASSUME NEW v \in Tasks, Process(v)
          PROVE  Takes(t)
      <4>1. CASE Entered(v)
        BY <1>5, <4>1 DEF Entered, Changes, Moved
      <4>2. ASSUME NEW f \in Frame, NEW c \in Costs \cup {0}, Went(v, f, c)
            PROVE  Takes(t)
        BY <1>5, <3>0, <4>2 DEF Went, Moved
      <4>3. ASSUME NEW f \in Frame, NEW c \in Costs \cup {0}, NEW s \in {"done", "failed"},
                   NEW d \in Nat, NEW fault \in Faults, Closed(v, f, c, s, d, fault)
            PROVE  Takes(t)
        BY <1>5, <3>0, <4>3 DEF Closed, Settles, Changes, Moved
      <4>. QED
        BY <1>0, <3>1, <4>1, <4>2, <4>3, ProcessKinds
    <3>2. ASSUME NEW late \in SUBSET inside, Cancel(late)
          PROVE  Takes(t)
      BY <1>5, <3>0, <3>2, CancelSays
    <3>. QED
      BY <1>5, <3>1, <3>2
      DEF Next, EnterBreaks, NextBand, Return, vars, turnVars, runVars
  <2>. QED
    BY <2>1, <2>2
<1>6. ASSUME NEW t \in Queued, NEW u \in Queued, turn'[t].at # "out", rank[u] < rank[t]
      PROVE  status'[u] \in {"done", "failed"}
  <2>1. CASE turn[t].at = "out"
    BY <1>0, <1>2, <1>3, <1>5, <1>6, <2>1
  <2>2. CASE turn[t].at # "out"
    BY <1>2, <1>6, <2>2 DEF BandsInOrder
  <2>. QED
    BY <2>1, <2>2
<1>. QED
  BY <1>1, <1>6 DEF BandsInOrder

\* A set in two parts has as many elements as they have.
LEMMA TwoParts ==
  ASSUME NEW S, IsFiniteSet(S), NEW A, NEW B, A \cup B = S, A \cap B = {}
  PROVE  Cardinality(A) + Cardinality(B) = Cardinality(S)
<1>1. A \in SUBSET S /\ B \in SUBSET S
  OBVIOUS
<1>2. IsFiniteSet(A) /\ IsFiniteSet(B)
  BY <1>1, FS_Subset
<1>3. Cardinality(A) \in Nat /\ Cardinality(B) \in Nat
  BY <1>2, FS_CardinalityType
<1>4. Cardinality(A \cup B) = Cardinality(A) + Cardinality(B) - Cardinality(A \cap B)
  BY <1>2, FS_Union
<1>5. Cardinality(A \cap B) = 0
  BY FS_EmptySet
<1>. QED
  BY <1>3, <1>4, <1>5

\* What is said of one task.
SaysSo(t) ==
  /\ told[t] \in {"done", "failed"} => rec[t] = told[t]
  /\ rec[t] \in {"done", "failed"} => status[t] = rec[t]

\* The event follows the record and the record the status, whichever of them
\* fails; and a run that returns counts every task once.
LEMMA OutcomesStep ==
  ASSUME TurnTypeOK, FramesKept, PlacesKept, OutcomesAgree, [Next]_vars
  PROVE  OutcomesAgree'
<1>0. /\ Placed /\ LineKept /\ RunKept
      /\ Queued \in SUBSET Tasks /\ IsFiniteSet(Queued)
      /\ \A t \in Tasks : SaysSo(t)
  BY QueueTypes DEF PlacesKept, LineKept, OutcomesAgree, SaysSo
<1>1. ASSUME NEW t \in Tasks, Process(t)
      PROVE  /\ \A u \in Tasks : SaysSo(u)'
             /\ phase # "returned" /\ phase' # "returned"
  <2>1. CASE Entered(t)
    BY <1>0, <2>1 DEF Entered, Takes, Changes, SaysSo, RunKept
  <2>2. ASSUME NEW f \in Frame, NEW c \in Costs \cup {0}, Went(t, f, c)
        PROVE  /\ \A u \in Tasks : SaysSo(u)'
               /\ phase # "returned" /\ phase' # "returned"
    BY <1>0, <2>2 DEF Went, SaysSo, RunKept
  <2>3. ASSUME NEW f \in Frame, NEW c \in Costs \cup {0}, NEW s \in {"done", "failed"},
               NEW d \in Nat, NEW fault \in Faults, Closed(t, f, c, s, d, fault)
        PROVE  /\ \A u \in Tasks : SaysSo(u)'
               /\ phase # "returned" /\ phase' # "returned"
    <3>1. phase # "returned" /\ phase' # "returned"
      BY <1>0, <2>3 DEF Closed, Takes, Escapes, RunKept
    <3>2. \A u \in Tasks : SaysSo(u)'
      BY <1>0, <2>3 DEF Closed, Settles, Changes, SaysSo
    <3>. QED
      BY <3>1, <3>2
  <2>. QED
    BY <1>0, <1>1, <2>1, <2>2, <2>3, ProcessKinds
<1>2. ASSUME NEW t \in Tasks, NEW fault \in Faults, EnterBreaks(t, fault)
      PROVE  /\ \A u \in Tasks : SaysSo(u)'
             /\ phase # "returned" /\ phase' # "returned"
  <2>1. Fresh(t) /\ phase # "returned" /\ phase' = "raised"
    BY <1>0, <1>2 DEF EnterBreaks, Takes, Escapes, LineKept, RunKept
  <2>2. /\ \A u \in Tasks \ {t} : rec'[u] = rec[u] /\ told'[u] = told[u] /\ status'[u] = status[u]
        /\ rec'[t] \in {"pending", "running"} /\ told'[t] \in {"nothing", "started"}
    BY <1>2, <2>1 DEF EnterBreaks, TurnTypeOK, Fresh
  <2>. QED
    BY <1>0, <2>1, <2>2 DEF SaysSo
<1>3. ASSUME Return
      PROVE  OutcomesAgree'
  <2>1. /\ phase = "running" /\ line = {} /\ inside = {}
        /\ mode = "async" => \A r \in Ranks : r <= band
        /\ result' = Tally
        /\ UNCHANGED <<status, rec, told, queue>>
    BY <1>3 DEF Return, fixed
  <2>2. \A t \in Queued : ~(mode = "async" /\ rank[t] > band)
    <3>1. band \in Nat /\ \A t \in Queued : rank[t] \in Nat
      BY <1>0 DEF TurnTypeOK
    <3>. QED
      BY <2>1, <3>1 DEF Ranks
  <2>3. \A t \in Queued : Ended(t)
    BY <1>0, <2>1, <2>2 DEF RunKept
  <2>. DEFINE D == {t \in Queued : status[t] = "done"}
              F == {t \in Queued : status[t] = "failed"}
  <2>4. D \cup F = Queued /\ D \cap F = {}
    BY <2>3 DEF Ended
  <2>7. Cardinality(D) + Cardinality(F) = Cardinality(Queued)
    BY <1>0, <2>4, TwoParts
  <2>8. result'.succeeded + result'.failed = result'.processed
    BY <2>1, <2>7 DEF Tally
  <2>9. \A t \in Tasks : SaysSo(t)'
    BY <1>0, <2>1 DEF SaysSo
  <2>10. \A t \in Queued' : told'[t] \in {"done", "failed"}
    BY <2>1, <2>3 DEF Ended, Queued
  <2>. QED
    BY <2>8, <2>9, <2>10 DEF OutcomesAgree, SaysSo
<1>4. CASE UNCHANGED <<status, rec, told>> /\ phase' # "returned"
  BY <1>4 DEF OutcomesAgree
<1>5. CASE UNCHANGED vars
  BY <1>5 DEF vars, turnVars, runVars, OutcomesAgree, Queued
<1>6. NextBand \/ (\E late \in SUBSET inside : Cancel(late)) =>
        UNCHANGED <<status, rec, told>> /\ phase' # "returned"
  BY DEF NextBand, Cancel
<1>. QED
  BY <1>1, <1>2, <1>3, <1>4, <1>5, <1>6 DEF Next, OutcomesAgree, SaysSo

\* The verdict that ends a task as done is a pass.
Passed(t) == status[t] = "done" /\ HasVerify(t) => turn[t].verdict = "passed"

\* A task that is done has been verified, and its turn has kept to its limits.
LEMMA VerifiedStep ==
  ASSUME TurnTypeOK, FramesKept, PlacesKept, DoneIsVerified, [Next]_vars
  PROVE  \A t \in Tasks : Passed(t)'
<1>0. Placed /\ \A t \in Tasks : Passed(t)
  BY DEF PlacesKept, LineKept, DoneIsVerified, Passed
<1>1. UNCHANGED target
  BY DEF Next, Process, Enter, Advance, EnterBreaks, NextBand, Return, Cancel, fixed, vars
<1>2. ASSUME NEW u \in Tasks, u \notin line, u \notin inside
      PROVE  Passed(u)'
  BY <1>0, <1>1, <1>2, Untouched DEF Passed, HasVerify
<1>3. ASSUME NEW u \in Tasks, u \in line \/ u \in inside
      PROVE  Passed(u)'
  <2>0. status[u] \notin {"done", "failed"}
    BY <1>3, EndStays
  <2>1. ASSUME NEW t \in Tasks, Process(t)
        PROVE  Passed(u)'
    <3>1. CASE Entered(t)
      BY <2>0, <3>1 DEF Entered, Changes, Passed
    <3>2. ASSUME NEW f \in Frame, NEW c \in Costs \cup {0}, Went(t, f, c)
          PROVE  Passed(u)'
      BY <2>0, <3>2 DEF Went, Passed
    <3>3. ASSUME NEW f \in Frame, NEW c \in Costs \cup {0}, NEW s \in {"done", "failed"},
                 NEW d \in Nat, NEW fault \in Faults, Closed(t, f, c, s, d, fault)
          PROVE  Passed(u)'
      BY <1>1, <2>0, <3>3 DEF Closed, Settles, Changes, Moved, Passed, HasVerify
    <3>. QED
      BY <1>0, <2>1, <3>1, <3>2, <3>3, ProcessKinds
  <2>2. CASE UNCHANGED status
    BY <2>0, <2>2 DEF Passed
  <2>3. ASSUME NEW t \in Tasks, NEW fault \in Faults, EnterBreaks(t, fault)
        PROVE  Passed(u)'
    BY <2>0, <2>3 DEF EnterBreaks, Passed, TurnTypeOK
  <2>. QED
    BY <2>1, <2>2, <2>3 DEF Next, NextBand, Return, Cancel, vars, turnVars, runVars
<1>. QED
  BY <1>2, <1>3

\* The frames keep to the limits that the configuration sets.
LEMMA LimitsKept ==
  ASSUME TurnTypeOK, FramesKept
  PROVE  /\ SignalsRationed
         /\ \A t \in Tasks : /\ turn[t].attempt <= MaxVerify
                             /\ turn[t].thinks <= Max({MaxVerify, MaxIterations})
<1>1. /\ Max({MaxVerify, MaxIterations}) \in {MaxVerify, MaxIterations}
      /\ Max({MaxVerify, MaxIterations}) >= MaxVerify
      /\ Max({MaxVerify, MaxIterations}) >= MaxIterations
  BY TurnAssumption, LargerOfTwo, MaxVerify \in Int, MaxIterations \in Int
<1>2. ASSUME NEW t \in Tasks
      PROVE  /\ turn[t].laid <= MaxPerTurn /\ turn[t].attempt <= MaxVerify
             /\ turn[t].thinks <= Max({MaxVerify, MaxIterations})
  <2>1. turn[t] \in Frame /\ FrameOK(t, turn[t])
    BY DEF TurnTypeOK, FramesKept
  <2>. QED
    BY <1>1, <2>1, TurnAssumption DEF FrameOK, Frame
<1>. QED
  BY <1>2 DEF SignalsRationed

-------------------------------------------------------------------------------
(* What the nodes say *)

\* A turn out on t, or cut off.
Holds(t) == InTurn(t) \/ turn[t].at = "cut"

\* A node says "working" for a turn that is out or was cut off, and otherwise
\* only after another turn on it has ended.
LEMMA NodesStep ==
  ASSUME TurnTypeOK, FramesKept, PlacesKept, NodeTells, [Next]_vars
  PROVE  NodeTells'
<1>0. /\ Placed /\ target \in [Tasks -> Nodes]
      /\ \A t \in inside : t \in Tasks /\ InTurn(t)
      /\ \A t \in line : turn[t].at = "out"
  BY DEF PlacesKept, LineKept, Placed, TurnTypeOK, NoFrame
<1>1. ASSUME NEW t \in Tasks, NEW f, UNCHANGED target,
             turn' = [u \in Tasks |-> IF u = t THEN f ELSE turn[u]],
             f.at \in {"think", "tools"},
             \/ t \in line /\ NodeSays(t, "working")
             \/ t \in inside /\ state' = state
      PROVE  NodeTells'
  <2>0. /\ \A u \in Tasks : turn'[u] = IF u = t THEN f ELSE turn[u]
        /\ turn[t].at # "over" /\ turn[t].at # "cut"
    BY <1>0, <1>1 DEF InTurn
  <2>1. ASSUME NEW n \in Nodes, state'[n] = "working"
        PROVE  \E u \in Tasks : target[u] = n /\ (InTurn(u)' \/ turn'[u].at = "cut")
    <3>1. CASE n = target[t]
      BY <1>1, <2>0, <3>1 DEF InTurn
    <3>2. CASE n # target[t]
      <4>1. state[n] = "working"
        BY <1>1, <2>1, <3>2 DEF NodeSays
      <4>2. PICK u \in Tasks : target[u] = n /\ (InTurn(u) \/ turn[u].at = "cut")
        BY <4>1 DEF NodeTells
      <4>. QED
        BY <2>0, <3>2, <4>2 DEF InTurn
    <3>. QED
      BY <3>1, <3>2
  <2>2. ASSUME NEW w \in Tasks, InTurn(w)', state'[target[w]] # "working"
        PROVE  \E u \in Tasks \ {w} : target[u] = target[w] /\ turn'[u].at = "over"
    <3>1. InTurn(w) /\ state[target[w]] # "working"
      <4>1. CASE t \in line /\ NodeSays(t, "working")
        BY <1>0, <2>0, <2>2, <4>1 DEF NodeSays, InTurn
      <4>2. CASE t \in inside /\ state' = state
        BY <1>0, <2>0, <2>2, <4>2 DEF InTurn
      <4>. QED
        BY <1>1, <4>1, <4>2
    <3>2. PICK u \in Tasks \ {w} : target[u] = target[w] /\ turn[u].at = "over"
      BY <3>1 DEF NodeTells
    <3>. QED
      BY <2>0, <3>2
  <2>. QED
    BY <1>1, <2>1, <2>2 DEF NodeTells, InTurn
<1>2. ASSUME NEW t \in Tasks, NEW f, UNCHANGED target,
             turn' = [u \in Tasks |-> IF u = t THEN f ELSE turn[u]],
             f.at = "over",
             \/ t \in line /\ (state' = state \/ NodeSays(t, "failed"))
             \/ t \in inside /\ (NodeSays(t, "done") \/ NodeSays(t, "failed"))
      PROVE  NodeTells'
  <2>0. /\ \A u \in Tasks : turn'[u] = IF u = t THEN f ELSE turn[u]
        /\ turn[t].at # "over"
        /\ \A n \in Nodes \ {target[t]} : state'[n] = state[n]
        /\ state' = state \/ state'[target[t]] # "working"
        /\ t \in line => ~Holds(t)
        /\ t \in inside => state'[target[t]] # "working"
    BY <1>0, <1>2 DEF InTurn, Holds, NodeSays
  <2>1. ASSUME NEW n \in Nodes, state'[n] = "working"
        PROVE  \E u \in Tasks : target[u] = n /\ (InTurn(u)' \/ turn'[u].at = "cut")
    <3>1. state[n] = "working"
      BY <2>0, <2>1
    <3>2. PICK u \in Tasks : target[u] = n /\ Holds(u)
      BY <3>1 DEF NodeTells, Holds
    <3>3. u # t
      BY <1>2, <2>0, <2>1, <3>2
    <3>. QED
      BY <2>0, <3>2, <3>3 DEF Holds, InTurn
  <2>2. ASSUME NEW w \in Tasks, InTurn(w)', state'[target[w]] # "working"
        PROVE  \E u \in Tasks \ {w} : target[u] = target[w] /\ turn'[u].at = "over"
    <3>1. w # t /\ InTurn(w)
      BY <1>2, <2>0, <2>2 DEF InTurn
    <3>2. CASE target[w] = target[t]
      BY <1>2, <2>0, <3>1, <3>2
    <3>3. CASE target[w] # target[t]
      <4>1. state[target[w]] # "working"
        BY <1>0, <2>0, <2>2, <3>3
      <4>2. PICK u \in Tasks \ {w} : target[u] = target[w] /\ turn[u].at = "over"
        BY <3>1, <4>1 DEF NodeTells
      <4>. QED
        BY <2>0, <4>2
    <3>. QED
      BY <3>2, <3>3
  <2>. QED
    BY <1>2, <2>1, <2>2 DEF NodeTells, InTurn
<1>3. ASSUME NEW t \in Tasks, Process(t)
      PROVE  NodeTells'
  <2>1. CASE Entered(t)
    BY <1>1, <2>1 DEF Entered, Takes, Changes, Moved, FirstFrame, fixed
  <2>2. ASSUME NEW f \in Frame, NEW c \in Costs \cup {0}, Went(t, f, c)
        PROVE  NodeTells'
    BY <1>1, <2>2 DEF Went, Moved, fixed
  <2>3. ASSUME NEW f \in Frame, NEW c \in Costs \cup {0}, NEW s \in {"done", "failed"},
               NEW d \in Nat, NEW fault \in Faults, Closed(t, f, c, s, d, fault)
        PROVE  NodeTells'
    BY <1>2, <2>3 DEF Closed, Takes, Settles, Changes, Moved, fixed
  <2>. QED
    BY <1>0, <1>3, <2>1, <2>2, <2>3, ProcessKinds
<1>4. CASE UNCHANGED <<turn, state, target>>
  BY <1>4 DEF NodeTells, InTurn
<1>5. ASSUME NEW late \in SUBSET inside, Cancel(late)
      PROVE  NodeTells'
  <2>1. /\ \A t \in Tasks : IF t \in inside THEN turn'[t].at = "cut" ELSE turn'[t] = turn[t]
        /\ UNCHANGED <<state, target>>
    BY <1>5, CancelSays DEF Cancel, fixed
  <2>2. \A t \in Tasks : ~InTurn(t)'
    BY <1>0, <2>1 DEF Placed, InTurn
  <2>3. \A t \in Tasks : Holds(t) => turn'[t].at = "cut"
    BY <1>0, <2>1 DEF Placed, Holds
  <2>. QED
    BY <2>1, <2>2, <2>3 DEF NodeTells, Holds
<1>. QED
  BY <1>3, <1>4, <1>5
  DEF Next, EnterBreaks, NextBand, Return, vars, turnVars, runVars, fixed

-------------------------------------------------------------------------------
(* The theorems *)

\* The inductive invariant: frames, places, order, outcomes, verdicts and nodes.
BandInv ==
  /\ TurnTypeOK /\ FramesKept /\ PlacesKept
  /\ BandsInOrder /\ OutcomesAgree /\ (\A t \in Tasks : Passed(t)) /\ NodeTells

\* It holds when the first band is in line.
LEMMA BandInit ==
  ASSUME Init PROVE BandInv
<1>1. /\ TurnTypeOK /\ FramesKept /\ PlacesKept /\ \A t \in Tasks : turn[t] = NoFrame
  BY InitTypes, InitPlaces
<1>2. \A t \in Tasks : turn[t].at = "out"
  BY <1>1 DEF NoFrame
<1>3. Queued \in SUBSET Tasks
  BY <1>1, QueueTypes
<1>4. BandsInOrder
  BY <1>2, <1>3 DEF BandsInOrder
<1>5. /\ status = [t \in Tasks |-> "pending"] /\ told = [t \in Tasks |-> "nothing"]
      /\ rec = [t \in Tasks |-> IF t \in Queued THEN "pending" ELSE "absent"]
      /\ phase = "running" /\ state = [n \in Nodes |-> "idle"]
  BY DEF Init, TurnInit
<1>6. OutcomesAgree /\ \A t \in Tasks : Passed(t)
  BY <1>5 DEF OutcomesAgree, Passed
<1>7. NodeTells
  BY <1>2, <1>5 DEF NodeTells, InTurn
<1>. QED
  BY <1>1, <1>4, <1>6, <1>7 DEF BandInv

\* Every step keeps it.
LEMMA BandStep ==
  ASSUME BandInv, [Next]_vars PROVE BandInv'
<1>1. /\ TurnTypeOK /\ FramesKept /\ PlacesKept /\ Placed
      /\ BandsInOrder /\ OutcomesAgree /\ NodeTells
  BY DEF BandInv, PlacesKept, LineKept
<1>2. DoneIsVerified
  BY <1>1, LimitsKept DEF BandInv, Passed, DoneIsVerified
<1>3. TurnTypeOK' /\ FramesKept'
  BY <1>1, TypesStep, FramesStep
<1>4. PlacesKept'
  BY <1>1, LineStep, RunStep DEF PlacesKept
<1>5. BandsInOrder' /\ OutcomesAgree' /\ NodeTells'
  BY <1>1, BandsStep, OutcomesStep, NodesStep
<1>6. \A t \in Tasks : Passed(t)'
  BY <1>1, <1>2, VerifiedStep
<1>. QED
  BY <1>3, <1>4, <1>5, <1>6 DEF BandInv

\* So it always holds.
LEMMA BandInvHolds == Spec => []BandInv
  BY BandInit, BandStep, PTL DEF Spec

\* A call of run is well-formed, begins no turn of a lower priority before
\* every task of a higher one has ended, and tells nothing but what happened:
\* whatever record or callback fails, and however the turns interleave.
THEOREM RunTellsHolds == Spec => []RunTells
<1>1. BandInv => RunTells
  BY DEF BandInv, RunTells
<1>. QED
  BY <1>1, BandInvHolds, PTL

\* Where a verify rule holds, a task ends done only with an answer that passed
\* it, within the attempts and the iterations of the configuration.
THEOREM DoneIsVerifiedHolds == Spec => []DoneIsVerified
<1>1. BandInv => DoneIsVerified
  BY LimitsKept DEF BandInv, Passed, DoneIsVerified
<1>. QED
  BY <1>1, BandInvHolds, PTL

\* A node says that it works only for a turn that is out on it or was cut off;
\* it says anything else during a turn only after another turn on it.
THEOREM NodeTellsHolds == Spec => []NodeTells
<1>1. BandInv => NodeTells
  BY DEF BandInv
<1>. QED
  BY <1>1, BandInvHolds, PTL

-------------------------------------------------------------------------------
(* What is spent, and who accounts for it *)

\* A count of one element more by c has c more points.
LEMMA TotalGrows ==
  ASSUME NEW S, NEW f \in [S -> Nat], NEW x \in S, NEW c \in Nat, IsFiniteSet(Points(f, S)),
         NEW g, g[x] = f[x] + c, \A u \in S \ {x} : g[u] = f[u]
  PROVE  IsFiniteSet(Points(g, S)) /\ Total(g, S) = Total(f, S) + c
<1>. DEFINE new == {x} \X ((f[x] + 1)..(f[x] + c))
<1>1. f[x] \in Nat
  OBVIOUS
<1>2. Points(g, S) = Points(f, S) \cup new
  <2>1. ASSUME NEW p \in Points(g, S)
        PROVE  p \in Points(f, S) \cup new
    <3>1. PICK u \in S : p \in {u} \X (1..g[u])
      BY DEF Points
    <3>2. PICK k \in 1..g[u] : p = <<u, k>>
      BY <3>1
    <3>3. CASE u # x \/ k <= f[x]
      <4>1. k \in 1..f[u]
        BY <3>2, <3>3
      <4>2. p \in {u} \X (1..f[u])
        BY <3>2, <4>1
      <4>. QED
        BY <4>2 DEF Points
    <3>4. CASE u = x /\ ~(k <= f[x])
      BY <1>1, <3>2, <3>4
    <3>. QED
      BY <3>3, <3>4
  <2>2. ASSUME NEW p \in Points(f, S)
        PROVE  p \in Points(g, S)
    <3>1. PICK u \in S : p \in {u} \X (1..f[u])
      BY DEF Points
    <3>2. PICK k \in 1..f[u] : p = <<u, k>>
      BY <3>1
    <3>3. k \in 1..g[u]
      BY <3>2
    <3>4. p \in {u} \X (1..g[u])
      BY <3>2, <3>3
    <3>. QED
      BY <3>4 DEF Points
  <2>3. ASSUME NEW p \in new
        PROVE  p \in Points(g, S)
    <3>1. PICK k \in (f[x] + 1)..(f[x] + c) : p = <<x, k>>
      OBVIOUS
    <3>2. k \in 1..g[x]
      BY <1>1, <3>1
    <3>3. p \in {x} \X (1..g[x])
      BY <3>1, <3>2
    <3>. QED
      BY <3>3 DEF Points
  <2>. QED
    BY <2>1, <2>2, <2>3
<1>3. Points(f, S) \cap new = {}
  <2> SUFFICES ASSUME NEW p \in Points(f, S), p \in new PROVE FALSE
    OBVIOUS
  <2>1. PICK u \in S : p \in {u} \X (1..f[u])
    BY DEF Points
  <2>2. PICK k \in 1..f[u] : p = <<u, k>>
    BY <2>1
  <2>3. PICK j \in (f[x] + 1)..(f[x] + c) : p = <<x, j>>
    OBVIOUS
  <2>. QED
    BY <1>1, <2>2, <2>3
<1>4. IsFiniteSet(new) /\ Cardinality(new) = c
  <2>1. IsFiniteSet({x}) /\ Cardinality({x}) = 1
    BY FS_Singleton
  <2>2. /\ IsFiniteSet((f[x] + 1)..(f[x] + c))
        /\ Cardinality((f[x] + 1)..(f[x] + c)) = c
    <3>1. f[x] + 1 \in Int /\ f[x] + c \in Int
      BY <1>1
    <3>2. IF f[x] + 1 > f[x] + c THEN c = 0 ELSE (f[x] + c) - (f[x] + 1) + 1 = c
      BY <1>1
    <3>. QED
      BY <3>1, <3>2, FS_Interval
  <2>3. PICK I : I = (f[x] + 1)..(f[x] + c)
    OBVIOUS
  <2>4. IsFiniteSet({x} \X I) /\ Cardinality({x} \X I) = Cardinality({x}) * Cardinality(I)
    BY <2>1, <2>2, <2>3, FS_Product
  <2>. QED
    BY <2>1, <2>2, <2>3, <2>4
<1>. HIDE DEF new
<1>5. IsFiniteSet(Points(g, S))
  BY <1>2, <1>4, FS_Union
<1>6. Cardinality(Points(f, S)) + Cardinality(new) = Cardinality(Points(g, S))
  BY <1>2, <1>3, <1>5, TwoParts
<1>. QED
  BY <1>4, <1>5, <1>6 DEF Total

\* The budget, the metrics and the traces agree, and the points of the traces
\* are finitely many.
AccountInv == AccountsAgree /\ IsFiniteSet(Points(trace, Tasks)) /\ result.tokens \in Nat

\* Nothing is spent when the run begins.
LEMMA AccountInit ==
  ASSUME Init PROVE AccountInv
<1>1. /\ trace = [t \in Tasks |-> 0] /\ tokens = [t \in Tasks |-> 0]
      /\ used = 0 /\ metrics = 0 /\ result.tokens = 0
  BY DEF Init, TurnInit, NoResult
<1>2. Points(trace, Tasks) = {}
  BY <1>1 DEF Points
<1>3. IsFiniteSet({}) /\ Cardinality({}) = 0
  BY FS_EmptySet
<1>. QED
  BY <1>1, <1>2, <1>3 DEF AccountInv, AccountsAgree, Total

\* What the tasks report is no more than the traces hold.
LEMMA ReportBounded ==
  ASSUME TurnTypeOK, AccountInv
  PROVE  Total(tokens, Queued) \in Nat /\ Total(tokens, Queued) <= used
<1>1. Queued \in SUBSET Tasks
  BY QueueTypes
<1>2. \A t \in Tasks : tokens[t] \in Nat /\ trace[t] \in Nat /\ tokens[t] <= trace[t]
  BY DEF TurnTypeOK, AccountInv, AccountsAgree
<1>3. Points(tokens, Queued) \in SUBSET Points(trace, Tasks)
  <2> SUFFICES ASSUME NEW p \in Points(tokens, Queued) PROVE p \in Points(trace, Tasks)
    OBVIOUS
  <2>1. PICK u \in Queued : p \in {u} \X (1..tokens[u])
    BY DEF Points
  <2>2. PICK k \in 1..tokens[u] : p = <<u, k>>
    BY <2>1
  <2>3. u \in Tasks /\ k \in 1..trace[u]
    BY <1>1, <1>2, <2>2
  <2>4. p \in {u} \X (1..trace[u])
    BY <2>2, <2>3
  <2>. QED
    BY <2>3, <2>4 DEF Points
<1>4. /\ Cardinality(Points(tokens, Queued)) <= Cardinality(Points(trace, Tasks))
      /\ Cardinality(Points(tokens, Queued)) \in Nat
  BY <1>3, FS_Subset, FS_CardinalityType DEF AccountInv
<1>. QED
  BY <1>4 DEF AccountInv, AccountsAgree, Total

\* Every response is booked three times for the same amount, whatever becomes
\* of the turn.
LEMMA AccountStep ==
  ASSUME TurnTypeOK, FramesKept, Placed, AccountInv, [Next]_vars
  PROVE  AccountInv'
<1>0. Costs \cup {0} \subseteq Nat
  BY TurnAssumption
<1>1. ASSUME NEW t \in Tasks, NEW f, NEW c \in Costs \cup {0}, NEW d \in Nat, d <= c,
             Moved(t, f, c), UNCHANGED result,
             tokens' = [u \in Tasks |-> IF u = t THEN tokens[u] + d ELSE tokens[u]]
      PROVE  AccountInv'
  <2>0. c \in Nat /\ trace \in [Tasks -> Nat] /\ used \in Nat /\ tokens \in [Tasks -> Nat]
    BY <1>0 DEF TurnTypeOK
  <2>1. trace' = [u \in Tasks |-> IF u = t THEN trace[u] + c ELSE trace[u]]
    BY <1>1 DEF Moved
  <2>2. IsFiniteSet(Points(trace', Tasks)) /\ Total(trace', Tasks) = Total(trace, Tasks) + c
    <3>1. PICK g : g = trace'
      OBVIOUS
    <3>2. IsFiniteSet(Points(trace, Tasks))
      BY DEF AccountInv
    <3>3. g[t] = trace[t] + c /\ \A u \in Tasks \ {t} : g[u] = trace[u]
      BY <2>1, <3>1
    <3>4. IsFiniteSet(Points(g, Tasks)) /\ Total(g, Tasks) = Total(trace, Tasks) + c
      BY <2>0, <3>2, <3>3, TotalGrows
    <3>. QED
      BY <3>1, <3>4
  <2>3. used' = metrics' /\ used' = Total(trace', Tasks) /\ used' >= used
        /\ used' \in Nat
    <3>1. used' = used + c /\ metrics' = metrics + c /\ used = metrics /\ used = Total(trace, Tasks)
      BY <1>1 DEF Moved, AccountInv, AccountsAgree
    <3>. QED
      BY <2>0, <2>2, <3>1
  <2>4. \A u \in Tasks : tokens'[u] <= trace'[u]
    <3> SUFFICES ASSUME NEW u \in Tasks PROVE tokens'[u] <= trace'[u]
      OBVIOUS
    <3>1. tokens[u] \in Nat /\ trace[u] \in Nat /\ tokens[u] <= trace[u]
      BY <2>0 DEF AccountInv, AccountsAgree
    <3>. QED
      BY <1>1, <2>0, <2>1, <3>1
  <2>5. result'.tokens <= used' /\ result'.tokens \in Nat
    <3>1. result'.tokens = result.tokens /\ result.tokens <= used /\ result.tokens \in Nat
      BY <1>1 DEF AccountInv, AccountsAgree
    <3>. QED
      BY <2>0, <2>3, <3>1
  <2>. QED
    BY <2>2, <2>3, <2>4, <2>5 DEF AccountInv, AccountsAgree, Total, Points
<1>2. ASSUME NEW t \in Tasks, Process(t)
      PROVE  AccountInv'
  <2>1. CASE Entered(t)
    BY <1>1, <2>1 DEF Entered, Changes
  <2>2. ASSUME NEW f \in Frame, NEW c \in Costs \cup {0}, Went(t, f, c)
        PROVE  AccountInv'
    <3>1. tokens' = [u \in Tasks |-> IF u = t THEN tokens[u] + 0 ELSE tokens[u]]
      BY <2>2 DEF Went, TurnTypeOK
    <3>2. 0 <= c
      BY <1>0
    <3>. QED
      BY <1>1, <2>2, <3>1, <3>2 DEF Went
  <2>3. ASSUME NEW f \in Frame, NEW c \in Costs \cup {0}, NEW s \in {"done", "failed"},
               NEW d \in Nat, NEW fault \in Faults, Closed(t, f, c, s, d, fault)
        PROVE  AccountInv'
    BY <1>1, <2>3 DEF Closed, Settles, Changes
  <2>. QED
    BY <1>2, <2>1, <2>2, <2>3, ProcessKinds
<1>3. CASE UNCHANGED <<used, metrics, trace, tokens, result>>
  BY <1>3 DEF AccountInv, AccountsAgree, Total, Points
<1>4. ASSUME Return
      PROVE  AccountInv'
  <2>1. /\ result'.tokens = Total(tokens, Queued)
        /\ UNCHANGED <<used, metrics, trace, tokens>>
    BY <1>4 DEF Return, Tally, turnVars
  <2>2. result'.tokens \in Nat /\ result'.tokens <= used'
    BY <2>1, ReportBounded
  <2>. QED
    BY <2>1, <2>2 DEF AccountInv, AccountsAgree, Total, Points
<1>. QED
  BY <1>2, <1>3, <1>4
  DEF Next, EnterBreaks, NextBand, Cancel, vars, turnVars, runVars

\* A turn has at most the responses of one tool loop left, or one.
Loop == IF \E t \in Queued : HasTools(t) THEN MaxIterations ELSE 1
Dearest == Max(Costs \cup {0})
Most == Max({Limit - 1, 0})
Credits == Points([t \in Tasks |-> Left(t, turn[t])], Tasks)

\* What was spent and what the turns that are out may still spend, at the
\* dearest, is bounded from the moment a turn may begin.
CreditInv ==
  /\ Cardinality(inside) <= Slots
  /\ used + Dearest * Cardinality(Credits) <= Most + Dearest * (Slots * Loop)

\* The cost of a response is bounded.
CostsBounded == \E m \in Nat : \A c \in Costs : c <= m

\* So there is a dearest one.
LEMMA DearestCost ==
  ASSUME CostsBounded
  PROVE  Dearest \in Nat /\ \A c \in Costs \cup {0} : c <= Dearest
<1>. DEFINE C == Costs \cup {0}
            Upper == {m \in Nat : \A c \in C : c <= m}
<1>1. C \in SUBSET Nat /\ Upper \in SUBSET Nat /\ Upper # {}
  BY TurnAssumption DEF CostsBounded
<1>2. PICK n \in Upper : \A m \in Upper : n <= m
  <2>. HIDE DEF Upper
  <2>. QED
    BY <1>1, LeastElement
<1>3. n \in C
  <2> SUFFICES ASSUME n \notin C PROVE FALSE
    OBVIOUS
  <2>1. n # 0 /\ n - 1 \in Nat
    BY <1>1
  <2>2. \A c \in C : c <= n - 1
    BY <1>1
  <2>. QED
    BY <1>2, <2>1, <2>2
<1>4. \E x \in C : \A y \in C : x >= y
  BY <1>1, <1>2, <1>3
<1>5. Max(C) \in C /\ \A y \in C : Max(C) >= y
  BY <1>4 DEF Max
<1>. QED
  BY <1>1, <1>5 DEF Dearest

\* The numbers of the bound.
LEMMA BoundTypes ==
  ASSUME TurnTypeOK
  PROVE  /\ Slots \in Nat /\ Slots > 0 /\ Loop \in Nat /\ Loop > 0 /\ Slots * Loop \in Nat
         /\ Most \in Nat /\ \A n \in Nat : n < Limit => n <= Most
<1>1. Slots \in Nat /\ Slots > 0 /\ Loop \in Nat /\ Loop > 0
  BY TurnAssumption, RunnerAssumption DEF Slots, Loop
<1>2. Slots * Loop \in Nat
  BY <1>1
<1>3. Limit \in Nat /\ Limit - 1 \in Int
  BY TurnAssumption
<1>4. Most \in {Limit - 1, 0} /\ Most >= Limit - 1 /\ Most >= 0
  BY <1>3, LargerOfTwo, 0 \in Int DEF Most
<1>. QED
  BY <1>1, <1>2, <1>3, <1>4

\* Dearer by the unit, and more units, is more.
LEMMA Products ==
  ASSUME NEW d \in Nat, NEW m \in Nat, NEW n \in Nat
  PROVE  /\ d * m \in Nat
         /\ m <= n => d * m <= d * n
         /\ m + 1 <= n => d * m + d <= d * n
<1>1. d * m \in Nat
  OBVIOUS
<1>2. ASSUME m <= n PROVE d * m <= d * n
  <2>1. n - m \in Nat
    BY <1>2
  <2>2. d * (n - m) \in Nat
    BY <2>1
  <2>3. d * n = d * m + d * (n - m)
    BY <2>1
  <2>. QED
    BY <1>1, <2>2, <2>3
<1>3. ASSUME m + 1 <= n PROVE d * m + d <= d * n
  <2>1. n - (m + 1) \in Nat
    BY <1>3
  <2>2. d * (n - (m + 1)) \in Nat
    BY <2>1
  <2>3. d * n = d * m + d + d * (n - (m + 1))
    BY <2>1
  <2>. QED
    BY <1>1, <2>2, <2>3
<1>. QED
  BY <1>1, <1>2, <1>3

\* The turns that are out have a loop of credit each.
LEMMA CreditsBounded ==
  ASSUME TurnTypeOK, FramesKept, PlacesKept, Cardinality(inside) <= Slots
  PROVE  IsFiniteSet(Credits) /\ Cardinality(Credits) <= Slots * Loop
<1>0. /\ inside \in SUBSET Tasks /\ IsFiniteSet(inside) /\ Cardinality(inside) \in Nat
      /\ Slots \in Nat /\ Loop \in Nat
  BY CallAssumption, FS_Subset, FS_CardinalityType, BoundTypes DEF TurnTypeOK
<1>1. ASSUME NEW t \in Tasks
      PROVE  /\ Left(t, turn[t]) \in Int
             /\ IF t \in inside THEN Left(t, turn[t]) <= Loop ELSE Left(t, turn[t]) = 0
  <2>0. turn[t] \in Frame /\ FrameOK(t, turn[t]) /\ (t \in inside <=> InTurn(t))
    BY DEF TurnTypeOK, FramesKept, PlacesKept, LineKept, Placed
  <2>1. CASE t \notin inside
    BY <2>0, <2>1 DEF InTurn, Left
  <2>2. CASE t \in inside /\ HasTools(t)
    <3>1. t \in Queued
      BY <2>0, <2>2 DEF PlacesKept, LineKept, InTurn
    <3>2. Loop = MaxIterations
      BY <2>2, <3>1 DEF Loop
    <3>. QED
      BY <2>0, <2>2, <3>2, TurnAssumption DEF InTurn, Left, FrameOK, Frame
  <2>3. CASE t \in inside /\ ~HasTools(t)
    BY <2>0, <2>3, BoundTypes, TurnAssumption DEF InTurn, Left, FrameOK, Frame
  <2>. QED
    BY <2>1, <2>2, <2>3
<1>2. Credits \in SUBSET (inside \X (1..Loop))
  <2> SUFFICES ASSUME NEW p \in Credits PROVE p \in inside \X (1..Loop)
    OBVIOUS
  <2>1. PICK t \in Tasks : p \in {t} \X (1..Left(t, turn[t]))
    BY DEF Credits, Points
  <2>2. PICK k \in 1..Left(t, turn[t]) : p = <<t, k>>
    BY <2>1
  <2>3. t \in inside /\ k \in 1..Loop
    BY <1>0, <1>1, <2>2
  <2>. QED
    BY <2>2, <2>3
<1>3. PICK I : I = 1..Loop
  OBVIOUS
<1>4. IsFiniteSet(I) /\ Cardinality(I) = Loop
  BY <1>0, <1>3, FS_Interval
<1>5. IsFiniteSet(inside \X I) /\ Cardinality(inside \X I) = Cardinality(inside) * Cardinality(I)
  BY <1>0, <1>4, FS_Product
<1>6. IsFiniteSet(Credits) /\ Cardinality(Credits) <= Cardinality(inside) * Loop
  BY <1>2, <1>3, <1>4, <1>5, FS_Subset
<1>7. Cardinality(inside) * Loop <= Slots * Loop
  <2>1. Loop * Cardinality(inside) <= Loop * Slots
    BY <1>0, Products
  <2>. QED
    BY <1>0, <2>1
<1>8. Cardinality(Credits) \in Nat /\ Cardinality(inside) * Loop \in Nat /\ Slots * Loop \in Nat
  BY <1>0, <1>6, FS_CardinalityType
<1>. QED
  BY <1>6, <1>7, <1>8

\* A turn begins while the budget lasts; every response after that is paid for
\* out of the credit of its turn, or while the budget still lasts.
LEMMA CreditStep ==
  ASSUME CostsBounded, TurnTypeOK, FramesKept, PlacesKept, CreditInv, [Next]_vars,
         TurnTypeOK', FramesKept', PlacesKept'
  PROVE  CreditInv'
<1>0. /\ Placed /\ Dearest \in Nat /\ \A c \in Costs \cup {0} : c \in Nat /\ c <= Dearest
      /\ used \in Nat /\ used' \in Nat /\ Slots * Loop \in Nat
      /\ Most \in Nat /\ \A n \in Nat : n < Limit => n <= Most
      /\ IsFiniteSet(Credits) /\ Cardinality(Credits) \in Nat
      /\ IsFiniteSet(inside) /\ Cardinality(inside) \in Nat /\ Slots \in Nat
  <2>1. Costs \cup {0} \subseteq Nat
    BY TurnAssumption
  <2>2. IsFiniteSet(inside) /\ IsFiniteSet(Credits)
    BY CallAssumption, FS_Subset, CreditsBounded DEF TurnTypeOK, CreditInv
  <2>. QED
    BY <2>1, <2>2, DearestCost, BoundTypes, FS_CardinalityType
    DEF PlacesKept, LineKept, TurnTypeOK
<1>1. UNCHANGED <<target, Slots, Loop>>
  BY DEF Next, Process, Enter, Advance, EnterBreaks, NextBand, Return, Cancel, fixed, vars,
         runVars, Slots, Loop, HasTools, Queued
<1>2. ASSUME Cardinality(inside') <= Slots, used' <= Most
      PROVE  CreditInv'
  <2>1. IsFiniteSet(Credits') /\ Cardinality(Credits') <= Slots * Loop
    <3>1. (TurnTypeOK /\ FramesKept /\ PlacesKept /\ Cardinality(inside) <= Slots =>
            IsFiniteSet(Credits) /\ Cardinality(Credits) <= Slots * Loop)'
      BY CreditsBounded, PTL
    <3>. QED
      BY <1>1, <1>2, <3>1
  <2>2. Cardinality(Credits') \in Nat
    BY <2>1, FS_CardinalityType
  <2>3. Dearest * Cardinality(Credits') <= Dearest * (Slots * Loop)
    BY <1>0, <2>1, <2>2, Products
  <2>4. Dearest * Cardinality(Credits') \in Nat /\ Dearest * (Slots * Loop) \in Nat
    BY <1>0, <2>2, Products
  <2>. QED
    BY <1>0, <1>1, <1>2, <2>3, <2>4 DEF CreditInv
<1>3. ASSUME Cardinality(inside') <= Slots, used' = used, Credits' \in SUBSET Credits
      PROVE  CreditInv'
  <2>1. Cardinality(Credits') <= Cardinality(Credits) /\ Cardinality(Credits') \in Nat
    BY <1>0, <1>3, FS_Subset, FS_CardinalityType
  <2>2. Dearest * Cardinality(Credits') <= Dearest * Cardinality(Credits)
    BY <1>0, <2>1, Products
  <2>3. /\ Dearest * Cardinality(Credits') \in Nat /\ Dearest * Cardinality(Credits) \in Nat
        /\ Dearest * (Slots * Loop) \in Nat
    BY <1>0, <2>1, Products
  <2>. QED
    BY <1>0, <1>1, <1>3, <2>2, <2>3 DEF CreditInv
<1>4. ASSUME Cardinality(inside') <= Slots, NEW c \in Costs \cup {0}, used' = used + c,
             NEW e \in Credits, Credits' \in SUBSET (Credits \ {e})
      PROVE  CreditInv'
  <2>1. /\ IsFiniteSet(Credits \ {e})
        /\ Cardinality(Credits \ {e}) = Cardinality(Credits) - 1
    BY <1>0, <1>4, FS_RemoveElement
  <2>2. /\ Cardinality(Credits') <= Cardinality(Credits) - 1
        /\ Cardinality(Credits') \in Nat
    BY <1>4, <2>1, FS_Subset, FS_CardinalityType
  <2>3. Dearest * Cardinality(Credits') + Dearest <= Dearest * Cardinality(Credits)
    <3>1. Cardinality(Credits') + 1 <= Cardinality(Credits)
      BY <1>0, <2>2
    <3>. QED
      BY <1>0, <2>2, <3>1, Products
  <2>4. /\ Dearest * Cardinality(Credits') \in Nat /\ Dearest * Cardinality(Credits) \in Nat
        /\ Dearest * (Slots * Loop) \in Nat
    BY <1>0, <2>2, Products
  <2>. QED
    BY <1>0, <1>1, <1>4, <2>3, <2>4 DEF CreditInv
<1>5. ASSUME NEW t \in Tasks, NEW f, NEW c \in Costs \cup {0}, Moved(t, f, c),
             Left(t, f) \in Int, Left(t, turn[t]) \in Int
      PROVE  /\ Left(t, f) <= Left(t, turn[t]) => Credits' \in SUBSET Credits
             /\ Left(t, f) < Left(t, turn[t]) /\ Left(t, f) >= 0 =>
                  \E e \in Credits : Credits' \in SUBSET (Credits \ {e})
  <2>1. \A u \in Tasks : Left(u, turn[u])' = IF u = t THEN Left(t, f) ELSE Left(u, turn[u])
    BY <1>1, <1>5 DEF Moved, Left, HasTools
  <2>2. ASSUME Left(t, f) <= Left(t, turn[t]), NEW p \in Credits'
        PROVE  \E u \in Tasks : \E k \in 1..Left(u, turn[u]) :
                 p = <<u, k>> /\ (u = t => k <= Left(t, f))
    <3>1. PICK u \in Tasks : p \in {u} \X (1..(Left(u, turn[u])'))
      BY <2>2 DEF Credits, Points
    <3>2. PICK k \in 1..(Left(u, turn[u])') : p = <<u, k>>
      BY <3>1
    <3>3. k \in 1..Left(u, turn[u]) /\ (u = t => k <= Left(t, f))
      BY <1>5, <2>1, <2>2, <3>2
    <3>. QED
      BY <3>2, <3>3
  <2>3. ASSUME NEW u \in Tasks, NEW k \in 1..Left(u, turn[u])
        PROVE  <<u, k>> \in Credits
    <3>1. <<u, k>> \in {u} \X (1..Left(u, turn[u]))
      OBVIOUS
    <3>. QED
      BY <3>1 DEF Credits, Points
  <2>4. ASSUME Left(t, f) < Left(t, turn[t]), Left(t, f) >= 0
        PROVE  \E e \in Credits : Credits' \in SUBSET (Credits \ {e})
    <3>1. PICK n : n = Left(t, turn[t])
      OBVIOUS
    <3>2. n \in 1..Left(t, turn[t])
      BY <1>5, <2>4, <3>1
    <3>3. <<t, n>> \in Credits
      BY <2>3, <3>2
    <3>4. ASSUME NEW p \in Credits' PROVE p \in Credits /\ p # <<t, n>>
      <4>1. Left(t, f) <= Left(t, turn[t])
        BY <1>5, <2>4
      <4>2. PICK u \in Tasks : \E k \in 1..Left(u, turn[u]) :
              p = <<u, k>> /\ (u = t => k <= Left(t, f))
        BY <2>2, <4>1, <3>4
      <4>3. PICK k \in 1..Left(u, turn[u]) : p = <<u, k>> /\ (u = t => k <= Left(t, f))
        BY <4>2
      <4>4. u = t => k # n
        BY <1>5, <2>4, <3>1, <4>3
      <4>. QED
        BY <2>3, <4>3, <4>4
    <3>. QED
      BY <3>3, <3>4
  <2>5. ASSUME Left(t, f) <= Left(t, turn[t]) PROVE Credits' \in SUBSET Credits
    BY <2>2, <2>3, <2>5
  <2>. QED
    BY <2>4, <2>5
<1>6. ASSUME NEW t \in Tasks, NEW f \in Frame, FrameOK(t, f)
      PROVE  Left(t, f) \in Int /\ Left(t, f) >= 0
  BY <1>6, TurnAssumption DEF Left, FrameOK, Frame
<1>7. \A t \in Tasks : Left(t, turn[t]) \in Int /\ Left(t, turn[t]) >= 0
  BY <1>6 DEF TurnTypeOK, FramesKept
<1>8. ASSUME NEW t \in Tasks, NEW f \in Frame, NEW c \in Costs \cup {0}, Moved(t, f, c),
             Paid(t, f, c), FrameOK(t, f), inside' = inside \/ inside' = inside \ {t}
      PROVE  CreditInv'
  <2>0. Cardinality(inside) <= Slots
    BY DEF CreditInv
  <2>1. Cardinality(inside') <= Slots
    <3>1. Cardinality(inside \ {t}) \in {Cardinality(inside), Cardinality(inside) - 1}
      BY <1>0, FS_RemoveElement
    <3>2. Cardinality(inside') \in {Cardinality(inside), Cardinality(inside) - 1}
      BY <1>8, <3>1
    <3>3. Cardinality(inside) \in Nat /\ Slots \in Nat
      BY <1>0
    <3>. QED
      BY <2>0, <3>2, <3>3
  <2>2. used' = used + c
    BY <1>8 DEF Moved
  <2>3. CASE c = 0 /\ Left(t, f) <= Left(t, turn[t])
    BY <1>0, <1>3, <1>5, <1>6, <1>7, <1>8, <2>1, <2>2, <2>3
  <2>4. CASE Left(t, f) < Left(t, turn[t])
    BY <1>4, <1>5, <1>6, <1>7, <1>8, <2>1, <2>2, <2>4
  <2>5. CASE used + c < Limit
    BY <1>0, <1>2, <2>1, <2>2, <2>5
  <2>. QED
    BY <1>8, <2>3, <2>4, <2>5 DEF Paid
<1>9. ASSUME NEW t \in Tasks, Process(t)
      PROVE  CreditInv'
  <2>1. CASE Entered(t)
    <3>1. Cardinality(inside') <= Slots
      <4>1. inside' = inside \cup {t} /\ Cardinality(inside) < Slots
        BY <2>1 DEF Entered, Takes
      <4>2. Cardinality(inside \cup {t}) \in {Cardinality(inside), Cardinality(inside) + 1}
        BY <1>0, FS_AddElement
      <4>. QED
        BY <1>0, <4>1, <4>2
    <3>2. used' <= Most
      <4>1. used' = used + 0 /\ used < Limit
        BY <2>1 DEF Entered, Changes, Moved
      <4>. QED
        BY <1>0, <4>1
    <3>. QED
      BY <1>2, <3>1, <3>2
  <2>2. ASSUME NEW f \in Frame, NEW c \in Costs \cup {0}, Went(t, f, c)
        PROVE  CreditInv'
    BY <1>8, <2>2 DEF Went
  <2>3. ASSUME NEW f \in Frame, NEW c \in Costs \cup {0}, NEW s \in {"done", "failed"},
               NEW d \in Nat, NEW fault \in Faults, Closed(t, f, c, s, d, fault)
        PROVE  CreditInv'
    <3>1. Moved(t, f, c) /\ FrameOK(t, f) /\ inside' = inside \ {t} /\ f.at = "over"
      BY <2>3 DEF Closed, Settles, Changes
    <3>2. Paid(t, f, c)
      <4>1. CASE Takes(t) /\ c = 0
        BY <1>7, <3>1, <4>1 DEF Paid, Left
      <4>. QED
        BY <2>3, <4>1 DEF Closed
    <3>. QED
      BY <1>8, <3>1, <3>2
  <2>. QED
    BY <1>0, <1>9, <2>1, <2>2, <2>3, ProcessKinds
<1>10. CASE UNCHANGED <<used, turn, inside>>
  <2>1. Credits' = Credits
    BY <1>1, <1>10 DEF Credits, Points, Left, HasTools
  <2>. QED
    BY <1>3, <1>10, <2>1 DEF CreditInv
<1>11. ASSUME NEW late \in SUBSET inside, Cancel(late)
       PROVE  CreditInv'
  <2>1. \A t \in Tasks : IF t \in inside THEN turn'[t].at = "cut" ELSE turn'[t] = turn[t]
    BY <1>11, CancelSays
  <2>2. \A t \in Tasks : Left(t, turn[t])' = 0
    BY <1>0, <1>1, <2>1 DEF Left, Placed, InTurn, HasTools
  <2>3. Credits' = {}
    BY <2>2 DEF Credits, Points
  <2>4. Cardinality(inside') <= Slots
    BY <1>0, <1>11, FS_EmptySet DEF Cancel
  <2>. QED
    BY <1>3, <1>11, <2>3, <2>4 DEF Cancel
<1>. QED
  BY <1>9, <1>10, <1>11
  DEF Next, EnterBreaks, NextBand, Return, vars, turnVars, runVars

\* Nothing is spent and nothing is out when the run begins.
LEMMA CreditInit ==
  ASSUME CostsBounded, Init
  PROVE  CreditInv
<1>1. TurnTypeOK /\ FramesKept /\ PlacesKept
  BY InitTypes, InitPlaces
<1>2. inside = {} /\ used = 0
  BY DEF Init, TurnInit
<1>3. Cardinality(inside) <= Slots
  BY <1>1, <1>2, FS_EmptySet, BoundTypes
<1>4. IsFiniteSet(Credits) /\ Cardinality(Credits) <= Slots * Loop
  BY <1>1, <1>3, CreditsBounded
<1>5. /\ Cardinality(Credits) \in Nat /\ Slots * Loop \in Nat /\ Most \in Nat /\ Dearest \in Nat
  BY <1>1, <1>4, FS_CardinalityType, BoundTypes, DearestCost
<1>6. /\ Dearest * Cardinality(Credits) <= Dearest * (Slots * Loop)
      /\ Dearest * Cardinality(Credits) \in Nat /\ Dearest * (Slots * Loop) \in Nat
  BY <1>4, <1>5, Products
<1>. QED
  BY <1>2, <1>3, <1>5, <1>6 DEF CreditInv

\* The credit bounds what is spent.
LEMMA CreditBounds ==
  ASSUME CostsBounded, TurnTypeOK, FramesKept, PlacesKept, CreditInv
  PROVE  SpendBounded
<1>1. /\ IsFiniteSet(Credits) /\ Slots \in Nat /\ Loop \in Nat /\ Slots * Loop \in Nat
      /\ Most \in Nat /\ Dearest \in Nat /\ used \in Nat
  BY CreditsBounded, BoundTypes, DearestCost DEF CreditInv, TurnTypeOK
<1>2. Dearest * Cardinality(Credits) \in Nat /\ Dearest * (Slots * Loop) \in Nat
  BY <1>1, FS_CardinalityType, Products
<1>3. used <= Most + Dearest * (Slots * Loop)
  BY <1>1, <1>2 DEF CreditInv
<1>4. Dearest * (Slots * Loop) = Slots * Loop * Dearest
  BY <1>1
<1>. QED
  BY <1>3, <1>4 DEF SpendBounded, Most, Loop, Dearest

\* Where the cost of a response is bounded, the budget is overdrawn by no more
\* than the turns in the semaphore can still spend; the budget, the metrics and
\* the traces say the same of what was spent, and the report never says more;
\* and no task lays more signals than its limit.
THEOREM SpendKeptHolds ==
  ASSUME CostsBounded
  PROVE  Spec => []SpendKept
<1>1. Spec => []AccountInv
  <2>1. BandInv => TurnTypeOK /\ FramesKept /\ Placed
    BY DEF BandInv, PlacesKept, LineKept
  <2>2. BandInv /\ AccountInv /\ [Next]_vars => AccountInv'
    BY <2>1, AccountStep
  <2>. QED
    BY <2>2, AccountInit, BandInvHolds, PTL DEF Spec
<1>2. Spec => []CreditInv
  <2>1. BandInv => TurnTypeOK /\ FramesKept /\ PlacesKept
    BY DEF BandInv
  <2>2. BandInv /\ BandInv' /\ CreditInv /\ [Next]_vars => CreditInv'
    <3>1. BandInv' => TurnTypeOK' /\ FramesKept' /\ PlacesKept'
      BY DEF BandInv
    <3>. QED
      BY <2>1, <3>1, CreditStep
  <2>. QED
    BY <2>2, CreditInit, BandInvHolds, PTL DEF Spec
<1>3. BandInv /\ AccountInv /\ CreditInv => SpendKept
  BY CreditBounds, LimitsKept DEF BandInv, AccountInv, SpendKept
<1>. QED
  BY <1>1, <1>2, <1>3, BandInvHolds, PTL
================================================================================
