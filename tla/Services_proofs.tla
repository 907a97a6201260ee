----------------------------- MODULE Services_proofs ----------------------------
(***************************************************************************)
(* The services of a run, each by itself and for any number of its actors: *)
(* the growth, the spending and the answers of agents under a constitution *)
(* (Charter) and the colonies of a file (Planting), the pipe to an MCP     *)
(* server (McpLink), the history of a conversation (Conversation), and     *)
(* what the observers of a run keep of it (Observers).                     *)
(***************************************************************************)
EXTENDS Colonies, McpLink, Conversation, Observers, SequenceTheorems,
        FiniteSetTheorems, TLAPS

-------------------------------------------------------------------------------
(* An accepted answer is lawful, for any rules, texts, agents and trees.     *)
(*                                                                           *)
(* What makes it inductive: an agent decides once, when its turn begins,     *)
(* whether it will ask the verify rules (FrameAsks), so an answer can only   *)
(* be held to verify rules that stood then; and a rule that judges answers   *)
(* looks at the answer alone, so what was lawful stays lawful while the      *)
(* tree grows (AnswerRulesSeeNoTree).                                        *)

AnswerKinds == RuleKinds["post"] \cup RuleKinds["verify"]

\* Whoever is at work and began under a verify rule asks the verify rules.
FrameAsks ==
  \A j \in Judges : \A r \in sitting[j].law :
    r.kind \in RuleKinds["verify"] => sitting[j].verify = TRUE

FrameFields == {"at", "site", "verify", "attempt", "thinks", "law"}

Frames ==
  /\ sitting = [j \in Judges |-> sitting[j]]
  /\ \A j \in Judges : sitting[j] = [x \in FrameFields |-> sitting[j][x]]

\* Answers are held to the rules that judge answers.
RulingsOnAnswers == \A r \in rulings : \A k \in r.law : k.kind \in AnswerKinds

LawInv == Frames /\ FrameAsks /\ RulingsOnAnswers /\ AnswersLawful

-------------------------------------------------------------------------------
(* The verdict of a rule on an answer does not depend on the tree.          *)
LEMMA AnswerRulesSeeNoTree ==
  ASSUME NEW rule, NEW c, rule.kind \in AnswerKinds
  PROVE  Upholds(rule, c)' <=> Upholds(rule, c)
  BY DEF AnswerKinds, RuleKinds, Upholds, BannedWords, BannedSubstrings, BannedWordStems,
         MaxResponseTokens, MinResponseLength, RequireJson, MustMatch, MustContain, MustBeJson,
         SandboxOracle, MaxDepth, BlockRole, NoChildName, CapTokens, BlockPromptPattern,
         MinTaskDescription, MinRuntimeTaskDescription

LEMMA StandingHasKind ==
  ASSUME NEW n, NEW stage
  PROVE  \A r \in Standing(n, stage) : r.kind \in RuleKinds[stage]
  BY DEF Standing

-------------------------------------------------------------------------------
LEMMA LawInvInit == CharterInit => LawInv
<1>1. ASSUME CharterInit PROVE LawInv
  <2>1. sitting = [j \in Judges |-> NoSitting] /\ rulings = {}
    BY <1>1 DEF CharterInit
  <2>2. NoSitting = [x \in FrameFields |-> NoSitting[x]]
    BY DEF NoSitting, FrameFields
  <2>3. NoSitting.law = {}
    BY DEF NoSitting
  <2>4. QED
    BY <2>1, <2>2, <2>3 DEF LawInv, Frames, FrameAsks, RulingsOnAnswers, AnswersLawful
<1>2. QED
  BY <1>1

\* What an accepted answer breaks is the same for ever.
LEMMA VerdictStays ==
  ASSUME RulingsOnAnswers, NEW r \in rulings
  PROVE  Broken(r.law, [text |-> r.text, cost |-> r.cost])'
           = Broken(r.law, [text |-> r.text, cost |-> r.cost])
<1>1. \A k \in r.law : k.kind \in AnswerKinds
  BY DEF RulingsOnAnswers
<1>2. \A k \in r.law : Upholds(k, [text |-> r.text, cost |-> r.cost])'
                         <=> Upholds(k, [text |-> r.text, cost |-> r.cost])
  BY <1>1, AnswerRulesSeeNoTree
<1>3. QED
  BY <1>2 DEF Broken

\* A step that accepts no answer leaves the others lawful.
LEMMA LawfulKept ==
  ASSUME LawInv, rulings' = rulings, noted \subseteq noted'
  PROVE  RulingsOnAnswers' /\ AnswersLawful'
  BY VerdictStays DEF LawInv, RulingsOnAnswers, AnswersLawful

\* An agent that begins a turn under a verify rule will ask.
LEMMA SitsAsks ==
  ASSUME LawInv, NEW j \in Judges, NEW n, Sits(j, n)
  PROVE  Frames' /\ FrameAsks'
<1> DEFINE frame == [at |-> "thinks", site |-> n, verify |-> Standing(n, "verify") # {},
                     attempt |-> 1, thinks |-> 1, law |-> Answerable(n)]
<1>1. /\ sitting' = [i \in Judges |-> IF i = j THEN frame ELSE sitting[i]]
  BY DEF LawInv, Frames, Sits
<1>2. frame = [x \in FrameFields |-> frame[x]]
  BY DEF FrameFields
<1>3. frame.law = Answerable(n) /\ frame.verify = (Standing(n, "verify") # {})
  OBVIOUS
<1>4. \A r \in frame.law : r.kind \in RuleKinds["verify"] => frame.verify = TRUE
  BY <1>3 DEF Answerable, Standing
<1> HIDE DEF frame
<1>5. QED
  BY <1>1, <1>2, <1>4 DEF LawInv, Frames, FrameAsks

\* A turn that ends, or thinks once more, asks as it began.
LEMMA GoesOnAsks ==
  ASSUME LawInv, NEW j \in Judges, NEW used,
         \/ Rises(j) \/ ThinksAgain(j, used)
         \/ sitting' = [sitting EXCEPT ![j].thinks = @ + 1]
  PROVE  Frames' /\ FrameAsks'
<1>1. CASE Rises(j)
  <2>1. sitting' = [i \in Judges |-> IF i = j THEN NoSitting ELSE sitting[i]]
    BY <1>1 DEF LawInv, Frames, Rises
  <2>2. NoSitting = [x \in FrameFields |-> NoSitting[x]] /\ NoSitting.law = {}
    BY DEF FrameFields, NoSitting
  <2>3. QED
    BY <2>1, <2>2 DEF LawInv, Frames, FrameAsks
<1>2. ASSUME NEW frame, frame = [x \in FrameFields |-> frame[x]],
             frame.law = sitting[j].law, frame.verify = sitting[j].verify,
             sitting' = [sitting EXCEPT ![j] = frame]
      PROVE  Frames' /\ FrameAsks'
  <2>1. sitting' = [i \in Judges |-> IF i = j THEN frame ELSE sitting[i]]
    BY <1>2 DEF LawInv, Frames
  <2>2. Frames'
    <3>1. ASSUME NEW i \in Judges PROVE sitting'[i] = [x \in FrameFields |-> sitting'[i][x]]
      <4>1. CASE i = j
        BY <4>1, <1>2, <2>1
      <4>2. CASE i # j
        BY <4>2, <2>1 DEF LawInv, Frames
      <4>3. QED
        BY <4>1, <4>2
    <3>2. sitting' = [i \in Judges |-> sitting'[i]]
      BY <2>1
    <3>3. QED
      BY <3>1, <3>2 DEF Frames
  <2>3. FrameAsks'
    <3>1. \A i \in Judges : sitting'[i].law = sitting[i].law /\ sitting'[i].verify = sitting[i].verify
      BY <1>2, <2>1
    <3>2. QED
      BY <3>1 DEF LawInv, FrameAsks
  <2>4. QED
    BY <2>2, <2>3
<1> DEFINE once == [x \in FrameFields |-> IF x = "thinks" THEN sitting[j].thinks + 1 ELSE sitting[j][x]]
           anew == [x \in FrameFields |->
                      IF x \in {"attempt", "thinks"} THEN sitting[j][x] + 1 ELSE sitting[j][x]]
<1>3. CASE sitting' = [sitting EXCEPT ![j].thinks = @ + 1]
  <2>1. sitting' = [sitting EXCEPT ![j] = once]
    BY <1>3 DEF LawInv, Frames, FrameFields
  <2>2. QED
    BY <1>2, <2>1 DEF FrameFields
<1>4. CASE sitting' = [sitting EXCEPT ![j].attempt = @ + 1, ![j].thinks = @ + 1]
  <2>1. sitting' = [sitting EXCEPT ![j] = anew]
    BY <1>4 DEF LawInv, Frames, FrameFields
  <2>2. QED
    BY <1>2, <2>1 DEF FrameFields
<1>5. QED
  BY <1>1, <1>3, <1>4 DEF ThinksAgain

(* An answer that is judged: accepted, it goes to the rulings with the rules *)
(* it is held to, and it was asked all of them.                              *)
LEMMA JudgedKeeps ==
  ASSUME LawInv, NEW j \in Judges, NEW text, NEW cost, Judged(j, text, cost)
  PROVE  LawInv'
<1> DEFINE n == sitting[j].site
           c == [text |-> text, cost |-> cost]
           post == Broken(Standing(n, "post"), c)
           verify == IF sitting[j].verify THEN Broken(Standing(n, "verify"), c) ELSE {}
           accepted == Hard(post) = {} /\ Hard(verify) = {}
           ruling == [text |-> text, cost |-> cost, law |-> sitting[j].law \cap Answerable(n)]
<1>1. /\ noted' = noted \cup (IF Hard(post) # {} THEN {} ELSE Soft(post) \cup Soft(verify))
      /\ rulings' = rulings \cup (IF accepted THEN {ruling} ELSE {})
      /\ IF accepted \/ Hard(post) # {} \/ sitting[j].attempt = MaxTries
         THEN Rises(j) ELSE ThinksAgain(j, tokens + cost)
  BY DEF Judged
<1>2. Frames' /\ FrameAsks'
  BY <1>1, GoesOnAsks
<1>3. ASSUME NEW r \in ruling.law
      PROVE  r.kind \in AnswerKinds /\ (~Upholds(r, c) => r \in post \cup verify)
  <2>1. r \in sitting[j].law /\ r \in Answerable(n)
    OBVIOUS
  <2>2. CASE r \in Standing(n, "post")
    BY <2>2, StandingHasKind DEF AnswerKinds, Broken
  <2>3. CASE r \in Standing(n, "verify")
    <3>1. r.kind \in RuleKinds["verify"]
      BY <2>3, StandingHasKind
    <3>2. sitting[j].verify
      BY <2>1, <3>1 DEF LawInv, FrameAsks
    <3>3. QED
      BY <2>3, <3>1, <3>2 DEF AnswerKinds, Broken
  <2>4. QED
    BY <2>1, <2>2, <2>3 DEF Answerable
<1>4. ASSUME accepted, NEW r, r = ruling
      PROVE  /\ \A k \in r.law : k.kind \in AnswerKinds
             /\ Hard(Broken(r.law, [text |-> r.text, cost |-> r.cost])') = {}
             /\ Broken(r.law, [text |-> r.text, cost |-> r.cost])' \subseteq noted'
  <2>1. \A k \in r.law : /\ k.kind \in AnswerKinds
                         /\ ~Upholds(k, [text |-> r.text, cost |-> r.cost]) => k \in post \cup verify
    BY <1>3, <1>4
  <2>2. \A k \in r.law : Upholds(k, [text |-> r.text, cost |-> r.cost])'
                           <=> Upholds(k, [text |-> r.text, cost |-> r.cost])
    BY <2>1, AnswerRulesSeeNoTree
  <2>3. Broken(r.law, [text |-> r.text, cost |-> r.cost])' \subseteq post \cup verify
    BY <2>1, <2>2 DEF Broken
  <2>4. Hard(post \cup verify) = {}
    BY <1>4 DEF Hard
  <2>5. post \cup verify \subseteq noted'
    BY <1>1, <1>4 DEF Soft
  <2>6. QED
    BY <2>1, <2>3, <2>4, <2>5 DEF Hard
<1>5. ASSUME NEW r \in rulings
      PROVE  /\ \A k \in r.law : k.kind \in AnswerKinds
             /\ Hard(Broken(r.law, [text |-> r.text, cost |-> r.cost])') = {}
             /\ Broken(r.law, [text |-> r.text, cost |-> r.cost])' \subseteq noted'
  <2>1. /\ Broken(r.law, [text |-> r.text, cost |-> r.cost])'
             = Broken(r.law, [text |-> r.text, cost |-> r.cost])
        /\ \A k \in r.law : k.kind \in AnswerKinds
    BY VerdictStays DEF LawInv, RulingsOnAnswers
  <2>2. noted \subseteq noted'
    BY <1>1
  <2>3. QED
    BY <2>1, <2>2 DEF LawInv, AnswersLawful
<1>6. \A r \in rulings' : r \in rulings \/ (accepted /\ r = ruling)
  BY <1>1
<1> HIDE DEF accepted, ruling, post, verify, n, c
<1>7. RulingsOnAnswers' /\ AnswersLawful'
  BY <1>4, <1>5, <1>6 DEF RulingsOnAnswers, AnswersLawful, Hard
<1>8. QED
  BY <1>2, <1>7 DEF LawInv

-------------------------------------------------------------------------------
LEMMA LawInvStep == LawInv /\ [CharterNext]_charterVars => LawInv'
<1> SUFFICES ASSUME LawInv, [CharterNext]_charterVars PROVE LawInv'
  OBVIOUS
<1> USE DEF LawInv
<1>1. ASSUME UNCHANGED <<sitting, noted, rulings>> PROVE LawInv'
  BY <1>1, LawfulKept DEF Frames, FrameAsks
<1>2. ASSUME NEW h, NEW r, Enact(h, r) PROVE LawInv'
  BY <1>1, <1>2 DEF Enact
<1>3. ASSUME NEW p, NEW post, Sprout(p, post) PROVE LawInv'
  BY <1>1, <1>3 DEF Sprout
<1>4. ASSUME NEW n, Fell(n) PROVE LawInv'
  BY <1>1, <1>4 DEF Fell
<1>5. ASSUME NEW j \in Judges, NEW n, NEW prompt, NEW task, Opens(j, n, prompt, task) PROVE LawInv'
  <2>1. rulings' = rulings /\ noted \subseteq noted'
    BY <1>5 DEF Opens
  <2>2. CASE Sits(j, n)
    BY <2>1, <2>2, LawfulKept, SitsAsks
  <2>3. CASE UNCHANGED sitting
    BY <2>1, <2>3, LawfulKept DEF Frames, FrameAsks
  <2>4. QED
    BY <1>5, <2>2, <2>3 DEF Opens
<1>6. ASSUME NEW j \in Judges, NEW n, OpensLoop(j, n) PROVE LawInv'
  BY <1>6, LawfulKept, SitsAsks DEF OpensLoop
<1>7. ASSUME NEW j \in Judges, NEW text, NEW cost, Replies(j, text, cost) PROVE LawInv'
  BY <1>7, JudgedKeeps DEF Replies
<1>8. ASSUME NEW j \in Judges, NEW cost, AsksTools(j, cost) PROVE LawInv'
  <2>1. Frames' /\ FrameAsks'
    BY <1>8, GoesOnAsks DEF AsksTools
  <2>2. QED
    BY <1>8, <2>1, LawfulKept DEF AsksTools
<1>9. CASE UNCHANGED charterVars
  BY <1>1, <1>9 DEF charterVars
<1>10. QED
  BY <1>2, <1>3, <1>4, <1>5, <1>6, <1>7, <1>8, <1>9 DEF CharterNext

(* The inductive invariant.                                                 *)
THEOREM LawInvHolds == CharterSpec => []LawInv
  BY LawInvInit, LawInvStep, PTL DEF CharterSpec

(* An answer that was accepted breaks no hard rule that stood when its turn *)
(* began and stands still, and every soft one it breaks has been reported   *)
(* (Agent.act, Agent.act_with_tools).                                       *)
THEOREM AnswersLawfulHolds == CharterSpec => []AnswersLawful
  BY LawInvHolds, PTL DEF LawInv

-------------------------------------------------------------------------------
(* What is spent beyond a cap.                                               *)
(*                                                                           *)
(* A turn that is at work may think as often as its attempts allow; each     *)
(* time is a point of credit.  While the cap is not reached, what has been   *)
(* spent and the credit of all are below the bound, however many sit down;   *)
(* once it is, nobody does, and every point that is spent is one less.       *)

CapRule == [kind |-> "max_tokens", severity |-> "hard"]

Capped == CapRule \in charter /\ armed = {}

\* What each agent at work may still do.
Credit ==
  {p \in Judges \X (1..MaxTries) :
     sitting[p[1]].at = "thinks" /\ sitting[p[1]].attempt <= p[2]}

SpendTypes ==
  /\ tokens \in Nat
  /\ statutes = [h \in Org..MaxSites |-> statutes[h]]
  /\ charter \subseteq statutes[Org]
  /\ \A j \in Judges : /\ sitting[j].at \in {"off", "thinks"}
                       /\ sitting[j].at = "thinks" => sitting[j].attempt \in 1..MaxTries

\* No response costs more.
Dearest(cost) == cost \in TokenCosts /\ \A other \in TokenCosts : other <= cost

Bound(cost) == TokenCap + cost * (Cardinality(Judges) * MaxTries)

CreditInv ==
  Capped =>
    \/ tokens = 0 /\ Credit = {}
    \/ \A cost : Dearest(cost) => tokens + cost * Cardinality(Credit) < Bound(cost)

SpendInv == SpendTypes /\ CreditInv

\* Dearer by the unit, and more units, is more.
LEMMA Dearer ==
  ASSUME NEW d \in Nat, NEW m \in Nat, NEW n \in Nat
  PROVE  /\ d * m \in Nat
         /\ m <= n => d * m <= d * n
         /\ m + 1 <= n => d * m + d <= d * n
<1>1. d * m \in Nat
  OBVIOUS
<1>2. ASSUME m <= n PROVE d * m <= d * n
  <2>1. n - m \in Nat
    BY <1>2
  <2>2. d * (n - m) \in Nat
    BY <2>1
  <2>3. d * n = d * m + d * (n - m)
    BY <2>1
  <2>. QED
    BY <1>1, <2>2, <2>3
<1>3. ASSUME m + 1 <= n PROVE d * m + d <= d * n
  <2>1. n - (m + 1) \in Nat
    BY <1>3
  <2>2. d * (n - (m + 1)) \in Nat
    BY <2>1
  <2>3. d * n = d * m + d + d * (n - (m + 1))
    BY <2>1
  <2>. QED
    BY <1>1, <2>2, <2>3
<1>. QED
  BY <1>1, <1>2, <1>3

\* All the credit there can be, whoever is at work.
LEMMA CreditMost ==
  ASSUME NEW C, C \subseteq Judges \X (1..MaxTries)
  PROVE  /\ IsFiniteSet(C) /\ Cardinality(C) \in Nat
         /\ Cardinality(Judges) * MaxTries \in Nat
         /\ Cardinality(C) <= Cardinality(Judges) * MaxTries
<1>1. MaxTries \in Nat /\ IsFiniteSet(Judges) /\ Cardinality(Judges) \in Nat
  BY CharterAssumption, FS_CardinalityType
<1>2. PICK I : I = 1..MaxTries
  OBVIOUS
<1>3. IsFiniteSet(I) /\ Cardinality(I) = MaxTries
  BY <1>1, <1>2, FS_Interval
<1>4. IsFiniteSet(Judges \X I) /\ Cardinality(Judges \X I) = Cardinality(Judges) * Cardinality(I)
  BY <1>1, <1>3, FS_Product
<1>5. C \subseteq Judges \X I
  BY <1>2
<1>6. IsFiniteSet(C) /\ Cardinality(C) <= Cardinality(Judges \X I)
  BY <1>4, <1>5, FS_Subset
<1>7. Cardinality(C) \in Nat
  BY <1>6, FS_CardinalityType
<1>. QED
  BY <1>1, <1>3, <1>4, <1>6, <1>7

LEMMA BoundNumbers ==
  ASSUME NEW cost, Dearest(cost)
  PROVE  /\ cost \in Nat /\ TokenCap \in Nat
         /\ cost * (Cardinality(Judges) * MaxTries) \in Nat
         /\ cost * Cardinality(Credit) \in Nat /\ Cardinality(Credit) \in Nat
         /\ cost * Cardinality(Credit) <= cost * (Cardinality(Judges) * MaxTries)
<1>1. cost \in Nat /\ TokenCap \in Nat
  BY CharterAssumption DEF Dearest
<1>2. PICK K : K = Cardinality(Judges) * MaxTries
  OBVIOUS
<1>3. PICK C : C = Credit
  OBVIOUS
<1>4. C \subseteq Judges \X (1..MaxTries)
  BY <1>3 DEF Credit
<1>5. Cardinality(C) \in Nat /\ K \in Nat /\ Cardinality(C) <= K
  BY <1>2, <1>4, CreditMost
<1>6. cost * K \in Nat /\ cost * Cardinality(C) \in Nat /\ cost * Cardinality(C) <= cost * K
  BY <1>1, <1>5, Dearer
<1>. QED
  BY <1>1, <1>2, <1>3, <1>5, <1>6

\* Below the cap any credit is within the bound.
LEMMA BelowCap ==
  ASSUME SpendTypes, tokens < TokenCap
  PROVE  CreditInv
<1>1. ASSUME NEW cost, Dearest(cost) PROVE tokens + cost * Cardinality(Credit) < Bound(cost)
  <2>1. tokens \in Nat
    BY DEF SpendTypes
  <2>. QED
    BY <1>1, <2>1, BoundNumbers DEF Bound
<1>. QED
  BY <1>1 DEF CreditInv

\* A step that charges nothing and gives no credit.
LEMMA CreditKept ==
  ASSUME SpendInv, UNCHANGED <<charter, armed, tokens>>, Credit' \subseteq Credit
  PROVE  CreditInv'
<1>. SUFFICES ASSUME Capped' PROVE \/ tokens = 0 /\ Credit' = {}
                                   \/ \A cost : Dearest(cost) =>
                                        tokens + cost * Cardinality(Credit') < Bound(cost)
  BY DEF CreditInv, Bound, Dearest
<1>0. Capped
  BY DEF Capped
<1>1. CASE tokens = 0 /\ Credit = {}
  BY <1>1
<1>2. ASSUME NEW cost, Dearest(cost), tokens + cost * Cardinality(Credit) < Bound(cost)
      PROVE  tokens + cost * Cardinality(Credit') < Bound(cost)
  <2>1. PICK C : C = Credit
    OBVIOUS
  <2>2. PICK D : D = Credit'
    OBVIOUS
  <2>3. C \subseteq Judges \X (1..MaxTries) /\ D \subseteq C
    BY <2>1, <2>2 DEF Credit
  <2>4. /\ IsFiniteSet(C) /\ Cardinality(C) \in Nat /\ Cardinality(D) \in Nat
        /\ Cardinality(D) <= Cardinality(C)
    BY <2>3, CreditMost, FS_Subset
  <2>5. /\ cost \in Nat /\ TokenCap \in Nat /\ cost * (Cardinality(Judges) * MaxTries) \in Nat
        /\ tokens \in Nat
    BY <1>2, BoundNumbers DEF SpendInv, SpendTypes
  <2>6. /\ cost * Cardinality(D) \in Nat /\ cost * Cardinality(C) \in Nat
        /\ cost * Cardinality(D) <= cost * Cardinality(C)
    BY <2>4, <2>5, Dearer
  <2>7. tokens + cost * Cardinality(C) < Bound(cost) /\ Bound(cost) \in Nat
    BY <1>2, <2>1, <2>5 DEF Bound
  <2>8. tokens + cost * Cardinality(D) < Bound(cost)
    BY <2>5, <2>6, <2>7
  <2>. QED
    BY <2>2, <2>8
<1>. QED
  BY <1>0, <1>1, <1>2 DEF SpendInv, CreditInv

\* A step that charges for a response and takes a point of credit.
LEMMA CreditPaid ==
  ASSUME SpendInv, UNCHANGED <<charter, armed>>, NEW charge \in TokenCosts,
         tokens' = tokens + charge, NEW e \in Credit, Credit' \subseteq Credit \ {e}
  PROVE  CreditInv'
<1>. SUFFICES ASSUME Capped', NEW cost, Dearest(cost)
              PROVE  tokens' + cost * Cardinality(Credit') < Bound(cost)
  BY DEF CreditInv, Bound, Dearest
<1>1. tokens + cost * Cardinality(Credit) < Bound(cost)
  BY DEF Capped, SpendInv, CreditInv
<1>2. PICK C : C = Credit
  OBVIOUS
<1>3. PICK D : D = Credit'
  OBVIOUS
<1>4. C \subseteq Judges \X (1..MaxTries) /\ D \subseteq C \ {e} /\ e \in C
  BY <1>2, <1>3 DEF Credit
<1>5. /\ IsFiniteSet(C) /\ Cardinality(C) \in Nat /\ Cardinality(D) \in Nat
      /\ Cardinality(D) + 1 <= Cardinality(C)
  <2>1. IsFiniteSet(C) /\ Cardinality(C) \in Nat
    BY <1>4, CreditMost
  <2>2. IsFiniteSet(C \ {e}) /\ Cardinality(C \ {e}) = Cardinality(C) - 1
    BY <1>4, <2>1, FS_RemoveElement
  <2>3. IsFiniteSet(D) /\ Cardinality(D) <= Cardinality(C \ {e})
    BY <1>4, <2>2, FS_Subset
  <2>4. Cardinality(D) \in Nat
    BY <2>3, FS_CardinalityType
  <2>. QED
    BY <2>1, <2>2, <2>3, <2>4
<1>6. /\ cost \in Nat /\ TokenCap \in Nat /\ cost * (Cardinality(Judges) * MaxTries) \in Nat
      /\ tokens \in Nat
  BY BoundNumbers DEF SpendInv, SpendTypes
<1>7. charge \in Nat /\ charge <= cost
  BY CharterAssumption DEF Dearest
<1>8. /\ cost * Cardinality(D) \in Nat /\ cost * Cardinality(C) \in Nat
      /\ cost * Cardinality(D) + cost <= cost * Cardinality(C)
  BY <1>5, <1>6, Dearer
<1>9. tokens + cost * Cardinality(C) < Bound(cost) /\ Bound(cost) \in Nat
  BY <1>1, <1>2, <1>6 DEF Bound
<1>10. (tokens + charge) + cost * Cardinality(D) < Bound(cost)
  BY <1>6, <1>7, <1>8, <1>9
<1>. QED
  BY <1>3, <1>10

\* Under the cap rule a turn opens below the cap only.
LEMMA OpensBelow ==
  ASSUME SpendInv, Capped, NEW j, NEW n, NEW prompt, NEW task, Opens(j, n, prompt, task)
  PROVE  tokens < TokenCap
<1>. DEFINE c == [task_text |-> sites[n].task, task |-> task, prompt |-> prompt, used |-> tokens]
<1>1. CapRule \in statutes[Org]
  BY DEF SpendInv, SpendTypes, Capped
<1>2. CapRule.kind = "max_tokens" /\ CapRule.severity = "hard"
  BY DEF CapRule
<1>3. CapRule \in Standing(n, "pre")
  BY <1>1, <1>2 DEF Standing, RuleKinds
<1>4. Hard(Broken(Standing(n, "pre"), c)) = {}
  BY DEF Opens
<1>5. Upholds(CapRule, c)
  BY <1>2, <1>3, <1>4 DEF Hard, Broken
<1>6. CapTokens(c)
  BY <1>2, <1>5 DEF Upholds
<1>. QED
  BY <1>6 DEF CapTokens

LEMMA SpendStep ==
  ASSUME LawInv, SpendInv, [CharterNext]_charterVars
  PROVE  SpendInv'
<1>0. /\ SpendTypes /\ CreditInv /\ sitting = [j \in Judges |-> sitting[j]]
      /\ \A j \in Judges : sitting[j] = [x \in FrameFields |-> sitting[j][x]]
  BY DEF SpendInv, LawInv, Frames
<1>1. ASSUME UNCHANGED <<charter, statutes, armed, sitting, tokens>> PROVE SpendInv'
  <2>1. SpendTypes'
    BY <1>0, <1>1 DEF SpendTypes
  <2>2. Credit' = Credit
    BY <1>1 DEF Credit
  <2>. QED
    BY <1>1, <2>1, <2>2, CreditKept DEF SpendInv
<1>2. ASSUME NEW h, NEW r, Enact(h, r) PROVE SpendInv'
  <2>1. /\ statutes' = [statutes EXCEPT ![h] = @ \cup {r}]
        /\ UNCHANGED <<charter, armed, sitting, tokens>>
    BY <1>2 DEF Enact
  <2>2. statutes[Org] \subseteq statutes'[Org] /\ statutes' = [k \in Org..MaxSites |-> statutes'[k]]
    <3>1. Org \in Org..MaxSites
      BY CharterAssumption DEF Org
    <3>. QED
      BY <1>0, <2>1, <3>1 DEF SpendTypes
  <2>3. SpendTypes'
    BY <1>0, <2>1, <2>2 DEF SpendTypes
  <2>4. Credit' = Credit
    BY <2>1 DEF Credit
  <2>. QED
    BY <2>1, <2>3, <2>4, CreditKept DEF SpendInv
<1>3. ASSUME NEW p, NEW post, Sprout(p, post) PROVE SpendInv'
  BY <1>1, <1>3 DEF Sprout
<1>4. ASSUME NEW n, Fell(n) PROVE SpendInv'
  BY <1>1, <1>4 DEF Fell
<1>5. ASSUME NEW j \in Judges, NEW n, Sits(j, n), Capped => tokens < TokenCap,
             UNCHANGED <<charter, statutes, armed, tokens>>
      PROVE  SpendInv'
  <2>. DEFINE frame == [at |-> "thinks", site |-> n, verify |-> Standing(n, "verify") # {},
                        attempt |-> 1, thinks |-> 1, law |-> Answerable(n)]
  <2>1. sitting' = [i \in Judges |-> IF i = j THEN frame ELSE sitting[i]]
    BY <1>0, <1>5 DEF Sits
  <2>2. frame.at = "thinks" /\ frame.attempt = 1 /\ 1 \in 1..MaxTries
    BY CharterAssumption
  <2>. HIDE DEF frame
  <2>3. SpendTypes'
    BY <1>0, <1>5, <2>1, <2>2 DEF SpendTypes
  <2>4. ASSUME Capped' PROVE tokens' < TokenCap
    BY <1>5, <2>4 DEF Capped
  <2>5. Capped' => CreditInv'
    <3>1. (SpendTypes /\ tokens < TokenCap => CreditInv)'
      BY BelowCap, PTL
    <3>. QED
      BY <2>3, <2>4, <3>1
  <2>6. ~Capped' => CreditInv'
    BY DEF CreditInv
  <2>. QED
    BY <2>3, <2>5, <2>6 DEF SpendInv
<1>6. ASSUME NEW j \in Judges, NEW n, NEW prompt, NEW task, Opens(j, n, prompt, task) PROVE SpendInv'
  <2>1. UNCHANGED <<charter, statutes, armed, tokens>>
    BY <1>6 DEF Opens
  <2>2. CASE Sits(j, n)
    BY <1>5, <1>6, <2>1, <2>2, OpensBelow
  <2>3. CASE UNCHANGED sitting
    BY <1>1, <2>1, <2>3
  <2>. QED
    BY <1>6, <2>2, <2>3 DEF Opens
<1>7. ASSUME NEW j \in Judges, NEW n, OpensLoop(j, n) PROVE SpendInv'
  BY <1>5, <1>7 DEF OpensLoop, Capped
<1>8. ASSUME NEW j \in Judges, NEW text, NEW cost \in TokenCosts, Replies(j, text, cost)
      PROVE  SpendInv'
  <2>1. /\ tokens' = tokens + cost /\ sitting[j].at = "thinks"
        /\ UNCHANGED <<charter, statutes, armed>>
    BY <1>8 DEF Replies
  <2>2. /\ sitting[j].attempt \in 1..MaxTries
        /\ \/ Rises(j)
           \/ /\ sitting[j].attempt # MaxTries
              /\ sitting' = [sitting EXCEPT ![j].attempt = @ + 1, ![j].thinks = @ + 1]
    BY <1>0, <1>8, <2>1 DEF Replies, Judged, ThinksAgain, SpendTypes
  <2>3. PICK frame : /\ sitting' = [i \in Judges |-> IF i = j THEN frame ELSE sitting[i]]
                     /\ \/ frame.at = "off"
                        \/ /\ frame.at = "thinks" /\ frame.attempt = sitting[j].attempt + 1
                           /\ frame.attempt \in 1..MaxTries
    <3>1. CASE Rises(j)
      <4>1. sitting' = [i \in Judges |-> IF i = j THEN NoSitting ELSE sitting[i]]
        BY <1>0, <3>1 DEF Rises
      <4>. QED
        BY <4>1 DEF NoSitting
    <3>2. CASE /\ sitting[j].attempt # MaxTries
               /\ sitting' = [sitting EXCEPT ![j].attempt = @ + 1, ![j].thinks = @ + 1]
      <4>. DEFINE anew == [x \in FrameFields |->
                      IF x \in {"attempt", "thinks"} THEN sitting[j][x] + 1 ELSE sitting[j][x]]
      <4>1. sitting' = [i \in Judges |-> IF i = j THEN anew ELSE sitting[i]]
        BY <1>0, <3>2 DEF FrameFields
      <4>2. anew.at = "thinks" /\ anew.attempt = sitting[j].attempt + 1
        BY <2>1 DEF FrameFields
      <4>3. sitting[j].attempt + 1 \in 1..MaxTries
        BY <2>2, <3>2, CharterAssumption
      <4>. HIDE DEF anew
      <4>. QED
        BY <4>1, <4>2, <4>3
    <3>. QED
      BY <2>2, <3>1, <3>2
  <2>4. SpendTypes'
    <3>1. tokens' \in Nat
      BY <1>0, <2>1, CharterAssumption DEF SpendTypes
    <3>2. \A i \in Judges : /\ sitting'[i].at \in {"off", "thinks"}
                            /\ sitting'[i].at = "thinks" => sitting'[i].attempt \in 1..MaxTries
      BY <1>0, <2>3 DEF SpendTypes
    <3>. QED
      BY <1>0, <2>1, <3>1, <3>2 DEF SpendTypes
  <2>5. PICK a \in 1..MaxTries : a = sitting[j].attempt
    BY <2>2
  <2>6. <<j, a>> \in Credit
    BY <2>1, <2>5 DEF Credit
  <2>7. Credit' \subseteq Credit \ {<<j, a>>}
    <3>. SUFFICES ASSUME NEW i \in Judges, NEW k \in 1..MaxTries,
                         sitting'[i].at = "thinks", sitting'[i].attempt <= k
                  PROVE  sitting[i].at = "thinks" /\ sitting[i].attempt <= k /\ (i # j \/ k # a)
      BY DEF Credit
    <3>1. CASE i # j
      BY <2>3, <3>1
    <3>2. CASE i = j
      <4>1. a + 1 <= k
        BY <2>3, <2>5, <3>2
      <4>. QED
        BY <2>1, <2>5, <3>2, <4>1
    <3>. QED
      BY <3>1, <3>2
  <2>. QED
    BY <2>1, <2>4, <2>6, <2>7, CreditPaid DEF SpendInv
<1>9. ASSUME NEW j \in Judges, NEW cost \in TokenCosts, AsksTools(j, cost) PROVE SpendInv'
  <2>1. /\ armed # {} /\ tokens' = tokens + cost /\ sitting[j].at = "thinks"
        /\ UNCHANGED <<charter, statutes, armed>>
        /\ sitting' = [sitting EXCEPT ![j].thinks = @ + 1] \/ Rises(j)
    BY <1>9 DEF AsksTools
  <2>2. PICK frame : /\ sitting' = [i \in Judges |-> IF i = j THEN frame ELSE sitting[i]]
                     /\ \/ frame.at = "off"
                        \/ frame.at = "thinks" /\ frame.attempt = sitting[j].attempt
    <3>1. CASE Rises(j)
      <4>1. sitting' = [i \in Judges |-> IF i = j THEN NoSitting ELSE sitting[i]]
        BY <1>0, <3>1 DEF Rises
      <4>. QED
        BY <4>1 DEF NoSitting
    <3>2. CASE sitting' = [sitting EXCEPT ![j].thinks = @ + 1]
      <4>. DEFINE once == [x \in FrameFields |->
                             IF x = "thinks" THEN sitting[j].thinks + 1 ELSE sitting[j][x]]
      <4>1. sitting' = [i \in Judges |-> IF i = j THEN once ELSE sitting[i]]
        BY <1>0, <3>2 DEF FrameFields
      <4>2. once.at = "thinks" /\ once.attempt = sitting[j].attempt
        BY <2>1 DEF FrameFields
      <4>. HIDE DEF once
      <4>. QED
        BY <4>1, <4>2
    <3>. QED
      BY <2>1, <3>1, <3>2
  <2>3. tokens' \in Nat
    BY <1>0, <2>1, CharterAssumption DEF SpendTypes
  <2>4. \A i \in Judges : /\ sitting'[i].at \in {"off", "thinks"}
                          /\ sitting'[i].at = "thinks" => sitting'[i].attempt \in 1..MaxTries
    BY <1>0, <2>1, <2>2 DEF SpendTypes
  <2>5. SpendTypes'
    BY <1>0, <2>1, <2>3, <2>4 DEF SpendTypes
  <2>6. ~Capped'
    BY <2>1 DEF Capped
  <2>. QED
    BY <2>5, <2>6 DEF SpendInv, CreditInv
<1>10. CASE UNCHANGED charterVars
  BY <1>1, <1>10 DEF charterVars
<1>. QED
  BY <1>2, <1>3, <1>4, <1>6, <1>7, <1>8, <1>9, <1>10 DEF CharterNext

LEMMA SpendInit == ASSUME CharterInit PROVE SpendInv
<1>1. /\ tokens = 0 /\ sitting = [j \in Judges |-> NoSitting]
      /\ statutes = [h \in Org..MaxSites |-> IF h = Org THEN charter ELSE {}]
  BY DEF CharterInit
<1>2. Org \in Org..MaxSites
  BY CharterAssumption DEF Org
<1>3. NoSitting.at = "off"
  BY DEF NoSitting
<1>4. SpendTypes
  BY <1>1, <1>2, <1>3 DEF SpendTypes
<1>5. Credit = {}
  BY <1>1, <1>3 DEF Credit
<1>. QED
  BY <1>1, <1>4, <1>5 DEF SpendInv, CreditInv

\* Where the org has had a hard max_tokens rule from the start and no node has
\* tools, what is spent beyond the cap is what the turns that were at work when
\* it was reached could still answer (max_tokens, Agent.act): for any number of
\* agents, attempts and costs.
THEOREM OverspendBoundedHolds == CharterSpec => []OverspendBounded
<1>1. SpendInv => OverspendBounded
  <2>. SUFFICES ASSUME SpendInv, Capped, tokens > 0, NEW cost \in TokenCosts, Dearest(cost)
                PROVE  tokens < TokenCap + Cardinality(Judges) * MaxTries * cost
    BY DEF OverspendBounded, Capped, CapRule, Dearest
  <2>1. tokens + cost * Cardinality(Credit) < Bound(cost)
    BY DEF SpendInv, CreditInv
  <2>2. tokens \in Nat
    BY DEF SpendInv, SpendTypes
  <2>3. PICK K \in Nat : K = Cardinality(Judges) * MaxTries
    BY CreditMost
  <2>4. cost \in Nat /\ TokenCap \in Nat /\ cost * Cardinality(Credit) \in Nat /\ cost * K \in Nat
    BY <2>3, BoundNumbers
  <2>5. tokens < TokenCap + cost * K
    BY <2>1, <2>2, <2>3, <2>4 DEF Bound
  <2>6. cost * K = K * cost
    BY <2>4
  <2>. QED
    BY <2>3, <2>5, <2>6
<1>2. CharterInit => SpendInv
  BY SpendInit
<1>3. LawInv /\ SpendInv /\ [CharterNext]_charterVars => SpendInv'
  BY SpendStep
<1>. QED
  BY <1>1, <1>2, <1>3, LawInvHolds, PTL DEF CharterSpec

-------------------------------------------------------------------------------
(* Unique roles.                                                             *)
(*                                                                           *)
(* A parent comes before its children, so every node has a path.  Paths are  *)
(* cut when a branch is pruned, and nothing is added to them: a node that    *)
(* was not below another one never comes to be.                              *)

\* A set of numbers has a least one: the intervals up to them are well founded.
LEMMA LeastNumber ==
  ASSUME NEW S, S \subseteq Nat, S # {}
  PROVE  \E m \in S : \A k \in S : m <= k
<1>. DEFINE T == {1..k : k \in S}
<1>1. IsWellFoundedOn(StrictSubsetOrdering(Nat), FiniteSubsetsOf(Nat))
  BY FS_StrictSubsetOrderingWellFounded
<1>2. T \subseteq FiniteSubsetsOf(Nat)
  <2>1. \A k \in S : 1..k \subseteq Nat /\ IsFiniteSet(1..k)
    BY FS_Interval
  <2>. QED
    BY <2>1 DEF FiniteSubsetsOf
<1>3. T # {}
  OBVIOUS
<1>. HIDE DEF T
<1>4. PICK x \in T : \A y \in T : ~(<<y, x>> \in StrictSubsetOrdering(Nat))
  BY <1>1, <1>2, <1>3, WFMin
<1>5. PICK m \in S : x = 1..m
  BY DEF T
<1>6. ASSUME NEW k \in S, k < m PROVE FALSE
  <2>1. /\ 1..k \in T /\ 1..k \subseteq 1..m /\ m \notin 1..k /\ m \in 1..m
        /\ 1..k \subseteq Nat /\ 1..m \subseteq Nat
    BY <1>6 DEF T
  <2>2. <<1..k, 1..m>> \in StrictSubsetOrdering(Nat)
    BY <2>1 DEF StrictSubsetOrdering
  <2>. QED
    BY <1>4, <1>5, <2>1, <2>2
<1>. QED
  BY <1>6

\* So what each number hands on to the next one reaches them all.
LEMMA NumbersInSet ==
  ASSUME NEW S, 0 \in S, \A n \in Nat : n \in S => n + 1 \in S
  PROVE  Nat \subseteq S
<1>1. SUFFICES ASSUME Nat \ S # {} PROVE FALSE
  OBVIOUS
<1>2. PICK m \in Nat \ S : \A k \in Nat \ S : m <= k
  BY <1>1, LeastNumber
<1>3. m - 1 \in Nat /\ m - 1 < m
  BY <1>2
<1>4. m - 1 \in S /\ (m - 1) + 1 = m
  BY <1>2, <1>3
<1>. QED
  BY <1>2, <1>3, <1>4

\* A parent comes before its children.
Rooted(ss) ==
  /\ Len(ss) \in Nat /\ DOMAIN ss = 1..Len(ss)
  /\ \A m \in 1..Len(ss) : ss[m].up \in Nat /\ ss[m].up < m

\* The equation of Paths has a solution, built from the first node on.
LEMMA PathsSolved ==
  ASSUME NEW ss, Rooted(ss)
  PROVE  Paths(ss) = [m \in DOMAIN ss |-> {m} \cup IF ss[m].up = Org THEN {} ELSE Paths(ss)[ss[m].up]]
<1>. DEFINE Solves(p, n) == p = [m \in 1..n |-> {m} \cup IF ss[m].up = Org THEN {} ELSE p[ss[m].up]]
            S == {n \in Nat : n <= Len(ss) => \E p : Solves(p, n)}
<1>0. Len(ss) \in Nat /\ DOMAIN ss = 1..Len(ss)
      /\ \A m \in 1..Len(ss) : ss[m].up \in Nat /\ ss[m].up < m
  BY DEF Rooted
<1>1. 0 \in S
  <2>1. Solves([m \in 1..0 |-> {}], 0)
    OBVIOUS
  <2>. QED
    BY <2>1
<1>2. ASSUME NEW n \in Nat, n \in S PROVE n + 1 \in S
  <2>. SUFFICES ASSUME n + 1 <= Len(ss) PROVE \E p : Solves(p, n + 1)
    OBVIOUS
  <2>1. PICK p : Solves(p, n)
    BY <1>2, <1>0
  <2>. DEFINE l == n + 1
              q == [m \in 1..l |-> IF m = l THEN {l} \cup IF ss[l].up = Org THEN {} ELSE p[ss[l].up]
                                   ELSE p[m]]
  <2>2. \A m \in 1..l : ss[m].up \in Nat /\ ss[m].up < m
    BY <1>0
  <2>3. \A m \in 1..l : m # l => m \in 1..n /\ q[m] = p[m]
    OBVIOUS
  <2>4. \A m \in 1..l : ss[m].up # Org => ss[m].up \in 1..n /\ ss[m].up \in 1..l /\ ss[m].up # l
    BY <2>2 DEF Org
  <2>5. \A m \in 1..l : ss[m].up # Org => q[ss[m].up] = p[ss[m].up]
    BY <2>3, <2>4
  <2>6. \A m \in 1..n : p[m] = {m} \cup IF ss[m].up = Org THEN {} ELSE p[ss[m].up]
    BY <2>1
  <2>7. \A m \in 1..l : q[m] = {m} \cup IF ss[m].up = Org THEN {} ELSE q[ss[m].up]
    <3>. TAKE m \in 1..l
    <3>1. CASE m = l
      BY <3>1, <2>5
    <3>2. CASE m # l
      BY <3>2, <2>3, <2>5, <2>6
    <3>. QED
      BY <3>1, <3>2
  <2>8. DOMAIN q = 1..l /\ q = [m \in 1..l |-> q[m]]
    OBVIOUS
  <2>. HIDE DEF q
  <2>9. Solves(q, l)
    BY <2>7, <2>8
  <2>. QED
    BY <2>9
<1>. HIDE DEF S
<1>3. Nat \subseteq S
  BY <1>1, <1>2, NumbersInSet
<1>4. \E p : Solves(p, Len(ss))
  <2>1. Len(ss) \in S
    BY <1>0, <1>3
  <2>. QED
    BY <1>0, <2>1 DEF S
<1>5. \E p : p = [m \in DOMAIN ss |-> {m} \cup IF ss[m].up = Org THEN {} ELSE p[ss[m].up]]
  BY <1>0, <1>4
<1>. QED
  BY <1>5, Zenon DEF Paths

LEMMA PathOf ==
  ASSUME NEW ss, Rooted(ss), NEW m \in DOMAIN ss
  PROVE  /\ ss[m].up = Org => Paths(ss)[m] = {m}
         /\ ss[m].up # Org => /\ ss[m].up \in DOMAIN ss /\ ss[m].up < m
                              /\ Paths(ss)[m] = {m} \cup Paths(ss)[ss[m].up]
<1>1. DOMAIN ss = 1..Len(ss) /\ ss[m].up \in Nat /\ ss[m].up < m /\ Len(ss) \in Nat
  BY DEF Rooted
<1>2. Paths(ss)[m] = {m} \cup IF ss[m].up = Org THEN {} ELSE Paths(ss)[ss[m].up]
  BY PathsSolved
<1>3. ss[m].up # Org => ss[m].up \in DOMAIN ss
  BY <1>1 DEF Org
<1>. QED
  BY <1>1, <1>2, <1>3

\* Where nodes join, or lose their parents, no path grows.
LEMMA PathsShrink ==
  ASSUME NEW ss, NEW tt, Rooted(ss), Rooted(tt), DOMAIN ss \subseteq DOMAIN tt,
         \A m \in DOMAIN ss : tt[m].up \in {ss[m].up, Org}
  PROVE  \A m \in DOMAIN ss : Paths(tt)[m] \subseteq Paths(ss)[m]
<1>. DEFINE S == {m \in DOMAIN ss : ~(Paths(tt)[m] \subseteq Paths(ss)[m])}
<1>1. SUFFICES ASSUME S # {} PROVE FALSE
  OBVIOUS
<1>2. S \subseteq Nat /\ DOMAIN ss \subseteq Nat
  BY DEF Rooted
<1>3. PICK m \in S : \A k \in S : m <= k
  BY <1>1, <1>2, LeastNumber
<1>4. m \in DOMAIN ss /\ m \in DOMAIN tt /\ tt[m].up \in {ss[m].up, Org}
  OBVIOUS
<1>5. CASE tt[m].up = Org
  <2>1. Paths(tt)[m] = {m}
    BY <1>4, <1>5, PathOf
  <2>2. m \in Paths(ss)[m]
    BY <1>4, PathOf
  <2>. QED
    BY <2>1, <2>2
<1>6. CASE tt[m].up # Org
  <2>. DEFINE u == ss[m].up
  <2>1. tt[m].up = u /\ u # Org
    BY <1>4, <1>6
  <2>2. u \in DOMAIN ss /\ u < m /\ Paths(ss)[m] = {m} \cup Paths(ss)[u]
    BY <1>4, <2>1, PathOf
  <2>3. Paths(tt)[m] = {m} \cup Paths(tt)[u]
    BY <1>4, <2>1, PathOf
  <2>4. u \notin S
    <3>1. u \in Nat /\ m \in Nat
      BY <1>2, <1>4, <2>2
    <3>. QED
      BY <1>3, <2>2, <3>1
  <2>. QED
    BY <2>2, <2>3, <2>4
<1>. QED
  BY <1>5, <1>6

SiteFields == {"name", "role", "task", "up", "alive", "law"}

RoleInv ==
  /\ \E S : sites \in Seq(S)
  /\ \A m \in Sites : /\ sites[m].up \in Nat /\ sites[m].up < m
                      /\ sites[m] = [x \in SiteFields |-> sites[m][x]]
  /\ RoleKept

LEMMA SitesRooted == ASSUME RoleInv PROVE Rooted(sites) /\ Sites = 1..Len(sites) /\ Len(sites) \in Nat
<1>1. PICK S : sites \in Seq(S)
  BY DEF RoleInv
<1>2. DOMAIN sites = 1..Len(sites) /\ Len(sites) \in Nat
  BY <1>1
<1>. QED
  BY <1>2 DEF RoleInv, Rooted, Sites

ScarceRule == [kind |-> "unique_role_in_subtree", severity |-> "hard"]

\* A node that is spawned where the role is unique is the first of it there.
LEMMA FirstOfRole ==
  ASSUME NEW p, NEW post, Allowed(p, post), ScarceRule \in Standing(p, "spawn"),
         post.role = ScarceRole
  PROVE  \A m \in Sites : sites[m].role = ScarceRole => p \notin Path(m)
<1>. DEFINE c == [parent |-> p, child_name |-> post.name, depth |-> SiteDepth(p) + 1,
                  role |-> post.role, task_text |-> post.task]
<1>1. ScarceRule.kind = "unique_role_in_subtree" /\ ScarceRule.severity = "hard"
  BY DEF ScarceRule
<1>2. Hard(Broken(Standing(p, "spawn"), c)) = {}
  BY DEF Allowed
<1>3. Upholds(ScarceRule, c)
  BY <1>1, <1>2 DEF Hard, Broken
<1>4. UniqueRoleInSubtree(c)
  BY <1>1, <1>3 DEF Upholds
<1>5. c.role = ScarceRole /\ c.parent = p
  OBVIOUS
<1>. HIDE DEF c
<1>. QED
  BY <1>4, <1>5 DEF UniqueRoleInSubtree, Subtree

LEMMA SproutKeeps ==
  ASSUME RoleInv, NEW p \in Sites, NEW post, Sprout(p, post)
  PROVE  RoleInv'
<1>0. Rooted(sites) /\ Sites = 1..Len(sites) /\ Len(sites) \in Nat
  BY SitesRooted
<1>. DEFINE new == [name |-> post.name, role |-> post.role, task |-> post.task, up |-> p,
                    alive |-> TRUE, law |-> Standing(p, "spawn")]
<1>1. sites' = Append(sites, new) /\ Allowed(p, post)
  BY DEF Sprout
<1>2. /\ new.up = p /\ new.role = post.role /\ new.law = Standing(p, "spawn")
      /\ new = [x \in SiteFields |-> new[x]]
  BY DEF SiteFields
<1>3. PICK n : n = Len(sites) + 1
  OBVIOUS
<1>. HIDE DEF new
<1>4. PICK S : sites \in Seq(S)
  BY DEF RoleInv
<1>5. /\ \E T : sites' \in Seq(T)
      /\ Len(sites') = n /\ DOMAIN sites' = 1..n /\ sites'[n] = new
      /\ \A m \in 1..Len(sites) : sites'[m] = sites[m]
  <2>1. sites \in Seq(S \cup {new}) /\ new \in S \cup {new}
    BY <1>4
  <2>. QED
    BY <1>1, <1>3, <2>1
<1>6. /\ n \in Nat /\ p \in Nat /\ p < n /\ n \notin Sites
      /\ \A m \in 1..n : m \in Sites \/ m = n
      /\ Sites \subseteq 1..n
  BY <1>0, <1>3
<1>7. \A m \in Sites : /\ sites[m].up \in Nat /\ sites[m].up < m
                       /\ sites[m] = [x \in SiteFields |-> sites[m][x]]
  BY DEF RoleInv
<1>8. \A m \in 1..n : /\ sites'[m].up \in Nat /\ sites'[m].up < m
                      /\ sites'[m] = [x \in SiteFields |-> sites'[m][x]]
  <2>. TAKE m \in 1..n
  <2>1. CASE m = n
    BY <1>2, <1>5, <1>6, <2>1
  <2>2. CASE m # n
    <3>1. m \in Sites /\ sites'[m] = sites[m]
      BY <1>0, <1>5, <1>6, <2>2
    <3>. QED
      BY <1>7, <3>1
  <2>. QED
    BY <2>1, <2>2
<1>9. Rooted(sites')
  BY <1>5, <1>6, <1>8 DEF Rooted
<1>10. \A m \in Sites : Path(m)' \subseteq Path(m)
  <2>1. DOMAIN sites \subseteq DOMAIN sites' /\ \A m \in DOMAIN sites : sites'[m].up \in {sites[m].up, Org}
    BY <1>0, <1>5, <1>6 DEF Sites
  <2>. DEFINE tt == sites'
  <2>2. Rooted(tt) /\ DOMAIN sites \subseteq DOMAIN tt /\ \A m \in DOMAIN sites : tt[m].up \in {sites[m].up, Org}
    BY <1>9, <2>1
  <2>. HIDE DEF tt
  <2>3. \A m \in DOMAIN sites : Paths(tt)[m] \subseteq Paths(sites)[m]
    BY <1>0, <2>2, PathsShrink
  <2>. QED
    BY <2>3 DEF tt, Path, Sites
<1>11. RoleKept'
  <2>. SUFFICES ASSUME NEW x \in 1..n, NEW y \in 1..n, x < y, sites'[x].alive, sites'[y].alive,
                       sites'[x].role = ScarceRole, sites'[y].role = ScarceRole,
                       ScarceRule \in sites'[y].law
                PROVE  sites'[y].up \notin Path(x)'
    BY <1>5 DEF RoleKept, ScarceRule, Sites
  <2>1. x \in Sites
    BY <1>6
  <2>2. CASE y = n
    BY <1>0, <1>1, <1>2, <1>5, <1>10, <2>1, <2>2, FirstOfRole
  <2>3. CASE y # n
    <3>1. y \in Sites
      BY <1>6, <2>3
    <3>2. sites[y].up \notin Path(x)
      BY <1>0, <1>5, <2>1, <3>1 DEF RoleInv, RoleKept, ScarceRule
    <3>. QED
      BY <1>0, <1>5, <1>10, <2>1, <3>1, <3>2
  <2>. QED
    BY <2>2, <2>3
<1>12. Sites' = 1..n
  BY <1>5 DEF Sites
<1>. QED
  BY <1>5, <1>8, <1>11, <1>12 DEF RoleInv

LEMMA FellKeeps ==
  ASSUME RoleInv, NEW n \in Sites, Fell(n)
  PROVE  RoleInv'
<1>0. Rooted(sites) /\ Sites = 1..Len(sites) /\ Len(sites) \in Nat
  BY SitesRooted
<1>1. sites' = [m \in Sites |->
                 IF m = n THEN [sites[m] EXCEPT !.alive = FALSE, !.up = Org]
                 ELSE IF m \in Subtree(n) THEN [sites[m] EXCEPT !.alive = FALSE] ELSE sites[m]]
  BY DEF Fell
<1>2. PICK N \in Nat : N = Len(sites)
  BY <1>0
<1>3. DOMAIN sites' = 1..N /\ Sites' = 1..N
  BY <1>0, <1>1, <1>2 DEF Sites
<1>4. \E T : sites' \in Seq(T)
  <2>1. sites' = [m \in 1..N |-> sites'[m]]
    BY <1>0, <1>1, <1>2
  <2>2. sites' \in Seq({sites'[m] : m \in 1..N})
    BY <2>1
  <2>. QED
    BY <2>2
<1>5. ASSUME NEW m \in Sites
      PROVE  /\ sites'[m] = [x \in SiteFields |-> sites'[m][x]]
             /\ sites'[m].up \in {sites[m].up, Org}
             /\ sites'[m].alive => sites'[m] = sites[m]
  <2>1. sites[m] = [x \in SiteFields |-> sites[m][x]]
    BY DEF RoleInv
  <2>2. CASE m = n
    BY <1>1, <2>1, <2>2 DEF SiteFields
  <2>3. CASE m # n /\ m \in Subtree(n)
    BY <1>1, <2>1, <2>3 DEF SiteFields
  <2>4. CASE m # n /\ m \notin Subtree(n)
    BY <1>1, <2>1, <2>4
  <2>. QED
    BY <2>2, <2>3, <2>4
<1>6. \A m \in 1..N : sites'[m].up \in Nat /\ sites'[m].up < m
  <2>1. ASSUME NEW m \in Sites PROVE sites'[m].up \in Nat /\ sites'[m].up < m
    <3>1. m \in Nat \ {0} /\ sites[m].up \in Nat /\ sites[m].up < m
      <4>1. m \in 1..Len(sites)
        BY <1>0
      <4>. QED
        BY <1>0, <4>1 DEF Rooted
    <3>2. sites'[m].up = sites[m].up \/ sites'[m].up = 0
      BY <1>5 DEF Org
    <3>. QED
      BY <3>1, <3>2
  <2>. QED
    BY <1>0, <1>2, <2>1
<1>7. Len(sites') = N
  BY <1>2, <1>3, <1>4
<1>8. Rooted(sites')
  BY <1>3, <1>6, <1>7 DEF Rooted
<1>9. \A m \in Sites : Path(m)' \subseteq Path(m)
  <2>. DEFINE tt == sites'
  <2>1. Rooted(tt) /\ DOMAIN sites \subseteq DOMAIN tt /\ \A m \in DOMAIN sites : tt[m].up \in {sites[m].up, Org}
    BY <1>0, <1>2, <1>3, <1>5, <1>8 DEF Sites
  <2>. HIDE DEF tt
  <2>2. \A m \in DOMAIN sites : Paths(tt)[m] \subseteq Paths(sites)[m]
    BY <1>0, <2>1, PathsShrink
  <2>. QED
    BY <2>2 DEF tt, Path, Sites
<1>10. RoleKept'
  <2>. SUFFICES ASSUME NEW x \in Sites, NEW y \in Sites, x < y, sites'[x].alive, sites'[y].alive,
                       sites'[x].role = ScarceRole, sites'[y].role = ScarceRole,
                       ScarceRule \in sites'[y].law
                PROVE  sites'[y].up \notin Path(x)'
    BY <1>0, <1>2, <1>3 DEF RoleKept, ScarceRule
  <2>1. sites'[x] = sites[x] /\ sites'[y] = sites[y]
    BY <1>5
  <2>2. sites[y].up \notin Path(x)
    BY <2>1 DEF RoleInv, RoleKept, ScarceRule
  <2>. QED
    BY <1>9, <2>1, <2>2
<1>. QED
  BY <1>0, <1>2, <1>3, <1>4, <1>5, <1>6, <1>10 DEF RoleInv

LEMMA RoleStep == ASSUME RoleInv, [CharterNext]_charterVars PROVE RoleInv'
<1>1. ASSUME sites' = sites PROVE RoleInv'
  BY <1>1 DEF RoleInv, RoleKept, Sites, Path
<1>2. ASSUME NEW p \in Sites, NEW post, Sprout(p, post) PROVE RoleInv'
  BY <1>2, SproutKeeps
<1>3. ASSUME NEW n \in Sites, Fell(n) PROVE RoleInv'
  BY <1>3, FellKeeps
<1>4. ASSUME NEW h, NEW r, Enact(h, r) PROVE RoleInv'
  BY <1>1, <1>4 DEF Enact
<1>5. ASSUME NEW j, NEW n, NEW prompt, NEW task, Opens(j, n, prompt, task) \/ OpensLoop(j, n)
      PROVE RoleInv'
  BY <1>1, <1>5 DEF Opens, OpensLoop
<1>6. ASSUME NEW j, NEW cost, NEW text, Replies(j, text, cost) \/ AsksTools(j, cost) PROVE RoleInv'
  BY <1>1, <1>6 DEF Replies, AsksTools
<1>7. CASE UNCHANGED charterVars
  BY <1>1, <1>7 DEF charterVars
<1>. QED
  BY <1>2, <1>3, <1>4, <1>5, <1>6, <1>7 DEF CharterNext

LEMMA RoleInit == ASSUME CharterInit PROVE RoleInv
<1>. DEFINE trunk == [name |-> "root", role |-> "root", task |-> "", up |-> Org, alive |-> TRUE, law |-> {}]
<1>1. sites = <<trunk>>
  BY DEF CharterInit
<1>2. trunk.up = 0 /\ trunk = [x \in SiteFields |-> trunk[x]]
  BY DEF SiteFields, Org
<1>. HIDE DEF trunk
<1>3. sites \in Seq({trunk}) /\ DOMAIN sites = {1} /\ sites[1] = trunk
  BY <1>1
<1>. QED
  BY <1>2, <1>3 DEF RoleInv, RoleKept, Sites

\* A node spawned under a hard unique_role_in_subtree rule has no older node of
\* that role at or below its parent, whoever attached the rule and however the
\* tree has been cut since (rules.py, ConstitutionPolicy.allow).
THEOREM RoleKeptHolds == CharterSpec => []RoleKept
<1>1. RoleInv => RoleKept
  BY DEF RoleInv
<1>2. CharterInit => RoleInv
  BY RoleInit
<1>3. RoleInv /\ [CharterNext]_charterVars => RoleInv'
  BY RoleStep
<1>. QED
  BY <1>1, <1>2, <1>3, PTL DEF CharterSpec

(* Rules bind those who grow and those who answer: no second node of a      *)
(* scarce role below one, no spending past what was at work at the cap, no   *)
(* answer accepted against a rule (ConstitutionPolicy.allow, Agent.act).     *)
THEOREM CharterKeptHolds == CharterSpec => []CharterKept
<1>1. RoleKept /\ OverspendBounded /\ AnswersLawful => CharterKept
  BY DEF CharterKept
<1>. QED
  BY <1>1, RoleKeptHolds, OverspendBoundedHolds, AnswersLawfulHolds, PTL

-------------------------------------------------------------------------------
(* Colonies.                                                                 *)
(*                                                                           *)
(* A template that has not been planted is ahead in the walk, or its parent  *)
(* has not been planted either (Covered).  So when nothing is ahead, there   *)
(* is no first template that was left out.                                   *)

ColonySpec == ColonyInit /\ [][ColonyNext]_colonyVars

NodeFields == {"id", "template", "up", "call", "has", "loaded"}

\* What is right about the nodes of a tree, and stays so in its snapshot.
NodesKept(nodes) ==
  /\ \A a \in nodes :
       /\ a = [x \in NodeFields |-> a[x]]
       /\ a.template \in Templates /\ a.call \in 1..plants /\ a.id = <<a.call, a.template>>
       /\ \/ a.loaded = FALSE /\ a.has = Settings(a.template)
          \/ a.loaded = TRUE /\ a.has = JsonSafe(Settings(a.template))
       /\ IF Under[a.template] = 0 THEN a.up = RootId
          ELSE \E b \in nodes : b.id = a.up /\ b.template = Under[a.template] /\ b.call = a.call
       /\ a.call \in returned => \A i \in Templates : \E b \in nodes : b.template = i /\ b.call = a.call
  /\ \A a, b \in nodes : a.id = b.id => a = b

\* The call of plant under way has planted template i.
Stands(i) == \E a \in agents : a.template = i /\ a.call = plants

Covered ==
  \A i \in Templates :
    \/ Stands(i)
    \/ \E p \in toPlant : p[1] = i
    \/ Under[i] # 0 /\ ~Stands(Under[i])

\* What is ahead belongs where the walk will put it, and is put there once.
Ahead ==
  /\ \A p \in toPlant :
       /\ p[1] \in Templates /\ ~Stands(p[1])
       /\ IF Under[p[1]] = 0 THEN p[2] = RootId
          ELSE \E b \in agents : b.id = p[2] /\ b.template = Under[p[1]] /\ b.call = plants
  /\ \A p, q \in toPlant : p[1] = q[1] => p = q

WalkInv ==
  /\ plants \in Nat /\ returned \subseteq 1..plants
  /\ toPlant # {} =>
       /\ plants > 0 /\ plants \notin returned /\ \A a \in savedTree : a.call # plants
       /\ Covered /\ Ahead

\* There are nodes of a file without an error only.
FileInv ==
  registered \/ toPlant # {} \/ agents # {} \/ savedTree # {} =>
    \A i \in Templates : Parsed(i) # "error"

ColonyInv == NodesKept(agents) /\ NodesKept(savedTree) /\ WalkInv /\ FileInv

LEMMA TemplateFacts ==
  /\ Len(Under) \in Nat /\ Templates = 1..Len(Under)
  /\ \A i \in Templates : /\ i \in Nat \ {0} /\ Under[i] \in Nat /\ Under[i] < i
                          /\ Under[i] # 0 => Under[i] \in Templates
<1>1. Under \in Seq(Nat) /\ \A i \in Templates : Under[i] < i
  BY PlantingAssumption
<1>2. Len(Under) \in Nat /\ DOMAIN Under = 1..Len(Under) /\ \A i \in 1..Len(Under) : Under[i] \in Nat
  BY <1>1
<1>. QED
  BY <1>1, <1>2 DEF Templates

\* Where nothing is ahead of a walk that covered all, it has planted all.
LEMMA AllPlanted ==
  ASSUME NEW P, \A i \in Templates : i \in P \/ (Under[i] # 0 /\ Under[i] \notin P)
  PROVE  Templates \subseteq P
<1>1. SUFFICES ASSUME Templates \ P # {} PROVE FALSE
  OBVIOUS
<1>2. Templates \subseteq Nat
  BY TemplateFacts
<1>3. PICK m \in Templates \ P : \A k \in Templates \ P : m <= k
  BY <1>1, <1>2, LeastNumber
<1>4. Under[m] \in Templates \ P /\ Under[m] < m
  BY <1>3, TemplateFacts
<1>5. m <= Under[m] /\ m \in Nat /\ Under[m] \in Nat
  BY <1>2, <1>3, <1>4
<1>. QED
  BY <1>4, <1>5

\* The walk goes on with the templates below, each once, under the node made.
LEMMA ChildrenFacts ==
  ASSUME NEW i, NEW id
  PROVE  /\ \A p \in Children(i, id) :
              p[1] \in Templates /\ Under[p[1]] = i /\ p[2] = id /\ p = <<p[1], id>>
         /\ \A j \in Templates : Under[j] = i => \E p \in Children(i, id) : p[1] = j
<1>1. ASSUME NEW p \in Children(i, id)
      PROVE  p[1] \in Templates /\ Under[p[1]] = i /\ p[2] = id /\ p = <<p[1], id>>
  <2>1. PICK j \in Templates : Under[j] = i /\ p = <<j, id>>
    BY DEF Children
  <2>2. p[1] = j /\ p[2] = id
    BY <2>1
  <2>. QED
    BY <2>1, <2>2
<1>2. ASSUME NEW j \in Templates, Under[j] = i
      PROVE  \E p \in Children(i, id) : p[1] = j
  <2>1. <<j, id>> \in Children(i, id)
    BY <1>2 DEF Children
  <2>2. <<j, id>>[1] = j
    OBVIOUS
  <2>. QED
    BY <2>1, <2>2
<1>. QED
  BY <1>1, <1>2

\* The form of a value is in the file.
LEMMA SettingsStay ==
  ASSUME yaml' = yaml
  PROVE  \A i : Settings(i)' = Settings(i) /\ Parsed(i)' = Parsed(i)
BY DEF Settings, Parsed

\* A tree, or a snapshot, that a step leaves alone, or puts in place of another.
LEMMA NodesStay ==
  ASSUME NEW CONSTANT nodes, NodesKept(nodes), yaml' = yaml, plants \in Nat, plants' \in Nat,
         plants <= plants', \A a \in nodes : a.call \in returned' => a.call \in returned
  PROVE  NodesKept(nodes)'
<1>1. \A a \in nodes : a.call \in 1..plants'
  BY DEF NodesKept
<1>2. \A i : Settings(i)' = Settings(i)
  BY SettingsStay
<1>. QED
  BY <1>1, <1>2 DEF NodesKept

LEMMA NodesStayAs ==
  ASSUME ColonyInv, yaml' = yaml, UNCHANGED <<plants, returned>>
  PROVE  /\ agents' = agents => NodesKept(agents)'
         /\ agents' = savedTree => NodesKept(agents)'
         /\ savedTree' = savedTree => NodesKept(savedTree)'
<1>0. plants \in Nat /\ plants' = plants /\ plants <= plants /\ returned' = returned
  BY DEF ColonyInv, WalkInv
<1>1. PICK s : s = savedTree
  OBVIOUS
<1>2. PICK a : a = agents
  OBVIOUS
<1>3. NodesKept(s) /\ NodesKept(a)
  BY <1>1, <1>2 DEF ColonyInv
<1>4. NodesKept(s)'
  BY <1>0, <1>3, NodesStay
<1>5. NodesKept(a)'
  BY <1>0, <1>3, NodesStay
<1>6. ASSUME agents' = agents PROVE NodesKept(agents)'
  BY <1>2, <1>5, <1>6
<1>7. ASSUME agents' = savedTree PROVE NodesKept(agents)'
  BY <1>1, <1>4, <1>7
<1>8. ASSUME savedTree' = savedTree PROVE NodesKept(savedTree)'
  BY <1>1, <1>4, <1>8
<1>. QED
  BY <1>6, <1>7, <1>8

\* A step of no walk.
LEMMA StillKeeps ==
  ASSUME ColonyInv, yaml' = yaml, UNCHANGED <<plants, returned, savedTree>>, toPlant' = {},
         agents' = agents \/ agents' = savedTree \/ agents' = {},
         registered' => registered \/ \A i \in Templates : Parsed(i) # "error"
  PROVE  ColonyInv'
<1>1. NodesKept(agents)'
  <2>1. agents' = {} => NodesKept(agents)'
    BY DEF NodesKept
  <2>. QED
    BY <2>1, NodesStayAs
<1>2. NodesKept(savedTree)'
  BY NodesStayAs
<1>3. WalkInv'
  BY DEF ColonyInv, WalkInv
<1>4. FileInv'
  <2>1. \A i : Parsed(i)' = Parsed(i)
    BY SettingsStay
  <2>. QED
    BY <2>1 DEF ColonyInv, FileInv
<1>. QED
  BY <1>1, <1>2, <1>3, <1>4 DEF ColonyInv

\* A walk begins.
LEMMA PlantColonyKeeps == ASSUME ColonyInv, PlantColony PROVE ColonyInv'
<1>0. /\ plants \in Nat /\ plants' = plants + 1 /\ returned \subseteq 1..plants
      /\ toPlant' = Children(0, RootId) /\ registered
      /\ UNCHANGED <<yaml, registered, agents, returned, savedTree>>
  BY DEF ColonyInv, WalkInv, PlantColony
<1>1. NodesKept(agents)' /\ NodesKept(savedTree)'
  <2>1. PICK s : s = savedTree
    OBVIOUS
  <2>2. PICK a : a = agents
    OBVIOUS
  <2>3. NodesKept(s) /\ NodesKept(a) /\ plants + 1 \in Nat /\ plants <= plants + 1
    BY <1>0, <2>1, <2>2 DEF ColonyInv
  <2>4. NodesKept(s)'
    BY <1>0, <2>3, NodesStay
  <2>5. NodesKept(a)'
    BY <1>0, <2>3, NodesStay
  <2>. QED
    BY <1>0, <2>1, <2>2, <2>4, <2>5
<1>2. /\ \A a \in agents : a.call \in 1..plants
      /\ \A a \in savedTree : a.call \in 1..plants
  BY DEF ColonyInv, NodesKept
<1>3. plants + 1 \notin 1..plants /\ plants + 1 \in Nat /\ plants + 1 > 0
  BY <1>0
<1>4. \A i : ~Stands(i)'
  BY <1>0, <1>2, <1>3 DEF Stands
<1>5. \A i \in Templates : Under[i] = 0 => \E p \in toPlant' : p[1] = i
  BY <1>0, ChildrenFacts
<1>6. Covered'
  BY <1>4, <1>5 DEF Covered
<1>7. \A p \in toPlant' : p[1] \in Templates /\ Under[p[1]] = 0 /\ p[2] = RootId /\ p = <<p[1], RootId>>
  BY <1>0, ChildrenFacts
<1>8. Ahead'
  BY <1>4, <1>7 DEF Ahead
<1>9. WalkInv'
  <2>1. returned' \subseteq 1..plants'
    BY <1>0
  <2>. QED
    BY <1>0, <1>2, <1>3, <1>6, <1>8, <2>1 DEF WalkInv
<1>10. FileInv'
  <2>1. \A i : Parsed(i)' = Parsed(i)
    BY <1>0, SettingsStay
  <2>. QED
    BY <1>0, <2>1 DEF ColonyInv, FileInv
<1>. QED
  BY <1>1, <1>9, <1>10 DEF ColonyInv

\* A node is planted.
LEMMA PlantNodeKeeps == ASSUME ColonyInv, PlantNode PROVE ColonyInv'
<1>1. PICK next \in toPlant :
        /\ agents' = agents \cup {Stamped(next[1], NewId(next[1]), next[2])}
        /\ toPlant' = (toPlant \ {next}) \cup Children(next[1], NewId(next[1]))
        /\ returned' = IF toPlant' = {} THEN returned \cup {plants} ELSE returned
        /\ UNCHANGED <<yaml, registered, plants, savedTree>>
  BY DEF PlantNode
<1>. DEFINE i == next[1]
<1>n. PICK n : n = Stamped(i, NewId(i), next[2])
  OBVIOUS
<1>2. /\ plants \in Nat /\ returned \subseteq 1..plants /\ plants > 0 /\ plants \notin returned
      /\ \A a \in savedTree : a.call # plants
      /\ Covered /\ Ahead /\ toPlant # {} /\ plants \in 1..plants
  BY <1>1 DEF ColonyInv, WalkInv
<1>3. /\ n = [x \in NodeFields |-> n[x]]
      /\ n.id = <<plants, i>> /\ n.template = i /\ n.up = next[2] /\ n.call = plants
      /\ n.has = Settings(i) /\ n.loaded = FALSE
  BY <1>n DEF Stamped, NewId, NodeFields
<1>4. /\ i \in Templates /\ ~Stands(i)
      /\ IF Under[i] = 0 THEN next[2] = RootId
         ELSE \E b \in agents : b.id = next[2] /\ b.template = Under[i] /\ b.call = plants
  BY <1>1, <1>2 DEF Ahead
<1>5. agents' = agents \cup {n} /\ plants' = plants /\ yaml' = yaml /\ savedTree' = savedTree
  BY <1>1, <1>n
<1>6. \A j : Stands(j)' <=> Stands(j) \/ j = i
  BY <1>3, <1>5 DEF Stands
<1>7. \A p \in Children(i, NewId(i)) : /\ p[1] \in Templates /\ Under[p[1]] = i /\ p[2] = n.id
                                       /\ p = <<p[1], n.id>>
  BY <1>3, ChildrenFacts DEF NewId
<1>8. Covered'
  <2>1. \A j \in Templates : Under[j] = i => \E p \in toPlant' : p[1] = j
    BY <1>1, ChildrenFacts
  <2>2. \A p \in toPlant : p[1] # i => p \in toPlant'
    BY <1>1
  <2>. QED
    BY <1>2, <1>6, <2>1, <2>2 DEF Covered
<1>9. Ahead'
  <2>1. ASSUME NEW p \in Children(i, NewId(i))
        PROVE  p[1] \in Templates /\ ~Stands(p[1])' /\ p[1] # i
    <3>1. p[1] \in Templates /\ Under[p[1]] = i /\ i # 0 /\ Under[p[1]] < p[1] /\ p[1] \in Nat /\ i \in Nat
      BY <1>4, <1>7, TemplateFacts
    <3>2. p[1] # i
      BY <3>1
    <3>3. ~Stands(p[1])
      <4>1. ASSUME NEW a \in agents, a.template = p[1], a.call = plants PROVE FALSE
        <5>1. \E b \in agents : b.template = Under[p[1]] /\ b.call = a.call
          BY <3>1, <4>1 DEF ColonyInv, NodesKept
        <5>. QED
          BY <1>4, <3>1, <4>1, <5>1 DEF Stands
      <4>. QED
        BY <4>1 DEF Stands
    <3>. QED
      BY <1>6, <3>1, <3>2, <3>3
  <2>2. ASSUME NEW p \in toPlant, p # next
        PROVE  /\ p[1] \in Templates /\ ~Stands(p[1])' /\ Under[p[1]] # i
               /\ IF Under[p[1]] = 0 THEN p[2] = RootId
                  ELSE \E b \in agents : b.id = p[2] /\ b.template = Under[p[1]] /\ b.call = plants
    <3>1. /\ p[1] \in Templates /\ ~Stands(p[1]) /\ p[1] # i
          /\ IF Under[p[1]] = 0 THEN p[2] = RootId
             ELSE \E b \in agents : b.id = p[2] /\ b.template = Under[p[1]] /\ b.call = plants
      BY <1>1, <1>2, <2>2 DEF Ahead
    <3>2. Under[p[1]] # i
      <4>1. i # 0
        BY <1>4, TemplateFacts
      <4>. QED
        BY <1>4, <3>1, <4>1 DEF Stands
    <3>. QED
      BY <1>6, <3>1, <3>2
  <2>3. \A p \in toPlant' : p \in Children(i, NewId(i)) \/ (p \in toPlant /\ p # next)
    BY <1>1
  <2>4. i # 0
    BY <1>4, TemplateFacts
  <2>5. \A p \in toPlant' :
          /\ p[1] \in Templates /\ ~Stands(p[1])'
          /\ IF Under[p[1]] = 0 THEN p[2] = RootId
             ELSE \E b \in agents' : b.id = p[2] /\ b.template = Under[p[1]] /\ b.call = plants
    <3>. TAKE p \in toPlant'
    <3>1. CASE p \in Children(i, NewId(i))
      BY <1>3, <1>5, <1>7, <2>1, <2>4, <3>1
    <3>2. CASE p \in toPlant /\ p # next
      BY <1>5, <2>2, <3>2
    <3>. QED
      BY <2>3, <3>1, <3>2
  <2>6. \A p, q \in toPlant' : p[1] = q[1] => p = q
    <3>. SUFFICES ASSUME NEW p \in toPlant', NEW q \in toPlant', p[1] = q[1] PROVE p = q
      OBVIOUS
    <3>1. CASE p \in Children(i, NewId(i)) /\ q \in Children(i, NewId(i))
      BY <1>7, <3>1
    <3>2. CASE p \notin Children(i, NewId(i)) /\ q \notin Children(i, NewId(i))
      BY <1>2, <2>3, <3>2 DEF Ahead
    <3>3. CASE p \in Children(i, NewId(i)) /\ q \notin Children(i, NewId(i))
      BY <1>7, <2>2, <2>3, <3>3
    <3>4. CASE p \notin Children(i, NewId(i)) /\ q \in Children(i, NewId(i))
      BY <1>7, <2>2, <2>3, <3>4
    <3>. QED
      BY <3>1, <3>2, <3>3, <3>4
  <2>. QED
    BY <1>5, <2>5, <2>6 DEF Ahead
<1>10. toPlant' = {} => \A j \in Templates : Stands(j)'
  <2>. SUFFICES ASSUME toPlant' = {} PROVE \A j \in Templates : Stands(j)'
    OBVIOUS
  <2>1. PICK P : P = {j \in Templates : Stands(j)'}
    OBVIOUS
  <2>2. \A j \in Templates : Stands(j)' \/ (Under[j] # 0 /\ ~Stands(Under[j])')
    BY <1>8 DEF Covered
  <2>3. \A j \in Templates : j \in P \/ (Under[j] # 0 /\ Under[j] \notin P)
    BY <2>1, <2>2
  <2>4. Templates \subseteq P
    BY <2>3, AllPlanted
  <2>. QED
    BY <2>1, <2>4
<1>11. NodesKept(agents)'
  <2>1. \A j : Settings(j)' = Settings(j)
    BY <1>5, SettingsStay
  <2>2. ASSUME NEW a \in agents
        PROVE  /\ a = [x \in NodeFields |-> a[x]]
               /\ a.template \in Templates /\ a.call \in 1..plants /\ a.id = <<a.call, a.template>>
               /\ \/ a.loaded = FALSE /\ a.has = Settings(a.template)'
                  \/ a.loaded = TRUE /\ a.has = JsonSafe(Settings(a.template)')
               /\ IF Under[a.template] = 0 THEN a.up = RootId
                  ELSE \E b \in agents' : b.id = a.up /\ b.template = Under[a.template] /\ b.call = a.call
    BY <1>5, <2>1 DEF ColonyInv, NodesKept
  <2>3. /\ n.template \in Templates /\ n.call \in 1..plants /\ n.id = <<n.call, n.template>>
        /\ n.loaded = FALSE /\ n.has = Settings(n.template)'
        /\ IF Under[n.template] = 0 THEN n.up = RootId
           ELSE \E b \in agents' : b.id = n.up /\ b.template = Under[n.template] /\ b.call = n.call
    <3>1. n.template \in Templates /\ n.call \in 1..plants /\ n.id = <<n.call, n.template>>
      BY <1>2, <1>3, <1>4
    <3>2. n.loaded = FALSE /\ n.has = Settings(n.template)'
      BY <1>3, <2>1
    <3>3. IF Under[n.template] = 0 THEN n.up = RootId
          ELSE \E b \in agents' : b.id = n.up /\ b.template = Under[n.template] /\ b.call = n.call
      BY <1>3, <1>4, <1>5
    <3>. QED
      BY <3>1, <3>2, <3>3
  <2>4. ASSUME NEW a \in agents', a.call \in returned', NEW j \in Templates
        PROVE  \E b \in agents' : b.template = j /\ b.call = a.call
    <3>1. CASE a.call = plants
      <4>1. toPlant' = {}
        BY <1>1, <1>2, <2>4, <3>1
      <4>2. Stands(j)'
        BY <1>10, <4>1
      <4>. QED
        BY <1>5, <3>1, <4>2 DEF Stands
    <3>2. CASE a.call # plants
      <4>1. a \in agents /\ a.call \in returned
        BY <1>1, <1>3, <1>5, <2>4, <3>2
      <4>. QED
        BY <1>5, <4>1 DEF ColonyInv, NodesKept
    <3>. QED
      BY <3>1, <3>2
  <2>5. ASSUME NEW a \in agents, a.id = n.id PROVE FALSE
    <3>1. <<a.call, a.template>> = <<plants, i>>
      BY <1>3, <2>2, <2>5
    <3>2. a.call = plants /\ a.template = i
      BY <3>1
    <3>. QED
      BY <1>4, <3>2 DEF Stands
  <2>6. \A a, b \in agents' : a.id = b.id => a = b
    BY <1>5, <2>5 DEF ColonyInv, NodesKept
  <2>7. ASSUME NEW a \in agents'
        PROVE  /\ a = [x \in NodeFields |-> a[x]]
               /\ a.template \in Templates /\ a.call \in 1..plants' /\ a.id = <<a.call, a.template>>
               /\ \/ a.loaded = FALSE /\ a.has = Settings(a.template)'
                  \/ a.loaded = TRUE /\ a.has = JsonSafe(Settings(a.template)')
               /\ IF Under[a.template] = 0 THEN a.up = RootId
                  ELSE \E b \in agents' : b.id = a.up /\ b.template = Under[a.template] /\ b.call = a.call
    <3>1. CASE a \in agents
      BY <1>5, <2>2, <3>1
    <3>2. CASE a = n
      BY <1>3, <1>5, <2>3, <3>2
    <3>. QED
      BY <1>5, <3>1, <3>2
  <2>. QED
    BY <2>4, <2>6, <2>7 DEF NodesKept
<1>12. NodesKept(savedTree)'
  <2>1. PICK s : s = savedTree
    OBVIOUS
  <2>2. NodesKept(s) /\ plants <= plants /\ \A a \in s : a.call \in returned' => a.call \in returned
    BY <1>1, <1>2, <2>1 DEF ColonyInv
  <2>3. NodesKept(s)'
    BY <1>2, <1>5, <2>2, NodesStay
  <2>. QED
    BY <1>5, <2>1, <2>3
<1>13. WalkInv'
  <2>1. returned' \subseteq 1..plants'
    BY <1>1, <1>2
  <2>2. toPlant' # {} => plants \notin returned'
    BY <1>1, <1>2
  <2>. QED
    BY <1>2, <1>5, <1>8, <1>9, <2>1, <2>2 DEF WalkInv
<1>14. FileInv'
  <2>1. \A j : Parsed(j)' = Parsed(j)
    BY <1>5, SettingsStay
  <2>. QED
    BY <1>2, <2>1 DEF ColonyInv, FileInv
<1>. QED
  BY <1>11, <1>12, <1>13, <1>14 DEF ColonyInv

\* A snapshot is taken.
LEMMA SaveColonyKeeps == ASSUME ColonyInv, SaveColony PROVE ColonyInv'
<1>0. /\ toPlant = {} /\ agents # {} /\ savedTree' = {Record(a) : a \in agents}
      /\ UNCHANGED <<yaml, registered, agents, toPlant, plants, returned>>
  BY DEF SaveColony
<1>1. ASSUME NEW a \in agents
      PROVE  LET r == Record(a)
             IN  /\ r = [x \in NodeFields |-> r[x]]
                 /\ r.id = a.id /\ r.template = a.template /\ r.up = a.up /\ r.call = a.call
                 /\ r.has = JsonSafe(a.has) /\ r.loaded = TRUE
  <2>1. a = [x \in NodeFields |-> a[x]]
    BY DEF ColonyInv, NodesKept
  <2>2. PICK h : h = JsonSafe(a.has)
    OBVIOUS
  <2>3. Record(a) = [a EXCEPT !.has = h, !.loaded = TRUE]
    BY <2>2 DEF Record
  <2>4. PICK r : r = Record(a)
    OBVIOUS
  <2>5. /\ r = [x \in NodeFields |-> r[x]]
        /\ r.id = a.id /\ r.template = a.template /\ r.up = a.up /\ r.call = a.call
        /\ r.has = h /\ r.loaded = TRUE
    BY <2>1, <2>3, <2>4 DEF NodeFields
  <2>. QED
    BY <2>2, <2>4, <2>5
<1>2. \A S : JsonSafe(JsonSafe(S)) = JsonSafe(S)
  BY DEF JsonSafe
<1>3. \A j : Settings(j)' = Settings(j)
  BY <1>0, SettingsStay
<1>4. ASSUME NEW a \in agents, NEW r, r = Record(a)
      PROVE  /\ r = [x \in NodeFields |-> r[x]]
             /\ r.template \in Templates /\ r.call \in 1..plants /\ r.id = <<r.call, r.template>>
             /\ r.loaded = TRUE /\ r.has = JsonSafe(Settings(r.template)')
             /\ IF Under[r.template] = 0 THEN r.up = RootId
                ELSE \E b \in savedTree' : b.id = r.up /\ b.template = Under[r.template] /\ b.call = r.call
             /\ r.call \in returned =>
                  \A i \in Templates : \E b \in savedTree' : b.template = i /\ b.call = r.call
  <2>1. /\ r = [x \in NodeFields |-> r[x]]
        /\ r.id = a.id /\ r.template = a.template /\ r.up = a.up /\ r.call = a.call
        /\ r.has = JsonSafe(a.has) /\ r.loaded = TRUE
    BY <1>1, <1>4
  <2>2. /\ a.template \in Templates /\ a.call \in 1..plants /\ a.id = <<a.call, a.template>>
        /\ IF Under[a.template] = 0 THEN a.up = RootId
           ELSE \E b \in agents : b.id = a.up /\ b.template = Under[a.template] /\ b.call = a.call
        /\ a.call \in returned => \A i \in Templates : \E b \in agents : b.template = i /\ b.call = a.call
    BY DEF ColonyInv, NodesKept
  <2>3. JsonSafe(a.has) = JsonSafe(Settings(a.template))
    <3>1. a.has = Settings(a.template) \/ a.has = JsonSafe(Settings(a.template))
      BY DEF ColonyInv, NodesKept
    <3>. QED
      BY <1>2, <3>1
  <2>4. \A b \in agents : \E q \in savedTree' : q.id = b.id /\ q.template = b.template /\ q.call = b.call
    BY <1>0, <1>1
  <2>5. IF Under[r.template] = 0 THEN r.up = RootId
        ELSE \E b \in savedTree' : b.id = r.up /\ b.template = Under[r.template] /\ b.call = r.call
    BY <2>1, <2>2, <2>4
  <2>6. r.call \in returned =>
          \A i \in Templates : \E b \in savedTree' : b.template = i /\ b.call = r.call
    BY <2>1, <2>2, <2>4
  <2>. QED
    BY <1>3, <2>1, <2>2, <2>3, <2>5, <2>6
<1>5. \A r, q \in savedTree' : r.id = q.id => r = q
  <2>1. \A a, b \in agents : Record(a).id = Record(b).id => a = b
    <3>1. \A a \in agents : Record(a).id = a.id
      BY <1>1
    <3>2. \A a, b \in agents : a.id = b.id => a = b
      BY DEF ColonyInv, NodesKept
    <3>. QED
      BY <3>1, <3>2
  <2>. QED
    BY <1>0, <2>1
<1>6. \A r \in savedTree' : \E a \in agents : r = Record(a)
  BY <1>0
<1>7. NodesKept(savedTree)'
  <2>1. ASSUME NEW r \in savedTree'
        PROVE  /\ r = [x \in NodeFields |-> r[x]]
               /\ r.template \in Templates /\ r.call \in 1..plants' /\ r.id = <<r.call, r.template>>
               /\ r.loaded = TRUE /\ r.has = JsonSafe(Settings(r.template)')
               /\ IF Under[r.template] = 0 THEN r.up = RootId
                  ELSE \E b \in savedTree' : b.id = r.up /\ b.template = Under[r.template] /\ b.call = r.call
               /\ r.call \in returned' =>
                    \A i \in Templates : \E b \in savedTree' : b.template = i /\ b.call = r.call
    <3>1. PICK a \in agents : r = Record(a)
      BY <1>6
    <3>2. plants' = plants /\ returned' = returned
      BY <1>0
    <3>3. r.template \in Templates /\ r.call \in 1..plants /\ r.id = <<r.call, r.template>>
      BY <1>4, <3>1
    <3>4. r.loaded = TRUE /\ r.has = JsonSafe(Settings(r.template)')
      BY <1>4, <3>1
    <3>5. IF Under[r.template] = 0 THEN r.up = RootId
          ELSE \E b \in savedTree' : b.id = r.up /\ b.template = Under[r.template] /\ b.call = r.call
      BY <1>4, <3>1
    <3>6. r = [x \in NodeFields |-> r[x]]
      BY <1>4, <3>1
    <3>7. r.call \in returned =>
            \A i \in Templates : \E b \in savedTree' : b.template = i /\ b.call = r.call
      BY <1>4, <3>1
    <3>. QED
      BY <3>2, <3>3, <3>4, <3>5, <3>6, <3>7
  <2>. QED
    BY <1>5, <2>1 DEF NodesKept
<1>8. NodesKept(agents)'
  BY <1>0, NodesStayAs
<1>9. WalkInv'
  BY <1>0 DEF ColonyInv, WalkInv
<1>10. FileInv'
  <2>1. \A j : Parsed(j)' = Parsed(j)
    BY <1>0, SettingsStay
  <2>. QED
    BY <1>0, <2>1 DEF ColonyInv, FileInv
<1>. QED
  BY <1>7, <1>8, <1>9, <1>10 DEF ColonyInv

LEMMA ColonyStep == ASSUME ColonyInv, [ColonyNext]_colonyVars PROVE ColonyInv'
<1>1. CASE LoadColony
  <2>1. /\ toPlant' = {} /\ UNCHANGED <<yaml, agents, plants, returned, savedTree>>
        /\ registered' = \A i \in Templates : Parsed(i) # "error"
    BY <1>1 DEF LoadColony
  <2>. QED
    BY <2>1, StillKeeps
<1>2. CASE PlantRefused \/ LoadSaved \/ Reborn
  <2>1. /\ toPlant' = {} /\ UNCHANGED <<yaml, plants, returned, savedTree>>
        /\ agents' = agents \/ agents' = savedTree \/ agents' = {}
        /\ registered' => registered
    BY <1>2 DEF PlantRefused, LoadSaved, Reborn
  <2>. QED
    BY <2>1, StillKeeps
<1>3. CASE UNCHANGED colonyVars
  <2>1. UNCHANGED <<yaml, registered, agents, toPlant, plants, returned, savedTree>>
    BY <1>3 DEF colonyVars
  <2>2. NodesKept(agents)' /\ NodesKept(savedTree)'
    BY <2>1, NodesStayAs
  <2>3. WalkInv'
    BY <2>1 DEF ColonyInv, WalkInv, Covered, Ahead, Stands
  <2>4. FileInv'
    <3>1. \A j : Parsed(j)' = Parsed(j)
      BY <2>1, SettingsStay
    <3>. QED
      BY <2>1, <3>1 DEF ColonyInv, FileInv
  <2>. QED
    BY <2>2, <2>3, <2>4 DEF ColonyInv
<1>. QED
  BY <1>1, <1>2, <1>3, PlantColonyKeeps, PlantNodeKeeps, SaveColonyKeeps DEF ColonyNext

LEMMA ColonyFirst == ASSUME ColonyInit PROVE ColonyInv
  BY DEF ColonyInit, ColonyInv, NodesKept, WalkInv, FileInv

\* A colony is what its file says, node for node, through any calls of plant that
\* return or raise, and any saves, loads and new processes (load_colony,
\* _plant_blueprint, Node.to_record).
THEOREM ColonyKeptHolds == ColonySpec => []ColonyKept
<1>1. ColonyInv => ColonyKept
  <2>. SUFFICES ASSUME ColonyInv PROVE ColonyKept
    OBVIOUS
  <2>1. ASSUME NEW a \in agents
        PROVE  /\ {"sense_prefixes", "emits"} \cap Settings(a.template) \subseteq a.has
               /\ ~a.loaded => a.has = Settings(a.template)
               /\ DeclaredTools(a) # TemplateTools(a) => a.loaded
    <3>1. CASE a.loaded = FALSE /\ a.has = Settings(a.template)
      BY <3>1 DEF DeclaredTools, TemplateTools
    <3>2. CASE a.loaded = TRUE /\ a.has = JsonSafe(Settings(a.template))
      BY <3>2 DEF JsonSafe
    <3>. QED
      BY <3>1, <3>2 DEF ColonyInv, NodesKept
  <2>2. ASSUME NEW a \in agents
        PROVE  /\ \A i \in Templates : Parsed(i) # "error"
               /\ IF Under[a.template] = 0 THEN a.up = RootId
                  ELSE \E b \in agents :
                         b.id = a.up /\ b.template = Under[a.template] /\ b.call = a.call
               /\ a.call \in returned =>
                    \A i \in Templates : \E b \in agents : b.template = i /\ b.call = a.call
    <3>1. \A i \in Templates : Parsed(i) # "error"
      BY DEF ColonyInv, FileInv
    <3>. QED
      BY <3>1 DEF ColonyInv, NodesKept
  <2>. QED
    BY <2>1, <2>2 DEF ColonyKept, ColonyInv, NodesKept
<1>2. ColonyInit => ColonyInv
  BY ColonyFirst
<1>3. ColonyInv /\ [ColonyNext]_colonyVars => ColonyInv'
  BY ColonyStep
<1>. QED
  BY <1>1, <1>2, <1>3, PTL DEF ColonySpec

(* What is grown is what the file and the rules say, for any file, rules,    *)
(* agents and trees (plant, ConstitutionPolicy.allow, Agent.act).            *)
THEOREM ColonySoundHolds == CharterSpec /\ ColonySpec => []ColonySound
<1>1. ColonyKept /\ CharterKept => ColonySound
  BY DEF ColonySound
<1>. QED
  BY <1>1, ColonyKeptHolds, CharterKeptHolds, PTL

-------------------------------------------------------------------------------
(* The pipe of McpLink.                                                      *)
(*                                                                         *)
(* An id that is given out is larger than any in the pipe, and the one that *)
(* is awaited is the last: it is in one place of the pipe, a request or an  *)
(* answer, until it is taken.                                               *)

McpSpec == McpInit /\ [][McpNext]_mcpVars

Places == {"idle", "hello", "call", "greeted", "greets", "reads"}

McpTypes ==
  /\ lastId \in Nat /\ requests \in Seq(Nat) /\ lines \in Seq(Nat)
  /\ callerAt \in [Callers -> Places] /\ ownId \in [Callers -> Nat]

\* One call at a time.
OneCall == \A c, d \in Callers : callerAt[c] # "idle" /\ callerAt[d] # "idle" => c = d

Below(s) == \A i \in 1..Len(s) : s[i] <= lastId
Free(s, id) == \A i \in 1..Len(s) : s[i] # id
Once(s, id) == \E i \in 1..Len(s) : s[i] = id /\ \A j \in 1..Len(s) : s[j] = id => j = i

\* An id that has been given out and not yet sent is nowhere in the pipe.
FreshIds == \A c \in Callers : callerAt[c] \in {"hello", "call"} =>
              lastId > 0 /\ Free(requests, lastId) /\ Free(lines, lastId)

\* A sent one is in one place of it.
AwaitedIds ==
  \A c \in Callers : Reading(c) =>
    /\ ownId[c] = lastId /\ lastId > 0
    /\ serving => \/ Once(requests, lastId) /\ Free(lines, lastId)
                  \/ Free(requests, lastId) /\ Once(lines, lastId)

OwnAnswers == \A pair \in taken : pair[1] = pair[2]

PipeInv ==
  /\ McpTypes
  /\ ~overlapped =>
       OneCall /\ Below(requests) /\ Below(lines) /\ FreshIds /\ AwaitedIds /\ OwnAnswers

(* The ends of a pipe.                                                      *)
LEMMA AppendFacts ==
  ASSUME NEW s \in Seq(Nat), NEW y \in Nat, NEW x \in Nat
  PROVE  /\ Append(s, y) \in Seq(Nat)
         /\ Free(s, x) /\ y # x => Free(Append(s, y), x)
         /\ Free(s, x) /\ y = x => Once(Append(s, y), x)
         /\ Once(s, x) /\ y # x => Once(Append(s, y), x)
<1>. DEFINE t == Append(s, y)
<1>1. t \in Seq(Nat) /\ Len(t) = Len(s) + 1 /\ Len(s) \in Nat
      /\ \A i \in 1..Len(t) : t[i] = IF i <= Len(s) THEN s[i] ELSE y
  OBVIOUS
<1>2. 1..Len(s) \subseteq 1..Len(t) /\ Len(t) \in 1..Len(t)
      /\ \A i \in 1..Len(t) : i \in 1..Len(s) \/ i = Len(t)
  BY <1>1
<1>3. Free(s, x) /\ y # x => Free(t, x)
  BY <1>1, <1>2 DEF Free
<1>4. ASSUME Once(s, x), y # x PROVE Once(t, x)
  <2>1. PICK i \in 1..Len(s) : s[i] = x /\ \A j \in 1..Len(s) : s[j] = x => j = i
    BY <1>4 DEF Once
  <2>2. i \in 1..Len(t) /\ t[i] = x /\ \A j \in 1..Len(t) : t[j] = x => j = i
    BY <2>1, <1>1, <1>2, <1>4
  <2>. QED
    BY <2>2 DEF Once
<1>5. ASSUME Free(s, x), y = x PROVE Once(t, x)
  <2>1. t[Len(t)] = x /\ \A j \in 1..Len(t) : t[j] = x => j = Len(t)
    BY <1>1, <1>2, <1>5 DEF Free
  <2>. QED
    BY <2>1, <1>2 DEF Once
<1>. QED
  BY <1>1, <1>3, <1>4, <1>5

LEMMA TailFacts ==
  ASSUME NEW s \in Seq(Nat), s # <<>>, NEW x \in Nat
  PROVE  /\ Tail(s) \in Seq(Nat) /\ Head(s) \in Nat
         /\ Free(s, x) => Free(Tail(s), x) /\ Head(s) # x
         /\ Once(s, x) /\ Head(s) # x => Once(Tail(s), x)
         /\ Once(s, x) /\ Head(s) = x => Free(Tail(s), x)
<1>. DEFINE t == Tail(s)
<1>1. t \in Seq(Nat) /\ Head(s) \in Nat /\ Len(t) = Len(s) - 1 /\ Len(s) \in Nat \ {0} /\ Head(s) = s[1]
      /\ \A i \in 1..Len(t) : t[i] = s[i + 1]
  OBVIOUS
<1>2. 1 \in 1..Len(s) /\ \A i \in 1..Len(t) : i + 1 \in 1..Len(s) /\ i + 1 # 1
  BY <1>1
<1>3. Free(s, x) => Free(t, x) /\ Head(s) # x
  BY <1>1, <1>2 DEF Free
<1>4. ASSUME Once(s, x), Head(s) # x PROVE Once(t, x)
  <2>1. PICK i \in 1..Len(s) : s[i] = x /\ \A j \in 1..Len(s) : s[j] = x => j = i
    BY <1>4 DEF Once
  <2>2. i # 1 /\ i - 1 \in 1..Len(t) /\ t[i - 1] = x
    BY <2>1, <1>1, <1>4
  <2>3. ASSUME NEW j \in 1..Len(t), t[j] = x PROVE j = i - 1
    BY <2>1, <2>3, <1>1, <1>2
  <2>. QED
    BY <2>2, <2>3 DEF Once
<1>5. ASSUME Once(s, x), Head(s) = x PROVE Free(t, x)
  <2>1. PICK i \in 1..Len(s) : s[i] = x /\ \A j \in 1..Len(s) : s[j] = x => j = i
    BY <1>5 DEF Once
  <2>2. i = 1
    BY <2>1, <1>1, <1>2, <1>5
  <2>. QED
    BY <2>1, <2>2, <1>1, <1>2 DEF Free
<1>. QED
  BY <1>1, <1>3, <1>4, <1>5

LEMMA PipeInit == McpInit => PipeInv
  BY DEF McpInit, PipeInv, McpTypes, Places, OneCall, Below, FreshIds, AwaitedIds, OwnAnswers, Reading

LEMMA PipeTypes ==
  ASSUME McpTypes, [McpNext]_mcpVars
  PROVE  McpTypes'
<1>. <<>> \in Seq(Nat) /\ 0 \in Nat
  OBVIOUS
<1>. \A x \in {"idle", "hello", "call", "greeted", "greets", "reads"} : x \in Places
  BY DEF Places
<1>1. ASSUME NEW c \in Callers, Numbered(c) PROVE McpTypes'
  BY <1>1 DEF Numbered, Moves, McpTypes
<1>2. ASSUME NEW c \in Callers, Posted(c) PROVE McpTypes'
  <2>1. lastId' \in Nat /\ lines' \in Seq(Nat) /\ ownId' \in [Callers -> Nat]
    BY <1>2 DEF Posted, McpTypes
  <2>2. callerAt' \in [Callers -> Places]
    BY <1>2 DEF Posted, Moves, McpTypes
  <2>3. requests' = Append(requests, lastId) \/ requests' = requests
    BY <1>2 DEF Posted
  <2>4. Append(requests, lastId) \in Seq(Nat) /\ requests \in Seq(Nat)
    BY AppendFacts DEF McpTypes
  <2>. QED
    BY <2>1, <2>2, <2>3, <2>4 DEF McpTypes
<1>3. ASSUME NEW c \in Callers, ReadAnswer(c) PROVE McpTypes'
  <2>1. lastId' \in Nat /\ lines' \in Seq(Nat) /\ ownId' \in [Callers -> Nat]
    BY <1>3 DEF ReadAnswer, McpTypes
  <2>2. callerAt' \in [Callers -> Places]
    BY <1>3 DEF ReadAnswer, Taken, Greets, Ends, Moves, McpTypes
  <2>3. requests' = Append(requests, 0) \/ requests' = requests
    BY <1>3 DEF ReadAnswer, Taken, Greets, Ends
  <2>4. Append(requests, 0) \in Seq(Nat) /\ requests \in Seq(Nat)
    BY AppendFacts DEF McpTypes
  <2>. QED
    BY <2>1, <2>2, <2>3, <2>4 DEF McpTypes
<1>4. ASSUME NEW c \in Callers, ReadFails(c) PROVE McpTypes'
  <2>1. lastId' \in Nat /\ requests' \in Seq(Nat) /\ ownId' \in [Callers -> Nat]
    BY <1>4 DEF ReadFails, McpTypes
  <2>2. callerAt' \in [Callers -> Places]
    BY <1>4 DEF ReadFails, Moves, McpTypes
  <2>3. lines' = lines \/ (lines # <<>> /\ lines' = Tail(lines))
    BY <1>4 DEF ReadFails
  <2>4. lines \in Seq(Nat) /\ (lines # <<>> => Tail(lines) \in Seq(Nat))
    BY TailFacts DEF McpTypes
  <2>. QED
    BY <2>1, <2>2, <2>3, <2>4 DEF McpTypes
<1>5. ASSUME Serves PROVE McpTypes'
  BY <1>5 DEF Serves, McpTypes
<1>6. ASSUME Noise PROVE McpTypes'
  BY <1>6 DEF Noise, McpTypes
<1>7. ASSUME ServerGone PROVE McpTypes'
  BY <1>7 DEF ServerGone, McpTypes
<1>8. CASE UNCHANGED mcpVars
  BY <1>8 DEF mcpVars, McpTypes
<1>. QED
  BY <1>1, <1>2, <1>3, <1>4, <1>5, <1>6, <1>7, <1>8 DEF McpNext

LEMMA PipeStep ==
  ASSUME PipeInv, [McpNext]_mcpVars
  PROVE  PipeInv'
<1>. SUFFICES ASSUME ~overlapped'
              PROVE  (OneCall /\ Below(requests) /\ Below(lines) /\ FreshIds /\ AwaitedIds /\ OwnAnswers)'
  BY PipeTypes DEF PipeInv
<1>. DEFINE Goal == OneCall /\ Below(requests) /\ Below(lines) /\ FreshIds /\ AwaitedIds /\ OwnAnswers
<1>0. McpTypes /\ McpTypes'
  BY PipeTypes DEF PipeInv
<1>1. ~overlapped
  BY DEF PipeInv, McpNext, Numbered, Posted, ReadAnswer, ReadFails, Serves, Noise, ServerGone, mcpVars
<1>2. OneCall /\ Below(requests) /\ Below(lines) /\ FreshIds /\ AwaitedIds /\ OwnAnswers
  BY <1>1 DEF PipeInv
<1>3. ASSUME NEW c \in Callers, Numbered(c) PROVE Goal'
  <2>1. lastId' = lastId + 1 /\ requests' = requests /\ lines' = lines /\ taken' = taken
    BY <1>3 DEF Numbered
  <2>2. \A d \in Callers : d # c => callerAt'[d] = "idle"
    BY <1>3, <1>0, <1>2 DEF Numbered, Moves, OneCall, McpTypes
  <2>3. callerAt'[c] \in {"hello", "call"}
    BY <1>3, <1>0 DEF Numbered, Moves, McpTypes
  <2>4. Below(requests)' /\ Below(lines)' /\ Free(requests', lastId') /\ Free(lines', lastId') /\ lastId' > 0
    BY <1>0, <1>2, <2>1 DEF Below, Free, McpTypes
  <2>. QED
    BY <2>1, <2>2, <2>3, <2>4, <1>2 DEF OneCall, FreshIds, AwaitedIds, OwnAnswers, Reading
<1>4. ASSUME NEW c \in Callers, Posted(c) PROVE Goal'
  <2>1. lastId' = lastId /\ lines' = lines /\ taken' = taken /\ serving' = serving
    BY <1>4 DEF Posted
  <2>2. \A d \in Callers : d # c => callerAt[d] = "idle" /\ callerAt'[d] = "idle"
    BY <1>4, <1>0, <1>2 DEF Posted, Moves, OneCall, McpTypes
  <2>3. lastId > 0 /\ Free(requests, lastId) /\ Free(lines, lastId)
    BY <1>4, <1>2 DEF Posted, FreshIds
  <2>4. CASE serving
    <3>1. requests' = Append(requests, lastId) /\ ownId'[c] = lastId
      BY <1>4, <1>0, <2>4 DEF Posted, McpTypes
    <3>2. callerAt'[c] \in {"greets", "reads"}
      BY <1>4, <1>0, <2>4 DEF Posted, McpTypes, Moves
    <3>3. Once(requests', lastId) /\ Below(requests)'
      BY <3>1, <2>1, <2>3, <1>0, <1>2, AppendFacts DEF McpTypes, Below
    <3>. QED
      BY <3>1, <3>2, <3>3, <2>1, <2>2, <2>3, <1>2 DEF OneCall, FreshIds, AwaitedIds, OwnAnswers, Reading, Below
  <2>5. CASE ~serving
    <3>1. requests' = requests /\ callerAt'[c] = "idle"
      BY <1>4, <1>0, <2>5 DEF Posted, McpTypes, Moves
    <3>. QED
      BY <3>1, <2>1, <2>2, <1>2 DEF OneCall, FreshIds, AwaitedIds, OwnAnswers, Reading, Below
  <2>. QED
    BY <2>4, <2>5
<1>5. ASSUME NEW c \in Callers, ReadAnswer(c) PROVE Goal'
  <2>1. lastId' = lastId /\ lines' = Tail(lines) /\ lines # <<>> /\ serving' = serving /\ ownId' = ownId
    BY <1>5 DEF ReadAnswer
  <2>2. \A d \in Callers : d # c => callerAt[d] = "idle" /\ callerAt'[d] = "idle"
    BY <1>5, <1>0, <1>2 DEF ReadAnswer, Reading, Taken, Greets, Ends, Moves, OneCall, McpTypes
  <2>3. ownId[c] = lastId /\ lastId > 0
        /\ (serving => \/ Once(requests, lastId) /\ Free(lines, lastId)
                       \/ Free(requests, lastId) /\ Once(lines, lastId))
    BY <1>5, <1>2 DEF ReadAnswer, AwaitedIds
  <2>4. Below(lines)'
    BY <2>1, <1>0, <1>2 DEF Below, McpTypes
  <2>5. CASE Head(lines) = lastId
    <3>1. taken' = taken \cup {<<ownId[c], lastId>>} /\ callerAt'[c] \in {"greeted", "idle"}
      BY <1>5, <2>5, <1>0 DEF ReadAnswer, Taken, Greets, Ends, Moves, McpTypes
    <3>2. requests' = requests \/ requests' = Append(requests, 0)
      BY <1>5, <2>5 DEF ReadAnswer, Taken, Greets, Ends
    <3>3. Below(requests)'
      <4>1. CASE requests' = requests
        BY <4>1, <2>1, <1>2 DEF Below
      <4>2. CASE requests' = Append(requests, 0)
        BY <4>2, <2>1, <2>3, <1>0, <1>2 DEF Below, McpTypes
      <4>. QED
        BY <3>2, <4>1, <4>2
    <3>. QED
      BY <3>1, <3>3, <2>1, <2>2, <2>3, <2>4, <1>2 DEF OneCall, FreshIds, AwaitedIds, OwnAnswers, Reading
  <2>6. CASE Head(lines) # lastId
    <3>1. UNCHANGED <<requests, callerAt, taken>>
      BY <1>5, <2>6 DEF ReadAnswer
    <3>2. Reading(c)
      BY <1>5 DEF ReadAnswer
    <3>3. serving => \/ Once(requests, lastId) /\ Free(lines', lastId)
                     \/ Free(requests, lastId) /\ Once(lines', lastId)
      BY <2>1, <2>3, <2>6, <1>0, TailFacts DEF McpTypes
    <3>. QED
      BY <3>1, <3>2, <3>3, <2>1, <2>2, <2>3, <2>4, <1>2 DEF OneCall, FreshIds, AwaitedIds, OwnAnswers, Reading, Below
  <2>. QED
    BY <2>5, <2>6
<1>6. ASSUME NEW c \in Callers, ReadFails(c) PROVE Goal'
  <2>1. lastId' = lastId /\ requests' = requests /\ taken' = taken
    BY <1>6 DEF ReadFails
  <2>2. \A d \in Callers : callerAt'[d] = "idle"
    BY <1>6, <1>0, <1>2 DEF ReadFails, Reading, Moves, OneCall, McpTypes
  <2>3. Below(lines)'
    <3>1. lines' = lines \/ (lines # <<>> /\ lines' = Tail(lines))
      BY <1>6 DEF ReadFails
    <3>. QED
      <4>1. CASE lines' = lines
        BY <4>1, <2>1, <1>2 DEF Below
      <4>2. CASE lines # <<>> /\ lines' = Tail(lines)
        BY <4>2, <2>1, <1>0, <1>2 DEF Below, McpTypes
      <4>. QED
        BY <3>1, <4>1, <4>2
  <2>. QED
    BY <2>1, <2>2, <2>3, <1>2 DEF OneCall, FreshIds, AwaitedIds, OwnAnswers, Reading, Below
<1>7. ASSUME Serves PROVE Goal'
  <2>1. UNCHANGED <<lastId, callerAt, ownId, serving, taken>> /\ requests # <<>> /\ requests' = Tail(requests) /\ serving
        /\ lines' = IF Head(requests) = 0 THEN lines ELSE Append(lines, Head(requests))
    BY <1>7 DEF Serves
  <2>2. Head(requests) \in Nat /\ Head(requests) <= lastId
    BY <2>1, <1>0, <1>2 DEF McpTypes, Below
  <2>3. Below(requests)' /\ Below(lines)'
    BY <2>1, <2>2, <1>0, <1>2 DEF McpTypes, Below
  <2>4. ASSUME Free(requests, lastId), Free(lines, lastId) PROVE Free(requests', lastId) /\ Free(lines', lastId)
    BY <2>1, <2>2, <2>4, <1>0, TailFacts, AppendFacts DEF McpTypes
  <2>5. ASSUME Once(requests, lastId), Free(lines, lastId), lastId > 0
        PROVE  \/ Once(requests', lastId) /\ Free(lines', lastId)
               \/ Free(requests', lastId) /\ Once(lines', lastId)
    <3>1. CASE Head(requests) = lastId
      BY <3>1, <2>1, <2>2, <2>5, <1>0, TailFacts, AppendFacts DEF McpTypes
    <3>2. CASE Head(requests) # lastId
      BY <3>2, <2>1, <2>2, <2>5, <1>0, TailFacts, AppendFacts DEF McpTypes
    <3>. QED
      BY <3>1, <3>2
  <2>6. ASSUME Free(requests, lastId), Once(lines, lastId)
        PROVE  Free(requests', lastId) /\ Once(lines', lastId)
    BY <2>1, <2>2, <2>6, <1>0, TailFacts, AppendFacts DEF McpTypes
  <2>7. FreshIds'
    BY <2>1, <2>4, <1>2 DEF FreshIds
  <2>8. AwaitedIds'
    BY <2>1, <2>5, <2>6, <1>2 DEF AwaitedIds, Reading
  <2>. QED
    BY <2>1, <2>3, <2>7, <2>8, <1>2 DEF OneCall, OwnAnswers
<1>8. ASSUME Noise PROVE Goal'
  <2>1. UNCHANGED <<lastId, callerAt, ownId, serving, taken, requests>> /\ lines' = Append(lines, 0)
    BY <1>8 DEF Noise
  <2>2. Below(lines)'
    BY <2>1, <1>0, <1>2 DEF McpTypes, Below
  <2>3. lastId > 0 => /\ Free(lines, lastId) => Free(lines', lastId)
                      /\ Once(lines, lastId) => Once(lines', lastId)
    BY <2>1, <1>0, AppendFacts DEF McpTypes
  <2>. QED
    BY <2>1, <2>2, <2>3, <1>2 DEF OneCall, FreshIds, AwaitedIds, OwnAnswers, Reading, Below
<1>9. ASSUME ServerGone PROVE Goal'
  <2>1. UNCHANGED <<lastId, callerAt, ownId, taken, lines>> /\ requests' = <<>> /\ ~serving'
    BY <1>9 DEF ServerGone
  <2>. QED
    BY <2>1, <1>2 DEF OneCall, FreshIds, AwaitedIds, OwnAnswers, Reading, Below, Free
<1>10. CASE UNCHANGED mcpVars
  BY <1>10, <1>2 DEF mcpVars, OneCall, FreshIds, AwaitedIds, OwnAnswers, Reading, Below, Free, Once
<1>. QED
  BY <1>3, <1>4, <1>5, <1>6, <1>7, <1>8, <1>9, <1>10 DEF McpNext

(* What is in one place of a sequence.                                      *)
LEMMA Counted ==
  ASSUME NEW s \in Seq(Nat), NEW x
  PROVE  /\ Free(s, x) => Cardinality({i \in DOMAIN s : s[i] = x}) = 0
         /\ Once(s, x) => Cardinality({i \in DOMAIN s : s[i] = x}) = 1
<1>. DEFINE found == {i \in DOMAIN s : s[i] = x}
<1>1. DOMAIN s = 1..Len(s)
  OBVIOUS
<1>2. Free(s, x) => found = {}
  BY <1>1 DEF Free
<1>3. ASSUME Once(s, x) PROVE \E i : found = {i}
  <2>1. PICK i \in 1..Len(s) : s[i] = x /\ \A j \in 1..Len(s) : s[j] = x => j = i
    BY <1>3 DEF Once
  <2>2. found = {i}
    BY <2>1, <1>1
  <2>. QED
    BY <2>2
<1>. QED
  BY <1>2, <1>3, FS_EmptySet, FS_Singleton

(* As long as no two calls overlap, a call gets the answer to its own        *)
(* request, and while it waits that answer is still to come (MCPClient._rpc).*)
THEOREM AnswersMatchHolds == McpSpec => []AnswersMatch
<1>1. PipeInv => AnswersMatch
  <2>. SUFFICES ASSUME PipeInv, ~overlapped
                PROVE  /\ \A pair \in taken : pair[1] = pair[2]
                       /\ \A c \in Callers : Reading(c) /\ serving =>
                            Cardinality({i \in DOMAIN requests : requests[i] = ownId[c]})
                              + Cardinality({i \in DOMAIN lines : lines[i] = ownId[c]}) = 1
    BY DEF AnswersMatch
  <2>1. \A pair \in taken : pair[1] = pair[2]
    BY DEF PipeInv, OwnAnswers
  <2>2. ASSUME NEW c \in Callers, Reading(c), serving
        PROVE  Cardinality({i \in DOMAIN requests : requests[i] = ownId[c]})
                 + Cardinality({i \in DOMAIN lines : lines[i] = ownId[c]}) = 1
    <3>1. requests \in Seq(Nat) /\ lines \in Seq(Nat)
      BY DEF PipeInv, McpTypes
    <3>2. \/ Once(requests, ownId[c]) /\ Free(lines, ownId[c])
          \/ Free(requests, ownId[c]) /\ Once(lines, ownId[c])
      BY <2>2 DEF PipeInv, AwaitedIds
    <3>3. \/ /\ Cardinality({i \in DOMAIN requests : requests[i] = ownId[c]}) = 1
             /\ Cardinality({i \in DOMAIN lines : lines[i] = ownId[c]}) = 0
          \/ /\ Cardinality({i \in DOMAIN requests : requests[i] = ownId[c]}) = 0
             /\ Cardinality({i \in DOMAIN lines : lines[i] = ownId[c]}) = 1
      BY <3>1, <3>2, Counted
    <3>. QED
      BY <3>3
  <2>. QED
    BY <2>1, <2>2
<1>. QED
  BY <1>1, PipeInit, PipeStep, PTL DEF McpSpec

-------------------------------------------------------------------------------
(* The history of Conversation.                                              *)
(*                                                                         *)
(* With the answers that are still to come put behind it, the history is    *)
(* linked at every moment: a result that goes into it is one of those, so   *)
(* that only a response of the model and a correction make it longer.       *)

TalkSpec == TalkInit /\ [][TalkNext]_talkVars

Roles == {"user", "assistant", "tool", "system", "model"}
Turns == [role : Roles, calls : Seq(Nat), answers : Nat]
CallsToRun == [id : Nat, tool : ToolKinds]

TalkTypes ==
  /\ history \in Seq(Turns) /\ unanswered \in Seq(CallsToRun)
  /\ vendor \in {"claude", "openai", "gemini"}
  /\ mode # "runs" => unanswered = <<>>

\* Ids that grow with the calls.
Counting(ids) == \A k \in 1..Len(ids) : ids[k] > 0 /\ \A l \in 1..Len(ids) : l < k => ids[l] < ids[k]

\* The first len turns of s are whole exchanges, linked by such ids.
Chain(s, len) ==
  /\ \A i \in 1..len :
       /\ i + Len(s[i].calls) <= len
       /\ \A k \in 1..Len(s[i].calls) : s[i + k].answers = s[i].calls[k]
       /\ Counting(s[i].calls)
  /\ \A j \in 1..len : s[j].answers # 0 => \E i \in 1..(j - 1) : j - i <= Len(s[i].calls)

FullLength == Len(history) + Len(unanswered)
Full ==
  [i \in 1..FullLength |->
     IF i <= Len(history) THEN history[i]
     ELSE Said("tool", <<>>, unanswered[i - Len(history)].id)]

TalkInv == TalkTypes /\ Chain(Full, FullLength)

LEMMA NoCalls == <<>> \in Seq(Nat) /\ Len(<<>>) = 0 /\ 1..0 = {} /\ 0 \in Nat
  OBVIOUS

LEMMA NoneCount == Counting(<<>>)
  BY NoCalls DEF Counting

LEMMA SaidTurns ==
  ASSUME NEW role \in Roles, NEW calls \in Seq(Nat), NEW answers \in Nat
  PROVE  /\ Said(role, calls, answers) \in Turns
         /\ Said(role, calls, answers).calls = calls /\ Said(role, calls, answers).answers = answers
  BY DEF Said, Turns

LEMMA SomeRoles ==
  "user" \in Roles /\ "assistant" \in Roles /\ "tool" \in Roles /\ "system" \in Roles
  BY DEF Roles

LEMMA PlainTurn ==
  ASSUME NEW role \in Roles, NEW answers \in Nat
  PROVE  \E turn \in Turns : /\ turn = Said(role, <<>>, answers)
                            /\ turn.calls = <<>> /\ turn.answers = answers
<1>1. PICK none \in Seq(Nat) : none = <<>>
  BY NoCalls
<1>2. PICK turn : turn = Said(role, none, answers)
  OBVIOUS
<1>3. turn \in Turns /\ turn.calls = none /\ turn.answers = answers
  BY <1>2, SaidTurns
<1>4. turn = Said(role, <<>>, answers) /\ turn.calls = <<>>
  BY <1>1, <1>2, <1>3
<1>. QED
  BY <1>3, <1>4

LEMMA TwoMore ==
  ASSUME NEW T, NEW s \in Seq(T), NEW a \in T, NEW b \in T
  PROVE  /\ s \o <<a, b>> \in Seq(T) /\ Len(s \o <<a, b>>) = Len(s) + 2
         /\ \A i \in 1..Len(s) : (s \o <<a, b>>)[i] = s[i]
         /\ (s \o <<a, b>>)[Len(s) + 1] = a /\ (s \o <<a, b>>)[Len(s) + 2] = b
  OBVIOUS

LEMMA OneInFront ==
  ASSUME NEW T, NEW s \in Seq(T), NEW a \in T
  PROVE  /\ <<a>> \o s \in Seq(T) /\ Len(<<a>> \o s) = Len(s) + 1
         /\ (<<a>> \o s)[1] = a /\ \A i \in 1..Len(s) : (<<a>> \o s)[i + 1] = s[i]
  OBVIOUS

LEMMA NoneInFront == ASSUME NEW T, NEW s \in Seq(T) PROVE <<>> \o s = s
  OBVIOUS

(* A turn that calls, with its answers behind it, goes on a linked history.  *)
LEMMA ChainGrows ==
  ASSUME NEW s, NEW t, NEW len \in Nat, NEW n \in Nat, NEW ids \in Seq(Nat), Len(ids) = n,
         \A i \in 1..len : s[i] \in Turns,
         Chain(s, len),
         \A i \in 1..len : t[i] = s[i],
         t[len + 1].calls = ids, t[len + 1].answers = 0,
         \A k \in 1..n : t[len + 1 + k].calls = <<>> /\ t[len + 1 + k].answers = ids[k],
         Counting(ids)
  PROVE  Chain(t, len + 1 + n)
<1>. DEFINE total == len + 1 + n
<1>1. \A i \in 1..len : Len(s[i].calls) \in Nat /\ s[i].calls \in Seq(Nat)
  BY DEF Turns
<1>2. total \in Nat /\ 1..len \subseteq 1..total
      /\ \A i \in 1..total : i \in 1..len \/ i = len + 1 \/ \E k \in 1..n : i = len + 1 + k
  <2>1. \A i \in 1..total : i > len + 1 => i - (len + 1) \in 1..n /\ i = len + 1 + (i - (len + 1))
    OBVIOUS
  <2>. QED
    BY <2>1
<1>3. ASSUME NEW i \in 1..total
      PROVE  /\ i + Len(t[i].calls) <= total
             /\ \A k \in 1..Len(t[i].calls) : t[i + k].answers = t[i].calls[k]
             /\ Counting(t[i].calls)
  <2>1. CASE i \in 1..len
    <3>1. i + Len(s[i].calls) <= len /\ t[i] = s[i]
          /\ (\A k \in 1..Len(s[i].calls) : s[i + k].answers = s[i].calls[k])
          /\ Counting(s[i].calls)
      BY <2>1 DEF Chain
    <3>2. \A k \in 1..Len(s[i].calls) : i + k \in 1..len
      BY <3>1, <1>1, <2>1
    <3>3. i + Len(s[i].calls) <= total
      BY <3>1, <1>1, <2>1
    <3>4. \A k \in 1..Len(s[i].calls) : t[i + k] = s[i + k]
      BY <3>2
    <3>5. PICK m, cs : cs = s[i].calls /\ m = Len(cs)
      OBVIOUS
    <3>6. t[i].calls = cs /\ Len(t[i].calls) = m /\ i + m <= total
      BY <3>1, <3>3, <3>5
    <3>7. ASSUME NEW k \in 1..m PROVE t[i + k].answers = cs[k]
      <4>1. t[i + k] = s[i + k] /\ s[i + k].answers = s[i].calls[k]
        BY <3>1, <3>4, <3>5
      <4>. QED
        BY <4>1, <3>5
    <3>8. Counting(cs)
      BY <3>1, <3>5
    <3>. QED
      BY ONLY <3>6, <3>7, <3>8
  <2>2. CASE i = len + 1
    <3>1. t[i].calls = ids /\ Len(ids) = n /\ i + n <= total
      BY <2>2
    <3>2. \A k \in 1..n : t[i + k].answers = ids[k]
      BY <2>2
    <3>. QED
      BY <3>1, <3>2
  <2>3. ASSUME NEW k \in 1..n, i = len + 1 + k
        PROVE  /\ i + Len(t[i].calls) <= total
               /\ \A l \in 1..Len(t[i].calls) : t[i + l].answers = t[i].calls[l]
               /\ Counting(t[i].calls)
    <3>1. t[i].calls = <<>>
      BY <2>3
    <3>2. Len(t[i].calls) = 0 /\ 1..Len(t[i].calls) = {} /\ Counting(t[i].calls)
      BY <3>1, NoCalls, NoneCount
    <3>. QED
      BY <3>2, <2>3
  <2>. QED
    BY <1>2, <2>1, <2>2, <2>3
<1>4. ASSUME NEW j \in 1..total, t[j].answers # 0
      PROVE  \E i \in 1..(j - 1) : j - i <= Len(t[i].calls)
  <2>1. CASE j \in 1..len
    <3>1. PICK i \in 1..(j - 1) : j - i <= Len(s[i].calls)
      BY <2>1, <1>4 DEF Chain
    <3>2. i \in 1..len
      BY <3>1, <2>1
    <3>. QED
      BY <3>1, <3>2
  <2>2. ASSUME NEW k \in 1..n, j = len + 1 + k PROVE \E i \in 1..(j - 1) : j - i <= Len(t[i].calls)
    <3>1. len + 1 \in 1..(j - 1) /\ j - (len + 1) = k
      BY <2>2
    <3>. QED
      BY <3>1
  <2>. QED
    BY <1>2, <1>4, <2>1, <2>2
<1>. QED
  BY <1>3, <1>4 DEF Chain

(* Only calls and answers count.                                            *)
LEMMA ChainSame ==
  ASSUME NEW s, NEW t, NEW len \in Nat, Chain(s, len), \A i \in 1..len : s[i] \in Turns,
         \A i \in 1..len : t[i].calls = s[i].calls /\ t[i].answers = s[i].answers
  PROVE  Chain(t, len)
<1>1. \A i \in 1..len : \A k \in 1..Len(s[i].calls) : i + k \in 1..len
  BY DEF Chain, Turns
<1>2. \A j \in 1..len : \A i \in 1..(j - 1) : i \in 1..len
  OBVIOUS
<1>3. ASSUME NEW i \in 1..len
      PROVE  /\ i + Len(t[i].calls) <= len
             /\ \A k \in 1..Len(t[i].calls) : t[i + k].answers = t[i].calls[k]
             /\ Counting(t[i].calls)
  <2>1. t[i].calls = s[i].calls /\ i + Len(s[i].calls) <= len
        /\ (\A k \in 1..Len(s[i].calls) : s[i + k].answers = s[i].calls[k])
        /\ Counting(s[i].calls)
    BY DEF Chain
  <2>2. \A k \in 1..Len(s[i].calls) : t[i + k].answers = s[i + k].answers
    BY <1>1
  <2>. QED
    BY <2>1, <2>2
<1>4. ASSUME NEW j \in 1..len, t[j].answers # 0
      PROVE  \E i \in 1..(j - 1) : j - i <= Len(t[i].calls)
  BY <1>2, <1>4 DEF Chain
<1>. QED
  BY <1>3, <1>4 DEF Chain

(* A turn in front that calls nothing leaves it linked.                     *)
LEMMA ChainBehind ==
  ASSUME NEW s, NEW t, NEW len \in Nat, Chain(s, len), \A i \in 1..len : s[i] \in Turns,
         t[1].calls = <<>>, t[1].answers = 0,
         \A i \in 1..len : t[i + 1] = s[i]
  PROVE  Chain(t, len + 1)
<1>1. ASSUME NEW i \in 1..(len + 1)
      PROVE  /\ i + Len(t[i].calls) <= len + 1
             /\ \A k \in 1..Len(t[i].calls) : t[i + k].answers = t[i].calls[k]
             /\ Counting(t[i].calls)
  <2>1. CASE i = 1
    <3>1. Len(t[i].calls) = 0 /\ 1..Len(t[i].calls) = {} /\ Counting(t[i].calls)
      BY <2>1, NoneCount
    <3>. QED
      BY <3>1
  <2>2. CASE i # 1
    <3>1. PICK h \in 1..len : i = h + 1
      <4>1. i - 1 \in 1..len /\ i = (i - 1) + 1
        BY <2>2
      <4>. QED
        BY <4>1
    <3>2. t[i] = s[h] /\ h + Len(s[h].calls) <= len /\ Len(s[h].calls) \in Nat
          /\ (\A k \in 1..Len(s[h].calls) : s[h + k].answers = s[h].calls[k])
          /\ Counting(s[h].calls)
      BY <3>1 DEF Chain, Turns
    <3>3. \A k \in 1..Len(s[h].calls) : h + k \in 1..len /\ i + k = (h + k) + 1
      BY <3>1, <3>2
    <3>4. \A k \in 1..Len(s[h].calls) : t[i + k] = s[h + k]
      BY <3>3
    <3>5. \A k \in 1..Len(t[i].calls) : t[i + k].answers = t[i].calls[k]
      BY <3>2, <3>4
    <3>6. i + Len(t[i].calls) <= len + 1
      BY <3>1, <3>2
    <3>7. Counting(t[i].calls)
      BY <3>2
    <3>. QED
      BY <3>5, <3>6, <3>7
  <2>. QED
    BY <2>1, <2>2
<1>2. ASSUME NEW j \in 1..(len + 1), t[j].answers # 0
      PROVE  \E i \in 1..(j - 1) : j - i <= Len(t[i].calls)
  <2>1. PICK h \in 1..len : j = h + 1
    <3>1. j # 1
      BY <1>2
    <3>2. j - 1 \in 1..len /\ j = (j - 1) + 1
      BY <3>1
    <3>. QED
      BY <3>2
  <2>2. PICK i \in 1..(h - 1) : h - i <= Len(s[i].calls)
    <3>1. t[j] = s[h]
      BY <2>1
    <3>. QED
      BY <1>2, <3>1 DEF Chain
  <2>3. i \in 1..len /\ i + 1 \in 1..(j - 1) /\ j - (i + 1) = h - i /\ t[i + 1] = s[i]
    BY <2>1, <2>2
  <2>. QED
    BY <2>2, <2>3
<1>. QED
  BY <1>1, <1>2 DEF Chain

LEMMA TalkInitHolds == TalkInit => TalkInv
<1>. SUFFICES ASSUME TalkInit PROVE TalkInv
  OBVIOUS
<1>1. PICK first \in Turns : first.calls = <<>> /\ first.answers = 0 /\ history = <<first>>
  <2>1. history = <<Said("user", <<>>, 0)>> /\ "user" \in Roles
    BY SomeRoles DEF TalkInit
  <2>. QED
    BY <2>1, PlainTurn, NoCalls
<1>2. TalkTypes
  BY <1>1 DEF TalkInit, TalkTypes
<1>3. Len(history) = 1 /\ FullLength = 1 /\ Full[1] = first
  BY <1>1, <1>2 DEF TalkInit, FullLength, Full, TalkTypes
<1>4. Len(first.calls) = 0 /\ 1..Len(first.calls) = {} /\ Counting(first.calls) /\ \A i \in 1..1 : i = 1
  BY <1>1, NoneCount
<1>5. Chain(Full, FullLength)
  BY <1>1, <1>3, <1>4 DEF Chain
<1>. QED
  BY <1>2, <1>5 DEF TalkInv

LEMMA FullTurns ==
  ASSUME TalkTypes
  PROVE  /\ FullLength \in Nat /\ Len(history) \in Nat
         /\ \A i \in 1..FullLength : Full[i] \in Turns
         /\ mode # "runs" => FullLength = Len(history) /\ \A i \in 1..FullLength : Full[i] = history[i]
<1>1. Len(history) \in Nat /\ Len(unanswered) \in Nat /\ FullLength \in Nat
  BY DEF TalkTypes, FullLength
<1>2. \A i \in 1..FullLength : i > Len(history) => i - Len(history) \in 1..Len(unanswered)
  BY <1>1 DEF FullLength
<1>3. \A i \in 1..Len(unanswered) : Said("tool", <<>>, unanswered[i].id) \in Turns
  <2>1. \A i \in 1..Len(unanswered) : unanswered[i].id \in Nat
    <3>1. \A i \in 1..Len(unanswered) : unanswered[i] \in CallsToRun
      BY DEF TalkTypes
    <3>. QED
      BY <3>1 DEF CallsToRun
  <2>. QED
    BY <2>1, SaidTurns, SomeRoles, NoCalls
<1>4. \A i \in 1..Len(history) : history[i] \in Turns
  BY DEF TalkTypes
<1>5. \A i \in 1..FullLength : Full[i] \in Turns
  BY <1>1, <1>2, <1>3, <1>4 DEF Full
<1>6. mode # "runs" => FullLength = Len(history)
  BY <1>1 DEF TalkTypes, FullLength
<1>. QED
  BY <1>1, <1>5, <1>6 DEF Full

LEMMA AsksKeeps ==
  ASSUME TalkInv, NEW n \in 1..CallBound, Asks(n)
  PROVE  TalkInv'
<1>1. PICK lead \in {0, 1}, kinds \in [1..n -> ToolKinds] :
        /\ history' = Append(history, Said("assistant", CallIds(n, lead), 0))
        /\ unanswered' = [k \in 1..n |-> [id |-> CallIds(n, lead)[k], tool |-> kinds[k]]]
  BY DEF Asks
<1>2. TalkTypes /\ n \in Nat /\ n > 0 /\ CallBound \in Nat /\ mode = "thinks" /\ mode' = "runs" /\ vendor' = vendor
  BY ConversationAssumption DEF TalkInv, Asks
<1>3. PICK ids : ids = CallIds(n, lead) /\ ids \in Seq(Nat) /\ Len(ids) = n /\ Counting(ids)
  <2>1. CASE vendor = "gemini"
    <3>1. CallIds(n, lead) = [k \in 1..n |-> lead + k]
      BY <2>1 DEF CallIds, GeminiIds
    <3>2. [k \in 1..n |-> lead + k] \in Seq(Nat) /\ Len([k \in 1..n |-> lead + k]) = n
      BY <1>2
    <3>. QED
      BY <3>1, <3>2, <1>2 DEF Counting
  <2>2. CASE vendor # "gemini"
    <3>1. PICK b \in Nat : b = Len(history) * CallBound
      BY <1>2 DEF TalkTypes
    <3>2. CallIds(n, lead) = [k \in 1..n |-> b + k]
      BY <2>2, <3>1 DEF CallIds, Minted
    <3>3. [k \in 1..n |-> b + k] \in Seq(Nat) /\ Len([k \in 1..n |-> b + k]) = n
      BY <1>2
    <3>. QED
      BY <3>2, <3>3, <1>2 DEF Counting
  <2>. QED
    BY <2>1, <2>2
<1>4. PICK turn \in Turns : /\ turn.calls = ids /\ turn.answers = 0
                            /\ history' = Append(history, turn)
  BY <1>1, <1>3 DEF Said, Turns, Roles
<1>5. /\ unanswered' \in Seq(CallsToRun) /\ Len(unanswered') = n
      /\ \A k \in 1..n : unanswered'[k].id = ids[k]
  <2>1. PICK u : u = [k \in 1..n |-> [id |-> ids[k], tool |-> kinds[k]]]
    OBVIOUS
  <2>2. \A k \in 1..n : u[k] \in CallsToRun /\ u[k].id = ids[k]
    BY <2>1, <1>2, <1>3 DEF CallsToRun
  <2>3. u \in Seq(CallsToRun) /\ Len(u) = n
    BY <2>1, <2>2, <1>2
  <2>. QED
    BY <2>1, <2>2, <2>3, <1>1, <1>3
<1>6. TalkTypes'
  BY <1>2, <1>4, <1>5 DEF TalkTypes
<1>7. PICK len \in Nat : len = Len(history) /\ len = FullLength
  BY <1>2, FullTurns
<1>8. Len(history') = len + 1 /\ FullLength' = len + 1 + n
      /\ (\A i \in 1..len : history'[i] = history[i]) /\ history'[len + 1] = turn
  BY <1>2, <1>4, <1>5, <1>7 DEF FullLength, TalkTypes
<1>9. \A i \in 1..(len + 1 + n) :
        Full'[i] = IF i <= len + 1 THEN history'[i] ELSE Said("tool", <<>>, unanswered'[i - (len + 1)].id)
  BY <1>8 DEF Full
<1>10. /\ \A i \in 1..len : Full'[i] = Full[i] /\ Full[i] \in Turns
       /\ Full'[len + 1].calls = ids /\ Full'[len + 1].answers = 0
       /\ \A k \in 1..n : Full'[len + 1 + k].calls = <<>> /\ Full'[len + 1 + k].answers = ids[k]
  <2>1. \A i \in 1..len : Full[i] = history[i] /\ Full[i] \in Turns
    BY <1>2, <1>7, FullTurns
  <2>2. \A i \in 1..len : i \in 1..(len + 1 + n) /\ i <= len + 1
    BY <1>2
  <2>3. len + 1 \in 1..(len + 1 + n)
    BY <1>2
  <2>4. ASSUME NEW k \in 1..n PROVE Full'[len + 1 + k].calls = <<>> /\ Full'[len + 1 + k].answers = ids[k]
    <3>1. len + 1 + k \in 1..(len + 1 + n) /\ ~(len + 1 + k <= len + 1) /\ (len + 1 + k) - (len + 1) = k
      BY <1>2
    <3>2. Full'[len + 1 + k] = Said("tool", <<>>, ids[k])
      BY <3>1, <1>9, <1>5
    <3>. QED
      BY <3>2 DEF Said
  <2>5. \A i \in 1..len : Full'[i] = Full[i]
    BY <2>1, <2>2, <1>8, <1>9
  <2>6. Full'[len + 1] = turn
    BY <2>3, <1>2, <1>8, <1>9
  <2>. QED
    BY <2>1, <2>4, <2>5, <2>6, <1>4
<1>11. Chain(Full, len)
  BY <1>7 DEF TalkInv
<1>12. PICK t : t = Full'
  OBVIOUS
<1>13. Chain(t, len + 1 + n)
  BY <1>2, <1>3, <1>10, <1>11, <1>12, ChainGrows
<1>14. Chain(Full', FullLength')
  BY <1>8, <1>12, <1>13
<1>. QED
  BY <1>6, <1>14 DEF TalkInv, Chain

LEMMA ConcludesKeeps ==
  ASSUME TalkInv, Concludes
  PROVE  TalkInv'
<1>1. TalkTypes /\ mode = "thinks" /\ mode' # "runs" /\ UNCHANGED <<vendor, unanswered>>
  BY DEF TalkInv, Concludes
<1>2. CASE UNCHANGED history
  BY <1>1, <1>2 DEF TalkInv, TalkTypes, Chain, Full, FullLength
<1>3. CASE history' = history \o <<Said("assistant", <<>>, 0), Said("user", <<>>, 0)>>
  <2>1. PICK a \in Turns, b \in Turns :
          /\ a.calls = <<>> /\ a.answers = 0 /\ b.calls = <<>> /\ b.answers = 0
          /\ history' = history \o <<a, b>>
    <3>1. PICK a \in Turns : a = Said("assistant", <<>>, 0) /\ a.calls = <<>> /\ a.answers = 0
      BY PlainTurn, SomeRoles, NoCalls
    <3>2. PICK b \in Turns : b = Said("user", <<>>, 0) /\ b.calls = <<>> /\ b.answers = 0
      BY PlainTurn, SomeRoles, NoCalls
    <3>3. history' = history \o <<a, b>>
      BY <1>3, <3>1, <3>2
    <3>. QED
      BY <3>1, <3>2, <3>3
  <2>2. PICK len \in Nat : len = Len(history) /\ len = FullLength
    BY <1>1, FullTurns
  <2>3. /\ history' \in Seq(Turns) /\ Len(history') = len + 2
        /\ (\A i \in 1..len : history'[i] = history[i]) /\ history'[len + 1] = a /\ history'[len + 2] = b
    <3>1. PICK h \in Seq(Turns) : h = history /\ Len(h) = len
      BY <1>1, <2>2 DEF TalkTypes
    <3>2. PICK g : g = h \o <<a, b>>
      OBVIOUS
    <3>3. /\ g \in Seq(Turns) /\ Len(g) = len + 2
          /\ (\A i \in 1..len : g[i] = h[i]) /\ g[len + 1] = a /\ g[len + 2] = b
      BY <3>1, <3>2, TwoMore
    <3>. QED
      BY <2>1, <3>1, <3>2, <3>3
  <2>4. TalkTypes'
    BY <1>1, <2>3 DEF TalkTypes
  <2>5. PICK t, u : t = Full' /\ u = Full
    OBVIOUS
  <2>6. FullLength' = len + 2
    BY <1>1, <2>2, <2>3 DEF FullLength, TalkTypes
  <2>7. \A i \in 1..(len + 2) : t[i] = history'[i]
    BY <2>3, <2>5, <2>6 DEF Full
  <2>8. /\ \A i \in 1..len : t[i] = u[i] /\ u[i] \in Turns
        /\ t[len + 1] = a /\ t[len + 2] = b
    <3>1. 1..len \subseteq 1..(len + 2) /\ len + 1 \in 1..(len + 2) /\ len + 2 \in 1..(len + 2)
      OBVIOUS
    <3>2. \A i \in 1..len : u[i] = history[i] /\ u[i] \in Turns
      BY <1>1, <2>2, <2>5, FullTurns
    <3>. QED
      BY <3>1, <3>2, <2>3, <2>7
  <2>9. <<>> \in Seq(Nat) /\ Len(<<>>) = 0 /\ Counting(<<>>) /\ \A k \in 1..0 : FALSE
    BY NoneCount
  <2>10. Chain(u, len)
    BY <2>2, <2>5 DEF TalkInv
  <2>11. Chain(t, len + 1 + 0)
    BY <2>1, <2>8, <2>9, <2>10, ChainGrows
  <2>12. Chain(t, len + 1)
    BY <2>11
  <2>13. \A i \in 1..(len + 1) : t[i] \in Turns
    BY <2>1, <2>8
  <2>14. (len + 1) + 1 = len + 2 /\ len + 1 \in Nat
    OBVIOUS
  <2>15. Chain(t, (len + 1) + 1 + 0)
    <3>1. PICK m \in Nat : m = len + 1
      BY <2>14
    <3>2. Chain(t, m) /\ (\A i \in 1..m : t[i] \in Turns)
          /\ t[m + 1].calls = <<>> /\ t[m + 1].answers = 0
      BY <3>1, <2>1, <2>8, <2>12, <2>13, <2>14
    <3>3. Chain(t, m + 1 + 0)
      BY <3>2, <2>9, ChainGrows
    <3>. QED
      BY <3>1, <3>3
  <2>16. Chain(t, len + 2)
    BY <2>15
  <2>. QED
    BY <2>4, <2>5, <2>6, <2>16 DEF TalkInv, Chain
<1>. QED
  BY <1>2, <1>3 DEF Concludes

LEMMA AnsweredKeeps ==
  ASSUME TalkInv, Answered, unanswered # <<>>
  PROVE  TalkInv'
<1>1. TalkTypes /\ mode = "runs" /\ unanswered' = Tail(unanswered) /\ vendor' = vendor
      /\ history' = Append(history, Said("tool", <<>>, Head(unanswered).id))
      /\ mode' = IF Len(unanswered) = 1 THEN "thinks" ELSE "runs"
  BY DEF TalkInv, Answered
<1>2. PICK len \in Nat, rest \in Nat : len = Len(history) /\ Len(unanswered) = rest + 1
  BY DEF TalkInv, TalkTypes
<1>3. Len(unanswered') = rest /\ unanswered' \in Seq(CallsToRun)
      /\ (\A i \in 1..rest : unanswered'[i] = unanswered[i + 1]) /\ Head(unanswered) = unanswered[1]
      /\ 1 \in 1..Len(unanswered)
  BY <1>1, <1>2 DEF TalkTypes
<1>4. PICK turn \in Turns : turn = Said("tool", <<>>, unanswered[1].id)
  <2>1. unanswered[1].id \in Nat
    <3>1. unanswered[1] \in CallsToRun
      <4>1. \A i \in 1..Len(unanswered) : unanswered[i] \in CallsToRun
        BY <1>1 DEF TalkTypes
      <4>. QED
        BY <4>1, <1>3
    <3>. QED
      BY <3>1 DEF CallsToRun
  <2>. QED
    BY <2>1, SaidTurns, SomeRoles, NoCalls
<1>5. history' \in Seq(Turns) /\ Len(history') = len + 1
      /\ (\A i \in 1..len : history'[i] = history[i]) /\ history'[len + 1] = turn
  BY <1>1, <1>2, <1>3, <1>4 DEF TalkTypes
<1>6. TalkTypes'
  <2>1. mode' # "runs" => unanswered' = <<>>
    BY <1>1, <1>2, <1>3
  <2>. QED
    BY <1>1, <1>3, <1>5, <2>1 DEF TalkTypes
<1>7. FullLength = len + 1 + rest /\ FullLength' = len + 1 + rest
  BY <1>2, <1>3, <1>5 DEF FullLength
<1>8. ASSUME NEW i \in 1..(len + 1 + rest) PROVE Full'[i] = Full[i]
  <2>1. /\ Full[i] = IF i <= len THEN history[i] ELSE Said("tool", <<>>, unanswered[i - len].id)
        /\ Full'[i] = IF i <= len + 1 THEN history'[i]
                      ELSE Said("tool", <<>>, unanswered'[i - (len + 1)].id)
    BY <1>2, <1>5, <1>7 DEF Full
  <2>2. CASE i <= len
    BY <2>1, <2>2, <1>5
  <2>3. CASE i = len + 1
    <3>1. i - len = 1
      BY <2>3
    <3>. QED
      BY <2>1, <2>3, <3>1, <1>4, <1>5
  <2>4. CASE i > len + 1
    <3>1. i - (len + 1) \in 1..rest /\ (i - (len + 1)) + 1 = i - len
      BY <2>4
    <3>2. unanswered'[i - (len + 1)] = unanswered[i - len]
      BY <3>1, <1>3
    <3>. QED
      BY <2>1, <2>4, <3>2
  <2>. QED
    BY <2>2, <2>3, <2>4
<1>9. PICK t, u : t = Full' /\ u = Full
  OBVIOUS
<1>10. \A i \in 1..(len + 1 + rest) : t[i] = u[i] /\ u[i] \in Turns
  BY <1>1, <1>7, <1>8, <1>9, FullTurns
<1>11. Chain(u, len + 1 + rest) /\ len + 1 + rest \in Nat
  BY <1>7, <1>9 DEF TalkInv
<1>12. Chain(t, len + 1 + rest)
  BY <1>10, <1>11, ChainSame
<1>. QED
  BY <1>6, <1>7, <1>9, <1>12 DEF TalkInv

LEMMA TalkStep ==
  ASSUME TalkInv, [TalkNext]_talkVars
  PROVE  TalkInv'
<1>1. CASE UNCHANGED talkVars
  BY <1>1 DEF talkVars, TalkInv, TalkTypes, Chain, Full, FullLength
<1>. QED
  BY <1>1, AsksKeeps, ConcludesKeeps, AnsweredKeeps DEF TalkNext, UnknownTool, ToolRuns, GatedToolRuns

(* What is sent says what the history says, to Gemini without the ids of    *)
(* the calls.                                                               *)
LEMMA RequestLinked ==
  ASSUME TalkInv, mode = "thinks"
  PROVE  \E len \in Nat, t \in Seq(Turns) :
           /\ DOMAIN Request = 1..len /\ len = Len(Request) /\ Chain(t, len) /\ len = Len(t)
           /\ \A i \in 1..len : Len(Request[i].calls) = Len(t[i].calls) /\ Request[i].answers = t[i].answers
           /\ vendor # "gemini" => Request = t
<1>1. TalkTypes /\ history \in Seq(Turns) /\ Len(history) \in Nat
  BY DEF TalkInv, TalkTypes
<1>2. PICK len \in Nat : len = Len(history) /\ len = FullLength
  BY <1>1, FullTurns
<1>3. DOMAIN history = 1..len /\ \A i \in 1..len : history[i] \in Turns
  <2>1. PICK h \in Seq(Turns) : h = history
    BY <1>1
  <2>2. DOMAIN h = 1..Len(h) /\ \A i \in 1..Len(h) : h[i] \in Turns
    OBVIOUS
  <2>. QED
    BY <2>1, <2>2, <1>2
<1>4. Chain(history, len)
  <2>1. PICK u : u = Full
    OBVIOUS
  <2>2. \A i \in 1..len : history[i] = u[i] /\ u[i] \in Turns
    BY <1>1, <1>2, <2>1, FullTurns
  <2>3. Chain(u, len)
    BY <1>2, <2>1 DEF TalkInv
  <2>. QED
    BY <2>2, <2>3, ChainSame
<1>5. ASSUME NEW r, DOMAIN r = 1..len, r = [i \in 1..len |-> r[i]],
             \A i \in 1..len : r[i] \in Turns /\ r[i].calls = history[i].calls
                                 /\ r[i].answers = history[i].answers
      PROVE  r \in Seq(Turns) /\ Len(r) = len /\ Chain(r, len)
  <2>1. Chain(r, len)
    BY <1>3, <1>4, <1>5, ChainSame
  <2>2. r \in Seq(Turns) /\ Len(r) = len
    BY <1>5
  <2>. QED
    BY <2>1, <2>2
<1>6. ASSUME NEW r \in Seq(Turns), Len(r) = len, Chain(r, len),
             NEW first \in Turns, first.calls = <<>>, first.answers = 0
      PROVE  /\ <<first>> \o r \in Seq(Turns) /\ Len(<<first>> \o r) = len + 1
             /\ Chain(<<first>> \o r, len + 1)
  <2>1. PICK t : t = <<first>> \o r
    OBVIOUS
  <2>2. t \in Seq(Turns) /\ Len(t) = len + 1 /\ t[1] = first /\ \A i \in 1..len : t[i + 1] = r[i]
    BY <2>1, <1>6, OneInFront
  <2>3. \A i \in 1..len : r[i] \in Turns
    BY <1>6
  <2>4. Chain(t, len + 1)
    BY <1>6, <2>2, <2>3, ChainBehind
  <2>. QED
    BY <2>1, <2>2, <2>4
<1>7. ASSUME NEW r \in Seq(Turns), NEW n \in Nat, Request = r, n = Len(r), Chain(r, n)
      PROVE  \E m \in Nat, t \in Seq(Turns) :
               /\ DOMAIN Request = 1..m /\ m = Len(Request) /\ Chain(t, m) /\ m = Len(t)
               /\ \A i \in 1..m : Len(Request[i].calls) = Len(t[i].calls) /\ Request[i].answers = t[i].answers
               /\ vendor # "gemini" => Request = t
  <2>1. DOMAIN r = 1..n
    BY <1>7
  <2>. QED
    BY <1>7, <2>1
<1>8. CASE vendor = "claude"
  <2>1. PICK r : r = ClaudeMessages
    OBVIOUS
  <2>2. \A i \in 1..len : r[i] \in Turns /\ r[i].calls = history[i].calls /\ r[i].answers = history[i].answers
    BY <2>1, <1>3 DEF ClaudeMessages, Turns, Roles
  <2>3. DOMAIN r = 1..len /\ r = [i \in 1..len |-> r[i]]
    BY <2>1, <1>3 DEF ClaudeMessages
  <2>4. r \in Seq(Turns) /\ Len(r) = len /\ Chain(r, len)
    BY <1>5, <2>2, <2>3
  <2>5. Request = r
    BY <1>8, <2>1 DEF Request
  <2>. QED
    BY <1>7, <2>4, <2>5
<1>9. CASE vendor = "openai"
  <2>1. Request = OpenAIMessages
    BY <1>9 DEF Request
  <2>2. PICK first \in Turns : first = Said("system", <<>>, 0) /\ first.calls = <<>> /\ first.answers = 0
    BY PlainTurn, SomeRoles, NoCalls
  <2>3. CASE hasSystem
    <3>1. Request = <<first>> \o history
      BY <2>1, <2>2, <2>3 DEF OpenAIMessages
    <3>2. /\ <<first>> \o history \in Seq(Turns) /\ Len(<<first>> \o history) = len + 1
          /\ Chain(<<first>> \o history, len + 1)
      BY <2>2, <1>1, <1>2, <1>4, <1>6
    <3>3. PICK r, m : r = <<first>> \o history /\ m = len + 1
      OBVIOUS
    <3>4. r \in Seq(Turns) /\ Len(r) = m /\ Chain(r, m) /\ Request = r
      BY <3>1, <3>2, <3>3
    <3>5. m \in Nat
      BY <3>3
    <3>. QED
      BY <3>4, <3>5, <1>7
  <2>4. CASE ~hasSystem
    <3>1. Request = history
      BY <2>1, <2>4, <1>1, NoneInFront DEF OpenAIMessages
    <3>. QED
      BY <3>1, <1>1, <1>2, <1>4, <1>7
  <2>. QED
    BY <2>3, <2>4
<1>10. CASE vendor = "gemini"
  <2>1. PICK g, r : /\ g = GeminiContents
                    /\ r = [i \in 1..len |-> [history[i] EXCEPT !.role = Role(history[i])]]
    OBVIOUS
  <2>2. /\ \A i \in 1..len : /\ r[i] \in Turns /\ r[i].calls = history[i].calls
                              /\ r[i].answers = history[i].answers
        /\ DOMAIN r = 1..len /\ r = [i \in 1..len |-> r[i]]
    BY <2>1, <1>3 DEF Turns, Roles, Role
  <2>3. r \in Seq(Turns) /\ Len(r) = len /\ Chain(r, len)
    BY <1>5, <2>2
  <2>4. g = [i \in 1..len |-> [history[i] EXCEPT !.role = Role(history[i]),
                                                 !.calls = [k \in DOMAIN history[i].calls |-> NoId]]]
    BY <2>1, <1>3 DEF GeminiContents
  <2>5. ASSUME NEW i \in 1..len
        PROVE  g[i] \in Turns /\ Len(g[i].calls) = Len(r[i].calls) /\ g[i].answers = r[i].answers
    <3>1. PICK cs \in Seq(Nat) : cs = history[i].calls
      BY <1>3 DEF Turns
    <3>2. PICK ns : ns = [k \in DOMAIN cs |-> NoId]
      OBVIOUS
    <3>3. ns \in Seq(Nat) /\ Len(ns) = Len(cs)
      BY <3>2 DEF NoId
    <3>4. Role(history[i]) \in Roles
      BY DEF Role, Roles
    <3>5. g[i] = [history[i] EXCEPT !.role = Role(history[i]), !.calls = ns]
      BY <2>4, <3>1, <3>2
    <3>6. g[i] \in Turns /\ g[i].calls = ns /\ g[i].answers = history[i].answers
      BY <1>3, <3>3, <3>4, <3>5 DEF Turns
    <3>. QED
      BY <2>2, <3>1, <3>3, <3>6
  <2>6. g \in Seq(Turns) /\ Len(g) = len /\ DOMAIN g = 1..len
    <3>1. g = [i \in 1..len |-> g[i]]
      BY <2>4
    <3>. QED
      BY <2>5, <3>1
  <2>7. PICK first \in Turns : first = Said("user", <<>>, 0) /\ first.calls = <<>> /\ first.answers = 0
    BY PlainTurn, SomeRoles, NoCalls
  <2>8. Request = (IF hasSystem THEN <<first>> ELSE <<>>) \o g
    BY <1>10, <2>1, <2>7 DEF Request, GeminiRequest
  <2>9. CASE hasSystem
    <3>1. PICK q, t : q = <<first>> \o g /\ t = <<first>> \o r
      OBVIOUS
    <3>2. /\ q \in Seq(Turns) /\ Len(q) = len + 1 /\ q[1] = first
          /\ \A i \in 1..len : q[i + 1] = g[i]
      BY <3>1, <2>6, <2>7, OneInFront
    <3>3. /\ t \in Seq(Turns) /\ Len(t) = len + 1 /\ t[1] = first
          /\ \A i \in 1..len : t[i + 1] = r[i]
      BY <3>1, <2>3, <2>7, OneInFront
    <3>4. Chain(t, len + 1)
      BY <3>1, <2>3, <2>7, <1>6
    <3>5. ASSUME NEW i \in 1..(len + 1) PROVE Len(q[i].calls) = Len(t[i].calls) /\ q[i].answers = t[i].answers
      <4>1. CASE i = 1
        BY <3>2, <3>3, <4>1
      <4>2. CASE i # 1
        <5>1. i - 1 \in 1..len /\ i = (i - 1) + 1
          BY <4>2
        <5>. QED
          BY <5>1, <3>2, <3>3, <2>5
      <4>. QED
        BY <4>1, <4>2
    <3>6. DOMAIN q = 1..(len + 1) /\ Request = q /\ len + 1 \in Nat
      BY <3>1, <3>2, <2>8, <2>9
    <3>. QED
      BY <1>10, <3>2, <3>3, <3>4, <3>5, <3>6
  <2>10. CASE ~hasSystem
    <3>1. Request = g
      BY <2>6, <2>8, <2>10
    <3>. QED
      BY <1>10, <2>3, <2>5, <2>6, <3>1
  <2>. QED
    BY <2>9, <2>10
<1>. QED
  BY <1>1, <1>8, <1>9, <1>10 DEF TalkTypes

(* In whatever is sent, each call is followed by its one result before       *)
(* anything else, in the order of the calls and, where the API has ids,      *)
(* under theirs (claude.py, gpt.py, gemini.py).                              *)
THEOREM HistoryLinkedHolds == TalkSpec => []HistoryLinked
<1>1. TalkInv => HistoryLinked
  <2>. SUFFICES ASSUME TalkInv, mode = "thinks" PROVE HistoryLinked
    BY DEF HistoryLinked
  <2>1. PICK len \in Nat, t \in Seq(Turns) :
          /\ DOMAIN Request = 1..len /\ len = Len(Request) /\ Chain(t, len) /\ len = Len(t)
          /\ \A i \in 1..len : Len(Request[i].calls) = Len(t[i].calls) /\ Request[i].answers = t[i].answers
          /\ vendor # "gemini" => Request = t
    BY RequestLinked
  <2>2. PICK r : r = Request
    OBVIOUS
  <2>3. ASSUME NEW i \in 1..len
        PROVE  /\ Len(t[i].calls) \in Nat /\ i + Len(t[i].calls) <= len
               /\ \A k \in 1..Len(t[i].calls) : /\ i + k \in 1..len /\ t[i + k].answers = t[i].calls[k]
                                                /\ t[i].calls[k] \in Nat /\ t[i].calls[k] > 0
                                                /\ r[i + k].answers = t[i].calls[k]
               /\ \A k, l \in 1..Len(t[i].calls) : l < k => t[i].calls[l] < t[i].calls[k]
    <3>1. PICK cs \in Seq(Nat) : cs = t[i].calls
      <4>1. t[i] \in Turns
        BY <2>1
      <4>. QED
        BY <4>1 DEF Turns
    <3>2. PICK m \in Nat : m = Len(cs)
      OBVIOUS
    <3>3. /\ i + m <= len /\ Counting(cs) /\ \A k \in 1..m : t[i + k].answers = cs[k]
      BY <2>1, <3>1, <3>2 DEF Chain
    <3>4. \A k \in 1..m : i + k \in 1..len /\ cs[k] \in Nat
      BY <3>2, <3>3
    <3>5. \A k \in 1..m : cs[k] > 0 /\ \A l \in 1..m : l < k => cs[l] < cs[k]
      BY <3>2, <3>3 DEF Counting
    <3>6. \A k \in 1..m : r[i + k].answers = cs[k]
      BY <2>1, <2>2, <3>3, <3>4
    <3>. QED
      BY <3>1, <3>2, <3>3, <3>4, <3>5, <3>6
  <2>4. Exchanges(r)
    <3>1. ASSUME NEW i \in 1..len
          PROVE  i + Len(r[i].calls) <= len /\ \A k \in 1..Len(r[i].calls) : r[i + k].answers # 0
      <4>1. PICK m \in Nat : m = Len(t[i].calls) /\ m = Len(r[i].calls) /\ i + m <= len
        <5>1. Len(t[i].calls) \in Nat /\ i + Len(t[i].calls) <= len
          BY <2>3
        <5>2. Len(r[i].calls) = Len(t[i].calls)
          BY <2>1, <2>2
        <5>. QED
          BY <5>1, <5>2
      <4>2. ASSUME NEW k \in 1..m
            PROVE  t[i].calls[k] > 0 /\ t[i].calls[k] \in Nat /\ r[i + k].answers = t[i].calls[k]
        <5>1. k \in 1..Len(t[i].calls)
          BY <4>1
        <5>. QED
          BY <2>3, <5>1
      <4>3. \A k \in 1..m : r[i + k].answers # 0
        BY <4>2
      <4>. QED
        BY <4>1, <4>3
    <3>2. ASSUME NEW j \in 1..len, r[j].answers # 0 PROVE \E i \in 1..(j - 1) : j - i <= Len(r[i].calls)
      <4>1. PICK i \in 1..(j - 1) : j - i <= Len(t[i].calls)
        BY <2>1, <2>2, <3>2 DEF Chain
      <4>2. i \in 1..len
        BY <4>1
      <4>. QED
        BY <2>1, <2>2, <4>1, <4>2
    <3>. QED
      BY <2>1, <2>2, <3>1, <3>2 DEF Exchanges
  <2>5. CASE vendor = "gemini"
    <3>1. LinkedByPlace(r)
      <4>1. ASSUME NEW i \in 1..len, NEW k \in 1..Len(r[i].calls), NEW l \in 1..Len(r[i].calls), k < l
            PROVE  r[i + k].answers < r[i + l].answers
        <5>1. Len(t[i].calls) = Len(r[i].calls)
          BY <2>1, <2>2
        <5>2. r[i + k].answers = t[i].calls[k] /\ r[i + l].answers = t[i].calls[l]
          BY <2>3, <5>1
        <5>3. t[i].calls[k] < t[i].calls[l]
          BY <2>3, <4>1, <5>1
        <5>. QED
          BY <5>2, <5>3
      <4>. QED
        BY <2>1, <2>2, <4>1 DEF LinkedByPlace
    <3>. QED
      BY <2>2, <2>4, <2>5, <3>1 DEF HistoryLinked
  <2>6. CASE vendor # "gemini"
    <3>1. r = t
      BY <2>1, <2>2, <2>6
    <3>2. ASSUME NEW i \in 1..len, NEW k \in 1..Len(t[i].calls), NEW l \in 1..Len(t[i].calls), k # l
          PROVE  t[i].calls[k] # t[i].calls[l]
      <4>1. k < l \/ l < k
        BY <2>3, <3>2
      <4>2. t[i].calls[k] \in Nat /\ t[i].calls[l] \in Nat
        BY <2>3
      <4>3. t[i].calls[k] < t[i].calls[l] \/ t[i].calls[l] < t[i].calls[k]
        BY <2>3, <4>1
      <4>. QED
        BY <4>2, <4>3
    <3>3. ASSUME NEW i \in 1..len, NEW k \in 1..Len(t[i].calls)
          PROVE  t[i + k].answers = t[i].calls[k]
      BY <2>3, <3>1
    <3>4. \A i \in 1..len : \A k, l \in 1..Len(t[i].calls) : k # l => t[i].calls[k] # t[i].calls[l]
      BY <3>2
    <3>5. LinkedById(t)
      BY <2>1, <2>2, <3>1, <3>3, <3>4 DEF LinkedById
    <3>6. LinkedById(r)
      BY <3>1, <3>5
    <3>. QED
      BY <2>2, <2>4, <2>6, <3>6 DEF HistoryLinked
  <2>. QED
    BY <2>5, <2>6
<1>. QED
  BY <1>1, TalkInitHolds, TalkStep, PTL DEF TalkSpec

-------------------------------------------------------------------------------
(* The traces of Trails.                                                     *)
(*                                                                         *)
(* A trace that is closed or kept is of an attempt that is over, so that    *)
(* only the open one grows, with the attempt that is at work; and a closed  *)
(* trace is that of the last end.                                           *)

TrailsSpec == TrailsInit /\ [][TrailsNext]_trailVars

Statuses == {"none", "running", "done", "failed"}
ThoughtSeqs == Seq(Nat \X Nat)
Traces == [attempt : Nat, thoughts : ThoughtSeqs, status : Statuses]

TrailTypes ==
  /\ attempt \in [Jobs -> Nat]
  /\ opened \in [Jobs -> Traces] /\ closed \in [Jobs -> Traces] /\ kept \in [Jobs -> Traces]
  /\ recorded \in [Jobs -> [1..MaxAttempts -> Nat]]
  /\ outcome \in [Jobs -> Nat \X Statuses]

Thoughts(a, n) == [m \in 1..n |-> <<a, m>>]

Whole(j, trace) ==
  /\ trace.attempt \in 1..attempt[j]
  /\ trace.thoughts = Thoughts(trace.attempt, recorded[j][trace.attempt])

JobTells(j) ==
  /\ attempt[j] <= MaxAttempts
  /\ \A a \in 1..MaxAttempts : a > attempt[j] => recorded[j][a] = 0
  /\ opened[j] # NoTrace => Whole(j, opened[j]) /\ opened[j].status = "running"
  /\ closed[j] # NoTrace => Whole(j, closed[j]) /\ outcome[j] = <<closed[j].attempt, closed[j].status>>
  /\ kept[j] # NoTrace =>
       /\ Whole(j, kept[j])
       /\ outcome[j] = <<kept[j].attempt, kept[j].status>> \/ <<j, outcome[j][1]>> \in unwritten
  /\ j \in inTurn => /\ opened[j] # NoTrace /\ opened[j].attempt = attempt[j]
                     /\ closed[j].attempt < attempt[j] /\ kept[j].attempt < attempt[j]

TracesInv == TrailTypes /\ \A j \in Jobs : JobTells(j)

LEMMA SeqFacts ==
  ASSUME NEW T, NEW s \in Seq(T), NEW e \in T
  PROVE  /\ Append(s, e) \in Seq(T) /\ Len(Append(s, e)) = Len(s) + 1
         /\ \A m \in 1..(Len(s) + 1) : Append(s, e)[m] = IF m <= Len(s) THEN s[m] ELSE e
         /\ Append(s, e) = [m \in 1..(Len(s) + 1) |-> Append(s, e)[m]]
<1>1. /\ Append(s, e) \in Seq(T) /\ Len(Append(s, e)) = Len(s) + 1 /\ Len(s) \in Nat
      /\ \A m \in 1..Len(s) : Append(s, e)[m] = s[m]
      /\ Append(s, e)[Len(s) + 1] = e
  BY AppendProperties, LenProperties
<1>2. PICK t \in Seq(T) : t = Append(s, e)
  BY <1>1
<1>3. t \in [1..Len(t) -> T]
  BY LenProperties
<1>4. t = [m \in 1..(Len(s) + 1) |-> t[m]]
  BY <1>1, <1>2, <1>3
<1>. QED
  BY <1>1, <1>2, <1>4

LEMMA NoneYet == <<>> \in ThoughtSeqs
  BY EmptySeq DEF ThoughtSeqs

LEMMA SomeStatuses ==
  "none" \in Statuses /\ "running" \in Statuses /\ "done" \in Statuses /\ "failed" \in Statuses
  BY DEF Statuses

LEMMA Attempts == MaxAttempts \in Nat
  BY TrailsAssumption

LEMMA NoTraceTyped == NoTrace \in Traces /\ NoTrace.attempt = 0 /\ NoTrace.status = "none"
<1>1. PICK t : t = <<>> /\ t \in ThoughtSeqs
  BY NoneYet
<1>2. NoTrace = [attempt |-> 0, thoughts |-> t, status |-> "none"]
  BY <1>1 DEF NoTrace
<1>. QED
  BY <1>1, <1>2, SomeStatuses DEF Traces

(* One thought more.                                                         *)
LEMMA ThoughtsGrow ==
  ASSUME NEW a \in Nat, NEW n \in Nat
  PROVE  /\ Thoughts(a, n) \in ThoughtSeqs
         /\ Append(Thoughts(a, n), <<a, n + 1>>) = Thoughts(a, n + 1)
         /\ Thoughts(a, 0) = <<>>
<1>1. /\ Thoughts(a, n) \in Seq(Nat \X Nat) /\ Len(Thoughts(a, n)) = n
      /\ \A m \in 1..n : Thoughts(a, n)[m] = <<a, m>>
  BY DEF Thoughts
<1>2. PICK s \in Seq(Nat \X Nat) : s = Thoughts(a, n)
  BY <1>1
<1>3. PICK e : e = <<a, n + 1>> /\ e \in Nat \X Nat
  <2>1. <<a, n + 1>> \in Nat \X Nat
    OBVIOUS
  <2>. QED
    BY <2>1
<1>4. PICK t : t = Append(s, e)
  OBVIOUS
<1>5. t = [m \in 1..(n + 1) |-> <<a, m>>]
  <2>1. /\ \A m \in 1..(n + 1) : t[m] = IF m <= n THEN s[m] ELSE e
        /\ t = [m \in 1..(n + 1) |-> t[m]]
    <3>1. Len(s) = n
      BY <1>1, <1>2
    <3>. QED
      BY <1>2, <1>3, <1>4, <3>1, SeqFacts
  <2>2. \A m \in 1..(n + 1) : t[m] = <<a, m>>
    <3>1. \A m \in 1..(n + 1) : m <= n => m \in 1..n
      OBVIOUS
    <3>2. \A m \in 1..(n + 1) : ~(m <= n) => m = n + 1
      OBVIOUS
    <3>. QED
      BY <2>1, <3>1, <3>2, <1>1, <1>2, <1>3
  <2>. QED
    BY <2>1, <2>2
<1>6. Thoughts(a, 0) = <<>>
  BY DEF Thoughts
<1>. QED
  BY <1>1, <1>2, <1>3, <1>4, <1>5, <1>6 DEF Thoughts, ThoughtSeqs

LEMMA TracesInit == TrailsInit => TracesInv
<1>. SUFFICES ASSUME TrailsInit PROVE TracesInv
  OBVIOUS
<1>1. TrailTypes
  BY NoTraceTyped, SomeStatuses DEF TrailsInit, TrailTypes
<1>2. ASSUME NEW j \in Jobs PROVE JobTells(j)
  BY Attempts DEF TrailsInit, JobTells
<1>. QED
  BY <1>1, <1>2, SomeStatuses DEF TracesInv

(* A task that nothing happens to.                                           *)
LEMMA OthersTell ==
  ASSUME NEW j \in Jobs, JobTells(j),
         UNCHANGED <<attempt[j], opened[j], closed[j], kept[j], recorded[j], outcome[j]>>,
         j \in inTurn' => j \in inTurn, unwritten \subseteq unwritten'
  PROVE  JobTells(j)'
  BY DEF JobTells, Whole

LEMMA BeginTells ==
  ASSUME TracesInv, NEW j \in Jobs, Begin(j)
  PROVE  TracesInv'
<1>. MaxAttempts \in Nat
  BY Attempts
<1>1. TrailTypes /\ \A i \in Jobs : JobTells(i)
  BY DEF TracesInv
<1>2. /\ attempt[j] < MaxAttempts /\ attempt' = [attempt EXCEPT ![j] = @ + 1]
      /\ inTurn' = inTurn \cup {j} /\ UNCHANGED <<closed, kept, recorded, outcome, unwritten>>
      /\ opened' = [opened EXCEPT ![j] = [attempt |-> attempt[j] + 1, thoughts |-> <<>>, status |-> "running"]]
  BY DEF Begin, OnTaskStarted
<1>3. PICK a \in Nat : a = attempt[j] + 1 /\ a \in 1..MaxAttempts
  BY <1>1, <1>2, Attempts DEF TrailTypes
<1>4. recorded[j][a] = 0
  <2>1. attempt[j] \in Nat
    BY <1>1 DEF TrailTypes
  <2>2. \A x \in 1..MaxAttempts : x > attempt[j] => recorded[j][x] = 0
    BY <1>1 DEF JobTells
  <2>. QED
    BY <2>1, <2>2, <1>3
<1>5. PICK trace \in Traces : /\ trace = [attempt |-> a, thoughts |-> <<>>, status |-> "running"]
                              /\ trace.attempt = a /\ trace.thoughts = <<>> /\ trace.status = "running"
  <2>1. PICK t : t = <<>> /\ t \in ThoughtSeqs
    BY NoneYet
  <2>2. PICK r : r = [attempt |-> a, thoughts |-> t, status |-> "running"]
    OBVIOUS
  <2>3. r \in Traces /\ r.attempt = a /\ r.thoughts = t /\ r.status = "running"
    BY <2>1, <2>2, SomeStatuses DEF Traces
  <2>. QED
    BY <2>1, <2>2, <2>3
<1>6. /\ opened' \in [Jobs -> Traces] /\ opened'[j] = trace
      /\ attempt' \in [Jobs -> Nat] /\ attempt'[j] = a
      /\ \A i \in Jobs \ {j} : opened'[i] = opened[i] /\ attempt'[i] = attempt[i]
  BY <1>1, <1>2, <1>3, <1>5 DEF TrailTypes
<1>7. TrailTypes'
  BY <1>1, <1>2, <1>6 DEF TrailTypes
<1>8. ASSUME NEW i \in Jobs, i # j PROVE JobTells(i)'
  BY <1>1, <1>2, <1>6, <1>8, OthersTell
<1>9. JobTells(j)'
  <2>1. trace # NoTrace
    BY <1>5, NoTraceTyped
  <2>2. Whole(j, opened[j])'
    <3>1. recorded' = recorded /\ Thoughts(a, 0) = <<>> /\ a \in 1..a
      <4>1. a \in 1..a
        BY <1>3
      <4>2. Thoughts(a, 0) = <<>>
        BY ThoughtsGrow
      <4>. QED
        BY <4>1, <4>2, <1>2
    <3>2. trace.thoughts = Thoughts(trace.attempt, recorded'[j][trace.attempt])
      BY <3>1, <1>4, <1>5
    <3>3. trace.attempt \in 1..attempt'[j]
      BY <3>1, <1>5, <1>6
    <3>. QED
      BY <1>6, <3>2, <3>3 DEF Whole
  <2>3. ASSUME NEW t, Whole(j, t) PROVE Whole(j, t)' /\ t.attempt < a
    BY <2>3, <1>1, <1>2, <1>3, <1>6 DEF Whole, TrailTypes
  <2>4. closed[j].attempt < a /\ kept[j].attempt < a
    <3>1. JobTells(j)
      BY <1>1
    <3>2. closed[j] # NoTrace => closed[j].attempt < a
      BY <3>1, <2>3 DEF JobTells
    <3>3. kept[j] # NoTrace => kept[j].attempt < a
      BY <3>1, <2>3 DEF JobTells
    <3>4. NoTrace.attempt = 0 /\ 0 < a
      BY <1>3, NoTraceTyped
    <3>. QED
      BY <3>2, <3>3, <3>4
  <2>5. attempt'[j] <= MaxAttempts /\ \A x \in 1..MaxAttempts : x > attempt'[j] => recorded'[j][x] = 0
    <3>1. \A x \in 1..MaxAttempts : x > attempt[j] => recorded[j][x] = 0
      BY <1>1 DEF JobTells
    <3>2. attempt[j] \in Nat
      BY <1>1 DEF TrailTypes
    <3>. QED
      BY <3>1, <3>2, <1>2, <1>3, <1>6
  <2>6. closed'[j] # NoTrace => Whole(j, closed[j])' /\ outcome'[j] = <<closed'[j].attempt, closed'[j].status>>
    BY <1>1, <1>2, <2>3 DEF JobTells, Whole
  <2>7. kept'[j] # NoTrace =>
       /\ Whole(j, kept[j])'
       /\ outcome'[j] = <<kept'[j].attempt, kept'[j].status>> \/ <<j, outcome'[j][1]>> \in unwritten'
    BY <1>1, <1>2, <2>3 DEF JobTells, Whole
  <2>. QED
    BY <2>1, <2>2, <2>4, <2>5, <2>6, <2>7, <1>2, <1>5, <1>6 DEF JobTells
<1>. QED
  BY <1>7, <1>8, <1>9 DEF TracesInv

LEMMA RecordedTells ==
  ASSUME TracesInv, NEW j \in Jobs, Recorded(j)
  PROVE  TracesInv'
<1>. MaxAttempts \in Nat
  BY Attempts
<1>1. TrailTypes /\ (\A i \in Jobs : JobTells(i)) /\ j \in inTurn
  BY DEF TracesInv, Recorded
<1>2. PICK a \in Nat : a = attempt[j] /\ a \in 1..MaxAttempts /\ a = opened[j].attempt /\ opened[j] # NoTrace
                       /\ Whole(j, opened[j])
  <2>1. opened[j] # NoTrace /\ opened[j].attempt = attempt[j] /\ attempt[j] <= MaxAttempts
    BY <1>1 DEF JobTells
  <2>2. Whole(j, opened[j])
    BY <1>1, <2>1 DEF JobTells
  <2>3. opened[j].attempt \in 1..attempt[j] /\ attempt[j] \in Nat
    BY <1>1, <2>2 DEF Whole, TrailTypes
  <2>. QED
    BY <2>1, <2>2, <2>3
<1>3. PICK n \in Nat : n = recorded[j][a]
  BY <1>1, <1>2 DEF TrailTypes
<1>4. /\ recorded' = [recorded EXCEPT ![j][a] = @ + 1]
      /\ opened' = [opened EXCEPT ![j].thoughts = Append(@, <<a, n + 1>>)]
      /\ UNCHANGED <<attempt, inTurn, closed, kept, outcome, unwritten>>
  BY <1>2, <1>3 DEF Recorded, OnThink
<1>5. PICK told \in ThoughtSeqs : told = Append(opened[j].thoughts, <<a, n + 1>>) /\ told = Thoughts(a, n + 1)
  <2>1. opened[j].thoughts = Thoughts(a, n)
    BY <1>2, <1>3 DEF Whole
  <2>2. Thoughts(a, n + 1) \in ThoughtSeqs
    <3>1. n + 1 \in Nat
      OBVIOUS
    <3>. QED
      BY <3>1, ThoughtsGrow
  <2>3. Append(opened[j].thoughts, <<a, n + 1>>) = Thoughts(a, n + 1)
    BY <2>1, ThoughtsGrow
  <2>. QED
    BY <2>2, <2>3
<1>6. /\ opened' \in [Jobs -> Traces]
      /\ opened'[j].attempt = a /\ opened'[j].thoughts = told /\ opened'[j].status = opened[j].status
      /\ \A i \in Jobs \ {j} : opened'[i] = opened[i]
  BY <1>1, <1>2, <1>4, <1>5 DEF TrailTypes, Traces
<1>7. /\ recorded' \in [Jobs -> [1..MaxAttempts -> Nat]] /\ recorded'[j][a] = n + 1
      /\ \A x \in 1..MaxAttempts : x # a => recorded'[j][x] = recorded[j][x]
      /\ \A i \in Jobs \ {j} : recorded'[i] = recorded[i]
  <2>1. PICK f \in [1..MaxAttempts -> Nat] : f = recorded[j]
    BY <1>1 DEF TrailTypes
  <2>2. PICK g : g = [f EXCEPT ![a] = @ + 1]
    OBVIOUS
  <2>3. g \in [1..MaxAttempts -> Nat] /\ g[a] = n + 1 /\ \A x \in 1..MaxAttempts : x # a => g[x] = f[x]
    BY <1>2, <1>3, <2>1, <2>2
  <2>4. recorded' = [recorded EXCEPT ![j] = g]
    BY <1>1, <1>4, <2>1, <2>2 DEF TrailTypes
  <2>. QED
    BY <1>1, <2>1, <2>3, <2>4 DEF TrailTypes
<1>8. TrailTypes'
  BY <1>1, <1>4, <1>6, <1>7 DEF TrailTypes
<1>9. ASSUME NEW i \in Jobs, i # j PROVE JobTells(i)'
  BY <1>1, <1>4, <1>6, <1>7, <1>9, OthersTell
<1>10. JobTells(j)'
  <2>1. Whole(j, opened[j])' /\ opened'[j].attempt # 0
    <3>1. attempt' = attempt /\ a \in 1..attempt'[j] /\ a # 0
      <4>1. attempt' = attempt /\ a \in 1..a
        BY <1>2, <1>4
      <4>. QED
        BY <4>1, <1>2
    <3>. QED
      BY <3>1, <1>5, <1>6, <1>7 DEF Whole
  <2>2. ASSUME NEW t, Whole(j, t), t.attempt < a PROVE Whole(j, t)'
    <3>1. t.attempt \in 1..a
      BY <2>2, <1>2 DEF Whole
    <3>2. t.attempt \in 1..MaxAttempts /\ t.attempt # a
      BY <2>2, <3>1, <1>2
    <3>. QED
      BY <2>2, <3>2, <1>4, <1>7 DEF Whole
  <2>3. closed[j].attempt < a /\ kept[j].attempt < a
    BY <1>1, <1>2 DEF JobTells
  <2>4. attempt'[j] <= MaxAttempts /\ \A x \in 1..MaxAttempts : x > attempt'[j] => recorded'[j][x] = 0
    <3>1. attempt[j] <= MaxAttempts /\ \A x \in 1..MaxAttempts : x > attempt[j] => recorded[j][x] = 0
      BY <1>1 DEF JobTells
    <3>2. \A x \in 1..MaxAttempts : x > a => x # a
      OBVIOUS
    <3>. QED
      BY <3>1, <3>2, <1>2, <1>4, <1>7
  <2>5. closed'[j] # NoTrace => Whole(j, closed[j])' /\ outcome'[j] = <<closed'[j].attempt, closed'[j].status>>
    <3>1. closed' = closed
      BY <1>4
    <3>2. closed[j] # NoTrace => Whole(j, closed[j])'
      BY <1>1, <2>2, <2>3, <3>1 DEF JobTells, Whole
    <3>. QED
      BY <1>1, <1>4, <3>1, <3>2 DEF JobTells
  <2>6. kept'[j] # NoTrace =>
       /\ Whole(j, kept[j])'
       /\ outcome'[j] = <<kept'[j].attempt, kept'[j].status>> \/ <<j, outcome'[j][1]>> \in unwritten'
    <3>1. kept' = kept
      BY <1>4
    <3>2. kept[j] # NoTrace => Whole(j, kept[j])'
      BY <1>1, <2>2, <2>3, <3>1 DEF JobTells, Whole
    <3>. QED
      BY <1>1, <1>4, <3>1, <3>2 DEF JobTells
  <2>7. opened'[j] # NoTrace /\ opened'[j].status = "running"
    BY <1>1, <1>2, <1>6, <2>1, NoTraceTyped DEF JobTells
  <2>. QED
    BY <2>1, <2>3, <2>4, <2>5, <2>6, <2>7, <1>2, <1>4, <1>6 DEF JobTells
<1>. QED
  BY <1>8, <1>9, <1>10 DEF TracesInv

LEMMA FinishTells ==
  ASSUME TracesInv, NEW j \in Jobs, NEW status \in {"done", "failed"}, OnTaskFinished(j, status),
         UNCHANGED <<attempt, recorded>>, inTurn' = inTurn \ {j}
  PROVE  TracesInv'
<1>1. TrailTypes /\ \A i \in Jobs : JobTells(i)
  BY DEF TracesInv
<1>2. CASE opened[j] = NoTrace
  <2>1. UNCHANGED <<opened, closed, kept, outcome, unwritten>>
    BY <1>2 DEF OnTaskFinished
  <2>2. TrailTypes'
    BY <1>1, <2>1 DEF TrailTypes
  <2>3. \A i \in Jobs : JobTells(i)'
    BY <1>1, <2>1, OthersTell
  <2>. QED
    BY <2>2, <2>3 DEF TracesInv
<1>3. CASE opened[j] # NoTrace
  <2>1. PICK trace \in Traces :
          /\ trace = [opened[j] EXCEPT !.status = status]
          /\ trace.attempt = opened[j].attempt /\ trace.thoughts = opened[j].thoughts /\ trace.status = status
    <3>1. PICK o \in Traces : o = opened[j]
      BY <1>1 DEF TrailTypes
    <3>2. status \in Statuses
      BY SomeStatuses
    <3>3. PICK r : r = [o EXCEPT !.status = status]
      OBVIOUS
    <3>4. r \in Traces /\ r.attempt = o.attempt /\ r.thoughts = o.thoughts /\ r.status = status
      BY <3>2, <3>3 DEF Traces
    <3>. QED
      BY <3>1, <3>3, <3>4
  <2>2. /\ opened' = [opened EXCEPT ![j] = NoTrace]
        /\ closed' = [closed EXCEPT ![j] = trace]
        /\ outcome' = [outcome EXCEPT ![j] = <<trace.attempt, status>>]
        /\ Persist(j, trace)
    BY <1>3, <2>1 DEF OnTaskFinished
  <2>3. /\ opened'[j] = NoTrace /\ closed'[j] = trace /\ outcome'[j] = <<trace.attempt, status>>
        /\ \A i \in Jobs \ {j} : opened'[i] = opened[i] /\ closed'[i] = closed[i] /\ outcome'[i] = outcome[i]
    BY <1>1, <2>2 DEF TrailTypes
  <2>4. <<trace.attempt, status>> \in Nat \X Statuses
    BY <2>1, SomeStatuses DEF Traces
  <2>5. opened' \in [Jobs -> Traces] /\ closed' \in [Jobs -> Traces] /\ outcome' \in [Jobs -> Nat \X Statuses]
    BY <1>1, <2>2, <2>4, NoTraceTyped DEF TrailTypes
  <2>6. /\ kept' \in [Jobs -> Traces] /\ unwritten \subseteq unwritten'
        /\ \A i \in Jobs \ {j} : kept'[i] = kept[i]
        /\ kept'[j] = trace \/ (kept'[j] = kept[j] /\ <<j, trace.attempt>> \in unwritten')
    <3>1. kept \in [Jobs -> Traces]
      BY <1>1 DEF TrailTypes
    <3>2. CASE kept' = [kept EXCEPT ![j] = trace] /\ UNCHANGED unwritten
      <4>1. kept' \in [Jobs -> Traces] /\ kept'[j] = trace /\ \A i \in Jobs \ {j} : kept'[i] = kept[i]
        BY <3>1, <3>2
      <4>. QED
        BY <3>2, <4>1
    <3>3. CASE unwritten' = unwritten \cup {<<j, trace.attempt>>} /\ UNCHANGED kept
      BY <3>1, <3>3
    <3>. QED
      BY <2>2, <3>2, <3>3 DEF Persist
  <2>7. TrailTypes'
    BY <1>1, <2>5, <2>6 DEF TrailTypes
  <2>8. ASSUME NEW i \in Jobs, i # j PROVE JobTells(i)'
    BY <1>1, <2>3, <2>6, <2>8, OthersTell
  <2>9. JobTells(j)'
    <3>1. \A t : Whole(j, t) => Whole(j, t)'
      BY DEF Whole
    <3>2. Whole(j, trace)'
      <4>1. Whole(j, opened[j])
        BY <1>1, <1>3 DEF JobTells
      <4>2. Whole(j, trace)
        BY <4>1, <2>1 DEF Whole
      <4>. QED
        BY <4>2, <3>1
    <3>3. Whole(j, closed[j])' /\ outcome'[j] = <<closed'[j].attempt, closed'[j].status>>
      BY <2>1, <2>3, <3>2 DEF Whole
    <3>4. outcome'[j][1] = trace.attempt
      BY <2>3
    <3>5. kept'[j] # NoTrace =>
            /\ Whole(j, kept[j])'
            /\ outcome'[j] = <<kept'[j].attempt, kept'[j].status>> \/ <<j, outcome'[j][1]>> \in unwritten'
      <4>1. CASE kept'[j] = trace
        BY <4>1, <2>1, <2>3, <3>2 DEF Whole
      <4>2. CASE kept'[j] = kept[j] /\ <<j, trace.attempt>> \in unwritten'
        <5>1. kept[j] # NoTrace => Whole(j, kept[j])
          BY <1>1 DEF JobTells
        <5>2. kept[j] # NoTrace => Whole(j, kept[j])'
          BY <5>1, <4>2 DEF Whole
        <5>. QED
          BY <5>2, <4>2, <3>4
      <4>. QED
        BY <4>1, <4>2, <2>6
    <3>6. j \notin inTurn' /\ attempt'[j] <= MaxAttempts
          /\ \A x \in 1..MaxAttempts : x > attempt'[j] => recorded'[j][x] = 0
      BY <1>1 DEF JobTells
    <3>. QED
      BY <2>3, <3>3, <3>5, <3>6 DEF JobTells
  <2>. QED
    BY <2>7, <2>8, <2>9 DEF TracesInv
<1>. QED
  BY <1>2, <1>3

LEMMA TracesStep ==
  ASSUME TracesInv, [TrailsNext]_trailVars
  PROVE  TracesInv'
<1>1. ASSUME NEW j \in Jobs, Ended(j) PROVE TracesInv'
  BY <1>1, FinishTells DEF Ended
<1>2. ASSUME NEW j \in Jobs, FailedUnbegun(j) PROVE TracesInv'
  <2>1. inTurn' = inTurn \ {j}
    BY <1>2 DEF FailedUnbegun
  <2>. QED
    BY <1>2, <2>1, FinishTells DEF FailedUnbegun
<1>3. ASSUME NEW j \in Jobs, LeftOpen(j) PROVE TracesInv'
  <2>1. UNCHANGED <<attempt, opened, closed, kept, recorded, outcome, unwritten>> /\ inTurn' \subseteq inTurn
    BY <1>3 DEF LeftOpen
  <2>2. \A i \in Jobs : JobTells(i)'
    BY <2>1, OthersTell DEF TracesInv
  <2>. QED
    BY <2>1, <2>2 DEF TracesInv, TrailTypes
<1>4. ASSUME Revived PROVE TracesInv'
  <2>1. /\ UNCHANGED <<attempt, kept, recorded, outcome, unwritten>> /\ inTurn' = {}
        /\ opened' = [j \in Jobs |-> NoTrace] /\ closed' = [j \in Jobs |-> NoTrace]
    BY <1>4 DEF Revived
  <2>2. TrailTypes'
    BY <2>1, NoTraceTyped DEF TracesInv, TrailTypes
  <2>3. ASSUME NEW j \in Jobs PROVE JobTells(j)'
    BY <2>1 DEF TracesInv, JobTells, Whole
  <2>. QED
    BY <2>2, <2>3 DEF TracesInv
<1>5. CASE UNCHANGED trailVars
  <2>1. \A i \in Jobs : JobTells(i)'
    BY <1>5, OthersTell DEF TracesInv, trailVars
  <2>. QED
    BY <1>5, <2>1 DEF TracesInv, TrailTypes, trailVars
<1>. QED
  BY <1>1, <1>2, <1>3, <1>4, <1>5, BeginTells, RecordedTells DEF TrailsNext

(* A trace has the thoughts of one attempt of its task, all of them and in   *)
(* their order, and what trace_for returns as ended is the attempt that      *)
(* ended last, unless it could not be written (TraceObserver.notify,         *)
(* Ormica.trace_for).                                                        *)
THEOREM TrailsTellHolds == TrailsSpec => []TrailsTell
<1>1. ASSUME TracesInv, NEW j \in Jobs
      PROVE  /\ \A trace \in {opened[j], closed[j], kept[j]} \ {NoTrace} :
                  trace.thoughts = [n \in 1..recorded[j][trace.attempt] |-> <<trace.attempt, n>>]
             /\ j \in inTurn => opened[j].attempt = attempt[j]
             /\ TraceFor(j).status \in {"done", "failed"} =>
                  \/ <<TraceFor(j).attempt, TraceFor(j).status>> = outcome[j]
                  \/ <<j, outcome[j][1]>> \in unwritten
  <2>1. JobTells(j)
    BY <1>1 DEF TracesInv
  <2>2. \A trace \in {opened[j], closed[j], kept[j]} \ {NoTrace} : Whole(j, trace)
    BY <2>1 DEF JobTells
  <2>3. opened[j].status \notin {"done", "failed"}
    BY <2>1, NoTraceTyped DEF JobTells
  <2>4. TraceFor(j).status \in {"done", "failed"} =>
          \/ <<TraceFor(j).attempt, TraceFor(j).status>> = outcome[j]
          \/ <<j, outcome[j][1]>> \in unwritten
    BY <2>1, <2>3 DEF JobTells, TraceFor, ForTask
  <2>. QED
    BY <2>1, <2>2, <2>4 DEF JobTells, Whole, Thoughts
<1>2. TracesInv => TrailsTell
  BY <1>1 DEF TrailsTell
<1>. QED
  BY <1>2, TracesInit, TracesStep, PTL DEF TrailsSpec

-------------------------------------------------------------------------------
(* The feed of Broadcast.                                                    *)
(*                                                                         *)
(* A browser is in the list once, and so in every snapshot; what is on its  *)
(* way to it is therefore put into its queue, or dropped, once.             *)

FeedSpec == FeedInit /\ [][FeedNext]_feedVars

Links == {"new", "open", "broken", "gone"}
Events == Emitters \X Nat

FeedTypes ==
  /\ queues \in Seq(Browsers)
  /\ waitingFor \in [Browsers -> Seq(Events)] /\ shown \in [Browsers -> Seq(Events)]
  /\ link \in [Browsers -> Links]
  /\ emitted \in [Emitters -> Nat]
  /\ round \in [Emitters -> Seq(Browsers)] /\ reached \in [Emitters -> Nat]
  /\ missed \in [Browsers -> SUBSET Events] /\ due \in [Browsers -> SUBSET Events]

Distinct(s) == \A i, j \in 1..Len(s) : s[i] = s[j] => i = j
AllKnown(s) == \A i \in 1..Len(s) : link[s[i]] # "new"

ListSound ==
  /\ Distinct(queues) /\ AllKnown(queues)
  /\ \A e \in Emitters : Distinct(round[e]) /\ AllKnown(round[e]) /\ reached[e] <= Len(round[e])
  /\ \A b \in Browsers : link[b] \in {"open", "broken"} => \E i \in 1..Len(queues) : queues[i] = b

\* The event of e is still to be put into the queue of b.
Coming(e, b) == \E i \in 1..Len(round[e]) : i > reached[e] /\ round[e][i] = b

Had(b) == shown[b] \o waitingFor[b]

InOrder(s) == \A i, j \in 1..Len(s) : i < j /\ s[i][1] = s[j][1] => s[i][2] < s[j][2]

Kept(b) ==
  /\ due[b] = Range(Had(b)) \cup missed[b] \cup OnTheWay(b)
  /\ Range(Had(b)) \cap (missed[b] \cup OnTheWay(b)) = {}
  /\ missed[b] \cap OnTheWay(b) = {}
  /\ InOrder(Had(b))

Untouched(b) ==
  /\ shown[b] = <<>> /\ waitingFor[b] = <<>> /\ missed[b] = {} /\ due[b] = {}
  /\ \A e \in Emitters : ~Coming(e, b)

BrowserOK(b) ==
  /\ \A ev \in due[b] : ev[2] <= emitted[ev[1]]
  /\ link[b] = "new" => Untouched(b)
  /\ link[b] = "open" => Kept(b)

FeedInv == FeedTypes /\ ListSound /\ \A b \in Browsers : BrowserOK(b)

(* Sequences.                                                                *)
LEMMA RangeSeq ==
  ASSUME NEW T, NEW s \in Seq(T)
  PROVE  /\ \A x : x \in Range(s) <=> \E i \in 1..Len(s) : s[i] = x
         /\ Len(s) \in Nat /\ DOMAIN s = 1..Len(s) /\ \A i \in 1..Len(s) : s[i] \in T
<1>1. Len(s) \in Nat /\ DOMAIN s = 1..Len(s) /\ \A i \in 1..Len(s) : s[i] \in T
  BY LenProperties, ElementOfSeq
<1>. QED
  BY <1>1 DEF Range

LEMMA OneMore ==
  ASSUME NEW T, NEW s \in Seq(T), NEW e \in T
  PROVE  /\ Append(s, e) \in Seq(T) /\ Len(Append(s, e)) = Len(s) + 1
         /\ \A i \in 1..Len(s) : Append(s, e)[i] = s[i]
         /\ Append(s, e)[Len(s) + 1] = e
         /\ Range(Append(s, e)) = Range(s) \cup {e}
<1>1. /\ Append(s, e) \in Seq(T) /\ Len(Append(s, e)) = Len(s) + 1
      /\ \A i \in 1..Len(s) : Append(s, e)[i] = s[i]
      /\ Append(s, e)[Len(s) + 1] = e
  BY AppendProperties
<1>2. PICK t : t = Append(s, e)
  OBVIOUS
<1>5. t \in Seq(T) /\ Len(t) = Len(s) + 1 /\ t[Len(s) + 1] = e /\ \A i \in 1..Len(s) : t[i] = s[i]
  BY <1>1, <1>2
<1>3. Len(s) \in Nat /\ 1..Len(s) \subseteq 1..Len(t) /\ Len(s) + 1 \in 1..Len(t)
      /\ \A i \in 1..Len(t) : i \in 1..Len(s) \/ i = Len(s) + 1
  BY <1>5, RangeSeq
<1>4. \A x : x \in Range(t) <=> x \in Range(s) \/ x = e
  <2>1. \A x : x \in Range(t) <=> \E i \in 1..Len(t) : t[i] = x
    BY <1>5, RangeSeq
  <2>2. \A x : x \in Range(s) <=> \E i \in 1..Len(s) : s[i] = x
    BY RangeSeq
  <2>. QED
    BY <2>1, <2>2, <1>3, <1>5
<1>6. Range(t) = Range(s) \cup {e}
  BY <1>4
<1>. QED
  BY <1>1, <1>2, <1>6

LEMMA Joined ==
  ASSUME NEW T, NEW s \in Seq(T), NEW t \in Seq(T)
  PROVE  /\ s \o t \in Seq(T)
         /\ \A e \in T : Append(s \o t, e) = s \o Append(t, e)
         /\ t # <<>> => Append(s, Head(t)) \o Tail(t) = s \o t
<1>1. /\ s \o t \in Seq(T) /\ Len(s \o t) = Len(s) + Len(t) /\ Len(s) \in Nat /\ Len(t) \in Nat
      /\ \A i \in 1..(Len(s) + Len(t)) : (s \o t)[i] = IF i <= Len(s) THEN s[i] ELSE t[i - Len(s)]
  BY ConcatProperties, LenProperties
<1>2. ASSUME NEW e \in T PROVE Append(s \o t, e) = s \o Append(t, e)
  <2>7. PICK m : m = Len(s) + Len(t)
    OBVIOUS
  <2>8. PICK u : u = s \o t
    OBVIOUS
  <2>1. /\ u = s \o t /\ m = Len(s) + Len(t) /\ m \in Nat /\ u \in Seq(T) /\ Len(u) = m
        /\ \A i \in 1..m : u[i] = IF i <= Len(s) THEN s[i] ELSE t[i - Len(s)]
    BY <1>1, <2>7, <2>8
  <2>9. PICK v : v = Append(t, e)
    OBVIOUS
  <2>2. /\ v = Append(t, e) /\ v \in Seq(T) /\ Len(v) = Len(t) + 1 /\ v[Len(t) + 1] = e
        /\ \A i \in 1..Len(t) : v[i] = t[i]
    BY OneMore, <2>9
  <2>10. PICK x : x = Append(u, e)
    OBVIOUS
  <2>3. /\ x = Append(u, e) /\ x \in Seq(T) /\ Len(x) = m + 1 /\ x[m + 1] = e
        /\ \A i \in 1..m : x[i] = u[i]
    BY OneMore, <2>10, <2>1
  <2>11. PICK y : y = s \o v
    OBVIOUS
  <2>4. /\ y = s \o v /\ y \in Seq(T) /\ Len(y) = m + 1
        /\ \A i \in 1..(m + 1) : y[i] = IF i <= Len(s) THEN s[i] ELSE v[i - Len(s)]
    <3>1. s \o v \in Seq(T) /\ Len(s \o v) = Len(s) + Len(v)
          /\ \A i \in 1..(Len(s) + Len(v)) : (s \o v)[i] = IF i <= Len(s) THEN s[i] ELSE v[i - Len(s)]
      BY <2>2, ConcatProperties
    <3>2. Len(s) + Len(v) = m + 1
      BY <1>1, <2>1, <2>2
    <3>. QED
      BY <3>1, <3>2, <2>11
  <2>5. ASSUME NEW i \in 1..(m + 1) PROVE x[i] = y[i]
    <3>1. CASE i <= Len(s)
      <4>1. i \in 1..m
        BY <3>1, <1>1, <2>1
      <4>. QED
        BY <3>1, <4>1, <2>1, <2>3, <2>4
    <3>2. CASE i > Len(s) /\ i <= m
      <4>1. i \in 1..m /\ i - Len(s) \in 1..Len(t) /\ ~(i <= Len(s))
        BY <3>2, <1>1, <2>1
      <4>. QED
        BY <4>1, <2>1, <2>2, <2>3, <2>4
    <3>3. CASE i = m + 1
      <4>1. ~(i <= Len(s)) /\ i - Len(s) = Len(t) + 1
        BY <3>3, <1>1, <2>1
      <4>. QED
        BY <3>3, <4>1, <2>2, <2>3, <2>4
    <3>. QED
      BY <3>1, <3>2, <3>3, <1>1, <2>1
  <2>6. x = y
    BY <2>3, <2>4, <2>5, SeqEqual
  <2>. QED
    BY <2>1, <2>2, <2>3, <2>4, <2>6
<1>3. ASSUME t # <<>> PROVE Append(s, Head(t)) \o Tail(t) = s \o t
  <2>8. PICK h : h = Head(t)
    OBVIOUS
  <2>9. PICK r : r = Tail(t)
    OBVIOUS
  <2>1. /\ h = Head(t) /\ r = Tail(t) /\ h \in T /\ r \in Seq(T) /\ Len(r) = Len(t) - 1
        /\ \A i \in 1..Len(r) : r[i] = t[i + 1]
    BY <1>3, HeadTailProperties, <2>8, <2>9
  <2>2. h = t[1] /\ Len(t) > 0
    BY <2>1, <1>3, <1>1, EmptySeq
  <2>10. PICK v : v = Append(s, h)
    OBVIOUS
  <2>3. /\ v = Append(s, h) /\ v \in Seq(T) /\ Len(v) = Len(s) + 1 /\ v[Len(s) + 1] = h
        /\ \A i \in 1..Len(s) : v[i] = s[i]
    BY OneMore, <2>10, <2>1
  <2>11. PICK x : x = v \o r
    OBVIOUS
  <2>4. /\ x = v \o r /\ x \in Seq(T) /\ Len(x) = Len(s) + Len(t)
        /\ \A i \in 1..(Len(s) + Len(t)) : x[i] = IF i <= Len(s) + 1 THEN v[i] ELSE r[i - (Len(s) + 1)]
    <3>1. v \o r \in Seq(T) /\ Len(v \o r) = Len(v) + Len(r)
          /\ \A i \in 1..(Len(v) + Len(r)) : (v \o r)[i] = IF i <= Len(v) THEN v[i] ELSE r[i - Len(v)]
      BY <2>1, <2>3, ConcatProperties
    <3>2. Len(v) + Len(r) = Len(s) + Len(t) /\ Len(v) = Len(s) + 1
      BY <1>1, <2>1, <2>3
    <3>. QED
      BY <3>1, <3>2, <2>11
  <2>12. PICK y : y = s \o t
    OBVIOUS
  <2>5. /\ y = s \o t /\ y \in Seq(T) /\ Len(y) = Len(s) + Len(t)
        /\ \A i \in 1..(Len(s) + Len(t)) : y[i] = IF i <= Len(s) THEN s[i] ELSE t[i - Len(s)]
    BY <1>1, <2>12
  <2>6. ASSUME NEW i \in 1..(Len(s) + Len(t)) PROVE x[i] = y[i]
    <3>1. CASE i <= Len(s)
      <4>1. i \in 1..Len(s) /\ i <= Len(s) + 1
        BY <3>1, <1>1
      <4>. QED
        BY <3>1, <4>1, <2>3, <2>4, <2>5
    <3>2. CASE i = Len(s) + 1
      <4>1. ~(i <= Len(s)) /\ i - Len(s) = 1 /\ i <= Len(s) + 1
        BY <3>2, <1>1
      <4>. QED
        BY <3>2, <4>1, <2>2, <2>3, <2>4, <2>5
    <3>3. CASE i > Len(s) + 1
      <4>1. ~(i <= Len(s)) /\ ~(i <= Len(s) + 1) /\ i - (Len(s) + 1) \in 1..Len(r)
            /\ (i - (Len(s) + 1)) + 1 = i - Len(s)
        BY <3>3, <1>1, <2>1
      <4>. QED
        BY <4>1, <2>1, <2>4, <2>5
    <3>. QED
      BY <3>1, <3>2, <3>3, <1>1
  <2>7. x = y
    BY <2>4, <2>5, <2>6, SeqEqual
  <2>. QED
    BY <2>1, <2>3, <2>4, <2>5, <2>7
<1>. QED
  BY <1>1, <1>2, <1>3

Joins(s, t, u) == u = s \o t
Adds(s, e, u) == u = Append(s, e)

LEMMA JoinedMore ==
  ASSUME NEW T, NEW s \in Seq(T), NEW t \in Seq(T), NEW e \in T, NEW u, NEW v, NEW x,
         Joins(s, t, u), Adds(t, e, v), Adds(u, e, x)
  PROVE  Joins(s, v, x)
<1>1. Append(s \o t, e) = s \o Append(t, e)
  BY Joined
<1>. QED
  BY <1>1 DEF Joins, Adds

(* list.remove.                                                              *)
LEMMA Removed ==
  ASSUME FeedTypes, Distinct(queues), AllKnown(queues), NEW b \in Browsers,
         \E i \in 1..Len(queues) : queues[i] = b, Unsubscribe(b)
  PROVE  /\ queues' \in Seq(Browsers) /\ Distinct(queues')
         /\ \A i \in 1..Len(queues') : \E j \in 1..Len(queues) : queues'[i] = queues[j]
         /\ \A j \in 1..Len(queues) : queues[j] # b => \E i \in 1..Len(queues') : queues'[i] = queues[j]
<1>12. PICK q : q = queues
  OBVIOUS
<1>13. PICK n : n = Len(q)
  OBVIOUS
<1>1. /\ q \in Seq(Browsers) /\ n \in Nat /\ q = queues /\ n = Len(q) /\ DOMAIN q = 1..n
      /\ \A i \in 1..n : q[i] \in Browsers
  <2>1. queues \in Seq(Browsers)
    BY DEF FeedTypes
  <2>. QED
    BY <2>1, RangeSeq, <1>12, <1>13
<1>2. PICK i \in 1..n : q[i] = b /\ i = CHOOSE k \in DOMAIN queues : queues[k] = b
  <2>1. \E k \in DOMAIN queues : queues[k] = b
    BY <1>1
  <2>2. (CHOOSE k \in DOMAIN queues : queues[k] = b) \in DOMAIN queues
        /\ queues[CHOOSE k \in DOMAIN queues : queues[k] = b] = b
    BY <2>1
  <2>. QED
    BY <2>2, <1>1
<1>3. queues' = SubSeq(q, 1, i - 1) \o SubSeq(q, i + 1, n)
  BY <1>1, <1>2 DEF Unsubscribe
<1>14. PICK s : s = SubSeq(q, 1, i - 1)
  OBVIOUS
<1>4. s = SubSeq(q, 1, i - 1) /\ s \in Seq(Browsers) /\ Len(s) = i - 1 /\ \A k \in 1..(i - 1) : s[k] = q[k]
  <2>1. \A k \in 1..(i - 1) : q[k] \in Browsers
    BY <1>1, <1>2
  <2>2. /\ SubSeq(q, 1, i - 1) \in Seq(Browsers)
        /\ Len(SubSeq(q, 1, i - 1)) = IF 1 <= i - 1 THEN (i - 1) - 1 + 1 ELSE 0
        /\ \A k \in 1..((i - 1) - 1 + 1) : SubSeq(q, 1, i - 1)[k] = q[1 + k - 1]
    BY <2>1, SubSeqProperties
  <2>3. (i - 1) - 1 + 1 = i - 1 /\ \A k \in 1..(i - 1) : 1 + k - 1 = k
    OBVIOUS
  <2>4. Len(SubSeq(q, 1, i - 1)) = i - 1
    BY <2>2
  <2>. QED
    BY <2>2, <2>3, <2>4, <1>14
<1>15. PICK t : t = SubSeq(q, i + 1, n)
  OBVIOUS
<1>5. t = SubSeq(q, i + 1, n) /\ t \in Seq(Browsers) /\ Len(t) = n - i /\ \A k \in 1..(n - i) : t[k] = q[i + k]
  <2>1. \A k \in (i + 1)..n : q[k] \in Browsers
    BY <1>1, <1>2
  <2>2. /\ SubSeq(q, i + 1, n) \in Seq(Browsers)
        /\ Len(SubSeq(q, i + 1, n)) = IF i + 1 <= n THEN n - (i + 1) + 1 ELSE 0
        /\ \A k \in 1..(n - (i + 1) + 1) : SubSeq(q, i + 1, n)[k] = q[(i + 1) + k - 1]
    BY <2>1, SubSeqProperties, <1>1
  <2>3. n - (i + 1) + 1 = n - i /\ \A k \in 1..(n - i) : (i + 1) + k - 1 = i + k
    BY <1>1
  <2>4. Len(SubSeq(q, i + 1, n)) = n - i
    BY <2>2
  <2>. QED
    BY <2>2, <2>3, <2>4, <1>15
<1>16. PICK r : r = queues'
  OBVIOUS
<1>6. /\ r = queues' /\ r \in Seq(Browsers) /\ Len(r) = n - 1
      /\ \A k \in 1..(n - 1) : r[k] = IF k <= i - 1 THEN s[k] ELSE t[k - (i - 1)]
  <2>1. /\ s \o t \in Seq(Browsers) /\ Len(s \o t) = Len(s) + Len(t)
        /\ \A k \in 1..(Len(s) + Len(t)) : (s \o t)[k] = IF k <= Len(s) THEN s[k] ELSE t[k - Len(s)]
    BY <1>4, <1>5, ConcatProperties
  <2>3. Len(s) = i - 1 /\ Len(t) = n - i /\ n \in Nat
    BY <1>4, <1>5, <1>1
  <2>2. Len(s) + Len(t) = n - 1
    BY <2>3
  <2>. QED
    BY <2>1, <2>2, <1>3, <1>4, <1>5, <1>16
<1>7. ASSUME NEW k \in 1..(n - 1) PROVE r[k] = q[IF k < i THEN k ELSE k + 1]
  <2>1. CASE k < i
    <3>1. k <= i - 1 /\ k \in 1..(i - 1)
      BY <2>1
    <3>. QED
      BY <2>1, <3>1, <1>4, <1>6
  <2>2. CASE ~(k < i)
    <3>1. ~(k <= i - 1) /\ k - (i - 1) \in 1..(n - i) /\ i + (k - (i - 1)) = k + 1
      BY <2>2, <1>1
    <3>. QED
      BY <2>2, <3>1, <1>5, <1>6
  <2>. QED
    BY <2>1, <2>2
<1>8. \A k \in 1..(n - 1) : (IF k < i THEN k ELSE k + 1) \in 1..n
  BY <1>1
<1>9. Distinct(queues')
  <2>1. ASSUME NEW k \in 1..(n - 1), NEW l \in 1..(n - 1), r[k] = r[l] PROVE k = l
    <3>1. (IF k < i THEN k ELSE k + 1) = (IF l < i THEN l ELSE l + 1)
      BY <2>1, <1>1, <1>7, <1>8 DEF Distinct
    <3>. QED
      BY <3>1
  <2>. QED
    BY <2>1, <1>6 DEF Distinct
<1>10. \A k \in 1..Len(r) : \E j \in 1..n : r[k] = q[j]
  BY <1>6, <1>7, <1>8
<1>11. ASSUME NEW j \in 1..n, q[j] # b PROVE \E k \in 1..(n - 1) : r[k] = q[j]
  <2>1. j # i
    BY <1>2, <1>11
  <2>2. CASE j < i
    <3>1. j \in 1..(n - 1)
      BY <2>2, <1>1
    <3>. QED
      BY <2>2, <3>1, <1>7
  <2>3. CASE j > i
    <3>1. j - 1 \in 1..(n - 1) /\ ~(j - 1 < i) /\ (j - 1) + 1 = j
      BY <2>3, <1>1
    <3>. QED
      BY <3>1, <1>7
  <2>. QED
    BY <2>1, <2>2, <2>3
<1>. QED
  BY <1>1, <1>6, <1>9, <1>10, <1>11

(* What is on its way.                                                       *)
LEMMA OnTheWayIs ==
  ASSUME FeedTypes, NEW b \in Browsers
  PROVE  \A ev : ev \in OnTheWay(b) <=> \E e \in Emitters : ev = <<e, emitted[e]>> /\ Coming(e, b)
<1>1. \A e \in Emitters : DOMAIN round[e] = 1..Len(round[e])
  BY LenProperties DEF FeedTypes
<1>. QED
  BY <1>1 DEF OnTheWay, Event, Coming

LEMMA FeedInitHolds == FeedInit => FeedInv
<1>. SUFFICES ASSUME FeedInit PROVE FeedInv
  OBVIOUS
<1>0. /\ \A T : <<>> \in Seq(T)
      /\ Len(<<>>) = 0 /\ 1..0 = {}
  BY EmptySeq
<1>1. FeedTypes
  BY <1>0 DEF FeedInit, FeedTypes, Links
<1>2. ListSound
  BY <1>0 DEF FeedInit, ListSound, Distinct, AllKnown
<1>3. ASSUME NEW b \in Browsers PROVE BrowserOK(b)
  BY <1>0, <1>3 DEF FeedInit, BrowserOK, Untouched, Coming
<1>. QED
  BY <1>1, <1>2, <1>3 DEF FeedInv

LEMMA OnTheWayThen ==
  ASSUME FeedTypes', NEW b \in Browsers
  PROVE  \A ev : ev \in OnTheWay(b)' <=> \E e \in Emitters : ev = <<e, emitted'[e]>> /\ Coming(e, b)'
<1>1. \A e \in Emitters : DOMAIN round'[e] = 1..Len(round'[e])
  BY LenProperties DEF FeedTypes
<1>. QED
  BY <1>1 DEF OnTheWay, Event, Coming

LEMMA HadIs ==
  ASSUME FeedTypes, NEW b \in Browsers
  PROVE  Had(b) \in Seq(Events)
BY ConcatProperties DEF FeedTypes, Had

(* A browser the step does not concern, or one that it only loses.           *)
LEMMA Bystander ==
  ASSUME FeedTypes, FeedTypes', NEW b \in Browsers, BrowserOK(b),
         Had(b)' = Had(b), missed'[b] = missed[b], due'[b] = due[b],
         link'[b] = "new" => /\ link[b] = "new"
                             /\ shown'[b] = shown[b] /\ waitingFor'[b] = waitingFor[b],
         link'[b] = "open" => link[b] = "open",
         \A e \in Emitters : emitted[e] <= emitted'[e],
         \A e \in Emitters : Coming(e, b)' <=> Coming(e, b),
         \A e \in Emitters : Coming(e, b) => emitted'[e] = emitted[e]
  PROVE  BrowserOK(b)'
<1>1. \A ev \in due'[b] : ev[2] <= emitted'[ev[1]]
  <2>1. SUFFICES ASSUME NEW ev \in due'[b] PROVE ev[2] <= emitted'[ev[1]]
    OBVIOUS
  <2>2. ev \in due[b] /\ ev[1] \in Emitters /\ ev[2] \in Nat /\ ev[2] <= emitted[ev[1]]
    BY <2>1 DEF FeedTypes, Events, BrowserOK
  <2>3. emitted[ev[1]] \in Nat /\ emitted'[ev[1]] \in Nat /\ emitted[ev[1]] <= emitted'[ev[1]]
    BY <2>2 DEF FeedTypes
  <2>. QED
    BY <2>2, <2>3
<1>2. OnTheWay(b)' = OnTheWay(b)
  BY OnTheWayIs, OnTheWayThen
<1>3. ASSUME link'[b] = "new" PROVE Untouched(b)'
  BY <1>3 DEF BrowserOK, Untouched
<1>4. ASSUME link'[b] = "open" PROVE Kept(b)'
  <2>1. Kept(b)
    BY <1>4 DEF BrowserOK
  <2>. QED
    BY <2>1, <1>2 DEF Kept
<1>. QED
  BY <1>1, <1>3, <1>4 DEF BrowserOK

LEMMA EmitKeeps ==
  ASSUME FeedInv, NEW e \in Emitters, EmitEvent(e)
  PROVE  FeedInv'
<1>1. FeedTypes
  BY DEF FeedInv
<1>2. /\ emitted[e] \in Nat /\ emitted'[e] = emitted[e] + 1
      /\ round'[e] = queues /\ reached'[e] = 0
      /\ \A x \in Emitters : x # e => /\ emitted'[x] = emitted[x] /\ round'[x] = round[x]
                                      /\ reached'[x] = reached[x]
      /\ queues' = queues /\ waitingFor' = waitingFor /\ link' = link
      /\ shown' = shown /\ missed' = missed
  BY <1>1 DEF EmitEvent, FeedTypes
<1>3. FeedTypes'
  <2>1. emitted' \in [Emitters -> Nat] /\ round' \in [Emitters -> Seq(Browsers)]
        /\ reached' \in [Emitters -> Nat]
    BY <1>1 DEF EmitEvent, FeedTypes
  <2>2. <<e, emitted[e] + 1>> \in Events
    BY <1>2 DEF Events
  <2>3. due' \in [Browsers -> SUBSET Events]
    BY <1>1, <2>2 DEF EmitEvent, FeedTypes
  <2>. QED
    BY <1>1, <1>2, <2>1, <2>3 DEF FeedTypes
<1>4. ListSound'
  <2>1. ListSound
    BY DEF FeedInv
  <2>2. Distinct(queues)' /\ AllKnown(queues)'
    BY <2>1, <1>2 DEF ListSound, Distinct, AllKnown
  <2>3. ASSUME NEW x \in Emitters
        PROVE (Distinct(round[x]) /\ AllKnown(round[x]) /\ reached[x] <= Len(round[x]))'
    <3>1. CASE x = e
      <4>1. Len(queues) \in Nat
        BY <1>1, LenProperties DEF FeedTypes
      <4>. QED
        BY <2>1, <3>1, <1>2, <4>1 DEF ListSound, Distinct, AllKnown
    <3>2. CASE x # e
      BY <2>1, <3>2, <1>2 DEF ListSound, Distinct, AllKnown
    <3>. QED
      BY <3>1, <3>2
  <2>4. \A b \in Browsers : link'[b] \in {"open", "broken"} => \E i \in 1..Len(queues') : queues'[i] = b
    BY <2>1, <1>2 DEF ListSound
  <2>. QED
    BY <2>2, <2>3, <2>4 DEF ListSound
<1>5. ASSUME NEW b \in Browsers PROVE ~Coming(e, b)
  <2>1. Len(round[e]) \in Nat /\ reached[e] \in Nat /\ ~(reached[e] < Len(round[e]))
    BY <1>1, LenProperties DEF EmitEvent, Notifying, FeedTypes
  <2>. QED
    BY <2>1 DEF Coming
<1>6. ASSUME NEW b \in Browsers, NEW x \in Emitters, x # e PROVE Coming(x, b)' <=> Coming(x, b)
  BY <1>2, <1>6 DEF Coming
<1>7. ASSUME NEW b \in Browsers PROVE Coming(e, b)' <=> b \in Range(queues)
  <2>1. \A x : x \in Range(queues) <=> \E i \in 1..Len(queues) : queues[i] = x
    BY <1>1, RangeSeq DEF FeedTypes
  <2>2. \A i \in 1..Len(queues) : i > 0
    BY <1>1, LenProperties DEF FeedTypes
  <2>. QED
    BY <1>2, <2>1, <2>2 DEF Coming
<1>8. ASSUME NEW b \in Browsers PROVE BrowserOK(b)'
  <2>1. BrowserOK(b) /\ Had(b)' = Had(b) /\ missed'[b] = missed[b] /\ link'[b] = link[b]
    BY <1>2 DEF FeedInv, Had
  <2>2. ASSUME NEW x \in Emitters PROVE emitted[x] <= emitted'[x]
    <3>1. emitted[x] \in Nat
      BY <1>1 DEF FeedTypes
    <3>2. emitted'[x] = emitted[x] \/ emitted'[x] = emitted[x] + 1
      BY <1>2
    <3>. QED
      BY <3>1, <3>2
  <2>3. CASE b \notin Range(queues)
    <3>1. due'[b] = due[b]
      BY <2>3 DEF EmitEvent
    <3>2. \A x \in Emitters : Coming(x, b)' <=> Coming(x, b)
      BY <1>5, <1>6, <1>7, <2>3
    <3>3. \A x \in Emitters : Coming(x, b) => emitted'[x] = emitted[x]
      BY <1>2, <1>5
    <3>. QED
      BY <1>1, <1>2, <1>3, <2>1, <2>2, <3>1, <3>2, <3>3, Bystander
  <2>4. CASE b \in Range(queues)
    <3>1. PICK n : n = <<e, emitted[e] + 1>>
      OBVIOUS
    <3>2. due'[b] = due[b] \cup {n}
      BY <2>4, <3>1 DEF EmitEvent
    <3>3. OnTheWay(b)' = OnTheWay(b) \cup {n}
      <4>1. \A ev : ev \in OnTheWay(b) <=> \E x \in Emitters : ev = <<x, emitted[x]>> /\ Coming(x, b)
        BY <1>1, OnTheWayIs
      <4>2. \A ev : ev \in OnTheWay(b)' <=> \E x \in Emitters : ev = <<x, emitted'[x]>> /\ Coming(x, b)'
        BY <1>3, OnTheWayThen
      <4>3. \A ev : ev \in OnTheWay(b)' <=> ev \in OnTheWay(b) \/ ev = n
        BY <4>1, <4>2, <3>1, <1>2, <1>5, <1>6, <1>7, <2>4
      <4>. QED
        BY <4>3
    <3>4. n \notin due[b]
      BY <2>1, <1>2, <3>1 DEF BrowserOK
    <3>5. \A ev \in due'[b] : ev[2] <= emitted'[ev[1]]
      <4>1. n[2] <= emitted'[n[1]]
        BY <3>1, <1>2
      <4>2. ASSUME NEW ev \in due[b] PROVE ev[2] <= emitted'[ev[1]]
        <5>1. ev[1] \in Emitters /\ ev[2] \in Nat /\ ev[2] <= emitted[ev[1]]
          BY <1>1, <2>1 DEF FeedTypes, Events, BrowserOK
        <5>2. emitted[ev[1]] \in Nat /\ emitted'[ev[1]] \in Nat /\ emitted[ev[1]] <= emitted'[ev[1]]
          BY <5>1, <2>2, <1>1, <1>3 DEF FeedTypes
        <5>. QED
          BY <5>1, <5>2
      <4>. QED
        BY <3>2, <4>1, <4>2
    <3>6. link'[b] # "new"
      <4>1. \E i \in 1..Len(queues) : queues[i] = b
        BY <1>1, <2>4, RangeSeq DEF FeedTypes
      <4>. QED
        BY <4>1, <1>2 DEF FeedInv, ListSound, AllKnown
    <3>7. ASSUME link'[b] = "open" PROVE Kept(b)'
      <4>1. Kept(b)
        BY <3>7, <2>1 DEF BrowserOK
      <4>2. due[b] = Range(Had(b)) \cup missed[b] \cup OnTheWay(b)
            /\ Range(Had(b)) \cap (missed[b] \cup OnTheWay(b)) = {}
            /\ missed[b] \cap OnTheWay(b) = {} /\ InOrder(Had(b))
        BY <4>1 DEF Kept
      <4>3. due'[b] = Range(Had(b)) \cup missed[b] \cup OnTheWay(b)'
            /\ Range(Had(b)) \cap (missed[b] \cup OnTheWay(b)') = {}
            /\ missed[b] \cap OnTheWay(b)' = {}
        BY <4>2, <3>2, <3>3, <3>4
      <4>. QED
        BY <4>2, <4>3, <2>1 DEF Kept
    <3>. QED
      BY <3>5, <3>6, <3>7 DEF BrowserOK
  <2>. QED
    BY <2>3, <2>4
<1>. QED
  BY <1>3, <1>4, <1>8 DEF FeedInv

LEMMA ConnectKeeps ==
  ASSUME FeedInv, NEW b \in Browsers, Connect(b)
  PROVE  FeedInv'
<1>1. FeedTypes
  BY DEF FeedInv
<1>2. /\ link[b] = "new" /\ link'[b] = "open" /\ queues' = Append(queues, b)
      /\ \A c \in Browsers : c # b => link'[c] = link[c]
      /\ waitingFor' = waitingFor /\ emitted' = emitted /\ round' = round /\ reached' = reached
      /\ shown' = shown /\ missed' = missed /\ due' = due
  BY <1>1 DEF Connect, FeedTypes
<1>3. /\ queues' \in Seq(Browsers) /\ Len(queues') = Len(queues) + 1 /\ Len(queues) \in Nat
      /\ \A i \in 1..Len(queues) : queues'[i] = queues[i] /\ queues[i] \in Browsers
      /\ queues'[Len(queues) + 1] = b
  BY <1>1, <1>2, OneMore, RangeSeq DEF FeedTypes
<1>4. FeedTypes'
  <2>1. link' \in [Browsers -> Links]
    BY <1>1 DEF Connect, FeedTypes, Links
  <2>. QED
    BY <1>1, <1>2, <1>3, <2>1 DEF FeedTypes
<1>5. ListSound'
  <2>1. ListSound
    BY DEF FeedInv
  <2>2. \A i \in 1..Len(queues) : queues[i] # b
    BY <2>1, <1>2 DEF ListSound, AllKnown
  <2>3. Distinct(queues)'
    <3>1. SUFFICES ASSUME NEW i \in 1..Len(queues'), NEW j \in 1..Len(queues'), queues'[i] = queues'[j]
                   PROVE  i = j
      BY DEF Distinct
    <3>2. \A k \in 1..Len(queues') : k \in 1..Len(queues) \/ k = Len(queues) + 1
      BY <1>3
    <3>3. CASE i \in 1..Len(queues) /\ j \in 1..Len(queues)
      BY <3>1, <3>3, <1>3, <2>1 DEF ListSound, Distinct
    <3>4. CASE i = Len(queues) + 1 /\ j \in 1..Len(queues)
      BY <3>1, <3>4, <1>3, <2>2
    <3>5. CASE j = Len(queues) + 1 /\ i \in 1..Len(queues)
      BY <3>1, <3>5, <1>3, <2>2
    <3>. QED
      BY <3>2, <3>3, <3>4, <3>5
  <2>4. \A c \in Browsers : link[c] # "new" => link'[c] # "new"
    BY <1>2
  <2>5. AllKnown(queues)'
    <3>1. SUFFICES ASSUME NEW i \in 1..Len(queues') PROVE link'[queues'[i]] # "new"
      BY DEF AllKnown
    <3>2. i \in 1..Len(queues) \/ i = Len(queues) + 1
      BY <1>3
    <3>. QED
      BY <3>2, <1>2, <1>3, <2>1, <2>4 DEF ListSound, AllKnown
  <2>6. ASSUME NEW x \in Emitters
        PROVE (Distinct(round[x]) /\ AllKnown(round[x]) /\ reached[x] <= Len(round[x]))'
    <3>1. \A i \in 1..Len(round[x]) : round[x][i] \in Browsers
      BY <1>1, RangeSeq DEF FeedTypes
    <3>2. Distinct(round[x]) /\ AllKnown(round[x]) /\ reached[x] <= Len(round[x])
      BY <2>1 DEF ListSound
    <3>. QED
      BY <3>1, <3>2, <2>4, <1>2 DEF Distinct, AllKnown
  <2>7. ASSUME NEW c \in Browsers, link'[c] \in {"open", "broken"}
        PROVE \E i \in 1..Len(queues') : queues'[i] = c
    <3>1. CASE c = b
      <4>1. Len(queues) + 1 \in 1..Len(queues')
        BY <1>3
      <4>. QED
        BY <4>1, <3>1, <1>3
    <3>2. CASE c # b
      <4>1. PICK i \in 1..Len(queues) : queues[i] = c
        BY <2>1, <2>7, <3>2, <1>2 DEF ListSound
      <4>2. i \in 1..Len(queues')
        BY <1>3
      <4>. QED
        BY <4>1, <4>2, <1>3
    <3>. QED
      BY <3>1, <3>2
  <2>. QED
    BY <2>3, <2>5, <2>6, <2>7 DEF ListSound
<1>6. ASSUME NEW c \in Browsers PROVE BrowserOK(c)'
  <2>1. /\ \A x \in Emitters : Coming(x, c)' <=> Coming(x, c)
        /\ Had(c)' = Had(c) /\ missed'[c] = missed[c] /\ due'[c] = due[c]
        /\ shown'[c] = shown[c] /\ waitingFor'[c] = waitingFor[c]
        /\ BrowserOK(c)
    BY <1>2 DEF Coming, Had, FeedInv
  <2>2. \A x \in Emitters : emitted[x] <= emitted'[x] /\ emitted'[x] = emitted[x]
    BY <1>1, <1>2 DEF FeedTypes
  <2>3. CASE c # b
    BY <1>1, <1>2, <1>4, <2>1, <2>2, <2>3, Bystander
  <2>4. CASE c = b
    <3>1. Untouched(b)
      BY <1>2 DEF FeedInv, BrowserOK
    <3>2. OnTheWay(b)' = {}
      BY <1>4, <2>1, <2>4, <3>1, OnTheWayThen DEF Untouched
    <3>3. \A T : <<>> \in Seq(T) /\ Len(<<>>) = 0
      BY EmptySeq
    <3>4. Had(b)' = <<>>
      <4>1. Had(b) \in Seq(Events) /\ Len(Had(b)) = Len(shown[b]) + Len(waitingFor[b])
        BY <1>1, ConcatProperties DEF FeedTypes, Had
      <4>2. Len(Had(b)) = 0
        BY <4>1, <3>1, <3>3 DEF Untouched
      <4>. QED
        BY <4>1, <4>2, <2>1, <2>4, EmptySeq
    <3>5. Range(Had(b)') = {}
      <4>1. PICK h : h = Had(b)'
        OBVIOUS
      <4>2. h \in Seq(Events) /\ Len(h) = 0
        BY <4>1, <3>3, <3>4
      <4>3. \A x : x \in Range(h) <=> \E i \in 1..Len(h) : h[i] = x
        BY <4>2, RangeSeq
      <4>5. 1..Len(h) = {}
        BY <4>2
      <4>. QED
        BY <4>1, <4>3, <4>5
    <3>6. InOrder(Had(b)')
      BY <3>3, <3>4 DEF InOrder
    <3>7. Kept(b)'
      BY <3>1, <3>2, <3>5, <3>6, <1>2 DEF Kept, Untouched
    <3>. QED
      BY <3>1, <3>7, <1>2, <2>4 DEF BrowserOK, Untouched
  <2>. QED
    BY <2>3, <2>4
<1>. QED
  BY <1>4, <1>5, <1>6 DEF FeedInv

LEMMA HangUpKeeps ==
  ASSUME FeedInv, NEW b \in Browsers, HangUp(b)
  PROVE  FeedInv'
<1>1. FeedTypes
  BY DEF FeedInv
<1>2. /\ link[b] = "open" /\ link'[b] = "broken" /\ queues' = queues
      /\ \A c \in Browsers : c # b => link'[c] = link[c]
      /\ waitingFor' = waitingFor /\ emitted' = emitted /\ round' = round /\ reached' = reached
      /\ shown' = shown /\ missed' = missed /\ due' = due
  BY <1>1 DEF HangUp, FeedTypes
<1>3. FeedTypes'
  <2>1. link' \in [Browsers -> Links]
    BY <1>1 DEF HangUp, FeedTypes, Links
  <2>. QED
    BY <1>1, <1>2, <2>1 DEF FeedTypes
<1>4. ListSound'
  <2>1. ListSound
    BY DEF FeedInv
  <2>2. \A c \in Browsers : /\ link[c] # "new" => link'[c] # "new"
                            /\ link'[c] \in {"open", "broken"} => link[c] \in {"open", "broken"}
    BY <1>2
  <2>3. \A i \in 1..Len(queues) : queues[i] \in Browsers
    BY <1>1, RangeSeq DEF FeedTypes
  <2>4. \A e \in Emitters : \A i \in 1..Len(round[e]) : round[e][i] \in Browsers
    BY <1>1, RangeSeq DEF FeedTypes
  <2>. QED
    BY <2>1, <2>2, <2>3, <2>4, <1>2 DEF ListSound, Distinct, AllKnown
<1>5. ASSUME NEW c \in Browsers PROVE BrowserOK(c)'
  <2>1. /\ \A x \in Emitters : Coming(x, c)' <=> Coming(x, c)
        /\ Had(c)' = Had(c) /\ missed'[c] = missed[c] /\ due'[c] = due[c]
        /\ shown'[c] = shown[c] /\ waitingFor'[c] = waitingFor[c]
        /\ BrowserOK(c)
    BY <1>2 DEF Coming, Had, FeedInv
  <2>2. \A x \in Emitters : emitted[x] <= emitted'[x] /\ emitted'[x] = emitted[x]
    BY <1>1, <1>2 DEF FeedTypes
  <2>3. (link'[c] = "new" => link[c] = "new") /\ (link'[c] = "open" => link[c] = "open")
    BY <1>2
  <2>. QED
    BY <1>1, <1>3, <2>1, <2>2, <2>3, Bystander
<1>. QED
  BY <1>3, <1>4, <1>5 DEF FeedInv

(* The thread of a browser that has gone away leaves the list.               *)
LEMMA LeaveKeeps ==
  ASSUME FeedInv, FeedTypes', NEW b \in Browsers, Unsubscribe(b),
         link[b] = "broken", link' = [link EXCEPT ![b] = "gone"],
         \A c \in Browsers : c # b => waitingFor'[c] = waitingFor[c],
         UNCHANGED <<emitted, round, reached, missed, due, shown>>
  PROVE  FeedInv'
<1>1. FeedTypes
  BY DEF FeedInv
<1>2. /\ link'[b] = "gone" /\ \A c \in Browsers : c # b => link'[c] = link[c]
      /\ emitted' = emitted /\ round' = round /\ reached' = reached
      /\ shown' = shown /\ missed' = missed /\ due' = due
  BY <1>1 DEF FeedTypes
<1>3. ListSound
  BY DEF FeedInv
<1>4. /\ Distinct(queues')
      /\ \A i \in 1..Len(queues') : \E j \in 1..Len(queues) : queues'[i] = queues[j]
      /\ \A j \in 1..Len(queues) : queues[j] # b => \E i \in 1..Len(queues') : queues'[i] = queues[j]
  <2>1. \E i \in 1..Len(queues) : queues[i] = b
    BY <1>3 DEF ListSound
  <2>. QED
    BY <1>1, <1>3, <2>1, Removed DEF ListSound
<1>5. ListSound'
  <2>1. \A c \in Browsers : /\ link[c] # "new" => link'[c] # "new"
                            /\ link'[c] \in {"open", "broken"} => c # b /\ link[c] \in {"open", "broken"}
    BY <1>2
  <2>2. \A i \in 1..Len(queues) : queues[i] \in Browsers
    BY <1>1, RangeSeq DEF FeedTypes
  <2>3. \A e \in Emitters : \A i \in 1..Len(round[e]) : round[e][i] \in Browsers
    BY <1>1, RangeSeq DEF FeedTypes
  <2>4. Distinct(queues)'
    BY <1>4 DEF Distinct
  <2>5. AllKnown(queues)'
    BY <1>3, <1>4, <2>1, <2>2 DEF ListSound, AllKnown
  <2>6. \A e \in Emitters : (Distinct(round[e]) /\ AllKnown(round[e]) /\ reached[e] <= Len(round[e]))'
    BY <1>3, <1>2, <2>1, <2>3 DEF ListSound, Distinct, AllKnown
  <2>7. ASSUME NEW c \in Browsers, link'[c] \in {"open", "broken"}
        PROVE  \E i \in 1..Len(queues') : queues'[i] = c
    <3>1. c # b /\ link[c] \in {"open", "broken"}
      BY <2>1, <2>7
    <3>2. PICK j \in 1..Len(queues) : queues[j] = c
      BY <3>1, <1>3 DEF ListSound
    <3>. QED
      BY <3>1, <3>2, <1>4
  <2>. QED
    BY <2>4, <2>5, <2>6, <2>7 DEF ListSound
<1>6. ASSUME NEW c \in Browsers PROVE BrowserOK(c)'
  <2>1. BrowserOK(c) /\ missed'[c] = missed[c] /\ due'[c] = due[c]
    BY <1>2 DEF FeedInv
  <2>2. CASE c = b
    BY <2>1, <2>2, <1>2 DEF BrowserOK
  <2>3. CASE c # b
    <3>1. /\ \A x \in Emitters : Coming(x, c)' <=> Coming(x, c)
          /\ shown'[c] = shown[c] /\ waitingFor'[c] = waitingFor[c] /\ Had(c)' = Had(c)
      BY <2>3, <1>2 DEF Coming, Had
    <3>2. \A x \in Emitters : emitted[x] <= emitted'[x] /\ emitted'[x] = emitted[x]
      BY <1>1, <1>2 DEF FeedTypes
    <3>3. link'[c] = link[c]
      BY <2>3, <1>2
    <3>. QED
      BY <1>1, <2>1, <3>1, <3>2, <3>3, Bystander
  <2>. QED
    BY <2>2, <2>3
<1>. QED
  BY <1>5, <1>6 DEF FeedInv

LEMMA KeepaliveKeeps ==
  ASSUME FeedInv, NEW b \in Browsers, Keepalive(b)
  PROVE  FeedInv'
<1>1. FeedTypes /\ ListSound
  BY DEF FeedInv
<1>2. queues' \in Seq(Browsers)
  <2>1. \E i \in 1..Len(queues) : queues[i] = b
    BY <1>1 DEF ListSound, Keepalive
  <2>. QED
    BY <1>1, <2>1, Removed DEF ListSound, Keepalive
<1>3. FeedTypes'
  <2>1. link' \in [Browsers -> Links]
    BY <1>1 DEF Keepalive, FeedTypes, Links
  <2>. QED
    BY <1>1, <1>2, <2>1 DEF Keepalive, FeedTypes
<1>. QED
  BY <1>3, LeaveKeeps DEF Keepalive

LEMMA StreamKeeps ==
  ASSUME FeedInv, NEW b \in Browsers, Stream(b)
  PROVE  FeedInv'
<1>1. FeedTypes /\ ListSound
  BY DEF FeedInv
<1>2. /\ waitingFor[b] \in Seq(Events) /\ shown[b] \in Seq(Events) /\ waitingFor[b] # <<>>
      /\ waitingFor'[b] = Tail(waitingFor[b]) /\ link[b] \in {"open", "broken"}
      /\ \A c \in Browsers : c # b => waitingFor'[c] = waitingFor[c]
      /\ emitted' = emitted /\ round' = round /\ reached' = reached /\ missed' = missed /\ due' = due
  BY <1>1 DEF Stream, FeedTypes
<1>3. Head(waitingFor[b]) \in Events /\ Tail(waitingFor[b]) \in Seq(Events)
  BY <1>2, HeadTailProperties
<1>4. waitingFor' \in [Browsers -> Seq(Events)]
  BY <1>1, <1>3 DEF Stream, FeedTypes
<1>5. CASE link[b] = "open"
  <2>1. /\ shown' = [shown EXCEPT ![b] = Append(@, Head(waitingFor[b]))]
        /\ link' = link /\ queues' = queues
    BY <1>5 DEF Stream
  <2>2. shown'[b] = Append(shown[b], Head(waitingFor[b])) /\ \A c \in Browsers : c # b => shown'[c] = shown[c]
    BY <1>1, <2>1 DEF FeedTypes
  <2>3. FeedTypes'
    <3>1. Append(shown[b], Head(waitingFor[b])) \in Seq(Events)
      BY <1>2, <1>3, OneMore
    <3>2. shown' \in [Browsers -> Seq(Events)]
      BY <1>1, <2>1, <3>1 DEF FeedTypes
    <3>. QED
      BY <1>1, <1>2, <1>4, <2>1, <3>2 DEF FeedTypes
  <2>4. ListSound'
    BY <1>1, <1>2, <2>1 DEF ListSound, Distinct, AllKnown
  <2>5. ASSUME NEW c \in Browsers PROVE BrowserOK(c)'
    <3>1. /\ BrowserOK(c) /\ missed'[c] = missed[c] /\ due'[c] = due[c] /\ link'[c] = link[c]
          /\ \A x \in Emitters : Coming(x, c)' <=> Coming(x, c)
      BY <1>2, <2>1 DEF FeedInv, Coming
    <3>2. \A x \in Emitters : emitted[x] <= emitted'[x] /\ emitted'[x] = emitted[x]
      BY <1>1, <1>2 DEF FeedTypes
    <3>3. Had(c)' = Had(c)
      <4>1. CASE c = b
        <5>1. Append(shown[b], Head(waitingFor[b])) \o Tail(waitingFor[b]) = shown[b] \o waitingFor[b]
          BY <1>2, Joined
        <5>. QED
          BY <5>1, <4>1, <1>2, <2>2 DEF Had
      <4>2. CASE c # b
        BY <4>2, <1>2, <2>2 DEF Had
      <4>. QED
        BY <4>1, <4>2
    <3>4. link'[c] = "new" => shown'[c] = shown[c] /\ waitingFor'[c] = waitingFor[c]
      BY <1>5, <1>2, <2>1, <2>2
    <3>. QED
      BY <1>1, <2>3, <3>1, <3>2, <3>3, <3>4, Bystander
  <2>. QED
    BY <2>3, <2>4, <2>5 DEF FeedInv
<1>6. CASE link[b] = "broken"
  <2>1. link' = [link EXCEPT ![b] = "gone"] /\ Unsubscribe(b) /\ shown' = shown
    BY <1>6 DEF Stream
  <2>2. queues' \in Seq(Browsers)
    <3>1. \E i \in 1..Len(queues) : queues[i] = b
      BY <1>1, <1>6 DEF ListSound
    <3>. QED
      BY <1>1, <2>1, <3>1, Removed DEF ListSound
  <2>3. FeedTypes'
    <3>1. link' \in [Browsers -> Links]
      BY <1>1, <2>1 DEF FeedTypes, Links
    <3>. QED
      BY <1>1, <1>2, <1>4, <2>1, <2>2, <3>1 DEF FeedTypes
  <2>. QED
    BY <1>2, <1>6, <2>1, <2>3, LeaveKeeps
<1>. QED
  BY <1>2, <1>5, <1>6

LEMMA PutKeeps ==
  ASSUME FeedInv, NEW e \in Emitters, Put(e)
  PROVE  FeedInv'
<1>1. FeedTypes /\ ListSound
  BY DEF FeedInv
<1>2. PICK c, k : c = round[e][k] /\ k = reached[e] + 1
  OBVIOUS
<1>3. /\ Len(round[e]) \in Nat /\ reached[e] \in Nat /\ k \in 1..Len(round[e]) /\ k \in Nat
      /\ c \in Browsers /\ Distinct(round[e]) /\ AllKnown(round[e])
  <2>1. round[e] \in Seq(Browsers) /\ reached[e] \in Nat
    BY <1>1 DEF FeedTypes
  <2>2. Len(round[e]) \in Nat /\ \A i \in 1..Len(round[e]) : round[e][i] \in Browsers
    BY <2>1, RangeSeq
  <2>3. reached[e] < Len(round[e])
    BY DEF Put, Notifying
  <2>4. k \in 1..Len(round[e]) /\ k \in Nat
    BY <2>1, <2>2, <2>3, <1>2
  <2>. QED
    BY <2>1, <2>2, <2>4, <1>1, <1>2 DEF ListSound
<1>4. /\ queues' = queues /\ link' = link /\ emitted' = emitted /\ round' = round
      /\ shown' = shown /\ due' = due /\ reached'[e] = k /\ reached' \in [Emitters -> Nat]
      /\ \A x \in Emitters : x # e => reached'[x] = reached[x]
  BY <1>1, <1>2, <1>3 DEF Put, FeedTypes
<1>5. PICK ev : ev = Event(e)
  OBVIOUS
<1>6. ev = <<e, emitted[e]>> /\ ev \in Events /\ emitted[e] \in Nat
  BY <1>1, <1>5 DEF Event, Events, FeedTypes
<1>7. Offer(e, c)
  BY <1>2 DEF Put
<1>8. \/ /\ waitingFor' = [waitingFor EXCEPT ![c] = Append(@, ev)] /\ missed' = missed
      \/ /\ missed' = [missed EXCEPT ![c] = @ \cup {ev}] /\ waitingFor' = waitingFor
  BY <1>7, <1>5 DEF Offer
<1>9. \/ /\ waitingFor'[c] = Append(waitingFor[c], ev) /\ missed'[c] = missed[c]
         /\ waitingFor' \in [Browsers -> Seq(Events)]
      \/ /\ missed'[c] = missed[c] \cup {ev} /\ waitingFor'[c] = waitingFor[c]
         /\ waitingFor' \in [Browsers -> Seq(Events)]
  <2>1. waitingFor \in [Browsers -> Seq(Events)] /\ missed \in [Browsers -> SUBSET Events]
    BY <1>1 DEF FeedTypes
  <2>2. Append(waitingFor[c], ev) \in Seq(Events)
    BY <1>3, <1>6, <2>1, OneMore
  <2>3. CASE waitingFor' = [waitingFor EXCEPT ![c] = Append(@, ev)] /\ missed' = missed
    BY <2>1, <2>2, <2>3, <1>3
  <2>4. CASE missed' = [missed EXCEPT ![c] = @ \cup {ev}] /\ waitingFor' = waitingFor
    BY <2>1, <2>4, <1>3
  <2>. QED
    BY <2>3, <2>4, <1>8
<1>10. \A b \in Browsers : b # c => waitingFor'[b] = waitingFor[b] /\ missed'[b] = missed[b]
  <2>1. waitingFor \in [Browsers -> Seq(Events)] /\ missed \in [Browsers -> SUBSET Events]
    BY <1>1 DEF FeedTypes
  <2>2. CASE waitingFor' = [waitingFor EXCEPT ![c] = Append(@, ev)] /\ missed' = missed
    BY <2>1, <2>2
  <2>3. CASE missed' = [missed EXCEPT ![c] = @ \cup {ev}] /\ waitingFor' = waitingFor
    BY <2>1, <2>3
  <2>. QED
    BY <2>2, <2>3, <1>8
<1>11. missed' \in [Browsers -> SUBSET Events]
  <2>1. missed \in [Browsers -> SUBSET Events]
    BY <1>1 DEF FeedTypes
  <2>. QED
    BY <2>1, <1>8, <1>6, <1>3
<1>12. FeedTypes'
  BY <1>1, <1>4, <1>9, <1>11 DEF FeedTypes
<1>13. ListSound'
  <2>1. ASSUME NEW x \in Emitters PROVE reached'[x] <= Len(round[x])
    BY <1>1, <1>3, <1>4 DEF ListSound
  <2>. QED
    BY <1>1, <1>4, <2>1 DEF ListSound, Distinct, AllKnown
<1>14. Coming(e, c) /\ ~Coming(e, c)'
  <2>1. Coming(e, c)
    BY <1>2, <1>3 DEF Coming
  <2>2. \A i \in 1..Len(round[e]) : round[e][i] = c => i = k
    BY <1>2, <1>3 DEF Distinct
  <2>3. \A i \in 1..Len(round[e]) : i > k => i # k
    BY <1>3
  <2>. QED
    BY <2>1, <2>2, <2>3, <1>4 DEF Coming
<1>15. ASSUME NEW b \in Browsers, NEW x \in Emitters, b # c \/ x # e
       PROVE  Coming(x, b)' <=> Coming(x, b)
  <2>1. CASE x # e
    BY <2>1, <1>4 DEF Coming
  <2>2. CASE x = e /\ b # c
    <3>1. \A i \in 1..Len(round[e]) : i > k <=> i > reached[e] /\ i # k
      BY <1>2, <1>3
    <3>. QED
      BY <2>2, <3>1, <1>2, <1>4 DEF Coming
  <2>. QED
    BY <2>1, <2>2, <1>15
<1>16. ASSUME NEW b \in Browsers PROVE BrowserOK(b)'
  <2>1. BrowserOK(b)
    BY DEF FeedInv
  <2>2. CASE b # c
    <3>1. Had(b)' = Had(b) /\ shown'[b] = shown[b] /\ waitingFor'[b] = waitingFor[b]
          /\ missed'[b] = missed[b] /\ due'[b] = due[b] /\ link'[b] = link[b]
      BY <2>2, <1>4, <1>10 DEF Had
    <3>2. \A x \in Emitters : Coming(x, b)' <=> Coming(x, b)
      BY <2>2, <1>15
    <3>3. \A x \in Emitters : emitted[x] <= emitted'[x] /\ emitted'[x] = emitted[x]
      BY <1>1, <1>4 DEF FeedTypes
    <3>. QED
      BY <1>1, <1>12, <2>1, <3>1, <3>2, <3>3, Bystander
  <2>3. CASE b = c
    <3>1. link'[b] # "new"
      BY <2>3, <1>2, <1>3, <1>4 DEF AllKnown
    <3>2. \A v \in due'[b] : v[2] <= emitted'[v[1]]
      BY <2>1, <1>4 DEF BrowserOK
    <3>3. ASSUME link'[b] = "open" PROVE Kept(b)'
      <4>1. Kept(b)
        BY <3>3, <2>1, <1>4 DEF BrowserOK
      <4>2. PICK h, w : h = Had(b) /\ w = OnTheWay(b)
        OBVIOUS
      <4>3. h \in Seq(Events) /\ due[b] = Range(h) \cup missed[b] \cup w
            /\ Range(h) \cap (missed[b] \cup w) = {} /\ missed[b] \cap w = {} /\ InOrder(h)
        BY <4>1, <4>2, <1>1, HadIs DEF Kept
      <4>4. ev \in w /\ OnTheWay(b)' = w \ {ev}
        <5>1. \A v : v \in w <=> \E x \in Emitters : v = <<x, emitted[x]>> /\ Coming(x, b)
          BY <1>1, <4>2, OnTheWayIs
        <5>2. \A v : v \in OnTheWay(b)' <=> \E x \in Emitters : v = <<x, emitted[x]>> /\ Coming(x, b)'
          BY <1>12, <1>4, OnTheWayThen
        <5>3. ev \in w
          BY <5>1, <1>6, <1>14, <2>3
        <5>4. \A v : v \in OnTheWay(b)' <=> v \in w /\ v # ev
          BY <5>1, <5>2, <1>6, <1>14, <1>15, <2>3
        <5>. QED
          BY <5>3, <5>4
      <4>5. CASE waitingFor'[c] = Append(waitingFor[c], ev) /\ missed'[c] = missed[c]
        <5>1. Had(b)' = Append(h, ev)
          <6>1. shown[b] \in Seq(Events) /\ waitingFor[b] \in Seq(Events)
            BY <1>1 DEF FeedTypes
          <6>3. ev \in Events
            BY <1>6
          <6>2. PICK x : x = Append(h, ev)
            OBVIOUS
          <6>4. Joins(shown[b], waitingFor[b], h) /\ Adds(waitingFor[b], ev, waitingFor'[b]) /\ Adds(h, ev, x)
            BY <4>2, <4>5, <2>3, <6>2 DEF Joins, Adds, Had
          <6>5. Joins(shown[b], waitingFor'[b], x)
            BY <6>1, <6>3, <6>4, JoinedMore
          <6>. QED
            BY <6>2, <6>5, <1>4 DEF Had, Joins
        <5>2. PICK g : g = Append(h, ev)
          OBVIOUS
        <5>3. /\ g \in Seq(Events) /\ Len(g) = Len(h) + 1 /\ Len(h) \in Nat /\ Range(g) = Range(h) \cup {ev}
              /\ \A i \in 1..Len(h) : g[i] = h[i] /\ h[i] \in Range(h) /\ h[i] \in Events
              /\ g[Len(h) + 1] = ev
          <6>1. h \in Seq(Events) /\ ev \in Events
            BY <4>3, <1>6
          <6>2. /\ Append(h, ev) \in Seq(Events) /\ Len(Append(h, ev)) = Len(h) + 1
                /\ Range(Append(h, ev)) = Range(h) \cup {ev}
                /\ \A i \in 1..Len(h) : Append(h, ev)[i] = h[i]
                /\ Append(h, ev)[Len(h) + 1] = ev
            BY <6>1, OneMore
          <6>3. Len(h) \in Nat /\ \A i \in 1..Len(h) : h[i] \in Range(h) /\ h[i] \in Events
            BY <6>1, RangeSeq
          <6>. QED
            BY <5>2, <6>2, <6>3
        <5>4. ASSUME NEW i \in 1..Len(h), h[i][1] = e PROVE h[i][2] < emitted[e]
          <6>1. h[i] \in due[b] /\ h[i] # ev
            BY <4>3, <4>4, <5>3
          <6>2. h[i][2] <= emitted[e] /\ h[i][2] \in Nat /\ h[i] = <<e, h[i][2]>>
            BY <6>1, <5>3, <5>4, <2>1 DEF BrowserOK, Events
          <6>3. h[i][2] # emitted[e]
            BY <6>1, <6>2, <1>6
          <6>. QED
            BY <6>2, <6>3, <1>6
        <5>5. InOrder(g)
          <6>1. SUFFICES ASSUME NEW i \in 1..Len(g), NEW j \in 1..Len(g), i < j, g[i][1] = g[j][1]
                         PROVE  g[i][2] < g[j][2]
            BY DEF InOrder
          <6>2. i \in 1..Len(h) /\ (j \in 1..Len(h) \/ j = Len(h) + 1)
            BY <6>1, <5>3
          <6>3. CASE j \in 1..Len(h)
            BY <6>1, <6>2, <6>3, <5>3, <4>3 DEF InOrder
          <6>4. CASE j = Len(h) + 1
            <7>1. g[j][1] = e /\ g[j][2] = emitted[e]
              BY <6>4, <5>3, <1>6
            <7>. QED
              BY <7>1, <6>1, <6>2, <5>3, <5>4
          <6>. QED
            BY <6>2, <6>3, <6>4
        <5>6. due[b] = Range(g) \cup missed[b] \cup (w \ {ev})
              /\ Range(g) \cap (missed[b] \cup (w \ {ev})) = {} /\ missed[b] \cap (w \ {ev}) = {}
          BY <4>3, <4>4, <5>3
        <5>7. Had(b)' = g /\ missed'[b] = missed[b] /\ due'[b] = due[b]
          BY <5>1, <5>2, <4>5, <2>3, <1>4
        <5>. QED
          BY <5>5, <5>6, <5>7, <4>4 DEF Kept
      <4>6. CASE missed'[c] = missed[c] \cup {ev} /\ waitingFor'[c] = waitingFor[c]
        <5>1. Had(b)' = h /\ due'[b] = due[b] /\ missed'[b] = missed[b] \cup {ev}
          BY <4>2, <4>6, <2>3, <1>4 DEF Had
        <5>2. due[b] = Range(h) \cup (missed[b] \cup {ev}) \cup (w \ {ev})
              /\ Range(h) \cap ((missed[b] \cup {ev}) \cup (w \ {ev})) = {}
              /\ (missed[b] \cup {ev}) \cap (w \ {ev}) = {}
          BY <4>3, <4>4
        <5>. QED
          BY <4>3, <4>4, <5>1, <5>2 DEF Kept
      <4>. QED
        BY <4>5, <4>6, <1>9
    <3>. QED
      BY <3>1, <3>2, <3>3 DEF BrowserOK
  <2>. QED
    BY <2>2, <2>3
<1>. QED
  BY <1>12, <1>13, <1>16 DEF FeedInv

LEMMA FeedStep == FeedInv /\ [FeedNext]_feedVars => FeedInv'
<1>. SUFFICES ASSUME FeedInv, [FeedNext]_feedVars PROVE FeedInv'
  OBVIOUS
<1>1. ASSUME NEW e \in Emitters, EmitEvent(e) PROVE FeedInv'
  BY <1>1, EmitKeeps
<1>2. ASSUME NEW e \in Emitters, Put(e) PROVE FeedInv'
  BY <1>2, PutKeeps
<1>3. ASSUME NEW b \in Browsers, Connect(b) PROVE FeedInv'
  BY <1>3, ConnectKeeps
<1>4. ASSUME NEW b \in Browsers, Stream(b) PROVE FeedInv'
  BY <1>4, StreamKeeps
<1>5. ASSUME NEW b \in Browsers, Keepalive(b) PROVE FeedInv'
  BY <1>5, KeepaliveKeeps
<1>6. ASSUME NEW b \in Browsers, HangUp(b) PROVE FeedInv'
  BY <1>6, HangUpKeeps
<1>7. CASE UNCHANGED feedVars
  <2>1. /\ queues' = queues /\ waitingFor' = waitingFor /\ link' = link /\ emitted' = emitted
        /\ round' = round /\ reached' = reached /\ shown' = shown /\ missed' = missed /\ due' = due
    BY <1>7 DEF feedVars
  <2>2. FeedTypes' /\ ListSound'
    BY <2>1 DEF FeedInv, FeedTypes, ListSound, Distinct, AllKnown
  <2>3. ASSUME NEW b \in Browsers PROVE BrowserOK(b)'
    BY <2>1 DEF FeedInv, BrowserOK, Kept, Untouched, Had, Coming, OnTheWay, Event
  <2>. QED
    BY <2>2, <2>3 DEF FeedInv
<1>. QED
  BY <1>1, <1>2, <1>3, <1>4, <1>5, <1>6, <1>7 DEF FeedNext

(* A browser that stays connected gets every event whose notify found it    *)
(* subscribed, in its emitter's order and once, but those its full queue    *)
(* dropped (SSEObserver.notify, server.py), for any number of emitters and  *)
(* browsers and any capacity.                                               *)
THEOREM FeedKeptHolds == FeedSpec => []FeedKept
<1>1. FeedInv => FeedKept
  <2>1. SUFFICES ASSUME FeedInv, NEW b \in Browsers, link[b] = "open"
                 PROVE  /\ due[b] = Range(Had(b)) \cup missed[b] \cup OnTheWay(b)
                        /\ Range(Had(b)) \cap (missed[b] \cup OnTheWay(b)) = {}
                        /\ \A i, j \in DOMAIN Had(b) :
                             i < j /\ Had(b)[i][1] = Had(b)[j][1] => Had(b)[i][2] < Had(b)[j][2]
    BY DEF FeedKept, Had
  <2>2. Kept(b) /\ Had(b) \in Seq(Events)
    BY <2>1, HadIs DEF FeedInv, BrowserOK
  <2>3. DOMAIN Had(b) = 1..Len(Had(b))
    BY <2>2, LenProperties
  <2>. QED
    BY <2>2, <2>3 DEF Kept, InOrder
<1>. QED
  BY <1>1, FeedInitHolds, FeedStep, PTL DEF FeedSpec

(* What the observers keep is what the run emitted, whoever connects and     *)
(* however often a task is tried (SSEObserver, TraceObserver).               *)
THEOREM ObservedWholeHolds == FeedSpec /\ TrailsSpec => []ObservedWhole
<1>1. FeedKept /\ TrailsTell => ObservedWhole
  BY DEF ObservedWhole
<1>. QED
  BY <1>1, FeedKeptHolds, TrailsTellHolds, PTL
================================================================================
