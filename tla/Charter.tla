-------------------------------- MODULE Charter --------------------------------
(***************************************************************************)
(* The rules of a colony (ormica/cortex) and who obeys them: growth        *)
(* through ConstitutionPolicy.allow, the turns of agents through           *)
(* _enforce_constitution, _enforce_constitution_post and _verify_check     *)
(* (ormica/agent.py).  A rule stands for the whole org or for a node and   *)
(* everything below it, and may be added at any time, between two awaits   *)
(* of a turn too.                                                          *)
(*                                                                         *)
(* A rule is its kind and its severity; the one argument of each kind is a *)
(* constant.  A text is the set of traits that the rules ask about.        *)
(***************************************************************************)
EXTENDS Naturals, Sequences, FiniteSets

CONSTANTS
  Charters,      \* the rules an org may be constructed with: sets of rules
  Rules,         \* those that may be added later
  Openings,         \* what may be spawned: [name, role, task]
  Judges,        \* agents at work at the same time
  Texts,         \* sets of traits: prompts and answers
  TokenCosts,
  DepthCap, ScarceRole, BarredRole, ReservedName, TokenCap, ReplyCap,
  Allowance,     \* TokenBudget.limit
  MaxTries,      \* max_verify_attempts
  MaxLoops,      \* max_iterations
  MaxSites, MaxRules, MaxTurns   \* bounds on the nodes, the rules added, the turns

ASSUME CharterAssumption ==
  /\ TokenCosts \subseteq Nat /\ IsFiniteSet(Judges)
  /\ {DepthCap, TokenCap, ReplyCap, Allowance, MaxRules, MaxTurns} \subseteq Nat
  /\ {MaxTries, MaxLoops, MaxSites} \subseteq Nat \ {0}

Org == 0       \* whom a rule of the Constitution stands for
Trunk == 1     \* the root

VARIABLES
  charter,    \* the rules the org was constructed with
  statutes,   \* Org or node -> its rules
  sites,      \* the nodes: [name, role, task, up, alive], up = Org for none;
              \* ghost law, the rules that its spawn had to obey
  armed,      \* nodes with tools
  sitting,    \* agent -> the turn it is in
  tokens,     \* TokenBudget.used
  noted,      \* the soft rules that events were emitted for
  turns,
  rulings     \* ghost: the accepted answers [text, cost, law]

charterVars == <<charter, statutes, sites, armed, sitting, tokens, noted, turns, rulings>>

NoSitting == [at |-> "off", site |-> Trunk, verify |-> FALSE, attempt |-> 0, thinks |-> 0, law |-> {}]

CharterInit ==
  /\ charter \in Charters
  /\ statutes = [h \in Org..MaxSites |-> IF h = Org THEN charter ELSE {}]
  /\ sites = <<[name |-> "root", role |-> "root", task |-> "", up |-> Org, alive |-> TRUE, law |-> {}]>>
  /\ armed \in {{}, {Trunk}}
  /\ sitting = [j \in Judges |-> NoSitting]
  /\ tokens = 0 /\ noted = {} /\ turns = 0 /\ rulings = {}

-------------------------------------------------------------------------------
(* The tree *)

Sites == DOMAIN sites

\* Node.path, as a set, of each of the nodes ss.
Paths(ss) ==
  LET upTo[m \in DOMAIN ss] == {m} \cup IF ss[m].up = Org THEN {} ELSE upTo[ss[m].up]
  IN upTo

Path(n) == Paths(sites)[n]

SiteDepth(n) == Cardinality(Path(n)) - 1

\* Node.walk.
Subtree(n) == {m \in Sites : n \in Path(m)}

-------------------------------------------------------------------------------
(* The rule library: what each factory's check says of its context *)

MaxDepth(c) == c.depth <= DepthCap
BlockRole(c) == c.role # BarredRole
NoChildName(c) == c.child_name # ReservedName

\* Mutant: the children of the parent only.
UniqueAmongChildren(c) ==
  ~(c.role = ScarceRole /\ \E m \in Sites : sites[m].up = c.parent /\ sites[m].role = ScarceRole)

UniqueRoleInSubtree(c) ==
  ~(c.role = ScarceRole /\ \E m \in Subtree(c.parent) : sites[m].role = ScarceRole)

CapTokens(c) == c.used < TokenCap
BlockPromptPattern(c) == "pattern" \notin c.prompt
MinTaskDescription(c) == c.task_text # ""
\* An agent that no runner drives has no task.
MinRuntimeTaskDescription(c) == c.task # "brief"

\* A phrase by itself, with a suffix, or within another word.
BannedWords(c) == "phrase" \notin c.text
BannedSubstrings(c) == {"phrase", "inflected", "enclosed"} \cap c.text = {}
BannedWordStems(c) == {"phrase", "inflected"} \cap c.text = {}
MaxResponseTokens(c) == c.cost <= ReplyCap
MinResponseLength(c) == c.text # {}
RequireJson(c) == "json" \in c.text

MustMatch(c) == "needle" \in c.text
MustContain(c) == "needle" \in c.text
MustBeJson(c) == c.text # {} /\ "json" \in c.text
\* The code of the answer, run in the sandbox, ended in time, without an
\* error, and printed what is expected.
SandboxOracle(c) == {"late", "error", "wrong"} \cap c.text = {}

RuleKinds ==
  [spawn |-> {"max_depth", "block_role", "no_child_name", "unique_role_in_subtree"},
   pre |-> {"max_tokens", "block_prompt_pattern", "min_task_description",
            "min_runtime_task_description", "faulty"},
   post |-> {"banned_words", "banned_substrings", "banned_word_stems", "max_response_tokens",
             "min_response_length", "require_json"},
   verify |-> {"must_match", "must_contain", "must_be_json", "grounded"}]

\* Rule.evaluate: a check that raises is a violation.
Upholds(rule, c) ==
  CASE rule.kind = "max_depth" -> MaxDepth(c)
    [] rule.kind = "block_role" -> BlockRole(c)
    [] rule.kind = "no_child_name" -> NoChildName(c)
    [] rule.kind = "unique_role_in_subtree" -> UniqueRoleInSubtree(c)
    [] rule.kind = "max_tokens" -> CapTokens(c)
    [] rule.kind = "block_prompt_pattern" -> BlockPromptPattern(c)
    [] rule.kind = "min_task_description" -> MinTaskDescription(c)
    [] rule.kind = "min_runtime_task_description" -> MinRuntimeTaskDescription(c)
    [] rule.kind = "banned_words" -> BannedWords(c)
    [] rule.kind = "banned_substrings" -> BannedSubstrings(c)
    [] rule.kind = "banned_word_stems" -> BannedWordStems(c)
    [] rule.kind = "max_response_tokens" -> MaxResponseTokens(c)
    [] rule.kind = "min_response_length" -> MinResponseLength(c)
    [] rule.kind = "require_json" -> RequireJson(c)
    [] rule.kind = "must_match" -> MustMatch(c)
    [] rule.kind = "must_contain" -> MustContain(c)
    [] rule.kind = "must_be_json" -> MustBeJson(c)
    [] rule.kind = "grounded" -> SandboxOracle(c)
    [] OTHER -> FALSE

\* Constitution.check.
Broken(rules, c) == {r \in rules : ~Upholds(r, c)}

Hard(rules) == {r \in rules : r.severity = "hard"}
Soft(rules) == rules \ Hard(rules)

\* The rules of a stage that a node is under: those of the org, its own and
\* those of its ancestors.
Standing(n, stage) ==
  {r \in UNION {statutes[h] : h \in {Org} \cup Path(n)} : r.kind \in RuleKinds[stage]}

-------------------------------------------------------------------------------
(* Rules and nodes come and go *)

\* Constitution.add, or an addition to the rules of a node.
Enact(h, r) ==
  /\ h # Org => sites[h].alive
  /\ Cardinality(UNION {{<<k, s>> : s \in statutes[k]} : k \in DOMAIN statutes})
       < Cardinality(charter) + MaxRules
  /\ r \notin statutes[h]
  /\ statutes' = [statutes EXCEPT ![h] = @ \cup {r}]
  /\ UNCHANGED <<charter, sites, armed, sitting, tokens, noted, turns, rulings>>

\* ConstitutionPolicy.allow: the soft violations are dropped.
Allowed(p, post) ==
  LET c == [parent |-> p, child_name |-> post.name, depth |-> SiteDepth(p) + 1,
            role |-> post.role, task_text |-> post.task]
  IN Hard(Broken(Standing(p, "spawn"), c)) = {}

Sprout(p, post) ==
  /\ sites[p].alive /\ Len(sites) < MaxSites
  /\ Allowed(p, post)
  /\ sites' = Append(sites, [name |-> post.name, role |-> post.role, task |-> post.task, up |-> p,
                             alive |-> TRUE, law |-> Standing(p, "spawn")])
  /\ UNCHANGED <<charter, statutes, armed, sitting, tokens, noted, turns, rulings>>

\* The nodes below a pruned one keep their parents, and it loses its own.
Fell(n) ==
  /\ n # Trunk /\ sites[n].alive
  /\ sites' = [m \in Sites |->
                 IF m = n THEN [sites[m] EXCEPT !.alive = FALSE, !.up = Org]
                 ELSE IF m \in Subtree(n) THEN [sites[m] EXCEPT !.alive = FALSE] ELSE sites[m]]
  /\ UNCHANGED <<charter, statutes, armed, sitting, tokens, noted, turns, rulings>>

-------------------------------------------------------------------------------
(* Turns *)

Spent(used) == used >= Allowance

Answerable(n) == Standing(n, "post") \cup Standing(n, "verify")

Rises(j) == sitting' = [sitting EXCEPT ![j] = NoSitting]

Sits(j, n) ==
  /\ turns' = turns + 1
  /\ sitting' = [sitting EXCEPT ![j] =
       [at |-> "thinks", site |-> n, verify |-> Standing(n, "verify") # {}, attempt |-> 1,
        thinks |-> 1, law |-> Answerable(n)]]

\* Agent.act up to its first await: a refused turn changes nothing, and one
\* without a token left has emitted the soft violations.
Opens(j, n, prompt, task) ==
  /\ sitting[j].at = "off" /\ turns < MaxTurns
  /\ sites[n].alive /\ n \notin armed
  /\ LET broken == Broken(Standing(n, "pre"),
                          [task_text |-> sites[n].task, task |-> task, prompt |-> prompt, used |-> tokens])
     IN Hard(broken) = {} /\ noted' = noted \cup broken
  /\ IF Spent(tokens) THEN UNCHANGED <<sitting, turns>> ELSE Sits(j, n)
  /\ UNCHANGED <<charter, statutes, sites, armed, tokens, rulings>>

\* Agent.act_with_tools: no pre rule is asked.
OpensLoop(j, n) ==
  /\ sitting[j].at = "off" /\ turns < MaxTurns
  /\ sites[n].alive /\ n \in armed
  /\ ~Spent(tokens)
  /\ Sits(j, n)
  /\ UNCHANGED <<charter, statutes, sites, armed, tokens, noted, rulings>>

\* The turn thinks once more where it may.
ThinksAgain(j, used) ==
  IF IF sitting[j].site \in armed THEN sitting[j].thinks < MaxLoops ELSE ~Spent(used)
  THEN sitting' = [sitting EXCEPT ![j].attempt = @ + 1, ![j].thinks = @ + 1]
  ELSE Rises(j)

\* A text is answered: it is paid for, and judged by the rules of now.
Judged(j, text, cost) ==
  LET n == sitting[j].site
      c == [text |-> text, cost |-> cost]
      post == Broken(Standing(n, "post"), c)
      verify == IF sitting[j].verify THEN Broken(Standing(n, "verify"), c) ELSE {}
      accepted == Hard(post) = {} /\ Hard(verify) = {}
  IN /\ noted' = noted \cup (IF Hard(post) # {} THEN {} ELSE Soft(post) \cup Soft(verify))
     /\ rulings' = rulings \cup
          (IF accepted THEN {[text |-> text, cost |-> cost, law |-> sitting[j].law \cap Answerable(n)]}
                       ELSE {})
     /\ IF accepted \/ Hard(post) # {} \/ sitting[j].attempt = MaxTries
        THEN Rises(j) ELSE ThinksAgain(j, tokens + cost)

Replies(j, text, cost) ==
  /\ sitting[j].at = "thinks"
  /\ tokens' = tokens + cost
  /\ Judged(j, text, cost)
  /\ UNCHANGED <<charter, statutes, sites, armed, turns>>

\* The answer asks for tools, which run: no rule judges it.
AsksTools(j, cost) ==
  /\ sitting[j].at = "thinks" /\ sitting[j].site \in armed
  /\ tokens' = tokens + cost
  /\ IF sitting[j].thinks < MaxLoops
     THEN sitting' = [sitting EXCEPT ![j].thinks = @ + 1] ELSE Rises(j)
  /\ UNCHANGED <<charter, statutes, sites, armed, noted, turns, rulings>>

CharterNext ==
  \/ \E h \in {Org} \cup Sites, r \in Rules : Enact(h, r)
  \/ \E p \in Sites, post \in Openings : Sprout(p, post)
  \/ \E n \in Sites : Fell(n)
  \/ \E j \in Judges, n \in Sites :
       \/ \E prompt \in Texts, task \in {"none", "brief", "long"} : Opens(j, n, prompt, task)
       \/ OpensLoop(j, n)
  \/ \E j \in Judges, cost \in TokenCosts :
       \/ \E text \in Texts : Replies(j, text, cost)
       \/ AsksTools(j, cost)

CharterSpec == CharterInit /\ [][CharterNext]_charterVars

-------------------------------------------------------------------------------
(* What the rules bring about *)

(* A node spawned under a hard unique_role_in_subtree rule has no older node *)
(* of that role at or below its parent, whoever attached the rule and        *)
(* however the tree has been cut since (rules.py, ConstitutionPolicy.allow). *)
RoleKept ==
  \A x, y \in Sites :
    (/\ x < y /\ sites[x].alive /\ sites[y].alive
     /\ sites[x].role = ScarceRole /\ sites[y].role = ScarceRole
     /\ [kind |-> "unique_role_in_subtree", severity |-> "hard"] \in sites[y].law)
    => sites[y].up \notin Path(x)

(* Where the org has had a hard max_tokens rule from the start and no node   *)
(* has tools, it is overspent by what the turns at work when the cap was     *)
(* reached can still answer, and no more (max_tokens, Agent.act).            *)
OverspendBounded ==
  [kind |-> "max_tokens", severity |-> "hard"] \in charter /\ armed = {} /\ tokens > 0 =>
    \A cost \in TokenCosts :
      (\A other \in TokenCosts : other <= cost) =>
        tokens < TokenCap + Cardinality(Judges) * MaxTries * cost

(* An answer that was accepted breaks no hard rule that stood when its turn  *)
(* began and stands still, and every soft one it breaks has been reported    *)
(* (Agent.act).                                                              *)
AnswersLawful ==
  \A r \in rulings : LET broken == Broken(r.law, [text |-> r.text, cost |-> r.cost])
                     IN Hard(broken) = {} /\ broken \subseteq noted

CharterKept == RoleKept /\ OverspendBounded /\ AnswersLawful
================================================================================
