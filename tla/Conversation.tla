------------------------------ MODULE Conversation -----------------------------
(***************************************************************************)
(* What a vendor's API is sent in a tool loop: the history that            *)
(* Agent.act_with_tools builds, with corrections of verify in between, and *)
(* its conversion by the adapters (ormica/brain/claude.py, gpt.py,         *)
(* universal.py, gemini.py).  Texts are left out; calls and results are    *)
(* kept by their ids, as far as they are sent.                             *)
(*                                                                         *)
(* A turn of the history is [role, calls, answers]: the ids of tool_calls, *)
(* and tool_call_id, 0 where there is none.  What is sent is a sequence of *)
(* the same form with the roles, and the names of links, of the vendor.    *)
(***************************************************************************)
EXTENDS Naturals, Sequences

CONSTANTS
  CallBound,    \* bound on the tool calls of one response
  ThinkBound    \* max_iterations

ASSUME ConversationAssumption == {CallBound, ThinkBound} \subseteq Nat

VARIABLES
  vendor,      \* whose API is used
  hasSystem,   \* there is a system prompt
  history,
  unanswered,  \* calls of the last response still to run: [id, tool]
  thoughts,    \* iterations of the loop
  mode         \* "thinks", "runs", "over"

talkVars == <<vendor, hasSystem, history, unanswered, thoughts, mode>>

\* What a call may name: a tool, one that needs an approval, an async one, or
\* nothing the agent has.
ToolKinds == {"plain", "gated", "async", "unknown"}

Said(role, calls, answers) == [role |-> role, calls |-> calls, answers |-> answers]

\* to_messages: a string is one user turn.
TalkInit ==
  /\ vendor \in {"claude", "openai", "gemini"}
  /\ hasSystem \in BOOLEAN
  /\ history = <<Said("user", <<>>, 0)>>
  /\ unanswered = <<>> /\ thoughts = 0 /\ mode = "thinks"

-------------------------------------------------------------------------------
(* Requests *)

Role(m) == IF m.role = "assistant" THEN "model" ELSE "user"

\* _claude_messages: a result rides as a user turn; the system prompt is apart.
ClaudeMessages ==
  [i \in DOMAIN history |->
     IF history[i].role = "tool" THEN [history[i] EXCEPT !.role = "user"] ELSE history[i]]

\* _openai_messages, of GPTBrain and UniversalBrain.
OpenAIMessages ==
  (IF hasSystem THEN <<Said("system", <<>>, 0)>> ELSE <<>>) \o history

NoId == 0

\* _gemini_contents: model and user.  A call goes out under the name of its
\* tool and without its id, a result with the id of its call for a name.
GeminiContents ==
  [i \in DOMAIN history |-> [history[i] EXCEPT !.role = Role(history[i]),
                                              !.calls = [k \in DOMAIN @ |-> NoId]]]

\* GeminiBrain.think puts the system prompt before them, as a user turn.
GeminiRequest ==
  (IF hasSystem THEN <<Said("user", <<>>, 0)>> ELSE <<>>) \o GeminiContents

Request ==
  CASE vendor = "claude" -> ClaudeMessages
    [] vendor = "openai" -> OpenAIMessages
    [] vendor = "gemini" -> GeminiRequest

-------------------------------------------------------------------------------
(* Responses *)

\* The APIs of Anthropic and OpenAI give every call an id of its own.
Minted(n) == [k \in 1..n |-> Len(history) * CallBound + k]

\* _gemini_response_to_internal: the place of the part in the response; lead
\* parts of text come first.
GeminiIds(n, lead) == [k \in 1..n |-> lead + k]

CallIds(n, lead) == IF vendor = "gemini" THEN GeminiIds(n, lead) ELSE Minted(n)

\* The model asks for n calls.
Asks(n) ==
  /\ mode = "thinks" /\ thoughts < ThinkBound
  /\ \E lead \in {0, 1}, kinds \in [1..n -> ToolKinds] :
       LET ids == CallIds(n, lead)
       IN /\ history' = Append(history, Said("assistant", ids, 0))
          /\ unanswered' = [k \in 1..n |-> [id |-> ids[k], tool |-> kinds[k]]]
  /\ thoughts' = thoughts + 1
  /\ mode' = "runs"
  /\ UNCHANGED <<vendor, hasSystem>>

\* A text: the turn is over, or verify appends it with what is wrong.
Concludes ==
  /\ mode = "thinks"
  /\ \/ mode' = "over" /\ UNCHANGED <<history, thoughts>>
     \/ /\ thoughts < ThinkBound
        /\ history' = history \o <<Said("assistant", <<>>, 0), Said("user", <<>>, 0)>>
        /\ thoughts' = thoughts + 1
        /\ UNCHANGED mode
  /\ UNCHANGED <<vendor, hasSystem, unanswered>>

-------------------------------------------------------------------------------
(* Tools *)

\* The result of the next call goes into the history.
Answered ==
  /\ mode = "runs"
  /\ history' = Append(history, Said("tool", <<>>, Head(unanswered).id))
  /\ unanswered' = Tail(unanswered)
  /\ mode' = IF Len(unanswered) = 1 THEN "thinks" ELSE "runs"
  /\ UNCHANGED <<vendor, hasSystem, thoughts>>

\* Mutant: an unknown tool is passed over.
UnknownPassed ==
  /\ unanswered # <<>> /\ Head(unanswered).tool = "unknown"
  /\ mode = "runs"
  /\ unanswered' = Tail(unanswered)
  /\ mode' = IF Len(unanswered) = 1 THEN "thinks" ELSE "runs"
  /\ UNCHANGED <<vendor, hasSystem, history, thoughts>>

\* There is no such tool: the model is told.
UnknownTool == unanswered # <<>> /\ Head(unanswered).tool = "unknown" /\ Answered

\* _run_tool: the result, the exception as text, or a word that the tool is
\* async.
ToolRuns == unanswered # <<>> /\ Head(unanswered).tool \in {"plain", "async"} /\ Answered

\* require_approval: what the tool does, or a refusal, also where the approver
\* raises.
GatedToolRuns == unanswered # <<>> /\ Head(unanswered).tool = "gated" /\ Answered

TalkNext ==
  \/ \E n \in 1..CallBound : Asks(n)
  \/ Concludes
  \/ UnknownTool \/ ToolRuns \/ GatedToolRuns

-------------------------------------------------------------------------------
\* Each turn that calls is followed by as many results, and no result is
\* anywhere else.
Exchanges(r) ==
  /\ \A i \in DOMAIN r :
       /\ i + Len(r[i].calls) <= Len(r)
       /\ \A k \in 1..Len(r[i].calls) : r[i + k].answers # 0
  /\ \A j \in DOMAIN r : r[j].answers # 0 => \E i \in 1..(j - 1) : j - i <= Len(r[i].calls)

\* The results have the ids of the calls, in their order, and no two the same.
LinkedById(r) ==
  \A i \in DOMAIN r :
    /\ \A k \in 1..Len(r[i].calls) : r[i + k].answers = r[i].calls[k]
    /\ \A k, l \in 1..Len(r[i].calls) : k # l => r[i].calls[k] # r[i].calls[l]

\* The results come in the order of the places that their ids give.
LinkedByPlace(r) ==
  \A i \in DOMAIN r : \A k, l \in 1..Len(r[i].calls) : k < l => r[i + k].answers < r[i + l].answers

(* In whatever is sent, a response with calls is followed by one result for  *)
(* each, before anything else, and there is no result without a call.  The   *)
(* APIs of Anthropic and OpenAI find the id of each call in its result;      *)
(* Gemini's is told the calls by the names of their tools and the results by *)
(* the places of the calls in the response, and only the order links them    *)
(* (claude.py, gpt.py, gemini.py).                                           *)
HistoryLinked ==
  mode = "thinks" =>
    /\ Exchanges(Request)
    /\ IF vendor = "gemini" THEN LinkedByPlace(Request) ELSE LinkedById(Request)
================================================================================
