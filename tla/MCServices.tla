------------------------------- MODULE MCServices ------------------------------
(* Twelve parts of the system that share nothing, one at a time: the         *)
(* substrate of module Substrate with two processes, one trail, one plain    *)
(* key and two messages (v2 is a value that json.dumps refuses), with the    *)
(* modules Mailroom, Recall and SharedConnection (Memory); Voting and        *)
(* Evolution (Forests); Broadcast and Trails (Observers); Planting and       *)
(* Charter (Colonies); McpLink; and Conversation.                            *)
EXTENDS Memory, Forests, Observers, Colonies, McpLink, Conversation

CONSTANTS p1, p2, note, trail, m1, m2, v1, v2, d1, d2, g1

MCProcs == {p1, p2}
MCNotes == {note}
MCTopics == {trail}
MCMessages == {m1, m2}
MCKeys == MCNotes \cup MCTopics \cup MCMessages
MCValues == {v1, v2}
MCEncodable == {v1}
MCTrees == 1..3

\* A template, one below it and one beside it; one of them has a setting in
\* one form, the others have rules or a tool as they should be.
MCUnder == <<0, 1, 0>>
MCSettings == {"rules", "sense_prefixes", "emits", "emit_tool", "message_tool", "children", "entry"}
MCFiles ==
  {[[t \in 1..3 |-> <<usual, "list">>] EXCEPT ![i] = <<setting, form>>] :
     usual \in {"rules", "emit_tool"}, i \in 1..3, setting \in MCSettings \ {"children"}, form \in Forms}
  \cup {[[t \in 1..3 |-> <<"emits", "list">>] EXCEPT ![1] = <<"children", form>>] :
          form \in Forms \ {"missing", "no items"}}

\* A constitution for growth and tokens, and one with a rule of most kinds.
Rule(kind, severity) == [kind |-> kind, severity |-> severity]
MCFrugal ==
  {Rule("unique_role_in_subtree", "hard"), Rule("max_tokens", "hard"), Rule("must_contain", "hard")}
MCStrict ==
  {Rule(kind, "hard") : kind \in {"max_depth", "no_child_name", "block_prompt_pattern",
                                  "min_runtime_task_description", "banned_word_stems",
                                  "max_response_tokens", "min_response_length", "grounded"}}
  \cup {Rule(kind, "soft") : kind \in {"block_role", "min_task_description", "faulty", "banned_words",
                                       "banned_substrings", "require_json", "must_be_json", "must_match"}}
MCCharters == {MCFrugal, MCStrict}
MCRules == {Rule("unique_role_in_subtree", "hard"), Rule("must_match", "hard")}
MCOpenings == {[name |-> "first", role |-> "lead", task |-> "look"],
            [name |-> "root", role |-> "hand", task |-> ""]}
MCTexts == {{"needle", "json"}, {"pattern", "phrase"}}

VARIABLE scene   \* the part that acts

Scenes == {"memory", "mcp", "forest", "feed", "mail", "talk", "recall", "trail", "colony", "evolve", "law",
           "wire"}

\* The parts that do not act have one initial state.
ServicesInit ==
  /\ scene \in Scenes
  /\ Init /\ (scene # "memory" => backend = "memory")
  /\ VotingInit /\ (scene # "forest" => \A t \in Trees : prompt[t] = d1)
  /\ TalkInit /\ (scene # "talk" => vendor = "claude" /\ hasSystem)
  /\ RecallInit /\ (scene # "recall" => index = "chroma")
  /\ CharterInit /\ (charter = MCFrugal => armed = {})
  /\ (scene # "law" => charter = MCStrict /\ armed = {})
  /\ EvolveInit /\ (scene # "evolve" => /\ steady /\ \A g \in Genes : merit[g] = 1
                                       /\ \A n \in 1..Population : pool[n] = g1)
  /\ ColonyInit /\ (scene # "colony" => yaml = [t \in 1..3 |-> <<"rules", "list">>])
  /\ McpInit /\ FeedInit /\ MailInit /\ TrailsInit /\ ConnectionInit

\* The others stay as they are.
Only(s, acts) == scene = s /\ acts /\ UNCHANGED scene

ServicesNext ==
  \/ /\ Only("memory", Next)
     /\ UNCHANGED <<mcpVars, votingVars, feedVars, mailVars, talkVars, recallVars, trailVars,
                    colonyVars, evolveVars, charterVars, connectionVars>>
  \/ /\ Only("mcp", McpNext)
     /\ UNCHANGED <<vars, votingVars, feedVars, mailVars, talkVars, recallVars, trailVars,
                    colonyVars, evolveVars, charterVars, connectionVars>>
  \/ /\ Only("forest", VotingNext)
     /\ UNCHANGED <<vars, mcpVars, feedVars, mailVars, talkVars, recallVars, trailVars,
                    colonyVars, evolveVars, charterVars, connectionVars>>
  \/ /\ Only("feed", FeedNext)
     /\ UNCHANGED <<vars, mcpVars, votingVars, mailVars, talkVars, recallVars, trailVars,
                    colonyVars, evolveVars, charterVars, connectionVars>>
  \/ /\ Only("mail", MailNext)
     /\ UNCHANGED <<vars, mcpVars, votingVars, feedVars, talkVars, recallVars, trailVars,
                    colonyVars, evolveVars, charterVars, connectionVars>>
  \/ /\ Only("talk", TalkNext)
     /\ UNCHANGED <<vars, mcpVars, votingVars, feedVars, mailVars, recallVars, trailVars,
                    colonyVars, evolveVars, charterVars, connectionVars>>
  \/ /\ Only("recall", RecallNext)
     /\ UNCHANGED <<vars, mcpVars, votingVars, feedVars, mailVars, talkVars, trailVars,
                    colonyVars, evolveVars, charterVars, connectionVars>>
  \/ /\ Only("trail", TrailsNext)
     /\ UNCHANGED <<vars, mcpVars, votingVars, feedVars, mailVars, talkVars, recallVars,
                    colonyVars, evolveVars, charterVars, connectionVars>>
  \/ /\ Only("colony", ColonyNext)
     /\ UNCHANGED <<vars, mcpVars, votingVars, feedVars, mailVars, talkVars, recallVars,
                    trailVars, evolveVars, charterVars, connectionVars>>
  \/ /\ Only("evolve", EvolveNext)
     /\ UNCHANGED <<vars, mcpVars, votingVars, feedVars, mailVars, talkVars, recallVars,
                    trailVars, colonyVars, charterVars, connectionVars>>
  \/ /\ Only("law", CharterNext)
     /\ UNCHANGED <<vars, mcpVars, votingVars, feedVars, mailVars, talkVars, recallVars,
                    trailVars, colonyVars, evolveVars, connectionVars>>
  \/ /\ Only("wire", ConnectionNext)
     /\ UNCHANGED <<vars, mcpVars, votingVars, feedVars, mailVars, talkVars, recallVars,
                    trailVars, colonyVars, evolveVars, charterVars>>

ServicesSpec ==
  ServicesInit
    /\ [][ServicesNext]_<<vars, mcpVars, votingVars, feedVars, mailVars, talkVars, recallVars,
                          trailVars, colonyVars, evolveVars, charterVars, connectionVars, scene>>
================================================================================
