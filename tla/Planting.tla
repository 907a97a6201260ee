-------------------------------- MODULE Planting -------------------------------
(***************************************************************************)
(* Colonies from YAML (ormica/colony/yaml_loader.py, base.py,              *)
(* registry.py): a file is parsed as a whole and registered; planting it   *)
(* spawns one node for each of its templates and stamps the settings of    *)
(* the template on the node; the tree is saved and loaded (module Growth   *)
(* has its index and its ceilings).                                        *)
(*                                                                         *)
(* The templates of the file are 1..N in the order of the file; Under says *)
(* whose children they are, 0 at the top.  Each has one setting, written   *)
(* in one form; its name, role and task are left out.                      *)
(***************************************************************************)
EXTENDS Naturals, Sequences, FiniteSets

CONSTANTS
  Under,      \* template -> the template it is a child of
  Files,      \* what may be in the file: template -> <<setting, form>>
  MaxPlants   \* bound on the calls of plant

Templates == DOMAIN Under

ASSUME PlantingAssumption ==
  /\ Under \in Seq(Nat) /\ \A i \in Templates : Under[i] < i
  /\ MaxPlants \in Nat

VARIABLES
  yaml,        \* the YAML file
  registered,  \* the colony is in the registry
  agents,      \* the nodes: [id, template, up, call, has, loaded]
  toPlant,     \* what the walk of plant has ahead: <<template, id of the parent>>
  plants,      \* calls of plant so far
  returned,    \* ghost: those that returned
  savedTree    \* the last snapshot, {} where there is none

colonyVars == <<yaml, registered, agents, toPlant, plants, returned, savedTree>>

-------------------------------------------------------------------------------
(* The loader.  A value is missing, an empty text, a text, a list, an empty  *)
(* list, a mapping of keys to values, one bare key (topic: or require_json:, *)
(* a mapping of it to nothing), or has a part that is no good (a name nobody *)
(* knows, a strength that is not positive, two keys, a limit below one).     *)

Forms == {"missing", "blank", "text", "list", "no items", "mapping", "bare key", "bad part"}

\* build_rule for each item.  A text is taken for its letters and a mapping for
\* its keys, without the values: a rule like max_chars then lacks its argument,
\* require_json, which the bare key stands for, has none.
ParseRules(form) ==
  CASE form \in {"missing", "blank", "no items"} -> "none"
    [] form \in {"list", "bare key"} -> "set"
    [] OTHER -> "error"

\* A text is one prefix, and so is topic:, which YAML reads as a key without value.
ParseSensePrefixes(form) ==
  CASE form \in {"missing", "blank", "no items"} -> "none"
    [] form \in {"text", "list", "bare key"} -> "set"
    [] OTHER -> "error"

ParseEmits(form) ==
  CASE form \in {"missing", "blank", "no items"} -> "none"
    [] form = "list" -> "set"
    [] OTHER -> "error"

\* EmitToolConfig and MessageToolConfig refuse a vocabulary without a word and a
\* limit below one; a mapping must give them one.
ConfigRaises(form) == form \in {"no items", "bare key", "bad part"}

ParseEmitTool(form) ==
  CASE form \in {"missing", "blank"} -> "none"
    [] form = "text" \/ ConfigRaises(form) -> "error"
    [] OTHER -> "set"

ParseMessageTool(form) == ParseEmitTool(form)

\* The list of children, where the template has any.
ParseChildren(form) ==
  CASE form \in {"missing", "list", "no items"} -> "none"
    [] OTHER -> "error"

Parsed(i) ==
  LET form == yaml[i][2]
  IN CASE yaml[i][1] = "rules" -> ParseRules(form)
       [] yaml[i][1] = "sense_prefixes" -> ParseSensePrefixes(form)
       [] yaml[i][1] = "emits" -> ParseEmits(form)
       [] yaml[i][1] = "emit_tool" -> ParseEmitTool(form)
       [] yaml[i][1] = "message_tool" -> ParseMessageTool(form)
       [] yaml[i][1] = "children" -> ParseChildren(form)
       [] yaml[i][1] = "entry" -> IF form = "mapping" THEN "none" ELSE "error"

\* What a template carries, apart from its name.
Settings(i) == IF Parsed(i) = "set" THEN {yaml[i][1]} ELSE {}

\* load_colony: one template that is no good and there is no colony.
LoadColony ==
  /\ toPlant = {} /\ ~registered
  /\ registered' = \A i \in Templates : Parsed(i) # "error"
  /\ UNCHANGED <<yaml, agents, toPlant, plants, returned, savedTree>>

-------------------------------------------------------------------------------
(* Planting *)

ColonyInit ==
  /\ yaml \in Files
  /\ registered = FALSE /\ agents = {} /\ toPlant = {}
  /\ plants = 0 /\ returned = {} /\ savedTree = {}

\* The id of the root, and of the node made for template i: another one for each.
RootId == <<0, 0>>
NewId(i) == <<plants, i>>

\* The templates below i, each to be planted under the node id.
Children(i, id) == {<<j, id>> : j \in {j \in Templates : Under[j] = i}}

\* org.plant: a colony that is registered, under the root.
PlantColony ==
  /\ toPlant = {} /\ registered /\ plants < MaxPlants
  /\ plants' = plants + 1
  /\ toPlant' = Children(0, RootId)
  /\ UNCHANGED <<yaml, registered, agents, returned, savedTree>>

Stamped(i, id, up) ==
  [id |-> id, template |-> i, up |-> up, call |-> plants, has |-> Settings(i), loaded |-> FALSE]

\* Mutant: everything is planted under the root.
PlantNodeFlat ==
  \E next \in toPlant :
    LET i == next[1]
        rest == (toPlant \ {next}) \cup Children(i, RootId)
    IN /\ \A other \in toPlant : i <= other[1]
       /\ agents' = agents \cup {Stamped(i, NewId(i), next[2])}
       /\ toPlant' = rest
       /\ returned' = IF rest = {} THEN returned \cup {plants} ELSE returned
       /\ UNCHANGED <<yaml, registered, plants, savedTree>>

\* One template, then those below it, then those beside it: the order of the file.
PlantNode ==
  \E next \in toPlant :
    LET i == next[1]
        rest == (toPlant \ {next}) \cup Children(i, NewId(i))
    IN /\ \A other \in toPlant : i <= other[1]
       /\ agents' = agents \cup {Stamped(i, NewId(i), next[2])}
       /\ toPlant' = rest
       /\ returned' = IF rest = {} THEN returned \cup {plants} ELSE returned
       /\ UNCHANGED <<yaml, registered, plants, savedTree>>

\* Tree.spawn raises (policy, depth): what has been planted stays.
PlantRefused ==
  /\ toPlant # {}
  /\ toPlant' = {}
  /\ UNCHANGED <<yaml, registered, agents, plants, returned, savedTree>>

-------------------------------------------------------------------------------
(* Persistence *)

\* Lists survive; the configurations of the tools are objects and do not.
JsonSafe(has) == has \cap {"sense_prefixes", "emits"}

\* Rules are not in the record of a node.
Record(a) == [a EXCEPT !.has = JsonSafe(a.has), !.loaded = TRUE]

SaveColony ==
  /\ toPlant = {} /\ agents # {}
  /\ savedTree' = {Record(a) : a \in agents}
  /\ UNCHANGED <<yaml, registered, agents, toPlant, plants, returned>>

LoadSaved ==
  /\ toPlant = {} /\ savedTree # {}
  /\ agents' = savedTree
  /\ UNCHANGED <<yaml, registered, toPlant, plants, returned, savedTree>>

\* The process ends, and a new one has the root alone.
Reborn ==
  /\ agents' = {} /\ toPlant' = {} /\ registered' = FALSE
  /\ UNCHANGED <<yaml, plants, returned, savedTree>>

ColonyNext ==
  \/ LoadColony \/ PlantColony \/ PlantNode \/ PlantRefused
  \/ SaveColony \/ LoadSaved \/ Reborn

-------------------------------------------------------------------------------
(* The tools of a turn *)

\* What the runners give the agent of a node, and what its template promises.
DeclaredTools(a) == a.has \cap {"emit_tool", "message_tool"}
TemplateTools(a) == Settings(a.template) \cap {"emit_tool", "message_tool"}

(* Nothing is planted from a file with a template that is no good, at any    *)
(* depth; a node stands below the node of the template above its own, from   *)
(* the same call; a call that returned has planted every template, one that  *)
(* raised may have planted some; and a node has what its template says, but  *)
(* for the rules and the tools once it has been loaded from a snapshot       *)
(* (load_colony, _plant_blueprint, Node.to_record).                          *)
ColonyKept ==
  /\ \A a \in agents :
       /\ \A i \in Templates : Parsed(i) # "error"
       /\ IF Under[a.template] = 0 THEN a.up = RootId
          ELSE \E b \in agents :
                 b.id = a.up /\ b.template = Under[a.template] /\ b.call = a.call
       /\ a.call \in returned =>
            \A i \in Templates : \E b \in agents : b.template = i /\ b.call = a.call
       /\ {"sense_prefixes", "emits"} \cap Settings(a.template) \subseteq a.has
       /\ ~a.loaded => a.has = Settings(a.template)
       /\ DeclaredTools(a) # TemplateTools(a) => a.loaded
  /\ \A a, b \in agents : a.id = b.id => a = b
================================================================================
