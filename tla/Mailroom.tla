-------------------------------- MODULE Mailroom -------------------------------
(***************************************************************************)
(* Conversations (ormica/postbox.py): agents send messages by hand or with *)
(* the send_message tool, answer those they have, and ask for the whole    *)
(* thread of one.  The store and the read flags are module Substrate's.    *)
(*                                                                         *)
(* A message is its place in letters; re is in_reply_to, 0 where there is  *)
(* none.                                                                   *)
(***************************************************************************)
EXTENDS Naturals, Sequences, FiniteSets

CONSTANTS
  Members,      \* nodes
  Addressees,   \* MessageToolConfig.recipients
  PerTurn,      \* MessageToolConfig.max_per_turn
  MaxLetters    \* bound on the messages

ASSUME MailroomAssumption ==
  /\ Addressees \subseteq Members /\ Addressees # {}
  /\ PerTurn \in Nat \ {0} /\ MaxLetters \in Nat

VARIABLES
  letters,      \* the messages of all mailboxes: [from, to, re]
  sentThisTurn  \* node -> sent_this_turn of its tool

mailVars == <<letters, sentThisTurn>>

MailInit ==
  /\ letters = <<>>
  /\ sentThisTurn = [n \in Members |-> 0]

Letters == DOMAIN letters

\* Postbox.send.
Posts(from, to, re) ==
  /\ Len(letters) < MaxLetters
  /\ letters' = Append(letters, [from |-> from, to |-> to, re |-> re])

\* Agent.send, to anybody, in reply to any message or to none.
SendByHand(n, to, re) == Posts(n, to, re) /\ UNCHANGED sentThisTurn

\* Postbox.reply: the recipient answers the sender.
Reply(m) == Posts(letters[m].to, letters[m].from, m) /\ UNCHANGED sentThisTurn

\* A task begins: the tool is built anew.
NewTurn(n) ==
  /\ sentThisTurn' = [sentThisTurn EXCEPT ![n] = 0]
  /\ UNCHANGED letters

\* The tool is called: over the limit nothing counts; below it a call that is
\* refused (the recipient, the body, the resolution, the store) counts as one
\* that sends.
ToolCalled(n) ==
  /\ sentThisTurn[n] < PerTurn
  /\ sentThisTurn' = [sentThisTurn EXCEPT ![n] = @ + 1]
  /\ UNCHANGED letters \/ \E to \in Addressees : Posts(n, to, 0)

MailNext ==
  \/ \E n, to \in Members, re \in Letters \cup {0} : SendByHand(n, to, re)
  \/ \E m \in Letters : Reply(m)
  \/ \E n \in Members : NewTurn(n) \/ ToolCalled(n)

-------------------------------------------------------------------------------
(* thread *)

\* The messages next to m, in both directions.
Linked(m) == ({letters[m].re} \ {0}) \cup {x \in Letters : letters[x].re = m}

\* What the walk from m comes upon: m, and whatever is next to one it has seen.
Thread(m) ==
  {x \in Letters : \A seen \in SUBSET Letters :
                     m \in seen /\ (\A y \in seen : Linked(y) \subseteq seen) => x \in seen}

\* The message each conversation of ls began with.
Origins(ls) ==
  LET opening[x \in DOMAIN ls] == IF ls[x].re = 0 THEN x ELSE opening[ls[x].re]
  IN opening

Opening(m) == Origins(letters)[m]

(* The thread of a message is the whole conversation it belongs to, whoever  *)
(* is asked for it and however it branched, and nothing of another one, over *)
(* all mailboxes (Postbox.thread).                                           *)
ThreadWhole ==
  \A m \in Letters : Thread(m) = {x \in Letters : Opening(x) = Opening(m)}
================================================================================
