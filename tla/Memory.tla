-------------------------------- MODULE Memory ---------------------------------
(***************************************************************************)
(* The shared memory from every side: its calls and the inboxes in it,     *)
(* module Substrate; the threads of the letters, module Mailroom; recall   *)
(* by relevance, module Recall; and the connection that a worker and its   *)
(* heartbeat have in common, module SharedConnection.  None reads the      *)
(* state of another.                                                       *)
(***************************************************************************)
EXTENDS Substrate, Mailroom, Recall, SharedConnection

(* What is in an inbox stays there until it is read, and no walk of a thread *)
(* loses or doubles a message (Postbox.fetch, Postbox.thread).               *)
MailSound == MailKept /\ ThreadWhole

(* What a process holds of the shared memory is its own, a search tells what  *)
(* was there to be found, and two threads of one connection spoil each        *)
(* other's writes in one way only (Mycelium, Mycelium.search, SqliteBackend). *)
MemoryTells == SubstrateInv /\ RecallTells /\ ConnectionTells
================================================================================
