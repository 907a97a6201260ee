--------------------------------- MODULE Recall --------------------------------
(***************************************************************************)
(* Recall by relevance (ormica/mycelium/semantic.py, chroma_backend.py,    *)
(* Mycelium.search): an agent asks for the k entries closest to its        *)
(* prompt, while tools in worker threads write and delete.  The semantic   *)
(* backend in memory keeps entries and their vectors in two dictionaries   *)
(* without a lock; ChromaDB has both in one record.                        *)
(*                                                                         *)
(* There is one query.  How close an entry is to it, 0 where it is not, is *)
(* all that is kept of its value, and stands for its vector as well.       *)
(***************************************************************************)
EXTENDS Naturals, Sequences, FiniteSets, Sorting

CONSTANTS
  Topmost,    \* k
  BookKeys,   \* keys
  Threads,    \* that write
  Closeness,  \* how close a value may be
  MaxWrites   \* bound on the writes and deletes

ASSUME RecallAssumption ==
  /\ Topmost \in Nat \ {0} /\ MaxWrites \in Nat
  /\ Closeness \subseteq Nat

VARIABLES
  index,     \* "semantic" or "chroma"
  slots,     \* _store: its keys in their order, NoKey where one was deleted
  book,      \* _store: key -> entry or NoBook
  vectors,   \* _vectors: key -> closeness, NoVector where there is none
  unembedded, \* ghost: the keys whose last set raised in the embedder
  late,      \* the entries with a time to live have expired
  writing,   \* thread -> what it is about to do to a key
  writes,
  search,    \* the search under way, or the last one
  scored,    \* its matches so far: [key, entry, score]
  seen,      \* ghost: the entries that were there while it ran
  clean      \* ghost: no two calls have overlapped

recallVars == <<index, slots, book, vectors, unembedded, late, writing, writes, search, scored, seen,
                clean>>

NoKey == "none"
NoBook == [close |-> 0, ttl |-> "none"]
NoVector == 99
Resting == [step |-> "rests", key |-> NoKey, entry |-> NoBook]
NoSearch == [step |-> "none", at |-> 0, size |-> 0, late |-> FALSE, key |-> NoKey, entry |-> NoBook]

ASSUME RecallMarks == NoKey \notin BookKeys /\ NoVector \notin Closeness

Books == [close : Closeness, ttl : {"short", "ever"}]
Stored == {k \in BookKeys : book[k] # NoBook}
IsOld(e, nowLate) == e.ttl = "short" /\ nowLate

RecallInit ==
  /\ index \in {"semantic", "chroma"}
  /\ slots = <<>> /\ late = FALSE /\ writes = 0
  /\ book = [k \in BookKeys |-> NoBook]
  /\ vectors = [k \in BookKeys |-> NoVector]
  /\ unembedded = {} /\ writing = [w \in Threads |-> Resting]
  /\ search = NoSearch /\ scored = <<>> /\ seen = {} /\ clean = TRUE

Searching == search.step # "none"
OthersWrite(w) == \E v \in Threads \ {w} : writing[v] # Resting

\* The entries that a search under way may come upon.
Notices(b) == IF Searching THEN seen \cup {<<k, b[k]>> : k \in {k \in BookKeys : b[k] # NoBook}}
              ELSE seen

-------------------------------------------------------------------------------
(* set and delete *)

\* The entry is in its dictionary, at its old place or the end.
Puts(k, e) ==
  /\ book' = [book EXCEPT ![k] = e]
  /\ slots' = IF k \in Stored THEN slots ELSE Append(slots, k)
  /\ seen' = Notices([book EXCEPT ![k] = e])

\* ChromaBackend.set: one upsert, after the embedding.
Upsert(w, k, e) ==
  /\ index = "chroma"
  /\ Puts(k, e) /\ vectors' = [vectors EXCEPT ![k] = e.close]
  /\ UNCHANGED writing

\* InMemorySemanticBackend.set: the entry, and then its vector.
PutEntry(w, k, e) ==
  /\ index = "semantic"
  /\ Puts(k, e) /\ UNCHANGED vectors
  /\ writing' = [writing EXCEPT ![w] = [step |-> "embeds", key |-> k, entry |-> e]]

SetEntry(w) ==
  /\ writing[w] = Resting /\ writes < MaxWrites
  /\ writes' = writes + 1
  /\ clean' = (clean /\ ~Searching /\ ~OthersWrite(w))
  /\ \E k \in BookKeys, e \in Books : Upsert(w, k, e) \/ PutEntry(w, k, e)
  /\ UNCHANGED <<index, unembedded, late, search, scored>>

\* Mutant: a key is embedded once.
PutVectorOnce(w) ==
  /\ writing[w].step = "embeds"
  /\ vectors' = [vectors EXCEPT ![writing[w].key] = IF @ = NoVector THEN writing[w].entry.close ELSE @]
  /\ unembedded' = unembedded \ {writing[w].key}
  /\ writing' = [writing EXCEPT ![w] = Resting]
  /\ UNCHANGED <<index, slots, book, late, writes, search, scored, seen, clean>>

PutVector(w) ==
  /\ writing[w].step = "embeds"
  /\ vectors' = [vectors EXCEPT ![writing[w].key] = writing[w].entry.close]
  /\ unembedded' = unembedded \ {writing[w].key}
  /\ writing' = [writing EXCEPT ![w] = Resting]
  /\ UNCHANGED <<index, slots, book, late, writes, search, scored, seen, clean>>

\* embed raises out of set: the entry is stored, with the vector of an older
\* one or without.
EmbedRaises(w) ==
  /\ writing[w].step = "embeds"
  /\ unembedded' = unembedded \cup {writing[w].key}
  /\ writing' = [writing EXCEPT ![w] = Resting]
  /\ UNCHANGED <<index, slots, book, vectors, late, writes, search, scored, seen, clean>>

\* delete: the vector, and then the entry; Chroma looks and then deletes.
DropVector(w) ==
  /\ writing[w] = Resting /\ writes < MaxWrites
  /\ writes' = writes + 1
  /\ clean' = (clean /\ ~Searching /\ ~OthersWrite(w))
  /\ \E k \in BookKeys :
       /\ writing' = [writing EXCEPT ![w] = [step |-> "drops", key |-> k, entry |-> NoBook]]
       /\ vectors' = IF index = "semantic" THEN [vectors EXCEPT ![k] = NoVector] ELSE vectors
  /\ UNCHANGED <<index, slots, book, unembedded, late, search, scored, seen>>

DropEntry(w) ==
  /\ writing[w].step = "drops"
  /\ LET k == writing[w].key
     IN /\ book' = [book EXCEPT ![k] = NoBook]
        /\ slots' = [i \in DOMAIN slots |-> IF slots[i] = k THEN NoKey ELSE slots[i]]
        /\ vectors' = IF index = "chroma" THEN [vectors EXCEPT ![k] = NoVector] ELSE vectors
        /\ unembedded' = unembedded \ {k}
  /\ writing' = [writing EXCEPT ![w] = Resting]
  /\ UNCHANGED <<index, late, writes, search, scored, seen, clean>>

\* Entries with a time to live expire, and stay until they are pruned.
GrowOld ==
  /\ ~late /\ late' = TRUE
  /\ UNCHANGED <<index, slots, book, vectors, unembedded, writing, writes, search, scored, seen, clean>>

-------------------------------------------------------------------------------
(* search *)

\* Mycelium.search reads the clock and asks the backend, which embeds the query;
\* where that raises, the search has not begun.
SearchBegins ==
  /\ search.step = "none"
  /\ search' = [search EXCEPT !.step = "next", !.size = Cardinality(Stored), !.late = late]
  /\ scored' = <<>>
  /\ seen' = {<<k, book[k]>> : k \in Stored}
  /\ clean' = (clean /\ \A w \in Threads : writing[w] = Resting)
  /\ UNCHANGED <<index, slots, book, vectors, unembedded, late, writing, writes>>

Match(k, e, s) == [key |-> k, entry |-> e, score |-> s]

\* sort is stable; of the first k, those that have not expired.
Ranked(matches) ==
  LET score == [i \in DOMAIN matches |-> matches[i].score]
      told == {i \in DOMAIN matches : /\ Cardinality(Ahead(score, i)) < Topmost
                                      /\ ~IsOld(matches[i].entry, search.late)}
      order == HighestFirst([i \in told |-> score[i]])
  IN [n \in DOMAIN order |-> matches[order[n]]]

\* ChromaBackend.search: one query, over all that is stored.
Query ==
  /\ index = "chroma" /\ search.step = "next"
  /\ \E order \in [1..Cardinality(Stored) -> Stored] :
       /\ \A i, j \in DOMAIN order : order[i] = order[j] => i = j
       /\ scored' = Ranked([i \in DOMAIN order |-> Match(order[i], book[order[i]], vectors[order[i]])])
  /\ search' = [search EXCEPT !.step = "told"]
  /\ UNCHANGED <<index, slots, book, vectors, unembedded, late, writing, writes, seen, clean>>

\* The next entry of the dictionary: a change of its size raises.
NextEntry ==
  /\ index = "semantic" /\ search.step = "next"
  /\ LET ahead == {i \in DOMAIN slots : i > search.at /\ slots[i] # NoKey}
         i == CHOOSE i \in ahead : \A j \in ahead : i <= j
     IN CASE Cardinality(Stored) # search.size ->
               search' = [search EXCEPT !.step = "raised"] /\ UNCHANGED scored
          [] Cardinality(Stored) = search.size /\ ahead # {} ->
               /\ search' = [search EXCEPT !.step = "score", !.at = i, !.key = slots[i],
                                           !.entry = book[slots[i]]]
               /\ UNCHANGED scored
          [] OTHER ->
               /\ search' = [search EXCEPT !.step = "told"]
               /\ scored' = Ranked(scored)
  /\ UNCHANGED <<index, slots, book, vectors, unembedded, late, writing, writes, seen, clean>>

\* Its vector, which is not there yet or no longer there, or another's.
Scores ==
  /\ search.step = "score"
  /\ LET v == vectors[search.key]
     IN IF v = NoVector THEN search' = [search EXCEPT !.step = "raised"] /\ UNCHANGED scored
        ELSE /\ search' = [search EXCEPT !.step = "next"]
             /\ scored' = IF v > 0 THEN Append(scored, Match(search.key, search.entry, v)) ELSE scored
  /\ UNCHANGED <<index, slots, book, vectors, unembedded, late, writing, writes, seen, clean>>

\* The agent goes on, with the entries or, where it raised, without.
Recalled ==
  /\ search.step \in {"told", "raised"}
  /\ search' = NoSearch /\ scored' = <<>> /\ seen' = {}
  /\ UNCHANGED <<index, slots, book, vectors, unembedded, late, writing, writes, clean>>

RecallNext ==
  \/ \E w \in Threads : \/ SetEntry(w) \/ PutVector(w) \/ EmbedRaises(w)
                        \/ DropVector(w) \/ DropEntry(w)
  \/ GrowOld \/ SearchBegins \/ Query \/ NextEntry \/ Scores \/ Recalled

-------------------------------------------------------------------------------
\* What the store makes of an entry: as close as it is, or as an older one was.
Weight(k) == IF k \in unembedded THEN vectors[k] ELSE book[k].close

(* A search tells of entries that were there while it ran and had not        *)
(* expired when it began, at most k, each once, best first.  As long as no   *)
(* two calls overlap, the score of an entry is its own, or that of the one   *)
(* before it where the embedder raised; a close entry is left out only for k *)
(* entries as close, some of which may have expired; and the search raises   *)
(* only over an entry that never got a vector, as the embedder raised on it  *)
(* (Mycelium.search and both backends).                                      *)
RecallTells ==
  /\ search.step = "told" =>
       /\ Len(scored) <= Topmost
       /\ \A i \in DOMAIN scored :
            /\ <<scored[i].key, scored[i].entry>> \in seen
            /\ ~IsOld(scored[i].entry, search.late)
       /\ \A i, j \in DOMAIN scored : i < j => scored[i].score >= scored[j].score
       /\ clean =>
            /\ \A i, j \in DOMAIN scored : scored[i].key = scored[j].key => i = j
            /\ \A i \in DOMAIN scored :
                 /\ scored[i].entry = book[scored[i].key]
                 /\ scored[i].score = Weight(scored[i].key)
            /\ \A k \in Stored :
                 \/ Weight(k) = 0 \/ IsOld(book[k], search.late)
                 \/ \E i \in DOMAIN scored : scored[i].key = k
                 \/ Cardinality({l \in Stored \ {k} : Weight(l) >= Weight(k)}) >= Topmost
  /\ search.step = "raised" => ~clean \/ \E k \in unembedded \cap Stored : vectors[k] = NoVector
================================================================================
