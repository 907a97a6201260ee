--------------------------------- MODULE Voting --------------------------------
(***************************************************************************)
(* A forest asks every tree the same goal and lets their answers vote      *)
(* (ormica/forest.py); the trees run in worker threads and may share a     *)
(* CachingBrain (ormica/brain/cache.py), whose cache is an OrderedDict     *)
(* used without a lock: a sequence of prompts, least recently used first,  *)
(* with the answer stored for each.                                        *)
(***************************************************************************)
EXTENDS Naturals, Sequences, FiniteSets, Sorting

CONSTANTS
  Trees,       \* 1..size
  Prompts,     \* goal and system prompt, which a build may vary
  Answers,     \* what the inner brain may say
  Width,       \* concurrency
  CacheSize,   \* maxsize, 0 where there is no bound
  Threshold,   \* of the consensus, in percent
  MaxClears    \* bound on clear()

ASSUME VotingAssumption ==
  /\ IsFiniteSet(Trees) /\ Trees = 1..Cardinality(Trees) /\ Trees # {}
  /\ {Width, CacheSize, Threshold, MaxClears} \subseteq Nat

VARIABLES
  prompt,    \* tree -> what its root agent is asked
  treeAt,    \* tree -> where its attempt is
  answer,    \* tree -> its answer
  cache,     \* _cache, as a sequence of [prompt, answer]
  clears,
  given,     \* ghost: <<prompt, answer>> the inner brain has given
  verdict    \* the ForestResult, NoVerdict before, Raised where a tree raised

votingVars == <<prompt, treeAt, answer, cache, clears, given, verdict>>

NoVerdict == [consensus |-> FALSE, votes |-> 0, answer |-> 0]
Raised == [consensus |-> FALSE, votes |-> 0, answer |-> 1]

VotingInit ==
  /\ prompt \in [Trees -> Prompts]
  /\ treeAt = [t \in Trees |-> "out"]
  /\ answer = [t \in Trees |-> CHOOSE a \in Answers : TRUE]
  /\ cache = <<>> /\ clears = 0 /\ given = {}
  /\ verdict = NoVerdict

Gets(t, place) == treeAt' = [treeAt EXCEPT ![t] = place]
Says(t, a) == answer' = [answer EXCEPT ![t] = a]

\* Whether there is an entry for a prompt, and its place in the cache.
Cached(p) == \E i \in DOMAIN cache : cache[i].prompt = p
Place(p) == CHOOSE i \in DOMAIN cache : cache[i].prompt = p

-------------------------------------------------------------------------------
(* CachingBrain.think, between the operations on the dictionary *)

\* A slot of the semaphore, and the look into the cache.
CacheLook(t) ==
  /\ treeAt[t] = "out"
  /\ Cardinality({u \in Trees : treeAt[u] \notin {"out", "answered", "broken"}}) < Width
  /\ IF Cached(prompt[t])
     THEN Says(t, cache[Place(prompt[t])].answer) /\ Gets(t, "touch")
     ELSE UNCHANGED answer /\ Gets(t, "think")
  /\ UNCHANGED <<prompt, cache, clears, given, verdict>>

MovedToEnd(c, k) ==
  [i \in DOMAIN c |-> c[IF i < k THEN i ELSE IF i < Len(c) THEN i + 1 ELSE k]]

\* move_to_end, which raises where another thread has taken the entry away.
CacheTouch(t) ==
  /\ treeAt[t] = "touch"
  /\ Gets(t, IF Cached(prompt[t]) THEN "answered" ELSE "broken")
  /\ cache' = IF Cached(prompt[t]) THEN MovedToEnd(cache, Place(prompt[t])) ELSE cache
  /\ UNCHANGED <<prompt, answer, clears, given, verdict>>

\* The inner brain answers, differently every time.
InnerThinks(t) ==
  /\ treeAt[t] = "think"
  /\ \E a \in Answers : Says(t, a) /\ given' = given \cup {<<prompt[t], a>>}
  /\ Gets(t, "store")
  /\ UNCHANGED <<prompt, cache, clears, verdict>>

InnerRaises(t) ==
  /\ treeAt[t] = "think"
  /\ Gets(t, "broken")
  /\ UNCHANGED <<prompt, answer, cache, clears, given, verdict>>

\* An entry that is there keeps its place.
CacheStore(t) ==
  /\ treeAt[t] = "store"
  /\ LET entry == [prompt |-> prompt[t], answer |-> answer[t]]
     IN cache' = IF Cached(prompt[t]) THEN [cache EXCEPT ![Place(prompt[t])] = entry]
                 ELSE Append(cache, entry)
  /\ Gets(t, "measure")
  /\ UNCHANGED <<prompt, answer, clears, given, verdict>>

\* len(self._cache) > self.maxsize.
CacheMeasure(t) ==
  /\ treeAt[t] = "measure"
  /\ Gets(t, IF CacheSize # 0 /\ Len(cache) > CacheSize THEN "evict" ELSE "answered")
  /\ UNCHANGED <<prompt, answer, cache, clears, given, verdict>>

\* popitem(last=False), which raises where other threads have left nothing.
CacheEvict(t) ==
  /\ treeAt[t] = "evict"
  /\ Gets(t, IF cache = <<>> THEN "broken" ELSE "answered")
  /\ cache' = IF cache = <<>> THEN cache ELSE Tail(cache)
  /\ UNCHANGED <<prompt, answer, clears, given, verdict>>

CacheClear ==
  /\ clears < MaxClears
  /\ clears' = clears + 1
  /\ cache' = <<>>
  /\ UNCHANGED <<prompt, treeAt, answer, given, verdict>>

-------------------------------------------------------------------------------
(* asolve *)

Voters(s, a) == {i \in DOMAIN s : s[i] = a}
Count(s, a) == Cardinality(Voters(s, a))

\* majority_vote: the groups are those of the trees sorted by the votes of their
\* answers; a group with as many as the first makes a tie.
Majority(s) ==
  LET order == HighestFirst([i \in DOMAIN s |-> Count(s, s[i])])
      top == s[order[1]]
      untied == \A i \in DOMAIN s : s[i] # top => Count(s, s[i]) < Count(s, top)
  IN [consensus |-> untied /\ Count(s, top) * 100 >= Threshold * Len(s),
      votes |-> Count(s, top), answer |-> top]

\* gather gives the answers in the order of the trees.
Reconcile ==
  /\ verdict = NoVerdict
  /\ \A t \in Trees : treeAt[t] = "answered"
  /\ verdict' = Majority([t \in Trees |-> answer[t]])
  /\ UNCHANGED <<prompt, treeAt, answer, cache, clears, given>>

\* gather raises the first exception; the other trees go on.
AttemptRaised ==
  /\ verdict = NoVerdict
  /\ \E t \in Trees : treeAt[t] = "broken"
  /\ verdict' = Raised
  /\ UNCHANGED <<prompt, treeAt, answer, cache, clears, given>>

VotingNext ==
  \/ \E t \in Trees : \/ CacheLook(t) \/ CacheTouch(t) \/ InnerThinks(t) \/ InnerRaises(t)
                      \/ CacheStore(t) \/ CacheMeasure(t) \/ CacheEvict(t)
  \/ CacheClear \/ Reconcile \/ AttemptRaised

-------------------------------------------------------------------------------
(* Consensus is an answer that more trees gave than any other, by the        *)
(* threshold; every answer that counts was given by the inner brain to the   *)
(* prompt of its tree, however the threads came by it (forest.py, cache.py). *)
VerdictSound ==
  /\ verdict.consensus =>
       LET for == {t \in Trees : answer[t] = verdict.answer}
       IN /\ \A a \in Answers \ {verdict.answer} :
               Cardinality({t \in Trees : answer[t] = a}) < Cardinality(for)
          /\ Cardinality(for) * 100 >= Threshold * Cardinality(Trees)
  /\ \A t \in Trees : treeAt[t] = "answered" => <<prompt[t], answer[t]>> \in given

(* The cache holds one answer for a prompt, one that was given to it, and is *)
(* larger than maxsize only by what threads have stored and are about to     *)
(* evict (CachingBrain.think).                                               *)
CacheSound ==
  /\ \A i, j \in DOMAIN cache : cache[i].prompt = cache[j].prompt => i = j
  /\ \A i \in DOMAIN cache : <<cache[i].prompt, cache[i].answer>> \in given
  /\ CacheSize # 0 =>
       Len(cache) <= CacheSize + Cardinality({t \in Trees : treeAt[t] \in {"measure", "evict"}})

(* What trees that share a brain conclude from.                              *)
VotesKept == VerdictSound /\ CacheSound
================================================================================
