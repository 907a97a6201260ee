----------------------------- MODULE Growth_proofs -----------------------------
(***************************************************************************)
(* Proofs about Growth, for any policy, any number of callers, objects,    *)
(* loads and restarts, and any delegation.                                 *)
(***************************************************************************)
EXTENDS Growth, FiniteSetTheorems, TLAPS

-------------------------------------------------------------------------------
(* Numbers *)

\* A set of numbers has a least one: the intervals up to them are well founded.
LEMMA LeastOf ==
  ASSUME NEW S, S \subseteq Nat, S # {}
  PROVE  \E m \in S : \A k \in S : m <= k
<1>. DEFINE T == {1..k : k \in S}
<1>1. IsWellFoundedOn(StrictSubsetOrdering(Nat), FiniteSubsetsOf(Nat))
  BY FS_StrictSubsetOrderingWellFounded
<1>2. T \subseteq FiniteSubsetsOf(Nat)
  <2>1. \A k \in S : 1..k \subseteq Nat /\ IsFiniteSet(1..k)
    BY FS_Interval
  <2>. QED
    BY <2>1 DEF FiniteSubsetsOf
<1>3. T # {}
  OBVIOUS
<1>. HIDE DEF T
<1>4. PICK x \in T : \A y \in T : ~(<<y, x>> \in StrictSubsetOrdering(Nat))
  BY <1>1, <1>2, <1>3, WFMin
<1>5. PICK m \in S : x = 1..m
  BY DEF T
<1>6. ASSUME NEW k \in S, k < m PROVE FALSE
  <2>1. /\ 1..k \in T /\ 1..k \subseteq 1..m /\ m \notin 1..k /\ m \in 1..m
        /\ 1..k \subseteq Nat /\ 1..m \subseteq Nat
    BY <1>6 DEF T
  <2>2. <<1..k, 1..m>> \in StrictSubsetOrdering(Nat)
    BY <2>1 DEF StrictSubsetOrdering
  <2>. QED
    BY <1>4, <1>5, <2>1, <2>2
<1>. QED
  BY <1>6

\* So a set with 0 and with the successor of its every number has all of them.
LEMMA NatInSet ==
  ASSUME NEW S, 0 \in S, \A n \in Nat : n \in S => n + 1 \in S
  PROVE  Nat \subseteq S
<1>1. SUFFICES ASSUME Nat \ S # {} PROVE FALSE
  OBVIOUS
<1>2. PICK m \in Nat \ S : \A k \in Nat \ S : m <= k
  BY <1>1, LeastOf
<1>3. m # 0
  OBVIOUS
<1>4. m - 1 \in Nat /\ m - 1 < m
  BY <1>3
<1>5. m - 1 \in S /\ (m - 1) + 1 = m
  BY <1>2, <1>4
<1>. QED
  BY <1>4, <1>5

-------------------------------------------------------------------------------
(* Paths and walks *)

Shape == [id : Nat, up : Nat, name : Nat]

\* A parent is older than its children.
Forest(os) == os \in Seq(Shape) /\ \A x \in DOMAIN os : os[x].up < x

LEMMA ForestFacts ==
  ASSUME NEW os, Forest(os)
  PROVE  /\ Len(os) \in Nat /\ DOMAIN os = 1..Len(os)
         /\ \A x \in DOMAIN os :
              /\ x \in Nat \ {0} /\ os[x] \in Shape /\ os[x].up \in Nat /\ os[x].id \in Nat
              /\ os[x].up < x /\ (os[x].up # None => os[x].up \in DOMAIN os)
<1>1. Len(os) \in Nat /\ DOMAIN os = 1..Len(os) /\ \A x \in DOMAIN os : os[x] \in Shape
  BY DEF Forest
<1>2. \A x \in DOMAIN os : os[x].up \in Nat /\ os[x].id \in Nat
  BY <1>1 DEF Shape
<1>3. \A x \in DOMAIN os : os[x].up < x
  BY DEF Forest
<1>. QED
  BY <1>1, <1>2, <1>3 DEF None

\* The equation of Paths has a solution, built from the oldest object on.
LEMMA PathsAre ==
  ASSUME NEW os, Forest(os)
  PROVE  Paths(os) = [x \in DOMAIN os |->
           {x} \cup IF os[x].up = None THEN {} ELSE Paths(os)[os[x].up]]
<1>. DEFINE Solves(p, n) == p = [x \in 1..n |-> {x} \cup IF os[x].up = None THEN {} ELSE p[os[x].up]]
            S == {n \in Nat : n <= Len(os) => \E p : Solves(p, n)}
<1>0. Len(os) \in Nat /\ DOMAIN os = 1..Len(os)
      /\ \A x \in 1..Len(os) : os[x].up \in Nat /\ os[x].up < x
  BY ForestFacts
<1>1. 0 \in S
  <2>1. Solves([x \in 1..0 |-> {}], 0)
    OBVIOUS
  <2>. QED
    BY <2>1
<1>2. ASSUME NEW n \in Nat, n \in S PROVE n + 1 \in S
  <2>. SUFFICES ASSUME n + 1 <= Len(os) PROVE \E p : Solves(p, n + 1)
    OBVIOUS
  <2>1. PICK p : Solves(p, n)
    BY <1>2, <1>0
  <2>. DEFINE m == n + 1
              q == [x \in 1..m |-> IF x = m THEN {m} \cup IF os[m].up = None THEN {} ELSE p[os[m].up]
                                   ELSE p[x]]
  <2>2. \A x \in 1..m : os[x].up \in Nat /\ os[x].up < x
    BY <1>0
  <2>3. \A x \in 1..m : x # m => x \in 1..n /\ q[x] = p[x]
    OBVIOUS
  <2>4. \A x \in 1..m : os[x].up # None => os[x].up \in 1..n /\ os[x].up \in 1..m /\ os[x].up # m
    BY <2>2 DEF None
  <2>5. \A x \in 1..m : os[x].up # None => q[os[x].up] = p[os[x].up]
    BY <2>3, <2>4
  <2>6. \A x \in 1..n : p[x] = {x} \cup IF os[x].up = None THEN {} ELSE p[os[x].up]
    BY <2>1
  <2>7. \A x \in 1..m : q[x] = {x} \cup IF os[x].up = None THEN {} ELSE q[os[x].up]
    <3>. TAKE x \in 1..m
    <3>1. CASE x = m
      BY <3>1, <2>5
    <3>2. CASE x # m
      BY <3>2, <2>3, <2>5, <2>6
    <3>. QED
      BY <3>1, <3>2
  <2>8. DOMAIN q = 1..m /\ q = [x \in 1..m |-> q[x]]
    OBVIOUS
  <2>. HIDE DEF q
  <2>9. Solves(q, m)
    BY <2>7, <2>8
  <2>. QED
    BY <2>9
<1>. HIDE DEF S
<1>3. Nat \subseteq S
  BY <1>1, <1>2, NatInSet
<1>4. \E p : Solves(p, Len(os))
  <2>1. Len(os) \in S
    BY <1>0, <1>3
  <2>2. Len(os) \in Nat /\ (Len(os) <= Len(os) => \E p : Solves(p, Len(os)))
    BY <2>1 DEF S
  <2>. QED
    BY <2>2
<1>5. \E p : p = [x \in DOMAIN os |-> {x} \cup IF os[x].up = None THEN {} ELSE p[os[x].up]]
  BY <1>0, <1>4
<1>. QED
  BY <1>5, Zenon DEF Paths

\* What a path is.
LEMMA PathFacts ==
  ASSUME NEW os, Forest(os)
  PROVE  \A x \in DOMAIN os :
           /\ x \in Paths(os)[x]
           /\ os[x].up = None => Paths(os)[x] = {x}
           /\ os[x].up # None => Paths(os)[x] = {x} \cup Paths(os)[os[x].up]
BY PathsAre

\* Induction from parents to children.
LEMMA ForestInduction ==
  ASSUME NEW os, Forest(os), NEW S,
         \A x \in DOMAIN os : os[x].up = None \/ os[x].up \in S => x \in S
  PROVE  DOMAIN os \subseteq S
<1>. DEFINE T == {n \in Nat : \A x \in DOMAIN os : x <= n => x \in S}
<1>0. /\ Len(os) \in Nat /\ DOMAIN os = 1..Len(os)
      /\ \A x \in DOMAIN os :
           x \in Nat \ {0} /\ os[x].up \in Nat /\ os[x].up < x
           /\ (os[x].up # None => os[x].up \in DOMAIN os)
  BY ForestFacts
<1>1. 0 \in T
  BY <1>0
<1>2. ASSUME NEW n \in Nat, n \in T PROVE n + 1 \in T
  <2>1. \A x \in DOMAIN os : x <= n => x \in S
    BY <1>2
  <2>2. ASSUME NEW x \in DOMAIN os, x <= n + 1 PROVE x \in S
    <3>1. os[x].up \in Nat /\ os[x].up <= n /\ (os[x].up # None => os[x].up \in DOMAIN os)
      BY <1>0, <2>2
    <3>. QED
      BY <2>1, <3>1
  <2>. QED
    BY <2>2
<1>. HIDE DEF T
<1>3. Len(os) \in T
  BY <1>0, <1>1, <1>2, NatInSet
<1>. QED
  BY <1>0, <1>3 DEF T

\* A path goes to older objects.
LEMMA PathsBelow ==
  ASSUME NEW os, Forest(os)
  PROVE  \A x \in DOMAIN os :
           /\ Paths(os)[x] \subseteq 1..x /\ Paths(os)[x] \subseteq DOMAIN os
           /\ IsFiniteSet(Paths(os)[x])
<1>. DEFINE S == {x \in DOMAIN os : Paths(os)[x] \subseteq 1..x}
<1>0. /\ Len(os) \in Nat /\ DOMAIN os = 1..Len(os)
      /\ \A x \in DOMAIN os :
           x \in Nat \ {0} /\ os[x].up \in Nat /\ os[x].up < x
           /\ (os[x].up # None => os[x].up \in DOMAIN os)
  BY ForestFacts
<1>1. ASSUME NEW x \in DOMAIN os, os[x].up = None \/ os[x].up \in S PROVE x \in S
  <2>1. x \in 1..x /\ 1..os[x].up \subseteq 1..x
    BY <1>0
  <2>. QED
    BY <1>1, <2>1, PathFacts
<1>. HIDE DEF S
<1>2. DOMAIN os \subseteq S
  BY <1>1, ForestInduction
<1>3. \A x \in DOMAIN os : 1..x \subseteq 1..Len(os) /\ IsFiniteSet(1..x)
  BY <1>0, FS_Interval
<1>4. \A x \in DOMAIN os : Paths(os)[x] \subseteq 1..x
  BY <1>2 DEF S
<1>. QED
  BY <1>0, <1>3, <1>4, FS_Subset

\* What is above an object of a path is on the path.
LEMMA PathsNest ==
  ASSUME NEW os, Forest(os)
  PROVE  \A x \in DOMAIN os : \A y \in Paths(os)[x] : Paths(os)[y] \subseteq Paths(os)[x]
<1>. DEFINE S == {x \in DOMAIN os : \A y \in Paths(os)[x] : Paths(os)[y] \subseteq Paths(os)[x]}
<1>1. ASSUME NEW x \in DOMAIN os, os[x].up = None \/ os[x].up \in S PROVE x \in S
  <2>1. CASE os[x].up = None
    BY <2>1, PathFacts
  <2>2. CASE os[x].up # None
    <3>1. Paths(os)[x] = {x} \cup Paths(os)[os[x].up]
      BY <2>2, PathFacts
    <3>2. \A y \in Paths(os)[os[x].up] : Paths(os)[y] \subseteq Paths(os)[os[x].up]
      BY <1>1, <2>2
    <3>. QED
      BY <3>1, <3>2
  <2>. QED
    BY <2>1, <2>2
<1>. HIDE DEF S
<1>2. DOMAIN os \subseteq S
  BY <1>1, ForestInduction
<1>. QED
  BY <1>2 DEF S

\* A path has one top.
LEMMA PathTop ==
  ASSUME NEW os, Forest(os)
  PROVE  \A x \in DOMAIN os :
           \E t \in Paths(os)[x] : /\ os[t].up = None
                                   /\ \A y \in Paths(os)[x] : os[y].up = None => y = t
<1>. DEFINE S == {x \in DOMAIN os :
                    \E t \in Paths(os)[x] : /\ os[t].up = None
                                            /\ \A y \in Paths(os)[x] : os[y].up = None => y = t}
<1>1. ASSUME NEW x \in DOMAIN os, os[x].up = None \/ os[x].up \in S PROVE x \in S
  <2>1. CASE os[x].up = None
    BY <2>1, PathFacts
  <2>2. CASE os[x].up # None
    <3>1. Paths(os)[x] = {x} \cup Paths(os)[os[x].up]
      BY <2>2, PathFacts
    <3>2. PICK t \in Paths(os)[os[x].up] :
            os[t].up = None /\ \A y \in Paths(os)[os[x].up] : os[y].up = None => y = t
      BY <1>1, <2>2
    <3>. QED
      BY <2>2, <3>1, <3>2
  <2>. QED
    BY <2>1, <2>2
<1>. HIDE DEF S
<1>2. DOMAIN os \subseteq S
  BY <1>1, ForestInduction
<1>. QED
  BY <1>2 DEF S

\* A child is one deeper than its parent.
LEMMA PathLength ==
  ASSUME NEW os, Forest(os)
  PROVE  \A x \in DOMAIN os :
           /\ Cardinality(Paths(os)[x]) \in Nat
           /\ os[x].up = None => Cardinality(Paths(os)[x]) = 1
           /\ os[x].up # None => Cardinality(Paths(os)[x]) = Cardinality(Paths(os)[os[x].up]) + 1
<1>. SUFFICES ASSUME NEW x \in DOMAIN os
              PROVE  /\ Cardinality(Paths(os)[x]) \in Nat
                     /\ os[x].up = None => Cardinality(Paths(os)[x]) = 1
                     /\ os[x].up # None =>
                          Cardinality(Paths(os)[x]) = Cardinality(Paths(os)[os[x].up]) + 1
  OBVIOUS
<1>1. Cardinality(Paths(os)[x]) \in Nat
  BY PathsBelow, FS_CardinalityType
<1>2. CASE os[x].up = None
  <2>1. Paths(os)[x] = {x}
    BY <1>2, PathFacts
  <2>. QED
    BY <1>1, <1>2, <2>1, FS_Singleton
<1>3. CASE os[x].up # None
  <2>. DEFINE p == os[x].up
  <2>1. p \in DOMAIN os /\ p \in Nat /\ x \in Nat /\ p < x
    BY <1>3, ForestFacts
  <2>2. IsFiniteSet(Paths(os)[p]) /\ Paths(os)[p] \subseteq 1..p
    BY <2>1, PathsBelow
  <2>3. x \notin Paths(os)[p]
    BY <2>1, <2>2
  <2>4. Paths(os)[x] = Paths(os)[p] \cup {x}
    BY <1>3, PathFacts
  <2>. QED
    BY <1>1, <1>3, <2>2, <2>3, <2>4, FS_AddElement
<1>. QED
  BY <1>1, <1>2, <1>3

\* Objects that are added leave the paths of the others.
LEMMA PathsStay ==
  ASSUME NEW os, Forest(os), NEW ns, Forest(ns), DOMAIN os \subseteq DOMAIN ns,
         \A x \in DOMAIN os : ns[x].up = os[x].up
  PROVE  \A x \in DOMAIN os : Paths(ns)[x] = Paths(os)[x]
<1>. DEFINE S == {x \in DOMAIN os : Paths(ns)[x] = Paths(os)[x]}
<1>1. ASSUME NEW x \in DOMAIN os, os[x].up = None \/ os[x].up \in S PROVE x \in S
  <2>1. x \in DOMAIN ns /\ ns[x].up = os[x].up
    OBVIOUS
  <2>2. CASE os[x].up = None
    BY <2>1, <2>2, PathFacts
  <2>3. CASE os[x].up # None
    <3>1. Paths(os)[x] = {x} \cup Paths(os)[os[x].up] /\ Paths(ns)[x] = {x} \cup Paths(ns)[os[x].up]
      BY <2>1, <2>3, PathFacts
    <3>. QED
      BY <1>1, <2>3, <3>1
  <2>. QED
    BY <2>2, <2>3
<1>. HIDE DEF S
<1>2. DOMAIN os \subseteq S
  BY <1>1, ForestInduction
<1>. QED
  BY <1>2 DEF S

\* A branch that is cut off keeps the paths below h, and nothing else changes.
Below(os, h, x) == {y \in Paths(os)[x] : h \in Paths(os)[x] => h \in Paths(os)[y]}

LEMMA PathsCut ==
  ASSUME NEW os, Forest(os), NEW h \in DOMAIN os,
         NEW ns, ns = [os EXCEPT ![h].up = None], Forest(ns)
  PROVE  \A x \in DOMAIN os : Paths(ns)[x] = Below(os, h, x)
<1>. DEFINE Kept(x) == {y \in Paths(os)[x] : h \in Paths(os)[x] => h \in Paths(os)[y]}
            S == {x \in DOMAIN os : Paths(ns)[x] = Kept(x)}
<1>0. /\ DOMAIN ns = DOMAIN os /\ ns[h].up = None
      /\ \A x \in DOMAIN os : x # h => ns[x].up = os[x].up
  <2>1. \A x \in DOMAIN os : os[x] \in Shape
    BY ForestFacts
  <2>2. DOMAIN ns = DOMAIN os /\ ns[h] = [os[h] EXCEPT !.up = None]
        /\ \A x \in DOMAIN os : x # h => ns[x] = os[x]
    OBVIOUS
  <2>. QED
    BY <2>1, <2>2 DEF Shape
<1>1. ASSUME NEW x \in DOMAIN os, os[x].up = None \/ os[x].up \in S PROVE x \in S
  <2>1. CASE x = h
    <3>1. Paths(ns)[h] = {h} /\ h \in Paths(os)[h]
      BY <1>0, PathFacts
    <3>2. ASSUME NEW y \in Paths(os)[h], h \in Paths(os)[y] PROVE y = h
      <4>1. y \in DOMAIN os /\ y \in 1..h /\ h \in Nat
        BY PathsBelow, ForestFacts
      <4>2. h \in 1..y
        BY <3>2, <4>1, PathsBelow
      <4>. QED
        BY <4>1, <4>2
    <3>. QED
      BY <2>1, <3>1, <3>2
  <2>2. CASE x # h /\ os[x].up = None
    <3>1. Paths(os)[x] = {x} /\ Paths(ns)[x] = {x}
      BY <1>0, <2>2, PathFacts
    <3>. QED
      BY <2>2, <3>1
  <2>3. CASE x # h /\ os[x].up # None
    <3>1. /\ Paths(os)[x] = {x} \cup Paths(os)[os[x].up]
          /\ Paths(ns)[x] = {x} \cup Paths(ns)[os[x].up]
      BY <1>0, <2>3, PathFacts
    <3>2. Paths(ns)[os[x].up] = Kept(os[x].up)
      BY <1>1, <2>3
    <3>3. h \in Paths(os)[x] <=> h \in Paths(os)[os[x].up]
      BY <2>3, <3>1
    <3>. QED
      BY <3>1, <3>2, <3>3
  <2>. QED
    BY <2>1, <2>2, <2>3
<1>. HIDE DEF S
<1>2. DOMAIN os \subseteq S
  BY <1>1, ForestInduction
<1>. QED
  BY <1>2 DEF S, Below

-------------------------------------------------------------------------------
(* A tree that is loaded *)

\* The records of a tree: one root, and a depth to each that grows downwards.
Records(recs, last, deep) ==
  /\ IsFiniteSet(recs) /\ recs \subseteq [id : 1..last, name : Nat, up : Nat]
  /\ \A r, q \in recs : r.id = q.id => r = q
  /\ \E r \in recs : r.up = None /\ \A q \in recs : q.up = None => q = r
  /\ \A r \in recs : r.up # None => \E q \in recs : q.id = r.up /\ r.up < r.id
  /\ \E d \in [recs -> Nat] :
       \A r \in recs : d[r] <= deep /\ \A q \in recs : q.id = r.up => d[q] < d[r]

\* The places of the records follow those of the old objects, in the order of
\* their ids and without a gap.
LEMMA Places ==
  ASSUME Len(objs) \in Nat, IsFiniteSet(saved.nodes),
         \A r \in saved.nodes : r.id \in Nat,
         \A r, q \in saved.nodes : r.id = q.id => r = q
  PROVE  /\ Cardinality(saved.nodes) \in Nat
         /\ \A r \in saved.nodes :
              Place(r.id) \in (Len(objs) + 1)..(Len(objs) + Cardinality(saved.nodes))
         /\ \A r, q \in saved.nodes : r.id < q.id => Place(r.id) < Place(q.id)
         /\ \A p \in (Len(objs) + 1)..(Len(objs) + Cardinality(saved.nodes)) :
              \E r \in saved.nodes : Place(r.id) = p
<1>. DEFINE recs == saved.nodes
            N == Len(objs)
            C == Cardinality(recs)
            Upto(i) == {r \in recs : r.id <= i}
<1>0. N \in Nat /\ C \in Nat /\ IsFiniteSet(recs)
  BY FS_CardinalityType
<1>1. \A i : /\ IsFiniteSet(Upto(i)) /\ Cardinality(Upto(i)) \in Nat
             /\ Cardinality(Upto(i)) <= C
  <2>. TAKE i
  <2>1. Upto(i) \in SUBSET recs
    OBVIOUS
  <2>. HIDE DEF Upto
  <2>. QED
    BY <1>0, <2>1, FS_Subset, FS_CardinalityType
<1>2. \A r \in recs : Cardinality(Upto(r.id)) > 0
  <2>. TAKE r \in recs
  <2>1. r \in Upto(r.id)
    OBVIOUS
  <2>. HIDE DEF Upto
  <2>. QED
    BY <1>1, <2>1, FS_EmptySet
<1>3. ASSUME NEW r \in recs, NEW q \in recs, r.id < q.id
      PROVE  Cardinality(Upto(r.id)) < Cardinality(Upto(q.id))
  <2>1. Upto(r.id) \in SUBSET Upto(q.id) /\ q \in Upto(q.id) /\ q \notin Upto(r.id)
    BY <1>3
  <2>. HIDE DEF Upto
  <2>2. /\ Cardinality(Upto(r.id)) <= Cardinality(Upto(q.id))
        /\ Cardinality(Upto(q.id)) = Cardinality(Upto(r.id)) => Upto(q.id) = Upto(r.id)
    BY <1>1, <2>1, FS_Subset
  <2>. QED
    BY <1>1, <2>1, <2>2
<1>4. \A i : Place(i) = N + Cardinality(Upto(i))
  BY DEF Place
<1>. HIDE DEF Upto
<1>5. \A r \in recs : Place(r.id) \in (N + 1)..(N + C)
  BY <1>0, <1>1, <1>2, <1>4
<1>6. \A r, q \in recs : r.id < q.id => Place(r.id) < Place(q.id)
  BY <1>0, <1>1, <1>3, <1>4
<1>. DEFINE T == (N + 1)..(N + C)
            f == [r \in recs |-> Place(r.id)]
<1>7. f \in Injection(recs, T)
  <2>1. f \in [recs -> T]
    BY <1>5
  <2>2. ASSUME NEW r \in recs, NEW q \in recs, f[r] = f[q] PROVE r = q
    <3>1. Place(r.id) = Place(q.id) /\ r.id \in Nat /\ q.id \in Nat /\ Place(r.id) \in T
      BY <2>2, <1>5
    <3>2. ~(r.id < q.id) /\ ~(q.id < r.id)
      BY <1>0, <3>1, <1>6
    <3>. QED
      BY <3>1, <3>2
  <2>3. DOMAIN f = recs
    OBVIOUS
  <2>. HIDE DEF f
  <2>. QED
    BY <2>1, <2>2, <2>3 DEF Injection, IsInjective
<1>8. IsFiniteSet(T) /\ Cardinality(T) = C
  <2>1. N + 1 \in Int /\ N + C \in Int
    BY <1>0
  <2>2. IsFiniteSet(T) /\ Cardinality(T) = IF N + 1 > N + C THEN 0 ELSE (N + C) - (N + 1) + 1
    BY <2>1, FS_Interval
  <2>. HIDE DEF N, C
  <2>. QED
    BY <1>0, <2>2
<1>. HIDE DEF f, T, C, N
<1>9. f \in Surjection(recs, T)
  BY <1>7, <1>8, FS_Injection DEF C
<1>10. \A p \in T : \E r \in recs : f[r] = p
  BY <1>9 DEF Surjection
<1>. QED
  BY <1>0, <1>5, <1>6, <1>10 DEF f, T, C, N

NewObjects == (Len(objs) + 1)..(Len(objs) + Cardinality(saved.nodes))

\* The object that is made for a record.
LEMMA LoadedObjects ==
  ASSUME Forest(objs), NEW last \in Nat, NEW deep \in Nat, Records(saved.nodes, last, deep), Restored
  PROVE  /\ DOMAIN objs' = Objects \cup NewObjects
         /\ \A x \in Objects : objs'[x] = objs[x]
         /\ \A r \in saved.nodes :
              /\ Place(r.id) \in NewObjects
              /\ objs'[Place(r.id)] =
                   Node(r.id, IF r.up = None THEN None ELSE Place(r.up), r.name)
         /\ \A p \in NewObjects : \E r \in saved.nodes : Place(r.id) = p
         /\ \A r \in saved.nodes :
              r.up # None => /\ Place(r.up) \in NewObjects /\ Place(r.up) < Place(r.id)
                             /\ \E q \in saved.nodes : q.id = r.up
         /\ Forest(objs')
<1>. DEFINE recs == saved.nodes
            C == Cardinality(recs)
            N == Len(objs)
<1>1. /\ IsFiniteSet(recs) /\ \A r \in recs : r.id \in Nat /\ r.name \in Nat /\ r.up \in Nat
      /\ \A r, q \in recs : r.id = q.id => r = q
      /\ \A r \in recs : r.up # None => \E q \in recs : q.id = r.up /\ r.up < r.id
  BY DEF Records
<1>2. N \in Nat /\ Objects = 1..N /\ \A x \in Objects : objs[x] \in Shape /\ objs[x].up < x
  BY ForestFacts DEF Objects
<1>3. /\ C \in Nat
      /\ \A r \in recs : Place(r.id) \in NewObjects
      /\ \A r, q \in recs : r.id < q.id => Place(r.id) < Place(q.id)
      /\ \A p \in NewObjects : \E r \in recs : Place(r.id) = p
  BY <1>1, <1>2, Places DEF NewObjects
<1>4. \A r, q \in recs : Place(r.id) = Place(q.id) => r = q
  <2>. SUFFICES ASSUME NEW r \in recs, NEW q \in recs, Place(r.id) = Place(q.id), r # q PROVE FALSE
    OBVIOUS
  <2>1. r.id < q.id \/ q.id < r.id
    BY <1>1
  <2>2. Place(r.id) \in Int /\ Place(q.id) \in Int
    BY <1>2, <1>3 DEF NewObjects
  <2>. QED
    BY <1>3, <2>1, <2>2
<1>5. \A r \in recs : Record(Place(r.id)) = r
  BY <1>4 DEF Record
<1>6. objs' = [p \in 1..(N + C) |->
                 IF p <= N THEN objs[p]
                 ELSE Node(Record(p).id, IF Record(p).up = None THEN None ELSE Place(Record(p).up),
                           Record(p).name)]
  BY DEF Restored
<1>. HIDE DEF recs, C, N
<1>7. 1..(N + C) = Objects \cup NewObjects /\ \A p \in NewObjects : ~(p <= N) /\ p \in 1..(N + C)
  BY <1>2, <1>3 DEF NewObjects, C, N, recs
<1>8. DOMAIN objs' = Objects \cup NewObjects /\ \A x \in Objects : objs'[x] = objs[x]
  BY <1>2, <1>6, <1>7
<1>9. \A r \in recs : objs'[Place(r.id)] =
                        Node(r.id, IF r.up = None THEN None ELSE Place(r.up), r.name)
  BY <1>3, <1>5, <1>6, <1>7
<1>10. \A r \in recs :
         r.up # None => /\ Place(r.up) \in NewObjects /\ Place(r.up) < Place(r.id)
                        /\ \E q \in recs : q.id = r.up
  BY <1>1, <1>3
<1>11. Forest(objs')
  <2>1. \A p \in 1..(N + C) : objs'[p] \in Shape /\ objs'[p].up < p
    <3>. TAKE p \in 1..(N + C)
    <3>1. CASE p \in Objects
      BY <3>1, <1>2, <1>8
    <3>2. CASE p \in NewObjects
      <4>1. PICK r \in recs : Place(r.id) = p
        BY <3>2, <1>3
      <4>2. p \in Nat \ {0}
        BY <3>2, <1>2, <1>3 DEF NewObjects
      <4>3. r.up # None => Place(r.up) \in Nat /\ Place(r.up) < p
        BY <4>1, <1>10, <1>2, <1>3 DEF NewObjects
      <4>4. objs'[p] = Node(r.id, IF r.up = None THEN None ELSE Place(r.up), r.name)
        BY <4>1, <1>9
      <4>. QED
        BY <1>1, <4>2, <4>3, <4>4 DEF Node, Shape, None
    <3>. QED
      BY <3>1, <3>2, <1>7
  <2>2. objs' \in [1..(N + C) -> Shape] /\ N + C \in Nat
    <3>1. N + C \in Nat
      BY <1>2, <1>3
    <3>2. objs' = [p \in 1..(N + C) |-> objs'[p]]
      BY <1>6
    <3>. QED
      BY <2>1, <3>1, <3>2
  <2>3. objs' \in Seq(Shape)
    BY <2>2
  <2>. QED
    BY <2>1, <2>2, <2>3 DEF Forest
<1>. QED
  BY <1>3, <1>8, <1>9, <1>10, <1>11 DEF recs

\* The tree from the new root is the new objects, no deeper than the records say.
LEMMA LoadedTree ==
  ASSUME Forest(objs), NEW last \in Nat, NEW deep \in Nat, Records(saved.nodes, last, deep), Restored
  PROVE  /\ \E r \in saved.nodes : r.up = None /\ root' = Place(r.id)
         /\ root' \in NewObjects /\ objs'[root'].up = None
         /\ Walk(root)' = NewObjects
         /\ \A x \in NewObjects : Depth(x)' <= deep
<1>. DEFINE recs == saved.nodes
            P == Paths(objs')
<1>0. /\ DOMAIN objs' = Objects \cup NewObjects /\ Forest(objs')
      /\ \A x \in Objects : objs'[x] = objs[x]
      /\ \A r \in recs : Place(r.id) \in NewObjects
                       /\ objs'[Place(r.id)] =
                            Node(r.id, IF r.up = None THEN None ELSE Place(r.up), r.name)
      /\ \A p \in NewObjects : \E r \in recs : Place(r.id) = p
      /\ \A r \in recs : r.up # None => Place(r.up) \in NewObjects
                                     /\ \E q \in recs : q.id = r.up
  BY LoadedObjects
<1>. DEFINE above(r) == IF r.up = None THEN None ELSE Place(r.up)
<1>a. \A r \in recs : objs'[Place(r.id)].up = above(r)
  <2>1. \A i, u, n : Node(i, u, n).up = u
    BY DEF Node
  <2>. QED
    BY <1>0, <2>1
<1>b. \A r \in recs : above(r) = None <=> r.up = None
  BY <1>0, ForestFacts DEF NewObjects, None
<1>1. PICK r0 \in recs : r0.up = None /\ \A q \in recs : q.up = None => q = r0
  BY DEF Records
<1>2. root' = Place(r0.id)
  <2>1. (CHOOSE r \in recs : r.up = None) = r0
    BY <1>1
  <2>. QED
    BY <2>1 DEF Restored
<1>3. root' \in NewObjects /\ objs'[root'].up = None
  BY <1>0, <1>a, <1>1, <1>2
<1>4. \A x \in NewObjects : x \notin Objects
  BY ForestFacts DEF NewObjects, Objects
<1>5. \A x \in NewObjects : objs'[x].up = None \/ objs'[x].up \in NewObjects
  BY <1>0, <1>a
<1>6. \A x \in NewObjects : objs'[x].up = None => x = root'
  BY <1>0, <1>a, <1>b, <1>1, <1>2
<1>. HIDE DEF recs
<1>7. \A x \in NewObjects : root' \in P[x]
  <2>. DEFINE S == {x \in DOMAIN objs' : x \in NewObjects => root' \in P[x]}
  <2>1. ASSUME NEW x \in DOMAIN objs', objs'[x].up = None \/ objs'[x].up \in S PROVE x \in S
    <3>. SUFFICES ASSUME x \in NewObjects PROVE root' \in P[x]
      OBVIOUS
    <3>1. CASE objs'[x].up = None
      BY <3>1, <1>0, <1>6, PathFacts
    <3>2. CASE objs'[x].up # None
      <4>1. root' \in P[objs'[x].up]
        BY <3>2, <2>1, <1>5
      <4>. QED
        BY <3>2, <4>1, <1>0, PathFacts
    <3>. QED
      BY <3>1, <3>2
  <2>. HIDE DEF S
  <2>2. DOMAIN objs' \subseteq S
    BY <2>1, <1>0, ForestInduction
  <2>. QED
    BY <2>2, <1>0 DEF S
<1>8. \A x \in Objects : root' \notin P[x]
  <2>1. \A x \in Objects : P[x] = Paths(objs)[x]
    BY <1>0, PathsStay DEF Objects
  <2>. QED
    BY <2>1, <1>3, <1>4, PathsBelow DEF Objects
<1>9. Walk(root)' = NewObjects
  BY <1>0, <1>7, <1>8 DEF Walk, Path, Objects
<1>10. \A x \in NewObjects : Depth(x)' <= deep
  <2>1. PICK d \in [recs -> Nat] :
          \A r \in recs : d[r] <= deep /\ \A q \in recs : q.id = r.up => d[q] < d[r]
    BY DEF Records, recs
  <2>. DEFINE S == {x \in DOMAIN objs' :
                      \A r \in recs : Place(r.id) = x => Cardinality(P[x]) <= d[r] + 1}
  <2>2. ASSUME NEW x \in DOMAIN objs', objs'[x].up = None \/ objs'[x].up \in S PROVE x \in S
    <3>. SUFFICES ASSUME NEW r \in recs, Place(r.id) = x PROVE Cardinality(P[x]) <= d[r] + 1
      OBVIOUS
    <3>1. objs'[x].up = IF r.up = None THEN None ELSE Place(r.up)
      BY <1>a
    <3>2. Cardinality(P[x]) \in Nat /\ d[r] \in Nat
      BY <1>0, <2>1, PathLength
    <3>3. CASE objs'[x].up = None
      BY <3>2, <3>3, <1>0, PathLength
    <3>4. CASE objs'[x].up # None
      <4>1. PICK q \in recs : q.id = r.up
        BY <3>1, <3>4, <1>0
      <4>2. Place(q.id) = objs'[x].up
        BY <3>1, <3>4, <4>1
      <4>3. Cardinality(P[objs'[x].up]) <= d[q] + 1 /\ d[q] < d[r] /\ d[q] \in Nat
        BY <2>1, <2>2, <3>4, <4>1, <4>2
      <4>4. Cardinality(P[x]) = Cardinality(P[objs'[x].up]) + 1
        BY <3>4, <1>0, PathLength
      <4>5. Cardinality(P[objs'[x].up]) \in Nat
        BY <3>4, <1>0, PathLength, ForestFacts
      <4>. QED
        BY <3>2, <4>3, <4>4, <4>5
    <3>. QED
      BY <3>3, <3>4
  <2>. HIDE DEF S
  <2>3. DOMAIN objs' \subseteq S
    BY <2>2, <1>0, ForestInduction
  <2>4. ASSUME NEW x \in NewObjects PROVE Depth(x)' <= deep
    <3>1. PICK r \in recs : Place(r.id) = x
      BY <1>0
    <3>2. Cardinality(P[x]) <= d[r] + 1 /\ d[r] <= deep /\ d[r] \in Nat
      BY <3>1, <2>1, <2>3, <1>0 DEF S
    <3>3. Cardinality(P[x]) \in Nat
      BY <1>0, PathLength
    <3>4. Depth(x)' = Cardinality(P[x]) - 1
      BY DEF Depth, Path
    <3>. QED
      BY <3>2, <3>3, <3>4
  <2>. QED
    BY <2>4
<1>. QED
  BY <1>1, <1>2, <1>3, <1>9, <1>10 DEF recs

-------------------------------------------------------------------------------
(* Trees that grow, are cut and begin *)

LEMMA NodeFields ==
  ASSUME NEW i, NEW u, NEW n
  PROVE  /\ Node(i, u, n).id = i /\ Node(i, u, n).up = u /\ Node(i, u, n).name = n
         /\ i \in Nat /\ u \in Nat /\ n \in Nat => Node(i, u, n) \in Shape
BY DEF Node, Shape

\* A single object is a tree.
LEMMA FirstTree ==
  ASSUME NEW os, NEW i \in Nat, os = <<Node(i, None, 0)>>
  PROVE  /\ Forest(os) /\ DOMAIN os = {1} /\ os[1] = Node(i, None, 0)
         /\ Paths(os)[1] = {1} /\ Cardinality(Paths(os)[1]) = 1
<1>1. DOMAIN os = {1} /\ os[1] = Node(i, None, 0) /\ os[1].up = 0 /\ os[1] \in Shape
  BY NodeFields DEF None
<1>2. os \in Seq(Shape)
  BY <1>1
<1>3. Forest(os)
  BY <1>1, <1>2 DEF Forest
<1>. QED
  BY <1>1, <1>3, PathFacts, PathLength DEF None

\* A node that is spawned under h joins the walks of those above it.
LEMMA GrownTree ==
  ASSUME Forest(objs), NEW h \in Objects, NEW i \in Nat, NEW name \in Nat,
         objs' = Append(objs, Node(i, h, name)), NEW n, n = Len(objs) + 1
  PROVE  /\ Forest(objs') /\ Objects' = Objects \cup {n} /\ n \notin Objects /\ n \in Nat
         /\ objs'[n] = Node(i, h, name) /\ \A x \in Objects : objs'[x] = objs[x]
         /\ \A r \in Objects :
              Walk(r)' = Walk(r) \cup IF r \in Paths(objs)[h] THEN {n} ELSE {}
         /\ Depth(n)' = Depth(h) + 1 /\ \A x \in Objects : Depth(x)' = Depth(x)
<1>1. /\ Len(objs) \in Nat /\ Objects = 1..Len(objs) /\ objs \in Seq(Shape)
      /\ \A x \in Objects : objs[x].up < x
  BY ForestFacts DEF Objects, Forest
<1>2. Node(i, h, name) \in Shape /\ Node(i, h, name).up = h /\ h \in Nat /\ h < n /\ h # None
  BY <1>1, NodeFields DEF None
<1>3. /\ objs' \in Seq(Shape) /\ DOMAIN objs' = 1..n /\ objs'[n] = Node(i, h, name)
      /\ \A x \in Objects : objs'[x] = objs[x]
  BY <1>1, <1>2
<1>4. 1..n = Objects \cup {n} /\ n \notin Objects /\ n \in Nat
  BY <1>1
<1>5. Forest(objs')
  BY <1>1, <1>2, <1>3, <1>4 DEF Forest
<1>6. \A x \in Objects : Paths(objs')[x] = Paths(objs)[x]
  BY <1>3, <1>4, <1>5, PathsStay DEF Objects
<1>7. /\ Paths(objs')[n] = {n} \cup Paths(objs)[h]
      /\ Cardinality(Paths(objs')[n]) = Cardinality(Paths(objs)[h]) + 1
  <2>1. n \in DOMAIN objs' /\ objs'[n].up = h /\ objs'[n].up # None
    BY <1>2, <1>3, <1>4
  <2>2. Paths(objs')[n] = {n} \cup Paths(objs')[h]
        /\ Cardinality(Paths(objs')[n]) = Cardinality(Paths(objs')[h]) + 1
    <3>1. Paths(objs')[n] = {n} \cup Paths(objs')[objs'[n].up]
      <4>. DEFINE os == objs'
      <4>1. Forest(os) /\ n \in DOMAIN os /\ os[n].up # None
        BY <1>5, <2>1
      <4>. HIDE DEF os
      <4>2. Paths(os)[n] = {n} \cup Paths(os)[os[n].up]
        BY <4>1, PathFacts
      <4>. QED
        BY <4>2 DEF os
    <3>2. \A x \in DOMAIN objs' : objs'[x].up # None =>
            Cardinality(Paths(objs')[x]) = Cardinality(Paths(objs')[objs'[x].up]) + 1
      BY <1>5, PathLength
    <3>. QED
      BY <2>1, <3>1, <3>2
  <2>. QED
    BY <1>6, <2>2
<1>8. ASSUME NEW r \in Objects
      PROVE  Walk(r)' = Walk(r) \cup IF r \in Paths(objs)[h] THEN {n} ELSE {}
  <2>1. Walk(r)' = {x \in 1..n : r \in Paths(objs')[x]} /\ Walk(r) = {x \in Objects : r \in Paths(objs)[x]}
    BY <1>3 DEF Walk, Path, Objects
  <2>2. r # n
    BY <1>4
  <2>. QED
    BY <1>4, <1>6, <1>7, <2>1, <2>2
<1>9. \A x \in Objects : Depth(x)' = Depth(x)
  BY <1>6 DEF Depth, Path
<1>10. Depth(n)' = Depth(h) + 1
  <2>1. Cardinality(Paths(objs)[h]) \in Nat
    BY PathLength DEF Objects
  <2>2. Depth(n)' = Cardinality(Paths(objs')[n]) - 1 /\ Depth(h) = Cardinality(Paths(objs)[h]) - 1
    BY DEF Depth, Path
  <2>. QED
    BY <1>7, <2>1, <2>2
<1>11. Objects' = Objects \cup {n}
  BY <1>3, <1>4 DEF Objects
<1>. QED
  BY <1>3, <1>4, <1>5, <1>8, <1>9, <1>10, <1>11

\* A branch that is pruned leaves the walk of a root, and the rest of the walk
\* is as deep as it was.
LEMMA CutTree ==
  ASSUME Forest(objs), NEW h \in Objects, objs' = [objs EXCEPT ![h].up = None]
  PROVE  /\ Forest(objs') /\ Objects' = Objects
         /\ \A x \in Objects : /\ objs'[x].id = objs[x].id /\ objs'[x].name = objs[x].name
                               /\ objs'[x].up = IF x = h THEN None ELSE objs[x].up
         /\ \A r \in Objects : objs[r].up = None /\ r # h =>
              /\ Walk(r)' = Walk(r) \ Walk(h)
              /\ \A x \in Walk(r)' : Depth(x)' = Depth(x)
<1>1. /\ Len(objs) \in Nat /\ Objects = 1..Len(objs) /\ objs \in Seq(Shape)
      /\ \A x \in Objects : objs[x].up < x /\ objs[x] \in Shape /\ x \in Nat \ {0}
  BY ForestFacts DEF Objects, Forest
<1>2. Objects' = Objects
  BY DEF Objects
<1>3. \A x \in Objects : objs'[x] = IF x = h THEN [objs[h] EXCEPT !.up = None] ELSE objs[x]
  BY DEF Objects
<1>4. \A x \in Objects : /\ objs'[x].id = objs[x].id /\ objs'[x].name = objs[x].name
                         /\ objs'[x].up = (IF x = h THEN None ELSE objs[x].up)
                         /\ objs'[x] \in Shape
  <2>. TAKE x \in Objects
  <2>1. objs[x] \in [id : Nat, up : Nat, name : Nat]
    BY <1>1 DEF Shape
  <2>2. CASE x = h
    <3>1. objs'[x] = [objs[x] EXCEPT !.up = 0]
      BY <2>2, <1>3 DEF None
    <3>. QED
      BY <2>1, <2>2, <3>1 DEF Shape, None
  <2>3. CASE x # h
    BY <1>1, <1>3, <2>3
  <2>. QED
    BY <2>2, <2>3
<1>5. Forest(objs')
  <2>1. objs' \in Seq(Shape)
    BY <1>1, <1>2, <1>4 DEF Objects
  <2>. QED
    BY <2>1, <1>1, <1>2, <1>4 DEF Forest, Objects, None
<1>6. \A x \in Objects :
        Paths(objs')[x] = {y \in Paths(objs)[x] : h \in Paths(objs)[x] => h \in Paths(objs)[y]}
  <2>1. h \in DOMAIN objs
    BY DEF Objects
  <2>. QED
    <3>1. \A x \in DOMAIN objs : Paths(objs')[x] = Below(objs, h, x)
      BY <1>5, <2>1, PathsCut
    <3>. QED
      BY <3>1 DEF Objects, Below
<1>7. ASSUME NEW r \in Objects, objs[r].up = None, r # h
      PROVE  /\ Walk(r)' = Walk(r) \ Walk(h)
             /\ \A x \in Walk(r)' : Depth(x)' = Depth(x)
  <2>1. Paths(objs)[r] = {r}
    BY <1>7, PathFacts DEF Objects
  <2>2. /\ Walk(r)' = {x \in Objects : r \in Paths(objs')[x]}
        /\ Walk(r) = {x \in Objects : r \in Paths(objs)[x]}
        /\ Walk(h) = {x \in Objects : h \in Paths(objs)[x]}
    BY <1>2 DEF Walk, Path, Objects
  <2>3. \A x \in Objects : r \in Paths(objs')[x] <=> r \in Paths(objs)[x] /\ h \notin Paths(objs)[x]
    BY <1>6, <1>7, <2>1
  <2>4. \A x \in Objects : h \notin Paths(objs)[x] => Paths(objs')[x] = Paths(objs)[x]
    BY <1>6
  <2>5. \A x \in Walk(r)' : Paths(objs')[x] = Paths(objs)[x]
    BY <2>2, <2>3, <2>4
  <2>. QED
    BY <2>2, <2>3, <2>5 DEF Depth, Path
<1>. QED
  BY <1>2, <1>4, <1>5, <1>7

-------------------------------------------------------------------------------
(* The inductive invariant of the tree *)

\* A parent was given its id before its children.
ObjsInv ==
  /\ ids \in Nat /\ Forest(objs)
  /\ \A x \in Objects : /\ objs[x].id \in 1..ids
                        /\ objs[x].up # None => objs[objs[x].up].id < objs[x].id

\* No object below another one has the id of the root, or of the saved root.
RootInv ==
  /\ root \in Objects
  /\ \A x \in Objects : objs[x].id = objs[root].id => objs[x].up = None
  /\ \A r \in saved.nodes : \A x \in Objects :
       r.up = None /\ objs[x].id = r.id => objs[x].up = None

\* An id is in the tree once.
LiveInv == \A x, y \in Live : objs[x].id = objs[y].id => x = y

SavedInv ==
  /\ saved.depth \in Nat
  /\ saved.nodes # {} => Records(saved.nodes, ids, saved.depth)
  /\ saved # NoSnapshot => saved.nodes # {}

DepthInv == maxDepth \in Nat /\ \A x \in Live : Depth(x) <= maxDepth

CountInv ==
  /\ approved = spawns /\ spawns \in Nat /\ spawns <= MaxSpawns /\ loaded \in Nat
  /\ Cardinality(Live) <= MaxAgents \/ Cardinality(Live) <= loaded

IndexInv ==
  /\ DOMAIN index \subseteq 1..ids /\ objs[root].id \in DOMAIN index
  /\ IndexIsTree

TreeInv ==
  ObjsInv /\ RootInv /\ LiveInv /\ SavedInv /\ DepthInv /\ CountInv /\ IndexInv

\* What the steps of callers and of agents are to the tree.
Still == UNCHANGED <<tree, saved, approved, ghosts>>

TreeStep ==
  \/ \E h \in Objects, name \in Nat : Grows(h, name) /\ saved' = saved
  \/ \E h \in Objects : Prune(h)
  \/ Save \/ Load \/ Restart \/ Still

LEMMA StillFacts ==
  ASSUME Still \/ Save
  PROVE  /\ objs' = objs /\ root' = root /\ index' = index /\ maxDepth' = maxDepth
         /\ approved' = approved /\ ids' = ids /\ spawns' = spawns /\ loaded' = loaded
         /\ astray' = astray /\ Objects' = Objects
         /\ Live' = Live /\ \A x : Depth(x)' = Depth(x)
<1>1. /\ objs' = objs /\ root' = root /\ index' = index /\ maxDepth' = maxDepth
      /\ approved' = approved /\ ids' = ids /\ spawns' = spawns /\ loaded' = loaded
      /\ astray' = astray
  BY DEF Still, Save, tree, ghosts
<1>. QED
  BY <1>1 DEF Live, Walk, Path, Depth, Objects

LEMMA GrowsFacts ==
  ASSUME ObjsInv, NEW h \in Objects, NEW name \in Nat, Grows(h, name), NEW n, n = Len(objs) + 1
  PROVE  /\ Forest(objs') /\ Objects' = Objects \cup {n} /\ n \notin Objects /\ n \in Nat
         /\ objs'[n].id = ids + 1 /\ objs'[n].up = h /\ h # None
         /\ \A x \in Objects : objs'[x] = objs[x]
         /\ \A r \in Objects :
              Walk(r)' = Walk(r) \cup IF r \in Paths(objs)[h] THEN {n} ELSE {}
         /\ Depth(n)' = Depth(h) + 1 /\ \A x \in Objects : Depth(x)' = Depth(x)
         /\ root' = root /\ maxDepth' = maxDepth /\ loaded' = loaded
         /\ ids' = ids + 1 /\ ids + 1 \in Nat
<1>1. objs' = Append(objs, Node(ids + 1, h, name)) /\ ids + 1 \in Nat /\ Forest(objs)
  BY DEF Grows, ObjsInv
<1>2. h # None
  BY <1>1, ForestFacts DEF Objects, None
<1>3. /\ Forest(objs') /\ Objects' = Objects \cup {n} /\ n \notin Objects /\ n \in Nat
      /\ objs'[n] = Node(ids + 1, h, name) /\ \A x \in Objects : objs'[x] = objs[x]
      /\ \A r \in Objects :
           Walk(r)' = Walk(r) \cup IF r \in Paths(objs)[h] THEN {n} ELSE {}
      /\ Depth(n)' = Depth(h) + 1 /\ \A x \in Objects : Depth(x)' = Depth(x)
  <2>. DEFINE i == ids + 1
  <2>1. i \in Nat /\ objs' = Append(objs, Node(i, h, name)) /\ Forest(objs)
    BY <1>1
  <2>. HIDE DEF i
  <2>2. Forest(objs') /\ Objects' = Objects \cup {n} /\ n \notin Objects /\ n \in Nat
    BY <2>1, GrownTree
  <2>5. objs'[n] = Node(i, h, name)
    BY <2>1, GrownTree
  <2>6. \A x \in Objects : objs'[x] = objs[x]
    BY <2>1, GrownTree
  <2>3. \A r \in Objects :
          Walk(r)' = Walk(r) \cup IF r \in Paths(objs)[h] THEN {n} ELSE {}
    BY <2>1, GrownTree
  <2>4. Depth(n)' = Depth(h) + 1 /\ \A x \in Objects : Depth(x)' = Depth(x)
    BY <2>1, GrownTree
  <2>. QED
    BY <2>2, <2>3, <2>4, <2>5, <2>6 DEF i
<1>4. objs'[n].id = ids + 1 /\ objs'[n].up = h
  BY <1>3, NodeFields
<1>5. root' = root /\ maxDepth' = maxDepth /\ loaded' = loaded /\ ids' = ids + 1
  BY DEF Grows
<1>. QED
  BY <1>1, <1>2, <1>3, <1>4, <1>5

LEMMA PruneFacts ==
  ASSUME ObjsInv, RootInv, NEW h \in Objects, Prune(h)
  PROVE  /\ Forest(objs') /\ Objects' = Objects /\ h # root
         /\ \A x \in Objects : /\ objs'[x].id = objs[x].id /\ objs'[x].name = objs[x].name
                               /\ objs'[x].up = IF x = h THEN None ELSE objs[x].up
         /\ Live' = Live \ Walk(h) /\ \A x \in Live' : Depth(x)' = Depth(x)
         /\ root' = root /\ maxDepth' = maxDepth /\ loaded' = loaded /\ ids' = ids
         /\ saved' = saved /\ approved' = approved /\ spawns' = spawns
<1>1. /\ objs' = [objs EXCEPT ![h].up = None] /\ Forest(objs) /\ objs[h].up # None
      /\ root' = root /\ root \in Objects /\ objs[root].up = None
      /\ maxDepth' = maxDepth /\ loaded' = loaded /\ ids' = ids
      /\ saved' = saved /\ approved' = approved /\ spawns' = spawns
  BY DEF Prune, ObjsInv, RootInv
<1>2. Live' = {x \in Objects' : root \in Paths(objs')[x]} /\ Live = Walk(root)
  BY <1>1 DEF Live, Walk, Path, Objects
<1>3. /\ Forest(objs') /\ Objects' = Objects
      /\ \A x \in Objects : /\ objs'[x].id = objs[x].id /\ objs'[x].name = objs[x].name
                            /\ objs'[x].up = IF x = h THEN None ELSE objs[x].up
  BY <1>1, CutTree
<1>4. \A r \in Objects : objs[r].up = None /\ r # h =>
        /\ Walk(r)' = Walk(r) \ Walk(h)
        /\ \A x \in Walk(r)' : Depth(x)' = Depth(x)
  BY <1>1, CutTree
<1>5. \A r : Walk(r)' = {x \in Objects' : r \in Paths(objs')[x]}
  BY DEF Walk, Path, Objects
<1>. QED
  BY <1>1, <1>2, <1>3, <1>4, <1>5

LEMMA LoadFacts ==
  ASSUME ObjsInv, SavedInv, Load
  PROVE  /\ Forest(objs') /\ Objects' = Objects \cup NewObjects /\ NewObjects \cap Objects = {}
         /\ \A x \in Objects : objs'[x] = objs[x]
         /\ \A p \in NewObjects : \E r \in saved.nodes : p = Place(r.id)
         /\ \A r \in saved.nodes :
              /\ Place(r.id) \in NewObjects /\ objs'[Place(r.id)].id = r.id /\ r.id \in 1..ids
              /\ r.up = None => objs'[Place(r.id)].up = None
              /\ r.up # None => /\ objs'[Place(r.id)].up = Place(r.up)
                                /\ objs'[Place(r.up)].id = r.up /\ r.up < r.id
         /\ \E r \in saved.nodes : r.up = None /\ root' = Place(r.id)
         /\ root' \in NewObjects /\ Live' = NewObjects
         /\ \A x \in NewObjects : Depth(x)' <= maxDepth'
         /\ maxDepth' \in Nat /\ saved' = saved /\ ids' = ids
<1>1. /\ Forest(objs) /\ ids \in Nat /\ saved.depth \in Nat
      /\ Records(saved.nodes, ids, saved.depth) /\ Restored
  BY DEF ObjsInv, SavedInv, Load
<1>2. maxDepth' = saved.depth /\ saved' = saved /\ ids' = ids
  BY DEF Load
<1>3. /\ DOMAIN objs' = Objects \cup NewObjects /\ Forest(objs')
      /\ \A x \in Objects : objs'[x] = objs[x]
      /\ \A r \in saved.nodes :
           /\ Place(r.id) \in NewObjects
           /\ objs'[Place(r.id)] =
                Node(r.id, IF r.up = None THEN None ELSE Place(r.up), r.name)
      /\ \A p \in NewObjects : \E r \in saved.nodes : Place(r.id) = p
  BY <1>1, LoadedObjects
<1>4. NewObjects \cap Objects = {}
  BY <1>1, ForestFacts DEF NewObjects, Objects
<1>5. /\ \E r \in saved.nodes : r.up = None /\ root' = Place(r.id)
      /\ root' \in NewObjects /\ Live' = NewObjects
      /\ \A x \in NewObjects : Depth(x)' <= saved.depth
  BY <1>1, LoadedTree DEF Live
<1>6. \A r \in saved.nodes :
        /\ objs'[Place(r.id)].id = r.id
        /\ objs'[Place(r.id)].up = IF r.up = None THEN None ELSE Place(r.up)
  BY <1>3, NodeFields
<1>7. \A r \in saved.nodes :
        r.id \in 1..ids /\ (r.up # None => \E q \in saved.nodes : q.id = r.up /\ r.up < r.id)
  BY <1>1 DEF Records
<1>. QED
  BY <1>1, <1>2, <1>3, <1>4, <1>5, <1>6, <1>7 DEF Objects

LEMMA RestartFacts ==
  ASSUME ObjsInv, Restart
  PROVE  /\ Forest(objs') /\ Objects' = {1} /\ root' = 1 /\ ids' = ids + 1 /\ ids + 1 \in Nat
         /\ objs'[1].id = ids + 1 /\ objs'[1].up = None
         /\ Live' = {1} /\ Depth(1)' = 0 /\ Cardinality(Live') = 1
         /\ saved' = saved
<1>1. ids + 1 \in Nat /\ objs' = <<Node(ids + 1, None, 0)>> /\ root' = 1 /\ saved' = saved /\ ids' = ids + 1
  BY DEF Restart, ObjsInv
<1>2. /\ Forest(objs') /\ DOMAIN objs' = {1} /\ objs'[1] = Node(ids + 1, None, 0)
      /\ Paths(objs')[1] = {1} /\ Cardinality(Paths(objs')[1]) = 1
  BY <1>1, FirstTree
<1>3. Live' = {1} /\ Depth(1)' = 0 /\ Objects' = {1}
  BY <1>1, <1>2 DEF Live, Walk, Path, Objects, Depth
<1>4. Cardinality({1}) = 1
  BY FS_Singleton
<1>5. objs'[1].id = ids + 1 /\ objs'[1].up = None
  BY <1>2, NodeFields
<1>. QED
  BY <1>1, <1>2, <1>3, <1>4, <1>5

LEMMA ObjsStep == ASSUME TreeInv, TreeStep PROVE ObjsInv'
<1>. USE DEF TreeInv
<1>0. /\ ids \in Nat /\ Forest(objs)
      /\ \A x \in Objects : /\ objs[x].id \in 1..ids
                            /\ objs[x].up \in Objects \cup {None}
                            /\ objs[x].up # None => objs[objs[x].up].id < objs[x].id
  BY ForestFacts DEF ObjsInv, Objects
<1>1. ASSUME NEW h \in Objects, NEW name \in Nat, Grows(h, name) PROVE ObjsInv'
  <2>1. PICK n : n = Len(objs) + 1
    OBVIOUS
  <2>2. /\ Forest(objs') /\ Objects' = Objects \cup {n} /\ n \notin Objects
        /\ objs'[n].id = ids + 1 /\ objs'[n].up = h
        /\ \A x \in Objects : objs'[x] = objs[x]
        /\ ids' = ids + 1 /\ ids + 1 \in Nat
    BY <1>1, <2>1, GrowsFacts
  <2>3. objs[h].id < ids + 1 /\ ids + 1 \in 1..(ids + 1) /\ \A i \in 1..ids : i \in 1..(ids + 1)
    <3>1. \A i \in 1..ids : i < ids + 1 /\ i \in 1..(ids + 1)
      BY <1>0
    <3>2. ids + 1 \in 1..(ids + 1)
      BY <1>0
    <3>. QED
      BY <1>0, <3>1, <3>2
  <2>4. ASSUME NEW x \in Objects'
        PROVE  objs'[x].id \in 1..ids' /\ (objs'[x].up # None => objs'[objs'[x].up].id < objs'[x].id)
    <3>1. CASE x = n
      BY <2>2, <2>3, <3>1
    <3>2. CASE x \in Objects
      <4>1. objs'[x] = objs[x] /\ objs[x].id \in 1..ids'
        BY <1>0, <2>2, <2>3, <3>2
      <4>2. objs[x].up # None => objs'[objs[x].up] = objs[objs[x].up]
        BY <1>0, <2>2, <3>2
      <4>. QED
        BY <1>0, <3>2, <4>1, <4>2
    <3>. QED
      BY <2>2, <2>4, <3>1, <3>2
  <2>. QED
    BY <2>2, <2>4 DEF ObjsInv
<1>2. ASSUME NEW h \in Objects, Prune(h) PROVE ObjsInv'
  <2>1. /\ Forest(objs') /\ Objects' = Objects /\ ids' = ids
        /\ \A x \in Objects : /\ objs'[x].id = objs[x].id
                              /\ objs'[x].up = IF x = h THEN None ELSE objs[x].up
    BY <1>2, PruneFacts
  <2>2. ASSUME NEW x \in Objects
        PROVE  objs'[x].id \in 1..ids /\ (objs'[x].up # None => objs'[objs'[x].up].id < objs'[x].id)
    <3>1. objs'[x].id = objs[x].id /\ objs[x].id \in 1..ids
      BY <1>0, <2>1
    <3>2. objs'[x].up # None => objs'[x].up = objs[x].up /\ objs[x].up \in Objects
      BY <1>0, <2>1
    <3>3. objs'[x].up # None => objs'[objs[x].up].id = objs[objs[x].up].id
      BY <2>1, <3>2
    <3>. QED
      BY <1>0, <3>1, <3>2, <3>3
  <2>. QED
    BY <1>0, <2>1, <2>2 DEF ObjsInv
<1>3. CASE Still \/ Save
  BY <1>3, StillFacts DEF ObjsInv
<1>4. CASE Load
  <2>1. /\ Forest(objs') /\ Objects' = Objects \cup NewObjects
        /\ \A x \in Objects : objs'[x] = objs[x]
        /\ ids' = ids
    BY <1>4, LoadFacts
  <2>2. /\ \A p \in NewObjects : \E r \in saved.nodes : p = Place(r.id)
        /\ \A r \in saved.nodes :
             /\ objs'[Place(r.id)].id = r.id /\ r.id \in 1..ids
             /\ r.up = None => objs'[Place(r.id)].up = None
             /\ r.up # None => /\ objs'[Place(r.id)].up = Place(r.up)
                               /\ objs'[Place(r.up)].id = r.up /\ r.up < r.id
    BY <1>4, LoadFacts
  <2>3. ASSUME NEW x \in Objects'
        PROVE  objs'[x].id \in 1..ids /\ (objs'[x].up # None => objs'[objs'[x].up].id < objs'[x].id)
    <3>1. CASE x \in Objects
      <4>1. objs'[x] = objs[x] /\ (objs[x].up # None => objs'[objs[x].up] = objs[objs[x].up])
        BY <1>0, <2>1, <3>1
      <4>. QED
        BY <1>0, <3>1, <4>1
    <3>2. CASE x \in NewObjects
      BY <2>2, <3>2
    <3>. QED
      BY <2>1, <2>3, <3>1, <3>2
  <2>. QED
    BY <1>0, <2>1, <2>3 DEF ObjsInv
<1>5. CASE Restart
  BY <1>0, <1>5, RestartFacts DEF ObjsInv
<1>. QED
  BY <1>1, <1>2, <1>3, <1>4, <1>5 DEF TreeStep

LEMMA RootStep == ASSUME TreeInv, TreeStep PROVE RootInv'
<1>. USE DEF TreeInv
<1>0. /\ root \in Objects /\ objs[root].up = None
      /\ \A x \in Objects : objs[x].id = objs[root].id => objs[x].up = None
      /\ \A r \in saved.nodes : \A x \in Objects :
           r.up = None /\ objs[x].id = r.id => objs[x].up = None
      /\ ids \in Nat /\ \A x \in Objects : objs[x].id \in 1..ids
      /\ \A r \in saved.nodes : r.id \in 1..ids
  <2>1. /\ root \in Objects
        /\ \A x \in Objects : objs[x].id = objs[root].id => objs[x].up = None
        /\ \A r \in saved.nodes : \A x \in Objects :
             r.up = None /\ objs[x].id = r.id => objs[x].up = None
    BY DEF RootInv
  <2>2. ids \in Nat /\ \A x \in Objects : objs[x].id \in 1..ids
    BY DEF ObjsInv
  <2>3. \A r \in saved.nodes : r.id \in 1..ids
    BY DEF SavedInv, Records
  <2>. QED
    BY <2>1, <2>2, <2>3
<1>1. ASSUME NEW h \in Objects, NEW name \in Nat, Grows(h, name), saved' = saved PROVE RootInv'
  <2>1. PICK n : n = Len(objs) + 1
    OBVIOUS
  <2>2. /\ Objects' = Objects \cup {n} /\ n \notin Objects
        /\ objs'[n].id = ids + 1
        /\ \A x \in Objects : objs'[x] = objs[x]
        /\ root' = root
    BY <1>1, <2>1, GrowsFacts
  <2>3. ids + 1 \notin 1..ids
    BY <1>0
  <2>. QED
    BY <1>0, <1>1, <2>2, <2>3 DEF RootInv
<1>2. ASSUME NEW h \in Objects, Prune(h) PROVE RootInv'
  <2>1. /\ Objects' = Objects /\ root' = root /\ saved' = saved
        /\ \A x \in Objects : /\ objs'[x].id = objs[x].id
                              /\ objs'[x].up = IF x = h THEN None ELSE objs[x].up
    BY <1>2, PruneFacts
  <2>. QED
    BY <1>0, <2>1 DEF RootInv
<1>3. CASE Still
  <2>1. saved' = saved
    BY <1>3 DEF Still
  <2>. QED
    BY <1>3, <2>1, StillFacts DEF RootInv
<1>4. CASE Save
  <2>1. \A r \in saved'.nodes : r.up = None => r.id = objs[root].id
    <3>1. \A r \in saved'.nodes : \E h \in Walk(root) :
            r.id = objs[h].id /\ r.up = IF h = root THEN None ELSE objs[objs[h].up].id
      BY <1>4 DEF Save
    <3>2. \A h \in Walk(root) : h # root => objs[h].up \in Objects
      <4>1. ASSUME NEW h \in Walk(root), h # root PROVE objs[h].up # None
        <5>1. h \in DOMAIN objs /\ root \in Paths(objs)[h] /\ Forest(objs)
          BY DEF Walk, Path, Objects, ObjsInv
        <5>. QED
          BY <4>1, <5>1, PathFacts
      <4>. QED
        BY <4>1, ForestFacts DEF Walk, Objects, ObjsInv
    <3>3. \A x \in Objects : objs[x].id # None
      BY <1>0 DEF None
    <3>. QED
      BY <3>1, <3>2, <3>3
  <2>. QED
    BY <1>0, <1>4, <2>1, StillFacts DEF RootInv
<1>5. CASE Load
  <2>1. /\ Objects' = Objects \cup NewObjects
        /\ \A x \in Objects : objs'[x] = objs[x]
        /\ \E r \in saved.nodes : r.up = None /\ root' = Place(r.id)
        /\ root' \in NewObjects /\ saved' = saved
    BY <1>5, LoadFacts
  <2>2. /\ \A p \in NewObjects : \E r \in saved.nodes : p = Place(r.id)
        /\ \A r \in saved.nodes :
             /\ objs'[Place(r.id)].id = r.id
             /\ r.up = None => objs'[Place(r.id)].up = None
    BY <1>5, LoadFacts
  <2>3. \A r, q \in saved.nodes : r.id = q.id => r = q
    BY <1>5 DEF Load, SavedInv, Records
  <2>4. \A r \in saved.nodes : \A x \in Objects' :
          r.up = None /\ objs'[x].id = r.id => objs'[x].up = None
    <3>. TAKE r \in saved.nodes
    <3>. TAKE x \in Objects'
    <3>1. CASE x \in Objects
      BY <1>0, <2>1, <3>1
    <3>2. CASE x \in NewObjects
      BY <2>2, <2>3, <3>2
    <3>. QED
      BY <2>1, <3>1, <3>2
  <2>. QED
    BY <2>1, <2>2, <2>4 DEF RootInv
<1>6. CASE Restart
  BY <1>0, <1>6, RestartFacts DEF RootInv
<1>. QED
  BY <1>1, <1>2, <1>3, <1>4, <1>5, <1>6 DEF TreeStep

LEMMA LiveStep == ASSUME TreeInv, TreeStep PROVE LiveInv'
<1>. USE DEF TreeInv
<1>0. /\ ids \in Nat /\ \A x \in Objects : objs[x].id \in 1..ids
      /\ root \in Objects /\ Live \subseteq Objects
      /\ \A x, y \in Live : objs[x].id = objs[y].id => x = y
  <2>1. ids \in Nat /\ \A x \in Objects : objs[x].id \in 1..ids
    BY DEF ObjsInv
  <2>2. root \in Objects /\ Live \subseteq Objects
    BY DEF RootInv, Live, Walk
  <2>. QED
    BY <2>1, <2>2 DEF LiveInv
<1>1. ASSUME NEW h \in Objects, NEW name \in Nat, Grows(h, name) PROVE LiveInv'
  <2>1. PICK n : n = Len(objs) + 1
    OBVIOUS
  <2>2. /\ n \notin Objects /\ objs'[n].id = ids + 1
        /\ \A x \in Objects : objs'[x] = objs[x]
        /\ root' = root
    BY <1>1, <2>1, GrowsFacts
  <2>3. Live' \subseteq Live \cup {n}
    <3>1. Walk(root)' = {x \in Objects' : root \in Paths(objs')[x]}
      BY <2>2 DEF Walk, Path, Objects
    <3>2. \A r : Walk(r)' = {x \in Objects' : r \in Paths(objs')[x]}
      BY DEF Walk, Path, Objects
    <3>3. \A r \in Objects : Walk(r)' \subseteq Walk(r) \cup {n}
      BY <1>1, <2>1, GrowsFacts
    <3>. QED
      BY <1>0, <3>1, <3>2, <3>3 DEF Live
  <2>4. ids + 1 \notin 1..ids
    BY <1>0
  <2>. QED
    BY <1>0, <2>2, <2>3, <2>4 DEF LiveInv
<1>2. ASSUME NEW h \in Objects, Prune(h) PROVE LiveInv'
  <2>1. /\ \A x \in Objects : objs'[x].id = objs[x].id
        /\ Live' = Live \ Walk(h)
    BY <1>2, PruneFacts
  <2>. QED
    BY <1>0, <2>1 DEF LiveInv
<1>3. CASE Still \/ Save
  BY <1>3, StillFacts DEF LiveInv
<1>4. CASE Load
  <2>1. /\ \A p \in NewObjects : \E r \in saved.nodes : p = Place(r.id)
        /\ \A r \in saved.nodes : objs'[Place(r.id)].id = r.id
        /\ Live' = NewObjects
    BY <1>4, LoadFacts
  <2>2. \A r, q \in saved.nodes : r.id = q.id => r = q
    BY <1>4 DEF Load, SavedInv, Records
  <2>. QED
    BY <2>1, <2>2 DEF LiveInv
<1>5. CASE Restart
  BY <1>5, RestartFacts DEF LiveInv
<1>. QED
  BY <1>1, <1>2, <1>3, <1>4, <1>5 DEF TreeStep

\* The tree below the root.
LEMMA LiveFacts ==
  ASSUME ObjsInv, RootInv
  PROVE  /\ Live \subseteq Objects /\ root \in Live /\ IsFiniteSet(Live) /\ objs[root].up = None
         /\ \A h \in Live : /\ Depth(h) \in Nat /\ Top(h) = root
                            /\ h # root => /\ objs[h].up # None /\ objs[h].up \in Live
                                           /\ Depth(h) = Depth(objs[h].up) + 1
         /\ \A h \in Live : Walk(h) \subseteq Live
<1>0. Forest(objs) /\ root \in Objects /\ objs[root].up = None
  BY DEF ObjsInv, RootInv
<1>1. /\ Live = {x \in Objects : root \in Paths(objs)[x]} /\ Objects = DOMAIN objs
      /\ \A h : Walk(h) = {x \in Objects : h \in Paths(objs)[x]}
      /\ \A h : Depth(h) = Cardinality(Paths(objs)[h]) - 1
      /\ \A h : Top(h) = CHOOSE x \in Paths(objs)[h] : objs[x].up = None
  BY DEF Live, Walk, Path, Objects, Depth, Top
<1>2. root \in Live
  BY <1>0, <1>1, PathFacts
<1>3. IsFiniteSet(Live)
  <2>1. Len(objs) \in Nat /\ Live \in SUBSET (1..Len(objs))
    BY <1>0, <1>1, ForestFacts
  <2>2. IsFiniteSet(1..Len(objs))
    BY <2>1, FS_Interval
  <2>. QED
    BY <2>1, <2>2, FS_Subset
<1>4. ASSUME NEW h \in Live
      PROVE  /\ Depth(h) \in Nat /\ Top(h) = root
             /\ h # root => /\ objs[h].up # None /\ objs[h].up \in Live
                            /\ Depth(h) = Depth(objs[h].up) + 1
  <2>1. h \in DOMAIN objs /\ root \in Paths(objs)[h]
    BY <1>1
  <2>2. Cardinality(Paths(objs)[h]) \in Nat /\ Cardinality(Paths(objs)[h]) > 0
    <3>1. IsFiniteSet(Paths(objs)[h]) /\ Paths(objs)[h] # {}
      BY <1>0, <2>1, PathsBelow
    <3>. QED
      BY <3>1, FS_CardinalityType, FS_EmptySet
  <2>3. Depth(h) \in Nat
    BY <1>1, <2>2
  <2>4. Top(h) = root
    <3>1. PICK t \in Paths(objs)[h] : \A y \in Paths(objs)[h] : objs[y].up = None => y = t
      BY <1>0, <2>1, PathTop
    <3>. QED
      BY <1>0, <1>1, <2>1, <3>1
  <2>5. ASSUME h # root
        PROVE  /\ objs[h].up # None /\ objs[h].up \in Live
               /\ Depth(h) = Depth(objs[h].up) + 1
    <3>1. objs[h].up # None
      BY <1>0, <2>1, <2>5, PathFacts
    <3>2. objs[h].up \in DOMAIN objs
      BY <1>0, <2>1, <3>1, ForestFacts
    <3>3. root \in Paths(objs)[objs[h].up]
      BY <1>0, <2>1, <2>5, <3>1, PathFacts
    <3>4. /\ Cardinality(Paths(objs)[h]) = Cardinality(Paths(objs)[objs[h].up]) + 1
          /\ Cardinality(Paths(objs)[objs[h].up]) \in Nat
      BY <1>0, <2>1, <3>1, <3>2, PathLength
    <3>5. Depth(h) = Depth(objs[h].up) + 1
      BY <1>1, <3>4
    <3>. QED
      BY <1>1, <3>1, <3>2, <3>3, <3>5
  <2>. QED
    BY <2>3, <2>4, <2>5
<1>5. \A h \in Live : Walk(h) \subseteq Live
  BY <1>0, <1>1, PathsNest
<1>. QED
  BY <1>0, <1>1, <1>2, <1>3, <1>4, <1>5

\* Ids that are given out later leave the records as they are.
LEMMA RecordsLast ==
  ASSUME NEW recs, NEW last \in Nat, NEW deep, Records(recs, last, deep)
  PROVE  Records(recs, last + 1, deep)
<1>1. \A i \in 1..last : i \in 1..(last + 1)
  OBVIOUS
<1>2. recs \subseteq [id : 1..(last + 1), name : Nat, up : Nat]
  BY <1>1 DEF Records
<1>. QED
  BY <1>2 DEF Records

LEMMA SaveKeeps == ASSUME TreeInv, Save PROVE SavedInv'
<1>. DEFINE rec(h) == [id |-> objs[h].id, name |-> objs[h].name,
                       up |-> IF h = root THEN None ELSE objs[objs[h].up].id]
            recs == {rec(h) : h \in Live}
<1>0. saved' = [depth |-> maxDepth, nodes |-> recs] /\ ids' = ids
  BY StillFacts DEF Save, Live
<1>1. /\ Live \subseteq Objects /\ root \in Live /\ IsFiniteSet(Live)
      /\ \A h \in Live : /\ Depth(h) \in Nat
                         /\ h # root => /\ objs[h].up \in Live
                                        /\ Depth(h) = Depth(objs[h].up) + 1
  BY LiveFacts DEF TreeInv
<1>2. /\ ids \in Nat /\ \A x \in Objects : objs[x].id \in 1..ids /\ objs[x].name \in Nat
      /\ \A h \in Live : h # root => objs[objs[h].up].id < objs[h].id
  <2>1. ids \in Nat /\ \A x \in Objects : objs[x].id \in 1..ids
    BY DEF TreeInv, ObjsInv
  <2>2. \A x \in Objects : objs[x].name \in Nat
    BY ForestFacts DEF TreeInv, ObjsInv, Shape, Objects
  <2>3. \A h \in Live : h # root => objs[objs[h].up].id < objs[h].id
    BY <1>1, LiveFacts DEF TreeInv, ObjsInv
  <2>. QED
    BY <2>1, <2>2, <2>3
<1>3. \A h, g \in Live : objs[h].id = objs[g].id => h = g
  BY DEF TreeInv, LiveInv
<1>4. /\ maxDepth \in Nat /\ \A h \in Live : Depth(h) <= maxDepth
  BY DEF TreeInv, DepthInv
<1>5. \A h \in Live : rec(h).id = objs[h].id /\ rec(h).name = objs[h].name
                      /\ rec(h).up = IF h = root THEN None ELSE objs[objs[h].up].id
  OBVIOUS
<1>6. \A h \in Live : rec(h) \in [id : 1..ids, name : Nat, up : Nat]
  <2>. TAKE h \in Live
  <2>1. objs[h].id \in 1..ids /\ objs[h].name \in Nat
    BY <1>1, <1>2
  <2>2. (IF h = root THEN None ELSE objs[objs[h].up].id) \in Nat
    <3>1. CASE h = root
      BY <3>1 DEF None
    <3>2. CASE h # root
      <4>1. objs[objs[h].up].id \in 1..ids
        BY <1>1, <1>2, <3>2
      <4>. QED
        BY <1>2, <3>2, <4>1
    <3>. QED
      BY <3>1, <3>2
  <2>. QED
    BY <2>1, <2>2
<1>. HIDE DEF rec
<1>7. \A h, g \in Live : rec(h) = rec(g) => h = g
  BY <1>3, <1>5
<1>8. \A r \in recs : \E h \in Live : r = rec(h)
  OBVIOUS
<1>9. \A h \in Live : rec(h) \in recs
  OBVIOUS
<1>10. IsFiniteSet(recs)
  <2>. DEFINE f == [h \in Live |-> rec(h)]
  <2>1. f \in Surjection(Live, recs)
    BY <1>8, <1>9 DEF Surjection
  <2>. HIDE DEF f
  <2>. QED
    BY <1>1, <2>1, FS_Surjection
<1>11. recs \subseteq [id : 1..ids, name : Nat, up : Nat]
  BY <1>6, <1>8
<1>. HIDE DEF recs
<1>12. \A r, q \in recs : r.id = q.id => r = q
  BY <1>3, <1>5, <1>8
<1>13. \A h \in Live : h # root => rec(h).up # None
  <2>. TAKE h \in Live
  <2>. HAVE h # root
  <2>1. objs[objs[h].up].id \in 1..ids /\ rec(h).up = objs[objs[h].up].id
    BY <1>1, <1>2, <1>5
  <2>. QED
    BY <2>1 DEF None
<1>14. \E r \in recs : r.up = None /\ \A q \in recs : q.up = None => q = r
  <2>1. rec(root) \in recs /\ rec(root).up = None
    BY <1>1, <1>5, <1>9
  <2>2. \A q \in recs : q.up = None => q = rec(root)
    BY <1>8, <1>13
  <2>. QED
    BY <2>1, <2>2
<1>15. \A h \in Live : h # root => /\ rec(objs[h].up) \in recs /\ rec(objs[h].up).id = rec(h).up
                                   /\ rec(h).up < rec(h).id
  BY <1>1, <1>2, <1>5, <1>9
<1>16. \A r \in recs : r.up # None => \E q \in recs : q.id = r.up /\ r.up < r.id
  <2>1. rec(root).up = None
    BY <1>1, <1>5
  <2>. QED
    BY <1>8, <1>15, <2>1
<1>17. \E d \in [recs -> Nat] :
         \A r \in recs : d[r] <= maxDepth /\ \A q \in recs : q.id = r.up => d[q] < d[r]
  <2>. DEFINE at(r) == CHOOSE h \in Live : rec(h) = r
              d == [r \in recs |-> Depth(at(r))]
  <2>1. \A h \in Live : at(rec(h)) = h
    BY <1>7
  <2>2. \A h \in Live : d[rec(h)] = Depth(h)
    BY <1>9, <2>1
  <2>3. \A r \in recs : d[r] \in Nat /\ d[r] <= maxDepth
    BY <1>1, <1>4, <1>8, <2>2
  <2>4. DOMAIN d = recs /\ d = [r \in recs |-> d[r]]
    OBVIOUS
  <2>. HIDE DEF d, at
  <2>5. d \in [recs -> Nat]
    BY <2>3, <2>4
  <2>6. ASSUME NEW r \in recs, NEW q \in recs, q.id = r.up PROVE d[q] < d[r]
    <3>1. PICK h \in Live : r = rec(h)
      BY <1>8
    <3>2. PICK g \in Live : q = rec(g)
      BY <1>8
    <3>3. h # root
      <4>1. q.id \in 1..ids
        BY <1>1, <1>2, <1>5, <3>2
      <4>. QED
        BY <2>6, <3>1, <4>1, <1>1, <1>5 DEF None
    <3>4. q = rec(objs[h].up)
      BY <1>12, <1>15, <2>6, <3>1, <3>3
    <3>5. d[q] = Depth(objs[h].up) /\ d[r] = Depth(h) /\ Depth(objs[h].up) \in Nat
      BY <1>1, <2>2, <3>1, <3>3, <3>4
    <3>6. Depth(h) = Depth(objs[h].up) + 1
      BY <1>1, <3>3
    <3>. QED
      BY <3>5, <3>6
  <2>. QED
    BY <2>3, <2>5, <2>6
<1>18. Records(recs, ids, maxDepth) /\ recs # {}
  BY <1>10, <1>11, <1>12, <1>14, <1>16, <1>17 DEF Records
<1>. QED
  BY <1>0, <1>4, <1>18 DEF SavedInv

LEMMA SavedStep == ASSUME TreeInv, TreeStep PROVE SavedInv'
<1>0. SavedInv /\ ids \in Nat /\ ObjsInv /\ RootInv
  BY DEF TreeInv, ObjsInv
<1>1. ASSUME saved' = saved, ids' = ids + 1 PROVE SavedInv'
  <2>1. saved.nodes # {} => Records(saved.nodes, ids + 1, saved.depth)
    BY <1>0, RecordsLast DEF SavedInv
  <2>. QED
    BY <1>0, <1>1, <2>1 DEF SavedInv
<1>2. ASSUME saved' = saved, ids' = ids PROVE SavedInv'
  BY <1>0, <1>2 DEF SavedInv
<1>3. ASSUME NEW h \in Objects, NEW name \in Nat, Grows(h, name), saved' = saved PROVE SavedInv'
  BY <1>1, <1>3 DEF Grows
<1>4. ASSUME NEW h \in Objects, Prune(h) PROVE SavedInv'
  BY <1>2, <1>4 DEF Prune
<1>5. CASE Save
  BY <1>5, SaveKeeps
<1>6. CASE Load
  BY <1>2, <1>6 DEF Load
<1>7. CASE Restart
  BY <1>1, <1>7 DEF Restart
<1>8. CASE Still
  BY <1>2, <1>8 DEF Still, ghosts
<1>. QED
  BY <1>3, <1>4, <1>5, <1>6, <1>7, <1>8 DEF TreeStep

\* What a spawn does to the tree.
LEMMA LiveGrows ==
  ASSUME ObjsInv, RootInv, NEW h \in Objects, NEW name \in Nat, Grows(h, name),
         NEW n, n = Len(objs) + 1
  PROVE  Live' = Live \cup IF h \in Live THEN {n} ELSE {}
<1>1. root \in Objects /\ root' = root
  BY GrowsFacts DEF RootInv
<1>2. \A r \in Objects : Walk(r)' = Walk(r) \cup IF r \in Paths(objs)[h] THEN {n} ELSE {}
  BY GrowsFacts
<1>3. /\ \A r : Walk(r)' = {x \in Objects' : r \in Paths(objs')[x]}
      /\ Live' = {x \in Objects' : root \in Paths(objs')[x]}
      /\ Live = Walk(root) /\ (h \in Live <=> root \in Paths(objs)[h])
  BY <1>1 DEF Walk, Path, Objects, Live
<1>. QED
  BY <1>1, <1>2, <1>3

LEMMA DepthStep == ASSUME TreeInv, TreeStep PROVE DepthInv'
<1>0. ObjsInv /\ RootInv /\ SavedInv /\ maxDepth \in Nat /\ \A x \in Live : Depth(x) <= maxDepth
  BY DEF TreeInv, DepthInv
<1>1. ASSUME NEW h \in Objects, NEW name \in Nat, Grows(h, name) PROVE DepthInv'
  <2>1. PICK n : n = Len(objs) + 1
    OBVIOUS
  <2>2. /\ Depth(n)' = Depth(h) + 1 /\ \A x \in Objects : Depth(x)' = Depth(x)
        /\ maxDepth' = maxDepth
    BY <1>0, <1>1, <2>1, GrowsFacts
  <2>3. Live' \subseteq Live \cup {n}
    BY <1>0, <1>1, <2>1, LiveGrows
  <2>4. Depth(h) + 1 <= maxDepth
    BY <1>1 DEF Grows
  <2>5. Live \subseteq Objects
    BY DEF Live, Walk
  <2>. QED
    BY <1>0, <2>2, <2>3, <2>4, <2>5 DEF DepthInv
<1>2. ASSUME NEW h \in Objects, Prune(h) PROVE DepthInv'
  <2>1. /\ Live' = Live \ Walk(h) /\ maxDepth' = maxDepth /\ \A x \in Live' : Depth(x)' = Depth(x)
    BY <1>0, <1>2, PruneFacts
  <2>. QED
    BY <1>0, <2>1 DEF DepthInv
<1>3. CASE Still \/ Save
  BY <1>0, <1>3, StillFacts DEF DepthInv
<1>4. CASE Load
  BY <1>0, <1>4, LoadFacts DEF DepthInv
<1>5. CASE Restart
  <2>1. maxDepth' = NewDepth /\ NewDepth \in Nat
    BY <1>5, GrowthAssumption DEF Restart
  <2>. QED
    BY <1>0, <1>5, <2>1, RestartFacts DEF DepthInv
<1>. QED
  BY <1>1, <1>2, <1>3, <1>4, <1>5 DEF TreeStep

LEMMA CountStep == ASSUME TreeInv, TreeStep PROVE CountInv'
<1>0. /\ ObjsInv /\ RootInv /\ SavedInv
      /\ approved = spawns /\ spawns \in Nat /\ spawns <= MaxSpawns /\ loaded \in Nat
      /\ Cardinality(Live) <= MaxAgents \/ Cardinality(Live) <= loaded
      /\ IsFiniteSet(Live) /\ Cardinality(Live) \in Nat
      /\ MaxAgents \in Nat \ {0} /\ MaxSpawns \in Nat
  BY LiveFacts, FS_CardinalityType, GrowthAssumption DEF TreeInv, CountInv
<1>1. ASSUME NEW h \in Objects, NEW name \in Nat, Grows(h, name) PROVE CountInv'
  <2>1. PICK n : n = Len(objs) + 1
    OBVIOUS
  <2>2. Governor(h) /\ approved' = approved + 1 /\ spawns' = spawns + 1 /\ loaded' = loaded
    BY <1>1 DEF Grows, Allowed
  <2>3. approved < MaxSpawns /\ Cardinality(Walk(Top(h))) < MaxAgents
    BY <2>2 DEF Governor
  <2>4. Live' = Live \cup IF h \in Live THEN {n} ELSE {}
    BY <1>0, <1>1, <2>1, LiveGrows
  <2>5. Cardinality(Live') <= MaxAgents \/ Cardinality(Live') <= loaded
    <3>1. CASE h \in Live
      <4>1. Top(h) = root /\ Walk(root) = Live
        BY <1>0, <3>1, LiveFacts DEF Live
      <4>2. Cardinality(Live) < MaxAgents
        BY <2>3, <4>1
      <4>3. Live' = Live \cup {n}
        BY <2>4, <3>1
      <4>4. Cardinality(Live \cup {n}) = IF n \in Live THEN Cardinality(Live) ELSE Cardinality(Live) + 1
        BY <1>0, FS_AddElement
      <4>5. Cardinality(Live \cup {n}) <= Cardinality(Live) + 1 /\ Cardinality(Live \cup {n}) \in Nat
        BY <1>0, <4>4
      <4>. QED
        BY <1>0, <4>2, <4>3, <4>5
    <3>2. CASE h \notin Live
      <4>1. Live' = Live
        BY <2>4, <3>2
      <4>. QED
        BY <1>0, <4>1
    <3>. QED
      BY <3>1, <3>2
  <2>. QED
    BY <1>0, <2>2, <2>3, <2>5 DEF CountInv
<1>2. ASSUME NEW h \in Objects, Prune(h) PROVE CountInv'
  <2>1. Live' = Live \ Walk(h) /\ loaded' = loaded /\ approved' = approved /\ spawns' = spawns
    BY <1>0, <1>2, PruneFacts
  <2>2. Live' \in SUBSET Live
    BY <2>1
  <2>3. Cardinality(Live') <= Cardinality(Live) /\ Cardinality(Live') \in Nat
    BY <1>0, <2>2, FS_Subset, FS_CardinalityType
  <2>. QED
    BY <1>0, <2>1, <2>3 DEF CountInv
<1>3. CASE Still \/ Save
  BY <1>0, <1>3, StillFacts DEF CountInv
<1>4. CASE Load
  <2>1. loaded' = Cardinality(saved.nodes) /\ approved' = approved /\ spawns' = spawns
    BY <1>4 DEF Load, Restored
  <2>2. Live' = NewObjects
    BY <1>0, <1>4, LoadFacts
  <2>3. Cardinality(saved.nodes) \in Nat
    BY <1>0, <1>4, FS_CardinalityType DEF Load, SavedInv, Records
  <2>4. Len(objs) \in Nat
    BY <1>0, ForestFacts DEF ObjsInv
  <2>5. Cardinality(NewObjects) <= Cardinality(saved.nodes)
    <3>. DEFINE a == Len(objs) + 1
                b == Len(objs) + Cardinality(saved.nodes)
    <3>1. a \in Int /\ b \in Int /\ b - a + 1 = Cardinality(saved.nodes)
      BY <2>3, <2>4
    <3>2. Cardinality(a..b) = IF a > b THEN 0 ELSE b - a + 1
      BY <3>1, FS_Interval
    <3>3. NewObjects = a..b
      BY DEF NewObjects
    <3>. HIDE DEF a, b
    <3>. QED
      BY <2>3, <3>1, <3>2, <3>3
  <2>. QED
    BY <1>0, <2>1, <2>2, <2>3, <2>5 DEF CountInv
<1>5. CASE Restart
  <2>1. approved' = 0 /\ spawns' = 0 /\ loaded' = 1
    BY <1>5 DEF Restart
  <2>. QED
    BY <1>0, <1>5, <2>1, RestartFacts DEF CountInv
<1>. QED
  BY <1>1, <1>2, <1>3, <1>4, <1>5 DEF TreeStep

LEMMA IndexStep == ASSUME TreeInv, TreeStep PROVE IndexInv'
<1>0. /\ ObjsInv /\ RootInv /\ SavedInv /\ ids \in Nat /\ root \in Objects /\ Live \subseteq Objects
      /\ \A x \in Objects : objs[x].id \in 1..ids
      /\ \A x, y \in Live : objs[x].id = objs[y].id => x = y
  BY LiveFacts DEF TreeInv, ObjsInv, RootInv, LiveInv
<1>1. /\ DOMAIN index \subseteq 1..ids /\ objs[root].id \in DOMAIN index
      /\ index[objs[root].id] = root
      /\ ~astray => /\ {index[i] : i \in DOMAIN index} = Live
                    /\ \A i \in DOMAIN index : objs[index[i]].id = i
  BY DEF TreeInv, IndexInv, IndexIsTree
<1>2. ASSUME NEW h \in Objects, NEW name \in Nat, Grows(h, name) PROVE IndexInv'
  <2>1. PICK n : n = Len(objs) + 1
    OBVIOUS
  <2>2. /\ n \notin Objects /\ objs'[n].id = ids + 1
        /\ \A x \in Objects : objs'[x] = objs[x]
        /\ root' = root /\ ids' = ids + 1
    BY <1>0, <1>2, <2>1, GrowsFacts
  <2>3. Live' = Live \cup IF h \in Live THEN {n} ELSE {}
    BY <1>0, <1>2, <2>1, LiveGrows
  <2>4. index' = [i \in DOMAIN index \cup {ids + 1} |-> IF i = ids + 1 THEN n ELSE index[i]]
    BY <1>2, <2>1 DEF Grows
  <2>5. ids + 1 \notin 1..ids /\ ids + 1 \in 1..(ids + 1) /\ \A i \in 1..ids : i \in 1..(ids + 1)
    BY <1>0
  <2>6. /\ DOMAIN index' = DOMAIN index \cup {ids + 1} /\ ids + 1 \notin DOMAIN index
        /\ index'[ids + 1] = n /\ \A i \in DOMAIN index : index'[i] = index[i]
    BY <1>1, <2>4, <2>5
  <2>7. DOMAIN index' \subseteq 1..ids'
    BY <1>1, <2>2, <2>5, <2>6
  <2>8. objs'[root'].id = objs[root].id
    BY <1>0, <2>2
  <2>9. ASSUME ~astray'
        PROVE  /\ {index'[i] : i \in DOMAIN index'} = Live'
               /\ \A i \in DOMAIN index' : objs'[index'[i]].id = i
    <3>1. ~astray /\ h \in Live
      BY <1>2, <2>9 DEF Grows, Astray, Live
    <3>2. Live' = Live \cup {n}
      BY <2>3, <3>1
    <3>3. \A i \in DOMAIN index : index[i] \in Live
      BY <1>1, <3>1
    <3>4. \A x \in Live : \E i \in DOMAIN index : index[i] = x
      BY <1>1, <3>1
    <3>5. {index'[i] : i \in DOMAIN index'} = Live'
      BY <2>6, <3>2, <3>3, <3>4
    <3>6. \A i \in DOMAIN index' : objs'[index'[i]].id = i
      BY <1>0, <1>1, <2>2, <2>6, <3>1, <3>3
    <3>. QED
      BY <3>5, <3>6
  <2>. QED
    BY <1>1, <2>2, <2>6, <2>7, <2>8, <2>9 DEF IndexInv, IndexIsTree
<1>3. ASSUME NEW h \in Objects, Prune(h) PROVE IndexInv'
  <2>1. /\ \A x \in Objects : objs'[x].id = objs[x].id
        /\ Live' = Live \ Walk(h) /\ root' = root /\ ids' = ids
    BY <1>0, <1>3, PruneFacts
  <2>. DEFINE gone == {objs[x].id : x \in Walk(h)}
  <2>2. index' = [i \in DOMAIN index \ gone |-> index[i]]
    BY <1>3 DEF Prune
  <2>3. DOMAIN index' = DOMAIN index \ gone /\ \A i \in DOMAIN index' : index'[i] = index[i]
    BY <2>2
  <2>4. ASSUME NEW x \in Walk(h) PROVE x \in Objects /\ objs[x].id # objs[root].id
    <3>1. x \in DOMAIN objs /\ h \in Paths(objs)[x] /\ Forest(objs) /\ x \in Objects
      BY <1>0 DEF Walk, Path, Objects, ObjsInv
    <3>2. objs[x].up # None
      <4>1. CASE x = h
        BY <1>3, <4>1 DEF Prune
      <4>2. CASE x # h
        BY <3>1, <4>2, PathFacts
      <4>. QED
        BY <4>1, <4>2
    <3>. QED
      BY <1>0, <3>1, <3>2 DEF RootInv
  <2>5. objs[root].id \notin gone
    BY <2>4
  <2>6. ASSUME ~astray'
        PROVE  /\ {index'[i] : i \in DOMAIN index'} = Live'
               /\ \A i \in DOMAIN index' : objs'[index'[i]].id = i
    <3>1. ~astray /\ h \in Live
      BY <1>3, <2>6 DEF Prune, Astray, Live
    <3>2. Walk(h) \subseteq Live
      BY <1>0, <3>1, LiveFacts
    <3>3. \A i \in DOMAIN index : index[i] \in Live /\ objs[index[i]].id = i
      BY <1>1, <3>1
    <3>4. \A x \in Live : \E i \in DOMAIN index : index[i] = x
      BY <1>1, <3>1
    <3>5. \A i \in DOMAIN index : i \in gone <=> index[i] \in Walk(h)
      BY <1>0, <3>2, <3>3
    <3>. HIDE DEF gone
    <3>6. {index'[i] : i \in DOMAIN index'} = Live'
      BY <2>1, <2>3, <3>3, <3>4, <3>5
    <3>7. \A i \in DOMAIN index' : objs'[index'[i]].id = i
      BY <1>0, <2>1, <2>3, <3>3
    <3>. QED
      BY <3>6, <3>7
  <2>. HIDE DEF gone
  <2>7. objs'[root'].id = objs[root].id /\ objs[root].id \in DOMAIN index'
        /\ index'[objs[root].id] = root
    BY <1>0, <1>1, <2>1, <2>3, <2>5
  <2>8. DOMAIN index' \subseteq 1..ids'
    BY <1>1, <2>1, <2>3
  <2>. QED
    BY <2>1, <2>6, <2>7, <2>8 DEF IndexInv, IndexIsTree
<1>4. CASE Still \/ Save
  BY <1>1, <1>4, StillFacts DEF IndexInv, IndexIsTree
<1>5. CASE Load
  <2>1. /\ \A p \in NewObjects : \E r \in saved.nodes : p = Place(r.id)
        /\ \A r \in saved.nodes :
             /\ Place(r.id) \in NewObjects /\ objs'[Place(r.id)].id = r.id /\ r.id \in 1..ids
        /\ \E r \in saved.nodes : r.up = None /\ root' = Place(r.id)
        /\ Live' = NewObjects /\ ids' = ids
    BY <1>0, <1>5, LoadFacts
  <2>2. index' = [i \in {r.id : r \in saved.nodes} |-> Place(i)]
    BY <1>5 DEF Load, Restored
  <2>3. /\ \A r \in saved.nodes : r.id \in DOMAIN index' /\ index'[r.id] = Place(r.id)
        /\ \A i \in DOMAIN index' : \E r \in saved.nodes : i = r.id
    BY <2>2
  <2>4. {index'[i] : i \in DOMAIN index'} = Live'
    BY <2>1, <2>3
  <2>5. \A i \in DOMAIN index' : objs'[index'[i]].id = i
    BY <2>1, <2>3
  <2>6. objs'[root'].id \in DOMAIN index' /\ index'[objs'[root'].id] = root'
    BY <2>1, <2>3
  <2>7. DOMAIN index' \subseteq 1..ids'
    BY <2>1, <2>3
  <2>. QED
    BY <2>4, <2>5, <2>6, <2>7 DEF IndexInv, IndexIsTree
<1>6. CASE Restart
  <2>1. index' = [i \in {ids + 1} |-> 1]
    BY <1>6 DEF Restart
  <2>2. /\ root' = 1 /\ ids' = ids + 1 /\ objs'[1].id = ids + 1 /\ Live' = {1}
    BY <1>0, <1>6, RestartFacts
  <2>3. ids + 1 \in 1..(ids + 1)
    BY <1>0
  <2>4. DOMAIN index' = {ids + 1} /\ index'[ids + 1] = 1
    BY <2>1
  <2>. QED
    BY <2>2, <2>3, <2>4 DEF IndexInv, IndexIsTree
<1>. QED
  BY <1>2, <1>3, <1>4, <1>5, <1>6 DEF TreeStep

-------------------------------------------------------------------------------
(* The agents of a solve *)

AgentShape ==
  [node : Nat, depth : Nat, calls : Nat, left : Nat, spawned : Nat, turns : Nat]

LEMMA LevelsNat == Levels \in Nat
BY GrowthAssumption

\* An agent with calls of the tool or subtasks still to do.
Owes(f) == f.calls > 0 \/ f.left > 0

\* The agents at work are each one deeper than the one that delegates to it, on
\* a younger object, and only those with the tool have any use of it to do.
AgentsInv ==
  /\ stack \in Seq(AgentShape)
  /\ \A i \in DOMAIN stack : /\ stack[i].node \in Objects /\ stack[i].depth = i - 1
                             /\ Owes(stack[i]) => HasDelegate(stack[i])
                             /\ \A j \in DOMAIN stack : i < j => stack[i].node < stack[j].node
  /\ Len(stack) <= 2 \/ Len(stack) <= Levels + 1

\* A child is named with a number its agent has counted.
BornInv ==
  /\ \A b \in born : /\ b.under \in Objects /\ b.name \in Nat
                     /\ \A i \in DOMAIN stack :
                          stack[i].node = b.under => b.name <= stack[i].spawned
  /\ \A b, c \in born : b # c => b.under # c.under \/ b.name # c.name

StackInv == AgentsInv /\ BornInv

\* The agent at work.
LEMMA WorkingFacts ==
  ASSUME AgentsInv, stack # <<>>
  PROVE  /\ Len(stack) \in Nat \ {0} /\ DOMAIN stack = 1..Len(stack) /\ Len(stack) \in DOMAIN stack
         /\ Working = stack[Len(stack)] /\ Working \in AgentShape
         /\ Working.node \in Objects /\ Working.depth = Len(stack) - 1
         /\ Working.calls \in Nat /\ Working.left \in Nat
         /\ Working.spawned \in Nat /\ Working.turns \in Nat
<1>1. Len(stack) \in Nat \ {0} /\ DOMAIN stack = 1..Len(stack)
  BY DEF AgentsInv
<1>2. Len(stack) \in DOMAIN stack
  BY <1>1
<1>3. stack[Len(stack)] \in AgentShape
  BY <1>2 DEF AgentsInv
<1>. QED
  BY <1>1, <1>2, <1>3 DEF AgentsInv, Working, AgentShape

\* Every step is one of those of the tree.
LEMMA Kinds == ASSUME StackInv, [Next]_vars PROVE TreeStep
<1>1. ASSUME NEW h \in Objects, Spawn(h) PROVE TreeStep
  <2>1. Grows(h, 0) /\ saved' = saved /\ 0 \in Nat
    BY <1>1 DEF Spawn
  <2>. QED
    BY <2>1 DEF TreeStep
<1>2. ASSUME NEW h \in Objects, Solve(h) PROVE TreeStep
  BY <1>2 DEF Solve, TreeStep, Still
<1>3. CASE Delegated
  <2>1. Working.node \in Objects /\ Working.spawned + 1 \in Nat
    BY <1>3, WorkingFacts DEF Delegated, StackInv
  <2>2. Grows(Working.node, Working.spawned + 1) /\ saved' = saved
    BY <1>3 DEF Delegated
  <2>. QED
    BY <2>1, <2>2 DEF TreeStep
<1>4. ASSUME NEW n \in 0..(MaxSubtasks + 1), Delegate(n) PROVE TreeStep
  BY <1>4 DEF Delegate, TreeStep, Still
<1>9. ASSUME NEW k \in 0..MaxCalls, Responds(k) PROVE TreeStep
  BY <1>9 DEF Responds, TreeStep, Still
<1>5. CASE NotDelegated \/ AgentEnds
  BY <1>5 DEF NotDelegated, AgentEnds, TreeStep, Still
<1>6. CASE UNCHANGED vars
  BY <1>6 DEF vars, TreeStep, Still
<1>7. ASSUME NEW h \in Objects, Prune(h) PROVE TreeStep
  BY <1>7 DEF TreeStep
<1>8. CASE Save \/ Load \/ Restart
  BY <1>8 DEF TreeStep
<1>. QED
  BY <1>1, <1>2, <1>3, <1>4, <1>5, <1>6, <1>7, <1>8, <1>9 DEF Next, SolveGoes

\* Objects stay while the process does.
LEMMA ObjectsStay == ASSUME TreeInv, TreeStep, ~Restart PROVE Objects \subseteq Objects'
<1>0. ObjsInv /\ RootInv /\ SavedInv
  BY DEF TreeInv
<1>1. ASSUME NEW h \in Objects, NEW name \in Nat, Grows(h, name) PROVE Objects \subseteq Objects'
  <2>1. PICK n : n = Len(objs) + 1
    OBVIOUS
  <2>2. Objects' = Objects \cup {n}
    BY <1>0, <1>1, <2>1, GrowsFacts
  <2>. QED
    BY <2>2
<1>2. ASSUME NEW h \in Objects, Prune(h) PROVE Objects \subseteq Objects'
  BY <1>0, <1>2, PruneFacts
<1>3. CASE Still \/ Save
  BY <1>3, StillFacts
<1>4. CASE Load
  BY <1>0, <1>4, LoadFacts
<1>. QED
  BY <1>1, <1>2, <1>3, <1>4 DEF TreeStep

\* The agents at work are those they were, but for the one below them all.
LEMMA BecomesKeeps ==
  ASSUME StackInv, stack # <<>>, NEW f \in AgentShape, Becomes(f), Objects \subseteq Objects',
         born' = born, f.node = Working.node, f.depth = Working.depth, f.spawned = Working.spawned,
         Owes(f) => HasDelegate(f)
  PROVE  StackInv'
<1>. DEFINE top == Len(stack)
<1>1. /\ top \in Nat \ {0} /\ DOMAIN stack = 1..top /\ top \in DOMAIN stack
      /\ Working = stack[top] /\ stack \in Seq(AgentShape)
  BY WorkingFacts DEF StackInv, AgentsInv
<1>2. /\ stack' \in Seq(AgentShape) /\ Len(stack') = top /\ DOMAIN stack' = 1..top
      /\ stack'[top] = f /\ \A i \in 1..top : i # top => stack'[i] = stack[i]
  <2>1. stack' = [stack EXCEPT ![top] = f]
    BY DEF Becomes
  <2>. HIDE DEF top
  <2>2. DOMAIN stack' = 1..top /\ stack'[top] = f /\ \A i \in 1..top : i # top => stack'[i] = stack[i]
    BY <1>1, <2>1
  <2>3. stack' \in Seq(AgentShape)
    BY <1>1, <2>1
  <2>. QED
    BY <1>1, <2>2, <2>3
<1>. HIDE DEF top
<1>3. \A i \in 1..top : /\ stack'[i].node = stack[i].node /\ stack'[i].depth = stack[i].depth
                        /\ stack'[i].spawned = stack[i].spawned
  BY <1>1, <1>2
<1>4. \A i \in 1..top : Owes(stack'[i]) => HasDelegate(stack'[i])
  <2>. TAKE i \in 1..top
  <2>1. CASE i = top
    BY <1>2, <2>1
  <2>2. CASE i # top
    BY <1>1, <1>2, <2>2 DEF StackInv, AgentsInv
  <2>. QED
    BY <2>1, <2>2
<1>5. AgentsInv'
  <2>1. \A i \in 1..top : /\ stack[i].node \in Objects' /\ stack[i].depth = i - 1
                          /\ \A j \in 1..top : i < j => stack[i].node < stack[j].node
    BY <1>1 DEF StackInv, AgentsInv
  <2>2. Len(stack') <= 2 \/ Len(stack') <= Levels + 1
    BY <1>2 DEF StackInv, AgentsInv, top
  <2>3. \A i \in 1..top : /\ stack'[i].node \in Objects' /\ stack'[i].depth = i - 1
                          /\ \A j \in 1..top : i < j => stack'[i].node < stack'[j].node
    BY <1>3, <2>1
  <2>. QED
    BY <1>2, <1>4, <2>2, <2>3 DEF AgentsInv, HasDelegate, Owes
<1>6. BornInv'
  BY <1>1, <1>2, <1>3 DEF StackInv, BornInv
<1>. QED
  BY <1>5, <1>6 DEF StackInv

LEMMA MinOfTwo ==
  ASSUME NEW a \in Nat, NEW b \in Nat
  PROVE  Min({a, b}) \in Nat /\ Min({a, b}) = IF a <= b THEN a ELSE b
<1>1. \E x \in {a, b} : \A y \in {a, b} : x <= y
  OBVIOUS
<1>2. Min({a, b}) \in {a, b} /\ \A y \in {a, b} : Min({a, b}) <= y
  BY <1>1 DEF Min
<1>. QED
  BY <1>2

LEMMA Pushed ==
  ASSUME NEW S, NEW s \in Seq(S), NEW a \in S, NEW k \in Nat, k = Len(s)
  PROVE  /\ Append(s, a) \in Seq(S) /\ Len(Append(s, a)) = k + 1
         /\ DOMAIN Append(s, a) = 1..(k + 1) /\ Append(s, a)[k + 1] = a
         /\ \A i \in 1..k : Append(s, a)[i] = s[i]
  OBVIOUS

LEMMA DelegatedKeeps ==
  ASSUME TreeInv, StackInv, Delegated, Objects \subseteq Objects'
  PROVE  StackInv'
<1>. DEFINE top == Len(stack)
<1>1. /\ top \in Nat \ {0} /\ DOMAIN stack = 1..top /\ top \in DOMAIN stack
      /\ Working = stack[top] /\ stack \in Seq(AgentShape)
      /\ Working \in AgentShape /\ Working.node \in Objects /\ Working.depth = top - 1
      /\ Working.left \in Nat /\ Working.spawned \in Nat /\ Working.turns \in Nat
  BY WorkingFacts DEF StackInv, AgentsInv, Delegated
<1>. DEFINE f == [Working EXCEPT !.left = Working.left - 1, !.spawned = Working.spawned + 1]
            mid == [stack EXCEPT ![top] = f]
<1>2. PICK n : n = Len(objs) + 1
  OBVIOUS
<1>3. /\ Grows(Working.node, Working.spawned + 1) /\ Working.left > 0
      /\ born' = born \cup {[under |-> Working.node, name |-> Working.spawned + 1, node |-> n]}
      /\ stack' = Append(mid, Agent(n, Working.depth + 1))
  <2>1. Grows(Working.node, Working.spawned + 1) /\ Working.left > 0
    BY DEF Delegated
  <2>2. born' = born \cup {[under |-> Working.node, name |-> Working.spawned + 1, node |-> n]}
    BY <1>2 DEF Delegated
  <2>3. stack' = Append(mid, Agent(n, Working.depth + 1))
    <3>. DEFINE w == Working
    <3>1. stack' = Append([stack EXCEPT ![Len(stack)] = [w EXCEPT !.left = @ - 1, !.spawned = @ + 1]],
                          Agent(n, w.depth + 1))
      BY <1>2 DEF Delegated
    <3>2. f = [w EXCEPT !.left = w.left - 1, !.spawned = w.spawned + 1]
      OBVIOUS
    <3>. HIDE DEF w, f
    <3>3. [w EXCEPT !.left = @ - 1, !.spawned = @ + 1] = f
      BY <3>2
    <3>. QED
      BY <3>1, <3>3 DEF w
  <2>. QED
    BY <2>1, <2>2, <2>3
<1>4. n \in Nat /\ n \notin Objects /\ n \in Objects' /\ \A x \in Objects : x < n
  <2>1. ObjsInv /\ Forest(objs) /\ Working.spawned + 1 \in Nat
    BY <1>1 DEF TreeInv, ObjsInv
  <2>2. n \notin Objects /\ n \in Nat /\ Objects' = Objects \cup {n}
    BY <1>1, <1>2, <1>3, <2>1, GrowsFacts
  <2>3. Objects = 1..Len(objs) /\ Len(objs) \in Nat
    BY <2>1, ForestFacts DEF Objects
  <2>. QED
    BY <1>2, <2>2, <2>3
<1>5. /\ f \in AgentShape /\ f.node = Working.node /\ f.depth = Working.depth
      /\ f.spawned = Working.spawned + 1
  <2>1. Working.left - 1 \in Nat /\ Working.spawned + 1 \in Nat
    BY <1>1, <1>3
  <2>2. Working \in [node : Nat, depth : Nat, calls : Nat, left : Nat, spawned : Nat, turns : Nat]
    BY <1>1 DEF AgentShape
  <2>. DEFINE l == Working.left - 1
              m == Working.spawned + 1
              g == [Working EXCEPT !.left = l, !.spawned = m]
  <2>3. l \in Nat /\ m \in Nat
    BY <2>1
  <2>. HIDE DEF l, m
  <2>4. /\ g \in [node : Nat, depth : Nat, calls : Nat, left : Nat, spawned : Nat, turns : Nat]
        /\ g.node = Working.node /\ g.depth = Working.depth /\ g.spawned = m
    BY <2>2, <2>3
  <2>5. g = f
    BY DEF l, m
  <2>. QED
    BY <2>4, <2>5 DEF AgentShape, m
<1>6. LET a == Agent(n, Working.depth + 1)
      IN  /\ a \in AgentShape /\ a.node = n /\ a.depth = top /\ ~Owes(a) /\ a.spawned = 0
  BY <1>1, <1>4 DEF Agent, AgentShape, Owes
<1>. HIDE DEF f
<1>7. /\ mid \in Seq(AgentShape) /\ Len(mid) = top /\ mid[top] = f
      /\ \A i \in 1..top : i # top => mid[i] = stack[i]
  BY <1>1, <1>5
<1>. HIDE DEF mid
<1>8. /\ stack' \in Seq(AgentShape) /\ Len(stack') = top + 1 /\ DOMAIN stack' = 1..(top + 1)
      /\ stack'[top] = f /\ stack'[top + 1] = Agent(n, Working.depth + 1)
      /\ \A i \in 1..top : i # top => stack'[i] = stack[i]
  <2>. DEFINE a == Agent(n, Working.depth + 1)
  <2>1. a \in AgentShape /\ stack' = Append(mid, a)
    BY <1>3, <1>6
  <2>. HIDE DEF a
  <2>2. mid \in Seq(AgentShape) /\ top \in Nat /\ top = Len(mid)
    BY <1>1, <1>7
  <2>. HIDE DEF mid, top
  <2>3. /\ stack' \in Seq(AgentShape) /\ Len(stack') = top + 1 /\ DOMAIN stack' = 1..(top + 1)
        /\ stack'[top + 1] = a /\ \A i \in 1..top : stack'[i] = mid[i]
    BY <2>1, <2>2, Pushed
  <2>. QED
    BY <1>1, <1>7, <2>2, <2>3 DEF a
<1>9. HasDelegate(Working) /\ (top <= 2 \/ top <= Levels + 1)
  BY <1>1, <1>3 DEF StackInv, AgentsInv, Owes
<1>. HIDE DEF top
<1>10. \A i \in 1..top : /\ stack'[i].node = stack[i].node /\ stack'[i].depth = stack[i].depth
                         /\ stack[i].spawned \in Nat /\ stack[i].spawned <= stack'[i].spawned
                         /\ stack[i].node \in Objects /\ stack[i].depth = i - 1
                         /\ \A j \in 1..top : i < j => stack[i].node < stack[j].node
  <2>1. \A i \in 1..top : stack[i].spawned \in Nat
    <3>1. \A i \in 1..top : stack[i] \in AgentShape
      BY <1>1
    <3>. QED
      BY <3>1 DEF AgentShape
  <2>2. \A i \in 1..top : stack[i].spawned <= stack'[i].spawned
    BY <1>1, <1>5, <1>8, <2>1
  <2>3. \A i \in 1..top : stack'[i].node = stack[i].node /\ stack'[i].depth = stack[i].depth
    BY <1>1, <1>5, <1>8
  <2>4. \A i \in 1..top : /\ stack[i].node \in Objects /\ stack[i].depth = i - 1
                          /\ \A j \in 1..top : i < j => stack[i].node < stack[j].node
    BY <1>1 DEF StackInv, AgentsInv
  <2>. QED
    BY <2>1, <2>2, <2>3, <2>4
<1>11. stack'[top + 1].node = n /\ stack'[top + 1].depth = top /\ ~Owes(stack'[top + 1])
  BY <1>6, <1>8
<1>12. \A i \in 1..(top + 1) : i \in 1..top \/ i = top + 1
  BY <1>1
<1>13. AgentsInv'
  <2>1. \A i \in 1..top : Owes(stack'[i]) => HasDelegate(stack'[i])
    <3>. TAKE i \in 1..top
    <3>1. CASE i = top
      BY <1>5, <1>8, <1>9, <3>1 DEF HasDelegate
    <3>2. CASE i # top
      BY <1>1, <1>8, <3>2 DEF StackInv, AgentsInv
    <3>. QED
      BY <3>1, <3>2
  <2>2. \A i \in 1..(top + 1) : Owes(stack'[i]) => HasDelegate(stack'[i])
    BY <1>11, <1>12, <2>1
  <2>3. \A i \in 1..(top + 1) : stack'[i].node \in Objects' /\ stack'[i].depth = i - 1
    <3>1. \A i \in 1..top : stack'[i].node \in Objects' /\ stack'[i].depth = i - 1
      BY <1>10
    <3>2. stack'[top + 1].node \in Objects' /\ stack'[top + 1].depth = (top + 1) - 1
      BY <1>1, <1>4, <1>11
    <3>. QED
      BY <1>12, <3>1, <3>2
  <2>4. \A i, j \in 1..(top + 1) : i < j => stack'[i].node < stack'[j].node
    <3>. SUFFICES ASSUME NEW i \in 1..(top + 1), NEW j \in 1..(top + 1), i < j
                  PROVE  stack'[i].node < stack'[j].node
      OBVIOUS
    <3>1. i \in 1..top
      BY <1>1
    <3>2. CASE j \in 1..top
      BY <3>1, <3>2, <1>10
    <3>3. CASE j = top + 1
      BY <3>1, <3>3, <1>4, <1>10, <1>11
    <3>. QED
      BY <3>2, <3>3, <1>12
  <2>5. Len(stack') <= 2 \/ Len(stack') <= Levels + 1
    <3>1. Working.depth = 0 \/ Working.depth < Levels
      BY <1>9 DEF HasDelegate
    <3>. QED
      BY <1>1, <1>8, <3>1, LevelsNat
  <2>. QED
    BY <1>8, <2>2, <2>3, <2>4, <2>5 DEF AgentsInv, HasDelegate, Owes
<1>14. BornInv'
  <2>. DEFINE e == [under |-> Working.node, name |-> Working.spawned + 1, node |-> n]
  <2>1. \A b \in born : /\ b.under \in Objects /\ b.name \in Nat
                        /\ \A i \in 1..top : stack[i].node = b.under => b.name <= stack[i].spawned
    BY <1>1 DEF StackInv, BornInv
  <2>2. ASSUME NEW b \in born
        PROVE  /\ b.under \in Objects' /\ b.name \in Nat
               /\ \A i \in 1..(top + 1) : stack'[i].node = b.under => b.name <= stack'[i].spawned
    <3>1. ASSUME NEW i \in 1..top, stack'[i].node = b.under PROVE b.name <= stack'[i].spawned
      <4>1. b.name <= stack[i].spawned /\ stack[i].spawned \in Nat /\ stack[i].spawned <= stack'[i].spawned
        BY <2>1, <3>1, <1>10
      <4>2. stack'[i].spawned \in Nat
        <5>1. i \in DOMAIN stack'
          BY <1>1, <1>8
        <5>2. stack'[i] \in AgentShape
          BY <1>8, <5>1
        <5>. QED
          BY <5>2 DEF AgentShape
      <4>. QED
        BY <2>1, <4>1, <4>2
    <3>2. stack'[top + 1].node # b.under
      BY <2>1, <1>4, <1>11
    <3>. QED
      BY <2>1, <3>1, <3>2, <1>12
  <2>3. /\ e.under = Working.node /\ e.name = Working.spawned + 1
        /\ e.under \in Objects' /\ e.name \in Nat
    BY <1>1
  <2>4. \A i \in 1..(top + 1) : stack'[i].node = e.under => e.name <= stack'[i].spawned
    <3>. SUFFICES ASSUME NEW i \in 1..(top + 1), stack'[i].node = e.under
                  PROVE  e.name <= stack'[i].spawned
      OBVIOUS
    <3>1. i # top + 1
      BY <1>1, <1>4, <1>11, <2>3
    <3>2. i = top
      <4>1. i \in 1..top /\ top \in 1..top
        BY <3>1, <1>1, <1>12
      <4>2. stack[i].node = stack[top].node /\ stack[top].node \in Objects
        BY <4>1, <1>1, <1>10, <2>3
      <4>3. Objects \subseteq Nat
        BY ForestFacts DEF TreeInv, ObjsInv, Objects
      <4>4. ~(stack[i].node < stack[top].node)
        <5>1. \A x \in Nat : ~(x < x)
          OBVIOUS
        <5>. QED
          BY <4>2, <4>3, <5>1
      <4>5. ~(i < top)
        BY <4>1, <4>4, <1>10
      <4>. QED
        BY <4>1, <4>5, <1>1
    <3>3. stack'[i].spawned = Working.spawned + 1
      BY <3>2, <1>5, <1>8
    <3>. QED
      BY <1>1, <2>3, <3>3
  <2>5. \A b \in born : b.under # e.under \/ b.name # e.name
    <3>. SUFFICES ASSUME NEW b \in born, b.under = e.under PROVE b.name # e.name
      OBVIOUS
    <3>1. b.name <= Working.spawned /\ b.name \in Nat
      BY <1>1, <2>1, <2>3
    <3>. QED
      BY <1>1, <2>3, <3>1
  <2>6. born' = born \cup {e}
    BY <1>3
  <2>7. \A b, c \in born : b # c => b.under # c.under \/ b.name # c.name
    BY DEF StackInv, BornInv
  <2>. HIDE DEF e
  <2>. QED
    BY <1>8, <2>2, <2>3, <2>4, <2>5, <2>6, <2>7 DEF BornInv
<1>. QED
  BY <1>13, <1>14 DEF StackInv

LEMMA Popped ==
  ASSUME NEW S, NEW s \in Seq(S), NEW k \in Nat, k + 1 = Len(s)
  PROVE  /\ SubSeq(s, 1, k) \in Seq(S) /\ Len(SubSeq(s, 1, k)) = k
         /\ DOMAIN SubSeq(s, 1, k) = 1..k /\ 1..k \subseteq DOMAIN s
         /\ \A i \in 1..k : SubSeq(s, 1, k)[i] = s[i]
  OBVIOUS

\* An agent that ends leaves the others as they were.
LEMMA EndsKeeps ==
  ASSUME TreeInv, StackInv, AgentEnds, Objects \subseteq Objects'
  PROVE  StackInv'
<1>1. /\ Len(stack) \in Nat \ {0} /\ stack \in Seq(AgentShape)
      /\ Len(stack) <= 2 \/ Len(stack) <= Levels + 1
  BY WorkingFacts DEF StackInv, AgentsInv, AgentEnds, Thinks
<1>2. PICK k : k = Len(stack) - 1
  OBVIOUS
<1>3. k \in Nat /\ k + 1 = Len(stack) /\ stack' = SubSeq(stack, 1, k)
  BY <1>1, <1>2 DEF AgentEnds
<1>4. /\ stack' \in Seq(AgentShape) /\ Len(stack') = k /\ DOMAIN stack' = 1..k
      /\ 1..k \subseteq DOMAIN stack /\ \A i \in 1..k : stack'[i] = stack[i]
  BY <1>1, <1>3, Popped
<1>5. born' \subseteq born
  BY DEF AgentEnds
<1>6. AgentsInv'
  <2>1. \A i \in 1..k : /\ stack[i].node \in Objects' /\ stack[i].depth = i - 1
                        /\ Owes(stack[i]) => HasDelegate(stack[i])
                        /\ \A j \in 1..k : i < j => stack[i].node < stack[j].node
    BY <1>4 DEF StackInv, AgentsInv
  <2>2. Len(stack') <= 2 \/ Len(stack') <= Levels + 1
    BY <1>1, <1>3, <1>4, LevelsNat
  <2>. QED
    BY <1>4, <2>1, <2>2 DEF AgentsInv, HasDelegate, Owes
<1>7. BornInv'
  <2>1. \A b \in born : /\ b.under \in Objects' /\ b.name \in Nat
                        /\ \A i \in 1..k : stack[i].node = b.under => b.name <= stack[i].spawned
    BY <1>4 DEF StackInv, BornInv
  <2>2. \A b, c \in born : b # c => b.under # c.under \/ b.name # c.name
    BY DEF StackInv, BornInv
  <2>. QED
    BY <1>4, <1>5, <2>1, <2>2 DEF BornInv
<1>. QED
  BY <1>6, <1>7 DEF StackInv

\* The first agent of a solve is alone.
LEMMA SolveKeeps ==
  ASSUME TreeInv, NEW h \in Objects, Solve(h), Objects \subseteq Objects'
  PROVE  StackInv'
<1>1. stack' = <<Agent(h, 0)>> /\ born' = {}
  BY DEF Solve
<1>2. h \in Nat
  BY ForestFacts DEF TreeInv, ObjsInv, Objects
<1>. DEFINE a == Agent(h, 0)
<1>3. a \in AgentShape /\ a.node = h /\ a.depth = 0 /\ ~Owes(a)
  BY <1>2 DEF Agent, AgentShape, Owes
<1>4. stack' = <<a>>
  BY <1>1
<1>. HIDE DEF a
<1>5. stack' \in Seq(AgentShape) /\ Len(stack') = 1 /\ DOMAIN stack' = {1} /\ stack'[1] = a
  BY <1>3, <1>4
<1>6. AgentsInv'
  BY <1>3, <1>5 DEF AgentsInv
<1>7. BornInv'
  BY <1>1 DEF BornInv
<1>. QED
  BY <1>6, <1>7 DEF StackInv

\* Neither agents nor what they spawned change.
LEMMA StackStays ==
  ASSUME StackInv, stack' = stack, born' = born, Objects \subseteq Objects'
  PROVE  StackInv'
<1>1. AgentsInv'
  BY DEF StackInv, AgentsInv, HasDelegate, Owes
<1>2. BornInv'
  BY DEF StackInv, BornInv
<1>. QED
  BY <1>1, <1>2 DEF StackInv

LEMMA OwingHasTool == ASSUME StackInv, stack # <<>>, Owes(Working) PROVE HasDelegate(Working)
<1>1. Len(stack) \in DOMAIN stack /\ Working = stack[Len(stack)]
  BY WorkingFacts DEF StackInv
<1>. QED
  BY <1>1 DEF StackInv, AgentsInv

\* What the steps of an agent do to its record.
LEMMA Recorded ==
  ASSUME NEW w \in AgentShape, NEW m \in Nat
  PROVE  /\ LET f == [w EXCEPT !.calls = m, !.turns = @ + 1]
            IN  /\ f \in AgentShape /\ f.node = w.node /\ f.depth = w.depth /\ f.spawned = w.spawned
                /\ f.calls = m /\ f.left = w.left
         /\ w.calls > 0 =>
              LET f == [w EXCEPT !.calls = @ - 1, !.left = m]
              IN  /\ f \in AgentShape /\ f.node = w.node /\ f.depth = w.depth /\ f.spawned = w.spawned
                  /\ HasDelegate(w) => HasDelegate(f)
         /\ w.left > 0 =>
              LET f == [w EXCEPT !.left = @ - 1]
              IN  /\ f \in AgentShape /\ f.node = w.node /\ f.depth = w.depth /\ f.spawned = w.spawned
                  /\ HasDelegate(w) => HasDelegate(f)
<1>0. w.calls \in Nat /\ w.left \in Nat /\ w.turns \in Nat
  BY DEF AgentShape
<1>1. LET f == [w EXCEPT !.calls = m, !.turns = @ + 1]
      IN  /\ f \in AgentShape /\ f.node = w.node /\ f.depth = w.depth /\ f.spawned = w.spawned
          /\ f.calls = m /\ f.left = w.left
  <2>1. w.turns + 1 \in Nat
    BY <1>0
  <2>. QED
    BY <2>1 DEF AgentShape
<1>2. ASSUME w.calls > 0
      PROVE  LET f == [w EXCEPT !.calls = @ - 1, !.left = m]
             IN  /\ f \in AgentShape /\ f.node = w.node /\ f.depth = w.depth /\ f.spawned = w.spawned
                 /\ HasDelegate(w) => HasDelegate(f)
  <2>1. w.calls - 1 \in Nat
    BY <1>0, <1>2
  <2>. QED
    BY <2>1 DEF AgentShape, HasDelegate
<1>3. ASSUME w.left > 0
      PROVE  LET f == [w EXCEPT !.left = @ - 1]
             IN  /\ f \in AgentShape /\ f.node = w.node /\ f.depth = w.depth /\ f.spawned = w.spawned
                 /\ HasDelegate(w) => HasDelegate(f)
  <2>1. w.left - 1 \in Nat
    BY <1>0, <1>3
  <2>. QED
    BY <2>1 DEF AgentShape, HasDelegate
<1>. QED
  BY <1>1, <1>2, <1>3

LEMMA StackStep == ASSUME TreeInv, StackInv, [Next]_vars PROVE StackInv'
<1>1. TreeStep
  BY Kinds
<1>2. CASE Restart
  <2>1. stack' = <<>> /\ born' = {}
    BY <1>2 DEF Restart
  <2>2. stack' \in Seq(AgentShape) /\ DOMAIN stack' = {} /\ Len(stack') = 0
    BY <2>1
  <2>. QED
    BY <2>1, <2>2 DEF StackInv, AgentsInv, BornInv
<1>3. CASE ~Restart
  <2>1. Objects \subseteq Objects'
    BY <1>1, <1>3, ObjectsStay
  <2>2. ASSUME NEW h \in Objects, Spawn(h) \/ Prune(h) PROVE StackInv'
    BY <2>1, <2>2, StackStays DEF Spawn, Prune
  <2>3. ASSUME NEW h \in Objects, Solve(h) PROVE StackInv'
    BY <2>1, <2>3, SolveKeeps
  <2>4. CASE Save \/ Load
    BY <2>1, <2>4, StackStays DEF Save, Load
  <2>5. CASE UNCHANGED vars
    BY <2>1, <2>5, StackStays DEF vars
  <2>6. ASSUME NEW n \in 0..(MaxSubtasks + 1), Delegate(n) PROVE StackInv'
    <3>. DEFINE w == Working
                m == Min({n, MaxSubtasks})
                f == [w EXCEPT !.calls = @ - 1, !.left = m]
    <3>1. w \in AgentShape /\ stack # <<>> /\ w.calls \in Nat /\ w.calls > 0 /\ born' = born
      BY <2>6, WorkingFacts DEF Delegate, StackInv
    <3>2. HasDelegate(w)
      BY <3>1, OwingHasTool DEF Owes
    <3>3. m \in Nat
      BY GrowthAssumption, MinOfTwo
    <3>4. Becomes(f)
      BY <2>6 DEF Delegate
    <3>5. /\ f \in AgentShape /\ f.node = w.node /\ f.depth = w.depth /\ f.spawned = w.spawned
          /\ HasDelegate(f)
      BY <3>1, <3>2, <3>3, Recorded
    <3>. HIDE DEF f
    <3>. QED
      BY <2>1, <3>1, <3>4, <3>5, BecomesKeeps
  <2>10. ASSUME NEW k \in 0..MaxCalls, Responds(k) PROVE StackInv'
    <3>. DEFINE w == Working
                f == [w EXCEPT !.calls = k, !.turns = @ + 1]
    <3>1. /\ w \in AgentShape /\ stack # <<>> /\ w.left = 0 /\ w.turns \in Nat
          /\ k \in Nat /\ born' = born /\ (k > 0 => HasDelegate(w))
      BY <2>10, GrowthAssumption, WorkingFacts DEF Responds, Thinks, StackInv
    <3>2. Becomes(f)
      BY <2>10 DEF Responds
    <3>3. /\ f \in AgentShape /\ f.node = w.node /\ f.depth = w.depth /\ f.spawned = w.spawned
          /\ f.calls = k /\ f.left = 0
      BY <3>1, Recorded
    <3>4. Owes(f) => HasDelegate(f)
      <4>. HIDE DEF f, w
      <4>. QED
        BY <3>1, <3>3 DEF Owes, HasDelegate
    <3>. HIDE DEF f
    <3>. QED
      BY <2>1, <3>1, <3>2, <3>3, <3>4, BecomesKeeps
  <2>7. CASE NotDelegated
    <3>. DEFINE w == Working
                f == [w EXCEPT !.left = @ - 1]
    <3>1. w \in AgentShape /\ stack # <<>> /\ w.left \in Nat /\ w.left > 0
      BY <2>7, WorkingFacts DEF NotDelegated, StackInv
    <3>2. HasDelegate(w)
      BY <3>1, OwingHasTool DEF Owes
    <3>3. Becomes(f) /\ born' = born
      BY <2>7 DEF NotDelegated
    <3>4. /\ f \in AgentShape /\ f.node = w.node /\ f.depth = w.depth /\ f.spawned = w.spawned
          /\ HasDelegate(f)
      BY <3>1, <3>2, Recorded
    <3>5. f.node = Working.node /\ f.depth = Working.depth /\ f.spawned = Working.spawned
      BY <3>4
    <3>. HIDE DEF f
    <3>. QED
      BY <2>1, <3>1, <3>3, <3>4, <3>5, BecomesKeeps
  <2>8. CASE Delegated
    BY <2>1, <2>8, DelegatedKeeps
  <2>9. CASE AgentEnds
    BY <2>1, <2>9, EndsKeeps
  <2>. QED
    BY <1>3, <2>2, <2>3, <2>4, <2>5, <2>6, <2>7, <2>8, <2>9, <2>10 DEF Next, SolveGoes
<1>. QED
  BY <1>2, <1>3

-------------------------------------------------------------------------------
(* The theorems *)

LEMMA FirstInv == ASSUME Init PROVE TreeInv /\ StackInv
<1>1. /\ objs = <<Node(1, None, 0)>> /\ root = 1 /\ index = [i \in {1} |-> 1] /\ ids = 1
      /\ maxDepth = MaxDepth /\ MaxDepth \in Nat /\ MaxSpawns \in Nat
      /\ saved = NoSnapshot /\ approved = 0 /\ spawns = 0 /\ loaded = 1
      /\ stack = <<>> /\ born = {}
  BY GrowthAssumption DEF Init
<1>2. /\ Forest(objs) /\ DOMAIN objs = {1} /\ objs[1] = Node(1, None, 0)
      /\ Paths(objs)[1] = {1} /\ Cardinality(Paths(objs)[1]) = 1
  BY <1>1, FirstTree
<1>3. Objects = {1} /\ objs[1].id = 1 /\ objs[1].up = None
  BY <1>2, NodeFields DEF Objects
<1>4. Live = {1} /\ Depth(1) = 0 /\ Cardinality({1}) = 1
  BY <1>1, <1>2, <1>3, FS_Singleton DEF Live, Walk, Path, Depth
<1>5. saved.depth = 0 /\ saved.nodes = {}
  BY <1>1 DEF NoSnapshot
<1>6. ObjsInv
  BY <1>1, <1>2, <1>3 DEF ObjsInv
<1>7. RootInv
  BY <1>1, <1>3, <1>5 DEF RootInv
<1>8. LiveInv
  BY <1>4 DEF LiveInv
<1>9. SavedInv
  BY <1>1, <1>5 DEF SavedInv
<1>10. DepthInv /\ CountInv
  BY <1>1, <1>4 DEF DepthInv, CountInv
<1>11. IndexInv
  <2>1. DOMAIN index = {1} /\ index[1] = 1
    BY <1>1
  <2>. QED
    BY <1>1, <1>3, <1>4, <2>1 DEF IndexInv, IndexIsTree
<1>12. StackInv
  <2>1. stack \in Seq(AgentShape) /\ DOMAIN stack = {} /\ Len(stack) = 0
    BY <1>1
  <2>. QED
    BY <1>1, <2>1 DEF StackInv, AgentsInv, BornInv
<1>. QED
  BY <1>6, <1>7, <1>8, <1>9, <1>10, <1>11, <1>12 DEF TreeInv

LEMMA StepInv == ASSUME TreeInv, StackInv, [Next]_vars PROVE TreeInv' /\ StackInv'
<1>1. TreeStep
  BY Kinds
<1>2. ObjsInv' /\ RootInv' /\ LiveInv' /\ SavedInv'
  BY <1>1, ObjsStep, RootStep, LiveStep, SavedStep
<1>3. DepthInv' /\ CountInv' /\ IndexInv'
  BY <1>1, DepthStep, CountStep, IndexStep
<1>4. StackInv'
  BY StackStep
<1>. QED
  BY <1>2, <1>3, <1>4 DEF TreeInv

LEMMA MaxOfTwo ==
  ASSUME NEW a \in Nat, NEW b \in Nat
  PROVE  Max({a, b}) \in Nat /\ a <= Max({a, b}) /\ b <= Max({a, b})
<1>1. \E x \in {a, b} : \A y \in {a, b} : x >= y
  OBVIOUS
<1>2. Max({a, b}) \in {a, b} /\ \A y \in {a, b} : Max({a, b}) >= y
  BY <1>1 DEF Max
<1>. QED
  BY <1>2

LEMMA Bounded == ASSUME TreeInv, StackInv PROVE GrowthBounded
<1>1. Cardinality(Live) <= Max({MaxAgents, loaded})
  <2>1. Cardinality(Live) \in Nat
    BY LiveFacts, FS_CardinalityType DEF TreeInv
  <2>2. MaxAgents \in Nat /\ loaded \in Nat
    BY GrowthAssumption DEF TreeInv, CountInv
  <2>3. Cardinality(Live) <= MaxAgents \/ Cardinality(Live) <= loaded
    BY DEF TreeInv, CountInv
  <2>. QED
    BY <2>1, <2>2, <2>3, MaxOfTwo
<1>2. CeilingsHold
  BY <1>1 DEF TreeInv, CountInv, DepthInv, CeilingsHold
<1>3. Len(stack) <= 1 + Max({1, Levels})
  <2>1. Levels \in Nat /\ 1 \in Nat
    BY GrowthAssumption
  <2>2. Max({1, Levels}) \in Nat /\ 1 <= Max({1, Levels}) /\ Levels <= Max({1, Levels})
    BY <2>1, MaxOfTwo
  <2>3. Len(stack) \in Nat /\ (Len(stack) <= 2 \/ Len(stack) <= Levels + 1)
    BY DEF StackInv, AgentsInv
  <2>. QED
    BY <2>1, <2>2, <2>3
<1>4. DelegationBounded
  BY <1>3 DEF StackInv, BornInv, DelegationBounded
<1>. QED
  BY <1>2, <1>4 DEF GrowthBounded

\* What the steps of callers and agents keep: every object's parent is older
\* and was given its id before it, no live node shares an id, the snapshot is a
\* tree, and the agents at work are each one level below another.
THEOREM GrowthInvariant == Spec => [](TreeInv /\ StackInv)
<1>1. Init => TreeInv /\ StackInv
  BY FirstInv
<1>2. TreeInv /\ StackInv /\ [Next]_vars => (TreeInv /\ StackInv)'
  BY StepInv
<1>. QED
  BY <1>1, <1>2, PTL DEF Spec

\* However callers and agents spawn, prune, save, load and restart, the index
\* and the walk from the root are the same nodes, each under its own id, until
\* a node is changed through an object that load_tree replaced (Tree._index).
THEOREM IndexIsTreeHolds == Spec => []IndexIsTree
<1>1. TreeInv /\ StackInv => IndexIsTree
  BY DEF TreeInv, IndexInv
<1>. QED
  BY <1>1, GrowthInvariant, PTL

\* The tree keeps to max_agents, max_depth and max_spawns (BudgetGovernor and
\* Tree.spawn), or to the tree that was loaded; a solve keeps to its max_depth,
\* and the children that an agent delegates to are named apart.
THEOREM GrowthBoundedHolds == Spec => []GrowthBounded
<1>1. TreeInv /\ StackInv => GrowthBounded
  BY Bounded
<1>. QED
  BY <1>1, GrowthInvariant, PTL
================================================================================
