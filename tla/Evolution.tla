------------------------------- MODULE Evolution -------------------------------
(***************************************************************************)
(* evolve (ormica/evolution.py): a population of Preferences is graded,    *)
(* the best survive, the rest is refilled by crossing and mutating them.   *)
(* evaluate runs a colony and may grade the same preferences differently   *)
(* each time.                                                              *)
(***************************************************************************)
EXTENDS Naturals, Sequences, FiniteSets, Sorting

CONSTANTS
  Genes,         \* preferences
  Grades,        \* fitness
  Population,
  Survivors,
  Generations

ASSUME EvolutionAssumption ==
  /\ Survivors \in 1..(Population - 1)
  /\ Generations \in Nat \ {0} /\ Population \in Nat /\ Grades \subseteq Nat

VARIABLES
  steady,       \* evaluate is a function of the preferences
  merit,        \* what it then gives
  pool,         \* the preferences of this generation
  graded,       \* those graded so far: [prefs, fitness]
  fittest,      \* best, or NoGenome
  generations   \* history: each generation, sorted

evolveVars == <<steady, merit, pool, graded, fittest, generations>>

NoGenome == [prefs |-> "none", fitness |-> 0]

EvolveInit ==
  /\ steady \in BOOLEAN
  /\ merit \in [Genes -> Grades]
  /\ pool \in [1..Population -> Genes]
  /\ graded = <<>> /\ fittest = NoGenome /\ generations = <<>>

\* evaluate, of the next in the pool.
Evaluate ==
  /\ Len(generations) < Generations /\ Len(graded) < Population
  /\ LET g == pool[Len(graded) + 1]
     IN \E grade \in Grades :
          /\ steady => grade = merit[g]
          /\ graded' = Append(graded, [prefs |-> g, fitness |-> grade])
  /\ UNCHANGED <<steady, merit, pool, fittest, generations>>

\* A stable sort, the fittest first.
ByFitness(s) ==
  LET order == HighestFirst([n \in DOMAIN s |-> s[n].fitness])
  IN [n \in DOMAIN s |-> s[order[n]]]

\* Mutant: the survivors are parents only.
RefilledAfresh(sorted) == [1..Population -> Genes]

\* Two survivors, crossed and mutated by a gaussian: any preferences.
Offspring(a, b) == Genes

\* The survivors carry over, in front of their offspring.
Refilled(sorted) ==
  LET elite == [n \in 1..Survivors |-> sorted[n].prefs]
  IN {next \in [1..Population -> Genes] :
        /\ \A n \in DOMAIN elite : next[n] = elite[n]
        /\ \A n \in Survivors + 1..Population :
             \E i, j \in DOMAIN elite : next[n] \in Offspring(elite[i], elite[j])}

\* A generation is over.
Generation ==
  /\ Len(graded) = Population
  /\ LET sorted == ByFitness(graded)
     IN /\ generations' = Append(generations, sorted)
        /\ fittest' = IF fittest = NoGenome \/ sorted[1].fitness > fittest.fitness
                      THEN sorted[1] ELSE fittest
        /\ pool' \in Refilled(sorted)
  /\ graded' = <<>>
  /\ UNCHANGED <<steady, merit>>

EvolveNext == Evaluate \/ Generation

(* The result is the best that any generation has seen, though the grades    *)
(* vary; and where they do not, no generation is worse than the one before   *)
(* it (evolve).                                                              *)
BestKept ==
  /\ \A g \in DOMAIN generations :
       /\ \A n \in DOMAIN generations[g] : generations[g][n].fitness <= fittest.fitness
       /\ steady /\ g > 1 => generations[g][1].fitness >= generations[g - 1][1].fitness
  /\ generations # <<>> =>
       \E g \in DOMAIN generations : \E n \in DOMAIN generations[g] : generations[g][n] = fittest
================================================================================
