CONSTANTS
  Workers = {w1, w2}
  Tasks = {t1}
  NoWorker = none
  TTL = 2
  MaxTime = 5
SPECIFICATION Spec
INVARIANT ExclusiveBelief
PROPERTY ImplementsLeaseTable
