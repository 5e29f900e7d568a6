CONSTANTS
  Instances = {i1, i2}
  Tasks = {t1, t2}
  Keys = {k1}
  Decisions = {d1}
  At <- MCAt
  Does <- MCDoes
  Sweepers = {i2}
  MaxTransitions = 1
  MaxLeft = 1
  i1 = i1
  t1 = t1
  i2 = i2
SPECIFICATION Spec
INVARIANTS LogBounded SweepSparesKeys
PROPERTIES NothingDropped NoneGoesBack OrphansGo
