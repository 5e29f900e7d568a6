CONSTANTS
  Grain = 60
  Order <- MCOrder
  Requests = {r1, r2}
  Objectives <- MCFairOnly
  Policies <- MCNoPolicies
  FirstBoards <- MCNewKeys
  Moves = {"abundant", "exhausted"}
  MaxRetries = 2
  MaxCalls = 3
  k1 = k1
  k2 = k2
  k3 = k3
SPECIFICATION Spec
INVARIANTS SLTypeOK FairShare
PROPERTY RoundRobin
