CONSTANTS
  Grain = 60
  Order <- MCOrder
  Requests = {r1}
  Objectives <- MCObjectives
  Policies <- MCPolicies
  FirstBoards <- MCUsedKeys
  Moves = {"abundant", "constrained"}
  MaxRetries = 3
  MaxCalls = 4
  k1 = k1
  k2 = k2
  k3 = k3
SPECIFICATION Spec
PROPERTIES SelectedNearBest SelectedNotDominated
