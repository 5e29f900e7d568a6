CONSTANTS
  Budgets = {all, soft}
  Keys = {k1, k2}
  Requests = {r1, r2}
  Models = {m1, free}
  Covers <- MCCovers
  Hard = {all}
  Limit <- MCLimit
  Period <- MCPeriod
  Cost <- MCCost
  Amounts = {2}
  MaxActual = 2
  MaxSpend = 4
  MaxWarnings = 1
  k1 = k1
  k2 = k2
  all = all
  soft = soft
  m1 = m1
SPECIFICATION Spec
INVARIANTS CCTypeOK OverrunBounded
PROPERTIES RefinesLedger BudgetReopens
