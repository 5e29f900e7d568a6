-------------------------- MODULE MCCostController --------------------------
EXTENDS CostController

CONSTANTS k1, k2, all, soft, m1

MCCovers == [b \in Budgets |-> IF b = soft THEN {k1} ELSE {k1, k2}]
MCLimit == [b \in Budgets |-> IF b = soft THEN 1 ELSE 3]
MCPeriod == [b \in Budgets |-> IF b = soft THEN 1 ELSE 2]
MCCost == [m \in Models |-> IF m = m1 THEN 2 ELSE 0]
=============================================================================
