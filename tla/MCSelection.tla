---------------------------- MODULE MCSelection ----------------------------
EXTENDS Selection

CONSTANTS k1, k2, k3

Fairness == [primary |-> "fairness", weights |-> <<>>]

Mixed == [primary |-> "cost", weights |-> [cost |-> 2, fairness |-> 1]]

Key(usage, failures, cost) ==
    [usage |-> usage, failures |-> failures, cost |-> cost, capacity |-> "abundant",
     health |-> "available", soft |-> FALSE]

MCOrder == <<k1, k2, k3>>

\* Three new keys, for the run about sharing.
MCNewKeys == {[k \in {k1, k2, k3} |-> Key(0, 0, 1)]}
MCFairOnly == {Fairness}
MCNoPolicies == <<>>

\* Keys with every history of few calls, for the run about scores.  Two costs
\* differ by a little less, or a little more, than a sixth of the range; the
\* dearest key exceeds a soft budget.
Few == 3

Histories == {h \in (0..Few) \X (0..Few) : h[1] + h[2] <= Few}

MCUsedKeys ==
    {first \in
        {[k \in {k1, k2, k3} |->
            IF k = k1 THEN Key(h1[1], h1[2], 10)
            ELSE IF k = k2 THEN Key(h2[1], h2[2], cost)
            ELSE [Key(h3[1], h3[2], 26) EXCEPT !.soft = TRUE, !.health = "recovering"]]
         : h1, h2, h3 \in Histories, cost \in {12, 13}} :
     Calls(first[k1]) + Calls(first[k2]) + Calls(first[k3]) <= Few}

MCObjectives ==
    {Mixed, Fairness} \cup [primary : {"cost", "reliability"}, weights : {<<>>}]

MCPolicies == <<[min_reliability |-> 40, provider_allowed |-> TRUE]>>
=============================================================================
