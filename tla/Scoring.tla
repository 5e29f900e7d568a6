------------------------------ MODULE Scoring ------------------------------
(***************************************************************************)
(* How RoutingEngine (domain/components/routing_engine.py) and the         *)
(* strategies in routing_strategies/ turn what is known of the keys into   *)
(* scores: by cost, fairness and reliability, by a weighted sum of them,   *)
(* and adjusted for soft budgets and quota.                                *)
(*                                                                         *)
(* A score between 0.0 and 1.0 is a fraction: a natural number for each    *)
(* key and the number that stands for 1.0.  Fractions are exact where the  *)
(* code rounds to floating point.                                          *)
(***************************************************************************)
EXTENDS Integers, FiniteSets, FiniteSetsExt

CONSTANT Grain  \* a success rate is given in fractions of Grain: a multiple of 20
                \* and of every number of calls a key may have had

ASSUME GrainAssumption == Grain \in Nat \ {0} /\ Grain % 20 = 0

Criteria == {"cost", "reliability", "fairness"}

Capacities == {"abundant", "constrained", "critical", "exhausted", "recovering"}

\* What is known of one key.  health is its state; soft says that the request
\* would exceed a budget with soft enforcement.
Stats == [usage : Nat, failures : Nat, cost : Nat, capacity : Capacities,
          health : {"available", "throttled", "recovering"}, soft : BOOLEAN]

Equal(keys) == [of |-> [k \in keys |-> 1], one |-> 1]

\* Mutant of LeastFirst: the scores are not inverted.
MostFirst(amount, keys) ==
    LET all == {amount[k] : k \in keys}
    IN  IF Cardinality(all) = 1 THEN Equal(keys)
        ELSE [of |-> [k \in keys |-> amount[k] - Min(all)], one |-> Max(all) - Min(all)]

\* The most expensive or most used key scores 0.0, the least 1.0, the others
\* in between; keys that do not differ score 1.0.
LeastFirst(amount, keys) ==
    LET all == {amount[k] : k \in keys}
    IN  IF Cardinality(all) = 1 THEN Equal(keys)
        ELSE [of |-> [k \in keys |-> Max(all) - amount[k]], one |-> Max(all) - Min(all)]

\* Scores stretched to the range 0.0 to 1.0, unless all are the same.
Stretched(raw, keys) ==
    LET all == {raw.of[k] : k \in keys}
    IN  IF Cardinality(all) > 1
        THEN [of |-> [k \in keys |-> raw.of[k] - Min(all)], one |-> Max(all) - Min(all)]
        ELSE IF all = {0} THEN [of |-> [k \in keys |-> 1], one |-> 10]
        ELSE raw

Calls(stats) == stats.usage + stats.failures

\* In fractions of Grain; 0.95 for a key without calls.
SuccessRate(stats) ==
    IF Calls(stats) = 0 THEN (95 * Grain) \div 100
    ELSE (Grain * stats.usage) \div Calls(stats)

\* In tenths.
CapacityScore(capacity) ==
    [abundant |-> 10, constrained |-> 7, critical |-> 4, exhausted |-> 0, recovering |-> 6][capacity]

HealthScore(health) == [available |-> 10, throttled |-> 7, recovering |-> 5][health]

\* The factor, in fractions of 2 * Grain, for a key of which more than one call
\* in ten has failed: what it lacks of 1.0 is half of the share that failed.
FailurePenalty(stats) ==
    IF stats.usage > 0 /\ 10 * stats.failures > Calls(stats)
    THEN Grain + SuccessRate(stats)
    ELSE 2 * Grain

\* 70 % success rate, 20 % state, 10 % quota; in fractions of 200 * Grain ^ 2.
Reliability(stats) ==
    (70 * SuccessRate(stats) + Grain * (2 * HealthScore(stats.health) + CapacityScore(stats.capacity)))
        * FailurePenalty(stats)

CostScores(board, keys) == LeastFirst([k \in keys |-> board[k].cost], keys)

FairnessScores(board, keys) == LeastFirst([k \in keys |-> board[k].usage], keys)

ReliabilityScores(board, keys) ==
    Stretched([of |-> [k \in keys |-> Reliability(board[k])], one |-> 200 * Grain * Grain], keys)

Scores(board, keys, criterion) ==
    CASE criterion = "cost" -> CostScores(board, keys)
      [] criterion = "fairness" -> FairnessScores(board, keys)
      [] criterion = "reliability" -> ReliabilityScores(board, keys)

\* Weights that are all 0 count as equal.
Weights(weights) ==
    [c \in DOMAIN weights |-> IF \A d \in DOMAIN weights : weights[d] = 0 THEN 1 ELSE weights[c]]

\* The weighted sum over the common denominator of the criteria; one without a
\* weight adds nothing.
Composite(board, keys, given) ==
    LET Score(c) == IF c \in DOMAIN given THEN Scores(board, keys, c) ELSE Equal(keys)
        Weight(c) == IF c \in DOMAIN given THEN Weights(given)[c] ELSE 0
        cost == Score("cost")
        reliability == Score("reliability")
        fairness == Score("fairness")
        Total(x, y, z) == Weight("cost") * (x * (reliability.one * fairness.one))
                          + Weight("reliability") * (y * (cost.one * fairness.one))
                          + Weight("fairness") * (z * (cost.one * reliability.one))
    IN  Stretched([of |-> [k \in keys |-> Total(cost.of[k], reliability.of[k], fairness.of[k])],
                   one |-> Total(cost.one, reliability.one, fairness.one)], keys)

\* evaluate_keys: one criterion, or several when the objective has weights.
Evaluate(board, keys, objective) ==
    IF objective.weights = <<>> THEN Scores(board, keys, objective.primary)
    ELSE Composite(board, keys, objective.weights)

\* What the factors of a soft budget and of the quota make of 1.0, in
\* fractions of 200.
Factor(stats) ==
    (IF stats.soft THEN 7 ELSE 10) *
    (CASE stats.capacity = "abundant" -> 24
       [] stats.capacity = "constrained" -> 17
       [] stats.capacity = "recovering" -> 19
       [] OTHER -> 20)

\* Mutant of Adjusted: the boost is added to the score.
AdjustedAdded(board, keys, scores) ==
    [k \in keys |-> Min({200 * scores.of[k] + (Factor(board[k]) - 200) * scores.one, 200 * scores.one})]

\* The final scores, in fractions of 200 * scores.one, cut off at 1.0.
Adjusted(board, keys, scores) ==
    [k \in keys |-> Min({scores.of[k] * Factor(board[k]), 200 * scores.one})]

\* The keys with the highest final score.
Best(board, keys, objective) ==
    LET final == Adjusted(board, keys, Evaluate(board, keys, objective))
    IN  {k \in keys : \A j \in keys : final[j] <= final[k]}
=============================================================================
