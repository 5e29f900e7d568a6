----------------------------- MODULE Selection -----------------------------
(***************************************************************************)
(* RoutingEngine.route_request (domain/components/routing_engine.py) with  *)
(* what it reads of the keys, over many concurrent requests: a request is  *)
(* decided by the counters it finds, and counts itself when its answer     *)
(* comes, after other requests have been decided.                          *)
(*                                                                         *)
(* All keys belong to one provider and are listed in the order of the      *)
(* store.  A key that is not eligible and one whose quota is used up are   *)
(* both left out of the decision; only the second stays in the decision's  *)
(* list.  Costs are those in the keys' metadata.                           *)
(***************************************************************************)
EXTENDS Scoring, SequencesExt

CONSTANTS
    Order,          \* the keys, in the order get_eligible_keys lists them
    Requests,
    Objectives,     \* the objectives requests come with
    Policies,       \* the sequence of enabled routing policies, by precedence
                    \* (max_cost only annotates a decision)
    FirstBoards,    \* what may be known of the keys to begin with
    Moves,          \* capacity states that the quota engine may set
    MaxRetries,     \* max_retries of ApiKeyRouter.route
    MaxCalls        \* bound: no request starts after so many calls

Keys == ToSet(Order)

ASSUME SelectionAssumption ==
    /\ Order \in Seq(Keys) /\ IsInjective(Order)
    /\ IsFiniteSet(Requests) /\ Requests # {}
    /\ FirstBoards \subseteq [Keys -> Stats]
    /\ Moves \subseteq Capacities
    /\ Policies \in Seq([min_reliability : Nat, provider_allowed : BOOLEAN])
    /\ \A objective \in Objectives :
        /\ objective.primary \in Criteria
        /\ DOMAIN objective.weights \subseteq Criteria
        /\ objective.weights \in [DOMAIN objective.weights -> Nat]
    /\ MaxRetries \in Nat \ {0}

VARIABLES
    board,      \* usage_count, failure_count, quota, ... of the keys
    lastIndex,  \* _last_key_indices of the provider; 0 when there is none
    serving,    \* serving[r]: the key being called and those left to try
    latest,     \* the latest decision (history variable)
    level       \* keys that every decision has considered on equal terms
                \* (history variable)

slVars == <<board, lastIndex, serving, latest, level>>

-----------------------------------------------------------------------------
\* PolicyEngine._evaluate_routing_policy: min_reliability in percent, which
\* spares keys without calls, and whether the provider is allowed.
FilteredByPolicy(policy, stats) ==
    \/ Calls(stats) > 0 /\ 100 * stats.usage < policy.min_reliability * Calls(stats)
    \/ ~policy.provider_allowed

QuotaFiltered == {k \in Keys : board[k].capacity \in {"exhausted", "critical"}}

\* The elements at these positions, in the order of the list.
Picked(list, positions) ==
    [n \in 1..Cardinality(positions) |->
        list[CHOOSE i \in positions : Cardinality({j \in positions : j <= i}) = n]]

InOrder(keys) == Picked(Order, {i \in DOMAIN Order : Order[i] \in keys})

\* policy_filtered_keys, policy by policy: a key may be in it twice.
PolicyFiltered ==
    FlattenSeq([i \in DOMAIN Policies |->
        InOrder({k \in Keys \ QuotaFiltered : FilteredByPolicy(Policies[i], board[k])})])

Candidates == InOrder(Keys \ (QuotaFiltered \cup ToSet(PolicyFiltered)))

\* Mutant of AfterLast: the index is taken in the list of the tied keys.
AfterLastTied(tied) ==
    IF lastIndex \in 1..Len(tied) THEN tied[(lastIndex % Len(tied)) + 1] ELSE tied[1]

\* The tied key after the one that lastIndex stands for, if that is tied.
AfterLast(tied) ==
    LET position == IF lastIndex \in 1..Len(Candidates) /\ Contains(tied, Candidates[lastIndex])
                    THEN CHOOSE i \in 1..Len(tied) : tied[i] = Candidates[lastIndex]
                    ELSE 0
    IN  tied[(position % Len(tied)) + 1]

\* Among keys with the highest score, the first, or for fairness the next.
Selected(objective) ==
    LET tied == InOrder(Best(board, ToSet(Candidates), objective))
    IN  IF objective.primary = "fairness" /\ Len(tied) > 1 THEN AfterLast(tied) ELSE tied[1]

\* Mutant of Attempts: the selected key is tried again in its place in the list.
AttemptsTwice(k) ==
    SubSeq(<<k>> \o Candidates, 1, Min({Len(Candidates) + 1, MaxRetries}))

\* The keys that route will try, each once and at most MaxRetries of them: the
\* filtered keys are at the end of eligible_keys.
Attempts(k) ==
    LET rest == Candidates \o InOrder(QuotaFiltered) \o PolicyFiltered
        firsts == {i \in DOMAIN rest : rest[i] # k /\ \A j \in 1..(i - 1) : rest[j] # rest[i]}
        list == <<k>> \o Picked(rest, firsts)
    IN  SubSeq(list, 1, Min({Len(list), MaxRetries}))

EqualTerms(objective) ==
    IF objective # [primary |-> "fairness", weights |-> <<>>] THEN {}
    ELSE {k \in ToSet(Candidates) :
            \A j \in ToSet(Candidates) : Factor(board[j]) <= Factor(board[k])}

-----------------------------------------------------------------------------
Init ==
    /\ board \in FirstBoards
    /\ lastIndex = 0
    /\ serving = [r \in Requests |-> <<>>]
    /\ latest = [key |-> "none", list |-> <<>>]
    /\ level = {k \in Keys : \A j \in Keys : board[j].usage <= board[k].usage}

WithinBounds == MapThenSumSet(LAMBDA k : Calls(board[k]), Keys) < MaxCalls

RouteRequest(r, objective) ==
    /\ serving[r] = <<>>
    /\ WithinBounds
    /\ Candidates # <<>>
    /\ LET k == Selected(objective) IN
        /\ serving' = [serving EXCEPT ![r] = Attempts(k)]
        /\ lastIndex' = CHOOSE i \in 1..Len(Candidates) : Candidates[i] = k
        /\ latest' = [key |-> k, list |-> Candidates, objective |-> objective]
    /\ level' = level \cap EqualTerms(objective)
    /\ UNCHANGED board

\* The provider answers: route counts the use of the key.
Succeed(r) ==
    /\ serving[r] # <<>>
    /\ board' = [board EXCEPT ![Head(serving[r])].usage = @ + 1]
    /\ serving' = [serving EXCEPT ![r] = <<>>]
    /\ UNCHANGED <<lastIndex, latest, level>>

\* The provider fails: route counts the failure and, if that may help, tries
\* the next key.
Fail(r, retryable) ==
    /\ serving[r] # <<>>
    /\ board' = [board EXCEPT ![Head(serving[r])].failures = @ + 1]
    /\ serving' = [serving EXCEPT ![r] = IF retryable THEN Tail(@) ELSE <<>>]
    /\ level' = IF serving'[r] = <<>> THEN level ELSE {}
    /\ UNCHANGED <<lastIndex, latest>>

\* The awaited call ends with another exception and route with it.
Abort(r) ==
    /\ serving[r] # <<>>
    /\ serving' = [serving EXCEPT ![r] = <<>>]
    /\ UNCHANGED <<board, lastIndex, latest, level>>

MoveCapacity(k, capacity) ==
    /\ board' = [board EXCEPT ![k].capacity = capacity]
    /\ UNCHANGED <<lastIndex, serving, latest, level>>

Next ==
    \/ \E r \in Requests :
        \/ \E objective \in Objectives : RouteRequest(r, objective)
        \/ Succeed(r)
        \/ \E retryable \in BOOLEAN : Fail(r, retryable)
        \/ Abort(r)
    \/ \E k \in Keys, capacity \in Moves : MoveCapacity(k, capacity)

Spec == Init /\ [][Next]_slVars

-----------------------------------------------------------------------------
SLTypeOK ==
    /\ board \in [Keys -> Stats]
    /\ lastIndex \in 0..Len(Order)
    /\ serving \in [Requests -> Seq(Keys)]
    /\ \A r \in Requests : Len(serving[r]) <= MaxRetries /\ IsInjective(serving[r])
    /\ level \subseteq Keys

\* Requests whose answer on key k is awaited.
Pending(k) == {r \in Requests : serving[r] # <<>> /\ Head(serving[r]) = k}

\* As long as no request is retried, a key that was always considered on equal
\* terms is never left behind by more than the number of concurrent requests,
\* and a fifth of it more (the fairness score reads usage_count, which is
\* counted when the answer comes; the boost of Abundant keys blurs the scores).
FairShare ==
    \A j \in level, i \in Keys :
        5 * (board[i].usage + Cardinality(Pending(i)) - board[j].usage) <= 6 * Cardinality(Requests)

Decided(r) == serving[r] = <<>> /\ serving'[r] # <<>>

\* As long as the candidates stay the same, fairness does not take the same
\* key twice in a row when others have the same score (_last_key_indices).
RoundRobin ==
    [][\A r \in Requests :
        (/\ Decided(r)
         /\ latest.key # "none"
         /\ latest'.objective.primary = "fairness"
         /\ latest'.list = latest.list
         /\ Cardinality(Best(board, ToSet(Candidates), latest'.objective)) > 1)
        => latest'.key # latest.key]_slVars

\* Whatever the objective, no candidate whose quota and budgets are no worse
\* scores more than a sixth of the range higher than the selected key: that is
\* all that the boost of Abundant keys, cut off at 1.0, can hide.
SelectedNearBest ==
    [][\A r \in Requests : Decided(r) =>
        LET keys == ToSet(Candidates)
            scores == Evaluate(board, keys, latest'.objective)
            k == latest'.key
        IN  \A j \in keys :
                Factor(board[j]) >= Factor(board[k]) =>
                    6 * (scores.of[j] - scores.of[k]) <= scores.one]_slVars

\* What key j has over key k, without any scoring.
NoWorse(j, k, criterion) ==
    IF criterion = "reliability"
    THEN /\ board[j].usage > 0 /\ board[k].usage > 0
         /\ board[j].health = board[k].health
         /\ SuccessRate(board[j]) >= SuccessRate(board[k])
    ELSE IF criterion = "cost" THEN board[j].cost <= board[k].cost
    ELSE board[j].usage <= board[k].usage

\* The criteria that count.
Considered(objective) ==
    IF objective.weights = <<>> THEN {objective.primary}
    ELSE {c \in DOMAIN objective.weights : Weights(objective.weights)[c] > 0}

Dominates(j, k, objective) ==
    /\ board[j].capacity = board[k].capacity /\ board[j].soft = board[k].soft
    /\ \A c \in Considered(objective) : NoWorse(j, k, c)
    /\ \E c \in Considered(objective) : ~NoWorse(k, j, c)

\* No decision takes a key when another candidate with the same quota and the
\* same budgets is better by one of the weighted criteria and worse by none,
\* unless the boost of Abundant keys hides it.
SelectedNotDominated ==
    [][\A r \in Requests : Decided(r) =>
        (Factor(board[latest'.key]) <= 200 =>
            ~ \E j \in ToSet(Candidates) : Dominates(j, latest'.key, latest'.objective))]_slVars
=============================================================================
