----------------------------- MODULE CostProofs -----------------------------
(***************************************************************************)
(* Theorems about CostController for all budgets, limits, periods, costs   *)
(* and numbers of concurrent requests.                                     *)
(***************************************************************************)
EXTENDS CostController, FiniteSetTheorems, TLAPS

\* What n requests may cost at most.
Worst(n) == n * MaxActual

\* OverrunBounded made inductive: what the outstanding requests may still add
\* to the budget is counted as if it had been spent.
Bounded(b) ==
    budgets[b].current_spend + Worst(Cardinality(Outstanding(b)))
        <= Limit[b] + Worst(Cardinality(Requests))

Exposure == \A b \in DOMAIN budgets \cap Hard : b \notin bypassed => Bounded(b)

CCInv == CCTypeOK /\ Exposure

-----------------------------------------------------------------------------
\* More requests cost no less, and one request costs at most MaxActual.
LEMMA WorstFacts ==
    ASSUME NEW n \in Nat, NEW m \in Nat
    PROVE  /\ Worst(n) \in Nat
           /\ n <= m => Worst(n) <= Worst(m)
           /\ m = n + 1 => Worst(m) = Worst(n) + MaxActual
<1>1. MaxActual \in Nat
    BY CostAssumption
<1>2. Worst(n) \in Nat
    BY <1>1 DEF Worst
<1>3. m = n + 1 => Worst(m) = Worst(n) + MaxActual
    BY <1>1 DEF Worst
<1>4. ASSUME n <= m
      PROVE  Worst(n) <= Worst(m)
    <2>1. PICK d \in Nat : m = n + d
        BY <1>4
    <2>2. m * MaxActual = n * MaxActual + d * MaxActual
        BY <1>1, <2>1
    <2>3. d * MaxActual >= 0
        BY <1>1
    <2>. QED BY <1>1, <2>2, <2>3 DEF Worst
<1>. QED BY <1>2, <1>3, <1>4

\* There are never more outstanding requests than requests.
LEMMA OutstandingCard ==
    ASSUME NEW S \in SUBSET Requests
    PROVE  /\ IsFiniteSet(S)
           /\ Cardinality(S) \in Nat
           /\ Cardinality(Requests) \in Nat
           /\ Cardinality(S) <= Cardinality(Requests)
    BY CostAssumption, FS_Subset, FS_CardinalityType

\* A budget within its limit is bounded whatever is outstanding.
LEMMA WithinLimitIsBounded ==
    ASSUME NEW b, NEW S \in SUBSET Requests, NEW spend \in Nat, Limit[b] \in Nat, spend <= Limit[b]
    PROVE  spend + Worst(Cardinality(S)) <= Limit[b] + Worst(Cardinality(Requests))
<1>1. /\ Cardinality(S) \in Nat
      /\ Cardinality(Requests) \in Nat
      /\ Cardinality(S) <= Cardinality(Requests)
    BY OutstandingCard
<1>2. /\ Worst(Cardinality(S)) \in Nat
      /\ Worst(Cardinality(Requests)) \in Nat
      /\ Worst(Cardinality(S)) <= Worst(Cardinality(Requests))
    BY <1>1, WorstFacts
<1>. QED BY <1>2

\* Fewer outstanding requests and no more spending keep a budget bounded.
LEMMA LessOutstandingIsBounded ==
    ASSUME NEW b, NEW S \in SUBSET Requests, NEW T \in SUBSET S,
           NEW spend \in Nat, NEW less \in Nat, Limit[b] \in Nat, less <= spend,
           spend + Worst(Cardinality(S)) <= Limit[b] + Worst(Cardinality(Requests))
    PROVE  less + Worst(Cardinality(T)) <= Limit[b] + Worst(Cardinality(Requests))
<1>1. /\ Cardinality(T) \in Nat
      /\ Cardinality(S) \in Nat
      /\ Cardinality(Requests) \in Nat
      /\ Cardinality(T) <= Cardinality(S)
    BY OutstandingCard, FS_Subset
<1>2. /\ Worst(Cardinality(T)) \in Nat
      /\ Worst(Cardinality(S)) \in Nat
      /\ Worst(Cardinality(Requests)) \in Nat
      /\ Worst(Cardinality(T)) <= Worst(Cardinality(S))
    BY <1>1, WorstFacts
<1>. QED BY <1>2

\* A request that is charged exchanges what it might cost for what it cost.
LEMMA ChargedIsBounded ==
    ASSUME NEW b, NEW S \in SUBSET Requests, NEW r \in S,
           NEW spend \in Nat, NEW amount \in 0..MaxActual, Limit[b] \in Nat,
           spend + Worst(Cardinality(S)) <= Limit[b] + Worst(Cardinality(Requests))
    PROVE  spend + amount + Worst(Cardinality(S \ {r})) <= Limit[b] + Worst(Cardinality(Requests))
<1>1. /\ Cardinality(S \ {r}) \in Nat
      /\ Cardinality(S) = Cardinality(S \ {r}) + 1
    BY OutstandingCard, FS_RemoveElement
<1>2. Cardinality(S) \in Nat /\ Cardinality(Requests) \in Nat
    BY OutstandingCard
<1>3. /\ Worst(Cardinality(S \ {r})) \in Nat
      /\ Worst(Cardinality(Requests)) \in Nat
      /\ Worst(Cardinality(S)) = Worst(Cardinality(S \ {r})) + MaxActual
    BY <1>1, <1>2, WorstFacts
<1>. QED BY <1>3, CostAssumption

-----------------------------------------------------------------------------
\* The assumptions and the type invariant, taken apart.
LEMMA Facts ==
    ASSUME CCTypeOK, NEW b \in Budgets
    PROVE  /\ Limit[b] \in Nat
           /\ Period[b] \in Nat \ {0}
           /\ elapsed[b] \in Nat
           /\ elapsed[b] < Period[b]
           /\ UntilReset(b) \in Nat \ {0}
           /\ b \in DOMAIN budgets =>
                /\ budgets[b] \in BudgetStates
                /\ budgets[b].current_spend \in Nat
                /\ budgets[b].warning_count \in Nat
                /\ budgets[b].reset_in \in Nat
                /\ budgets[b].reset_in \in {0, UntilReset(b)}
    BY CostAssumption DEF CCTypeOK, UntilReset, BudgetStates

LEMMA OutstandingAreRequests ==
    ASSUME NEW b
    PROVE  Outstanding(b) \in SUBSET Requests
    BY DEF Outstanding

\* Assignments to one field of a budget.
LEMMA BudgetFields ==
    ASSUME NEW x \in BudgetStates, NEW n \in Nat
    PROVE  /\ [x EXCEPT !.current_spend = @ + n] \in BudgetStates
           /\ [x EXCEPT !.current_spend = @ + n].current_spend = x.current_spend + n
           /\ [x EXCEPT !.current_spend = @ + n].reset_in = x.reset_in
           /\ [x EXCEPT !.warning_count = @ + 1] \in BudgetStates
           /\ [x EXCEPT !.warning_count = @ + 1].current_spend = x.current_spend
           /\ [x EXCEPT !.warning_count = @ + 1].reset_in = x.reset_in
           /\ [x EXCEPT !.reset_in = IF @ = 0 THEN 0 ELSE @ - 1] \in BudgetStates
           /\ [x EXCEPT !.reset_in = IF @ = 0 THEN 0 ELSE @ - 1].current_spend = x.current_spend
           /\ [x EXCEPT !.reset_in = IF @ = 0 THEN 0 ELSE @ - 1].reset_in
                = IF x.reset_in = 0 THEN 0 ELSE x.reset_in - 1
    BY DEF BudgetStates

\* A lazy reset leaves every budget in range, and its spending as it was or 0.
LEMMA RefreshedFacts ==
    ASSUME CCTypeOK, NEW touched, NEW b \in DOMAIN budgets
    PROVE  /\ DOMAIN Refreshed(touched) = DOMAIN budgets
           /\ Refreshed(touched) = [c \in DOMAIN budgets |-> Refreshed(touched)[c]]
           /\ Refreshed(touched)[b] \in BudgetStates
           /\ Refreshed(touched)[b].reset_in \in {0, UntilReset(b)}
           /\ Refreshed(touched)[b].current_spend \in {0, budgets[b].current_spend}
           /\ b \in touched => Refreshed(touched)[b] = Refreshed({b})[b]
           /\ b \notin StillBypassed(touched) /\ b \in bypassed =>
                Refreshed(touched)[b].current_spend = 0
<1>1. b \in Budgets
    BY DEF CCTypeOK
<1>2. /\ UntilReset(b) \in Nat
      /\ budgets[b] \in BudgetStates
      /\ budgets[b].reset_in \in {0, UntilReset(b)}
    BY <1>1, Facts
<1>3. Refreshed(touched)[b] =
        IF b \in touched /\ Due(b)
        THEN [current_spend |-> 0, warning_count |-> 0, reset_in |-> UntilReset(b)]
        ELSE budgets[b]
    BY DEF Refreshed
<1>4. Refreshed({b})[b] =
        IF Due(b)
        THEN [current_spend |-> 0, warning_count |-> 0, reset_in |-> UntilReset(b)]
        ELSE budgets[b]
    BY DEF Refreshed
<1>5. Refreshed(touched)[b] \in BudgetStates
    BY <1>2, <1>3 DEF BudgetStates
<1>6. /\ Refreshed(touched)[b].reset_in \in {0, UntilReset(b)}
      /\ Refreshed(touched)[b].current_spend \in {0, budgets[b].current_spend}
    BY <1>2, <1>3
<1>7. b \in touched => Refreshed(touched)[b] = Refreshed({b})[b]
    BY <1>3, <1>4
<1>8. b \notin StillBypassed(touched) /\ b \in bypassed =>
        Refreshed(touched)[b].current_spend = 0
    BY <1>3 DEF StillBypassed
<1>9. /\ DOMAIN Refreshed(touched) = DOMAIN budgets
      /\ Refreshed(touched) = [c \in DOMAIN budgets |-> Refreshed(touched)[c]]
    BY DEF Refreshed
<1>. QED BY <1>5, <1>6, <1>7, <1>8, <1>9

\* What the initial state satisfies.
LEMMA InitInv == Init => CCInv
<1>. SUFFICES ASSUME Init PROVE CCInv
    OBVIOUS
<1>1. CCTypeOK
    <2>1. elapsed \in [Budgets -> Nat] /\ \A b \in Budgets : elapsed[b] < Period[b]
        BY CostAssumption DEF Init
    <2>2. DOMAIN budgets = {} /\ budgets = [b \in DOMAIN budgets |-> 0]
        BY DEF Init
    <2>3. budgets \in [DOMAIN budgets -> BudgetStates]
        BY <2>2
    <2>4. requests \in [Requests -> RequestStates]
        BY DEF Init, RequestStates
    <2>5. \A r \in Requests : requests[r].phase # "charging"
        BY DEF Init, Idle
    <2>. QED BY <2>1, <2>2, <2>3, <2>4, <2>5 DEF CCTypeOK, Init
<1>2. Exposure
    BY DEF Init, Exposure
<1>. QED BY <1>1, <1>2 DEF CCInv

-----------------------------------------------------------------------------
(* Each step keeps the budgets in range (CCTypeOK).                        *)

\* Budgets and bypassed after a call that touches some budgets.
LEMMA RefreshKeepsType ==
    ASSUME CCTypeOK, NEW touched,
           budgets' = Refreshed(touched),
           bypassed' = StillBypassed(touched),
           elapsed' = elapsed
    PROVE  /\ budgets' \in [DOMAIN budgets' -> BudgetStates]
           /\ DOMAIN budgets' = DOMAIN budgets
           /\ \A b \in DOMAIN budgets' : budgets'[b].reset_in \in {0, UntilReset(b)'}
           /\ bypassed' \subseteq Hard
<1>1. DOMAIN budgets' = DOMAIN budgets
    BY DEF Refreshed
<1>2. \A b \in DOMAIN budgets : Refreshed(touched)[b] \in BudgetStates
    BY RefreshedFacts
<1>3. budgets' \in [DOMAIN budgets -> BudgetStates]
    BY <1>2 DEF Refreshed
<1>4. \A b \in DOMAIN budgets : Refreshed(touched)[b].reset_in \in {0, UntilReset(b)}
    BY RefreshedFacts
<1>5. bypassed' \subseteq Hard
    BY DEF CCTypeOK, StillBypassed
<1>. QED BY <1>1, <1>3, <1>4, <1>5 DEF UntilReset

\* Everything but the budgets after a request is let in.
LEMMA AdmissionType ==
    ASSUME CCTypeOK, NEW r \in Requests, NEW k \in Keys, NEW cost \in Nat, NEW checked \in BOOLEAN,
           NEW spare \in SUBSET Keys, NEW risky \in SUBSET Keys
    PROVE  [requests EXCEPT ![r] = [phase |-> "running", key |-> k, cost |-> cost, checked |-> checked,
                                    spare |-> spare, risky |-> risky]]
                \in [Requests -> RequestStates]
    BY DEF CCTypeOK, RequestStates

LEMMA CreateBudgetType ==
    ASSUME CCTypeOK, NEW b \in Budgets, CreateBudget(b)
    PROVE  CCTypeOK'
<1>1. DOMAIN budgets' = DOMAIN budgets \cup {b}
    BY DEF CreateBudget
<1>2. UntilReset(b) \in Nat
    BY Facts
<1>3. \A c \in DOMAIN budgets' : budgets'[c] =
        IF c = b THEN [current_spend |-> 0, warning_count |-> 0, reset_in |-> UntilReset(b)]
        ELSE budgets[c]
    BY DEF CreateBudget
<1>4. \A c \in DOMAIN budgets' : budgets'[c] \in BudgetStates
    BY <1>1, <1>2, <1>3 DEF CCTypeOK, BudgetStates
<1>5. budgets' \in [DOMAIN budgets' -> BudgetStates]
    BY <1>4 DEF CreateBudget
<1>6. \A c \in DOMAIN budgets' : budgets'[c].reset_in \in {0, UntilReset(c)'}
    BY <1>1, <1>3 DEF CCTypeOK, UntilReset, CreateBudget
<1>7. \A r \in Requests :
        requests'[r].phase = "charging" => requests'[r].owed \subseteq DOMAIN budgets'
    BY <1>1 DEF CCTypeOK, CreateBudget
<1>. QED BY <1>1, <1>5, <1>6, <1>7 DEF CCTypeOK, CreateBudget

LEMMA GetBudgetType ==
    ASSUME CCTypeOK, NEW b, GetBudget(b)
    PROVE  CCTypeOK'
<1>1. /\ budgets' = Refreshed({b})
      /\ bypassed' = StillBypassed({b})
      /\ UNCHANGED <<elapsed, requests>>
    BY DEF GetBudget
<1>. QED BY <1>1, RefreshKeepsType DEF CCTypeOK

LEMMA RejectRequestType ==
    ASSUME CCTypeOK, NEW r \in Requests, RejectRequest(r)
    PROVE  CCTypeOK'
<1>1. PICK k \in Keys :
        /\ budgets' = Refreshed(Applicable(k))
        /\ bypassed' = StillBypassed(Applicable(k))
        /\ UNCHANGED <<elapsed, requests>>
    BY DEF RejectRequest
<1>. QED BY <1>1, RefreshKeepsType DEF CCTypeOK

\* What a request let in by enforce_budget changes.
LEMMA EnforceBudgetEffect ==
    ASSUME NEW r \in Requests, EnforceBudget(r)
    PROVE  \E k \in Keys, m \in Models :
            /\ requests[r].phase = "idle"
            /\ Violated(k, Cost[m]) \cap Hard = {}
            /\ budgets' = [b \in DOMAIN budgets |->
                    IF b \in Violated(k, Cost[m])
                    THEN [Refreshed(Applicable(k))[b] EXCEPT !.warning_count = @ + 1]
                    ELSE Refreshed(Applicable(k))[b]]
            /\ requests' = [requests EXCEPT ![r] =
                    [phase |-> "running", key |-> k, cost |-> Cost[m], checked |-> TRUE,
                     spare |-> {}, risky |-> {}]]
            /\ bypassed' = StillBypassed(Applicable(k)) \cup FreePasses(k, Cost[m])
            /\ elapsed' = elapsed
    BY DEF EnforceBudget

LEMMA EnforceBudgetType ==
    ASSUME CCTypeOK, NEW r \in Requests, EnforceBudget(r)
    PROVE  CCTypeOK'
<1>1. PICK k \in Keys, m \in Models :
            /\ requests[r].phase = "idle"
            /\ Violated(k, Cost[m]) \cap Hard = {}
            /\ budgets' = [b \in DOMAIN budgets |->
                    IF b \in Violated(k, Cost[m])
                    THEN [Refreshed(Applicable(k))[b] EXCEPT !.warning_count = @ + 1]
                    ELSE Refreshed(Applicable(k))[b]]
            /\ requests' = [requests EXCEPT ![r] =
                    [phase |-> "running", key |-> k, cost |-> Cost[m], checked |-> TRUE,
                     spare |-> {}, risky |-> {}]]
            /\ bypassed' = StillBypassed(Applicable(k)) \cup FreePasses(k, Cost[m])
            /\ elapsed' = elapsed
    BY EnforceBudgetEffect
<1>2. \A b \in DOMAIN budgets :
        /\ Refreshed(Applicable(k))[b] \in BudgetStates
        /\ Refreshed(Applicable(k))[b].reset_in \in {0, UntilReset(b)}
    BY RefreshedFacts
<1>3. DOMAIN budgets' = DOMAIN budgets
    BY <1>1
<1>4. \A b \in DOMAIN budgets :
        /\ budgets'[b] \in BudgetStates
        /\ budgets'[b].reset_in = Refreshed(Applicable(k))[b].reset_in
    BY <1>1, <1>2 DEF BudgetStates
<1>5. budgets' \in [DOMAIN budgets' -> BudgetStates]
    BY <1>1, <1>3, <1>4
<1>6. \A b \in DOMAIN budgets' : budgets'[b].reset_in \in {0, UntilReset(b)'}
    BY <1>1, <1>2, <1>3, <1>4 DEF UntilReset
<1>7. requests' \in [Requests -> RequestStates]
    BY <1>1, AdmissionType, CostAssumption
<1>8. bypassed' \subseteq Hard
    BY <1>1 DEF CCTypeOK, StillBypassed, FreePasses
<1>. QED BY <1>1, <1>3, <1>5, <1>6, <1>7, <1>8 DEF CCTypeOK

\* What the router's decision changes.
LEMMA RouteRequestEffect ==
    ASSUME NEW r \in Requests, RouteRequest(r)
    PROVE  \E m \in Models, priced \in SUBSET Keys :
           \E k \in KeysWithinBudget(priced, Cost[m]) \cup (Keys \ priced) :
            /\ requests[r].phase = "idle"
            /\ requests' = [requests EXCEPT ![r] =
                    [phase |-> "running", key |-> k, cost |-> Cost[m], checked |-> k \in priced,
                     spare |-> KeysWithinBudget(priced, Cost[m]) \ {k},
                     risky |-> Keys \ (KeysWithinBudget(priced, Cost[m]) \cup {k})]]
            /\ bypassed' = StillBypassed(UNION {Applicable(j) : j \in priced}) \cup
                    (IF k \in priced THEN FreePasses(k, Cost[m]) ELSE Applicable(k) \cap Hard)
            /\ budgets' = Refreshed(UNION {Applicable(j) : j \in priced})
            /\ elapsed' = elapsed
    BY DEF RouteRequest

LEMMA RouteRequestType ==
    ASSUME CCTypeOK, NEW r \in Requests, RouteRequest(r)
    PROVE  CCTypeOK'
<1>1. PICK m \in Models, priced \in SUBSET Keys :
           \E k \in KeysWithinBudget(priced, Cost[m]) \cup (Keys \ priced) :
            /\ requests[r].phase = "idle"
            /\ requests' = [requests EXCEPT ![r] =
                    [phase |-> "running", key |-> k, cost |-> Cost[m], checked |-> k \in priced,
                     spare |-> KeysWithinBudget(priced, Cost[m]) \ {k},
                     risky |-> Keys \ (KeysWithinBudget(priced, Cost[m]) \cup {k})]]
            /\ bypassed' = StillBypassed(UNION {Applicable(j) : j \in priced}) \cup
                    (IF k \in priced THEN FreePasses(k, Cost[m]) ELSE Applicable(k) \cap Hard)
            /\ budgets' = Refreshed(UNION {Applicable(j) : j \in priced})
            /\ elapsed' = elapsed
    BY RouteRequestEffect
<1>. DEFINE touched == UNION {Applicable(j) : j \in priced}
<1>2. PICK k \in KeysWithinBudget(priced, Cost[m]) \cup (Keys \ priced) :
            /\ requests' = [requests EXCEPT ![r] =
                    [phase |-> "running", key |-> k, cost |-> Cost[m], checked |-> k \in priced,
                     spare |-> KeysWithinBudget(priced, Cost[m]) \ {k},
                     risky |-> Keys \ (KeysWithinBudget(priced, Cost[m]) \cup {k})]]
            /\ bypassed' = StillBypassed(touched) \cup
                    (IF k \in priced THEN FreePasses(k, Cost[m]) ELSE Applicable(k) \cap Hard)
            /\ budgets' = Refreshed(touched)
            /\ elapsed' = elapsed
    BY <1>1
<1>. HIDE DEF touched
<1>3. k \in Keys
    BY <1>2 DEF KeysWithinBudget
<1>4. requests' \in [Requests -> RequestStates]
    <2>. DEFINE checked == k \in priced
                cost == Cost[m]
                spare == KeysWithinBudget(priced, Cost[m]) \ {k}
                risky == Keys \ (KeysWithinBudget(priced, Cost[m]) \cup {k})
    <2>1. /\ spare \in SUBSET Keys
          /\ risky \in SUBSET Keys
          /\ cost \in Nat
          /\ checked \in BOOLEAN
        BY CostAssumption DEF KeysWithinBudget
    <2>2. requests' = [requests EXCEPT ![r] =
            [phase |-> "running", key |-> k, cost |-> cost, checked |-> checked,
             spare |-> spare, risky |-> risky]]
        BY <1>2
    <2>. HIDE DEF checked, cost, spare, risky
    <2>. QED BY <1>3, <2>1, <2>2, AdmissionType
<1>5. DOMAIN budgets' = DOMAIN budgets
    BY <1>2 DEF Refreshed
<1>6. budgets' \in [DOMAIN budgets' -> BudgetStates]
    BY <1>2, <1>5, RefreshedFacts DEF Refreshed
<1>7. \A b \in DOMAIN budgets' : budgets'[b].reset_in \in {0, UntilReset(b)'}
    BY <1>2, <1>5, RefreshedFacts DEF UntilReset
<1>8. bypassed' \subseteq Hard
    BY <1>2 DEF CCTypeOK, StillBypassed, FreePasses
<1>. QED BY <1>2, <1>4, <1>5, <1>6, <1>7, <1>8 DEF CCTypeOK

\* What going on with another key changes.
LEMMA RetryEffect ==
    ASSUME CCTypeOK, NEW r \in Requests, Retry(r)
    PROVE  \E k \in Keys :
            /\ k \in requests[r].spare \cup requests[r].risky
            /\ requests[r].phase = "running"
            /\ requests' = [requests EXCEPT ![r] =
                    [phase |-> "running", key |-> k, cost |-> requests[r].cost, checked |-> FALSE,
                     spare |-> requests[r].spare \ {k}, risky |-> requests[r].risky \ {k}]]
            /\ bypassed' = bypassed \cup
                    (IF k \in requests[r].spare THEN FreePasses(k, requests[r].cost)
                     ELSE Applicable(k) \cap Hard)
            /\ UNCHANGED <<elapsed, budgets>>
<1>1. requests[r] \in [phase : {"running"}, key : Keys, cost : Nat, checked : BOOLEAN,
                      spare : SUBSET Keys, risky : SUBSET Keys]
    BY DEF CCTypeOK, RequestStates, Idle, Retry
<1>2. requests[r].spare \cup requests[r].risky \subseteq Keys
    BY <1>1
<1>. QED BY <1>2 DEF Retry

LEMMA RetryType ==
    ASSUME CCTypeOK, NEW r \in Requests, Retry(r)
    PROVE  CCTypeOK'
<1>1. PICK k \in Keys :
            /\ k \in requests[r].spare \cup requests[r].risky
            /\ requests[r].phase = "running"
            /\ requests' = [requests EXCEPT ![r] =
                    [phase |-> "running", key |-> k, cost |-> requests[r].cost, checked |-> FALSE,
                     spare |-> requests[r].spare \ {k}, risky |-> requests[r].risky \ {k}]]
            /\ bypassed' = bypassed \cup
                    (IF k \in requests[r].spare THEN FreePasses(k, requests[r].cost)
                     ELSE Applicable(k) \cap Hard)
            /\ UNCHANGED <<elapsed, budgets>>
    BY RetryEffect
<1>2. /\ requests[r].cost \in Nat
      /\ requests[r].spare \ {k} \in SUBSET Keys
      /\ requests[r].risky \ {k} \in SUBSET Keys
    BY <1>1 DEF CCTypeOK, RequestStates, Idle
<1>3. requests' \in [Requests -> RequestStates]
    BY <1>1, <1>2, AdmissionType
<1>4. bypassed' \subseteq Hard
    BY <1>1 DEF CCTypeOK, FreePasses
<1>. QED BY <1>1, <1>3, <1>4 DEF CCTypeOK, UntilReset

LEMMA ProviderType ==
    ASSUME CCTypeOK, NEW r \in Requests, Complete(r) \/ Fail(r) \/ RecordActualCost(r)
    PROVE  CCTypeOK'
<1>1. UNCHANGED <<elapsed, budgets, bypassed>>
    BY DEF Complete, Fail, RecordActualCost
<1>2. PICK new \in RequestStates :
        /\ requests' = [requests EXCEPT ![r] = new]
        /\ new.phase = "charging" => new.owed \subseteq DOMAIN budgets
    <2>1. CASE Complete(r)
        <3>1. /\ Applicable(requests[r].key) \in SUBSET Budgets
              /\ Applicable(requests[r].key) \subseteq DOMAIN budgets
            BY DEF Applicable, CCTypeOK
        <3>2. PICK amount \in Amounts :
                requests' = [requests EXCEPT ![r] =
                    [phase |-> "charging", owed |-> Applicable(requests[r].key), amount |-> amount]]
            BY <2>1 DEF Complete
        <3>3. [phase |-> "charging", owed |-> Applicable(requests[r].key), amount |-> amount]
                \in RequestStates
            BY <3>1 DEF RequestStates
        <3>. QED BY <3>1, <3>2, <3>3
    <2>2. CASE Fail(r) \/ RecordActualCost(r)
        <3>1. Idle \in RequestStates /\ Idle.phase # "charging"
            BY DEF RequestStates, Idle
        <3>. QED BY <2>2, <3>1 DEF Fail, RecordActualCost
    <2>. QED BY <2>1, <2>2
<1>. QED BY <1>1, <1>2 DEF CCTypeOK, UntilReset

\* What update_spending changes.
LEMMA UpdateSpendingEffect ==
    ASSUME CCTypeOK, NEW r \in Requests, UpdateSpending(r)
    PROVE  \E b \in DOMAIN budgets, amount \in Amounts :
            /\ b \in requests[r].owed
            /\ requests[r].phase = "charging"
            /\ budgets' = [Refreshed({b}) EXCEPT ![b].current_spend = @ + amount]
            /\ bypassed' = StillBypassed({b})
            /\ requests' = [requests EXCEPT ![r] =
                    [phase |-> "charging", owed |-> requests[r].owed \ {b}, amount |-> amount]]
            /\ UNCHANGED <<elapsed>>
<1>1. requests[r] \in RequestStates /\ requests[r].phase = "charging"
    BY DEF CCTypeOK, UpdateSpending
<1>2. requests[r] \in [phase : {"charging"}, owed : SUBSET Budgets, amount : Amounts]
    BY <1>1 DEF RequestStates, Idle
<1>3. PICK b \in requests[r].owed :
        /\ budgets' = [Refreshed({b}) EXCEPT ![b].current_spend = @ + requests[r].amount]
        /\ bypassed' = StillBypassed({b})
        /\ requests' = [requests EXCEPT ![r].owed = @ \ {b}]
        /\ UNCHANGED <<elapsed>>
    BY DEF UpdateSpending
<1>4. b \in DOMAIN budgets
    BY <1>1 DEF CCTypeOK
<1>5. [requests[r] EXCEPT !.owed = @ \ {b}] =
        [phase |-> "charging", owed |-> requests[r].owed \ {b}, amount |-> requests[r].amount]
    BY <1>2
<1>6. requests' = [requests EXCEPT ![r] =
        [phase |-> "charging", owed |-> requests[r].owed \ {b}, amount |-> requests[r].amount]]
    BY <1>3, <1>5
<1>. QED BY <1>1, <1>2, <1>3, <1>4, <1>6

LEMMA UpdateSpendingType ==
    ASSUME CCTypeOK, NEW r \in Requests, UpdateSpending(r)
    PROVE  CCTypeOK'
<1>1. PICK b \in DOMAIN budgets, amount \in Amounts :
            /\ b \in requests[r].owed
            /\ requests[r].phase = "charging"
            /\ budgets' = [Refreshed({b}) EXCEPT ![b].current_spend = @ + amount]
            /\ bypassed' = StillBypassed({b})
            /\ requests' = [requests EXCEPT ![r] =
                    [phase |-> "charging", owed |-> requests[r].owed \ {b}, amount |-> amount]]
            /\ UNCHANGED <<elapsed>>
    BY UpdateSpendingEffect
<1>2. amount \in Nat
    BY CostAssumption
<1>3. \A c \in DOMAIN budgets :
        /\ Refreshed({b})[c] \in BudgetStates
        /\ Refreshed({b})[c].reset_in \in {0, UntilReset(c)}
    BY RefreshedFacts
<1>4. DOMAIN budgets' = DOMAIN budgets
    BY <1>1 DEF Refreshed
<1>5. \A c \in DOMAIN budgets :
        /\ budgets'[c] \in BudgetStates
        /\ budgets'[c].reset_in = Refreshed({b})[c].reset_in
    <2>1. b \in DOMAIN Refreshed({b}) /\ DOMAIN Refreshed({b}) = DOMAIN budgets
        BY DEF Refreshed
    <2>2. \A c \in DOMAIN budgets : budgets'[c] =
            IF c = b THEN [Refreshed({b})[b] EXCEPT !.current_spend = @ + amount]
            ELSE Refreshed({b})[c]
        BY <1>1, <2>1
    <2>3. /\ [Refreshed({b})[b] EXCEPT !.current_spend = @ + amount] \in BudgetStates
          /\ [Refreshed({b})[b] EXCEPT !.current_spend = @ + amount].reset_in = Refreshed({b})[b].reset_in
        BY <1>2, <1>3, BudgetFields
    <2>. QED BY <1>3, <2>2, <2>3
<1>6. budgets' \in [DOMAIN budgets' -> BudgetStates]
    BY <1>1, <1>4, <1>5 DEF Refreshed
<1>7. \A c \in DOMAIN budgets' : budgets'[c].reset_in \in {0, UntilReset(c)'}
    BY <1>1, <1>3, <1>4, <1>5 DEF UntilReset
<1>8. /\ requests' \in [Requests -> RequestStates]
      /\ \A q \in Requests :
            requests'[q].phase = "charging" => requests'[q].owed \subseteq DOMAIN budgets
    <2>1. requests[r].owed \subseteq DOMAIN budgets
        BY <1>1 DEF CCTypeOK
    <2>2. [phase |-> "charging", owed |-> requests[r].owed \ {b}, amount |-> amount] \in RequestStates
        BY <2>1 DEF CCTypeOK, RequestStates
    <2>. QED BY <1>1, <2>1, <2>2 DEF CCTypeOK
<1>9. bypassed' \subseteq Hard
    BY <1>1 DEF CCTypeOK, StillBypassed
<1>. QED BY <1>1, <1>4, <1>6, <1>7, <1>8, <1>9 DEF CCTypeOK

LEMMA TickType ==
    ASSUME CCTypeOK, Tick
    PROVE  CCTypeOK'
<1>1. \A b \in Budgets :
        /\ elapsed[b] \in Nat
        /\ elapsed[b] < Period[b]
        /\ Period[b] \in Nat \ {0}
        /\ elapsed'[b] = IF elapsed[b] + 1 = Period[b] THEN 0 ELSE elapsed[b] + 1
    BY Facts DEF Tick
<1>2. elapsed' \in [Budgets -> Nat] /\ \A b \in Budgets : elapsed'[b] < Period[b]
    BY <1>1 DEF Tick
<1>3. DOMAIN budgets' = DOMAIN budgets /\ DOMAIN budgets \subseteq Budgets
    BY DEF Tick, CCTypeOK
<1>4. \A b \in DOMAIN budgets :
        /\ budgets[b] \in BudgetStates
        /\ budgets[b].reset_in \in {0, UntilReset(b)}
        /\ budgets'[b] = [budgets[b] EXCEPT !.reset_in = IF @ = 0 THEN 0 ELSE @ - 1]
    BY DEF Tick, CCTypeOK
<1>5. \A b \in DOMAIN budgets :
        /\ budgets'[b] \in BudgetStates
        /\ budgets'[b].reset_in = IF budgets[b].reset_in = 0 THEN 0 ELSE budgets[b].reset_in - 1
    BY <1>4, BudgetFields
<1>6. budgets' \in [DOMAIN budgets' -> BudgetStates]
    BY <1>3, <1>5 DEF Tick
<1>7. \A b \in DOMAIN budgets' : budgets'[b].reset_in \in {0, UntilReset(b)'}
    <2>. SUFFICES ASSUME NEW b \in DOMAIN budgets, budgets'[b].reset_in # 0
                  PROVE  budgets'[b].reset_in = Period[b] - elapsed'[b]
        BY <1>3 DEF UntilReset
    <2>1. budgets[b].reset_in = Period[b] - elapsed[b] /\ budgets'[b].reset_in = budgets[b].reset_in - 1
        BY <1>4, <1>5 DEF UntilReset
    <2>2. elapsed'[b] = elapsed[b] + 1
        BY <1>1, <1>3, <2>1
    <2>. QED BY <1>1, <1>3, <2>1, <2>2
<1>8. UNCHANGED <<requests, bypassed>>
    BY DEF Tick
<1>. QED BY <1>2, <1>3, <1>6, <1>7, <1>8 DEF CCTypeOK

\* Every step keeps CCTypeOK.
LEMMA NextType ==
    ASSUME CCTypeOK, [Next]_ccVars
    PROVE  CCTypeOK'
<1>1. CASE \E b \in Budgets : CreateBudget(b) \/ GetBudget(b)
    BY <1>1, CreateBudgetType, GetBudgetType
<1>2. CASE \E r \in Requests :
            EnforceBudget(r) \/ RejectRequest(r) \/ RouteRequest(r) \/ Retry(r)
    BY <1>2, EnforceBudgetType, RejectRequestType, RouteRequestType, RetryType
<1>3. CASE \E r \in Requests : Complete(r) \/ Fail(r) \/ UpdateSpending(r) \/ RecordActualCost(r)
    BY <1>3, ProviderType, UpdateSpendingType
<1>4. CASE Tick
    BY <1>4, TickType
<1>5. CASE UNCHANGED ccVars
    BY <1>5 DEF ccVars, CCTypeOK, UntilReset
<1>. QED BY <1>1, <1>2, <1>3, <1>4, <1>5 DEF Next

-----------------------------------------------------------------------------
(* Each step keeps the hard budgets bounded (Exposure).                    *)

\* A budget stays bounded when its spending is within the limit, or when
\* neither its spending nor what is outstanding grows.
LEMMA ExposureKept ==
    ASSUME CCTypeOK, CCTypeOK', Exposure,
           \A b \in DOMAIN budgets' \cap Hard : b \notin bypassed' =>
                \/ budgets'[b].current_spend <= Limit[b]
                \/ /\ b \in DOMAIN budgets
                   /\ b \notin bypassed
                   /\ budgets'[b].current_spend <= budgets[b].current_spend
                   /\ Outstanding(b)' \subseteq Outstanding(b)
    PROVE  Exposure'
<1>. SUFFICES ASSUME NEW b \in DOMAIN budgets' \cap Hard, b \notin bypassed'
              PROVE  Bounded(b)'
    BY DEF Exposure
<1>1. /\ b \in Budgets
      /\ Limit[b] \in Nat
      /\ budgets'[b].current_spend \in Nat
    BY CostAssumption DEF CCTypeOK, BudgetStates
<1>2. /\ Outstanding(b) \in SUBSET Requests
      /\ Outstanding(b)' \in SUBSET Requests
    BY DEF Outstanding
<1>3. CASE budgets'[b].current_spend <= Limit[b]
    BY <1>1, <1>2, <1>3, WithinLimitIsBounded DEF Bounded, Worst
<1>4. CASE /\ b \in DOMAIN budgets
           /\ b \notin bypassed
           /\ budgets'[b].current_spend <= budgets[b].current_spend
           /\ Outstanding(b)' \subseteq Outstanding(b)
    <2>1. Bounded(b) /\ budgets[b].current_spend \in Nat
        BY <1>1, <1>4, Facts DEF Exposure
    <2>. QED BY <1>1, <1>2, <1>4, <2>1, LessOutstandingIsBounded DEF Bounded, Worst
<1>. QED BY <1>3, <1>4

\* A lazy reset empties a budget or leaves it as it is.
LEMMA RefreshedSpend ==
    ASSUME CCTypeOK, NEW touched, NEW b \in DOMAIN budgets, b \notin StillBypassed(touched)
    PROVE  \/ Refreshed(touched)[b].current_spend <= Limit[b]
           \/ /\ b \notin bypassed
              /\ Refreshed(touched)[b].current_spend <= budgets[b].current_spend
<1>1. /\ Limit[b] \in Nat
      /\ budgets[b].current_spend \in Nat
    BY Facts DEF CCTypeOK
<1>2. /\ Refreshed(touched)[b].current_spend \in {0, budgets[b].current_spend}
      /\ b \in bypassed => Refreshed(touched)[b].current_spend = 0
    BY RefreshedFacts
<1>. QED BY <1>1, <1>2

\* A budget that a checked request does not violate is within its limit, or
\* the request was free.
LEMMA CheckedFits ==
    ASSUME CCTypeOK, NEW k, NEW cost \in Nat, NEW b \in Applicable(k) \cap Hard,
           b \notin Violated(k, cost), b \notin FreePasses(k, cost)
    PROVE  Refreshed({b})[b].current_spend + cost <= Limit[b]
<1>1. b \in DOMAIN budgets /\ b \in Budgets
    BY DEF Applicable, CCTypeOK
<1>2. Limit[b] \in Nat /\ Refreshed({b})[b].current_spend \in Nat
    <2>1. Refreshed({b})[b] \in BudgetStates
        BY <1>1, RefreshedFacts
    <2>. QED BY <1>1, <2>1, Facts DEF BudgetStates
<1>3. ~(Remaining(b, Refreshed({b})[b].current_spend) - cost < 0)
    BY DEF Violated
<1>4. cost # 0
    BY DEF FreePasses
<1>. QED BY <1>2, <1>3, <1>4 DEF Remaining

\* Only the budgets that cover its key see a request that is let in.
LEMMA AdmissionOutstanding ==
    ASSUME NEW r \in Requests, NEW k, NEW new, NEW b,
           requests' = [requests EXCEPT ![r] = new],
           new.phase = "running", new.key = k, k \notin Covers[b],
           \A j \in new.spare : new.cost = 0 \/ j \notin Covers[b]
    PROVE  Outstanding(b)' \subseteq Outstanding(b)
    BY DEF Outstanding

LEMMA EnforceBudgetExposure ==
    ASSUME CCInv, NEW r \in Requests, EnforceBudget(r)
    PROVE  Exposure'
<1>. USE DEF CCInv
<1>1. PICK k \in Keys, m \in Models :
            /\ requests[r].phase = "idle"
            /\ Violated(k, Cost[m]) \cap Hard = {}
            /\ budgets' = [b \in DOMAIN budgets |->
                    IF b \in Violated(k, Cost[m])
                    THEN [Refreshed(Applicable(k))[b] EXCEPT !.warning_count = @ + 1]
                    ELSE Refreshed(Applicable(k))[b]]
            /\ requests' = [requests EXCEPT ![r] =
                    [phase |-> "running", key |-> k, cost |-> Cost[m], checked |-> TRUE,
                     spare |-> {}, risky |-> {}]]
            /\ bypassed' = StillBypassed(Applicable(k)) \cup FreePasses(k, Cost[m])
            /\ elapsed' = elapsed
    BY EnforceBudgetEffect
<1>2. CCTypeOK'
    BY EnforceBudgetType
<1>3. ASSUME NEW b \in DOMAIN budgets' \cap Hard, b \notin bypassed'
      PROVE  \/ budgets'[b].current_spend <= Limit[b]
             \/ /\ b \in DOMAIN budgets
                /\ b \notin bypassed
                /\ budgets'[b].current_spend <= budgets[b].current_spend
                /\ Outstanding(b)' \subseteq Outstanding(b)
    <2>1. b \in DOMAIN budgets /\ b \in Budgets
        BY <1>1, <1>3 DEF CCTypeOK
    <2>2. budgets'[b] = Refreshed(Applicable(k))[b]
        BY <1>1, <1>3, <2>1 DEF Violated
    <2>3. CASE k \in Covers[b]
        <3>1. b \in Applicable(k) \cap Hard
            BY <1>3, <2>1, <2>3 DEF Applicable
        <3>2. Cost[m] \in Nat
            BY CostAssumption
        <3>3. Refreshed({b})[b].current_spend + Cost[m] <= Limit[b]
            BY <1>1, <1>3, <3>1, <3>2, CheckedFits
        <3>4. Refreshed(Applicable(k))[b] = Refreshed({b})[b] /\ Refreshed({b})[b] \in BudgetStates
            BY <2>1, <3>1, RefreshedFacts
        <3>5. Refreshed({b})[b].current_spend \in Nat /\ Limit[b] \in Nat
            BY <2>1, <3>4, Facts DEF BudgetStates
        <3>6. budgets'[b].current_spend = Refreshed({b})[b].current_spend
            BY <2>2, <3>4
        <3>. QED BY <3>2, <3>3, <3>5, <3>6
    <2>4. CASE k \notin Covers[b]
        <3>1. Outstanding(b)' \subseteq Outstanding(b)
            <4>. DEFINE new == [phase |-> "running", key |-> k, cost |-> Cost[m], checked |-> TRUE,
                     spare |-> {}, risky |-> {}]
            <4>1. new.phase = "running" /\ new.key = k /\ new.spare = {}
                OBVIOUS
            <4>2. requests' = [requests EXCEPT ![r] = new]
                BY <1>1
            <4>. HIDE DEF new
            <4>. QED BY <2>4, <4>1, <4>2, AdmissionOutstanding
        <3>2. b \notin StillBypassed(Applicable(k))
            BY <1>1, <1>3
        <3>. QED BY <2>1, <2>2, <3>1, <3>2, RefreshedSpend
    <2>. QED BY <2>3, <2>4
<1>. QED BY <1>2, <1>3, ExposureKept

LEMMA RouteRequestExposure ==
    ASSUME CCInv, NEW r \in Requests, RouteRequest(r)
    PROVE  Exposure'
<1>. USE DEF CCInv
<1>1. PICK m \in Models, priced \in SUBSET Keys :
           \E k \in KeysWithinBudget(priced, Cost[m]) \cup (Keys \ priced) :
            /\ requests[r].phase = "idle"
            /\ requests' = [requests EXCEPT ![r] =
                    [phase |-> "running", key |-> k, cost |-> Cost[m], checked |-> k \in priced,
                     spare |-> KeysWithinBudget(priced, Cost[m]) \ {k},
                     risky |-> Keys \ (KeysWithinBudget(priced, Cost[m]) \cup {k})]]
            /\ bypassed' = StillBypassed(UNION {Applicable(j) : j \in priced}) \cup
                    (IF k \in priced THEN FreePasses(k, Cost[m]) ELSE Applicable(k) \cap Hard)
            /\ budgets' = Refreshed(UNION {Applicable(j) : j \in priced})
            /\ elapsed' = elapsed
    BY RouteRequestEffect
<1>. DEFINE touched == UNION {Applicable(j) : j \in priced}
<1>2. PICK k \in KeysWithinBudget(priced, Cost[m]) \cup (Keys \ priced) :
            /\ requests' = [requests EXCEPT ![r] =
                    [phase |-> "running", key |-> k, cost |-> Cost[m], checked |-> k \in priced,
                     spare |-> KeysWithinBudget(priced, Cost[m]) \ {k},
                     risky |-> Keys \ (KeysWithinBudget(priced, Cost[m]) \cup {k})]]
            /\ bypassed' = StillBypassed(touched) \cup
                    (IF k \in priced THEN FreePasses(k, Cost[m]) ELSE Applicable(k) \cap Hard)
            /\ budgets' = Refreshed(touched)
    BY <1>1
<1>3. CCTypeOK'
    BY RouteRequestType
<1>. DEFINE within == KeysWithinBudget(priced, Cost[m])
<1>4. \A j \in within : /\ j \in priced
                        /\ Applicable(j) \subseteq touched
                        /\ Violated(j, Cost[m]) \cap Hard = {}
    BY DEF KeysWithinBudget
<1>5. DOMAIN budgets' = DOMAIN budgets /\ Cost[m] \in Nat
    BY <1>2, CostAssumption DEF Refreshed
<1>. HIDE DEF touched
<1>6. ASSUME NEW b \in DOMAIN budgets \cap Hard, NEW j \in within, j \in Covers[b],
             b \notin FreePasses(j, Cost[m])
      PROVE  budgets'[b].current_spend <= Limit[b]
    <2>1. b \in Applicable(j) \cap Hard /\ b \in Budgets
        BY <1>6 DEF Applicable, CCTypeOK
    <2>2. Refreshed({b})[b].current_spend + Cost[m] <= Limit[b]
        BY <1>4, <1>5, <1>6, <2>1, CheckedFits
    <2>3. Refreshed(touched)[b] = Refreshed({b})[b] /\ Refreshed({b})[b] \in BudgetStates
        BY <1>4, <1>6, <2>1, RefreshedFacts
    <2>4. Refreshed({b})[b].current_spend \in Nat /\ Limit[b] \in Nat
        BY <2>1, <2>3, Facts DEF BudgetStates
    <2>5. budgets'[b].current_spend = Refreshed({b})[b].current_spend
        BY <1>2, <2>3
    <2>. QED BY <1>5, <2>2, <2>4, <2>5
<1>7. k \in within \/ k \notin priced
    BY <1>2
<1>8. requests' = [requests EXCEPT ![r] =
        [phase |-> "running", key |-> k, cost |-> Cost[m], checked |-> k \in priced,
         spare |-> within \ {k}, risky |-> Keys \ (within \cup {k})]]
    BY <1>2
<1>. HIDE DEF within
<1>9. ASSUME NEW b \in DOMAIN budgets' \cap Hard, b \notin bypassed'
      PROVE  \/ budgets'[b].current_spend <= Limit[b]
             \/ /\ b \in DOMAIN budgets
                /\ b \notin bypassed
                /\ budgets'[b].current_spend <= budgets[b].current_spend
                /\ Outstanding(b)' \subseteq Outstanding(b)
    <2>1. b \in DOMAIN budgets
        BY <1>5, <1>9
    <2>2. CASE k \in Covers[b]
        <3>1. b \in Applicable(k) \cap Hard
            BY <1>9, <2>1, <2>2 DEF Applicable
        <3>2. k \in within /\ b \notin FreePasses(k, Cost[m])
            BY <1>2, <1>4, <1>7, <1>9, <3>1
        <3>. QED BY <1>6, <1>9, <2>1, <2>2, <3>2
    <2>3. CASE \E j \in within : Cost[m] # 0 /\ j \in Covers[b]
        <3>1. PICK j \in within : Cost[m] # 0 /\ j \in Covers[b]
            BY <2>3
        <3>2. b \notin FreePasses(j, Cost[m])
            BY <3>1 DEF FreePasses
        <3>. QED BY <1>6, <1>9, <2>1, <3>1, <3>2
    <2>4. CASE k \notin Covers[b] /\ \A j \in within : Cost[m] = 0 \/ j \notin Covers[b]
        <3>1. Outstanding(b)' \subseteq Outstanding(b)
            <4>. DEFINE new == [phase |-> "running", key |-> k, cost |-> Cost[m], checked |-> k \in priced,
                               spare |-> within \ {k}, risky |-> Keys \ (within \cup {k})]
            <4>1. new.phase = "running" /\ new.key = k /\ new.spare \subseteq within /\ new.cost = Cost[m]
                OBVIOUS
            <4>2. requests' = [requests EXCEPT ![r] = new]
                BY <1>8
            <4>. HIDE DEF new
            <4>. QED BY <2>4, <4>1, <4>2, AdmissionOutstanding
        <3>2. b \notin StillBypassed(touched)
            BY <1>2, <1>9
        <3>. QED BY <1>2, <2>1, <3>1, <3>2, RefreshedSpend
    <2>. QED BY <2>2, <2>3, <2>4
<1>. QED BY <1>3, <1>9, ExposureKept

\* Calls that let no request in and charge nothing: the budgets they touch are
\* refreshed, and nothing new is outstanding.
LEMMA TouchExposure ==
    ASSUME CCInv, CCTypeOK', NEW touched,
           budgets' = Refreshed(touched),
           bypassed' = StillBypassed(touched),
           requests' = requests
    PROVE  Exposure'
<1>. USE DEF CCInv
<1>1. DOMAIN budgets' = DOMAIN budgets
    BY DEF Refreshed
<1>2. \A b : Outstanding(b)' = Outstanding(b)
    BY DEF Outstanding
<1>. QED BY <1>1, <1>2, RefreshedSpend, ExposureKept

LEMMA CreateBudgetExposure ==
    ASSUME CCInv, NEW c \in Budgets, CreateBudget(c)
    PROVE  Exposure'
<1>. USE DEF CCInv
<1>1. CCTypeOK'
    BY CreateBudgetType
<1>2. ASSUME NEW b \in DOMAIN budgets' \cap Hard, b \notin bypassed'
      PROVE  \/ budgets'[b].current_spend <= Limit[b]
             \/ /\ b \in DOMAIN budgets
                /\ b \notin bypassed
                /\ budgets'[b].current_spend <= budgets[b].current_spend
                /\ Outstanding(b)' \subseteq Outstanding(b)
    <2>1. /\ b \in Budgets
          /\ Limit[b] \in Nat
          /\ b \notin bypassed
        BY <1>2, CostAssumption DEF CreateBudget
    <2>2. CASE b = c
        <3>1. budgets'[b].current_spend = 0
            BY <1>2, <2>2 DEF CreateBudget
        <3>. QED BY <2>1, <3>1
    <2>3. CASE b # c
        <3>1. b \in DOMAIN budgets /\ budgets'[b] = budgets[b]
            BY <1>2, <2>3 DEF CreateBudget
        <3>2. budgets[b].current_spend \in Nat
            BY <2>1, <3>1, Facts
        <3>3. Outstanding(b)' = Outstanding(b)
            BY DEF CreateBudget, Outstanding
        <3>. QED BY <2>1, <3>1, <3>2, <3>3
    <2>. QED BY <2>2, <2>3
<1>. QED BY <1>1, <1>2, ExposureKept

\* An answer turns "running" into debts to the same budgets; a failure and a
\* finished request leave nothing outstanding.
\* A retry is outstanding already, unless it goes to a key that was filtered.
LEMMA RetryExposure ==
    ASSUME CCInv, NEW r \in Requests, Retry(r)
    PROVE  Exposure'
<1>. USE DEF CCInv
<1>1. PICK k \in Keys :
            /\ k \in requests[r].spare \cup requests[r].risky
            /\ requests[r].phase = "running"
            /\ requests' = [requests EXCEPT ![r] =
                    [phase |-> "running", key |-> k, cost |-> requests[r].cost, checked |-> FALSE,
                     spare |-> requests[r].spare \ {k}, risky |-> requests[r].risky \ {k}]]
            /\ bypassed' = bypassed \cup
                    (IF k \in requests[r].spare THEN FreePasses(k, requests[r].cost)
                     ELSE Applicable(k) \cap Hard)
            /\ UNCHANGED <<elapsed, budgets>>
    BY RetryEffect
<1>2. CCTypeOK'
    BY RetryType
<1>3. ASSUME NEW b \in DOMAIN budgets' \cap Hard, b \notin bypassed'
      PROVE  /\ b \in DOMAIN budgets
             /\ b \notin bypassed
             /\ budgets'[b].current_spend <= budgets[b].current_spend
             /\ Outstanding(b)' \subseteq Outstanding(b)
    <2>1. b \in DOMAIN budgets /\ b \notin bypassed /\ budgets'[b] = budgets[b]
        BY <1>1, <1>3
    <2>2. budgets[b].current_spend \in Nat
        BY <2>1, Facts DEF CCTypeOK
    <2>3. k \in Covers[b] => k \in requests[r].spare /\ requests[r].cost # 0
        BY <1>1, <1>3, <2>1 DEF Applicable, FreePasses
    <2>4. r \in Outstanding(b)' => r \in Outstanding(b)
        <3>. DEFINE new == [phase |-> "running", key |-> k, cost |-> requests[r].cost, checked |-> FALSE,
                            spare |-> requests[r].spare \ {k}, risky |-> requests[r].risky \ {k}]
        <3>1. /\ new.phase = "running"
              /\ new.key = k
              /\ new.cost = requests[r].cost
              /\ new.spare \subseteq requests[r].spare
            OBVIOUS
        <3>2. requests'[r] = new
            BY <1>1 DEF CCTypeOK
        <3>. HIDE DEF new
        <3>. QED BY <1>1, <2>3, <3>1, <3>2 DEF Outstanding
    <2>5. \A q \in Requests \ {r} : q \in Outstanding(b)' => q \in Outstanding(b)
        <3>1. \A q \in Requests \ {r} : requests'[q] = requests[q]
            BY <1>1 DEF CCTypeOK
        <3>. QED BY <3>1 DEF Outstanding
    <2>6. Outstanding(b)' \subseteq Outstanding(b)
        BY <2>4, <2>5 DEF Outstanding
    <2>. QED BY <2>1, <2>2, <2>6
<1>. QED BY <1>2, <1>3, ExposureKept

LEMMA ProviderExposure ==
    ASSUME CCInv, NEW r \in Requests, Complete(r) \/ Fail(r) \/ RecordActualCost(r)
    PROVE  Exposure'
<1>. USE DEF CCInv
<1>1. CCTypeOK'
    BY ProviderType
<1>2. UNCHANGED <<budgets, bypassed>>
    BY DEF Complete, Fail, RecordActualCost
<1>3. \A b \in DOMAIN budgets : Outstanding(b)' \subseteq Outstanding(b)
    <2>1. CASE Complete(r)
        <3>1. PICK amount \in Amounts :
                requests' = [requests EXCEPT ![r] =
                    [phase |-> "charging", owed |-> Applicable(requests[r].key), amount |-> amount]]
            BY <2>1 DEF Complete
        <3>2. /\ requests[r].phase = "running"
              /\ requests'[r].phase = "charging"
              /\ requests'[r].owed = Applicable(requests[r].key)
              /\ \A q \in Requests : q # r => requests'[q] = requests[q]
            BY <2>1, <3>1 DEF Complete, CCTypeOK
        <3>. QED BY <3>2 DEF Outstanding, Applicable
    <2>2. CASE Fail(r) \/ RecordActualCost(r)
        <3>1. /\ requests'[r].phase = "idle"
              /\ \A q \in Requests : q # r => requests'[q] = requests[q]
            BY <2>2 DEF Fail, RecordActualCost, CCTypeOK, Idle
        <3>. QED BY <3>1 DEF Outstanding
    <2>. QED BY <2>1, <2>2
<1>4. \A b \in DOMAIN budgets : budgets[b].current_spend \in Nat
    BY Facts DEF CCTypeOK
<1>. QED BY <1>1, <1>2, <1>3, <1>4, ExposureKept

\* A charge moves its amount from what is outstanding to what is spent.
LEMMA UpdateSpendingExposure ==
    ASSUME CCInv, NEW r \in Requests, UpdateSpending(r)
    PROVE  Exposure'
<1>. USE DEF CCInv
<1>1. PICK c \in DOMAIN budgets, amount \in Amounts :
            /\ c \in requests[r].owed
            /\ requests[r].phase = "charging"
            /\ budgets' = [Refreshed({c}) EXCEPT ![c].current_spend = @ + amount]
            /\ bypassed' = StillBypassed({c})
            /\ requests' = [requests EXCEPT ![r] =
                    [phase |-> "charging", owed |-> requests[r].owed \ {c}, amount |-> amount]]
            /\ UNCHANGED <<elapsed>>
    BY UpdateSpendingEffect
<1>2. CCTypeOK'
    BY UpdateSpendingType
<1>3. /\ requests'[r].phase = "charging"
      /\ requests'[r].owed = requests[r].owed \ {c}
      /\ \A q \in Requests : q # r => requests'[q] = requests[q]
    BY <1>1 DEF CCTypeOK
<1>4. \A b \in DOMAIN budgets : b # c =>
        budgets'[b] = Refreshed({c})[b] /\ Outstanding(b)' = Outstanding(b)
    <2>1. \A b \in DOMAIN budgets : b # c => budgets'[b] = Refreshed({c})[b]
        BY <1>1 DEF Refreshed
    <2>2. \A b : b # c => Outstanding(b)' = Outstanding(b)
        BY <1>1, <1>3 DEF Outstanding
    <2>. QED BY <2>1, <2>2
<1>5. r \in Outstanding(c) /\ Outstanding(c)' = Outstanding(c) \ {r}
    BY <1>1, <1>3 DEF Outstanding
<1>6. /\ c \in Budgets
      /\ amount \in 0..MaxActual
      /\ Limit[c] \in Nat
      /\ Outstanding(c) \in SUBSET Requests
    BY CostAssumption, OutstandingAreRequests DEF CCTypeOK
<1>7. /\ budgets'[c].current_spend = Refreshed({c})[c].current_spend + amount
      /\ Refreshed({c})[c].current_spend \in Nat
      /\ Refreshed({c})[c].current_spend \in {0, budgets[c].current_spend}
    <2>1. Refreshed({c})[c] \in BudgetStates
        BY RefreshedFacts
    <2>2. c \in DOMAIN Refreshed({c})
        BY DEF Refreshed
    <2>3. budgets'[c] = [Refreshed({c})[c] EXCEPT !.current_spend = @ + amount]
        BY <1>1, <2>2
    <2>. QED BY <2>1, <2>3, RefreshedFacts DEF BudgetStates
<1>8. c \in Hard /\ c \notin bypassed' =>
        Refreshed({c})[c].current_spend + Worst(Cardinality(Outstanding(c)))
            <= Limit[c] + Worst(Cardinality(Requests))
    <2>. SUFFICES ASSUME c \in Hard, c \notin bypassed'
                  PROVE  Refreshed({c})[c].current_spend + Worst(Cardinality(Outstanding(c)))
                            <= Limit[c] + Worst(Cardinality(Requests))
        OBVIOUS
    <2>1. CASE Refreshed({c})[c].current_spend = 0
        BY <1>6, <2>1, WithinLimitIsBounded
    <2>2. CASE Refreshed({c})[c].current_spend = budgets[c].current_spend /\ c \notin bypassed
        BY <2>2 DEF Exposure, Bounded
    <2>. QED BY <1>1, <1>7, <2>1, <2>2, RefreshedFacts
<1>9. ASSUME NEW b \in DOMAIN budgets' \cap Hard, b \notin bypassed'
      PROVE  Bounded(b)'
    <2>1. b \in DOMAIN budgets /\ b \in Budgets
        BY <1>1, <1>9 DEF Refreshed, CCTypeOK
    <2>2. CASE b = c
        <3>1. budgets'[c].current_spend + Worst(Cardinality(Outstanding(c) \ {r}))
                <= Limit[c] + Worst(Cardinality(Requests))
            BY <1>5, <1>6, <1>7, <1>8, <1>9, <2>2, ChargedIsBounded
        <3>. QED BY <1>5, <2>2, <3>1 DEF Bounded, Worst
    <2>3. CASE b # c
        <3>1. Limit[b] \in Nat /\ Outstanding(b) \in SUBSET Requests /\ budgets[b].current_spend \in Nat
            BY <2>1, Facts, OutstandingAreRequests
        <3>2. Refreshed({c})[b].current_spend \in Nat
            <4>1. Refreshed({c})[b] \in BudgetStates
                BY <2>1, RefreshedFacts
            <4>. QED BY <4>1 DEF BudgetStates
        <3>3. b \notin StillBypassed({c})
            BY <1>1, <1>9
        <3>4. Refreshed({c})[b].current_spend + Worst(Cardinality(Outstanding(b)))
                <= Limit[b] + Worst(Cardinality(Requests))
            <4>1. CASE Refreshed({c})[b].current_spend <= Limit[b]
                BY <3>1, <3>2, <4>1, WithinLimitIsBounded
            <4>2. CASE b \notin bypassed /\ Refreshed({c})[b].current_spend <= budgets[b].current_spend
                <5>1. Bounded(b)
                    BY <1>9, <2>1, <4>2 DEF Exposure
                <5>. QED BY <3>1, <3>2, <4>2, <5>1, LessOutstandingIsBounded DEF Bounded
            <4>. QED BY <2>1, <3>3, <4>1, <4>2, RefreshedSpend
        <3>. QED BY <1>4, <2>1, <2>3, <3>4 DEF Bounded, Worst
    <2>. QED BY <2>2, <2>3
<1>. QED BY <1>9 DEF Exposure

LEMMA TickExposure ==
    ASSUME CCInv, Tick
    PROVE  Exposure'
<1>. USE DEF CCInv
<1>1. CCTypeOK'
    BY TickType
<1>2. \A b \in DOMAIN budgets' :
        /\ b \in DOMAIN budgets
        /\ budgets'[b].current_spend = budgets[b].current_spend
        /\ budgets[b].current_spend \in Nat
    BY BudgetFields DEF Tick, CCTypeOK, BudgetStates
<1>3. \A b : Outstanding(b)' = Outstanding(b)
    BY DEF Tick, Outstanding
<1>4. bypassed' = bypassed
    BY DEF Tick
<1>. QED BY <1>1, <1>2, <1>3, <1>4, ExposureKept

\* Every step keeps CCInv.
LEMMA NextInv ==
    ASSUME CCInv, [Next]_ccVars
    PROVE  CCInv'
<1>1. CCTypeOK'
    BY NextType DEF CCInv
<1>. SUFFICES Exposure'
    BY <1>1 DEF CCInv
<1>2. CASE \E b \in Budgets : CreateBudget(b)
    BY <1>2, CreateBudgetExposure
<1>3. CASE \E b \in Budgets : GetBudget(b)
    <2>1. PICK b \in Budgets : GetBudget(b)
        BY <1>3
    <2>2. budgets' = Refreshed({b}) /\ bypassed' = StillBypassed({b}) /\ requests' = requests
        BY <2>1 DEF GetBudget
    <2>. QED BY <1>1, <2>2, TouchExposure
<1>4. CASE \E r \in Requests : RejectRequest(r)
    <2>1. PICK k \in Keys :
            /\ budgets' = Refreshed(Applicable(k))
            /\ bypassed' = StillBypassed(Applicable(k))
            /\ requests' = requests
        BY <1>4 DEF RejectRequest
    <2>. DEFINE touched == Applicable(k)
    <2>2. budgets' = Refreshed(touched) /\ bypassed' = StillBypassed(touched) /\ requests' = requests
        BY <2>1
    <2>. HIDE DEF touched
    <2>. QED BY <1>1, <2>2, TouchExposure
<1>5. CASE \E r \in Requests : EnforceBudget(r) \/ RouteRequest(r) \/ Retry(r)
    BY <1>5, EnforceBudgetExposure, RouteRequestExposure, RetryExposure
<1>6. CASE \E r \in Requests : Complete(r) \/ Fail(r) \/ UpdateSpending(r) \/ RecordActualCost(r)
    BY <1>6, ProviderExposure, UpdateSpendingExposure
<1>7. CASE Tick
    BY <1>7, TickExposure
<1>8. CASE UNCHANGED ccVars
    BY <1>8 DEF CCInv, Exposure, Bounded, Outstanding, ccVars
<1>. QED BY <1>2, <1>3, <1>4, <1>5, <1>6, <1>7, <1>8 DEF Next

\* Spending is bounded when spending and outstanding costs are.
LEMMA InvBounds == CCInv => OverrunBounded
<1>. SUFFICES ASSUME CCInv, NEW b \in DOMAIN budgets \cap Hard, b \notin bypassed
              PROVE  budgets[b].current_spend <= Limit[b] + Cardinality(Requests) * MaxActual
    BY DEF OverrunBounded
<1>1. budgets[b].current_spend + Worst(Cardinality(Outstanding(b)))
        <= Limit[b] + Worst(Cardinality(Requests))
    BY DEF CCInv, Exposure, Bounded
<1>2. budgets[b].current_spend \in Nat /\ Limit[b] \in Nat
    BY Facts DEF CCInv, CCTypeOK
<1>3. Worst(Cardinality(Outstanding(b))) \in Nat /\ Worst(Cardinality(Requests)) \in Nat
    BY OutstandingAreRequests, OutstandingCard, WorstFacts
<1>4. budgets[b].current_spend <= Limit[b] + Worst(Cardinality(Requests))
    BY <1>1, <1>2, <1>3
<1>. QED BY <1>4 DEF Worst

\* Budgets stay in range and their resets on the calendar, whatever calls are
\* made in whatever order (create_budget, _check_and_reset_budget).
THEOREM CostTypes == Spec => []CCTypeOK
<1>1. CCInv => CCTypeOK
    BY DEF CCInv
<1>. QED BY <1>1, InitInv, NextInv, PTL DEF Spec

\* For any number of concurrent requests, a hard budget is overspent by at
\* most what those requests cost (check_budget and update_spending are apart).
THEOREM OverrunIsBounded == Spec => []OverrunBounded
    BY InitInv, NextInv, InvBounds, PTL DEF Spec

-----------------------------------------------------------------------------
(* The lazy controller implements the ledger (RefinesLedger).              *)

\* Once a budget is refreshed it shows what was spent in this period.
LEMMA RefreshedShowsSpent ==
    ASSUME CCTypeOK, NEW b \in DOMAIN budgets
    PROVE  /\ Refreshed({b})[b].current_spend = Spent(b)
           /\ Refreshed({b})[b].reset_in # 0
           /\ Spent(b) \in Nat
<1>1. b \in Budgets
    BY DEF CCTypeOK
<1>2. /\ UntilReset(b) \in Nat \ {0}
      /\ budgets[b].current_spend \in Nat
    BY <1>1, Facts
<1>. QED BY <1>2 DEF Refreshed, Due, Spent

\* Calls that refresh budgets, and warn, leave what was spent as it is.
LEMMA SpentKept ==
    ASSUME CCTypeOK, NEW touched,
           DOMAIN budgets' = DOMAIN budgets,
           \A b \in DOMAIN budgets :
                /\ budgets'[b].current_spend = Refreshed(touched)[b].current_spend
                /\ budgets'[b].reset_in = Refreshed(touched)[b].reset_in
    PROVE  [b \in Budgets |-> Spent(b)]' = [b \in Budgets |-> Spent(b)]
<1>1. ASSUME NEW b \in DOMAIN budgets, b \in touched
      PROVE  Spent(b)' = Spent(b)
    <2>1. Refreshed(touched)[b] = Refreshed({b})[b]
        BY <1>1, RefreshedFacts
    <2>. QED BY <1>1, <2>1, RefreshedShowsSpent DEF Spent
<1>2. ASSUME NEW b \in DOMAIN budgets, b \notin touched
      PROVE  Spent(b)' = Spent(b)
    BY <1>2 DEF Refreshed, Spent
<1>3. ASSUME NEW b \in Budgets, b \notin DOMAIN budgets
      PROVE  Spent(b)' = Spent(b)
    BY <1>3 DEF Spent
<1>. QED BY <1>1, <1>2, <1>3

\* A checked request fits what was spent in this period.
LEMMA CheckedFitsLedger ==
    ASSUME CCTypeOK, NEW k \in Keys, NEW m \in Models, Violated(k, Cost[m]) \cap Hard = {}
    PROVE  L!Fits(k, Cost[m])
<1>. SUFFICES ASSUME NEW b \in DOMAIN budgets \cap Hard, k \in Covers[b], Cost[m] # 0
              PROVE  [c \in Budgets |-> Spent(c)][b] + Cost[m] <= Limit[b]
    BY DEF L!Fits
<1>1. b \in Budgets
    BY DEF CCTypeOK
<1>2. b \in Applicable(k) \cap Hard /\ b \notin FreePasses(k, Cost[m])
    BY DEF Applicable, FreePasses
<1>3. Refreshed({b})[b].current_spend + Cost[m] <= Limit[b]
    BY <1>2, CheckedFits, CostAssumption
<1>. QED BY <1>1, <1>3, RefreshedShowsSpent

LEMMA InitLedger == Init => L!LedgerInit
    BY DEF Init, L!LedgerInit, L!NotRunning, Spent, Ticket, OwedBy, Idle

\* Only the entry of one request changes.
LEMMA TicketsAfter ==
    ASSUME CCTypeOK, NEW r \in Requests, NEW new, requests' = [requests EXCEPT ![r] = new]
    PROVE  /\ [q \in Requests |-> Ticket(q)]' = [[q \in Requests |-> Ticket(q)] EXCEPT ![r] =
                IF new.phase = "idle" THEN [key |-> "no"]
                ELSE IF new.phase = "charging" THEN [key |-> "answered"]
                ELSE IF new.checked THEN [key |-> new.key, cost |-> new.cost]
                ELSE [key |-> "unchecked"]]
           /\ [q \in Requests |-> OwedBy(q)]' = [[q \in Requests |-> OwedBy(q)] EXCEPT ![r] =
                IF new.phase = "charging" THEN new.owed ELSE {}]
<1>1. requests'[r] = new /\ \A q \in Requests \ {r} : requests'[q] = requests[q]
    BY DEF CCTypeOK
<1>2. \A q \in Requests \ {r} : Ticket(q)' = Ticket(q) /\ OwedBy(q)' = OwedBy(q)
    BY <1>1 DEF Ticket, OwedBy
<1>3. Ticket(r)' =
        IF new.phase = "idle" THEN [key |-> "no"]
        ELSE IF new.phase = "charging" THEN [key |-> "answered"]
        ELSE IF new.checked THEN [key |-> new.key, cost |-> new.cost]
        ELSE [key |-> "unchecked"]
    BY <1>1 DEF Ticket
<1>4. OwedBy(r)' = IF new.phase = "charging" THEN new.owed ELSE {}
    BY <1>1 DEF OwedBy
<1>. QED BY <1>2, <1>3, <1>4

\* A request that is let in changes its ticket and nothing else in the ledger.
LEMMA AdmissionLedger ==
    ASSUME CCTypeOK, NEW r \in Requests, NEW k, NEW cost, NEW checked \in BOOLEAN,
           NEW spare, NEW risky, NEW touched,
           requests[r].phase = "idle",
           requests' = [requests EXCEPT ![r] =
                [phase |-> "running", key |-> k, cost |-> cost, checked |-> checked,
                 spare |-> spare, risky |-> risky]],
           elapsed' = elapsed,
           DOMAIN budgets' = DOMAIN budgets,
           \A b \in DOMAIN budgets :
                /\ budgets'[b].current_spend = Refreshed(touched)[b].current_spend
                /\ budgets'[b].reset_in = Refreshed(touched)[b].reset_in
    PROVE  L!Admit(r, IF checked THEN [key |-> k, cost |-> cost] ELSE [key |-> "unchecked"])
<1>. DEFINE new == [phase |-> "running", key |-> k, cost |-> cost, checked |-> checked,
                 spare |-> spare, risky |-> risky]
<1>1. /\ new.phase = "running"
      /\ new.checked = checked
      /\ checked => new.key = k /\ new.cost = cost
    OBVIOUS
<1>2. requests' = [requests EXCEPT ![r] = new]
    OBVIOUS
<1>. HIDE DEF new
<1>3. /\ [q \in Requests |-> Ticket(q)]' = [[q \in Requests |-> Ticket(q)] EXCEPT ![r] =
            IF checked THEN [key |-> k, cost |-> cost] ELSE [key |-> "unchecked"]]
      /\ [q \in Requests |-> OwedBy(q)]' = [[q \in Requests |-> OwedBy(q)] EXCEPT ![r] = {}]
    BY <1>1, <1>2, TicketsAfter
<1>4. [q \in Requests |-> Ticket(q)][r] = [key |-> "no"] /\ OwedBy(r) = {}
    BY DEF Ticket, OwedBy
<1>5. [q \in Requests |-> OwedBy(q)]' = [q \in Requests |-> OwedBy(q)]
    BY <1>3, <1>4
<1>6. [b \in Budgets |-> Spent(b)]' = [b \in Budgets |-> Spent(b)]
    BY SpentKept
<1>. QED BY <1>3, <1>4, <1>5, <1>6 DEF L!Admit, L!NotRunning

LEMMA CreateBudgetLedger ==
    ASSUME CCTypeOK, NEW b \in Budgets, CreateBudget(b)
    PROVE  L!Open(b)
<1>1. DOMAIN budgets' = DOMAIN budgets \cup {b} /\ b \notin DOMAIN budgets
    BY DEF CreateBudget
<1>2. UNCHANGED <<elapsed, requests>>
    BY DEF CreateBudget
<1>3. \A c \in Budgets : Spent(c)' = Spent(c)
    BY <1>1 DEF Spent, CreateBudget
<1>. QED BY <1>1, <1>2, <1>3 DEF L!Open, Ticket, OwedBy

\* A call that lets nothing in and charges nothing changes nothing in the ledger.
LEMMA TouchLedger ==
    ASSUME CCTypeOK, NEW touched,
           budgets' = Refreshed(touched), requests' = requests, elapsed' = elapsed
    PROVE  UNCHANGED L!ledgerVars
<1>1. DOMAIN budgets' = DOMAIN budgets
    BY DEF Refreshed
<1>2. [b \in Budgets |-> Spent(b)]' = [b \in Budgets |-> Spent(b)]
    BY <1>1, SpentKept
<1>. QED BY <1>1, <1>2 DEF L!ledgerVars, Ticket, OwedBy

LEMMA EnforceBudgetLedger ==
    ASSUME CCTypeOK, NEW r \in Requests, EnforceBudget(r)
    PROVE  \E k \in Keys, m \in Models : L!AdmitChecked(r, k, m)
<1>1. PICK k \in Keys, m \in Models :
            /\ requests[r].phase = "idle"
            /\ Violated(k, Cost[m]) \cap Hard = {}
            /\ budgets' = [b \in DOMAIN budgets |->
                    IF b \in Violated(k, Cost[m])
                    THEN [Refreshed(Applicable(k))[b] EXCEPT !.warning_count = @ + 1]
                    ELSE Refreshed(Applicable(k))[b]]
            /\ requests' = [requests EXCEPT ![r] =
                    [phase |-> "running", key |-> k, cost |-> Cost[m], checked |-> TRUE,
                     spare |-> {}, risky |-> {}]]
            /\ bypassed' = StillBypassed(Applicable(k)) \cup FreePasses(k, Cost[m])
            /\ elapsed' = elapsed
    BY EnforceBudgetEffect
<1>. DEFINE touched == Applicable(k)
<1>2. /\ DOMAIN budgets' = DOMAIN budgets
      /\ \A b \in DOMAIN budgets : budgets'[b] =
            IF b \in Violated(k, Cost[m]) THEN [Refreshed(touched)[b] EXCEPT !.warning_count = @ + 1]
            ELSE Refreshed(touched)[b]
    BY <1>1
<1>. HIDE DEF touched
<1>3. \A b \in DOMAIN budgets :
        /\ budgets'[b].current_spend = Refreshed(touched)[b].current_spend
        /\ budgets'[b].reset_in = Refreshed(touched)[b].reset_in
    <2>1. \A b \in DOMAIN budgets : Refreshed(touched)[b] \in BudgetStates
        BY RefreshedFacts
    <2>. QED BY <1>2, <2>1, BudgetFields
<1>. DEFINE checked == TRUE
            cost == Cost[m]
            spare == {}
            risky == {}
<1>4. /\ checked \in BOOLEAN
      /\ requests[r].phase = "idle"
      /\ elapsed' = elapsed
      /\ DOMAIN budgets' = DOMAIN budgets
      /\ requests' = [requests EXCEPT ![r] =
            [phase |-> "running", key |-> k, cost |-> cost, checked |-> checked,
                 spare |-> spare, risky |-> risky]]
    BY <1>1, <1>2
<1>. HIDE DEF checked, cost, spare, risky
<1>5. L!Admit(r, IF checked THEN [key |-> k, cost |-> cost] ELSE [key |-> "unchecked"])
    BY <1>3, <1>4, AdmissionLedger
<1>6. L!Fits(k, Cost[m])
    BY <1>1, CheckedFitsLedger
<1>. QED BY <1>5, <1>6 DEF L!AdmitChecked, checked, cost

LEMMA RouteRequestLedger ==
    ASSUME CCTypeOK, NEW r \in Requests, RouteRequest(r)
    PROVE  \/ \E k \in Keys, m \in Models : L!AdmitChecked(r, k, m)
           \/ L!Admit(r, L!Unchecked)
<1>1. PICK m \in Models, priced \in SUBSET Keys :
           \E k \in KeysWithinBudget(priced, Cost[m]) \cup (Keys \ priced) :
            /\ requests[r].phase = "idle"
            /\ requests' = [requests EXCEPT ![r] =
                    [phase |-> "running", key |-> k, cost |-> Cost[m], checked |-> k \in priced,
                     spare |-> KeysWithinBudget(priced, Cost[m]) \ {k},
                     risky |-> Keys \ (KeysWithinBudget(priced, Cost[m]) \cup {k})]]
            /\ bypassed' = StillBypassed(UNION {Applicable(j) : j \in priced}) \cup
                    (IF k \in priced THEN FreePasses(k, Cost[m]) ELSE Applicable(k) \cap Hard)
            /\ budgets' = Refreshed(UNION {Applicable(j) : j \in priced})
            /\ elapsed' = elapsed
    BY RouteRequestEffect
<1>. DEFINE touched == UNION {Applicable(j) : j \in priced}
<1>2. PICK k \in KeysWithinBudget(priced, Cost[m]) \cup (Keys \ priced) :
            /\ requests[r].phase = "idle"
            /\ requests' = [requests EXCEPT ![r] =
                    [phase |-> "running", key |-> k, cost |-> Cost[m], checked |-> k \in priced,
                     spare |-> KeysWithinBudget(priced, Cost[m]) \ {k},
                     risky |-> Keys \ (KeysWithinBudget(priced, Cost[m]) \cup {k})]]
            /\ budgets' = Refreshed(touched)
            /\ elapsed' = elapsed
    BY <1>1
<1>. HIDE DEF touched
<1>. DEFINE checked == k \in priced
            cost == Cost[m]
            spare == KeysWithinBudget(priced, Cost[m]) \ {k}
            risky == Keys \ (KeysWithinBudget(priced, Cost[m]) \cup {k})
<1>3. requests' = [requests EXCEPT ![r] =
        [phase |-> "running", key |-> k, cost |-> cost, checked |-> checked,
                 spare |-> spare, risky |-> risky]]
    BY <1>2
<1>4. checked \in BOOLEAN /\ (checked => cost = Cost[m] /\ Violated(k, Cost[m]) \cap Hard = {})
    BY <1>2 DEF KeysWithinBudget
<1>5. k \in Keys
    BY <1>2 DEF KeysWithinBudget
<1>. HIDE DEF checked, cost, spare, risky
<1>6. DOMAIN budgets' = DOMAIN budgets
    BY <1>2 DEF Refreshed
<1>7. L!Admit(r, IF checked THEN [key |-> k, cost |-> cost] ELSE [key |-> "unchecked"])
    BY <1>2, <1>3, <1>4, <1>6, AdmissionLedger
<1>8. CASE checked
    <2>. DEFINE admitted == [key |-> k, cost |-> Cost[m]]
    <2>0. (IF checked THEN [key |-> k, cost |-> cost] ELSE [key |-> "unchecked"]) = admitted
        BY <1>4, <1>8
    <2>. HIDE DEF admitted
    <2>1. L!Admit(r, admitted)
        BY <1>7, <2>0
    <2>2. L!Fits(k, Cost[m])
        BY <1>4, <1>5, <1>8, CheckedFitsLedger
    <2>. QED BY <1>5, <2>1, <2>2 DEF L!AdmitChecked, admitted
<1>9. CASE ~checked
    BY <1>7, <1>9 DEF L!Unchecked
<1>. QED BY <1>8, <1>9

\* A request under way is neither without a ticket nor answered.
LEMMA RunningTicket ==
    ASSUME CCTypeOK, NEW r \in Requests, requests[r].phase = "running"
    PROVE  Ticket(r) \notin {[key |-> "no"], [key |-> "answered"]}
<1>1. requests[r] \in [phase : {"running"}, key : Keys, cost : Nat, checked : BOOLEAN,
                        spare : SUBSET Keys, risky : SUBSET Keys]
    BY DEF CCTypeOK, RequestStates, Idle
<1>2. Ticket(r) \in {[key |-> requests[r].key, cost |-> requests[r].cost], [key |-> "unchecked"]}
    BY DEF Ticket
<1>3. DOMAIN [key |-> requests[r].key, cost |-> requests[r].cost] # DOMAIN [key |-> "no"]
    OBVIOUS
<1>4. DOMAIN [key |-> requests[r].key, cost |-> requests[r].cost] # DOMAIN [key |-> "answered"]
    OBVIOUS
<1>5. [key |-> "unchecked"].key # [key |-> "no"].key /\ [key |-> "unchecked"].key # [key |-> "answered"].key
    OBVIOUS
<1>. QED BY <1>2, <1>3, <1>4, <1>5

\* A request that goes on with another key is no longer a checked one.
LEMMA RetryLedger ==
    ASSUME CCTypeOK, NEW r \in Requests, Retry(r)
    PROVE  L!Retry(r)
<1>1. PICK k \in Keys :
            /\ k \in requests[r].spare \cup requests[r].risky
            /\ requests[r].phase = "running"
            /\ requests' = [requests EXCEPT ![r] =
                    [phase |-> "running", key |-> k, cost |-> requests[r].cost, checked |-> FALSE,
                     spare |-> requests[r].spare \ {k}, risky |-> requests[r].risky \ {k}]]
            /\ bypassed' = bypassed \cup
                    (IF k \in requests[r].spare THEN FreePasses(k, requests[r].cost)
                     ELSE Applicable(k) \cap Hard)
            /\ UNCHANGED <<elapsed, budgets>>
    BY RetryEffect
<1>. DEFINE new == [phase |-> "running", key |-> k, cost |-> requests[r].cost, checked |-> FALSE,
                    spare |-> requests[r].spare \ {k}, risky |-> requests[r].risky \ {k}]
<1>2. new.phase = "running" /\ new.checked = FALSE /\ requests' = [requests EXCEPT ![r] = new]
    BY <1>1
<1>. HIDE DEF new
<1>3. /\ [q \in Requests |-> Ticket(q)]' =
            [[q \in Requests |-> Ticket(q)] EXCEPT ![r] = [key |-> "unchecked"]]
      /\ [q \in Requests |-> OwedBy(q)]' = [[q \in Requests |-> OwedBy(q)] EXCEPT ![r] = {}]
    BY <1>2, TicketsAfter
<1>4. OwedBy(r) = {}
    BY <1>1 DEF OwedBy
<1>5. [q \in Requests |-> OwedBy(q)]' = [q \in Requests |-> OwedBy(q)]
    BY <1>3, <1>4
<1>6. \A b \in Budgets : Spent(b)' = Spent(b)
    BY <1>1 DEF Spent
<1>7. Ticket(r) \notin {[key |-> "no"], [key |-> "answered"]}
    BY <1>1, RunningTicket
<1>. QED BY <1>1, <1>3, <1>5, <1>6, <1>7 DEF L!Retry, L!NotRunning, L!Answered, L!Unchecked

\* The provider answers: what is owed is now known.
LEMMA CompleteLedger ==
    ASSUME CCTypeOK, NEW r \in Requests, Complete(r)
    PROVE  L!Answer(r)
<1>1. PICK amount \in Amounts :
        /\ requests[r].phase = "running"
        /\ requests' = [requests EXCEPT ![r] =
            [phase |-> "charging", owed |-> Applicable(requests[r].key), amount |-> amount]]
        /\ UNCHANGED <<elapsed, budgets>>
    BY DEF Complete
<1>. DEFINE due == Applicable(requests[r].key)
            new == [phase |-> "charging", owed |-> due, amount |-> amount]
<1>2. new.phase = "charging" /\ new.owed = due /\ requests' = [requests EXCEPT ![r] = new]
    BY <1>1
<1>3. due \in SUBSET DOMAIN budgets
    BY DEF Applicable
<1>. HIDE DEF due, new
<1>4. /\ [q \in Requests |-> Ticket(q)]' =
            [[q \in Requests |-> Ticket(q)] EXCEPT ![r] = [key |-> "answered"]]
      /\ [q \in Requests |-> OwedBy(q)]' = [[q \in Requests |-> OwedBy(q)] EXCEPT ![r] = due]
    BY <1>2, TicketsAfter
<1>5. Ticket(r) \notin {[key |-> "no"], [key |-> "answered"]}
    BY <1>1, RunningTicket
<1>6. \A b \in Budgets : Spent(b)' = Spent(b)
    BY <1>1 DEF Spent
<1>. QED BY <1>1, <1>3, <1>4, <1>5, <1>6 DEF L!Answer, L!NotRunning, L!Answered

\* A request ends: it has failed, or everything it owed has been charged.
LEMMA LeaveLedger ==
    ASSUME CCTypeOK, NEW r \in Requests, Fail(r) \/ RecordActualCost(r)
    PROVE  L!Leave(r)
<1>1. /\ requests' = [requests EXCEPT ![r] = Idle]
      /\ UNCHANGED <<elapsed, budgets>>
      /\ OwedBy(r) = {}
    BY DEF Fail, RecordActualCost, OwedBy
<1>. DEFINE new == Idle
<1>2. new.phase = "idle" /\ new.phase # "charging" /\ requests' = [requests EXCEPT ![r] = new]
    BY <1>1 DEF Idle
<1>. HIDE DEF new
<1>3. /\ [q \in Requests |-> Ticket(q)]' = [[q \in Requests |-> Ticket(q)] EXCEPT ![r] = [key |-> "no"]]
      /\ [q \in Requests |-> OwedBy(q)]' = [[q \in Requests |-> OwedBy(q)] EXCEPT ![r] = {}]
    <2>. DEFINE ticket == IF new.phase = "idle" THEN [key |-> "no"]
                          ELSE IF new.phase = "charging" THEN [key |-> "answered"]
                          ELSE IF new.checked THEN [key |-> new.key, cost |-> new.cost]
                          ELSE [key |-> "unchecked"]
                owes == IF new.phase = "charging" THEN new.owed ELSE {}
    <2>1. ticket = [key |-> "no"] /\ owes = {}
        BY <1>2
    <2>2. /\ [q \in Requests |-> Ticket(q)]' = [[q \in Requests |-> Ticket(q)] EXCEPT ![r] = ticket]
          /\ [q \in Requests |-> OwedBy(q)]' = [[q \in Requests |-> OwedBy(q)] EXCEPT ![r] = owes]
        BY <1>2, TicketsAfter
    <2>. HIDE DEF ticket, owes
    <2>. QED BY <2>1, <2>2
<1>4. [q \in Requests |-> OwedBy(q)]' = [q \in Requests |-> OwedBy(q)]
    BY <1>1, <1>3
<1>5. Ticket(r) # [key |-> "no"]
    <2>1. requests[r].phase \in {"running", "charging"}
        BY DEF Fail, RecordActualCost
    <2>2. Ticket(r) \in {[key |-> requests[r].key, cost |-> requests[r].cost],
                         [key |-> "unchecked"], [key |-> "answered"]}
        BY <2>1 DEF Ticket
    <2>3. DOMAIN [key |-> requests[r].key, cost |-> requests[r].cost] # DOMAIN [key |-> "no"]
        OBVIOUS
    <2>4. [key |-> "unchecked"].key # [key |-> "no"].key /\ [key |-> "answered"].key # [key |-> "no"].key
        OBVIOUS
    <2>. QED BY <2>2, <2>3, <2>4
<1>6. \A b \in Budgets : Spent(b)' = Spent(b)
    BY <1>1 DEF Spent
<1>. QED BY <1>1, <1>3, <1>4, <1>5, <1>6 DEF L!Leave, L!NotRunning

LEMMA UpdateSpendingLedger ==
    ASSUME CCTypeOK, NEW r \in Requests, UpdateSpending(r)
    PROVE  \E b \in Budgets, amount \in Amounts : L!Charge(r, b, amount)
<1>1. PICK b \in DOMAIN budgets, amount \in Amounts :
            /\ b \in requests[r].owed
            /\ requests[r].phase = "charging"
            /\ budgets' = [Refreshed({b}) EXCEPT ![b].current_spend = @ + amount]
            /\ bypassed' = StillBypassed({b})
            /\ requests' = [requests EXCEPT ![r] =
                    [phase |-> "charging", owed |-> requests[r].owed \ {b}, amount |-> amount]]
            /\ UNCHANGED <<elapsed>>
    BY UpdateSpendingEffect
<1>2. b \in Budgets /\ amount \in Nat
    BY CostAssumption DEF CCTypeOK
<1>. DEFINE left == requests[r].owed \ {b}
            new == [phase |-> "charging", owed |-> left, amount |-> amount]
<1>3. new.phase = "charging" /\ new.owed = left /\ requests' = [requests EXCEPT ![r] = new]
    BY <1>1
<1>4. OwedBy(r) = requests[r].owed /\ Ticket(r) = [key |-> "answered"] /\ left = OwedBy(r) \ {b}
    BY <1>1 DEF OwedBy, Ticket
<1>. HIDE DEF left, new
<1>5. /\ [q \in Requests |-> Ticket(q)]' =
            [[q \in Requests |-> Ticket(q)] EXCEPT ![r] = [key |-> "answered"]]
      /\ [q \in Requests |-> OwedBy(q)]' = [[q \in Requests |-> OwedBy(q)] EXCEPT ![r] = left]
    BY <1>3, TicketsAfter
<1>6. [q \in Requests |-> Ticket(q)]' = [q \in Requests |-> Ticket(q)]
    BY <1>4, <1>5
<1>7. /\ DOMAIN Refreshed({b}) = DOMAIN budgets
      /\ \A c \in DOMAIN budgets : Refreshed({b})[c] \in BudgetStates
    BY <1>1, RefreshedFacts
<1>8. DOMAIN budgets' = DOMAIN budgets
    BY <1>1, <1>7
<1>9. Spent(b)' = Spent(b) + amount
    <2>1. budgets'[b] = [Refreshed({b})[b] EXCEPT !.current_spend = @ + amount]
        BY <1>1, <1>7
    <2>2. /\ budgets'[b].current_spend = Refreshed({b})[b].current_spend + amount
          /\ budgets'[b].reset_in = Refreshed({b})[b].reset_in
        BY <1>1, <1>2, <1>7, <2>1, BudgetFields
    <2>. QED BY <1>1, <1>8, <2>2, RefreshedShowsSpent DEF Spent
<1>10. ASSUME NEW c \in Budgets, c # b
       PROVE  Spent(c)' = Spent(c)
    <2>1. CASE c \in DOMAIN budgets
        <3>1. budgets'[c] = Refreshed({b})[c]
            BY <1>1, <1>7, <1>10, <2>1
        <3>2. Refreshed({b})[c] = budgets[c]
            BY <1>10, <2>1 DEF Refreshed
        <3>. QED BY <1>8, <3>1, <3>2 DEF Spent
    <2>2. CASE c \notin DOMAIN budgets
        BY <1>8, <2>2 DEF Spent
    <2>. QED BY <2>1, <2>2
<1>11. [c \in Budgets |-> Spent(c)]' = [[c \in Budgets |-> Spent(c)] EXCEPT ![b] = @ + amount]
    BY <1>2, <1>9, <1>10
<1>12. [q \in Requests |-> OwedBy(q)]' = [[q \in Requests |-> OwedBy(q)] EXCEPT ![r] = @ \ {b}]
    BY <1>4, <1>5
<1>13. b \in [q \in Requests |-> OwedBy(q)][r]
    BY <1>1, <1>4
<1>. QED BY <1>1, <1>2, <1>6, <1>8, <1>11, <1>12, <1>13 DEF L!Charge

LEMMA TickLedger ==
    ASSUME CCTypeOK, Tick
    PROVE  L!Turn
<1>1. DOMAIN budgets' = DOMAIN budgets /\ UNCHANGED requests
    BY DEF Tick
<1>2. elapsed' = [b \in Budgets |-> L!Advanced(b)]
    BY DEF Tick, L!Advanced
<1>3. ASSUME NEW b \in Budgets
      PROVE  Spent(b)' = IF L!Advanced(b) = 0 THEN 0 ELSE Spent(b)
    <2>1. CASE b \notin DOMAIN budgets
        BY <1>1, <2>1 DEF Spent
    <2>2. CASE b \in DOMAIN budgets
        <3>1. /\ budgets[b] \in BudgetStates
              /\ budgets[b].reset_in \in Nat
              /\ budgets[b].reset_in \in {0, UntilReset(b)}
              /\ elapsed[b] \in Nat /\ Period[b] \in Nat /\ elapsed[b] < Period[b]
            BY <2>2, Facts
        <3>2. budgets'[b] = [budgets[b] EXCEPT !.reset_in = IF @ = 0 THEN 0 ELSE @ - 1]
            BY <2>2 DEF Tick
        <3>3. /\ budgets'[b].current_spend = budgets[b].current_spend
              /\ budgets'[b].reset_in = IF budgets[b].reset_in = 0 THEN 0 ELSE budgets[b].reset_in - 1
            BY <3>1, <3>2, BudgetFields
        <3>4. CASE budgets[b].reset_in = 0
            BY <1>1, <2>2, <3>3, <3>4 DEF Spent
        <3>5. CASE budgets[b].reset_in # 0
            <4>1. budgets[b].reset_in = Period[b] - elapsed[b]
                BY <3>1, <3>5 DEF UntilReset
            <4>2. budgets'[b].reset_in = 0 <=> elapsed[b] + 1 = Period[b]
                BY <3>1, <3>3, <3>5, <4>1
            <4>3. L!Advanced(b) = 0 <=> elapsed[b] + 1 = Period[b]
                BY <3>1 DEF L!Advanced
            <4>. QED BY <1>1, <2>2, <3>3, <3>5, <4>2, <4>3 DEF Spent
        <3>. QED BY <3>4, <3>5
    <2>. QED BY <2>1, <2>2
<1>4. [b \in Budgets |-> Spent(b)]' =
        [b \in Budgets |-> IF L!Advanced(b) = 0 THEN 0 ELSE [c \in Budgets |-> Spent(c)][b]]
    BY <1>3
<1>. QED BY <1>1, <1>2, <1>4 DEF L!Turn, Ticket, OwedBy

\* Every step of the controller is a step of the ledger, or changes nothing in it.
LEMMA NextLedger ==
    ASSUME CCTypeOK, [Next]_ccVars
    PROVE  [L!LedgerNext]_(L!ledgerVars)
<1>1. CASE \E b \in Budgets : CreateBudget(b)
    BY <1>1, CreateBudgetLedger DEF L!LedgerNext
<1>2. CASE \E b \in Budgets : GetBudget(b)
    <2>1. PICK b \in Budgets : GetBudget(b)
        BY <1>2
    <2>2. budgets' = Refreshed({b}) /\ requests' = requests /\ elapsed' = elapsed
        BY <2>1 DEF GetBudget
    <2>. QED BY <2>2, TouchLedger
<1>3. CASE \E r \in Requests : RejectRequest(r)
    <2>1. PICK k \in Keys :
            budgets' = Refreshed(Applicable(k)) /\ requests' = requests /\ elapsed' = elapsed
        BY <1>3 DEF RejectRequest
    <2>. DEFINE touched == Applicable(k)
    <2>2. budgets' = Refreshed(touched) /\ requests' = requests /\ elapsed' = elapsed
        BY <2>1
    <2>. HIDE DEF touched
    <2>. QED BY <2>2, TouchLedger
<1>4. CASE \E r \in Requests : EnforceBudget(r)
    BY <1>4, EnforceBudgetLedger DEF L!LedgerNext
<1>5. CASE \E r \in Requests : RouteRequest(r)
    BY <1>5, RouteRequestLedger DEF L!LedgerNext
<1>6. CASE \E r \in Requests : Complete(r) \/ Retry(r)
    BY <1>6, CompleteLedger, RetryLedger DEF L!LedgerNext
<1>7. CASE \E r \in Requests : Fail(r) \/ RecordActualCost(r)
    BY <1>7, LeaveLedger DEF L!LedgerNext
<1>8. CASE \E r \in Requests : UpdateSpending(r)
    BY <1>8, UpdateSpendingLedger DEF L!LedgerNext
<1>9. CASE Tick
    BY <1>9, TickLedger DEF L!LedgerNext
<1>10. CASE UNCHANGED ccVars
    BY <1>10 DEF ccVars, L!ledgerVars, Spent, Ticket, OwedBy
<1>. QED BY <1>1, <1>2, <1>3, <1>4, <1>5, <1>6, <1>7, <1>8, <1>9, <1>10 DEF Next

\* The controller with its lazy resets implements the ledger that resets on
\* time (_check_and_reset_budget before every use of a budget).
THEOREM LazyResetsImplementLedger == Spec => RefinesLedger
<1>1. CCInv => CCTypeOK
    BY DEF CCInv
<1>. QED BY <1>1, InitInv, NextInv, InitLedger, NextLedger, PTL DEF Spec, RefinesLedger, L!LedgerSpec
=============================================================================
