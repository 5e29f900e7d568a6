--------------------------- MODULE CostController ---------------------------
(***************************************************************************)
(* CostController (domain/components/cost_controller.py): budgets with     *)
(* lazy resets, hard and soft enforcement; with                            *)
(* RoutingEngine._filter_by_budget, which keeps the keys whose hard        *)
(* budgets allow a request, and the retries of ApiKeyRouter.route.         *)
(*                                                                         *)
(* Budgets live in a dictionary of the controller and its methods never    *)
(* wait for anything, so each call is one step.  The calls of one request  *)
(* are separate: the budgets are checked before the provider is called and *)
(* charged when it has answered, and other requests run in between.  Their *)
(* order (estimate, check, provider, update_spending, record_actual_cost)  *)
(* is that of the tests and of docs/architecture/core-workflows.md: only   *)
(* tests and examples make the calls after the check.  The estimates       *)
(* kept for record_actual_cost are left out: they only reach its log.      *)
(*                                                                         *)
(* Time is the part of each budget's calendar period that has passed, and  *)
(* reset_at is the time left until it, 0 from then on.                     *)
(***************************************************************************)
EXTENDS Integers, FiniteSets

CONSTANTS
    Budgets, Keys, Requests, Models,
    Covers,     \* Covers[b]: the keys in the scope of b (all for a global budget)
    Hard, Limit, Period, Cost,
    Amounts,    \* actual costs
    MaxActual,  \* the largest of them
    MaxSpend,   \* bound: no request starts when a budget has spent more
    MaxWarnings \* bound: warnings per budget and period

ASSUME CostAssumption ==
    /\ IsFiniteSet(Requests)
    /\ MaxActual \in Nat
    /\ Amounts \subseteq 0..MaxActual
    /\ Covers \in [Budgets -> SUBSET Keys]
    /\ Hard \subseteq Budgets
    /\ Limit \in [Budgets -> Nat]
    /\ Period \in [Budgets -> Nat \ {0}]
    /\ Cost \in [Models -> Nat]

VARIABLES
    elapsed,    \* the clock, see above
    budgets,    \* _budgets: budget id -> its fields that change
    requests,   \* what the client has done for each request
    bypassed    \* hard budgets that let a request through unseen since their reset
                \* (history variable)

ccVars == <<elapsed, budgets, requests, bypassed>>

Idle == [phase |-> "idle"]

RequestStates ==
    {Idle}
    \cup [phase : {"running"}, key : Keys, cost : Nat, checked : BOOLEAN,
          spare : SUBSET Keys, risky : SUBSET Keys]
    \cup [phase : {"charging"}, owed : SUBSET Budgets, amount : Amounts]

BudgetStates == [current_spend : Nat, warning_count : Nat, reset_in : Nat]

\* Mutant of UntilReset: a period counted from now.
UntilResetSliding(b) == Period[b]

\* TimeWindow.calculate_next_reset: the end of the calendar period.
UntilReset(b) == Period[b] - elapsed[b]

Due(b) == budgets[b].reset_in = 0

\* Mutant of Refreshed: only the reset time is renewed.
RefreshedKeepsSpend(touched) ==
    [b \in DOMAIN budgets |->
        IF b \in touched /\ Due(b) THEN [budgets[b] EXCEPT !.reset_in = UntilReset(b)]
        ELSE budgets[b]]

\* _check_and_reset_budget on the budgets a call touches.
Refreshed(touched) ==
    [b \in DOMAIN budgets |->
        IF b \in touched /\ Due(b)
        THEN [current_spend |-> 0, warning_count |-> 0, reset_in |-> UntilReset(b)]
        ELSE budgets[b]]

StillBypassed(touched) == {b \in bypassed : ~(b \in touched /\ Due(b))}

Applicable(k) == {b \in DOMAIN budgets : k \in Covers[b]}

\* Budget.remaining_budget never goes below zero.
Remaining(b, spend) == IF spend > Limit[b] THEN 0 ELSE Limit[b] - spend

\* check_budget: the budgets of key k that a request of this cost violates,
\* once those that are due have been reset.
Violated(k, cost) ==
    {b \in Applicable(k) : Remaining(b, Refreshed({b})[b].current_spend) - cost < 0}

\* A request estimated to cost nothing fits whatever has been spent.
FreePasses(k, cost) == IF cost = 0 THEN Applicable(k) \cap Hard ELSE {}

WithinBounds ==
    \A b \in DOMAIN budgets :
        budgets[b].current_spend <= MaxSpend /\ budgets[b].warning_count < MaxWarnings

-----------------------------------------------------------------------------
Init ==
    /\ elapsed = [b \in Budgets |-> 0]
    /\ budgets = [b \in {} |-> 0]
    /\ requests = [r \in Requests |-> Idle]
    /\ bypassed = {}

CreateBudget(b) ==
    /\ b \in Budgets \ DOMAIN budgets
    /\ budgets' = [c \in DOMAIN budgets \cup {b} |->
            IF c = b THEN [current_spend |-> 0, warning_count |-> 0, reset_in |-> UntilReset(b)]
            ELSE budgets[c]]
    /\ UNCHANGED <<elapsed, requests, bypassed>>

GetBudget(b) ==
    /\ b \in DOMAIN budgets
    /\ budgets' = Refreshed({b})
    /\ bypassed' = StillBypassed({b})
    /\ UNCHANGED <<elapsed, requests>>

\* enforce_budget when no violated budget is hard: the soft ones are warned
\* about.  A downgrade (enable_downgrade) only replaces the model in the
\* client's request: the budgets were checked for the dearer one.
EnforceBudget(r) ==
    /\ requests[r].phase = "idle"
    /\ WithinBounds
    /\ \E k \in Keys, m \in Models :
        LET violated == Violated(k, Cost[m])
            fresh == Refreshed(Applicable(k))
        IN  /\ violated \cap Hard = {}
            /\ budgets' = [b \in DOMAIN budgets |->
                    IF b \in violated THEN [fresh[b] EXCEPT !.warning_count = @ + 1]
                    ELSE fresh[b]]
            /\ requests' = [requests EXCEPT ![r] =
                    [phase |-> "running", key |-> k, cost |-> Cost[m], checked |-> TRUE,
                     spare |-> {}, risky |-> {}]]
            /\ bypassed' = StillBypassed(Applicable(k)) \cup FreePasses(k, Cost[m])
    /\ UNCHANGED elapsed

\* enforce_budget raises BudgetExceededError; the check has reset what was due.
RejectRequest(r) ==
    /\ requests[r].phase = "idle"
    /\ \E k \in Keys, m \in Models :
        /\ Violated(k, Cost[m]) \cap Hard # {}
        /\ budgets' = Refreshed(Applicable(k))
        /\ bypassed' = StillBypassed(Applicable(k))
    /\ UNCHANGED <<elapsed, requests>>

\* Mutant of KeysWithinBudget: one soft budget among the violated keeps a key.
KeysWithinSomeBudget(keys, cost) ==
    {k \in keys : Violated(k, cost) = {} \/ ~(Violated(k, cost) \subseteq Hard)}

\* _filter_by_budget on the keys whose cost could be estimated.
KeysWithinBudget(keys, cost) == {k \in keys : Violated(k, cost) \cap Hard = {}}

\* The router's decision: every key is checked first, then one of those that
\* are kept is selected.  A key whose estimate fails is kept unchecked, and the
\* filtered keys stay in the decision's list behind the kept ones.
RouteRequest(r) ==
    /\ requests[r].phase = "idle"
    /\ WithinBounds
    /\ \E m \in Models, priced \in SUBSET Keys :
        LET touched == UNION {Applicable(k) : k \in priced}
            within == KeysWithinBudget(priced, Cost[m])
        IN  /\ \E k \in within \cup (Keys \ priced) :
                /\ requests' = [requests EXCEPT ![r] =
                        [phase |-> "running", key |-> k, cost |-> Cost[m], checked |-> k \in priced,
                         spare |-> within \ {k}, risky |-> Keys \ (within \cup {k})]]
                /\ bypassed' = StillBypassed(touched) \cup
                        (IF k \in priced THEN FreePasses(k, Cost[m]) ELSE Applicable(k) \cap Hard)
            /\ budgets' = Refreshed(touched)
    /\ UNCHANGED elapsed

\* The provider fails and route goes on with another key of the decision (the
\* Router module has the order, and how often).  No budget is checked again.
Retry(r) ==
    /\ requests[r].phase = "running"
    /\ \E k \in requests[r].spare \cup requests[r].risky :
        /\ requests' = [requests EXCEPT ![r] =
                [phase |-> "running", key |-> k, cost |-> requests[r].cost, checked |-> FALSE,
                 spare |-> requests[r].spare \ {k}, risky |-> requests[r].risky \ {k}]]
        /\ bypassed' = bypassed \cup
                (IF k \in requests[r].spare THEN FreePasses(k, requests[r].cost)
                 ELSE Applicable(k) \cap Hard)
    /\ UNCHANGED <<elapsed, budgets>>

\* The provider answers.  The client owes the amount to every budget in whose
\* scope the key is.
Complete(r) ==
    /\ requests[r].phase = "running"
    /\ \E amount \in Amounts :
        requests' = [requests EXCEPT ![r] =
            [phase |-> "charging", owed |-> Applicable(requests[r].key), amount |-> amount]]
    /\ UNCHANGED <<elapsed, budgets, bypassed>>

\* The request fails for good; the client may send it again.
Fail(r) ==
    /\ requests[r].phase = "running"
    /\ requests' = [requests EXCEPT ![r] = Idle]
    /\ UNCHANGED <<elapsed, budgets, bypassed>>

\* Mutant of UpdateSpending: the amount goes to a budget that was not reset.
UpdateSpendingStale(r) ==
    /\ requests[r].phase = "charging"
    /\ \E b \in requests[r].owed :
        /\ budgets' = [budgets EXCEPT ![b].current_spend = @ + requests[r].amount]
        /\ bypassed' = StillBypassed({b})
        /\ requests' = [requests EXCEPT ![r].owed = @ \ {b}]
    /\ UNCHANGED elapsed

UpdateSpending(r) ==
    /\ requests[r].phase = "charging"
    /\ \E b \in requests[r].owed :
        /\ budgets' = [Refreshed({b}) EXCEPT ![b].current_spend = @ + requests[r].amount]
        /\ bypassed' = StillBypassed({b})
        /\ requests' = [requests EXCEPT ![r].owed = @ \ {b}]
    /\ UNCHANGED elapsed

\* record_actual_cost compares the amount with the estimate and changes no
\* budget.
RecordActualCost(r) ==
    /\ requests[r].phase = "charging"
    /\ requests[r].owed = {}
    /\ requests' = [requests EXCEPT ![r] = Idle]
    /\ UNCHANGED <<elapsed, budgets, bypassed>>

Tick ==
    /\ elapsed' = [b \in Budgets |-> IF elapsed[b] + 1 = Period[b] THEN 0 ELSE elapsed[b] + 1]
    /\ budgets' = [b \in DOMAIN budgets |->
            [budgets[b] EXCEPT !.reset_in = IF @ = 0 THEN 0 ELSE @ - 1]]
    /\ UNCHANGED <<requests, bypassed>>

Next ==
    \/ \E b \in Budgets : CreateBudget(b) \/ GetBudget(b)
    \/ \E r \in Requests :
        \/ EnforceBudget(r)
        \/ RejectRequest(r)
        \/ RouteRequest(r)
        \/ Retry(r)
        \/ Complete(r)
        \/ Fail(r)
        \/ UpdateSpending(r)
        \/ RecordActualCost(r)
    \/ Tick

\* Nothing but the clock is sure to go on.
Spec == Init /\ [][Next]_ccVars /\ WF_ccVars(Tick)

-----------------------------------------------------------------------------
\* Spending, warnings and the time to the next reset are in range, and the
\* reset time of a budget is the end of the current calendar period or has
\* passed: resets follow the calendar (calculate_next_reset) however late
\* they are done.
CCTypeOK ==
    /\ elapsed \in [Budgets -> Nat]
    /\ \A b \in Budgets : elapsed[b] < Period[b]
    /\ DOMAIN budgets \subseteq Budgets
    /\ budgets \in [DOMAIN budgets -> BudgetStates]
    /\ \A b \in DOMAIN budgets : budgets[b].reset_in \in {0, UntilReset(b)}
    /\ requests \in [Requests -> RequestStates]
    /\ \A r \in Requests :
        requests[r].phase = "charging" => requests[r].owed \subseteq DOMAIN budgets
    /\ bypassed \subseteq Hard

\* The requests that may still add to budget b.
Outstanding(b) ==
    {r \in Requests :
        \/ requests[r].phase = "running" /\ requests[r].key \in Covers[b]
        \/ requests[r].phase = "running" /\ requests[r].cost # 0
                /\ \E k \in requests[r].spare : k \in Covers[b]
        \/ requests[r].phase = "charging" /\ b \in requests[r].owed}

\* A hard budget is overspent by at most what the requests running at the
\* same time may cost, and by more only after a request passed that did not
\* fit: one whose estimate failed, one estimated to cost nothing, or a retry
\* on a key that had been filtered (check_budget reads the spending long
\* before update_spending adds to it).
OverrunBounded ==
    \A b \in DOMAIN budgets \cap Hard :
        b \notin bypassed =>
            budgets[b].current_spend <= Limit[b] + Cardinality(Requests) * MaxActual

\* What a budget has spent in the current period, reset or not yet.
Spent(b) ==
    IF b \in DOMAIN budgets /\ budgets[b].reset_in # 0 THEN budgets[b].current_spend ELSE 0

\* What request r was let in for.
Ticket(r) ==
    IF requests[r].phase = "idle" THEN [key |-> "no"]
    ELSE IF requests[r].phase = "charging" THEN [key |-> "answered"]
    ELSE IF requests[r].checked THEN [key |-> requests[r].key, cost |-> requests[r].cost]
    ELSE [key |-> "unchecked"]

OwedBy(r) == IF requests[r].phase = "charging" THEN requests[r].owed ELSE {}

L == INSTANCE BudgetLedger WITH
        open <- DOMAIN budgets,
        spent <- [b \in Budgets |-> Spent(b)],
        running <- [r \in Requests |-> Ticket(r)],
        owed <- [r \in Requests |-> OwedBy(r)]

\* Lazy resets cannot be told from resets on time: a request is admitted, and
\* an amount is charged, as if every budget were reset the moment its period
\* ends (_check_and_reset_budget is called before every use of a budget).
RefinesLedger == L!LedgerSpec

\* A hard budget that is spent does not refuse for ever: any request that
\* fits an unspent budget is again and again within budget, because the
\* period ends and whoever checks the budget next resets it.
BudgetReopens ==
    \A k \in Keys, m \in Models :
        (\A b \in Hard : Cost[m] <= Limit[b]) => []<>(Violated(k, Cost[m]) \cap Hard = {})
=============================================================================
