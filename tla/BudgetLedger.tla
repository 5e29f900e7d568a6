---------------------------- MODULE BudgetLedger ----------------------------
(***************************************************************************)
(* What cost control promises, whatever it does inside: an amount charged  *)
(* to a budget counts until the end of the calendar period it was charged  *)
(* in and not a moment longer, and a request that was checked against the  *)
(* hard budgets is let in only while its cost still fits all of them.      *)
(***************************************************************************)
EXTENDS Integers

CONSTANTS
    Budgets,    \* every budget that may be created
    Keys,
    Requests,   \* the requests a client may have running at the same time
    Models,
    Amounts,    \* what a provider may charge for one request
    Covers,     \* Covers[b]: the keys whose requests budget b applies to
    Hard,       \* the budgets with hard enforcement
    Limit,      \* Limit[b]: limit_amount
    Period,     \* Period[b]: length of the calendar period of b
    Cost        \* Cost[m]: what the adapter estimates for a request to model m

VARIABLES
    elapsed,    \* elapsed[b]: how much of the current period of b has passed
    open,       \* the budgets that exist
    spent,      \* spent[b]: charged to b in the current period
    running,    \* running[r]: "no", what r was let in for, or "unchecked"
    owed        \* owed[r]: the budgets that r has still to be charged to

ledgerVars == <<elapsed, open, spent, running, owed>>

NotRunning == [key |-> "no"]
Unchecked == [key |-> "unchecked"]
Answered == [key |-> "answered"]

Advanced(b) == IF elapsed[b] + 1 = Period[b] THEN 0 ELSE elapsed[b] + 1

LedgerInit ==
    /\ elapsed = [b \in Budgets |-> 0]
    /\ open = {}
    /\ spent = [b \in Budgets |-> 0]
    /\ running = [r \in Requests |-> NotRunning]
    /\ owed = [r \in Requests |-> {}]

Open(b) ==
    /\ b \notin open
    /\ open' = open \cup {b}
    /\ UNCHANGED <<elapsed, spent, running, owed>>

\* A request that is expected to cost nothing fits every budget.
Fits(k, cost) ==
    \A b \in open \cap Hard :
        k \in Covers[b] => cost = 0 \/ spent[b] + cost <= Limit[b]

Admit(r, ticket) ==
    /\ running[r] = NotRunning
    /\ running' = [running EXCEPT ![r] = ticket]
    /\ UNCHANGED <<elapsed, open, spent, owed>>

AdmitChecked(r, k, m) ==
    /\ Fits(k, Cost[m])
    /\ Admit(r, [key |-> k, cost |-> Cost[m]])

\* A request that goes on with another key is not checked again.
Retry(r) ==
    /\ running[r] \notin {NotRunning, Answered}
    /\ running' = [running EXCEPT ![r] = Unchecked]
    /\ UNCHANGED <<elapsed, open, spent, owed>>

Answer(r) ==
    /\ running[r] \notin {NotRunning, Answered}
    /\ running' = [running EXCEPT ![r] = Answered]
    /\ \E due \in SUBSET open : owed' = [owed EXCEPT ![r] = due]
    /\ UNCHANGED <<elapsed, open, spent>>

Charge(r, b, amount) ==
    /\ b \in owed[r]
    /\ owed' = [owed EXCEPT ![r] = @ \ {b}]
    /\ spent' = [spent EXCEPT ![b] = @ + amount]
    /\ UNCHANGED <<elapsed, open, running>>

\* A request ends when it has failed or has been charged in full.
Leave(r) ==
    /\ running[r] # NotRunning
    /\ owed[r] = {}
    /\ running' = [running EXCEPT ![r] = NotRunning]
    /\ UNCHANGED <<elapsed, open, spent, owed>>

Turn ==
    /\ elapsed' = [b \in Budgets |-> Advanced(b)]
    /\ spent' = [b \in Budgets |-> IF Advanced(b) = 0 THEN 0 ELSE spent[b]]
    /\ UNCHANGED <<open, running, owed>>

LedgerNext ==
    \/ \E b \in Budgets : Open(b)
    \/ \E r \in Requests :
        \/ \E k \in Keys, m \in Models : AdmitChecked(r, k, m)
        \/ Admit(r, Unchecked)
        \/ Retry(r)
        \/ Answer(r)
        \/ \E b \in Budgets, amount \in Amounts : Charge(r, b, amount)
        \/ Leave(r)
    \/ Turn

LedgerSpec == LedgerInit /\ [][LedgerNext]_ledgerVars
=============================================================================
