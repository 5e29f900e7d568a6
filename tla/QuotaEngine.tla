---------------------------- MODULE QuotaEngine ----------------------------
(***************************************************************************)
(* QuotaAwarenessEngine (domain/components/quota_awareness_engine.py) for  *)
(* one key: its quota state in the in-memory store and its entry in the    *)
(* prediction cache.  Keys share neither.                                  *)
(*                                                                         *)
(* get_quota_state of the store returns the stored object and the engine   *)
(* mutates it, so what a call has done when it raises is there to stay.    *)
(* No call suspends, so each is one step.                                  *)
(*                                                                         *)
(* Time is a position in the reset period and the distance to reset_at.    *)
(* A prediction depends on the usage rate found in the decision log; any   *)
(* rate, or none, may be found, so which of the three classes of hours a   *)
(* new prediction falls into is left open.  Confidence levels only enter   *)
(* predictions.  Quota states with known capacity are saved by users of    *)
(* the store; one the engine makes itself has unknown capacity.            *)
(***************************************************************************)
EXTENDS Integers

CONSTANTS
    Unknown,     \* the value of a capacity that is not known
    Totals,      \* known total capacities
    Period,      \* ticks from one periodic reset to the next
    TTLs,        \* prediction_cache_ttl_seconds in ticks, one per engine
    Amounts,     \* what one call may consume
    NoTokens,    \* tokens_consumed is not given
    NoQuota,     \* the key has no quota state
    NoPrediction,
    MaxSpent     \* bound: consumption within one period

ASSUME QuotaAssumption ==
    /\ Period \in Nat \ {0}
    /\ Totals \subseteq Nat
    /\ TTLs \subseteq Nat
    /\ Amounts \subseteq Nat
    /\ Unknown \notin Nat
    /\ NoTokens \notin Amounts
    /\ MaxSpent \in Nat
    /\ NoPrediction \notin {"critical", "constrained", "abundant"}

VARIABLES
    quota,    \* the stored QuotaState, or NoQuota
    ttl,      \* the engine's cache TTL, fixed by its constructor
    cache,    \* the cached prediction with its age, or NoPrediction if there is
              \* none or it has expired
    phase,    \* ticks since the current period began
    spent,    \* consumption reported since reset_at last passed (history)
    touched   \* the engine updated the capacity since then (history)

qeVars == <<quota, ttl, cache, phase, spent, touched>>

\* What is counted: the capacity in the key's unit, and the tokens of a key
\* whose unit is Mixed.
Dims == {"capacity", "tokens"}
Zero == [d \in Dims |-> 0]
Known == Nat \cup {Unknown}

Units == {"requests", "tokens", "mixed"}
\* The fifth state of the code, Recovering, is set nowhere.
CapacityState == {"abundant", "constrained", "critical", "exhausted"}

QuotaState ==
    [unit : Units, window : {"periodic", "custom"}, total : [Dims -> Known],
     remaining : [Dims -> Known], used : [Dims -> Nat],
     state : CapacityState, reset_in : Nat]

ASSUME NoQuotaAssumption == NoQuota \notin QuotaState

\* Mutant of NextReset: a whole period from now.
NextResetFromNow == Period

\* calculate_next_reset: hours, days and months begin at fixed times.
NextReset == Period - phase

InitialQuota ==
    [unit |-> "requests", window |-> "periodic",
     total |-> [d \in Dims |-> Unknown], remaining |-> [d \in Dims |-> Unknown],
     used |-> Zero, state |-> "abundant", reset_in |-> NextReset]

\* A quota state as a user saves it before the first request; only a Mixed
\* one counts tokens separately.
SavedQuotas ==
    {q \in [unit : Units, window : {"periodic", "custom"},
            total : [Dims -> Totals \cup {Unknown}],
            remaining : [Dims -> Totals \cup {Unknown}],
            used : {Zero}, state : {"abundant"}, reset_in : 1..Period] :
        /\ q.window = "periodic" => q.reset_in = NextReset
        /\ \A d \in Dims : q.total[d] # Unknown => q.remaining[d] = q.total[d]
        /\ q.unit # "mixed" => /\ q.total["tokens"] = Unknown
                               /\ q.remaining["tokens"] = Unknown}

QEInit ==
    /\ phase \in 0..Period - 1
    /\ quota \in {NoQuota} \cup SavedQuotas
    /\ ttl \in TTLs
    /\ cache = NoPrediction
    /\ spent = Zero
    /\ touched = FALSE

\* get_quota_state: the stored state, made up when there is none.
Current == IF quota = NoQuota THEN InitialQuota ELSE quota

-----------------------------------------------------------------------------
\* The thresholds of 80, 50 and 20 percent.
ShareState(r, t) ==
    IF t = 0 \/ 5 * r <= t THEN "exhausted"
    ELSE IF 2 * r <= t THEN "critical"
    ELSE IF 5 * r <= 4 * t THEN "constrained"
    ELSE "abundant"

\* _calculate_capacity_state: a prediction decides alone.
CapacityStateOf(q, prediction) ==
    LET r == q.remaining["capacity"]
        t == q.total["capacity"]
    IN  IF prediction # NoPrediction THEN prediction
        ELSE IF r = Unknown THEN "abundant"
        ELSE IF t = Unknown THEN (IF r > 0 THEN "abundant" ELSE "exhausted")
        ELSE ShareState(r, t)

\* Mutant of NewPredictions: an exhausted key is predicted to be exhausted soon
\* or late, too.
NewPredictionsAtZero(q) ==
    LET r == q.remaining[IF q.unit = "mixed" THEN "tokens" ELSE "capacity"]
    IN  {NoPrediction} \cup
        IF r = Unknown THEN {} ELSE {"critical", "constrained", "abundant"}

\* predict_exhaustion: nothing without a usage rate or known capacity left;
\* otherwise less than 4 hours, less than 24, or more.
NewPredictions(q) ==
    LET r == q.remaining[IF q.unit = "mixed" THEN "tokens" ELSE "capacity"]
    IN  {NoPrediction} \cup
        IF r \in {Unknown, 0} THEN {} ELSE {"critical", "constrained", "abundant"}

\* The class of a cached prediction when it is used: its hours run down.
AgedClasses(class) ==
    IF class = "abundant" THEN {"abundant", "constrained", "critical"}
    ELSE {class, "critical"}

\* _get_exhaustion_prediction for the quota state q gives p.
GetPrediction(q, p) ==
    IF cache # NoPrediction
    THEN p \in AgedClasses(cache.class) /\ UNCHANGED cache
    ELSE /\ p \in NewPredictions(q)
         /\ cache' = IF p = NoPrediction \/ ttl = 0 THEN NoPrediction
                     ELSE [class |-> p, age |-> 0]

-----------------------------------------------------------------------------
\* Mutant of AfterReset: the consumption of the old period stays.
AfterResetKeepsUsed(q) ==
    [q EXCEPT !.remaining = [d \in Dims |-> IF q.total[d] # Unknown THEN q.total[d]
                                                                   ELSE q.remaining[d]],
              !.state = "abundant",
              !.reset_in = IF q.window = "periodic" THEN NextReset ELSE @]

\* _handle_reset.  The reset_at of a custom window is left in the past.
AfterReset(q) ==
    [q EXCEPT !.remaining = [d \in Dims |-> IF q.total[d] # Unknown THEN q.total[d]
                                                                   ELSE q.remaining[d]],
              !.used = Zero,
              !.state = "abundant",
              !.reset_in = IF q.window = "periodic" THEN NextReset ELSE @]

ResetIfDue(q) == IF q.reset_in = 0 THEN AfterReset(q) ELSE q

\* What a call consumes in each dimension.
Charge(unit, consumed, tokens) ==
    [d \in Dims |->
        IF d = "capacity"
        THEN IF unit = "tokens" /\ tokens # NoTokens THEN tokens ELSE consumed
        ELSE IF unit = "mixed" THEN tokens ELSE 0]

\* Mutant of Take: remaining capacity is not stopped at zero.
TakeWrapping(r, n) ==
    IF r = Unknown THEN Unknown ELSE IF r >= n THEN r - n ELSE n - r

Take(r, n) == IF r = Unknown THEN Unknown ELSE IF r >= n THEN r - n ELSE 0

Consume(q, charge) ==
    [q EXCEPT !.remaining = [d \in Dims |-> Take(q.remaining[d], charge[d])],
              !.used = [d \in Dims |-> q.used[d] + charge[d]]]

\* update_capacity.
UpdateCapacity(consumed, tokens) ==
    LET due == ResetIfDue(Current)
        charge == Charge(due.unit, consumed, tokens)
        q == Consume(due, charge)
    IN  /\ due.unit = "mixed" => tokens # NoTokens
        /\ \A d \in Dims : spent[d] + charge[d] <= MaxSpent
        /\ \E p \in CapacityState \cup {NoPrediction} :
              /\ GetPrediction(q, p)
              /\ quota' = [q EXCEPT !.state = CapacityStateOf(q, p)]
        /\ spent' = [d \in Dims |-> spent[d] + charge[d]]
        /\ touched' = TRUE
        /\ UNCHANGED <<ttl, phase>>

\* update_capacity on a Mixed key without tokens_consumed raises after it
\* looked for a reset.
UpdateMixedFails ==
    /\ Current.unit = "mixed"
    /\ quota' = ResetIfDue(Current)
    /\ touched' = (touched \/ Current.reset_in = 0)
    /\ UNCHANGED <<ttl, cache, phase, spent>>

\* handle_quota_response.
HandleQuotaResponse ==
    /\ quota' = [Current EXCEPT
                    !.state = "exhausted",
                    !.remaining["capacity"] = IF @ = Unknown THEN Unknown ELSE 0]
    /\ UNCHANGED <<ttl, cache, phase, spent, touched>>

\* get_quota_state.
GetQuotaState ==
    /\ quota' = Current
    /\ UNCHANGED <<ttl, cache, phase, spent, touched>>

\* The time at which the quota resets passes in this tick.
Boundary ==
    IF quota # NoQuota /\ quota.window = "custom" THEN quota.reset_in = 1
                                                 ELSE phase = Period - 1

\* Time passes.
Tick ==
    /\ phase' = IF phase = Period - 1 THEN 0 ELSE phase + 1
    /\ quota' = IF quota = NoQuota \/ quota.reset_in = 0 THEN quota
                ELSE [quota EXCEPT !.reset_in = @ - 1]
    /\ cache' = IF cache = NoPrediction \/ cache.age + 1 >= ttl THEN NoPrediction
                ELSE [cache EXCEPT !.age = @ + 1]
    /\ spent' = IF Boundary THEN Zero ELSE spent
    /\ touched' = (touched /\ ~Boundary)
    /\ UNCHANGED ttl

\* The calls anybody may make of the engine.
EngineCall ==
    \/ \E consumed \in Amounts, tokens \in Amounts \cup {NoTokens} :
          UpdateCapacity(consumed, tokens)
    \/ UpdateMixedFails
    \/ HandleQuotaResponse
    \/ GetQuotaState

QENext == EngineCall \/ Tick

QESpec == QEInit /\ [][QENext]_qeVars

-----------------------------------------------------------------------------
\* Type invariant.  A periodic reset_at is the end of the current period, or
\* has passed unnoticed.
QETypeOK ==
    /\ quota \in QuotaState \cup {NoQuota}
    /\ ttl \in TTLs
    /\ cache \in {NoPrediction} \cup
                  [class : {"critical", "constrained", "abundant"}, age : 0..ttl - 1]
    /\ phase \in 0..Period - 1
    /\ spent \in [Dims -> Nat]
    /\ touched \in BOOLEAN
    /\ quota # NoQuota /\ quota.window = "periodic" => quota.reset_in \in {0, NextReset}

\* The remaining capacity is never overstated: it is at most what the total
\* leaves after the consumption counted since the last reset.
RemainingIsCovered ==
    quota # NoQuota =>
        \A d \in Dims :
            quota.total[d] # Unknown =>
                /\ quota.remaining[d] # Unknown
                /\ \/ quota.remaining[d] = 0
                   \/ quota.remaining[d] + quota.used[d] <= quota.total[d]

\* Lazy resets lose and mix up nothing: once the engine has touched a periodic
\* quota in a period, the consumption it has counted is exactly that of the
\* period, however many periods passed without a call.
UsedIsOfThisPeriod ==
    quota # NoQuota /\ quota.window = "periodic" =>
        IF touched THEN quota.used = spent /\ quota.reset_in > 0 ELSE spent = Zero
=============================================================================
