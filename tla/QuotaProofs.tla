---------------------------- MODULE QuotaProofs ----------------------------
(***************************************************************************)
(* Theorems about QuotaEngine and QuotaRoute, for all totals, amounts,     *)
(* periods, cache times and numbers of concurrent requests.                *)
(***************************************************************************)
EXTENDS QuotaRoute, TLAPS

-----------------------------------------------------------------------------
(* The parts of the invariant.  A quota state is sound by itself, and its  *)
(* consumption agrees with the history.                                    *)

\* The remaining capacity is covered in every dimension.
Covered(q) ==
    \A d \in Dims :
        q.total[d] # Unknown =>
            /\ q.remaining[d] # Unknown
            /\ q.remaining[d] = 0 \/ q.remaining[d] + q.used[d] <= q.total[d]

Aligned(q) == q.window = "periodic" => q.reset_in \in {0, NextReset}

\* What UsedIsOfThisPeriod needs to be inductive: a period without a call
\* either has not noticed its beginning or has nothing counted.
Booked(q, t, s) ==
    q.window = "periodic" =>
        /\ t => q.used = s /\ q.reset_in > 0
        /\ ~t => s = Zero /\ (q.reset_in > 0 => q.used = Zero)

Sound(q) == q \in QuotaState /\ Covered(q) /\ Aligned(q)

TypeRest ==
    /\ ttl \in TTLs
    /\ cache \in {NoPrediction} \cup
                 [class : {"critical", "constrained", "abundant"}, age : 0..ttl - 1]
    /\ phase \in 0..Period - 1
    /\ spent \in [Dims -> Nat]
    /\ touched \in BOOLEAN

EngineInv ==
    /\ TypeRest
    /\ quota = NoQuota => spent = Zero /\ touched = FALSE
    /\ quota # NoQuota => Sound(quota) /\ Booked(quota, touched, spent)

-----------------------------------------------------------------------------
(* Lemmas about the operators.                                             *)

\* Each threshold gives a capacity state, and an empty key is exhausted.
LEMMA ShareStateFacts ==
    ASSUME NEW r \in Nat, NEW t \in Nat
    PROVE  /\ ShareState(r, t) \in CapacityState
           /\ ShareState(r, t) # "exhausted" => r > 0
    BY DEF ShareState, CapacityState

\* A capacity state is computed from every quota state and prediction.
LEMMA CapacityStateType ==
    ASSUME NEW q \in QuotaState,
           NEW p \in {NoPrediction, "critical", "constrained", "abundant"}
    PROVE  CapacityStateOf(q, p) \in CapacityState
<1>1. /\ q.remaining["capacity"] \in Nat \cup {Unknown}
      /\ q.total["capacity"] \in Nat \cup {Unknown}
    BY DEF QuotaState, Known, Dims
<1>2. CASE p # NoPrediction
    BY <1>2 DEF CapacityStateOf, CapacityState
<1>3. CASE p = NoPrediction /\ (q.remaining["capacity"] = Unknown \/ q.total["capacity"] = Unknown)
    BY <1>3 DEF CapacityStateOf, CapacityState
<1>4. CASE /\ p = NoPrediction
           /\ q.remaining["capacity"] # Unknown /\ q.total["capacity"] # Unknown
    <2>1. CapacityStateOf(q, p) = ShareState(q.remaining["capacity"], q.total["capacity"])
        BY <1>4 DEF CapacityStateOf
    <2>. QED
        BY <1>1, <1>4, <2>1, ShareStateFacts
<1>. QED
    BY <1>2, <1>3, <1>4

\* Taking from a capacity.
LEMMA TakeFacts ==
    ASSUME NEW r \in Known, NEW n \in Nat
    PROVE  /\ Take(r, n) \in Known
           /\ Take(r, n) = Unknown <=> r = Unknown
           /\ r # Unknown => Take(r, n) = 0 \/ Take(r, n) + n = r
    BY QuotaAssumption DEF Take, Known

\* The quota state a call starts from.
LEMMA CurrentSound ==
    ASSUME EngineInv
    PROVE  /\ Current # NoQuota
           /\ Sound(Current)
           /\ Booked(Current, touched, spent)
<1>1. CASE quota = NoQuota
    <2>1. NextReset \in Nat
        BY QuotaAssumption DEF EngineInv, TypeRest, NextReset
    <2>2. InitialQuota \in QuotaState
        BY <2>1 DEF InitialQuota, QuotaState, Units, CapacityState, Known, Zero
    <2>. QED
        BY <1>1, <2>2, NoQuotaAssumption, QuotaAssumption
        DEF Current, InitialQuota, Sound, Covered, Aligned, Booked, EngineInv, Zero
<1>2. CASE quota # NoQuota
    BY <1>2 DEF Current, EngineInv
<1>. QED
    BY <1>1, <1>2

-----------------------------------------------------------------------------
(* The steps of the engine.                                                *)

\* After the test for a due reset the consumption counted is that of the
\* current period.
LEMMA ResetSound ==
    ASSUME EngineInv
    PROVE  LET q == ResetIfDue(Current)
           IN  /\ Sound(q)
               /\ q.window = "periodic" => q.used = spent /\ q.reset_in > 0
               /\ q.unit = Current.unit
               /\ q.window = Current.window
               /\ q.total = Current.total
<1>. DEFINE c == Current
            q == ResetIfDue(c)
<1>1. c \in QuotaState /\ Covered(c) /\ Aligned(c) /\ Booked(c, touched, spent)
    BY CurrentSound DEF Sound
<1>2. NextReset \in Nat /\ NextReset > 0
    BY QuotaAssumption DEF EngineInv, TypeRest, NextReset
<1>3. CASE c.reset_in = 0
    <2>1. q = AfterReset(c)
        BY <1>3 DEF ResetIfDue
    <2>2. c.total \in [Dims -> Known] /\ c.remaining \in [Dims -> Known]
        BY <1>1 DEF QuotaState
    <2>. DEFINE full == [d \in Dims |-> IF c.total[d] # Unknown THEN c.total[d]
                                                               ELSE c.remaining[d]]
                next == IF c.window = "periodic" THEN NextReset ELSE c.reset_in
    <2>a. full \in [Dims -> Known] /\ Zero \in [Dims -> Nat] /\ "abundant" \in CapacityState
        BY <2>2 DEF Zero, CapacityState
    <2>b. next \in Nat
        BY <1>1, <1>2 DEF QuotaState
    <2>c. q = [c EXCEPT !.remaining = full, !.used = Zero, !.state = "abundant",
                        !.reset_in = next]
        BY <2>1 DEF AfterReset
    <2>3. q \in QuotaState
        <3>. HIDE DEF full, next, q, c
        <3>. QED
            BY <1>1, <2>a, <2>b, <2>c DEF QuotaState
    <2>4. /\ q.remaining = [d \in Dims |-> IF c.total[d] # Unknown THEN c.total[d]
                                                                  ELSE c.remaining[d]]
          /\ q.used = Zero
          /\ q.reset_in = IF c.window = "periodic" THEN NextReset ELSE c.reset_in
          /\ q.unit = c.unit /\ q.window = c.window /\ q.total = c.total
        BY <1>1, <2>1 DEF AfterReset, QuotaState
    <2>5. Covered(q)
        BY <2>2, <2>4, QuotaAssumption DEF Covered, Zero, Known
    <2>6. Aligned(q)
        BY <2>4 DEF Aligned
    <2>7. q.window = "periodic" => spent = Zero
        BY <1>1, <1>3, <2>4 DEF Booked, EngineInv, TypeRest
    <2>. QED
        BY <1>2, <2>3, <2>4, <2>5, <2>6, <2>7 DEF Sound
<1>4. CASE c.reset_in # 0
    <2>1. q = c
        BY <1>4 DEF ResetIfDue
    <2>2. c.reset_in > 0
        BY <1>1, <1>4 DEF QuotaState
    <2>3. c.window = "periodic" => c.used = spent
        BY <1>1, <2>2 DEF Booked, EngineInv, TypeRest
    <2>. QED
        BY <1>1, <2>1, <2>2, <2>3 DEF Sound
<1>. QED
    BY <1>3, <1>4

\* Consumption is charged to capacities without overstating them.
LEMMA ConsumeSound ==
    ASSUME NEW q, Sound(q), NEW charge \in [Dims -> Nat]
    PROVE  LET r == Consume(q, charge)
           IN  /\ Sound(r)
               /\ r.used = [d \in Dims |-> q.used[d] + charge[d]]
               /\ r.unit = q.unit
               /\ r.window = q.window
               /\ r.total = q.total
               /\ r.reset_in = q.reset_in
<1>. DEFINE r == Consume(q, charge)
<1>1. /\ q \in QuotaState /\ Covered(q)
      /\ q.remaining \in [Dims -> Known] /\ q.used \in [Dims -> Nat]
      /\ q.total \in [Dims -> Known]
    BY DEF Sound, QuotaState
<1>2. /\ r.remaining = [d \in Dims |-> Take(q.remaining[d], charge[d])]
      /\ r.used = [d \in Dims |-> q.used[d] + charge[d]]
      /\ r.unit = q.unit /\ r.window = q.window /\ r.total = q.total
      /\ r.reset_in = q.reset_in
    BY <1>1 DEF Consume, QuotaState
<1>3. /\ [d \in Dims |-> Take(q.remaining[d], charge[d])] \in [Dims -> Known]
      /\ [d \in Dims |-> q.used[d] + charge[d]] \in [Dims -> Nat]
    BY <1>1, TakeFacts
<1>4. r \in QuotaState
    BY <1>1, <1>3 DEF Consume, QuotaState
<1>5. Covered(r)
    <2>. SUFFICES ASSUME NEW d \in Dims, r.total[d] # Unknown
                  PROVE  /\ r.remaining[d] # Unknown
                         /\ \/ r.remaining[d] = 0
                            \/ r.remaining[d] + r.used[d] <= r.total[d]
        BY DEF Covered
    <2>1. /\ q.remaining[d] \in Nat /\ q.total[d] \in Nat
          /\ q.remaining[d] = 0 \/ q.remaining[d] + q.used[d] <= q.total[d]
        BY <1>1, <1>2 DEF Covered, Known
    <2>2. /\ r.remaining[d] = Take(q.remaining[d], charge[d])
          /\ r.used[d] = q.used[d] + charge[d]
          /\ r.total[d] = q.total[d]
          /\ q.used[d] \in Nat /\ charge[d] \in Nat
        BY <1>1, <1>2
    <2>3. Take(q.remaining[d], charge[d]) =
              IF q.remaining[d] >= charge[d] THEN q.remaining[d] - charge[d] ELSE 0
        BY <2>1, QuotaAssumption DEF Take
    <2>. QED
        BY <2>1, <2>2, <2>3, QuotaAssumption
<1>6. Aligned(r)
    BY <1>2 DEF Aligned, Sound
<1>. QED
    BY <1>2, <1>4, <1>5, <1>6 DEF Sound

\* A prediction is a class or none, and what is cached is well-formed.
LEMMA PredictionType ==
    ASSUME EngineInv, NEW q, NEW p, GetPrediction(q, p)
    PROVE  /\ p \in {NoPrediction, "critical", "constrained", "abundant"}
           /\ cache' \in {NoPrediction} \cup
                  [class : {"critical", "constrained", "abundant"}, age : 0..ttl - 1]
<1>1. ttl \in Nat
    BY QuotaAssumption DEF EngineInv, TypeRest
<1>2. CASE cache # NoPrediction
    BY <1>2 DEF GetPrediction, AgedClasses, EngineInv, TypeRest
<1>3. CASE cache = NoPrediction
    <2>1. p \in {NoPrediction, "critical", "constrained", "abundant"}
        BY <1>3 DEF GetPrediction, NewPredictions
    <2>2. cache' = IF p = NoPrediction \/ ttl = 0 THEN NoPrediction
                                                ELSE [class |-> p, age |-> 0]
        BY <1>3 DEF GetPrediction
    <2>. QED
        BY <1>1, <2>1, <2>2
<1>. QED
    BY <1>2, <1>3

\* What update_capacity does to a quota state, in terms the invariants use.
LEMMA UpdateEffect ==
    ASSUME EngineInv,
           NEW consumed \in Amounts, NEW tokens \in Amounts \cup {NoTokens},
           UpdateCapacity(consumed, tokens)
    PROVE  \E q, charge, p :
              /\ charge \in [Dims -> Nat]
              /\ charge = Charge(Current.unit, consumed, tokens)
              /\ Sound(q)
              /\ q.unit = Current.unit /\ q.window = Current.window
              /\ q.total = Current.total
              /\ q.window = "periodic" =>
                    /\ q.used = [d \in Dims |-> spent[d] + charge[d]]
                    /\ q.reset_in > 0
              /\ p \in {NoPrediction, "critical", "constrained", "abundant"}
              /\ GetPrediction(q, p)
              /\ quota' = [q EXCEPT !.state = CapacityStateOf(q, p)]
              /\ spent' = [d \in Dims |-> spent[d] + charge[d]]
<1>. DEFINE due == ResetIfDue(Current)
            charge == Charge(due.unit, consumed, tokens)
            q == Consume(due, charge)
<1>1. /\ Sound(due)
      /\ due.window = "periodic" => due.used = spent /\ due.reset_in > 0
      /\ due.unit = Current.unit /\ due.window = Current.window
      /\ due.total = Current.total
    BY ResetSound
<1>2. due.unit = "mixed" => tokens # NoTokens
    BY DEF UpdateCapacity
<1>3. charge \in [Dims -> Nat]
    BY <1>2, QuotaAssumption DEF Charge
<1>4. /\ Sound(q)
      /\ q.used = [d \in Dims |-> due.used[d] + charge[d]]
      /\ q.unit = due.unit /\ q.window = due.window /\ q.total = due.total
      /\ q.reset_in = due.reset_in
    <2>. HIDE DEF due, charge
    <2>. QED
        BY <1>1, <1>3, ConsumeSound
<1>5. PICK p \in CapacityState \cup {NoPrediction} :
          /\ GetPrediction(q, p)
          /\ quota' = [q EXCEPT !.state = CapacityStateOf(q, p)]
    BY DEF UpdateCapacity
<1>6. spent' = [d \in Dims |-> spent[d] + charge[d]]
    BY DEF UpdateCapacity
<1>7. p \in {NoPrediction, "critical", "constrained", "abundant"}
    <2>. HIDE DEF q
    <2>. QED
        BY <1>5, PredictionType
<1>. HIDE DEF q, due
<1>8. charge = Charge(Current.unit, consumed, tokens)
    BY <1>1
<1>. HIDE DEF charge
<1>9. q.window = "periodic" => /\ q.used = [d \in Dims |-> spent[d] + charge[d]]
                               /\ q.reset_in > 0
    BY <1>1, <1>4
<1>10. q.unit = Current.unit /\ q.window = Current.window /\ q.total = Current.total
    BY <1>1, <1>4
<1>. WITNESS q, charge, p
<1>. QED
    BY <1>3, <1>4, <1>5, <1>6, <1>7, <1>8, <1>9, <1>10

\* A sound quota state stays sound under a new capacity state.
LEMMA StateChangeSound ==
    ASSUME NEW q, Sound(q), NEW s \in CapacityState
    PROVE  LET r == [q EXCEPT !.state = s]
           IN  /\ Sound(r) /\ r.state = s
               /\ r.unit = q.unit /\ r.window = q.window /\ r.total = q.total
               /\ r.remaining = q.remaining /\ r.used = q.used /\ r.reset_in = q.reset_in
    BY DEF Sound, QuotaState, Covered, Aligned

\* update_capacity keeps the invariant.
LEMMA UpdateKeepsInv ==
    ASSUME EngineInv,
           NEW consumed \in Amounts, NEW tokens \in Amounts \cup {NoTokens},
           UpdateCapacity(consumed, tokens)
    PROVE  EngineInv'
<1>1. PICK q, charge, p :
              /\ charge \in [Dims -> Nat]
              /\ charge = Charge(Current.unit, consumed, tokens)
              /\ Sound(q)
              /\ q.unit = Current.unit /\ q.window = Current.window
              /\ q.total = Current.total
              /\ q.window = "periodic" =>
                    /\ q.used = [d \in Dims |-> spent[d] + charge[d]]
                    /\ q.reset_in > 0
              /\ p \in {NoPrediction, "critical", "constrained", "abundant"}
              /\ GetPrediction(q, p)
              /\ quota' = [q EXCEPT !.state = CapacityStateOf(q, p)]
              /\ spent' = [d \in Dims |-> spent[d] + charge[d]]
    BY UpdateEffect
<1>2. touched' = TRUE /\ ttl' = ttl /\ phase' = phase
    BY DEF UpdateCapacity
<1>3. CapacityStateOf(q, p) \in CapacityState
    BY <1>1, CapacityStateType DEF Sound
<1>4. /\ Sound(quota') /\ quota'.window = q.window
      /\ quota'.used = q.used /\ quota'.reset_in = q.reset_in
    BY <1>1, <1>3, StateChangeSound
<1>5. quota' # NoQuota
    BY <1>4, NoQuotaAssumption DEF Sound
<1>6. spent' \in [Dims -> Nat]
    BY <1>1 DEF EngineInv, TypeRest
<1>7. TypeRest'
    BY <1>1, <1>2, <1>6, PredictionType DEF EngineInv, TypeRest
<1>8. Sound(quota)'
    BY <1>2, <1>4 DEF Sound, Covered, Aligned, NextReset
<1>9. Booked(quota, touched, spent)'
    BY <1>1, <1>2, <1>4 DEF Booked
<1>. QED
    BY <1>5, <1>7, <1>8, <1>9 DEF EngineInv

\* A call that leaves the consumption and the clock alone keeps the invariant
\* if it leaves a sound quota state that agrees with the history.
LEMMA QuotaOnly ==
    ASSUME EngineInv, UNCHANGED <<ttl, cache, phase, spent>>, touched' \in BOOLEAN,
           quota' # NoQuota, Sound(quota'), Booked(quota', touched', spent)
    PROVE  EngineInv'
    BY DEF EngineInv, TypeRest, Sound, Covered, Aligned, Booked, NextReset

LEMMA OtherCallsKeepInv ==
    ASSUME EngineInv, UpdateMixedFails \/ HandleQuotaResponse \/ GetQuotaState
    PROVE  EngineInv'
<1>1. CASE UpdateMixedFails
    <2>1. /\ quota' = ResetIfDue(Current)
          /\ touched' = (touched \/ Current.reset_in = 0)
          /\ UNCHANGED <<ttl, cache, phase, spent>>
        BY <1>1 DEF UpdateMixedFails
    <2>2. /\ Sound(quota')
          /\ quota'.window = "periodic" => quota'.used = spent /\ quota'.reset_in > 0
          /\ quota'.window = Current.window
        BY <2>1, ResetSound
    <2>3. Booked(Current, touched, spent) /\ Sound(Current)
        BY CurrentSound
    <2>4. CASE Current.reset_in = 0
        BY <2>1, <2>2, <2>4, QuotaOnly, NoQuotaAssumption DEF Booked, Sound
    <2>5. CASE Current.reset_in # 0
        <3>1. quota' = Current
            BY <2>1, <2>5 DEF ResetIfDue
        <3>2. touched' = touched
            BY <2>1, <2>5 DEF EngineInv, TypeRest
        <3>. QED
            BY <2>1, <2>3, <3>1, <3>2, QuotaOnly, CurrentSound DEF EngineInv, TypeRest
    <2>. QED
        BY <2>4, <2>5
<1>2. CASE HandleQuotaResponse
    <2>. DEFINE left == IF Current.remaining["capacity"] = Unknown THEN Unknown ELSE 0
                c == Current
    <2>1. /\ quota' = [c EXCEPT !.state = "exhausted", !.remaining["capacity"] = left]
          /\ UNCHANGED <<ttl, cache, phase, spent, touched>>
        BY <1>2 DEF HandleQuotaResponse
    <2>2. Sound(c) /\ Booked(c, touched, spent)
        BY CurrentSound
    <2>3. left \in Known /\ "capacity" \in Dims /\ "exhausted" \in CapacityState
        BY DEF Known, Dims, CapacityState
    <2>4. left = Unknown => c.remaining["capacity"] = Unknown
        BY QuotaAssumption
    <2>5. left # Unknown => left = 0
        OBVIOUS
    <2>. HIDE DEF left, c
    <2>6. c \in QuotaState /\ c.remaining \in [Dims -> Known] /\ Covered(c) /\ Aligned(c)
        BY <2>2 DEF Sound, QuotaState
    <2>7. /\ quota' \in QuotaState
          /\ quota'.remaining = [c.remaining EXCEPT !["capacity"] = left]
          /\ quota'.used = c.used /\ quota'.total = c.total
          /\ quota'.window = c.window /\ quota'.reset_in = c.reset_in
        BY <2>1, <2>3, <2>6 DEF QuotaState
    <2>8. Covered(quota')
        BY <2>4, <2>5, <2>6, <2>7 DEF Covered
    <2>9. Sound(quota') /\ Booked(quota', touched', spent) /\ quota' # NoQuota
        BY <2>1, <2>2, <2>6, <2>7, <2>8, NoQuotaAssumption DEF Sound, Aligned, Booked
    <2>. QED
        BY <2>1, <2>9, QuotaOnly DEF EngineInv, TypeRest
<1>3. CASE GetQuotaState
    BY <1>3, CurrentSound, QuotaOnly DEF GetQuotaState, EngineInv, TypeRest
<1>. QED
    BY <1>1, <1>2, <1>3

LEMMA CallsKeepInv ==
    ASSUME EngineInv, EngineCall
    PROVE  EngineInv'
    BY UpdateKeepsInv, OtherCallsKeepInv DEF EngineCall

\* Time moves the distance to reset_at and the position in the period together.
LEMMA TickKeepsInv ==
    ASSUME EngineInv, Tick
    PROVE  EngineInv'
<1>1. /\ Period \in Nat /\ Period > 0 /\ phase \in 0..Period - 1 /\ ttl \in Nat
      /\ touched \in BOOLEAN /\ spent \in [Dims -> Nat]
    BY QuotaAssumption DEF EngineInv, TypeRest
<1>2. phase' = IF phase = Period - 1 THEN 0 ELSE phase + 1
    BY DEF Tick
<1>3. /\ spent' = IF Boundary THEN Zero ELSE spent
      /\ touched' = (touched /\ ~Boundary)
      /\ ttl' = ttl
    BY DEF Tick
<1>4. cache' \in {NoPrediction} \cup
              [class : {"critical", "constrained", "abundant"}, age : 0..ttl - 1]
    <2>1. CASE cache = NoPrediction \/ cache.age + 1 >= ttl
        BY <2>1 DEF Tick
    <2>2. CASE ~(cache = NoPrediction \/ cache.age + 1 >= ttl)
        <3>1. cache \in [class : {"critical", "constrained", "abundant"}, age : 0..ttl - 1]
            BY <2>2 DEF EngineInv, TypeRest
        <3>2. cache' = [cache EXCEPT !.age = cache.age + 1]
            BY <2>2 DEF Tick
        <3>3. cache.age + 1 \in 0..ttl - 1
            BY <1>1, <2>2, <3>1
        <3>. QED
            BY <3>1, <3>2, <3>3
    <2>. QED
        BY <2>1, <2>2
<1>5. TypeRest'
    <2>1. Zero \in [Dims -> Nat]
        BY DEF Zero
    <2>2. phase' \in 0..Period - 1
        BY <1>1, <1>2
    <2>3. ttl' \in TTLs
        BY <1>3 DEF EngineInv, TypeRest
    <2>4. (touched /\ ~Boundary) \in BOOLEAN
        OBVIOUS
    <2>. QED
        BY <1>1, <1>3, <1>4, <2>1, <2>2, <2>3, <2>4 DEF TypeRest
<1>6. CASE quota = NoQuota
    <2>1. quota' = NoQuota
        BY <1>6 DEF Tick
    <2>2. spent' = Zero /\ touched' = FALSE
        BY <1>3, <1>6 DEF EngineInv
    <2>. QED
        BY <1>5, <2>1, <2>2 DEF EngineInv
<1>7. CASE quota # NoQuota /\ quota.reset_in = 0
    <2>1. quota' = quota /\ Sound(quota) /\ Booked(quota, touched, spent)
        BY <1>7 DEF Tick, EngineInv
    <2>2. Aligned(quota)' /\ Covered(quota)' /\ quota' \in QuotaState
        BY <1>7, <2>1 DEF Aligned, Sound, Covered
    <2>3. Booked(quota, touched, spent)'
        BY <1>1, <1>3, <1>7, <2>1 DEF Booked
    <2>. QED
        BY <1>5, <1>7, <2>1, <2>2, <2>3 DEF EngineInv, Sound
<1>8. CASE quota # NoQuota /\ quota.reset_in # 0
    <2>1. Sound(quota) /\ Booked(quota, touched, spent)
        BY <1>8 DEF EngineInv
    <2>2. /\ quota \in QuotaState /\ quota.reset_in \in Nat /\ quota.reset_in - 1 \in Nat
          /\ Covered(quota) /\ Aligned(quota)
        BY <1>8, <2>1 DEF Sound, QuotaState
    <2>3. quota' = [quota EXCEPT !.reset_in = quota.reset_in - 1]
        BY <1>8 DEF Tick
    <2>4. /\ quota' \in QuotaState /\ quota'.reset_in = quota.reset_in - 1
          /\ quota'.window = quota.window /\ quota'.used = quota.used
          /\ quota'.total = quota.total /\ quota'.remaining = quota.remaining
        BY <2>2, <2>3 DEF QuotaState
    <2>5. Covered(quota)'
        BY <2>2, <2>4 DEF Covered
    <2>6. quota.window = "periodic" => /\ quota.reset_in = Period - phase
                                       /\ Boundary <=> phase = Period - 1
        BY <1>8, <2>2 DEF Aligned, NextReset, Boundary
    <2>7. Aligned(quota)'
        BY <1>1, <1>2, <2>2, <2>4, <2>6 DEF Aligned, NextReset
    <2>8. Booked(quota, touched, spent)'
        <3>. SUFFICES ASSUME quota.window = "periodic"
                      PROVE  /\ touched' => quota'.used = spent' /\ quota'.reset_in > 0
                             /\ ~touched' => /\ spent' = Zero
                                             /\ quota'.reset_in > 0 => quota'.used = Zero
            BY <2>4 DEF Booked
        <3>1. CASE phase = Period - 1
            <4>1. Boundary /\ quota.reset_in = 1
                BY <1>1, <2>6, <3>1
            <4>2. ~touched' /\ spent' = Zero
                BY <1>3, <4>1
            <4>3. quota'.reset_in = 0
                BY <2>4, <4>1
            <4>. QED
                BY <4>2, <4>3
        <3>2. CASE phase # Period - 1
            <4>1. ~Boundary /\ quota.reset_in = Period - phase
                BY <1>1, <2>6, <3>2
            <4>2. (touched' <=> touched) /\ spent' = spent
                BY <1>3, <4>1
            <4>3. quota.reset_in > 1
                BY <1>1, <3>2, <4>1
            <4>4. quota'.used = quota.used /\ quota'.reset_in > 0
                BY <2>2, <2>4, <4>3
            <4>5. (touched => quota.used = spent) /\ (~touched => spent = Zero /\ quota.used = Zero)
                BY <1>1, <2>1, <2>2, <4>3 DEF Booked
            <4>. QED
                BY <4>2, <4>4, <4>5
        <3>. QED
            BY <3>1, <3>2
    <2>9. quota' # NoQuota
        BY <2>4, NoQuotaAssumption
    <2>. QED
        BY <1>5, <2>4, <2>5, <2>7, <2>8, <2>9 DEF EngineInv, Sound
<1>. QED
    BY <1>6, <1>7, <1>8

-----------------------------------------------------------------------------
(* The invariant of the engine and its consequences.                       *)

LEMMA EngineInit ==
    QEInit => EngineInv
<1>. SUFFICES ASSUME QEInit PROVE EngineInv
    OBVIOUS
<1>1. phase \in 0..Period - 1 /\ ttl \in TTLs /\ cache = NoPrediction
      /\ spent = Zero /\ touched = FALSE
    BY DEF QEInit
<1>2. TypeRest
    BY <1>1 DEF TypeRest, Zero
<1>3. CASE quota = NoQuota
    BY <1>1, <1>2, <1>3 DEF EngineInv
<1>4. CASE quota \in SavedQuotas
    <2>1. /\ quota \in [unit : Units, window : {"periodic", "custom"},
                        total : [Dims -> Totals \cup {Unknown}],
                        remaining : [Dims -> Totals \cup {Unknown}],
                        used : {Zero}, state : {"abundant"}, reset_in : 1..Period]
          /\ quota.window = "periodic" => quota.reset_in = NextReset
          /\ \A d \in Dims : quota.total[d] # Unknown => quota.remaining[d] = quota.total[d]
        BY <1>4 DEF SavedQuotas
    <2>2. [Dims -> Totals \cup {Unknown}] \subseteq [Dims -> Known] /\ Zero \in [Dims -> Nat]
        BY QuotaAssumption DEF Known, Zero
    <2>3. 1..Period \subseteq Nat /\ "abundant" \in CapacityState
        BY QuotaAssumption DEF CapacityState
    <2>4. quota \in QuotaState
        BY <2>1, <2>2, <2>3 DEF QuotaState
    <2>5. /\ quota.used = Zero /\ quota.reset_in \in 1..Period
          /\ quota.total \in [Dims -> Totals \cup {Unknown}]
        BY <2>1
    <2>6. Covered(quota)
        <3>. SUFFICES ASSUME NEW d \in Dims, quota.total[d] # Unknown
                      PROVE  /\ quota.remaining[d] # Unknown
                             /\ quota.remaining[d] + quota.used[d] <= quota.total[d]
            BY DEF Covered
        <3>1. quota.total[d] \in Nat /\ quota.remaining[d] = quota.total[d]
            BY <2>1, <2>5, QuotaAssumption
        <3>2. quota.used[d] = 0
            BY <2>5 DEF Zero
        <3>. QED
            BY <3>1, <3>2
    <2>7. Aligned(quota) /\ Booked(quota, touched, spent)
        BY <1>1, <2>1, <2>5 DEF Aligned, Booked
    <2>8. quota # NoQuota
        BY <2>4, NoQuotaAssumption
    <2>. QED
        BY <1>2, <2>4, <2>6, <2>7, <2>8 DEF EngineInv, Sound
<1>. QED
    BY <1>3, <1>4 DEF QEInit

LEMMA EngineStep ==
    EngineInv /\ [QENext]_qeVars => EngineInv'
<1>1. ASSUME EngineInv, UNCHANGED qeVars PROVE EngineInv'
    BY <1>1 DEF qeVars, EngineInv, TypeRest, Sound, Covered, Aligned, Booked, NextReset
<1>. QED
    BY <1>1, CallsKeepInv, TickKeepsInv DEF QENext

LEMMA EngineInvImplies ==
    EngineInv => QETypeOK /\ RemainingIsCovered /\ UsedIsOfThisPeriod
<1>. SUFFICES ASSUME EngineInv PROVE QETypeOK /\ RemainingIsCovered /\ UsedIsOfThisPeriod
    OBVIOUS
<1>1. QETypeOK
    BY DEF EngineInv, TypeRest, Sound, Aligned, QETypeOK
<1>2. RemainingIsCovered
    BY DEF EngineInv, Sound, Covered, RemainingIsCovered
<1>3. UsedIsOfThisPeriod
    BY DEF EngineInv, TypeRest, Booked, UsedIsOfThisPeriod
<1>. QED
    BY <1>1, <1>2, <1>3

LEMMA EngineInvariant ==
    QESpec => []EngineInv
    BY EngineInit, EngineStep, PTL DEF QESpec

\* QuotaAwarenessEngine alone: whatever calls it gets, and however many periods
\* pass between them, its state is well-formed, never overstates the remaining
\* capacity, and counts the consumption of the current period only.
THEOREM EngineCorrect ==
    QESpec => [](QETypeOK /\ RemainingIsCovered /\ UsedIsOfThisPeriod)
    BY EngineInvariant, EngineInvImplies, PTL

-----------------------------------------------------------------------------
(* Requests and their consumption.                                         *)

\* The quotas that the filter watches over.
Metered ==
    /\ ttl = 0
    /\ quota # NoQuota /\ quota.window = "periodic" /\ quota.unit # "mixed"
    /\ quota.total["capacity"] # Unknown

\* Why the filter helps: a state that passes it is one with capacity left.
FilterIsHonest ==
    Metered /\ touched /\ PassesFilter(quota) => quota.remaining["capacity"] > 0

\* A request under way has its answer's consumption set aside.
Reserved ==
    Metered =>
        routed <= quota.total["capacity"]
                  + (MaxInFlight - inFlight + resorts) * MaxAmount

RouteInv ==
    /\ inFlight \in 0..MaxInFlight /\ routed \in Nat /\ resorts \in Nat
    /\ routed <= spent["capacity"]
    /\ FilterIsHonest
    /\ Reserved

\* Reservations add up.
LEMMA Reserve ==
    ASSUME NEW x \in Nat
    PROVE  /\ x * MaxAmount \in Nat
           /\ (x + 1) * MaxAmount = x * MaxAmount + MaxAmount
    BY QuotaRouteAssumption

LEMMA MoreReserved ==
    ASSUME NEW x \in Nat, NEW y \in Nat, x <= y
    PROVE  x * MaxAmount <= y * MaxAmount
<1>1. y - x \in Nat /\ y = x + (y - x)
    OBVIOUS
<1>2. (y - x) * MaxAmount \in Nat /\ x * MaxAmount \in Nat
    BY <1>1, QuotaRouteAssumption
<1>3. (x + (y - x)) * MaxAmount = x * MaxAmount + (y - x) * MaxAmount
    BY <1>1, QuotaRouteAssumption
<1>. QED
    BY <1>1, <1>2, <1>3

\* A prediction or a share that passes the filter needs capacity to be left.
LEMMA StateIsHonest ==
    ASSUME EngineInv, ttl = 0, NEW q \in QuotaState, Covered(q), q.unit # "mixed",
           q.total["capacity"] # Unknown,
           NEW p \in {NoPrediction, "critical", "constrained", "abundant"},
           GetPrediction(q, p), CapacityStateOf(q, p) \notin {"exhausted", "critical"}
    PROVE  q.remaining["capacity"] > 0
<1>1. q.remaining["capacity"] \in Nat /\ q.total["capacity"] \in Nat
    BY DEF QuotaState, Known, Dims, Covered
<1>2. cache = NoPrediction
    BY DEF EngineInv, TypeRest
<1>3. CASE p # NoPrediction
    <2>1. q.remaining["capacity"] \notin {Unknown, 0}
        BY <1>2, <1>3 DEF GetPrediction, NewPredictions
    <2>. QED
        BY <1>1, <2>1
<1>4. CASE p = NoPrediction
    <2>1. CapacityStateOf(q, p) = ShareState(q.remaining["capacity"], q.total["capacity"])
        BY <1>1, <1>4, QuotaAssumption DEF CapacityStateOf
    <2>. QED
        BY <1>1, <2>1, ShareStateFacts
<1>. QED
    BY <1>3, <1>4

\* What the calls of the engine do, as the requests see it.
LEMMA CallEffect ==
    ASSUME EngineInv, FilterIsHonest, EngineCall
    PROVE  /\ FilterIsHonest'
           /\ Metered' => Metered /\ quota'.total = quota.total
           /\ spent' \in [Dims -> Nat] /\ spent'["capacity"] >= spent["capacity"]
<1>. "capacity" \in Dims
    BY DEF Dims
<1>1. spent \in [Dims -> Nat]
    BY DEF EngineInv, TypeRest
<1>2. quota = NoQuota => Current.total["capacity"] = Unknown
    BY DEF Current, InitialQuota
<1>3. quota # NoQuota => Current = quota
    BY DEF Current
<1>4. ASSUME NEW consumed \in Amounts, NEW tokens \in Amounts \cup {NoTokens},
             UpdateCapacity(consumed, tokens)
      PROVE  /\ FilterIsHonest'
             /\ Metered' => Metered /\ quota'.total = quota.total
             /\ spent' \in [Dims -> Nat] /\ spent'["capacity"] >= spent["capacity"]
    <2>1. PICK q, charge, p :
              /\ charge \in [Dims -> Nat]
              /\ charge = Charge(Current.unit, consumed, tokens)
              /\ Sound(q)
              /\ q.unit = Current.unit /\ q.window = Current.window
              /\ q.total = Current.total
              /\ q.window = "periodic" =>
                    /\ q.used = [d \in Dims |-> spent[d] + charge[d]]
                    /\ q.reset_in > 0
              /\ p \in {NoPrediction, "critical", "constrained", "abundant"}
              /\ GetPrediction(q, p)
              /\ quota' = [q EXCEPT !.state = CapacityStateOf(q, p)]
              /\ spent' = [d \in Dims |-> spent[d] + charge[d]]
        BY <1>4, UpdateEffect
    <2>2. ttl' = ttl
        BY <1>4 DEF UpdateCapacity
    <2>3. CapacityStateOf(q, p) \in CapacityState
        BY <2>1, CapacityStateType DEF Sound
    <2>4. /\ quota'.unit = q.unit /\ quota'.window = q.window /\ quota'.total = q.total
          /\ quota'.remaining = q.remaining /\ quota'.state = CapacityStateOf(q, p)
        BY <2>1, <2>3, StateChangeSound
    <2>5. Metered' => Metered /\ quota'.total = quota.total
        BY <1>2, <1>3, <2>1, <2>2, <2>4 DEF Metered
    <2>6. FilterIsHonest'
        <3>. SUFFICES ASSUME Metered', PassesFilter(quota')
                      PROVE  q.remaining["capacity"] > 0
            BY <2>4 DEF FilterIsHonest
        <3>1. ttl = 0 /\ q.unit # "mixed" /\ q.total["capacity"] # Unknown
            BY <2>2, <2>4 DEF Metered
        <3>2. CapacityStateOf(q, p) \notin {"exhausted", "critical"}
            BY <2>4 DEF PassesFilter
        <3>. QED
            BY <2>1, <3>1, <3>2, StateIsHonest DEF Sound
    <2>7. spent' \in [Dims -> Nat] /\ spent'["capacity"] = spent["capacity"] + charge["capacity"]
        BY <1>1, <2>1
    <2>. QED
        BY <1>1, <2>1, <2>5, <2>6, <2>7
<1>5. CASE UpdateMixedFails
    <2>1. /\ Current.unit = "mixed" /\ quota' = ResetIfDue(Current)
          /\ spent' = spent
        BY <1>5 DEF UpdateMixedFails
    <2>2. ~Metered'
        BY <2>1, ResetSound DEF Metered
    <2>. QED
        BY <1>1, <2>1, <2>2 DEF FilterIsHonest
<1>6. CASE HandleQuotaResponse
    <2>1. /\ quota' = [Current EXCEPT
                    !.state = "exhausted",
                    !.remaining["capacity"] =
                        IF Current.remaining["capacity"] = Unknown THEN Unknown ELSE 0]
          /\ spent' = spent /\ ttl' = ttl
        BY <1>6 DEF HandleQuotaResponse
    <2>2. Current \in QuotaState
        BY CurrentSound DEF Sound
    <2>3. /\ quota'.unit = Current.unit /\ quota'.window = Current.window
          /\ quota'.total = Current.total /\ quota'.state = "exhausted"
        BY <2>1, <2>2 DEF QuotaState
    <2>4. FilterIsHonest'
        BY <2>3 DEF FilterIsHonest, PassesFilter
    <2>5. Metered' => Metered /\ quota'.total = quota.total
        BY <1>2, <1>3, <2>1, <2>3 DEF Metered
    <2>. QED
        BY <1>1, <2>1, <2>4, <2>5
<1>7. CASE GetQuotaState
    <2>1. quota' = Current /\ spent' = spent /\ ttl' = ttl /\ touched' = touched
        BY <1>7 DEF GetQuotaState
    <2>2. Metered' => Metered /\ quota' = quota
        BY <1>2, <1>3, <2>1 DEF Metered
    <2>. QED
        BY <1>1, <2>1, <2>2 DEF FilterIsHonest
<1>. QED
    BY <1>4, <1>5, <1>6, <1>7 DEF EngineCall

\* What the requests under way and the last resorts leave of the reservations.
LEMMA Slack ==
    ASSUME NEW f \in 0..MaxInFlight, NEW r \in Nat
    PROVE  /\ MaxInFlight - f + r \in Nat
           /\ (MaxInFlight - f + r) * MaxAmount \in Nat
           /\ (MaxInFlight - f + r) * MaxAmount <= (MaxInFlight + r) * MaxAmount
<1>1. /\ MaxInFlight - f + r \in Nat /\ MaxInFlight + r \in Nat
      /\ MaxInFlight - f + r <= MaxInFlight + r
    BY QuotaRouteAssumption
<1>. QED
    BY <1>1, Reserve, MoreReserved

\* A request starts on a metered quota only while the period is not overdrawn.
LEMMA StartFindsCapacity ==
    ASSUME EngineInv, RouteInv, Metered, PassesFilter(quota)
    PROVE  routed <= quota.total["capacity"]
<1>. "capacity" \in Dims
    BY DEF Dims
<1>1. /\ quota \in QuotaState /\ Covered(quota) /\ Booked(quota, touched, spent)
      /\ quota.window = "periodic" /\ quota.total["capacity"] # Unknown
      /\ spent \in [Dims -> Nat] /\ touched \in BOOLEAN
    BY DEF EngineInv, TypeRest, Sound, Metered
<1>2. /\ quota.total["capacity"] \in Nat /\ quota.remaining["capacity"] \in Nat
      /\ quota.used["capacity"] \in Nat /\ spent["capacity"] \in Nat
    BY <1>1 DEF QuotaState, Known, Covered
<1>3. routed \in Nat /\ routed <= spent["capacity"]
    BY DEF RouteInv
<1>4. CASE touched
    <2>1. quota.used = spent
        BY <1>1, <1>4 DEF Booked
    <2>2. quota.remaining["capacity"] > 0
        BY <1>4 DEF RouteInv, FilterIsHonest
    <2>3. quota.remaining["capacity"] + quota.used["capacity"] <= quota.total["capacity"]
        BY <1>1, <1>2, <2>2 DEF Covered
    <2>. QED
        BY <1>2, <1>3, <2>1, <2>2, <2>3
<1>5. CASE ~touched
    <2>1. spent["capacity"] = 0
        BY <1>1, <1>5 DEF Booked, Zero
    <2>. QED
        BY <1>2, <1>3, <2>1
<1>. QED
    BY <1>1, <1>4, <1>5

LEMMA RouteInit ==
    QRInit => RouteInv
<1>. SUFFICES ASSUME QRInit PROVE RouteInv
    OBVIOUS
<1>1. inFlight = 0 /\ routed = 0 /\ resorts = 0 /\ touched = FALSE /\ spent = Zero
    BY DEF QRInit, QEInit
<1>2. inFlight \in 0..MaxInFlight /\ routed \in Nat /\ resorts \in Nat
    BY <1>1, QuotaRouteAssumption
<1>3. EngineInv
    BY EngineInit DEF QRInit
<1>4. Reserved
    <2>1. SUFFICES ASSUME Metered
                   PROVE  routed <= quota.total["capacity"]
                                    + (MaxInFlight - inFlight + resorts) * MaxAmount
        BY DEF Reserved
    <2>2. quota.total["capacity"] \in Nat
        BY <1>3, <2>1 DEF EngineInv, Sound, QuotaState, Known, Dims, Metered
    <2>3. (MaxInFlight - inFlight + resorts) * MaxAmount \in Nat
        BY <1>2, Slack
    <2>. QED
        BY <1>1, <2>2, <2>3
<1>. QED
    BY <1>1, <1>2, <1>4 DEF RouteInv, FilterIsHonest, Zero, Dims

\* The engine's calls leave the invariant alone; only the number of requests
\* and what they report has to be accounted for.
LEMMA CallKeepsReserved ==
    ASSUME EngineInv, EngineInv', RouteInv, EngineCall,
           inFlight' \in 0..MaxInFlight, resorts' \in Nat, routed' \in Nat,
           routed' <= spent'["capacity"],
           Metered /\ quota'.total = quota.total =>
               routed' <= quota.total["capacity"]
                          + (MaxInFlight - inFlight' + resorts') * MaxAmount
    PROVE  RouteInv'
<1>1. FilterIsHonest' /\ (Metered' => Metered /\ quota'.total = quota.total)
    BY CallEffect DEF RouteInv
<1>2. Reserved'
    BY <1>1 DEF Reserved
<1>. QED
    BY <1>1, <1>2 DEF RouteInv

LEMMA StartKeepsInv ==
    ASSUME EngineInv, EngineInv', RouteInv, Start \/ StartAsLastResort
    PROVE  RouteInv'
<1>1. /\ inFlight \in 0..MaxInFlight /\ routed \in Nat /\ resorts \in Nat
      /\ routed <= spent["capacity"]
    BY DEF RouteInv
<1>2. /\ GetQuotaState /\ EngineCall /\ spent' = spent /\ routed' = routed
      /\ inFlight < MaxInFlight /\ inFlight' = inFlight + 1
    BY DEF Start, StartAsLastResort, GetQuotaState, EngineCall
<1>3. inFlight' \in 0..MaxInFlight
    BY <1>1, <1>2, QuotaRouteAssumption
<1>4. CASE Start
    <2>1. resorts' = resorts /\ PassesFilter(Current)
        BY <1>4 DEF Start
    <2>2. ASSUME Metered
          PROVE  routed' <= quota.total["capacity"]
                            + (MaxInFlight - inFlight' + resorts') * MaxAmount
        <3>1. Current = quota
            BY <2>2 DEF Metered, Current
        <3>2. routed <= quota.total["capacity"]
            BY <2>1, <2>2, <3>1, StartFindsCapacity
        <3>3. (MaxInFlight - inFlight' + resorts') * MaxAmount \in Nat
            BY <1>1, <1>3, <2>1, Slack
        <3>4. quota.total["capacity"] \in Nat
            BY <2>2 DEF EngineInv, Sound, QuotaState, Known, Dims, Metered
        <3>. QED
            BY <1>1, <1>2, <3>2, <3>3, <3>4
    <2>. QED
        BY <1>1, <1>2, <1>3, <2>1, <2>2, CallKeepsReserved
<1>5. CASE StartAsLastResort
    <2>1. resorts' = resorts + 1
        BY <1>5 DEF StartAsLastResort
    <2>2. MaxInFlight - inFlight' + resorts' = MaxInFlight - inFlight + resorts
        BY <1>1, <1>2, <2>1, QuotaRouteAssumption
    <2>3. resorts' \in Nat
        BY <1>1, <2>1
    <2>4. Metered => routed' <= quota.total["capacity"]
                                + (MaxInFlight - inFlight' + resorts') * MaxAmount
        BY <1>2, <2>2 DEF RouteInv, Reserved
    <2>. QED
        BY <1>1, <1>2, <1>3, <2>3, <2>4, CallKeepsReserved
<1>. QED
    BY <1>4, <1>5

\* An answer gives back the reservation it uses.
LEMMA AnswerKeepsInv ==
    ASSUME EngineInv, EngineInv', RouteInv, Answer
    PROVE  RouteInv'
<1>1. /\ inFlight \in 0..MaxInFlight /\ routed \in Nat /\ resorts \in Nat
      /\ routed <= spent["capacity"] /\ spent["capacity"] \in Nat
    BY DEF RouteInv, EngineInv, TypeRest, Dims
<1>2. inFlight > 0 /\ inFlight' = inFlight - 1 /\ resorts' = resorts
    BY DEF Answer, Succeed, EndUnreported
<1>3. inFlight' \in 0..MaxInFlight
    BY <1>1, <1>2, QuotaRouteAssumption
<1>. DEFINE slack == MaxInFlight - inFlight + resorts
<1>4. slack \in Nat /\ MaxInFlight - inFlight' + resorts' = slack + 1
    BY <1>1, <1>2, QuotaRouteAssumption
<1>5. /\ slack * MaxAmount \in Nat
      /\ (MaxInFlight - inFlight' + resorts') * MaxAmount = slack * MaxAmount + MaxAmount
    BY <1>4, Reserve
<1>6. Metered => /\ quota.total["capacity"] \in Nat
                 /\ routed <= quota.total["capacity"] + slack * MaxAmount
    BY DEF RouteInv, Reserved, EngineInv, Sound, QuotaState, Known, Dims, Metered
<1>. HIDE DEF slack
<1>7. ASSUME NEW n \in Amounts, UpdateCapacity(n, NoTokens), routed' = routed + n
      PROVE  RouteInv'
    <2>1. n \in Nat /\ n <= MaxAmount
        BY QuotaAssumption, QuotaRouteAssumption
    <2>2. spent'["capacity"] = spent["capacity"] + n
        BY <1>7 DEF UpdateCapacity, Charge, Dims
    <2>3. EngineCall
        BY <1>7 DEF EngineCall
    <2>4. Metered => routed' <= quota.total["capacity"]
                                + (MaxInFlight - inFlight' + resorts') * MaxAmount
        BY <1>1, <1>5, <1>6, <1>7, <2>1, QuotaRouteAssumption
    <2>5. routed' \in Nat /\ routed' <= spent'["capacity"]
        BY <1>1, <1>7, <2>1, <2>2
    <2>. QED
        BY <1>1, <1>2, <1>3, <2>3, <2>4, <2>5, CallKeepsReserved
<1>8. ASSUME routed' = routed PROVE
          Metered => routed' <= quota.total["capacity"]
                                + (MaxInFlight - inFlight' + resorts') * MaxAmount
    BY <1>1, <1>5, <1>6, <1>8, QuotaRouteAssumption
<1>9. CASE UpdateMixedFails /\ routed' = routed
    <2>1. EngineCall /\ spent' = spent
        BY <1>9 DEF EngineCall, UpdateMixedFails
    <2>. QED
        BY <1>1, <1>2, <1>3, <1>8, <1>9, <2>1, CallKeepsReserved
<1>10. CASE UNCHANGED qeVars /\ routed' = routed
    <2>1. FilterIsHonest' /\ (Metered' <=> Metered) /\ quota' = quota /\ spent' = spent
        BY <1>10 DEF qeVars, RouteInv, FilterIsHonest, Metered, PassesFilter
    <2>2. Reserved'
        BY <1>8, <1>10, <2>1 DEF Reserved
    <2>. QED
        BY <1>1, <1>2, <1>3, <1>10, <2>1, <2>2 DEF RouteInv
<1>. QED
    BY <1>7, <1>9, <1>10 DEF Answer, Succeed, EndUnreported

\* Time only ends periods.
LEMMA TickRouteKeepsInv ==
    ASSUME EngineInv, EngineInv', RouteInv, TickRoute
    PROVE  RouteInv'
<1>1. /\ inFlight \in 0..MaxInFlight /\ routed \in Nat /\ resorts \in Nat
      /\ routed <= spent["capacity"] /\ inFlight' = inFlight
    BY DEF RouteInv, TickRoute
<1>2. /\ routed' = (IF Boundary THEN 0 ELSE routed)
      /\ resorts' = (IF Boundary THEN 0 ELSE resorts)
      /\ spent' = (IF Boundary THEN Zero ELSE spent)
      /\ touched' = (touched /\ ~Boundary) /\ ttl' = ttl
    BY DEF TickRoute, Tick
<1>3. inFlight' \in 0..MaxInFlight /\ routed' \in Nat /\ resorts' \in Nat
    BY <1>1, <1>2
<1>4. routed' <= spent'["capacity"]
    BY <1>1, <1>2 DEF Zero, Dims
<1>5. quota = NoQuota => quota' = NoQuota
    BY DEF TickRoute, Tick
<1>6. quota # NoQuota => /\ quota'.unit = quota.unit /\ quota'.window = quota.window
                         /\ quota'.total = quota.total /\ quota'.state = quota.state
                         /\ quota'.remaining = quota.remaining
    BY DEF TickRoute, Tick, EngineInv, Sound, QuotaState
<1>7. Metered' => Metered /\ quota'.total = quota.total
    BY <1>2, <1>5, <1>6 DEF Metered
<1>8. FilterIsHonest'
    <2>1. SUFFICES ASSUME Metered', touched', PassesFilter(quota')
                   PROVE  quota'.remaining["capacity"] > 0
        BY DEF FilterIsHonest
    <2>2. Metered /\ touched /\ PassesFilter(quota)
        BY <1>2, <1>6, <1>7, <2>1 DEF Metered, PassesFilter
    <2>3. quota.remaining["capacity"] > 0
        BY <2>2 DEF RouteInv, FilterIsHonest
    <2>. QED
        BY <1>6, <2>2, <2>3 DEF Metered
<1>9. Reserved'
    <2>1. SUFFICES ASSUME Metered'
                   PROVE  routed' <= quota'.total["capacity"]
                                     + (MaxInFlight - inFlight' + resorts') * MaxAmount
        BY DEF Reserved
    <2>2. CASE Boundary
        <3>1. (MaxInFlight - inFlight' + resorts') * MaxAmount \in Nat
            BY <1>3, Slack
        <3>2. quota'.total["capacity"] \in Nat
            BY <2>1 DEF EngineInv, Sound, QuotaState, Known, Dims, Metered
        <3>. QED
            BY <1>2, <2>2, <3>1, <3>2
    <2>3. CASE ~Boundary
        <3>1. routed' = routed /\ resorts' = resorts
            BY <1>2, <2>3
        <3>. QED
            BY <1>1, <1>7, <2>1, <3>1 DEF RouteInv, Reserved
    <2>. QED
        BY <2>2, <2>3
<1>. QED
    BY <1>3, <1>4, <1>8, <1>9 DEF RouteInv

-----------------------------------------------------------------------------
(* The theorems about requests.                                            *)

LEMMA RouteRefinesEngine ==
    [QRNext]_qrVars => [QENext]_qeVars
<1>1. Start \/ StartAsLastResort => GetQuotaState
    BY DEF Start, StartAsLastResort
<1>2. ASSUME NEW n \in Amounts, Succeed(n) PROVE EngineCall
    BY <1>2 DEF Succeed, EngineCall
<1>3. EndUnreported => UNCHANGED qeVars
    BY DEF EndUnreported
<1>. QED
    BY <1>1, <1>2, <1>3 DEF QRNext, QENext, EngineCall, Answer, OtherCall, TickRoute, qrVars

LEMMA RouteStep ==
    ASSUME EngineInv, EngineInv', RouteInv, [QRNext]_qrVars
    PROVE  RouteInv'
<1>1. CASE OtherCall
    <2>1. EngineCall /\ inFlight' = inFlight /\ routed' = routed /\ resorts' = resorts
        BY <1>1 DEF OtherCall
    <2>2. spent' \in [Dims -> Nat] /\ spent'["capacity"] >= spent["capacity"]
        BY <2>1, CallEffect DEF RouteInv
    <2>3. spent["capacity"] \in Nat /\ spent'["capacity"] \in Nat
        BY <2>2 DEF EngineInv, TypeRest, Dims
    <2>4. /\ inFlight' \in 0..MaxInFlight /\ routed' \in Nat /\ resorts' \in Nat
          /\ routed' <= spent'["capacity"]
        BY <2>1, <2>2, <2>3 DEF RouteInv
    <2>5. Metered => routed' <= quota.total["capacity"]
                                + (MaxInFlight - inFlight' + resorts') * MaxAmount
        BY <2>1 DEF RouteInv, Reserved
    <2>. QED
        BY <2>1, <2>4, <2>5, CallKeepsReserved
<1>2. CASE UNCHANGED qrVars
    BY <1>2 DEF qrVars, qeVars, RouteInv, FilterIsHonest, Reserved, Metered, PassesFilter
<1>. QED
    BY <1>1, <1>2, StartKeepsInv, AnswerKeepsInv, TickRouteKeepsInv DEF QRNext

\* Requests use the engine as anybody does.
THEOREM RouteImplementsEngine ==
    QRSpec => QESpec
<1>1. QRInit => QEInit
    BY DEF QRInit
<1>. QED
    BY <1>1, RouteRefinesEngine, PTL DEF QRSpec, QESpec

LEMMA RouteInvariant ==
    QRSpec => [](EngineInv /\ RouteInv)
<1>1. QRInit => EngineInv /\ RouteInv
    BY EngineInit, RouteInit DEF QRInit
<1>2. EngineInv /\ RouteInv /\ [QRNext]_qrVars => (EngineInv /\ RouteInv)'
    BY RouteRefinesEngine, EngineStep, RouteStep
<1>. QED
    BY <1>1, <1>2, PTL DEF QRSpec

\* The quota state and the cache are well-formed, and a periodic reset_at is
\* the end of the current period or has passed unnoticed.
THEOREM QuotaTypeCorrect ==
    QRSpec => []QETypeOK
    BY RouteInvariant, EngineInvImplies, PTL

\* The remaining capacity is never overstated.
THEOREM RemainingCovered ==
    QRSpec => []RemainingIsCovered
    BY RouteInvariant, EngineInvImplies, PTL

\* A quota counts the consumption of the current period and no other.
THEOREM UsageIsCurrent ==
    QRSpec => []UsedIsOfThisPeriod
    BY RouteInvariant, EngineInvImplies, PTL

\* A period is overdrawn by one answer for each request under way and each
\* last resort at most, when predictions are not cached.
THEOREM OverdraftBounded ==
    QRSpec => []OverdraftIsBounded
<1>1. EngineInv /\ RouteInv => OverdraftIsBounded
    <2>1. SUFFICES ASSUME EngineInv, RouteInv, Metered
                   PROVE  routed <= quota.total["capacity"] + (MaxInFlight + resorts) * MaxAmount
        BY DEF OverdraftIsBounded, Metered
    <2>2. /\ inFlight \in 0..MaxInFlight /\ resorts \in Nat /\ routed \in Nat
          /\ routed <= quota.total["capacity"] + (MaxInFlight - inFlight + resorts) * MaxAmount
        BY <2>1 DEF RouteInv, Reserved
    <2>3. quota.total["capacity"] \in Nat
        BY <2>1 DEF EngineInv, Sound, QuotaState, Known, Dims, Metered
    <2>4. MaxInFlight + resorts \in Nat
        BY <2>2, QuotaRouteAssumption
    <2>5. (MaxInFlight + resorts) * MaxAmount \in Nat
        BY <2>4, Reserve
    <2>. QED
        BY <2>2, <2>3, <2>5, Slack
<1>. QED
    BY <1>1, RouteInvariant, PTL
=============================================================================
