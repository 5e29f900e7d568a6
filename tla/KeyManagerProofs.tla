-------------------------- MODULE KeyManagerProofs --------------------------
(***************************************************************************)
(* Proofs about KeyManager for every set of keys, every bound and every    *)
(* cooldown.  Typing comes first; with it the cooldown invariant and the   *)
(* audit invariant are each inductive on their own.                        *)
(***************************************************************************)
EXTENDS KeyManager, TLAPS

\* update_key_state builds a well-typed object, with a deadline exactly when the
\* new state is throttled.
LEMMA WithStateFacts ==
    ASSUME NEW key \in APIKey, NEW s \in KeyState, NEW c \in Cooldowns \cup {NoCooldown}
    PROVE  /\ WithState(key, s, c) \in APIKey
           /\ WithState(key, s, c).state = s
           /\ s = "throttled" <=> WithState(key, s, c).cooldown_until # NoCooldown
  <1>1. CooldownDuration(c) \in Nat
    BY KeyManagerAssumption DEF CooldownDuration
  <1>2. QED
    BY <1>1, KeyManagerAssumption DEF WithState, APIKey

\* The object a registered id is bound to is a well-typed object.
LEMMA StoredKeyType ==
    ASSUME KMTypeOK, NEW k \in Registered
    PROVE  /\ k \in Keys
           /\ stored[k] \in Objects
           /\ stored[k] <= created[k]
           /\ StoredKey(k) \in APIKey
  BY KeyManagerAssumption DEF KMTypeOK, Registered, StoredKey, Objects

LEMMA FreshKeyType == FreshKey \in APIKey
  BY KeyManagerAssumption DEF FreshKey, APIKey, KeyState

LEMMA KMInitType == KMInit => KMTypeOK
  BY FreshKeyType, KeyManagerAssumption
  DEF KMInit, KMTypeOK, StateTransition, NoTransition, Objects

\* Every variable keeps its type (KMTypeOK).
LEMMA KMStepType == KMTypeOK /\ [KMNext]_kmVars => KMTypeOK'
  <1> SUFFICES ASSUME KMTypeOK, [KMNext]_kmVars
               PROVE  KMTypeOK'
    OBVIOUS
  <1>1. ASSUME NEW k \in Keys, RegisterKey(k)
        PROVE  KMTypeOK'
    BY <1>1, FreshKeyType, KeyManagerAssumption DEF RegisterKey, KMTypeOK, Objects
  <1>2. ASSUME NEW k \in Keys, NEW s \in KeyState,
               NEW c \in Cooldowns \cup {NoCooldown}, UpdateKeyState(k, s, c)
        PROVE  KMTypeOK'
    <2>1. k \in Registered
      BY <1>2 DEF UpdateKeyState
    <2>2. WithState(StoredKey(k), s, c) \in APIKey
      BY <2>1, StoredKeyType, WithStateFacts
    <2>3. StoredKey(k).state \in KeyState
      BY <2>1, StoredKeyType DEF APIKey
    <2>4. heap' \in [Keys -> [Objects -> APIKey]]
      BY <1>2, <2>1, <2>2, StoredKeyType DEF UpdateKeyState, KMTypeOK
    <2>5. audit' \in [Keys -> StateTransition]
      BY <1>2, <2>3 DEF UpdateKeyState, KMTypeOK, StateTransition
    <2>6. QED
      BY <1>2, <2>4, <2>5 DEF UpdateKeyState, KMTypeOK
  <1>3. ASSUME CheckAndRecoverStates
        PROVE  KMTypeOK'
    <2>1. ASSUME NEW k \in Keys, CooldownExpired(k)
          PROVE  WithState(StoredKey(k), "available", NoCooldown) \in APIKey
      BY <2>1, StoredKeyType, WithStateFacts DEF CooldownExpired, KeyState
    <2>2. heap' \in [Keys -> [Objects -> APIKey]]
      BY <1>3, <2>1, StoredKeyType DEF CheckAndRecoverStates, KMTypeOK, CooldownExpired
    <2>3. audit' \in [Keys -> StateTransition]
      BY <1>3 DEF CheckAndRecoverStates, KMTypeOK, StateTransition, KeyState
    <2>4. QED
      BY <1>3, <2>2, <2>3 DEF CheckAndRecoverStates, KMTypeOK
  <1>4. ASSUME NEW k \in Keys, RotateKey(k)
        PROVE  KMTypeOK'
    <2>1. k \in Registered
      BY <1>4 DEF RotateKey
    <2>2. StoredKey(k) \in APIKey /\ StoredKey(k).state \in KeyState
      BY <2>1, StoredKeyType DEF APIKey
    <2>3. created[k] + 1 \in Objects
      BY <1>4, KeyManagerAssumption DEF RotateKey, KMTypeOK, Objects
    <2>4. heap' \in [Keys -> [Objects -> APIKey]]
      BY <1>4, <2>2, <2>3 DEF RotateKey, KMTypeOK
    <2>5. audit' \in [Keys -> StateTransition]
      BY <1>4, <2>2 DEF RotateKey, KMTypeOK, StateTransition
    <2>6. QED
      BY <1>4, <2>3, <2>4, <2>5, KeyManagerAssumption DEF RotateKey, KMTypeOK, Objects
  <1>5. ASSUME Tick
        PROVE  KMTypeOK'
    <2>1. ASSUME NEW k \in Keys, NEW m \in Objects
          PROVE  [heap[k][m] EXCEPT !.cooldown_until = CountDown(@)] \in APIKey
      <3> DEFINE key == heap[k][m]
      <3>1. key \in APIKey
        BY DEF KMTypeOK
      <3>2. key.cooldown_until \in Nat \cup {NoCooldown}
        BY <3>1 DEF APIKey
      <3>3. CountDown(key.cooldown_until) \in Nat \cup {NoCooldown}
        BY <3>2 DEF CountDown
      <3>4. QED
        BY <3>1, <3>3 DEF APIKey
    <2>2. QED
      BY <1>5, <2>1 DEF Tick, KMTypeOK
  <1>6. CASE UNCHANGED kmVars
    BY <1>6 DEF kmVars, KMTypeOK
  <1>7. ASSUME NEW k \in Keys, RevokeKey(k)
        PROVE  KMTypeOK'
    BY <1>7, <1>2 DEF RevokeKey, KeyState
  <1>8. QED
    BY <1>1, <1>2, <1>3, <1>4, <1>5, <1>6, <1>7, KeyManagerAssumption
    DEF KMNext, Manage, KeyState

\* KMSpec keeps every variable in its type.
THEOREM TypeCorrect == KMSpec => []KMTypeOK
  BY KMInitType, KMStepType, PTL DEF KMSpec

-----------------------------------------------------------------------------
(* What each action does to the objects the store is bound to. *)

LEMMA RegisterEffect ==
    ASSUME KMTypeOK, NEW k \in Keys, RegisterKey(k)
    PROVE  /\ Registered' = Registered \cup {k}
           /\ StoredKey(k)' = FreshKey
           /\ \A j \in Registered : j # k /\ StoredKey(j)' = StoredKey(j)
  <1>1. 1 \in Objects
    BY KeyManagerAssumption DEF Objects
  <1>2. QED
    BY <1>1 DEF RegisterKey, KMTypeOK, Registered, StoredKey

LEMMA UpdateEffect ==
    ASSUME KMTypeOK, NEW k \in Keys, NEW s, NEW c, UpdateKeyState(k, s, c)
    PROVE  /\ k \in Registered
           /\ Registered' = Registered
           /\ StoredKey(k)' = WithState(StoredKey(k), s, c)
           /\ \A j \in Registered : j # k => StoredKey(j)' = StoredKey(j)
  <1>1. k \in Registered
    BY DEF UpdateKeyState
  <1>2. stored[k] \in Objects
    BY <1>1, StoredKeyType
  <1>3. QED
    BY <1>1, <1>2 DEF UpdateKeyState, KMTypeOK, Registered, StoredKey

LEMMA RecoverEffect ==
    ASSUME KMTypeOK, CheckAndRecoverStates
    PROVE  /\ Registered' = Registered
           /\ \A k \in Registered :
                 StoredKey(k)' = IF CooldownExpired(k)
                                 THEN WithState(StoredKey(k), "available", NoCooldown)
                                 ELSE StoredKey(k)
  <1>1. \A k \in Registered : k \in Keys /\ stored[k] \in Objects
    BY StoredKeyType
  <1>2. QED
    BY <1>1 DEF CheckAndRecoverStates, KMTypeOK, Registered, StoredKey

LEMMA RotateEffect ==
    ASSUME KMTypeOK, NEW k \in Keys, RotateKey(k)
    PROVE  /\ k \in Registered
           /\ Registered' = Registered
           /\ StoredKey(k)' = StoredKey(k)
           /\ \A j \in Registered : j # k => StoredKey(j)' = StoredKey(j)
  <1>1. created[k] + 1 \in Objects /\ created[k] + 1 # 0
    BY KeyManagerAssumption DEF RotateKey, KMTypeOK, Objects
  <1>2. QED
    BY <1>1 DEF RotateKey, KMTypeOK, Registered, StoredKey

\* What time does to the deadline of a stored key.
LEMMA TickDeadline ==
    ASSUME KMTypeOK, Tick, NEW k \in Registered
    PROVE  /\ StoredKey(k)'.state = StoredKey(k).state
           /\ StoredKey(k)'.cooldown_until = CountDown(StoredKey(k).cooldown_until)
  <1>1. k \in Keys /\ stored[k] \in Objects /\ StoredKey(k) \in APIKey
    BY StoredKeyType
  <1>2. StoredKey(k)' = [StoredKey(k) EXCEPT
                            !.cooldown_until = CountDown(StoredKey(k).cooldown_until)]
    BY <1>1 DEF Tick, StoredKey
  <1>3. QED
    BY <1>1, <1>2 DEF APIKey

\* Letting time pass changes no state, and a deadline never appears or goes away.
LEMMA TickEffect ==
    ASSUME KMTypeOK, Tick
    PROVE  /\ Registered' = Registered
           /\ \A k \in Registered :
                 /\ StoredKey(k)'.state = StoredKey(k).state
                 /\ StoredKey(k)'.cooldown_until # NoCooldown
                       <=> StoredKey(k).cooldown_until # NoCooldown
  <1>1. Registered' = Registered
    BY DEF Tick, Registered
  <1>2. ASSUME NEW k \in Registered
        PROVE  /\ StoredKey(k)'.state = StoredKey(k).state
               /\ StoredKey(k)'.cooldown_until = CountDown(StoredKey(k).cooldown_until)
    BY TickDeadline
  <1>3. ASSUME NEW k \in Registered
        PROVE  CountDown(StoredKey(k).cooldown_until) # NoCooldown
                  <=> StoredKey(k).cooldown_until # NoCooldown
    <2>1. StoredKey(k).cooldown_until \in Nat \cup {NoCooldown}
      BY StoredKeyType DEF APIKey
    <2>2. QED
      BY <2>1, KeyManagerAssumption DEF CountDown
  <1>4. QED
    BY <1>1, <1>2, <1>3

\* What one step of the registry makes of one object, whether the store is
\* bound to it or only a route call still holds it.
LEMMA ObjectStep ==
    ASSUME KMTypeOK, [KMNext]_kmVars, NEW k \in Keys, NEW m \in Objects
    PROVE  \/ heap'[k][m] = heap[k][m]
           \/ stored[k] = 0 /\ heap'[k][m] = FreshKey
           \/ k \in Registered /\ heap'[k][m] = StoredKey(k)
           \/ \E s \in KeyState, c \in Cooldowns \cup {NoCooldown} :
                 heap'[k][m] = WithState(heap[k][m], s, c)
           \/ heap'[k][m] = [heap[k][m] EXCEPT !.cooldown_until =
                                CountDown(heap[k][m].cooldown_until)]
  <1> DEFINE Moved == \E s \in KeyState, c \in Cooldowns \cup {NoCooldown} :
                         heap'[k][m] = WithState(heap[k][m], s, c)
  <1>1. heap \in [Keys -> [Objects -> APIKey]]
    BY DEF KMTypeOK
  <1>2. ASSUME NEW j \in Keys, RegisterKey(j)
        PROVE  \/ heap'[k][m] = heap[k][m]
               \/ stored[k] = 0 /\ heap'[k][m] = FreshKey
    BY <1>1, <1>2 DEF RegisterKey
  <1>3. ASSUME NEW j \in Keys, NEW s \in KeyState, NEW c \in Cooldowns \cup {NoCooldown},
               UpdateKeyState(j, s, c)
        PROVE  heap'[k][m] = heap[k][m] \/ Moved
    <2>1. heap'[k][m] = IF k = j /\ m = stored[j] THEN WithState(StoredKey(j), s, c)
                                                  ELSE heap[k][m]
      BY <1>1, <1>3 DEF UpdateKeyState
    <2>2. QED
      BY <2>1 DEF StoredKey
  <1>4. ASSUME CheckAndRecoverStates
        PROVE  heap'[k][m] = heap[k][m] \/ Moved
    <2>1. heap'[k][m] = IF CooldownExpired(k) /\ m = stored[k]
                        THEN WithState(StoredKey(k), "available", NoCooldown)
                        ELSE heap[k][m]
      BY <1>1, <1>4 DEF CheckAndRecoverStates
    <2>2. QED
      BY <2>1 DEF StoredKey, KeyState
  <1>5. ASSUME NEW j \in Keys, RotateKey(j)
        PROVE  \/ heap'[k][m] = heap[k][m]
               \/ k \in Registered /\ heap'[k][m] = StoredKey(k)
    BY <1>1, <1>5 DEF RotateKey, StoredKey
  <1>6. ASSUME Tick
        PROVE  heap'[k][m] = [heap[k][m] EXCEPT !.cooldown_until =
                                 CountDown(heap[k][m].cooldown_until)]
    BY <1>6 DEF Tick
  <1>7. CASE UNCHANGED kmVars
    BY <1>7 DEF kmVars
  <1> HIDE DEF Moved
  <1>8. ASSUME NEW j \in Keys, Manage(j)
        PROVE  \/ heap'[k][m] = heap[k][m]
               \/ stored[k] = 0 /\ heap'[k][m] = FreshKey
               \/ k \in Registered /\ heap'[k][m] = StoredKey(k)
               \/ Moved
    BY <1>2, <1>3, <1>5, <1>8, KeyManagerAssumption DEF Manage, RevokeKey, KeyState
  <1>9. QED
    BY <1>4, <1>6, <1>7, <1>8 DEF KMNext, Moved

\* A call of the registry that takes a key out of the disabled state records it.
LEMMA LeavesDisabledRecorded ==
    ASSUME KMTypeOK, [KMNext]_kmVars, NEW k \in Keys,
           StateOf(k) = "disabled", StateOf(k)' # "disabled"
    PROVE  audit'[k].from_state = "disabled"
  <1>1. k \in Registered /\ StoredKey(k).state = "disabled"
    BY DEF StateOf, Registered
  <1>2. ASSUME StoredKey(k)'.state = "disabled", k \in Registered'
        PROVE  FALSE
    BY <1>2 DEF StateOf, Registered
  <1>3. ASSUME NEW j \in Keys, RegisterKey(j) \/ RotateKey(j)
        PROVE  FALSE
    BY <1>1, <1>2, <1>3, RegisterEffect, RotateEffect
  <1>4. CASE Tick \/ CheckAndRecoverStates \/ UNCHANGED kmVars
    BY <1>1, <1>2, <1>4, TickEffect, RecoverEffect
    DEF CooldownExpired, kmVars, StoredKey, Registered
  <1>5. ASSUME NEW j \in Keys, NEW s, NEW c, UpdateKeyState(j, s, c)
        PROVE  audit'[k].from_state = "disabled"
    <2>1. j = k
      BY <1>1, <1>2, <1>5, UpdateEffect
    <2>2. audit'[k] = [from_state |-> StoredKey(k).state, to_state |-> s]
      BY <1>5, <2>1 DEF UpdateKeyState, KMTypeOK
    <2>3. QED
      BY <1>1, <2>2
  <1>6. QED
    BY <1>3, <1>4, <1>5 DEF KMNext, Manage, RevokeKey

-----------------------------------------------------------------------------
LEMMA CooldownStep ==
    KMTypeOK /\ CooldownIffThrottled /\ [KMNext]_kmVars => CooldownIffThrottled'
  <1> SUFFICES ASSUME KMTypeOK, CooldownIffThrottled, [KMNext]_kmVars
               PROVE  CooldownIffThrottled'
    OBVIOUS
  <1> DEFINE Ok(key) == key.state = "throttled" <=> key.cooldown_until # NoCooldown
  <1>1. \A k \in Registered : Ok(StoredKey(k))
    BY DEF CooldownIffThrottled
  <1>2. SUFFICES \A k \in Registered' : Ok(StoredKey(k)')
    BY DEF CooldownIffThrottled
  <1>3. ASSUME NEW k \in Keys, RegisterKey(k)
        PROVE  \A j \in Registered' : Ok(StoredKey(j)')
    <2>1. Ok(FreshKey)
      BY DEF FreshKey
    <2>2. QED
      BY <1>1, <1>3, <2>1, RegisterEffect
  <1>4. ASSUME NEW k \in Keys, NEW s \in KeyState,
               NEW c \in Cooldowns \cup {NoCooldown}, UpdateKeyState(k, s, c)
        PROVE  \A j \in Registered' : Ok(StoredKey(j)')
    <2>1. k \in Registered /\ StoredKey(k) \in APIKey
      BY <1>4, UpdateEffect, StoredKeyType
    <2>2. Ok(WithState(StoredKey(k), s, c))
      BY <2>1, WithStateFacts
    <2>3. QED
      BY <1>1, <1>4, <2>2, UpdateEffect
  <1>5. ASSUME CheckAndRecoverStates
        PROVE  \A j \in Registered' : Ok(StoredKey(j)')
    <2>1. \A j \in Registered : Ok(WithState(StoredKey(j), "available", NoCooldown))
      BY StoredKeyType, WithStateFacts DEF KeyState
    <2>2. QED
      BY <1>1, <1>5, <2>1, RecoverEffect
  <1>6. ASSUME NEW k \in Keys, RotateKey(k)
        PROVE  \A j \in Registered' : Ok(StoredKey(j)')
    BY <1>1, <1>6, RotateEffect
  <1>7. ASSUME Tick
        PROVE  \A j \in Registered' : Ok(StoredKey(j)')
    BY <1>1, <1>7, TickEffect
  <1>8. CASE UNCHANGED kmVars
    BY <1>1, <1>8 DEF kmVars, Registered, StoredKey
  <1>9. QED
    BY <1>3, <1>4, <1>5, <1>6, <1>7, <1>8, KeyManagerAssumption
    DEF KMNext, Manage, RevokeKey, KeyState

\* A stored key has a cooldown deadline exactly while it is throttled.
THEOREM CooldownConsistent == KMSpec => []CooldownIffThrottled
  <1>1. KMInit => CooldownIffThrottled
    BY DEF KMInit, CooldownIffThrottled, Registered
  <1>2. QED
    BY <1>1, CooldownStep, TypeCorrect, PTL DEF KMSpec

-----------------------------------------------------------------------------
\* A key that is throttled before and after a step still has its deadline, or
\* the deadline came nearer: update_key_state never reaches a key that already
\* has the new state, and a rotation copies the deadline.
LEMMA DeadlineStep ==
    ASSUME KMTypeOK, [KMNext]_kmVars, NEW k \in Keys,
           StateOf(k) = "throttled", StateOf(k)' = "throttled"
    PROVE  StoredKey(k)'.cooldown_until
              \in {StoredKey(k).cooldown_until, CountDown(StoredKey(k).cooldown_until)}
  <1>1. k \in Registered /\ StoredKey(k).state = "throttled"
    BY DEF StateOf, Registered
  <1>2. StoredKey(k)'.state = "throttled"
    BY DEF StateOf
  <1>3. ASSUME NEW j \in Keys, RegisterKey(j) \/ RotateKey(j)
        PROVE  StoredKey(k)' = StoredKey(k)
    BY <1>1, <1>3, RegisterEffect, RotateEffect
  <1>4. ASSUME NEW j \in Keys, NEW s \in KeyState,
               NEW c \in Cooldowns \cup {NoCooldown}, UpdateKeyState(j, s, c)
        PROVE  StoredKey(k)' = StoredKey(k)
    <2>1. CASE j = k
      <3>1. s # "throttled"
        BY <1>1, <1>4, <2>1 DEF UpdateKeyState
      <3>2. StoredKey(k)'.state = s
        BY <1>1, <1>4, <2>1, UpdateEffect, StoredKeyType, WithStateFacts
      <3>3. QED
        BY <1>2, <3>1, <3>2
    <2>2. QED
      BY <1>1, <1>4, <2>1, UpdateEffect
  <1>5. ASSUME CheckAndRecoverStates
        PROVE  StoredKey(k)' = StoredKey(k)
    <2>1. WithState(StoredKey(k), "available", NoCooldown).state = "available"
      BY <1>1, StoredKeyType, WithStateFacts DEF KeyState
    <2>2. QED
      BY <1>1, <1>2, <1>5, <2>1, RecoverEffect
  <1>6. ASSUME Tick
        PROVE  StoredKey(k)'.cooldown_until = CountDown(StoredKey(k).cooldown_until)
    BY <1>1, <1>6, TickDeadline
  <1>7. CASE UNCHANGED kmVars
    BY <1>7 DEF kmVars, StoredKey
  <1>8. ASSUME NEW j \in Keys, Manage(j)
        PROVE  StoredKey(k)' = StoredKey(k)
    BY <1>3, <1>4, <1>8, KeyManagerAssumption DEF Manage, RevokeKey, KeyState
  <1>9. QED
    BY <1>5, <1>6, <1>7, <1>8 DEF KMNext

\* However often a throttled key is throttled again or rotated, its deadline
\* stays where it is (DeadlineStands).
THEOREM DeadlineKept == KMSpec => DeadlineStands
  <1>1. KMTypeOK /\ [KMNext]_kmVars =>
           [\A k \in Keys :
               StateOf(k) = "throttled" /\ StateOf(k)' = "throttled" =>
                  LET left == StoredKey(k).cooldown_until
                  IN  left' \in {left, CountDown(left)}]_kmVars
    BY DeadlineStep
  <1>2. QED
    BY <1>1, TypeCorrect, PTL DEF KMSpec, DeadlineStands

-----------------------------------------------------------------------------
\* AuditExplainsState is not inductive alone: registration leaves the trail
\* alone, so a key that is not registered must not have one yet.
NoTrailBeforeRegistration == \A k \in Keys : stored[k] = 0 => audit[k] = NoTransition
AuditInv == AuditExplainsState /\ NoTrailBeforeRegistration

LEMMA NoTrailStep ==
    KMTypeOK /\ NoTrailBeforeRegistration /\ [KMNext]_kmVars => NoTrailBeforeRegistration'
  <1> SUFFICES ASSUME KMTypeOK, NoTrailBeforeRegistration, [KMNext]_kmVars,
                      NEW k \in Keys, stored'[k] = 0
               PROVE  audit'[k] = NoTransition
    BY DEF NoTrailBeforeRegistration
  <1>1. stored[k] = 0
    BY KeyManagerAssumption
    DEF KMNext, kmVars, Manage, RegisterKey, RevokeKey, UpdateKeyState, RotateKey,
        CheckAndRecoverStates, Tick, KMTypeOK
  <1>2. audit[k] = NoTransition
    BY <1>1 DEF NoTrailBeforeRegistration
  <1>3. audit'[k] = audit[k]
    BY <1>1
    DEF KMNext, kmVars, Manage, RegisterKey, RevokeKey, UpdateKeyState, RotateKey,
        CheckAndRecoverStates, Tick, KMTypeOK, CooldownExpired, Registered
  <1>4. QED
    BY <1>2, <1>3

LEMMA AuditStep == KMTypeOK /\ AuditInv /\ [KMNext]_kmVars => AuditExplainsState'
  <1> SUFFICES ASSUME KMTypeOK, AuditInv, [KMNext]_kmVars
               PROVE  AuditExplainsState'
    OBVIOUS
  <1> DEFINE End(t) == IF t = NoTransition THEN "available" ELSE t.to_state
  <1>1. \A k \in Registered : k \in Keys /\ StoredKey(k).state = End(audit[k])
    BY StoredKeyType DEF AuditInv, AuditExplainsState
  <1>2. SUFFICES \A k \in Registered' : StoredKey(k)'.state = End(audit'[k])
    BY DEF AuditExplainsState
  <1>3. \A from, to \in KeyState : End([from_state |-> from, to_state |-> to]) = to
    BY DEF NoTransition, KeyState
  <1>4. ASSUME NEW k \in Keys, RegisterKey(k)
        PROVE  \A j \in Registered' : StoredKey(j)'.state = End(audit'[j])
    <2>1. audit' = audit /\ audit[k] = NoTransition
      BY <1>4 DEF RegisterKey, AuditInv, NoTrailBeforeRegistration
    <2>2. FreshKey.state = End(NoTransition)
      BY DEF FreshKey
    <2>3. QED
      BY <1>1, <1>4, <2>1, <2>2, RegisterEffect
  <1>5. ASSUME NEW k \in Keys, NEW s \in KeyState,
               NEW c \in Cooldowns \cup {NoCooldown}, UpdateKeyState(k, s, c)
        PROVE  \A j \in Registered' : StoredKey(j)'.state = End(audit'[j])
    <2>1. StoredKey(k) \in APIKey /\ StoredKey(k).state \in KeyState
      BY <1>5, UpdateEffect, StoredKeyType DEF APIKey
    <2>2. /\ audit'[k] = [from_state |-> StoredKey(k).state, to_state |-> s]
          /\ \A j \in Keys : j # k => audit'[j] = audit[j]
      BY <1>5 DEF UpdateKeyState, KMTypeOK
    <2>3. WithState(StoredKey(k), s, c).state = End(audit'[k])
      BY <1>3, <2>1, <2>2, WithStateFacts
    <2>4. QED
      BY <1>1, <1>5, <2>2, <2>3, UpdateEffect
  <1>6. ASSUME CheckAndRecoverStates
        PROVE  \A j \in Registered' : StoredKey(j)'.state = End(audit'[j])
    <2>1. \A j \in Registered :
             audit'[j] = IF CooldownExpired(j)
                         THEN [from_state |-> "throttled", to_state |-> "available"]
                         ELSE audit[j]
      BY <1>1, <1>6 DEF CheckAndRecoverStates
    <2>2. \A j \in Registered :
             WithState(StoredKey(j), "available", NoCooldown).state = "available"
      BY StoredKeyType, WithStateFacts DEF KeyState
    <2>3. QED
      BY <1>1, <1>3, <1>6, <2>1, <2>2, RecoverEffect DEF KeyState
  <1>7. ASSUME NEW k \in Keys, RotateKey(k)
        PROVE  \A j \in Registered' : StoredKey(j)'.state = End(audit'[j])
    <2>1. StoredKey(k).state \in KeyState
      BY <1>7, RotateEffect, StoredKeyType DEF APIKey
    <2>2. /\ End(audit'[k]) = StoredKey(k).state
          /\ \A j \in Keys : j # k => audit'[j] = audit[j]
      BY <1>3, <1>7, <2>1 DEF RotateKey, KMTypeOK
    <2>3. QED
      BY <1>1, <1>7, <2>2, RotateEffect
  <1>8. ASSUME Tick
        PROVE  \A j \in Registered' : StoredKey(j)'.state = End(audit'[j])
    BY <1>1, <1>8, TickEffect DEF Tick
  <1>9. CASE UNCHANGED kmVars
    BY <1>1, <1>9 DEF kmVars, Registered, StoredKey
  <1>10. QED
    BY <1>4, <1>5, <1>6, <1>7, <1>8, <1>9, KeyManagerAssumption
    DEF KMNext, Manage, RevokeKey, KeyState

\* The audit trail of every key ends in the state the key is in.
THEOREM AuditCorrect == KMSpec => []AuditExplainsState
  <1>1. KMInit => AuditInv
    BY DEF KMInit, AuditInv, AuditExplainsState, NoTrailBeforeRegistration, Registered
  <1>2. KMTypeOK /\ AuditInv /\ [KMNext]_kmVars => AuditInv'
    BY AuditStep, NoTrailStep DEF AuditInv
  <1>3. AuditInv => AuditExplainsState
    BY DEF AuditInv
  <1>4. QED
    BY <1>1, <1>2, <1>3, TypeCorrect, PTL DEF KMSpec

-----------------------------------------------------------------------------
(* Refinement: each action is a step of KeyLifecycle or leaves it unchanged. *)

LEMMA SameTable == \A s \in KeyState : ValidTransitions[s] = L!ValidTransitions[s]
  BY DEF ValidTransitions, L!ValidTransitions, KeyState

LEMMA LifecycleStep ==
    KMTypeOK /\ KMTypeOK' /\ [KMNext]_kmVars => [L!LifecycleNext]_(L!lifecycleVars)
  <1> SUFFICES ASSUME KMTypeOK, KMTypeOK', [KMNext]_kmVars
               PROVE  [L!LifecycleNext]_(L!lifecycleVars)
    OBVIOUS
  <1> DEFINE st == [k \in Keys |-> StateOf(k)]
  <1>1. \A k \in Registered : /\ k \in Keys
                              /\ stored[k] # 0
                              /\ StateOf(k) = StoredKey(k).state
                              /\ StateOf(k) \in KeyState
    BY StoredKeyType DEF Registered, StateOf, APIKey
  <1>2. \A k \in Keys : k \notin Registered => StateOf(k) = "unregistered"
    BY DEF Registered, StateOf
  <1>3. \A k \in Registered' : StateOf(k)' = StoredKey(k)'.state
    BY DEF Registered, StateOf
  <1>4. \A k \in Keys : k \notin Registered' => StateOf(k)' = "unregistered"
    BY DEF Registered, StateOf
  <1>5. st' = [k \in Keys |-> StateOf(k)']
    OBVIOUS
  <1>6. ASSUME NEW k \in Keys, RegisterKey(k)
        PROVE  L!LifecycleNext
    <2>1. stored[k] = 0 /\ stored' = [stored EXCEPT ![k] = 1]
      BY <1>6 DEF RegisterKey
    <2>2. FreshKey.state = "available"
      BY DEF FreshKey
    <2>3. \A j \in Keys : StateOf(j)' = IF j = k THEN "available" ELSE StateOf(j)
      BY <1>1, <1>2, <1>3, <1>4, <1>6, <2>2, RegisterEffect
    <2>4. L!Register(k)
      BY <1>5, <2>1, <2>3 DEF L!Register, StateOf
    <2>5. QED
      BY <2>4 DEF L!LifecycleNext
  <1>7. ASSUME NEW k \in Keys, NEW s \in KeyState,
               NEW c \in Cooldowns \cup {NoCooldown}, UpdateKeyState(k, s, c)
        PROVE  L!LifecycleNext
    <2>1. k \in Registered /\ stored' = stored /\ s \in ValidTransitions[StoredKey(k).state]
      BY <1>7 DEF UpdateKeyState, IsValidTransition
    <2>2. WithState(StoredKey(k), s, c).state = s
      BY <2>1, StoredKeyType, WithStateFacts
    <2>3. \A j \in Keys : StateOf(j)' = IF j = k THEN s ELSE StateOf(j)
      BY <1>1, <1>2, <1>3, <1>4, <1>7, <2>1, <2>2, UpdateEffect
    <2>4. st' = [st EXCEPT ![k] = s]
      BY <1>5, <2>3
    <2>5. s \in L!ValidTransitions[st[k]]
      BY <1>1, <2>1, SameTable
    <2>6. L!Move(k)
      BY <1>1, <2>1, <2>4, <2>5 DEF L!Move, L!KeyState, KeyState
    <2>7. QED
      BY <2>6 DEF L!LifecycleNext
  <1>8. ASSUME CheckAndRecoverStates
        PROVE  L!LifecycleNext
    <2> DEFINE recovered == {k \in Keys : CooldownExpired(k)}
    <2>1. stored' = stored
      BY <1>8 DEF CheckAndRecoverStates
    <2>2. \A k \in Registered :
             WithState(StoredKey(k), "available", NoCooldown).state = "available"
      BY StoredKeyType, WithStateFacts DEF KeyState
    <2>3. \A j \in Keys : StateOf(j)' = IF j \in recovered THEN "available" ELSE StateOf(j)
      BY <1>1, <1>2, <1>3, <1>4, <1>8, <2>2, RecoverEffect DEF CooldownExpired
    <2>4. recovered \in SUBSET {k \in Keys : st[k] = "throttled"}
      BY <1>1 DEF CooldownExpired
    <2>5. st' = [k \in Keys |-> IF k \in recovered THEN "available" ELSE st[k]]
      BY <1>5, <2>3
    <2>6. L!RecoverAll
      BY <2>1, <2>4, <2>5 DEF L!RecoverAll
    <2>7. QED
      BY <2>6 DEF L!LifecycleNext
  <1>9. ASSUME NEW k \in Keys, RotateKey(k)
        PROVE  L!LifecycleNext
    <2>1. k \in Registered
      BY <1>9 DEF RotateKey
    <2>2. \A j \in Keys : StateOf(j)' = StateOf(j)
      BY <1>1, <1>2, <1>3, <1>4, <1>9, RotateEffect
    <2>3. /\ stored' = [stored EXCEPT ![k] = created[k] + 1]
          /\ stored'[k] > stored[k]
      BY <1>9, KeyManagerAssumption DEF RotateKey, KMTypeOK
    <2>4. st' = st
      BY <1>5, <2>2
    <2>5. L!Rotate(k)
      BY <1>1, <2>1, <2>3, <2>4 DEF L!Rotate, L!KeyState, KeyState
    <2>6. QED
      BY <2>5 DEF L!LifecycleNext
  <1>10. ASSUME Tick
         PROVE  UNCHANGED L!lifecycleVars
    <2>1. stored' = stored
      BY <1>10 DEF Tick
    <2>2. \A j \in Keys : StateOf(j)' = StateOf(j)
      BY <1>1, <1>2, <1>3, <1>4, <1>10, TickEffect
    <2>3. QED
      BY <2>1, <2>2 DEF L!lifecycleVars
  <1>11. CASE UNCHANGED kmVars
    <2>1. st' = st /\ stored' = stored
      BY <1>11 DEF kmVars, StateOf, StoredKey
    <2>2. QED
      BY <2>1 DEF L!lifecycleVars
  <1>12. QED
    BY <1>6, <1>7, <1>8, <1>9, <1>10, <1>11, KeyManagerAssumption
    DEF KMNext, Manage, RevokeKey, KeyState

\* The in-memory registry implements the abstract one.
THEOREM LifecycleRefinement == KMSpec => RefinesLifecycle
  <1>1. KMInit => L!LifecycleInit
    BY DEF KMInit, L!LifecycleInit, StateOf
  <1>2. QED
    BY <1>1, LifecycleStep, TypeCorrect, PTL DEF KMSpec, RefinesLifecycle, L!Lifecycle
=============================================================================
