---------------------------- MODULE RouterProofs ----------------------------
(***************************************************************************)
(* Proofs about Router for every set of keys and requests, every number of *)
(* retries and every rotation allowance.                                   *)
(*                                                                         *)
(*   RouterTypeCorrect   the typing invariant                              *)
(*   RetriesAreBounded   each provider call of a route uses a key of its   *)
(*                       own, and there are at most MaxRetries of them     *)
(*   FilteredIsLastResort  a key the quota filter took out is called only  *)
(*                       when no key that passed is left                   *)
(*   AuditWithoutRotation, LifecycleWithoutRotation                        *)
(*                       as long as no key is rotated, route calls that    *)
(*                       save the object they have held across the         *)
(*                       provider call cannot disturb the registry         *)
(*   UsageWithoutRotation, RevocationWithoutRotation                       *)
(*                       under the same condition no count is lost and no  *)
(*                       revocation undone                                 *)
(*   CooldownUnderRoutes, NoOvercount                                      *)
(*                       with rotations too: deadlines belong to throttled *)
(*                       keys, and nothing is counted twice                *)
(***************************************************************************)
EXTENDS Router, KeyManagerProofs, FiniteSetTheorems

\* What a route call in progress knows about the object it holds.
LEMMA HeldFacts ==
    ASSUME RouterTypeOK, NEW r \in Requests, pc[r] = "executing"
    PROVE  /\ current[r] \in Keys
           /\ current[r] \in tried[r]
           /\ held[r] \in Objects
           /\ held[r] <= created[current[r]]
           /\ HeldKey(r) \in APIKey
  <1>1. current[r] \in tried[r] /\ held[r] \in 1..created[current[r]] /\ tried[r] \subseteq Keys
    BY DEF RouterTypeOK
  <1>2. current[r] \in Keys
    BY <1>1
  <1>3. created[current[r]] \in 0..MaxMaterials
    BY <1>2 DEF RouterTypeOK, KMTypeOK
  <1>4. held[r] \in Objects
    BY <1>1, <1>3, KeyManagerAssumption DEF Objects
  <1>5. HeldKey(r) \in APIKey
    BY <1>2, <1>4 DEF RouterTypeOK, KMTypeOK, HeldKey
  <1>6. QED
    BY <1>1, <1>2, <1>3, <1>4, <1>5, KeyManagerAssumption

\* Saving the held object back keeps the registry well typed.
LEMMA SaveHeldType ==
    ASSUME RouterTypeOK, NEW r \in Requests, pc[r] = "executing",
           NEW key \in APIKey, SaveHeld(r, key)
    PROVE  /\ KMTypeOK'
           /\ outcomes' \in [Keys -> Nat]
           /\ created' = created
           /\ Registered' = Registered
  <1>1. /\ current[r] \in Keys
        /\ held[r] \in Objects
        /\ held[r] <= created[current[r]]
    BY HeldFacts
  <1>2. heap' \in [Keys -> [Objects -> APIKey]]
    BY <1>1 DEF SaveHeld, RouterTypeOK, KMTypeOK
  <1>3. KMTypeOK' /\ outcomes' \in [Keys -> Nat] /\ created' = created
    BY <1>1, <1>2, KeyManagerAssumption DEF SaveHeld, RouterTypeOK, KMTypeOK, Objects
  <1>4. stored[current[r]] # 0 /\ stored'[current[r]] # 0
    BY <1>1, KeyManagerAssumption DEF SaveHeld, RouterTypeOK, KMTypeOK, Objects
  <1>5. Registered' = Registered
    BY <1>1, <1>4 DEF SaveHeld, RouterTypeOK, KMTypeOK, Registered
  <1>6. QED
    BY <1>3, <1>5

LEMMA RouterInitType == RouterInit => RouterTypeOK
  <1> SUFFICES ASSUME RouterInit
               PROVE  RouterTypeOK
    OBVIOUS
  <1>1. KMTypeOK
    BY KMInitType DEF RouterInit
  <1>2. 0 \in 0..MaxRetries - 1 /\ 0 \in 0..MaxMaterials
    BY RouterAssumption, KeyManagerAssumption
  <1>3. QED
    BY <1>1, <1>2 DEF RouterInit, RouterTypeOK

\* A registered id never becomes unregistered and objects are never taken back.
LEMMA CreatedGrows ==
    KMTypeOK /\ [KMNext]_kmVars => \A k \in Keys : created'[k] >= created[k]
  <1> SUFFICES ASSUME KMTypeOK, [KMNext]_kmVars, NEW k \in Keys
               PROVE  created'[k] >= created[k]
    OBVIOUS
  <1>1. created[k] \in Nat
    BY KeyManagerAssumption DEF KMTypeOK
  <1>2. QED
    BY <1>1, KeyManagerAssumption
    DEF KMNext, kmVars, Manage, RegisterKey, RevokeKey, UpdateKeyState, RotateKey,
        CheckAndRecoverStates, Tick, KMTypeOK

LEMMA RegisteredGrows == KMTypeOK /\ [KMNext]_kmVars => Registered \subseteq Registered'
  <1> SUFFICES ASSUME KMTypeOK, [KMNext]_kmVars, NEW k \in Keys, stored[k] # 0
               PROVE  stored'[k] # 0
    BY DEF Registered
  <1>1. created[k] \in Nat
    BY KeyManagerAssumption DEF KMTypeOK
  <1>2. QED
    BY <1>1, KeyManagerAssumption
    DEF KMNext, kmVars, Manage, RegisterKey, RevokeKey, UpdateKeyState, RotateKey,
        CheckAndRecoverStates, Tick, KMTypeOK

\* handle_quota_response reaches the registry through update_key_state only.
LEMMA QuotaResponseIsKeyManagerStep ==
    ASSUME NEW k \in Keys, NEW c \in Cooldowns \cup {NoCooldown}, HandleQuotaResponse(k, c)
    PROVE  [KMNext]_kmVars
  BY RouterAssumption DEF HandleQuotaResponse, KMNext, Manage

LEMMA RouterStepType == RouterTypeOK /\ [RouterNext]_vars => RouterTypeOK'
  <1> SUFFICES ASSUME RouterTypeOK, [RouterNext]_vars
               PROVE  RouterTypeOK'
    OBVIOUS
  <1> USE DEF Finished
  <1>1. ASSUME [KMNext]_kmVars, UNCHANGED routeVars, UNCHANGED outcomes,
               drained' \subseteq Keys
        PROVE  RouterTypeOK'
    <2>1. /\ KMTypeOK' /\ Registered \subseteq Registered'
          /\ \A k \in Keys : created'[k] >= created[k]
      BY <1>1, KMStepType, CreatedGrows, RegisteredGrows DEF RouterTypeOK
    <2>2. ASSUME NEW r \in Requests, pc[r] = "executing"
          PROVE  held[r] \in 1..created'[current[r]]
      <3>1. current[r] \in Keys /\ held[r] \in 1..created[current[r]]
        BY <2>2, HeldFacts DEF RouterTypeOK
      <3>2. created[current[r]] \in Nat /\ created'[current[r]] \in Nat
        BY <2>1, <3>1, KeyManagerAssumption DEF RouterTypeOK, KMTypeOK
      <3>3. QED
        BY <2>1, <3>1, <3>2
    <2>3. QED
      BY <1>1, <2>1, <2>2 DEF RouterTypeOK, routeVars
  <1>2. ASSUME NEW r \in Requests, Route(r)
        PROVE  RouterTypeOK'
    <2>1. /\ KMTypeOK' /\ Registered' = Registered
          /\ UNCHANGED <<heap, created, stored, audit, drained, outcomes>>
      BY <1>2 DEF Route, kmVars, RouterTypeOK, KMTypeOK, Registered
    <2>2. PICK k \in EligibleKeys \ drained :
             /\ selected' = [selected EXCEPT ![r] = k]
             /\ CallProvider(r, k, 0)
      BY <1>2 DEF Route
    <2>3. k \in Keys /\ stored'[k] \in 1..created[k] /\ stored'[k] \in 0..MaxMaterials
      BY <2>1, KeyManagerAssumption
      DEF EligibleKeys, Registered, RouterTypeOK, KMTypeOK
    <2>4. kept'[r] \subseteq Registered /\ filtered'[r] \subseteq Registered
      BY <1>2 DEF Route, EligibleKeys, RouterTypeOK
    <2>5. 0 \in 0..MaxRetries - 1
      BY RouterAssumption
    <2>6. QED
      BY <1>2, <2>1, <2>2, <2>3, <2>4, <2>5 DEF Route, CallProvider, RouterTypeOK, Registered
  <1>3. ASSUME NEW r \in Requests, Reject(r)
        PROVE  RouterTypeOK'
    BY <1>3 DEF Reject, RouterTypeOK, kmVars, KMTypeOK, Registered
  <1>4. ASSUME NEW r \in Requests, AdapterReturns(r)
        PROVE  RouterTypeOK'
    <2>1. pc[r] = "executing" /\ current[r] \in Keys
      BY <1>4, HeldFacts DEF AdapterReturns
    <2>2. [HeldKey(r) EXCEPT !.usage_count = @ + 1] \in APIKey
      BY <2>1, HeldFacts DEF APIKey
    <2>3. /\ KMTypeOK' /\ outcomes' \in [Keys -> Nat]
          /\ created' = created /\ Registered' = Registered
      BY <1>4, <2>1, <2>2, SaveHeldType DEF AdapterReturns
    <2>4. logged' \in [Requests -> 0..2]
      BY <1>4, <2>1 DEF AdapterReturns, RouterTypeOK
    <2>5. QED
      BY <1>4, <2>1, <2>3, <2>4 DEF AdapterReturns, RouterTypeOK
  <1>5. ASSUME NEW r \in Requests, NEW retryable \in BOOLEAN, AdapterFails(r, retryable)
        PROVE  RouterTypeOK'
    <2>1. pc[r] = "executing" /\ current[r] \in Keys
      BY <1>5, HeldFacts DEF AdapterFails
    <2>2. [HeldKey(r) EXCEPT !.failure_count = @ + 1] \in APIKey
      BY <2>1, HeldFacts DEF APIKey
    <2>3. /\ KMTypeOK' /\ outcomes' \in [Keys -> Nat]
          /\ created' = created /\ Registered' = Registered
      BY <1>5, <2>1, <2>2, SaveHeldType DEF AdapterFails
    <2>4. UNCHANGED <<kept, filtered, selected, logged, drained>>
      BY <1>5 DEF AdapterFails, decisionVars
    <2>5. ASSUME NEW k \in Alternatives(r), MayRetry(r, retryable),
                 CallProvider(r, k, attempt[r] + 1)
          PROVE  RouterTypeOK'
      <3>1. k \in Keys /\ k \in kept[r] \cup filtered[r] /\ k \notin tried[r]
        BY DEF Alternatives, RouterTypeOK
      <3>2. stored'[k] \in 1..created[k] /\ stored'[k] \in 0..MaxMaterials
        <4>1. k \in Registered'
          BY <2>3, <3>1 DEF RouterTypeOK
        <4>2. QED
          BY <2>3, <3>1, <4>1, KeyManagerAssumption DEF KMTypeOK, Registered
      <3>3. attempt[r] + 1 \in 0..MaxRetries - 1
        BY <2>5, RouterAssumption DEF MayRetry, RouterTypeOK
      <3>4. QED
        BY <2>1, <2>3, <2>4, <2>5, <3>1, <3>2, <3>3 DEF CallProvider, RouterTypeOK
    <2>6. CASE pc' = [pc EXCEPT ![r] = "raised"] /\ UNCHANGED <<tried, attempt, current, held, calls>>
      BY <2>1, <2>3, <2>4, <2>6 DEF RouterTypeOK
    <2>7. QED
      BY <1>5, <2>5, <2>6 DEF AdapterFails
  <1>6. ASSUME NEW r \in Requests, AdapterAborts(r)
        PROVE  RouterTypeOK'
    BY <1>6 DEF AdapterAborts, RouterTypeOK, kmVars, KMTypeOK, Registered
  <1>7. ASSUME NEW k \in Keys, NEW c \in Cooldowns \cup {NoCooldown}, HandleQuotaResponse(k, c)
        PROVE  RouterTypeOK'
    <2>1. drained' \subseteq Keys
      BY <1>7 DEF HandleQuotaResponse, RouterTypeOK
    <2>2. QED
      BY <1>1, <1>7, <2>1, QuotaResponseIsKeyManagerStep DEF HandleQuotaResponse
  <1>8. CASE KeyManagerStep
    BY <1>1, <1>8 DEF KeyManagerStep, RouterTypeOK
  <1>9. CASE UNCHANGED vars
    BY <1>1, <1>9 DEF vars, RouterTypeOK
  <1>10. QED
    BY <1>2, <1>3, <1>4, <1>5, <1>6, <1>7, <1>8, <1>9 DEF RouterNext, Answer

\* RouterSpec keeps every variable in its type.
THEOREM RouterTypeCorrect == RouterSpec => []RouterTypeOK
  BY RouterInitType, RouterStepType, PTL DEF RouterSpec

-----------------------------------------------------------------------------
\* RetryDiscipline becomes inductive once it says that an idle route has tried
\* nothing, that an executing one has started attempt + 1 calls, and that tried
\* sets are finite; FilteredLast needs the two parts of a decision to be disjoint.
RetryInv ==
    \A r \in Requests :
        /\ IsFiniteSet(tried[r])
        /\ calls[r] = Cardinality(tried[r])
        /\ calls[r] <= MaxRetries
        /\ pc[r] = "idle" => tried[r] = {}
        /\ pc[r] = "executing" => calls[r] = attempt[r] + 1

FilterInv ==
    \A r \in Requests :
        /\ kept[r] \cap filtered[r] = {}
        /\ pc[r] = "executing" /\ current[r] \in filtered[r] => kept[r] \subseteq tried[r]

\* Steps that leave every route where it is.
LEMMA NonRouteStep ==
    ASSUME [RouterNext]_vars,
           ~ \E r \in Requests : Route(r) \/ Reject(r) \/ Answer(r)
    PROVE  UNCHANGED routeVars
  BY DEF RouterNext, KeyManagerStep, HandleQuotaResponse, vars, routeVars

\* How a route's own steps change its loop state.
LEMMA RouteStepEffect ==
    ASSUME RouterTypeOK, NEW r \in Requests, Route(r) \/ Reject(r) \/ Answer(r)
    PROVE  /\ \A q \in Requests \ {r} :
                 /\ pc'[q] = pc[q] /\ tried'[q] = tried[q] /\ attempt'[q] = attempt[q]
                 /\ current'[q] = current[q] /\ calls'[q] = calls[q]
                 /\ kept'[q] = kept[q] /\ filtered'[q] = filtered[q]
           /\ \/ /\ pc'[r] \in Finished
                 /\ tried'[r] = tried[r] /\ calls'[r] = calls[r]
                 /\ kept'[r] = kept[r] /\ filtered'[r] = filtered[r]
              \/ /\ pc[r] = "idle" /\ pc'[r] = "executing"
                 /\ kept'[r] \cap filtered'[r] = {}
                 /\ \E k \in kept'[r] : /\ current'[r] = k
                                        /\ tried'[r] = tried[r] \cup {k}
                 /\ attempt'[r] = 0 /\ calls'[r] = calls[r] + 1
              \/ /\ pc[r] = "executing" /\ pc'[r] = "executing"
                 /\ kept'[r] = kept[r] /\ filtered'[r] = filtered[r]
                 /\ attempt[r] < MaxRetries - 1
                 /\ \E k \in Alternatives(r) : /\ current'[r] = k
                                               /\ tried'[r] = tried[r] \cup {k}
                 /\ attempt'[r] = attempt[r] + 1 /\ calls'[r] = calls[r] + 1
  <1> USE DEF RouterTypeOK
  <1>1. CASE Route(r)
    <2>1. PICK k \in EligibleKeys \ drained : CallProvider(r, k, 0)
      BY <1>1 DEF Route
    <2>2. kept'[r] = EligibleKeys \ drained /\ filtered'[r] = EligibleKeys \cap drained
      BY <1>1 DEF Route
    <2>3. QED
      BY <1>1, <2>1, <2>2 DEF Route, CallProvider
  <1>2. CASE Reject(r)
    BY <1>2 DEF Reject, Finished
  <1>3. CASE AdapterReturns(r)
    BY <1>3 DEF AdapterReturns, Finished
  <1>4. CASE \E retryable \in BOOLEAN : AdapterFails(r, retryable)
    <2>1. PICK retryable \in BOOLEAN : AdapterFails(r, retryable)
      BY <1>4
    <2>2. pc[r] = "executing" /\ kept' = kept /\ filtered' = filtered
      BY <2>1 DEF AdapterFails, decisionVars
    <2>3. CASE \E k \in Alternatives(r) : /\ MayRetry(r, retryable)
                                          /\ CallProvider(r, k, attempt[r] + 1)
      BY <2>2, <2>3 DEF CallProvider, MayRetry
    <2>4. CASE pc' = [pc EXCEPT ![r] = "raised"]
               /\ UNCHANGED <<tried, attempt, current, held, calls>>
      BY <2>2, <2>4 DEF Finished
    <2>5. QED
      BY <2>1, <2>3, <2>4 DEF AdapterFails
  <1>5. CASE AdapterAborts(r)
    BY <1>5 DEF AdapterAborts, Finished
  <1>6. QED
    BY <1>1, <1>2, <1>3, <1>4, <1>5 DEF Answer

LEMMA RetryInvInit == RouterInit => RetryInv
  BY FS_EmptySet, RouterAssumption DEF RouterInit, RetryInv

LEMMA RetryInvStep == RouterTypeOK /\ RetryInv /\ [RouterNext]_vars => RetryInv'
  <1> SUFFICES ASSUME RouterTypeOK, RetryInv, [RouterNext]_vars
               PROVE  RetryInv'
    OBVIOUS
  <1>1. CASE ~ \E r \in Requests : Route(r) \/ Reject(r) \/ Answer(r)
    <2>1. UNCHANGED <<pc, tried, attempt, calls>>
      BY <1>1, NonRouteStep DEF routeVars
    <2>2. QED
      BY <2>1 DEF RetryInv
  <1>2. ASSUME NEW r \in Requests, Route(r) \/ Reject(r) \/ Answer(r)
        PROVE  RetryInv'
    <2>1. ASSUME NEW q \in Requests \ {r}
          PROVE  /\ pc'[q] = pc[q] /\ tried'[q] = tried[q]
                 /\ attempt'[q] = attempt[q] /\ calls'[q] = calls[q]
      BY <1>2, RouteStepEffect
    <2>2. /\ IsFiniteSet(tried[r]) /\ calls[r] = Cardinality(tried[r])
          /\ calls[r] \in Nat /\ calls[r] <= MaxRetries /\ attempt[r] \in Nat
          /\ pc[r] = "idle" => tried[r] = {}
          /\ pc[r] = "executing" => calls[r] = attempt[r] + 1
      BY DEF RetryInv, RouterTypeOK
    <2> DEFINE Good == /\ IsFiniteSet(tried'[r])
                       /\ calls'[r] = Cardinality(tried'[r])
                       /\ calls'[r] <= MaxRetries
                       /\ pc'[r] = "idle" => tried'[r] = {}
                       /\ pc'[r] = "executing" => calls'[r] = attempt'[r] + 1
    <2>3. ASSUME pc'[r] \in Finished, tried'[r] = tried[r], calls'[r] = calls[r]
          PROVE  Good
      BY <2>2, <2>3 DEF Finished
    <2>4. ASSUME NEW k, k \notin tried[r], tried'[r] = tried[r] \cup {k},
                 calls'[r] = calls[r] + 1, pc'[r] = "executing",
                 calls'[r] = attempt'[r] + 1, calls'[r] <= MaxRetries
          PROVE  Good
      <3> DEFINE T == tried[r]
      <3>1. /\ IsFiniteSet(T \cup {k})
            /\ Cardinality(T \cup {k}) = Cardinality(T) + 1
        <4>1. IsFiniteSet(T) /\ k \notin T
          BY <2>2, <2>4
        <4> HIDE DEF T
        <4>2. QED
          BY <4>1, FS_AddElement
      <3>2. QED
        BY <2>2, <2>4, <3>1
    <2>5. ASSUME pc[r] = "idle", pc'[r] = "executing",
                 \E k \in kept'[r] : tried'[r] = tried[r] \cup {k},
                 attempt'[r] = 0, calls'[r] = calls[r] + 1
          PROVE  Good
      <3>1. PICK k \in kept'[r] : tried'[r] = tried[r] \cup {k}
        BY <2>5
      <3>2. k \notin tried[r] /\ calls[r] = 0
        BY <2>2, <2>5, FS_EmptySet
      <3>3. calls'[r] = attempt'[r] + 1 /\ calls'[r] <= MaxRetries
        BY <2>5, <3>2, RouterAssumption
      <3> HIDE DEF Good
      <3>4. QED
        BY <2>4, <2>5, <3>1, <3>2, <3>3
    <2>6. ASSUME pc[r] = "executing", pc'[r] = "executing",
                 attempt[r] < MaxRetries - 1,
                 \E k \in Alternatives(r) : tried'[r] = tried[r] \cup {k},
                 attempt'[r] = attempt[r] + 1, calls'[r] = calls[r] + 1
          PROVE  Good
      <3>1. PICK k \in Alternatives(r) : tried'[r] = tried[r] \cup {k}
        BY <2>6
      <3>2. k \notin tried[r]
        BY DEF Alternatives
      <3>3. calls'[r] = attempt'[r] + 1 /\ calls'[r] <= MaxRetries
        BY <2>2, <2>6, RouterAssumption
      <3> HIDE DEF Good
      <3>4. QED
        BY <2>4, <2>6, <3>1, <3>2, <3>3
    <2>7. Good
      <3> HIDE DEF Good
      <3>1. QED
        BY <1>2, <2>3, <2>5, <2>6, RouteStepEffect
    <2>8. QED
      BY <2>1, <2>7 DEF RetryInv
  <1>3. QED
    BY <1>1, <1>2

\* Whatever happens to the keys meanwhile, a route calls the provider at most
\* MaxRetries times and on a different key each time.
THEOREM RetriesAreBounded == RouterSpec => []RetryDiscipline
  <1>1. RetryInv => RetryDiscipline
    BY DEF RetryInv, RetryDiscipline
  <1>2. QED
    BY <1>1, RetryInvInit, RetryInvStep, RouterTypeCorrect, PTL DEF RouterSpec

LEMMA FilterInvInit == RouterInit => FilterInv
  BY DEF RouterInit, FilterInv

LEMMA FilterInvStep == RouterTypeOK /\ FilterInv /\ [RouterNext]_vars => FilterInv'
  <1> SUFFICES ASSUME RouterTypeOK, FilterInv, [RouterNext]_vars
               PROVE  FilterInv'
    OBVIOUS
  <1>1. CASE ~ \E r \in Requests : Route(r) \/ Reject(r) \/ Answer(r)
    <2>1. UNCHANGED <<pc, tried, current, kept, filtered>>
      BY <1>1, NonRouteStep DEF routeVars
    <2>2. QED
      BY <2>1 DEF FilterInv
  <1>2. ASSUME NEW r \in Requests, Route(r) \/ Reject(r) \/ Answer(r)
        PROVE  FilterInv'
    <2>1. ASSUME NEW q \in Requests \ {r}
          PROVE  /\ pc'[q] = pc[q] /\ tried'[q] = tried[q] /\ current'[q] = current[q]
                 /\ kept'[q] = kept[q] /\ filtered'[q] = filtered[q]
      BY <1>2, RouteStepEffect
    <2> DEFINE Good ==
          /\ kept'[r] \cap filtered'[r] = {}
          /\ pc'[r] = "executing" /\ current'[r] \in filtered'[r] => kept'[r] \subseteq tried'[r]
    <2>2. kept[r] \cap filtered[r] = {}
      BY DEF FilterInv
    <2>3. ASSUME pc'[r] \in Finished, kept'[r] = kept[r], filtered'[r] = filtered[r]
          PROVE  Good
      BY <2>2, <2>3 DEF Finished
    <2>4. ASSUME kept'[r] \cap filtered'[r] = {}, current'[r] \in kept'[r]
          PROVE  Good
      BY <2>4
    <2>5. ASSUME kept'[r] = kept[r], filtered'[r] = filtered[r],
                 \E k \in Alternatives(r) : /\ current'[r] = k
                                            /\ tried'[r] = tried[r] \cup {k}
          PROVE  Good
      BY <2>2, <2>5 DEF Alternatives
    <2>6. Good
      <3> HIDE DEF Good
      <3>1. QED
        BY <1>2, <2>3, <2>4, <2>5, RouteStepEffect
    <2>7. QED
      BY <2>1, <2>6 DEF FilterInv
  <1>3. QED
    BY <1>1, <1>2

\* A key the quota filter took out is called only after every key it let pass.
THEOREM FilteredIsLastResort == RouterSpec => []FilteredLast
  <1>1. FilterInv => FilteredLast
    BY DEF FilterInv, FilteredLast
  <1>2. QED
    BY <1>1, FilterInvInit, FilterInvStep, RouterTypeCorrect, PTL DEF RouterSpec

-----------------------------------------------------------------------------
\* While no key has a second object, the object a route holds across the
\* provider call is the stored one, and saving it back is harmless.  This fails
\* once a key can be rotated: the run revocation shows how.
OneObject == \A k \in Keys : created[k] <= 1

LEMMA OneObjectStep ==
    ASSUME Rotatable = {}
    PROVE  RouterTypeOK /\ OneObject /\ [RouterNext]_vars => OneObject'
  <1> SUFFICES ASSUME RouterTypeOK, OneObject, [RouterNext]_vars
               PROVE  OneObject'
    OBVIOUS
  <1>1. ASSUME [KMNext]_kmVars
        PROVE  OneObject'
    <2>1. \/ created' = created
          \/ \E k \in Keys : created' = [created EXCEPT ![k] = 1]
      BY <1>1 DEF KMNext, kmVars, Manage, RegisterKey, RevokeKey, UpdateKeyState,
                  RotateKey, CheckAndRecoverStates, Tick
    <2>2. created \in [Keys -> 0..MaxMaterials]
      BY DEF RouterTypeOK, KMTypeOK
    <2>3. QED
      BY <2>1, <2>2 DEF OneObject
  <1>2. ASSUME NEW r \in Requests, Route(r) \/ Reject(r) \/ Answer(r)
        PROVE  OneObject'
    <2>1. created' = created
      BY <1>2 DEF Route, Reject, Answer, AdapterReturns, AdapterFails, AdapterAborts,
                  SaveHeld, kmVars
    <2>2. QED
      BY <2>1 DEF OneObject
  <1>3. QED
    BY <1>1, <1>2, QuotaResponseIsKeyManagerStep DEF RouterNext, KeyManagerStep, vars

LEMMA RouteKeepsRegistry ==
    ASSUME RouterTypeOK, OneObject, NEW r \in Requests, Route(r) \/ Reject(r) \/ Answer(r)
    PROVE  /\ stored' = stored /\ audit' = audit
           /\ \A k \in Registered : StoredKey(k)'.state = StoredKey(k).state
  <1>1. CASE UNCHANGED kmVars
    BY <1>1 DEF kmVars, StoredKey
  <1>2. ASSUME NEW key \in APIKey, SaveHeld(r, key), pc[r] = "executing",
               key.state = HeldKey(r).state
        PROVE  /\ stored' = stored /\ audit' = audit
               /\ \A k \in Registered : StoredKey(k)'.state = StoredKey(k).state
    <2>1. current[r] \in Keys /\ held[r] \in Objects /\ held[r] <= created[current[r]]
      BY <1>2, HeldFacts
    <2>2. held[r] = 1 /\ stored[current[r]] = 1
      BY <2>1, KeyManagerAssumption DEF OneObject, RouterTypeOK, KMTypeOK, Objects
    <2>3. stored' = stored
      BY <1>2, <2>1, <2>2 DEF SaveHeld, RouterTypeOK, KMTypeOK
    <2>4. ASSUME NEW k \in Registered
          PROVE  StoredKey(k)'.state = StoredKey(k).state
      <3>1. k \in Keys /\ stored[k] = 1
        <4>1. k \in Keys /\ stored[k] # 0
          BY DEF Registered
        <4>2. stored[k] \in 0..MaxMaterials /\ stored[k] <= created[k] /\ created[k] <= 1
          BY <4>1 DEF OneObject, RouterTypeOK, KMTypeOK
        <4>3. created[k] \in 0..MaxMaterials
          BY <4>1 DEF RouterTypeOK, KMTypeOK
        <4>4. QED
          BY <4>1, <4>2, <4>3, KeyManagerAssumption
      <3>2. heap'[k][1] = IF k = current[r] THEN key ELSE heap[k][1]
        BY <1>2, <2>1, <2>2, <3>1 DEF SaveHeld, RouterTypeOK, KMTypeOK
      <3>3. QED
        BY <1>2, <2>2, <2>3, <3>1, <3>2 DEF StoredKey, HeldKey
    <2>5. QED
      BY <1>2, <2>3, <2>4 DEF SaveHeld
  <1>3. CASE AdapterReturns(r)
    <2>1. HeldKey(r) \in APIKey
      BY <1>3, HeldFacts DEF AdapterReturns
    <2>2. /\ [HeldKey(r) EXCEPT !.usage_count = @ + 1] \in APIKey
          /\ [HeldKey(r) EXCEPT !.usage_count = @ + 1].state = HeldKey(r).state
      BY <2>1 DEF APIKey
    <2>3. QED
      BY <1>2, <1>3, <2>2 DEF AdapterReturns
  <1>4. ASSUME NEW retryable \in BOOLEAN, AdapterFails(r, retryable)
        PROVE  /\ stored' = stored /\ audit' = audit
               /\ \A k \in Registered : StoredKey(k)'.state = StoredKey(k).state
    <2>1. HeldKey(r) \in APIKey
      BY <1>4, HeldFacts DEF AdapterFails
    <2>2. /\ [HeldKey(r) EXCEPT !.failure_count = @ + 1] \in APIKey
          /\ [HeldKey(r) EXCEPT !.failure_count = @ + 1].state = HeldKey(r).state
      BY <2>1 DEF APIKey
    <2>3. QED
      BY <1>2, <1>4, <2>2 DEF AdapterFails
  <1>5. QED
    BY <1>1, <1>3, <1>4 DEF Route, Reject, Answer, AdapterAborts

LEMMA RegistryStep ==
    RouterTypeOK /\ OneObject /\ [RouterNext]_vars =>
        \/ [KMNext]_kmVars
        \/ /\ stored' = stored /\ audit' = audit
           /\ \A k \in Registered : StoredKey(k)'.state = StoredKey(k).state
  BY RouteKeepsRegistry, QuotaResponseIsKeyManagerStep
  DEF RouterNext, KeyManagerStep, vars, kmVars

\* As long as nobody rotates a key, the audit trail explains every key's state
\* although route calls save objects they fetched before other calls ran.
THEOREM AuditWithoutRotation ==
    ASSUME Rotatable = {}
    PROVE  RouterSpec => []AuditExplainsState
  <1>1. RouterInit => OneObject /\ AuditInv
    BY DEF RouterInit, KMInit, OneObject, AuditInv, AuditExplainsState,
           NoTrailBeforeRegistration, Registered
  <1>2. RouterTypeOK /\ OneObject /\ AuditInv /\ [RouterNext]_vars => OneObject' /\ AuditInv'
    <2> SUFFICES ASSUME RouterTypeOK, OneObject, AuditInv, [RouterNext]_vars
                 PROVE  AuditInv'
      BY OneObjectStep
    <2>1. CASE [KMNext]_kmVars
      BY <2>1, AuditStep, NoTrailStep DEF AuditInv, RouterTypeOK
    <2>2. CASE /\ stored' = stored /\ audit' = audit
               /\ \A k \in Registered : StoredKey(k)'.state = StoredKey(k).state
      BY <2>2 DEF AuditInv, AuditExplainsState, NoTrailBeforeRegistration, Registered
    <2>3. QED
      BY <2>1, <2>2, RegistryStep
  <1>3. AuditInv => AuditExplainsState
    BY DEF AuditInv
  <1>4. QED
    BY <1>1, <1>2, <1>3, RouterTypeCorrect, PTL DEF RouterSpec

\* As long as nobody rotates a key, the registry under concurrent route calls
\* still implements the abstract one.
THEOREM LifecycleWithoutRotation ==
    ASSUME Rotatable = {}
    PROVE  RouterSpec => RefinesLifecycle
  <1>1. RouterInit => OneObject /\ L!LifecycleInit
    BY DEF RouterInit, KMInit, OneObject, L!LifecycleInit, StateOf
  <1>2. RouterTypeOK /\ OneObject /\ [RouterNext]_vars => OneObject'
    BY OneObjectStep
  <1>3. RouterTypeOK /\ RouterTypeOK' /\ OneObject /\ [RouterNext]_vars
            => [L!LifecycleNext]_(L!lifecycleVars)
    <2> SUFFICES ASSUME RouterTypeOK, RouterTypeOK', OneObject, [RouterNext]_vars
                 PROVE  [L!LifecycleNext]_(L!lifecycleVars)
      OBVIOUS
    <2>1. CASE [KMNext]_kmVars
      BY <2>1, LifecycleStep DEF RouterTypeOK
    <2>2. CASE /\ stored' = stored
               /\ \A k \in Registered : StoredKey(k)'.state = StoredKey(k).state
      <3>1. \A k \in Keys : StateOf(k)' = StateOf(k)
        BY <2>2 DEF StateOf, Registered
      <3>2. [k \in Keys |-> StateOf(k)]' = [k \in Keys |-> StateOf(k)]
        BY <3>1
      <3>3. QED
        BY <2>2, <3>2 DEF L!lifecycleVars
    <2>3. QED
      BY <2>1, <2>2, RegistryStep
  <1>4. QED
    BY <1>1, <1>2, <1>3, RouterTypeCorrect, PTL DEF RouterSpec, RefinesLifecycle, L!Lifecycle

-----------------------------------------------------------------------------
\* Saving a held object writes that object and no other.
LEMMA SavedObject ==
    ASSUME RouterTypeOK, NEW r \in Requests, pc[r] = "executing",
           NEW key, SaveHeld(r, key), NEW k \in Keys, NEW m \in Objects
    PROVE  /\ heap'[k][m] = IF k = current[r] /\ m = held[r] THEN key ELSE heap[k][m]
           /\ outcomes'[k] = IF k = current[r] THEN outcomes[k] + 1 ELSE outcomes[k]
           /\ outcomes[k] \in Nat
           /\ stored[k] = 0 => k # current[r]
  <1>1. current[r] \in Keys /\ held[r] \in Objects /\ held[r] <= created[current[r]]
    BY HeldFacts
  <1>2. stored[current[r]] # 0
    BY <1>1, KeyManagerAssumption DEF RouterTypeOK, KMTypeOK, Objects
  <1>3. QED
    BY <1>1, <1>2 DEF SaveHeld, RouterTypeOK, KMTypeOK

\* A step of a route leaves objects and counters alone or saves the object it
\* holds with one more success or failure on it.
LEMMA RouteSaves ==
    ASSUME RouterTypeOK, NEW r \in Requests, Route(r) \/ Reject(r) \/ Answer(r)
    PROVE  \/ UNCHANGED kmVars /\ UNCHANGED outcomes
           \/ /\ pc[r] = "executing"
              /\ \E key \in APIKey :
                    /\ SaveHeld(r, key)
                    /\ key.state = HeldKey(r).state
                    /\ key.cooldown_until = HeldKey(r).cooldown_until
                    /\ key.usage_count + key.failure_count
                          = HeldKey(r).usage_count + HeldKey(r).failure_count + 1
  <1>1. CASE Route(r) \/ Reject(r) \/ AdapterAborts(r)
    BY <1>1 DEF Route, Reject, AdapterAborts
  <1>2. CASE AdapterReturns(r)
    <2> DEFINE key == [HeldKey(r) EXCEPT !.usage_count = @ + 1]
    <2>1. pc[r] = "executing" /\ SaveHeld(r, key)
      BY <1>2 DEF AdapterReturns
    <2>2. HeldKey(r) \in APIKey
      BY <2>1, HeldFacts
    <2>3. /\ key \in APIKey
          /\ key.state = HeldKey(r).state /\ key.cooldown_until = HeldKey(r).cooldown_until
          /\ key.usage_count + key.failure_count
                = HeldKey(r).usage_count + HeldKey(r).failure_count + 1
      BY <2>2 DEF APIKey
    <2> HIDE DEF key
    <2>4. QED
      BY <2>1, <2>3
  <1>3. ASSUME NEW retryable \in BOOLEAN, AdapterFails(r, retryable)
        PROVE  /\ pc[r] = "executing"
               /\ \E key \in APIKey :
                     /\ SaveHeld(r, key)
                     /\ key.state = HeldKey(r).state
                     /\ key.cooldown_until = HeldKey(r).cooldown_until
                     /\ key.usage_count + key.failure_count
                           = HeldKey(r).usage_count + HeldKey(r).failure_count + 1
    <2> DEFINE key == [HeldKey(r) EXCEPT !.failure_count = @ + 1]
    <2>1. pc[r] = "executing" /\ SaveHeld(r, key)
      BY <1>3 DEF AdapterFails
    <2>2. HeldKey(r) \in APIKey
      BY <2>1, HeldFacts
    <2>3. /\ key \in APIKey
          /\ key.state = HeldKey(r).state /\ key.cooldown_until = HeldKey(r).cooldown_until
          /\ key.usage_count + key.failure_count
                = HeldKey(r).usage_count + HeldKey(r).failure_count + 1
      BY <2>2 DEF APIKey
    <2> HIDE DEF key
    <2>4. QED
      BY <2>1, <2>3
  <1>4. QED
    BY <1>1, <1>2, <1>3 DEF Answer

\* Every step of the router is one of the registry that leaves the outcomes
\* alone, or a save by a route.
LEMMA SaveOrRegistry ==
    ASSUME RouterTypeOK, [RouterNext]_vars
    PROVE  \/ [KMNext]_kmVars /\ UNCHANGED outcomes
           \/ \E r \in Requests :
                 /\ pc[r] = "executing"
                 /\ \E key \in APIKey :
                       /\ SaveHeld(r, key)
                       /\ key.state = HeldKey(r).state
                       /\ key.cooldown_until = HeldKey(r).cooldown_until
                       /\ key.usage_count + key.failure_count
                             = HeldKey(r).usage_count + HeldKey(r).failure_count + 1
  <1>1. ASSUME NEW k \in Keys, NEW c \in Cooldowns \cup {NoCooldown}, HandleQuotaResponse(k, c)
        PROVE  [KMNext]_kmVars /\ UNCHANGED outcomes
    BY <1>1, QuotaResponseIsKeyManagerStep DEF HandleQuotaResponse
  <1>2. CASE KeyManagerStep \/ UNCHANGED vars
    BY <1>2 DEF KeyManagerStep, vars
  <1>3. QED
    BY <1>1, <1>2, RouteSaves DEF RouterNext

\* CooldownIffThrottled is not inductive under routes: a save binds the id to an
\* object that was not stored.  So it has to hold for every object there is.
CooldownOfObjects ==
    \A k \in Keys, m \in Objects :
        heap[k][m].state = "throttled" <=> heap[k][m].cooldown_until # NoCooldown

LEMMA CooldownOfObjectsStep ==
    RouterTypeOK /\ CooldownOfObjects /\ [RouterNext]_vars => CooldownOfObjects'
  <1> SUFFICES ASSUME RouterTypeOK, CooldownOfObjects, [RouterNext]_vars,
                      NEW k \in Keys, NEW m \in Objects
               PROVE  heap'[k][m].state = "throttled"
                         <=> heap'[k][m].cooldown_until # NoCooldown
    BY DEF CooldownOfObjects
  <1> DEFINE Ok(key) == key.state = "throttled" <=> key.cooldown_until # NoCooldown
  <1>1. heap[k][m] \in APIKey /\ KMTypeOK /\ \A n \in Objects : Ok(heap[k][n])
    BY DEF RouterTypeOK, KMTypeOK, CooldownOfObjects
  <1>2. CASE [KMNext]_kmVars
    <2>1. Ok(FreshKey)
      BY DEF FreshKey
    <2>2. k \in Registered => Ok(StoredKey(k))
      BY <1>1, StoredKeyType DEF StoredKey
    <2>3. \A s \in KeyState, c \in Cooldowns \cup {NoCooldown} : Ok(WithState(heap[k][m], s, c))
      BY <1>1, WithStateFacts
    <2>4. Ok([heap[k][m] EXCEPT !.cooldown_until = CountDown(heap[k][m].cooldown_until)])
      <3>1. heap[k][m].cooldown_until \in Nat \cup {NoCooldown}
        BY <1>1 DEF APIKey
      <3>2. CountDown(heap[k][m].cooldown_until) # NoCooldown
               <=> heap[k][m].cooldown_until # NoCooldown
        BY <3>1, KeyManagerAssumption DEF CountDown
      <3>3. QED
        BY <1>1, <3>2 DEF APIKey
    <2> HIDE DEF Ok
    <2>5. Ok(heap'[k][m])
      BY <1>1, <1>2, <2>1, <2>2, <2>3, <2>4, ObjectStep
    <2>6. QED
      BY <2>5 DEF Ok
  <1>3. ASSUME NEW r \in Requests, pc[r] = "executing", NEW key \in APIKey, SaveHeld(r, key),
               key.state = HeldKey(r).state, key.cooldown_until = HeldKey(r).cooldown_until
        PROVE  Ok(heap'[k][m])
    <2>1. heap'[k][m] = IF k = current[r] /\ m = held[r] THEN key ELSE heap[k][m]
      BY <1>3, SavedObject
    <2>2. k = current[r] /\ m = held[r] => Ok(key)
      BY <1>1, <1>3 DEF HeldKey
    <2> HIDE DEF Ok
    <2>3. QED
      BY <1>1, <2>1, <2>2
  <1>4. QED
    BY <1>2, <1>3, SaveOrRegistry

\* A stored key has a deadline exactly while it is throttled, although routes
\* bind ids to objects they fetched before other calls, rotations included.
THEOREM CooldownUnderRoutes == RouterSpec => []CooldownIffThrottled
  <1>1. RouterInit => CooldownOfObjects
    BY DEF RouterInit, KMInit, CooldownOfObjects, FreshKey
  <1>2. RouterTypeOK /\ CooldownOfObjects => CooldownIffThrottled
    BY StoredKeyType DEF RouterTypeOK, CooldownOfObjects, CooldownIffThrottled, StoredKey
  <1>3. QED
    BY <1>1, <1>2, CooldownOfObjectsStep, RouterTypeCorrect, PTL DEF RouterSpec

-----------------------------------------------------------------------------
\* No object of a key ever claims more calls than were answered on that key.
CountsBounded ==
    \A k \in Keys, m \in Objects :
        heap[k][m].usage_count + heap[k][m].failure_count <= outcomes[k]

LEMMA CountsBoundedStep ==
    RouterTypeOK /\ CountsBounded /\ [RouterNext]_vars => CountsBounded'
  <1> SUFFICES ASSUME RouterTypeOK, CountsBounded, [RouterNext]_vars,
                      NEW k \in Keys, NEW m \in Objects
               PROVE  heap'[k][m].usage_count + heap'[k][m].failure_count <= outcomes'[k]
    BY DEF CountsBounded
  <1> DEFINE Count(key) == key.usage_count + key.failure_count
  <1>1. /\ heap[k][m] \in APIKey /\ KMTypeOK /\ outcomes[k] \in Nat
        /\ \A n \in Objects : Count(heap[k][n]) <= outcomes[k]
    BY DEF RouterTypeOK, KMTypeOK, CountsBounded
  <1>2. CASE [KMNext]_kmVars /\ UNCHANGED outcomes
    <2>1. Count(FreshKey) <= outcomes[k]
      BY <1>1 DEF FreshKey
    <2>2. k \in Registered => Count(StoredKey(k)) <= outcomes[k]
      BY <1>1, StoredKeyType DEF StoredKey
    <2>3. \A s, c : Count(WithState(heap[k][m], s, c)) = Count(heap[k][m])
      BY <1>1 DEF WithState, APIKey
    <2>4. Count([heap[k][m] EXCEPT !.cooldown_until = CountDown(heap[k][m].cooldown_until)])
             = Count(heap[k][m])
      BY <1>1 DEF APIKey
    <2> HIDE DEF Count
    <2>5. Count(heap'[k][m]) <= outcomes[k]
      BY <1>1, <1>2, <2>1, <2>2, <2>3, <2>4, ObjectStep
    <2>6. QED
      BY <1>2, <2>5 DEF Count
  <1>3. ASSUME NEW r \in Requests, pc[r] = "executing", NEW key \in APIKey, SaveHeld(r, key),
               Count(key) = HeldKey(r).usage_count + HeldKey(r).failure_count + 1
        PROVE  Count(heap'[k][m]) <= outcomes'[k]
    <2>1. /\ heap'[k][m] = IF k = current[r] /\ m = held[r] THEN key ELSE heap[k][m]
          /\ outcomes'[k] = IF k = current[r] THEN outcomes[k] + 1 ELSE outcomes[k]
      BY <1>3, SavedObject
    <2>2. k = current[r] /\ m = held[r] => Count(key) = Count(heap[k][m]) + 1
      BY <1>3 DEF HeldKey
    <2>3. Count(heap[k][m]) \in Nat
      BY <1>1 DEF APIKey
    <2> HIDE DEF Count
    <2>4. QED
      BY <1>1, <2>1, <2>2, <2>3
  <1>4. QED
    BY <1>2, <1>3, SaveOrRegistry

\* The stored counters never claim more calls than were answered.
UsageNotOvercounted ==
    \A k \in Registered :
        StoredKey(k).usage_count + StoredKey(k).failure_count <= outcomes[k]

\* Usage and failures are never counted twice, rotations and routes that save
\* old objects included (a rotation may only lose counts).
THEOREM NoOvercount == RouterSpec => []UsageNotOvercounted
  <1>1. RouterInit => CountsBounded
    BY DEF RouterInit, KMInit, CountsBounded, FreshKey
  <1>2. RouterTypeOK /\ CountsBounded => UsageNotOvercounted
    BY StoredKeyType DEF RouterTypeOK, CountsBounded, UsageNotOvercounted, StoredKey
  <1>3. QED
    BY <1>1, <1>2, CountsBoundedStep, RouterTypeCorrect, PTL DEF RouterSpec

\* UsageIsCounted for the only object of a key, before its registration too.
CountsExact ==
    /\ \A k \in Keys : heap[k][1].usage_count + heap[k][1].failure_count = outcomes[k]
    /\ \A k \in Keys : stored[k] = 0 => outcomes[k] = 0

LEMMA CountsExactStep ==
    ASSUME Rotatable = {}
    PROVE  RouterTypeOK /\ OneObject /\ CountsExact /\ [RouterNext]_vars => CountsExact'
  <1> SUFFICES ASSUME RouterTypeOK, OneObject, CountsExact, [RouterNext]_vars, NEW k \in Keys
               PROVE  /\ heap'[k][1].usage_count + heap'[k][1].failure_count = outcomes'[k]
                      /\ stored'[k] = 0 => outcomes'[k] = 0
    BY DEF CountsExact
  <1> DEFINE Count(key) == key.usage_count + key.failure_count
  <1>1. /\ 1 \in Objects /\ heap[k][1] \in APIKey /\ KMTypeOK /\ outcomes[k] \in Nat
        /\ Count(heap[k][1]) = outcomes[k]
        /\ stored[k] = 0 => outcomes[k] = 0
    BY KeyManagerAssumption DEF RouterTypeOK, KMTypeOK, CountsExact, Objects
  <1>2. CASE [KMNext]_kmVars /\ UNCHANGED outcomes
    <2>1. stored[k] = 0 => Count(FreshKey) = outcomes[k]
      BY <1>1 DEF FreshKey
    <2>2. k \in Registered => StoredKey(k) = heap[k][1]
      <3>1. ASSUME k \in Registered
            PROVE  stored[k] = 1
        BY <1>1, <3>1, StoredKeyType, KeyManagerAssumption
        DEF OneObject, KMTypeOK, Objects
      <3>2. QED
        BY <3>1 DEF StoredKey
    <2>3. \A s, c : Count(WithState(heap[k][1], s, c)) = Count(heap[k][1])
      BY <1>1 DEF WithState, APIKey
    <2>4. Count([heap[k][1] EXCEPT !.cooldown_until = CountDown(heap[k][1].cooldown_until)])
             = Count(heap[k][1])
      BY <1>1 DEF APIKey
    <2>5. stored'[k] = 0 => stored[k] = 0
      BY <1>1, <1>2, RegisteredGrows DEF Registered
    <2> HIDE DEF Count
    <2>6. Count(heap'[k][1]) = outcomes[k]
      BY <1>1, <1>2, <2>1, <2>2, <2>3, <2>4, ObjectStep
    <2>7. QED
      BY <1>1, <1>2, <2>5, <2>6 DEF Count
  <1>3. ASSUME NEW r \in Requests, pc[r] = "executing", NEW key \in APIKey, SaveHeld(r, key),
               Count(key) = HeldKey(r).usage_count + HeldKey(r).failure_count + 1
        PROVE  Count(heap'[k][1]) = outcomes'[k] /\ (stored'[k] = 0 => outcomes'[k] = 0)
    <2>1. /\ heap'[k][1] = IF k = current[r] /\ 1 = held[r] THEN key ELSE heap[k][1]
          /\ outcomes'[k] = IF k = current[r] THEN outcomes[k] + 1 ELSE outcomes[k]
      BY <1>1, <1>3, SavedObject
    <2>2. held[r] = 1
      <3>1. current[r] \in Keys /\ held[r] \in Objects /\ held[r] <= created[current[r]]
        BY <1>3, HeldFacts
      <3>2. created[current[r]] \in 0..MaxMaterials /\ created[current[r]] <= 1
        BY <1>1, <3>1 DEF OneObject, KMTypeOK
      <3>3. QED
        BY <3>1, <3>2, KeyManagerAssumption DEF Objects
    <2>3. k = current[r] => Count(key) = Count(heap[k][1]) + 1
      BY <1>3, <2>2 DEF HeldKey
    <2>4. stored'[k] = 0 => stored[k] = 0 /\ k # current[r]
      BY <1>1, <1>3, <2>2, HeldFacts DEF SaveHeld, KMTypeOK
    <2> HIDE DEF Count
    <2>5. QED
      BY <1>1, <2>1, <2>2, <2>3, <2>4
  <1>4. QED
    BY <1>2, <1>3, SaveOrRegistry

\* As long as nobody rotates a key, concurrent routes lose no count.
THEOREM UsageWithoutRotation ==
    ASSUME Rotatable = {}
    PROVE  RouterSpec => []UsageIsCounted
  <1>1. RouterInit => OneObject /\ CountsExact
    BY KeyManagerAssumption
    DEF RouterInit, KMInit, OneObject, CountsExact, FreshKey, Objects
  <1>2. RouterTypeOK /\ OneObject /\ [RouterNext]_vars => OneObject'
    BY OneObjectStep
  <1>3. RouterTypeOK /\ OneObject /\ CountsExact /\ [RouterNext]_vars => CountsExact'
    BY CountsExactStep
  <1>4. RouterTypeOK /\ OneObject /\ CountsExact => UsageIsCounted
    <2> SUFFICES ASSUME RouterTypeOK, OneObject, CountsExact, NEW k \in Registered
                 PROVE  StoredKey(k).usage_count + StoredKey(k).failure_count = outcomes[k]
      BY DEF UsageIsCounted
    <2>1. k \in Keys /\ stored[k] = 1
      BY StoredKeyType, KeyManagerAssumption DEF RouterTypeOK, OneObject, KMTypeOK, Objects
    <2>2. QED
      BY <2>1 DEF CountsExact, StoredKey
  <1>5. QED
    BY <1>1, <1>2, <1>3, <1>4, RouterTypeCorrect, PTL DEF RouterSpec

-----------------------------------------------------------------------------
\* What the run revocation shows to fail holds as long as nobody rotates a key:
\* then no route can undo a revocation with an old object.
THEOREM RevocationWithoutRotation ==
    ASSUME Rotatable = {}
    PROVE  RouterSpec => RevocationSticks
  <1>1. RouterInit => OneObject
    <2> SUFFICES ASSUME RouterInit, NEW k \in Keys
                 PROVE  created[k] <= 1
      BY DEF OneObject
    <2>1. created[k] = 0
      BY DEF RouterInit, KMInit
    <2>2. QED
      BY <2>1
  <1>2. RouterTypeOK /\ OneObject /\ [RouterNext]_vars => OneObject'
    BY OneObjectStep
  <1>3. RouterTypeOK /\ OneObject /\ [RouterNext]_vars =>
           [\A k \in Keys : StateOf(k) = "disabled" /\ StateOf(k)' # "disabled"
                               => audit'[k].from_state = "disabled"]_vars
    <2> SUFFICES ASSUME RouterTypeOK, OneObject, [RouterNext]_vars, NEW k \in Keys,
                        StateOf(k) = "disabled", StateOf(k)' # "disabled"
                 PROVE  audit'[k].from_state = "disabled"
      OBVIOUS
    <2>1. CASE [KMNext]_kmVars
      BY <2>1, LeavesDisabledRecorded DEF RouterTypeOK
    <2>2. CASE /\ stored' = stored /\ audit' = audit
               /\ \A j \in Registered : StoredKey(j)'.state = StoredKey(j).state
      BY <2>2 DEF StateOf, Registered
    <2>3. QED
      BY <2>1, <2>2, RegistryStep
  <1>4. QED
    BY <1>1, <1>2, <1>3, RouterTypeCorrect, PTL DEF RouterSpec, RevocationSticks
=============================================================================
