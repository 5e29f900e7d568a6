------------------------------- MODULE Router -------------------------------
(***************************************************************************)
(* ApiKeyRouter.route (router.py) together with the decision part of       *)
(* RoutingEngine.route_request, running concurrently with KeyManager calls *)
(* on the same in-memory store.                                            *)
(*                                                                         *)
(* The only place where a route call gives up the event loop is            *)
(* adapter.execute_request, so one step runs from one such call to the     *)
(* next: everything the code does between receiving an answer and the next *)
(* provider call (or the end of route) is one action.  What the call holds *)
(* across the wait is a reference to the APIKey object it fetched before.  *)
(*                                                                         *)
(* Scores only decide which of the admissible keys is chosen; the choice   *)
(* is left open here.  Quota is reduced to whether a key's capacity state  *)
(* is one the engine filters out (Exhausted or Critical).  The default     *)
(* router is built without cost controller and policy engine, so quota is  *)
(* the only filter.  No FIFO limit of the decision log is reached.         *)
(***************************************************************************)
EXTENDS KeyManager, FiniteSets

CONSTANTS
    Requests,    \* the calls of route
    MaxRetries,  \* max_retries of route (3 in the code)
    NoKey        \* no key chosen yet

ASSUME RouterAssumption ==
    /\ MaxRetries \in Nat \ {0}
    /\ NoKey \notin Keys
    /\ "throttled" \in Targets   \* handle_quota_response passes it

VARIABLES
    pc,        \* pc[r]: "idle", "executing", or how route ended
    kept,      \* kept[r]: keys that passed every filter when r was decided
    filtered,  \* filtered[r]: eligible keys the quota filter took out
    tried,     \* tried[r]: the local set tried_keys
    attempt,   \* attempt[r]: the loop variable, 0 .. MaxRetries - 1
    current,   \* current[r]: current_key_id
    held,      \* held[r]: number of the APIKey object bound to api_key
    calls,     \* calls[r]: provider calls started (history)
    selected,  \* selected[r]: selected_key_id of the decision object in the log
    logged,    \* logged[r]: entries of the decision log that are r's decision
    drained,   \* keys whose capacity state is Exhausted or Critical
    outcomes   \* outcomes[k]: provider calls on k that have been answered (history)

decisionVars == <<kept, filtered, selected, logged>>
routeVars == <<pc, kept, filtered, tried, attempt, current, held, calls, selected, logged>>
vars == <<kmVars, routeVars, drained, outcomes>>

Finished == {"returned", "raised", "rejected", "aborted"}

RouterInit ==
    /\ KMInit
    /\ pc = [r \in Requests |-> "idle"]
    /\ kept = [r \in Requests |-> {}]
    /\ filtered = [r \in Requests |-> {}]
    /\ tried = [r \in Requests |-> {}]
    /\ attempt = [r \in Requests |-> 0]
    /\ current = [r \in Requests |-> NoKey]
    /\ held = [r \in Requests |-> 0]
    /\ calls = [r \in Requests |-> 0]
    /\ selected = [r \in Requests |-> NoKey]
    /\ logged = [r \in Requests |-> 0]
    /\ drained = {}
    /\ outcomes = [k \in Keys |-> 0]

\* Mutant of CallProvider: tried_keys is not extended in the loop.
CallProviderForgets(r, k, n) ==
    /\ pc' = [pc EXCEPT ![r] = "executing"]
    /\ attempt' = [attempt EXCEPT ![r] = n]
    /\ current' = [current EXCEPT ![r] = k]
    /\ held' = [held EXCEPT ![r] = stored'[k]]
    /\ tried' = [tried EXCEPT ![r] = IF n = 0 THEN {k} ELSE @]
    /\ calls' = [calls EXCEPT ![r] = @ + 1]

\* get_key binds the stored object and execute_request sends the call.
CallProvider(r, k, n) ==
    /\ pc' = [pc EXCEPT ![r] = "executing"]
    /\ attempt' = [attempt EXCEPT ![r] = n]
    /\ current' = [current EXCEPT ![r] = k]
    /\ held' = [held EXCEPT ![r] = stored'[k]]
    /\ tried' = [tried EXCEPT ![r] = @ \cup {k}]
    /\ calls' = [calls EXCEPT ![r] = @ + 1]

\* Mutant of Route: get_key hands out a copy of the stored object.
RouteOnCopy(r) ==
    /\ pc[r] = "idle"
    /\ kept' = [kept EXCEPT ![r] = EligibleKeys \ drained]
    /\ filtered' = [filtered EXCEPT ![r] = EligibleKeys \cap drained]
    /\ \E k \in EligibleKeys \ drained :
          /\ created[k] < MaxMaterials
          /\ heap' = [heap EXCEPT ![k][created[k] + 1] = StoredKey(k)]
          /\ created' = [created EXCEPT ![k] = @ + 1]
          /\ pc' = [pc EXCEPT ![r] = "executing"]
          /\ current' = [current EXCEPT ![r] = k]
          /\ selected' = [selected EXCEPT ![r] = k]
          /\ held' = [held EXCEPT ![r] = created[k] + 1]
          /\ tried' = [tried EXCEPT ![r] = {k}]
    /\ calls' = [calls EXCEPT ![r] = 1]
    /\ logged' = [logged EXCEPT ![r] = 1]
    /\ UNCHANGED <<stored, audit, attempt, drained, outcomes>>

\* route_request and the first provider call, on any key that was not filtered.
Route(r) ==
    /\ pc[r] = "idle"
    /\ EligibleKeys \ drained # {}
    /\ UNCHANGED <<kmVars, drained, outcomes>>
    /\ kept' = [kept EXCEPT ![r] = EligibleKeys \ drained]
    /\ filtered' = [filtered EXCEPT ![r] = EligibleKeys \cap drained]
    /\ \E k \in EligibleKeys \ drained :
          /\ selected' = [selected EXCEPT ![r] = k]
          /\ CallProvider(r, k, 0)
    /\ logged' = [logged EXCEPT ![r] = 1]

\* NoEligibleKeysError, from either of the two tests of route_request.
Reject(r) ==
    /\ pc[r] = "idle"
    /\ EligibleKeys \ drained = {}
    /\ pc' = [pc EXCEPT ![r] = "rejected"]
    /\ UNCHANGED <<kmVars, kept, filtered, tried, attempt, current, held, calls,
                   selected, logged, drained, outcomes>>

\* save_key(api_key): the id is bound to the held object again.
SaveHeld(r, key) ==
    /\ heap' = [heap EXCEPT ![current[r]][held[r]] = key]
    /\ stored' = [stored EXCEPT ![current[r]] = held[r]]
    /\ outcomes' = [outcomes EXCEPT ![current[r]] = @ + 1]
    /\ UNCHANGED <<created, audit>>

HeldKey(r) == heap[current[r]][held[r]]

\* The adapter returns a response.  update_capacity may leave the key's quota
\* on either side of the filter; its errors are swallowed.
AdapterReturns(r) ==
    /\ pc[r] = "executing"
    /\ pc' = [pc EXCEPT ![r] = "returned"]
    /\ selected' = [selected EXCEPT ![r] = current[r]]
    /\ logged' = [logged EXCEPT ![r] = IF current[r] # selected[r] THEN @ + 1 ELSE @]
    /\ drained' \in {drained \cup {current[r]}, drained \ {current[r]}}
    /\ SaveHeld(r, [HeldKey(r) EXCEPT !.usage_count = @ + 1])
    /\ UNCHANGED <<kept, filtered, tried, attempt, current, held, calls>>

\* Mutant of Alternatives: filtered keys mixed with the others.
AlternativesUnordered(r) == (kept[r] \cup filtered[r]) \ tried[r]

\* _get_alternative_key: the first untried key of the decision's eligible_keys,
\* where the unfiltered keys precede the filtered ones.
Alternatives(r) ==
    IF kept[r] \ tried[r] # {} THEN kept[r] \ tried[r] ELSE filtered[r] \ tried[r]

\* Mutant of MayRetry: one attempt too many.
MayRetryOnceMore(r, retryable) == retryable /\ attempt[r] < MaxRetries

MayRetry(r, retryable) == retryable /\ attempt[r] < MaxRetries - 1

\* The adapter raises SystemError: count the failure, then go to the next
\* untried key or re-raise.
AdapterFails(r, retryable) ==
    /\ pc[r] = "executing"
    /\ SaveHeld(r, [HeldKey(r) EXCEPT !.failure_count = @ + 1])
    /\ \/ /\ MayRetry(r, retryable)
          /\ \E k \in Alternatives(r) : CallProvider(r, k, attempt[r] + 1)
       \/ /\ ~MayRetry(r, retryable) \/ Alternatives(r) = {}
          /\ pc' = [pc EXCEPT ![r] = "raised"]
          /\ UNCHANGED <<tried, attempt, current, held, calls>>
    /\ UNCHANGED <<decisionVars, drained>>

\* Anything else the awaited call can raise (an unmapped exception, the
\* cancellation of the task) leaves route at once and counts nothing.
AdapterAborts(r) ==
    /\ pc[r] = "executing"
    /\ pc' = [pc EXCEPT ![r] = "aborted"]
    /\ UNCHANGED <<kmVars, kept, filtered, tried, attempt, current, held, calls,
                   selected, logged, drained, outcomes>>

\* Mutant of HandleQuotaResponse: the engine throttles the key object itself
\* instead of calling update_key_state.
HandleQuotaResponseDirect(k, c) ==
    /\ k \in Registered
    /\ drained' = drained \cup {k}
    /\ heap' = [heap EXCEPT ![k][stored[k]] = WithState(@, "throttled", c)]
    /\ UNCHANGED <<created, stored, audit, routeVars, outcomes>>

\* QuotaAwarenessEngine.handle_quota_response, open to callers of the engine:
\* capacity Exhausted, then an attempt to throttle the key (errors swallowed).
HandleQuotaResponse(k, c) ==
    /\ k \in Registered
    /\ drained' = drained \cup {k}
    /\ IF "throttled" \in ValidTransitions[StoredKey(k).state]
       THEN UpdateKeyState(k, "throttled", c)
       ELSE UNCHANGED kmVars
    /\ UNCHANGED <<routeVars, outcomes>>

KeyManagerStep == KMNext /\ UNCHANGED <<routeVars, drained, outcomes>>

Answer(r) ==
    \/ AdapterReturns(r)
    \/ \E retryable \in BOOLEAN : AdapterFails(r, retryable)
    \/ AdapterAborts(r)

RouterNext ==
    \/ KeyManagerStep
    \/ \E k \in Keys, c \in Cooldowns \cup {NoCooldown} : HandleQuotaResponse(k, c)
    \/ \E r \in Requests : Route(r) \/ Reject(r) \/ Answer(r)

RouterSpec == RouterInit /\ [][RouterNext]_vars

-----------------------------------------------------------------------------
\* Type invariant.
RouterTypeOK ==
    /\ KMTypeOK
    /\ pc \in [Requests -> {"idle", "executing"} \cup Finished]
    /\ kept \in [Requests -> SUBSET Keys]
    /\ filtered \in [Requests -> SUBSET Keys]
    /\ tried \in [Requests -> SUBSET Keys]
    /\ attempt \in [Requests -> 0..MaxRetries - 1]
    /\ current \in [Requests -> Keys \cup {NoKey}]
    /\ held \in [Requests -> 0..MaxMaterials]
    /\ calls \in [Requests -> Nat]
    /\ selected \in [Requests -> Keys \cup {NoKey}]
    /\ logged \in [Requests -> 0..2]
    /\ drained \subseteq Keys
    /\ outcomes \in [Keys -> Nat]
    /\ \A r \in Requests : kept[r] \cup filtered[r] \subseteq Registered
    /\ \A r \in Requests :
          pc[r] = "executing" => /\ current[r] \in tried[r]
                                 /\ held[r] \in 1..created[current[r]]
                                 /\ logged[r] = 1

\* One route never calls the provider twice on the same key and never more
\* than max_retries times, whatever else happens to the keys meanwhile: each
\* call it started is accounted for by a different key in tried_keys.
RetryDiscipline ==
    \A r \in Requests : /\ calls[r] = Cardinality(tried[r])
                        /\ calls[r] <= MaxRetries

\* A key the quota filter took out is a last resort: no call goes to one while
\* a key that passed the filters is still untried.
FilteredLast ==
    \A r \in Requests :
        pc[r] = "executing" /\ current[r] \in filtered[r] => kept[r] \subseteq tried[r]

\* usage_count and failure_count account for every answered call on the key.
UsageIsCounted ==
    \A k \in Registered :
        StoredKey(k).usage_count + StoredKey(k).failure_count = outcomes[k]

-----------------------------------------------------------------------------
\* What the documentation says and the code does not do.

\* revoke_key: a revoked key leaves the disabled state only through a call that
\* records the transition.
RevocationSticks ==
    [][\A k \in Keys : StateOf(k) = "disabled" /\ StateOf(k)' # "disabled"
                          => audit'[k].from_state = "disabled"]_vars
=============================================================================
