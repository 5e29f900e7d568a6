----------------------------- MODULE QuotaRoute -----------------------------
(***************************************************************************)
(* QuotaEngine composed with the requests that ApiKeyRouter.route sends    *)
(* with the key (router.py) past the quota filter of RoutingEngine         *)
(* (routing_engine.py).  Each request is decided by the capacity state it  *)
(* finds, and reports its consumption when the answer comes; up to         *)
(* MaxInFlight of them are under way at a time.  The router reports the    *)
(* total of tokens as consumed, whatever the unit of the key, and never    *)
(* tokens_consumed.                                                        *)
(*                                                                         *)
(* A filtered key is still called as the last resort of a request whose    *)
(* other keys have failed.                                                 *)
(***************************************************************************)
EXTENDS QuotaEngine

CONSTANTS
    MaxInFlight,  \* bound: concurrent requests on the key
    MaxAmount,    \* the most one answer may consume
    MaxResorts    \* bound: last resort calls within one period

ASSUME QuotaRouteAssumption ==
    /\ MaxInFlight \in Nat
    /\ MaxAmount \in Nat
    /\ MaxResorts \in Nat
    /\ \A n \in Amounts : n <= MaxAmount

VARIABLES
    inFlight,  \* requests that wait for the provider
    routed,    \* consumption reported by the router since reset_at passed (history)
    resorts    \* last resort calls since reset_at passed (history)

qrVars == <<qeVars, inFlight, routed, resorts>>

QRInit ==
    /\ QEInit
    /\ inFlight = 0
    /\ routed = 0
    /\ resorts = 0

\* _filter_by_quota_state.
PassesFilter(q) == q.state \notin {"exhausted", "critical"}

\* route_request chooses the key, whose quota state is made up if missing.
Start ==
    /\ inFlight < MaxInFlight
    /\ PassesFilter(Current)
    /\ GetQuotaState
    /\ inFlight' = inFlight + 1
    /\ UNCHANGED <<routed, resorts>>

\* The key was filtered and is what a failing request has left.
StartAsLastResort ==
    /\ inFlight < MaxInFlight /\ resorts < MaxResorts
    /\ ~PassesFilter(Current)
    /\ GetQuotaState
    /\ inFlight' = inFlight + 1
    /\ resorts' = resorts + 1
    /\ UNCHANGED routed

\* A response with its tokens; the error of a Mixed key is swallowed.
Succeed(n) ==
    /\ inFlight > 0
    /\ inFlight' = inFlight - 1
    /\ \/ UpdateCapacity(n, NoTokens) /\ routed' = routed + n
       \/ UpdateMixedFails /\ UNCHANGED routed
    /\ UNCHANGED resorts

\* A failure, or a response that does not say how many tokens it used.
EndUnreported ==
    /\ inFlight > 0
    /\ inFlight' = inFlight - 1
    /\ UNCHANGED <<qeVars, routed, resorts>>

Answer == (\E n \in Amounts : Succeed(n)) \/ EndUnreported

\* Other callers of the engine, and time.
OtherCall == EngineCall /\ UNCHANGED <<inFlight, routed, resorts>>

TickRoute ==
    /\ Tick
    /\ routed' = IF Boundary THEN 0 ELSE routed
    /\ resorts' = IF Boundary THEN 0 ELSE resorts
    /\ UNCHANGED inFlight

QRNext == Start \/ StartAsLastResort \/ Answer \/ OtherCall \/ TickRoute

QRSpec == QRInit /\ [][QRNext]_qrVars

\* Requests keep coming, are answered, and time passes.
QRFairSpec ==
    /\ QRSpec
    /\ WF_qrVars(Start)
    /\ WF_qrVars(Answer)
    /\ WF_qrVars(TickRoute)

-----------------------------------------------------------------------------
\* The filter bounds how far a period is overdrawn: as long as predictions are
\* not cached, requests consume at most the total and one answer for each
\* request that was under way when the capacity ran out or that used the key
\* as its last resort, whoever else reports consumption meanwhile.
OverdraftIsBounded ==
    /\ ttl = 0
    /\ quota # NoQuota /\ quota.window = "periodic" /\ quota.unit # "mixed"
    /\ quota.total["capacity"] # Unknown
    => routed <= quota.total["capacity"] + (MaxInFlight + resorts) * MaxAmount

-----------------------------------------------------------------------------
\* What the documentation says and the code does not do.

\* core-workflows.md: "When quota resets or capacity improves, key1 becomes
\* eligible again": a filtered key passes the filter again some day.
FilteredKeyRecovers ==
    quota # NoQuota /\ ~PassesFilter(Current) ~> PassesFilter(Current)
=============================================================================
