# Verification of ApiKeyRouter

TLA+ modules, TLC runs and TLAPS proofs for the Python packages under
`packages/core/apikeyrouter` (the routing library) and `packages/proxy`
(a thin FastAPI proxy). Paths below are relative to `packages/core/apikeyrouter`
unless they say otherwise.

## 1. The system

ApiKeyRouter sends LLM requests through a pool of API keys. A call of
`ApiKeyRouter.route` asks the routing engine for a key, calls the provider with
it, and on a failure that may be retried goes on to another key, at most three
times. Around it stand a key registry with a state machine per key, quota and
cost accounting, versioned configuration with hot reload, and three state
stores. Everything runs as coroutines on one asyncio event loop (the file
watcher adds an observer thread), so code between two suspension points is
atomic and the hard behaviours are what other coroutines do in between.

| Component | State it keeps | Operations | Hard behaviour |
|---|---|---|---|
| `KeyManager` (`domain/components/key_manager.py`, `domain/models/api_key.py`) | per key: state, cooldown deadline, usage and failure counters, material; one `StateTransition` per change | `register_key`, `update_key_state`, `revoke_key`, `check_and_recover_states`, `rotate_key`, `get_eligible_keys` | mutates shared objects in place, two writes per change, cooldowns that expire without anybody noticing |
| `InMemoryStateStore` | keys, quota states, decision log, transition log | `save_*`, `get_*`, `list_keys`, `query_state` | hands out references to live objects; FIFO limits on the logs |
| `RedisStateStore`, `MongoStateStore` | the same, in a server | the same, plus fallback and reconciliation (Redis) | copies instead of references, a suspension at every call, a fallback that never returns |
| `ApiKeyRouter` (`router.py`) | providers, policies; per call of `route`: tried keys, attempt, the held `APIKey` | `route`, `register_provider`, `register_key`, `load_configuration_from_manager`, `apply_configuration`, `update_*_from_config` | a provider call in the middle of read-modify-write; retries from a list decided earlier |
| `RoutingEngine` and strategies | round-robin index per provider, last keys | `route_request`, `evaluate_keys`, `explain_decision` | filters against stale state, indices into a list that changes |
| `QuotaAwarenessEngine` | quota state per key, prediction cache | `update_capacity`, `handle_quota_response`, `predict_exhaustion`, `calculate_uncertainty` | lazy reset of time windows, caches, units |
| `CostController` | budgets with spending, reconciliations | `check_budget`, `enforce_budget`, `update_spending`, `record_actual_cost` | check, then spend; lazy period reset |
| `PolicyEngine` | none | `evaluate_policy`, `resolve_policy_conflicts` | pure filtering |
| `ConfigurationManager` (`infrastructure/config/manager.py`) | live configuration, version, bounded history of snapshots | `load_configuration`, `update_policy`, `update_key_config`, `rollback` | which snapshot a rollback finds; failure after the change was applied |
| `ConfigurationFileWatcher` | debounce task, thread lock | `on_modified`, `_debounced_reload`, `start`, `stop` | observer thread and event loop; a lock held across an await |
| Provider adapters | none | `execute_request`, `map_error` | the one real suspension of `route` |
| Proxy (`packages/proxy`) | request windows of the rate limiter | middleware | sliding window |

Interactions: `route` calls `RoutingEngine.route_request` (which reads keys through
`KeyManager` and quota through `QuotaAwarenessEngine`), saves the decision, fetches
the key, awaits the adapter, and then writes counters, quota and decision back.
`QuotaAwarenessEngine.handle_quota_response` throttles keys through `KeyManager`.
The watcher makes `ConfigurationManager` reload; `ApiKeyRouter` copies a loaded
configuration into its own tables when it is asked to.

## 2. Modules

**KeyLifecycle** is the abstract specification of the registry: one state and one
number of installed material per key, moves along the transition table, a
recovery pass, rotations to material never used before. It knows nothing of
objects, stores, trails or cooldowns.

**KeyManager** models the registry over the in-memory store. Since `get_key` returns the
stored object itself and `update_key_state` mutates it, objects are part of the
state: `heap[k][m]` is object `m` of key `k`, `stored[k]` the object the store maps
`k` to, `created[k]` how many exist, `audit[k]` the last transition saved. An object
number is also the number of its material, because only `register_key` and
`rotate_key` build objects and both use new material. One action per
operation: `RegisterKey`, `UpdateKeyState`, `RevokeKey`, `CheckAndRecoverStates`,
`RotateKey`; `Tick` is the passage of time. `cooldown_until` is kept relative to now.
Each call is one step because no call of the in-memory store suspends.

**Router** extends KeyManager with calls of `route`. The only point where `route` suspends is
`adapter.execute_request`, so a step runs from one provider call to the next:
`Route` (decision, log entry, first call), `AdapterReturns`, `AdapterFails` (counts the failure,
then calls an alternative key or ends), `AdapterAborts` (any other exception or a
cancellation), `Reject` (no eligible key), and `HandleQuotaResponse`. Between them every registry
operation may run. `held[r]` is the number of the object the call fetched before it
suspended, and `SaveHeld` is the `save_key` after it. The scores only order the admissible
keys, so the choice is open; quota is the set `drained` of keys whose
capacity state the engine filters out. Variables `calls` and `outcomes` are history
variables for the properties.

**ConfigManager** models `ConfigurationManager`: the live configuration as a function from
entries (policies and keys) to contents, its version number, and the history of snapshots. `Load`
puts the replaced version and the new one into the history, `Update` only the replaced one,
`RollbackTo` the version it leaves and, under a new number, the one it restores;
`AddToHistory` cuts to `max_history`. What
validation or the event refuses is `Refuse`. `published` is a history variable: what was live under each version number.

**ConfiguredRouter** extends it with the tables `ApiKeyRouter` copies out of the manager:
`LoadFromManager`, `UpdatePolicyFromConfig`, `UpdateKeyFromConfig` apply a change and copy it,
`ManagerOnly` is a change made by the watcher or by a holder of the manager,
which the router does not hear of, and `ApplyConfiguration` gives the router a configuration of the caller's own, which the
manager does not hear of. `apart` is a history variable: the policies that one of the two has changed alone.

**FileWatcher** models the debounce of file events: the observer thread queues a coroutine per
event (`Modify`), each coroutine takes the thread lock, cancels the previous task, awaits it with
the lock held (`StartReload`, `ResumeReload`), and the task sleeps and reloads
(`DelayOver`, `Reload`, `Cancelled`). `looped` says whether the watcher has an event loop that runs: without one the observer
thread drops what it is told. `BlockLoop` is what happens when a coroutine meets the lock: the whole
event loop waits.

**QuotaEngine** models one key in `QuotaAwarenessEngine`: its stored `QuotaState` (unit, window, total,
remaining and used amounts, capacity state, distance to `reset_at`) and its entry in the prediction cache. Actions:
`UpdateCapacity` with the lazy reset (`ResetIfDue`), the charge per unit, the prediction and the
new capacity state; `UpdateMixedFails`, the error that leaves a reset behind; `HandleQuotaResponse`;
`GetQuotaState`; `Tick`. Predictions depend on a usage rate that may be anything, so a new one is any of the three
classes of hours the code distinguishes, or none; it needs known capacity above zero. `spent` and
`touched` are history variables.

**QuotaRoute** composes it with requests: `Start` is admitted by the state the filter reads, `StartAsLastResort` is a
retry on a filtered key, `Succeed` and `EndUnreported` are the answers; other callers (`OtherCall`) may
use the engine in between. `routed` and `resorts` are history variables.

**BudgetLedger** is the abstract specification of cost control: an amount charged to a budget counts until its
calendar period ends, and a request that was checked is admitted only while it fits every hard budget of its key.

**CostController** models the budgets of `CostController` with `RoutingEngine._filter_by_budget` and the retries
of `route`. A budget is `[current_spend, warning_count, reset_in]`; the clock is, per budget, the part of its calendar
period that has passed. `Refreshed` is `_check_and_reset_budget` on the budgets a call touches. A request runs
through `EnforceBudget` or `RouteRequest` (check), `Retry`, `Complete` or `Fail` (provider), `UpdateSpending` once per budget
it owes, and `RecordActualCost`. Each call is one step, because the controller's methods never wait;
what other requests do between the calls is the point. Only tests and examples make the calls after the check, so their
order is that of the tests (`tests/integration/test_cost_control.py`) and of `docs/architecture/core-workflows.md`.
`bypassed` is a history variable: hard budgets that let a request through unseen since their last reset, because
its estimate failed, was zero, or was for a key the retry took from the filtered ones.

**Scoring** holds the scoring operators: one per criterion (`CostScores`, `FairnessScores`, `ReliabilityScores`), the weighted
`Composite`, and `Adjusted` for soft budgets and quota. Scores are exact fractions where the code rounds floats: a score is
`[of, one]`, natural numbers that stand for `of[k] / one`, and success rates are given in fractions of `Grain`.

**Selection** is `route_request` over many concurrent requests: quota and policy filters, `Selected` with the round-robin
index, the list `Attempts` that retries go through, and the counters `usage` and `failures`, which change only when an answer
comes (`Succeed`, `Fail`). `level` and `latest` are history variables.

**RemoteStore** models `RedisStateStore` as processes: each call pings, sends one command or two, and waits. A command is
sent, executed by Redis and answered in three steps; it may be sent again (`Resend`), and the task may break off before or
after it took effect (`Break`), which switches the instance to its own store for good. `Abandon` is the end of a call whose task is
cancelled, or that meets any other error (`StateStoreError`), anywhere between its commands; the instance stays with Redis. `Expire` is the time to live.
`StartSweep`, `Look`, `Delete`, `NextScan` and `SweepFails` are the reconciliation loop, one key at a time, with tasks of
any instance in between. `missing` and `left` (calls given up since a list was last trimmed) are history variables.

**MCKeyManager**, **MCRouter**, **MCConfiguredRouter**, **MCFileWatcher**, **MCQuotaRoute**, **MCCostController**,
**MCSelection** and **MCRemoteStore** instantiate them for TLC. **KeyManagerProofs**, **RouterProofs**,
**ConfigProofs** (manager and router), **FileWatcherProofs**, **QuotaProofs**, **CostProofs**, **SelectionProofs** and
**RemoteProofs** hold the theorems.

## 3. Runs

| Run | Instance | What it shows |
|---|---|---|
| `registry` | 2 keys, 2 objects each, cooldowns 0, 1 and default 2 | state, deadline and trail agree after any sequence of calls; repeated throttling never puts a deadline off; the registry implements KeyLifecycle; a throttled key becomes usable again |
| `shared` | 2 keys, 2 concurrent routes, no rotation | counters account for every answered call, trail and lifecycle hold although routes save objects they fetched earlier |
| `retry` | 4 keys, 1 route, 3 attempts | at most three calls, a new key each time, filtered keys last |
| `configured` | 2 entries, 4 versions, history of 3 | whatever is done with the manager, the router or both, snapshots are what their versions were, the previous version can be restored by number, a rollback restores exactly that, and a policy that last went through manager and router is the same in both |
| `watcher` | 3 modifications, with and without a running event loop | with a running loop, cancelling never forgets a modification, and the last one is read unless the event loop blocks; every step of the code fires |
| `quota` | total 3 or unknown, period of 2 ticks, cache time 0 or 1, 2 concurrent requests, 1 last resort per period | remaining capacity is never overstated, the usage counted is that of the period, and the overdraft of a period is bounded by the requests under way |
| `cost` | 2 concurrent requests, a hard budget of 3 for both keys (period 2) and a soft one of 1 for one key, a model that costs 2 and one estimated free | resets done late cannot be told from resets on time (refinement of BudgetLedger), the overrun of a hard budget is bounded by the concurrent requests, a spent budget opens again |
| `selection` | 3 new keys, 2 concurrent requests, fairness, capacities that change | no key falls behind by more than the requests under way, ties are taken in turn, no key is tried twice |
| `scoring` | 3 keys with every history of 3 calls, all kinds of objectives, a policy, a soft budget | the selected key is near the best by score and no candidate dominates it |
| `remote` | 2 tasks of one instance (one only appends transitions), a second instance that sweeps, 1 key, 1 transition kept, 1 appending call given up between trims | no save is dropped, no call goes back to an abandoned Redis, lists stay bounded, the sweep deletes orphans and nothing else |
| `revocation`, `quota_recovery` | smaller instances of `shared` and `quota` | counterexamples to statements of the documentation, see section 5 |

Bounds and why they are enough. Two keys let one key be in any stage while the other
is served or retried; two routes are what a lost update needs; two objects
per key are one rotation, and further ones repeat it. Cooldown 0 exercises
`cooldown_seconds or default`; the default of two ticks leaves a state strictly between set and
expired. In `retry` there is one key more than attempts, so running out of attempts
and running out of keys both occur. `Targets` restricts the states callers pass in the
router runs to those the route interacts with; the registry run has all six.

Three modifications are one to start a reload, one to cancel it and one to meet the lock. A history of
three and four versions make the history overflow with a rollback on either side of it, and let a policy change in one place,
in the other, and in both again; contents that class `Policy` refuses (`Odd`) are
left to the proofs. A total of three gives each capacity state an
amount of its own; two ticks are a tick inside a period and a tick that ends it, and consumption may
go one beyond the bound it is checked against. An answer of two may find one left, where the code stops at zero.
In `cost` a limit of 3 and amounts of 2 let one request fit and two overrun; with periods of 1 and 2 the budgets are reset at
different times, and a period may end between any two calls of a request. In `selection` three calls are
enough for one key to be two behind with two requests under way; the third key is left to round-robin. In `scoring`
costs 10, 12 or 13, and 26 lie on both sides of the sixth of the range that the boost hides. One key is enough in `remote`, because
keys meet only in the scans, which the proofs cover for any number of keys; a list limit of one is reached and passed, and
one call given up while both tasks append reaches the bound's every term.

`MaxSpend`, `MaxWarnings`, `MaxCalls`, `MaxRetries`, `MaxVersion`, `MaxSpent`, `MaxResorts`, `MaxInFlight` and
`MaxLeft` bound counters that the code leaves
open (except `MaxRetries`, which is its 3). Deadlock is checked in all runs but those of the file watcher,
which has nothing left to do when the file stays as it is or the event loop is blocked.

Fairness. In the registry only `Tick` is fair: nothing in the program calls
`check_and_recover_states` and no caller is obliged to call anything, so `CooldownEnds` has to
hold on the passage of time alone. It does, because `get_eligible_keys` accepts an
expired deadline and a repeated throttling returns before it sets a new one.
In the file watcher the event loop runs coroutines that are ready and timers fire; file events and `stop` are
never owed. `QRFairSpec` assumes as much as a working deployment can give: requests keep coming to a
key that passes the filter, they are answered, and time passes. Even so a filtered key does not recover (`quota_recovery`);
calling it as a last resort is nobody's obligation. In `CostController` only `Tick` is fair: time passes. In `RemoteStore` only the
reconciliation loop of an instance is (`WF(Sweep(i))`): it is an endless loop on a running event loop, and an error starts the next
round. That errors end is a premise of `OrphansGo`, not an assumption. `Selection` has no fairness: its properties are about steps.

## 4. Proofs

`KeyManagerProofs` proves for every set of keys, number of objects, cooldown and set of
rotatable keys:

- `TypeCorrect`: the type invariant. It carries the fact the rest relies on, that a
  stored object is one that was created.
- `CooldownConsistent`: `CooldownIffThrottled` is inductive together with the types.
- `DeadlineKept`: an action property: while a key is throttled its deadline comes nearer with time and is moved by no call, because
  `update_key_state` returns before it writes when the state is the same (`key_manager.py:244`) and a rotation copies the deadline.
- `AuditCorrect`: `AuditExplainsState` is not inductive alone, since `register_key` writes no
  transition; the strengthening `AuditInv` adds that an unregistered key has no trail.
- `LifecycleRefinement`: each action is a step of KeyLifecycle or leaves it alone.

Each proof goes through effect lemmas (`RegisterEffect`, `UpdateEffect`, ...), which say
once what an action does to the stored objects.

`RouterProofs` proves for every number of requests and retries:

- `RouterTypeCorrect`: including that a route in progress holds an existing object
  of a key it has tried.
- `RetriesAreBounded`: through `RetryInv`, which ties the number of calls to the loop
  variable and says an idle route has tried nothing.
- `FilteredIsLastResort`: through `FilterInv`, which adds that kept and filtered keys are disjoint.
- `CooldownUnderRoutes`: the deadline invariant of the registry also holds when routes save objects that are stored no longer. It is
  not inductive for stored objects, because a save may store an old one again; `CooldownOfObjects` states it of every object.
- `NoOvercount`: `CountsBounded`, again for every object, since a save of an old object is where a count could be made twice. So
  rotations may lose counts and never invent them.
- `AuditWithoutRotation`, `LifecycleWithoutRotation`, `UsageWithoutRotation`, `RevocationWithoutRotation`: if `Rotatable = {}`, every key
  has at most one object (`OneObject`), so the held object is the stored one and saving it back is invisible to the registry, no
  count is lost (`CountsExact`) and no revocation undone. The run `revocation` shows that the assumption is needed: the rotation
  is what makes the finding, not the concurrency alone.

`ConfigProofs` proves for every set of entries, history limit and number of
versions:

- `ConfigTypeCorrect`: types; the live configuration is the one published under its version.
- `HistoryIsFaithful`: every snapshot is what its version was.
- `PreviousVersionKept`: the last snapshots are always those of the previous version, through a case split on the
  limit.
- `RollbackIsExact`: an action property, from faithfulness.
- `RouterUsesManager`: every step of the router's configuration methods is a call of the manager or leaves it alone, so the theorems about
  the manager hold in the composition.
- `ConfiguredTypeCorrect`: types and the limit of the history in the composition.
- `PoliciesStayInStep`: `PoliciesInStep` is inductive with the types; each method is charged with the policies it leaves changed on one
  side only.

`FileWatcherProofs` proves for any number of modifications and of events per modification:

- `WatcherTypes`: with the conditions under which the lock is held, which make the rest inductive.
- `NothingIsForgotten`: `NoChangeForgotten`, for watchers with a running loop, is inductive with them.
- `BlockNeedsThree`: the event loop is blocked only after three events. `EventsAccount` charges every coroutine that is queued, has
  created the current task or holds the lock to an event of its own.

`QuotaProofs` proves for all totals, amounts, period lengths, cache times and numbers of requests:

- `EngineCorrect`, and for the composition `QuotaTypeCorrect`, `RemainingCovered`, `UsageIsCurrent`, from `EngineInv`. `UsedIsOfThisPeriod` is not
  inductive: it says nothing of a state that has not been touched in this period. `Booked` adds that such a state either
  has a reset due or has nothing counted.
- `OverdraftBounded`: through `RouteInv`. `FilterIsHonest` says that a metered state that passes the filter has
  capacity left (this is what a cached prediction would break); `Reserved` sets one answer aside for each request under way, so
  starting a request uses a reservation and an answer gives it back.
- `RouteImplementsEngine`: every step of a request is a call of the engine or none.

`CostProofs` proves for every set of budgets, keys, requests, scopes, limits, periods and amounts:

- `CostTypes`: with the fact that a reset time is the end of the current period or has passed unnoticed.
- `OverrunIsBounded`: the bound is not inductive. `Exposure` adds one largest amount for every request that may still add to the
  budget (`Outstanding`): a request that is admitted fits the limit on its own, a charge trades an outstanding request for an amount, and
  a retry moves within the keys the decision kept.
- `LazyResetsImplementLedger`: under the mapping that reads a budget whose reset is due as empty, a reset is a stutter and the
  clock does the abstract reset.

`RemoteProofs` proves for any number of instances, tasks and keys:

- `RemoteTypes`; `SweepIsSafe`, through `SweepsCover`: during a sweep every key that was never missing has not been scanned yet or is known.
- `LogIsBounded`, through `Accounted`: each entry above the limit is accounted for by a task between LPUSH and LTRIM, by one that broke off there and
  whose instance has left Redis, or by a call given up there since the list was last trimmed.
- `NothingIsDropped`, `LeftForGood`: action properties. No save that returns has its data nowhere; no call of an instance that has left
  Redis begins there, also when it was waiting for its ping.

`SelectionProofs` proves for every list of keys, number of requests and of calls, history, set of weights, objective and sequence of policies:

- `SelectionTypes`: the list that retries go through holds no key twice although a key may be filtered by several policies. It
  rests on `PickedFacts` (taking positions of a list in order keeps it free of repetitions) and `FlattenType`.
- `KeysShareRequests`: `FairShare` is inductive with the types. Only a decision can hurt it, by one awaited request for the key it
  takes; `FairlySelected` says that this key is either used no more than one on equal terms or is ahead of it by at most a sixth of the
  range of the counters, and `FairShare` itself bounds that range. An answer moves a request from awaited to counted.
- `NeverTwiceInARow`: through `LatestIndexed`, the index points at the latest key in the list it was chosen from.
- `DecisionNearBest`, `DecisionNotDominated`: action properties. `BestFacts` bounds what the multipliers and the cut at 1.0 can do to
  the order of scores, `EvaluateAgrees` what scores say about the criteria.

Maxima and the recursive function behind `FlattenSeq` are shown to exist by a least counterexample (`LeastNatural`, from the
well-founded order of finite subsets), because the induction theorems of the library cannot be instantiated here. Success rates enter
only by their definition as integer quotients, so the theorems hold for any `Grain` that the assumption allows.

The assumptions are the named ones of the modules: `KeyManagerAssumption`, `RouterAssumption`, those of `ConfigManager`, `QuotaAssumption`,
`NoQuotaAssumption`, `QuotaRouteAssumption`, `CostAssumption`, `FileWatcherAssumption`, `GrainAssumption`, `SelectionAssumption` and
`RemoteAssumption`. Every invariant and every action property of the passing runs is proved. Only model-checked is liveness
(`CooldownEnds`, `LatestChangeIsReadOrBlocked`, `BudgetReopens`, `OrphansGo`), which needs fairness and `ENABLED`.

## 5. Findings

Shown by runs:

1. `revocation`: a rotation and a revocation during a provider call leave the key available again,
   with a trail that says disabled (`router.py:731`). Without a rotation this cannot happen (`RevocationWithoutRotation`).
2. `quota_recovery`: a key the quota filter took out stays out after its quota has reset, because only
   `update_capacity` notices a reset (`quota_awareness_engine.py:109`).
Observed while modelling, without a run of their own:

- A retry that succeeds rewrites the decision that is already in the log and logs it again (`router.py:703`), although
  `memory_store.py:250` calls the log append-only.
- `rollback()` after an update goes back two versions, because an update saves only the state it replaces (`manager.py:361`);
  `manager.py:340` promises the previous version. By its number that version can be restored (`PreviousVersionIsKept`).
- Loads and updates of the manager, by the watcher or by others, never reach the router, because nobody calls
  `apply_configuration`, although `router.py:904` says it is called automatically. Where the two do agree is what `PoliciesInStep` says.
- A watcher started where no event loop runs drops every event (`file_watcher.py:64-77`), although `file_watcher.py:201`
  says that a loop will be created. The properties of `FileWatcher` are about watchers with a loop.
- A third file event while a cancelled reload is awaited blocks the event loop for good (`file_watcher.py:87`);
  `LatestChangeIsReadOrBlocked` has the blocked loop as its only exception, and `BlockNeedsThree` shows that fewer events are safe.
- Hard budgets are not reserved: `check_budget` compares with what has been charged so far, so concurrent requests overrun a hard limit by what they
  cost together (`cost_controller.py:546`). `docs/architecture/core-workflows.md:284` has a call `reserve_budget` that does not exist.
  `OverrunBounded` states how much it may be.
- A hard budget is passed without a check when the estimate of a key fails (`routing_engine.py:361`), and by a retry on a key that
  the budget filter took out, because filtered keys stay in `eligible_keys` (`routing_engine.py:1264`). A request estimated to cost nothing
  passes an overspent budget (`budget.py:151`).
- A downgrade estimates the cost of the cheaper model and uses it in log records only; the result returned is that of the dearer one
  (`cost_controller.py:763`). The estimates of failed requests are never removed (`cost_controller.py:879`).
- The boost of Abundant keys is cut off at 1.0 (`routing_engine.py:511`), so for the cost objective the first of several keys within a sixth of the
  price range is taken, not the cheapest (`cost_optimized.py:20` says the cheapest).
- A key that has only failed escapes the penalty for failures, because that asks for `usage_count > 0`
  (`reliability_optimized.py:172`); it may beat a key that also answered. Fairness counts answers only and goes on choosing a key that always fails.
- The round-robin index is a position in the list of an earlier request (`routing_engine.py:1201`); after the list has changed it
  stands for another key.
- Constraints of several policies are merged in the order of precedence with `dict.update` (`routing_engine.py:1099`), so the policy of lowest
  precedence wins.
- An instance that met one Redis error never returns to Redis and no longer sees what was saved there (`redis_store.py:191`).
- A key saved while the reconciliation scans, after its place has been passed, loses its quota record and transitions (`redis_store.py:750`).
  A command that is sent again after a timeout may append a transition twice (`redis_store.py:150`).
- A retry calls a key that was revoked after the decision (`router.py:680`), and keys the quota filter took out are retry
  targets (`routing_engine.py:1264`).
- A rotation during a provider call is lost (`router.py:731`, and `803` on failures); the finding `revocation` is built on it.
- When the event of a configuration update cannot be emitted, the caller gets an error and the change stays
  (`manager.py:231`). With `max_history` 0 the history grows without bound (`manager.py:509`).
- Each load registers a configured key once more under a new id (`router.py:952`), and so does an update, whose comment says that it
  updates the key (`router.py:1101`); the key registered before stays eligible. A key without `key_id` is
  stored under a name made from its position, which may be another key's id (`manager.py:471`).
- `route` reports tokens for a key whose unit is requests (`router.py:710`), and the usage of a Mixed key is never
  counted, because `tokens_consumed` is missing and the error is swallowed.
- A cached prediction decides the capacity state alone for five minutes, so a key whose capacity ran out goes on passing
  the filter; `OverdraftIsBounded` therefore has the premise of a cache time of zero.
- The `reset_at` of a custom window stays in the past, and every later call resets the quota again
  (`quota_awareness_engine.py:386`).

## 6. Not modelled, and the plan

Left out of the modelled components: failing encryption and store calls, policy
callbacks, the FIFO limits of the logs (1000 records), the `key not found` branch of
`route` (nothing deletes keys), more than one provider, providers in the configuration, the numbers behind usage
rates, confidence and uncertainty. Changes of the capacity state by a reset or a 429 are not part of the audit trail
in the code, so the trail of `Router` is that of key states.

Left out of the later modules: in `CostController` the estimates kept for `record_actual_cost`, its history and statistics, which no
decision reads; in `Selection` several providers, costs from adapters, the quality objective, cost control and key selection policies
(`route_request` asks for routing policies only) and explanations; in `RemoteStore` commands that Redis executes only after their call has ended
(what is given up takes effect before that or not at all), the values of records, so that the transition check of `KeyManager`
over a store that suspends (`key_manager.py:284`) is not covered, `check_connection` and `close`.

Premises of `ConfiguredRouter`: the store is the in-memory one and the observability manager, like the repository's own, does not suspend, so a
method of the router applies in one step what the manager returned. Over a store that suspends, two loads may apply their
policies in the opposite order (`router.py:891`). Logging does not raise (events may), and a configuration lists an entry once. How many keys an entry
has been given is not counted. Premises of
`FileWatcher`: an event loop that runs when the watcher starts goes on running.

The disagreements with the documentation that section 5 lists without a run are behaviour the models have; no property asks for the contrary.

Next, in order: the `KeyManager` operations split at the calls of a store that copies; the proxy's rate limiter, a sliding window per client, as a
refinement of a log of accepted requests; the reconciliation statistics of `CostController`.

Not planned, because they hold no state a property could be about, or are parsing
and I/O: file loader and settings, encryption and validation, observability, Mongo
document mapping and migrations, adapters' HTTP and error table, proxy authentication,
CORS and security headers, dashboard stubs.
