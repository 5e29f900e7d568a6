----------------------------- MODULE KeyManager -----------------------------
(***************************************************************************)
(* KeyManager over the in-memory state store                               *)
(* (domain/components/key_manager.py, infrastructure/state_store/          *)
(* memory_store.py, domain/models/api_key.py).                             *)
(*                                                                         *)
(* The store hands out references to the very APIKey objects it holds:     *)
(* get_key returns self._keys.get(id), update_key_state mutates that       *)
(* object in place, and only rotate_key builds a second object for the     *)
(* same id.  Objects are therefore part of the state.  Object number m of  *)
(* key k is heap[k][m]; every object of k is built with new key material,  *)
(* so m also numbers the material the object carries.  stored[k] is the    *)
(* object the store maps k to (0: k is not registered).                    *)
(*                                                                         *)
(* No store call suspends in this configuration (the write lock is never   *)
(* held across a suspension), so each KeyManager call is one step.         *)
(*                                                                         *)
(* Time: cooldown_until is kept relative to the present, as the number of  *)
(* ticks left before the deadline, 0 once it has passed; Tick lets one     *)
(* unit of time go by for all objects.                                     *)
(***************************************************************************)
EXTENDS Naturals

CONSTANTS
    Keys,             \* the key ids that register_key can generate
    MaxMaterials,     \* bound: objects (materials) per key id
    DefaultCooldown,  \* default_cooldown_seconds, in ticks
    Cooldowns,        \* explicit cooldown_seconds arguments, in ticks
    NoCooldown,       \* cooldown_until is None / cooldown_seconds is None
    Targets,          \* bound: the new_state arguments callers pass
    Rotatable         \* environment: the keys somebody may rotate

ASSUME KeyManagerAssumption ==
    /\ MaxMaterials \in Nat \ {0}
    /\ DefaultCooldown \in Nat
    /\ Cooldowns \subseteq Nat
    /\ NoCooldown \notin Nat
    /\ Targets \subseteq
          {"available", "throttled", "exhausted", "recovering", "disabled", "invalid"}
    /\ Rotatable \subseteq Keys

VARIABLES
    heap,     \* heap[k][m]: object m of key id k
    created,  \* created[k]: how many objects of k exist
    stored,   \* stored[k]: the object store._keys[k] refers to, 0 if absent
    audit     \* audit[k]: the last StateTransition saved for k

kmVars == <<heap, created, stored, audit>>

KeyState ==
    {"available", "throttled", "exhausted", "recovering", "disabled", "invalid"}

Objects == 1..MaxMaterials

APIKey == [ state          : KeyState,
            cooldown_until : Nat \cup {NoCooldown},
            usage_count    : Nat,
            failure_count  : Nat ]

\* A transition record; from = to = "none" stands for "no transition saved yet".
NoTransition == [from_state |-> "none", to_state |-> "none"]
StateTransition ==
    [from_state : KeyState, to_state : KeyState] \cup {NoTransition}

\* KeyManager._VALID_TRANSITIONS.
ValidTransitions ==
    [ available  |-> {"throttled", "exhausted", "disabled", "invalid"},
      throttled  |-> {"available", "disabled", "invalid"},
      exhausted  |-> {"recovering", "disabled", "invalid"},
      recovering |-> {"available", "exhausted", "disabled", "invalid"},
      disabled   |-> {"available", "invalid"},
      invalid    |-> {"disabled"} ]

FreshKey == [ state |-> "available", cooldown_until |-> NoCooldown,
              usage_count |-> 0, failure_count |-> 0 ]

Registered == {k \in Keys : stored[k] # 0}

\* What store.get_key(k) gives a caller: the live object.
StoredKey(k) == heap[k][stored[k]]

IsValidTransition(from, to) == from = to \/ to \in ValidTransitions[from]

\* `cooldown_seconds or self._default_cooldown_seconds`: 0 counts as absent.
CooldownDuration(c) == IF c \in {NoCooldown, 0} THEN DefaultCooldown ELSE c

\* Mutant of WithState: the deadline survives leaving throttled.
WithStateKeepsCooldown(key, s, c) ==
    [key EXCEPT !.state = s,
                !.cooldown_until =
                    IF s = "throttled" THEN CooldownDuration(c) ELSE @]

\* The object after update_key_state has moved it to state s.
WithState(key, s, c) ==
    [key EXCEPT !.state = s,
                !.cooldown_until =
                    IF s = "throttled" THEN CooldownDuration(c) ELSE NoCooldown]

IsKeyEligibleByState(key) ==
    \/ key.state \in {"available", "recovering"}
    \/ key.state = "throttled" /\ key.cooldown_until \in {NoCooldown, 0}

\* get_eligible_keys without a policy callback, for the one provider modelled.
EligibleKeys == {k \in Registered : IsKeyEligibleByState(StoredKey(k))}

-----------------------------------------------------------------------------
KMInit ==
    /\ heap = [k \in Keys |-> [m \in Objects |-> FreshKey]]
    /\ created = [k \in Keys |-> 0]
    /\ stored = [k \in Keys |-> 0]
    /\ audit = [k \in Keys |-> NoTransition]

RegisterKey(k) ==
    /\ stored[k] = 0
    /\ heap' = [heap EXCEPT ![k][1] = FreshKey]
    /\ created' = [created EXCEPT ![k] = 1]
    /\ stored' = [stored EXCEPT ![k] = 1]
    /\ UNCHANGED audit

\* Mutants of UpdateKeyState: without the early return for an unchanged state,
\* and without save_state_transition.
UpdateKeyStateAlways(k, s, c) ==
    /\ k \in Registered
    /\ IsValidTransition(StoredKey(k).state, s)
    /\ heap' = [heap EXCEPT ![k][stored[k]] = WithState(StoredKey(k), s, c)]
    /\ audit' = [audit EXCEPT ![k] = [from_state |-> StoredKey(k).state, to_state |-> s]]
    /\ UNCHANGED <<created, stored>>
UpdateKeyStateUnaudited(k, s, c) ==
    /\ k \in Registered
    /\ IsValidTransition(StoredKey(k).state, s)
    /\ StoredKey(k).state # s
    /\ heap' = [heap EXCEPT ![k][stored[k]] = WithState(StoredKey(k), s, c)]
    /\ UNCHANGED <<created, stored, audit>>

\* A call with new_state equal to the current state returns before it touches
\* the object, so a second throttling does not restart the cooldown.
UpdateKeyState(k, s, c) ==
    /\ k \in Registered
    /\ IsValidTransition(StoredKey(k).state, s)
    /\ StoredKey(k).state # s
    /\ heap' = [heap EXCEPT ![k][stored[k]] = WithState(StoredKey(k), s, c)]
    /\ audit' = [audit EXCEPT ![k] = [from_state |-> StoredKey(k).state, to_state |-> s]]
    /\ UNCHANGED <<created, stored>>

\* revoke_key on a key that is already disabled changes nothing.
RevokeKey(k) == UpdateKeyState(k, "disabled", NoCooldown)

CooldownExpired(k) ==
    /\ k \in Registered
    /\ StoredKey(k).state = "throttled"
    /\ StoredKey(k).cooldown_until = 0

\* Every throttled key whose deadline has passed goes back to available.
CheckAndRecoverStates ==
    /\ \E k \in Keys : CooldownExpired(k)
    /\ heap' = [k \in Keys |->
                  IF CooldownExpired(k)
                  THEN [heap[k] EXCEPT ![stored[k]] =
                            WithState(StoredKey(k), "available", NoCooldown)]
                  ELSE heap[k]]
    /\ audit' = [k \in Keys |->
                  IF CooldownExpired(k)
                  THEN [from_state |-> "throttled", to_state |-> "available"]
                  ELSE audit[k]]
    /\ UNCHANGED <<created, stored>>

\* Mutant of RotateKey: the new object starts from the constructor's defaults.
RotateKeyFresh(k) ==
    /\ k \in Registered \cap Rotatable
    /\ created[k] < MaxMaterials
    /\ heap' = [heap EXCEPT ![k][created[k] + 1] = FreshKey]
    /\ created' = [created EXCEPT ![k] = @ + 1]
    /\ stored' = [stored EXCEPT ![k] = created[k] + 1]
    /\ audit' = [audit EXCEPT ![k] = [from_state |-> StoredKey(k).state,
                                      to_state |-> StoredKey(k).state]]

\* A second object for the same id: everything copied except the material.
RotateKey(k) ==
    /\ k \in Registered \cap Rotatable
    /\ created[k] < MaxMaterials
    /\ heap' = [heap EXCEPT ![k][created[k] + 1] = StoredKey(k)]
    /\ created' = [created EXCEPT ![k] = @ + 1]
    /\ stored' = [stored EXCEPT ![k] = created[k] + 1]
    /\ audit' = [audit EXCEPT ![k] = [from_state |-> StoredKey(k).state,
                                      to_state |-> StoredKey(k).state]]

CountDown(c) == IF c \in {NoCooldown, 0} THEN c ELSE c - 1

Tick ==
    /\ \E k \in Keys, m \in Objects : heap[k][m].cooldown_until \notin {NoCooldown, 0}
    /\ heap' = [k \in Keys |-> [m \in Objects |->
                  [heap[k][m] EXCEPT !.cooldown_until = CountDown(@)]]]
    /\ UNCHANGED <<created, stored, audit>>

Manage(k) ==
    \/ RegisterKey(k)
    \/ RevokeKey(k)
    \/ RotateKey(k)
    \/ \E s \in Targets, c \in Cooldowns \cup {NoCooldown} : UpdateKeyState(k, s, c)

KMNext ==
    \/ CheckAndRecoverStates
    \/ Tick
    \/ \E k \in Keys : Manage(k)

KMSpec == KMInit /\ [][KMNext]_kmVars

\* Nothing in the program calls check_and_recover_states, so only the passage
\* of time is fair.
KMFairSpec == KMSpec /\ WF_kmVars(Tick)

-----------------------------------------------------------------------------
\* Type invariant.
KMTypeOK ==
    /\ heap \in [Keys -> [Objects -> APIKey]]
    /\ created \in [Keys -> 0..MaxMaterials]
    /\ stored \in [Keys -> 0..MaxMaterials]
    /\ audit \in [Keys -> StateTransition]
    /\ \A k \in Keys : stored[k] <= created[k] /\ (stored[k] = 0 <=> created[k] = 0)

\* A stored key has a cooldown deadline exactly while it is throttled, whatever
\* path took it there (update_key_state, recovery, rotation of a throttled key):
\* without a deadline a throttled key would be eligible at once, and a stale one
\* would bar it after its next throttling (key_manager.py 261-267, 390-402).
CooldownIffThrottled ==
    \A k \in Registered :
        StoredKey(k).state = "throttled" <=> StoredKey(k).cooldown_until # NoCooldown

\* The audit trail explains the state: the last transition saved for a key ends
\* in the state the key is in, and a key without transitions is still in the
\* state it was registered in (save_key and save_state_transition of
\* update_key_state and rotate_key).
AuditExplainsState ==
    \A k \in Registered :
        StoredKey(k).state =
            IF audit[k] = NoTransition THEN "available" ELSE audit[k].to_state

\* The registry refines its abstract specification: every call moves one key
\* along the transition table, a recovery only reopens throttled keys, and a
\* rotation installs material never used before.
StateOf(k) == IF stored[k] = 0 THEN "unregistered" ELSE StoredKey(k).state
L == INSTANCE KeyLifecycle WITH state <- [k \in Keys |-> StateOf(k)], material <- stored
RefinesLifecycle == L!Lifecycle

\* A key that stays throttled keeps its deadline: another rate limit answer, with
\* a longer or a shorter cooldown, neither pushes the moment of its return out nor
\* pulls it in, and a rotation hands the deadline over to the new object
\* (update_key_state returns at key_manager.py 244 before it sets a deadline,
\* rotate_key copies it at 563).  Deadlines are relative, so one that stands
\* still in the code comes nearer here when time passes.
DeadlineStands ==
    [][\A k \in Keys :
          StateOf(k) = "throttled" /\ StateOf(k)' = "throttled" =>
              LET left == StoredKey(k).cooldown_until
              IN  left' \in {left, CountDown(left)}]_kmVars

\* A throttled key becomes usable again as time passes, without anybody calling
\* check_and_recover_states and however often it is throttled again meanwhile:
\* get_eligible_keys accepts an expired cooldown, and re-throttling is a no-op.
Usable(k) == k \in EligibleKeys
CooldownEnds ==
    \A k \in Keys : StateOf(k) = "throttled" ~> (Usable(k) \/ StateOf(k) # "throttled")
=============================================================================
