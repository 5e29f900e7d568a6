---------------------------- MODULE KeyLifecycle ----------------------------
(***************************************************************************)
(* What the key registry promises its callers, without saying how: every   *)
(* key id is in one operational state and holds one piece of key material. *)
(*                                                                         *)
(*   - a key is registered once, in state available, with material 1;      *)
(*   - its state only moves along the transition table of KeyManager       *)
(*     (_VALID_TRANSITIONS), one key per call, except that an automatic    *)
(*     recovery pass may move several throttled keys to available at once; *)
(*   - a rotation installs material that was never installed before and    *)
(*     touches neither the state nor any other key;                        *)
(*   - nothing else changes either.                                        *)
(*                                                                         *)
(* KeyManager refines this module (KeyManagerProofs), and Router refines   *)
(* it exactly as long as no key is rotated (MCRouterShared, MCRouterRotation). *)
(***************************************************************************)
EXTENDS Naturals

CONSTANTS Keys

VARIABLES
    state,      \* state[k]: the operational state of k, or "unregistered"
    material    \* material[k]: number of the installed key material, 0 before registration

lifecycleVars == <<state, material>>

KeyState ==
    {"available", "throttled", "exhausted", "recovering", "disabled", "invalid"}

\* KeyManager._VALID_TRANSITIONS.
ValidTransitions ==
    [ available  |-> {"throttled", "exhausted", "disabled", "invalid"},
      throttled  |-> {"available", "disabled", "invalid"},
      exhausted  |-> {"recovering", "disabled", "invalid"},
      recovering |-> {"available", "exhausted", "disabled", "invalid"},
      disabled   |-> {"available", "invalid"},
      invalid    |-> {"disabled"} ]

LifecycleInit ==
    /\ state = [k \in Keys |-> "unregistered"]
    /\ material = [k \in Keys |-> 0]

Register(k) ==
    /\ state[k] = "unregistered"
    /\ state' = [state EXCEPT ![k] = "available"]
    /\ material' = [material EXCEPT ![k] = 1]

Move(k) ==
    /\ state[k] \in KeyState
    /\ \E s \in ValidTransitions[state[k]] : state' = [state EXCEPT ![k] = s]
    /\ UNCHANGED material

RecoverAll ==
    /\ \E recovered \in SUBSET {k \in Keys : state[k] = "throttled"} :
          state' = [k \in Keys |-> IF k \in recovered THEN "available" ELSE state[k]]
    /\ UNCHANGED material

Rotate(k) ==
    /\ state[k] \in KeyState
    /\ material' = [material EXCEPT ![k] = material'[k]]
    /\ material'[k] > material[k]
    /\ UNCHANGED state

LifecycleNext ==
    \/ RecoverAll
    \/ \E k \in Keys : Register(k) \/ Move(k) \/ Rotate(k)

Lifecycle == LifecycleInit /\ [][LifecycleNext]_lifecycleVars
=============================================================================
