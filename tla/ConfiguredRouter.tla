-------------------------- MODULE ConfiguredRouter --------------------------
(***************************************************************************)
(* ConfigManager composed with the configuration side of ApiKeyRouter      *)
(* (router.py): the router keeps its own table of policies and registers a *)
(* key with KeyManager for each configured key, both only when one of its  *)
(* own methods is called.  The file watcher and callers of the manager     *)
(* change the configuration without the router.                            *)
(*                                                                         *)
(* The manager's methods give control back only while the event is         *)
(* emitted, under the manager's lock; the router goes on in the same step. *)
(* That holds for the in-memory store and for observability managers that  *)
(* do not suspend, like the repository's own; logging, unlike the event,   *)
(* is taken not to raise.  A configuration lists each entry once.          *)
(* All configured keys belong to one provider.  KeyManager.register_key    *)
(* makes up a new id each time, so a registered key is never found under   *)
(* the id the configuration gives it, and every load or update registers   *)
(* one more; the model keeps which entries have keys, not how many.        *)
(***************************************************************************)
EXTENDS ConfigManager, FiniteSets

CONSTANTS
    KeyNames,  \* the entries that configure keys; the others are policies
    Odd        \* contents the manager accepts and class Policy refuses

ASSUME ConfiguredRouterAssumption ==
    /\ KeyNames \subseteq Entries
    /\ Odd \subseteq Values

VARIABLES
    provider,    \* register_provider was called for the provider
    policies,    \* the router's _policies
    registered,  \* entries for which KeyManager has registered keys
    apart        \* policies changed on one side only since the router last
                 \* applied what the manager had accepted (history)

routerVars == <<policies, registered>>
crVars == <<cmVars, provider, routerVars, apart>>

PolicyIds == Entries \ KeyNames

CRInit ==
    /\ CMInit
    /\ provider = FALSE
    /\ policies = [p \in PolicyIds |-> Absent]
    /\ registered = {}
    /\ apart = {}

\* A step takes the policies in both through the manager and the router; any
\* other policy it changes is changed on one side only.
Through(both) ==
    apart' = (apart \cup {p \in PolicyIds : \/ config'[p] # config[p]
                                             \/ policies'[p] # policies[p]}) \ both

RegisterProvider ==
    /\ ~provider
    /\ provider' = TRUE
    /\ UNCHANGED <<cmVars, routerVars, apart>>

\* Mutant of ApplyPolicies: a policy the router already has is skipped, as a key
\* that exists is.
ApplyPoliciesOnce(c) ==
    policies' = [p \in PolicyIds |->
                    IF c[p] \in Values \ Odd /\ policies[p] = Absent
                    THEN c[p] ELSE policies[p]]

\* _apply_policy_from_config: content that Policy refuses is logged or raised;
\* policies the configuration no longer has stay.
ApplyPolicies(c) ==
    policies' = [p \in PolicyIds |->
                    IF c[p] \in Values \ Odd THEN c[p] ELSE policies[p]]

\* register_key per configured key; without the provider each one fails.
ApplyKeys(names) ==
    registered' = IF provider THEN registered \cup names ELSE registered

\* _apply_configuration.
ApplyAll(c) ==
    /\ ApplyKeys({n \in KeyNames : c[n] # Absent})
    /\ ApplyPolicies(c)

\* load_configuration_from_manager, also on entering the router as a context.
LoadFromManager(c) ==
    /\ Load(c)
    /\ \/ result'.ok /\ ApplyAll(c) /\ Through(PolicyIds)
       \/ ~result'.ok /\ UNCHANGED routerVars /\ Through({})
    /\ UNCHANGED provider

\* apply_configuration: the caller's dict, which the manager never sees.
ApplyConfiguration(c) ==
    /\ UNCHANGED <<cmVars, provider>>
    /\ ApplyAll(c)
    /\ Through({})

UpdatePolicyFromConfig(p, x) ==
    /\ Update(p, x)
    /\ \/ result'.ok /\ ApplyPolicies([EmptyConfig EXCEPT ![p] = x]) /\ Through({p})
       \/ ~result'.ok /\ UNCHANGED policies /\ Through({})
    /\ UNCHANGED <<provider, registered>>

UpdateKeyFromConfig(n, x) ==
    /\ Update(n, x)
    /\ IF result'.ok THEN ApplyKeys({n}) ELSE UNCHANGED registered
    /\ UNCHANGED <<provider, policies>>
    /\ Through({})

\* Reloads by the file watcher, rollbacks and direct calls of the manager.
ManagerOnly ==
    /\ CMNext
    /\ UNCHANGED <<provider, routerVars>>
    /\ Through({})

CRNext ==
    \/ RegisterProvider
    \/ \E c \in Configs : LoadFromManager(c) \/ ApplyConfiguration(c)
    \/ \E p \in PolicyIds, x \in Values : UpdatePolicyFromConfig(p, x)
    \/ \E n \in KeyNames, x \in Values : UpdateKeyFromConfig(n, x)
    \/ ManagerOnly

CRSpec == CRInit /\ [][CRNext]_crVars

-----------------------------------------------------------------------------
\* Type invariant, with the limit of the history.
CRTypeOK ==
    /\ CMTypeOK
    /\ provider \in BOOLEAN
    /\ policies \in [PolicyIds -> Values \cup {Absent}]
    /\ registered \subseteq KeyNames
    /\ apart \subseteq PolicyIds

\* The router's copy of a policy can differ from the manager's only where
\* somebody went round one of the two: changed the manager without the router
\* (the watcher, a rollback, an update whose event failed), or gave the router
\* a configuration of his own.  Whatever was loaded, updated, refused or removed
\* before, a policy that last went through both is the same in both, unless its
\* content is one that class Policy refuses (router.py 886-893, 1043-1053).
PoliciesInStep ==
    \A p \in PolicyIds \ apart : config[p] \in Values \ Odd => policies[p] = config[p]
=============================================================================
