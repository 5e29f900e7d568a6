---------------------------- MODULE ConfigProofs ----------------------------
(***************************************************************************)
(* Proofs about ConfigManager, and about its composition with the router   *)
(* in ConfiguredRouter, for every set of entries and contents, every limit *)
(* of the history and every number of versions.                            *)
(*                                                                         *)
(*   ConfigTypeCorrect      the typing invariant                           *)
(*   HistoryIsFaithful      a kept snapshot is what its version was        *)
(*   PreviousVersionKept    the version before the live one is kept        *)
(*   RollbackIsExact        rollback restores the version it names         *)
(*   RouterUsesManager      the composition is a use of the manager, so    *)
(*                          all of the above holds in it                   *)
(*   ConfiguredTypeCorrect  types of the composition                       *)
(*   PoliciesStayInStep     a policy that last went through manager and    *)
(*                          router is the same in both                     *)
(***************************************************************************)
EXTENDS ConfiguredRouter, SequenceTheorems, TLAPS

\* What appending a snapshot to the bounded history does, with and without
\* dropping the oldest ones.
LEMMA AddToHistoryFacts ==
    ASSUME NEW h \in Seq(Snapshot), NEW s \in Snapshot
    PROVE  LET H == AddToHistory(h, s)
           IN  /\ H \in Seq(Snapshot)
               /\ Len(H) \in Nat \ {0}
               /\ H[Len(H)] = s
               /\ MaxHistory # 0 => Len(H) <= MaxHistory
               /\ \A i \in 1..Len(H) : H[i] = s \/ \E j \in 1..Len(h) : H[i] = h[j]
               /\ MaxHistory # 1 /\ Len(h) > 0 =>
                     Len(H) > 1 /\ H[Len(H) - 1] = h[Len(h)]
  <1> DEFINE longer == Append(h, s)
             n == Len(longer)
             H == AddToHistory(h, s)
  <1>1. /\ longer \in Seq(Snapshot)
        /\ n = Len(h) + 1 /\ Len(h) \in Nat
        /\ \A i \in 1..Len(h) : longer[i] = h[i]
        /\ longer[n] = s
    BY AppendProperties
  <1>2. CASE ~(n > MaxHistory /\ MaxHistory # 0)
    <2>1. H = longer
      BY <1>2 DEF AddToHistory
    <2>2. \A i \in 1..n : longer[i] = s \/ \E j \in 1..Len(h) : longer[i] = h[j]
      <3>1. ASSUME NEW i \in 1..n, i # n
            PROVE  i \in 1..Len(h)
        BY <1>1, <3>1
      <3>2. QED
        BY <1>1, <3>1
    <2> HIDE DEF H, longer
    <2>3. QED
      BY <1>1, <1>2, <2>1, <2>2, ConfigManagerAssumption DEF ConfigManagerAssumption, H
  <1>3. CASE n > MaxHistory /\ MaxHistory # 0
    <2> DEFINE m == n - MaxHistory + 1
               kept == SubSeq(longer, m, n)
    <2>1. H = kept
      BY <1>3 DEF AddToHistory
    <2>2. m \in 1..n /\ n - m + 1 = MaxHistory /\ MaxHistory \in Nat
      BY <1>1, <1>3, ConfigManagerAssumption
    <2>3. /\ kept \in Seq(Snapshot)
          /\ Len(kept) = MaxHistory
          /\ \A i \in 1..MaxHistory : kept[i] = longer[m + i - 1]
      <3>1. n = Len(longer) /\ m \in 1..Len(longer) + 1 /\ n \in m - 1..Len(longer)
        BY <1>1, <2>2
      <3>2. QED
        BY <1>1, <1>3, <2>2, <3>1, SubSeqProperties, Z3
    <2>4. ASSUME NEW i \in 1..MaxHistory
          PROVE  kept[i] = s \/ \E j \in 1..Len(h) : kept[i] = h[j]
      <3>1. m + i - 1 \in 1..n
        BY <1>1, <2>2
      <3>2. CASE m + i - 1 = n
        BY <1>1, <2>3, <3>2
      <3>3. CASE m + i - 1 # n
        <4>1. m + i - 1 \in 1..Len(h)
          BY <1>1, <2>2, <3>1, <3>3
        <4>2. QED
          BY <1>1, <2>3, <4>1
      <3>4. QED
        BY <3>2, <3>3
    <2>5. kept[MaxHistory] = s
      BY <1>1, <1>3, <2>2, <2>3
    <2>6. ASSUME MaxHistory # 1
          PROVE  MaxHistory > 1 /\ kept[MaxHistory - 1] = h[Len(h)]
      <3>1. MaxHistory - 1 \in 1..MaxHistory /\ m + (MaxHistory - 1) - 1 = Len(h) /\ MaxHistory > 1
        BY <1>1, <1>3, <2>2, <2>6
      <3>2. Len(h) \in 1..Len(h)
        BY <1>1, <1>3, <2>2, <3>1
      <3>3. QED
        BY <1>1, <2>3, <3>1, <3>2
    <2>7. /\ MaxHistory \in Nat \ {0}
          /\ MaxHistory # 1 /\ Len(h) > 0 =>
                MaxHistory > 1 /\ kept[MaxHistory - 1] = h[Len(h)]
      BY <1>3, <2>2, <2>6
    <2> HIDE DEF longer, kept, m
    <2>8. QED
      BY <2>1, <2>3, <2>4, <2>5, <2>7
  <1>4. QED
    BY <1>2, <1>3

-----------------------------------------------------------------------------
(* The invariants.  Every action appends the snapshot of the live version,   *)
(* except a load over an empty configuration, and a load appends the new     *)
(* version too.                                                              *)

LEMMA CurrentSnapshotType == CMTypeOK => CurrentSnapshot \in Snapshot
  BY ConfigManagerAssumption DEF CMTypeOK, CurrentSnapshot, Snapshot

\* The fields of a snapshot that is kept.
LEMMA SavedType ==
    ASSUME CMTypeOK, NEW i \in 1..Len(history)
    PROVE  history[i].version \in Nat /\ history[i].config \in Configs
  <1>1. history[i] \in Snapshot
    BY DEF CMTypeOK
  <1>2. QED
    BY <1>1 DEF Snapshot

\* Facts about a configuration that has been applied.
LEMMA ApplyFacts ==
    ASSUME CMTypeOK, NEW c \in Configs, NEW call \in Calls,
           NEW target \in Nat \cup {NoTarget}, Apply(c, call, target)
    PROVE  /\ config' = c
           /\ version \in Nat /\ version' = version + 1
           /\ version' \in 0..MaxVersion
           /\ result' \in Result /\ result'.target = target
           /\ published' \in [0..version' -> Configs]
           /\ published'[version'] = c
           /\ \A v \in 0..version : published'[v] = published[v]
  BY ConfigManagerAssumption DEF Apply, CMTypeOK, Result

\* A history that only holds faithful snapshots of the old and the new version.
Faithful(h, pub, ver) ==
    \A i \in 1..Len(h) : h[i].version \in 0..ver /\ h[i].config = pub[h[i].version]

LEMMA AddFaithful ==
    ASSUME NEW h \in Seq(Snapshot), NEW s \in Snapshot, NEW pub, NEW ver,
           Faithful(h, pub, ver), s.version \in 0..ver, s.config = pub[s.version]
    PROVE  Faithful(AddToHistory(h, s), pub, ver)
  <1> DEFINE H == AddToHistory(h, s)
  <1>1. \A i \in 1..Len(H) : H[i] = s \/ \E j \in 1..Len(h) : H[i] = h[j]
    BY AddToHistoryFacts
  <1> HIDE DEF H
  <1>2. Faithful(H, pub, ver)
    BY <1>1 DEF Faithful
  <1>3. QED
    BY <1>2 DEF H

IInv == CMTypeOK /\ Faithful(history, published, version)

\* What every operation that applies a configuration does to the history.
Step == /\ CMTypeOK'
        /\ Faithful(history', published', version')
        /\ PreviousVersionIsKept'

LEMMA HistoryStep ==
    ASSUME IInv, NEW c \in Configs, NEW call \in Calls,
           NEW target \in Nat \cup {NoTarget}, Apply(c, call, target)
    PROVE  /\ history' = AddToHistory(history, CurrentSnapshot) => Step
           /\ call = "load" /\ Load(c) => Step
  <1>1. /\ config' = c
        /\ version \in Nat /\ version' = version + 1
        /\ version' \in 0..MaxVersion
        /\ result' \in Result /\ result'.target = target
        /\ published' \in [0..version' -> Configs]
        /\ published'[version'] = c
        /\ \A v \in 0..version : published'[v] = published[v]
    BY ApplyFacts DEF IInv
  <1>2. /\ history \in Seq(Snapshot) /\ Len(history) \in Nat
        /\ config \in Configs /\ published[version] = config
        /\ MaxHistory # 0 => Len(history) <= MaxHistory
        /\ MaxHistory \in Nat
    BY ConfigManagerAssumption DEF IInv, CMTypeOK
  <1>3. Faithful(history, published', version')
    <2>1. ASSUME NEW i \in 1..Len(history)
          PROVE  /\ history[i].version \in 0..version'
                 /\ history[i].config = published'[history[i].version]
      <3>1. /\ history[i].version \in 0..version
            /\ history[i].config = published[history[i].version]
        BY DEF IInv, Faithful
      <3>2. QED
        BY <1>1, <3>1
    <2>2. QED
      BY <2>1 DEF Faithful
  <1> DEFINE old == CurrentSnapshot
             new == [version |-> version + 1, config |-> c]
  <1>4. /\ old \in Snapshot /\ old.version = version /\ old.config = published'[version]
        /\ version \in 0..version'
    BY <1>1, <1>2, CurrentSnapshotType DEF IInv, CurrentSnapshot
  <1>5. /\ new \in Snapshot /\ new.version = version' /\ new.config = published'[new.version]
        /\ version' \in 0..version'
    BY <1>1 DEF Snapshot
  <1> HIDE DEF old, new
  <1>6. CASE history' = AddToHistory(history, old)
    <2>1. /\ history' \in Seq(Snapshot) /\ Len(history') \in Nat \ {0}
          /\ history'[Len(history')] = old
          /\ MaxHistory # 0 => Len(history') <= MaxHistory
      BY <1>2, <1>4, <1>6, AddToHistoryFacts
    <2>2. CMTypeOK'
      BY <1>1, <1>2, <2>1 DEF CMTypeOK
    <2>3. Faithful(history', published', version')
      BY <1>2, <1>3, <1>4, <1>6, AddFaithful
    <2>4. old \in Saved' /\ old.version = version' - 1
      BY <1>1, <1>4, <2>1 DEF Saved
    <2>5. QED
      BY <2>2, <2>3, <2>4 DEF Step, PreviousVersionIsKept
  <1>7. CASE Load(c)
    <2> DEFINE saved == IF config = EmptyConfig THEN history ELSE AddToHistory(history, old)
    <2>1. history' = AddToHistory(saved, new)
      BY <1>7 DEF Load, old, new
    <2>2. /\ saved \in Seq(Snapshot) /\ Len(saved) \in Nat
          /\ config # EmptyConfig => Len(saved) > 0 /\ saved[Len(saved)] = old
      BY <1>2, <1>4, AddToHistoryFacts
    <2>3. Faithful(saved, published', version')
      BY <1>2, <1>3, <1>4, AddFaithful
    <2> HIDE DEF saved
    <2>4. /\ history' \in Seq(Snapshot) /\ Len(history') \in Nat \ {0}
          /\ MaxHistory # 0 => Len(history') <= MaxHistory
          /\ MaxHistory # 1 /\ Len(saved) > 0 =>
                Len(history') > 1 /\ history'[Len(history') - 1] = saved[Len(saved)]
      BY <1>5, <2>1, <2>2, AddToHistoryFacts
    <2>5. CMTypeOK'
      BY <1>1, <1>2, <2>4 DEF CMTypeOK
    <2>6. Faithful(history', published', version')
      BY <1>5, <2>1, <2>2, <2>3, AddFaithful
    <2>7. ASSUME MaxHistory # 1, published'[version' - 1] # EmptyConfig
          PROVE  \E s \in Saved' : s.version = version' - 1
      <3>1. config # EmptyConfig
        BY <1>1, <1>2, <2>7
      <3>2. Len(history') - 1 \in 1..Len(history') /\ history'[Len(history') - 1] = old
        BY <2>2, <2>4, <2>7, <3>1
      <3>3. QED
        BY <1>1, <1>4, <3>2 DEF Saved
    <2>8. PreviousVersionIsKept'
      BY <2>7 DEF PreviousVersionIsKept
    <2>9. QED
      BY <2>5, <2>6, <2>8 DEF Step
  <1>8. QED
    BY <1>6, <1>7 DEF old

\* One case per operation: it is a step as above or changes nothing but result.
LEMMA OperationCases ==
    ASSUME IInv, CMNext
    PROVE  \/ Step
           \/ result' \in Result /\ UNCHANGED <<config, version, history, published>>
  <1>1. ASSUME NEW c \in Configs, Load(c)
        PROVE  Step
    BY <1>1, HistoryStep DEF Load, Calls
  <1>2. ASSUME NEW e \in Entries, NEW x \in Values, Update(e, x)
        PROVE  Step
    <2>1. [config EXCEPT ![e] = x] \in Configs
      BY DEF IInv, CMTypeOK, Configs
    <2>2. QED
      BY <1>2, <2>1, HistoryStep DEF Update, Calls
  <1>3. ASSUME NEW target \in Nat, NEW call \in Calls, RollbackTo(target, call)
        PROVE  Step
    <2>1. PICK i \in 1..Len(history) :
             /\ history' = AddToHistory(history, CurrentSnapshot)
             /\ Apply(history[i].config, call, target)
      BY <1>3 DEF RollbackTo
    <2>2. history[i].config \in Configs
      BY SavedType DEF IInv
    <2>3. QED
      BY <2>1, <2>2, HistoryStep
  <1>4. ASSUME NEW target \in 0..version, Rollback(target)
        PROVE  Step
    <2>1. target \in Nat
      BY ConfigManagerAssumption DEF IInv, CMTypeOK
    <2>2. QED
      BY <1>3, <1>4, <2>1 DEF Rollback, Calls
  <1>5. ASSUME RollbackPrevious
        PROVE  Step
    <2>1. Len(history) - 1 \in 1..Len(history)
      BY <1>5 DEF RollbackPrevious, IInv, CMTypeOK
    <2>2. history[Len(history) - 1].version \in Nat
      BY <2>1, SavedType DEF IInv
    <2>3. QED
      BY <1>3, <1>5, <2>2 DEF RollbackPrevious, Calls
  <1>6. ASSUME NEW call \in {"load", "update", "rollback"}, Refuse(call)
        PROVE  result' \in Result /\ UNCHANGED <<config, version, history, published>>
    BY <1>6 DEF Refuse, Result, Calls
  <1>7. QED
    BY <1>1, <1>2, <1>4, <1>5, <1>6 DEF CMNext

LEMMA IInvInit == CMInit => IInv /\ PreviousVersionIsKept
  BY ConfigManagerAssumption
  DEF CMInit, IInv, CMTypeOK, Configs, EmptyConfig, Result, Calls, Faithful,
      PreviousVersionIsKept

LEMMA IInvStep ==
    IInv /\ PreviousVersionIsKept /\ [CMNext]_cmVars => IInv' /\ PreviousVersionIsKept'
  <1> SUFFICES ASSUME IInv, PreviousVersionIsKept, [CMNext]_cmVars
               PROVE  IInv' /\ PreviousVersionIsKept'
    OBVIOUS
  <1>1. CASE Step
    BY <1>1 DEF Step, IInv
  <1>2. CASE result' \in Result /\ UNCHANGED <<config, version, history, published>>
    BY <1>2 DEF IInv, CMTypeOK, Faithful, PreviousVersionIsKept, Saved
  <1>3. CASE UNCHANGED cmVars
    BY <1>2, <1>3 DEF cmVars, IInv, CMTypeOK
  <1>4. QED
    BY <1>1, <1>2, <1>3, OperationCases

LEMMA AlwaysIInv == CMSpec => [](IInv /\ PreviousVersionIsKept)
  BY IInvInit, IInvStep, PTL DEF CMSpec

\* The variables of ConfigManager keep their types and the history its bound.
THEOREM ConfigTypeCorrect == CMSpec => []CMTypeOK
  <1>1. IInv => CMTypeOK
    BY DEF IInv
  <1>2. QED
    BY <1>1, AlwaysIInv, PTL

\* A snapshot in the history holds what its version was when it was live.
THEOREM HistoryIsFaithful == CMSpec => []SnapshotsAreFaithful
  <1>1. IInv => SnapshotsAreFaithful
    BY DEF IInv, Faithful, SnapshotsAreFaithful
  <1>2. QED
    BY <1>1, AlwaysIInv, PTL

\* The version before the live one is in the history, unless it was empty.
THEOREM PreviousVersionKept == CMSpec => []PreviousVersionIsKept
  BY AlwaysIInv, PTL

\* Rolling back to a version restores what that version was.
THEOREM RollbackIsExact == CMSpec => RollbackRestores
  <1> DEFINE Restores == result'.target # NoTarget /\ history' # history
                            => config' = published[result'.target]
  <1>1. ASSUME IInv, NEW target \in Nat, NEW call \in Calls, RollbackTo(target, call)
        PROVE  config' = published[target] /\ result'.target = target
    <2>1. PICK i \in 1..Len(history) :
             /\ Newest(i, target)
             /\ Apply(history[i].config, call, target)
      BY <1>1 DEF RollbackTo
    <2>2. history[i].config \in Configs /\ history[i].config = published[history[i].version]
      BY <1>1, SavedType DEF IInv, Faithful
    <2>3. config' = history[i].config /\ result'.target = target
      BY <1>1, <2>1, <2>2, ApplyFacts DEF IInv
    <2>4. QED
      BY <2>1, <2>2, <2>3 DEF Newest
  <1>2. IInv /\ [CMNext]_cmVars => [Restores]_cmVars
    <2> SUFFICES ASSUME IInv, CMNext
                 PROVE  Restores
      OBVIOUS
    <2>1. CASE \E c \in Configs : Load(c)
      BY <2>1 DEF Load, Apply
    <2>2. CASE \E e \in Entries, x \in Values : Update(e, x)
      BY <2>2 DEF Update, Apply
    <2>3. ASSUME NEW target \in 0..version, Rollback(target)
          PROVE  Restores
      <3>1. target \in Nat
        BY ConfigManagerAssumption DEF IInv, CMTypeOK
      <3>2. QED
        BY <1>1, <2>3, <3>1 DEF Rollback, Calls
    <2>4. CASE RollbackPrevious
      <3>1. Len(history) - 1 \in 1..Len(history)
        BY <2>4 DEF RollbackPrevious, IInv, CMTypeOK
      <3>2. QED
        BY <1>1, <2>4, <3>1, SavedType DEF RollbackPrevious, Calls, IInv
    <2>5. CASE \E call \in {"load", "update", "rollback"} : Refuse(call)
      BY <2>5 DEF Refuse
    <2>6. QED
      BY <2>1, <2>2, <2>3, <2>4, <2>5 DEF CMNext
  <1>3. QED
    BY <1>2, AlwaysIInv, PTL DEF CMSpec, RollbackRestores

-----------------------------------------------------------------------------
(* The composition with the router. *)

\* Every step is one of the manager or leaves the manager alone.
LEMMA ManagerPart == [CRNext]_crVars => [CMNext]_cmVars
  <1>1. \A c \in Configs : LoadFromManager(c) => CMNext
    BY DEF LoadFromManager, CMNext
  <1>2. \A c \in Configs : ApplyConfiguration(c) => UNCHANGED cmVars
    BY DEF ApplyConfiguration
  <1>3. \A p \in PolicyIds, x \in Values : UpdatePolicyFromConfig(p, x) => CMNext
    BY DEF UpdatePolicyFromConfig, CMNext, PolicyIds
  <1>4. \A n \in KeyNames, x \in Values : UpdateKeyFromConfig(n, x) => CMNext
    BY ConfiguredRouterAssumption DEF UpdateKeyFromConfig, CMNext
  <1>5. QED
    BY <1>1, <1>2, <1>3, <1>4 DEF CRNext, RegisterProvider, ManagerOnly, crVars

\* Whatever the router's methods do with the manager, and whoever else calls it,
\* it is used as ConfigManager says: its theorems hold in the composition.
THEOREM RouterUsesManager == CRSpec => CMSpec
  <1>1. CRInit => CMInit
    BY DEF CRInit
  <1>2. QED
    BY <1>1, ManagerPart, PTL DEF CRSpec, CMSpec

RouterTypes == /\ provider \in BOOLEAN
               /\ policies \in [PolicyIds -> Values \cup {Absent}]
               /\ registered \subseteq KeyNames
               /\ apart \subseteq PolicyIds

LEMMA RouterTypesInit == CRInit => RouterTypes
  <1>1. CRInit => provider \in BOOLEAN /\ apart \subseteq PolicyIds
    BY DEF CRInit
  <1>2. CRInit => /\ policies \in [PolicyIds -> Values \cup {Absent}]
                  /\ registered \subseteq KeyNames
    BY DEF CRInit
  <1>3. QED
    BY <1>1, <1>2 DEF RouterTypes

LEMMA RouterTypesStep == RouterTypes /\ [CRNext]_crVars => RouterTypes'
  <1> SUFFICES ASSUME RouterTypes, [CRNext]_crVars
               PROVE  RouterTypes'
    OBVIOUS
  <1>1. ASSUME NEW c, ApplyPolicies(c)
        PROVE  policies' \in [PolicyIds -> Values \cup {Absent}]
    BY <1>1 DEF ApplyPolicies, RouterTypes
  <1>2. ASSUME NEW names \in SUBSET KeyNames, ApplyKeys(names)
        PROVE  registered' \subseteq KeyNames
    BY <1>2 DEF ApplyKeys, RouterTypes
  <1>3. ASSUME NEW both, Through(both)
        PROVE  apart' \subseteq PolicyIds
    BY <1>3 DEF Through, RouterTypes
  <1>4. ASSUME NEW c \in Configs, LoadFromManager(c) \/ ApplyConfiguration(c)
        PROVE  RouterTypes'
    <2>1. /\ policies' \in [PolicyIds -> Values \cup {Absent}]
          /\ registered' \subseteq KeyNames
      <3>1. CASE ApplyAll(c)
        BY <1>1, <1>2, <3>1 DEF ApplyAll
      <3>2. CASE UNCHANGED routerVars
        BY <3>2 DEF routerVars, RouterTypes
      <3>3. QED
        BY <1>4, <3>1, <3>2 DEF LoadFromManager, ApplyConfiguration
    <2>2. apart' \subseteq PolicyIds
      BY <1>3, <1>4 DEF LoadFromManager, ApplyConfiguration
    <2>3. provider' \in BOOLEAN
      BY <1>4 DEF LoadFromManager, ApplyConfiguration, RouterTypes
    <2>4. QED
      BY <2>1, <2>2, <2>3 DEF RouterTypes
  <1>5. ASSUME NEW p \in PolicyIds, NEW x \in Values, UpdatePolicyFromConfig(p, x)
        PROVE  RouterTypes'
    BY <1>1, <1>3, <1>5 DEF UpdatePolicyFromConfig, RouterTypes
  <1>6. ASSUME NEW n \in KeyNames, NEW x \in Values, UpdateKeyFromConfig(n, x)
        PROVE  RouterTypes'
    BY <1>2, <1>3, <1>6 DEF UpdateKeyFromConfig, RouterTypes
  <1>7. CASE RegisterProvider \/ ManagerOnly \/ UNCHANGED crVars
    BY <1>3, <1>7 DEF RegisterProvider, ManagerOnly, crVars, routerVars, RouterTypes
  <1>8. QED
    BY <1>4, <1>5, <1>6, <1>7 DEF CRNext

LEMMA AlwaysRouterTypes == CRSpec => []RouterTypes
  BY RouterTypesInit, RouterTypesStep, PTL DEF CRSpec

\* The variables of manager and router keep their types, and the history its
\* limit.
THEOREM ConfiguredTypeCorrect == CRSpec => []CRTypeOK
  <1>1. CMTypeOK /\ RouterTypes => CRTypeOK
    BY DEF RouterTypes, CRTypeOK
  <1>2. QED
    BY <1>1, AlwaysRouterTypes, RouterUsesManager, ConfigTypeCorrect, PTL

-----------------------------------------------------------------------------
\* A step keeps the policies in step if those it takes through both sides end up
\* the same in both: the others it either leaves alone or sets apart.
LEMMA ThroughStep ==
    ASSUME PoliciesInStep, NEW both, Through(both),
           \A p \in PolicyIds \cap both :
               config'[p] \in Values \ Odd => policies'[p] = config'[p]
    PROVE  PoliciesInStep'
  <1> SUFFICES ASSUME NEW p \in PolicyIds, p \notin apart', config'[p] \in Values \ Odd
               PROVE  policies'[p] = config'[p]
    BY DEF PoliciesInStep
  <1>1. CASE p \in both
    BY <1>1
  <1>2. CASE p \notin both
    <2>1. p \notin apart /\ config'[p] = config[p] /\ policies'[p] = policies[p]
      BY <1>2 DEF Through
    <2>2. QED
      BY <2>1 DEF PoliciesInStep
  <1>3. QED
    BY <1>1, <1>2

LEMMA InStepInit == CRInit => PoliciesInStep
  BY ConfigManagerAssumption DEF CRInit, CMInit, EmptyConfig, PoliciesInStep, PolicyIds

LEMMA InStepStep == CMTypeOK /\ PoliciesInStep /\ [CRNext]_crVars => PoliciesInStep'
  <1> SUFFICES ASSUME CMTypeOK, PoliciesInStep, [CRNext]_crVars
               PROVE  PoliciesInStep'
    OBVIOUS
  <1>1. ASSUME NEW c \in Configs, LoadFromManager(c)
        PROVE  PoliciesInStep'
    <2>1. config' = c
      BY <1>1 DEF LoadFromManager, Load, Apply
    <2>2. CASE ApplyAll(c) /\ Through(PolicyIds)
      <3>1. \A p \in PolicyIds : config'[p] \in Values \ Odd => policies'[p] = config'[p]
        BY <2>1, <2>2 DEF ApplyAll, ApplyPolicies
      <3>2. QED
        BY <2>2, <3>1, ThroughStep
    <2>3. CASE Through({})
      BY <2>3, ThroughStep
    <2>4. QED
      BY <1>1, <2>2, <2>3 DEF LoadFromManager
  <1>2. ASSUME NEW p \in PolicyIds, NEW x \in Values, UpdatePolicyFromConfig(p, x)
        PROVE  PoliciesInStep'
    <2> DEFINE only == [EmptyConfig EXCEPT ![p] = x]
    <2>1. config'[p] = x
      BY <1>2 DEF UpdatePolicyFromConfig, Update, Apply, CMTypeOK, Configs, PolicyIds
    <2>2. only[p] = x
      BY DEF EmptyConfig, PolicyIds
    <2>3. CASE ApplyPolicies(only) /\ Through({p})
      <3>1. config'[p] \in Values \ Odd => policies'[p] = config'[p]
        BY <2>1, <2>2, <2>3 DEF ApplyPolicies
      <3>2. QED
        BY <2>3, <3>1, ThroughStep
    <2>4. CASE Through({})
      BY <2>4, ThroughStep
    <2>5. QED
      BY <1>2, <2>3, <2>4 DEF UpdatePolicyFromConfig
  <1>3. CASE Through({})
    BY <1>3, ThroughStep
  <1>4. CASE RegisterProvider \/ UNCHANGED crVars
    BY <1>4 DEF RegisterProvider, crVars, cmVars, routerVars, PoliciesInStep
  <1>5. QED
    BY <1>1, <1>2, <1>3, <1>4
    DEF CRNext, ApplyConfiguration, UpdateKeyFromConfig, ManagerOnly

\* A policy that last went through both the manager and the router is the same in
\* both, in whatever order policies were loaded, updated, refused, rolled back
\* and given to the router directly.
THEOREM PoliciesStayInStep == CRSpec => []PoliciesInStep
  <1>1. CRSpec => []CMTypeOK
    BY RouterUsesManager, ConfigTypeCorrect, PTL
  <1>2. QED
    BY <1>1, InStepInit, InStepStep, PTL DEF CRSpec
=============================================================================
