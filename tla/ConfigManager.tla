--------------------------- MODULE ConfigManager ---------------------------
(***************************************************************************)
(* ConfigurationManager (infrastructure/config/manager.py): the live       *)
(* configuration, its version number and the bounded history of snapshots  *)
(* that rollback searches.                                                 *)
(*                                                                         *)
(* A configuration maps each entry (the id of a key or of a policy) to its *)
(* content.  Providers are loaded and restored like the other sections and *)
(* nothing updates them, so they are left out.  Content that validation    *)
(* refuses is not represented: a call with such content is Refuse.         *)
(*                                                                         *)
(* All operations run under one asyncio lock and change state before their *)
(* only suspension, the emission of an event at the end, so each is one    *)
(* step.  The emission may raise: the observability manager is supplied by *)
(* the user (KeyManager guards its own emissions against that).            *)
(***************************************************************************)
EXTENDS Integers, Sequences

CONSTANTS
    Entries,     \* ids of keys and policies
    Values,      \* contents that pass validation
    Absent,      \* the entry is not configured
    MaxHistory,  \* max_history (10 by default)
    MaxVersion   \* bound: configurations applied

ASSUME ConfigManagerAssumption ==
    /\ Absent \notin Values
    /\ MaxHistory \in Nat
    /\ MaxVersion \in Nat

VARIABLES
    config,     \* the live configuration: _keys and _policies
    version,    \* _current_version
    history,    \* _history
    result,     \* the call that ended last and whether it raised
    published   \* published[v]: what version v was (history variable)

cmVars == <<config, version, history, result, published>>

Configs == [Entries -> Values \cup {Absent}]
EmptyConfig == [e \in Entries |-> Absent]

Calls == {"none", "load", "update", "rollback", "rollback_previous"}
NoTarget == -1

Snapshot == [version : Nat, config : Configs]
Result == [call : Calls, target : Nat \cup {NoTarget}, ok : BOOLEAN]

CurrentSnapshot == [version |-> version, config |-> config]

\* Mutant of AddToHistory: the oldest snapshots are kept.
AddToHistoryKeepsOldest(h, s) ==
    IF Len(h) >= MaxHistory /\ MaxHistory # 0 THEN h ELSE Append(h, s)

\* Mutant of AddToHistory: the history is cut before the snapshot is appended.
AddToHistoryCutFirst(h, s) ==
    IF Len(h) > MaxHistory /\ MaxHistory # 0
    THEN Append(SubSeq(h, Len(h) - MaxHistory + 1, Len(h)), s)
    ELSE Append(h, s)

\* _history[-max_history:] is the whole list when max_history is 0.
AddToHistory(h, s) ==
    LET longer == Append(h, s)
    IN  IF Len(longer) > MaxHistory /\ MaxHistory # 0
        THEN SubSeq(longer, Len(longer) - MaxHistory + 1, Len(longer))
        ELSE longer

CMInit ==
    /\ config = EmptyConfig
    /\ version = 0
    /\ history = <<>>
    /\ result = [call |-> "none", target |-> NoTarget, ok |-> TRUE]
    /\ published = [v \in {0} |-> EmptyConfig]

\* The new configuration is live under the next version number; the event
\* emitted after that decides whether the call returns or raises.
Apply(c, call, target) ==
    /\ version < MaxVersion
    /\ config' = c
    /\ version' = version + 1
    /\ published' = [v \in 0..version + 1 |-> IF v \in 0..version THEN published[v] ELSE c]
    /\ \E emitted \in BOOLEAN :
          result' = [call |-> call, target |-> target, ok |-> emitted]

\* load_configuration and reload_configuration: the state it replaces is kept
\* unless it is empty, and so is the state it loads.
Load(c) ==
    LET saved == IF config = EmptyConfig THEN history
                                         ELSE AddToHistory(history, CurrentSnapshot)
    IN  /\ history' = AddToHistory(saved, [version |-> version + 1, config |-> c])
        /\ Apply(c, "load", NoTarget)

\* update_policy and update_key_config.
Update(e, x) ==
    /\ history' = AddToHistory(history, CurrentSnapshot)
    /\ Apply([config EXCEPT ![e] = x], "update", NoTarget)

Saved == {history[i] : i \in 1..Len(history)}

\* The snapshot rollback(target) finds: the last one with that version.
Newest(i, target) ==
    /\ history[i].version = target
    /\ \A j \in i + 1..Len(history) : history[j].version # target

\* Mutant of RollbackTo: the restored configuration keeps the version number.
RollbackToSameVersion(target, call) ==
    \E i \in 1..Len(history) :
        /\ Newest(i, target)
        /\ history' = AddToHistory(history, CurrentSnapshot)
        /\ config' = history[i].config
        /\ result' = [call |-> call, target |-> target, ok |-> TRUE]
        /\ UNCHANGED <<version, published>>

\* Mutant of RollbackTo: the last snapshot is restored, whatever its version.
RollbackToLatest(target, call) ==
    \E i \in 1..Len(history) :
        /\ Newest(i, target)
        /\ history' = AddToHistory(history, CurrentSnapshot)
        /\ Apply(history[Len(history)].config, call, target)

RollbackTo(target, call) ==
    \E i \in 1..Len(history) :
        /\ Newest(i, target)
        /\ history' = AddToHistory(history, CurrentSnapshot)
        /\ Apply(history[i].config, call, target)

\* rollback(version).
Rollback(target) == RollbackTo(target, "rollback")

\* rollback() without a version: the version of the last snapshot but one.
RollbackPrevious ==
    /\ Len(history) >= 2
    /\ RollbackTo(history[Len(history) - 1].version, "rollback_previous")

\* A call refused by validation, or a rollback to a version that is not kept.
Refuse(call) ==
    /\ result' = [call |-> call, target |-> NoTarget, ok |-> FALSE]
    /\ UNCHANGED <<config, version, history, published>>

CMNext ==
    \/ \E c \in Configs : Load(c)
    \/ \E e \in Entries, x \in Values : Update(e, x)
    \/ \E target \in 0..version : Rollback(target)
    \/ RollbackPrevious
    \/ \E call \in {"load", "update", "rollback"} : Refuse(call)

CMSpec == CMInit /\ [][CMNext]_cmVars

-----------------------------------------------------------------------------
\* Type invariant.
CMTypeOK ==
    /\ config \in Configs
    /\ version \in 0..MaxVersion
    /\ history \in Seq(Snapshot)
    /\ result \in Result
    /\ published \in [0..version -> Configs]
    /\ published[version] = config
    /\ MaxHistory # 0 => Len(history) <= MaxHistory

\* Every snapshot still kept holds exactly what its version was, so it does not
\* matter which of several snapshots of one version rollback picks, nor how
\* often that version was restored, overwritten and saved again in between.
SnapshotsAreFaithful ==
    \A i \in 1..Len(history) :
        /\ history[i].version \in 0..version
        /\ history[i].config = published[history[i].version]

\* The version before the live one can always be rolled back to by number,
\* unless it was empty: every way of replacing a configuration saves it first,
\* and the history's limit never drops the latest snapshots (from a limit of
\* two on, since load saves two).
PreviousVersionIsKept ==
    MaxHistory # 1 /\ version > 0 /\ published[version - 1] # EmptyConfig =>
        \E s \in Saved : s.version = version - 1

\* A rollback brings back what was live under the version it reports.
RollbackRestores ==
    [][result'.target # NoTarget /\ history' # history =>
          config' = published[result'.target]]_cmVars
=============================================================================
