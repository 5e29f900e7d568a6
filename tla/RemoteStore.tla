---------------------------- MODULE RemoteStore ----------------------------
(***************************************************************************)
(* RedisStateStore (infrastructure/state_store/redis_store.py): instances  *)
(* of the application that share one Redis.  Every call first pings Redis; *)
(* an instance that meets an error leaves Redis for good and goes on with  *)
(* a store of its own.  Each instance sweeps up the records of keys that   *)
(* are no longer stored.                                                   *)
(*                                                                         *)
(* Tasks of an instance run concurrently and are suspended at every        *)
(* command.  A command takes effect in Redis some time before its answer   *)
(* arrives, and may take effect although the answer never comes.  Of a     *)
(* record the model keeps that it is stored, of the transitions of a key   *)
(* how many there are; what the callers make of the values is not modelled.*)
(* A command of a call that has ended takes effect no more.                *)
(***************************************************************************)
EXTENDS Integers, FiniteSets, Sequences

CONSTANTS
    Instances, Tasks, Keys, Decisions,
    At,             \* At[t]: the instance that task t is part of
    Does,           \* Does[t]: the kinds of calls that t makes
    Sweepers,       \* the instances with enable_reconciliation
    MaxTransitions, \* max_transitions, per key
    MaxLeft         \* bounds the calls given up, per key (see left)

ASSUME RemoteAssumption ==
    /\ IsFiniteSet(Tasks)
    /\ At \in [Tasks -> Instances]
    /\ Sweepers \subseteq Instances
    /\ MaxTransitions \in Nat \ {0}
    /\ MaxLeft \in Nat

Records == ({"key", "quota"} \X Keys) \cup ({"decision"} \X Decisions)

VARIABLES
    records,    \* records stored in Redis
    log,        \* log[k]: length of the list of transitions of k in Redis
    left,       \* left[k]: the calls that were given up and may have left entries
                \* in that list since it was last trimmed (history)
    detached,   \* the instances with _use_fallback set
    fallback,   \* fallback[i]: what was saved in the _fallback_store of i
    task,       \* task[t]: the call that t makes, and how far it is
    sweep       \* sweep[i]: the reconciliation of i

rsVars == <<records, log, left, detached, fallback, task, sweep>>

Idle == [pc |-> "idle"]

Saves == Records \cup ({"transition"} \X Keys)

Scans == {"list_keys", "query_state"}

Reads == ({"get_key", "get_quota_state"} \cup Scans) \X {"any"}

NoSweep == [phase |-> "none", unseen |-> {}, known |-> {}, doomed |-> {}, missing |-> {}]

Attached == Instances \ detached

Init ==
    /\ records = {}
    /\ log = [k \in Keys |-> 0]
    /\ left = [k \in Keys |-> 0]
    /\ detached \in SUBSET Instances
    /\ fallback = [i \in Instances |-> {}]
    /\ task = [t \in Tasks |-> Idle]
    /\ sweep = [i \in Instances |-> NoSweep]

-----------------------------------------------------------------------------
Busy(t) == task[t] # Idle

\* The call is done by the in-memory store, in one step.
UseFallback(t, call) ==
    /\ fallback' = [fallback EXCEPT ![At[t]] = IF call \in Saves THEN @ \cup {call} ELSE @]
    /\ task' = [task EXCEPT ![t] = Idle]

Pinging(t, call) ==
    /\ task' = [task EXCEPT ![t] = [pc |-> "ping", call |-> call]]
    /\ UNCHANGED fallback

Call(t, call) ==
    /\ task[t] = Idle
    /\ call[1] \in Does[t]
    /\ IF At[t] \in detached THEN UseFallback(t, call) ELSE Pinging(t, call)
    /\ UNCHANGED <<records, log, left, detached, sweep>>

SaveKey(t, k) == Call(t, <<"key", k>>)
SaveQuotaState(t, k) == Call(t, <<"quota", k>>)
SaveRoutingDecision(t, d) == Call(t, <<"decision", d>>)
SaveStateTransition(t, k) == Call(t, <<"transition", k>>)
GetKey(t) == Call(t, <<"get_key", "any">>)
GetQuotaState(t) == Call(t, <<"get_quota_state", "any">>)
ListKeys(t) == Call(t, <<"list_keys", "any">>)
QueryState(t) == Call(t, <<"query_state", "any">>)

\* Sends a command of the call of t.
Send(t, command) ==
    task' = [task EXCEPT ![t] =
        [pc |-> "sent", call |-> task[t].call, command |-> command, resent |-> FALSE]]

FirstCommand(call) ==
    IF call[1] = "transition" THEN "push" ELSE IF call \in Saves THEN "set" ELSE "get"

\* Mutant of Pinged: _use_fallback is looked at before the ping only.
PingedStale(t) ==
    /\ task[t].pc = "ping"
    /\ Send(t, FirstCommand(task[t].call))
    /\ UNCHANGED <<records, log, left, detached, fallback, sweep>>

\* _ensure_connection returns; meanwhile another task may have left Redis.
Pinged(t) ==
    /\ task[t].pc = "ping"
    /\ IF At[t] \in detached THEN UseFallback(t, task[t].call)
       ELSE Send(t, FirstCommand(task[t].call)) /\ UNCHANGED fallback
    /\ UNCHANGED <<records, log, left, detached, sweep>>

PingFails(t) ==
    /\ task[t].pc = "ping"
    /\ detached' = detached \cup {At[t]}
    /\ UseFallback(t, task[t].call)
    /\ UNCHANGED <<records, log, left, sweep>>

\* Mutant of Trimmed: one entry more is kept (the stop of LTRIM is inclusive).
TrimmedInclusive(length) == IF length > MaxTransitions THEN MaxTransitions + 1 ELSE length

\* LTRIM key 0 max_transitions - 1.
Trimmed(length) == IF length > MaxTransitions THEN MaxTransitions ELSE length

\* Redis executes the command.
Execute(t) ==
    /\ task[t].pc = "sent"
    /\ LET id == task[t].call[2]
           command == task[t].command
       IN  /\ records' = IF command = "set" THEN records \cup {task[t].call} ELSE records
           /\ log' = IF command = "push" THEN [log EXCEPT ![id] = @ + 1]
                     ELSE IF command = "trim" THEN [log EXCEPT ![id] = Trimmed(@)]
                     ELSE log
    /\ task' = [task EXCEPT ![t] =
            [pc |-> "executed", call |-> @.call, command |-> @.command, resent |-> @.resent]]
    /\ left' = IF task[t].command = "trim" THEN [left EXCEPT ![task[t].call[2]] = 0] ELSE left
    /\ UNCHANGED <<detached, fallback, sweep>>

\* The connection pool sends a command again, once, when its answer is late
\* (retry_on_timeout): Redis may execute it twice.
Resend(t) ==
    /\ task[t].pc = "executed"
    /\ ~task[t].resent
    /\ task' = [task EXCEPT ![t] =
            [pc |-> "sent", call |-> @.call, command |-> @.command, resent |-> TRUE]]
    /\ UNCHANGED <<records, log, left, detached, fallback, sweep>>

\* The answer arrives.  A scan gets the records one after the other.
Answer(t) ==
    /\ task[t].pc = "executed"
    /\ \/ task[t].command = "push" /\ Send(t, "trim")
       \/ task[t].call[1] \in Scans /\ Send(t, "get")
       \/ task[t].command # "push" /\ task' = [task EXCEPT ![t] = Idle]
    /\ UNCHANGED <<records, log, left, detached, fallback, sweep>>

\* Mutant of Break: the error only switches the instance over.
BreakForgets(t) ==
    /\ task[t].pc \in {"sent", "executed"}
    /\ task' = [task EXCEPT ![t] = Idle]
    /\ detached' = detached \cup {At[t]}
    /\ UNCHANGED <<records, log, left, fallback, sweep>>

\* ConnectionError, TimeoutError or RedisError, whether or not Redis has
\* executed the command: the call is done again by the fallback store.
Break(t) ==
    /\ task[t].pc \in {"sent", "executed"}
    /\ UseFallback(t, task[t].call)
    /\ detached' = detached \cup {At[t]}
    /\ UNCHANGED <<records, log, left, sweep>>

\* The task is cancelled, or meets an error that is not one of the connection
\* (a StateStoreError for the caller): the call ends where it is, also between
\* LPUSH and LTRIM, nothing is done again and the instance goes on using Redis.
Abandon(t) ==
    /\ Busy(t)
    /\ IF task[t].pc # "ping" /\ task[t].call[1] = "transition"
       THEN /\ left[task[t].call[2]] < MaxLeft
            /\ left' = [left EXCEPT ![task[t].call[2]] = @ + 1]
       ELSE UNCHANGED left
    /\ task' = [task EXCEPT ![t] = Idle]
    /\ UNCHANGED <<records, log, detached, fallback, sweep>>

-----------------------------------------------------------------------------
\* The time to live of a record ends (transitions have none).  A sweep under
\* way notes that the key was missing (history).
Expire(record) ==
    /\ record \in records
    /\ records' = records \ {record}
    /\ sweep' = [i \in Instances |->
            IF record[1] = "key" /\ sweep[i].phase # "none"
            THEN [sweep[i] EXCEPT !.missing = @ \cup {record[2]}]
            ELSE sweep[i]]
    /\ UNCHANGED <<log, left, detached, fallback, task>>

\* The loop of _reconciliation_loop, once its interval has passed.
StartSweep(i) ==
    /\ i \in Sweepers \cap Attached
    /\ sweep[i].phase = "none"
    /\ sweep' = [sweep EXCEPT ![i] =
            [phase |-> "key", unseen |-> Keys, known |-> {}, doomed |-> {},
             missing |-> {k \in Keys : <<"key", k>> \notin records}]]
    /\ UNCHANGED <<records, log, left, detached, fallback, task>>

Present(phase, k) == IF phase = "transition" THEN log[k] > 0 ELSE <<phase, k>> \in records

\* Mutant of Look: transitions are matched against the quota records.
LookAtQuotas(i, k) ==
    /\ k \in sweep[i].unseen
    /\ LET s == sweep[i] IN
        sweep' = [sweep EXCEPT ![i] = [s EXCEPT
            !.unseen = @ \ {k},
            !.known = IF s.phase = "key" /\ Present("quota", k) THEN @ \cup {k} ELSE @,
            !.doomed = IF s.phase # "key" /\ Present(s.phase, k) /\ k \notin s.known
                       THEN @ \cup {k} ELSE @]]
    /\ UNCHANGED <<records, log, left, detached, fallback, task>>

\* SCAN comes to the place of key k: what is stored during the whole scan is
\* returned, in any order.
Look(i, k) ==
    /\ k \in sweep[i].unseen
    /\ LET s == sweep[i] IN
        sweep' = [sweep EXCEPT ![i] = [s EXCEPT
            !.unseen = @ \ {k},
            !.known = IF s.phase = "key" /\ Present("key", k) THEN @ \cup {k} ELSE @,
            !.doomed = IF s.phase # "key" /\ Present(s.phase, k) /\ k \notin s.known
                       THEN @ \cup {k} ELSE @]]
    /\ UNCHANGED <<records, log, left, detached, fallback, task>>

\* Mutant of Delete: the second scan deletes what the first one did.
DeleteQuota(i, k) ==
    /\ k \in sweep[i].doomed
    /\ sweep' = [sweep EXCEPT ![i].doomed = @ \ {k}]
    /\ records' = records \ {<<"quota", k>>}
    /\ UNCHANGED <<log, left, detached, fallback, task>>

\* A record of a key that the first scan did not return is deleted.
Delete(i, k) ==
    /\ k \in sweep[i].doomed
    /\ sweep' = [sweep EXCEPT ![i].doomed = @ \ {k}]
    /\ records' = IF sweep[i].phase = "quota" THEN records \ {<<"quota", k>>} ELSE records
    /\ log' = IF sweep[i].phase = "transition" THEN [log EXCEPT ![k] = 0] ELSE log
    /\ UNCHANGED <<left, detached, fallback, task>>

Following == [key |-> "quota", quota |-> "transition"]

\* The scan of the keys is followed by that of the quota records, that by the
\* one of the transitions.
NextScan(i) ==
    /\ sweep[i].phase # "none"
    /\ sweep[i].unseen = {} /\ sweep[i].doomed = {}
    /\ sweep' = [sweep EXCEPT ![i] =
            IF sweep[i].phase = "transition" THEN NoSweep
            ELSE [sweep[i] EXCEPT !.phase = Following[@], !.unseen = Keys]]
    /\ UNCHANGED <<records, log, left, detached, fallback, task>>

\* An error ends the sweep, and nothing else.
SweepFails(i) ==
    /\ sweep[i].unseen \cup sweep[i].doomed # {}
    /\ sweep' = [sweep EXCEPT ![i] = NoSweep]
    /\ UNCHANGED <<records, log, left, detached, fallback, task>>

-----------------------------------------------------------------------------
Request(t) ==
    \/ \E k \in Keys : SaveKey(t, k) \/ SaveQuotaState(t, k) \/ SaveStateTransition(t, k)
    \/ \E d \in Decisions : SaveRoutingDecision(t, d)
    \/ GetKey(t) \/ GetQuotaState(t)
    \/ ListKeys(t) \/ QueryState(t)

Sweep(i) ==
    \/ StartSweep(i)
    \/ \E k \in Keys : Look(i, k) \/ Delete(i, k)
    \/ NextScan(i)

Next ==
    \/ \E t \in Tasks :
        \/ Request(t)
        \/ Pinged(t) \/ PingFails(t)
        \/ Execute(t) \/ Resend(t) \/ Answer(t) \/ Break(t) \/ Abandon(t)
    \/ \E i \in Sweepers : Sweep(i) \/ SweepFails(i)
    \/ \E record \in records : Expire(record)

\* The loop of an instance goes on for ever; nobody has to call the store.
Spec == Init /\ [][Next]_rsVars /\ \A i \in Sweepers : WF_rsVars(Sweep(i))

-----------------------------------------------------------------------------
Calls == Saves \cup Reads

RSTypeOK ==
    /\ records \subseteq Records
    /\ log \in [Keys -> Nat]
    /\ left \in [Keys -> Nat]
    /\ detached \subseteq Instances
    /\ fallback \in [Instances -> SUBSET Saves]
    /\ task \in [Tasks ->
            {Idle} \cup [pc : {"ping"}, call : Calls]
            \cup [pc : {"sent", "executed"}, call : Calls,
                  command : {"set", "push", "trim", "get"}, resent : BOOLEAN]]
    /\ sweep \in [Instances ->
            [phase : {"none", "key", "quota", "transition"}, unseen : SUBSET Keys,
             known : SUBSET Keys, doomed : SUBSET Keys, missing : SUBSET Keys]]

\* No save returns to its caller with its data nowhere, unless it is given up:
\* Redis has executed the command or the instance has it in its own store,
\* whenever the connection breaks and whichever task notices.
NothingDropped ==
    [][\A t \in Tasks :
        (Busy(t) /\ task'[t] = Idle /\ ~Abandon(t) /\ task[t].call \in Saves) =>
            \/ task[t].call \in fallback'[At[t]]
            \/ task[t].pc = "executed" /\ task[t].command \in {"set", "trim"}]_rsVars

\* Once a task has met an error, no other task of its instance begins to use
\* Redis, not even one that was waiting for its own ping to be answered.
NoneGoesBack ==
    [][\A t \in Tasks :
        (At[t] \in detached /\ task[t].pc \notin {"sent", "executed"})
            => task'[t].pc # "sent"]_rsVars

\* However many tasks append at the same time and wherever they break off
\* between LPUSH and LTRIM, the list of a key grows beyond max_transitions by
\* at most two entries for each task (one appended, one appended again) and two
\* for each call given up since the last LTRIM, which removes them all.
LogBounded ==
    \A k \in Keys : log[k] <= MaxTransitions + 2 * Cardinality(Tasks) + 2 * left[k]

\* Reconciliation only deletes records of a key that was missing at some time
\* since it began, whatever is saved while it scans.
SweepSparesKeys == \A i \in Instances : sweep[i].doomed \subseteq sweep[i].missing

\* Once the sweeps of an instance meet no more errors and it goes on using
\* Redis, the transitions of a key that stays deleted go too, although they
\* have no time to live.
OrphansGo ==
    \A i \in Sweepers, k \in Keys :
        (/\ <>[][~SweepFails(i)]_rsVars
         /\ <>[](/\ i \in Attached
                 /\ <<"key", k>> \notin records
                 /\ \A t \in Tasks : Busy(t) => task[t].call # <<"transition", k>>))
        => <>[](log[k] = 0)
=============================================================================
