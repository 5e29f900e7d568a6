---------------------------- MODULE RemoteProofs ----------------------------
(***************************************************************************)
(* Theorems about RemoteStore for all instances, tasks and keys.           *)
(***************************************************************************)
EXTENDS RemoteStore, FiniteSetTheorems, TLAPS

\* What the command of a call may be.
CommandFits ==
    \A t \in Tasks : task[t].pc \in {"sent", "executed"} =>
        /\ task[t].command \in {"push", "trim"} => task[t].call \in {"transition"} \X Keys
        /\ task[t].command = "set" => task[t].call \in Records
        /\ task[t].call \in Saves => task[t].command # "get"

\* During a sweep every key is stored or has been missing; the keys that were
\* looked for are known or have been missing; only the latter are doomed.
SweepCovers(i) ==
    /\ sweep[i].phase # "none" =>
        \A k \in Keys : <<"key", k>> \in records \/ k \in sweep[i].missing
    /\ sweep[i].phase # "none" =>
        \A k \in Keys : k \in sweep[i].known \/ k \in sweep[i].missing
            \/ (sweep[i].phase = "key" /\ k \in sweep[i].unseen)
    /\ sweep[i].phase = "none" => sweep[i].unseen = {}
    /\ sweep[i].doomed \subseteq sweep[i].missing

SweepsCover == \A i \in Instances : SweepCovers(i)

\* Task t will not append to Redis again.
Left(t) == task[t].pc \in {"idle", "ping"} /\ At[t] \in detached

Appending(t, k) ==
    task[t].pc \in {"sent", "executed"} /\ task[t].call = <<"transition", k>>

\* The tasks of which an entry for k, or a second one, may be left in Redis
\* untrimmed.
Once(k) ==
    {t \in Tasks :
        \/ Left(t)
        \/ /\ Appending(t, k)
           /\ \/ task[t].command = "push" /\ (task[t].pc = "executed" \/ task[t].resent)
              \/ task[t].command = "trim" /\ task[t].pc = "sent"}

Twice(k) ==
    {t \in Tasks :
        \/ Left(t)
        \/ /\ Appending(t, k)
           /\ \/ task[t].command = "push" /\ task[t].pc = "executed" /\ task[t].resent
              \/ task[t].command = "trim" /\ task[t].pc = "sent"}

Accounted ==
    \A k \in Keys :
        log[k] <= MaxTransitions + Cardinality(Once(k)) + Cardinality(Twice(k)) + 2 * left[k]

RSInv == RSTypeOK /\ CommandFits /\ SweepsCover /\ Accounted

-----------------------------------------------------------------------------
\* The steps of task t and of the sweep of i.
TaskStep(t) ==
    \/ Request(t)
    \/ Pinged(t) \/ PingFails(t)
    \/ Execute(t) \/ Resend(t) \/ Answer(t) \/ Break(t) \/ Abandon(t)

\* A step of the store is one of a task, a sweep or the clock.
LEMMA NextCases ==
    Next <=> \/ \E t \in Tasks : TaskStep(t)
             \/ \E i \in Sweepers : Sweep(i) \/ SweepFails(i)
             \/ \E record \in records : Expire(record)
    BY DEF Next, TaskStep

\* What a request of a task that is idle does: it goes to the fallback store or
\* begins with a ping.
LEMMA RequestEffect ==
    ASSUME NEW t \in Tasks, Request(t)
    PROVE  \E call \in Calls :
            /\ task[t] = Idle
            /\ \/ At[t] \in detached /\ UseFallback(t, call)
               \/ At[t] \notin detached /\ Pinging(t, call)
            /\ UNCHANGED <<records, log, left, detached, sweep>>
<1>1. \E call \in Calls : Call(t, call)
    <2>1. CASE \E k \in Keys : SaveKey(t, k)
        BY <2>1 DEF SaveKey, Calls, Saves, Records
    <2>2. CASE \E k \in Keys : SaveQuotaState(t, k)
        BY <2>2 DEF SaveQuotaState, Calls, Saves, Records
    <2>3. CASE \E k \in Keys : SaveStateTransition(t, k)
        BY <2>3 DEF SaveStateTransition, Calls, Saves, Records
    <2>4. CASE \E d \in Decisions : SaveRoutingDecision(t, d)
        BY <2>4 DEF SaveRoutingDecision, Calls, Saves, Records
    <2>5. CASE GetKey(t) \/ GetQuotaState(t)
        BY <2>5 DEF GetKey, GetQuotaState, Calls, Reads
    <2>6. CASE ListKeys(t) \/ QueryState(t)
        BY <2>6 DEF ListKeys, QueryState, Calls, Reads, Scans
    <2>. QED BY <2>1, <2>2, <2>3, <2>4, <2>5, <2>6 DEF Request
<1>. QED BY <1>1 DEF Call

\* The kinds of calls are told apart by their first component.
LEMMA CallKinds ==
    ASSUME NEW call \in Calls
    PROVE  /\ call[1] = "transition" => call \in {"transition"} \X Keys
           /\ call[1] \in Scans => call \notin Saves
           /\ FirstCommand(call) \in {"set", "push", "get"}
           /\ FirstCommand(call) = "push" => call \in {"transition"} \X Keys
           /\ FirstCommand(call) = "set" => call \in Records
           /\ call \in Saves => FirstCommand(call) # "get"
    BY DEF Calls, Saves, Reads, Scans, Records, FirstCommand

-----------------------------------------------------------------------------
\* The state of one task, as RSTypeOK has it.
TaskStates ==
    {Idle} \cup [pc : {"ping"}, call : Calls]
    \cup [pc : {"sent", "executed"}, call : Calls,
          command : {"set", "push", "trim", "get"}, resent : BOOLEAN]

\* A task in some phase has the fields of that phase.
LEMMA TaskFields ==
    ASSUME NEW s \in TaskStates
    PROVE  /\ s.pc \in {"idle", "ping", "sent", "executed"}
           /\ s.pc = "idle" <=> s = Idle
           /\ s.pc # "idle" => s.call \in Calls
           /\ s.pc \in {"sent", "executed"} =>
                s.command \in {"set", "push", "trim", "get"} /\ s.resent \in BOOLEAN
    BY DEF TaskStates, Idle

\* What the steps of a task do to the tasks, each to one of the states above.
LEMMA TaskStepTasks ==
    ASSUME NEW t \in Tasks, TaskStep(t), task \in [Tasks -> TaskStates]
    PROVE  \E s \in TaskStates : task' = [task EXCEPT ![t] = s]
<1>1. Idle \in TaskStates
    BY DEF TaskStates
<1>2. task[t] \in TaskStates
    OBVIOUS
<1>. DEFINE Sent(call, command, resent) ==
        [pc |-> "sent", call |-> call, command |-> command, resent |-> resent]
<1>3. \A call \in Calls, command \in {"set", "push", "trim", "get"}, resent \in BOOLEAN :
        /\ Sent(call, command, resent) \in TaskStates
        /\ [pc |-> "executed", call |-> call, command |-> command, resent |-> resent] \in TaskStates
        /\ [pc |-> "ping", call |-> call] \in TaskStates
    BY DEF TaskStates
<1>4. CASE Request(t)
    BY <1>1, <1>3, <1>4, RequestEffect DEF UseFallback, Pinging
<1>5. CASE Pinged(t)
    <2>1. task[t].call \in Calls
        BY <1>2, <1>5, TaskFields DEF Pinged
    <2>2. FirstCommand(task[t].call) \in {"set", "push", "trim", "get"}
        BY <2>1, CallKinds
    <2>. QED BY <1>1, <1>3, <1>5, <2>1, <2>2 DEF Pinged, UseFallback, Send
<1>6. CASE PingFails(t) \/ Break(t) \/ Abandon(t)
    BY <1>1, <1>6 DEF PingFails, Break, Abandon, UseFallback
<1>7. CASE Execute(t) \/ Resend(t)
    <2>1. /\ task[t].call \in Calls
          /\ task[t].command \in {"set", "push", "trim", "get"}
          /\ task[t].resent \in BOOLEAN
        BY <1>2, <1>7, TaskFields DEF Execute, Resend
    <2>. QED BY <1>3, <1>7, <2>1 DEF Execute, Resend
<1>8. CASE Answer(t)
    <2>1. task[t].call \in Calls
        BY <1>2, <1>8, TaskFields DEF Answer
    <2>. QED BY <1>1, <1>3, <1>8, <2>1 DEF Answer, Send
<1>. QED BY <1>4, <1>5, <1>6, <1>7, <1>8 DEF TaskStep

\* A call that is given up counts for the list that it may have appended to.
LEMMA AbandonEffect ==
    ASSUME NEW t \in Tasks, Abandon(t), RSTypeOK
    PROVE  /\ left' \in [Keys -> Nat]
           /\ log' = log /\ detached' = detached
           /\ task[t].pc \in {"ping", "sent", "executed"}
           /\ \A k \in Keys :
                /\ left'[k] >= left[k]
                /\ Appending(t, k) => left'[k] = left[k] + 1
<1>1. /\ task[t] \in TaskStates
      /\ left \in [Keys -> Nat]
    BY DEF RSTypeOK, TaskStates
<1>2. task[t].pc \in {"ping", "sent", "executed"} /\ task[t].call \in Calls
    BY <1>1, TaskFields DEF Abandon, Busy
<1>3. CASE task[t].pc # "ping" /\ task[t].call[1] = "transition"
    <2>1. task[t].call[2] \in Keys
        BY <1>2, <1>3, CallKinds
    <2>2. left' = [left EXCEPT ![task[t].call[2]] = @ + 1]
        BY <1>3 DEF Abandon
    <2>3. \A k \in Keys : Appending(t, k) => task[t].call[2] = k
        BY DEF Appending
    <2>. QED BY <1>1, <1>2, <2>1, <2>2, <2>3 DEF Abandon
<1>4. CASE ~(task[t].pc # "ping" /\ task[t].call[1] = "transition")
    <2>1. left' = left
        BY <1>4 DEF Abandon
    <2>2. \A k \in Keys : ~Appending(t, k)
        BY <1>4 DEF Appending
    <2>. QED BY <1>1, <1>2, <2>1, <2>2 DEF Abandon
<1>. QED BY <1>3, <1>4

\* A step of a task moves its fallback store and Redis within their types.
LEMMA TaskStepStores ==
    ASSUME NEW t \in Tasks, TaskStep(t), RSTypeOK, CommandFits
    PROVE  /\ records' \subseteq Records
           /\ log' \in [Keys -> Nat]
           /\ left' \in [Keys -> Nat]
           /\ detached' \subseteq Instances
           /\ fallback' \in [Instances -> SUBSET Saves]
           /\ sweep' = sweep
           /\ records \subseteq records'
           /\ detached \subseteq detached'
<1>1. /\ task[t] \in TaskStates
      /\ At[t] \in Instances
    BY RemoteAssumption DEF RSTypeOK, TaskStates
<1>2. ASSUME NEW call, UseFallback(t, call)
      PROVE  fallback' \in [Instances -> SUBSET Saves]
    <2>. DEFINE saved == IF call \in Saves THEN fallback[At[t]] \cup {call} ELSE fallback[At[t]]
    <2>1. fallback \in [Instances -> SUBSET Saves]
        BY DEF RSTypeOK
    <2>2. saved \in SUBSET Saves
        BY <1>1, <2>1
    <2>3. fallback' = [fallback EXCEPT ![At[t]] = saved]
        BY <1>2 DEF UseFallback
    <2>. HIDE DEF saved
    <2>. QED BY <1>1, <2>1, <2>2, <2>3
<1>3. CASE Request(t)
    BY <1>2, <1>3, RequestEffect DEF Pinging, RSTypeOK
<1>4. CASE Pinged(t) \/ PingFails(t) \/ Break(t)
    BY <1>1, <1>2, <1>4 DEF Pinged, PingFails, Break, RSTypeOK
<1>5. CASE Resend(t) \/ Answer(t)
    BY <1>5 DEF Resend, Answer, RSTypeOK
<1>6. CASE Execute(t)
    <2>1. /\ task[t].call \in Calls
          /\ task[t].command \in {"push", "trim"} => task[t].call \in {"transition"} \X Keys
        BY <1>1, <1>6, TaskFields DEF Execute, CommandFits
    <2>2. \A n \in Nat : Trimmed(n) \in Nat /\ n + 1 \in Nat
        BY RemoteAssumption DEF Trimmed
    <2>3. task[t].command \in {"push", "trim"} => task[t].call[2] \in Keys
        BY <2>1
    <2>4. log' \in [Keys -> Nat]
        BY <1>6, <2>2, <2>3 DEF Execute, RSTypeOK
    <2>5. task[t].command = "set" => task[t].call \in Records
        BY <1>1, <1>6, TaskFields DEF Execute, CommandFits
    <2>6. left' \in [Keys -> Nat]
        BY <1>6, <2>3 DEF Execute, RSTypeOK
    <2>. QED BY <1>6, <2>4, <2>5, <2>6 DEF Execute, RSTypeOK
<1>7. CASE Abandon(t)
    <2>1. left' \in [Keys -> Nat]
        BY <1>7, AbandonEffect DEF RSTypeOK
    <2>. QED BY <1>7, <2>1 DEF Abandon, RSTypeOK
<1>. QED BY <1>3, <1>4, <1>5, <1>6, <1>7 DEF TaskStep

-----------------------------------------------------------------------------
\* The sweeps and the clock leave the tasks alone, and Redis and the sweeps
\* within their types.
LEMMA OtherStepEffect ==
    ASSUME RSTypeOK,
           \/ \E i \in Sweepers : Sweep(i) \/ SweepFails(i)
           \/ \E record \in records : Expire(record)
    PROVE  /\ UNCHANGED <<left, detached, fallback, task>>
           /\ records' \subseteq Records
           /\ log' \in [Keys -> Nat]
           /\ \A k \in Keys : log'[k] <= log[k]
<1>1. ASSUME NEW i \in Sweepers, NEW k \in Keys, Delete(i, k)
      PROVE  /\ UNCHANGED <<left, detached, fallback, task>>
             /\ records' \subseteq Records
             /\ log' \in [Keys -> Nat]
             /\ \A j \in Keys : log'[j] <= log[j]
    <2>1. /\ log \in [Keys -> Nat]
          /\ records \subseteq Records
        BY DEF RSTypeOK
    <2>. QED BY <1>1, <2>1 DEF Delete
<1>2. ASSUME NEW record \in records, Expire(record)
      PROVE  UNCHANGED <<log, left, detached, fallback, task>> /\ records' \subseteq Records
    BY <1>2 DEF Expire, RSTypeOK
<1>3. ASSUME NEW i \in Sweepers,
             StartSweep(i) \/ (\E k \in Keys : Look(i, k)) \/ NextScan(i) \/ SweepFails(i)
      PROVE  UNCHANGED <<records, log, left, detached, fallback, task>>
    BY <1>3 DEF StartSweep, Look, NextScan, SweepFails
<1>4. /\ records \subseteq Records
      /\ log \in [Keys -> Nat]
      /\ \A k \in Keys : log[k] <= log[k]
    BY DEF RSTypeOK
<1>. QED BY <1>1, <1>2, <1>3, <1>4 DEF Sweep

SweepStates ==
    [phase : {"none", "key", "quota", "transition"}, unseen : SUBSET Keys,
     known : SUBSET Keys, doomed : SUBSET Keys, missing : SUBSET Keys]

\* One step of the sweep of i, from a state of that type that covers the keys.
LEMMA SweepStep ==
    ASSUME NEW i \in Sweepers, RSTypeOK, SweepsCover, Sweep(i) \/ SweepFails(i)
    PROVE  sweep' \in [Instances -> SweepStates] /\ SweepsCover'
<1>1. /\ sweep \in [Instances -> SweepStates]
      /\ i \in Instances
      /\ Sweepers \subseteq Instances
    BY RemoteAssumption DEF RSTypeOK, SweepStates
<1>. SUFFICES /\ \E s \in SweepStates : sweep' = [sweep EXCEPT ![i] = s]
              /\ \A k \in Keys : <<"key", k>> \in records => <<"key", k>> \in records'
              /\ SweepCovers(i)'
    BY <1>1 DEF SweepsCover, SweepCovers
<1>. DEFINE s == sweep[i]
<1>2. s \in SweepStates /\ SweepCovers(i)
    BY <1>1 DEF SweepsCover
<1>3. CASE StartSweep(i)
    <2>. DEFINE new == [phase |-> "key", unseen |-> Keys, known |-> {}, doomed |-> {},
                        missing |-> {k \in Keys : <<"key", k>> \notin records}]
    <2>1. new \in SweepStates
        BY DEF SweepStates
    <2>2. sweep' = [sweep EXCEPT ![i] = new] /\ records' = records
        BY <1>3 DEF StartSweep
    <2>3. sweep'[i] = new
        BY <1>1, <2>2
    <2>4. SweepCovers(i)'
        BY <2>2, <2>3 DEF SweepCovers
    <2>. HIDE DEF new
    <2>. QED BY <2>1, <2>2, <2>4
<1>4. ASSUME NEW k \in Keys, Look(i, k)
      PROVE  /\ \E new \in SweepStates : sweep' = [sweep EXCEPT ![i] = new]
             /\ records' = records
             /\ SweepCovers(i)'
    <2>. DEFINE new == [s EXCEPT
            !.unseen = @ \ {k},
            !.known = IF s.phase = "key" /\ Present("key", k) THEN @ \cup {k} ELSE @,
            !.doomed = IF s.phase # "key" /\ Present(s.phase, k) /\ k \notin s.known
                       THEN @ \cup {k} ELSE @]
    <2>1. /\ new \in SweepStates
          /\ new.phase = s.phase /\ new.unseen = s.unseen \ {k} /\ new.missing = s.missing
          /\ new.known = IF s.phase = "key" /\ Present("key", k) THEN s.known \cup {k} ELSE s.known
          /\ new.doomed \subseteq s.doomed \cup {k}
          /\ new.doomed # s.doomed => s.phase # "key" /\ k \notin s.known
        BY <1>2 DEF SweepStates
    <2>2. sweep' = [sweep EXCEPT ![i] = new] /\ records' = records
        BY <1>4 DEF Look
    <2>3. sweep'[i] = new
        BY <1>1, <2>2
    <2>4. s.phase # "none"
        BY <1>2, <1>4 DEF Look, SweepCovers
    <2>5. k \in s.missing \/ <<"key", k>> \in records
        BY <1>2, <2>4 DEF SweepCovers
    <2>. HIDE DEF new
    <2>6. \A j \in Keys : j \in new.known \/ j \in new.missing
                \/ (new.phase = "key" /\ j \in new.unseen)
        BY <1>2, <2>1, <2>4, <2>5 DEF SweepCovers, Present
    <2>7. new.doomed \subseteq new.missing
        BY <1>2, <2>1, <2>4 DEF SweepCovers
    <2>8. SweepCovers(i)'
        BY <1>2, <2>1, <2>2, <2>3, <2>4, <2>6, <2>7 DEF SweepCovers
    <2>. QED BY <2>1, <2>2, <2>8
<1>5. ASSUME NEW k \in Keys, Delete(i, k)
      PROVE  /\ \E new \in SweepStates : sweep' = [sweep EXCEPT ![i] = new]
             /\ \A j \in Keys : <<"key", j>> \in records => <<"key", j>> \in records'
             /\ SweepCovers(i)'
    <2>. DEFINE new == [s EXCEPT !.doomed = @ \ {k}]
    <2>1. /\ new \in SweepStates
          /\ new.phase = s.phase /\ new.unseen = s.unseen /\ new.missing = s.missing
          /\ new.known = s.known /\ new.doomed = s.doomed \ {k}
        BY <1>2 DEF SweepStates
    <2>2. sweep' = [sweep EXCEPT ![i] = new]
        BY <1>5 DEF Delete
    <2>3. sweep'[i] = new
        BY <1>1, <2>2
    <2>4. \A j \in Keys : <<"key", j>> \in records => <<"key", j>> \in records'
        BY <1>5 DEF Delete
    <2>. HIDE DEF new
    <2>5. SweepCovers(i)'
        BY <1>2, <2>1, <2>3, <2>4 DEF SweepCovers
    <2>. QED BY <2>1, <2>2, <2>4, <2>5
<1>6. CASE SweepFails(i) \/ (NextScan(i) /\ s.phase = "transition")
    <2>1. NoSweep \in SweepStates
        BY DEF NoSweep, SweepStates
    <2>2. sweep' = [sweep EXCEPT ![i] = NoSweep] /\ records' = records
        BY <1>6 DEF SweepFails, NextScan
    <2>3. sweep'[i] = NoSweep
        BY <1>1, <2>2
    <2>4. SweepCovers(i)'
        BY <2>3 DEF SweepCovers, NoSweep
    <2>. QED BY <2>1, <2>2, <2>4
<1>7. CASE NextScan(i) /\ s.phase # "transition"
    <2>. DEFINE new == [s EXCEPT !.phase = Following[@], !.unseen = Keys]
    <2>0. s.phase \in {"key", "quota"}
        BY <1>2, <1>7 DEF SweepStates, NextScan
    <2>1. /\ new \in SweepStates
          /\ new.phase \in {"quota", "transition"}
          /\ new.known = s.known /\ new.doomed = s.doomed /\ new.missing = s.missing
        <3>1. Following[s.phase] \in {"quota", "transition"}
            BY <2>0 DEF Following
        <3>. QED BY <1>2, <3>1 DEF SweepStates
    <2>2. /\ sweep' = [sweep EXCEPT ![i] = new] /\ records' = records
          /\ s.phase # "none" /\ s.unseen = {}
        BY <1>7 DEF NextScan
    <2>3. sweep'[i] = new
        BY <1>1, <2>2
    <2>. HIDE DEF new
    <2>4. SweepCovers(i)'
        BY <1>2, <2>1, <2>2, <2>3 DEF SweepCovers
    <2>. QED BY <2>1, <2>2, <2>4
<1>. QED BY <1>3, <1>4, <1>5, <1>6, <1>7 DEF Sweep

\* A record that expires is noted by every sweep under way.
LEMMA ExpireStep ==
    ASSUME NEW record \in records, RSTypeOK, SweepsCover, Expire(record)
    PROVE  sweep' \in [Instances -> SweepStates] /\ SweepsCover'
<1>1. /\ sweep \in [Instances -> SweepStates]
      /\ record \in Records
    BY DEF RSTypeOK, SweepStates
<1>2. record[1] = "key" => record[2] \in Keys
    BY <1>1 DEF Records
<1>3. ASSUME NEW i \in Instances
      PROVE  sweep'[i] \in SweepStates /\ SweepCovers(i)'
    <2>. DEFINE s == sweep[i]
                noted == [s EXCEPT !.missing = @ \cup {record[2]}]
    <2>1. s \in SweepStates /\ SweepCovers(i)
        BY <1>1 DEF SweepsCover
    <2>2. CASE record[1] = "key" /\ s.phase # "none"
        <3>1. /\ noted \in SweepStates
              /\ noted.phase = s.phase /\ noted.unseen = s.unseen /\ noted.known = s.known
              /\ noted.doomed = s.doomed /\ noted.missing = s.missing \cup {record[2]}
            BY <1>2, <2>1, <2>2 DEF SweepStates
        <3>2. sweep'[i] = noted /\ records' = records \ {record}
            BY <2>2 DEF Expire
        <3>3. \A k \in Keys : <<"key", k>> = record => k = record[2]
            OBVIOUS
        <3>. HIDE DEF noted
        <3>. QED BY <2>1, <2>2, <3>1, <3>2, <3>3 DEF SweepCovers
    <2>3. CASE ~(record[1] = "key" /\ s.phase # "none")
        <3>1. sweep'[i] = s /\ records' = records \ {record}
            BY <2>3 DEF Expire
        <3>2. \A k \in Keys : <<"key", k>> = record => record[1] = "key"
            OBVIOUS
        <3>. QED BY <2>1, <2>3, <3>1, <3>2 DEF SweepCovers
    <2>. QED BY <2>2, <2>3
<1>4. sweep' \in [Instances -> SweepStates]
    BY <1>3 DEF Expire
<1>. QED BY <1>3, <1>4 DEF SweepsCover

-----------------------------------------------------------------------------
\* A task is only ever given a command of its own call.
LEMMA CommandsFit ==
    ASSUME NEW t \in Tasks, TaskStep(t), RSTypeOK, CommandFits
    PROVE  CommandFits'
<1>1. task \in [Tasks -> TaskStates] /\ task[t] \in TaskStates
    BY DEF RSTypeOK, TaskStates
<1>2. PICK s \in TaskStates : task' = [task EXCEPT ![t] = s]
    BY <1>1, TaskStepTasks
<1>. DEFINE Fits(s0) == s0.pc \in {"sent", "executed"} =>
        /\ s0.command \in {"push", "trim"} => s0.call \in {"transition"} \X Keys
        /\ s0.command = "set" => s0.call \in Records
        /\ s0.call \in Saves => s0.command # "get"
<1>3. task'[t] = s
    BY <1>1, <1>2
<1>4. Fits(task[t])
    BY DEF CommandFits
<1>5. SUFFICES Fits(s)
    BY <1>1, <1>2, <1>3 DEF CommandFits
<1>6. CASE s = Idle
    BY <1>6 DEF Idle
<1>7. CASE Request(t)
    <2>1. PICK call \in Calls : s = Idle \/ s = [pc |-> "ping", call |-> call]
        BY <1>1, <1>3, <1>7, RequestEffect DEF UseFallback, Pinging
    <2>. QED BY <1>6, <2>1
<1>8. CASE Pinged(t)
    <2>1. s = Idle \/ s = [pc |-> "sent", call |-> task[t].call,
                           command |-> FirstCommand(task[t].call), resent |-> FALSE]
        BY <1>1, <1>3, <1>8 DEF Pinged, UseFallback, Send
    <2>2. task[t].call \in Calls
        BY <1>1, <1>8, TaskFields DEF Pinged
    <2>3. /\ FirstCommand(task[t].call) # "trim"
          /\ FirstCommand(task[t].call) = "push" => task[t].call \in {"transition"} \X Keys
          /\ FirstCommand(task[t].call) = "set" => task[t].call \in Records
          /\ task[t].call \in Saves => FirstCommand(task[t].call) # "get"
        BY <2>2, CallKinds
    <2>. QED BY <1>6, <2>1, <2>3
<1>9. CASE PingFails(t) \/ Break(t) \/ Abandon(t)
    <2>1. s = Idle
        BY <1>1, <1>3, <1>9 DEF PingFails, Break, Abandon, UseFallback
    <2>. QED BY <1>6, <2>1
<1>10. CASE Execute(t) \/ Resend(t)
    <2>1. /\ task[t].pc \in {"sent", "executed"}
          /\ s.call = task[t].call /\ s.command = task[t].command
        BY <1>1, <1>3, <1>10 DEF Execute, Resend
    <2>. QED BY <1>4, <2>1
<1>11. CASE Answer(t)
    <2>1. /\ task[t].pc = "executed"
          /\ \/ s = Idle
             \/ /\ task[t].command = "push"
                /\ s = [pc |-> "sent", call |-> task[t].call, command |-> "trim", resent |-> FALSE]
             \/ /\ task[t].call[1] \in Scans
                /\ s = [pc |-> "sent", call |-> task[t].call, command |-> "get", resent |-> FALSE]
        BY <1>1, <1>3, <1>11 DEF Answer, Send
    <2>2. task[t].call \in Calls
        BY <1>1, <2>1, TaskFields
    <2>3. task[t].call[1] \in Scans => task[t].call \notin Saves
        BY <2>2, CallKinds
    <2>. QED BY <1>4, <1>6, <2>1, <2>3
<1>. QED BY <1>7, <1>8, <1>9, <1>10, <1>11 DEF TaskStep

-----------------------------------------------------------------------------
\* Sets of tasks are finite and can be counted.
LEMMA TaskSets ==
    ASSUME NEW S \in SUBSET Tasks
    PROVE  /\ Cardinality(S) \in Nat
           /\ Cardinality(S) <= Cardinality(Tasks)
           /\ Cardinality(Tasks) \in Nat
           /\ \A R \in SUBSET S : Cardinality(R) \in Nat /\ Cardinality(R) <= Cardinality(S)
           /\ \A t \in Tasks \ S : Cardinality(S \cup {t}) = Cardinality(S) + 1
<1>1. IsFiniteSet(S) /\ IsFiniteSet(Tasks)
    BY RemoteAssumption, FS_Subset
<1>2. ASSUME NEW R \in SUBSET S
      PROVE  Cardinality(R) \in Nat /\ Cardinality(R) <= Cardinality(S)
    BY <1>1, FS_Subset, FS_CardinalityType
<1>3. ASSUME NEW t \in Tasks \ S
      PROVE  Cardinality(S \cup {t}) = Cardinality(S) + 1
    BY <1>1, FS_AddElement
<1>. QED BY <1>1, <1>2, <1>3, FS_Subset, FS_CardinalityType

\* A set of tasks that loses no task but one has at most one task less.
LEMMA LosesOne ==
    ASSUME NEW S \in SUBSET Tasks, NEW R \in SUBSET Tasks, NEW t \in Tasks, S \ {t} \subseteq R
    PROVE  Cardinality(S) <= Cardinality(R) + 1
<1>1. IsFiniteSet(S)
    BY RemoteAssumption, FS_Subset
<1>2. Cardinality(S \ {t}) = IF t \in S THEN Cardinality(S) - 1 ELSE Cardinality(S)
    BY <1>1, FS_RemoveElement
<1>3. S \ {t} \in SUBSET R
    OBVIOUS
<1>4. /\ Cardinality(S \ {t}) <= Cardinality(R)
      /\ Cardinality(S) \in Nat /\ Cardinality(R) \in Nat /\ Cardinality(S \ {t}) \in Nat
    BY <1>3, TaskSets
<1>. QED BY <1>2, <1>4

\* The tasks that are not in a step keep their share of a list.
LEMMA SharesKept ==
    ASSUME NEW t \in Tasks, NEW k, NEW s, task \in [Tasks -> TaskStates],
           task' = [task EXCEPT ![t] = s], detached \subseteq detached'
    PROVE  /\ Once(k) \ {t} \subseteq Once(k)'
           /\ Twice(k) \ {t} \subseteq Twice(k)'
    BY DEF Once, Twice, Left, Appending

\* A step of a task that does not append leaves the lists accounted for.
LEMMA SharesGrow ==
    ASSUME RSTypeOK, Accounted, log' \in [Keys -> Nat], left' \in [Keys -> Nat],
           \A k \in Keys : /\ log'[k] <= log[k]
                           /\ left'[k] >= left[k]
                           /\ Once(k) \subseteq Once(k)'
                           /\ Twice(k) \subseteq Twice(k)'
    PROVE  Accounted'
<1>. SUFFICES ASSUME NEW k \in Keys
              PROVE  log'[k] <= MaxTransitions + Cardinality(Once(k)') + Cardinality(Twice(k)')
                                    + 2 * left'[k]
    BY DEF Accounted
<1>1. /\ Once(k)' \in SUBSET Tasks /\ Twice(k)' \in SUBSET Tasks
      /\ Once(k) \in SUBSET (Once(k)') /\ Twice(k) \in SUBSET (Twice(k)')
    BY DEF Once, Twice
<1>2. /\ Cardinality(Once(k)') \in Nat /\ Cardinality(Once(k)) \in Nat
      /\ Cardinality(Once(k)) <= Cardinality(Once(k)')
    BY <1>1, TaskSets
<1>3. /\ Cardinality(Twice(k)') \in Nat /\ Cardinality(Twice(k)) \in Nat
      /\ Cardinality(Twice(k)) <= Cardinality(Twice(k)')
    BY <1>1, TaskSets
<1>4. /\ log[k] \in Nat /\ log'[k] \in Nat /\ MaxTransitions \in Nat
      /\ left[k] \in Nat /\ left'[k] \in Nat /\ left[k] <= left'[k]
      /\ log'[k] <= log[k]
      /\ log[k] <= MaxTransitions + Cardinality(Once(k)) + Cardinality(Twice(k)) + 2 * left[k]
    BY RemoteAssumption DEF RSTypeOK, Accounted
<1>. QED BY <1>2, <1>3, <1>4

\* Only Execute changes a list; every other step of a task that is not given up
\* leaves it what it had, and more when the task breaks off.
LEMMA QuietSteps ==
    ASSUME NEW t \in Tasks, TaskStep(t), ~Execute(t), ~Abandon(t), RSTypeOK, CommandFits,
           NEW k \in Keys
    PROVE  /\ log' = log
           /\ left' = left
           /\ t \in Once(k) => t \in Once(k)'
           /\ t \in Twice(k) => t \in Twice(k)'
<1>1. task \in [Tasks -> TaskStates] /\ task[t] \in TaskStates
    BY DEF RSTypeOK, TaskStates
<1>2. PICK s \in TaskStates : task' = [task EXCEPT ![t] = s]
    BY <1>1, TaskStepTasks
<1>3. task'[t] = s
    BY <1>1, <1>2
<1>4. CASE Request(t)
    <2>1. /\ task[t] = Idle /\ log' = log /\ left' = left /\ detached' = detached
          /\ At[t] \in detached => s = Idle
        BY <1>1, <1>3, <1>4, RequestEffect DEF UseFallback
    <2>. QED BY <1>3, <2>1 DEF Once, Twice, Left, Appending, Idle
<1>5. CASE Pinged(t)
    <2>1. /\ task[t].pc = "ping" /\ log' = log /\ left' = left /\ detached' = detached
          /\ At[t] \in detached => s = Idle
        BY <1>1, <1>3, <1>5 DEF Pinged, UseFallback
    <2>. QED BY <1>3, <2>1 DEF Once, Twice, Left, Appending, Idle
<1>6. CASE PingFails(t) \/ Break(t)
    <2>1. log' = log /\ left' = left /\ At[t] \in detached' /\ s = Idle
        BY <1>1, <1>3, <1>6 DEF PingFails, Break, UseFallback
    <2>. QED BY <1>3, <2>1 DEF Once, Twice, Left, Idle
<1>7. CASE Resend(t)
    <2>1. /\ log' = log /\ left' = left /\ detached' = detached
          /\ task[t].pc = "executed" /\ ~task[t].resent
          /\ s = [pc |-> "sent", call |-> task[t].call, command |-> task[t].command, resent |-> TRUE]
        BY <1>1, <1>3, <1>7 DEF Resend
    <2>. QED BY <1>3, <2>1 DEF Once, Twice, Left, Appending
<1>8. CASE Answer(t)
    <2>1. /\ log' = log /\ left' = left /\ detached' = detached /\ task[t].pc = "executed"
          /\ \/ task[t].command # "push"
             \/ s = [pc |-> "sent", call |-> task[t].call, command |-> "trim", resent |-> FALSE]
             \/ task[t].call[1] \in Scans
        BY <1>1, <1>3, <1>8 DEF Answer, Send
    <2>. QED BY <1>3, <2>1 DEF Once, Twice, Left, Appending, Scans
<1>. QED BY <1>4, <1>5, <1>6, <1>7, <1>8 DEF TaskStep

\* Execute appends one entry for which the task is counted once more, or trims.
LEMMA AccountedStep ==
    ASSUME NEW t \in Tasks, TaskStep(t), RSTypeOK, CommandFits, Accounted
    PROVE  Accounted'
<1>1. task \in [Tasks -> TaskStates] /\ task[t] \in TaskStates
    BY DEF RSTypeOK, TaskStates
<1>2. PICK s \in TaskStates : task' = [task EXCEPT ![t] = s]
    BY <1>1, TaskStepTasks
<1>3. task'[t] = s
    BY <1>1, <1>2
<1>4. /\ log' \in [Keys -> Nat] /\ log \in [Keys -> Nat]
      /\ left' \in [Keys -> Nat] /\ left \in [Keys -> Nat]
      /\ detached \subseteq detached'
    BY TaskStepStores DEF RSTypeOK
<1>5. \A k \in Keys : Once(k) \ {t} \subseteq Once(k)' /\ Twice(k) \ {t} \subseteq Twice(k)'
    BY <1>1, <1>2, <1>4, SharesKept
<1>6. CASE ~Execute(t) /\ ~Abandon(t)
    <2>1. \A k \in Keys : /\ log'[k] <= log[k]
                          /\ left'[k] >= left[k]
                          /\ Once(k) \subseteq Once(k)'
                          /\ Twice(k) \subseteq Twice(k)'
        BY <1>4, <1>5, <1>6, QuietSteps
    <2>. QED BY <1>4, <2>1, SharesGrow
<1>7. CASE Execute(t)
    <2>. SUFFICES ASSUME NEW k \in Keys
                  PROVE  log'[k] <= MaxTransitions + Cardinality(Once(k)')
                                        + Cardinality(Twice(k)') + 2 * left'[k]
        BY DEF Accounted
    <2>1. /\ task[t].pc = "sent" /\ detached' = detached
          /\ s = [pc |-> "executed", call |-> task[t].call, command |-> task[t].command,
                  resent |-> task[t].resent]
        BY <1>1, <1>3, <1>7 DEF Execute
    <2>2. /\ Once(k) \in SUBSET Tasks /\ Twice(k) \in SUBSET Tasks
          /\ Once(k)' \in SUBSET Tasks /\ Twice(k)' \in SUBSET Tasks
        BY DEF Once, Twice
    <2>. DEFINE a == Cardinality(Once(k))
                b == Cardinality(Twice(k))
                a1 == Cardinality(Once(k)')
                b1 == Cardinality(Twice(k)')
    <2>3. a \in Nat /\ b \in Nat /\ a1 \in Nat /\ b1 \in Nat
        BY <2>2, TaskSets
    <2>4. /\ log[k] \in Nat /\ log'[k] \in Nat /\ MaxTransitions \in Nat
          /\ left[k] \in Nat /\ left'[k] \in Nat
          /\ log[k] <= MaxTransitions + a + b + 2 * left[k]
        BY <1>4, RemoteAssumption DEF Accounted
    <2>5. CASE task[t].command = "push" /\ task[t].call = <<"transition", k>>
        <3>1. log'[k] = log[k] + 1 /\ left'[k] = left[k]
            BY <1>4, <1>7, <2>5 DEF Execute
        <3>2. task[t].resent \in BOOLEAN
            BY <1>1, <2>1, TaskFields
        <3>3. CASE task[t].resent
            <4>1. /\ t \notin Twice(k)
                  /\ Twice(k) \cup {t} \subseteq Twice(k)'
                  /\ Once(k) \subseteq Once(k)'
                BY <1>3, <1>5, <2>1, <2>5, <3>3 DEF Once, Twice, Left, Appending
            <4>2. Cardinality(Twice(k) \cup {t}) = b + 1
                BY <2>2, <4>1, TaskSets
            <4>3. a <= a1 /\ b + 1 <= b1
                BY <2>2, <4>1, <4>2, TaskSets
            <4>. HIDE DEF a, b, a1, b1
            <4>4. log[k] + 1 <= MaxTransitions + a1 + b1 + 2 * left[k]
                BY <2>3, <2>4, <4>3
            <4>. QED BY <3>1, <4>4 DEF a1, b1
        <3>4. CASE ~task[t].resent
            <4>1. /\ t \notin Once(k)
                  /\ Once(k) \cup {t} \subseteq Once(k)'
                  /\ t \notin Twice(k)
                  /\ Twice(k) \subseteq Twice(k)'
                BY <1>3, <1>5, <2>1, <2>5, <3>4 DEF Once, Twice, Left, Appending
            <4>2. Cardinality(Once(k) \cup {t}) = a + 1
                BY <2>2, <4>1, TaskSets
            <4>3. a + 1 <= a1 /\ b <= b1
                BY <2>2, <4>1, <4>2, TaskSets
            <4>. HIDE DEF a, b, a1, b1
            <4>4. log[k] + 1 <= MaxTransitions + a1 + b1 + 2 * left[k]
                BY <2>3, <2>4, <4>3
            <4>. QED BY <3>1, <4>4 DEF a1, b1
        <3>. QED BY <3>2, <3>3, <3>4
    <2>6. CASE task[t].command = "trim" /\ task[t].call = <<"transition", k>>
        <3>1. log'[k] = Trimmed(log[k])
            BY <1>4, <1>7, <2>6 DEF Execute
        <3>2. log'[k] <= MaxTransitions
            BY <2>4, <3>1 DEF Trimmed
        <3>. HIDE DEF a, b, a1, b1
        <3>3. log'[k] <= MaxTransitions + a1 + b1 + 2 * left'[k]
            BY <2>3, <2>4, <3>2
        <3>. QED BY <3>3 DEF a1, b1
    <2>7. CASE ~(task[t].command \in {"push", "trim"} /\ task[t].call = <<"transition", k>>)
        <3>1. task[t].command \in {"push", "trim"} => task[t].call \in {"transition"} \X Keys
            BY <2>1 DEF CommandFits
        <3>2. log'[k] = log[k] /\ left'[k] = left[k]
            BY <1>4, <1>7, <2>7, <3>1 DEF Execute
        <3>3. t \notin Once(k) /\ t \notin Twice(k)
            BY <2>1, <2>7 DEF Once, Twice, Left, Appending
        <3>4. Once(k) \subseteq Once(k)' /\ Twice(k) \subseteq Twice(k)'
            BY <1>5, <3>3
        <3>5. a <= a1 /\ b <= b1
            BY <2>2, <3>4, TaskSets
        <3>. HIDE DEF a, b, a1, b1
        <3>6. log[k] <= MaxTransitions + a1 + b1 + 2 * left[k]
            BY <2>3, <2>4, <3>5
        <3>. QED BY <3>2, <3>6 DEF a1, b1
    <2>. QED BY <2>5, <2>6, <2>7
<1>8. CASE Abandon(t)
    <2>. SUFFICES ASSUME NEW k \in Keys
                  PROVE  log'[k] <= MaxTransitions + Cardinality(Once(k)')
                                        + Cardinality(Twice(k)') + 2 * left'[k]
        BY DEF Accounted
    <2>1. /\ Once(k) \in SUBSET Tasks /\ Twice(k) \in SUBSET Tasks
          /\ Once(k)' \in SUBSET Tasks /\ Twice(k)' \in SUBSET Tasks
        BY DEF Once, Twice
    <2>. DEFINE a == Cardinality(Once(k))
                b == Cardinality(Twice(k))
                a1 == Cardinality(Once(k)')
                b1 == Cardinality(Twice(k)')
    <2>2. a \in Nat /\ b \in Nat /\ a1 \in Nat /\ b1 \in Nat
        BY <2>1, TaskSets
    <2>3. /\ log[k] \in Nat /\ log'[k] = log[k] /\ MaxTransitions \in Nat
          /\ left[k] \in Nat /\ left'[k] \in Nat /\ left'[k] >= left[k]
          /\ log[k] <= MaxTransitions + a + b + 2 * left[k]
        BY <1>4, <1>8, AbandonEffect, RemoteAssumption DEF Accounted
    <2>4. CASE Appending(t, k)
        <3>1. left'[k] = left[k] + 1
            BY <1>8, <2>4, AbandonEffect
        <3>2. a <= a1 + 1 /\ b <= b1 + 1
            BY <1>5, <2>1, LosesOne
        <3>. HIDE DEF a, b, a1, b1
        <3>3. log[k] <= MaxTransitions + a1 + b1 + 2 * left'[k]
            BY <2>2, <2>3, <3>1, <3>2
        <3>. QED BY <2>3, <3>3 DEF a1, b1
    <2>5. CASE ~Appending(t, k)
        <3>1. /\ detached' = detached
              /\ s = Idle
            BY <1>1, <1>3, <1>8 DEF Abandon
        <3>2. t \in Once(k) => t \in Once(k)'
            BY <1>3, <2>5, <3>1 DEF Once, Left, Idle
        <3>3. t \in Twice(k) => t \in Twice(k)'
            BY <1>3, <2>5, <3>1 DEF Twice, Left, Idle
        <3>4. a <= a1 /\ b <= b1
            BY <1>5, <2>1, <3>2, <3>3, TaskSets
        <3>. HIDE DEF a, b, a1, b1
        <3>5. log[k] <= MaxTransitions + a1 + b1 + 2 * left'[k]
            BY <2>2, <2>3, <3>4
        <3>. QED BY <2>3, <3>5 DEF a1, b1
    <2>. QED BY <2>4, <2>5
<1>. QED BY <1>6, <1>7, <1>8

-----------------------------------------------------------------------------
\* To begin with nothing is stored and nothing is under way.
LEMMA InitInv ==
    Init => RSInv
<1>. SUFFICES ASSUME Init
              PROVE  RSInv
    OBVIOUS
<1>1. RSTypeOK
    BY DEF Init, RSTypeOK, Idle, NoSweep
<1>2. CommandFits
    BY DEF Init, CommandFits, Idle
<1>3. SweepsCover
    BY DEF Init, SweepsCover, SweepCovers, NoSweep
<1>4. ASSUME NEW k \in Keys
      PROVE  log[k] <= MaxTransitions + Cardinality(Once(k)) + Cardinality(Twice(k)) + 2 * left[k]
    <2>1. Once(k) \in SUBSET Tasks /\ Twice(k) \in SUBSET Tasks
        BY DEF Once, Twice
    <2>2. Cardinality(Once(k)) \in Nat /\ Cardinality(Twice(k)) \in Nat
        BY <2>1, TaskSets
    <2>3. log[k] = 0 /\ left[k] = 0 /\ MaxTransitions \in Nat
        BY RemoteAssumption DEF Init
    <2>. QED BY <2>2, <2>3
<1>. QED BY <1>1, <1>2, <1>3, <1>4 DEF RSInv, Accounted

\* Every step, and every stutter, keeps the invariant.
LEMMA NextInv ==
    RSInv /\ [Next]_rsVars => RSInv'
<1>. SUFFICES ASSUME RSInv, [Next]_rsVars
              PROVE  RSInv'
    OBVIOUS
<1>0. RSTypeOK /\ CommandFits /\ SweepsCover /\ Accounted
    BY DEF RSInv
<1>1. ASSUME NEW t \in Tasks, TaskStep(t)
      PROVE  RSInv'
    <2>1. task' \in [Tasks -> TaskStates]
        BY <1>0, <1>1, TaskStepTasks DEF RSTypeOK, TaskStates
    <2>2. RSTypeOK'
        BY <1>0, <1>1, <2>1, TaskStepStores DEF RSTypeOK, TaskStates
    <2>3. CommandFits'
        BY <1>0, <1>1, CommandsFit
    <2>4. SweepsCover'
        <3>1. sweep' = sweep /\ records \subseteq records'
            BY <1>0, <1>1, TaskStepStores
        <3>. QED BY <1>0, <3>1 DEF SweepsCover, SweepCovers
    <2>5. Accounted'
        BY <1>0, <1>1, AccountedStep
    <2>. QED BY <2>2, <2>3, <2>4, <2>5 DEF RSInv
<1>2. ASSUME \/ \E i \in Sweepers : Sweep(i) \/ SweepFails(i)
             \/ \E record \in records : Expire(record)
      PROVE  RSInv'
    <2>1. /\ UNCHANGED <<left, detached, fallback, task>>
          /\ records' \subseteq Records
          /\ log' \in [Keys -> Nat]
          /\ \A k \in Keys : log'[k] <= log[k]
        BY <1>0, <1>2, OtherStepEffect
    <2>2. sweep' \in [Instances -> SweepStates] /\ SweepsCover'
        BY <1>0, <1>2, SweepStep, ExpireStep
    <2>3. RSTypeOK'
        BY <1>0, <2>1, <2>2 DEF RSTypeOK, SweepStates
    <2>4. CommandFits'
        BY <1>0, <2>1 DEF CommandFits
    <2>5. \A k \in Keys : Once(k)' = Once(k) /\ Twice(k)' = Twice(k)
        BY <2>1 DEF Once, Twice, Left, Appending
    <2>6. Accounted'
        <3>1. /\ left' = left /\ left' \in [Keys -> Nat]
              /\ \A k \in Keys : left'[k] >= left[k]
            BY <1>0, <2>1 DEF RSTypeOK
        <3>. QED BY <1>0, <2>1, <2>5, <3>1, SharesGrow
    <2>. QED BY <2>2, <2>3, <2>4, <2>6 DEF RSInv
<1>3. ASSUME UNCHANGED rsVars
      PROVE  RSInv'
    BY <1>0, <1>3 DEF rsVars, RSInv, RSTypeOK, CommandFits, SweepsCover, SweepCovers,
                      Accounted, Once, Twice, Left, Appending
<1>. QED BY <1>1, <1>2, <1>3, NextCases

\* The invariant holds whatever the number of instances, tasks and keys.
THEOREM RemoteInvariant == Spec => []RSInv
    BY InitInv, NextInv, PTL DEF Spec

\* Calls, commands and sweeps stay within their types.
THEOREM RemoteTypes == Spec => []RSTypeOK
<1>1. RSInv => RSTypeOK
    BY DEF RSInv
<1>. QED BY <1>1, RemoteInvariant, PTL

\* Reconciliation never deletes the quota record or the transitions of a key
\* that has been stored since it began.
THEOREM SweepIsSafe == Spec => []SweepSparesKeys
<1>1. RSInv => SweepSparesKeys
    BY DEF RSInv, SweepsCover, SweepCovers, SweepSparesKeys
<1>. QED BY <1>1, RemoteInvariant, PTL

\* A list of transitions outgrows max_transitions by two entries per task at
\* most and by two per call given up since it was last trimmed, wherever
\* connections break and tasks are cancelled.
THEOREM LogIsBounded == Spec => []LogBounded
<1>1. ASSUME RSInv, NEW k \in Keys
      PROVE  log[k] <= MaxTransitions + 2 * Cardinality(Tasks) + 2 * left[k]
    <2>. DEFINE a == Cardinality(Once(k))
                b == Cardinality(Twice(k))
                n == Cardinality(Tasks)
    <2>1. Once(k) \in SUBSET Tasks /\ Twice(k) \in SUBSET Tasks
        BY DEF Once, Twice
    <2>2. a \in Nat /\ b \in Nat /\ n \in Nat /\ a <= n /\ b <= n
        BY <2>1, TaskSets
    <2>3. /\ log[k] \in Nat /\ MaxTransitions \in Nat /\ left[k] \in Nat
          /\ log[k] <= MaxTransitions + a + b + 2 * left[k]
        BY <1>1, RemoteAssumption DEF RSInv, RSTypeOK, Accounted
    <2>. HIDE DEF a, b, n
    <2>4. log[k] <= MaxTransitions + 2 * n + 2 * left[k]
        BY <2>2, <2>3
    <2>. QED BY <2>4 DEF n
<1>2. RSInv => LogBounded
    BY <1>1 DEF LogBounded
<1>. QED BY <1>2, RemoteInvariant, PTL

\* A task that has saved something ends its call only when the data is in Redis
\* or in the store of its own instance.
LEMMA SaveEnds ==
    ASSUME NEW t \in Tasks, RSTypeOK, CommandFits, Next,
           Busy(t), task'[t] = Idle, ~Abandon(t), task[t].call \in Saves
    PROVE  \/ task[t].call \in fallback'[At[t]]
           \/ task[t].pc = "executed" /\ task[t].command \in {"set", "trim"}
<1>1. /\ task \in [Tasks -> TaskStates] /\ task[t] \in TaskStates
      /\ fallback \in [Instances -> SUBSET Saves] /\ At[t] \in Instances
    BY RemoteAssumption DEF RSTypeOK, TaskStates
<1>2. PICK u \in Tasks : TaskStep(u)
    BY <1>1, NextCases, OtherStepEffect DEF Busy
<1>3. u = t
    BY <1>1, <1>2, TaskStepTasks DEF Busy
<1>4. UseFallback(t, task[t].call) => task[t].call \in fallback'[At[t]]
    BY <1>1 DEF UseFallback
<1>5. CASE Request(t)
    BY <1>5, RequestEffect DEF Busy
<1>6. CASE Pinged(t)
    BY <1>1, <1>4, <1>6 DEF Pinged, Send, Idle
<1>7. CASE PingFails(t) \/ Break(t)
    BY <1>4, <1>7 DEF PingFails, Break
<1>8. CASE Execute(t) \/ Resend(t)
    BY <1>1, <1>8 DEF Execute, Resend, Idle
<1>9. CASE Answer(t)
    <2>1. /\ task[t].pc = "executed"
          /\ task[t].command # "push"
        BY <1>1, <1>9 DEF Answer, Send, Idle
    <2>2. /\ task[t].command \in {"set", "push", "trim", "get"}
          /\ task[t].command # "get"
        BY <1>1, <2>1, TaskFields DEF CommandFits
    <2>. QED BY <2>1, <2>2
<1>. QED BY <1>2, <1>3, <1>5, <1>6, <1>7, <1>8, <1>9 DEF TaskStep

\* No save is lost between Redis and the fallback store.
THEOREM NothingIsDropped == Spec => NothingDropped
<1>. DEFINE Kept ==
        \A t \in Tasks :
            (Busy(t) /\ task'[t] = Idle /\ ~Abandon(t) /\ task[t].call \in Saves) =>
                \/ task[t].call \in fallback'[At[t]]
                \/ task[t].pc = "executed" /\ task[t].command \in {"set", "trim"}
<1>1. RSInv /\ [Next]_rsVars => [Kept]_rsVars
    BY SaveEnds DEF RSInv
<1>2. Spec => [][Next]_rsVars
    BY PTL DEF Spec
<1>3. Spec => [][Kept]_rsVars
    BY <1>1, <1>2, RemoteInvariant, PTL
<1>. QED BY <1>3 DEF NothingDropped

\* A step that sends the first command of a call finds the instance attached.
LEMMA FirstSend ==
    ASSUME NEW t \in Tasks, RSTypeOK, Next,
           At[t] \in detached, task[t].pc \notin {"sent", "executed"}
    PROVE  task'[t].pc # "sent"
<1>1. task \in [Tasks -> TaskStates] /\ task[t] \in TaskStates
    BY DEF RSTypeOK, TaskStates
<1>2. CASE task'[t] = task[t]
    BY <1>2
<1>3. CASE task'[t] # task[t]
    <2>1. PICK u \in Tasks : TaskStep(u)
        BY <1>3, NextCases, OtherStepEffect
    <2>2. u = t
        BY <1>1, <1>3, <2>1, TaskStepTasks
    <2>3. CASE Request(t)
        BY <1>1, <2>3, RequestEffect DEF UseFallback, Idle
    <2>4. CASE Pinged(t) \/ PingFails(t) \/ Abandon(t)
        BY <1>1, <2>4 DEF Pinged, PingFails, Abandon, UseFallback, Idle
    <2>5. CASE Execute(t) \/ Resend(t) \/ Answer(t) \/ Break(t)
        BY <2>5 DEF Execute, Resend, Answer, Break
    <2>. QED BY <2>1, <2>2, <2>3, <2>4, <2>5 DEF TaskStep
<1>. QED BY <1>2, <1>3

\* An instance that has left Redis begins no call there any more.
THEOREM LeftForGood == Spec => NoneGoesBack
<1>. DEFINE Away ==
        \A t \in Tasks :
            (At[t] \in detached /\ task[t].pc \notin {"sent", "executed"})
                => task'[t].pc # "sent"
<1>1. RSInv /\ [Next]_rsVars => [Away]_rsVars
    BY FirstSend DEF RSInv
<1>2. Spec => [][Next]_rsVars
    BY PTL DEF Spec
<1>3. Spec => [][Away]_rsVars
    BY <1>1, <1>2, RemoteInvariant, PTL
<1>. QED BY <1>3 DEF NoneGoesBack
=============================================================================
