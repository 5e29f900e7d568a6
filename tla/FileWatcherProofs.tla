------------------------- MODULE FileWatcherProofs -------------------------
(***************************************************************************)
(* Proofs about FileWatcher for any number of modifications and of events  *)
(* a modification causes.                                                  *)
(*                                                                         *)
(*   WatcherTypes         types, and when the lock may be held             *)
(*   NothingIsForgotten   if start found a running loop, a modification     *)
(*                        that was noticed and not read has a coroutine or *)
(*                        a task that will read it                         *)
(*   BlockNeedsThree      the event loop blocks only after three events    *)
(***************************************************************************)
EXTENDS FileWatcher, TLAPS

LEMMA WatcherInit == FWInit => FWTypeOK
  <1> SUFFICES ASSUME FWInit
               PROVE  FWTypeOK
    OBVIOUS
  <1>1. changes \in 0..MaxChanges /\ noticed \in 0..changes /\ seen \in 0..changes
    BY FileWatcherAssumption DEF FWInit
  <1>2. QED
    BY <1>1 DEF FWInit, FWTypeOK

\* The lock is taken when a pending task is cancelled and given back when the
\* next one is created; a reload never runs in between.
LEMMA WatcherStep == FWTypeOK /\ [FWNext]_fwVars => FWTypeOK'
  <1> SUFFICES ASSUME FWTypeOK, [FWNext]_fwVars
               PROVE  FWTypeOK'
    OBVIOUS
  <1> USE FileWatcherAssumption
  <1>1. CASE Modify
    <2>1. changes \in Nat /\ changes' = changes + 1 /\ changes' \in 0..MaxChanges
      BY <1>1 DEF Modify, FWTypeOK
    <2>2. queued' \in Nat
      BY <1>1 DEF Modify, FWTypeOK
    <2>3. noticed' \in 0..changes' /\ seen' \in 0..changes'
      <3>1. noticed \in 0..changes /\ seen \in 0..changes
        BY DEF FWTypeOK
      <3>2. seen' = seen /\ noticed' \in {noticed, changes + 1}
        BY <1>1 DEF Modify
      <3>3. QED
        BY <2>1, <3>1, <3>2
    <2>4. UNCHANGED <<looped, watching, holding, task, loop>>
      BY <1>1 DEF Modify
    <2>5. QED
      BY <2>1, <2>2, <2>3, <2>4 DEF FWTypeOK
  <1>2. CASE Stop
    BY <1>2 DEF Stop, FWTypeOK
  <1>3. CASE StartReload
    <2>1. queued' \in Nat
      BY <1>3 DEF StartReload, FWTypeOK
    <2>2. UNCHANGED <<looped, watching, changes, noticed, seen, loop>> /\ loop = "running"
      BY <1>3 DEF StartReload
    <2>3. CASE Pending
      <3>1. holding' = TRUE /\ task' = "cancelling"
        BY <1>3, <2>3 DEF StartReload
      <3>2. QED
        BY <2>1, <2>2, <3>1 DEF FWTypeOK
    <2>4. CASE ~Pending
      <3>1. holding' = FALSE /\ task' = "sleeping"
        BY <1>3, <2>4 DEF StartReload
      <3>2. QED
        BY <2>1, <2>2, <3>1 DEF FWTypeOK
    <2>5. QED
      BY <2>3, <2>4
  <1>4. CASE BlockLoop
    BY <1>4 DEF BlockLoop, FWTypeOK
  <1>5. CASE Cancelled
    BY <1>5 DEF Cancelled, FWTypeOK
  <1>6. CASE ResumeReload
    BY <1>6 DEF ResumeReload, FWTypeOK
  <1>7. CASE DelayOver
    BY <1>7 DEF DelayOver, FWTypeOK
  <1>8. CASE Reload
    BY <1>8 DEF Reload, Pending, FWTypeOK
  <1>9. CASE UNCHANGED fwVars
    BY <1>9 DEF fwVars, FWTypeOK
  <1>10. QED
    BY <1>1, <1>2, <1>3, <1>4, <1>5, <1>6, <1>7, <1>8, <1>9 DEF FWNext, LoopStep

\* FWSpec keeps FWTypeOK: whoever waits for a cancelled task holds the lock.
THEOREM WatcherTypes == FWSpec => []FWTypeOK
  BY WatcherInit, WatcherStep, PTL DEF FWSpec

-----------------------------------------------------------------------------
\* Cancelling a task takes a coroutine from the queue, and that coroutine leaves
\* either a new task or the lock behind.
LEMMA ForgottenStep == FWTypeOK /\ NoChangeForgotten /\ [FWNext]_fwVars => NoChangeForgotten'
  <1> SUFFICES ASSUME FWTypeOK, NoChangeForgotten, [FWNext]_fwVars,
                      looped', (noticed > seen)'
               PROVE  (queued > 0 \/ holding \/ Pending)'
    BY DEF NoChangeForgotten
  <1>0. looped
    BY DEF FWNext, LoopStep, Modify, Stop, StartReload, BlockLoop, Cancelled, ResumeReload,
           DelayOver, Reload, fwVars
  <1>1. CASE Modify
    <2>1. CASE watching
      <3>1. PICK n \in 1..MaxEvents : queued' = queued + n
        BY <1>0, <1>1, <2>1 DEF Modify
      <3>2. QED
        BY <3>1, FileWatcherAssumption DEF FWTypeOK
    <2>2. CASE ~watching
      BY <1>0, <1>1, <2>2 DEF Modify, NoChangeForgotten, Pending
    <2>3. QED
      BY <2>1, <2>2
  <1>2. CASE Stop \/ BlockLoop \/ DelayOver \/ UNCHANGED fwVars
    BY <1>0, <1>2 DEF Stop, BlockLoop, DelayOver, fwVars, NoChangeForgotten, Pending
  <1>3. CASE StartReload \/ ResumeReload
    BY <1>3 DEF StartReload, ResumeReload, Pending
  <1>4. CASE Cancelled
    BY <1>4 DEF Cancelled, FWTypeOK
  <1>5. CASE Reload
    BY <1>5 DEF Reload, FWTypeOK
  <1>6. QED
    BY <1>1, <1>2, <1>3, <1>4, <1>5 DEF FWNext, LoopStep

\* However events, cancellations and reloads interleave, a modification noticed
\* by a watcher that has a loop, and not yet read, is still on its way.
THEOREM NothingIsForgotten == FWSpec => []NoChangeForgotten
  <1>1. FWInit => NoChangeForgotten
    BY DEF FWInit, NoChangeForgotten
  <1>2. QED
    BY <1>1, ForgottenStep, WatcherTypes, PTL DEF FWSpec

-----------------------------------------------------------------------------
\* The event loop blocks only after three events: one whose coroutine created a
\* task, one whose coroutine cancelled that task and waits, and one more.
BlockedByThird == loop = "blocked" => MaxEvents * changes >= 3

\* Coroutines that have started and whose effect is still there: the one that
\* created the task, and the one that holds the lock.
Started == (IF task = "none" THEN 0 ELSE 1) + (IF holding THEN 1 ELSE 0)

\* Each coroutine, queued or started, is due to an event of its own.
EventsAccount ==
    /\ queued + Started <= MaxEvents * changes
    /\ loop = "blocked" => queued > 0

LEMMA EventsStep == FWTypeOK /\ EventsAccount /\ [FWNext]_fwVars => EventsAccount'
  <1> SUFFICES ASSUME FWTypeOK, EventsAccount, [FWNext]_fwVars
               PROVE  EventsAccount'
    OBVIOUS
  <1> DEFINE events == MaxEvents * changes
  <1>1. /\ queued \in Nat /\ Started \in Nat /\ events \in Nat /\ changes \in Nat
        /\ queued + Started <= events
    BY FileWatcherAssumption DEF FWTypeOK, EventsAccount, Started
  <1>2. CASE Modify
    <2>1. Started' = Started /\ loop' = loop
      BY <1>2 DEF Modify, Started
    <2>2. MaxEvents * changes' = events + MaxEvents
      BY <1>1, <1>2, FileWatcherAssumption DEF Modify
    <2>3. queued' \in Nat /\ queued <= queued' /\ queued' <= queued + MaxEvents
      BY <1>1, <1>2, FileWatcherAssumption DEF Modify
    <2> HIDE DEF events
    <2>4. QED
      BY <1>1, <2>1, <2>2, <2>3, FileWatcherAssumption DEF EventsAccount
  <1>3. CASE StartReload
    <2>1. /\ queued' = queued - 1 /\ changes' = changes /\ loop' = "running"
          /\ Started' <= Started + 1 /\ Started' \in Nat
      BY <1>3 DEF StartReload, Pending, FWTypeOK, Started
    <2> HIDE DEF events
    <2>2. MaxEvents * changes' = events
      BY <2>1 DEF events
    <2>3. QED
      BY <1>1, <2>1, <2>2 DEF EventsAccount
  <1>4. CASE ResumeReload \/ Cancelled \/ DelayOver \/ Reload
    <2>1. UNCHANGED <<queued, changes>> /\ loop' = "running"
      BY <1>4 DEF ResumeReload, Cancelled, DelayOver, Reload
    <2>2. Started' \in Nat /\ Started' <= Started
      BY <1>4 DEF ResumeReload, Cancelled, DelayOver, Reload, Pending, FWTypeOK, Started
    <2>3. MaxEvents * changes' = events
      BY <2>1
    <2> HIDE DEF events
    <2>4. QED
      BY <1>1, <2>1, <2>2, <2>3 DEF EventsAccount
  <1>5. CASE Stop \/ BlockLoop \/ UNCHANGED fwVars
    BY <1>5 DEF Stop, BlockLoop, fwVars, EventsAccount, Started
  <1>6. QED
    BY <1>2, <1>3, <1>4, <1>5 DEF FWNext, LoopStep

\* A single save of the file that causes at most two events cannot block the
\* event loop, however its coroutines and the reload interleave.
THEOREM BlockNeedsThree == FWSpec => []BlockedByThird
  <1>1. FWInit => EventsAccount
    BY FileWatcherAssumption DEF FWInit, EventsAccount, Started
  <1>2. FWTypeOK /\ EventsAccount => BlockedByThird
    BY FileWatcherAssumption DEF FWTypeOK, EventsAccount, BlockedByThird, Started
  <1>3. QED
    BY <1>1, <1>2, EventsStep, WatcherTypes, PTL DEF FWSpec
=============================================================================
