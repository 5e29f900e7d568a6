---------------------------- MODULE FileWatcher ----------------------------
(***************************************************************************)
(* ConfigurationFileWatcher and its event handler                          *)
(* (infrastructure/config/file_watcher.py), from one start to its stop: an *)
(* observer thread that queues _debounced_reload coroutines, and an event  *)
(* loop that runs them together with the reload task they cancel and       *)
(* create.                                                                 *)
(*                                                                         *)
(* _reload_lock is a threading.Lock, and _debounced_reload awaits the task *)
(* it cancelled while holding it.  A coroutine that meets the lock held    *)
(* blocks the thread of the event loop, and with it the holder.            *)
(*                                                                         *)
(* start() may be called with or without a running event loop (looped).    *)
(* Without one the handler has no loop to hand its coroutines to and drops *)
(* every event.  A loop that was running goes on running.                  *)
(*                                                                         *)
(* The reload task is suspended in its sleep, and afterwards only where    *)
(* the manager makes it wait (its lock, the emission of an event).         *)
(***************************************************************************)
EXTENDS Naturals

CONSTANTS
    MaxChanges,  \* bound: modifications of the file
    MaxEvents    \* bound: events that one modification causes

ASSUME FileWatcherAssumption == MaxChanges \in Nat /\ MaxEvents \in Nat \ {0}

VARIABLES
    looped,    \* start found a running loop: _event_loop is set
    watching,  \* the observer is alive
    changes,   \* how often the file was modified
    noticed,   \* the last modification made while watching (history variable)
    queued,    \* _debounced_reload coroutines that have not started
    holding,   \* one is suspended in its await, holding _reload_lock
    task,      \* _reload_task
    seen,      \* the modification that the last reload read
    loop       \* the event loop's thread: "running", or "blocked" on the lock

fwVars == <<looped, watching, changes, noticed, queued, holding, task, seen, loop>>

FWInit ==
    /\ looped \in BOOLEAN
    /\ watching = TRUE
    /\ changes = 0
    /\ noticed = 0
    /\ queued = 0
    /\ holding = FALSE
    /\ task = "none"
    /\ seen = 0
    /\ loop = "running"

\* The file is written; on_modified schedules a coroutine for each event, if it
\* has a loop: asyncio.get_event_loop raises in the observer thread.
Modify ==
    /\ changes < MaxChanges
    /\ changes' = changes + 1
    /\ noticed' = IF watching THEN changes + 1 ELSE noticed
    /\ IF watching /\ looped
       THEN \E n \in 1..MaxEvents : queued' = queued + n
       ELSE UNCHANGED queued
    /\ UNCHANGED <<looped, watching, holding, task, seen, loop>>

\* stop is called from the event loop; what is queued still runs.
Stop ==
    /\ watching /\ loop = "running"
    /\ watching' = FALSE
    /\ UNCHANGED <<looped, changes, noticed, queued, holding, task, seen, loop>>

Pending == task \in {"sleeping", "reloading"}

\* Mutant of StartReload: a pending task is cancelled and none is created.
StartReloadOnce ==
    /\ loop = "running" /\ queued > 0 /\ ~holding
    /\ queued' = queued - 1
    /\ task' = IF Pending THEN "cancelling" ELSE "sleeping"
    /\ UNCHANGED <<looped, watching, changes, noticed, holding, seen, loop>>

\* _debounced_reload with the lock free: create the task, or cancel the pending
\* one and wait for it.
StartReload ==
    /\ loop = "running" /\ queued > 0 /\ ~holding
    /\ queued' = queued - 1
    /\ task' = IF Pending THEN "cancelling" ELSE "sleeping"
    /\ holding' = Pending
    /\ UNCHANGED <<looped, watching, changes, noticed, seen, loop>>

\* _debounced_reload with the lock held: acquire never returns.
BlockLoop ==
    /\ loop = "running" /\ queued > 0 /\ holding
    /\ loop' = "blocked"
    /\ UNCHANGED <<looped, watching, changes, noticed, queued, holding, task, seen>>

\* The cancellation reaches the task at its suspension point.
Cancelled ==
    /\ loop = "running" /\ task = "cancelling"
    /\ task' = "done"
    /\ UNCHANGED <<looped, watching, changes, noticed, queued, holding, seen, loop>>

\* Mutant of ResumeReload: the lock is not released.
ResumeReloadHolding ==
    /\ loop = "running" /\ holding /\ task = "done"
    /\ task' = "sleeping"
    /\ UNCHANGED <<looped, watching, changes, noticed, queued, holding, seen, loop>>

\* The coroutine that waited creates the new task and releases the lock.
ResumeReload ==
    /\ loop = "running" /\ holding /\ task = "done"
    /\ task' = "sleeping"
    /\ holding' = FALSE
    /\ UNCHANGED <<looped, watching, changes, noticed, queued, seen, loop>>

\* The debounce delay is over and the manager makes the task wait.
DelayOver ==
    /\ loop = "running" /\ task = "sleeping"
    /\ task' = "reloading"
    /\ UNCHANGED <<looped, watching, changes, noticed, queued, holding, seen, loop>>

\* reload_configuration reads the file; its errors are logged.
Reload ==
    /\ loop = "running" /\ Pending
    /\ task' = "done"
    /\ seen' = changes
    /\ UNCHANGED <<looped, watching, changes, noticed, queued, holding, loop>>

LoopStep == StartReload \/ BlockLoop \/ Cancelled \/ ResumeReload \/ DelayOver \/ Reload

FWNext == Modify \/ Stop \/ LoopStep

FWSpec == FWInit /\ [][FWNext]_fwVars

\* The event loop runs whatever is ready and timers fire; nobody has to write
\* the file or stop the watcher.
FWFairSpec ==
    /\ FWSpec
    /\ WF_fwVars(StartReload \/ BlockLoop)
    /\ WF_fwVars(Cancelled \/ ResumeReload)
    /\ WF_fwVars(DelayOver \/ Reload)

-----------------------------------------------------------------------------
\* Type invariant.  The lock is held across a suspension only while the task
\* that was cancelled ends.
FWTypeOK ==
    /\ looped \in BOOLEAN
    /\ watching \in BOOLEAN
    /\ changes \in 0..MaxChanges
    /\ noticed \in 0..changes
    /\ seen \in 0..changes
    /\ queued \in Nat
    /\ holding \in BOOLEAN
    /\ task \in {"none", "sleeping", "reloading", "cancelling", "done"}
    /\ loop \in {"running", "blocked"}
    /\ task = "cancelling" => holding
    /\ holding => task \in {"cancelling", "done"}
    /\ loop = "blocked" => holding

\* No modification is forgotten by a watcher that has a loop: as long as one that
\* was made while watching has not been read, a coroutine or a task that will
\* read it is under way.
NoChangeForgotten ==
    looped /\ noticed > seen => queued > 0 \/ holding \/ Pending

\* Unless the loop blocks, the last modification made while watching is read,
\* however the coroutines cancel each other's tasks.
LatestChangeIsReadOrBlocked ==
    looped /\ noticed > seen ~> (seen >= noticed \/ loop = "blocked")
=============================================================================
