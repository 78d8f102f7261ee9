---------------------------- MODULE TaskManager ----------------------------
(***************************************************************************)
(* The download queue of the engine: TaskManager in manager.rs, for the    *)
(* kinds of task that run in a worker of their own (every kind except      *)
(* Torrent).                                                               *)
(*                                                                         *)
(* Callers (RPC handlers, GUI commands) and the one-second progress tick   *)
(* run their operations concurrently.  A step here is what an operation    *)
(* does between two awaits, usually under one guard of the task list.      *)
(* try_start_next turns Waiting tasks into Active ones and spawns a worker *)
(* for each; a worker is known by its epoch, first in starting_workers and *)
(* then in active_downloads, until it has written its result.              *)
(***************************************************************************)
EXTENDS Naturals, Sequences, FiniteSets, QueueOrder

CONSTANTS
    Gids,         \* task ids
    Clients,      \* concurrent callers
    Tick,         \* the progress tick, update_progress
    None,         \* "no value" of the optional fields
    Epochs,       \* worker epochs; they are only compared for equality, so
                  \* one that nobody refers to any more is as good as a new one
    Sessions,     \* what the session file may hold: the list, the status of
                  \* its tasks, and a bound on the calls that follow
    Limits,       \* values of max-concurrent-downloads
    MaxStopped,   \* MAX_STOPPED_RESULTS
    Ops,          \* the operations callers use
    Timeouts,     \* whether a worker may outlive WORKER_EXIT_TIMEOUT
    Disconnects   \* whether a caller may go away in the middle of a call

Procs == Clients \cup {Tick}

Status == {"Active", "Waiting", "Paused", "Scheduled", "Complete", "Error", "Removed"}
Stopped == {"Complete", "Error", "Removed"}     \* TaskStatus::is_stopped

ASSUME ListAssumption ==
    \A s \in Sessions :
        /\ s.order \in Seq(Gids) /\ NoRepeats(s.order)
        /\ s.status \in [Gids -> Status \ {"Active", "Removed"}]     \* SessionManager::load
        /\ s.calls \in Nat
ASSUME NoneAssumption == None \notin Gids /\ None \notin Procs /\ None \notin Epochs
ASSUME TickAssumption == Tick \notin Clients
ASSUME BoundAssumption ==
    /\ Epochs \subseteq Nat /\ IsFiniteSet(Epochs) /\ IsFiniteSet(Gids)
    /\ Limits \subseteq Nat /\ Limits # {}
    /\ MaxStopped \in Nat
    /\ Timeouts \in BOOLEAN /\ Disconnects \in BOOLEAN

VARIABLES
    \* tasks: the list and the fields of a task that steer the queue
    order,       \* the list itself
    status,      \* status of every gid, Absent outside the list
    startAt,     \* start_at against the clock: none, future, due, or late
                 \* (past GRACE_SECS)
    missed,      \* gids with schedule_missed set
    limit,       \* options: max-concurrent-downloads
    starting,    \* starting_workers: gid -> epoch
    active,      \* active_downloads: gid -> epoch
    updating,    \* updating_tasks
    lock,        \* holder of p2p_reload_lock
    down,        \* shutting_down
    \* the workers, by epoch
    wgid, wpc, wres,
    cancelled,   \* epochs whose token is cancelled
    \* the operations in progress, by process
    pc, arg, tok, todo, room,
    staged,      \* update_task's copy of start_at and schedule_missed
    calls        \* number of calls to come

taskVars   == <<order, status, startAt, missed>>
workerVars == <<wgid, wpc, wres, cancelled>>
procVars   == <<pc, arg, tok, todo, room, staged>>
regVars    == <<starting, active>>
vars == <<taskVars, limit, regVars, updating, lock, down, workerVars, procVars, calls>>

-----------------------------------------------------------------------------
Listed(g) == status[g] # "Absent"
Live(e) == wpc[e] # "none"
Busy == {g \in Gids : active[g] # None \/ starting[g] # None}
Before(h, g) == \E j \in 1..Len(order) : \E i \in 1..(j - 1) : order[i] = h /\ order[j] = g

(* worker_epoch_and_cancel looks into starting_workers first.              *)
Lookup(g) == IF starting[g] # None THEN starting[g] ELSE active[g]
Cancel(es) == cancelled' = cancelled \cup (es \ {None})

Goto(p, l) == pc' = [pc EXCEPT ![p] = l]
SetStatus(g, s) == status' = [status EXCEPT ![g] = s]

(* The operation returns: its locals go.                                   *)
Clear(f, p, v) == [f EXCEPT ![p] = v]
Return(p) ==
    /\ Goto(p, "idle")
    /\ arg' = Clear(arg, p, None) /\ tok' = Clear(tok, p, None)
    /\ todo' = Clear(todo, p, {}) /\ room' = Clear(room, p, 0)
    /\ staged' = Clear(staged, p, None)
KeepLocals == UNCHANGED <<arg, tok, todo, room, staged>>

Init ==
    /\ \E s \in Sessions :
          /\ order = s.order /\ calls = s.calls
          /\ status = [g \in Gids |-> IF \E i \in 1..Len(s.order) : s.order[i] = g
                                        THEN s.status[g] ELSE "Absent"]
    /\ startAt = [g \in Gids |-> IF status[g] = "Scheduled" THEN "future" ELSE "none"]
    /\ missed = {}
    /\ limit \in Limits
    /\ starting = [g \in Gids |-> None] /\ active = [g \in Gids |-> None]
    /\ updating = {} /\ lock = None /\ down = FALSE
    /\ wgid = [e \in Epochs |-> None] /\ wpc = [e \in Epochs |-> "none"]
    /\ wres = [e \in Epochs |-> None] /\ cancelled = {}
    /\ pc = [p \in Procs |-> "idle"] /\ arg = [p \in Procs |-> None]
    /\ tok = [p \in Procs |-> None] /\ todo = [p \in Procs |-> {}]
    /\ room = [p \in Procs |-> 0] /\ staged = [p \in Procs |-> None]

-----------------------------------------------------------------------------
(* try_start_next and reconcile_active_set, the tails of most operations.  *)

(* reconcile_active_set: Active tasks ranked past the limit, where the     *)
(* rank counts the Active and Waiting tasks in list order.                 *)
Queued(g) == status[g] \in {"Active", "Waiting"}
OverLimit == {g \in Gids : /\ status[g] = "Active"
                           /\ Cardinality({h \in Gids : Queued(h) /\ Before(h, g)}) >= limit}

Reconcile(p) ==
    /\ pc[p] = "reconcile"
    /\ todo' = [todo EXCEPT ![p] = OverLimit]
    /\ Goto(p, "preempt")
    /\ UNCHANGED <<taskVars, limit, regVars, updating, lock, down, workerVars,
                   arg, tok, room, staged, calls>>

(* preempt, for one gid after the other.                                   *)
Preempt(p, g) ==
    /\ pc[p] = "preempt" /\ g \in todo[p]
    /\ todo' = [todo EXCEPT ![p] = @ \ {g}]
    /\ IF status[g] = "Active"
         THEN /\ SetStatus(g, "Waiting")
              /\ arg' = [arg EXCEPT ![p] = g]
              /\ Goto(p, "preemptCancel")
         ELSE UNCHANGED <<status, arg, pc>>
    /\ UNCHANGED <<order, startAt, missed, limit, regVars, updating, lock, down,
                   workerVars, tok, room, staged, calls>>

(* Mutant: the preempted worker is not told.                               *)
PreemptSilently(p) ==
    /\ pc[p] = "preemptCancel"
    /\ Goto(p, "preempt")
    /\ KeepLocals
    /\ UNCHANGED <<taskVars, limit, regVars, updating, lock, down, workerVars, calls>>

(* Cancels what active_downloads holds for the gid by now.                 *)
PreemptCancel(p) ==
    /\ pc[p] = "preemptCancel"
    /\ Cancel({active[arg[p]]})
    /\ Goto(p, "preempt")
    /\ KeepLocals
    /\ UNCHANGED <<taskVars, limit, regVars, updating, lock, down, wgid, wpc, wres, calls>>

PreemptDone(p) ==
    /\ pc[p] = "preempt" /\ todo[p] = {}
    /\ Goto(p, "start")
    /\ KeepLocals
    /\ UNCHANGED <<taskVars, limit, regVars, updating, lock, down, workerVars, calls>>

(* Mutant: workers that are still starting do not count.                   *)
TryStartNextActiveOnly(p) ==
    /\ pc[p] = "start"
    /\ lock = None
    /\ LET n == Cardinality({g \in Gids : active[g] # None}) IN
         IF down \/ n >= limit
           THEN Return(p) /\ UNCHANGED lock
           ELSE /\ lock' = p
                /\ todo' = [todo EXCEPT ![p] = Busy]
                /\ room' = [room EXCEPT ![p] = limit - n]
                /\ Goto(p, "starting")
                /\ UNCHANGED <<arg, tok, staged>>
    /\ UNCHANGED <<taskVars, limit, regVars, updating, down, workerVars, calls>>

(* try_start_next: take p2p_reload_lock and snapshot the busy gids.  The   *)
(* read-only probe for a startable task that follows is part of StartNext: *)
(* when it fails there is nothing to start.                                *)
TryStartNext(p) ==
    /\ pc[p] = "start"
    /\ lock = None
    /\ IF down \/ Cardinality(Busy) >= limit
         THEN Return(p) /\ UNCHANGED lock
         ELSE /\ lock' = p
              /\ todo' = [todo EXCEPT ![p] = Busy]
              /\ room' = [room EXCEPT ![p] = limit - Cardinality(Busy)]
              /\ Goto(p, "starting")
              /\ UNCHANGED <<arg, tok, staged>>
    /\ UNCHANGED <<taskVars, limit, regVars, updating, down, workerVars, calls>>

(* Mutant: the snapshot of the busy gids is not consulted.                 *)
StartableBusy(busy) == {g \in Gids : status[g] = "Waiting" /\ g \notin updating}

(* The first tasks, in list order, that wait and that neither the snapshot *)
(* nor update_task holds back.                                             *)
Startable(busy) == {g \in Gids : status[g] = "Waiting" /\ g \notin busy /\ g \notin updating}
Started(busy, n) ==
    {g \in Startable(busy) : Cardinality({h \in Startable(busy) : Before(h, g)}) < n}

FreeEpochs == {e \in Epochs : ~Live(e) /\ \A p \in Procs : tok[p] # e}

(* next_worker_epoch for each started task, in list order: distinct        *)
(* epochs, and the smallest free ones.                                     *)
NewEpochs(S) ==
    {f \in [S -> FreeEpochs] :
        /\ \A g, h \in S : f[g] = f[h] => g = h
        /\ \A g, h \in S : Before(g, h) => f[g] < f[h]
        /\ \A g \in S : \A e \in FreeEpochs : e < f[g] => \E h \in S : f[h] = e}

(* The tasks become Active and their workers are published in              *)
(* starting_workers; the lock goes.                                        *)
StartNext(p) ==
    /\ pc[p] = "starting"
    /\ \E f \in NewEpochs(Started(todo[p], room[p])) :
          LET S == DOMAIN f
              W == {f[g] : g \in S}
          IN  /\ status' = [g \in Gids |-> IF g \in S THEN "Active" ELSE status[g]]
              /\ starting' = [g \in Gids |-> IF g \in S THEN f[g] ELSE starting[g]]
              /\ wpc' = [e \in Epochs |-> IF e \in W THEN "spawned" ELSE wpc[e]]
              /\ wgid' = [e \in Epochs |-> IF e \in W THEN CHOOSE g \in S : f[g] = e
                                                      ELSE wgid[e]]
    /\ lock' = None
    /\ Return(p)
    /\ UNCHANGED <<order, startAt, missed, limit, active, updating, down, wres,
                   cancelled, calls>>

-----------------------------------------------------------------------------
(* A worker: the tokio task that spawn_*_download starts.                  *)

(* Mutant: the worker leaves starting_workers first.                       *)
RegisterLate(e) ==
    /\ wpc[e] = "spawned"
    /\ starting' = [starting EXCEPT ![wgid[e]] = None]
    /\ wpc' = [wpc EXCEPT ![e] = "inserted"]
    /\ UNCHANGED <<taskVars, limit, active, updating, lock, down, wgid, wres,
                   cancelled, procVars, calls>>

(* register_active_download publishes the worker before it leaves          *)
(* starting_workers.                                                       *)
RegisterActive(e) ==
    /\ wpc[e] = "spawned"
    /\ active' = [active EXCEPT ![wgid[e]] = e]
    /\ wpc' = [wpc EXCEPT ![e] = "inserted"]
    /\ UNCHANGED <<taskVars, limit, starting, updating, lock, down, wgid, wres,
                   cancelled, procVars, calls>>

ClearStarting(e) ==
    /\ wpc[e] = "inserted"
    /\ starting' = [starting EXCEPT ![wgid[e]] = IF @ = e THEN None ELSE @]
    /\ wpc' = [wpc EXCEPT ![e] = "registered"]
    /\ UNCHANGED <<taskVars, limit, active, updating, lock, down, wgid, wres,
                   cancelled, procVars, calls>>

(* worker_startup_aborted: the task is not Active any more, or the token   *)
(* is cancelled (ed2k and the legacy P2P kinds do not look at the token).  *)
StartupAborted(e) ==
    /\ wpc[e] = "registered"
    /\ status[wgid[e]] # "Active" \/ e \in cancelled
    /\ Cancel({e})
    /\ wres' = [wres EXCEPT ![e] = "cancelled"]
    /\ wpc' = [wpc EXCEPT ![e] = "ended"]
    /\ UNCHANGED <<taskVars, limit, regVars, updating, lock, down, wgid, procVars, calls>>

(* Mutant: the status is not looked at again before the download starts.   *)
RunUnchecked(e) ==
    /\ wpc[e] = "registered"
    /\ wpc' = [wpc EXCEPT ![e] = "running"]
    /\ UNCHANGED <<taskVars, limit, regVars, updating, lock, down, wgid, wres,
                   cancelled, procVars, calls>>

Run(e) ==
    /\ wpc[e] = "registered"
    /\ status[wgid[e]] = "Active"
    /\ wpc' = [wpc EXCEPT ![e] = "running"]
    /\ UNCHANGED <<taskVars, limit, regVars, updating, lock, down, wgid, wres,
                   cancelled, procVars, calls>>

(* The download ends; only a cancelled one says "cancelled".               *)
RunEnds(e, r) ==
    /\ wpc[e] = "running"
    /\ r = "cancelled" => e \in cancelled
    /\ wres' = [wres EXCEPT ![e] = r]
    /\ wpc' = [wpc EXCEPT ![e] = "ended"]
    /\ UNCHANGED <<taskVars, limit, regVars, updating, lock, down, wgid, cancelled,
                   procVars, calls>>

(* finish_task and metalink_finish: is this still the registered worker?   *)
FinishCheck(e) ==
    /\ wpc[e] = "ended"
    /\ wpc' = [wpc EXCEPT ![e] = IF active[wgid[e]] = e THEN "current" ELSE "stale"]
    /\ UNCHANGED <<taskVars, limit, regVars, updating, lock, down, wgid, wres,
                   cancelled, procVars, calls>>

(* The status a result leads to; metalink_finish parks failures as Paused. *)
Outcomes(r) == CASE r = "ok"        -> {"Complete"}
                 [] r = "cancelled" -> {"Paused"}
                 [] OTHER           -> {"Error", "Paused"}

(* Mutant: a cancelled worker leaves the status to others.                 *)
FinishWriteNotCancelled(e, s) ==
    /\ wpc[e] \in {"current", "stale"}
    /\ s \in Outcomes(wres[e])
    /\ IF wpc[e] = "current" /\ status[wgid[e]] = "Active" /\ e \notin cancelled
         THEN SetStatus(wgid[e], s) ELSE UNCHANGED status
    /\ wpc' = [wpc EXCEPT ![e] = "written"]
    /\ UNCHANGED <<order, startAt, missed, limit, regVars, updating, lock, down,
                   wgid, wres, cancelled, procVars, calls>>

(* Mutant: the result is written whatever the status became.               *)
FinishWriteAnyway(e, s) ==
    /\ wpc[e] \in {"current", "stale"}
    /\ s \in Outcomes(wres[e])
    /\ IF wpc[e] = "current" /\ Listed(wgid[e])
         THEN SetStatus(wgid[e], s) ELSE UNCHANGED status
    /\ wpc' = [wpc EXCEPT ![e] = "written"]
    /\ UNCHANGED <<order, startAt, missed, limit, regVars, updating, lock, down,
                   wgid, wres, cancelled, procVars, calls>>

FinishWrite(e, s) ==
    /\ wpc[e] \in {"current", "stale"}
    /\ s \in Outcomes(wres[e])
    /\ IF wpc[e] = "current" /\ status[wgid[e]] = "Active"
         THEN SetStatus(wgid[e], s) ELSE UNCHANGED status
    /\ wpc' = [wpc EXCEPT ![e] = "written"]
    /\ UNCHANGED <<order, startAt, missed, limit, regVars, updating, lock, down,
                   wgid, wres, cancelled, procVars, calls>>

FinishRemove(e) ==
    /\ wpc[e] = "written"
    /\ active' = [active EXCEPT ![wgid[e]] = IF @ = e THEN None ELSE @]
    /\ wpc' = [wpc EXCEPT ![e] = "none"]
    /\ wgid' = [wgid EXCEPT ![e] = None]
    /\ wres' = [wres EXCEPT ![e] = None]
    /\ cancelled' = cancelled \ {e}
    /\ UNCHANGED <<taskVars, limit, starting, updating, lock, down, procVars, calls>>

WorkerStep(e) ==
    \/ RegisterActive(e) \/ ClearStarting(e) \/ StartupAborted(e) \/ Run(e)
    \/ \E r \in {"ok", "error", "cancelled"} : RunEnds(e, r)
    \/ FinishCheck(e) \/ FinishRemove(e)
    \/ \E s \in Stopped \cup {"Paused"} : FinishWrite(e, s)

-----------------------------------------------------------------------------
(* The operations of callers.                                              *)

Call(p, op) ==
    /\ p \in Clients /\ pc[p] = "idle"
    /\ op \in Ops /\ calls > 0
    /\ calls' = calls - 1

(* generate_gid: a gid nothing refers to.                                  *)
Unknown(g) ==
    /\ ~Listed(g) /\ g \notin Busy /\ g \notin updating
    /\ \A e \in Epochs : wgid[e] # g
    /\ \A p \in Procs : arg[p] # g /\ g \notin todo[p]

(* enqueue: Waiting, or Paused or Scheduled as the options ask.            *)
Enqueue(p, g, s) ==
    /\ Call(p, "add")
    /\ Unknown(g)
    /\ s \in {"Waiting", "Paused", "Scheduled"}
    /\ order' = Append(order, g)
    /\ SetStatus(g, s)
    /\ startAt' = [startAt EXCEPT ![g] = IF s = "Scheduled" THEN "future" ELSE "none"]
    /\ missed' = missed \ {g}
    /\ Goto(p, IF s = "Waiting" THEN "start" ELSE "idle")
    /\ KeepLocals
    /\ UNCHANGED <<limit, regVars, updating, lock, down, workerVars>>

(* pause and remove cancel first and write the status afterwards.          *)
PauseCancel(p, g) ==
    /\ \/ Call(p, "pause") /\ Goto(p, "pauseWrite")
       \/ Call(p, "remove") /\ Goto(p, "removeWrite")
    /\ Cancel({Lookup(g)})
    /\ arg' = [arg EXCEPT ![p] = g]
    /\ UNCHANGED <<taskVars, limit, regVars, updating, lock, down, wgid, wpc, wres,
                   tok, todo, room, staged>>

PauseWrite(p) ==
    /\ pc[p] = "pauseWrite"
    /\ IF Queued(arg[p]) THEN SetStatus(arg[p], "Paused") ELSE UNCHANGED status
    /\ Return(p)
    /\ UNCHANGED <<order, startAt, missed, limit, regVars, updating, lock, down,
                   workerVars, calls>>

RemoveWrite(p) ==
    /\ pc[p] = "removeWrite"
    /\ IF Listed(arg[p]) THEN SetStatus(arg[p], "Removed") ELSE UNCHANGED status
    /\ Return(p)
    /\ UNCHANGED <<order, startAt, missed, limit, regVars, updating, lock, down,
                   workerVars, calls>>

Unpause(p, g) ==
    /\ Call(p, "unpause")
    /\ status[g] \in {"Paused", "Error"}
    /\ SetStatus(g, "Waiting")
    /\ Goto(p, "start")
    /\ KeepLocals
    /\ UNCHANGED <<order, startAt, missed, limit, regVars, updating, lock, down, workerVars>>

(* pause_all writes every status, then cancels what is active and, last,   *)
(* what is starting.                                                       *)
PauseAll(p) ==
    /\ Call(p, "pauseAll")
    /\ status' = [g \in Gids |-> IF Queued(g) THEN "Paused" ELSE status[g]]
    /\ Goto(p, "cancelActive")
    /\ KeepLocals
    /\ UNCHANGED <<order, startAt, missed, limit, regVars, updating, lock, down, workerVars>>

CancelAllActive(p) ==
    /\ pc[p] = "cancelActive"
    /\ Cancel({active[g] : g \in Gids})
    /\ Goto(p, "cancelStarting")
    /\ KeepLocals
    /\ UNCHANGED <<taskVars, limit, regVars, updating, lock, down, wgid, wpc, wres, calls>>

CancelAllStarting(p) ==
    /\ pc[p] = "cancelStarting"
    /\ Cancel({starting[g] : g \in Gids})
    /\ Return(p)
    /\ UNCHANGED <<taskVars, limit, regVars, updating, lock, down, wgid, wpc, wres, calls>>

UnpauseAll(p) ==
    /\ Call(p, "unpauseAll")
    /\ status' = [g \in Gids |-> IF status[g] = "Paused" THEN "Waiting" ELSE status[g]]
    /\ Goto(p, "start")
    /\ KeepLocals
    /\ UNCHANGED <<order, startAt, missed, limit, regVars, updating, lock, down, workerVars>>

SetTaskSchedule(p, g) ==
    /\ Call(p, "schedule")
    /\ Listed(g) /\ status[g] \notin Stopped
    /\ SetStatus(g, "Scheduled")
    /\ startAt' = [startAt EXCEPT ![g] = "future"]
    /\ missed' = missed \ {g}
    /\ arg' = [arg EXCEPT ![p] = g]
    /\ Goto(p, "cancelOne")
    /\ UNCHANGED <<order, limit, regVars, updating, lock, down, workerVars, tok, todo,
                   room, staged>>

(* set_task_schedule then cancels the active worker and reconciles.        *)
ScheduleCancel(p) ==
    /\ pc[p] = "cancelOne"
    /\ Cancel({active[arg[p]]})
    /\ Goto(p, "reconcile")
    /\ KeepLocals
    /\ UNCHANGED <<taskVars, limit, regVars, updating, lock, down, wgid, wpc, wres, calls>>

StartTaskNow(p, g) ==
    /\ Call(p, "startNow")
    /\ status[g] = "Scheduled"
    /\ SetStatus(g, "Waiting")
    /\ startAt' = [startAt EXCEPT ![g] = "none"]
    /\ missed' = missed \ {g}
    /\ Goto(p, "reconcile")
    /\ KeepLocals
    /\ UNCHANGED <<order, limit, regVars, updating, lock, down, workerVars>>

Move(p, S, target, after) ==
    /\ Call(p, "move")
    /\ CanMove(order, S, target)
    /\ order' = MoveTasks(order, S, target, after)
    /\ Goto(p, "reconcile")
    /\ KeepLocals
    /\ UNCHANGED <<status, startAt, missed, limit, regVars, updating, lock, down, workerVars>>

(* change_position, among the waiting and paused tasks; it only reorders.  *)
Reposition(p, g, target) ==
    /\ Call(p, "position")
    /\ LET W == {h \in Gids : status[h] \in {"Waiting", "Paused"}} IN
         /\ g \in W /\ target < Cardinality(W)
         /\ order' = ChangePosition(order, W, g, target)
    /\ UNCHANGED <<status, startAt, missed, limit, regVars, updating, lock, down,
                   workerVars, procVars>>

(* retry_with_cookies asks nothing of the status.                          *)
RetryWithCookies(p, g) ==
    /\ Call(p, "retry")
    /\ Listed(g)
    /\ SetStatus(g, "Waiting")
    /\ arg' = [arg EXCEPT ![p] = g]
    /\ Goto(p, IF status[g] = "Active" THEN "retryCancel" ELSE "start")
    /\ UNCHANGED <<order, startAt, missed, limit, regVars, updating, lock, down,
                   workerVars, tok, todo, room, staged>>

RetryCancel(p) ==
    /\ pc[p] = "retryCancel"
    /\ Cancel({active[arg[p]]})
    /\ Goto(p, "start")
    /\ KeepLocals
    /\ UNCHANGED <<taskVars, limit, regVars, updating, lock, down, wgid, wpc, wres, calls>>

(* remove_download_result and purge_download_result.                       *)
Drop(S) ==
    /\ order' = Without(order, S)
    /\ status' = [g \in Gids |-> IF g \in S THEN "Absent" ELSE status[g]]
    /\ startAt' = [g \in Gids |-> IF g \in S THEN "none" ELSE startAt[g]]
    /\ missed' = missed \ S

PurgeResults(p, S) ==
    /\ Call(p, "purge")
    /\ \/ S = {g \in Gids : status[g] \in Stopped}
       \/ \E g \in Gids : status[g] \in Stopped /\ S = {g}
    /\ Drop(S)
    /\ UNCHANGED <<limit, regVars, updating, lock, down, workerVars, procVars>>

ChangeGlobalOption(p, n) ==
    /\ Call(p, "limit")
    /\ limit' = n
    /\ UNCHANGED <<taskVars, regVars, updating, lock, down, workerVars, procVars>>

-----------------------------------------------------------------------------
(* update_task.  An edit of an Active task that needs a restart of the     *)
(* worker waits for its exit; every other edit is written at once.         *)

(* The task is not Active: the edit leaves the fields modelled here alone, *)
(* and the partial file is moved, whatever a cancelled worker still does.  *)
(* (An edit of an Active task that needs no restart moves no file.)        *)
UpdateInPlace(p, g) ==
    /\ Call(p, "update")
    /\ status[g] \in {"Waiting", "Paused", "Scheduled", "Error"}
    /\ arg' = [arg EXCEPT ![p] = g]
    /\ Goto(p, "relocateOnly")
    /\ UNCHANGED <<taskVars, limit, regVars, updating, lock, down, workerVars, tok, todo,
                   room, staged>>

RelocatedOnly(p) ==
    /\ pc[p] = "relocateOnly"
    /\ Return(p)
    /\ UNCHANGED <<taskVars, limit, regVars, updating, lock, down, workerVars, calls>>

UpdateTask(p, g) ==
    /\ Call(p, "update")
    /\ status[g] = "Active"
    /\ updating' = updating \cup {g}
    /\ SetStatus(g, "Waiting")
    /\ staged' = [staged EXCEPT ![p] = [startAt |-> startAt[g], missed |-> g \in missed]]
    /\ arg' = [arg EXCEPT ![p] = g]
    /\ Goto(p, "updateCancel")
    /\ UNCHANGED <<order, startAt, missed, limit, regVars, lock, down, workerVars, tok,
                   todo, room>>

(* Mutant: the edit does not wait for the worker.                          *)
UpdateImpatient(p) ==
    /\ pc[p] = "updateCancel"
    /\ Cancel({Lookup(arg[p])})
    /\ Goto(p, "updateApply")
    /\ KeepLocals
    /\ UNCHANGED <<taskVars, limit, regVars, updating, lock, down, wgid, wpc, wres, calls>>

UpdateCancel(p) ==
    /\ pc[p] = "updateCancel"
    /\ LET e == Lookup(arg[p]) IN
         /\ Cancel({e})
         /\ tok' = [tok EXCEPT ![p] = e]
         /\ Goto(p, IF e = None THEN "updateApply" ELSE "exitActive")
    /\ UNCHANGED <<taskVars, limit, regVars, updating, lock, down, wgid, wpc, wres, arg,
                   todo, room, staged, calls>>

(* wait_for_worker_epoch_exit polls active_downloads, then                 *)
(* starting_workers; the worker may move from one to the other meanwhile.  *)
PollActive(p) ==
    /\ pc[p] = "exitActive"
    /\ active[arg[p]] # tok[p]
    /\ Goto(p, "exitStarting")
    /\ KeepLocals
    /\ UNCHANGED <<taskVars, limit, regVars, updating, lock, down, workerVars, calls>>

PollStarting(p) ==
    /\ pc[p] = "exitStarting"
    /\ Goto(p, IF starting[arg[p]] = tok[p] THEN "exitActive" ELSE "updateApply")
    /\ KeepLocals
    /\ UNCHANGED <<taskVars, limit, regVars, updating, lock, down, workerVars, calls>>

(* The deadline passes while the worker is still registered.               *)
ExitTimeout(p) ==
    /\ Timeouts
    /\ \/ pc[p] = "exitActive" /\ active[arg[p]] = tok[p]
       \/ pc[p] = "exitStarting" /\ starting[arg[p]] = tok[p]
    /\ Goto(p, "updateRestore")
    /\ KeepLocals
    /\ UNCHANGED <<taskVars, limit, regVars, updating, lock, down, workerVars, calls>>

(* The error path gives the status back; UpdatingGuard goes.               *)
UpdateRestore(p) ==
    /\ pc[p] = "updateRestore"
    /\ IF status[arg[p]] = "Waiting" THEN SetStatus(arg[p], "Active") ELSE UNCHANGED status
    /\ updating' = updating \ {arg[p]}
    /\ Return(p)
    /\ UNCHANGED <<order, startAt, missed, limit, regVars, lock, down, workerVars, calls>>

(* The staged copy replaces the task, except for its status; UpdatingGuard *)
(* goes before the partial file is moved.                                  *)
UpdateApply(p) ==
    /\ pc[p] = "updateApply"
    /\ LET g == arg[p] IN
         /\ startAt' = IF Listed(g) THEN [startAt EXCEPT ![g] = staged[p].startAt] ELSE startAt
         /\ missed' = IF Listed(g) /\ staged[p].missed THEN missed \cup {g} ELSE missed \ {g}
         /\ updating' = updating \ {g}
    /\ staged' = Clear(staged, p, None) /\ tok' = Clear(tok, p, None)
    /\ Goto(p, "relocate")
    /\ UNCHANGED <<order, status, limit, regVars, lock, down, workerVars, arg, todo, room,
                   calls>>

(* relocate_partial is done.                                               *)
Relocated(p) ==
    /\ pc[p] = "relocate"
    /\ Goto(p, "reconcile")
    /\ KeepLocals
    /\ UNCHANGED <<taskVars, limit, regVars, updating, lock, down, workerVars, calls>>

-----------------------------------------------------------------------------
(* shutdown, the tick, the clock, and callers that go away.                *)

Shutdown(p) ==
    /\ Call(p, "shutdown")
    /\ ~down
    /\ down' = TRUE
    /\ Goto(p, "shutActive")
    /\ KeepLocals
    /\ UNCHANGED <<taskVars, limit, regVars, updating, lock, workerVars>>

ShutdownCancelActive(p) ==
    /\ pc[p] = "shutActive"
    /\ Cancel({active[g] : g \in Gids})
    /\ Goto(p, "shutStarting")
    /\ KeepLocals
    /\ UNCHANGED <<taskVars, limit, regVars, updating, lock, down, wgid, wpc, wres, calls>>

ShutdownCancelStarting(p) ==
    /\ pc[p] = "shutStarting"
    /\ Cancel({starting[g] : g \in Gids})
    /\ Goto(p, "shutWait")
    /\ KeepLocals
    /\ UNCHANGED <<taskVars, limit, regVars, updating, lock, down, wgid, wpc, wres, calls>>

(* The registries are empty, or SHUTDOWN_WORKER_WAIT is over.              *)
ShutdownDone(p) ==
    /\ pc[p] = "shutWait"
    /\ Busy = {} \/ Timeouts
    /\ Goto(p, "closed")
    /\ KeepLocals
    /\ UNCHANGED <<taskVars, limit, regVars, updating, lock, down, workerVars, calls>>

(* update_progress starts with enforce_result_cap: the oldest stopped      *)
(* tasks past the cap are picked under the read lock ...                   *)
TickCap ==
    /\ pc[Tick] = "idle"
    /\ LET stopped == {g \in Gids : status[g] \in Stopped}
       IN  todo' = [todo EXCEPT ![Tick] =
                      {g \in stopped : Cardinality(stopped) - MaxStopped
                                         > Cardinality({h \in stopped : Before(h, g)})}]
    /\ Goto(Tick, "evict")
    /\ UNCHANGED <<taskVars, limit, regVars, updating, lock, down, workerVars, arg, tok,
                   room, staged, calls>>

(* Mutant: what was picked is dropped without another look.                *)
TickEvictBlindly ==
    /\ pc[Tick] = "evict"
    /\ Drop(todo[Tick])
    /\ todo' = [todo EXCEPT ![Tick] = {}]
    /\ Goto(Tick, "schedule")
    /\ UNCHANGED <<limit, regVars, updating, lock, down, workerVars, arg, tok, room,
                   staged, calls>>

(* ... and dropped under the write lock if they are still stopped.         *)
TickEvict ==
    /\ pc[Tick] = "evict"
    /\ Drop({g \in todo[Tick] : status[g] \in Stopped})
    /\ todo' = [todo EXCEPT ![Tick] = {}]
    /\ Goto(Tick, "schedule")
    /\ UNCHANGED <<limit, regVars, updating, lock, down, workerVars, arg, tok, room,
                   staged, calls>>

(* check_scheduled_tasks, unless there is no work at all.                  *)
Promoted == {g \in Gids : status[g] = "Scheduled" /\ g \notin missed /\ startAt[g] = "due"}

(* Mutant: scheduled tasks alone are no work.                              *)
TickScheduleQueuedOnly ==
    /\ pc[Tick] = "schedule"
    /\ IF \A g \in Gids : ~Queued(g)
         THEN Goto(Tick, "idle") /\ UNCHANGED taskVars
         ELSE /\ status' = [g \in Gids |-> IF g \in Promoted THEN "Waiting" ELSE status[g]]
              /\ startAt' = [g \in Gids |-> IF g \in Promoted THEN "none" ELSE startAt[g]]
              /\ missed' = missed \cup {g \in Gids : status[g] = "Scheduled" /\ startAt[g] = "late"}
              /\ Goto(Tick, "reconcile")
              /\ UNCHANGED order
    /\ KeepLocals
    /\ UNCHANGED <<limit, regVars, updating, lock, down, workerVars, calls>>

TickSchedule ==
    /\ pc[Tick] = "schedule"
    /\ IF \A g \in Gids : ~Queued(g) /\ status[g] # "Scheduled"
         THEN Goto(Tick, "idle") /\ UNCHANGED taskVars
         ELSE /\ status' = [g \in Gids |-> IF g \in Promoted THEN "Waiting" ELSE status[g]]
              /\ startAt' = [g \in Gids |-> IF g \in Promoted THEN "none" ELSE startAt[g]]
              /\ missed' = missed \cup {g \in Gids : status[g] = "Scheduled" /\ startAt[g] = "late"}
              /\ Goto(Tick, "reconcile")
              /\ UNCHANGED order
    /\ KeepLocals
    /\ UNCHANGED <<limit, regVars, updating, lock, down, workerVars, calls>>

TickStep == TickCap \/ TickEvict \/ TickSchedule

TimePasses(g) ==
    /\ startAt[g] \in {"future", "due"}
    /\ startAt' = [startAt EXCEPT ![g] = IF @ = "future" THEN "due" ELSE "late"]
    /\ UNCHANGED <<order, status, missed, limit, regVars, updating, lock, down, workerVars,
                   procVars, calls>>

(* The future of an RPC handler is dropped at an await: its guards go.     *)
Disconnect(p) ==
    /\ Disconnects
    /\ p \in Clients /\ pc[p] \notin {"idle", "closed", "shutActive", "shutStarting", "shutWait"}
    /\ lock' = IF lock = p THEN None ELSE lock
    /\ updating' = IF staged[p] # None THEN updating \ {arg[p]} ELSE updating
    /\ Return(p)
    /\ UNCHANGED <<taskVars, limit, regVars, down, workerVars, calls>>

-----------------------------------------------------------------------------
CallStart(p) ==
    \/ \E g \in Gids :
          \/ \E s \in Status : Enqueue(p, g, s)
          \/ PauseCancel(p, g) \/ Unpause(p, g) \/ SetTaskSchedule(p, g)
          \/ StartTaskNow(p, g) \/ RetryWithCookies(p, g) \/ UpdateTask(p, g)
          \/ UpdateInPlace(p, g)
    \/ \E S \in SUBSET Gids : PurgeResults(p, S)
    \/ \E S \in SUBSET Gids, target \in Gids, after \in BOOLEAN : Move(p, S, target, after)
    \/ \E g \in Gids, target \in 0..(Cardinality(Gids) - 1) : Reposition(p, g, target)
    \/ \E n \in Limits : ChangeGlobalOption(p, n)
    \/ PauseAll(p) \/ UnpauseAll(p) \/ Shutdown(p)

(* What a process does next once it is in the middle of an operation.      *)
Continue(p) ==
    \/ Reconcile(p) \/ (\E g \in Gids : Preempt(p, g)) \/ PreemptCancel(p) \/ PreemptDone(p)
    \/ TryStartNext(p) \/ StartNext(p)
    \/ PauseWrite(p) \/ RemoveWrite(p) \/ CancelAllActive(p) \/ CancelAllStarting(p)
    \/ ScheduleCancel(p) \/ RetryCancel(p)
    \/ UpdateCancel(p) \/ PollActive(p) \/ PollStarting(p) \/ UpdateRestore(p)
    \/ UpdateApply(p) \/ Relocated(p) \/ RelocatedOnly(p)
    \/ ShutdownCancelActive(p) \/ ShutdownCancelStarting(p) \/ ShutdownDone(p)

Next ==
    \/ \E p \in Procs : CallStart(p) \/ Continue(p) \/ ExitTimeout(p) \/ Disconnect(p)
    \/ \E e \in Epochs : WorkerStep(e)
    \/ TickStep
    \/ \E g \in Gids : TimePasses(g)

Spec == Init /\ [][Next]_vars

(* The runtime runs what can run: operations go on, the tick fires, a free *)
(* lock is granted in turn, a worker goes through its own steps, and the   *)
(* download of a cancelled worker ends.  Nothing says that callers call or *)
(* that a download ends by itself.                                         *)
Fairness ==
    /\ \A p \in Procs : WF_vars(Continue(p)) /\ SF_vars(TryStartNext(p))
    /\ WF_vars(TickStep)
    /\ \A e \in Epochs :
          /\ WF_vars(RegisterActive(e)) /\ WF_vars(ClearStarting(e))
          /\ WF_vars(StartupAborted(e) \/ Run(e))
          /\ WF_vars(RunEnds(e, "cancelled"))
          /\ WF_vars(FinishCheck(e)) /\ WF_vars(FinishRemove(e))
          /\ WF_vars(\E s \in Stopped \cup {"Paused"} : FinishWrite(e, s))

LiveSpec == Spec /\ Fairness

-----------------------------------------------------------------------------
PcValues ==
    {"idle", "reconcile", "preempt", "preemptCancel", "start", "starting", "pauseWrite",
     "removeWrite", "cancelActive", "cancelStarting", "cancelOne", "retryCancel",
     "updateCancel", "exitActive", "exitStarting", "updateRestore", "updateApply",
     "relocate", "relocateOnly", "shutActive", "shutStarting", "shutWait", "closed", "evict",
     "schedule"}
WpcValues ==
    {"none", "spawned", "inserted", "registered", "running", "ended", "current", "stale",
     "written"}
StartAt == {"none", "future", "due", "late"}

FieldTypes ==
    /\ status \in [Gids -> Status \cup {"Absent"}]
    /\ startAt \in [Gids -> StartAt] /\ missed \in SUBSET Gids
    /\ limit \in Limits
    /\ starting \in [Gids -> Epochs \cup {None}] /\ active \in [Gids -> Epochs \cup {None}]
    /\ updating \in SUBSET Gids
    /\ lock \in Procs \cup {None} /\ down \in BOOLEAN
    /\ wgid \in [Epochs -> Gids \cup {None}] /\ wpc \in [Epochs -> WpcValues]
    /\ wres \in [Epochs -> {"ok", "error", "cancelled", None}]
    /\ cancelled \in SUBSET Epochs
    /\ pc \in [Procs -> PcValues] /\ arg \in [Procs -> Gids \cup {None}]
    /\ tok \in [Procs -> Epochs \cup {None}] /\ todo \in [Procs -> SUBSET Gids]
    /\ room \in [Procs -> Nat]
    /\ staged \in [Procs -> [startAt : StartAt, missed : BOOLEAN] \cup {None}]
    /\ calls \in Nat

TypeOK == order \in Seq(Gids) /\ FieldTypes

(* Never two workers for one task: they would write the same file.  Nobody *)
(* ever re-checks this; it rests on the busy snapshot, the reload lock and *)
(* the order of the two registrations.                                     *)
OneWorkerPerTask ==
    \A e, f \in Epochs : Live(e) /\ Live(f) /\ wgid[e] = wgid[f] => e = f

(* A worker is in one of the two registries from before its first step to  *)
(* after its last, so that it counts against the limit and can be          *)
(* cancelled.                                                              *)
WorkersAreRegistered ==
    \A e \in Epochs : Live(e) => e \in {starting[wgid[e]], active[wgid[e]]}

(* try_start_next never fills more slots than some configured limit.       *)
BusyWithinLimit == \E n \in Limits : Cardinality(Busy) <= n

(* An Active task has a worker that has yet to write its result; without   *)
(* one the task would stay Active for ever, since only a worker or a       *)
(* caller leaves Active.                                                   *)
ActiveHasWorker ==
    \A g \in Gids : status[g] = "Active" =>
        \E e \in Epochs : Live(e) /\ wgid[e] = g /\ wpc[e] \notin {"stale", "written"}

(* A download that runs on uncancelled belongs to an Active task, or to    *)
(* one whose operation is about to cancel it.                              *)
NoRunaway ==
    \A e \in Epochs :
        (wpc[e] = "running" /\ e \notin cancelled /\ status[wgid[e]] # "Active") =>
           \E p \in Procs :
              \/ pc[p] = "cancelActive"
              \/ /\ pc[p] \in {"preemptCancel", "cancelOne", "retryCancel", "updateCancel"}
                 /\ arg[p] = wgid[e]

(* When update_task restarts the worker of an Active task, the staged copy *)
(* replaces the task only after that worker has stopped downloading,       *)
(* although its exit is polled in two registries.  (An edit of a task that *)
(* is not Active waits for nobody: EditedWhileIdle.)                       *)
RestartWaitsForWorker ==
    \A p \in Procs : pc[p] = "updateApply" =>
        \A e \in Epochs : wgid[e] = arg[p] => wpc[e] # "running"

(* The tick settles every schedule whose time has come: the task stops     *)
(* being scheduled, is flagged as missed, or gets a new start time; or an  *)
(* update_task is about to write its copy of the start time back.          *)
SchedulesSettle ==
    \A g \in Gids :
        (status[g] = "Scheduled" /\ startAt[g] \in {"due", "late"})
           ~> \/ status[g] # "Scheduled" \/ g \in missed \/ startAt[g] = "future"
              \/ \E p \in Procs : staged[p] # None /\ arg[p] = g

(* A scheduled task has a start time: without one check_scheduled_tasks    *)
(* passes it over for ever.                                                *)
ScheduledHasTime == \A g \in Gids : status[g] = "Scheduled" => startAt[g] # "none"

(* Only a stopped task leaves the list, whatever revived it since          *)
(* enforce_result_cap picked it.                                           *)
OnlyStoppedLeave ==
    [][\A g \in Gids : Listed(g) /\ status'[g] = "Absent" => status[g] \in Stopped]_vars

(* Without retry_with_cookies a removed task is never revived, whatever    *)
(* its worker reports later.                                               *)
RemovedStaysRemoved ==
    [][\A g \in Gids : status[g] = "Removed" => status'[g] \in {"Removed", "Absent"}]_vars

(* While update_task moves the partial file after a restart, or of a task  *)
(* that was not Active, no worker of the task writes.                      *)
MovedAt(l) ==
    \A p \in Procs : pc[p] = l =>
        \A e \in Epochs : wgid[e] = arg[p] => wpc[e] # "running"
PartialMovedWhileIdle == MovedAt("relocate")
EditedWhileIdle == MovedAt("relocateOnly")

(* Once shutdown has cancelled the active and the starting workers, every  *)
(* worker is cancelled.                                                    *)
ShutdownCancelsAll ==
    (\E p \in Procs : pc[p] \in {"shutWait", "closed"}) =>
        \A e \in Epochs : Live(e) => e \in cancelled

(* When nothing is in progress, a paused task does not download.           *)
PausedMeansStopped ==
    (\A p \in Procs : pc[p] = "idle") =>
        \A e \in Epochs : wpc[e] = "running" /\ e \notin cancelled
                            => status[wgid[e]] # "Paused"

(* A task that waits within the first places of the queue is started (or   *)
(* stops waiting, or loses its place to a caller's move).                  *)
Due(g) ==
    status[g] = "Waiting" /\ Cardinality({h \in Gids : Queued(h) /\ Before(h, g)}) < limit
QueueAdvances == \A g \in Gids : Due(g) ~> ~Due(g)
=============================================================================
