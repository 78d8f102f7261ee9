------------------------- MODULE TaskManagerProofs -------------------------
(***************************************************************************)
(* Proofs about TaskManager, for every number of tasks, callers, epochs    *)
(* and calls, every limit, with and without timeouts and disconnects.      *)
(***************************************************************************)
EXTENDS TaskManager, QueueOrderProofs, FiniteSetTheorems, TLAPS

-----------------------------------------------------------------------------
(* The inductive invariant behind OneWorkerPerTask: the registries and the *)
(* workers agree, and the reload lock keeps the busy snapshot of           *)
(* try_start_next an overestimate.                                         *)

WorkersKnown ==
    \A e \in Epochs : Live(e) =>
       /\ wgid[e] \in Gids
       /\ wpc[e] = "spawned" => starting[wgid[e]] = e
       /\ wpc[e] # "spawned" => active[wgid[e]] = e

StartingSound ==
    \A g \in Gids : starting[g] # None =>
       wgid[starting[g]] = g /\ wpc[starting[g]] \in {"spawned", "inserted"}

ActiveSound ==
    \A g \in Gids : active[g] # None =>
       wgid[active[g]] = g /\ wpc[active[g]] \notin {"none", "spawned"}

LockHeld == \A p \in Procs : pc[p] = "starting" <=> lock = p

SnapshotCovers == \A p \in Procs : pc[p] = "starting" => Busy \subseteq todo[p]

(* An operation that is to cancel, write or edit a task has its gid, and   *)
(* update_task its copy of the task.                                       *)
Editing == {"updateCancel", "exitActive", "exitStarting", "updateRestore", "updateApply"}
ArgsSet ==
    \A p \in Procs :
       /\ pc[p] \in Editing \cup {"preemptCancel", "pauseWrite", "removeWrite", "cancelOne",
                                "retryCancel", "relocate", "relocateOnly"} => arg[p] \in Gids
       /\ pc[p] \in Editing => staged[p] \in [startAt : StartAt, missed : BOOLEAN]

TypeInv == FieldTypes /\ ArgsSet

IInv == /\ TypeInv /\ WorkersKnown /\ StartingSound /\ ActiveSound
        /\ OneWorkerPerTask /\ LockHeld /\ SnapshotCovers

-----------------------------------------------------------------------------
(* The free slots that try_start_next counts are a natural number when it  *)
(* goes on: the subtraction does not underflow.                            *)
LEMMA RoomIsNat ==
    ASSUME NEW n \in Limits, ~(Cardinality(Busy) >= n)
    PROVE  n - Cardinality(Busy) \in Nat
<1>1. Busy \subseteq Gids
  BY DEF Busy
<1>2. Cardinality(Busy) \in Nat
  BY <1>1, FS_Subset, FS_CardinalityType, BoundAssumption
<1> QED
  BY <1>2, BoundAssumption

(* FieldTypes holds initially.                                             *)
LEMMA InitTypes == Init => FieldTypes
<1> SUFFICES ASSUME Init PROVE FieldTypes
  OBVIOUS
<1>1. status \in [Gids -> Status \cup {"Absent"}] /\ calls \in Nat
  BY ListAssumption DEF Init
<1> QED
  BY <1>1, BoundAssumption DEF Init, FieldTypes, PcValues, WpcValues, StartAt

(* try_start_next preserves the types.                                     *)
LEMMA StartTypes ==
    ASSUME TypeInv, NEW p \in Procs, TryStartNext(p) \/ StartNext(p)
    PROVE  TypeInv'
<1> USE DEF TypeInv, ArgsSet, Editing, FieldTypes, taskVars, regVars, workerVars, Return, Goto, Clear
<1>1. CASE TryStartNext(p)
  <2>1. room' \in [Procs -> Nat]
    BY <1>1, RoomIsNat DEF TryStartNext
  <2>2. Busy \subseteq Gids
    BY DEF Busy
  <2>3. CASE down \/ Cardinality(Busy) >= limit
    <3>1. Return(p) /\ UNCHANGED <<lock, taskVars, limit, regVars, updating, down, workerVars, calls>>
      BY <1>1, <2>3 DEF TryStartNext
    <3>2. pc' \in [Procs -> PcValues] /\ arg' = [arg EXCEPT ![p] = None] /\ UNCHANGED lock
      BY <3>1 DEF PcValues
    <3> QED BY <2>1, <3>1, <3>2, SMTT(30)
  <2>4. CASE ~(down \/ Cardinality(Busy) >= limit)
    BY <1>1, <2>4, <2>1, <2>2 DEF TryStartNext, PcValues
  <2> QED
    BY <2>3, <2>4
<1>2. CASE StartNext(p)
  <2>1. PICK f \in NewEpochs(Started(todo[p], room[p])) :
          LET S == DOMAIN f
              W == {f[g] : g \in S}
          IN  /\ status' = [g \in Gids |-> IF g \in S THEN "Active" ELSE status[g]]
              /\ starting' = [g \in Gids |-> IF g \in S THEN f[g] ELSE starting[g]]
              /\ wpc' = [e \in Epochs |-> IF e \in W THEN "spawned" ELSE wpc[e]]
              /\ wgid' = [e \in Epochs |-> IF e \in W THEN CHOOSE g \in S : f[g] = e
                                                      ELSE wgid[e]]
    BY <1>2 DEF StartNext
  <2>2. /\ f \in [DOMAIN f -> Epochs] /\ DOMAIN f \subseteq Gids
    BY <2>1 DEF NewEpochs, Started, Startable, FreeEpochs
  <2>3. ASSUME NEW e \in {f[g] : g \in DOMAIN f}
        PROVE  (CHOOSE g \in DOMAIN f : f[g] = e) \in Gids
    BY <2>2
  <2>4. wgid' \in [Epochs -> Gids \cup {None}]
    BY <2>1, <2>3
  <2>5. /\ status' \in [Gids -> Status \cup {"Absent"}]
        /\ starting' \in [Gids -> Epochs \cup {None}]
        /\ wpc' \in [Epochs -> WpcValues]
    BY <2>1, <2>2 DEF Status, WpcValues
  <2> QED
    BY <1>2, <2>4, <2>5 DEF StartNext, PcValues
<1> QED
  BY <1>1, <1>2

(* The other steps of a process in the middle of an operation preserve the *)
(* types.                                                                  *)
LEMMA ContinueTypes ==
    ASSUME TypeInv, NEW p \in Procs, Continue(p) \/ ExitTimeout(p) \/ Disconnect(p)
    PROVE  TypeInv'
<1> USE DEF TypeInv, ArgsSet, Editing, FieldTypes, taskVars, regVars, workerVars, procVars, Return, Goto, Clear,
            KeepLocals, PcValues
<1>over. OverLimit \subseteq Gids
  BY DEF OverLimit
<1>cancels. ASSUME NEW es, es \subseteq Epochs \cup {None}, Cancel(es)
           PROVE  cancelled' \subseteq Epochs
  BY <1>cancels DEF Cancel
<1>1. CASE Reconcile(p) \/ PreemptDone(p)
  BY <1>over, <1>1 DEF Reconcile, PreemptDone
<1>2. ASSUME NEW g \in Gids, Preempt(p, g)
      PROVE  TypeInv'
  <2>1. todo' \in [Procs -> SUBSET Gids]
    BY <1>2 DEF Preempt
  <2>2. CASE status[g] = "Active"
    BY <1>2, <2>1, <2>2 DEF Preempt, SetStatus, Status
  <2>3. CASE status[g] # "Active"
    BY <1>2, <2>1, <2>3 DEF Preempt
  <2> QED
    BY <2>2, <2>3
<1>3. CASE PreemptCancel(p) \/ ScheduleCancel(p) \/ RetryCancel(p)
  <2>1. {active[arg[p]]} \subseteq Epochs \cup {None} /\ Cancel({active[arg[p]]})
    BY <1>3 DEF PreemptCancel, ScheduleCancel, RetryCancel
  <2>2. cancelled' \subseteq Epochs
    BY <2>1, <1>cancels
  <2> QED
    BY <1>3, <2>2 DEF PreemptCancel, ScheduleCancel, RetryCancel
<1>4. CASE CancelAllActive(p) \/ ShutdownCancelActive(p)
  <2>1. cancelled' \subseteq Epochs
    BY <1>cancels, <1>4 DEF CancelAllActive, ShutdownCancelActive
  <2> QED
    BY <1>4, <2>1 DEF CancelAllActive, ShutdownCancelActive
<1>5. CASE CancelAllStarting(p)
  <2>1. cancelled' \subseteq Epochs
    BY <1>cancels, <1>5 DEF CancelAllStarting
  <2> QED
    BY <1>5, <2>1 DEF CancelAllStarting
<1>6. CASE ShutdownCancelStarting(p)
  <2>1. cancelled' \subseteq Epochs
    BY <1>cancels, <1>6 DEF ShutdownCancelStarting
  <2> QED
    BY <1>6, <2>1 DEF ShutdownCancelStarting
<1>7. CASE PauseWrite(p) \/ RemoveWrite(p)
  BY <1>7, SMTT(30) DEF PauseWrite, RemoveWrite, SetStatus, Status
<1>8. CASE UpdateCancel(p)
  <2>1. Lookup(arg[p]) \in Epochs \cup {None} /\ Cancel({Lookup(arg[p])})
    BY <1>8 DEF UpdateCancel, Lookup
  <2>2. cancelled' \subseteq Epochs
    BY <2>1, <1>cancels
  <2> QED
    BY <1>8, <2>1, <2>2 DEF UpdateCancel
<1>9. CASE PollActive(p) \/ PollStarting(p) \/ Relocated(p) \/ RelocatedOnly(p) \/ ShutdownDone(p)
  BY <1>9 DEF PollActive, PollStarting, Relocated, RelocatedOnly, ShutdownDone
<1>10. CASE UpdateRestore(p)
  BY <1>10 DEF UpdateRestore, SetStatus, Status
<1>11. CASE UpdateApply(p)
  BY <1>11 DEF UpdateApply
<1>12. CASE ExitTimeout(p)
  BY <1>12 DEF ExitTimeout
<1>13. CASE Disconnect(p)
  BY <1>13 DEF Disconnect
<1>14. CASE TryStartNext(p) \/ StartNext(p)
  BY <1>14, StartTypes
<1> QED
  BY <1>1, <1>2, <1>3, <1>4, <1>5, <1>6, <1>7, <1>8, <1>9, <1>10, <1>11, <1>12, <1>13,
     <1>14 DEF Continue

(* The calls preserve the types.                                           *)
LEMMA CallTypes ==
    ASSUME TypeInv, NEW p \in Procs, CallStart(p)
    PROVE  TypeInv'
<1> USE DEF TypeInv, ArgsSet, Editing, FieldTypes, taskVars, regVars, workerVars, procVars,
            Goto, KeepLocals, PcValues, Call
<1>1. ASSUME NEW g \in Gids, NEW s \in Status, Enqueue(p, g, s)
      PROVE  TypeInv'
  BY <1>1 DEF Enqueue, SetStatus, StartAt, Status
<1>2. ASSUME NEW g \in Gids, PauseCancel(p, g)
      PROVE  TypeInv'
  <2>1. cancelled' \subseteq Epochs
    BY <1>2 DEF PauseCancel, Cancel, Lookup
  <2> QED
    BY <1>2, <2>1 DEF PauseCancel
<1>3. ASSUME NEW g \in Gids, Unpause(p, g)
      PROVE  TypeInv'
  BY <1>3 DEF Unpause, SetStatus, Status
<1>4. ASSUME NEW g \in Gids, SetTaskSchedule(p, g)
      PROVE  TypeInv'
  BY <1>4 DEF SetTaskSchedule, SetStatus, Status, StartAt
<1>5. ASSUME NEW g \in Gids, StartTaskNow(p, g)
      PROVE  TypeInv'
  BY <1>5 DEF StartTaskNow, SetStatus, Status, StartAt
<1>6. ASSUME NEW g \in Gids, RetryWithCookies(p, g)
      PROVE  TypeInv'
  BY <1>6 DEF RetryWithCookies, SetStatus, Status
<1>7. ASSUME NEW g \in Gids, UpdateTask(p, g)
      PROVE  TypeInv'
  <2>1. [startAt |-> startAt[g], missed |-> g \in missed]
          \in [startAt : StartAt, missed : BOOLEAN]
    OBVIOUS
  <2> QED
    BY <1>7, <2>1 DEF UpdateTask, SetStatus, Status
<1>14. ASSUME NEW g \in Gids, UpdateInPlace(p, g)
       PROVE  TypeInv'
  BY <1>14 DEF UpdateInPlace
<1>8. ASSUME NEW S \in SUBSET Gids, PurgeResults(p, S)
      PROVE  TypeInv'
  BY <1>8 DEF PurgeResults, Drop, StartAt
<1>9. ASSUME NEW S \in SUBSET Gids, NEW target \in Gids, NEW after \in BOOLEAN,
             Move(p, S, target, after)
      PROVE  TypeInv'
  BY <1>9 DEF Move
<1>13. ASSUME NEW g \in Gids, NEW target \in 0..(Cardinality(Gids) - 1), Reposition(p, g, target)
       PROVE  TypeInv'
  BY <1>13 DEF Reposition
<1>10. ASSUME NEW n \in Limits, ChangeGlobalOption(p, n)
       PROVE  TypeInv'
  BY <1>10 DEF ChangeGlobalOption
<1>11. CASE PauseAll(p) \/ UnpauseAll(p)
  BY <1>11 DEF PauseAll, UnpauseAll, Status
<1>12. CASE Shutdown(p)
  BY <1>12 DEF Shutdown
<1> HIDE DEF TypeInv
<1> QED
  BY <1>1, <1>2, <1>3, <1>4, <1>5, <1>6, <1>7, <1>8, <1>9, <1>10, <1>11, <1>12,
     <1>13, <1>14 DEF CallStart

(* The steps of workers, of the tick and of the clock preserve the types.  *)
LEMMA OtherTypes ==
    ASSUME TypeInv,
           (\E e \in Epochs : WorkerStep(e)) \/ TickStep \/ \E g \in Gids : TimePasses(g)
    PROVE  TypeInv'
<1> USE DEF TypeInv, ArgsSet, Editing, FieldTypes, taskVars, regVars, workerVars, procVars
<1>1. ASSUME NEW e \in Epochs, RegisterActive(e) \/ ClearStarting(e) \/ FinishRemove(e)
      PROVE  TypeInv'
  BY <1>1 DEF RegisterActive, ClearStarting, FinishRemove, WpcValues
<1>2. ASSUME NEW e \in Epochs, StartupAborted(e) \/ Run(e) \/ FinishCheck(e)
      PROVE  TypeInv'
  BY <1>2 DEF StartupAborted, Run, FinishCheck, Cancel, WpcValues
<1>3. ASSUME NEW e \in Epochs, NEW r \in {"ok", "error", "cancelled"}, RunEnds(e, r)
      PROVE  TypeInv'
  BY <1>3 DEF RunEnds, WpcValues
<1>4. ASSUME NEW e \in Epochs, NEW s \in Stopped \cup {"Paused"}, FinishWrite(e, s)
      PROVE  TypeInv'
  BY <1>4 DEF FinishWrite, SetStatus, Stopped, Status, WpcValues
<1>5. CASE TickCap
  <2> DEFINE stopped == {g \in Gids : status[g] \in Stopped}
             picked == {g \in stopped : Cardinality(stopped) - MaxStopped
                                          > Cardinality({h \in stopped : Before(h, g)})}
  <2>1. Tick \in Procs /\ picked \subseteq Gids /\ todo' = [todo EXCEPT ![Tick] = picked]
    BY <1>5 DEF TickCap, Procs
  <2> HIDE DEF picked
  <2> QED
    BY <1>5, <2>1 DEF TickCap, Goto, PcValues
<1>8. CASE TickEvict
  <2>1. Tick \in Procs
    BY DEF Procs
  <2> QED
    BY <1>8, <2>1 DEF TickEvict, Drop, Goto, PcValues, StartAt
<1>6. CASE TickSchedule
  <2>1. Tick \in Procs
    BY DEF Procs
  <2> QED
    BY <1>6, <2>1 DEF TickSchedule, Goto, KeepLocals, PcValues, StartAt, Status
<1>7. ASSUME NEW g \in Gids, TimePasses(g)
      PROVE  TypeInv'
  BY <1>7 DEF TimePasses, StartAt
<1> QED
  BY <1>1, <1>2, <1>3, <1>4, <1>5, <1>6, <1>7, <1>8 DEF WorkerStep, TickStep

(* Every step preserves the types.                                         *)
LEMMA TypeStep == TypeInv /\ [Next]_vars => TypeInv'
<1> SUFFICES ASSUME TypeInv, [Next]_vars PROVE TypeInv'
  OBVIOUS
<1>1. CASE UNCHANGED vars
  BY <1>1 DEF vars, taskVars, regVars, workerVars, procVars, TypeInv, FieldTypes, ArgsSet
<1>2. CASE Next
  BY <1>2, ContinueTypes, CallTypes, OtherTypes DEF Next
<1> QED
  BY <1>1, <1>2

-----------------------------------------------------------------------------
(* A step of a process that neither touches the workers nor enters or      *)
(* leaves the section under the reload lock preserves IInv.                *)
LEMMA QuietStep ==
    ASSUME IInv, TypeInv', NEW p \in Procs,
           UNCHANGED <<starting, active, wgid, wpc, lock>>,
           pc[p] # "starting", pc'[p] # "starting",
           \A q \in Procs \ {p} : pc'[q] = pc[q] /\ todo'[q] = todo[q]
    PROVE  IInv'
<1>1. /\ WorkersKnown' /\ StartingSound' /\ ActiveSound' /\ OneWorkerPerTask'
  BY DEF IInv, WorkersKnown, StartingSound, ActiveSound, OneWorkerPerTask, Live
<1>2. LockHeld'
  BY DEF IInv, LockHeld
<1>3. SnapshotCovers'
  BY DEF IInv, SnapshotCovers, Busy
<1> QED
  BY <1>1, <1>2, <1>3 DEF IInv

(* The calls are quiet.                                                    *)
LEMMA CallInv ==
    ASSUME IInv, TypeInv', NEW p \in Procs, CallStart(p)
    PROVE  IInv'
<1>1. /\ UNCHANGED <<starting, active, wgid, wpc, lock>>
      /\ pc[p] # "starting" /\ pc'[p] # "starting"
      /\ \A q \in Procs \ {p} : pc'[q] = pc[q] /\ todo'[q] = todo[q]
  <2> USE DEF IInv, TypeInv, FieldTypes, Call, Goto, KeepLocals, regVars, workerVars, procVars
  <2>1. CASE \E g \in Gids : \/ \E s \in Status : Enqueue(p, g, s)
                             \/ PauseCancel(p, g) \/ Unpause(p, g) \/ SetTaskSchedule(p, g)
                             \/ StartTaskNow(p, g) \/ RetryWithCookies(p, g) \/ UpdateTask(p, g)
                             \/ UpdateInPlace(p, g)
    BY <2>1 DEF Enqueue, PauseCancel, Unpause, SetTaskSchedule, StartTaskNow,
                RetryWithCookies, UpdateTask, UpdateInPlace
  <2>2. CASE \/ \E S \in SUBSET Gids : PurgeResults(p, S)
             \/ \E S \in SUBSET Gids, target \in Gids, after \in BOOLEAN :
                   Move(p, S, target, after)
             \/ \E g \in Gids, target \in 0..(Cardinality(Gids) - 1) : Reposition(p, g, target)
             \/ \E n \in Limits : ChangeGlobalOption(p, n)
             \/ PauseAll(p) \/ UnpauseAll(p) \/ Shutdown(p)
    BY <2>2 DEF PurgeResults, Move, Reposition, ChangeGlobalOption, PauseAll, UnpauseAll,
                Shutdown
  <2> QED
    BY <2>1, <2>2 DEF CallStart
<1> QED
  BY <1>1, QuietStep

(* So are the steps of an operation outside try_start_next.                *)
LEMMA ContinueInv ==
    ASSUME IInv, TypeInv', NEW p \in Procs,
           Continue(p) \/ ExitTimeout(p), ~TryStartNext(p), ~StartNext(p)
    PROVE  IInv'
<1>1. /\ UNCHANGED <<starting, active, wgid, wpc, lock>>
      /\ pc[p] # "starting" /\ pc'[p] # "starting"
      /\ \A q \in Procs \ {p} : pc'[q] = pc[q] /\ todo'[q] = todo[q]
  <2> USE DEF IInv, TypeInv, FieldTypes, Goto, KeepLocals, Return, Clear, regVars, workerVars
  <2>1. CASE Reconcile(p) \/ (\E g \in Gids : Preempt(p, g)) \/ PreemptDone(p)
    BY <2>1 DEF Reconcile, Preempt, PreemptDone
  <2>2. CASE PreemptCancel(p) \/ CancelAllActive(p) \/ CancelAllStarting(p)
               \/ ScheduleCancel(p) \/ RetryCancel(p) \/ UpdateCancel(p)
               \/ ShutdownCancelActive(p) \/ ShutdownCancelStarting(p)
    BY <2>2 DEF PreemptCancel, CancelAllActive, CancelAllStarting, ScheduleCancel,
                RetryCancel, UpdateCancel, ShutdownCancelActive, ShutdownCancelStarting
  <2>3. CASE PauseWrite(p) \/ RemoveWrite(p) \/ PollActive(p) \/ PollStarting(p)
               \/ UpdateRestore(p) \/ UpdateApply(p) \/ Relocated(p) \/ RelocatedOnly(p)
               \/ ShutdownDone(p) \/ ExitTimeout(p)
    BY <2>3 DEF PauseWrite, RemoveWrite, PollActive, PollStarting, UpdateRestore,
                UpdateApply, Relocated, RelocatedOnly, ShutdownDone, ExitTimeout
  <2> QED
    BY <2>1, <2>2, <2>3 DEF Continue
<1> QED
  BY <1>1, QuietStep

(* try_start_next takes the lock with a snapshot of what is busy, and a    *)
(* caller that goes away gives the lock back.                              *)
LEMMA LockInv ==
    ASSUME IInv, TypeInv', NEW p \in Procs, TryStartNext(p) \/ Disconnect(p)
    PROVE  IInv'
<1> USE DEF IInv, TypeInv, FieldTypes
<1>1. UNCHANGED <<starting, active, wgid, wpc>>
  BY DEF TryStartNext, Disconnect, regVars, workerVars
<1>2. WorkersKnown' /\ StartingSound' /\ ActiveSound' /\ OneWorkerPerTask'
  BY <1>1 DEF WorkersKnown, StartingSound, ActiveSound, OneWorkerPerTask, Live
<1>3. LockHeld' /\ SnapshotCovers'
  <2>1. Busy' = Busy
    BY <1>1 DEF Busy
  <2>2. CASE TryStartNext(p) /\ (down \/ Cardinality(Busy) >= limit)
    BY <2>1, <2>2, NoneAssumption
       DEF TryStartNext, Return, Goto, Clear, LockHeld, SnapshotCovers
  <2>3. CASE TryStartNext(p) /\ ~(down \/ Cardinality(Busy) >= limit)
    BY <2>1, <2>3, NoneAssumption DEF TryStartNext, Goto, LockHeld, SnapshotCovers
  <2>4. CASE Disconnect(p)
    BY <2>1, <2>4, NoneAssumption
       DEF Disconnect, Return, Goto, Clear, LockHeld, SnapshotCovers
  <2> QED
    BY <2>2, <2>3, <2>4
<1> HIDE DEF TypeInv
<1> QED
  BY <1>2, <1>3

(* The tasks that try_start_next starts have no worker.                    *)
LEMMA StartInv ==
    ASSUME IInv, TypeInv', NEW p \in Procs, StartNext(p)
    PROVE  IInv'
<1> USE NoneAssumption DEF IInv, TypeInv, FieldTypes
<1>1. PICK f \in NewEpochs(Started(todo[p], room[p])) :
         LET S == DOMAIN f
             W == {f[g] : g \in S}
         IN  /\ status' = [g \in Gids |-> IF g \in S THEN "Active" ELSE status[g]]
             /\ starting' = [g \in Gids |-> IF g \in S THEN f[g] ELSE starting[g]]
             /\ wpc' = [e \in Epochs |-> IF e \in W THEN "spawned" ELSE wpc[e]]
             /\ wgid' = [e \in Epochs |-> IF e \in W THEN CHOOSE g \in S : f[g] = e
                                                     ELSE wgid[e]]
  BY DEF StartNext
<1> DEFINE S == DOMAIN f
           W == {f[g] : g \in S}
<1>2. /\ S \subseteq Gids /\ f \in [S -> Epochs]
      /\ \A g \in S : wpc[f[g]] = "none"
      /\ \A g, h \in S : f[g] = f[h] => g = h
  BY <1>1, SMTT(30) DEF NewEpochs, Started, Startable, FreeEpochs, Live
<1>3. \A g \in S : starting[g] = None /\ active[g] = None
  BY <1>1 DEF NewEpochs, Started, Startable, StartNext, SnapshotCovers, Busy
<1>4. \A g \in S : wgid'[f[g]] = g /\ wpc'[f[g]] = "spawned" /\ starting'[g] = f[g]
  <2> SUFFICES ASSUME NEW g \in S
               PROVE  wgid'[f[g]] = g /\ wpc'[f[g]] = "spawned" /\ starting'[g] = f[g]
    OBVIOUS
  <2>1. (CHOOSE h \in S : f[h] = f[g]) = g
    BY <1>2
  <2> QED
    BY <1>1, <1>2, <2>1
<1>5. /\ \A e \in Epochs \ W : wgid'[e] = wgid[e] /\ wpc'[e] = wpc[e]
      /\ \A g \in Gids \ S : starting'[g] = starting[g]
      /\ active' = active
  BY <1>1 DEF StartNext
<1>6. \A e \in Epochs : Live(e) => wgid[e] \notin S
  BY <1>3 DEF WorkersKnown
<1> HIDE DEF S
<1>7. WorkersKnown'
  BY <1>2, <1>4, <1>5, <1>6, SMTT(30) DEF WorkersKnown, Live
<1>8. StartingSound' /\ ActiveSound'
  <2>1. ASSUME NEW g \in Gids, starting'[g] # None
        PROVE  wgid'[starting'[g]] = g /\ wpc'[starting'[g]] \in {"spawned", "inserted"}
    <3>1. CASE g \in S
      BY <1>4, <3>1
    <3>2. CASE g \notin S
      BY <1>2, <1>5, <2>1, <3>2 DEF StartingSound
    <3> QED
      BY <3>1, <3>2
  <2>2. ASSUME NEW g \in Gids, active'[g] # None
        PROVE  wgid'[active'[g]] = g /\ wpc'[active'[g]] \notin {"none", "spawned"}
    BY <1>2, <1>5, <2>2 DEF ActiveSound
  <2> QED
    BY <2>1, <2>2 DEF StartingSound, ActiveSound
<1>9. OneWorkerPerTask'
  BY <1>2, <1>4, <1>5, <1>6, SMTT(30) DEF OneWorkerPerTask, Live
<1>10. LockHeld' /\ SnapshotCovers'
  BY DEF StartNext, Return, Goto, LockHeld, SnapshotCovers
<1> HIDE DEF TypeInv
<1> QED
  BY <1>7, <1>8, <1>9, <1>10

(* The steps of a worker: it is in starting_workers until it is in         *)
(* active_downloads, where it stays until its last step.                   *)
LEMMA WorkerInv ==
    ASSUME IInv, TypeInv', NEW e \in Epochs, WorkerStep(e)
    PROVE  IInv'
<1> USE NoneAssumption DEF IInv, TypeInv, FieldTypes, procVars, regVars, workerVars
<1>1. CASE RegisterActive(e)
  BY <1>1 DEF RegisterActive, WorkersKnown, StartingSound, ActiveSound, OneWorkerPerTask,
              LockHeld, SnapshotCovers, Live, Busy
<1>2. CASE ClearStarting(e)
  BY <1>2 DEF ClearStarting, WorkersKnown, StartingSound, ActiveSound, OneWorkerPerTask,
              LockHeld, SnapshotCovers, Live, Busy
<1>3. CASE FinishRemove(e)
  BY <1>3 DEF FinishRemove, WorkersKnown, StartingSound, ActiveSound, OneWorkerPerTask,
              LockHeld, SnapshotCovers, Live, Busy
<1>4. CASE \/ StartupAborted(e) \/ Run(e) \/ FinishCheck(e)
           \/ \E r \in {"ok", "error", "cancelled"} : RunEnds(e, r)
           \/ \E s \in Stopped \cup {"Paused"} : FinishWrite(e, s)
  BY <1>4 DEF StartupAborted, Run, FinishCheck, RunEnds, FinishWrite, WorkersKnown,
              StartingSound, ActiveSound, OneWorkerPerTask, LockHeld, SnapshotCovers, Live, Busy
<1> HIDE DEF TypeInv
<1> QED
  BY <1>1, <1>2, <1>3, <1>4 DEF WorkerStep

(* IInv holds initially.                                                   *)
LEMMA InitIInv == Init => IInv
<1> SUFFICES ASSUME Init PROVE IInv
  OBVIOUS
<1>1. FieldTypes
  BY InitTypes
<1>2. ArgsSet
  BY DEF Init, ArgsSet, Editing
<1>3. WorkersKnown /\ StartingSound /\ ActiveSound /\ OneWorkerPerTask
  BY DEF Init, WorkersKnown, StartingSound, ActiveSound, OneWorkerPerTask, Live
<1>4. LockHeld /\ SnapshotCovers
  BY NoneAssumption DEF Init, LockHeld, SnapshotCovers
<1> QED
  BY <1>1, <1>2, <1>3, <1>4 DEF IInv, TypeInv

(* Every step preserves IInv.                                              *)
LEMMA NextIInv == IInv /\ [Next]_vars => IInv'
<1> SUFFICES ASSUME IInv, [Next]_vars PROVE IInv'
  OBVIOUS
<1>1. TypeInv'
  BY TypeStep DEF IInv
<1>2. ASSUME NEW p \in Procs, CallStart(p) \/ Continue(p) \/ ExitTimeout(p) \/ Disconnect(p)
      PROVE  IInv'
  BY <1>1, <1>2, CallInv, ContinueInv, LockInv, StartInv
<1>3. ASSUME NEW e \in Epochs, WorkerStep(e)
      PROVE  IInv'
  BY <1>1, <1>3, WorkerInv
<1>4. CASE TickStep
  <2>1. Tick \in Procs
    BY DEF Procs
  <2>2. /\ UNCHANGED <<starting, active, wgid, wpc, lock>>
        /\ pc[Tick] # "starting" /\ pc'[Tick] # "starting"
        /\ \A q \in Procs \ {Tick} : pc'[q] = pc[q] /\ todo'[q] = todo[q]
    BY <1>4, <2>1 DEF TickStep, TickCap, TickEvict, TickSchedule, Goto, KeepLocals, regVars,
                      workerVars, IInv, TypeInv, FieldTypes
  <2> QED
    BY <1>1, <2>1, <2>2, QuietStep
<1>5. CASE UNCHANGED vars \/ \E g \in Gids : TimePasses(g)
  <2>1. UNCHANGED <<starting, active, wgid, wpc, lock, pc, todo>>
    BY <1>5 DEF TimePasses, vars, regVars, workerVars, procVars
  <2> QED
    BY <1>1, <2>1 DEF IInv, WorkersKnown, StartingSound, ActiveSound, OneWorkerPerTask,
                      LockHeld, SnapshotCovers, Live, Busy
<1> QED
  BY <1>2, <1>3, <1>4, <1>5 DEF Next

-----------------------------------------------------------------------------
(* The inductive invariant holds in every reachable state.                 *)
THEOREM Invariance == Spec => []IInv
  BY InitIInv, NextIInv, PTL DEF Spec

(* The fields of the task manager, of its workers and of the operations in *)
(* progress keep their types; in particular the count of free slots in     *)
(* try_start_next never goes below zero.                                   *)
THEOREM FieldsKeepTypes == Spec => []FieldTypes
<1>1. IInv => FieldTypes
  BY DEF IInv, TypeInv
<1> QED
  BY <1>1, Invariance, PTL

(* No task ever has two workers: try_start_next, register_active_download  *)
(* and finish_task keep the registries and the workers in step.            *)
THEOREM OneWorkerPerTaskHolds == Spec => []OneWorkerPerTask
<1>1. IInv => OneWorkerPerTask
  BY DEF IInv
<1> QED
  BY <1>1, Invariance, PTL

(* Every worker is in starting_workers or in active_downloads under the    *)
(* gid of its task for as long as it lives.                                *)
THEOREM WorkersAreRegisteredHolds == Spec => []WorkersAreRegistered
<1>1. IInv => WorkersAreRegistered
  BY DEF IInv, WorkersKnown, WorkersAreRegistered
<1> QED
  BY <1>1, Invariance, PTL

-----------------------------------------------------------------------------
(* What a step may do to the list, from the types alone.                   *)
LeavesStopped ==
    \A g \in Gids : Listed(g) /\ status'[g] = "Absent" => status[g] \in Stopped

(* Only purging and evicting take a task out of the list.                  *)
LEMMA LeaveStep == TypeInv /\ [Next]_vars => LeavesStopped
<1> SUFFICES ASSUME TypeInv, [Next]_vars PROVE LeavesStopped
  OBVIOUS
<1> USE DEF LeavesStopped, TypeInv, FieldTypes, Listed, Status, Stopped, SetStatus, taskVars
<1>1. ASSUME NEW p \in Procs, CallStart(p)
      PROVE  LeavesStopped
  <2>1. ASSUME NEW g \in Gids,
               \/ \E s \in Status : Enqueue(p, g, s)
               \/ PauseCancel(p, g) \/ Unpause(p, g) \/ SetTaskSchedule(p, g)
               \/ StartTaskNow(p, g) \/ RetryWithCookies(p, g) \/ UpdateTask(p, g)
               \/ UpdateInPlace(p, g)
        PROVE  LeavesStopped
    BY <2>1 DEF Enqueue, PauseCancel, Unpause, SetTaskSchedule, StartTaskNow,
                RetryWithCookies, UpdateTask, UpdateInPlace
  <2>2. ASSUME NEW S \in SUBSET Gids, PurgeResults(p, S)
        PROVE  LeavesStopped
    BY <2>2 DEF PurgeResults, Drop
  <2>3. CASE \/ \E S \in SUBSET Gids, target \in Gids, after \in BOOLEAN :
                   Move(p, S, target, after)
             \/ \E g \in Gids, target \in 0..(Cardinality(Gids) - 1) : Reposition(p, g, target)
             \/ \E n \in Limits : ChangeGlobalOption(p, n)
             \/ PauseAll(p) \/ UnpauseAll(p) \/ Shutdown(p)
    BY <2>3 DEF Move, Reposition, ChangeGlobalOption, PauseAll, UnpauseAll, Shutdown
  <2> HIDE DEF LeavesStopped
  <2> QED
    BY <1>1, <2>1, <2>2, <2>3 DEF CallStart
<1>2. ASSUME NEW p \in Procs, Continue(p) \/ ExitTimeout(p) \/ Disconnect(p)
      PROVE  LeavesStopped
  <2>1. CASE (\E g \in Gids : Preempt(p, g)) \/ PauseWrite(p) \/ RemoveWrite(p)
               \/ UpdateRestore(p) \/ UpdateApply(p) \/ Relocated(p) \/ RelocatedOnly(p)
    BY <2>1 DEF Preempt, PauseWrite, RemoveWrite, UpdateRestore, UpdateApply, Relocated,
                RelocatedOnly
  <2>2. CASE StartNext(p)
    BY <2>2 DEF StartNext
  <2>3. CASE \/ Reconcile(p) \/ PreemptCancel(p) \/ PreemptDone(p) \/ TryStartNext(p)
             \/ CancelAllActive(p) \/ CancelAllStarting(p) \/ ScheduleCancel(p)
             \/ RetryCancel(p) \/ UpdateCancel(p) \/ PollActive(p) \/ PollStarting(p)
             \/ ShutdownCancelActive(p) \/ ShutdownCancelStarting(p) \/ ShutdownDone(p)
             \/ ExitTimeout(p) \/ Disconnect(p)
    BY <2>3 DEF Reconcile, PreemptCancel, PreemptDone, TryStartNext, CancelAllActive,
                CancelAllStarting, ScheduleCancel, RetryCancel, UpdateCancel, PollActive,
                PollStarting, ShutdownCancelActive, ShutdownCancelStarting, ShutdownDone,
                ExitTimeout, Disconnect
  <2> HIDE DEF LeavesStopped
  <2> QED
    BY <1>2, <2>1, <2>2, <2>3 DEF Continue
<1>3. ASSUME NEW e \in Epochs, WorkerStep(e)
      PROVE  LeavesStopped
  BY <1>3 DEF WorkerStep, RegisterActive, ClearStarting, StartupAborted, Run, RunEnds,
              FinishCheck, FinishWrite, FinishRemove
<1>4. CASE TickStep
  BY <1>4 DEF TickStep, TickCap, TickEvict, TickSchedule, Drop
<1>5. CASE UNCHANGED vars \/ \E g \in Gids : TimePasses(g)
  BY <1>5 DEF TimePasses, vars
<1> HIDE DEF LeavesStopped
<1> QED
  BY <1>1, <1>2, <1>3, <1>4, <1>5 DEF Next

(* Only a task that is stopped at that moment ever leaves the list,        *)
(* although enforce_result_cap picks it under one lock and drops it under  *)
(* another.                                                                *)
THEOREM OnlyStoppedLeaveHolds == Spec => OnlyStoppedLeave
<1>1. IInv /\ [Next]_vars => [LeavesStopped]_vars
  BY LeaveStep DEF IInv
<1> QED
  BY <1>1, Invariance, PTL DEF Spec, OnlyStoppedLeave, LeavesStopped

-----------------------------------------------------------------------------
(* The inductive invariant behind RestartWaitsForWorker.  A task being     *)
(* edited with a restart has one editor, is held back by updating_tasks,   *)
(* and is not Active, so that no worker of it begins to download; the one  *)
(* that downloads already is the one whose exit is polled.                 *)

EditorsAlone ==
    \A p \in Procs : pc[p] \in Editing =>
       /\ arg[p] \in updating /\ status[arg[p]] # "Active"
       /\ \A q \in Procs : q # p /\ pc[q] \in Editing => arg[q] # arg[p]

StagedWhileEditing == \A p \in Procs : staged[p] # None => pc[p] \in Editing

ExitPolled ==
    \A p \in Procs : \A e \in Epochs :
       (wpc[e] = "running" /\ wgid[e] = arg[p]) =>
          /\ pc[p] = "exitActive" => e = tok[p]
          /\ pc[p] \notin {"exitStarting", "updateApply"}

EditInv == EditorsAlone /\ StagedWhileEditing /\ ExitPolled

(* A step of a process outside an edit preserves EditInv if it makes no    *)
(* task Active that is being edited.                                       *)
LEMMA EditQuiet ==
    ASSUME IInv, EditInv, NEW p \in Procs,
           UNCHANGED <<updating, wgid>>,
           \A e \in Epochs : wpc'[e] = "running" => wpc[e] = "running",
           \A g \in updating : status'[g] = "Active" => status[g] = "Active",
           pc[p] \notin Editing, pc'[p] \notin Editing, staged'[p] = staged[p] \/ staged'[p] = None,
           \A q \in Procs \ {p} : /\ pc'[q] = pc[q] /\ arg'[q] = arg[q]
                                  /\ tok'[q] = tok[q] /\ staged'[q] = staged[q]
    PROVE  EditInv'
<1>1. EditorsAlone'
  BY DEF EditInv, EditorsAlone
<1>2. StagedWhileEditing'
  BY DEF EditInv, StagedWhileEditing
<1>3. ExitPolled'
  BY DEF EditInv, ExitPolled, Editing
<1> QED
  BY <1>1, <1>2, <1>3 DEF EditInv

(* The calls other than update_task.                                       *)
LEMMA EditCalls ==
    ASSUME IInv, EditInv, NEW p \in Procs, CallStart(p),
           \A g \in Gids : ~UpdateTask(p, g)
    PROVE  EditInv'
<1>1. /\ UNCHANGED <<updating, wgid, wpc>>
      /\ \A g \in Gids : status'[g] = "Active" => status[g] = "Active"
      /\ pc[p] \notin Editing /\ pc'[p] \notin Editing /\ staged' = staged
      /\ \A q \in Procs \ {p} : pc'[q] = pc[q] /\ arg'[q] = arg[q] /\ tok'[q] = tok[q]
  <2> USE DEF IInv, TypeInv, FieldTypes, Call, Goto, KeepLocals, SetStatus, taskVars,
              workerVars, procVars, Editing
  <2>1. ASSUME NEW g \in Gids,
               \/ \E s \in Status : Enqueue(p, g, s)
               \/ PauseCancel(p, g) \/ Unpause(p, g) \/ SetTaskSchedule(p, g)
               \/ StartTaskNow(p, g) \/ RetryWithCookies(p, g) \/ UpdateInPlace(p, g)
        PROVE  <1>1!1 /\ <1>1!2 /\ <1>1!3 /\ <1>1!4
    BY <2>1 DEF Enqueue, PauseCancel, Unpause, SetTaskSchedule, StartTaskNow, RetryWithCookies,
                UpdateInPlace
  <2>2. CASE \/ \E S \in SUBSET Gids : PurgeResults(p, S)
             \/ \E S \in SUBSET Gids, target \in Gids, after \in BOOLEAN :
                   Move(p, S, target, after)
             \/ \E g \in Gids, target \in 0..(Cardinality(Gids) - 1) : Reposition(p, g, target)
             \/ \E n \in Limits : ChangeGlobalOption(p, n)
             \/ PauseAll(p) \/ UnpauseAll(p) \/ Shutdown(p)
    BY <2>2, ZenonT(30) DEF PurgeResults, Drop, Move, Reposition, ChangeGlobalOption, PauseAll,
                UnpauseAll, Shutdown
  <2> QED
    BY <2>1, <2>2 DEF CallStart
<1>2. updating \subseteq Gids
  BY DEF IInv, TypeInv, FieldTypes
<1> QED
  BY <1>1, <1>2, EditQuiet

(* update_task finds the task Active, so that nobody edits it yet.         *)
LEMMA EditBegins ==
    ASSUME IInv, EditInv, NEW p \in Procs, NEW g \in Gids, UpdateTask(p, g)
    PROVE  EditInv'
<1> USE DEF IInv, TypeInv, FieldTypes, EditInv, UpdateTask, Call, Goto, SetStatus, workerVars
<1>1. EditorsAlone'
  BY DEF EditorsAlone, Editing
<1>2. StagedWhileEditing'
  BY DEF StagedWhileEditing, Editing
<1>3. ExitPolled'
  BY DEF ExitPolled
<1> QED
  BY <1>1, <1>2, <1>3

(* The steps of an edit.                                                   *)
LEMMA EditSteps ==
    ASSUME IInv, EditInv, NEW p \in Procs,
           \/ UpdateCancel(p) \/ PollActive(p) \/ PollStarting(p) \/ ExitTimeout(p)
           \/ UpdateRestore(p) \/ UpdateApply(p) \/ Disconnect(p)
    PROVE  EditInv'
<1> USE DEF IInv, TypeInv, FieldTypes, ArgsSet, EditInv, Goto, KeepLocals, Return, Clear,
            taskVars, regVars, workerVars
<1>1. CASE UpdateCancel(p)
  <2>1. ASSUME NEW e \in Epochs, wpc[e] = "running", wgid[e] = arg[p]
        PROVE  e = Lookup(arg[p])
    BY <1>1, <2>1, NoneAssumption
       DEF UpdateCancel, Lookup, WorkersKnown, StartingSound, OneWorkerPerTask, Live, Editing
  <2>2. EditorsAlone' /\ StagedWhileEditing'
    BY <1>1 DEF UpdateCancel, EditorsAlone, StagedWhileEditing, Editing
  <2>3. ExitPolled'
    BY <1>1, <2>1, NoneAssumption DEF UpdateCancel, ExitPolled
  <2> QED
    BY <2>2, <2>3
<1>2. CASE PollActive(p)
  <2>1. ExitPolled'
    BY <1>2 DEF PollActive, ExitPolled, WorkersKnown, Live
  <2> QED
    BY <1>2, <2>1 DEF PollActive, EditorsAlone, StagedWhileEditing, Editing
<1>3. CASE PollStarting(p)
  BY <1>3 DEF PollStarting, EditorsAlone, StagedWhileEditing, ExitPolled, Editing
<1>4. CASE ExitTimeout(p)
  BY <1>4 DEF ExitTimeout, EditorsAlone, StagedWhileEditing, ExitPolled, Editing
<1>5. CASE UpdateRestore(p)
  <2>1. EditorsAlone'
    BY <1>5 DEF UpdateRestore, SetStatus, EditorsAlone, Editing
  <2> QED
    BY <1>5, <2>1 DEF UpdateRestore, StagedWhileEditing, ExitPolled, Editing
<1>6. CASE UpdateApply(p)
  <2>1. EditorsAlone'
    BY <1>6 DEF UpdateApply, EditorsAlone, Editing
  <2> QED
    BY <1>6, <2>1 DEF UpdateApply, StagedWhileEditing, ExitPolled, Editing
<1>7. CASE Disconnect(p)
  <2>1. EditorsAlone'
    BY <1>7 DEF Disconnect, EditorsAlone, StagedWhileEditing, Editing
  <2> QED
    BY <1>7, <2>1 DEF Disconnect, StagedWhileEditing, ExitPolled, Editing
<1> HIDE DEF EditInv
<1> QED
  BY <1>1, <1>2, <1>3, <1>4, <1>5, <1>6, <1>7

(* The other steps of an operation; try_start_next passes over what is     *)
(* being edited.                                                           *)
LEMMA EditContinues ==
    ASSUME IInv, EditInv, NEW p \in Procs, Continue(p),
           ~UpdateCancel(p), ~PollActive(p), ~PollStarting(p), ~UpdateRestore(p),
           ~UpdateApply(p)
    PROVE  EditInv'
<1>1. CASE StartNext(p)
  <2>1. /\ \A g \in updating : status'[g] = "Active" => status[g] = "Active"
        /\ \A e \in Epochs : wpc'[e] = "running" => wpc[e] = "running" /\ wgid'[e] = wgid[e]
    <3>1. PICK f \in NewEpochs(Started(todo[p], room[p])) :
             LET S == DOMAIN f
                 W == {f[g] : g \in S}
             IN  /\ status' = [g \in Gids |-> IF g \in S THEN "Active" ELSE status[g]]
                 /\ wpc' = [e \in Epochs |-> IF e \in W THEN "spawned" ELSE wpc[e]]
                 /\ wgid' = [e \in Epochs |-> IF e \in W THEN CHOOSE g \in S : f[g] = e
                                                         ELSE wgid[e]]
      BY <1>1 DEF StartNext
    <3>2. DOMAIN f \cap updating = {} /\ updating \subseteq Gids
      BY <3>1 DEF NewEpochs, Started, Startable, IInv, TypeInv, FieldTypes
    <3> QED
      BY <3>1, <3>2
  <2>2. /\ updating' = updating
        /\ pc[p] \notin Editing /\ pc'[p] \notin Editing /\ staged'[p] = None
        /\ \A q \in Procs \ {p} : /\ pc'[q] = pc[q] /\ arg'[q] = arg[q]
                                  /\ tok'[q] = tok[q] /\ staged'[q] = staged[q]
    BY <1>1 DEF StartNext, Return, Goto, Clear, Editing, IInv, TypeInv, FieldTypes
  <2> QED
    BY <2>1, <2>2 DEF EditInv, EditorsAlone, StagedWhileEditing, ExitPolled, Editing
<1>2. CASE ~StartNext(p)
  <2>1. /\ UNCHANGED <<updating, wgid, wpc>>
        /\ \A g \in Gids : status'[g] = "Active" => status[g] = "Active"
        /\ pc[p] \notin Editing /\ pc'[p] \notin Editing
        /\ staged'[p] = staged[p] \/ staged'[p] = None
        /\ \A q \in Procs \ {p} : /\ pc'[q] = pc[q] /\ arg'[q] = arg[q]
                                  /\ tok'[q] = tok[q] /\ staged'[q] = staged[q]
    <3> USE DEF IInv, TypeInv, FieldTypes, Goto, KeepLocals, Return, Clear, SetStatus,
                taskVars, workerVars, Editing
    <3>1. CASE \/ Reconcile(p) \/ (\E g \in Gids : Preempt(p, g)) \/ PreemptCancel(p)
               \/ PreemptDone(p)
      BY <3>1 DEF Reconcile, Preempt, PreemptCancel, PreemptDone
    <3>2. CASE \/ CancelAllActive(p) \/ CancelAllStarting(p) \/ ScheduleCancel(p)
               \/ RetryCancel(p) \/ ShutdownCancelActive(p) \/ ShutdownCancelStarting(p)
      BY <3>2 DEF CancelAllActive, CancelAllStarting, ScheduleCancel, RetryCancel,
                  ShutdownCancelActive, ShutdownCancelStarting
    <3>3. CASE \/ PauseWrite(p) \/ RemoveWrite(p) \/ Relocated(p) \/ RelocatedOnly(p)
               \/ ShutdownDone(p)
      BY <3>3 DEF PauseWrite, RemoveWrite, Relocated, RelocatedOnly, ShutdownDone
    <3>4. CASE TryStartNext(p)
      BY <3>4 DEF TryStartNext
    <3> QED
      BY <1>2, <3>1, <3>2, <3>3, <3>4 DEF Continue
  <2>2. updating \subseteq Gids
    BY DEF IInv, TypeInv, FieldTypes
  <2> QED
    BY <2>1, <2>2, EditQuiet
<1> QED
  BY <1>1, <1>2

(* A worker begins to download only when its task is Active.               *)
LEMMA EditWorkers ==
    ASSUME IInv, EditInv, NEW e \in Epochs, WorkerStep(e)
    PROVE  EditInv'
<1> USE DEF IInv, TypeInv, FieldTypes, ArgsSet, EditInv, procVars, taskVars, workerVars
<1>1. /\ UNCHANGED <<updating, procVars>>
      /\ \A g \in Gids : status'[g] = "Active" => status[g] = "Active"
  BY DEF WorkerStep, RegisterActive, ClearStarting, StartupAborted, Run, RunEnds,
         FinishCheck, FinishWrite, FinishRemove, SetStatus, Stopped
<1>2. EditorsAlone' /\ StagedWhileEditing'
  BY <1>1 DEF EditorsAlone, StagedWhileEditing, Editing
<1>3. ExitPolled'
  <2>1. CASE Run(e)
    BY <1>1, <2>1 DEF Run, ExitPolled, EditorsAlone, Editing
  <2>2. CASE ~Run(e)
    <3>1. \A f \in Epochs : wpc'[f] = "running" => wpc[f] = "running" /\ wgid'[f] = wgid[f]
      BY <2>2 DEF WorkerStep, RegisterActive, ClearStarting, StartupAborted, RunEnds,
                  FinishCheck, FinishWrite, FinishRemove
    <3> QED
      BY <1>1, <3>1 DEF ExitPolled
  <2> QED
    BY <2>1, <2>2
<1> QED
  BY <1>2, <1>3

(* EditInv holds initially and is preserved.                               *)
LEMMA EditStep == (Init => EditInv) /\ (IInv /\ EditInv /\ [Next]_vars => EditInv')
<1>1. ASSUME Init PROVE EditInv
  BY <1>1 DEF Init, EditInv, EditorsAlone, StagedWhileEditing, ExitPolled, Editing
<1>2. ASSUME IInv, EditInv, [Next]_vars PROVE EditInv'
  <2>1. ASSUME NEW p \in Procs, CallStart(p) \/ Continue(p) \/ ExitTimeout(p) \/ Disconnect(p)
        PROVE  EditInv'
    BY <1>2, <2>1, EditCalls, EditBegins, EditSteps, EditContinues
  <2>2. ASSUME NEW e \in Epochs, WorkerStep(e)
        PROVE  EditInv'
    BY <1>2, <2>2, EditWorkers
  <2>3. CASE TickStep
    <3>1. /\ UNCHANGED <<updating, wgid, wpc, arg, tok, staged>>
          /\ \A g \in Gids : status'[g] = "Active" => status[g] = "Active"
          /\ Tick \in Procs /\ pc[Tick] \notin Editing /\ pc'[Tick] \notin Editing
          /\ \A q \in Procs \ {Tick} : pc'[q] = pc[q]
          /\ updating \subseteq Gids
      BY <1>2, <2>3 DEF TickStep, TickCap, TickEvict, TickSchedule, Drop, Goto, KeepLocals,
           taskVars, workerVars, Procs, Editing, IInv, TypeInv, FieldTypes
    <3> QED
      BY <1>2, <3>1, EditQuiet
  <2>4. CASE UNCHANGED vars \/ \E g \in Gids : TimePasses(g)
    BY <1>2, <2>4 DEF TimePasses, vars, taskVars, workerVars, procVars, EditInv, EditorsAlone,
                      StagedWhileEditing, ExitPolled
  <2> QED
    BY <1>2, <2>1, <2>2, <2>3, <2>4 DEF Next
<1> QED
  BY <1>1, <1>2

(* update_task of an Active task, which restarts its worker, replaces the  *)
(* task only when no worker of it downloads, although                      *)
(* wait_for_worker_epoch_exit reads the two registries one after the       *)
(* other.  An edit that restarts no worker is not covered.                 *)
THEOREM RestartWaitsForWorkerHolds == Spec => []RestartWaitsForWorker
<1>1. Spec => []EditInv
  BY Invariance, EditStep, PTL DEF Spec
<1>2. EditInv => RestartWaitsForWorker
  BY DEF EditInv, ExitPolled, RestartWaitsForWorker
<1> QED
  BY <1>1, <1>2, PTL

-----------------------------------------------------------------------------
(* Who makes a task Active, and who changes a worker.                      *)

(* A task becomes Active only when try_start_next starts it, or when       *)
(* update_task gives its status back.                                      *)
LEMMA BecomesActive ==
    ASSUME TypeInv, [Next]_vars, NEW g \in Gids, status[g] # "Active", status'[g] = "Active"
    PROVE  \E p \in Procs : StartNext(p) \/ UpdateRestore(p)
<1> USE DEF TypeInv, FieldTypes, SetStatus, taskVars
<1>1. ASSUME NEW p \in Procs, CallStart(p)
      PROVE  FALSE
  <2>1. ASSUME NEW h \in Gids,
               \/ \E s \in Status : Enqueue(p, h, s)
               \/ PauseCancel(p, h) \/ Unpause(p, h) \/ SetTaskSchedule(p, h)
               \/ StartTaskNow(p, h) \/ RetryWithCookies(p, h) \/ UpdateTask(p, h)
               \/ UpdateInPlace(p, h)
        PROVE  FALSE
    BY <2>1 DEF Enqueue, PauseCancel, Unpause, SetTaskSchedule, StartTaskNow,
                RetryWithCookies, UpdateTask, UpdateInPlace
  <2>2. CASE \/ \E S \in SUBSET Gids : PurgeResults(p, S)
             \/ \E S \in SUBSET Gids, target \in Gids, after \in BOOLEAN :
                   Move(p, S, target, after)
             \/ \E h \in Gids, target \in 0..(Cardinality(Gids) - 1) : Reposition(p, h, target)
             \/ \E n \in Limits : ChangeGlobalOption(p, n)
             \/ PauseAll(p) \/ UnpauseAll(p) \/ Shutdown(p)
    BY <2>2 DEF PurgeResults, Drop, Move, Reposition, ChangeGlobalOption, PauseAll,
                UnpauseAll, Shutdown
  <2> QED
    BY <1>1, <2>1, <2>2 DEF CallStart
<1>2. ASSUME NEW p \in Procs, Continue(p) \/ ExitTimeout(p) \/ Disconnect(p),
             ~StartNext(p), ~UpdateRestore(p)
      PROVE  FALSE
  <2>1. CASE (\E h \in Gids : Preempt(p, h)) \/ PauseWrite(p) \/ RemoveWrite(p)
    BY <2>1 DEF Preempt, PauseWrite, RemoveWrite
  <2>2. CASE \/ Reconcile(p) \/ PreemptCancel(p) \/ PreemptDone(p) \/ TryStartNext(p)
             \/ CancelAllActive(p) \/ CancelAllStarting(p) \/ ScheduleCancel(p)
             \/ RetryCancel(p) \/ UpdateCancel(p) \/ PollActive(p) \/ PollStarting(p)
             \/ UpdateApply(p) \/ Relocated(p) \/ RelocatedOnly(p)
             \/ ShutdownCancelActive(p) \/ ShutdownCancelStarting(p) \/ ShutdownDone(p)
             \/ ExitTimeout(p) \/ Disconnect(p)
    BY <2>2 DEF Reconcile, PreemptCancel, PreemptDone, TryStartNext, CancelAllActive,
                CancelAllStarting, ScheduleCancel, RetryCancel, UpdateCancel, PollActive,
                PollStarting, UpdateApply, Relocated, RelocatedOnly, ShutdownCancelActive,
                ShutdownCancelStarting, ShutdownDone, ExitTimeout, Disconnect
  <2> QED
    BY <1>2, <2>1, <2>2 DEF Continue
<1>3. ASSUME NEW e \in Epochs, WorkerStep(e)
      PROVE  FALSE
  BY <1>3 DEF WorkerStep, RegisterActive, ClearStarting, StartupAborted, Run, RunEnds,
              FinishCheck, FinishWrite, FinishRemove, Stopped
<1>4. CASE TickStep
  BY <1>4 DEF TickStep, TickCap, TickEvict, TickSchedule, Drop
<1>5. CASE UNCHANGED vars \/ \E h \in Gids : TimePasses(h)
  BY <1>5 DEF TimePasses, vars
<1> QED
  BY <1>1, <1>2, <1>3, <1>4, <1>5 DEF Next

(* Only try_start_next and the workers themselves change a worker.         *)
LEMMA WorkersChangeThemselves ==
    ASSUME [Next]_vars, ~(\E p \in Procs : StartNext(p)), ~(\E e \in Epochs : WorkerStep(e))
    PROVE  UNCHANGED <<wgid, wpc, wres>>
<1> USE DEF workerVars
<1>1. ASSUME NEW p \in Procs, CallStart(p)
      PROVE  UNCHANGED <<wgid, wpc, wres>>
  BY <1>1 DEF CallStart, Enqueue, PauseCancel, Unpause, SetTaskSchedule, StartTaskNow,
              RetryWithCookies, UpdateTask, UpdateInPlace, PurgeResults, Move, Reposition,
              ChangeGlobalOption, PauseAll, UnpauseAll, Shutdown
<1>2. ASSUME NEW p \in Procs, Continue(p) \/ ExitTimeout(p) \/ Disconnect(p)
      PROVE  UNCHANGED <<wgid, wpc, wres>>
  BY <1>2 DEF Continue, Reconcile, Preempt, PreemptCancel, PreemptDone, TryStartNext,
              PauseWrite, RemoveWrite, CancelAllActive, CancelAllStarting, ScheduleCancel,
              RetryCancel, UpdateCancel, PollActive, PollStarting, UpdateRestore,
              UpdateApply, Relocated, RelocatedOnly, ShutdownCancelActive, ShutdownCancelStarting,
              ShutdownDone, ExitTimeout, Disconnect
<1>3. CASE TickStep \/ (\E g \in Gids : TimePasses(g)) \/ UNCHANGED vars
  BY <1>3 DEF TickStep, TickCap, TickEvict, TickSchedule, TimePasses, vars
<1> QED
  BY <1>1, <1>2, <1>3 DEF Next

-----------------------------------------------------------------------------
(* The inductive invariant behind ActiveHasWorker: if update_task never    *)
(* gives a status back, and no worker finds itself replaced when it        *)
(* finishes, the worker of an Active task is there to write its result.    *)

NoRestore == \A p \in Procs : pc[p] # "updateRestore"
NobodyStale == \A e \in Epochs : wpc[e] # "stale"
ActiveInv == NoRestore /\ NobodyStale /\ ActiveHasWorker

(* Without timeouts update_task does not give up.                          *)
LEMMA NeverRestores ==
    ASSUME ~Timeouts, TypeInv, NoRestore, [Next]_vars
    PROVE  NoRestore'
<1> USE DEF TypeInv, FieldTypes, NoRestore, Goto, Return, KeepLocals, procVars
<1>1. ASSUME NEW p \in Procs, CallStart(p)
      PROVE  NoRestore'
  <2>1. ASSUME NEW g \in Gids,
               \/ \E s \in Status : Enqueue(p, g, s)
               \/ PauseCancel(p, g) \/ Unpause(p, g) \/ SetTaskSchedule(p, g)
               \/ StartTaskNow(p, g) \/ RetryWithCookies(p, g) \/ UpdateTask(p, g)
               \/ UpdateInPlace(p, g)
        PROVE  NoRestore'
    BY <2>1 DEF Enqueue, PauseCancel, Unpause, SetTaskSchedule, StartTaskNow,
                RetryWithCookies, UpdateTask, UpdateInPlace
  <2>2. CASE \/ \E S \in SUBSET Gids : PurgeResults(p, S)
             \/ \E S \in SUBSET Gids, target \in Gids, after \in BOOLEAN :
                   Move(p, S, target, after)
             \/ \E g \in Gids, target \in 0..(Cardinality(Gids) - 1) : Reposition(p, g, target)
             \/ \E n \in Limits : ChangeGlobalOption(p, n)
             \/ PauseAll(p) \/ UnpauseAll(p) \/ Shutdown(p)
    BY <2>2 DEF PurgeResults, Move, Reposition, ChangeGlobalOption, PauseAll, UnpauseAll,
                Shutdown
  <2> HIDE DEF NoRestore
  <2> QED
    BY <1>1, <2>1, <2>2 DEF CallStart
<1>2. ASSUME NEW p \in Procs, Continue(p) \/ ExitTimeout(p) \/ Disconnect(p)
      PROVE  NoRestore'
  BY <1>2 DEF Continue, Reconcile, Preempt, PreemptCancel, PreemptDone, TryStartNext,
              StartNext, PauseWrite, RemoveWrite, CancelAllActive, CancelAllStarting,
              ScheduleCancel, RetryCancel, UpdateCancel, PollActive, PollStarting,
              UpdateRestore, UpdateApply, Relocated, RelocatedOnly, ShutdownCancelActive,
              ShutdownCancelStarting, ShutdownDone, ExitTimeout, Disconnect
<1>3. ASSUME NEW e \in Epochs, WorkerStep(e)
      PROVE  NoRestore'
  BY <1>3 DEF WorkerStep, RegisterActive, ClearStarting, StartupAborted, Run, RunEnds,
              FinishCheck, FinishWrite, FinishRemove
<1>4. CASE TickStep \/ (\E g \in Gids : TimePasses(g)) \/ UNCHANGED vars
  BY <1>4 DEF TickStep, TickCap, TickEvict, TickSchedule, TimePasses, vars
<1> QED
  BY <1>1, <1>2, <1>3, <1>4 DEF Next

(* The steps of a worker.                                                  *)
LEMMA ActiveWorkers ==
    ASSUME IInv, ActiveInv, NEW e \in Epochs, WorkerStep(e)
    PROVE  NobodyStale' /\ ActiveHasWorker'
<1> USE DEF IInv, TypeInv, FieldTypes, ActiveInv, NobodyStale, taskVars, workerVars
<1>1. NobodyStale'
  BY DEF WorkerStep, RegisterActive, ClearStarting, StartupAborted, Run, RunEnds,
         FinishCheck, FinishWrite, FinishRemove, WorkersKnown, Live
<1>2. ActiveHasWorker'
  <2>1. CASE \E s \in Stopped \cup {"Paused"} : FinishWrite(e, s)
    BY <2>1 DEF FinishWrite, SetStatus, Stopped, ActiveHasWorker, WorkersKnown, Live
  <2>2. CASE FinishRemove(e)
    BY <2>2 DEF FinishRemove, ActiveHasWorker, Live
  <2>3. CASE ~FinishRemove(e) /\ ~(\E s \in Stopped \cup {"Paused"} : FinishWrite(e, s))
    <3>1. /\ status' = status /\ wgid' = wgid
          /\ wpc'[e] \notin {"none", "written"} /\ \A f \in Epochs \ {e} : wpc'[f] = wpc[f]
      BY <2>3 DEF WorkerStep, RegisterActive, ClearStarting, StartupAborted, Run, RunEnds,
                  FinishCheck
    <3> QED
      BY <1>1, <3>1 DEF ActiveHasWorker, Live
  <2> QED
    BY <2>1, <2>2, <2>3
<1> QED
  BY <1>1, <1>2

(* The tasks that try_start_next makes Active get a worker each, and it    *)
(* takes no epoch that is in use.                                          *)
LEMMA ActiveStarts ==
    ASSUME IInv, ActiveInv, NEW p \in Procs, StartNext(p)
    PROVE  NobodyStale' /\ ActiveHasWorker'
<1> USE DEF IInv, TypeInv, FieldTypes, ActiveInv
<1>1. PICK f \in NewEpochs(Started(todo[p], room[p])) :
         LET S == DOMAIN f
             W == {f[g] : g \in S}
         IN  /\ status' = [g \in Gids |-> IF g \in S THEN "Active" ELSE status[g]]
             /\ wpc' = [e \in Epochs |-> IF e \in W THEN "spawned" ELSE wpc[e]]
             /\ wgid' = [e \in Epochs |-> IF e \in W THEN CHOOSE g \in S : f[g] = e
                                                     ELSE wgid[e]]
  BY DEF StartNext
<1> DEFINE S == DOMAIN f
           W == {f[g] : g \in S}
<1>2. /\ S \subseteq Gids /\ f \in [S -> Epochs]
      /\ \A g \in S : wpc[f[g]] = "none"
      /\ \A g, h \in S : f[g] = f[h] => g = h
  BY <1>1 DEF NewEpochs, Started, Startable, FreeEpochs, Live
<1>3. \A g \in S : wgid'[f[g]] = g /\ wpc'[f[g]] = "spawned"
  <2> SUFFICES ASSUME NEW g \in S
               PROVE  wgid'[f[g]] = g /\ wpc'[f[g]] = "spawned"
    OBVIOUS
  <2>1. (CHOOSE h \in S : f[h] = f[g]) = g
    BY <1>2
  <2> QED
    BY <1>1, <1>2, <2>1
<1>4. \A e \in Epochs : Live(e) => wgid'[e] = wgid[e] /\ wpc'[e] = wpc[e]
  BY <1>1, <1>2 DEF Live
<1>5. NobodyStale'
  BY <1>1 DEF NobodyStale
<1>6. \A g \in Gids \ S : status'[g] = status[g]
  BY <1>1
<1> HIDE DEF S
<1>7. ActiveHasWorker'
  <2> SUFFICES ASSUME NEW g \in Gids, status'[g] = "Active"
               PROVE  \E e \in Epochs : /\ Live(e)' /\ wgid'[e] = g
                                        /\ wpc'[e] \notin {"stale", "written"}
    BY DEF ActiveHasWorker
  <2>1. CASE g \in S
    BY <1>2, <1>3, <2>1 DEF Live
  <2>2. CASE g \notin S
    BY <1>4, <1>6, <2>2 DEF ActiveHasWorker, Live
  <2> QED
    BY <2>1, <2>2
<1> QED
  BY <1>5, <1>7

(* As long as no worker outlives WORKER_EXIT_TIMEOUT, an Active task has a *)
(* worker that has yet to write its result, so that no task stays Active   *)
(* for ever with nobody at work.  With timeouts this fails (RestoreRace).  *)
THEOREM ActiveHasWorkerHolds == ASSUME ~Timeouts PROVE Spec => []ActiveHasWorker
<1>1. Init => ActiveInv
  <2> SUFFICES ASSUME Init PROVE ActiveInv
    OBVIOUS
  <2>1. \A g \in Gids : status[g] # "Active"
    BY ListAssumption DEF Init
  <2> QED
    BY <2>1 DEF Init, ActiveInv, NoRestore, NobodyStale, ActiveHasWorker
<1>2. IInv /\ ActiveInv /\ [Next]_vars => ActiveInv'
  <2> SUFFICES ASSUME IInv, ActiveInv, [Next]_vars PROVE ActiveInv'
    OBVIOUS
  <2>1. NoRestore'
    BY NeverRestores DEF IInv, ActiveInv
  <2>2. CASE \E e \in Epochs : WorkerStep(e)
    BY <2>1, <2>2, ActiveWorkers DEF ActiveInv
  <2>3. CASE \E p \in Procs : StartNext(p)
    BY <2>1, <2>3, ActiveStarts DEF ActiveInv
  <2>4. CASE ~(\E p \in Procs : StartNext(p)) /\ ~(\E e \in Epochs : WorkerStep(e))
    <3>1. UNCHANGED <<wgid, wpc, wres>>
      BY <2>4, WorkersChangeThemselves
    <3>2. \A g \in Gids : status'[g] = "Active" => status[g] = "Active"
      BY <2>4, BecomesActive DEF IInv, ActiveInv, NoRestore, UpdateRestore
    <3> QED
      BY <2>1, <3>1, <3>2 DEF ActiveInv, NobodyStale, ActiveHasWorker, Live
  <2> QED
    BY <2>2, <2>3, <2>4
<1>3. ActiveInv => ActiveHasWorker
  BY DEF ActiveInv
<1> QED
  BY <1>1, <1>2, <1>3, Invariance, PTL DEF Spec

-----------------------------------------------------------------------------
(* Without retry_with_cookies nothing revives a removed task: a late       *)
(* result of its worker is written only over Active.                       *)
StaysRemoved ==
    \A g \in Gids : status[g] = "Removed" => status'[g] \in {"Removed", "Absent"}

(* Every step leaves a removed task removed, or takes it off the list.     *)
LEMMA RemovedStep ==
    ASSUME "retry" \notin Ops, TypeInv, [Next]_vars
    PROVE  StaysRemoved
<1> USE DEF StaysRemoved, TypeInv, FieldTypes, SetStatus, taskVars
<1>1. ASSUME NEW p \in Procs, CallStart(p)
      PROVE  StaysRemoved
  <2>1. ASSUME NEW g \in Gids,
               \/ \E s \in Status : Enqueue(p, g, s)
               \/ PauseCancel(p, g) \/ Unpause(p, g) \/ SetTaskSchedule(p, g)
               \/ StartTaskNow(p, g) \/ RetryWithCookies(p, g) \/ UpdateTask(p, g)
               \/ UpdateInPlace(p, g)
        PROVE  StaysRemoved
    BY <2>1 DEF Enqueue, Unknown, Listed, PauseCancel, Unpause, SetTaskSchedule, Stopped,
                StartTaskNow, RetryWithCookies, Call, UpdateTask, UpdateInPlace
  <2>2. CASE \/ \E S \in SUBSET Gids : PurgeResults(p, S)
             \/ \E S \in SUBSET Gids, target \in Gids, after \in BOOLEAN :
                   Move(p, S, target, after)
             \/ \E g \in Gids, target \in 0..(Cardinality(Gids) - 1) : Reposition(p, g, target)
             \/ \E n \in Limits : ChangeGlobalOption(p, n)
             \/ PauseAll(p) \/ UnpauseAll(p) \/ Shutdown(p)
    BY <2>2 DEF PurgeResults, Drop, Move, Reposition, ChangeGlobalOption, PauseAll, Queued,
                UnpauseAll, Shutdown
  <2> HIDE DEF StaysRemoved
  <2> QED
    BY <1>1, <2>1, <2>2 DEF CallStart
<1>2. ASSUME NEW p \in Procs, Continue(p) \/ ExitTimeout(p) \/ Disconnect(p)
      PROVE  StaysRemoved
  <2>1. CASE (\E g \in Gids : Preempt(p, g)) \/ PauseWrite(p) \/ RemoveWrite(p)
               \/ UpdateRestore(p)
    BY <2>1 DEF Preempt, PauseWrite, Queued, RemoveWrite, UpdateRestore
  <2>2. CASE StartNext(p)
    BY <2>2 DEF StartNext, NewEpochs, Started, Startable
  <2>3. CASE \/ Reconcile(p) \/ PreemptCancel(p) \/ PreemptDone(p) \/ TryStartNext(p)
             \/ CancelAllActive(p) \/ CancelAllStarting(p) \/ ScheduleCancel(p)
             \/ RetryCancel(p) \/ UpdateCancel(p) \/ PollActive(p) \/ PollStarting(p)
             \/ UpdateApply(p) \/ Relocated(p) \/ RelocatedOnly(p)
             \/ ShutdownCancelActive(p) \/ ShutdownCancelStarting(p) \/ ShutdownDone(p)
             \/ ExitTimeout(p) \/ Disconnect(p)
    BY <2>3 DEF Reconcile, PreemptCancel, PreemptDone, TryStartNext, CancelAllActive,
                CancelAllStarting, ScheduleCancel, RetryCancel, UpdateCancel, PollActive,
                PollStarting, UpdateApply, Relocated, RelocatedOnly, ShutdownCancelActive,
                ShutdownCancelStarting, ShutdownDone, ExitTimeout, Disconnect
  <2> HIDE DEF StaysRemoved
  <2> QED
    BY <1>2, <2>1, <2>2, <2>3 DEF Continue
<1>3. ASSUME NEW e \in Epochs, WorkerStep(e)
      PROVE  StaysRemoved
  BY <1>3 DEF WorkerStep, RegisterActive, ClearStarting, StartupAborted, Run, RunEnds,
              FinishCheck, FinishWrite, FinishRemove
<1>4. CASE TickStep
  BY <1>4 DEF TickStep, TickCap, TickEvict, TickSchedule, Promoted, Drop
<1>5. CASE UNCHANGED vars \/ \E g \in Gids : TimePasses(g)
  BY <1>5 DEF TimePasses, vars
<1> HIDE DEF StaysRemoved
<1> QED
  BY <1>1, <1>2, <1>3, <1>4, <1>5 DEF Next

(* A removed task stays removed until it leaves the list, whatever its     *)
(* worker, an overlapping call or the tick still does.                     *)
THEOREM RemovedStaysRemovedHolds ==
    ASSUME "retry" \notin Ops PROVE Spec => RemovedStaysRemoved
<1>1. IInv /\ [Next]_vars => [StaysRemoved]_vars
  BY RemovedStep DEF IInv
<1> QED
  BY <1>1, Invariance, PTL DEF Spec, RemovedStaysRemoved, StaysRemoved

-----------------------------------------------------------------------------
(* The list.  Every listed task is in it, once.                            *)

ListInv ==
    /\ order \in Seq(Gids) /\ NoRepeats(order)
    /\ \A g \in Gids : Listed(g) <=> g \in Elems(order)

SameList == order' = order /\ \A g \in Gids : status'[g] = "Absent" <=> status[g] = "Absent"

(* What a caller may do to the list; the tick evicts from it.              *)
Relists(p) ==
    \/ \E g \in Gids, s \in Status : Enqueue(p, g, s)
    \/ \E S \in SUBSET Gids : PurgeResults(p, S)
    \/ \E S \in SUBSET Gids, target \in Gids, after \in BOOLEAN : Move(p, S, target, after)
    \/ \E g \in Gids, target \in 0..(Cardinality(Gids) - 1) : Reposition(p, g, target)

(* Every other step leaves it alone.                                       *)
LEMMA ListQuiet ==
    ASSUME TypeInv, [Next]_vars, ~TickEvict, \A p \in Procs : ~Relists(p)
    PROVE  SameList
<1> USE DEF SameList, TypeInv, FieldTypes, SetStatus, taskVars
<1>1. ASSUME NEW p \in Procs, CallStart(p)
      PROVE  SameList
  <2>1. ASSUME NEW g \in Gids,
               \/ PauseCancel(p, g) \/ Unpause(p, g) \/ SetTaskSchedule(p, g)
               \/ StartTaskNow(p, g) \/ RetryWithCookies(p, g) \/ UpdateTask(p, g)
               \/ UpdateInPlace(p, g)
        PROVE  SameList
    BY <2>1 DEF PauseCancel, Unpause, SetTaskSchedule, StartTaskNow, RetryWithCookies,
                UpdateTask, UpdateInPlace, Listed
  <2>2. CASE (\E n \in Limits : ChangeGlobalOption(p, n)) \/ Shutdown(p)
               \/ PauseAll(p) \/ UnpauseAll(p)
    BY <2>2 DEF ChangeGlobalOption, PauseAll, UnpauseAll, Shutdown, Queued
  <2> HIDE DEF SameList
  <2> QED
    BY <1>1, <2>1, <2>2 DEF CallStart, Relists
<1>2. ASSUME NEW p \in Procs, Continue(p) \/ ExitTimeout(p) \/ Disconnect(p)
      PROVE  SameList
  <2>1. CASE (\E g \in Gids : Preempt(p, g)) \/ PauseWrite(p) \/ RemoveWrite(p)
               \/ UpdateRestore(p)
    BY <2>1 DEF Preempt, PauseWrite, Queued, RemoveWrite, Listed, UpdateRestore
  <2>2. CASE StartNext(p)
    BY <2>2 DEF StartNext, NewEpochs, Started, Startable
  <2>3. CASE \/ Reconcile(p) \/ PreemptCancel(p) \/ PreemptDone(p) \/ TryStartNext(p)
             \/ CancelAllActive(p) \/ CancelAllStarting(p) \/ ScheduleCancel(p)
             \/ RetryCancel(p) \/ UpdateCancel(p) \/ PollActive(p) \/ PollStarting(p)
             \/ UpdateApply(p) \/ Relocated(p) \/ RelocatedOnly(p)
             \/ ShutdownCancelActive(p) \/ ShutdownCancelStarting(p) \/ ShutdownDone(p)
             \/ ExitTimeout(p) \/ Disconnect(p)
    BY <2>3 DEF Reconcile, PreemptCancel, PreemptDone, TryStartNext, CancelAllActive,
                CancelAllStarting, ScheduleCancel, RetryCancel, UpdateCancel, PollActive,
                PollStarting, UpdateApply, Relocated, RelocatedOnly, ShutdownCancelActive,
                ShutdownCancelStarting, ShutdownDone, ExitTimeout, Disconnect
  <2> HIDE DEF SameList
  <2> QED
    BY <1>2, <2>1, <2>2, <2>3 DEF Continue
<1>3. ASSUME NEW e \in Epochs, WorkerStep(e)
      PROVE  SameList
  BY <1>3 DEF WorkerStep, RegisterActive, ClearStarting, StartupAborted, Run, RunEnds,
              FinishCheck, FinishWrite, FinishRemove, Stopped
<1>4. CASE TickCap \/ TickSchedule
  BY <1>4 DEF TickCap, TickSchedule, Promoted
<1>5. CASE UNCHANGED vars \/ \E g \in Gids : TimePasses(g)
  BY <1>5 DEF TimePasses, vars
<1> HIDE DEF SameList
<1> QED
  BY <1>1, <1>2, <1>3, <1>4, <1>5 DEF Next, TickStep

(* The steps that change the list keep it in agreement with the statuses.  *)
LEMMA ListChanges ==
    ASSUME TypeInv, ListInv, NEW p \in Procs, TickEvict \/ Relists(p)
    PROVE  ListInv'
<1> USE DEF TypeInv, FieldTypes, Listed, ListInv
<1>1. ASSUME NEW g \in Gids, NEW s \in Status, Enqueue(p, g, s) PROVE ListInv'
  <2>1. order' = Append(order, g) /\ g \notin Elems(order) /\ s # "Absent"
    BY <1>1 DEF Enqueue, Unknown
  <2>2. /\ order' \in Seq(Gids) /\ Elems(order') = Elems(order) \cup {g}
        /\ NoRepeats(order')
    BY <2>1, Appended
  <2>3. \A h \in Gids : status'[h] = IF h = g THEN s ELSE status[h]
    BY <1>1 DEF Enqueue, SetStatus
  <2> QED BY <2>1, <2>2, <2>3
<1>2. ASSUME NEW S \in SUBSET Gids, Drop(S) PROVE ListInv'
  <2>1. /\ order' = Without(order, S)
        /\ \A h \in Gids : status'[h] = IF h \in S THEN "Absent" ELSE status[h]
    BY <1>2 DEF Drop
  <2>2. order' \in Seq(Gids) /\ Elems(order') = Elems(order) \ S /\ NoRepeats(order')
    BY <2>1, DropKeeps
  <2> QED BY <2>1, <2>2
<1>3. ASSUME NEW S \in SUBSET Gids, NEW target \in Gids, NEW after \in BOOLEAN,
             Move(p, S, target, after)
      PROVE  ListInv'
  <2>1. /\ order' = MoveTasks(order, S, target, after) /\ CanMove(order, S, target)
        /\ status' = status
    BY <1>3 DEF Move
  <2>2. order' \in Seq(Gids) /\ Elems(order') = Elems(order) /\ NoRepeats(order')
    BY <2>1, MoveKeeps
  <2> QED BY <2>1, <2>2
<1>4. ASSUME NEW g \in Gids, NEW target \in 0..(Cardinality(Gids) - 1),
             Reposition(p, g, target)
      PROVE  ListInv'
  <2> DEFINE W == {h \in Gids : status[h] \in {"Waiting", "Paused"}}
  <2>1. order' = ChangePosition(order, W, g, target) /\ g \in W /\ status' = status
    BY <1>4 DEF Reposition
  <2>2. g \in Elems(order) /\ target \in Nat
    BY <2>1
  <2> HIDE DEF W
  <2>3. order' \in Seq(Gids) /\ Elems(order') = Elems(order) /\ NoRepeats(order')
    BY <2>1, <2>2, PositionKeeps
  <2> QED BY <2>1, <2>3
<1>5. ASSUME TickEvict PROVE ListInv'
  <2>1. {g \in todo[Tick] : status[g] \in Stopped} \in SUBSET Gids
    BY DEF Procs
  <2> QED BY <1>2, <1>5, <2>1 DEF TickEvict
<1>6. ASSUME NEW S \in SUBSET Gids, PurgeResults(p, S) PROVE ListInv'
  BY <1>2, <1>6 DEF PurgeResults
<1> HIDE DEF ListInv
<1> QED
  BY <1>1, <1>3, <1>4, <1>5, <1>6 DEF Relists

(* The task list holds every task that has a status, and no task twice,    *)
(* whatever is added, purged, evicted and moved meanwhile.                 *)
THEOREM ListHolds == Spec => [](TypeOK /\ ListInv)
<1>1. Init => ListInv
  <2> SUFFICES ASSUME Init PROVE ListInv
    OBVIOUS
  <2>1. PICK s \in Sessions :
           /\ order = s.order
           /\ status = [g \in Gids |-> IF \E i \in 1..Len(s.order) : s.order[i] = g
                                         THEN s.status[g] ELSE "Absent"]
    BY DEF Init
  <2>2. s.order \in Seq(Gids) /\ NoRepeats(s.order)
    BY ListAssumption
  <2>3. \A g \in Gids : s.status[g] # "Absent"
    BY ListAssumption DEF Status
  <2>4. \A g \in Gids : Listed(g) <=> \E i \in 1..Len(s.order) : s.order[i] = g
    BY <2>1, <2>3 DEF Listed
  <2>5. \A g : g \in Elems(s.order) <=> \E i \in 1..Len(s.order) : s.order[i] = g
    BY DEF Elems
  <2> QED BY <2>1, <2>2, <2>4, <2>5 DEF ListInv
<1>2. ListInv /\ IInv /\ [Next]_vars => ListInv'
  <2> SUFFICES ASSUME ListInv, IInv, [Next]_vars PROVE ListInv'
    OBVIOUS
  <2>0. TypeInv
    BY DEF IInv
  <2>1. CASE TickEvict \/ \E p \in Procs : Relists(p)
    <3>1. Tick \in Procs
      BY DEF Procs
    <3> QED BY <2>0, <2>1, <3>1, ListChanges
  <2>2. CASE ~(TickEvict \/ \E p \in Procs : Relists(p))
    <3>1. SameList
      BY <2>0, <2>2, ListQuiet
    <3> QED BY <3>1 DEF ListInv, SameList, Listed
  <2> QED BY <2>1, <2>2
<1>3. IInv /\ ListInv => TypeOK /\ ListInv
  BY DEF IInv, TypeInv, ListInv, TypeOK
<1> QED
  BY <1>1, <1>2, <1>3, Invariance, PTL DEF Spec

-----------------------------------------------------------------------------
(* The limit.  Tasks become busy only in try_start_next, under the reload  *)
(* lock: the snapshot and the free slots counted then are within the limit *)
(* of that moment, and no more tasks are started than there were slots.    *)

RoomWithin ==
    \A p \in Procs : pc[p] = "starting" =>
       \E n \in Limits : Cardinality(todo[p]) + room[p] <= n
LimitInv == BusyWithinLimit /\ RoomWithin

(* No more than n tasks have fewer than n others before them: all the      *)
(* started ones but the last of the list are before that one.              *)
LEMMA StartedFit ==
    ASSUME TypeInv, ListInv, NEW busy, NEW n \in Nat
    PROVE  IsFiniteSet(Started(busy, n)) /\ Cardinality(Started(busy, n)) <= n
<1> DEFINE T == Started(busy, n)
           B(g) == {h \in Startable(busy) : Before(h, g)}
           at(g) == Index(order, g)
<1>1. /\ T \subseteq Startable(busy) /\ Startable(busy) \subseteq Gids
      /\ \A g \in T : Cardinality(B(g)) < n
  BY DEF Started, Startable
<1>2. IsFiniteSet(T)
  BY <1>1, FS_Subset, BoundAssumption
<1>3. CASE T = {}
  <2>1. Cardinality(T) = 0
    BY <1>3, FS_EmptySet
  <2> QED BY <1>2, <2>1
<1>4. CASE T # {}
  <2>1. \A g \in T : g \in Elems(order)
    BY <1>1 DEF Startable, ListInv, Listed
  <2>2. \A g \in T : at(g) \in 1..Len(order) /\ order[at(g)] = g
    <3> TAKE g \in T
    <3>1. order \in Seq(Gids) /\ g \in Elems(order)
      BY <2>1 DEF ListInv
    <3> QED BY <3>1, IndexOfElement
  <2> HIDE DEF T, B, at
  <2> DEFINE K == {Len(order) - at(g) : g \in T}
  <2>3. Len(order) \in Nat
    BY DEF ListInv
  <2>4. K \in SUBSET Nat /\ K # {}
    BY <1>4, <2>2, <2>3
  <2>5. PICK x \in K : \A y \in K : x <= y
    <3> HIDE DEF K
    <3> QED BY <2>4, LeastElement
  <2>6. PICK g \in T : x = Len(order) - at(g)
    BY <2>5
  <2>7. \A h \in T : at(h) <= at(g)
    <3> TAKE h \in T
    <3>1. Len(order) - at(g) <= Len(order) - at(h)
      BY <2>5, <2>6
    <3> QED BY <2>2, <2>3, <3>1
  <2>8. T \ {g} \subseteq B(g)
    <3> SUFFICES ASSUME NEW h \in T, h # g PROVE h \in B(g)
      OBVIOUS
    <3>1. at(h) # at(g)
      BY <2>2
    <3>2. at(h) \in 1..(at(g) - 1) /\ at(g) \in 1..Len(order)
      BY <2>2, <2>7, <3>1
    <3>3. Before(h, g)
      BY <2>2, <3>2 DEF Before
    <3> QED BY <1>1, <3>3 DEF B
  <2>9. IsFiniteSet(B(g)) /\ Cardinality(B(g)) \in Nat
    <3>1. B(g) \subseteq Gids
      BY <1>1 DEF B
    <3> QED BY <3>1, FS_Subset, FS_CardinalityType, BoundAssumption
  <2>10. Cardinality(T \ {g}) = Cardinality(T) - 1 /\ Cardinality(T) \in Nat
    BY <1>2, <2>6, FS_RemoveElement, FS_CardinalityType
  <2>11. Cardinality(T \ {g}) <= Cardinality(B(g))
    BY <2>8, <2>9, FS_Subset
  <2>12. Cardinality(T) <= n
    BY <1>1, <2>6, <2>9, <2>10, <2>11
  <2> QED BY <1>2, <2>12 DEF T
<1> QED
  BY <1>3, <1>4

(* The step of try_start_next that starts them.                            *)
LEMMA LimitStarts ==
    ASSUME IInv, TypeInv', ListInv, LimitInv, NEW p \in Procs, StartNext(p)
    PROVE  BusyWithinLimit'
<1> DEFINE S == Started(todo[p], room[p])
<1>0. room[p] \in Nat /\ todo[p] \subseteq Gids /\ TypeInv
  BY DEF IInv, TypeInv, FieldTypes
<1>1. IsFiniteSet(S) /\ Cardinality(S) <= room[p] /\ Cardinality(S) \in Nat
  BY <1>0, StartedFit, FS_CardinalityType
<1>2. PICK n \in Limits : Cardinality(todo[p]) + room[p] <= n
  BY DEF StartNext, LimitInv, RoomWithin
<1>3. Busy' \subseteq todo[p] \cup S
  <2>1. Busy \subseteq todo[p]
    BY DEF IInv, SnapshotCovers, StartNext
  <2>2. \A g \in Gids : g \notin S => starting'[g] = starting[g] /\ active'[g] = active[g]
    BY DEF StartNext, NewEpochs
  <2> HIDE DEF S
  <2> QED BY <2>1, <2>2 DEF Busy
<1>4. IsFiniteSet(todo[p]) /\ Cardinality(todo[p]) \in Nat
  BY <1>0, FS_Subset, FS_CardinalityType, BoundAssumption
<1> HIDE DEF S
<1>5. /\ IsFiniteSet(todo[p] \cup S)
      /\ Cardinality(todo[p] \cup S)
           = Cardinality(todo[p]) + Cardinality(S) - Cardinality(todo[p] \cap S)
  BY <1>1, <1>4, FS_Union
<1>6. Cardinality(todo[p] \cap S) \in Nat
  <2>1. todo[p] \cap S \in SUBSET S
    OBVIOUS
  <2>2. IsFiniteSet(todo[p] \cap S)
    BY <1>1, <2>1, FS_Subset
  <2> QED BY <2>2, FS_CardinalityType
<1>7. Cardinality(Busy') <= Cardinality(todo[p] \cup S) /\ Cardinality(Busy') \in Nat
  BY <1>3, <1>5, FS_Subset, FS_CardinalityType
<1>8. n \in Nat
  BY BoundAssumption
<1>9. Cardinality(Busy') <= n
  BY <1>0, <1>1, <1>2, <1>4, <1>5, <1>6, <1>7, <1>8
<1> QED
  BY <1>9 DEF BusyWithinLimit

(* Fewer busy tasks are within the limit, too.                             *)
LEMMA FewerBusy ==
    ASSUME BusyWithinLimit, Busy' \subseteq Busy
    PROVE  BusyWithinLimit'
<1>1. PICK n \in Limits : Cardinality(Busy) <= n
  BY DEF BusyWithinLimit
<1>2. IsFiniteSet(Busy) /\ Cardinality(Busy) \in Nat
  <2>1. Busy \subseteq Gids
    BY DEF Busy
  <2> QED BY <2>1, FS_Subset, FS_CardinalityType, BoundAssumption
<1>3. Cardinality(Busy') <= Cardinality(Busy) /\ Cardinality(Busy') \in Nat
  BY <1>2, FS_Subset, FS_CardinalityType
<1>4. n \in Nat
  BY BoundAssumption
<1> QED
  BY <1>1, <1>2, <1>3, <1>4 DEF BusyWithinLimit

(* A step of a process that neither touches the registries nor enters the  *)
(* section under the reload lock.                                          *)
LEMMA LimitQuiet ==
    ASSUME LimitInv, NEW p \in Procs, UNCHANGED <<starting, active>>, pc'[p] # "starting",
           \A q \in Procs \ {p} : pc'[q] = pc[q] /\ todo'[q] = todo[q] /\ room'[q] = room[q]
    PROVE  LimitInv'
<1>1. Busy' = Busy
  BY DEF Busy
<1>2. BusyWithinLimit'
  BY <1>1, FewerBusy DEF LimitInv
<1>3. RoomWithin'
  BY DEF LimitInv, RoomWithin
<1> QED
  BY <1>2, <1>3 DEF LimitInv

(* The processes outside try_start_next.                                   *)
LEMMA LimitProcs ==
    ASSUME TypeInv, LimitInv, NEW p \in Procs,
           CallStart(p) \/ Continue(p) \/ ExitTimeout(p) \/ Disconnect(p)
             \/ (p = Tick /\ TickStep),
           ~TryStartNext(p), ~StartNext(p)
    PROVE  LimitInv'
<1> DEFINE Quiet ==
             /\ UNCHANGED <<starting, active>> /\ pc'[p] # "starting"
             /\ \A q \in Procs \ {p} :
                  pc'[q] = pc[q] /\ todo'[q] = todo[q] /\ room'[q] = room[q]
<1>1. CASE CallStart(p)
  <2> USE DEF TypeInv, FieldTypes, Call, Goto, KeepLocals, regVars, procVars
  <2>1. CASE \E g \in Gids : \/ \E s \in Status : Enqueue(p, g, s)
                             \/ PauseCancel(p, g) \/ Unpause(p, g) \/ SetTaskSchedule(p, g)
                             \/ StartTaskNow(p, g) \/ RetryWithCookies(p, g) \/ UpdateTask(p, g)
                             \/ UpdateInPlace(p, g)
    <3>1. Quiet
      BY <2>1 DEF Enqueue, PauseCancel, Unpause, SetTaskSchedule, StartTaskNow,
                  RetryWithCookies, UpdateTask, UpdateInPlace
    <3> HIDE DEF TypeInv
    <3> QED BY <3>1, LimitQuiet
  <2>2. CASE \/ \E S \in SUBSET Gids : PurgeResults(p, S)
             \/ \E S \in SUBSET Gids, target \in Gids, after \in BOOLEAN :
                   Move(p, S, target, after)
             \/ \E g \in Gids, target \in 0..(Cardinality(Gids) - 1) : Reposition(p, g, target)
             \/ \E n \in Limits : ChangeGlobalOption(p, n)
             \/ PauseAll(p) \/ UnpauseAll(p) \/ Shutdown(p)
    <3>1. Quiet
      BY <2>2 DEF PurgeResults, Move, Reposition, ChangeGlobalOption, PauseAll, UnpauseAll,
                  Shutdown
    <3> HIDE DEF TypeInv
    <3> QED BY <3>1, LimitQuiet
  <2> QED
    BY <1>1, <2>1, <2>2 DEF CallStart
<1>2. CASE Continue(p) \/ ExitTimeout(p) \/ Disconnect(p)
  <2> USE DEF TypeInv, FieldTypes, Goto, KeepLocals, Return, Clear, regVars
  <2>1. CASE \/ Reconcile(p) \/ (\E g \in Gids : Preempt(p, g)) \/ PreemptDone(p)
             \/ PreemptCancel(p) \/ CancelAllActive(p) \/ CancelAllStarting(p)
             \/ ScheduleCancel(p) \/ RetryCancel(p) \/ UpdateCancel(p)
             \/ ShutdownCancelActive(p) \/ ShutdownCancelStarting(p)
    <3>1. Quiet
      BY <2>1 DEF Reconcile, Preempt, PreemptDone, PreemptCancel, CancelAllActive,
                  CancelAllStarting, ScheduleCancel, RetryCancel, UpdateCancel,
                  ShutdownCancelActive, ShutdownCancelStarting
    <3> HIDE DEF TypeInv
    <3> QED BY <3>1, LimitQuiet
  <2>2. CASE \/ PauseWrite(p) \/ RemoveWrite(p) \/ PollActive(p) \/ PollStarting(p)
             \/ UpdateRestore(p) \/ UpdateApply(p) \/ Relocated(p) \/ RelocatedOnly(p) \/ ShutdownDone(p)
             \/ ExitTimeout(p) \/ Disconnect(p)
    <3>1. Quiet
      BY <2>2 DEF PauseWrite, RemoveWrite, PollActive, PollStarting, UpdateRestore,
                  UpdateApply, Relocated, RelocatedOnly, ShutdownDone, ExitTimeout, Disconnect
    <3> HIDE DEF TypeInv
    <3> QED BY <3>1, LimitQuiet
  <2> QED
    BY <1>2, <2>1, <2>2 DEF Continue
<1>3. CASE p = Tick /\ TickStep
  <2>1. Quiet
    BY <1>3 DEF TickStep, TickCap, TickEvict, TickSchedule, Goto, KeepLocals, regVars,
                TypeInv, FieldTypes
  <2> QED BY <2>1, LimitQuiet
<1> QED
  BY <1>1, <1>2, <1>3

(* Every step keeps the limit.                                             *)
LEMMA LimitStep ==
    ASSUME IInv, IInv', ListInv, LimitInv, [Next]_vars
    PROVE  LimitInv'
<1>0. TypeInv /\ TypeInv'
  BY DEF IInv
<1>1. ASSUME NEW p \in Procs, StartNext(p) PROVE LimitInv'
  <2>1. BusyWithinLimit'
    BY <1>0, <1>1, LimitStarts
  <2>2. RoomWithin'
    BY <1>0, <1>1 DEF StartNext, Return, Goto, Clear, LimitInv, RoomWithin, TypeInv, FieldTypes
  <2> QED BY <2>1, <2>2 DEF LimitInv
<1>2. ASSUME NEW p \in Procs, TryStartNext(p) PROVE LimitInv'
  <2>1. Busy' = Busy
    BY <1>2 DEF TryStartNext, regVars, Busy
  <2>2. BusyWithinLimit'
    BY <2>1, FewerBusy DEF LimitInv
  <2>3. CASE down \/ Cardinality(Busy) >= limit
    BY <1>0, <1>2, <2>2, <2>3, SMTT(30)
       DEF TryStartNext, Return, Goto, Clear, LimitInv, RoomWithin, TypeInv, FieldTypes
  <2>4. CASE ~(down \/ Cardinality(Busy) >= limit)
    <3>1. /\ todo'[p] = Busy /\ room'[p] = limit - Cardinality(Busy) /\ limit \in Limits
          /\ \A q \in Procs \ {p} :
               pc'[q] = pc[q] /\ todo'[q] = todo[q] /\ room'[q] = room[q]
      BY <1>0, <1>2, <2>4 DEF TryStartNext, Goto, TypeInv, FieldTypes
    <3>2. Cardinality(Busy) \in Nat
      <4>1. Busy \subseteq Gids
        BY DEF Busy
      <4> QED BY <4>1, FS_Subset, FS_CardinalityType, BoundAssumption
    <3>3. Cardinality(todo'[p]) + room'[p] <= limit
      BY <3>1, <3>2, BoundAssumption
    <3>4. RoomWithin'
      BY <3>1, <3>3 DEF RoomWithin, LimitInv
    <3> QED BY <2>2, <3>4 DEF LimitInv
  <2> QED BY <2>3, <2>4
<1>3. ASSUME NEW p \in Procs, ~TryStartNext(p), ~StartNext(p),
             CallStart(p) \/ Continue(p) \/ ExitTimeout(p) \/ Disconnect(p)
               \/ (p = Tick /\ TickStep)
      PROVE  LimitInv'
  BY <1>0, <1>3, LimitProcs
<1>4. ASSUME NEW e \in Epochs, WorkerStep(e) PROVE LimitInv'
  <2> USE DEF IInv, TypeInv, FieldTypes
  <2>1. UNCHANGED <<pc, todo, room>>
    BY <1>4 DEF WorkerStep, RegisterActive, ClearStarting, StartupAborted, Run, RunEnds,
                FinishCheck, FinishWrite, FinishRemove, procVars
  <2>2. Busy' \subseteq Busy
    <3>1. CASE RegisterActive(e)
      BY <3>1, NoneAssumption DEF RegisterActive, WorkersKnown, Live, Busy
    <3>2. CASE ClearStarting(e)
      BY <3>2, NoneAssumption DEF ClearStarting, Busy
    <3>3. CASE FinishRemove(e)
      BY <3>3, NoneAssumption DEF FinishRemove, Busy
    <3>4. CASE \/ StartupAborted(e) \/ Run(e) \/ FinishCheck(e)
               \/ \E r \in {"ok", "error", "cancelled"} : RunEnds(e, r)
               \/ \E s \in Stopped \cup {"Paused"} : FinishWrite(e, s)
      BY <3>4 DEF StartupAborted, Run, FinishCheck, RunEnds, FinishWrite, regVars, Busy
    <3> QED BY <1>4, <3>1, <3>2, <3>3, <3>4 DEF WorkerStep
  <2> HIDE DEF IInv, TypeInv
  <2>3. BusyWithinLimit'
    BY <2>2, FewerBusy DEF LimitInv
  <2>4. RoomWithin'
    BY <2>1 DEF LimitInv, RoomWithin
  <2> QED BY <2>3, <2>4 DEF LimitInv
<1>5. CASE UNCHANGED vars \/ \E g \in Gids : TimePasses(g)
  <2>1. UNCHANGED <<starting, active, pc, todo, room>>
    BY <1>5 DEF TimePasses, vars, regVars, procVars
  <2>2. Busy' = Busy
    BY <2>1 DEF Busy
  <2>3. BusyWithinLimit'
    BY <2>2, FewerBusy DEF LimitInv
  <2> QED BY <2>1, <2>3 DEF LimitInv, RoomWithin
<1>6. Tick \in Procs
  BY DEF Procs
<1> QED
  BY <1>1, <1>2, <1>3, <1>4, <1>5, <1>6 DEF Next

(* try_start_next never has more downloads under way than some configured  *)
(* limit allows, with any number of callers that start and any number of   *)
(* workers that move between the registries: it counts and starts under    *)
(* the reload lock, and starts no more tasks than it counted slots.        *)
THEOREM BusyWithinLimitHolds == Spec => []BusyWithinLimit
<1>1. Init => LimitInv
  <2> SUFFICES ASSUME Init PROVE LimitInv
    OBVIOUS
  <2>1. Busy = {} /\ limit \in Limits
    BY DEF Init, Busy
  <2>2. Cardinality(Busy) = 0
    BY <2>1, FS_EmptySet
  <2>3. Cardinality(Busy) <= limit
    BY <2>1, <2>2, BoundAssumption
  <2>4. RoomWithin
    BY DEF Init, RoomWithin
  <2> QED BY <2>1, <2>3, <2>4 DEF LimitInv, BusyWithinLimit
<1>2. IInv /\ IInv' /\ ListInv /\ LimitInv /\ [Next]_vars => LimitInv'
  BY LimitStep
<1>3. LimitInv => BusyWithinLimit
  BY DEF LimitInv
<1> QED
  BY <1>1, <1>2, <1>3, Invariance, ListHolds, PTL DEF Spec
=============================================================================
