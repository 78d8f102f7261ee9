---------------------------- MODULE SessionStore ----------------------------
(***************************************************************************)
(* How the task list of the engine reaches the disk and comes back.        *)
(*                                                                         *)
(* manager.rs keeps the list behind RevLock, a read/write lock whose write *)
(* guard bumps a revision counter when it is dropped (before the inner     *)
(* lock is released).  save_session compares that revision with the one it *)
(* saved last, and otherwise snapshots the list under save_gate, writes it *)
(* through SessionManager::write and only then records the revision.       *)
(* SessionManager::load rebuilds the list after a restart.                 *)
(*                                                                         *)
(* A process here is any tokio task that mutates the list, adds a task     *)
(* (enqueue, which saves before it answers its caller) or auto-saves.      *)
(***************************************************************************)
EXTENDS Naturals, FiniteSets

CONSTANTS
    Gids,        \* task ids; generate_gid never returns one twice
    Procs,       \* the tokio tasks that use the list
    None,        \* "no value" of the optional fields
    MaxRev,      \* bound on the revision counter within one run of the engine
    MaxCrashes,  \* bound on the number of crashes
    Disconnects  \* whether a caller may go away in the middle of a save

ASSUME BoundAssumption == MaxRev \in Nat /\ MaxCrashes \in Nat /\ Disconnects \in BOOLEAN

(* A task is Absent when the list does not hold it.  Of the statuses the   *)
(* session tells apart Active, Removed and the finished ones; Paused here  *)
(* stands for Waiting and Scheduled too, Complete for Error.               *)
Status == {"Active", "Paused", "Complete", "Removed"}
Lists  == [Gids -> Status \cup {"Absent"}]

ASSUME NoneAssumption ==
    None \notin Procs /\ None \notin Gids /\ None \notin Nat /\ None \notin Lists

VARIABLES
    \* TaskManager.tasks: RevLock
    tasks,       \* the list, as the status of every gid
    writer,      \* the process that holds the write lock, or None
    rev,         \* RevLock.rev
    \* TaskManager.save_gate, TaskManager.saved_rev
    gate,        \* the process that holds save_gate, or None
    savedRev,    \* saved_rev; None stands for u64::MAX, "never saved"
    \* SessionManager
    disk,        \* contents of engine-session.json, or None before the first save
    lastHash,    \* the contents whose hash last_hash remembers, or None
    \* the processes
    pc,
    adding,      \* the gid enqueue is adding, or None
    seenRev,     \* the revision save_session read first
    snapRev,     \* the revision and the encoded list save_session snapshots
    snapData,
    crashes,
    \* history
    used,        \* gids handed out so far
    dropped,     \* gids that were removed or purged at some time
    acked        \* gids never dropped whose add was answered after a
                 \* successful save

listVars == <<tasks, writer, rev>>
saveVars == <<gate, savedRev, disk, lastHash>>
procVars == <<pc, adding, seenRev, snapRev, snapData>>
histVars == <<used, dropped, acked>>
vars     == <<listVars, saveVars, procVars, crashes, histVars>>

-----------------------------------------------------------------------------
(* SessionManager::encode drops removed tasks.                             *)
Encode(list) ==
    [g \in Gids |-> IF list[g] = "Removed" THEN "Absent" ELSE list[g]]

(* SessionManager::load drops removed tasks and pauses active ones; a      *)
(* missing file is an empty list.                                          *)
Load(file) ==
    [g \in Gids |->
       CASE file = None            -> "Absent"
         [] file[g] = "Removed"    -> "Absent"
         [] file[g] = "Active"     -> "Paused"
         [] OTHER                  -> file[g]]

(* What TaskManager::new forgets when purge-record-on-start is set.        *)
Purged(list, purge) == {g \in Gids : purge /\ list[g] = "Complete"}

Empty == [g \in Gids |-> "Absent"]

Init ==
    /\ tasks = Empty
    /\ writer = None
    /\ rev = 0
    /\ gate = None
    /\ savedRev = None
    /\ disk = None
    /\ lastHash = None
    /\ pc = [p \in Procs |-> "idle"]
    /\ adding = [p \in Procs |-> None]
    /\ seenRev = [p \in Procs |-> 0]
    /\ snapRev = [p \in Procs |-> 0]
    /\ snapData = [p \in Procs |-> Empty]
    /\ crashes = 0
    /\ used = {}
    /\ dropped = {}
    /\ acked = {}

-----------------------------------------------------------------------------
(* Writers of the list.                                                    *)

(* RevLock::write: wait for the inner lock.                                *)
AcquireWrite(p) ==
    /\ pc[p] = "idle"
    /\ writer = None
    /\ rev < MaxRev
    /\ writer' = p
    /\ pc' = [pc EXCEPT ![p] = "locked"]
    /\ UNCHANGED <<tasks, rev, saveVars, adding, seenRev, snapRev, snapData,
                   crashes, histVars>>

(* enqueue pushes a new task.                                              *)
Push(p, g) ==
    /\ pc[p] = "locked"
    /\ g \notin used
    /\ tasks' = [tasks EXCEPT ![g] = "Paused"]
    /\ used' = used \cup {g}
    /\ adding' = [adding EXCEPT ![p] = g]
    /\ pc' = [pc EXCEPT ![p] = "mutated"]
    /\ UNCHANGED <<writer, rev, saveVars, seenRev, snapRev, snapData, crashes,
                   dropped, acked>>

(* Every other operation changes the status of a task it finds, drops a    *)
(* stopped one from the list, or finds nothing to do (the guard's drop     *)
(* bumps the revision all the same).                                       *)
Change(p, g, s) ==
    /\ pc[p] = "locked"
    /\ tasks[g] = "Absent" => s = "Absent"
    /\ s = "Absent" => tasks[g] \in {"Complete", "Removed", "Absent"}
    /\ tasks' = [tasks EXCEPT ![g] = s]
    /\ IF s \in {"Removed", "Absent"} /\ tasks[g] # "Absent"
         THEN dropped' = dropped \cup {g} /\ acked' = acked \ {g}
         ELSE UNCHANGED <<dropped, acked>>
    /\ pc' = [pc EXCEPT ![p] = "mutated"]
    /\ UNCHANGED <<writer, rev, saveVars, adding, seenRev, snapRev, snapData, crashes,
                   used>>

Mutate(p) ==
    \/ \E g \in Gids : Push(p, g)
    \/ \E g \in Gids, s \in Status \cup {"Absent"} : Change(p, g, s)

(* RevWriteGuard::drop bumps the revision while the lock is still held.    *)
BumpRev(p) ==
    /\ pc[p] = "mutated"
    /\ rev' = rev + 1
    /\ pc' = [pc EXCEPT ![p] = "bumped"]
    /\ UNCHANGED <<tasks, writer, saveVars, adding, seenRev, snapRev, snapData,
                   crashes, histVars>>

(* The inner guard goes; enqueue goes on to save_session_logged.           *)
ReleaseWrite(p) ==
    /\ pc[p] = "bumped"
    /\ writer' = None
    /\ pc' = [pc EXCEPT ![p] = IF adding[p] = None THEN "idle" ELSE "readRev"]
    /\ UNCHANGED <<tasks, rev, saveVars, adding, seenRev, snapRev, snapData,
                   crashes, histVars>>

-----------------------------------------------------------------------------
(* save_session.                                                           *)

(* auto_save_task, every 30 seconds.                                       *)
AutoSave(p) ==
    /\ pc[p] = "idle"
    /\ pc' = [pc EXCEPT ![p] = "readRev"]
    /\ UNCHANGED <<listVars, saveVars, adding, seenRev, snapRev, snapData, crashes,
                   histVars>>

ReadRev(p) ==
    /\ pc[p] = "readRev"
    /\ seenRev' = [seenRev EXCEPT ![p] = rev]
    /\ pc' = [pc EXCEPT ![p] = "compare"]
    /\ UNCHANGED <<listVars, saveVars, adding, snapRev, snapData, crashes,
                   histVars>>

(* save_session returns and its locals go.                                 *)
Return(p) ==
    /\ pc' = [pc EXCEPT ![p] = "idle"]
    /\ adding' = [adding EXCEPT ![p] = None]
    /\ seenRev' = [seenRev EXCEPT ![p] = 0]
    /\ snapRev' = [snapRev EXCEPT ![p] = 0]
    /\ snapData' = [snapData EXCEPT ![p] = Empty]

(* It returns Ok, and enqueue answers its caller with the gid.             *)
Acknowledge(p) ==
    /\ Return(p)
    /\ acked' = acked \cup ({adding[p]} \ (dropped \cup {None}))
    /\ UNCHANGED <<used, dropped>>

(* The revision was saved already.                                         *)
SkipSave(p) ==
    /\ pc[p] = "compare"
    /\ savedRev = seenRev[p]
    /\ Acknowledge(p)
    /\ UNCHANGED <<listVars, saveVars, crashes>>

(* Mutant: no gate, so that savers overtake one another.                   *)
TakeGateFreely(p) ==
    /\ pc[p] = "compare"
    /\ savedRev # seenRev[p]
    /\ gate' = p
    /\ pc' = [pc EXCEPT ![p] = "encode"]
    /\ UNCHANGED <<listVars, savedRev, disk, lastHash, adding, seenRev, snapRev,
                   snapData, crashes, histVars>>

TakeGate(p) ==
    /\ pc[p] = "compare"
    /\ savedRev # seenRev[p]
    /\ gate = None
    /\ gate' = p
    /\ pc' = [pc EXCEPT ![p] = "encode"]
    /\ UNCHANGED <<listVars, savedRev, disk, lastHash, adding, seenRev, snapRev,
                   snapData, crashes, histVars>>

(* Revision and list are read under one read lock.                         *)
Snapshot(p) ==
    /\ pc[p] = "encode"
    /\ writer = None
    /\ snapRev' = [snapRev EXCEPT ![p] = rev]
    /\ snapData' = [snapData EXCEPT ![p] = Encode(tasks)]
    /\ pc' = [pc EXCEPT ![p] = "write"]
    /\ UNCHANGED <<listVars, saveVars, adding, seenRev, crashes, histVars>>

(* SessionManager::write skips contents it wrote last; otherwise the file  *)
(* is replaced by an atomic rename.                                        *)
WriteSession(p) ==
    /\ pc[p] = "write"
    /\ IF lastHash = snapData[p] /\ disk # None
         THEN UNCHANGED <<disk, lastHash>>
         ELSE /\ disk' = snapData[p]
              /\ lastHash' = snapData[p]
    /\ pc' = [pc EXCEPT ![p] = "store"]
    /\ UNCHANGED <<listVars, gate, savedRev, adding, seenRev, snapRev, snapData,
                   crashes, histVars>>

(* Mutant: the hash is remembered before the write is known to succeed.    *)
WriteFailsHashKept(p) ==
    /\ pc[p] = "write"
    /\ ~(lastHash = snapData[p] /\ disk # None)
    /\ gate' = None
    /\ lastHash' = snapData[p]
    /\ Return(p)
    /\ UNCHANGED <<listVars, savedRev, disk, crashes, histVars>>

(* The write fails: save_session returns the error, which its callers log. *)
WriteFails(p) ==
    /\ pc[p] = "write"
    /\ ~(lastHash = snapData[p] /\ disk # None)
    /\ gate' = None
    /\ Return(p)
    /\ UNCHANGED <<listVars, savedRev, disk, lastHash, crashes, histVars>>

(* Mutant: the revision is read again after the write.                     *)
StoreRevCurrent(p) ==
    /\ pc[p] = "store"
    /\ savedRev' = rev
    /\ gate' = None
    /\ Acknowledge(p)
    /\ UNCHANGED <<listVars, disk, lastHash, crashes>>

(* Mutant: the revision is not recorded.                                   *)
StoreRevForgotten(p) ==
    /\ pc[p] = "store"
    /\ gate' = None
    /\ Acknowledge(p)
    /\ UNCHANGED <<listVars, savedRev, disk, lastHash, crashes>>

StoreRev(p) ==
    /\ pc[p] = "store"
    /\ savedRev' = snapRev[p]
    /\ gate' = None
    /\ Acknowledge(p)
    /\ UNCHANGED <<listVars, disk, lastHash, crashes>>

(* The client of an RPC handler disconnects while its save waits: the      *)
(* handler's future is dropped and save_gate with it.  A write that was    *)
(* handed to spawn_blocking goes on without the gate.                      *)
Abandon(p) ==
    /\ Disconnects
    /\ pc[p] \in {"compare", "encode", "write"}
    /\ gate' = IF gate = p THEN None ELSE gate
    /\ pc' = [pc EXCEPT ![p] = IF @ = "write" THEN "orphan" ELSE "idle"]
    /\ adding' = [adding EXCEPT ![p] = None]
    /\ seenRev' = [seenRev EXCEPT ![p] = 0]
    /\ snapRev' = [snapRev EXCEPT ![p] = 0]
    /\ snapData' = [snapData EXCEPT ![p] = IF pc[p] = "write" THEN @ ELSE Empty]
    /\ UNCHANGED <<listVars, savedRev, disk, lastHash, crashes, histVars>>

(* The orphaned write succeeds, or it fails or has nothing to write.       *)
OrphanWrite(p) ==
    /\ pc[p] = "orphan"
    /\ \/ disk' = snapData[p] /\ lastHash' = snapData[p]
       \/ UNCHANGED <<disk, lastHash>>
    /\ Return(p)
    /\ UNCHANGED <<listVars, gate, savedRev, crashes, histVars>>

-----------------------------------------------------------------------------
(* The process dies and the engine is started again: TaskManager::new      *)
(* loads the session; nothing but the file survives.                       *)
CrashAndRestart(purge) ==
    /\ crashes < MaxCrashes
    /\ crashes' = crashes + 1
    /\ LET gone == Purged(Load(disk), purge) IN
         /\ tasks' = [g \in Gids |-> IF g \in gone THEN "Absent" ELSE Load(disk)[g]]
         /\ dropped' = dropped \cup gone
         /\ acked' = acked \ gone
    /\ writer' = None
    /\ rev' = 0
    /\ gate' = None
    /\ savedRev' = None
    /\ lastHash' = None
    /\ pc' = [p \in Procs |-> "idle"]
    /\ adding' = [p \in Procs |-> None]
    /\ seenRev' = [p \in Procs |-> 0]
    /\ snapRev' = [p \in Procs |-> 0]
    /\ snapData' = [p \in Procs |-> Empty]
    /\ UNCHANGED <<disk, used>>

SaveStep(p) ==
    \/ ReadRev(p) \/ SkipSave(p) \/ TakeGate(p)
    \/ Snapshot(p) \/ WriteSession(p) \/ WriteFails(p) \/ StoreRev(p)

Next ==
    \/ \E p \in Procs :
          \/ AcquireWrite(p) \/ BumpRev(p) \/ ReleaseWrite(p) \/ AutoSave(p)
          \/ SaveStep(p) \/ Abandon(p) \/ OrphanWrite(p) \/ Mutate(p)
    \/ \E purge \in BOOLEAN : CrashAndRestart(purge)

Spec == Init /\ [][Next]_vars

(* The auto-save timer keeps firing, a lock that is free is granted, a     *)
(* step that can run is run, and the disk does not fail forever.           *)
Fairness ==
    \A p \in Procs :
       /\ WF_vars(Mutate(p)) /\ WF_vars(BumpRev(p)) /\ WF_vars(ReleaseWrite(p))
       /\ SF_vars(AutoSave(p))
       /\ WF_vars(ReadRev(p)) /\ WF_vars(SkipSave(p))
       /\ SF_vars(TakeGate(p)) /\ SF_vars(Snapshot(p))
       /\ SF_vars(WriteSession(p)) /\ WF_vars(StoreRev(p)) /\ WF_vars(OrphanWrite(p))

LiveSpec == Spec /\ Fairness

-----------------------------------------------------------------------------
PcValues == {"idle", "locked", "mutated", "bumped", "readRev", "compare",
             "encode", "write", "store", "orphan"}

TypeOK ==
    /\ tasks \in Lists
    /\ writer \in Procs \cup {None}
    /\ rev \in Nat
    /\ gate \in Procs \cup {None}
    /\ savedRev \in Nat \cup {None}
    /\ disk \in Lists \cup {None}
    /\ lastHash \in Lists \cup {None}
    /\ pc \in [Procs -> PcValues]
    /\ adding \in [Procs -> Gids \cup {None}]
    /\ seenRev \in [Procs -> Nat]
    /\ snapRev \in [Procs -> Nat]
    /\ snapData \in [Procs -> Lists]
    /\ crashes \in 0..MaxCrashes
    /\ used \in SUBSET Gids
    /\ dropped \in SUBSET Gids
    /\ acked \in SUBSET Gids

(* saved_rev tells the truth, as long as no save is abandoned: when it     *)
(* equals the revision and no writer is between its change and its bump,   *)
(* the file holds the current list, so that the early return of            *)
(* save_session loses nothing.                                             *)
SavedRevTruthful ==
    (savedRev = rev /\ \A p \in Procs : pc[p] # "mutated")
        => disk = Encode(tasks)

(* A task whose add was answered after a successful save is in the file    *)
(* until somebody removes it, whatever other savers write meanwhile and    *)
(* however often the engine crashes (again if no save is abandoned).       *)
AckedAddsAreOnDisk ==
    \A g \in acked : disk # None /\ disk[g] \notin {"Absent", "Removed"}

(* Once the list is dirty, some save of that revision or of a later one    *)
(* succeeds (or the engine dies): auto-save makes up for failed saves.     *)
DirtyIsSaved ==
    \A n \in 1..MaxRev :
        (rev = n) ~> (savedRev # None /\ savedRev >= n)

(* Within one run of the engine saved_rev only moves forward: an older     *)
(* snapshot never overtakes a newer one.                                   *)
SavedRevMonotone ==
    [][crashes' = crashes /\ savedRev # None
         => savedRev' # None /\ savedRev' >= savedRev]_vars
=============================================================================
