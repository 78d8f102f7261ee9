--------------------------- MODULE ManagerProofs ----------------------------
(***************************************************************************)
(* Proofs about two parts of manager.rs: how the task list reaches the     *)
(* disk (SessionStore), for every number of tasks, processes, revisions    *)
(* and crashes, and the torrent tasks and their reloads (Torrents), for    *)
(* every number of magnets, proxy profiles, calls, reloads and faults.     *)
(***************************************************************************)
EXTENDS SessionStore, Torrents, TLAPS

-----------------------------------------------------------------------------
(* The inductive invariant behind the safety properties.                   *)

Saving(p) == pc[p] \in {"write", "store"}     \* p holds a snapshot
Kept(list, g) == list[g] \notin {"Absent", "Removed"}

LocksHeld ==
    \A p \in Procs :
       /\ pc[p] \in {"locked", "mutated", "bumped"} <=> writer = p
       /\ pc[p] \in {"encode", "write", "store"} <=> gate = p

(* Saved, snapshot and current revision are ordered.                       *)
RevsOrdered ==
    /\ savedRev # None => savedRev <= rev
    /\ \A p \in Procs : Saving(p) =>
          /\ snapRev[p] <= rev
          /\ savedRev # None => savedRev <= snapRev[p]

(* A snapshot of the current revision is the current list.                 *)
SnapshotsFresh ==
    \A p \in Procs :
       (Saving(p) /\ snapRev[p] = rev /\ \A q \in Procs : pc[q] # "mutated")
          => snapData[p] = Encode(tasks)

FileKnown ==
    /\ lastHash # None => disk = lastHash
    /\ \A p \in Procs : pc[p] = "store" => disk = snapData[p]

(* What is acknowledged is in the list, in the file and in every snapshot  *)
(* that may still be written.                                              *)
AckedEverywhere ==
    \A g \in acked :
       /\ g \notin dropped /\ Kept(tasks, g)
       /\ disk # None /\ Kept(disk, g)
       /\ \A p \in Procs : Saving(p) => Kept(snapData[p], g)

(* The revision from which on a save is known to hold what p adds.         *)
AddBound(p) == IF pc[p] = "compare" THEN seenRev[p] ELSE rev

AddsTracked ==
    \A p \in Procs : adding[p] # None =>
       /\ pc[p] \notin {"idle", "locked"}
       /\ adding[p] \notin dropped =>
            /\ Kept(tasks, adding[p])
            /\ Saving(p) => Kept(snapData[p], adding[p])
            /\ pc[p] \in {"bumped", "readRev", "compare"} =>
                 /\ (savedRev # None /\ savedRev >= AddBound(p))
                       => (disk # None /\ Kept(disk, adding[p]))
                 /\ \A q \in Procs : (Saving(q) /\ snapRev[q] >= AddBound(p))
                       => Kept(snapData[q], adding[p])

(* What holds of the file as long as no save is abandoned.                 *)
FileInv ==
    /\ \A p \in Procs : pc[p] # "orphan"
    /\ FileKnown /\ SavedRevTruthful /\ AckedEverywhere /\ AddsTracked

IInv == /\ TypeOK /\ LocksHeld /\ RevsOrdered /\ SnapshotsFresh
        /\ ~Disconnects => FileInv


-----------------------------------------------------------------------------
(* Encode and Load map lists to lists, and keep what is not removed.       *)
LEMMA CodecTypes ==
    /\ Empty \in Lists
    /\ \A list \in Lists : Encode(list) \in Lists
    /\ \A file \in Lists \cup {None} : Load(file) \in Lists
BY DEF Empty, Encode, Load, Lists, Status

(* Changing one entry of a list gives a list.                              *)
LEMMA ListUpdate ==
    ASSUME NEW list \in Lists, NEW g \in Gids, NEW s \in Status \cup {"Absent"}
    PROVE  [list EXCEPT ![g] = s] \in Lists
BY DEF Lists

(* An encoded list, and a loaded file, still hold every task that the list *)
(* or the file kept.                                                       *)
LEMMA CodecKeeps ==
    ASSUME NEW list \in Lists, NEW g \in Gids, Kept(list, g)
    PROVE  Kept(Encode(list), g) /\ Kept(Load(list), g)
BY NoneAssumption DEF Kept, Encode, Load, Lists, Status

(* TypeOK holds initially and every step preserves it.                     *)
LEMMA TypeStep == TypeOK /\ [Next]_vars => TypeOK'
<1> SUFFICES ASSUME TypeOK, [Next]_vars PROVE TypeOK'
  OBVIOUS
<1> USE CodecTypes DEF TypeOK, PcValues
<1>1. ASSUME NEW p \in Procs, AcquireWrite(p) \/ BumpRev(p) \/ ReleaseWrite(p) \/ AutoSave(p)
      PROVE  TypeOK'
  BY <1>1 DEF AcquireWrite, BumpRev, ReleaseWrite, AutoSave, saveVars, procVars,
              listVars, histVars
<1>2. ASSUME NEW p \in Procs, Mutate(p)
      PROVE  TypeOK'
  <2>1. ASSUME NEW g \in Gids, Push(p, g)
        PROVE  TypeOK'
    <3>1. tasks' \in Lists
      BY <2>1, ListUpdate DEF Push, Status
    <3> QED
      BY <2>1, <3>1 DEF Push, saveVars, histVars
  <2>2. ASSUME NEW g \in Gids, NEW s \in Status \cup {"Absent"}, Change(p, g, s)
        PROVE  TypeOK'
    <3>1. tasks' \in Lists
      BY <2>2, ListUpdate DEF Change
    <3> QED
      BY <2>2, <3>1 DEF Change, saveVars
  <2> QED
    BY <1>2, <2>1, <2>2 DEF Mutate
<1>3. ASSUME NEW p \in Procs, SaveStep(p)
      PROVE  TypeOK'
  BY <1>3 DEF SaveStep, ReadRev, SkipSave, TakeGate, Snapshot, WriteSession, WriteFails,
              StoreRev, Acknowledge, Return, saveVars, procVars, listVars, histVars
<1>6. ASSUME NEW p \in Procs, Abandon(p) \/ OrphanWrite(p)
      PROVE  TypeOK'
  BY <1>6 DEF Abandon, OrphanWrite, Return, listVars, histVars
<1>4. ASSUME NEW purge \in BOOLEAN, CrashAndRestart(purge)
      PROVE  TypeOK'
  BY <1>4, BoundAssumption DEF CrashAndRestart, Purged, Lists, Status
<1>5. CASE UNCHANGED vars
  BY <1>5 DEF vars, saveVars, procVars, listVars, histVars
<1> QED
  BY <1>1, <1>2, <1>3, <1>4, <1>5, <1>6 DEF Next

(* IInv holds initially.                                                   *)
LEMMA InitIInv == Init => IInv
BY NoneAssumption, BoundAssumption, CodecTypes
   DEF Init, IInv, FileInv, TypeOK, PcValues, LocksHeld, RevsOrdered, SnapshotsFresh, FileKnown,
       SavedRevTruthful, AckedEverywhere, AddsTracked, Saving, Kept, Encode

(* Every step preserves IInv.                                              *)
LEMMA NextIInv == IInv /\ [Next]_vars => IInv'
<1> SUFFICES ASSUME IInv, [Next]_vars PROVE IInv'
  OBVIOUS
<1>0. TypeOK'
  BY TypeStep DEF IInv
<1> USE <1>0, NoneAssumption
<1> USE DEF IInv, FileInv, LocksHeld, RevsOrdered, SnapshotsFresh, FileKnown, SavedRevTruthful,
            AckedEverywhere, AddsTracked, Saving, Kept, AddBound, TypeOK
<1>1. ASSUME NEW p \in Procs, AcquireWrite(p)
      PROVE  IInv'
  BY <1>1 DEF AcquireWrite, saveVars, histVars
<1>2. ASSUME NEW p \in Procs, BumpRev(p)
      PROVE  IInv'
  BY <1>2 DEF BumpRev, saveVars, histVars
<1>3. ASSUME NEW p \in Procs, ReleaseWrite(p)
      PROVE  IInv'
  BY <1>3 DEF ReleaseWrite, saveVars, histVars
<1>4. ASSUME NEW p \in Procs, AutoSave(p)
      PROVE  IInv'
  BY <1>4 DEF AutoSave, saveVars, histVars, listVars
<1>5. ASSUME NEW p \in Procs, ReadRev(p)
      PROVE  IInv'
  BY <1>5 DEF ReadRev, saveVars, histVars, listVars
<1>6. ASSUME NEW p \in Procs, SkipSave(p)
      PROVE  IInv'
  BY <1>6 DEF SkipSave, Acknowledge, Return, saveVars, listVars
<1>7. ASSUME NEW p \in Procs, TakeGate(p)
      PROVE  IInv'
  BY <1>7 DEF TakeGate, histVars, listVars
<1>8. ASSUME NEW p \in Procs, Snapshot(p)
      PROVE  IInv'
  BY <1>8, CodecKeeps DEF Snapshot, saveVars, histVars, listVars
<1>9. ASSUME NEW p \in Procs, WriteSession(p)
      PROVE  IInv'
  BY <1>9 DEF WriteSession, histVars, listVars
<1>10. ASSUME NEW p \in Procs, WriteFails(p)
      PROVE  IInv'
  BY <1>10 DEF WriteFails, Return, histVars, listVars
<1>11. ASSUME NEW p \in Procs, StoreRev(p)
      PROVE  IInv'
  BY <1>11 DEF StoreRev, Acknowledge, Return, listVars
<1>12. ASSUME NEW p \in Procs, NEW g \in Gids, Push(p, g)
      PROVE  IInv'
  BY <1>12 DEF Push, saveVars, Lists
<1>13. ASSUME NEW p \in Procs, NEW g \in Gids, NEW s \in Status \cup {"Absent"}, Change(p, g, s)
      PROVE  IInv'
  BY <1>13 DEF Change, saveVars
<1>14. ASSUME NEW purge \in BOOLEAN, CrashAndRestart(purge)
       PROVE  IInv'
  BY <1>14, CodecKeeps DEF CrashAndRestart, Purged
<1>15. ASSUME NEW p \in Procs, Abandon(p)
       PROVE  IInv'
  BY <1>15 DEF Abandon, histVars, listVars
<1>16. ASSUME NEW p \in Procs, OrphanWrite(p)
       PROVE  IInv'
  BY <1>16 DEF OrphanWrite, Return, histVars, listVars
<1>17. CASE UNCHANGED vars
  BY <1>17 DEF vars, saveVars, procVars, listVars, histVars
<1> QED
  BY <1>1, <1>2, <1>3, <1>4, <1>5, <1>6, <1>7, <1>8, <1>9, <1>10, <1>11, <1>12, <1>13,
     <1>14, <1>15, <1>16, <1>17, ZenonT(30) DEF Next, SaveStep, Mutate

(* The inductive invariant is an invariant of the specification.           *)
THEOREM SessionInvariance == Spec => []IInv
BY InitIInv, NextIInv, PTL DEF Spec

(* Type correctness.                                                       *)
THEOREM TypeCorrect == Spec => []TypeOK
<1>1. IInv => TypeOK
  BY DEF IInv
<1> QED
  BY <1>1, SessionInvariance, PTL

(* As long as no save is abandoned, save_session's early return never      *)
(* skips a list that differs from the file.                                *)
THEOREM SavedRevIsTruthful == ASSUME ~Disconnects PROVE Spec => []SavedRevTruthful
<1>1. IInv => SavedRevTruthful
  BY DEF IInv, FileInv
<1> QED
  BY <1>1, SessionInvariance, PTL

(* As long as no save is abandoned, an add that was answered after a       *)
(* successful save survives in the file, across crashes and failed writes. *)
THEOREM AcknowledgedAddsSurvive == ASSUME ~Disconnects PROVE Spec => []AckedAddsAreOnDisk
<1>1. IInv => AckedAddsAreOnDisk
  BY DEF IInv, FileInv, AckedEverywhere, AckedAddsAreOnDisk, Kept
<1> QED
  BY <1>1, SessionInvariance, PTL

(* No saver overtakes another, disconnects or not: saved_rev moves forward *)
(* within a run of the engine.                                             *)
THEOREM SavedRevMovesForward == Spec => SavedRevMonotone
<1>1. IInv /\ [Next]_vars =>
        [crashes' = crashes /\ savedRev # None
           => savedRev' # None /\ savedRev' >= savedRev]_vars
  <2> SUFFICES ASSUME IInv, Next, crashes' = crashes, savedRev # None
               PROVE  savedRev' # None /\ savedRev' >= savedRev
    OBVIOUS
  <2> USE NoneAssumption DEF IInv, TypeOK
  <2>1. ASSUME NEW p \in Procs, StoreRev(p)
        PROVE  savedRev' # None /\ savedRev' >= savedRev
    BY <2>1 DEF StoreRev, RevsOrdered, Saving
  <2>2. ASSUME NEW purge \in BOOLEAN, CrashAndRestart(purge)
        PROVE  FALSE
    BY <2>2 DEF CrashAndRestart
  <2>3. ASSUME savedRev' = savedRev
        PROVE  savedRev' # None /\ savedRev' >= savedRev
    BY <2>3
  <2> QED
    BY <2>1, <2>2, <2>3
       DEF Next, SaveStep, Mutate, AcquireWrite, BumpRev, ReleaseWrite, AutoSave, ReadRev,
           SkipSave, TakeGate, Snapshot, WriteSession, WriteFails, Abandon, OrphanWrite, Push,
           Change, saveVars
<1> QED
  BY <1>1, SessionInvariance, PTL DEF Spec, SavedRevMonotone


-----------------------------------------------------------------------------
(* Types.                                                                  *)

ResolverPlaces == {"none", "check", "resolve", "lock", "adding", "added", "attach", "remember",
                   "settle", "pause", "end"}
CallPlaces == {"idle", "pause", "unpause", "resumeSeq", "unpauseWrite", "ensure", "remove",
               "forget"}
ReloadPlaces == {"idle", "pauseTasks", "invalidate", "connector", "pauseTorrents", "swap",
                 "options", "resumeTasks", "resumeIds", "resume", "rollback", "rbPause",
                 "rbRoute"}
Snaps == {"none", "running", "paused", "halted", "done"}

ProcessTypes ==
    /\ nextId \in 1..(MaxIds + 1) /\ magGen \in Nat
    /\ rpc \in [Magnets -> ResolverPlaces] /\ rmag \in [Magnets -> Nat]
    /\ rids \in [Magnets -> Ids \cup {NoId}] /\ rl \in ReloadPlaces
    /\ tpc \in [Calls -> CallPlaces] /\ tgid \in [Calls -> Magnets \cup {NoId}]
    /\ calls \in 0..MaxCalls
    /\ tsnap \in [Magnets -> Snaps]
    /\ spawned \subseteq {"pause", "pauseIfHalted"} \X Ids

(* A call that runs was made, and is about a task.                         *)
CallsMade == \A c \in Calls : tpc[c] # "idle" => c <= calls /\ tgid[c] \in Magnets

TypeInv == TorrentsTypeOK /\ ProcessTypes /\ CallsMade

-----------------------------------------------------------------------------
(* The route.                                                              *)

(* Who adds a torrent has the route lock.                                  *)
AddsUnderLock == \A g \in Magnets : rpc[g] = "adding" => routeLock = g
AddsAtGeneration == \A g \in Magnets : rpc[g] = "adding" => rmag[g] = magGen

(* A resolver of the current generation was spawned on the current route,  *)
(* unless a rollback overtook it; between the new generation and the new   *)
(* route there is none.                                                    *)
SpawnedOnRoute ==
    \A g \in Magnets : rpc[g] # "none" =>
        /\ rmag[g] <= magGen
        /\ rl \in {"connector", "pauseTorrents", "swap"} => rmag[g] < magGen
        /\ rmag[g] = magGen /\ g \notin stranded => rroute[g] = route
OnRoute == AddsUnderLock /\ AddsAtGeneration /\ SpawnedOnRoute

(* Where the options and the session stand while a reload goes on.         *)
RoutesKnown ==
    /\ rl \notin {"idle", "options", "resumeTasks", "resumeIds", "resume", "rollback", "rbPause",
                  "rbRoute"} => old = profile
    /\ ~dirtyRoute =>
         /\ rl \in {"idle", "pauseTasks", "invalidate", "connector", "pauseTorrents", "swap"}
              => route = profile
         /\ rl \in {"options", "resumeTasks", "resumeIds", "resume"} => route = target
    /\ rl \in {"resumeTasks", "resumeIds", "resume"} => profile = target

(* A paused task has someone who paused it: a caller, a reload that failed *)
(* and said so, or the reload that goes on.                                *)
PausesExplained ==
    \A g \in Magnets : tstat[g] = "Paused" =>
        \/ g \in byUser \cup reason
        \/ g \in ract /\ rl \in {"invalidate", "connector", "pauseTorrents", "swap", "options",
                                 "resumeTasks", "rollback"}

RouteInv == OnRoute /\ RoutesKnown /\ PausesExplained

-----------------------------------------------------------------------------
(* Who a torrent belongs to.                                               *)

(* The torrents of the session.                                            *)
Alive == {i \in Ids : torrent[i] # "none"}

(* The ids that a task, its resolver and a reload know it under are older  *)
(* than the next one, and no other task has them.                          *)
IdsOf(g) == {tid[g], rid[g], rids[g]} \ {NoId}
IdsApart ==
    /\ \A g \in Magnets : \A i \in IdsOf(g) : i < nextId
    /\ \A i \in Alive : i < nextId
    /\ \A g, h \in Magnets : g # h => IdsOf(g) \cap IdsOf(h) = {}

(* A task has at most one resolver, and gets its id from it.               *)
Before == {"check", "resolve", "lock", "adding", "added", "attach", "remember"}
Resolving ==
    \A g \in Magnets :
        /\ tstat[g] = "Absent" => rpc[g] = "none" /\ tid[g] = NoId
        /\ rpc[g] # "none" => g \in pending \/ tstat[g] = "Removed"
        /\ rpc[g] \in Before => tid[g] = NoId
        /\ rpc[g] \in {"settle", "pause"} => tid[g] \in {rid[g], NoId}
        /\ rpc[g] = "settle" =>
              tid[g] = rid[g] \/ rid[g] \notin Alive \/ tstat[g] = "Removed"

(* remove_task first deletes the torrent, then forgets its id; a resolver  *)
(* may set the id in between, and deletes that torrent itself.             *)
Removing ==
    \A c \in Calls :
        /\ tpc[c] \in {"remove", "forget"} => tstat[tgid[c]] = "Removed"
        /\ tpc[c] = "forget" =>
              \/ tid[tgid[c]] \notin Alive
              \/ rpc[tgid[c]] = "settle" /\ rid[tgid[c]] = tid[tgid[c]]

(* Who answers for the torrent i.                                          *)
RemoveCalled(g) == \E c \in Calls : tpc[c] = "remove" /\ tgid[c] = g
Answers(g, i) ==
    \/ rid[g] = i /\ rpc[g] \in {"added", "attach", "remember", "settle"}
    \/ tid[g] = i /\ (tstat[g] # "Removed" \/ rpc[g] = "settle" \/ RemoveCalled(g))
Answered == \A i \in Alive : \E g \in Magnets : Answers(g, i)

OwnerInv == IdsApart /\ Resolving /\ Removing /\ Answered

-----------------------------------------------------------------------------
(* Which torrents run.                                                     *)

(* A reload resumes only torrents of tasks that a reload paused.           *)
ResumesTouched == ract \subseteq touched /\ todo \subseteq touched

(* What the tick has read: the task was active and had a torrent, and      *)
(* still has it unless it is over.                                         *)
SnapsHold ==
    \A g \in Magnets : tsnap[g] # "none" =>
        \/ tstat[g] \in {"Active", "Paused"} /\ tid[g] \in Alive
        \/ tstat[g] \in {"Complete", "Removed"}

(* A torrent that was read as halted and runs again was resumed, which the *)
(* sequence number shows or is about to show.                              *)
Runs == {i \in Ids : torrent[i] = "running"}
Resuming(g) == \E c \in Calls : tgid[c] = g /\ tpc[c] = "resumeSeq"
HaltsHold ==
    /\ \A g \in Magnets : tsnap[g] # "none" => tickpc = "write"
    /\ \A g \in Magnets \ touched :
          (tsnap[g] = "halted" /\ ~resumed /\ tstat[g] \in {"Active", "Paused"}
             /\ tid[g] \in Runs)
          => Resuming(g)

(* The torrent of a stopped task runs only while a call or the resolver is *)
(* about to stop it or to start the task.                                  *)
StopComes(g) ==
    \/ rpc[g] \in {"settle", "pause"}
    \/ \E c \in Calls : tgid[c] = g /\ tpc[c] \in {"pause", "resumeSeq", "unpauseWrite"}
RunsForReason ==
    \A g \in Magnets \ touched :
        tstat[g] \in {"Paused", "Error"} /\ tid[g] \in Runs => StopComes(g)

RestInv == ResumesTouched /\ SnapsHold /\ HaltsHold /\ RunsForReason

Inv == TypeInv /\ RouteInv /\ OwnerInv /\ RestInv

-----------------------------------------------------------------------------

(* The types.                                                              *)

(* The operations of the session are well-typed.                           *)
LEMMA EngineTypes ==
    ASSUME TorrentsTypeOK, NEW i \in Ids \cup {NoId}
    PROVE  /\ Paused(i) \in [Ids -> {"none", "running", "paused", "halted"}]
           /\ Running(i) \in [Ids -> {"none", "running", "paused", "halted"}]
           /\ Deleted(i) \in [Ids -> {"none", "running", "paused", "halted"}]
BY DEF TorrentsTypeOK, Paused, Running, Deleted

(* Every step keeps the types.                                             *)
LEMMA TypesKept == TypeInv /\ [TorrentsNext]_torrentVars => TypeInv'
<1> SUFFICES ASSUME TypeInv, [TorrentsNext]_torrentVars PROVE TypeInv'
  OBVIOUS
<1> USE TorrentBounds
    DEF TypeInv, ResolverPlaces, CallPlaces, ReloadPlaces, Snaps,
        Calls, taskVars, btVars, resVars, spawnVars, reloadVars, callVars, tickVars
<1>1. ASSUME NEW g \in Magnets, NEW s \in {"Active", "Paused"}, AddMagnet(g, s)
      PROVE  TypeInv'
  BY <1>1 DEF AddMagnet, EnsureResolvers, TorrentsTypeOK, ProcessTypes, CallsMade
<1>2. ASSUME NEW g \in Magnets, ResolveCheck(g) PROVE TypeInv'
  BY <1>2 DEF ResolveCheck, ResAt, TorrentsTypeOK, ProcessTypes, CallsMade
<1>3. ASSUME NEW g \in Magnets, Resolve(g) PROVE TypeInv'
  BY <1>3 DEF Resolve, ResAt, TorrentsTypeOK, ProcessTypes, CallsMade
<1>4. ASSUME NEW g \in Magnets, ResolveFails(g) PROVE TypeInv'
  <2> USE <1>4 DEF ResolveFails, ResAt
  <2>5. tstat' \in [Magnets -> {"Absent", "Active", "Paused", "Complete", "Error", "Removed"}]
    BY DEF TorrentsTypeOK
  <2>1. TorrentsTypeOK'
    BY <2>5 DEF TorrentsTypeOK
  <2>4. rpc' \in [Magnets -> ResolverPlaces]
    BY DEF ProcessTypes
  <2>2. ProcessTypes'
    BY <2>4 DEF ProcessTypes
  <2>3. CallsMade'
    BY DEF ProcessTypes, CallsMade
  <2> QED BY <2>1, <2>2, <2>3
<1>5. ASSUME NEW g \in Magnets, ResolveLock(g) PROVE TypeInv'
  <2> USE <1>5 DEF ResolveLock, ResAt, ResolveEnds
  <2>1. TorrentsTypeOK'
    BY DEF TorrentsTypeOK, ProcessTypes, CallsMade
  <2>2. ProcessTypes'
    BY DEF TorrentsTypeOK, ProcessTypes, CallsMade
  <2>3. CallsMade'
    BY DEF ProcessTypes, CallsMade
  <2> QED BY <2>1, <2>2, <2>3
<1>6. ASSUME NEW g \in Magnets, ResolveAdd(g) PROVE TypeInv'
  <2> USE <1>6 DEF ResolveAdd, ResAt
  <2>1. nextId \in Ids /\ nextId' \in 1..(MaxIds + 1)
    BY DEF ProcessTypes, Ids
  <2>2. TorrentsTypeOK'
    BY <2>1 DEF TorrentsTypeOK, ProcessTypes
  <2>3. ProcessTypes'
    BY <2>1 DEF ProcessTypes
  <2>4. CallsMade'
    BY DEF ProcessTypes, CallsMade
  <2> QED BY <2>2, <2>3, <2>4
<1>7. ASSUME NEW g \in Magnets, ResolveCurrent(g) \/ ResolveAttach(g) PROVE TypeInv'
  <2> USE <1>7 DEF ResolveCurrent, ResolveAttach, ResAt, ResolveEnds, Delete
  <2>1. rid[g] \in Ids \cup {NoId}
    BY DEF TorrentsTypeOK
  <2>5. torrent' \in {torrent, Deleted(rid[g])}
    OBVIOUS
  <2>2. TorrentsTypeOK'
    BY <2>1, <2>5, EngineTypes DEF TorrentsTypeOK
  <2>7. PICK l \in {"attach", "remember", "end"} : rpc' = [rpc EXCEPT ![g] = l]
    OBVIOUS
  <2>6. rpc' \in [Magnets -> ResolverPlaces]
    <3> HIDE <1>7 DEF ResolveCurrent, ResolveAttach
    <3> QED BY <2>7 DEF ProcessTypes
  <2>3. ProcessTypes'
    BY <2>6 DEF ProcessTypes
  <2>4. CallsMade'
    BY DEF ProcessTypes, CallsMade
  <2> QED BY <2>2, <2>3, <2>4
<1>8. ASSUME NEW g \in Magnets, Remember(g) PROVE TypeInv'
  BY <1>8 DEF Remember, ResAt, TorrentsTypeOK, ProcessTypes, CallsMade
<1>9. ASSUME NEW g \in Magnets, Settle(g) PROVE TypeInv'
  <2> USE <1>9 DEF Settle, ResAt, ResolveEnds, Delete
  <2>1. rid[g] \in Ids \cup {NoId}
    BY DEF TorrentsTypeOK, ProcessTypes, CallsMade
  <2>2. /\ tid' \in [Magnets -> Ids \cup {NoId}]
        /\ torrent' \in [Ids -> {"none", "running", "paused", "halted"}]
        /\ rpc' \in [Magnets -> ResolverPlaces]
    <3>1. CASE tstat[g] \in {"Active", "Paused"}
      <4>1. tid' = tid /\ torrent' = torrent
        BY <3>1
      <4>2. \E l \in {"end", "pause"} : rpc' = [rpc EXCEPT ![g] = l]
        BY <3>1
      <4> QED BY <4>1, <4>2 DEF TorrentsTypeOK, ProcessTypes
    <3>2. CASE tstat[g] \notin {"Active", "Paused"}
      <4>1. tid' = [tid EXCEPT ![g] = NoId] /\ torrent' = Deleted(rid[g])
        BY <3>2
      <4>2. rpc' = [rpc EXCEPT ![g] = "end"]
        BY <3>2
      <4> QED BY <2>1, <4>1, <4>2, EngineTypes DEF TorrentsTypeOK, ProcessTypes
    <3> QED BY <3>1, <3>2
  <2>3. TorrentsTypeOK'
    BY <2>2 DEF TorrentsTypeOK
  <2>4. ProcessTypes'
    BY <2>2 DEF ProcessTypes
  <2>5. CallsMade'
    BY DEF ProcessTypes, CallsMade
  <2> QED BY <2>3, <2>4, <2>5
<1>10. ASSUME NEW g \in Magnets, ResolvePause(g) PROVE TypeInv'
  <2> USE <1>10 DEF ResolvePause, ResAt, ResolveEnds
  <2>1. rid[g] \in Ids \cup {NoId}
    BY DEF TorrentsTypeOK, ProcessTypes, CallsMade
  <2>2. TorrentsTypeOK'
    BY <2>1, EngineTypes DEF TorrentsTypeOK, ProcessTypes, CallsMade
  <2>3. ProcessTypes'
    BY DEF TorrentsTypeOK, ProcessTypes, CallsMade
  <2>4. CallsMade'
    BY DEF ProcessTypes, CallsMade
  <2> QED BY <2>2, <2>3, <2>4
<1>11. ASSUME NEW g \in Magnets, ResolveDone(g) PROVE TypeInv'
  BY <1>11 DEF ResolveDone, TorrentsTypeOK, ProcessTypes, CallsMade
<1>12. ASSUME NEW c \in Calls, PauseTorrent(c) PROVE TypeInv'
  <2> USE <1>12 DEF PauseTorrent, CallAt
  <2>1. tid[tgid[c]] \in Ids \cup {NoId}
    BY DEF TorrentsTypeOK, ProcessTypes, CallsMade
  <2>2. TorrentsTypeOK'
    BY <2>1, EngineTypes DEF TorrentsTypeOK, ProcessTypes, CallsMade
  <2>3. ProcessTypes'
    BY DEF TorrentsTypeOK, ProcessTypes, CallsMade
  <2>4. CallsMade'
    BY DEF ProcessTypes, CallsMade
  <2> QED BY <2>2, <2>3, <2>4
<1>13. ASSUME NEW c \in Calls, UnpauseTorrent(c) PROVE TypeInv'
  <2> USE <1>13 DEF UnpauseTorrent, CallAt
  <2>1. tid[tgid[c]] \in Ids \cup {NoId}
    BY DEF TorrentsTypeOK, ProcessTypes, CallsMade
  <2>2. TorrentsTypeOK'
    BY <2>1, EngineTypes DEF TorrentsTypeOK, ProcessTypes, CallsMade
  <2>3. ProcessTypes'
    BY DEF TorrentsTypeOK, ProcessTypes, CallsMade
  <2>4. CallsMade'
    BY DEF ProcessTypes, CallsMade
  <2> QED BY <2>2, <2>3, <2>4
<1>14. ASSUME NEW c \in Calls, BumpResumeSeq(c) PROVE TypeInv'
  BY <1>14 DEF BumpResumeSeq, CallAt, TorrentsTypeOK, ProcessTypes, CallsMade
<1>15. ASSUME NEW c \in Calls, UnpauseWrite(c) PROVE TypeInv'
  <2> USE <1>15 DEF UnpauseWrite, CallAt
  <2>1. TorrentsTypeOK'
    BY ZenonT(30) DEF TorrentsTypeOK, ProcessTypes, CallsMade
  <2>4. \E l \in {"ensure", "idle"} : CallAt(c, l)
    OBVIOUS
  <2>5. tpc' \in [Calls -> CallPlaces] /\ tgid' \in [Calls -> Magnets \cup {NoId}]
    BY <2>4 DEF ProcessTypes
  <2>2. ProcessTypes'
    BY <2>5 DEF ProcessTypes
  <2>3. CallsMade'
    BY DEF ProcessTypes, CallsMade
  <2> QED BY <2>1, <2>2, <2>3
<1>16. ASSUME NEW c \in Calls, UnpauseEnsure(c) PROVE TypeInv'
  BY <1>16 DEF UnpauseEnsure, CallAt, EnsureResolvers, TorrentsTypeOK, ProcessTypes, CallsMade,
               Unresolved
<1>17. ASSUME NEW c \in Calls, RemoveTorrent(c) PROVE TypeInv'
  <2> USE <1>17 DEF RemoveTorrent, CallAt, Delete
  <2>1. tid[tgid[c]] \in Ids \cup {NoId}
    BY DEF TorrentsTypeOK, ProcessTypes, CallsMade
  <2>2. TorrentsTypeOK'
    BY <2>1, EngineTypes DEF TorrentsTypeOK, ProcessTypes, CallsMade
  <2>3. ProcessTypes'
    BY DEF TorrentsTypeOK, ProcessTypes, CallsMade
  <2>4. CallsMade'
    BY DEF ProcessTypes, CallsMade
  <2> QED BY <2>2, <2>3, <2>4
<1>18. ASSUME NEW c \in Calls, RemoveForget(c) PROVE TypeInv'
  BY <1>18 DEF RemoveForget, CallAt, TorrentsTypeOK, ProcessTypes, CallsMade
<1>19. ASSUME NEW c \in Calls, NEW g \in Magnets, PauseTask(c, g) PROVE TypeInv'
  BY <1>19 DEF PauseTask, Call, TorrentsTypeOK, ProcessTypes, CallsMade
<1>20. ASSUME NEW c \in Calls, NEW g \in Magnets, UnpauseCheck(c, g) PROVE TypeInv'
  BY <1>20 DEF UnpauseCheck, Call, TorrentsTypeOK, ProcessTypes, CallsMade
<1>21. ASSUME NEW c \in Calls, NEW g \in Magnets, RemoveTask(c, g) PROVE TypeInv'
  BY <1>21 DEF RemoveTask, Call, TorrentsTypeOK, ProcessTypes, CallsMade
<1>22. ASSUME NEW i \in Ids, TorrentDone(i) PROVE TypeInv'
  BY <1>22 DEF TorrentDone, TorrentsTypeOK, ProcessTypes, CallsMade
<1>23. ASSUME NEW i \in Ids, TorrentHalts(i) PROVE TypeInv'
  BY <1>23 DEF TorrentHalts, TorrentsTypeOK, ProcessTypes, CallsMade
<1>24. ASSUME TickSnapshot PROVE TypeInv'
  <2> USE <1>24 DEF TickSnapshot
  <2>1. tsnap' \in [Magnets -> Snaps]
    <3> SUFFICES ASSUME NEW g \in Magnets PROVE tsnap'[g] \in Snaps
      OBVIOUS
    <3>1. Managed(tid[g]) => torrent[tid[g]] \in Snaps
      BY DEF TorrentsTypeOK, Managed
    <3> QED BY <3>1
  <2>2. ProcessTypes'
    BY <2>1 DEF ProcessTypes
  <2>3. TorrentsTypeOK' /\ CallsMade'
    BY DEF TorrentsTypeOK, CallsMade
  <2> QED BY <2>2, <2>3
<1>25. ASSUME TickWrite PROVE TypeInv'
  BY <1>25 DEF TickWrite, TorrentsTypeOK, ProcessTypes, CallsMade
<1>26. ASSUME TickEnsure PROVE TypeInv'
  BY <1>26 DEF TickEnsure, EnsureResolvers, TorrentsTypeOK, ProcessTypes, CallsMade, Unresolved
<1>27. ASSUME NEW s \in spawned, Spawned(s) PROVE TypeInv'
  <2> USE <1>27 DEF Spawned
  <2>1. s[2] \in Ids \cup {NoId}
    BY DEF TorrentsTypeOK, ProcessTypes, CallsMade
  <2>2. TorrentsTypeOK'
    BY <2>1, EngineTypes DEF TorrentsTypeOK, ProcessTypes, CallsMade
  <2>3. ProcessTypes'
    BY DEF TorrentsTypeOK, ProcessTypes, CallsMade
  <2>4. CallsMade'
    BY DEF ProcessTypes, CallsMade
  <2> QED BY <2>2, <2>3, <2>4
<1>28. ASSUME NEW p \in Profiles, ReloadStart(p) PROVE TypeInv'
  BY <1>28 DEF ReloadStart, Unlocked, ReloadAt, TorrentsTypeOK, ProcessTypes, CallsMade
<1>29. ASSUME ReloadPauseTasks PROVE TypeInv'
  BY <1>29 DEF ReloadPauseTasks, ReloadAt, TorrentsTypeOK, ProcessTypes, CallsMade
<1>30. ASSUME ReloadInvalidate PROVE TypeInv'
  BY <1>30 DEF ReloadInvalidate, ReloadAt, TorrentsTypeOK, ProcessTypes, CallsMade
<1>31. ASSUME ReloadGivesUp PROVE TypeInv'
  BY <1>31 DEF ReloadGivesUp, MarkFailed, ReloadAt, TorrentsTypeOK, ProcessTypes, CallsMade
<1>32. ASSUME ReloadTargets PROVE TypeInv'
  BY <1>32 DEF ReloadTargets, PauseNext, ReloadAt, TorrentsTypeOK, ProcessTypes, CallsMade
<1>33. ASSUME NEW g \in Magnets, ReloadPauseTorrent(g) PROVE TypeInv'
  <2> USE <1>33 DEF ReloadPauseTorrent, PauseNext, MarkFailed, ReloadAt
  <2>1. rids[g] \in Ids \cup {NoId}
    BY DEF TorrentsTypeOK, ProcessTypes, CallsMade
  <2>2. TorrentsTypeOK'
    BY <2>1, EngineTypes DEF TorrentsTypeOK, ProcessTypes, CallsMade
  <2>3. ProcessTypes'
    BY DEF TorrentsTypeOK, ProcessTypes, CallsMade
  <2>4. CallsMade'
    BY DEF ProcessTypes, CallsMade
  <2> QED BY <2>2, <2>3, <2>4
<1>34. ASSUME ReloadReconfigure PROVE TypeInv'
  BY <1>34 DEF ReloadReconfigure, ReloadAt, TorrentsTypeOK, ProcessTypes, CallsMade
<1>35. ASSUME ReloadReconfigureFails PROVE TypeInv'
  BY <1>35 DEF ReloadReconfigureFails, ReloadAt, TorrentsTypeOK, ProcessTypes, CallsMade
<1>36. ASSUME ReloadOptions PROVE TypeInv'
  BY <1>36 DEF ReloadOptions, ReloadAt, TorrentsTypeOK, ProcessTypes, CallsMade
<1>37. ASSUME ReloadResumeTasks PROVE TypeInv'
  BY <1>37 DEF ReloadResumeTasks, ReloadAt, TorrentsTypeOK, ProcessTypes, CallsMade
<1>38. ASSUME ReloadResumeIds PROVE TypeInv'
  BY <1>38 DEF ReloadResumeIds, ResumeNext, ReloadAt, TorrentsTypeOK, ProcessTypes, CallsMade
<1>39. ASSUME NEW g \in Magnets, ReloadResume(g) PROVE TypeInv'
  <2> USE <1>39 DEF ReloadResume, ResumeNext, EnsureResolvers, ReloadAt
  <2>1. rids[g] \in Ids \cup {NoId}
    BY DEF TorrentsTypeOK, ProcessTypes, CallsMade
  <2>2. TorrentsTypeOK'
    BY <2>1, EngineTypes DEF TorrentsTypeOK, Unresolved
  <2>3. /\ rpc' \in [Magnets -> ResolverPlaces] /\ rmag' \in [Magnets -> Nat]
        /\ rl' \in ReloadPlaces
    <3>1. CASE rids[g] = NoId
      <4>1. /\ rpc' = [h \in Magnets |-> IF h \in Unresolved THEN "check" ELSE rpc[h]]
            /\ rmag' = [h \in Magnets |-> IF h \in Unresolved THEN magGen ELSE rmag[h]]
            /\ rl' \in {"idle", "resume"}
        BY <3>1
      <4> QED BY <4>1 DEF ProcessTypes
    <3>2. CASE rids[g] # NoId
      BY <3>2 DEF ProcessTypes
    <3> QED BY <3>1, <3>2
  <2>4. ProcessTypes'
    BY <2>3 DEF ProcessTypes
  <2>5. CallsMade'
    BY DEF CallsMade
  <2> QED BY <2>2, <2>4, <2>5
<1>40. ASSUME ReloadResumeFails PROVE TypeInv'
  BY <1>40 DEF ReloadResumeFails, ReloadAt, TorrentsTypeOK, ProcessTypes, CallsMade
<1>41. ASSUME RollbackTasks PROVE TypeInv'
  BY <1>41 DEF RollbackTasks, MarkFailed, ReloadAt, TorrentsTypeOK, ProcessTypes, CallsMade
<1>42. ASSUME RollbackPause PROVE TypeInv'
  BY <1>42 DEF RollbackPause, ReloadAt, TorrentsTypeOK, ProcessTypes, CallsMade
<1>43. ASSUME RollbackRoute PROVE TypeInv'
  BY <1>43 DEF RollbackRoute, ReloadAt, TorrentsTypeOK, ProcessTypes, CallsMade
<1>44. CASE UNCHANGED torrentVars
  BY <1>44 DEF torrentVars, TorrentsTypeOK, ProcessTypes, CallsMade
<1> QED
  BY <1>1, <1>2, <1>3, <1>4, <1>5, <1>6, <1>7, <1>8, <1>9, <1>10, <1>11, <1>12, <1>13, <1>14,
     <1>15, <1>16, <1>17, <1>18, <1>19, <1>20, <1>21, <1>22, <1>23, <1>24, <1>25, <1>26, <1>27,
     <1>28, <1>29, <1>30, <1>31, <1>32, <1>33, <1>34, <1>35, <1>36, <1>37, <1>38, <1>39, <1>40,
     <1>41, <1>42, <1>43, <1>44
  DEF TorrentsNext, ResolverStep, CallStep, TickStep, ReloadStep

-----------------------------------------------------------------------------
(* The route lock and the generation of the magnet cache.                  *)

(* Torrents are added under the lock of the route, which a swap takes too, *)
(* and no resolver is spawned between the new generation and the new route.*)
LockVars == <<rpc, routeLock, rmag, rroute, stranded, route, magGen, rl>>
LEMMA LockKept ==
    ASSUME TypeInv, OnRoute, [TorrentsNext]_torrentVars
    PROVE  OnRoute'
<1> USE TorrentBounds
    DEF TypeInv, TorrentsTypeOK, ProcessTypes, OnRoute, AddsUnderLock, AddsAtGeneration,
        SpawnedOnRoute, ReloadPlaces, taskVars, btVars, resVars, spawnVars, reloadVars, callVars,
        tickVars
<1>1. ASSUME NEW g \in Magnets, NEW s \in {"Active", "Paused"}, AddMagnet(g, s)
      PROVE  OnRoute'
  BY <1>1 DEF AddMagnet, EnsureResolvers, Unlocked
<1>2. ASSUME NEW g \in Magnets, ResolveCheck(g) PROVE OnRoute'
  BY <1>2 DEF ResolveCheck, ResAt
<1>3. ASSUME NEW g \in Magnets, Resolve(g) PROVE OnRoute'
  BY <1>3 DEF Resolve, ResAt
<1>4. ASSUME NEW g \in Magnets, ResolveFails(g) PROVE OnRoute'
  BY <1>4 DEF ResolveFails, ResAt
<1>5. ASSUME NEW g \in Magnets, ResolveLock(g) PROVE OnRoute'
  BY <1>5 DEF ResolveLock, ResAt, ResolveEnds
<1>6. ASSUME NEW g \in Magnets, ResolveAdd(g) PROVE OnRoute'
  BY <1>6 DEF ResolveAdd, ResAt
<1>7. ASSUME NEW g \in Magnets, ResolveCurrent(g) \/ ResolveAttach(g) PROVE OnRoute'
  BY <1>7 DEF ResolveCurrent, ResolveAttach, ResAt, ResolveEnds, Delete
<1>8. ASSUME NEW g \in Magnets, Remember(g) PROVE OnRoute'
  BY <1>8 DEF Remember, ResAt
<1>9. ASSUME NEW g \in Magnets, Settle(g) PROVE OnRoute'
  BY <1>9 DEF Settle, ResAt, ResolveEnds, Delete
<1>10. ASSUME NEW g \in Magnets, ResolvePause(g) PROVE OnRoute'
  BY <1>10 DEF ResolvePause, ResAt, ResolveEnds
<1>11. ASSUME NEW g \in Magnets, ResolveDone(g) PROVE OnRoute'
  BY <1>11 DEF ResolveDone
<1>12. ASSUME NEW c \in Calls, UnpauseEnsure(c) PROVE OnRoute'
  BY <1>12 DEF UnpauseEnsure, CallAt, EnsureResolvers, Unlocked
<1>13. ASSUME TickEnsure PROVE OnRoute'
  BY <1>13 DEF TickEnsure, EnsureResolvers, Unlocked
<1>14. ASSUME ReloadInvalidate PROVE OnRoute'
  BY <1>14 DEF ReloadInvalidate, ReloadAt
<1>15. ASSUME NEW g \in Magnets, ReloadResume(g) PROVE OnRoute'
  BY <1>15 DEF ReloadResume, ResumeNext, EnsureResolvers, Unlocked, ReloadAt
<1>16. ASSUME NEW c \in Calls,
             PauseTorrent(c) \/ UnpauseTorrent(c) \/ BumpResumeSeq(c)
              \/ UnpauseWrite(c) \/ RemoveTorrent(c) \/ RemoveForget(c)
      PROVE  UNCHANGED LockVars
  BY <1>16 DEF LockVars, PauseTorrent, UnpauseTorrent, BumpResumeSeq, UnpauseWrite, RemoveTorrent,
               RemoveForget
<1>17. ASSUME NEW c \in Calls, NEW g \in Magnets,
             PauseTask(c, g) \/ UnpauseCheck(c, g) \/ RemoveTask(c, g)
      PROVE  UNCHANGED LockVars
  BY <1>17 DEF LockVars, PauseTask, UnpauseCheck, RemoveTask
<1>18. ASSUME NEW i \in Ids,
             TorrentDone(i) \/ TorrentHalts(i)
      PROVE  UNCHANGED LockVars
  BY <1>18 DEF LockVars, TorrentDone, TorrentHalts
<1>19. ASSUME TickSnapshot \/ TickWrite
      PROVE  UNCHANGED LockVars
  BY <1>19 DEF LockVars, TickSnapshot, TickWrite
<1>20. ASSUME ReloadPauseTasks \/ ReloadGivesUp \/ ReloadTargets \/ ReloadOptions
              \/ ReloadResumeTasks \/ ReloadResumeIds \/ ReloadResumeFails \/ RollbackTasks
              \/ RollbackPause
      PROVE  OnRoute'
  BY <1>20 DEF ReloadPauseTasks, ReloadGivesUp, ReloadTargets, PauseNext, ReloadOptions,
               ReloadResumeTasks, ReloadResumeIds, ResumeNext, ReloadResumeFails, RollbackTasks,
               RollbackPause, ReloadAt
<1>26. ASSUME ReloadReconfigure \/ ReloadReconfigureFails PROVE OnRoute'
  BY <1>26 DEF ReloadReconfigure, ReloadReconfigureFails, ReloadAt
<1>27. ASSUME RollbackRoute PROVE OnRoute'
  BY <1>27 DEF RollbackRoute, Strand, ReloadAt
<1>21. ASSUME NEW s \in spawned,
             Spawned(s)
      PROVE  UNCHANGED LockVars
  BY <1>21 DEF LockVars, Spawned
<1>22. ASSUME NEW p \in Profiles, ReloadStart(p) PROVE OnRoute'
  BY <1>22 DEF ReloadStart, Unlocked, ReloadAt
<1>23. ASSUME NEW g \in Magnets, ReloadPauseTorrent(g) PROVE OnRoute'
  BY <1>23 DEF ReloadPauseTorrent, PauseNext, ReloadAt
<1>24. CASE UNCHANGED torrentVars
  BY <1>24 DEF torrentVars
<1>25. UNCHANGED LockVars => OnRoute'
  BY DEF LockVars
<1> QED
  BY <1>1, <1>2, <1>3, <1>4, <1>5, <1>6, <1>7, <1>8, <1>9, <1>10, <1>11, <1>12, <1>13, <1>14,
     <1>15, <1>16, <1>17, <1>18, <1>19, <1>20, <1>21, <1>22, <1>23, <1>24, <1>25, <1>26, <1>27
  DEF TorrentsNext, ResolverStep, CallStep, TickStep, ReloadStep

(* Where the route and the options are.                                    *)

(* Each step of a reload leaves the routes where the next expects them.    *)
LEMMA RoutesKept ==
    ASSUME TypeInv, RoutesKnown, [TorrentsNext]_torrentVars
    PROVE  RoutesKnown'
<1> USE TorrentBounds
    DEF TypeInv, ProcessTypes, ReloadPlaces, RoutesKnown, taskVars, btVars, resVars, spawnVars,
        reloadVars, callVars, tickVars
<1>1. ASSUME NEW p \in Profiles, ReloadStart(p) PROVE RoutesKnown'
  BY <1>1 DEF ReloadStart, Unlocked, ReloadAt
<1>2. ASSUME ReloadPauseTasks PROVE RoutesKnown'
  BY <1>2 DEF ReloadPauseTasks, ReloadAt
<1>3. ASSUME ReloadInvalidate PROVE RoutesKnown'
  BY <1>3 DEF ReloadInvalidate, ReloadAt
<1>4. ASSUME ReloadGivesUp PROVE RoutesKnown'
  BY <1>4 DEF ReloadGivesUp, MarkFailed, ReloadAt
<1>5. ASSUME ReloadTargets PROVE RoutesKnown'
  BY <1>5 DEF ReloadTargets, PauseNext, ReloadAt
<1>6. ASSUME NEW g \in Magnets, ReloadPauseTorrent(g) PROVE RoutesKnown'
  BY <1>6 DEF ReloadPauseTorrent, PauseNext, MarkFailed, ReloadAt
<1>7. ASSUME ReloadReconfigure PROVE RoutesKnown'
  BY <1>7 DEF ReloadReconfigure, ReloadAt
<1>8. ASSUME ReloadReconfigureFails PROVE RoutesKnown'
  BY <1>8 DEF ReloadReconfigureFails, ReloadAt
<1>9. ASSUME ReloadOptions PROVE RoutesKnown'
  BY <1>9 DEF ReloadOptions, ReloadAt
<1>10. ASSUME ReloadResumeTasks PROVE RoutesKnown'
  BY <1>10 DEF ReloadResumeTasks, ReloadAt
<1>11. ASSUME ReloadResumeIds PROVE RoutesKnown'
  BY <1>11 DEF ReloadResumeIds, ResumeNext, ReloadAt
<1>12. ASSUME NEW g \in Magnets, ReloadResume(g) PROVE RoutesKnown'
  BY <1>12 DEF ReloadResume, ResumeNext, EnsureResolvers, ReloadAt
<1>13. ASSUME ReloadResumeFails PROVE RoutesKnown'
  BY <1>13 DEF ReloadResumeFails, ReloadAt
<1>14. ASSUME RollbackTasks PROVE RoutesKnown'
  BY <1>14 DEF RollbackTasks, MarkFailed, ReloadAt
<1>15. ASSUME RollbackPause PROVE RoutesKnown'
  BY <1>15 DEF RollbackPause, ReloadAt
<1>16. ASSUME RollbackRoute PROVE RoutesKnown'
  BY <1>16 DEF RollbackRoute, ReloadAt
<1>17. ASSUME NEW g \in Magnets,
             (\E s \in {"Active", "Paused"} : AddMagnet(g, s))
              \/ ResolveCheck(g) \/ Resolve(g) \/ ResolveFails(g)
              \/ ResolveLock(g) \/ ResolveAdd(g) \/ ResolveCurrent(g)
              \/ ResolveAttach(g) \/ Remember(g)
      PROVE  UNCHANGED <<rl, old, profile, dirtyRoute, route, target>>
  BY <1>17 DEF AddMagnet, ResolveCheck, Resolve, ResolveFails, ResolveLock, ResolveAdd,
               ResolveCurrent, ResolveAttach, Remember
<1>18. ASSUME NEW g \in Magnets,
             Settle(g) \/ ResolvePause(g) \/ ResolveDone(g)
      PROVE  UNCHANGED <<rl, old, profile, dirtyRoute, route, target>>
  BY <1>18 DEF Settle, ResolvePause, ResolveDone
<1>19. ASSUME NEW c \in Calls,
             PauseTorrent(c) \/ UnpauseTorrent(c) \/ BumpResumeSeq(c)
              \/ UnpauseWrite(c) \/ UnpauseEnsure(c) \/ RemoveTorrent(c) \/ RemoveForget(c)
      PROVE  UNCHANGED <<rl, old, profile, dirtyRoute, route, target>>
  BY <1>19 DEF PauseTorrent, UnpauseTorrent, BumpResumeSeq, UnpauseWrite, UnpauseEnsure,
               RemoveTorrent, RemoveForget
<1>20. ASSUME NEW c \in Calls, NEW g \in Magnets,
             PauseTask(c, g) \/ UnpauseCheck(c, g) \/ RemoveTask(c, g)
      PROVE  UNCHANGED <<rl, old, profile, dirtyRoute, route, target>>
  BY <1>20 DEF PauseTask, UnpauseCheck, RemoveTask
<1>21. ASSUME NEW i \in Ids,
             TorrentDone(i) \/ TorrentHalts(i)
      PROVE  UNCHANGED <<rl, old, profile, dirtyRoute, route, target>>
  BY <1>21 DEF TorrentDone, TorrentHalts
<1>22. ASSUME TickSnapshot \/ TickWrite \/ TickEnsure
      PROVE  UNCHANGED <<rl, old, profile, dirtyRoute, route, target>>
  BY <1>22 DEF TickSnapshot, TickWrite, TickEnsure
<1>23. ASSUME NEW s \in spawned,
             Spawned(s)
      PROVE  UNCHANGED <<rl, old, profile, dirtyRoute, route, target>>
  BY <1>23 DEF Spawned
<1>24. CASE UNCHANGED torrentVars
  BY <1>24 DEF torrentVars
<1>25. UNCHANGED <<rl, old, profile, dirtyRoute, route, target>> => RoutesKnown'
  BY DEF RoutesKnown
<1> QED
  BY <1>1, <1>2, <1>3, <1>4, <1>5, <1>6, <1>7, <1>8, <1>9, <1>10, <1>11, <1>12, <1>13, <1>14,
     <1>15, <1>16, <1>17, <1>18, <1>19, <1>20, <1>21, <1>22, <1>23, <1>24, <1>25
  DEF TorrentsNext, ResolverStep, CallStep, TickStep, ReloadStep

(* Who paused a task.                                                      *)

(* Whoever pauses a task is known.                                         *)
LEMMA PausesKept ==
    ASSUME TypeInv, PausesExplained, [TorrentsNext]_torrentVars
    PROVE  PausesExplained'
<1> USE TorrentBounds
    DEF TypeInv, TorrentsTypeOK, ProcessTypes, ReloadPlaces, PausesExplained, taskVars, btVars,
        resVars, spawnVars, reloadVars, callVars, tickVars
<1>1. ASSUME NEW g \in Magnets, NEW s \in {"Active", "Paused"}, AddMagnet(g, s)
      PROVE  PausesExplained'
  BY <1>1 DEF AddMagnet, EnsureResolvers
<1>2. ASSUME NEW g \in Magnets, ResolveFails(g) PROVE PausesExplained'
  BY <1>2 DEF ResolveFails, ResAt
<1>3. ASSUME NEW g \in Magnets, Remember(g) PROVE PausesExplained'
  BY <1>3 DEF Remember, ResAt
<1>4. ASSUME NEW c \in Calls, UnpauseWrite(c) PROVE PausesExplained'
  BY <1>4 DEF UnpauseWrite, CallAt
<1>5. ASSUME NEW c \in Calls, NEW g \in Magnets, PauseTask(c, g) PROVE PausesExplained'
  BY <1>5 DEF PauseTask, Call
<1>6. ASSUME NEW c \in Calls, NEW g \in Magnets, RemoveTask(c, g) PROVE PausesExplained'
  BY <1>6 DEF RemoveTask, Call
<1>7. ASSUME TickWrite PROVE PausesExplained'
  BY <1>7 DEF TickWrite
<1>8. ASSUME NEW p \in Profiles, ReloadStart(p) PROVE PausesExplained'
  BY <1>8 DEF ReloadStart, Unlocked, ReloadAt
<1>9. ASSUME ReloadPauseTasks PROVE PausesExplained'
  BY <1>9 DEF ReloadPauseTasks, ReloadAt
<1>10. ASSUME ReloadInvalidate PROVE PausesExplained'
  BY <1>10 DEF ReloadInvalidate, ReloadAt
<1>11. ASSUME ReloadGivesUp PROVE PausesExplained'
  BY <1>11 DEF ReloadGivesUp, MarkFailed, ReloadAt
<1>12. ASSUME ReloadTargets PROVE PausesExplained'
  BY <1>12 DEF ReloadTargets, PauseNext, ReloadAt
<1>13. ASSUME NEW g \in Magnets, ReloadPauseTorrent(g) PROVE PausesExplained'
  BY <1>13 DEF ReloadPauseTorrent, PauseNext, MarkFailed, ReloadAt
<1>14. ASSUME ReloadReconfigure PROVE PausesExplained'
  BY <1>14 DEF ReloadReconfigure, ReloadAt
<1>15. ASSUME ReloadReconfigureFails PROVE PausesExplained'
  BY <1>15 DEF ReloadReconfigureFails, ReloadAt
<1>16. ASSUME ReloadOptions PROVE PausesExplained'
  BY <1>16 DEF ReloadOptions, ReloadAt
<1>17. ASSUME ReloadResumeTasks PROVE PausesExplained'
  BY <1>17 DEF ReloadResumeTasks, ReloadAt
<1>18. ASSUME ReloadResumeIds PROVE PausesExplained'
  BY <1>18 DEF ReloadResumeIds, ResumeNext, ReloadAt
<1>19. ASSUME NEW g \in Magnets, ReloadResume(g) PROVE PausesExplained'
  BY <1>19 DEF ReloadResume, ResumeNext, EnsureResolvers, ReloadAt
<1>20. ASSUME ReloadResumeFails PROVE PausesExplained'
  BY <1>20 DEF ReloadResumeFails, ReloadAt
<1>21. ASSUME RollbackTasks PROVE PausesExplained'
  BY <1>21 DEF RollbackTasks, MarkFailed, ReloadAt
<1>22. ASSUME RollbackPause PROVE PausesExplained'
  BY <1>22 DEF RollbackPause, ReloadAt
<1>23. ASSUME RollbackRoute PROVE PausesExplained'
  BY <1>23 DEF RollbackRoute, ReloadAt
<1>24. ASSUME NEW g \in Magnets,
             ResolveCheck(g) \/ Resolve(g) \/ ResolveLock(g) \/ ResolveAdd(g)
              \/ ResolveCurrent(g) \/ ResolveAttach(g) \/ Settle(g) \/ ResolvePause(g)
              \/ ResolveDone(g)
      PROVE  UNCHANGED <<tstat, byUser, reason, ract, rl>>
  BY <1>24 DEF ResolveCheck, Resolve, ResolveLock, ResolveAdd, ResolveCurrent, ResolveAttach,
               Settle, ResolvePause, ResolveDone
<1>25. ASSUME NEW c \in Calls,
             PauseTorrent(c) \/ UnpauseTorrent(c) \/ BumpResumeSeq(c)
              \/ UnpauseEnsure(c) \/ RemoveTorrent(c) \/ RemoveForget(c)
      PROVE  UNCHANGED <<tstat, byUser, reason, ract, rl>>
  BY <1>25 DEF PauseTorrent, UnpauseTorrent, BumpResumeSeq, UnpauseEnsure, RemoveTorrent,
               RemoveForget
<1>26. ASSUME NEW c \in Calls, NEW g \in Magnets,
             UnpauseCheck(c, g)
      PROVE  UNCHANGED <<tstat, byUser, reason, ract, rl>>
  BY <1>26 DEF UnpauseCheck
<1>27. ASSUME NEW i \in Ids,
             TorrentDone(i) \/ TorrentHalts(i)
      PROVE  UNCHANGED <<tstat, byUser, reason, ract, rl>>
  BY <1>27 DEF TorrentDone, TorrentHalts
<1>28. ASSUME TickSnapshot \/ TickEnsure
      PROVE  UNCHANGED <<tstat, byUser, reason, ract, rl>>
  BY <1>28 DEF TickSnapshot, TickEnsure
<1>29. ASSUME NEW s \in spawned,
             Spawned(s)
      PROVE  UNCHANGED <<tstat, byUser, reason, ract, rl>>
  BY <1>29 DEF Spawned
<1>30. CASE UNCHANGED torrentVars
  BY <1>30 DEF torrentVars
<1>31. UNCHANGED <<tstat, byUser, reason, ract, rl>> => PausesExplained'
  BY DEF PausesExplained
<1> QED
  BY <1>1, <1>2, <1>3, <1>4, <1>5, <1>6, <1>7, <1>8, <1>9, <1>10, <1>11, <1>12, <1>13, <1>14,
     <1>15, <1>16, <1>17, <1>18, <1>19, <1>20, <1>21, <1>22, <1>23, <1>24, <1>25, <1>26, <1>27,
     <1>28, <1>29, <1>30, <1>31
  DEF TorrentsNext, ResolverStep, CallStep, TickStep, ReloadStep

-----------------------------------------------------------------------------
(* What an operation of the session does to the torrents it has.           *)

(* What the session holds after an operation.                              *)
LEMMA AliveAfter ==
    ASSUME TypeInv, NEW i \in Ids \cup {NoId}
    PROVE  /\ torrent' = torrent => Alive' = Alive
           /\ torrent' = Paused(i) => Alive' = Alive
           /\ torrent' = Running(i) => Alive' = Alive
           /\ torrent' = Deleted(i) => Alive' = Alive \ {i}
BY TorrentBounds DEF TypeInv, TorrentsTypeOK, Alive, Paused, Running, Deleted, Managed, Ids

(* The session finds the torrents it holds.                                *)
LEMMA ManagedIsAlive ==
    ASSUME TypeInv, NEW i \in Ids \cup {NoId} PROVE Managed(i) <=> i \in Alive
BY TorrentBounds DEF TypeInv, TorrentsTypeOK, Alive, Managed, Ids

(* Ids that are only dropped or copied stay apart.                         *)
LEMMA IdsShrink ==
    ASSUME IdsApart, nextId' = nextId, Alive' \subseteq Alive,
           \A g \in Magnets : IdsOf(g)' \subseteq IdsOf(g)
    PROVE  IdsApart'
BY DEF IdsApart

(* Torrents stay answered for when nobody who answers gives up.            *)
LEMMA AnswersKept ==
    ASSUME Answered, Alive' \subseteq Alive,
           \A i \in Alive', g \in Magnets : Answers(g, i) => Answers(g, i)'
    PROVE  Answered'
BY DEF Answered

(* A resolver is spawned for a task that has none.                         *)
LEMMA SpawnsFirst ==
    ASSUME TypeInv, Resolving
    PROVE  \A g \in Unresolved : g \in Magnets /\ rpc[g] = "none" /\ tid[g] = NoId
BY DEF TypeInv, ProcessTypes, Resolving, Unresolved

(* Every step keeps each torrent owned, action by action.                  *)
LEMMA OwnerKept ==
    ASSUME TypeInv, TypeInv', OwnerInv, [TorrentsNext]_torrentVars
    PROVE  OwnerInv'
<1> USE TorrentBounds
    DEF TypeInv, OwnerInv, taskVars, btVars, resVars, spawnVars, reloadVars, callVars, tickVars
<1>1. ASSUME NEW g \in Magnets, NEW s \in {"Active", "Paused"}, AddMagnet(g, s)
      PROVE  OwnerInv'
  <2> USE <1>1 DEF AddMagnet, EnsureResolvers
  <2>1. Alive' = Alive
    BY DEF Alive
  <2>2. IdsApart'
    BY <2>1, IdsShrink DEF IdsOf, TorrentsTypeOK, ProcessTypes
  <2>3. Resolving'
    BY <2>1 DEF Resolving, Before, TorrentsTypeOK, ProcessTypes
  <2>4. Removing'
    BY <2>1 DEF Removing, CallsMade, TorrentsTypeOK, ProcessTypes
  <2>5. Answered'
    <3>1. rpc[g] = "none" /\ tid[g] = NoId
      BY DEF Resolving
    <3>2. \A i \in Alive, h \in Magnets : Answers(h, i) => Answers(h, i)'
      BY <3>1 DEF Answers, RemoveCalled, Alive, TorrentsTypeOK, ProcessTypes
    <3> QED BY <2>1, <3>2, AnswersKept
  <2> QED BY <2>2, <2>3, <2>4, <2>5
<1>2. ASSUME NEW g \in Magnets, ResolveCheck(g) PROVE OwnerInv'
  <2> USE <1>2 DEF ResolveCheck, ResAt
  <2>1. Alive' = Alive
    BY DEF Alive
  <2>2. IdsApart'
    BY <2>1, IdsShrink DEF IdsOf, TorrentsTypeOK, ProcessTypes
  <2>3. Resolving'
    BY <2>1 DEF Resolving, Before, TorrentsTypeOK, ProcessTypes
  <2>4. Removing'
    BY <2>1 DEF Removing, CallsMade, TorrentsTypeOK, ProcessTypes
  <2>5. Answered'
    BY <2>1 DEF Answered, Answers, RemoveCalled, TorrentsTypeOK, ProcessTypes
  <2> QED BY <2>2, <2>3, <2>4, <2>5
<1>3. ASSUME NEW g \in Magnets, Resolve(g) PROVE OwnerInv'
  <2> USE <1>3 DEF Resolve, ResAt
  <2>1. Alive' = Alive
    BY DEF Alive
  <2>2. IdsApart'
    BY <2>1, IdsShrink DEF IdsOf, TorrentsTypeOK, ProcessTypes
  <2>3. Resolving'
    BY <2>1 DEF Resolving, Before, TorrentsTypeOK, ProcessTypes
  <2>4. Removing'
    BY <2>1 DEF Removing, CallsMade, TorrentsTypeOK, ProcessTypes
  <2>5. Answered'
    BY <2>1 DEF Answered, Answers, RemoveCalled, TorrentsTypeOK, ProcessTypes
  <2> QED BY <2>2, <2>3, <2>4, <2>5
<1>4. ASSUME NEW g \in Magnets, ResolveFails(g) PROVE OwnerInv'
  <2> USE <1>4 DEF ResolveFails, ResAt
  <2>1. Alive' = Alive
    BY DEF Alive
  <2>2. IdsApart'
    BY <2>1, IdsShrink DEF IdsOf, TorrentsTypeOK, ProcessTypes
  <2>3. Resolving'
    BY <2>1 DEF Resolving, Before, TorrentsTypeOK, ProcessTypes
  <2>4. Removing'
    BY <2>1 DEF Removing, CallsMade, TorrentsTypeOK, ProcessTypes
  <2>5. Answered'
    BY <2>1 DEF Answered, Answers, RemoveCalled, TorrentsTypeOK, ProcessTypes
  <2> QED BY <2>2, <2>3, <2>4, <2>5
<1>5. ASSUME NEW g \in Magnets, ResolveLock(g) PROVE OwnerInv'
  <2> USE <1>5 DEF ResolveLock, ResAt, ResolveEnds
  <2>1. Alive' = Alive
    BY DEF Alive
  <2>2. IdsApart'
    BY <2>1, IdsShrink DEF IdsOf, TorrentsTypeOK, ProcessTypes
  <2>3. Resolving'
    BY <2>1 DEF Resolving, Before, TorrentsTypeOK, ProcessTypes
  <2>4. Removing'
    BY <2>1 DEF Removing, CallsMade, TorrentsTypeOK, ProcessTypes
  <2>5. Answered'
    BY <2>1 DEF Answered, Answers, RemoveCalled, TorrentsTypeOK, ProcessTypes
  <2> QED BY <2>2, <2>3, <2>4, <2>5
<1>6. ASSUME NEW g \in Magnets, ResolveAdd(g) PROVE OwnerInv'
  <2> USE <1>6 DEF ResolveAdd, ResAt
  <2>1. Alive' = Alive \cup {nextId} /\ nextId \in Ids
    BY DEF Alive, Ids, TorrentsTypeOK, ProcessTypes
  <2>2. nextId \notin Alive /\ \A h \in Magnets : nextId \notin {tid[h], rid[h], rids[h]}
    <3>1. nextId # NoId /\ ~(nextId < nextId)
      BY <2>1 DEF Ids
    <3> QED BY <3>1 DEF IdsApart, IdsOf
  <2>3. IdsApart'
    <3>1. \A h \in Magnets : IdsOf(h)' \subseteq IdsOf(h) \cup (IF h = g THEN {nextId} ELSE {})
      BY DEF IdsOf, TorrentsTypeOK
    <3>2. \A h \in Magnets : nextId \notin IdsOf(h) /\ IdsOf(h) \subseteq Ids
      BY <2>2 DEF IdsOf, TorrentsTypeOK, ProcessTypes
    <3>3. \A h \in Magnets : \A i \in IdsOf(h)' : i < nextId'
      <4> SUFFICES ASSUME NEW h \in Magnets, NEW i \in IdsOf(h)' PROVE i < nextId + 1
        OBVIOUS
      <4>1. i = nextId \/ (i \in Ids /\ i < nextId)
        BY <3>1, <3>2 DEF IdsApart
      <4> QED BY <2>1, <4>1 DEF Ids
    <3>4. \A i \in Alive' : i < nextId'
      <4> SUFFICES ASSUME NEW i \in Alive' PROVE i < nextId + 1
        OBVIOUS
      <4>1. i = nextId \/ (i \in Ids /\ i < nextId)
        BY <2>1 DEF IdsApart, Alive
      <4> QED BY <2>1, <4>1 DEF Ids
    <3>5. \A h, k \in Magnets : h # k => IdsOf(h)' \cap IdsOf(k)' = {}
      BY <3>1, <3>2 DEF IdsApart
    <3> QED BY <3>3, <3>4, <3>5 DEF IdsApart
  <2>4. Resolving'
    <3> SUFFICES ASSUME NEW h \in Magnets PROVE Resolving!(h)'
      BY DEF Resolving
    <3>1. CASE h = g
      BY <3>1 DEF Resolving, Before, TorrentsTypeOK, ProcessTypes
    <3>2. CASE h # g
      BY <2>1, <2>2, <3>2 DEF Resolving, Before, TorrentsTypeOK, ProcessTypes
    <3> QED BY <3>1, <3>2
  <2>5. Removing'
    BY <2>1, <2>2 DEF Removing, CallsMade, TorrentsTypeOK, ProcessTypes
  <2>6. Answered'
    BY <2>1 DEF Answered, Answers, RemoveCalled, TorrentsTypeOK, ProcessTypes
  <2> QED BY <2>3, <2>4, <2>5, <2>6
<1>7. ASSUME NEW g \in Magnets, ResolveCurrent(g) \/ ResolveAttach(g) PROVE OwnerInv'
  <2> USE <1>7 DEF ResolveCurrent, ResolveAttach, ResAt, ResolveEnds, Delete
  <2>1. rid[g] \in Ids \cup {NoId}
    BY DEF TorrentsTypeOK, ProcessTypes, CallsMade
  <2>2. /\ Alive' \subseteq Alive
        /\ rpc'[g] \notin {"attach", "remember"} => Alive' = Alive \ {rid[g]}
    BY <2>1, AliveAfter DEF TorrentsTypeOK, ProcessTypes
  <2>3. IdsApart'
    BY <2>2, IdsShrink DEF IdsOf, TorrentsTypeOK, ProcessTypes
  <2>4. Resolving'
    BY <2>2 DEF Resolving, Before, TorrentsTypeOK, ProcessTypes
  <2>5. Removing'
    BY <2>2 DEF Removing, CallsMade, TorrentsTypeOK, ProcessTypes
  <2>6. Answered'
    BY <2>2 DEF Answered, Answers, RemoveCalled, TorrentsTypeOK, ProcessTypes
  <2> QED BY <2>3, <2>4, <2>5, <2>6
<1>8. ASSUME NEW g \in Magnets, Remember(g) PROVE OwnerInv'
  <2> USE <1>8 DEF Remember, ResAt
  <2>1. Alive' = Alive
    BY DEF Alive
  <2>2. IdsApart'
    BY <2>1, IdsShrink DEF IdsOf, TorrentsTypeOK, ProcessTypes
  <2>3. PICK lost \in SUBSET (Magnets \ {g}) :
           /\ \A h \in lost : tid[h] \notin Alive
           /\ tid' = [h \in Magnets |-> IF h = g THEN rid[g]
                                       ELSE IF h \in lost THEN NoId ELSE tid[h]]
           /\ tstat' = [h \in Magnets |-> IF h \in lost /\ tstat[h] = "Active"
                                         THEN "Complete" ELSE tstat[h]]
    <3> DEFINE lost == {h \in Magnets \ {g} : tid[h] # NoId /\ ~Managed(tid[h])}
    <3>1. \A h \in lost : tid[h] \notin Alive
      BY ManagedIsAlive DEF TorrentsTypeOK
    <3>2. lost \in SUBSET (Magnets \ {g})
      OBVIOUS
    <3> QED BY <3>1, <3>2
  <2>4. NoId \notin Alive
    BY DEF Alive, Ids
  <2>5. Resolving'
    BY <2>1, <2>3, <2>4 DEF Resolving, Before, TorrentsTypeOK, ProcessTypes
  <2>6. Removing'
    BY <2>1, <2>3, <2>4 DEF Removing, CallsMade, TorrentsTypeOK, ProcessTypes
  <2>7. Answered'
    <3>1. tid[g] = NoId
      BY DEF Resolving, Before
    <3>2. \A h \in Magnets : RemoveCalled(h)' = RemoveCalled(h)
      BY DEF RemoveCalled
    <3>3. \A i \in Alive, h \in Magnets : Answers(h, i) => Answers(h, i)'
      <4> SUFFICES ASSUME NEW i \in Alive, NEW h \in Magnets, Answers(h, i) PROVE Answers(h, i)'
        OBVIOUS
      <4>1. CASE h = g
        BY <2>4, <3>1, <4>1 DEF Answers, ProcessTypes
      <4>2. CASE h # g
        <5>1. rid'[h] = rid[h] /\ rpc'[h] = rpc[h]
          BY <4>2 DEF ProcessTypes
        <5>2. tid[h] = i => tid'[h] = i /\ (tstat[h] # "Removed" => tstat'[h] # "Removed")
          BY <2>3, <4>2
        <5> QED BY <3>2, <5>1, <5>2 DEF Answers
      <4> QED BY <4>1, <4>2
    <3> QED BY <2>1, <3>3, AnswersKept
  <2> QED BY <2>2, <2>5, <2>6, <2>7
<1>9. ASSUME NEW g \in Magnets, Settle(g) PROVE OwnerInv'
  <2> USE <1>9 DEF Settle, ResAt, ResolveEnds, Delete
  <2>1. rid[g] \in Ids \cup {NoId} /\ NoId \notin Alive
    BY DEF TorrentsTypeOK, Alive, Ids
  <2>2. CASE tstat[g] \in {"Active", "Paused"}
    <3>1. tid' = tid /\ Alive' = Alive /\ \E l \in {"end", "pause"} : rpc' = [rpc EXCEPT ![g] = l]
      BY <2>1, <2>2, AliveAfter
    <3>2. IdsApart'
      BY <3>1, IdsShrink DEF IdsOf
    <3>3. Resolving'
      BY <2>2, <3>1 DEF Resolving, Before, TorrentsTypeOK, ProcessTypes
    <3>4. Removing'
      BY <2>2, <3>1 DEF Removing, CallsMade, TorrentsTypeOK, ProcessTypes
    <3>5. Answered'
      <4>1. rid[g] \in Alive => tid[g] = rid[g]
        BY <2>2 DEF Resolving
      <4> QED BY <2>2, <3>1, <4>1 DEF Answered, Answers, RemoveCalled, TorrentsTypeOK,
                                      ProcessTypes
    <3> QED BY <3>2, <3>3, <3>4, <3>5
  <2>3. CASE tstat[g] \notin {"Active", "Paused"}
    <3>1. /\ tid' = [tid EXCEPT ![g] = NoId] /\ rpc' = [rpc EXCEPT ![g] = "end"]
          /\ Alive' = Alive \ {rid[g]}
      BY <2>1, <2>3, AliveAfter
    <3>2. IdsApart'
      BY <3>1, IdsShrink DEF IdsOf, TorrentsTypeOK
    <3>3. Resolving'
      BY <2>3, <3>1 DEF Resolving, Before, TorrentsTypeOK, ProcessTypes
    <3>4. Removing'
      BY <2>1, <2>3, <3>1 DEF Removing, CallsMade, TorrentsTypeOK, ProcessTypes
    <3>5. Answered'
      <4>1. tid[g] \in Alive => tid[g] = rid[g]
        BY <2>1 DEF Resolving
      <4>2. \A i \in Alive', h \in Magnets : Answers(h, i) => Answers(h, i)'
        BY <3>1, <4>1 DEF Answers, RemoveCalled, TorrentsTypeOK, ProcessTypes
      <4> QED BY <3>1, <4>2, AnswersKept
    <3> QED BY <3>2, <3>3, <3>4, <3>5
  <2> QED BY <2>2, <2>3
<1>10. ASSUME NEW g \in Magnets, ResolvePause(g) PROVE OwnerInv'
  <2> USE <1>10 DEF ResolvePause, ResAt, ResolveEnds
  <2>1. rid[g] \in Ids \cup {NoId}
    BY DEF TorrentsTypeOK, ProcessTypes, CallsMade
  <2>2. Alive' = Alive
    BY <2>1, AliveAfter DEF TorrentsTypeOK, ProcessTypes
  <2>3. IdsApart'
    BY <2>2, IdsShrink DEF IdsOf, TorrentsTypeOK, ProcessTypes
  <2>4. Resolving'
    BY <2>2 DEF Resolving, Before, TorrentsTypeOK, ProcessTypes
  <2>5. Removing'
    BY <2>2 DEF Removing, CallsMade, TorrentsTypeOK, ProcessTypes
  <2>6. Answered'
    BY <2>2 DEF Answered, Answers, RemoveCalled, TorrentsTypeOK, ProcessTypes
  <2> QED BY <2>3, <2>4, <2>5, <2>6
<1>11. ASSUME NEW g \in Magnets, ResolveDone(g) PROVE OwnerInv'
  <2> USE <1>11 DEF ResolveDone
  <2>1. Alive' = Alive
    BY DEF Alive
  <2>2. IdsApart'
    BY <2>1, IdsShrink DEF IdsOf, TorrentsTypeOK, ProcessTypes
  <2>3. Resolving'
    BY <2>1 DEF Resolving, Before, TorrentsTypeOK, ProcessTypes
  <2>4. Removing'
    BY <2>1 DEF Removing, CallsMade, TorrentsTypeOK, ProcessTypes
  <2>5. Answered'
    BY <2>1 DEF Answered, Answers, RemoveCalled, TorrentsTypeOK, ProcessTypes
  <2> QED BY <2>2, <2>3, <2>4, <2>5
<1>12. ASSUME NEW c \in Calls, PauseTorrent(c) PROVE OwnerInv'
  <2> USE <1>12 DEF PauseTorrent, CallAt
  <2>1. tid[tgid[c]] \in Ids \cup {NoId}
    BY DEF TorrentsTypeOK, ProcessTypes, CallsMade
  <2>2. Alive' = Alive
    BY <2>1, AliveAfter DEF TorrentsTypeOK, ProcessTypes
  <2>3. IdsApart'
    BY <2>2, IdsShrink DEF IdsOf, TorrentsTypeOK, ProcessTypes
  <2>4. Resolving'
    BY <2>2 DEF Resolving, Before, TorrentsTypeOK, ProcessTypes
  <2>5. Removing'
    BY <2>2 DEF Removing, CallsMade, TorrentsTypeOK, ProcessTypes
  <2>6. Answered'
    BY <2>2 DEF Answered, Answers, RemoveCalled, TorrentsTypeOK, ProcessTypes
  <2> QED BY <2>3, <2>4, <2>5, <2>6
<1>13. ASSUME NEW c \in Calls, UnpauseTorrent(c) PROVE OwnerInv'
  <2> USE <1>13 DEF UnpauseTorrent, CallAt
  <2>1. tid[tgid[c]] \in Ids \cup {NoId}
    BY DEF TorrentsTypeOK, ProcessTypes, CallsMade
  <2>2. Alive' = Alive
    BY <2>1, AliveAfter DEF TorrentsTypeOK, ProcessTypes
  <2>3. IdsApart'
    BY <2>2, IdsShrink DEF IdsOf, TorrentsTypeOK, ProcessTypes
  <2>4. Resolving'
    BY <2>2 DEF Resolving, Before, TorrentsTypeOK, ProcessTypes
  <2>5. Removing'
    BY <2>2 DEF Removing, CallsMade, TorrentsTypeOK, ProcessTypes
  <2>6. Answered'
    BY <2>2 DEF Answered, Answers, RemoveCalled, TorrentsTypeOK, ProcessTypes
  <2> QED BY <2>3, <2>4, <2>5, <2>6
<1>14. ASSUME NEW c \in Calls, BumpResumeSeq(c) PROVE OwnerInv'
  <2> USE <1>14 DEF BumpResumeSeq, CallAt
  <2>1. Alive' = Alive
    BY DEF Alive
  <2>2. IdsApart'
    BY <2>1, IdsShrink DEF IdsOf, TorrentsTypeOK, ProcessTypes
  <2>3. Resolving'
    BY <2>1 DEF Resolving, Before, TorrentsTypeOK, ProcessTypes
  <2>4. Removing'
    BY <2>1 DEF Removing, CallsMade, TorrentsTypeOK, ProcessTypes
  <2>5. Answered'
    BY <2>1 DEF Answered, Answers, RemoveCalled, TorrentsTypeOK, ProcessTypes
  <2> QED BY <2>2, <2>3, <2>4, <2>5
<1>15. ASSUME NEW c \in Calls, UnpauseWrite(c) PROVE OwnerInv'
  <2> USE <1>15 DEF UnpauseWrite, CallAt
  <2>1. Alive' = Alive
    BY DEF Alive
  <2>2. IdsApart'
    BY <2>1, IdsShrink DEF IdsOf, TorrentsTypeOK, ProcessTypes
  <2>3. Resolving'
    BY <2>1 DEF Resolving, Before, TorrentsTypeOK, ProcessTypes
  <2>4. Removing'
    BY <2>1 DEF Removing, CallsMade, TorrentsTypeOK, ProcessTypes
  <2>5. Answered'
    BY <2>1 DEF Answered, Answers, RemoveCalled, TorrentsTypeOK, ProcessTypes
  <2> QED BY <2>2, <2>3, <2>4, <2>5
<1>16. ASSUME NEW c \in Calls, UnpauseEnsure(c) PROVE OwnerInv'
  <2> USE <1>16 DEF UnpauseEnsure, CallAt, EnsureResolvers
  <2>1. \A h \in Unresolved : h \in Magnets /\ rpc[h] = "none" /\ tid[h] = NoId
    BY SpawnsFirst
  <2>2. Alive' = Alive
    BY DEF Alive
  <2>3. IdsApart'
    BY <2>2, IdsShrink DEF IdsOf, TorrentsTypeOK, ProcessTypes
  <2>4. \A h \in Magnets : rpc'[h] = rpc[h] \/ (rpc[h] = "none" /\ rpc'[h] = "check")
    BY <2>1 DEF ProcessTypes
  <2>5. Resolving'
    BY <2>2 DEF Resolving, Before, TorrentsTypeOK, ProcessTypes, Unresolved
  <2>6. Removing'
    BY <2>2, <2>4 DEF Removing, CallsMade, TorrentsTypeOK, ProcessTypes
  <2>7. Answered'
    BY <2>2, <2>4, AnswersKept DEF Answers, RemoveCalled, TorrentsTypeOK, ProcessTypes
  <2> QED BY <2>3, <2>5, <2>6, <2>7
<1>17. ASSUME NEW c \in Calls, RemoveTorrent(c) PROVE OwnerInv'
  <2> USE <1>17 DEF RemoveTorrent, CallAt, Delete
  <2>1. tid[tgid[c]] \in Ids \cup {NoId}
    BY DEF TorrentsTypeOK, ProcessTypes, CallsMade
  <2>2. Alive' = Alive \ {tid[tgid[c]]}
    BY <2>1, AliveAfter DEF TorrentsTypeOK, ProcessTypes
  <2>3. IdsApart'
    BY <2>2, IdsShrink DEF IdsOf, TorrentsTypeOK, ProcessTypes
  <2>4. Resolving'
    BY <2>2 DEF Resolving, Before, TorrentsTypeOK, ProcessTypes
  <2>5. Removing'
    BY <2>2 DEF Removing, CallsMade, TorrentsTypeOK, ProcessTypes
  <2>6. Answered'
    BY <2>2 DEF Answered, Answers, RemoveCalled, TorrentsTypeOK, ProcessTypes
  <2> QED BY <2>3, <2>4, <2>5, <2>6
<1>18. ASSUME NEW c \in Calls, RemoveForget(c) PROVE OwnerInv'
  <2> USE <1>18 DEF RemoveForget, CallAt
  <2>1. Alive' = Alive /\ NoId \notin Alive
    BY DEF Alive, Ids
  <2>2. PICK g \in Magnets : /\ g = tgid[c] /\ tstat[g] = "Removed"
                            /\ tid' = [tid EXCEPT ![g] = NoId] /\ pending' = pending \ {g}
    BY DEF CallsMade, Removing
  <2>3. IdsApart'
    BY <2>1, <2>2, IdsShrink DEF IdsOf, TorrentsTypeOK
  <2>4. Resolving'
    <3> SUFFICES ASSUME NEW h \in Magnets PROVE Resolving!(h)'
      BY DEF Resolving
    <3>1. tid'[h] = (IF h = g THEN NoId ELSE tid[h]) /\ (h \in pending /\ h # g => h \in pending')
      BY <2>2 DEF TorrentsTypeOK
    <3> QED BY <2>1, <2>2, <3>1 DEF Resolving, Before
  <2>5. Removing'
    <3> SUFFICES ASSUME NEW d \in Calls PROVE Removing!(d)'
      BY DEF Removing
    <3>1. CASE d = c
      BY <3>1 DEF ProcessTypes
    <3>2. CASE d # c
      <4>1. tpc'[d] = tpc[d] /\ tgid'[d] = tgid[d] /\ (tpc[d] = "forget" => tgid[d] \in Magnets)
        BY <3>2 DEF ProcessTypes, CallsMade
      <4>2. tpc[d] = "forget" => tid'[tgid[d]] = NoId \/ tid'[tgid[d]] = tid[tgid[d]]
        BY <2>2, <4>1 DEF TorrentsTypeOK
      <4> QED BY <2>1, <4>1, <4>2 DEF Removing
    <3> QED BY <3>1, <3>2
  <2>6. Answered'
    <3>1. tid[g] \in Alive => rpc[g] = "settle" /\ rid[g] = tid[g]
      BY <2>2 DEF Removing
    <3>2. \A h \in Magnets : RemoveCalled(h) => RemoveCalled(h)'
      BY DEF RemoveCalled, ProcessTypes
    <3>3. \A i \in Alive, h \in Magnets : Answers(h, i) => Answers(h, i)'
      BY <2>2, <3>1, <3>2 DEF Answers, TorrentsTypeOK
    <3> QED BY <2>1, <3>3, AnswersKept
  <2> QED BY <2>3, <2>4, <2>5, <2>6
<1>19. ASSUME NEW c \in Calls, NEW g \in Magnets, PauseTask(c, g) PROVE OwnerInv'
  <2> USE <1>19 DEF PauseTask, Call
  <2>1. Alive' = Alive
    BY DEF Alive
  <2>2. IdsApart'
    BY <2>1, IdsShrink DEF IdsOf, TorrentsTypeOK, ProcessTypes
  <2>3. Resolving'
    BY <2>1 DEF Resolving, Before, TorrentsTypeOK, ProcessTypes
  <2>4. Removing'
    BY <2>1 DEF Removing, CallsMade, TorrentsTypeOK, ProcessTypes
  <2>5. Answered'
    <3>1. tpc[c] = "idle" /\ \A h \in Magnets : RemoveCalled(h) => RemoveCalled(h)'
      BY DEF RemoveCalled, CallsMade, ProcessTypes
    <3>2. \A i \in Alive, h \in Magnets : Answers(h, i) => Answers(h, i)'
      BY <3>1 DEF Answers, TorrentsTypeOK, ProcessTypes
    <3> QED BY <2>1, <3>2, AnswersKept
  <2> QED BY <2>2, <2>3, <2>4, <2>5
<1>20. ASSUME NEW c \in Calls, NEW g \in Magnets, UnpauseCheck(c, g) PROVE OwnerInv'
  <2> USE <1>20 DEF UnpauseCheck, Call
  <2>1. Alive' = Alive
    BY DEF Alive
  <2>2. IdsApart'
    BY <2>1, IdsShrink DEF IdsOf, TorrentsTypeOK, ProcessTypes
  <2>3. Resolving'
    BY <2>1 DEF Resolving, Before, TorrentsTypeOK, ProcessTypes
  <2>4. Removing'
    BY <2>1 DEF Removing, CallsMade, TorrentsTypeOK, ProcessTypes
  <2>5. Answered'
    <3>1. tpc[c] = "idle" /\ \A h \in Magnets : RemoveCalled(h) => RemoveCalled(h)'
      BY DEF RemoveCalled, CallsMade, ProcessTypes
    <3>2. \A i \in Alive, h \in Magnets : Answers(h, i) => Answers(h, i)'
      BY <3>1 DEF Answers, TorrentsTypeOK, ProcessTypes
    <3> QED BY <2>1, <3>2, AnswersKept
  <2> QED BY <2>2, <2>3, <2>4, <2>5
<1>21. ASSUME NEW c \in Calls, NEW g \in Magnets, RemoveTask(c, g) PROVE OwnerInv'
  <2> USE <1>21 DEF RemoveTask, Call
  <2>1. Alive' = Alive
    BY DEF Alive
  <2>2. IdsApart'
    BY <2>1, IdsShrink DEF IdsOf, TorrentsTypeOK, ProcessTypes
  <2>3. Resolving'
    BY <2>1 DEF Resolving, Before, TorrentsTypeOK, ProcessTypes
  <2>4. Removing'
    BY <2>1 DEF Removing, CallsMade, TorrentsTypeOK, ProcessTypes
  <2>5. Answered'
    <3>1. tpc[c] = "idle" /\ \A h \in Magnets : RemoveCalled(h) => RemoveCalled(h)'
      BY DEF RemoveCalled, CallsMade, ProcessTypes
    <3>2. RemoveCalled(g)'
      BY DEF RemoveCalled, ProcessTypes
    <3>3. \A i \in Alive, h \in Magnets : Answers(h, i) => Answers(h, i)'
      BY <3>1, <3>2 DEF Answers, TorrentsTypeOK, ProcessTypes
    <3> QED BY <2>1, <3>3, AnswersKept
  <2> QED BY <2>2, <2>3, <2>4, <2>5
<1>22. ASSUME NEW i \in Ids, TorrentHalts(i) PROVE OwnerInv'
  <2>1. Alive' = Alive
    BY <1>22 DEF TorrentHalts, Alive, TorrentsTypeOK
  <2> QED BY <1>22, <2>1 DEF TorrentHalts, IdsApart, IdsOf, Resolving, Removing, Answered,
                             Answers, RemoveCalled
<1>23. ASSUME TickWrite PROVE OwnerInv'
  <2> USE <1>23 DEF TickWrite
  <2>1. Alive' = Alive
    BY DEF Alive
  <2>2. IdsApart'
    BY <2>1, IdsShrink DEF IdsOf, TorrentsTypeOK, ProcessTypes
  <2>3. Resolving'
    BY <2>1 DEF Resolving, Before, TorrentsTypeOK, ProcessTypes
  <2>4. Removing'
    BY <2>1 DEF Removing, CallsMade, TorrentsTypeOK, ProcessTypes
  <2>5. Answered'
    BY <2>1 DEF Answered, Answers, RemoveCalled, TorrentsTypeOK, ProcessTypes
  <2> QED BY <2>2, <2>3, <2>4, <2>5
<1>24. ASSUME TickEnsure PROVE OwnerInv'
  <2> USE <1>24 DEF TickEnsure, EnsureResolvers
  <2>1. \A h \in Unresolved : h \in Magnets /\ rpc[h] = "none" /\ tid[h] = NoId
    BY SpawnsFirst
  <2>2. Alive' = Alive
    BY DEF Alive
  <2>3. IdsApart'
    BY <2>2, IdsShrink DEF IdsOf, TorrentsTypeOK, ProcessTypes
  <2>4. \A h \in Magnets : rpc'[h] = rpc[h] \/ (rpc[h] = "none" /\ rpc'[h] = "check")
    BY <2>1 DEF ProcessTypes
  <2>5. Resolving'
    BY <2>2 DEF Resolving, Before, TorrentsTypeOK, ProcessTypes, Unresolved
  <2>6. Removing'
    BY <2>2, <2>4 DEF Removing, CallsMade, TorrentsTypeOK, ProcessTypes
  <2>7. Answered'
    BY <2>2, <2>4, AnswersKept DEF Answers, RemoveCalled, TorrentsTypeOK, ProcessTypes
  <2> QED BY <2>3, <2>5, <2>6, <2>7
<1>25. ASSUME NEW s \in spawned, Spawned(s) PROVE OwnerInv'
  <2>1. s[2] \in Ids
    BY DEF ProcessTypes
  <2>2. Alive' = Alive
    BY <1>25, <2>1, AliveAfter DEF Spawned
  <2> QED BY <1>25, <2>2 DEF Spawned, IdsApart, IdsOf, Resolving, Removing, Answered, Answers,
                             RemoveCalled
<1>26. ASSUME ReloadPauseTasks PROVE OwnerInv'
  <2> USE <1>26 DEF ReloadPauseTasks, ReloadAt
  <2>1. Alive' = Alive
    BY DEF Alive
  <2>2. IdsApart'
    BY <2>1, IdsShrink DEF IdsOf, TorrentsTypeOK, ProcessTypes
  <2>3. Resolving'
    BY <2>1 DEF Resolving, Before, TorrentsTypeOK, ProcessTypes
  <2>4. Removing'
    BY <2>1 DEF Removing, CallsMade, TorrentsTypeOK, ProcessTypes
  <2>5. Answered'
    BY <2>1 DEF Answered, Answers, RemoveCalled, TorrentsTypeOK, ProcessTypes
  <2> QED BY <2>2, <2>3, <2>4, <2>5
<1>27. ASSUME ReloadGivesUp PROVE OwnerInv'
  <2> USE <1>27 DEF ReloadGivesUp, MarkFailed, ReloadAt
  <2>1. Alive' = Alive
    BY DEF Alive
  <2>2. IdsApart'
    BY <2>1, IdsShrink DEF IdsOf, TorrentsTypeOK, ProcessTypes
  <2>3. Resolving'
    BY <2>1 DEF Resolving, Before, TorrentsTypeOK, ProcessTypes
  <2>4. Removing'
    BY <2>1 DEF Removing, CallsMade, TorrentsTypeOK, ProcessTypes
  <2>5. Answered'
    BY <2>1 DEF Answered, Answers, RemoveCalled, TorrentsTypeOK, ProcessTypes
  <2> QED BY <2>2, <2>3, <2>4, <2>5
<1>28. ASSUME ReloadTargets PROVE OwnerInv'
  <2> USE <1>28 DEF ReloadTargets, PauseNext, ReloadAt
  <2>1. Alive' = Alive
    BY DEF Alive
  <2>2. IdsApart'
    BY <2>1, IdsShrink DEF IdsOf, TorrentsTypeOK, ProcessTypes
  <2>3. Resolving'
    BY <2>1 DEF Resolving, Before, TorrentsTypeOK, ProcessTypes
  <2>4. Removing'
    BY <2>1 DEF Removing, CallsMade, TorrentsTypeOK, ProcessTypes
  <2>5. Answered'
    BY <2>1 DEF Answered, Answers, RemoveCalled, TorrentsTypeOK, ProcessTypes
  <2> QED BY <2>2, <2>3, <2>4, <2>5
<1>29. ASSUME NEW g \in Magnets, ReloadPauseTorrent(g) PROVE OwnerInv'
  <2> USE <1>29 DEF ReloadPauseTorrent, PauseNext, MarkFailed, ReloadAt
  <2>1. rids[g] \in Ids \cup {NoId}
    BY DEF TorrentsTypeOK, ProcessTypes, CallsMade
  <2>2. Alive' = Alive
    BY <2>1, AliveAfter DEF TorrentsTypeOK, ProcessTypes
  <2>3. IdsApart'
    BY <2>2, IdsShrink DEF IdsOf, TorrentsTypeOK, ProcessTypes
  <2>4. Resolving'
    BY <2>2 DEF Resolving, Before, TorrentsTypeOK, ProcessTypes
  <2>5. Removing'
    BY <2>2 DEF Removing, CallsMade, TorrentsTypeOK, ProcessTypes
  <2>6. Answered'
    BY <2>2 DEF Answered, Answers, RemoveCalled, TorrentsTypeOK, ProcessTypes
  <2> QED BY <2>3, <2>4, <2>5, <2>6
<1>30. ASSUME ReloadResumeTasks PROVE OwnerInv'
  <2> USE <1>30 DEF ReloadResumeTasks, ReloadAt
  <2>1. Alive' = Alive
    BY DEF Alive
  <2>2. IdsApart'
    BY <2>1, IdsShrink DEF IdsOf, TorrentsTypeOK, ProcessTypes
  <2>3. Resolving'
    BY <2>1 DEF Resolving, Before, TorrentsTypeOK, ProcessTypes
  <2>4. Removing'
    BY <2>1 DEF Removing, CallsMade, TorrentsTypeOK, ProcessTypes
  <2>5. Answered'
    BY <2>1 DEF Answered, Answers, RemoveCalled, TorrentsTypeOK, ProcessTypes
  <2> QED BY <2>2, <2>3, <2>4, <2>5
<1>31. ASSUME ReloadResumeIds PROVE OwnerInv'
  <2> USE <1>31 DEF ReloadResumeIds, ResumeNext, ReloadAt
  <2>1. Alive' = Alive
    BY DEF Alive
  <2>2. IdsApart'
    BY <2>1, IdsShrink DEF IdsOf, TorrentsTypeOK, ProcessTypes
  <2>3. Resolving'
    BY <2>1 DEF Resolving, Before, TorrentsTypeOK, ProcessTypes
  <2>4. Removing'
    BY <2>1 DEF Removing, CallsMade, TorrentsTypeOK, ProcessTypes
  <2>5. Answered'
    BY <2>1 DEF Answered, Answers, RemoveCalled, TorrentsTypeOK, ProcessTypes
  <2> QED BY <2>2, <2>3, <2>4, <2>5
<1>32. ASSUME NEW g \in Magnets, ReloadResume(g) PROVE OwnerInv'
  <2> USE <1>32 DEF ReloadResume, ResumeNext, EnsureResolvers, ReloadAt
  <2>1. rids[g] \in Ids \cup {NoId}
    BY DEF TorrentsTypeOK, ProcessTypes, CallsMade
  <2>2. \A h \in Unresolved : h \in Magnets /\ rpc[h] = "none" /\ tid[h] = NoId
    BY SpawnsFirst
  <2>3. Alive' = Alive
    BY <2>1, AliveAfter DEF TorrentsTypeOK, ProcessTypes
  <2>4. IdsApart'
    BY <2>3, IdsShrink DEF IdsOf, TorrentsTypeOK, ProcessTypes
  <2>5. \A h \in Magnets : rpc'[h] = rpc[h] \/ (rpc[h] = "none" /\ rpc'[h] = "check")
    BY <2>2 DEF ProcessTypes
  <2>6. Resolving'
    BY <2>3 DEF Resolving, Before, TorrentsTypeOK, ProcessTypes, Unresolved
  <2>7. Removing'
    BY <2>3, <2>5 DEF Removing, CallsMade, TorrentsTypeOK, ProcessTypes
  <2>8. Answered'
    BY <2>3, <2>5, AnswersKept DEF Answers, RemoveCalled, TorrentsTypeOK, ProcessTypes
  <2> QED BY <2>4, <2>6, <2>7, <2>8
<1>33. ASSUME RollbackTasks PROVE OwnerInv'
  <2> USE <1>33 DEF RollbackTasks, MarkFailed, ReloadAt
  <2>1. Alive' = Alive
    BY DEF Alive
  <2>2. IdsApart'
    BY <2>1, IdsShrink DEF IdsOf, TorrentsTypeOK, ProcessTypes
  <2>3. Resolving'
    BY <2>1 DEF Resolving, Before, TorrentsTypeOK, ProcessTypes
  <2>4. Removing'
    BY <2>1 DEF Removing, CallsMade, TorrentsTypeOK, ProcessTypes
  <2>5. Answered'
    BY <2>1 DEF Answered, Answers, RemoveCalled, TorrentsTypeOK, ProcessTypes
  <2> QED BY <2>2, <2>3, <2>4, <2>5
<1>34. ASSUME RollbackPause PROVE OwnerInv'
  <2>1. Alive' = Alive
    BY <1>34 DEF RollbackPause, Alive, Managed, TorrentsTypeOK
  <2> QED BY <1>34, <2>1 DEF RollbackPause, ReloadAt, IdsApart, IdsOf, Resolving, Removing,
                             Answered, Answers, RemoveCalled
<1>35. ASSUME NEW i \in Ids,
             TorrentDone(i)
      PROVE  UNCHANGED <<tid, rid, rids, nextId, Alive, tstat, rpc, pending, tpc, tgid>>
  BY <1>35 DEF TorrentDone, Alive
<1>36. ASSUME TickSnapshot \/ ReloadInvalidate \/ ReloadReconfigure
              \/ ReloadReconfigureFails \/ ReloadOptions \/ ReloadResumeFails
              \/ RollbackRoute
      PROVE  UNCHANGED <<tid, rid, rids, nextId, Alive, tstat, rpc, pending, tpc, tgid>>
  BY <1>36 DEF TickSnapshot, ReloadInvalidate, ReloadReconfigure, ReloadReconfigureFails,
               ReloadOptions, ReloadResumeFails, RollbackRoute, Alive
<1>37. ASSUME NEW p \in Profiles,
             ReloadStart(p)
      PROVE  UNCHANGED <<tid, rid, rids, nextId, Alive, tstat, rpc, pending, tpc, tgid>>
  BY <1>37 DEF ReloadStart, Unlocked, Alive
<1>38. CASE UNCHANGED torrentVars
  BY <1>38 DEF torrentVars, IdsApart, IdsOf, Resolving, Removing, Answered, Answers,
               RemoveCalled, Alive
<1>39. UNCHANGED <<tid, rid, rids, nextId, Alive, tstat, rpc, pending, tpc, tgid>> => OwnerInv'
  BY DEF IdsApart, IdsOf, Resolving, Removing, Answered, Answers, RemoveCalled, Alive
<1> QED
  BY <1>1, <1>2, <1>3, <1>4, <1>5, <1>6, <1>7, <1>8, <1>9, <1>10, <1>11, <1>12, <1>13, <1>14,
     <1>15, <1>16, <1>17, <1>18, <1>19, <1>20, <1>21, <1>22, <1>23, <1>24, <1>25, <1>26, <1>27,
     <1>28, <1>29, <1>30, <1>31, <1>32, <1>33, <1>34, <1>35, <1>36, <1>37, <1>38, <1>39
  DEF TorrentsNext, ResolverStep, CallStep, TickStep, ReloadStep

-----------------------------------------------------------------------------
(* What an operation of the session does to the torrents that run.         *)

(* What runs after an operation.                                           *)
LEMMA RunsAfter ==
    ASSUME TypeInv, NEW i \in Ids \cup {NoId}
    PROVE  /\ torrent' = torrent => Runs' = Runs
           /\ torrent' = Paused(i) => Runs' = Runs \ {i}
           /\ torrent' = Running(i) => Runs' \subseteq Runs \cup {i}
           /\ torrent' = Deleted(i) => Runs' = Runs \ {i}
BY TorrentBounds DEF TypeInv, TorrentsTypeOK, Runs, Paused, Running, Deleted, Managed, Ids

(* Only what the session holds runs.                                       *)
LEMMA RunsAlive == Runs \subseteq Alive /\ Alive \subseteq Ids /\ NoId \notin Alive
BY TorrentBounds DEF Runs, Alive, Ids

(* Two tasks never know a torrent by the same id.                          *)
LEMMA OneOwner ==
    ASSUME IdsApart, NEW g \in Magnets, NEW h \in Magnets, NEW i,
           i # NoId, i \in {tid[g], rid[g], rids[g]}, i \in {tid[h], rid[h], rids[h]}
    PROVE  g = h
BY DEF IdsApart, IdsOf

(* A reload resumes only what it paused.                                   *)
LEMMA TouchedKept ==
    ASSUME TypeInv, ResumesTouched, [TorrentsNext]_torrentVars
    PROVE  ResumesTouched'
<1> USE DEF ResumesTouched, taskVars, btVars, resVars, spawnVars, reloadVars, callVars, tickVars
<1>1. ASSUME ReloadPauseTasks PROVE ResumesTouched'
  BY <1>1 DEF ReloadPauseTasks, ReloadAt
<1>2. ASSUME ReloadTargets PROVE ResumesTouched'
  BY <1>2 DEF ReloadTargets, PauseNext, ReloadAt
<1>3. ASSUME NEW g \in Magnets, ReloadPauseTorrent(g) PROVE ResumesTouched'
  BY <1>3 DEF ReloadPauseTorrent, PauseNext, MarkFailed, ReloadAt
<1>4. ASSUME ReloadResumeTasks PROVE ResumesTouched'
  BY <1>4 DEF ReloadResumeTasks, ReloadAt
<1>5. ASSUME NEW g \in Magnets, ReloadResume(g) PROVE ResumesTouched'
  BY <1>5 DEF ReloadResume, ResumeNext, EnsureResolvers, ReloadAt
<1>6. ASSUME NEW g \in Magnets,
             (\E s \in {"Active", "Paused"} : AddMagnet(g, s))
              \/ ResolveCheck(g) \/ Resolve(g) \/ ResolveFails(g)
              \/ ResolveLock(g) \/ ResolveAdd(g) \/ ResolveCurrent(g)
              \/ ResolveAttach(g) \/ Remember(g)
      PROVE  UNCHANGED <<ract, todo, touched>>
  BY <1>6 DEF AddMagnet, ResolveCheck, Resolve, ResolveFails, ResolveLock, ResolveAdd,
              ResolveCurrent, ResolveAttach, Remember
<1>7. ASSUME NEW g \in Magnets,
             Settle(g) \/ ResolvePause(g) \/ ResolveDone(g)
      PROVE  UNCHANGED <<ract, todo, touched>>
  BY <1>7 DEF Settle, ResolvePause, ResolveDone
<1>8. ASSUME NEW c \in Calls,
             PauseTorrent(c) \/ UnpauseTorrent(c) \/ BumpResumeSeq(c)
              \/ UnpauseWrite(c) \/ UnpauseEnsure(c) \/ RemoveTorrent(c) \/ RemoveForget(c)
      PROVE  UNCHANGED <<ract, todo, touched>>
  BY <1>8 DEF PauseTorrent, UnpauseTorrent, BumpResumeSeq, UnpauseWrite, UnpauseEnsure,
              RemoveTorrent, RemoveForget
<1>9. ASSUME NEW c \in Calls, NEW g \in Magnets,
             PauseTask(c, g) \/ UnpauseCheck(c, g) \/ RemoveTask(c, g)
      PROVE  UNCHANGED <<ract, todo, touched>>
  BY <1>9 DEF PauseTask, UnpauseCheck, RemoveTask
<1>10. ASSUME NEW i \in Ids,
             TorrentDone(i) \/ TorrentHalts(i)
      PROVE  UNCHANGED <<ract, todo, touched>>
  BY <1>10 DEF TorrentDone, TorrentHalts
<1>11. ASSUME TickSnapshot \/ TickWrite \/ TickEnsure \/ ReloadInvalidate
              \/ ReloadGivesUp \/ ReloadReconfigure \/ ReloadReconfigureFails
              \/ ReloadOptions
      PROVE  UNCHANGED <<ract, todo, touched>>
  BY <1>11 DEF TickSnapshot, TickWrite, TickEnsure, ReloadInvalidate, ReloadGivesUp,
               ReloadReconfigure, ReloadReconfigureFails, ReloadOptions
<1>12. ASSUME ReloadResumeIds \/ ReloadResumeFails \/ RollbackTasks \/ RollbackPause
              \/ RollbackRoute
      PROVE  UNCHANGED <<ract, todo, touched>>
  BY <1>12 DEF ReloadResumeIds, ReloadResumeFails, RollbackTasks, RollbackPause, RollbackRoute
<1>13. ASSUME NEW s \in spawned,
             Spawned(s)
      PROVE  UNCHANGED <<ract, todo, touched>>
  BY <1>13 DEF Spawned
<1>14. ASSUME NEW p \in Profiles,
             ReloadStart(p)
      PROVE  UNCHANGED <<ract, todo, touched>>
  BY <1>14 DEF ReloadStart, Unlocked
<1>15. CASE UNCHANGED torrentVars
  BY <1>15 DEF torrentVars
<1>16. UNCHANGED <<ract, todo, touched>> => ResumesTouched'
  BY DEF ResumesTouched
<1> QED
  BY <1>1, <1>2, <1>3, <1>4, <1>5, <1>6, <1>7, <1>8, <1>9, <1>10, <1>11, <1>12, <1>13, <1>14,
     <1>15, <1>16
  DEF TorrentsNext, ResolverStep, CallStep, TickStep, ReloadStep

(* What the tick has read stays true enough.                               *)
LEMMA SnapsKept ==
    ASSUME TypeInv, OwnerInv, SnapsHold, [TorrentsNext]_torrentVars
    PROVE  SnapsHold'
<1> USE TorrentBounds
    DEF TypeInv, OwnerInv, TorrentsTypeOK, ProcessTypes, taskVars, btVars, resVars, spawnVars,
        reloadVars, callVars, tickVars
<1>1. ASSUME NEW g \in Magnets, NEW s \in {"Active", "Paused"}, AddMagnet(g, s)
      PROVE  SnapsHold'
  <2> USE <1>1 DEF AddMagnet, EnsureResolvers
  <2>1. Alive' = Alive
    BY DEF Alive, Ids, Managed
  <2> QED BY <2>1 DEF SnapsHold
<1>2. ASSUME NEW g \in Magnets, ResolveFails(g) PROVE SnapsHold'
  <2> USE <1>2 DEF ResolveFails, ResAt
  <2>1. Alive' = Alive
    BY DEF Alive, Ids, Managed
  <2>2. tid[g] \notin Alive
    BY RunsAlive DEF Resolving, Before
  <2> QED BY <2>1, <2>2 DEF SnapsHold
<1>3. ASSUME NEW g \in Magnets, ResolveAdd(g) PROVE SnapsHold'
  <2> USE <1>3 DEF ResolveAdd, ResAt
  <2>1. Alive' = Alive \cup {nextId}
    BY DEF Alive, Ids, Managed
  <2> QED BY <2>1 DEF SnapsHold
<1>4. ASSUME NEW g \in Magnets, ResolveCurrent(g) \/ ResolveAttach(g) PROVE SnapsHold'
  <2> USE <1>4 DEF ResolveCurrent, ResolveAttach, ResAt, ResolveEnds, Delete
  <2>1. rid[g] \in Ids \cup {NoId}
    BY DEF CallsMade
  <2>2. Alive' \in {Alive, Alive \ {rid[g]}}
    BY <2>1, AliveAfter
  <2>3. tid[g] = NoId
    BY DEF Resolving, Before
  <2>4. \A h \in Magnets : tid[h] \in Alive => tid[h] # rid[g]
    BY <2>3, RunsAlive, OneOwner
  <2> QED BY <2>2, <2>4 DEF SnapsHold
<1>5. ASSUME NEW g \in Magnets, Remember(g) PROVE SnapsHold'
  <2> USE <1>5 DEF Remember, ResAt
  <2>1. Alive' = Alive
    BY DEF Alive, Ids, Managed
  <2>2. tid[g] \notin Alive
    BY RunsAlive DEF Resolving, Before
  <2>3. \A h \in Magnets \ {g} : tid[h] \in Alive => tid'[h] = tid[h] /\ tstat'[h] = tstat[h]
    BY ManagedIsAlive
  <2>4. \A h \in Magnets : tstat[h] \in {"Complete", "Removed"} => tstat'[h] = tstat[h]
    OBVIOUS
  <2> QED BY <2>1, <2>2, <2>3, <2>4 DEF SnapsHold
<1>6. ASSUME NEW g \in Magnets, Settle(g) PROVE SnapsHold'
  <2> USE <1>6 DEF Settle, ResAt, ResolveEnds, Delete
  <2>1. rid[g] \in Ids \cup {NoId}
    BY DEF CallsMade
  <2>2. Alive' = IF tstat[g] \in {"Active", "Paused"} THEN Alive ELSE Alive \ {rid[g]}
    BY <2>1, AliveAfter
  <2>3. \A h \in Magnets : tid[h] \in Alive /\ h # g => tid[h] # rid[g]
    BY RunsAlive, OneOwner
  <2>4. CASE tstat[g] \in {"Active", "Paused"}
    BY <2>2, <2>4 DEF SnapsHold
  <2>5. CASE tstat[g] \notin {"Active", "Paused"}
    <3>1. tid' = [tid EXCEPT ![g] = NoId]
      BY <2>5
    <3> QED BY <2>2, <2>3, <2>5, <3>1 DEF SnapsHold
  <2> QED BY <2>4, <2>5
<1>7. ASSUME NEW g \in Magnets, ResolvePause(g) PROVE SnapsHold'
  <2> USE <1>7 DEF ResolvePause, ResAt, ResolveEnds
  <2>1. rid[g] \in Ids \cup {NoId}
    BY DEF CallsMade
  <2>2. Alive' = Alive
    BY <2>1, AliveAfter
  <2> QED BY <2>2 DEF SnapsHold
<1>8. ASSUME NEW c \in Calls, PauseTorrent(c) PROVE SnapsHold'
  <2> USE <1>8 DEF PauseTorrent, CallAt
  <2>1. tid[tgid[c]] \in Ids \cup {NoId}
    BY DEF CallsMade
  <2>2. Alive' = Alive
    BY <2>1, AliveAfter
  <2> QED BY <2>2 DEF SnapsHold
<1>9. ASSUME NEW c \in Calls, UnpauseTorrent(c) PROVE SnapsHold'
  <2> USE <1>9 DEF UnpauseTorrent, CallAt
  <2>1. tid[tgid[c]] \in Ids \cup {NoId}
    BY DEF CallsMade
  <2>2. Alive' = Alive
    BY <2>1, AliveAfter
  <2> QED BY <2>2 DEF SnapsHold
<1>10. ASSUME NEW c \in Calls, UnpauseWrite(c) PROVE SnapsHold'
  <2> USE <1>10 DEF UnpauseWrite, CallAt
  <2>1. Alive' = Alive
    BY DEF Alive, Ids, Managed
  <2> QED BY <2>1 DEF SnapsHold
<1>11. ASSUME NEW c \in Calls, RemoveTorrent(c) PROVE SnapsHold'
  <2> USE <1>11 DEF RemoveTorrent, CallAt, Delete
  <2>1. tid[tgid[c]] \in Ids \cup {NoId}
    BY DEF CallsMade
  <2>2. Alive' = Alive \ {tid[tgid[c]]}
    BY <2>1, AliveAfter
  <2>3. tgid[c] \in Magnets /\ tstat[tgid[c]] = "Removed"
    BY DEF CallsMade, Removing
  <2>4. \A h \in Magnets : tid[h] \in Alive /\ h # tgid[c] => tid[h] # tid[tgid[c]]
    BY <2>3, RunsAlive, OneOwner
  <2> QED BY <2>2, <2>3, <2>4 DEF SnapsHold
<1>12. ASSUME NEW c \in Calls, RemoveForget(c) PROVE SnapsHold'
  <2> USE <1>12 DEF RemoveForget, CallAt
  <2>1. Alive' = Alive
    BY DEF Alive, Ids, Managed
  <2>2. tgid[c] \in Magnets /\ tstat[tgid[c]] = "Removed"
    BY DEF CallsMade, Removing
  <2> QED BY <2>1, <2>2 DEF SnapsHold
<1>13. ASSUME NEW c \in Calls, NEW g \in Magnets, PauseTask(c, g) PROVE SnapsHold'
  <2> USE <1>13 DEF PauseTask, Call
  <2>1. Alive' = Alive
    BY DEF Alive, Ids, Managed
  <2> QED BY <2>1 DEF SnapsHold
<1>14. ASSUME NEW c \in Calls, NEW g \in Magnets, RemoveTask(c, g) PROVE SnapsHold'
  <2> USE <1>14 DEF RemoveTask, Call
  <2>1. Alive' = Alive
    BY DEF Alive, Ids, Managed
  <2> QED BY <2>1 DEF SnapsHold
<1>15. ASSUME NEW i \in Ids, TorrentHalts(i) PROVE SnapsHold'
  <2> USE <1>15 DEF TorrentHalts
  <2>1. Alive' = Alive
    BY DEF Alive, Ids, Managed
  <2> QED BY <2>1 DEF SnapsHold
<1>16. ASSUME TickSnapshot PROVE SnapsHold'
  <2> USE <1>16 DEF TickSnapshot
  <2>1. Alive' = Alive
    BY DEF Alive, Ids, Managed
  <2>2. \A h \in Magnets : tsnap'[h] # "none" => tstat[h] = "Active" /\ tid[h] \in Alive
    BY ManagedIsAlive
  <2> QED BY <2>1, <2>2 DEF SnapsHold
<1>17. ASSUME TickWrite PROVE SnapsHold'
  <2> USE <1>17 DEF TickWrite
  <2>1. Alive' = Alive
    BY DEF Alive, Ids, Managed
  <2> QED BY <2>1 DEF SnapsHold
<1>18. ASSUME NEW s \in spawned, Spawned(s) PROVE SnapsHold'
  <2> USE <1>18 DEF Spawned
  <2>1. s[2] \in Ids
    OBVIOUS
  <2>2. Alive' = Alive
    BY <2>1, AliveAfter
  <2> QED BY <2>2 DEF SnapsHold
<1>19. ASSUME ReloadPauseTasks PROVE SnapsHold'
  <2> USE <1>19 DEF ReloadPauseTasks, ReloadAt
  <2>1. Alive' = Alive
    BY DEF Alive, Ids, Managed
  <2> QED BY <2>1 DEF SnapsHold
<1>20. ASSUME ReloadGivesUp PROVE SnapsHold'
  <2> USE <1>20 DEF ReloadGivesUp, MarkFailed, ReloadAt
  <2>1. Alive' = Alive
    BY DEF Alive, Ids, Managed
  <2> QED BY <2>1 DEF SnapsHold
<1>21. ASSUME NEW g \in Magnets, ReloadPauseTorrent(g) PROVE SnapsHold'
  <2> USE <1>21 DEF ReloadPauseTorrent, PauseNext, MarkFailed, ReloadAt
  <2>1. rids[g] \in Ids \cup {NoId}
    BY DEF CallsMade
  <2>2. Alive' = Alive
    BY <2>1, AliveAfter
  <2> QED BY <2>2 DEF SnapsHold
<1>22. ASSUME ReloadResumeTasks PROVE SnapsHold'
  <2> USE <1>22 DEF ReloadResumeTasks, ReloadAt
  <2>1. Alive' = Alive
    BY DEF Alive, Ids, Managed
  <2> QED BY <2>1 DEF SnapsHold
<1>23. ASSUME NEW g \in Magnets, ReloadResume(g) PROVE SnapsHold'
  <2> USE <1>23 DEF ReloadResume, ResumeNext, EnsureResolvers, ReloadAt
  <2>1. rids[g] \in Ids \cup {NoId}
    BY DEF CallsMade
  <2>2. Alive' = Alive
    BY <2>1, AliveAfter
  <2> QED BY <2>2 DEF SnapsHold
<1>24. ASSUME RollbackTasks PROVE SnapsHold'
  <2> USE <1>24 DEF RollbackTasks, MarkFailed, ReloadAt
  <2>1. Alive' = Alive
    BY DEF Alive, Ids, Managed
  <2> QED BY <2>1 DEF SnapsHold
<1>25. ASSUME RollbackPause PROVE SnapsHold'
  <2> USE <1>25 DEF RollbackPause, ReloadAt
  <2>1. Alive' = Alive
    BY DEF Alive, Ids, Managed
  <2> QED BY <2>1 DEF SnapsHold
<1>26. ASSUME NEW g \in Magnets,
             ResolveCheck(g) \/ Resolve(g) \/ ResolveLock(g) \/ ResolveDone(g)
      PROVE  UNCHANGED <<tsnap, tstat, tid, Alive>>
  BY <1>26 DEF ResolveCheck, Resolve, ResolveLock, ResolveDone, Alive
<1>27. ASSUME NEW c \in Calls,
             BumpResumeSeq(c) \/ UnpauseEnsure(c)
      PROVE  UNCHANGED <<tsnap, tstat, tid, Alive>>
  BY <1>27 DEF BumpResumeSeq, UnpauseEnsure, Alive
<1>28. ASSUME NEW c \in Calls, NEW g \in Magnets,
             UnpauseCheck(c, g)
      PROVE  UNCHANGED <<tsnap, tstat, tid, Alive>>
  BY <1>28 DEF UnpauseCheck, Alive
<1>29. ASSUME NEW i \in Ids,
             TorrentDone(i)
      PROVE  UNCHANGED <<tsnap, tstat, tid, Alive>>
  BY <1>29 DEF TorrentDone, Alive
<1>30. ASSUME TickEnsure \/ ReloadInvalidate \/ ReloadTargets \/ ReloadReconfigure
              \/ ReloadReconfigureFails \/ ReloadOptions \/ ReloadResumeIds
              \/ ReloadResumeFails
      PROVE  UNCHANGED <<tsnap, tstat, tid, Alive>>
  BY <1>30 DEF TickEnsure, ReloadInvalidate, ReloadTargets, ReloadReconfigure,
               ReloadReconfigureFails, ReloadOptions, ReloadResumeIds, ReloadResumeFails, Alive
<1>31. ASSUME RollbackRoute
      PROVE  UNCHANGED <<tsnap, tstat, tid, Alive>>
  BY <1>31 DEF RollbackRoute, Alive
<1>32. ASSUME NEW p \in Profiles,
             ReloadStart(p)
      PROVE  UNCHANGED <<tsnap, tstat, tid, Alive>>
  BY <1>32 DEF ReloadStart, Unlocked, Alive
<1>33. CASE UNCHANGED torrentVars
  BY <1>33 DEF torrentVars, SnapsHold, Alive
<1>34. UNCHANGED <<tsnap, tstat, tid, Alive>> => SnapsHold'
  BY DEF SnapsHold, Alive
<1> QED
  BY <1>1, <1>2, <1>3, <1>4, <1>5, <1>6, <1>7, <1>8, <1>9, <1>10, <1>11, <1>12, <1>13, <1>14,
     <1>15, <1>16, <1>17, <1>18, <1>19, <1>20, <1>21, <1>22, <1>23, <1>24, <1>25, <1>26, <1>27,
     <1>28, <1>29, <1>30, <1>31, <1>32, <1>33, <1>34
  DEF TorrentsNext, ResolverStep, CallStep, TickStep, ReloadStep

(* A halted torrent that runs again was resumed.                           *)
LEMMA HaltsKept ==
    ASSUME TypeInv, OwnerInv, ResumesTouched, SnapsHold, HaltsHold, [TorrentsNext]_torrentVars
    PROVE  HaltsHold'
<1> USE TorrentBounds
    DEF TypeInv, OwnerInv, TorrentsTypeOK, ProcessTypes, taskVars, btVars, resVars, spawnVars,
        reloadVars, callVars, tickVars
<1>1. ASSUME NEW g \in Magnets, NEW s \in {"Active", "Paused"}, AddMagnet(g, s)
      PROVE  HaltsHold'
  <2> USE <1>1 DEF AddMagnet, EnsureResolvers
  <2>1. Runs' = Runs
    BY DEF Runs, Ids, Managed
  <2> QED BY <2>1, RunsAlive DEF HaltsHold, Resuming, SnapsHold, CallsMade
<1>2. ASSUME NEW g \in Magnets, ResolveFails(g) PROVE HaltsHold'
  <2> USE <1>2 DEF ResolveFails, ResAt
  <2>1. Runs' = Runs
    BY DEF Runs, Ids, Managed
  <2> QED BY <2>1, RunsAlive DEF HaltsHold, Resuming, SnapsHold, CallsMade
<1>3. ASSUME NEW g \in Magnets, ResolveAdd(g) PROVE HaltsHold'
  <2> USE <1>3 DEF ResolveAdd, ResAt
  <2>1. Runs' \subseteq Runs \cup {nextId}
    BY DEF Runs, Ids, Managed
  <2>2. \A h \in Magnets : tid[h] # nextId
    <3>1. nextId # NoId /\ ~(nextId < nextId)
      BY DEF Ids
    <3> QED BY <3>1 DEF IdsApart, IdsOf
  <2> QED BY <2>1, <2>2 DEF HaltsHold, Resuming
<1>4. ASSUME NEW g \in Magnets, ResolveCurrent(g) \/ ResolveAttach(g) PROVE HaltsHold'
  <2> USE <1>4 DEF ResolveCurrent, ResolveAttach, ResAt, ResolveEnds, Delete
  <2>1. rid[g] \in Ids \cup {NoId}
    BY DEF CallsMade
  <2>2. Runs' \subseteq Runs
    BY <2>1, RunsAfter
  <2> QED BY <2>2, RunsAlive DEF HaltsHold, Resuming, SnapsHold, CallsMade
<1>5. ASSUME NEW g \in Magnets, Remember(g) PROVE HaltsHold'
  <2> USE <1>5 DEF Remember, ResAt
  <2>1. Runs' = Runs
    BY DEF Runs, Ids, Managed
  <2>2. tid[g] \notin Alive
    BY RunsAlive DEF Resolving, Before
  <2>3. tsnap[g] # "none" => tstat'[g] \notin {"Active", "Paused"}
    BY <2>2 DEF SnapsHold
  <2>4. \A h \in Magnets \ {g} : tid'[h] \in {tid[h], NoId} /\ tstat'[h] \in {tstat[h], "Complete"}
    OBVIOUS
  <2> QED BY <2>1, <2>3, <2>4, RunsAlive DEF HaltsHold, Resuming
<1>6. ASSUME NEW g \in Magnets, Settle(g) PROVE HaltsHold'
  <2> USE <1>6 DEF Settle, ResAt, ResolveEnds, Delete
  <2>1. rid[g] \in Ids \cup {NoId}
    BY DEF CallsMade
  <2>2. Runs' \subseteq Runs
    BY <2>1, RunsAfter
  <2> QED BY <2>2, RunsAlive DEF HaltsHold, Resuming, SnapsHold, CallsMade
<1>7. ASSUME NEW g \in Magnets, ResolvePause(g) PROVE HaltsHold'
  <2> USE <1>7 DEF ResolvePause, ResAt, ResolveEnds
  <2>1. rid[g] \in Ids \cup {NoId}
    BY DEF CallsMade
  <2>2. Runs' = Runs \ {rid[g]}
    BY <2>1, RunsAfter
  <2> QED BY <2>2, RunsAlive DEF HaltsHold, Resuming, SnapsHold, CallsMade
<1>8. ASSUME NEW c \in Calls, PauseTorrent(c) PROVE HaltsHold'
  <2> USE <1>8 DEF PauseTorrent, CallAt
  <2>1. tid[tgid[c]] \in Ids \cup {NoId}
    BY DEF CallsMade
  <2>2. Runs' = Runs \ {tid[tgid[c]]}
    BY <2>1, RunsAfter
  <2> QED BY <2>2, RunsAlive DEF HaltsHold, Resuming, SnapsHold, CallsMade
<1>9. ASSUME NEW c \in Calls, UnpauseTorrent(c) PROVE HaltsHold'
  <2> USE <1>9 DEF UnpauseTorrent, CallAt
  <2>1. tid[tgid[c]] \in Ids \cup {NoId}
    BY DEF CallsMade
  <2>2. Runs' \subseteq Runs \cup {tid[tgid[c]]}
    BY <2>1, RunsAfter
  <2>3. PICK h \in Magnets : h = tgid[c]
    BY DEF CallsMade
  <2>4. \A k \in Magnets : tid[k] \in Runs' /\ k # h => tid[k] \in Runs
    <3> SUFFICES ASSUME NEW k \in Magnets, tid[k] \in Runs', k # h, tid[k] = tid[h] PROVE FALSE
      BY <2>2, <2>3
    <3>1. tid[k] # NoId
      BY DEF Runs, Ids
    <3> QED BY <3>1, OneOwner
  <2>5. Resuming(h)' /\ \A k \in Magnets : Resuming(k) => Resuming(k)'
    BY <2>3 DEF Resuming
  <2> QED BY <2>4, <2>5 DEF HaltsHold
<1>10. ASSUME NEW c \in Calls, BumpResumeSeq(c) PROVE HaltsHold'
  <2> USE <1>10 DEF BumpResumeSeq, CallAt
  <2>1. Runs' = Runs
    BY DEF Runs, Ids, Managed
  <2> QED BY <2>1, RunsAlive DEF HaltsHold, Resuming, SnapsHold, CallsMade
<1>11. ASSUME NEW c \in Calls, UnpauseWrite(c) PROVE HaltsHold'
  <2> USE <1>11 DEF UnpauseWrite, CallAt
  <2>1. Runs' = Runs
    BY DEF Runs, Ids, Managed
  <2> QED BY <2>1, RunsAlive DEF HaltsHold, Resuming, SnapsHold, CallsMade
<1>12. ASSUME NEW c \in Calls, UnpauseEnsure(c) PROVE HaltsHold'
  <2> USE <1>12 DEF UnpauseEnsure, CallAt, EnsureResolvers
  <2>1. Runs' = Runs
    BY DEF Runs, Ids, Managed
  <2> QED BY <2>1, RunsAlive DEF HaltsHold, Resuming, SnapsHold, CallsMade
<1>13. ASSUME NEW c \in Calls, RemoveTorrent(c) PROVE HaltsHold'
  <2> USE <1>13 DEF RemoveTorrent, CallAt, Delete
  <2>1. tid[tgid[c]] \in Ids \cup {NoId}
    BY DEF CallsMade
  <2>2. Runs' \subseteq Runs
    BY <2>1, RunsAfter
  <2> QED BY <2>2, RunsAlive DEF HaltsHold, Resuming, SnapsHold, CallsMade
<1>14. ASSUME NEW c \in Calls, RemoveForget(c) PROVE HaltsHold'
  <2> USE <1>14 DEF RemoveForget, CallAt
  <2>1. Runs' = Runs
    BY DEF Runs, Ids, Managed
  <2> QED BY <2>1, RunsAlive DEF HaltsHold, Resuming, SnapsHold, CallsMade
<1>15. ASSUME NEW c \in Calls, NEW g \in Magnets, PauseTask(c, g) PROVE HaltsHold'
  <2> USE <1>15 DEF PauseTask, Call
  <2>1. Runs' = Runs
    BY DEF Runs, Ids, Managed
  <2> QED BY <2>1, RunsAlive DEF HaltsHold, Resuming, SnapsHold, CallsMade
<1>16. ASSUME NEW c \in Calls, NEW g \in Magnets, UnpauseCheck(c, g) PROVE HaltsHold'
  <2> USE <1>16 DEF UnpauseCheck, Call
  <2>1. Runs' = Runs
    BY DEF Runs, Ids, Managed
  <2> QED BY <2>1, RunsAlive DEF HaltsHold, Resuming, SnapsHold, CallsMade
<1>17. ASSUME NEW c \in Calls, NEW g \in Magnets, RemoveTask(c, g) PROVE HaltsHold'
  <2> USE <1>17 DEF RemoveTask, Call
  <2>1. Runs' = Runs
    BY DEF Runs, Ids, Managed
  <2> QED BY <2>1, RunsAlive DEF HaltsHold, Resuming, SnapsHold, CallsMade
<1>18. ASSUME NEW i \in Ids, TorrentHalts(i) PROVE HaltsHold'
  <2> USE <1>18 DEF TorrentHalts
  <2>1. Runs' \subseteq Runs
    BY DEF Runs, Ids, Managed
  <2> QED BY <2>1, RunsAlive DEF HaltsHold, Resuming, SnapsHold, CallsMade
<1>19. ASSUME TickSnapshot PROVE HaltsHold'
  <2> USE <1>19 DEF TickSnapshot
  <2>1. Runs' = Runs
    BY DEF Runs, Ids, Managed
  <2>2. \A h \in Magnets : tsnap'[h] = "halted" => tid[h] \notin Runs
    BY DEF Runs
  <2> QED BY <2>1, <2>2 DEF HaltsHold, Resuming
<1>20. ASSUME TickWrite PROVE HaltsHold'
  <2> USE <1>20 DEF TickWrite
  <2>1. Runs' = Runs
    BY DEF Runs, Ids, Managed
  <2> QED BY <2>1, RunsAlive DEF HaltsHold, Resuming, SnapsHold, CallsMade
<1>21. ASSUME NEW s \in spawned, Spawned(s) PROVE HaltsHold'
  <2> USE <1>21 DEF Spawned
  <2>1. s[2] \in Ids
    OBVIOUS
  <2>2. Runs' \subseteq Runs
    BY <2>1, RunsAfter
  <2> QED BY <2>2, RunsAlive DEF HaltsHold, Resuming, SnapsHold, CallsMade
<1>22. ASSUME ReloadPauseTasks PROVE HaltsHold'
  <2> USE <1>22 DEF ReloadPauseTasks, ReloadAt
  <2>1. Runs' = Runs
    BY DEF Runs, Ids, Managed
  <2> QED BY <2>1, RunsAlive DEF HaltsHold, Resuming, SnapsHold, CallsMade
<1>23. ASSUME ReloadGivesUp PROVE HaltsHold'
  <2> USE <1>23 DEF ReloadGivesUp, MarkFailed, ReloadAt
  <2>1. Runs' = Runs
    BY DEF Runs, Ids, Managed
  <2> QED BY <2>1, RunsAlive DEF HaltsHold, Resuming, SnapsHold, CallsMade
<1>24. ASSUME NEW g \in Magnets, ReloadPauseTorrent(g) PROVE HaltsHold'
  <2> USE <1>24 DEF ReloadPauseTorrent, PauseNext, MarkFailed, ReloadAt
  <2>1. rids[g] \in Ids \cup {NoId}
    BY DEF CallsMade
  <2>2. Runs' \subseteq Runs
    BY <2>1, RunsAfter
  <2> QED BY <2>2, RunsAlive DEF HaltsHold, Resuming, SnapsHold, CallsMade
<1>25. ASSUME ReloadResumeTasks PROVE HaltsHold'
  <2> USE <1>25 DEF ReloadResumeTasks, ReloadAt
  <2>1. Runs' = Runs
    BY DEF Runs, Ids, Managed
  <2> QED BY <2>1, RunsAlive DEF HaltsHold, Resuming, SnapsHold, CallsMade
<1>26. ASSUME NEW g \in Magnets, ReloadResume(g) PROVE HaltsHold'
  <2> USE <1>26 DEF ReloadResume, ResumeNext, EnsureResolvers, ReloadAt
  <2>1. rids[g] \in Ids \cup {NoId}
    BY DEF CallsMade
  <2>2. Runs' \subseteq Runs \cup {rids[g]}
    BY <2>1, RunsAfter
  <2>3. \A k \in Magnets : tid[k] \in Runs' /\ k # g => tid[k] \in Runs
    <3> SUFFICES ASSUME NEW k \in Magnets, tid[k] \in Runs', k # g, tid[k] = rids[g] PROVE FALSE
      BY <2>2
    <3>1. tid[k] # NoId
      BY DEF Runs, Ids
    <3> QED BY <3>1, OneOwner
  <2>4. g \in touched
    BY DEF ResumesTouched
  <2> QED BY <2>3, <2>4 DEF HaltsHold, Resuming
<1>27. ASSUME RollbackTasks PROVE HaltsHold'
  <2> USE <1>27 DEF RollbackTasks, MarkFailed, ReloadAt
  <2>1. Runs' = Runs
    BY DEF Runs, Ids, Managed
  <2> QED BY <2>1, RunsAlive DEF HaltsHold, Resuming, SnapsHold, CallsMade
<1>28. ASSUME RollbackPause PROVE HaltsHold'
  <2> USE <1>28 DEF RollbackPause, ReloadAt
  <2>1. Runs' \subseteq Runs
    BY DEF Runs, Ids, Managed
  <2> QED BY <2>1, RunsAlive DEF HaltsHold, Resuming, SnapsHold, CallsMade
<1>29. ASSUME NEW g \in Magnets,
             ResolveCheck(g) \/ Resolve(g) \/ ResolveLock(g) \/ ResolveDone(g)
      PROVE  UNCHANGED <<touched, tsnap, resumed, tickpc, tstat, tid, Runs, tpc, tgid>>
  BY <1>29 DEF ResolveCheck, Resolve, ResolveLock, ResolveDone, Runs
<1>30. ASSUME NEW i \in Ids,
             TorrentDone(i)
      PROVE  UNCHANGED <<touched, tsnap, resumed, tickpc, tstat, tid, Runs, tpc, tgid>>
  BY <1>30 DEF TorrentDone, Runs
<1>36. ASSUME TickEnsure PROVE HaltsHold'
  <2> USE <1>36 DEF TickEnsure
  <2>1. Runs' = Runs
    BY DEF Runs
  <2> QED BY <2>1 DEF HaltsHold, Resuming
<1>31. ASSUME ReloadInvalidate \/ ReloadTargets \/ ReloadReconfigure
              \/ ReloadReconfigureFails \/ ReloadOptions \/ ReloadResumeIds
              \/ ReloadResumeFails
      PROVE  UNCHANGED <<touched, tsnap, resumed, tickpc, tstat, tid, Runs, tpc, tgid>>
  BY <1>31 DEF ReloadInvalidate, ReloadTargets, ReloadReconfigure,
               ReloadReconfigureFails, ReloadOptions, ReloadResumeIds, ReloadResumeFails, Runs
<1>32. ASSUME RollbackRoute
      PROVE  UNCHANGED <<touched, tsnap, resumed, tickpc, tstat, tid, Runs, tpc, tgid>>
  BY <1>32 DEF RollbackRoute, Runs
<1>33. ASSUME NEW p \in Profiles,
             ReloadStart(p)
      PROVE  UNCHANGED <<touched, tsnap, resumed, tickpc, tstat, tid, Runs, tpc, tgid>>
  BY <1>33 DEF ReloadStart, Unlocked, Runs
<1>34. CASE UNCHANGED torrentVars
  BY <1>34 DEF torrentVars, HaltsHold, Resuming, Runs
<1>35. UNCHANGED <<touched, tsnap, resumed, tickpc, tstat, tid, Runs, tpc, tgid>> => HaltsHold'
  BY DEF HaltsHold, Resuming, Runs
<1> QED
  BY <1>1, <1>2, <1>3, <1>4, <1>5, <1>6, <1>7, <1>8, <1>9, <1>10, <1>11, <1>12, <1>13, <1>14,
     <1>15, <1>16, <1>17, <1>18, <1>19, <1>20, <1>21, <1>22, <1>23, <1>24, <1>25, <1>26, <1>27,
     <1>28, <1>29, <1>30, <1>31, <1>32, <1>33, <1>34, <1>35, <1>36
  DEF TorrentsNext, ResolverStep, CallStep, TickStep, ReloadStep

(* The torrent of a stopped task runs only while someone is about to act.  *)
LEMMA RunsKept ==
    ASSUME TypeInv, OwnerInv, ResumesTouched, SnapsHold, HaltsHold, RunsForReason,
           [TorrentsNext]_torrentVars
    PROVE  RunsForReason'
<1> USE TorrentBounds
    DEF TypeInv, OwnerInv, TorrentsTypeOK, ProcessTypes, taskVars, btVars, resVars, spawnVars,
        reloadVars, callVars, tickVars
<1>1. ASSUME NEW g \in Magnets, NEW s \in {"Active", "Paused"}, AddMagnet(g, s)
      PROVE  RunsForReason'
  <2> USE <1>1 DEF AddMagnet, EnsureResolvers
  <2>1. Runs' = Runs
    BY DEF Runs, Ids, Managed
  <2> QED BY <2>1, RunsAlive DEF RunsForReason, StopComes, Resolving, CallsMade
<1>2. ASSUME NEW g \in Magnets, ResolveCheck(g) PROVE RunsForReason'
  <2> USE <1>2 DEF ResolveCheck, ResAt
  <2>1. Runs' = Runs
    BY DEF Runs, Ids, Managed
  <2> QED BY <2>1, RunsAlive DEF RunsForReason, StopComes, CallsMade
<1>3. ASSUME NEW g \in Magnets, Resolve(g) PROVE RunsForReason'
  <2> USE <1>3 DEF Resolve, ResAt
  <2>1. Runs' = Runs
    BY DEF Runs, Ids, Managed
  <2> QED BY <2>1, RunsAlive DEF RunsForReason, StopComes, CallsMade
<1>4. ASSUME NEW g \in Magnets, ResolveFails(g) PROVE RunsForReason'
  <2> USE <1>4 DEF ResolveFails, ResAt
  <2>1. Runs' = Runs
    BY DEF Runs, Ids, Managed
  <2>2. tid[g] \notin Runs
    BY RunsAlive DEF Resolving, Before
  <2> QED BY <2>1, <2>2 DEF RunsForReason, StopComes
<1>5. ASSUME NEW g \in Magnets, ResolveLock(g) PROVE RunsForReason'
  <2> USE <1>5 DEF ResolveLock, ResAt, ResolveEnds
  <2>1. Runs' = Runs
    BY DEF Runs, Ids, Managed
  <2> QED BY <2>1, RunsAlive DEF RunsForReason, StopComes, CallsMade
<1>6. ASSUME NEW g \in Magnets, ResolveAdd(g) PROVE RunsForReason'
  <2> USE <1>6 DEF ResolveAdd, ResAt
  <2>1. Runs' \subseteq Runs \cup {nextId}
    BY DEF Runs, Ids, Managed
  <2>2. \A h \in Magnets : tid[h] # nextId
    <3>1. nextId # NoId /\ ~(nextId < nextId)
      BY DEF Ids
    <3> QED BY <3>1 DEF IdsApart, IdsOf
  <2> QED BY <2>1, <2>2 DEF RunsForReason, StopComes
<1>7. ASSUME NEW g \in Magnets, ResolveCurrent(g) \/ ResolveAttach(g) PROVE RunsForReason'
  <2> USE <1>7 DEF ResolveCurrent, ResolveAttach, ResAt, ResolveEnds, Delete
  <2>1. rid[g] \in Ids \cup {NoId}
    BY DEF CallsMade
  <2>2. Runs' \subseteq Runs
    BY <2>1, RunsAfter
  <2> QED BY <2>2, RunsAlive DEF RunsForReason, StopComes, CallsMade
<1>8. ASSUME NEW g \in Magnets, Remember(g) PROVE RunsForReason'
  <2> USE <1>8 DEF Remember, ResAt
  <2>1. Runs' = Runs
    BY DEF Runs, Ids, Managed
  <2> QED BY <2>1, RunsAlive DEF RunsForReason, StopComes, CallsMade
<1>9. ASSUME NEW g \in Magnets, Settle(g) PROVE RunsForReason'
  <2> USE <1>9 DEF Settle, ResAt, ResolveEnds, Delete
  <2>1. rid[g] \in Ids \cup {NoId}
    BY DEF CallsMade
  <2>2. Runs' \subseteq Runs
    BY <2>1, RunsAfter
  <2> QED BY <2>2, RunsAlive DEF RunsForReason, StopComes, CallsMade
<1>10. ASSUME NEW g \in Magnets, ResolvePause(g) PROVE RunsForReason'
  <2> USE <1>10 DEF ResolvePause, ResAt, ResolveEnds
  <2>1. rid[g] \in Ids \cup {NoId}
    BY DEF CallsMade
  <2>2. Runs' = Runs \ {rid[g]}
    BY <2>1, RunsAfter
  <2>3. tid[g] \notin Runs'
    BY <2>2, RunsAlive DEF Resolving
  <2> QED BY <2>2, <2>3 DEF RunsForReason, StopComes
<1>11. ASSUME NEW g \in Magnets, ResolveDone(g) PROVE RunsForReason'
  <2> USE <1>11 DEF ResolveDone
  <2>1. Runs' = Runs
    BY DEF Runs, Ids, Managed
  <2> QED BY <2>1, RunsAlive DEF RunsForReason, StopComes, CallsMade
<1>12. ASSUME NEW c \in Calls, PauseTorrent(c) PROVE RunsForReason'
  <2> USE <1>12 DEF PauseTorrent, CallAt
  <2>1. tid[tgid[c]] \in Ids \cup {NoId}
    BY DEF CallsMade
  <2>2. Runs' = Runs \ {tid[tgid[c]]}
    BY <2>1, RunsAfter
  <2> QED BY <2>2, RunsAlive DEF RunsForReason, StopComes, CallsMade
<1>13. ASSUME NEW c \in Calls, UnpauseTorrent(c) PROVE RunsForReason'
  <2> USE <1>13 DEF UnpauseTorrent, CallAt
  <2>1. tid[tgid[c]] \in Ids \cup {NoId}
    BY DEF CallsMade
  <2>2. Runs' \subseteq Runs \cup {tid[tgid[c]]}
    BY <2>1, RunsAfter
  <2>3. PICK h \in Magnets : h = tgid[c]
    BY DEF CallsMade
  <2>4. \A k \in Magnets : tid[k] \in Runs' /\ k # h => tid[k] \in Runs
    <3> SUFFICES ASSUME NEW k \in Magnets, tid[k] \in Runs', k # h, tid[k] = tid[h] PROVE FALSE
      BY <2>2, <2>3
    <3>1. tid[k] # NoId
      BY DEF Runs, Ids
    <3> QED BY <3>1, OneOwner
  <2>5. StopComes(h)' /\ \A k \in Magnets : StopComes(k) => StopComes(k)'
    BY <2>3 DEF StopComes
  <2> QED BY <2>4, <2>5 DEF RunsForReason
<1>14. ASSUME NEW c \in Calls, BumpResumeSeq(c) PROVE RunsForReason'
  <2> USE <1>14 DEF BumpResumeSeq, CallAt
  <2>1. Runs' = Runs
    BY DEF Runs, Ids, Managed
  <2> QED BY <2>1, RunsAlive DEF RunsForReason, StopComes, CallsMade
<1>15. ASSUME NEW c \in Calls, UnpauseWrite(c) PROVE RunsForReason'
  <2> USE <1>15 DEF UnpauseWrite, CallAt
  <2>1. Runs' = Runs
    BY DEF Runs, Ids, Managed
  <2> QED BY <2>1, RunsAlive DEF RunsForReason, StopComes, CallsMade
<1>16. ASSUME NEW c \in Calls, UnpauseEnsure(c) PROVE RunsForReason'
  <2> USE <1>16 DEF UnpauseEnsure, CallAt, EnsureResolvers
  <2>1. Runs' = Runs
    BY DEF Runs, Ids, Managed
  <2>2. \A h \in Magnets : rpc[h] \in {"settle", "pause"} => rpc'[h] = rpc[h]
    BY SpawnsFirst
  <2>3. \A h \in Magnets : StopComes(h) => StopComes(h)'
    BY <2>2 DEF StopComes
  <2> QED BY <2>1, <2>3 DEF RunsForReason
<1>17. ASSUME NEW c \in Calls, RemoveTorrent(c) PROVE RunsForReason'
  <2> USE <1>17 DEF RemoveTorrent, CallAt, Delete
  <2>1. tid[tgid[c]] \in Ids \cup {NoId}
    BY DEF CallsMade
  <2>2. Runs' \subseteq Runs
    BY <2>1, RunsAfter
  <2> QED BY <2>2, RunsAlive DEF RunsForReason, StopComes, CallsMade
<1>18. ASSUME NEW c \in Calls, RemoveForget(c) PROVE RunsForReason'
  <2> USE <1>18 DEF RemoveForget, CallAt
  <2>1. Runs' = Runs
    BY DEF Runs, Ids, Managed
  <2> QED BY <2>1, RunsAlive DEF RunsForReason, StopComes, CallsMade
<1>19. ASSUME NEW c \in Calls, NEW g \in Magnets, PauseTask(c, g) PROVE RunsForReason'
  <2> USE <1>19 DEF PauseTask, Call
  <2>1. Runs' = Runs
    BY DEF Runs, Ids, Managed
  <2> QED BY <2>1, RunsAlive DEF RunsForReason, StopComes, CallsMade
<1>20. ASSUME NEW c \in Calls, NEW g \in Magnets, UnpauseCheck(c, g) PROVE RunsForReason'
  <2> USE <1>20 DEF UnpauseCheck, Call
  <2>1. Runs' = Runs
    BY DEF Runs, Ids, Managed
  <2> QED BY <2>1, RunsAlive DEF RunsForReason, StopComes, CallsMade
<1>21. ASSUME NEW c \in Calls, NEW g \in Magnets, RemoveTask(c, g) PROVE RunsForReason'
  <2> USE <1>21 DEF RemoveTask, Call
  <2>1. Runs' = Runs
    BY DEF Runs, Ids, Managed
  <2> QED BY <2>1, RunsAlive DEF RunsForReason, StopComes, CallsMade
<1>22. ASSUME NEW i \in Ids, TorrentHalts(i) PROVE RunsForReason'
  <2> USE <1>22 DEF TorrentHalts
  <2>1. Runs' \subseteq Runs
    BY DEF Runs, Ids, Managed
  <2> QED BY <2>1, RunsAlive DEF RunsForReason, StopComes, CallsMade
<1>23. ASSUME TickSnapshot PROVE RunsForReason'
  <2> USE <1>23 DEF TickSnapshot
  <2>1. Runs' = Runs
    BY DEF Runs, Ids, Managed
  <2> QED BY <2>1, RunsAlive DEF RunsForReason, StopComes, CallsMade
<1>24. ASSUME TickWrite PROVE RunsForReason'
  <2> USE <1>24 DEF TickWrite
  <2>1. Runs' = Runs
    BY DEF Runs, Ids, Managed
  <2> SUFFICES ASSUME NEW g \in Magnets \ touched, tstat'[g] \in {"Paused", "Error"},
                      tid[g] \in Runs
               PROVE  StopComes(g)
    BY <2>1 DEF RunsForReason, StopComes
  <2>2. \/ tstat[g] = tstat'[g]
        \/ tstat[g] = "Active" /\ tsnap[g] = "halted" /\ ~resumed
    OBVIOUS
  <2> QED BY <2>2 DEF RunsForReason, HaltsHold, Resuming, StopComes
<1>25. ASSUME TickEnsure PROVE RunsForReason'
  <2> USE <1>25 DEF TickEnsure, EnsureResolvers
  <2>1. Runs' = Runs
    BY DEF Runs, Ids, Managed
  <2>2. \A h \in Magnets : rpc[h] \in {"settle", "pause"} => rpc'[h] = rpc[h]
    BY SpawnsFirst
  <2>3. \A h \in Magnets : StopComes(h) => StopComes(h)'
    BY <2>2 DEF StopComes
  <2> QED BY <2>1, <2>3 DEF RunsForReason
<1>26. ASSUME NEW s \in spawned, Spawned(s) PROVE RunsForReason'
  <2> USE <1>26 DEF Spawned
  <2>1. s[2] \in Ids
    OBVIOUS
  <2>2. Runs' \subseteq Runs
    BY <2>1, RunsAfter
  <2> QED BY <2>2, RunsAlive DEF RunsForReason, StopComes, CallsMade
<1>27. ASSUME ReloadPauseTasks PROVE RunsForReason'
  <2> USE <1>27 DEF ReloadPauseTasks, ReloadAt
  <2>1. Runs' = Runs
    BY DEF Runs, Ids, Managed
  <2> QED BY <2>1, RunsAlive DEF RunsForReason, StopComes, CallsMade
<1>28. ASSUME ReloadGivesUp PROVE RunsForReason'
  <2> USE <1>28 DEF ReloadGivesUp, MarkFailed, ReloadAt
  <2>1. Runs' = Runs
    BY DEF Runs, Ids, Managed
  <2>2. \A h \in Magnets \ touched : tstat'[h] = tstat[h]
    BY DEF ResumesTouched
  <2> QED BY <2>1, <2>2 DEF RunsForReason, StopComes
<1>29. ASSUME NEW g \in Magnets, ReloadPauseTorrent(g) PROVE RunsForReason'
  <2> USE <1>29 DEF ReloadPauseTorrent, PauseNext, MarkFailed, ReloadAt
  <2>1. rids[g] \in Ids \cup {NoId}
    BY DEF CallsMade
  <2>2. Runs' \subseteq Runs
    BY <2>1, RunsAfter
  <2>3. \A h \in Magnets \ touched : tstat'[h] = tstat[h]
    BY DEF ResumesTouched
  <2> QED BY <2>2, <2>3 DEF RunsForReason, StopComes
<1>30. ASSUME ReloadResumeTasks PROVE RunsForReason'
  <2> USE <1>30 DEF ReloadResumeTasks, ReloadAt
  <2>1. Runs' = Runs
    BY DEF Runs, Ids, Managed
  <2> QED BY <2>1, RunsAlive DEF RunsForReason, StopComes, CallsMade
<1>31. ASSUME NEW g \in Magnets, ReloadResume(g) PROVE RunsForReason'
  <2> USE <1>31 DEF ReloadResume, ResumeNext, EnsureResolvers, ReloadAt
  <2>1. rids[g] \in Ids \cup {NoId}
    BY DEF CallsMade
  <2>2. Runs' \subseteq Runs \cup {rids[g]}
    BY <2>1, RunsAfter
  <2>3. \A k \in Magnets : tid[k] \in Runs' /\ k # g => tid[k] \in Runs
    <3> SUFFICES ASSUME NEW k \in Magnets, tid[k] \in Runs', k # g, tid[k] = rids[g] PROVE FALSE
      BY <2>2
    <3>1. tid[k] # NoId
      BY DEF Runs, Ids
    <3> QED BY <3>1, OneOwner
  <2>4. g \in touched
    BY DEF ResumesTouched
  <2>5. \A h \in Magnets : rpc[h] \in {"settle", "pause"} => rpc'[h] = rpc[h]
    BY SpawnsFirst
  <2> QED BY <2>3, <2>4, <2>5 DEF RunsForReason, StopComes
<1>32. ASSUME RollbackTasks PROVE RunsForReason'
  <2> USE <1>32 DEF RollbackTasks, MarkFailed, ReloadAt
  <2>1. Runs' = Runs
    BY DEF Runs, Ids, Managed
  <2>2. \A h \in Magnets \ touched : tstat'[h] = tstat[h]
    BY DEF ResumesTouched
  <2> QED BY <2>1, <2>2 DEF RunsForReason, StopComes
<1>33. ASSUME RollbackPause PROVE RunsForReason'
  <2> USE <1>33 DEF RollbackPause, ReloadAt
  <2>1. Runs' \subseteq Runs
    BY DEF Runs, Ids, Managed
  <2> QED BY <2>1, RunsAlive DEF RunsForReason, StopComes, CallsMade
<1>34. ASSUME NEW i \in Ids,
             TorrentDone(i)
      PROVE  UNCHANGED <<touched, tstat, tid, Runs, rpc, tpc, tgid>>
  BY <1>34 DEF TorrentDone, Runs
<1>35. ASSUME NEW p \in Profiles,
             ReloadStart(p)
      PROVE  UNCHANGED <<touched, tstat, tid, Runs, rpc, tpc, tgid>>
  BY <1>35 DEF ReloadStart, Unlocked, Runs
<1>36. ASSUME ReloadInvalidate \/ ReloadTargets \/ ReloadReconfigure
              \/ ReloadReconfigureFails \/ ReloadOptions \/ ReloadResumeIds
              \/ ReloadResumeFails \/ RollbackRoute
      PROVE  UNCHANGED <<touched, tstat, tid, Runs, rpc, tpc, tgid>>
  BY <1>36 DEF ReloadInvalidate, ReloadTargets, ReloadReconfigure, ReloadReconfigureFails,
               ReloadOptions, ReloadResumeIds, ReloadResumeFails, RollbackRoute, Runs
<1>37. CASE UNCHANGED torrentVars
  BY <1>37 DEF torrentVars, RunsForReason, StopComes, Runs
<1>38. UNCHANGED <<touched, tstat, tid, Runs, rpc, tpc, tgid>> => RunsForReason'
  BY DEF RunsForReason, StopComes, Runs
<1> QED
  BY <1>1, <1>2, <1>3, <1>4, <1>5, <1>6, <1>7, <1>8, <1>9, <1>10, <1>11, <1>12, <1>13, <1>14,
     <1>15, <1>16, <1>17, <1>18, <1>19, <1>20, <1>21, <1>22, <1>23, <1>24, <1>25, <1>26, <1>27,
     <1>28, <1>29, <1>30, <1>31, <1>32, <1>33, <1>34, <1>35, <1>36, <1>37, <1>38
  DEF TorrentsNext, ResolverStep, CallStep, TickStep, ReloadStep

-----------------------------------------------------------------------------
(* The theorems.                                                           *)

(* Nothing is added at first.                                              *)
LEMMA InitInv == TorrentsInit => Inv
<1> SUFFICES ASSUME TorrentsInit PROVE Inv
  OBVIOUS
<1> USE TorrentBounds DEF TorrentsInit
<1>1. profile \in Profiles
  OBVIOUS
<1>2. TypeInv
  BY <1>1 DEF TypeInv, TorrentsTypeOK, ProcessTypes, CallsMade, ResolverPlaces, CallPlaces,
              ReloadPlaces, Snaps, Ids, Calls
<1>3. RouteInv
  BY DEF RouteInv, OnRoute, AddsUnderLock, AddsAtGeneration, SpawnedOnRoute, RoutesKnown,
         PausesExplained
<1>4. OwnerInv
  BY DEF OwnerInv, IdsApart, IdsOf, Alive, Resolving, Before, Removing, Answered
<1>5. RestInv
  BY DEF RestInv, ResumesTouched, SnapsHold, HaltsHold, RunsForReason
<1> QED BY <1>2, <1>3, <1>4, <1>5 DEF Inv

(* Every step keeps the invariant.                                         *)
LEMMA InvKept == Inv /\ [TorrentsNext]_torrentVars => Inv'
<1> SUFFICES ASSUME Inv, [TorrentsNext]_torrentVars PROVE Inv'
  OBVIOUS
<1>1. TypeInv'
  BY TypesKept DEF Inv
<1>2. RouteInv'
  BY LockKept, RoutesKept, PausesKept DEF Inv, RouteInv
<1>3. OwnerInv'
  BY <1>1, OwnerKept DEF Inv
<1>4. RestInv'
  BY TouchedKept, SnapsKept, HaltsKept, RunsKept DEF Inv, RestInv
<1> QED BY <1>1, <1>2, <1>3, <1>4 DEF Inv

(* The invariant implies the first property ...                            *)
LEMMA InvGivesNoOrphan == Inv => NoOrphanTorrent
BY DEF Inv, OwnerInv, Answered, Answers, RemoveCalled, Alive, NoOrphanTorrent

(* ... the second ...                                                      *)
LEMMA InvGivesRest == Inv => StoppedTorrentsRest
<1> SUFFICES ASSUME Inv, NEW g \in Magnets \ touched, tstat[g] \in {"Paused", "Error"},
                    tid[g] # NoId, AtRest(g)
             PROVE  torrent[tid[g]] # "running"
  BY DEF StoppedTorrentsRest, Rests
<1>1. ~StopComes(g)
  BY DEF AtRest, StopComes
<1>2. tid[g] \in Ids
  BY DEF Inv, TypeInv, TorrentsTypeOK
<1> QED BY <1>1, <1>2 DEF Inv, RestInv, RunsForReason, Runs

(* ... and the third.                                                      *)
LEMMA InvGivesClean == Inv => ReloadsEndClean
BY DEF Inv, TypeInv, RouteInv, PausesExplained, RoutesKnown, ReloadsEndClean

(* The invariant holds always.                                             *)
LEMMA TorrentsInvariance == TorrentsSpec => []Inv
BY InitInv, InvKept, PTL DEF TorrentsSpec

(* However resolvers and reloads overlap, spawn_magnet_metadata_resolver   *)
(* adds a torrent only while the session is on the route that the resolver *)
(* was spawned for, unless a rollback changed the route under it.          *)
THEOREM AddsOnCurrentRouteHolds == TorrentsSpec => []AddsOnCurrentRoute
<1>1. Inv => AddsOnCurrentRoute
  BY DEF Inv, TypeInv, ProcessTypes, RouteInv, OnRoute, AddsAtGeneration, SpawnedOnRoute,
         AddsOnCurrentRoute, AddsOn
<1> QED BY <1>1, TorrentsInvariance, PTL

(* However many calls, resolvers and reloads overlap, every torrent of the *)
(* session has a task, a resolver or a remove call that answers for it.    *)
THEOREM NoOrphanTorrentHolds == TorrentsSpec => []NoOrphanTorrent
BY InvGivesNoOrphan, TorrentsInvariance, PTL

(* The torrent of a task that was paused or failed does not run when       *)
(* nobody works on it, unless a reload ever paused the task: overlapping   *)
(* calls of pause and unpause, and statistics that are out of date when    *)
(* the tick applies them, never leave it running.                          *)
THEOREM StoppedTorrentsRestHolds == TorrentsSpec => []StoppedTorrentsRest
BY InvGivesRest, TorrentsInvariance, PTL

(* However a reload_p2p_profile ends, every paused task was paused by a    *)
(* caller or carries the error, and the options name the route in use      *)
(* unless the session refused the rollback.                                *)
THEOREM ReloadsEndCleanHolds == TorrentsSpec => []ReloadsEndClean
BY InvGivesClean, TorrentsInvariance, PTL
=============================================================================
