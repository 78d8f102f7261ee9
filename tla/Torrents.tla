------------------------------ MODULE Torrents ------------------------------
(***************************************************************************)
(* The torrent tasks of manager.rs: magnet resolvers, pause, unpause and   *)
(* remove, the progress tick, and reload_p2p_profile, which moves all of   *)
(* them to another proxy route while they run.  torrent.rs (TorrentEngine) *)
(* is here as far as the manager uses it.                                  *)
(*                                                                         *)
(* Every await is a step.  p2p_reload_lock is held by a reload from begin  *)
(* to end; adding a magnet and spawning resolvers are one step that waits  *)
(* for it.  The magnets have different info hashes, and the torrent engine *)
(* is there from the start.                                                *)
(***************************************************************************)
EXTENDS Naturals, FiniteSets

CONSTANTS
    Magnets,      \* gids of magnet tasks
    NoId,         \* "no value" of the optional fields
    Profiles,     \* proxy profiles
    MaxIds,       \* bound on the torrents the session ever has
    MaxReloads, MaxCalls, MaxFaults    \* bounds

ASSUME TorrentBounds ==
    /\ MaxIds \in Nat /\ MaxReloads \in Nat /\ MaxCalls \in Nat
    /\ MaxFaults \in Nat
    /\ Profiles # {} /\ NoId \notin Magnets \cup (1..MaxIds) \cup Profiles

VARIABLES
    \* the tasks
    tstat, reason,     \* status; tasks with an error_code of a failed reload
    byUser,            \* tasks that a caller paused (history)
    tid,               \* torrent_ids
    \* the torrent engine: state of each torrent, completed ones, next id
    torrent, done, nextId,
    route,             \* the route its session uses
    magGen, routeLock, \* generation of its magnet cache, p2p_route_lock
    \* the resolvers
    pending,           \* pending_magnets
    rpc, rgen, rmag, rid,
    rroute,            \* the route of the session when a resolver was spawned (history)
    stranded,          \* resolvers under which a rollback changed the route (history)
    \* the manager's side of the route
    profile, routeGen, \* the options, p2p_route_generation
    rl, old, target, ract, todo, rids, \* reload_p2p_profile and its locals
    touched,           \* tasks that some reload paused (history)
    dirtyRoute,        \* a rollback could not restore the route
    \* callers, the tick, and the tasks it spawned
    tpc, tgid, tickpc, tsnap, spawned,
    resumed,           \* torrent_resume_seq was bumped since the tick read it
    reloads, calls, faults

taskVars   == <<tstat, reason, byUser, tid>>
btVars     == <<torrent, done, nextId, route, magGen, routeLock>>
spawnVars  == <<rgen, rmag, rroute, stranded>>
resVars    == <<pending, rpc, rid, spawnVars>>
reloadVars == <<profile, routeGen, rl, old, target, ract, todo, rids, touched, dirtyRoute,
                reloads>>
callVars   == <<tpc, tgid, calls>>
tickVars   == <<tickpc, tsnap, spawned>>
torrentVars == <<taskVars, btVars, resVars, reloadVars, callVars, tickVars, resumed, faults>>

-----------------------------------------------------------------------------
Ids == 1..MaxIds
Calls == 1..MaxCalls                          \* a call is a process of its own
Unlocked == rl = "idle"                       \* p2p_reload_lock
Managed(i) == i # NoId /\ torrent[i] # "none"
ResAt(g, l) == rpc' = [rpc EXCEPT ![g] = l]
ReloadAt(l) == rl' = l
CallAt(c, l) ==
    /\ tpc' = [tpc EXCEPT ![c] = l]
    /\ tgid' = [tgid EXCEPT ![c] = IF l = "idle" THEN NoId ELSE @]

(* Session::pause, unpause and delete; an unknown id is an error.          *)
Paused(i) == IF Managed(i) THEN [torrent EXCEPT ![i] = "paused"] ELSE torrent
Running(i) == IF Managed(i) THEN [torrent EXCEPT ![i] = "running"] ELSE torrent
Deleted(i) == IF Managed(i) THEN [torrent EXCEPT ![i] = "none"] ELSE torrent
Delete(i) == torrent' = Deleted(i) /\ done' = done \ {i}

(* ensure_active_magnet_resolvers_unlocked and the first half of           *)
(* spawn_magnet_metadata_resolver: a resolver, with the generations of     *)
(* this moment, for every active magnet without a torrent.                 *)
Unresolved == {g \in Magnets : tstat[g] = "Active" /\ tid[g] = NoId /\ g \notin pending}
EnsureResolvers(S) ==
    /\ pending' = pending \cup S
    /\ rpc' = [g \in Magnets |-> IF g \in S THEN "check" ELSE rpc[g]]
    /\ rgen' = [g \in Magnets |-> IF g \in S THEN routeGen ELSE rgen[g]]
    /\ rmag' = [g \in Magnets |-> IF g \in S THEN magGen ELSE rmag[g]]
    /\ rroute' = [g \in Magnets |-> IF g \in S THEN route ELSE rroute[g]]
    /\ stranded' = stranded \ S
    /\ UNCHANGED rid

TorrentsInit ==
    /\ tstat = [g \in Magnets |-> "Absent"] /\ reason = {} /\ byUser = {}
    /\ tid = [g \in Magnets |-> NoId]
    /\ torrent = [i \in Ids |-> "none"] /\ done = {} /\ nextId = 1
    /\ profile = (CHOOSE p \in Profiles : TRUE) /\ route = profile
    /\ magGen = 0 /\ routeLock = NoId
    /\ pending = {} /\ rpc = [g \in Magnets |-> "none"]
    /\ rgen = [g \in Magnets |-> 0] /\ rmag = [g \in Magnets |-> 0]
    /\ rid = [g \in Magnets |-> NoId]
    /\ rroute = [g \in Magnets |-> NoId] /\ stranded = {}
    /\ routeGen = 0 /\ rl = "idle" /\ old = profile /\ target = profile /\ ract = {} /\ todo = {}
    /\ rids = [g \in Magnets |-> NoId] /\ touched = {}
    /\ dirtyRoute = FALSE
    /\ tpc = [c \in Calls |-> "idle"] /\ tgid = [c \in Calls |-> NoId]
    /\ tickpc = "idle" /\ tsnap = [g \in Magnets |-> "none"] /\ resumed = FALSE
    /\ spawned = {}
    /\ reloads = 0 /\ calls = 0 /\ faults = 0

-----------------------------------------------------------------------------
(* add_magnet_task; a task that is added paused gets no resolver.  (One    *)
(* with an address that cannot be read is an error from the start, and not *)
(* here.)                                                                  *)
AddMagnet(g, s) ==
    /\ Unlocked /\ tstat[g] = "Absent"
    /\ tstat' = [tstat EXCEPT ![g] = s]
    /\ byUser' = IF s = "Paused" THEN byUser \cup {g} ELSE byUser
    /\ EnsureResolvers(IF s = "Active" THEN {g} ELSE {})
    /\ UNCHANGED <<reason, tid, btVars, reloadVars, callVars, tickVars, resumed, faults>>

-----------------------------------------------------------------------------
(* The resolver of a magnet.                                               *)

ResolveEnds(g) == ResAt(g, "end")

(* The head of the loop: the route is still the one the resolver was       *)
(* spawned for, and the task still is a live magnet.                       *)
ResolveCheck(g) ==
    /\ rpc[g] = "check"
    /\ ResAt(g, IF rgen[g] = routeGen /\ tstat[g] = "Active" THEN "resolve" ELSE "end")
    /\ UNCHANGED <<taskVars, btVars, pending, spawnVars, rid, reloadVars, callVars, tickVars,
                   resumed, faults>>

(* resolve_and_add_magnet_at_generation up to the route lock: metadata     *)
(* found, or a stale generation.                                           *)
Resolve(g) ==
    /\ rpc[g] = "resolve"
    /\ ResAt(g, IF rmag[g] = magGen THEN "lock" ELSE "end")
    /\ UNCHANGED <<taskVars, btVars, pending, spawnVars, rid, reloadVars, callVars, tickVars,
                   resumed, faults>>

(* It fails; another attempt follows, or the task becomes an error.        *)
ResolveFails(g) ==
    /\ rpc[g] = "resolve" /\ faults < MaxFaults
    /\ faults' = faults + 1
    /\ \/ ResAt(g, "check") /\ UNCHANGED tstat
       \/ /\ ResAt(g, "end")
          /\ tstat' = [tstat EXCEPT ![g] = IF @ = "Active" THEN "Error" ELSE @]
    /\ UNCHANGED <<reason, byUser, tid, btVars, pending, spawnVars, rid, reloadVars, callVars,
                   tickVars, resumed>>

(* Mutant: the cancellation is not looked at again.                        *)
ResolveLockUnchecked(g) ==
    /\ rpc[g] = "lock" /\ routeLock = NoId
    /\ routeLock' = g /\ ResAt(g, "adding")
    /\ UNCHANGED <<taskVars, torrent, done, nextId, route, magGen, pending, spawnVars, rid,
                   reloadVars, callVars, tickVars, resumed, faults>>

(* Under p2p_route_lock the cancellation of the generation is looked at    *)
(* once more; the lock is kept while the torrent is added.                 *)
ResolveLock(g) ==
    /\ rpc[g] = "lock" /\ routeLock = NoId
    /\ IF rmag[g] = magGen
         THEN routeLock' = g /\ ResAt(g, "adding")
         ELSE ResolveEnds(g) /\ UNCHANGED routeLock
    /\ UNCHANGED <<taskVars, torrent, done, nextId, route, magGen, pending, spawnVars, rid,
                   reloadVars, callVars, tickVars, resumed, faults>>

ResolveAdd(g) ==
    /\ rpc[g] = "adding" /\ nextId <= MaxIds
    /\ torrent' = [torrent EXCEPT ![nextId] = "running"]
    /\ rid' = [rid EXCEPT ![g] = nextId]
    /\ nextId' = nextId + 1
    /\ routeLock' = NoId
    /\ ResAt(g, "added")
    /\ UNCHANGED <<taskVars, done, route, magGen, pending, spawnVars, reloadVars, callVars,
                   tickVars, resumed, faults>>

(* A route that changed gives the torrent back ...                         *)
ResolveCurrent(g) ==
    /\ rpc[g] = "added"
    /\ IF rgen[g] = routeGen
         THEN ResAt(g, "attach") /\ UNCHANGED <<torrent, done>>
         ELSE ResolveEnds(g) /\ Delete(rid[g])
    /\ UNCHANGED <<taskVars, nextId, route, magGen, routeLock, pending, spawnVars, rid,
                   reloadVars, callVars, tickVars, resumed, faults>>

(* Mutant: the resolver of a task that has gone leaves its torrent.        *)
ResolveAttachLeaves(g) ==
    /\ rpc[g] = "attach"
    /\ ResAt(g, IF tstat[g] = "Active" THEN "remember" ELSE "end")
    /\ UNCHANGED <<taskVars, btVars, pending, spawnVars, rid, reloadVars, callVars, tickVars,
                   resumed, faults>>

(* ... and so does a task that is no longer live.                          *)
ResolveAttach(g) ==
    /\ rpc[g] = "attach"
    /\ IF tstat[g] = "Active"
         THEN ResAt(g, "remember") /\ UNCHANGED <<torrent, done>>
         ELSE ResolveEnds(g) /\ Delete(rid[g])
    /\ UNCHANGED <<taskVars, nextId, route, magGen, routeLock, pending, spawnVars, rid,
                   reloadVars, callVars, tickVars, resumed, faults>>

(* remember_torrent_id_in: mappings to torrents the session does not know  *)
(* are dropped, and their active tasks are complete.                       *)
Remember(g) ==
    /\ rpc[g] = "remember"
    /\ LET lost == {h \in Magnets \ {g} : tid[h] # NoId /\ ~Managed(tid[h])} IN
         /\ tid' = [h \in Magnets |-> IF h = g THEN rid[g]
                                      ELSE IF h \in lost THEN NoId ELSE tid[h]]
         /\ tstat' = [h \in Magnets |-> IF h \in lost /\ tstat[h] = "Active"
                                        THEN "Complete" ELSE tstat[h]]
    /\ ResAt(g, "settle")
    /\ UNCHANGED <<reason, byUser, btVars, pending, spawnVars, rid, reloadVars, callVars,
                   tickVars, resumed, faults>>

(* The status is read again: a task paused meanwhile pauses its torrent,   *)
(* one that is gone takes it along.                                        *)
Settle(g) ==
    /\ rpc[g] = "settle"
    /\ \/ tstat[g] = "Active" /\ ResolveEnds(g) /\ UNCHANGED <<tid, torrent, done>>
       \/ tstat[g] = "Paused" /\ ResAt(g, "pause") /\ UNCHANGED <<tid, torrent, done>>
       \/ /\ tstat[g] \notin {"Active", "Paused"}
          /\ ResolveEnds(g)
          /\ tid' = [tid EXCEPT ![g] = NoId]
          /\ Delete(rid[g])
    /\ UNCHANGED <<tstat, reason, byUser, nextId, route, magGen, routeLock, pending,
                   spawnVars, rid, reloadVars, callVars, tickVars, resumed, faults>>

ResolvePause(g) ==
    /\ rpc[g] = "pause"
    /\ torrent' = Paused(rid[g])
    /\ ResolveEnds(g)
    /\ UNCHANGED <<taskVars, done, nextId, route, magGen, routeLock, pending, spawnVars, rid,
                   reloadVars, callVars, tickVars, resumed, faults>>

(* Mutant: a resolver that found the route changed stays in the list.      *)
ResolveDoneStale(g) ==
    /\ rpc[g] = "end"
    /\ pending' = IF rgen[g] = routeGen THEN pending \ {g} ELSE pending
    /\ rpc' = [rpc EXCEPT ![g] = "none"] /\ rid' = [rid EXCEPT ![g] = NoId]
    /\ rgen' = [rgen EXCEPT ![g] = 0] /\ rmag' = [rmag EXCEPT ![g] = 0]
    /\ rroute' = [rroute EXCEPT ![g] = NoId] /\ stranded' = stranded \ {g}
    /\ UNCHANGED <<taskVars, btVars, reloadVars, callVars, tickVars, resumed, faults>>

ResolveDone(g) ==
    /\ rpc[g] = "end"
    /\ pending' = pending \ {g}
    /\ rpc' = [rpc EXCEPT ![g] = "none"] /\ rid' = [rid EXCEPT ![g] = NoId]
    /\ rgen' = [rgen EXCEPT ![g] = 0] /\ rmag' = [rmag EXCEPT ![g] = 0]
    /\ rroute' = [rroute EXCEPT ![g] = NoId] /\ stranded' = stranded \ {g}
    /\ UNCHANGED <<taskVars, btVars, reloadVars, callVars, tickVars, resumed, faults>>

ResolverStep(g) ==
    \/ ResolveCheck(g) \/ Resolve(g) \/ ResolveFails(g) \/ ResolveLock(g) \/ ResolveAdd(g)
    \/ ResolveCurrent(g) \/ ResolveAttach(g) \/ Remember(g) \/ Settle(g) \/ ResolvePause(g)
    \/ ResolveDone(g)

-----------------------------------------------------------------------------
(* The calls: pause, unpause and remove of a torrent task.                 *)

Call(c, g, l) ==
    /\ c = calls + 1
    /\ calls' = c
    /\ tpc' = [tpc EXCEPT ![c] = l]
    /\ tgid' = [tgid EXCEPT ![c] = g]

(* A task that is not active keeps its status and the caller gets an       *)
(* error, but its torrent is paused all the same.                          *)
PauseTask(c, g) ==
    /\ tstat[g] # "Absent"
    /\ Call(c, g, "pause")
    /\ IF tstat[g] = "Active"
         THEN /\ tstat' = [tstat EXCEPT ![g] = "Paused"]
              /\ byUser' = byUser \cup {g}
         ELSE UNCHANGED <<tstat, byUser>>
    /\ UNCHANGED <<reason, tid, btVars, resVars, reloadVars, tickVars, resumed, faults>>

(* torrent_target is looked up after the status was written.               *)
PauseTorrent(c) ==
    /\ tpc[c] = "pause"
    /\ torrent' = Paused(tid[tgid[c]])
    /\ CallAt(c, "idle")
    /\ UNCHANGED <<taskVars, done, nextId, route, magGen, routeLock, resVars, reloadVars, calls,
                   tickVars, resumed, faults>>

UnpauseCheck(c, g) ==
    /\ tstat[g] \in {"Paused", "Error"}
    /\ Call(c, g, "unpause")
    /\ UNCHANGED <<taskVars, btVars, resVars, reloadVars, tickVars, resumed, faults>>

UnpauseTorrent(c) ==
    /\ tpc[c] = "unpause"
    /\ torrent' = Running(tid[tgid[c]])
    /\ CallAt(c, "resumeSeq")
    /\ UNCHANGED <<taskVars, done, nextId, route, magGen, routeLock, resVars, reloadVars, calls,
                   tickVars, resumed, faults>>

(* torrent_resume_seq tells a tick that its statistics are out of date.    *)
BumpResumeSeq(c) ==
    /\ tpc[c] = "resumeSeq"
    /\ resumed' = (tickpc = "write")
    /\ CallAt(c, "unpauseWrite")
    /\ UNCHANGED <<taskVars, btVars, resVars, reloadVars, calls, tickVars, faults>>

UnpauseWrite(c) ==
    /\ tpc[c] = "unpauseWrite"
    /\ LET g == tgid[c] IN
         IF tstat[g] \in {"Paused", "Error"}
           THEN /\ tstat' = [tstat EXCEPT ![g] = "Active"]
                /\ reason' = reason \ {g} /\ byUser' = byUser \ {g}
                /\ CallAt(c, IF tid[g] = NoId THEN "ensure" ELSE "idle")
           ELSE CallAt(c, "idle") /\ UNCHANGED <<tstat, reason, byUser>>
    /\ UNCHANGED <<tid, btVars, resVars, reloadVars, calls, tickVars, resumed, faults>>

UnpauseEnsure(c) ==
    /\ tpc[c] = "ensure" /\ Unlocked
    /\ EnsureResolvers(Unresolved)
    /\ CallAt(c, "idle")
    /\ UNCHANGED <<taskVars, btVars, reloadVars, calls, tickVars, resumed, faults>>

RemoveTask(c, g) ==
    /\ tstat[g] \notin {"Absent", "Removed"}
    /\ Call(c, g, "remove")
    /\ tstat' = [tstat EXCEPT ![g] = "Removed"]
    /\ UNCHANGED <<reason, byUser, tid, btVars, resVars, reloadVars, tickVars, resumed, faults>>

RemoveTorrent(c) ==
    /\ tpc[c] = "remove"
    /\ Delete(tid[tgid[c]])
    /\ CallAt(c, "forget")
    /\ UNCHANGED <<taskVars, nextId, route, magGen, routeLock, resVars, reloadVars, calls,
                   tickVars, resumed, faults>>

RemoveForget(c) ==
    /\ tpc[c] = "forget"
    /\ tid' = [tid EXCEPT ![tgid[c]] = NoId]
    /\ pending' = pending \ {tgid[c]}
    /\ CallAt(c, "idle")
    /\ UNCHANGED <<tstat, reason, byUser, btVars, rpc, spawnVars, rid, reloadVars, calls,
                   tickVars, resumed, faults>>

CallStep(c) ==
    \/ PauseTorrent(c) \/ UnpauseTorrent(c) \/ BumpResumeSeq(c) \/ UnpauseWrite(c)
    \/ UnpauseEnsure(c) \/ RemoveTorrent(c) \/ RemoveForget(c)

-----------------------------------------------------------------------------
(* The torrents themselves: they complete, or halt on a write error.       *)
TorrentDone(i) ==
    /\ torrent[i] = "running" /\ i \notin done
    /\ done' = done \cup {i}
    /\ UNCHANGED <<taskVars, torrent, nextId, route, magGen, routeLock, resVars, reloadVars,
                   callVars, tickVars, resumed, faults>>
TorrentHalts(i) ==
    /\ torrent[i] = "running" /\ i \notin done /\ faults < MaxFaults
    /\ faults' = faults + 1
    /\ torrent' = [torrent EXCEPT ![i] = "halted"]
    /\ UNCHANGED <<taskVars, done, nextId, route, magGen, routeLock, resVars, reloadVars,
                   callVars, tickVars, resumed>>

(* update_progress: torrent_resume_seq and the statistics of the active    *)
(* torrents are read ...                                                   *)
TickSnapshot ==
    /\ tickpc = "idle"
    /\ \E g \in Magnets : tstat[g] = "Active"
    /\ tsnap' = [g \in Magnets |->
                   IF tstat[g] # "Active" \/ ~Managed(tid[g]) THEN "none"
                   ELSE IF tid[g] \in done THEN "done" ELSE torrent[tid[g]]]
    /\ tickpc' = "write"
    /\ UNCHANGED <<taskVars, btVars, resVars, reloadVars, callVars, spawned, resumed, faults>>

(* Mutant: errors are taken from the statistics however old they are.      *)
TickWriteOld ==
    /\ tickpc = "write"
    /\ \E keep \in SUBSET Magnets :
         LET bad  == {g \in Magnets : tstat[g] = "Active" /\ tsnap[g] = "halted"}
             over == {g \in Magnets \ keep : tstat[g] = "Active" /\ tsnap[g] = "done"}
         IN  /\ tstat' = [g \in Magnets |-> IF g \in bad THEN "Error"
                                            ELSE IF g \in over THEN "Complete" ELSE tstat[g]]
             /\ spawned' = spawned
                  \cup {<<"pauseIfHalted", tid[g]>> : g \in {h \in bad : tid[h] # NoId}}
                  \cup {<<"pause", tid[g]>> : g \in {h \in over : tid[h] # NoId}}
    /\ tickpc' = "ensure"
    /\ tsnap' = [g \in Magnets |-> "none"] /\ resumed' = FALSE
    /\ UNCHANGED <<reason, byUser, tid, btVars, resVars, reloadVars, callVars, faults>>

(* ... and applied later: an error unless some torrent was resumed since,  *)
(* a completion unless the task goes on seeding (keep).  The torrents are  *)
(* paused by spawned tasks.                                                *)
TickWrite ==
    /\ tickpc = "write"
    /\ \E keep \in SUBSET Magnets :
         LET bad  == {g \in Magnets : tstat[g] = "Active" /\ tsnap[g] = "halted" /\ ~resumed}
             over == {g \in Magnets \ keep : tstat[g] = "Active" /\ tsnap[g] = "done"}
         IN  /\ tstat' = [g \in Magnets |-> IF g \in bad THEN "Error"
                                            ELSE IF g \in over THEN "Complete" ELSE tstat[g]]
             /\ spawned' = spawned
                  \cup {<<"pauseIfHalted", tid[g]>> : g \in {h \in bad : tid[h] # NoId}}
                  \cup {<<"pause", tid[g]>> : g \in {h \in over : tid[h] # NoId}}
    /\ tickpc' = "ensure"
    /\ tsnap' = [g \in Magnets |-> "none"] /\ resumed' = FALSE
    /\ UNCHANGED <<reason, byUser, tid, btVars, resVars, reloadVars, callVars, faults>>

TickEnsure ==
    /\ tickpc = "ensure" /\ Unlocked
    /\ EnsureResolvers(Unresolved)
    /\ tickpc' = "idle"
    /\ UNCHANGED <<taskVars, btVars, reloadVars, callVars, tsnap, spawned, resumed, faults>>

Spawned(s) ==
    /\ s \in spawned
    /\ spawned' = spawned \ {s}
    /\ torrent' = IF s[1] = "pause" \/ torrent[s[2]] = "halted" THEN Paused(s[2]) ELSE torrent
    /\ UNCHANGED <<taskVars, done, nextId, route, magGen, routeLock, resVars, reloadVars,
                   callVars, tickpc, tsnap, resumed, faults>>

-----------------------------------------------------------------------------
(* reload_p2p_profile, with p2p_reload_lock held until rl is idle again.   *)

ReloadStart(p) ==
    /\ Unlocked /\ reloads < MaxReloads
    /\ p # profile
    /\ reloads' = reloads + 1
    /\ old' = profile /\ target' = p
    /\ routeGen' = routeGen + 1
    /\ ReloadAt("pauseTasks")
    /\ UNCHANGED <<taskVars, btVars, resVars, profile, ract, todo, rids, dirtyRoute, touched,
                   callVars, tickVars, resumed, faults>>

ReloadPauseTasks ==
    /\ rl = "pauseTasks"
    /\ ract' = {g \in Magnets : tstat[g] = "Active"}
    /\ tstat' = [g \in Magnets |-> IF g \in ract' THEN "Paused" ELSE tstat[g]]
    /\ touched' = touched \cup ract'
    /\ ReloadAt("invalidate")
    /\ UNCHANGED <<reason, byUser, tid, btVars, resVars, profile, routeGen, old, target, todo,
                   rids, dirtyRoute, reloads, callVars, tickVars, resumed, faults>>

(* invalidate_magnet_resolutions waits for a resolver that is adding.      *)
ReloadInvalidate ==
    /\ rl = "invalidate" /\ routeLock = NoId
    /\ magGen' = magGen + 1
    /\ ReloadAt("connector")
    /\ UNCHANGED <<taskVars, torrent, done, nextId, route, routeLock, resVars, profile, routeGen,
                   old, target, ract, todo, rids, dirtyRoute, reloads, touched, callVars,
                   tickVars, resumed, faults>>

(* mark_p2p_reload_failed.                                                 *)
MarkFailed ==
    LET hit == {g \in ract : tstat[g] \in {"Active", "Paused"}} IN
    /\ tstat' = [g \in Magnets |-> IF g \in hit THEN "Paused" ELSE tstat[g]]
    /\ reason' = reason \cup hit

(* An invalid proxy, a torrent that cannot be paused, or a DHT or Kad      *)
(* runtime that cannot be built: the old route stays, the tasks are told.  *)
ReloadGivesUp ==
    /\ rl \in {"connector", "pauseTorrents", "swap"} /\ faults < MaxFaults
    /\ faults' = faults + 1
    /\ MarkFailed
    /\ ReloadAt("idle")
    /\ UNCHANGED <<byUser, tid, btVars, resVars, profile, routeGen, old, target, ract, todo, rids,
                   dirtyRoute, reloads, touched, callVars, tickVars, resumed>>

(* The ids of the torrents are copied, then they are paused one by one; an *)
(* id that the session does not know ends the reload.                      *)
PauseNext(left) == ReloadAt(IF left = {} THEN "swap" ELSE "pauseTorrents")
ReloadTargets ==
    /\ rl = "connector"
    /\ rids' = tid
    /\ todo' = {g \in ract : tid[g] # NoId}
    /\ PauseNext(todo')
    /\ UNCHANGED <<taskVars, btVars, resVars, profile, routeGen, old, target, ract, dirtyRoute,
                   reloads, touched, callVars, tickVars, resumed, faults>>
ReloadPauseTorrent(g) ==
    /\ rl = "pauseTorrents" /\ g \in todo
    /\ torrent' = Paused(rids[g])
    /\ todo' = todo \ {g}
    /\ IF Managed(rids[g])
         THEN PauseNext(todo') /\ UNCHANGED <<tstat, reason>>
         ELSE MarkFailed /\ ReloadAt("idle")
    /\ UNCHANGED <<byUser, tid, done, nextId, route, magGen, routeLock, resVars, profile,
                   routeGen, old, target, ract, rids, dirtyRoute, reloads, touched, callVars,
                   tickVars, resumed, faults>>

(* reconfigure_p2p_proxy moves the session to the new route, or fails      *)
(* with the session on either.                                             *)
ReloadReconfigure ==
    /\ rl = "swap" /\ routeLock = NoId
    /\ route' = target
    /\ ReloadAt("options")
    /\ UNCHANGED <<taskVars, torrent, done, nextId, magGen, routeLock, resVars, profile, routeGen,
                   old, target, ract, todo, rids, dirtyRoute, reloads, touched, callVars,
                   tickVars, resumed, faults>>
ReloadReconfigureFails ==
    /\ rl = "swap" /\ routeLock = NoId /\ faults < MaxFaults
    /\ faults' = faults + 1
    /\ route' \in {route, target}
    /\ ReloadAt("rollback")
    /\ UNCHANGED <<taskVars, torrent, done, nextId, magGen, routeLock, resVars, profile, routeGen,
                   old, target, ract, todo, rids, dirtyRoute, reloads, touched, callVars,
                   tickVars, resumed>>

ReloadOptions ==
    /\ rl = "options"
    /\ profile' = target
    /\ ReloadAt("resumeTasks")
    /\ UNCHANGED <<taskVars, btVars, resVars, routeGen, old, target, ract, todo, rids, dirtyRoute,
                   reloads, touched, callVars, tickVars, resumed, faults>>

ReloadResumeTasks ==
    /\ rl = "resumeTasks"
    /\ todo' = {g \in ract : tstat[g] = "Paused"}
    /\ tstat' = [g \in Magnets |-> IF g \in todo' THEN "Active" ELSE tstat[g]]
    /\ reason' = reason \ todo'
    /\ ReloadAt("resumeIds")
    /\ UNCHANGED <<byUser, tid, btVars, resVars, profile, routeGen, old, target, ract, rids,
                   dirtyRoute, reloads, touched, callVars, tickVars, resumed, faults>>

(* The torrents are resumed one by one, under the ids of this moment; a    *)
(* task without one gets a resolver, and a torrent that cannot be resumed  *)
(* undoes the reload.                                                      *)
ResumeNext(left) == ReloadAt(IF left = {} THEN "idle" ELSE "resume")
ReloadResumeIds ==
    /\ rl = "resumeIds"
    /\ rids' = tid
    /\ ResumeNext(todo)
    /\ UNCHANGED <<taskVars, btVars, resVars, profile, routeGen, old, target, ract, todo,
                   dirtyRoute, reloads, touched, callVars, tickVars, resumed, faults>>
ReloadResume(g) ==
    /\ rl = "resume" /\ g \in todo
    /\ todo' = todo \ {g}
    /\ IF rids[g] = NoId
         THEN EnsureResolvers(Unresolved) /\ UNCHANGED torrent /\ ResumeNext(todo')
         ELSE /\ torrent' = Running(rids[g])
              /\ IF Managed(rids[g]) THEN ResumeNext(todo') ELSE ReloadAt("rollback")
              /\ UNCHANGED resVars
    /\ UNCHANGED <<taskVars, done, nextId, route, magGen, routeLock, profile, routeGen, old,
                   target, ract, rids, dirtyRoute, reloads, touched, callVars, tickVars, resumed,
                   faults>>
ReloadResumeFails ==
    /\ rl = "resume" /\ (\E g \in todo : rids[g] # NoId) /\ faults < MaxFaults
    /\ faults' = faults + 1
    /\ ReloadAt("rollback")
    /\ UNCHANGED <<taskVars, btVars, resVars, profile, routeGen, old, target, ract, todo, rids,
                   dirtyRoute, reloads, touched, callVars, tickVars, resumed>>

(* rollback_p2p_reload: the tasks are told, their torrents paused ...      *)
RollbackTasks ==
    /\ rl = "rollback"
    /\ MarkFailed
    /\ ReloadAt("rbPause")
    /\ UNCHANGED <<byUser, tid, btVars, resVars, profile, routeGen, old, target, ract, todo, rids,
                   dirtyRoute, reloads, touched, callVars, tickVars, resumed, faults>>
RollbackPause ==
    /\ rl = "rbPause"
    /\ LET ids == {tid[g] : g \in ract} IN
         torrent' = [i \in Ids |-> IF i \in ids /\ Managed(i) THEN "paused" ELSE torrent[i]]
    /\ ReloadAt("rbRoute")
    /\ UNCHANGED <<taskVars, done, nextId, route, magGen, routeLock, resVars, profile, routeGen,
                   old, target, ract, todo, rids, dirtyRoute, reloads, touched, callVars,
                   tickVars, resumed, faults>>

(* History: no generation is bumped when the route goes back, so nothing   *)
(* stops the resolvers that the reload had spawned.                        *)
Strand ==
    stranded' = IF route' = route THEN stranded
                ELSE stranded \cup {g \in Magnets : rpc[g] # "none"}

(* Mutant: the options keep the profile that failed.                       *)
RollbackRouteOnly ==
    /\ rl = "rbRoute" /\ routeLock = NoId
    /\ route' = old /\ UNCHANGED <<dirtyRoute, faults, profile>>
    /\ Strand
    /\ ReloadAt("idle")
    /\ UNCHANGED <<taskVars, torrent, done, nextId, magGen, routeLock, pending, rpc, rgen, rmag,
                   rid, rroute, routeGen, old, target, ract, todo, rids, reloads, touched,
                   callVars, tickVars, resumed>>

(* ... and the session and the options go back to the old profile.  The    *)
(* session may refuse.                                                     *)
RollbackRoute ==
    /\ rl = "rbRoute" /\ routeLock = NoId
    /\ \/ route' = old /\ UNCHANGED <<dirtyRoute, faults>>
       \/ /\ faults < MaxFaults /\ faults' = faults + 1
          /\ dirtyRoute' = TRUE /\ UNCHANGED route
    /\ Strand
    /\ profile' = old
    /\ ReloadAt("idle")
    /\ UNCHANGED <<taskVars, torrent, done, nextId, magGen, routeLock, pending, rpc, rgen, rmag,
                   rid, rroute, routeGen, old, target, ract, todo, rids, reloads, touched,
                   callVars, tickVars, resumed>>

ReloadStep ==
    \/ ReloadPauseTasks \/ ReloadInvalidate \/ ReloadGivesUp \/ ReloadTargets
    \/ (\E g \in Magnets : ReloadPauseTorrent(g))
    \/ ReloadReconfigure \/ ReloadReconfigureFails \/ ReloadOptions \/ ReloadResumeTasks
    \/ ReloadResumeIds \/ (\E g \in Magnets : ReloadResume(g)) \/ ReloadResumeFails
    \/ RollbackTasks \/ RollbackPause \/ RollbackRoute

-----------------------------------------------------------------------------
TickStep == TickSnapshot \/ TickWrite \/ TickEnsure

TorrentsNext ==
    \/ \E g \in Magnets : ResolverStep(g)
    \/ \E g \in Magnets, s \in {"Active", "Paused"} : AddMagnet(g, s)
    \/ \E c \in Calls : CallStep(c)
    \/ \E c \in Calls, g \in Magnets : PauseTask(c, g) \/ UnpauseCheck(c, g) \/ RemoveTask(c, g)
    \/ \E i \in Ids : TorrentDone(i) \/ TorrentHalts(i)
    \/ TickStep \/ ReloadStep
    \/ \E s \in spawned : Spawned(s)
    \/ \E p \in Profiles : ReloadStart(p)

(* Spawned tasks, the tick and a reload that began run on.  Resolution     *)
(* fails at most MaxFaults times.                                          *)
TorrentsFairness ==
    /\ \A g \in Magnets : WF_torrentVars(ResolverStep(g))
    /\ WF_torrentVars(ReloadStep)
    /\ WF_torrentVars(TickSnapshot \/ TickWrite) /\ SF_torrentVars(TickEnsure)

TorrentsSpec == TorrentsInit /\ [][TorrentsNext]_torrentVars /\ TorrentsFairness

-----------------------------------------------------------------------------
TorrentsTypeOK ==
    /\ tstat \in [Magnets -> {"Absent", "Active", "Paused", "Complete", "Error", "Removed"}]
    /\ tid \in [Magnets -> Ids \cup {NoId}] /\ rid \in [Magnets -> Ids \cup {NoId}]
    /\ torrent \in [Ids -> {"none", "running", "paused", "halted"}]
    /\ pending \subseteq Magnets /\ ract \subseteq Magnets /\ todo \subseteq Magnets
    /\ routeLock \in Magnets \cup {NoId}
    /\ {profile, route, old, target} \subseteq Profiles

(* A resolver adds its torrent on the route it was spawned for: a reload   *)
(* does not change the route under it, because the generation of the       *)
(* magnet cache is compared under p2p_route_lock.  The resolvers that a    *)
(* rollback overtook are left out ...                                      *)
AddsOn(S) == \A g \in S : rpc[g] = "adding" => rroute[g] = route
AddsOnCurrentRoute == AddsOn(Magnets \ stranded)

(* ... and here they are not.                                              *)
NeverAddsOnOldRoute == AddsOn(Magnets)

(* The session has no torrent that no task, no resolver and no remove call *)
(* answers for, whatever pause, remove and reload did while it was added.  *)
NoOrphanTorrent ==
    \A i \in Ids : torrent[i] # "none" =>
        \E g \in Magnets :
            \/ rid[g] = i /\ rpc[g] \in {"added", "attach", "remember", "settle"}
            \/ tid[g] = i /\ (tstat[g] # "Removed" \/ rpc[g] = "settle"
                               \/ \E c \in Calls : tpc[c] = "remove" /\ tgid[c] = g)

(* When nobody works on a task that was paused or failed, its torrent does *)
(* not run: not after overlapping calls, a stale statistic or a spawned    *)
(* pause.  Tasks that a reload paused at some time are left out here.      *)
AtRest(g) ==
    /\ rl = "idle" /\ rpc[g] = "none" /\ tickpc = "idle" /\ spawned = {}
    /\ \A c \in Calls : tpc[c] = "idle"
Rests(g) ==
    (tstat[g] \in {"Paused", "Error"} /\ tid[g] # NoId /\ AtRest(g))
        => torrent[tid[g]] # "running"
StoppedTorrentsRest == \A g \in Magnets \ touched : Rests(g)

(* The same without the exception: what pause tells its caller.            *)
PausedTorrentsRest == \A g \in byUser : Rests(g)

(* A reload that has ended, well or rolled back, leaves no task paused     *)
(* without a word: a caller paused it, or it carries the error of the      *)
(* reload.  And the options name the route that the session uses, unless   *)
(* the session refused the rollback.                                       *)
ReloadsEndClean ==
    /\ TorrentsTypeOK
    /\ rl = "idle" =>
          /\ \A g \in Magnets : tstat[g] = "Paused" => g \in byUser \cup reason
          /\ ~dirtyRoute => route = profile

(* A live magnet gets its torrent although resolutions fail and reloads    *)
(* throw its resolver out: pending_magnets never blocks it for good.       *)
MagnetsResolve ==
    \A g \in Magnets : tstat[g] = "Active" /\ tid[g] = NoId ~> tid[g] # NoId \/ tstat[g] # "Active"
=============================================================================
