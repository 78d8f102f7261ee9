# A TLA+ model of the Risuko download engine

Risuko is a download manager: a Rust engine (`src/src-tauri/`) that downloads over
HTTP, FTP, BitTorrent, eD2k, Usenet and HLS, and several front ends (a Tauri desktop
application with a Vue user interface, a command line, a Node binding, an aria2-style
JSON-RPC server).  This directory holds TLA+ modules translated from the engine's
source, the TLC configurations that check them on small instances, and proofs that TLAPS
checks for every instance.

The core that every front end shares is `TaskManager` in
`risuko-engine/src/engine/manager.rs`: the task list, the queue, the workers, and the
session file that brings the list back after a restart.  Around it are modelled the engine
that starts and stops it, the uploads of finished files, torrent tasks and the reload of
the P2P profile, the RSS subscriptions that queue downloads by themselves, and, below it, an
HTTP download, the piece scheduling of a torrent and the uTP transport.  The remaining parts
are listed below.

Paths below are relative to `src/src-tauri/`; `manager.rs`, `session.rs`, `task.rs`,
`mod.rs` and `rpc.rs` without a directory are in `risuko-engine/src/engine/`.

## 1. Inventory

### Task list and session persistence (`manager.rs`, `session.rs`)

State: `tasks: RevLock` (a read/write lock whose write guard bumps a revision counter
when it is dropped), `save_gate`, `saved_rev`, and in `SessionManager` the session file
and `last_hash`, the hash of the contents written last.

Operations: every change of the list under the write guard; `save_session` (compare the
revision, take the gate, snapshot revision and list under one read guard, write in
`spawn_blocking`, record the revision); `SessionManager::load`, `encode`, `write`; the
30-second auto-save; `TaskManager::new`, which loads the session.

Hard: several savers at once; a write that fails after the contents were hashed; a crash
between a change and its save; an RPC client that disconnects and drops the future of a
save whose write goes on in the blocking pool.

Correct when: a revision recorded as saved is on disk; an added task whose add was
answered after a save is still there after a crash; every change is eventually saved.

### Download queue and workers (`manager.rs`)

State: the order and status of the tasks, their start time and missed flag,
`max-concurrent-downloads`, the two worker registries `starting_workers` and
`active_downloads` (gid to epoch and cancellation token), `updating_tasks`,
`p2p_reload_lock`, `shutting_down`.

Operations: add, pause, unpause, remove, pause all, unpause all, set a schedule, start a
scheduled task now, move, change position, retry with cookies, update, purge results,
change the limit, shut down; the one-second tick `update_progress` (evict old results,
promote scheduled tasks, reconcile, start); `try_start_next`, `reconcile_active_set` and
`preempt`, which most operations end with; the worker's own start and finish.

Hard: the operations are `async` and interleave at every `.await`.  Several of them look
something up, await, and act on what they saw: the busy snapshot of `try_start_next`,
cancel-then-write in `pause` and `remove`, cancel-wait-apply in `update_task` (with a
timeout), the two passes of `shutdown`, pick-then-drop in `enforce_result_cap`.  A worker
moves from one registry to the other while others look.

Correct when: a task has at most one worker; every worker can be found and cancelled; an
Active task has a worker; the limit holds; a stopped, paused or removed task does not
download; no worker result overwrites a newer decision; the queue makes progress; a due
schedule is acted upon.

### Queue order (`manager.rs`)

`move_tasks` and `change_position` are pure functions of the list.  Hard: indices
before and after the tasks are taken out; `i64` offsets from clients.  Correct when they
permute the list, put the task where the caller is told, and keep the order of the rest.

### Torrent tasks, magnet resolution, P2P reload (`manager.rs`, `torrent.rs`)

State: `torrent_ids`, `pending_magnets`, `p2p_route_generation`, the generation of the
magnet cache, `p2p_route_lock`, `p2p_reload_lock`, the resume sequence.  Operations:
resolve a magnet, add its torrent, attach it to the task, pause, unpause, remove; the tick
that applies statistics; `reload_p2p_profile`, which pauses everything, reconfigures the
session for another route and resumes, with `mark_p2p_reload_failed` and
`rollback_p2p_reload`.  Hard: a resolver that awaits the network for minutes while its task
is paused or removed or the route is changed under it; a reload of many steps each of which
may fail.  Correct when: nothing is added over a route that is no longer the configured
one, no torrent runs without a task, a paused task's torrent rests, a failed reload is
undone, and a magnet is resolved in the end.

### Engine lifecycle and event bridge (`mod.rs`, `events.rs`, `rpc.rs`, `standalone.rs`)

State: `ENGINE_INSTANCE`, the RPC port, the shutdown watcher, the broadcast channel
(capacity 256) and the background tasks.  Operations: `start_engine`, `stop_engine`, a
shutdown over RPC, the bridge that turns `DownloadComplete` into an upload.  Hard:
`start_engine` releases the lock between its check and the store; a stop during a start; a
bridge that lags.  Correct when: the tasks of at most one engine run, that engine can be
stopped, and a completion that reached the channel reaches the uploads unless the channel
overflowed.

### Upload manager (`upload/manager.rs`)

State: sinks, rules, default and limit (`UploadStore`), its file, the cache of sink
runtimes, the jobs with their cancellation tokens, a semaphore.  Operations: list a file for
upload, wait for a permit, upload with retries, the post action that trashes or moves the
file; add, update and remove sinks, set the default, change rules and limit, cancel, clear
history.  Hard: settings change under running jobs; the semaphore shrinks while its permits
are held; a cancel races the permit and the end of the job.  Correct when: a cached runtime
is never one of old settings, permits add up to the limit, every job ends and leaves
nothing behind, and a file is removed only once it is uploaded.

### HTTP download (`http.rs`, `falloc.rs`)

State: `PieceQueue`, the `.part` file, its sidecar (`chunk_meta_path`: the
validator and the progress of each piece), the cancellation tokens.  Operations: probe, resume or reset, claim
a piece, request a range, write, count, release on failure, retry, save the sidecar every
few seconds, fall back to one connection, finalise.  Hard: two workers and one queue with a
notification; a saver that runs beside the deletion of its file; a crash at any moment; a
server that changes its file.  Correct when: the sidecar never names a byte that is not
written, no piece has two workers, a finished file has no hole, and a run ends.

### Piece scheduling of a torrent (`risuko-bt`: `torrent.rs`, `piece/`)

State: `PieceTracker` (have, wanted, in flight, the cached order with its dead prefix),
`ChunkTracker` (the state of each chunk, endgame), the assemblies, the write tasks, the
peers with their outstanding requests, web seeds.  Operations: one per event of
`torrent_loop`.  Hard: five records of one piece, in three structures, that every one of a
dozen events has to change together; a cache whose invalidation is spread over the file.
Correct when: they agree, the cache hides nothing, and what some peer offers is downloaded.

### uTP (`risuko-bt`: `utp/stream.rs`, `utp/socket.rs`)

State: per end a `ConnState` (send buffer, unacknowledged packets, reorder buffer, receive
buffer, windows, timers, FIN bookkeeping), and the datagrams on their way.  Hard: loss,
duplication, reordering, wrapping 16-bit sequence numbers, zero windows, ends that leave in
three ways.  Correct when: it is a pair of byte streams, and it never stalls.

### RSS (`rss/`)

State: feeds (site, active flag, error count, etag), their items, the rules by priority, the
history of downloaded episodes, all in `RssStore` behind one lock and saved to a file; the
downloads a rule has queued (`pending`) and the flag `monitor_active`.  Operations: the
poller fetches the feeds that are due and evaluates the rules on new items; the user
refreshes, adds and removes feeds, changes settings, items and rules; the monitor watches the
queued downloads and records or rolls back their episodes.  Hard: no lock is held during a
fetch, so what it brings is applied to a store that has changed; the monitor ends by itself
while downloads come in; an episode is recorded before its download is done.  Correct when:
every queued download is watched by one monitor, a removed feed leaves nothing behind, a
scoped rule never applies elsewhere, and an episode is not downloaded again without need.

### Other parts

| Part | Why it is hard | Status |
| --- | --- | --- |
| RPC server (`rpc.rs`) | a handler dropped at an await | the drop is an action of `SessionStore` and `TaskManager`; ports and shutdown are in `Engine` |
| Speed limiter, URI selection | rates on a real-valued clock | not modelled |
| FTP, HLS, media, metalink | sequential I/O; the queue sees result and cancellation | not modelled |
| Usenet (`usenet*.rs`) | connection capacity shared by downloads, PAR2 | not modelled; the capacity registry is next |
| Rest of `risuko-bt` (session, DHT, trackers, handshake, v2 hash trees) | many peers, timeouts | not modelled |
| eD2k and Kad (`risuko-ed2k`) | sources, lookups, out-of-order answers | not modelled |
| Cookies, sharing, front ends | input and output | not modelled; they are the callers |

`PROJECT.json` lists every part with its status, and under `hazards` the places where the
code is hard to test, each with the property that covers it or the reason why none does.

## 2. Modules

| Module | What it holds |
| --- | --- |
| `SessionStore` | the revision lock, `save_session`, the session file, crash and restart |
| `Lists` | lists without repetitions and their filters, shared by `QueueOrder` and `Rss` |
| `QueueOrder` | `move_tasks` and `change_position` as operators on sequences, and what they promise |
| `TaskManager` | the queue, the workers, the tick and every caller operation; uses `QueueOrder` |
| `TaskManagerProofs` | its theorems, which use those of `QueueOrderProofs` |
| `Engine` | start, stop and shutdown of the engine, the event bridge |
| `Uploads` | the upload manager |
| `Torrents` | torrent tasks, magnet resolvers, the P2P profile reload |
| `HttpDownload` | one HTTP download over several runs of the program |
| `Swarm` | the event loop of one torrent with its piece and chunk trackers |
| `ByteStream` | abstract specification: two streams of units, one each way |
| `Utp` | a uTP connection, shown to implement `ByteStream` |
| `Rss` | feeds, rules, episode history, poller and download monitor |
| `EngineProofs` | theorems about `Engine` and `Uploads` |
| `ManagerProofs` | theorems about `SessionStore` and `Torrents` |
| `QueueOrderProofs`, `HttpProofs`, `SwarmProofs`, `RssProofs`, `UtpProofs` | theorems about the module each is named after; `UtpProofs` uses the lemmas on lists of `QueueOrderProofs` |
| `MCSessionStore`, `MCTorrents`, `MCHttp`, `MCSwarm`, `MCUtp`, `MCRss` | instances for TLC |
| `MCTaskManager` | instances of `TaskManager`, and the operators of `QueueOrder` on every list of four tasks |
| `MCEngine` | an instance of `Engine` and `Uploads` together |

`TaskManager` uses `QueueOrder`; `MCEngine` puts `Engine` and `Uploads` side by side, with
the files the bridge has handed over as what they share.  `TaskManager` and `Torrents` model
the same file for different kinds of task, which do not interact except through
`p2p_reload_lock`; both have it.

### SessionStore

A process is any tokio task that uses the list.  `writer`, `rev` and `tasks` are the
`RevLock`; `gate`, `savedRev` the fields of `TaskManager`; `disk` and `lastHash` those of
`SessionManager` (`lastHash` remembers contents instead of a hash, so that hash collisions
are left out).  `AcquireWrite`, `Mutate`, `BumpRev`, `ReleaseWrite` are the life of a write
guard: the drop of `RevWriteGuard` bumps the revision before the inner guard goes, and a
reader may see `rev` (an atomic) between the two.  `ReadRev`, `SkipSave`, `TakeGate`,
`Snapshot`, `WriteSession`, `WriteFails`, `StoreRev` are `save_session` between its awaits.
`Push` adds a task as `enqueue` does; its process goes on to save and is then acknowledged.
`Change` is every other change of the list.  `CrashAndRestart` loses everything but the
file and runs `TaskManager::new`, with or without `purge-record-on-start`.

`Abandon` is an RPC client that disconnects: axum drops the handler's future, the gate
with it, while a closure that was handed to `spawn_blocking` runs on.  `OrphanWrite` is
that closure.  Whether clients do this is the constant `Disconnects`.

The statuses are cut down to the ones `encode` and `load` tell apart: Paused stands for
Waiting and Scheduled, Complete for Error.  The write is one step because the code writes a
temporary file and renames it.  An orphaned write is one step too: its choice of
writing, failing or having nothing to write is made in the step.
History variables `used`, `dropped`, `acked` record what a caller was told.

### TaskManager

A step is what an operation does between two awaits.  `pc[p]` names the await a process
(a client or the tick) is at, `arg`, `tok`, `todo`, `room`, `staged` are the locals it
carries across.  A worker is its epoch: `wpc[e]` goes from `spawned` (published in
`starting_workers` by `try_start_next`) over `inserted` (in both registries) and
`registered` to `running`, `ended`, `current` or `stale` (the check of `finish_task`) and
`written`, and is `none` again when it has left `active_downloads`.

| Code | Actions |
| --- | --- |
| `try_start_next` | `TryStartNext` (lock, snapshot), `StartNext` (statuses, spawn) |
| `reconcile_active_set`, `preempt` | `Reconcile`, `Preempt`, `PreemptCancel`, `PreemptDone` |
| `register_active_download` | `RegisterActive`, `ClearStarting` |
| `worker_startup_aborted` | `StartupAborted`, `Run` |
| `finish_task`, `metalink_finish` | `RunEnds`, `FinishCheck`, `FinishWrite`, `FinishRemove` |
| `enqueue` | `Enqueue` |
| `pause`, `remove` | `PauseCancel`, then `PauseWrite` or `RemoveWrite` |
| `unpause`, `pause_all`, `unpause_all` | `Unpause`; `PauseAll`, `CancelAllActive`, `CancelAllStarting`; `UnpauseAll` |
| `set_task_schedule`, `start_task_now` | `SetTaskSchedule`, `ScheduleCancel`; `StartTaskNow` |
| `move_tasks`, `change_position` | `Move`, `Reposition` |
| `retry_with_cookies` | `RetryWithCookies`, `RetryCancel` |
| `purge_download_result`, `remove_download_result` | `PurgeResults` |
| `change_global_option` | `ChangeGlobalOption` |
| `update_task` | `UpdateInPlace`, `RelocatedOnly` for a task that is not Active; `UpdateTask`, `UpdateCancel`, `PollActive`, `PollStarting`, `ExitTimeout`, `UpdateRestore`, `UpdateApply`, `Relocated` |
| `shutdown` | `Shutdown`, `ShutdownCancelActive`, `ShutdownCancelStarting`, `ShutdownDone` |
| `update_progress`, `enforce_result_cap`, `check_scheduled_tasks` | `TickCap`, `TickEvict`, `TickSchedule` |
| the clock; a dropped handler | `TimePasses`; `Disconnect` |

Abstractions.  The clock is kept per task as the relation of `start_at` to now: none,
future, due, late (past the grace period).  `update_task` has two ways.  Of an Active task whose
edit needs it the worker is cancelled and awaited, and a staged copy replaces the task, its start
time included.  Any other task is edited at once, under the lock, in fields that are not
modelled, and its partial file is moved afterwards without a look at the worker that a pause may
have cancelled a moment ago.  The constant `Sessions` holds what may be loaded, each with the
number of calls that its behaviours may make.
Epochs come from a finite set and are reused once nobody refers to them; the code counts
upwards and only compares for equality, so nothing can tell.  A timeout may strike
whenever the awaited worker is still registered at the poll.  The kinds of task that run in a worker of
their own are merged: where kinds differ (ed2k and the legacy P2P kinds start without
looking at their token; `metalink_finish` parks failures as Paused) the model allows both
outcomes.  Torrents are excluded, and with them the seeding statuses.  A list that was loaded has no
Active task and no Removed one: `SessionManager::load` pauses the first and drops the second.

`QueueOrder` writes `retain` as a function that goes through the list (`Kept`, `Filter`), and
the `i64` of an offset as a word from `-half` to `half - 1` that wraps.

### Engine and Uploads

`epc[c]` names where a caller of `start_engine` or `stop_engine` is; an engine is a number,
and stands for its shutdown watcher where a process is meant.

| Code | Actions |
| --- | --- |
| `start_engine` | `StartCheck`, `Create`, `Bind`, `PbhStarted`, `PbhFailed`, `SpawnTasks`, `StoreInstance` |
| `stop_engine` | `StopTake`, `StopDone`, then `PortClosed` |
| `risuko.shutdown` over RPC and its watcher | `RpcShutdown`, then `StopTake(e)`, `StopDone(e)` |
| event channel and bridge | `DownloadComplete`, `OtherEvent` (both `Send`), `BridgeRecv`, `BridgeLagged` |
| `enqueue_for_file` | `Request` (the bridge hands a file over), `Unwanted`, `PickSink`, `ListJob` |
| `run_job` | `Activate`, `SinkRuntime`, `UploadOk`, `UploadFails`, `UploadRetries`, `PostAction`, `Finish`, `TouchSink`, `StopQueued`, `StopPermit` |
| the tokio semaphore | `Grant` |
| sinks, rules, default, limit | `AddSink`, `UpdateSink`, `RemoveSink`, `SetDefault`, `ChangeRules`, `SetMaxConcurrency` |
| `save` | `SaveSnapshot`, `SaveWrite` |
| `cancel_job`, `clear_history` | `CancelJob`, `ClearHistory` |

A configuration of a sink is a number.  The transfer to the sink is its outcome.  The
semaphore is a FIFO of waiters.  A limit lowered by n puts n waiters in a row at its end that
keep what they get (`Retirement`), as the spawned `acquire_many(n)` and `forget` of the code.
`SetMaxConcurrency` changes the store and the permits in one step: in between the code waits for
the read lock of the semaphore, which nobody writes after the load, and overlapping changes each
add or retire the difference they took under the lock of the store.  `ListJob` lists a job, keeps
its token and spawns it in one step: in between a cancel finds the job listed without a token,
answers "not found" and changes nothing.  `stop_engine` aborts the two timers of an engine;
a progress tick or a save that a timer had already spawned runs on to its end (`mod.rs`, 302 and
315).  `OneEngine` is about the timers, the bridge and the port.

### Torrents

`rpc[g]` follows the resolver of a magnet, `rl` the reload, `tpc[c]` a call, `tickpc` the
tick.  Every await is a step.

| Code | Actions |
| --- | --- |
| `add_magnet_task` and the spawn of resolvers | `AddMagnet`, `EnsureResolvers`, `TickEnsure`, `UnpauseEnsure` |
| `spawn_magnet_metadata_resolver` | `ResolveCheck`, `Resolve`, `ResolveFails`, `ResolveLock`, `ResolveAdd`, `ResolveCurrent`, `ResolveAttach`, `Remember`, `Settle`, `ResolvePause`, `ResolveDone` |
| `pause`, `unpause`, `remove` | `PauseTask`, `PauseTorrent`; `UnpauseCheck`, `UnpauseTorrent`, `BumpResumeSeq`, `UnpauseWrite`; `RemoveTask`, `RemoveTorrent`, `RemoveForget` |
| the tick | `TickSnapshot`, `TickWrite`, and `Spawned` for what it spawns |
| `reload_p2p_profile` | `ReloadStart` ... `ReloadResume`, one action per await; `ReloadGivesUp`, `ReloadReconfigureFails`, `ReloadResumeFails` for its error paths |
| `rollback_p2p_reload` | `RollbackTasks`, `RollbackPause`, `RollbackRoute` |
| the torrent session | `TorrentDone`, `TorrentHalts` |

The torrent engine exists from the start, the previous profile is a valid one, magnets have
different info hashes, and the pause loop of a rollback is one step.  A magnet may be added
paused; one whose address cannot be read is an error from the start and is left out.  The resume
sequence is kept as whether it was bumped since the tick read it.  The history variable `touched`
holds the tasks that a reload has paused, `rroute` the route for which a resolver was spawned, and
`stranded` the resolvers under which a rollback put another route.

### HttpDownload

The file is a function from units to the version of the server's file they came from, 0
for a hole.  `run` is where `run_single_uri_download` is, `wpc[w]` where a worker is.

| Code | Actions |
| --- | --- |
| probe | `ProbeOk`, `ProbeFails`, `ProbeSkipped` |
| `run_multi_chunk` | `MultiStart` (sidecar, pre-allocation), `MultiChanged`, `MultiFails`, `MultiFinishes`, `MultiFinishFails` (sync or rename fails: no sidecar is saved), `DeleteMeta` |
| `PieceQueue`, `piece_worker` | `LookAt` (claim), `NoneFree`, `WaitForChange`, `Respond`, `WriteUnit`, `CountUnit`, `PieceDone`, `StopPiece`, `StopIdle`, `SourceFails`, `StorageFails` |
| the saver | `SaveTick`, `SaveWrite`, `SaveWriteFails` |
| the single connection | `Fallback`, `SingleRespond`, `SingleWrite`, `SingleFails`, `SingleStale`, `SingleFinishes`, `SingleStops` |
| pause, server, process | `Cancel`, `ServerChanges`, `Crash`, `StartRun` |

All versions of the server's file have the same length (a changed length is noticed at
once).  A sidecar that cannot be written is only logged: the last save of a run (`SaveMeta`) may
fail as well.  One mirror; no redirects, cookies, throttling or checksums.  A crash is one of the
process, not of the machine.  Between the rename of the finished file and the removal of its
sidecar a crash leaves a sidecar without a file; whether one may strike there is the constant
`Orphans` (see section 6).

### Swarm

An event of `torrent_loop` is an action: `Connect`, `Disconnect`, `Choke`, `Unchoke`,
`Have`, `Deliver`, `Reject`, `Reclaim` (timeouts), `WriteDone`, `WebSeedStart`,
`WebSeedDone`, `SetOnlyFiles`, `Pause`, `Resume`.  `RefreshOrder` rebuilds the cached order.
The requests that `drive_peer` sends are actions of their own (`Drive`, `DriveIdle`,
`SendFails`): how many it sends depends on windows, budgets and the disk queue, which are left open,
and so is the order by rarity.  `interested` is `am_interested` of the peers: `Tell` brings it to
what `refresh_interest`, `send_interested_if_useful` and `reinterest_holders` compute, after each
event that calls one of them, and only peers that were told are asked for pieces (`CanDrive`).
The messages go through `try_send`; whether the queue of a peer may be full then is the constant
`FullQueues` (see section 6).  What may be wanted at the start is `Selected`.  No padding files,
no suggestions, no requests to a choking peer for the pieces it allows (`remote_allowed_fast`);
tasks that panic are left out.

### ByteStream and Utp

`ByteStream` is what the two programs may see: units written, units read, "I have
finished", end of stream or error.  In `Utp` the `ConnState` of each end is a record;
`Receive`, `Drive`, `Rto`, `ProbeTimer`, `Linger`, `Teardown` are passes of the driver task,
with one datagram handled per pass; `OpenInbound` and `Stray` are the router of `socket.rs`;
`PollRead`, `PollReadEnd`, `PollWrite`, `PollShutdown`, `DropStream` the program;
`Disturb` and `SocketGone` the network.  A pass is the composition of operators that take a
`ConnState` and return the next; the loops of `fill_send_window`, `process_selective_ack` and
`accept_inorder` are recursive functions of the number of rounds.  A packet is sent again early
once; `Ages` lets it be so once more, when the retransmission timeout has passed since
(`may_fast_resend`).  `log` is a ghost that lists the packets an end has sent for the first time; no
guard reads it, and the proofs compare everything else with it.  The refinement mapping is the identity on
`written`, `got` and `end`, which are what the programs have done and were told, and
`finished` is `wantFin` of the connection.

The reorder buffer is limited to `PendingReorder` packets while the connection waits to be
accepted (`PENDING_REORDER_PACKETS`), and to what fits into the receive buffer after that.
LEDBAT is a choice of the window; path MTU discovery, pacing and round-trip estimation are
left out.  Faults are counted: a lost, doubled or delayed datagram, a timer that fires while
datagrams are still on their way, a socket that fails, a full accept queue.  A SYN that
arrives after the connection has closed is not modelled.  `ByteStream` lets an end that has
finished itself see the end of the stream early: the code tells so after it has lingered.

### Rss

`pc[x]` names where the poller or a command is, `mon[m]` where an instance of the monitor is.
An item is a site and a number; an etag is the number of entries the site had published.
`Archive` is how many a site has at the start, and `Reissues` names entries that carry the id of
an earlier one (`entry_item_id`): `apply_fetch` takes a repeated id once, `add_feed` lists it as
often as it comes.

| Code | Actions |
| --- | --- |
| `start_polling` | `PollDue`, then `Fetch`, `ApplyFetch`, `Save`, and the evaluation of what is new |
| `update_feed`, `update_all_feeds` | `Refresh`, then `Fetch`, `ApplyFetch`, `Save` |
| `evaluate_and_download` | `Match`, `Decide`, `Queue`, `Record`; `WriteArticle`; `MatchSkip`, `DecideSkip`, `QueueSkip` for its early returns |
| `track_download` | `Track` |
| `run_download_monitor` | `MonitorWake`, `MonitorEngine`, `MonitorCheck`, `MonitorSettle`, `MonitorRest` |
| `add_feed`, `remove_feed`, `update_feed_settings` | `AddFeed`, `InsertFeed`; `RemoveFeed`; `SetActive` |
| `delete_items` | `DeleteItem` |
| `add_rule`, `update_rule`, `reorder_rules`, `remove_rule` | `PutRule`, `RemoveRule` |
| site, engine, process | `Publish`, `TaskEnds`, `EngineStop`, `EngineStart`, `Crash` |

Times are left out: a feed may be due and a cooldown may forbid an item at any moment.  Also
left out: read and downloaded marks, statistics of rules, the limit of the history, failed
saves, sites without an etag, the further media of an item (queued and never looked at
again), the downloads a user starts from an item by hand, and completed downloads of which the
engine tells no path.
A save is one step, because `save_gate` lets one at a time copy the store and write it.
The ghosts `granted`, `seen`, `finished` and `savedFinished` remember the scopes that rules were
given, the entries somebody has seen and the episodes that were downloaded; `again` those of
which an item was queued while it was being downloaded.  What a store that is loaded looks
like is an assumption (`LoadedAssumption`).

## 3. What TLC checks

Every run is listed in `PROJECT.json` with its properties and, for each property of a
passing run, a mutant: an alternative definition kept beside the original that
changes it the way a plausible mistake in the code would, and under which TLC finds the
property violated.  The type invariant of a newer module is a conjunct of one of its
invariants; those of `SessionStore` and `TaskManager` are conjuncts of the invariants the
proofs are about.

### Passing runs

| Run | Instance | What it shows |
| --- | --- | --- |
| `session_safety` | 2 tasks, 2 processes, 3 revisions, 1 crash, failing writes | `SavedRevTruthful`, `AckedAddsAreOnDisk` |
| `session_live` | 1 task, 2 processes, 2 revisions, failing writes, disconnecting callers | `SavedRevMonotone`, `DirtyIsSaved` |
| `queue_one_task` | 1 task, 2 callers, every operation on one task, 3 calls, limits 0 and 2, result cap 0, timeouts, disconnects, shutdown | `OneWorkerPerTask`, `WorkersAreRegistered`, `OnlyStoppedLeave` |
| `queue_two_tasks` | 2 tasks, 1 caller and the tick, limit 1, 3 calls among move, position, remove, pause, unpause, update (restarting and in place), purge; for the reordering every list of 4 tasks, every waiting subset, selection and target, offsets -128, -2..2, 127 in an 8-bit word | `BusyWithinLimit`, `ActiveHasWorker`, `RestartWaitsForWorker`, `RemovedStaysRemoved`, `ReorderingIsExact` |
| `queue_live` | limit 1; 2 tasks and 1 call, or 1 task and 2 calls of 2 callers, among move, retry, schedule, start now, pause all, unpause all, update | `NoRunaway`, `QueueAdvances`, `SchedulesSettle` |
| `engine_uploads` | 2 callers, 2 engines, 2 downloads, a channel of 1; 2 jobs, 2 sinks with 2 configurations, limits 1 and 3, history of 1, 2 attempts | `OneEngine`, `CompletionsHandled`, `RpcShutdownStops`, `PermitsAccounted`, `UploadsInOrder`, `JobsSettle` |
| `p2p_reload` | 1 magnet, 2 profiles, 1 reload, 2 calls, 1 fault, 3 torrent ids | `AddsOnCurrentRoute`, `NoOrphanTorrent`, `StoppedTorrentsRest`, `ReloadsEndClean`, `MagnetsResolve` |
| `swarm` | a seed and a leecher with the fast extension, a web seed, 2 pieces of 2 and 1 chunks, 1 fault, 1 piece wanted at first, 1 change of the selection | `PieceRecordsAgree`, `OrderIsComplete`, `HoldersAreTold`, `Downloads` |
| `http` | 2 workers, 2 pieces of 2 and 1 units, 1 retry, 2 versions of the file, 2 faults, 2 runs | `PieceHasOneWorker`, `CountedIsWritten`, `PiecesMakeWhole`, `RunsEnd` |
| `utp` | 7 units in packets of 2, a receive buffer of 5, congestion windows 3 and 9, 1 packet kept for reordering before the accept, sequence numbers modulo 20 that start next to the wrap, 1 fault | `AckedHasArrived`, `NothingStalls`, `ImplementsByteStream` |
| `rss` | 1 site that shows an episode twice under one id and publishes it in a better quality, 2 feed ids, 1 user and the poller, a rule for the feed and one that upgrades, 2 downloads, 2 events among commands, failed fetches, engine stops and crashes | `DownloadsWatched`, `FeedsInOrder`, `OncePerEpisode` |

* `SavedRevTruthful`: when `saved_rev` equals the revision and no writer is between its
  change and its bump, the file holds the current list.  The early return of
  `save_session` is sound exactly because of this.
* `AckedAddsAreOnDisk`: a task whose add was answered after a successful save is in the
  file until somebody removes it, across other saves, failed writes and crashes.
* `SavedRevMonotone`: an older snapshot is never recorded over a newer one.
* `DirtyIsSaved`: every revision, or a later one, is eventually saved.
* `ReorderingIsExact`: on every list of four tasks the moved ones are where they were sent, the
  caller is told the true position and the others keep their order; and the list of the
  queue never holds a task twice, whatever interleaves.
* `OneWorkerPerTask`, `WorkersAreRegistered`: two workers never share a task (and so a
  partial file), and a worker is in a registry as long as it lives.
* `OnlyStoppedLeave`: an action property; what `enforce_result_cap` picked under the read
  lock may have been revived when it drops it under the write lock.
* `BusyWithinLimit`: the registries never hold more tasks than the limit.  The run that
  checks it has one limit; with a limit lowered at run time the code lets the workers
  finish, so the property speaks of some configured limit.
* `ActiveHasWorker`: an Active task has a worker that will still write its result.
* `NoRunaway`: a download of a task that is no longer Active is cancelled, or an operation
  in progress is about to cancel it.
* `RestartWaitsForWorker`: when `update_task` restarts the worker of an Active task it replaces
  the task with no worker of it downloading, although it polls two registries one after the
  other.  It says nothing of the edit of a task that is not Active, which waits for nobody
  (section 6).
* `RemovedStaysRemoved`: no late worker result revives a removed task.
* `SchedulesSettle`: once its time has come the tick promotes a scheduled task or flags it
  as missed, with two callers at work on the task, unless an `update_task` that overlaps writes
  its copy of the start time back (section 6).
* `QueueAdvances`: a task within the first places of the queue does not wait for ever,
  although another task may have to be preempted for it.
* `OneEngine`: of overlapping starts only one engine comes to run, the one that answers on
  the port, and it can be stopped.
* `CompletionsHandled`, `RpcShutdownStops`: an event in the channel is handed over unless the channel overflows or the engine stops; a
  shutdown over RPC ends the engine although its instance is stored late.
* `PermitsAccounted`, `UploadsInOrder`, `JobsSettle`: the promises of the upload manager named
  in section 1.  That a cached runtime is never one of old settings is a part of the second.
* `AddsOnCurrentRoute`, `NoOrphanTorrent`, `StoppedTorrentsRest`: what a resolver brings
  home late is neither added over a route that a reload has replaced nor left running for a task
  that was removed or paused.  The first compares the route of the session with the one the
  resolver was spawned for, and leaves out the resolvers that a rollback overtook; tasks a reload
  took part in are left out of the last (see section 6).
* `ReloadsEndClean`: after a reload, rolled back or not, no task is paused without a
  reason and the options name the route in use.
* `MagnetsResolve`: a live magnet gets its torrent.
* `PieceRecordsAgree`, `OrderIsComplete`: the records of a piece agree in every state between
  two events, requests and owners among them, and the cached order hides no piece.
* `HoldersAreTold`: whatever is verified, fails, is deselected or selected again, a connected peer
  that has a needed piece was told that we are interested; otherwise nobody asks it for anything.
* `Downloads`: a torrent that stays unpaused and is not halted by its disk gets every
  wanted piece.
* `PieceHasOneWorker`, `CountedIsWritten`, `PiecesMakeWhole`, `RunsEnd`: the promises of the HTTP
  download, for files that the piece workers finish.  A run ends once it is past its probe, which
  has no timeout (section 6).
* `AckedHasArrived`: what an end has dropped from its retransmission queue has arrived; the
  receive buffers stay within the advertised window.
* `NothingStalls`: when no datagram, timer or pass is left, everything written has been
  read and told, except to an end that has itself finished.
* `ImplementsByteStream`: the refinement.
* `DownloadsWatched`: while a queued download is pending exactly one monitor runs, although it
  leaves by itself and `track_download` decides by a flag whether to spawn one.
* `FeedsInOrder`: fetches that overlap with each other or with a removal bring nothing back and
  make no site hold back what nobody has seen; a rule whose last feed goes does not come to
  apply to every feed; and a round of the poller evaluates no item twice, though the site lists it
  twice.
* `OncePerEpisode`: rules that do not upgrade never have two downloads of an episode under way,
  and an episode that was downloaded keeps a record whatever fails later.  Episodes of which an
  item was queued while it was being downloaded are left out of the second part (section 6).

### Why the bounds are enough

The hazards of the session store involve two actors and at most three revisions: one that
is being saved, one that overtakes it, one that is not saved.  One crash suffices because a
restart forgets everything but the file.  For the queue, one task with two callers, the tick and up to
three workers of successive epochs reaches every pair of operations that race on
one gid, and three calls allow a third to disturb the pair; two tasks with one slot
reach preemption, queue order and the limit.  For liveness two callers on one task are enough for
the overlap of a schedule with any other call, and one call on two tasks for preemption.  The limit 0 stands for a limit lowered below the
number of running workers.  Epochs: two or three are in use at once at most, so a set of
three or four never blocks a start.  The theorems of section 4 remove the bounds for the
properties they state.

Two engines are what overlapping starts need, and a channel of one overflows with the
second event.  Two jobs and a limit that goes from three to one let both hold a permit when
it shrinks by more than one; the run bounds files and calls together (`Effort`).  It explores the life of
the engine and the uploads one at a time, since they share nothing but the handover.  One
magnet with one reload and two calls reaches every pair of resolver, call and reload; a
second reload cannot overlap the first.  Two magnets let a resolver that a reload has spawned meet
its rollback (`RouteRace.cfg`).  Two peers, one of which lacks pieces, reach endgame
and taking over; a piece of two chunks can be half received; a piece that is wanted only after a
selection makes peers uninteresting and interesting again.  Two workers and two pieces reach
waiting for a piece that another worker gives back; two runs are what resuming needs.  The uTP
window of two packets closes and opens several times in a transfer of four, and the wrap
falls into it; a congestion window of 3 lets one packet out at a time.  Sequence numbers are
counted modulo 20, so that the transfer is within the assumption of the theorems.  For RSS two entries of one episode are what an upgrade needs, two events let a
command or fault disturb another, and two feed ids let a site be subscribed to again; the
number of items a feed keeps is never exceeded.  With two commands and a separate fault the
properties hold too; that instance has four times the states.

Deadlock checking is on for the session store and the queue, where the tick or the
auto-save can always take a step.  It is off for the others: a finished transfer, an idle
upload manager, a downloaded torrent and a store without feeds may stop; `NothingStalls`, `JobsSettle`, `RunsEnd`,
`MagnetsResolve` and `Downloads` say when they may.

Some operations are left out of a run because a property does not hold with them; section 6
lists these cases.  `queue_live` has no pause and remove because of the first of them,
`queue_two_tasks` no timeouts because of `RestoreRace.cfg`, and no retry because
`retry_with_cookies` revives removed tasks (`manager.rs:4299`), which nothing in the
repository calls wrong.

### Fairness

`SessionStore`: weak fairness of every step that a runnable tokio task takes;
strong fairness of taking the gate and of the read lock, since tokio's `Mutex` and
`RwLock` are FIFO-fair; strong fairness of the auto-save of a process, since its timer
keeps firing whatever else that process does; strong fairness of a successful write: a disk that always fails
saves nothing, and no code could.  Nothing obliges a process to begin a write, to crash,
or to abandon a save.

`TaskManager`: weak fairness of the continuation of an operation, of the tick, and of the
steps a worker takes by itself; strong fairness of `TryStartNext`, which waits for a
FIFO lock; weak fairness of the end of a *cancelled* download, since every download loop
selects on its token.  Nothing says that callers call, that time passes or that a
download ends by itself; in particular `QueueAdvances` does not rest on the other
download finishing, only on its preemption.

`Engine`, `Uploads`: weak fairness of what was spawned: a start that began, a stop that
holds the lock, the bridge, the watcher, the jobs and the semaphore.  Nobody has to start or
stop engines, send events or cancel jobs.

`Torrents`: weak fairness of resolvers, of a reload that began and of the tick; strong
fairness of the part of the tick that waits for the FIFO `p2p_reload_lock`.  Resolutions
fail a bounded number of times.

`HttpDownload`: weak fairness of workers, saver and run once it is past its probe; a server that
is asked for a piece answers, or the idle timeout strikes (the option `timeout` at 0 switches it
off, which is left out).  The probe is not fair: `http.rs:1146` awaits it with neither a timeout
nor a look at the token, and the client has only a connect timeout.

`Swarm`: weak fairness of the loop, of writes and web seeds that return, and of a seed that
connects, unchokes and delivers: without one nothing can be downloaded.  The queues of the peers
have room (`FullQueues` is false).

`Utp` has no fairness: `NothingStalls` is about states in which nothing is left to happen.
`Rss` has none: its properties are invariants.

### A run that shows a disagreement

`http_holes`: `run_multi_chunk` gives the `.part` file its full size before it downloads.  A
later run that uses a single connection removes such a file only if its sidecar exists
(`http.rs:1316`).  After a crash before the first save, or with a server that sends no
validator (for which no sidecar is saved), there is none: the single connection asks for the
bytes after the full size, is answered 416 with that size, and finalises a file with holes.
The tests say that "resumed content must match payload".

## 4. What is proved

The theorems hold for every set of tasks, processes, epochs, engines, jobs, magnets, workers,
pieces, peers, feeds, rules and monitors and every value of the bounds, under the named assumptions of the modules:
the values that stand for nobody or nothing are distinct from those they are used beside,
bounds are natural numbers, sets that are counted are finite, a file and its pieces are not
empty, there is a profile and a limit to choose, and the loaded list and the loaded feeds and rules
are ones that `load` can return.  TLC evaluates these assumptions in every run.  A theorem that needs more says so with
ASSUME, and section 6 shows why it does.

### ManagerProofs: the session

`TypeCorrect`, `SavedRevMovesForward` (the action property `SavedRevMonotone`) hold with
or without abandoned saves.  `SavedRevIsTruthful` and `AcknowledgedAddsSurvive` assume
`~Disconnects`; section 6 shows that the first needs it.

None of these is inductive.  The invariant `IInv` adds:

* `LocksHeld`: who is where in its program holds which lock.
* `RevsOrdered`: saved revision, snapshot and current revision are ordered; needed for
  `SavedRevMonotone`, and the reason why the gate must be taken before the snapshot.
* `SnapshotsFresh`: a snapshot of the current revision is the current list.
* `FileKnown`: `last_hash` describes the file, and after a write the file is the snapshot;
  needed because `write` skips contents it believes to be there.
* `AckedEverywhere`: an acknowledged task is in the list, in the file and in every
  snapshot that may still be written.
* `AddsTracked`: for an add in progress, any save that could let it return early has the
  new task in it.

The last three and `SavedRevTruthful` form `FileInv`, which is required only if
no save is abandoned.

### TaskManagerProofs

* `OneWorkerPerTaskHolds`, `WorkersAreRegisteredHolds`: from `IInv`, which says that
  registries and workers agree (`WorkersKnown`, `StartingSound`, `ActiveSound`), that the
  process between the snapshot and the start holds `p2p_reload_lock` (`LockHeld`), and that
  its snapshot covers every busy task (`SnapshotCovers`).  The last is what is easily
  missed: workers may leave after the snapshot, but with the lock held none can appear.
  Its lemma `RoomIsNat` is the absence of underflow in `max_concurrent - active_count`.
* `ListHolds`: the types, the list included, and `ListInv`: the list holds every task that has
  a status, once, through enqueueing, reordering, purging and eviction by overlapping callers.
* `BusyWithinLimitHolds`: from `LimitInv`.  Tasks become busy only in `StartNext`, and the
  slots counted under the lock are within a limit that was configured then (`RoomWithin`).
  `StartedFit` is the counting argument: fewer than n waiting tasks are before each
  of the started ones, so there are at most n.
* `ActiveHasWorkerHolds`, without `Timeouts`: from `ActiveInv`.  A worker that is replaced while
  it runs would write nothing; without a status that is given back none is (`NobodyStale`).
* `OnlyStoppedLeaveHolds`, `RemovedStaysRemovedHolds` (the second without
  `retry_with_cookies`, which revives on purpose): action properties.
* `RestartWaitsForWorkerHolds`: from `EditInv`: a task whose worker is being restarted has one editor,
  is in `updating_tasks` and is not Active (`EditorsAlone`), so that no worker of it begins
  to download; a worker that downloads is the one whose exit is polled (`ExitPolled`).

The proofs are by one lemma per group of actions; steps that leave the registries alone
share `QuietStep` and `EditQuiet`.

### QueueOrderProofs

`move_tasks` and `change_position` on lists of any length.  `MoveIsExact`: the moved tasks are
adjacent, in their old order, right before or after the target; the others keep theirs; nothing
is lost or doubled.  `PositionIsExact` and `PositionIsToldHolds`: the task ends where the
caller is told, among the waiting tasks, for every offset, the largest and smallest of the
word included, and nothing else changes place.

The provers cannot use the induction theorems of the library.  `Induct` is induction
over a set of numbers instead: a set that contains 0 and is closed under successor is all of
`Nat`, by its least counterexample; the set is the numbers up to which a fact
about the prefixes of a list holds.  From it follow what `Filter` keeps, on what it is the
identity, and that it distributes over concatenation; the theorems then cut the list at the
target (`MoveCuts`, `PositionCuts`) and never look at indices again.

### EngineProofs

`OneEngineHolds`, from `LifeInv`: engines are numbered as they are created, a start belongs to
one caller until its instance is stored, and from its bind on it has the port (`StartsApart`),
which is what keeps the second of two overlapping starts from going on; the stored
instance answers on the port (`InstanceServes`).  `BridgeInv` is about the event channel.

The upload manager: `PermitsAccountedHolds` (`PermitInv`): free permits, the holders and the limit add up, the
permits still to be retired included, for any number of changes of the limit.  It needs
`QueueInv`: a job is in the queue of the semaphore at most once and waits there.  The lemmas on
`Nobodies` count the waiters that keep what they get.  `UploadsInOrderHolds` (`OrderInv`): what
the jobs know when they act.

### ManagerProofs: torrents

One invariant in four layers.  `TypeInv`.  `RouteInv`: who adds a torrent has the route lock,
how options and session stand to each other at every await of a reload, and that a resolver with
the current generation was spawned for the current route unless it is stranded; it gives
`AddsOnCurrentRouteHolds` and `ReloadsEndCleanHolds`.  `OwnerInv`: ids are not shared, and for
every torrent of the session somebody answers: its task, a resolver that has yet to attach or
delete it, or a `remove` that has yet to delete it; it gives `NoOrphanTorrentHolds`.
`RestInv`: a torrent of a stopped task runs only while somebody is about to stop it, and a
torrent that the tick read as halted and that runs again shows in the resume sequence
(`HaltsHold`); it gives `StoppedTorrentsRestHolds`.

### HttpProofs

`QueueInv` is about the queue and the workers: a piece in flight is one worker's.  It gives
`OneWorkerHolds` without further assumptions.  `FileInv` relates file, sidecar and counters: the
sidecar and a snapshot that is being written tell no more than the counters (`SidecarBehind`), the counters no
more than the file (`CountersTrue`), a worker that has written and not yet counted has written
the version that is expected (`WritesCurrent`), and unless a worker failed some worker will
look at a free piece (`FreeIsSeen`), which is why the end of all workers means the end of the
file.  `CountedIsWrittenHolds` and `PiecesMakeWholeHolds` follow under `~Orphans`.
Lemmas on division show that the pieces
partition the file for every size and piece length.

### SwarmProofs

`PieceRecordsAgreeHolds`, from `RecordsInv`: the chunk tracker and the buffers count the same
chunks, a piece in flight has a web seed or nothing left to ask for, a chunk that is asked for
is outstanding at a connected peer.  `OrderIsCompleteHolds`, from `OrderInv`: unless a rebuild
is due, what is needed is listed and what can be asked for is behind the dead prefix.
`HoldersAreToldHolds`, if no queue is full: what a refresh leaves out has nothing that is needed.

### RssProofs

* `FeedsInOrderHolds`, from `StoreInv`: in memory and on disk alike, a feed has items exactly as
  long as it exists, no site has two feeds, and every entry that the
  site will hold back because of the etag has been seen (`FeedsOK`); rules have ids of their
  own (`RulesOK`) and a scope that is a part of one they were given (`ScopesOK`); and from
  `RoundInv`: what the poller has to evaluate is empty when a round begins, and `apply_fetch` comes
  to each feed once in a round.  The lemmas
  are one per change of the store (`ApplyKeeps`, `InsertKeeps`, `WithoutFeedOf`, `CrashScopes`).
* `DownloadsWatchedHolds`, from `WatchInv`: the flag is set exactly when one monitor runs, and
  whatever is pending belongs to a download the engine has; `EvalInv` types what the poller
  carries from one await to the next.
* `OncePerEpisodeHolds`, from `EpisodeInv`.  A download leads when it replaced nothing or its
  rule does not upgrade; a leading download has a record (`Covered`), no two lead for the same
  episode (`Exclusive`), and none does while the poller is about to queue one (`NoLeader`).
  That a finished episode keeps its record through any order of failures is the hard part:
  each rollback puts back what the download replaced, which may be the record of another
  download that fails next.  `Lasting` says that there is a set of open downloads (`Chain`) that is
  closed under putting back and every member of which puts back a record.

### UtpProofs

For every width of the sequence numbers, packet size, buffer, window, number of faults and initial
sequence number: `UtpTypes`, `AckedHasArrivedHolds`, `NothingStallsHolds` and `ByteStreamHolds`,
the refinement of `ByteStream`.

They are about behaviours in which each end sends less than half a turn of packets (`FewPackets`):
its log, the packets that what was written and not yet sent will take, and a FIN are fewer than
2^15.  It bounds packets and not bytes, and holds of every state of a shorter connection.  Nothing in
`stream.rs` keeps a connection so short.  But the code compares numbers modulo 2^16 and has nothing
else to tell a datagram that the network has kept for half a turn from a new one, and the
model does not bound the age of a datagram, so that without the assumption the statements are not
true of it.  The wrap itself is within the assumption, since initial numbers are arbitrary.

The invariant `UInv` compares every copy of a packet with the log of its sender; `Nth` turns a
sequence number into a place in the log, and the lemmas on `Distance` and `Add` say when the
comparisons modulo the width are comparisons of places.

* `SendOK`: the retransmission queue is a part of the log in order, the send buffer begins
  where the log ends, and together they are what the program has written.
* `RecvOK`: what was read, what can be read and nothing else is the log up to the
  acknowledged number; what is kept for reordering are packets beyond it, each once.
* `AckOK`: what has left the retransmission queue has arrived.  This is the part a selective
  acknowledgement endangers: its first bit stands for the packet after the next one.
* `MsgOK`: a datagram on its way is a copy of a packet in the log, and what it acknowledges its
  sender has.  It is kept because logs only grow (`Grows`), so delay and doubling do no harm.
* `StateOK`, `EarlyOK`, `EndOK`: what the state of a connection says about its fields, what it
  may have before it is joined with a peer, and what a program was told about the end.
* `RestOK`: an open end with something to send has something in flight, an armed probe or a
  nudge; one that is asked to finish and has nothing left to send has a nudge; one that has
  everything up to the peer's FIN knows of the end.  `NothingStalls` needs it: an end that waits for nothing has nothing left to send (`AtRest`), so the peer misses
  nothing (`NothingMissing`).

Each operator of a pass has a lemma that it keeps the parts of the invariant it touches
(`RetransmitKeeps`, `ConsumeKeeps`, ...); its loops are proved with `Induct`.  A
step of one end is then a composition (`StepKeeps`), and the peer is untouched except that the
log it is compared with has grown.  `StreamKept` shows that the step is one of `ByteStream` or
leaves what the programs see alone.

### What is only model-checked

* Liveness (`DirtyIsSaved`, `QueueAdvances`, `SchedulesSettle`, `CompletionsHandled`,
  `RpcShutdownStops`, `JobsSettle`, `MagnetsResolve`, `Downloads`, `RunsEnd`): out of the
  prover's reach.
* `ReorderingIsExact` is a statement about the instance of TLC (every list of four tasks); its
  parts are `MoveIsExact`, `PositionIsToldHolds` and `ListHolds`, for every list.

## 5. Not modelled

* FTP, HLS, media, metalink, Usenet, the DHT, trackers and handshakes of BitTorrent,
  eD2k and Kad: not reached yet.
* The speed limiter and the choice of mirrors: their properties are about rates.
* Progress, speed and presentation fields of a task, events and log lines: no property
  tells them apart.
* Wire formats, TLS, PAR2 arithmetic, media muxing: data, not control, and out of TLC's
  reach.
* The user interface and the other front ends: they are the callers.
* In `SessionStore`, the instants within a write to the temporary file: the rename makes
  them invisible to `load`.
* Tasks that panic.
* Torrents added from a `.torrent` file (attached at once, without a resolver), seeding
  goals (a choice of the tick) and file selection at the level of the manager.
* For each module, what section 2 says it leaves out.

## 6. Races the models reach

These properties are stated in the modules and fail: the code has no guard against the
interleaving.  No run lists them; each configuration named here reproduces its
counterexample, which is a few steps long.

| Configuration | Property | What happens |
| --- | --- | --- |
| `PauseRace.cfg` | `PausedMeansStopped` | `pause` finds no worker; `try_start_next` starts one, which passes its startup check; `pause` writes Paused. The task is Paused and downloads. |
| `ShutdownRace.cfg` | `ShutdownCancelsAll` | Between the two cancel passes a worker moves from `starting_workers` to `active_downloads`; or a `try_start_next` that was past the check of `shutting_down` publishes one afterwards. |
| `RelocateRace.cfg` | `PartialMovedWhileIdle` | `update_task` drops its guard before it moves the partial file; the tick starts a worker that writes it. |
| `EditRace.cfg` | `EditedWhileIdle` | A task is paused; its worker is cancelled and still downloads. `update_task` sees a task that is not Active, edits it at once and moves the partial file (`manager.rs`, 4857-4861 and 4925-4957) under the worker. |
| `ScheduleRace.cfg` | `ScheduledHasTime` | `update_task` copies a task and waits for its worker; `set_task_schedule` writes Scheduled and a start time; `update_task` writes its copy of the start time back (4912-4918). The task is Scheduled without a time, and `check_scheduled_tasks` passes it over for ever. |
| `RestoreRace.cfg` | `ActiveHasWorker` | With timeouts: `update_task` gives up; the worker ends before the status is restored. The task is Active and nobody works on it. |
| `SaveRace.cfg` | `SavedRevTruthful` | With disconnects: a caller goes away while its save is in `spawn_blocking`; the gate is free, a newer save completes, then the orphaned write replaces the file by the older list. `saved_rev` says that the newer one is on disk, and later saves return early. |
| `ReloadRace.cfg` | `PausedTorrentsRest` | A caller pauses a torrent while a reload resumes its tasks; the reload resumes the torrent after the task was marked Paused. |
| `RouteRace.cfg` | `NeverAddsOnOldRoute` | A reload has resumed a magnet and spawned a resolver for the new route; resuming another task fails, and the rollback puts the old route back without a new generation (5506-5508). The resolver adds its torrent over a route it was not made for. |
| `InterestRace.cfg` | `Downloads` | With full queues: a piece is selected while the queue of the only peer that has it is full. The Interested is dropped (`risuko-bt`, `torrent.rs`, 2074-2076), nothing repeats it, and the peer is never asked. |
| `ProbeRace.cfg` | `PauseEndsRun` | A server accepts the connection of the probe and never answers. The probe has no timeout and does not look at the token (`http.rs:1146`): a pause ends nothing. |
| `OrphanRace.cfg` | `CountedIsWritten` | With orphans: the process dies between the rename of the finished file and the removal of its sidecar. A later download of the same name over a single connection is interrupted and leaves a `.part` beside that sidecar; the next run over several connections believes the sidecar. |
| `RepeatRace.cfg` | `ItemsListedOnce` | A site lists an entry twice, and `add_feed` (`rss/mod.rs`, 186-196) inserts both; `apply_fetch` would have taken one. |
| `RssRace.cfg` | `FileIsKept` | The program dies during an upgrade of an episode: the saved record says that no file is there yet, the record it replaced is lost, and the finished file is known to nobody. Two upgrades that are under way together and both fail end the same way. |

One more has no configuration, because TLC needs more downloads than it can explore to get
there; the proof of `OncePerEpisode` found it.  `rollback_episode` (`rss/mod.rs`, 1113-1133)
knows the record of a download by its item.  When an item is deleted, fetched again and
queued again by a better rule while the first download of it is still open, the rollback of one
takes the record of the other for its own, and with a third such download a finished episode
can end without a record.  The ghost `again` marks these episodes.

Still to be done, in this order: an abstract queue that `TaskManager` implements; then the
Usenet capacity registry, the DHT and Kad lookups as new modules.

## 7. Running

In this directory, `tlc -config QueueOneTask.cfg MCTaskManager` checks a run (the module
and configuration of each are in `PROJECT.json`) and `tlapm TaskManagerProofs.tla` a proof
module.
