---------------------------- MODULE HttpDownload ----------------------------
(***************************************************************************)
(* One HTTP download of http.rs: the probe for range support, the pieces   *)
(* that several workers fetch into one pre-allocated .part file, the       *)
(* sidecar file that remembers how far they got, the fallback to a single  *)
(* connection, and the restart after a crash, a pause or a failure.        *)
(*                                                                         *)
(* The file is a sequence of units; what a unit holds is the version of    *)
(* the server's file that it came from, or 0 where nothing was written.    *)
(* All versions have the same length, which is the hard case: a changed    *)
(* length is noticed.  There is one mirror, the file is large enough to be *)
(* split and there are no checksums.  A crash is one of the process; what  *)
(* was written before is on disk.                                          *)
(***************************************************************************)
EXTENDS Naturals, FiniteSets

CONSTANTS
    Workers,
    Size, PieceLen,       \* content_length and piece_size, in units
    MaxRetries,           \* max-worker-retries
    Nothing,              \* no file
    MaxVersions, MaxFaults, MaxRuns,    \* bounds
    Probes,               \* what may happen to a probe: "ok", "fails", "skipped"
    Orphans               \* whether the process may die between the rename of a
                          \* finished .part and the removal of its sidecar

ASSUME HttpAssumption ==
    /\ Size \in Nat \ {0} /\ PieceLen \in Nat \ {0}
    /\ MaxRetries \in Nat /\ MaxVersions \in Nat \ {0}
    /\ MaxFaults \in Nat /\ MaxRuns \in Nat
    /\ Nothing \notin Nat
    /\ Probes \subseteq {"ok", "fails", "skipped"}
    /\ Workers # {} /\ Orphans \in BOOLEAN

Least(a, b) == IF a < b THEN a ELSE b
NPieces == (Size + PieceLen - 1) \div PieceLen
Pieces == 1..NPieces
LenOf(q) == Least(PieceLen, Size - (q - 1) * PieceLen)
Units == 1..Size
Versions == 1..MaxVersions
Unit(q, k) == (q - 1) * PieceLen + k       \* the k-th unit of piece q

VARIABLES
    version, validated, ranges,   \* the server: its file, ETag or Last-Modified, Range
    part, plen, sidecar, final,   \* the disk
    run, stale, expected,         \* run_single_uri_download, its retry, the validator
    qstate, done,                 \* PieceQueue
    wpc, wq, wver, already, left, retries, errors,   \* piece_worker
    saving,                       \* the snapshot of save_task
    cancelled, stopped, changed,  \* cancel_token, worker_token, pool.changed
    attempt, by,                  \* attempts of the single connection; who finished
    hfaults, runs

serverVars == <<version, validated, ranges>>
diskVars   == <<part, plen, sidecar, final>>
runVars    == <<run, stale, expected, attempt, by>>
queueVars  == <<qstate, done>>
workerVars == <<wpc, wq, wver, already, left, retries, errors>>
flagVars   == <<cancelled, stopped, changed>>
httpVars   == <<serverVars, diskVars, runVars, queueVars, workerVars, saving, flagVars,
                hfaults, runs>>

Hit == hfaults < MaxFaults /\ hfaults' = hfaults + 1
RunAt(l) == run' = l
NoPart == [u \in Units |-> 0]

HttpInit ==
    /\ version = 1 /\ validated \in BOOLEAN /\ ranges \in BOOLEAN
    /\ part = NoPart /\ plen = 0 /\ sidecar = Nothing /\ final = Nothing
    /\ run = "idle" /\ stale = FALSE /\ expected = 0 /\ attempt = 0 /\ by = "nobody"
    /\ qstate = [q \in Pieces |-> "free"] /\ done = [q \in Pieces |-> 0]
    /\ wpc = [w \in Workers |-> "off"] /\ wq = [w \in Workers |-> 0]
    /\ wver = [w \in Workers |-> 0] /\ already = [w \in Workers |-> 0]
    /\ left = [w \in Workers |-> {}] /\ retries = [w \in Workers |-> 0]
    /\ errors = {}
    /\ saving = Nothing
    /\ cancelled = FALSE /\ stopped = FALSE /\ changed = FALSE
    /\ hfaults = 0 /\ runs = 0

-----------------------------------------------------------------------------
(* A run: the task is started, for the first time or again.                *)

StartRun ==
    /\ run = "idle" /\ runs < MaxRuns
    /\ runs' = runs + 1
    /\ RunAt("probe")
    /\ by' = "nobody" /\ final' = Nothing
    /\ UNCHANGED <<serverVars, part, plen, sidecar, stale, expected, attempt, queueVars,
                   workerVars, saving, flagVars, hfaults>>

(* What a run leaves when it ends: nothing but the disk.                   *)
RunEnds ==
    /\ RunAt("idle")
    /\ qstate' = [q \in Pieces |-> "free"] /\ done' = [q \in Pieces |-> 0]
    /\ wpc' = [w \in Workers |-> "off"] /\ wq' = [w \in Workers |-> 0]
    /\ wver' = [w \in Workers |-> 0] /\ already' = [w \in Workers |-> 0]
    /\ left' = [w \in Workers |-> {}] /\ retries' = [w \in Workers |-> 0]
    /\ errors' = {} /\ saving' = Nothing
    /\ expected' = 0 /\ stale' = FALSE /\ attempt' = 0
    /\ cancelled' = FALSE /\ stopped' = FALSE /\ changed' = FALSE

HasSidecar == plen > 0 /\ sidecar # Nothing

(* probe_range_support answers.                                            *)
ProbeOk ==
    /\ run = "probe" /\ "ok" \in Probes
    /\ expected' = version
    /\ RunAt(IF ranges THEN "multi" ELSE "fallback")
    /\ UNCHANGED <<serverVars, diskVars, stale, attempt, by, queueVars, workerVars, saving,
                   flagVars, hfaults, runs>>

(* It fails: with a sidecar the run ends and keeps it, else the single     *)
(* connection is tried.                                                    *)
ProbeFails ==
    /\ run = "probe" /\ "fails" \in Probes /\ Hit
    /\ IF HasSidecar
         THEN RunEnds
         ELSE /\ RunAt("fallback")
              /\ UNCHANGED <<stale, expected, attempt, queueVars, workerVars, saving, flagVars>>
    /\ UNCHANGED <<serverVars, diskVars, by, runs>>

(* With a clearance cookie there is no probe: probe_from_sidecar.          *)
ProbeSkipped ==
    /\ run = "probe" /\ "skipped" \in Probes
    /\ expected' = IF HasSidecar THEN sidecar.ver ELSE 0
    /\ RunAt(IF HasSidecar THEN "multi" ELSE "fallback")
    /\ UNCHANGED <<serverVars, diskVars, stale, attempt, by, queueVars, workerVars, saving,
                   flagVars, hfaults, runs>>

-----------------------------------------------------------------------------
(* run_multi_chunk.                                                        *)

(* load_piece_meta: progress of the same version, as far as the file goes. *)
Resumed ==
    IF sidecar # Nothing /\ plen > 0 /\ validated /\ sidecar.ver = expected
      THEN [q \in Pieces |->
              Least(sidecar.done[q],
                    IF plen > Unit(q, 0) THEN plen - Unit(q, 0) ELSE 0)]
      ELSE [q \in Pieces |-> 0]

(* Mutant: a sidecar that does not match is left there.                   *)
MultiStartKeepsMeta ==
    /\ run = "multi" /\ RunAt("pieces")
    /\ done' = Resumed
    /\ qstate' = [q \in Pieces |-> IF Resumed[q] = LenOf(q) THEN "done" ELSE "free"]
    /\ plen' \in {plen, Size}
    /\ wpc' = [w \in Workers |-> "look"] /\ left' = [w \in Workers |-> Pieces]
    /\ retries' = [w \in Workers |-> 0]
    /\ UNCHANGED <<serverVars, part, sidecar, final, stale, expected, attempt, by, wq, wver, already,
                   errors, saving, flagVars, hfaults, runs>>

(* The queue is filled, the file opened and, unless file-allocation is     *)
(* none, allocated; the workers start.                                     *)
MultiStart ==
    /\ run = "multi" /\ RunAt("pieces")
    /\ done' = Resumed
    /\ qstate' = [q \in Pieces |-> IF Resumed[q] = LenOf(q) THEN "done" ELSE "free"]
    /\ sidecar' = IF sidecar # Nothing /\ (plen = 0 \/ sidecar.ver # expected) THEN Nothing
                  ELSE sidecar
    /\ plen' \in {plen, Size}
    /\ wpc' = [w \in Workers |-> "look"] /\ left' = [w \in Workers |-> Pieces]
    /\ retries' = [w \in Workers |-> 0]
    /\ UNCHANGED <<serverVars, part, final, stale, expected, attempt, by, wq, wver, already,
                   errors, saving, flagVars, hfaults, runs>>

Stopping == cancelled \/ stopped
WorkerEnds(w, e) ==
    /\ wpc' = [wpc EXCEPT ![w] = "ended"]
    /\ errors' = errors \cup ({e} \ {"none"})

(* Mutant: the piece is not marked as it is found free.                   *)
LookAtUnclaimed(w, q) ==
    /\ wpc[w] = "look" /\ q \in left[w]
    /\ left[w] = Pieces => ~Stopping
    /\ IF qstate[q] # "free"
         THEN /\ left' = [left EXCEPT ![w] = @ \ {q}]
              /\ UNCHANGED <<wpc, wq, already, qstate>>
         ELSE /\ UNCHANGED qstate
              /\ wq' = [wq EXCEPT ![w] = q]
              /\ already' = [already EXCEPT ![w] = done[q]]
              /\ left' = [left EXCEPT ![w] = {}]
              /\ wpc' = [wpc EXCEPT ![w] = IF done[q] < LenOf(q) THEN "request" ELSE "stream"]
    /\ UNCHANGED <<serverVars, diskVars, runVars, done, wver, retries, errors, saving, flagVars,
                   hfaults, runs>>

(* claim_next looks at one piece after the other.                          *)
LookAt(w, q) ==
    /\ wpc[w] = "look" /\ q \in left[w]
    /\ left[w] = Pieces => ~Stopping
    /\ IF qstate[q] # "free"
         THEN /\ left' = [left EXCEPT ![w] = @ \ {q}]
              /\ UNCHANGED <<wpc, wq, already, qstate>>
         ELSE /\ qstate' = [qstate EXCEPT ![q] = "inflight"]
              /\ wq' = [wq EXCEPT ![w] = q]
              /\ already' = [already EXCEPT ![w] = done[q]]
              /\ left' = [left EXCEPT ![w] = {}]
              /\ wpc' = [wpc EXCEPT ![w] = IF done[q] < LenOf(q) THEN "request" ELSE "stream"]
    /\ UNCHANGED <<serverVars, diskVars, runVars, done, wver, retries, errors, saving, flagVars,
                   hfaults, runs>>

(* No piece is free: wait if one is in flight, else the work is over.      *)
NoneFree(w) ==
    /\ wpc[w] = "look" /\ left[w] = {}
    /\ IF \E q \in Pieces : qstate[q] = "inflight"
         THEN wpc' = [wpc EXCEPT ![w] = "enable"] /\ UNCHANGED errors
         ELSE WorkerEnds(w, "none")
    /\ UNCHANGED <<serverVars, diskVars, runVars, queueVars, wq, wver, already, left, retries,
                   saving, flagVars, hfaults, runs>>

LooksAgain(w) == wpc' = [wpc EXCEPT ![w] = "look"] /\ left' = [left EXCEPT ![w] = Pieces]

(* Mutant: the waiter sleeps without looking again.                        *)
WaitForChangeBlindly(w) ==
    /\ wpc[w] = "enable"
    /\ wpc' = [wpc EXCEPT ![w] = "wait"] /\ UNCHANGED left
    /\ UNCHANGED <<serverVars, diskVars, runVars, queueVars, wq, wver, already, retries, errors,
                   saving, flagVars, hfaults, runs>>

(* wait_for_change: the waiter is registered before it looks again.        *)
WaitForChange(w) ==
    /\ wpc[w] = "enable"
    /\ IF (\E q \in Pieces : qstate[q] = "inflight") /\ \A q \in Pieces : qstate[q] # "free"
         THEN wpc' = [wpc EXCEPT ![w] = "wait"] /\ UNCHANGED left
         ELSE LooksAgain(w)
    /\ UNCHANGED <<serverVars, diskVars, runVars, queueVars, wq, wver, already, retries, errors,
                   saving, flagVars, hfaults, runs>>

(* The cancellation is seen at the top of the loop and while waiting.      *)
StopIdle(w) ==
    /\ Stopping
    /\ \/ wpc[w] = "look" /\ left[w] = Pieces
       \/ wpc[w] \in {"enable", "wait"}
    /\ WorkerEnds(w, "cancelled")
    /\ UNCHANGED <<serverVars, diskVars, runVars, queueVars, wq, wver, already, left, retries,
                   saving, flagVars, hfaults, runs>>

-----------------------------------------------------------------------------
(* download_piece_stream, and what the worker makes of its result.         *)

(* complete and release of the worker's piece wake all that wait; the      *)
(* worker goes on with l, and with left as it has to be there.             *)
Settle(w, st, l) ==
    /\ qstate' = [qstate EXCEPT ![wq[w]] = st]
    /\ wpc' = [v \in Workers |-> CASE v = w -> l
                                   [] wpc[v] = "wait" -> "look"
                                   [] OTHER -> wpc[v]]
    /\ left' = [v \in Workers |-> IF v = w \/ wpc[v] = "wait" THEN Pieces ELSE left[v]]
    /\ wq' = [wq EXCEPT ![w] = 0] /\ wver' = [wver EXCEPT ![w] = 0]
    /\ already' = [already EXCEPT ![w] = 0]

(* The request is answered with 206, or If-Match, If-Unmodified-Since or   *)
(* the ETag of the answer tell that the file changed.                      *)
Respond(w) ==
    /\ wpc[w] = "request"
    /\ IF validated /\ version # expected
         THEN /\ Settle(w, "free", "ended") /\ errors' = errors \cup {"error"}
              /\ changed' = TRUE /\ stopped' = TRUE
         ELSE /\ wpc' = [wpc EXCEPT ![w] = "stream"]
              /\ wver' = [wver EXCEPT ![w] = version]
              /\ UNCHANGED <<qstate, left, wq, already, errors, changed, stopped>>
    /\ UNCHANGED <<serverVars, diskVars, runVars, done, retries, saving, cancelled, hfaults,
                   runs>>

(* ChunkWriter: pwrite_all, and only then the counters.                    *)
WriteUnit(w) ==
    /\ wpc[w] = "stream" /\ done[wq[w]] < LenOf(wq[w])
    /\ LET u == Unit(wq[w], done[wq[w]] + 1) IN
         /\ part' = [part EXCEPT ![u] = wver[w]]
         /\ plen' = IF u > plen THEN u ELSE plen
    /\ wpc' = [wpc EXCEPT ![w] = "count"]
    /\ UNCHANGED <<serverVars, sidecar, final, runVars, queueVars, wq, wver, already, left,
                   retries, errors, saving, flagVars, hfaults, runs>>

CountUnit(w) ==
    /\ wpc[w] = "count"
    /\ done' = [done EXCEPT ![wq[w]] = @ + 1]
    /\ wpc' = [wpc EXCEPT ![w] = "stream"]
    /\ UNCHANGED <<serverVars, diskVars, runVars, qstate, wq, wver, already, left, retries,
                   errors, saving, flagVars, hfaults, runs>>

(* The whole range was written.                                            *)
PieceDone(w) ==
    /\ wpc[w] = "stream" /\ done[wq[w]] = LenOf(wq[w])
    /\ Settle(w, "done", "look")
    /\ retries' = [retries EXCEPT ![w] = 0]
    /\ UNCHANGED <<serverVars, diskVars, runVars, done, errors, saving, flagVars, hfaults, runs>>

(* The source fails, is slow or closes early: progress resets the retries, *)
(* without it they are counted.                                            *)
SourceFails(w) ==
    /\ wpc[w] \in {"request", "stream"} /\ done[wq[w]] < LenOf(wq[w]) /\ Hit
    /\ IF done[wq[w]] > already[w]
         THEN /\ Settle(w, "free", "look") /\ UNCHANGED errors
              /\ retries' = [retries EXCEPT ![w] = 0]
         ELSE IF retries[w] < MaxRetries
         THEN /\ Settle(w, "free", "look") /\ UNCHANGED errors
              /\ retries' = [retries EXCEPT ![w] = @ + 1]
         ELSE /\ Settle(w, "free", "ended") /\ errors' = errors \cup {"error"}
              /\ UNCHANGED retries
    /\ UNCHANGED <<serverVars, diskVars, runVars, done, saving, flagVars, runs>>

StorageFails(w) ==
    /\ wpc[w] = "stream" /\ done[wq[w]] < LenOf(wq[w]) /\ Hit
    /\ Settle(w, "free", "ended") /\ errors' = errors \cup {"error"}
    /\ UNCHANGED <<serverVars, diskVars, runVars, done, retries, saving, flagVars, runs>>

StopPiece(w) ==
    /\ wpc[w] \in {"request", "stream"} /\ done[wq[w]] < LenOf(wq[w]) /\ Stopping
    /\ Settle(w, "free", "ended") /\ errors' = errors \cup {"cancelled"}
    /\ UNCHANGED <<serverVars, diskVars, runVars, done, retries, saving, flagVars, hfaults, runs>>

-----------------------------------------------------------------------------
(* save_task: a snapshot every META_SAVE_INTERVAL when there was progress, *)
(* written by a blocking task; nothing is saved without a validator.       *)
Meta == IF validated THEN [ver |-> expected, done |-> done] ELSE sidecar

SaveTick ==
    /\ run = "pieces" /\ ~cancelled /\ validated /\ saving = Nothing
    /\ sidecar # Meta
    /\ saving' = Meta
    /\ UNCHANGED <<serverVars, diskVars, runVars, queueVars, workerVars, flagVars, hfaults, runs>>

SaveWrite ==
    /\ saving # Nothing
    /\ sidecar' = saving /\ saving' = Nothing
    /\ UNCHANGED <<serverVars, part, plen, final, runVars, queueVars, workerVars, flagVars,
                   hfaults, runs>>

SaveWriteFails ==
    /\ saving # Nothing /\ Hit
    /\ saving' = Nothing
    /\ UNCHANGED <<serverVars, diskVars, runVars, queueVars, workerVars, flagVars, runs>>

(* All workers are gone and save_task has ended.                           *)
Joined == run = "pieces" /\ saving = Nothing /\ \A w \in Workers : wpc[w] = "ended"
Finished == \A q \in Pieces : qstate[q] = "done"

(* STALE_PART_REMOVED: the run starts over, once.                          *)
StartOver ==
    IF stale THEN RunEnds
    ELSE /\ RunAt("probe") /\ stale' = TRUE /\ attempt' = 0
         /\ qstate' = [q \in Pieces |-> "free"] /\ done' = [q \in Pieces |-> 0]
         /\ wpc' = [w \in Workers |-> "off"] /\ retries' = [w \in Workers |-> 0]
         /\ left' = [w \in Workers |-> {}]
         /\ errors' = {} /\ changed' = FALSE /\ stopped' = FALSE /\ expected' = 0
         /\ UNCHANGED <<wq, wver, already, saving, cancelled>>

MultiChanged ==
    /\ Joined /\ changed
    /\ part' = NoPart /\ plen' = 0 /\ sidecar' = Nothing
    /\ StartOver
    /\ UNCHANGED <<serverVars, final, by, hfaults, runs>>

(* Some worker failed or was cancelled, or the watchdog found the download *)
(* slow: save_piece_meta, which ignores that the file cannot be written.   *)
SaveMeta ==
    \/ sidecar' = Meta /\ UNCHANGED hfaults
    \/ Hit /\ UNCHANGED sidecar
Unfinished == errors # {} /\ (errors = {"cancelled"} \/ ~Finished)
MultiFails ==
    /\ Joined /\ ~changed
    /\ Unfinished \/ cancelled
    /\ SaveMeta
    /\ RunEnds
    /\ UNCHANGED <<serverVars, part, plen, final, by, runs>>

(* Mutant: a worker's failure is ignored when another one ended well.      *)
MultiFinishesAnyway ==
    /\ Joined /\ ~changed /\ errors # {"cancelled"}
    /\ IF errors # {} THEN SaveMeta ELSE UNCHANGED <<sidecar, hfaults>>
    /\ final' = part /\ by' = "pieces"
    /\ part' = NoPart /\ plen' = 0
    /\ RunAt("unlink")
    /\ UNCHANGED <<serverVars, stale, expected, attempt, queueVars, workerVars, saving, flagVars,
                   runs>>

(* sync_file and finalize_download: the file is renamed ...                *)
MultiFinishes ==
    /\ Joined /\ ~changed /\ ~Unfinished
    /\ IF errors # {} THEN SaveMeta ELSE UNCHANGED <<sidecar, hfaults>>
    /\ final' = part /\ by' = "pieces"
    /\ part' = NoPart /\ plen' = 0
    /\ RunAt("unlink")
    /\ UNCHANGED <<serverVars, stale, expected, attempt, queueVars, workerVars, saving, flagVars,
                   runs>>

(* ... unless the sync or the rename fails: the run ends with what is on   *)
(* disk.                                                                   *)
MultiFinishFails ==
    /\ Joined /\ ~changed /\ ~Unfinished /\ Hit
    /\ sidecar' \in IF errors # {} THEN {sidecar, Meta} ELSE {sidecar}
    /\ RunEnds
    /\ UNCHANGED <<serverVars, part, plen, final, by, runs>>

(* The sidecar is deleted after the rename.                                *)
DeleteMeta ==
    /\ run = "unlink"
    /\ sidecar' = Nothing
    /\ RunEnds
    /\ UNCHANGED <<serverVars, part, plen, final, by, hfaults, runs>>

-----------------------------------------------------------------------------
(* The single connection.                                                  *)

(* A .part with a sidecar is not sequential; it is removed.                *)
Fallback ==
    /\ run = "fallback"
    /\ IF HasSidecar THEN part' = NoPart /\ plen' = 0 /\ sidecar' = Nothing
       ELSE UNCHANGED <<part, plen, sidecar>>
    /\ RunAt("single")
    /\ UNCHANGED <<serverVars, final, stale, expected, attempt, by, queueVars, workerVars, saving,
                   flagVars, hfaults, runs>>

(* The answer: the rest of the file, the file from its start to a server   *)
(* that ignores Range, or 416 with the length that is there already.       *)
SingleRespond ==
    /\ run = "single"
    /\ IF plen = Size /\ ranges
         THEN /\ final' = part /\ by' = "single"
              /\ part' = NoPart /\ plen' = 0
              /\ RunEnds
         ELSE /\ RunAt("streaming") /\ expected' = version
              /\ IF plen > 0 /\ ~ranges THEN part' = NoPart /\ plen' = 0
                 ELSE UNCHANGED <<part, plen>>
              /\ UNCHANGED <<stale, attempt, final, by, queueVars, workerVars, saving, flagVars>>
    /\ UNCHANGED <<serverVars, sidecar, hfaults, runs>>

SingleWrite ==
    /\ run = "streaming" /\ plen < Size
    /\ part' = [part EXCEPT ![plen + 1] = expected] /\ plen' = plen + 1
    /\ UNCHANGED <<serverVars, sidecar, final, runVars, queueVars, workerVars, saving, flagVars,
                   hfaults, runs>>

(* The end of the stream.                                                  *)
SingleFinishes ==
    /\ run = "streaming" /\ plen = Size
    /\ final' = part /\ by' = "single"
    /\ part' = NoPart /\ plen' = 0
    /\ RunEnds
    /\ UNCHANGED <<serverVars, sidecar, hfaults, runs>>

(* A transient error is retried from where the file ends, another is not.  *)
SingleFails ==
    /\ run \in {"single", "streaming"} /\ Hit
    /\ \/ /\ attempt < MaxRetries
          /\ attempt' = attempt + 1 /\ RunAt("single") /\ expected' = 0
          /\ UNCHANGED <<stale, queueVars, workerVars, saving, flagVars>>
       \/ RunEnds
    /\ UNCHANGED <<serverVars, diskVars, by, runs>>

(* 416 with another length, or 206 with another start: the file goes.      *)
SingleStale ==
    /\ run = "single" /\ plen > 0 /\ Hit
    /\ part' = NoPart /\ plen' = 0 /\ sidecar' = IF stale THEN sidecar ELSE Nothing
    /\ StartOver
    /\ UNCHANGED <<serverVars, final, by, runs>>

SingleStops ==
    /\ run \in {"single", "streaming"} /\ cancelled
    /\ RunEnds
    /\ UNCHANGED <<serverVars, diskVars, by, hfaults, runs>>

-----------------------------------------------------------------------------
(* The environment: a pause, or the watchdog for slow downloads; the file  *)
(* on the server is replaced; the process dies.                            *)

Cancel ==
    /\ run # "idle" /\ ~cancelled /\ Hit
    /\ cancelled' = TRUE
    /\ UNCHANGED <<serverVars, diskVars, runVars, queueVars, workerVars, saving, stopped, changed,
                   runs>>

ServerChanges ==
    /\ version < MaxVersions
    /\ version' = version + 1
    /\ UNCHANGED <<validated, ranges, diskVars, runVars, queueVars, workerVars, saving, flagVars,
                   hfaults, runs>>

Crash ==
    /\ run # "idle" /\ Hit
    /\ run = "unlink" => Orphans
    /\ RunEnds
    /\ UNCHANGED <<serverVars, diskVars, by, runs>>

-----------------------------------------------------------------------------
WorkerStep(w) ==
    \/ \E q \in Pieces : LookAt(w, q)
    \/ NoneFree(w) \/ WaitForChange(w) \/ StopIdle(w) \/ Respond(w) \/ WriteUnit(w)
    \/ CountUnit(w) \/ PieceDone(w) \/ StopPiece(w)
RunStep ==
    \/ MultiStart \/ MultiChanged \/ MultiFails \/ MultiFinishes
    \/ DeleteMeta \/ Fallback \/ SingleRespond \/ SingleWrite \/ SingleFinishes \/ SingleStops

HttpNext ==
    \/ StartRun \/ ProbeOk \/ ProbeFails \/ ProbeSkipped
    \/ RunStep \/ MultiFinishFails \/ SaveTick \/ SaveWrite \/ SaveWriteFails
    \/ \E w \in Workers : WorkerStep(w) \/ SourceFails(w) \/ StorageFails(w)
    \/ SingleFails \/ SingleStale
    \/ Cancel \/ ServerChanges \/ Crash

(* Spawned tasks run, blocking writes return, and a server that is asked   *)
(* for the file answers or times out (with_idle_timeout).  Nothing limits  *)
(* the time that the probe takes.                                          *)
HttpFairness ==
    /\ WF_httpVars(RunStep) /\ WF_httpVars(SaveWrite)
    /\ \A w \in Workers : WF_httpVars(WorkerStep(w))

HttpSpec == HttpInit /\ [][HttpNext]_httpVars /\ HttpFairness

-----------------------------------------------------------------------------
HttpTypeOK ==
    /\ part \in [Units -> 0..MaxVersions] /\ plen \in 0..Size
    /\ sidecar = Nothing \/ sidecar \in [ver : Versions, done : [Pieces -> 0..PieceLen]]
    /\ qstate \in [Pieces -> {"free", "inflight", "done"}]
    /\ done \in [Pieces -> 0..PieceLen]
    /\ wq \in [Workers -> 0..NPieces] /\ retries \in [Workers -> 0..MaxRetries]

(* A piece in flight has exactly one worker that fetches it: no two write  *)
(* the same range, and none is left in flight with nobody at it.           *)
PieceHasOneWorker ==
    /\ HttpTypeOK
    /\ \A q \in Pieces :
          Cardinality({w \in Workers : wq[w] = q}) = IF qstate[q] = "inflight" THEN 1 ELSE 0

(* What the counters of the pieces tell is in the file, of the version     *)
(* that the validator names; so is what the sidecar tells, at any moment   *)
(* the process may die: what is counted or resumed was written.            *)
Holds(d, v) == \A q \in Pieces : \A k \in 1..d[q] : part[Unit(q, k)] \in v
Current == IF validated THEN {expected} ELSE Versions
CountedIsWritten ==
    run = "pieces" =>
        /\ Holds(done, Current)
        /\ sidecar # Nothing => Holds(sidecar.done, {sidecar.ver})

(* A file finished by the workers has no hole, and if the server names     *)
(* its versions it is all of one.                                          *)
PiecesMakeWhole ==
    final # Nothing /\ by = "pieces" =>
        /\ \A u \in Units : final[u] # 0
        /\ validated => \A u, v \in Units : final[u] = final[v]

(* A file that is finished has no hole, whoever finished it.               *)
FinishedIsWhole == final # Nothing => \A u \in Units : final[u] # 0

(* A run that is past its probe ends, or starts over with another: no      *)
(* worker waits for a change that does not come.                           *)
RunsEnd == run \notin {"idle", "probe"} ~> run \in {"idle", "probe"}

(* A pause ends the run, whatever it is at.                                *)
PauseEndsRun == cancelled ~> ~cancelled
=============================================================================
