------------------------------ MODULE Uploads ------------------------------
(***************************************************************************)
(* UploadSinkManager of upload/manager.rs: the settings of the sinks, the  *)
(* upload jobs, and the semaphore that limits how many of them run.        *)
(*                                                                         *)
(* A finished download is a request to upload its file (see Engine).  Each *)
(* job is a tokio task of its own; callers change sinks, rules and the     *)
(* limit, cancel jobs and clear the history meanwhile.                     *)
(***************************************************************************)
EXTENDS Naturals, Sequences, FiniteSets

CONSTANTS
    Files,        \* finished downloads, one file each
    Jobs,         \* job ids
    Sinks,        \* sink ids
    Users,        \* callers that change the settings
    NoVal,        \* "no value" of the optional fields
    Widths,       \* values of max_concurrency, within 1..16
    MaxTerminal,  \* MAX_TERMINAL_JOBS
    MaxAttempts,  \* MAX_UPLOAD_ATTEMPTS
    MaxConfigs,   \* bound on the configurations a sink goes through
    MaxUserOps    \* bound on the number of calls

ASSUME UploadBounds ==
    /\ Widths \subseteq 1..16 /\ Widths # {}
    /\ MaxTerminal \in Nat /\ MaxAttempts \in Nat \ {0}
    /\ MaxConfigs \in Nat \ {0} /\ MaxUserOps \in Nat
ASSUME UploadNames ==
    /\ NoVal \notin Sinks \cup Files \cup Jobs /\ Users \cap Jobs = {}
    /\ Sinks # {}

VARIABLES
    requests,     \* files that enqueue_for_file was spawned for
    \* the settings: UploadStore, and its copy on disk
    store,        \* config (0: no such sink), rules by sink, default sink, width
    stored,       \* the file
    saving,       \* save(): the snapshot a caller or a job is about to write
    runtime,      \* sink_runtimes: the configuration a cached sink was built from
    \* the jobs
    jfile, jsink, jconf,   \* file, sink, and the copy of the sink's configuration
    jstat,        \* UploadJob.status, or Absent
    jpc, tries,
    tokens,       \* cancels: jobs that cancel_job can find
    stopped,      \* jobs whose token is cancelled
    \* the semaphore
    free, queue,  \* permits, and the waiting jobs and retirements in order
    upc, uops,    \* the callers
    \* the files
    here,         \* files still in the download directory
    uploaded      \* files some sink has received

storeVars == <<store, stored, saving, runtime>>
jobVars   == <<jfile, jsink, jconf, jstat, jpc, tries, tokens, stopped>>
semVars   == <<free, queue>>
uploadVars == <<requests, storeVars, jobVars, semVars, upc, uops, here, uploaded>>

-----------------------------------------------------------------------------
Terminal == {"Complete", "Failed", "Cancelled"}
Settings ==
    [config : [Sinks -> 0..MaxConfigs], rules : SUBSET Sinks,
     default : Sinks \cup {NoVal}, width : Widths]
Savers == Users \cup Jobs
Known(s) == store.config[s] # 0
Step(j, l) == jpc' = [jpc EXCEPT ![j] = l]
Mark(j, s) == jstat' = [jstat EXCEPT ![j] = IF @ = "Absent" THEN @ ELSE s]

(* The semaphore fills its waiters in order, one permit after the other:   *)
(* the acquire_many(n) that set_max_concurrency spawns stands for n        *)
(* waiters in a row, which are nobody's jobs.                              *)
Retirement(n) == [i \in 1..n |-> NoVal]
Without(seq, i) == SubSeq(seq, 1, i - 1) \o SubSeq(seq, i + 1, Len(seq))

UploadInit ==
    /\ requests = {}
    /\ LET d == CHOOSE s \in Sinks : TRUE IN
         \E w \in Widths :
            store = [config |-> [s \in Sinks |-> IF s = d THEN 1 ELSE 0], rules |-> {d},
                     default |-> d, width |-> w]
    /\ stored = store
    /\ saving = [p \in Savers |-> NoVal]
    /\ runtime = [s \in Sinks |-> NoVal]
    /\ jfile = [j \in Jobs |-> NoVal] /\ jsink = [j \in Jobs |-> NoVal]
    /\ jconf = [j \in Jobs |-> 0] /\ jstat = [j \in Jobs |-> "Absent"]
    /\ jpc = [j \in Jobs |-> "none"] /\ tries = [j \in Jobs |-> 1]
    /\ tokens = {} /\ stopped = {}
    /\ free = store.width /\ queue = <<>>
    /\ upc = [u \in Users |-> "idle"] /\ uops = 0
    /\ here = Files /\ uploaded = {}

-----------------------------------------------------------------------------
(* enqueue_for_file.                                                       *)

(* The event bridge spawns it for a download that is complete.             *)
Request(f) ==
    /\ requests' = requests \cup {f}
    /\ UNCHANGED <<storeVars, jobVars, semVars, upc, uops, here, uploaded>>

(* pick_sink: the override of the task, a matching rule, or the default.   *)
Picks == {NoVal} \cup {s \in Sinks : Known(s) /\ s \in store.rules} \cup {store.default}

(* The task is gone (files_for_upload), or no sink is chosen.              *)
Unwanted(f) ==
    /\ f \in requests
    /\ requests' = requests \ {f}
    /\ UNCHANGED <<storeVars, jobVars, semVars, upc, uops, here, uploaded>>

PickSink(j, f, s) ==
    /\ f \in requests /\ jpc[j] = "none"
    /\ s \in Picks \ {NoVal}
    /\ requests' = requests \ {f}
    /\ jfile' = [jfile EXCEPT ![j] = f]
    /\ jsink' = [jsink EXCEPT ![j] = s]
    /\ Step(j, "record")
    /\ UNCHANGED <<storeVars, jconf, jstat, tries, tokens, stopped, semVars, upc, uops,
                   here, uploaded>>

(* prune_terminal_jobs: the oldest finished jobs past the cap; creation    *)
(* times are seconds, so that any of the finished ones may be oldest.      *)
Prunes ==
    LET done == {j \in Jobs : jstat[j] \in Terminal}
        n == Cardinality(done)
    IN  {S \in SUBSET done : Cardinality(S) = IF n > MaxTerminal THEN n - MaxTerminal ELSE 0}

(* The sink is looked up again; the job is listed with a copy of it, its   *)
(* token is registered, and run_job is spawned, which asks for a permit.   *)
ListJob(j) ==
    /\ jpc[j] = "record"
    /\ IF Known(jsink[j])
         THEN /\ \E S \in Prunes :
                   jstat' = [k \in Jobs |-> IF k = j THEN "Queued"
                                            ELSE IF k \in S THEN "Absent" ELSE jstat[k]]
              /\ jconf' = [jconf EXCEPT ![j] = store.config[jsink[j]]]
              /\ tokens' = tokens \cup {j}
              /\ queue' = Append(queue, j)
              /\ Step(j, "queued")
         ELSE Step(j, "gone") /\ UNCHANGED <<jstat, jconf, tokens, queue>>
    /\ UNCHANGED <<requests, storeVars, jfile, jsink, tries, stopped, free, upc, uops, here,
                   uploaded>>

-----------------------------------------------------------------------------
(* run_job.                                                                *)

(* The semaphore hands permits to its waiters in order, one by one; what   *)
(* a retirement gets is forgotten.                                         *)
Grant ==
    /\ free > 0 /\ queue # <<>>
    /\ free' = free - 1
    /\ queue' = Tail(queue)
    /\ IF Head(queue) \in Jobs THEN Step(Head(queue), "permit") ELSE UNCHANGED jpc
    /\ UNCHANGED <<requests, storeVars, jfile, jsink, jconf, jstat, tries, tokens, stopped,
                   upc, uops, here, uploaded>>

(* The select! sees the token while the job waits ...                      *)
StopQueued(j) ==
    /\ jpc[j] = "queued" /\ j \in stopped
    /\ \E i \in DOMAIN queue : queue[i] = j /\ queue' = Without(queue, i)
    /\ tokens' = tokens \ {j}
    /\ Step(j, "cancelled")
    /\ UNCHANGED <<requests, storeVars, jfile, jsink, jconf, jstat, tries, stopped, free,
                   upc, uops, here, uploaded>>

(* ... or the check after it does; the permit goes back.                   *)
StopPermit(j) ==
    /\ jpc[j] = "permit" /\ j \in stopped
    /\ free' = free + 1
    /\ tokens' = tokens \ {j}
    /\ Step(j, "cancelled")
    /\ UNCHANGED <<requests, storeVars, jfile, jsink, jconf, jstat, tries, stopped, queue,
                   upc, uops, here, uploaded>>

Activate(j) ==
    /\ jpc[j] = "permit" /\ j \notin stopped
    /\ Mark(j, "Active")
    /\ Step(j, "runtime")
    /\ UNCHANGED <<requests, storeVars, jfile, jsink, jconf, tries, tokens, stopped, semVars,
                   upc, uops, here, uploaded>>

(* sink_runtime_for, under the read lock of the store: the cached runtime, *)
(* or a new one of the sink's present configuration.                       *)
SinkRuntime(j) ==
    /\ jpc[j] = "runtime"
    /\ LET s == jsink[j] IN
         runtime' = IF Known(s) /\ runtime[s] = NoVal
                      THEN [runtime EXCEPT ![s] = store.config[s]] ELSE runtime
    /\ Step(j, "uploading")
    /\ UNCHANGED <<requests, store, stored, saving, jfile, jsink, jconf, jstat, tries, tokens,
                   stopped, semVars, upc, uops, here, uploaded>>

(* The upload succeeds (only a file that is there can be read): the permit *)
(* is dropped and cleanup_active takes the token, so that cancel_job does  *)
(* not find the job any more.                                              *)
UploadOk(j) ==
    /\ jpc[j] = "uploading"
    /\ jfile[j] \in here
    /\ uploaded' = uploaded \cup {jfile[j]}
    /\ free' = free + 1
    /\ tokens' = tokens \ {j}
    /\ Step(j, "post")
    /\ UNCHANGED <<requests, storeVars, jfile, jsink, jconf, jstat, tries, stopped, queue, upc,
                   uops, here>>

(* Mutant: a failed upload keeps its permit.                               *)
UploadFailsHolding(j) ==
    /\ jpc[j] \in {"runtime", "uploading"}
    /\ tokens' = tokens \ {j}
    /\ Step(j, IF j \in stopped THEN "cancelled" ELSE "failed")
    /\ UNCHANGED <<requests, storeVars, jfile, jsink, jconf, jstat, tries, stopped, semVars, upc,
                   uops, here, uploaded>>

(* It fails, or is cancelled, or no runtime can be built.                  *)
UploadFails(j) ==
    /\ jpc[j] \in {"runtime", "uploading"}
    /\ free' = free + 1
    /\ tokens' = tokens \ {j}
    /\ Step(j, IF j \in stopped THEN "cancelled" ELSE "failed")
    /\ UNCHANGED <<requests, storeVars, jfile, jsink, jconf, jstat, tries, stopped, queue, upc,
                   uops, here, uploaded>>

(* It fails in a way worth another attempt; the permit is kept.            *)
UploadRetries(j) ==
    /\ jpc[j] = "uploading"
    /\ tries[j] < MaxAttempts /\ j \notin stopped
    /\ tries' = [tries EXCEPT ![j] = @ + 1]
    /\ UNCHANGED <<requests, storeVars, jfile, jsink, jconf, jstat, jpc, tokens, stopped,
                   semVars, upc, uops, here, uploaded>>

(* Mutant: the post-action does not look at the result.                    *)
PostActionAlways(j) ==
    /\ jpc[j] \in {"post", "failed"}
    /\ here' \in {here, here \ {jfile[j]}}
    /\ Mark(j, "Complete")
    /\ Step(j, "touch")
    /\ UNCHANGED <<requests, storeVars, jfile, jsink, jconf, tries, tokens, stopped,
                   semVars, upc, uops, uploaded>>

(* run_post_action: keep the file, or trash or move it; it may fail.  Then *)
(* complete_job; the job may have been pruned.                             *)
PostAction(j) ==
    /\ jpc[j] = "post"
    /\ here' \in {here, here \ {jfile[j]}}
    /\ Mark(j, "Complete")
    /\ Step(j, "touch")
    /\ UNCHANGED <<requests, storeVars, jfile, jsink, jconf, tries, tokens, stopped,
                   semVars, upc, uops, uploaded>>

(* fail_job, cancel_job_state.                                             *)
Finish(j) ==
    /\ \/ jpc[j] = "failed" /\ Mark(j, "Failed")
       \/ jpc[j] = "cancelled" /\ Mark(j, "Cancelled")
    /\ Step(j, "gone")
    /\ UNCHANGED <<requests, storeVars, jfile, jsink, jconf, tries, tokens, stopped, semVars,
                   upc, uops, here, uploaded>>

(* touch_sink_used.                                                        *)
TouchSink(j) ==
    /\ jpc[j] = "touch"
    /\ Step(j, IF Known(jsink[j]) THEN "save" ELSE "gone")
    /\ UNCHANGED <<requests, storeVars, jfile, jsink, jconf, jstat, tries, tokens, stopped,
                   semVars, upc, uops, here, uploaded>>

-----------------------------------------------------------------------------
(* Callers.  Each operation changes the store under its write lock and     *)
(* then calls save().                                                      *)

Operate(u, st, rt) ==
    /\ upc[u] = "idle" /\ uops < MaxUserOps
    /\ uops' = uops + 1
    /\ upc' = [upc EXCEPT ![u] = "save"]
    /\ store' = st /\ runtime' = rt
    /\ UNCHANGED <<requests, stored, saving, jobVars, here, uploaded>>

AddSink(u, s, c) ==
    /\ ~Known(s)
    /\ Operate(u, [store EXCEPT !.config[s] = c,
                                !.default = IF @ = NoVal THEN s ELSE @], runtime)
    /\ UNCHANGED semVars

(* update_sink: the cached runtime is dropped under the same lock.         *)
UpdateSink(u, s, c) ==
    /\ Known(s)
    /\ Operate(u, [store EXCEPT !.config[s] = c], [runtime EXCEPT ![s] = NoVal])
    /\ UNCHANGED semVars

(* remove_sink: its rules go too, and another sink becomes the default     *)
(* (the first in the list, whose order is left out).                       *)
RemoveSink(u, s) ==
    /\ Known(s)
    /\ LET rest == {t \in Sinks \ {s} : Known(t)} IN
         \E d \in IF store.default # s THEN {store.default}
                  ELSE IF rest = {} THEN {NoVal} ELSE rest :
            Operate(u, [store EXCEPT !.config[s] = 0, !.rules = @ \ {s}, !.default = d],
                    [runtime EXCEPT ![s] = NoVal])
    /\ UNCHANGED semVars

SetDefault(u, d) ==
    /\ d # NoVal => Known(d)
    /\ Operate(u, [store EXCEPT !.default = d], runtime)
    /\ UNCHANGED semVars

(* add_rule, remove_rule, update_rule: which sinks the rules name.         *)
ChangeRules(u, gone, new) ==
    /\ gone \subseteq store.rules /\ \A s \in new : Known(s)
    /\ gone # new
    /\ Operate(u, [store EXCEPT !.rules = (@ \ gone) \cup new], runtime)
    /\ UNCHANGED semVars

(* Mutant: permits to retire are taken as if they were free now.           *)
SetMaxConcurrencyNow(u, n) ==
    /\ Operate(u, [store EXCEPT !.width = n], runtime)
    /\ free' = IF n >= store.width THEN free + (n - store.width)
               ELSE IF free >= store.width - n THEN free - (store.width - n) ELSE 0
    /\ UNCHANGED queue

(* More permits are added at once; fewer are retired by a task that queues *)
(* for them behind the jobs that wait.                                     *)
SetMaxConcurrency(u, n) ==
    /\ Operate(u, [store EXCEPT !.width = n], runtime)
    /\ free' = IF n > store.width THEN free + (n - store.width) ELSE free
    /\ queue' = IF n < store.width THEN queue \o Retirement(store.width - n) ELSE queue

CancelJob(j) ==
    /\ uops < MaxUserOps /\ j \in tokens \ stopped
    /\ uops' = uops + 1
    /\ stopped' = stopped \cup {j}
    /\ UNCHANGED <<requests, storeVars, jfile, jsink, jconf, jstat, jpc, tries, tokens, semVars,
                   upc, here, uploaded>>

ClearHistory ==
    /\ uops < MaxUserOps
    /\ uops' = uops + 1
    /\ jstat' = [j \in Jobs |-> IF jstat[j] \in Terminal THEN "Absent" ELSE jstat[j]]
    /\ UNCHANGED <<requests, storeVars, jfile, jsink, jconf, jpc, tries, tokens, stopped,
                   semVars, upc, here, uploaded>>

-----------------------------------------------------------------------------
(* save, by a caller or by a job that completed: nothing orders the        *)
(* snapshots of two savers and their writes.                               *)
SaveSnapshot(p) ==
    /\ saving[p] = NoVal
    /\ IF p \in Users THEN upc[p] = "save" ELSE jpc[p] = "save"
    /\ saving' = [saving EXCEPT ![p] = store]
    /\ UNCHANGED <<requests, store, stored, runtime, jobVars, semVars, upc, uops, here, uploaded>>

SaveWrite(p) ==
    /\ saving[p] # NoVal
    /\ stored' \in {saving[p], stored}
    /\ saving' = [saving EXCEPT ![p] = NoVal]
    /\ IF p \in Users THEN upc' = [upc EXCEPT ![p] = "idle"] /\ UNCHANGED jpc
                      ELSE Step(p, "gone") /\ UNCHANGED upc
    /\ UNCHANGED <<requests, store, runtime, jfile, jsink, jconf, jstat, tries, tokens, stopped,
                   semVars, uops, here, uploaded>>

-----------------------------------------------------------------------------
RunStep(j) ==
    \/ StopQueued(j) \/ StopPermit(j) \/ Activate(j) \/ SinkRuntime(j)
    \/ UploadOk(j) \/ UploadFails(j) \/ UploadRetries(j)
    \/ PostAction(j) \/ Finish(j) \/ TouchSink(j)
JobStep(j) == ListJob(j) \/ RunStep(j) \/ SaveSnapshot(j) \/ SaveWrite(j)

UserStep(u) ==
    \/ \E s \in Sinks, c \in 1..MaxConfigs : AddSink(u, s, c) \/ UpdateSink(u, s, c)
    \/ \E s \in Sinks : RemoveSink(u, s)
    \/ \E d \in Sinks \cup {NoVal} : SetDefault(u, d)
    \/ \E gone, new \in {{}} \cup {{s} : s \in Sinks} : ChangeRules(u, gone, new)
    \/ \E n \in Widths \ {store.width} : SetMaxConcurrency(u, n)
    \/ SaveSnapshot(u) \/ SaveWrite(u)

UploadNext ==
    \/ \E f \in Files : Unwanted(f) \/ \E j \in Jobs, s \in Sinks : PickSink(j, f, s)
    \/ Grant \/ ClearHistory
    \/ \E j \in Jobs : JobStep(j) \/ CancelJob(j)
    \/ \E u \in Users : UserStep(u)

(* Tasks that are spawned run; an upload ends, one way or the other.       *)
UploadFairness ==
    /\ WF_uploadVars(Grant)
    /\ \A j \in Jobs : WF_uploadVars(JobStep(j))

(* The upload manager, with downloads that complete at any time.           *)
UploadSpec ==
    /\ UploadInit /\ [][UploadNext \/ \E f \in Files : Request(f)]_uploadVars
    /\ UploadFairness

-----------------------------------------------------------------------------
UploadTypeOK ==
    /\ requests \subseteq Files /\ here \subseteq Files /\ uploaded \subseteq Files
    /\ store \in Settings /\ stored \in Settings
    /\ saving \in [Savers -> Settings \cup {NoVal}]
    /\ runtime \in [Sinks -> 1..MaxConfigs \cup {NoVal}]
    /\ jstat \in [Jobs -> Terminal \cup {"Absent", "Queued", "Active"}]
    /\ tokens \subseteq Jobs /\ stopped \subseteq Jobs
    /\ free \in Nat /\ uops \in 0..MaxUserOps

(* The rules and the default of a store name sinks that exist.             *)
Consistent(st) ==
    /\ \A s \in st.rules : st.config[s] # 0
    /\ st.default # NoVal => st.config[st.default] # 0

(* The permits: free ones, held ones and those still to be retired add up  *)
(* to max_concurrency, however often it changes while jobs run.            *)
Holders == {j \in Jobs : jpc[j] \in {"permit", "runtime", "uploading"}}
Retiring == {i \in DOMAIN queue : queue[i] = NoVal}
PermitsAccounted == free + Cardinality(Holders) = store.width + Cardinality(Retiring)

(* Edits, jobs and saves that overlap leave the manager in order: the      *)
(* settings are consistent in memory and in every copy that is or may get  *)
(* on disk; a job that waits or runs is listed and can be cancelled, and   *)
(* one that is over has left no token behind; a file is only trashed or    *)
(* moved away once a sink has it; and a cached runtime is one of the       *)
(* sink's present configuration, so that no upload that starts after       *)
(* update_sink uses the old credentials.                                   *)
Live(j) == jpc[j] \in {"queued", "permit", "runtime", "uploading"}
UploadsInOrder ==
    /\ UploadTypeOK
    /\ Consistent(store) /\ Consistent(stored)
    /\ \A p \in Savers : saving[p] # NoVal => Consistent(saving[p])
    /\ \A j \in Jobs : /\ Live(j) <=> j \in tokens
                       /\ Live(j) => jstat[j] \in {"Queued", "Active"}
    /\ Files \ here \subseteq uploaded
    /\ \A s \in Sinks : runtime[s] \in {NoVal, store.config[s]}

(* Every job ends, whatever the limit does meanwhile: as no more files     *)
(* arrive there comes a time when none is left.                            *)
JobsSettle == []<>(\A j \in Jobs : jpc[j] \in {"none", "gone"})
=============================================================================
