-------------------------------- MODULE Rss --------------------------------
(***************************************************************************)
(* RssManager: feeds, their items, the rules that download items by        *)
(* themselves, and the history that keeps an episode from being downloaded *)
(* twice.                                                                  *)
(*                                                                         *)
(* The store sits behind one lock, which no operation holds across an      *)
(* await.  Three kinds of tokio tasks use it: the poller (start_polling),  *)
(* which fetches feeds and evaluates the rules on what is new; the         *)
(* commands of the user, which fetch too; and the monitor of the downloads *)
(* the poller has queued (run_download_monitor), spawned when there is     *)
(* something to watch.  The engine and the sites are external.  Times, the *)
(* read and downloaded marks of an item and the statistics of a rule are   *)
(* left out, and the history is taken to be below its limit.               *)
(***************************************************************************)
EXTENDS FiniteSets, Lists

CONSTANTS
    FeedIds,      \* ids of subscriptions; a new one gets an id of its own
    Urls,         \* the sites
    Users,        \* commands that may run at once
    Poller,       \* the task of start_polling
    Monitors,     \* instances of run_download_monitor
    Rules,        \* rule ids
    None,         \* "no value"
    Published,    \* how many entries each site publishes
    Archive,      \* how many of them are there at the start
    Reissues,     \* publications, as <<site, number>>, that carry an earlier id
    Window,       \* how many entries a site shows
    ItemCap,      \* MAX_ITEMS_PER_FEED
    MaxErrors,    \* MAX_CONSECUTIVE_ERRORS
    Episode,      \* the episode key of an item, or None
    Articles,     \* which sets of items may be saved as pages, not downloaded
    Matches,      \* the items whose title a rule accepts
    Score,        \* the score a rule gives an item
    AnyMatch,     \* the rules of mode AnyMatch; the others are BestMatch
    Upgrading,    \* the rules with upgrade_existing
    Loaded,       \* the store that load() finds
    UserOps,      \* the commands the user gives
    Scopes,       \* the scopes the user gives to rules
    MaxEvents, MaxDownloads   \* bounds on commands and faults, and on downloads

Procs == Users \cup {Poller}
Entry == Urls \X Int
Items == DOMAIN Episode
Keys == {Episode[i] : i \in Items} \ {None}
Gids == 1..MaxDownloads

(* RssFeed, RssRule, EpisodeRecord and PendingDownload, as far as they are *)
(* modelled.                                                               *)
Feed == [url : Urls, active : BOOLEAN, errors : Nat, etag : Nat \cup {None}]
Rule == [id : Rules, scope : SUBSET FeedIds]
EpisodeRecord == [item : Items, score : Int, file : BOOLEAN]
Pending == [item : Items, rule : Rules, key : Keys \cup {None}, score : Int,
            prev : EpisodeRecord \cup {None}]

ASSUME NoneAssumption ==
    None \notin Rules \cup Nat \cup Feed \cup EpisodeRecord \cup Pending
ASSUME NamesAssumption ==
    /\ Poller \notin Users \cup Monitors
    /\ (Monitors \cup {Poller}) \cap Nat = {} /\ Monitors # {}
ASSUME BoundAssumption ==
    /\ Window \in Nat /\ ItemCap \in Nat /\ MaxErrors \in Nat
    /\ MaxEvents \in Nat /\ MaxDownloads \in Nat
ASSUME RulesAssumption ==
    /\ Published \in [Urls -> Nat] /\ Archive \in [Urls -> Nat]
    /\ \A e \in DOMAIN Reissues : Reissues[e] \in Int
    /\ Matches \in [Rules -> SUBSET Items] /\ Score \in [Rules -> [Items -> Int]]
    /\ Scopes \subseteq SUBSET FeedIds

(* A store that was saved: the subscriptions have items and no site has    *)
(* two of them, and rules have ids of their own.                           *)
ASSUME LoadedAssumption ==
    /\ Loaded.feeds \in [FeedIds -> Feed \cup {None}]
    /\ Loaded.items \in [FeedIds -> Seq(Entry) \cup {None}]
    /\ \A f \in FeedIds : Loaded.feeds[f] = None <=> Loaded.items[f] = None
    /\ \A f, h \in FeedIds :
          /\ Loaded.feeds[f] # None /\ Loaded.feeds[h] # None
          /\ Loaded.feeds[f].url = Loaded.feeds[h].url
          => f = h
    /\ Loaded.rules \in Seq(Rule)
    /\ \A a, b \in Elems(Loaded.rules) : a.id = b.id => a = b

VARIABLES
    \* RssStore
    feeds,        \* subscription -> [url, active, errors, etag], or None
    items,        \* subscription -> its entries, newest first, or None
    rules,        \* the rules by priority, as [id, scope]
    history,      \* episode -> [item, score, file], or None
    disk,         \* the saved store
    \* the downloads the poller has queued
    pending,      \* gid -> PendingDownload, or None
    active,       \* monitor_active
    mon,          \* the instances of the monitor
    \* the poller and the commands
    pc,
    got,          \* what a process has fetched of each feed
    adding,       \* what add_feed has fetched
    todo,         \* the new items the poller has to evaluate, as [feed, item]
    cur,          \* what the poller knows of the first of them
    dirty,        \* whether the poller has to save
    \* external
    site,         \* how many entries a site has published
    tasks,        \* the status of each download task of the engine
    engineUp,     \* whether get_manager finds an engine
    articles,     \* the items classify_item_kind takes for articles
    \* history
    events,       \* commands, failed fetches, engine stops and crashes so far
    usedFeeds,    \* subscription ids given out so far
    granted,      \* the scope the user last gave a rule, None before that
    seen,         \* items a subscription has shown
    finished,     \* episodes of which a download was recorded as complete
    savedFinished,\* those of them a save has reached
    again         \* episodes an item of which was queued while it was being downloaded

storeVars == <<feeds, items, rules, history>>
watchVars == <<pending, active, mon>>
procVars  == <<pc, got, adding, todo, cur, dirty>>
extVars   == <<site, tasks, engineUp, articles>>
ghostVars == <<usedFeeds, granted, seen, finished, savedFinished, again>>
vars == <<storeVars, disk, watchVars, procVars, extVars, events, ghostVars>>

Store == [feeds |-> feeds, items |-> items, rules |-> rules, history |-> history]
Prefix(s, n) == SubSeq(s, 1, IF n < Len(s) THEN n ELSE Len(s))
Subscribed == {f \in FeedIds : feeds[f] # None}
Active == {f \in Subscribed : feeds[f].active}
RuleIds == {r.id : r \in Elems(rules)}
Event == events < MaxEvents /\ events' = events + 1

NoFetch == [f \in FeedIds |-> None]
NoMonitor == [at |-> "none", gids |-> {}, engine |-> FALSE, job |-> None, changed |-> FALSE]

(* The entries of a site that has published v of them, newest first; a     *)
(* site may show an id twice.                                              *)
IdOf(u, n) == IF <<u, n>> \in DOMAIN Reissues THEN Reissues[<<u, n>>] ELSE n
Entries(u, v) ==
    [i \in 1..(IF v < Window THEN v ELSE Window) |-> <<u, IdOf(u, v + 1 - i)>>]

(* The entries that the etag of a feed stands for.                         *)
Named(feed) ==
    IF feed.etag = None THEN {} ELSE Elems(Prefix(Entries(feed.url, feed.etag), ItemCap))

(* RssManager::new and load.  What a loaded etag stands for was shown in   *)
(* an earlier run.                                                         *)
Init ==
    /\ feeds = Loaded.feeds
    /\ items = Loaded.items
    /\ rules = Loaded.rules
    /\ history = [k \in Keys |-> None]
    /\ disk = Store
    /\ pending = [g \in Gids |-> None]
    /\ active = FALSE
    /\ mon = [m \in Monitors |-> NoMonitor]
    /\ pc = [x \in Procs |-> "idle"]
    /\ got = [x \in Procs |-> NoFetch]
    /\ adding = [x \in Users |-> None]
    /\ todo = <<>>
    /\ cur = None
    /\ dirty = FALSE
    /\ site = Archive
    /\ tasks = <<>>
    /\ engineUp = TRUE
    /\ articles \in Articles
    /\ events = 0
    /\ usedFeeds = Subscribed
    /\ granted = [r \in Rules |-> IF r \in RuleIds
                                    THEN (CHOOSE x \in Elems(rules) : x.id = r).scope
                                    ELSE None]
    /\ seen = UNION {{<<f, i>> : i \in Elems(items[f]) \cup Named(feeds[f])} : f \in Subscribed}
    /\ finished = {}
    /\ savedFinished = {}
    /\ again = {}

-----------------------------------------------------------------------------
(* Fetching: what update_feed, update_feeds and add_feed share.            *)

(* fetch_feed: what the site may answer to a request.                      *)
Answers(asked) ==
    LET v == site[asked.url]
    IN  {IF asked.etag = v THEN [kind |-> "same"] ELSE [kind |-> "new", version |-> v]}
          \cup (IF events < MaxEvents
                  THEN {[kind |-> "transient"], [kind |-> "permanent"]}
                  ELSE {})

(* update_feed and update_feeds read url and etag under the lock.          *)
BeginFetch(x, D) ==
    /\ pc[x] = "idle"
    /\ D # {}
    /\ got' = [got EXCEPT ![x] =
                 [f \in FeedIds |->
                    IF f \in D THEN [kind |-> "asked", url |-> feeds[f].url,
                                     etag |-> feeds[f].etag]
                               ELSE None]]
    /\ pc' = [pc EXCEPT ![x] = "fetch"]
    /\ UNCHANGED <<storeVars, disk, watchVars, adding, todo, cur, dirty, extVars, ghostVars>>

(* start_polling: a round over the feeds that are due.                     *)
PollDue(D) ==
    /\ D \subseteq Active
    /\ BeginFetch(Poller, D)
    /\ UNCHANGED events

Asked(x) == {f \in FeedIds : got[x][f] # None /\ got[x][f].kind = "asked"}
Fetched(x) == {f \in FeedIds : got[x][f] # None}

Fetch(x, f) ==
    /\ pc[x] = "fetch"
    /\ f \in Asked(x)
    /\ \E a \in Answers(got[x][f]) :
         /\ got' = [got EXCEPT ![x][f] = a]
         /\ IF a.kind \in {"transient", "permanent"} THEN Event ELSE UNCHANGED events
    /\ pc' = IF Asked(x) = {f} THEN [pc EXCEPT ![x] = "apply"] ELSE pc
    /\ UNCHANGED <<storeVars, disk, watchVars, adding, todo, cur, dirty, extVars, ghostVars>>

(* Mutant: an id that an answer holds twice is new twice.                  *)
FreshUnchecked(f, url, version) ==
    Without(Prefix(Entries(url, version), ItemCap), Elems(items[f]))

(* The entries of an answer that the feed does not hold, each once, in     *)
(* their order.                                                            *)
Fresh(f, url, version) ==
    NewOnes(Prefix(Entries(url, version), ItemCap), Elems(items[f]))

(* The feed's record after an answer.                                      *)
FeedAfter(feed, a) ==
    LET n == IF feed.errors < MaxErrors THEN feed.errors + 1 ELSE MaxErrors
    IN  CASE a.kind = "same"      -> [feed EXCEPT !.errors = 0]
          [] a.kind = "new"       -> [feed EXCEPT !.errors = 0, !.etag = a.version]
          [] a.kind = "transient" -> [feed EXCEPT !.errors = n]
          [] a.kind = "permanent" -> [feed EXCEPT !.errors = n,
                                                  !.active = @ /\ n < MaxErrors]

(* apply_fetch, once everything is fetched; the poller keeps what is new.  *)
ApplyFetch(x, f) ==
    LET a == got[x][f]
        fresh == Fresh(f, feeds[f].url, a.version)
    IN  /\ pc[x] = "apply"
        /\ f \in Fetched(x)
        /\ got' = [got EXCEPT ![x][f] = None]
        /\ pc' = IF Fetched(x) = {f} THEN [pc EXCEPT ![x] = "save"] ELSE pc
        /\ IF f \notin Subscribed
             THEN UNCHANGED <<feeds, items, todo, seen>>
             ELSE /\ feeds' = [feeds EXCEPT ![f] = FeedAfter(@, a)]
                  /\ IF a.kind = "new"
                       THEN /\ items' = [items EXCEPT ![f] = Prefix(fresh \o @, ItemCap)]
                            /\ seen' = seen \cup {<<f, i>> : i \in Elems(fresh)}
                            /\ todo' = IF x = Poller
                                         THEN todo \o [i \in 1..Len(fresh) |->
                                                         [feed |-> f, item |-> fresh[i]]]
                                         ELSE todo
                       ELSE UNCHANGED <<items, todo, seen>>
        /\ UNCHANGED <<rules, history, disk, watchVars, adding, cur, dirty, extVars, events,
                       usedFeeds, granted, finished, savedFinished, again>>

(* persist; save_gate lets one save at a time take its copy and write it.  *)
Persist ==
    /\ disk' = Store
    /\ savedFinished' = finished
    /\ UNCHANGED <<storeVars, usedFeeds, granted, seen, finished, again>>

Save(x) ==
    /\ pc[x] = "save"
    /\ Persist
    /\ pc' = [pc EXCEPT ![x] = IF x = Poller /\ todo # <<>> THEN "match" ELSE "idle"]
    /\ dirty' = IF x = Poller THEN FALSE ELSE dirty
    /\ UNCHANGED <<watchVars, got, adding, todo, cur, extVars, events>>

-----------------------------------------------------------------------------
(* The poller evaluates the rules on the new items, one after the other.   *)

InScope(r, f) == r.scope = {} \/ f \in r.scope
Accepts(r, e) == InScope(r, e.feed) /\ e.item \in Matches[r.id]

(* best_matching_rule: the first AnyMatch rule that is no worse than the   *)
(* BestMatch rules before it, otherwise the best of the BestMatch rules,   *)
(* the first of equals.                                                    *)
BestMatchingRule(e) ==
    LET n == Len(rules)
        score(i) == Score[rules[i].id][e.item]
        hits == {i \in 1..n : Accepts(rules[i], e)}
        best == {i \in hits : rules[i].id \notin AnyMatch}
        anys == {i \in hits \ best : \A b \in best : b < i => score(i) >= score(b)}
        tops == {i \in best : \A b \in best :
                    score(b) < score(i) \/ (score(b) = score(i) /\ b >= i)}
        first(S) == CHOOSE i \in S : \A j \in S : i <= j
    IN  IF anys # {} THEN rules[first(anys)].id
        ELSE IF tops # {} THEN rules[first(tops)].id
        ELSE None

(* The end of evaluate_and_download for the first item.                    *)
NextItem(d) ==
    /\ todo' = Tail(todo)
    /\ cur' = None
    /\ dirty' = d
    /\ pc' = [pc EXCEPT ![Poller] =
                IF Len(todo) > 1 THEN "match" ELSE IF d THEN "save" ELSE "idle"]

(* No rule wants the item, or the schedule of the one that does forbids it.*)
MatchSkip ==
    /\ pc[Poller] = "match"
    /\ NextItem(dirty)
    /\ UNCHANGED <<storeVars, disk, watchVars, got, adding, extVars, events, ghostVars>>

Match ==
    LET e == Head(todo)
        r == BestMatchingRule(e)
    IN  /\ pc[Poller] = "match"
        /\ r # None
        /\ cur' = [rule |-> r, score |-> Score[r][e.item], key |-> Episode[e.item], prev |-> None]
        /\ pc' = [pc EXCEPT ![Poller] = "decide"]
        /\ UNCHANGED <<storeVars, disk, watchVars, got, adding, todo, dirty, extVars, events,
                       ghostVars>>

(* dedupe_decision, but for the cooldown, which may forbid any item whose  *)
(* episode has a record.                                                   *)
Wanted(rule, score, existing) ==
    existing # None => rule \in Upgrading /\ score > existing.score

Recorded(k) == IF k = None THEN None ELSE history[k]

DecideSkip ==
    /\ pc[Poller] = "decide"
    /\ Recorded(cur.key) # None
    /\ NextItem(dirty)
    /\ UNCHANGED <<storeVars, disk, watchVars, got, adding, extVars, events, ghostVars>>

Decide ==
    /\ pc[Poller] = "decide"
    /\ Wanted(cur.rule, cur.score, Recorded(cur.key))
    /\ pc' = [pc EXCEPT ![Poller] = "queue"]
    /\ UNCHANGED <<storeVars, disk, watchVars, got, adding, todo, cur, dirty, extVars, events,
                   ghostVars>>

(* There is no engine, the item has no url any more, or the engine or the  *)
(* file system refuses.                                                    *)
QueueSkip ==
    /\ pc[Poller] = "queue"
    /\ NextItem(dirty)
    /\ UNCHANGED <<storeVars, disk, watchVars, got, adding, extVars, events, ghostVars>>

(* get_item_download_url and add_http_task.                                *)
Queue ==
    LET e == Head(todo)
    IN  /\ pc[Poller] = "queue"
        /\ engineUp
        /\ e.item \notin articles
        /\ items[e.feed] # None /\ e.item \in Elems(items[e.feed])
        /\ Len(tasks) < MaxDownloads
        /\ tasks' = Append(tasks, "live")
        /\ pc' = [pc EXCEPT ![Poller] = "record"]
        /\ UNCHANGED <<storeVars, disk, watchVars, got, adding, todo, cur, dirty, site, engineUp,
                       articles, events, ghostVars>>

(* record_episode.                                                         *)
WithEpisode(h, k, item, score, file) ==
    IF k = None THEN h ELSE [h EXCEPT ![k] = [item |-> item, score |-> score, file |-> file]]

(* The downloads under way: pending, or taken out by the monitor, which is *)
(* about to settle them.                                                   *)
Watched == {g \in Gids : pending[g] # None}
Settling == {m \in Monitors : mon[m].at = "settle"}
UnderWay == {pending[g] : g \in Watched} \cup {mon[m].job.p : m \in Settling}

(* The queued download goes into the history, which keeps the record it    *)
(* replaces.                                                               *)
Record ==
    /\ pc[Poller] = "record"
    /\ history' = WithEpisode(history, cur.key, Head(todo).item, cur.score, FALSE)
    /\ cur' = [cur EXCEPT !.prev = Recorded(cur.key)]
    /\ pc' = [pc EXCEPT ![Poller] = "track"]
    /\ again' = IF \E p \in UnderWay : p.key = cur.key /\ p.item = Head(todo).item
                  THEN again \cup {cur.key} ELSE again
    /\ UNCHANGED <<feeds, items, rules, disk, watchVars, got, adding, todo, dirty, extVars, events,
                   usedFeeds, granted, seen, finished, savedFinished>>

(* Mutant: a monitor is spawned for the first pending download, whether or *)
(* not the last one is still asleep.                                       *)
TrackFirst ==
    /\ pc[Poller] = "track"
    /\ pending' = [pending EXCEPT ![Len(tasks)] =
                     [item |-> Head(todo).item, rule |-> cur.rule, key |-> cur.key,
                      score |-> cur.score, prev |-> cur.prev]]
    /\ active' = TRUE
    /\ IF \E g \in Gids : pending[g] # None THEN UNCHANGED mon
       ELSE LET m == CHOOSE m \in Monitors : mon[m].at = "none"
            IN  mon' = [mon EXCEPT ![m].at = "sleep"]
    /\ NextItem(TRUE)
    /\ UNCHANGED <<storeVars, disk, got, adding, extVars, events, ghostVars>>

(* track_download, under the lock of pending.                              *)
Track ==
    /\ pc[Poller] = "track"
    /\ pending' = [pending EXCEPT ![Len(tasks)] =
                     [item |-> Head(todo).item, rule |-> cur.rule, key |-> cur.key,
                      score |-> cur.score, prev |-> cur.prev]]
    /\ active' = TRUE
    /\ IF active THEN UNCHANGED mon
       ELSE LET m == CHOOSE m \in Monitors : mon[m].at = "none"
            IN  mon' = [mon EXCEPT ![m].at = "sleep"]
    /\ NextItem(TRUE)
    /\ UNCHANGED <<storeVars, disk, got, adding, extVars, events, ghostVars>>

Finish(k) == finished' = IF k = None THEN finished ELSE finished \cup {k}

(* An article is written at once and its record is final.                  *)
WriteArticle ==
    LET e == Head(todo)
    IN  /\ pc[Poller] = "queue"
        /\ engineUp
        /\ e.item \in articles
        /\ history' = WithEpisode(history, cur.key, e.item, cur.score, TRUE)
        /\ Finish(cur.key)
        /\ NextItem(TRUE)
        /\ UNCHANGED <<feeds, items, rules, disk, watchVars, got, adding, extVars, events,
                       usedFeeds, granted, seen, savedFinished, again>>

-----------------------------------------------------------------------------
(* run_download_monitor.                                                   *)

Mon(m, r) == mon' = [mon EXCEPT ![m] = r]
MonFrame == <<disk, procVars, extVars, events, usedFeeds, granted, seen, again>>

(* It wakes up, and goes for good when there is nothing to watch.          *)
MonitorWake(m) ==
    /\ mon[m].at = "sleep"
    /\ IF Watched = {}
         THEN active' = FALSE /\ Mon(m, NoMonitor)
         ELSE Mon(m, [mon[m] EXCEPT !.at = "engine", !.gids = Watched]) /\ UNCHANGED active
    /\ UNCHANGED <<storeVars, pending, MonFrame, finished, savedFinished>>

MonitorEngine(m) ==
    /\ mon[m].at = "engine"
    /\ Mon(m, [mon[m] EXCEPT !.at = "scan", !.engine = engineUp])
    /\ UNCHANGED <<storeVars, pending, active, MonFrame, finished, savedFinished>>

(* tell_status; without an engine every task counts as gone.               *)
Told(m, g) == IF mon[m].engine THEN tasks[g] ELSE "gone"

(* One gid of the round: a task that goes on is left alone, one that has   *)
(* ended is taken out of pending.                                          *)
MonitorCheck(m, g) ==
    /\ mon[m].at = "scan"
    /\ g \in mon[m].gids
    /\ IF Told(m, g) = "live" \/ pending[g] = None
         THEN Mon(m, [mon[m] EXCEPT !.gids = @ \ {g}]) /\ UNCHANGED pending
         ELSE /\ Mon(m, [mon[m] EXCEPT !.at = "settle", !.gids = @ \ {g},
                                       !.job = [p |-> pending[g],
                                                complete |-> Told(m, g) = "complete"]])
              /\ pending' = [pending EXCEPT ![g] = None]
    /\ UNCHANGED <<storeVars, active, MonFrame, finished, savedFinished>>

(* Mutant: the record is given back whoever has written it since.          *)
RollbackAny(h, p) == IF p.key # None THEN [h EXCEPT ![p.key] = p.prev] ELSE h

(* rollback_episode: a download that failed gives the record it replaced   *)
(* back, if the record is still its own.                                   *)
Rollback(h, p) ==
    IF p.key # None /\ h[p.key] # None /\ h[p.key].item = p.item /\ ~h[p.key].file
      THEN [h EXCEPT ![p.key] = p.prev]
      ELSE h

(* record_download, which may not be told a path, or rollback_episode.     *)
MonitorSettle(m) ==
    LET p == mon[m].job.p
    IN  /\ mon[m].at = "settle"
        /\ IF mon[m].job.complete
             THEN /\ \E file \in BOOLEAN :
                       history' = WithEpisode(history, p.key, p.item, p.score, file)
                  /\ Finish(p.key)
             ELSE history' = Rollback(history, p) /\ UNCHANGED finished
        /\ Mon(m, [mon[m] EXCEPT !.at = "scan", !.job = None, !.changed = TRUE])
        /\ UNCHANGED <<feeds, items, rules, pending, active, MonFrame, savedFinished>>

(* The end of a round.                                                     *)
MonitorRest(m) ==
    /\ mon[m].at = "scan"
    /\ mon[m].gids = {}
    /\ Mon(m, [NoMonitor EXCEPT !.at = "sleep"])
    /\ IF mon[m].changed
         THEN Persist
         ELSE UNCHANGED <<storeVars, disk, ghostVars>>
    /\ UNCHANGED <<pending, active, procVars, extVars, events>>

-----------------------------------------------------------------------------
(* The commands of the user.  Those that change the store save it.         *)

Command(x, op) ==
    /\ op \in UserOps
    /\ pc[x] = "idle"
    /\ Event

ThenSave(x) ==
    /\ pc' = [pc EXCEPT ![x] = "save"]
    /\ UNCHANGED <<disk, watchVars, got, adding, todo, cur, dirty, extVars, finished,
                   savedFinished, again>>

(* update_feed, for one feed, and update_all_feeds.                        *)
Refresh(x) ==
    /\ Command(x, "refresh")
    /\ \E D \in {{f} : f \in Subscribed} \cup {Active} : BeginFetch(x, D)

(* add_feed fetches before it takes the lock; a fetch that fails ends it.  *)
(* It lists what the site shows, an id that is there twice included.       *)
AddFeed(x, u) ==
    /\ Command(x, "add")
    /\ adding' = [adding EXCEPT ![x] = [url |-> u, version |-> site[u]]]
    /\ pc' = [pc EXCEPT ![x] = "adding"]
    /\ UNCHANGED <<storeVars, disk, watchVars, got, todo, cur, dirty, extVars, ghostVars>>

InsertFeed(x) ==
    LET u == adding[x].url
        f == CHOOSE f \in FeedIds : f \notin usedFeeds
        list == Prefix(Entries(u, adding[x].version), ItemCap)
    IN  /\ pc[x] = "adding"
        /\ adding' = [adding EXCEPT ![x] = None]
        /\ IF (\E h \in Subscribed : feeds[h].url = u) \/ usedFeeds = FeedIds
             THEN /\ pc' = [pc EXCEPT ![x] = "idle"]
                  /\ UNCHANGED <<feeds, items, usedFeeds, seen>>
             ELSE /\ feeds' = [feeds EXCEPT ![f] = [url |-> u, active |-> TRUE, errors |-> 0,
                                                    etag |-> None]]
                  /\ items' = [items EXCEPT ![f] = list]
                  /\ usedFeeds' = usedFeeds \cup {f}
                  /\ seen' = seen \cup {<<f, i>> : i \in Elems(list)}
                  /\ pc' = [pc EXCEPT ![x] = "save"]
        /\ UNCHANGED <<rules, history, disk, watchVars, got, todo, cur, dirty, extVars, events,
                       granted, finished, savedFinished, again>>

(* The rules without the feed in their scopes.                             *)
Cut(rs, f) == [i \in 1..Len(rs) |-> [rs[i] EXCEPT !.scope = @ \ {f}]]

(* Mutant: the rules keep an emptied scope.                                *)
WithoutFeedOnly(rs, f) == Cut(rs, f)

(* A rule that was scoped goes with the last feed of its scope.            *)
WithoutFeed(rs, f) ==
    Cut(Filter(rs, {r \in Elems(rs) : r.scope = {} \/ r.scope \ {f} # {}}), f)

RemoveFeed(x, f) ==
    /\ Command(x, "remove")
    /\ feeds' = [feeds EXCEPT ![f] = None]
    /\ items' = [items EXCEPT ![f] = None]
    /\ rules' = WithoutFeed(rules, f)
    /\ ThenSave(x)
    /\ UNCHANGED <<history, usedFeeds, granted, seen>>

(* update_feed_settings.                                                   *)
SetActive(x, f, on) ==
    /\ Command(x, "settings")
    /\ f \in Subscribed
    /\ feeds' = [feeds EXCEPT ![f].active = on, ![f].errors = IF on THEN 0 ELSE @]
    /\ ThenSave(x)
    /\ UNCHANGED <<items, rules, history, usedFeeds, granted, seen>>

(* delete_items.                                                           *)
DeleteItem(x, f, i) ==
    /\ Command(x, "delete")
    /\ f \in Subscribed
    /\ i \in Elems(items[f])
    /\ items' = [items EXCEPT ![f] = Without(@, {i})]
    /\ ThenSave(x)
    /\ UNCHANGED <<feeds, rules, history, usedFeeds, granted, seen>>

(* add_rule, update_rule and reorder_rules: the rule goes where its        *)
(* priority puts it.                                                       *)
OtherRules(r) == Filter(rules, {o \in Elems(rules) : o.id # r})
Placed(rs, r, at) == SubSeq(rs, 1, at) \o <<r>> \o SubSeq(rs, at + 1, Len(rs))

PutRule(x, r, scope, at) ==
    LET others == OtherRules(r)
    IN  /\ Command(x, "rule")
        /\ r \in RuleIds \/ granted[r] = None
        /\ at <= Len(others)
        /\ rules' = Placed(others, [id |-> r, scope |-> scope], at)
        /\ granted' = [granted EXCEPT ![r] = scope]
        /\ ThenSave(x)
        /\ UNCHANGED <<feeds, items, history, usedFeeds, seen>>

RemoveRule(x, r) ==
    /\ Command(x, "rule")
    /\ rules' = OtherRules(r)
    /\ ThenSave(x)
    /\ UNCHANGED <<feeds, items, history, usedFeeds, granted, seen>>

UserStep(x) ==
    \/ Refresh(x)
    \/ \E u \in Urls : AddFeed(x, u)
    \/ InsertFeed(x)
    \/ \E f \in Subscribed : RemoveFeed(x, f)
    \/ \E f \in Subscribed, on \in BOOLEAN : SetActive(x, f, on)
    \/ \E f \in Subscribed, i \in Items : DeleteItem(x, f, i)
    \/ \E r \in Rules, scope \in Scopes, at \in 0..Len(rules) : PutRule(x, r, scope, at)
    \/ \E r \in RuleIds : RemoveRule(x, r)

-----------------------------------------------------------------------------
(* The world.                                                              *)

Publish(u) ==
    /\ site[u] < Published[u]
    /\ site' = [site EXCEPT ![u] = @ + 1]
    /\ UNCHANGED <<storeVars, disk, watchVars, procVars, tasks, engineUp, articles, events,
                   ghostVars>>

(* A download ends; "gone" is a task that failed, was removed or is not in *)
(* the engine's list any more.                                             *)
TaskEnds(g) ==
    /\ tasks[g] # "gone"
    /\ \E s \in {"complete", "gone"} \ {tasks[g]} : tasks' = [tasks EXCEPT ![g] = s]
    /\ UNCHANGED <<storeVars, disk, watchVars, procVars, site, engineUp, articles, events,
                   ghostVars>>

EngineStop ==
    /\ engineUp
    /\ engineUp' = FALSE
    /\ Event
    /\ UNCHANGED <<storeVars, disk, watchVars, procVars, site, tasks, articles, ghostVars>>

EngineStart ==
    /\ ~engineUp
    /\ engineUp' = TRUE
    /\ UNCHANGED <<storeVars, disk, watchVars, procVars, site, tasks, articles, events, ghostVars>>

(* The program dies and starts again: load() reads what was saved.         *)
Crash ==
    /\ Event
    /\ feeds' = disk.feeds
    /\ items' = disk.items
    /\ rules' = disk.rules
    /\ history' = disk.history
    /\ pending' = [g \in Gids |-> None]
    /\ active' = FALSE
    /\ mon' = [m \in Monitors |-> NoMonitor]
    /\ pc' = [x \in Procs |-> "idle"]
    /\ got' = [x \in Procs |-> NoFetch]
    /\ adding' = [x \in Users |-> None]
    /\ todo' = <<>>
    /\ cur' = None
    /\ dirty' = FALSE
    /\ finished' = savedFinished
    /\ granted' = [r \in Rules |-> IF \E o \in Elems(disk.rules) : o.id = r
                                     THEN (CHOOSE o \in Elems(disk.rules) : o.id = r).scope
                                     ELSE granted[r]]
    /\ UNCHANGED <<disk, extVars, usedFeeds, seen, savedFinished, again>>

ProcStep(x) ==
    \/ \E f \in FeedIds : Fetch(x, f) \/ ApplyFetch(x, f)
    \/ Save(x)

Evaluate ==
    \/ MatchSkip \/ Match
    \/ DecideSkip \/ Decide
    \/ QueueSkip \/ Queue \/ WriteArticle
    \/ Record \/ Track

MonitorStep(m) ==
    \/ MonitorWake(m) \/ MonitorEngine(m) \/ MonitorSettle(m) \/ MonitorRest(m)
    \/ \E g \in Gids : MonitorCheck(m, g)

World ==
    \/ \E u \in Urls : Publish(u)
    \/ \E g \in 1..Len(tasks) : TaskEnds(g)
    \/ EngineStop \/ EngineStart \/ Crash

Next ==
    \/ \E D \in SUBSET FeedIds : PollDue(D)
    \/ \E x \in Procs : ProcStep(x)
    \/ Evaluate
    \/ \E m \in Monitors : MonitorStep(m)
    \/ \E x \in Users : UserStep(x)
    \/ World

Spec == Init /\ [][Next]_vars

-----------------------------------------------------------------------------
Running == {m \in Monitors : mon[m].at # "none"}

(* What track_download has taken down is watched: as long as a download is *)
(* pending the flag is set and one monitor runs, never two, although the   *)
(* monitor leaves by itself while downloads come in.                       *)
DownloadsWatched ==
    /\ Watched # {} => active
    /\ Cardinality(Running) = IF active THEN 1 ELSE 0

(* Removing a feed leaves nothing behind, whatever was being fetched:      *)
(* items belong to subscriptions, no site is subscribed to twice, and a    *)
(* rule the user gave a scope never applies outside it, in particular not  *)
(* to every feed (remove_feed, apply_fetch).  An etag stands for entries   *)
(* the feed has shown: overlapping fetches never make the site hold back   *)
(* what nobody has seen.  And the poller evaluates no item twice in a      *)
(* round, though a site may show an id twice (seen_new of apply_fetch).    *)
FeedsInOrder ==
    /\ \A f \in FeedIds : items[f] # None => f \in Subscribed
    /\ \A f, h \in Subscribed : feeds[f].url = feeds[h].url => f = h
    /\ \A f \in Subscribed : \A i \in Named(feeds[f]) : <<f, i>> \in seen
    /\ \A i \in 1..Len(rules) :
         granted[rules[i].id] # {}
         => rules[i].scope # {} /\ rules[i].scope \subseteq granted[rules[i].id]
    /\ NoRepeats(todo)

(* A feed lists an item once.  This fails: add_feed lists what it has      *)
(* fetched as it is, without the check that apply_fetch makes.             *)
ItemsListedOnce == \A f \in Subscribed : NoRepeats(items[f])

(* Rules that do not upgrade download an episode once: no two of their     *)
(* downloads of one episode are under way together.  And an episode whose  *)
(* download was recorded as complete keeps a record, whatever fails later  *)
(* (evaluate_and_download, record_download, rollback_episode); but         *)
(* rollback_episode takes a record for its own that another download of    *)
(* the same item has written, so episodes where an item was queued again   *)
(* while it was being downloaded are left out.                             *)
OncePerEpisode ==
    /\ \A g, h \in Watched :
         /\ g # h
         /\ pending[g].key = pending[h].key
         /\ pending[g].key # None
         => {pending[g].rule, pending[h].rule} \cap Upgrading # {}
    /\ \A k \in finished \ again : history[k] # None

(* An episode with a file on record keeps one: a later upgrade that fails  *)
(* gives it back.  This fails when the program dies during the upgrade,    *)
(* or when two upgrades of the episode are under way and both fail (the    *)
(* second gives back the record of the first).                             *)
FileIsKept ==
    \A k \in finished :
       \/ history[k].file
       \/ pc[Poller] = "track"
       \/ \E g \in Watched : pending[g].key = k
       \/ \E m \in Running : mon[m].job # None
=============================================================================
