----------------------------- MODULE RssProofs -----------------------------
(***************************************************************************)
(* Proofs about Rss, for every set of sites, subscriptions, rules and      *)
(* users, and every bound.                                                 *)
(***************************************************************************)
EXTENDS Rss, QueueOrderProofs

-----------------------------------------------------------------------------
(* Every step is one of these.                                             *)

StepOf(x) == ProcStep(x) \/ UserStep(x)
Fetches == \E D \in SUBSET FeedIds : PollDue(D)
Idles == (\E u \in Urls : Publish(u)) \/ (\E g \in 1..Len(tasks) : TaskEnds(g))
           \/ EngineStop \/ EngineStart

LEMMA Steps ==
    [Next]_vars => \/ Fetches \/ (\E x \in Procs : ProcStep(x)) \/ (\E x \in Users : UserStep(x))
                   \/ Evaluate \/ (\E m \in Monitors : MonitorStep(m))
                   \/ Idles \/ Crash \/ UNCHANGED vars
  BY DEF Next, World, Fetches, Idles

-----------------------------------------------------------------------------
(* The store: feeds and their items, for the one in memory and the one on  *)
(* disk.                                                                   *)

(* A subscription has a list of items; it has shown them, and what its     *)
(* etag stands for.                                                        *)
FeedOK(f, feed, list, sn) ==
    \/ feed = None /\ list = None
    \/ /\ feed \in Feed /\ list \in Seq(Entry)
       /\ \A i \in Elems(list) \cup Named(feed) : <<f, i>> \in sn

FeedsOK(F, I, sn) ==
    /\ F \in [FeedIds -> Feed \cup {None}] /\ I \in [FeedIds -> Seq(Entry) \cup {None}]
    /\ \A f \in FeedIds : FeedOK(f, F[f], I[f], sn)
    /\ \A f, h \in FeedIds : F[f] # None /\ F[h] # None /\ F[f].url = F[h].url => f = h

(* Rules have ids of their own; their scopes are within what the user gave *)
(* them, and do not become empty.                                          *)
RulesOK(R) == R \in Seq(Rule) /\ \A a, b \in Elems(R) : a.id = b.id => a = b
ScopesOK(R, gr) ==
    \A a \in Elems(R) : gr[a.id] # {} => a.scope \subseteq gr[a.id] /\ a.scope # {}

(* What is being fetched.                                                  *)
Got == [kind : {"asked"}, url : Urls, etag : Nat \cup {None}]
         \cup [kind : {"same", "transient", "permanent"}] \cup [kind : {"new"}, version : Nat]
Adding == [url : Urls, version : Nat]
Places == {"idle", "fetch", "apply", "save", "adding", "match", "decide", "queue", "record",
           "track"}
FetchTypes ==
    /\ pc \in [Procs -> Places] /\ got \in [Procs -> [FeedIds -> Got \cup {None}]]
    /\ \A x \in Procs, f \in FeedIds :
          pc[x] = "apply" /\ got[x][f] # None => got[x][f].kind # "asked"
    /\ adding \in [Users -> Adding \cup {None}]
    /\ \A x \in Users : pc[x] = "adding" => adding[x] \in Adding
    /\ site \in [Urls -> Nat] /\ usedFeeds \subseteq FeedIds
    /\ granted \in [Rules -> (SUBSET FeedIds) \cup {None}]

StoreInv ==
    /\ FetchTypes
    /\ FeedsOK(feeds, items, seen) /\ FeedsOK(disk.feeds, disk.items, seen)
    /\ RulesOK(rules) /\ RulesOK(disk.rules) /\ ScopesOK(rules, granted)

-----------------------------------------------------------------------------
(* Lists.                                                                  *)

(* The first elements of a list.                                           *)
LEMMA PrefixOf ==
    ASSUME NEW X, NEW s \in Seq(X), NEW n \in Nat
    PROVE  Prefix(s, n) \in Seq(X) /\ Elems(Prefix(s, n)) \subseteq Elems(s)
<1> DEFINE k == IF n < Len(s) THEN n ELSE Len(s)
           t == SubSeq(s, 1, k)
<1>1. Len(s) \in Nat /\ k \in 0..Len(s)
  OBVIOUS
<1>2. t \in Seq(X) /\ Len(t) = k /\ \A i \in 1..k : t[i] = s[i]
  BY <1>1
<1>3. Prefix(s, n) = t
  BY DEF Prefix
<1> HIDE DEF t, k
<1> QED
  BY <1>1, <1>2, <1>3 DEF Elems

(* The elements of a list that are not in a set, each once.                *)
LEMMA NewOnesOf ==
    ASSUME NEW X, NEW s \in Seq(X), NEW S
    PROVE  /\ NewOnes(s, S) \in Seq(X) /\ Elems(NewOnes(s, S)) = Elems(s) \ S
           /\ NoRepeats(NewOnes(s, S))
<1> DEFINE n == Len(s)
           N == 1..n
           c == [i \in N |-> i]
           F == Firsts(s, S)
           at == Filter(c, F)
           t == [i \in 1..Len(at) |-> s[at[i]]]
<1>1. n \in Nat /\ c \in Seq(N) /\ Len(c) = n /\ \A i \in N : c[i] = i
  OBVIOUS
<1>2. F \subseteq N /\ \A i \in F : s[i] \notin S /\ \A j \in 1..(i - 1) : s[j] # s[i]
  BY DEF Firsts
<1>3. Elems(c) = N /\ NoRepeats(c)
  <2> HIDE DEF c
  <2> QED BY <1>1 DEF Elems, NoRepeats
<1> HIDE DEF c, F
<1>4. at \in Seq(N) /\ Elems(at) = N \cap F /\ NoRepeats(at)
  BY <1>1, <1>3, FilterElems
<1>5. NewOnes(s, S) = t
  BY DEF NewOnes, c, F
<1> HIDE DEF at
<1>6. /\ Len(at) \in Nat /\ \A i \in 1..Len(at) : at[i] \in F /\ at[i] \in N
      /\ \A j \in F : \E i \in 1..Len(at) : at[i] = j
  <2> HIDE DEF N
  <2>1. Len(at) \in Nat /\ \A i \in 1..Len(at) : at[i] \in N
    BY <1>4
  <2>2. \A i \in 1..Len(at) : at[i] \in Elems(at)
    BY DEF Elems
  <2>3. \A j \in Elems(at) : \E i \in 1..Len(at) : at[i] = j
    BY DEF Elems
  <2> QED BY <1>2, <1>4, <2>1, <2>2, <2>3
<1>7. t \in Seq(X) /\ Len(t) = Len(at) /\ \A i \in 1..Len(at) : t[i] = s[at[i]]
  <2>1. \A i \in 1..Len(at) : s[at[i]] \in X
    BY <1>6
  <2> QED BY <1>6, <2>1
<1> HIDE DEF t
<1>8. NoRepeats(t)
  <2> SUFFICES ASSUME NEW i \in 1..Len(at), NEW j \in 1..Len(at), t[i] = t[j] PROVE i = j
    BY <1>7 DEF NoRepeats
  <2> DEFINE y == at[i]
             z == at[j]
  <2>1. s[y] = s[z] /\ y \in F /\ z \in F /\ y \in N /\ z \in N
    BY <1>6, <1>7
  <2> HIDE DEF y, z
  <2>2. y \in Nat /\ z \in Nat /\ y >= 1 /\ z >= 1
    BY <1>1, <2>1
  <2>3. (\A h \in 1..(y - 1) : s[h] # s[y]) /\ (\A h \in 1..(z - 1) : s[h] # s[z])
    BY <1>2, <2>1
  <2>4. z \notin 1..(y - 1) /\ y \notin 1..(z - 1)
    BY <2>1, <2>3
  <2>5. y = z
    BY <2>2, <2>4
  <2>6. at[i] = at[j]
    BY <2>5 DEF y, z
  <2> QED BY <1>4, <2>6 DEF NoRepeats
<1>9. ASSUME NEW i \in N, s[i] \notin S PROVE \E j \in F : s[j] = s[i]
  <2> DEFINE T == {j \in N : s[j] = s[i]}
  <2>1. T \in SUBSET Nat /\ T # {}
    BY <1>1
  <2>2. PICK j \in T : \A h \in T : j <= h
    <3> HIDE DEF T
    <3> QED BY <2>1, LeastElement
  <2>3. j \in N /\ s[j] = s[i] /\ \A h \in 1..(j - 1) : s[h] # s[j]
    BY <1>1, <2>2
  <2>4. j \in F
    BY <1>9, <2>3 DEF F, Firsts
  <2> QED BY <2>3, <2>4
<1>10. Elems(t) = Elems(s) \ S
  <2>1. ASSUME NEW i \in 1..Len(at) PROVE t[i] \in Elems(s) \ S
    BY <1>2, <1>6, <1>7 DEF Elems
  <2>2. ASSUME NEW i \in N, s[i] \notin S PROVE \E j \in 1..Len(at) : t[j] = s[i]
    BY <1>6, <1>7, <1>9, <2>2
  <2> QED BY <1>7, <2>1, <2>2 DEF Elems
<1> QED BY <1>5, <1>7, <1>8, <1>10

(* The entries of a site.                                                  *)
LEMMA EntriesOf ==
    ASSUME NEW u \in Urls, NEW v \in Nat
    PROVE  Entries(u, v) \in Seq(Entry)
<1> DEFINE n == IF v < Window THEN v ELSE Window
           e == [i \in 1..n |-> <<u, IdOf(u, v + 1 - i)>>]
<1>1. n \in Nat
  BY BoundAssumption
<1>2. e \in Seq(Entry)
  <2>1. \A m \in Int : IdOf(u, m) \in Int
    BY RulesAssumption DEF IdOf
  <2>2. \A i \in 1..n : IdOf(u, v + 1 - i) \in Int
    BY <1>1, <2>1
  <2>3. \A i \in 1..n : <<u, IdOf(u, v + 1 - i)>> \in Entry
    BY <2>2 DEF Entry
  <2> QED BY <1>1, <2>3
<1> QED
  BY <1>2 DEF Entries

(* What a feed shows of a site.                                            *)
LEMMA ShownOf ==
    ASSUME NEW u \in Urls, NEW v \in Nat
    PROVE  Prefix(Entries(u, v), ItemCap) \in Seq(Entry)
  BY EntriesOf, PrefixOf, BoundAssumption

-----------------------------------------------------------------------------
(* Fetching keeps the feeds in order.                                      *)

(* The record of a feed after an answer.                                   *)
LEMMA FeedAfterType ==
    ASSUME NEW feed \in Feed, NEW a \in Got, a.kind # "asked"
    PROVE  /\ FeedAfter(feed, a) \in Feed /\ FeedAfter(feed, a).url = feed.url
           /\ FeedAfter(feed, a).etag = IF a.kind = "new" THEN a.version ELSE feed.etag
<1>1. a.kind \in {"same", "transient", "permanent", "new"} /\ (a.kind = "new" => a.version \in Nat)
  BY DEF Got
<1>2. MaxErrors \in Nat /\ feed.errors \in Nat
  BY BoundAssumption DEF Feed
<1> DEFINE n == IF feed.errors < MaxErrors THEN feed.errors + 1 ELSE MaxErrors
           b == feed.active /\ n < MaxErrors
<1>3. n \in Nat /\ b \in BOOLEAN
  BY <1>2
<1>4. FeedAfter(feed, a) =
        CASE a.kind = "same"      -> [feed EXCEPT !.errors = 0]
          [] a.kind = "new"       -> [feed EXCEPT !.errors = 0, !.etag = a.version]
          [] a.kind = "transient" -> [feed EXCEPT !.errors = n]
          [] a.kind = "permanent" -> [feed EXCEPT !.errors = n, !.active = b]
  BY DEF FeedAfter
<1> HIDE DEF n, b
<1>5. CASE a.kind = "same"
  BY <1>4, <1>5 DEF Feed
<1>6. CASE a.kind = "new"
  <2> DEFINE v == a.version
  <2>1. v \in Nat /\ FeedAfter(feed, a) = [feed EXCEPT !.errors = 0, !.etag = v]
    BY <1>1, <1>4, <1>6
  <2>2. a.version = v
    OBVIOUS
  <2> HIDE DEF v
  <2>3. FeedAfter(feed, a) = [url |-> feed.url, active |-> feed.active, errors |-> 0, etag |-> v]
    BY <2>1 DEF Feed
  <2>4. FeedAfter(feed, a) \in Feed
    BY <2>1, <2>3 DEF Feed
  <2> QED BY <1>6, <2>2, <2>3, <2>4
<1>7. CASE a.kind = "transient"
  BY <1>3, <1>4, <1>7 DEF Feed
<1>8. CASE a.kind = "permanent"
  BY <1>3, <1>4, <1>8 DEF Feed
<1> QED
  BY <1>1, <1>5, <1>6, <1>7, <1>8

(* The new items of a feed, and its items after an answer.                 *)
LEMMA FreshItems ==
    ASSUME NEW u \in Urls, NEW v \in Nat, NEW old \in Seq(Entry),
           NEW fresh, fresh = NewOnes(Prefix(Entries(u, v), ItemCap), Elems(old))
    PROVE  /\ fresh \in Seq(Entry) /\ NoRepeats(fresh)
           /\ Elems(Prefix(Entries(u, v), ItemCap)) \subseteq Elems(fresh) \cup Elems(old)
           /\ Prefix(fresh \o old, ItemCap) \in Seq(Entry)
           /\ Elems(Prefix(fresh \o old, ItemCap)) \subseteq Elems(fresh) \cup Elems(old)
<1> DEFINE s == Prefix(Entries(u, v), ItemCap)
<1>1. s \in Seq(Entry)
  BY ShownOf
<1> HIDE DEF s
<1>2. fresh = NewOnes(s, Elems(old))
  BY DEF s
<1>3. fresh \in Seq(Entry) /\ Elems(fresh) = Elems(s) \ Elems(old) /\ NoRepeats(fresh)
  BY <1>1, <1>2, NewOnesOf
<1>4. /\ fresh \o old \in Seq(Entry)
      /\ Elems(fresh \o old) = Elems(fresh) \cup Elems(old)
  BY <1>3, Concatenated
<1>5. ItemCap \in Nat
  BY BoundAssumption
<1> DEFINE t == fresh \o old
<1>6. /\ Prefix(t, ItemCap) \in Seq(Entry) /\ Elems(Prefix(t, ItemCap)) \subseteq Elems(t)
  <2> HIDE DEF t
  <2>1. t \in Seq(Entry)
    BY <1>4 DEF t
  <2> QED BY <1>5, <2>1, PrefixOf
<1> QED
  BY <1>3, <1>4, <1>6 DEF s

(* Who has shown more is still in order.                                   *)
LEMMA ShowsMore ==
    ASSUME NEW F, NEW I, NEW sn, NEW more, sn \subseteq more, FeedsOK(F, I, sn)
    PROVE  FeedsOK(F, I, more)
  BY DEF FeedsOK, FeedOK

(* A feed is replaced.                                                     *)
LEMMA ReplaceFeed ==
    ASSUME NEW F, NEW I, NEW sn, NEW more, sn \subseteq more, FeedsOK(F, I, sn),
           NEW f \in FeedIds, NEW feed, NEW list, FeedOK(f, feed, list, more),
           feed # None => \A h \in FeedIds \ {f} : F[h] # None => F[h].url # feed.url
    PROVE  FeedsOK([F EXCEPT ![f] = feed], [I EXCEPT ![f] = list], more)
<1> DEFINE G == [F EXCEPT ![f] = feed]
           J == [I EXCEPT ![f] = list]
<1>1. /\ F \in [FeedIds -> Feed \cup {None}] /\ I \in [FeedIds -> Seq(Entry) \cup {None}]
      /\ \A h \in FeedIds : FeedOK(h, F[h], I[h], sn)
      /\ \A g, h \in FeedIds : F[g] # None /\ F[h] # None /\ F[g].url = F[h].url => g = h
  BY DEF FeedsOK
<1>2. feed \in Feed \cup {None} /\ list \in Seq(Entry) \cup {None}
  BY DEF FeedOK
<1>3. /\ G \in [FeedIds -> Feed \cup {None}] /\ J \in [FeedIds -> Seq(Entry) \cup {None}]
      /\ G[f] = feed /\ J[f] = list /\ \A h \in FeedIds \ {f} : G[h] = F[h] /\ J[h] = I[h]
  BY <1>1, <1>2
<1> HIDE DEF G, J
<1>4. \A h \in FeedIds : FeedOK(h, G[h], J[h], more)
  <2> SUFFICES ASSUME NEW h \in FeedIds, h # f PROVE FeedOK(h, F[h], I[h], more)
    BY <1>3
  <2> QED BY <1>1 DEF FeedOK
<1>5. \A g, h \in FeedIds : G[g] # None /\ G[h] # None /\ G[g].url = G[h].url => g = h
  BY <1>1, <1>3
<1>6. FeedsOK(G, J, more)
  BY <1>3, <1>4, <1>5 DEF FeedsOK
<1> QED
  BY <1>6 DEF G, J

(* What a site answers.                                                    *)
LEMMA AnswerType ==
    ASSUME FetchTypes, NEW a \in Got, a.kind = "asked", NEW b \in Answers(a)
    PROVE  b \in Got /\ b.kind # "asked"
<1>1. a.url \in Urls
  BY DEF Got
<1> DEFINE v == site[a.url]
<1>2. v \in Nat
  BY <1>1 DEF FetchTypes
<1>3. \/ b = [kind |-> "same"] \/ b = [kind |-> "new", version |-> v]
      \/ b = [kind |-> "transient"] \/ b = [kind |-> "permanent"]
  BY DEF Answers
<1> HIDE DEF v
<1> QED
  BY <1>2, <1>3 DEF Got

LEMMA ApplyKeeps ==
    ASSUME StoreInv, NEW x \in Procs, NEW f \in FeedIds, ApplyFetch(x, f)
    PROVE  FeedsOK(feeds', items', seen') /\ seen \subseteq seen'
<1> DEFINE a == got[x][f]
           feed == feeds[f]
           fresh == Fresh(f, feed.url, a.version)
<1>1. a \in Got /\ a.kind # "asked"
  BY DEF StoreInv, FetchTypes, ApplyFetch, Fetched
<1>2. FeedsOK(feeds, items, seen) /\ FeedOK(f, feed, items[f], seen)
  BY DEF StoreInv, FeedsOK
<1>3. CASE f \notin Subscribed
  BY <1>2, <1>3 DEF ApplyFetch
<1>4. CASE f \in Subscribed
  <2>1. feed \in Feed /\ items[f] \in Seq(Entry)
    BY <1>2, <1>4 DEF FeedOK, Subscribed
  <2>2. /\ FeedAfter(feed, a) \in Feed /\ FeedAfter(feed, a).url = feed.url
        /\ FeedAfter(feed, a).etag = IF a.kind = "new" THEN a.version ELSE feed.etag
    BY <1>1, <2>1, FeedAfterType
  <2>3. feeds' = [feeds EXCEPT ![f] = FeedAfter(feed, a)]
    BY <1>4 DEF ApplyFetch
  <2>4. \A h \in FeedIds \ {f} : feeds[h] # None => feeds[h].url # feed.url
    BY <1>2, <1>4 DEF FeedsOK, Subscribed
  <2>5. CASE a.kind = "new"
    <3>1. a.version \in Nat /\ feed.url \in Urls
      BY <1>1, <2>1, <2>5 DEF Got, Feed
    <3> DEFINE list == Prefix(fresh \o items[f], ItemCap)
               shown == Prefix(Entries(feed.url, a.version), ItemCap)
    <3>2. fresh = NewOnes(shown, Elems(items[f]))
      BY DEF Fresh
    <3>3. /\ items' = [items EXCEPT ![f] = list]
          /\ seen' = seen \cup {<<f, i>> : i \in Elems(fresh)}
      BY <1>4, <2>5 DEF ApplyFetch
    <3>4. /\ Elems(shown) \subseteq Elems(fresh) \cup Elems(items[f])
          /\ list \in Seq(Entry)
          /\ Elems(list) \subseteq Elems(fresh) \cup Elems(items[f])
      <4> DEFINE old == items[f]
                 u == feed.url
                 v == a.version
      <4>1. /\ old \in Seq(Entry) /\ u \in Urls /\ v \in Nat
            /\ fresh = NewOnes(Prefix(Entries(u, v), ItemCap), Elems(old))
        BY <2>1, <3>1, <3>2
      <4> HIDE DEF fresh, old, u, v
      <4>2. /\ Elems(Prefix(Entries(u, v), ItemCap)) \subseteq Elems(fresh) \cup Elems(old)
            /\ Prefix(fresh \o old, ItemCap) \in Seq(Entry)
            /\ Elems(Prefix(fresh \o old, ItemCap)) \subseteq Elems(fresh) \cup Elems(old)
        BY <4>1, FreshItems
      <4> QED BY <4>2 DEF old, u, v
    <3>5. Named(FeedAfter(feed, a)) = Elems(shown)
      BY <2>2, <2>5, <3>1, NoneAssumption DEF Named
    <3> HIDE DEF list, fresh, shown
    <3>6. \A i \in Elems(items[f]) : <<f, i>> \in seen
      BY <1>2, <1>4 DEF FeedOK, Subscribed
    <3>7. FeedOK(f, FeedAfter(feed, a), list, seen')
      BY <2>2, <3>3, <3>4, <3>5, <3>6 DEF FeedOK
    <3> QED
      BY <1>2, <2>2, <2>3, <2>4, <3>3, <3>7, ReplaceFeed
  <2>6. CASE a.kind # "new"
    <3>1. items' = items /\ seen' = seen
      BY <1>4, <2>6 DEF ApplyFetch
    <3>2. Named(FeedAfter(feed, a)) = Named(feed)
      BY <2>2, <2>6 DEF Named
    <3>3. FeedOK(f, FeedAfter(feed, a), items[f], seen)
      BY <1>2, <1>4, <2>2, <3>2 DEF FeedOK, Subscribed
    <3>4. items = [items EXCEPT ![f] = items[f]]
      BY <1>2 DEF FeedsOK
    <3>5. FeedsOK([feeds EXCEPT ![f] = FeedAfter(feed, a)], [items EXCEPT ![f] = items[f]], seen)
      BY <1>2, <2>2, <2>4, <3>3, ReplaceFeed
    <3> QED
      BY <2>3, <3>1, <3>4, <3>5
  <2> QED BY <2>5, <2>6
<1> QED BY <1>3, <1>4

LEMMA InsertKeeps ==
    ASSUME StoreInv, NEW x \in Users, InsertFeed(x)
    PROVE  FeedsOK(feeds', items', seen') /\ seen \subseteq seen' /\ usedFeeds' \subseteq FeedIds
<1> DEFINE u == adding[x].url
           v == adding[x].version
           f == CHOOSE f \in FeedIds : f \notin usedFeeds
           list == Prefix(Entries(u, v), ItemCap)
           feed == [url |-> u, active |-> TRUE, errors |-> 0, etag |-> None]
<1>1. u \in Urls /\ v \in Nat
  BY DEF StoreInv, FetchTypes, InsertFeed, Adding
<1>2. FeedsOK(feeds, items, seen) /\ usedFeeds \subseteq FeedIds
  BY DEF StoreInv, FetchTypes
<1>3. CASE (\E h \in Subscribed : feeds[h].url = u) \/ usedFeeds = FeedIds
  BY <1>2, <1>3 DEF InsertFeed
<1>4. CASE ~((\E h \in Subscribed : feeds[h].url = u) \/ usedFeeds = FeedIds)
  <2>1. f \in FeedIds
    BY <1>2, <1>4
  <2>2. /\ feeds' = [feeds EXCEPT ![f] = feed] /\ items' = [items EXCEPT ![f] = list]
        /\ usedFeeds' = usedFeeds \cup {f}
        /\ seen' = seen \cup {<<f, i>> : i \in Elems(list)}
    BY <1>4 DEF InsertFeed
  <2>3. list \in Seq(Entry)
    BY <1>1, ShownOf
  <2>4. feed \in Feed /\ Named(feed) = {} /\ feed.url = u
    BY <1>1 DEF Feed, Named
  <2>5. \A h \in FeedIds : feeds[h] # None => feeds[h].url # u
    BY <1>4 DEF Subscribed
  <2> HIDE DEF f, list, feed, u
  <2>6. FeedOK(f, feed, list, seen')
    BY <2>2, <2>3, <2>4 DEF FeedOK
  <2> QED
    BY <1>2, <2>1, <2>2, <2>4, <2>5, <2>6, ReplaceFeed
<1> QED BY <1>3, <1>4

-----------------------------------------------------------------------------
(* The commands of the user keep the feeds and the rules in order.         *)

LEMMA RemoveKeepsFeeds ==
    ASSUME StoreInv, NEW x \in Users, NEW f \in FeedIds,
           RemoveFeed(x, f) \/ (\E on \in BOOLEAN : SetActive(x, f, on))
             \/ (\E i \in Items : DeleteItem(x, f, i))
    PROVE  FeedsOK(feeds', items', seen)
<1>1. FeedsOK(feeds, items, seen) /\ FeedOK(f, feeds[f], items[f], seen)
  BY DEF StoreInv, FeedsOK
<1>2. CASE RemoveFeed(x, f)
  <2>1. feeds' = [feeds EXCEPT ![f] = None] /\ items' = [items EXCEPT ![f] = None]
    BY <1>2 DEF RemoveFeed
  <2>2. FeedOK(f, None, None, seen)
    BY DEF FeedOK
  <2> QED BY <1>1, <2>1, <2>2, ReplaceFeed
<1>3. ASSUME NEW on \in BOOLEAN, SetActive(x, f, on) PROVE FeedsOK(feeds', items', seen)
  <2> DEFINE n == IF on THEN 0 ELSE feeds[f].errors
             feed == [feeds[f] EXCEPT !.active = on, !.errors = n]
  <2>1. f \in Subscribed /\ items' = items
    BY <1>3 DEF SetActive
  <2>2. feeds[f] \in Feed /\ feeds \in [FeedIds -> Feed \cup {None}]
    BY <1>1, <2>1 DEF FeedsOK, FeedOK, Subscribed
  <2>3. feeds' = [feeds EXCEPT ![f] = feed]
    <3>1. feeds' = [feeds EXCEPT ![f].active = on, ![f].errors = IF on THEN 0 ELSE @]
      BY <1>3 DEF SetActive
    <3> QED BY <2>2, <3>1 DEF Feed
  <2>4. n \in Nat
    BY <2>2 DEF Feed
  <2> HIDE DEF n
  <2>5. feed \in Feed /\ feed.url = feeds[f].url /\ feed.etag = feeds[f].etag
    BY <2>2, <2>4 DEF Feed
  <2> HIDE DEF feed
  <2>6. Named(feed) = Named(feeds[f])
    BY <2>5 DEF Named
  <2>7. FeedOK(f, feed, items[f], seen)
    BY <1>1, <2>1, <2>5, <2>6 DEF FeedOK, Subscribed
  <2>8. \A h \in FeedIds \ {f} : feeds[h] # None => feeds[h].url # feed.url
    BY <1>1, <2>1, <2>5 DEF FeedsOK, Subscribed
  <2>9. items = [items EXCEPT ![f] = items[f]]
    BY <1>1 DEF FeedsOK
  <2>10. FeedsOK([feeds EXCEPT ![f] = feed], [items EXCEPT ![f] = items[f]], seen)
    BY <1>1, <2>7, <2>8, ReplaceFeed
  <2> QED BY <2>1, <2>3, <2>9, <2>10
<1>4. ASSUME NEW i \in Items, DeleteItem(x, f, i) PROVE FeedsOK(feeds', items', seen)
  <2> DEFINE old == items[f]
             list == Without(old, {i})
  <2>1. f \in Subscribed /\ feeds' = feeds /\ items' = [items EXCEPT ![f] = list]
    BY <1>4 DEF DeleteItem
  <2>2. feeds[f] \in Feed /\ old \in Seq(Entry)
    BY <1>1, <2>1 DEF FeedOK, Subscribed
  <2>3. list \in Seq(Entry) /\ Elems(list) = Elems(old) \ {i}
    <3> HIDE DEF old
    <3> DEFINE T == Elems(old) \ {i}
    <3>1. list = Filter(old, T) /\ Elems(old) \cap T = Elems(old) \ {i}
      BY DEF Without
    <3> HIDE DEF T
    <3> QED BY <2>2, <3>1, FilterElems
  <2> HIDE DEF list
  <2>4. FeedOK(f, feeds[f], list, seen)
    BY <1>1, <2>1, <2>2, <2>3 DEF FeedOK, Subscribed
  <2>5. \A h \in FeedIds \ {f} : feeds[h] # None => feeds[h].url # feeds[f].url
    BY <1>1, <2>1 DEF FeedsOK, Subscribed
  <2>6. feeds = [feeds EXCEPT ![f] = feeds[f]]
    BY <1>1 DEF FeedsOK
  <2>7. FeedsOK([feeds EXCEPT ![f] = feeds[f]], [items EXCEPT ![f] = list], seen)
    BY <1>1, <2>4, <2>5, ReplaceFeed
  <2> QED BY <2>1, <2>6, <2>7
<1> QED BY <1>2, <1>3, <1>4

(* The rules without one of them.                                          *)
LEMMA OthersOf ==
    ASSUME RulesOK(rules), NEW r
    PROVE  /\ OtherRules(r) \in Seq(Rule)
           /\ Elems(OtherRules(r)) = {o \in Elems(rules) : o.id # r}
<1> DEFINE S == {o \in Elems(rules) : o.id # r}
           t == Filter(rules, S)
<1>1. rules \in Seq(Rule) /\ OtherRules(r) = t /\ Elems(rules) \cap S = S
  BY DEF RulesOK, OtherRules
<1>2. t \in Seq(Rule) /\ Elems(t) = Elems(rules) \cap S
  <2> HIDE DEF S
  <2> QED BY <1>1, FilterElems
<1> QED BY <1>1, <1>2

(* A rule is put among others.                                             *)
LEMMA PlacedOf ==
    ASSUME NEW X, NEW s \in Seq(X), NEW r \in X, NEW at \in 0..Len(s)
    PROVE  Placed(s, r, at) \in Seq(X) /\ Elems(Placed(s, r, at)) = Elems(s) \cup {r}
<1> DEFINE a == SubSeq(s, 1, at)
           b == SubSeq(s, at + 1, Len(s))
           m == <<r>>
<1>1. a \in Seq(X) /\ b \in Seq(X) /\ CutAt(s, at, a, b)
  BY CutInTwo
<1>2. m \in Seq(X) /\ Elems(m) = {r}
  BY DEF Elems
<1>3. s = a \o b
  BY <1>1 DEF CutAt
<1>4. Placed(s, r, at) = (a \o m) \o b
  BY DEF Placed
<1> HIDE DEF a, b, m
<1> DEFINE am == a \o m
<1>5. am \in Seq(X) /\ Elems(am) = Elems(a) \cup {r}
  BY <1>1, <1>2, Concatenated
<1> HIDE DEF am
<1>6. am \o b \in Seq(X) /\ Elems(am \o b) = Elems(am) \cup Elems(b)
  BY <1>1, <1>5, Concatenated
<1>7. Elems(s) = Elems(a) \cup Elems(b)
  BY <1>1, <1>3, Concatenated
<1> QED BY <1>4, <1>5, <1>6, <1>7 DEF am

(* The rules without a feed: each is one that stays, without the feed.     *)
CutFrom(w, R, f) ==
    /\ w \in Seq(Rule)
    /\ \A c \in Elems(w) :
          \E a \in Elems(R) :
             c.id = a.id /\ c.scope = a.scope \ {f} /\ (a.scope = {} \/ c.scope # {})

LEMMA WithoutFeedOf ==
    ASSUME NEW R \in Seq(Rule), NEW f \in FeedIds
    PROVE  CutFrom(WithoutFeed(R, f), R, f)
<1> DEFINE S == {r \in Elems(R) : r.scope = {} \/ r.scope \ {f} # {}}
           t == Filter(R, S)
           w == Cut(t, f)
<1>1. t \in Seq(Rule) /\ Elems(t) = Elems(R) \cap S
  <2> HIDE DEF S
  <2> QED BY FilterElems
<1>2. Elems(t) \subseteq S
  BY <1>1
<1> HIDE DEF t
<1>3. Len(t) \in Nat /\ \A i \in 1..Len(t) : t[i] \in Rule /\ t[i] \in Elems(t)
  BY <1>1 DEF Elems
<1> DEFINE e(i) == [t[i] EXCEPT !.scope = t[i].scope \ {f}]
<1>4. \A i \in 1..Len(t) : e(i) \in Rule /\ e(i).id = t[i].id /\ e(i).scope = t[i].scope \ {f}
  BY <1>3 DEF Rule
<1>5. w = [i \in 1..Len(t) |-> e(i)]
  BY DEF Cut
<1> HIDE DEF e, w
<1>6. /\ w \in Seq(Rule) /\ Len(w) = Len(t)
      /\ \A i \in 1..Len(t) : w[i].id = t[i].id /\ w[i].scope = t[i].scope \ {f}
  BY <1>3, <1>4, <1>5
<1>7. WithoutFeed(R, f) = w
  BY DEF WithoutFeed, t, w
<1>8. \A c \in Elems(w) : \E a \in Elems(t) : c.id = a.id /\ c.scope = a.scope \ {f}
  BY <1>3, <1>6 DEF Elems
<1> QED
  BY <1>1, <1>2, <1>6, <1>7, <1>8 DEF CutFrom

LEMMA UserKeepsRules ==
    ASSUME StoreInv, NEW x \in Users, UserStep(x)
    PROVE  /\ RulesOK(rules') /\ ScopesOK(rules', granted')
           /\ granted' \in [Rules -> (SUBSET FeedIds) \cup {None}]
<1>1. /\ RulesOK(rules) /\ ScopesOK(rules, granted)
      /\ granted \in [Rules -> (SUBSET FeedIds) \cup {None}]
  BY DEF StoreInv, FetchTypes
<1>2. ASSUME NEW f \in Subscribed, RemoveFeed(x, f)
      PROVE  RulesOK(rules') /\ ScopesOK(rules', granted') /\ granted' = granted
  <2>1. /\ rules' = WithoutFeed(rules, f) /\ granted' = granted
        /\ rules \in Seq(Rule) /\ f \in FeedIds
    BY <1>1, <1>2 DEF RemoveFeed, RulesOK, Subscribed
  <2> DEFINE w == WithoutFeed(rules, f)
  <2>2. CutFrom(w, rules, f)
    BY <2>1, WithoutFeedOf
  <2> HIDE DEF w
  <2>3. /\ w \in Seq(Rule)
        /\ \A c \in Elems(w) :
              \E a \in Elems(rules) :
                 c.id = a.id /\ c.scope = a.scope \ {f} /\ (a.scope = {} \/ c.scope # {})
    BY <2>2 DEF CutFrom
  <2>4. rules' = w
    BY <2>1 DEF w
  <2>5. \A c \in Elems(w) : c \in Rule
    BY <2>3 DEF Elems
  <2>6. \A c, d \in Rule : c.id = d.id /\ c.scope = d.scope => c = d
    BY DEF Rule
  <2>7. \A c, d \in Elems(w) : c.id = d.id => c = d
    <3> SUFFICES ASSUME NEW c \in Elems(w), NEW d \in Elems(w), c.id = d.id PROVE c.scope = d.scope
      BY <2>5, <2>6
    <3>1. PICK a \in Elems(rules) : c.id = a.id /\ c.scope = a.scope \ {f}
      BY <2>3
    <3>2. PICK b \in Elems(rules) : d.id = b.id /\ d.scope = b.scope \ {f}
      BY <2>3
    <3>3. a = b
      BY <1>1, <3>1, <3>2 DEF RulesOK
    <3> QED BY <3>1, <3>2, <3>3
  <2>8. ScopesOK(rules', granted)
    BY <1>1, <2>4, <2>3 DEF ScopesOK
  <2> QED BY <2>1, <2>4, <2>3, <2>7, <2>8 DEF RulesOK
<1>3. ASSUME NEW r \in Rules, NEW scope \in Scopes, NEW at \in 0..Len(rules),
             PutRule(x, r, scope, at)
      PROVE  /\ RulesOK(rules') /\ ScopesOK(rules', granted')
             /\ granted' \in [Rules -> (SUBSET FeedIds) \cup {None}]
  <2> DEFINE s == OtherRules(r)
             new == [id |-> r, scope |-> scope]
  <2>1. rules' = Placed(s, new, at) /\ granted' = [granted EXCEPT ![r] = scope] /\ at <= Len(s)
    BY <1>3 DEF PutRule
  <2>2. s \in Seq(Rule) /\ Elems(s) = {o \in Elems(rules) : o.id # r}
    BY <1>1, OthersOf
  <2>3. scope \subseteq FeedIds /\ new \in Rule /\ new.id = r /\ new.scope = scope
    BY RulesAssumption DEF Rule
  <2>4. at \in 0..Len(s)
    BY <2>1, <2>2
  <2> HIDE DEF s, new
  <2>5. rules' \in Seq(Rule) /\ Elems(rules') = Elems(s) \cup {new}
    BY <2>1, <2>2, <2>3, <2>4, PlacedOf
  <2>6. \A o \in Elems(rules) : o.id \in Rules
    <3>1. \A o \in Elems(rules) : o \in Rule
      BY <1>1 DEF RulesOK, Elems
    <3> QED BY <3>1 DEF Rule
  <2>7. granted' \in [Rules -> (SUBSET FeedIds) \cup {None}] /\ granted'[r] = scope
        /\ \A q \in Rules \ {r} : granted'[q] = granted[q]
    BY <1>1, <2>1, <2>3
  <2>8. RulesOK(rules')
    BY <1>1, <2>2, <2>3, <2>5 DEF RulesOK
  <2>9. ScopesOK(rules', granted')
    BY <1>1, <2>2, <2>3, <2>5, <2>6, <2>7 DEF ScopesOK
  <2> QED BY <2>7, <2>8, <2>9
<1>4. ASSUME NEW r \in RuleIds, RemoveRule(x, r)
      PROVE  RulesOK(rules') /\ ScopesOK(rules', granted') /\ granted' = granted
  <2>1. rules' = OtherRules(r) /\ granted' = granted
    BY <1>4 DEF RemoveRule
  <2> QED BY <1>1, <2>1, OthersOf DEF RulesOK, ScopesOK
<1>5. CASE UNCHANGED <<rules, granted>>
  BY <1>1, <1>5
<1>6. \/ UNCHANGED <<rules, granted>> \/ (\E f \in Subscribed : RemoveFeed(x, f))
      \/ (\E r \in Rules, scope \in Scopes, at \in 0..Len(rules) : PutRule(x, r, scope, at))
      \/ (\E r \in RuleIds : RemoveRule(x, r))
  BY DEF UserStep, Refresh, BeginFetch, AddFeed, InsertFeed, SetActive, DeleteItem, storeVars,
         ghostVars
<1> QED BY <1>1, <1>2, <1>3, <1>4, <1>5, <1>6

-----------------------------------------------------------------------------
(* What is fetched keeps its type.                                         *)

LEMMA BeginKeepsTypes ==
    ASSUME StoreInv, NEW x \in Procs, NEW D \in SUBSET Subscribed, BeginFetch(x, D)
    PROVE  FetchTypes'
<1> DEFINE ask(f) == IF f \in D THEN [kind |-> "asked", url |-> feeds[f].url,
                                      etag |-> feeds[f].etag]
                                ELSE None
           asked == [f \in FeedIds |-> ask(f)]
<1>1. FetchTypes /\ \A f \in D : feeds[f] \in Feed
  BY DEF StoreInv, FeedsOK, Subscribed
<1>2. \A f \in FeedIds : ask(f) \in Got \cup {None}
  BY <1>1 DEF Got, Feed
<1>3. asked \in [FeedIds -> Got \cup {None}]
  BY <1>2
<1>4. /\ got' = [got EXCEPT ![x] = asked] /\ pc' = [pc EXCEPT ![x] = "fetch"]
      /\ UNCHANGED <<adding, site, usedFeeds, granted>>
  BY DEF BeginFetch, extVars, ghostVars
<1> HIDE DEF asked
<1> QED
  BY <1>1, <1>3, <1>4 DEF FetchTypes, Places

LEMMA FetchKeepsTypes ==
    ASSUME StoreInv, NEW x \in Procs, NEW f \in FeedIds, Fetch(x, f) \/ ApplyFetch(x, f)
    PROVE  FetchTypes'
<1>1. FetchTypes /\ UNCHANGED <<adding, site, usedFeeds, granted>>
  BY DEF StoreInv, Fetch, ApplyFetch, extVars, ghostVars
<1>2. CASE Fetch(x, f)
  <2>1. PICK a \in Answers(got[x][f]) : got' = [got EXCEPT ![x][f] = a]
    BY <1>2 DEF Fetch
  <2>2. pc' = (IF Asked(x) = {f} THEN [pc EXCEPT ![x] = "apply"] ELSE pc) /\ pc[x] = "fetch"
    BY <1>2 DEF Fetch
  <2>3. got[x][f] \in Got /\ got[x][f].kind = "asked"
    BY <1>1, <1>2 DEF FetchTypes, Fetch, Asked
  <2>4. a \in Got /\ a.kind # "asked"
    BY <1>1, <2>3, AnswerType
  <2>5. \A h \in FeedIds \ {f} : Asked(x) = {f} /\ got[x][h] # None => got[x][h].kind # "asked"
    BY DEF Asked
  <2>6. /\ got' \in [Procs -> [FeedIds -> Got \cup {None}]] /\ got'[x][f] = a
        /\ \A h \in FeedIds \ {f} : got'[x][h] = got[x][h]
        /\ \A y \in Procs \ {x} : got'[y] = got[y]
    BY <1>1, <2>1, <2>4 DEF FetchTypes
  <2>7. pc' \in [Procs -> Places] /\ \A y \in Procs \ {x} : pc'[y] = pc[y]
    BY <1>1, <2>2 DEF FetchTypes, Places
  <2>8. pc'[x] = "apply" => Asked(x) = {f}
    BY <1>1, <2>2 DEF FetchTypes
  <2>9. pc'[x] # "adding"
    BY <1>1, <2>2 DEF FetchTypes
  <2>10. \A y \in Procs, h \in FeedIds :
            pc'[y] = "apply" /\ got'[y][h] # None => got'[y][h].kind # "asked"
    <3> SUFFICES ASSUME NEW y \in Procs, NEW h \in FeedIds, pc'[y] = "apply", got'[y][h] # None
                 PROVE  got'[y][h].kind # "asked"
      OBVIOUS
    <3>1. CASE y # x
      <4>1. pc[y] = "apply" /\ got'[y] = got[y]
        BY <2>6, <2>7, <3>1
      <4> QED BY <1>1, <4>1 DEF FetchTypes
    <3>2. CASE y = x /\ h = f
      BY <2>4, <2>6, <3>2
    <3>3. CASE y = x /\ h # f
      <4>1. got'[x][h] = got[x][h] /\ Asked(x) = {f}
        BY <2>6, <2>8, <3>3
      <4> QED BY <2>5, <3>3, <4>1
    <3> QED BY <3>1, <3>2, <3>3
  <2>11. \A y \in Users : pc'[y] = "adding" => adding'[y] \in Adding
    BY <1>1, <2>7, <2>9 DEF FetchTypes, Procs
  <2> QED BY <1>1, <2>6, <2>7, <2>10, <2>11 DEF FetchTypes
<1>3. CASE ApplyFetch(x, f)
  <2>1. /\ got' = [got EXCEPT ![x][f] = None] /\ pc[x] = "apply"
        /\ pc' = IF Fetched(x) = {f} THEN [pc EXCEPT ![x] = "save"] ELSE pc
    BY <1>3 DEF ApplyFetch
  <2>2. /\ got' \in [Procs -> [FeedIds -> Got \cup {None}]]
        /\ \A y \in Procs, h \in FeedIds : got'[y][h] # None => got'[y][h] = got[y][h]
    BY <1>1, <2>1 DEF FetchTypes
  <2>3. pc' \in [Procs -> Places] /\ \A y \in Procs : pc'[y] \in {pc[y], "save"}
    BY <1>1, <2>1 DEF FetchTypes, Places
  <2> QED BY <1>1, <2>2, <2>3 DEF FetchTypes, Procs
<1> QED BY <1>2, <1>3

(* A process that is at a place where nothing is fetched.                  *)
LEMMA MoveKeepsTypes ==
    ASSUME FetchTypes, NEW x \in Procs, NEW at \in Places \ {"apply", "adding"},
           pc' = [pc EXCEPT ![x] = at], UNCHANGED <<got, adding, site, usedFeeds>>,
           granted' \in [Rules -> (SUBSET FeedIds) \cup {None}]
    PROVE  FetchTypes'
<1>1. pc' \in [Procs -> Places] /\ \A y \in Procs : pc'[y] \in {pc[y], at}
  BY DEF FetchTypes
<1> QED BY <1>1 DEF FetchTypes, Procs

LEMMA EvaluateMoves ==
    ASSUME Evaluate
    PROVE  /\ \E at \in Places \ {"apply", "adding"} : pc' = [pc EXCEPT ![Poller] = at]
           /\ UNCHANGED <<feeds, items, rules, disk, got, adding, site, usedFeeds, granted, seen>>
<1>1. CASE MatchSkip \/ DecideSkip \/ QueueSkip \/ WriteArticle \/ Track
  BY <1>1 DEF MatchSkip, DecideSkip, QueueSkip, WriteArticle, Track, NextItem, Places, extVars,
              ghostVars, storeVars
<1>2. CASE Match \/ Decide \/ Queue \/ Record
  BY <1>2 DEF Match, Decide, Queue, Record, Places, extVars, ghostVars, storeVars
<1> QED BY <1>1, <1>2 DEF Evaluate

LEMMA UserKeepsTypes ==
    ASSUME StoreInv, NEW x \in Users, UserStep(x)
    PROVE  FetchTypes'
<1>1. FetchTypes /\ x \in Procs
  BY DEF StoreInv, Procs
<1>2. CASE Refresh(x)
  <2>1. PICK D \in {{f} : f \in Subscribed} \cup {Active} : BeginFetch(x, D)
    BY <1>2 DEF Refresh
  <2>2. D \in SUBSET Subscribed
    BY DEF Active
  <2> QED BY <1>1, <2>1, <2>2, BeginKeepsTypes
<1>3. ASSUME NEW u \in Urls, AddFeed(x, u) PROVE FetchTypes'
  <2> DEFINE new == [url |-> u, version |-> site[u]]
  <2>1. new \in Adding
    BY <1>1 DEF FetchTypes, Adding
  <2>2. /\ adding' = [adding EXCEPT ![x] = new] /\ pc' = [pc EXCEPT ![x] = "adding"]
        /\ UNCHANGED <<got, site, usedFeeds, granted>>
    BY <1>3 DEF AddFeed, extVars, ghostVars
  <2> HIDE DEF new
  <2> QED BY <1>1, <2>1, <2>2 DEF FetchTypes, Places
<1>4. CASE InsertFeed(x)
  <2>1. /\ adding' = [adding EXCEPT ![x] = None] /\ UNCHANGED <<got, site, granted>>
        /\ pc' = [pc EXCEPT ![x] = "idle"] \/ pc' = [pc EXCEPT ![x] = "save"]
    BY <1>4 DEF InsertFeed, extVars
  <2>2. usedFeeds' \subseteq FeedIds
    BY <1>4, InsertKeeps
  <2>3. /\ pc' \in [Procs -> Places] /\ pc'[x] \in {"idle", "save"}
        /\ \A y \in Procs \ {x} : pc'[y] = pc[y]
    BY <1>1, <2>1 DEF FetchTypes, Places
  <2>4. adding' \in [Users -> Adding \cup {None}] /\ \A y \in Users \ {x} : adding'[y] = adding[y]
    BY <1>1, <2>1 DEF FetchTypes
  <2> QED BY <1>1, <2>1, <2>2, <2>3, <2>4 DEF FetchTypes, Procs
<1>5. CASE ThenSave(x) /\ UNCHANGED usedFeeds
  <2>1. pc' = [pc EXCEPT ![x] = "save"] /\ UNCHANGED <<got, adding, site, usedFeeds>>
    BY <1>5 DEF ThenSave, extVars
  <2> QED BY <1>1, <2>1, UserKeepsRules, MoveKeepsTypes DEF Places
<1>6. \/ Refresh(x) \/ (\E u \in Urls : AddFeed(x, u)) \/ InsertFeed(x)
      \/ ThenSave(x) /\ UNCHANGED usedFeeds
  BY DEF UserStep, RemoveFeed, SetActive, DeleteItem, PutRule, RemoveRule
<1> QED BY <1>2, <1>3, <1>4, <1>5, <1>6

-----------------------------------------------------------------------------
(* The store is in order from the start and stays so.                      *)

LEMMA StoreInit ==
    ASSUME Init
    PROVE  StoreInv
<1>1. /\ feeds = Loaded.feeds /\ items = Loaded.items /\ rules = Loaded.rules /\ disk = Store
      /\ pc = [x \in Procs |-> "idle"] /\ got = [x \in Procs |-> NoFetch]
      /\ adding = [x \in Users |-> None] /\ site = Archive /\ usedFeeds = Subscribed
      /\ seen = UNION {{<<f, i>> : i \in Elems(items[f]) \cup Named(feeds[f])} : f \in Subscribed}
  BY DEF Init
<1>2. \A f \in FeedIds : \A i : f \in Subscribed /\ i \in Elems(items[f]) \cup Named(feeds[f])
                              => <<f, i>> \in seen
  BY <1>1
<1>3. \A f \in FeedIds : FeedOK(f, feeds[f], items[f], seen)
  <2> TAKE f \in FeedIds
  <2>1. /\ feeds[f] \in Feed \cup {None} /\ items[f] \in Seq(Entry) \cup {None}
        /\ (feeds[f] = None <=> items[f] = None)
    BY <1>1, LoadedAssumption
  <2>2. feeds[f] # None => f \in Subscribed
    BY DEF Subscribed
  <2> QED BY <1>2, <2>1, <2>2 DEF FeedOK
<1>4. FeedsOK(feeds, items, seen)
  BY <1>1, <1>3, LoadedAssumption DEF FeedsOK
<1>5. RulesOK(rules)
  BY <1>1, LoadedAssumption DEF RulesOK
<1>6. disk.feeds = feeds /\ disk.items = items /\ disk.rules = rules
  BY <1>1 DEF Store
<1> DEFINE given(r) == CHOOSE x \in Elems(rules) : x.id = r
<1>7. granted = [r \in Rules |-> IF r \in RuleIds THEN given(r).scope ELSE None]
  BY DEF Init
<1>8. \A a \in Elems(rules) : /\ a \in Rule /\ a.id \in Rules /\ a.scope \in SUBSET FeedIds
                              /\ a.id \in RuleIds /\ given(a.id) = a
  <2> TAKE a \in Elems(rules)
  <2>1. a \in Rule
    BY <1>5 DEF RulesOK, Elems
  <2>2. given(a.id) \in Elems(rules) /\ given(a.id).id = a.id
    OBVIOUS
  <2>3. given(a.id) = a
    BY <1>5, <2>2 DEF RulesOK
  <2> QED BY <2>1, <2>3 DEF Rule, RuleIds
<1>9. /\ granted \in [Rules -> (SUBSET FeedIds) \cup {None}]
      /\ \A a \in Elems(rules) : granted[a.id] = a.scope
  <2>1. \A r \in RuleIds : \E a \in Elems(rules) : a.id = r
    BY DEF RuleIds
  <2> HIDE DEF given
  <2>2. \A r \in RuleIds : given(r).scope \in SUBSET FeedIds
    BY <1>8, <2>1
  <2> DEFINE gr(r) == IF r \in RuleIds THEN given(r).scope ELSE None
  <2>3. \A r \in Rules : gr(r) \in (SUBSET FeedIds) \cup {None}
    BY <2>2
  <2>4. granted = [r \in Rules |-> gr(r)] /\ \A a \in Elems(rules) : gr(a.id) = a.scope
    BY <1>7, <1>8
  <2> HIDE DEF gr
  <2>5. granted \in [Rules -> (SUBSET FeedIds) \cup {None}]
    BY <2>3, <2>4
  <2> QED BY <1>8, <2>5, <2>4
<1>10. ScopesOK(rules, granted)
  BY <1>9 DEF ScopesOK
<1>11. FetchTypes
  <2>1. NoFetch \in [FeedIds -> Got \cup {None}] /\ Subscribed \subseteq FeedIds
    BY DEF NoFetch, Subscribed
  <2> QED BY <1>1, <1>9, <2>1, RulesAssumption DEF FetchTypes, Places, Procs
<1> QED BY <1>4, <1>5, <1>6, <1>10, <1>11 DEF StoreInv

(* The rules after a crash are those on disk, with the scopes they have.   *)
LEMMA CrashScopes ==
    ASSUME StoreInv, Crash
    PROVE  /\ granted' \in [Rules -> (SUBSET FeedIds) \cup {None}]
           /\ ScopesOK(rules', granted')
<1> DEFINE R == disk.rules
           given(r) == CHOOSE o \in Elems(R) : o.id = r
<1>1. /\ rules' = R /\ RulesOK(R) /\ granted \in [Rules -> (SUBSET FeedIds) \cup {None}]
      /\ granted' = [r \in Rules |-> IF \E o \in Elems(R) : o.id = r THEN given(r).scope
                                                                   ELSE granted[r]]
  BY DEF StoreInv, FetchTypes, Crash
<1> HIDE DEF R
<1>2. \A a \in Elems(R) : a.id \in Rules /\ a.scope \in SUBSET FeedIds /\ given(a.id) = a
  <2> TAKE a \in Elems(R)
  <2>1. a \in Rule
    BY <1>1 DEF RulesOK, Elems
  <2>2. given(a.id) \in Elems(R) /\ given(a.id).id = a.id
    OBVIOUS
  <2>3. given(a.id) = a
    BY <1>1, <2>2 DEF RulesOK
  <2> QED BY <2>1, <2>3 DEF Rule
<1> HIDE DEF given
<1>3. /\ granted' \in [Rules -> (SUBSET FeedIds) \cup {None}]
      /\ \A a \in Elems(R) : granted'[a.id] = a.scope
  BY <1>1, <1>2
<1> QED BY <1>1, <1>3 DEF ScopesOK

LEMMA StoreStep ==
    ASSUME StoreInv, [Next]_vars
    PROVE  StoreInv'
<1>1. /\ FetchTypes /\ FeedsOK(feeds, items, seen) /\ FeedsOK(disk.feeds, disk.items, seen)
      /\ RulesOK(rules) /\ RulesOK(disk.rules) /\ ScopesOK(rules, granted)
  BY DEF StoreInv
(* A save, or no change to the disk.                                       *)
<1>2. ASSUME FetchTypes', FeedsOK(feeds', items', seen'), RulesOK(rules'),
             ScopesOK(rules', granted'), seen \subseteq seen', disk' = disk \/ disk' = Store
      PROVE  StoreInv'
  <2>1. FeedsOK(feeds, items, seen') /\ FeedsOK(disk.feeds, disk.items, seen')
    BY <1>1, <1>2, ShowsMore
  <2>2. FeedsOK(disk'.feeds, disk'.items, seen') /\ RulesOK(disk'.rules)
    BY <1>1, <1>2, <2>1 DEF Store
  <2> QED BY <1>2, <2>2 DEF StoreInv
<1>3. CASE UNCHANGED <<feeds, items, rules, seen, granted>> /\ FetchTypes'
             /\ (disk' = disk \/ disk' = Store)
  BY <1>1, <1>2, <1>3
<1>4. CASE Fetches
  <2>1. PICK D \in SUBSET FeedIds : PollDue(D)
    BY <1>4 DEF Fetches
  <2>2. BeginFetch(Poller, D) /\ D \in SUBSET Subscribed /\ Poller \in Procs
    BY <2>1 DEF PollDue, Active, Procs
  <2>3. FetchTypes'
    BY <2>2, BeginKeepsTypes
  <2>4. UNCHANGED <<feeds, items, rules, seen, granted, disk>>
    BY <2>2 DEF BeginFetch, storeVars, ghostVars
  <2> QED BY <1>3, <2>3, <2>4
<1>5. ASSUME NEW x \in Procs, ProcStep(x) PROVE StoreInv'
  <2>1. CASE Save(x)
    <3> DEFINE at == IF x = Poller /\ todo # <<>> THEN "match" ELSE "idle"
    <3>1. /\ pc' = [pc EXCEPT ![x] = at] /\ UNCHANGED <<got, adding, site, usedFeeds, granted>>
          /\ at \in Places \ {"apply", "adding"}
      BY <2>1 DEF Save, Persist, extVars, Places
    <3> HIDE DEF at
    <3>2. FetchTypes'
      BY <1>1, <3>1, MoveKeepsTypes DEF FetchTypes
    <3>3. UNCHANGED <<feeds, items, rules, seen, granted>> /\ disk' = Store
      BY <2>1 DEF Save, Persist, storeVars
    <3> QED BY <1>3, <3>2, <3>3
  <2>2. ASSUME NEW f \in FeedIds, Fetch(x, f) PROVE StoreInv'
    <3>1. UNCHANGED <<feeds, items, rules, seen, granted, disk>>
      BY <2>2 DEF Fetch, storeVars, ghostVars
    <3> QED BY <1>3, <2>2, <3>1, FetchKeepsTypes
  <2>3. ASSUME NEW f \in FeedIds, ApplyFetch(x, f) PROVE StoreInv'
    <3>1. UNCHANGED <<rules, granted, disk>>
      BY <2>3 DEF ApplyFetch
    <3>2. FetchTypes' /\ FeedsOK(feeds', items', seen') /\ seen \subseteq seen'
      BY <2>3, FetchKeepsTypes, ApplyKeeps
    <3>3. RulesOK(rules') /\ ScopesOK(rules', granted')
      BY <1>1, <3>1
    <3> QED BY <1>2, <3>1, <3>2, <3>3
  <2> QED BY <1>5, <2>1, <2>2, <2>3 DEF ProcStep
<1>6. ASSUME NEW x \in Users, UserStep(x) PROVE StoreInv'
  <2>1. FetchTypes' /\ RulesOK(rules') /\ ScopesOK(rules', granted')
    BY <1>6, UserKeepsTypes, UserKeepsRules
  <2>2. disk' = disk
    BY <1>6 DEF UserStep, Refresh, BeginFetch, AddFeed, InsertFeed, RemoveFeed, SetActive,
                DeleteItem, PutRule, RemoveRule, ThenSave
  <2>3. CASE InsertFeed(x)
    BY <1>2, <2>1, <2>2, <2>3, InsertKeeps
  <2>4. ASSUME NEW f \in Subscribed,
               RemoveFeed(x, f) \/ (\E on \in BOOLEAN : SetActive(x, f, on))
                 \/ (\E i \in Items : DeleteItem(x, f, i))
        PROVE  StoreInv'
    <3>1. f \in FeedIds /\ seen' = seen
      BY <2>4 DEF Subscribed, RemoveFeed, SetActive, DeleteItem
    <3>2. FeedsOK(feeds', items', seen)
      BY <2>4, <3>1, RemoveKeepsFeeds
    <3> QED BY <1>2, <2>1, <2>2, <3>1, <3>2
  <2>5. CASE UNCHANGED <<feeds, items, seen>>
    BY <1>1, <1>2, <2>1, <2>2, <2>5
  <2>6. \/ InsertFeed(x) \/ UNCHANGED <<feeds, items, seen>>
        \/ \E f \in Subscribed :
              \/ RemoveFeed(x, f) \/ (\E on \in BOOLEAN : SetActive(x, f, on))
              \/ (\E i \in Items : DeleteItem(x, f, i))
    BY <1>6 DEF UserStep, Refresh, BeginFetch, AddFeed, PutRule, RemoveRule, storeVars, ghostVars
  <2> QED BY <2>3, <2>4, <2>5, <2>6
<1>7. CASE Evaluate
  <2>1. PICK at \in Places \ {"apply", "adding"} : pc' = [pc EXCEPT ![Poller] = at]
    BY <1>7, EvaluateMoves
  <2>2. UNCHANGED <<feeds, items, rules, disk, got, adding, site, usedFeeds, granted, seen>>
    BY <1>7, EvaluateMoves
  <2>3. FetchTypes'
    BY <1>1, <2>1, <2>2, MoveKeepsTypes DEF FetchTypes, Procs
  <2> QED BY <1>3, <2>2, <2>3
<1>8. CASE UNCHANGED <<feeds, items, rules, seen, granted, pc, got, adding, usedFeeds>>
             /\ (disk' = disk \/ disk' = Store) /\ site' \in [Urls -> Nat]
  <2>1. FetchTypes'
    BY <1>1, <1>8 DEF FetchTypes
  <2> QED BY <1>3, <1>8, <2>1
<1>9. ASSUME NEW m \in Monitors, MonitorStep(m) PROVE StoreInv'
  <2>1. UNCHANGED <<feeds, items, rules, seen, granted, pc, got, adding, usedFeeds, site>>
    BY <1>9 DEF MonitorStep, MonitorWake, MonitorEngine, MonitorSettle, MonitorRest, MonitorCheck,
                Persist, MonFrame, storeVars, ghostVars, procVars, extVars
  <2>2. disk' = disk \/ disk' = Store
    BY <1>9 DEF MonitorStep, MonitorWake, MonitorEngine, MonitorSettle, MonitorRest, MonitorCheck,
                Persist, MonFrame
  <2> QED BY <1>1, <1>8, <2>1, <2>2 DEF FetchTypes
<1>10. CASE Idles
  <2>1. UNCHANGED <<feeds, items, rules, seen, granted, pc, got, adding, usedFeeds, disk>>
    BY <1>10 DEF Idles, Publish, TaskEnds, EngineStop, EngineStart, storeVars, ghostVars, procVars
  <2>2. site' = site \/ \E u \in Urls : site' = [site EXCEPT ![u] = @ + 1]
    BY <1>10 DEF Idles, Publish, TaskEnds, EngineStop, EngineStart
  <2>3. site' \in [Urls -> Nat]
    BY <1>1, <2>2 DEF FetchTypes
  <2> QED BY <1>8, <2>1, <2>3
<1>11. CASE Crash
  <2>1. /\ feeds' = disk.feeds /\ items' = disk.items /\ rules' = disk.rules /\ disk' = disk
        /\ pc' = [x \in Procs |-> "idle"] /\ got' = [x \in Procs |-> NoFetch]
        /\ adding' = [x \in Users |-> None] /\ UNCHANGED <<site, usedFeeds, seen>>
    BY <1>11 DEF Crash, extVars
  <2>2. FetchTypes'
    BY <1>1, <1>11, <2>1, CrashScopes DEF FetchTypes, Places, NoFetch, Procs
  <2>3. RulesOK(rules') /\ FeedsOK(feeds', items', seen')
    BY <1>1, <2>1
  <2> QED BY <1>2, <1>11, <2>1, <2>2, <2>3, CrashScopes
<1>12. CASE UNCHANGED vars
  BY <1>1, <1>8, <1>12 DEF vars, storeVars, ghostVars, procVars, extVars, FetchTypes
<1> QED
  BY <1>4, <1>5, <1>6, <1>7, <1>9, <1>10, <1>11, <1>12, Steps

-----------------------------------------------------------------------------
(* The poller: what it evaluates and what it knows of it.                  *)

Todo == [feed : FeedIds, item : Entry]
Cur == [rule : Rules, score : Int, key : Keys \cup {None}, prev : EpisodeRecord \cup {None}]
Status == {"live", "complete", "gone"}
Evaluating == {"decide", "queue", "record", "track"}
History == [Keys -> EpisodeRecord \cup {None}]

EvalInv ==
    /\ todo \in Seq(Todo)
    /\ pc[Poller] \in {"match"} \cup Evaluating => todo # <<>>
    /\ pc[Poller] \in Evaluating => cur \in Cur /\ Head(todo).item \in Items
    /\ tasks \in Seq(Status) /\ Len(tasks) <= MaxDownloads
    /\ pc[Poller] \in {"record", "track"} => Len(tasks) \in Gids
    /\ history \in History /\ engineUp \in BOOLEAN

(* The episode and the rule of an item.                                    *)
LEMMA KeyOf == ASSUME NEW i \in Items PROVE Episode[i] \in Keys \cup {None}
  BY DEF Keys

LEMMA RuleOf ==
    ASSUME RulesOK(rules), NEW e, BestMatchingRule(e) # None
    PROVE  BestMatchingRule(e) \in Rules /\ e.item \in Items
<1> DEFINE n == Len(rules)
           score(i) == Score[rules[i].id][e.item]
           hits == {i \in 1..n : Accepts(rules[i], e)}
           best == {i \in hits : rules[i].id \notin AnyMatch}
           anys == {i \in hits \ best : \A b \in best : b < i => score(i) >= score(b)}
           tops == {i \in best : \A b \in best :
                       score(b) < score(i) \/ (score(b) = score(i) /\ b >= i)}
           first(S) == CHOOSE i \in S : \A j \in S : i <= j
<1>1. BestMatchingRule(e) = IF anys # {} THEN rules[first(anys)].id
                            ELSE IF tops # {} THEN rules[first(tops)].id ELSE None
  BY DEF BestMatchingRule
<1>2. hits \subseteq Nat /\ anys \subseteq hits /\ tops \subseteq hits
  OBVIOUS
<1>3. \A i \in hits : rules[i].id \in Rules /\ e.item \in Items
  <2> TAKE i \in hits
  <2>1. rules[i] \in Rule
    BY DEF RulesOK
  <2>2. rules[i].id \in Rules /\ e.item \in Matches[rules[i].id]
    BY <2>1 DEF Rule, Accepts
  <2> QED BY <2>2, RulesAssumption
<1>4. \A S \in SUBSET hits : S # {} => first(S) \in hits
  <2> HIDE DEF hits
  <2> TAKE S \in SUBSET hits
  <2> HAVE S # {}
  <2>1. \E i \in S : \A j \in S : i <= j
    BY <1>2, LeastElement
  <2>2. first(S) \in S
    BY <2>1
  <2> QED BY <2>2
<1> HIDE DEF hits, anys, tops, first
<1>5. CASE anys # {}
  <2>1. first(anys) \in hits
    BY <1>2, <1>4, <1>5
  <2> QED BY <1>1, <1>3, <1>5, <2>1
<1>6. CASE anys = {} /\ tops # {}
  <2>1. first(tops) \in hits
    BY <1>2, <1>4, <1>6
  <2> QED BY <1>1, <1>3, <1>6, <2>1
<1> QED BY <1>1, <1>5, <1>6

(* What happens to the history, but for a crash: a record is written, with *)
(* its file for FiledFor, or given back.                                   *)
Writes(j, h, k, r) == j \in History /\ \A q \in Keys : j[q] = IF q = k THEN r ELSE h[q]

FiledFor(h, j, q) ==
    \A k \in Keys : IF k = q THEN j[k] # None /\ j[k].file ELSE j[k] = h[k]
WrittenFor(h, j, p) ==
    \A k \in Keys : IF k = p.key THEN j[k] # None /\ j[k].item = p.item ELSE j[k] = h[k]
RolledBack(h, j, p) ==
    \A k \in Keys : j[k] = IF k = p.key /\ h[k] # None /\ h[k].item = p.item /\ ~h[k].file
                             THEN p.prev ELSE h[k]

LEMMA WithEpisodeType ==
    ASSUME NEW h \in History, NEW k \in Keys \cup {None}, NEW item \in Items, NEW score \in Int,
           NEW file \in BOOLEAN
    PROVE  Writes(WithEpisode(h, k, item, score, file), h, k,
                  [item |-> item, score |-> score, file |-> file])
<1> DEFINE r == [item |-> item, score |-> score, file |-> file]
<1>1. r \in EpisodeRecord
  BY DEF EpisodeRecord
<1>2. None \notin Keys
  BY DEF Keys
<1>3. WithEpisode(h, k, item, score, file) = IF k = None THEN h ELSE [h EXCEPT ![k] = r]
  BY DEF WithEpisode
<1> HIDE DEF r
<1>4. Writes(WithEpisode(h, k, item, score, file), h, k, r)
  BY <1>1, <1>2, <1>3 DEF Writes, History
<1> QED BY <1>4 DEF r

LEMMA RollbackType ==
    ASSUME NEW h \in History, NEW p \in Pending
    PROVE  Rollback(h, p) \in History /\ RolledBack(h, Rollback(h, p), p)
<1>1. p.prev \in EpisodeRecord \cup {None} /\ p.key \in Keys \cup {None} /\ None \notin Keys
  BY DEF Pending, Keys
<1> QED BY <1>1 DEF Rollback, History, RolledBack

LEMMA EvalSame ==
    ASSUME EvalInv, UNCHANGED <<todo, cur>>,
           tasks' \in Seq(Status), Len(tasks') = Len(tasks), history' \in History,
           engineUp' \in BOOLEAN,
           pc'[Poller] = pc[Poller] \/ pc'[Poller] \notin {"match"} \cup Evaluating
    PROVE  EvalInv'
  BY DEF EvalInv, Evaluating

(* The poller goes on to the next item.                                    *)
LEMMA NextItemKeeps ==
    ASSUME EvalInv, FetchTypes, pc[Poller] \in {"match"} \cup Evaluating, NEW d, NextItem(d),
           UNCHANGED <<tasks, engineUp>>, history' \in History
    PROVE  EvalInv' /\ pc'[Poller] \in {"match", "save", "idle"}
<1>1. todo \in Seq(Todo) /\ todo # <<>> /\ todo' = Tail(todo)
  BY DEF EvalInv, NextItem
<1>2. todo' \in Seq(Todo) /\ (Len(todo) > 1 => todo' # <<>>)
  <2>1. Tail(todo) \in Seq(Todo) /\ Len(Tail(todo)) = Len(todo) - 1 /\ Len(todo) \in Nat
    BY <1>1
  <2> DEFINE t == Tail(todo)
  <2>2. Len(todo) > 1 => Len(t) # 0
    BY <2>1
  <2> HIDE DEF t
  <2>3. Len(t) # 0 => t # <<>>
    OBVIOUS
  <2> QED BY <1>1, <2>1, <2>2, <2>3 DEF t
<1>3. pc'[Poller] = IF Len(todo) > 1 THEN "match" ELSE IF d THEN "save" ELSE "idle"
  BY DEF FetchTypes, NextItem, Procs
<1>4. pc'[Poller] \in {"match", "save", "idle"} /\ (pc'[Poller] = "match" => todo' # <<>>)
  BY <1>2, <1>3
<1> QED BY <1>2, <1>4 DEF EvalInv, Evaluating

LEMMA EvaluateKeepsEval ==
    ASSUME EvalInv, StoreInv, Evaluate
    PROVE  EvalInv'
<1>1. FetchTypes /\ RulesOK(rules) /\ Poller \in Procs
  BY DEF StoreInv, Procs
<1>2. CASE MatchSkip \/ DecideSkip \/ QueueSkip \/ Track
  <2>1. /\ pc[Poller] \in {"match"} \cup Evaluating /\ history' = history
        /\ UNCHANGED <<tasks, engineUp>>
        /\ \E d : NextItem(d)
    BY <1>2 DEF MatchSkip, DecideSkip, QueueSkip, Track, Evaluating, storeVars, extVars
  <2> QED BY <1>1, <2>1, NextItemKeeps DEF EvalInv
<1>3. CASE WriteArticle
  <2>1. /\ pc[Poller] = "queue" /\ UNCHANGED <<tasks, engineUp>> /\ NextItem(TRUE)
        /\ history' = WithEpisode(history, cur.key, Head(todo).item, cur.score, TRUE)
    BY <1>3 DEF WriteArticle, extVars
  <2>2. cur \in Cur /\ Head(todo).item \in Items /\ history \in History
    BY <2>1 DEF EvalInv, Evaluating
  <2>3. cur.key \in Keys \cup {None} /\ cur.score \in Int
    BY <2>2 DEF Cur
  <2>4. history' \in History
    BY <2>1, <2>2, <2>3, WithEpisodeType DEF Writes
  <2> QED BY <1>1, <2>1, <2>4, NextItemKeeps DEF Evaluating
<1>4. CASE Match
  <2> DEFINE e == Head(todo)
             r == BestMatchingRule(e)
             i == e.item
  <2>1. /\ r # None /\ pc[Poller] = "match" /\ pc' = [pc EXCEPT ![Poller] = "decide"]
        /\ cur' = [rule |-> r, score |-> Score[r][i], key |-> Episode[i], prev |-> None]
        /\ UNCHANGED <<todo, tasks, history, engineUp>>
    BY <1>4 DEF Match, storeVars, extVars
  <2>2. r \in Rules /\ i \in Items
    BY <1>1, <2>1, RuleOf
  <2>3. Score[r][i] \in Int /\ Episode[i] \in Keys \cup {None}
    BY <2>2, KeyOf, RulesAssumption
  <2>4. cur' \in Cur
    <3> HIDE DEF r, i
    <3> QED BY <2>1, <2>2, <2>3 DEF Cur
  <2>5. pc'[Poller] = "decide"
    BY <1>1, <2>1 DEF FetchTypes
  <2> QED BY <2>1, <2>2, <2>4, <2>5 DEF EvalInv, Evaluating
<1>5. CASE Decide
  <2>1. /\ pc[Poller] = "decide" /\ pc' = [pc EXCEPT ![Poller] = "queue"]
        /\ UNCHANGED <<todo, cur, tasks, history, engineUp>>
    BY <1>5 DEF Decide, storeVars, extVars
  <2>2. pc'[Poller] = "queue"
    BY <1>1, <2>1 DEF FetchTypes
  <2> QED BY <2>1, <2>2 DEF EvalInv, Evaluating
<1>6. CASE Queue
  <2>1. /\ pc[Poller] = "queue" /\ pc' = [pc EXCEPT ![Poller] = "record"]
        /\ Len(tasks) < MaxDownloads /\ tasks' = Append(tasks, "live")
        /\ UNCHANGED <<todo, cur, history, engineUp>>
    BY <1>6 DEF Queue, storeVars
  <2>2. pc'[Poller] = "record"
    BY <1>1, <2>1 DEF FetchTypes
  <2>3. tasks' \in Seq(Status) /\ Len(tasks') = Len(tasks) + 1 /\ Len(tasks) \in Nat
    BY <2>1 DEF EvalInv, Status
  <2>4. Len(tasks') \in Gids /\ Len(tasks') <= MaxDownloads
    BY <2>1, <2>3, BoundAssumption DEF Gids
  <2> QED BY <2>1, <2>2, <2>3, <2>4 DEF EvalInv, Evaluating
<1>7. CASE Record
  <2>1. /\ pc[Poller] = "record" /\ pc' = [pc EXCEPT ![Poller] = "track"]
        /\ UNCHANGED <<todo, tasks, engineUp>> /\ cur' = [cur EXCEPT !.prev = Recorded(cur.key)]
        /\ history' = WithEpisode(history, cur.key, Head(todo).item, cur.score, FALSE)
    BY <1>7 DEF Record, extVars
  <2>2. cur \in Cur /\ Head(todo).item \in Items /\ history \in History
    BY <2>1 DEF EvalInv, Evaluating
  <2>3. cur.key \in Keys \cup {None} /\ cur.score \in Int
    BY <2>2 DEF Cur
  <2>4. history' \in History
    BY <2>1, <2>2, <2>3, WithEpisodeType DEF Writes
  <2>5. Recorded(cur.key) \in EpisodeRecord \cup {None}
    BY <2>2, <2>3 DEF Recorded, History
  <2>6. cur' \in Cur
    BY <2>1, <2>2, <2>5 DEF Cur
  <2>7. pc'[Poller] = "track"
    BY <1>1, <2>1 DEF FetchTypes
  <2> QED BY <2>1, <2>4, <2>6, <2>7 DEF EvalInv, Evaluating
<1> QED BY <1>2, <1>3, <1>4, <1>5, <1>6, <1>7 DEF Evaluate

-----------------------------------------------------------------------------
(* The downloads the poller has queued and the monitor.                    *)

Job == [p : Pending, complete : BOOLEAN]
Monitor == [at : {"none", "sleep", "engine", "scan", "settle"}, gids : SUBSET Gids,
            engine : BOOLEAN, job : Job \cup {None}, changed : BOOLEAN]

WatchInv ==
    /\ pending \in [Gids -> Pending \cup {None}] /\ mon \in [Monitors -> Monitor]
    /\ \A m \in Monitors : mon[m].at = "settle" => mon[m].job \in Job
    /\ \A g \in Watched : /\ g <= Len(tasks)
                          /\ pc[Poller] \in {"record", "track"} => g < Len(tasks)
    /\ active \in BOOLEAN /\ (Watched # {} => active)
    /\ active => \E m \in Monitors : Running = {m}
    /\ ~active => Running = {}

MonitorInv == StoreInv /\ EvalInv /\ WatchInv

(* The poller applies what it has fetched.                                 *)
LEMMA ApplyKeepsEval ==
    ASSUME EvalInv, StoreInv, NEW x \in Procs, NEW f \in FeedIds, ApplyFetch(x, f)
    PROVE  EvalInv'
<1> DEFINE a == got[x][f]
           feed == feeds[f]
           fresh == Fresh(f, feed.url, a.version)
           more == [i \in 1..Len(fresh) |-> [feed |-> f, item |-> fresh[i]]]
<1>1. FetchTypes /\ FeedOK(f, feed, items[f], seen) /\ Poller \in Procs
  BY DEF StoreInv, FeedsOK, Procs
<1>2. /\ UNCHANGED <<cur, tasks, history, engineUp>> /\ pc[x] = "apply"
      /\ pc' = IF Fetched(x) = {f} THEN [pc EXCEPT ![x] = "save"] ELSE pc
  BY DEF ApplyFetch, extVars
<1>3. pc'[Poller] = pc[Poller] \/ pc'[Poller] = "save"
  BY <1>1, <1>2 DEF FetchTypes
<1>4. CASE todo' = todo
  BY <1>2, <1>3, <1>4, EvalSame DEF EvalInv, Evaluating
<1>5. CASE todo' # todo
  <2>1. f \in Subscribed /\ a.kind = "new" /\ x = Poller /\ todo' = todo \o more
    BY <1>5 DEF ApplyFetch
  <2>2. a \in Got /\ feed \in Feed /\ items[f] \in Seq(Entry)
    BY <1>1, <1>2, <2>1 DEF FetchTypes, FeedOK, Subscribed, ApplyFetch, Fetched
  <2>3. a.version \in Nat /\ feed.url \in Urls
    BY <2>1, <2>2 DEF Got, Feed
  <2>4. fresh \in Seq(Entry)
    <3> DEFINE old == items[f]
               u == feed.url
               v == a.version
    <3>1. /\ old \in Seq(Entry) /\ u \in Urls /\ v \in Nat
          /\ fresh = NewOnes(Prefix(Entries(u, v), ItemCap), Elems(old))
      BY <2>2, <2>3 DEF Fresh
    <3> HIDE DEF fresh, old, u, v
    <3> QED BY <3>1, FreshItems
  <2> HIDE DEF fresh
  <2>5. \A i \in 1..Len(fresh) : [feed |-> f, item |-> fresh[i]] \in Todo
    BY <2>4 DEF Todo
  <2>6. more \in Seq(Todo)
    BY <2>4, <2>5
  <2> HIDE DEF more
  <2>7. todo' \in Seq(Todo)
    BY <2>1, <2>6 DEF EvalInv
  <2>8. pc'[Poller] \notin {"match"} \cup Evaluating
    BY <1>2, <1>3, <2>1 DEF Evaluating
  <2> QED BY <1>2, <2>7, <2>8 DEF EvalInv, Evaluating
<1> QED BY <1>4, <1>5

(* What a step of the monitor does to the history.                         *)
LEMMA SettleType ==
    ASSUME EvalInv, WatchInv, NEW m \in Monitors, MonitorSettle(m)
    PROVE  mon[m].job \in Job /\ history' \in History
<1> DEFINE p == mon[m].job.p
<1>1. mon[m].job \in Job
  BY DEF WatchInv, MonitorSettle, Monitor
<1>2. p \in Pending
  BY <1>1 DEF Job
<1>3. p.key \in Keys \cup {None} /\ p.item \in Items /\ p.score \in Int
  BY <1>2 DEF Pending
<1>4. \/ \E file \in BOOLEAN : history' = WithEpisode(history, p.key, p.item, p.score, file)
      \/ history' = Rollback(history, p)
  BY DEF MonitorSettle
<1> HIDE DEF p
<1>5. history \in History
  BY DEF EvalInv
<1>6. Rollback(history, p) \in History
  BY <1>2, <1>5, RollbackType
<1>7. \A file \in BOOLEAN : WithEpisode(history, p.key, p.item, p.score, file) \in History
  BY <1>3, <1>5, WithEpisodeType DEF Writes
<1>8. history' \in History
  BY <1>4, <1>6, <1>7
<1> QED BY <1>1, <1>8

(* The saved history is a history.                                         *)
DiskInv == disk.history \in History

LEMMA EvalStep ==
    ASSUME MonitorInv, DiskInv, [Next]_vars
    PROVE  EvalInv' /\ DiskInv'
<1>1. EvalInv /\ StoreInv /\ WatchInv /\ FetchTypes /\ Poller \in Procs
  BY DEF MonitorInv, StoreInv, Procs
<1>2. tasks \in Seq(Status) /\ history \in History /\ engineUp \in BOOLEAN
  BY <1>1 DEF EvalInv
<1>3. ASSUME UNCHANGED <<todo, cur, tasks, history, engineUp>>,
             pc'[Poller] = pc[Poller] \/ pc'[Poller] \notin {"match"} \cup Evaluating
      PROVE  EvalInv'
  BY <1>1, <1>2, <1>3, EvalSame
<1>4. ASSUME disk' = disk \/ disk' = Store PROVE DiskInv'
  BY <1>2, <1>4 DEF DiskInv, Store
<1>5. CASE Fetches
  <2>1. PICK D \in SUBSET FeedIds : BeginFetch(Poller, D)
    BY <1>5 DEF Fetches, PollDue
  <2>2. pc'[Poller] = "fetch"
    BY <1>1, <2>1 DEF BeginFetch, FetchTypes
  <2>3. UNCHANGED <<todo, cur, tasks, history, engineUp, disk>>
    BY <2>1 DEF BeginFetch, storeVars, extVars
  <2> QED BY <1>3, <1>4, <2>2, <2>3 DEF Evaluating
<1>6. ASSUME NEW x \in Procs, ProcStep(x) PROVE EvalInv' /\ DiskInv'
  <2>1. CASE Save(x)
    <3>1. UNCHANGED <<todo, cur, tasks, history, engineUp>> /\ disk' = Store
      BY <2>1 DEF Save, Persist, storeVars, extVars
    <3>2. pc' = [pc EXCEPT ![x] = IF x = Poller /\ todo # <<>> THEN "match" ELSE "idle"]
      BY <2>1 DEF Save
    <3>3. CASE x = Poller /\ todo # <<>>
      <4>1. pc'[Poller] = "match"
        BY <1>1, <3>2, <3>3 DEF FetchTypes
      <4> QED BY <1>1, <1>4, <3>1, <3>3, <4>1 DEF EvalInv, Evaluating
    <3>4. CASE ~(x = Poller /\ todo # <<>>)
      <4>1. pc'[Poller] = pc[Poller] \/ pc'[Poller] = "idle"
        BY <1>1, <3>2, <3>4 DEF FetchTypes
      <4> QED BY <1>3, <1>4, <3>1, <4>1 DEF Evaluating
    <3> QED BY <3>3, <3>4
  <2>2. ASSUME NEW f \in FeedIds, Fetch(x, f) PROVE EvalInv' /\ DiskInv'
    <3>1. UNCHANGED <<todo, cur, tasks, history, engineUp, disk>>
      BY <2>2 DEF Fetch, storeVars, extVars
    <3>2. pc'[Poller] = pc[Poller] \/ pc'[Poller] = "apply"
      BY <1>1, <2>2 DEF Fetch, FetchTypes
    <3> QED BY <1>3, <1>4, <3>1, <3>2 DEF Evaluating
  <2>3. ASSUME NEW f \in FeedIds, ApplyFetch(x, f) PROVE EvalInv' /\ DiskInv'
    <3>1. disk' = disk
      BY <2>3 DEF ApplyFetch
    <3> QED BY <1>1, <1>4, <2>3, <3>1, ApplyKeepsEval
  <2> QED BY <1>6, <2>1, <2>2, <2>3 DEF ProcStep
<1>7. ASSUME NEW x \in Users, UserStep(x) PROVE EvalInv' /\ DiskInv'
  <2>1. UNCHANGED <<todo, cur, tasks, history, engineUp, disk>>
    BY <1>7 DEF UserStep, Refresh, BeginFetch, AddFeed, InsertFeed, RemoveFeed, SetActive,
                DeleteItem, PutRule, RemoveRule, ThenSave, storeVars, extVars
  <2>2. \E at : pc' = [pc EXCEPT ![x] = at]
    BY <1>7 DEF UserStep, Refresh, BeginFetch, AddFeed, InsertFeed, RemoveFeed, SetActive,
                DeleteItem, PutRule, RemoveRule, ThenSave
  <2>3. pc'[Poller] = pc[Poller]
    BY <1>1, <2>2, NamesAssumption DEF FetchTypes
  <2> QED BY <1>3, <1>4, <2>1, <2>3
<1>8. CASE Evaluate
  BY <1>1, <1>4, <1>8, EvaluateKeepsEval, EvaluateMoves
<1>9. ASSUME NEW m \in Monitors, MonitorStep(m) PROVE EvalInv' /\ DiskInv'
  <2>1. UNCHANGED <<todo, cur, tasks, pc, engineUp>> /\ (disk' = disk \/ disk' = Store)
    BY <1>9 DEF MonitorStep, MonitorWake, MonitorEngine, MonitorSettle, MonitorRest, MonitorCheck,
                Persist, MonFrame, procVars, extVars
  <2>2. MonitorSettle(m) \/ history' = history
    BY <1>9 DEF MonitorStep, MonitorWake, MonitorEngine, MonitorRest, MonitorCheck, Persist,
                storeVars
  <2>3. history' \in History
    BY <1>1, <1>2, <2>2, SettleType
  <2> QED BY <1>1, <1>2, <1>4, <2>1, <2>3, EvalSame
<1>10. CASE Idles
  <2>1. UNCHANGED <<todo, cur, pc, history, disk>>
    BY <1>10 DEF Idles, Publish, TaskEnds, EngineStop, EngineStart, storeVars, procVars
  <2>2. tasks' = tasks \/ \E g \in 1..Len(tasks), st \in Status : tasks' = [tasks EXCEPT ![g] = st]
    BY <1>10 DEF Idles, Publish, TaskEnds, EngineStop, EngineStart, Status
  <2>3. tasks' \in Seq(Status) /\ Len(tasks') = Len(tasks)
    BY <1>2, <2>2
  <2>4. engineUp' \in BOOLEAN
    BY <1>2, <1>10 DEF Idles, Publish, TaskEnds, EngineStop, EngineStart
  <2> QED BY <1>1, <1>2, <1>4, <2>1, <2>3, <2>4, EvalSame
<1>11. CASE Crash
  <2>1. /\ todo' = <<>> /\ history' = disk.history /\ disk' = disk
        /\ UNCHANGED <<tasks, engineUp>>
        /\ pc' = [x \in Procs |-> "idle"]
    BY <1>11 DEF Crash, extVars
  <2>2. pc'[Poller] = "idle" /\ todo' \in Seq(Todo)
    BY <1>1, <2>1
  <2> QED BY <1>1, <1>4, <2>1, <2>2 DEF EvalInv, DiskInv, Evaluating
<1>12. CASE UNCHANGED vars
  BY <1>3, <1>4, <1>12 DEF vars, storeVars, procVars, extVars
<1> QED
  BY <1>5, <1>6, <1>7, <1>8, <1>9, <1>10, <1>11, <1>12, Steps

(* Neither the downloads nor the monitor change.                           *)
LEMMA WatchSame ==
    ASSUME EvalInv, WatchInv, UNCHANGED <<pending, active, mon>>,
           \/ Len(tasks') = Len(tasks) /\ (pc'[Poller] \in {"record", "track"}
                                             => pc[Poller] \in {"record", "track"})
           \/ Len(tasks') = Len(tasks) + 1
    PROVE  WatchInv'
<1>1. Watched' = Watched /\ Running' = Running
  BY DEF Watched, Running
<1>2. Len(tasks) \in Nat /\ Watched \subseteq Nat
  BY DEF EvalInv, Watched, Gids
<1>3. \A g \in Watched : /\ g <= Len(tasks')
                         /\ pc'[Poller] \in {"record", "track"} => g < Len(tasks')
  <2> SUFFICES ASSUME NEW g \in Watched
               PROVE  /\ g <= Len(tasks')
                      /\ pc'[Poller] \in {"record", "track"} => g < Len(tasks')
    OBVIOUS
  <2>1. g \in Nat /\ g <= Len(tasks) /\ (pc[Poller] \in {"record", "track"} => g < Len(tasks))
    BY <1>2 DEF WatchInv
  <2> QED BY <1>2, <2>1
<1> QED BY <1>1, <1>3 DEF WatchInv

(* The monitor goes on.                                                    *)
LEMMA MonitorSame ==
    ASSUME WatchInv, NEW m \in Monitors, NEW r \in Monitor, Mon(m, r), mon[m].at # "none",
           r.at # "none", r.at = "settle" => r.job \in Job, UNCHANGED <<active, tasks, pc>>,
           pending' \in [Gids -> Pending \cup {None}], Watched' \subseteq Watched
    PROVE  WatchInv'
<1>1. /\ mon' \in [Monitors -> Monitor] /\ mon'[m] = r
      /\ \A n \in Monitors \ {m} : mon'[n] = mon[n]
  BY DEF WatchInv, Mon
<1>2. Running' = Running
  BY <1>1 DEF Running
<1>3. \A n \in Monitors : mon'[n].at = "settle" => mon'[n].job \in Job
  BY <1>1 DEF WatchInv
<1> QED BY <1>1, <1>2, <1>3 DEF WatchInv

LEMMA MonitorKeepsWatch ==
    ASSUME EvalInv, WatchInv, NEW m \in Monitors, MonitorStep(m)
    PROVE  WatchInv'
<1> DEFINE o == mon[m]
<1>1. o \in Monitor /\ UNCHANGED <<tasks, pc>> /\ pending \in [Gids -> Pending \cup {None}]
  BY DEF WatchInv, MonitorStep, MonitorWake, MonitorEngine, MonitorSettle, MonitorRest,
         MonitorCheck, MonFrame, procVars, extVars
<1>2. CASE MonitorWake(m) /\ Watched = {}
  <2>1. mon' = [mon EXCEPT ![m] = NoMonitor] /\ active' = FALSE /\ pending' = pending
    BY <1>2 DEF MonitorWake, Mon
  <2>2. NoMonitor \in Monitor /\ NoMonitor.at = "none"
    BY DEF NoMonitor, Monitor
  <2>3. m \in Running
    BY <1>2 DEF MonitorWake, Running
  <2>4. Running = {m}
    BY <2>3 DEF WatchInv
  <2> HIDE DEF o
  <2>5. /\ mon' \in [Monitors -> Monitor] /\ mon'[m].at = "none"
        /\ \A n \in Monitors \ {m} : mon'[n] = mon[n]
    BY <2>1, <2>2 DEF WatchInv
  <2>6. Running' = {} /\ Watched' = {}
    BY <1>2, <2>1, <2>4, <2>5 DEF Running, Watched
  <2> QED BY <1>1, <2>1, <2>5, <2>6 DEF WatchInv
<1>3. CASE MonitorWake(m) /\ Watched # {}
  <2> DEFINE r == [o EXCEPT !.at = "engine", !.gids = Watched]
  <2>1. Mon(m, r) /\ o.at = "sleep" /\ UNCHANGED <<pending, active>>
    BY <1>3 DEF MonitorWake
  <2>2. r \in Monitor /\ r.at = "engine"
    BY <1>1 DEF Monitor, Watched
  <2>3. Watched' = Watched
    BY <2>1 DEF Watched
  <2> QED BY <1>1, <2>1, <2>2, <2>3, MonitorSame
<1>4. CASE MonitorEngine(m)
  <2> DEFINE r == [o EXCEPT !.at = "scan", !.engine = engineUp]
  <2>1. Mon(m, r) /\ o.at = "engine" /\ UNCHANGED <<pending, active>>
    BY <1>4 DEF MonitorEngine
  <2>2. r \in Monitor /\ r.at = "scan"
    BY <1>1 DEF Monitor, EvalInv
  <2>3. Watched' = Watched
    BY <2>1 DEF Watched
  <2> QED BY <1>1, <2>1, <2>2, <2>3, MonitorSame
<1>5. ASSUME NEW g \in Gids, MonitorCheck(m, g) PROVE WatchInv'
  <2>1. o.at = "scan" /\ active' = active
    BY <1>5 DEF MonitorCheck
  <2>2. CASE Told(m, g) = "live" \/ pending[g] = None
    <3> DEFINE r == [o EXCEPT !.gids = o.gids \ {g}]
    <3>1. Mon(m, r) /\ pending' = pending
      BY <1>5, <2>2 DEF MonitorCheck
    <3>2. r \in Monitor /\ r.at = "scan"
      BY <1>1, <2>1 DEF Monitor
    <3>3. Watched' = Watched
      BY <3>1 DEF Watched
    <3> QED BY <1>1, <2>1, <3>1, <3>2, <3>3, MonitorSame
  <2>3. CASE ~(Told(m, g) = "live" \/ pending[g] = None)
    <3> DEFINE j == [p |-> pending[g], complete |-> Told(m, g) = "complete"]
               r == [o EXCEPT !.at = "settle", !.gids = o.gids \ {g}, !.job = j]
    <3>1. Mon(m, r) /\ pending' = [pending EXCEPT ![g] = None]
      BY <1>5, <2>3 DEF MonitorCheck
    <3>2. j \in Job
      BY <1>1, <2>3 DEF Job
    <3> HIDE DEF j
    <3>3. r \in Monitor /\ r.at = "settle" /\ r.job = j
      BY <1>1, <3>2 DEF Monitor
    <3>4. Watched' \subseteq Watched /\ pending' \in [Gids -> Pending \cup {None}]
      BY <1>1, <3>1 DEF Watched
    <3> QED BY <1>1, <2>1, <3>1, <3>2, <3>3, <3>4, MonitorSame
  <2> QED BY <2>2, <2>3
<1>6. CASE MonitorSettle(m)
  <2> DEFINE r == [o EXCEPT !.at = "scan", !.job = None, !.changed = TRUE]
  <2>1. Mon(m, r) /\ o.at = "settle" /\ UNCHANGED <<pending, active>>
    BY <1>6 DEF MonitorSettle
  <2>2. r \in Monitor /\ r.at = "scan"
    BY <1>1 DEF Monitor
  <2>3. Watched' = Watched
    BY <2>1 DEF Watched
  <2> QED BY <1>1, <2>1, <2>2, <2>3, MonitorSame
<1>7. CASE MonitorRest(m)
  <2> DEFINE r == [NoMonitor EXCEPT !.at = "sleep"]
  <2>1. Mon(m, r) /\ o.at = "scan" /\ UNCHANGED <<pending, active>>
    BY <1>7 DEF MonitorRest
  <2>2. r \in Monitor /\ r.at = "sleep"
    BY DEF Monitor, NoMonitor
  <2>3. Watched' = Watched
    BY <2>1 DEF Watched
  <2> QED BY <1>1, <2>1, <2>2, <2>3, MonitorSame
<1> QED BY <1>2, <1>3, <1>4, <1>5, <1>6, <1>7 DEF MonitorStep

(* track_download: the flag tells whether there is a monitor.              *)
LEMMA TrackKeepsWatch ==
    ASSUME EvalInv, FetchTypes, WatchInv, Track
    PROVE  WatchInv'
<1> DEFINE g == Len(tasks)
           p == [item |-> Head(todo).item, rule |-> cur.rule, key |-> cur.key,
                 score |-> cur.score, prev |-> cur.prev]
<1>1. /\ pc[Poller] = "track" /\ pending' = [pending EXCEPT ![g] = p] /\ active' = TRUE
      /\ tasks' = tasks /\ NextItem(TRUE)
  BY DEF Track, extVars
<1>2. cur \in Cur /\ Head(todo).item \in Items /\ g \in Gids /\ history \in History
  BY <1>1 DEF EvalInv, Evaluating
<1>3. p \in Pending
  BY <1>2 DEF Cur, Pending
<1>4. pc'[Poller] \in {"match", "save", "idle"}
  BY <1>1, NextItemKeeps DEF Track, extVars, storeVars, EvalInv, Evaluating
<1> HIDE DEF p
<1>5. pending' \in [Gids -> Pending \cup {None}] /\ Watched' = Watched \cup {g}
  BY <1>1, <1>2, <1>3, NoneAssumption DEF WatchInv, Watched
<1>6. \A h \in Watched' : h <= Len(tasks')
  BY <1>1, <1>2, <1>5 DEF WatchInv, Gids
<1>7. CASE active
  <2>1. mon' = mon /\ Running' = Running
    BY <1>7 DEF Track, Running
  <2> QED BY <1>1, <1>4, <1>5, <1>6, <1>7, <2>1 DEF WatchInv
<1>8. CASE ~active
  <2> DEFINE m == CHOOSE m \in Monitors : mon[m].at = "none"
             r == [mon[m] EXCEPT !.at = "sleep"]
  <2>1. Running = {} /\ mon \in [Monitors -> Monitor]
    BY <1>8 DEF WatchInv
  <2>2. m \in Monitors /\ mon[m].at = "none"
    BY <2>1, NamesAssumption DEF Running
  <2>3. mon' = [mon EXCEPT ![m] = r]
    BY <1>8 DEF Track
  <2>4. r \in Monitor /\ r.at = "sleep"
    BY <2>1, <2>2 DEF Monitor
  <2> HIDE DEF m, r
  <2>5. /\ mon' \in [Monitors -> Monitor] /\ mon'[m].at = "sleep"
        /\ \A n \in Monitors \ {m} : mon'[n] = mon[n]
    BY <2>1, <2>2, <2>3, <2>4
  <2>6. Running' = {m}
    BY <2>1, <2>2, <2>5 DEF Running
  <2>7. \A n \in Monitors : mon'[n].at = "settle" => mon'[n].job \in Job
    BY <2>5 DEF WatchInv
  <2> QED BY <1>1, <1>4, <1>5, <1>6, <2>2, <2>5, <2>6, <2>7 DEF WatchInv
<1> QED BY <1>7, <1>8 DEF WatchInv

LEMMA WatchStep ==
    ASSUME MonitorInv, [Next]_vars
    PROVE  WatchInv'
<1>1. EvalInv /\ WatchInv /\ StoreInv /\ FetchTypes /\ Poller \in Procs /\ Len(tasks) \in Nat
  BY DEF MonitorInv, StoreInv, Procs, EvalInv
<1>2. ASSUME UNCHANGED <<pending, active, mon, tasks>>,
             pc'[Poller] = pc[Poller] \/ pc'[Poller] \notin {"record", "track"}
      PROVE  WatchInv'
  BY <1>1, <1>2, WatchSame
<1>3. CASE Fetches
  <2>1. PICK D \in SUBSET FeedIds : BeginFetch(Poller, D)
    BY <1>3 DEF Fetches, PollDue
  <2>2. pc'[Poller] = "fetch" /\ UNCHANGED <<pending, active, mon, tasks>>
    BY <1>1, <2>1 DEF BeginFetch, FetchTypes, watchVars, extVars
  <2> QED BY <1>2, <2>2
<1>4. ASSUME NEW x \in Procs, ProcStep(x) PROVE WatchInv'
  <2>1. UNCHANGED <<pending, active, mon, tasks>>
    BY <1>4 DEF ProcStep, Save, Fetch, ApplyFetch, watchVars, extVars
  <2>2. pc' = pc \/ \E at \in {"match", "idle", "apply", "save"} : pc' = [pc EXCEPT ![x] = at]
    BY <1>4 DEF ProcStep, Save, Fetch, ApplyFetch
  <2>3. pc'[Poller] = pc[Poller] \/ pc'[Poller] \notin {"record", "track"}
    BY <1>1, <2>2 DEF FetchTypes
  <2> QED BY <1>2, <2>1, <2>3
<1>5. ASSUME NEW x \in Users, UserStep(x) PROVE WatchInv'
  <2>1. UNCHANGED <<pending, active, mon, tasks>>
    BY <1>5 DEF UserStep, Refresh, BeginFetch, AddFeed, InsertFeed, RemoveFeed, SetActive,
                DeleteItem, PutRule, RemoveRule, ThenSave, watchVars, extVars
  <2>2. \E at : pc' = [pc EXCEPT ![x] = at]
    BY <1>5 DEF UserStep, Refresh, BeginFetch, AddFeed, InsertFeed, RemoveFeed, SetActive,
                DeleteItem, PutRule, RemoveRule, ThenSave
  <2>3. pc'[Poller] = pc[Poller]
    BY <1>1, <2>2, NamesAssumption DEF FetchTypes
  <2> QED BY <1>2, <2>1, <2>3
<1>6. CASE Evaluate
  <2>1. CASE MatchSkip \/ DecideSkip \/ QueueSkip \/ WriteArticle
    <3>1. UNCHANGED <<pending, active, mon, tasks>> /\ \E d : NextItem(d)
      BY <2>1 DEF MatchSkip, DecideSkip, QueueSkip, WriteArticle, watchVars, extVars
    <3>2. pc'[Poller] \in {"match", "save", "idle"}
      BY <1>1, <3>1 DEF NextItem, FetchTypes
    <3> QED BY <1>2, <3>1, <3>2
  <2>2. CASE Match \/ Decide
    <3>1. UNCHANGED <<pending, active, mon, tasks>> /\ pc'[Poller] \in {"decide", "queue"}
      BY <1>1, <2>2 DEF Match, Decide, watchVars, extVars, FetchTypes
    <3> QED BY <1>2, <3>1
  <2>3. CASE Queue
    <3>1. UNCHANGED <<pending, active, mon>> /\ Len(tasks') = Len(tasks) + 1
      BY <1>1, <2>3 DEF Queue, watchVars, EvalInv
    <3> QED BY <1>1, <3>1, WatchSame
  <2>4. CASE Record
    <3>1. UNCHANGED <<pending, active, mon, tasks>> /\ pc[Poller] = "record"
      BY <2>4 DEF Record, watchVars, extVars
    <3> QED BY <1>1, <3>1, WatchSame
  <2> QED BY <1>1, <1>6, <2>1, <2>2, <2>3, <2>4, TrackKeepsWatch DEF Evaluate
<1>7. ASSUME NEW m \in Monitors, MonitorStep(m) PROVE WatchInv'
  BY <1>1, <1>7, MonitorKeepsWatch
<1>8. CASE Idles
  <2>1. UNCHANGED <<pending, active, mon, pc>>
    BY <1>8 DEF Idles, Publish, TaskEnds, EngineStop, EngineStart, watchVars, procVars
  <2>2. tasks' = tasks \/ \E g \in 1..Len(tasks), st \in Status : tasks' = [tasks EXCEPT ![g] = st]
    BY <1>8 DEF Idles, Publish, TaskEnds, EngineStop, EngineStart, Status
  <2>3. Len(tasks') = Len(tasks)
    BY <1>1, <2>2 DEF EvalInv
  <2> QED BY <1>1, <2>1, <2>3, WatchSame
<1>9. CASE Crash
  <2>1. /\ pending' = [g \in Gids |-> None] /\ active' = FALSE
        /\ mon' = [m \in Monitors |-> NoMonitor]
    BY <1>9 DEF Crash
  <2>2. NoMonitor \in Monitor /\ NoMonitor.at = "none"
    BY DEF NoMonitor, Monitor
  <2> HIDE DEF NoMonitor
  <2>3. Watched' = {} /\ Running' = {}
    BY <2>1, <2>2 DEF Watched, Running
  <2>4. mon' \in [Monitors -> Monitor] /\ \A m \in Monitors : mon'[m].at = "none"
    BY <2>1, <2>2
  <2> QED BY <2>1, <2>3, <2>4 DEF WatchInv
<1>10. CASE UNCHANGED vars
  BY <1>2, <1>10 DEF vars, watchVars, procVars, extVars
<1> QED
  BY <1>3, <1>4, <1>5, <1>6, <1>7, <1>8, <1>9, <1>10, Steps

LEMMA MonitorInit ==
    ASSUME Init
    PROVE  MonitorInv /\ DiskInv
<1>1. StoreInv /\ Poller \in Procs
  BY StoreInit DEF Procs
<1>2. /\ history = [k \in Keys |-> None] /\ disk = Store /\ pending = [g \in Gids |-> None]
      /\ active = FALSE /\ mon = [m \in Monitors |-> NoMonitor] /\ pc = [x \in Procs |-> "idle"]
      /\ todo = <<>> /\ tasks = <<>> /\ engineUp = TRUE
  BY DEF Init
<1>3. history \in History /\ DiskInv
  BY <1>2 DEF History, DiskInv, Store
<1>4. pc[Poller] = "idle"
  BY <1>1, <1>2
<1>5. EvalInv
  BY <1>2, <1>3, <1>4, BoundAssumption DEF EvalInv, Evaluating
<1>6. NoMonitor \in Monitor /\ NoMonitor.at = "none"
  BY DEF NoMonitor, Monitor
<1>7. Watched = {} /\ Running = {} /\ pending \in [Gids -> Pending \cup {None}]
  <2> HIDE DEF NoMonitor
  <2> QED BY <1>2, <1>6 DEF Watched, Running
<1>8. mon \in [Monitors -> Monitor] /\ \A m \in Monitors : mon[m].at = "none"
  <2> HIDE DEF NoMonitor
  <2> QED BY <1>2, <1>6
<1>9. WatchInv
  BY <1>2, <1>7, <1>8 DEF WatchInv
<1> QED BY <1>1, <1>3, <1>5, <1>9 DEF MonitorInv

LEMMA MonitorInvStep ==
    ASSUME MonitorInv, DiskInv, [Next]_vars
    PROVE  MonitorInv' /\ DiskInv'
  BY StoreStep, EvalStep, WatchStep DEF MonitorInv

(* What track_download has taken down and the monitor has not yet taken    *)
(* out is watched by one monitor, in whatever order downloads are queued   *)
(* and end, engines stop and the program dies: the flag of track_download  *)
(* tells whether the monitor runs (run_download_monitor).                  *)
THEOREM DownloadsWatchedHolds == Spec => []DownloadsWatched
<1>1. Init => MonitorInv /\ DiskInv
  BY MonitorInit
<1>2. MonitorInv /\ DiskInv /\ [Next]_vars => (MonitorInv /\ DiskInv)'
  BY MonitorInvStep
<1>3. MonitorInv => DownloadsWatched
  <2> SUFFICES ASSUME WatchInv PROVE DownloadsWatched
    BY DEF MonitorInv
  <2>1. Cardinality({}) = 0 /\ \A m \in Monitors : Cardinality({m}) = 1
    BY FS_EmptySet, FS_Singleton
  <2> QED BY <2>1 DEF WatchInv, DownloadsWatched
<1> QED BY <1>1, <1>2, <1>3, PTL DEF Spec

-----------------------------------------------------------------------------
(* The rounds of the poller: what it evaluates holds no item twice, for it *)
(* is empty when a round begins and apply_fetch comes to each feed once.   *)
RoundInv ==
    /\ NoRepeats(todo)
    /\ pc[Poller] \in {"idle", "fetch"} => todo = <<>>
    /\ pc[Poller] = "apply" => \A i \in 1..Len(todo) : got[Poller][todo[i].feed] = None

(* apply_fetch of the poller adds the new items of a feed it had not come  *)
(* to.                                                                     *)
LEMMA ApplyKeepsRounds ==
    ASSUME MonitorInv, RoundInv, NEW f \in FeedIds, ApplyFetch(Poller, f)
    PROVE  RoundInv'
<1> DEFINE a == got[Poller][f]
           feed == feeds[f]
           fresh == Fresh(f, feed.url, a.version)
           more == [i \in 1..Len(fresh) |-> [feed |-> f, item |-> fresh[i]]]
<1>1. /\ EvalInv /\ FetchTypes /\ FeedOK(f, feed, items[f], seen) /\ Poller \in Procs
      /\ todo \in Seq(Todo)
  BY DEF MonitorInv, StoreInv, FeedsOK, Procs, EvalInv
<1>2. /\ pc[Poller] = "apply" /\ a # None /\ got' = [got EXCEPT ![Poller][f] = None]
      /\ pc' = IF Fetched(Poller) = {f} THEN [pc EXCEPT ![Poller] = "save"] ELSE pc
      /\ todo' = todo \/ (f \in Subscribed /\ a.kind = "new" /\ todo' = todo \o more)
  BY DEF ApplyFetch, Fetched
<1>3. /\ pc'[Poller] \in {"apply", "save"} /\ got'[Poller][f] = None
      /\ \A h \in FeedIds \ {f} : got'[Poller][h] = got[Poller][h]
  BY <1>1, <1>2 DEF FetchTypes
<1>4. \A i \in 1..Len(todo) : /\ todo[i].feed \in FeedIds \ {f}
                              /\ got[Poller][todo[i].feed] = None
  <2> TAKE i \in 1..Len(todo)
  <2>3. pc[Poller] = "apply"
    BY <1>2
  <2>4. todo[i] \in Todo
    BY <1>1
  <2>1. todo[i] \in Todo /\ got[Poller][todo[i].feed] = None
    BY <2>3, <2>4 DEF RoundInv
  <2>2. todo[i].feed \in FeedIds
    BY <2>1 DEF Todo
  <2> QED BY <1>2, <2>1, <2>2
<1>5. CASE todo' = todo
  BY <1>3, <1>4, <1>5 DEF RoundInv
<1>6. CASE f \in Subscribed /\ a.kind = "new" /\ todo' = todo \o more
  <2>1. a \in Got /\ feed \in Feed /\ items[f] \in Seq(Entry)
    <3>1. got[Poller][f] \in Got \cup {None}
      BY <1>1 DEF FetchTypes
    <3>2. feed # None
      BY <1>6 DEF Subscribed
    <3>3. feed \in Feed /\ items[f] \in Seq(Entry)
      BY <1>1, <3>2 DEF FeedOK
    <3> QED BY <1>2, <3>1, <3>3
  <2>2. a.version \in Nat /\ feed.url \in Urls
    BY <1>6, <2>1 DEF Got, Feed
  <2>3. fresh \in Seq(Entry) /\ NoRepeats(fresh)
    <3> DEFINE old == items[f]
               u == feed.url
               v == a.version
    <3>1. /\ old \in Seq(Entry) /\ u \in Urls /\ v \in Nat
          /\ fresh = NewOnes(Prefix(Entries(u, v), ItemCap), Elems(old))
      BY <2>1, <2>2 DEF Fresh
    <3> HIDE DEF fresh, old, u, v
    <3> QED BY <3>1, FreshItems
  <2> HIDE DEF fresh
  <2>4. \A i \in 1..Len(fresh) : [feed |-> f, item |-> fresh[i]] \in Todo
    BY <2>3 DEF Todo
  <2>5. /\ more \in Seq(Todo) /\ Len(more) = Len(fresh)
        /\ \A i \in 1..Len(fresh) : more[i].feed = f /\ more[i].item = fresh[i]
    BY <2>3, <2>4
  <2> HIDE DEF more
  <2>6. NoRepeats(more)
    BY <2>3, <2>5 DEF NoRepeats
  <2>7. Elems(todo) \cap Elems(more) = {}
    BY <1>4, <2>5 DEF Elems
  <2>8. /\ NoRepeats(todo \o more) /\ todo \o more \in Seq(Todo)
        /\ Elems(todo \o more) = Elems(todo) \cup Elems(more)
    BY <1>1, <2>5, <2>6, <2>7, Concatenated DEF RoundInv
  <2>9. \A e \in Elems(todo') : got'[Poller][e.feed] = None
    <3>1. \A e \in Elems(todo) : got'[Poller][e.feed] = None
      BY <1>3, <1>4 DEF Elems
    <3>2. \A e \in Elems(more) : got'[Poller][e.feed] = None
      BY <1>3, <2>5 DEF Elems
    <3> QED BY <1>6, <2>8, <3>1, <3>2
  <2>10. \A i \in 1..Len(todo') : todo'[i] \in Elems(todo')
    BY DEF Elems
  <2> QED BY <1>3, <1>6, <2>8, <2>9, <2>10 DEF RoundInv
<1> QED BY <1>2, <1>5, <1>6

LEMMA RoundStep ==
    ASSUME MonitorInv, RoundInv, [Next]_vars
    PROVE  RoundInv'
<1>1. EvalInv /\ FetchTypes /\ Poller \in Procs /\ Poller \notin Users /\ todo \in Seq(Todo)
  BY NamesAssumption DEF MonitorInv, StoreInv, Procs, EvalInv
<1>2. CASE pc'[Poller] = pc[Poller] /\ todo' = todo /\ got'[Poller] = got[Poller]
  BY <1>2 DEF RoundInv
<1>3. CASE todo' = <<>>
  BY <1>3 DEF RoundInv, NoRepeats
<1>4. CASE Fetches
  <2>1. PICK D \in SUBSET FeedIds : BeginFetch(Poller, D)
    BY <1>4 DEF Fetches, PollDue
  <2>2. pc[Poller] = "idle" /\ todo' = todo
    BY <2>1 DEF BeginFetch
  <2> QED BY <1>3, <2>2 DEF RoundInv
<1>5. ASSUME NEW x \in Procs, ProcStep(x) PROVE RoundInv'
  <2>1. CASE x # Poller
    <3>1. /\ todo' = todo /\ (pc' = pc \/ \E at : pc' = [pc EXCEPT ![x] = at])
          /\ got' = got \/ \E f \in FeedIds : \E b : got' = [got EXCEPT ![x][f] = b]
      BY <1>5, <2>1 DEF ProcStep, Save, Fetch, ApplyFetch
    <3>2. pc'[Poller] = pc[Poller] /\ got'[Poller] = got[Poller]
      BY <1>1, <2>1, <3>1 DEF FetchTypes
    <3> QED BY <1>2, <3>1, <3>2
  <2>2. CASE x = Poller /\ Save(x)
    <3>1. /\ todo' = todo
          /\ pc'[Poller] = IF todo # <<>> THEN "match" ELSE "idle"
      BY <1>1, <2>2 DEF Save, FetchTypes
    <3> QED BY <3>1 DEF RoundInv
  <2>3. ASSUME NEW f \in FeedIds, x = Poller, Fetch(x, f) PROVE RoundInv'
    BY <1>3, <2>3 DEF Fetch, RoundInv
  <2>4. ASSUME NEW f \in FeedIds, x = Poller, ApplyFetch(x, f) PROVE RoundInv'
    BY <2>4, ApplyKeepsRounds
  <2> QED BY <1>5, <2>1, <2>2, <2>3, <2>4 DEF ProcStep
<1>6. ASSUME NEW x \in Users, UserStep(x) PROVE RoundInv'
  <2>1. todo' = todo /\ \E at : pc' = [pc EXCEPT ![x] = at]
    BY <1>6 DEF UserStep, Refresh, BeginFetch, AddFeed, InsertFeed, RemoveFeed, SetActive,
                DeleteItem, PutRule, RemoveRule, ThenSave
  <2>2. got' = got \/ \E b : got' = [got EXCEPT ![x] = b]
    BY <1>6 DEF UserStep, Refresh, BeginFetch, AddFeed, InsertFeed, RemoveFeed, SetActive,
                DeleteItem, PutRule, RemoveRule, ThenSave
  <2>3. pc'[Poller] = pc[Poller] /\ got'[Poller] = got[Poller]
    BY <1>1, <1>6, <2>1, <2>2 DEF FetchTypes
  <2> QED BY <1>2, <2>1, <2>3
<1>7. CASE Evaluate
  <2>1. CASE \E d : NextItem(d)
    <3>1. PICK d : NextItem(d)
      BY <2>1
    <3>2. todo # <<>>
      BY <1>1, <1>7 DEF EvalInv, Evaluating, Evaluate, MatchSkip, DecideSkip, QueueSkip, Match,
                        Decide, Queue, WriteArticle, Record, Track
    <3>3. /\ todo' = Tail(todo)
          /\ pc'[Poller] = IF Len(todo) > 1 THEN "match" ELSE IF d THEN "save" ELSE "idle"
      BY <1>1, <3>1 DEF NextItem, FetchTypes
    <3>4. /\ todo' \in Seq(Todo) /\ Len(todo') = Len(todo) - 1 /\ Len(todo) \in Nat
          /\ \A i \in 1..Len(todo') : todo'[i] = todo[i + 1]
      BY <1>1, <3>2, <3>3
    <3>5. NoRepeats(todo')
      <4> SUFFICES ASSUME NEW i \in 1..Len(todo'), NEW j \in 1..Len(todo'), todo'[i] = todo'[j]
                   PROVE  i = j
        BY DEF NoRepeats
      <4>1. todo[i + 1] = todo[j + 1] /\ i + 1 \in 1..Len(todo) /\ j + 1 \in 1..Len(todo)
        BY <3>4
      <4>2. i + 1 = j + 1
        BY <4>1 DEF RoundInv, NoRepeats
      <4> QED BY <4>2
    <3>6. pc'[Poller] \notin {"idle", "fetch"} \/ Len(todo') = 0
      BY <3>2, <3>3, <3>4
    <3>7. pc'[Poller] \notin {"idle", "fetch"} \/ todo' = <<>>
      BY <3>4, <3>6
    <3> QED BY <3>3, <3>5, <3>7 DEF RoundInv
  <2>2. CASE todo' = todo /\ pc'[Poller] \in {"decide", "queue", "record", "track"}
    BY <2>2 DEF RoundInv
  <2>3. \/ \E d : NextItem(d)
        \/ todo' = todo /\ pc'[Poller] \in {"decide", "queue", "record", "track"}
    BY <1>1, <1>7 DEF Evaluate, MatchSkip, DecideSkip, QueueSkip, Match, Decide, Queue,
                      WriteArticle, Record, Track, FetchTypes
  <2> QED BY <2>1, <2>2, <2>3
<1>8. CASE (\E m \in Monitors : MonitorStep(m)) \/ Idles \/ UNCHANGED vars
  <2>1. UNCHANGED <<pc, todo, got>>
    BY <1>8 DEF MonitorStep, MonitorWake, MonitorEngine, MonitorSettle, MonitorRest, MonitorCheck,
                MonFrame, procVars, Idles, Publish, TaskEnds, EngineStop, EngineStart, vars
  <2> QED BY <1>2, <2>1
<1>9. CASE Crash
  BY <1>3, <1>9 DEF Crash
<1> QED BY <1>4, <1>5, <1>6, <1>7, <1>8, <1>9, Steps

(* A store in order and a list without repetition are what FeedsInOrder    *)
(* says.                                                                   *)
LEMMA StoreMeans ==
    ASSUME StoreInv, RoundInv
    PROVE  FeedsInOrder
<1>1. FeedsOK(feeds, items, seen) /\ RulesOK(rules) /\ ScopesOK(rules, granted)
  BY DEF StoreInv
<1>2. \A f \in FeedIds : items[f] # None => f \in Subscribed
  BY <1>1, NoneAssumption DEF FeedsOK, FeedOK, Subscribed
<1>3. \A f, h \in Subscribed : feeds[f].url = feeds[h].url => f = h
  BY <1>1 DEF FeedsOK, Subscribed
<1>4. \A f \in Subscribed : \A i \in Named(feeds[f]) : <<f, i>> \in seen
  BY <1>1 DEF FeedsOK, FeedOK, Subscribed
<1>5. \A i \in 1..Len(rules) :
         granted[rules[i].id] # {}
         => rules[i].scope # {} /\ rules[i].scope \subseteq granted[rules[i].id]
  <2>1. \A i \in 1..Len(rules) : rules[i] \in Elems(rules)
    BY DEF Elems
  <2> QED BY <1>1, <2>1 DEF ScopesOK
<1> QED BY <1>2, <1>3, <1>4, <1>5 DEF FeedsInOrder, RoundInv

(* Whatever is fetched, added, removed and crashed in whatever order, and  *)
(* however often a site shows an id, the store of RssManager is in order:  *)
(* items belong to subscriptions, no site is subscribed to twice, a rule   *)
(* never applies outside the scope it was given, and no etag stands for    *)
(* what a feed has not shown; and the poller evaluates no item twice in a  *)
(* round (apply_fetch, add_feed, remove_feed, persist, load).              *)
THEOREM FeedsInOrderHolds == Spec => []FeedsInOrder
<1> DEFINE IInv == MonitorInv /\ DiskInv /\ RoundInv
<1>1. Init => IInv
  <2>1. Init => RoundInv
    BY DEF Init, RoundInv, NoRepeats
  <2> QED BY <2>1, MonitorInit
<1>2. IInv /\ [Next]_vars => IInv'
  BY MonitorInvStep, RoundStep
<1>3. IInv => FeedsInOrder
  BY StoreMeans DEF MonitorInv
<1> QED BY <1>1, <1>2, <1>3, PTL DEF Spec

-----------------------------------------------------------------------------
(* Episodes.  A download is open from the moment it is recorded until the  *)
(* monitor has settled it: the poller is about to hand it over, it is      *)
(* pending, or the monitor has taken it out.                               *)

Tracked == [item |-> Head(todo).item, rule |-> cur.rule, key |-> cur.key,
            score |-> cur.score, prev |-> cur.prev]
Opened(o) == IF o \in Gids THEN pending[o] ELSE IF o = Poller THEN Tracked ELSE mon[o].job.p
Open == Watched \cup Settling \cup {x \in {Poller} : pc[x] = "track"}
Downloads == [o \in Open |-> Opened(o)]

(* A download that was the first of its episode, or whose rule does not    *)
(* upgrade, needs a record in the history, and is the only such download   *)
(* of the episode.                                                         *)
Leading(p) == p.prev = None \/ p.rule \notin Upgrading
Covered(D, h) == \A o \in DOMAIN D : D[o].key # None /\ Leading(D[o]) => h[D[o].key] # None
Exclusive(D) ==
    \A o, q \in DOMAIN D : o # q /\ D[o].key # None /\ D[o].key = D[q].key
                           => ~(Leading(D[o]) /\ Leading(D[q]))
(* Two open downloads are of one item only if it was queued again.         *)
Apart(D, ag) ==
    \A o, q \in DOMAIN D : o # q /\ D[o].key # None /\ D[o].key = D[q].key
                             /\ D[o].item = D[q].item
                           => D[o].key \in ag
NoLeader(D, k) == \A o \in DOMAIN D : D[o].key = k => ~Leading(D[o])

(* rollback_episode takes r for the record of the download p.              *)
Owns(p, k, r) == p.key = k /\ ~r.file /\ r.item = p.item

(* The downloads whose failures can bring an older record of the episode   *)
(* back, one after the other: all of them have one to give back.           *)
Chain(D, h, k, C) ==
    /\ \A o \in DOMAIN D : Owns(D[o], k, h[k]) => o \in C
    /\ \A c \in C : D[c].prev # None
    /\ \A c \in C, o \in DOMAIN D : Owns(D[o], k, D[c].prev) => o \in C
Lasting(D, h, k) == h[k] # None /\ \E C \in SUBSET DOMAIN D : Chain(D, h, k, C)

(* Only the record of the episode matters, and a file lasts.               *)
LEMMA SameRecord ==
    ASSUME NEW D, NEW h, NEW j, NEW k, h[k] = j[k], Lasting(D, h, k)
    PROVE  Lasting(D, j, k)
  BY DEF Lasting, Chain

LEMMA FileLasts ==
    ASSUME NEW D, NEW h, NEW k, h[k] # None, h[k].file
    PROVE  Lasting(D, h, k)
<1>1. Chain(D, h, k, {})
  BY DEF Chain, Owns
<1> QED BY <1>1 DEF Lasting

(* A download goes from one hand to the other.                             *)
LEMMA Handed ==
    ASSUME NEW P, NEW D, DOMAIN D = P, NEW a \in P, NEW b, b \notin P,
           NEW E, DOMAIN E = (P \ {a}) \cup {b}, E[b] = D[a], \A o \in P \ {a} : E[o] = D[o],
           NEW h
    PROVE  /\ Covered(D, h) => Covered(E, h)
           /\ Exclusive(D) => Exclusive(E)
           /\ \A ag : Apart(D, ag) => Apart(E, ag)
           /\ \A k : NoLeader(D, k) => NoLeader(E, k)
           /\ \A k : Lasting(D, h, k) => Lasting(E, h, k)
<1>1. Covered(D, h) => Covered(E, h)
  BY DEF Covered
<1>2. Exclusive(D) => Exclusive(E)
  BY DEF Exclusive
<1>3. \A k : NoLeader(D, k) => NoLeader(E, k)
  BY DEF NoLeader
<1>5. \A ag : Apart(D, ag) => Apart(E, ag)
  BY DEF Apart
<1>4. ASSUME NEW k, Lasting(D, h, k) PROVE Lasting(E, h, k)
  <2>1. PICK C \in SUBSET P : Chain(D, h, k, C)
    BY <1>4 DEF Lasting
  <2> DEFINE B == IF a \in C THEN (C \ {a}) \cup {b} ELSE C
  <2>2. B \in SUBSET DOMAIN E
    OBVIOUS
  <2>3. \A c \in B : \E d \in C : E[c] = D[d]
    OBVIOUS
  <2>4. \A o \in DOMAIN E : \E d \in P : E[o] = D[d] /\ (d \in C => o \in B)
    OBVIOUS
  <2> HIDE DEF B
  <2>5. Chain(E, h, k, B)
    BY <2>1, <2>3, <2>4 DEF Chain
  <2> QED BY <1>4, <2>2, <2>5 DEF Lasting
<1> QED BY <1>1, <1>2, <1>3, <1>4, <1>5

(* A download is recorded.                                                 *)
LEMMA Recording ==
    ASSUME NEW P, NEW D, DOMAIN D = P, NEW b, b \notin P, NEW p \in Pending,
           NEW E, DOMAIN E = P \cup {b}, E[b] = p, \A o \in P : E[o] = D[o],
           NEW h \in History, NEW j \in History,
           p.key # None => p.prev = h[p.key],
           \A k \in Keys : j[k] = IF k = p.key
                                    THEN [item |-> p.item, score |-> p.score, file |-> FALSE]
                                    ELSE h[k],
           \A o \in P : D[o] \in Pending,
           Covered(D, h), Exclusive(D),
           p.key # None /\ p.rule \notin Upgrading => NoLeader(D, p.key)
    PROVE  /\ Covered(E, j) /\ Exclusive(E)
           /\ \A k \in Keys : Lasting(D, h, k)
                                /\ (k = p.key => \A o \in P : D[o].key = k => D[o].item # p.item)
                                => Lasting(E, j, k)
<1> DEFINE r == [item |-> p.item, score |-> p.score, file |-> FALSE]
<1>1. r \in EpisodeRecord /\ r # None /\ ~r.file /\ r.item = p.item
  <2>1. p.item \in Items /\ p.score \in Int
    BY DEF Pending
  <2>2. r \in EpisodeRecord
    BY <2>1 DEF EpisodeRecord
  <2> QED BY <2>2, NoneAssumption
<1>2. p.key \in Keys \cup {None} /\ \A o \in P : D[o].key \in Keys \cup {None}
  BY DEF Pending
<1>3. \A k \in Keys : j[k] = IF k = p.key THEN r ELSE h[k]
  OBVIOUS
<1> HIDE DEF r
<1>4. Covered(E, j)
  BY <1>1, <1>2, <1>3 DEF Covered
<1>5. p.key # None /\ Leading(p) => NoLeader(D, p.key)
  BY DEF Covered, NoLeader, Leading
<1>6. Exclusive(E)
  BY <1>5 DEF Exclusive, NoLeader
<1>7. ASSUME NEW k \in Keys, Lasting(D, h, k),
             k = p.key => \A o \in P : D[o].key = k => D[o].item # p.item
      PROVE  Lasting(E, j, k)
  <2>1. PICK C \in SUBSET P : Chain(D, h, k, C)
    BY <1>7 DEF Lasting
  <2>2. CASE k # p.key
    <3>1. Chain(E, j, k, C)
      BY <1>3, <2>1, <2>2 DEF Chain, Owns
    <3> QED BY <1>3, <1>7, <2>2, <3>1 DEF Lasting
  <2>3. CASE k = p.key
    <3> DEFINE B == C \cup {b}
    <3>1. j[k] = r /\ p.prev = h[k] /\ h[k] # None /\ k # None
      BY <1>3, <1>7, <2>3 DEF Lasting, Keys
    <3>2. \A o \in DOMAIN E : Owns(E[o], k, j[k]) => o \in B
      BY <1>1, <1>7, <2>3, <3>1 DEF Owns
    <3>3. \A c \in B : E[c].prev # None
      BY <2>1, <3>1 DEF Chain
    <3>4. \A c \in B, o \in DOMAIN E : Owns(E[o], k, E[c].prev) => o \in B
      BY <2>1, <3>1 DEF Chain
    <3>5. Chain(E, j, k, B)
      BY <3>2, <3>3, <3>4 DEF Chain
    <3> QED BY <1>1, <3>1, <3>5 DEF Lasting
  <2> QED BY <2>2, <2>3
<1> QED BY <1>4, <1>6, <1>7

(* A download is settled: its record is written, or it gives back the one  *)
(* it has replaced.                                                        *)
LEMMA Settled ==
    ASSUME NEW P, NEW D, DOMAIN D = P, NEW a \in P, \A o \in P : D[o] \in Pending,
           NEW E, DOMAIN E = P \ {a}, \A o \in P \ {a} : E[o] = D[o],
           NEW h \in History, NEW j \in History, NEW ag,
           WrittenFor(h, j, D[a]) \/ RolledBack(h, j, D[a]),
           Covered(D, h), Exclusive(D), Apart(D, ag)
    PROVE  /\ Covered(E, j) /\ Exclusive(E) /\ Apart(E, ag)
           /\ \A k : NoLeader(D, k) => NoLeader(E, k)
           /\ \A k \in Keys \ ag : Lasting(D, h, k) => Lasting(E, j, k)
           /\ WrittenFor(h, j, D[a]) /\ D[a].key \in Keys \ ag => Lasting(E, j, D[a].key)
<1> DEFINE p == D[a]
<1>1. p \in Pending /\ \A o \in P : D[o].key \in Keys \cup {None}
  BY DEF Pending
<1>2. Exclusive(E) /\ Apart(E, ag) /\ \A k : NoLeader(D, k) => NoLeader(E, k)
  BY DEF Exclusive, Apart, NoLeader
<1>3. ASSUME NEW k \in Keys, j[k] = None, h[k] # None
      PROVE  k = p.key /\ p.prev = None
  BY <1>3 DEF WrittenFor, RolledBack
(* No other download of an episode outside ag is of the item.              *)
<1>6. ASSUME NEW k \in Keys \ ag, k = p.key, j[k] # None, j[k].item = p.item
      PROVE  Lasting(E, j, k)
  <2>1. k # None
    BY DEF Keys
  <2>2. \A o \in P \ {a} : ~Owns(D[o], k, j[k])
    BY <1>6, <2>1 DEF Apart, Owns
  <2>3. Chain(E, j, k, {})
    BY <2>2 DEF Chain
  <2> QED BY <1>6, <2>3 DEF Lasting
<1>4. Covered(E, j)
  <2> SUFFICES ASSUME NEW o \in P \ {a}, D[o].key # None, Leading(D[o]) PROVE j[D[o].key] # None
    BY DEF Covered
  <2>1. D[o].key \in Keys /\ h[D[o].key] # None
    BY <1>1 DEF Covered
  <2>2. D[o].key = p.key => ~Leading(p)
    BY DEF Exclusive
  <2> QED BY <1>3, <2>1, <2>2 DEF Leading
<1>5. ASSUME NEW k \in Keys \ ag, Lasting(D, h, k) PROVE Lasting(E, j, k)
  <2>1. PICK C \in SUBSET P : Chain(D, h, k, C)
    BY <1>5 DEF Lasting
  <2> DEFINE B == C \ {a}
  <2>2. CASE k = p.key /\ j[k] # None /\ j[k].item = p.item
    BY <1>6, <2>2
  <2>3. CASE j[k] = h[k]
    <3>1. Chain(E, j, k, B)
      BY <2>1, <2>3 DEF Chain
    <3> QED BY <1>5, <2>3, <3>1 DEF Lasting
  <2>4. CASE j[k] = p.prev /\ Owns(p, k, h[k])
    <3>1. a \in C
      BY <2>1, <2>4 DEF Chain
    <3>2. p.prev # None
      BY <2>1, <3>1 DEF Chain
    <3>3. Chain(E, j, k, B)
      BY <2>1, <2>4, <3>1 DEF Chain
    <3> QED BY <2>4, <3>2, <3>3 DEF Lasting
  <2>5. \/ k = p.key /\ j[k] # None /\ j[k].item = p.item
        \/ j[k] = h[k]
        \/ j[k] = p.prev /\ Owns(p, k, h[k])
    BY DEF Owns, WrittenFor, RolledBack
  <2> QED BY <2>2, <2>3, <2>4, <2>5
<1> QED BY <1>2, <1>4, <1>5, <1>6 DEF WrittenFor

(* The history has a file for an episode.                                  *)
LEMMA Filed ==
    ASSUME NEW P, NEW D, DOMAIN D = P, NEW h \in History, NEW j \in History, NEW q,
           \A o \in P : D[o] \in Pending,
           FiledFor(h, j, q), Covered(D, h)
    PROVE  /\ Covered(D, j)
           /\ \A k \in Keys : k = q \/ Lasting(D, h, k) => Lasting(D, j, k)
<1>1. \A o \in P : D[o].key \in Keys \cup {None}
  BY DEF Pending
<1>2. Covered(D, j)
  BY <1>1 DEF Covered, FiledFor
<1>3. ASSUME NEW k \in Keys, k = q \/ Lasting(D, h, k) PROVE Lasting(D, j, k)
  <2>1. CASE k = q
    BY <2>1, FileLasts DEF FiledFor
  <2>2. CASE k # q
    BY <1>3, <2>2, SameRecord DEF FiledFor
  <2> QED BY <2>1, <2>2
<1> QED BY <1>2, <1>3

(* The poller goes on with a rule that does not upgrade only if no leading *)
(* download of the episode is open; an episode that is finished, or saved  *)
(* as finished, keeps a record.                                            *)
EpisodeInv ==
    /\ Covered(Downloads, history) /\ Exclusive(Downloads) /\ Apart(Downloads, again)
    /\ pc[Poller] \in {"queue", "record"} /\ cur.rule \notin Upgrading /\ cur.key # None
       => NoLeader(Downloads, cur.key)
    /\ finished \subseteq Keys /\ \A k \in finished \ again : Lasting(Downloads, history, k)
    /\ savedFinished \subseteq Keys /\ \A k \in savedFinished \ again : disk.history[k] # None

LEMMA OpenType ==
    ASSUME EvalInv, WatchInv
    PROVE  /\ DOMAIN Downloads = Open /\ \A o \in Open : Downloads[o] = Opened(o)
           /\ \A o \in Open : Downloads[o] \in Pending
           /\ Watched \subseteq Gids /\ Settling \subseteq Monitors
           /\ Poller \notin Gids \cup Monitors /\ Gids \cap Monitors = {}
<1>1. /\ Watched \subseteq Gids /\ Settling \subseteq Monitors
      /\ Poller \notin Gids \cup Monitors /\ Gids \cap Monitors = {}
  BY NamesAssumption DEF Watched, Settling, Gids
<1>2. DOMAIN Downloads = Open /\ \A o \in Open : Downloads[o] = Opened(o)
  BY DEF Downloads
<1>3. ASSUME NEW o \in Open PROVE Opened(o) \in Pending
  <2>1. CASE o \in Watched
    BY <1>1, <2>1 DEF Opened, Watched, WatchInv
  <2>2. CASE o \in Settling
    <3>1. mon[o].job \in Job
      BY <2>2 DEF Settling, WatchInv
    <3>2. mon[o].job.p \in Pending
      BY <3>1 DEF Job
    <3> QED BY <1>1, <2>2, <3>2 DEF Opened
  <2>3. CASE o = Poller /\ pc[Poller] = "track"
    <3>1. cur \in Cur /\ Head(todo).item \in Items
      BY <2>3 DEF EvalInv, Evaluating
    <3>2. Tracked \in Pending
      BY <3>1 DEF Tracked, Cur, Pending
    <3> QED BY <1>1, <2>3, <3>2 DEF Opened
  <2> QED BY <2>1, <2>2, <2>3 DEF Open
<1> QED BY <1>1, <1>2, <1>3

(* Nothing happens to the open downloads.                                  *)
LEMMA DownloadsSame ==
    ASSUME EvalInv, WatchInv, pending' = pending, Settling' = Settling,
           \A m \in Settling : mon'[m].job = mon[m].job,
           pc'[Poller] = "track" <=> pc[Poller] = "track",
           pc[Poller] = "track" => UNCHANGED <<todo, cur>>
    PROVE  Downloads' = Downloads
<1>1. Open' = Open
  BY DEF Open, Watched
<1>2. ASSUME NEW o \in Open PROVE Opened(o)' = Opened(o)
  <2>1. CASE o \in Gids
    BY <2>1 DEF Opened
  <2>2. CASE o \in Settling
    BY <2>2, OpenType DEF Opened
  <2>3. CASE o = Poller /\ pc[Poller] = "track"
    BY <2>3, OpenType DEF Opened, Tracked
  <2> QED BY <2>1, <2>2, <2>3 DEF Open, Watched
<1> QED BY <1>1, <1>2 DEF Downloads

LEMMA EpisodesSame ==
    ASSUME EpisodeInv, Downloads' = Downloads, UNCHANGED <<history, finished, again>>,
           \/ disk' = disk /\ savedFinished' = savedFinished
           \/ disk' = Store /\ savedFinished' = finished,
           pc'[Poller] \in {"queue", "record"} => pc[Poller] \in {"queue", "record"} /\ cur' = cur
    PROVE  EpisodeInv'
<1>1. \A k \in finished \ again : history[k] # None
  BY DEF EpisodeInv, Lasting
<1>2. savedFinished' \subseteq Keys /\ \A k \in savedFinished' \ again' : disk'.history[k] # None
  BY <1>1 DEF EpisodeInv, Store
<1> QED BY <1>2 DEF EpisodeInv

(* Steps that leave episodes and downloads alone.                          *)
LEMMA QuietSteps ==
    ASSUME MonitorInv, EpisodeInv, UNCHANGED <<pending, mon, history, finished, again>>,
           \/ disk' = disk /\ savedFinished' = savedFinished
           \/ disk' = Store /\ savedFinished' = finished,
           \/ pc'[Poller] = pc[Poller] /\ UNCHANGED <<todo, cur>>
           \/ pc[Poller] # "track" /\ pc'[Poller] \notin {"queue", "record", "track"}
           \/ pc[Poller] = "queue" /\ pc'[Poller] = "record" /\ cur' = cur
    PROVE  EpisodeInv'
<1>1. Downloads' = Downloads
  <2>1. Settling' = Settling
    BY DEF Settling
  <2> QED BY <2>1, DownloadsSame DEF MonitorInv
<1> QED BY <1>1, EpisodesSame

LEMMA EvaluateKeepsEpisodes ==
    ASSUME MonitorInv, EpisodeInv, Evaluate
    PROVE  EpisodeInv'
<1>1. /\ EvalInv /\ WatchInv /\ FetchTypes /\ Poller \in Procs
      /\ Covered(Downloads, history) /\ Exclusive(Downloads)
      /\ finished \subseteq Keys /\ savedFinished \subseteq Keys /\ history \in History
  BY DEF MonitorInv, StoreInv, Procs, EpisodeInv, EvalInv
<1>2. CASE MatchSkip \/ DecideSkip \/ QueueSkip
  <2>1. /\ UNCHANGED <<pending, mon, history, finished, again, disk, savedFinished>>
        /\ pc[Poller] # "track" /\ \E d : NextItem(d)
    BY <1>2 DEF MatchSkip, DecideSkip, QueueSkip, storeVars, watchVars, ghostVars
  <2>2. pc'[Poller] \in {"match", "save", "idle"}
    BY <1>1, <2>1 DEF NextItem, FetchTypes
  <2> QED BY <2>1, <2>2, QuietSteps
<1>3. CASE Match
  <2>1. /\ UNCHANGED <<pending, mon, history, finished, again, disk, savedFinished>>
        /\ pc[Poller] = "match" /\ pc'[Poller] = "decide"
    BY <1>1, <1>3 DEF Match, storeVars, watchVars, ghostVars, FetchTypes
  <2> QED BY <2>1, QuietSteps
<1>4. CASE Decide
  <2>1. /\ UNCHANGED <<pending, mon, history, finished, again, disk, savedFinished, cur, todo>>
        /\ pc[Poller] = "decide" /\ pc'[Poller] = "queue"
        /\ Wanted(cur.rule, cur.score, Recorded(cur.key))
    BY <1>1, <1>4 DEF Decide, storeVars, watchVars, ghostVars, FetchTypes
  <2>2. Downloads' = Downloads
    <3>1. Settling' = Settling
      BY <2>1 DEF Settling
    <3> QED BY <1>1, <2>1, <3>1, DownloadsSame
  <2>3. cur.rule \notin Upgrading /\ cur.key # None => NoLeader(Downloads, cur.key)
    BY <1>1, <2>1 DEF Wanted, Recorded, Covered, NoLeader
  <2> QED BY <2>1, <2>2, <2>3 DEF EpisodeInv
<1>5. CASE Queue
  <2>1. /\ UNCHANGED <<pending, mon, history, finished, again, disk, savedFinished, cur>>
        /\ pc[Poller] = "queue" /\ pc'[Poller] = "record"
    BY <1>1, <1>5 DEF Queue, storeVars, watchVars, ghostVars, FetchTypes
  <2> QED BY <2>1, QuietSteps
<1>6. CASE WriteArticle
  <2>1. /\ UNCHANGED <<pending, mon, again, disk, savedFinished>> /\ NextItem(TRUE)
        /\ pc[Poller] = "queue" /\ Finish(cur.key)
        /\ history' = WithEpisode(history, cur.key, Head(todo).item, cur.score, TRUE)
    BY <1>6 DEF WriteArticle, watchVars
  <2>2. pc'[Poller] \in {"match", "save", "idle"}
    BY <1>1, <2>1 DEF NextItem, FetchTypes
  <2>3. Downloads' = Downloads
    <3>1. Settling' = Settling
      BY <2>1 DEF Settling
    <3> QED BY <1>1, <2>1, <2>2, <3>1, DownloadsSame
  <2>4. cur \in Cur /\ Head(todo).item \in Items
    BY <1>1, <2>1 DEF EvalInv, Evaluating
  <2>5. cur.key \in Keys \cup {None} /\ cur.score \in Int
    BY <2>4 DEF Cur
  <2> DEFINE r == [item |-> Head(todo).item, score |-> cur.score, file |-> TRUE]
  <2>6. history' \in History /\ \A k \in Keys : history'[k] = IF k = cur.key THEN r ELSE history[k]
    <3> DEFINE q == cur.key
               i == Head(todo).item
               c == cur.score
               w == WithEpisode(history, q, i, c, TRUE)
    <3>1. q \in Keys \cup {None} /\ i \in Items /\ c \in Int /\ history' = w
      BY <2>1, <2>4, <2>5
    <3> HIDE DEF q, i, c
    <3>2. Writes(w, history, q, [item |-> i, score |-> c, file |-> TRUE])
      BY <1>1, <3>1, WithEpisodeType
    <3> QED BY <3>1, <3>2 DEF q, i, c, Writes
  <2>7. r # None /\ r.file
    <3>1. r \in EpisodeRecord
      BY <2>4, <2>5 DEF EpisodeRecord
    <3> QED BY <3>1, NoneAssumption
  <2> HIDE DEF r
  <2>8. FiledFor(history, history', cur.key)
    BY <2>6, <2>7 DEF FiledFor
  <2>9. /\ Covered(Downloads, history')
        /\ \A k \in Keys : k = cur.key \/ Lasting(Downloads, history, k)
                             => Lasting(Downloads, history', k)
    BY <1>1, <2>6, <2>8, OpenType, Filed
  <2>10. finished' \subseteq Keys /\ finished' \subseteq finished \cup {cur.key}
    BY <1>1, <2>1, <2>5 DEF Finish
  <2>11. \A k \in finished' \ again' : Lasting(Downloads', history', k)
    BY <2>1, <2>3, <2>9, <2>10 DEF EpisodeInv
  <2> QED BY <1>1, <2>1, <2>2, <2>3, <2>9, <2>10, <2>11 DEF EpisodeInv
<1>7. CASE Record
  <2> DEFINE p == Tracked'
             i == Head(todo).item
  <2>1. /\ UNCHANGED <<pending, mon, disk, finished, savedFinished, todo>>
        /\ pc[Poller] = "record" /\ pc'[Poller] = "track"
        /\ history' = WithEpisode(history, cur.key, i, cur.score, FALSE)
        /\ cur' = [cur EXCEPT !.prev = Recorded(cur.key)]
        /\ again' = IF \E q \in UnderWay : q.key = cur.key /\ q.item = i
                      THEN again \cup {cur.key} ELSE again
    BY <1>1, <1>7 DEF Record, watchVars, FetchTypes
  <2>2. cur \in Cur /\ i \in Items
    BY <1>1, <2>1 DEF EvalInv, Evaluating
  <2>3. cur.key \in Keys \cup {None} /\ cur.score \in Int
    BY <2>2 DEF Cur
  <2>4. /\ p.item = i /\ p.rule = cur.rule /\ p.key = cur.key /\ p.score = cur.score
        /\ p.prev = Recorded(cur.key)
    BY <2>1, <2>2 DEF Tracked, Cur
  <2>5. p \in Pending
    <3>1. Recorded(cur.key) \in EpisodeRecord \cup {None}
      BY <1>1, <2>3 DEF Recorded, History
    <3>2. p = [item |-> i, rule |-> cur.rule, key |-> cur.key, score |-> cur.score,
               prev |-> Recorded(cur.key)]
      BY <2>1, <2>2 DEF Tracked, Cur
    <3> QED BY <2>2, <3>1, <3>2 DEF Pending, Cur
  <2>6. /\ history' \in History
        /\ \A k \in Keys : history'[k] =
              IF k = p.key THEN [item |-> p.item, score |-> p.score, file |-> FALSE]
                           ELSE history[k]
    <3> DEFINE q == cur.key
               c == cur.score
               w == WithEpisode(history, q, i, c, FALSE)
    <3>1. q \in Keys \cup {None} /\ i \in Items /\ c \in Int /\ history' = w
      BY <2>1, <2>2, <2>3
    <3>2. q = p.key /\ i = p.item /\ c = p.score
      BY <2>4
    <3> HIDE DEF q, i, c, p
    <3>3. Writes(w, history, q, [item |-> i, score |-> c, file |-> FALSE])
      BY <1>1, <3>1, WithEpisodeType
    <3> QED BY <3>1, <3>2, <3>3 DEF Writes
  <2> HIDE DEF p
  <2>7. Open = Watched \cup Settling /\ Open' = Open \cup {Poller} /\ Poller \notin Open
    BY <1>1, <2>1, OpenType DEF Open, Watched, Settling
  <2>8. \A o \in Open : Opened(o)' = Opened(o)
    BY <1>1, <2>1, <2>7, OpenType DEF Opened
  <2>9. /\ DOMAIN Downloads' = Open \cup {Poller} /\ Downloads'[Poller] = p
        /\ \A o \in Open : Downloads'[o] = Downloads[o]
    <3>1. Opened(Poller)' = p
      BY <1>1, OpenType DEF Opened, p
    <3> QED BY <2>7, <2>8, <3>1 DEF Downloads
  <2>10. p.key # None => p.prev = history[p.key]
    BY <2>4 DEF Recorded
  <2>11. p.key # None /\ p.rule \notin Upgrading => NoLeader(Downloads, p.key)
    BY <2>1, <2>4 DEF EpisodeInv
  <2>12. /\ DOMAIN Downloads = Open /\ \A o \in Open : Downloads[o] \in Pending
    BY <1>1, OpenType
  <2>13. /\ Covered(Downloads', history') /\ Exclusive(Downloads')
         /\ \A k \in Keys : Lasting(Downloads, history, k)
                              /\ (k = p.key => \A o \in Open : Downloads[o].key = k
                                                               => Downloads[o].item # p.item)
                              => Lasting(Downloads', history', k)
    <3> DEFINE D == Downloads
               E == Downloads'
               h == history
               j == history'
    <3>1. /\ DOMAIN D = Open /\ DOMAIN E = Open \cup {Poller} /\ E[Poller] = p
          /\ \A o \in Open : E[o] = D[o]
      BY <2>9, <2>12
    <3>2. Covered(D, h) /\ Exclusive(D) /\ h \in History /\ j \in History
      BY <1>1, <2>6
    <3>3. p.key # None => p.prev = h[p.key]
      BY <2>10
    <3>4. \A k \in Keys : j[k] = IF k = p.key
                                   THEN [item |-> p.item, score |-> p.score, file |-> FALSE]
                                   ELSE h[k]
      BY <2>6
    <3>5. p.key # None /\ p.rule \notin Upgrading => NoLeader(D, p.key)
      BY <2>11
    <3>6. \A o \in Open : D[o] \in Pending
      BY <2>12
    <3> HIDE DEF D, E, h, j
    <3>7. /\ Covered(E, j) /\ Exclusive(E)
          /\ \A k \in Keys : Lasting(D, h, k)
                               /\ (k = p.key => \A o \in Open : D[o].key = k => D[o].item # p.item)
                               => Lasting(E, j, k)
      BY <2>5, <2>7, <3>1, <3>2, <3>3, <3>4, <3>5, <3>6, Recording
    <3> QED BY <3>7 DEF D, E, h, j
  <2>14. \A k \in finished \ again' : k = p.key => \A o \in Open : Downloads[o].key = k
                                                                   => Downloads[o].item # p.item
    <3>1. \A o \in Open : Downloads[o] \in UnderWay
      BY <1>1, <2>7, OpenType DEF UnderWay, Opened
    <3> QED BY <2>1, <2>4, <3>1
  <2>15. again \subseteq again'
    BY <2>1
  <2>16. \A k \in finished' \ again' : Lasting(Downloads', history', k)
    BY <1>1, <2>1, <2>13, <2>14, <2>15 DEF EpisodeInv
  <2>17. Apart(Downloads', again')
    <3> DEFINE D == Downloads
               E == Downloads'
    <3>1. /\ DOMAIN D = Open /\ DOMAIN E = Open \cup {Poller} /\ E[Poller] = p
          /\ (\A o \in Open : E[o] = D[o]) /\ Apart(D, again)
      BY <2>9, <2>12 DEF EpisodeInv
    <3>2. \A o \in Open : D[o].key = p.key /\ D[o].item = p.item => p.key \in again'
      <4>1. \A o \in Open : Downloads[o] \in UnderWay
        BY <1>1, <2>7, OpenType DEF UnderWay, Opened
      <4> QED BY <2>1, <2>4, <4>1
    <3> HIDE DEF D, E
    <3>3. Apart(E, again')
      BY <2>15, <3>1, <3>2 DEF Apart
    <3> QED BY <3>3 DEF E
  <2> QED BY <1>1, <2>1, <2>13, <2>15, <2>16, <2>17 DEF EpisodeInv
<1>8. CASE Track
  <2>1. PICK g \in Gids : g = Len(tasks)
    BY <1>1, <1>8 DEF Track, EvalInv
  <2>2. /\ UNCHANGED <<history, finished, again, disk, savedFinished>> /\ NextItem(TRUE)
        /\ pc[Poller] = "track" /\ pending' = [pending EXCEPT ![g] = Tracked]
    BY <1>8, <2>1 DEF Track, storeVars, ghostVars, Tracked
  <2>3. pc'[Poller] \in {"match", "save", "idle"}
    BY <1>1, <2>2 DEF NextItem, FetchTypes
  <2>4. g \in Gids /\ g \notin Watched
    BY <1>1, <2>2, <2>1 DEF EvalInv, WatchInv, Gids
  <2>5. Settling' = Settling /\ \A m \in Settling : mon'[m] = mon[m]
    <3>1. CASE mon' = mon
      BY <3>1 DEF Settling
    <3>2. CASE mon' # mon
      <4> DEFINE m == CHOOSE m \in Monitors : mon[m].at = "none"
                 r == [mon[m] EXCEPT !.at = "sleep"]
      <4>1. ~active /\ mon' = [mon EXCEPT ![m] = r]
        BY <1>8, <3>2 DEF Track
      <4>2. m \in Monitors /\ mon[m].at = "none" /\ mon \in [Monitors -> Monitor]
        BY <1>1, <4>1, NamesAssumption DEF Running, WatchInv
      <4>3. r.at = "sleep"
        BY <4>2 DEF Monitor
      <4> HIDE DEF m, r
      <4> QED BY <4>1, <4>2, <4>3 DEF Settling
    <3> QED BY <3>1, <3>2
  <2>6. Watched' = Watched \cup {g}
    <3>1. Tracked # None
      <4>1. Poller \in Open /\ Opened(Poller) = Tracked
        BY <1>1, <2>2, OpenType DEF Open, Opened
      <4>2. Tracked \in Pending
        BY <1>1, <4>1, OpenType
      <4> QED BY <4>2, NoneAssumption
    <3> QED BY <1>1, <2>2, <2>4, <3>1 DEF Watched, WatchInv
  <2>7. Open = Watched \cup Settling \cup {Poller} /\ Open' = Watched \cup {g} \cup Settling
    BY <2>2, <2>3, <2>5, <2>6 DEF Open
  <2>8. Open' = (Open \ {Poller}) \cup {g} /\ Poller \in Open /\ g \notin Open
    BY <1>1, <2>4, <2>7, OpenType
  <2>9. \A o \in Open \ {Poller} : Opened(o)' = Opened(o)
    BY <1>1, <2>2, <2>4, <2>5, <2>7, OpenType DEF Opened, WatchInv
  <2>10. Opened(g)' = Opened(Poller)
    <3>1. Opened(Poller) = Tracked
      BY <1>1, OpenType DEF Opened
    <3>2. pending'[g] = Tracked
      BY <1>1, <2>2, <2>4 DEF WatchInv
    <3> QED BY <2>4, <3>1, <3>2 DEF Opened
  <2>11. /\ DOMAIN Downloads' = (Open \ {Poller}) \cup {g} /\ Downloads'[g] = Downloads[Poller]
         /\ \A o \in Open \ {Poller} : Downloads'[o] = Downloads[o]
    <3>1. /\ Downloads = [o \in Open |-> Opened(o)] /\ Downloads' = [o \in Open' |-> Opened(o)']
          /\ g \in Open'
      BY <2>8 DEF Downloads
    <3>2. Downloads'[g] = Opened(g)' /\ Downloads[Poller] = Opened(Poller)
      BY <2>8, <3>1
    <3> QED BY <2>8, <2>9, <2>10, <3>1, <3>2
  <2>12. DOMAIN Downloads = Open
    BY <1>1, OpenType
  <2>13. /\ Covered(Downloads', history) /\ Exclusive(Downloads') /\ Apart(Downloads', again)
         /\ \A k : Lasting(Downloads, history, k) => Lasting(Downloads', history, k)
    <3> DEFINE D == Downloads
               E == Downloads'
    <3>1. /\ DOMAIN D = Open /\ DOMAIN E = (Open \ {Poller}) \cup {g} /\ E[g] = D[Poller]
          /\ \A o \in Open \ {Poller} : E[o] = D[o]
      BY <2>11, <2>12
    <3>2. Covered(D, history) /\ Exclusive(D) /\ Apart(D, again)
      BY <1>1 DEF EpisodeInv
    <3> HIDE DEF D, E
    <3>3. /\ Covered(E, history) /\ Exclusive(E) /\ Apart(E, again)
          /\ \A k : Lasting(D, history, k) => Lasting(E, history, k)
      BY <2>8, <3>1, <3>2, Handed
    <3> QED BY <3>3 DEF D, E
  <2> QED BY <1>1, <2>2, <2>3, <2>13 DEF EpisodeInv
<1> QED BY <1>2, <1>3, <1>4, <1>5, <1>6, <1>7, <1>8 DEF Evaluate

LEMMA MonitorKeepsEpisodes ==
    ASSUME MonitorInv, EpisodeInv, NEW m \in Monitors, MonitorStep(m)
    PROVE  EpisodeInv'
<1>1. /\ EvalInv /\ WatchInv /\ mon \in [Monitors -> Monitor] /\ mon[m] \in Monitor
      /\ Covered(Downloads, history) /\ Exclusive(Downloads)
      /\ finished \subseteq Keys /\ savedFinished \subseteq Keys /\ history \in History
  BY DEF MonitorInv, EpisodeInv, EvalInv, WatchInv
<1>2. UNCHANGED <<pc, todo, cur, again>>
  BY DEF MonitorStep, MonitorWake, MonitorEngine, MonitorSettle, MonitorRest, MonitorCheck,
         Persist, MonFrame, procVars, ghostVars
(* Nothing is taken out of pending, nothing is settled.                    *)
<1>3. ASSUME NEW r \in Monitor, Mon(m, r), mon[m].at # "settle", r.at # "settle",
             UNCHANGED <<pending, history, finished>>,
             \/ disk' = disk /\ savedFinished' = savedFinished
             \/ disk' = Store /\ savedFinished' = finished
      PROVE  EpisodeInv'
  <2>1. mon'[m] = r /\ \A n \in Monitors \ {m} : mon'[n] = mon[n]
    BY <1>1, <1>3 DEF Mon
  <2>2. Settling' = Settling /\ m \notin Settling
    BY <1>3, <2>1 DEF Settling
  <2>3. \A n \in Settling : mon'[n].job = mon[n].job
    BY <2>1, <2>2 DEF Settling
  <2>4. Downloads' = Downloads
    BY <1>1, <1>2, <1>3, <2>2, <2>3, DownloadsSame
  <2> QED BY <1>2, <1>3, <2>4, EpisodesSame
<1>4. CASE MonitorWake(m)
  <2> DEFINE r == IF Watched = {} THEN NoMonitor
                  ELSE [mon[m] EXCEPT !.at = "engine", !.gids = Watched]
  <2>1. /\ Mon(m, r) /\ mon[m].at = "sleep"
        /\ UNCHANGED <<pending, history, finished, disk, savedFinished>>
    BY <1>4 DEF MonitorWake, MonFrame, storeVars
  <2>2. r \in Monitor /\ r.at # "settle"
    BY <1>1 DEF Monitor, NoMonitor, Watched
  <2> HIDE DEF r
  <2> QED BY <1>3, <2>1, <2>2
<1>5. CASE MonitorEngine(m)
  <2> DEFINE r == [mon[m] EXCEPT !.at = "scan", !.engine = engineUp]
  <2>1. /\ Mon(m, r) /\ mon[m].at = "engine"
        /\ UNCHANGED <<pending, history, finished, disk, savedFinished>>
    BY <1>5 DEF MonitorEngine, MonFrame, storeVars
  <2>2. r \in Monitor /\ r.at # "settle"
    BY <1>1 DEF Monitor, EvalInv
  <2> HIDE DEF r
  <2> QED BY <1>3, <2>1, <2>2
<1>6. CASE MonitorRest(m)
  <2> DEFINE r == [NoMonitor EXCEPT !.at = "sleep"]
  <2>1. Mon(m, r) /\ mon[m].at = "scan" /\ UNCHANGED <<pending, history, finished>>
    BY <1>6 DEF MonitorRest, Persist, storeVars, ghostVars
  <2>2. \/ disk' = disk /\ savedFinished' = savedFinished
        \/ disk' = Store /\ savedFinished' = finished
    BY <1>6 DEF MonitorRest, Persist, ghostVars
  <2>3. r \in Monitor /\ r.at # "settle"
    BY DEF Monitor, NoMonitor
  <2> HIDE DEF r
  <2> QED BY <1>3, <2>1, <2>2, <2>3
<1>7. ASSUME NEW g \in Gids, MonitorCheck(m, g) PROVE EpisodeInv'
  <2>1. mon[m].at = "scan" /\ UNCHANGED <<history, finished, disk, savedFinished>>
    BY <1>7 DEF MonitorCheck, MonFrame, storeVars
  <2>2. CASE Told(m, g) = "live" \/ pending[g] = None
    <3> DEFINE r == [mon[m] EXCEPT !.gids = mon[m].gids \ {g}]
    <3>1. Mon(m, r) /\ pending' = pending
      BY <1>7, <2>2 DEF MonitorCheck
    <3>2. r \in Monitor /\ r.at # "settle"
      BY <1>1, <2>1 DEF Monitor
    <3> HIDE DEF r
    <3> QED BY <1>3, <2>1, <3>1, <3>2
  <2>3. CASE ~(Told(m, g) = "live" \/ pending[g] = None)
    <3> DEFINE j == [p |-> pending[g], complete |-> Told(m, g) = "complete"]
               r == [mon[m] EXCEPT !.at = "settle", !.gids = mon[m].gids \ {g}, !.job = j]
    <3>1. Mon(m, r) /\ pending' = [pending EXCEPT ![g] = None]
      BY <1>7, <2>3 DEF MonitorCheck
    <3>2. r.at = "settle" /\ r.job.p = pending[g]
      BY <1>1 DEF Monitor
    <3> HIDE DEF r
    <3>3. /\ mon'[m].at = "settle" /\ mon'[m].job.p = pending[g]
          /\ \A n \in Monitors \ {m} : mon'[n] = mon[n]
      BY <1>1, <3>1, <3>2 DEF Mon
    <3>4. Settling' = Settling \cup {m} /\ m \notin Settling
      BY <2>1, <3>3 DEF Settling
    <3>5. Watched' = Watched \ {g} /\ g \in Watched
      BY <1>1, <2>3, <3>1 DEF Watched, WatchInv
    <3>6. Open' = (Open \ {g}) \cup {m} /\ g \in Open /\ m \notin Open
      BY <1>1, <1>2, <3>4, <3>5, OpenType DEF Open
    <3>7. \A o \in Open \ {g} : Opened(o)' = Opened(o)
      <4> TAKE o \in Open \ {g}
      <4>1. CASE o \in Gids
        BY <1>1, <3>1, <4>1 DEF Opened, WatchInv
      <4>2. CASE o \in Settling
        BY <1>1, <3>3, <3>4, <4>2, OpenType DEF Opened
      <4>3. CASE o = Poller
        BY <1>1, <1>2, <4>3, OpenType DEF Opened, Tracked
      <4> QED BY <1>1, <4>1, <4>2, <4>3, OpenType DEF Open
    <3>8. Opened(m)' = Opened(g)
      BY <1>1, <3>3, OpenType DEF Opened
    <3>9. /\ DOMAIN Downloads' = (Open \ {g}) \cup {m} /\ Downloads'[m] = Downloads[g]
          /\ \A o \in Open \ {g} : Downloads'[o] = Downloads[o]
      BY <3>6, <3>7, <3>8 DEF Downloads
    <3>10. DOMAIN Downloads = Open
      BY <1>1, OpenType
    <3> DEFINE D == Downloads
               E == Downloads'
    <3>11. /\ DOMAIN D = Open /\ DOMAIN E = (Open \ {g}) \cup {m} /\ E[m] = D[g]
           /\ (\A o \in Open \ {g} : E[o] = D[o]) /\ Covered(D, history) /\ Exclusive(D)
           /\ Apart(D, again)
      BY <1>1, <3>9, <3>10 DEF EpisodeInv
    <3> HIDE DEF D, E
    <3>12. /\ Covered(E, history) /\ Exclusive(E) /\ Apart(E, again)
           /\ \A k : NoLeader(D, k) => NoLeader(E, k)
           /\ \A k : Lasting(D, history, k) => Lasting(E, history, k)
      BY <3>6, <3>11, Handed
    <3> QED BY <1>1, <1>2, <2>1, <3>12 DEF EpisodeInv, D, E
  <2> QED BY <2>2, <2>3
<1>8. CASE MonitorSettle(m)
  <2> DEFINE p == mon[m].job.p
             r == [mon[m] EXCEPT !.at = "scan", !.job = None, !.changed = TRUE]
  <2>1. Mon(m, r) /\ mon[m].at = "settle" /\ UNCHANGED <<pending, disk, savedFinished>>
    BY <1>8 DEF MonitorSettle, MonFrame
  <2>2. mon[m].job \in Job /\ history' \in History
    BY <1>1, <1>8, SettleType
  <2>3. p \in Pending
    BY <2>2 DEF Job
  <2>4. p.key \in Keys \cup {None} /\ p.item \in Items /\ p.score \in Int
    BY <2>3 DEF Pending
  <2>5. r.at = "scan"
    BY <1>1 DEF Monitor
  <2> HIDE DEF r
  <2>6. mon'[m].at = "scan" /\ \A n \in Monitors \ {m} : mon'[n] = mon[n]
    BY <1>1, <2>1, <2>5 DEF Mon
  <2>7. Settling' = Settling \ {m} /\ m \in Settling
    BY <2>1, <2>6 DEF Settling
  <2>8. Open' = Open \ {m} /\ m \in Open
    BY <1>1, <1>2, <2>1, <2>7, OpenType DEF Open, Watched
  <2>9. \A o \in Open \ {m} : Opened(o)' = Opened(o)
    <3> TAKE o \in Open \ {m}
    <3>1. CASE o \in Gids
      BY <2>1, <3>1 DEF Opened
    <3>2. CASE o \in Settling
      BY <1>1, <2>6, <3>2, OpenType DEF Opened
    <3>3. CASE o = Poller
      BY <1>1, <1>2, <3>3, OpenType DEF Opened, Tracked
    <3> QED BY <1>1, <3>1, <3>2, <3>3, OpenType DEF Open
  <2>10. Opened(m) = p
    BY <1>1, OpenType DEF Opened
  <2> DEFINE D == Downloads
             E == Downloads'
             h == history
             j == history'
  <2>11. /\ DOMAIN D = Open /\ DOMAIN E = Open \ {m} /\ D[m] = p
         /\ \A o \in Open \ {m} : E[o] = D[o]
    BY <2>8, <2>9, <2>10 DEF Downloads
  <2>12. /\ (\A o \in Open : D[o] \in Pending) /\ Covered(D, h) /\ Exclusive(D)
         /\ Apart(D, again) /\ h \in History /\ j \in History
    BY <1>1, <2>2, OpenType DEF EpisodeInv
  <2>13. CASE mon[m].job.complete
    <3>0. PICK file \in BOOLEAN : history' = WithEpisode(history, p.key, p.item, p.score, file)
      BY <1>8, <2>13 DEF MonitorSettle
    <3>1. Finish(p.key)
      BY <1>8, <2>13 DEF MonitorSettle
    <3> HIDE DEF p
    <3> DEFINE f == [item |-> p.item, score |-> p.score, file |-> file]
    <3>2. f \in EpisodeRecord /\ f.item = p.item
      BY <2>4 DEF EpisodeRecord
    <3>3. f # None
      BY <3>2, NoneAssumption
    <3>4. Writes(history', history, p.key, f)
      BY <1>1, <2>4, <3>0, WithEpisodeType
    <3> HIDE DEF f
    <3>5. WrittenFor(h, j, p)
      BY <3>2, <3>3, <3>4 DEF Writes, WrittenFor
    <3> HIDE DEF D, E, h, j
    <3>6. WrittenFor(h, j, D[m])
      BY <2>11, <3>5
    <3>7. /\ Covered(E, j) /\ Exclusive(E) /\ Apart(E, again)
          /\ \A k : NoLeader(D, k) => NoLeader(E, k)
          /\ \A k \in Keys \ again : Lasting(D, h, k) => Lasting(E, j, k)
          /\ D[m].key \in Keys \ again => Lasting(E, j, D[m].key)
      BY <2>8, <2>11, <2>12, <3>6, Settled, SMTT(30)
    <3>8. \A k \in Keys \ again : k = p.key => Lasting(E, j, k)
      BY <2>11, <3>7
    <3>9. finished' \subseteq Keys /\ finished' \subseteq finished \cup {p.key}
      BY <1>1, <2>4, <3>1 DEF Finish
    <3>10. \A k \in finished \ again : Lasting(D, h, k)
      BY DEF EpisodeInv, D, h
    <3>11. \A k \in finished' \ again' : Lasting(E, j, k)
      BY <1>2, <3>7, <3>8, <3>9, <3>10
    <3> QED BY <1>1, <1>2, <2>1, <3>7, <3>9, <3>11 DEF EpisodeInv, D, E, j
  <2>14. CASE ~mon[m].job.complete
    <3>1. finished' = finished /\ history' = Rollback(history, p)
      BY <1>8, <2>14 DEF MonitorSettle
    <3> HIDE DEF p
    <3>2. RolledBack(history, history', p)
      BY <1>1, <2>3, <3>1, RollbackType
    <3>3. RolledBack(h, j, p)
      BY <3>2
    <3> HIDE DEF D, E, h, j
    <3>4. RolledBack(h, j, D[m])
      BY <2>11, <3>3
    <3>5. /\ Covered(E, j) /\ Exclusive(E) /\ Apart(E, again)
          /\ \A k : NoLeader(D, k) => NoLeader(E, k)
          /\ \A k \in Keys \ again : Lasting(D, h, k) => Lasting(E, j, k)
      BY <2>8, <2>11, <2>12, <3>4, Settled
    <3>6. \A k \in finished \ again : Lasting(D, h, k)
      BY DEF EpisodeInv, D, h
    <3>7. \A k \in finished' \ again' : Lasting(E, j, k)
      BY <1>1, <1>2, <3>1, <3>5, <3>6
    <3> QED BY <1>1, <1>2, <2>1, <3>1, <3>5, <3>7 DEF EpisodeInv, D, E, j
  <2> QED BY <2>13, <2>14
<1> QED BY <1>4, <1>5, <1>6, <1>7, <1>8 DEF MonitorStep

LEMMA EpisodeStep ==
    ASSUME MonitorInv, EpisodeInv, [Next]_vars
    PROVE  EpisodeInv'
<1>1. EvalInv /\ WatchInv /\ FetchTypes /\ Poller \in Procs
  BY DEF MonitorInv, StoreInv, Procs
<1>2. CASE Fetches
  <2>1. PICK D \in SUBSET FeedIds : BeginFetch(Poller, D)
    BY <1>2 DEF Fetches, PollDue
  <2>2. /\ pc[Poller] = "idle" /\ pc'[Poller] = "fetch"
        /\ UNCHANGED <<pending, mon, history, finished, again, disk, savedFinished>>
    BY <1>1, <2>1 DEF BeginFetch, FetchTypes, watchVars, storeVars, ghostVars
  <2> QED BY <2>2, QuietSteps
<1>3. ASSUME NEW x \in Procs, ProcStep(x) PROVE EpisodeInv'
  <2>1. UNCHANGED <<pending, mon, history, finished, again, cur>>
    BY <1>3 DEF ProcStep, Save, Persist, Fetch, ApplyFetch, watchVars, storeVars, ghostVars
  <2>2. \/ disk' = disk /\ savedFinished' = savedFinished
        \/ disk' = Store /\ savedFinished' = finished
    BY <1>3 DEF ProcStep, Save, Persist, Fetch, ApplyFetch, ghostVars
  <2>3. /\ pc[x] \in {"fetch", "apply", "save"}
        /\ pc' = pc \/ \E at \in {"match", "idle", "apply", "save"} : pc' = [pc EXCEPT ![x] = at]
        /\ x # Poller => todo' = todo
    BY <1>3 DEF ProcStep, Save, Fetch, ApplyFetch
  <2>4. \/ pc'[Poller] = pc[Poller] /\ todo' = todo
        \/ pc[Poller] # "track" /\ pc'[Poller] \notin {"queue", "record", "track"}
    BY <1>1, <2>3 DEF FetchTypes
  <2> QED BY <2>1, <2>2, <2>4, QuietSteps
<1>4. ASSUME NEW x \in Users, UserStep(x) PROVE EpisodeInv'
  <2>1. UNCHANGED <<pending, mon, history, finished, again, disk, savedFinished, cur, todo>>
    BY <1>4 DEF UserStep, Refresh, BeginFetch, AddFeed, InsertFeed, RemoveFeed, SetActive,
                DeleteItem, PutRule, RemoveRule, ThenSave, watchVars, storeVars, ghostVars
  <2>2. \E at : pc' = [pc EXCEPT ![x] = at]
    BY <1>4 DEF UserStep, Refresh, BeginFetch, AddFeed, InsertFeed, RemoveFeed, SetActive,
                DeleteItem, PutRule, RemoveRule, ThenSave
  <2>3. pc'[Poller] = pc[Poller]
    BY <1>1, <2>2, NamesAssumption DEF FetchTypes
  <2> QED BY <2>1, <2>3, QuietSteps
<1>5. CASE Evaluate
  BY <1>5, EvaluateKeepsEpisodes
<1>6. ASSUME NEW m \in Monitors, MonitorStep(m) PROVE EpisodeInv'
  BY <1>6, MonitorKeepsEpisodes
<1>7. CASE Idles \/ UNCHANGED vars
  <2>1. UNCHANGED <<pending, mon, history, finished, again, disk, savedFinished, cur, todo, pc>>
    BY <1>7 DEF Idles, Publish, TaskEnds, EngineStop, EngineStart, watchVars, storeVars, ghostVars,
                procVars, vars
  <2> QED BY <2>1, QuietSteps
<1>8. CASE Crash
  <2>1. /\ pending' = [g \in Gids |-> None] /\ mon' = [m \in Monitors |-> NoMonitor]
        /\ pc' = [x \in Procs |-> "idle"] /\ history' = disk.history /\ disk' = disk
        /\ finished' = savedFinished /\ UNCHANGED <<savedFinished, again>>
    BY <1>8 DEF Crash
  <2>2. Watched' = {} /\ Settling' = {} /\ pc'[Poller] = "idle"
    BY <1>1, <2>1 DEF Watched, Settling, NoMonitor
  <2>3. Open' = {}
    BY <2>2 DEF Open
  <2> DEFINE E == Downloads'
  <2>4. DOMAIN E = {}
    BY <2>3 DEF Downloads
  <2> HIDE DEF E
  <2>5. Covered(E, history') /\ Exclusive(E) /\ Apart(E, again)
    BY <2>4 DEF Covered, Exclusive, Apart
  <2>6. \A k \in savedFinished \ again : Lasting(E, history', k)
    <3> TAKE k \in savedFinished \ again
    <3>1. history'[k] # None
      BY <2>1 DEF EpisodeInv
    <3>2. Chain(E, history', k, {})
      BY <2>4 DEF Chain
    <3> QED BY <3>1, <3>2 DEF Lasting
  <2> QED BY <2>1, <2>2, <2>5, <2>6 DEF EpisodeInv, E
<1> QED
  BY <1>2, <1>3, <1>4, <1>5, <1>6, <1>7, <1>8, Steps

LEMMA EpisodeInit ==
    ASSUME Init
    PROVE  EpisodeInv
<1>1. /\ pending = [g \in Gids |-> None] /\ mon = [m \in Monitors |-> NoMonitor]
      /\ pc = [x \in Procs |-> "idle"] /\ finished = {} /\ savedFinished = {} /\ Poller \in Procs
  BY DEF Init, Procs
<1>2. Watched = {} /\ Settling = {} /\ pc[Poller] = "idle"
  BY <1>1 DEF Watched, Settling, NoMonitor
<1>3. DOMAIN Downloads = {}
  BY <1>2 DEF Downloads, Open
<1>4. Covered(Downloads, history) /\ Exclusive(Downloads) /\ Apart(Downloads, again)
  BY <1>3 DEF Covered, Exclusive, Apart
<1> QED BY <1>1, <1>2, <1>4 DEF EpisodeInv

LEMMA EpisodesMean ==
    ASSUME MonitorInv, EpisodeInv
    PROVE  OncePerEpisode
<1>1. EvalInv /\ WatchInv
  BY DEF MonitorInv
<1>2. \A g \in Watched : g \in DOMAIN Downloads /\ Downloads[g] = pending[g]
  BY <1>1, OpenType DEF Open, Opened
<1>3. ASSUME NEW g \in Watched, NEW h \in Watched, g # h, pending[g].key = pending[h].key,
             pending[g].key # None
      PROVE  {pending[g].rule, pending[h].rule} \cap Upgrading # {}
  <2>1. ~(Leading(pending[g]) /\ Leading(pending[h]))
    BY <1>2, <1>3 DEF EpisodeInv, Exclusive
  <2> QED BY <2>1 DEF Leading
<1>4. \A k \in finished \ again : history[k] # None
  BY DEF EpisodeInv, Lasting
<1> QED BY <1>3, <1>4 DEF OncePerEpisode

(* Rules that do not upgrade download an episode once, and an episode that *)
(* was downloaded keeps a record, whatever fails, however many downloads   *)
(* of it are open and whenever the program dies, unless an item of it was  *)
(* queued while it was being downloaded (evaluate_and_download,            *)
(* record_download, rollback_episode, persist).                            *)
THEOREM OncePerEpisodeHolds == Spec => []OncePerEpisode
<1> DEFINE IInv == MonitorInv /\ DiskInv /\ EpisodeInv
<1>1. Init => IInv
  BY MonitorInit, EpisodeInit
<1>2. IInv /\ [Next]_vars => IInv'
  BY MonitorInvStep, EpisodeStep
<1>3. IInv => OncePerEpisode
  BY EpisodesMean
<1> QED BY <1>1, <1>2, <1>3, PTL DEF Spec

=============================================================================
