------------------------------- MODULE MCRss -------------------------------
(* A small instance of Rss: a site that shows an episode twice and then    *)
(* publishes it in a better quality, perhaps as an article, a rule that    *)
(* takes what comes first from the feed and one that upgrades.             *)
EXTENDS Rss, TLC

CONSTANTS f1, f2, u1, user, poller, m1, m2, r1, r2, k

MCFeeds == {f1, f2}
MCUrls == {u1}
MCMonitors == {m1, m2}
MCRules == {r1, r2}
MCPublished == u1 :> 3
MCArchive == u1 :> 2
MCReissues == <<u1, 2>> :> 1
MCItems == {<<u1, 1>>, <<u1, 3>>}
MCArticles == {{}, {<<u1, 3>>}}
MCEpisode == [i \in MCItems |-> k]
MCMatches == (r1 :> MCItems) @@ (r2 :> {<<u1, 3>>})
MCScore == (r1 :> [i \in MCItems |-> 1]) @@ (r2 :> [i \in MCItems |-> 2])
MCFeed(u) == [url |-> u, active |-> TRUE, errors |-> 0, etag |-> None]
MCLoaded ==
    [feeds |-> (f1 :> MCFeed(u1)) @@ (f2 :> None),
     items |-> (f1 :> <<>>) @@ (f2 :> None),
     rules |-> <<[id |-> r2, scope |-> {}], [id |-> r1, scope |-> {f1}]>>]
=============================================================================
