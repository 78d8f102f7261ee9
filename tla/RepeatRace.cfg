CONSTANTS
    f1 = f1
    f2 = f2
    u1 = u1
    m1 = m1
    m2 = m2
    r1 = r1
    r2 = r2
    k = k
    user = user
    poller = poller
    None = None
    FeedIds <- MCFeeds
    Urls <- MCUrls
    Users = {user}
    Poller = poller
    Monitors <- MCMonitors
    Rules <- MCRules
    Published <- MCPublished
    Archive <- MCArchive
    Reissues <- MCReissues
    Window = 2
    ItemCap = 2
    MaxErrors = 2
    Episode <- MCEpisode
    Articles <- MCArticles
    Matches <- MCMatches
    Score <- MCScore
    AnyMatch = {r1}
    Upgrading = {r2}
    Loaded <- MCLoaded
    UserOps = {"refresh", "add", "remove", "settings", "delete", "rule"}
    Scopes = {{}}
    MaxEvents = 2
    MaxDownloads = 2
SPECIFICATION Spec
INVARIANT ItemsListedOnce
CHECK_DEADLOCK FALSE
