------------------------------ MODULE SiteCrawl ------------------------------
(***************************************************************************)
(* The crawl of a source site (workflows/replicate/crawl.py): a FIFO of    *)
(* URLs, a set of those seen, a cap on the pages kept, and an account of   *)
(* everything that was not fetched.  The source is a live site: people     *)
(* change it while it is crawled, and any fetch may fail.                  *)
(***************************************************************************)
EXTENDS Naturals, Sequences, FiniteSets

CONSTANTS
    Urls,        \* records [host, path, form, query]; path is a sequence of names
    Base,        \* where the crawl starts
    Disallowed,  \* what robots.txt disallows
    Bodies,      \* what a URL may serve
    Html,        \* the bodies whose content type says html
    Shells,      \* the pages that look like a JavaScript bootstrap shell
    LinksOf,     \* the URLs a page links to
    AssetsOf,    \* the URLs a page needs to look right
    Versions,    \* what each URL may serve over time
    Rank,        \* the alphabetical order of the URLs
    MaxPages,    \* --max-pages
    MaxChanges,  \* bound on the changes people make to the source
    Nothing      \* no body: not served, not fetched, not on disk

(* MaxPages may be 0: then nothing is fetched and the crawl is refused. *)
ASSUME CrawlAssumption ==
    /\ Base \in Urls
    /\ Nothing \notin Bodies
    /\ Html \subseteq Bodies
    /\ Shells \subseteq Html
    /\ Disallowed \subseteq Urls
    /\ LinksOf \in [Html -> SUBSET Urls]
    /\ \A body \in Html : IsFiniteSet(LinksOf[body])
    /\ AssetsOf \in [Html -> SUBSET Urls]
    /\ Versions \in [Urls -> SUBSET (Bodies \cup {Nothing})]
    /\ Rank \in [Urls -> Nat]
    /\ MaxPages \in Nat
    /\ MaxChanges \in Nat

VARIABLES
    web,        \* what each URL of the source serves
    changes,    \* how often people changed the source
    phase,      \* of the running crawl
    disallowed, \* the robots rules this crawl obeys
    queue,      \* URLs to visit, oldest first
    seen,       \* URLs visited
    pages,      \* CrawlResult.pages
    assets,     \* CrawlResult.assets
    skipped,    \* the URLs CrawlResult.skipped has a note about
    truncated,  \* CrawlResult.truncated
    got         \* history: what each URL answered in this crawl

result == <<pages, assets, skipped, truncated>>
crawlVars == <<web, changes, phase, disallowed, queue, seen, result, got>>

Phases == {"idle", "crawling", "stopped", "crawled"}

-----------------------------------------------------------------------------
(* "/about/", "/about/index.html", "/about.html" and "/about" are one page;  *)
(* a query does not count.  form is "plain" for "/about" and "/about/".      *)
RouteFor(url) ==
    IF url.form = "html" /\ url.path # <<>> /\ url.path[Len(url.path)] = "index"
    THEN SubSeq(url.path, 1, Len(url.path) - 1)
    ELSE url.path

SameOrigin(url) == url.host = Base.host

Routes == {RouteFor(url) : url \in Urls}
Kept == {route \in Routes : pages[route] # Nothing}
Queued == {queue[i] : i \in DOMAIN queue}

(* The members of a set of URLs as sorted() lists them. *)
Sorted(S) ==
    {s \in [1 .. Cardinality(S) -> S] :
        /\ {s[i] : i \in DOMAIN s} = S
        /\ \A i, j \in DOMAIN s : i < j => Rank[s[i]] < Rank[s[j]]}

Blank(D) == [x \in D |-> Nothing]

CrawlInit ==
    /\ web \in {w \in [Urls -> Bodies \cup {Nothing}] : \A u \in Urls : w[u] \in Versions[u]}
    /\ changes = 0
    /\ phase = "idle"
    /\ disallowed = {}
    /\ queue = <<>>
    /\ seen = {}
    /\ pages = Blank(Routes)
    /\ assets = {}
    /\ skipped = {}
    /\ truncated = FALSE
    /\ got = Blank(Urls)

(* People change what the source serves. *)
EditSource(url, body) ==
    /\ changes < MaxChanges
    /\ body \in Versions[url] \ {web[url]}
    /\ web' = [web EXCEPT ![url] = body]
    /\ changes' = changes + 1
    /\ UNCHANGED <<phase, disallowed, queue, seen, result, got>>

-----------------------------------------------------------------------------
(* A crawl begins with an empty account.  It obeys no rules if told so, or  *)
(* if robots.txt cannot be read.                                            *)
StartCrawl ==
    /\ phase = "idle"
    /\ phase' = "crawling"
    /\ disallowed' \in {Disallowed, {}}
    /\ queue' = <<Base>>
    /\ seen' = {}
    /\ pages' = Blank(Routes)
    /\ assets' = {}
    /\ skipped' = {}
    /\ truncated' = FALSE
    /\ got' = Blank(Urls)
    /\ UNCHANGED <<web, changes>>

(* The cap is looked at first, whatever the queue still holds. *)
StopAtCap ==
    /\ phase = "crawling"
    /\ queue # <<>>
    /\ Cardinality(Kept) >= MaxPages
    /\ truncated' = TRUE
    /\ phase' = "stopped"
    /\ UNCHANGED <<web, changes, disallowed, queue, seen, pages, assets, skipped, got>>

(* The next URL leaves the queue and is seen. *)
Pop(url) ==
    /\ phase = "crawling"
    /\ queue # <<>>
    /\ Cardinality(Kept) < MaxPages
    /\ url = Head(queue)
    /\ seen' = seen \cup {url}
    /\ UNCHANGED <<web, changes, phase, disallowed, truncated>>

PopSilently(url) ==
    /\ Pop(url)
    /\ url \in seen \/ ~SameOrigin(url)
    /\ queue' = Tail(queue)
    /\ UNCHANGED <<pages, assets, skipped, got>>

Fetchable(url) == url \notin seen /\ SameOrigin(url) /\ url \notin disallowed

(* Mutant: a URL that is not fetched leaves no note. *)
SkipSilently(url) ==
    /\ Pop(url)
    /\ url \notin seen /\ SameOrigin(url)
    /\ queue' = Tail(queue)
    /\ UNCHANGED <<pages, assets, skipped, got>>

(* Disallowed, or the fetch fails, which it may at any time. *)
Skip(url) ==
    /\ Pop(url)
    /\ url \notin seen /\ SameOrigin(url)
    /\ queue' = Tail(queue)
    /\ skipped' = skipped \cup {url}
    /\ UNCHANGED <<pages, assets, got>>

FetchFile(url) ==
    /\ Pop(url)
    /\ Fetchable(url)
    /\ web[url] \in Bodies \ Html
    /\ queue' = Tail(queue)
    /\ assets' = assets \cup {url}
    /\ got' = [got EXCEPT ![url] = web[url]]
    /\ UNCHANGED <<pages, skipped>>

(* A page replaces whatever an earlier URL left at its route. *)
FetchPage(url) ==
    /\ Pop(url)
    /\ Fetchable(url)
    /\ web[url] \in Html
    /\ pages' = [pages EXCEPT ![RouteFor(url)] = web[url]]
    /\ assets' = assets \cup AssetsOf[web[url]]
    /\ got' = [got EXCEPT ![url] = web[url]]
    /\ \E more \in Sorted(LinksOf[web[url]] \ seen') : queue' = Tail(queue) \o more
    /\ UNCHANGED skipped

StopAtEnd ==
    /\ phase = "crawling"
    /\ queue = <<>>
    /\ phase' = "stopped"
    /\ UNCHANGED <<web, changes, disallowed, queue, seen, result, got>>

(* Nothing crawled is refused, and so is nothing but shells. *)
AllShells == \A route \in Kept : pages[route] \in Shells

Accept ==
    /\ phase = "stopped"
    /\ Kept # {}
    /\ ~AllShells
    /\ phase' = "crawled"
    /\ UNCHANGED <<web, changes, disallowed, queue, seen, result, got>>

(* The command ends: refused, killed, or done with the result. *)
EndCrawl ==
    /\ phase # "idle"
    /\ phase' = "idle"
    /\ UNCHANGED <<web, changes, disallowed, queue, seen, result, got>>

Visit == \E url \in Urls :
    PopSilently(url) \/ Skip(url) \/ FetchFile(url) \/ FetchPage(url)

CrawlStep == StopAtCap \/ Visit \/ StopAtEnd \/ Accept

CrawlNext ==
    \/ \E url \in Urls, body \in Bodies \cup {Nothing} : EditSource(url, body)
    \/ StartCrawl
    \/ CrawlStep
    \/ EndCrawl

CrawlSpec == CrawlInit /\ [][CrawlNext]_crawlVars

-----------------------------------------------------------------------------
CrawlTypeOK ==
    /\ web \in [Urls -> Bodies \cup {Nothing}]
    /\ changes \in Nat
    /\ phase \in Phases
    /\ disallowed \in SUBSET Urls
    /\ queue \in Seq(Urls)
    /\ seen \in SUBSET Urls
    /\ pages \in [Routes -> Bodies \cup {Nothing}]
    /\ assets \in SUBSET Urls
    /\ skipped \in SUBSET Urls
    /\ truncated \in BOOLEAN
    /\ got \in [Urls -> Bodies \cup {Nothing}]

(* Reference definition, without a queue or an order: given what each URL    *)
(* answered, what is discovered is the least set that has the base and what  *)
(* its pages link to.                                                        *)
Closed(answers, S) ==
    /\ Base \in S
    /\ \A u \in S : answers[u] \in Html => LinksOf[answers[u]] \subseteq S
DiscoveredBy(answers) ==
    {u \in Urls : \A S \in SUBSET Urls : Closed(answers, S) => u \in S}
Discovered == DiscoveredBy(got)

(* What may become of a URL that was visited. *)
Accounted(url) ==
    \/ ~SameOrigin(url)
    \/ url \in skipped
    \/ got[url] \in Html /\ RouteFor(url) \in Kept /\ AssetsOf[got[url]] \subseteq assets
    \/ got[url] \in Bodies \ Html /\ url \in assets

(* "No silent truncation.  Every limit that bites is reported": a crawl that *)
(* is accepted without being truncated visited exactly what is discovered    *)
(* from the base, and each URL of it is off the site, noted as skipped, an   *)
(* asset, or has a page at its route (crawl.py, _crawl).                     *)
AccountIsExact ==
    phase = "crawled" /\ ~truncated =>
        /\ seen = Discovered
        /\ \A u \in Discovered : Accounted(u)

(* The frontier: what the fetched pages link to is seen or queued, and what  *)
(* is seen or queued was discovered.                                         *)
Frontier == seen \cup Queued

FrontierInv ==
    phase # "idle" =>
        /\ Base \in Frontier
        /\ \A u \in Urls : got[u] # Nothing => u \in seen
        /\ \A u \in Urls : got[u] \in Html => LinksOf[got[u]] \subseteq Frontier
        /\ Frontier \subseteq Discovered
        /\ \A u \in seen : Accounted(u)
        /\ phase \in {"stopped", "crawled"} /\ ~truncated => queue = <<>>

CrawlIInv == CrawlTypeOK /\ FrontierInv
=============================================================================
