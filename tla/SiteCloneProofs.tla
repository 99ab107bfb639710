--------------------------- MODULE SiteCloneProofs ---------------------------
(***************************************************************************)
(* The account a crawl gives of a site is exact, for every site, every set *)
(* of rules and every cap, whatever fetches fail and however the site      *)
(* changes while it is crawled; and a clone that exits 0 has loaded what   *)
(* it crawled, whatever earlier clones that were killed left on disk.      *)
(***************************************************************************)
EXTENDS SiteClone, FiniteSetTheorems, TLAPS

(* The base is discovered, and so is what a discovered page links to. *)
LEMMA BaseDiscovered ==
    ASSUME NEW answers
    PROVE  Base \in DiscoveredBy(answers)
BY CrawlAssumption DEF DiscoveredBy, Closed

LEMMA LinksDiscovered ==
    ASSUME NEW answers, NEW u \in DiscoveredBy(answers), answers[u] \in Html
    PROVE  LinksOf[answers[u]] \subseteq DiscoveredBy(answers)
BY CrawlAssumption DEF DiscoveredBy, Closed

(* A set that is closed has all that is discovered. *)
LEMMA ClosedHasDiscovered ==
    ASSUME NEW answers, NEW S \in SUBSET Urls, Closed(answers, S)
    PROVE  DiscoveredBy(answers) \subseteq S
BY DEF DiscoveredBy

(* A URL that answers for the first time takes nothing away. *)
LEMMA DiscoveredGrows ==
    ASSUME NEW answers \in [Urls -> Bodies \cup {Nothing}],
           NEW url \in Urls, NEW body, answers[url] = Nothing
    PROVE  DiscoveredBy(answers) \subseteq DiscoveredBy([answers EXCEPT ![url] = body])
<1> DEFINE more == [answers EXCEPT ![url] = body]
<1>1. ASSUME NEW S \in SUBSET Urls, Closed(more, S)
      PROVE  Closed(answers, S)
    <2>1. \A u \in S : answers[u] \in Html => more[u] = answers[u]
        BY CrawlAssumption
    <2> QED BY <1>1, <2>1 DEF Closed
<1> QED BY <1>1 DEF DiscoveredBy

(* What Sorted lists is a sequence of just these URLs. *)
LEMMA SortedLists ==
    ASSUME NEW S \in SUBSET Urls, IsFiniteSet(S), NEW s \in Sorted(S)
    PROVE  s \in Seq(Urls) /\ {s[i] : i \in DOMAIN s} = S
<1>1. Cardinality(S) \in Nat
    BY FS_CardinalityType
<1>2. s \in [1 .. Cardinality(S) -> Urls]
    BY DEF Sorted
<1> QED BY <1>1, <1>2 DEF Sorted

LEMMA NewLinksSorted ==
    ASSUME NEW body \in Html, NEW done, NEW s \in Sorted(LinksOf[body] \ done)
    PROVE  s \in Seq(Urls) /\ {s[i] : i \in DOMAIN s} = LinksOf[body] \ done
<1>1. LinksOf[body] \ done \in SUBSET Urls /\ IsFiniteSet(LinksOf[body] \ done)
    BY CrawlAssumption, FS_Subset
<1> QED BY <1>1, SortedLists

(* The members of a sequence without its head, and of two put together. *)
LEMMA TailMembers ==
    ASSUME NEW q \in Seq(Urls), q # <<>>
    PROVE  /\ Head(q) \in Urls
           /\ Tail(q) \in Seq(Urls)
           /\ {q[i] : i \in DOMAIN q}
                = {Head(q)} \cup {Tail(q)[i] : i \in DOMAIN Tail(q)}
<1> DEFINE t == Tail(q)
<1>1. Head(q) \in Urls /\ t \in Seq(Urls) /\ Head(q) = q[1] /\ Len(q) \in Nat \ {0}
    OBVIOUS
<1>2. Len(t) = Len(q) - 1 /\ \A i \in 1 .. Len(t) : t[i] = q[i + 1]
    OBVIOUS
<1>3. \A i \in 1 .. Len(q) : i = 1 \/ (i - 1 \in 1 .. Len(t) /\ q[i] = t[i - 1])
    BY <1>1, <1>2
<1>4. \A i \in 1 .. Len(t) : i + 1 \in 1 .. Len(q) /\ t[i] = q[i + 1]
    BY <1>1, <1>2
<1>5. DOMAIN q = 1 .. Len(q) /\ DOMAIN t = 1 .. Len(t)
    BY <1>1
<1>6. 1 \in 1 .. Len(q)
    BY <1>1
<1> HIDE DEF t
<1>7. {q[i] : i \in DOMAIN q} \subseteq {Head(q)} \cup {t[i] : i \in DOMAIN t}
    BY <1>1, <1>3, <1>5
<1>8. {Head(q)} \cup {t[i] : i \in DOMAIN t} \subseteq {q[i] : i \in DOMAIN q}
    BY <1>1, <1>4, <1>5, <1>6
<1> QED BY <1>1, <1>7, <1>8 DEF t

LEMMA AppendedMembers ==
    ASSUME NEW q \in Seq(Urls), NEW s \in Seq(Urls)
    PROVE  /\ q \o s \in Seq(Urls)
           /\ {(q \o s)[i] : i \in DOMAIN (q \o s)}
                = {q[i] : i \in DOMAIN q} \cup {s[i] : i \in DOMAIN s}
<1> DEFINE b == q \o s
<1>1. b \in Seq(Urls) /\ Len(q) \in Nat /\ Len(s) \in Nat
    OBVIOUS
<1>2. /\ Len(b) = Len(q) + Len(s)
      /\ \A i \in 1 .. Len(b) : b[i] = IF i <= Len(q) THEN q[i] ELSE s[i - Len(q)]
    OBVIOUS
<1>3. DOMAIN b = 1 .. Len(b) /\ DOMAIN q = 1 .. Len(q) /\ DOMAIN s = 1 .. Len(s)
    BY <1>1
<1>4. \A i \in 1 .. Len(b) :
        (i \in 1 .. Len(q) /\ b[i] = q[i]) \/ (i - Len(q) \in 1 .. Len(s) /\ b[i] = s[i - Len(q)])
    BY <1>1, <1>2
<1>5. \A i \in 1 .. Len(q) : i \in 1 .. Len(b) /\ b[i] = q[i]
    BY <1>1, <1>2
<1>6. \A i \in 1 .. Len(s) : i + Len(q) \in 1 .. Len(b) /\ b[i + Len(q)] = s[i]
    BY <1>1, <1>2
<1> HIDE DEF b
<1>7. {b[i] : i \in DOMAIN b} \subseteq {q[i] : i \in DOMAIN q} \cup {s[i] : i \in DOMAIN s}
    BY <1>3, <1>4
<1>8. {q[i] : i \in DOMAIN q} \cup {s[i] : i \in DOMAIN s} \subseteq {b[i] : i \in DOMAIN b}
    BY <1>3, <1>5, <1>6
<1> QED BY <1>1, <1>7, <1>8 DEF b

-----------------------------------------------------------------------------
LEMMA InitLemma == CrawlInit => CrawlIInv
<1> SUFFICES ASSUME CrawlInit PROVE CrawlTypeOK /\ FrontierInv
    BY DEF CrawlIInv
<1>1. {} \in SUBSET Urls /\ <<>> \in Seq(Urls)
    OBVIOUS
<1>2. CrawlTypeOK
    BY <1>1, CrawlAssumption DEF CrawlInit, CrawlTypeOK, Blank, Phases
<1>3. FrontierInv
    BY DEF CrawlInit, FrontierInv
<1> QED BY <1>2, <1>3

LEMMA RoutesOfUrls == \A url \in Urls : RouteFor(url) \in Routes
BY DEF Routes

(* A crawl starts with the base queued and an account of nothing. *)
LEMMA StartLemma == CrawlIInv /\ StartCrawl => CrawlIInv'
<1> SUFFICES ASSUME CrawlIInv, StartCrawl PROVE CrawlIInv'
    OBVIOUS
<1> USE CrawlAssumption DEF CrawlIInv, CrawlTypeOK, StartCrawl, Blank, Phases
<1>1. CrawlTypeOK'
    <2>1. disallowed' \in SUBSET Urls
        OBVIOUS
    <2>2. queue' \in Seq(Urls)
        OBVIOUS
    <2>3. pages' \in [Routes -> Bodies \cup {Nothing}] /\ got' \in [Urls -> Bodies \cup {Nothing}]
        OBVIOUS
    <2> QED BY <2>1, <2>2, <2>3
<1>2. Frontier' = {Base}
    BY DEF Frontier, Queued
<1>3. \A u \in Urls : got'[u] = Nothing
    OBVIOUS
<1>4. Base \in Discovered'
    BY BaseDiscovered DEF Discovered
<1>5. phase' = "crawling" /\ seen' = {}
    OBVIOUS
<1>6. FrontierInv'
    BY <1>2, <1>3, <1>4, <1>5 DEF FrontierInv
<1> QED BY <1>1, <1>6

(* The steps that leave the account alone: edits, the two ways the loop      *)
(* ends, the verdict on the result and the end of the command.               *)
LEMMA QuietLemma ==
    ASSUME CrawlIInv,
           UNCHANGED <<queue, seen, pages, assets, skipped, got, disallowed>>,
           CrawlTypeOK',
           phase' # "idle" => phase # "idle",
           phase' \in {"stopped", "crawled"} /\ ~truncated' => queue = <<>>
    PROVE  CrawlIInv'
<1>1. Discovered' = Discovered /\ Frontier' = Frontier
    BY DEF Discovered, Frontier, Queued
<1>2. \A u : Accounted(u)' <=> Accounted(u)
    BY DEF Accounted, Kept
<1>3. FrontierInv'
    BY <1>1, <1>2 DEF CrawlIInv, FrontierInv
<1> QED BY <1>3 DEF CrawlIInv

(* A visit takes the head of the queue over to what is seen. *)
LEMMA PopLemma ==
    ASSUME CrawlIInv, NEW url \in Urls, Pop(url)
    PROVE  /\ queue \in Seq(Urls)
           /\ Tail(queue) \in Seq(Urls)
           /\ seen' \cup {Tail(queue)[i] : i \in DOMAIN Tail(queue)} = Frontier
           /\ url \in Frontier
           /\ phase = "crawling" /\ phase' = "crawling"
<1>1. queue \in Seq(Urls) /\ queue # <<>> /\ url = Head(queue) /\ seen' = seen \cup {url}
    BY DEF CrawlIInv, CrawlTypeOK, Pop
<1>2. /\ Tail(queue) \in Seq(Urls)
      /\ Queued = {url} \cup {Tail(queue)[i] : i \in DOMAIN Tail(queue)}
    BY <1>1, TailMembers DEF Queued
<1> QED BY <1>1, <1>2 DEF Frontier, Pop

(* A visit that fetches nothing adds only its URL, and that is accounted for. *)
LEMMA VisitNothing ==
    ASSUME CrawlIInv, NEW url \in Urls, PopSilently(url) \/ Skip(url)
    PROVE  CrawlIInv'
<1>1. Pop(url) /\ queue' = Tail(queue) /\ UNCHANGED <<pages, assets, got>>
    BY DEF PopSilently, Skip
<1>2. CrawlTypeOK'
    <2>1. skipped' \in SUBSET Urls
        BY DEF CrawlIInv, CrawlTypeOK, PopSilently, Skip
    <2>2. queue' \in Seq(Urls)
        BY <1>1, PopLemma
    <2> QED BY <1>1, <2>1, <2>2 DEF CrawlIInv, CrawlTypeOK, Pop
<1>3. Frontier' = Frontier
    BY <1>1, PopLemma DEF Frontier, Queued
<1>4. Discovered' = Discovered
    BY <1>1 DEF Discovered
<1>5. skipped \subseteq skipped'
    BY DEF PopSilently, Skip
<1>6. \A u : Accounted(u) => Accounted(u)'
    BY <1>1, <1>5 DEF Accounted, Kept
<1>7. url \notin seen => Accounted(url)'
    BY DEF PopSilently, Skip, Accounted
<1>8. seen' = seen \cup {url} /\ phase = "crawling" /\ phase' = "crawling"
    BY <1>1 DEF Pop
<1>9. FrontierInv'
    BY <1>1, <1>3, <1>4, <1>6, <1>7, <1>8 DEF CrawlIInv, FrontierInv
<1> QED BY <1>2, <1>9 DEF CrawlIInv

(* A fetch: the URL answers for the first time, its links are in the frontier *)
(* that follows, and nothing that was in it is lost.                          *)
LEMMA VisitFetch ==
    ASSUME CrawlIInv, NEW url \in Urls, Pop(url), url \notin seen,
           NEW body \in Bodies, got' = [got EXCEPT ![url] = body],
           CrawlTypeOK',
           Kept \subseteq Kept', assets \subseteq assets', skipped' = skipped,
           Accounted(url)',
           Frontier' = Frontier \cup (IF body \in Html THEN LinksOf[body] ELSE {})
    PROVE  CrawlIInv'
<1> USE CrawlAssumption
<1>1. /\ seen' = seen \cup {url} /\ phase = "crawling" /\ phase' = "crawling"
      /\ url \in Frontier
    BY PopLemma DEF Pop
<1>2. FrontierInv /\ got \in [Urls -> Bodies \cup {Nothing}] /\ seen \subseteq Urls
    BY DEF CrawlIInv, CrawlTypeOK
<1>3. got[url] = Nothing
    BY <1>1, <1>2 DEF FrontierInv
<1>4. got'[url] = body /\ \A u \in Urls \ {url} : got'[u] = got[u]
    BY <1>2
<1>5. Discovered \subseteq Discovered'
    BY <1>2, <1>3, DiscoveredGrows DEF Discovered
<1>6. url \in Discovered'
    BY <1>1, <1>2, <1>5 DEF FrontierInv
<1>7. body \in Html => LinksOf[body] \subseteq Discovered'
    BY <1>4, <1>6, LinksDiscovered DEF Discovered
<1>8. Frontier' \subseteq Discovered'
    BY <1>1, <1>2, <1>5, <1>7 DEF FrontierInv
<1>9. \A u \in seen : Accounted(u)'
    <2> SUFFICES ASSUME NEW u \in seen PROVE Accounted(u)'
        OBVIOUS
    <2>1. Accounted(u) /\ u \in Urls /\ u # url
        BY <1>1, <1>2 DEF FrontierInv
    <2>2. got'[u] = got[u]
        BY <1>4, <2>1
    <2> QED BY <2>1, <2>2 DEF Accounted
<1>10. \A u \in Urls : got'[u] \in Html => LinksOf[got'[u]] \subseteq Frontier'
    BY <1>1, <1>2, <1>4 DEF FrontierInv
<1>11. \A u \in Urls : got'[u] # Nothing => u \in seen'
    BY <1>1, <1>2, <1>4 DEF FrontierInv
<1>12. Base \in Frontier'
    BY <1>1, <1>2 DEF FrontierInv
<1>13. FrontierInv'
    BY <1>1, <1>8, <1>9, <1>10, <1>11, <1>12 DEF FrontierInv
<1> QED BY <1>13 DEF CrawlIInv

LEMMA FetchFileLemma ==
    ASSUME CrawlIInv, NEW url \in Urls, FetchFile(url)
    PROVE  CrawlIInv'
<1> DEFINE body == web[url]
<1>1. /\ Pop(url) /\ url \notin seen /\ body \in Bodies /\ body \notin Html
      /\ got' = [got EXCEPT ![url] = body] /\ queue' = Tail(queue)
      /\ assets' = assets \cup {url} /\ pages' = pages /\ skipped' = skipped
    BY DEF FetchFile, Fetchable
<1>2. Frontier' = Frontier
    BY <1>1, PopLemma DEF Frontier, Queued
<1>3. CrawlTypeOK'
    <2>1. queue' \in Seq(Urls)
        BY <1>1, PopLemma
    <2> QED BY <1>1, <2>1 DEF CrawlIInv, CrawlTypeOK, Pop
<1>4. got'[url] = body
    BY <1>1 DEF CrawlIInv, CrawlTypeOK
<1>5. Accounted(url)'
    BY <1>1, <1>4 DEF Accounted
<1>6. Kept \subseteq Kept'
    BY <1>1 DEF Kept
<1> HIDE DEF body
<1> QED BY <1>1, <1>2, <1>3, <1>5, <1>6, VisitFetch

LEMMA FetchPageLemma ==
    ASSUME CrawlIInv, NEW url \in Urls, FetchPage(url)
    PROVE  CrawlIInv'
<1> USE CrawlAssumption
<1> DEFINE body == web[url]
<1>1. /\ Pop(url) /\ url \notin seen /\ body \in Html
      /\ got' = [got EXCEPT ![url] = body]
      /\ pages' = [pages EXCEPT ![RouteFor(url)] = body]
      /\ assets' = assets \cup AssetsOf[body] /\ skipped' = skipped
    BY DEF FetchPage, Fetchable
<1>2. PICK more \in Sorted(LinksOf[body] \ seen') : queue' = Tail(queue) \o more
    BY DEF FetchPage
<1> DEFINE rest == Tail(queue)
<1>3. rest \in Seq(Urls) /\ seen' \cup {rest[i] : i \in DOMAIN rest} = Frontier
    BY <1>1, PopLemma
<1>2a. queue' = rest \o more
    BY <1>2
<1> HIDE DEF rest, body
<1>4. more \in Seq(Urls) /\ {more[i] : i \in DOMAIN more} = LinksOf[body] \ seen'
    BY <1>1, <1>2, NewLinksSorted
<1>5. /\ queue' \in Seq(Urls)
      /\ Queued' = {rest[i] : i \in DOMAIN rest} \cup (LinksOf[body] \ seen')
    <2>1. Queued' = {(rest \o more)[i] : i \in DOMAIN (rest \o more)}
        BY <1>2a DEF Queued
    <2>2. /\ rest \o more \in Seq(Urls)
          /\ {(rest \o more)[i] : i \in DOMAIN (rest \o more)}
               = {rest[i] : i \in DOMAIN rest} \cup {more[i] : i \in DOMAIN more}
        BY <1>3, <1>4, AppendedMembers
    <2>3. queue' \in Seq(Urls)
        BY <1>2a, <2>2
    <2> QED BY <1>4, <2>1, <2>2, <2>3
<1>6. Frontier' = Frontier \cup LinksOf[body]
    BY <1>3, <1>5 DEF Frontier
<1>7. RouteFor(url) \in Routes /\ body \in Bodies /\ body # Nothing /\ AssetsOf[body] \subseteq Urls
    BY <1>1, RoutesOfUrls
<1>8. CrawlTypeOK'
    BY <1>1, <1>5, <1>7 DEF CrawlIInv, CrawlTypeOK, Pop
<1>9. pages'[RouteFor(url)] = body /\ got'[url] = body
    BY <1>1, <1>7 DEF CrawlIInv, CrawlTypeOK
<1>10. Kept \subseteq Kept' /\ RouteFor(url) \in Kept'
    <2>1. \A r \in Routes : pages[r] # Nothing => pages'[r] # Nothing
        BY <1>1, <1>7 DEF CrawlIInv, CrawlTypeOK
    <2> QED BY <1>7, <1>9, <2>1 DEF Kept
<1>11. Accounted(url)'
    BY <1>1, <1>9, <1>10 DEF Accounted
<1> QED BY <1>1, <1>6, <1>7, <1>8, <1>10, <1>11, VisitFetch

LEMMA NextLemma == CrawlIInv /\ [CrawlNext]_crawlVars => CrawlIInv'
<1> SUFFICES ASSUME CrawlIInv, [CrawlNext]_crawlVars PROVE CrawlIInv'
    OBVIOUS
<1>1. ASSUME NEW url \in Urls, NEW body \in Bodies \cup {Nothing}, EditSource(url, body)
      PROVE  CrawlIInv'
    <2>1. CrawlTypeOK'
        BY <1>1 DEF EditSource, result, CrawlIInv, CrawlTypeOK
    <2> QED BY <1>1, <2>1, QuietLemma DEF EditSource, result, CrawlIInv, FrontierInv
<1>2. CASE StartCrawl
    BY <1>2, StartLemma
<1>3. CASE StopAtCap
    <2>1. CrawlTypeOK'
        BY <1>3 DEF StopAtCap, CrawlIInv, CrawlTypeOK, Phases
    <2> QED BY <1>3, <2>1, QuietLemma DEF StopAtCap
<1>4. CASE Visit
    BY <1>4, VisitNothing, FetchFileLemma, FetchPageLemma DEF Visit
<1>5. CASE StopAtEnd
    <2>1. CrawlTypeOK'
        BY <1>5 DEF StopAtEnd, result, CrawlIInv, CrawlTypeOK, Phases
    <2> QED BY <1>5, <2>1, QuietLemma DEF StopAtEnd, result
<1>6. CASE Accept
    <2>1. CrawlTypeOK'
        BY <1>6 DEF Accept, result, CrawlIInv, CrawlTypeOK, Phases
    <2> QED BY <1>6, <2>1, QuietLemma DEF Accept, result, CrawlIInv, FrontierInv
<1>7. CASE EndCrawl
    <2>1. CrawlTypeOK'
        BY <1>7 DEF EndCrawl, result, CrawlIInv, CrawlTypeOK, Phases
    <2> QED BY <1>7, <2>1, QuietLemma DEF EndCrawl, result
<1>8. CASE UNCHANGED crawlVars
    <2>1. CrawlTypeOK'
        BY <1>8 DEF crawlVars, result, CrawlIInv, CrawlTypeOK
    <2> QED BY <1>8, <2>1, QuietLemma DEF crawlVars, result, CrawlIInv, FrontierInv
<1> QED BY <1>1, <1>2, <1>3, <1>4, <1>5, <1>6, <1>7, <1>8 DEF CrawlNext, CrawlStep

(* When the queue is empty what is seen is closed, so it is all there is to  *)
(* discover; and it was all discovered.                                      *)
LEMMA ExactLemma == CrawlIInv => AccountIsExact
<1> SUFFICES ASSUME CrawlIInv, phase = "crawled", ~truncated
             PROVE  seen = Discovered /\ \A u \in Discovered : Accounted(u)
    BY DEF AccountIsExact
<1>1. FrontierInv /\ queue = <<>> /\ seen \in SUBSET Urls
    BY DEF CrawlIInv, CrawlTypeOK, FrontierInv
<1>2. Frontier = seen
    BY <1>1 DEF Frontier, Queued
<1>3. Closed(got, seen)
    BY <1>1, <1>2 DEF Closed, FrontierInv
<1>4. Discovered \subseteq seen
    BY <1>1, <1>3, ClosedHasDiscovered DEF Discovered
<1>5. seen \subseteq Discovered /\ \A u \in seen : Accounted(u)
    BY <1>1, <1>2 DEF FrontierInv
<1> QED BY <1>4, <1>5

(* "No silent truncation": for every site, cap and rules, whatever fails and *)
(* however the site changes meanwhile, an accepted crawl that is not marked  *)
(* truncated visited exactly what is discovered from the base, and has each  *)
(* of it as a page, an asset, a note or a link off the site.                 *)
THEOREM CrawlAccount == CrawlSpec => []AccountIsExact
<1>1. CrawlInit => CrawlIInv
    BY InitLemma
<1>2. CrawlIInv /\ [CrawlNext]_crawlVars => CrawlIInv'
    BY NextLemma
<1>3. CrawlIInv => AccountIsExact
    BY ExactLemma
<1> QED BY <1>1, <1>2, <1>3, PTL DEF CrawlSpec

-----------------------------------------------------------------------------
(* The clone.                                                                *)

(* From the moment the crawl is saved the directory has what it read, at the *)
(* path of each route that no other route shares.                            *)
SavedInv ==
    step # "none" =>
        \A route \in Kept :
            (\A other \in Kept \ {route} : PathFor(other) # PathFor(route))
                => crawlDir[PathFor(route)] = pages[route]

(* A payload lies where its route has it. *)
SlugInv == \A slug \in Payloads : Slug(build[slug][1]) = slug

(* What is emitted for a route that is alone is what the crawl read there.   *)
EmittedInv ==
    step = "emitted" =>
        \A route \in Kept :
            Alone(route) => build[Slug(PageRoute(route))] = <<PageRoute(route), pages[route]>>

CloneIInv == TypeOK /\ FrontierInv /\ SavedInv /\ SlugInv /\ EmittedInv

LEMMA PathTypes ==
    ASSUME NEW route \in Routes
    PROVE  PathFor(route) \in Paths
BY DEF Paths

LEMMA LocalTypes ==
    ASSUME NEW path \in Paths
    PROVE  ReadBack(path) \in LocalRoutes
BY DEF LocalRoutes

LEMMA SlugTypes ==
    ASSUME NEW route \in LocalRoutes
    PROVE  PageRoute(route) \in PageRoutes /\ Slug(PageRoute(route)) \in Slugs
BY DEF PageRoutes, Slugs

LEMMA RouteTypes ==
    ASSUME NEW url \in Urls, HasName(url)
    PROVE  NameOf(url) \in Names
BY DEF Names

LEMMA SavedType ==
    ASSUME NEW routes \in SUBSET Routes, pages \in [Routes -> Bodies \cup {Nothing}],
           crawlDir \in [Paths -> Bodies \cup {Nothing}]
    PROVE  Saved(routes) \in [Paths -> Bodies \cup {Nothing}]
BY DEF Saved

LEMMA LocalType ==
    ASSUME crawlDir \in [Paths -> Bodies \cup {Nothing}], NEW route \in LocalRoutes
    PROVE  /\ Local[route] \in Bodies \cup {Nothing}
           /\ Local[route] # Nothing => \E path \in Files : ReadBack(path) = route
<1> DEFINE mine == {path \in Files : ReadBack(path) = route}
<1>1. CASE mine = {}
    BY <1>1 DEF Local
<1>2. CASE mine # {}
    <2>1. mine \subseteq Files /\ Files \subseteq Paths
        BY DEF Files
    <2>2. PICK path \in mine : Local[route] = crawlDir[path]
        <3>1. CASE route \in mine
            BY <1>2, <3>1 DEF Local
        <3>2. CASE route \notin mine
            BY <1>2, <3>2 DEF Local
        <3> QED BY <3>1, <3>2
    <2> QED BY <1>2, <2>1, <2>2
<1> QED BY <1>1, <1>2

(* Of a route that one file reads back as, the local copy is that file.      *)
LEMMA LocalAlone ==
    ASSUME NEW path \in Files, NEW route \in LocalRoutes, ReadBack(path) = route,
           \A other \in Files : ReadBack(other) = route => other = path
    PROVE  Local[route] = crawlDir[path]
<1> DEFINE mine == {other \in Files : ReadBack(other) = route}
<1>1. mine = {path}
    OBVIOUS
<1>2. mine # {} /\ (CHOOSE other \in mine : TRUE) = path
    BY <1>1
<1>3. Local[route] = IF mine = {} THEN Nothing
                     ELSE IF route \in mine THEN crawlDir[route]
                     ELSE crawlDir[CHOOSE other \in mine : TRUE]
    BY DEF Local
<1> HIDE DEF mine
<1>4. CASE route \in mine
    BY <1>1, <1>2, <1>3, <1>4
<1>5. CASE route \notin mine
    BY <1>2, <1>3, <1>5
<1> QED BY <1>4, <1>5

(* What emit leaves under each name: the payload of a route that has this    *)
(* slug, or what was there.                                                  *)
LEMMA EmittedAt ==
    ASSUME NEW routes, NEW new \in Emitted(routes)
    PROVE  /\ new = [name \in Slugs |-> new[name]]
           /\ \A name \in Slugs :
                 \/ /\ new[name] = build[name]
                    /\ \A r \in routes : Slug(PageRoute(r)) # name
                 \/ \E r \in routes :
                       Slug(PageRoute(r)) = name /\ new[name] = <<PageRoute(r), Local[r]>>
<1> DEFINE payload(route) == <<PageRoute(route), Local[route]>>
           slug(route) == Slug(PageRoute(route))
           OnePerSlug(some) == \A r, q \in some : slug(r) = slug(q) => r = q
           Stay == {some \in SUBSET routes :
                       OnePerSlug(some) /\ {slug(r) : r \in some} = {slug(r) : r \in routes}}
<1>1. PICK some \in Stay :
         new = [name \in Slugs |->
                  IF \E r \in some : slug(r) = name
                  THEN payload(CHOOSE r \in some : slug(r) = name)
                  ELSE build[name]]
    BY DEF Emitted
<1>2. some \subseteq routes /\ {slug(r) : r \in some} = {slug(r) : r \in routes}
    OBVIOUS
<1>3. ASSUME NEW name \in Slugs
      PROVE  \/ new[name] = build[name] /\ \A r \in routes : slug(r) # name
             \/ \E r \in routes : slug(r) = name /\ new[name] = payload(r)
    <2>1. CASE \E r \in some : slug(r) = name
        <3>1. (CHOOSE r \in some : slug(r) = name) \in some
              /\ slug(CHOOSE r \in some : slug(r) = name) = name
            BY <2>1
        <3>2. new[name] = payload(CHOOSE r \in some : slug(r) = name)
            BY <1>1, <2>1
        <3> HIDE DEF payload, slug, Stay
        <3> QED BY <1>2, <3>1, <3>2
    <2>2. CASE ~\E r \in some : slug(r) = name
        <3>1. new[name] = build[name]
            BY <1>1, <2>2
        <3>2. \A r \in routes : slug(r) # name
            BY <1>2, <2>2
        <3> QED BY <3>1, <3>2
    <2> QED BY <2>1, <2>2
<1> QED BY <1>1, <1>3

LEMMA EmittedType ==
    ASSUME build \in [Slugs -> (PageRoutes \X Bodies) \cup {Nothing}],
           crawlDir \in [Paths -> Bodies \cup {Nothing}],
           SlugInv, NEW routes \in SUBSET Converted, NEW new \in Emitted(routes)
    PROVE  /\ new \in [Slugs -> (PageRoutes \X Bodies) \cup {Nothing}]
           /\ \A name \in Slugs : new[name] # Nothing => Slug(new[name][1]) = name
<1>1. ASSUME NEW r \in routes
      PROVE  <<PageRoute(r), Local[r]>> \in PageRoutes \X Bodies
    <2>1. r \in LocalRoutes /\ Local[r] # Nothing
        BY DEF Converted
    <2> QED BY <2>1, LocalType, SlugTypes
<1>2. ASSUME NEW name \in Slugs
      PROVE  /\ new[name] \in (PageRoutes \X Bodies) \cup {Nothing}
             /\ new[name] # Nothing => Slug(new[name][1]) = name
    <2>1. CASE new[name] = build[name]
        BY <2>1 DEF SlugInv, Payloads
    <2>2. CASE \E r \in routes :
                  Slug(PageRoute(r)) = name /\ new[name] = <<PageRoute(r), Local[r]>>
        BY <1>1, <2>2
    <2> QED BY <2>1, <2>2, EmittedAt
<1> QED BY <1>2, EmittedAt

LEMMA EmittedAlone ==
    ASSUME NEW routes, NEW new \in Emitted(routes), NEW route \in routes,
           Slug(PageRoute(route)) \in Slugs,
           \A r \in routes : Slug(PageRoute(r)) = Slug(PageRoute(route)) => r = route
    PROVE  new[Slug(PageRoute(route))] = <<PageRoute(route), Local[route]>>
<1> DEFINE name == Slug(PageRoute(route))
<1>1. \/ /\ new[name] = build[name]
         /\ \A r \in routes : Slug(PageRoute(r)) # name
      \/ \E r \in routes :
            Slug(PageRoute(r)) = name /\ new[name] = <<PageRoute(r), Local[r]>>
    BY EmittedAt
<1>2. PICK r \in routes :
         Slug(PageRoute(r)) = name /\ new[name] = <<PageRoute(r), Local[r]>>
    BY <1>1
<1>3. r = route
    BY <1>2
<1> QED BY <1>2, <1>3

(* A route that is alone is converted from its own file, and no other with   *)
(* its slug is converted.                                                    *)
LEMMA AloneConverts ==
    ASSUME TypeOK, SavedInv, step # "none", NEW route \in Kept, Alone(route)
    PROVE  /\ route \in LocalRoutes /\ Local[route] = pages[route]
           /\ \A r \in Converted : Slug(PageRoute(r)) = Slug(PageRoute(route)) => r = route
<1> DEFINE path == PathFor(route)
<1>1. route \in Routes /\ pages[route] # Nothing /\ path \in Paths
    BY PathTypes DEF Kept
<1>2. crawlDir[path] = pages[route]
    BY DEF SavedInv, Alone
<1>3. path \in Files /\ ReadBack(path) = route
    BY <1>1, <1>2 DEF Files, Alone
<1>4. route \in LocalRoutes
    BY <1>1, <1>3, LocalTypes
<1>5. \A other \in Files :
        Slug(PageRoute(ReadBack(other))) = Slug(PageRoute(route)) => other = path
    BY DEF Alone
<1>6. Local[route] = pages[route]
    BY <1>2, <1>3, <1>4, <1>5, LocalAlone
<1>7. ASSUME NEW r \in Converted, Slug(PageRoute(r)) = Slug(PageRoute(route))
      PROVE  r = route
    <2>1. r \in LocalRoutes /\ Local[r] # Nothing
        BY DEF Converted
    <2>2. PICK other \in Files : ReadBack(other) = r
        BY <2>1, LocalType DEF TypeOK
    <2>3. other = path
        BY <1>5, <1>7, <2>2
    <2> QED BY <1>3, <2>2, <2>3
<1> QED BY <1>4, <1>6, <1>7

-----------------------------------------------------------------------------
(* The invariant.                                                            *)

LEMMA CloneInitLemma == CloneInit => CloneIInv
<1> SUFFICES ASSUME CloneInit PROVE CloneIInv
    OBVIOUS
<1>1. CrawlIInv
    BY InitLemma DEF CloneInit
<1>2. TypeOK
    <2>1. {} \in SUBSET Urls /\ 0 \in 0 .. MaxClones
        BY CloneAssumption
    <2> QED BY <1>1, <2>1 DEF CloneInit, TypeOK, CrawlIInv, Steps, Exits, Blank
<1>3. SavedInv /\ SlugInv /\ EmittedInv
    BY DEF CloneInit, SavedInv, SlugInv, EmittedInv, Payloads, Blank
<1> QED BY <1>1, <1>2, <1>3 DEF CloneIInv, CrawlIInv

(* What a clone does with the state of its crawl. *)
LEMMA FetchAssetLemma ==
    ASSUME CrawlIInv, NEW url \in Urls, FetchAsset(url)
    PROVE  CrawlIInv'
<1>1. UNCHANGED <<web, changes, phase, disallowed, queue, seen, pages, assets, truncated, got>>
    BY DEF FetchAsset
<1>2. skipped \subseteq skipped' /\ skipped' \subseteq skipped \cup {url}
    BY DEF FetchAsset
<1>3. CrawlTypeOK'
    BY <1>1, <1>2 DEF CrawlIInv, CrawlTypeOK
<1>4. Discovered' = Discovered /\ Frontier' = Frontier
    BY <1>1 DEF Discovered, Frontier, Queued
<1>5. \A u : Accounted(u) => Accounted(u)'
    BY <1>1, <1>2 DEF Accounted, Kept
<1>6. FrontierInv'
    BY <1>1, <1>4, <1>5 DEF CrawlIInv, FrontierInv
<1> QED BY <1>3, <1>6 DEF CrawlIInv

LEMMA CrawlPart ==
    ASSUME TypeOK, FrontierInv, [Next]_cloneVars
    PROVE  CrawlIInv'
<1>1. CrawlIInv
    BY DEF TypeOK, CrawlIInv
<1>2. CASE \E url \in Urls : FetchAsset(url)
    BY <1>1, <1>2, FetchAssetLemma
<1>3. CASE [CrawlNext]_crawlVars
    BY <1>1, <1>3, NextLemma
<1>4. CASE ConvertAndEmit
    <2>1. UNCHANGED <<web, changes, disallowed, queue, seen, result, got>>
        BY <1>4 DEF ConvertAndEmit
    <2>2. phase = "crawled" /\ (phase' = phase \/ phase' = "idle")
        BY <1>4 DEF ConvertAndEmit, TypeOK
    <2>3. EndCrawl \/ UNCHANGED crawlVars
        BY <2>1, <2>2 DEF EndCrawl, crawlVars
    <2> QED BY <1>3, <2>3 DEF CrawlNext
<1>5. CASE Edit \/ StartClone \/ Crawl \/ RefuseCrawl \/ RefuseRoutes \/ LoadClone \/ Kill
    BY <1>3, <1>5 DEF Edit, StartClone, Crawl, RefuseCrawl, RefuseRoutes, LoadClone, Kill, CrawlNext
<1>6. CASE SaveCrawl \/ AssetsDone \/ LoadBuild \/ Drift \/ UNCHANGED cloneVars
    <2>1. UNCHANGED crawlVars
        BY <1>6 DEF SaveCrawl, AssetsDone, LoadBuild, Drift, cloneVars
    <2> QED BY <1>3, <2>1
<1> QED BY <1>2, <1>4, <1>5, <1>6 DEF Next, CloneStep

(* Loading takes each payload to its route. *)
LEMMA LoadingType ==
    ASSUME build \in [Slugs -> (PageRoutes \X Bodies) \cup {Nothing}],
           dev \in [PageRoutes -> Bodies \cup {Nothing}], Loading
    PROVE  dev' \in [PageRoutes -> Bodies \cup {Nothing}]
<1>1. ASSUME NEW route \in PageRoutes, \E slug \in Payloads : build[slug][1] = route
      PROVE  build[CHOOSE slug \in Payloads : build[slug][1] = route][2] \in Bodies
    <2>1. PICK slug \in Payloads : slug = CHOOSE s \in Payloads : build[s][1] = route
        BY <1>1
    <2>2. build[slug] \in PageRoutes \X Bodies
        BY DEF Payloads
    <2> QED BY <2>1, <2>2
<1>2. \A route \in PageRoutes :
         (IF \E slug \in Payloads : build[slug][1] = route
          THEN build[CHOOSE slug \in Payloads : build[slug][1] = route][2]
          ELSE dev[route]) \in Bodies \cup {Nothing}
    BY <1>1
<1> QED BY <1>2 DEF Loading

LEMMA CloneTypeStep ==
    ASSUME TypeOK, FrontierInv, SlugInv, [Next]_cloneVars
    PROVE  TypeOK'
<1> USE DEF TypeOK, Steps, Exits
<1>c. CrawlTypeOK'
    BY CrawlPart DEF CrawlIInv
<1>k. Kept \subseteq Routes /\ pages \in [Routes -> Bodies \cup {Nothing}]
    BY DEF Kept, CrawlTypeOK
<1>1. CASE StartClone
    BY <1>c, <1>1, CloneAssumption DEF StartClone, StartCrawl, disk
<1>2. CASE Crawl
    <2>1. step = "none" \/ phase' = "crawled"
        BY <1>2 DEF Crawl, CrawlStep, StopAtCap, Visit, PopSilently, Skip, FetchFile, FetchPage,
           Pop, StopAtEnd, Accept
    <2> QED BY <1>c, <1>2, <2>1 DEF Crawl, disk
<1>3. CASE RefuseCrawl
    BY <1>c, <1>3 DEF RefuseCrawl, EndCrawl, disk
<1>4. CASE SaveCrawl
    <2>1. crawlDir' \in [Paths -> Bodies \cup {Nothing}]
        BY <1>4, <1>k, SavedType DEF SaveCrawl
    <2>2. todo' \in SUBSET Urls
        BY <1>4 DEF SaveCrawl, CrawlTypeOK
    <2> QED BY <1>c, <1>4, <2>1, <2>2 DEF SaveCrawl, crawlVars
<1>5. ASSUME NEW url \in Urls, FetchAsset(url) PROVE TypeOK'
    <2>1. assetDir' \in [Names -> Bodies \cup {Nothing}]
        BY <1>5, RouteTypes DEF FetchAsset, CrawlTypeOK
    <2>2. todo' \in SUBSET Urls
        BY <1>5 DEF FetchAsset
    <2> QED BY <1>c, <1>5, <2>1, <2>2 DEF FetchAsset
<1>6. CASE AssetsDone
    BY <1>c, <1>6 DEF AssetsDone, crawlVars, disk
<1>7. CASE ConvertAndEmit
    <2>1. build' \in [Slugs -> (PageRoutes \X Bodies) \cup {Nothing}]
        BY <1>7, EmittedType DEF ConvertAndEmit
    <2>2. step' \in Steps /\ last' \in Exits /\ (step' # "none" => phase' = "crawled")
        BY <1>7 DEF ConvertAndEmit
    <2> QED BY <1>c, <1>7, <2>1, <2>2 DEF ConvertAndEmit
<1>8. CASE RefuseRoutes
    BY <1>c, <1>8 DEF RefuseRoutes, disk
<1>9. CASE LoadClone
    <2>1. dev' \in [PageRoutes -> Bodies \cup {Nothing}]
        BY <1>9, LoadingType DEF LoadClone
    <2> QED BY <1>c, <1>9, <2>1 DEF LoadClone, disk
<1>10. CASE Kill
    <2>1. crawlDir' \in [Paths -> Bodies \cup {Nothing}]
        <3>1. crawlDir' = crawlDir \/ \E some \in SUBSET Kept : crawlDir' = Saved(some)
            BY <1>10 DEF Kill
        <3> QED BY <1>k, <3>1, SavedType
    <2>2. build' \in [Slugs -> (PageRoutes \X Bodies) \cup {Nothing}]
        <3>1. build' = build \/ \E some \in SUBSET Converted : build' \in Emitted(some)
            BY <1>10 DEF Kill
        <3> QED BY <3>1, EmittedType
    <2> QED BY <1>c, <1>10, <2>1, <2>2 DEF Kill
<1>11. CASE LoadBuild
    <2>1. dev' \in [PageRoutes -> Bodies \cup {Nothing}]
        BY <1>11, LoadingType DEF LoadBuild
    <2> QED BY <1>c, <1>11, <2>1 DEF LoadBuild, disk, crawlVars
<1>12. CASE Drift
    BY <1>c, <1>12 DEF Drift, crawlVars, disk
<1>13. CASE Edit
    BY <1>c, <1>13 DEF Edit, EditSource, disk
<1>14. CASE UNCHANGED cloneVars
    BY <1>c, <1>14 DEF cloneVars, disk, crawlVars
<1> QED BY <1>1, <1>2, <1>3, <1>4, <1>5, <1>6, <1>7, <1>8, <1>9, <1>10, <1>11, <1>12, <1>13,
           <1>14 DEF Next, CloneStep

(* The step of a clone that is under way changes only by its own commands,   *)
(* and the pages of its crawl stay as they are until it ends.                *)
LEMMA StepKept ==
    ASSUME TypeOK, [Next]_cloneVars, step' # "none", ~SaveCrawl
    PROVE  /\ step # "none"
           /\ pages' = pages /\ crawlDir' = crawlDir
           /\ (step' = step /\ build' = build) \/ ConvertAndEmit \/ AssetsDone
<1>1. step # "none" => phase = "crawled"
    BY DEF TypeOK
<1>2. CASE Edit \/ StartClone \/ Crawl \/ RefuseCrawl
    BY <1>1, <1>2 DEF Edit, EditSource, StartClone, StartCrawl, Crawl, CrawlStep, StopAtCap, Visit,
       PopSilently, Skip, FetchFile, FetchPage, Pop, StopAtEnd, Accept, RefuseCrawl, EndCrawl,
       disk, result
<1>3. CASE \E url \in Urls : FetchAsset(url)
    BY <1>3 DEF FetchAsset
<1>4. CASE AssetsDone \/ ConvertAndEmit
    BY <1>4 DEF AssetsDone, ConvertAndEmit, crawlVars, result, disk
<1>5. CASE RefuseRoutes \/ LoadClone \/ Kill
    BY <1>5 DEF RefuseRoutes, LoadClone, Kill
<1>6. CASE LoadBuild \/ Drift
    BY <1>1, <1>6 DEF LoadBuild, Drift, crawlVars, result, disk
<1>7. CASE UNCHANGED cloneVars
    BY <1>7 DEF cloneVars, crawlVars, result, disk
<1> QED BY <1>2, <1>3, <1>4, <1>5, <1>6, <1>7 DEF Next, CloneStep

LEMMA SavedStep ==
    ASSUME TypeOK, SavedInv, [Next]_cloneVars
    PROVE  SavedInv'
<1> SUFFICES ASSUME step' # "none" PROVE SavedInv'
    BY DEF SavedInv
<1>1. CASE SaveCrawl
    <2>1. pages' = pages /\ Kept' = Kept /\ crawlDir' = Saved(Kept)
        BY <1>1 DEF SaveCrawl, crawlVars, result, Kept
    <2>2. ASSUME NEW route \in Kept, \A other \in Kept \ {route} : PathFor(other) # PathFor(route)
          PROVE  Saved(Kept)[PathFor(route)] = pages[route]
        <3>1. PathFor(route) \in Paths
            BY PathTypes DEF Kept
        <3>2. CASE route # <<>>
            BY <3>1, <3>2 DEF Saved, PathFor
        <3>3. CASE route = <<>>
            <4>1. PathFor(route) = <<"index">> /\ PathFor(<<"index">>) = <<"index">>
                BY <3>3 DEF PathFor
            <4>2. <<"index">> # <<>>
                OBVIOUS
            <4>3. <<"index">> \notin Kept
                BY <2>2, <3>3, <4>1, <4>2
            <4> QED BY <3>1, <3>3, <4>1, <4>3 DEF Saved
        <3> QED BY <3>2, <3>3
    <2> QED BY <2>1, <2>2 DEF SavedInv
<1>2. CASE ~SaveCrawl
    <2>1. step # "none" /\ pages' = pages /\ crawlDir' = crawlDir
        BY <1>2, StepKept
    <2> QED BY <2>1 DEF SavedInv, Kept
<1> QED BY <1>1, <1>2

LEMMA SlugStep ==
    ASSUME TypeOK, SlugInv, [Next]_cloneVars
    PROVE  SlugInv'
<1>1. \/ build' = build
      \/ \E some \in SUBSET Converted : build' \in Emitted(some)
    BY DEF Next, CloneStep, Edit, StartClone, Crawl, RefuseCrawl, SaveCrawl, FetchAsset, AssetsDone,
       ConvertAndEmit, RefuseRoutes, LoadClone, Kill, LoadBuild, Drift, cloneVars, disk
<1>2. CASE build' = build
    BY <1>2 DEF SlugInv, Payloads
<1>3. ASSUME NEW some \in SUBSET Converted, build' \in Emitted(some)
      PROVE  SlugInv'
    <2>1. \A name \in Slugs : build'[name] # Nothing => Slug(build'[name][1]) = name
        BY <1>3, EmittedType DEF TypeOK
    <2> QED BY <2>1 DEF SlugInv, Payloads
<1> QED BY <1>1, <1>2, <1>3

LEMMA EmittedStep ==
    ASSUME TypeOK, SavedInv, EmittedInv, [Next]_cloneVars
    PROVE  EmittedInv'
<1> SUFFICES ASSUME step' = "emitted" PROVE EmittedInv'
    BY DEF EmittedInv
<1>1. ~SaveCrawl /\ ~AssetsDone
    BY DEF SaveCrawl, AssetsDone
<1>2. /\ step # "none" /\ pages' = pages /\ crawlDir' = crawlDir
      /\ (step' = step /\ build' = build) \/ ConvertAndEmit
    BY <1>1, StepKept
<1>3. Kept' = Kept /\ Files' = Files
    BY <1>2 DEF Kept, Files
<1>4. \A route : Alone(route)' <=> Alone(route)
    BY <1>3 DEF Alone
<1>5. CASE step' = step /\ build' = build
    BY <1>2, <1>3, <1>4, <1>5 DEF EmittedInv
<1>6. CASE ConvertAndEmit
    <2>1. build' \in Emitted(Converted) /\ \A route \in LocalRoutes : Local[route] \notin Unconvertible
        BY <1>6 DEF ConvertAndEmit
    <2>2. ASSUME NEW route \in Kept, Alone(route)
          PROVE  build'[Slug(PageRoute(route))] = <<PageRoute(route), pages[route]>>
        <3>1. /\ route \in LocalRoutes /\ Local[route] = pages[route]
              /\ \A r \in Converted : Slug(PageRoute(r)) = Slug(PageRoute(route)) => r = route
            BY <1>2, <2>2, AloneConverts
        <3>2. route \in Converted
            BY <2>1, <3>1 DEF Converted, Kept
        <3>3. Slug(PageRoute(route)) \in Slugs
            BY <3>1, SlugTypes
        <3>4. build'[Slug(PageRoute(route))] = <<PageRoute(route), Local[route]>>
            BY <2>1, <3>1, <3>2, <3>3, EmittedAlone
        <3> QED BY <3>1, <3>4
    <2> QED BY <1>2, <1>3, <1>4, <2>2 DEF EmittedInv
<1> QED BY <1>2, <1>5, <1>6

LEMMA CloneInvariance == Spec => []CloneIInv
<1>1. CloneIInv /\ [Next]_cloneVars => CloneIInv'
    <2> SUFFICES ASSUME CloneIInv, [Next]_cloneVars PROVE CloneIInv'
        OBVIOUS
    <2>1. FrontierInv'
        BY CrawlPart DEF CloneIInv, CrawlIInv
    <2>2. TypeOK'
        BY CloneTypeStep DEF CloneIInv
    <2>3. SavedInv' /\ SlugInv' /\ EmittedInv'
        BY SavedStep, SlugStep, EmittedStep DEF CloneIInv
    <2> QED BY <2>1, <2>2, <2>3 DEF CloneIInv
<1> QED BY <1>1, CloneInitLemma, PTL DEF Spec

-----------------------------------------------------------------------------
(* The theorems.                                                             *)

(* What is on disk and on the dev instance stays what the commands take it   *)
(* for, wherever they are killed: payloads lie under the slugs of routes     *)
(* (cli.py cmd_clone, save_crawl, emit, load_dev.load).                      *)
THEOREM CloneTypeCorrect == Spec => []TypeOK
<1>1. CloneIInv => TypeOK
    BY DEF CloneIInv
<1> QED BY <1>1, CloneInvariance, PTL

(* "No silent truncation" holds of the crawl inside the clone too, which     *)
(* goes on to note the assets it could not fetch in the same account         *)
(* (crawl.py _crawl, fetch_assets).                                          *)
THEOREM CloneAccount == Spec => []AccountIsExact
<1>1. CloneIInv => AccountIsExact
    BY ExactLemma DEF CloneIInv, CrawlIInv, TypeOK
<1> QED BY <1>1, CloneInvariance, PTL

(* A clone that exits 0 has put every route it crawled on the dev instance   *)
(* with what this crawl read there, however many clones were killed before   *)
(* it (cmd_clone), for any two routes the names on disk can tell apart.      *)
THEOREM CloneLoadsItsCrawl == Spec => LoadedIsCrawled
<1>1. ASSUME CloneIInv, LoadClone, NEW route \in Kept, Alone(route)
      PROVE  dev'[PageRoute(route)] = pages[route]
    <2> DEFINE mine == {slug \in Payloads : build[slug][1] = PageRoute(route)}
               own == Slug(PageRoute(route))
    <2>1. step = "emitted" /\ TypeOK /\ SavedInv /\ SlugInv /\ EmittedInv
        BY <1>1 DEF LoadClone, CloneIInv
    <2>2. route \in LocalRoutes
        BY <1>1, <2>1, AloneConverts
    <2>3. PageRoute(route) \in PageRoutes /\ own \in Slugs
        BY <2>2, SlugTypes
    <2>4. build[own] = <<PageRoute(route), pages[route]>>
        BY <1>1, <2>1 DEF EmittedInv
    <2>5. own \in mine
        <3>1. build[own] # Nothing
            <4>1. pages[route] \in Bodies
                BY <2>1 DEF Kept, TypeOK, CrawlTypeOK
            <4> QED BY <2>3, <2>4, <4>1, CloneAssumption
        <3> QED BY <2>3, <2>4, <3>1 DEF Payloads
    <2>6. \A slug \in mine : slug = own
        BY <2>1 DEF SlugInv
    <2>7. (CHOOSE slug \in Payloads : build[slug][1] = PageRoute(route)) = own
        BY <2>5, <2>6
    <2>8. dev'[PageRoute(route)] = build[own][2]
        BY <1>1, <2>3, <2>5, <2>7 DEF LoadClone, Loading
    <2> QED BY <2>4, <2>8
<1>2. CloneIInv /\ [Next]_cloneVars =>
        [LoadClone => \A route \in Kept : Alone(route) => dev'[PageRoute(route)] = pages[route]]_cloneVars
    BY <1>1
<1> QED BY <1>2, CloneInvariance, PTL DEF Spec, LoadedIsCrawled
=============================================================================
