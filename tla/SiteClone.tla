------------------------------ MODULE SiteClone ------------------------------
(***************************************************************************)
(* `buildsmith clone` (cli.py, cmd_clone): crawl the source, save the      *)
(* pages, fetch the assets, convert every page found on disk, emit one     *)
(* payload per route, load the payloads into the dev instance; `load`,     *)
(* which does the last of these again; and `drift`, which compares the     *)
(* source with the crawl on disk.  None of the directories is ever         *)
(* cleared, and a command may be killed between any two files.             *)
(***************************************************************************)
EXTENDS SiteCrawl, SequencesExt

CONSTANTS
    Unconvertible, \* the pages html_to_blocks or page() reject
    MaxClones      \* bound on the crawls started

VARIABLES
    step,     \* how far the clone is with its result
    todo,     \* the assets this clone has not tried yet
    crawlDir, \* sites/<site>/crawl: the page saved at each path, as <path>.html
    assetDir, \* sites/<site>/assets: the file saved under each name
    build,    \* sites/<site>/build/pages: the payload in each <slug>.json
    dev,      \* what the dev instance has at each route
    last,     \* the exit of the last command
    clones    \* how many crawls were started

disk == <<crawlDir, assetDir, build>>
cloneVars == <<crawlVars, step, todo, disk, dev, last, clones>>

Steps == {"none", "saved", "fetched", "emitted"}
Exits == {"none", "ok", "problem", "unchecked", "killed"}

-----------------------------------------------------------------------------
(* save_crawl: the root has no name to be saved under.  crawl_local reads a  *)
(* file back as the route its path would have on the site.                   *)
PathFor(route) == IF route = <<>> THEN <<"index">> ELSE route
Paths == {PathFor(route) : route \in Routes}
ReadBack(path) == RouteFor([path |-> path, form |-> "html"])

(* Builder cannot hold an empty route (replicate, TRAP-014). *)
HomeRoute == <<"home">>
PageRoute(route) == IF route = <<>> THEN HomeRoute ELSE route

(* emit: the slashes of a route become underscores. *)
Slug(route) == FoldLeft(LAMBDA s, name : s \o "_" \o name, Head(route), Tail(route))

LocalRoutes == {ReadBack(path) : path \in Paths}
PageRoutes == {PageRoute(route) : route \in LocalRoutes}
Slugs == {Slug(route) : route \in PageRoutes}

(* fetch_assets keeps the last name of the path. *)
HasName(url) == url.path # <<>>
NameOf(url) == url.path[Len(url.path)]
Names == {NameOf(url) : url \in {u \in Urls : HasName(u)}}

Files == {path \in Paths : crawlDir[path] # Nothing}
Payloads == {slug \in Slugs : build[slug] # Nothing}

ASSUME CloneAssumption == MaxClones \in Nat /\ Nothing \notin PageRoutes \X Bodies

CloneInit ==
    /\ CrawlInit
    /\ step = "none"
    /\ todo = {}
    /\ crawlDir = Blank(Paths)
    /\ assetDir = Blank(Names)
    /\ build = Blank(Slugs)
    /\ dev = Blank(PageRoutes)
    /\ last = "none"
    /\ clones = 0

-----------------------------------------------------------------------------
StartClone ==
    /\ clones < MaxClones
    /\ StartCrawl
    /\ clones' = clones + 1
    /\ last' = "none"
    /\ UNCHANGED <<step, todo, disk, dev>>

Crawl == CrawlStep /\ UNCHANGED <<step, todo, disk, dev, last, clones>>

(* An empty crawl is a problem; nothing but shells could not be checked. *)
RefuseCrawl ==
    /\ phase = "stopped"
    /\ AllShells
    /\ EndCrawl
    /\ last' = IF Kept = {} THEN "problem" ELSE "unchecked"
    /\ UNCHANGED <<step, todo, disk, dev, clones>>

(* Mutant: a page that is on disk already is kept, as an asset is. *)
KeepsSaved(routes) ==
    [path \in Paths |->
        IF path \in routes /\ crawlDir[path] = Nothing THEN pages[path] ELSE crawlDir[path]]

(* Two routes may have one path: /index is written over the root. *)
Saved(routes) ==
    [path \in Paths |->
        IF path \in routes THEN pages[path]
        ELSE IF path = <<"index">> /\ <<>> \in routes THEN pages[<<>>]
        ELSE crawlDir[path]]

SaveCrawl ==
    /\ phase = "crawled"
    /\ step = "none"
    /\ crawlDir' = Saved(Kept)
    /\ step' = "saved"
    /\ todo' = assets
    /\ UNCHANGED <<crawlVars, assetDir, build, dev, last, clones>>

(* fetch_assets, one by one in sorted order.  A file that is there already   *)
(* counts as downloaded, whichever URL and whichever crawl it is from.       *)
FetchAsset(url) ==
    /\ step = "saved"
    /\ url \in todo
    /\ \A other \in todo : Rank[url] <= Rank[other]
    /\ todo' = todo \ {url}
    /\ IF HasName(url) /\ assetDir[NameOf(url)] # Nothing
       THEN UNCHANGED <<assetDir, skipped>>
       ELSE \/ /\ HasName(url)
               /\ web[url] # Nothing
               /\ assetDir' = [assetDir EXCEPT ![NameOf(url)] = web[url]]
               /\ UNCHANGED skipped
            \/ skipped' = skipped \cup {url} /\ UNCHANGED assetDir
    /\ UNCHANGED <<web, changes, phase, disallowed, queue, seen, pages, assets, truncated, got>>
    /\ UNCHANGED <<step, crawlDir, build, dev, last, clones>>

AssetsDone ==
    /\ step = "saved"
    /\ todo = {}
    /\ step' = "fetched"
    /\ UNCHANGED <<crawlVars, todo, disk, dev, last, clones>>

(* replicate reads the directory, not the crawl: every file in it is a page  *)
(* to convert.  Of two files that read back as one route, the one of that    *)
(* name is read last.                                                        *)
Local ==
    [route \in LocalRoutes |->
        LET mine == {path \in Files : ReadBack(path) = route}
        IN  IF mine = {} THEN Nothing
            ELSE IF route \in mine THEN crawlDir[route]
            ELSE crawlDir[CHOOSE path \in mine : TRUE]]

Converted == {route \in LocalRoutes : Local[route] \notin Unconvertible \cup {Nothing}}

(* check_routes: the root is called home, and so may another page be. *)
Collides == {<<>>, HomeRoute} \subseteq Converted

(* emit writes over the payload of the same slug and leaves the others.  Of  *)
(* the routes with one slug it is the last in the alphabet that stays.       *)
Emitted(routes) ==
    LET payload(route) == <<PageRoute(route), Local[route]>>
        slug(route) == Slug(PageRoute(route))
        OnePerSlug(some) == \A r, q \in some : slug(r) = slug(q) => r = q
        Stay == {some \in SUBSET routes :
                    OnePerSlug(some) /\ {slug(r) : r \in some} = {slug(r) : r \in routes}}
    IN  {[name \in Slugs |->
            IF \E r \in some : slug(r) = name
            THEN payload(CHOOSE r \in some : slug(r) = name)
            ELSE build[name]] : some \in Stay}

(* "Not every route converted": the payloads are emitted, but not loaded. *)
ConvertAndEmit ==
    /\ step = "fetched"
    /\ ~Collides
    /\ build' \in Emitted(Converted)
    /\ IF \A route \in LocalRoutes : Local[route] \notin Unconvertible
       THEN step' = "emitted" /\ UNCHANGED <<phase, last>>
       ELSE step' = "none" /\ phase' = "idle" /\ last' = "problem"
    /\ UNCHANGED <<web, changes, disallowed, queue, seen, result, got>>
    /\ UNCHANGED <<todo, crawlDir, assetDir, dev, clones>>

RefuseRoutes ==
    /\ step = "fetched"
    /\ Collides
    /\ EndCrawl
    /\ step' = "none"
    /\ last' = "problem"
    /\ UNCHANGED <<todo, disk, dev, clones>>

(* load_dev.load: each payload in build/pages replaces the pages at its route. *)
Loading ==
    dev' = [route \in PageRoutes |->
              IF \E slug \in Payloads : build[slug][1] = route
              THEN build[CHOOSE slug \in Payloads : build[slug][1] = route][2]
              ELSE dev[route]]

(* Mutant: the command ends as if it had more to load. *)
LoadHalfway ==
    step = "emitted" /\ EndCrawl /\ Loading /\ last' = "ok" /\ UNCHANGED <<step, todo, disk, clones>>

LoadClone ==
    /\ step = "emitted"
    /\ EndCrawl
    /\ step' = "none"
    /\ Loading
    /\ last' = "ok"
    /\ UNCHANGED <<todo, disk, clones>>

(* `load`: what a clone with --no-load left for later.  *)
LoadBuild ==
    /\ phase = "idle"
    /\ Payloads # {}
    /\ Loading
    /\ last' = "ok"
    /\ UNCHANGED <<crawlVars, step, todo, disk, clones>>

(* The command is killed: whatever it was writing may be half done. *)
Kill ==
    /\ EndCrawl
    /\ step' = "none"
    /\ last' = "killed"
    /\ \/ UNCHANGED <<crawlDir, build>>
       \/ /\ phase = "crawled" /\ step = "none"
          /\ \E some \in SUBSET Kept : crawlDir' = Saved(some)
          /\ UNCHANGED build
       \/ /\ step = "fetched" /\ ~Collides
          /\ \E some \in SUBSET Converted : build' \in Emitted(some)
          /\ UNCHANGED crawlDir
    /\ UNCHANGED <<todo, assetDir, dev, clones>>

-----------------------------------------------------------------------------
(* drift.check looks at the files at the top of crawl/, and at the home page *)
(* for links to routes that were never cloned.                               *)
TopLevel == {path \in Files : Len(path) = 1}
DriftRoute(path) == IF path = <<"index">> THEN <<>> ELSE path
LiveUrl(route) == [host |-> Base.host, path |-> route, form |-> "plain", query |-> ""]
Live(route) == IF LiveUrl(route) \in Urls THEN web[LiveUrl(route)] ELSE Nothing

Unreachable == Live(<<>>) = Nothing \/ \E path \in TopLevel : Live(DriftRoute(path)) = Nothing
Changed == \E path \in TopLevel : Live(DriftRoute(path)) # crawlDir[path]
Linked == IF Live(<<>>) \in Html
          THEN {url.path : url \in {u \in LinksOf[Live(<<>>)] : SameOrigin(u)}} \ {<<>>}
          ELSE {}
Added == Linked \ {DriftRoute(path) : path \in TopLevel}

Drift ==
    /\ phase = "idle"
    /\ Files # {}
    /\ last' = IF Unreachable THEN "unchecked"
               ELSE IF Changed \/ Added # {} THEN "problem" ELSE "ok"
    /\ UNCHANGED <<crawlVars, step, todo, disk, dev, clones>>

Edit ==
    /\ \E url \in Urls, body \in Bodies \cup {Nothing} : EditSource(url, body)
    /\ UNCHANGED <<step, todo, disk, dev, last, clones>>

CloneStep ==
    \/ Crawl \/ RefuseCrawl \/ SaveCrawl \/ (\E url \in Urls : FetchAsset(url)) \/ AssetsDone
    \/ ConvertAndEmit \/ RefuseRoutes \/ LoadClone

Next == Edit \/ StartClone \/ CloneStep \/ Kill \/ LoadBuild \/ Drift

Spec == CloneInit /\ [][Next]_cloneVars

-----------------------------------------------------------------------------
TypeOK ==
    /\ CrawlTypeOK
    /\ step \in Steps /\ (step # "none" => phase = "crawled")
    /\ todo \in SUBSET Urls
    /\ crawlDir \in [Paths -> Bodies \cup {Nothing}]
    /\ assetDir \in [Names -> Bodies \cup {Nothing}]
    /\ build \in [Slugs -> (PageRoutes \X Bodies) \cup {Nothing}]
    /\ dev \in [PageRoutes -> Bodies \cup {Nothing}]
    /\ last \in Exits
    /\ clones \in 0 .. MaxClones

(* No other route of the crawl has its file name, and none on disk its slug. *)
Alone(route) ==
    /\ ReadBack(PathFor(route)) = route
    /\ \A other \in Kept \ {route} : PathFor(other) # PathFor(route)
    /\ \A path \in Files : Slug(PageRoute(ReadBack(path))) = Slug(PageRoute(route))
                           => path = PathFor(route)

(* A clone that exits 0 has put every route it crawled on the dev instance,  *)
(* with what this crawl read there and not what an earlier or a killed clone *)
(* left on disk, unless file names or slugs confuse the route with another   *)
(* (cmd_clone: save_crawl, replicate, emit, load_dev.load).                  *)
LoadedIsCrawled ==
    [][LoadClone => \A route \in Kept : Alone(route) => dev'[PageRoute(route)] = pages[route]]_cloneVars

(* Drift finding nothing means that "the live site is what we cloned"        *)
(* (drift.py, report): no page of the crawl has changed.                     *)
NoDriftMeansUnchanged ==
    [][Drift /\ last' = "ok" =>
        \A path \in Files : Live(ReadBack(path)) = crawlDir[path]]_cloneVars
=============================================================================
