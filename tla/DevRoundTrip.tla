---------------------------- MODULE DevRoundTrip ----------------------------
(***************************************************************************)
(* The dev site between an export and a publish: adopt copies an export of *)
(* the live site into it (tools/adopt.py), load puts a build there         *)
(* (tools/load_dev.py), people edit it, capture reads it back into         *)
(* dev-state/ (tools/capture_dev.py), and publish-verify rehearses         *)
(* dev-state/ on a scratch site and compares what both sites serve         *)
(* (tools/publish_verify.py).                                              *)
(*                                                                         *)
(* A page, a component and a variable are a key and a content each.  Where *)
(* two published pages share a route, Builder serves the newest; the model *)
(* lets it be either.                                                      *)
(***************************************************************************)
EXTENDS Integers, FiniteSets, Functions

CONSTANTS Names,       \* document names of pages
          Routes,      \* routes
          Templates,   \* those that start with template/
          Contents,    \* what a page, a component or a variable says
          Components,  \* component ids
          Variables,   \* uuids of Builder Variables
          Written,     \* the pages people write on the dev site
          Exports,     \* the exports the operations project may hand over
          Builds,      \* the contents of build/: route -> page
          MaxChanges,    \* bound: edits of the dev site, adopts and loads
          None         \* a missing file, or a page without components or data

\* What a record says beyond its route and flags: the fields a capture names,
\* the component it extends, and the fields a capture does not name, of which
\* page_data_script is the one buildsmith writes.
PageSays == [content: Contents, uses: Components \cup {None},
             data: Contents \cup {None}]

Page == [route: Routes, published: BOOLEAN, content: Contents,
         uses: Components \cup {None}, data: Contents \cup {None}]

\* f is a function from part of S into T.
IsPartial(f, S, T) ==
    /\ f = [x \in DOMAIN f |-> f[x]]
    /\ DOMAIN f \subseteq S
    /\ \A x \in DOMAIN f : f[x] \in T

IsSite(s) ==
    /\ s = [pages |-> s.pages, components |-> s.components,
            variables |-> s.variables]
    /\ IsPartial(s.pages, Names, Page)
    /\ IsPartial(s.components, Components, Contents)
    /\ IsPartial(s.variables, Variables, Contents)

IsBuild(b) ==
    /\ IsPartial(b.pages, Routes, PageSays)
    /\ IsPartial(b.components, Components, Contents)

ASSUME RoundTripAssumption ==
    /\ Templates \subseteq Routes
    /\ None \notin Components
    /\ IsFiniteSet(Names)
    /\ Written \subseteq Page
    /\ \A e \in Exports : IsSite(e)
    /\ \A b \in Builds : IsBuild(b)
    /\ MaxChanges \in Nat

VARIABLES
    dev,      \* the records of sandbox.localhost
    scratch,  \* the records of roundtrip.localhost
    export,   \* live-export/doctypes, or None
    state,    \* dev-state/
    staged,   \* a rehearsal has been applied to the scratch site
    calm,     \* how far an undisturbed capture and rehearsal have got (history)
    last,     \* how the last command ended
    compared, \* the routes both sites had answered when it ended (history)
    changes   \* how often the dev site has been changed

vars == <<dev, scratch, export, state, staged, calm, last, compared, changes>>

---------------------------------------------------------------------------

Empty == [x \in {} |-> x]

\* f, and g where f is not defined.
Over(f, g) ==
    [x \in DOMAIN f \cup DOMAIN g |-> IF x \in DOMAIN f THEN f[x] ELSE g[x]]

Put(f, x, y) == Over([k \in {x} |-> y], f)

EmptySite == [pages |-> Empty, components |-> Empty, variables |-> Empty]

PublishedAt(s, r) ==
    {n \in DOMAIN s.pages : s.pages[n].route = r /\ s.pages[n].published}

\* What an anonymous visitor can tell from page n: its content, what its data
\* script puts there, the content of its component, and every variable of the
\* site in its stylesheet.
Rendered(s, n) ==
    {<<"page", s.pages[n].content>>, <<"data", s.pages[n].data>>} \cup
    {<<"component", c, s.components[c]>> :
        c \in {s.pages[n].uses} \cap DOMAIN s.components} \cup
    {<<"variable", v, s.variables[v]>> : v \in DOMAIN s.variables}

\* What a request for r may get.
Views(s, r) ==
    IF PublishedAt(s, r) = {} THEN {{<<"not found">>}}
    ELSE {Rendered(s, n) : n \in PublishedAt(s, r)}

\* _content_hash: of what is captured, everything but names, flags and groups.
Hash(s) ==
    LET material(n) == <<s.pages[n].route, s.pages[n].content, s.pages[n].uses>>
    IN [pages |-> [m \in {material(n) : n \in DOMAIN s.pages} |->
                      Cardinality({n \in DOMAIN s.pages : material(n) = m})],
        components |-> s.components, variables |-> s.variables]

Init ==
    /\ dev = EmptySite /\ scratch = EmptySite
    /\ export = None
    /\ state = [pages |-> Empty, components |-> Empty, tokens |-> None,
                manifest |-> None]
    /\ staged = FALSE
    /\ calm = "no" /\ last = "none" /\ compared = {}
    /\ changes = 0

Ends(how) == last' = how /\ compared' = {}

---------------------------------------------------------------------------
(* People and the operations project.                                      *)

DevChanges ==
    /\ changes < MaxChanges
    /\ changes' = changes + 1
    /\ calm' = "no"

EditDev ==
    /\ DevChanges
    /\ \/ \E n \in Names, p \in Written :
             dev' = [dev EXCEPT !.pages = Put(@, n, p)]
       \/ \E n \in DOMAIN dev.pages :
             dev' = [dev EXCEPT !.pages = Restrict(@, DOMAIN @ \ {n})]
       \/ \E c \in Components, x \in Contents :
             dev' = [dev EXCEPT !.components = Put(@, c, x)]
       \/ \E v \in Variables, x \in Contents :
             dev' = [dev EXCEPT !.variables = Put(@, v, x)]
       \/ \E v \in DOMAIN dev.variables :
             dev' = [dev EXCEPT !.variables = Restrict(@, DOMAIN @ \ {v})]
    /\ Ends("none")
    /\ UNCHANGED <<scratch, export, state, staged>>

HandOver ==
    /\ \E e \in Exports : export' = e
    /\ Ends("none")
    /\ UNCHANGED <<dev, scratch, state, staged, calm, changes>>

---------------------------------------------------------------------------

\* Published pages that are not in the export on routes of those that are.
Collisions(site, adopted) ==
    (UNION {PublishedAt(site, site.pages[n].route) : n \in adopted}) \ adopted

\* Mutant of Problems: collisions are printed and not counted.
ProblemsPrinted(failed, prune, collisions) == failed # {}

Problems(failed, prune, collisions) ==
    failed # {} \/ (~prune /\ collisions # {})

\* One script and one commit; records that fail are reported and left out.
Adopt(failed, prune) ==
    LET saved(f) == Restrict(f, DOMAIN f \ failed)
        site == [pages |-> Over(saved(export.pages), dev.pages),
                 components |-> Over(saved(export.components), dev.components),
                 variables |-> Over(saved(export.variables), dev.variables)]
        collisions == Collisions(site, DOMAIN export.pages \ failed)
    IN /\ DevChanges
       /\ dev' = IF prune
                 THEN [site EXCEPT !.pages = Restrict(@, DOMAIN @ \ collisions)]
                 ELSE site
       /\ Ends(IF Problems(failed, prune, collisions) THEN "problems"
               ELSE "adopted")
       /\ UNCHANGED <<scratch, export, state, staged>>

\* Mutant of AsPublished: the record is inserted as it was built.
AsBuilt(r, p) ==
    [route |-> r, content |-> p.content, uses |-> p.uses, data |-> p.data]

AsPublished(r, p) ==
    [route |-> r, published |-> TRUE, content |-> p.content, uses |-> p.uses,
     data |-> p.data]

\* Every page at a route of the build is replaced by a new, published one;
\* components are updated in place.  A script that fails commits nothing.
Load(build, fresh) ==
    LET old == {n \in DOMAIN dev.pages : dev.pages[n].route \in DOMAIN build.pages}
        new == [n \in {fresh[r] : r \in DOMAIN build.pages} |->
                   LET r == CHOOSE r \in DOMAIN build.pages : fresh[r] = n
                   IN AsPublished(r, build.pages[r])]
    IN /\ DevChanges
       /\ dev' = [dev EXCEPT !.pages = Over(new, Restrict(@, DOMAIN @ \ old)),
                             !.components = Over(build.components, @)]
       /\ Ends("none")
       /\ UNCHANGED <<scratch, export, state, staged>>

---------------------------------------------------------------------------

Manifest(s) ==
    [hash |-> Hash(s), routes |-> {s.pages[n].route : n \in DOMAIN s.pages}]

\* PAGE_FIELDS: what a capture does not name is not in dev-state/.
Captured(pages) == [n \in DOMAIN pages |-> [pages[n] EXCEPT !.data = None]]

Capture ==
    /\ state' = [pages |-> Captured(dev.pages), components |-> dev.components,
                 tokens |-> dev.variables, manifest |-> Manifest(dev)]
    /\ calm' = "captured" /\ Ends("none")
    /\ UNCHANGED <<dev, scratch, export, staged, changes>>

\* Killed while the old pages, then the old components, are unlinked: these
\* are left.
KillUnlink(pages, components) ==
    /\ components # DOMAIN state.components => pages = {}
    /\ state' = [state EXCEPT !.pages = Restrict(@, pages),
                              !.components = Restrict(@, components)]
    /\ calm' = "no" /\ Ends("none")
    /\ UNCHANGED <<dev, scratch, export, staged, changes>>

\* Killed after that, with some of the new pages, all and some of the new
\* components, or all of both and the tokens written.
KillCapture(pages, components, tokens) ==
    /\ pages # DOMAIN dev.pages => components = {}
    /\ tokens => pages = DOMAIN dev.pages /\ components = DOMAIN dev.components
    /\ state' = [state EXCEPT !.pages = Restrict(Captured(dev.pages), pages),
                    !.components = Restrict(dev.components, components),
                    !.tokens = IF tokens THEN dev.variables ELSE @]
    /\ calm' = "no" /\ Ends("none")
    /\ UNCHANGED <<dev, scratch, export, staged, changes>>

---------------------------------------------------------------------------

\* Mutant of Wiped: the pages of an earlier rehearsal stay.
NotWiped(s) == [s EXCEPT !.components = Empty]

\* "Start from empty": pages and components, not the variables.
Wiped(s) == [s EXCEPT !.pages = Empty, !.components = Empty]

\* A variable that is there already is skipped, whatever its value.
Applied(s) ==
    [pages |-> Over(state.pages, Wiped(s).pages),
     components |-> Over(state.components, Wiped(s).components),
     variables |-> Over(s.variables, state.tokens)]

Agree(f, g) == \A x \in DOMAIN f \cap DOMAIN g : f[x] = g[x]

\* Without tokens-applied.json or manifest.json the script fails.
RehearseApply ==
    /\ state.tokens # None /\ state.manifest # None
    /\ scratch' = Applied(scratch)
    /\ staged' = TRUE
    /\ calm' = IF calm # "no" /\ Agree(scratch.variables, state.tokens)
               THEN "staged" ELSE "no"
    /\ Ends("none")
    /\ UNCHANGED <<dev, export, state, changes>>

\* Mutant of Missing: what the rehearsal adds, not what it misses.
Added(d, s) == s \ d

Missing(d, s) == d \ s

Public == state.manifest.routes \ Templates

\* What curl may print for r.  Nobody reads its return code or the status: a
\* fetch that fails or times out gives nothing or a part of the page, and an
\* error page is compared like any other.
Fetches(site, r) ==
    [whole: {TRUE}, shows: Views(site, r)] \cup
    [whole: {FALSE}, shows: {{<<"error">>}} \cup UNION {SUBSET v : v \in Views(site, r)}]

\* The content diff of each public route, then the browser check, which
\* passes, fails or cannot run.  Without a public route nothing is compared
\* and nothing concluded.
RehearseCompare ==
    /\ staged
    /\ staged' = FALSE
    /\ \/ /\ Public = {}
          /\ Ends("unchecked")
       \/ /\ Public # {}
          /\ \E whole, failing \in SUBSET Public :
                /\ \A r \in Public :
                      \E d \in Fetches(dev, r), f \in Fetches(scratch, r) :
                         /\ r \in whole <=> d.whole /\ f.whole
                         /\ r \in failing <=> Missing(d.shows, f.shows) # {}
                /\ compared' = whole
                /\ last' \in IF failing # {} THEN {"failed"}
                             ELSE {"verified", "unchecked", "failed"}
    /\ UNCHANGED <<dev, scratch, export, state, calm, changes>>

\* buildsmith check roundtrip wipes the variables and components of the
\* scratch site, and of its pages only its own fixture.
CheckRoundtrip ==
    /\ scratch' = [scratch EXCEPT !.components = Empty, !.variables = Empty]
    /\ calm' = IF calm = "staged" THEN "captured" ELSE calm
    /\ Ends("none")
    /\ UNCHANGED <<dev, export, state, staged, changes>>

---------------------------------------------------------------------------

Next ==
    \/ EditDev \/ HandOver
    \/ /\ export # None
       /\ \E failed \in SUBSET (DOMAIN export.pages \cup DOMAIN export.components
                                   \cup DOMAIN export.variables),
             prune \in BOOLEAN : Adopt(failed, prune)
    \/ \E build \in Builds :
          \E fresh \in Injection(DOMAIN build.pages, Names \ DOMAIN dev.pages) :
             Load(build, fresh)
    \/ Capture
    \/ \E pages \in SUBSET DOMAIN state.pages,
          components \in SUBSET DOMAIN state.components : KillUnlink(pages, components)
    \/ \E pages \in SUBSET DOMAIN dev.pages,
          components \in SUBSET DOMAIN dev.components, tokens \in BOOLEAN :
             KillCapture(pages, components, tokens)
    \/ RehearseApply \/ RehearseCompare \/ CheckRoundtrip

Spec == Init /\ [][Next]_vars

---------------------------------------------------------------------------

TypeOK ==
    /\ IsSite(dev) /\ IsSite(scratch)
    /\ export = None \/ IsSite(export)
    /\ state = [pages |-> state.pages, components |-> state.components,
                tokens |-> state.tokens, manifest |-> state.manifest]
    /\ IsPartial(state.pages, Names, Page)
    /\ IsPartial(state.components, Components, Contents)
    /\ state.tokens # None => IsPartial(state.tokens, Variables, Contents)
    /\ staged \/ state.manifest # None => state.manifest.routes \subseteq Routes
    /\ staged \in BOOLEAN
    /\ calm \in {"no", "captured", "staged"}
    /\ last \in {"none", "problems", "adopted", "failed", "unchecked", "verified"}
    /\ compared \subseteq Routes
    /\ changes \in 0..MaxChanges

\* An adopt that reports no problem leaves each published page of the export,
\* with its component and variables, as the one its route serves, whatever
\* loads, edits and earlier adopts put there: "the source is already a Frappe
\* Builder site [...] anything that differs afterwards is a bug" (adopt).  An
\* export with two pages on a route is not such a source.
AdoptedIsServed ==
    last = "adopted" =>
        /\ \A n \in DOMAIN export.pages :
              LET p == export.pages[n]
              IN p.published /\ PublishedAt(export, p.route) = {n} =>
                    Views(dev, p.route) = {Rendered(dev, n)}
        /\ \A n \in DOMAIN export.pages : Rendered(export, n) \subseteq Rendered(dev, n)

\* When the content hash says dev is what was captured, a verified rehearsal
\* misses nothing of a public page dev serves, unless one of the two fetches
\* of that page failed -- also after a capture was killed and the pages went
\* back to what they were ("if the rehearsal does not reproduce dev, the
\* payload is wrong").
VerifiedMissesNothing ==
    last = "verified" /\ Hash(dev) = state.manifest.hash =>
        \A r \in Routes \ Templates :
            PublishedAt(dev, r) # {} =>
                /\ r \in Public
                /\ r \in compared =>
                      \E d \in Views(dev, r), s \in Views(scratch, r) : d \subseteq s

\* "Exit status is 1 if the rehearsal does not match dev" (publish_verify, the
\* module docstring): a verified rehearsal misses nothing of a route it lists.
VerifiedMatchesDev ==
    last = "verified" =>
        \A r \in Public :
            \E d \in Views(dev, r), s \in Views(scratch, r) : d \subseteq s

\* What is put there by page_data_script is all that a rehearsal can miss when
\* nothing came between it and the capture: dev-state/ holds all else that dev
\* serves, and applying it restores that.  Unless routes are shared, or the
\* scratch site has another value for a variable, left by an earlier
\* rehearsal.
CalmMissesDataOnly ==
    /\ calm = "staged" /\ staged
    /\ \A r \in Routes : Cardinality(PublishedAt(dev, r)) <= 1
    => \A r \in Public : \A d \in Views(dev, r), s \in Views(scratch, r) :
          \A x \in d \ s : x[1] = "data"

=============================================================================
