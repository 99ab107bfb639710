--------------------------- MODULE ComponentShells ---------------------------
(***************************************************************************)
(* One Builder Component and the pages that use it (TRAP-001).  A page     *)
(* holds a mirror of override shells, and a block of the component renders *)
(* only where a shell refers to it at the same place of the tree.  A       *)
(* change to the component is composed (primitives/components.py, compose) *)
(* or revised from a read-back (revise), simulated against a state export  *)
(* (tools/simulate.py) and written by an operator, who may do so whatever  *)
(* the simulator said, while editors go on working on the site.            *)
(***************************************************************************)
EXTENDS Naturals, FiniteSets

CONSTANTS
    Ids,       \* the blockIds below a component's root
    Texts,     \* the blocks that can carry content
    Root,      \* the root block of the component and of every mirror of it
    Composed,  \* the trees compose() makes: their ids derive from the path
    Pages,
    None,
    MaxChanges \* bound on the changes to the site

ASSUME ShellsAssumption ==
    /\ IsFiniteSet(Ids)
    /\ Root \notin Ids
    /\ MaxChanges \in Nat

VARIABLES
    component, \* the live record, None while there is none
    pages,     \* what each page holds in blocks and in draft_blocks
    export,    \* the state export last read back from the site
    payload,   \* the component payload to be written next
    verdict,   \* what simulate said of this payload with this export
    changes    \* how often the site has changed

vars == <<component, pages, export, payload, verdict, changes>>

-----------------------------------------------------------------------------
(* A tree gives the parent of every block below the root. *)
IsForest(tree) ==
    \A some \in (SUBSET DOMAIN tree) \ {{}} : \E n \in some : tree[n] \notin some
Trees ==
    UNION {{tree \in [ids -> ids \cup {Root}] : IsForest(tree)} : ids \in SUBSET Ids}

Children(tree, n) == {m \in DOMAIN tree : tree[m] = n}

Above(tree) ==
    LET up[n \in DOMAIN tree] == {tree[n]} \cup IF tree[n] = Root THEN {} ELSE up[tree[n]]
    IN  up

(* A component is its tree and the blocks of it that carry content. *)
Components ==
    UNION {[tree : {tree}, content : SUBSET (Texts \cap DOMAIN tree)] : tree \in Trees}

(* Which nodes of a mirror extend the component: none while the page still   *)
(* carries the structure itself, the topmost when an editor has placed it,   *)
(* every one when override_shells has built it.                              *)
Marks == {"inline", "root", "every"}
Mirrors == [tree : Trees, marks : Marks, pinned : BOOLEAN]
Sources == {"blocks", "draft"}
EmptyPage == [s \in Sources |-> None]

Mirror(tree, marks) == [tree |-> tree, marks |-> marks, pinned |-> FALSE]

(* extend_block, for a whole mirror: a shell is filled in when it and all    *)
(* the shells above it find their block among the children of the block      *)
(* found last (docs/traps.md).                                               *)
Matched(c, mirror) ==
    LET agree == {n \in DOMAIN c.tree \cap DOMAIN mirror.tree : c.tree[n] = mirror.tree[n]}
    IN  {n \in agree : Above(mirror.tree)[n] \subseteq agree \cup {Root}}
Shown(c, mirror) == Matched(c, mirror) \cap c.content

(* pages_using and _find_component_roots: the nodes that extend the component.*)
RootsOf(mirror) ==
    CASE mirror.marks = "inline" -> {}
      [] mirror.marks = "root" -> {Root}
      [] mirror.marks = "every" -> {Root} \cup DOMAIN mirror.tree

Used(ps) ==
    {at \in (DOMAIN ps) \X Sources :
        ps[at[1]][at[2]] # None /\ RootsOf(ps[at[1]][at[2]]) # {}}
MirrorAt(ps, at) == ps[at[1]][at[2]]

-----------------------------------------------------------------------------
Init ==
    /\ component = None
    /\ pages = [p \in Pages |-> EmptyPage]
    /\ export = None
    /\ payload = None
    /\ verdict = None
    /\ changes = 0

Change ==
    /\ changes < MaxChanges
    /\ changes' = changes + 1

(* What happens on the site without this program: a page gets a structure of *)
(* its own, an editor places the component, publishes the draft, pins the    *)
(* component to a version, or adds, moves and removes blocks of it.          *)
WritePage(p, tree) ==
    /\ Change
    /\ pages[p] = EmptyPage
    /\ pages' = [pages EXCEPT ![p].blocks = Mirror(tree, "inline")]
    /\ UNCHANGED <<component, export, payload, verdict>>

Place(p) ==
    /\ Change
    /\ component # None
    /\ pages' = [pages EXCEPT ![p].draft = Mirror(component.tree, "root")]
    /\ UNCHANGED <<component, export, payload, verdict>>

Publish(p) ==
    /\ Change
    /\ pages[p].draft # None
    /\ pages' = [pages EXCEPT ![p] = [blocks |-> pages[p].draft, draft |-> None]]
    /\ UNCHANGED <<component, export, payload, verdict>>

Pin(p, source) ==
    /\ Change
    /\ <<p, source>> \in Used(pages)
    /\ pages[p][source].marks = "root"
    /\ ~pages[p][source].pinned
    /\ pages' = [pages EXCEPT ![p][source].pinned = TRUE]
    /\ UNCHANGED <<component, export, payload, verdict>>

EditLive(c) ==
    /\ Change
    /\ component # None
    /\ c # component
    /\ component' = c
    /\ UNCHANGED <<pages, export, payload, verdict>>

(* ComponentSyncer over every consuming page: each mirror gets the shells of *)
(* the live tree.                                                            *)
SyncPages ==
    LET synced(mirror) == [mirror EXCEPT !.tree = component.tree] IN
    /\ Change
    /\ component # None
    /\ pages' =
        [p \in Pages |->
            [s \in Sources |->
                IF <<p, s>> \in Used(pages) /\ ~pages[p][s].pinned
                THEN synced(pages[p][s]) ELSE pages[p][s]]]
    /\ UNCHANGED <<component, export, payload, verdict>>

(* optimize componentize --apply: the component is composed from one         *)
(* instance, whose blockIds compose() keeps, and every instance becomes a    *)
(* mirror of shells, each of which extends the component; a record that      *)
(* exists is a collision, and instances of another shape are refused.        *)
Instances == {p \in Pages : pages[p].blocks # None /\ pages[p].blocks.marks = "inline"}
Extract(exemplar) ==
    LET tree == pages[exemplar].blocks.tree
        same == {p \in Instances : pages[p].blocks.tree = tree}
    IN
    /\ Change
    /\ component = None
    /\ exemplar \in Instances
    /\ component' = [tree |-> tree, content |-> Texts \cap DOMAIN tree]
    /\ pages' =
        [p \in Pages |->
            IF p \in same THEN [pages[p] EXCEPT !.blocks.marks = "every"] ELSE pages[p]]
    /\ UNCHANGED <<export, payload, verdict>>

-----------------------------------------------------------------------------
(* The read-back, as a file or as a dev-state directory: it may lack the     *)
(* component's file, or the pages.  A verdict is about one export.           *)
Export(withComponent, withPages) ==
    /\ export' =
        [component |-> IF withComponent THEN component ELSE None,
         pages |-> [p \in IF withPages THEN {q \in Pages : pages[q] # EmptyPage} ELSE {} |->
                        pages[p]]]
    /\ verdict' = None
    /\ UNCHANGED <<component, pages, payload, changes>>

Proposed(c, from, sync) ==
    [tree |-> c.tree, content |-> c.content, from |-> from, sync |-> sync]

(* compose: the ids are a function of the component's id and of the path.    *)
(* A revision is of the component in the export, an empty one is refused.    *)
Compose(c) ==
    /\ c.tree \in Composed
    /\ payload' = Proposed(c, None, {})
    /\ verdict' = None
    /\ UNCHANGED <<component, pages, export, changes>>

(* assert_ids_preserved, assert_content_preserved, and what was added. *)
IdsPreserved(before, after) == DOMAIN before.tree \subseteq DOMAIN after.tree
\* Mutant: a block that is carried over is taken to carry its content too.
ContentOfIds(before, after) == before.content \subseteq DOMAIN after.tree
ContentPreserved(before, after) == before.content \subseteq after.content
\* Mutant: only the blocks with content are recorded as additions.
AdditionsWithContent(before, after) == after.content \ DOMAIN before.tree
Additions(before, after) == DOMAIN after.tree \ DOMAIN before.tree

Revise(c, allowAdditions) ==
    /\ export # None
    /\ export.component # None
    /\ IdsPreserved(export.component, c)
    /\ ContentPreserved(export.component, c)
    /\ Additions(export.component, c) # {} => allowAdditions
    /\ payload' = Proposed(c, export.component, Additions(export.component, c))
    /\ verdict' = None
    /\ UNCHANGED <<component, pages, export, changes>>

-----------------------------------------------------------------------------
\* Mutant: a shell is followed although it matches nothing.
FollowsAll(shells, after) == shells
(* _match, for all the shells below one shell. *)
Follows(shells, after) == shells \cap after

(* A call of _compare_children: a shell, the block it is compared with, and  *)
(* whether that block's current children are those of the live component.    *)
Visits(mirror) ==
    [shell : (DOMAIN mirror.tree) \cup {Root}, block : Ids \cup {Root},
     base : {"current", "proposed"}]

(* What is current below a block that was not there before is the proposed   *)
(* block itself.                                                             *)
TreeOf(current, proposed, base) == IF base = "current" THEN current.tree ELSE proposed.tree

(* What a call reports: the shells below one shell against the children of   *)
(* the current and of the proposed block.                                    *)
Reported(current, proposed, mirror, v) ==
    LET shells == Children(mirror.tree, v.shell)
        before == Children(TreeOf(current, proposed, v.base), v.block)
        after == Children(proposed.tree, v.block)
    IN  ({"collapse"} \X ((shells \cap before) \ after))
            \cup ({"pre-existing"} \X (shells \ (before \cup after)))
            \cup ({"unrenderable"} \X (after \ shells))

(* A shell that matches is followed down.                                    *)
VisitsBelow(current, proposed, mirror, v) ==
    LET before == Children(TreeOf(current, proposed, v.base), v.block)
    IN  {[shell |-> n, block |-> n, base |-> IF n \in before THEN v.base ELSE "proposed"] :
            n \in Follows(Children(mirror.tree, v.shell), Children(proposed.tree, v.block))}

(* All that is reported from each visit down.                                *)
Walk(current, proposed, mirror) ==
    LET walk[v \in Visits(mirror)] ==
            Reported(current, proposed, mirror, v)
                \cup UNION {walk[w] : w \in VisitsBelow(current, proposed, mirror, v)}
    IN  walk

(* _compare_children, from every root of the component in the page's tree.   *)
Compared(current, proposed, mirror) ==
    UNION {Walk(current, proposed, mirror)[[shell |-> n, block |-> Root, base |-> "current"]] :
               n \in RootsOf(mirror)}

\* Mutant: draft_blocks is not looked at.
SimulatedBlocks ==
    {at \in Used(export.pages) : ~MirrorAt(export.pages, at).pinned /\ at[2] = "blocks"}
(* A shell pinned to a version resolves against a snapshot. *)
Simulated == {at \in Used(export.pages) : ~MirrorAt(export.pages, at).pinned}

Findings ==
    IF export.component = None THEN {}
    ELSE UNION {{<<found[1], at, found[2]>> :
                    found \in Compared(export.component, payload, MirrorAt(export.pages, at))} :
                at \in Simulated}

(* A component the export lacks is brand new, or the export is incomplete:   *)
(* pages that use it tell the two apart.                                     *)
Incomplete == export.component = None /\ Used(export.pages) # {}

ExitOf(findings) ==
    IF Incomplete \/ DOMAIN export.pages = {} THEN 2
    ELSE IF \E found \in findings : found[1] = "collapse" THEN 1 ELSE 0

Simulate ==
    /\ export # None
    /\ payload # None
    /\ verdict' = [exit |-> ExitOf(Findings), findings |-> Findings]
    /\ UNCHANGED <<component, pages, export, payload, changes>>

\* Mutant: the verdict outlives its payload.
ApplyKeepsVerdict ==
    /\ Change
    /\ payload # None
    /\ component' = [tree |-> payload.tree, content |-> payload.content]
    /\ payload' = None
    /\ UNCHANGED <<pages, export, verdict>>

(* An operator writes the payload: it is created or it replaces the tree. *)
Apply ==
    /\ Change
    /\ payload # None
    /\ component' = [tree |-> payload.tree, content |-> payload.content]
    /\ payload' = None
    /\ verdict' = None
    /\ UNCHANGED <<pages, export>>

Next ==
    \/ \E p \in Pages, tree \in Trees : WritePage(p, tree)
    \/ \E p \in Pages : Place(p) \/ Publish(p) \/ Extract(p)
    \/ \E p \in Pages, source \in Sources : Pin(p, source)
    \/ \E c \in Components : EditLive(c)
    \/ SyncPages
    \/ \E withComponent, withPages \in BOOLEAN : Export(withComponent, withPages)
    \/ \E c \in Components : Compose(c)
    \/ \E c \in Components, allowAdditions \in BOOLEAN : Revise(c, allowAdditions)
    \/ Simulate
    \/ Apply

Spec == Init /\ [][Next]_vars

-----------------------------------------------------------------------------
(* Records of these pages.                                                   *)
PagesOn(some) == [some -> [Sources -> Mirrors \cup {None}]]

(* The records are what the actions take them for, a revision is of a        *)
(* component, and a verdict stands only while its payload and its export do. *)
TypeOK ==
    /\ component \in Components \cup {None}
    /\ pages \in PagesOn(Pages)
    /\ export # None =>
        /\ export.component \in Components \cup {None}
        /\ \E some \in SUBSET Pages : export.pages \in PagesOn(some)
    /\ payload # None =>
        /\ [tree |-> payload.tree, content |-> payload.content] \in Components
        /\ payload.from \in Components \cup {None}
        /\ payload.sync \subseteq DOMAIN payload.tree
    /\ verdict # None => export # None /\ payload # None /\ verdict.exit \in 0 .. 2
    /\ changes \in 0 .. MaxChanges

(* The export is what the site has, but for a component's file that may be   *)
(* missing.                                                                  *)
Fresh ==
    /\ export # None
    /\ export.component \in {None, component}
    /\ export.pages = [p \in {q \in Pages : pages[q] # EmptyPage} |-> pages[p]]

Clean == verdict # None /\ verdict.exit = 0
RevisesLive == component # None /\ payload.from = component
Live == {at \in Used(pages) : ~MirrorAt(pages, at).pinned}

(* A payload that simulates clean against a fresh export takes no block away *)
(* from any page, published or draft: whatever extend_block matched with the *)
(* live component it matches with the payload (simulate.py, simulate).       *)
CleanRunCollapsesNothing ==
    (Clean /\ Fresh /\ component # None) =>
        \A at \in Live :
            Matched(component, MirrorAt(pages, at)) \subseteq Matched(payload, MirrorAt(pages, at))

(* The report is exact on mirrors whose root extends the component: it names *)
(* the topmost shells that lose their block, those that had none either way, *)
(* and the blocks under a rendered one that no shell refers to there.        *)
TopmostOf(some, tree, c, mirror) == {n \in some : tree[n] \in Matched(c, mirror) \cup {Root}}
ReportIsExact ==
    (verdict # None /\ verdict.exit # 2 /\ export.component # None) =>
        \A at \in Used(export.pages) :
            LET mirror == MirrorAt(export.pages, at)
                before == Matched(export.component, mirror)
                after == Matched(payload, mirror)
                Said(kind) == {n \in Ids : <<kind, at, n>> \in verdict.findings}
            IN  (mirror.marks = "root" /\ ~mirror.pinned) =>
                /\ Said("collapse") = TopmostOf(before \ after, mirror.tree, payload, mirror)
                /\ Said("pre-existing") =
                    TopmostOf(DOMAIN mirror.tree \ (before \cup after), mirror.tree, payload, mirror)
                /\ Said("unrenderable") =
                    TopmostOf(DOMAIN payload.tree \ after, payload.tree, payload, mirror)

(* A revision that simulates clean leaves every page the content it shows    *)
(* (TRAP-002: components.py, assert_content_preserved).                      *)
RevisionKeepsContent ==
    (Clean /\ Fresh /\ RevisesLive) =>
        \A at \in Live :
            Shown(component, MirrorAt(pages, at)) \subseteq Shown(payload, MirrorAt(pages, at))

(* After a clean revision that asks for no ComponentSyncer pass, a page that *)
(* rendered the whole component still renders the whole of it: the simulator *)
(* lets an addition pass, so the revision has to have named it (components.py,*)
(* assert_additions_acknowledged).                                           *)
Whole(c, mirror) == Matched(c, mirror) = DOMAIN c.tree
WholePagesStayWhole ==
    (Clean /\ Fresh /\ RevisesLive /\ payload.sync = {}) =>
        \A at \in Live :
            Whole(component, MirrorAt(pages, at)) => Whole(payload, MirrorAt(pages, at))

(* What revise says of itself: it refuses the revisions that break pages,    *)
(* when it is given the component as it is live.  A block that is moved      *)
(* keeps its id and its content, and loses its shell.                        *)
ReviseKeepsPages ==
    (Fresh /\ payload # None /\ RevisesLive /\ payload.sync = {}) =>
        \A at \in Live :
            Matched(component, MirrorAt(pages, at)) \subseteq Matched(payload, MirrorAt(pages, at))
=============================================================================
