--------------------------- MODULE SandboxProofs ---------------------------
(***************************************************************************)
(* The sandbox, for any commits, sites, exports and builds:                *)
(*   - "Sandbox ready" is only printed of a bench at the pins;             *)
(*   - an adopt without problems leaves what the export has on the routes  *)
(*     it was served at;                                                   *)
(*   - a verified rehearsal has missed nothing that dev serves;            *)
(*   - a rehearsal of a capture, with nothing in between, never fails.     *)
(***************************************************************************)
EXTENDS SandboxUp, DevRoundTrip, FiniteSetTheorems, TLAPS

\* A fresh machine: no stage has run.
LEMMA UpInitIInv == UpInit => UpIInv
<1> SUFFICES ASSUME UpInit PROVE UpIInv
    OBVIOUS
<1>1. site \in BOOLEAN /\ installed \in BOOLEAN
  BY Zenon DEF UpInit
<1>2. pc = "idle"
  BY DEF UpInit
<1>3. UpTypeOK
  BY SandboxAssumption, <1>1 DEF UpInit, UpTypeOK
<1>4. PinnedSoFar /\ ReadyMeansPinned
  BY <1>2 DEF PinnedSoFar, ReadyMeansPinned, Stages
<1> QED
  BY <1>3, <1>4 DEF UpIInv

\* What the stages before have established survives every later stage, every
\* failure and every move of the pins.
LEMMA UpNextIInv == UpIInv /\ [UpNext]_upVars => UpIInv'
<1> SUFFICES ASSUME UpIInv, [UpNext]_upVars PROVE UpIInv'
    OBVIOUS
<1> USE SandboxAssumption DEF UpIInv, UpTypeOK, PinnedSoFar, ReadyMeansPinned
<1>1. CASE UNCHANGED upVars
  BY <1>1 DEF upVars, bench
<1>2. CASE MovePins
  BY <1>2 DEF MovePins, bench
<1>3. CASE Destroy
  <2>1. site' \in BOOLEAN /\ installed' \in BOOLEAN
    BY <1>3, Zenon DEF Destroy
  <2>2. pc' = "idle"
    BY <1>3 DEF Destroy
  <2>3. UpTypeOK'
    BY <1>3, <2>1 DEF Destroy
  <2>4. (PinnedSoFar /\ ReadyMeansPinned)'
    BY <2>2 DEF Stages
  <2> QED
    BY <2>3, <2>4
<1>4. CASE Start
  BY <1>4 DEF Start, Stages, Running, bench
<1>5. CASE Fail
  BY <1>5 DEF Fail, Stages, bench
<1>6. CASE Up
  <2> USE DEF Stage, Stages, bench
  <2>1. CASE InitBench
    BY <2>1 DEF InitBench
  <2>2. CASE PinFrappe
    BY <2>2 DEF PinFrappe, Pins
  <2>3. CASE Requirements
    BY <2>3 DEF Requirements
  <2>4. CASE FrappeIsPinned
    BY <2>4 DEF FrappeIsPinned
  <2>5. CASE GetBuilder
    BY <2>5 DEF GetBuilder
  <2>6. CASE BuilderMoved
    BY <2>6 DEF BuilderMoved
  <2>7. CASE BuilderIsPinned
    BY <2>7 DEF BuilderIsPinned
  <2>8. CASE PinBuilder
    BY <2>8 DEF PinBuilder, Pins
  <2>9. CASE Build
    BY <2>9 DEF Build
  <2>10. CASE NewSite
    BY <2>10 DEF NewSite
  <2>11. CASE Install
    BY <2>11 DEF Install
  <2>12. CASE Migrate
    BY <2>12 DEF Migrate, Pins
  <2>13. CASE Settings
    BY <2>13 DEF Settings
  <2> QED
    BY <1>6, <2>1, <2>2, <2>3, <2>4, <2>5, <2>6, <2>7, <2>8, <2>9, <2>10,
       <2>11, <2>12, <2>13 DEF Up
<1> QED
  BY <1>1, <1>2, <1>3, <1>4, <1>5, <1>6 DEF UpNext

\* The inductive invariant: types, and what each stage has established.
THEOREM SandboxInvariance == UpSpec => []UpIInv
BY UpInitIInv, UpNextIInv, PTL DEF UpSpec

\* Whatever earlier runs left behind, a run that says "Sandbox ready" has
\* brought code, site and schema to the pins it read.
THEOREM ReadySandboxIsPinned == UpSpec => []ReadyMeansPinned
<1>1. UpIInv => ReadyMeansPinned
  BY DEF UpIInv
<1> QED
  BY SandboxInvariance, <1>1, PTL

---------------------------------------------------------------------------
(***************************************************************************)
(* The dev site.  An edit, an adopt, a load, a capture and a rehearsal     *)
(* each put partial functions over one another; what they return is proved *)
(* first, then that every site has its type, then the three promises.  The *)
(* first two follow from the step that ends the command, because every     *)
(* other command withdraws the verdict; the third needs what an            *)
(* undisturbed capture has left in dev-state/ (CalmInv).                   *)
(***************************************************************************)

\* What the sites' edits return: partial functions stay partial functions.
LEMMA EmptyPartial ==
  ASSUME NEW S, NEW T
  PROVE  IsPartial(Empty, S, T)
BY DEF IsPartial, Empty

LEMMA OverPartial ==
  ASSUME NEW S, NEW T, NEW f, NEW g, IsPartial(f, S, T), IsPartial(g, S, T)
  PROVE  IsPartial(Over(f, g), S, T)
BY DEF IsPartial, Over

LEMMA PutPartial ==
  ASSUME NEW S, NEW T, NEW f, IsPartial(f, S, T), NEW x \in S, NEW y \in T
  PROVE  IsPartial(Put(f, x, y), S, T)
<1>1. IsPartial([k \in {x} |-> y], S, T)
  BY DEF IsPartial
<1> QED
  BY <1>1, OverPartial DEF Put

LEMMA RestrictPartial ==
  ASSUME NEW S, NEW T, NEW f, IsPartial(f, S, T), NEW D, D \subseteq DOMAIN f
  PROVE  IsPartial(Restrict(f, D), S, T)
BY DEF IsPartial, Restrict

\* Nothing is restricted away, and nothing is put over nothing.
LEMMA RestrictToDomain ==
  ASSUME NEW f, f = [x \in DOMAIN f |-> f[x]]
  PROVE  Restrict(f, DOMAIN f) = f
BY DEF Restrict

LEMMA OverEmpty ==
  ASSUME NEW f, f = [x \in DOMAIN f |-> f[x]]
  PROVE  Over(f, Empty) = f
<1>1. DOMAIN Empty = {} /\ DOMAIN f \cup {} = DOMAIN f
  BY DEF Empty
<1>2. Over(f, Empty) = [x \in DOMAIN f |-> f[x]]
  BY <1>1 DEF Over
<1> QED
  BY <1>2

LEMMA SiteOf ==
  ASSUME NEW p, NEW c, NEW v, IsPartial(p, Names, Page),
         IsPartial(c, Components, Contents), IsPartial(v, Variables, Contents)
  PROVE  IsSite([pages |-> p, components |-> c, variables |-> v])
BY DEF IsSite

LEMMA SetPages ==
  ASSUME NEW s, IsSite(s), NEW p, IsPartial(p, Names, Page)
  PROVE  /\ IsSite([s EXCEPT !.pages = p])
         /\ [s EXCEPT !.pages = p].pages = p
         /\ [s EXCEPT !.pages = p].components = s.components
         /\ [s EXCEPT !.pages = p].variables = s.variables
BY DEF IsSite

LEMMA SetComponents ==
  ASSUME NEW s, IsSite(s), NEW c, IsPartial(c, Components, Contents)
  PROVE  IsSite([s EXCEPT !.components = c])
BY DEF IsSite

LEMMA SetVariables ==
  ASSUME NEW s, IsSite(s), NEW v, IsPartial(v, Variables, Contents)
  PROVE  IsSite([s EXCEPT !.variables = v])
BY DEF IsSite

LEMMA SiteParts ==
  ASSUME NEW s, IsSite(s)
  PROVE  /\ IsPartial(s.pages, Names, Page)
         /\ IsPartial(s.components, Components, Contents)
         /\ IsPartial(s.variables, Variables, Contents)
BY DEF IsSite

---------------------------------------------------------------------------

\* What an adopted site holds.
AdoptedSite(failed) ==
    [pages |-> Over(Restrict(export.pages, DOMAIN export.pages \ failed), dev.pages),
     components |-> Over(Restrict(export.components, DOMAIN export.components \ failed),
                         dev.components),
     variables |-> Over(Restrict(export.variables, DOMAIN export.variables \ failed),
                        dev.variables)]

LEMMA AdoptedSiteType ==
  ASSUME IsSite(dev), IsSite(export), NEW failed
  PROVE  IsSite(AdoptedSite(failed))
<1> USE SiteParts, RestrictPartial, OverPartial
<1>1. IsPartial(Over(Restrict(export.pages, DOMAIN export.pages \ failed), dev.pages),
                Names, Page)
  OBVIOUS
<1>2. IsPartial(Over(Restrict(export.components, DOMAIN export.components \ failed),
                     dev.components), Components, Contents)
  OBVIOUS
<1>3. IsPartial(Over(Restrict(export.variables, DOMAIN export.variables \ failed),
                     dev.variables), Variables, Contents)
  OBVIOUS
<1> QED
  BY <1>1, <1>2, <1>3, SiteOf DEF AdoptedSite

LEMMA AdoptType ==
  ASSUME TypeOK, export # None, NEW failed, NEW prune, Adopt(failed, prune)
  PROVE  IsSite(dev')
<1>1. IsSite(dev) /\ IsSite(export)
  BY DEF TypeOK
<1> DEFINE merged == AdoptedSite(failed)
           collisions == Collisions(merged, DOMAIN export.pages \ failed)
<1>2. IsSite(merged) /\ IsPartial(merged.pages, Names, Page)
  BY <1>1, AdoptedSiteType, SiteParts
<1>3. dev' = IF prune
             THEN [merged EXCEPT !.pages = Restrict(@, DOMAIN @ \ collisions)]
             ELSE merged
  BY DEF Adopt, AdoptedSite
<1> HIDE DEF merged, collisions
<1>4. IsPartial(Restrict(merged.pages, DOMAIN merged.pages \ collisions), Names, Page)
  BY <1>2, RestrictPartial
<1> QED
  BY <1>2, <1>3, <1>4, SetPages

LEMMA LoadType ==
  ASSUME TypeOK, NEW build \in Builds,
         NEW fresh \in Injection(DOMAIN build.pages, Names \ DOMAIN dev.pages),
         Load(build, fresh)
  PROVE  IsSite(dev')
<1>1. IsSite(dev) /\ IsBuild(build)
  BY RoundTripAssumption DEF TypeOK
<1> DEFINE old == {n \in DOMAIN dev.pages :
                      dev.pages[n].route \in DOMAIN build.pages}
           new == [n \in {fresh[r] : r \in DOMAIN build.pages} |->
                      LET r == CHOOSE r \in DOMAIN build.pages : fresh[r] = n
                      IN AsPublished(r, build.pages[r])]
           pages == Over(new, Restrict(dev.pages, DOMAIN dev.pages \ old))
           components == Over(build.components, dev.components)
<1>2. dev' = [dev EXCEPT !.pages = pages, !.components = components]
  BY DEF Load
<1>3. IsPartial(new, Names, Page)
  <2>1. DOMAIN new \subseteq Names
    BY DEF Injection
  <2>2. ASSUME NEW n \in DOMAIN new PROVE new[n] \in Page
    <3> DEFINE r == CHOOSE r \in DOMAIN build.pages : fresh[r] = n
    <3>1. r \in DOMAIN build.pages
      OBVIOUS
    <3>2. new[n] = AsPublished(r, build.pages[r])
      OBVIOUS
    <3> HIDE DEF r, new
    <3>3. /\ r \in Routes
          /\ build.pages[r] \in PageSays
      BY <1>1, <3>1 DEF IsBuild, IsPartial
    <3> QED
      BY <3>2, <3>3 DEF AsPublished, Page, PageSays
  <2>3. new = [n \in DOMAIN new |-> new[n]]
    OBVIOUS
  <2> HIDE DEF new
  <2> QED
    BY <2>1, <2>2, <2>3 DEF IsPartial
<1> HIDE DEF new, old
<1>4. IsPartial(pages, Names, Page)
  BY <1>1, <1>3, SiteParts, RestrictPartial, OverPartial
<1>5. IsPartial(components, Components, Contents)
  BY <1>1, SiteParts, OverPartial DEF IsBuild
<1> HIDE DEF pages, components
<1>6. dev' = [pages |-> pages, components |-> components, variables |-> dev.variables]
  BY <1>1, <1>2 DEF IsSite
<1> QED
  BY <1>1, <1>4, <1>5, <1>6, SiteOf, SiteParts

LEMMA EditType ==
  ASSUME TypeOK, EditDev
  PROVE  IsSite(dev')
<1>1. IsSite(dev)
  BY DEF TypeOK
<1>2. CASE \E n \in Names, p \in Written :
              dev' = [dev EXCEPT !.pages = Put(@, n, p)]
  <2>1. PICK n \in Names, p \in Written :
                 dev' = [dev EXCEPT !.pages = Put(@, n, p)]
    BY <1>2
  <2>2. IsPartial(Put(dev.pages, n, p), Names, Page)
    BY <1>1, SiteParts, PutPartial, RoundTripAssumption
  <2> QED
    BY <1>1, <2>1, <2>2, SetPages
<1>3. CASE \E n \in DOMAIN dev.pages :
              dev' = [dev EXCEPT !.pages = Restrict(@, DOMAIN @ \ {n})]
  <2>1. PICK n \in DOMAIN dev.pages :
                dev' = [dev EXCEPT !.pages = Restrict(@, DOMAIN @ \ {n})]
    BY <1>3
  <2>2. IsPartial(Restrict(dev.pages, DOMAIN dev.pages \ {n}), Names, Page)
    BY <1>1, SiteParts, RestrictPartial
  <2> QED
    BY <1>1, <2>1, <2>2, SetPages
<1>4. CASE \E c \in Components, x \in Contents :
              dev' = [dev EXCEPT !.components = Put(@, c, x)]
  <2>1. PICK c \in Components, x \in Contents :
                 dev' = [dev EXCEPT !.components = Put(@, c, x)]
    BY <1>4
  <2>2. IsPartial(Put(dev.components, c, x), Components, Contents)
    BY <1>1, SiteParts, PutPartial
  <2> QED
    BY <1>1, <2>1, <2>2, SetComponents
<1>5. CASE \E v \in Variables, x \in Contents :
              dev' = [dev EXCEPT !.variables = Put(@, v, x)]
  <2>1. PICK v \in Variables, x \in Contents :
                 dev' = [dev EXCEPT !.variables = Put(@, v, x)]
    BY <1>5
  <2>2. IsPartial(Put(dev.variables, v, x), Variables, Contents)
    BY <1>1, SiteParts, PutPartial
  <2> QED
    BY <1>1, <2>1, <2>2, SetVariables
<1>6. CASE \E v \in DOMAIN dev.variables :
              dev' = [dev EXCEPT !.variables = Restrict(@, DOMAIN @ \ {v})]
  <2>1. PICK v \in DOMAIN dev.variables :
                dev' = [dev EXCEPT !.variables = Restrict(@, DOMAIN @ \ {v})]
    BY <1>6
  <2>2. IsPartial(Restrict(dev.variables, DOMAIN dev.variables \ {v}),
                  Variables, Contents)
    BY <1>1, SiteParts, RestrictPartial
  <2> QED
    BY <1>1, <2>1, <2>2, SetVariables
<1> QED
  BY <1>2, <1>3, <1>4, <1>5, <1>6 DEF EditDev

\* dev-state/ as TypeOK has it.
StateOK ==
    /\ state = [pages |-> state.pages, components |-> state.components,
                tokens |-> state.tokens, manifest |-> state.manifest]
    /\ IsPartial(state.pages, Names, Page)
    /\ IsPartial(state.components, Components, Contents)
    /\ state.tokens # None => IsPartial(state.tokens, Variables, Contents)
    /\ staged \/ state.manifest # None => state.manifest.routes \subseteq Routes

\* A capture changes the data of pages, and nothing else of them.
LEMMA CapturedPages ==
  ASSUME NEW pages, IsPartial(pages, Names, Page)
  PROVE  /\ IsPartial(Captured(pages), Names, Page)
         /\ DOMAIN Captured(pages) = DOMAIN pages
         /\ \A n \in DOMAIN pages :
               /\ Captured(pages)[n].route = pages[n].route
               /\ Captured(pages)[n].published = pages[n].published
               /\ Captured(pages)[n].content = pages[n].content
               /\ Captured(pages)[n].uses = pages[n].uses
<1>1. \A n \in DOMAIN pages : pages[n] \in Page
  BY DEF IsPartial
<1>2. \A n \in DOMAIN pages :
         /\ [pages[n] EXCEPT !.data = None] \in Page
         /\ [pages[n] EXCEPT !.data = None].route = pages[n].route
         /\ [pages[n] EXCEPT !.data = None].published = pages[n].published
         /\ [pages[n] EXCEPT !.data = None].content = pages[n].content
         /\ [pages[n] EXCEPT !.data = None].uses = pages[n].uses
  BY <1>1 DEF Page
<1> QED
  BY <1>2 DEF Captured, IsPartial

LEMMA CaptureType ==
  ASSUME TypeOK, Capture
  PROVE  StateOK'
<1>1. IsSite(dev)
  BY DEF TypeOK
<1>2. /\ state'.pages = Captured(dev.pages) /\ state'.components = dev.components
      /\ state'.tokens = dev.variables /\ state'.manifest = Manifest(dev)
      /\ state' = [pages |-> state'.pages, components |-> state'.components,
                   tokens |-> state'.tokens, manifest |-> state'.manifest]
  BY DEF Capture
<1>3. Manifest(dev).routes \subseteq Routes
  <2>1. \A n \in DOMAIN dev.pages : dev.pages[n].route \in Routes
    BY <1>1 DEF IsSite, IsPartial, Page
  <2> QED
    BY <2>1 DEF Manifest
<1> QED
  BY <1>1, <1>2, <1>3, SiteParts, CapturedPages DEF StateOK

LEMMA KillUnlinkType ==
  ASSUME TypeOK, NEW pages \in SUBSET DOMAIN state.pages,
         NEW components \in SUBSET DOMAIN state.components,
         KillUnlink(pages, components)
  PROVE  StateOK' /\ state'.manifest = state.manifest
<1>1. StateOK
  BY DEF TypeOK, StateOK
<1>2. /\ state'.pages = Restrict(state.pages, pages)
      /\ state'.components = Restrict(state.components, components)
      /\ state'.tokens = state.tokens /\ state'.manifest = state.manifest
      /\ state' = [pages |-> state'.pages, components |-> state'.components,
                   tokens |-> state'.tokens, manifest |-> state'.manifest]
  BY <1>1 DEF KillUnlink, StateOK
<1>3. /\ IsPartial(state'.pages, Names, Page)
      /\ IsPartial(state'.components, Components, Contents)
  BY <1>1, <1>2, RestrictPartial DEF StateOK
<1> QED
  BY <1>1, <1>2, <1>3 DEF StateOK, KillUnlink

LEMMA KillCaptureType ==
  ASSUME TypeOK, NEW pages \in SUBSET DOMAIN dev.pages,
         NEW components \in SUBSET DOMAIN dev.components, NEW tokens \in BOOLEAN,
         KillCapture(pages, components, tokens)
  PROVE  StateOK' /\ state'.manifest = state.manifest
<1>1. IsSite(dev) /\ StateOK
  BY DEF TypeOK, StateOK
<1>2. /\ state'.pages = Restrict(Captured(dev.pages), pages)
      /\ state'.components = Restrict(dev.components, components)
      /\ state'.tokens = IF tokens THEN dev.variables ELSE state.tokens
      /\ state'.manifest = state.manifest
      /\ state' = [pages |-> state'.pages, components |-> state'.components,
                   tokens |-> state'.tokens, manifest |-> state'.manifest]
  BY <1>1 DEF KillCapture, StateOK
<1>3. /\ IsPartial(state'.pages, Names, Page)
      /\ IsPartial(state'.components, Components, Contents)
  BY <1>1, <1>2, SiteParts, CapturedPages, RestrictPartial
<1>4. state'.tokens # None => IsPartial(state'.tokens, Variables, Contents)
  BY <1>1, <1>2, SiteParts DEF StateOK
<1> QED
  BY <1>1, <1>2, <1>3, <1>4 DEF StateOK, KillCapture

LEMMA ApplyType ==
  ASSUME TypeOK, RehearseApply
  PROVE  IsSite(scratch')
<1>1. IsSite(scratch) /\ StateOK
  BY DEF TypeOK, StateOK
<1>2. /\ Wiped(scratch).pages = Empty /\ Wiped(scratch).components = Empty
  BY <1>1 DEF Wiped, IsSite
<1>3. scratch' = [pages |-> Over(state.pages, Empty),
                  components |-> Over(state.components, Empty),
                  variables |-> Over(scratch.variables, state.tokens)]
  BY <1>2 DEF RehearseApply, Applied
<1>4. /\ IsPartial(Over(state.pages, Empty), Names, Page)
      /\ IsPartial(Over(state.components, Empty), Components, Contents)
  BY <1>1, EmptyPartial, OverPartial DEF StateOK
<1>5. IsPartial(Over(scratch.variables, state.tokens), Variables, Contents)
  BY <1>1, SiteParts, OverPartial DEF StateOK, RehearseApply
<1> QED
  BY <1>3, <1>4, <1>5, SiteOf

LEMMA CheckRoundtripType ==
  ASSUME TypeOK, CheckRoundtrip
  PROVE  IsSite(scratch')
<1>1. IsSite(scratch)
  BY DEF TypeOK
<1>2. scratch' = [pages |-> scratch.pages, components |-> Empty, variables |-> Empty]
  BY <1>1 DEF CheckRoundtrip, IsSite
<1> QED
  BY <1>1, <1>2, SiteOf, SiteParts, EmptyPartial

\* The rest of the type invariant.
RestOK ==
    /\ export = None \/ IsSite(export)
    /\ staged \in BOOLEAN
    /\ calm \in {"no", "captured", "staged"}
    /\ last \in {"none", "problems", "adopted", "failed", "unchecked", "verified"}
    /\ compared \subseteq Routes
    /\ changes \in 0..MaxChanges

LEMMA TypeParts == TypeOK <=> IsSite(dev) /\ IsSite(scratch) /\ StateOK /\ RestOK
BY DEF TypeOK, StateOK, RestOK

LEMMA Bound == MaxChanges \in Nat
BY RoundTripAssumption

LEMMA TypeInit == Init => TypeOK
<1> SUFFICES ASSUME Init PROVE TypeOK
  OBVIOUS
<1>1. IsSite(EmptySite)
  BY SiteOf, EmptyPartial DEF EmptySite
<1>2. StateOK
  BY EmptyPartial DEF StateOK, Init
<1>3. /\ staged \in BOOLEAN /\ calm = "no" /\ last = "none"
      /\ changes = 0 /\ export = None /\ compared = {}
  BY DEF Init
<1>4. RestOK
  BY <1>3, Bound DEF RestOK
<1> QED
  BY <1>1, <1>2, <1>4, TypeParts DEF Init

LEMMA TypeStep == TypeOK /\ [Next]_vars => TypeOK'
<1> SUFFICES ASSUME TypeOK, [Next]_vars PROVE TypeOK'
  OBVIOUS
<1>1. IsSite(dev) /\ IsSite(scratch) /\ StateOK /\ RestOK
  BY TypeParts
<1>2. SUFFICES IsSite(dev') /\ IsSite(scratch') /\ StateOK' /\ RestOK'
  BY DEF TypeOK, StateOK, RestOK
<1>3. CASE UNCHANGED vars
  <2>1. IsSite(dev')
    BY <1>1, <1>3 DEF vars
  <2>2. IsSite(scratch')
    BY <1>1, <1>3 DEF vars
  <2>3. StateOK'
    BY <1>1, <1>3 DEF vars, StateOK
  <2>4. RestOK'
    BY <1>1, <1>3, Bound DEF vars, RestOK
  <2> QED
    BY <2>1, <2>2, <2>3, <2>4
<1>4. CASE EditDev
  <2>1. IsSite(dev')
    BY <1>1, <1>4, EditType
  <2>2. IsSite(scratch')
    BY <1>1, <1>4 DEF EditDev, DevChanges
  <2>3. StateOK'
    BY <1>1, <1>4 DEF EditDev, DevChanges, StateOK
  <2>4. RestOK'
    BY <1>1, <1>4, Bound DEF EditDev, DevChanges, RestOK, Ends
  <2> QED
    BY <2>1, <2>2, <2>3, <2>4
<1>5. CASE HandOver
  <2>1. IsSite(dev')
    BY <1>1, <1>5 DEF HandOver
  <2>2. IsSite(scratch')
    BY <1>1, <1>5 DEF HandOver
  <2>3. StateOK'
    BY <1>1, <1>5 DEF HandOver, StateOK
  <2>4. RestOK'
    BY <1>1, <1>5, RoundTripAssumption DEF HandOver, RestOK, Ends
  <2> QED
    BY <2>1, <2>2, <2>3, <2>4
<1>6. ASSUME export # None, NEW failed, NEW prune \in BOOLEAN, Adopt(failed, prune)
      PROVE  IsSite(dev') /\ IsSite(scratch') /\ StateOK' /\ RestOK'
  <2>1. IsSite(dev')
    BY <1>1, <1>6, AdoptType
  <2>2. IsSite(scratch')
    BY <1>1, <1>6 DEF Adopt, DevChanges
  <2>3. StateOK'
    BY <1>1, <1>6 DEF Adopt, DevChanges, StateOK
  <2>4. RestOK'
    BY <1>1, <1>6, Bound DEF Adopt, DevChanges, RestOK, Ends
  <2> QED
    BY <2>1, <2>2, <2>3, <2>4
<1>7. ASSUME NEW build \in Builds,
             NEW fresh \in Injection(DOMAIN build.pages, Names \ DOMAIN dev.pages),
             Load(build, fresh)
      PROVE  IsSite(dev') /\ IsSite(scratch') /\ StateOK' /\ RestOK'
  <2>1. IsSite(dev')
    BY <1>1, <1>7, LoadType
  <2>2. IsSite(scratch')
    BY <1>1, <1>7 DEF Load, DevChanges
  <2>3. StateOK'
    BY <1>1, <1>7 DEF Load, DevChanges, StateOK
  <2>4. RestOK'
    BY <1>1, <1>7, Bound DEF Load, DevChanges, RestOK, Ends
  <2> QED
    BY <2>1, <2>2, <2>3, <2>4
<1>8. CASE Capture
  <2>1. IsSite(dev')
    BY <1>1, <1>8 DEF Capture
  <2>2. IsSite(scratch')
    BY <1>1, <1>8 DEF Capture
  <2>3. StateOK'
    BY <1>1, <1>8, CaptureType
  <2>4. RestOK'
    BY <1>1, <1>8, Bound DEF Capture, RestOK, Ends
  <2> QED
    BY <2>1, <2>2, <2>3, <2>4
<1>9. ASSUME NEW pages \in SUBSET DOMAIN dev.pages,
             NEW components \in SUBSET DOMAIN dev.components, NEW tokens \in BOOLEAN,
             KillCapture(pages, components, tokens)
      PROVE  IsSite(dev') /\ IsSite(scratch') /\ StateOK' /\ RestOK'
  <2>1. IsSite(dev')
    BY <1>1, <1>9 DEF KillCapture
  <2>2. IsSite(scratch')
    BY <1>1, <1>9 DEF KillCapture
  <2>3. StateOK'
    BY <1>1, <1>9, KillCaptureType
  <2>4. RestOK'
    BY <1>1, <1>9, Bound DEF KillCapture, RestOK, Ends
  <2> QED
    BY <2>1, <2>2, <2>3, <2>4
<1>10. CASE RehearseApply
  <2>1. IsSite(dev')
    BY <1>1, <1>10 DEF RehearseApply
  <2>2. IsSite(scratch')
    BY <1>1, <1>10, ApplyType
  <2>3. StateOK'
    BY <1>1, <1>10 DEF RehearseApply, StateOK
  <2>4. RestOK'
    BY <1>1, <1>10, Bound DEF RehearseApply, RestOK, Ends
  <2> QED
    BY <2>1, <2>2, <2>3, <2>4
<1>11. CASE RehearseCompare
  <2>1. IsSite(dev')
    BY <1>1, <1>11 DEF RehearseCompare
  <2>2. IsSite(scratch')
    BY <1>1, <1>11 DEF RehearseCompare
  <2>3. StateOK'
    BY <1>1, <1>11 DEF RehearseCompare, StateOK
  <2>4. RestOK'
    <3>1. staged => Public \subseteq Routes
      BY <1>1 DEF StateOK, Public
    <3> QED
      BY <1>1, <1>11, <3>1, Bound DEF RehearseCompare, RestOK, Ends
  <2> QED
    BY <2>1, <2>2, <2>3, <2>4
<1>12. CASE CheckRoundtrip
  <2>1. IsSite(dev')
    BY <1>1, <1>12 DEF CheckRoundtrip
  <2>2. IsSite(scratch')
    BY <1>1, <1>12, CheckRoundtripType
  <2>3. StateOK'
    BY <1>1, <1>12 DEF CheckRoundtrip, StateOK
  <2>4. RestOK'
    BY <1>1, <1>12, Bound DEF CheckRoundtrip, RestOK, Ends
  <2> QED
    BY <2>1, <2>2, <2>3, <2>4
<1>13. ASSUME NEW pages \in SUBSET DOMAIN state.pages,
              NEW components \in SUBSET DOMAIN state.components,
              KillUnlink(pages, components)
       PROVE  IsSite(dev') /\ IsSite(scratch') /\ StateOK' /\ RestOK'
  <2>1. IsSite(dev')
    BY <1>1, <1>13 DEF KillUnlink
  <2>2. IsSite(scratch')
    BY <1>1, <1>13 DEF KillUnlink
  <2>3. StateOK'
    BY <1>1, <1>13, KillUnlinkType
  <2>4. RestOK'
    BY <1>1, <1>13, Bound DEF KillUnlink, RestOK, Ends
  <2> QED
    BY <2>1, <2>2, <2>3, <2>4
<1> QED
  BY <1>3, <1>4, <1>5, <1>6, <1>7, <1>8, <1>9, <1>10, <1>11, <1>12, <1>13 DEF Next

\* Types, for all exports and builds the operations project may hand over.
THEOREM DevTypeCorrect == Spec => []TypeOK
BY TypeInit, TypeStep, PTL DEF Spec

---------------------------------------------------------------------------

\* An adopt without problems: no record failed, and every page at a route of
\* the export that is not its own is gone.
LEMMA AdoptServes ==
  ASSUME IsSite(dev), IsSite(export), NEW failed, NEW prune,
         Adopt(failed, prune), last' = "adopted"
  PROVE  AdoptedIsServed'
<1> DEFINE merged == AdoptedSite(failed)
           collisions == Collisions(merged, DOMAIN export.pages \ failed)
<1>1. /\ dev' = IF prune
                THEN [merged EXCEPT !.pages = Restrict(@, DOMAIN @ \ collisions)]
                ELSE merged
      /\ last' = IF Problems(failed, prune, collisions) THEN "problems"
                 ELSE "adopted"
      /\ export' = export
  BY DEF Adopt, AdoptedSite, Ends
<1>2. failed = {} /\ (prune \/ collisions = {})
  BY <1>1 DEF Problems
<1>3. IsSite(merged) /\ IsPartial(merged.pages, Names, Page)
  BY AdoptedSiteType, SiteParts
<1>4. /\ merged.pages = Over(export.pages, dev.pages)
      /\ merged.components = Over(export.components, dev.components)
      /\ merged.variables = Over(export.variables, dev.variables)
  <2>1. \A f : DOMAIN f \ failed = DOMAIN f
    BY <1>2
  <2>2. /\ Restrict(export.pages, DOMAIN export.pages) = export.pages
        /\ Restrict(export.components, DOMAIN export.components) = export.components
        /\ Restrict(export.variables, DOMAIN export.variables) = export.variables
    BY RestrictToDomain, SiteParts DEF IsPartial
  <2> QED
    BY <2>1, <2>2 DEF AdoptedSite
<1>5. DOMAIN export.pages \ failed = DOMAIN export.pages
  BY <1>2
<1>6. collisions = Collisions(merged, DOMAIN export.pages)
  BY <1>5
<1> HIDE DEF merged, collisions
<1>7. /\ dev'.pages = Restrict(merged.pages, DOMAIN merged.pages \ collisions)
      /\ dev'.components = merged.components
      /\ dev'.variables = merged.variables
  <2>1. CASE prune
    <3>1. IsPartial(Restrict(merged.pages, DOMAIN merged.pages \ collisions), Names, Page)
      BY <1>3, RestrictPartial
    <3> QED
      BY <1>1, <1>3, <2>1, <3>1, SetPages
  <2>2. CASE collisions = {}
    <3>1. DOMAIN merged.pages \ collisions = DOMAIN merged.pages
      BY <2>2
    <3>2. Restrict(merged.pages, DOMAIN merged.pages) = merged.pages
      BY <1>3, RestrictToDomain DEF IsPartial
    <3>3. CASE prune
      BY <2>1, <3>3
    <3>4. CASE ~prune
      BY <1>1, <3>1, <3>2, <3>4
    <3> QED
      BY <3>3, <3>4
  <2> QED
    BY <1>2, <2>1, <2>2
<1>8. ASSUME NEW n \in DOMAIN export.pages
      PROVE  /\ n \notin collisions
             /\ n \in DOMAIN dev'.pages
             /\ dev'.pages[n] = export.pages[n]
  <2>1. n \notin collisions
    BY <1>6 DEF Collisions
  <2>2. n \in DOMAIN merged.pages /\ merged.pages[n] = export.pages[n]
    BY <1>4 DEF Over
  <2> QED
    BY <1>7, <2>1, <2>2 DEF Restrict
<1>9. ASSUME NEW n \in DOMAIN export.pages, export.pages[n].published,
             PublishedAt(export, export.pages[n].route) = {n}
      PROVE  Views(dev', export.pages[n].route) = {Rendered(dev', n)}
  <2> DEFINE route == export.pages[n].route
  <2>1. n \in PublishedAt(dev', route)
    BY <1>8, <1>9 DEF PublishedAt
  <2>2. ASSUME NEW m \in PublishedAt(dev', route) PROVE m = n
    <3>1. m \in DOMAIN merged.pages /\ m \notin collisions /\ dev'.pages[m] = merged.pages[m]
      BY <1>7 DEF PublishedAt, Restrict
    <3>2. m \in PublishedAt(merged, route)
      BY <3>1 DEF PublishedAt
    <3>3. merged.pages[n].route = route
      BY <1>4 DEF Over
    <3>4. m \in DOMAIN export.pages
      BY <1>6, <3>1, <3>2, <3>3 DEF Collisions
    <3>5. m \in PublishedAt(export, route)
      BY <1>8, <3>4 DEF PublishedAt
    <3> QED
      BY <1>9, <3>5
  <2>3. PublishedAt(dev', route) = {n}
    BY <2>1, <2>2
  <2> QED
    BY <2>3 DEF Views
<1>10. ASSUME NEW n \in DOMAIN export.pages
       PROVE  Rendered(export, n) \subseteq Rendered(dev', n)
  <2>1. dev'.pages[n] = export.pages[n]
    BY <1>8
  <2>2. \A c \in DOMAIN export.components :
           c \in DOMAIN dev'.components /\ dev'.components[c] = export.components[c]
    BY <1>4, <1>7 DEF Over
  <2>3. \A v \in DOMAIN export.variables :
           v \in DOMAIN dev'.variables /\ dev'.variables[v] = export.variables[v]
    BY <1>4, <1>7 DEF Over
  <2> QED
    BY <2>1, <2>2, <2>3 DEF Rendered
<1> QED
  BY <1>1, <1>9, <1>10 DEF AdoptedIsServed

\* The manifest lists the routes of the pages it has hashed.
ManifestInv ==
    staged \/ state.manifest # None =>
        state.manifest.routes = {m[1] : m \in DOMAIN state.manifest.hash.pages}

\* What an undisturbed capture and rehearsal hold.
CalmInv ==
    /\ calm # "no" =>
          state = [pages |-> Captured(dev.pages), components |-> dev.components,
                   tokens |-> dev.variables, manifest |-> Manifest(dev)]
    /\ calm = "staged" /\ staged =>
          /\ scratch.pages = Captured(dev.pages)
          /\ scratch.components = dev.components
          /\ DOMAIN dev.variables \subseteq DOMAIN scratch.variables
          /\ Agree(dev.variables, scratch.variables)

\* The inductive invariant.
DevIInv ==
    TypeOK /\ ManifestInv /\ CalmInv /\ AdoptedIsServed /\ VerifiedMissesNothing

\* What a manifest lists is what it hashes.
LEMMA RoutesOfManifest ==
  ASSUME NEW s
  PROVE  Manifest(s).routes = {m[1] : m \in DOMAIN Manifest(s).hash.pages}
<1> DEFINE material(n) == <<s.pages[n].route, s.pages[n].content, s.pages[n].uses>>
<1>1. DOMAIN Manifest(s).hash.pages = {material(n) : n \in DOMAIN s.pages}
  BY DEF Manifest, Hash
<1>2. \A n \in DOMAIN s.pages : material(n)[1] = s.pages[n].route
  OBVIOUS
<1> HIDE DEF material
<1>3. {m[1] : m \in {material(n) : n \in DOMAIN s.pages}}
        = {s.pages[n].route : n \in DOMAIN s.pages}
  BY <1>2
<1>4. Manifest(s).routes = {s.pages[n].route : n \in DOMAIN s.pages}
  BY DEF Manifest
<1> QED
  BY <1>1, <1>3, <1>4

\* A site with the hash of the manifest has pages on its routes, and no other.
LEMMA SameHashSameRoutes ==
  ASSUME ManifestInv, staged, Hash(dev) = state.manifest.hash
  PROVE  {dev.pages[n].route : n \in DOMAIN dev.pages} = state.manifest.routes
<1>1. Manifest(dev).hash = Hash(dev)
      /\ Manifest(dev).routes = {dev.pages[n].route : n \in DOMAIN dev.pages}
  BY DEF Manifest
<1> QED
  BY <1>1, RoutesOfManifest DEF ManifestInv

\* A public route dev serves is among those the rehearsal goes through.
LEMMA PublicIsListed ==
  ASSUME ManifestInv, staged,
         Hash(dev) = state.manifest.hash,
         NEW r \in Routes \ Templates, PublishedAt(dev, r) # {}
  PROVE  r \in Public
<1>1. PICK n \in DOMAIN dev.pages : dev.pages[n].route = r
  BY DEF PublishedAt
<1> QED
  BY <1>1, SameHashSameRoutes DEF Public

LEMMA VerifiedStep ==
  ASSUME ManifestInv, RehearseCompare
  PROVE  VerifiedMissesNothing'
<1> SUFFICES ASSUME last' = "verified", Hash(dev') = state'.manifest.hash
             PROVE  (\A r \in Routes \ Templates :
                       PublishedAt(dev, r) # {} =>
                         /\ r \in Public
                         /\ r \in compared =>
                              \E d \in Views(dev, r), s \in Views(scratch, r) :
                                 d \subseteq s)'
  BY DEF VerifiedMissesNothing
<1>1. UNCHANGED <<dev, scratch, state>> /\ staged
  BY DEF RehearseCompare
<1>2. PICK whole \in SUBSET Public, failing \in SUBSET Public :
         /\ \A r \in Public :
               \E d \in Fetches(dev, r), f \in Fetches(scratch, r) :
                  /\ r \in whole <=> d.whole /\ f.whole
                  /\ r \in failing <=> Missing(d.shows, f.shows) # {}
         /\ compared' = whole /\ failing = {}
  BY DEF RehearseCompare, Ends
<1>3. ASSUME NEW r \in whole
      PROVE  \E d \in Views(dev, r), s \in Views(scratch, r) : d \subseteq s
  <2>1. PICK d \in Fetches(dev, r), f \in Fetches(scratch, r) :
           /\ d.whole /\ f.whole
           /\ d.shows \ f.shows = {}
    BY <1>2, <1>3 DEF Missing
  <2>2. d.shows \in Views(dev, r) /\ f.shows \in Views(scratch, r)
    BY <2>1 DEF Fetches
  <2> QED
    BY <2>1, <2>2
<1>4. \A r \in Routes \ Templates : PublishedAt(dev, r) # {} => r \in Public
  BY <1>1, PublicIsListed
<1> QED
  BY <1>1, <1>2, <1>3, <1>4 DEF Public

---------------------------------------------------------------------------

\* Applying an undisturbed capture gives the scratch site what dev has.
LEMMA ApplyIsCalm ==
  ASSUME TypeOK, CalmInv, RehearseApply, calm' = "staged"
  PROVE  /\ scratch'.pages = Captured(dev.pages)
         /\ scratch'.components = dev.components
         /\ DOMAIN dev.variables \subseteq DOMAIN scratch'.variables
         /\ Agree(dev.variables, scratch'.variables)
<1>1. IsSite(scratch) /\ IsSite(dev)
  BY DEF TypeOK
<1>2. /\ calm # "no" /\ Agree(scratch.variables, state.tokens)
      /\ scratch' = Applied(scratch)
  BY DEF RehearseApply
<1>3. /\ state.pages = Captured(dev.pages) /\ state.components = dev.components
      /\ state.tokens = dev.variables
  BY <1>2 DEF CalmInv
<1>4. Wiped(scratch).pages = Empty /\ Wiped(scratch).components = Empty
  BY <1>1 DEF Wiped, IsSite
<1>5. /\ scratch'.pages = Over(Captured(dev.pages), Empty)
      /\ scratch'.components = Over(dev.components, Empty)
      /\ scratch'.variables = Over(scratch.variables, dev.variables)
  BY <1>2, <1>3, <1>4 DEF Applied
<1>6. /\ Over(Captured(dev.pages), Empty) = Captured(dev.pages)
      /\ Over(dev.components, Empty) = dev.components
  BY <1>1, SiteParts, CapturedPages, OverEmpty DEF IsPartial
<1>7. /\ DOMAIN dev.variables \subseteq DOMAIN scratch'.variables
      /\ Agree(dev.variables, scratch'.variables)
  BY <1>2, <1>3, <1>5 DEF Over, Agree
<1> QED
  BY <1>5, <1>6, <1>7

\* A scratch site that holds what a capture of dev holds shows what dev shows,
\* but for the data of pages.
LEMMA CalmPasses ==
  ASSUME TypeOK, CalmInv PROVE CalmMissesDataOnly
<1> SUFFICES ASSUME calm = "staged", staged,
                    \A r \in Routes : Cardinality(PublishedAt(dev, r)) <= 1,
                    NEW r \in Public,
                    NEW d \in Views(dev, r), NEW s \in Views(scratch, r)
             PROVE  \A x \in d \ s : x[1] = "data"
  BY DEF CalmMissesDataOnly
<1>1. IsSite(dev) /\ IsFiniteSet(Names)
  BY RoundTripAssumption DEF TypeOK
<1>2. /\ scratch.pages = Captured(dev.pages)
      /\ scratch.components = dev.components
      /\ DOMAIN dev.variables \subseteq DOMAIN scratch.variables
      /\ Agree(dev.variables, scratch.variables)
  BY DEF CalmInv
<1>3. r \in Routes
  <2>1. r \in Manifest(dev).routes
    BY DEF Public, CalmInv
  <2> QED
    BY <1>1, <2>1 DEF Manifest, IsSite, IsPartial, Page
<1>7. /\ DOMAIN scratch.pages = DOMAIN dev.pages
      /\ \A n \in DOMAIN dev.pages :
            /\ scratch.pages[n].route = dev.pages[n].route
            /\ scratch.pages[n].published = dev.pages[n].published
            /\ scratch.pages[n].content = dev.pages[n].content
            /\ scratch.pages[n].uses = dev.pages[n].uses
  BY <1>1, <1>2, SiteParts, CapturedPages
<1>4. PublishedAt(scratch, r) = PublishedAt(dev, r)
  BY <1>7 DEF PublishedAt
<1>5. CASE PublishedAt(dev, r) = {}
  BY <1>4, <1>5 DEF Views
<1>6. CASE PublishedAt(dev, r) # {}
  <2>1. PICK n \in PublishedAt(dev, r), m \in PublishedAt(dev, r) :
                d = Rendered(dev, n) /\ s = Rendered(scratch, m)
    BY <1>4, <1>6 DEF Views
  <2>2. n = m
    <3>1. PublishedAt(dev, r) \subseteq Names
      BY <1>1 DEF IsSite, IsPartial, PublishedAt
    <3>2. IsFiniteSet(PublishedAt(dev, r))
      BY <1>1, <3>1, FS_Subset
    <3>3. /\ {n, m} \subseteq PublishedAt(dev, r)
          /\ Cardinality({n, m}) <= Cardinality(PublishedAt(dev, r))
      BY <3>2, FS_Subset
    <3>4. Cardinality({n, m}) <= 1
      <4>1. Cardinality(PublishedAt(dev, r)) <= 1
        BY <1>3
      <4>2. /\ Cardinality(PublishedAt(dev, r)) \in Nat
            /\ Cardinality({n, m}) \in Nat
        BY <3>2, <3>3, FS_Subset, FS_CardinalityType
      <4> QED
        BY <3>3, <4>1, <4>2
    <3>5. n # m => Cardinality({n, m}) = 2
      <4> SUFFICES ASSUME n # m PROVE Cardinality({n, m}) = 2
        OBVIOUS
      <4>1. Cardinality({m}) = 1 /\ IsFiniteSet({m})
        BY FS_Singleton
      <4>2. Cardinality({m} \cup {n}) = Cardinality({m}) + 1
        BY <4>1, FS_AddElement
      <4>3. {m} \cup {n} = {n, m}
        OBVIOUS
      <4> QED
        BY <4>1, <4>2, <4>3
    <3> QED
      BY <3>4, <3>5
  <2>3. ASSUME NEW x \in Rendered(dev, n), x \notin Rendered(scratch, n)
        PROVE  x[1] = "data"
    <3>1. x # <<"page", dev.pages[n].content>>
      BY <1>7, <2>3 DEF Rendered, PublishedAt
    <3>2. ASSUME NEW c \in {dev.pages[n].uses} \cap DOMAIN dev.components
          PROVE  x # <<"component", c, dev.components[c]>>
      BY <1>2, <1>7, <2>3 DEF Rendered, PublishedAt
    <3>3. ASSUME NEW v \in DOMAIN dev.variables
          PROVE  x # <<"variable", v, dev.variables[v]>>
      BY <1>2, <2>3 DEF Rendered, Agree
    <3>4. x = <<"data", dev.pages[n].data>>
      BY <3>1, <3>2, <3>3 DEF Rendered
    <3> QED
      BY <3>4
  <2> QED
    BY <2>1, <2>2, <2>3
<1> QED
  BY <1>5, <1>6

LEMMA DevInit == Init => DevIInv
<1> SUFFICES ASSUME Init PROVE DevIInv
  OBVIOUS
<1>1. /\ state.manifest = None /\ ~staged /\ calm = "no" /\ last = "none"
  BY DEF Init
<1> QED
  BY <1>1, TypeInit
     DEF DevIInv, ManifestInv, CalmInv, AdoptedIsServed, VerifiedMissesNothing

LEMMA DevStep == DevIInv /\ [Next]_vars => DevIInv'
<1> SUFFICES ASSUME DevIInv, [Next]_vars PROVE DevIInv'
  OBVIOUS
<1>1. TypeOK'
  BY TypeStep DEF DevIInv
<1>2. SUFFICES (ManifestInv /\ CalmInv /\ AdoptedIsServed /\ VerifiedMissesNothing)'
  BY <1>1 DEF DevIInv
<1> USE DEF DevIInv, Ends
<1>3. CASE UNCHANGED vars
  <2>1. ManifestInv'
    BY <1>3 DEF vars, ManifestInv
  <2>2. CalmInv'
    BY <1>3 DEF vars, CalmInv
  <2>3. AdoptedIsServed'
    BY <1>3 DEF vars, AdoptedIsServed
  <2>4. VerifiedMissesNothing'
    BY <1>3 DEF vars, VerifiedMissesNothing, Public
  <2> QED
    BY <2>1, <2>2, <2>3, <2>4
<1>4. CASE EditDev
  <2>1. ManifestInv'
    BY <1>4 DEF EditDev, DevChanges, ManifestInv
  <2>2. CalmInv'
    BY <1>4 DEF EditDev, DevChanges, CalmInv
  <2>3. AdoptedIsServed'
    BY <1>4 DEF EditDev, DevChanges, AdoptedIsServed
  <2>4. VerifiedMissesNothing'
    BY <1>4 DEF EditDev, DevChanges, VerifiedMissesNothing
  <2> QED
    BY <2>1, <2>2, <2>3, <2>4
<1>5. CASE HandOver
  <2>1. ManifestInv'
    BY <1>5 DEF HandOver, ManifestInv
  <2>2. CalmInv'
    BY <1>5 DEF HandOver, CalmInv
  <2>3. AdoptedIsServed'
    BY <1>5 DEF HandOver, AdoptedIsServed
  <2>4. VerifiedMissesNothing'
    BY <1>5 DEF HandOver, VerifiedMissesNothing
  <2> QED
    BY <2>1, <2>2, <2>3, <2>4
<1>6. ASSUME export # None, NEW failed, NEW prune \in BOOLEAN, Adopt(failed, prune)
      PROVE  (ManifestInv /\ CalmInv /\ AdoptedIsServed /\ VerifiedMissesNothing)'
  <2>1. ManifestInv'
    BY <1>6 DEF Adopt, DevChanges, ManifestInv
  <2>2. CalmInv'
    BY <1>6 DEF Adopt, DevChanges, CalmInv
  <2>3. AdoptedIsServed'
    <3>1. CASE last' = "adopted"
      BY <1>6, <3>1, AdoptServes DEF TypeOK
    <3> QED
      BY <3>1 DEF AdoptedIsServed
  <2>4. VerifiedMissesNothing'
    BY <1>6 DEF Adopt, DevChanges, VerifiedMissesNothing
  <2> QED
    BY <2>1, <2>2, <2>3, <2>4
<1>7. ASSUME NEW build \in Builds,
             NEW fresh \in Injection(DOMAIN build.pages, Names \ DOMAIN dev.pages),
             Load(build, fresh)
      PROVE  (ManifestInv /\ CalmInv /\ AdoptedIsServed /\ VerifiedMissesNothing)'
  <2>1. ManifestInv'
    BY <1>7 DEF Load, DevChanges, ManifestInv
  <2>2. CalmInv'
    BY <1>7 DEF Load, DevChanges, CalmInv
  <2>3. AdoptedIsServed'
    BY <1>7 DEF Load, DevChanges, AdoptedIsServed
  <2>4. VerifiedMissesNothing'
    BY <1>7 DEF Load, DevChanges, VerifiedMissesNothing
  <2> QED
    BY <2>1, <2>2, <2>3, <2>4
<1>8. CASE Capture
  <2>1. ManifestInv'
    BY <1>8, RoutesOfManifest DEF Capture, ManifestInv
  <2>2. CalmInv'
    <3>1. state' = [pages |-> Captured(dev.pages), components |-> dev.components,
                   tokens |-> dev.variables, manifest |-> Manifest(dev)]
          /\ dev' = dev /\ staged' = staged /\ calm' = "captured"
      BY <1>8 DEF Capture
    <3> QED
      BY <3>1 DEF CalmInv
  <2>3. AdoptedIsServed'
    BY <1>8 DEF Capture, AdoptedIsServed
  <2>4. VerifiedMissesNothing'
    BY <1>8 DEF Capture, VerifiedMissesNothing
  <2> QED
    BY <2>1, <2>2, <2>3, <2>4
<1>9. ASSUME NEW pages \in SUBSET DOMAIN dev.pages,
             NEW components \in SUBSET DOMAIN dev.components, NEW tokens \in BOOLEAN,
             KillCapture(pages, components, tokens)
      PROVE  (ManifestInv /\ CalmInv /\ AdoptedIsServed /\ VerifiedMissesNothing)'
  <2>0. state'.manifest = state.manifest
    BY <1>9, KillCaptureType
  <2>1. ManifestInv'
    BY <1>9, <2>0 DEF KillCapture, ManifestInv
  <2>2. CalmInv'
    BY <1>9, <2>0 DEF KillCapture, CalmInv
  <2>3. AdoptedIsServed'
    BY <1>9 DEF KillCapture, AdoptedIsServed
  <2>4. VerifiedMissesNothing'
    BY <1>9 DEF KillCapture, VerifiedMissesNothing
  <2> QED
    BY <2>1, <2>2, <2>3, <2>4
<1>10. CASE RehearseApply
  <2>1. ManifestInv'
    BY <1>10 DEF RehearseApply, ManifestInv
  <2>2. CalmInv'
    BY <1>10, ApplyIsCalm DEF RehearseApply, CalmInv
  <2>3. AdoptedIsServed'
    BY <1>10 DEF RehearseApply, AdoptedIsServed
  <2>4. VerifiedMissesNothing'
    BY <1>10 DEF RehearseApply, VerifiedMissesNothing
  <2> QED
    BY <2>1, <2>2, <2>3, <2>4
<1>11. CASE RehearseCompare
  <2>1. ManifestInv'
    BY <1>11 DEF RehearseCompare, ManifestInv
  <2>2. CalmInv'
    BY <1>11 DEF RehearseCompare, CalmInv
  <2>3. AdoptedIsServed'
    BY <1>11 DEF RehearseCompare, AdoptedIsServed
  <2>4. VerifiedMissesNothing'
    BY <1>11, VerifiedStep
  <2> QED
    BY <2>1, <2>2, <2>3, <2>4
<1>12. CASE CheckRoundtrip
  <2>1. ManifestInv'
    BY <1>12 DEF CheckRoundtrip, ManifestInv
  <2>2. CalmInv'
    BY <1>12 DEF CheckRoundtrip, CalmInv
  <2>3. AdoptedIsServed'
    BY <1>12 DEF CheckRoundtrip, AdoptedIsServed
  <2>4. VerifiedMissesNothing'
    BY <1>12 DEF CheckRoundtrip, VerifiedMissesNothing
  <2> QED
    BY <2>1, <2>2, <2>3, <2>4
<1>13. ASSUME NEW pages \in SUBSET DOMAIN state.pages,
              NEW components \in SUBSET DOMAIN state.components,
              KillUnlink(pages, components)
       PROVE  (ManifestInv /\ CalmInv /\ AdoptedIsServed /\ VerifiedMissesNothing)'
  <2>0. state'.manifest = state.manifest
    BY <1>13, KillUnlinkType
  <2>1. ManifestInv'
    BY <1>13, <2>0 DEF KillUnlink, ManifestInv
  <2>2. CalmInv'
    BY <1>13, <2>0 DEF KillUnlink, CalmInv
  <2>3. AdoptedIsServed'
    BY <1>13 DEF KillUnlink, AdoptedIsServed
  <2>4. VerifiedMissesNothing'
    BY <1>13 DEF KillUnlink, VerifiedMissesNothing
  <2> QED
    BY <2>1, <2>2, <2>3, <2>4
<1> QED
  BY <1>3, <1>4, <1>5, <1>6, <1>7, <1>8, <1>9, <1>10, <1>11, <1>12, <1>13 DEF Next

\* The inductive invariant of the dev site and the rehearsal.
THEOREM DevInvariance == Spec => []DevIInv
BY DevInit, DevStep, PTL DEF Spec

\* After an adopt that reports no problem, each published page of the export
\* is the one page its route serves, with its component and its variables,
\* whatever was on the dev site before (adopt).
THEOREM AdoptIsSafe == Spec => []AdoptedIsServed
<1>1. DevIInv => AdoptedIsServed
  BY DEF DevIInv
<1> QED
  BY DevInvariance, <1>1, PTL

\* When publish-verify says "verified" and the content hash of dev is the
\* manifest's, every public page of dev is on a route the rehearsal went
\* through, and nothing is missing of those both sites had answered: what it
\* can miss is a page of which a fetch failed, also after kills in the middle
\* of a capture (publish_verify, capture_dev).
THEOREM VerifyIsSafe == Spec => []VerifiedMissesNothing
<1>1. DevIInv => VerifiedMissesNothing
  BY DEF DevIInv
<1> QED
  BY DevInvariance, <1>1, PTL

\* A rehearsal that nothing has disturbed since the capture reproduces all of
\* dev but what page_data_script puts there, which no capture holds, unless
\* routes are shared or the scratch site has another value for one of the
\* variables (capture_dev, publish_verify).
THEOREM CalmIsSafe == Spec => []CalmMissesDataOnly
<1>1. DevIInv => CalmMissesDataOnly
  BY CalmPasses DEF DevIInv
<1> QED
  BY DevInvariance, <1>1, PTL

=============================================================================
