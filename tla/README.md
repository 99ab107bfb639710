# Buildsmith in TLA+

Buildsmith clones a website into Frappe Builder records on a local sandbox,
optimises those records without changing what they render, and gates what it
did before anything reaches a live site.  This directory models the parts of
it where order, interruption and stale files matter, model-checks them with
TLC and proves with TLAPS every invariant and action property the passing runs
check.

Paths below are relative to the repository; `buildsmith/` is the package.

## 1. Inventory

| part | state it keeps | operations | what is hard about it |
|---|---|---|---|
| **Optimize pipeline and gate ledger** (`workflows/optimize/{gates,baseline,oracle,collapse}.py`, the apply halves of `tokenize`, `fonts`, `componentize`; `tools/capture_dev.py`) | `sites/<site>/opt`: `gates.json`, the baseline (checkpoint, screenshots, manifest), reports; the records on the bench | `optimize baseline`, four applies, `optimize oracle` | every command is a chain of file and bench writes that can stop anywhere; the ledger is loaded, changed and saved without a lock; the checkpoint is compared once and used later |
| **Proposal files** (the mining halves of `tokenize`, `fonts`, `componentize`) | `opt/proposals/*.json` with human decisions and minted uuids | mine, decide, apply, re-mine | a re-mine must not lose a decision or the ownership of a record |
| **Token plan** (`primitives/tokens.py`) | the site's token manifest; Builder Variables on the site | plan, apply, assert_in_sync, pull | plan and apply must converge; operations that fail half-way |
| **Component shells** (`primitives/{blocks,components,template,repeater,maps,datapage}.py`, `tools/simulate.py`) | block trees, components and the shells that extend them | compose, extend, revise, override_shells | ids shared between shell and component: a page collapses when they stop matching |
| **Dev-state round trip** (`tools/{capture_dev,load_dev,adopt,check_roundtrip,publish_verify}.py`) | `sites/<site>/dev-state`, `live-export`, the bench's records and its page cache | capture, load, adopt, prune, rehearse | deletes and inserts per record, caches cleared after the commit, a failure in the middle |
| **Sandbox lifecycle** (`tools/sandbox.py`, `sandbox/`) | compose project, pins, bench volume | up, down, status, destroy, run_bench | a build that fails between two steps and is started again |
| **Replicate** (`workflows/replicate/*`) | crawl queue, pages on disk, features, generated records | crawl, extract, build | a frontier with a cap, redirects, failures; name collisions |
| **Theme build** (`workflows/theme/build.py`) | `build/` | compile a theme | slug collisions, files of an earlier build |
| **Frappe client** (`tools/frappe_client.py`) | one HTTP session | get, insert, update, worker check | retries; a check cached for the life of the client |
| **Command line, exit codes, hooks** (`cli.py`, `errors.py`, `tools/{guard,precommit,prepush,secretscan,hooks,audit}.py`) | none but exit codes | every command; git hooks | "could not check" must never read as success or as a problem |
| **Records about records** (`tools/{validate,schemagen,docgen,conformance,handoff,drift,golive,journal,check_traps}.py`, `optimize/status.py`) | reports, journal, generated docs | generate and compare | mostly pure functions over files |
| **Pixels** (`optimize/png.py`, `optimize/shots.py`, `tools/{clone_diff,visual_check}.py`) | images | shoot, decode, diff | Playwright and image arithmetic |

How they meet: the command line starts every operation; the optimize
pipeline reads hosts through `capture_dev` and writes them through
`sandbox.run_bench`; `check_roundtrip` asks the gate ledger
(`gates.any_pending`) before it wipes a bench; tokenize and componentize read
the proposal files that people edit; the dev-state tools replace the records
the optimize pipeline has checkpointed.

What makes each part correct, in one line each: an unproven change never
becomes the reference (pipeline); a decision survives (proposals); applying a
plan leaves nothing to apply (tokens); a shell always finds its component
block (components); what was captured is what a load restores (round trip); a
second `up` repairs what a failed one left (sandbox); every route is crawled,
skipped with a reason or beyond the cap (crawl); exit 0 means checked (hooks).

## 2. The modules

| module | what it is |
|---|---|
| `OptimizeGate` | the optimize pipeline: one action per file or bench write of each command, people editing the hosts, and the command being killed between any two writes |
| `ProofLedger` | what the gate ledger of one site promises, without files, commands or interruptions |
| `TokenProposals` | `proposals/tokens.json` and the Builder Variables minted from it: mine, decide, apply, mine again |
| `ShapeProposals` | `proposals/components.json` and the components extracted from it |
| `SandboxUp` | `buildsmith sandbox up` as a chain of stages that can end after any of them and is run again |
| `ThemeTokens` | `design/tokens.json`, the variables of a themed site, the map read back from them, the plan between, and the references a build composes |
| `DevRoundTrip` | the dev site between an export and a publish: adopt, load, edits, capture, and the rehearsal on the scratch site |
| `SiteCrawl` | the crawl of a source site that changes meanwhile: queue, seen, cap, skips, and the account the crawl gives of them |
| `SiteClone` | `buildsmith clone` around it: save, fetch assets, convert what is on disk, emit, load; kills; `load`; `drift` |
| `ComponentShells` | one component, the mirrors of shells on the pages that use it, compose and revise, the simulator's verdict, and editors who go on working |
| `TrapCheck` | `buildsmith check`: the fixtures of `check_traps` in the shared sandbox, `check_simulate`, `check_roundtrip` and its second site |
| `CommitGate` | the git hooks: worktree, index, history and object store, the overrides and the tools that may be missing, commit, push and audit |
| `Verify` | `buildsmith verify` and what it joins: conformance, clone diff, visual check; validate, handoff and go-live |
| `Checks` | `TrapCheck`, `CommitGate` and `Verify` side by side |
| `MCOptimizeGate`, `MCTokenProposals`, `MCShapeProposals`, `MCSandboxUp`, `MCThemeTokens`, `MCDevRoundTrip`, `MCSiteClone`, `MCComponentShells`, `MCChecks` | the small sets TLC runs with |
| `OptimizeGateProofs` | the theorems about `OptimizeGate`, and that it implements `ProofLedger` |
| `TokenProposalsProofs`, `ShapeProposalsProofs`, `ThemeTokensProofs`, `ComponentShellsProofs`, `ChecksProofs` | the theorems about the modules they are named after, with the lemmas they rest on |
| `SiteCloneProofs` | the theorems about `SiteCrawl` and `SiteClone` |
| `SandboxProofs` | the theorems about `SandboxUp` and `DevRoundTrip` |

The pipeline and the proposal files meet in the apply: `OptimizeGate` has what
an apply does to the ledger, the checkpoint and the host for all four
transforms, and leaves out what it rewrites; `TokenProposals` and
`ShapeProposals` have what is rewritten and why, and leave out the ledger.
Their `Baseline` is the checkpoint half of a baseline, taken whenever nobody
is in the middle of an apply, whether or not the gate would let it through.

### OptimizeGate

*State.*  `live[t]` is what the records of host `t` carry, as a set of
changes; each change says whether it sits in a variable or in a block tree, on
which routes it shows, and whether a person or a transform made it.  Equal
sets have equal content hashes (`capture_dev._content_hash`); `served[t]` are
the routes that answer 200, of which the hash says nothing.  `Look` is what the
screenshot of a route shows; `TreesOf` what a checkpoint's page files hold.
`shots[s][r]` is the baseline's screenshot of route `r`, of the page or of an
error, if there is one; the manifest has the routes captured.  `ledger`,
`trees`, `hash`, `shots` and `manifest` are the files of one site, a variable
each, because a command can stop between any two of them.  `pc[o]` and
`job[o]` are the running command of operator `o`: where it stands and what it
has read.  `judged` in an entry is history: the routes whose pages the passing
verdict had compared.

*Commands.*  `baseline` is `PassGate` (or `ForceGate`, `SaveWaiver`),
`CapturePages`, `CaptureManifest`, `WipeShots`, `Shoot`, `WriteManifest`: the
routes that answer 200 are captured and shot one by one, the others are skipped
and left out of the manifest (`baseline.py:198-210`).  An
apply is `StaleCheck`, then `LoadLedger` and `SaveEntry` (`gates.record_apply`
before the first mutation), `Mint` for tokenize, `WriteBack`, and the oracle;
`NothingToDo` and `NoReplacement` are the early ends.  The oracle is
`RunOracle`, `LoadVerdict`, `SaveVerdict`: it re-shoots and compares the routes
of the manifest and no others, and with none of them nothing differs
(`oracle.py:70-119`).  With `--clone`, `--threshold` or
`--tolerance` it ends in `PrintVerdict`.  Every load and every save of the
ledger is a step of its own because nothing locks the file.  Refusals,
`CouldNotCheck`, failures and a killed process are all `Abort`: what was
written stays.

*What is promised.*  The oracle is blind where the baseline skipped a route.
A change that shows only there is marked `ok`, and a later baseline, taken when
the route answers, shoots it.  So the invariants (`UnprovenNeverAbsorbed`,
`DirtyHostIsKnown`) and the promise `ProofLedger` name this case, `Unlooked`: a
change may be in the reference, or on the host without an open entry, when it
was waived or when its verdict had no picture of that route.  There is no other
way, under `Disciplined`, which is an assumption about who runs commands
where, and which nothing in the code enforces.

*Abstractions.*  Content is a set of changes, so that "hash equal" and "looks
the same" are set equalities; a screenshot comparison is exact, so differences
below the pixel threshold, which could add up over several baselines, are out
of reach.  The oracle shoots and compares in one step.  A route has one
screenshot: viewports are left out, and so are routes that share a file name
(`shots.py:33`: `a/b` and `a--b`, the root and `home`), of which one overwrites
the other's.  A save of the ledger
is one step because the code writes a temporary file and renames it.
Reports, journal lines and the per-entry baseline hash are left out.

*Bounds.*  `MaxChanges` caps the changes made in one behaviour.  Two are enough
for an apply to meet an edit, a waived change or another apply.  TLC has one
operator with a site and a host, since under `Disciplined` two of them share
nothing, and one route, which is captured or not and served or not as the run
goes on: routes do not interact.  The theorems are about any number of each.

*Deadlock.*  It is not checked: when the changes are used up and no operator
starts a command, the system may stop.

### ProofLedger

An apply records an entry under a new id; the host changes, and what a route
newly shows belongs to an entry that is open, waived, or was proved without a
look at that route; entries are proved on the strength of some routes that have
a reference and show no open change, maybe of none; the reference is replaced,
or lost for a while, only while nothing is open.  `KeepsPromise` maps each site
of `OptimizeGate` to it: entries to (id, status, judged), `shown` to the
transforms' changes visible on the site's hosts, `covered` and `reference` to
the screenshots, route by route.

### TokenProposals

*State.*  `trees` and `variables` are the host; `checkpoint` the baseline;
`file` the proposals by colour, each with the name and status people gave it
and the uuid of the variable minted for it.  `origin` is history: which colour
each variable was minted for, or that a person created it.  A style value is a
literal colour with or without a reference; a block tree is the set of its
style values.

*Actions.*  People edit trees, create, change and delete variables, and decide
on proposals, also while an apply runs.  `Mine(routes)` is `tokenize --mine`
with a route filter.  An apply is `StartApply` (the refusals of
`accepted_mapping` and the staleness guard), `Mint` (`ensure_variables`, one
script with one commit; a collision is reported after the commit), `Persist`
(the uuids into the file), `Rewrite` (the write-back of the selected trees),
with `Kill` in between.

*Abstractions.*  A value holds one colour; occurrences, routes listed under
`where` and the final check that references resolve are left out.  A minted
variable that was deleted ends the script on the bench before its commit,
which is a `Kill`.

*Bounds.*  `MaxEdits` caps what people do in the Builder UI (deciding is free),
`MaxVariables` the variables ever created.  `Palette` says which colours occur
where.  One edit is enough to meet every window of one apply, two variables to
confuse two tokens.

### ShapeProposals

*State.*  `nodes[b]` is the block with id `b`: shape and content signature, or
a shell that extends a component, or nothing.  `file` has the proposals by
shape and the `orphaned` decisions; `ready` what the running apply extracts.

*Actions.*  `Mine(routes)`, then people name and accept; `StartApply` (the
guards, and for each accepted shape whether all instances are found and
alike), `Write` (one transaction: collision, or components, shells and the
checkpoint's version of every page touched), `MarkApplied`, `Kill`.

*Abstractions.*  What is inside a candidate is not modelled, so neither is the
pruning of nested candidates: one value stands for the flat list of signatures
that `_content_signature` makes of a tree, what it extends included.  Where two
trees have that list and differ in children, `override_shells` refuses and the
apply ends before its entry and its write (`components.py:569`).
`MinOccurrences` is 3 in the code and smaller in the run, so that two blocks are
enough.  `orphaned` is a set: the code appends to a list.

*Bounds.*  One shape, whose blocks have either of two contents; two names.
`find_candidates` passes over shells, but an apply does not ask whether the
instances of an older proposal have become shells since: with the second name
the run extracts the shells a killed apply has left.

### SandboxUp

*State.*  The pins, the commits of the two checkouts, what the Python
requirements and the assets were built for, the site, whether Builder is
installed, the schema, and the stage of the running `up` with the pins it
read.

*Actions.*  One per stage, with its check whether it already ran; `Fail` after
any stage; `MovePins` and `Destroy` by people.

*Abstractions.*  A command in the container does all of its work or none: what
`up`'s own second try at `bench new-site` (`sandbox.py:207-215`) takes for
granted.  A half-made directory that a later run takes for a finished stage is
therefore out of sight, and listed as a hazard without a property.

*Fairness.*  `FairSpec` says that a stage under way comes to its end
(`subprocess.run` without a timeout returns), that somebody invokes `up` again
after it stopped (the module says it is meant to be), and that stages fail
only finitely often.  Without the last, nothing is promised.

### ThemeTokens

*State.*  `manifest` (intent), `live` (the Builder Variables, by uuid), `map`
(`tokens-applied.json`), `plan` (`build/token-plan.json`), `todo` (the plan
being applied), `refs` (the references in the last build's payloads).  `pace`
is history: whether the map is up to date, and whether the plan was made from
such a map, is being applied, and was read back.

*Actions.*  `Build` is `build_site` and `write`: the refusals of
`Manifest.from_dict` and `_diff`, the plan, the references.  `EditManifest`
and `EditVariable` are people.  `StartApply`, `ApplyOne`, `StopApply` and
`ReadBack` are the operations project, which is another repository: they do
what the plan's operations say and what `Applied` expects to find.  A variable
is tied to its key by its label alone, so `ReadBack` may choose among
variables that share one.

*Abstractions.*  A token's value, dark value and group are model values; the
component specs are the set `Used` of the keys they refer to, and all of a
build is one step.  An empty string as dark value is outside the domain: the
code would plan the same `set_dark_value` for it again and again.

*Bounds.*  `MaxEdits` caps the edits of manifest and site, `MaxVariables` the
variables.  Three edits are a token, a change of it, and a second token or a
change at the site; two variables are enough to confuse.  `MCTokens` differs
from its first token in each field once, and in several.

### DevRoundTrip

*State.*  `dev` and `scratch` are the records of the two sites; `export` the
export handed over; `state` the four parts of `dev-state/`.  `staged` says that
a rehearsal has been applied and not yet compared, `last` how the last command
ended.  A page has a content, which stands for the fields a capture names
(`PAGE_FIELDS`, `capture_dev.py:118`), and `data`, for one it does not: its data
script, which a build sets and an adopt copies.  `calm` is history: that nothing
happened since a complete capture, or since the rehearsal of it; so is
`compared`: the routes of which both fetches of the rehearsal succeeded.

*Actions.*  `Adopt(failed, prune)` is one script with one commit in which any
records may fail; `Load` replaces the pages at the routes of a build, under
new names; `Capture`, which drops `data`, `KillUnlink` and `KillCapture` for one
that stops while it unlinks the old files or after some of the new ones;
`RehearseApply` and `RehearseCompare`, between which the dev site may change.
`Fetches` is what curl may print: the page, or an error page, a part of it or
nothing, because neither its return code nor the status is read
(`publish_verify.py:173-179`); `CheckRoundtrip` for what `check_roundtrip` wipes.

*Abstractions.*  What a visitor gets is the contents of the page, its
component and all variables, and what its data script shows; where two
published pages share a route it may be either.  A file that is half-written
when a capture is killed is left out.  Draft blocks, the home page, assets, project folders, client scripts
and Builder's page cache are left out; so is `is_template`, by which adopt
narrows the export.

*Bounds.*  `MaxChanges` caps edits, adopts and loads together.  Three are
enough to fill the dev site, change it and change it back, with captures and
rehearsals in between as often as one likes.

### SiteCrawl and SiteClone

*State.*  `web` is what each URL of the source serves, and people change it;
`queue`, `seen`, `pages`, `assets`, `skipped` and `truncated` are the crawl's
own; `got` is history: what each URL answered.  A URL is a host, a path, a
form (`/about` or `/about.html`) and a query, so that several URLs can be one
route.  `SiteClone` adds what is on disk (`crawlDir`, `assetDir`, `build`,
none of them ever cleared), the dev instance, and how the last command ended.

*Actions.*  One per turn of the crawl's loop: `StopAtCap`, `PopSilently`,
`Skip`, `FetchFile`, `FetchPage`; then the refusals, `SaveCrawl`, `FetchAsset`
one by one, `ConvertAndEmit`, `LoadClone`.  `Kill` may stop all of this
between any two files.  `LoadBuild` is `load`, `Drift` is `drift`.

*Abstractions.*  A body is a model value; which links and assets it has is
given by `LinksOf` and `AssetsOf`.  Parsing, rewriting and conversion are left
out but for whether a page can be converted.  Of two routes with one slug
either may stay: the code sorts by route, the model does not tell.

*Bounds.*  `MCSiteClone` has a page at two URLs, a page whose slug is that of
another, a page called home, one called index, a picture and a link that leaves;
the cap is three pages, so that it bites in some crawls and not in others.  One
change of the source and two clones are enough to find an earlier clone's files.

*Fairness.*  None is assumed, and no liveness is claimed of a clone: the read of
robots.txt (`crawl.py:322`) and the load have no timeout, and a site with ever
new URLs on one route never meets the cap.

### ComponentShells

*State.*  A tree gives the parent of each block.  `component` is the live
record, `pages[p]` the mirror of shells in `blocks` and in `draft_blocks`,
`export` the read-back, `payload` what is to be written, `verdict` what the
simulator said.  `marks` says which shells of a mirror extend the component:
none (the page has the structure itself), the root (placed by an editor), or
each (built by `override_shells`).

*Actions.*  `Extract` is `optimize componentize --apply` on the page side;
`Export`, `Compose`, `Revise`, `Simulate`; `Apply`, by an operator who may not
have waited for the simulator.  `Place`, `Publish`, `Pin`, `EditLive` and
`SyncPages` are Builder and its editors.  `Matched` is Builder's
`extend_block`, taken from docs/traps.md; `Compared` is the simulator's walk,
which is written quite differently, and `ReportIsExact` says that they agree.

*Abstractions.*  One component; content is which blocks carry some.  Nested
components, repeaters, shells without an id and the order of siblings are
left out.

*Bounds.*  Two blocks below the root give every tree in which a block is
moved, added, dropped or put under another; two pages, a page that was looked
at and one that was not; four changes: write, extract, revise, apply.

### TrapCheck, CommitGate, Verify

Three programs whose exit codes are the product.  They share no state, so
`Checks` chooses one of them at the start and leaves the others as they
begin: the states add up and do not multiply, and one exit-code property
(`VerdictIsTrue`) speaks of all.

*TrapCheck.*  `builder` is the set of claims that hold at the pin.  Each check
is its steps in order, each with its failures; teardown may fail, and a kill
leaves everything where it is for the next run, or lets the script that is
running in the bench be carried out.  That script may take longer than the next
run takes to start, which is left out.  The table of the DocType outlives it and
is dropped by the next setup (`check_traps.py:142-145`).  `owed` is history: the
checks that were cut short, or said that they could not clean up, and whose
teardown has not run since.  Any answer but 200 counts as a refusal, whatever it
is about; `strays` is history, too: the broken page was refused, but not by the
trap.

*CommitGate.*  Three files (a source, the catalogue made from it, a private
site's file), four contents.  `history` is what a ref reaches, `blobs` what
the object store holds.  `Commit` takes the index or one file; both hooks run
only if they are active, with any of the `Environments`.  `gated` is history:
that the last commit or push came through the hooks without an override.
`MaxEdits` of three are: something bad is written, the hooks are switched off
or a branch is made, and something good is written over it.

*Verify.*  The clone at hand is any of `Clones`; the commands are pure
functions of it, so each behaviour is one command and its answer.  `golive`
validates the payloads of a replicate, in `build/pages`; a theme it builds anew
from its design and reads nothing of `build/` (`golive.py:56-142`).  A text of at
most two characters (`Brief`) may be missing (`clone_diff.py:350`).  What counts
is that the answer is right for every clone: `CompareRule` (matching of
generated CSS rules, with stacks of fonts that may be reduced) is checked
against `Carried`, which has no matching in it.

## 3. The runs

| run | expected | what it shows |
|---|---|---|
| `gate_pipeline` | pass | one operator, a transform that mints and one that does not, visible and invisible edits, two changes, a route that comes and goes: what reaches the reference was waived or called proved without a look (`UnprovenNeverAbsorbed`), what a host shows is open, waived or called proved without a look (`DirtyHostIsKnown`), the ledger keeps its decisions (`LedgerAppendOnly`), a write-back loses nothing the staleness guard saw (`WriteBackRespectsChecked`), the pipeline implements `ProofLedger` (`KeepsPromise`); and `IInv`, the inductive invariant of the proofs |
| `tokens_decision_record` | pass | a page that extends a component: uuids and references name only variables minted for that very colour (`OwnershipIsTrue`), foreign variables are left alone (`ForeignUntouched`), no step takes a decision for people, and one is lost only to a mine whose pages do not show its colour (`ToolNeverDecides`), an apply does whole pages (`WholePagesTokenized`) |
| `shapes_decision_record` | pass | one shape, two contents, two names, two pages: no decision vanishes (`NoDecisionVanishes`), and a component is what the instances it replaces were, shells among them included (`ComponentIsItsInstances`) |
| `sandbox_resume` | pass | two commits of each app, pins moved and sandboxes destroyed up to twice, any number of failures: a ready sandbox is at its pins (`ReadyMeansPinned`, with the invariant `UpIInv` of its proof), and under `FairSpec` re-invoking `up` gets there (`PicksUp`).  Deadlock is checked |
| `theme_tokens` | pass | a plan made from an up-to-date map, applied whole and read back, leaves nothing to plan (`PlanSettles`); a key keeps its variable through renames, unless labels are ambiguous (`KeysKeepTheirVariable`); a reference composed from an up-to-date map falls back to the live value (`FallbackIsLive`) |
| `dev_round_trip` | pass | an adopt without problems is what its routes serve (`AdoptedIsServed`); a verified rehearsal of what was captured misses nothing dev serves on the routes it has seen, torn captures included (`VerifiedMissesNothing`); an undisturbed rehearsal misses nothing but what a data script shows (`CalmMissesDataOnly`) |
| `site_clone` | pass | a crawl that is accepted and not truncated has visited what is discovered from the base and accounts for each URL (`AccountIsExact`); a clone that exits 0 has loaded what this crawl read (`LoadedIsCrawled`) |
| `component_shells` | pass | a payload that simulates clean on a fresh export takes no block from any page (`CleanRunCollapsesNothing`); the simulator's report is exactly what `extend_block` does (`ReportIsExact`); a clean revision keeps content (`RevisionKeepsContent`) and whole pages whole (`WholePagesStayWhole`) |
| `checks` | pass | exit 0 and exit 2 of `check`, `verify`, `clone_diff`, `handoff` and `golive` are true (`VerdictIsTrue`); a fixture stays only after a run that was killed on its check or said that it could not clean up, until the next teardown (`FixturesRemoved`); what the hooks let through neither leaks nor is red, whatever was committed around them before (`GateHolds`).  Deadlock is checked |
| `rehearsal_exit` | violation of `VerifiedMatchesDev` | a rehearsal is verified although it misses what dev serves: the fetch of dev failed |
| `drift_nested` | violation of `NoDriftMeansUnchanged` | "the live site is what we cloned" although a page below the top level has changed |
| `revise_moves_block` | violation of `ReviseKeepsPages` | a revision that moves a block keeps ids and content, is accepted, and takes the block from every page |

The violations are places where the code does not do what its comments say;
PROJECT.json quotes the lines.  More such places are listed below without a run.
The passing runs state what does hold, and under which discipline: `Disciplined`
says that no two commands share a site or a host unless they are the same, and
that a baseline is shot from the host it was read from.  The code does not
enforce any of it.

More limits that the models show and no run is spent on:

* `--target` may name another host than the screenshots, and then a verdict
  about one host settles entries about the other; two sites loaded into one
  host have a ledger each, and the gate asks only its own.
* A route that does not answer when the baseline is shot is in no verdict: a
  change that shows only there is called proved, and a later baseline, taken
  when the route answers, makes it the reference (`Unlooked`).  With no route
  captured at all, every apply is called proved (`oracle.py:119`).
* A baseline killed between the page files and the manifest of the checkpoint
  leaves new trees under the old hash.  If the host goes back to the old
  content, an apply passes the staleness guard and writes trees the guard
  never compared (`WriteBackRespectsChecked` is stated for whole checkpoints).
* An edit made between the staleness guard and the write-back is overwritten.
* A tokenize mine with a route filter writes proposals for the colours it
  found and drops every other decision, though its docstring says that a
  re-run must never wipe one; and no mine carries over the uuids.
* After a re-mine, or a kill between the mint and the save of the uuids, the
  next tokenize refuses because of the variable it minted itself.
* A componentize mine with a route filter orphans decisions whose shape is
  still on other pages, so a shape that comes back starts undecided.
* A plan does not look at the labels of live variables outside the manifest: a
  key renamed in the manifest with its label kept is minted a second time
  under that label.  A plan applied twice without a build in between mints
  twice.
* A variable whose value changed since an earlier rehearsal keeps its old value
  on the scratch site, so the rehearsal fails until `check_roundtrip` wipes
  the variables (`CalmMissesDataOnly` says so in its condition).
* A capture keeps the fields it names, and `page_data_script` is not one of
  them (`capture_dev.py:48`), though a build sets it (`theme/build.py:245`): what a
  data script shows is not restored by a load of `dev-state`.
* `adopt --prune` deletes a published page at the route of an adopted draft,
  and then nothing serves the route; two adopted pages on one route are not
  reported.
* Two commands on one site: the later save of `gates.json` drops the earlier
  entry (`gates.py:71`).
* A componentize killed before its applied mark, a new baseline, another name:
  a component is composed from shells, and carries no content of its own
  (`componentize.py:464`; the run comes there).
* A run of `up` that ends between moving a checkout and building it: no later
  run builds it, and requirements and assets stay those of the older commit
  (`sandbox.py:187`).
* "Rehearsal reproduces dev exactly" is also said after dev changed between
  the rehearsal and its comparison, and with a variable of an earlier
  rehearsal on the scratch site (`publish_verify.py:164`, `:259`).
* A theme build between an edit of the manifest and the application of its
  plan composes stale fallbacks (`theme/build.py:201`).

In the clone:

* The cap is looked at before the queue: a crawl at its cap with only seen
  URLs queued is reported truncated.  It counts routes, so a page linked to
  with ever new queries never reaches it.
* An asset is stored under the last name of its path; a file that is there
  counts as downloaded, whichever URL or crawl it is from.
* `crawl/` and `build/` are never cleared: pages an earlier crawl found and
  this one did not are converted and loaded again.
* A route that ends in `/index` is read back as its parent, and the route
  `index` is written over the root's file; routes `a/b` and `a_b` have one slug,
  and one of them is lost (`Alone` excludes all three).
* A clone need not end (section 2).  A truncated clone exits 0.  Drift reports nested pages the home page links
  to as added, each time.

In components and the simulator:

* Shells built by `override_shells` each extend the component, so the
  simulator compares inner shells with the component's root and reports
  blocks as unrenderable or missing that are neither; `ReportIsExact` is
  stated for mirrors whose root alone extends it.
* `content_by_id` counts a href that was kept as the content of a block whose
  label was dropped.  A stale export is not detected: `Fresh` is a condition.

In the checks:

* `cmd_check` joins codes with max, so that a 2 hides a 1.  With the sandbox
  down the three runners exit 1, where `errors.py:12` says 2.
* The broken half of TRAP-020 takes any answer but 200, so a stale 403 or a
  server that is overloaded passes (`VerdictIsTrue` excludes that, by `strays`);
  in the other half it fails a check that has nothing to report.
* What a killed `check traps` leaves stays as long as later runs refuse
  before their setup, and the table of its DocType after every run; a second site left half-made fails every later round
  trip; overlapping runs share fixture names.
* A git command that fails reads as nothing to check (`guard.py:68`,
  `audit`, `staged_paths`).  Suite, documents and linter read the worktree,
  not what is committed or pushed, though `prepush.py` says that nothing else
  guarantees a green tree: `GateHolds` asks for code to be green only when the
  worktree is what is committed.  A private path that was committed and is no
  longer in the index is not seen by the audit.
* `verify` passes features that were inconclusive, and calls a build of only
  unreadable files "could not check".  `visual_check` without playwright ends
  in a traceback when run by itself.
* Matching rules one by one can report an omission where there is none: the
  source's `{A}`, `{A, B}`, `{A, C}` against `{A}` in the clone.

Each property of a passing run has a mutant in the module of the definition
it changes: a bug of the plausible kind (a dropped guard, a verdict that marks
decided entries too) that the run then reports.

Deadlock is checked where it would be a fault, in `sandbox_resume` and
`checks`: the other systems may stop when the bounds are used up and nobody
starts a command.  For the same reason liveness is claimed only for `up`, which
is meant to be invoked again (`PicksUp`).

## 4. What is proved

Every invariant and every action property of the passing runs, for every value
of the constants, under the named assumptions of the modules.  They say what
the constants are, and that a value which stands for "no file" or "not yet" is
not one of the others; beyond that:

* The pipeline (`ConstantsAssumption`): every set of operators, sites, hosts and
  transforms, if the commands are `Disciplined` (section 3).
* The decision records (`ProposalsAssumption`, `ShapesAssumption`): every site,
  with finitely many colours on it.  The token plan (`TokensAssumption`): all
  sets of keys, labels, values and tokens.
* The sandbox (`SandboxAssumption`): every set of commits, any number of failures.
* The dev site (`RoundTripAssumption`): every set of exports and builds over
  finitely many document names, any number of changes.
* The crawl (`CrawlAssumption`): every site, finite or not, on which a page has
  finitely many links.  The clone (`CloneAssumption`): the same, for any number
  of clones and kills.
* Components (`ShellsAssumption`): every forest over finitely many blockIds, on
  any number of pages.
* The checks (`TrapsAssumption`, `EditsAssumption`, `ClonesAssumption`): every set
  of claims that a Builder may satisfy, of overrides and missing tools, and of
  clones with whatever rules, features and findings.

| module | theorem | states |
|---|---|---|
| `OptimizeGateProofs` | `Invariance` | `Spec => []IInv` |
| | `TypeCorrect` | `Spec => []TypeOK` |
| | `BaselineSound` | `Spec => []UnprovenNeverAbsorbed` |
| | `HostKnown` | `Spec => []DirtyHostIsKnown` |
| | `AppendOnly` | `Spec => LedgerAppendOnly` |
| | `WriteBackRespects` | `Spec => WriteBackRespectsChecked` |
| | `PipelineKeepsPromise` | `Spec => KeepsPromise`: each site's pipeline implements `ProofLedger` |
| `TokenProposalsProofs` | `TokenTypes`, `Ownership` | `Spec => []TypeOK`, `Spec => []OwnershipIsTrue` |
| | `ForeignVariables`, `DecisionsArePeoples`, `WholePages` | `Spec => ForeignUntouched`, `ToolNeverDecides`, `WholePagesTokenized` |
| `ShapeProposalsProofs` | `ShapeTypes` | `Spec => []TypeOK` |
| | `DecisionsSurvive`, `ExtractedAsTheyWere` | `Spec => NoDecisionVanishes`, `ComponentIsItsInstances` |
| `ThemeTokensProofs` | `TokenPlanTypes`, `PlansSettle` | `Spec => []TypeOK`, `Spec => []PlanSettles` |
| | `VariablesKept`, `FallbacksLive` | `Spec => KeysKeepTheirVariable`, `FallbackIsLive` |
| `SiteCloneProofs` | `CrawlAccount` | `CrawlSpec => []AccountIsExact`, of the crawl by itself |
| | `CloneTypeCorrect`, `CloneAccount` | `Spec => []TypeOK`, `Spec => []AccountIsExact`, of the crawl inside a clone |
| | `CloneLoadsItsCrawl` | `Spec => LoadedIsCrawled` |
| `ComponentShellsProofs` | `TypeCorrect` | `Spec => []TypeOK` |
| | `CleanRunIsSafe`, `ReportExact` | `Spec => []CleanRunCollapsesNothing`, `Spec => []ReportIsExact` |
| | `RevisionIsSafe`, `WholeStaysWhole` | `Spec => []RevisionKeepsContent`, `Spec => []WholePagesStayWhole` |
| `ChecksProofs` | `TypeCorrect`, `VerdictsAreTrue` | `Spec => []TypeOK`, `Spec => []VerdictIsTrue` |
| | `NothingIsLeft`, `HooksHold` | `Spec => []FixturesRemoved`, `Spec => GateHolds` |
| `SandboxProofs` | `SandboxInvariance`, `ReadySandboxIsPinned` | `UpSpec => []UpIInv`, `UpSpec => []ReadyMeansPinned` |
| | `DevTypeCorrect`, `DevInvariance` | `Spec => []TypeOK`, `Spec => []DevIInv` |
| | `AdoptIsSafe`, `VerifyIsSafe`, `CalmIsSafe` | `Spec => []AdoptedIsServed`, `[]VerifiedMissesNothing`, `[]CalmMissesDataOnly` |

*The pipeline.*  None of its results is inductive by itself, not even the types:
an apply reads the checkpoint's trees because its staleness guard found a hash,
and only `BaselineInv` says that trees exist when a hash does.  `IInv` adds what
the files and the running commands know of each other:

* `IdsInv`: no two entries of a site share an id; each names the site's host.
* `LiveInv`: what shows on a route of a host has an entry that is open, waived,
  or proved without a look at that route.
* `BaselineInv`: what checkpoint and screenshots show on a route was waived or
  proved without a look at it, and the manifest names the site's own host.
* `JobInv`: a command that loaded the ledger still has what is in the file; a
  baseline past its gate has no open entry; an apply past `SaveEntry` has
  one; a passing verdict in flight still describes the host on the routes it
  compared, and each of them has a screenshot of the page.

The argument: `Footprint` shows that a step touches one operator's locals,
one site and one host; `Exclusive` that another operator's are different; so
whoever saves the ledger saves what is in it (`LedgerLemma`), entries are
only annotated, and the rest follows action by action.

`WriteBackRespects` needs `SeenInv` as well: until it writes, an apply holds
the trees of the very checkpoint its staleness guard compared with the host.

`PipelineKeepsPromise` takes each step to one of the promise's.  A step that
leaves the ledger and the screenshots of a site alone is a `Change`, because
`LiveInv` says after it that what shows is known (`HostChanges`).  Of
the other five, `SaveEntry` is a `Record`, because the clock has not given its
id out before (`IdsInv`); `SaveWaiver` is a `WaiveOpen`; `SaveVerdict` is a
`Prove` of the routes compared when the verdict passes, because nothing open
shows on them then (`JobInv`), and no step of the promise when it fails; `WipeShots` and `Shoot` are a
`Rebaseline`, because past its gate a baseline has no open entry.

*Decision records.*  `Ownership` is proved together with `TreesOwned`,
`CheckpointInv`, `FileInv` and `JobInv`: wherever a uuid is kept, in the trees
of the site and the checkpoint, in the file, in the mapping of a running apply,
it was minted for the colour beside it, and `origin` never forgets.  A mint has
a number for each new variable because uuids are numbers and colours finitely
many (`NewNumbers`).  The three action properties follow from that invariant,
action by action.

`DecisionsSurvive` and `ExtractedAsTheyWere` rest on `ReadyInv`: what a
running apply is about to extract is extractable from its checkpoint, under
names of which no two are the same, and once it has written, a component of each
of those names is there.

*The token plan.*  Its invariant follows a plan on its way: a variable the map names
is live and of one key (`MapInv`), the map is what is live until somebody edits
the site or starts to apply (`ReadInv`), and while a plan made then is applied,
whatever of a key is not yet as the manifest says is still to be done
(`ApplyInv`).  One operation takes its own key towards the manifest and leaves
the others alone (`ApplyOneStep`), so that nothing is left at the end, and the
map read back then is settled (`ReadBackFinds`), for every order of operations.

*The crawl and the clone.*  `CrawlAccount` rests on `FrontierInv`: the base is
seen or queued; what a fetched page links to is seen or queued; what is seen or
queued is discovered; what is seen is accounted for.  When the queue is empty,
what is seen is closed under links, and what is discovered is the least such set
(`ClosedHasDiscovered`).  A fetch keeps this because an answer is a URL's first
(`DiscoveredGrows`): an edit of the source never takes back what was discovered.

`CloneAccount` needs nothing more: once an account is accepted, the frontier
stays as it is until the next clone starts, and what the assets add to `skipped`
is outside it.  `CloneLoadsItsCrawl` follows one page through the disk:
`SavedInv`, from the save on `crawl/` has what this crawl read, at each path that
is one route's; `SlugInv`, a payload lies under the slug of its own route;
`EmittedInv`, what is emitted for a route that is `Alone` is what the crawl read.
`EmittedInv` is where the files of earlier clones come in, and it was not
inductive at first: of the routes `index` and the root, which have one file, the
later write wins.  `Alone` now excludes that, and the run has a page there.

*Components.*  The invariant is small (`VerdictInv`: a verdict is that of the
payload and the export at hand; `RevisionInv`: a revision kept the content of
what it revises and lists what it adds); the work is in the simulator.  Its
recursive walk and Builder's `extend_block` are two functions of quite different
shape, and `WalkReaches` and `WalkReports` say that the walk comes to exactly the
blocks that match the proposed component: a block matches when it agrees and
the one above it matches (`MatchedStep`), and in a set of blocks of a finite tree
one has none of the others above it (`Leaf`).  `WalkIsExact` then reads off what is
reported, `CleanKeeps` that a clean report loses no block that matched, and the
theorems about revisions that no content goes with it.

*The checks.*  For `buildsmith check` the invariant says what has been established
at each step: where a run may stand (`StageInv`), which fixtures may be there
(`FixturesInv`), that a check that passed had its claims at the pin (`ResultsInv`),
that none was passed over (`PassedInv`), that the page found on the second site
is the one authored (`RoundInv`), and what the code joined so far means
((`VerdictInv`).  `NothingIsLeft` covers the runs that were killed, too: whatever
is in the sandbox belongs to a check in `owed`, or to the one under way.  `buildsmith verify` answers in one step, and what
has to be shown is about its functions.  `CompareSays`: a rule of the source
that is not reported has a rule of the clone with its context that says each of
its declarations.  What was reported once stays reported while the other rules
are compared (`FindingTo`, `FoundStep`, `OmittedGrows`); so, by `FaithfulCarries`,
a clone of which nothing is reported carries all of the source.

`HooksHold` rests on `CommitTypeOK`, whose part that matters is that what is
committed is reachable and what is reachable is in the object store, where the
audit looks; and on `CommitPasses` and `PushPasses`: a verdict of 0 is a 0 of
each check that was joined.  It needs to know besides that the source file
never disappears from worktree, index and head (`SourceThere`).  A step of one program is a stutter of the
others, so the three invariants add up to that of `Checks`.

*The sandbox and the dev site.*  `ReadySandboxIsPinned` rests on `PinnedSoFar`:
what each stage has established by the time a later one runs.  It needs no more
because the stages compare with the pins the run read at its start, not with the
file.

`AdoptIsSafe` and `VerifyIsSafe` follow from the step that ends the command,
because every later step that could make them false withdraws what was said.
An adopt without problems writes every page of the export with its component
and variables, and leaves none of the site's own at their routes.  A rehearsal
compares the routes the manifest lists; `ManifestInv` says that these are the
routes it has hashed, so when dev has that hash they are the routes dev serves,
and a torn capture cannot agree by leaving pages out.  It speaks of the routes of
which both fetches succeeded (`compared`), since a rehearsal passes on the
others.  `CalmIsSafe` rests on `CalmInv`: what an undisturbed capture and
rehearsal hold at each point, the data scripts excepted, which a capture drops.

*What the prover sees.*  Recursion is by recursive functions and folds, never by
RECURSIVE operators, so that any module can be proved about.  The library's
induction theorems take an operator as a parameter, which the provers cannot
instantiate; where a proof needs induction over a finite set or a tree it takes a
counterexample of the least size instead and finds a smaller one.  Three things
in the model were changed so that it could be proved about, none of which changes
a step it takes: a CASE whose conditions overlapped has exclusive ones (`TrapCheck`,
`Verify`, `CommitGate`); `DevRoundTrip` builds functions by operators of its own
(`Over`, `Put`) instead of those of TLC; `SandboxUp` has names that do not clash
with those of `DevRoundTrip`.

*Only model-checked.*  `PicksUp`: liveness under fairness is out of the prover's
reach.  The three runs that expect a violation have a counterexample,
and nothing is claimed of them beyond it.

## 5. Plan

In this order, each with its MC module, its runs and, where a promise is worth
it, an abstract specification:

1. **Done:** the pipeline, its promise, its first theorems; the decision
   records of tokenize and componentize; sandbox `up` with its theorem.
2. **Done, but for `build/`:** token plan and theme build.  Left: the files of
   an earlier build and of colliding slugs.
3. **Done, but for Builder's page cache:** the dev-state round trip.
4. **Done, but for nested components, repeaters, maps and data pages:**
   component shells and the simulator.
5. **Done:** crawl frontier and clone, with the theorem about the account.
6. **Done:** exit codes of checks, verify and hooks.
7. **Done:** a theorem for every invariant and every action property of the
   passing runs, and for the refinement of `ProofLedger`.  Left: only the
   liveness property, which stays with TLC, and theorems about what the parts
   left open above will say once they are modelled.

## 6. Not modelled

* Image arithmetic (`png.py`, `shots.py`): a decoder and a pixel loop, for
  which unit tests with images say more.
* HTML parsing and conversion (`htmlblocks.py`, `extract.py`): pure functions
  of long inputs, checked by the program itself with `clone_diff`.
* Templates, repeaters, maps and data pages: builders of fixed block trees.
* The Frappe client: nothing in the repository writes through it, so its
  cached worker check (`frappe_client.py:228`) has no program around it.
* Half-made directories of `bench init` and `new-site` (`sandbox.py:170`), and
  Builder's page cache between a load and its clearing (`load_dev.py:193`).
* Git amend, rename and merge; `hooks --check`, which looks at the configured
  path and not at the executable bit.
* Generated documents and schemas beyond their staleness checks, the journal,
  and the scripts that only print.
