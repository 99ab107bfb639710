---------------------------- MODULE OptimizeGate ----------------------------
(***************************************************************************)
(* The W3 Optimize pipeline and its gate ledger: the commands              *)
(* `buildsmith optimize baseline | tokenize | fonts | componentize |       *)
(* collapse | oracle`, run by operators against sandbox sites that people  *)
(* also edit in the Builder UI.                                            *)
(*                                                                         *)
(* Files under sites/<site>/opt are one variable each, so that a command   *)
(* can be interrupted between any two of them:                             *)
(*   gates.json                   ledger[site]                             *)
(*   baseline/state/pages/*.json  trees[site]                              *)
(*   baseline/state/manifest.json hash[site]                               *)
(*   baseline/shots/*.png         shots[site]                              *)
(*   baseline/manifest.json       manifest[site]  (its clone_url and the   *)
(*                                routes_captured; the shots it lists are  *)
(*                                those of these routes)                   *)
(* Records on a sandbox host are the set of changes they carry: two states *)
(* have the same content hash iff they carry the same changes. A change    *)
(* shows on some of the routes, and a route answers 200 or does not: the   *)
(* hash says nothing of that, and the screenshots and verdicts below are   *)
(* about the routes of the manifest only.                                  *)
(***************************************************************************)
EXTENDS Integers, Sequences

CONSTANTS Ops,         \* people or agents running the command line
          Sites,       \* directories under sites/
          Targets,     \* hosts of the bench: what --target and --clone name
          Commands,    \* the [op, site, target, clone] combinations in use
          Kinds,       \* the transforms in use
          Routes,      \* the routes of the pages on the hosts
          Edits,       \* the [part, shows] of the edits people make
          MaxChanges,  \* bound: changes made to the records in one behaviour
          None         \* a file that does not exist

ASSUME ConstantsAssumption ==
    /\ Commands \subseteq [op: Ops, site: Sites, target: Targets, clone: Targets]
    /\ Kinds \subseteq {"tokenize", "fonts", "componentize", "collapse"}
    /\ Edits \subseteq [part: {"variable", "tree"}, shows: SUBSET Routes]
    /\ MaxChanges \in Nat
    /\ None \notin Targets

VARIABLES
    live,      \* live[t]: the changes the records of host t carry
    served,    \* served[t]: the routes host t answers with 200
    clock,     \* how many changes were ever made; the last one's id
    ledger,    \* ledger[s]: the entries of gates.json, oldest first
    trees,     \* trees[s]: the block trees of the checkpoint
    hash,      \* hash[s]: the content the checkpoint manifest vouches for
    shots,     \* shots[s][r]: the baseline screenshot of route r
    manifest,  \* manifest[s]: host and routes the baseline was shot from
    pc,        \* pc[o]: where the command of operator o stands
    job        \* job[o]: the local variables of that command

artifacts == <<ledger, trees, hash, shots, manifest>>
vars == <<live, served, clock, ledger, trees, hash, shots, manifest, pc, job>>

---------------------------------------------------------------------------
(* Changes, entries and the local state of a command.                      *)

Change == [id: Nat, part: {"variable", "tree"}, shows: SUBSET Routes,
           by: {"editor", "transform"}]

\* judged is not in the file: it remembers which routes the passing verdict
\* had compared, for the properties to speak of.
Entry == [id: Nat, transform: Kinds, target: Targets,
          oracle: {"none", "failed", "ok"}, waived: BOOLEAN,
          judged: SUBSET Routes]

\* What route r shows of a set of changes.
Look(content, r) == {c \in content : r \in c.shows}

\* The files of one route's screenshots: missing, of an error page, or of
\* the page with the changes that showed on it.
Shot == [of: {"missing", "error", "page"}, look: SUBSET Change]

NoShot == [of |-> "missing", look |-> {}]

\* capture_shots does not look at the status: a route that does not answer
\* with its page is shot as well.
ShotOf(t, r) ==
    IF r \in served[t] THEN [of |-> "page", look |-> Look(live[t], r)]
                       ELSE [of |-> "error", look |-> {}]

BaselineManifest == [clone: Targets, routes: SUBSET Routes]

\* What of it lives in the block trees of pages and components.
TreesOf(content) == {c \in content : c.part = "tree"}

\* gates._is_pending: not waived, and no passing verdict.
IsPending(e) == ~e.waived /\ e.oracle # "ok"

Pending(entries) == \E i \in DOMAIN entries : IsPending(entries[i])

Verdict(ok) == IF ok THEN "ok" ELSE "failed"

\* Mutant of Mark: the verdict lands on decided entries as well.
MarkAll(entries, verdict, routes) ==
    [i \in DOMAIN entries |->
        [entries[i] EXCEPT !.oracle = verdict,
                           !.judged = IF verdict = "ok" THEN routes ELSE @]]

\* The marking loop of gates.record_oracle.
Mark(entries, verdict, routes) ==
    [i \in DOMAIN entries |->
        IF IsPending(entries[i])
        THEN [entries[i] EXCEPT !.oracle = verdict,
                                !.judged = IF verdict = "ok" THEN routes ELSE @]
        ELSE entries[i]]

\* The waiving loop of gates.assert_no_pending(force=True).
Waive(entries) ==
    [i \in DOMAIN entries |->
        IF IsPending(entries[i])
        THEN [entries[i] EXCEPT !.waived = TRUE]
        ELSE entries[i]]

PCs == {"idle",
        \* baseline
        "waiving", "gated", "captured", "crawled", "wiped",
        \* an apply
        "checked", "recording", "minting", "writing",
        \* the oracle, on its own or at the end of an apply
        "proving", "judged", "marking"}

\* The variables of a running command: its arguments, the transform and the
\* id of the apply, the ledger it loaded, the records it read, the trees it
\* rewrites, the routes its baseline fetched or its oracle compared, the
\* verdict of its oracle, and whether that settles the ledger.
\* A local is cleared when nothing reads it any more.
Job == [cmd: Commands, kind: Kinds \cup {None}, id: Nat, snap: Seq(Entry),
        seen: SUBSET Change, src: SUBSET Change, routes: SUBSET Routes,
        ok: BOOLEAN, settles: BOOLEAN]

Fresh(c) == [cmd |-> c, kind |-> None, id |-> 0, snap |-> << >>,
             seen |-> {}, src |-> {}, routes |-> {}, ok |-> FALSE, settles |-> TRUE]

At(o, label) == pc[o] = label

Goto(o, label) == pc' = [pc EXCEPT ![o] = label]

\* The command has nothing left to do; its locals are forgotten.
Stop(o) ==
    /\ Goto(o, "idle")
    /\ job' = [job EXCEPT ![o] = Fresh(@.cmd)]

Site(o) == job[o].cmd.site

Init ==
    /\ live = [t \in Targets |-> {}]
    /\ served \in [Targets -> SUBSET Routes]
    /\ clock = 0
    /\ ledger = [s \in Sites |-> << >>]
    /\ trees = [s \in Sites |-> None]
    /\ hash = [s \in Sites |-> None]
    /\ shots = [s \in Sites |-> [r \in Routes |-> NoShot]]
    /\ manifest = [s \in Sites |-> None]
    /\ pc = [o \in Ops |-> "idle"]
    /\ job \in [Ops -> {Fresh(c) : c \in Commands}]
    /\ \A o \in Ops : job[o].cmd.op = o

---------------------------------------------------------------------------
(* People working in the Builder UI.                                       *)

\* Someone edits a page, a component or a variable of host t.
Edit(t) ==
    /\ clock < MaxChanges
    /\ clock' = clock + 1
    /\ \E e \in Edits :
          live' = [live EXCEPT ![t] = @ \cup
                      {[id |-> clock + 1, part |-> e.part,
                        shows |-> e.shows, by |-> "editor"]}]
    /\ UNCHANGED <<served, ledger, trees, hash, shots, manifest, pc, job>>

\* Someone undoes a change, a transform's as well as a person's.
Revert(t) ==
    /\ \E c \in live[t] : live' = [live EXCEPT ![t] = @ \ {c}]
    /\ UNCHANGED <<served, clock, ledger, trees, hash, shots, manifest, pc, job>>

\* A page is published, or unpublished, or its route begins to fail or to
\* answer again: the content hash is the same before and after.
Publish(t) ==
    /\ \E r \in Routes :
          served' = [served EXCEPT ![t] = IF r \in @ THEN @ \ {r} ELSE @ \cup {r}]
    /\ UNCHANGED <<live, clock, ledger, trees, hash, shots, manifest, pc, job>>

---------------------------------------------------------------------------
(* optimize baseline: gate, checkpoint, crawl, screenshots, manifest.      *)

\* assert_no_pending without an open entry. With one and no --force the
\* command is refused and nothing happens.
PassGate(o) ==
    \E c \in Commands :
        /\ c.op = o
        /\ At(o, "idle")
        /\ ~Pending(ledger[c.site])
        /\ Goto(o, "gated")
        /\ job' = [job EXCEPT ![o] = Fresh(c)]
        /\ UNCHANGED <<live, served, clock, artifacts>>

\* assert_no_pending with --force and open entries: load the ledger ...
ForceGate(o) ==
    \E c \in Commands :
        /\ c.op = o
        /\ At(o, "idle")
        /\ Pending(ledger[c.site])
        /\ Goto(o, "waiving")
        /\ job' = [job EXCEPT ![o] = [Fresh(c) EXCEPT !.snap = ledger[c.site]]]
        /\ UNCHANGED <<live, served, clock, artifacts>>

\* Mutant of SaveWaiver: --force lets the command through and saves nothing.
ForgetWaiver(o) ==
    /\ At(o, "waiving")
    /\ job' = [job EXCEPT ![o].snap = << >>]
    /\ Goto(o, "gated")
    /\ UNCHANGED <<live, served, clock, artifacts>>

\* ... and save it back with every open entry waived.
SaveWaiver(o) ==
    /\ At(o, "waiving")
    /\ ledger' = [ledger EXCEPT ![Site(o)] = Waive(job[o].snap)]
    /\ job' = [job EXCEPT ![o].snap = << >>]
    /\ Goto(o, "gated")
    /\ UNCHANGED <<live, served, clock, trees, hash, shots, manifest>>

\* capture_dev.capture: read the records, replace the checkpoint's trees ...
CapturePages(o) ==
    /\ At(o, "gated")
    /\ job' = [job EXCEPT ![o].seen = live[job[o].cmd.target]]
    /\ trees' = [trees EXCEPT ![Site(o)] = TreesOf(live[job[o].cmd.target])]
    /\ Goto(o, "captured")
    /\ UNCHANGED <<live, served, clock, ledger, hash, shots, manifest>>

\* ... and write the manifest with the content hash last.
CaptureManifest(o) ==
    /\ At(o, "captured")
    /\ hash' = [hash EXCEPT ![Site(o)] = job[o].seen]
    /\ job' = [job EXCEPT ![o].seen = {}]
    /\ Goto(o, "crawled")
    /\ UNCHANGED <<live, served, clock, ledger, trees, shots, manifest>>

\* Every route of the checkpoint was fetched; those that answered 200 are
\* captured, the others skipped, and the old screenshots go. An unreachable
\* host or a failed feature extraction is an Abort before this.
WipeShots(o) ==
    /\ At(o, "crawled")
    /\ job' = [job EXCEPT ![o].routes = served[job[o].cmd.clone]]
    /\ shots' = [shots EXCEPT ![Site(o)] = [r \in Routes |-> NoShot]]
    /\ Goto(o, "wiped")
    /\ UNCHANGED <<live, served, clock, ledger, trees, hash, manifest>>

\* The captured routes are shot one after the other, skipped ones never.
Shoot(o) ==
    /\ At(o, "wiped")
    /\ \E r \in job[o].routes :
          /\ shots[Site(o)][r] = NoShot
          /\ shots' = [shots EXCEPT ![Site(o)][r] = ShotOf(job[o].cmd.clone, r)]
    /\ UNCHANGED <<live, served, clock, ledger, trees, hash, manifest, pc, job>>

AllShot(o) == \A r \in job[o].routes : shots[Site(o)][r] # NoShot

\* Mutant of WriteManifest: the site's name where its host belongs.
WriteManifestOfSite(o) ==
    /\ At(o, "wiped")
    /\ AllShot(o)
    /\ manifest' = [manifest EXCEPT ![Site(o)] =
                      [clone |-> Site(o), routes |-> job[o].routes]]
    /\ Stop(o)
    /\ UNCHANGED <<live, served, clock, ledger, trees, hash, shots>>

WriteManifest(o) ==
    /\ At(o, "wiped")
    /\ AllShot(o)
    /\ manifest' = [manifest EXCEPT ![Site(o)] =
                      [clone |-> job[o].cmd.clone, routes |-> job[o].routes]]
    /\ Stop(o)
    /\ UNCHANGED <<live, served, clock, ledger, trees, hash, shots>>

---------------------------------------------------------------------------
(* An apply: staleness guard, ledger entry, mint, write-back.              *)

\* Mutant of StaleCheck: any checkpoint will do.
TrustCheckpoint(o) ==
    \E c \in Commands, k \in Kinds :
        /\ c.op = o
        /\ At(o, "idle")
        /\ hash[c.site] # None
        /\ Goto(o, "checked")
        /\ job' = [job EXCEPT ![o] =
                     [Fresh(c) EXCEPT !.kind = k,
                                      !.seen = live[c.target],
                                      !.src = trees[c.site]]]
        /\ UNCHANGED <<live, served, clock, artifacts>>

\* _refuse_stale_checkpoint passes, and load_state reads the trees. A stale
\* checkpoint, or none, is a refusal that changes nothing.
StaleCheck(o) ==
    \E c \in Commands, k \in Kinds :
        /\ c.op = o
        /\ At(o, "idle")
        /\ hash[c.site] # None
        /\ live[c.target] = hash[c.site]
        /\ Goto(o, "checked")
        /\ job' = [job EXCEPT ![o] =
                     [Fresh(c) EXCEPT !.kind = k,
                                      !.seen = live[c.target],
                                      !.src = trees[c.site]]]
        /\ UNCHANGED <<live, served, clock, artifacts>>

\* Nothing to rewrite: no entry is recorded. fonts still goes on to its
\* oracle, componentize and collapse end here, tokenize never gets here.
NothingToDo(o) ==
    /\ At(o, "checked")
    /\ job[o].kind # "tokenize"
    /\ IF job[o].kind = "fonts"
       THEN Goto(o, "proving") /\ job' = [job EXCEPT ![o] = Fresh(@.cmd)]
       ELSE Stop(o)
    /\ UNCHANGED <<live, served, clock, artifacts>>

\* Mutant of LoadLedger: the apply goes ahead without being recorded.
ApplyUnrecorded(o) ==
    /\ At(o, "checked")
    /\ Goto(o, "writing")
    /\ UNCHANGED <<live, served, clock, artifacts, job>>

\* record_apply, before the first mutation: load the ledger ...
LoadLedger(o) ==
    /\ At(o, "checked")
    /\ job' = [job EXCEPT ![o].snap = ledger[job[o].cmd.site]]
    /\ Goto(o, "recording")
    /\ UNCHANGED <<live, served, clock, artifacts>>

\* ... and save it with one more entry.
SaveEntry(o) ==
    /\ At(o, "recording")
    /\ clock < MaxChanges
    /\ clock' = clock + 1
    /\ ledger' = [ledger EXCEPT ![Site(o)] =
                    Append(job[o].snap,
                           [id |-> clock + 1, transform |-> job[o].kind,
                            target |-> job[o].cmd.target,
                            oracle |-> "none", waived |-> FALSE,
                            judged |-> {}])]
    /\ job' = [job EXCEPT ![o].id = clock + 1, ![o].snap = << >>]
    /\ Goto(o, IF job[o].kind = "tokenize" THEN "minting" ELSE "writing")
    /\ UNCHANGED <<live, served, trees, hash, shots, manifest>>

\* The change an apply leaves in one part of the records.
Delta(o, part, shows) ==
    [id |-> job[o].id, part |-> part, shows |-> shows, by |-> "transform"]

\* ensure_variables inserts new Builder Variables and resets the value of
\* those it owns, which undoes edits made to them; only then does tokenize
\* read the checkpoint's trees. On a name collision the others are committed
\* all the same, and an Abort follows this step.
Mint(o) ==
    /\ At(o, "minting")
    /\ \E minted \in SUBSET {Delta(o, "variable", {})},
          reset \in SUBSET {c \in live[job[o].cmd.target] : c.part = "variable"} :
          live' = [live EXCEPT ![job[o].cmd.target] = (@ \ reset) \cup minted]
    /\ job' = [job EXCEPT ![o].src = trees[job[o].cmd.site]]
    /\ Goto(o, "writing")
    /\ UNCHANGED <<served, clock, artifacts>>

\* Whole block trees go back: on the pages rewritten (the changes in over)
\* the checkpoint's version replaces whatever is there now.
WriteBack(o) ==
    /\ At(o, "writing")
    /\ LET t == job[o].cmd.target
       IN \E shows \in SUBSET Routes,
             over \in SUBSET (job[o].src \cup TreesOf(live[t])) :
             live' = [live EXCEPT ![t] =
                        (@ \ over) \cup (job[o].src \cap over)
                                   \cup {Delta(o, "tree", shows)}]
    /\ Goto(o, "proving")
    /\ job' = [job EXCEPT ![o] = Fresh(@.cmd)]
    /\ UNCHANGED <<served, clock, artifacts>>

\* Every literal is a token already: tokenize writes no page back.
NoReplacement(o) ==
    /\ At(o, "writing")
    /\ job[o].kind = "tokenize"
    /\ Goto(o, "proving")
    /\ job' = [job EXCEPT ![o] = Fresh(@.cmd)]
    /\ UNCHANGED <<live, served, clock, artifacts>>

---------------------------------------------------------------------------
(* The rendering oracle and its verdict.                                   *)

\* optimize oracle; with --clone, --threshold or --tolerance its verdict
\* does not settle the ledger.
StartOracle(o) ==
    \E c \in Commands, settles \in BOOLEAN :
        /\ c.op = o
        /\ At(o, "idle")
        /\ Goto(o, "proving")
        /\ job' = [job EXCEPT ![o] = [Fresh(c) EXCEPT !.settles = settles]]
        /\ UNCHANGED <<live, served, clock, artifacts>>

\* Mutant of SameShots: the pages are fetched, their screenshots not compared.
SameStatus(t, routes, s) ==
    \A r \in routes : ShotOf(t, r).of = shots[s][r].of

\* The routes shot now and for the baseline are the same, route by route;
\* when there is none, nothing differs.
SameShots(t, routes, s) ==
    \A r \in routes : ShotOf(t, r) = shots[s][r]

\* run_oracle re-shoots the routes the manifest lists and compares them with
\* the stored screenshots; without a manifest, or with a listed shot missing,
\* it cannot check. A loosened run may pass whatever it sees. The routes that
\* answered are remembered for the entries this verdict settles.
RunOracle(o) ==
    /\ At(o, "proving")
    /\ manifest[Site(o)] # None
    /\ LET t == manifest[Site(o)].clone
           routes == manifest[Site(o)].routes
       IN /\ \A r \in routes : shots[Site(o)][r] # NoShot
          /\ \E ok \in BOOLEAN :
                /\ job[o].settles => ok = SameShots(t, routes, Site(o))
                /\ job' = [job EXCEPT ![o].ok = ok,
                                      ![o].routes = routes \cap served[t]]
    /\ Goto(o, "judged")
    /\ UNCHANGED <<live, served, clock, artifacts>>

\* Mutant of LoadVerdict: a loosened run settles the ledger too.
LoadAnyVerdict(o) ==
    /\ At(o, "judged")
    /\ job' = [job EXCEPT ![o].snap = ledger[job[o].cmd.site]]
    /\ Goto(o, "marking")
    /\ UNCHANGED <<live, served, clock, artifacts>>

\* record_oracle: load the ledger ...
LoadVerdict(o) ==
    /\ At(o, "judged")
    /\ job[o].settles
    /\ job' = [job EXCEPT ![o].snap = ledger[job[o].cmd.site]]
    /\ Goto(o, "marking")
    /\ UNCHANGED <<live, served, clock, artifacts>>

\* ... and, when an entry is open, save it with each open entry marked.
SaveVerdict(o) ==
    /\ At(o, "marking")
    /\ ledger' = IF Pending(job[o].snap)
                 THEN [ledger EXCEPT ![Site(o)] =
                         Mark(job[o].snap, Verdict(job[o].ok), job[o].routes)]
                 ELSE ledger
    /\ Stop(o)
    /\ UNCHANGED <<live, served, clock, trees, hash, shots, manifest>>

\* A verdict that settles nothing is only printed.
PrintVerdict(o) ==
    /\ At(o, "judged")
    /\ ~job[o].settles
    /\ Stop(o)
    /\ UNCHANGED <<live, served, clock, artifacts>>

\* The command is killed, or ends in a refusal, a CouldNotCheck or any
\* other error between two of its steps; what it wrote stays.
Abort(o) ==
    /\ ~At(o, "idle")
    /\ Stop(o)
    /\ UNCHANGED <<live, served, clock, artifacts>>

---------------------------------------------------------------------------

Baseline(o) ==
    \/ PassGate(o) \/ ForceGate(o) \/ SaveWaiver(o)
    \/ CapturePages(o) \/ CaptureManifest(o)
    \/ WipeShots(o) \/ Shoot(o) \/ WriteManifest(o)

Apply(o) ==
    \/ StaleCheck(o) \/ NothingToDo(o) \/ LoadLedger(o) \/ SaveEntry(o)
    \/ Mint(o) \/ WriteBack(o) \/ NoReplacement(o)

Oracle(o) ==
    \/ StartOracle(o) \/ RunOracle(o)
    \/ LoadVerdict(o) \/ SaveVerdict(o) \/ PrintVerdict(o)

Next ==
    \/ \E t \in Targets : Edit(t) \/ Revert(t) \/ Publish(t)
    \/ \E o \in Ops : Baseline(o) \/ Apply(o) \/ Oracle(o) \/ Abort(o)

Spec == Init /\ [][Next]_vars

---------------------------------------------------------------------------
(* What the gate promises.                                                 *)

TypeOK ==
    /\ live \in [Targets -> SUBSET Change]
    /\ served \in [Targets -> SUBSET Routes]
    /\ clock \in 0..MaxChanges
    /\ ledger \in [Sites -> Seq(Entry)]
    /\ trees \in [Sites -> (SUBSET Change) \cup {None}]
    /\ hash \in [Sites -> (SUBSET Change) \cup {None}]
    /\ shots \in [Sites -> [Routes -> Shot]]
    /\ manifest \in [Sites -> BaselineManifest \cup {None}]
    /\ pc \in [Ops -> PCs]
    /\ job \in [Ops -> Job]
    /\ \A o \in Ops : job[o].cmd.op = o

\* The state of an apply in the decision record.
StatusOf(e) == CASE e.waived -> "waived"
                 [] ~e.waived /\ e.oracle = "ok" -> "proved"
                 [] OTHER -> "pending"

\* One command line per site, host and baseline: nobody shares a site or a
\* host, and each baseline is shot from the host it was read from.
Disciplined ==
    \A c, d \in Commands :
        /\ c.clone = c.target
        /\ c.site = d.site \/ c.target = d.target => c = d

\* Entry e was called proved by a verdict that had no picture of route r to
\* compare: the baseline had skipped r, or r did not answer.
Unlooked(e, r) == StatusOf(e) = "proved" /\ r \notin e.judged

\* When a reference screenshot shows a transform's change, either somebody
\* waived the change, or it was called proved without a look at that route.
\* "Re-baselining absorbed any unproven change into the new reference
\* forever" is what the ledger was added against (gates.py, the module
\* docstring); the second case is what is left of it.
UnprovenNeverAbsorbed ==
    \A s \in Sites, r \in Routes : \A c \in shots[s][r].look :
        c.by = "transform" =>
            \E q \in Sites : \E i \in DOMAIN ledger[q] :
                /\ ledger[q][i].id = c.id
                /\ \/ StatusOf(ledger[q][i]) = "waived"
                   \/ Unlooked(ledger[q][i], r)

\* A host whose route r shows a transform's change has an entry recorded
\* against it that is open or waived, or was called proved without a look at
\* that route: this is all check_roundtrip and the re-baseline gate learn
\* when they ask the ledger instead of the host.
DirtyHostIsKnown ==
    \A t \in Targets, r \in Routes : \A c \in Look(live[t], r) :
        c.by = "transform" =>
            \E s \in Sites : \E i \in DOMAIN ledger[s] :
                /\ ledger[s][i].id = c.id
                /\ ledger[s][i].target = t
                /\ \/ StatusOf(ledger[s][i]) \in {"pending", "waived"}
                   \/ Unlooked(ledger[s][i], r)

\* "Nothing here deletes an entry. The ledger is append-and-annotate": an
\* entry keeps its place, its transform and its target, and a decision once
\* taken (proved, or waived) is never revised.
OnlyAnnotated(old, new) ==
    /\ new.id = old.id /\ new.transform = old.transform
    /\ new.target = old.target
    /\ ~IsPending(old) => new = old

LedgerAppendOnly ==
    [][\A s \in Sites :
          /\ Len(ledger'[s]) >= Len(ledger[s])
          /\ \A i \in DOMAIN ledger[s] :
                OnlyAnnotated(ledger[s][i], ledger'[s][i])]_ledger

\* Writing whole trees back never takes away a change that was on the host
\* when the staleness guard passed, nor brings back one that was not: what
\* it can lose was made after the guard (tokenize._refuse_stale_checkpoint).
\* Nothing is said of a checkpoint torn by an interrupted capture.
WriteBackRespectsChecked ==
    [][\A o \in Ops :
          /\ WriteBack(o)
          /\ hash[Site(o)] # None
          /\ trees[Site(o)] = TreesOf(hash[Site(o)])
          => LET t == job[o].cmd.target
                 before == TreesOf(live[t])
                 after == TreesOf(live'[t])
             IN /\ before \cap job[o].seen \subseteq after
                /\ \A c \in after \ before :
                      c \in job[o].seen \/ c.id = job[o].id]_vars

\* Under the discipline above, each site's pipeline implements ProofLedger.
TransformIds(content) == {c.id : c \in {d \in content : d.by = "transform"}}

HostsOf(s) == {c.target : c \in {d \in Commands : d.site = s}}

Promise(s) == INSTANCE ProofLedger WITH
    Ids <- 1..MaxChanges,
    entries <- [i \in DOMAIN ledger[s] |->
                   [change |-> ledger[s][i].id, status |-> StatusOf(ledger[s][i]),
                    judged |-> ledger[s][i].judged]],
    shown <- [r \in Routes |->
                 UNION {TransformIds(Look(live[t], r)) : t \in HostsOf(s)}],
    covered <- {r \in Routes : shots[s][r].of = "page"},
    reference <- [r \in Routes |-> TransformIds(shots[s][r].look)]

\* What the gate promises of each site is what the pipeline does.
KeepsPromise ==
    /\ \A s \in Sites : Promise(s)!Init
    /\ [][\A s \in Sites : [Promise(s)!Next]_(Promise(s)!vars)]_vars


---------------------------------------------------------------------------
(* The inductive strengthening: why the promises hold under Disciplined.   *)

\* The changes of transforms that somebody looking at route r could see.
Marked(content, r) == {c \in content : r \in c.shows /\ c.by = "transform"}

\* The ledger of s knows the apply that made c, with one of these states, or
\* called it proved without a look at route r.
Known(s, c, r, statuses) ==
    \E i \in DOMAIN ledger[s] :
        /\ ledger[s][i].id = c.id
        /\ StatusOf(ledger[s][i]) \in statuses \/ Unlooked(ledger[s][i], r)

\* Ids name applies: none is handed out twice. An entry names the host of
\* the one command that works on its site.
IdsInv ==
    \A s \in Sites : \A i \in DOMAIN ledger[s] :
        /\ ledger[s][i].id <= clock
        /\ \A j \in DOMAIN ledger[s] : ledger[s][i].id = ledger[s][j].id => i = j
        /\ \E d \in Commands : d.site = s /\ d.target = ledger[s][i].target

\* What shows on a host belongs to an apply of the site that owns it, and
\* that apply was never called proved by a verdict that had looked there.
LiveInv ==
    \A t \in Targets, r \in Routes : \A c \in Marked(live[t], r) :
        \E d \in Commands :
            d.target = t /\ Known(d.site, c, r, {"pending", "waived"})

\* The checkpoint has trees, without visible changes of a transform but
\* waived and unlooked-at ones.
CleanTrees(s) ==
    /\ trees[s] \in SUBSET Change
    /\ \A r \in Routes : \A c \in Marked(trees[s], r) : Known(s, c, r, {"waived"})

\* So have the checkpoint and the screenshots of a baseline.
BaselineInv ==
    \A s \in Sites :
        /\ hash[s] # None => CleanTrees(s)
        /\ \A r \in Routes : \A c \in shots[s][r].look :
              c.by = "transform" => Known(s, c, r, {"waived"})
        /\ manifest[s] # None =>
              \E d \in Commands : d.site = s /\ manifest[s].clone = d.target

\* A running command still knows what it read.
JobOK(o) ==
    /\ pc[o] \in {"waiving", "recording", "marking"} =>
          job[o].snap = ledger[Site(o)]
    /\ pc[o] \in {"gated", "captured", "crawled", "wiped"} =>
          ~Pending(ledger[Site(o)])
    /\ pc[o] \in {"captured", "checked", "recording", "minting"} =>
          CleanTrees(Site(o))
    /\ pc[o] \in {"checked", "recording", "minting", "writing"} =>
          \A r \in Routes : \A c \in Marked(job[o].src, r) :
              Known(Site(o), c, r, {"waived"})
    /\ pc[o] \in {"minting", "writing"} =>
          \E i \in DOMAIN ledger[Site(o)] :
              /\ ledger[Site(o)][i].id = job[o].id
              /\ IsPending(ledger[Site(o)][i])
    /\ pc[o] \in {"checked", "recording"} => job[o].kind \in Kinds
    /\ pc[o] = "marking" => job[o].settles
    /\ pc[o] \in {"judged", "marking"} /\ job[o].settles /\ job[o].ok =>
          \A i \in DOMAIN ledger[Site(o)] :
              IsPending(ledger[Site(o)][i]) =>
                  \A r \in job[o].routes :
                      \A c \in Marked(live[job[o].cmd.target], r) :
                          c.id # ledger[Site(o)][i].id
    /\ pc[o] \in {"judged", "marking"} /\ job[o].settles /\ job[o].ok =>
          \A r \in job[o].routes : shots[Site(o)][r].of = "page"

JobInv == \A o \in Ops : JobOK(o)

IInv == TypeOK /\ IdsInv /\ LiveInv /\ BaselineInv /\ JobInv

=============================================================================
