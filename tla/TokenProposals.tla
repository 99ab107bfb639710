--------------------------- MODULE TokenProposals ---------------------------
(***************************************************************************)
(* The decision record of `buildsmith optimize tokenize`:                  *)
(* sites/<site>/opt/proposals/tokens.json, mined from the baseline         *)
(* checkpoint, decided by people, consumed by --apply, mined again later;  *)
(* and the Builder Variables the apply mints from it.                      *)
(*                                                                         *)
(* A style value is its literal colour and the variable it refers to, if   *)
(* any: `#aabbcc` is [colour, None], `var(--uuid, #aabbcc)` is             *)
(* [colour, uuid].  A block tree is the set of its style values.  A uuid   *)
(* is the number of variables that existed before it, plus one.            *)
(***************************************************************************)
EXTENDS Integers, Sequences, FiniteSets

CONSTANTS Colours,       \* normalized literal colours
          Names,         \* names people give tokens and variables
          Pages,         \* pages of the site
          Components,    \* components of the site
          Extended,      \* Extended[p]: the components page p's blocks extend
          Palette,       \* Palette[l]: the colours people use on page or
                         \* component l
          MaxVariables,  \* bound: variables created in one behaviour
          MaxEdits,      \* bound: edits people make in the Builder UI
          None           \* a missing file, name, or reference

ASSUME ProposalsAssumption ==
    /\ Extended \in [Pages -> SUBSET Components]
    /\ Pages \cap Components = {}
    /\ Palette \in [Pages \cup Components -> SUBSET Colours]
    /\ MaxVariables \in Nat /\ MaxEdits \in Nat
    /\ IsFiniteSet(Colours)
    /\ None \notin Colours /\ None \notin Names
    /\ None \notin Nat

VARIABLES
    trees,       \* trees[l]: the style values of page or component l
    variables,   \* the Builder Variables of the host
    origin,      \* origin[i]: the colour variable i was minted for, None if
                 \* a person created it (history)
    checkpoint,  \* the baseline checkpoint: [trees, variables], or None
    file,        \* tokens.json: colour -> proposal, or None
    pc,          \* where the running apply stands
    job,         \* its local variables
    edits        \* how many edits people have made

vars == <<trees, variables, origin, checkpoint, file, pc, job, edits>>

---------------------------------------------------------------------------

Labels == Pages \cup Components
Ids == 1..MaxVariables
\* f is a function from part of S into T.
IsPartial(f, S, T) ==
    /\ f = [x \in DOMAIN f |-> f[x]]
    /\ DOMAIN f \subseteq S
    /\ \A x \in DOMAIN f : f[x] \in T

Value == [colour: Colours, ref: Ids \cup {None}]
Variable == [id: Ids, name: Names, value: Colours]
Proposal == [name: Names \cup {None}, status: {"proposed", "accepted"},
             uuid: Ids \cup {None}]

\* A missing file is not an empty one, nor any other.
ASSUME NoFileAssumption == None \notin UNION {[S -> Proposal] : S \in SUBSET Colours}

Undecided == [name |-> None, status |-> "proposed", uuid |-> None]

\* The part of a proposal that people fill in.
Decision(p) == <<p.name, p.status>>

NoJob == [accepted |-> << >>, routes |-> {}, mapping |-> << >>]

Literal(c) == [colour |-> c, ref |-> None]

\* tokenize._select: the pages of the filter and what they extend.
Selected(routes) == routes \cup UNION {Extended[p] : p \in routes}

Idle == pc = "idle"

Init ==
    /\ trees \in [Labels -> SUBSET {Literal(c) : c \in Colours}]
    /\ \A l \in Labels : \A v \in trees[l] : v.colour \in Palette[l]
    /\ variables = {}
    /\ origin = << >>
    /\ checkpoint = None
    /\ file = None
    /\ pc = "idle"
    /\ job = NoJob
    /\ edits = 0

---------------------------------------------------------------------------
(* People: the Builder UI, and a text editor on the proposal file.         *)

EditUI == edits < MaxEdits /\ edits' = edits + 1

EditTree(l) ==
    /\ EditUI
    /\ \/ \E c \in Palette[l] : trees' = [trees EXCEPT ![l] = @ \cup {Literal(c)}]
       \/ \E v \in trees[l] : trees' = [trees EXCEPT ![l] = @ \ {v}]
    /\ UNCHANGED <<variables, origin, checkpoint, file, pc, job>>

CreateVariable(n, c) ==
    /\ EditUI
    /\ Len(origin) < MaxVariables
    /\ origin' = Append(origin, None)
    /\ variables' = variables \cup {[id |-> Len(origin) + 1, name |-> n, value |-> c]}
    /\ UNCHANGED <<trees, checkpoint, file, pc, job>>

ChangeVariable(x, n, c) ==
    /\ EditUI
    /\ variables' = (variables \ {x}) \cup {[x EXCEPT !.name = n, !.value = c]}
    /\ UNCHANGED <<trees, origin, checkpoint, file, pc, job>>

DeleteVariable(x) ==
    /\ EditUI
    /\ variables' = variables \ {x}
    /\ UNCHANGED <<trees, origin, checkpoint, file, pc, job>>

\* Naming a proposal, flipping its status, or taking either back.
Decide(c, n, s) ==
    /\ file # None
    /\ c \in DOMAIN file
    /\ file' = [file EXCEPT ![c].name = n, ![c].status = s]
    /\ UNCHANGED <<trees, variables, origin, checkpoint, pc, job, edits>>

---------------------------------------------------------------------------

\* optimize baseline: the checkpoint is the host as it is now.  Whether the
\* gate lets it through is the subject of OptimizeGate.
Baseline ==
    /\ Idle
    /\ checkpoint' = [trees |-> trees, variables |-> variables]
    /\ UNCHANGED <<trees, variables, origin, file, pc, job, edits>>

\* mine_colours: a literal counts inside a var() as well.
Mined(routes) ==
    {v.colour : v \in UNION {checkpoint.trees[l] : l \in Selected(routes)}}

\* Mutant of Mine: the prior proposals are found but their status is not kept.
MineAfresh(routes) ==
    /\ Idle
    /\ checkpoint # None
    /\ file' = [c \in Mined(routes) |->
                  IF file # None /\ c \in DOMAIN file
                  THEN [Undecided EXCEPT !.name = file[c].name]
                  ELSE Undecided]
    /\ UNCHANGED <<trees, variables, origin, checkpoint, pc, job, edits>>

\* mine and build_proposals: one proposal per colour of the selection, with
\* the prior name and status of that colour.
Mine(routes) ==
    /\ Idle
    /\ checkpoint # None
    /\ file' = [c \in Mined(routes) |->
                  IF file # None /\ c \in DOMAIN file
                  THEN [Undecided EXCEPT !.name = file[c].name,
                                         !.status = file[c].status]
                  ELSE Undecided]
    /\ UNCHANGED <<trees, variables, origin, checkpoint, pc, job, edits>>

\* accepted_mapping: what people accepted, refused when a name is missing or
\* shared.
Accepted ==
    LET chosen == {c \in DOMAIN file : file[c].status = "accepted"}
    IN [c \in chosen |-> file[c]]

WellNamed(accepted) ==
    \A c, d \in DOMAIN accepted :
        /\ accepted[c].name # None
        /\ accepted[c].name = accepted[d].name => c = d

\* tokenize --apply: the guards, then the ledger entry (see OptimizeGate).
StartApply(routes) ==
    /\ Idle
    /\ file # None
    /\ DOMAIN Accepted # {}
    /\ WellNamed(Accepted)
    /\ checkpoint = [trees |-> trees, variables |-> variables]
    /\ pc' = "recorded"
    /\ job' = [NoJob EXCEPT !.accepted = Accepted, !.routes = routes]
    /\ UNCHANGED <<trees, variables, origin, checkpoint, file, edits>>

---------------------------------------------------------------------------
(* ensure_variables, one script on the bench.                              *)

\* Mutant of OwnRecord: a variable of that name is adopted.
AdoptByName(c) ==
    {x \in variables : \/ x.id = job.accepted[c].uuid
                       \/ x.name = job.accepted[c].name}

\* The record an earlier apply minted for this proposal.
OwnRecord(c) == {x \in variables : x.id = job.accepted[c].uuid}

\* That record was renamed, or there is none and the name is taken.
Collides(c) ==
    IF OwnRecord(c) # {}
    THEN \E x \in OwnRecord(c) : x.name # job.accepted[c].name
    ELSE \E x \in variables : x.name = job.accepted[c].name

ToUpdate == {c \in DOMAIN job.accepted : OwnRecord(c) # {} /\ ~Collides(c)}
ToInsert == {c \in DOMAIN job.accepted : OwnRecord(c) = {} /\ ~Collides(c)}

\* The variables after the update: an owned one holds its accepted colour.
Updated ==
    {x \in variables : \A c \in ToUpdate : x \notin OwnRecord(c)} \cup
    UNION {{[x EXCEPT !.value = c] : x \in OwnRecord(c)} : c \in ToUpdate}

\* The next uuids, one for each colour to insert.
Minting == {f \in [ToInsert -> (Len(origin) + 1)..MaxVariables] :
               /\ \A c, d \in ToInsert : f[c] = f[d] => c = d
               /\ \A c \in ToInsert : f[c] <= Len(origin) + Cardinality(ToInsert)}

\* Update what is ours, insert what is new, commit; then report collisions,
\* which end the command.  A recorded variable that is gone ends the script
\* before its commit: nothing is written, the command stops (Kill).
Mint ==
    /\ pc = "recorded"
    /\ \A c \in DOMAIN job.accepted :
          job.accepted[c].uuid # None => OwnRecord(c) # {}
    /\ \E new \in Minting :
          /\ origin' = [i \in 1..(Len(origin) + Cardinality(ToInsert)) |->
                          IF i \in DOMAIN origin THEN origin[i]
                          ELSE CHOOSE c \in ToInsert : new[c] = i]
          /\ variables' = Updated \cup
                {[id |-> new[c], name |-> job.accepted[c].name, value |-> c] :
                    c \in ToInsert}
          /\ IF \E c \in DOMAIN job.accepted : Collides(c)
             THEN pc' = "idle" /\ job' = NoJob
             ELSE /\ pc' = "minted"
                  /\ job' = [job EXCEPT !.mapping =
                        [c \in DOMAIN job.accepted |->
                            IF c \in ToInsert THEN new[c]
                            ELSE (CHOOSE x \in OwnRecord(c) : TRUE).id]]
    /\ UNCHANGED <<trees, checkpoint, file, edits>>

---------------------------------------------------------------------------

\* Mutant of Persist: the uuid goes to the proposal of that name.
PersistByName ==
    /\ pc = "minted"
    /\ file' = [c \in DOMAIN file |->
                  IF \E d \in DOMAIN job.mapping : job.accepted[d].name = file[c].name
                  THEN [file[c] EXCEPT !.uuid = job.mapping[
                          CHOOSE d \in DOMAIN job.mapping :
                              job.accepted[d].name = file[c].name]]
                  ELSE file[c]]
    /\ pc' = "persisted"
    /\ UNCHANGED <<trees, variables, origin, checkpoint, job, edits>>

\* The minted uuids go into the file as it is by now, colour by colour.
Persist ==
    /\ pc = "minted"
    /\ file' = [c \in DOMAIN file |->
                  IF c \in DOMAIN job.mapping
                  THEN [file[c] EXCEPT !.uuid = job.mapping[c]]
                  ELSE file[c]]
    /\ pc' = "persisted"
    /\ UNCHANGED <<trees, variables, origin, checkpoint, job, edits>>

\* Mutant of Rewritten: the reference carries the token's name.
RewrittenByName(tree) ==
    {IF v.ref = None /\ v.colour \in DOMAIN job.mapping
     THEN [v EXCEPT !.ref = job.accepted[v.colour].name]
     ELSE v : v \in tree}

\* rewrite_tree: a bare literal with a token becomes a reference to it, a
\* value that is a reference already stays.
Rewritten(tree) ==
    {IF v.ref = None /\ v.colour \in DOMAIN job.mapping
     THEN [v EXCEPT !.ref = job.mapping[v.colour]]
     ELSE v : v \in tree}

\* Mutant of Rewrite: the pages of the filter alone.
RewritePages ==
    /\ pc = "persisted"
    /\ trees' = [l \in Labels |-> IF l \in job.routes
                                 THEN Rewritten(checkpoint.trees[l])
                                 ELSE trees[l]]
    /\ pc' = "idle"
    /\ job' = NoJob
    /\ UNCHANGED <<variables, origin, checkpoint, file, edits>>

\* Write-back of every selected tree of the checkpoint with a replacement.
\* A filter that selects nothing is refused only here.
Rewrite ==
    /\ pc = "persisted"
    /\ trees' = [l \in Labels |->
                   IF /\ l \in Selected(job.routes)
                      /\ Rewritten(checkpoint.trees[l]) # checkpoint.trees[l]
                   THEN Rewritten(checkpoint.trees[l])
                   ELSE trees[l]]
    /\ pc' = "idle"
    /\ job' = NoJob
    /\ UNCHANGED <<variables, origin, checkpoint, file, edits>>

\* The command is killed, or ends in a refusal or an error.
Kill ==
    /\ ~Idle
    /\ pc' = "idle"
    /\ job' = NoJob
    /\ UNCHANGED <<trees, variables, origin, checkpoint, file, edits>>

People ==
    \/ \E l \in Labels : EditTree(l)
    \/ \E n \in Names, c \in Colours : CreateVariable(n, c)
    \/ \E x \in variables, n \in Names, c \in Colours : ChangeVariable(x, n, c)
    \/ \E x \in variables : DeleteVariable(x)
    \/ \E c \in Colours, n \in Names \cup {None}, s \in {"proposed", "accepted"} :
          Decide(c, n, s)

Tool ==
    \/ Baseline
    \/ \E routes \in SUBSET Pages : Mine(routes) \/ StartApply(routes)
    \/ Mint \/ Persist \/ Rewrite \/ Kill

Next == People \/ Tool

Spec == Init /\ [][Next]_vars

---------------------------------------------------------------------------

TypeOK ==
    /\ trees \in [Labels -> SUBSET Value]
    /\ variables \in SUBSET Variable
    /\ origin \in Seq(Colours \cup {None}) /\ Len(origin) <= MaxVariables
    /\ checkpoint # None =>
          checkpoint \in [trees: [Labels -> SUBSET Value],
                          variables: SUBSET Variable]
    /\ file # None => IsPartial(file, Colours, Proposal)
    /\ pc \in {"idle", "recorded", "minted", "persisted"}
    /\ job = [accepted |-> job.accepted, routes |-> job.routes, mapping |-> job.mapping]
    /\ IsPartial(job.accepted, Colours, Proposal)
    /\ job.routes \in SUBSET Pages
    /\ IsPartial(job.mapping, Colours, Ids)
    /\ edits \in 0..MaxEdits

\* i is a variable the tool minted for colour c.
MintedFor(i, c) == i \in DOMAIN origin /\ origin[i] = c

\* A uuid in the decision record, in a running apply or in a style value
\* names a variable the tool minted for that very colour: never a variable
\* of somebody else, never the token of another colour, however the file was
\* edited meanwhile (ensure_variables: "silently adopting a foreign variable
\* entangles the site's palette with records something else controls").
OwnershipIsTrue ==
    /\ file # None =>
          \A c \in DOMAIN file : file[c].uuid # None => MintedFor(file[c].uuid, c)
    /\ \A c \in DOMAIN job.mapping : MintedFor(job.mapping[c], c)
    /\ \A l \in Labels : \A v \in trees[l] :
          v.ref # None => MintedFor(v.ref, v.colour)

\* The tool never changes, renames or deletes a variable it did not mint,
\* and of its own it changes nothing but the value ("Never deletes anything",
\* ensure_variables).
ForeignUntouched ==
    [][Tool => \A x \in variables : \E y \in variables' :
          /\ y.id = x.id /\ y.name = x.name
          /\ origin[x.id] = None => y = x]_vars

\* The tool decides nothing: a proposal that stays in the file keeps the name
\* and the status people gave it, a new one is undecided (the apply pass
\* "consumes accepted entries only; this file is the decision record").  What
\* takes a decision out of the file is a mine, and only one whose pages do not
\* show the colour: after a mine with a route filter, the decisions of every
\* other page are gone.
ToolNeverDecides ==
    [][Tool /\ file' # None =>
          /\ \A c \in DOMAIN file' :
                Decision(file'[c]) =
                    IF file # None /\ c \in DOMAIN file
                    THEN Decision(file[c]) ELSE Decision(Undecided)
          /\ file # None => \A c \in DOMAIN file \ DOMAIN file' :
                \E routes \in SUBSET Pages : Mine(routes) /\ c \notin Mined(routes)]_vars

\* An apply leaves no literal of a minted colour on the pages of its filter
\* nor in what they extend, except where somebody put one after the guard
\* compared the host ("a page referencing a component with literal colours is
\* not tokenized until the component is too", tokenize._select).
WholePagesTokenized ==
    [][Rewrite => \A p \in job.routes : \A l \in {p} \cup Extended[p] :
          \A v \in trees'[l] :
              v.ref = None /\ v.colour \in DOMAIN job.mapping =>
                  v \in trees[l] \ checkpoint.trees[l]]_vars

=============================================================================
