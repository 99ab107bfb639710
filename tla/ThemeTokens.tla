---------------------------- MODULE ThemeTokens ----------------------------
(***************************************************************************)
(* Design tokens of a themed site: the manifest (intent), the map read     *)
(* back from the site (applied), the plan between them, and the references *)
(* a build composes (primitives/tokens.py, workflows/theme/build.py).      *)
(*                                                                         *)
(* Nothing in the repository touches the site: applying a plan and reading *)
(* the map back are actions of an operations project, modelled from what   *)
(* the plan says and what Applied expects.  A live variable is tied to its *)
(* key by its label alone; a uuid is the number of variables before it,    *)
(* plus one.                                                               *)
(***************************************************************************)
EXTENDS Integers, FiniteSets

CONSTANTS Keys,          \* logical names of tokens
          Labels,        \* variable_name of a record
          Values,        \* literal values
          Types,         \* Color, Dimension
          Groups,        \* group of a record
          Tokens,        \* the entries people write into the manifest
          Used,          \* the keys the component specs refer to
          MaxEdits,      \* bound: edits of the manifest and of the site
          MaxVariables,  \* bound: variables ever created
          None           \* a missing file, dark value or group

Record == [label: Labels, type: Types, value: Values,
           dark: Values \cup {None}, group: Groups \cup {None}]

ASSUME TokensAssumption ==
    /\ Tokens \subseteq Record
    /\ Used \subseteq Keys
    /\ None \notin Labels \cup Values \cup Groups
    /\ MaxEdits \in Nat /\ MaxVariables \in Nat

VARIABLES
    manifest,  \* design/tokens.json: key -> token
    live,      \* the Builder Variables of the site: uuid -> record
    map,       \* tokens-applied.json: key -> uuid and record, or None
    plan,      \* build/token-plan.json, or None
    todo,      \* what is left of the plan being applied
    refs,      \* the references in the payloads of the last build, or None
    pace,      \* how far map and plan are behind manifest and site (history)
    edits      \* how many edits people have made

vars == <<manifest, live, map, plan, todo, refs, pace, edits>>

---------------------------------------------------------------------------

\* f is a function from part of S into T.
IsPartial(f, S, T) ==
    /\ f = [x \in DOMAIN f |-> f[x]]
    /\ DOMAIN f \subseteq S
    /\ \A x \in DOMAIN f : f[x] \in T

Ids == 1..MaxVariables
Entry == [uuid: Ids, record: Record]

\* No file is not a map.
ASSUME NoFileAssumption == None \notin UNION {[S -> Entry] : S \in SUBSET Keys}

Operation == [kind: {"mint"}, key: Keys, record: Record] \cup
             [kind: {"set_value"}, key: Keys, uuid: Ids, value: Values] \cup
             [kind: {"set_dark_value"}, key: Keys, uuid: Ids,
              dark: Values \cup {None}] \cup
             [kind: {"rename"}, key: Keys, uuid: Ids, label: Labels] \cup
             [kind: {"set_group"}, key: Keys, uuid: Ids, group: Groups]
Ref == [uuid: Ids \cup {None}, literal: Values]

\* Mutant of WantedDark: what the manifest says, though a mint leaves out an
\* equal value.
StatedDark(t) == t.dark

\* A dark value equal to the value is none.
WantedDark(t) == IF t.dark = t.value THEN None ELSE t.dark

\* Token.record: what a mint stores.
Stored(t) == [t EXCEPT !.dark = IF t.dark = t.value THEN None ELSE t.dark]

\* _diff for a token that is live as record r under uuid u. A group the
\* manifest does not give is left alone.
Changes(k, t, u, r) ==
    {op \in {[kind |-> "set_value", key |-> k, uuid |-> u, value |-> t.value]} :
        r.value # t.value} \cup
    {op \in {[kind |-> "set_dark_value", key |-> k, uuid |-> u,
              dark |-> WantedDark(t)]} : r.dark # WantedDark(t)} \cup
    {op \in {[kind |-> "rename", key |-> k, uuid |-> u, label |-> t.label]} :
        r.label # t.label} \cup
    {op \in {[kind |-> "set_group", key |-> k, uuid |-> u, group |-> t.group]} :
        t.group # None /\ r.group # t.group}

Live == IF map = None THEN << >> ELSE map

\* Mutant of Operations: a key whose label changed is minted anew.
OperationsByLabel ==
    LET known == {k \in DOMAIN manifest \cap DOMAIN Live :
                    Live[k].record.label = manifest[k].label}
    IN {[kind |-> "mint", key |-> k, record |-> Stored(manifest[k])] :
            k \in DOMAIN manifest \ known} \cup
       UNION {Changes(k, manifest[k], Live[k].uuid, Live[k].record) : k \in known}

\* _diff: live tokens without a key in the manifest are reported, never
\* changed.
Operations ==
    {[kind |-> "mint", key |-> k, record |-> Stored(manifest[k])] :
        k \in DOMAIN manifest \ DOMAIN Live} \cup
    UNION {Changes(k, manifest[k], Live[k].uuid, Live[k].record) :
              k \in DOMAIN manifest \cap DOMAIN Live}

\* Manifest.from_dict refuses a manifest whose tokens share a label.
Loadable ==
    \A k, l \in DOMAIN manifest : manifest[k].label = manifest[l].label => k = l

\* _diff refuses a change of type.
NoConflict ==
    \A k \in DOMAIN manifest \cap DOMAIN Live :
        Live[k].record.type = manifest[k].type

Init ==
    /\ manifest = << >> /\ live = << >>
    /\ map = None /\ plan = None /\ refs = None
    /\ todo = {}
    /\ pace = "read"
    /\ edits = 0

---------------------------------------------------------------------------
(* People.                                                                 *)

Edit == edits < MaxEdits /\ edits' = edits + 1

\* A token is added, changed or dropped.  The map is as good as before, the
\* plan is not; one that is being applied leads nowhere in particular.
EditManifest(k) ==
    /\ Edit
    /\ \/ \E t \in Tokens :
             manifest' = [l \in DOMAIN manifest \cup {k} |->
                             IF l = k THEN t ELSE manifest[l]]
       \/ /\ k \in DOMAIN manifest
          /\ manifest' = [l \in DOMAIN manifest \ {k} |-> manifest[l]]
    /\ pace' = IF pace \in {"read", "built", "settled"} THEN "read" ELSE "behind"
    /\ UNCHANGED <<live, map, plan, todo, refs>>

\* Somebody changes a variable in the Builder UI.
EditVariable(u) ==
    /\ Edit
    /\ \E t \in Tokens : live' = [live EXCEPT ![u] = Stored(t)]
    /\ pace' = "behind"
    /\ UNCHANGED <<manifest, map, plan, todo, refs>>

---------------------------------------------------------------------------

\* Mutant of Reference: the fallback is what the manifest says.
Intended(k) ==
    IF map = None THEN [uuid |-> None, literal |-> manifest[k].value]
    ELSE [uuid |-> map[k].uuid,
          literal |-> IF k \in DOMAIN manifest THEN manifest[k].value
                      ELSE map[k].record.value]

\* Mutant of Reference: the readable name in the place of the uuid.
NamedAfterKey(k) ==
    [uuid |-> k, literal |-> IF map = None THEN manifest[k].value
                             ELSE map[k].record.value]

\* resolve_tokens and Applied.ref; without a map, the placeholder uuid.
Reference(k) ==
    IF map = None THEN [uuid |-> None, literal |-> manifest[k].value]
    ELSE [uuid |-> map[k].uuid, literal |-> map[k].record.value]

\* build_site and write. A spec with an unknown key stops the build before
\* anything is written.
Build ==
    /\ Loadable /\ NoConflict
    /\ Used \subseteq IF map = None THEN DOMAIN manifest ELSE DOMAIN map
    /\ plan' = Operations
    /\ refs' = [k \in Used |-> Reference(k)]
    /\ pace' = IF pace \in {"read", "built", "settled"} THEN "built" ELSE pace
    /\ UNCHANGED <<manifest, live, map, todo, edits>>

---------------------------------------------------------------------------
(* The operations project.                                                 *)

\* Somebody starts to apply the plan of the last build.
StartApply ==
    /\ plan # None
    /\ todo = {}
    /\ todo' = plan
    /\ pace' = IF pace # "built" THEN "behind"
               ELSE IF plan = {} THEN "applied" ELSE "applying"
    /\ UNCHANGED <<manifest, live, map, plan, refs, edits>>

\* One operation, in any order: they change different fields or records.
ApplyOne(op) ==
    /\ todo' = todo \ {op}
    /\ IF op.kind = "mint"
       THEN /\ Cardinality(DOMAIN live) < MaxVariables
            /\ live' = [u \in 1..(Cardinality(DOMAIN live) + 1) |->
                           IF u \in DOMAIN live THEN live[u] ELSE op.record]
       ELSE live' = [live EXCEPT ![op.uuid] =
                CASE op.kind = "set_value" -> [@ EXCEPT !.value = op.value]
                  [] op.kind = "set_dark_value" -> [@ EXCEPT !.dark = op.dark]
                  [] op.kind = "rename" -> [@ EXCEPT !.label = op.label]
                  [] op.kind = "set_group" -> [@ EXCEPT !.group = op.group]]
    /\ pace' = IF pace # "applying" THEN "behind"
               ELSE IF todo = {op} THEN "applied" ELSE "applying"
    /\ UNCHANGED <<manifest, map, plan, refs, edits>>

\* The application fails, or is given up.
StopApply ==
    /\ todo # {}
    /\ todo' = {}
    /\ pace' = "behind"
    /\ UNCHANGED <<manifest, live, map, plan, refs, edits>>

\* A live variable carries the label the manifest gives key k; one whose
\* label the manifest does not know stays with the key it had.
Matches(u, k) ==
    IF k \in DOMAIN manifest THEN live[u].label = manifest[k].label
    ELSE /\ k \in DOMAIN Live /\ Live[k].uuid = u
         /\ \A l \in DOMAIN manifest : manifest[l].label # live[u].label

Unambiguous == \A u, v \in DOMAIN live : live[u].label = live[v].label => u = v

\* The site is read back: a key with a matching variable gets one, a key
\* without has none.  Nobody reads it while a plan is being applied.
ReadBack ==
    /\ todo = {}
    /\ Loadable
    /\ \E found \in SUBSET (Keys \X DOMAIN live) :
          /\ \A p \in found : Matches(p[2], p[1])
          /\ \A p, q \in found : p[1] = q[1] => p = q
          /\ \A k \in Keys : (\E u \in DOMAIN live : Matches(u, k)) =>
                \E p \in found : p[1] = k
          /\ map' = [k \in {p[1] : p \in found} |->
                        LET u == (CHOOSE p \in found : p[1] = k)[2]
                        IN [uuid |-> u, record |-> live[u]]]
    /\ pace' = IF ~Unambiguous THEN "behind"
               ELSE IF pace \in {"applied", "settled"} THEN "settled" ELSE "read"
    /\ UNCHANGED <<manifest, live, plan, todo, refs, edits>>

People ==
    \/ \E k \in Keys : EditManifest(k)
    \/ \E u \in DOMAIN live : EditVariable(u)

Operators ==
    \/ StartApply \/ StopApply \/ ReadBack
    \/ \E op \in todo : ApplyOne(op)

Next == People \/ Build \/ Operators

Spec == Init /\ [][Next]_vars

---------------------------------------------------------------------------

TypeOK ==
    /\ IsPartial(manifest, Keys, Record)
    /\ IsPartial(live, Ids, Record)
    /\ map # None => IsPartial(map, Keys, Entry)
    /\ plan # None => plan \in SUBSET Operation
    /\ todo \in SUBSET Operation
    /\ refs # None => refs \in [Used -> Ref]
    /\ pace \in {"read", "built", "applying", "applied", "settled", "behind"}
    /\ edits \in 0..MaxEdits

\* A plan made from a map that was up to date, applied whole and read back
\* leaves nothing to plan: what every later step of a build relies on ("the
\* site matches the manifest", Plan.summary).
PlanSettles == pace = "settled" => Operations = {}

\* A key keeps its variable when a plan was applied whole: a rename changes
\* the label of the same record, "the uuid - and so every reference to it -
\* is untouched" (_diff).  Unless two variables share a label, which "makes
\* read-back ambiguous" (Manifest.from_dict).
KeysKeepTheirVariable ==
    [][ReadBack /\ pace = "applied" /\ map # None /\ Unambiguous =>
          \A k \in DOMAIN manifest \cap DOMAIN map :
              k \in DOMAIN map' /\ map'[k].uuid = map[k].uuid]_vars

\* When the map is up to date, a reference a build composes names a live
\* variable and falls back to what that variable shows ("the fallback is the
\* live value, not the manifest's", Applied.ref).
FallbackIsLive ==
    [][Build /\ pace \in {"read", "built", "settled"} /\ map # None =>
          \A k \in Used : /\ refs'[k].uuid \in DOMAIN live
                          /\ refs'[k].literal = live[refs'[k].uuid].value]_vars

=============================================================================
