------------------------- MODULE ThemeTokensProofs -------------------------
(***************************************************************************)
(* Theorems about ThemeTokens, for every set of keys, labels, values,      *)
(* types, groups and tokens, and every bound on edits and variables.       *)
(***************************************************************************)
EXTENDS ThemeTokens, FiniteSetTheorems, TLAPS

---------------------------------------------------------------------------
(* Lemmas about the operators the model is built from.                     *)

\* What a mint stores is a record, and differs in nothing the plan looks at.
LEMMA StoredLemma ==
    ASSUME NEW t \in Record
    PROVE  /\ Stored(t) \in Record
           /\ WantedDark(t) \in Values \cup {None}
           /\ \A k, u : Changes(k, t, u, Stored(t)) = {}
<1>1. /\ Stored(t) \in Record /\ WantedDark(t) \in Values \cup {None}
      /\ Stored(t).value = t.value /\ Stored(t).dark = WantedDark(t)
      /\ Stored(t).label = t.label /\ Stored(t).group = t.group
  BY DEF Stored, WantedDark, Record
<1> QED
  BY <1>1 DEF Changes

\* What the changes of one key are.
LEMMA ChangesLemma ==
    ASSUME NEW k \in Keys, NEW t \in Record, NEW u \in Ids, NEW r \in Record
    PROVE  /\ Changes(k, t, u, r) \subseteq Operation
           /\ \A op \in Changes(k, t, u, r) :
                 op.kind # "mint" /\ op.key = k /\ op.uuid = u
BY StoredLemma DEF Changes, Operation, Record

LEMMA NoChange ==
    ASSUME NEW k, NEW t, NEW u, NEW r
    PROVE  Changes(k, t, u, r) = {} <=>
              /\ r.value = t.value /\ r.dark = WantedDark(t) /\ r.label = t.label
              /\ t.group = None \/ r.group = t.group
<1> DEFINE V == [kind |-> "set_value", key |-> k, uuid |-> u, value |-> t.value]
           D == [kind |-> "set_dark_value", key |-> k, uuid |-> u, dark |-> WantedDark(t)]
           L == [kind |-> "rename", key |-> k, uuid |-> u, label |-> t.label]
           G == [kind |-> "set_group", key |-> k, uuid |-> u, group |-> t.group]
<1>1. Changes(k, t, u, r) =
         {op \in {V} : r.value # t.value} \cup {op \in {D} : r.dark # WantedDark(t)} \cup
         {op \in {L} : r.label # t.label} \cup
         {op \in {G} : t.group # None /\ r.group # t.group}
  BY DEF Changes
<1> HIDE DEF V, D, L, G
<1> QED
  BY <1>1

---------------------------------------------------------------------------
(* The invariant: what map, plan and a running application know of each    *)
(* other and of the site.                                                  *)

\* A variable's uuid is the number of those before it, plus one.
NumberedInv == \E n \in 0..MaxVariables : DOMAIN live = 1..n

\* The map names live variables, each for one key.
MapInv ==
    /\ \A k \in DOMAIN Live : Live[k].uuid \in DOMAIN live
    /\ \A k, l \in DOMAIN Live : Live[k].uuid = Live[l].uuid => k = l

\* Until an application starts, or somebody edits the site, the map shows what
\* is live.
ReadInv ==
    pace \in {"read", "built", "settled"} =>
        \A k \in DOMAIN Live : Live[k].record = live[Live[k].uuid]

\* The plan of the last build is what manifest and map call for.
PlanInv == pace = "built" => plan = Operations

\* An operation that makes a variable what the manifest says of its key.
Toward(op) ==
    /\ op.key \in DOMAIN manifest
    /\ IF op.kind = "mint"
       THEN /\ op.key \notin DOMAIN Live
            /\ op.record = Stored(manifest[op.key])
       ELSE /\ op.key \in DOMAIN Live
            /\ op.uuid = Live[op.key].uuid
            /\ op.kind = "set_value" => op.value = manifest[op.key].value
            /\ op.kind = "set_dark_value" => op.dark = WantedDark(manifest[op.key])
            /\ op.kind = "rename" => op.label = manifest[op.key].label
            /\ op.kind = "set_group" => op.group = manifest[op.key].group

\* What of key k is not as the manifest says is still to be done: its own
\* variable is only ever changed towards the manifest, and a new one gets a
\* uuid that the map does not name.
OnItsWay(k) ==
    IF k \in DOMAIN Live
    THEN Changes(k, manifest[k], Live[k].uuid, live[Live[k].uuid]) \subseteq todo
    ELSE \/ [kind |-> "mint", key |-> k, record |-> Stored(manifest[k])] \in todo
         \/ \E u \in DOMAIN live :
               /\ \A l \in DOMAIN Live : Live[l].uuid # u
               /\ Changes(k, manifest[k], u, live[u]) = {}

ApplyInv ==
    /\ pace \in {"applying", "applied"} =>
          /\ \A op \in todo : Toward(op)
          /\ \A k \in DOMAIN manifest : OnItsWay(k)
    /\ pace = "applied" => todo = {}

IInv ==
    /\ TypeOK /\ NumberedInv /\ MapInv
    /\ ReadInv /\ PlanInv /\ ApplyInv /\ PlanSettles

---------------------------------------------------------------------------
(* Type correctness.                                                       *)

\* What the map says of the keys it has.
LEMMA LiveType ==
    ASSUME TypeOK
    PROVE  /\ DOMAIN Live \subseteq Keys
           /\ \A k \in DOMAIN Live : Live[k] \in Entry /\ Live[k].uuid \in Ids
                                     /\ Live[k].record \in Record
           /\ map # None => Live = map
           /\ map = None => DOMAIN Live = {}
<1>1. DOMAIN << >> = {}
  OBVIOUS
<1> QED
  BY <1>1 DEF TypeOK, IsPartial, Live, Entry

\* A file that is there is not a missing one.
LEMMA MapThere ==
    ASSUME NEW m, IsPartial(m, Keys, Entry)
    PROVE  m # None
<1>1. m \in [DOMAIN m -> Entry]
  BY DEF IsPartial
<1> QED
  BY <1>1, NoFileAssumption DEF IsPartial

\* The operations of a plan are typed, and lead towards the manifest.
LEMMA OperationsLemma ==
    ASSUME TypeOK
    PROVE  /\ Operations \subseteq Operation
           /\ \A op \in Operations : Toward(op)
<1> SUFFICES ASSUME NEW op \in Operations
             PROVE  op \in Operation /\ Toward(op)
  OBVIOUS
<1>1. CASE \E k \in DOMAIN manifest \ DOMAIN Live :
              op = [kind |-> "mint", key |-> k, record |-> Stored(manifest[k])]
  BY <1>1, StoredLemma DEF Operation, Toward, TypeOK, IsPartial
<1>2. CASE \E k \in DOMAIN manifest \cap DOMAIN Live :
              op \in Changes(k, manifest[k], Live[k].uuid, Live[k].record)
  <2>1. PICK k \in DOMAIN manifest \cap DOMAIN Live :
           op \in Changes(k, manifest[k], Live[k].uuid, Live[k].record)
    BY <1>2
  <2>2. k \in Keys /\ manifest[k] \in Record /\ Live[k].uuid \in Ids /\ Live[k].record \in Record
    BY LiveType DEF TypeOK, IsPartial
  <2>3. op \in Operation /\ op.kind # "mint" /\ op.key = k /\ op.uuid = Live[k].uuid
    BY <2>1, <2>2, ChangesLemma
  <2>4. /\ op.kind = "set_value" => op.value = manifest[k].value
        /\ op.kind = "set_dark_value" => op.dark = WantedDark(manifest[k])
        /\ op.kind = "rename" => op.label = manifest[k].label
        /\ op.kind = "set_group" => op.group = manifest[k].group
    BY <2>1 DEF Changes
  <2> QED
    BY <2>1, <2>3, <2>4 DEF Toward
<1> QED
  BY <1>1, <1>2 DEF Operations

\* How many variables there are, and the uuid of the next one.
LEMMA NumberedLemma ==
    ASSUME NumberedInv
    PROVE  /\ Cardinality(DOMAIN live) \in 0..MaxVariables
           /\ DOMAIN live = 1..Cardinality(DOMAIN live)
<1>1. PICK n \in 0..MaxVariables : DOMAIN live = 1..n
  BY DEF NumberedInv
<1>2. Cardinality(1..n) = n
  BY <1>1, FS_Interval, TokensAssumption
<1> QED
  BY <1>1, <1>2

\* What one operation does to the variables of the site.
LEMMA ApplyLemma ==
    ASSUME TypeOK, NumberedInv, NEW op \in todo, ApplyOne(op)
    PROVE  /\ IsPartial(live', Ids, Record) /\ NumberedInv'
           /\ DOMAIN live \subseteq DOMAIN live'
           /\ op.kind = "mint" =>
                 /\ \A u \in DOMAIN live : live'[u] = live[u]
                 /\ \E u \in DOMAIN live' \ DOMAIN live : live'[u] = op.record
           /\ op.kind # "mint" =>
                 /\ DOMAIN live' = DOMAIN live
                 /\ \A u \in DOMAIN live \ {op.uuid} : live'[u] = live[u]
<1>1. op \in Operation
  BY DEF TypeOK
<1>2. CASE op.kind = "mint"
  <2> DEFINE n == Cardinality(DOMAIN live)
  <2>1. n \in Nat /\ n + 1 <= MaxVariables /\ DOMAIN live = 1..n
    BY <1>2, NumberedLemma, TokensAssumption DEF ApplyOne
  <2>2. live' = [u \in 1..(n + 1) |-> IF u \in DOMAIN live THEN live[u] ELSE op.record]
    BY <1>2 DEF ApplyOne
  <2>3. op.record \in Record
    BY <1>1, <1>2 DEF Operation
  <2> HIDE DEF n
  <2>4. 1..(n + 1) \subseteq Ids /\ n + 1 \in 0..MaxVariables
    BY <2>1, TokensAssumption DEF Ids
  <2>5. \A u \in 1..(n + 1) : live'[u] \in Record
    BY <2>2, <2>3 DEF TypeOK, IsPartial
  <2>6. IsPartial(live', Ids, Record) /\ NumberedInv'
    BY <2>2, <2>4, <2>5 DEF IsPartial, NumberedInv
  <2>7. n + 1 \in DOMAIN live' \ DOMAIN live /\ live'[n + 1] = op.record
    BY <2>1, <2>2
  <2> QED
    BY <1>2, <2>1, <2>2, <2>6, <2>7
<1>3. CASE op.kind # "mint"
  <2> DEFINE r == CASE op.kind = "set_value" -> [live[op.uuid] EXCEPT !.value = op.value]
                    [] op.kind = "set_dark_value" -> [live[op.uuid] EXCEPT !.dark = op.dark]
                    [] op.kind = "rename" -> [live[op.uuid] EXCEPT !.label = op.label]
                    [] op.kind = "set_group" -> [live[op.uuid] EXCEPT !.group = op.group]
  <2>1. live' = [live EXCEPT ![op.uuid] = r]
    BY <1>3 DEF ApplyOne
  <2>2. ASSUME op.uuid \in DOMAIN live PROVE r \in Record
    <3>1. live[op.uuid] \in Record
      BY <2>2 DEF TypeOK, IsPartial
    <3> QED
      BY <1>1, <1>3, <3>1 DEF Operation, Record
  <2> HIDE DEF r
  <2>3. live' = [u \in DOMAIN live |-> IF u = op.uuid THEN r ELSE live[u]]
    BY <2>1
  <2>4. IsPartial(live', Ids, Record) /\ NumberedInv'
    BY <2>2, <2>3 DEF TypeOK, IsPartial, NumberedInv
  <2> QED
    BY <1>3, <2>3, <2>4
<1> QED
  BY <1>2, <1>3

\* What the map says after the site was read back.
LEMMA ReadBackLemma ==
    ASSUME TypeOK, ReadBack
    PROVE  /\ IsPartial(map', Keys, Entry) /\ map' # None /\ Live' = map'
           /\ \A k \in DOMAIN map' : \E u \in DOMAIN live :
                 Matches(u, k) /\ map'[k] = [uuid |-> u, record |-> live[u]]
           /\ \A k \in Keys : (\E u \in DOMAIN live : Matches(u, k)) => k \in DOMAIN map'
<1>1. PICK found \in SUBSET (Keys \X DOMAIN live) :
         /\ \A p \in found : Matches(p[2], p[1])
         /\ \A p, q \in found : p[1] = q[1] => p = q
         /\ \A k \in Keys : (\E u \in DOMAIN live : Matches(u, k)) =>
               \E p \in found : p[1] = k
         /\ map' = [k \in {p[1] : p \in found} |->
                       LET u == (CHOOSE p \in found : p[1] = k)[2]
                       IN [uuid |-> u, record |-> live[u]]]
  BY DEF ReadBack
<1>2. ASSUME NEW k \in DOMAIN map'
      PROVE  \E u \in DOMAIN live :
                Matches(u, k) /\ map'[k] = [uuid |-> u, record |-> live[u]]
  <2> DEFINE p == CHOOSE q \in found : q[1] = k
  <2>1. p \in found /\ p[1] = k
    BY <1>1, <1>2
  <2>2. map'[k] = [uuid |-> p[2], record |-> live[p[2]]]
    BY <1>1, <1>2
  <2>3. p[2] \in DOMAIN live /\ Matches(p[2], k)
    BY <1>1, <2>1
  <2> HIDE DEF p
  <2> QED
    BY <2>2, <2>3
<1>3. DOMAIN map' \subseteq Keys /\ map' = [k \in DOMAIN map' |-> map'[k]]
  BY <1>1
<1>4. \A k \in DOMAIN map' : map'[k] \in Entry
  <2> TAKE k \in DOMAIN map'
  <2>1. PICK u \in DOMAIN live : map'[k] = [uuid |-> u, record |-> live[u]]
    BY <1>2
  <2> QED
    BY <2>1 DEF Entry, TypeOK, IsPartial
<1>5. IsPartial(map', Keys, Entry)
  BY <1>3, <1>4 DEF IsPartial
<1>6. map' # None
  BY <1>5, MapThere
<1>7. \A k \in Keys : (\E u \in DOMAIN live : Matches(u, k)) => k \in DOMAIN map'
  BY <1>1
<1> QED
  BY <1>2, <1>5, <1>6, <1>7 DEF Live

LEMMA TypeStep ==
    ASSUME TypeOK, NumberedInv, [Next]_vars
    PROVE  TypeOK'
<1>1. ASSUME NEW k \in Keys, EditManifest(k) PROVE TypeOK'
  <2>1. edits' \in 0..MaxEdits
    BY <1>1, TokensAssumption DEF EditManifest, Edit, TypeOK
  <2>2. IsPartial(manifest', Keys, Record)
    <3>1. CASE \E t \in Tokens :
                  manifest' = [l \in DOMAIN manifest \cup {k} |->
                                  IF l = k THEN t ELSE manifest[l]]
      BY <3>1, TokensAssumption DEF TypeOK, IsPartial
    <3>2. CASE manifest' = [l \in DOMAIN manifest \ {k} |-> manifest[l]]
      BY <3>2 DEF TypeOK, IsPartial
    <3> QED
      BY <1>1, <3>1, <3>2 DEF EditManifest
  <2> QED
    BY <1>1, <2>1, <2>2 DEF EditManifest, TypeOK
<1>2. ASSUME NEW u \in DOMAIN live, EditVariable(u) PROVE TypeOK'
  <2>1. edits' \in 0..MaxEdits
    BY <1>2, TokensAssumption DEF EditVariable, Edit, TypeOK
  <2>2. PICK t \in Tokens : live' = [live EXCEPT ![u] = Stored(t)]
    BY <1>2 DEF EditVariable
  <2>3. Stored(t) \in Record
    BY StoredLemma, TokensAssumption
  <2>4. IsPartial(live', Ids, Record)
    BY <2>2, <2>3 DEF TypeOK, IsPartial
  <2> QED
    BY <1>2, <2>1, <2>4 DEF EditVariable, TypeOK
<1>3. ASSUME Build PROVE TypeOK'
  <2>1. plan' \in SUBSET Operation
    BY <1>3, OperationsLemma DEF Build
  <2>2. refs' \in [Used -> Ref]
    <3>1. ASSUME NEW k \in Used PROVE Reference(k) \in Ref
      <4>1. CASE map = None
        BY <1>3, <3>1, <4>1 DEF Build, Reference, Ref, TypeOK, IsPartial, Record
      <4>2. CASE map # None
        BY <1>3, <3>1, <4>2 DEF Build, Reference, Ref, TypeOK, IsPartial, Entry, Record
      <4> QED
        BY <4>1, <4>2
    <3> QED
      BY <1>3, <3>1 DEF Build
  <2>3. pace' \in {"read", "built", "applying", "applied", "settled", "behind"}
    BY <1>3 DEF Build, TypeOK
  <2> QED
    BY <1>3, <2>1, <2>2, <2>3 DEF Build, TypeOK
<1>4. ASSUME StartApply PROVE TypeOK'
  BY <1>4 DEF StartApply, TypeOK
<1>5. ASSUME StopApply PROVE TypeOK'
  BY <1>5 DEF StopApply, TypeOK
<1>6. ASSUME NEW op \in todo, ApplyOne(op) PROVE TypeOK'
  <2>1. IsPartial(live', Ids, Record)
    BY <1>6, ApplyLemma
  <2> QED
    BY <1>6, <2>1 DEF ApplyOne, TypeOK
<1>7. ASSUME ReadBack PROVE TypeOK'
  <2>1. IsPartial(map', Keys, Entry)
    BY <1>7, ReadBackLemma
  <2> QED
    BY <1>7, <2>1 DEF ReadBack, TypeOK
<1>8. CASE UNCHANGED vars
  BY <1>8 DEF vars, TypeOK
<1> QED
  BY <1>1, <1>2, <1>3, <1>4, <1>5, <1>6, <1>7, <1>8 DEF Next, People, Operators

---------------------------------------------------------------------------
(* The other parts of the invariant, one by one.                           *)

LEMMA NumberedStep ==
    ASSUME TypeOK, NumberedInv, [Next]_vars
    PROVE  NumberedInv'
<1>1. CASE \E op \in todo : ApplyOne(op)
  BY <1>1, ApplyLemma
<1>2. CASE \E u \in DOMAIN live : EditVariable(u)
  BY <1>2 DEF EditVariable, NumberedInv
<1>3. CASE UNCHANGED live
  BY <1>3 DEF NumberedInv
<1> QED
  BY <1>1, <1>2, <1>3 DEF Next, vars, People, Operators, EditManifest, Build,
     StartApply, StopApply, ReadBack

\* A variable never goes, and a key keeps its own unless the site is read
\* back, when two keys that match a variable are one.
LEMMA MapStep ==
    ASSUME TypeOK, NumberedInv, MapInv, [Next]_vars
    PROVE  MapInv'
<1>1. DOMAIN live \subseteq DOMAIN live'
  <2>1. CASE \E op \in todo : ApplyOne(op)
    BY <2>1, ApplyLemma
  <2>2. CASE \E u \in DOMAIN live : EditVariable(u)
    BY <2>2 DEF EditVariable
  <2>3. CASE UNCHANGED live
    BY <2>3
  <2> QED
    BY <2>1, <2>2, <2>3 DEF Next, vars, People, Operators, EditManifest, Build,
       StartApply, StopApply, ReadBack
<1>2. CASE UNCHANGED map
  <2>1. Live' = Live
    BY <1>2 DEF Live
  <2> QED
    BY <1>1, <2>1 DEF MapInv
<1>3. CASE ReadBack
  <2>1. \A k \in DOMAIN Live' : \E u \in DOMAIN live :
           Matches(u, k) /\ Live'[k] = [uuid |-> u, record |-> live[u]]
    BY <1>3, ReadBackLemma
  <2>2. ASSUME NEW k \in DOMAIN Live', NEW l \in DOMAIN Live',
               Live'[k].uuid = Live'[l].uuid
        PROVE  k = l
    <3>1. PICK u \in DOMAIN live : Live'[k].uuid = u /\ Matches(u, k) /\ Matches(u, l)
      BY <2>1, <2>2
    <3> QED
      BY <1>3, <3>1 DEF Matches, ReadBack, Loadable, MapInv
  <2>3. \A k \in DOMAIN Live' : Live'[k].uuid \in DOMAIN live'
    BY <1>1, <2>1
  <2> QED
    BY <2>2, <2>3 DEF MapInv
<1> QED
  BY <1>2, <1>3 DEF Next, vars, People, Operators, EditManifest, EditVariable,
     Build, StartApply, StopApply, ApplyOne

LEMMA ReadStep ==
    ASSUME TypeOK, ReadInv, [Next]_vars
    PROVE  ReadInv'
<1>1. CASE ReadBack
  <2>1. \A k \in DOMAIN Live' : Live'[k].record = live[Live'[k].uuid]
    BY <1>1, ReadBackLemma
  <2> QED
    BY <1>1, <2>1 DEF ReadBack, ReadInv
<1>2. CASE UNCHANGED <<map, live>> /\ (pace' \in {"read", "built", "settled"} =>
              pace \in {"read", "built", "settled"})
  BY <1>2 DEF ReadInv, Live
<1>3. CASE pace' \notin {"read", "built", "settled"}
  BY <1>3 DEF ReadInv
<1> QED
  BY <1>1, <1>2, <1>3 DEF Next, vars, People, Operators, EditManifest, EditVariable,
     Build, StartApply, StopApply, ApplyOne

LEMMA PlanStep ==
    ASSUME PlanInv, [Next]_vars
    PROVE  PlanInv'
<1>1. CASE Build
  BY <1>1 DEF Build, PlanInv, Operations, Live
<1>2. CASE UNCHANGED vars
  BY <1>2 DEF vars, PlanInv, Operations, Live
<1>3. CASE pace' # "built"
  BY <1>3 DEF PlanInv
<1> QED
  BY <1>1, <1>2, <1>3 DEF Next, People, Operators, EditManifest, EditVariable,
     StartApply, StopApply, ApplyOne, ReadBack

\* One operation of a plan that is being applied takes its key to where the
\* manifest has it, or one field of it, and leaves the other keys alone.
LEMMA ApplyOneStep ==
    ASSUME TypeOK, NumberedInv, MapInv, ApplyInv, pace = "applying",
           NEW op \in todo, ApplyOne(op), NEW k \in DOMAIN manifest
    PROVE  OnItsWay(k)'
<1>1. OnItsWay(k) /\ Toward(op)
  BY DEF ApplyInv
<1>2. manifest' = manifest /\ Live' = Live /\ todo' = todo \ {op}
  BY DEF ApplyOne, Live
<1>3. k \in Keys /\ manifest[k] \in Record
  BY DEF TypeOK, IsPartial
<1>4. \A u \in DOMAIN live : live[u] \in Record /\ u \in Ids
  BY DEF TypeOK, IsPartial
<1>5. CASE k \in DOMAIN Live
  <2> DEFINE u == Live[k].uuid
  <2>1. u \in DOMAIN live /\ Changes(k, manifest[k], u, live[u]) \subseteq todo
    BY <1>1, <1>5 DEF OnItsWay, MapInv
  <2>2. Changes(k, manifest[k], u, live'[u]) \subseteq todo \ {op}
    <3>1. CASE op.kind = "mint"
      <4>1. live'[u] = live[u]
        BY <2>1, <3>1, ApplyLemma
      <4>2. op \notin Changes(k, manifest[k], u, live[u])
        BY <1>3, <1>4, <2>1, <3>1, ChangesLemma
      <4> QED
        BY <2>1, <4>1, <4>2
    <3>2. CASE op.kind # "mint" /\ op.key # k
      <4>1. op.uuid # u
        BY <1>1, <1>5, <3>2 DEF Toward, MapInv
      <4>2. live'[u] = live[u]
        BY <2>1, <3>2, <4>1, ApplyLemma
      <4>3. op \notin Changes(k, manifest[k], u, live[u])
        BY <1>3, <1>4, <2>1, <3>2, ChangesLemma
      <4> QED
        BY <2>1, <4>2, <4>3
    <3>3. CASE op.kind # "mint" /\ op.key = k
      <4>1. op \in Operation /\ op.uuid = u /\ live[u] \in Record
        BY <1>1, <1>4, <2>1, <3>3 DEF Toward, TypeOK
      <4> HIDE DEF u
      <4>2. CASE op.kind = "set_value"
        <5>1. live'[u] = [live[u] EXCEPT !.value = manifest[k].value]
          BY <1>1, <2>1, <3>3, <4>1, <4>2 DEF Toward, ApplyOne
        <5>2. op = [kind |-> "set_value", key |-> k, uuid |-> u, value |-> manifest[k].value]
          BY <1>1, <3>3, <4>1, <4>2 DEF Toward, Operation
        <5> QED
          BY <2>1, <4>1, <5>1, <5>2 DEF Changes, Record
      <4>3. CASE op.kind = "set_dark_value"
        <5>1. live'[u] = [live[u] EXCEPT !.dark = WantedDark(manifest[k])]
          BY <1>1, <2>1, <3>3, <4>1, <4>3 DEF Toward, ApplyOne
        <5>2. op = [kind |-> "set_dark_value", key |-> k, uuid |-> u,
                    dark |-> WantedDark(manifest[k])]
          BY <1>1, <3>3, <4>1, <4>3 DEF Toward, Operation
        <5> QED
          BY <2>1, <4>1, <5>1, <5>2 DEF Changes, Record
      <4>4. CASE op.kind = "rename"
        <5>1. live'[u] = [live[u] EXCEPT !.label = manifest[k].label]
          BY <1>1, <2>1, <3>3, <4>1, <4>4 DEF Toward, ApplyOne
        <5>2. op = [kind |-> "rename", key |-> k, uuid |-> u, label |-> manifest[k].label]
          BY <1>1, <3>3, <4>1, <4>4 DEF Toward, Operation
        <5> QED
          BY <2>1, <4>1, <5>1, <5>2 DEF Changes, Record
      <4>5. CASE op.kind = "set_group"
        <5>1. live'[u] = [live[u] EXCEPT !.group = manifest[k].group]
          BY <1>1, <2>1, <3>3, <4>1, <4>5 DEF Toward, ApplyOne
        <5>2. op = [kind |-> "set_group", key |-> k, uuid |-> u, group |-> manifest[k].group]
          BY <1>1, <3>3, <4>1, <4>5 DEF Toward, Operation
        <5> QED
          BY <2>1, <4>1, <5>1, <5>2 DEF Changes, Record
      <4> QED
        BY <3>3, <4>1, <4>2, <4>3, <4>4, <4>5 DEF Operation
    <3> QED
      BY <3>1, <3>2, <3>3
  <2> QED
    BY <1>2, <1>5, <2>2 DEF OnItsWay
<1>6. CASE k \notin DOMAIN Live
  <2> DEFINE mint == [kind |-> "mint", key |-> k, record |-> Stored(manifest[k])]
  <2>1. ASSUME NEW u \in DOMAIN live, \A l \in DOMAIN Live : Live[l].uuid # u,
               Changes(k, manifest[k], u, live[u]) = {}
        PROVE  u \in DOMAIN live' /\ Changes(k, manifest[k], u, live'[u]) = {}
    <3>1. op.kind # "mint" => op.uuid # u
      BY <1>1, <2>1 DEF Toward
    <3>2. live'[u] = live[u] /\ u \in DOMAIN live'
      BY <2>1, <3>1, ApplyLemma
    <3> QED
      BY <2>1, <3>2
  <2>2. ASSUME op = mint
        PROVE  \E u \in DOMAIN live' :
                  /\ \A l \in DOMAIN Live : Live[l].uuid # u
                  /\ Changes(k, manifest[k], u, live'[u]) = {}
    <3>1. PICK u \in DOMAIN live' \ DOMAIN live : live'[u] = Stored(manifest[k])
      BY <2>2, ApplyLemma
    <3>2. \A l \in DOMAIN Live : Live[l].uuid # u
      BY <3>1 DEF MapInv
    <3> QED
      BY <1>3, <3>1, <3>2, StoredLemma
  <2> HIDE DEF mint
  <2>3. mint \in todo \/ \E u \in DOMAIN live :
           /\ \A l \in DOMAIN Live : Live[l].uuid # u
           /\ Changes(k, manifest[k], u, live[u]) = {}
    BY <1>1, <1>6 DEF OnItsWay, mint
  <2>4. mint \in todo \ {op} \/ \E u \in DOMAIN live' :
           /\ \A l \in DOMAIN Live : Live[l].uuid # u
           /\ Changes(k, manifest[k], u, live'[u]) = {}
    BY <2>1, <2>2, <2>3
  <2> QED
    BY <1>2, <1>6, <2>4 DEF OnItsWay, mint
<1> QED
  BY <1>5, <1>6

LEMMA ApplyStep ==
    ASSUME IInv, [Next]_vars
    PROVE  ApplyInv'
<1> USE DEF IInv
<1>1. ASSUME NEW op \in todo, ApplyOne(op), pace = "applying"
      PROVE  ApplyInv'
  <2>1. \A k \in DOMAIN manifest' : OnItsWay(k)'
    <3>1. \A k \in DOMAIN manifest : OnItsWay(k)'
      BY <1>1, ApplyOneStep
    <3> QED
      BY <1>1, <3>1 DEF ApplyOne
  <2>2. \A q \in todo' : Toward(q)'
    BY <1>1 DEF ApplyOne, ApplyInv, Toward, Live
  <2>3. pace' = "applied" => todo' = {}
    BY <1>1 DEF ApplyOne
  <2> QED
    BY <2>1, <2>2, <2>3 DEF ApplyInv
<1>2. ASSUME StartApply, pace = "built"
      PROVE  ApplyInv'
  <2>1. /\ todo' = Operations /\ (pace' = "applied" => todo' = {})
        /\ manifest' = manifest /\ live' = live /\ Live' = Live
    BY <1>2 DEF StartApply, PlanInv, Live
  <2>2. \A op \in todo' : Toward(op)'
    BY <2>1, OperationsLemma DEF Toward
  <2>3. ASSUME NEW k \in DOMAIN manifest
        PROVE  OnItsWay(k)'
    <3>1. CASE k \in DOMAIN Live
      <4>1. Live[k].record = live[Live[k].uuid]
        BY <1>2, <3>1 DEF ReadInv
      <4>2. Changes(k, manifest[k], Live[k].uuid, Live[k].record) \subseteq Operations
        BY <2>3, <3>1 DEF Operations
      <4> QED
        BY <2>1, <3>1, <4>1, <4>2 DEF OnItsWay
    <3>2. CASE k \notin DOMAIN Live
      BY <2>1, <2>3, <3>2 DEF OnItsWay, Operations
    <3> QED
      BY <3>1, <3>2
  <2> QED
    BY <2>1, <2>2, <2>3 DEF ApplyInv
<1>3. CASE UNCHANGED <<manifest, live, map, todo>> /\ pace' = pace
  BY <1>3 DEF ApplyInv, Toward, OnItsWay, Live
<1>4. CASE pace' \notin {"applying", "applied"}
  BY <1>4 DEF ApplyInv
<1> QED
  BY <1>1, <1>2, <1>3, <1>4 DEF Next, vars, People, Operators, EditManifest,
     EditVariable, Build, StartApply, StopApply, ApplyOne, ReadBack

\* Once a plan was applied whole, each key of the manifest has a variable that
\* is as it says: its own, if it had one.
LEMMA AppliedLemma ==
    ASSUME IInv, pace \in {"applied", "settled"}, NEW k \in DOMAIN manifest
    PROVE  \E u \in DOMAIN live :
              /\ Changes(k, manifest[k], u, live[u]) = {}
              /\ k \in DOMAIN Live => u = Live[k].uuid
<1> USE DEF IInv
<1>1. CASE pace = "applied"
  BY <1>1 DEF ApplyInv, OnItsWay, MapInv
<1>2. CASE pace = "settled"
  <2>1. Operations = {}
    BY <1>2 DEF PlanSettles
  <2>2. k \in DOMAIN Live
    <3>1. k \notin DOMAIN Live =>
             [kind |-> "mint", key |-> k, record |-> Stored(manifest[k])] \in Operations
      BY DEF Operations
    <3> QED
      BY <2>1, <3>1
  <2>3. Changes(k, manifest[k], Live[k].uuid, Live[k].record) = {}
    BY <2>1, <2>2 DEF Operations
  <2>4. Live[k].uuid \in DOMAIN live /\ Live[k].record = live[Live[k].uuid]
    BY <1>2, <2>2 DEF MapInv, ReadInv
  <2> QED
    BY <2>3, <2>4
<1> QED
  BY <1>1, <1>2

\* Read back when no two variables share a label, the map has that variable.
LEMMA ReadBackFinds ==
    ASSUME IInv, pace \in {"applied", "settled"}, ReadBack, Unambiguous,
           NEW k \in DOMAIN manifest
    PROVE  /\ k \in DOMAIN map'
           /\ Changes(k, manifest[k], map'[k].uuid, map'[k].record) = {}
           /\ k \in DOMAIN Live => map'[k].uuid = Live[k].uuid
<1> USE DEF IInv
<1>1. PICK u \in DOMAIN live :
         /\ Changes(k, manifest[k], u, live[u]) = {}
         /\ k \in DOMAIN Live => u = Live[k].uuid
  BY AppliedLemma
<1>2. live[u].label = manifest[k].label
  BY <1>1, NoChange
<1>3. k \in Keys /\ Matches(u, k)
  BY <1>2 DEF Matches, TypeOK, IsPartial
<1>4. PICK v \in DOMAIN live : Matches(v, k) /\ map'[k] = [uuid |-> v, record |-> live[v]]
  BY <1>3, ReadBackLemma
<1>5. v = u
  BY <1>2, <1>4 DEF Matches, Unambiguous
<1> QED
  BY <1>1, <1>3, <1>4, <1>5, ReadBackLemma

LEMMA SettledStep ==
    ASSUME IInv, [Next]_vars
    PROVE  PlanSettles'
<1>1. ASSUME ReadBack, Unambiguous, pace \in {"applied", "settled"}
      PROVE  PlanSettles'
  <2>1. Live' = map' /\ manifest' = manifest
    BY <1>1, ReadBackLemma DEF ReadBack, IInv
  <2>2. \A k \in DOMAIN manifest :
           /\ k \in DOMAIN map'
           /\ Changes(k, manifest[k], map'[k].uuid, map'[k].record) = {}
    BY <1>1, ReadBackFinds
  <2>3. Operations' = {}
    BY <2>1, <2>2 DEF Operations
  <2> QED
    BY <2>3 DEF PlanSettles
<1>2. CASE UNCHANGED vars
  BY <1>2 DEF vars, IInv, PlanSettles, Operations, Live
<1>3. CASE pace' # "settled"
  BY <1>3 DEF PlanSettles
<1> QED
  BY <1>1, <1>2, <1>3 DEF Next, People, Operators, EditManifest, EditVariable,
     Build, StartApply, StopApply, ApplyOne, ReadBack

LEMMA InvInit == Init => IInv
<1> SUFFICES ASSUME Init PROVE IInv
  OBVIOUS
<1>1. DOMAIN manifest = {} /\ DOMAIN live = {} /\ DOMAIN Live = {} /\ todo = {}
  BY DEF Init, Live
<1>2. 0 \in 0..MaxVariables /\ 1..0 = {} /\ 0 \in 0..MaxEdits
  BY TokensAssumption
<1>3. manifest = [x \in DOMAIN manifest |-> manifest[x]] /\ live = [x \in DOMAIN live |-> live[x]]
  BY DEF Init
<1>4. TypeOK
  BY <1>1, <1>2, <1>3 DEF Init, TypeOK, IsPartial
<1>5. NumberedInv /\ MapInv /\ ReadInv /\ PlanInv /\ ApplyInv /\ PlanSettles
  BY <1>1, <1>2 DEF Init, NumberedInv, MapInv, ReadInv, PlanInv, ApplyInv, PlanSettles
<1> QED
  BY <1>4, <1>5 DEF IInv

LEMMA InvStep == IInv /\ [Next]_vars => IInv'
BY TypeStep, NumberedStep, MapStep, ReadStep, PlanStep, ApplyStep, SettledStep DEF IInv

---------------------------------------------------------------------------
(* The theorems.                                                           *)

LEMMA Invariance == Spec => []IInv
BY InvInit, InvStep, PTL DEF Spec

\* Every file, plan and record keeps its type: no plan of _diff names a
\* variable that is not there, and no reference of Applied.ref lacks a uuid.
THEOREM TokenPlanTypes == Spec => []TypeOK
<1>1. IInv => TypeOK
  BY DEF IInv
<1> QED
  BY <1>1, Invariance, PTL

\* A plan made from a map that was up to date, applied whole in any order and
\* read back leaves nothing to plan (_diff, Plan.summary).
THEOREM PlansSettle == Spec => []PlanSettles
<1>1. IInv => PlanSettles
  BY DEF IInv
<1> QED
  BY <1>1, Invariance, PTL

\* A key keeps its variable through a plan that was applied whole (_diff).
THEOREM VariablesKept == Spec => KeysKeepTheirVariable
<1>1. IInv /\ [Next]_vars =>
         [ReadBack /\ pace = "applied" /\ map # None /\ Unambiguous =>
             \A k \in DOMAIN manifest \cap DOMAIN map :
                 k \in DOMAIN map' /\ map'[k].uuid = map[k].uuid]_vars
  BY ReadBackFinds DEF Live
<1> QED
  BY <1>1, Invariance, PTL DEF Spec, KeysKeepTheirVariable

\* A reference composed from a map that is up to date names a live variable
\* and falls back to its value (resolve_tokens, Applied.ref).
THEOREM FallbacksLive == Spec => FallbackIsLive
<1>1. ASSUME IInv, Build, pace \in {"read", "built", "settled"}, map # None,
             NEW k \in Used
      PROVE  /\ refs'[k].uuid \in DOMAIN live
             /\ refs'[k].literal = live[refs'[k].uuid].value
  <2>1. k \in DOMAIN Live /\ Live = map
    BY <1>1 DEF Build, Live
  <2>2. refs'[k] = [uuid |-> map[k].uuid, literal |-> map[k].record.value]
    BY <1>1 DEF Build, Reference
  <2>3. map[k].uuid \in DOMAIN live /\ map[k].record = live[map[k].uuid]
    BY <1>1, <2>1 DEF IInv, MapInv, ReadInv
  <2> QED
    BY <2>2, <2>3
<1>2. IInv /\ [Next]_vars =>
         [Build /\ pace \in {"read", "built", "settled"} /\ map # None =>
             \A k \in Used : /\ refs'[k].uuid \in DOMAIN live
                             /\ refs'[k].literal = live[refs'[k].uuid].value]_vars
  BY <1>1
<1> QED
  BY <1>2, Invariance, PTL DEF Spec, FallbackIsLive

=============================================================================
