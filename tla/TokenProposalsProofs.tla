------------------------ MODULE TokenProposalsProofs ------------------------
(***************************************************************************)
(* The ownership of tokens, for any colours, pages and components, and any *)
(* number of edits and variables: what the decision record, a running      *)
(* apply, a block tree or a checkpoint refers to was minted for that very  *)
(* colour, and the tool touches no variable of somebody else.              *)
(***************************************************************************)
EXTENDS TokenProposals, FiniteSetTheorems, TLAPS

(* References and uuids that are what they say. *)
TreesOwned(t) ==
    /\ t \in [Labels -> SUBSET Value]
    /\ \A l \in Labels : \A v \in t[l] : v.ref # None => MintedFor(v.ref, v.colour)
FileOwned(f) ==
    /\ IsPartial(f, Colours, Proposal)
    /\ \A c \in DOMAIN f : f[c].uuid # None => MintedFor(f[c].uuid, c)

CheckpointInv ==
    checkpoint # None \/ ~Idle =>
        /\ checkpoint = [trees |-> checkpoint.trees, variables |-> checkpoint.variables]
        /\ TreesOwned(checkpoint.trees)
        /\ checkpoint.variables \in SUBSET Variable
FileInv == file # None \/ ~Idle => FileOwned(file)
JobInv ==
    /\ FileOwned(job.accepted)
    /\ \A c \in DOMAIN job.accepted : job.accepted[c].name # None
    /\ \A c \in DOMAIN job.mapping : MintedFor(job.mapping[c], c)

IInv == TypeOK /\ TreesOwned(trees) /\ CheckpointInv /\ FileInv /\ JobInv

(* Nothing that was minted is ever minted for another colour. *)
Grows == \A i, c : MintedFor(i, c) => MintedFor(i, c)'

-----------------------------------------------------------------------------
LEMMA NoJobOwned ==
    /\ NoJob = [accepted |-> NoJob.accepted, routes |-> NoJob.routes, mapping |-> NoJob.mapping]
    /\ IsPartial(NoJob.accepted, Colours, Proposal) /\ DOMAIN NoJob.accepted = {}
    /\ IsPartial(NoJob.mapping, Colours, Ids) /\ DOMAIN NoJob.mapping = {}
    /\ NoJob.routes \in SUBSET Pages
<1>1. NoJob.routes \in SUBSET Pages
    BY DEF NoJob
<1> QED BY <1>1 DEF NoJob, IsPartial

(* A file with proposals is no missing one. *)
LEMMA FileIsThere == ASSUME NEW f, FileOwned(f) PROVE f # None
<1>1. f \in [DOMAIN f -> Proposal] /\ DOMAIN f \in SUBSET Colours
    BY DEF FileOwned, IsPartial
<1> QED BY <1>1, NoFileAssumption

LEMMA InitLemma == Init => IInv
<1> SUFFICES ASSUME Init PROVE IInv
    OBVIOUS
<1> USE ProposalsAssumption
<1>1. TreesOwned(trees)
    BY DEF Init, TreesOwned, Literal, Value
<1>2. TypeOK
    <2>1. variables \in SUBSET Variable /\ origin \in Seq(Colours \cup {None}) /\ Len(origin) = 0
        BY DEF Init
    <2> QED BY <1>1, <2>1, NoJobOwned DEF Init, TypeOK, TreesOwned
<1>3. CheckpointInv /\ FileInv
    BY DEF Init, CheckpointInv, FileInv, Idle
<1>4. JobInv
    BY NoJobOwned DEF Init, JobInv, FileOwned
<1> QED BY <1>1, <1>2, <1>3, <1>4 DEF IInv

-----------------------------------------------------------------------------
(* What is owned stays owned while minted variables stay minted. *)
LEMMA TreesStay ==
    ASSUME Grows, NEW t, TreesOwned(t)
    PROVE  /\ t \in [Labels -> SUBSET Value]
           /\ \A l \in Labels : \A v \in t[l] : v.ref # None => MintedFor(v.ref, v.colour)'
BY DEF Grows, TreesOwned

LEMMA FileStays ==
    ASSUME Grows, NEW f, FileOwned(f)
    PROVE  /\ IsPartial(f, Colours, Proposal)
           /\ \A c \in DOMAIN f : f[c].uuid # None => MintedFor(f[c].uuid, c)'
BY DEF Grows, FileOwned

(* Variables and what is minted change, but the decision record, the trees   *)
(* and the checkpoint do not, and no apply moves on.                         *)
LEMMA Frame ==
    ASSUME IInv, Grows, UNCHANGED <<trees, checkpoint, file, pc, job>>, TypeOK'
    PROVE  IInv'
<1>1. TreesOwned(trees)'
    BY TreesStay DEF IInv, TreesOwned
<1>2. CheckpointInv'
    <2> SUFFICES ASSUME checkpoint # None \/ ~Idle
                 PROVE  /\ checkpoint = [trees |-> checkpoint.trees, variables |-> checkpoint.variables]
                        /\ TreesOwned(checkpoint.trees)'
                        /\ checkpoint.variables \in SUBSET Variable
        BY DEF CheckpointInv, Idle
    <2> QED BY TreesStay DEF IInv, CheckpointInv, TreesOwned
<1>3. FileInv'
    BY FileStays DEF IInv, FileInv, FileOwned, Idle
<1>4. JobInv'
    BY FileStays DEF IInv, JobInv, FileOwned, Grows
<1> QED BY <1>1, <1>2, <1>3, <1>4 DEF IInv

(* The actions of people that leave file and trees alone. *)
LEMMA VariablesLemma ==
    ASSUME IInv,
           \/ \E n \in Names, c \in Colours : CreateVariable(n, c)
           \/ \E x \in variables, n \in Names, c \in Colours : ChangeVariable(x, n, c)
           \/ \E x \in variables : DeleteVariable(x)
    PROVE  IInv'
<1> USE ProposalsAssumption
<1>1. CASE \E n \in Names, c \in Colours : CreateVariable(n, c)
    <2> PICK n \in Names, c \in Colours : CreateVariable(n, c)
        BY <1>1
    <2>1. /\ origin \in Seq(Colours \cup {None}) /\ Len(origin) < MaxVariables
          /\ origin' = Append(origin, None)
          /\ variables' = variables \cup {[id |-> Len(origin) + 1, name |-> n, value |-> c]}
        BY DEF CreateVariable, IInv, TypeOK
    <2>2. origin' \in Seq(Colours \cup {None}) /\ Len(origin') <= MaxVariables
        BY <2>1
    <2>3. variables' \in SUBSET Variable
        BY <2>1 DEF IInv, TypeOK, Variable, Ids
    <2>4. Grows
        BY <2>1 DEF Grows, MintedFor
    <2>5. TypeOK'
        BY <2>2, <2>3 DEF CreateVariable, EditUI, IInv, TypeOK
    <2> QED BY <2>4, <2>5, Frame DEF CreateVariable
<1>2. CASE \E x \in variables, n \in Names, c \in Colours : ChangeVariable(x, n, c)
    <2> PICK x \in variables, n \in Names, c \in Colours : ChangeVariable(x, n, c)
        BY <1>2
    <2>1. variables' \in SUBSET Variable
        <3>1. [x EXCEPT !.name = n, !.value = c] \in Variable
            BY DEF IInv, TypeOK, Variable
        <3> QED BY <3>1 DEF ChangeVariable, IInv, TypeOK
    <2>2. TypeOK'
        BY <2>1 DEF ChangeVariable, EditUI, IInv, TypeOK
    <2>3. Grows
        BY DEF ChangeVariable, Grows, MintedFor
    <2> QED BY <2>2, <2>3, Frame DEF ChangeVariable
<1>3. CASE \E x \in variables : DeleteVariable(x)
    <2> PICK x \in variables : DeleteVariable(x)
        BY <1>3
    <2>1. TypeOK'
        BY DEF DeleteVariable, EditUI, IInv, TypeOK
    <2>2. Grows
        BY DEF DeleteVariable, Grows, MintedFor
    <2> QED BY <2>1, <2>2, Frame DEF DeleteVariable
<1> QED BY <1>1, <1>2, <1>3

(* The trees change, and every reference in them is owned. *)
LEMMA TreesLemma ==
    ASSUME IInv, TreesOwned(trees'),
           UNCHANGED <<variables, origin, checkpoint, file>>,
           pc' \in {"idle", pc}, job' \in {NoJob, job}, edits' \in 0..MaxEdits,
           pc' # "idle" => pc = pc'
    PROVE  IInv'
<1>1. \A i, c : MintedFor(i, c)' <=> MintedFor(i, c)
    BY DEF MintedFor
<1>2. TypeOK'
    <2>1. pc' \in {"idle", "recorded", "minted", "persisted"}
        BY DEF IInv, TypeOK
    <2>2. /\ job' = [accepted |-> job'.accepted, routes |-> job'.routes, mapping |-> job'.mapping]
          /\ IsPartial(job'.accepted, Colours, Proposal)
          /\ job'.routes \in SUBSET Pages
          /\ IsPartial(job'.mapping, Colours, Ids)
        BY NoJobOwned DEF IInv, TypeOK
    <2> QED BY <2>1, <2>2 DEF IInv, TypeOK, TreesOwned
<1>3. TreesOwned(trees)'
    BY <1>1 DEF TreesOwned
<1>4. CheckpointInv'
    BY <1>1 DEF IInv, CheckpointInv, TreesOwned, Idle
<1>5. FileInv'
    BY <1>1 DEF IInv, FileInv, FileOwned, Idle
<1>6. JobInv'
    BY <1>1, NoJobOwned DEF IInv, JobInv, FileOwned
<1> QED BY <1>2, <1>3, <1>4, <1>5, <1>6 DEF IInv

LEMMA EditTreeLemma == ASSUME IInv, NEW l \in Labels, EditTree(l) PROVE IInv'
<1> USE ProposalsAssumption
<1>1. \/ \E c \in Palette[l] : trees' = [trees EXCEPT ![l] = @ \cup {Literal(c)}]
      \/ \E v \in trees[l] : trees' = [trees EXCEPT ![l] = @ \ {v}]
    BY DEF EditTree
<1>2. \A c \in Palette[l] : Literal(c) \in Value /\ Literal(c).ref = None
    BY DEF Literal, Value, Labels
<1>3. TreesOwned(trees)
    BY DEF IInv
<1>4. TreesOwned(trees')
    BY <1>1, <1>2, <1>3 DEF TreesOwned
<1> QED BY <1>4, TreesLemma DEF EditTree, EditUI, IInv, TypeOK

LEMMA KillLemma == ASSUME IInv, Kill PROVE IInv'
BY TreesLemma DEF Kill, IInv, TypeOK

LEMMA RewriteLemma == ASSUME IInv, Rewrite PROVE IInv'
<1>1. TreesOwned(checkpoint.trees) /\ TreesOwned(trees) /\ JobInv
    BY DEF IInv, CheckpointInv, Rewrite, Idle
<1>2. ASSUME NEW l \in Labels
      PROVE  /\ Rewritten(checkpoint.trees[l]) \in SUBSET Value
             /\ \A v \in Rewritten(checkpoint.trees[l]) :
                    v.ref # None => MintedFor(v.ref, v.colour)
    <2> SUFFICES ASSUME NEW w \in checkpoint.trees[l], NEW v,
                        v = IF w.ref = None /\ w.colour \in DOMAIN job.mapping
                            THEN [w EXCEPT !.ref = job.mapping[w.colour]] ELSE w
                 PROVE  v \in Value /\ (v.ref # None => MintedFor(v.ref, v.colour))
        BY DEF Rewritten
    <2>1. w \in Value /\ (w.ref # None => MintedFor(w.ref, w.colour))
        BY <1>1 DEF TreesOwned
    <2>2. CASE w.ref = None /\ w.colour \in DOMAIN job.mapping
        <3>1. job.mapping[w.colour] \in Ids /\ MintedFor(job.mapping[w.colour], w.colour)
            BY <1>1, <2>2 DEF IInv, TypeOK, IsPartial, JobInv
        <3>2. v \in Value /\ v.ref = job.mapping[w.colour] /\ v.colour = w.colour
            BY <2>1, <2>2, <3>1 DEF Value
        <3> QED BY <3>1, <3>2
    <2> QED BY <2>1, <2>2
<1>3. TreesOwned(trees')
    BY <1>1, <1>2 DEF Rewrite, TreesOwned
<1> QED BY <1>3, TreesLemma DEF Rewrite, IInv, TypeOK

(* The decision record changes, and every uuid in it is owned. *)
LEMMA FileLemma ==
    ASSUME IInv, FileOwned(file'), pc' = pc \/ ~Idle,
           UNCHANGED <<trees, variables, origin, checkpoint, job, edits>>,
           pc' \in {"idle", "recorded", "minted", "persisted"}
    PROVE  IInv'
<1>1. \A i, c : MintedFor(i, c)' <=> MintedFor(i, c)
    BY DEF MintedFor
<1>2. TypeOK'
    BY DEF IInv, TypeOK, FileOwned
<1>3. TreesOwned(trees)'
    BY <1>1 DEF IInv, TreesOwned
<1>4. CheckpointInv'
    BY <1>1 DEF IInv, CheckpointInv, TreesOwned, Idle
<1>5. FileInv'
    BY <1>1 DEF FileInv, FileOwned
<1>6. JobInv'
    BY <1>1 DEF IInv, JobInv, FileOwned
<1> QED BY <1>2, <1>3, <1>4, <1>5, <1>6 DEF IInv

LEMMA DecideLemma ==
    ASSUME IInv, NEW c \in Colours, NEW n \in Names \cup {None},
           NEW s \in {"proposed", "accepted"}, Decide(c, n, s)
    PROVE  IInv'
<1>1. FileOwned(file) /\ c \in DOMAIN file
    BY DEF IInv, FileInv, Decide
<1>2. file' = [file EXCEPT ![c].name = n, ![c].status = s]
    BY DEF Decide
<1>3. file[c] \in Proposal
    BY <1>1 DEF FileOwned, IsPartial
<1>4. [[file[c] EXCEPT !.name = n] EXCEPT !.status = s] \in Proposal
    BY <1>3 DEF Proposal
<1>5. [[file[c] EXCEPT !.name = n] EXCEPT !.status = s].uuid = file[c].uuid
    BY <1>3 DEF Proposal
<1>6. /\ DOMAIN file' = DOMAIN file
      /\ file' = [x \in DOMAIN file' |-> file'[x]]
      /\ file'[c] = [[file[c] EXCEPT !.name = n] EXCEPT !.status = s]
      /\ \A d \in DOMAIN file \ {c} : file'[d] = file[d]
    BY <1>1, <1>2
<1>7. FileOwned(file')
    BY <1>1, <1>4, <1>5, <1>6 DEF FileOwned, IsPartial
<1> QED BY <1>7, FileLemma DEF Decide, IInv, TypeOK

LEMMA MineLemma == ASSUME IInv, NEW routes \in SUBSET Pages, Mine(routes) PROVE IInv'
<1> USE ProposalsAssumption
<1>1. TreesOwned(checkpoint.trees)
    BY DEF IInv, CheckpointInv, Mine
<1>2. Mined(routes) \subseteq Colours
    BY <1>1 DEF Mined, Selected, TreesOwned, Value, Labels
<1>3. Undecided \in Proposal /\ Undecided.uuid = None
    BY DEF Undecided, Proposal
<1> DEFINE entry(c) ==
        IF file # None /\ c \in DOMAIN file
        THEN [Undecided EXCEPT !.name = file[c].name, !.status = file[c].status]
        ELSE Undecided
<1>4. ASSUME NEW c \in Mined(routes)
      PROVE  entry(c) \in Proposal /\ entry(c).uuid = None
    <2>1. CASE file # None /\ c \in DOMAIN file
        <3>1. file[c] \in Proposal
            BY <2>1 DEF IInv, TypeOK, IsPartial
        <3>2. file[c].name \in Names \cup {None} /\ file[c].status \in {"proposed", "accepted"}
            BY <3>1 DEF Proposal
        <3> QED BY <1>3, <2>1, <3>2 DEF Proposal
    <2>2. CASE ~(file # None /\ c \in DOMAIN file)
        BY <1>3, <2>2
    <2> QED BY <2>1, <2>2
<1>5. file' = [c \in Mined(routes) |-> entry(c)]
    BY DEF Mine
<1> HIDE DEF entry
<1>6. FileOwned(file')
    BY <1>2, <1>4, <1>5 DEF FileOwned, IsPartial
<1> QED BY <1>6, FileLemma DEF Mine, IInv, TypeOK

LEMMA PersistLemma == ASSUME IInv, Persist PROVE IInv'
<1> USE ProposalsAssumption
<1>1. FileOwned(file) /\ JobInv /\ IsPartial(job.mapping, Colours, Ids)
    BY DEF IInv, FileInv, TypeOK, Persist, Idle
<1> DEFINE entry(c) ==
        IF c \in DOMAIN job.mapping THEN [file[c] EXCEPT !.uuid = job.mapping[c]] ELSE file[c]
<1>2. ASSUME NEW c \in DOMAIN file
      PROVE  /\ entry(c) \in Proposal
             /\ entry(c).uuid # None => MintedFor(entry(c).uuid, c)
    <2>1. file[c] \in Proposal /\ (file[c].uuid # None => MintedFor(file[c].uuid, c))
        BY <1>1 DEF FileOwned, IsPartial
    <2>2. CASE c \in DOMAIN job.mapping
        <3>1. job.mapping[c] \in Ids /\ MintedFor(job.mapping[c], c)
            BY <1>1, <2>2 DEF JobInv, IsPartial
        <3>2. entry(c) \in Proposal /\ entry(c).uuid = job.mapping[c]
            BY <2>1, <2>2, <3>1 DEF Proposal
        <3> QED BY <3>1, <3>2
    <2> QED BY <2>1, <2>2
<1>3. file' = [c \in DOMAIN file |-> entry(c)]
    BY DEF Persist
<1> HIDE DEF entry
<1>4. FileOwned(file')
    BY <1>1, <1>2, <1>3 DEF FileOwned, IsPartial
<1> QED BY <1>4, FileLemma DEF Persist, Idle, IInv, TypeOK

(* A baseline keeps what it sees; an apply takes over what was accepted, and *)
(* finds a checkpoint that is what it sees.                                  *)
LEMMA BaselineLemma == ASSUME IInv, Baseline PROVE IInv'
<1>1. \A i, c : MintedFor(i, c)' <=> MintedFor(i, c)
    BY DEF Baseline, MintedFor
<1>2. TypeOK'
    BY DEF IInv, TypeOK, Baseline
<1>3. TreesOwned(trees)' /\ CheckpointInv'
    BY <1>1 DEF IInv, TypeOK, Baseline, CheckpointInv, TreesOwned
<1>4. FileInv' /\ JobInv'
    BY <1>1 DEF IInv, Baseline, FileInv, JobInv, FileOwned, Idle
<1> QED BY <1>2, <1>3, <1>4 DEF IInv

LEMMA StartApplyLemma ==
    ASSUME IInv, NEW routes \in SUBSET Pages, StartApply(routes) PROVE IInv'
<1>1. \A i, c : MintedFor(i, c)' <=> MintedFor(i, c)
    BY DEF StartApply, MintedFor
<1>2. FileOwned(file)
    BY DEF IInv, FileInv, StartApply
<1>3. FileOwned(Accepted) /\ \A c \in DOMAIN Accepted : Accepted[c].name # None
    <2>1. FileOwned(Accepted)
        BY <1>2 DEF Accepted, FileOwned, IsPartial
    <2>2. \A c \in DOMAIN Accepted : Accepted[c].name # None
        BY DEF StartApply, WellNamed
    <2> QED BY <2>1, <2>2
<1>4. job' = [accepted |-> Accepted, routes |-> routes, mapping |-> NoJob.mapping]
    BY DEF StartApply, NoJob
<1>5. TypeOK'
    <2>1. IsPartial(job'.accepted, Colours, Proposal)
        BY <1>3, <1>4 DEF FileOwned
    <2> QED BY <1>4, <2>1, NoJobOwned DEF IInv, TypeOK, StartApply
<1>6. CheckpointInv'
    <2>1. checkpoint = [trees |-> trees, variables |-> variables]
        BY DEF StartApply
    <2> QED BY <1>1, <2>1 DEF IInv, TypeOK, StartApply, CheckpointInv, TreesOwned
<1>7. TreesOwned(trees)' /\ FileInv'
    BY <1>1, <1>2 DEF IInv, StartApply, FileInv, TreesOwned, FileOwned
<1>8. JobInv'
    BY <1>1, <1>3, <1>4, NoJobOwned DEF JobInv, FileOwned
<1> QED BY <1>5, <1>6, <1>7, <1>8 DEF IInv

-----------------------------------------------------------------------------
(* What a mint hands out: for each colour without a variable, the next       *)
(* numbers, each to one colour, with none left over.                         *)
LEMMA NewNumbers ==
    ASSUME IInv, NEW new \in Minting
    PROVE  /\ Cardinality(ToInsert) \in Nat
           /\ Len(origin) \in Nat
           /\ \A c \in ToInsert : new[c] \in Len(origin) + 1 .. Len(origin) + Cardinality(ToInsert)
           /\ \A c \in ToInsert : new[c] \in Ids
           /\ \A c, d \in ToInsert : new[c] = new[d] => c = d
           /\ \A i \in Len(origin) + 1 .. Len(origin) + Cardinality(ToInsert) :
                  \E c \in ToInsert : new[c] = i
           /\ Len(origin) + Cardinality(ToInsert) <= MaxVariables
<1> USE ProposalsAssumption
<1> DEFINE n == Len(origin)
           k == Cardinality(ToInsert)
           T == n + 1 .. n + k
<1>1. IsFiniteSet(ToInsert)
    <2>1. ToInsert \subseteq Colours
        BY DEF ToInsert, IInv, TypeOK, IsPartial
    <2> QED BY <2>1, FS_Subset
<1>2. k \in Nat
    BY <1>1, FS_CardinalityType
<1>3. n \in Nat /\ n <= MaxVariables
    BY DEF IInv, TypeOK
<1>4. /\ new \in [ToInsert -> (n + 1) .. MaxVariables]
      /\ \A c, d \in ToInsert : new[c] = new[d] => c = d
      /\ \A c \in ToInsert : new[c] <= n + k
    BY DEF Minting
<1>5. \A c \in ToInsert : new[c] \in T /\ new[c] \in Ids
    BY <1>2, <1>3, <1>4 DEF Ids
<1>6. IsFiniteSet(T) /\ Cardinality(T) = k
    <2> HIDE DEF k, n
    <2>1. n + 1 \in Int /\ n + k \in Int
        BY <1>2, <1>3
    <2>2. IsFiniteSet(T) /\ Cardinality(T) = IF n + 1 > n + k THEN 0 ELSE (n + k) - (n + 1) + 1
        BY <2>1, FS_Interval
    <2> QED BY <1>2, <1>3, <2>2
<1>7. new \in Injection(ToInsert, T)
    <2>1. new \in [ToInsert -> T]
        BY <1>4, <1>5
    <2> QED BY <1>4, <2>1 DEF Injection, IsInjective
<1>8. new \in Surjection(ToInsert, T)
    BY <1>6, <1>7, FS_Injection
<1>9. \A i \in T : \E c \in ToInsert : new[c] = i
    BY <1>8 DEF Surjection
<1>10. n + k <= MaxVariables
    <2>1. CASE k = 0
        BY <1>3, <2>1
    <2>2. CASE k > 0
        <3>1. n + k \in T
            BY <1>2, <1>3, <2>2
        <3>2. PICK c \in ToInsert : new[c] = n + k
            BY <1>9, <3>1
        <3> QED BY <1>4, <3>2, <1>3
    <2> QED BY <1>2, <2>1, <2>2
<1> QED BY <1>2, <1>3, <1>4, <1>5, <1>9, <1>10

LEMMA FunctionIsSequence ==
    ASSUME NEW S, NEW m \in Nat, NEW f \in [1 .. m -> S]
    PROVE  f \in Seq(S) /\ Len(f) = m
OBVIOUS

(* The history of a mint: what was there stays, and each new number is       *)
(* minted for its colour.                                                    *)
LEMMA MintOrigin ==
    ASSUME IInv, NEW new \in Minting,
           origin' = [i \in 1..(Len(origin) + Cardinality(ToInsert)) |->
                        IF i \in DOMAIN origin THEN origin[i]
                        ELSE CHOOSE c \in ToInsert : new[c] = i]
    PROVE  /\ Grows
           /\ \A c \in ToInsert : MintedFor(new[c], c)'
           /\ origin' \in Seq(Colours \cup {None}) /\ Len(origin') <= MaxVariables
<1> USE ProposalsAssumption
<1> DEFINE n == Len(origin)
           k == Cardinality(ToInsert)
           minted(i) == CHOOSE c \in ToInsert : new[c] = i
<1>1. /\ k \in Nat /\ n \in Nat /\ n + k <= MaxVariables
      /\ \A c \in ToInsert : new[c] \in n + 1 .. n + k
      /\ \A c, d \in ToInsert : new[c] = new[d] => c = d
      /\ \A i \in n + 1 .. n + k : \E c \in ToInsert : new[c] = i
    BY NewNumbers
<1>2. DOMAIN origin = 1 .. n /\ \A i \in 1 .. n : origin[i] \in Colours \cup {None}
    BY DEF IInv, TypeOK
<1>3. origin' = [i \in 1 .. n + k |-> IF i \in 1 .. n THEN origin[i] ELSE minted(i)]
    BY <1>2
<1>4. \A c \in ToInsert : minted(new[c]) = c
    BY <1>1
<1>5. \A i \in n + 1 .. n + k : minted(i) \in ToInsert
    BY <1>1
<1>6. ToInsert \subseteq Colours
    BY DEF ToInsert, IInv, TypeOK, IsPartial
<1> HIDE DEF n, k, minted
<1>7. DOMAIN origin' = 1 .. n + k
    BY <1>3
<1>8. \A i \in 1 .. n : i \in 1 .. n + k /\ origin'[i] = origin[i]
    <2>1. \A i \in 1 .. n : i \in 1 .. n + k
        BY <1>1
    <2> QED BY <1>3, <2>1
<1>9. Grows
    BY <1>2, <1>7, <1>8 DEF Grows, MintedFor
<1>10. \A c \in ToInsert : MintedFor(new[c], c)'
    <2>1. \A c \in ToInsert : new[c] \in 1 .. n + k /\ new[c] \notin 1 .. n
        BY <1>1
    <2> QED BY <1>3, <1>4, <1>7, <2>1 DEF MintedFor
<1>11. \A i \in 1 .. n + k : origin'[i] \in Colours \cup {None}
    <2> SUFFICES ASSUME NEW i \in 1 .. n + k PROVE origin'[i] \in Colours \cup {None}
        OBVIOUS
    <2>1. CASE i \in 1 .. n
        BY <1>2, <1>8, <2>1
    <2>2. CASE i \notin 1 .. n
        <3>1. i \in n + 1 .. n + k
            BY <1>1, <2>2
        <3> QED BY <1>3, <1>5, <1>6, <2>2, <3>1
    <2> QED BY <2>1, <2>2
<1>12. origin' \in Seq(Colours \cup {None}) /\ Len(origin') = n + k
    <2>1. origin' \in [1 .. n + k -> Colours \cup {None}]
        BY <1>3, <1>7, <1>11
    <2>2. n + k \in Nat
        BY <1>1
    <2> QED BY <2>1, <2>2, FunctionIsSequence
<1> QED BY <1>1, <1>9, <1>10, <1>12

(* Of the variables there were, an owned one takes its colour and keeps its  *)
(* number and its name; every other stays as it is.                          *)
LEMMA UpdateLemma ==
    ASSUME IInv
    PROVE  /\ Updated \in SUBSET Variable
           /\ \A x \in variables : \E y \in Updated :
                /\ y.id = x.id /\ y.name = x.name
                /\ y = x \/ \E c \in ToUpdate : x \in OwnRecord(c)
<1>1. ASSUME NEW c \in ToUpdate, NEW x \in OwnRecord(c)
      PROVE  /\ x \in Variable /\ [x EXCEPT !.value = c] \in Variable
             /\ [x EXCEPT !.value = c].id = x.id /\ [x EXCEPT !.value = c].name = x.name
    <2>1. x \in Variable /\ c \in Colours
        BY DEF ToUpdate, OwnRecord, IInv, TypeOK, IsPartial
    <2> QED BY <2>1 DEF Variable
<1>2. Updated \in SUBSET Variable
    <2>1. variables \subseteq Variable
        BY DEF IInv, TypeOK
    <2> QED BY <1>1, <2>1 DEF Updated
<1>3. ASSUME NEW x \in variables
      PROVE  \E y \in Updated :
                /\ y.id = x.id /\ y.name = x.name
                /\ y = x \/ \E c \in ToUpdate : x \in OwnRecord(c)
    <2>1. CASE \A c \in ToUpdate : x \notin OwnRecord(c)
        <3>1. x \in Updated
            BY <2>1 DEF Updated
        <3> QED BY <3>1
    <2>2. ASSUME NEW c \in ToUpdate, x \in OwnRecord(c)
          PROVE  \E y \in Updated : /\ y.id = x.id /\ y.name = x.name
                                    /\ y = x \/ \E d \in ToUpdate : x \in OwnRecord(d)
        <3>1. [x EXCEPT !.value = c] \in Updated
            BY <2>2 DEF Updated
        <3> QED BY <1>1, <2>2, <3>1
    <2> QED BY <2>1, <2>2
<1> QED BY <1>2, <1>3

LEMMA MintLemma == ASSUME IInv, Mint PROVE IInv'
<1> USE ProposalsAssumption
<1> DEFINE mapped(new) ==
        [c \in DOMAIN job.accepted |-> IF c \in ToInsert THEN new[c]
                                       ELSE (CHOOSE x \in OwnRecord(c) : TRUE).id]
<1>1. PICK new \in Minting :
        /\ origin' = [i \in 1..(Len(origin) + Cardinality(ToInsert)) |->
                        IF i \in DOMAIN origin THEN origin[i]
                        ELSE CHOOSE c \in ToInsert : new[c] = i]
        /\ variables' = Updated \cup
              {[id |-> new[c], name |-> job.accepted[c].name, value |-> c] : c \in ToInsert}
        /\ IF \E c \in DOMAIN job.accepted : Collides(c)
           THEN pc' = "idle" /\ job' = NoJob
           ELSE pc' = "minted" /\ job' = [job EXCEPT !.mapping = mapped(new)]
    BY DEF Mint
<1>2. /\ Grows /\ \A c \in ToInsert : MintedFor(new[c], c)'
      /\ origin' \in Seq(Colours \cup {None}) /\ Len(origin') <= MaxVariables
    BY <1>1, MintOrigin
<1>3. \A c \in ToInsert : new[c] \in Ids
    BY NewNumbers
<1>4. ASSUME NEW c \in DOMAIN job.accepted
      PROVE  /\ c \in Colours /\ job.accepted[c].name \in Names
             /\ job.accepted[c].uuid # None => MintedFor(job.accepted[c].uuid, c)
    <2>1. job.accepted[c] \in Proposal /\ job.accepted[c].name # None
        BY DEF IInv, TypeOK, IsPartial, JobInv
    <2> QED BY <2>1 DEF IInv, TypeOK, IsPartial, JobInv, FileOwned, Proposal
<1>5. variables' \in SUBSET Variable
    <2>1. ASSUME NEW c \in ToInsert
          PROVE  [id |-> new[c], name |-> job.accepted[c].name, value |-> c] \in Variable
        BY <1>3, <1>4 DEF ToInsert, Variable
    <2>2. Updated \in SUBSET Variable
        BY UpdateLemma
    <2> QED BY <1>1, <2>1, <2>2
<1>6. UNCHANGED <<trees, checkpoint, file, edits>> /\ pc = "recorded"
    BY DEF Mint
<1>7. CASE \E c \in DOMAIN job.accepted : Collides(c)
    <2>1. pc' = "idle" /\ job' = NoJob
        BY <1>1, <1>7
    <2>2. TypeOK'
        BY <1>2, <1>5, <1>6, <2>1, NoJobOwned DEF IInv, TypeOK
    <2>3. TreesOwned(trees)'
        BY <1>2, <1>6, TreesStay DEF IInv, TreesOwned
    <2>4. CheckpointInv'
        BY <1>2, <1>6, TreesStay DEF IInv, CheckpointInv, TreesOwned, Idle
    <2>5. FileInv'
        BY <1>2, <1>6, FileStays DEF IInv, FileInv, FileOwned, Idle
    <2>6. JobInv'
        BY <2>1, NoJobOwned DEF JobInv, FileOwned
    <2> QED BY <2>2, <2>3, <2>4, <2>5, <2>6 DEF IInv
<1>8. CASE ~ \E c \in DOMAIN job.accepted : Collides(c)
    <2>1. pc' = "minted" /\ job' = [job EXCEPT !.mapping = mapped(new)]
        BY <1>1, <1>8
    <2>2. job = [accepted |-> job.accepted, routes |-> job.routes, mapping |-> job.mapping]
        BY DEF IInv, TypeOK
    <2>3. ASSUME NEW c \in DOMAIN job.accepted, NEW i, i = mapped(new)[c]
          PROVE  i \in Ids /\ MintedFor(i, c)'
        <3>1. CASE c \in ToInsert
            <4>1. i = new[c]
                BY <2>3, <3>1
            <4> QED BY <1>2, <1>3, <3>1, <4>1
        <3>2. CASE c \notin ToInsert
            <4>1. OwnRecord(c) # {}
                BY <1>8, <3>2 DEF ToInsert
            <4>2. PICK x \in OwnRecord(c) : x = CHOOSE y \in OwnRecord(c) : TRUE
                BY <4>1
            <4>3. x.id \in Ids /\ x.id = job.accepted[c].uuid
                BY DEF OwnRecord, IInv, TypeOK, Variable
            <4>4. x.id # None
                BY <4>3 DEF Ids
            <4>5. i = x.id
                BY <2>3, <3>2, <4>2
            <4> HIDE DEF mapped
            <4> QED BY <1>2, <1>4, <4>3, <4>4, <4>5 DEF Grows
        <3> QED BY <3>1, <3>2
    <2> DEFINE m == mapped(new)
    <2>4. DOMAIN m = DOMAIN job.accepted /\ m = [c \in DOMAIN m |-> m[c]]
        OBVIOUS
    <2>5. \A c \in DOMAIN m : m[c] \in Ids /\ \A i : i = m[c] => MintedFor(i, c)'
        BY <2>3, <2>4
    <2>6. job' = [accepted |-> job.accepted, routes |-> job.routes, mapping |-> m]
        BY <2>1, <2>2
    <2> HIDE DEF m, mapped
    <2>7. IsPartial(m, Colours, Ids)
        BY <1>4, <2>4, <2>5 DEF IsPartial
    <2>8. TypeOK'
        BY <1>2, <1>5, <1>6, <2>1, <2>6, <2>7 DEF IInv, TypeOK
    <2>9. TreesOwned(trees)'
        BY <1>2, <1>6, TreesStay DEF IInv, TreesOwned
    <2>10. CheckpointInv'
        BY <1>2, <1>6, TreesStay DEF IInv, CheckpointInv, TreesOwned, Idle
    <2>11. FileInv'
        BY <1>2, <1>6, FileStays DEF IInv, FileInv, FileOwned, Idle
    <2>12. JobInv'
        <3>1. job'.accepted = job.accepted /\ job'.mapping = m
            BY <2>6
        <3>2. FileOwned(job.accepted)'
            BY <1>2, <3>1, FileStays DEF IInv, JobInv, FileOwned
        <3>3. (\A c \in DOMAIN job.mapping : MintedFor(job.mapping[c], c))'
            BY <2>5, <3>1
        <3>4. (\A c \in DOMAIN job.accepted : job.accepted[c].name # None)'
            BY <3>1 DEF IInv, JobInv
        <3> QED BY <3>2, <3>3, <3>4 DEF JobInv
    <2> QED BY <2>8, <2>9, <2>10, <2>11, <2>12 DEF IInv
<1> QED BY <1>7, <1>8

-----------------------------------------------------------------------------
LEMMA NextLemma == IInv /\ [Next]_vars => IInv'
<1> SUFFICES ASSUME IInv, [Next]_vars PROVE IInv'
    OBVIOUS
<1>1. CASE People
    BY <1>1, EditTreeLemma, VariablesLemma, DecideLemma DEF People
<1>2. CASE Tool
    BY <1>2, BaselineLemma, MineLemma, StartApplyLemma, MintLemma, PersistLemma, RewriteLemma,
       KillLemma DEF Tool
<1>3. CASE UNCHANGED vars
    <2>1. TypeOK'
        BY <1>3 DEF IInv, TypeOK, vars
    <2>2. Grows
        BY <1>3 DEF Grows, MintedFor, vars
    <2> QED BY <1>3, <2>1, <2>2, Frame DEF vars
<1> QED BY <1>1, <1>2, <1>3 DEF Next

LEMMA Invariance == Spec => []IInv
BY InitLemma, NextLemma, PTL DEF Spec

(* The types of the decision record, of the host and of a running apply.     *)
THEOREM TokenTypes == Spec => []TypeOK
<1>1. IInv => TypeOK
    BY DEF IInv
<1> QED BY <1>1, Invariance, PTL

(* A uuid, wherever the tool keeps one, is a variable it minted for that     *)
(* very colour (ensure_variables), whatever people do to file, trees and     *)
(* variables between any two writes of an apply.                             *)
THEOREM Ownership == Spec => []OwnershipIsTrue
<1>1. IInv => OwnershipIsTrue
    BY DEF IInv, OwnershipIsTrue, FileInv, FileOwned, JobInv, TreesOwned
<1> QED BY <1>1, Invariance, PTL

(* The tool touches no variable that it did not mint, and renames none       *)
(* ("Never deletes anything", ensure_variables).                             *)
THEOREM ForeignVariables == Spec => ForeignUntouched
<1> USE ProposalsAssumption
<1>1. ASSUME IInv, Mint
      PROVE  \A x \in variables : \E y \in variables' :
                /\ y.id = x.id /\ y.name = x.name
                /\ origin[x.id] = None => y = x
    <2> SUFFICES ASSUME NEW x \in variables
                 PROVE  \E y \in variables' : /\ y.id = x.id /\ y.name = x.name
                                              /\ origin[x.id] = None => y = x
        OBVIOUS
    <2>1. PICK y \in Updated :
            /\ y.id = x.id /\ y.name = x.name
            /\ y = x \/ \E c \in ToUpdate : x \in OwnRecord(c)
        BY <1>1, UpdateLemma
    <2>2. y \in variables'
        BY <1>1 DEF Mint
    <2>3. ASSUME NEW c \in ToUpdate, x \in OwnRecord(c)
          PROVE  origin[x.id] # None
        <3>1. /\ c \in DOMAIN job.accepted /\ c \in Colours
              /\ x.id = job.accepted[c].uuid /\ x.id \in Ids
            BY <1>1, <2>3 DEF ToUpdate, OwnRecord, IInv, TypeOK, IsPartial, Variable
        <3>2. job.accepted[c].uuid # None
            BY <3>1 DEF Ids
        <3>3. MintedFor(x.id, c)
            BY <1>1, <3>1, <3>2 DEF IInv, JobInv, FileOwned
        <3> QED BY <3>1, <3>3 DEF MintedFor
    <2> QED BY <2>1, <2>2, <2>3
<1>2. ASSUME IInv, Tool
      PROVE  \A x \in variables : \E y \in variables' :
                /\ y.id = x.id /\ y.name = x.name
                /\ origin[x.id] = None => y = x
    <2>1. Mint \/ UNCHANGED variables
        BY <1>2 DEF Tool, Baseline, Mine, StartApply, Persist, Rewrite, Kill
    <2> QED BY <1>1, <1>2, <2>1
<1>3. IInv /\ [Next]_vars =>
        [Tool => \A x \in variables : \E y \in variables' :
            /\ y.id = x.id /\ y.name = x.name
            /\ origin[x.id] = None => y = x]_vars
    BY <1>2
<1> QED BY <1>3, Invariance, PTL DEF Spec, ForeignUntouched

(* Names and statuses are people's as long as a proposal is in the file:     *)
(* mining carries them over, and an apply writes its uuids next to them and  *)
(* takes no proposal away.  A mine does: whatever its pages do not show, so  *)
(* with a route filter the acceptances of all other pages (tokenize.mine,    *)
(* apply).                                                                   *)
THEOREM DecisionsArePeoples == Spec => ToolNeverDecides
<1> USE ProposalsAssumption
<1> DEFINE Kept(c) == Decision(file'[c]) = IF file # None /\ c \in DOMAIN file
                                           THEN Decision(file[c]) ELSE Decision(Undecided)
<1>1. ASSUME IInv, NEW routes \in SUBSET Pages, Mine(routes), NEW c \in DOMAIN file'
      PROVE  Kept(c)
    <2>1. file'[c] = IF file # None /\ c \in DOMAIN file
                     THEN [Undecided EXCEPT !.name = file[c].name, !.status = file[c].status]
                     ELSE Undecided
        BY <1>1 DEF Mine
    <2>2. CASE file # None /\ c \in DOMAIN file
        <3>1. file'[c] = [name |-> file[c].name, status |-> file[c].status, uuid |-> None]
            BY <2>1, <2>2 DEF Undecided
        <3> QED BY <2>2, <3>1 DEF Decision
    <2>3. CASE ~(file # None /\ c \in DOMAIN file)
        BY <2>1, <2>3
    <2> QED BY <2>2, <2>3
<1>2. ASSUME IInv, Persist, file' # None, NEW c \in DOMAIN file'
      PROVE  c \in DOMAIN file /\ Decision(file'[c]) = Decision(file[c])
    <2>1. FileOwned(file)
        BY <1>2 DEF IInv, FileInv, Persist, Idle
    <2>2. /\ c \in DOMAIN file
          /\ file'[c] = IF c \in DOMAIN job.mapping
                        THEN [file[c] EXCEPT !.uuid = job.mapping[c]] ELSE file[c]
        BY <1>2 DEF Persist
    <2>3. file[c] \in Proposal
        BY <2>1, <2>2 DEF FileOwned, IsPartial
    <2> QED BY <2>2, <2>3 DEF Decision, Proposal
<1>3. ASSUME IInv, Tool, file' # None, NEW c \in DOMAIN file'
      PROVE  Kept(c)
    <2>1. CASE \E routes \in SUBSET Pages : Mine(routes)
        BY <1>1, <1>3, <2>1
    <2>2. CASE Persist
        <3>1. file # None
            BY <1>3, <2>2, FileIsThere DEF IInv, FileInv, Persist, Idle
        <3> QED BY <1>2, <1>3, <2>2, <3>1
    <2>3. CASE UNCHANGED file
        BY <1>3, <2>3
    <2> QED BY <1>3, <2>1, <2>2, <2>3 DEF Tool, Baseline, StartApply, Mint, Rewrite, Kill
<1>4. ASSUME IInv, Tool, file # None, NEW c \in DOMAIN file \ DOMAIN file'
      PROVE  \E routes \in SUBSET Pages : Mine(routes) /\ c \notin Mined(routes)
    <2>1. CASE \E routes \in SUBSET Pages : Mine(routes)
        <3>1. PICK routes \in SUBSET Pages : Mine(routes)
            BY <2>1
        <3>2. DOMAIN file' = Mined(routes)
            BY <3>1 DEF Mine
        <3> QED BY <1>4, <3>1, <3>2
    <2>2. CASE Persist
        <3>1. DOMAIN file' = DOMAIN file
            BY <2>2 DEF Persist
        <3> QED BY <1>4, <3>1
    <2>3. CASE UNCHANGED file
        BY <1>4, <2>3
    <2> QED BY <1>4, <2>1, <2>2, <2>3 DEF Tool, Baseline, StartApply, Mint, Rewrite, Kill
<1>5. IInv /\ [Next]_vars =>
        [Tool /\ file' # None =>
            /\ \A c \in DOMAIN file' :
                  Decision(file'[c]) = IF file # None /\ c \in DOMAIN file
                                       THEN Decision(file[c]) ELSE Decision(Undecided)
            /\ file # None => \A c \in DOMAIN file \ DOMAIN file' :
                  \E routes \in SUBSET Pages : Mine(routes) /\ c \notin Mined(routes)]_vars
    BY <1>3, <1>4
<1> QED BY <1>5, Invariance, PTL DEF Spec, ToolNeverDecides

(* The write-back leaves no literal of a minted colour on the pages of the   *)
(* filter and what they extend (tokenize._select, rewrite_tree).             *)
THEOREM WholePages == Spec => WholePagesTokenized
<1> USE ProposalsAssumption
<1>1. ASSUME IInv, NEW l \in Labels, TreesOwned(checkpoint.trees),
             NEW v \in Rewritten(checkpoint.trees[l])
      PROVE  ~(v.ref = None /\ v.colour \in DOMAIN job.mapping)
    <2>1. PICK w \in checkpoint.trees[l] :
            v = IF w.ref = None /\ w.colour \in DOMAIN job.mapping
                THEN [w EXCEPT !.ref = job.mapping[w.colour]] ELSE w
        BY DEF Rewritten
    <2>2. w \in Value
        BY <1>1 DEF TreesOwned
    <2>3. CASE w.ref = None /\ w.colour \in DOMAIN job.mapping
        <3>1. job.mapping[w.colour] \in Ids
            BY <1>1, <2>3 DEF IInv, TypeOK, IsPartial
        <3>2. v.ref = job.mapping[w.colour]
            BY <2>1, <2>2, <2>3 DEF Value
        <3> QED BY <3>1, <3>2 DEF Ids
    <2> QED BY <2>1, <2>3
<1>2. ASSUME IInv, Rewrite, NEW p \in job.routes, NEW l \in {p} \cup Extended[p],
             NEW v \in trees'[l], v.ref = None, v.colour \in DOMAIN job.mapping
      PROVE  v \in trees[l] \ checkpoint.trees[l]
    <2>1. l \in Labels /\ l \in Selected(job.routes)
        BY <1>2 DEF IInv, TypeOK, Labels, Selected
    <2>2. TreesOwned(checkpoint.trees)
        BY <1>2 DEF IInv, CheckpointInv, Rewrite, Idle
    <2>3. v \notin Rewritten(checkpoint.trees[l])
        BY <1>1, <1>2, <2>1, <2>2
    <2>4. /\ trees'[l] = trees[l]
          /\ Rewritten(checkpoint.trees[l]) = checkpoint.trees[l]
        BY <1>2, <2>1, <2>3 DEF Rewrite
    <2> QED BY <1>2, <2>3, <2>4
<1>3. IInv /\ [Next]_vars =>
        [Rewrite => \A p \in job.routes : \A l \in {p} \cup Extended[p] :
            \A v \in trees'[l] :
                v.ref = None /\ v.colour \in DOMAIN job.mapping =>
                    v \in trees[l] \ checkpoint.trees[l]]_vars
    BY <1>2
<1> QED BY <1>3, Invariance, PTL DEF Spec, WholePagesTokenized
=============================================================================
