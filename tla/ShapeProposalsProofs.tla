------------------------ MODULE ShapeProposalsProofs ------------------------
(***************************************************************************)
(* The decisions about components, for any blocks, shapes, contents and    *)
(* pages: mining and applying lose none of them, and an extraction loses   *)
(* no content.                                                             *)
(***************************************************************************)
EXTENDS ShapeProposals, TLAPS

IsFile(f) ==
    /\ f = [proposals |-> f.proposals, orphaned |-> f.orphaned]
    /\ IsPartial(f.proposals, Shapes, Proposal)
    /\ f.orphaned \in SUBSET Orphan
IsCheckpoint(c) ==
    /\ c = [nodes |-> c.nodes, components |-> c.components]
    /\ c.nodes \in [Blocks -> Node \cup {None}]
    /\ IsPartial(c.components, Names, Node)

(* What a running apply extracts can be extracted from the checkpoint, under *)
(* names that differ, and what it has written is there.                      *)
ReadyInv ==
    ~Idle =>
        /\ IsFile(file) /\ IsCheckpoint(checkpoint)
        /\ \A s \in DOMAIN ready : Extractable(ready[s]) /\ ready[s].name # None
        /\ \A s, t \in DOMAIN ready : ready[s].name = ready[t].name => s = t
        /\ pc = "written" => \A s \in DOMAIN ready : ready[s].name \in DOMAIN components

IInv == TypeOK /\ ReadyInv

-----------------------------------------------------------------------------
LEMMA EmptyIsPartial == ASSUME NEW S, NEW T PROVE IsPartial(<< >>, S, T)
BY DEF IsPartial

LEMMA FileType == TypeOK /\ file # None => IsFile(file)
BY DEF TypeOK, IsFile

LEMMA CheckpointType == TypeOK /\ checkpoint # None => IsCheckpoint(checkpoint)
BY DEF TypeOK, IsCheckpoint

LEMMA InitLemma == Init => IInv
<1> SUFFICES ASSUME Init PROVE IInv
    OBVIOUS
<1>1. IsPartial(components, Names, Node) /\ IsPartial(ready, Shapes, Proposal)
    BY EmptyIsPartial DEF Init
<1>2. TypeOK
    BY <1>1, ShapesAssumption DEF Init, TypeOK, Node
<1> QED BY <1>2 DEF Init, IInv, ReadyInv, Idle

-----------------------------------------------------------------------------
(* Edits of the host: no decision and no apply is touched, and no component  *)
(* goes away.                                                                *)
LEMMA HostLemma ==
    ASSUME IInv, UNCHANGED <<checkpoint, file, pc, ready>>, TypeOK',
           DOMAIN components \subseteq DOMAIN components'
    PROVE  IInv'
<1>1. ReadyInv'
    BY DEF IInv, ReadyInv, Extractable, Idle, IsFile, IsCheckpoint
<1> QED BY <1>1 DEF IInv

LEMMA EditLemma ==
    ASSUME IInv, \/ \E b \in Blocks : EditBlock(b)
                 \/ \E c \in Names : CreateComponent(c)
    PROVE  IInv'
<1>1. CASE \E b \in Blocks : EditBlock(b)
    <2>1. PICK b \in Blocks, n \in Plain \cup {None} : nodes' = [nodes EXCEPT ![b] = n]
        BY <1>1 DEF EditBlock
    <2>2. nodes' \in [Blocks -> Node \cup {None}]
        BY <2>1 DEF IInv, TypeOK, Node
    <2>3. TypeOK'
        BY <1>1, <2>2, ShapesAssumption DEF EditBlock, EditUI, IInv, TypeOK
    <2> QED BY <1>1, <2>3, HostLemma DEF EditBlock
<1>2. CASE \E c \in Names : CreateComponent(c)
    <2>1. PICK c \in Names, n \in Plain :
            components' = [d \in DOMAIN components \cup {c} |->
                              IF d = c THEN n ELSE components[d]]
        BY <1>2 DEF CreateComponent
    <2>2. IsPartial(components', Names, Node)
        BY <2>1 DEF IInv, TypeOK, IsPartial, Node
    <2>3. TypeOK'
        BY <1>2, <2>2, ShapesAssumption DEF CreateComponent, EditUI, IInv, TypeOK
    <2> QED BY <1>2, <2>1, <2>3, HostLemma DEF CreateComponent
<1> QED BY <1>1, <1>2

(* The decision record is rewritten. *)
LEMMA FileLemma ==
    ASSUME IInv, IsFile(file'), UNCHANGED <<nodes, components, checkpoint, edits>>,
           \/ pc' = pc /\ ready' = ready
           \/ pc' = "idle" /\ ready' = << >>
    PROVE  IInv'
<1>1. TypeOK'
    <2>1. pc' \in {"idle", "recorded", "written"}
        BY DEF IInv, TypeOK
    <2>2. IsPartial(ready', Shapes, Proposal)
        BY EmptyIsPartial DEF IInv, TypeOK
    <2> QED BY <2>1, <2>2 DEF IInv, TypeOK, IsFile
<1>2. ReadyInv'
    BY DEF IInv, ReadyInv, Extractable, Idle, IsFile, IsCheckpoint
<1> QED BY <1>1, <1>2 DEF IInv

LEMMA DecideLemma ==
    ASSUME IInv, NEW s \in Shapes, NEW n \in Names \cup {None},
           NEW status \in {"proposed", "accepted"}, Decide(s, n, status)
    PROVE  IInv'
<1> DEFINE old == file.proposals
           new == [old EXCEPT ![s].name = n, ![s].status = status]
<1>1. IsFile(file) /\ s \in DOMAIN old
    BY FileType DEF IInv, Decide
<1>2. file' = [proposals |-> new, orphaned |-> file.orphaned]
    BY <1>1 DEF IsFile, Decide
<1>3. old[s] \in Proposal
    BY <1>1 DEF IsFile, IsPartial
<1>4. [[old[s] EXCEPT !.name = n] EXCEPT !.status = status] \in Proposal
    BY <1>3 DEF Proposal, Status
<1> HIDE DEF old
<1>5. /\ DOMAIN new = DOMAIN old /\ new = [x \in DOMAIN new |-> new[x]]
      /\ new[s] = [[old[s] EXCEPT !.name = n] EXCEPT !.status = status]
      /\ \A t \in DOMAIN old \ {s} : new[t] = old[t]
    BY <1>1
<1> HIDE DEF new
<1>6. IsPartial(new, Shapes, Proposal)
    BY <1>1, <1>4, <1>5 DEF IsFile, IsPartial, old
<1>7. IsFile(file')
    BY <1>1, <1>2, <1>6 DEF IsFile
<1>8. /\ UNCHANGED <<nodes, components, checkpoint, edits>>
      /\ pc' = pc /\ ready' = ready
    BY DEF Decide
<1> QED BY <1>7, <1>8, FileLemma

LEMMA MineLemma == ASSUME IInv, NEW routes \in SUBSET Pages, Mine(routes) PROVE IInv'
<1>1. /\ IsPartial(Prior.proposals, Shapes, Proposal) /\ Prior.orphaned \in SUBSET Orphan
    <2>1. CASE file = None
        BY <2>1, EmptyIsPartial DEF Prior
    <2>2. CASE file # None
        BY <2>2, FileType DEF Prior, IInv, IsFile
    <2> QED BY <2>1, <2>2
<1>2. \A s \in Shapes : Instances(s, routes) \in SUBSET Blocks
    BY DEF Instances
<1>3. IsPartial(Remined(routes), Shapes, Proposal)
    <2> DEFINE entry(s) ==
            IF s \in DOMAIN Prior.proposals
            THEN [Prior.proposals[s] EXCEPT !.instances = Instances(s, routes)]
            ELSE [name |-> None, status |-> "proposed", instances |-> Instances(s, routes)]
    <2>1. ASSUME NEW s \in Candidates(routes) PROVE entry(s) \in Proposal /\ s \in Shapes
        <3>1. s \in Shapes /\ Instances(s, routes) \in SUBSET Blocks
            BY <1>2 DEF Candidates
        <3>2. CASE s \in DOMAIN Prior.proposals
            <4>1. Prior.proposals[s] \in Proposal
                BY <1>1, <3>2 DEF IsPartial
            <4>2. [Prior.proposals[s] EXCEPT !.instances = Instances(s, routes)] \in Proposal
                BY <3>1, <4>1 DEF Proposal
            <4> QED BY <3>1, <3>2, <4>2
        <3>3. CASE s \notin DOMAIN Prior.proposals
            BY <3>1, <3>3 DEF Proposal, Status
        <3> QED BY <3>2, <3>3
    <2>2. Remined(routes) = [s \in Candidates(routes) |-> entry(s)]
        BY DEF Remined
    <2> HIDE DEF entry
    <2> QED BY <2>1, <2>2 DEF IsPartial
<1>4. ASSUME NEW s \in DOMAIN Prior.proposals
      PROVE  DecisionOf(s, Prior.proposals[s]) \in Orphan
    <2>1. s \in Shapes /\ Prior.proposals[s] \in Proposal
        BY <1>1 DEF IsPartial
    <2> QED BY <2>1 DEF DecisionOf, Orphan, Proposal
<1> DEFINE gone == {DecisionOf(s, Prior.proposals[s]) :
                        s \in {t \in DOMAIN Prior.proposals \ Candidates(routes) :
                                  Decided(Prior.proposals[t])}}
<1>5. gone \subseteq Orphan
    BY <1>4
<1>6. file' = [proposals |-> Remined(routes), orphaned |-> Prior.orphaned \cup gone]
    BY DEF Mine
<1> HIDE DEF gone
<1>7. IsFile(file')
    BY <1>1, <1>3, <1>5, <1>6 DEF IsFile
<1>8. /\ UNCHANGED <<nodes, components, checkpoint, edits>>
      /\ pc' = pc /\ ready' = ready
    BY DEF Mine
<1> QED BY <1>7, <1>8, FileLemma

LEMMA MarkAppliedLemma == ASSUME IInv, MarkApplied PROVE IInv'
<1> DEFINE old == file.proposals
           new == [s \in DOMAIN old |-> IF s \in DOMAIN ready
                                         THEN [old[s] EXCEPT !.status = "applied"] ELSE old[s]]
<1>1. IsFile(file)
    BY DEF IInv, ReadyInv, MarkApplied, Idle
<1>2. file' = [proposals |-> new, orphaned |-> file.orphaned]
    BY <1>1 DEF IsFile, MarkApplied
<1>3. ASSUME NEW s \in DOMAIN old PROVE s \in Shapes /\ new[s] \in Proposal
    <2>1. s \in Shapes /\ old[s] \in Proposal
        BY <1>1 DEF IsFile, IsPartial
    <2>2. [old[s] EXCEPT !.status = "applied"] \in Proposal
        BY <2>1 DEF Proposal, Status
    <2> QED BY <2>1, <2>2
<1>4. DOMAIN new = DOMAIN old /\ new = [s \in DOMAIN new |-> new[s]]
    OBVIOUS
<1> HIDE DEF new
<1>5. IsFile(file')
    BY <1>1, <1>2, <1>3, <1>4 DEF IsFile, IsPartial
<1>6. /\ UNCHANGED <<nodes, components, checkpoint, edits>>
      /\ pc' = "idle" /\ ready' = << >>
    BY DEF MarkApplied
<1> QED BY <1>5, <1>6, FileLemma

LEMMA KillLemma == ASSUME IInv, Kill PROVE IInv'
<1>1. TypeOK'
    BY EmptyIsPartial DEF Kill, IInv, TypeOK
<1> QED BY <1>1 DEF Kill, IInv, ReadyInv, Idle

LEMMA BaselineLemma == ASSUME IInv, Baseline PROVE IInv'
<1>1. IsCheckpoint(checkpoint')
    BY DEF Baseline, IsCheckpoint, IInv, TypeOK
<1>2. TypeOK'
    BY <1>1 DEF Baseline, IInv, TypeOK, IsCheckpoint
<1> QED BY <1>2 DEF Baseline, IInv, ReadyInv, Idle

LEMMA StartApplyLemma == ASSUME IInv, StartApply PROVE IInv'
<1>1. IsFile(file)
    BY FileType DEF IInv, StartApply
<1>2. IsCheckpoint(checkpoint)
    <2>1. checkpoint = [nodes |-> nodes, components |-> components]
        BY DEF StartApply
    <2> QED BY <2>1 DEF IsCheckpoint, IInv, TypeOK
<1> DEFINE extracted == {s \in Accepted : Extractable(file.proposals[s])}
<1>3. ready' = [s \in extracted |-> file.proposals[s]]
    BY DEF StartApply
<1>4. \A s \in extracted : /\ s \in DOMAIN file.proposals
                           /\ Extractable(file.proposals[s]) /\ file.proposals[s].name # None
    BY DEF StartApply, WellNamed, Accepted
<1>5. \A s, t \in extracted : file.proposals[s].name = file.proposals[t].name => s = t
    BY DEF StartApply, WellNamed
<1> HIDE DEF extracted
<1>6. IsPartial(ready', Shapes, Proposal)
    BY <1>1, <1>3, <1>4 DEF IsFile, IsPartial
<1>7. TypeOK'
    BY <1>6 DEF StartApply, IInv, TypeOK
<1>8. UNCHANGED <<checkpoint, file>> /\ pc' = "recorded"
    BY DEF StartApply
<1>9. (\A s \in DOMAIN ready : Extractable(ready[s]) /\ ready[s].name # None)'
    BY <1>3, <1>4, <1>8 DEF Extractable
<1> QED BY <1>1, <1>2, <1>3, <1>5, <1>7, <1>8, <1>9 DEF IInv, ReadyInv, IsFile, IsCheckpoint

(* The exemplar of an extraction is the node that every instance was. *)
LEMMA ExemplarLemma ==
    ASSUME IInv, ~Idle, NEW s \in DOMAIN ready
    PROVE  /\ Exemplar(s) \in Node
           /\ \A b \in ready[s].instances : Exemplar(s) = checkpoint.nodes[b]
<1>1. /\ Extractable(ready[s]) /\ IsCheckpoint(checkpoint)
      /\ ready[s].instances \subseteq Blocks
    BY DEF IInv, ReadyInv, TypeOK, IsPartial, Proposal
<1>2. ready[s].instances # {}
    BY <1>1 DEF Extractable
<1>3. PICK b \in ready[s].instances : b = CHOOSE d \in ready[s].instances : TRUE
    BY <1>2
<1>4. /\ checkpoint.nodes[b] # None
      /\ \A d \in ready[s].instances : checkpoint.nodes[b] = checkpoint.nodes[d]
    BY <1>1 DEF Extractable
<1>5. Exemplar(s) = checkpoint.nodes[b]
    BY <1>3 DEF Exemplar
<1> QED BY <1>1, <1>4, <1>5 DEF IsCheckpoint

(* A write that meets no collision: each new component is the exemplar of    *)
(* the one shape that is extracted under its name.                           *)
Written ==
    /\ Minted \cap DOMAIN components = {}
    /\ DOMAIN components' = DOMAIN components \cup Minted
    /\ components' = [c \in DOMAIN components' |-> components'[c]]
    /\ \A s \in DOMAIN ready : components'[ready[s].name] = Exemplar(s)
    /\ \A c \in DOMAIN components : components'[c] = components[c]
    /\ UNCHANGED ready

LEMMA WriteLemma ==
    ASSUME IInv, Write
    PROVE  \/ /\ pc' = "idle" /\ ready' = << >>
              /\ UNCHANGED <<nodes, components>>
           \/ pc' = "written" /\ Written
<1>1. ReadyInv /\ ~Idle
    BY DEF IInv, Write, Idle
<1>2. CASE Minted \cap DOMAIN components # {}
    BY <1>2 DEF Write
<1>3. CASE Minted \cap DOMAIN components = {}
    <2>1. /\ pc' = "written" /\ UNCHANGED ready
          /\ components' = [c \in DOMAIN components \cup Minted |->
                              IF c \in Minted THEN Exemplar(ShapeNamed(c)) ELSE components[c]]
        BY <1>3 DEF Write
    <2>2. ASSUME NEW s \in DOMAIN ready
          PROVE  ready[s].name \in Minted /\ ShapeNamed(ready[s].name) = s
        <3>1. \A t \in DOMAIN ready : ready[t].name = ready[s].name => t = s
            BY <1>1 DEF ReadyInv
        <3> QED BY <3>1 DEF Minted, ShapeNamed
    <2>3. \A s \in DOMAIN ready : components'[ready[s].name] = Exemplar(s)
        <3> SUFFICES ASSUME NEW s \in DOMAIN ready
                     PROVE  components'[ready[s].name] = Exemplar(s)
            OBVIOUS
        <3>1. components'[ready[s].name] = Exemplar(ShapeNamed(ready[s].name))
            BY <2>1, <2>2
        <3> QED BY <2>2, <3>1
    <2>4. \A c \in DOMAIN components : components'[c] = components[c]
        BY <1>3, <2>1
    <2>5. /\ DOMAIN components' = DOMAIN components \cup Minted
          /\ components' = [c \in DOMAIN components' |-> components'[c]]
        BY <2>1
    <2> QED BY <1>3, <2>1, <2>3, <2>4, <2>5 DEF Written
<1> QED BY <1>2, <1>3

LEMMA WriteInv == ASSUME IInv, Write PROVE IInv'
<1>1. ReadyInv /\ TypeOK /\ ~Idle /\ UNCHANGED <<checkpoint, file, edits>>
    BY DEF IInv, Write, Idle
<1>2. CASE pc' = "idle" /\ ready' = << >> /\ UNCHANGED <<nodes, components>>
    <2>1. TypeOK'
        BY <1>1, <1>2, EmptyIsPartial DEF TypeOK
    <2> QED BY <1>2, <2>1 DEF IInv, ReadyInv, Idle
<1>3. CASE pc' = "written" /\ Written
    <2>1. \A s \in DOMAIN ready : Exemplar(s) \in Node /\ ready[s].name \in Names
        <3>1. \A s \in DOMAIN ready : ready[s].name \in Names
            BY <1>1 DEF TypeOK, IsPartial, Proposal, ReadyInv
        <3> QED BY <1>1, <3>1, ExemplarLemma
    <2>2. IsPartial(components', Names, Node)
        BY <1>1, <1>3, <2>1 DEF Written, Minted, TypeOK, IsPartial
    <2>3. nodes' \in [Blocks -> Node \cup {None}]
        <3>1. pc' # "idle"
            BY <1>3
        <3>2. nodes' = [b \in Blocks |->
                  CASE b \in Touched ->
                         Shell(ready[CHOOSE s \in DOMAIN ready :
                                        b \in ready[s].instances].name)
                    [] b \notin Touched /\ \E d \in Touched : PageOf[d] = PageOf[b] ->
                         checkpoint.nodes[b]
                    [] OTHER -> nodes[b]]
            BY <3>1 DEF Write
        <3>3. ASSUME NEW b \in Touched
              PROVE  Shell(ready[CHOOSE s \in DOMAIN ready : b \in ready[s].instances].name) \in Node
            <4>1. \E s \in DOMAIN ready : b \in ready[s].instances
                BY DEF Touched
            <4>2. (CHOOSE s \in DOMAIN ready : b \in ready[s].instances) \in DOMAIN ready
                BY <4>1
            <4> QED BY <2>1, <4>2 DEF Node
        <3>4. \A b \in Blocks : /\ checkpoint.nodes[b] \in Node \cup {None}
                                /\ nodes[b] \in Node \cup {None}
            BY <1>1 DEF ReadyInv, IsCheckpoint, TypeOK
        <3> QED BY <3>2, <3>3, <3>4
    <2>4. TypeOK'
        BY <1>1, <1>3, <2>2, <2>3 DEF TypeOK, Written
    <2>5. \A s \in DOMAIN ready : ready[s].name \in DOMAIN components'
        BY <1>3 DEF Written, Minted
    <2>6. ReadyInv'
        BY <1>1, <1>3, <2>5 DEF ReadyInv, Written, Extractable, IsFile, IsCheckpoint, Idle
    <2> QED BY <2>4, <2>6 DEF IInv
<1> QED BY <1>2, <1>3, WriteLemma

-----------------------------------------------------------------------------
LEMMA NextLemma == IInv /\ [Next]_vars => IInv'
<1> SUFFICES ASSUME IInv, [Next]_vars PROVE IInv'
    OBVIOUS
<1>1. CASE People
    BY <1>1, EditLemma, DecideLemma DEF People
<1>2. CASE Tool
    BY <1>2, BaselineLemma, MineLemma, StartApplyLemma, WriteInv, MarkAppliedLemma, KillLemma
    DEF Tool
<1>3. CASE UNCHANGED vars
    BY <1>3 DEF vars, IInv, TypeOK, ReadyInv, Extractable, IsFile, IsCheckpoint, Idle
<1> QED BY <1>1, <1>2, <1>3 DEF Next

LEMMA Invariance == Spec => []IInv
BY InitLemma, NextLemma, PTL DEF Spec

(* The types of the host, of the decision record and of a running apply.     *)
THEOREM ShapeTypes == Spec => []TypeOK
<1>1. IInv => TypeOK
    BY DEF IInv
<1> QED BY <1>1, Invariance, PTL

(* A decision is still there after a step, or its shape was extracted.        *)
Survives(d) ==
    \E e \in DecisionsOf(file') :
        /\ e.shape = d.shape /\ e.name = d.name
        /\ \/ e.status = d.status
           \/ /\ e.status = "applied"
              /\ d.shape \in DOMAIN ready
              /\ ready[d.shape].name \in DOMAIN components

LEMMA MineKeeps ==
    ASSUME IInv, file # None, NEW routes \in SUBSET Pages, Mine(routes),
           NEW d \in DecisionsOf(file)
    PROVE  Survives(d)
<1> DEFINE gone == {DecisionOf(s, file.proposals[s]) :
                        s \in {t \in DOMAIN file.proposals \ Candidates(routes) :
                                  Decided(file.proposals[t])}}
<1>1. IsFile(file) /\ Prior = file
    BY FileType DEF IInv, Prior
<1>2. /\ file'.proposals = Remined(routes) /\ file'.orphaned = file.orphaned \cup gone
    BY <1>1 DEF Mine
<1>3. d \in DecisionsOf(file')
    <2>1. CASE d \in file.orphaned
        BY <1>2, <2>1 DEF DecisionsOf
    <2>2. ASSUME NEW s \in DOMAIN file.proposals, Decided(file.proposals[s]),
                 d = DecisionOf(s, file.proposals[s])
          PROVE  d \in DecisionsOf(file')
        <3>1. CASE s \notin Candidates(routes)
            <4>1. d \in gone
                BY <2>2, <3>1
            <4> QED BY <1>2, <4>1 DEF DecisionsOf
        <3>2. CASE s \in Candidates(routes)
            <4>1. file.proposals[s] \in Proposal
                BY <1>1 DEF IsFile, IsPartial
            <4>2. Remined(routes)[s] = [file.proposals[s] EXCEPT !.instances = Instances(s, routes)]
                BY <1>1, <3>2 DEF Remined
            <4>3. /\ Remined(routes)[s].name = file.proposals[s].name
                  /\ Remined(routes)[s].status = file.proposals[s].status
                BY <4>1, <4>2 DEF Proposal
            <4>4. /\ Decided(Remined(routes)[s])
                  /\ DecisionOf(s, Remined(routes)[s]) = d
                BY <2>2, <4>3 DEF Decided, DecisionOf
            <4>5. s \in DOMAIN Remined(routes)
                BY <3>2 DEF Remined
            <4> QED BY <1>2, <4>4, <4>5 DEF DecisionsOf
        <3> QED BY <3>1, <3>2
    <2> QED BY <2>1, <2>2 DEF DecisionsOf
<1> QED BY <1>3 DEF Survives

LEMMA MarkAppliedKeeps ==
    ASSUME IInv, file # None, MarkApplied, NEW d \in DecisionsOf(file)
    PROVE  Survives(d)
<1> DEFINE old == file.proposals
           new == [s \in DOMAIN old |-> IF s \in DOMAIN ready
                                         THEN [old[s] EXCEPT !.status = "applied"] ELSE old[s]]
<1>1. IsFile(file)
    BY FileType DEF IInv
<1>2. file'.proposals = new /\ file'.orphaned = file.orphaned
    BY <1>1 DEF IsFile, MarkApplied
<1>3. CASE d \in file.orphaned
    BY <1>2, <1>3 DEF DecisionsOf, Survives
<1>4. ASSUME NEW s \in DOMAIN old, Decided(old[s]), d = DecisionOf(s, old[s])
      PROVE  Survives(d)
    <2>1. old[s] \in Proposal
        BY <1>1 DEF IsFile, IsPartial
    <2>2. CASE s \in DOMAIN ready
        <3>1. new[s].name = old[s].name /\ new[s].status = "applied"
            BY <2>1, <2>2 DEF Proposal
        <3>2. ready[s].name \in DOMAIN components
            BY <2>2 DEF IInv, ReadyInv, MarkApplied, Idle
        <3>3. DecisionOf(s, new[s]) \in DecisionsOf(file')
            BY <1>2, <3>1 DEF DecisionsOf, Decided
        <3> HIDE DEF new
        <3> QED BY <1>4, <2>2, <3>1, <3>2, <3>3 DEF DecisionOf, Survives
    <2>3. CASE s \notin DOMAIN ready
        <3>1. new[s] = old[s]
            BY <2>3
        <3>2. DecisionOf(s, new[s]) \in DecisionsOf(file')
            BY <1>2, <1>4, <3>1 DEF DecisionsOf
        <3> HIDE DEF new
        <3> QED BY <1>4, <3>1, <3>2 DEF Survives
    <2> QED BY <2>2, <2>3
<1> QED BY <1>3, <1>4 DEF DecisionsOf

(* No step of the tool makes a decision vanish ("losing it is not" life-     *)
(* cycle, componentize.mine): mining keeps it or lists it among the orphans, *)
(* and an apply marks what it has extracted.                                 *)
THEOREM DecisionsSurvive == Spec => NoDecisionVanishes
<1>1. ASSUME IInv, Tool, file # None, NEW d \in DecisionsOf(file)
      PROVE  Survives(d)
    <2>1. CASE \E routes \in SUBSET Pages : Mine(routes)
        BY <1>1, <2>1, MineKeeps
    <2>2. CASE MarkApplied
        BY <1>1, <2>2, MarkAppliedKeeps
    <2>3. CASE UNCHANGED file
        BY <1>1, <2>3 DEF Survives, DecisionsOf
    <2> QED BY <1>1, <2>1, <2>2, <2>3 DEF Tool, Baseline, StartApply, Write, Kill
<1>2. IInv /\ [Next]_vars =>
        [Tool /\ file # None =>
            \A d \in DecisionsOf(file) : \E e \in DecisionsOf(file') :
                /\ e.shape = d.shape /\ e.name = d.name
                /\ \/ e.status = d.status
                   \/ /\ e.status = "applied"
                      /\ d.shape \in DOMAIN ready
                      /\ ready[d.shape].name \in DOMAIN components]_vars
    BY <1>1 DEF Survives
<1> QED BY <1>2, Invariance, PTL DEF Spec, NoDecisionVanishes

(* A component that an extraction makes is the very node each block that     *)
(* comes to extend it was, and no component somebody else made is changed    *)
(* (componentize, apply).  For a plain block this is its content; for a      *)
(* block that was a shell already it is the bare shell.                      *)
THEOREM ExtractedAsTheyWere == Spec => ComponentIsItsInstances
<1>1. ASSUME IInv, Write, NEW b \in Blocks,
             nodes'[b] # nodes[b], nodes'[b] # checkpoint.nodes[b]
      PROVE  /\ nodes'[b].extends \in DOMAIN components' \ DOMAIN components
             /\ components'[nodes'[b].extends] = checkpoint.nodes[b]
    <2>1. pc' = "written" /\ Written /\ ~Idle
        BY <1>1, WriteLemma DEF Write, Idle
    <2>2. nodes' = [e \in Blocks |->
              CASE e \in Touched ->
                     Shell(ready[CHOOSE s \in DOMAIN ready :
                                    e \in ready[s].instances].name)
                [] e \notin Touched /\ \E d \in Touched : PageOf[d] = PageOf[e] ->
                     checkpoint.nodes[e]
                [] OTHER -> nodes[e]]
        <3>1. pc' # "idle"
            BY <2>1
        <3> QED BY <1>1, <3>1 DEF Write
    <2>3. b \in Touched
        BY <1>1, <2>2
    <2> DEFINE s == CHOOSE t \in DOMAIN ready : b \in ready[t].instances
    <2>4. s \in DOMAIN ready /\ b \in ready[s].instances
        BY <2>3 DEF Touched
    <2>5. nodes'[b] = Shell(ready[s].name)
        BY <2>2, <2>3
    <2> HIDE DEF s
    <2>6. nodes'[b].extends = ready[s].name
        BY <2>5 DEF Shell
    <2>7. components'[ready[s].name] = checkpoint.nodes[b]
        BY <1>1, <2>1, <2>4, ExemplarLemma DEF Written
    <2>8. ready[s].name \in DOMAIN components' \ DOMAIN components
        BY <2>1, <2>4 DEF Written, Minted
    <2> QED BY <2>6, <2>7, <2>8
<1>2. ASSUME IInv, Write, NEW c \in DOMAIN components
      PROVE  components'[c] = components[c]
    BY <1>2, WriteLemma DEF Written
<1>3. IInv /\ [Next]_vars =>
        [Write =>
          /\ \A b \in Blocks : nodes'[b] # nodes[b] /\ nodes'[b] # checkpoint.nodes[b] =>
                /\ nodes'[b].extends \in DOMAIN components' \ DOMAIN components
                /\ components'[nodes'[b].extends] = checkpoint.nodes[b]
          /\ \A c \in DOMAIN components : components'[c] = components[c]]_vars
    BY <1>1, <1>2
<1> QED BY <1>3, Invariance, PTL DEF Spec, ComponentIsItsInstances
=============================================================================
