--------------------------- MODULE ShapeProposals ---------------------------
(***************************************************************************)
(* The decision record of `buildsmith optimize componentize`:              *)
(* sites/<site>/opt/proposals/components.json, and the extraction of the   *)
(* accepted shapes into Builder Components.                                *)
(*                                                                         *)
(* A block that could be extracted is a node: its shape hash and its       *)
(* content signature, or, once extracted, an override shell that extends   *)
(* a component.  Blocks keep their blockId through an extraction.  What is *)
(* inside a candidate is not modelled: one value stands for the signatures *)
(* of all its blocks, and nested candidates are not pruned.  So an apply   *)
(* that override_shells refuses, because trees of one signature differ in  *)
(* children, is not a step: it has written nothing by then.                *)
(***************************************************************************)
EXTENDS Integers, FiniteSets

CONSTANTS Blocks,          \* blockIds of the blocks large enough to matter
          Pages,
          PageOf,          \* PageOf[b]: the page block b is on
          Shapes,          \* shape hashes
          Contents,        \* content signatures
          Names,           \* component ids
          MinOccurrences,  \* MIN_OCCURRENCES
          MaxEdits,        \* bound: edits people make in the Builder UI
          None             \* a missing file, name, node or component

ASSUME ShapesAssumption ==
    /\ PageOf \in [Blocks -> Pages]
    /\ MinOccurrences \in Nat \ {0} /\ MaxEdits \in Nat
    /\ None \notin Names \cup Shapes \cup Contents

VARIABLES
    nodes,       \* nodes[b]: the node with blockId b on the host, or None
    components,  \* the Builder Components of the host: id -> root node
    checkpoint,  \* the baseline checkpoint: [nodes, components], or None
    file,        \* components.json: [proposals, orphaned], or None
    pc,          \* where the running apply stands
    ready,       \* its extractions: shape -> proposal
    edits        \* how many edits people have made

vars == <<nodes, components, checkpoint, file, pc, ready, edits>>

---------------------------------------------------------------------------

\* f is a function from part of S into T.
IsPartial(f, S, T) ==
    /\ f = [x \in DOMAIN f |-> f[x]]
    /\ DOMAIN f \subseteq S
    /\ \A x \in DOMAIN f : f[x] \in T

Plain == [shape: Shapes, content: Contents, extends: {None}]
Shell(c) == [shape |-> None, content |-> None, extends |-> c]
Node == Plain \cup {Shell(c) : c \in Names}

Status == {"proposed", "accepted", "applied"}
Proposal == [name: Names \cup {None}, status: Status, instances: SUBSET Blocks]

\* What a decision says, wherever it is kept.  orphaned is a list in the
\* file; only what it holds matters here.
Orphan == [shape: Shapes, name: Names \cup {None}, status: Status]
DecisionOf(s, p) == [shape |-> s, name |-> p.name, status |-> p.status]
Decided(p) == p.name # None \/ p.status # "proposed"

Idle == pc = "idle"

Init ==
    /\ nodes \in [Blocks -> Plain]
    /\ components = << >>
    /\ checkpoint = None
    /\ file = None
    /\ pc = "idle"
    /\ ready = << >>
    /\ edits = 0

---------------------------------------------------------------------------
(* People.                                                                 *)

EditUI == edits < MaxEdits /\ edits' = edits + 1

\* A block is changed, removed or put back.
EditBlock(b) ==
    /\ EditUI
    /\ \E n \in Plain \cup {None} : nodes' = [nodes EXCEPT ![b] = n]
    /\ UNCHANGED <<components, checkpoint, file, pc, ready>>

CreateComponent(c) ==
    /\ EditUI
    /\ c \notin DOMAIN components
    /\ \E n \in Plain :
          components' = [d \in DOMAIN components \cup {c} |->
                            IF d = c THEN n ELSE components[d]]
    /\ UNCHANGED <<nodes, checkpoint, file, pc, ready>>

\* Naming a proposal, accepting it, or taking either back.
Decide(s, n, status) ==
    /\ file # None
    /\ s \in DOMAIN file.proposals
    /\ file' = [file EXCEPT !.proposals[s].name = n,
                            !.proposals[s].status = status]
    /\ UNCHANGED <<nodes, components, checkpoint, pc, ready, edits>>

---------------------------------------------------------------------------
(* Mining.                                                                 *)

\* optimize baseline; its gate is the subject of OptimizeGate.
Baseline ==
    /\ Idle
    /\ checkpoint' = [nodes |-> nodes, components |-> components]
    /\ UNCHANGED <<nodes, components, file, pc, ready, edits>>

\* The free instances of a shape: what extends a component is no candidate.
Instances(s, routes) ==
    {b \in Blocks : /\ PageOf[b] \in routes
                    /\ checkpoint.nodes[b] # None
                    /\ checkpoint.nodes[b].shape = s}

\* find_candidates.
Candidates(routes) ==
    {s \in Shapes : Cardinality(Instances(s, routes)) >= MinOccurrences}

Prior == IF file = None THEN [proposals |-> << >>, orphaned |-> {}] ELSE file

Remined(routes) ==
    [s \in Candidates(routes) |->
        IF s \in DOMAIN Prior.proposals
        THEN [Prior.proposals[s] EXCEPT !.instances = Instances(s, routes)]
        ELSE [name |-> None, status |-> "proposed",
              instances |-> Instances(s, routes)]]

\* Mutant of Mine: only the decisions of this run are orphaned.
MineForgetsOrphans(routes) ==
    /\ Idle
    /\ checkpoint # None
    /\ routes # {}
    /\ file' = [proposals |-> Remined(routes),
                orphaned |->
                    {DecisionOf(s, Prior.proposals[s]) :
                        s \in {t \in DOMAIN Prior.proposals \ Candidates(routes) :
                                  Decided(Prior.proposals[t])}}]
    /\ UNCHANGED <<nodes, components, checkpoint, pc, ready, edits>>

\* A filter that selects no page is refused.  A decision whose shape is not a
\* candidate of this run moves to orphaned.
Mine(routes) ==
    /\ Idle
    /\ checkpoint # None
    /\ routes # {}
    /\ file' = [proposals |-> Remined(routes),
                orphaned |-> Prior.orphaned \cup
                    {DecisionOf(s, Prior.proposals[s]) :
                        s \in {t \in DOMAIN Prior.proposals \ Candidates(routes) :
                                  Decided(Prior.proposals[t])}}]
    /\ UNCHANGED <<nodes, components, checkpoint, pc, ready, edits>>

---------------------------------------------------------------------------
(* componentize --apply.                                                   *)

Accepted == {s \in DOMAIN file.proposals : file.proposals[s].status = "accepted"}

WellNamed ==
    \A s, t \in Accepted :
        /\ file.proposals[s].name # None
        /\ file.proposals[s].name = file.proposals[t].name => s = t

\* Mutant of Extractable: the instances are there, never mind their content.
AllFound(p) ==
    /\ p.instances # {}
    /\ \A b \in p.instances : checkpoint.nodes[b] # None

\* Mutant of Extractable: an instance that is gone is as good as any.
Alike(p) ==
    /\ p.instances # {}
    /\ \A b, d \in p.instances : checkpoint.nodes[b] = checkpoint.nodes[d]

\* Every recorded instance is found by its blockId and carries the content
\* of the first; anything else is skipped and stays accepted.  What it extends
\* is part of its signature, but nothing asks that it extend nothing: after a
\* killed apply and a new name, the instances are shells already.
Extractable(p) ==
    /\ p.instances # {}
    /\ \A b \in p.instances : checkpoint.nodes[b] # None
    /\ \A b, d \in p.instances : checkpoint.nodes[b] = checkpoint.nodes[d]

\* The guards; with something to extract, the ledger entry too.
StartApply ==
    /\ Idle
    /\ file # None
    /\ Accepted # {}
    /\ WellNamed
    /\ checkpoint = [nodes |-> nodes, components |-> components]
    /\ LET extracted == {s \in Accepted : Extractable(file.proposals[s])}
       IN /\ extracted # {}
          /\ ready' = [s \in extracted |-> file.proposals[s]]
    /\ pc' = "recorded"
    /\ UNCHANGED <<nodes, components, checkpoint, file, edits>>

Minted == {ready[s].name : s \in DOMAIN ready}
Touched == UNION {ready[s].instances : s \in DOMAIN ready}
ShapeNamed(c) == CHOOSE s \in DOMAIN ready : ready[s].name = c
Exemplar(s) == checkpoint.nodes[CHOOSE b \in ready[s].instances : TRUE]

\* One transaction: an id that exists is a collision and nothing is written;
\* else the components are inserted, and the pages that hold an instance are
\* replaced by the checkpoint's with shells for the instances.
Write ==
    /\ pc = "recorded"
    /\ IF Minted \cap DOMAIN components # {}
       THEN /\ pc' = "idle" /\ ready' = << >>
            /\ UNCHANGED <<nodes, components>>
       ELSE /\ pc' = "written"
            /\ components' = [c \in DOMAIN components \cup Minted |->
                                IF c \in Minted THEN Exemplar(ShapeNamed(c))
                                ELSE components[c]]
            /\ nodes' = [b \in Blocks |->
                  CASE b \in Touched ->
                         Shell(ready[CHOOSE s \in DOMAIN ready :
                                        b \in ready[s].instances].name)
                    [] b \notin Touched /\ \E d \in Touched : PageOf[d] = PageOf[b] ->
                         checkpoint.nodes[b]
                    [] OTHER -> nodes[b]]
            /\ UNCHANGED ready
    /\ UNCHANGED <<checkpoint, file, edits>>

\* The file, as it is by now, says what was applied.
MarkApplied ==
    /\ pc = "written"
    /\ file' = [file EXCEPT !.proposals =
                  [s \in DOMAIN @ |-> IF s \in DOMAIN ready
                                      THEN [@[s] EXCEPT !.status = "applied"]
                                      ELSE @[s]]]
    /\ pc' = "idle"
    /\ ready' = << >>
    /\ UNCHANGED <<nodes, components, checkpoint, edits>>

\* The command is killed, or ends in an error.
Kill ==
    /\ ~Idle
    /\ pc' = "idle"
    /\ ready' = << >>
    /\ UNCHANGED <<nodes, components, checkpoint, file, edits>>

People ==
    \/ \E b \in Blocks : EditBlock(b)
    \/ \E c \in Names : CreateComponent(c)
    \/ \E s \in Shapes, n \in Names \cup {None}, status \in {"proposed", "accepted"} :
          Decide(s, n, status)

Tool ==
    \/ Baseline
    \/ \E routes \in SUBSET Pages : Mine(routes)
    \/ StartApply \/ Write \/ MarkApplied \/ Kill

Next == People \/ Tool

Spec == Init /\ [][Next]_vars

---------------------------------------------------------------------------

TypeOK ==
    /\ nodes \in [Blocks -> Node \cup {None}]
    /\ IsPartial(components, Names, Node)
    /\ checkpoint # None =>
          /\ checkpoint = [nodes |-> checkpoint.nodes, components |-> checkpoint.components]
          /\ checkpoint.nodes \in [Blocks -> Node \cup {None}]
          /\ IsPartial(checkpoint.components, Names, Node)
    /\ file # None =>
          /\ file = [proposals |-> file.proposals, orphaned |-> file.orphaned]
          /\ IsPartial(file.proposals, Shapes, Proposal)
          /\ file.orphaned \in SUBSET Orphan
    /\ pc \in {"idle", "recorded", "written"}
    /\ IsPartial(ready, Shapes, Proposal)
    /\ edits \in 0..MaxEdits

\* No step of the tool makes a decision vanish: it stays where it was, with
\* its name, or it is among the orphans ("losing it is not" life-cycle,
\* componentize.mine).  Its status changes only to applied, and only when its
\* shape was extracted.
DecisionsOf(f) ==
    f.orphaned \cup {DecisionOf(s, f.proposals[s]) :
                        s \in {t \in DOMAIN f.proposals : Decided(f.proposals[t])}}

NoDecisionVanishes ==
    [][Tool /\ file # None =>
          \A d \in DecisionsOf(file) : \E e \in DecisionsOf(file') :
              /\ e.shape = d.shape /\ e.name = d.name
              /\ \/ e.status = d.status
                 \/ /\ e.status = "applied"
                    /\ d.shape \in DOMAIN ready
                    /\ ready[d.shape].name \in DOMAIN components]_vars

\* A component is made of the very node each of its instances was, and an
\* instance comes to extend no other ("nothing distinguishes them, so the
\* shell each becomes is legitimately empty", module docstring); a component
\* somebody else made is never changed.  So a plain block keeps its content.
\* An instance that was a shell already has none of its own to give, and what
\* it extended is only reached, if it is, through the new component.
ComponentIsItsInstances ==
    [][Write =>
          /\ \A b \in Blocks : nodes'[b] # nodes[b] /\ nodes'[b] # checkpoint.nodes[b] =>
                /\ nodes'[b].extends \in DOMAIN components' \ DOMAIN components
                /\ components'[nodes'[b].extends] = checkpoint.nodes[b]
          /\ \A c \in DOMAIN components : components'[c] = components[c]]_vars

=============================================================================
