-------------------------------- MODULE Verify --------------------------------
(***************************************************************************)
(* What is checked of a clone before it is handed over: the payloads in    *)
(* build/ (tools/conformance.py, validate.py, with handoff.py and golive.py*)
(* behind it), the page against its source (clone_diff.py), and the        *)
(* features of the source in a browser (visual_check.py).  buildsmith      *)
(* verify joins three of them into one exit code: 0 proved, 1 found a      *)
(* problem, 2 could not check (errors.py).                                 *)
(***************************************************************************)
EXTENDS Naturals, Sequences, FiniteSets, FiniteSetsExt

CONSTANTS
    Clones,   \* the clones there may be, with the pages they are made from
    Families, \* the font families
    Brief,    \* the texts of two characters at most
    Unset

VARIABLES
    clone,   \* the clone at hand: build, source, page, features, tools, workflow
    asked,   \* the last command
    verdict  \* its exit code

verifyVars == <<clone, asked, verdict>>

(* A payload: a page, one that roots on the document's skeleton, one without *)
(* blocks, a file that is no JSON, a component, and one without blockIds.    *)
Kinds == {"page", "skeleton", "bare", "torn", "component", "idless"}
Unfit == {"skeleton", "bare", "torn"}
Invalid == {"bare", "torn", "idless"}
KindsIn(build) == {build[slot] : slot \in DOMAIN build} \ {Unset}

(* What the browser may find of a feature (_check_page). *)
Shown == {"there", "background", "icon", "changed"}
Untold == {"later", "unperformable"}
Facts == Shown \cup Untold \cup {"missing", "unpainted", "dead"}

(* A page is known by its rules, and a rule has finitely many declarations. *)
IsRule(r) == r = [context |-> r.context, bundle |-> r.bundle] /\ IsFiniteSet(r.bundle)
IsPage(page) ==
    /\ Len(page.generated) \in Nat /\ DOMAIN page.generated = 1 .. Len(page.generated)
    /\ \A i \in DOMAIN page.generated : IsRule(page.generated[i])
IsClone(c) ==
    /\ c.build # Unset => KindsIn(c.build) \subseteq Kinds
    /\ c.source # Unset => IsPage(c.source)
    /\ IsPage(c.page)
    /\ c.features # Unset => \A f \in c.features : f.fact \in Facts
    /\ c.browser \in {"present", "absent", "broken"} /\ c.loads \in BOOLEAN
    /\ c.workflow \in {"replicate", "theme"} /\ c.designed \in BOOLEAN

Commands == {"conformance", "validate", "handoff", "golive", "diff", "visual", "verify"}
ASSUME ClonesAssumption == (\E c \in Clones : TRUE) /\ \A c \in Clones : IsClone(c)
ASSUME UnsetAssumption == Unset \notin Commands \cup Kinds /\ Unset \notin 0 .. 2

VerifyInit ==
    /\ clone \in Clones
    /\ asked = Unset
    /\ verdict = Unset

Answer(command, code) ==
    /\ asked' = command
    /\ verdict' = code
    /\ UNCHANGED clone

-----------------------------------------------------------------------------
(* check_payload_dir: pages only, and a file that cannot be read. *)
PagesChecked(build) == KindsIn(build) \cap {"page", "skeleton", "bare"} # {}
Conformant(build) == KindsIn(build) \cap Unfit = {}

ConformanceCode(build) ==
    CASE build = Unset -> 2
      [] build # Unset /\ ~PagesChecked(build) -> 2
      [] OTHER -> IF Conformant(build) THEN 0 ELSE 1
Conformance == Answer("conformance", ConformanceCode(clone.build))

(* validate.main: nothing to validate is an error of the command line. *)
ValidateCode(build) ==
    CASE build = Unset \/ KindsIn(build) = {} -> 2
      [] build # Unset /\ KindsIn(build) \cap Invalid # {} -> 1
      [] OTHER -> 0
Validate == clone.build # Unset /\ Answer("validate", ValidateCode(clone.build))

(* handoff.brief hands over what validate lets through. *)
Handoff == Answer("handoff", IF clone.build = Unset THEN 1 ELSE ValidateCode(clone.build))

(* golive.generate.  A replicate is planned from the payloads in build/pages,*)
(* which validate must let through; what it says of no payload at all is the *)
(* exit code (parser.error).  Any other site is built anew from its design,  *)
(* and nothing reads its build/.                                             *)
GoLiveCode(c, paged) ==
    IF c.workflow = "replicate"
    THEN IF c.build = Unset \/ ~paged THEN 1 ELSE ValidateCode(c.build)
    ELSE IF c.designed THEN 0 ELSE 1
GoLive(paged) ==
    /\ clone.build # Unset /\ PagesChecked(clone.build) => paged
    /\ Answer("golive", GoLiveCode(clone, paged))

-----------------------------------------------------------------------------
(* A declaration is a sequence: a font stack is that of its families.  A     *)
(* generated rule is a bundle of declarations under a media condition.       *)
IsFont(d) == d[1] \in Families
Reduced(bundle) == {IF IsFont(d) THEN <<d[1]>> ELSE d : d \in bundle}

(* _reducible_stack *)
Reducible(d, bundle) == IsFont(d) /\ Len(d) > 1 /\ <<d[1]>> \in bundle
ReducedRule(rule) == [rule EXCEPT !.bundle = Reduced(rule.bundle)]

\* Mutant: the closest rule may be one of another media condition.
PoolAnywhere(rules, places, rule) == places
(* The rules under the same condition, and the first that shares most; rules *)
(* of the page are named by their places in it.                              *)
Pool(rules, places, rule) == {i \in places : rules[i].context = rule.context}
Closest(rules, pool, rule) ==
    LET shared(i) == Cardinality(rules[i].bundle \cap rule.bundle)
        best == {i \in pool : \A j \in pool : shared(j) <= shared(i)}
    IN  rules[Min(best)]

(* What the closest rule lacks is in the first families of its stacks.       *)
Covers(closest, rule) ==
    \A d \in rule.bundle \ closest.bundle : Reducible(d, closest.bundle)

(* compare_rules, for one generated rule of the source.  An exact match uses *)
(* the clone's rule up, a reduced one a place in the index, which has every  *)
(* rule of the clone.                                                        *)
CompareRule(rules, found, rule) ==
    LET exact == {i \in found.remaining : rules[i] = rule}
        reduced == {i \in found.index : ReducedRule(rules[i]) = ReducedRule(rule)}
        pool == Pool(rules, found.remaining, rule)
    IN
    CASE exact # {} -> [found EXCEPT !.remaining = @ \ {Min(exact)}]
      [] exact = {} /\ reduced # {} -> [found EXCEPT !.index = @ \ {Min(reduced)}]
      [] OTHER -> IF pool # {} /\ Covers(Closest(rules, pool, rule), rule)
                  THEN found ELSE [found EXCEPT !.omitted = @ \cup {rule}]

(* The clone's rules before the first is compared.                           *)
Unused(page) ==
    [remaining |-> DOMAIN page.generated, index |-> DOMAIN page.generated, omitted |-> {}]

(* compare_rules, after so many rules of the source.                         *)
Found(source, page) ==
    LET found[i \in 0 .. Len(source.generated)] ==
            IF i = 0 THEN Unused(page)
            ELSE CompareRule(page.generated, found[i - 1], source.generated[i])
    IN  found

(* The rules of the source that no rule of the clone stands for.             *)
Omitted(source, page) == Found(source, page)[Len(source.generated)].omitted

(* compare: rules by name, assets, texts, links and scripts are sets, and an *)
(* asset that does not resolve is one the markup hides.  A text that is brief*)
(* may be missing.                                                           *)
Lost(source, page) ==
    (source.stable \ page.stable) \cup (source.things \ page.things)
        \cup ((source.texts \ page.texts) \ Brief)
Faithful(source, page) ==
    /\ Lost(source, page) = {}
    /\ Omitted(source, page) = {}
    /\ page.broken = {}

CloneDiff ==
    /\ clone.source # Unset
    /\ Answer("diff", IF Faithful(clone.source, clone.page) THEN 0 ELSE 1)

-----------------------------------------------------------------------------
(* _check_page: what the browser shows of a feature, and what is made of it. *)
(* A runtime element may come with an interaction, and an interaction that   *)
(* cannot be performed is inconclusive.                                      *)
Passed(features) == {f \in features : f.fact \in Shown}
Skipped(features) == {f \in features : f.fact \in Untold}
Failed(features) == features \ (Passed(features) \cup Skipped(features))

(* check_site: without playwright, and then without an inventory, it cannot *)
(* check; a browser that does not start is an exception; a page that does not*)
(* load is a failure.                                                        *)
VisualCode(c) ==
    IF c.browser = "absent" \/ c.features = Unset THEN 2
    ELSE IF c.browser = "present" /\ c.loads /\ Failed(c.features) = {} THEN 0 ELSE 1
(* visual_check.main: a playwright that is missing is a traceback there. *)
Visual == Answer("visual", IF clone.browser = "absent" THEN 1 ELSE VisualCode(clone))

(* cmd_verify *)
Problems(c) ==
    \/ ConformanceCode(c.build) = 1
    \/ c.source # Unset /\ ~Faithful(c.source, c.page)
\* Mutant: a browser check that could not be made counts for nothing.
VerifyCodeOfRest(c) ==
    IF Problems(c) \/ VisualCode(c) = 1 THEN 1 ELSE IF ConformanceCode(c.build) = 2 THEN 2 ELSE 0
VerifyCode(c) ==
    IF Problems(c) \/ VisualCode(c) = 1 THEN 1
    ELSE IF VisualCode(c) = 2 \/ ConformanceCode(c.build) = 2 THEN 2 ELSE 0
VerifyClone == Answer("verify", VerifyCode(clone))

VerifyNext ==
    \/ Conformance \/ Validate \/ Handoff \/ CloneDiff \/ Visual \/ VerifyClone
    \/ \E paged \in BOOLEAN : GoLive(paged)

-----------------------------------------------------------------------------
VerifyTypeOK ==
    /\ IsClone(clone)
    /\ asked \in Commands \cup {Unset} /\ verdict \in {Unset} \cup 0 .. 2
    /\ asked = Unset <=> verdict = Unset

(* What the source says of a rule, a rule of the page says under the same    *)
(* condition: each declaration, or the first family of each font stack.      *)
Says(r, d) == d \in r.bundle \/ (IsFont(d) /\ \E e \in r.bundle : e[1] = d[1])
Carried(source, page) ==
    /\ source.stable \subseteq page.stable /\ source.things \subseteq page.things
    /\ source.texts \subseteq page.texts \cup Brief
    /\ \A i \in DOMAIN source.generated :
        \E j \in DOMAIN page.generated :
            /\ page.generated[j].context = source.generated[i].context
            /\ \A d \in source.generated[i].bundle : Says(page.generated[j], d)

GoodPages(build) ==
    /\ \E slot \in DOMAIN build : build[slot] = "page"
    /\ \A slot \in DOMAIN build : build[slot] \in {Unset, "page", "component", "idless"}

(* "0 proved": a clone that passes verify has pages, all of them fit for the *)
(* editor, carries what its source says, and shows every feature that could  *)
(* be looked at.  "2 could not check": what could be checked has no problem, *)
(* and something could not.  A payload that passes handoff, or golive of a   *)
(* replicate, is one that Builder takes (cmd_verify, errors.py); golive of a *)
(* theme says that its design builds, and nothing of what is in build/.      *)
VerifyVerdictIsTrue ==
    /\ (asked = "verify" /\ verdict = 0) =>
        /\ clone.build # Unset /\ GoodPages(clone.build)
        /\ clone.source # Unset => Carried(clone.source, clone.page)
        /\ clone.browser = "present" /\ clone.loads /\ clone.features # Unset
        /\ \A f \in clone.features : f.fact \notin {"missing", "unpainted", "dead"}
    /\ (asked = "verify" /\ verdict = 2) =>
        /\ clone.source # Unset => Carried(clone.source, clone.page)
        /\ clone.build = Unset \/ GoodPages(clone.build) \/ ~PagesChecked(clone.build)
        /\ clone.build = Unset \/ ~PagesChecked(clone.build) \/ clone.browser = "absent"
            \/ clone.features = Unset
    /\ (asked = "diff" /\ verdict = 0) => Carried(clone.source, clone.page)
    /\ /\ asked = "handoff" \/ (asked = "golive" /\ clone.workflow = "replicate")
       /\ verdict = 0
       => \E slot \in DOMAIN clone.build :
            /\ clone.build[slot] # Unset
            /\ \A other \in DOMAIN clone.build : clone.build[other] \notin Invalid
=============================================================================
