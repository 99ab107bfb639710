---------------------------- MODULE ChecksProofs ----------------------------
(*****************************************************************************)
(* The three programs that give out a verdict give out a true one: for every *)
(* pin and every set of Builders, clones of any rules and places, any number *)
(* of runs that were killed, and any history of the repository.              *)
(*                                                                           *)
(* check: StageInv to VerdictInv say what a runner that has come to a stage  *)
(* knows of the sandbox it shares with earlier runs.  hooks: a commit and a  *)
(* push are one step each, taken apart check by check.  verify: what it      *)
(* finds in a clone is compared, rule by rule, with what is wrong with it.   *)
(*****************************************************************************)
EXTENDS Checks, FiniteSetTheorems, WellFoundedInduction, TLAPS

-----------------------------------------------------------------------------
(* Numbers and places.                                                       *)

LEMMA Least ==
    ASSUME NEW S \in SUBSET Nat, S # {}
    PROVE  \E m \in S : \A n \in S : m <= n
<1>1. PICK m \in S : \A n \in S : ~(<<n, m>> \in OpToRel(<, Nat))
    BY NatLessThanWellFounded, WFMin
<1>2. \A n \in S : ~(n < m)
    BY <1>1 DEF OpToRel
<1> QED BY <1>2

LEMMA MinLemma ==
    ASSUME NEW S \in SUBSET Nat, S # {}
    PROVE  Min(S) \in S
BY Least DEF Min

LEMMA MaxOfTwo ==
    ASSUME NEW a \in Nat, NEW b \in Nat
    PROVE  Max({a, b}) = IF a >= b THEN a ELSE b
<1>1. \E m \in {a, b} : \A x \in {a, b} : m >= x
    OBVIOUS
<1>2. Max({a, b}) \in {a, b} /\ \A x \in {a, b} : Max({a, b}) >= x
    BY <1>1 DEF Max
<1> QED BY <1>2

LEMMA MaxOfThree ==
    ASSUME NEW a \in Nat, NEW b \in Nat, NEW c \in Nat, Max({a, b, c}) = 0
    PROVE  a = 0 /\ b = 0 /\ c = 0
<1>1. \E m \in {a, b, c} : \A x \in {a, b, c} : m >= x
    <2>1. CASE a >= b /\ a >= c
        BY <2>1
    <2>2. CASE b >= a /\ b >= c
        BY <2>2
    <2>3. CASE c >= a /\ c >= b
        BY <2>3
    <2> QED BY <2>1, <2>2, <2>3
<1>2. Max({a, b, c}) \in {a, b, c} /\ \A x \in {a, b, c} : Max({a, b, c}) >= x
    BY <1>1 DEF Max
<1> QED BY <1>2

(* One that shares most is there: with the fewest that it does not share.    *)
LEMMA ClosestLemma ==
    ASSUME NEW rules, NEW pool \in SUBSET Nat, pool # {}, NEW rule, IsFiniteSet(rule.bundle)
    PROVE  \E i \in pool : Closest(rules, pool, rule) = rules[i]
<1> DEFINE shared(i) == Cardinality(rules[i].bundle \cap rule.bundle)
           all == Cardinality(rule.bundle)
           best == {i \in pool : \A j \in pool : shared(j) <= shared(i)}
           L == {all - shared(i) : i \in pool}
<1>1. all \in Nat /\ \A i \in pool : shared(i) \in Nat /\ shared(i) <= all
    BY FS_Subset, FS_CardinalityType
<1> HIDE DEF shared, all
<1>2. L \in SUBSET Nat /\ L # {}
    <2>1. \A i \in pool : all - shared(i) \in Nat
        BY <1>1
    <2> QED BY <2>1
<1>3. PICK m \in L : \A n \in L : m <= n
    BY <1>2, Least
<1>4. PICK i \in pool : m = all - shared(i)
    OBVIOUS
<1>5. i \in best
    <2>1. ASSUME NEW j \in pool PROVE shared(j) <= shared(i)
        <3>1. all - shared(i) <= all - shared(j)
            BY <1>3, <1>4
        <3> QED BY <1>1, <3>1
    <2> QED BY <2>1
<1>6. Min(best) \in best
    <2> HIDE DEF best
    <2>1. best \in SUBSET Nat
        BY DEF best
    <2> QED BY <1>5, <2>1, MinLemma
<1>7. Closest(rules, pool, rule) = rules[Min(best)]
    BY DEF Closest, shared
<1> QED BY <1>6, <1>7

-----------------------------------------------------------------------------
(* The generated rules of a clone.                                           *)

IsFinding(g, source, page) ==
    g = [i \in 0 .. Len(source.generated) |->
            IF i = 0 THEN Unused(page)
            ELSE CompareRule(page.generated, g[i - 1], source.generated[i])]

IsFindingTo(g, n, source, page) ==
    g = [i \in 0 .. n |->
            IF i = 0 THEN Unused(page)
            ELSE CompareRule(page.generated, g[i - 1], source.generated[i])]

LEMMA FindingTo ==
    ASSUME NEW source, NEW page, NEW n \in Nat
    PROVE  \E g : IsFindingTo(g, n, source, page)
<1> DEFINE Bad == {m \in Nat : ~\E g : IsFindingTo(g, m, source, page)}
<1> SUFFICES ASSUME Bad # {} PROVE FALSE
    OBVIOUS
<1>1. PICK m \in Bad : \A k \in Bad : m <= k
    BY Least
<1>2. CASE m = 0
    <2> DEFINE g == [i \in 0 .. 0 |-> Unused(page)]
    <2>1. IsFindingTo(g, 0, source, page)
        BY DEF IsFindingTo
    <2> QED BY <1>2, <2>1
<1>3. CASE m # 0
    <2>1. m - 1 \in Nat /\ m - 1 \notin Bad
        BY <1>1, <1>3
    <2>2. PICK f : IsFindingTo(f, m - 1, source, page)
        BY <2>1
    <2> DEFINE step(i, h) == IF i = 0 THEN Unused(page)
                             ELSE CompareRule(page.generated, h, source.generated[i])
               g == [i \in 0 .. m |-> IF i = m THEN step(m, f[m - 1]) ELSE f[i]]
    <2>3. \A i \in 0 .. m - 1 : f[i] = step(i, f[i - 1])
        BY <2>2 DEF IsFindingTo
    <2> HIDE DEF step
    <2>4. \A i \in 0 .. m : g[i] = step(i, g[i - 1])
        <3>1. g[m] = step(m, f[m - 1]) /\ g[m - 1] = f[m - 1]
            BY <1>3
        <3>2. ASSUME NEW i \in 0 .. m - 1 PROVE g[i] = step(i, g[i - 1])
            <4>1. CASE i = 0
                BY <2>3, <4>1, <1>3 DEF step
            <4>2. CASE i # 0
                BY <2>3, <4>2
            <4> QED BY <4>1, <4>2
        <3> HIDE DEF g
        <3>3. \A i \in 0 .. m : i = m \/ i \in 0 .. m - 1
            OBVIOUS
        <3>4. g[m] = step(m, g[m - 1])
            BY <3>1
        <3> QED BY <3>2, <3>3, <3>4
    <2>5. g = [i \in 0 .. m |-> step(i, g[i - 1])]
        <3> HIDE DEF g
        <3>1. g = [i \in 0 .. m |-> g[i]]
            BY DEF g
        <3> QED BY <2>4, <3>1
    <2>6. IsFindingTo(g, m, source, page)
        BY <2>5 DEF IsFindingTo, step
    <2> QED BY <2>6
<1> QED BY <1>2, <1>3

LEMMA FoundStep ==
    ASSUME NEW source, NEW page, Len(source.generated) \in Nat
    PROVE  /\ Found(source, page)[0] = Unused(page)
           /\ \A i \in 1 .. Len(source.generated) :
                 Found(source, page)[i] =
                    CompareRule(page.generated, Found(source, page)[i - 1], source.generated[i])
<1>1. \E g : IsFinding(g, source, page)
    <2>1. PICK g : IsFindingTo(g, Len(source.generated), source, page)
        BY FindingTo
    <2>2. IsFinding(g, source, page)
        BY <2>1 DEF IsFinding, IsFindingTo
    <2> QED BY <2>2
<1>2. Found(source, page) = CHOOSE g : IsFinding(g, source, page)
    BY DEF Found, IsFinding
<1>3. IsFinding(Found(source, page), source, page)
    BY <1>1, <1>2
<1> HIDE DEF Found
<1> QED BY <1>3 DEF IsFinding

Findings(source, page) ==
    [remaining : SUBSET DOMAIN page.generated, index : SUBSET DOMAIN page.generated,
     omitted : SUBSET {source.generated[i] : i \in DOMAIN source.generated}]

LEMMA CompareType ==
    ASSUME NEW source, NEW page, NEW found \in Findings(source, page),
           NEW i \in DOMAIN source.generated
    PROVE  LET next == CompareRule(page.generated, found, source.generated[i])
           IN  next \in Findings(source, page) /\ found.omitted \subseteq next.omitted
<1> DEFINE rule == source.generated[i]
           exact == {j \in found.remaining : page.generated[j] = rule}
           reduced == {j \in found.index : ReducedRule(page.generated[j]) = ReducedRule(rule)}
           next == CompareRule(page.generated, found, rule)
<1>1. \/ next = [found EXCEPT !.remaining = @ \ {Min(exact)}]
      \/ next = [found EXCEPT !.index = @ \ {Min(reduced)}]
      \/ next = found
      \/ next = [found EXCEPT !.omitted = @ \cup {rule}]
    <2>1. CASE exact # {}
        BY <2>1 DEF CompareRule
    <2>2. CASE exact = {} /\ reduced # {}
        BY <2>2 DEF CompareRule
    <2>3. CASE exact = {} /\ reduced = {}
        BY <2>3 DEF CompareRule
    <2> QED BY <2>1, <2>2, <2>3
<1> HIDE DEF next, exact, reduced
<1>2. rule \in {source.generated[j] : j \in DOMAIN source.generated}
    OBVIOUS
<1> HIDE DEF rule
<1>3. next \in Findings(source, page) /\ found.omitted \subseteq next.omitted
    BY <1>1, <1>2 DEF Findings
<1> QED BY <1>3 DEF next, rule

LEMMA FoundType ==
    ASSUME NEW source, NEW page, IsPage(source)
    PROVE  \A i \in 0 .. Len(source.generated) : Found(source, page)[i] \in Findings(source, page)
<1> DEFINE n == Len(source.generated)
           Bad == {i \in 0 .. n : Found(source, page)[i] \notin Findings(source, page)}
<1>1. n \in Nat /\ DOMAIN source.generated = 1 .. n
    BY DEF IsPage
<1> HIDE DEF n
<1>2. SUFFICES ASSUME Bad # {} PROVE FALSE
    BY DEF n
<1>3. PICK i \in Bad : \A j \in Bad : i <= j
    <2>1. Bad \in SUBSET Nat
        BY <1>1
    <2> QED BY <1>2, <2>1, Least
<1>4. Found(source, page)[0] \in Findings(source, page)
    <2>1. Found(source, page)[0] = Unused(page)
        BY <1>1, FoundStep DEF n
    <2>2. Unused(page) \in Findings(source, page)
        BY DEF Unused, Findings
    <2> QED BY <2>1, <2>2
<1>5. i # 0 /\ i \in 1 .. n /\ i - 1 \in 0 .. n /\ i - 1 \notin Bad
    BY <1>1, <1>3, <1>4
<1>6. Found(source, page)[i] = CompareRule(page.generated, Found(source, page)[i - 1], source.generated[i])
    BY <1>1, <1>5, FoundStep DEF n
<1>7. Found(source, page)[i - 1] \in Findings(source, page)
    BY <1>5
<1>8. Found(source, page)[i] \in Findings(source, page)
    BY <1>1, <1>5, <1>6, <1>7, CompareType
<1> QED BY <1>8

(* What has been omitted stays so. *)
LEMMA OmittedGrows ==
    ASSUME NEW source, NEW page, IsPage(source), Omitted(source, page) = {}
    PROVE  \A i \in 0 .. Len(source.generated) : Found(source, page)[i].omitted = {}
<1> DEFINE n == Len(source.generated)
           Bad == {k \in 0 .. n : Found(source, page)[n - k].omitted # {}}
<1>1. n \in Nat /\ DOMAIN source.generated = 1 .. n
    BY DEF IsPage
<1>2. Found(source, page)[n].omitted = {}
    BY DEF Omitted
<1>3. \A i \in 1 .. n : Found(source, page)[i - 1].omitted \subseteq Found(source, page)[i].omitted
    <2> TAKE i \in 1 .. n
    <2>1. Found(source, page)[i] =
            CompareRule(page.generated, Found(source, page)[i - 1], source.generated[i])
        BY <1>1, FoundStep
    <2>2. i - 1 \in 0 .. n
        BY <1>1
    <2>3. Found(source, page)[i - 1] \in Findings(source, page)
        BY <2>2, FoundType
    <2> QED BY <1>1, <2>1, <2>3, CompareType
<1> HIDE DEF n
<1>4. ASSUME Bad # {} PROVE FALSE
    <2>1. Bad \in SUBSET Nat
        BY <1>1
    <2>2. PICK k \in Bad : \A j \in Bad : k <= j
        BY <1>4, <2>1, Least
    <2>3. k \in Nat /\ k # 0 /\ n - k \in Nat /\ k <= n
        BY <1>1, <1>2, <2>1
    <2>4. k - 1 \in 0 .. n /\ n - (k - 1) = (n - k) + 1 /\ k - 1 \notin Bad
        <3>1. k - 1 \in 0 .. n /\ n - (k - 1) = (n - k) + 1 /\ ~(k <= k - 1)
            BY <1>1, <2>3
        <3>2. k - 1 \notin Bad
            BY <2>2, <3>1
        <3> QED BY <3>1, <3>2
    <2>5. Found(source, page)[(n - k) + 1].omitted = {}
        BY <2>4
    <2>6. (n - k) + 1 \in 1 .. n /\ ((n - k) + 1) - 1 = n - k
        BY <1>1, <2>3
    <2>7. Found(source, page)[n - k].omitted \subseteq {}
        BY <1>3, <2>5, <2>6
    <2> QED BY <2>2, <2>7
<1>5. ASSUME NEW i \in 0 .. n PROVE Found(source, page)[i].omitted = {}
    <2>1. n - i \in 0 .. n /\ n - (n - i) = i
        BY <1>1
    <2> QED BY <1>4, <2>1
<1> QED BY <1>5 DEF n

(* A rule that is matched, exactly, with its font stacks reduced, or by the  *)
(* closest one, is said by a rule of the page.                               *)
LEMMA ReducedSays ==
    ASSUME NEW rule, NEW r, IsRule(rule), IsRule(r), ReducedRule(r) = ReducedRule(rule)
    PROVE  r.context = rule.context /\ \A d \in rule.bundle : Says(r, d)
<1>1. ReducedRule(r) = [context |-> r.context, bundle |-> Reduced(r.bundle)]
    BY DEF IsRule, ReducedRule
<1>2. ReducedRule(rule) = [context |-> rule.context, bundle |-> Reduced(rule.bundle)]
    BY DEF IsRule, ReducedRule
<1>3. r.context = rule.context /\ Reduced(r.bundle) = Reduced(rule.bundle)
    <2> DEFINE a == ReducedRule(r)
               b == ReducedRule(rule)
    <2>1. a.context = r.context /\ a.bundle = Reduced(r.bundle)
        BY <1>1
    <2>2. b.context = rule.context /\ b.bundle = Reduced(rule.bundle)
        BY <1>2
    <2> HIDE DEF a, b
    <2>3. a = b
        BY DEF a, b
    <2> QED BY <2>1, <2>2, <2>3
<1>4. ASSUME NEW d \in rule.bundle PROVE Says(r, d)
    <2>1. (IF IsFont(d) THEN <<d[1]>> ELSE d) \in Reduced(r.bundle)
        BY <1>3 DEF Reduced
    <2>2. PICK e \in r.bundle : (IF IsFont(d) THEN <<d[1]>> ELSE d) = (IF IsFont(e) THEN <<e[1]>> ELSE e)
        BY <2>1 DEF Reduced
    <2>3. CASE IsFont(d)
        <3>1. <<d[1]>> = e \/ <<d[1]>> = <<e[1]>>
            BY <2>2, <2>3
        <3>2. e[1] = d[1]
            BY <3>1
        <3> QED BY <2>3, <3>2 DEF Says
    <2>4. CASE ~IsFont(d)
        <3>1. CASE IsFont(e)
            <4>1. d = <<e[1]>>
                BY <2>2, <2>4, <3>1
            <4>2. d[1] = e[1]
                BY <4>1
            <4> QED BY <2>4, <3>1, <4>2 DEF IsFont
        <3>2. CASE ~IsFont(e)
            BY <2>2, <2>4, <3>2 DEF Says
        <3> QED BY <3>1, <3>2
    <2> QED BY <2>3, <2>4
<1> QED BY <1>3, <1>4

LEMMA CompareSays ==
    ASSUME NEW source, NEW page, NEW found \in Findings(source, page), IsPage(page),
           NEW rule, IsRule(rule),
           CompareRule(page.generated, found, rule).omitted = {}
    PROVE  \E j \in DOMAIN page.generated :
              /\ page.generated[j].context = rule.context
              /\ \A d \in rule.bundle : Says(page.generated[j], d)
<1> DEFINE exact == {j \in found.remaining : page.generated[j] = rule}
           reduced == {j \in found.index : ReducedRule(page.generated[j]) = ReducedRule(rule)}
           pool == Pool(page.generated, found.remaining, rule)
           closest == Closest(page.generated, pool, rule)
<1>1. /\ found.remaining \subseteq DOMAIN page.generated
      /\ found.index \subseteq DOMAIN page.generated
      /\ DOMAIN page.generated \in SUBSET Nat
      /\ \A j \in DOMAIN page.generated : IsRule(page.generated[j])
    BY DEF Findings, IsPage
<1>2. CASE exact # {}
    <2>1. PICK j \in DOMAIN page.generated : page.generated[j] = rule
        BY <1>1, <1>2
    <2> QED BY <2>1 DEF Says
<1>3. CASE reduced # {}
    <2>1. PICK j \in DOMAIN page.generated : ReducedRule(page.generated[j]) = ReducedRule(rule)
        BY <1>1, <1>3
    <2> QED BY <1>1, <2>1, ReducedSays
<1>4. CASE exact = {} /\ reduced = {}
    <2>1. CompareRule(page.generated, found, rule) =
            IF pool # {} /\ Covers(closest, rule)
            THEN found ELSE [found EXCEPT !.omitted = @ \cup {rule}]
        BY <1>4 DEF CompareRule
    <2>2. [found EXCEPT !.omitted = @ \cup {rule}].omitted # {}
        BY DEF Findings
    <2> HIDE DEF pool, closest
    <2>3. pool # {} /\ Covers(closest, rule)
        BY <2>1, <2>2
    <2>4. pool \subseteq DOMAIN page.generated /\ \A j \in pool : page.generated[j].context = rule.context
        BY <1>1 DEF Pool, pool
    <2>5. PICK j \in pool : closest = page.generated[j]
        BY <1>1, <2>3, <2>4, ClosestLemma DEF IsRule, closest
    <2>6. ASSUME NEW d \in rule.bundle PROVE Says(closest, d)
        <3>1. CASE d \in closest.bundle
            BY <3>1 DEF Says
        <3>2. CASE d \notin closest.bundle
            <4>1. IsFont(d) /\ <<d[1]>> \in closest.bundle
                BY <2>3, <3>2 DEF Covers, Reducible
            <4>2. <<d[1]>>[1] = d[1]
                OBVIOUS
            <4> QED BY <4>1, <4>2 DEF Says
        <3> QED BY <3>1, <3>2
    <2> QED BY <2>4, <2>5, <2>6
<1> QED BY <1>2, <1>3, <1>4

LEMMA FaithfulCarries ==
    ASSUME NEW source, NEW page, IsPage(source), IsPage(page), Faithful(source, page)
    PROVE  Carried(source, page)
<1>1. /\ source.stable \subseteq page.stable /\ source.things \subseteq page.things
      /\ source.texts \subseteq page.texts \cup Brief
    BY DEF Faithful, Lost
<1>2. ASSUME NEW i \in DOMAIN source.generated
      PROVE  \E j \in DOMAIN page.generated :
                /\ page.generated[j].context = source.generated[i].context
                /\ \A d \in source.generated[i].bundle : Says(page.generated[j], d)
    <2>1. /\ Len(source.generated) \in Nat /\ i \in 1 .. Len(source.generated)
          /\ i \in 0 .. Len(source.generated) /\ i - 1 \in 0 .. Len(source.generated)
          /\ IsRule(source.generated[i])
        BY DEF IsPage
    <2>2. Found(source, page)[i] =
            CompareRule(page.generated, Found(source, page)[i - 1], source.generated[i])
        BY <2>1, FoundStep
    <2>3. Found(source, page)[i - 1] \in Findings(source, page)
        BY <2>1, FoundType
    <2>4. Found(source, page)[i].omitted = {}
        BY <2>1, OmittedGrows DEF Faithful
    <2> QED BY <2>1, <2>2, <2>3, <2>4, CompareSays
<1> QED BY <1>1, <1>2 DEF Carried

-----------------------------------------------------------------------------
(* buildsmith verify, and what it joins.                                     *)

LEMMA VerifyTypeInit == VerifyInit => VerifyTypeOK
BY ClonesAssumption, UnsetAssumption DEF VerifyInit, VerifyTypeOK

LEMMA CodeType ==
    ASSUME NEW c, NEW build
    PROVE  /\ ConformanceCode(build) \in 0 .. 2 /\ ValidateCode(build) \in 0 .. 2
           /\ VisualCode(c) \in 0 .. 2 /\ VerifyCode(c) \in 0 .. 2
BY DEF ConformanceCode, ValidateCode, VisualCode, VerifyCode

LEMMA GoLiveType ==
    ASSUME NEW c, NEW paged
    PROVE  GoLiveCode(c, paged) \in 0 .. 2
BY CodeType DEF GoLiveCode

LEMMA AnswerType ==
    ASSUME VerifyTypeOK, VerifyNext
    PROVE  /\ asked' \in Commands /\ verdict' \in 0 .. 2 /\ clone' = clone
BY CodeType, GoLiveType DEF VerifyNext, Conformance, Validate, Handoff, GoLive, CloneDiff, Visual,
   VerifyClone, Answer, Commands

LEMMA VerifyTypeStep ==
    ASSUME VerifyTypeOK, VerifyNext
    PROVE  VerifyTypeOK'
<1>1. asked' \in Commands /\ verdict' \in 0 .. 2 /\ clone' = clone
    BY AnswerType
<1>2. IsClone(clone')
    BY <1>1 DEF VerifyTypeOK
<1> QED BY <1>1, <1>2, UnsetAssumption DEF VerifyTypeOK

(* A build without problems of conformance. *)
LEMMA GoodLemma ==
    ASSUME NEW build, build # Unset, KindsIn(build) \subseteq Kinds,
           ConformanceCode(build) # 1, PagesChecked(build)
    PROVE  GoodPages(build)
<1>1. KindsIn(build) \cap Unfit = {}
    BY DEF ConformanceCode, Conformant
<1>2. PICK kind \in KindsIn(build) : kind \in {"page", "skeleton", "bare"}
    BY DEF PagesChecked
<1>3. kind = "page"
    BY <1>1, <1>2 DEF Unfit
<1>4. \E slot \in DOMAIN build : build[slot] = "page"
    BY <1>2, <1>3 DEF KindsIn
<1>5. ASSUME NEW slot \in DOMAIN build, build[slot] # Unset
      PROVE  build[slot] \in {"page", "component", "idless"}
    <2>1. build[slot] \in KindsIn(build)
        BY <1>5 DEF KindsIn
    <2>2. build[slot] \in Kinds /\ build[slot] \notin Unfit
        BY <1>1, <2>1
    <2> QED BY <2>2 DEF Kinds, Unfit
<1> QED BY <1>4, <1>5 DEF GoodPages

(* What a clone passes without a problem. *)
LEMMA NoProblem ==
    ASSUME NEW c, IsClone(c), ~Problems(c)
    PROVE  /\ c.source # Unset => Carried(c.source, c.page)
           /\ c.build = Unset \/ GoodPages(c.build) \/ ~PagesChecked(c.build)
<1>1. c.source # Unset => Carried(c.source, c.page)
    BY FaithfulCarries DEF Problems, IsClone
<1>2. c.build # Unset /\ PagesChecked(c.build) => GoodPages(c.build)
    BY GoodLemma DEF Problems, IsClone
<1> QED BY <1>1, <1>2

LEMMA PassesVerify ==
    ASSUME NEW c, IsClone(c), VerifyCode(c) = 0
    PROVE  /\ c.build # Unset /\ GoodPages(c.build)
           /\ c.source # Unset => Carried(c.source, c.page)
           /\ c.browser = "present" /\ c.loads /\ c.features # Unset
           /\ \A f \in c.features : f.fact \notin {"missing", "unpainted", "dead"}
<1>1. VisualCode(c) # 2 /\ ~Problems(c) /\ VisualCode(c) # 1
    BY DEF VerifyCode
<1>2. ConformanceCode(c.build) # 2 /\ ConformanceCode(c.build) # 1
    <2>1. ConformanceCode(c.build) # 2
        BY <1>1 DEF VerifyCode
    <2> QED BY <1>1, <2>1 DEF Problems
<1>3. c.build # Unset /\ GoodPages(c.build)
    <2>1. c.build # Unset /\ PagesChecked(c.build)
        BY <1>2 DEF ConformanceCode
    <2> QED BY <1>2, <2>1, GoodLemma DEF IsClone
<1>4. c.source # Unset => Carried(c.source, c.page)
    BY <1>1, NoProblem
<1>5. c.browser = "present" /\ c.features # Unset
    BY <1>1 DEF VisualCode, IsClone
<1>6. c.loads /\ Failed(c.features) = {}
    BY <1>1, <1>5 DEF VisualCode
<1>7. \A f \in c.features : f.fact \notin {"missing", "unpainted", "dead"}
    BY <1>6 DEF Failed, Passed, Skipped, Shown, Untold
<1> QED BY <1>3, <1>4, <1>5, <1>6, <1>7

LEMMA UncheckedVerify ==
    ASSUME NEW c, IsClone(c), VerifyCode(c) = 2
    PROVE  /\ c.source # Unset => Carried(c.source, c.page)
           /\ c.build = Unset \/ GoodPages(c.build) \/ ~PagesChecked(c.build)
           /\ c.build = Unset \/ ~PagesChecked(c.build) \/ c.browser = "absent"
               \/ c.features = Unset
<1>1. ~Problems(c)
    BY DEF VerifyCode
<1>2. VisualCode(c) = 2 \/ ConformanceCode(c.build) = 2
    BY DEF VerifyCode
<1>3. VisualCode(c) = 2 => c.browser = "absent" \/ c.features = Unset
    BY DEF VisualCode
<1>4. ConformanceCode(c.build) = 2 => c.build = Unset \/ ~PagesChecked(c.build)
    BY DEF ConformanceCode
<1> QED BY <1>1, <1>2, <1>3, <1>4, NoProblem

LEMMA PassesValidate ==
    ASSUME NEW build, build # Unset, ValidateCode(build) = 0
    PROVE  \E slot \in DOMAIN build :
              /\ build[slot] # Unset
              /\ \A other \in DOMAIN build : build[other] \notin Invalid
<1>1. KindsIn(build) # {} /\ KindsIn(build) \cap Invalid = {}
    BY DEF ValidateCode
<1>2. ASSUME NEW other \in DOMAIN build PROVE build[other] \notin Invalid
    <2>1. Unset \notin Invalid
        BY UnsetAssumption DEF Invalid, Kinds
    <2> QED BY <1>1, <2>1 DEF KindsIn
<1>3. \E slot \in DOMAIN build : build[slot] # Unset
    BY <1>1 DEF KindsIn
<1> QED BY <1>2, <1>3

LEMMA VerifyVerdictStep ==
    ASSUME VerifyTypeOK, VerifyNext
    PROVE  VerifyVerdictIsTrue'
<1>1. clone' = clone /\ IsClone(clone)
    BY AnswerType DEF VerifyTypeOK
<1>2. CASE asked' = "verify"
    <2>1. verdict' = VerifyCode(clone)
        BY <1>2 DEF VerifyNext, Conformance, Validate, Handoff, GoLive, CloneDiff, Visual,
           VerifyClone, Answer
    <2>2. VerifyCode(clone) = 0 =>
              /\ clone.build # Unset /\ GoodPages(clone.build)
              /\ clone.source # Unset => Carried(clone.source, clone.page)
              /\ clone.browser = "present" /\ clone.loads /\ clone.features # Unset
              /\ \A f \in clone.features : f.fact \notin {"missing", "unpainted", "dead"}
        BY <1>1, PassesVerify
    <2>3. VerifyCode(clone) = 2 =>
              /\ clone.source # Unset => Carried(clone.source, clone.page)
              /\ clone.build = Unset \/ GoodPages(clone.build) \/ ~PagesChecked(clone.build)
              /\ clone.build = Unset \/ ~PagesChecked(clone.build) \/ clone.browser = "absent"
                  \/ clone.features = Unset
        BY <1>1, UncheckedVerify
    <2> QED BY <1>1, <1>2, <2>1, <2>2, <2>3 DEF VerifyVerdictIsTrue
<1>3. CASE asked' = "diff"
    <2>1. clone.source # Unset /\ (verdict' = 0 => Faithful(clone.source, clone.page))
        BY <1>3 DEF VerifyNext, Conformance, Validate, Handoff, GoLive, CloneDiff, Visual,
           VerifyClone, Answer
    <2>2. verdict' = 0 => Carried(clone.source, clone.page)
        BY <1>1, <2>1, FaithfulCarries DEF IsClone
    <2> QED BY <1>1, <1>3, <2>2 DEF VerifyVerdictIsTrue
<1>4. CASE asked' = "handoff" \/ (asked' = "golive" /\ clone.workflow = "replicate")
    <2>1. verdict' = 0 => clone.build # Unset /\ ValidateCode(clone.build) = 0
        BY <1>4 DEF VerifyNext, Conformance, Validate, Handoff, GoLive, GoLiveCode, CloneDiff, Visual,
           VerifyClone, Answer
    <2>2. verdict' = 0 => \E slot \in DOMAIN clone.build :
              /\ clone.build[slot] # Unset
              /\ \A other \in DOMAIN clone.build : clone.build[other] \notin Invalid
        BY <2>1, PassesValidate
    <2> QED BY <1>1, <1>4, <2>2 DEF VerifyVerdictIsTrue
<1>5. CASE asked' \notin {"verify", "diff", "handoff"}
           /\ ~(asked' = "golive" /\ clone.workflow = "replicate")
    BY <1>1, <1>5 DEF VerifyVerdictIsTrue
<1> QED BY <1>2, <1>3, <1>4, <1>5

-----------------------------------------------------------------------------
(* check_traps.py, check_simulate.py and check_roundtrip.py.                 *)

TrapSteps == {"bench"} \cup MapSteps \cup ListSteps
RoundSteps == {"clean", "author", "sync", "verify"}

(* A run that has not been killed: it goes on, or has ended by itself.       *)
Live == at # "idle" \/ exit # None

(* The steps of a run belong to what it was asked for, and its outcome is    *)
(* that of the check under way, or the page of the round trip.               *)
StageInv ==
    /\ at \in {"idle", "simulate"} \cup TrapSteps \cup RoundSteps
    /\ worst \in 0 .. 2
    /\ second = [there |-> second.there, works |-> second.works, pages |-> second.pages]
    /\ second.there \in BOOLEAN /\ second.works \in BOOLEAN
    /\ at \in TrapSteps => what \in {"traps", "all"} /\ worst = 0
    /\ at = "simulate" => what \in {"simulate", "all"}
    /\ at \in RoundSteps => what \in {"roundtrip", "all"}
    /\ at \in {"mapDown"} \cup (ListSteps \ {"list"}) => outcome \in {"pass", "fail", "unchecked"}
    /\ exit # None => what # None

(* A fixture is there only during the steps of its check, or while it is owed*)
(* a teardown.                                                               *)
FixturesInv ==
    /\ "map" \notin owed /\ at \notin MapSteps \ {"map"} => "map" \notin fixtures
    /\ "list" \notin owed /\ at \notin ListSteps \ {"list"} =>
          fixtures \cap ({"doctype"} \cup Routes) = {}

(* What has been found so far holds at the pin, as far as it has been told.  *)
ResultsInv ==
    Live =>
        /\ \A check \in Checks : results[check] = "pass" => Told(ClaimsOf[check]) \subseteq builder
        /\ at = "mapDown" /\ outcome = "pass" => "iframe" \in builder
        /\ at = "fetchBroken" /\ outcome = "pass" => "open" \in builder
        /\ at = "listDown" /\ outcome = "pass" =>
              "open" \in builder /\ ("broken" \in strays \/ "shut" \in builder)

(* No check is passed over on the way. *)
PassedInv ==
    /\ at \in TrapSteps \ {"bench"} => results["bench"] = "pass"
    /\ at \in ListSteps => results["map"] \in {"pass", "fail", "unchecked"}

(* The page that is found on the second site is the one that was authored.   *)
RoundInv ==
    /\ at = "author" => exported = {}
    /\ at = "sync" => exported = {outcome} /\ outcome \notin second.pages
    /\ at = "verify" => (outcome \in second.pages => "import" \in builder)

(* The codes of the runners that are done. *)
VerdictInv ==
    Live =>
        /\ at = "simulate" /\ worst = 0 =>
              what = "simulate" \/ Told(ClaimsOf["traps"]) \subseteq builder
        /\ at \in RoundSteps /\ worst = 0 =>
              what = "roundtrip" \/ Told(ClaimsOf["traps"] \cup ClaimsOf["simulate"]) \subseteq builder
        /\ exit = 0 => Told(ClaimsOf[what]) \subseteq builder
        /\ exit = 2 /\ what = "traps" =>
              \A check \in Checks : results[check] \in {"pass", "unchecked"}

TrapsIInv ==
    /\ TrapsTypeOK /\ StageInv /\ FixturesInv /\ ResultsInv /\ PassedInv /\ RoundInv /\ VerdictInv

(* Each part of the invariant is kept by every step. *)
LEMMA StageInvStep ==
    ASSUME TrapsTypeOK, StageInv, TrapsNext
    PROVE  StageInv'
<1> USE TrapsAssumption DEF TrapsTypeOK, StageInv, MapSteps, ListSteps, TrapSteps, RoundSteps,
   Routes, Runners, run, Checks, Claims
<1>1. ASSUME Repin PROVE StageInv'
    BY <1>1 DEF Repin, bench
<1>2. ASSUME Kill PROVE StageInv'
    BY <1>2 DEF Kill, Scripted, Tabled, bench
<1>3. ASSUME Refuse PROVE StageInv'
    BY <1>3 DEF Refuse, Throw, bench
<1>4. ASSUME RefuseMap PROVE StageInv'
    BY <1>4, MaxOfTwo DEF RefuseMap, Record, Finish, TrapsCode, bench
<1>5. ASSUME RefuseList PROVE StageInv'
    BY <1>5, MaxOfTwo DEF RefuseList, Record, Finish, TrapsCode, bench
<1>6. ASSUME FetchFails PROVE StageInv'
    BY <1>6 DEF FetchFails, Abandon, bench
<1>7. ASSUME VerifyImport PROVE StageInv'
    BY <1>7, MaxOfTwo DEF VerifyImport, Finish, Throw, bench
<1>8. ASSUME NEW arg \in Runners \cup {"all"}, Start(arg) PROVE StageInv'
    BY <1>8 DEF Start, FirstStep, bench
<1>9. ASSUME NEW runs \in BOOLEAN, BenchTraps(runs) PROVE StageInv'
    BY <1>9, MaxOfTwo DEF BenchTraps, Finish, bench
<1>10. ASSUME NEW runs \in BOOLEAN, SetUpMap(runs) PROVE StageInv'
    BY <1>10 DEF SetUpMap, bench
<1>11. ASSUME NEW runs \in BOOLEAN, TearDownMap(runs) PROVE StageInv'
    BY <1>11, MaxOfTwo DEF TearDownMap, Record, Finish, TrapsCode, bench
<1>12. ASSUME NEW runs \in BOOLEAN, SetUpPage(runs) PROVE StageInv'
    BY <1>12 DEF SetUpPage, Abandon, bench
<1>13. ASSUME NEW runs \in BOOLEAN, TearDownList(runs) PROVE StageInv'
    BY <1>13, MaxOfTwo DEF TearDownList, Record, Finish, TrapsCode, bench
<1>14. ASSUME NEW runs \in BOOLEAN, CheckSimulate(runs) PROVE StageInv'
    BY <1>14, MaxOfTwo DEF CheckSimulate, Finish, Throw, bench
<1>15. ASSUME NEW runs \in BOOLEAN, Sync(runs) PROVE StageInv'
    BY <1>15 DEF Sync, Throw, bench
<1>16. ASSUME NEW found \in {"pass", "fail", "unchecked"}, OpenEditor(found) PROVE StageInv'
    BY <1>16 DEF OpenEditor, bench
<1>17. ASSUME NEW runs \in BOOLEAN, NEW other \in BOOLEAN, SetUpDoctype(runs,
   other) PROVE StageInv'
    BY <1>17 DEF SetUpDoctype, Tabled, Abandon, bench
<1>18. ASSUME NEW runs \in BOOLEAN, NEW other \in BOOLEAN, CleanSlate(runs, other) PROVE StageInv'
    BY <1>18 DEF CleanSlate, Throw, bench
<1>19. ASSUME NEW ok \in BOOLEAN, ClearCaches(ok) PROVE StageInv'
    BY <1>19 DEF ClearCaches, Abandon, bench
<1>20. ASSUME NEW ok \in BOOLEAN, FetchFixed(ok) PROVE StageInv'
    BY <1>20 DEF FetchFixed, Fetch, Answers, bench
<1>21. ASSUME NEW ok \in BOOLEAN, FetchBroken(ok) PROVE StageInv'
    BY <1>21 DEF FetchBroken, Fetch, Answers, bench
<1>22. ASSUME NEW name \in PageNames, Author(name) PROVE StageInv'
    BY <1>22 DEF Author, bench
<1> QED BY <1>1, <1>2, <1>3, <1>4, <1>5, <1>6, <1>7, <1>8, <1>9, <1>10, <1>11, <1>12, <1>13,
   <1>14, <1>15, <1>16, <1>17, <1>18, <1>19, <1>20, <1>21, <1>22 DEF TrapsNext

LEMMA FixturesInvStep ==
    ASSUME TrapsTypeOK, StageInv, FixturesInv, TrapsNext
    PROVE  FixturesInv'
<1> USE TrapsAssumption DEF TrapsTypeOK, StageInv, FixturesInv, Live, MapSteps, ListSteps,
   Routes, run, Checks
<1>1. ASSUME Repin PROVE FixturesInv'
    BY <1>1 DEF Repin, bench
<1>2. ASSUME Kill PROVE FixturesInv'
    BY <1>2 DEF Kill, Scripted, Tabled, bench
<1>3. ASSUME Refuse PROVE FixturesInv'
    BY <1>3 DEF Refuse, Throw, bench
<1>4. ASSUME RefuseMap PROVE FixturesInv'
    BY <1>4, MaxOfTwo DEF RefuseMap, Record, Finish, TrapsCode, bench
<1>5. ASSUME RefuseList PROVE FixturesInv'
    BY <1>5, MaxOfTwo DEF RefuseList, Record, Finish, TrapsCode, bench
<1>6. ASSUME FetchFails PROVE FixturesInv'
    BY <1>6 DEF FetchFails, Abandon, bench
<1>7. ASSUME VerifyImport PROVE FixturesInv'
    BY <1>7, MaxOfTwo DEF VerifyImport, Finish, Throw, bench
<1>8. ASSUME NEW arg \in Runners \cup {"all"}, Start(arg) PROVE FixturesInv'
    BY <1>8 DEF Start, FirstStep, bench
<1>9. ASSUME NEW runs \in BOOLEAN, BenchTraps(runs) PROVE FixturesInv'
    BY <1>9, MaxOfTwo DEF BenchTraps, Finish, bench
<1>10. ASSUME NEW runs \in BOOLEAN, SetUpMap(runs) PROVE FixturesInv'
    BY <1>10 DEF SetUpMap, bench
<1>11. ASSUME NEW runs \in BOOLEAN, TearDownMap(runs) PROVE FixturesInv'
    BY <1>11, MaxOfTwo DEF TearDownMap, Record, Finish, TrapsCode, bench
<1>12. ASSUME NEW runs \in BOOLEAN, SetUpPage(runs) PROVE FixturesInv'
    BY <1>12 DEF SetUpPage, Abandon, bench
<1>13. ASSUME NEW runs \in BOOLEAN, TearDownList(runs) PROVE FixturesInv'
    BY <1>13, MaxOfTwo DEF TearDownList, Record, Finish, TrapsCode, bench
<1>14. ASSUME NEW runs \in BOOLEAN, CheckSimulate(runs) PROVE FixturesInv'
    BY <1>14, MaxOfTwo DEF CheckSimulate, Finish, Throw, bench
<1>15. ASSUME NEW runs \in BOOLEAN, Sync(runs) PROVE FixturesInv'
    BY <1>15 DEF Sync, Throw, bench
<1>16. ASSUME NEW found \in {"pass", "fail", "unchecked"}, OpenEditor(found) PROVE FixturesInv'
    BY <1>16 DEF OpenEditor, bench
<1>17. ASSUME NEW runs \in BOOLEAN, NEW other \in BOOLEAN, SetUpDoctype(runs,
   other) PROVE FixturesInv'
    BY <1>17 DEF SetUpDoctype, Tabled, Abandon, bench
<1>18. ASSUME NEW runs \in BOOLEAN, NEW other \in BOOLEAN, CleanSlate(runs,
   other) PROVE FixturesInv'
    BY <1>18 DEF CleanSlate, Throw, bench
<1>19. ASSUME NEW ok \in BOOLEAN, ClearCaches(ok) PROVE FixturesInv'
    BY <1>19 DEF ClearCaches, Abandon, bench
<1>20. ASSUME NEW ok \in BOOLEAN, FetchFixed(ok) PROVE FixturesInv'
    BY <1>20 DEF FetchFixed, Fetch, Answers, bench
<1>21. ASSUME NEW ok \in BOOLEAN, FetchBroken(ok) PROVE FixturesInv'
    BY <1>21 DEF FetchBroken, Fetch, Answers, bench
<1>22. ASSUME NEW name \in PageNames, Author(name) PROVE FixturesInv'
    BY <1>22 DEF Author, bench
<1> QED BY <1>1, <1>2, <1>3, <1>4, <1>5, <1>6, <1>7, <1>8, <1>9, <1>10, <1>11, <1>12, <1>13,
   <1>14, <1>15, <1>16, <1>17, <1>18, <1>19, <1>20, <1>21, <1>22 DEF TrapsNext

LEMMA PassedInvStep ==
    ASSUME TrapsTypeOK, StageInv, PassedInv, TrapsNext
    PROVE  PassedInv'
<1> USE TrapsAssumption DEF TrapsTypeOK, StageInv, PassedInv, MapSteps, ListSteps, TrapSteps,
   Routes, run, Checks, Runners
<1>1. ASSUME Repin PROVE PassedInv'
    BY <1>1 DEF Repin, bench
<1>2. ASSUME Kill PROVE PassedInv'
    BY <1>2 DEF Kill, Scripted, Tabled, bench
<1>3. ASSUME Refuse PROVE PassedInv'
    BY <1>3 DEF Refuse, Throw, bench
<1>4. ASSUME RefuseMap PROVE PassedInv'
    BY <1>4, MaxOfTwo DEF RefuseMap, Record, Finish, TrapsCode, bench
<1>5. ASSUME RefuseList PROVE PassedInv'
    BY <1>5, MaxOfTwo DEF RefuseList, Record, Finish, TrapsCode, bench
<1>6. ASSUME FetchFails PROVE PassedInv'
    BY <1>6 DEF FetchFails, Abandon, bench
<1>7. ASSUME VerifyImport PROVE PassedInv'
    BY <1>7, MaxOfTwo DEF VerifyImport, Finish, Throw, bench
<1>8. ASSUME NEW arg \in Runners \cup {"all"}, Start(arg) PROVE PassedInv'
    BY <1>8 DEF Start, FirstStep, bench
<1>9. ASSUME NEW runs \in BOOLEAN, BenchTraps(runs) PROVE PassedInv'
    BY <1>9, MaxOfTwo DEF BenchTraps, Finish, bench
<1>10. ASSUME NEW runs \in BOOLEAN, SetUpMap(runs) PROVE PassedInv'
    BY <1>10 DEF SetUpMap, bench
<1>11. ASSUME NEW runs \in BOOLEAN, TearDownMap(runs) PROVE PassedInv'
    BY <1>11, MaxOfTwo DEF TearDownMap, Record, Finish, TrapsCode, bench
<1>12. ASSUME NEW runs \in BOOLEAN, SetUpPage(runs) PROVE PassedInv'
    BY <1>12 DEF SetUpPage, Abandon, bench
<1>13. ASSUME NEW runs \in BOOLEAN, TearDownList(runs) PROVE PassedInv'
    BY <1>13, MaxOfTwo DEF TearDownList, Record, Finish, TrapsCode, bench
<1>14. ASSUME NEW runs \in BOOLEAN, CheckSimulate(runs) PROVE PassedInv'
    BY <1>14, MaxOfTwo DEF CheckSimulate, Finish, Throw, bench
<1>15. ASSUME NEW runs \in BOOLEAN, Sync(runs) PROVE PassedInv'
    BY <1>15 DEF Sync, Throw, bench
<1>16. ASSUME NEW found \in {"pass", "fail", "unchecked"}, OpenEditor(found) PROVE PassedInv'
    BY <1>16 DEF OpenEditor, bench
<1>17. ASSUME NEW runs \in BOOLEAN, NEW other \in BOOLEAN, SetUpDoctype(runs,
   other) PROVE PassedInv'
    BY <1>17 DEF SetUpDoctype, Tabled, Abandon, bench
<1>18. ASSUME NEW runs \in BOOLEAN, NEW other \in BOOLEAN, CleanSlate(runs,
   other) PROVE PassedInv'
    BY <1>18 DEF CleanSlate, Throw, bench
<1>19. ASSUME NEW ok \in BOOLEAN, ClearCaches(ok) PROVE PassedInv'
    BY <1>19 DEF ClearCaches, Abandon, bench
<1>20. ASSUME NEW ok \in BOOLEAN, FetchFixed(ok) PROVE PassedInv'
    BY <1>20 DEF FetchFixed, Fetch, Answers, bench
<1>21. ASSUME NEW ok \in BOOLEAN, FetchBroken(ok) PROVE PassedInv'
    BY <1>21 DEF FetchBroken, Fetch, Answers, bench
<1>22. ASSUME NEW name \in PageNames, Author(name) PROVE PassedInv'
    BY <1>22 DEF Author, bench
<1> QED BY <1>1, <1>2, <1>3, <1>4, <1>5, <1>6, <1>7, <1>8, <1>9, <1>10, <1>11, <1>12, <1>13,
   <1>14, <1>15, <1>16, <1>17, <1>18, <1>19, <1>20, <1>21, <1>22 DEF TrapsNext

LEMMA ResultsInvStep ==
    ASSUME TrapsTypeOK, StageInv, PassedInv, ResultsInv, TrapsNext
    PROVE  ResultsInv'
<1> USE TrapsAssumption DEF TrapsTypeOK, StageInv, PassedInv, ResultsInv, Live, MapSteps,
   ListSteps, TrapSteps, Routes, run, Checks, Runners, ClaimsOf, Told
<1>1. ASSUME Repin PROVE ResultsInv'
    BY <1>1 DEF Repin, bench
<1>2. ASSUME Kill PROVE ResultsInv'
    BY <1>2 DEF Kill, Scripted, Tabled, bench
<1>3. ASSUME Refuse PROVE ResultsInv'
    BY <1>3 DEF Refuse, Throw, bench
<1>4. ASSUME RefuseMap PROVE ResultsInv'
    BY <1>4, MaxOfTwo DEF RefuseMap, Record, Finish, TrapsCode, bench
<1>5. ASSUME RefuseList PROVE ResultsInv'
    BY <1>5, MaxOfTwo DEF RefuseList, Record, Finish, TrapsCode, bench
<1>6. ASSUME FetchFails PROVE ResultsInv'
    BY <1>6 DEF FetchFails, Abandon, bench
<1>7. ASSUME VerifyImport PROVE ResultsInv'
    BY <1>7, MaxOfTwo DEF VerifyImport, Finish, Throw, bench
<1>8. ASSUME NEW arg \in Runners \cup {"all"}, Start(arg) PROVE ResultsInv'
    BY <1>8 DEF Start, FirstStep, bench
<1>9. ASSUME NEW runs \in BOOLEAN, BenchTraps(runs) PROVE ResultsInv'
    BY <1>9, MaxOfTwo DEF BenchTraps, Finish, bench
<1>10. ASSUME NEW runs \in BOOLEAN, SetUpMap(runs) PROVE ResultsInv'
    BY <1>10 DEF SetUpMap, bench
<1>11. ASSUME NEW runs \in BOOLEAN, TearDownMap(runs) PROVE ResultsInv'
    BY <1>11, MaxOfTwo DEF TearDownMap, Record, Finish, TrapsCode, bench
<1>12. ASSUME NEW runs \in BOOLEAN, SetUpPage(runs) PROVE ResultsInv'
    BY <1>12 DEF SetUpPage, Abandon, bench
<1>13. ASSUME NEW runs \in BOOLEAN, TearDownList(runs) PROVE ResultsInv'
    BY <1>13, MaxOfTwo DEF TearDownList, Record, Finish, TrapsCode, bench
<1>14. ASSUME NEW runs \in BOOLEAN, CheckSimulate(runs) PROVE ResultsInv'
    BY <1>14, MaxOfTwo DEF CheckSimulate, Finish, Throw, bench
<1>15. ASSUME NEW runs \in BOOLEAN, Sync(runs) PROVE ResultsInv'
    BY <1>15 DEF Sync, Throw, bench
<1>16. ASSUME NEW found \in {"pass", "fail", "unchecked"}, OpenEditor(found) PROVE ResultsInv'
    BY <1>16 DEF OpenEditor, bench
<1>17. ASSUME NEW runs \in BOOLEAN, NEW other \in BOOLEAN, SetUpDoctype(runs,
   other) PROVE ResultsInv'
    BY <1>17 DEF SetUpDoctype, Tabled, Abandon, bench
<1>18. ASSUME NEW runs \in BOOLEAN, NEW other \in BOOLEAN, CleanSlate(runs,
   other) PROVE ResultsInv'
    BY <1>18 DEF CleanSlate, Throw, bench
<1>19. ASSUME NEW ok \in BOOLEAN, ClearCaches(ok) PROVE ResultsInv'
    BY <1>19 DEF ClearCaches, Abandon, bench
<1>20. ASSUME NEW ok \in BOOLEAN, FetchFixed(ok) PROVE ResultsInv'
    BY <1>20 DEF FetchFixed, Fetch, Answers, bench
<1>21. ASSUME NEW ok \in BOOLEAN, FetchBroken(ok) PROVE ResultsInv'
    BY <1>21 DEF FetchBroken, Fetch, Answers, bench
<1>22. ASSUME NEW name \in PageNames, Author(name) PROVE ResultsInv'
    BY <1>22 DEF Author, bench
<1> QED BY <1>1, <1>2, <1>3, <1>4, <1>5, <1>6, <1>7, <1>8, <1>9, <1>10, <1>11, <1>12, <1>13,
   <1>14, <1>15, <1>16, <1>17, <1>18, <1>19, <1>20, <1>21, <1>22 DEF TrapsNext

LEMMA RoundInvStep ==
    ASSUME TrapsTypeOK, RoundInv, TrapsNext
    PROVE  RoundInv'
<1> USE TrapsAssumption DEF TrapsTypeOK, RoundInv, Routes, run, Checks, Runners
<1>1. ASSUME Repin PROVE RoundInv'
    BY <1>1 DEF Repin, bench
<1>2. ASSUME Kill PROVE RoundInv'
    BY <1>2 DEF Kill, Scripted, Tabled, bench
<1>3. ASSUME Refuse PROVE RoundInv'
    BY <1>3 DEF Refuse, Throw, bench
<1>4. ASSUME RefuseMap PROVE RoundInv'
    BY <1>4, MaxOfTwo DEF RefuseMap, Record, Finish, TrapsCode, bench
<1>5. ASSUME RefuseList PROVE RoundInv'
    BY <1>5, MaxOfTwo DEF RefuseList, Record, Finish, TrapsCode, bench
<1>6. ASSUME FetchFails PROVE RoundInv'
    BY <1>6 DEF FetchFails, Abandon, bench
<1>7. ASSUME VerifyImport PROVE RoundInv'
    BY <1>7, MaxOfTwo DEF VerifyImport, Finish, Throw, bench
<1>8. ASSUME NEW arg \in Runners \cup {"all"}, Start(arg) PROVE RoundInv'
    BY <1>8 DEF Start, FirstStep, bench
<1>9. ASSUME NEW runs \in BOOLEAN, BenchTraps(runs) PROVE RoundInv'
    BY <1>9, MaxOfTwo DEF BenchTraps, Finish, bench
<1>10. ASSUME NEW runs \in BOOLEAN, SetUpMap(runs) PROVE RoundInv'
    BY <1>10 DEF SetUpMap, bench
<1>11. ASSUME NEW runs \in BOOLEAN, TearDownMap(runs) PROVE RoundInv'
    BY <1>11, MaxOfTwo DEF TearDownMap, Record, Finish, TrapsCode, bench
<1>12. ASSUME NEW runs \in BOOLEAN, SetUpPage(runs) PROVE RoundInv'
    BY <1>12 DEF SetUpPage, Abandon, bench
<1>13. ASSUME NEW runs \in BOOLEAN, TearDownList(runs) PROVE RoundInv'
    BY <1>13, MaxOfTwo DEF TearDownList, Record, Finish, TrapsCode, bench
<1>14. ASSUME NEW runs \in BOOLEAN, CheckSimulate(runs) PROVE RoundInv'
    BY <1>14, MaxOfTwo DEF CheckSimulate, Finish, Throw, bench
<1>15. ASSUME NEW runs \in BOOLEAN, Sync(runs) PROVE RoundInv'
    BY <1>15 DEF Sync, Throw, bench
<1>16. ASSUME NEW found \in {"pass", "fail", "unchecked"}, OpenEditor(found) PROVE RoundInv'
    BY <1>16 DEF OpenEditor, bench
<1>17. ASSUME NEW runs \in BOOLEAN, NEW other \in BOOLEAN, SetUpDoctype(runs,
   other) PROVE RoundInv'
    BY <1>17 DEF SetUpDoctype, Tabled, Abandon, bench
<1>18. ASSUME NEW runs \in BOOLEAN, NEW other \in BOOLEAN, CleanSlate(runs, other) PROVE RoundInv'
    BY <1>18 DEF CleanSlate, Throw, bench
<1>19. ASSUME NEW ok \in BOOLEAN, ClearCaches(ok) PROVE RoundInv'
    BY <1>19 DEF ClearCaches, Abandon, bench
<1>20. ASSUME NEW ok \in BOOLEAN, FetchFixed(ok) PROVE RoundInv'
    BY <1>20 DEF FetchFixed, Fetch, Answers, bench
<1>21. ASSUME NEW ok \in BOOLEAN, FetchBroken(ok) PROVE RoundInv'
    BY <1>21 DEF FetchBroken, Fetch, Answers, bench
<1>22. ASSUME NEW name \in PageNames, Author(name) PROVE RoundInv'
    BY <1>22 DEF Author, bench
<1> QED BY <1>1, <1>2, <1>3, <1>4, <1>5, <1>6, <1>7, <1>8, <1>9, <1>10, <1>11, <1>12, <1>13,
   <1>14, <1>15, <1>16, <1>17, <1>18, <1>19, <1>20, <1>21, <1>22 DEF TrapsNext

LEMMA VerdictInvStep ==
    ASSUME TrapsTypeOK, StageInv, PassedInv, ResultsInv, RoundInv, VerdictInv, TrapsNext
    PROVE  VerdictInv'
<1> USE TrapsAssumption DEF TrapsTypeOK, StageInv, PassedInv, ResultsInv, RoundInv, VerdictInv,
   Live, ListSteps, TrapSteps, RoundSteps, MapSteps, Routes, run, Checks, Runners, ClaimsOf,
   Claims, Told
<1>1. ASSUME Repin PROVE VerdictInv'
    BY <1>1 DEF Repin, bench
<1>2. ASSUME Kill PROVE VerdictInv'
    BY <1>2 DEF Kill, Scripted, Tabled, bench
<1>3. ASSUME Refuse PROVE VerdictInv'
    BY <1>3 DEF Refuse, Throw, bench
<1>4. ASSUME RefuseMap PROVE VerdictInv'
    BY <1>4, MaxOfTwo DEF RefuseMap, Record, Finish, TrapsCode, bench
<1>5. ASSUME RefuseList PROVE VerdictInv'
    <2>1. /\ at = "list" \/ at = "listDown"
          /\ worst = 0 /\ what \in {"traps", "all"} /\ exit = None
        BY <1>5 DEF RefuseList
    <2>2. /\ TrapsCode(results') \in 0 .. 2 /\ worst' = TrapsCode(results')
          /\ what = "traps" => at' = "idle" /\ exit' = worst'
          /\ what = "all" => at' = "simulate" /\ exit' = None
        BY <1>5, <2>1, MaxOfTwo DEF Record, Finish, TrapsCode, RefuseList
    <2>3. results' \in [Checks -> {"pass", "fail", "unchecked"}]
        BY <1>5, <2>1 DEF Record, RefuseList
    <2>4. strays' = strays
        BY <1>5 DEF RefuseList
    <2>5. TrapsCode(results') = 0 => \A check \in Checks : results'[check] = "pass"
        BY <2>3 DEF TrapsCode
    <2>6. TrapsCode(results') = 0 => Told(ClaimsOf["traps"])' \subseteq builder'
        <3>1. TrapsNext
            BY <1>5 DEF TrapsNext
        <3>2. ResultsInv'
            BY <3>1, ResultsInvStep
        <3>3. Live'
            BY <2>1, <2>2
        <3>4. builder' = builder
            BY <1>5 DEF RefuseList, bench
        <3>5. TrapsCode(results') = 0 => Told(ClaimsOf["traps"])' \subseteq builder'
            BY <2>5, <3>2, <3>3
        <3> QED BY <3>5
    <2>7. TrapsCode(results') = 2 => \A check \in Checks : results'[check] \in {"pass",
       "unchecked"}
        <3>1. TrapsCode(results') = 2 => \A check \in Checks : results'[check] # "fail"
            BY DEF TrapsCode
        <3> QED BY <2>3, <3>1
    <2> QED BY <1>5, <2>1, <2>2, <2>4, <2>6, <2>7 DEF RefuseList
<1>6. ASSUME FetchFails PROVE VerdictInv'
    BY <1>6 DEF FetchFails, Abandon, bench
<1>7. ASSUME VerifyImport PROVE VerdictInv'
    BY <1>7, MaxOfTwo DEF VerifyImport, Finish, Throw, bench
<1>8. ASSUME NEW arg \in Runners \cup {"all"}, Start(arg) PROVE VerdictInv'
    BY <1>8 DEF Start, FirstStep, bench
<1>9. ASSUME NEW runs \in BOOLEAN, BenchTraps(runs) PROVE VerdictInv'
    BY <1>9, MaxOfTwo DEF BenchTraps, Finish, bench
<1>10. ASSUME NEW runs \in BOOLEAN, SetUpMap(runs) PROVE VerdictInv'
    BY <1>10 DEF SetUpMap, bench
<1>11. ASSUME NEW runs \in BOOLEAN, TearDownMap(runs) PROVE VerdictInv'
    BY <1>11, MaxOfTwo DEF TearDownMap, Record, Finish, TrapsCode, bench
<1>12. ASSUME NEW runs \in BOOLEAN, SetUpPage(runs) PROVE VerdictInv'
    BY <1>12 DEF SetUpPage, Abandon, bench
<1>13. ASSUME NEW runs \in BOOLEAN, TearDownList(runs) PROVE VerdictInv'
    <2>1. /\ at = "list" \/ at = "listDown"
          /\ worst = 0 /\ what \in {"traps", "all"} /\ exit = None
        BY <1>13 DEF TearDownList
    <2>2. /\ TrapsCode(results') \in 0 .. 2 /\ worst' = TrapsCode(results')
          /\ what = "traps" => at' = "idle" /\ exit' = worst'
          /\ what = "all" => at' = "simulate" /\ exit' = None
        BY <1>13, <2>1, MaxOfTwo DEF Record, Finish, TrapsCode, TearDownList
    <2>3. results' \in [Checks -> {"pass", "fail", "unchecked"}]
        BY <1>13, <2>1 DEF Record, TearDownList
    <2>4. strays' = strays
        BY <1>13 DEF TearDownList
    <2>5. TrapsCode(results') = 0 => \A check \in Checks : results'[check] = "pass"
        BY <2>3 DEF TrapsCode
    <2>6. TrapsCode(results') = 0 => Told(ClaimsOf["traps"])' \subseteq builder'
        <3>1. TrapsNext
            BY <1>13 DEF TrapsNext
        <3>2. ResultsInv'
            BY <3>1, ResultsInvStep
        <3>3. Live'
            BY <2>1, <2>2
        <3>4. builder' = builder
            BY <1>13 DEF TearDownList, bench
        <3>5. TrapsCode(results') = 0 => Told(ClaimsOf["traps"])' \subseteq builder'
            BY <2>5, <3>2, <3>3
        <3> QED BY <3>5
    <2>7. TrapsCode(results') = 2 => \A check \in Checks : results'[check] \in {"pass",
       "unchecked"}
        <3>1. TrapsCode(results') = 2 => \A check \in Checks : results'[check] # "fail"
            BY DEF TrapsCode
        <3> QED BY <2>3, <3>1
    <2> QED BY <1>13, <2>1, <2>2, <2>4, <2>6, <2>7 DEF TearDownList
<1>14. ASSUME NEW runs \in BOOLEAN, CheckSimulate(runs) PROVE VerdictInv'
    BY <1>14, MaxOfTwo DEF CheckSimulate, Finish, Throw, bench
<1>15. ASSUME NEW runs \in BOOLEAN, Sync(runs) PROVE VerdictInv'
    BY <1>15 DEF Sync, Throw, bench
<1>16. ASSUME NEW found \in {"pass", "fail", "unchecked"}, OpenEditor(found) PROVE VerdictInv'
    BY <1>16 DEF OpenEditor, bench
<1>17. ASSUME NEW runs \in BOOLEAN, NEW other \in BOOLEAN, SetUpDoctype(runs,
   other) PROVE VerdictInv'
    BY <1>17 DEF SetUpDoctype, Tabled, Abandon, bench
<1>18. ASSUME NEW runs \in BOOLEAN, NEW other \in BOOLEAN, CleanSlate(runs,
   other) PROVE VerdictInv'
    BY <1>18 DEF CleanSlate, Throw, bench
<1>19. ASSUME NEW ok \in BOOLEAN, ClearCaches(ok) PROVE VerdictInv'
    BY <1>19 DEF ClearCaches, Abandon, bench
<1>20. ASSUME NEW ok \in BOOLEAN, FetchFixed(ok) PROVE VerdictInv'
    BY <1>20 DEF FetchFixed, Fetch, Answers, bench
<1>21. ASSUME NEW ok \in BOOLEAN, FetchBroken(ok) PROVE VerdictInv'
    BY <1>21 DEF FetchBroken, Fetch, Answers, bench
<1>22. ASSUME NEW name \in PageNames, Author(name) PROVE VerdictInv'
    BY <1>22 DEF Author, bench
<1> QED BY <1>1, <1>2, <1>3, <1>4, <1>5, <1>6, <1>7, <1>8, <1>9, <1>10, <1>11, <1>12, <1>13,
   <1>14, <1>15, <1>16, <1>17, <1>18, <1>19, <1>20, <1>21, <1>22 DEF TrapsNext

LEMMA TrapsTypeOKStep ==
    ASSUME TrapsTypeOK, StageInv, RoundInv, TrapsNext
    PROVE  TrapsTypeOK'
<1> USE TrapsAssumption DEF TrapsTypeOK, StageInv, RoundInv, Routes, run, Checks, Runners
<1>1. ASSUME Repin PROVE TrapsTypeOK'
    BY <1>1 DEF Repin, bench
<1>2. ASSUME Kill PROVE TrapsTypeOK'
    BY <1>2 DEF Kill, Scripted, Tabled, bench
<1>3. ASSUME Refuse PROVE TrapsTypeOK'
    BY <1>3 DEF Refuse, Throw, bench
<1>4. ASSUME RefuseMap PROVE TrapsTypeOK'
    BY <1>4, MaxOfTwo DEF RefuseMap, Record, Finish, TrapsCode, bench
<1>5. ASSUME RefuseList PROVE TrapsTypeOK'
    <2>1. results' \in [Checks -> {None, "pass", "fail", "unchecked"}]
        BY <1>5 DEF RefuseList, Record, Finish, TrapsCode, bench
    <2>2. exit' \in {None} \cup 0 .. 2 /\ (exit' # None => at' = "idle")
        BY <1>5, MaxOfTwo DEF RefuseList, Record, Finish, TrapsCode, bench
    <2> QED BY <1>5, <2>1, <2>2 DEF RefuseList, bench
<1>6. ASSUME FetchFails PROVE TrapsTypeOK'
    BY <1>6 DEF FetchFails, Abandon, bench
<1>7. ASSUME VerifyImport PROVE TrapsTypeOK'
    BY <1>7, MaxOfTwo DEF VerifyImport, Finish, Throw, bench
<1>8. ASSUME NEW arg \in Runners \cup {"all"}, Start(arg) PROVE TrapsTypeOK'
    BY <1>8 DEF Start, FirstStep, bench
<1>9. ASSUME NEW runs \in BOOLEAN, BenchTraps(runs) PROVE TrapsTypeOK'
    <2>1. results' \in [Checks -> {None, "pass", "fail", "unchecked"}]
        BY <1>9 DEF ListSteps, BenchTraps, Finish, bench
    <2>2. exit' \in {None} \cup 0 .. 2 /\ (exit' # None => at' = "idle")
        BY <1>9, MaxOfTwo DEF BenchTraps, Finish, bench
    <2>3. fixtures' \subseteq {"map"} \cup Tabled \cup Routes
        BY <1>9 DEF BenchTraps, bench
    <2> QED BY <1>9, <2>1, <2>2, <2>3 DEF BenchTraps, bench
<1>10. ASSUME NEW runs \in BOOLEAN, SetUpMap(runs) PROVE TrapsTypeOK'
    BY <1>10 DEF SetUpMap, bench
<1>11. ASSUME NEW runs \in BOOLEAN, TearDownMap(runs) PROVE TrapsTypeOK'
    BY <1>11, MaxOfTwo DEF TearDownMap, Record, Finish, TrapsCode, bench
<1>12. ASSUME NEW runs \in BOOLEAN, SetUpPage(runs) PROVE TrapsTypeOK'
    BY <1>12 DEF SetUpPage, Abandon, bench
<1>13. ASSUME NEW runs \in BOOLEAN, TearDownList(runs) PROVE TrapsTypeOK'
    <2>1. results' \in [Checks -> {None, "pass", "fail", "unchecked"}]
        BY <1>13 DEF ListSteps, TearDownList, Record, Finish, TrapsCode, bench
    <2>2. exit' \in {None} \cup 0 .. 2 /\ (exit' # None => at' = "idle")
        BY <1>13, MaxOfTwo DEF TearDownList, Record, Finish, TrapsCode, bench
    <2>3. fixtures' \subseteq {"map"} \cup Tabled \cup Routes
        BY <1>13 DEF TearDownList, bench
    <2> QED BY <1>13, <2>1, <2>2, <2>3 DEF TearDownList, bench
<1>14. ASSUME NEW runs \in BOOLEAN, CheckSimulate(runs) PROVE TrapsTypeOK'
    BY <1>14, MaxOfTwo DEF CheckSimulate, Finish, Throw, bench
<1>15. ASSUME NEW runs \in BOOLEAN, Sync(runs) PROVE TrapsTypeOK'
    BY <1>15 DEF Sync, Throw, bench
<1>16. ASSUME NEW found \in {"pass", "fail", "unchecked"}, OpenEditor(found) PROVE TrapsTypeOK'
    BY <1>16 DEF OpenEditor, bench
<1>17. ASSUME NEW runs \in BOOLEAN, NEW other \in BOOLEAN, SetUpDoctype(runs,
   other) PROVE TrapsTypeOK'
    BY <1>17 DEF SetUpDoctype, Tabled, Abandon, bench
<1>18. ASSUME NEW runs \in BOOLEAN, NEW other \in BOOLEAN, CleanSlate(runs,
   other) PROVE TrapsTypeOK'
    <2>1. Cardinality({}) = 0
        BY FS_EmptySet
    <2>2. exported' \subseteq PageNames /\ Cardinality(exported') <= 1
        BY <1>18, <2>1 DEF CleanSlate, Throw, bench
    <2>3. /\ second'.pages \subseteq PageNames /\ (second'.pages # {} => second'.works)
          /\ second'.works => second'.there
        BY <1>18 DEF CleanSlate, Throw, bench
    <2>4. exit' \in {None} \cup 0 .. 2 /\ (exit' # None => at' = "idle")
        BY <1>18 DEF CleanSlate, Throw, bench
    <2> QED BY <1>18, <2>2, <2>3, <2>4 DEF CleanSlate
<1>19. ASSUME NEW ok \in BOOLEAN, ClearCaches(ok) PROVE TrapsTypeOK'
    BY <1>19 DEF ClearCaches, Abandon, bench
<1>20. ASSUME NEW ok \in BOOLEAN, FetchFixed(ok) PROVE TrapsTypeOK'
    BY <1>20 DEF FetchFixed, Fetch, Answers, bench
<1>21. ASSUME NEW ok \in BOOLEAN, FetchBroken(ok) PROVE TrapsTypeOK'
    BY <1>21 DEF FetchBroken, Fetch, Answers, bench
<1>22. ASSUME NEW name \in PageNames, Author(name) PROVE TrapsTypeOK'
    <2>1. at = "author" /\ exported = {} /\ exported' = {name} /\ Cardinality({name}) = 1
        BY <1>22, FS_Singleton DEF Author, bench
    <2> QED BY <1>22, <2>1 DEF Author, bench
<1> QED BY <1>1, <1>2, <1>3, <1>4, <1>5, <1>6, <1>7, <1>8, <1>9, <1>10, <1>11, <1>12, <1>13,
   <1>14, <1>15, <1>16, <1>17, <1>18, <1>19, <1>20, <1>21, <1>22 DEF TrapsNext

LEMMA TrapsInitLemma == TrapsInit => TrapsIInv
<1> SUFFICES ASSUME TrapsInit PROVE TrapsIInv
    OBVIOUS
<1> USE TrapsAssumption DEF TrapsInit, Checks, Routes, Runners
<1>1. TrapsTypeOK
    BY FS_EmptySet DEF TrapsTypeOK, Tabled
<1>2. StageInv
    BY DEF StageInv, TrapSteps, MapSteps, ListSteps, RoundSteps
<1>3. FixturesInv /\ ResultsInv
    BY DEF FixturesInv, ResultsInv, Live
<1>4. PassedInv
    BY DEF PassedInv, TrapSteps, MapSteps, ListSteps
<1>5. RoundInv /\ VerdictInv
    BY DEF RoundInv, VerdictInv, RoundSteps, Live
<1> QED BY <1>1, <1>2, <1>3, <1>4, <1>5 DEF TrapsIInv

LEMMA TrapsStep ==
    ASSUME TrapsIInv, [TrapsNext]_trapsVars
    PROVE  TrapsIInv'
<1>1. CASE TrapsNext
    BY <1>1, StageInvStep, FixturesInvStep, PassedInvStep, ResultsInvStep, RoundInvStep,
       VerdictInvStep, TrapsTypeOKStep DEF TrapsIInv
<1>2. CASE UNCHANGED trapsVars
    <2>1. TrapsTypeOK' /\ StageInv'
        BY <1>2 DEF TrapsIInv, TrapsTypeOK, StageInv, trapsVars, bench, run
    <2>2. FixturesInv' /\ PassedInv' /\ RoundInv'
        BY <1>2 DEF TrapsIInv, FixturesInv, PassedInv, RoundInv, Live, trapsVars, bench, run
    <2>3. ResultsInv' /\ VerdictInv'
        BY <1>2 DEF TrapsIInv, ResultsInv, VerdictInv, Live, Told, trapsVars, bench, run
    <2> QED BY <2>1, <2>2, <2>3 DEF TrapsIInv
<1> QED BY <1>1, <1>2

LEMMA TrapsVerdict == TrapsIInv => TrapsVerdictIsTrue
<1> SUFFICES ASSUME TrapsIInv
             PROVE  /\ exit = 0 => Told(ClaimsOf[what]) \subseteq builder
                    /\ (exit = 2 /\ what = "traps") =>
                          \A check \in Checks :
                              results[check] # "unchecked" => Told(ClaimsOf[check]) \subseteq builder
    BY DEF TrapsVerdictIsTrue
<1>1. exit = 0 \/ exit = 2 => Live
    BY TrapsAssumption DEF Live
<1> QED BY <1>1 DEF TrapsIInv, VerdictInv, ResultsInv

LEMMA TrapsFixtures == TrapsIInv => FixturesRemoved
<1> SUFFICES ASSUME TrapsIInv, at = "idle", NEW check \in {"map", "list"} \ owed
             PROVE  fixtures \cap FixturesOf[check] = {}
    BY DEF FixturesRemoved
<1>1. FixturesOf["map"] = {"map"} /\ FixturesOf["list"] = {"doctype"} \cup Routes
    BY DEF FixturesOf
<1>2. at \notin MapSteps /\ at \notin ListSteps
    BY DEF MapSteps, ListSteps, Routes
<1> QED BY <1>1, <1>2 DEF TrapsIInv, FixturesInv

-----------------------------------------------------------------------------
(* The hooks of the repository: what a verdict says.                         *)

\* What a push passes without an override: the suite, the secret scan of all
\* of history, and the audit.
LEMMA PushPasses ==
    ASSUME PrePush(Usual) = 0
    PROVE  /\ worktree.src # "red"
           /\ "secret" \notin history
           /\ "token" \notin blobs \cup messages \cup refs
           /\ index.site = "absent"
<1>1. /\ Usual.override = "none" /\ Usual.git /\ Usual.gitleaks
      /\ TokensKnown(Usual)
  BY DEF Usual, TokensKnown
<1>2. Suite = 0 /\ SecretScan(history, Usual) = 0 /\ Audit(Usual) = 0
  BY <1>1 DEF PrePush, Suite, SecretScan, Audit
<1>3. worktree.src # "red"
  BY <1>2 DEF Suite
<1>4. "secret" \notin history
  BY <1>1, <1>2 DEF SecretScan
<1>5. "token" \notin blobs \cup messages \cup refs /\ index.site = "absent"
  BY <1>1, <1>2 DEF Audit
<1> QED
  BY <1>3, <1>4, <1>5

\* What a commit passes without an override: the guard and the secret scan of
\* what is staged, the guard of the message and of the branch, and the linter
\* and the catalogue check when a source is staged.
LEMMA CommitPasses ==
    ASSUME NEW staged, NEW message, PreCommit(staged, Usual) = 0,
           GuardMessage(message, Usual) = 0
    PROVE  /\ \A f \in Changed(staged) : staged[f] \notin Leaks
           /\ "site" \notin Changed(staged)
           /\ branch # "token" /\ message # "token"
           /\ "src" \in Changed(staged) =>
                 worktree.catalog = worktree.src /\ worktree.src # "red"
<1> DEFINE texts == {staged[f] : f \in Changed(staged)}
<1>1. /\ Usual.override = "none" /\ Usual.git /\ Usual.gitleaks /\ Usual.ruff
      /\ Usual.opskit = "complete" /\ Usual.schema /\ TokensKnown(Usual)
  BY DEF Usual, TokensKnown
<1>2. /\ OpskitGuard(texts, Usual) \in {0, 1} /\ SiteIsolation(staged, Usual) \in {0, 1}
      /\ BranchName(Usual) \in {0, 1}
      /\ Docs(staged, Usual) \in {0, 1} /\ Schema(Usual) \in {0, 1}
      /\ Ruff(staged, Usual) \in {0, 1}
  <2> HIDE DEF texts
  <2> QED
    BY <1>1 DEF OpskitGuard, SiteIsolation, BranchName, Docs, Schema, Ruff
<1>3. /\ Guard(staged, Usual) = 0 /\ SecretScan(texts, Usual) = 0
      /\ Max({Docs(staged, Usual), Schema(Usual), Ruff(staged, Usual)}) = 0
  <2>1. Guard(staged, Usual) = 0
    BY DEF PreCommit
  <2>2. SecretScan(texts, Usual) = 0
    BY <2>1 DEF PreCommit
  <2> QED
    BY <1>1, <2>1, <2>2 DEF PreCommit
<1>4. /\ OpskitGuard(texts, Usual) = 0 /\ SiteIsolation(staged, Usual) = 0
      /\ BranchName(Usual) = 0
  BY <1>2, <1>3, MaxOfThree DEF Guard
<1>5. Docs(staged, Usual) = 0 /\ Ruff(staged, Usual) = 0
  BY <1>2, <1>3, MaxOfThree
<1>6. "token" \notin texts /\ "token" \notin {message}
  <2> HIDE DEF texts
  <2>1. "token" \notin texts
    BY <1>1, <1>4 DEF OpskitGuard
  <2>2. "token" \notin {message}
    BY <1>1 DEF GuardMessage, OpskitGuard
  <2> QED
    BY <2>1, <2>2
<1>7. "secret" \notin texts
  <2> HIDE DEF texts
  <2> QED
    BY <1>1, <1>3 DEF SecretScan
<1>8. branch # "token" /\ "site" \notin Changed(staged)
  BY <1>1, <1>4 DEF BranchName, SiteIsolation
<1>9. "src" \in Changed(staged) => worktree.catalog = worktree.src /\ worktree.src # "red"
  BY <1>1, <1>5 DEF Docs, Ruff, StagedSource
<1> QED
  BY <1>6, <1>7, <1>8, <1>9 DEF Leaks

-----------------------------------------------------------------------------
(* What is committed is reachable, and what is reachable is stored.        *)

LEMMA ContentsLemma ==
    ASSUME NEW tree, NEW f \in Files, tree[f] # "absent"
    PROVE  tree[f] \in ContentsOf(tree)
BY DEF ContentsOf

LEMMA CommitTypeInit == CommitInit => CommitTypeOK
<1> SUFFICES ASSUME CommitInit PROVE CommitTypeOK
  OBVIOUS
<1>1. IsTree(worktree) /\ ContentsOf(worktree) = {"clean"}
  BY DEF CommitInit, IsTree, ContentsOf, Files, Contents
<1>2. hooks \in [path : BOOLEAN, executable : BOOLEAN]
  BY DEF CommitInit
<1>3. edits \in 0 .. MaxEdits
  BY EditsAssumption DEF CommitInit
<1> QED
  BY <1>1, <1>2, <1>3 DEF CommitInit, CommitTypeOK, Names

\* Staging and committing move contents between the trees and the store.
LEMMA CommitTypeStep ==
    ASSUME CommitTypeOK, [CommitNext]_commitVars
    PROVE  CommitTypeOK'
<1> USE DEF CommitTypeOK
<1>e. ASSUME edits < MaxEdits, edits' = edits + 1 PROVE edits' \in 0 .. MaxEdits
  BY <1>e, EditsAssumption
<1>1. ASSUME NEW f \in Files, NEW content \in Contents \cup {"absent"}, Write(f, content)
      PROVE  CommitTypeOK'
  <2>1. IsTree(worktree')
    BY <1>1 DEF Write, IsTree
  <2> QED
    BY <1>1, <1>e, <2>1 DEF Write, Edit, IsTree, ContentsOf
<1>2. ASSUME Generate PROVE CommitTypeOK'
  <2>1. IsTree(worktree')
    BY <1>2 DEF Generate, IsTree, Files
  <2> QED
    BY <1>2, <2>1 DEF Generate, Free, IsTree, ContentsOf
<1>3. ASSUME NEW f \in Files, Stage(f) PROVE CommitTypeOK'
  <2>1. IsTree(index') /\ ContentsOf(index') \subseteq ContentsOf(index) \cup ({worktree[f]} \ {"absent"})
    BY <1>3 DEF Stage, IsTree, ContentsOf
  <2> QED
    BY <1>3, <2>1 DEF Stage, Free, IsTree, ContentsOf
<1>4. ASSUME NEW f \in Files, Unstage(f) PROVE CommitTypeOK'
  <2>1. IsTree(index') /\ ContentsOf(index') \subseteq ContentsOf(index) \cup ContentsOf(head)
    BY <1>4 DEF Unstage, IsTree, ContentsOf
  <2> QED
    BY <1>4, <2>1 DEF Unstage, Free, IsTree, ContentsOf
<1>5. ASSUME NEW name \in Names, NewBranch(name) PROVE CommitTypeOK'
  BY <1>5, <1>e DEF NewBranch, Edit, IsTree, ContentsOf
<1>6. ASSUME Squash PROVE CommitTypeOK'
  BY <1>6 DEF Squash, Free, IsTree, ContentsOf, Names
<1>7. ASSUME CollectGarbage PROVE CommitTypeOK'
  BY <1>7 DEF CollectGarbage, Free, IsTree, ContentsOf
<1>8. ASSUME InstallHooks PROVE CommitTypeOK'
  BY <1>8 DEF InstallHooks, Free, IsTree, ContentsOf
<1>9. ASSUME NEW to \in [path : BOOLEAN, executable : BOOLEAN], DisableHooks(to)
      PROVE  CommitTypeOK'
  BY <1>9, <1>e DEF DisableHooks, Edit, IsTree, ContentsOf
<1>10. ASSUME NEW staged, IsTree(staged), ContentsOf(staged) \subseteq
                 ContentsOf(head) \cup ContentsOf(index) \cup ContentsOf(worktree),
              NEW message \in Names, NEW env, Commit(staged, message, env)
       PROVE  CommitTypeOK'
  <2>1. IsTree(index') /\ ContentsOf(index') \subseteq ContentsOf(index) \cup ContentsOf(staged)
    BY <1>10 DEF Commit, IsTree, ContentsOf
  <2>2. gated' \in {"none", "commit", "push"}
    BY <1>10 DEF Commit
  <2> QED
    BY <1>10, <2>1, <2>2 DEF Commit, IsTree, ContentsOf
<1>11. ASSUME NEW env, Push(env) PROVE CommitTypeOK'
  BY <1>11 DEF Push, repo, IsTree, ContentsOf
<1>12. ASSUME NEW f \in Files
       PROVE  /\ IsTree(OneFile(f))
              /\ ContentsOf(OneFile(f)) \subseteq ContentsOf(head) \cup ContentsOf(worktree)
  BY <1>12 DEF OneFile, IsTree, ContentsOf
<1>13. CASE UNCHANGED commitVars
  BY <1>13 DEF commitVars, repo, IsTree, ContentsOf
<1>14. ASSUME NEW message \in Names, NEW env \in Environments,
              \/ Commit(index, message, env)
              \/ \E f \in Files : Commit(OneFile(f), message, env)
       PROVE  CommitTypeOK'
  BY <1>10, <1>12, <1>14
<1>15. "src" \in Files /\ "site" \in Files
  BY DEF Files
<1> QED
  BY <1>1, <1>2, <1>3, <1>4, <1>5, <1>6, <1>7, <1>8, <1>9, <1>11, <1>13, <1>14, <1>15
     DEF CommitNext

\* The source is never deleted.
SourceThere ==
    worktree.src # "absent" /\ index.src # "absent" /\ head.src # "absent"

LEMMA SourceStays ==
    ASSUME CommitTypeOK, SourceThere, [CommitNext]_commitVars
    PROVE  SourceThere'
<1> USE DEF CommitTypeOK, IsTree, SourceThere, Files
<1>1. CASE \/ \E content \in Contents : Write("src", content) \/ Write("site", content)
           \/ Write("site", "absent")
  BY <1>1 DEF Write, Contents
<1>2. CASE Generate
  BY <1>2 DEF Generate
<1>3. CASE \E f \in Files : Stage(f) \/ Unstage(f)
  BY <1>3 DEF Stage, Unstage
<1>4. CASE \E message \in Names, env \in Environments :
              \/ Commit(index, message, env)
              \/ \E f \in {g \in Files : index[g] # "absent"} : Commit(OneFile(f), message, env)
  <2>1. \A f \in Files : OneFile(f).src # "absent"
    BY DEF OneFile
  <2>2. PICK message, env, staged : staged.src # "absent" /\ Commit(staged, message, env)
    BY <1>4, <2>1
  <2>3. head' = staged /\ worktree' = worktree
    BY <2>2 DEF Commit
  <2>4. index'["src"] \in {index["src"], staged["src"]}
    BY <2>2 DEF Commit
  <2> QED
    BY <2>2, <2>3, <2>4
<1>5. CASE UNCHANGED <<worktree, index, head>>
  BY <1>5
<1> QED
  BY <1>1, <1>2, <1>3, <1>4, <1>5 DEF CommitNext, NewBranch, Squash, CollectGarbage,
     InstallHooks, DisableHooks, Push, repo, commitVars

LEMMA PushGate ==
    ASSUME CommitTypeOK, [CommitNext]_commitVars, gated' = "push", commitVars' # commitVars
    PROVE  PushHolds
<1>1. PICK env \in Environments : Push(env)
  BY DEF CommitNext, Write, Generate, Stage, Unstage, NewBranch, Squash,
     CollectGarbage, InstallHooks, DisableHooks, Commit, Edit, Free, commitVars
<1>2. PrePush(Usual) = 0
  BY <1>1 DEF Push
<1>3. history \subseteq blobs /\ messages \subseteq Names /\ refs \subseteq Names
  BY DEF CommitTypeOK
<1> QED
  BY <1>2, <1>3, PushPasses DEF PushHolds, Leaks, Names

LEMMA CommitGateHolds ==
    ASSUME CommitTypeOK, SourceThere', [CommitNext]_commitVars, gated' = "commit", commitVars' # commitVars
    PROVE  CommitHolds
<1>1. PICK message \in Names, env \in Environments, staged \in {index} \cup {OneFile(f) : f \in Files} :
         Commit(staged, message, env)
  BY DEF CommitNext, Write, Generate, Stage, Unstage, NewBranch, Squash,
     CollectGarbage, InstallHooks, DisableHooks, Push, Edit, Free, commitVars
<1>2. /\ PreCommit(staged, Usual) = 0 /\ GuardMessage(message, Usual) = 0
      /\ head' = staged /\ messages' = messages \cup {message}
  BY <1>1 DEF Commit
<1>3. /\ \A f \in Changed(staged) : staged[f] \notin Leaks
      /\ "site" \notin Changed(staged)
      /\ branch # "token" /\ message # "token"
      /\ "src" \in Changed(staged) =>
            worktree.catalog = worktree.src /\ worktree.src # "red"
  BY <1>2, CommitPasses
<1>4. \A f \in Files : head'[f] # head[f] /\ head'[f] # "absent" => f \in Changed(staged)
  BY <1>2 DEF Changed
<1>5. messages' \ messages \subseteq {"clean"}
  BY <1>2, <1>3 DEF Names
<1>6. ASSUME worktree = head', head'.src # head.src
      PROVE  head'.catalog = head'.src /\ head'.src # "red"
  <2>1. "src" \in Changed(staged)
    BY <1>4, <1>6 DEF SourceThere, Files
  <2> QED
    BY <1>3, <1>6, <2>1
<1>7. \A f \in Files :
         (head'[f] # head[f] /\ head'[f] # "absent") => head'[f] \notin Leaks /\ f # "site"
  BY <1>2, <1>3, <1>4
<1> QED
  BY <1>3, <1>5, <1>6, <1>7 DEF CommitHolds

-----------------------------------------------------------------------------
(* The three programs side by side: a step of one is a stutter of the others.*)

IInv ==
    /\ TrapsIInv
    /\ CommitTypeOK /\ SourceThere
    /\ VerifyTypeOK /\ VerifyVerdictIsTrue

LEMMA InitLemma == Init => IInv
<1> SUFFICES ASSUME Init PROVE IInv
    OBVIOUS
<1>1. TrapsInit /\ CommitInit
    BY DEF Init, NoTraps, NoCommit
<1>2. VerifyInit
    <2>1. AnyClone \in Clones
        BY ClonesAssumption DEF AnyClone
    <2> QED BY <2>1 DEF Init, NoVerify, VerifyInit
<1>3. VerifyTypeOK /\ VerifyVerdictIsTrue
    <2>1. VerifyVerdictIsTrue
        BY <1>2, UnsetAssumption DEF VerifyInit, VerifyVerdictIsTrue, Commands
    <2> QED BY <1>2, <2>1, VerifyTypeInit
<1>4. SourceThere
    BY <1>1 DEF CommitInit, SourceThere
<1> QED BY <1>1, <1>3, <1>4, TrapsInitLemma, CommitTypeInit DEF IInv

LEMMA Step ==
    ASSUME IInv, [Next]_checksVars
    PROVE  IInv'
<1>1. [TrapsNext]_trapsVars /\ [CommitNext]_commitVars
    BY DEF Next, checksVars
<1>2. VerifyNext \/ UNCHANGED verifyVars
    BY DEF Next, checksVars
<1>3. TrapsIInv'
    BY <1>1, TrapsStep DEF IInv
<1>4. CommitTypeOK' /\ SourceThere'
    BY <1>1, CommitTypeStep, SourceStays DEF IInv
<1>5. VerifyTypeOK' /\ VerifyVerdictIsTrue'
    <2>1. CASE VerifyNext
        BY <2>1, VerifyTypeStep, VerifyVerdictStep DEF IInv
    <2>2. CASE UNCHANGED verifyVars
        BY <2>2 DEF IInv, verifyVars, VerifyTypeOK, VerifyVerdictIsTrue
    <2> QED BY <1>2, <2>1, <2>2
<1> QED BY <1>3, <1>4, <1>5 DEF IInv

LEMMA Invariance == Spec => []IInv
BY InitLemma, Step, PTL DEF Spec

-----------------------------------------------------------------------------
(* The theorems.                                                             *)

(* The state of the three programs is what their steps take it for, whatever *)
(* earlier runs that were killed have left in the sandbox (check_traps.py,   *)
(* check_roundtrip.py), the hooks in the repository, and verify of a clone.  *)
THEOREM TypeCorrect == Spec => []TypeOK
<1>1. IInv => TypeOK
    BY DEF IInv, TrapsIInv, TypeOK
<1> QED BY <1>1, Invariance, PTL

(* The exit codes of buildsmith check and buildsmith verify, and of what     *)
(* they join, are true (errors.py): 0 is proved and 2 is could not check, but*)
(* for a broken page that fails for another reason than its permission.      *)
THEOREM VerdictsAreTrue == Spec => []VerdictIsTrue
<1>1. IInv => VerdictIsTrue
    BY TrapsVerdict DEF IInv, VerdictIsTrue
<1> QED BY <1>1, Invariance, PTL

(* Between two runs nothing that check_traps sets up is left but the table of*)
(* the DocType, and what a run left that was killed on the check or said it  *)
(* could not take it away; the next teardown of the check takes that away.   *)
THEOREM NothingIsLeft == Spec => []FixturesRemoved
<1>1. IInv => FixturesRemoved
    BY TrapsFixtures DEF IInv
<1> QED BY <1>1, Invariance, PTL

(* What the hooks let through without an override neither leaks nor is red,  *)
(* however the repository came to be as it is (precommit main, prepush main).*)
THEOREM HooksHold == Spec => GateHolds
<1>1. ASSUME CommitTypeOK, SourceThere', [CommitNext]_commitVars
      PROVE  [CommitHolds /\ PushHolds]_commitVars
    BY <1>1, PushGate, CommitGateHolds DEF CommitHolds, PushHolds
<1>2. IInv /\ IInv' /\ [Next]_checksVars => [CommitHolds /\ PushHolds]_commitVars
    <2>1. [Next]_checksVars => [CommitNext]_commitVars
        BY DEF Next, checksVars
    <2> QED BY <1>1, <2>1 DEF IInv
<1> QED BY <1>2, Invariance, PTL DEF Spec, GateHolds
=============================================================================
