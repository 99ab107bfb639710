------------------------ MODULE ComponentShellsProofs ------------------------
(*****************************************************************************)
(* What simulate calls clean takes nothing from any page, for every finite   *)
(* set of blockIds, every set of contents and every set of pages, however    *)
(* the component and its mirrors came to be as they are.                     *)
(*                                                                           *)
(* simulate walks a page's shells and the component side by side, as Builder *)
(* does when it renders.  That walk is a recursive function over forests; it *)
(* comes to the blocks that match the payload, all of them and no other      *)
(* (WalkReaches, WalkReports), by a minimal counterexample in the tree: a    *)
(* block is matched when it agrees and the one above it is matched.          *)
(*****************************************************************************)
EXTENDS ComponentShells, FiniteSetTheorems, WellFoundedInduction, TLAPS

-----------------------------------------------------------------------------
(* Recursive functions.                                                      *)

(* A function that gathers what there is here and at the places below.       *)
Gathers(g, V, here, below) ==
    g = [v \in V |-> here[v] \cup UNION {g[w] : w \in below[v]}]

(* There is one over any graph: it gathers from the places that are reached. *)
LEMMA Gathered ==
    ASSUME NEW V, NEW here, NEW below, \A v \in V : below[v] \subseteq V
    PROVE  \E g : Gathers(g, V, here, below)
<1> DEFINE Closed(D) == \A v \in D : below[v] \subseteq D
           Reach(v) == {w \in V : \A D \in SUBSET V : v \in D /\ Closed(D) => w \in D}
           g == [v \in V |-> UNION {here[w] : w \in Reach(v)}]
<1>1. \A v \in V : v \in Reach(v) /\ Reach(v) \subseteq V /\ Closed(Reach(v))
    OBVIOUS
<1>2. \A v \in V : \A w \in below[v] : Reach(w) \subseteq Reach(v)
    OBVIOUS
<1>3. ASSUME NEW v \in V
      PROVE  Reach(v) = {v} \cup UNION {Reach(w) : w \in below[v]}
    <2> DEFINE D == {v} \cup UNION {Reach(w) : w \in below[v]}
    <2>1. D \in SUBSET V /\ v \in D
        BY <1>1
    <2>2. Closed(D)
        <3>1. below[v] \subseteq D
            BY <1>1
        <3>2. ASSUME NEW w \in below[v], NEW u \in Reach(w) PROVE below[u] \subseteq D
            <4>1. below[u] \subseteq Reach(w)
                BY <1>1, <3>2
            <4> QED BY <4>1
        <3> QED BY <3>1, <3>2
    <2>3. Reach(v) \subseteq D
        BY <2>1, <2>2
    <2> QED BY <1>1, <1>2, <2>3
<1> HIDE DEF Reach
<1>4. ASSUME NEW v \in V
      PROVE  g[v] = here[v] \cup UNION {g[w] : w \in below[v]}
    <2>1. g[v] = UNION {here[w] : w \in Reach(v)}
        OBVIOUS
    <2>2. \A w \in below[v] : g[w] = UNION {here[u] : u \in Reach(w)}
        OBVIOUS
    <2> HIDE DEF g
    <2>3. ASSUME NEW x \in g[v] PROVE x \in here[v] \cup UNION {g[w] : w \in below[v]}
        <3>1. PICK w \in Reach(v) : x \in here[w]
            BY <2>1, <2>3
        <3>2. CASE \E u \in below[v] : w \in Reach(u)
            BY <2>2, <3>1, <3>2
        <3> QED BY <1>3, <3>1, <3>2
    <2>4. here[v] \subseteq g[v]
        BY <1>1, <2>1
    <2>5. ASSUME NEW w \in below[v] PROVE g[w] \subseteq g[v]
        BY <1>2, <2>1, <2>2, <2>5
    <2> QED BY <2>3, <2>4, <2>5
<1>5. g = [v \in V |-> here[v] \cup UNION {g[w] : w \in below[v]}]
    <2> HIDE DEF g
    <2>1. g = [v \in V |-> g[v]]
        BY DEF g
    <2> QED BY <1>4, <2>1
<1> QED BY <1>5 DEF Gathers

LEMMA TreeType ==
    ASSUME NEW tree \in Trees
    PROVE  /\ tree = [n \in DOMAIN tree |-> tree[n]]
           /\ DOMAIN tree \subseteq Ids
           /\ Root \notin DOMAIN tree
           /\ \A n \in DOMAIN tree : tree[n] \in DOMAIN tree \cup {Root}
           /\ IsForest(tree)
BY ShellsAssumption DEF Trees

LEMMA AboveStep ==
    ASSUME NEW tree \in Trees, NEW n \in DOMAIN tree
    PROVE  Above(tree)[n] =
             {tree[n]} \cup IF tree[n] = Root THEN {} ELSE Above(tree)[tree[n]]
<1> DEFINE D == DOMAIN tree
           here == [m \in D |-> {tree[m]}]
           below == [m \in D |-> IF tree[m] = Root THEN {} ELSE {tree[m]}]
<1>1. \A m \in D : below[m] \subseteq D
    BY TreeType
<1> HIDE DEF D, below, here
<1>2. PICK g : Gathers(g, D, here, below)
    BY <1>1, Gathered
<1>3. g = [m \in D |-> {tree[m]} \cup IF tree[m] = Root THEN {} ELSE g[tree[m]]]
    <2>1. ASSUME NEW m \in D
          PROVE  here[m] \cup UNION {g[w] : w \in below[m]}
                    = {tree[m]} \cup IF tree[m] = Root THEN {} ELSE g[tree[m]]
        <3>1. here[m] = {tree[m]}
            BY DEF here
        <3>2. CASE tree[m] = Root
            <4>1. below[m] = {}
                BY <3>2 DEF below, D
            <4> QED BY <3>1, <3>2, <4>1
        <3>3. CASE tree[m] # Root
            <4>1. below[m] = {tree[m]}
                BY <3>3 DEF below, D
            <4> QED BY <3>1, <3>3, <4>1
        <3> QED BY <3>2, <3>3
    <2> QED BY Zenon, <1>2, <2>1 DEF Gathers
<1>4. Above(tree) = [m \in D |-> {tree[m]} \cup IF tree[m] = Root THEN {} ELSE Above(tree)[tree[m]]]
    BY <1>3 DEF Above, D
<1> QED BY <1>4 DEF D

-----------------------------------------------------------------------------
(* Trees.                                                                    *)

LEMMA FewestLeft ==
    ASSUME NEW S, IsFiniteSet(S), NEW F, F \subseteq SUBSET S, F # {}
    PROVE  \E A \in F : \A B \in F : B \subseteq A => B = A
<1>1. F \subseteq FiniteSubsetsOf(S)
    BY FS_Subset DEF FiniteSubsetsOf
<1>2. PICK A \in F : \A B \in F : ~(<<B, A>> \in StrictSubsetOrdering(S))
    <2> HIDE DEF StrictSubsetOrdering, FiniteSubsetsOf
    <2> QED BY <1>1, FS_StrictSubsetOrderingWellFounded, WFMin
<1>3. \A B \in F : B \subseteq A => B = A
    BY <1>1, <1>2 DEF StrictSubsetOrdering, FiniteSubsetsOf
<1> QED BY <1>3

(* Of some blocks of a tree there is one that none of the others is below.   *)
LEMMA Leaf ==
    ASSUME NEW tree \in Trees, NEW some \in SUBSET DOMAIN tree, some # {}
    PROVE  \E n \in some : \A m \in some : tree[m] # n
<1> DEFINE Leafless(T) == \A n \in T : \E m \in T : tree[m] = n
           F == {T \in SUBSET DOMAIN tree : T # {} /\ Leafless(T)}
<1> SUFFICES ASSUME F # {} PROVE FALSE
    OBVIOUS
<1>1. IsFiniteSet(DOMAIN tree)
    BY TreeType, ShellsAssumption, FS_Subset
<1>2. PICK A \in F : \A B \in F : B \subseteq A => B = A
    <2>1. F \subseteq SUBSET DOMAIN tree
        OBVIOUS
    <2> HIDE DEF F
    <2> QED BY <1>1, <2>1, FewestLeft
<1>3. PICK n \in A : tree[n] \notin A
    BY TreeType, <1>2 DEF IsForest
<1> DEFINE B == A \ {n}
<1>4. B # {}
    <2>1. PICK m \in A : tree[m] = n
        BY <1>2
    <2> QED BY <1>3, <2>1
<1>5. Leafless(B)
    <2> SUFFICES ASSUME NEW l \in B PROVE \E m \in B : tree[m] = l
        OBVIOUS
    <2>1. PICK m \in A : tree[m] = l
        BY <1>2
    <2> QED BY <1>3, <2>1
<1>6. B \in F
    BY <1>2, <1>4, <1>5
<1> QED BY <1>2, <1>6

(* A block is matched when it agrees and the one above it is matched.        *)
LEMMA MatchedStep ==
    ASSUME NEW c, c.tree \in Trees, NEW mirror, mirror.tree \in Trees, NEW n
    PROVE  n \in Matched(c, mirror) <=>
             /\ n \in DOMAIN c.tree \cap DOMAIN mirror.tree
             /\ c.tree[n] = mirror.tree[n]
             /\ c.tree[n] \in Matched(c, mirror) \cup {Root}
<1> DEFINE agree == {m \in DOMAIN c.tree \cap DOMAIN mirror.tree : c.tree[m] = mirror.tree[m]}
           above == Above(mirror.tree)
<1>1. Matched(c, mirror) = {m \in agree : above[m] \subseteq agree \cup {Root}}
    BY DEF Matched
<1>2. SUFFICES ASSUME n \in agree
               PROVE  above[n] \subseteq agree \cup {Root} <=>
                        c.tree[n] \in Matched(c, mirror) \cup {Root}
    BY <1>1
<1> DEFINE p == mirror.tree[n]
<1>3. p = c.tree[n] /\ n \in DOMAIN mirror.tree /\ p \in DOMAIN mirror.tree \cup {Root}
    BY <1>2, TreeType
<1>4. above[n] = {p} \cup IF p = Root THEN {} ELSE above[p]
    BY <1>3, AboveStep
<1> HIDE DEF above, agree, p
<1>5. CASE p = Root
    BY <1>3, <1>4, <1>5
<1>6. CASE p # Root
    BY <1>1, <1>3, <1>4, <1>6
<1> QED BY <1>5, <1>6

-----------------------------------------------------------------------------
(* The walk of the simulator.                                                *)

LEMMA WalkStep ==
    ASSUME NEW current, NEW proposed, NEW mirror, mirror.tree \in Trees,
           proposed.tree \in Trees, NEW v \in Visits(mirror)
    PROVE  /\ VisitsBelow(current, proposed, mirror, v) \subseteq Visits(mirror)
           /\ Walk(current, proposed, mirror)[v] =
                Reported(current, proposed, mirror, v) \cup
                UNION {Walk(current, proposed, mirror)[w] :
                          w \in VisitsBelow(current, proposed, mirror, v)}
<1> DEFINE V == Visits(mirror)
           R(u) == Reported(current, proposed, mirror, u)
           B(u) == VisitsBelow(current, proposed, mirror, u)
           here == [u \in V |-> R(u)]
           below == [u \in V |-> B(u)]
<1>1. \A u \in V : B(u) \subseteq V
    BY TreeType DEF Visits, VisitsBelow, Follows, Children
<1> HIDE DEF R, B, V
<1>2. \A u \in V : here[u] = R(u) /\ below[u] = B(u)
    OBVIOUS
<1> HIDE DEF here, below
<1>3. PICK g : Gathers(g, V, here, below)
    BY <1>1, <1>2, Gathered
<1>4. g = [u \in V |-> R(u) \cup UNION {g[w] : w \in B(u)}]
    <2>1. ASSUME NEW u \in V
          PROVE  here[u] \cup UNION {g[w] : w \in below[u]} = R(u) \cup UNION {g[w] : w \in B(u)}
        BY <1>2
    <2> QED BY Zenon, <1>3, <2>1 DEF Gathers
<1>5. Walk(current, proposed, mirror) =
        [u \in V |-> R(u) \cup UNION {Walk(current, proposed, mirror)[w] : w \in B(u)}]
    BY <1>4 DEF Walk, V, R, B
<1> QED BY <1>1, <1>5 DEF V, R, B

(* A visit that follows the mirror down from its root: the block found last  *)
(* is the one the shell refers to, in the current component while that one   *)
(* matches too.                                                              *)
BaseOf(current, mirror, n) ==
    IF n \in Matched(current, mirror) \cup {Root} THEN "current" ELSE "proposed"
VisitOf(current, mirror, n) ==
    [shell |-> n, block |-> n, base |-> BaseOf(current, mirror, n)]

(* What is followed is what matches the proposed component.                  *)
LEMMA FollowedAreMatched ==
    ASSUME NEW current, current.tree \in Trees, NEW proposed, proposed.tree \in Trees,
           NEW mirror, mirror.tree \in Trees,
           NEW n \in Matched(proposed, mirror) \cup {Root}
    PROVE  /\ VisitOf(current, mirror, n) \in Visits(mirror)
           /\ VisitsBelow(current, proposed, mirror, VisitOf(current, mirror, n))
                = {VisitOf(current, mirror, m) :
                      m \in {k \in Matched(proposed, mirror) : mirror.tree[k] = n}}
<1> DEFINE v == VisitOf(current, mirror, n)
           before == Children(TreeOf(current, proposed, v.base), n)
           followed == Children(mirror.tree, n) \cap Children(proposed.tree, n)
<1>1. v.shell = n /\ v.block = n /\ v.base = BaseOf(current, mirror, n)
    BY DEF VisitOf
<1>2. n \in DOMAIN mirror.tree \cup {Root} /\ DOMAIN mirror.tree \subseteq Ids
    BY MatchedStep, TreeType
<1>3. v \in Visits(mirror)
    BY <1>1, <1>2 DEF VisitOf, Visits, BaseOf
<1>4. followed = {k \in Matched(proposed, mirror) : mirror.tree[k] = n}
    BY MatchedStep DEF Children
<1>5. ASSUME NEW m \in followed
      PROVE  (IF m \in before THEN v.base ELSE "proposed") = BaseOf(current, mirror, m)
    <2>1. /\ m \in DOMAIN mirror.tree /\ mirror.tree[m] = n /\ m # Root
          /\ m \in DOMAIN proposed.tree /\ proposed.tree[m] = n
        BY TreeType, <1>5 DEF Children
    <2>2. m \in Matched(current, mirror) <=>
            /\ m \in Children(current.tree, n)
            /\ n \in Matched(current, mirror) \cup {Root}
        BY <2>1, MatchedStep DEF Children
    <2>3. CASE n \in Matched(current, mirror) \cup {Root}
        <3>1. v.base = "current" /\ before = Children(current.tree, n)
            BY <1>1, <2>3 DEF BaseOf, TreeOf
        <3> QED BY <2>1, <2>2, <2>3, <3>1 DEF BaseOf
    <2>4. CASE n \notin Matched(current, mirror) \cup {Root}
        <3>1. v.base = "proposed"
            BY <1>1, <2>4 DEF BaseOf
        <3> QED BY <2>1, <2>2, <2>4, <3>1 DEF BaseOf
    <2> QED BY <2>3, <2>4
<1>6. VisitsBelow(current, proposed, mirror, v) =
        {[shell |-> m, block |-> m, base |-> IF m \in before THEN v.base ELSE "proposed"] :
            m \in followed}
    BY <1>1 DEF VisitsBelow, Follows
<1> HIDE DEF v, before, followed
<1>7. VisitsBelow(current, proposed, mirror, v) = {VisitOf(current, mirror, m) : m \in followed}
    BY <1>5, <1>6 DEF VisitOf
<1> QED BY <1>3, <1>4, <1>7 DEF v

(* What such a visit reports, said of what matches.                          *)
LEMMA ReportedOfMatched ==
    ASSUME NEW current, current.tree \in Trees, NEW proposed, proposed.tree \in Trees,
           NEW mirror, mirror.tree \in Trees,
           NEW n \in Matched(proposed, mirror) \cup {Root}, NEW kind, NEW m
    PROVE  <<kind, m>> \in Reported(current, proposed, mirror, VisitOf(current, mirror, n)) <=>
             \/ /\ kind = "collapse"
                /\ m \in Matched(current, mirror) \ Matched(proposed, mirror)
                /\ mirror.tree[m] = n
             \/ /\ kind = "pre-existing"
                /\ m \in DOMAIN mirror.tree
                /\ m \notin Matched(current, mirror) \cup Matched(proposed, mirror)
                /\ mirror.tree[m] = n
             \/ /\ kind = "unrenderable"
                /\ m \in DOMAIN proposed.tree \ Matched(proposed, mirror)
                /\ proposed.tree[m] = n
<1> DEFINE v == VisitOf(current, mirror, n)
           shells == Children(mirror.tree, n)
           before == Children(TreeOf(current, proposed, v.base), n)
           after == Children(proposed.tree, n)
<1>1. v.shell = n /\ v.block = n /\ v.base = BaseOf(current, mirror, n)
    BY DEF VisitOf
<1>2. Reported(current, proposed, mirror, v) =
        ({"collapse"} \X ((shells \cap before) \ after))
            \cup ({"pre-existing"} \X (shells \ (before \cup after)))
            \cup ({"unrenderable"} \X (after \ shells))
    BY <1>1 DEF Reported
<1>3. m \in shells <=> m \in DOMAIN mirror.tree /\ mirror.tree[m] = n
    BY DEF Children
<1>4. m \in after <=> m \in DOMAIN proposed.tree /\ proposed.tree[m] = n
    BY DEF Children
<1>5. m \in shells => (m \in after <=> m \in Matched(proposed, mirror))
    BY <1>3, <1>4, MatchedStep
<1>5a. m \in after => (m \in shells <=> m \in Matched(proposed, mirror))
    BY <1>3, <1>4, MatchedStep
<1>6. m \in shells => (m \in before \ after <=> m \in Matched(current, mirror) \ after)
    <2>1. CASE n \in Matched(current, mirror) \cup {Root}
        <3>1. before = Children(current.tree, n)
            BY <1>1, <2>1 DEF BaseOf, TreeOf
        <3>2. m \in shells => (m \in before <=> m \in Matched(current, mirror))
            BY <1>3, <2>1, <3>1, MatchedStep DEF Children
        <3> QED BY <3>2
    <2>2. CASE n \notin Matched(current, mirror) \cup {Root}
        <3>1. before = after
            BY <1>1, <2>2 DEF BaseOf, TreeOf
        <3>2. m \in shells => m \notin Matched(current, mirror)
            BY <1>3, <2>2, MatchedStep
        <3> QED BY <3>1, <3>2
    <2> QED BY <2>1, <2>2
<1>7. m \in Matched(current, mirror) => m \in DOMAIN mirror.tree
    BY MatchedStep
<1>8. m \in Matched(proposed, mirror) => m \in DOMAIN mirror.tree
    BY MatchedStep
<1> HIDE DEF v, shells, before, after
<1>9. <<kind, m>> \in Reported(current, proposed, mirror, v) <=>
        \/ kind = "collapse" /\ m \in (shells \cap before) \ after
        \/ kind = "pre-existing" /\ m \in shells \ (before \cup after)
        \/ kind = "unrenderable" /\ m \in after \ shells
    BY <1>2
<1> QED BY <1>3, <1>4, <1>5, <1>5a, <1>6, <1>7, <1>8, <1>9 DEF v

(* The walk comes to every block that matches the proposed component...      *)
LEMMA WalkReaches ==
    ASSUME NEW current, current.tree \in Trees, NEW proposed, proposed.tree \in Trees,
           NEW mirror, mirror.tree \in Trees,
           NEW n \in Matched(proposed, mirror) \cup {Root}
    PROVE  Reported(current, proposed, mirror, VisitOf(current, mirror, n))
              \subseteq Walk(current, proposed, mirror)[VisitOf(current, mirror, Root)]
<1> DEFINE matched == Matched(proposed, mirror)
           V(k) == VisitOf(current, mirror, k)
           W == Walk(current, proposed, mirror)
           Missed == {k \in matched : ~(W[V(k)] \subseteq W[V(Root)])}
<1>1. \A k \in matched \cup {Root} :
        /\ W[V(k)] = Reported(current, proposed, mirror, V(k)) \cup
                        UNION {W[w] : w \in VisitsBelow(current, proposed, mirror, V(k))}
        /\ VisitsBelow(current, proposed, mirror, V(k)) = {V(m) : m \in {l \in matched : mirror.tree[l] = k}}
    BY FollowedAreMatched, WalkStep
<1>2. \A k \in matched : k \in DOMAIN mirror.tree /\ mirror.tree[k] \in matched \cup {Root}
    BY MatchedStep
<1> HIDE DEF matched, V, W
<1>3. \A k \in matched : W[V(k)] \subseteq W[V(mirror.tree[k])]
    BY <1>1, <1>2
<1>4. Missed = {}
    <2> SUFFICES ASSUME Missed # {} PROVE FALSE
        OBVIOUS
    <2>1. Missed \in (SUBSET DOMAIN mirror.tree) \ {{}}
        BY <1>2
    <2>2. PICK k \in Missed : mirror.tree[k] \notin Missed
        BY <2>1, TreeType DEF IsForest
    <2> QED BY <1>2, <1>3, <2>2
<1>5. n \in matched \cup {Root}
    BY DEF matched
<1>6. W[V(n)] \subseteq W[V(Root)]
    BY <1>4, <1>5
<1> QED BY <1>1, <1>5, <1>6 DEF V, W

(* ... and to no other.                                                      *)
LEMMA WalkReports ==
    ASSUME NEW current, current.tree \in Trees, NEW proposed, proposed.tree \in Trees,
           NEW mirror, mirror.tree \in Trees,
           NEW x \in Walk(current, proposed, mirror)[VisitOf(current, mirror, Root)]
    PROVE  \E n \in Matched(proposed, mirror) \cup {Root} :
              x \in Reported(current, proposed, mirror, VisitOf(current, mirror, n))
<1> DEFINE matched == Matched(proposed, mirror)
           V(k) == VisitOf(current, mirror, k)
           W == Walk(current, proposed, mirror)
           R(k) == Reported(current, proposed, mirror, V(k))
           Known(k) == x \in W[V(k)] => \E l \in matched \cup {Root} : x \in R(l)
           Unknown == {k \in matched : ~Known(k)}
<1>1. \A k \in matched \cup {Root} :
        /\ W[V(k)] = R(k) \cup UNION {W[w] : w \in VisitsBelow(current, proposed, mirror, V(k))}
        /\ VisitsBelow(current, proposed, mirror, V(k)) = {V(m) : m \in {l \in matched : mirror.tree[l] = k}}
    BY FollowedAreMatched, WalkStep
<1>2. matched \subseteq DOMAIN mirror.tree
    BY MatchedStep
<1> HIDE DEF matched, V, W, R
<1>3. ASSUME NEW k \in matched \cup {Root},
             \A m \in matched : mirror.tree[m] = k => Known(m)
      PROVE  Known(k)
    BY <1>1, <1>3
<1>4. Unknown = {}
    <2> SUFFICES ASSUME Unknown # {} PROVE FALSE
        OBVIOUS
    <2>1. Unknown \in SUBSET DOMAIN mirror.tree
        BY <1>2
    <2>2. PICK k \in Unknown : \A m \in Unknown : mirror.tree[m] # k
        <3> HIDE DEF Unknown
        <3> QED BY <2>1, Leaf
    <2> QED BY <1>3, <2>2
<1>5. Known(Root)
    BY <1>3, <1>4
<1> QED BY <1>5 DEF matched, V, W, R

(* So the report names the topmost blocks of each kind.                      *)
LEMMA WalkIsExact ==
    ASSUME NEW current, current.tree \in Trees, NEW proposed, proposed.tree \in Trees,
           NEW mirror, mirror.tree \in Trees, NEW m
    PROVE  /\ <<"collapse", m>> \in Walk(current, proposed, mirror)[VisitOf(current, mirror, Root)] <=>
                m \in TopmostOf(Matched(current, mirror) \ Matched(proposed, mirror), mirror.tree,
                               proposed, mirror)
           /\ <<"pre-existing", m>> \in Walk(current, proposed, mirror)[VisitOf(current, mirror, Root)] <=>
                m \in TopmostOf(DOMAIN mirror.tree
                                   \ (Matched(current, mirror) \cup Matched(proposed, mirror)),
                               mirror.tree, proposed, mirror)
           /\ <<"unrenderable", m>> \in Walk(current, proposed, mirror)[VisitOf(current, mirror, Root)] <=>
                m \in TopmostOf(DOMAIN proposed.tree \ Matched(proposed, mirror), proposed.tree,
                               proposed, mirror)
<1> DEFINE R(n) == Reported(current, proposed, mirror, VisitOf(current, mirror, n))
           W == Walk(current, proposed, mirror)[VisitOf(current, mirror, Root)]
           before == Matched(current, mirror)
           after == Matched(proposed, mirror)
<1>1. ASSUME NEW kind
      PROVE  <<kind, m>> \in W <=> \E n \in after \cup {Root} : <<kind, m>> \in R(n)
    BY WalkReaches, WalkReports
<1>2. \A kind : \A n \in after \cup {Root} :
        <<kind, m>> \in R(n) <=>
          \/ kind = "collapse" /\ m \in before \ after /\ mirror.tree[m] = n
          \/ /\ kind = "pre-existing"
             /\ m \in DOMAIN mirror.tree \ (before \cup after) /\ mirror.tree[m] = n
          \/ /\ kind = "unrenderable"
             /\ m \in DOMAIN proposed.tree \ after /\ proposed.tree[m] = n
    BY ReportedOfMatched
<1>3. ASSUME NEW some, NEW tree
      PROVE  m \in TopmostOf(some, tree, proposed, mirror) <=>
                m \in some /\ tree[m] \in after \cup {Root}
    BY DEF TopmostOf
<1> HIDE DEF R, W, before, after
<1> QED BY <1>1, <1>2, <1>3 DEF W, before, after

LEMMA WalkPairs ==
    ASSUME NEW current, current.tree \in Trees, NEW proposed, proposed.tree \in Trees,
           NEW mirror, mirror.tree \in Trees,
           NEW x \in Walk(current, proposed, mirror)[VisitOf(current, mirror, Root)]
    PROVE  x = <<x[1], x[2]>>
<1>1. PICK n \in Matched(proposed, mirror) \cup {Root} :
         x \in Reported(current, proposed, mirror, VisitOf(current, mirror, n))
    BY WalkReports
<1> QED BY <1>1 DEF Reported

-----------------------------------------------------------------------------
(* The inductive invariant: a verdict is that of the payload and the export  *)
(* that are there, and a revision kept the content of what it revises and    *)
(* names all it adds.                                                        *)
VerdictInv ==
    verdict # None =>
        /\ export # None /\ payload # None
        /\ verdict = [exit |-> ExitOf(Findings), findings |-> Findings]

RevisionInv ==
    (payload # None /\ payload.from # None) =>
        /\ ContentPreserved(payload.from, payload)
        /\ payload.sync = Additions(payload.from, payload)

IInv == TypeOK /\ VerdictInv /\ RevisionInv

LEMMA ComponentType ==
    ASSUME NEW c
    PROVE  c \in Components <=>
             /\ c = [tree |-> c.tree, content |-> c.content]
             /\ c.tree \in Trees
             /\ c.content \subseteq Texts \cap DOMAIN c.tree
<1>1. c \in Components <=>
        \E tree \in Trees : c \in [tree : {tree}, content : SUBSET (Texts \cap DOMAIN tree)]
    BY DEF Components
<1> QED BY <1>1

LEMMA MirrorType ==
    ASSUME NEW mirror \in Mirrors
    PROVE  /\ mirror.tree \in Trees
           /\ \A tree \in Trees : [mirror EXCEPT !.tree = tree] \in Mirrors
           /\ [mirror EXCEPT !.pinned = TRUE] \in Mirrors
           /\ \A marks \in Marks : [mirror EXCEPT !.marks = marks] \in Mirrors
BY DEF Mirrors

LEMMA NewMirror ==
    ASSUME NEW tree \in Trees, NEW marks \in Marks
    PROVE  Mirror(tree, marks) \in Mirrors
BY DEF Mirrors, Mirror

LEMMA PageType ==
    ASSUME NEW ps \in PagesOn(Pages), NEW p \in Pages, NEW s \in Sources,
           NEW m \in Mirrors \cup {None}
    PROVE  /\ ps[p][s] \in Mirrors \cup {None}
           /\ [ps EXCEPT ![p][s] = m] \in PagesOn(Pages)
           /\ [ps EXCEPT ![p] = [blocks |-> m, draft |-> None]] \in PagesOn(Pages)
BY DEF PagesOn, Sources

LEMMA TypeInit == Init => TypeOK
BY ShellsAssumption DEF Init, TypeOK, PagesOn, EmptyPage

(* Each step changes one record, or the pages.                               *)
LEMMA TypeStep ==
    ASSUME TypeOK, [Next]_vars
    PROVE  TypeOK'
<1> USE DEF TypeOK
<1>c. ASSUME Change PROVE changes' \in 0 .. MaxChanges
    BY <1>c, ShellsAssumption DEF Change
<1>p. ASSUME Change, pages' \in PagesOn(Pages), UNCHANGED <<component, export, payload, verdict>>
      PROVE  TypeOK'
    BY <1>c, <1>p
<1>1. ASSUME NEW p \in Pages, NEW tree \in Trees, WritePage(p, tree) PROVE TypeOK'
    BY <1>1, <1>p, NewMirror, PageType DEF WritePage, Marks, Sources
<1>2. ASSUME NEW p \in Pages, Place(p) PROVE TypeOK'
    BY <1>2, <1>p, NewMirror, PageType, ComponentType DEF Place, Marks, Sources
<1>3. ASSUME NEW p \in Pages, Publish(p) PROVE TypeOK'
    <2>1. pages[p].draft \in Mirrors \cup {None}
        BY PageType DEF Sources
    <2> QED BY <1>3, <1>p, <2>1, PageType DEF Publish, Sources
<1>4. ASSUME NEW p \in Pages, NEW source \in Sources, Pin(p, source) PROVE TypeOK'
    <2> DEFINE m == pages[p][source]
    <2>1. m \in Mirrors
        BY <1>4, PageType DEF Pin, Used
    <2>2. [m EXCEPT !.pinned = TRUE] \in Mirrors
        BY <2>1, MirrorType
    <2>3. pages' = [pages EXCEPT ![p][source] = [m EXCEPT !.pinned = TRUE]]
        BY <1>4 DEF Pin
    <2> HIDE DEF m
    <2>4. pages' \in PagesOn(Pages)
        BY <2>2, <2>3, PageType
    <2>5. Change /\ UNCHANGED <<component, export, payload, verdict>>
        BY <1>4 DEF Pin
    <2> QED BY <1>p, <2>4, <2>5
<1>5. ASSUME NEW c \in Components, EditLive(c) PROVE TypeOK'
    BY <1>5, <1>c DEF EditLive
<1>6. CASE SyncPages
    <2>1. component.tree \in Trees
        BY <1>6, ComponentType DEF SyncPages
    <2>2. \A p \in Pages, s \in Sources :
             (<<p, s>> \in Used(pages)) => [pages[p][s] EXCEPT !.tree = component.tree] \in Mirrors
        BY <2>1, MirrorType, PageType DEF Used
    <2>3. \A p \in Pages, s \in Sources : pages[p][s] \in Mirrors \cup {None}
        BY PageType
    <2>4. pages' \in PagesOn(Pages)
        BY <1>6, <2>2, <2>3 DEF SyncPages, PagesOn
    <2> QED BY <1>6, <1>p, <2>4 DEF SyncPages
<1>7. ASSUME NEW p \in Pages, Extract(p) PROVE TypeOK'
    <2> DEFINE tree == pages[p].blocks.tree
               same == {q \in Instances : pages[q].blocks.tree = tree}
    <2>1. /\ Change /\ p \in Instances
          /\ component' = [tree |-> tree, content |-> Texts \cap DOMAIN tree]
          /\ pages' = [q \in Pages |->
                IF q \in same THEN [pages[q] EXCEPT !.blocks.marks = "every"] ELSE pages[q]]
          /\ UNCHANGED <<export, payload, verdict>>
        BY <1>7 DEF Extract
    <2>2. \A q \in Instances : pages[q].blocks \in Mirrors
        BY PageType DEF Instances, Sources
    <2>3. tree \in Trees
        BY <2>1, <2>2, MirrorType
    <2> HIDE DEF tree
    <2>4. component' \in Components
        BY <2>1, <2>3, ComponentType
    <2>5. \A q \in same : [pages[q] EXCEPT !.blocks.marks = "every"] \in [Sources -> Mirrors \cup {None}]
        <3> SUFFICES ASSUME NEW q \in same
                     PROVE  [pages[q] EXCEPT !.blocks.marks = "every"] \in [Sources -> Mirrors \cup {None}]
            OBVIOUS
        <3> DEFINE m == pages[q].blocks
        <3>1. q \in Pages /\ m \in Mirrors
            BY <2>2 DEF Instances
        <3>2. [m EXCEPT !.marks = "every"] \in Mirrors
            BY <3>1, MirrorType DEF Marks
        <3>3. [pages[q] EXCEPT !.blocks.marks = "every"] = [pages[q] EXCEPT !.blocks = [m EXCEPT !.marks = "every"]]
            OBVIOUS
        <3> HIDE DEF m
        <3> QED BY <3>1, <3>2, <3>3 DEF PagesOn, Sources
    <2>6. \A q \in Pages : pages[q] \in [Sources -> Mirrors \cup {None}]
        BY DEF PagesOn
    <2> HIDE DEF same
    <2>7. pages' \in PagesOn(Pages)
        BY <2>1, <2>5, <2>6 DEF PagesOn
    <2>8. Change /\ UNCHANGED <<export, payload, verdict>>
        BY <2>1
    <2>9. changes' \in 0 .. MaxChanges
        BY <1>c, <2>8
    <2> HIDE DEF TypeOK
    <2>10. TypeOK
        OBVIOUS
    <2> QED BY <2>4, <2>7, <2>8, <2>9, <2>10 DEF TypeOK
<1>8. ASSUME NEW withComponent \in BOOLEAN, NEW withPages \in BOOLEAN, Export(withComponent, withPages)
      PROVE  TypeOK'
    <2> DEFINE some == IF withPages THEN {q \in Pages : pages[q] # EmptyPage} ELSE {}
    <2>1. /\ export' = [component |-> IF withComponent THEN component ELSE None,
                        pages |-> [p \in some |-> pages[p]]]
          /\ verdict' = None /\ UNCHANGED <<component, pages, payload, changes>>
        BY <1>8 DEF Export
    <2>2. some \in SUBSET Pages
        OBVIOUS
    <2> HIDE DEF some
    <2>3. export'.pages \in PagesOn(some)
        BY <2>1, <2>2 DEF PagesOn
    <2>4. export'.component \in Components \cup {None}
        BY <2>1
    <2> QED BY <2>1, <2>2, <2>3, <2>4
<1>9. ASSUME NEW c \in Components, Compose(c) PROVE TypeOK'
    BY <1>9, ComponentType DEF Compose, Proposed
<1>10. ASSUME NEW c \in Components, NEW allowAdditions \in BOOLEAN, Revise(c, allowAdditions)
       PROVE  TypeOK'
    BY <1>10, ComponentType DEF Revise, Proposed, Additions
<1>11. CASE Simulate
    BY <1>11 DEF Simulate, ExitOf
<1>12. CASE Apply
    BY <1>12, <1>c, ComponentType DEF Apply
<1>13. CASE UNCHANGED vars
    BY <1>13 DEF vars
<1> QED BY <1>1, <1>2, <1>3, <1>4, <1>5, <1>6, <1>7, <1>8, <1>9, <1>10, <1>11, <1>12, <1>13 DEF Next

LEMMA VerdictStep ==
    ASSUME VerdictInv, [Next]_vars
    PROVE  VerdictInv'
<1>1. CASE UNCHANGED <<export, payload, verdict>>
    <2>1. ExitOf(Findings)' = ExitOf(Findings) /\ Findings' = Findings
        BY <1>1 DEF ExitOf, Incomplete, Findings, Simulated
    <2> QED BY <1>1, <2>1 DEF VerdictInv
<1>2. CASE verdict' = None
    BY <1>2 DEF VerdictInv
<1>3. CASE Simulate
    <2>1. Findings' = Findings /\ ExitOf(Findings)' = ExitOf(Findings)
        BY <1>3 DEF Simulate, ExitOf, Incomplete, Findings, Simulated
    <2> QED BY <1>3, <2>1 DEF Simulate, VerdictInv
<1> QED BY <1>1, <1>2, <1>3 DEF Next, WritePage, Place, Publish, Pin, EditLive, SyncPages,
        Extract, Export, Compose, Revise, Apply, vars

LEMMA RevisionStep ==
    ASSUME RevisionInv, [Next]_vars
    PROVE  RevisionInv'
<1>1. CASE payload' = payload \/ payload' = None
    BY <1>1 DEF RevisionInv
<1>2. ASSUME NEW c \in Components, Compose(c) PROVE RevisionInv'
    BY <1>2 DEF Compose, Proposed, RevisionInv
<1>3. ASSUME NEW c \in Components, NEW allowAdditions \in BOOLEAN, Revise(c, allowAdditions)
      PROVE  RevisionInv'
    <2>1. /\ payload' = Proposed(c, export.component, Additions(export.component, c))
          /\ ContentPreserved(export.component, c)
        BY <1>3 DEF Revise
    <2>2. /\ payload'.from = export.component /\ payload'.tree = c.tree
          /\ payload'.content = c.content /\ payload'.sync = Additions(export.component, c)
        BY <2>1 DEF Proposed
    <2> QED BY <2>1, <2>2 DEF RevisionInv, ContentPreserved, Additions
<1> QED BY <1>1, <1>2, <1>3 DEF Next, WritePage, Place, Publish, Pin, EditLive, SyncPages,
        Extract, Export, Simulate, Apply, vars

LEMMA Invariance == Spec => []IInv
<1>1. Init => IInv
    BY TypeInit DEF Init, IInv, VerdictInv, RevisionInv
<1>2. IInv /\ [Next]_vars => IInv'
    BY TypeStep, VerdictStep, RevisionStep DEF IInv
<1> QED BY <1>1, <1>2, PTL DEF Spec

-----------------------------------------------------------------------------
(* The theorems.                                                             *)

(* Trees stay forests without a ring, a mirror stays one of a component of   *)
(* these ids, and a verdict is only kept with the payload and the export it  *)
(* is about (components.py compose and revise, simulate.py main).            *)
THEOREM TypeCorrect == Spec => []TypeOK
<1>1. IInv => TypeOK
    BY DEF IInv
<1> QED BY <1>1, Invariance, PTL

(* What a verdict that is not "could not check" stands for on a page.        *)
LEMMA MirrorsAreTyped ==
    ASSUME TypeOK
    PROVE  /\ \A at \in Used(pages) : MirrorAt(pages, at) \in Mirrors
           /\ export # None => \A at \in Used(export.pages) : MirrorAt(export.pages, at) \in Mirrors
BY DEF TypeOK, PagesOn, Used, MirrorAt

LEMMA UsedIsRooted ==
    ASSUME NEW ps, NEW at \in Used(ps), MirrorAt(ps, at) \in Mirrors
    PROVE  Root \in RootsOf(MirrorAt(ps, at))
<1> DEFINE mirror == MirrorAt(ps, at)
<1>1. RootsOf(mirror) # {}
    BY DEF Used, MirrorAt
<1>2. mirror.marks \in Marks
    BY DEF Mirrors
<1> HIDE DEF mirror
<1> QED BY <1>1, <1>2 DEF RootsOf, Marks, mirror

LEMMA RootVisit ==
    ASSUME NEW current, NEW mirror
    PROVE  VisitOf(current, mirror, Root) = [shell |-> Root, block |-> Root, base |-> "current"]
BY DEF VisitOf, BaseOf

(* A clean verdict against a fresh export: nothing that matched is lost.     *)
LEMMA CleanKeeps ==
    ASSUME IInv, Clean, Fresh, component # None, NEW at \in Live,
           NEW mirror, mirror = MirrorAt(pages, at)
    PROVE  Matched(component, mirror) \subseteq Matched(payload, mirror)
<1>1. export # None /\ payload # None /\ ExitOf(Findings) = 0
    BY DEF IInv, VerdictInv, Clean
<1>2. /\ ~Incomplete /\ \A found \in Findings : found[1] # "collapse"
    BY <1>1 DEF ExitOf
<1>3. at \in Used(export.pages) /\ mirror = MirrorAt(export.pages, at) /\ ~mirror.pinned
    <2>1. /\ at \in Pages \X Sources /\ pages[at[1]][at[2]] # None /\ ~mirror.pinned
          /\ RootsOf(mirror) # {} /\ mirror = pages[at[1]][at[2]]
        BY DEF Live, Used, MirrorAt, IInv, TypeOK, PagesOn
    <2>2. pages[at[1]] # EmptyPage
        BY <2>1 DEF EmptyPage
    <2>3. at[1] \in DOMAIN export.pages /\ export.pages[at[1]] = pages[at[1]]
        BY <2>1, <2>2 DEF Fresh
    <2> QED BY <2>1, <2>3 DEF Used, MirrorAt
<1>4. export.component = component
    BY <1>2, <1>3 DEF Incomplete, Fresh
<1>5. mirror.tree \in Trees /\ component.tree \in Trees /\ payload.tree \in Trees
    <2>1. mirror.tree \in Trees
        BY <1>1, <1>3, MirrorsAreTyped, MirrorType DEF IInv
    <2>2. payload.tree \in Trees /\ component.tree \in Trees
        BY <1>1, ComponentType DEF IInv, TypeOK
    <2> QED BY <2>1, <2>2
<1> DEFINE W == Walk(component, payload, mirror)[VisitOf(component, mirror, Root)]
           before == Matched(component, mirror)
           after == Matched(payload, mirror)
<1>6. Root \in RootsOf(mirror)
    BY <1>1, <1>3, MirrorsAreTyped, UsedIsRooted DEF IInv
<1>7. W \subseteq Compared(component, payload, mirror)
    BY <1>6, RootVisit DEF Compared
<1>8. \A n : <<"collapse", n>> \notin W
    <2> SUFFICES ASSUME NEW n, <<"collapse", n>> \in W PROVE FALSE
        OBVIOUS
    <2>1. <<"collapse", n>> \in Compared(export.component, payload, MirrorAt(export.pages, at))
        BY <1>3, <1>4, <1>7
    <2>2. at \in Simulated
        BY <1>3 DEF Simulated
    <2>3. <<"collapse", at, n>> \in Findings
        BY <1>4, <2>1, <2>2 DEF Findings
    <2> QED BY <1>2, <2>3
<1>9. \A n : n \notin TopmostOf(before \ after, mirror.tree, payload, mirror)
    BY <1>5, <1>8, WalkIsExact
<1>10. before \ after = {}
    <2> SUFFICES ASSUME before \ after # {} PROVE FALSE
        OBVIOUS
    <2>1. \A n \in before : n \in DOMAIN mirror.tree /\ mirror.tree[n] \in before \cup {Root}
        BY <1>5, MatchedStep
    <2>2. before \ after \in (SUBSET DOMAIN mirror.tree) \ {{}}
        BY <2>1
    <2>3. PICK n \in before \ after : mirror.tree[n] \notin before \ after
        <3> HIDE DEF before, after
        <3>1. IsForest(mirror.tree)
            BY <1>5, TreeType
        <3> QED BY <2>2, <3>1 DEF IsForest
    <2> HIDE DEF before
    <2>4. mirror.tree[n] \in after \cup {Root}
        BY <2>1, <2>3
    <2> QED BY <1>9, <2>3, <2>4 DEF TopmostOf
<1> QED BY <1>10

(* TRAP-001: a payload that simulates clean against a fresh export takes no  *)
(* block away from any page, for every component, every way the pages mirror *)
(* it and however the site came to be as it is (simulate.py, simulate).      *)
THEOREM CleanRunIsSafe == Spec => []CleanRunCollapsesNothing
<1>1. IInv => CleanRunCollapsesNothing
    BY CleanKeeps DEF CleanRunCollapsesNothing
<1> QED BY <1>1, Invariance, PTL

(* TRAP-002: nor does a revision take any content away (components.py,       *)
(* assert_content_preserved).                                                *)
THEOREM RevisionIsSafe == Spec => []RevisionKeepsContent
<1>1. IInv => RevisionKeepsContent
    <2> SUFFICES ASSUME IInv, Clean, Fresh, RevisesLive, NEW at \in Live,
                        NEW mirror, mirror = MirrorAt(pages, at)
                 PROVE  Shown(component, mirror) \subseteq Shown(payload, mirror)
        BY DEF RevisionKeepsContent
    <2>1. payload # None /\ payload.from = component /\ component # None
        BY DEF IInv, VerdictInv, Clean, RevisesLive
    <2>2. component.content \subseteq payload.content
        BY <2>1 DEF IInv, RevisionInv, ContentPreserved
    <2> QED BY <2>1, <2>2, CleanKeeps DEF Shown
<1> QED BY <1>1, Invariance, PTL

(* And with no ComponentSyncer pass asked for, a page that rendered all of   *)
(* the component renders all of the revision (components.py,                 *)
(* assert_additions_acknowledged).                                           *)
THEOREM WholeStaysWhole == Spec => []WholePagesStayWhole
<1>1. IInv => WholePagesStayWhole
    <2> SUFFICES ASSUME IInv, Clean, Fresh, RevisesLive, payload.sync = {}, NEW at \in Live,
                        NEW mirror, mirror = MirrorAt(pages, at), Whole(component, mirror)
                 PROVE  Whole(payload, mirror)
        BY DEF WholePagesStayWhole
    <2>1. payload # None /\ payload.from = component /\ component # None
        BY DEF IInv, VerdictInv, Clean, RevisesLive
    <2>2. DOMAIN payload.tree \subseteq DOMAIN component.tree
        BY <2>1 DEF IInv, RevisionInv, Additions
    <2>3. Matched(component, mirror) \subseteq Matched(payload, mirror)
        BY <2>1, CleanKeeps
    <2>4. Matched(payload, mirror) \subseteq DOMAIN payload.tree
        BY DEF Matched
    <2> QED BY <2>2, <2>3, <2>4 DEF Whole
<1> QED BY <1>1, Invariance, PTL

(* The report names the topmost shells that lose their block, those that had *)
(* none either way and the blocks no shell refers to, and nothing else       *)
(* (simulate.py, _compare_children).                                         *)
THEOREM ReportExact == Spec => []ReportIsExact
<1>1. IInv => ReportIsExact
    <2> SUFFICES ASSUME IInv, verdict # None, verdict.exit # 2, export.component # None,
                        NEW at \in Used(export.pages),
                        NEW mirror, mirror = MirrorAt(export.pages, at),
                        mirror.marks = "root", ~mirror.pinned,
                        NEW before, before = Matched(export.component, mirror),
                        NEW after, after = Matched(payload, mirror)
                 PROVE  /\ {n \in Ids : <<"collapse", at, n>> \in verdict.findings}
                             = TopmostOf(before \ after, mirror.tree, payload, mirror)
                        /\ {n \in Ids : <<"pre-existing", at, n>> \in verdict.findings}
                             = TopmostOf(DOMAIN mirror.tree \ (before \cup after), mirror.tree,
                                         payload, mirror)
                        /\ {n \in Ids : <<"unrenderable", at, n>> \in verdict.findings}
                             = TopmostOf(DOMAIN payload.tree \ after, payload.tree, payload, mirror)
        BY DEF ReportIsExact
    <2>1. export # None /\ payload # None /\ verdict.findings = Findings
        BY DEF IInv, VerdictInv
    <2>2. mirror.tree \in Trees /\ export.component.tree \in Trees /\ payload.tree \in Trees
        <3>1. mirror.tree \in Trees
            BY <2>1, MirrorsAreTyped, MirrorType DEF IInv
        <3>2. payload.tree \in Trees /\ export.component.tree \in Trees
            BY <2>1, ComponentType DEF IInv, TypeOK
        <3> QED BY <3>1, <3>2
    <2> DEFINE W == Walk(export.component, payload, mirror)[VisitOf(export.component, mirror, Root)]
    <2>3. Compared(export.component, payload, mirror) = W
        BY RootVisit DEF Compared, RootsOf
    <2>4. \A kind, n : <<kind, at, n>> \in Findings <=> <<kind, n>> \in W
        <3>1. at \in Simulated
            BY DEF Simulated
        <3>2. \A x : x \in Findings <=>
                \E other \in Simulated :
                    \E found \in Compared(export.component, payload, MirrorAt(export.pages, other)) :
                        x = <<found[1], other, found[2]>>
            BY DEF Findings
        <3> HIDE DEF W
        <3>3. ASSUME NEW kind, NEW n, <<kind, at, n>> \in Findings PROVE <<kind, n>> \in W
            <4>1. PICK other \in Simulated :
                    \E found \in Compared(export.component, payload, MirrorAt(export.pages, other)) :
                        <<kind, at, n>> = <<found[1], other, found[2]>>
                BY <3>2, <3>3
            <4>2. other = at
                BY <4>1
            <4>3. PICK found \in W : found[1] = kind /\ found[2] = n
                BY <2>3, <4>1, <4>2
            <4>4. found = <<kind, n>>
                BY <2>2, <4>3, WalkPairs DEF W
            <4> QED BY <4>3, <4>4
        <3>4. ASSUME NEW kind, NEW n, <<kind, n>> \in W PROVE <<kind, at, n>> \in Findings
            BY <2>3, <3>1, <3>2, <3>4
        <3> QED BY <3>3, <3>4
    <2> HIDE DEF W
    <2>5. TopmostOf(before \ after, mirror.tree, payload, mirror) \subseteq Ids
        BY <2>2, TreeType, MatchedStep DEF TopmostOf
    <2>6. TopmostOf(DOMAIN mirror.tree \ (before \cup after), mirror.tree, payload, mirror) \subseteq Ids
        BY <2>2, TreeType DEF TopmostOf
    <2>7. TopmostOf(DOMAIN payload.tree \ after, payload.tree, payload, mirror) \subseteq Ids
        BY <2>2, TreeType DEF TopmostOf
    <2>8. \A n :
            /\ <<"collapse", n>> \in W <=>
                 n \in TopmostOf(before \ after, mirror.tree, payload, mirror)
            /\ <<"pre-existing", n>> \in W <=>
                 n \in TopmostOf(DOMAIN mirror.tree \ (before \cup after), mirror.tree, payload, mirror)
            /\ <<"unrenderable", n>> \in W <=>
                 n \in TopmostOf(DOMAIN payload.tree \ after, payload.tree, payload, mirror)
        <3> SUFFICES ASSUME NEW n
            PROVE
            /\ <<"collapse", n>> \in W <=>
                 n \in TopmostOf(before \ after, mirror.tree, payload, mirror)
            /\ <<"pre-existing", n>> \in W <=>
                 n \in TopmostOf(DOMAIN mirror.tree \ (before \cup after), mirror.tree, payload, mirror)
            /\ <<"unrenderable", n>> \in W <=>
                 n \in TopmostOf(DOMAIN payload.tree \ after, payload.tree, payload, mirror)
            OBVIOUS
        <3> QED BY <2>2, WalkIsExact DEF W
    <2> QED BY <2>1, <2>4, <2>5, <2>6, <2>7, <2>8
<1> QED BY <1>1, Invariance, PTL
=============================================================================
