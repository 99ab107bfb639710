------------------------------- MODULE MCChecks -------------------------------
(* A small instance of the three programs of Checks. *)
EXTENDS Checks, SequencesExt

-----------------------------------------------------------------------------
(* A pin at which one claim has moved at most. *)
MCBuilders == {Claims} \cup {Claims \ {claim} : claim \in Claims}

(* The usual environment, and each with one override or one tool missing. *)
MCEnvironments ==
    {Usual, [Usual EXCEPT !.gitleaks = FALSE], [Usual EXCEPT !.ruff = FALSE],
     [Usual EXCEPT !.schema = FALSE], [Usual EXCEPT !.git = FALSE]}
        \cup {[Usual EXCEPT !.override = override] :
                override \in {"public only", "tokens", "sites", "gitleaks", "stale docs", "audit"}}
        \cup {[Usual EXCEPT !.opskit = opskit] : opskit \in {"absent", "no guard", "no tokens"}}

(* Two generated rules on the source and on the page, with stacks of two     *)
(* families; or builds of two kinds, what else a page can lose, and a browser*)
(* or another workflow; or what a browser shows of the features.             *)
MCFamilies == {"f", "g"}
MCBrief == {"ok"}
Bundles ==
    {{<<"red">>}, {<<"f">>}, {<<"f", "g">>}, {<<"g", "f">>}, {<<"red">>, <<"f", "g">>}}
Rules == [context : {"all", "narrow"}, bundle : Bundles]
PlainPage == [stable |-> {}, things |-> {}, texts |-> {}, generated |-> << >>, broken |-> {}]
StyledPages == {[PlainPage EXCEPT !.generated = rules] : rules \in BoundedSeq(Rules, 2)}
OtherPages ==
    {[PlainPage EXCEPT !.stable = stable, !.texts = texts] :
        stable \in SUBSET {"rule"}, texts \in SUBSET {"text", "ok"}}
    \cup {[PlainPage EXCEPT !.things = {"link"}], [PlainPage EXCEPT !.broken = {"asset"}]}
(* At most two kinds of payload, each in a slot of its name. *)
Builds == {[kind \in kinds |-> kind] : kinds \in UNION {kSubset(n, Kinds) : n \in 0 .. 2}}
PlainClone ==
    [build |-> [slot \in {"page"} |-> "page"], source |-> Unset, page |-> PlainPage, features |-> {},
     browser |-> "present", loads |-> TRUE, workflow |-> "replicate", designed |-> FALSE]
MCClones ==
    {[PlainClone EXCEPT !.source = source, !.page = page] :
        source \in StyledPages, page \in StyledPages}
    \cup {[PlainClone EXCEPT !.source = source, !.page = page, !.build = build, !.browser = browser] :
        source \in OtherPages \cup {Unset}, page \in OtherPages,
        browser \in {"present", "absent", "broken"},
        build \in {Unset} \cup Builds}
    \cup {[PlainClone EXCEPT !.build = build, !.workflow = "theme", !.designed = designed] :
        build \in {Unset} \cup Builds, designed \in BOOLEAN}
    \cup {[PlainClone EXCEPT !.features = features, !.browser = browser, !.loads = loads] :
        features \in {Unset} \cup SUBSET {[fact |-> fact] : fact \in Facts},
        browser \in {"present", "absent", "broken"}, loads \in BOOLEAN}
=============================================================================
