---------------------------- MODULE ProofLedger -----------------------------
(***************************************************************************)
(* What the gate ledger of one site promises, without files, commands or   *)
(* interruptions: an apply is recorded before its change can show, a       *)
(* change is called proved only on the strength of routes that have a      *)
(* reference and do not show it, and the reference is replaced only while  *)
(* nothing is open.  It does not promise that a proof looked at every      *)
(* route, or at any.  OptimizeGate implements this as long as nobody else  *)
(* works on the site or its host.                                          *)
(***************************************************************************)
EXTENDS Integers, Sequences

CONSTANTS Ids,     \* the names of changes
          Routes   \* where changes can show

VARIABLES
    entries,       \* sequence of [change, status, judged], oldest first
    shown,         \* shown[r]: the transforms' changes on route r now
    covered,       \* the routes that have a reference
    reference      \* reference[r]: the transforms' changes it shows there

vars == <<entries, shown, covered, reference>>

Status == {"pending", "proved", "waived"}

Changes(statuses) ==
    {entries[i].change : i \in {j \in DOMAIN entries : entries[j].status \in statuses}}

\* The changes called proved by a verdict that did not look at route r.
Unlooked(r) ==
    {entries[i].change : i \in {j \in DOMAIN entries :
        entries[j].status = "proved" /\ r \notin entries[j].judged}}

Init ==
    /\ entries = << >>
    /\ shown = [r \in Routes |-> {}]
    /\ covered = {}
    /\ reference = [r \in Routes |-> {}]

\* An apply announces itself under an id no entry has.
Record ==
    /\ \E id \in Ids \ Changes(Status) :
          entries' = Append(entries,
                            [change |-> id, status |-> "pending", judged |-> {}])
    /\ UNCHANGED <<shown, covered, reference>>

\* The host changes; what a route newly shows is open, or was waived, or was
\* called proved without a look at it.
Change ==
    /\ shown' \in [Routes -> SUBSET (Changes({"pending", "proved", "waived"})
                                      \cup UNION {shown[r] : r \in Routes})]
    /\ \A r \in Routes : shown'[r] \subseteq
          Changes({"pending", "waived"}) \cup Unlooked(r) \cup shown[r]
    /\ UNCHANGED <<entries, covered, reference>>

\* The routes looked at have a reference and show no open change: the open
\* changes are all proved.
Prove ==
    /\ \E routes \in SUBSET covered :
          /\ \A r \in routes : Changes({"pending"}) \cap shown[r] = {}
          /\ entries' = [i \in DOMAIN entries |->
                            IF entries[i].status = "pending"
                            THEN [entries[i] EXCEPT !.status = "proved",
                                                    !.judged = routes]
                            ELSE entries[i]]
    /\ UNCHANGED <<shown, covered, reference>>

\* The open changes are accepted as they are, on the record.
WaiveOpen ==
    /\ entries' = [i \in DOMAIN entries |->
                      IF entries[i].status = "pending"
                      THEN [entries[i] EXCEPT !.status = "waived"]
                      ELSE entries[i]]
    /\ UNCHANGED <<shown, covered, reference>>

\* The reference is taken anew, of some of the routes; it may be gone for a
\* while.
Rebaseline ==
    /\ Changes({"pending"}) = {}
    /\ covered' \in SUBSET Routes
    /\ reference' \in [Routes -> {reference[r] : r \in Routes}
                                 \cup {shown[r] : r \in Routes} \cup {{}}]
    /\ \A r \in Routes : reference'[r] \in {reference[r], shown[r], {}}
    /\ UNCHANGED <<entries, shown>>

Next == Record \/ Change \/ Prove \/ WaiveOpen \/ Rebaseline

Spec == Init /\ [][Next]_vars

=============================================================================
