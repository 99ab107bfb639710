------------------------------ MODULE TrapCheck ------------------------------
(***************************************************************************)
(* buildsmith check: the sandbox and the simulator against the pinned      *)
(* Builder.  tools/check_traps.py puts fixtures into the shared sandbox,   *)
(* looks at them through a browser and as an anonymous visitor, and takes  *)
(* them away; tools/check_simulate.py asks Builder and the simulator the   *)
(* same questions; tools/check_roundtrip.py authors a page on one site and *)
(* looks for it on a second one.  A run may be killed anywhere, and what   *)
(* it has left in the sandbox is there for the next.                       *)
(***************************************************************************)
EXTENDS Naturals, FiniteSets, FiniteSetsExt

CONSTANTS
    Builders,  \* the pins there may be: the sets of claims that hold at one
    PageNames, \* the names Builder gives to the page of the round trip
    None

VARIABLES
    builder,  \* the claims that hold at the pin
    fixtures, \* what check_traps has in the sandbox: "map", "doctype", its table, pages
    owed,     \* the checks cut short, or told so, since their last teardown
    exported, \* the pages in builder_files/ of the bench
    second,   \* the second site: whether it is there, works, and its pages
    what,     \* the argument of the run
    at,       \* the step it has come to
    results,  \* what check_traps has found so far, for each of its checks
    outcome,  \* what the check under way is to report after its teardown
    worst,    \* the largest exit code of the runners so far
    strays,   \* the routes that have answered an error that is not the trap's
    exit      \* the exit code, None while the run goes on or once it is killed

bench == <<builder, fixtures, owed, exported, second>>
run == <<what, at, results, outcome, worst, strays, exit>>
trapsVars == <<bench, run>>

(* The script in the bench, the editor's iframe, get_all and get_list for an *)
(* anonymous visitor, the simulator's scenarios, and the import of a page.   *)
Claims == {"bench", "iframe", "open", "shut", "scenarios", "import"}
ClaimsOf ==
    [bench |-> {"bench"}, map |-> {"iframe"}, list |-> {"open", "shut"},
     traps |-> {"bench", "iframe", "open", "shut"}, simulate |-> {"scenarios"},
     roundtrip |-> {"import"}, all |-> Claims]
Checks == {"bench", "map", "list"}
Runners == {"traps", "simulate", "roundtrip"}
Routes == {"fixed", "broken"}
MapSteps == {"map", "editor", "mapDown"}
ListSteps == {"list", "caches", "fetchFixed", "fetchBroken", "listDown"} \cup Routes
Tabled == {"doctype", "table"}
FirstStep == [traps |-> "bench", simulate |-> "simulate", roundtrip |-> "clean", all |-> "bench"]

ASSUME TrapsAssumption ==
    /\ Builders # {} /\ \A b \in Builders : b \subseteq Claims
    /\ None \notin 0 .. 2
    /\ {None, "pass", "fail", "unchecked"} \cap PageNames = {}
    /\ None \notin {"pass", "fail", "unchecked", "all"} \cup Runners

TrapsInit ==
    /\ builder \in Builders
    /\ fixtures = {} /\ owed = {} /\ exported = {}
    /\ second = [there |-> FALSE, works |-> FALSE, pages |-> {}]
    /\ what = None /\ at = "idle" /\ results = [check \in Checks |-> None]
    /\ outcome = None /\ worst = 0 /\ strays = {} /\ exit = None

Repin ==
    /\ at = "idle"
    /\ builder' \in Builders
    /\ exit' = None
    /\ UNCHANGED <<fixtures, owed, exported, second, what, at, results, outcome, worst, strays>>

(* cmd_check: one runner, or all of them in turn, their codes joined by max. *)
Start(arg) ==
    /\ at = "idle"
    /\ what' = arg
    /\ at' = FirstStep[arg]
    /\ results' = [check \in Checks |-> None]
    /\ outcome' = None /\ worst' = 0 /\ strays' = {} /\ exit' = None
    /\ UNCHANGED bench

\* Mutant: the code is given out before the other runners have run.
FinishEach(runner, code) ==
    /\ worst' = Max({worst, code})
    /\ exit' = worst'
    /\ CASE what = "all" /\ runner = "traps" -> at' = "simulate"
         [] what = "all" /\ runner = "simulate" -> at' = "clean"
         [] OTHER -> at' = "idle"
Finish(runner, code) ==
    /\ worst' = Max({worst, code})
    /\ CASE what = "all" /\ runner = "traps" -> at' = "simulate" /\ exit' = None
         [] what = "all" /\ runner = "simulate" -> at' = "clean" /\ exit' = None
         [] OTHER -> at' = "idle" /\ exit' = worst'

(* An exception that nothing catches, or a SystemExit with a message. *)
Throw ==
    /\ at' = "idle"
    /\ exit' = 1
    /\ UNCHANGED worst

(* A script that runs in the bench when the process is killed may still be   *)
(* carried out there.  Dropping a table commits what came before it.         *)
Scripted ==
    CASE at = "map" -> {fixtures, fixtures \cup {"map"}}
      [] at = "list" -> {(fixtures \ Tabled) \cup left : left \in SUBSET Tabled}
      [] at \in Routes -> {fixtures, fixtures \cup {at}}
      [] at = "mapDown" -> {fixtures, fixtures \ {"map"}}
      [] at = "listDown" -> {fixtures, fixtures \ ({"doctype"} \cup Routes)}
      [] OTHER -> {fixtures}
Kill ==
    /\ at # "idle"
    /\ fixtures' \in Scripted
    /\ owed' = owed \cup (IF at \in MapSteps THEN {"map"} ELSE {})
                   \cup (IF at \in ListSteps THEN {"list"} ELSE {})
    /\ at' = "idle"
    /\ exit' = None
    /\ UNCHANGED <<builder, exported, second, what, results, outcome, worst, strays>>

(* require_running, any_pending. *)
Refuse ==
    /\ at \in {"bench", "simulate", "clean"}
    /\ Throw
    /\ UNCHANGED <<bench, what, results, outcome, strays>>

-----------------------------------------------------------------------------
TrapsCode(found) ==
    CASE \E check \in Checks : found[check] = "fail" -> 1
      [] /\ \A check \in Checks : found[check] # "fail"
         /\ \E check \in Checks : found[check] = "unchecked" -> 2
      [] OTHER -> 0

(* main, when one of its checks has returned or raised. *)
Record(check, found) ==
    /\ results' = [results EXCEPT ![check] = found]
    /\ IF check = "list" THEN Finish("traps", TrapsCode(results'))
       ELSE at' = "list" /\ UNCHANGED <<worst, exit>>

(* The bench script ends with an error when a trap is not reproduced. *)
BenchTraps(runs) ==
    /\ at = "bench"
    /\ results' = [results EXCEPT !.bench = IF runs /\ "bench" \in builder THEN "pass" ELSE "fail"]
    /\ IF results'.bench = "pass" THEN at' = "map" /\ UNCHANGED <<worst, exit>>
       ELSE Finish("traps", 1)
    /\ UNCHANGED <<bench, what, outcome, strays>>

(* The site is not local, the web server does not answer, or there is no     *)
(* playwright.                                                               *)
RefuseMap ==
    /\ at = "map"
    /\ Record("map", "unchecked")
    /\ UNCHANGED <<bench, what, outcome, strays>>

(* _SETUP commits once, after it has deleted what an earlier run left. *)
SetUpMap(runs) ==
    /\ at = "map"
    /\ IF runs THEN fixtures' = fixtures \cup {"map"} /\ at' = "editor" /\ UNCHANGED outcome
       ELSE at' = "mapDown" /\ outcome' = "fail" /\ UNCHANGED fixtures
    /\ UNCHANGED <<builder, owed, exported, second, what, results, worst, strays, exit>>

(* No browser and no login are unchecked, any other error is a failure. *)
OpenEditor(found) ==
    /\ at = "editor"
    /\ found = "pass" => "iframe" \in builder
    /\ outcome' = found
    /\ at' = "mapDown"
    /\ UNCHANGED <<bench, what, results, worst, strays, exit>>

\* Mutant: the fixture stays when the check could not be made.
TearDownMapIfChecked(runs) ==
    /\ at = "mapDown"
    /\ fixtures' = IF runs /\ outcome # "unchecked" THEN fixtures \ {"map"} ELSE fixtures
    /\ owed' = IF runs THEN owed \ {"map"} ELSE owed \cup {"map"}
    /\ Record("map", outcome)
    /\ UNCHANGED <<builder, exported, second, what, outcome, strays>>

(* _teardown: that it failed is a warning on the screen. *)
TearDownMap(runs) ==
    /\ at = "mapDown"
    /\ fixtures' = IF runs THEN fixtures \ {"map"} ELSE fixtures
    /\ owed' = IF runs THEN owed \ {"map"} ELSE owed \cup {"map"}
    /\ Record("map", outcome)
    /\ UNCHANGED <<builder, exported, second, what, outcome, strays>>

-----------------------------------------------------------------------------
RefuseList ==
    /\ at = "list"
    /\ Record("list", "unchecked")
    /\ UNCHANGED <<bench, what, outcome, strays>>

(* From here on teardown follows, whatever is raised. *)
Abandon(found) == at' = "listDown" /\ outcome' = found

(* Deleting a DocType leaves its table, so the table is dropped here.  When  *)
(* the script fails it has come so far.                                      *)
SetUpDoctype(runs, serverScripts) ==
    /\ at = "list"
    /\ \E left \in IF runs THEN {Tabled} ELSE SUBSET Tabled :
          fixtures' = (fixtures \ Tabled) \cup left
    /\ CASE ~runs -> Abandon("fail")
         [] runs /\ serverScripts -> Abandon("unchecked")
         [] OTHER -> at' = "fixed" /\ outcome' = "pass"
    /\ UNCHANGED <<builder, owed, exported, second, what, results, worst, strays, exit>>

SetUpPage(runs) ==
    /\ at \in Routes
    /\ IF runs THEN /\ fixtures' = fixtures \cup {at}
                    /\ at' = IF at = "fixed" THEN "broken" ELSE "caches"
                    /\ UNCHANGED outcome
       ELSE Abandon("fail") /\ UNCHANGED fixtures
    /\ UNCHANGED <<builder, owed, exported, second, what, results, worst, strays, exit>>

(* _clear_caches: that a command failed is printed, that it hung is raised. *)
ClearCaches(hangs) ==
    /\ at = "caches"
    /\ IF hangs THEN Abandon("fail") ELSE at' = "fetchFixed" /\ UNCHANGED outcome
    /\ UNCHANGED <<bench, what, results, worst, strays, exit>>

(* Whether a page is answered with 200 and its items.  Any may answer with an*)
(* error instead: a stale 403 at a route that was used before (TRAP-015), a  *)
(* server that is overloaded, a worker that died.                            *)
Answers(route) == {FALSE, IF route = "fixed" THEN "open" \in builder ELSE "shut" \notin builder}

Fetch(found) ==
    /\ IF found THEN UNCHANGED outcome ELSE outcome' = "fail"
    /\ UNCHANGED <<bench, what, results, worst, exit>>
FetchFixed(ok) ==
    /\ at = "fetchFixed"
    /\ ok \in Answers("fixed")
    /\ at' = "fetchBroken"
    /\ Fetch(ok)
    /\ UNCHANGED strays
\* Mutant: that the broken script answers is printed, and counts for nothing.
FetchBrokenPrinted(ok) ==
    /\ at = "fetchBroken"
    /\ ok \in Answers("broken")
    /\ at' = "listDown"
    /\ strays' = IF ~ok /\ "shut" \notin builder THEN {"broken"} ELSE strays
    /\ Fetch(TRUE)
(* The script that must not reach a visitor: any answer but 200 passes. *)
FetchBroken(ok) ==
    /\ at = "fetchBroken"
    /\ ok \in Answers("broken")
    /\ at' = "listDown"
    /\ strays' = IF ~ok /\ "shut" \notin builder THEN {"broken"} ELSE strays
    /\ Fetch(~ok)
FetchFails ==
    /\ at \in {"fetchFixed", "fetchBroken"}
    /\ Abandon("fail")
    /\ UNCHANGED <<bench, what, results, worst, strays, exit>>

(* _020_TEARDOWN deletes the pages and the DocType; the table stays. *)
TearDownList(runs) ==
    /\ at = "listDown"
    /\ fixtures' = IF runs THEN fixtures \cap {"map", "table"} ELSE fixtures
    /\ owed' = IF runs THEN owed \ {"list"} ELSE owed \cup {"list"}
    /\ Record("list", outcome)
    /\ UNCHANGED <<builder, exported, second, what, outcome, strays>>

-----------------------------------------------------------------------------
(* check_simulate.main: seven scenarios, predicted and rendered. *)
CheckSimulate(runs) ==
    /\ at = "simulate"
    /\ IF runs THEN Finish("simulate", IF "scenarios" \in builder THEN 0 ELSE 1) ELSE Throw
    /\ UNCHANGED <<bench, what, results, outcome, strays>>

(* check_roundtrip.main, step 0: the script that clears the second site      *)
(* swallows its errors.                                                      *)
CleanSlate(removes, clears) ==
    /\ at = "clean"
    /\ exported' = IF removes THEN {} ELSE exported
    /\ second' = IF removes /\ clears THEN [second EXCEPT !.pages = {}] ELSE second
    /\ IF removes THEN at' = "author" /\ UNCHANGED <<worst, exit>> ELSE Throw
    /\ UNCHANGED <<builder, fixtures, owed, what, results, outcome, strays>>

(* Steps 1 and 2; on_update exports the page, under a name nobody chooses. *)
Author(name) ==
    /\ at = "author"
    /\ name \notin exported \cup second.pages
    /\ exported' = exported \cup {name}
    /\ at' = "sync"
    /\ outcome' = name
    /\ UNCHANGED <<builder, fixtures, owed, second, what, results, worst, strays, exit>>

(* Step 3: the site is made and Builder installed, or it is migrated; a site *)
(* that was left half-made is taken for one that is there.                   *)
Sync(runs) ==
    /\ at = "sync"
    /\ second' =
        [there |-> TRUE, works |-> IF second.there THEN second.works ELSE runs,
         pages |-> IF runs /\ (second.works \/ ~second.there) /\ "import" \in builder
                   THEN second.pages \cup exported ELSE second.pages]
    /\ IF runs THEN at' = "verify" /\ UNCHANGED <<worst, exit>> ELSE Throw
    /\ UNCHANGED <<builder, fixtures, owed, exported, what, results, outcome, strays>>

(* Step 4: one page, and it is the one that was authored. *)
VerifyImport ==
    /\ at = "verify"
    /\ IF second.works THEN Finish("roundtrip", IF second.pages = {outcome} THEN 0 ELSE 1)
       ELSE Throw
    /\ UNCHANGED <<bench, what, results, outcome, strays>>

TrapsNext ==
    \/ Repin \/ Kill \/ Refuse \/ RefuseMap \/ RefuseList \/ FetchFails \/ VerifyImport
    \/ \E arg \in Runners \cup {"all"} : Start(arg)
    \/ \E runs \in BOOLEAN :
        \/ BenchTraps(runs) \/ SetUpMap(runs) \/ TearDownMap(runs)
        \/ SetUpPage(runs) \/ TearDownList(runs)
        \/ CheckSimulate(runs) \/ Sync(runs)
    \/ \E found \in {"pass", "fail", "unchecked"} : OpenEditor(found)
    \/ \E runs, other \in BOOLEAN : SetUpDoctype(runs, other) \/ CleanSlate(runs, other)
    \/ \E ok \in BOOLEAN : ClearCaches(ok) \/ FetchFixed(ok) \/ FetchBroken(ok)
    \/ \E name \in PageNames : Author(name)

-----------------------------------------------------------------------------
TrapsTypeOK ==
    /\ builder \in Builders
    /\ fixtures \subseteq {"map"} \cup Tabled \cup Routes
    /\ owed \subseteq {"map", "list"}
    /\ exported \subseteq PageNames /\ Cardinality(exported) <= 1
    /\ second.pages \subseteq PageNames /\ (second.pages # {} => second.works)
    /\ second.works => second.there
    /\ what \in Runners \cup {None, "all"}
    /\ results \in [Checks -> {None, "pass", "fail", "unchecked"}]
    /\ outcome \in {None, "pass", "fail", "unchecked"} \cup PageNames
    /\ strays \subseteq {"broken"}
    /\ exit \in {None} \cup 0 .. 2 /\ (exit # None => at = "idle")

(* "Could not check" never reads as fine: exit 0 says that every claim of    *)
(* what was run holds, and exit 2 of check traps that those do which could   *)
(* be checked, whatever earlier runs have left in the sandbox (check_traps   *)
(* main).  One claim is only as good as the error it is told by: that the    *)
(* broken page is refused is not proved when it fails for another reason.    *)
Told(claims) == claims \ (IF "broken" \in strays THEN {"shut"} ELSE {})
TrapsVerdictIsTrue ==
    /\ exit = 0 => Told(ClaimsOf[what]) \subseteq builder
    /\ (exit = 2 /\ what = "traps") =>
        \A check \in Checks : results[check] # "unchecked" => Told(ClaimsOf[check]) \subseteq builder

(* Between two runs a fixture of a check is in the sandbox only when a run   *)
(* was killed on that check, or could not take it away and said so, and no   *)
(* later run has come to its teardown: that one takes away what the others   *)
(* left, too (check_traps, _teardown and _teardown_020 in finally).  The     *)
(* table of the DocType is what stays, until a setup drops it.               *)
FixturesOf == [map |-> {"map"}, list |-> {"doctype"} \cup Routes]
FixturesRemoved ==
    at = "idle" => \A check \in {"map", "list"} \ owed : fixtures \cap FixturesOf[check] = {}
=============================================================================
