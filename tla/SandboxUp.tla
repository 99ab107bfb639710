----------------------------- MODULE SandboxUp -----------------------------
(***************************************************************************)
(* `buildsmith sandbox up`: a chain of stages that bring the bench to the  *)
(* commits pinned in sandbox/pins.env, each of which looks whether it      *)
(* already ran; and the run ending between any two of them.  `destroy`     *)
(* removes everything, people move the pins.                               *)
(*                                                                         *)
(* A command inside the container does all of its work or none of it: what *)
(* up's own second try at `bench new-site` takes for granted.              *)
(***************************************************************************)
EXTENDS Integers

CONSTANTS Commits,     \* commits of frappe and of Builder
          Absent,      \* what is not there
          MaxMoves     \* bound: pins moved and sandboxes destroyed

ASSUME SandboxAssumption ==
    /\ Commits # {} /\ Absent \notin Commits
    /\ MaxMoves \in Nat

VARIABLES
    pins,        \* pins.env: [frappe, builder]
    frappe,      \* the commit of apps/frappe
    python,      \* the frappe commit whose requirements are installed
    builder,     \* the commit of apps/builder
    assets,      \* the Builder commit whose assets are built
    site,        \* whether the site exists
    installed,   \* whether Builder is installed on it
    schema,      \* the commits its schema was migrated to
    pc,          \* the stage of the running `up`
    wanted,      \* the pins it read
    moves        \* how often people changed something

bench == <<frappe, python, builder, assets, site, installed, schema>>
upVars == <<pins, bench, pc, wanted, moves>>

Pins == [frappe: Commits, builder: Commits]

Stages == {"init", "frappe", "requirements", "builder", "pin", "build",
           "site", "install", "migrate", "settings"}

Running == pc \in Stages

UpInit ==
    /\ pins \in Pins
    /\ frappe = Absent /\ python = Absent /\ builder = Absent /\ assets = Absent
    /\ site = FALSE /\ installed = FALSE /\ schema = Absent
    /\ pc = "idle"
    /\ wanted = pins
    /\ moves = 0

---------------------------------------------------------------------------

MovePins ==
    /\ moves < MaxMoves
    /\ moves' = moves + 1
    /\ pins' \in Pins
    /\ UNCHANGED <<bench, pc, wanted>>

Destroy ==
    /\ ~Running
    /\ moves < MaxMoves
    /\ moves' = moves + 1
    /\ frappe' = Absent /\ python' = Absent /\ builder' = Absent /\ assets' = Absent
    /\ site' = FALSE /\ installed' = FALSE /\ schema' = Absent
    /\ pc' = "idle"
    /\ UNCHANGED <<pins, wanted>>

Start ==
    /\ ~Running
    /\ pc' = "init"
    /\ wanted' = pins
    /\ UNCHANGED <<pins, bench, moves>>

\* The stage is over; the next one is n.
Stage(s, n) ==
    /\ pc = s
    /\ pc' = n
    /\ UNCHANGED <<pins, wanted, moves>>

\* Mutant of InitBench: it does not look whether it already ran, and bench
\* init refuses a directory that is there.
InitAlways ==
    /\ frappe = Absent
    /\ Stage("init", "frappe")
    /\ frappe' \in Commits
    /\ python' = frappe'
    /\ UNCHANGED <<builder, assets, site, installed, schema>>

\* bench init, unless apps/frappe is there: the branch's head and what it
\* requires.
InitBench ==
    /\ Stage("init", "frappe")
    /\ IF frappe = Absent
       THEN /\ frappe' \in Commits
            /\ python' = frappe'
       ELSE UNCHANGED <<frappe, python>>
    /\ UNCHANGED <<builder, assets, site, installed, schema>>

\* _pin_app moves the checkout; only then are the requirements set up.
PinFrappe ==
    /\ frappe # wanted.frappe
    /\ Stage("frappe", "requirements")
    /\ frappe' = wanted.frappe
    /\ UNCHANGED <<python, builder, assets, site, installed, schema>>

Requirements ==
    /\ Stage("requirements", "builder")
    /\ python' = frappe
    /\ UNCHANGED <<frappe, builder, assets, site, installed, schema>>

FrappeIsPinned ==
    /\ frappe = wanted.frappe
    /\ Stage("frappe", "builder")
    /\ UNCHANGED bench

\* Mutant of GetBuilder: what get-app fetched is taken for the pin.
GetHead ==
    /\ builder = Absent
    /\ Stage("builder", "site")
    /\ builder' \in Commits
    /\ assets' = builder'
    /\ UNCHANGED <<frappe, python, site, installed, schema>>

\* bench get-app, when apps/builder is not there: the branch's head, built.
GetBuilder ==
    /\ builder = Absent
    /\ Stage("builder", "pin")
    /\ builder' \in Commits
    /\ assets' = builder'
    /\ UNCHANGED <<frappe, python, site, installed, schema>>

BuilderMoved ==
    /\ builder \notin {Absent, wanted.builder}
    /\ Stage("builder", "pin")
    /\ UNCHANGED bench

BuilderIsPinned ==
    /\ builder = wanted.builder
    /\ Stage("builder", "site")
    /\ UNCHANGED bench

\* _pin_app; that the assets are out of date is known to this run only.
PinBuilder ==
    /\ Stage("pin", "build")
    /\ builder' = wanted.builder
    /\ UNCHANGED <<frappe, python, assets, site, installed, schema>>

Build ==
    /\ Stage("build", "site")
    /\ assets' = builder
    /\ UNCHANGED <<frappe, python, builder, site, installed, schema>>

NewSite ==
    /\ Stage("site", "install")
    /\ site' = TRUE
    /\ UNCHANGED <<frappe, python, builder, assets, installed, schema>>

Install ==
    /\ Stage("install", "migrate")
    /\ installed' = TRUE
    /\ UNCHANGED <<frappe, python, builder, assets, site, schema>>

\* Mutant of Migrate: a schema that exists is left alone.
MigrateNewSite ==
    /\ Stage("migrate", "settings")
    /\ schema' = IF schema = Absent
                 THEN [frappe |-> frappe, builder |-> builder] ELSE schema
    /\ UNCHANGED <<frappe, python, builder, assets, site, installed>>

\* Unconditionally, not "if the pin moved this run".
Migrate ==
    /\ Stage("migrate", "settings")
    /\ schema' = [frappe |-> frappe, builder |-> builder]
    /\ UNCHANGED <<frappe, python, builder, assets, site, installed>>

\* developer_mode and the time zone; then "Sandbox ready".
Settings ==
    /\ Stage("settings", "ready")
    /\ UNCHANGED bench

\* A stage raises SandboxError, or somebody stops the command.
Fail ==
    /\ Running
    /\ pc' = "idle"
    /\ UNCHANGED <<pins, bench, wanted, moves>>

Up ==
    \/ InitBench \/ PinFrappe \/ Requirements \/ FrappeIsPinned
    \/ GetBuilder \/ BuilderMoved \/ BuilderIsPinned \/ PinBuilder \/ Build
    \/ NewSite \/ Install \/ Migrate \/ Settings

UpNext == MovePins \/ Destroy \/ Start \/ Up \/ Fail

UpSpec == UpInit /\ [][UpNext]_upVars

\* The operator invokes `up` again when it stopped, a stage under way comes
\* to its end, and in the long run the network holds.
FairSpec == UpSpec /\ WF_upVars(Start) /\ WF_upVars(Up) /\ <>[][~Fail]_upVars

---------------------------------------------------------------------------

UpTypeOK ==
    /\ pins \in Pins /\ wanted \in Pins
    /\ frappe \in Commits \cup {Absent} /\ python \in Commits \cup {Absent}
    /\ builder \in Commits \cup {Absent} /\ assets \in Commits \cup {Absent}
    /\ site \in BOOLEAN /\ installed \in BOOLEAN
    /\ schema \in Pins \cup {Absent}
    /\ pc \in Stages \cup {"idle", "ready"}
    /\ moves \in 0..MaxMoves

\* "Sandbox ready" is only printed of a bench at the pins the run read, with
\* Builder installed on a site whose schema is theirs, whatever earlier runs
\* left behind ("The sandbox would be testing something other than what it
\* claims", _verify_app; "leaving the schema stale with nothing to notice
\* it", up).
ReadyMeansPinned ==
    pc = "ready" =>
        /\ frappe = wanted.frappe /\ builder = wanted.builder
        /\ site /\ installed
        /\ schema = wanted

\* Whatever the runs that failed left behind, `up` reaches the pins of the
\* day as soon as nothing stops it: "a re-invocation after a network failure
\* picks up rather than starting over" (module docstring).
PicksUp == []<>(pc = "ready" /\ wanted = pins)

\* What the earlier stages have established by the time a later one runs.
PinnedSoFar ==
    /\ pc \in Stages \ {"init", "frappe"} => frappe = wanted.frappe
    /\ pc \in {"build", "site", "install", "migrate", "settings"} =>
          builder = wanted.builder
    /\ pc \in {"install", "migrate", "settings"} => site
    /\ pc \in {"migrate", "settings"} => installed
    /\ pc = "settings" => schema = wanted

UpIInv == UpTypeOK /\ PinnedSoFar /\ ReadyMeansPinned

=============================================================================
