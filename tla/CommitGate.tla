------------------------------ MODULE CommitGate ------------------------------
(***************************************************************************)
(* The hooks of this repository (.githooks): what a commit and a push have *)
(* to pass.  pre-commit looks at what is staged (tools/guard.py, secret-   *)
(* scan.py) and at the generated documents and the style (precommit.py),   *)
(* commit-msg at the message, pre-push at the suite and at all of history  *)
(* (prepush.py, audit.py).  A clone starts with its hooks off, a command   *)
(* may be given an override, and a tool may be missing: what has got into  *)
(* the repository that way is there for the checks that come later.        *)
(***************************************************************************)
EXTENDS Naturals, FiniteSets, FiniteSetsExt

CONSTANTS
    Environments, \* the overrides and the tools a command may run with
    MaxEdits      \* bound on edits, new branches and changes of the hooks

ASSUME EditsAssumption == MaxEdits \in Nat

VARIABLES
    worktree, index, head, \* what each file holds, "absent" when there is none
    history,               \* the contents reachable from a ref
    blobs,                 \* the contents in the object store
    messages,              \* the commit messages reachable from a ref
    refs,                  \* the names of the branches
    branch,                \* the one that is checked out
    hooks,                 \* whether core.hooksPath is set, and what is executable
    gated,                 \* what the last command did, if the hooks let it
    edits

repo == <<worktree, index, head, history, blobs, messages, refs, branch, hooks>>
commitVars == <<repo, gated, edits>>

(* A source that feeds the catalogue, the catalogue rendered from it, and a  *)
(* file of a private site.  Red code passes neither the linter nor the suite.*)
Files == {"src", "catalog", "site"}
Contents == {"clean", "red", "token", "secret"}
Names == {"clean", "token"}
Leaks == {"token", "secret"}

Usual ==
    [override |-> "none", opskit |-> "complete", gitleaks |-> TRUE, ruff |-> TRUE,
     schema |-> TRUE, git |-> TRUE]
Changed(staged) == {f \in Files : staged[f] # head[f] /\ staged[f] # "absent"}
ContentsOf(tree) == {tree[f] : f \in Files} \ {"absent"}
Active == hooks.path /\ hooks.executable

CommitInit ==
    /\ worktree = [src |-> "clean", catalog |-> "clean", site |-> "absent"]
    /\ index = worktree /\ head = worktree
    /\ history = {"clean"} /\ blobs = {"clean"} /\ messages = {"clean"}
    /\ refs = {"clean"} /\ branch = "clean"
    /\ hooks \in [path : {FALSE}, executable : BOOLEAN]
    /\ gated = "none"
    /\ edits = 0

-----------------------------------------------------------------------------
Edit == edits < MaxEdits /\ edits' = edits + 1 /\ gated' = "none"
Free == edits' = edits /\ gated' = "none"

Write(f, content) ==
    /\ Edit
    /\ worktree[f] # content
    /\ worktree' = [worktree EXCEPT ![f] = content]
    /\ UNCHANGED <<index, head, history, blobs, messages, refs, branch, hooks>>

(* docgen.main without --check. *)
Generate ==
    /\ Free
    /\ worktree' = [worktree EXCEPT !.catalog = worktree.src]
    /\ UNCHANGED <<index, head, history, blobs, messages, refs, branch, hooks>>

(* git add, with -f for the private site, and git restore --staged. *)
Stage(f) ==
    /\ Free
    /\ index' = [index EXCEPT ![f] = worktree[f]]
    /\ blobs' = blobs \cup ({worktree[f]} \ {"absent"})
    /\ UNCHANGED <<worktree, head, history, messages, refs, branch, hooks>>
Unstage(f) ==
    /\ Free
    /\ index' = [index EXCEPT ![f] = head[f]]
    /\ UNCHANGED <<worktree, head, history, blobs, messages, refs, branch, hooks>>

NewBranch(name) ==
    /\ Edit
    /\ branch' = name
    /\ refs' = refs \cup {name}
    /\ UNCHANGED <<worktree, index, head, history, blobs, messages, hooks>>

(* History rewritten to one commit on one branch, and what it no longer      *)
(* reaches collected.                                                        *)
Squash ==
    /\ Free
    /\ history' = ContentsOf(head)
    /\ messages' = {"clean"}
    /\ refs' = {branch}
    /\ UNCHANGED <<worktree, index, head, blobs, branch, hooks>>
CollectGarbage ==
    /\ Free
    /\ blobs' = history \cup ContentsOf(index)
    /\ UNCHANGED <<worktree, index, head, history, messages, refs, branch, hooks>>

(* hooks.install: the path is compared resolved, and every hook is made      *)
(* executable, whether it was configured or not.                             *)
InstallHooks ==
    /\ Free
    /\ hooks' = [path |-> TRUE, executable |-> TRUE]
    /\ UNCHANGED <<worktree, index, head, history, blobs, messages, refs, branch>>
DisableHooks(to) ==
    /\ Edit
    /\ hooks' = to
    /\ UNCHANGED <<worktree, index, head, history, blobs, messages, refs, branch>>

-----------------------------------------------------------------------------
(* collect_tokens, of the guard and of the audit: none when the operations   *)
(* project is not there, or has none.                                        *)
TokensKnown(env) == env.opskit \in {"complete", "no guard"}

(* run_opskit_guard: it fails closed, but in a tree said to have no client   *)
(* data.  The delegated guard knows ALLOW_CLIENT_TOKENS.                     *)
OpskitGuard(texts, env) ==
    IF /\ env.override # "public only"
       /\ env.opskit # "complete" \/ ("token" \in texts /\ env.override # "tokens")
    THEN 1 ELSE 0

(* check_branch_name, check_site_isolation: a git that fails has nothing to  *)
(* show.                                                                     *)
BranchName(env) ==
    IF env.override \notin {"tokens", "public only"} /\ env.git /\ TokensKnown(env)
       /\ branch = "token" THEN 1 ELSE 0
SiteIsolation(staged, env) ==
    IF env.override # "sites" /\ env.git /\ "site" \in Changed(staged) THEN 1 ELSE 0

Guard(staged, env) ==
    Max({OpskitGuard({staged[f] : f \in Changed(staged)}, env),
         SiteIsolation(staged, env), BranchName(env)})
GuardMessage(message, env) == OpskitGuard({message}, env)

(* secretscan.main: what a missing gitleaks finds is 2. *)
SecretScan(texts, env) ==
    IF env.override = "gitleaks" THEN 0
    ELSE IF ~env.gitleaks THEN 2
    ELSE IF "secret" \in texts THEN 1 ELSE 0

(* docgen --check and ruff read the files of the worktree, when staged_paths *)
(* shows a source; schemagen --check compares two commit ids.                *)
StagedSource(staged, env) == env.git /\ "src" \in Changed(staged)
Docs(staged, env) ==
    IF StagedSource(staged, env) /\ worktree.catalog # worktree.src THEN 1 ELSE 0
Schema(env) == IF env.schema THEN 0 ELSE 1
Ruff(staged, env) ==
    IF StagedSource(staged, env) /\ (~env.ruff \/ worktree.src = "red") THEN 1 ELSE 0

(* precommit.main *)
PreCommit(staged, env) ==
    LET secrets == SecretScan({staged[f] : f \in Changed(staged)}, env) IN
    CASE Guard(staged, env) # 0 -> Guard(staged, env)
      [] Guard(staged, env) = 0 /\ secrets # 0 -> secrets
      [] OTHER -> IF env.override = "stale docs" THEN 0
                  ELSE Max({Docs(staged, env), Schema(env), Ruff(staged, env)})

(* git commit, of the index or of one file, which git stages in an index of  *)
(* its own for the hooks to look at.                                         *)
Commit(staged, message, env) ==
    /\ staged # head
    /\ Active => PreCommit(staged, env) = 0 /\ GuardMessage(message, env) = 0
    /\ head' = staged
    /\ index' = [f \in Files |-> IF staged = index THEN index[f]
                                 ELSE IF staged[f] # head[f] THEN staged[f] ELSE index[f]]
    /\ history' = history \cup ContentsOf(staged)
    /\ blobs' = blobs \cup ContentsOf(staged)
    /\ messages' = messages \cup {message}
    /\ gated' = IF Active /\ env = Usual THEN "commit" ELSE "none"
    /\ UNCHANGED <<worktree, refs, branch, hooks, edits>>

OneFile(f) == [head EXCEPT ![f] = worktree[f]]

(* run_suite, in the worktree. *)
Suite == IF worktree.src = "red" THEN 1 ELSE 0

(* A private site's files are ignored unless they are in the index. *)
Tracked == {worktree[f] : f \in {g \in Files : g # "site" \/ index[g] # "absent"}}

\* Mutant: the audit reads the last commit and not all of history.
AuditOfHead(env) ==
    IF \/ ~TokensKnown(env)
       \/ "token" \in Tracked \cup ContentsOf(head) \cup messages \cup refs
       \/ index.site # "absent"
    THEN 1 ELSE 0
(* audit: the tree, all messages, all blobs, whether a ref reaches them or   *)
(* not, and all refs.  A path of a private site is looked for in the index.  *)
(* A git that fails shows it none of that.                                   *)
Audit(env) ==
    IF \/ ~TokensKnown(env)
       \/ env.git /\ "token" \in Tracked \cup blobs \cup messages \cup refs
       \/ env.git /\ index.site # "absent"
    THEN 1 ELSE 0

(* prepush.main *)
PrePush(env) ==
    IF env.override = "audit" THEN 0
    ELSE IF Suite # 0 THEN 1
    ELSE IF SecretScan(history, env) # 0 THEN SecretScan(history, env)
    ELSE Audit(env)

Push(env) ==
    /\ Active => PrePush(env) = 0
    /\ gated' = IF Active /\ env = Usual THEN "push" ELSE "none"
    /\ UNCHANGED <<repo, edits>>

CommitNext ==
    \/ \E content \in Contents : Write("src", content) \/ Write("site", content)
    \/ Write("site", "absent")
    \/ \E f \in Files : Stage(f) \/ Unstage(f)
    \/ \E name \in Names : NewBranch(name)
    \/ \E to \in [path : BOOLEAN, executable : BOOLEAN] : DisableHooks(to)
    \/ Generate \/ Squash \/ CollectGarbage \/ InstallHooks
    \/ \E message \in Names, env \in Environments :
        \/ Commit(index, message, env)
        \/ \E f \in {g \in Files : index[g] # "absent"} : Commit(OneFile(f), message, env)
    \/ \E env \in Environments : Push(env)

-----------------------------------------------------------------------------
IsTree(tree) ==
    /\ DOMAIN tree = Files
    /\ \A f \in Files : tree[f] \in Contents \cup {"absent"}
(* What is committed is reachable, and what is reachable or staged is in the *)
(* object store.                                                             *)
CommitTypeOK ==
    /\ IsTree(worktree) /\ IsTree(index) /\ IsTree(head)
    /\ ContentsOf(head) \subseteq history
    /\ history \cup ContentsOf(index) \subseteq blobs
    /\ messages \subseteq Names /\ branch \in refs /\ refs \subseteq Names
    /\ hooks \in [path : BOOLEAN, executable : BOOLEAN]
    /\ gated \in {"none", "commit", "push"}
    /\ edits \in 0 .. MaxEdits

(* What the hooks let through without an override.  A commit adds no client  *)
(* token, no credential and no private path, under a neutral message and     *)
(* branch, whatever else is in the index; and its catalogue is current and   *)
(* its code clean when the worktree is what is committed (precommit main).   *)
CommitHolds ==
    gated' = "commit" =>
        /\ \A f \in Files :
            (head'[f] # head[f] /\ head'[f] # "absent") => head'[f] \notin Leaks /\ f # "site"
        /\ branch # "token"
        /\ messages' \ messages \subseteq {"clean"}
        /\ (worktree = head' /\ head'.src # head.src) =>
            head'.catalog = head'.src /\ head'.src # "red"

(* A push sends nothing that leaks, in no commit, message or branch name,    *)
(* whatever was committed with the hooks off or overridden before; and what  *)
(* it sends is green when the worktree is (prepush main).                    *)
PushHolds ==
    gated' = "push" =>
        /\ history \cap Leaks = {}
        /\ messages \cup refs \subseteq {"clean"}
        /\ worktree = head => head.src # "red"
        /\ index = head => head.site = "absent"

(* What the hooks let through without an override neither leaks nor is red   *)
(* (precommit.py, prepush.py), however the repository came to be as it is.   *)
GateHolds == [][CommitHolds /\ PushHolds]_commitVars
=============================================================================
