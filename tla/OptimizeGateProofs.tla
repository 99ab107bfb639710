------------------------- MODULE OptimizeGateProofs -------------------------
(***************************************************************************)
(* Theorems about OptimizeGate, for every set of operators, sites, hosts   *)
(* and transforms and every bound on changes, as long as commands are      *)
(* Disciplined: nobody else works on the site or the host of a command,    *)
(* and a baseline is shot from the host it is read from.                   *)
(***************************************************************************)
EXTENDS OptimizeGate, SequenceTheorems, TLAPS

---------------------------------------------------------------------------
(* Lemmas about the operators the model is built from.                     *)

\* Marking the open entries with a verdict keeps every entry's identity and
\* touches nothing that was decided.
LEMMA MarkLemma ==
    ASSUME NEW e \in Seq(Entry), NEW v \in {"ok", "failed"},
           NEW routes \in SUBSET Routes
    PROVE  /\ Mark(e, v, routes) \in Seq(Entry)
           /\ Len(Mark(e, v, routes)) = Len(e)
           /\ DOMAIN Mark(e, v, routes) = DOMAIN e
           /\ \A i \in DOMAIN e :
                 /\ OnlyAnnotated(e[i], Mark(e, v, routes)[i])
                 /\ IsPending(e[i]) /\ v = "ok" =>
                       /\ StatusOf(Mark(e, v, routes)[i]) = "proved"
                       /\ Mark(e, v, routes)[i].judged = routes
                 /\ IsPending(e[i]) /\ v = "failed" => IsPending(Mark(e, v, routes)[i])
                 /\ v = "failed" => Mark(e, v, routes)[i].judged = e[i].judged
<1> DEFINE m == Mark(e, v, routes)
           n == Len(e)
<1>1. n \in Nat /\ DOMAIN e = 1..n /\ e \in [1..n -> Entry]
  BY LenProperties
<1>2. \A i \in 1..n : m[i] \in Entry
  BY <1>1 DEF Mark, Entry
<1>3. m = [i \in 1..n |-> m[i]] /\ DOMAIN m = 1..n
  BY <1>1 DEF Mark
<1>4. m \in [1..n -> Entry]
  BY <1>2, <1>3
<1>5. m \in Seq(Entry)
  BY <1>1, <1>4, SeqDef
<1>6. Len(m) = n
  BY <1>1, <1>3, <1>5, LenProperties
<1>7. \A i \in DOMAIN e :
         /\ OnlyAnnotated(e[i], m[i])
         /\ IsPending(e[i]) /\ v = "ok" => StatusOf(m[i]) = "proved" /\ m[i].judged = routes
         /\ IsPending(e[i]) /\ v = "failed" => IsPending(m[i])
         /\ v = "failed" => m[i].judged = e[i].judged
  BY <1>1 DEF Mark, Entry, OnlyAnnotated, StatusOf, IsPending
<1>8. QED
  BY <1>1, <1>3, <1>5, <1>6, <1>7

\* Waiving the open entries keeps every entry's identity, touches nothing
\* that was decided and leaves no entry open.
LEMMA WaiveLemma ==
    ASSUME NEW e \in Seq(Entry)
    PROVE  /\ Waive(e) \in Seq(Entry)
           /\ Len(Waive(e)) = Len(e)
           /\ DOMAIN Waive(e) = DOMAIN e
           /\ \A i \in DOMAIN e :
                 /\ OnlyAnnotated(e[i], Waive(e)[i])
                 /\ IsPending(e[i]) => StatusOf(Waive(e)[i]) = "waived"
           /\ ~Pending(Waive(e))
<1> DEFINE m == Waive(e)
           n == Len(e)
<1>1. n \in Nat /\ DOMAIN e = 1..n /\ e \in [1..n -> Entry]
  BY LenProperties
<1>2. \A i \in 1..n : m[i] \in Entry
  BY <1>1 DEF Waive, Entry
<1>3. m = [i \in 1..n |-> m[i]] /\ DOMAIN m = 1..n
  BY <1>1 DEF Waive
<1>4. m \in [1..n -> Entry]
  BY <1>2, <1>3
<1>5. m \in Seq(Entry)
  BY <1>1, <1>4, SeqDef
<1>6. Len(m) = n
  BY <1>1, <1>3, <1>5, LenProperties
<1>7. \A i \in DOMAIN e :
         /\ OnlyAnnotated(e[i], m[i])
         /\ IsPending(e[i]) => StatusOf(m[i]) = "waived"
         /\ ~IsPending(m[i])
  BY <1>1 DEF Waive, Entry, OnlyAnnotated, StatusOf, IsPending
<1>8. QED
  BY <1>1, <1>3, <1>5, <1>6, <1>7 DEF Pending

\* The three states of an entry, in terms of its two flags.
LEMMA StatusLemma ==
    ASSUME NEW e \in Entry
    PROVE  /\ StatusOf(e) \in {"pending", "proved", "waived"}
           /\ IsPending(e) <=> StatusOf(e) = "pending"
BY DEF StatusOf, IsPending, Entry

\* A command that starts, or has ended, has well-typed locals.
LEMMA FreshLemma ==
    ASSUME NEW c \in Commands
    PROVE  Fresh(c) \in Job /\ Fresh(c).cmd = c
BY EmptySeq DEF Fresh, Job

\* Assigning one local variable of a command leaves the others alone.
LEMMA UpdateLemma ==
    ASSUME NEW j \in Job
    PROVE  /\ \A v \in Seq(Entry) :
                 [j EXCEPT !.snap = v] \in Job /\ [j EXCEPT !.snap = v].cmd = j.cmd
           /\ \A v \in SUBSET Change :
                 /\ [j EXCEPT !.seen = v] \in Job /\ [j EXCEPT !.seen = v].cmd = j.cmd
                 /\ [j EXCEPT !.src = v] \in Job /\ [j EXCEPT !.src = v].cmd = j.cmd
           /\ \A v \in BOOLEAN :
                 /\ [j EXCEPT !.ok = v] \in Job /\ [j EXCEPT !.ok = v].cmd = j.cmd
                 /\ [j EXCEPT !.settles = v] \in Job
                 /\ [j EXCEPT !.settles = v].cmd = j.cmd
           /\ \A v \in SUBSET Routes :
                 [j EXCEPT !.routes = v] \in Job /\ [j EXCEPT !.routes = v].cmd = j.cmd
           /\ \A v \in BOOLEAN, w \in SUBSET Routes :
                 /\ [j EXCEPT !.ok = v, !.routes = w] \in Job
                 /\ [j EXCEPT !.ok = v, !.routes = w].cmd = j.cmd
           /\ \A n \in Nat :
                 /\ [j EXCEPT !.id = n, !.snap = << >>] \in Job
                 /\ [j EXCEPT !.id = n, !.snap = << >>].cmd = j.cmd
BY EmptySeq DEF Job

---------------------------------------------------------------------------
(* Type correctness, with what the locals of a command are known to be.    *)

\* The command an operator runs names a site, and one host.
LEMMA CommandType ==
    ASSUME TypeOK, NEW o \in Ops
    PROVE  /\ job[o] \in Job
           /\ job[o].cmd \in Commands /\ job[o].cmd.op = o
           /\ Site(o) = job[o].cmd.site /\ Site(o) \in Sites
           /\ job[o].cmd.target \in Targets /\ job[o].cmd.clone \in Targets
BY ConstantsAssumption DEF TypeOK, Job, Site

\* An entry of the ledger is one.
LEMMA EntryType ==
    ASSUME TypeOK, NEW s \in Sites, NEW i \in DOMAIN ledger[s]
    PROVE  ledger[s][i] \in Entry
<1>1. ledger[s] \in Seq(Entry)
  BY DEF TypeOK
<1>2. QED
  BY <1>1, LenProperties, ElementOfSeq

\* Two operators never work on the same site or the same host.
LEMMA Exclusive ==
    ASSUME Disciplined, TypeOK, NEW o \in Ops, NEW p \in Ops, o # p
    PROVE  /\ Site(o) # Site(p)
           /\ job[o].cmd.target # job[p].cmd.target
BY CommandType DEF Disciplined

\* Giving one operator new locals of the right type keeps all of them so.
LEMMA LocalsType ==
    ASSUME TypeOK, NEW o \in Ops, NEW j \in Job, j.cmd.op = o,
           job' = [job EXCEPT ![o] = j]
    PROVE  job' \in [Ops -> Job] /\ \A p \in Ops : job'[p].cmd.op = p
BY DEF TypeOK

LEMMA TypeInit == Init => TypeOK
<1> SUFFICES ASSUME Init PROVE TypeOK
  OBVIOUS
<1>1. job \in [Ops -> Job] /\ \A o \in Ops : job[o].cmd.op = o
  BY FreshLemma DEF Init
<1>2. ledger \in [Sites -> Seq(Entry)]
  BY EmptySeq DEF Init
<1>3. NoShot \in Shot
  BY DEF NoShot, Shot
<1>4. QED
  BY <1>1, <1>2, <1>3, ConstantsAssumption DEF Init, TypeOK, PCs

LEMMA TypeStep ==
    ASSUME TypeOK, BaselineInv, JobInv, [Next]_vars
    PROVE  TypeOK'
<1> USE DEF Goto, At, artifacts, PCs
<1>1. ASSUME NEW t \in Targets, Edit(t)
      PROVE  TypeOK'
  BY <1>1, ConstantsAssumption DEF Edit, TypeOK, Change
<1>2. ASSUME NEW t \in Targets, Revert(t)
      PROVE  TypeOK'
  BY <1>2 DEF Revert, TypeOK
<1>9. ASSUME NEW t \in Targets, Publish(t)
      PROVE  TypeOK'
  BY <1>9 DEF Publish, TypeOK
<1>3. ASSUME NEW o \in Ops, Baseline(o)
      PROVE  TypeOK'
  <2>1. CASE PassGate(o)
    BY <1>3, <2>1, FreshLemma DEF PassGate, TypeOK
  <2>2. CASE ForceGate(o)
    <3> PICK c \in Commands : ForceGate(o)!(c)
      BY <2>2 DEF ForceGate
    <3> DEFINE j == [Fresh(c) EXCEPT !.snap = ledger[c.site]]
    <3>1. ledger[c.site] \in Seq(Entry)
      BY ConstantsAssumption DEF TypeOK
    <3>2. j \in Job /\ j.cmd = c
      BY <3>1, FreshLemma, UpdateLemma
    <3>3. job' \in [Ops -> Job] /\ \A p \in Ops : job'[p].cmd.op = p
      BY <1>3, <3>2, LocalsType
    <3>4. QED
      BY <1>3, <3>3 DEF TypeOK
  <2>3. CASE SaveWaiver(o)
    <3> DEFINE j == [job[o] EXCEPT !.snap = << >>]
    <3>1. j \in Job /\ j.cmd.op = o
      BY <1>3, CommandType, UpdateLemma, EmptySeq
    <3>2. job' \in [Ops -> Job] /\ \A p \in Ops : job'[p].cmd.op = p
      BY <1>3, <2>3, <3>1, LocalsType DEF SaveWaiver
    <3>3. Waive(job[o].snap) \in Seq(Entry)
      BY <1>3, CommandType, WaiveLemma DEF Job
    <3>4. QED
      BY <1>3, <2>3, <3>2, <3>3 DEF SaveWaiver, TypeOK
  <2>4. CASE CapturePages(o)
    <3> DEFINE j == [job[o] EXCEPT !.seen = live[job[o].cmd.target]]
    <3>1. live[job[o].cmd.target] \in SUBSET Change
      BY <1>3, CommandType DEF TypeOK
    <3>2. j \in Job /\ j.cmd.op = o
      BY <1>3, <3>1, CommandType, UpdateLemma
    <3>3. job' \in [Ops -> Job] /\ \A p \in Ops : job'[p].cmd.op = p
      BY <1>3, <2>4, <3>2, LocalsType DEF CapturePages
    <3>4. QED
      BY <1>3, <2>4, <3>1, <3>3 DEF CapturePages, TypeOK, TreesOf
  <2>5. CASE CaptureManifest(o)
    <3> DEFINE j == [job[o] EXCEPT !.seen = {}]
    <3>1. j \in Job /\ j.cmd.op = o
      <4>1. {} \in SUBSET Change
        OBVIOUS
      <4>2. QED
        BY <1>3, <4>1, CommandType, UpdateLemma
    <3>2. job' \in [Ops -> Job] /\ \A p \in Ops : job'[p].cmd.op = p
      BY <1>3, <2>5, <3>1, LocalsType DEF CaptureManifest
    <3>3. job[o].seen \in SUBSET Change
      BY <1>3, CommandType DEF Job
    <3>4. QED
      BY <1>3, <2>5, <3>2, <3>3 DEF CaptureManifest, TypeOK
  <2>6. CASE WipeShots(o)
    <3> DEFINE j == [job[o] EXCEPT !.routes = served[job[o].cmd.clone]]
    <3>1. served[job[o].cmd.clone] \in SUBSET Routes
      BY <1>3, CommandType DEF TypeOK
    <3>2. j \in Job /\ j.cmd.op = o
      BY <1>3, <3>1, CommandType, UpdateLemma
    <3>3. job' \in [Ops -> Job] /\ \A p \in Ops : job'[p].cmd.op = p
      BY <1>3, <2>6, <3>2, LocalsType DEF WipeShots
    <3>4. [r \in Routes |-> NoShot] \in [Routes -> Shot]
      BY DEF NoShot, Shot
    <3>5. QED
      BY <1>3, <2>6, <3>3, <3>4 DEF WipeShots, TypeOK
  <2>7. CASE Shoot(o)
    <3>1. PICK r \in Routes :
             shots' = [shots EXCEPT ![Site(o)][r] = ShotOf(job[o].cmd.clone, r)]
      BY <1>3, <2>7, CommandType DEF Shoot, Job
    <3>2. ShotOf(job[o].cmd.clone, r) \in Shot
      BY <1>3, CommandType DEF ShotOf, Shot, Look, TypeOK
    <3>3. shots' \in [Sites -> [Routes -> Shot]]
      BY <3>1, <3>2 DEF TypeOK
    <3>4. QED
      BY <1>3, <2>7, <3>3 DEF Shoot, TypeOK
  <2>8. CASE WriteManifest(o)
    <3>1. [clone |-> job[o].cmd.clone, routes |-> job[o].routes] \in BaselineManifest
      BY <1>3, CommandType DEF BaselineManifest, Job
    <3>2. manifest' \in [Sites -> BaselineManifest \cup {None}]
      BY <2>8, <3>1 DEF WriteManifest, TypeOK
    <3>3. QED
      BY <1>3, <2>8, <3>2, CommandType, FreshLemma DEF WriteManifest, Stop, TypeOK
  <2>9. QED
    BY <1>3, <2>1, <2>2, <2>3, <2>4, <2>5, <2>6, <2>7, <2>8 DEF Baseline
<1>4. ASSUME NEW o \in Ops, Apply(o)
      PROVE  TypeOK'
  <2>1. CASE StaleCheck(o)
    <3> PICK c \in Commands, k \in Kinds : StaleCheck(o)!(c, k)
      BY <2>1 DEF StaleCheck
    <3> DEFINE v == live[c.target]
               w == trees[c.site]
               j == [Fresh(c) EXCEPT !.kind = k, !.seen = v, !.src = w]
    <3>1. c.site \in Sites /\ c.target \in Targets
      BY ConstantsAssumption
    <3>2. v \in SUBSET Change /\ w \in SUBSET Change
      BY <3>1 DEF BaselineInv, CleanTrees, TypeOK
    <3>3. j \in Job /\ j.cmd = c
      <4> HIDE DEF v, w
      <4>1. /\ [Fresh(c) EXCEPT !.kind = k, !.seen = v, !.src = w] \in Job
            /\ [Fresh(c) EXCEPT !.kind = k, !.seen = v, !.src = w].cmd = c
        BY <3>2, EmptySeq DEF Fresh, Job
      <4>2. QED
        BY <4>1
    <3>4. job' \in [Ops -> Job] /\ \A p \in Ops : job'[p].cmd.op = p
      BY <1>4, <3>3, LocalsType
    <3>5. QED
      BY <1>4, <3>4 DEF TypeOK
  <2>2. CASE NothingToDo(o)
    <3> DEFINE j == Fresh(job[o].cmd)
    <3>1. j \in Job /\ j.cmd.op = o
      BY <1>4, CommandType, FreshLemma
    <3>2. job' \in [Ops -> Job] /\ \A p \in Ops : job'[p].cmd.op = p
      BY <1>4, <2>2, <3>1, LocalsType DEF NothingToDo, Stop
    <3>3. QED
      BY <1>4, <2>2, <3>2 DEF NothingToDo, Stop, TypeOK
  <2>3. CASE LoadLedger(o)
    <3> DEFINE j == [job[o] EXCEPT !.snap = ledger[job[o].cmd.site]]
    <3>1. ledger[job[o].cmd.site] \in Seq(Entry)
      BY <1>4, CommandType DEF TypeOK
    <3>2. j \in Job /\ j.cmd.op = o
      BY <1>4, <3>1, CommandType, UpdateLemma
    <3>3. job' \in [Ops -> Job] /\ \A p \in Ops : job'[p].cmd.op = p
      BY <1>4, <2>3, <3>2, LocalsType DEF LoadLedger
    <3>4. QED
      BY <1>4, <2>3, <3>3 DEF LoadLedger, TypeOK
  <2>4. CASE SaveEntry(o)
    <3> DEFINE j == [job[o] EXCEPT !.id = clock + 1, !.snap = << >>]
               e == [id |-> clock + 1, transform |-> job[o].kind,
                     target |-> job[o].cmd.target,
                     oracle |-> "none", waived |-> FALSE, judged |-> {}]
    <3>1. clock + 1 \in 0..MaxChanges /\ clock + 1 \in Nat
      BY <2>4, ConstantsAssumption DEF SaveEntry, TypeOK
    <3>2. j \in Job /\ j.cmd.op = o
      BY <1>4, <3>1, CommandType, UpdateLemma
    <3>3. job' \in [Ops -> Job] /\ \A p \in Ops : job'[p].cmd.op = p
      BY <1>4, <2>4, <3>2, LocalsType DEF SaveEntry
    <3>4. e \in Entry
      BY <1>4, <2>4, <3>1, CommandType DEF SaveEntry, JobInv, JobOK, Entry
    <3>5. Append(job[o].snap, e) \in Seq(Entry)
      BY <1>4, <3>4, CommandType DEF Job
    <3>6. ledger' \in [Sites -> Seq(Entry)]
      BY <2>4, <3>5 DEF SaveEntry, TypeOK
    <3>7. pc' \in [Ops -> PCs]
      BY <2>4 DEF SaveEntry, TypeOK
    <3>8. QED
      BY <2>4, <3>1, <3>3, <3>6, <3>7 DEF SaveEntry, TypeOK
  <2>5. CASE Mint(o)
    <3> DEFINE j == [job[o] EXCEPT !.src = trees[job[o].cmd.site]]
               t == job[o].cmd.target
    <3>1. trees[job[o].cmd.site] \in SUBSET Change
      BY <1>4, <2>5, CommandType DEF Mint, JobInv, JobOK, CleanTrees
    <3>2. j \in Job /\ j.cmd.op = o
      BY <1>4, <3>1, CommandType, UpdateLemma
    <3>3. job' \in [Ops -> Job] /\ \A p \in Ops : job'[p].cmd.op = p
      BY <1>4, <2>5, <3>2, LocalsType DEF Mint
    <3>4. Delta(o, "variable", {}) \in Change
      BY <1>4, CommandType DEF Delta, Change, Job
    <3>5. PICK minted \in SUBSET {Delta(o, "variable", {})},
               reset \in SUBSET {c \in live[t] : c.part = "variable"} :
             live' = [live EXCEPT ![t] = (@ \ reset) \cup minted]
      BY <2>5 DEF Mint
    <3>6. live[t] \in SUBSET Change /\ minted \in SUBSET Change
      BY <1>4, <3>4, CommandType DEF TypeOK
    <3>7. (live[t] \ reset) \cup minted \in SUBSET Change
      BY <3>6
    <3>8. live' \in [Targets -> SUBSET Change]
      BY <3>5, <3>7 DEF TypeOK
    <3>9. QED
      BY <2>5, <3>3, <3>8 DEF Mint, TypeOK
  <2>6. CASE WriteBack(o)
    BY <1>4, <2>6, CommandType, FreshLemma DEF WriteBack, Delta, TreesOf, TypeOK, Job, Change
  <2>7. CASE NoReplacement(o)
    BY <1>4, <2>7, CommandType, FreshLemma DEF NoReplacement, TypeOK
  <2>8. QED
    BY <1>4, <2>1, <2>2, <2>3, <2>4, <2>5, <2>6, <2>7 DEF Apply
<1>5. ASSUME NEW o \in Ops, Oracle(o)
      PROVE  TypeOK'
  <2>1. CASE StartOracle(o)
    <3> PICK c \in Commands, settles \in BOOLEAN : StartOracle(o)!(c, settles)
      BY <2>1 DEF StartOracle
    <3> DEFINE j == [Fresh(c) EXCEPT !.settles = settles]
    <3>1. j \in Job /\ j.cmd = c
      BY FreshLemma, UpdateLemma
    <3>2. job' \in [Ops -> Job] /\ \A p \in Ops : job'[p].cmd.op = p
      BY <1>5, <3>1, LocalsType
    <3>3. QED
      BY <1>5, <3>2 DEF TypeOK
  <2>2. CASE RunOracle(o)
    <3> PICK ok \in BOOLEAN, looked \in SUBSET Routes :
               job' = [job EXCEPT ![o].ok = ok, ![o].routes = looked]
      <4>1. manifest[Site(o)] \in BaselineManifest
        BY <1>5, <2>2, CommandType DEF RunOracle, TypeOK
      <4>2. QED
        BY <2>2, <4>1 DEF RunOracle, BaselineManifest
    <3> DEFINE j == [job[o] EXCEPT !.ok = ok, !.routes = looked]
    <3>1. j \in Job /\ j.cmd.op = o
      BY <1>5, CommandType, UpdateLemma
    <3>2. job' \in [Ops -> Job] /\ \A p \in Ops : job'[p].cmd.op = p
      BY <1>5, <3>1, LocalsType
    <3>3. QED
      BY <1>5, <2>2, <3>2 DEF RunOracle, TypeOK
  <2>3. CASE LoadVerdict(o)
    <3> DEFINE j == [job[o] EXCEPT !.snap = ledger[job[o].cmd.site]]
    <3>1. ledger[job[o].cmd.site] \in Seq(Entry)
      BY <1>5, CommandType DEF TypeOK
    <3>2. j \in Job /\ j.cmd.op = o
      BY <1>5, <3>1, CommandType, UpdateLemma
    <3>3. job' \in [Ops -> Job] /\ \A p \in Ops : job'[p].cmd.op = p
      BY <1>5, <2>3, <3>2, LocalsType DEF LoadVerdict
    <3>4. QED
      BY <1>5, <2>3, <3>3 DEF LoadVerdict, TypeOK
  <2>4. CASE SaveVerdict(o)
    <3> DEFINE v == Verdict(job[o].ok)
    <3>1. v \in {"ok", "failed"}
      BY DEF Verdict
    <3>2. Mark(job[o].snap, v, job[o].routes) \in Seq(Entry)
      <4> HIDE DEF v
      <4> QED
        BY <3>1, <1>5, MarkLemma, CommandType DEF Job
    <3>3. ledger' \in [Sites -> Seq(Entry)]
      <4> HIDE DEF v
      <4> QED
        BY <1>5, <2>4, <3>2 DEF SaveVerdict, TypeOK, v
    <3> QED
      BY <1>5, <2>4, <3>3, CommandType, FreshLemma DEF SaveVerdict, Stop, TypeOK
  <2>5. CASE PrintVerdict(o)
    BY <1>5, <2>5, CommandType, FreshLemma DEF PrintVerdict, Stop, TypeOK
  <2>6. QED
    BY <1>5, <2>1, <2>2, <2>3, <2>4, <2>5 DEF Oracle
<1>6. ASSUME NEW o \in Ops, Abort(o)
      PROVE  TypeOK'
  BY <1>6, CommandType, FreshLemma DEF Abort, Stop, TypeOK
<1>7. CASE UNCHANGED vars
  BY <1>7 DEF vars, TypeOK
<1>8. QED
  BY <1>1, <1>2, <1>3, <1>4, <1>5, <1>6, <1>7, <1>9 DEF Next

---------------------------------------------------------------------------
(* What one step may touch.                                                *)

\* A step of one operator, whatever command it runs.
OpStep(o) == Baseline(o) \/ Apply(o) \/ Oracle(o) \/ Abort(o)

\* A command writes to its own site and its own host only, and to nobody
\* else's local variables.
LEMMA Footprint ==
    ASSUME TypeOK, NEW o \in Ops, OpStep(o)
    PROVE  /\ \A p \in Ops \ {o} : job'[p] = job[p] /\ pc'[p] = pc[p]
           /\ \A s \in Sites \ {Site(o)} :
                 /\ ledger'[s] = ledger[s] /\ trees'[s] = trees[s]
                 /\ hash'[s] = hash[s] /\ shots'[s] = shots[s]
                 /\ manifest'[s] = manifest[s]
           /\ \A t \in Targets \ {job[o].cmd.target} : live'[t] = live[t]
<1> USE DEF Goto, Stop, artifacts, TypeOK
<1>1. CASE Baseline(o)
  <2>1. CASE PassGate(o)
    BY <2>1 DEF PassGate
  <2>2. CASE ForceGate(o)
    BY <2>2 DEF ForceGate
  <2>3. CASE SaveWaiver(o)
    BY <2>3 DEF SaveWaiver
  <2>4. CASE CapturePages(o)
    BY <2>4 DEF CapturePages
  <2>5. CASE CaptureManifest(o)
    BY <2>5 DEF CaptureManifest
  <2>6. CASE WipeShots(o)
    BY <2>6 DEF WipeShots
  <2>7. CASE Shoot(o)
    BY <2>7 DEF Shoot
  <2>8. CASE WriteManifest(o)
    BY <2>8 DEF WriteManifest
  <2>9. QED
    BY <1>1, <2>1, <2>2, <2>3, <2>4, <2>5, <2>6, <2>7, <2>8 DEF Baseline
<1>2. CASE Apply(o)
  <2>1. CASE StaleCheck(o)
    BY <2>1 DEF StaleCheck
  <2>2. CASE NothingToDo(o)
    BY <2>2 DEF NothingToDo
  <2>3. CASE LoadLedger(o)
    BY <2>3 DEF LoadLedger
  <2>4. CASE SaveEntry(o)
    BY <2>4 DEF SaveEntry
  <2>5. CASE Mint(o)
    BY <2>5 DEF Mint
  <2>6. CASE WriteBack(o)
    BY <2>6 DEF WriteBack
  <2>7. CASE NoReplacement(o)
    BY <2>7 DEF NoReplacement
  <2>8. QED
    BY <1>2, <2>1, <2>2, <2>3, <2>4, <2>5, <2>6, <2>7 DEF Apply
<1>3. CASE Oracle(o)
  <2>1. CASE StartOracle(o)
    BY <2>1 DEF StartOracle
  <2>2. CASE RunOracle(o)
    BY <2>2 DEF RunOracle
  <2>3. CASE LoadVerdict(o)
    BY <2>3 DEF LoadVerdict
  <2>4. CASE SaveVerdict(o)
    BY <2>4 DEF SaveVerdict
  <2>5. CASE PrintVerdict(o)
    BY <2>5 DEF PrintVerdict
  <2>6. QED
    BY <1>3, <2>1, <2>2, <2>3, <2>4, <2>5 DEF Oracle
<1>4. CASE Abort(o)
  BY <1>4 DEF Abort
<1>5. QED
  BY <1>1, <1>2, <1>3, <1>4 DEF OpStep

---------------------------------------------------------------------------
(* The ledger only grows, and its entries are only annotated.              *)

\* What a step may do to the ledger of one site: annotate its open entries,
\* or append one entry under the id the clock just gave out.
LedgerStep(s) ==
    /\ Len(ledger'[s]) \in {Len(ledger[s]), Len(ledger[s]) + 1}
    /\ \A i \in DOMAIN ledger[s] :
          i \in DOMAIN ledger'[s] /\ OnlyAnnotated(ledger[s][i], ledger'[s][i])
    /\ \A i \in DOMAIN ledger'[s] \ DOMAIN ledger[s] :
          /\ clock' = clock + 1 /\ ledger'[s][i].id = clock'
          /\ i = Len(ledger[s]) + 1
          /\ \E d \in Commands : d.site = s /\ d.target = ledger'[s][i].target

LEMMA SameLedger ==
    ASSUME TypeOK, NEW s \in Sites, ledger'[s] = ledger[s]
    PROVE  LedgerStep(s)
<1>1. ledger[s] \in Seq(Entry)
  BY DEF TypeOK
<1>2. QED
  BY <1>1 DEF LedgerStep, OnlyAnnotated

\* A command that saves the ledger saves what it loaded, which is still
\* there: nobody else works on its site.
LEMMA LedgerLemma ==
    ASSUME TypeOK, JobInv, [Next]_vars, NEW s \in Sites
    PROVE  LedgerStep(s)
<1> SUFFICES ASSUME ledger'[s] # ledger[s]
             PROVE  LedgerStep(s)
  BY SameLedger
<1>1. PICK o \in Ops : OpStep(o)
  BY DEF Next, vars, Edit, Revert, Publish, OpStep
<1>2. s = Site(o) /\ s = job[o].cmd.site /\ ledger[s] \in Seq(Entry)
  BY <1>1, Footprint, CommandType DEF TypeOK
<1>3. SaveWaiver(o) \/ SaveEntry(o) \/ SaveVerdict(o)
  BY <1>1 DEF OpStep, Baseline, Apply, Oracle, PassGate, ForceGate, CapturePages,
     CaptureManifest, WipeShots, Shoot, WriteManifest, StaleCheck, NothingToDo,
     LoadLedger, Mint, WriteBack, NoReplacement, StartOracle, RunOracle,
     LoadVerdict, PrintVerdict, Abort, artifacts
<1>4. job[o].snap = ledger[s]
  BY <1>2, <1>3 DEF JobInv, JobOK, SaveWaiver, SaveEntry, SaveVerdict, At
<1>5. CASE SaveWaiver(o)
  <2>1. ledger'[s] = Waive(ledger[s])
    BY <1>2, <1>4, <1>5 DEF SaveWaiver, TypeOK
  <2>2. QED
    BY <1>2, <2>1, WaiveLemma DEF LedgerStep
<1>6. CASE SaveVerdict(o)
  <2>1. ledger'[s] = Mark(ledger[s], Verdict(job[o].ok), job[o].routes)
    BY <1>2, <1>4, <1>6 DEF SaveVerdict, TypeOK
  <2>2. Verdict(job[o].ok) \in {"ok", "failed"} /\ job[o].routes \in SUBSET Routes
    BY CommandType DEF Job, Verdict
  <2>3. QED
    BY <1>2, <2>1, <2>2, MarkLemma DEF LedgerStep
<1>7. CASE SaveEntry(o)
  <2> DEFINE e == [id |-> clock + 1, transform |-> job[o].kind,
                   target |-> job[o].cmd.target,
                   oracle |-> "none", waived |-> FALSE, judged |-> {}]
             n == Len(ledger[s])
  <2>1. e \in Entry
    <3>1. clock + 1 \in Nat
      BY ConstantsAssumption DEF TypeOK
    <3>2. job[o].kind \in Kinds
      BY <1>7 DEF SaveEntry, JobInv, JobOK, At
    <3>3. QED
      BY <3>1, <3>2, CommandType DEF Entry
  <2>2. ledger'[s] = Append(ledger[s], e) /\ clock' = clock + 1
    BY <1>2, <1>4, <1>7 DEF SaveEntry, TypeOK
  <2>3. n \in Nat /\ DOMAIN ledger[s] = 1..n
    BY <1>2, LenProperties
  <2> HIDE DEF e
  <2>4. /\ Len(ledger'[s]) = n + 1
        /\ DOMAIN ledger'[s] = 1..(n + 1)
        /\ \A i \in 1..n : ledger'[s][i] = ledger[s][i]
        /\ ledger'[s][n + 1] = e
    BY <1>2, <2>1, <2>2, <2>3, AppendProperties
  <2>5. e.id = clock' /\ e.target = job[o].cmd.target
    BY <2>2 DEF e
  <2>6. job[o].cmd \in Commands /\ job[o].cmd.site = s
    BY <1>2, CommandType
  <2>7. QED
    BY <2>2, <2>3, <2>4, <2>5, <2>6 DEF LedgerStep, OnlyAnnotated
<1>8. QED
  BY <1>3, <1>5, <1>6, <1>7

\* An entry once there keeps its id, a waived one stays waived, and one
\* proved without a look at a route stays so.
LEMMA KnownStays ==
    ASSUME NEW s \in Sites, LedgerStep(s), NEW c, NEW r, Known(s, c, r, {"waived"})
    PROVE  Known(s, c, r, {"waived"})'
BY DEF Known, Unlooked, LedgerStep, OnlyAnnotated, StatusOf, IsPending

\* What the ledger of a site knows is in that ledger only.
LEMMA KnownFrame ==
    ASSUME NEW s, ledger'[s] = ledger[s], NEW c, NEW r, NEW statuses
    PROVE  Known(s, c, r, statuses)' <=> Known(s, c, r, statuses)
BY DEF Known, Unlooked, StatusOf

\* So is what a checkpoint needs to be clean.
LEMMA CleanFrame ==
    ASSUME NEW s, ledger'[s] = ledger[s], trees'[s] = trees[s]
    PROVE  CleanTrees(s)' <=> CleanTrees(s)
BY KnownFrame DEF CleanTrees

\* Who shares a site or a host with a running command is that command.
LEMMA OneCommand ==
    ASSUME Disciplined, TypeOK, NEW o \in Ops, NEW d \in Commands,
           d.site = Site(o) \/ d.target = job[o].cmd.target
    PROVE  /\ d = job[o].cmd
           /\ job[o].cmd.clone = job[o].cmd.target
BY CommandType DEF Disciplined

LEMMA IdsStep ==
    ASSUME TypeOK, TypeOK', IdsInv, JobInv, [Next]_vars
    PROVE  IdsInv'
<1>1. clock \in Nat /\ clock' \in Nat /\ clock <= clock'
  <2>1. clock' = clock \/ clock' = clock + 1
    BY DEF Next, vars, Edit, Revert, Publish, Baseline, Apply, Oracle, Abort, PassGate,
       ForceGate, SaveWaiver, CapturePages, CaptureManifest, WipeShots, Shoot,
       WriteManifest, StaleCheck, NothingToDo, LoadLedger, SaveEntry, Mint,
       WriteBack, NoReplacement, StartOracle, RunOracle, LoadVerdict,
       SaveVerdict, PrintVerdict
  <2>2. clock \in Nat /\ clock' \in Nat
    BY ConstantsAssumption DEF TypeOK
  <2>3. QED
    BY <2>1, <2>2
<1> SUFFICES ASSUME NEW s \in Sites, NEW i \in DOMAIN ledger'[s]
             PROVE  /\ ledger'[s][i].id <= clock'
                    /\ \A j \in DOMAIN ledger'[s] :
                          ledger'[s][i].id = ledger'[s][j].id => i = j
                    /\ \E d \in Commands : d.site = s /\ d.target = ledger'[s][i].target
  BY DEF IdsInv
<1>2. LedgerStep(s)
  BY LedgerLemma
<1>3. \A j \in DOMAIN ledger[s] : ledger[s][j].id \in Nat
  BY EntryType DEF Entry
<1>4. \A j \in DOMAIN ledger[s] :
         ledger'[s][j].id = ledger[s][j].id /\ ledger'[s][j].target = ledger[s][j].target
  BY <1>2 DEF LedgerStep, OnlyAnnotated
<1>5. \A j \in DOMAIN ledger'[s] \ DOMAIN ledger[s] :
         /\ ledger'[s][j].id = clock + 1 /\ j = Len(ledger[s]) + 1
         /\ ledger'[s][j].id = clock'
  BY <1>2 DEF LedgerStep
<1>6. ledger'[s][i].id <= clock'
  BY <1>1, <1>3, <1>4, <1>5 DEF IdsInv
<1>7. ASSUME NEW j \in DOMAIN ledger'[s], ledger'[s][i].id = ledger'[s][j].id
      PROVE  i = j
  <2>1. CASE i \in DOMAIN ledger[s] /\ j \in DOMAIN ledger[s]
    BY <1>4, <1>7, <2>1 DEF IdsInv
  <2>2. CASE i \in DOMAIN ledger[s] /\ j \notin DOMAIN ledger[s]
    <3>1. ledger[s][i].id <= clock /\ ledger[s][i].id = clock + 1
      BY <1>4, <1>5, <1>7, <2>2 DEF IdsInv
    <3>2. QED
      BY <1>1, <1>3, <2>2, <3>1
  <2>3. CASE i \notin DOMAIN ledger[s] /\ j \in DOMAIN ledger[s]
    <3>1. ledger[s][j].id <= clock /\ ledger[s][j].id = clock + 1
      BY <1>4, <1>5, <1>7, <2>3 DEF IdsInv
    <3>2. QED
      BY <1>1, <1>3, <2>3, <3>1
  <2>4. CASE i \notin DOMAIN ledger[s] /\ j \notin DOMAIN ledger[s]
    BY <1>5, <2>4
  <2>5. QED
    BY <2>1, <2>2, <2>3, <2>4
<1>8. \E d \in Commands : d.site = s /\ d.target = ledger'[s][i].target
  BY <1>2, <1>4 DEF IdsInv, LedgerStep
<1>9. QED
  BY <1>6, <1>7, <1>8

---------------------------------------------------------------------------
(* What shows on a host.                                                   *)

\* Only a write-back makes a transform's change visible: its own, or one of
\* the trees it read.
LEMMA MarkedStep ==
    ASSUME TypeOK, [Next]_vars, NEW t \in Targets, NEW r,
           NEW c \in Marked(live'[t], r), c \notin Marked(live[t], r)
    PROVE  \E o \in Ops :
              /\ WriteBack(o) /\ t = job[o].cmd.target
              /\ c \in Marked(job[o].src, r) \/ c.id = job[o].id
<1>1. live'[t] # live[t]
  OBVIOUS
<1>2. ASSUME NEW u \in Targets, Edit(u) \/ Revert(u)
      PROVE  FALSE
  <2>1. c \in live'[t] /\ c \notin live[t] /\ c.by = "transform"
    BY DEF Marked
  <2>2. CASE Edit(u)
    <3>1. PICK e \in Edits :
             live' = [live EXCEPT ![u] = @ \cup
                         {[id |-> clock + 1, part |-> e.part,
                           shows |-> e.shows, by |-> "editor"]}]
      BY <2>2 DEF Edit
    <3>2. QED
      BY <2>1, <3>1 DEF TypeOK
  <2>3. CASE Revert(u)
    BY <2>1, <2>3 DEF Revert, TypeOK
  <2>4. QED
    BY <1>2, <2>2, <2>3
<1>3. PICK o \in Ops : OpStep(o)
  BY <1>1, <1>2 DEF Next, vars, OpStep, Publish
<1>4. t = job[o].cmd.target
  BY <1>1, <1>3, Footprint
<1>5. CASE Mint(o)
  <2>1. PICK minted \in SUBSET {Delta(o, "variable", {})},
             reset \in SUBSET {d \in live[t] : d.part = "variable"} :
           live'[t] = (live[t] \ reset) \cup minted
    BY <1>4, <1>5 DEF Mint, TypeOK
  <2>2. QED
    BY <2>1 DEF Delta, Marked
<1>6. CASE WriteBack(o)
  <2>1. PICK shows \in SUBSET Routes, over \in SUBSET (job[o].src \cup TreesOf(live[t])) :
           live'[t] = (live[t] \ over) \cup (job[o].src \cap over)
                                       \cup {Delta(o, "tree", shows)}
    BY <1>4, <1>6 DEF WriteBack, TypeOK
  <2>2. c \in Marked(job[o].src, r) \/ c.id = job[o].id
    BY <2>1 DEF Delta, Marked
  <2>3. QED
    BY <1>4, <1>6, <2>2
<1>7. Mint(o) \/ WriteBack(o)
  BY <1>1, <1>3 DEF OpStep, Baseline, Apply, Oracle, PassGate, ForceGate, SaveWaiver,
     CapturePages, CaptureManifest, WipeShots, Shoot, WriteManifest, StaleCheck,
     NothingToDo, LoadLedger, SaveEntry, NoReplacement, StartOracle, RunOracle,
     LoadVerdict, SaveVerdict, PrintVerdict, Abort
<1>8. QED
  BY <1>5, <1>6, <1>7

\* An open entry is called proved only by an operator who settles its site
\* on a passing verdict.
LEMMA ProvedStep ==
    ASSUME TypeOK, JobInv, [Next]_vars, NEW s \in Sites, NEW i \in DOMAIN ledger[s],
           IsPending(ledger[s][i]), StatusOf(ledger'[s][i]) = "proved"
    PROVE  \E o \in Ops : /\ SaveVerdict(o) /\ s = Site(o) /\ job[o].ok
                          /\ ledger'[s][i].judged = job[o].routes
<1> ledger[s] \in Seq(Entry) /\ ledger[s][i] \in Entry
  BY EntryType DEF TypeOK
<1>1. ledger'[s] # ledger[s]
  BY StatusLemma
<1>2. PICK o \in Ops : OpStep(o)
  BY <1>1 DEF Next, vars, Edit, Revert, Publish, OpStep
<1>3. s = Site(o) /\ s = job[o].cmd.site
  BY <1>1, <1>2, Footprint DEF Site
<1>4. SaveWaiver(o) \/ SaveEntry(o) \/ SaveVerdict(o)
  BY <1>1, <1>2 DEF OpStep, Baseline, Apply, Oracle, PassGate, ForceGate, CapturePages,
     CaptureManifest, WipeShots, Shoot, WriteManifest, StaleCheck, NothingToDo,
     LoadLedger, Mint, WriteBack, NoReplacement, StartOracle, RunOracle,
     LoadVerdict, PrintVerdict, Abort, artifacts
<1>5. job[o].snap = ledger[s] /\ Verdict(job[o].ok) \in {"ok", "failed"} /\ job[o].routes \in SUBSET Routes
  BY <1>3, <1>4, CommandType DEF JobInv, JobOK, SaveWaiver, SaveEntry, SaveVerdict, At, Job, Verdict
<1>6. CASE SaveWaiver(o)
  <2>1. ledger'[s] = Waive(ledger[s])
    BY <1>3, <1>5, <1>6 DEF SaveWaiver, TypeOK
  <2>2. QED
    BY <2>1, WaiveLemma
<1>7. CASE SaveEntry(o)
  <2>1. PICK e : ledger'[s] = Append(ledger[s], e)
    BY <1>3, <1>5, <1>7 DEF SaveEntry, TypeOK
  <2>2. ledger'[s][i] = ledger[s][i]
    BY <2>1
  <2>3. QED
    BY <2>2, StatusLemma
<1>8. CASE SaveVerdict(o)
  <2>1. ledger'[s] = Mark(ledger[s], Verdict(job[o].ok), job[o].routes)
    BY <1>1, <1>3, <1>5, <1>8 DEF SaveVerdict, TypeOK
  <2>2. CASE Verdict(job[o].ok) = "failed"
    <3>1. IsPending(ledger'[s][i])
      BY <1>5, <2>1, <2>2, MarkLemma
    <3>2. QED
      BY <3>1 DEF IsPending, StatusOf
  <2>3. CASE Verdict(job[o].ok) = "ok"
    <3>1. ledger'[s][i].judged = job[o].routes
      BY <1>5, <2>1, <2>3, MarkLemma
    <3>2. QED
      BY <1>3, <1>8, <2>3, <3>1 DEF Verdict
  <2>4. QED
    BY <1>5, <2>2, <2>3
<1>9. QED
  BY <1>4, <1>6, <1>7, <1>8

LEMMA LiveStep ==
    ASSUME Disciplined, TypeOK, TypeOK', LiveInv, JobInv, [Next]_vars
    PROVE  LiveInv'
<1> SUFFICES ASSUME NEW t \in Targets, NEW r \in Routes, NEW c \in Marked(live'[t], r)
             PROVE  \E d \in Commands :
                       d.target = t /\ Known(d.site, c, r, {"pending", "waived"})'
  BY DEF LiveInv, Marked
<1>1. CASE c \in Marked(live[t], r)
  <2>1. PICK d \in Commands : d.target = t /\ Known(d.site, c, r, {"pending", "waived"})
    BY <1>1 DEF LiveInv
  <2> DEFINE s == d.site
  <2>2. s \in Sites
    BY ConstantsAssumption
  <2>3. PICK i \in DOMAIN ledger[s] :
           /\ ledger[s][i].id = c.id
           /\ StatusOf(ledger[s][i]) \in {"pending", "waived"} \/ Unlooked(ledger[s][i], r)
    BY <2>1 DEF Known
  <2>4. i \in DOMAIN ledger'[s] /\ OnlyAnnotated(ledger[s][i], ledger'[s][i])
    BY <2>2, <2>3, LedgerLemma DEF LedgerStep
  <2>5. ledger[s][i] \in Entry /\ ledger'[s][i] \in Entry
    <3>1. ledger'[s] \in Seq(Entry)
      BY <2>2 DEF TypeOK
    <3>2. QED
      BY <2>2, <2>3, <2>4, <3>1, EntryType, LenProperties, ElementOfSeq
  <2>6. ASSUME StatusOf(ledger'[s][i]) = "proved"
        PROVE  Unlooked(ledger[s][i], r)'
    <3>1. CASE ~IsPending(ledger[s][i])
      <4>1. ledger'[s][i] = ledger[s][i]
        BY <2>4, <3>1 DEF OnlyAnnotated
      <4>2. Unlooked(ledger[s][i], r)
        BY <2>3, <2>6, <4>1 DEF StatusOf
      <4>3. QED
        BY <4>1, <4>2 DEF Unlooked, StatusOf
    <3>2. CASE IsPending(ledger[s][i])
      <4>1. PICK o \in Ops : /\ SaveVerdict(o) /\ s = Site(o) /\ job[o].ok
                             /\ ledger'[s][i].judged = job[o].routes
        BY <2>2, <2>3, <2>6, <3>2, ProvedStep
      <4>2. t = job[o].cmd.target
        BY <2>1, <4>1, OneCommand
      <4>3. r \notin job[o].routes
        BY <1>1, <2>3, <3>2, <4>1, <4>2 DEF JobInv, JobOK, SaveVerdict, At
      <4>4. QED
        BY <2>6, <4>1, <4>3 DEF Unlooked, StatusOf
    <3>3. QED
      BY <3>1, <3>2
  <2>7. /\ ledger'[s][i].id = c.id
        /\ StatusOf(ledger[s][i])' \in {"pending", "waived"} \/ Unlooked(ledger[s][i], r)'
    BY <2>3, <2>4, <2>5, <2>6, StatusLemma DEF OnlyAnnotated, StatusOf
  <2>8. QED
    BY <2>1, <2>4, <2>7 DEF Known
<1>2. CASE c \notin Marked(live[t], r)
  <2>1. PICK o \in Ops :
           /\ WriteBack(o) /\ t = job[o].cmd.target
           /\ c \in Marked(job[o].src, r) \/ c.id = job[o].id
    BY <1>2, MarkedStep
  <2>2. ledger' = ledger /\ pc[o] = "writing" /\ JobOK(o)
    BY <2>1 DEF WriteBack, At, artifacts, JobInv
  <2>3. Known(Site(o), c, r, {"pending", "waived"})
    <3>1. CASE c \in Marked(job[o].src, r)
      BY <2>2, <3>1 DEF JobOK, Known
    <3>2. CASE c.id = job[o].id
      <4>1. PICK i \in DOMAIN ledger[Site(o)] :
               ledger[Site(o)][i].id = job[o].id /\ IsPending(ledger[Site(o)][i])
        BY <2>2 DEF JobOK
      <4>2. StatusOf(ledger[Site(o)][i]) = "pending"
        BY <4>1, CommandType, EntryType, StatusLemma
      <4>3. QED
        BY <3>2, <4>1, <4>2 DEF Known
    <3>3. QED
      BY <2>1, <3>1, <3>2
  <2>4. PICK d \in Commands : d = job[o].cmd
    BY CommandType
  <2>5. d.target = t /\ Known(d.site, c, r, {"pending", "waived"})'
    BY <2>1, <2>2, <2>3, <2>4 DEF Known, Site
  <2>6. QED
    BY <2>5
<1>3. QED
  BY <1>1, <1>2

---------------------------------------------------------------------------
(* The baseline.                                                           *)

\* With no entry open, what a host shows was waived on the site it belongs to.
LEMMA CleanHost ==
    ASSUME Disciplined, TypeOK, LiveInv, NEW o \in Ops, ~Pending(ledger[Site(o)]),
           NEW r \in Routes, NEW c \in Marked(live[job[o].cmd.target], r)
    PROVE  Known(Site(o), c, r, {"waived"})
<1>1. PICK d \in Commands :
         d.target = job[o].cmd.target /\ Known(d.site, c, r, {"pending", "waived"})
  <2>1. job[o].cmd.target \in Targets
    BY CommandType
  <2>2. QED
    BY <2>1 DEF LiveInv
<1>2. d.site = Site(o)
  BY <1>1, OneCommand, CommandType
<1>3. PICK i \in DOMAIN ledger[Site(o)] :
         /\ ledger[Site(o)][i].id = c.id
         /\ \/ StatusOf(ledger[Site(o)][i]) \in {"pending", "waived"}
            \/ Unlooked(ledger[Site(o)][i], r)
  BY <1>1, <1>2 DEF Known
<1>4. StatusOf(ledger[Site(o)][i]) # "pending"
  BY <1>3, CommandType, EntryType, StatusLemma DEF Pending
<1>5. QED
  BY <1>3, <1>4 DEF Known

LEMMA CleanStays ==
    ASSUME NEW s \in Sites, LedgerStep(s), CleanTrees(s), trees'[s] = trees[s]
    PROVE  CleanTrees(s)'
<1>1. \A r \in Routes : \A c \in Marked(trees[s], r) : Known(s, c, r, {"waived"})'
  BY KnownStays DEF CleanTrees
<1>2. QED
  BY <1>1 DEF CleanTrees

\* Reading a host into the checkpoint leaves the checkpoint clean.
LEMMA CleanCapture ==
    ASSUME Disciplined, TypeOK, TypeOK', LiveInv, JobInv, NEW o \in Ops, CapturePages(o),
           NEW s \in Sites, s = Site(o)
    PROVE  CleanTrees(s)'
<1>1. /\ ledger' = ledger
      /\ trees'[s] = TreesOf(live[job[o].cmd.target])
      /\ ~Pending(ledger[s])
  BY CommandType DEF CapturePages, TypeOK, JobInv, JobOK, At
<1>2. trees'[s] \in SUBSET Change
  BY <1>1, CommandType DEF TreesOf, TypeOK
<1>3. \A r \in Routes : \A c \in Marked(trees'[s], r) : Known(s, c, r, {"waived"})
  BY <1>1, CleanHost DEF TreesOf, Marked
<1>4. QED
  BY <1>1, <1>2, <1>3 DEF CleanTrees, Known, Unlooked, StatusOf

\* Which command replaces which part of a baseline.
LEMMA BaselineFrame ==
    ASSUME TypeOK, [Next]_vars, NEW s \in Sites
    PROVE  /\ trees'[s] # trees[s] =>
                 \E o \in Ops : s = Site(o) /\ CapturePages(o)
           /\ hash'[s] # hash[s] =>
                 \E o \in Ops : s = Site(o) /\ CaptureManifest(o)
           /\ shots'[s] # shots[s] =>
                 \E o \in Ops : s = Site(o) /\ (WipeShots(o) \/ Shoot(o))
           /\ manifest'[s] # manifest[s] =>
                 \E o \in Ops : s = Site(o) /\ WriteManifest(o)
<1> SUFFICES ASSUME <<trees, hash, shots, manifest>>' # <<trees, hash, shots, manifest>>
             PROVE  \E o \in Ops :
                       /\ trees'[s] # trees[s] => s = Site(o) /\ CapturePages(o)
                       /\ hash'[s] # hash[s] => s = Site(o) /\ CaptureManifest(o)
                       /\ shots'[s] # shots[s] =>
                             s = Site(o) /\ (WipeShots(o) \/ Shoot(o))
                       /\ manifest'[s] # manifest[s] => s = Site(o) /\ WriteManifest(o)
  OBVIOUS
<1>1. PICK o \in Ops : OpStep(o)
  BY DEF Next, vars, Edit, Revert, Publish, OpStep
<1>2. \/ CapturePages(o) \/ CaptureManifest(o)
      \/ WipeShots(o) \/ Shoot(o) \/ WriteManifest(o)
  BY <1>1 DEF OpStep, Baseline, Apply, Oracle, PassGate, ForceGate, SaveWaiver,
     StaleCheck, NothingToDo, LoadLedger, SaveEntry, Mint, WriteBack, NoReplacement,
     StartOracle, RunOracle, LoadVerdict, SaveVerdict, PrintVerdict, Abort, artifacts
<1>3. s = Site(o) \/ (/\ trees'[s] = trees[s] /\ hash'[s] = hash[s]
                      /\ shots'[s] = shots[s] /\ manifest'[s] = manifest[s])
  BY <1>1, Footprint
<1>4. QED
  BY <1>2, <1>3 DEF CapturePages, CaptureManifest, WipeShots, Shoot, WriteManifest

LEMMA BaselineStep ==
    ASSUME Disciplined, TypeOK, TypeOK', LiveInv, BaselineInv, JobInv, [Next]_vars
    PROVE  BaselineInv'
<1> SUFFICES ASSUME NEW s \in Sites
             PROVE  /\ hash'[s] # None => CleanTrees(s)'
                    /\ \A r \in Routes : \A c \in shots'[s][r].look :
                          c.by = "transform" => Known(s, c, r, {"waived"})'
                    /\ manifest'[s] # None =>
                          \E d \in Commands : d.site = s /\ manifest'[s].clone = d.target
  BY DEF BaselineInv
<1>1. LedgerStep(s)
  BY LedgerLemma
<1>2. ASSUME hash'[s] # None
      PROVE  CleanTrees(s)'
  <2>1. CASE \E o \in Ops : s = Site(o) /\ CapturePages(o)
    BY <2>1, CleanCapture
  <2>2. CASE \E o \in Ops : s = Site(o) /\ CaptureManifest(o)
    <3>1. CleanTrees(s) /\ trees'[s] = trees[s]
      BY <2>2 DEF CaptureManifest, At, JobInv, JobOK
    <3>2. QED
      BY <1>1, <3>1, CleanStays
  <2>3. CASE trees'[s] = trees[s] /\ hash'[s] = hash[s]
    BY <1>1, <1>2, <2>3, CleanStays DEF BaselineInv
  <2>4. QED
    BY <2>1, <2>2, <2>3, BaselineFrame
<1>3. ASSUME NEW r \in Routes, NEW c \in shots'[s][r].look, c.by = "transform"
      PROVE  Known(s, c, r, {"waived"})'
  <2>1. CASE shots'[s][r] = shots[s][r]
    BY <1>1, <1>3, <2>1, KnownStays DEF BaselineInv
  <2>2. CASE shots'[s][r] # shots[s][r]
    <3>1. PICK o \in Ops : s = Site(o) /\ (WipeShots(o) \/ Shoot(o))
      BY <2>2, BaselineFrame
    <3>2. Shoot(o)
      BY <1>3, <3>1 DEF WipeShots, NoShot, TypeOK
    <3>3. PICK q \in Routes :
             shots' = [shots EXCEPT ![s][q] = ShotOf(job[o].cmd.clone, q)]
      BY <3>1, <3>2, CommandType DEF Shoot, Job
    <3>4. shots'[s][r] = ShotOf(job[o].cmd.target, r)
      BY <2>2, <3>1, <3>3, CommandType, OneCommand DEF TypeOK
    <3>5. c \in Marked(live[job[o].cmd.target], r)
      BY <1>3, <3>4 DEF ShotOf, Look, Marked
    <3>6. ~Pending(ledger[s])
      BY <3>1, <3>2 DEF Shoot, At, JobInv, JobOK
    <3>7. Known(s, c, r, {"waived"})
      BY <3>1, <3>5, <3>6, CleanHost
    <3>8. QED
      BY <1>1, <3>7, KnownStays
  <2>3. QED
    BY <2>1, <2>2
<1>4. ASSUME manifest'[s] # None
      PROVE  \E d \in Commands : d.site = s /\ manifest'[s].clone = d.target
  <2>1. CASE manifest'[s] = manifest[s]
    BY <1>4, <2>1 DEF BaselineInv
  <2>2. CASE manifest'[s] # manifest[s]
    <3>1. PICK o \in Ops : s = Site(o) /\ WriteManifest(o)
      BY <2>2, BaselineFrame
    <3>2. manifest'[s].clone = job[o].cmd.target
      BY <3>1, CommandType, OneCommand DEF WriteManifest, TypeOK
    <3>3. QED
      BY <3>1, <3>2, CommandType
  <2>3. QED
    BY <2>1, <2>2
<1>5. QED
  BY <1>2, <1>3, <1>4

---------------------------------------------------------------------------
(* The running commands.                                                   *)

\* What an idle operator, or one whose oracle has yet to run, knows: nothing.
LEMMA JobDone ==
    ASSUME NEW o \in Ops, pc'[o] \in {"idle", "proving"}
    PROVE  JobOK(o)'
BY DEF JobOK

\* A command nobody interferes with keeps what it knows.
LEMMA JobFrame ==
    ASSUME NEW p \in Ops, NEW c, c = job[p].cmd, job[p].routes \in SUBSET Routes,
           job'[p] = job[p], pc'[p] = pc[p],
           ledger'[c.site] = ledger[c.site], trees'[c.site] = trees[c.site],
           shots'[c.site] = shots[c.site],
           \A r \in Routes : \A d \in Marked(live'[c.target], r) :
               d \in Marked(live[c.target], r),
           JobOK(p)
    PROVE  JobOK(p)'
<1>1. Site(p) = c.site /\ Site(p)' = c.site /\ job'[p].cmd = c
  BY DEF Site
<1>2. CleanTrees(c.site)' <=> CleanTrees(c.site)
  BY CleanFrame
<1>3. \A r, d : Known(c.site, d, r, {"waived"})' <=> Known(c.site, d, r, {"waived"})
  BY KnownFrame
<1>4. PICK src, id, routes : src = job[p].src /\ id = job[p].id /\ routes = job[p].routes
  OBVIOUS
<1>5. pc[p] \in {"checked", "recording", "minting", "writing"} =>
         \A r \in Routes : \A d \in Marked(src, r) : Known(c.site, d, r, {"waived"})'
  <2>1. pc[p] \in {"checked", "recording", "minting", "writing"} =>
           \A r \in Routes : \A d \in Marked(src, r) : Known(c.site, d, r, {"waived"})
    BY <1>1, <1>4 DEF JobOK
  <2>2. QED
    BY <1>3, <2>1
<1>6. routes \in SUBSET Routes
  BY <1>4
<1>7. pc[p] \in {"judged", "marking"} /\ job[p].settles /\ job[p].ok =>
         /\ \A i \in DOMAIN ledger[c.site] :
               IsPending(ledger[c.site][i]) =>
                  \A r \in routes : \A d \in Marked(live'[c.target], r) :
                      d.id # ledger[c.site][i].id
         /\ \A r \in routes : shots[c.site][r].of = "page"
  BY <1>1, <1>4, <1>6 DEF JobOK
<1>8. QED
  BY <1>1, <1>2, <1>4, <1>5, <1>7 DEF JobOK

LEMMA JobOthers ==
    ASSUME Disciplined, TypeOK, JobInv, NEW o \in Ops, OpStep(o), NEW p \in Ops, p # o
    PROVE  JobOK(p)'
<1> PICK c \in Commands : c = job[p].cmd
  BY CommandType
<1>1. c.site \in Sites \ {Site(o)} /\ c.target \in Targets \ {job[o].cmd.target}
  BY Exclusive, CommandType
<1>2. /\ job'[p] = job[p] /\ pc'[p] = pc[p] /\ live'[c.target] = live[c.target]
      /\ ledger'[c.site] = ledger[c.site] /\ trees'[c.site] = trees[c.site]
      /\ shots'[c.site] = shots[c.site]
  BY <1>1, Footprint
<1>3. QED
  BY <1>2, JobFrame, CommandType DEF JobInv, Job

LEMMA JobPeople ==
    ASSUME TypeOK, JobInv, [Next]_vars, NEW p \in Ops,
           UNCHANGED <<ledger, trees, shots, pc, job>>
    PROVE  JobOK(p)'
<1> PICK c \in Commands : c = job[p].cmd
  BY CommandType
<1>1. c.target \in Targets
  BY ConstantsAssumption
<1>2. ASSUME NEW o \in Ops, WriteBack(o)
      PROVE  FALSE
  BY <1>2 DEF WriteBack, At, Goto, TypeOK
<1>3. \A r \in Routes : \A d \in Marked(live'[c.target], r) :
         d \in Marked(live[c.target], r)
  BY <1>1, <1>2, MarkedStep
<1>4. QED
  BY <1>3, JobFrame, CommandType DEF JobInv, Job

\* A verdict that settles the ledger compares routes of the site's own host
\* with its own screenshots of them.
LEMMA OracleLooks ==
    ASSUME Disciplined, TypeOK, BaselineInv, NEW o \in Ops, RunOracle(o),
           job'[o].settles, job'[o].ok, NEW r \in job'[o].routes
    PROVE  /\ r \in Routes
           /\ shots[Site(o)][r] = ShotOf(job[o].cmd.target, r)
           /\ shots[Site(o)][r].of = "page"
<1> DEFINE s == Site(o)
           t == manifest[s].clone
           listed == manifest[s].routes
<1>1. s \in Sites /\ s = job[o].cmd.site
  BY CommandType
<1>2. manifest[s] # None /\ listed \in SUBSET Routes
  BY <1>1 DEF RunOracle, TypeOK, BaselineManifest
<1>3. r \in listed /\ r \in served[t] /\ ShotOf(t, r) = shots[s][r]
  <2>1. PICK ok \in BOOLEAN :
           /\ job[o].settles => ok = SameShots(t, listed, s)
           /\ job' = [job EXCEPT ![o].ok = ok, ![o].routes = listed \cap served[t]]
    BY DEF RunOracle
  <2> DEFINE seen == listed \cap served[t]
  <2>2. job'[o] = [job[o] EXCEPT !.ok = ok, !.routes = seen]
    BY <2>1 DEF TypeOK
  <2> HIDE DEF seen
  <2>4. /\ job'[o].ok = ok /\ job'[o].settles = job[o].settles
        /\ job'[o].routes = seen
    BY <2>2, CommandType DEF Job
  <2>3. QED
    BY <2>1, <2>4 DEF SameShots, seen
<1>4. t = job[o].cmd.target
  <2>1. PICK d \in Commands : d.site = s /\ t = d.target
    BY <1>1, <1>2 DEF BaselineInv
  <2>2. d = job[o].cmd
    BY <2>1, OneCommand
  <2>3. QED
    BY <2>1, <2>2
<1>5. QED
  BY <1>1, <1>2, <1>3, <1>4 DEF ShotOf

\* There, nothing of an open entry can show.
LEMMA OracleSees ==
    ASSUME Disciplined, TypeOK, IdsInv, BaselineInv, NEW o \in Ops, RunOracle(o),
           job'[o].settles, job'[o].ok,
           NEW i \in DOMAIN ledger[Site(o)], IsPending(ledger[Site(o)][i]),
           NEW r \in job'[o].routes, NEW c \in Marked(live[job[o].cmd.target], r)
    PROVE  c.id # ledger[Site(o)][i].id
<1> DEFINE s == Site(o)
<1>1. s \in Sites
  BY CommandType
<1>2. c \in shots[s][r].look /\ c.by = "transform" /\ r \in Routes
  <2> DEFINE t == job[o].cmd.target
  <2>1. r \in Routes /\ shots[s][r] = ShotOf(t, r) /\ shots[s][r].of = "page"
    BY OracleLooks
  <2>2. shots[s][r].look = Look(live[t], r)
    BY <2>1 DEF ShotOf
  <2>3. QED
    BY <2>1, <2>2 DEF Look, Marked
<1>3. PICK j \in DOMAIN ledger[s] :
         /\ ledger[s][j].id = c.id
         /\ StatusOf(ledger[s][j]) = "waived" \/ Unlooked(ledger[s][j], r)
  BY <1>1, <1>2 DEF BaselineInv, Known
<1>4. i # j
  BY <1>1, <1>3, EntryType, StatusLemma DEF Unlooked
<1>5. QED
  BY <1>1, <1>3, <1>4 DEF IdsInv

\* The trees an apply rewrites are clean.
LEMMA JobSource ==
    ASSUME JobInv, NEW o \in Ops,
           pc[o] \in {"checked", "recording", "minting", "writing"}
    PROVE  \A r \in Routes : \A c \in Marked(job[o].src, r) :
              Known(Site(o), c, r, {"waived"})
<1>1. JobOK(o)
  BY DEF JobInv
<1>2. JobOK(o)!4
  BY <1>1 DEF JobOK
<1>3. QED
  BY <1>2

LEMMA JobBaseline ==
    ASSUME Disciplined, TypeOK, TypeOK', LiveInv, JobInv, NEW o \in Ops, Baseline(o)
    PROVE  JobOK(o)'
<1> PICK s \in Sites : s = Site(o) /\ s = job[o].cmd.site
  BY CommandType
<1>1. CASE PassGate(o)
  <2>1. PICK c \in Commands : PassGate(o)!(c)
    BY <1>1 DEF PassGate
  <2>2. pc'[o] = "gated" /\ Site(o)' = c.site /\ ledger' = ledger
    BY <2>1, FreshLemma DEF Goto, Site, TypeOK, artifacts
  <2>3. QED
    BY <2>1, <2>2 DEF JobOK
<1>2. CASE ForceGate(o)
  <2>1. PICK c \in Commands : ForceGate(o)!(c)
    BY <1>2 DEF ForceGate
  <2>2. pc'[o] = "waiving" /\ ledger' = ledger
    BY <2>1 DEF Goto, TypeOK, artifacts
  <2>3. job'[o].cmd = c /\ job'[o].snap = ledger[c.site]
    BY <2>1 DEF Fresh, TypeOK
  <2>4. QED
    BY <2>2, <2>3 DEF JobOK, Site
<1>3. CASE SaveWaiver(o)
  <2>1. pc'[o] = "gated" /\ Site(o)' = s /\ ledger'[s] = Waive(job[o].snap)
    BY <1>3, CommandType DEF SaveWaiver, Goto, Site, TypeOK, Job
  <2>2. ~Pending(ledger'[s])
    BY <2>1, CommandType, WaiveLemma DEF Job
  <2>3. QED
    BY <2>1, <2>2 DEF JobOK
<1>4. CASE CapturePages(o)
  <2>1. pc'[o] = "captured" /\ Site(o)' = s /\ ledger' = ledger /\ pc[o] = "gated"
    BY <1>4, CommandType DEF CapturePages, At, Goto, Site, TypeOK, Job
  <2>2. CleanTrees(s)'
    BY <1>4, CleanCapture
  <2>3. QED
    BY <2>1, <2>2 DEF JobOK, JobInv
<1>5. CASE CaptureManifest(o)
  <2>1. /\ pc'[o] = "crawled" /\ Site(o)' = s
        /\ ledger' = ledger /\ pc[o] = "captured"
    BY <1>5, CommandType DEF CaptureManifest, At, Goto, Site, TypeOK, Job
  <2>2. QED
    BY <2>1 DEF JobOK, JobInv
<1>9. CASE WipeShots(o)
  <2> DEFINE fetched == served[job[o].cmd.clone]
  <2>1. job'[o] = [job[o] EXCEPT !.routes = fetched]
    BY <1>9 DEF WipeShots, TypeOK
  <2> HIDE DEF fetched
  <2>2. Site(o)' = s
    BY <2>1, CommandType DEF Site, Job
  <2>3. /\ pc'[o] = "wiped" /\ ledger' = ledger /\ pc[o] = "crawled"
    BY <1>9 DEF WipeShots, At, Goto, TypeOK
  <2>4. QED
    BY <2>2, <2>3 DEF JobOK, JobInv
<1>7. CASE Shoot(o)
  BY <1>7 DEF Shoot, At, Site, JobOK, JobInv
<1>6. CASE WriteManifest(o)
  BY <1>6, JobDone DEF WriteManifest, Stop, Goto, TypeOK
<1>8. QED
  BY <1>1, <1>2, <1>3, <1>4, <1>5, <1>6, <1>7, <1>9 DEF Baseline

LEMMA JobApply ==
    ASSUME Disciplined, TypeOK, TypeOK', BaselineInv, JobInv, [Next]_vars,
           NEW o \in Ops, Apply(o)
    PROVE  JobOK(o)'
<1> PICK s \in Sites : s = Site(o) /\ s = job[o].cmd.site
  BY CommandType
<1>1. CASE StaleCheck(o)
  <2>1. PICK c \in Commands, k \in Kinds : StaleCheck(o)!(c, k)
    BY <1>1 DEF StaleCheck
  <2>2. pc'[o] = "checked" /\ ledger' = ledger /\ trees' = trees
    BY <2>1 DEF Goto, TypeOK, artifacts
  <2>3. job'[o].cmd = c /\ job'[o].kind = k /\ job'[o].src = trees[c.site]
    BY <2>1 DEF Fresh, TypeOK
  <2>4. CleanTrees(c.site)
    BY <2>1, ConstantsAssumption DEF BaselineInv
  <2>5. /\ CleanTrees(c.site)'
        /\ \A r \in Routes : \A d \in Marked(trees[c.site], r) :
              Known(c.site, d, r, {"waived"})'
    BY <2>2, <2>4 DEF CleanTrees, Known, Unlooked, StatusOf
  <2>6. QED
    BY <2>2, <2>3, <2>5 DEF JobOK, Site
<1>2. CASE NothingToDo(o) \/ WriteBack(o) \/ NoReplacement(o)
  BY <1>2, JobDone DEF NothingToDo, WriteBack, NoReplacement, Stop, Goto, TypeOK
<1>3. CASE LoadLedger(o)
  <2>1. /\ pc[o] = "checked" /\ pc'[o] = "recording" /\ Site(o)' = s
        /\ ledger' = ledger /\ trees' = trees
        /\ job'[o].snap = ledger[s] /\ job'[o].kind = job[o].kind
        /\ job'[o].src = job[o].src
    BY <1>3, CommandType DEF LoadLedger, At, Goto, Site, TypeOK, Job, artifacts
  <2>2. CleanTrees(s)' /\ job[o].kind \in Kinds
    BY <2>1, CleanFrame DEF JobInv, JobOK
  <2>3. \A r \in Routes : \A d \in Marked(job[o].src, r) : Known(s, d, r, {"waived"})'
    <3>1. \A r \in Routes : \A d \in Marked(job[o].src, r) : Known(s, d, r, {"waived"})
      BY <2>1, JobSource
    <3>2. QED
      BY <2>1, <3>1, KnownFrame
  <2>4. QED
    BY <2>1, <2>2, <2>3 DEF JobOK
<1>4. CASE SaveEntry(o)
  <2> DEFINE e == [id |-> clock + 1, transform |-> job[o].kind,
                   target |-> job[o].cmd.target,
                   oracle |-> "none", waived |-> FALSE, judged |-> {}]
  <2>1. /\ pc[o] = "recording" /\ pc'[o] \in {"minting", "writing"} /\ Site(o)' = s
        /\ trees' = trees /\ job'[o].id = clock + 1 /\ job'[o].src = job[o].src
        /\ ledger'[s] = Append(job[o].snap, e)
    BY <1>4, CommandType DEF SaveEntry, At, Goto, Site, TypeOK, Job
  <2>2. LedgerStep(s)
    BY LedgerLemma
  <2>3. CleanTrees(s)'
    BY <2>1, <2>2, CleanStays DEF JobInv, JobOK
  <2>4. \A r \in Routes : \A d \in Marked(job[o].src, r) : Known(s, d, r, {"waived"})'
    <3>1. \A r \in Routes : \A d \in Marked(job[o].src, r) : Known(s, d, r, {"waived"})
      BY <2>1, JobSource
    <3>2. QED
      BY <2>2, <3>1, KnownStays
  <2>5. \E i \in DOMAIN ledger'[s] :
           ledger'[s][i].id = job'[o].id /\ IsPending(ledger'[s][i])
    <3> DEFINE n == Len(job[o].snap)
    <3>1. clock + 1 \in Nat
      BY ConstantsAssumption DEF TypeOK
    <3>2. job[o].kind \in Kinds
      BY <2>1 DEF JobInv, JobOK
    <3>3. e \in Entry /\ e.id = clock + 1 /\ IsPending(e)
      BY <3>1, <3>2, CommandType DEF Entry, IsPending
    <3> HIDE DEF e
    <3>4. n \in Nat /\ n + 1 \in DOMAIN ledger'[s] /\ ledger'[s][n + 1] = e
      BY <2>1, <3>3, CommandType, AppendProperties, LenProperties DEF Job
    <3>5. QED
      BY <2>1, <3>3, <3>4
  <2>6. QED
    BY <2>1, <2>3, <2>4, <2>5 DEF JobOK
<1>5. CASE Mint(o)
  <2>1. /\ pc[o] = "minting" /\ pc'[o] = "writing" /\ Site(o)' = s
        /\ trees' = trees /\ ledger' = ledger
        /\ job'[o].id = job[o].id /\ job'[o].src = trees[s]
    BY <1>5, CommandType DEF Mint, At, Goto, Site, TypeOK, Job, artifacts
  <2>2. /\ CleanTrees(s)
        /\ \E i \in DOMAIN ledger[s] :
              ledger[s][i].id = job[o].id /\ IsPending(ledger[s][i])
    BY <2>1 DEF JobInv, JobOK
  <2>3. \A r \in Routes : \A d \in Marked(trees[s], r) : Known(s, d, r, {"waived"})'
    BY <2>1, <2>2, KnownFrame DEF CleanTrees
  <2>4. QED
    BY <2>1, <2>2, <2>3 DEF JobOK
<1>6. QED
  BY <1>1, <1>2, <1>3, <1>4, <1>5 DEF Apply

LEMMA JobOracle ==
    ASSUME Disciplined, TypeOK, TypeOK', IdsInv, BaselineInv, JobInv,
           NEW o \in Ops, Oracle(o)
    PROVE  JobOK(o)'
<1> PICK s \in Sites : s = Site(o) /\ s = job[o].cmd.site
  BY CommandType
<1>1. CASE StartOracle(o) \/ SaveVerdict(o) \/ PrintVerdict(o)
  BY <1>1, JobDone DEF StartOracle, SaveVerdict, PrintVerdict, Stop, Goto, TypeOK
<1>2. CASE RunOracle(o)
  <2>1. pc'[o] = "judged" /\ UNCHANGED <<ledger, live, shots>>
    BY <1>2 DEF RunOracle, Goto, TypeOK, artifacts
  <2>2. job'[o].cmd = job[o].cmd
    <3>1. PICK v, w : job' = [job EXCEPT ![o].ok = v, ![o].routes = w]
      BY <1>2 DEF RunOracle
    <3>2. QED
      BY <3>1, CommandType DEF TypeOK, Job
  <2>3. Site(o)' = s
    BY <2>2 DEF Site
  <2>4. ASSUME job'[o].settles, job'[o].ok
        PROVE  /\ \A i \in DOMAIN ledger[s] : IsPending(ledger[s][i]) =>
                     \A r \in job'[o].routes :
                         \A c \in Marked(live[job[o].cmd.target], r) :
                             c.id # ledger[s][i].id
               /\ \A r \in job'[o].routes : shots[s][r].of = "page"
    <3>2. ASSUME NEW i \in DOMAIN ledger[s], IsPending(ledger[s][i]),
                 NEW r \in job'[o].routes, NEW c \in Marked(live[job[o].cmd.target], r)
          PROVE  c.id # ledger[s][i].id
      BY <1>2, <2>4, <3>2, OracleSees
    <3>3. \A r \in job'[o].routes : shots[s][r].of = "page"
      BY <1>2, <2>4, OracleLooks
    <3> QED
      BY <3>2, <3>3
  <2>5. QED
    BY <2>1, <2>2, <2>3, <2>4 DEF JobOK
<1>3. CASE LoadVerdict(o)
  <2>1. /\ pc[o] = "judged" /\ pc'[o] = "marking" /\ Site(o)' = s
        /\ ledger' = ledger /\ live' = live /\ job[o].settles
        /\ job'[o].cmd = job[o].cmd /\ job'[o].snap = ledger[s]
        /\ job'[o].ok = job[o].ok /\ job'[o].settles = job[o].settles
        /\ job'[o].routes = job[o].routes
    BY <1>3, CommandType DEF LoadVerdict, At, Goto, Site, TypeOK, Job, artifacts
  <2>2. job[o].ok =>
           \A i \in DOMAIN ledger[s] : IsPending(ledger[s][i]) =>
               \A r \in job[o].routes :
                   \A c \in Marked(live[job[o].cmd.target], r) : c.id # ledger[s][i].id
    <3>1. JobOK(o)!8
      BY DEF JobInv, JobOK
    <3>2. QED
      BY <2>1, <3>1
  <2>3. job'[o].ok =>
           \A i \in DOMAIN ledger'[s] : IsPending(ledger'[s][i]) =>
               \A r \in job'[o].routes :
                   \A c \in Marked(live'[job'[o].cmd.target], r) : c.id # ledger'[s][i].id
    BY <2>1, <2>2
  <2>6. job'[o].ok => \A r \in job'[o].routes : shots'[s][r].of = "page"
    BY <1>3, <2>1 DEF LoadVerdict, artifacts, JobInv, JobOK
  <2>4. job'[o].snap = ledger'[s] /\ job'[o].settles
    BY <2>1
  <2>5. QED
    BY <2>1, <2>3, <2>4, <2>6 DEF JobOK
<1>4. QED
  BY <1>1, <1>2, <1>3 DEF Oracle

LEMMA JobStep ==
    ASSUME Disciplined, IInv, TypeOK', [Next]_vars
    PROVE  JobInv'
<1> USE DEF IInv
<1> SUFFICES ASSUME NEW p \in Ops
             PROVE  JobOK(p)'
  BY DEF JobInv
<1>1. CASE UNCHANGED <<ledger, trees, shots, pc, job>>
  BY <1>1, JobPeople
<1>2. ASSUME NEW o \in Ops, OpStep(o)
      PROVE  JobOK(p)'
  <2>1. CASE p # o
    BY <1>2, <2>1, JobOthers
  <2>2. CASE p = o /\ Abort(o)
    BY <2>2, JobDone DEF Abort, Stop, Goto, TypeOK
  <2>3. CASE p = o /\ ~Abort(o)
    BY <1>2, <2>3, JobBaseline, JobApply, JobOracle DEF OpStep
  <2>4. QED
    BY <2>1, <2>2, <2>3
<1>3. QED
  BY <1>1, <1>2 DEF Next, vars, Edit, Revert, Publish, OpStep

---------------------------------------------------------------------------
(* The theorems.                                                           *)

LEMMA InvInit == Init => IInv
<1> SUFFICES ASSUME Init PROVE IInv
  OBVIOUS
<1>1. TypeOK
  BY TypeInit
<1>2. IdsInv
  BY DEF Init, IdsInv
<1>3. LiveInv
  BY DEF Init, LiveInv, Marked
<1>4. BaselineInv
  BY DEF Init, BaselineInv, NoShot
<1>5. JobInv
  BY DEF Init, JobInv, JobOK
<1>6. QED
  BY <1>1, <1>2, <1>3, <1>4, <1>5 DEF IInv

LEMMA InvStep ==
    ASSUME Disciplined, IInv, [Next]_vars
    PROVE  IInv'
<1>1. TypeOK'
  BY TypeStep DEF IInv
<1>2. QED
  BY <1>1, IdsStep, LiveStep, BaselineStep, JobStep DEF IInv

\* The inductive invariant holds for disciplined commands.
THEOREM Invariance == ASSUME Disciplined PROVE Spec => []IInv
<1>1. IInv /\ [Next]_vars => IInv'
  BY InvStep
<1>2. QED
  BY <1>1, InvInit, PTL DEF Spec

\* Every variable keeps its type (_refuse_stale_checkpoint is why an apply
\* never reads a checkpoint that has no trees).
THEOREM TypeCorrect == ASSUME Disciplined PROVE Spec => []TypeOK
<1>1. IInv => TypeOK
  BY DEF IInv
<1>2. QED
  BY <1>1, Invariance, PTL

\* What re-baselining absorbs was waived, or called proved by a verdict that
\* had not looked at the route (gates.assert_no_pending, oracle.run_oracle,
\* workflows/optimize/baseline.build_baseline).
THEOREM BaselineSound == ASSUME Disciplined PROVE Spec => []UnprovenNeverAbsorbed
<1>1. IInv => UnprovenNeverAbsorbed
  BY DEF IInv, BaselineInv, UnprovenNeverAbsorbed, Known
<1>2. QED
  BY <1>1, Invariance, PTL

\* A host that shows a transform's change on a route has an entry that says
\* so, or one that was called proved without a look at that route.
THEOREM HostKnown == ASSUME Disciplined PROVE Spec => []DirtyHostIsKnown
<1>1. ASSUME IInv PROVE DirtyHostIsKnown
  <2> SUFFICES ASSUME NEW t \in Targets, NEW r \in Routes,
                      NEW c \in Look(live[t], r), c.by = "transform"
               PROVE  \E s \in Sites : \E i \in DOMAIN ledger[s] :
                         /\ ledger[s][i].id = c.id
                         /\ ledger[s][i].target = t
                         /\ \/ StatusOf(ledger[s][i]) \in {"pending", "waived"}
                            \/ Unlooked(ledger[s][i], r)
    BY DEF DirtyHostIsKnown
  <2>1. PICK d \in Commands : d.target = t /\ Known(d.site, c, r, {"pending", "waived"})
    BY <1>1 DEF IInv, LiveInv, Look, Marked
  <2>2. d.site \in Sites
    BY ConstantsAssumption
  <2>3. PICK i \in DOMAIN ledger[d.site] :
           /\ ledger[d.site][i].id = c.id
           /\ \/ StatusOf(ledger[d.site][i]) \in {"pending", "waived"}
              \/ Unlooked(ledger[d.site][i], r)
    BY <2>1 DEF Known
  <2>4. PICK e \in Commands : e.site = d.site /\ e.target = ledger[d.site][i].target
    BY <1>1, <2>2 DEF IInv, IdsInv
  <2>5. e = d
    BY <2>4 DEF Disciplined
  <2>6. QED
    BY <2>1, <2>2, <2>3, <2>4, <2>5
<1>2. QED
  BY <1>1, Invariance, PTL

\* Nothing deletes an entry or revises a decision (gates.py: the ledger is
\* append-and-annotate).
THEOREM AppendOnly == ASSUME Disciplined PROVE Spec => LedgerAppendOnly
<1>1. ASSUME IInv, [Next]_vars
      PROVE  [\A s \in Sites :
                /\ Len(ledger'[s]) >= Len(ledger[s])
                /\ \A i \in DOMAIN ledger[s] :
                      OnlyAnnotated(ledger[s][i], ledger'[s][i])]_ledger
  <2> SUFFICES ASSUME NEW s \in Sites
               PROVE  /\ Len(ledger'[s]) >= Len(ledger[s])
                      /\ \A i \in DOMAIN ledger[s] :
                            OnlyAnnotated(ledger[s][i], ledger'[s][i])
    OBVIOUS
  <2>1. LedgerStep(s)
    BY <1>1, LedgerLemma DEF IInv
  <2>2. Len(ledger[s]) \in Nat
    BY <1>1, LenProperties DEF IInv, TypeOK
  <2>3. QED
    BY <2>1, <2>2 DEF LedgerStep
<1>2. QED
  BY <1>1, Invariance, PTL DEF Spec, LedgerAppendOnly

---------------------------------------------------------------------------
(* What a write-back may lose.                                             *)

\* An apply on its way to the write-back rewrites the trees of the checkpoint,
\* which is still the one its staleness guard compared with the host.
SeenInv ==
    \A o \in Ops : pc[o] \in {"checked", "recording", "minting", "writing"} =>
        job[o].seen = hash[Site(o)] /\ job[o].src = trees[Site(o)]

\* The staleness guard is passed with the checkpoint's content and trees.
LEMMA StaleStart ==
    ASSUME TypeOK, NEW o \in Ops, StaleCheck(o)
    PROVE  /\ job'[o].seen = hash'[job'[o].cmd.site]
           /\ job'[o].src = trees'[job'[o].cmd.site]
<1> PICK c \in Commands, k \in Kinds : StaleCheck(o)!(c, k)
  BY Zenon DEF StaleCheck
<1> DEFINE v == live[c.target]
           w == trees[c.site]
<1>1. job'[o] = [Fresh(c) EXCEPT !.kind = k, !.seen = v, !.src = w]
  BY DEF TypeOK
<1>2. hash' = hash /\ trees' = trees /\ v = hash[c.site]
  BY DEF artifacts
<1>3. job'[o].cmd = c /\ job'[o].seen = v /\ job'[o].src = w
  <2> DEFINE j == [Fresh(c) EXCEPT !.kind = k, !.seen = v, !.src = w]
  <2>1. j.cmd = c /\ j.seen = v /\ j.src = w
    <3> HIDE DEF v, w
    <3> QED
      BY DEF Fresh
  <2> HIDE DEF j, v, w
  <2> QED
    BY <1>1, <2>1 DEF j
<1> QED
  BY <1>2, <1>3

LEMMA SeenStep ==
    ASSUME Disciplined, TypeOK, TypeOK', SeenInv, [Next]_vars
    PROVE  SeenInv'
<1> SUFFICES ASSUME NEW o \in Ops,
                    pc'[o] \in {"checked", "recording", "minting", "writing"}
             PROVE  job'[o].seen = hash'[Site(o)'] /\ job'[o].src = trees'[Site(o)']
  BY DEF SeenInv, Site
<1>1. CASE \E p \in Ops \ {o} : OpStep(p)
  <2>1. PICK p \in Ops \ {o} : OpStep(p)
    BY <1>1
  <2>2. Site(o) # Site(p) /\ Site(o) \in Sites
    BY <2>1, Exclusive, CommandType
  <2>3. job'[o] = job[o] /\ pc'[o] = pc[o] /\ Site(o)' = Site(o)
    BY <2>1, Footprint DEF Site
  <2>4. hash'[Site(o)] = hash[Site(o)] /\ trees'[Site(o)] = trees[Site(o)]
    BY <2>1, <2>2, Footprint
  <2> QED
    BY <2>3, <2>4 DEF SeenInv
<1>2. CASE OpStep(o)
  <2> USE DEF Goto, Stop, Site, TypeOK
  <2>1. CASE Baseline(o) \/ Oracle(o) \/ Abort(o)
    BY <2>1 DEF Baseline, Oracle, PassGate, ForceGate, SaveWaiver, CapturePages,
       CaptureManifest, WipeShots, Shoot, WriteManifest, StartOracle, RunOracle,
       LoadVerdict, SaveVerdict, PrintVerdict, Abort, At, SeenInv
  <2>2. CASE StaleCheck(o)
    BY <2>2, StaleStart
  <2>3. CASE NothingToDo(o)
    BY <2>3 DEF NothingToDo, At
  <2>4. CASE LoadLedger(o)
    BY <2>4, CommandType DEF LoadLedger, Job, At, SeenInv, artifacts
  <2>5. CASE SaveEntry(o)
    BY <2>5, CommandType DEF SaveEntry, Job, At, SeenInv
  <2>6. CASE Mint(o)
    BY <2>6, CommandType DEF Mint, Job, At, SeenInv, artifacts
  <2>7. CASE WriteBack(o) \/ NoReplacement(o)
    BY <2>7 DEF WriteBack, NoReplacement
  <2> QED
    BY <1>2, <2>1, <2>2, <2>3, <2>4, <2>5, <2>6, <2>7 DEF OpStep, Apply
<1>3. CASE UNCHANGED <<job, pc, hash, trees>>
  BY <1>3 DEF SeenInv, Site
<1> QED
  BY <1>1, <1>2, <1>3 DEF Next, vars, OpStep, Edit, Revert, Publish

\* What a write-back can lose was made after the staleness guard
\* (tokenize._refuse_stale_checkpoint, _write_back).
THEOREM WriteBackRespects == ASSUME Disciplined PROVE Spec => WriteBackRespectsChecked
<1>1. Init => SeenInv
  BY DEF Init, SeenInv
<1>2. IInv /\ IInv' /\ SeenInv /\ [Next]_vars => SeenInv'
  BY SeenStep DEF IInv
<1>3. ASSUME IInv, SeenInv, NEW o \in Ops, WriteBack(o),
             trees[Site(o)] = TreesOf(hash[Site(o)])
      PROVE  LET t == job[o].cmd.target
                 before == TreesOf(live[t])
                 after == TreesOf(live'[t])
             IN /\ before \cap job[o].seen \subseteq after
                /\ \A c \in after \ before : c \in job[o].seen \/ c.id = job[o].id
  <2> DEFINE t == job[o].cmd.target
  <2>1. job[o].src = TreesOf(job[o].seen)
    BY <1>3 DEF WriteBack, At, SeenInv
  <2>2. t \in Targets /\ live \in [Targets -> SUBSET Change]
    BY <1>3, CommandType DEF IInv, TypeOK
  <2>3. PICK shows \in SUBSET Routes, over \in SUBSET (job[o].src \cup TreesOf(live[t])) :
           live'[t] = (live[t] \ over) \cup (job[o].src \cap over)
                                      \cup {Delta(o, "tree", shows)}
    BY <1>3, <2>2 DEF WriteBack
  <2>4. Delta(o, "tree", shows).id = job[o].id
    BY DEF Delta
  <2> QED
    BY <2>1, <2>3, <2>4 DEF TreesOf
<1>4. IInv /\ SeenInv /\ [Next]_vars =>
         [\A o \in Ops :
            /\ WriteBack(o)
            /\ hash[Site(o)] # None
            /\ trees[Site(o)] = TreesOf(hash[Site(o)])
            => LET t == job[o].cmd.target
                   before == TreesOf(live[t])
                   after == TreesOf(live'[t])
               IN /\ before \cap job[o].seen \subseteq after
                  /\ \A c \in after \ before :
                        c \in job[o].seen \/ c.id = job[o].id]_vars
  BY <1>3
<1> QED
  BY <1>1, <1>2, <1>4, Invariance, PTL DEF Spec, WriteBackRespectsChecked

---------------------------------------------------------------------------
(***************************************************************************)
(* OptimizeGate implements ProofLedger: each step of the pipeline is a     *)
(* step of each site's promise, or leaves it alone.                        *)
(***************************************************************************)

(* The promise's variables, as the pipeline has them.                      *)

\* The ledger of a site as its promise sees it.
LedgerOf(s) == [i \in DOMAIN ledger[s] |->
                   [change |-> ledger[s][i].id, status |-> StatusOf(ledger[s][i]),
                    judged |-> ledger[s][i].judged]]

\* The transforms' changes that show on a route of a host of the site.
ShownFor(s) == [r \in Routes |->
                   UNION {TransformIds(Look(live[t], r)) : t \in HostsOf(s)}]

\* The routes whose page is in the reference screenshots.
CoveredOf(s) == {r \in Routes : shots[s][r].of = "page"}

\* The transforms' changes in the reference screenshots.
ReferenceOf(s) == [r \in Routes |-> TransformIds(shots[s][r].look)]

\* A change is in the promise's ledger under these statuses when an entry is.
LEMMA ChangesLemma ==
    ASSUME NEW s \in Sites, NEW statuses, NEW x
    PROVE  x \in Promise(s)!Changes(statuses) <=>
              \E i \in DOMAIN ledger[s] :
                 ledger[s][i].id = x /\ StatusOf(ledger[s][i]) \in statuses
BY DEF Promise!Changes

\* So is one that was called proved without a look at a route.
LEMMA UnlookedLemma ==
    ASSUME NEW s \in Sites, NEW r, NEW x
    PROVE  x \in Promise(s)!Unlooked(r) <=>
              \E i \in DOMAIN ledger[s] :
                 ledger[s][i].id = x /\ Unlooked(ledger[s][i], r)
BY DEF Promise!Unlooked, Unlooked

\* A site of a running command has one host, which its baseline is shot from.
LEMMA HostLemma ==
    ASSUME Disciplined, TypeOK, NEW o \in Ops
    PROVE  /\ HostsOf(Site(o)) = {job[o].cmd.target}
           /\ job[o].cmd.clone = job[o].cmd.target
<1>1. job[o].cmd \in Commands /\ job[o].cmd.site = Site(o)
  BY CommandType
<1>2. \A d \in Commands : d.site = Site(o) => d = job[o].cmd
  BY <1>1, OneCommand
<1> QED
  BY <1>1, <1>2 DEF HostsOf, Disciplined

---------------------------------------------------------------------------
(* Each step of the pipeline, as a step of the promise.                    *)

\* What a route shows after a step that saves no ledger is open, waived, or
\* was called proved without a look at it (LiveInv), so that such a step is a
\* change of the host.
LEMMA HostChanges ==
    ASSUME Disciplined, IInv', NEW s \in Sites,
           ledger'[s] = ledger[s], shots'[s] = shots[s]
    PROVE  Promise(s)!Change
<1>1. ASSUME NEW r \in Routes, NEW x \in ShownFor(s)'[r]
      PROVE  x \in Promise(s)!Changes({"pending", "waived"}) \cup Promise(s)!Unlooked(r)
  <2>0. PICK t \in HostsOf(s) : x \in TransformIds(Look(live'[t], r))
    BY <1>1 DEF ShownFor, HostsOf, TransformIds, Look
  <2>1. PICK c \in Look(live'[t], r) : c.by = "transform" /\ c.id = x
    BY <2>0 DEF TransformIds
  <2>2. PICK d \in Commands : d.site = s /\ d.target = t
    BY <2>0 DEF HostsOf
  <2>3. t \in Targets /\ c \in Marked(live'[t], r)
    BY <2>1, <2>2, ConstantsAssumption DEF Look, Marked
  <2>4. PICK e \in Commands : e.target = t /\ Known(e.site, c, r, {"pending", "waived"})'
    BY <2>3 DEF IInv, LiveInv, Marked
  <2>5. e = d
    BY <2>2, <2>4 DEF Disciplined
  <2>6. Known(s, c, r, {"pending", "waived"})
    BY <2>2, <2>4, <2>5 DEF Known, Unlooked, StatusOf
  <2> QED
    BY <2>1, <2>6, ChangesLemma, UnlookedLemma DEF Known
<1>2. /\ LedgerOf(s)' = LedgerOf(s) /\ ReferenceOf(s)' = ReferenceOf(s)
      /\ CoveredOf(s)' = CoveredOf(s)
  BY DEF LedgerOf, ReferenceOf, CoveredOf, StatusOf, TransformIds
<1>3. \A r \in Routes : Promise(s)!Unlooked(r) \subseteq Promise(s)!Changes({"proved"})
  <2> TAKE r \in Routes
  <2>1. ASSUME NEW x \in Promise(s)!Unlooked(r)
        PROVE  x \in Promise(s)!Changes({"proved"})
    BY <2>1, ChangesLemma, UnlookedLemma DEF Unlooked
  <2> QED
    BY <2>1
<1>4. \A r \in Routes : ShownFor(s)'[r] \subseteq
         Promise(s)!Changes({"pending", "waived"}) \cup Promise(s)!Unlooked(r)
  BY <1>1
<1>5. Promise(s)!Changes({"pending", "waived"}) \cup Promise(s)!Changes({"proved"})
         \subseteq Promise(s)!Changes({"pending", "proved", "waived"})
  BY DEF Promise!Changes
<1>6. ShownFor(s)' = [r \in Routes |-> ShownFor(s)'[r]]
  BY DEF ShownFor
<1> DEFINE all == Promise(s)!Changes({"pending", "proved", "waived"})
                    \cup UNION {ShownFor(s)[r] : r \in Routes}
           now == ShownFor(s)'
<1>7. \A r \in Routes : now[r] \in SUBSET all
  BY <1>3, <1>4, <1>5
<1>8. now \in [Routes -> SUBSET all]
  <2> HIDE DEF all
  <2> QED
    BY <1>6, <1>7
<1> QED
  BY <1>2, <1>4, <1>8
     DEF Promise!Change, LedgerOf, ReferenceOf, CoveredOf, ShownFor

\* Old screenshots go, and new ones are taken, while no entry is open.
LEMMA ShotsReplaced ==
    ASSUME Disciplined, IInv, NEW s \in Sites, NEW o \in Ops, s = Site(o),
           WipeShots(o) \/ Shoot(o)
    PROVE  Promise(s)!Rebaseline
<1>1. job[o].cmd.target \in Targets
  BY CommandType DEF IInv
<1>2. UNCHANGED <<ledger, live>> /\ ~Pending(ledger[s])
  BY DEF WipeShots, Shoot, IInv, JobInv, JobOK, At
<1>3. Promise(s)!Changes({"pending"}) = {}
  <2>1. ASSUME NEW x \in Promise(s)!Changes({"pending"}) PROVE FALSE
    <3>1. PICK i \in DOMAIN ledger[s] : StatusOf(ledger[s][i]) = "pending"
      BY <1>1, ChangesLemma
    <3>2. ledger[s][i] \in Entry
      BY <1>1, EntryType DEF IInv
    <3> QED
      BY <1>2, <3>1, <3>2, StatusLemma DEF Pending
  <2> QED
    BY <2>1
<1>4. \A r \in Routes : ReferenceOf(s)'[r] \in {ReferenceOf(s)[r], ShownFor(s)[r], {}}
  <2> TAKE r \in Routes
  <2>1. CASE WipeShots(o)
    <3>1. shots'[s][r] = NoShot
      BY <2>1 DEF WipeShots, IInv, TypeOK
    <3>2. ReferenceOf(s)'[r] = {}
      BY <3>1 DEF ReferenceOf, NoShot, TransformIds
    <3> QED
      BY <3>2
  <2>2. CASE Shoot(o)
    <3>1. PICK q \in Routes :
             shots' = [shots EXCEPT ![s][q] = ShotOf(job[o].cmd.target, q)]
      BY <2>2, CommandType, HostLemma DEF Shoot, Job, IInv
    <3>2. \/ shots'[s][r] = shots[s][r]
          \/ shots'[s][r] = ShotOf(job[o].cmd.target, r)
      BY <3>1 DEF IInv, TypeOK
    <3>3. ShownFor(s)[r] = TransformIds(Look(live[job[o].cmd.target], r))
      BY HostLemma DEF ShownFor, IInv
    <3>4. \/ ReferenceOf(s)'[r] = ReferenceOf(s)[r]
          \/ ReferenceOf(s)'[r] = TransformIds(Look(live[job[o].cmd.target], r))
          \/ ReferenceOf(s)'[r] = {}
      BY <3>2 DEF ReferenceOf, ShotOf, TransformIds
    <3> QED
      BY <3>3, <3>4
  <2> QED
    BY <2>1, <2>2
<1>5. LedgerOf(s)' = LedgerOf(s) /\ ShownFor(s)' = ShownFor(s)
  BY <1>2 DEF LedgerOf, ShownFor, StatusOf, TransformIds, Look, HostsOf
<1> DEFINE all == {ReferenceOf(s)[r] : r \in Routes}
                    \cup {ShownFor(s)[r] : r \in Routes} \cup {{}}
           now == ReferenceOf(s)'
<1>6. now \in [Routes -> all] /\ CoveredOf(s)' \in SUBSET Routes
  <2>1. \A r \in Routes : now[r] \in all
    BY <1>4
  <2>2. now = [r \in Routes |-> now[r]]
    BY DEF ReferenceOf
  <2>3. now \in [Routes -> all]
    <3> HIDE DEF all
    <3> QED
      BY <2>1, <2>2
  <2> QED
    BY <2>3 DEF CoveredOf
<1> QED
  BY <1>3, <1>4, <1>5, <1>6
     DEF Promise!Rebaseline, LedgerOf, ReferenceOf, CoveredOf, ShownFor

\* An apply is recorded under an id the clock gives out for the first time.
LEMMA ApplyRecorded ==
    ASSUME IInv, NEW s \in Sites, NEW o \in Ops, s = Site(o), SaveEntry(o)
    PROVE  Promise(s)!Record
<1> DEFINE e == [id |-> clock + 1, transform |-> job[o].kind,
                 target |-> job[o].cmd.target,
                 oracle |-> "none", waived |-> FALSE, judged |-> {}]
           n == Len(ledger[s])
           p == [change |-> clock + 1, status |-> "pending", judged |-> {}]
<1>1. clock \in Nat /\ clock + 1 \in 1..MaxChanges
  BY ConstantsAssumption DEF SaveEntry, IInv, TypeOK
<1>2. ledger[s] \in Seq(Entry) /\ ledger'[s] = Append(ledger[s], e)
  BY DEF SaveEntry, IInv, TypeOK, JobInv, JobOK, At, Site
<1>3. e \in Entry
  <2>1. job[o].kind \in Kinds
    BY DEF SaveEntry, IInv, JobInv, JobOK, At
  <2> QED
    BY <1>1, <2>1, CommandType DEF Entry, IInv
<1>4. e.id = clock + 1 /\ StatusOf(e) = "pending"
  BY DEF StatusOf
<1>10. e.judged = {}
  OBVIOUS
<1> HIDE DEF e
<1>5. /\ n \in Nat /\ DOMAIN ledger[s] = 1..n
      /\ DOMAIN ledger'[s] = 1..(n + 1)
      /\ \A i \in 1..n : ledger'[s][i] = ledger[s][i]
      /\ ledger'[s][n + 1] = e
  BY <1>2, <1>3, LenProperties, AppendProperties
<1>6. LedgerOf(s)' = [i \in 1..(n + 1) |-> IF i = n + 1 THEN p ELSE LedgerOf(s)[i]]
  <2>1. LedgerOf(s)' = [i \in 1..(n + 1) |->
                [change |-> ledger'[s][i].id, status |-> StatusOf(ledger'[s][i]),
                 judged |-> ledger'[s][i].judged]]
    BY <1>5 DEF LedgerOf, StatusOf
  <2>2. \A i \in 1..n : LedgerOf(s)[i] =
                [change |-> ledger'[s][i].id, status |-> StatusOf(ledger'[s][i]),
                 judged |-> ledger'[s][i].judged]
    BY <1>5 DEF LedgerOf
  <2>3. p = [change |-> ledger'[s][n + 1].id, status |-> StatusOf(ledger'[s][n + 1]),
                judged |-> ledger'[s][n + 1].judged]
    BY <1>4, <1>5, <1>10
  <2> QED
    BY <1>5, <2>1, <2>2, <2>3
<1>7. LedgerOf(s)' = Append(LedgerOf(s), p)
  <2> DEFINE S == {LedgerOf(s)[i] : i \in 1..n} \cup {p}
  <2>1. LedgerOf(s) \in [1..n -> S]
    BY <1>5 DEF LedgerOf
  <2>2. LedgerOf(s) \in Seq(S) /\ Len(LedgerOf(s)) = n /\ p \in S
    BY <1>5, <2>1, SeqDef, LenProperties
  <2> HIDE DEF S
  <2> QED
    BY <1>6, <2>2
<1>8. clock + 1 \notin Promise(s)!Changes(Promise(s)!Status)
  <2>1. \A i \in DOMAIN ledger[s] : ledger[s][i].id <= clock
    BY DEF IInv, IdsInv
  <2>2. \A i \in DOMAIN ledger[s] : ledger[s][i].id # clock + 1
    <3> TAKE i \in DOMAIN ledger[s]
    <3>1. ledger[s][i].id \in Nat
      BY EntryType DEF IInv, Entry
    <3> QED
      BY <1>1, <2>1, <3>1
  <2> QED
    BY <2>2, ChangesLemma
<1>9. /\ ShownFor(s)' = ShownFor(s) /\ ReferenceOf(s)' = ReferenceOf(s)
      /\ CoveredOf(s)' = CoveredOf(s)
  BY DEF SaveEntry, ShownFor, ReferenceOf, CoveredOf, TransformIds, Look, HostsOf
<1> QED
  BY <1>1, <1>7, <1>8, <1>9 DEF Promise!Record, LedgerOf, ShownFor, ReferenceOf, CoveredOf

\* A saved waiver settles the open entries as waived.
LEMMA WaiverSettles ==
    ASSUME IInv, NEW s \in Sites, NEW o \in Ops, s = Site(o), SaveWaiver(o)
    PROVE  Promise(s)!WaiveOpen
<1>1. ledger[s] \in Seq(Entry) /\ ledger'[s] = Waive(ledger[s])
  BY DEF SaveWaiver, IInv, TypeOK, JobInv, JobOK, At, Site
<1>2. \A i \in DOMAIN ledger[s] : ledger[s][i] \in Entry
  BY EntryType DEF IInv
<1>3. LedgerOf(s)' = [i \in DOMAIN ledger[s] |->
                         IF LedgerOf(s)[i].status = "pending"
                         THEN [LedgerOf(s)[i] EXCEPT !.status = "waived"]
                         ELSE LedgerOf(s)[i]]
  <2>1. \A i \in DOMAIN ledger[s] :
           [change |-> ledger'[s][i].id, status |-> StatusOf(ledger'[s][i]),
                 judged |-> ledger'[s][i].judged] =
             IF StatusOf(ledger[s][i]) = "pending"
             THEN [change |-> ledger[s][i].id, status |-> "waived",
                   judged |-> ledger[s][i].judged]
             ELSE [change |-> ledger[s][i].id, status |-> StatusOf(ledger[s][i]),
                   judged |-> ledger[s][i].judged]
    <3> TAKE i \in DOMAIN ledger[s]
    <3>1. ledger'[s][i].judged = ledger[s][i].judged
      BY <1>1, <1>2 DEF Waive, Entry
    <3> QED
      BY <1>1, <1>2, <3>1, WaiveLemma, StatusLemma DEF OnlyAnnotated
  <2>2. DOMAIN ledger'[s] = DOMAIN ledger[s]
    BY <1>1, WaiveLemma
  <2> QED
    BY <2>1, <2>2 DEF LedgerOf, StatusOf
<1>4. /\ ShownFor(s)' = ShownFor(s) /\ ReferenceOf(s)' = ReferenceOf(s)
      /\ CoveredOf(s)' = CoveredOf(s)
  BY DEF SaveWaiver, ShownFor, ReferenceOf, CoveredOf, TransformIds, Look, HostsOf
<1> QED
  BY <1>3, <1>4 DEF Promise!WaiveOpen, LedgerOf, ShownFor, ReferenceOf, CoveredOf

\* A saved verdict settles the open entries as proved when it passes, which
\* it does only while none of them shows on the routes it compared; else it
\* leaves them open.
LEMMA VerdictSettles ==
    ASSUME Disciplined, IInv, NEW s \in Sites, NEW o \in Ops, s = Site(o),
           SaveVerdict(o), ledger'[s] # ledger[s]
    PROVE  Promise(s)!Prove \/ UNCHANGED Promise(s)!vars
<1> DEFINE looked == job[o].routes
<1>1. /\ ledger[s] \in Seq(Entry) /\ looked \in SUBSET Routes
      /\ ledger'[s] = Mark(ledger[s], Verdict(job[o].ok), looked)
      /\ Verdict(job[o].ok) \in {"ok", "failed"}
  BY CommandType DEF SaveVerdict, IInv, TypeOK, JobInv, JobOK, At, Site, Job, Verdict
<1>2. \A i \in DOMAIN ledger[s] : ledger[s][i] \in Entry
  BY EntryType DEF IInv
<1>3. /\ ShownFor(s)' = ShownFor(s) /\ ReferenceOf(s)' = ReferenceOf(s)
      /\ CoveredOf(s)' = CoveredOf(s)
  BY DEF SaveVerdict, ShownFor, ReferenceOf, CoveredOf, TransformIds, Look, HostsOf
<1>4. DOMAIN ledger'[s] = DOMAIN ledger[s]
  BY <1>1, MarkLemma
<1>5. CASE Verdict(job[o].ok) = "ok"
  <2>1. \A i \in DOMAIN ledger[s] :
           [change |-> ledger'[s][i].id, status |-> StatusOf(ledger'[s][i]),
            judged |-> ledger'[s][i].judged] =
             IF StatusOf(ledger[s][i]) = "pending"
             THEN [change |-> ledger[s][i].id, status |-> "proved", judged |-> looked]
             ELSE [change |-> ledger[s][i].id, status |-> StatusOf(ledger[s][i]),
                   judged |-> ledger[s][i].judged]
    <3> TAKE i \in DOMAIN ledger[s]
    <3>1. OnlyAnnotated(ledger[s][i], ledger'[s][i])
      BY <1>1, MarkLemma
    <3>2. IsPending(ledger[s][i]) =>
             StatusOf(ledger'[s][i]) = "proved" /\ ledger'[s][i].judged = looked
      BY <1>1, <1>5, MarkLemma
    <3> QED
      BY <1>2, <3>1, <3>2, StatusLemma DEF OnlyAnnotated
  <2>2. LedgerOf(s)' = [i \in DOMAIN ledger[s] |->
                           IF LedgerOf(s)[i].status = "pending"
                           THEN [LedgerOf(s)[i] EXCEPT !.status = "proved",
                                                       !.judged = looked]
                           ELSE LedgerOf(s)[i]]
    BY <1>4, <2>1 DEF LedgerOf, StatusOf
  <2>3. ASSUME NEW r \in looked
        PROVE  Promise(s)!Changes({"pending"}) \cap ShownFor(s)[r] = {}
    <3> SUFFICES ASSUME NEW x \in Promise(s)!Changes({"pending"}), x \in ShownFor(s)[r]
                 PROVE  FALSE
      OBVIOUS
    <3>1. PICK i \in DOMAIN ledger[s] :
             ledger[s][i].id = x /\ StatusOf(ledger[s][i]) = "pending"
      BY ChangesLemma
    <3>2. PICK c \in Marked(live[job[o].cmd.target], r) : c.id = x
      BY <1>1, <2>3, HostLemma DEF ShownFor, TransformIds, Look, Marked, IInv
    <3>3. IsPending(ledger[s][i])
      BY <1>2, <3>1, StatusLemma
    <3> QED
      BY <1>5, <2>3, <3>1, <3>2, <3>3 DEF SaveVerdict, IInv, JobInv, JobOK, At, Verdict
  <2>4. looked \in SUBSET CoveredOf(s)
    BY <1>1, <1>5 DEF SaveVerdict, IInv, JobInv, JobOK, At, CoveredOf, Verdict
  <2> QED
    BY <1>3, <2>2, <2>3, <2>4
       DEF Promise!Prove, LedgerOf, ShownFor, ReferenceOf, CoveredOf
<1>6. CASE Verdict(job[o].ok) = "failed"
  <2>1. \A i \in DOMAIN ledger[s] :
           [change |-> ledger'[s][i].id, status |-> StatusOf(ledger'[s][i]),
            judged |-> ledger'[s][i].judged] =
           [change |-> ledger[s][i].id, status |-> StatusOf(ledger[s][i]),
            judged |-> ledger[s][i].judged]
    <3> TAKE i \in DOMAIN ledger[s]
    <3>1. OnlyAnnotated(ledger[s][i], ledger'[s][i])
      BY <1>1, MarkLemma
    <3>2. IsPending(ledger[s][i]) => StatusOf(ledger'[s][i]) = "pending"
      BY <1>1, <1>6, MarkLemma DEF IsPending, StatusOf
    <3>3. ledger'[s][i].judged = ledger[s][i].judged
      BY <1>1, <1>6, MarkLemma
    <3> QED
      BY <1>2, <3>1, <3>2, <3>3, StatusLemma DEF OnlyAnnotated
  <2>2. LedgerOf(s)' = LedgerOf(s)
    BY <1>4, <2>1 DEF LedgerOf, StatusOf
  <2> QED
    BY <1>3, <2>2 DEF Promise!vars, LedgerOf, ShownFor, ReferenceOf, CoveredOf
<1> QED
  BY <1>1, <1>5, <1>6

\* A step that leaves the ledger and the screenshots of a site as they are
\* changes its host or does not; the others are the four steps above.
LEMMA StepKeepsPromise ==
    ASSUME Disciplined, IInv, IInv', [Next]_vars, NEW s \in Sites
    PROVE  [Promise(s)!Next]_(Promise(s)!vars)
<1>1. CASE ledger'[s] = ledger[s] /\ shots'[s] = shots[s]
  BY <1>1, HostChanges DEF Promise!Next
<1>2. CASE ledger'[s] # ledger[s] \/ shots'[s] # shots[s]
  <2>1. PICK o \in Ops : OpStep(o)
    BY <1>2 DEF Next, vars, Edit, Revert, Publish, OpStep
  <2>2. s = Site(o)
    BY <1>2, <2>1, Footprint DEF IInv
  <2>3. SaveWaiver(o) \/ SaveEntry(o) \/ SaveVerdict(o) \/ WipeShots(o) \/ Shoot(o)
    BY <1>2, <2>1 DEF OpStep, Baseline, Apply, Oracle, PassGate, ForceGate,
       CapturePages, CaptureManifest, WriteManifest, StaleCheck, NothingToDo,
       LoadLedger, Mint, WriteBack, NoReplacement, StartOracle, RunOracle,
       LoadVerdict, PrintVerdict, Abort, artifacts
  <2>4. CASE SaveWaiver(o)
    BY <2>2, <2>4, WaiverSettles DEF Promise!Next
  <2>5. CASE SaveEntry(o)
    BY <2>2, <2>5, ApplyRecorded DEF Promise!Next
  <2>6. CASE SaveVerdict(o)
    <3>1. shots'[s] = shots[s]
      BY <2>6 DEF SaveVerdict
    <3> QED
      BY <1>2, <2>2, <2>6, <3>1, VerdictSettles DEF Promise!Next
  <2>7. CASE WipeShots(o) \/ Shoot(o)
    BY <2>2, <2>7, ShotsReplaced DEF Promise!Next
  <2> QED
    BY <2>3, <2>4, <2>5, <2>6, <2>7
<1> QED
  BY <1>1, <1>2

\* Nothing is recorded, shown or referred to before the first command.
LEMMA InitKeepsPromise == Init => \A s \in Sites : Promise(s)!Init
<1> SUFFICES ASSUME Init, NEW s \in Sites PROVE Promise(s)!Init
  OBVIOUS
<1>1. LedgerOf(s) = << >>
  BY DEF Init, LedgerOf
<1>2. ShownFor(s) = [r \in Routes |-> {}]
  BY ConstantsAssumption DEF Init, ShownFor, TransformIds, Look, HostsOf
<1>3. CoveredOf(s) = {} /\ ReferenceOf(s) = [r \in Routes |-> {}]
  BY DEF Init, NoShot, CoveredOf, ReferenceOf, TransformIds
<1> QED
  BY <1>1, <1>2, <1>3 DEF Promise!Init, LedgerOf, ShownFor, CoveredOf, ReferenceOf

\* What the ledger promises of each site (ProofLedger) is what the pipeline
\* does, whatever is interrupted, failed, forced, edited or undone
\* (gates.py, tokenize.py, baseline.py).
THEOREM PipelineKeepsPromise == ASSUME Disciplined PROVE Spec => KeepsPromise
<1>1. IInv /\ IInv' /\ [Next]_vars =>
         [\A s \in Sites : [Promise(s)!Next]_(Promise(s)!vars)]_vars
  BY StepKeepsPromise
<1> QED
  BY <1>1, InitKeepsPromise, Invariance, PTL DEF Spec, KeepsPromise

=============================================================================
