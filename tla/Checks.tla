-------------------------------- MODULE Checks --------------------------------
(***************************************************************************)
(* What is checked before anything leaves this machine: the sandbox against*)
(* the pin (buildsmith check), the repository at a commit and a push (its  *)
(* hooks), and a clone before it is handed over (buildsmith verify).  Three*)
(* programs that share no state: a behaviour is one of one of them, chosen *)
(* at the start, and the others stay as they begin.                        *)
(***************************************************************************)
EXTENDS TrapCheck, CommitGate, Verify

VARIABLE work  \* the program whose behaviour this is

checksVars == <<work, trapsVars, commitVars, verifyVars>>

AnyBuilder == CHOOSE b \in Builders : TRUE
AnyClone == CHOOSE c \in Clones : TRUE
NoTraps == builder = AnyBuilder /\ TrapsInit
NoCommit == hooks = [path |-> FALSE, executable |-> TRUE] /\ CommitInit
NoVerify == clone = AnyClone /\ asked = Unset /\ verdict = Unset

Init ==
    \/ work = "traps" /\ TrapsInit /\ NoCommit /\ NoVerify
    \/ work = "commit" /\ NoTraps /\ CommitInit /\ NoVerify
    \/ work = "verify" /\ NoTraps /\ NoCommit /\ VerifyInit

Next ==
    \/ work = "traps" /\ TrapsNext /\ UNCHANGED <<work, commitVars, verifyVars>>
    \/ work = "commit" /\ CommitNext /\ UNCHANGED <<work, trapsVars, verifyVars>>
    \/ work = "verify" /\ VerifyNext /\ UNCHANGED <<work, trapsVars, commitVars>>

Spec == Init /\ [][Next]_checksVars

-----------------------------------------------------------------------------
(* The state of each program is what its steps take it for (check_traps.py,  *)
(* the repository behind the hooks, cmd_verify).                             *)
TypeOK == TrapsTypeOK /\ CommitTypeOK /\ VerifyTypeOK

(* An exit code says what errors.py has it say: 0 proved, 2 could not check, *)
(* for buildsmith check and for buildsmith verify and what it joins.         *)
VerdictIsTrue == TrapsVerdictIsTrue /\ VerifyVerdictIsTrue
=============================================================================
