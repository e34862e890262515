------------------------ MODULE Verification_proofs -------------------------
(***************************************************************************)
(* Theorems about Verification, for any trees the agent may write, any     *)
(* sets of claims and any number of writes.  The inductive invariant says  *)
(* which repository the check results are about: as long as the bytes of   *)
(* the snapshot are in place, or were when it was looked at again, and no  *)
(* write escaped it, every result is that of the snapshot or unknown.      *)
(***************************************************************************)
EXTENDS Verification, FiniteSetTheorems, TLAPS

Shapes == [builds : BOOLEAN, fixed : BOOLEAN, suite : Suites, tested : BOOLEAN,
           outside : BOOLEAN, repo : {"kept", "moved", "broken"}, edit : Nat]
Results == [status : {"passed", "failed", "unknown"}, suite : Suites \cup {"none"}]
Working == {"preflight", "agent", "stopped"}
Judging == Checks \cup {"recheck", "grade"}

Types ==
    /\ pc \in Working \cup Judging \cup {"saved", "refused", "cut"}
    /\ tree \in Shapes /\ tree.edit <= MaxWrites
    /\ seen \in Shapes
    /\ stray \in BOOLEAN /\ unseen \in BOOLEAN
    /\ agent \in {"none", "running", "zero", "other", "dead"}
    /\ execution \in [status : {"none", "completed", "failed", "timed_out",
                                "interrupted"},
                      code : Exits]
    /\ report \in [status : {"absent", "valid", "invalid"}, claims : SUBSET Claims]
    /\ trace \in SUBSET Exits
    /\ checks \in [Checks -> Results]

\* The agent is gone, and how it ended is known, before anything is judged.
Phases ==
    /\ pc \in Judging \cup {"stopped", "saved"} => agent \in {"none", "dead"}
    /\ pc = "preflight" => agent = "none"
    /\ pc = "agent" => agent \in {"running", "zero", "other"}
    /\ pc \in {"preflight", "agent"} => execution.status = "none"
    /\ pc \in Judging \cup {"stopped", "saved"} => execution.status # "none"
    /\ execution.status = "completed" => execution.code = "zero"
    /\ pc = "grade" => seen.edit = tree.edit \/ stray
    /\ unseen => stray
    /\ StoppedAgentIsGraded

\* What of the snapshot a check shows.
Shown(c) ==
    LET passes == CASE c = "tests" -> seen.builds /\ seen.suite # "fail"
                    [] c = "build" -> seen.builds
                    [] OTHER -> seen.fixed
    IN  [status |-> IF passes THEN "passed" ELSE "failed",
         suite |-> IF c = "tests" /\ seen.suite # "unreadable" THEN seen.suite
                   ELSE "none"]
OfSnapshot == \A c \in Checks : checks[c] \in {Shown(c), Unknown}

\* The results are of the snapshot while it stands, and for good once it was
\* looked at again.
Seen ==
    /\ seen.edit <= tree.edit
    /\ ~unseen /\ tree.edit = seen.edit => tree = seen
    /\ pc \in Working => \A c \in Checks : checks[c] = Unknown
    /\ pc \in Judging \cup {"saved"} => seen.repo # "broken"
    /\ ~unseen /\ (tree.edit = seen.edit \/ pc \in {"grade", "saved"}) => OfSnapshot

\* What is saved are the verdicts on the claims of the report.
Saved ==
    /\ evaluation # {} =>
          evaluation = {[verdicts |-> [c \in report.claims |-> Verdict(c)],
                         result |-> Result(report.claims)]}
    /\ evaluation # {} => pc = "saved"

VerificationInv == Types /\ Phases /\ Seen /\ Saved

-----------------------------------------------------------------------------
LEMMA InitInv == Init => VerificationInv
  <1> SUFFICES ASSUME Init PROVE VerificationInv
      OBVIOUS
  <1>1. Types
    <2>1. tree \in Shapes /\ seen \in Shapes /\ tree.edit <= MaxWrites
      BY VerificationAssumption DEF Init, Fixture, Shapes, Suites
    <2>2. checks \in [Checks -> Results]
      BY DEF Init, Results, Unknown
    <2> QED BY <2>1, <2>2 DEF Init, Types, Working, Exits
  <1>2. Phases
    BY DEF Init, Phases, Judging, Checks, StoppedAgentIsGraded
  <1>3. \A c \in Checks : checks[c] = Unknown
    BY DEF Init
  <1>4. Seen
    BY <1>3 DEF Init, Seen, OfSnapshot, Fixture, Judging, Checks
  <1>5. Saved
    BY DEF Init, Saved
  <1> QED BY <1>1, <1>2, <1>4, <1>5 DEF VerificationInv

\* What stays as it is when neither the snapshot, the results, the report nor
\* the trace change.
LEMMA SameVerdicts ==
    ASSUME UNCHANGED <<seen, checks, report, trace, evaluation>>
    PROVE  /\ OfSnapshot' = OfSnapshot
           /\ (pc = "saved" => pc' = "saved") /\ Saved => Saved'
  <1>1. OfSnapshot' = OfSnapshot
    BY DEF OfSnapshot, Shown
  <1>2. \A c : Verdict(c)' = Verdict(c)
    BY DEF Verdict, SuiteVerdict, BehaviourVerdict, RegressionVerdict,
           Requirements, CommandsVerdict, ProcessVerdict
  <1>3. Result(report.claims)' = Result(report.claims)
    BY <1>2 DEF Result
  <1> QED BY <1>1, <1>2, <1>3 DEF Saved

LEMMA PreflightInv == VerificationInv /\ Preflight => VerificationInv'
  <1> SUFFICES ASSUME VerificationInv, Preflight PROVE VerificationInv'
      OBVIOUS
  <1>1. Types'
    BY DEF VerificationInv, Types, Preflight, Working, Exits
  <1>2. Phases'
    BY DEF VerificationInv, Phases, Preflight, Judging, Checks,
           StoppedAgentIsGraded
  <1>3. Seen'
    BY SameVerdicts DEF VerificationInv, Seen, Preflight, Working, Judging, Checks
  <1>4. Saved'
    BY SameVerdicts DEF VerificationInv, Preflight
  <1> QED BY <1>1, <1>2, <1>3, <1>4 DEF VerificationInv

\* A write makes bytes the snapshot does not have.
LEMMA WriteInv == VerificationInv /\ Write => VerificationInv'
  <1> SUFFICES ASSUME VerificationInv, Write PROVE VerificationInv'
      OBVIOUS
  <1>1. tree.edit \in Nat /\ seen.edit \in Nat /\ seen.edit <= tree.edit
    BY DEF VerificationInv, Types, Seen, Shapes
  <1>2. PICK t \in Trees :
          tree' = [builds |-> t.builds, fixed |-> t.fixed, suite |-> t.suite,
                   tested |-> t.tested, outside |-> t.outside, repo |-> t.repo,
                   edit |-> tree.edit + 1]
    BY DEF Write
  <1>3. tree' \in Shapes /\ tree'.edit = tree.edit + 1
    BY <1>1, <1>2, VerificationAssumption DEF Shapes
  <1>4. Types'
    BY <1>1, <1>3, VerificationAssumption DEF VerificationInv, Types, Write
  <1>5. tree'.edit # seen.edit
    BY <1>1, <1>3
  <1>6. Phases'
    BY <1>5 DEF VerificationInv, Phases, Write, Judging, Checks,
            StoppedAgentIsGraded
  <1>7. Seen'
    BY <1>1, <1>3, SameVerdicts
       DEF VerificationInv, Seen, Write, Working, Judging, Checks
  <1>8. Saved'
    BY SameVerdicts DEF VerificationInv, Write
  <1> QED BY <1>4, <1>6, <1>7, <1>8 DEF VerificationInv

LEMMA PutBackInv == VerificationInv /\ PutBack => VerificationInv'
  <1> SUFFICES ASSUME VerificationInv, PutBack PROVE VerificationInv'
      OBVIOUS
  <1>1. Types'
    BY VerificationAssumption DEF VerificationInv, Types, PutBack, Seen, Shapes
  <1>2. Phases'
    BY DEF VerificationInv, Phases, PutBack, StoppedAgentIsGraded
  <1>3. Seen'
    BY DEF VerificationInv, Seen, PutBack, Types, Shapes, Working
  <1>4. Saved'
    BY SameVerdicts DEF VerificationInv, PutBack
  <1> QED BY <1>1, <1>2, <1>3, <1>4 DEF VerificationInv

\* A write to ignored files leaves what the snapshot compares, and is remembered.
LEMMA IgnoredWriteInv == VerificationInv /\ IgnoredWrite => VerificationInv'
  <1> SUFFICES ASSUME VerificationInv, IgnoredWrite PROVE VerificationInv'
      OBVIOUS
  <1>1. PICK t \in Trees :
          tree' = [builds |-> t.builds, fixed |-> t.fixed, suite |-> t.suite,
                   tested |-> tree.tested, outside |-> tree.outside,
                   repo |-> tree.repo, edit |-> tree.edit]
    BY DEF IgnoredWrite
  <1>2. tree' \in Shapes /\ tree'.edit = tree.edit
    BY <1>1, VerificationAssumption DEF Shapes, VerificationInv, Types
  <1>3. /\ unseen' = TRUE /\ pc \in Checks \cup {"recheck"} /\ stray
        /\ UNCHANGED <<pc, stray, agent, late, execution, report, trace, seen,
                       checks, evaluation>>
    BY DEF IgnoredWrite
  <1>4. Types'
    <2>1. unseen' \in BOOLEAN
      BY <1>3, Zenon
    <2> QED BY <1>2, <1>3, <2>1 DEF VerificationInv, Types
  <1>5. Phases'
    BY <1>2, <1>3 DEF VerificationInv, Phases, Judging, Checks,
                      StoppedAgentIsGraded
  <1>6. Seen'
    BY <1>2, <1>3 DEF VerificationInv, Seen, Working, Judging, Checks
  <1>7. Saved'
    BY <1>3, SameVerdicts DEF VerificationInv
  <1> QED BY <1>4, <1>5, <1>6, <1>7 DEF VerificationInv

\* Ctrl-C while the verifier works: nothing is saved.
LEMMA CtrlCInv == VerificationInv /\ CtrlC => VerificationInv'
  <1> SUFFICES ASSUME VerificationInv, CtrlC PROVE VerificationInv'
      OBVIOUS
  <1>1. Types'
    BY DEF VerificationInv, Types, CtrlC
  <1>2. Phases'
    BY DEF VerificationInv, Phases, CtrlC, Judging, Checks, StoppedAgentIsGraded
  <1>3. Seen'
    BY SameVerdicts
       DEF VerificationInv, Seen, CtrlC, Working, Judging, Checks
  <1>4. Saved'
    BY DEF VerificationInv, Saved, CtrlC, Checks
  <1> QED BY <1>1, <1>2, <1>3, <1>4 DEF VerificationInv

\* The agent's reports, exit and strays, and the clock.
LEMMA AgentInv ==
    VerificationInv /\ (LeaveProcess \/ Reports \/ AgentExits \/ TimePasses)
        => VerificationInv'
  <1> SUFFICES ASSUME VerificationInv,
                      LeaveProcess \/ Reports \/ AgentExits \/ TimePasses
               PROVE  VerificationInv'
      OBVIOUS
  <1>0. UNCHANGED <<pc, tree, seen, checks, execution, evaluation, unseen>>
    BY DEF LeaveProcess, Reports, AgentExits, TimePasses
  <1>1. Types'
    <2>1. CASE Reports
      <3>1. report' \in [status : {"absent", "valid", "invalid"},
                         claims : SUBSET Claims]
        BY <2>1, VerificationAssumption DEF Reports
      <3>2. trace' \in SUBSET Exits
        BY <2>1 DEF Reports, Exits
      <3> QED BY <1>0, <2>1, <3>1, <3>2 DEF VerificationInv, Types, Reports
    <2>2. CASE LeaveProcess \/ AgentExits \/ TimePasses
      BY <1>0, <2>2 DEF VerificationInv, Types, LeaveProcess, AgentExits,
                        TimePasses
    <2> QED BY <2>1, <2>2
  <1>2. Phases'
    BY <1>0 DEF VerificationInv, Phases, LeaveProcess, Reports, AgentExits,
                TimePasses, StoppedAgentIsGraded, Judging, Checks
  <1>3. Seen'
    BY <1>0 DEF VerificationInv, Seen, OfSnapshot, Shown
  <1>4. Saved'
    <2>1. CASE agent = "running"
      BY <1>0, <2>1 DEF VerificationInv, Phases, Saved
    <2>2. CASE agent # "running"
      BY <1>0, <2>2, SameVerdicts
         DEF VerificationInv, LeaveProcess, Reports, AgentExits, TimePasses
    <2> QED BY <2>1, <2>2
  <1> QED BY <1>1, <1>2, <1>3, <1>4 DEF VerificationInv

\* However the agent ended, its process is stopped and its status is known.
LEMMA EndsInv ==
    ASSUME VerificationInv, pc = "agent",
           NEW s \in {"completed", "failed", "timed_out", "interrupted"},
           NEW code \in Exits, s = "completed" => code = "zero", Ends(s, code)
    PROVE  VerificationInv'
  <1>1. Types'
    BY DEF VerificationInv, Types, Ends, Working
  <1>2. Phases'
    BY DEF VerificationInv, Phases, Ends, Judging, Checks, StoppedAgentIsGraded
  <1>3. Seen'
    BY SameVerdicts DEF VerificationInv, Seen, Ends, Working, Judging, Checks
  <1>4. Saved'
    BY SameVerdicts DEF VerificationInv, Ends
  <1> QED BY <1>1, <1>2, <1>3, <1>4 DEF VerificationInv

LEMMA AgentStopInv ==
    VerificationInv /\ (AgentStopped \/ AgentEnds) => VerificationInv'
  <1> SUFFICES ASSUME VerificationInv, AgentStopped \/ AgentEnds
               PROVE  VerificationInv'
      OBVIOUS
  <1>1. CASE AgentStopped
    <2>1. Codes \subseteq Exits \cup {"dead"}
      BY DEF Codes, Exits, VerificationInv, Types
    <2>2. pc = "agent" /\ "dead" \notin Codes
      BY <1>1 DEF AgentStopped, Codes, VerificationInv, Phases
    <2> QED BY <1>1, <2>1, <2>2, EndsInv DEF AgentStopped
  <1>2. CASE AgentEnds
    BY <1>2, EndsInv DEF AgentEnds, Exits
  <1> QED BY <1>1, <1>2

-----------------------------------------------------------------------------
LEMMA SnapshotInv == VerificationInv /\ Snapshot => VerificationInv'
  <1> SUFFICES ASSUME VerificationInv, Snapshot PROVE VerificationInv'
      OBVIOUS
  <1>1. Types'
    BY DEF VerificationInv, Types, Snapshot, Judging, Checks
  <1>2. Phases'
    BY DEF VerificationInv, Phases, Snapshot, Judging, Checks,
           StoppedAgentIsGraded
  <1>3. Seen'
    <2>1. \A c \in Checks : checks'[c] = Unknown
      BY DEF VerificationInv, Seen, Snapshot, Working
    <2>2. tree.edit \in Nat
      BY DEF VerificationInv, Types, Shapes
    <2> QED BY <2>1, <2>2 DEF VerificationInv, Seen, Snapshot, OfSnapshot,
                              Working, Judging, Checks
  <1>4. Saved'
    BY DEF VerificationInv, Saved, Snapshot
  <1> QED BY <1>1, <1>2, <1>3, <1>4 DEF VerificationInv

\* A check reads the workspace: while the snapshot stands, what it shows is of
\* the snapshot.
LEMMA RunCheckInv ==
    ASSUME VerificationInv, NEW check \in Checks, RunCheck(check)
    PROVE  VerificationInv'
  <1>1. PICK result \in {Observed(check), Unknown} :
          checks' = [checks EXCEPT ![check] = result]
    BY DEF RunCheck
  <1>2. result \in Results
    BY DEF Observed, Unknown, Results, VerificationInv, Types, Shapes, Suites
  <1>3. /\ pc = check /\ pc' \in Judging
        /\ pc' \notin {"grade", "saved"} \cup Working
        /\ UNCHANGED <<unseen, tree, stray, agent, execution, report, trace,
                       seen, evaluation>>
    BY DEF RunCheck, After, Judging, Checks, Working
  <1>4. Types'
    BY <1>1, <1>2, <1>3 DEF VerificationInv, Types, RunCheck
  <1>5. Phases'
    BY <1>3 DEF VerificationInv, Phases, Judging, Checks, StoppedAgentIsGraded
  <1>6. tree = seen => Observed(check) = Shown(check)
    BY DEF Observed, Passes, Shown, Checks
  <1>7. Shown(check)' = Shown(check) /\ \A c : Shown(c)' = Shown(c)
    BY <1>3 DEF Shown
  <1>8. ~unseen /\ tree.edit = seen.edit => OfSnapshot'
    BY <1>1, <1>6, <1>7 DEF VerificationInv, Seen, OfSnapshot, Types
  <1>9. Seen'
    BY <1>3, <1>8 DEF VerificationInv, Seen, Judging, Checks
  <1>10. Saved'
    BY <1>3 DEF VerificationInv, Saved, Checks
  <1> QED BY <1>4, <1>5, <1>9, <1>10 DEF VerificationInv

LEMMA RecheckInv == VerificationInv /\ Recheck => VerificationInv'
  <1> SUFFICES ASSUME VerificationInv, Recheck PROVE VerificationInv'
      OBVIOUS
  <1>1. Types'
    BY DEF VerificationInv, Types, Recheck, Judging
  <1>2. Phases'
    BY DEF VerificationInv, Phases, Recheck, Judging, Checks,
           StoppedAgentIsGraded
  <1>3. Seen'
    BY SameVerdicts
       DEF VerificationInv, Seen, Recheck, Working, Judging, Checks
  <1>4. Saved'
    BY DEF VerificationInv, Saved, Recheck
  <1> QED BY <1>1, <1>2, <1>3, <1>4 DEF VerificationInv

LEMMA GradeInv == VerificationInv /\ Grade => VerificationInv'
  <1> SUFFICES ASSUME VerificationInv, Grade PROVE VerificationInv'
      OBVIOUS
  <1>0. /\ pc = "grade" /\ pc' = "saved"
        /\ UNCHANGED <<unseen, tree, stray, agent, late, execution, report,
                       trace, seen, checks>>
    BY DEF Grade, Consistent, VerificationInv, Phases
  <1>1. Types'
    BY <1>0 DEF VerificationInv, Types
  <1>2. Phases'
    BY <1>0 DEF VerificationInv, Phases, Judging, Checks, StoppedAgentIsGraded
  <1>3. Seen'
    BY <1>0 DEF VerificationInv, Seen, Working, Judging, Checks, OfSnapshot, Shown
  <1>4. \A c : Verdict(c)' = Verdict(c)
    BY <1>0 DEF Verdict, SuiteVerdict, BehaviourVerdict, RegressionVerdict,
                Requirements, CommandsVerdict, ProcessVerdict
  <1>5. Result(report.claims)' = Result(report.claims)
    BY <1>0, <1>4 DEF Result
  <1>6. Saved'
    BY <1>0, <1>4, <1>5 DEF Grade, Saved
  <1> QED BY <1>1, <1>2, <1>3, <1>6 DEF VerificationInv

LEMMA StutterInv == VerificationInv /\ UNCHANGED vars => VerificationInv'
  <1> SUFFICES ASSUME VerificationInv, UNCHANGED vars PROVE VerificationInv'
      OBVIOUS
  <1>1. Types' /\ Phases'
    BY DEF vars, VerificationInv, Types, Phases, StoppedAgentIsGraded
  <1>2. Seen' /\ Saved'
    BY SameVerdicts DEF vars, VerificationInv, Seen
  <1> QED BY <1>1, <1>2 DEF VerificationInv

\* The invariant holds whatever the agent and what it left behind write.
THEOREM VerificationInvariant == Spec => []VerificationInv
  <1>1. VerificationInv /\ [Next]_vars => VerificationInv'
    BY PreflightInv, WriteInv, PutBackInv, IgnoredWriteInv, AgentInv,
       AgentStopInv, CtrlCInv, SnapshotInv, RunCheckInv, RecheckInv, GradeInv, StutterInv
       DEF Next, Verifier
  <1> QED BY InitInv, <1>1, PTL DEF Spec

-----------------------------------------------------------------------------
\* Every variable keeps its type, and nothing is judged before the agent's
\* process is gone.
THEOREM VerificationTypes == Spec => []TypeOK
  <1>1. VerificationInv => TypeOK
    <2> SUFFICES ASSUME VerificationInv PROVE TypeOK
        OBVIOUS
    <2>1. Cardinality(evaluation) \in {0, 1}
      BY FS_EmptySet, FS_Singleton DEF VerificationInv, Saved
    <2>2. tree.edit \in 0 .. MaxWrites /\ seen.edit <= tree.edit
      BY VerificationAssumption DEF VerificationInv, Types, Shapes, Seen
    <2> QED BY <2>1, <2>2
            DEF TypeOK, VerificationInv, Types, Phases, Working, Judging
  <1> QED BY <1>1, VerificationInvariant, PTL

\* What a verdict of a check that is of the snapshot tells of the snapshot.
LEMMA VerdictsAreTrue ==
    ASSUME Types, OfSnapshot, seen.repo # "broken", NEW c \in Claims
    PROVE  /\ Verdict(c) = "verified" => True(c)
           /\ Verdict(c) = "contradicted" =>
                \/ ~True(c)
                \/ c = "regression_test_added" /\ ~seen.tested
                \/ /\ c = "all_requirements_implemented"
                   /\ ~seen.tested \/ ~seen.fixed
                \/ c = "verification_commands_passed" /\ "other" \in trace
  <1>1. /\ checks["tests"] \in {Shown("tests"), Unknown}
        /\ checks["build"] \in {Shown("build"), Unknown}
        /\ checks["acceptance"] \in {Shown("acceptance"), Unknown}
    BY DEF OfSnapshot, Checks
  <1>2. seen.repo \in {"kept", "moved"} /\ seen.suite \in Suites
        /\ seen.outside \in BOOLEAN /\ seen.tested \in BOOLEAN
        /\ seen.builds \in BOOLEAN /\ seen.fixed \in BOOLEAN
    BY DEF Types, Shapes
  <1>3. /\ ProcessVerdict(checks["build"].status) = "verified" => seen.builds
        /\ ProcessVerdict(checks["build"].status) = "contradicted" => ~seen.builds
    BY <1>1, <1>2 DEF Shown, Unknown, ProcessVerdict
  <1>4. /\ BehaviourVerdict = "verified" => seen.fixed
        /\ BehaviourVerdict = "contradicted" => ~seen.fixed
    BY <1>1, <1>2 DEF BehaviourVerdict, Shown, Unknown, ProcessVerdict
  <1>5. /\ SuiteVerdict = "verified" => seen.suite = "pass" /\ seen.builds
        /\ SuiteVerdict = "contradicted" => ~(seen.suite = "pass" /\ seen.builds)
    BY <1>1, <1>2 DEF SuiteVerdict, Shown, Unknown, ProcessVerdict, Suites
  <1>6. /\ RegressionVerdict # "verified"
        /\ RegressionVerdict = "contradicted" => ~seen.tested
    BY <1>2 DEF RegressionVerdict
  <1>7. CommandsVerdict = "contradicted" => "other" \in trace
    BY DEF CommandsVerdict
  <1>8. CASE c = "build_succeeds"
    BY <1>3, <1>8 DEF Verdict, True
  <1>9. CASE c = "all_tests_pass"
    BY <1>5, <1>9 DEF Verdict, True
  <1>10. CASE c = "bug_fixed"
    BY <1>4, <1>10 DEF Verdict, True
  <1>11. CASE c = "regression_test_added"
    BY <1>6, <1>11 DEF Verdict, True
  <1>12. CASE c = "all_requirements_implemented"
    BY <1>4, <1>6, <1>12 DEF Verdict, True, Requirements
  <1>13. CASE c = "only_relevant_files_changed"
    BY <1>2, <1>13 DEF Verdict, True
  <1>14. CASE c = "verification_commands_passed"
    BY <1>7, <1>14 DEF Verdict, True
  <1> QED BY <1>8, <1>9, <1>10, <1>11, <1>12, <1>13, <1>14 DEF Claims

LEMMA SavedVerdicts ==
    ASSUME VerificationInv, pc = "saved", ~unseen,
           NEW e \in evaluation, NEW c \in DOMAIN e.verdicts
    PROVE  /\ c \in Claims /\ e.verdicts[c] = Verdict(c)
           /\ Types /\ OfSnapshot /\ seen.repo # "broken"
  <1>1. e.verdicts = [d \in report.claims |-> Verdict(d)]
    BY DEF VerificationInv, Saved
  <1> QED BY <1>1 DEF VerificationInv, Types, Seen

\* No claim passes that is false of the repository it is saved with, unless a
\* write escaped the second look: put back, or to files Git ignores (run,
\* grade_claims).
THEOREM FalseClaimsFail == Spec => []NoFalseClaimPasses
  <1>1. VerificationInv => NoFalseClaimPasses
    BY SavedVerdicts, VerdictsAreTrue DEF NoFalseClaimPasses
  <1> QED BY <1>1, VerificationInvariant, PTL

\* No claim is contradicted that is true of it (run, grade_claims).
THEOREM ContradictionsHold == Spec => []ContradictionsAreTrue
  <1>1. VerificationInv => ContradictionsAreTrue
    BY SavedVerdicts, VerdictsAreTrue DEF ContradictionsAreTrue
  <1> QED BY <1>1, VerificationInvariant, PTL

\* Whatever ended the agent, its work is graded (invoke_agent, AgentExecution).
THEOREM AgentsAreGraded == Spec => []StoppedAgentIsGraded
  <1>1. VerificationInv => StoppedAgentIsGraded
    BY DEF VerificationInv, Phases
  <1> QED BY <1>1, VerificationInvariant, PTL

\* The two together: saved verdicts are true either way (run, grade_claims).
THEOREM VerdictsHold == Spec => []SavedVerdictsAreTrue
  <1>1. NoFalseClaimPasses /\ ContradictionsAreTrue => SavedVerdictsAreTrue
    BY DEF SavedVerdictsAreTrue
  <1> QED BY <1>1, FalseClaimsFail, ContradictionsHold, PTL
=============================================================================
