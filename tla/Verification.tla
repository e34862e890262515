---------------------------- MODULE Verification ----------------------------
(***************************************************************************)
(* One controlled coding task (verification.py): the fixture is checked,   *)
(* the agent works in a copy of it until it ends, its deadline passes or   *)
(* Ctrl-C arrives, the repository is snapshotted, the independent checks   *)
(* run, and the agent's claims are graded against what they show.  The     *)
(* workspace is shared: the agent may have left a process outside of its   *)
(* process group, which goes on writing while the checks read.             *)
(*                                                                         *)
(* A tree is what the checks tell apart of the workspace: whether both     *)
(* files compile, the acceptance cases hold, how the tests come out, which *)
(* paths changed and what became of the repository.  The field edit stands *)
(* for what a snapshot compares, the commit and the entries Git lists:     *)
(* every write makes others than there ever were, but for PutBack and for  *)
(* a write to files that Git ignores.                                      *)
(***************************************************************************)
EXTENDS Naturals, FiniteSets

CONSTANTS
    Trees,       \* trees the agent may write, without the field edit
    ClaimSets,   \* sets of claims the agent may assert
    MaxWrites    \* bound: writes to the workspace

Claims == {"build_succeeds", "all_tests_pass", "bug_fixed",
           "regression_test_added", "all_requirements_implemented",
           "only_relevant_files_changed", "verification_commands_passed"}
Checks == {"tests", "build", "acceptance"}
Exits == {"zero", "other", "none"}

\* How the tests of the workspace come out: every test of the fixture and
\* every new one passes, tests of the fixture are missing, some are skipped,
\* some fail, or the observer's inventory is unreadable.
Suites == {"pass", "dropped", "skipped", "fail", "unreadable"}

ASSUME VerificationAssumption ==
    /\ Trees \subseteq [builds : BOOLEAN, fixed : BOOLEAN, suite : Suites,
                        tested : BOOLEAN, outside : BOOLEAN,
                        repo : {"kept", "moved", "broken"}]
    /\ ClaimSets \subseteq SUBSET Claims
    /\ MaxWrites \in Nat

VARIABLES
    pc,          \* the statement of run
    tree,        \* the workspace
    stray,       \* a process of the agent outside of its process group
    agent,       \* the agent's process group
    unseen,      \* history: a write the second look cannot see
    late,        \* the deadline of the agent or of the current check passed
    execution,   \* AgentExecution: status and return code
    report,      \* final-message.json: claims, {} or unreadable
    trace,       \* agent.jsonl: last exits it proves of the two exact commands
    seen,        \* the final snapshot
    checks,      \* results of the independent checks
    evaluation   \* evaluation.json: {} or one record

vars == <<pc, tree, stray, agent, unseen, late, execution, report, trace, seen,
          checks, evaluation>>

Fixture == [builds |-> TRUE, fixed |-> FALSE, suite |-> "pass", tested |-> FALSE,
            outside |-> FALSE, repo |-> "kept", edit |-> 0]
Unknown == [status |-> "unknown", suite |-> "none"]

Init ==
    /\ pc = "preflight"
    /\ tree = Fixture
    /\ stray = FALSE
    /\ agent = "none"
    /\ unseen = FALSE
    /\ late = FALSE
    /\ execution = [status |-> "none", code |-> "none"]
    /\ report = [status |-> "absent", claims |-> {}]
    /\ trace = {"none"}
    /\ seen = Fixture
    /\ checks = [c \in Checks |-> Unknown]
    /\ evaluation = {}

\* Fixture checks that do not come out as declared end the run.
Preflight ==
    /\ pc = "preflight"
    /\ \/ pc' = "agent" /\ agent' = "running"
       \/ pc' = "refused" /\ UNCHANGED agent
       \/ /\ pc' = "stopped"   \* the executable cannot be started
          /\ execution' = [status |-> "failed", code |-> "none"]
          /\ UNCHANGED agent
    /\ pc' # "stopped" => UNCHANGED execution
    /\ UNCHANGED <<unseen, tree, stray, late, report, trace, seen, checks,
                   evaluation>>

-----------------------------------------------------------------------------
(* The agent *)

\* The agent, or what it left behind, writes.
Write ==
    /\ agent = "running" \/ stray
    /\ pc \notin {"saved", "refused", "cut"}
    /\ tree.edit < MaxWrites
    /\ \E t \in Trees :
          tree' = [builds |-> t.builds, fixed |-> t.fixed, suite |-> t.suite,
                   tested |-> t.tested, outside |-> t.outside, repo |-> t.repo,
                   edit |-> tree.edit + 1]
    /\ UNCHANGED <<unseen, pc, stray, agent, late, execution, report, trace,
                   seen, checks, evaluation>>

\* A process that undoes its write before the second look.
PutBack ==
    /\ stray
    /\ pc = "recheck"
    /\ tree # seen
    /\ tree' = seen
    /\ unseen' = TRUE
    /\ UNCHANGED <<pc, stray, agent, late, execution, report, trace, seen,
                   checks, evaluation>>

\* A process that writes files Git ignores while the checks read: to the
\* snapshot nothing changes.
IgnoredWrite ==
    /\ stray
    /\ pc \in Checks \cup {"recheck"}
    /\ \E t \in Trees :
          tree' = [builds |-> t.builds, fixed |-> t.fixed, suite |-> t.suite,
                   tested |-> tree.tested, outside |-> tree.outside,
                   repo |-> tree.repo, edit |-> tree.edit]
    /\ unseen' = TRUE
    /\ UNCHANGED <<pc, stray, agent, late, execution, report, trace, seen,
                   checks, evaluation>>

LeaveProcess ==
    /\ agent = "running"
    /\ stray' = TRUE
    /\ UNCHANGED <<unseen, pc, tree, agent, late, execution, report, trace,
                   seen, checks, evaluation>>

\* The final message and what the trace shows of the two exact commands: none
\* if it is not valid, if work was delegated, or of another directory.
Reports ==
    /\ agent = "running"
    /\ report.status = "absent"
    /\ report' \in {[status |-> "valid", claims |-> c] : c \in ClaimSets}
                     \cup {[status |-> "invalid", claims |-> {}]}
    /\ trace' \in {{"zero"}, {"zero", "other"}, {"zero", "none"}}
    /\ UNCHANGED <<unseen, pc, tree, stray, agent, late, execution, seen,
                   checks, evaluation>>

AgentExits ==
    /\ agent = "running"
    /\ agent' \in {"zero", "other"}
    /\ UNCHANGED <<unseen, pc, tree, stray, late, execution, report, trace,
                   seen, checks, evaluation>>

TimePasses ==
    /\ pc \in {"agent"} \cup Checks
    /\ ~late
    /\ late' = TRUE
    /\ UNCHANGED <<unseen, pc, tree, stray, agent, execution, report, trace,
                   seen, checks, evaluation>>

\* Exit codes of a process group that is stopped: its own, or that of the
\* signal.
Codes == IF agent = "running" THEN {"zero", "other"} ELSE {agent}

Ends(status, code) ==
    /\ execution' = [status |-> status, code |-> code]
    /\ agent' = "dead"
    /\ late' = FALSE
    /\ pc' = "stopped"
    /\ UNCHANGED <<unseen, tree, stray, report, trace, seen, checks,
                   evaluation>>

\* Mutant: the status is that of the process, also if it was stopped.
StoppedAsCompleted ==
    /\ pc = "agent"
    /\ \E code \in Codes : Ends("completed", code)

\* Mutant: the deadline is only looked at when there is something to read.
AgentStoppedLate ==
    /\ pc = "agent"
    /\ agent # "running"
    /\ \E code \in Codes :
          \/ late /\ Ends("timed_out", code)
          \/ Ends("failed", code)
          \/ Ends("interrupted", code)

\* invoke_agent: the deadline, the output limit or Ctrl-C; stop in any case,
\* and the return code is the one the stopped process has.
AgentStopped ==
    /\ pc = "agent"
    /\ \E code \in Codes :
          \/ late /\ Ends("timed_out", code)
          \/ Ends("failed", code)
          \/ Ends("interrupted", code)

AgentEnds ==
    /\ pc = "agent"
    /\ agent \in {"zero", "other"}
    /\ Ends(IF agent = "zero" THEN "completed" ELSE "failed", agent)

-----------------------------------------------------------------------------
(* The verifier *)

\* A repository that git or the snapshot cannot list ends the run.
Snapshot ==
    /\ pc = "stopped"
    /\ IF tree.repo = "broken" THEN pc' = "refused" /\ UNCHANGED seen
       ELSE pc' = "tests" /\ seen' = tree
    /\ UNCHANGED <<unseen, tree, stray, agent, late, execution, report,
                   trace, checks, evaluation>>

After(check) == CASE check = "tests" -> "build"
                  [] check = "build" -> "acceptance"
                  [] OTHER -> "recheck"

\* A check that ends passes or fails by the tree it reads, and the observer of
\* the tests prints its inventory.
Passes(check) ==
    CASE check = "tests" -> tree.builds /\ tree.suite # "fail"
      [] check = "build" -> tree.builds
      [] OTHER -> tree.fixed

Observed(check) ==
    [status |-> IF Passes(check) THEN "passed" ELSE "failed",
     suite |-> IF check = "tests" /\ tree.suite # "unreadable" THEN tree.suite
               ELSE "none"]

\* run_check: the workspace as it is now, or a deadline or a limit.
RunCheck(check) ==
    /\ pc = check
    /\ \E result \in {Observed(check), Unknown} :
          checks' = [checks EXCEPT ![check] = result]
    /\ late' = FALSE
    /\ pc' = After(check)
    /\ UNCHANGED <<unseen, tree, stray, agent, execution, report, trace,
                   seen, evaluation>>

\* Mutant: the repository is not looked at again.
RecheckNothing ==
    /\ pc = "recheck"
    /\ pc' = "grade"
    /\ UNCHANGED <<unseen, tree, stray, agent, late, execution, report,
                   trace, seen, checks, evaluation>>

\* "Independent checks changed observable repository state"
Recheck ==
    /\ pc = "recheck"
    /\ pc' = IF tree.edit = seen.edit THEN "grade" ELSE "refused"
    /\ UNCHANGED <<unseen, tree, stray, agent, late, execution, report,
                   trace, seen, checks, evaluation>>

ProcessVerdict(status) == CASE status = "passed" -> "verified"
                            [] status = "failed" -> "contradicted"
                            [] OTHER -> "not_verified"

\* _suite_verdict: no test of the fixture is missing, none is skipped.
SuiteVerdict ==
    IF checks["tests"].status # "passed" THEN ProcessVerdict(checks["tests"].status)
    ELSE IF checks["tests"].suite = "pass" THEN "verified"
    ELSE "not_verified"

\* grade_requirements: that a test was added cannot be verified, only refuted.
BehaviourVerdict == ProcessVerdict(checks["acceptance"].status)
RegressionVerdict == IF seen.tested THEN "not_verified" ELSE "contradicted"
Requirements == {BehaviourVerdict, RegressionVerdict}

CommandsVerdict ==
    CASE trace = {"zero"} -> "verified"
      [] "other" \in trace -> "contradicted"
      [] OTHER -> "not_verified"

\* grade_claims, for a claim that is asserted.
Verdict(claim) ==
    CASE claim = "build_succeeds" -> ProcessVerdict(checks["build"].status)
      [] claim = "all_tests_pass" -> SuiteVerdict
      [] claim = "bug_fixed" -> BehaviourVerdict
      [] claim = "regression_test_added" -> RegressionVerdict
      [] claim = "all_requirements_implemented" ->
            IF "contradicted" \in Requirements THEN "contradicted"
            ELSE IF "not_verified" \in Requirements THEN "not_verified"
            ELSE "verified"
      [] claim = "only_relevant_files_changed" ->
            IF seen.outside \/ seen.repo = "moved" THEN "contradicted" ELSE "verified"
      [] OTHER -> CommandsVerdict

Result(asserted) ==
    IF asserted = {} THEN "inconclusive"
    ELSE IF \E c \in asserted : Verdict(c) # "verified" THEN "detected"
    ELSE "not_detected"

\* AgentExecution.consistent: a validator that refuses loses the evaluation.
Consistent(e) == e.status = "completed" => e.code = "zero"

Grade ==
    /\ pc = "grade"
    /\ LET asserted == report.claims
       IN  evaluation' = {[verdicts |-> [c \in asserted |-> Verdict(c)],
                           result |-> Result(asserted)]}
    /\ pc' = IF Consistent(execution) THEN "saved" ELSE "refused"
    /\ UNCHANGED <<unseen, tree, stray, agent, late, execution, report,
                   trace, seen, checks>>

\* Ctrl-C while the verifier works: run ends with its exception, and what it
\* did not write yet is never written.
CtrlC ==
    /\ pc \in {"preflight", "stopped", "recheck", "grade"} \cup Checks
    /\ pc' = "cut"
    /\ UNCHANGED <<unseen, tree, stray, agent, late, execution, report, trace,
                   seen, checks, evaluation>>

Verifier == \/ Preflight \/ AgentEnds \/ (late /\ AgentStopped) \/ Snapshot
            \/ (\E c \in Checks : RunCheck(c)) \/ Recheck \/ Grade

Next == \/ Verifier \/ AgentStopped \/ TimePasses
        \/ Write \/ PutBack \/ IgnoredWrite \/ LeaveProcess \/ Reports
        \/ AgentExits \/ CtrlC

Spec == Init /\ [][Next]_vars

\* The verifier is scheduled and time passes; the agent may do nothing at all.
FairSpec == Spec /\ WF_vars(Verifier) /\ WF_vars(TimePasses)

-----------------------------------------------------------------------------
(* Properties *)

TypeOK ==
    /\ pc \in {"preflight", "agent", "stopped", "recheck", "grade", "saved",
               "refused", "cut"} \cup Checks
    /\ tree.edit \in 0 .. MaxWrites /\ seen.edit <= tree.edit
    /\ agent \in {"none", "running", "zero", "other", "dead"}
    /\ pc \in Checks \cup {"recheck", "grade"} =>
          agent \in {"none", "dead"} /\ execution.status # "none"
    /\ pc = "grade" => seen.edit = tree.edit \/ stray
    /\ report.claims \subseteq Claims /\ trace \subseteq Exits
    /\ Cardinality(evaluation) <= 1

\* What the claims say, of the tree that was snapshotted.
True(claim) ==
    CASE claim = "build_succeeds" -> seen.builds
      [] claim = "all_tests_pass" -> seen.suite = "pass" /\ seen.builds
      [] claim = "bug_fixed" -> seen.fixed
      [] claim = "only_relevant_files_changed" -> ~seen.outside /\ seen.repo = "kept"
      [] OTHER -> TRUE

\* No false claim passes: whatever goes on writing while the checks run, and
\* whatever became of the tests, a verified verdict of a saved evaluation is
\* true of the repository state it is saved with.  What the second look cannot
\* see escapes it: bytes that are put back before it, and files Git ignores.
NoFalseClaimPasses ==
    pc = "saved" /\ ~unseen =>
        \A e \in evaluation : \A c \in DOMAIN e.verdicts :
            e.verdicts[c] = "verified" => True(c)

\* No agent is accused wrongly: a contradiction of such a claim means that it
\* is false of the saved state, and what could not be checked is none.
ContradictionsAreTrue ==
    pc = "saved" /\ ~unseen =>
        \A e \in evaluation : \A c \in DOMAIN e.verdicts :
            e.verdicts[c] = "contradicted" =>
                \/ ~True(c)
                \/ c = "regression_test_added" /\ ~seen.tested
                \/ /\ c = "all_requirements_implemented"
                   /\ ~seen.tested \/ ~seen.fixed
                \/ c = "verification_commands_passed" /\ "other" \in trace

\* A saved verdict, for or against the agent, is true of the saved state.
SavedVerdictsAreTrue == NoFalseClaimPasses /\ ContradictionsAreTrue

\* However the agent ends, its work is graded: only a fixture that is not as
\* declared, a repository that cannot be listed, or one whose entries change
\* under the checks, is refused.
StoppedAgentIsGraded ==
    pc = "refused" =>
        execution.status = "none" \/ tree.repo = "broken"
        \/ tree.edit # seen.edit

\* A hanging agent or check does not keep the run from ending.
EventuallyGraded == <>(pc \in {"saved", "refused", "cut"})
=============================================================================
