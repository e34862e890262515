# A verification project for agent-fault-lab

agent-fault-lab runs small experiments in which an agent (a model, or a script
in its place) calls tools that fail in prescribed ways, and grades what the
agent claims against what is really stored.  The interesting promises are about
what survives: a run is a journal, a task database and a handful of processes,
any of which may die, be late or be interrupted, and the graded result must
still be true.  This directory holds TLA+ modules of that machinery, the TLC
configurations that check them on small instances, and TLAPS proofs of what
matters most.

Paths below are relative to `src/agent_fault_lab/` of the repository.

## Inventory

| part | state it keeps | operations | what is hard |
|---|---|---|---|
| task database `tasks.py` | tables `tasks`, `task_operations` | keyed create, lookup, journal recovery | a write delivered twice; a writer dying inside its transaction |
| tool worker `worker.py` | an evidence file of its own | inject a fault, act on the database, answer on stdout | it is a process: it may be late, orphaned, killed, or answer nothing after its commit |
| supervisor `supervision.py` | the active operation: attempts, remaining and reserved time, result; counters of the run | reserve, start, wait, stop, charge, retry, back off | deadlines race answers; every reservation may be followed by a crash |
| durable run `durable_run.py`, `journal.py` | one checkpoint row and the event list, committed together; artifacts; a file lock | model call, tool call, stop, evaluate, publish, resume | a crash between any two commits, several times; two processes on one database |
| grading `evaluation.py`, `claims.py` | none | inspect storage, read the claim, compare | absence of evidence is not evidence of absence |
| contracts `contracts.py`, `tools.py` | none | validate a response, name an error | what a malformed answer may be taken for |
| in-process experiments `agent.py`, `faults.py`, `experiments.py`, `reliability.py`, `workflow.py` | a fault plan, counters, the conversation | agent loop or fixed workflow, dropped writes, damaged responses | limits; duplicated effects; a success that is not one |
| comparisons `cli.py` | the entries recorded so far, the directory of the run under way | one loop over a balanced schedule, saved whatever ends it | Ctrl-C between any two statements |
| in-process retries `retries.py` | fault plan, attempts, virtual time | attempt, retry, replay | a lost reply after the effect |
| boundary run `boundaries.py`, `permissions.py`, `boundary_records.py` | authority, proposals, receipts and effects in the task database; a checkpoint journal of its own | propose, decide, write, advance, approve, resume | two databases and no transaction across them; expiring and revoked approvals |
| context `context_runtime.py` | the message list, the request's revision | trim, refresh, deliver a reference | stale context |
| study `studies.py`, `study_child.py`, `study_records.py` | a plan of slots, one budget of time, sealed records | start, run, reconcile, resume | children that outlive the controller; a slot run twice; a budget spent twice |
| scanner and gateway `scanner.py`, `semantic_scanner.py`, `semantic_gateway.py`, `semantic_transport.py` | request counter, the first error, the records of the exchanges | scan, exchange, stop | a controller and a server thread that share fields without a lock; processes that ignore a signal |
| verification `verification.py`, `verification_records.py` | workspace, snapshots, results of checks | run an agent, snapshot, check, grade claims | a process of the agent that changes what is being measured |
| external matrix `external.py` | one slot per lifecycle, saved after every step | start a worker, count what it stored, resume it | a worker that dies, hangs or is orphaned between two observations |
| runtimes `runtimes.py`, `runtime_worker.py`, `langgraph_runtime.py` | the boundary run, the evidence of the runtime | drive the two steps with a loop or a graph, time out, stop the worker | a second driver with a recursion limit of its own |
| evaluator audit `evaluator_audit.py`, `audit_*.py` | none | grade a corpus of references with the evaluator and with twelve defective ones | whether the corpus tells each defect from the contract |
| adapters, command lines, reports | none | parse, render, speak HTTP | not state |

`PROJECT.json` lists every part under `components` with what is modelled of it,
and every hazard under `hazards` at the line where it bites.

How the parts of the durable run interact: `run_process` takes the lock file,
creates the task database and the journal and drives the loop.  A tool call
goes through the supervisor, which journals an operation with a fresh id,
reserves an attempt (with the fault it will carry) and time for it, starts a
worker that inherits the lock's file descriptor, and waits for its answer on a
pipe.  The worker shares the task database with its siblings, dead or alive,
and leaves an evidence file the supervisor (or a later session) imports into
the journal, line by line.  When the loop stops, `finalize` has SQLite recover
the database, reads it through an independent read-only connection, records the
evaluation, replaces the artifacts and marks the run finalized.
`resume_process` does the same from whatever checkpoint the journal holds.

How the parts of a boundary run interact: `run_boundary` scans the external
text, creates the permission store and the checkpoint journal, two SQLite files
without a common transaction, and advances the run.  A create call is reserved
in the journal, proposed in the store, decided (by the scenario controller, or
by an operator in a session of its own, `decide_approval`), written in the
store under that decision, and answered in the journal.  `resume_boundary` goes
on from the checkpoint, finds in the store what has been done already, and when
the run has settled trusts or repeats the saved evaluation.

How the parts of a study interact: the controller reserves the budget left and
marks a slot as running, in one replacement of `comparison.json`, and starts a
child which inherits the open file the study's lock is on.  The child makes its
directory, writes its seal when its evidence is complete, and exits; the
controller charges the time and judges the seal.  When the controller dies, its
child goes on and keeps the lock; whoever resumes reconciles the slot left
running from the seal, or gives it up.

How the parts of a scan interact: the controller starts the scanner in a process
group of its own and, for the semantic profile, a gateway whose server thread
accepts one connection at a time and starts a transport process for each
request.  Controller and server thread share `process`, `error`, `requests` and
`records`; whoever finds a deadline passed stops the processes he knows of.

How the parts of a verification interact: the agent runs in a process group over
a copy of the fixture; the controller ends the group, takes a snapshot of
what Git sees of the workspace, runs the independent checks, and takes one more
snapshot after the last of them (`verification.py:843`): if the two differ, the
run is refused.  The claims of the agent are graded against the results.

How the parts of the external matrix interact: a worker prints one record per
invocation and waits for "resume" on its standard input; the controller reads
the record, counts the rows through a connection of its own, and replaces
`comparison.json`.

How the parts of a runtime interact: a controller waits for a worker, which
holds the boundary run and its journal and has a timer thread; the worker drives
the run with the native loop or routes the same two steps in a graph.

## Modules

* `TaskStore` - the database as sets of rows.  A transaction is one step.  `hot`
  says that a dead writer's rollback journal is there: the next read-write
  connection removes it (`RecoverTaskDatabase`), a read-only one cannot read.
* `Worker` - the worker of attempt *k* as a process of its own.  Its stages are
  the points of `perform` between which the outside can tell a difference: the
  request read, the fault recorded, the transaction open, committed, the commit
  recorded in the evidence file, the answer given.  `Kill` may hit between any
  two.
* `Supervisor` - `Supervisor.execute` and all it calls.  `active`,
  `total_attempts` and `fault_cursor` are the journaled `ExecutionState`; `pc`
  and the rest are the process's memory.  Every action ends at the code's next
  `save`, at a wait, or at a process start.  `FaultFor` is the injected-fault
  table, one entry per case.
* `Grading` - claims and evaluation as pure operators.
* `DurableRun` - composes the three: `RunState` as variables, one action per
  journal commit of `_drive` and `finalize`, `Crash`, `InterruptRunner` and
  `WorkerDies`, and `Resume`.
* `ToolService` - the abstract specification: calls are accepted one at a time,
  a creation takes effect at most once and before it is answered, a success is
  answered only after the effect, and one verdict is passed on everything that
  ever took effect.  `DurableRun!ImplementsToolService` is the refinement.
* `Permissions` - the permission store: authority, proposals, effects, and the
  clock.  One operator per method; `Write` is the admission.
* `BoundaryRun` - `boundaries.py` over `Permissions`: `BoundaryState` as
  variables, one action per checkpoint of `tool_step` and `model_step`, the
  scenario controller's transactions, the operator, evaluation and report, kill
  and Ctrl-C; with the contexts of M12 and M13.
* `BoundaryGrading` - `boundary_evaluation.py` and the violations of
  `context_evaluation.py`, which look at the rows again, without the admission.
* `EvaluatorAudit` - the reference corpus of the evaluator audit and its twelve
  defects, over `Grading` and `BoundaryGrading`.
* `ApprovedWrites` - the abstract boundary: one decision per operation, at most
  one task per operation, only as approved and before its call is answered, and
  one answer per call, which names the task if and only if there is one.
  `BoundaryRun!ImplementsApprovedWrites` is the refinement.
* `InProcessRun` - the experiments of a single process, M01 to M07, over
  `TaskStore` and `Grading`: the agent loop or the workflow against one of the
  three executors, and the accounting of the saved observation.
* `Comparison` - the loop of `cli.py` statement by statement, with Ctrl-C before
  any of them.
* `StudyPlan` - the designs of the presets, what a child runs for a slot, and
  what evidence is accepted for it, as pure operators.
* `Study` - `studies.py` and `study_child.py`: one action per replacement of
  `comparison.json`, per start, per mark the child leaves, per death.
* `SlotLedger` - the abstract study: slots are started once each, in order and
  one at a time while there is budget, and settled for good as kept or lost,
  according to their evidence.  `Study!ImplementsSlotLedger` is the refinement.
* `SkillScan` - controller, scanner, server thread and transport of one scan,
  with the unlocked fields they share.
* `Verification` - one controlled coding task with a workspace that may change
  at any time, while the checks read too, and the grading of every claim.
* `ExternalMatrix` - the controller and worker of the reproduction matrix.
* `BoundaryLoop` - the abstract driver of a boundary run: one request at a time,
  a batch worked off before the next request, both budgets, an end that is never
  left, and `CutOff`, after which no answer is taken any more.
* `RuntimeTransfer` - both runtimes with their worker, timer and controller, over
  the checkpoint as `boundaries.py` keeps it (`pending`, `cursor`, `reserved`).
  `RuntimeTransfer!ImplementsBoundaryLoop` is the refinement: what is left of a
  batch is `pending - cursor`, the request under way is read from `reserved` and
  from the place of the worker, and a run the worker has left while the
  checkpoint still says "running" is cut off.
* `MC...` - instances for TLC, one for each of the modules that are run.
* `..._proofs` - the inductive invariants and theorems of `DurableRun`,
  `BoundaryRun`, `Study`, `RuntimeTransfer`, `Verification`, `SkillScan`,
  `ExternalMatrix`, and of `InProcessRun` with `Comparison` (`InProcess_proofs`).

### Correspondence and abstractions

* One commit is one step.  The runner's copy of the checkpoint equals the
  journal between commits, so a crash loses `pc` and the supervisor's locals and
  nothing else.  Event-only commits are modelled where something counts them:
  `run_stopped` (`stops`) and `worker_evidence` (`imports`).  Where a commit of
  the state is followed by event-only commits, a crash between them is the same
  state as a crash before the next action.
* A crash before the journal exists is not modelled: `resume_process` then
  refuses the directory, and no promise has been made.
* Identifiers (`uuid4`) are fresh numbers.  An operation's id is its index in
  `operations`, the history of journaled `operation_started` events.
* `messages` keeps the tool answers only; what the assistant said is `last_turn`.
* An answer is its code and, for a success, its task.  "invalid" stands for an
  unknown tool and for arguments that fail validation: the code treats both
  alike.  `malformed` is an answer `validate_response` rejects; only the fault
  of that name produces one.
* Time is counted in whole units; a wait may last longer than asked
  (`OverrunSeconds`).  A worker with a delay fault cannot answer before
  `DelaySeconds`; every other one takes any time up to the deadline, and the
  deadline may fire at any moment: in the code nothing relates a worker's speed
  to the supervisor's clock.  `spent` is a history variable: the time an
  operation has really used within what was reserved for it.
* A torn last line of an evidence file is the loss of that line (the code
  records a gap and stops there); the gap event itself is not kept.
* `journal_hot`: a SIGKILL inside a commit leaves a rollback journal next to the
  database.  `Journal.read_state` and `BoundaryJournal.read_state` open the file
  read-only, and SQLite then refuses to read it; nothing opens it for writing
  first (`Journal.__init__` begins and ends an empty transaction, which does not
  recover either).  `ResumeRefused` is that failing resume.  `tasks.sqlite3` is
  not affected: `recover_task_database` and the constructor of
  `PermissionStore` roll it back.
* In `BoundaryRun`, `Titles` are the four titles the code knows; the families of
  M12 payloads differ in wording only and are one case with an attacking and one
  with a benign text.  `refreshed` stands for the newest authoritative message
  in `messages`, and `messages` keeps the answered calls.  An operation id is
  <<model call, position, 1 for ":other">>.  `run_id` is left out: a store holds
  one run's rows and refuses another's.  The clock moves on its own up to
  `MaxTime`, never backwards, and past a short grant when the code sleeps.
* A scan's outcome is part of the configuration; `Init` is `run_boundary` up to
  the first checkpoint that counts, and a crash before it is not modelled.
* `harness_error` (any exception while advancing) is not an action: the parts
  `StoreNeverRefuses` and `CheckpointNeverRefused` of `NothingRefused` say that
  the exceptions the code itself raises do not happen.
* The trace projection, timestamps, report text, manifest and fingerprint checks
  are left out: nothing reads them back into the run's state.
* In `InProcessRun` a delivery is what its reader can tell of it: whether it
  parses, reports success, and names a task and a title.
* In `Study` time passes in whole units while a child runs, and a deadline takes
  effect at most `Overrun` late.  What a child runs is the module of its own
  component; here it makes its directory, may seal evidence that fits its slot,
  and may fail, hang or be killed at any point.
* In `SkillScan` the scanner is external: it sends requests, may give one up and
  send it again (which it counts once), counts its calls honestly, and may
  report, crash or hang.  The socket restrictions of its worker and the
  conversion of chat requests appear only as requests that are refused.
* In `Verification` a tree is what the checks tell apart: whether the files
  compile, whether the acceptance cases hold, how the tests come out, which
  paths changed, and whether the repository was kept, moved or broken.  A write
  makes bytes that never were there before (field `edit`).  Two kinds of writes
  escape the second snapshot: `PutBack`, where the process restores the bytes of
  the first one in time, and `IgnoredWrite`, to files Git ignores, which neither
  snapshot reads (`verification.py:181-189`; M19 says that they are not
  assessed).  The code cannot notice either; the history variable `unseen`
  records that one happened while the checks read, and what
  `SavedVerdictsAreTrue` says of verified and contradicted claims is said of the
  other runs.
  `CtrlC` is an interrupt of the verifier itself, in any of its phases: it ends
  without an evaluation.
* In `ExternalMatrix` a framework may call the sink again and again in an
  invocation, up to `MaxSinks(plan)` times, raise, or never return until the
  worker's alarm.  Ctrl-C between `Popen` and the assignment of its result leaves
  a worker nobody holds.  A worker killed in its commit makes the rows
  unreadable.  Of `Slot.consistent`, the comparison of process ids, of
  `first.after` with the state the second invocation started from, and of the
  exact error text are left out (`external_records.py:177-207`): where one of
  them fails, the code calls a lifecycle failed and inconclusive that the model
  calls completed, so it reports nothing the model does not.
* In `EvaluatorAudit` a defect is modelled by the evidence a defective evaluator
  would have to see to grade as it does.  References that differ in what the
  models leave out (the order of rows, irrelevant events, why a reply was lost)
  are one case; the grant of another run is left out, because a store of the
  model has one run.  An identifier of blanks is 0.  The audit's worker processes
  are left out: their failures are errors, and never detections.
* In `RuntimeTransfer` LangGraph is external: it runs the node that `route`
  names, and fails after `RecursionLimit` nodes.  A node may hang; the timer ends
  the worker.  An exception between `Popen`'s fork and the `try` that follows it
  (`runtimes.py:109-117`) leaves the worker without a controller (`pc` = "lost"):
  `NoWorkerLeft` speaks of a controller that got into its `try`, and
  `EventuallyQuiet` of every one.  `Matched` asks for the terminal node whenever
  `_finish` stopped the run, for whatever reason.
* Merged or coarser steps, none of which a property can tell apart.
  `DurableRun!Publish` replaces four artifacts in one step: a crash among them is
  one before it, since a resume writes all four again.  `BoundaryRun!ModelStops`
  is the event-only save `model_returned` together with the checkpoint that
  follows it.  `DurableRun!Consistent` has no clause for `journal.py:115-116`:
  `finalize` hands the terminal result itself to the evaluation
  (`durable_run.py:326`), and a terminal run has no step that changes it.
  `InProcessRun!RetryAccounts` leaves out `contract_errors`, which is 0 there:
  the executor's own answers are well formed.  In `SkillScan!Communicated` a
  transport that is stopped after it has answered counts as failed, although
  `semantic_gateway.py:209-215` X
## Runs

A property is often a conjunction of named parts, one for each question; a
reader of a counterexample evaluates the parts.

| run | instance | question |
|---|---|---|
| `durable` | every fault case x the policies it supports with the create/read/report script; the case that loses replies with two identical creations in one response; a live model that may give any of seven responses at every turn; late clocks and one death of any process | `NothingRefused`: no checkpoint is one `RunState.consistent` refuses, `execute` never meets its two `ValueError`s.  `ExactlyOnce`: one effect per call, answers once and in order, acknowledged writes stored.  `NothingIsRefunded`, `RecordIsTrue`, `OnlyCurrentWorkerLives`, `EvaluationIsFinal`.  The run implements `ToolService`, and ends. |
| `boundary` | every M11 case under both permission policies with blocked and failed scans, every M12 surface and M13 memory under all policies, a live model with six responses in manual, cross-operation, stale-approval and injection runs; an operator, one death, a clock | `NothingRefused`, `ExactlyOnce` (one task per operation, answers true, once and in order), `NoUnauthorizedWrite`, `GradingAgreesWithAdmission`, `SavedEvaluationIsCurrent`, `PoliciesProtect` (scope, claims, freshness).  An enforced run implements `ApprovedWrites`, and every run settles. |
| `study` | the context preset with two repetitions (four slots) and the gated semantic-admission preset in both orders, in live mode; one controller death | `SlotsAreSafe`: no slot gets two children, seals are kept, an orphan owns the slot left running.  `TimeIsBounded`: a crash neither buys time nor hides it.  `ProbesGateTheStudy`, `ManifestAccepted`.  The study implements `SlotLedger`, and ends. |
| `inprocess` | every cell of the claim, response and retry experiments with its fixed callers; a model that may ask or say anything in one cell per mechanism; one storage failure | `RetriesHold`: one effect per operation where the key protects it, and retries recover.  `SuccessIsTrue`: a verified success is one, a false success has its cause.  `RunIsAccepted`: the saved observation adds up. |
| `comparisons` | every comparison of one to five trials, which is all the code allows, failing and raising runs, Ctrl-C anywhere | `ComparisonIsSaved`: what ends is saved as it was, nothing follows a failure, and evidence is lost only in the window of `ctrlc` (`OnlyOverlapIsLost`) |
| `scans` | static and semantic scans, three requests of which two are allowed, retries, oversized evidence, stubborn processes, a hanging scanner, a controller killed or interrupted | `ScanIsSound`: what is admitted was complete and its account of calls true.  `NothingOutlivesTheScan`.  `EvidenceIsFinal`: nothing is sent after an error, saved evidence stays.  Every scan gets quiet. |
| `verifications` | seven trees, all of the claims, agents that end well, badly, too late or by Ctrl-C, a process that goes on writing while the checks read, Ctrl-C for the verifier | `SavedVerdictsAreTrue`: no false claim passes and every contradiction is one, of the repository saved with it.  `StoppedAgentIsGraded`.  Every run is graded, or cut off. |
| `matrix` | every lifecycle alone with up to two calls of the sink in an invocation, and two in a row with one; workers and controllers that die anywhere | `MatrixIsSound`: what is saved can be read back, and what was started is not called unstarted.  `FindingsAreReal`: what was observed is so of the rows.  Every matrix gets quiet. |
| `runtimes` | both runtimes with the budgets of the code and any answers of the model, timers, Ctrl-C, a killed controller or one that lost its worker | `DriverNeverFails`: the graph stays within its recursion limit and is never led to a step that refuses the checkpoint.  `EndsCleanly`: a result is complete, no worker is left.  Both implement `BoundaryLoop` through a map of their checkpoints, and end. |
| `killed` (violated) | the fault cases of `durable`, one death | do interrupted runs continue, as M09 says? |
| `ctrlc` (violated) | the comparisons | does Ctrl-C keep the evidence and name the partial run, as the plan says? |
| `scancrash` (violated) | semantic scans, nobody killed | is a failure retained, as the plan says? |

`MCStudy` and `MCComparison` also state assumptions, which TLC evaluates before
a run: the plan of every preset, in every mode and for one to four repetitions,
is matched (each case, policy and participant has one slot per repetition, the
two policies of a pair are neighbours, and take turns in being first), the
study's inventory accepts all evidence the child of each slot may produce, and
the orders of a comparison are counterbalanced.  `EvaluatorAudit`, which
`MCBoundaryRun` extends, assumes `AuditPasses`: the grading of the models gives
every case of the repository's reference corpus the grade its contract states,
and each of the audit's twelve defects is detected by some case.  That checks the
models' grading against a reference written without it, and the corpus against
the defects.

Deadlock is checked in `durable`, `boundary` and `killed`: a finalized or settled
run can still be resumed (which changes nothing), and so can one with a torn
journal (which fails); every other state must have a step.  The other systems
end, and their runs do not check it; `EventuallyQuiet`, `EventuallyEnded` and
`EventuallyGraded` say where they may stop.

Bounds.  In `durable` `TotalAttempts` (3) exceeds `MaxAttempts` (2), so both
limits are reached separately; with two creations the run-wide limit cuts the
second call short.  `OperationSeconds` (4) lets a second attempt succeed or run
out of time.  `DelaySeconds` (2) exceeds `AttemptSeconds` (1), as in the code's
defaults (3 s against 2 s), so that a delayed worker misses its deadline, and is
within the observation window, so that `observe` sees late answers.  One death
leaves an orphan next to a resumed runner, or a runner without its worker.
`MaxModelCalls` = 3 is the length of the script, so one crash during a model call
already meets the model limit.

In `boundary` a script needs two model calls and at most two tool calls; three
of each let a live model ask for two batches that together meet the tool limit.
`ShortTTL` = 1 and `LongTTL` = 2 within `MaxTime` = 2 let an approval expire
before the write, between the write and its replay, or never.

In `study` four slots of which two are probes are the smallest gated plan; a
budget of two units is used up inside it, and `Overrun` = 1 lets a child take
more than was left.  The theorems hold for any plan and any bounds.  In
`inprocess` three model calls and four tool calls are enough for a creation, a
look and an answer with one call too many.  In `scans` the third request meets
the cap of two.  In `verifications` two writes are one before the snapshot and
one after, or two between the snapshots; the trees are good work and good work
with a defect or two, one for every verdict a check can come to, and every claim
has a verdict of its own, so all of them are asserted at once.  In `matrix` a
second lifecycle shows whether the first one leaks into it, and a second call of
the sink whether a count takes it in; the theorems hold for any number.
`runtimes` uses the code's own budgets (6 and 6), and batches up to 7, one more
than the tool budget.

Fairness.  In `DurableRun`, `WF_vars(RunnerStep)`: the runner is a sequential
process that the operating system schedules, and each of its waits is bounded by
a timeout.  `WF_vars(WorkerRuns(k))`: likewise, and SQLite's writer lock is
released when its holder dies.  `WF_vars(Resume)`: somebody resumes a run that
has not been finalized; without it nothing is promised.  `Crash`,
`InterruptRunner` and `WorkerDies` are not fair and at most `MaxCrashes` happen:
with a crash in every session no run ends.  In `BoundaryRun`,
`WF_vars(SessionStep)` is the sequential session,
`WF_vars(Resume \/ ResumeSettled)` somebody who resumes, and
`SF_vars(OperatorDecides)` an operator who, asked again after every resume of a
waiting run, decides some day; with weak fairness the resumes alone could keep
the operator out for ever, since both need the lock.

In `Study` the controller is sequential with bounded waits, a child ends because
its own limits and alarm end it, also as an orphan, and somebody resumes.  In
`SkillScan` the deadline passes, controller and server thread are scheduled and
wait with timeouts, the scanner's worker ends by its alarm, and a transport by
its socket's timeout; nothing is assumed of SkillSpector.  In `Verification` the
verifier is sequential and time passes, which ends the agent and every check;
nothing is assumed of the agent.  In `ExternalMatrix` the controller is
sequential with a deadline on each wait, and a worker's alarm ends it.  In
`RuntimeTransfer` the worker's timer thread fires, evaluation and the writing of
results end, and the controller waits with a deadline; the steps of the run
itself may hang.  `InProcessRun` and `Comparison` state no fairness: they are
loops over their budgets.

## Findings

Three runs are expected to be violated.

* `killed`: `docs/milestones/M09.md` promises that interrupted compatible runs
  continue.  A runner killed inside a commit of `journal.sqlite3` leaves a hot
  rollback journal; `Journal.read_state` (`journal.py:205`) opens the file with
  `mode=ro`, and SQLite cannot recover it there.  The run can be neither resumed
  nor reported until another program opens the journal for writing.
  `BoundaryJournal.read_state` (`boundary_records.py:196`) fails alike, so that
  the promise of `docs/milestones/M11.md` to deliver a committed task again does
  not hold after such a death either.  The liveness properties of both runs
  therefore say "or the journal is torn".
* `ctrlc`: the plan says that Ctrl-C preserves completed observations and
  identifies the partial run.  Between `entries.append` and `partial = None`
  (`cli.py:572`) the directory of a recorded run is still the partial one: the
  validators of the retry and response comparisons refuse that in the `finally`
  block, and nothing is saved; the M04 comparison saves it and names a run that
  is complete as partial.
* `scancrash`: the plan says that a failure is retained.  `Gateway.__exit__`
  (`semantic_gateway.py:305`) reads `self.process` twice without a lock, and
  nothing keeps the server thread from clearing it in between: `stop(None)` would
  raise what `scan` does not handle, and no result would be saved.  The window is
  narrow: stock CPython 3.12 hardly switches threads between two adjacent reads,
  other builds may.  The plan's sentence (`PLAN.md:1300`) is about the live
  probes, which run through the same `scan`.

## Proofs

Every theorem is for all values of the constants: any limits, titles,
configurations, plans, model responses and numbers of deaths, clocks and
failures that satisfy the named assumptions of the module.  An invariant is
proved as `Init => Inv`, `Inv /\ [Next]_vars => Inv'`, `Inv => Property`; the
inductive ones were checked by TLC on the instances of the runs before.  Each
`..._proofs` module has one lemma per transaction or action that matters, and
one step per action under each part of its invariant.  A refinement is proved as
a map of initial states and of steps: a step of the detailed module that moves
the mapped variables is one named step of the abstract module, every other one
leaves them alone.

### The durable run

`DurableRun_proofs`, under `TotalAttemptsAssumption`, `LimitsAssumption`,
`RunAssumption` and `ConfigAssumption` (the supported policies of each case; any
subset of them):

* `TypeCorrect` - `Spec => []TypeOK`, with the limits of the code's fields;
* `OneWorker` - `Spec => []OnlyCurrentWorkerLives`;
* `EvaluationFinal` - `Spec => []EvaluationIsFinal`;
* `WritesAreTimely` - `Spec => NoLateEffect`;
* `NothingIsRefused` - `Spec => []NothingRefused`;
* `OnceAndTruly` - `Spec => []ExactlyOnce`;
* `NothingRefunded` - `Spec => []NothingIsRefunded`;
* `RecordTrue` - `Spec => []RecordIsTrue`;
* `RunIsService` - `Spec => ImplementsToolService`.

The first four rest on `Inv`.  It adds what the runner's program counter says
about the checkpoint (`ControlInv`: inside `execute` a call is reserved and
unanswered; before `evaluate` the database was recovered), that a reserved call
is the current one of a complete response (`ReservedInv`), that the script reads
an answer only when there is one (`ScriptInv`), that a live worker implies a
supervisor waiting for it or gone (`LiveInv`), and that an evaluation comes in
the terminal phase only (`EvaluationInv`).  The heart of the argument: a worker
lives only while its supervisor is in `dispatch` or dead; leaving `dispatch`
means its exit was confirmed; a new runner needs the lock, which a living worker
still holds.  So rows are written for the reserved call only, hence never after
the evaluation, and at `evaluate` nobody can have reopened a transaction since
the recovery.

The others need `StrongInv`, twelve parts that tie the components to each other
across crashes: the answers and operations in the order of the calls
(`CallsInv`), the response being carried out (`TurnInv`), the operation in hand
(`ActiveInv`), the end of the run (`TerminalInv`), what an operation used, has
left and holds reserved (`BudgetInv`), the faults given out (`FaultInv`), tasks
against ledger rows (`LedgerInv`), every worker against its journaled operation
(`SlotsInv`), every reply, result and transcript entry against the row it speaks
of (`AnswersInv`), the evidence imported so far (`ImportInv`), what was published
(`PublishedInv`), and the script's knowledge (`ScriptedInv`).  The argument for
`ExactlyOnce`: an attempt is started for the operation in hand only, all attempts
of an operation share one ledger key, and a reply that reports success was made
from the row, which is never changed; so the row an answer promises is there
whichever of several attempts made it.  For the refinement a call is open while
it is reserved (`OpenCalls`), its effect is the ledger row, and the verdict is
the rows of the evaluation (`Verdict`): reserving accepts, a commit that adds a
row applies, returning answers, evaluating judges, and crash, resume, retry and
replay are stutters.

The theorems do not depend on `journal_hot`: it only takes steps away.

### The boundary run

`BoundaryRun_proofs`, under `BoundaryAssumption`, `TitlesAssumption`,
`OpIdsAssumption`, `ConfigAssumption` and `TurnsAssumption` (a response is made
of requests the model can make):

* `WritesAreAuthorized` - `Spec => []NoUnauthorizedWrite`;
* `DecisionsStay` - `Spec => DecisionsAreFinal`;
* `NothingIsRefused` - `Spec => []NothingRefused`;
* `OnceAndTruly` - `Spec => []ExactlyOnce`;
* `GradingAgrees` - `Spec => []GradingAgreesWithAdmission`;
* `EvaluationIsCurrent` - `Spec => []SavedEvaluationIsCurrent`;
* `PoliciesKeepTheirPromise` - `Spec => []PoliciesProtect`;
* `BoundaryIsImplemented` - `Spec => ImplementsApprovedWrites`.

There is one lemma per transaction of the store (`ProposeKeeps`, `DecideKeeps`,
`DateBackKeeps`, `ChangeRevisionKeeps`, `WriteKeeps`): it keeps the rows typed,
the valid rows valid and the decided ones decided.  A row the grading finds
valid has an approved proposal, and proposals change only while pending, or when
`WriteKeeps` consumes one that had no effect yet; that a new row is valid is what
`Authorized` compares at that moment.  `Inv` adds to this that the controller
works on a proposed operation and that pending calls are requests, which gives
every proposal its title; the rest of the session does not touch the store
(`QuietSteps`).

`StrongInv` relates the two databases, between which there is no transaction:
`ControlInv` (the place in the session against the checkpoint), `OrderInv`
(operations and answers in the order of the calls; only the call in hand may be
ahead of the transcript), `RequestInv` (the rows of an operation are what its
call asks for), `LedgerInv` (tasks, effects and consumed approvals correspond
one to one) and `AnswersInv` (what is answered, and what is about to be, is what
the store holds).  A crash forgets `pc` and `answer` only, and the parts are
stated so that a resume, which finds the effect and replays it, arrives in a
state they allow.  `EvaluationInv` adds that nothing a settled run is graded by
ever moves (`SettledStep`), and `AgentInv` what the scripted agents do under each
context policy, for `PoliciesProtect`.  In the refinement a decision, a write and
an answer are the three steps of `ApprovedWrites`; its `written` comes from
`effects`, so a write and its replay are one step and a stutter.

### The study

`Study_proofs`, under `StudyAssumption`, which asks of a plan that its preset
exists and that its slots are a design of it (`IsDesign`: cells of the preset,
the probes first):

* `SlotsStaySafe` - `Spec => []SlotsAreSafe`, from `SlotsRunOnce`,
  `EvidenceIsKept` and `OrphansOwnTheirSlot`;
* `TimeStaysBounded` - `Spec => []TimeIsBounded`, from `BudgetHolds` and
  `SpentTimeIsCovered`;
* `Refinement` - `Spec => ImplementsSlotLedger`;
* `StudyTypes` - `Spec => []TypeOK`;
* `ManifestIsAccepted` - `Spec => []ManifestAccepted`;
* `ProbesComeFirst` - `Spec => []ProbesGateTheStudy`;
* `SchedulesAreDesigns` - what `schedule` makes of any shuffles of a preset's
  cases, for any number of repetitions, satisfies `IsDesign`.  So the assumption
  is no more than what the code does;
* `SchedulesAreMatched` - and is matched (`IsMatched`): one slot for every
  repetition, case, participant and policy, the policies of a pair next to each
  other, each first in every other repetition;
* `EvidenceFits` - what the child of any of its slots may seal, in either mode,
  the inventory accepts.

`StudyInv` has three parts besides the types.  `OneAtATime`: at most one slot is
running, and it is the one the controller and a living child are at.  `Traces`: a
slot that is about to be started left no trace, neither child, directory, log nor
seal, and what was settled agrees with its seal.  `Books`: what the child has used
is covered by what is charged, or by what is reserved for it.  The argument: a
slot is marked before its child is started and never marked open again, and a
new controller needs the lock an orphan still holds.  `RecordInv` adds that every
seal is evidence the slot's child may produce, which the inventory accepts in
every cell of every preset (`EvidenceInv`), and that a session going on has no
failed probe behind it (`GateInv`).  `SchedulesAreMatched` gives every slot its
coordinates (repetition, place of the case in the shuffled order, participant,
place of the policy): `PlaceOfSlot` and `SlotOfPlace` show that coordinates and
slots correspond one to one, and `ShuffleIsBijective` that a shuffle has every
case in exactly one place.

### Runs in one process

`InProcess_proofs`, for the runs under `RunAssumption`: any configurations of the
three experiments, any calls and texts of a live model, any number of storage
failures, and limits a fixed caller can live with (three responses, two calls;
the code's are six and six):

* `RunsAreAccepted` - `Spec => []RunIsAccepted`;
* `RetriesAlwaysHold` - `Spec => []RetriesHold`;
* `SuccessIsAlwaysTrue` - `Spec => []SuccessIsTrue`.

`RunInv` is the inductive invariant.  The validators of the saved observations
speak of finished runs, so `AccountsInv` states their equations at every step,
less the attempt in progress; `FlowInv` adds that a second attempt is one of a
create call and means that the fault was used up.  `LedgerInv` follows the
effects of the operation in progress: none before its first attempt, and before
a second one only what the ledger holds, or what the unprotected retry of a lost
reply is about to repeat.  `RetriesRecover` and `FalseSuccessHasItsCause` are
about a whole conversation.  `ScriptInv` follows an honest caller (one to which
none of the four causes applies) turn by turn, over the scripted client, the
client with read-back and the workflow at once: what it waits for is the call its
turn is for, and a success it was told is the one row there is.  `ClaimInv`
concludes that "completed" names that row; `RecoveryInv` that a protected caller
on a working database is told everything it needs, so that no branch of the
scripts but the successful one is left.

The same module has the loops over these runs (`Comparison`), under
`ComparisonAssumption`: any designs of the three kinds, with any number of
trials:

* `ComparisonsAreSaved` - `ComparisonSpec => []ComparisonIsSaved`;
* `OrdersAreCounterbalanced` - every policy runs once under each fault in each
  trial, and of any two the one that runs first changes with every trial.

`ComparisonInv` says, for each statement of the loop, what has been recorded: the
entries are the runs of a beginning of the schedule, all but the last ended well,
and the directory that is set is that of the run under way or, between recording
it and forgetting it, of the one recorded last.  Each way into `finally` then
gives what the validators demand, except from that place (`Overlapping`), where
the model and `ctrlc` show that an interrupt loses a comparison of responses or
retries.  The schedule is defined by what is at each index, so its length needs
no induction.

### Scans, matrices, verifications, runtimes

`SkillScan_proofs`, under `ScanAssumption` (any limit of requests and any number
of messages):

* `ScansAreSound` - `Spec => []ScanIsSound`;
* `NothingIsLeft` - `Spec => []NothingOutlivesTheScan`;
* `ErrorsAreFinal` - `Spec => EvidenceIsFinal`.

The difficulty is that a report accounts for calls the gateway did not see as the
scanner did: a call may be given up, sent again and served twice.  `QueueInv`
numbers the connections and compares what was counted as succeeded with what was
sent; `RecordsInv` says that a gateway without an error has completed all it
counted but the request in progress.  Together: when attempted equals succeeded
no request is left in the queue, so none is in progress (`CheckedInv`), and the
error the controller reads without a lock cannot appear after it has looked.

`ExternalMatrix_proofs`, under `PlansAssumption` (any sequence of lifecycles, any
number of calls of the sink):

* `ManifestIsSound` - `Spec => []MatrixIsSound`;
* `FindingsAreTrue` - `Spec => []FindingsAreReal`.

`PlaceInv` says what memory and manifest hold of the slots before, at and after
the current one, `WorkerInv` whose worker lives and what it may have stored in the
first invocation, and
`FoundInv` which records have been read and which may still be: the record of an
invocation is printed after its rows and read before the next invocation, so the
rows counted with it are its own.

`RuntimeTransfer_proofs`, for any budgets that fit
(`MaxModelCalls + MaxToolCalls + 2 <= 32`, as `LimitsAssumption` says):

* `LimitsFit` - `RuntimeSpec => []DriverNeverFails`: each node visited makes a
  request, or is the last but one, so the nodes never exceed the budgets by more
  than two;
* `RunsEndCleanly` - `RuntimeSpec => []EndsCleanly`, from `ResultsAreComplete`
  and `WorkersAreStopped`;
* `RuntimesImplementLoop` - `RuntimeSpec => ImplementsBoundaryLoop`: a checkpoint
  of a response starts the cursor anew, so what is left is the whole batch, and a
  result moves the cursor and gives up the reservation in one save;
* `RuntimeTypes`.

`Verification_proofs`, for any trees, claims and number of writes, under
`VerificationAssumption`:

* `VerdictsHold` - `Spec => []SavedVerdictsAreTrue`, from `FalseClaimsFail` and
  `ContradictionsHold`;
* `AgentsAreGraded` - `Spec => []StoppedAgentIsGraded`;
* `VerificationTypes`.

The argument: `edit` never decreases, so as long as no write went unseen, a
workspace that equals its snapshot after the last check equalled it during every
one, and a result that is kept is one of the snapshot (`Seen`, `Saved`).

### Only model-checked

Liveness (`EventuallyFinalized`, `EventuallySettled`, `EventuallyEnded`,
`EventuallyGraded` and `EventuallyQuiet`, in the runs that have them), which is
out of the prover's reach, as ENABLED is.
The reference corpus of the evaluator audit (`AuditPasses`), which is an
evaluation.  Every other property of a passing run is stated by a theorem.  The
assumptions of `MCStudy` and `MCComparison` on matched and counterbalanced
designs, evaluated on small designs, are theorems too.

## Not modelled, and the plan

1. *(done)* The durable run with its refinement, and the first theorems.
2. *(done)* The boundary run and its contexts, with their refinement.
3. *(done)* The in-process experiments and retries, and the comparisons.
4. *(done)* The study over its slot ledger, with theorems.
5. *(done)* Scanner and gateway.
6. *(done)* Verification, the external matrix and the runtimes, with theorems on
   the first and the last.
7. *(done)* The evaluator audit's corpus against the models' grading.
8. Pure checks: `trim_complete_turns`, the statistics of deliveries.

Not modelled: manifest, fingerprint and snapshot checks, `doctor` commands and
refused preflights, which read and refuse before anything starts; rendered
reports, statistics and the trace projection, which nothing reads back; the HTTP
adapter and the third-party frameworks, whose answers are open choices of the
models; argument parsing; the test barriers, which stop a process at points
where the models let it die anyway.
