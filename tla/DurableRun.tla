----------------------------- MODULE DurableRun -----------------------------
(***************************************************************************)
(* A durable run (durable_run.py, journal.py): the model/tool loop whose   *)
(* every step is one journal transaction, its finalization, and the resume *)
(* that takes it up again after the runner died.                           *)
(*                                                                         *)
(* One step of this module is one journal commit, or one step of a worker. *)
(* The checkpoint variables are what RunState persists; between commits    *)
(* the runner's in-memory copy equals them, so a crash loses only pc and   *)
(* the supervisor's locals.  A runner may die (SIGKILL) before any step;   *)
(* its worker lives on, and so does the worker's share of the run lock.    *)
(***************************************************************************)
EXTENDS Supervisor, Grading

CONSTANTS
    MaxModelCalls,    \* Limits.max_model_calls
    MaxToolCalls,     \* Limits.max_tool_calls
    ExpectedTitle,    \* RunState.expected_title
    Configs,          \* the configurations a run may be started with
    LiveTurns,        \* the responses a live model may give
    MaxCrashes        \* bound: processes that die in one behaviour

ASSUME RunAssumption ==
    /\ MaxModelCalls \in Nat
    /\ MaxToolCalls \in Nat
    /\ ExpectedTitle \in Titles
    /\ MaxCrashes \in Nat

VARIABLES
    phase, model_calls, tool_calls, tool_executions, script_cursor,
    messages,         \* the tool answers appended to the conversation
    last_turn, pending, tool_cursor, tool_reserved,
    terminal, evaluation, finalized,
    stops,            \* journaled run_stopped events
    observation,      \* observation.json (and the files written with it)
    crashes,
    journal_hot       \* a killed commit's rollback journal is lying around

checkpoint == <<phase, model_calls, tool_calls, tool_executions, script_cursor,
                messages, last_turn, pending, tool_cursor, tool_reserved,
                terminal, evaluation, finalized>>
journal == <<checkpoint, stops, observation>>
deaths == <<crashes, journal_hot>>
vars == <<config, supervisor, pc, worker, evidence, store, journal, deaths>>

\* A model response: tool calls, a text (ModelTurn.content, never None), and
\* whether it hit the output limit.
Turns == [tool_calls : Seq(Calls),
          content : {c \in Contents : c.status # "absent"}, length : BOOLEAN]
NoTurn == [tool_calls |-> << >>, content |-> Absent, length |-> FALSE]

Statuses == {"finished", "model_limit", "tool_limit", "provider_error",
             "protocol_error"}
Results == [status : Statuses \cup {"none"}, content : Contents,
            model_calls : Nat, tool_calls : Nat, tool_executions : Nat]
NoResult == [status |-> "none", content |-> Absent, model_calls |-> 0,
             tool_calls |-> 0, tool_executions |-> 0]
NoEvaluation == [status |-> "none", rows |-> {}, task_outcome |-> "none",
                 claim_support |-> "none", false_success |-> "none"]
NoObservation == [evaluation |-> NoEvaluation, attempts |-> 0, counted |-> << >>]

ASSUME ConfigAssumption ==
    /\ Configs \subseteq
          [case : Cases,
           policy : {"process-single", "bounded-retry", "observe", "terminate"},
           mode : {"offline", "live"},
           script : {"create-read-report-v1", "batch-two-v1"}]
    /\ \A c \in Configs : c.policy \in PoliciesFor(c.case)
    /\ LiveTurns \subseteq Turns

DurableInit ==
    /\ phase = "model"
    /\ model_calls = 0
    /\ tool_calls = 0
    /\ tool_executions = 0
    /\ script_cursor = 0
    /\ messages = << >>
    /\ last_turn = NoTurn
    /\ pending = << >>
    /\ tool_cursor = 0
    /\ tool_reserved = FALSE
    /\ terminal = NoResult
    /\ evaluation = NoEvaluation
    /\ finalized = FALSE
    /\ stops = 0
    /\ observation = NoObservation
    /\ crashes = 0
    /\ journal_hot = FALSE

\* run_process up to _drive: lock taken, store, manifest and journal created.
Init ==
    /\ config \in Configs
    /\ StoreInit
    /\ WorkerInit
    /\ SupervisorInit
    /\ DurableInit

CallId == <<model_calls, tool_cursor + 1>>
Current == pending[tool_cursor + 1]

-----------------------------------------------------------------------------
(* _drive: the model phase *)

\* stop: the terminal result, its counts and the run_stopped event together.
Stop(status, content) ==
    /\ terminal' = [status |-> status, content |-> content,
                    model_calls |-> model_calls, tool_calls |-> tool_calls,
                    tool_executions |-> tool_executions]
    /\ phase' = "terminal"
    /\ stops' = stops + 1
    /\ pc' = "drive"
    /\ UNCHANGED <<config, supervisor, worker, evidence, store, model_calls,
                   tool_calls, tool_executions, script_cursor, messages,
                   last_turn, pending, tool_cursor, tool_reserved, evaluation,
                   finalized, observation, deaths>>

ModelLimit ==
    /\ pc = "drive"
    /\ phase = "model"
    /\ model_calls >= MaxModelCalls
    /\ Stop("model_limit", Absent)

RequestModel ==
    /\ pc = "drive"
    /\ phase = "model"
    /\ model_calls < MaxModelCalls
    /\ model_calls' = model_calls + 1
    /\ pc' = "model"
    /\ UNCHANGED <<config, supervisor, worker, evidence, store, phase,
                   tool_calls, tool_executions, script_cursor, messages,
                   last_turn, pending, tool_cursor, tool_reserved, terminal,
                   evaluation, finalized, stops, observation, deaths>>

Create(title) == [name |-> "create_task", arg |-> title]
Get(task) == [name |-> "get_task", arg |-> task]
Asks(calls) == [tool_calls |-> calls, content |-> Blank, length |-> FALSE]
Says(status, task) ==
    [tool_calls |-> << >>, content |-> [status |-> status, task |-> task],
     length |-> FALSE]

\* scripted_turn: create, read back what the answer named, report.
ScriptedTurn ==
    LET create == Create(ExpectedTitle)
        value == messages[Len(messages)].answer.task
    IN  CASE script_cursor = 0 ->
                Asks(IF config.script = "batch-two-v1" THEN <<create, create>>
                                                       ELSE <<create>>)
          [] /\ script_cursor = 1
             /\ value # 0
             /\ config.script = "create-read-report-v1" -> Asks(<<Get(value)>>)
          [] OTHER -> IF value # 0 THEN Says("completed", value)
                                   ELSE Says("unknown", 0)

ModelReturns ==
    /\ pc = "model"
    /\ \E turn \in IF config.mode = "offline" THEN {ScriptedTurn}
                                              ELSE LiveTurns :
          /\ last_turn' = turn
          /\ pending' = turn.tool_calls
    /\ script_cursor' = IF config.mode = "offline" THEN script_cursor + 1
                                                   ELSE script_cursor
    /\ tool_cursor' = 0
    /\ phase' = "tools"
    /\ pc' = "drive"
    /\ UNCHANGED <<config, supervisor, worker, evidence, store, model_calls,
                   tool_calls, tool_executions, messages, tool_reserved,
                   terminal, evaluation, finalized, stops, observation, deaths>>

ProviderFails ==
    /\ pc = "model"
    /\ config.mode = "live"
    /\ Stop("provider_error", Absent)

-----------------------------------------------------------------------------
(* _drive: the tools phase.  A saved response is interpreted the same way    *)
(* right after its commit and after a restart.                               *)

InTools == pc = "drive" /\ phase = "tools"

StopTruncated ==
    /\ InTools
    /\ last_turn.length
    /\ Stop("protocol_error",
            IF last_turn.tool_calls = << >> THEN last_turn.content ELSE Absent)

StopAnswered ==
    /\ InTools
    /\ ~last_turn.length
    /\ pending = << >>
    /\ Stop(IF last_turn.content.status = "blank" THEN "protocol_error"
                                                  ELSE "finished",
            last_turn.content)

ModelReady ==
    /\ InTools
    /\ ~last_turn.length
    /\ pending # << >>
    /\ tool_cursor = Len(pending)
    /\ phase' = "model"
    /\ pending' = << >>
    /\ tool_cursor' = 0
    /\ UNCHANGED <<config, supervisor, pc, worker, evidence, store, model_calls,
                   tool_calls, tool_executions, script_cursor, messages,
                   last_turn, tool_reserved, terminal, evaluation, finalized,
                   stops, observation, deaths>>

AtTool == InTools /\ ~last_turn.length /\ tool_cursor < Len(pending)

ToolLimit ==
    /\ AtTool
    /\ ~tool_reserved
    /\ tool_calls >= MaxToolCalls
    /\ Stop("tool_limit", Absent)

ReserveTool ==
    /\ AtTool
    /\ ~tool_reserved
    /\ tool_calls < MaxToolCalls
    /\ tool_calls' = tool_calls + 1
    /\ tool_reserved' = TRUE
    /\ UNCHANGED <<config, supervisor, pc, worker, evidence, store, phase,
                   model_calls, tool_executions, script_cursor, messages,
                   last_turn, pending, tool_cursor, terminal, evaluation,
                   finalized, stops, observation, deaths>>

\* supervisor.execute(call, call_id), up to its attempt loop.
Execute ==
    /\ AtTool
    /\ tool_reserved
    /\ \/ RejectCall(Current)
       \/ StartOperation(Current, CallId)
       \/ ReuseResult(Current, CallId)
       \/ ReenterOperation(Current, CallId)
    /\ UNCHANGED <<config, journal, deaths>>

Delivered == IF Current.name = "invalid" THEN Answer("invalid_arguments")
             ELSE active.result

\* Mutant: the answered call stays reserved.
ReturnToolReserved ==
    /\ pc = "return"
    /\ messages' = Append(messages, [call_id |-> CallId, call |-> Current,
                                     answer |-> Delivered])
    /\ tool_cursor' = tool_cursor + 1
    /\ tool_executions' = IF Current.name = "invalid" THEN tool_executions
                                                      ELSE tool_executions + 1
    /\ pc' = "drive"
    /\ UNCHANGED <<config, supervisor, worker, evidence, store, phase,
                   model_calls, tool_calls, script_cursor, last_turn, pending,
                   tool_reserved, terminal, evaluation, finalized, stops,
                   observation, deaths>>

ReturnTool ==
    /\ pc = "return"
    /\ messages' = Append(messages, [call_id |-> CallId, call |-> Current,
                                     answer |-> Delivered])
    /\ tool_cursor' = tool_cursor + 1
    /\ tool_reserved' = FALSE
    /\ tool_executions' = IF Current.name = "invalid" THEN tool_executions
                                                      ELSE tool_executions + 1
    /\ pc' = "drive"
    /\ UNCHANGED <<config, supervisor, worker, evidence, store, phase,
                   model_calls, tool_calls, script_cursor, last_turn, pending,
                   terminal, evaluation, finalized, stops, observation, deaths>>

-----------------------------------------------------------------------------
(* finalize *)

\* Mutant: the evaluator opens the database as the dead worker left it.
PrepareNothing ==
    /\ pc = "drive"
    /\ phase = "terminal"
    /\ evaluation = NoEvaluation
    /\ pc' = "evaluate"
    /\ UNCHANGED <<config, supervisor, worker, evidence, store, journal, deaths>>

\* recover_task_database before the evaluator's read-only connection.
PrepareEvaluation ==
    /\ pc = "drive"
    /\ phase = "terminal"
    /\ evaluation = NoEvaluation
    /\ RecoverTaskDatabase
    /\ pc' = "evaluate"
    /\ UNCHANGED <<config, supervisor, worker, evidence, journal, deaths>>

Evaluate ==
    /\ pc = "evaluate"
    /\ evaluation' = EvaluateRun(InspectState(tasks, hot), ExpectedTitle,
                                 terminal)
    /\ pc' = "publish"
    /\ UNCHANGED <<config, supervisor, worker, evidence, store, phase,
                   model_calls, tool_calls, tool_executions, script_cursor,
                   messages, last_turn, pending, tool_cursor, tool_reserved,
                   terminal, finalized, stops, observation, deaths>>

SkipEvaluation ==
    /\ pc = "drive"
    /\ phase = "terminal"
    /\ evaluation # NoEvaluation
    /\ pc' = "publish"
    /\ UNCHANGED <<config, supervisor, worker, evidence, store, journal,
                   deaths>>

\* process_counts and measure (which insists on one run_stopped event) over
\* the journal, then result, evaluation, observation and report, each
\* replaced atomically; a later session overwrites all of them.
Publish ==
    /\ pc = "publish"
    /\ stops = 1
    /\ observation' = [evaluation |-> evaluation, attempts |-> total_attempts,
                       counted |-> imports]
    /\ pc' = "finalize"
    /\ UNCHANGED <<config, supervisor, worker, evidence, store, checkpoint,
                   stops, deaths>>

\* Mutant: the artifacts are written but the journal is not told.
FinalizeUncommitted ==
    /\ pc = "finalize"
    /\ pc' = "down"
    /\ UNCHANGED <<config, supervisor, worker, evidence, store, journal,
                   deaths>>

Finalize ==
    /\ pc = "finalize"
    /\ finalized' = TRUE
    /\ pc' = "down"
    /\ UNCHANGED <<config, supervisor, worker, evidence, store, phase,
                   model_calls, tool_calls, tool_executions, script_cursor,
                   messages, last_turn, pending, tool_cursor, tool_reserved,
                   terminal, evaluation, stops, observation, deaths>>

-----------------------------------------------------------------------------
(* Crashes, the run lock and resume *)

\* Mutant: the lock is the runner's alone.
RunnerLockFree == pc = "down"

\* flock's ownership follows the open description, and every worker inherits
\* it: the lock is free when the runner and all its workers are gone.
RunLockFree == pc = "down" /\ \A k \in Slots : ~Live(k)

InFlight == {"backoff", "spawn", "send", "wait", "observe", "stopping",
             "import", "charge"}

\* SIGKILL of the runner, before any of its steps.  Up to all of the time
\* reserved for an attempt or a backoff in flight has really passed; of that
\* only the history variable knows.
Crash ==
    /\ pc # "down"
    /\ crashes < MaxCrashes
    /\ crashes' = crashes + 1
    /\ journal_hot' \in (IF pc = "publish" THEN {FALSE} ELSE BOOLEAN)
    /\ pc' = "down"
    /\ fault' = "none"
    /\ outcome' = NoAnswer
    /\ elapsed' = 0
    /\ todo' = {}
    /\ spent' = IF pc \in InFlight THEN spent + active.reserved ELSE spent
    /\ UNCHANGED <<config, active, total_attempts, fault_cursor, operations,
                   imports, worker, evidence, store, journal>>

\* Mutant: evidence that was imported before the crash is imported again.
ResumeImportingAll ==
    /\ RunLockFree
    /\ ~journal_hot
    /\ ~finalized
    /\ todo' = EvidenceLines(Slots)
    /\ pc' = "reimport"
    /\ UNCHANGED <<config, active, total_attempts, fault_cursor, operations,
                   imports, fault, outcome, elapsed, spent, worker, evidence,
                   store, journal, deaths>>

\* resume_process of an unfinished run: session_started, then the evidence
\* lines the journal has not seen.
Resume ==
    /\ RunLockFree
    /\ ~journal_hot
    /\ ~finalized
    /\ todo' = {l \in EvidenceLines(Slots) : imports[l] = 0}
    /\ pc' = "reimport"
    /\ UNCHANGED <<config, active, total_attempts, fault_cursor, operations,
                   imports, fault, outcome, elapsed, spent, worker, evidence,
                   store, journal, deaths>>

ResumeDrive ==
    /\ pc = "reimport"
    /\ todo = {}
    /\ RecoverTaskDatabase
    /\ pc' = "drive"
    /\ UNCHANGED <<config, supervisor, worker, evidence, journal, deaths>>

\* Journal.read_state opens the journal read-only, and SQLite cannot roll a hot
\* rollback journal back through such a connection: the resume fails.
ResumeRefused ==
    /\ RunLockFree
    /\ journal_hot
    /\ UNCHANGED vars

\* Resuming a finalized run checks its observation and changes nothing.
ResumeFinalized ==
    /\ RunLockFree
    /\ ~journal_hot
    /\ finalized
    /\ observation.evaluation = evaluation
    /\ UNCHANGED vars

\* The supervisor's steps leave the rest of the checkpoint alone.
Supervise ==
    /\ AttemptStep \/ ImportLine
    /\ UNCHANGED <<config, journal, deaths>>

InterruptRunner ==
    /\ Interrupt
    /\ crashes < MaxCrashes
    /\ crashes' = crashes + 1
    /\ UNCHANGED <<config, journal, journal_hot>>

RunnerStep ==
    \/ ModelLimit \/ RequestModel \/ ModelReturns \/ ProviderFails
    \/ StopTruncated \/ StopAnswered \/ ModelReady \/ ToolLimit
    \/ ReserveTool \/ Execute \/ Supervise \/ ReturnTool
    \/ PrepareEvaluation \/ Evaluate \/ SkipEvaluation \/ Publish \/ Finalize
    \/ ResumeDrive

\* A worker's step; one that was never sent its request sees its stdin end
\* when the runner is gone.
WorkerRuns(k) ==
    /\ WorkerStep(k) \/ (pc = "down" /\ RequestMissing(k))
    /\ UNCHANGED <<config, supervisor, pc, journal, deaths>>

WorkerDies(k) ==
    /\ Kill(k)
    /\ crashes < MaxCrashes
    /\ crashes' = crashes + 1
    /\ UNCHANGED <<config, supervisor, pc, journal, journal_hot>>

Next ==
    \/ RunnerStep
    \/ InterruptRunner
    \/ Crash
    \/ Resume
    \/ ResumeFinalized
    \/ ResumeRefused
    \/ \E k \in Slots : WorkerRuns(k) \/ WorkerDies(k)

\* The runner and the workers are scheduled, timeouts fire, and somebody
\* resumes an unfinished run.
Fairness ==
    /\ WF_vars(RunnerStep)
    /\ WF_vars(Resume)
    /\ \A k \in Slots : WF_vars(WorkerRuns(k))

Spec == Init /\ [][Next]_vars /\ Fairness

-----------------------------------------------------------------------------
(* Properties *)

DurableType ==
    /\ config \in Configs
    /\ phase \in {"model", "tools", "terminal"}
    /\ model_calls \in 0 .. MaxModelCalls
    /\ tool_calls \in 0 .. MaxToolCalls
    /\ tool_executions \in Nat
    /\ script_cursor \in Nat
    /\ messages \in Seq([call_id : CallIds, call : Calls, answer : Answers])
    /\ last_turn \in Turns \cup {NoTurn}
    /\ pending \in Seq(Calls)
    /\ tool_cursor \in Nat
    /\ tool_reserved \in BOOLEAN
    /\ terminal \in Results
    /\ finalized \in BOOLEAN
    /\ stops \in Nat
    /\ crashes \in 0 .. MaxCrashes

\* Every variable has its type: the counters stay within their limits across
\* restarts, which is what their pydantic fields insist on.
StateType == StoreType /\ WorkerType /\ SupervisorType /\ DurableType
TypeOK == StateType /\ journal_hot \in BOOLEAN

\* RunState.consistent, which revalidates every checkpoint before it is
\* written and raises if it does not hold.
Consistent ==
    /\ tool_cursor <= Len(pending)
    /\ phase = "tools" => last_turn # NoTurn /\ pending = last_turn.tool_calls
    /\ tool_reserved => /\ phase = "tools"
                        /\ tool_cursor < Len(pending)
                        /\ tool_calls > 0
    /\ tool_executions <= tool_calls
    /\ model_calls <= MaxModelCalls
    /\ tool_calls <= MaxToolCalls
    /\ total_attempts <= TotalAttempts
    /\ active.operation_id # 0 =>
          /\ active.attempts <= MaxAttempts
          /\ active.attempts <= total_attempts
          /\ active.reserved <= active.remaining
          /\ active.remaining <= OperationSeconds
    /\ (phase = "terminal") <=> (terminal # NoResult)
    /\ finalized => terminal # NoResult /\ evaluation # NoEvaluation
    /\ terminal # NoResult =>
          /\ terminal.model_calls = model_calls
          /\ terminal.tool_calls = tool_calls
          /\ terminal.tool_executions = tool_executions

\* No reachable checkpoint is one the journal would refuse to write
\* (Journal.commit revalidates; a refusal would end the run for good).
CheckpointNeverRefused == Consistent

\* supervisor.execute never meets an unfinished operation of another call, nor
\* other arguments under the same call id: its two ValueErrors are dead code,
\* whatever was lost in a crash.
ExecuteNeverRefuses ==
    AtTool /\ tool_reserved /\ Current.name # "invalid" =>
        IF active.call_id = CallId THEN active.call = Current ELSE ~Unfinished

\* A worker that is alive works on the latest attempt of the journaled, still
\* unanswered operation: two workers never overlap, not even when one has
\* outlived its runner (run_lock, pass_fds, stop_worker).
OnlyCurrentWorkerLives ==
    \A k \in Slots : Live(k) =>
        /\ k = total_attempts
        /\ Unfinished
        /\ worker[k].operation_id = active.operation_id
        /\ tool_reserved

\* Attempts, crashes and resumes of one tool call leave at most one task, and
\* every task belongs to a journaled create call with its title.
ExactlyOneEffect ==
    /\ \A r \in task_operations :
          /\ r.operation_id \in 1 .. Len(operations)
          /\ operations[r.operation_id].call = Create(r.title)
          /\ [id |-> r.task_id, title |-> r.title] \in tasks
    /\ \A r, s \in task_operations :
          operations[r.operation_id].call_id = operations[s.operation_id].call_id
             => r = s
    /\ \A t \in tasks : \E r \in task_operations : r.task_id = t.id

\* A success the conversation (or the checkpoint) holds for a create call is
\* backed by the committed row of that very call.
AcknowledgedWritesAreStored ==
    LET Stored(call_id, call, answer) ==
            call.name = "create_task" /\ answer.code = "ok" =>
                \E r \in task_operations :
                    /\ operations[r.operation_id].call_id = call_id
                    /\ r.title = call.arg
                    /\ r.task_id = answer.task
    IN  /\ \A i \in 1 .. Len(messages) :
              Stored(messages[i].call_id, messages[i].call, messages[i].answer)
        /\ Stored(active.call_id, active.call, active.result)

\* Accepted calls are answered once each and in the order the model asked,
\* however often the run was interrupted between reservation and answer.
AnsweredOnceInOrder ==
    /\ tool_calls = Len(messages) + (IF tool_reserved THEN 1 ELSE 0)
    /\ \A i, j \in 1 .. Len(messages) : i < j =>
          \/ messages[i].call_id[1] < messages[j].call_id[1]
          \/ /\ messages[i].call_id[1] = messages[j].call_id[1]
             /\ messages[i].call_id[2] < messages[j].call_id[2]

\* Time an operation used within its reservations is never given back: what
\* it used and what it has left beyond the open reservation fit its budget, so
\* a lost reservation is charged in full before time is reserved again.
TimeNeverRefunded ==
    active.operation_id # 0 =>
        spent + active.remaining <= OperationSeconds + active.reserved

\* The configured fault is injected as often as its case says and no more,
\* also when a crash separates reserving the attempt from dispatching it.
FaultsWithinCase ==
    LET faulty == {k \in Slots : worker[k].fault # "none"}
    IN  Cardinality(faulty) <=
            CASE config.case = "transient-always" -> TotalAttempts
              [] config.case = "transient-twice" -> 2
              [] config.case \in {"process-healthy", "restart-healthy"} -> 0
              [] OTHER -> 1

\* The recorded evaluation describes the database as it is and as it will stay:
\* it could read it (no hot journal left), and no worker writes after it.
EvaluationIsFinal ==
    evaluation # NoEvaluation =>
        evaluation.status = "ok" /\ evaluation.rows = tasks

\* The published observation is that evaluation, and counts every surviving
\* line of worker evidence exactly once, whichever session imported it.
ObservationIsExact ==
    finalized =>
        /\ observation.evaluation = evaluation
        /\ observation.attempts = total_attempts
        /\ \A l \in LineIds : observation.counted[l] =
               IF l \in EvidenceLines(Slots) THEN 1 ELSE 0

\* The scripted create/read/report agent is never graded a false success:
\* no fault, crash or lost reply makes it claim a task that is not there.
ScriptNeverFalseSuccess ==
    config.mode = "offline" /\ config.script = "create-read-report-v1" =>
        evaluation.false_success # "yes"

\* A task appears only while its own call is reserved and unanswered: nothing
\* a timed-out or orphaned worker does can take effect after the answer.
NoLateEffect ==
    [][tasks' # tasks =>
          /\ tool_reserved
          /\ Unfinished
          /\ \A r \in task_operations' \ task_operations :
                r.operation_id = active.operation_id]_vars

\* Nothing the code itself refuses is ever met: every checkpoint passes the
\* fields and the validator of RunState, and execute its own two checks,
\* whatever was lost, late or asked for.
NothingRefused == TypeOK /\ CheckpointNeverRefused /\ ExecuteNeverRefuses

\* A call takes effect once at most, is answered once and in its turn, and an
\* answer that says so is backed by its own row, whatever was retried, lost or
\* resumed.
ExactlyOnce ==
    ExactlyOneEffect /\ AnsweredOnceInOrder /\ AcknowledgedWritesAreStored

\* No crash gives back what was spent: neither the time of an operation nor a
\* fault of the case.
NothingIsRefunded == TimeNeverRefunded /\ FaultsWithinCase

\* What the run publishes is exactly what happened, and never that the script
\* claimed what is not so.
RecordIsTrue == ObservationIsExact /\ ScriptNeverFalseSuccess

\* With finitely many crashes every run is finalized, unless a kill tore a
\* journal commit: no lost reply, orphan or half-done step leaves it stuck.
EventuallyFinalized == <>(finalized \/ journal_hot)

\* "Interrupted compatible process runs continue their saved conversation"
\* (docs/milestones/M09.md): wherever the runner is killed, a resume continues.
InterruptedRunsContinue == <>finalized

-----------------------------------------------------------------------------
(* Refinement *)

\* A task is created for the call whose journaled operation its ledger row
\* names.
Effects == {[call_id |-> operations[r.operation_id].call_id,
             id |-> r.task_id, title |-> r.title] : r \in task_operations}

\* The accepted call that has no answer yet.
OpenCalls == IF tool_reserved THEN {[call_id |-> CallId, call |-> Current]}
                              ELSE {}
Verdict == IF evaluation = NoEvaluation THEN {} ELSE {evaluation.rows}

Service == INSTANCE ToolService WITH
    open <- OpenCalls, effects <- Effects, answers <- messages,
    verdict <- Verdict

\* Whatever crashes, times out, is retried or resumed, the run behaves like
\* the service that handles one call after the other, each at most once.
ImplementsToolService == Service!ServiceSpec
=============================================================================
