---------------------------- MODULE InProcessRun ----------------------------
(***************************************************************************)
(* One run of the experiments that live in a single process: the agent     *)
(* loop (agent.py) or the fixed workflow (workflow.py) against one of the  *)
(* three tool executors, dropped writes (faults.py, tools.py), response    *)
(* contracts (reliability.py) and bounded retries (retries.py), then the   *)
(* grading and the accounting of the saved observation.                    *)
(*                                                                         *)
(* A run is its sequence of tool calls; a delivery is what the caller can  *)
(* tell of it: whether it parses (form), reports success (ok), and names   *)
(* a task and a title.  Operation identifiers are numbered.                *)
(***************************************************************************)
EXTENDS TaskStore, Grading, Sequences

CONSTANTS
    Configs,           \* configurations: [kind, case, policy, who]
    Title,             \* the title the request asks for
    BlankTitle, ChangedTitle,   \* a blank title; a title a fault has changed
    LiveCalls,         \* tool calls a live model may ask for
    LiveContents,      \* final texts a live model may return
    MaxModelCalls,     \* Limits.max_model_calls
    MaxToolCalls,      \* Limits.max_tool_calls
    MaxFailures        \* bound: storage failures in one behaviour

FaultMode == {"none", "dropped-write"}
ResponseCase ==
    {"healthy", "malformed-json", "duplicate-keys", "non-finite",
     "missing-field", "extra-field", "wrong-type", "unsupported-version",
     "wrong-create-title", "wrong-get-id", "dropped-write"}
RetryCase == {"retry-healthy", "before-write-once", "lost-reply-once"}
RetryPolicy == {"single-attempt", "retry-unprotected", "retry-idempotent"}
Callers == {"scripted", "false-success", "invalid-report", "live", "workflow"}

\* What can be configured.
ExperimentConfig ==
    [kind : {"claims"}, case : FaultMode, policy : {"baseline", "read-back"},
     who : Callers]
    \cup [kind : {"responses"}, case : ResponseCase,
          policy : {"pass-through", "validated"}, who : {"scripted", "live"}]
    \cup [kind : {"retries"}, case : RetryCase, policy : RetryPolicy,
          who : {"scripted", "workflow", "live"}]

\* The calls that two tools, a title and an identifier make: a blank title and
\* the identifier 0 are refused.
ToolCall == [name : {"create_task", "get_task"}, title : Titles \cup {BlankTitle},
             task : Nat]

\* The experiments run with the default limits of six; a fixed caller needs
\* three responses and two calls.
ASSUME RunAssumption ==
    /\ Title \in Titles
    /\ BlankTitle \notin Titles /\ ChangedTitle \notin Titles
    /\ Configs \subseteq ExperimentConfig
    /\ LiveCalls \subseteq ToolCall
    /\ LiveContents \subseteq Contents
    /\ MaxModelCalls \in Nat /\ MaxModelCalls >= 3
    /\ MaxToolCalls \in Nat /\ MaxToolCalls >= 2
    /\ MaxFailures \in Nat

VARIABLES
    config,      \* never changes
    pc,          \* "caller", "tools", "attempt", "evaluate", "done", "broken"
    queue,       \* calls of the current response still to be executed
    last,        \* the last delivery, with its call
    number,      \* attempt number of the operation in progress
    consumed,    \* RetryFaultInjector.consumed
    calls,       \* model calls, tool calls and tool executions
    counts,      \* trace events, by what they are counted as
    execution,   \* RunResult: status and final content
    evaluation,  \* the grading, once it is done
    effects,     \* history: task rows by the operation that made them
    failures     \* storage failures so far

local == <<queue, last, number, consumed>>
result == <<execution, evaluation>>
vars == <<store, config, pc, local, calls, counts, result, effects, failures>>

Create(title) == [name |-> "create_task", title |-> title, task |-> 0]
Get(id) == [name |-> "get_task", title |-> BlankTitle, task |-> id]

\* An identifier that no task ever has.
Nowhere == 99

\* CreateArguments and GetArguments refuse blanks, and there are two tools.
WellFormed(call) ==
    \/ call.name = "create_task" /\ call.title # BlankTitle
    \/ call.name = "get_task" /\ call.task # 0

Deliveries(call, form, ok, task, title) ==
    [call |-> call, form |-> form, ok |-> ok, task |-> task, title |-> title]
Failure(call) == Deliveries(call, "valid", FALSE, 0, BlankTitle)
Success(call, task, title) == Deliveries(call, "valid", TRUE, task, title)

Nothing == Failure(Create(BlankTitle))

Zero == [operations |-> 0, attempts |-> 0, retries |-> 0, entries |-> 0,
         replayed |-> 0, delivery_errors |-> 0, faults |-> 0,
         valid |-> 0, syntax |-> 0, schema |-> 0, request |-> 0,
         unchecked |-> 0]

Init ==
    /\ StoreInit
    /\ config \in Configs
    /\ pc = "caller"
    /\ queue = << >>
    /\ last = Nothing
    /\ number = 0
    /\ consumed = FALSE
    /\ calls = [model |-> 0, tool |-> 0, executed |-> 0]
    /\ counts = Zero
    /\ execution = [status |-> "running", content |-> Absent]
    /\ evaluation = {}
    /\ effects = {}
    /\ failures = 0

Counted(kinds) ==
    [k \in DOMAIN counts |-> IF k \in kinds THEN counts[k] + 1 ELSE counts[k]]

-----------------------------------------------------------------------------
(* Callers: what is asked next, given the number of turns so far *)

Ask(call) == [finish |-> "stop", calls |-> <<call>>, content |-> Blank]
Say(status, id) ==
    [finish |-> "stop", calls |-> << >>,
     content |-> [status |-> status, task |-> id]]

\* scripted_response_client: every success-shaped delivery is trusted.
ResponseScript(n) ==
    LET named == IF last.ok THEN last.task ELSE 0
    IN  IF n = 0 THEN {Ask(Create(Title))}
        ELSE IF named = 0 THEN {Say("unknown", 0)}
        ELSE IF n = 1 THEN {Ask(Get(named))}
        ELSE {Say("completed", named)}

\* _demo_client and _comparison_client: a delivery without the task the script
\* reads is an error of the harness (no turn at all).
ClaimScript(n) ==
    IF config.who = "false-success" THEN {Say("completed", Nowhere)}
    ELSE IF n = 0 THEN {Ask(Create(Title))}
    ELSE IF config.who = "invalid-report" THEN {Say("prose", 0)}
    ELSE IF config.policy = "read-back" /\ n = 2 /\ last.task = 0
         THEN {Say("not_completed", 0)}
    ELSE IF last.task = 0 THEN {}
    ELSE IF config.policy = "read-back" /\ n # 2 THEN {Ask(Get(last.task))}
    ELSE {Say("completed", last.task)}

\* run_workflow: create, compare, read back, compare.
WorkflowStep(n) ==
    IF n = 0 THEN {Ask(Create(Title))}
    ELSE IF n = 1
         THEN {IF last.ok /\ last.task # 0 /\ last.title = Title
               THEN Ask(Get(last.task)) ELSE Say("unknown", 0)}
    ELSE IF last.ok /\ last.task = 0 THEN {Say("not_completed", 0)}
    ELSE {IF last.ok /\ last.task = last.call.task /\ last.title = Title
          THEN Say("completed", last.task) ELSE Say("unknown", 0)}

\* A model may ask for anything, say anything, or be cut off.
LiveTurns ==
    LET batches == {<<c>> : c \in LiveCalls} \cup (LiveCalls \X LiveCalls)
        said == [finish : {"stop", "length"}, calls : {<< >>},
                 content : LiveContents]
        asked == [finish : {"stop", "length"}, calls : batches,
                  content : {Blank}]
    IN  said \cup asked

Turns ==
    IF config.who = "live" THEN LiveTurns
    ELSE IF config.who = "workflow" THEN WorkflowStep(calls.tool)
    ELSE IF config.kind = "claims" THEN ClaimScript(calls.model)
    ELSE ResponseScript(calls.model)

Stop(status, content) ==
    /\ execution' = [status |-> status, content |-> content]
    /\ pc' = "evaluate"

\* A response: cut off, final, or tool calls.
Turn ==
    /\ pc = "caller"
    /\ config.who # "workflow" => calls.model < MaxModelCalls
    /\ calls' = IF config.who = "workflow" THEN calls
                ELSE [calls EXCEPT !.model = @ + 1]
    /\ \E turn \in Turns :
          \/ /\ turn.finish = "length"
             /\ Stop("protocol_error",
                     IF turn.calls = << >> THEN turn.content ELSE Absent)
             /\ UNCHANGED queue
          \/ /\ turn.finish = "stop" /\ turn.calls # << >>
             /\ queue' = turn.calls
             /\ pc' = "tools"
             /\ UNCHANGED execution
          \/ /\ turn.finish = "stop" /\ turn.calls = << >>
             /\ Stop(IF turn.content.status = "blank" THEN "protocol_error"
                     ELSE "finished", turn.content)
             /\ UNCHANGED queue
    /\ UNCHANGED <<store, config, last, number, consumed, counts, evaluation,
                   effects, failures>>

ProviderFails ==
    /\ pc = "caller"
    /\ config.who = "live"
    /\ calls.model < MaxModelCalls
    /\ calls' = [calls EXCEPT !.model = @ + 1]
    /\ Stop("provider_error", Absent)
    /\ UNCHANGED <<store, config, local, counts, evaluation, effects, failures>>

\* The script itself fails: no result, only a harness_error in the trace.
ScriptFails ==
    /\ pc = "caller"
    /\ Turns = {}
    /\ pc' = "broken"
    /\ UNCHANGED <<store, config, local, calls, counts, result, effects,
                   failures>>

ModelLimit ==
    /\ pc = "caller"
    /\ calls.model >= MaxModelCalls
    /\ Stop("model_limit", Absent)
    /\ UNCHANGED <<store, config, local, calls, counts, evaluation, effects,
                   failures>>

\* The rest of the response is skipped.
ToolLimit ==
    /\ pc = "tools"
    /\ config.who # "workflow"
    /\ calls.tool >= MaxToolCalls
    /\ Stop("tool_limit", Absent)
    /\ UNCHANGED <<store, config, local, calls, counts, evaluation, effects,
                   failures>>

-----------------------------------------------------------------------------
(* Executing one call *)

Requested ==
    /\ pc = "tools"
    /\ config.who # "workflow" => calls.tool < MaxToolCalls

\* The delivery is given back to the caller.
Answer(delivery) ==
    /\ last' = delivery
    /\ queue' = Tail(queue)
    /\ pc' = IF Tail(queue) = << >> THEN "caller" ELSE "tools"
    /\ number' = 0
    /\ UNCHANGED <<config, result>>

\* ResponseExecutor._inject: only what reports a task is damaged, in the call
\* the case is about.
Damaged(d) ==
    IF \/ ~d.ok \/ d.task = 0
       \/ d.call.name # (IF config.case = "wrong-get-id" THEN "get_task"
                         ELSE "create_task")
    THEN d
    ELSE CASE config.case = "malformed-json" ->
                 [d EXCEPT !.form = "syntax", !.ok = FALSE]
           [] config.case \in {"duplicate-keys", "non-finite"} ->
                 [d EXCEPT !.form = "syntax"]
           [] config.case = "wrong-type" ->
                 [d EXCEPT !.form = "schema", !.ok = FALSE]
           [] config.case \in {"missing-field", "extra-field",
                               "unsupported-version"} ->
                 [d EXCEPT !.form = "schema"]
           [] config.case = "wrong-create-title" -> [d EXCEPT !.title = ChangedTitle]
           [] config.case = "wrong-get-id" -> [d EXCEPT !.task = Nowhere]
           [] OTHER -> d

\* Mutant: shape is validated, consistency with the request is not.
ContractUnrelated(d) == IF d.form # "valid" THEN d.form ELSE "valid"

\* A success answers the request it was made for.
Consistent(d) ==
    IF d.call.name = "create_task" THEN d.task # 0 /\ d.title = d.call.title
    ELSE d.task \in {0, d.call.task}

\* validate_response: syntax, schema, then consistency with the request.
Contract(d) ==
    IF d.form # "valid" THEN d.form
    ELSE IF d.ok /\ ~Consistent(d) THEN "request" ELSE "valid"

\* How an executor without retries delivers what the tool returned.
Deliver(d, dropped) ==
    LET raw == IF config.kind = "responses" THEN Damaged(d) ELSE d
        stage == Contract(raw)
        fault == IF dropped \/ raw # d THEN {"faults"} ELSE {}
        damaged == config.kind = "responses" /\ config.policy = "validated"
                   /\ stage # "valid"
        check == IF config.kind # "responses" THEN {}
                 ELSE IF config.policy = "validated" THEN {stage}
                 ELSE {"unchecked"}
    IN  /\ Answer(IF damaged THEN Failure(d.call) ELSE raw)
        /\ counts' = Counted(check \cup fault)

\* A refused call: no executor enters an operation for it.
Refuse ==
    /\ Requested
    /\ ~WellFormed(Head(queue))
    /\ calls' = [calls EXCEPT !.tool = @ + 1]
    /\ IF config.kind = "retries"
       THEN Answer(Failure(Head(queue))) /\ UNCHANGED counts
       ELSE Deliver(Failure(Head(queue)), FALSE)
    /\ UNCHANGED <<store, consumed, effects, failures>>

Executed ==
    /\ Requested
    /\ config.kind # "retries"
    /\ WellFormed(Head(queue))
    /\ calls' = [calls EXCEPT !.tool = @ + 1, !.executed = @ + 1]
    /\ UNCHANGED consumed

NewRow(title, op) ==
    /\ tasks' = tasks \cup {[id |-> fresh, title |-> title]}
    /\ effects' = effects \cup {[task |-> fresh, operation |-> op]}
    /\ fresh' = fresh + 1
    /\ UNCHANGED <<task_operations, hot>>

Found(id) ==
    Success(Get(id), GetTask(id),
            IF GetTask(id) = 0 THEN BlankTitle
            ELSE (CHOOSE row \in tasks : row.id = id).title)

\* create_task, or the injector that makes up a task it never writes.
ExecuteCreate ==
    /\ Executed
    /\ LET call == Head(queue)
           dropped == config.case = "dropped-write"
       IN  /\ call.name = "create_task"
           /\ Deliver(Success(call, fresh, call.title), dropped)
           /\ IF dropped
              THEN /\ fresh' = fresh + 1
                   /\ UNCHANGED <<tasks, task_operations, hot, effects>>
              ELSE NewRow(call.title, calls.tool + 1)
    /\ UNCHANGED failures

ExecuteGet ==
    /\ Executed
    /\ Head(queue).name = "get_task"
    /\ Deliver(Found(Head(queue).task), FALSE)
    /\ UNCHANGED <<store, effects, failures>>

StorageFails ==
    /\ Executed
    /\ failures < MaxFailures
    /\ Head(queue).name = "create_task" => config.case # "dropped-write"
    /\ failures' = failures + 1
    /\ Deliver(Failure(Head(queue)), FALSE)
    /\ UNCHANGED <<store, effects>>

-----------------------------------------------------------------------------
(* RetryExecutor *)

\* Mutant: the operation is counted before its arguments are looked at.
StartUnvalidated ==
    /\ Requested
    /\ config.kind = "retries"
    /\ calls' = [calls EXCEPT !.tool = @ + 1,
                 !.executed = IF WellFormed(Head(queue)) THEN @ + 1 ELSE @]
    /\ counts' = Counted({"operations"})
    /\ number' = 1
    /\ pc' = "attempt"
    /\ UNCHANGED <<store, config, queue, last, consumed, result, effects,
                   failures>>

\* One identifier for all deliveries of the call.
StartOperation ==
    /\ Requested
    /\ config.kind = "retries"
    /\ WellFormed(Head(queue))
    /\ calls' = [calls EXCEPT !.tool = @ + 1, !.executed = @ + 1]
    /\ counts' = Counted({"operations"})
    /\ number' = 1
    /\ pc' = "attempt"
    /\ UNCHANGED <<store, config, queue, last, consumed, result, effects,
                   failures>>

AttemptLimit == IF config.policy = "single-attempt" THEN 1 ELSE 2

Protected == config.policy = "retry-idempotent"
Striking(case) == config.case = case /\ ~consumed

\* DeliveryUnavailable: tried again, or answered as of unknown outcome.
Unavailable(events) ==
    /\ consumed' = TRUE
    /\ IF number < AttemptLimit
       THEN /\ number' = number + 1
            /\ counts' = Counted(events \cup {"faults", "delivery_errors",
                                              "retries"})
            /\ UNCHANGED <<config, pc, queue, last, result>>
       ELSE /\ Answer(Failure(Head(queue)))
            /\ counts' = Counted(events \cup {"faults", "delivery_errors"})
    /\ UNCHANGED <<calls, failures>>

\* The write fails before it reaches storage.
FailBeforeWrite ==
    /\ pc = "attempt"
    /\ Head(queue).name = "create_task"
    /\ Striking("before-write-once")
    /\ Unavailable({"attempts"})
    /\ UNCHANGED <<store, effects>>

\* Mutant: each delivery is protected under an identifier of its own.
LedgerKeyPerAttempt(op) == 10 * op + number

\* The key the write is stored under.
LedgerKey(op) == op

\* The task of the receipt.
StoredTask(op) ==
    IF Protected THEN Receipt(Head(queue).title, LedgerKey(op)).task ELSE fresh

AttemptCreate ==
    /\ pc = "attempt"
    /\ Head(queue).name = "create_task"
    /\ ~Striking("before-write-once")
    /\ LET call == Head(queue)
           op == counts.operations
           again == Protected /\ Recorded(LedgerKey(op)) # {}
           events == {"attempts", "entries"}
                        \cup (IF again THEN {"replayed"} ELSE {})
       IN  /\ IF Protected
              THEN /\ CreateTaskIdempotent(call.title, LedgerKey(op))
                   /\ effects' = effects \cup
                        {[task |-> StoredTask(op), operation |-> op]}
              ELSE NewRow(call.title, op)
           /\ IF Striking("lost-reply-once")
              THEN Unavailable(events)
              ELSE /\ Answer(Success(call, StoredTask(op), call.title))
                   /\ counts' = Counted(events)
                   /\ UNCHANGED <<consumed, calls, failures>>

AttemptGet ==
    /\ pc = "attempt"
    /\ Head(queue).name = "get_task"
    /\ Answer(Found(Head(queue).task))
    /\ counts' = Counted({"attempts", "entries"})
    /\ UNCHANGED <<store, consumed, calls, effects, failures>>

\* sqlite3.Error is answered, not tried again.
AttemptStorageFails ==
    /\ pc = "attempt"
    /\ Head(queue).name = "create_task" => ~Striking("before-write-once")
    /\ failures < MaxFailures
    /\ failures' = failures + 1
    /\ Answer(Failure(Head(queue)))
    /\ counts' = Counted({"attempts", "entries"})
    /\ UNCHANGED <<store, consumed, calls, effects>>

-----------------------------------------------------------------------------
(* Grading and accounting *)

Evaluate ==
    /\ pc = "evaluate"
    /\ \E unreadable \in {FALSE} \cup (IF failures < MaxFailures THEN {TRUE}
                                       ELSE {}) :
          /\ evaluation' = {EvaluateRun(InspectState(tasks, unreadable), Title,
                                        execution)}
          /\ failures' = IF unreadable THEN failures + 1 ELSE failures
    /\ pc' = "done"
    /\ UNCHANGED <<store, config, local, calls, counts, execution, effects>>

\* RetryObservation.consistent
RetryAccounts ==
    /\ counts.operations = calls.executed
    /\ counts.operations <= calls.tool
    /\ counts.attempts = counts.operations + counts.retries
    /\ counts.attempts <= AttemptLimit * counts.operations
    /\ counts.replayed <= counts.entries /\ counts.entries <= counts.attempts
    /\ counts.delivery_errors <= counts.attempts
    /\ counts.faults <= counts.delivery_errors /\ counts.faults <= 1
    /\ config.case = "retry-healthy" => counts.faults = 0
    /\ ~Protected => counts.replayed = 0

\* ReliabilityObservation.consistent
ContractAccounts ==
    /\ counts.valid + counts.syntax + counts.schema + counts.request
          + counts.unchecked = calls.tool
    /\ config.policy = "pass-through" => counts.unchecked = calls.tool
    /\ config.policy = "validated" => counts.unchecked = 0
    /\ counts.faults <= calls.executed
    /\ config.case = "healthy" => counts.faults = 0

Next ==
    \/ Turn \/ ProviderFails \/ ScriptFails \/ ModelLimit \/ ToolLimit
    \/ Refuse \/ ExecuteCreate \/ ExecuteGet \/ StorageFails
    \/ StartOperation \/ FailBeforeWrite \/ AttemptCreate \/ AttemptGet
    \/ AttemptStorageFails \/ Evaluate

Spec == Init /\ [][Next]_vars

-----------------------------------------------------------------------------
(* Properties *)

TypeOK ==
    /\ StoreType
    /\ config \in Configs
    /\ pc \in {"caller", "tools", "attempt", "evaluate", "done", "broken"}
    /\ pc \in {"tools", "attempt"} => queue # << >>
    /\ pc = "attempt" <=> number # 0
    /\ number \in 0 .. 2
    /\ consumed \in BOOLEAN
    /\ calls \in [model : 0 .. MaxModelCalls, tool : Nat, executed : Nat]
    /\ calls.executed <= calls.tool
    /\ config.who # "workflow" => calls.tool <= MaxToolCalls
    /\ counts \in [DOMAIN Zero -> Nat]
    /\ execution.content \in Contents
    /\ Cardinality(evaluation) = IF pc = "done" THEN 1 ELSE 0
    /\ failures \in 0 .. MaxFailures

\* The validators of the saved observations never refuse what a run did: the
\* events the executors emitted, counted in the trace, agree with the calls
\* the loop counted, at whatever call a limit or a failure cut the run off.
ObservationNeverRefused ==
    pc = "done" => /\ config.kind = "retries" => RetryAccounts
                   /\ config.kind = "responses" => ContractAccounts

\* One operation makes one task whatever is lost, except where the experiment
\* wants to show that an unprotected retry of a lost reply makes two.
OneEffectPerOperation ==
    \A e \in effects :
        Cardinality({f \in effects : f.operation = e.operation}) <=
            IF config.policy = "retry-unprotected"
                 /\ config.case = "lost-reply-once"
            THEN 2 ELSE 1

\* A success delivered by a retrying or a validating executor is about the
\* request: the title asked for, stored under the identifier that is given
\* (but for a dropped write), or the task looked up.
SuccessMatchesRequest ==
    \/ config.kind = "claims"
    \/ config.kind = "responses" /\ config.policy = "pass-through"
    \/ ~last.ok
    \/ last.call.name = "get_task" /\ last.task \in {0, last.call.task}
    \/ /\ last.call.name = "create_task"
       /\ last.title = last.call.title
       /\ config.case # "dropped-write" =>
             [id |-> last.task, title |-> last.title] \in tasks

\* What the experiments are built to show: with a fixed caller a false success
\* only comes from an unverified dropped write, a response that was not
\* validated, a duplicated effect, or the script that invents one.
FalseSuccessHasItsCause ==
    /\ config.who # "live"
    /\ \E e \in evaluation : e.false_success = "yes"
    => \/ config.who = "false-success"
       \/ /\ config.kind = "claims" /\ config.who = "scripted"
          /\ config.policy = "baseline" /\ config.case = "dropped-write"
       \/ /\ config.kind = "responses" /\ config.policy = "pass-through"
          /\ config.case = "wrong-get-id"
       \/ /\ config.policy = "retry-unprotected"
          /\ config.case = "lost-reply-once"

\* A retry with an idempotent write heals the failure it was made for: with a
\* working database every such run ends with the task stored once and a claim
\* that says so.
RetriesRecover ==
    /\ Protected
    /\ config.who # "live"
    /\ failures = 0
    => \A e \in evaluation : e.task_outcome = "completed"
                              /\ e.claim_support = "supported"

\* A run keeps to its budgets and its saved observation is accepted.
RunIsAccepted == TypeOK /\ ObservationNeverRefused

\* What retries are for: one effect for each operation, and a protected retry
\* heals the failure it was made for.
RetriesHold == OneEffectPerOperation /\ RetriesRecover

\* Success means what it says, where the experiment does not undo that: an
\* answer is about its request, and a false success has its cause.
SuccessIsTrue == SuccessMatchesRequest /\ FalseSuccessHasItsCause
=============================================================================
