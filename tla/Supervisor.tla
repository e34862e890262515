----------------------------- MODULE Supervisor -----------------------------
(***************************************************************************)
(* The supervisor of one durable run (supervision.py): it turns a tool     *)
(* call into a journaled operation, reserves an attempt and its time       *)
(* before it starts a worker, waits, stops the worker, charges the time    *)
(* that passed and retries what may be retried.                            *)
(*                                                                         *)
(* Every save() commits active, total_attempts and fault_cursor to the     *)
(* journal, so those are the durable state; pc, fault, outcome, elapsed    *)
(* and todo are the memory of the runner process and are lost with it.     *)
(* Time is counted in whole units.                                         *)
(***************************************************************************)
EXTENDS Worker, FiniteSets

CONSTANTS
    MaxAttempts,        \* ExecutionLimits.max_attempts
    OperationSeconds,   \* ExecutionLimits.operation_seconds
    AttemptSeconds,     \* ExecutionLimits.attempt_seconds
    GraceSeconds,       \* ExecutionLimits.grace_seconds
    BackoffSeconds,     \* ExecutionLimits.backoff
    DelaySeconds,       \* ExecutionLimits.delay_seconds
    OverrunSeconds      \* bound: how much later than asked a clock may fire

ASSUME LimitsAssumption ==
    /\ MaxAttempts \in Nat \ {0}
    /\ OperationSeconds \in Nat \ {0}
    /\ AttemptSeconds \in Nat \ {0}
    /\ GraceSeconds \in Nat \ {0}
    /\ BackoffSeconds \in [1 .. 2 -> Nat]
    /\ DelaySeconds \in Nat \ {0}
    /\ OverrunSeconds \in Nat

VARIABLES
    config,           \* ProcessConfig, mode and script; never changes
    active,           \* ExecutionState.active
    total_attempts,   \* ExecutionState.total_attempts
    fault_cursor,     \* ExecutionState.fault_cursor
    operations,       \* journaled operations; the index is the uuid4() id
    imports,          \* journaled worker_evidence events per evidence line
    pc,               \* where the runner process is; "down" when there is none
    fault,            \* local of execute
    outcome,          \* (raw, failure) of dispatch
    elapsed,          \* clock() - started
    todo,             \* evidence lines the running import still has to emit
    spent             \* history: time used within reservations of active

supervisor == <<active, total_attempts, fault_cursor, operations, imports,
                fault, outcome, elapsed, todo, spent>>

Cases == {"process-healthy", "transient-once", "transient-twice",
          "transient-always", "permanent-error", "delay-before-write",
          "delay-after-commit", "ignore-termination", "exit-before-reply",
          "malformed-worker", "restart-healthy"}

\* policies_for and ProcessConfig.supported.
PoliciesFor(case) ==
    IF case \in {"delay-before-write", "delay-after-commit",
                 "ignore-termination"}
    THEN {"observe", "terminate"}
    ELSE {"process-single", "bounded-retry"}

CallIds == Nat \X Nat
NoOperation == [operation_id |-> 0, call_id |-> <<0, 0>>, call |-> NoCall,
                attempts |-> 0, remaining |-> 0, reserved |-> 0,
                result |-> NoAnswer]
Operations == [operation_id : Nat, call_id : CallIds, call : Calls,
               attempts : Nat, remaining : Nat, reserved : Nat,
               result : Answers]

Least(a, b) == IF a <= b THEN a ELSE b
Less(a, b) == IF a <= b THEN 0 ELSE a - b      \* max(0, a - b)

Unfinished == active.operation_id # 0 /\ active.result = NoAnswer
Maximum == IF config.policy = "bounded-retry" THEN MaxAttempts ELSE 1
Timeout == Least(AttemptSeconds, active.remaining - GraceSeconds)
Retryable == {"transient_error", "delivery_error", "deadline_exceeded"}

Wait == BackoffSeconds[Least(active.attempts, 2)]

\* The while condition of execute, and the place in its body after any backoff.
MayAttempt == active.attempts < Maximum /\ total_attempts < TotalAttempts
AtAttempt == \/ pc = "attempt"
             \/ pc = "loop" /\ MayAttempt /\ active.attempts = 0

\* The lines of the evidence files of the workers in slots S.
LineIds == Slots \X (1 .. Cardinality(Lines))
EvidenceLines(S) == {l \in LineIds : l[1] \in S /\ l[2] <= Len(evidence[l[1]])}

SupervisorType ==
    /\ config.case \in Cases
    /\ config.policy \in PoliciesFor(config.case)
    /\ active \in Operations
    /\ total_attempts \in 0 .. TotalAttempts
    /\ fault_cursor \in 0 .. TotalAttempts
    /\ operations \in Seq([call_id : CallIds, call : Calls])
    /\ imports \in [LineIds -> Nat]
    /\ pc \in {"down", "drive", "model", "loop", "backoff", "attempt",
               "spawn", "send", "wait", "observe", "stopping", "import",
               "charge", "judge", "return", "evaluate", "publish", "finalize",
               "reimport"}
    /\ fault \in Faults
    /\ outcome \in Answers
    /\ elapsed \in Nat
    /\ todo \in SUBSET LineIds
    /\ spent \in Nat

SupervisorInit ==
    /\ active = NoOperation
    /\ total_attempts = 0
    /\ fault_cursor = 0
    /\ operations = << >>
    /\ imports = [l \in LineIds |-> 0]
    /\ pc = "drive"
    /\ fault = "none"
    /\ outcome = NoAnswer
    /\ elapsed = 0
    /\ todo = {}
    /\ spent = 0

-----------------------------------------------------------------------------
(* Entering execute *)

\* Unknown tools and invalid arguments are answered without an operation.
RejectCall(call) ==
    /\ call.name = "invalid"
    /\ pc' = "return"
    /\ UNCHANGED <<supervisor, worker, evidence, store>>

\* Mutant: a restart issues a new operation id for the unfinished call.
StartAfresh(call, call_id) ==
    /\ call.name # "invalid"
    /\ active.call_id # call_id \/ Unfinished
    /\ active' = [operation_id |-> Len(operations) + 1, call_id |-> call_id,
                  call |-> call, attempts |-> 0,
                  remaining |-> OperationSeconds, reserved |-> 0,
                  result |-> NoAnswer]
    /\ operations' = Append(operations, [call_id |-> call_id, call |-> call])
    /\ spent' = 0
    /\ pc' = "loop"
    /\ UNCHANGED <<total_attempts, fault_cursor, imports, fault, outcome,
                   elapsed, todo, worker, evidence, store>>

\* A call that is not the active one gets a new operation; the code refuses
\* (and so does the guard) to replace an unfinished one.
StartOperation(call, call_id) ==
    /\ call.name # "invalid"
    /\ active.call_id # call_id
    /\ ~Unfinished
    /\ active' = [operation_id |-> Len(operations) + 1, call_id |-> call_id,
                  call |-> call, attempts |-> 0,
                  remaining |-> OperationSeconds, reserved |-> 0,
                  result |-> NoAnswer]
    /\ operations' = Append(operations, [call_id |-> call_id, call |-> call])
    /\ spent' = 0
    /\ pc' = "loop"
    /\ UNCHANGED <<total_attempts, fault_cursor, imports, fault, outcome,
                   elapsed, todo, worker, evidence, store>>

\* A saved result is returned as it is.
ReuseResult(call, call_id) ==
    /\ active.call_id = call_id
    /\ active.call = call
    /\ ~Unfinished
    /\ pc' = "return"
    /\ UNCHANGED <<supervisor, worker, evidence, store>>

\* Mutant: the open reservation is released instead of charged.
ReenterUncharged(call, call_id) ==
    /\ active.call_id = call_id
    /\ active.call = call
    /\ Unfinished
    /\ active' = [active EXCEPT !.reserved = 0]
    /\ pc' = "loop"
    /\ UNCHANGED <<total_attempts, fault_cursor, operations, imports, fault,
                   outcome, elapsed, todo, spent, worker, evidence, store>>

\* Re-entering an unfinished operation after a restart: no clock survived, so
\* a reservation that is still open is charged in full.
ReenterOperation(call, call_id) ==
    /\ active.call_id = call_id
    /\ active.call = call
    /\ Unfinished
    /\ active' = [active EXCEPT
                     !.remaining = Less(active.remaining, active.reserved),
                     !.reserved = 0]
    /\ pc' = "loop"
    /\ UNCHANGED <<total_attempts, fault_cursor, operations, imports, fault,
                   outcome, elapsed, todo, spent, worker, evidence, store>>

-----------------------------------------------------------------------------
(* The attempt loop *)

\* finish: the failure becomes the operation's durable result.
Finish(code) ==
    /\ active' = [active EXCEPT !.result = Answer(code)]
    /\ outcome' = NoAnswer
    /\ pc' = "return"
    /\ UNCHANGED <<total_attempts, fault_cursor, operations, imports, fault,
                   elapsed, todo, spent, worker, evidence, store>>

AttemptsExhausted ==
    /\ pc = "loop"
    /\ ~MayAttempt
    /\ Finish("execution_limit")

BackoffRefused ==
    /\ pc = "loop"
    /\ MayAttempt
    /\ active.attempts > 0
    /\ active.remaining <= Wait + GraceSeconds
    /\ Finish("execution_limit")

StartBackoff ==
    /\ pc = "loop"
    /\ MayAttempt
    /\ active.attempts > 0
    /\ active.remaining > Wait + GraceSeconds
    /\ active' = [active EXCEPT !.reserved = Wait]
    /\ pc' = "backoff"
    /\ UNCHANGED <<total_attempts, fault_cursor, operations, imports, fault,
                   outcome, elapsed, todo, spent, worker, evidence, store>>

\* The sleep never lasts less than asked for; all of it is charged.
EndBackoff ==
    /\ pc = "backoff"
    /\ \E slept \in Wait .. Wait + OverrunSeconds :
          active' = [active EXCEPT !.remaining = Less(@, slept),
                                   !.reserved = 0]
    /\ spent' = spent + Wait
    /\ pc' = "attempt"
    /\ UNCHANGED <<total_attempts, fault_cursor, operations, imports, fault,
                   outcome, elapsed, todo, worker, evidence, store>>

OutOfTime ==
    /\ AtAttempt
    /\ active.remaining <= GraceSeconds
    /\ Finish("execution_limit")

\* fault_for: which fault the next attempt carries.
FaultFor(call) ==
    IF call.name # "create_task" THEN "none"
    ELSE IF \/ config.case = "transient-always"
            \/ config.case = "transient-once" /\ fault_cursor < 1
            \/ config.case = "transient-twice" /\ fault_cursor < 2
    THEN "transient"
    ELSE IF fault_cursor > 0 THEN "none"
    ELSE CASE config.case = "permanent-error" -> "permanent"
           [] config.case = "delay-before-write" -> "delay-before"
           [] config.case = "delay-after-commit" -> "delay-after"
           [] config.case = "ignore-termination" -> "ignore-termination"
           [] config.case = "exit-before-reply" -> "exit"
           [] config.case = "malformed-worker" -> "malformed"
           [] OTHER -> "none"

\* One commit reserves the attempt, the fault it consumes and its time.
BeginAttempt ==
    /\ AtAttempt
    /\ active.remaining > GraceSeconds
    /\ fault' = FaultFor(active.call)
    /\ active' = [active EXCEPT
           !.attempts = @ + 1,
           !.reserved = IF config.policy = "observe" THEN active.remaining
                        ELSE Least(active.remaining, Timeout + GraceSeconds)]
    /\ total_attempts' = total_attempts + 1
    /\ fault_cursor' = IF active.call.name = "create_task"
                       THEN fault_cursor + 1 ELSE fault_cursor
    /\ pc' = "spawn"
    /\ UNCHANGED <<operations, imports, outcome, elapsed, todo, spent, worker,
                   evidence, store>>

-----------------------------------------------------------------------------
(* dispatch *)

k0 == total_attempts     \* the slot of the attempt in flight

Spawn ==
    /\ pc = "spawn"
    /\ Start(k0, active.operation_id, active.call, fault)
    /\ fault' = "none"
    /\ pc' = "send"
    /\ UNCHANGED <<active, total_attempts, fault_cursor, operations, imports,
                   outcome, elapsed, todo, spent, evidence, store>>

\* communicate writes the request and waits.
SendRequest ==
    /\ pc = "send"
    /\ worker' = [worker EXCEPT ![k0].stage =
                     IF @ = "reading" THEN "running" ELSE @]
    /\ pc' = "wait"
    /\ UNCHANGED <<supervisor, evidence, store>>

\* A delayed worker cannot answer before its delay is over; where the store
\* fails or refuses, the delay after the commit is not reached.
Delayed(w) ==
    \/ w.fault \in {"delay-before", "ignore-termination"}
    \/ w.fault = "delay-after"
       /\ w.reply.code \notin {"storage_error", "operation_conflict"}

Slowest == IF worker[k0].reply # NoAnswer /\ Delayed(worker[k0])
           THEN DelaySeconds ELSE 0

\* The worker has exited: its answer, or delivery_error when it has none.
Received == IF worker[k0].reply = NoAnswer THEN Answer("delivery_error")
            ELSE worker[k0].reply

Receive ==
    /\ pc = "wait"
    /\ ~Live(k0)
    /\ \E t \in Slowest .. Timeout : elapsed' = t
    /\ outcome' = Received
    /\ todo' = EvidenceLines({k0})
    /\ pc' = "import"
    /\ UNCHANGED <<active, total_attempts, fault_cursor, operations, imports,
                   fault, spent, worker, evidence, store>>

\* The attempt's deadline: observe goes on waiting, the others stop the worker
\* and have their answer already.
Deadline ==
    /\ pc = "wait"
    /\ elapsed' = Timeout
    /\ IF config.policy = "observe"
       THEN pc' = "observe" /\ UNCHANGED outcome
       ELSE pc' = "stopping" /\ outcome' = Answer("deadline_exceeded")
    /\ UNCHANGED <<active, total_attempts, fault_cursor, operations, imports,
                   fault, todo, spent, worker, evidence, store>>

LateResponse ==
    /\ pc = "observe"
    /\ ~Live(k0)
    /\ \E t \in elapsed .. active.remaining - GraceSeconds :
          t >= Slowest /\ elapsed' = t
    /\ outcome' = Received
    /\ todo' = EvidenceLines({k0})
    /\ pc' = "import"
    /\ UNCHANGED <<active, total_attempts, fault_cursor, operations, imports,
                   fault, spent, worker, evidence, store>>

ObservationEnds ==
    /\ pc = "observe"
    /\ elapsed' = active.remaining - GraceSeconds
    /\ outcome' = Answer("deadline_exceeded")
    /\ pc' = "stopping"
    /\ UNCHANGED <<active, total_attempts, fault_cursor, operations, imports,
                   fault, todo, spent, worker, evidence, store>>

\* Ctrl-C, or any other exception, while the runner waits: the finally block
\* stops the worker and imports its evidence, and the runner ends.
Interrupt ==
    /\ pc \in {"wait", "observe"}
    /\ outcome' = Answer("interrupted")
    /\ pc' = "stopping"
    /\ UNCHANGED <<active, total_attempts, fault_cursor, operations, imports,
                   fault, elapsed, todo, spent, worker, evidence, store>>

\* Mutant: the deadline is taken for the worker's end.
StopWithoutWaiting ==
    /\ pc = "stopping"
    /\ todo' = EvidenceLines({k0})
    /\ pc' = "import"
    /\ UNCHANGED <<active, total_attempts, fault_cursor, operations, imports,
                   fault, outcome, elapsed, spent, worker, evidence, store>>

\* stop_worker: terminate, then kill after the grace period, then wait.  It
\* may finish or go on for a while before it dies.
StopWorker ==
    /\ pc = "stopping"
    /\ IF Live(k0) THEN Kill(k0) ELSE UNCHANGED <<worker, evidence, store>>
    /\ \E t \in (IF Live(k0) /\ worker[k0].fault = "ignore-termination"
                 THEN GraceSeconds ELSE 0) .. GraceSeconds + OverrunSeconds :
          elapsed' = elapsed + t
    /\ todo' = EvidenceLines({k0})
    /\ pc' = "import"
    /\ UNCHANGED <<active, total_attempts, fault_cursor, operations, imports,
                   fault, outcome, spent>>

\* One evidence line becomes one journaled worker_evidence event.  The same
\* loop body serves dispatch and import_worker_evidence.
ImportLine ==
    /\ pc \in {"import", "reimport"}
    /\ \E l \in todo :
          /\ \A m \in todo : l[1] < m[1] \/ (l[1] = m[1] /\ l[2] <= m[2])
          /\ imports' = [imports EXCEPT ![l] = @ + 1]
          /\ todo' = todo \ {l}
    /\ UNCHANGED <<active, total_attempts, fault_cursor, operations, pc, fault,
                   outcome, elapsed, spent, worker, evidence, store>>

\* dispatch is over: an interrupted runner is gone and up to all it reserved
\* has passed; the others charge what they measured.
EndDispatch ==
    /\ pc = "import"
    /\ todo = {}
    /\ IF outcome.code = "interrupted"
       THEN /\ pc' = "down"
            /\ outcome' = NoAnswer
            /\ elapsed' = 0
            /\ spent' = spent + active.reserved
       ELSE pc' = "charge" /\ UNCHANGED <<outcome, elapsed, spent>>
    /\ UNCHANGED <<active, total_attempts, fault_cursor, operations, imports,
                   fault, todo, worker, evidence, store>>

Charge ==
    /\ pc = "charge"
    /\ active' = [active EXCEPT !.remaining = Less(@, elapsed), !.reserved = 0]
    /\ spent' = spent + Least(elapsed, active.reserved)
    /\ elapsed' = 0
    /\ pc' = "judge"
    /\ UNCHANGED <<total_attempts, fault_cursor, operations, imports, fault,
                   outcome, todo, worker, evidence, store>>

-----------------------------------------------------------------------------
(* After dispatch: validate, save, give up or go round again *)

\* validate_response accepts the envelope of a successful call.
AcceptReply ==
    /\ pc = "judge"
    /\ outcome.code = "ok"
    /\ active' = [active EXCEPT !.result = outcome]
    /\ outcome' = NoAnswer
    /\ pc' = "return"
    /\ UNCHANGED <<total_attempts, fault_cursor, operations, imports, fault,
                   elapsed, todo, spent, worker, evidence, store>>

RejectReply ==
    /\ pc = "judge"
    /\ outcome.code = "malformed"
    /\ Finish("invalid_result")

\* A permanent failure, or a retryable one on the last attempt.
GiveUp ==
    /\ pc = "judge"
    /\ outcome.code \notin {"ok", "malformed"}
    /\ outcome.code \in Retryable => active.attempts >= Maximum
    /\ Finish(outcome.code)

Retry ==
    /\ pc = "judge"
    /\ outcome.code \in Retryable
    /\ active.attempts < Maximum
    /\ outcome' = NoAnswer
    /\ pc' = "loop"
    /\ UNCHANGED <<active, total_attempts, fault_cursor, operations, imports,
                   fault, elapsed, todo, spent, worker, evidence, store>>

AttemptStep ==
    \/ AttemptsExhausted \/ BackoffRefused \/ StartBackoff \/ EndBackoff
    \/ OutOfTime \/ BeginAttempt \/ Spawn \/ SendRequest \/ Receive
    \/ Deadline \/ LateResponse \/ ObservationEnds \/ StopWorker
    \/ EndDispatch \/ Charge \/ AcceptReply \/ RejectReply \/ GiveUp \/ Retry
=============================================================================
