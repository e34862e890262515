------------------------------- MODULE Worker -------------------------------
(***************************************************************************)
(* The tool workers (worker.py): one short-lived process per attempt, in   *)
(* slot k for the k-th attempt of the run.  A worker reads its request     *)
(* from stdin, opens its own evidence file, acts on the task database and  *)
(* answers on stdout.  It is a process of its own: it goes on when its     *)
(* supervisor has timed out or died, and it may be killed between any two  *)
(* of its steps.                                                           *)
(*                                                                         *)
(*  reading, running, entering, txn, committed, recorded, exited           *)
(***************************************************************************)
EXTENDS TaskStore, Sequences

CONSTANT TotalAttempts     \* ExecutionLimits.total_attempts

ASSUME TotalAttemptsAssumption == TotalAttempts \in Nat \ {0}

VARIABLES
    worker,      \* worker[k]: the process of attempt k
    evidence     \* evidence[k]: the complete lines of its evidence file

Slots == 1 .. TotalAttempts

Stages == {"none", "reading", "running", "entering", "txn", "committed",
           "recorded", "exited"}
Faults == {"none", "transient", "permanent", "delay-before", "delay-after",
           "ignore-termination", "exit", "malformed"}
Lines == {"fault_activated", "storage_entered", "storage_committed"}
Codes == {"none", "ok", "malformed", "transient_error", "storage_error",
          "operation_conflict", "delivery_error", "deadline_exceeded",
          "interrupted", "execution_limit", "invalid_result",
          "invalid_arguments"}

\* A tool call as the model asked for it; "invalid" stands for an unknown tool
\* and for arguments that fail validation.  arg is a title or a task.
Calls == [name : {"create_task"}, arg : Titles]
            \cup [name : {"get_task"}, arg : Nat]
            \cup [name : {"invalid"}, arg : {0}]

\* A tool answer: the model sees the code, and the task on success.
Answers == [code : Codes, task : Nat]
NoAnswer == [code |-> "none", task |-> 0]
Answer(code) == [code |-> code, task |-> 0]

NoCall == [name |-> "invalid", arg |-> 0]
NoWorker == [stage |-> "none", operation_id |-> 0, call |-> NoCall,
             fault |-> "none", reply |-> NoAnswer]

WorkerType ==
    /\ worker \in [Slots -> [stage : Stages, operation_id : Nat, call : Calls,
                             fault : Faults, reply : Answers]]
    /\ evidence \in [Slots -> Seq(Lines)]

WorkerInit ==
    /\ worker = [k \in Slots |-> NoWorker]
    /\ evidence = [k \in Slots |-> << >>]

Live(k) == worker[k].stage \notin {"none", "exited"}

\* Popen: the process exists and waits for its request.
Start(k, op, call, fault) ==
    worker' = [worker EXCEPT ![k] =
                  [stage |-> "reading", operation_id |-> op, call |-> call,
                   fault |-> fault, reply |-> NoAnswer]]

Log(k, lines) == evidence' = [evidence EXCEPT ![k] = @ \o lines]
Advance(k, stage) == worker' = [worker EXCEPT ![k].stage = stage]
Exit(k, reply) ==
    worker' = [worker EXCEPT ![k].stage = "exited", ![k].reply = reply]

\* The supervisor died before it wrote the request: stdin ends, the request
\* fails to parse and no evidence file is opened.
RequestMissing(k) ==
    /\ worker[k].stage = "reading"
    /\ Exit(k, NoAnswer)
    /\ UNCHANGED <<evidence, store>>

\* perform up to storage_entered: the injected fault is recorded before it
\* acts.  The two error faults answer without touching storage.
PerformFault(k) ==
    /\ worker[k].stage = "running"
    /\ Log(k, IF worker[k].fault = "none" THEN << >>
                                          ELSE <<"fault_activated">>)
    /\ CASE worker[k].fault = "transient" -> Exit(k, Answer("transient_error"))
         [] worker[k].fault = "permanent" -> Exit(k, Answer("storage_error"))
         [] OTHER -> Advance(k, "entering")
    /\ UNCHANGED store

\* Opening the store (which recovers a hot journal) and BEGIN IMMEDIATE,
\* which waits for any other writer.
BeginCreate(k) ==
    /\ worker[k].stage = "entering"
    /\ worker[k].call.name = "create_task"
    /\ \A j \in Slots \ {k} : worker[j].stage # "txn"
    /\ Advance(k, "txn")
    /\ Log(k, <<"storage_entered">>)
    /\ RecoverTaskDatabase

ReadTask(k) ==
    /\ worker[k].stage = "entering"
    /\ worker[k].call.name = "get_task"
    /\ Exit(k, [code |-> "ok", task |-> GetTask(worker[k].call.arg)])
    /\ Log(k, <<"storage_entered">>)
    /\ RecoverTaskDatabase

\* COMMIT of create_task_idempotent; a conflict rolls back and is answered.
CommitCreate(k) ==
    /\ worker[k].stage = "txn"
    /\ LET w == worker[k]
           receipt == Receipt(w.call.arg, w.operation_id)
       IN  /\ worker' = [worker EXCEPT
                  ![k].stage = IF receipt.code = "ok" THEN "committed"
                                                      ELSE "exited",
                  ![k].reply = [code |-> receipt.code, task |-> receipt.task]]
           /\ CreateTaskIdempotent(w.call.arg, w.operation_id)
    /\ UNCHANGED evidence

\* sqlite3.Error when the store is opened, read or written: the transaction
\* is rolled back and the answer is an error.
StorageFails(k) ==
    /\ worker[k].stage \in {"entering", "txn"}
    /\ Exit(k, Answer("storage_error"))
    /\ Log(k, IF worker[k].stage = "entering" THEN <<"storage_entered">>
                                             ELSE << >>)
    /\ UNCHANGED store

\* The committed receipt reaches the evidence file in a write of its own.
RecordCommit(k) ==
    /\ worker[k].stage = "committed"
    /\ Advance(k, "recorded")
    /\ Log(k, <<"storage_committed">>)
    /\ UNCHANGED store

\* The end of perform: exit 7 without an answer, a malformed one, or the
\* envelope of the committed receipt.
Reply(k) ==
    /\ worker[k].stage = "recorded"
    /\ Exit(k, CASE worker[k].fault = "exit" -> NoAnswer
                 [] worker[k].fault = "malformed" -> Answer("malformed")
                 [] OTHER -> worker[k].reply)
    /\ UNCHANGED <<evidence, store>>

\* SIGKILL, SIGTERM or a crash of the process, between any two of its steps.
Kill(k) ==
    /\ Live(k)
    /\ Exit(k, NoAnswer)
    /\ hot' \in IF worker[k].stage = "txn" THEN BOOLEAN ELSE {hot}
    /\ UNCHANGED <<evidence, tasks, task_operations, fresh>>

WorkerStep(k) ==
    \/ PerformFault(k)
    \/ BeginCreate(k)
    \/ ReadTask(k)
    \/ CommitCreate(k)
    \/ StorageFails(k)
    \/ RecordCommit(k)
    \/ Reply(k)
=============================================================================
