-------------------------- MODULE RuntimeTransfer ---------------------------
(***************************************************************************)
(* One run under a chosen runtime (runtimes.py, runtime_worker.py and      *)
(* langgraph_runtime.py): a controller starts a worker, which drives a     *)
(* boundary run with the native loop or with a LangGraph graph over the    *)
(* same two steps, and leaves runtime.json.  The worker has a timer of its *)
(* own; the controller waits up to its deadline, and stops the worker when *)
(* anything interrupts it.  LangGraph is external: it runs the node that   *)
(* route names, and fails after RecursionLimit of them.                    *)
(***************************************************************************)
EXTENDS Naturals

CONSTANTS
    MaxModelCalls,   \* model requests of a run
    MaxToolCalls,    \* tool requests of a run
    MaxBatch         \* bound: calls in one response

\* Six requests of each kind in the code; the graph needs a node for every
\* request, one to find a budget used up, and the terminal node.
ASSUME LimitsAssumption ==
    /\ MaxModelCalls \in Nat /\ MaxToolCalls \in Nat /\ MaxBatch \in Nat
    /\ MaxModelCalls + MaxToolCalls + 2 <= 32

VARIABLES             \* the checkpoint, as the journal saves it
    status,       \* running, blocked before it began, error; and what _finish
                  \* leaves: finished, or stopped for another reason
    model_calls,
    tool_calls,
    pending,      \* how many calls the last response holds
    cursor,       \* the next of them
    reserved      \* its request is recorded, its result is not

checkpoint == <<status, model_calls, tool_calls, pending, cursor, reserved>>

VARIABLES             \* the worker and what it writes
    runtime,      \* native or langgraph
    at,           \* the statement it is at; asking: inside client.complete
    node,         \* the node or step it executes
    nodes,        \* runtime_node events: how many, and the last one
    evaluation,   \* evaluation.json: the status it shows, or none
    evidence,     \* runtime.json: {} or one RuntimeResult
    term          \* signals that told the worker to end

VARIABLE
    pc            \* the controller: spawn, wait, stopping, and how it ended

vars == <<checkpoint, runtime, at, node, nodes, evaluation, evidence, term, pc>>

\* The worker has started and the admission of the content is decided.
RuntimeInit ==
    /\ status \in {"running", "blocked"}
    /\ model_calls = 0 /\ tool_calls = 0
    /\ pending = 0 /\ cursor = 0 /\ reserved = FALSE
    /\ runtime \in {"native", "langgraph"}
    /\ at = IF status = "running" THEN "route" ELSE "evaluate"
    /\ node = "none"
    /\ nodes = [count |-> 0, last |-> "none"]
    /\ evaluation = "none"
    /\ evidence = {}
    /\ term = {}
    /\ pc = "spawn"

Graph == runtime = "langgraph"
Alive == at \notin {"exited", "failed"}

-----------------------------------------------------------------------------
(* The worker *)

\* route, and the same choice in the native loop.
Route ==
    IF status # "running" THEN "terminal"
    ELSE IF cursor < pending THEN "tools" ELSE "model"

\* Mutant: what both budgets allow is all the graph needs.
RecursionLimitSum == MaxModelCalls + MaxToolCalls

RecursionLimit == 32

\* The guards of model_step and tool_step.
Refuses(step) ==
    \/ step # "terminal" /\ status # "running"
    \/ step = "model" /\ cursor < pending
    \/ step = "tools" /\ cursor >= pending

\* An exception of the driver: harness_error.
DriverFails == status' = "error" /\ at' = "evaluate"

\* The next node is entered and recorded, or the next step of advance.
Enter ==
    /\ at = "route"
    /\ node' = Route
    /\ IF Graph /\ nodes.count = RecursionLimit
       THEN DriverFails /\ UNCHANGED nodes
       ELSE /\ nodes' = IF Graph
                        THEN [count |-> nodes.count + 1, last |-> Route]
                        ELSE nodes
            /\ IF Refuses(Route) THEN DriverFails
               ELSE at' = "node" /\ UNCHANGED status
    /\ UNCHANGED <<model_calls, tool_calls, pending, cursor, reserved, runtime,
                   evaluation, evidence, term, pc>>

\* _finish, and the step returns.
Finish(outcomes) ==
    /\ status' \in outcomes
    /\ at' = "route"
    /\ UNCHANGED <<model_calls, tool_calls, pending, cursor, reserved>>

\* model_step: the budget, or model_requested.
ModelRequested ==
    /\ at = "node" /\ node = "model"
    /\ \/ model_calls >= MaxModelCalls /\ Finish({"stopped"})
       \/ /\ model_calls < MaxModelCalls
          /\ model_calls' = model_calls + 1
          /\ at' = "asking"
          /\ UNCHANGED <<status, tool_calls, pending, cursor, reserved>>
    /\ UNCHANGED <<runtime, node, nodes, evaluation, evidence, term, pc>>

\* Mutant: the cursor stays where the last batch left it.
CheckpointKeepsCursor(calls) == pending' = calls /\ UNCHANGED cursor

\* assistant_checkpoint
AssistantCheckpoint(calls) == pending' = calls /\ cursor' = 0

\* A provider error, a cut-off, empty or final answer; or tool calls.
ModelReturned ==
    /\ at = "asking"
    /\ \/ Finish({"finished", "stopped"})
       \/ /\ \E calls \in 1 .. MaxBatch : AssistantCheckpoint(calls)
          /\ at' = "route"
          /\ UNCHANGED <<status, model_calls, tool_calls, reserved>>
    /\ UNCHANGED <<runtime, node, nodes, evaluation, evidence, term, pc>>

\* tool_step: the budget, or tool_requested.
ToolRequested ==
    /\ at = "node" /\ node = "tools" /\ ~reserved
    /\ \/ tool_calls >= MaxToolCalls /\ Finish({"stopped"})
       \/ /\ tool_calls < MaxToolCalls
          /\ tool_calls' = tool_calls + 1
          /\ reserved' = TRUE
          /\ UNCHANGED <<status, model_calls, pending, cursor, at>>
    /\ UNCHANGED <<runtime, node, nodes, evaluation, evidence, term, pc>>

\* tool_returned, whatever the tool did.
ToolReturned ==
    /\ at = "node" /\ node = "tools" /\ reserved
    /\ cursor' = cursor + 1
    /\ reserved' = FALSE
    /\ at' = "route"
    /\ UNCHANGED <<status, model_calls, tool_calls, pending, runtime, node,
                   nodes, evaluation, evidence, term, pc>>

\* The terminal node, or the end of advance.
Terminal ==
    /\ at = "node"
    /\ node = "terminal"
    /\ at' = "evaluate"
    /\ UNCHANGED <<checkpoint, runtime, node, nodes, evaluation, evidence, term,
                   pc>>

\* save_evaluation; an interrupted worker ends after it.
Evaluate ==
    /\ at \in {"evaluate", "interrupted"}
    /\ evaluation' = status
    /\ at' = IF at = "evaluate" THEN "record" ELSE "failed"
    /\ UNCHANGED <<checkpoint, runtime, node, nodes, evidence, term, pc>>

\* What _finish leaves: evaluation.status is "finished" whatever the reason.
Finished == status \in {"finished", "stopped"}

\* RuntimeResult.matched
Matched ==
    /\ ~Graph => nodes.count = 0
    /\ Graph /\ Finished => nodes.last = "terminal"

Record ==
    /\ at = "record"
    /\ IF Matched
       THEN /\ evidence' = {[status |-> status, nodes |-> nodes]}
            /\ at' = "report"
       ELSE at' = "failed" /\ UNCHANGED evidence
    /\ UNCHANGED <<checkpoint, runtime, node, nodes, evaluation, term, pc>>

Report ==
    /\ at = "report"
    /\ at' = "exited"
    /\ UNCHANGED <<checkpoint, runtime, node, nodes, evaluation, evidence, term,
                   pc>>

Worker == Enter \/ ModelRequested \/ ModelReturned \/ ToolRequested
          \/ ToolReturned \/ Terminal \/ Evaluate \/ Record \/ Report

\* Inside the driver.
Driving == at \in {"route", "node", "asking"}

\* Mutant: the node's exception is caught and the driver goes on.
InterruptedCaught == at' = IF Driving THEN at ELSE "failed"

\* expire: a KeyboardInterrupt where the worker is.  The run under way is
\* evaluated as it is; later, or a second time, the worker just ends.
Interrupted == at' = IF Driving THEN "interrupted" ELSE "failed"

Timer ==
    /\ Alive
    /\ "SIGALRM" \notin term
    /\ term' = term \cup {"SIGALRM"}
    /\ Interrupted
    /\ UNCHANGED <<checkpoint, runtime, node, nodes, evaluation, evidence, pc>>

-----------------------------------------------------------------------------
(* The controller: run_runtime *)

worker == <<checkpoint, runtime, node, nodes, evaluation, evidence>>

\* Popen returns and the try block is entered; or an exception comes between
\* the fork and the try, which nothing in run_runtime handles.
Own ==
    /\ pc = "spawn"
    /\ pc' \in {"wait", "lost"}
    /\ UNCHANGED <<worker, at, term>>

\* communicate returns; the exit status, then runtime.json.
Return ==
    /\ pc = "wait"
    /\ ~Alive
    /\ pc' = IF at = "exited" /\ evidence # {} THEN "returned" ELSE "raised"
    /\ UNCHANGED <<worker, at, term>>

\* The deadline, the alarm of the study's child, or Ctrl-C: SIGTERM.
Interrupt ==
    /\ pc = "wait"
    /\ pc' = "stopping"
    /\ term' = term \cup {"SIGTERM"}
    /\ IF Alive THEN Interrupted ELSE UNCHANGED at
    /\ UNCHANGED worker

\* Mutant: after two seconds the controller goes on without it.
StopPolitely ==
    /\ pc = "stopping"
    /\ pc' = "raised"
    /\ UNCHANGED <<worker, at, term>>

\* Two seconds for its evaluation, then SIGKILL, and the exception goes on.
Stop ==
    /\ pc = "stopping"
    /\ at' = IF Alive THEN "failed" ELSE at
    /\ pc' = "raised"
    /\ UNCHANGED <<worker, term>>

\* SIGKILL of the controller, or another exception while it stops the worker.
Gone ==
    /\ pc \in {"spawn", "wait", "stopping"}
    /\ pc' = "gone"
    /\ UNCHANGED <<worker, at, term>>

Controller == Own \/ Return \/ Interrupt \/ Stop

RuntimeNext == Worker \/ Timer \/ Controller \/ Gone

RuntimeSpec == RuntimeInit /\ [][RuntimeNext]_vars

\* The worker is scheduled, but a node may hang: then its timer ends it.  The
\* controller waits up to its deadline.
FairSpec == RuntimeSpec /\ WF_vars(Timer) /\ WF_vars(Evaluate)
                        /\ WF_vars(Record \/ Report) /\ WF_vars(Controller)

-----------------------------------------------------------------------------
(* Properties *)

Statuses == {"running", "blocked", "finished", "stopped", "error"}

TypeOK ==
    /\ status \in Statuses
    /\ model_calls \in 0 .. MaxModelCalls /\ tool_calls \in 0 .. MaxToolCalls
    /\ pending \in 0 .. MaxBatch /\ cursor \in 0 .. pending
    /\ reserved => cursor < pending
    /\ nodes.count \in 0 .. RecursionLimit
    /\ evaluation \in Statuses \cup {"none"}
    /\ evidence # {} => evaluation = status

\* The frozen limits fit each other: the graph never fails where the native loop
\* would go on, whatever the model answers, and its route never leads to a step
\* that refuses the checkpoint.
DriverNeverFails == status # "error"

\* A result is returned only for a run that ended by itself, was evaluated as it
\* ended, and, if the graph ended it, reached the terminal node.
ResultIsComplete ==
    pc = "returned" =>
        /\ at = "exited"
        /\ evaluation = status /\ status # "running"
        /\ Graph /\ Finished => nodes.last = "terminal"

\* Whatever interrupts the controller from its try block on, it leaves no worker
\* behind; an exception before it loses the worker to its own timer.
NoWorkerLeft == pc \in {"returned", "raised"} => ~Alive

\* A run ends cleanly: with a complete result or none, and without a worker.
EndsCleanly == ResultIsComplete /\ NoWorkerLeft

\* The loop, read from the checkpoint and the place of the worker: a run whose
\* worker has left the driver while it was running is cut off.
Loop == INSTANCE BoundaryLoop WITH
    status <- IF status = "running" /\ ~Driving THEN "cut" ELSE status,
    models <- model_calls,
    tools <- tool_calls,
    pending <- pending - cursor,
    open <- IF at = "asking" THEN "model"
            ELSE IF at = "node" /\ reserved THEN "tool" ELSE "none"

\* Both runtimes implement the loop: the same requests in the same order, a
\* batch worked off call by call before the next request, and nothing more once
\* the worker is interrupted, although the checkpoint still says "running".
ImplementsBoundaryLoop == Loop!Spec

\* A hanging worker ends, also when its controller is gone or has lost it.
EventuallyQuiet == <>[](pc \notin {"spawn", "wait", "stopping"} /\ ~Alive)
=============================================================================
