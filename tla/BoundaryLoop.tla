---------------------------- MODULE BoundaryLoop ----------------------------
(***************************************************************************)
(* What a runtime has to keep of the native loop (advance, model_step and  *)
(* tool_step of boundaries.py): one model request at a time, its calls one *)
(* by one and in order before the next request, both budgets, and an end   *)
(* that is never left.                                                     *)
(***************************************************************************)
EXTENDS Naturals

CONSTANTS
    MaxModelCalls,   \* model requests of a run
    MaxToolCalls,    \* tool requests of a run
    MaxBatch         \* bound: calls in one response

VARIABLES
    status,    \* running, blocked, finished, stopped by _finish, or cut off
    models,    \* model requests made
    tools,     \* tool requests made
    pending,   \* calls of the last response that are not answered yet
    open       \* the request under way: none, model or tool

loop == <<status, models, tools, pending, open>>

Init ==
    /\ status \in {"running", "blocked"}   \* a scan may block the run
    /\ models = 0 /\ tools = 0 /\ pending = 0
    /\ open = "none"

AskModel ==
    /\ status = "running" /\ pending = 0 /\ open = "none"
    /\ models < MaxModelCalls
    /\ models' = models + 1
    /\ open' = "model"
    /\ UNCHANGED <<status, tools, pending>>

ModelAnswers ==
    /\ open = "model"
    /\ open' = "none"
    /\ \/ status' \in {"finished", "stopped"} /\ UNCHANGED pending
       \/ pending' \in 1 .. MaxBatch /\ UNCHANGED status
    /\ UNCHANGED <<models, tools>>

AskTool ==
    /\ status = "running" /\ pending > 0 /\ open = "none"
    /\ tools < MaxToolCalls
    /\ tools' = tools + 1
    /\ open' = "tool"
    /\ UNCHANGED <<status, models, pending>>

ToolAnswers ==
    /\ open = "tool"
    /\ open' = "none"
    /\ pending' = pending - 1
    /\ UNCHANGED <<status, models, tools>>

LimitReached ==
    /\ status = "running" /\ open = "none"
    /\ IF pending = 0 THEN models = MaxModelCalls ELSE tools = MaxToolCalls
    /\ status' = "stopped"
    /\ UNCHANGED <<models, tools, pending, open>>

\* Whoever drives the loop is interrupted: no answer is taken any more.
CutOff ==
    /\ status = "running"
    /\ status' = "cut"
    /\ open' = "none"
    /\ UNCHANGED <<models, tools, pending>>

Next == AskModel \/ ModelAnswers \/ AskTool \/ ToolAnswers \/ LimitReached
        \/ CutOff

Spec == Init /\ [][Next]_loop
=============================================================================
