----------------------- MODULE RuntimeTransfer_proofs -----------------------
(***************************************************************************)
(* Theorems about RuntimeTransfer, for every budget of model and tool      *)
(* requests that fits the graph's recursion limit, and any size of a       *)
(* response.  The inductive invariant counts the nodes of the graph        *)
(* against the requests made: one node per request, and one more for the   *)
(* node that has been entered and has not asked yet.                       *)
(***************************************************************************)
EXTENDS RuntimeTransfer, TLAPS

Types ==
    /\ status \in Statuses \ {"error"}
    /\ model_calls \in 0 .. MaxModelCalls /\ tool_calls \in 0 .. MaxToolCalls
    /\ pending \in 0 .. MaxBatch /\ cursor \in Nat /\ cursor <= pending
    /\ reserved \in BOOLEAN
    /\ runtime \in {"native", "langgraph"}
    /\ pc \in {"spawn", "wait", "stopping", "returned", "raised", "lost", "gone"}
    /\ at \in {"route", "node", "asking", "evaluate", "interrupted", "record",
               "report", "exited", "failed"}
    /\ node \in {"none", "model", "tools", "terminal"}
    /\ nodes \in [count : Nat, last : {"none", "model", "tools", "terminal"}]
    /\ evaluation \in (Statuses \ {"error"}) \cup {"none"}

\* The step the worker is at, the status of the run and its batch agree.
Steps ==
    /\ at = "route" => ~reserved
    /\ at = "asking" => status = "running" /\ ~reserved /\ cursor = pending
    /\ at = "node" =>
          IF status = "running"
          THEN \/ node = "model" /\ cursor = pending /\ ~reserved
               \/ node = "tools" /\ cursor < pending
          ELSE node = "terminal" /\ ~reserved
    /\ reserved => cursor < pending
    /\ at \in {"evaluate", "record", "report", "exited"} => status # "running"

\* The nodes the graph has entered: one for each request, and one more while
\* the node that was entered last has not made its own.
Counts ==
    /\ ~Graph => nodes.count = 0
    /\ nodes.count <= model_calls + tool_calls + 2
    /\ at = "route" =>
          nodes.count <= model_calls + tool_calls
                         + (IF status = "running" THEN 0 ELSE 1)
    /\ at = "asking" => nodes.count <= model_calls + tool_calls
    /\ at = "node" /\ status = "running" =>
          nodes.count <= model_calls + tool_calls + (IF reserved THEN 0 ELSE 1)

\* What the worker leaves behind.
Evidence ==
    /\ at = "node" /\ status # "running" /\ Graph => nodes.last = "terminal"
    /\ at \in {"evaluate", "record", "report", "exited"} =>
          (Graph /\ Finished => nodes.last = "terminal")
    /\ at \in {"record", "report", "exited"} => evaluation = status
    /\ evidence # {} =>
          at \in {"report", "exited", "failed"} /\ evaluation = status

RuntimeInv == Types /\ Steps /\ Counts /\ Evidence /\ ResultIsComplete
                    /\ NoWorkerLeft

-----------------------------------------------------------------------------
LEMMA InitInv == RuntimeInit => RuntimeInv
  <1> SUFFICES ASSUME RuntimeInit PROVE RuntimeInv
      OBVIOUS
  <1> USE LimitsAssumption DEF RuntimeInit
  <1>1. Types
    <2>1. reserved \in BOOLEAN
      BY Zenon
    <2> HIDE DEF RuntimeInit
    <2>2. /\ status \in {"running", "blocked"} /\ model_calls = 0
          /\ tool_calls = 0 /\ pending = 0 /\ cursor = 0
          /\ runtime \in {"native", "langgraph"} /\ node = "none"
          /\ at \in {"route", "evaluate"} /\ pc = "spawn"
          /\ nodes = [count |-> 0, last |-> "none"] /\ evaluation = "none"
      BY Zenon DEF RuntimeInit
    <2> QED BY <2>1, <2>2 DEF Types, Statuses
  <1>2. Steps /\ Evidence /\ ResultIsComplete /\ NoWorkerLeft
    BY DEF Steps, Evidence, ResultIsComplete, NoWorkerLeft, Graph, Alive,
           Finished
  <1>3. Counts
    BY DEF Counts, Graph
  <1> QED BY <1>1, <1>2, <1>3 DEF RuntimeInv

\* Before a node is entered the limit is not reached, and the step it leads to
\* takes the checkpoint as it is.
LEMMA NeverRefused ==
    ASSUME RuntimeInv, at = "route"
    PROVE  nodes.count < RecursionLimit /\ ~Refuses(Route)
  <1>1. nodes.count < RecursionLimit
    BY LimitsAssumption DEF RuntimeInv, Types, Counts, RecursionLimit
  <1>2. ~Refuses(Route)
    BY LimitsAssumption DEF RuntimeInv, Types, Refuses, Route
  <1> QED BY <1>1, <1>2

LEMMA EnterInv == RuntimeInv /\ Enter => RuntimeInv'
  <1> SUFFICES ASSUME RuntimeInv, Enter PROVE RuntimeInv'
      OBVIOUS
  <1>1. /\ at = "route" /\ at' = "node" /\ node' = Route
        /\ nodes' = IF Graph THEN [count |-> nodes.count + 1, last |-> Route]
                    ELSE nodes
        /\ UNCHANGED <<status, model_calls, tool_calls, pending, cursor,
                       reserved, runtime, evaluation, evidence, term, pc>>
    BY NeverRefused DEF Enter, RuntimeInv, Types
  <1>2. Route \in {"model", "tools", "terminal"}
    BY DEF Route
  <1>3. nodes.count \in Nat
    BY DEF RuntimeInv, Types
  <1>4. Types'
    BY <1>1, <1>2, <1>3 DEF RuntimeInv, Types
  <1>5. Steps'
    BY <1>1, LimitsAssumption DEF RuntimeInv, Types, Steps, Route
  <1>6. nodes'.count <= nodes.count + 1 /\ (~Graph => nodes'.count = nodes.count)
    BY <1>1, <1>3
  <1>7. Counts'
    BY <1>1, <1>3, <1>4, <1>6, LimitsAssumption
       DEF RuntimeInv, Types, Counts, Steps, Graph
  <1>8. Evidence'
    BY <1>1 DEF RuntimeInv, Evidence, Route, Graph, Finished
  <1>9. ResultIsComplete' /\ NoWorkerLeft'
    BY <1>1 DEF RuntimeInv, ResultIsComplete, NoWorkerLeft, Alive
  <1> QED BY <1>4, <1>5, <1>7, <1>8, <1>9 DEF RuntimeInv

\* A step of the run that ends it or makes a request, and one that takes an
\* answer.
LEMMA RequestInv ==
    RuntimeInv /\ (ModelRequested \/ ToolRequested) => RuntimeInv'
  <1> SUFFICES ASSUME RuntimeInv, ModelRequested \/ ToolRequested
               PROVE  RuntimeInv'
      OBVIOUS
  <1> USE LimitsAssumption
      DEF RuntimeInv, Types, Statuses, Steps, Counts, Evidence,
          ResultIsComplete, NoWorkerLeft, Alive, Graph, Finished
  <1>1. CASE ModelRequested
    <2>1. at = "node" /\ status = "running" /\ node = "model" /\ ~reserved
          /\ cursor = pending
      BY <1>1 DEF ModelRequested
    <2>2. CASE Finish({"stopped"})
      BY <1>1, <2>1, <2>2 DEF ModelRequested, Finish
    <2>3. CASE at' = "asking"
      BY <1>1, <2>1, <2>3 DEF ModelRequested, Finish
    <2> QED BY <1>1, <2>2, <2>3 DEF ModelRequested
  <1>2. CASE ToolRequested
    <2>1. at = "node" /\ status = "running" /\ node = "tools" /\ ~reserved
          /\ cursor < pending
      BY <1>2 DEF ToolRequested
    <2>2. CASE Finish({"stopped"})
      BY <1>2, <2>1, <2>2 DEF ToolRequested, Finish
    <2>3. CASE reserved' = TRUE /\ UNCHANGED at
      BY <1>2, <2>1, <2>3 DEF ToolRequested, Finish
    <2> QED BY <1>2, <2>2, <2>3 DEF ToolRequested
  <1> QED BY <1>1, <1>2

LEMMA AnswerInv ==
    RuntimeInv /\ (ModelReturned \/ ToolReturned) => RuntimeInv'
  <1> SUFFICES ASSUME RuntimeInv, ModelReturned \/ ToolReturned
               PROVE  RuntimeInv'
      OBVIOUS
  <1> USE LimitsAssumption
      DEF RuntimeInv, Types, Statuses, Steps, Counts, Evidence,
          ResultIsComplete, NoWorkerLeft, Alive, Graph, Finished
  <1>1. CASE ModelReturned
    <2>1. CASE Finish({"finished", "stopped"})
      BY <1>1, <2>1 DEF ModelReturned, Finish
    <2>2. CASE /\ \E calls \in 1 .. MaxBatch : AssistantCheckpoint(calls)
               /\ at' = "route"
               /\ UNCHANGED <<status, model_calls, tool_calls, reserved>>
      BY <1>1, <2>2 DEF ModelReturned, AssistantCheckpoint
    <2> QED BY <1>1, <2>1, <2>2 DEF ModelReturned
  <1>2. CASE ToolReturned
    <2>1. /\ at = "node" /\ status = "running" /\ node = "tools" /\ reserved
          /\ cursor < pending /\ cursor' = cursor + 1 /\ reserved' = FALSE
          /\ at' = "route"
          /\ UNCHANGED <<status, model_calls, tool_calls, pending, runtime,
                         node, nodes, evaluation, evidence, term, pc>>
      BY <1>2 DEF ToolReturned
    <2>2. Types'
      <3>1. reserved' \in BOOLEAN
        BY <2>1, Zenon
      <3>2. cursor' \in Nat /\ cursor' <= pending'
        BY <2>1
      <3> QED BY <2>1, <3>1, <3>2
    <2>3. Steps' /\ Counts'
      BY <2>1
    <2>4. Evidence' /\ ResultIsComplete' /\ NoWorkerLeft'
      BY <2>1
    <2> QED BY <2>2, <2>3, <2>4
  <1> QED BY <1>1, <1>2

\* The end of the worker: its terminal node, evaluation, evidence and report.
LEMMA EndingInv ==
    RuntimeInv /\ (Terminal \/ Evaluate \/ Record \/ Report) => RuntimeInv'
  <1> SUFFICES ASSUME RuntimeInv, Terminal \/ Evaluate \/ Record \/ Report
               PROVE  RuntimeInv'
      OBVIOUS
  <1> USE DEF checkpoint, RuntimeInv, Types, Steps, Counts, Evidence,
              ResultIsComplete, NoWorkerLeft, Alive, Graph, Finished
  <1>1. CASE Terminal
    BY <1>1 DEF Terminal
  <1>2. CASE Evaluate
    BY <1>2 DEF Evaluate
  <1>3. CASE Record
    BY <1>3 DEF Record
  <1>4. CASE Report
    BY <1>4 DEF Report
  <1> QED BY <1>1, <1>2, <1>3, <1>4

\* Signals, the controller and its death.
LEMMA ControlInv ==
    RuntimeInv /\ (Timer \/ Controller \/ Gone) => RuntimeInv'
  <1> SUFFICES ASSUME RuntimeInv, Timer \/ Controller \/ Gone PROVE RuntimeInv'
      OBVIOUS
  <1> USE DEF checkpoint, worker, RuntimeInv, Types, Steps, Counts, Evidence,
              ResultIsComplete, NoWorkerLeft, Alive, Graph, Finished
  <1>1. CASE Timer
    BY <1>1 DEF Timer, Interrupted, Driving
  <1>2. CASE Own
    BY <1>2 DEF Own
  <1>3. CASE Return
    BY <1>3 DEF Return
  <1>4. CASE Interrupt
    BY <1>4 DEF Interrupt, Interrupted, Driving
  <1>5. CASE Stop
    BY <1>5 DEF Stop
  <1>6. CASE Gone
    BY <1>6 DEF Gone
  <1> QED BY <1>1, <1>2, <1>3, <1>4, <1>5, <1>6 DEF Controller

LEMMA StutterInv == RuntimeInv /\ UNCHANGED vars => RuntimeInv'
  BY DEF vars, checkpoint, RuntimeInv, Types, Steps, Counts, Evidence,
         ResultIsComplete, NoWorkerLeft, Alive, Graph, Finished

\* The invariant holds throughout every run under either runtime.
THEOREM RuntimeInvariant == RuntimeSpec => []RuntimeInv
  <1>1. RuntimeInv /\ [RuntimeNext]_vars => RuntimeInv'
    BY EnterInv, RequestInv, AnswerInv, EndingInv, ControlInv, StutterInv
       DEF RuntimeNext, Worker
  <1> QED BY InitInv, <1>1, PTL DEF RuntimeSpec

-----------------------------------------------------------------------------
\* Every variable of a run keeps its type, and no budget is exceeded.
THEOREM RuntimeTypes == RuntimeSpec => []TypeOK
  <1>1. RuntimeInv => TypeOK
    BY LimitsAssumption
       DEF RuntimeInv, Types, Steps, Counts, Evidence, TypeOK, RecursionLimit,
           Statuses
  <1> QED BY <1>1, RuntimeInvariant, PTL

\* Whatever the model answers, the graph never runs out of nodes before the
\* budgets end the run (recursion_limit in run_graph, six calls of each kind),
\* and no step is led to a checkpoint it refuses.
THEOREM LimitsFit == RuntimeSpec => []DriverNeverFails
  <1>1. RuntimeInv => DriverNeverFails
    BY DEF RuntimeInv, Types, DriverNeverFails
  <1> QED BY <1>1, RuntimeInvariant, PTL

\* run_runtime returns only results of runs that ended by themselves and were
\* evaluated as they ended.
THEOREM ResultsAreComplete == RuntimeSpec => []ResultIsComplete
  <1>1. RuntimeInv => ResultIsComplete
    BY DEF RuntimeInv
  <1> QED BY <1>1, RuntimeInvariant, PTL

\* Whether run_runtime returns or raises from its try block, its worker is gone.
THEOREM WorkersAreStopped == RuntimeSpec => []NoWorkerLeft
  <1>1. RuntimeInv => NoWorkerLeft
    BY DEF RuntimeInv
  <1> QED BY <1>1, RuntimeInvariant, PTL

\* Both runtimes implement the loop of the boundary run: read through the
\* cursor, the reservation and the place of the worker, every step is a request,
\* an answer, an exhausted budget or the cut of an interrupted run, or leaves
\* the loop alone.
THEOREM RuntimesImplementLoop == RuntimeSpec => ImplementsBoundaryLoop
  <1>1. RuntimeInit => Loop!Init
    BY DEF RuntimeInit, Loop!Init, Driving
  <1>2. RuntimeInv /\ [RuntimeNext]_vars => [Loop!Next]_Loop!loop
    <2> SUFFICES ASSUME RuntimeInv, [RuntimeNext]_vars
                 PROVE  Loop!Next \/ UNCHANGED Loop!loop
        OBVIOUS
    <2> USE LimitsAssumption
        DEF RuntimeInv, Types, Steps, Statuses, Driving, Loop!loop
    <2>1. CASE Enter
      BY <2>1, NeverRefused DEF Enter
    <2>2. CASE ModelRequested
      BY <2>2 DEF ModelRequested, Finish, Loop!Next, Loop!AskModel,
                  Loop!LimitReached
    <2>3. CASE ModelReturned
      BY <2>3 DEF ModelReturned, AssistantCheckpoint, Finish, Loop!Next,
                  Loop!ModelAnswers
    <2>4. CASE ToolRequested
      BY <2>4 DEF ToolRequested, Finish, Loop!Next, Loop!AskTool,
                  Loop!LimitReached
    <2>5. CASE ToolReturned
      BY <2>5 DEF ToolReturned, Loop!Next, Loop!ToolAnswers
    <2>6. CASE Terminal \/ Evaluate \/ Record \/ Report
      BY <2>6 DEF Terminal, Evaluate, Record, Report, checkpoint
    <2>7. CASE Timer \/ Interrupt \/ Stop
      BY <2>7 DEF Timer, Interrupt, Interrupted, Stop, Alive, worker,
                  checkpoint, Loop!Next, Loop!CutOff
    <2>8. CASE Own \/ Return \/ Gone
      BY <2>8 DEF Own, Return, Gone, worker, checkpoint
    <2>9. CASE UNCHANGED vars
      BY <2>9 DEF vars, checkpoint
    <2> QED BY <2>1, <2>2, <2>3, <2>4, <2>5, <2>6, <2>7, <2>8, <2>9
            DEF RuntimeNext, Worker, Controller
  <1> QED BY <1>1, <1>2, RuntimeInvariant, PTL
      DEF RuntimeSpec, ImplementsBoundaryLoop, Loop!Spec

\* The two together: what a controller leaves when it ends (run_runtime).
THEOREM RunsEndCleanly == RuntimeSpec => []EndsCleanly
  <1>1. ResultIsComplete /\ NoWorkerLeft => EndsCleanly
    BY DEF EndsCleanly
  <1> QED BY <1>1, ResultsAreComplete, WorkersAreStopped, PTL
=============================================================================
