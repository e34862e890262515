-------------------------- MODULE DurableRun_proofs --------------------------
(***************************************************************************)
(* Proofs about DurableRun, for every value of the constants.              *)
(***************************************************************************)
EXTENDS DurableRun, SequenceTheorems, FiniteSetTheorems, TLAPS

\* Where the runner is inside supervisor.execute, and inside dispatch.
Executing == {"loop", "backoff", "attempt", "spawn", "send", "wait", "observe",
              "stopping", "import", "charge", "judge"}
Dispatching == {"send", "wait", "observe", "stopping"}

\* What the place of the runner says about the checkpoint it works on.
ControlInv ==
    /\ pc \in Executing \cup {"return"} => tool_reserved
    /\ pc \in Executing => Unfinished
    /\ pc \in {"backoff", "attempt"} => MayAttempt /\ active.attempts > 0
    /\ pc \in {"spawn"} \cup Dispatching => total_attempts > 0
    /\ pc \in {"spawn", "send", "wait", "observe"} =>
          active.remaining > GraceSeconds
    /\ pc = "model" => phase = "model"
    /\ pc \in {"evaluate", "publish", "finalize"} => phase = "terminal"
    /\ pc = "evaluate" => hot = FALSE
    /\ fault_cursor <= total_attempts

\* A reserved call is the current one of a complete response.
ReservedInv ==
    tool_reserved => /\ phase = "tools"
                     /\ tool_cursor < Len(pending)
                     /\ ~last_turn.length

\* The script reads the last answer only when there is one.
ScriptInv ==
    /\ phase = "tools" => tool_cursor <= Len(messages)
    /\ phase = "model" /\ script_cursor > 0 => Len(messages) > 0

\* A live worker is the current one, and its supervisor waits for it or is
\* gone; only create calls open a transaction.
LiveInv ==
    /\ OnlyCurrentWorkerLives
    /\ \A k \in Slots : Live(k) => pc \in Dispatching \cup {"down"}
    /\ \A k \in Slots : worker[k].stage = "txn" =>
                            worker[k].call.name = "create_task"

\* The evaluation comes after everything else.
EvaluationInv ==
    /\ evaluation # NoEvaluation => phase = "terminal"
    /\ EvaluationIsFinal

Inv == StateType /\ ControlInv /\ ReservedInv /\ ScriptInv /\ LiveInv
           /\ EvaluationInv

-----------------------------------------------------------------------------
(* Initial states *)

LEMMA InitInv == Init => Inv
<1> SUFFICES ASSUME Init PROVE Inv
  OBVIOUS
<1> USE DEF Init, StoreInit, WorkerInit, SupervisorInit, DurableInit
<1>1. StoreType
  <2>1. tasks = {} /\ task_operations = {} /\ fresh = 1
    OBVIOUS
  <2>2. hot \in BOOLEAN
    BY Zenon
  <2> QED
    BY <2>1, <2>2 DEF StoreType
<1>2. WorkerType
  BY DEF WorkerType, NoWorker, NoAnswer, NoCall, Answers, Calls, Stages,
         Faults, Codes
<1>3. SupervisorType
  BY ConfigAssumption, TotalAttemptsAssumption
     DEF SupervisorType, NoOperation, Operations, CallIds, NoCall, NoAnswer,
         Answers, Calls, Codes, Faults
<1>4. DurableType
  <2>1. tool_reserved \in BOOLEAN /\ finalized \in BOOLEAN
    BY Zenon
  <2>2. last_turn \in Turns \cup {NoTurn}
    OBVIOUS
  <2>3. terminal \in Results
    BY DEF NoResult, Results, Absent, Contents, Statuses
  <2> QED
    BY <2>1, <2>2, <2>3, RunAssumption DEF DurableType
<1>5. ControlInv /\ ReservedInv /\ ScriptInv /\ LiveInv /\ EvaluationInv
  BY DEF ControlInv, ReservedInv, ScriptInv, LiveInv, EvaluationInv,
         EvaluationIsFinal, OnlyCurrentWorkerLives, Live, NoWorker, Executing,
         Dispatching
<1> QED
  BY <1>1, <1>2, <1>3, <1>4, <1>5 DEF Inv, StateType

-----------------------------------------------------------------------------
(* Types: what a step leaves alone keeps its type *)

LEMMA StoreFrame == StoreType /\ UNCHANGED store => StoreType'
<1> SUFFICES ASSUME StoreType, UNCHANGED store PROVE StoreType'
  OBVIOUS
<1>1. hot' \in BOOLEAN
  BY Zenon DEF StoreType, store
<1> QED
  BY <1>1 DEF StoreType, store

LEMMA WorkerFrame ==
  WorkerType /\ UNCHANGED <<worker, evidence>> => WorkerType'
BY DEF WorkerType

LEMMA SupervisorFrame ==
  SupervisorType /\ UNCHANGED <<config, supervisor, pc>> => SupervisorType'
BY DEF SupervisorType, supervisor, EvidenceLines

LEMMA DurableFrame ==
  DurableType /\ UNCHANGED <<config, journal, deaths>> => DurableType'
<1> SUFFICES ASSUME DurableType, UNCHANGED <<config, journal, deaths>>
             PROVE  DurableType'
  OBVIOUS
<1>1. tool_reserved' \in BOOLEAN /\ finalized' \in BOOLEAN
  BY Zenon DEF DurableType, journal, checkpoint
<1> QED
  BY <1>1 DEF DurableType, journal, checkpoint, deaths

\* A step that moves the runner to p and leaves the supervisor's state alone.
LEMMA SupervisorMoves ==
  ASSUME SupervisorType, UNCHANGED <<config, supervisor>>,
         pc' \in {"down", "drive", "model", "loop", "return", "evaluate",
                  "publish", "finalize", "wait"}
  PROVE  SupervisorType'
BY DEF SupervisorType, supervisor, EvidenceLines

-----------------------------------------------------------------------------
(* Types: the steps of the drive loop *)

LEMMA StopType ==
  ASSUME StateType, NEW status \in Statuses, NEW content \in Contents,
         Stop(status, content)
  PROVE  StateType'
<1> USE DEF StateType, Stop
<1>1. StoreType' /\ WorkerType'
  BY StoreFrame, WorkerFrame
<1>2. SupervisorType'
  BY SupervisorMoves
<1>3. terminal' \in Results
  BY DEF DurableType, Results
<1>4. tool_reserved' \in BOOLEAN /\ finalized' \in BOOLEAN
  BY Zenon DEF DurableType
<1>5. DurableType'
  BY <1>3, <1>4 DEF DurableType, deaths
<1> QED
  BY <1>1, <1>2, <1>5

LEMMA ScriptedTurnType ==
  ASSUME Inv, pc = "model" PROVE ScriptedTurn \in Turns
<1> USE DEF Inv, StateType
<1>1. phase = "model"
  BY DEF ControlInv
<1>2. /\ ExpectedTitle \in Titles
      /\ script_cursor \in Nat
  BY RunAssumption DEF DurableType
<1>3. Create(ExpectedTitle) \in Calls
  BY <1>2 DEF Create, Calls
<1>4. CASE script_cursor = 0
  <2>1. ScriptedTurn = Asks(<<Create(ExpectedTitle), Create(ExpectedTitle)>>)
        \/ ScriptedTurn = Asks(<<Create(ExpectedTitle)>>)
    BY <1>4 DEF ScriptedTurn
  <2>2. /\ <<Create(ExpectedTitle), Create(ExpectedTitle)>> \in Seq(Calls)
        /\ <<Create(ExpectedTitle)>> \in Seq(Calls)
    BY <1>3
  <2>3. ASSUME NEW calls \in Seq(Calls) PROVE Asks(calls) \in Turns
    BY DEF Asks, Turns, Blank, Contents
  <2> QED
    BY <2>1, <2>2, <2>3
<1>5. CASE script_cursor # 0
  <2> DEFINE value == messages[Len(messages)].answer.task
  <2>1. Len(messages) > 0
    BY <1>1, <1>2, <1>5 DEF ScriptInv
  <2>2. messages[Len(messages)]
           \in [call_id : CallIds, call : Calls, answer : Answers]
    <3>1. messages \in Seq([call_id : CallIds, call : Calls, answer : Answers])
      BY DEF DurableType
    <3>2. Len(messages) \in 1 .. Len(messages)
      BY <2>1, <3>1
    <3> QED
      BY <3>1, <3>2, ElementOfSeq
  <2>3. value \in Nat
    BY <2>2 DEF Answers
  <2>4. ScriptedTurn \in {Asks(<<Get(value)>>), Says("completed", value),
                          Says("unknown", 0)}
    BY <1>5 DEF ScriptedTurn
  <2>5. Get(value) \in Calls
    BY <2>3 DEF Get, Calls
  <2>6. /\ Asks(<<Get(value)>>) \in Turns
        /\ Says("completed", value) \in Turns
        /\ Says("unknown", 0) \in Turns
    BY <2>3, <2>5 DEF Asks, Says, Turns, Blank, Contents
  <2> QED
    BY <2>4, <2>6
<1> QED
  BY <1>4, <1>5

LEMMA ModelReturnsType == ASSUME Inv, ModelReturns PROVE StateType'
<1> USE DEF Inv, StateType
<1>1. StoreType' /\ WorkerType'
  BY StoreFrame, WorkerFrame DEF ModelReturns
<1>2. SupervisorType'
  BY SupervisorMoves DEF ModelReturns
<1>3. PICK turn \in Turns : last_turn' = turn /\ pending' = turn.tool_calls
  BY ScriptedTurnType, ConfigAssumption DEF ModelReturns
<1>4. pending' \in Seq(Calls)
  BY <1>3 DEF Turns
<1>5. tool_reserved' \in BOOLEAN /\ finalized' \in BOOLEAN
  BY Zenon DEF DurableType, ModelReturns
<1>6. DurableType'
  BY <1>3, <1>4, <1>5 DEF DurableType, deaths, ModelReturns
<1> QED
  BY <1>1, <1>2, <1>6

LEMMA ReturnToolType == ASSUME Inv, ReturnTool PROVE StateType'
<1> USE DEF Inv, StateType
<1>1. StoreType' /\ WorkerType'
  BY StoreFrame, WorkerFrame DEF ReturnTool
<1>2. SupervisorType'
  BY SupervisorMoves DEF ReturnTool
<1>3. Current \in Calls
  BY DEF ReturnTool, ControlInv, ReservedInv, DurableType, Current
<1>4. Delivered \in Answers
  BY DEF Delivered, Answer, Answers, Codes, SupervisorType, Operations
<1>5. CallId \in CallIds
  BY DEF CallId, CallIds, DurableType
<1>6. messages' \in Seq([call_id : CallIds, call : Calls, answer : Answers])
  BY <1>3, <1>4, <1>5 DEF ReturnTool, DurableType
<1>7. tool_reserved' \in BOOLEAN /\ finalized' \in BOOLEAN
  BY Zenon DEF DurableType, ReturnTool
<1>8. DurableType'
  BY <1>6, <1>7 DEF DurableType, deaths, ReturnTool
<1> QED
  BY <1>1, <1>2, <1>8

-----------------------------------------------------------------------------
(* Types: the steps of the supervisor *)

LEMMA LessType == \A a, b \in Nat : Less(a, b) \in Nat
BY DEF Less

LEMMA LeastType == \A a, b \in Nat : Least(a, b) \in Nat
BY DEF Least

LEMMA AnswerType == \A code \in Codes : Answer(code) \in Answers
BY DEF Answer, Answers

LEMMA WaitType == ASSUME SupervisorType, active.attempts > 0 PROVE Wait \in Nat
<1>1. active.attempts \in Nat
  BY DEF SupervisorType, Operations
<1>2. Least(active.attempts, 2) \in 1 .. 2
  BY <1>1 DEF Least
<1> QED
  BY <1>2, LimitsAssumption DEF Wait

LEMMA FinishType ==
  ASSUME SupervisorType, UNCHANGED config, NEW code \in Codes, Finish(code)
  PROVE  SupervisorType'
<1>1. active' \in Operations
  BY AnswerType DEF SupervisorType, Operations, Finish
<1>2. outcome' \in Answers
  BY DEF Finish, NoAnswer, Answers, Codes
<1> QED
  BY <1>1, <1>2 DEF SupervisorType, Finish

LEMMA ReceivedType ==
  ASSUME WorkerType, k0 \in Slots PROVE Received \in Answers
BY AnswerType DEF WorkerType, Received, Codes

\* Entering execute.
LEMMA ExecuteType == ASSUME Inv, Execute PROVE StateType'
<1> USE DEF Inv, StateType
<1>1. StoreType' /\ WorkerType'
  BY StoreFrame, WorkerFrame
     DEF Execute, RejectCall, StartOperation, ReuseResult, ReenterOperation
<1>2. DurableType'
  BY DurableFrame DEF Execute
<1>3. UNCHANGED config
  BY DEF Execute
<1> SUFFICES SupervisorType'
  BY <1>1, <1>2
<1>4. CASE RejectCall(Current) \/ ReuseResult(Current, CallId)
  BY <1>3, <1>4, SupervisorMoves DEF RejectCall, ReuseResult
<1>5. CASE StartOperation(Current, CallId)
  <2>1. Current \in Calls /\ CallId \in CallIds
    BY DEF Execute, AtTool, InTools, DurableType, Current, CallId, CallIds
  <2>2. operations' \in Seq([call_id : CallIds, call : Calls])
    BY <1>5, <2>1 DEF StartOperation, SupervisorType
  <2>3. active' \in Operations
    BY <1>5, <2>1, LimitsAssumption
       DEF StartOperation, SupervisorType, Operations, NoAnswer, Answers, Codes
  <2> QED
    BY <1>3, <1>5, <2>2, <2>3 DEF StartOperation, SupervisorType
<1>6. CASE ReenterOperation(Current, CallId)
  <2>1. active' \in Operations
    BY <1>6, LessType DEF ReenterOperation, SupervisorType, Operations
  <2> QED
    BY <1>3, <1>6, <2>1 DEF ReenterOperation, SupervisorType
<1> QED
  BY <1>4, <1>5, <1>6 DEF Execute

\* One step of the attempt loop, of dispatch or of an import.
LEMMA SuperviseSupervisorType ==
  ASSUME Inv, UNCHANGED config, AttemptStep \/ ImportLine \/ Interrupt
  PROVE  SupervisorType'
<1> USE DEF Inv, StateType
<1>a. /\ total_attempts \in Nat
      /\ active.attempts \in Nat /\ active.remaining \in Nat
      /\ active.reserved \in Nat
  BY TotalAttemptsAssumption DEF SupervisorType, Operations
<1>b. pc \in {"spawn"} \cup Dispatching => k0 \in Slots
  BY <1>a, TotalAttemptsAssumption DEF ControlInv, k0, Slots, SupervisorType
<1>c. pc \in {"wait", "observe"} => Timeout \in Nat
  BY <1>a, LimitsAssumption DEF ControlInv, Timeout, Least
<1>1. CASE AttemptsExhausted \/ BackoffRefused \/ OutOfTime
  BY <1>1, FinishType
     DEF AttemptsExhausted, BackoffRefused, OutOfTime, Codes
<1>2. CASE StartBackoff
  <2>1. active' \in Operations
    BY <1>2, WaitType DEF StartBackoff, SupervisorType, Operations
  <2> QED
    BY <1>2, <2>1 DEF StartBackoff, SupervisorType
<1>3. CASE EndBackoff
  <2>1. Wait \in Nat
    BY <1>3, WaitType DEF EndBackoff, ControlInv
  <2>2. PICK slept \in Wait .. Wait + OverrunSeconds :
              active' = [active EXCEPT !.remaining = Less(@, slept),
                                       !.reserved = 0]
    BY <1>3 DEF EndBackoff
  <2>3. Less(active.remaining, slept) \in Nat
    <3>1. slept \in Nat
      BY <2>1, LimitsAssumption
    <3> QED
      BY <3>1, <1>a, LessType
  <2>4. active' \in Operations
    BY <2>2, <2>3 DEF SupervisorType, Operations
  <2> QED
    BY <1>3, <2>1, <2>4 DEF EndBackoff, SupervisorType
<1>4. CASE BeginAttempt
  <2>1. fault' \in Faults
    BY <1>4 DEF BeginAttempt, FaultFor, Faults
  <2>2. Least(active.remaining, Timeout + GraceSeconds) \in Nat
    BY <1>4, <1>a, LimitsAssumption DEF BeginAttempt, Least, Timeout
  <2>3. active' \in Operations
    <3>1. PICK reserved \in Nat : active' = [active EXCEPT
              !.attempts = @ + 1, !.reserved = reserved]
      BY <1>4, <1>a, <2>2 DEF BeginAttempt
    <3>2. active.attempts + 1 \in Nat
      BY <1>a
    <3>3. active \in Operations
      BY DEF SupervisorType
    <3>4. ASSUME NEW n \in Nat, NEW r \in Nat
          PROVE  [active EXCEPT !.attempts = n, !.reserved = r] \in Operations
      BY <3>3 DEF Operations
    <3> QED
      BY <3>1, <3>2, <3>4
  <2>4. total_attempts < TotalAttempts
    BY <1>4 DEF BeginAttempt, AtAttempt, ControlInv, MayAttempt
  <2>5. /\ total_attempts' \in 0 .. TotalAttempts
        /\ fault_cursor' \in 0 .. TotalAttempts
    BY <1>4, <1>a, <2>4, TotalAttemptsAssumption
       DEF BeginAttempt, ControlInv, SupervisorType
  <2> QED
    BY <1>4, <2>1, <2>3, <2>5 DEF BeginAttempt, SupervisorType
<1>5. CASE Spawn
  BY <1>5 DEF Spawn, SupervisorType, Faults
<1>6. CASE SendRequest
  BY <1>6, SupervisorMoves DEF SendRequest
<1>7. CASE Receive \/ LateResponse
  <2>1. elapsed' \in Nat
    BY <1>7, <1>a, <1>c, LimitsAssumption
       DEF Receive, LateResponse, Slowest, SupervisorType
  <2>2. outcome' \in Answers
    BY <1>7, <1>b, ReceivedType DEF Receive, LateResponse, Dispatching
  <2> QED
    BY <1>7, <2>1, <2>2 DEF Receive, LateResponse, SupervisorType,
                            EvidenceLines
<1>8. CASE Deadline \/ ObservationEnds
  <2>1. elapsed' \in Nat
    BY <1>8, <1>a, <1>c, LimitsAssumption
       DEF Deadline, ObservationEnds, ControlInv
  <2>2. outcome' \in Answers
    BY <1>8, AnswerType DEF Deadline, ObservationEnds, SupervisorType, Codes
  <2> QED
    BY <1>8, <2>1, <2>2 DEF Deadline, ObservationEnds, SupervisorType
<1>9. CASE Interrupt
  <2>1. outcome' \in Answers
    BY <1>9, AnswerType DEF Interrupt, Codes
  <2> QED
    BY <1>9, <2>1 DEF Interrupt, SupervisorType
<1>10. CASE StopWorker
  <2>1. elapsed' \in Nat
    BY <1>10, LimitsAssumption DEF StopWorker, SupervisorType
  <2> QED
    BY <1>10, <2>1 DEF StopWorker, SupervisorType, EvidenceLines
<1>11. CASE EndDispatch
  <2>1. outcome' \in Answers
    BY <1>11 DEF EndDispatch, SupervisorType, NoAnswer, Answers, Codes
  <2>2. elapsed' \in Nat /\ spent' \in Nat
    BY <1>11, <1>a DEF EndDispatch, SupervisorType
  <2> QED
    BY <1>11, <2>1, <2>2 DEF EndDispatch, SupervisorType
<1>12. CASE Charge
  <2>1. active' \in Operations
    BY <1>12, <1>a, LessType DEF Charge, SupervisorType, Operations
  <2>2. spent' \in Nat
    BY <1>12, <1>a, LeastType DEF Charge, SupervisorType
  <2> QED
    BY <1>12, <2>1, <2>2 DEF Charge, SupervisorType
<1>13. CASE AcceptReply \/ Retry
  <2>1. active' \in Operations
    BY <1>13 DEF AcceptReply, Retry, SupervisorType, Operations
  <2>2. outcome' \in Answers
    BY <1>13 DEF AcceptReply, Retry, NoAnswer, Answers, Codes
  <2> QED
    BY <1>13, <2>1, <2>2 DEF AcceptReply, Retry, SupervisorType
<1>14. CASE RejectReply
  BY <1>14, FinishType DEF RejectReply, Codes
<1>15. CASE GiveUp
  BY <1>15, FinishType DEF GiveUp, SupervisorType, Answers
<1>16. CASE ImportLine
  <2>1. imports' \in [LineIds -> Nat]
    BY <1>16 DEF ImportLine, SupervisorType
  <2> QED
    BY <1>16, <2>1 DEF ImportLine, SupervisorType
<1> QED
  BY <1>1, <1>2, <1>3, <1>4, <1>5, <1>6, <1>7, <1>8, <1>9, <1>10, <1>11,
     <1>12, <1>13, <1>14, <1>15, <1>16 DEF AttemptStep

-----------------------------------------------------------------------------
(* Types: workers and storage *)

LEMMA RecoverType == StoreType /\ RecoverTaskDatabase => StoreType'
<1> SUFFICES ASSUME StoreType, RecoverTaskDatabase PROVE StoreType'
  OBVIOUS
<1>1. hot' \in BOOLEAN
  BY Zenon DEF RecoverTaskDatabase
<1> QED
  BY <1>1 DEF StoreType, RecoverTaskDatabase

LEMMA ReceiptType ==
  ASSUME StoreType, NEW title \in Titles, NEW op \in Nat
  PROVE  /\ Receipt(title, op).code \in Codes
         /\ Receipt(title, op).task \in Nat
<1>1. CASE Recorded(op) = {}
  BY <1>1 DEF Receipt, StoreType, Codes
<1>2. CASE Recorded(op) # {}
  <2>1. (CHOOSE row \in Recorded(op) : TRUE) \in Recorded(op)
    BY <1>2
  <2>2. (CHOOSE row \in Recorded(op) : TRUE).task_id \in Nat
    BY <2>1 DEF Recorded, StoreType, LedgerRow
  <2> QED
    BY <1>2, <2>2 DEF Receipt, Codes
<1> QED
  BY <1>1, <1>2

LEMMA CreateType ==
  ASSUME StoreType, NEW title \in Titles, NEW op \in Nat,
         CreateTaskIdempotent(title, op)
  PROVE  StoreType'
<1>1. hot' \in BOOLEAN
  BY Zenon DEF CreateTaskIdempotent
<1>2. tasks' \in SUBSET Task
  BY DEF CreateTaskIdempotent, StoreType, Task
<1>3. task_operations' \in SUBSET LedgerRow
  BY DEF CreateTaskIdempotent, StoreType, LedgerRow
<1>4. fresh' \in Nat \ {0}
  BY DEF CreateTaskIdempotent, StoreType
<1> QED
  BY <1>1, <1>2, <1>3, <1>4 DEF StoreType

LEMMA ExitType ==
  ASSUME WorkerType, NEW k \in Slots, NEW reply \in Answers, Exit(k, reply)
  PROVE  worker' \in [Slots -> [stage : Stages, operation_id : Nat,
                                call : Calls, fault : Faults, reply : Answers]]
BY DEF WorkerType, Exit, Stages

LEMMA AdvanceType ==
  ASSUME WorkerType, NEW k \in Slots, NEW stage \in Stages, Advance(k, stage)
  PROVE  worker' \in [Slots -> [stage : Stages, operation_id : Nat,
                                call : Calls, fault : Faults, reply : Answers]]
BY DEF WorkerType, Advance

LEMMA LogType ==
  ASSUME WorkerType, NEW k \in Slots, NEW lines \in Seq(Lines), Log(k, lines)
  PROVE  evidence' \in [Slots -> Seq(Lines)]
<1>1. evidence[k] \o lines \in Seq(Lines)
  BY DEF WorkerType
<1> QED
  BY <1>1 DEF WorkerType, Log

LEMMA KillType ==
  ASSUME StoreType, WorkerType, NEW k \in Slots, Kill(k)
  PROVE  StoreType' /\ WorkerType'
<1>1. WorkerType'
  <2>1. NoAnswer \in Answers
    BY DEF NoAnswer, Answers, Codes
  <2> QED
    BY <2>1, ExitType DEF Kill, WorkerType
<1>2. hot' \in BOOLEAN
  BY Zenon DEF Kill, StoreType
<1>3. StoreType'
  BY <1>2 DEF Kill, StoreType
<1> QED
  BY <1>1, <1>3

LEMMA WorkerStepType ==
  ASSUME Inv, NEW k \in Slots, WorkerStep(k) \/ RequestMissing(k)
  PROVE  StoreType' /\ WorkerType'
<1> USE DEF Inv, StateType
<1>a. NoAnswer \in Answers
  BY DEF NoAnswer, Answers, Codes
<1>b. /\ << >> \in Seq(Lines) /\ <<"fault_activated">> \in Seq(Lines)
      /\ <<"storage_entered">> \in Seq(Lines)
      /\ <<"storage_committed">> \in Seq(Lines)
  BY DEF Lines
<1>c. /\ Answer("transient_error") \in Answers
      /\ Answer("storage_error") \in Answers
      /\ Answer("malformed") \in Answers
  BY AnswerType DEF Codes
<1>1. CASE RequestMissing(k)
  BY <1>1, <1>a, ExitType, StoreFrame DEF RequestMissing, WorkerType
<1>2. CASE PerformFault(k)
  <2>1. StoreType'
    BY <1>2, StoreFrame DEF PerformFault
  <2>2. evidence' \in [Slots -> Seq(Lines)]
    BY <1>2, <1>b, LogType DEF PerformFault
  <2> QED
    BY <1>2, <2>1, <2>2, <1>c, ExitType, AdvanceType
       DEF PerformFault, WorkerType, Stages
<1>3. CASE BeginCreate(k)
  BY <1>3, <1>b, RecoverType, LogType, AdvanceType
     DEF BeginCreate, WorkerType, Stages
<1>4. CASE ReadTask(k)
  <2>1. worker[k].call.arg \in Nat
    BY <1>4 DEF ReadTask, WorkerType, Calls
  <2>2. [code |-> "ok", task |-> GetTask(worker[k].call.arg)] \in Answers
    BY <2>1 DEF GetTask, Answers, Codes
  <2> QED
    BY <1>4, <2>2, <1>b, RecoverType, LogType, ExitType
       DEF ReadTask, WorkerType
<1>5. CASE CommitCreate(k)
  <2> DEFINE w == worker[k]
             receipt == Receipt(w.call.arg, w.operation_id)
  <2>1. w.call.arg \in Titles /\ w.operation_id \in Nat
    BY <1>5 DEF CommitCreate, LiveInv, WorkerType, Calls
  <2>2. receipt.code \in Codes /\ receipt.task \in Nat
    BY <2>1, ReceiptType
  <2>3. StoreType'
    BY <1>5, <2>1, CreateType DEF CommitCreate
  <2>4. [code |-> receipt.code, task |-> receipt.task] \in Answers
    BY <2>2 DEF Answers
  <2> HIDE DEF receipt
  <2>5. ASSUME NEW stage \in Stages, NEW reply \in Answers
        PROVE  [worker EXCEPT ![k].stage = stage, ![k].reply = reply]
                  \in [Slots -> [stage : Stages, operation_id : Nat,
                                 call : Calls, fault : Faults,
                                 reply : Answers]]
    BY DEF WorkerType
  <2>6. PICK stage \in Stages : worker' =
            [worker EXCEPT ![k].stage = stage,
                 ![k].reply = [code |-> receipt.code, task |-> receipt.task]]
    BY <1>5 DEF CommitCreate, Stages, receipt
  <2>7. worker' \in [Slots -> [stage : Stages, operation_id : Nat,
                               call : Calls, fault : Faults,
                               reply : Answers]]
    BY <2>4, <2>5, <2>6
  <2>8. UNCHANGED evidence
    BY <1>5 DEF CommitCreate
  <2> QED
    BY <2>3, <2>7, <2>8 DEF WorkerType
<1>6. CASE StorageFails(k)
  <2>1. evidence' \in [Slots -> Seq(Lines)]
    BY <1>6, <1>b, LogType DEF StorageFails
  <2> QED
    BY <1>6, <2>1, <1>c, StoreFrame, ExitType DEF StorageFails, WorkerType
<1>7. CASE RecordCommit(k)
  BY <1>7, <1>b, StoreFrame, LogType, AdvanceType
     DEF RecordCommit, WorkerType, Stages
<1>8. CASE Reply(k)
  <2>1. worker[k].reply \in Answers
    BY DEF WorkerType
  <2> QED
    BY <1>8, <2>1, <1>a, <1>c, StoreFrame, ExitType DEF Reply, WorkerType
<1> QED
  BY <1>1, <1>2, <1>3, <1>4, <1>5, <1>6, <1>7, <1>8 DEF WorkerStep

\* The supervisor starts, feeds and stops workers; it never writes a row.
LEMMA SuperviseWorkerType ==
  ASSUME Inv, UNCHANGED config, AttemptStep \/ ImportLine \/ Interrupt
  PROVE  StoreType' /\ WorkerType'
<1> USE DEF Inv, StateType
<1>1. CASE Spawn
  <2>1. StoreType'
    BY <1>1, StoreFrame DEF Spawn
  <2>2. [stage |-> "reading", operation_id |-> active.operation_id,
         call |-> active.call, fault |-> fault, reply |-> NoAnswer]
           \in [stage : Stages, operation_id : Nat, call : Calls,
                fault : Faults, reply : Answers]
    BY DEF SupervisorType, Operations, Stages, NoAnswer, Answers, Codes
  <2> QED
    BY <1>1, <2>1, <2>2 DEF Spawn, Start, WorkerType
<1>2. CASE SendRequest
  <2>1. StoreType'
    BY <1>2, StoreFrame DEF SendRequest
  <2> QED
    BY <1>2, <2>1 DEF SendRequest, WorkerType, Stages
<1>3. CASE StopWorker
  <2>1. k0 \in Slots
    BY <1>3, TotalAttemptsAssumption
       DEF StopWorker, ControlInv, Dispatching, k0, Slots, SupervisorType
  <2> QED
    BY <1>3, <2>1, KillType, StoreFrame, WorkerFrame DEF StopWorker
<1>4. CASE UNCHANGED <<worker, evidence, store>>
  BY <1>4, StoreFrame, WorkerFrame
<1>5. AttemptStep \/ ImportLine \/ Interrupt =>
         \/ Spawn \/ SendRequest \/ StopWorker
         \/ UNCHANGED <<worker, evidence, store>>
  BY DEF AttemptStep, ImportLine, Interrupt, AttemptsExhausted, BackoffRefused,
         StartBackoff, EndBackoff, OutOfTime, BeginAttempt, Receive, Deadline,
         LateResponse, ObservationEnds, EndDispatch, Charge, AcceptReply,
         RejectReply, GiveUp, Retry, Finish
<1> QED
  BY <1>1, <1>2, <1>3, <1>4, <1>5

-----------------------------------------------------------------------------
(* Types: every step *)

\* Any step of the supervisor, the runner being interrupted included.
LEMMA SuperviseType == ASSUME Inv, Supervise \/ InterruptRunner PROVE StateType'
<1>1. UNCHANGED config /\ (AttemptStep \/ ImportLine \/ Interrupt)
  BY DEF Supervise, InterruptRunner
<1>2. StoreType' /\ WorkerType' /\ SupervisorType'
  BY <1>1, SuperviseWorkerType, SuperviseSupervisorType
<1>3. DurableType'
  <2>1. CASE Supervise
    BY <2>1, DurableFrame DEF Supervise, Inv, StateType
  <2>2. CASE InterruptRunner
    <3>1. tool_reserved' \in BOOLEAN /\ finalized' \in BOOLEAN
      BY <2>2, Zenon DEF InterruptRunner, Inv, StateType, DurableType, journal,
                         checkpoint
    <3>2. crashes' \in 0 .. MaxCrashes
      BY <2>2, RunAssumption DEF InterruptRunner, Inv, StateType, DurableType
    <3> QED
      BY <2>2, <3>1, <3>2
         DEF InterruptRunner, Inv, StateType, DurableType, journal, checkpoint
  <2> QED
    BY <2>1, <2>2
<1> QED
  BY <1>2, <1>3 DEF StateType

LEMMA RunnerStepType == ASSUME Inv, RunnerStep PROVE StateType'
<1> USE DEF Inv, StateType
<1>1. /\ Absent \in Contents
      /\ last_turn.content \in Contents
  BY DEF Absent, Contents, DurableType, Turns, NoTurn
<1>2. CASE ModelLimit \/ ProviderFails \/ StopTruncated \/ StopAnswered
             \/ ToolLimit
  <2>1. PICK status \in Statuses, content \in Contents : Stop(status, content)
    BY <1>1, <1>2 DEF ModelLimit, ProviderFails, StopTruncated, StopAnswered,
                      ToolLimit, Statuses
  <2> QED
    BY <2>1, StopType
<1>3. CASE RequestModel \/ ModelReady \/ ReserveTool \/ SkipEvaluation
             \/ Publish \/ Evaluate
  <2>1. StoreType' /\ WorkerType' /\ SupervisorType'
    BY <1>3, StoreFrame, WorkerFrame, SupervisorFrame, SupervisorMoves
       DEF RequestModel, ModelReady, ReserveTool, SkipEvaluation, Publish,
           Evaluate
  <2>2. tool_reserved' \in BOOLEAN /\ finalized' \in BOOLEAN
    BY <1>3, Zenon
       DEF RequestModel, ModelReady, ReserveTool, SkipEvaluation, Publish,
           Evaluate, DurableType, journal, checkpoint
  <2>3. /\ model_calls' \in 0 .. MaxModelCalls
        /\ tool_calls' \in 0 .. MaxToolCalls
    BY <1>3, RunAssumption
       DEF RequestModel, ModelReady, ReserveTool, SkipEvaluation, Publish,
           Evaluate, DurableType, journal, checkpoint
  <2>4. phase' \in {"model", "tools", "terminal"}
    BY <1>3
       DEF RequestModel, ModelReady, ReserveTool, SkipEvaluation, Publish,
           Evaluate, DurableType, journal, checkpoint
  <2>5. pending' \in Seq(Calls) /\ tool_cursor' \in Nat
    <3>1. pending' \in {pending, << >>} /\ tool_cursor' \in {tool_cursor, 0}
      BY <1>3
         DEF RequestModel, ModelReady, ReserveTool, SkipEvaluation, Publish,
             Evaluate, journal, checkpoint
    <3>2. << >> \in Seq(Calls) /\ pending \in Seq(Calls)
      BY DEF DurableType
    <3>3. tool_cursor \in Nat
      BY DEF DurableType
    <3>4. pending' \in Seq(Calls)
      BY <3>1, <3>2, Zenon
    <3>5. tool_cursor' \in Nat
      BY <3>1, <3>3
    <3> QED
      BY <3>4, <3>5
  <2>6. UNCHANGED <<config, tool_executions, script_cursor, messages, last_turn,
                    terminal, stops, crashes>>
    BY <1>3
       DEF RequestModel, ModelReady, ReserveTool, SkipEvaluation, Publish,
           Evaluate, journal, checkpoint, deaths
  <2> QED
    BY <2>1, <2>2, <2>3, <2>4, <2>5, <2>6 DEF DurableType
<1>4. CASE ModelReturns
  BY <1>4, ModelReturnsType
<1>5. CASE Execute
  BY <1>5, ExecuteType
<1>6. CASE Supervise
  BY <1>6, SuperviseType
<1>7. CASE ReturnTool
  BY <1>7, ReturnToolType
<1>8. CASE PrepareEvaluation
  BY <1>8, RecoverType, WorkerFrame, SupervisorMoves, DurableFrame
     DEF PrepareEvaluation
<1>9. CASE ResumeDrive
  BY <1>9, RecoverType, WorkerFrame, SupervisorMoves, DurableFrame
     DEF ResumeDrive
<1>10. CASE Finalize
  <2>1. StoreType' /\ WorkerType' /\ SupervisorType'
    BY <1>10, StoreFrame, WorkerFrame, SupervisorMoves DEF Finalize
  <2>2. tool_reserved' \in BOOLEAN /\ finalized' \in BOOLEAN
    BY <1>10, Zenon DEF Finalize, DurableType
  <2> QED
    BY <1>10, <2>1, <2>2 DEF Finalize, DurableType, deaths
<1> QED
  BY <1>2, <1>3, <1>4, <1>5, <1>6, <1>7, <1>8, <1>9, <1>10 DEF RunnerStep

LEMMA TypeStep == Inv /\ [Next]_vars => StateType'
<1> SUFFICES ASSUME Inv, [Next]_vars PROVE StateType'
  OBVIOUS
<1> USE DEF Inv, StateType
<1>1. CASE RunnerStep
  BY <1>1, RunnerStepType
<1>2. CASE InterruptRunner
  BY <1>2, SuperviseType
<1>3. CASE Crash
  <2>1. StoreType' /\ WorkerType'
    BY <1>3, StoreFrame, WorkerFrame DEF Crash
  <2>2. SupervisorType'
    <3>1. spent' \in Nat
      BY <1>3 DEF Crash, SupervisorType, Operations
    <3> QED
      BY <1>3, <3>1 DEF Crash, SupervisorType, Faults, NoAnswer, Answers, Codes
  <2>3. tool_reserved' \in BOOLEAN /\ finalized' \in BOOLEAN
    BY <1>3, Zenon DEF Crash, DurableType, journal, checkpoint
  <2>4. crashes' \in 0 .. MaxCrashes
    BY <1>3, RunAssumption DEF Crash, DurableType
  <2> QED
    BY <1>3, <2>1, <2>2, <2>3, <2>4 DEF Crash, DurableType, journal, checkpoint
<1>4. CASE Resume
  <2>1. SupervisorType'
    BY <1>4 DEF Resume, SupervisorType, EvidenceLines
  <2> QED
    BY <1>4, <2>1, StoreFrame, WorkerFrame, DurableFrame DEF Resume
<1>5. CASE ResumeFinalized \/ ResumeRefused \/ UNCHANGED vars
  BY <1>5, StoreFrame, WorkerFrame, SupervisorFrame, DurableFrame
     DEF ResumeFinalized, ResumeRefused, vars
<1>6. ASSUME NEW k \in Slots, WorkerRuns(k) PROVE StateType'
  BY <1>6, WorkerStepType, SupervisorFrame, DurableFrame DEF WorkerRuns
<1>7. ASSUME NEW k \in Slots, WorkerDies(k) PROVE StateType'
  <2>1. StoreType' /\ WorkerType' /\ SupervisorType'
    BY <1>7, KillType, SupervisorFrame DEF WorkerDies
  <2>2. tool_reserved' \in BOOLEAN /\ finalized' \in BOOLEAN
    BY <1>7, Zenon DEF WorkerDies, DurableType, journal, checkpoint
  <2>3. crashes' \in 0 .. MaxCrashes
    BY <1>7, RunAssumption DEF WorkerDies, DurableType
  <2> QED
    BY <1>7, <2>1, <2>2, <2>3 DEF WorkerDies, DurableType, journal, checkpoint
<1> QED
  BY <1>1, <1>2, <1>3, <1>4, <1>5, <1>6, <1>7 DEF Next

-----------------------------------------------------------------------------
(* Control: where the runner is agrees with the checkpoint *)

LEMMA ControlAttempt ==
  ASSUME Inv, AttemptStep \/ ImportLine \/ Interrupt,
         UNCHANGED <<config, journal>>
  PROVE  ControlInv'
<1> USE DEF Inv, ControlInv, Executing, Dispatching, journal, checkpoint
<1>a. /\ total_attempts \in Nat /\ fault_cursor \in Nat
      /\ active.attempts \in Nat /\ active.remaining \in Nat
  BY TotalAttemptsAssumption DEF StateType, SupervisorType, Operations
<1>b. active \in Operations
  BY DEF StateType, SupervisorType
<1>1. CASE AttemptsExhausted \/ BackoffRefused \/ OutOfTime \/ RejectReply
             \/ GiveUp \/ AcceptReply
  <2>1. pc \in Executing
    BY <1>1 DEF AttemptsExhausted, BackoffRefused, OutOfTime, AtAttempt,
                RejectReply, GiveUp, AcceptReply
  <2>2. /\ pc' = "return"
        /\ UNCHANGED <<fault_cursor, total_attempts>>
    BY <1>1 DEF AttemptsExhausted, BackoffRefused, OutOfTime, RejectReply,
                GiveUp, AcceptReply, Finish
  <2> QED
    BY <2>1, <2>2
<1>2. CASE StartBackoff
  <2>1. /\ active'.attempts = active.attempts
        /\ active'.result = active.result
        /\ active'.operation_id = active.operation_id
    BY <1>2, <1>b DEF StartBackoff, Operations
  <2> QED
    BY <1>2, <2>1 DEF StartBackoff, MayAttempt, Maximum, Unfinished
<1>3. CASE EndBackoff
  <2>1. /\ active'.attempts = active.attempts
        /\ active'.result = active.result
        /\ active'.operation_id = active.operation_id
    BY <1>3, <1>b DEF EndBackoff, Operations
  <2> QED
    BY <1>3, <2>1 DEF EndBackoff, MayAttempt, Maximum, Unfinished
<1>4. CASE BeginAttempt
  <2>1. /\ active'.remaining = active.remaining
        /\ active'.result = active.result
        /\ active'.operation_id = active.operation_id
    BY <1>4, <1>b DEF BeginAttempt, Operations
  <2>2. pc \in Executing
    BY <1>4 DEF BeginAttempt, AtAttempt
  <2> QED
    BY <1>4, <1>a, <2>1, <2>2 DEF BeginAttempt, Unfinished
<1>5. CASE Charge
  <2>1. /\ active'.result = active.result
        /\ active'.operation_id = active.operation_id
    BY <1>5, <1>b DEF Charge, Operations
  <2> QED
    BY <1>5, <2>1 DEF Charge, Unfinished
<1>6. CASE Spawn \/ SendRequest \/ Receive \/ Deadline \/ LateResponse
             \/ ObservationEnds \/ StopWorker \/ EndDispatch \/ Retry
             \/ ImportLine \/ Interrupt
  <2>1. UNCHANGED <<active, total_attempts, fault_cursor>>
    BY <1>6 DEF Spawn, SendRequest, Receive, Deadline, LateResponse,
                ObservationEnds, StopWorker, EndDispatch, Retry, ImportLine,
                Interrupt, supervisor
  <2>2. pc' \in Executing \cup {"down"} \/ pc' = pc
    BY <1>6 DEF Spawn, SendRequest, Receive, Deadline, LateResponse,
                ObservationEnds, StopWorker, EndDispatch, Retry, ImportLine,
                Interrupt
  <2>3. pc \in Executing \/ pc' = pc
    BY <1>6 DEF Spawn, SendRequest, Receive, Deadline, LateResponse,
                ObservationEnds, StopWorker, EndDispatch, Retry, ImportLine,
                Interrupt
  <2>4. /\ pc' # "evaluate" \/ (pc' = pc /\ UNCHANGED hot)
        /\ pc' \notin {"backoff", "attempt"} \/ pc' = pc
        /\ pc' \in {"spawn"} \cup Dispatching =>
              pc \in {"spawn"} \cup Dispatching
        /\ pc' \in {"spawn", "send", "wait", "observe"} =>
              pc \in {"spawn", "send", "wait", "observe"}
        /\ pc' # "model" \/ pc' = pc
        /\ pc' \notin {"evaluate", "publish", "finalize"} \/ pc' = pc
    BY <1>6 DEF Spawn, SendRequest, Receive, Deadline, LateResponse,
                ObservationEnds, StopWorker, EndDispatch, Retry, ImportLine,
                Interrupt, store
  <2> QED
    BY <2>1, <2>2, <2>3, <2>4 DEF Unfinished, MayAttempt, Maximum
<1> QED
  BY <1>1, <1>2, <1>3, <1>4, <1>5, <1>6 DEF AttemptStep

LEMMA ControlStep == Inv /\ [Next]_vars => ControlInv'
<1> SUFFICES ASSUME Inv, [Next]_vars PROVE ControlInv'
  OBVIOUS
<1> USE DEF Inv, ControlInv, Executing, Dispatching
<1>1. CASE ModelLimit \/ ProviderFails \/ StopTruncated \/ StopAnswered
             \/ ToolLimit
  BY <1>1 DEF ModelLimit, ProviderFails, StopTruncated, StopAnswered,
              ToolLimit, Stop, supervisor
<1>2. CASE RequestModel \/ ModelReturns \/ ModelReady \/ ReserveTool
             \/ ReturnTool
  BY <1>2 DEF RequestModel, ModelReturns, ModelReady, ReserveTool, ReturnTool,
              InTools, AtTool, supervisor
<1>3. CASE PrepareEvaluation \/ Evaluate \/ SkipEvaluation \/ Publish
             \/ Finalize \/ ResumeDrive
  BY <1>3 DEF PrepareEvaluation, Evaluate, SkipEvaluation, Publish, Finalize,
              ResumeDrive, RecoverTaskDatabase, supervisor, journal, checkpoint
<1>4. CASE Execute
  <2>1. UNCHANGED <<total_attempts, fault_cursor>>
    BY <1>4 DEF Execute, RejectCall, StartOperation, ReuseResult,
                ReenterOperation, supervisor
  <2>2. tool_reserved'
    BY <1>4 DEF Execute, journal, checkpoint
  <2>3. pc' = "loop" => Unfinished'
    <3>1. CASE StartOperation(Current, CallId)
      BY <3>1 DEF StartOperation, Unfinished, StateType, SupervisorType
    <3>2. CASE ReenterOperation(Current, CallId)
      BY <3>2 DEF ReenterOperation, Unfinished, StateType, SupervisorType,
                  Operations
    <3> QED
      BY <1>4, <3>1, <3>2 DEF Execute, RejectCall, ReuseResult
  <2>4. pc' \in {"loop", "return"}
    BY <1>4 DEF Execute, RejectCall, StartOperation, ReuseResult,
                ReenterOperation
  <2> QED
    BY <2>1, <2>2, <2>3, <2>4
<1>5. CASE Supervise \/ InterruptRunner
  BY <1>5, ControlAttempt DEF Supervise, InterruptRunner
<1>6. CASE Crash \/ Resume
  BY <1>6 DEF Crash, Resume
<1>7. CASE ResumeFinalized \/ ResumeRefused \/ UNCHANGED vars
  BY <1>7 DEF ResumeFinalized, ResumeRefused, vars, supervisor, store, journal,
              checkpoint,
              Unfinished, MayAttempt, Maximum
<1>8. ASSUME NEW k \in Slots, WorkerRuns(k) \/ WorkerDies(k)
      PROVE  ControlInv'
  <2>1. UNCHANGED <<config, supervisor, pc, phase, tool_reserved>>
    BY <1>8 DEF WorkerRuns, WorkerDies, journal, checkpoint
  <2>2. pc = "evaluate" => ~Live(k)
    BY DEF LiveInv
  <2>3. pc = "evaluate" => hot' = hot \/ hot' = FALSE
    BY <1>8, <2>2
       DEF WorkerRuns, WorkerDies, WorkerStep, RequestMissing, PerformFault,
           BeginCreate, ReadTask, CommitCreate, StorageFails, RecordCommit,
           Reply, Kill, Live
  <2> QED
    BY <2>1, <2>3 DEF supervisor, Unfinished, MayAttempt, Maximum
<1> QED
  BY <1>1, <1>2, <1>3, <1>4, <1>5, <1>6, <1>7, <1>8 DEF Next, RunnerStep

-----------------------------------------------------------------------------
(* The reserved call, and what the script reads *)

LEMMA ReservedStep == Inv /\ [Next]_vars => ReservedInv'
<1> SUFFICES ASSUME Inv, [Next]_vars PROVE ReservedInv'
  OBVIOUS
<1> USE DEF Inv, ReservedInv
<1>1. CASE ModelLimit \/ ProviderFails \/ StopTruncated \/ StopAnswered
             \/ ToolLimit
  <2>1. ~tool_reserved
    BY <1>1 DEF ModelLimit, ProviderFails, StopTruncated, StopAnswered,
                ToolLimit, ControlInv, InTools, StateType, DurableType
  <2> QED
    BY <1>1, <2>1 DEF ModelLimit, ProviderFails, StopTruncated, StopAnswered,
                      ToolLimit, Stop
<1>2. CASE RequestModel \/ ModelReturns \/ ModelReady
  <2>1. ~tool_reserved
    BY <1>2 DEF RequestModel, ModelReturns, ModelReady, ControlInv, InTools,
                StateType, DurableType
  <2> QED
    BY <1>2, <2>1 DEF RequestModel, ModelReturns, ModelReady
<1>3. CASE ReserveTool
  BY <1>3 DEF ReserveTool, AtTool, InTools
<1>4. CASE ReturnTool
  BY <1>4 DEF ReturnTool
<1>5. CASE Evaluate \/ Finalize
  BY <1>5 DEF Evaluate, Finalize
<1>6. CASE UNCHANGED <<phase, tool_reserved, tool_cursor, pending, last_turn>>
  BY <1>6
<1>7. CASE Execute \/ Supervise \/ InterruptRunner \/ PrepareEvaluation
             \/ SkipEvaluation \/ Publish \/ ResumeDrive \/ Crash \/ Resume
             \/ ResumeFinalized \/ ResumeRefused \/ UNCHANGED vars
  BY <1>6, <1>7
     DEF Execute, Supervise, InterruptRunner, PrepareEvaluation,
         SkipEvaluation, Publish, ResumeDrive, Crash, Resume, ResumeFinalized,
         ResumeRefused, vars, journal, checkpoint
<1>8. ASSUME NEW k \in Slots, WorkerRuns(k) \/ WorkerDies(k)
      PROVE  ReservedInv'
  BY <1>6, <1>8 DEF WorkerRuns, WorkerDies, journal, checkpoint
<1> QED
  BY <1>1, <1>2, <1>3, <1>4, <1>5, <1>7, <1>8 DEF Next, RunnerStep

LEMMA ScriptStep == Inv /\ [Next]_vars => ScriptInv'
<1> SUFFICES ASSUME Inv, [Next]_vars PROVE ScriptInv'
  OBVIOUS
<1> USE DEF Inv, ScriptInv
<1>a. /\ messages \in Seq([call_id : CallIds, call : Calls, answer : Answers])
      /\ pending \in Seq(Calls) /\ tool_cursor \in Nat
      /\ Len(messages) \in Nat /\ Len(pending) \in Nat
  BY DEF StateType, DurableType
<1>1. CASE ModelLimit \/ ProviderFails \/ StopTruncated \/ StopAnswered
             \/ ToolLimit
  BY <1>1 DEF ModelLimit, ProviderFails, StopTruncated, StopAnswered,
              ToolLimit, Stop
<1>2. CASE RequestModel
  BY <1>2 DEF RequestModel
<1>3. CASE ModelReturns
  BY <1>3, <1>a DEF ModelReturns
<1>4. CASE ModelReady
  <2>1. Len(pending) > 0
    BY <1>4, <1>a, EmptySeq DEF ModelReady
  <2> QED
    BY <1>4, <1>a, <2>1 DEF ModelReady, InTools
<1>5. CASE ReturnTool
  <2>1. Len(messages') = Len(messages) + 1
    BY <1>5, <1>a DEF ReturnTool
  <2>2. phase = "tools"
    BY <1>5 DEF ReturnTool, ControlInv, ReservedInv
  <2> QED
    BY <1>5, <1>a, <2>1, <2>2 DEF ReturnTool
<1>6. CASE UNCHANGED <<phase, tool_cursor, messages, script_cursor>>
  BY <1>6
<1>7. CASE ReserveTool \/ Evaluate \/ Finalize
  BY <1>6, <1>7 DEF ReserveTool, Evaluate, Finalize
<1>8. CASE Execute \/ Supervise \/ InterruptRunner \/ PrepareEvaluation
             \/ SkipEvaluation \/ Publish \/ ResumeDrive \/ Crash \/ Resume
             \/ ResumeFinalized \/ ResumeRefused \/ UNCHANGED vars
  BY <1>6, <1>8
     DEF Execute, Supervise, InterruptRunner, PrepareEvaluation,
         SkipEvaluation, Publish, ResumeDrive, Crash, Resume, ResumeFinalized,
         ResumeRefused, vars, journal, checkpoint
<1>9. ASSUME NEW k \in Slots, WorkerRuns(k) \/ WorkerDies(k)
      PROVE  ScriptInv'
  BY <1>6, <1>9 DEF WorkerRuns, WorkerDies, journal, checkpoint
<1> QED
  BY <1>1, <1>2, <1>3, <1>4, <1>5, <1>7, <1>8, <1>9 DEF Next, RunnerStep

-----------------------------------------------------------------------------
(* At most one worker lives, and it is the current one *)

NobodyLives == \A k \in Slots : ~Live(k)

\* A step that leaves the workers alone while none of them lives.
LEMMA QuietStep ==
  ASSUME LiveInv, NobodyLives, UNCHANGED worker PROVE LiveInv'
BY DEF LiveInv, NobodyLives, OnlyCurrentWorkerLives, Live

LEMMA NobodyElsewhere ==
  ASSUME LiveInv, pc \notin Dispatching \cup {"down"} PROVE NobodyLives
BY DEF LiveInv, NobodyLives

\* A step of worker k: it was alive, it keeps its operation and its call, and
\* only a create call enters a transaction.
LEMMA WorkerStepShape ==
  ASSUME WorkerType, NEW k \in Slots,
         WorkerStep(k) \/ RequestMissing(k) \/ Kill(k)
  PROVE  /\ Live(k)
         /\ \A j \in Slots : /\ worker'[j].operation_id = worker[j].operation_id
                             /\ worker'[j].call = worker[j].call
         /\ \A j \in Slots \ {k} : worker'[j] = worker[j]
         /\ worker'[k].stage = "txn" => worker[k].call.name = "create_task"
<1> DEFINE Moved(j) == /\ worker'[j].operation_id = worker[j].operation_id
                       /\ worker'[j].call = worker[j].call
<1>a. ASSUME NEW stage, worker' = [worker EXCEPT ![k].stage = stage]
      PROVE  /\ \A j \in Slots : Moved(j)
             /\ \A j \in Slots \ {k} : worker'[j] = worker[j]
             /\ worker'[k].stage = stage
  BY <1>a DEF WorkerType
<1>b. ASSUME NEW stage, NEW reply,
             worker' = [worker EXCEPT ![k].stage = stage, ![k].reply = reply]
      PROVE  /\ \A j \in Slots : Moved(j)
             /\ \A j \in Slots \ {k} : worker'[j] = worker[j]
             /\ worker'[k].stage = stage
  BY <1>b DEF WorkerType
<1> HIDE DEF Moved
<1>c. ASSUME NEW reply, Exit(k, reply)
      PROVE  /\ \A j \in Slots : Moved(j)
             /\ \A j \in Slots \ {k} : worker'[j] = worker[j]
             /\ worker'[k].stage = "exited"
  BY <1>b, <1>c DEF Exit
<1>d. ASSUME NEW stage, Advance(k, stage)
      PROVE  /\ \A j \in Slots : Moved(j)
             /\ \A j \in Slots \ {k} : worker'[j] = worker[j]
             /\ worker'[k].stage = stage
  BY <1>a, <1>d DEF Advance
<1>1. CASE PerformFault(k)
  <2>1. CASE Advance(k, "entering")
    BY <1>1, <2>1, <1>d DEF PerformFault, Live, Moved
  <2>2. ASSUME NEW reply, Exit(k, reply)
        PROVE  /\ \A j \in Slots : Moved(j)
               /\ \A j \in Slots \ {k} : worker'[j] = worker[j]
               /\ worker'[k].stage = "exited"
    BY <2>2, <1>c
  <2>3. \/ Advance(k, "entering")
        \/ Exit(k, Answer("transient_error"))
        \/ Exit(k, Answer("storage_error"))
    BY <1>1 DEF PerformFault
  <2> QED
    BY <1>1, <2>1, <2>2, <2>3 DEF PerformFault, Live, Moved
<1>2. CASE BeginCreate(k)
  <2>1. Advance(k, "txn")
    BY <1>2 DEF BeginCreate
  <2> QED
    BY <1>2, <2>1, <1>d DEF BeginCreate, Live, Moved
<1>3. CASE ReadTask(k) \/ StorageFails(k) \/ Reply(k) \/ RequestMissing(k)
             \/ Kill(k)
  <2>1. Live(k)
    BY <1>3 DEF ReadTask, StorageFails, Reply, RequestMissing, Kill, Live
  <2>2. PICK reply : Exit(k, reply)
    BY <1>3 DEF ReadTask, StorageFails, Reply, RequestMissing, Kill
  <2> QED
    BY <2>1, <2>2, <1>c DEF Moved
<1>4. CASE CommitCreate(k)
  <2> DEFINE receipt == Receipt(worker[k].call.arg, worker[k].operation_id)
             stage == IF receipt.code = "ok" THEN "committed" ELSE "exited"
             reply == [code |-> receipt.code, task |-> receipt.task]
  <2>1. worker' = [worker EXCEPT ![k].stage = stage, ![k].reply = reply]
    BY <1>4 DEF CommitCreate
  <2>2. stage # "txn"
    OBVIOUS
  <2> HIDE DEF stage, reply
  <2> QED
    BY <1>4, <2>1, <2>2, <1>b DEF CommitCreate, Live, Moved
<1>5. CASE RecordCommit(k)
  <2>1. Advance(k, "recorded")
    BY <1>5 DEF RecordCommit
  <2> QED
    BY <1>5, <2>1, <1>d DEF RecordCommit, Live, Moved
<1> QED
  BY <1>1, <1>2, <1>3, <1>4, <1>5 DEF WorkerStep

LEMMA LiveStep == Inv /\ [Next]_vars => LiveInv'
<1> SUFFICES ASSUME Inv, [Next]_vars PROVE LiveInv'
  OBVIOUS
<1> USE DEF Inv, StateType
<1>a. \A k \in Slots : Live(k) => k = k0
  BY DEF LiveInv, OnlyCurrentWorkerLives, k0
<1>b. pc \in {"spawn"} \cup Dispatching => k0 \in Slots
  BY TotalAttemptsAssumption DEF ControlInv, k0, Slots, SupervisorType
\* The steps the runner takes while no worker lives.
<1>1. CASE /\ UNCHANGED worker
           /\ pc \notin Dispatching \cup {"down"}
  BY <1>1, QuietStep, NobodyElsewhere
<1>2. CASE ModelLimit \/ ProviderFails \/ StopTruncated \/ StopAnswered
             \/ ToolLimit \/ RequestModel \/ ModelReturns \/ ModelReady
             \/ ReserveTool \/ ReturnTool \/ PrepareEvaluation \/ Evaluate
             \/ SkipEvaluation \/ Publish \/ Finalize \/ ResumeDrive \/ Execute
  <2>1. UNCHANGED worker
    BY <1>2 DEF ModelLimit, ProviderFails, StopTruncated, StopAnswered,
         ToolLimit, Stop, RequestModel, ModelReturns, ModelReady, ReserveTool,
         ReturnTool, PrepareEvaluation, Evaluate, SkipEvaluation, Publish,
         Finalize, ResumeDrive, Execute, RejectCall, StartOperation,
         ReuseResult, ReenterOperation
  <2>2. pc \notin Dispatching \cup {"down"}
    BY <1>2 DEF ModelLimit, ProviderFails, StopTruncated, StopAnswered,
         ToolLimit, RequestModel, ModelReturns, ModelReady, ReserveTool,
         ReturnTool, PrepareEvaluation, Evaluate, SkipEvaluation, Publish,
         Finalize, ResumeDrive, Execute, InTools, AtTool, Dispatching
  <2> QED
    BY <1>1, <2>1, <2>2
<1>3. CASE AttemptsExhausted \/ BackoffRefused \/ StartBackoff \/ EndBackoff
             \/ OutOfTime \/ BeginAttempt \/ EndDispatch \/ Charge
             \/ AcceptReply \/ RejectReply \/ GiveUp \/ Retry \/ ImportLine
  <2>1. UNCHANGED worker
    BY <1>3 DEF AttemptsExhausted, BackoffRefused, StartBackoff, EndBackoff,
         OutOfTime, BeginAttempt, EndDispatch, Charge, AcceptReply,
         RejectReply, GiveUp, Retry, ImportLine, Finish
  <2>2. pc \notin Dispatching \cup {"down"}
    BY <1>3 DEF AttemptsExhausted, BackoffRefused, StartBackoff, EndBackoff,
         OutOfTime, BeginAttempt, EndDispatch, Charge, AcceptReply,
         RejectReply, GiveUp, Retry, ImportLine, AtAttempt, Dispatching
  <2> QED
    BY <1>1, <2>1, <2>2
\* The worker's life: started, fed, waited for, stopped.
<1>4. CASE Spawn /\ Supervise
  <2>1. NobodyLives
    BY <1>4, NobodyElsewhere DEF Spawn, Dispatching
  <2>2. Unfinished /\ tool_reserved
    BY <1>4 DEF Spawn, ControlInv, Executing
  <2>3. \A j \in Slots : j # k0 => worker'[j] = worker[j]
    BY <1>4 DEF Spawn, Start, WorkerType
  <2>4. worker'[k0].operation_id = active.operation_id
           /\ worker'[k0].stage = "reading"
    BY <1>4, <1>b DEF Spawn, Start, WorkerType
  <2>5. /\ pc' = "send"
        /\ UNCHANGED <<active, total_attempts, tool_reserved>>
    BY <1>4 DEF Spawn, Supervise, journal, checkpoint
  <2> QED
    BY <2>1, <2>2, <2>3, <2>4, <2>5
       DEF LiveInv, OnlyCurrentWorkerLives, NobodyLives, Live, Unfinished, k0,
           Dispatching
<1>5. CASE SendRequest /\ Supervise
  <2>1. \A j \in Slots : /\ worker'[j].operation_id = worker[j].operation_id
                         /\ worker'[j].call = worker[j].call
                         /\ worker'[j].stage \notin {"none", "exited"} =>
                              worker[j].stage \notin {"none", "exited"}
                         /\ worker'[j].stage = "txn" => worker[j].stage = "txn"
    BY <1>5, <1>b DEF SendRequest, WorkerType, Dispatching
  <2>2. /\ pc' = "wait"
        /\ UNCHANGED <<active, total_attempts, tool_reserved>>
    BY <1>5 DEF SendRequest, Supervise, supervisor, journal, checkpoint
  <2> QED
    BY <2>1, <2>2 DEF LiveInv, OnlyCurrentWorkerLives, Live, Unfinished,
                      Dispatching
<1>6. CASE Receive \/ LateResponse
  <2>1. NobodyLives /\ UNCHANGED worker
    BY <1>6, <1>a DEF Receive, LateResponse, NobodyLives
  <2> QED
    BY <2>1, QuietStep
<1>7. CASE (Supervise \/ InterruptRunner)
             /\ (Deadline \/ ObservationEnds \/ Interrupt)
  <2>1. /\ pc' \in Dispatching
        /\ UNCHANGED <<worker, active, total_attempts, tool_reserved>>
    BY <1>7 DEF Deadline, ObservationEnds, Interrupt, Supervise,
                InterruptRunner, Dispatching, journal, checkpoint
  <2> QED
    BY <2>1 DEF LiveInv, OnlyCurrentWorkerLives, Live, Unfinished
<1>8. CASE StopWorker
  <2>1. \A j \in Slots : j # k0 => worker'[j] = worker[j]
    BY <1>8 DEF StopWorker, Kill, Exit, WorkerType
  <2>2. worker'[k0].stage \in {"none", "exited"}
    <3>1. k0 \in Slots
      BY <1>8, <1>b DEF StopWorker, Dispatching
    <3> QED
      BY <1>8, <3>1 DEF StopWorker, Kill, Exit, WorkerType, Live
  <2>3. \A j \in Slots : worker'[j].stage \in {"none", "exited"}
    BY <2>1, <2>2, <1>a DEF Live
  <2> QED
    BY <2>3 DEF LiveInv, OnlyCurrentWorkerLives, Live
<1>9. CASE Crash
  BY <1>9 DEF Crash, LiveInv, OnlyCurrentWorkerLives, Live, Unfinished,
              journal, checkpoint
<1>10. CASE Resume
  <2>1. NobodyLives /\ UNCHANGED worker
    BY <1>10 DEF Resume, RunLockFree, NobodyLives
  <2> QED
    BY <2>1, QuietStep
<1>11. CASE ResumeFinalized \/ ResumeRefused \/ UNCHANGED vars
  BY <1>11 DEF ResumeFinalized, ResumeRefused, vars, supervisor, journal,
               checkpoint, LiveInv,
               OnlyCurrentWorkerLives, Live, Unfinished
<1>12. ASSUME NEW k \in Slots, WorkerRuns(k) \/ WorkerDies(k)
       PROVE  LiveInv'
  <2>1. UNCHANGED <<pc, active, total_attempts, tool_reserved>>
    BY <1>12 DEF WorkerRuns, WorkerDies, supervisor, journal, checkpoint
  <2>2. WorkerStep(k) \/ RequestMissing(k) \/ Kill(k)
    BY <1>12 DEF WorkerRuns, WorkerDies
  <2>3. \A j \in Slots : Live(j)' => Live(j)
    BY <2>2, WorkerStepShape DEF Live
  <2>4. \A j \in Slots : worker'[j].stage = "txn" =>
                            worker'[j].call.name = "create_task"
    BY <2>2, WorkerStepShape DEF LiveInv
  <2>5. \A j \in Slots : worker'[j].operation_id = worker[j].operation_id
    BY <2>2, WorkerStepShape
  <2> QED
    BY <2>1, <2>3, <2>4, <2>5
       DEF LiveInv, OnlyCurrentWorkerLives, Unfinished
<1> QED
  BY <1>2, <1>3, <1>4, <1>5, <1>6, <1>7, <1>8, <1>9, <1>10, <1>11, <1>12
     DEF Next, RunnerStep, Supervise, InterruptRunner, AttemptStep

-----------------------------------------------------------------------------
(* Rows are written by live workers only *)

LEMMA RowsComeFromWorkers ==
  ASSUME Inv, [Next]_vars, tasks' # tasks \/ task_operations' # task_operations
  PROVE  \E k \in Slots : CommitCreate(k) /\ WorkerRuns(k)
<1>1. ~(ModelLimit \/ ProviderFails \/ StopTruncated \/ StopAnswered
             \/ ToolLimit \/ RequestModel \/ ModelReturns \/ ModelReady
             \/ ReserveTool \/ ReturnTool \/ PrepareEvaluation \/ Evaluate
             \/ SkipEvaluation \/ Publish \/ Finalize \/ ResumeDrive \/ Execute
             \/ Crash \/ Resume \/ ResumeFinalized \/ ResumeRefused
             \/ UNCHANGED vars)
  BY DEF ModelLimit, ProviderFails, StopTruncated, StopAnswered, ToolLimit,
         Stop, RequestModel, ModelReturns, ModelReady, ReserveTool, ReturnTool,
         PrepareEvaluation, Evaluate, SkipEvaluation, Publish, Finalize,
         ResumeDrive, Execute, RejectCall, StartOperation, ReuseResult,
         ReenterOperation, Crash, Resume, ResumeFinalized, ResumeRefused,
         RecoverTaskDatabase, store, vars
<1>2. ~(Supervise \/ InterruptRunner)
  BY DEF Supervise, InterruptRunner, AttemptStep, ImportLine, Interrupt,
         AttemptsExhausted, BackoffRefused, StartBackoff, EndBackoff,
         OutOfTime, BeginAttempt, Spawn, SendRequest, Receive, Deadline,
         LateResponse, ObservationEnds, StopWorker, EndDispatch, Charge,
         AcceptReply, RejectReply, GiveUp, Retry, Finish, Kill, store
<1>3. ASSUME NEW k \in Slots, WorkerRuns(k), ~CommitCreate(k) PROVE FALSE
  BY <1>3 DEF WorkerRuns, WorkerStep, RequestMissing, PerformFault,
              BeginCreate, ReadTask, StorageFails, RecordCommit, Reply,
              RecoverTaskDatabase, store
<1>4. ASSUME NEW k \in Slots, WorkerDies(k) PROVE FALSE
  BY <1>4 DEF WorkerDies, Kill
<1> QED
  BY <1>1, <1>2, <1>3, <1>4 DEF Next, RunnerStep

\* The step that writes a row is the reserved, unanswered call's own.
LEMMA RowsAreTimely ==
  ASSUME Inv, NEW k \in Slots, CommitCreate(k)
  PROVE  /\ tool_reserved /\ Unfinished
         /\ \A r \in task_operations' \ task_operations :
               r.operation_id = active.operation_id
<1>1. Live(k)
  BY DEF CommitCreate, Live
<1>2. worker[k].operation_id = active.operation_id
  BY <1>1 DEF Inv, LiveInv, OnlyCurrentWorkerLives
<1> QED
  BY <1>1, <1>2 DEF Inv, LiveInv, OnlyCurrentWorkerLives, CommitCreate,
                    CreateTaskIdempotent

-----------------------------------------------------------------------------
(* The evaluation comes last *)

LEMMA EvaluationStep == Inv /\ [Next]_vars => EvaluationInv'
<1> SUFFICES ASSUME Inv, [Next]_vars PROVE EvaluationInv'
  OBVIOUS
<1> USE DEF EvaluationInv, EvaluationIsFinal
<1>1. CASE Evaluate
  <2>1. phase = "terminal" /\ hot = FALSE
    BY <1>1 DEF Evaluate, Inv, ControlInv
  <2>2. UNCHANGED <<phase, tasks>>
    BY <1>1 DEF Evaluate, store
  <2>3. evaluation'.status = "ok" /\ evaluation'.rows = tasks
    BY <1>1, <2>1 DEF Evaluate, EvaluateRun, InspectState
  <2> QED
    BY <2>1, <2>2, <2>3
<1>2. CASE ModelLimit \/ ProviderFails \/ StopTruncated \/ StopAnswered
             \/ ToolLimit
  <2>1. phase # "terminal"
    BY <1>2 DEF ModelLimit, ProviderFails, StopTruncated, StopAnswered,
                ToolLimit, InTools, AtTool, Inv, ControlInv
  <2>2. evaluation' = NoEvaluation
    BY <1>2, <2>1 DEF Inv, ModelLimit, ProviderFails, StopTruncated,
                      StopAnswered, ToolLimit, Stop
  <2> QED
    BY <2>2
<1>3. CASE ModelReturns \/ ModelReady
  <2>1. phase # "terminal" /\ UNCHANGED evaluation
    BY <1>3 DEF ModelReturns, ModelReady, InTools, Inv, ControlInv
  <2> QED
    BY <2>1 DEF Inv
<1>4. CASE UNCHANGED <<evaluation, phase, tasks>>
  BY <1>4 DEF Inv
<1>5. CASE RequestModel \/ ReserveTool \/ ReturnTool \/ Execute
             \/ PrepareEvaluation \/ SkipEvaluation \/ Publish \/ Finalize
             \/ ResumeDrive \/ Crash \/ Resume \/ ResumeFinalized
             \/ ResumeRefused \/ UNCHANGED vars
  BY <1>4, <1>5
     DEF RequestModel, ReserveTool, ReturnTool, Execute, RejectCall,
         StartOperation, ReuseResult, ReenterOperation, PrepareEvaluation,
         SkipEvaluation, Publish, Finalize, ResumeDrive, Crash, Resume,
         ResumeFinalized, ResumeRefused, RecoverTaskDatabase, vars, store,
         journal, checkpoint
\* Supervisor and worker steps leave the checkpoint's phase and evaluation
\* alone; one that writes a row is timely, and then there is no evaluation.
<1>6. CASE \/ Supervise \/ InterruptRunner
           \/ \E k \in Slots : WorkerRuns(k) \/ WorkerDies(k)
  <2>1. UNCHANGED <<evaluation, phase>>
    BY <1>6 DEF Supervise, InterruptRunner, WorkerRuns, WorkerDies, journal,
                checkpoint
  <2>2. CASE tasks' # tasks
    <3>1. tool_reserved
      BY <2>2, RowsComeFromWorkers, RowsAreTimely
    <3>2. evaluation = NoEvaluation
      BY <3>1 DEF Inv, ReservedInv
    <3> QED
      BY <2>1, <3>2
  <2> QED
    BY <1>4, <2>1, <2>2
<1> QED
  BY <1>1, <1>2, <1>3, <1>5, <1>6 DEF Next, RunnerStep

-----------------------------------------------------------------------------
(* The invariant, and what follows from it *)

LEMMA InvStep == Inv /\ [Next]_vars => Inv'
<1> SUFFICES ASSUME Inv, [Next]_vars PROVE Inv'
  OBVIOUS
<1> QED
  BY TypeStep, ControlStep, ReservedStep, ScriptStep, LiveStep, EvaluationStep
     DEF Inv

LEMMA Invariance == Spec => []Inv
<1>1. Init => Inv
  BY InitInv
<1>2. Inv /\ [Next]_vars => Inv'
  BY InvStep
<1> QED
  BY <1>1, <1>2, PTL DEF Spec

\* Only the runner's death touches the journal's rollback file.
LEMMA HotStep ==
  ASSUME journal_hot \in BOOLEAN, [Next]_vars PROVE journal_hot' \in BOOLEAN
<1>1. CASE Crash
  BY <1>1, Zenon DEF Crash
<1>2. ASSUME ~Crash PROVE UNCHANGED journal_hot
  <2>1. CASE RunnerStep
    BY <2>1
       DEF RunnerStep, ModelLimit, RequestModel, ModelReturns, ProviderFails,
           StopTruncated, StopAnswered, ModelReady, ToolLimit, ReserveTool,
           Execute, Supervise, ReturnTool, PrepareEvaluation, Evaluate,
           SkipEvaluation, Publish, Finalize, ResumeDrive, Stop, deaths
  <2>2. CASE InterruptRunner \/ Resume
    BY <2>2 DEF InterruptRunner, Resume, deaths
  <2>3. CASE ResumeFinalized \/ ResumeRefused \/ UNCHANGED vars
    BY <2>3 DEF ResumeFinalized, ResumeRefused, vars, deaths
  <2>4. CASE \E k \in Slots : WorkerRuns(k) \/ WorkerDies(k)
    BY <2>4 DEF WorkerRuns, WorkerDies, deaths
  <2> QED
    BY <1>2, <2>1, <2>2, <2>3, <2>4 DEF Next
<1> QED
  BY <1>1, <1>2

\* The counters of the checkpoint, the supervisor and the workers keep their
\* types and limits in every run (RunState's and ExecutionState's fields).
THEOREM TypeCorrect == Spec => []TypeOK
<1>1. Init => journal_hot \in BOOLEAN
  BY DEF Init, DurableInit
<1>2. journal_hot \in BOOLEAN /\ [Next]_vars => (journal_hot \in BOOLEAN)'
  BY HotStep
<1>3. Inv /\ journal_hot \in BOOLEAN => TypeOK
  BY DEF Inv, TypeOK
<1> QED
  BY <1>1, <1>2, <1>3, Invariance, PTL DEF Spec

\* Two workers never overlap, and a live one works on the journaled unanswered
\* operation: the run lock the workers inherit (Popen's pass_fds) and
\* stop_worker's wait are enough, whatever dies when.
THEOREM OneWorker == Spec => []OnlyCurrentWorkerLives
<1>1. Inv => OnlyCurrentWorkerLives
  BY DEF Inv, LiveInv
<1> QED
  BY <1>1, Invariance, PTL

\* The evaluation finalize records read the database without error, and it
\* describes the database for good.
THEOREM EvaluationFinal == Spec => []EvaluationIsFinal
<1>1. Inv => EvaluationIsFinal
  BY DEF Inv, EvaluationInv
<1> QED
  BY <1>1, Invariance, PTL

\* No task appears outside its own reserved, unanswered call: nothing a
\* timed-out or orphaned worker does takes effect after the answer.
THEOREM WritesAreTimely == Spec => NoLateEffect
<1> DEFINE Timely == tasks' # tasks =>
                        /\ tool_reserved
                        /\ Unfinished
                        /\ \A r \in task_operations' \ task_operations :
                              r.operation_id = active.operation_id
<1>1. Inv /\ [Next]_vars => [Timely]_vars
  BY RowsComeFromWorkers, RowsAreTimely
<1> QED
  BY <1>1, Invariance, PTL DEF Spec, NoLateEffect
-----------------------------------------------------------------------------
(* The strengthening the other safety properties rest on, one named part     *)
(* after the other.                                                          *)

\* The call c was answered, in a turn before this one or before the cursor.
Earlier(c) ==
    \/ c[1] < model_calls
    \/ c[1] = model_calls /\ pc # "model" /\ (phase = "tools" => c[2] <= tool_cursor)
Precedes(a, b) == a[1] < b[1] \/ (a[1] = b[1] /\ a[2] < b[2])

\* Answers and operations follow the order of the calls, and only the call in
\* hand may have an operation without an answer.
CallsInv ==
    /\ \A i \in 1 .. Len(messages) : Earlier(messages[i].call_id)
    /\ \A i, j \in 1 .. Len(messages) : i < j =>
          Precedes(messages[i].call_id, messages[j].call_id)
    /\ \A i \in 1 .. Len(operations) :
          \/ Earlier(operations[i].call_id)
          \/ tool_reserved /\ operations[i].call_id = CallId
    /\ \A i, j \in 1 .. Len(operations) : i < j =>
          Precedes(operations[i].call_id, operations[j].call_id)
    /\ tool_calls = Len(messages) + (IF tool_reserved THEN 1 ELSE 0)
    /\ tool_executions <= Len(messages)

\* The response that is being carried out.
TurnInv ==
    /\ tool_cursor <= Len(pending)
    /\ phase = "tools" => last_turn # NoTurn /\ pending = last_turn.tool_calls

\* The active operation is the last one, and the call in hand is its call
\* unless it was answered.
ActiveInv ==
    /\ active.operation_id = Len(operations)
    /\ active.operation_id = 0 => active.call_id = <<0, 0>> /\ active.result = NoAnswer
    /\ active.operation_id # 0 =>
          /\ active.call_id = operations[active.operation_id].call_id
          /\ active.call = operations[active.operation_id].call
          /\ active.call.name # "invalid"
    /\ Unfinished => tool_reserved /\ active.call_id = CallId
    /\ tool_reserved /\ active.call_id = CallId => active.call = Current
    /\ pc = "return" => \/ Current.name = "invalid"
                        \/ active.call_id = CallId /\ ~Unfinished

\* The end of the run is recorded with its counts, evaluated, then finalized.
TerminalInv ==
    /\ phase = "terminal" <=> terminal # NoResult
    /\ terminal # NoResult =>
          /\ terminal.model_calls = model_calls
          /\ terminal.tool_calls = tool_calls
          /\ terminal.tool_executions = tool_executions
    /\ pc = "evaluate" => evaluation = NoEvaluation
    /\ pc \in {"publish", "finalize"} => evaluation # NoEvaluation
    /\ finalized => pc = "down" /\ evaluation # NoEvaluation

\* What an operation used, has left and holds reserved.
BudgetInv ==
    /\ active.operation_id # 0 =>
          /\ active.attempts <= MaxAttempts
          /\ active.attempts <= total_attempts
          /\ active.reserved <= active.remaining
          /\ active.remaining <= OperationSeconds
          /\ spent + active.remaining <= OperationSeconds + active.reserved
    /\ pc \in InFlight => spent + active.remaining <= OperationSeconds
    /\ pc \in {"loop", "attempt", "judge"} => active.reserved = 0
    /\ pc = "backoff" => active.reserved = Wait

FaultLimit == CASE config.case = "transient-always" -> TotalAttempts
                [] config.case = "transient-twice" -> 2
                [] config.case \in {"process-healthy", "restart-healthy"} -> 0
                [] OTHER -> 1
Faulty == {k \in Slots : worker[k].fault # "none"}

\* The faults given out and the one about to be are counted by fault_cursor.
FaultInv ==
    /\ fault # "none" => pc = "spawn"
    /\ LET count == Cardinality(Faulty) + (IF fault # "none" THEN 1 ELSE 0)
       IN  count <= fault_cursor /\ count <= FaultLimit

\* Tasks and ledger rows correspond, and workers work on journaled operations.
LedgerInv ==
    /\ tasks = {[id |-> r.task_id, title |-> r.title] : r \in task_operations}
    /\ \A r \in task_operations :
          /\ r.operation_id \in 1 .. Len(operations)
          /\ operations[r.operation_id].call = Create(r.title)
          /\ r.task_id \in 1 .. (fresh - 1)
    /\ \A r, s \in task_operations :
          r.operation_id = s.operation_id \/ r.task_id = s.task_id => r = s

SlotsInv ==
    /\ \A k \in Slots : worker[k].stage # "none" =>
          /\ worker[k].operation_id \in 1 .. Len(operations)
          /\ worker[k].call = operations[worker[k].operation_id].call
    /\ \A k \in Slots : worker[k].stage = "none" => worker[k] = NoWorker
    /\ pc \in Dispatching => worker[k0].stage # "none"
                                /\ worker[k0].operation_id = active.operation_id
    /\ \A k \in Slots : k > total_attempts \/ (k = total_attempts /\ pc = "spawn") =>
          worker[k].stage = "none"

\* A success of operation op is backed by its row, and a task an answer names
\* is there.
Backed(op, answer) ==
    /\ operations[op].call.name = "create_task" /\ answer.code = "ok" =>
          \E r \in task_operations : r.operation_id = op /\ r.task_id = answer.task
    /\ answer.task # 0 => \E t \in tasks : t.id = answer.task

AnswersInv ==
    /\ \A k \in Slots : worker[k].stage # "none" =>
          Backed(worker[k].operation_id, worker[k].reply)
    /\ \A k \in Slots : worker[k].reply.code = "none" => worker[k].reply = NoAnswer
    /\ pc \in {"stopping", "import", "charge", "judge"} =>
          outcome.code # "none" /\ Backed(active.operation_id, outcome)
    /\ active.operation_id # 0 => Backed(active.operation_id, active.result)
    /\ \A i \in 1 .. Len(messages) :
          /\ messages[i].call.name = "create_task" /\ messages[i].answer.code = "ok" =>
                \E r \in task_operations :
                    /\ operations[r.operation_id].call_id = messages[i].call_id
                    /\ r.title = messages[i].call.arg
                    /\ r.task_id = messages[i].answer.task
          /\ messages[i].answer.task # 0 =>
                \E t \in tasks : t.id = messages[i].answer.task

\* Evidence is imported once, line by line; what is published counted it all.
ImportInv ==
    /\ \A l \in LineIds : imports[l] \in {0, 1}
    /\ \A l \in LineIds : imports[l] = 1 => l \in EvidenceLines(Slots)
    /\ \A l \in todo : l \in EvidenceLines(Slots) /\ imports[l] = 0
    /\ todo # {} => pc \in {"import", "reimport"}
    /\ \A k \in Slots : worker[k].stage = "none" => evidence[k] = << >>
    /\ pc \notin Dispatching \cup {"down"} =>
          \A l \in EvidenceLines(Slots) : imports[l] = 1 \/ l \in todo
    /\ pc \in Dispatching =>
          \A l \in EvidenceLines(Slots) : imports[l] = (IF l[1] = k0 THEN 0 ELSE 1)

PublishedInv ==
    pc = "finalize" \/ finalized =>
        /\ observation.evaluation = evaluation
        /\ observation.attempts = total_attempts
        /\ \A l \in LineIds : observation.counted[l] =
               IF l \in EvidenceLines(Slots) THEN 1 ELSE 0

\* The create/read/report script creates one task in its first turn, and ends
\* with a claim about a task that it was told of.
Scripted == config.mode = "offline" /\ config.script = "create-read-report-v1"

ScriptedInv ==
    Scripted =>
        /\ script_cursor = 0 => operations = << >> /\ pending = << >>
        /\ phase = "tools" => script_cursor > 0
        /\ script_cursor = 1 => pending \in {<< >>, <<Create(ExpectedTitle)>>}
        /\ script_cursor = 1 /\ phase = "tools" /\ tool_cursor = 0 =>
              operations = << >> \/ active.call_id = CallId
        /\ script_cursor > 1 =>
              \A i \in 1 .. Len(pending) : pending[i].name # "create_task"
        /\ \A i \in 1 .. Len(operations) : operations[i].call.name = "create_task" =>
              operations[i].call = Create(ExpectedTitle)
        /\ \A i, j \in 1 .. Len(operations) :
              operations[i].call.name = "create_task"
                 /\ operations[j].call.name = "create_task" => i = j
        /\ last_turn.content.status = "completed" =>
              \E t \in tasks : t.id = last_turn.content.task
        /\ terminal.content.status = "completed" =>
              \E t \in tasks : t.id = terminal.content.task
        /\ evaluation.false_success # "yes"

StrongInv ==
    /\ CallsInv /\ TurnInv /\ ActiveInv /\ TerminalInv /\ BudgetInv /\ FaultInv
    /\ LedgerInv /\ SlotsInv /\ AnswersInv /\ ImportInv /\ PublishedInv
    /\ ScriptedInv

-----------------------------------------------------------------------------
(* What a step may do to each variable                                       *)

Stops == ModelLimit \/ ProviderFails \/ StopTruncated \/ StopAnswered
            \/ ToolLimit

LEMMA JournalMoves ==
    ASSUME Next
    PROVE  /\ UNCHANGED <<messages, tool_executions>> \/ ReturnTool
           /\ pending' = pending \/ ModelReturns \/ ModelReady
           /\ tool_cursor' = tool_cursor \/ ModelReturns \/ ModelReady \/ ReturnTool
           /\ phase' = phase \/ ModelReturns \/ ModelReady \/ Stops
           /\ UNCHANGED <<last_turn, script_cursor>> \/ ModelReturns
           /\ tool_reserved' = tool_reserved \/ ReserveTool \/ ReturnTool
           /\ tool_calls' = tool_calls \/ ReserveTool
           /\ model_calls' = model_calls \/ RequestModel
           /\ terminal' = terminal \/ Stops
           /\ evaluation' = evaluation \/ Evaluate
           /\ finalized' = finalized \/ Finalize
           /\ observation' = observation \/ Publish
           /\ config' = config
  BY DEF Next, RunnerStep, InterruptRunner, Crash, Resume, ResumeFinalized,
     ResumeRefused, WorkerRuns, WorkerDies, Stops, ModelLimit, ProviderFails,
     StopTruncated, StopAnswered, ToolLimit, Stop, RequestModel, ModelReturns,
     ModelReady, ReserveTool, Execute, Supervise, ReturnTool,
     PrepareEvaluation, Evaluate, SkipEvaluation, Publish, Finalize,
     ResumeDrive, vars, journal, checkpoint

\* supervisor.execute takes a call up.
Starts == Execute /\ StartOperation(Current, CallId)
Reenters == Execute /\ ReenterOperation(Current, CallId)
Finishes == AttemptsExhausted \/ BackoffRefused \/ OutOfTime \/ RejectReply
               \/ GiveUp

LEMMA SupervisorSteps ==
    ASSUME Next
    PROVE  /\ operations' = operations \/ Starts
           /\ \/ active' = active
              \/ Starts \/ Reenters \/ Finishes \/ StartBackoff \/ EndBackoff
              \/ BeginAttempt \/ Charge \/ AcceptReply
           /\ UNCHANGED <<total_attempts, fault_cursor>> \/ BeginAttempt
           /\ imports' = imports \/ ImportLine
           /\ fault' = fault \/ BeginAttempt \/ Spawn \/ Crash
           /\ \/ spent' = spent
              \/ Starts \/ EndBackoff \/ EndDispatch \/ Charge \/ Crash
           /\ \/ todo' = todo
              \/ Receive \/ LateResponse \/ StopWorker \/ ImportLine \/ Crash
              \/ Resume
           /\ \/ outcome' = outcome
              \/ Finishes \/ Receive \/ Deadline \/ LateResponse
              \/ ObservationEnds \/ Interrupt \/ EndDispatch \/ AcceptReply
              \/ Retry \/ Crash
  BY DEF Next, RunnerStep, InterruptRunner, Crash, Resume, ResumeFinalized,
     ResumeRefused, WorkerRuns, WorkerDies, ModelLimit, ProviderFails,
     StopTruncated, StopAnswered, ToolLimit, Stop, RequestModel, ModelReturns,
     ModelReady, ReserveTool, Execute, Supervise, ReturnTool,
     PrepareEvaluation, Evaluate, SkipEvaluation, Publish, Finalize,
     ResumeDrive, vars, supervisor, Starts, Reenters, Finishes, RejectCall,
     StartOperation, ReuseResult, ReenterOperation, AttemptStep, ImportLine,
     AttemptsExhausted, BackoffRefused, StartBackoff, EndBackoff, OutOfTime,
     BeginAttempt, Spawn, SendRequest, Receive, Deadline, LateResponse,
     ObservationEnds, StopWorker, EndDispatch, Charge, AcceptReply,
     RejectReply, GiveUp, Retry, Finish, Interrupt

\* The active operation stays itself until another call is taken up.
LEMMA ActiveSteps ==
    ASSUME Inv, Next
    PROVE  \/ Starts
           \/ UNCHANGED <<operations, active.operation_id, active.call_id, active.call>>
<1>1. active \in Operations
  BY DEF Inv, StateType, SupervisorType
<1>2. ASSUME Reenters \/ Finishes \/ StartBackoff \/ EndBackoff \/ BeginAttempt
                \/ Charge \/ AcceptReply
      PROVE  UNCHANGED <<active.operation_id, active.call_id, active.call>>
  BY <1>1, <1>2 DEF Operations, Reenters, ReenterOperation, Finishes,
     AttemptsExhausted, BackoffRefused, OutOfTime, RejectReply, GiveUp, Finish,
     StartBackoff, EndBackoff, BeginAttempt, Charge, AcceptReply
<1> QED
  BY <1>2, SupervisorSteps

\* The operation is unfinished until it is given a result.
LEMMA ResultSteps ==
    ASSUME Inv, Next
    PROVE  \/ active'.result = active.result
           \/ Starts
           \/ (Finishes \/ AcceptReply) /\ pc' = "return"
                 /\ UNCHANGED <<config, journal>>
<1>1. active \in Operations
  BY DEF Inv, StateType, SupervisorType
<1>2. ASSUME Reenters \/ StartBackoff \/ EndBackoff \/ BeginAttempt \/ Charge
      PROVE  active'.result = active.result
  BY <1>1, <1>2 DEF Operations, Reenters, ReenterOperation, StartBackoff,
     EndBackoff, BeginAttempt, Charge
<1>3. ASSUME Finishes \/ AcceptReply
      PROVE  pc' = "return" /\ UNCHANGED <<config, journal>>
  <2>1. pc' = "return"
    BY <1>3 DEF Finishes, AttemptsExhausted, BackoffRefused, OutOfTime,
       RejectReply, GiveUp, Finish, AcceptReply
  <2>2. pc \in Executing
    BY <1>3 DEF Finishes, AttemptsExhausted, BackoffRefused, OutOfTime,
       AtAttempt, RejectReply, GiveUp, AcceptReply, Executing
  <2>3. pc' # pc
    BY <2>1, <2>2 DEF Executing
  <2>4. UNCHANGED <<config, journal>>
    BY <2>1, <2>2, <2>3
       DEF Next, RunnerStep, InterruptRunner, Crash, Resume, ResumeFinalized,
       ResumeRefused, WorkerRuns, WorkerDies, ModelLimit, ProviderFails,
       StopTruncated, StopAnswered, ToolLimit, InTools, AtTool, RequestModel,
       ModelReturns, ModelReady, ReserveTool, Execute, Supervise, ReturnTool,
       PrepareEvaluation, Evaluate, SkipEvaluation, Publish, Finalize,
       ResumeDrive, vars, Executing
  <2> QED
    BY <2>1, <2>4
<1> QED
  BY <1>2, <1>3, SupervisorSteps

\* A request to the model is a step of its own.
LEMMA ModelSteps ==
    ASSUME Next, pc' = "model"
    PROVE  RequestModel \/ pc = "model"
  BY DEF Next, RunnerStep, InterruptRunner, Crash, Resume, ResumeFinalized,
     ResumeRefused, WorkerRuns, WorkerDies, ModelLimit, ProviderFails,
     StopTruncated, StopAnswered, ToolLimit, Stop, RequestModel, ModelReturns,
     ModelReady, ReserveTool, Execute, Supervise, ReturnTool,
     PrepareEvaluation, Evaluate, SkipEvaluation, Publish, Finalize,
     ResumeDrive, vars, RejectCall, StartOperation, ReuseResult,
     ReenterOperation, AttemptStep, ImportLine, AttemptsExhausted,
     BackoffRefused, StartBackoff, EndBackoff, OutOfTime, BeginAttempt, Spawn,
     SendRequest, Receive, Deadline, LateResponse, ObservationEnds, StopWorker,
     EndDispatch, Charge, AcceptReply, RejectReply, GiveUp, Retry, Finish,
     Interrupt

-----------------------------------------------------------------------------
(* The order of the calls                                                    *)

\* The same in the next state.
EarlierNext(c) ==
    \/ c[1] < model_calls'
    \/ c[1] = model_calls' /\ pc' # "model" /\ (phase' = "tools" => c[2] <= tool_cursor')

LEMMA EarlierKept ==
    ASSUME Inv, Next, NEW c \in CallIds, Earlier(c)
    PROVE  EarlierNext(c)
<1> USE DEF EarlierNext
<1>0. /\ c[1] \in Nat /\ c[2] \in Nat /\ model_calls \in Nat
      /\ tool_cursor \in Nat
  BY RunAssumption DEF CallIds, Inv, StateType, DurableType
<1>1. CASE RequestModel
  BY <1>0, <1>1 DEF RequestModel, Earlier
<1>2. CASE ModelReturns
  <2>1. c[1] < model_calls
    BY <1>2 DEF ModelReturns, Earlier
  <2> QED
    BY <1>2, <2>1 DEF ModelReturns, Earlier
<1>3. CASE ModelReady
  BY <1>3 DEF ModelReady, InTools, Earlier
<1>4. CASE ReturnTool
  BY <1>0, <1>4 DEF ReturnTool, Earlier
<1>5. CASE Stops
  <2>1. /\ UNCHANGED model_calls
        /\ phase' = "terminal" /\ pc' # "model"
    BY <1>5 DEF Stops, ModelLimit, ProviderFails, StopTruncated, StopAnswered,
       ToolLimit, Stop
  <2>2. pc # "model" \/ c[1] < model_calls
    BY DEF Earlier
  <2> QED
    BY <2>1, <2>2 DEF Earlier
<1>6. CASE ~(RequestModel \/ ModelReturns \/ ModelReady \/ ReturnTool \/ Stops)
  <2>1. UNCHANGED <<model_calls, tool_cursor, phase>>
    BY <1>6, JournalMoves
  <2>2. pc' = "model" => pc = "model"
    BY <1>6, ModelSteps
  <2> QED
    BY <2>1, <2>2 DEF Earlier
<1> QED
  BY <1>1, <1>2, <1>3, <1>4, <1>5, <1>6

\* In the tools phase the call in hand comes after every earlier one.
LEMMA CallInHand ==
    ASSUME Inv, phase = "tools"
    PROVE  /\ CallId \in CallIds /\ CallId # <<0, 0>>
           /\ ~Earlier(CallId)
           /\ \A c \in CallIds : Earlier(c) => Precedes(c, CallId)
<1>1. /\ pc # "model" /\ model_calls \in Nat /\ tool_cursor \in Nat
      /\ \A c \in CallIds : c[1] \in Nat /\ c[2] \in Nat
  BY RunAssumption DEF Inv, ControlInv, StateType, DurableType, CallIds
<1>2. CallId = <<model_calls, tool_cursor + 1>>
  BY DEF CallId
<1>3. CallId \in CallIds /\ CallId # <<0, 0>>
  BY <1>1, <1>2 DEF CallIds
<1>4. ~Earlier(CallId)
  BY <1>1, <1>2 DEF Earlier
<1>5. \A c \in CallIds : Earlier(c) => Precedes(c, CallId)
  BY <1>1, <1>2 DEF Earlier, Precedes
<1> QED
  BY <1>3, <1>4, <1>5

LEMMA PrecedesIsStrict ==
    ASSUME NEW a \in CallIds, NEW b \in CallIds, Precedes(a, b)
    PROVE  a # b /\ ~Precedes(b, a)
  BY DEF CallIds, Precedes

\* An operation of the call in hand is the active one.
LEMMA OnlyTheLast ==
    ASSUME Inv, CallsInv, ActiveInv, phase = "tools",
           NEW i \in 1 .. Len(operations), operations[i].call_id = CallId
    PROVE  active.call_id = CallId /\ i = active.operation_id
<1>1. operations \in Seq([call_id : CallIds, call : Calls]) /\ Len(operations) \in Nat
  BY DEF Inv, StateType, SupervisorType
<1> DEFINE n == Len(operations)
<1>2. n \in 1 .. n
  BY <1>1
<1>3. operations[n].call_id \in CallIds /\ operations[i].call_id \in CallIds
  <2>1. \A k \in 1 .. n : operations[k] \in [call_id : CallIds, call : Calls]
    BY <1>1, ElementOfSeq
  <2> QED
    BY <1>2, <2>1
<1>4. CASE i < n
  <2>1. Precedes(CallId, operations[n].call_id)
    BY <1>2, <1>4 DEF CallsInv
  <2>2. Earlier(operations[n].call_id) \/ operations[n].call_id = CallId
    BY <1>2 DEF CallsInv
  <2> QED
    BY <1>3, <2>1, <2>2, CallInHand, PrecedesIsStrict
<1>5. CASE i = n
  BY <1>2, <1>5 DEF ActiveInv
<1> QED
  BY <1>1, <1>4, <1>5

LEMMA StartsFacts ==
    ASSUME Inv, Starts
    PROVE  /\ pc = "drive" /\ phase = "tools" /\ tool_reserved
           /\ tool_cursor < Len(pending)
           /\ Current \in Calls /\ Current.name # "invalid"
           /\ active.call_id # CallId /\ ~Unfinished
           /\ active' = [operation_id |-> Len(operations) + 1, call_id |-> CallId,
                         call |-> Current, attempts |-> 0,
                         remaining |-> OperationSeconds, reserved |-> 0,
                         result |-> NoAnswer]
           /\ operations' = Append(operations, [call_id |-> CallId, call |-> Current])
           /\ spent' = 0 /\ pc' = "loop"
           /\ UNCHANGED <<config, journal, worker, evidence, store,
                          total_attempts, fault_cursor, imports, fault,
                          outcome, elapsed, todo>>
<1>1. /\ pending \in Seq(Calls) /\ tool_cursor \in Nat
      /\ pc = "drive" /\ phase = "tools" /\ tool_cursor < Len(pending)
  BY DEF Starts, Execute, AtTool, InTools, Inv, StateType, DurableType
<1>2. Current \in Calls
  <2>1. Len(pending) \in Nat /\ tool_cursor + 1 \in 1 .. Len(pending)
    BY <1>1
  <2> QED
    BY <1>1, <2>1, ElementOfSeq DEF Current
<1> QED
  BY <1>1, <1>2 DEF Starts, Execute, StartOperation

\* What appending the call in hand to the operations does.
LEMMA StartsAppends ==
    ASSUME Inv, Starts
    PROVE  /\ Len(operations) \in Nat
           /\ Len(operations') = Len(operations) + 1
           /\ \A i \in 1 .. Len(operations) : operations'[i] = operations[i]
           /\ operations'[Len(operations) + 1] = [call_id |-> CallId, call |-> Current]
           /\ \A i \in 1 .. Len(operations') :
                 i \in 1 .. Len(operations) \/ i = Len(operations) + 1
<1>1. operations \in Seq([call_id : CallIds, call : Calls])
  BY DEF Inv, StateType, SupervisorType
<1>2. operations' = Append(operations, [call_id |-> CallId, call |-> Current])
  BY StartsFacts
<1>3. [call_id |-> CallId, call |-> Current] \in [call_id : CallIds, call : Calls]
  BY StartsFacts, CallInHand
<1> HIDE DEF CallId, Current
<1> QED
  BY <1>1, <1>2, <1>3

LEMMA ReturnsAppends ==
    ASSUME Inv, ReturnTool
    PROVE  /\ Len(messages) \in Nat
           /\ Len(messages') = Len(messages) + 1
           /\ \A i \in 1 .. Len(messages) : messages'[i] = messages[i]
           /\ messages'[Len(messages) + 1] =
                 [call_id |-> CallId, call |-> Current, answer |-> Delivered]
           /\ \A i \in 1 .. Len(messages') :
                 i \in 1 .. Len(messages) \/ i = Len(messages) + 1
           /\ phase = "tools" /\ phase' = "tools" /\ tool_reserved /\ ~tool_reserved'
           /\ pc' = "drive"
           /\ UNCHANGED <<config, supervisor, worker, evidence, store>>
<1>1. messages \in Seq([call_id : CallIds, call : Calls, answer : Answers])
  BY DEF Inv, StateType, DurableType
<1>2. phase = "tools" /\ tool_reserved
  BY DEF ReturnTool, Inv, ControlInv, ReservedInv
<1>3. PICK m : m = [call_id |-> CallId, call |-> Current, answer |-> Delivered]
  OBVIOUS
<1>4. messages' = Append(messages, m)
  BY <1>3 DEF ReturnTool
<1>5. /\ Len(messages') = Len(messages) + 1 /\ Len(messages) \in Nat
      /\ \A i \in 1 .. Len(messages) : messages'[i] = messages[i]
      /\ messages'[Len(messages) + 1] = m
  BY <1>1, <1>4
<1>6. \A i \in 1 .. Len(messages') :
         i \in 1 .. Len(messages) \/ i = Len(messages) + 1
  BY <1>5
<1> QED
  BY <1>2, <1>3, <1>5, <1>6 DEF ReturnTool

LEMMA CallsStep ==
    ASSUME Inv, CallsInv, ActiveInv, Next
    PROVE  CallsInv'
<1>0. /\ messages \in Seq([call_id : CallIds, call : Calls, answer : Answers])
      /\ operations \in Seq([call_id : CallIds, call : Calls])
      /\ Len(messages) \in Nat /\ Len(operations) \in Nat
      /\ tool_reserved \in BOOLEAN /\ tool_executions \in Nat
  BY DEF Inv, StateType, DurableType, SupervisorType
<1>1. /\ \A i \in 1 .. Len(messages) : messages[i].call_id \in CallIds
      /\ \A i \in 1 .. Len(operations) : operations[i].call_id \in CallIds
  <2>1. \A i \in 1 .. Len(messages) :
           messages[i] \in [call_id : CallIds, call : Calls, answer : Answers]
    BY <1>0, ElementOfSeq
  <2>2. \A i \in 1 .. Len(operations) :
           operations[i] \in [call_id : CallIds, call : Calls]
    BY <1>0, ElementOfSeq
  <2> QED
    BY <2>1, <2>2
<1>3. /\ \A i \in 1 .. Len(messages') : EarlierNext(messages'[i].call_id)
      /\ \A i, j \in 1 .. Len(messages') : i < j =>
            Precedes(messages'[i].call_id, messages'[j].call_id)
  <2>1. CASE messages' = messages
    <3>1. \A i \in 1 .. Len(messages) : EarlierNext(messages'[i].call_id)
      BY <1>1, <2>1, EarlierKept DEF CallsInv
    <3> QED
      BY <2>1, <3>1 DEF CallsInv
  <2>2. CASE ReturnTool
    <3>1. PICK c : c = CallId
      OBVIOUS
    <3>2. /\ \A i \in 1 .. Len(messages) : messages'[i].call_id = messages[i].call_id
          /\ messages'[Len(messages) + 1].call_id = c
      BY <2>2, <3>1, ReturnsAppends
    <3>3. c \in CallIds /\ \A i \in 1 .. Len(messages) :
                                 Precedes(messages[i].call_id, c)
      BY <1>1, <2>2, <3>1, ReturnsAppends, CallInHand DEF CallsInv
    <3>4. EarlierNext(c)
      <4>1. /\ c[1] = model_calls /\ c[2] = tool_cursor + 1
            /\ model_calls \in Nat /\ tool_cursor \in Nat
        BY <3>1, RunAssumption DEF CallId, Inv, StateType, DurableType
      <4> QED
        BY <2>2, <4>1 DEF ReturnTool, EarlierNext
    <3>5. \A i \in 1 .. Len(messages) : Earlier(messages[i].call_id)
      BY DEF CallsInv
    <3>6. ASSUME NEW i \in 1 .. Len(messages')
          PROVE  EarlierNext(messages'[i].call_id)
      <4>1. PICK d : d = messages'[i].call_id
        OBVIOUS
      <4>2. CASE i \in 1 .. Len(messages)
        <5>1. d \in CallIds /\ Earlier(d)
          BY <1>1, <3>2, <3>5, <4>1, <4>2
        <5>2. EarlierNext(d)
          BY <5>1, EarlierKept
        <5> QED
          BY <4>1, <5>2
      <4>3. CASE i = Len(messages) + 1
        BY <3>2, <3>4, <4>3
      <4> QED
        BY <2>2, <4>2, <4>3, ReturnsAppends
    <3>7. ASSUME NEW i \in 1 .. Len(messages'), NEW j \in 1 .. Len(messages'), i < j
          PROVE  Precedes(messages'[i].call_id, messages'[j].call_id)
      <4>1. i \in 1 .. Len(messages)
        BY <1>0, <2>2, <3>7, ReturnsAppends
      <4>2. CASE j \in 1 .. Len(messages)
        BY <3>2, <3>7, <4>1, <4>2 DEF CallsInv
      <4>3. CASE j = Len(messages) + 1
        BY <3>2, <3>3, <4>1, <4>3
      <4> QED
        BY <2>2, <4>2, <4>3, ReturnsAppends
    <3> QED
      BY <3>6, <3>7
  <2> QED
    BY <2>1, <2>2, JournalMoves
<1>4. ASSUME NEW c \in CallIds, Earlier(c) \/ (tool_reserved /\ c = CallId)
      PROVE  EarlierNext(c) \/ (tool_reserved' /\ c = CallId')
  <2>1. CASE Earlier(c)
    BY <2>1, EarlierKept
  <2>2. CASE tool_reserved /\ c = CallId
    <3>1. CASE ReturnTool
      <4>1. /\ c[1] = model_calls /\ c[2] = tool_cursor + 1
            /\ model_calls \in Nat /\ tool_cursor \in Nat
        BY <2>2, RunAssumption DEF CallId, Inv, StateType, DurableType
      <4> QED
        BY <3>1, <4>1 DEF ReturnTool, EarlierNext
    <3>2. CASE ~ReturnTool
      <4>1. phase = "tools" /\ tool_cursor < Len(pending)
        BY <2>2 DEF Inv, ReservedInv
      <4>2. ~(RequestModel \/ ModelReturns \/ ModelReady \/ ReserveTool)
        <5>1. pc # "model" /\ tool_cursor \in Nat /\ pending \in Seq(Calls)
          BY <4>1 DEF Inv, ControlInv, StateType, DurableType
        <5>2. tool_cursor # Len(pending)
          BY <4>1, <5>1
        <5>3. ~RequestModel
          BY <4>1 DEF RequestModel
        <5>4. ~ModelReturns
          BY <5>1 DEF ModelReturns
        <5>5. ~ModelReady
          BY <5>2 DEF ModelReady
        <5>6. ~ReserveTool
          BY <2>2 DEF ReserveTool
        <5> QED
          BY <5>3, <5>4, <5>5, <5>6
      <4>3. UNCHANGED <<tool_reserved, model_calls, tool_cursor>>
        BY <3>2, <4>2, JournalMoves
      <4> QED
        BY <2>2, <4>3 DEF CallId
    <3> QED
      BY <3>1, <3>2
  <2> QED
    BY <1>4, <2>1, <2>2
<1>5. /\ \A i \in 1 .. Len(operations') :
            \/ EarlierNext(operations'[i].call_id)
            \/ tool_reserved' /\ operations'[i].call_id = CallId'
      /\ \A i, j \in 1 .. Len(operations') : i < j =>
            Precedes(operations'[i].call_id, operations'[j].call_id)
  <2>1. CASE operations' = operations
    <3>1. ASSUME NEW i \in 1 .. Len(operations)
          PROVE  \/ EarlierNext(operations'[i].call_id)
                 \/ tool_reserved' /\ operations'[i].call_id = CallId'
      <4>1. PICK d : d = operations'[i].call_id
        OBVIOUS
      <4>2. d \in CallIds /\ (Earlier(d) \/ (tool_reserved /\ d = CallId))
        BY <1>1, <2>1, <4>1 DEF CallsInv
      <4>3. EarlierNext(d) \/ (tool_reserved' /\ d = CallId')
        BY <1>4, <4>2
      <4> QED
        BY <4>1, <4>3
    <3> QED
      BY <2>1, <3>1 DEF CallsInv
  <2>2. CASE Starts
    <3>1. PICK c : c = CallId
      OBVIOUS
    <3>2. /\ \A i \in 1 .. Len(operations) : operations'[i].call_id = operations[i].call_id
          /\ operations'[Len(operations) + 1].call_id = c
      BY <2>2, <3>1, StartsAppends
    <3>3. CallId' = c /\ tool_reserved'
      BY <2>2, <3>1, StartsFacts DEF CallId, journal, checkpoint
    <3>4. c \in CallIds /\ \A i \in 1 .. Len(operations) :
              Earlier(operations[i].call_id) /\ Precedes(operations[i].call_id, c)
      <4>1. phase = "tools" /\ active.call_id # CallId
        BY <2>2, StartsFacts
      <4>2. \A i \in 1 .. Len(operations) : operations[i].call_id # CallId
        BY <4>1, OnlyTheLast
      <4> QED
        BY <1>1, <3>1, <4>1, <4>2, CallInHand DEF CallsInv
    <3>5. ASSUME NEW i \in 1 .. Len(operations')
          PROVE  \/ EarlierNext(operations'[i].call_id)
                 \/ tool_reserved' /\ operations'[i].call_id = CallId'
      <4>1. PICK d : d = operations'[i].call_id
        OBVIOUS
      <4>2. CASE i \in 1 .. Len(operations)
        <5>1. d \in CallIds /\ Earlier(d)
          BY <1>1, <3>2, <3>4, <4>1, <4>2
        <5>2. EarlierNext(d)
          BY <5>1, EarlierKept
        <5> QED
          BY <4>1, <5>2
      <4>3. CASE i = Len(operations) + 1
        BY <3>2, <3>3, <4>3
      <4> QED
        BY <2>2, <4>2, <4>3, StartsAppends
    <3>6. ASSUME NEW i \in 1 .. Len(operations'), NEW j \in 1 .. Len(operations'), i < j
          PROVE  Precedes(operations'[i].call_id, operations'[j].call_id)
      <4>1. i \in 1 .. Len(operations)
        BY <1>0, <2>2, <3>6, StartsAppends
      <4>2. CASE j \in 1 .. Len(operations)
        BY <3>2, <3>6, <4>1, <4>2 DEF CallsInv
      <4>3. CASE j = Len(operations) + 1
        BY <3>2, <3>4, <4>1, <4>3
      <4> QED
        BY <2>2, <4>2, <4>3, StartsAppends
    <3> QED
      BY <3>5, <3>6
  <2> QED
    BY <2>1, <2>2, SupervisorSteps
<1>6. /\ tool_calls' = Len(messages') + (IF tool_reserved' THEN 1 ELSE 0)
      /\ tool_executions' <= Len(messages')
  <2>1. CASE ReturnTool
    <3>1. /\ tool_calls' = tool_calls
          /\ tool_executions' \in {tool_executions, tool_executions + 1}
      BY <2>1 DEF ReturnTool
    <3> QED
      BY <1>0, <2>1, <3>1, ReturnsAppends DEF CallsInv
  <2>2. CASE ReserveTool
    BY <1>0, <2>2 DEF ReserveTool, CallsInv
  <2>3. CASE ~ReturnTool /\ ~ReserveTool
    BY <2>3, JournalMoves DEF CallsInv
  <2> QED
    BY <2>1, <2>2, <2>3
<1> QED
  BY <1>3, <1>5, <1>6 DEF CallsInv, Earlier, EarlierNext

LEMMA TurnStep ==
    ASSUME Inv, TurnInv, Next
    PROVE  TurnInv'
<1>0. /\ tool_cursor \in Nat /\ pending \in Seq(Calls) /\ Len(pending) \in Nat
  BY DEF Inv, StateType, DurableType
<1>1. CASE ModelReturns
  <2>1. PICK turn \in Turns : last_turn' = turn /\ pending' = turn.tool_calls
    BY <1>1, ScriptedTurnType, ConfigAssumption DEF ModelReturns, Inv
  <2>2. turn # NoTurn /\ pending' \in Seq(Calls)
    BY <2>1 DEF Turns, NoTurn, Absent
  <2>3. Len(pending') \in Nat
    BY <2>2
  <2> QED
    BY <1>1, <2>1, <2>2, <2>3 DEF ModelReturns, TurnInv
<1>2. CASE ModelReady
  <2>1. pending' = << >> /\ tool_cursor' = 0 /\ phase' = "model"
    BY <1>2 DEF ModelReady
  <2>2. Len(pending') = 0
    BY <2>1
  <2> QED
    BY <2>1, <2>2 DEF TurnInv
<1>3. CASE ReturnTool
  <2>1. tool_cursor < Len(pending)
    BY <1>3 DEF ReturnTool, Inv, ControlInv, ReservedInv
  <2> QED
    BY <1>0, <1>3, <2>1 DEF ReturnTool, TurnInv
<1>4. CASE Stops
  <2>1. UNCHANGED <<pending, tool_cursor>> /\ phase' = "terminal"
    BY <1>4 DEF Stops, ModelLimit, ProviderFails, StopTruncated, StopAnswered,
       ToolLimit, Stop
  <2> QED
    BY <2>1 DEF TurnInv
<1>5. CASE ~(ModelReturns \/ ModelReady \/ ReturnTool \/ Stops)
  BY <1>5, JournalMoves DEF TurnInv
<1> QED
  BY <1>1, <1>2, <1>3, <1>4, <1>5

-----------------------------------------------------------------------------
(* The active operation, the end of the run, and the budget                  *)

\* The call in hand stays what it is until it is answered.
LEMMA ReservedStays ==
    ASSUME Inv, Next, tool_reserved, ~ReturnTool
    PROVE  /\ UNCHANGED <<tool_reserved, model_calls, tool_cursor, pending, phase>>
           /\ CallId' = CallId /\ Current' = Current
<1>1. phase = "tools" /\ tool_cursor < Len(pending) /\ ~last_turn.length
  BY DEF Inv, ReservedInv
<1>2. pc # "model" /\ tool_cursor \in Nat /\ pending \in Seq(Calls)
  BY <1>1 DEF Inv, ControlInv, StateType, DurableType
<1>3. tool_cursor # Len(pending) /\ pending # << >>
  BY <1>1, <1>2
<1>4. ~RequestModel
  BY <1>1 DEF RequestModel
<1>5. ~ModelReturns
  BY <1>2 DEF ModelReturns
<1>6. ~ModelReady
  BY <1>3 DEF ModelReady
<1>7. ~ReserveTool
  BY DEF ReserveTool
<1>8. ~Stops
  BY <1>1, <1>2, <1>3 DEF Stops, ModelLimit, ProviderFails, StopTruncated,
     StopAnswered, ToolLimit
<1>9. UNCHANGED <<tool_reserved, model_calls, tool_cursor, pending, phase>>
  BY <1>4, <1>5, <1>6, <1>7, <1>8, JournalMoves
<1> QED
  BY <1>9 DEF CallId, Current

\* An answer is at hand when the operation got its result, or had one, or the
\* call never became an operation.
LEMMA ReturnSteps ==
    ASSUME Next, pc' = "return"
    PROVE  \/ /\ pc = "return" /\ ~ReturnTool
              /\ UNCHANGED <<active, pending, tool_cursor, model_calls>>
           \/ /\ Execute
              /\ RejectCall(Current) \/ ReuseResult(Current, CallId)
              /\ UNCHANGED <<active, pending, tool_cursor, model_calls>>
           \/ Finishes \/ AcceptReply
<1>1. CASE UNCHANGED <<pc, supervisor, journal>>
  <2>1. ~ReturnTool
    BY <1>1 DEF ReturnTool
  <2> QED
    BY <1>1, <2>1 DEF supervisor, journal, checkpoint
<1>2. CASE ModelReady \/ ReserveTool
  BY <1>2 DEF ModelReady, ReserveTool, AtTool, InTools
<1>3. CASE Execute
  <2>1. ~StartOperation(Current, CallId) /\ ~ReenterOperation(Current, CallId)
    BY DEF StartOperation, ReenterOperation
  <2>2. UNCHANGED active
    BY <1>3, <2>1 DEF Execute, RejectCall, ReuseResult, supervisor
  <2>3. UNCHANGED <<pending, tool_cursor, model_calls>>
    BY <1>3 DEF Execute, journal, checkpoint
  <2> QED
    BY <1>3, <2>1, <2>2, <2>3 DEF Execute
<1>4. CASE Supervise
  <2>1. AttemptStep => Finishes \/ AcceptReply
    BY DEF AttemptStep, Finishes, StartBackoff, EndBackoff, BeginAttempt,
       Spawn, SendRequest, Receive, Deadline, LateResponse, ObservationEnds,
       StopWorker, EndDispatch, Charge, Retry
  <2>2. ~ImportLine
    BY DEF ImportLine
  <2> QED
    BY <1>4, <2>1, <2>2 DEF Supervise
<1>5. ~(ModelLimit \/ RequestModel \/ ModelReturns \/ ProviderFails
           \/ StopTruncated \/ StopAnswered \/ ToolLimit \/ ReturnTool
           \/ PrepareEvaluation \/ Evaluate \/ SkipEvaluation \/ Publish
           \/ Finalize \/ ResumeDrive \/ InterruptRunner \/ Crash \/ Resume)
  BY DEF ModelLimit, RequestModel, ModelReturns, ProviderFails, StopTruncated,
     StopAnswered, ToolLimit, Stop, ReturnTool, PrepareEvaluation, Evaluate,
     SkipEvaluation, Publish, Finalize, ResumeDrive, InterruptRunner,
     Interrupt, Crash, Resume
<1>6. ASSUME ResumeFinalized \/ ResumeRefused
                \/ \E k \in Slots : WorkerRuns(k) \/ WorkerDies(k)
      PROVE  UNCHANGED <<pc, supervisor, journal>>
  BY <1>6 DEF ResumeFinalized, ResumeRefused, vars, WorkerRuns, WorkerDies
<1> QED
  BY <1>1, <1>2, <1>3, <1>4, <1>5, <1>6 DEF Next, RunnerStep

LEMMA GivesResult ==
    ASSUME Inv, StrongInv, Finishes \/ AcceptReply
    PROVE  /\ active'.result # NoAnswer
           /\ pc \in Executing
           /\ \/ pc = "judge" /\ AcceptReply /\ active'.result = outcome
              \/ active'.result.task = 0 /\ active'.result.code # "ok"
           /\ UNCHANGED <<active.remaining, active.reserved, active.attempts,
                          total_attempts, fault_cursor, fault, spent,
                          operations, imports, todo, worker, evidence, store>>
<1>1. active \in Operations /\ outcome \in Answers
  BY DEF Inv, StateType, SupervisorType
<1>2. CASE AcceptReply
  <2>1. active'.result = outcome /\ outcome.code = "ok" /\ pc = "judge"
    BY <1>1, <1>2 DEF AcceptReply, Operations
  <2> QED
    BY <1>1, <1>2, <2>1 DEF AcceptReply, Operations, NoAnswer, Executing
<1>3. CASE Finishes
  <2>1. PICK code : Finish(code) /\ code \notin {"none", "ok"}
    BY <1>3 DEF Finishes, AttemptsExhausted, BackoffRefused, OutOfTime,
       RejectReply, GiveUp, StrongInv, AnswersInv
  <2>2. active'.result = Answer(code)
    BY <1>1, <2>1 DEF Finish, Operations
  <2>3. active'.result.code = code /\ active'.result.task = 0
    BY <2>2 DEF Answer
  <2>4. pc \in Executing
    BY <1>3 DEF Finishes, AttemptsExhausted, BackoffRefused, OutOfTime,
       AtAttempt, RejectReply, GiveUp, Executing
  <2> QED
    BY <1>1, <2>1, <2>3, <2>4 DEF Finish, Operations, NoAnswer
<1> QED
  BY <1>2, <1>3

LEMMA ActiveStep ==
    ASSUME Inv, StrongInv, Next
    PROVE  ActiveInv'
<1>0. /\ active \in Operations
      /\ operations \in Seq([call_id : CallIds, call : Calls])
      /\ Len(operations) \in Nat
      /\ CallsInv /\ ActiveInv
  BY DEF Inv, StateType, SupervisorType, StrongInv
<1>1. CASE Starts
  <2>1. PICK c : c = [call_id |-> CallId, call |-> Current]
    OBVIOUS
  <2>2. /\ active'.operation_id = Len(operations) + 1
        /\ active'.call_id = c.call_id /\ active'.call = c.call
        /\ c.call.name # "invalid"
        /\ operations'[Len(operations) + 1] = c
        /\ Len(operations') = Len(operations) + 1
    BY <1>1, <2>1, StartsFacts, StartsAppends
  <2>3. CallId' = CallId /\ Current' = Current /\ tool_reserved' /\ pc' # "return"
    BY <1>1, StartsFacts DEF CallId, Current, journal, checkpoint
  <2>4. c.call_id = CallId /\ c.call = Current
    BY <2>1
  <2> QED
    BY <1>0, <2>2, <2>3, <2>4 DEF ActiveInv
<1>2. CASE ~Starts
  <2>1. UNCHANGED <<operations, active.operation_id, active.call_id, active.call>>
    BY <1>2, ActiveSteps
  <2>2. pc = "return" => ~Unfinished
    BY <1>0 DEF ActiveInv, Unfinished, Inv, ControlInv
  <2>3. ReturnTool => pc = "return" /\ ~tool_reserved' /\ pc' = "drive" /\ active' = active
    BY DEF ReturnTool, supervisor
  <2>4. active'.result = active.result \/ (pc \in Executing /\ active'.result # NoAnswer)
    BY <1>2, ResultSteps, GivesResult
  <2>5. pc \in Executing => Unfinished
    BY DEF Inv, ControlInv
  <2>6. active'.operation_id = 0 => active'.call_id = <<0, 0>> /\ active'.result = NoAnswer
    BY <1>0, <2>1, <2>4, <2>5 DEF ActiveInv, Unfinished
  <2>7. Unfinished' => tool_reserved' /\ active'.call_id = CallId'
    <3>1. ASSUME Unfinished' PROVE Unfinished /\ ~ReturnTool
      BY <2>1, <2>2, <2>3, <2>4, <2>5, <3>1 DEF Unfinished
    <3> QED
      BY <1>0, <2>1, <3>1, ReservedStays DEF ActiveInv
  <2>8. tool_reserved' /\ active'.call_id = CallId' => active'.call = Current'
    <3>1. CASE tool_reserved
      BY <1>0, <2>1, <2>3, <3>1, ReservedStays DEF ActiveInv
    <3>2. CASE ReserveTool
      <4>1. CallId' = CallId /\ phase = "tools" /\ ~tool_reserved
        BY <3>2 DEF ReserveTool, AtTool, InTools, CallId
      <4>2. ASSUME active.call_id = CallId PROVE FALSE
        <5>1. active.operation_id # 0 /\ active.operation_id = Len(operations)
          BY <1>0, <4>1, <4>2, CallInHand DEF ActiveInv
        <5>2. active.operation_id \in 1 .. Len(operations)
          BY <1>0, <5>1
        <5>3. operations[active.operation_id].call_id = CallId
          BY <1>0, <4>2, <5>1 DEF ActiveInv
        <5>4. Earlier(operations[active.operation_id].call_id)
          BY <1>0, <4>1, <5>2 DEF CallsInv
        <5> QED
          BY <4>1, <5>3, <5>4, CallInHand
      <4> QED
        BY <2>1, <4>1, <4>2
    <3>3. CASE ~tool_reserved /\ ~ReserveTool
      BY <2>3, <3>3, JournalMoves
    <3> QED
      BY <3>1, <3>2, <3>3
  <2>9. pc' = "return" => \/ Current'.name = "invalid"
                          \/ active'.call_id = CallId' /\ ~Unfinished'
    <3>1. CASE /\ pc = "return" /\ ~ReturnTool
               /\ UNCHANGED <<active, pending, tool_cursor, model_calls>>
      BY <1>0, <3>1 DEF ActiveInv, CallId, Current, Unfinished
    <3>2. CASE /\ Execute /\ (RejectCall(Current) \/ ReuseResult(Current, CallId))
               /\ UNCHANGED <<active, pending, tool_cursor, model_calls>>
      BY <3>2 DEF RejectCall, ReuseResult, CallId, Current, Unfinished
    <3>3. CASE Finishes \/ AcceptReply
      <4>1. active'.result # NoAnswer /\ Unfinished
        BY <2>5, <3>3, GivesResult
      <4>2. ~ReturnTool
        BY <2>2, <2>3, <4>1
      <4> QED
        BY <1>0, <2>1, <4>1, <4>2, ReservedStays DEF ActiveInv, Unfinished
    <3> QED
      BY <3>1, <3>2, <3>3, ReturnSteps
  <2> QED
    BY <1>0, <2>1, <2>6, <2>7, <2>8, <2>9 DEF ActiveInv
<1> QED
  BY <1>1, <1>2

\* Where the runner is only these steps can bring it.
LEMMA EndSteps ==
    ASSUME Next
    PROVE  /\ pc' = "evaluate" => PrepareEvaluation \/ (pc = "evaluate" /\ ~Evaluate)
           /\ pc' = "publish" => Evaluate \/ SkipEvaluation \/ pc = "publish"
           /\ pc' = "finalize" => Publish \/ pc = "finalize"
           /\ pc = "down" => Resume \/ pc' = "down"
  BY DEF Next, RunnerStep, InterruptRunner, Crash, Resume, ResumeFinalized,
     ResumeRefused, WorkerRuns, WorkerDies, ModelLimit, ProviderFails,
     StopTruncated, StopAnswered, ToolLimit, Stop, InTools, AtTool,
     RequestModel, ModelReturns, ModelReady, ReserveTool, Execute, Supervise,
     ReturnTool, PrepareEvaluation, Evaluate, SkipEvaluation, Publish,
     Finalize, ResumeDrive, vars, RejectCall, StartOperation, ReuseResult,
     ReenterOperation, AttemptStep, ImportLine, AttemptsExhausted,
     BackoffRefused, StartBackoff, EndBackoff, OutOfTime, AtAttempt,
     BeginAttempt, Spawn, SendRequest, Receive, Deadline, LateResponse,
     ObservationEnds, StopWorker, EndDispatch, Charge, AcceptReply,
     RejectReply, GiveUp, Retry, Finish, Interrupt

LEMMA StopsFacts ==
    ASSUME Stops
    PROVE  /\ terminal' # NoResult /\ terminal'.status # "none"
           /\ terminal'.model_calls = model_calls
           /\ terminal'.tool_calls = tool_calls
           /\ terminal'.tool_executions = tool_executions
           /\ terminal'.content \in {Absent, last_turn.content}
           /\ phase' = "terminal" /\ pc' = "drive"
           /\ UNCHANGED <<config, supervisor, worker, evidence, store,
                          model_calls, tool_calls, tool_executions,
                          script_cursor, messages, last_turn, pending,
                          tool_cursor, tool_reserved, evaluation, finalized,
                          observation, deaths>>
<1>1. PICK result \in Statuses, content \in {Absent, last_turn.content} :
         Stop(result, content)
  BY DEF Stops, ModelLimit, ProviderFails, StopTruncated, StopAnswered,
     ToolLimit, Statuses
<1>2. terminal'.status = result /\ NoResult.status = "none"
  BY <1>1 DEF Stop, NoResult
<1> QED
  BY <1>1, <1>2 DEF Stop, Statuses

LEMMA TerminalStep ==
    ASSUME Inv, TerminalInv, Next
    PROVE  TerminalInv'
<1>1. phase = "tools" \/ phase = "model" => terminal = NoResult
  BY DEF TerminalInv
<1>2. /\ RequestModel \/ ModelReturns \/ ModelReady => phase \in {"tools", "model"}
      /\ ReserveTool \/ ReturnTool => phase \in {"tools", "model"}
      /\ Stops => phase \in {"tools", "model"}
  BY DEF RequestModel, ModelReturns, ModelReady, ReserveTool, ReturnTool,
     AtTool, InTools, Inv, ControlInv, ReservedInv, Stops, ModelLimit,
     ProviderFails, StopTruncated, StopAnswered, ToolLimit
<1>3. ModelReturns \/ ModelReady => phase' # "terminal" /\ ~Stops
  BY DEF ModelReturns, ModelReady, Stops, ModelLimit, ProviderFails,
     StopTruncated, StopAnswered, ToolLimit, Stop
<1>4. (phase = "terminal" <=> terminal # NoResult)'
  <2>1. CASE Stops
    BY <2>1, StopsFacts
  <2>2. CASE ModelReturns \/ ModelReady
    BY <1>1, <1>2, <1>3, <2>2, JournalMoves
  <2>3. CASE ~Stops /\ ~ModelReturns /\ ~ModelReady
    BY <2>3, JournalMoves DEF TerminalInv
  <2> QED
    BY <2>1, <2>2, <2>3
<1>5. terminal' # NoResult =>
         /\ terminal'.model_calls = model_calls'
         /\ terminal'.tool_calls = tool_calls'
         /\ terminal'.tool_executions = tool_executions'
  <2>1. CASE Stops
    BY <2>1, StopsFacts
  <2>2. CASE ~Stops
    <3>1. terminal' = terminal
      BY <2>2, JournalMoves
    <3>2. CASE RequestModel \/ ReserveTool \/ ReturnTool
      BY <1>1, <1>2, <3>1, <3>2
    <3>3. CASE ~(RequestModel \/ ReserveTool \/ ReturnTool)
      BY <3>1, <3>3, JournalMoves DEF TerminalInv
    <3> QED
      BY <3>2, <3>3
  <2> QED
    BY <2>1, <2>2
<1>6. Evaluate => evaluation' # NoEvaluation
  <2>1. EvaluateRun(InspectState(tasks, hot), ExpectedTitle, terminal).status # "none"
    BY DEF EvaluateRun, InspectState
  <2> QED
    BY <2>1 DEF Evaluate, NoEvaluation
<1>7. evaluation # NoEvaluation => evaluation' # NoEvaluation
  BY <1>6, JournalMoves
<1>8. pc' \in {"publish", "finalize"} => evaluation' # NoEvaluation
  BY <1>6, <1>7, EndSteps DEF TerminalInv, SkipEvaluation, Publish
<1>9. finalized' => pc' = "down" /\ evaluation' # NoEvaluation
  <2>1. CASE Finalize
    BY <1>7, <2>1 DEF Finalize, TerminalInv
  <2>2. CASE finalized' = finalized
    BY <1>7, <2>2, EndSteps DEF TerminalInv, Resume
  <2> QED
    BY <2>1, <2>2, JournalMoves
<1>10. pc' = "evaluate" => evaluation' = NoEvaluation
  <2>1. PrepareEvaluation => evaluation' = NoEvaluation
    BY DEF PrepareEvaluation, journal, checkpoint
  <2> QED
    BY <2>1, EndSteps, JournalMoves DEF TerminalInv
<1> QED
  BY <1>4, <1>5, <1>8, <1>9, <1>10 DEF TerminalInv

\* The supervisor's places, and what brings the runner to them.
LEMMA PlaceSteps ==
    ASSUME Next
    PROVE  /\ pc' \in {"loop", "attempt", "judge"} =>
                 Starts \/ Reenters \/ EndBackoff \/ Charge \/ Retry \/ pc' = pc
           /\ pc' = "backoff" => StartBackoff \/ pc' = pc
           /\ pc' = "spawn" => BeginAttempt \/ pc' = pc
           /\ pc' \in InFlight \ {"backoff", "spawn"} => pc \in InFlight
           /\ pc = "spawn" => Spawn \/ Crash \/ pc' = pc
           /\ Starts \/ Reenters \/ ResumeDrive \/ Retry => pc \notin InFlight
<1> USE DEF InFlight
<1>1. CASE UNCHANGED pc
  BY <1>1 DEF Starts, Reenters, Execute, AtTool, InTools, ResumeDrive, Retry
<1>2. CASE Supervise
  BY <1>2 DEF Supervise, AttemptStep, ImportLine, AttemptsExhausted,
     BackoffRefused, StartBackoff, EndBackoff, OutOfTime, AtAttempt,
     BeginAttempt, Spawn, SendRequest, Receive, Deadline, LateResponse,
     ObservationEnds, StopWorker, EndDispatch, Charge, AcceptReply,
     RejectReply, GiveUp, Retry, Finish, Starts, Reenters, Execute, AtTool,
     InTools, ResumeDrive
<1>3. CASE Execute
  BY <1>3 DEF Execute, RejectCall, StartOperation, ReuseResult,
     ReenterOperation, AtTool, InTools, Starts, Reenters, ResumeDrive, Retry
<1>4. CASE InterruptRunner \/ Crash
  BY <1>4 DEF InterruptRunner, Interrupt, Crash, Starts, Reenters, Execute,
     AtTool, InTools, ResumeDrive, Retry
<1>5. CASE ModelLimit \/ RequestModel \/ ModelReturns \/ ProviderFails
             \/ StopTruncated \/ StopAnswered \/ ToolLimit \/ ModelReady
             \/ ReserveTool
  BY <1>5 DEF ModelLimit, RequestModel, ModelReturns, ProviderFails,
     StopTruncated, StopAnswered, ToolLimit, Stop, ModelReady, ReserveTool,
     AtTool, InTools, Starts, Reenters, Execute, ResumeDrive, Retry
<1>6. CASE ReturnTool \/ PrepareEvaluation \/ Evaluate \/ SkipEvaluation
             \/ Publish \/ Finalize \/ ResumeDrive \/ Resume
  BY <1>6 DEF ReturnTool, PrepareEvaluation, Evaluate, SkipEvaluation, Publish,
     Finalize, ResumeDrive, Resume, RunLockFree, AtTool, InTools, Starts,
     Reenters, Execute, Retry
<1>7. ResumeFinalized \/ ResumeRefused
         \/ (\E k \in Slots : WorkerRuns(k) \/ WorkerDies(k)) => UNCHANGED pc
  BY DEF ResumeFinalized, ResumeRefused, vars, WorkerRuns, WorkerDies
<1> QED
  BY <1>1, <1>2, <1>3, <1>4, <1>5, <1>6, <1>7 DEF Next, RunnerStep

\* Reserved time is charged before more is reserved, in a crash too.
LEMMA BudgetStep ==
    ASSUME Inv, BudgetInv, Next
    PROVE  BudgetInv'
<1>0. /\ active \in Operations /\ spent \in Nat /\ elapsed \in Nat
      /\ total_attempts \in Nat /\ MaxAttempts \in Nat \ {0}
      /\ OperationSeconds \in Nat /\ GraceSeconds \in Nat
      /\ active.remaining \in Nat /\ active.reserved \in Nat
      /\ active.attempts \in Nat
  BY LimitsAssumption DEF Inv, StateType, SupervisorType, Operations
<1>u. pc \in Executing => active.operation_id # 0
  BY DEF Inv, ControlInv, Unfinished
<1> DEFINE Places == {"loop", "attempt", "judge"}
<1>1. CASE Starts
  BY <1>0, <1>1, StartsFacts DEF BudgetInv, InFlight
<1>2. CASE Reenters
  <2>1. /\ active'.remaining = Less(active.remaining, active.reserved)
        /\ active'.reserved = 0 /\ active'.attempts = active.attempts
        /\ active.operation_id # 0 /\ pc' = "loop"
        /\ spent' = spent /\ total_attempts' = total_attempts
    BY <1>0, <1>2 DEF Reenters, ReenterOperation, Operations, Unfinished
  <2> QED
    BY <1>0, <2>1 DEF BudgetInv, InFlight, Less
<1>3. CASE StartBackoff
  <2>1. /\ active'.reserved = Wait /\ active'.remaining = active.remaining
        /\ active'.attempts = active.attempts
        /\ active.remaining > Wait + GraceSeconds
        /\ pc' = "backoff" /\ pc = "loop"
        /\ spent' = spent /\ total_attempts' = total_attempts
        /\ active.attempts > 0
    BY <1>0, <1>3 DEF StartBackoff, Operations
  <2>2. Wait \in Nat /\ Wait' = Wait
    BY <2>1, WaitType DEF Wait, Inv, StateType
  <2>3. PICK w \in Nat : w = Wait
    BY <2>2
  <2>4. /\ active'.reserved = w /\ active.remaining > w + GraceSeconds /\ Wait' = w
    BY <2>1, <2>2, <2>3
  <2> QED
    BY <1>0, <1>u, <2>1, <2>4 DEF BudgetInv, InFlight, Executing
<1>4. CASE EndBackoff
  <2>1. pc = "backoff" /\ pc' = "attempt" /\ spent' = spent + Wait
        /\ total_attempts' = total_attempts
    BY <1>4 DEF EndBackoff
  <2>2. Wait \in Nat
    BY <2>1, WaitType DEF Inv, StateType, ControlInv
  <2>3. PICK slept \in Wait .. Wait + OverrunSeconds :
           active' = [active EXCEPT !.remaining = Less(@, slept), !.reserved = 0]
    BY <1>4 DEF EndBackoff
  <2>4. slept \in Nat /\ slept >= active.reserved /\ active.reserved = Wait
    BY <1>0, <2>1, <2>2, LimitsAssumption DEF BudgetInv
  <2>5. /\ active'.remaining = Less(active.remaining, slept)
        /\ active'.reserved = 0 /\ active'.attempts = active.attempts
    BY <1>0, <2>3 DEF Operations
  <2>6. spent' = spent + active.reserved
    BY <2>1, <2>4
  <2> QED
    BY <1>0, <1>u, <2>1, <2>4, <2>5, <2>6
       DEF BudgetInv, InFlight, Executing, Less
<1>5. CASE BeginAttempt
  <2>1. pc \in {"loop", "attempt"} /\ pc' = "spawn" /\ spent' = spent
        /\ total_attempts' = total_attempts + 1
    BY <1>5 DEF BeginAttempt, AtAttempt
  <2>2. active.attempts < Maximum
    BY <1>5 DEF BeginAttempt, AtAttempt, MayAttempt, Inv, ControlInv
  <2>3. active.attempts + 1 <= MaxAttempts
    BY <1>0, <2>2 DEF Maximum
  <2>4. PICK r : active' = [active EXCEPT !.attempts = @ + 1, !.reserved = r]
                 /\ r \in {active.remaining,
                           Least(active.remaining, Timeout + GraceSeconds)}
    BY <1>5 DEF BeginAttempt
  <2>5. Timeout + GraceSeconds \in Nat
    BY <1>0, <1>5, LimitsAssumption DEF BeginAttempt, Timeout, Least
  <2>6. r \in Nat /\ r <= active.remaining
    BY <1>0, <2>4, <2>5 DEF Least
  <2>7. /\ active'.remaining = active.remaining /\ active'.reserved = r
        /\ active'.attempts = active.attempts + 1
    BY <1>0, <2>4 DEF Operations
  <2> QED
    BY <1>0, <1>u, <2>1, <2>3, <2>6, <2>7 DEF BudgetInv, InFlight, Executing
<1>6. CASE Charge
  <2>1. /\ active'.remaining = Less(active.remaining, elapsed)
        /\ active'.reserved = 0 /\ active'.attempts = active.attempts
        /\ pc = "charge" /\ pc' = "judge"
        /\ spent' = spent + Least(elapsed, active.reserved)
        /\ total_attempts' = total_attempts
    BY <1>0, <1>6 DEF Charge, Operations
  <2> QED
    BY <1>0, <1>u, <2>1 DEF BudgetInv, InFlight, Executing, Less, Least
<1>7. CASE Crash
  <2>1. /\ pc' = "down" /\ UNCHANGED <<active, total_attempts>>
        /\ spent' = IF pc \in InFlight THEN spent + active.reserved ELSE spent
    BY <1>7 DEF Crash
  <2> QED
    BY <1>0, <2>1 DEF BudgetInv, InFlight
<1>8. CASE EndDispatch
  <2>1. /\ pc = "import" /\ UNCHANGED <<active, total_attempts>>
        /\ \/ pc' = "down" /\ spent' = spent + active.reserved
           \/ pc' = "charge" /\ spent' = spent
    BY <1>8 DEF EndDispatch
  <2> QED
    BY <1>0, <2>1 DEF BudgetInv, InFlight
<1>9. CASE Retry
  BY <1>9 DEF Retry, BudgetInv, InFlight
<1>10. CASE Finishes \/ AcceptReply
  <2>1. /\ pc' = "return"
        /\ UNCHANGED <<spent, total_attempts>>
        /\ \E result : active' = [active EXCEPT !.result = result]
    BY <1>10 DEF Finishes, AttemptsExhausted, BackoffRefused, OutOfTime,
       RejectReply, GiveUp, Finish, AcceptReply
  <2>2. UNCHANGED <<active.operation_id, active.remaining, active.reserved,
                    active.attempts>>
    BY <1>0, <2>1 DEF Operations
  <2> QED
    BY <2>1, <2>2 DEF BudgetInv, InFlight
<1>11. CASE ~(\/ Starts \/ Reenters \/ StartBackoff \/ EndBackoff
              \/ BeginAttempt \/ Charge \/ Crash \/ EndDispatch \/ Retry
              \/ Finishes \/ AcceptReply)
  <2>1. UNCHANGED <<active, total_attempts, spent>>
    BY <1>11, SupervisorSteps
  <2>2. Wait' = Wait
    BY <2>1 DEF Wait
  <2>3. /\ pc' \in Places => pc' = pc
        /\ pc' = "backoff" => pc' = pc
        /\ pc' = "spawn" => pc' = pc
        /\ pc' \in InFlight => pc \in InFlight
    BY <1>11, PlaceSteps DEF InFlight
  <2> QED
    BY <2>1, <2>2, <2>3 DEF BudgetInv
<1> QED
  BY <1>1, <1>2, <1>3, <1>4, <1>5, <1>6, <1>7, <1>8, <1>9, <1>10, <1>11

-----------------------------------------------------------------------------
(* Workers and their rows                                                    *)

\* Who changes the workers, their evidence and the store.
LEMMA WorkerMoves ==
    ASSUME Next
    PROVE  \/ UNCHANGED <<worker, evidence, tasks, task_operations, fresh>>
           \/ (Spawn \/ SendRequest \/ StopWorker) /\ UNCHANGED <<config, journal, deaths>>
           \/ \E k \in Slots : WorkerRuns(k) \/ WorkerDies(k)
  BY DEF Next, RunnerStep, InterruptRunner, Crash, Resume, ResumeFinalized,
     ResumeRefused, ModelLimit, ProviderFails, StopTruncated, StopAnswered,
     ToolLimit, Stop, RequestModel, ModelReturns, ModelReady, ReserveTool,
     Execute, Supervise, ReturnTool, PrepareEvaluation, Evaluate,
     SkipEvaluation, Publish, Finalize, ResumeDrive, vars, store, RejectCall,
     StartOperation, ReuseResult, ReenterOperation, AttemptStep, ImportLine,
     AttemptsExhausted, BackoffRefused, StartBackoff, EndBackoff, OutOfTime,
     BeginAttempt, Receive, Deadline, LateResponse, ObservationEnds,
     EndDispatch, Charge, AcceptReply, RejectReply, GiveUp, Retry, Finish,
     Interrupt, RecoverTaskDatabase

\* A worker process keeps its operation, call and fault from its start on, and
\* everything once it has exited.
Keeps(k) ==
    /\ worker'[k].operation_id = worker[k].operation_id
    /\ worker'[k].call = worker[k].call
    /\ worker'[k].fault = worker[k].fault
    /\ worker'[k].stage = "none" <=> worker[k].stage = "none"
    /\ Live(k)' => Live(k)
    /\ ~Live(k) => worker'[k] = worker[k] /\ evidence'[k] = evidence[k]

LEMMA WorkerKeeps ==
    ASSUME Inv, Next, ~Spawn, NEW k \in Slots
    PROVE  Keeps(k)
<1>0. WorkerType
  BY DEF Inv, StateType
<1>e. ASSUME NEW j \in Slots, UNCHANGED evidence \/ \E lines : Log(j, lines)
      PROVE  k # j => evidence'[k] = evidence[k]
  BY <1>0, <1>e DEF Log, WorkerType
<1> USE DEF Keeps
<1>1. CASE SendRequest
  <2>1. UNCHANGED evidence /\ worker' = [worker EXCEPT ![k0].stage =
                                            IF @ = "reading" THEN "running" ELSE @]
    BY <1>1 DEF SendRequest
  <2>2. CASE k = k0
    BY <1>0, <2>1, <2>2 DEF WorkerType, Live
  <2>3. CASE k # k0
    BY <1>0, <2>1, <2>3 DEF WorkerType, Live
  <2> QED
    BY <2>2, <2>3
<1>2. CASE StopWorker
  <2>1. CASE UNCHANGED <<worker, evidence>>
    BY <2>1 DEF Live
  <2>2. CASE worker' = [worker EXCEPT ![k0].stage = "exited", ![k0].reply = NoAnswer]
               /\ Live(k0) /\ UNCHANGED evidence
    <3>1. CASE k = k0
      BY <1>0, <2>2, <3>1 DEF WorkerType, Live
    <3>2. CASE k # k0
      BY <1>0, <2>2, <3>2 DEF WorkerType, Live
    <3> QED
      BY <3>1, <3>2
  <2> QED
    BY <1>2, <2>1, <2>2 DEF StopWorker, Kill, Exit
<1>3. ASSUME NEW j \in Slots, WorkerDies(j) \/ RequestMissing(j) \/ Reply(j)
                \/ ReadTask(j) \/ StorageFails(j)
      PROVE  Keeps(k)
  <2>1. \E reply : Exit(j, reply)
    BY <1>3 DEF WorkerDies, Kill, RequestMissing, Reply, ReadTask, StorageFails
  <2>2. Live(j)
    BY <1>3 DEF WorkerDies, Kill, RequestMissing, Reply, ReadTask, StorageFails, Live
  <2>3. k # j => evidence'[k] = evidence[k]
    BY <1>3, <1>e DEF WorkerDies, Kill, RequestMissing, Reply, ReadTask, StorageFails
  <2>4. CASE k = j
    BY <1>0, <2>1, <2>2, <2>4 DEF Exit, WorkerType, Live
  <2>5. CASE k # j
    BY <1>0, <2>1, <2>3, <2>5 DEF Exit, WorkerType, Live
  <2> QED
    BY <2>4, <2>5
<1>4. ASSUME NEW j \in Slots, PerformFault(j) \/ BeginCreate(j) \/ RecordCommit(j)
                \/ CommitCreate(j)
      PROVE  Keeps(k)
  <2>1. \E reply, stage : /\ stage # "none"
                          /\ worker' = [worker EXCEPT ![j].stage = stage,
                                                      ![j].reply = reply]
    <3>1. CASE CommitCreate(j)
      BY <3>1 DEF CommitCreate
    <3>2. CASE \E reply : Exit(j, reply)
      BY <3>2 DEF Exit
    <3>3. CASE \E stage \in {"entering", "txn", "recorded"} : Advance(j, stage)
      <4>1. PICK stage \in {"entering", "txn", "recorded"} :
                    worker' = [worker EXCEPT ![j].stage = stage]
        BY <3>3 DEF Advance
      <4>2. worker' = [worker EXCEPT ![j].stage = stage, ![j].reply = worker[j].reply]
        BY <1>0, <4>1 DEF WorkerType
      <4> QED
        BY <4>2
    <3> QED
      BY <1>4, <3>1, <3>2, <3>3 DEF PerformFault, BeginCreate, RecordCommit
  <2>2. Live(j)
    BY <1>4 DEF PerformFault, BeginCreate, RecordCommit, CommitCreate, Live
  <2>3. k # j => evidence'[k] = evidence[k]
    BY <1>4, <1>e DEF PerformFault, BeginCreate, RecordCommit, CommitCreate
  <2>4. CASE k = j
    BY <1>0, <2>1, <2>2, <2>4 DEF WorkerType, Live
  <2>5. CASE k # j
    BY <1>0, <2>1, <2>3, <2>5 DEF WorkerType, Live
  <2> QED
    BY <2>4, <2>5
<1>5. CASE UNCHANGED <<worker, evidence>>
  BY <1>5 DEF Live
<1> QED
  BY <1>1, <1>2, <1>3, <1>4, <1>5, WorkerMoves DEF WorkerRuns, WorkerStep

\* Spawn fills the slot of the attempt it was reserved for.
LEMMA SpawnFacts ==
    ASSUME Inv, Spawn
    PROVE  /\ k0 \in Slots /\ pc = "spawn" /\ pc' = "send"
           /\ worker'[k0] = [stage |-> "reading", operation_id |-> active.operation_id,
                             call |-> active.call, fault |-> fault, reply |-> NoAnswer]
           /\ \A k \in Slots \ {k0} : worker'[k] = worker[k]
           /\ fault' = "none" /\ Unfinished
           /\ UNCHANGED <<active, total_attempts, fault_cursor, operations, imports,
                          outcome, elapsed, todo, spent, evidence, store>>
<1>1. k0 \in Slots
  BY TotalAttemptsAssumption
     DEF Spawn, Inv, StateType, SupervisorType, ControlInv, k0, Slots
<1> QED
  BY <1>1 DEF Spawn, Start, Inv, StateType, WorkerType, ControlInv, Executing

\* Every fault is counted when it is drawn, and drawn within the case's limit.
LEMMA FaultStep ==
    ASSUME Inv, FaultInv, Next
    PROVE  FaultInv'
<1> DEFINE Drawn == IF fault # "none" THEN 1 ELSE 0
<1>0. /\ IsFiniteSet(Slots) /\ IsFiniteSet(Faulty) /\ Cardinality(Faulty) \in Nat
      /\ fault_cursor \in Nat /\ FaultLimit \in Nat
  <2>1. IsFiniteSet(Slots)
    BY TotalAttemptsAssumption, FS_Interval DEF Slots
  <2>2. Faulty \subseteq Slots
    BY DEF Faulty
  <2>3. IsFiniteSet(Faulty)
    BY <2>1, <2>2, FS_Subset
  <2>4. Cardinality(Faulty) \in Nat
    BY <2>3, FS_CardinalityType
  <2>5. fault_cursor \in Nat /\ FaultLimit \in Nat
    BY TotalAttemptsAssumption DEF Inv, StateType, SupervisorType, FaultLimit
  <2> QED
    BY <2>1, <2>3, <2>4, <2>5
<1>f. FaultLimit' = FaultLimit
  BY JournalMoves DEF FaultLimit
<1>1. CASE BeginAttempt
  <2>1. pc # "spawn" /\ pc' = "spawn" /\ UNCHANGED worker
        /\ fault' = FaultFor(active.call)
        /\ fault_cursor' = IF active.call.name = "create_task"
                           THEN fault_cursor + 1 ELSE fault_cursor
    BY <1>1 DEF BeginAttempt, AtAttempt
  <2>2. Faulty' = Faulty /\ fault = "none"
    BY <2>1 DEF Faulty, FaultInv
  <2>3. fault_cursor' <= TotalAttempts /\ fault_cursor' \in Nat
    BY TypeStep DEF Inv, StateType, SupervisorType
  <2>4. fault' # "none" =>
           /\ active.call.name = "create_task"
           /\ \/ config.case = "transient-always"
              \/ config.case = "transient-twice" /\ fault_cursor < 2
              \/ /\ fault_cursor < 1
                 /\ config.case \notin {"transient-always", "transient-twice",
                                        "process-healthy", "restart-healthy"}
    BY <1>0, <2>1 DEF FaultFor
  <2>5. Cardinality(Faulty) <= fault_cursor /\ Cardinality(Faulty) <= FaultLimit
    BY <1>0, <2>2 DEF FaultInv
  <2>6. fault' # "none" => /\ Cardinality(Faulty) + 1 <= fault_cursor'
                           /\ fault_cursor' <= FaultLimit
    BY <1>0, <2>1, <2>3, <2>4, <2>5 DEF FaultLimit
  <2> QED
    BY <1>0, <1>f, <2>1, <2>2, <2>3, <2>5, <2>6 DEF FaultInv
<1>2. CASE Spawn
  <2>1. fault' = "none" /\ fault_cursor' = fault_cursor
    BY <1>2, SpawnFacts
  <2>2. \A k \in Slots : worker'[k].fault = IF k = k0 THEN fault ELSE worker[k].fault
    BY <1>2, SpawnFacts
  <2>3. CASE fault = "none"
    <3>1. Faulty' \subseteq Faulty
      BY <2>2, <2>3 DEF Faulty
    <3>2. Cardinality(Faulty') <= Cardinality(Faulty) /\ Cardinality(Faulty') \in Nat
      BY <1>0, <3>1, FS_Subset, FS_CardinalityType
    <3> QED
      BY <1>0, <1>f, <2>1, <2>3, <3>2 DEF FaultInv
  <2>4. CASE fault # "none"
    <3>1. Faulty' \subseteq Faulty \cup {k0}
      BY <2>2 DEF Faulty
    <3>2. /\ IsFiniteSet(Faulty \cup {k0})
          /\ Cardinality(Faulty \cup {k0}) <= Cardinality(Faulty) + 1
          /\ Cardinality(Faulty \cup {k0}) \in Nat
      <4>1. PICK S : S = Faulty
        OBVIOUS
      <4>2. /\ IsFiniteSet(S \cup {k0})
            /\ \/ Cardinality(S \cup {k0}) = Cardinality(S)
               \/ Cardinality(S \cup {k0}) = Cardinality(S) + 1
        BY <1>0, <4>1, FS_AddElement
      <4> QED
        BY <1>0, <4>1, <4>2
    <3>3. /\ Cardinality(Faulty') <= Cardinality(Faulty \cup {k0})
          /\ Cardinality(Faulty') \in Nat
      BY <3>1, <3>2, FS_Subset, FS_CardinalityType
    <3> QED
      BY <1>0, <1>f, <2>1, <2>4, <3>2, <3>3 DEF FaultInv
  <2> QED
    BY <2>3, <2>4
<1>3. CASE ~BeginAttempt /\ ~Spawn
  <2>1. Faulty' = Faulty
    BY <1>3, WorkerKeeps DEF Faulty, Keeps
  <2>2. fault_cursor' = fault_cursor /\ (fault' = fault \/ fault' = "none")
    BY <1>3, SupervisorSteps DEF Crash
  <2>3. fault' # "none" => pc' = "spawn"
    BY <1>3, <2>2, PlaceSteps DEF FaultInv, Crash
  <2> QED
    BY <1>0, <1>f, <2>1, <2>2, <2>3 DEF FaultInv
<1> QED
  BY <1>1, <1>2, <1>3

\* Operations and rows are only ever added.
LEMMA OperationsGrow ==
    ASSUME Inv, Next
    PROVE  /\ Len(operations) \in Nat /\ Len(operations') \in Nat
           /\ Len(operations) <= Len(operations')
           /\ \A i \in 1 .. Len(operations) :
                 i \in 1 .. Len(operations') /\ operations'[i] = operations[i]
<1>1. Len(operations) \in Nat
  BY DEF Inv, StateType, SupervisorType
<1> QED
  BY <1>1, SupervisorSteps, StartsAppends

LEMMA StoreMoves ==
    ASSUME Inv, Next
    PROVE  \/ UNCHANGED <<tasks, task_operations, fresh>>
           \/ \E k \in Slots : CommitCreate(k) /\ WorkerRuns(k)
<1>1. ASSUME Spawn \/ SendRequest \/ StopWorker
      PROVE  UNCHANGED <<tasks, task_operations, fresh>>
  BY <1>1 DEF Spawn, SendRequest, StopWorker, Kill, store
<1>2. ASSUME NEW k \in Slots, WorkerRuns(k), ~CommitCreate(k)
      PROVE  UNCHANGED <<tasks, task_operations, fresh>>
  BY <1>2 DEF WorkerRuns, WorkerStep, RequestMissing, PerformFault,
     BeginCreate, ReadTask, StorageFails, RecordCommit, Reply,
     RecoverTaskDatabase, store
<1>3. ASSUME NEW k \in Slots, WorkerDies(k)
      PROVE  UNCHANGED <<tasks, task_operations, fresh>>
  BY <1>3 DEF WorkerDies, Kill
<1> QED
  BY <1>1, <1>2, <1>3, WorkerMoves

\* A commit writes the row of its operation, or finds it and writes nothing.
LEMMA CommitFacts ==
    ASSUME Inv, LedgerInv, SlotsInv, NEW k \in Slots, CommitCreate(k)
    PROVE  \E op \in 1 .. Len(operations), title \in Titles, id \in Nat \ {0} :
               /\ worker[k].operation_id = op
               /\ operations[op].call = Create(title)
               /\ worker'[k].reply = [code |-> "ok", task |-> id]
               /\ \/ /\ id = fresh
                     /\ \A r \in task_operations : r.operation_id # op
                     /\ tasks' = tasks \cup {[id |-> id, title |-> title]}
                     /\ task_operations' = task_operations \cup
                           {[operation_id |-> op, title |-> title, task_id |-> id]}
                     /\ fresh' = fresh + 1
                  \/ /\ [operation_id |-> op, title |-> title, task_id |-> id]
                           \in task_operations
                     /\ UNCHANGED <<tasks, task_operations, fresh>>
<1>0. WorkerType /\ StoreType
  BY DEF Inv, StateType
<1>1. PICK op, title : op = worker[k].operation_id /\ title = worker[k].call.arg
  OBVIOUS
<1>2. worker[k].stage = "txn" /\ worker[k].call.name = "create_task"
  BY DEF CommitCreate, Inv, LiveInv
<1>3. worker[k].call = Create(title) /\ title \in Titles
  BY <1>0, <1>1, <1>2 DEF WorkerType, Calls, Create
<1>4. op \in 1 .. Len(operations) /\ operations[op].call = Create(title)
  BY <1>1, <1>2, <1>3 DEF SlotsInv
<1>5. \A r \in Recorded(op) : r.title = title
  <2>1. ASSUME NEW a, NEW b, Create(a) = Create(b) PROVE a = b
    BY <2>1 DEF Create
  <2>2. \A r \in Recorded(op) : Create(r.title) = Create(title)
    BY <1>4 DEF Recorded, LedgerInv
  <2> QED
    BY <2>1, <2>2
<1>6. PICK receipt : receipt = Receipt(title, op)
  OBVIOUS
<1>7. receipt = [code |-> "ok",
                 task |-> IF Recorded(op) = {} THEN fresh
                          ELSE (CHOOSE row \in Recorded(op) : TRUE).task_id,
                 replayed |-> Recorded(op) # {}]
  BY <1>5, <1>6 DEF Receipt
<1>8. /\ worker' = [worker EXCEPT ![k].stage = "committed",
                       ![k].reply = [code |-> "ok", task |-> receipt.task]]
      /\ CreateTaskIdempotent(title, op)
  BY <1>1, <1>6, <1>7 DEF CommitCreate
<1>9. worker'[k].reply = [code |-> "ok", task |-> receipt.task]
  BY <1>0, <1>8 DEF WorkerType
<1>10. CASE Recorded(op) = {}
  <2>1. receipt.task = fresh /\ fresh \in Nat \ {0}
    BY <1>0, <1>7, <1>10 DEF StoreType
  <2>2. \A r \in task_operations : r.operation_id # op
    BY <1>10 DEF Recorded
  <2> QED
    BY <1>1, <1>3, <1>4, <1>8, <1>9, <1>10, <2>1, <2>2 DEF CreateTaskIdempotent
<1>11. CASE Recorded(op) # {}
  <2>1. PICK row \in Recorded(op) : receipt.task = row.task_id
    BY <1>7, <1>11
  <2>2. row \in task_operations /\ row.operation_id = op /\ row.title = title
    BY <1>5, <2>1 DEF Recorded
  <2>3. row = [operation_id |-> op, title |-> title, task_id |-> row.task_id]
    BY <1>0, <2>2 DEF StoreType, LedgerRow
  <2>4. row.task_id \in Nat \ {0}
    BY <1>0, <2>2 DEF LedgerInv, StoreType
  <2> QED
    BY <1>1, <1>3, <1>4, <1>8, <1>9, <1>11, <2>1, <2>2, <2>3, <2>4
       DEF CreateTaskIdempotent
<1> QED
  BY <1>10, <1>11

LEMMA LedgerStep ==
    ASSUME Inv, LedgerInv, SlotsInv, Next
    PROVE  LedgerInv' /\ tasks \subseteq tasks' /\ task_operations \subseteq task_operations'
<1>0. StoreType /\ fresh \in Nat \ {0}
  BY DEF Inv, StateType, StoreType
<1>1. CASE UNCHANGED <<tasks, task_operations, fresh>>
  BY <1>1, OperationsGrow DEF LedgerInv
<1>2. ASSUME NEW k \in Slots, CommitCreate(k), WorkerRuns(k),
             ~UNCHANGED <<tasks, task_operations, fresh>>
      PROVE  LedgerInv' /\ tasks \subseteq tasks' /\ task_operations \subseteq task_operations'
  <2>1. UNCHANGED operations
    BY <1>2 DEF WorkerRuns, supervisor
  <2>2. PICK op \in 1 .. Len(operations), title \in Titles :
           /\ operations[op].call = Create(title)
           /\ \A r \in task_operations : r.operation_id # op
           /\ tasks' = tasks \cup {[id |-> fresh, title |-> title]}
           /\ task_operations' = task_operations \cup
                 {[operation_id |-> op, title |-> title, task_id |-> fresh]}
           /\ fresh' = fresh + 1
    BY <1>2, CommitFacts
  <2>3. PICK row : row = [operation_id |-> op, title |-> title, task_id |-> fresh]
    OBVIOUS
  <2>4. \A r \in task_operations : r.operation_id # op /\ r.task_id # fresh
    BY <1>0, <2>2 DEF LedgerInv
  <2>5. tasks' = {[id |-> r.task_id, title |-> r.title] : r \in task_operations'}
    <3>1. PICK old : old = task_operations
      OBVIOUS
    <3>2. tasks = {[id |-> r.task_id, title |-> r.title] : r \in old}
      BY <3>1 DEF LedgerInv
    <3>3. task_operations' = old \cup {row} /\ row.task_id = fresh /\ row.title = title
      BY <2>2, <2>3, <3>1
    <3>4. tasks' = tasks \cup {[id |-> row.task_id, title |-> row.title]}
      BY <2>2, <3>3
    <3> QED
      BY <3>2, <3>3, <3>4
  <2>6. \A r \in task_operations' :
           /\ r.operation_id \in 1 .. Len(operations)
           /\ operations[r.operation_id].call = Create(r.title)
           /\ r.task_id \in 1 .. (fresh' - 1)
    BY <1>0, <2>2 DEF LedgerInv
  <2>7. \A r, s \in task_operations' :
           r.operation_id = s.operation_id \/ r.task_id = s.task_id => r = s
    BY <2>2, <2>3, <2>4 DEF LedgerInv
  <2> QED
    BY <2>1, <2>2, <2>5, <2>6, <2>7 DEF LedgerInv
<1> QED
  BY <1>1, <1>2, StoreMoves

\* The runner waits for a worker it has started.
LEMMA DispatchSteps ==
    ASSUME Next, pc' \in Dispatching
    PROVE  \/ Spawn
           \/ pc \in Dispatching /\ UNCHANGED <<active, total_attempts>>
<1> USE DEF Dispatching
<1>1. ASSUME UNCHANGED <<pc, supervisor>> PROVE UNCHANGED <<active, total_attempts>>
  BY <1>1 DEF supervisor
<1>2. CASE Supervise
  BY <1>2 DEF Supervise, AttemptStep, ImportLine, AttemptsExhausted,
     BackoffRefused, StartBackoff, EndBackoff, OutOfTime, BeginAttempt,
     SendRequest, Receive, Deadline, LateResponse, ObservationEnds, StopWorker,
     EndDispatch, Charge, AcceptReply, RejectReply, GiveUp, Retry, Finish,
     supervisor
<1>3. ~Execute
  BY DEF Execute, RejectCall, StartOperation, ReuseResult, ReenterOperation
<1>4. CASE InterruptRunner
  BY <1>4 DEF InterruptRunner, Interrupt
<1>5. ~(ModelLimit \/ RequestModel \/ ModelReturns \/ ProviderFails
           \/ StopTruncated \/ StopAnswered \/ ToolLimit \/ ModelReady
           \/ ReserveTool \/ Crash)
  BY DEF ModelLimit, RequestModel, ModelReturns, ProviderFails, StopTruncated,
     StopAnswered, ToolLimit, Stop, ModelReady, ReserveTool, AtTool, InTools,
     Crash
<1>6. ~(ReturnTool \/ PrepareEvaluation \/ Evaluate \/ SkipEvaluation
           \/ Publish \/ Finalize \/ ResumeDrive \/ Resume)
  BY DEF ReturnTool, PrepareEvaluation, Evaluate, SkipEvaluation, Publish,
     Finalize, ResumeDrive, Resume
<1>7. ResumeFinalized \/ ResumeRefused
         \/ (\E k \in Slots : WorkerRuns(k) \/ WorkerDies(k)) => UNCHANGED <<pc, supervisor>>
  BY DEF ResumeFinalized, ResumeRefused, vars, WorkerRuns, WorkerDies
<1> QED
  BY <1>1, <1>2, <1>3, <1>4, <1>5, <1>6, <1>7 DEF Next, RunnerStep

LEMMA SlotsStep ==
    ASSUME Inv, ActiveInv, SlotsInv, Next
    PROVE  SlotsInv'
<1>0. /\ WorkerType /\ total_attempts \in Nat /\ active \in Operations
  BY DEF Inv, StateType, SupervisorType
<1>s. /\ Slots \subseteq Nat
      /\ \A k \in Slots : k > total_attempts => worker[k].stage = "none"
      /\ \A k \in Slots : k = total_attempts /\ pc = "spawn" => worker[k].stage = "none"
  BY DEF SlotsInv, Slots
<1>1. CASE Spawn
  <2>1. /\ active.operation_id \in 1 .. Len(operations)
        /\ active.call = operations[active.operation_id].call
    BY <1>1, SpawnFacts, OperationsGrow DEF ActiveInv, Unfinished
  <2>2. /\ worker'[k0].operation_id = active.operation_id
        /\ worker'[k0].call = active.call /\ worker'[k0].stage = "reading"
        /\ k0' = k0 /\ active' = active /\ operations' = operations
        /\ total_attempts' = total_attempts /\ pc' = "send"
    BY <1>1, SpawnFacts DEF k0
  <2>3. \A k \in Slots : k # k0 => worker'[k] = worker[k]
    BY <1>1, SpawnFacts
  <2>4. \A k \in Slots : worker'[k].stage # "none" =>
           /\ worker'[k].operation_id \in 1 .. Len(operations)
           /\ worker'[k].call = operations[worker'[k].operation_id].call
    BY <2>1, <2>2, <2>3 DEF SlotsInv
  <2>5. \A k \in Slots : worker'[k].stage = "none" => worker'[k] = NoWorker
    BY <2>2, <2>3 DEF SlotsInv
  <2>6. \A k \in Slots : k > total_attempts => worker'[k].stage = "none"
    BY <1>0, <1>s, <2>3 DEF k0
  <2> QED
    BY <2>2, <2>4, <2>5, <2>6 DEF SlotsInv
<1>2. CASE ~Spawn
  <2>1. \A k \in Slots : worker'[k].stage # "none" =>
           /\ worker'[k].operation_id \in 1 .. Len(operations')
           /\ worker'[k].call = operations'[worker'[k].operation_id].call
    BY <1>2, WorkerKeeps, OperationsGrow DEF SlotsInv, Keeps
  <2>2. \A k \in Slots : worker'[k].stage = "none" => worker'[k] = NoWorker
    BY <1>2, WorkerKeeps DEF SlotsInv, Keeps, Live
  <2>3. pc' \in Dispatching => worker'[k0'].stage # "none"
                                  /\ worker'[k0'].operation_id = active'.operation_id
    <3>1. ASSUME pc' \in Dispatching
          PROVE  k0' \in Slots /\ k0' = k0 /\ active' = active /\ pc \in Dispatching
      <4>1. pc \in Dispatching /\ UNCHANGED <<active, total_attempts>>
        BY <1>2, <3>1, DispatchSteps
      <4> QED
        BY <4>1, TotalAttemptsAssumption
           DEF Inv, StateType, SupervisorType, ControlInv, k0, Slots
    <3> QED
      BY <1>2, <3>1, WorkerKeeps DEF SlotsInv, Keeps
  <2>4. \A k \in Slots : k > total_attempts' \/ (k = total_attempts' /\ pc' = "spawn") =>
           worker'[k].stage = "none"
    <3>1. CASE BeginAttempt
      <4>1. total_attempts' = total_attempts + 1 /\ worker' = worker
        BY <3>1 DEF BeginAttempt
      <4> QED
        BY <1>0, <1>s, <4>1
    <3>2. CASE ~BeginAttempt
      <4>1. total_attempts' = total_attempts /\ (pc' = "spawn" => pc = "spawn")
        BY <3>2, SupervisorSteps, PlaceSteps
      <4> QED
        BY <1>2, <1>s, <4>1, WorkerKeeps DEF Keeps
    <3> QED
      BY <3>1, <3>2
  <2> QED
    BY <2>1, <2>2, <2>3, <2>4 DEF SlotsInv
<1> QED
  BY <1>1, <1>2

-----------------------------------------------------------------------------
(* Answers are backed by rows on their whole way to the conversation         *)

Empty(answer) == /\ answer.task = 0 /\ answer.code # "ok"
                 /\ answer.code = "none" => answer = NoAnswer

LEMMA EmptyAnswers ==
    /\ Empty(NoAnswer)
    /\ \A code : code \notin {"none", "ok"} => Empty(Answer(code))
  BY DEF Empty, NoAnswer, Answer

\* What a worker's process may have answered after a step.
LEMMA ReplySteps ==
    ASSUME Inv, Next, ~Spawn, NEW k \in Slots
    PROVE  \/ worker'[k].reply = worker[k].reply
           \/ Empty(worker'[k].reply)
           \/ /\ worker[k].call.name = "get_task" /\ Live(k)
              /\ worker'[k].reply =
                    [code |-> "ok", task |-> GetTask(worker[k].call.arg)]
           \/ CommitCreate(k) /\ Live(k)
<1>0. WorkerType
  BY DEF Inv, StateType
<1>1. CASE UNCHANGED worker
  BY <1>1
<1>2. CASE SendRequest
  BY <1>0, <1>2 DEF SendRequest, WorkerType
<1>3. ASSUME NEW j \in Slots, NEW reply, Exit(j, reply), Empty(reply)
      PROVE  worker'[k].reply = worker[k].reply \/ Empty(worker'[k].reply)
  BY <1>0, <1>3 DEF Exit, WorkerType
<1>4. ASSUME NEW j \in Slots, NEW stage, Advance(j, stage)
      PROVE  worker'[k].reply = worker[k].reply
  BY <1>0, <1>4 DEF Advance, WorkerType
<1>5. CASE StopWorker
  <2>1. k0 \in Slots
    BY <1>5, TotalAttemptsAssumption DEF StopWorker, Inv, StateType,
       SupervisorType, ControlInv, Dispatching, k0, Slots
  <2> QED
    BY <1>1, <1>3, <1>5, <2>1, EmptyAnswers DEF StopWorker, Kill
<1>6. ASSUME NEW j \in Slots, WorkerDies(j) \/ RequestMissing(j) \/ StorageFails(j)
                \/ PerformFault(j) \/ BeginCreate(j) \/ RecordCommit(j)
      PROVE  worker'[k].reply = worker[k].reply \/ Empty(worker'[k].reply)
  <2>1. \/ \E stage : Advance(j, stage)
        \/ \E code \in {"transient_error", "storage_error"} : Exit(j, Answer(code))
        \/ Exit(j, NoAnswer)
    BY <1>6 DEF WorkerDies, Kill, RequestMissing, StorageFails, PerformFault,
       BeginCreate, RecordCommit
  <2> QED
    BY <1>3, <1>4, <2>1, EmptyAnswers
<1>7. ASSUME NEW j \in Slots, Reply(j)
      PROVE  worker'[k].reply = worker[k].reply \/ Empty(worker'[k].reply)
  <2>1. \/ Exit(j, NoAnswer) \/ Exit(j, Answer("malformed"))
        \/ Exit(j, worker[j].reply)
    BY <1>7 DEF Reply
  <2>2. ASSUME Exit(j, worker[j].reply) PROVE worker'[k].reply = worker[k].reply
    BY <1>0, <2>2 DEF Exit, WorkerType
  <2> QED
    BY <1>3, <2>1, <2>2, EmptyAnswers
<1>8. ASSUME NEW j \in Slots, ReadTask(j) \/ CommitCreate(j)
      PROVE  \/ worker'[k].reply = worker[k].reply
             \/ /\ worker[k].call.name = "get_task" /\ Live(k)
                /\ worker'[k].reply =
                      [code |-> "ok", task |-> GetTask(worker[k].call.arg)]
             \/ CommitCreate(k) /\ Live(k)
  <2>1. CASE j = k
    BY <1>0, <1>8, <2>1 DEF ReadTask, CommitCreate, Exit, WorkerType, Live
  <2>2. CASE j # k
    <3>1. \E stage, reply : worker' = [worker EXCEPT ![j].stage = stage, ![j].reply = reply]
      BY <1>8 DEF ReadTask, CommitCreate, Exit
    <3> QED
      BY <1>0, <2>2, <3>1 DEF WorkerType
  <2> QED
    BY <2>1, <2>2
<1> QED
  BY <1>1, <1>2, <1>5, <1>6, <1>7, <1>8, WorkerMoves DEF WorkerRuns, WorkerStep

\* What is backed stays backed.
BackedNext(op, answer) ==
    /\ operations'[op].call.name = "create_task" /\ answer.code = "ok" =>
          \E r \in task_operations' : r.operation_id = op /\ r.task_id = answer.task
    /\ answer.task # 0 => \E t \in tasks' : t.id = answer.task

LEMMA BackedStays ==
    ASSUME Inv, LedgerInv, SlotsInv, Next,
           NEW op \in 1 .. Len(operations), NEW answer, Backed(op, answer)
    PROVE  BackedNext(op, answer)
  BY LedgerStep, OperationsGrow DEF Backed, BackedNext

\* The outcome of an attempt is the worker's answer or an error.
LEMMA OutcomeSteps ==
    ASSUME Next, pc' \in {"stopping", "import", "charge", "judge"}
    PROVE  \/ /\ pc \in Dispatching
              /\ \/ outcome' = Received
                 \/ \E code \in {"deadline_exceeded", "interrupted"} :
                       outcome' = Answer(code)
              /\ UNCHANGED <<active, operations, tasks, task_operations, total_attempts>>
           \/ /\ pc \in {"stopping", "import", "charge", "judge"}
              /\ outcome' = outcome /\ operations' = operations
              /\ active'.operation_id = active.operation_id
<1> USE DEF Dispatching
<1>1. ASSUME UNCHANGED <<pc, supervisor>>
      PROVE  UNCHANGED <<active, outcome, operations>>
  BY <1>1 DEF supervisor
<1>2. CASE Supervise
  <2>1. CASE Receive \/ Deadline \/ LateResponse \/ ObservationEnds
    BY <2>1 DEF Receive, Deadline, LateResponse, ObservationEnds, store
  <2>2. CASE StopWorker \/ EndDispatch \/ ImportLine
    BY <2>2 DEF StopWorker, EndDispatch, ImportLine
  <2>3. CASE Charge
    BY <2>3 DEF Charge
  <2>4. AttemptStep => Receive \/ Deadline \/ LateResponse \/ ObservationEnds
                          \/ StopWorker \/ EndDispatch \/ Charge
    BY DEF AttemptStep, AttemptsExhausted, BackoffRefused, StartBackoff,
       EndBackoff, OutOfTime, BeginAttempt, Spawn, SendRequest, AcceptReply,
       RejectReply, GiveUp, Retry, Finish
  <2> QED
    BY <1>2, <2>1, <2>2, <2>3, <2>4 DEF Supervise
<1>3. ~Execute
  BY DEF Execute, RejectCall, StartOperation, ReuseResult, ReenterOperation
<1>4. CASE InterruptRunner
  BY <1>4 DEF InterruptRunner, Interrupt, store
<1>5. ~(ModelLimit \/ RequestModel \/ ModelReturns \/ ProviderFails
           \/ StopTruncated \/ StopAnswered \/ ToolLimit \/ ModelReady
           \/ ReserveTool \/ Crash)
  BY DEF ModelLimit, RequestModel, ModelReturns, ProviderFails, StopTruncated,
     StopAnswered, ToolLimit, Stop, ModelReady, ReserveTool, AtTool, InTools,
     Crash
<1>6. ~(ReturnTool \/ PrepareEvaluation \/ Evaluate \/ SkipEvaluation
           \/ Publish \/ Finalize \/ ResumeDrive \/ Resume)
  BY DEF ReturnTool, PrepareEvaluation, Evaluate, SkipEvaluation, Publish,
     Finalize, ResumeDrive, Resume
<1>7. ResumeFinalized \/ ResumeRefused
         \/ (\E k \in Slots : WorkerRuns(k) \/ WorkerDies(k)) => UNCHANGED <<pc, supervisor>>
  BY DEF ResumeFinalized, ResumeRefused, vars, WorkerRuns, WorkerDies
<1> QED
  BY <1>1, <1>2, <1>3, <1>4, <1>5, <1>6, <1>7 DEF Next, RunnerStep

LEMMA AnswersStep ==
    ASSUME Inv, StrongInv, Next
    PROVE  AnswersInv'
<1>0. /\ LedgerInv /\ SlotsInv /\ AnswersInv /\ ActiveInv
      /\ WorkerType /\ active \in Operations /\ outcome \in Answers
      /\ messages \in Seq([call_id : CallIds, call : Calls, answer : Answers])
  BY DEF StrongInv, Inv, StateType, SupervisorType, DurableType
<1>g. /\ Len(operations) \in Nat /\ Len(operations') \in Nat
      /\ Len(operations) <= Len(operations')
      /\ \A i \in 1 .. Len(operations) :
            i \in 1 .. Len(operations') /\ operations'[i] = operations[i]
      /\ tasks \subseteq tasks' /\ task_operations \subseteq task_operations'
  BY <1>0, OperationsGrow, LedgerStep
<1>e. ASSUME NEW op, NEW answer, Empty(answer) PROVE BackedNext(op, answer)
  BY <1>e DEF Empty, BackedNext
<1>1. \A k \in Slots : /\ worker'[k].stage # "none" =>
                             BackedNext(worker'[k].operation_id, worker'[k].reply)
                       /\ worker'[k].reply.code = "none" => worker'[k].reply = NoAnswer
  <2> SUFFICES ASSUME NEW k \in Slots
               PROVE  /\ worker'[k].stage # "none" =>
                            BackedNext(worker'[k].operation_id, worker'[k].reply)
                      /\ worker'[k].reply.code = "none" => worker'[k].reply = NoAnswer
    OBVIOUS
  <2>1. CASE Spawn
    <3>1. CASE k = k0
      <4>1. worker'[k].reply = NoAnswer
        BY <2>1, <3>1, SpawnFacts
      <4> QED
        BY <1>e, <4>1, EmptyAnswers
    <3>2. CASE k # k0
      <4>1. worker'[k] = worker[k]
        BY <2>1, <3>2, SpawnFacts
      <4> QED
        BY <1>0, <4>1, BackedStays DEF AnswersInv, SlotsInv
    <3> QED
      BY <3>1, <3>2
  <2>2. CASE ~Spawn
    <3>0. /\ worker'[k].operation_id = worker[k].operation_id
          /\ worker'[k].stage # "none" => worker[k].stage # "none"
          /\ Live(k) => worker[k].stage # "none"
          /\ worker[k].stage # "none" =>
                /\ worker[k].operation_id \in 1 .. Len(operations)
                /\ worker[k].call = operations[worker[k].operation_id].call
      BY <1>0, <2>2, WorkerKeeps DEF Keeps, Live, SlotsInv
    <3>1. CASE worker'[k].reply = worker[k].reply
      BY <1>0, <3>0, <3>1, BackedStays DEF AnswersInv
    <3>2. CASE Empty(worker'[k].reply)
      BY <1>e, <3>2 DEF Empty
    <3>3. CASE /\ worker[k].call.name = "get_task" /\ Live(k)
               /\ worker'[k].reply =
                     [code |-> "ok", task |-> GetTask(worker[k].call.arg)]
      <4>1. PICK task : task = GetTask(worker[k].call.arg)
        OBVIOUS
      <4>2. task # 0 => \E t \in tasks : t.id = task
        BY <4>1 DEF GetTask
      <4>3. operations'[worker[k].operation_id].call.name # "create_task"
        BY <1>g, <3>0, <3>3
      <4>4. worker'[k].reply.code = "ok" /\ worker'[k].reply.task = task
        BY <3>3, <4>1
      <4> QED
        BY <1>g, <3>0, <4>2, <4>3, <4>4 DEF BackedNext
    <3>4. CASE CommitCreate(k)
      <4>1. PICK op \in 1 .. Len(operations), id \in Nat, title \in Titles :
               /\ worker[k].operation_id = op
               /\ worker'[k].reply = [code |-> "ok", task |-> id]
               /\ [operation_id |-> op, title |-> title, task_id |-> id]
                     \in task_operations'
        BY <1>0, <1>g, <3>4, CommitFacts
      <4>2. [id |-> id, title |-> title] \in tasks'
        BY <1>0, <4>1, LedgerStep DEF LedgerInv
      <4> QED
        BY <3>0, <4>1, <4>2 DEF BackedNext
    <3> QED
      BY <2>2, <3>1, <3>2, <3>3, <3>4, ReplySteps
  <2> QED
    BY <2>1, <2>2
<1>2. pc' \in {"stopping", "import", "charge", "judge"} =>
         outcome'.code # "none" /\ BackedNext(active'.operation_id, outcome')
  <2> SUFFICES ASSUME pc' \in {"stopping", "import", "charge", "judge"}
               PROVE  outcome'.code # "none" /\ BackedNext(active'.operation_id, outcome')
    OBVIOUS
  <2>1. CASE /\ pc \in Dispatching
             /\ outcome' = Received
             /\ UNCHANGED <<active, operations, tasks, task_operations>>
    <3>1. k0 \in Slots
      BY <2>1, TotalAttemptsAssumption DEF Inv, StateType, SupervisorType,
         ControlInv, k0, Slots
    <3>2. worker[k0].stage # "none" /\ worker[k0].operation_id = active.operation_id
      BY <1>0, <2>1 DEF SlotsInv
    <3>3. CASE worker[k0].reply = NoAnswer
      <4>1. outcome' = Answer("delivery_error")
        BY <2>1, <3>3 DEF Received
      <4> QED
        BY <1>e, <4>1, EmptyAnswers DEF Answer
    <3>4. CASE worker[k0].reply # NoAnswer
      <4>1. outcome' = worker[k0].reply /\ worker[k0].reply.code # "none"
        BY <1>0, <2>1, <3>1, <3>4 DEF Received, AnswersInv
      <4>2. Backed(active.operation_id, worker[k0].reply)
        BY <1>0, <3>1, <3>2 DEF AnswersInv
      <4> QED
        BY <2>1, <4>1, <4>2 DEF Backed, BackedNext
    <3> QED
      BY <3>3, <3>4
  <2>2. ASSUME NEW code \in {"deadline_exceeded", "interrupted"},
               outcome' = Answer(code)
        PROVE  outcome'.code # "none" /\ BackedNext(active'.operation_id, outcome')
    BY <1>e, <2>2, EmptyAnswers DEF Answer
  <2>3. CASE /\ pc \in {"stopping", "import", "charge", "judge"}
             /\ outcome' = outcome /\ operations' = operations
             /\ active'.operation_id = active.operation_id
    <3>1. outcome.code # "none" /\ Backed(active.operation_id, outcome)
      BY <1>0, <2>3 DEF AnswersInv
    <3>2. BackedNext(active.operation_id, outcome)
      BY <1>g, <2>3, <3>1 DEF Backed, BackedNext
    <3> QED
      BY <2>3, <3>1, <3>2
  <2> QED
    BY <2>1, <2>2, <2>3, OutcomeSteps
<1>3. active'.operation_id # 0 => BackedNext(active'.operation_id, active'.result)
  <2>1. CASE Starts
    <3>1. active'.result = NoAnswer
      BY <2>1, StartsFacts
    <3> QED
      BY <1>e, <3>1, EmptyAnswers
  <2>2. CASE ~Starts
    <3>1. active'.operation_id = active.operation_id
             /\ (active.operation_id # 0 => active.operation_id \in 1 .. Len(operations))
      BY <1>0, <1>g, <2>2, ActiveSteps DEF ActiveInv
    <3>2. CASE active'.result = active.result
      BY <1>0, <3>1, <3>2, BackedStays DEF AnswersInv
    <3>3. CASE Finishes \/ AcceptReply
      <4>1. CASE pc = "judge" /\ active'.result = outcome
        BY <1>0, <3>1, <4>1, BackedStays DEF AnswersInv
      <4>2. CASE active'.result.task = 0 /\ active'.result.code # "ok"
        BY <4>2 DEF BackedNext
      <4> QED
        BY <3>3, <4>1, <4>2, GivesResult
    <3> QED
      BY <2>2, <3>2, <3>3, ResultSteps
  <2> QED
    BY <2>1, <2>2
<1>4. \A i \in 1 .. Len(messages') :
         /\ messages'[i].call.name = "create_task" /\ messages'[i].answer.code = "ok" =>
               \E r \in task_operations' :
                   /\ operations'[r.operation_id].call_id = messages'[i].call_id
                   /\ r.title = messages'[i].call.arg
                   /\ r.task_id = messages'[i].answer.task
         /\ messages'[i].answer.task # 0 =>
               \E t \in tasks' : t.id = messages'[i].answer.task
  <2>1. ASSUME NEW i \in 1 .. Len(messages)
        PROVE  /\ messages[i].call.name = "create_task" /\ messages[i].answer.code = "ok" =>
                     \E r \in task_operations' :
                         /\ operations'[r.operation_id].call_id = messages[i].call_id
                         /\ r.title = messages[i].call.arg
                         /\ r.task_id = messages[i].answer.task
               /\ messages[i].answer.task # 0 =>
                     \E t \in tasks' : t.id = messages[i].answer.task
    <3>1. \A r \in task_operations : operations'[r.operation_id] = operations[r.operation_id]
      BY <1>0, <1>g DEF LedgerInv
    <3> QED
      BY <1>0, <1>g, <3>1 DEF AnswersInv
  <2>2. CASE ReturnTool
    <3>1. PICK call, answer : call = Current /\ answer = Delivered
      OBVIOUS
    <3>2. /\ call.name = "create_task" /\ answer.code = "ok" =>
                \E r \in task_operations :
                    /\ operations[r.operation_id].call_id = CallId
                    /\ r.title = call.arg
                    /\ r.task_id = answer.task
          /\ answer.task # 0 => \E t \in tasks : t.id = answer.task
      <4>1. CASE call.name = "invalid"
        BY <3>1, <4>1 DEF Delivered, Answer
      <4>2. CASE call.name # "invalid"
        <5>1. pc = "return" /\ tool_reserved /\ phase = "tools"
          BY <2>2, ReturnsAppends DEF ReturnTool
        <5>2. active.call_id = CallId /\ active.call = call
          BY <1>0, <3>1, <4>2, <5>1 DEF ActiveInv
        <5>3. active.operation_id # 0
          BY <1>0, <5>1, <5>2, CallInHand DEF ActiveInv
        <5>4. answer = active.result /\ Backed(active.operation_id, active.result)
          BY <1>0, <3>1, <4>2, <5>3 DEF Delivered, AnswersInv
        <5>5. /\ operations[active.operation_id].call = call
              /\ operations[active.operation_id].call_id = CallId
          BY <1>0, <5>2, <5>3 DEF ActiveInv
        <5>6. \A r \in task_operations : r.operation_id = active.operation_id =>
                 r.title = call.arg
          <6>1. ASSUME NEW title, Create(title) = call PROVE title = call.arg
            BY <6>1 DEF Create
          <6>2. \A r \in task_operations : r.operation_id = active.operation_id =>
                   Create(r.title) = call
            BY <1>0, <5>5 DEF LedgerInv
          <6> QED
            BY <6>1, <6>2
        <5> QED
          BY <5>4, <5>5, <5>6 DEF Backed
      <4> QED
        BY <4>1, <4>2
    <3>3. UNCHANGED <<operations, tasks, task_operations>>
      BY <2>2, ReturnsAppends DEF supervisor, store
    <3>4. PICK n : n = Len(messages) + 1
      OBVIOUS
    <3>5. /\ messages'[n] = [call_id |-> CallId, call |-> call, answer |-> answer]
          /\ \A i \in 1 .. Len(messages') : i \in 1 .. Len(messages) \/ i = n
          /\ \A i \in 1 .. Len(messages) : messages'[i] = messages[i]
      BY <2>2, <3>1, <3>4, ReturnsAppends
    <3>6. \A i \in 1 .. Len(messages') : i = n =>
             /\ messages'[i].call_id = CallId /\ messages'[i].call = call
             /\ messages'[i].answer = answer
      BY <3>5
    <3> QED
      BY <2>1, <3>2, <3>3, <3>5, <3>6
  <2>3. CASE ~ReturnTool
    <3>1. messages' = messages
      BY <2>3, JournalMoves
    <3> QED
      BY <2>1, <3>1
  <2> QED
    BY <2>2, <2>3
<1> QED
  BY <1>1, <1>2, <1>3, <1>4 DEF AnswersInv, Backed, BackedNext

-----------------------------------------------------------------------------
(* Evidence is counted once                                                  *)

\* Evidence files only grow, and only a live worker writes.
LEMMA EvidenceGrows ==
    ASSUME Inv, Next, NEW k \in Slots
    PROVE  /\ Len(evidence[k]) \in Nat /\ Len(evidence'[k]) \in Nat
           /\ Len(evidence[k]) <= Len(evidence'[k])
           /\ \/ evidence'[k] = evidence[k]
              \/ Live(k) /\ UNCHANGED <<pc, supervisor>>
<1>0. WorkerType
  BY DEF Inv, StateType
<1>1. Len(evidence[k]) \in Nat
  BY <1>0 DEF WorkerType
<1>2. CASE evidence'[k] = evidence[k]
  BY <1>1, <1>2
<1>3. ASSUME NEW j \in Slots, NEW lines \in Seq(Lines), Log(j, lines)
      PROVE  /\ Len(evidence'[k]) \in Nat
             /\ Len(evidence[k]) <= Len(evidence'[k])
             /\ k # j => evidence'[k] = evidence[k]
  <2>1. CASE k = j
    <3>1. PICK e \in Seq(Lines) : e = evidence[k]
      BY <1>0 DEF WorkerType
    <3>2. evidence'[k] = e \o lines
      BY <1>0, <1>3, <2>1, <3>1 DEF Log, WorkerType
    <3> QED
      BY <2>1, <3>1, <3>2
  <2>2. CASE k # j
    BY <1>0, <1>1, <1>3, <2>2 DEF Log, WorkerType
  <2> QED
    BY <2>1, <2>2
<1>4. CASE Spawn \/ SendRequest \/ StopWorker
  BY <1>2, <1>4 DEF Spawn, SendRequest, StopWorker, Kill
<1>5. ASSUME NEW j \in Slots, WorkerDies(j) PROVE evidence' = evidence
  BY <1>5 DEF WorkerDies, Kill
<1>6. ASSUME NEW j \in Slots, WorkerRuns(j)
      PROVE  /\ Live(j) /\ UNCHANGED <<pc, supervisor>>
             /\ evidence' = evidence \/ \E lines \in Seq(Lines) : Log(j, lines)
  <2>1. Live(j) /\ UNCHANGED <<pc, supervisor>>
    BY <1>6 DEF WorkerRuns, WorkerStep, RequestMissing, PerformFault,
       BeginCreate, ReadTask, CommitCreate, StorageFails, RecordCommit, Reply,
       Live
  <2>2. << >> \in Seq(Lines) /\ \A l \in Lines : <<l>> \in Seq(Lines)
    OBVIOUS
  <2>3. evidence' = evidence \/ \E lines \in {<< >>} \cup {<<l>> : l \in Lines} : Log(j, lines)
    BY <1>6 DEF WorkerRuns, WorkerStep, RequestMissing, PerformFault,
       BeginCreate, ReadTask, CommitCreate, StorageFails, RecordCommit, Reply,
       Lines
  <2> QED
    BY <2>1, <2>2, <2>3
<1>7. ASSUME NEW j \in Slots, WorkerRuns(j)
      PROVE  /\ Len(evidence'[k]) \in Nat /\ Len(evidence[k]) <= Len(evidence'[k])
             /\ \/ evidence'[k] = evidence[k]
                \/ Live(k) /\ UNCHANGED <<pc, supervisor>>
  BY <1>1, <1>3, <1>6, <1>7
<1> QED
  BY <1>1, <1>2, <1>4, <1>5, <1>7, WorkerMoves

\* The lines of a step: the old ones, and those a live worker has added.
LEMMA LinesGrow ==
    ASSUME Inv, Next
    PROVE  /\ EvidenceLines(Slots) \subseteq EvidenceLines(Slots)'
           /\ \A l \in EvidenceLines(Slots)' \ EvidenceLines(Slots) :
                 /\ l[1] \in Slots /\ l \in LineIds
                 /\ Live(l[1]) /\ UNCHANGED <<pc, supervisor>>
<1>1. \A l \in EvidenceLines(Slots) : l \in LineIds /\ l[1] \in Slots /\ l[2] \in Nat
  BY DEF EvidenceLines, LineIds
<1>2. \A l \in EvidenceLines(Slots)' : l \in LineIds /\ l[1] \in Slots /\ l[2] \in Nat
  BY DEF EvidenceLines, LineIds
<1>3. ASSUME NEW l \in EvidenceLines(Slots) PROVE l \in EvidenceLines(Slots)'
  <2>1. l[2] <= Len(evidence[l[1]])
    BY DEF EvidenceLines
  <2>2. l[2] <= Len(evidence'[l[1]])
    BY <1>1, <2>1, EvidenceGrows
  <2> QED
    BY <1>1, <2>2 DEF EvidenceLines
<1>4. ASSUME NEW l \in EvidenceLines(Slots)', l \notin EvidenceLines(Slots)
      PROVE  Live(l[1]) /\ UNCHANGED <<pc, supervisor>>
  <2>1. evidence'[l[1]] # evidence[l[1]]
    BY <1>2, <1>4 DEF EvidenceLines
  <2> QED
    BY <1>2, <2>1, EvidenceGrows
<1> QED
  BY <1>2, <1>3, <1>4

\* The runner's lines to import are set by the end of a dispatch and by a
\* resume, and are done before it goes on.
LEMMA TodoSteps ==
    ASSUME Inv, Next
    PROVE  \/ pc \in Dispatching /\ pc' = "import" /\ todo' = EvidenceLines({k0})
                 /\ UNCHANGED <<imports, evidence>>
           \/ Resume
           \/ ImportLine /\ pc' = pc
           \/ Spawn
           \/ Crash
           \/ /\ UNCHANGED <<imports, todo>>
              /\ \/ UNCHANGED <<pc, total_attempts>>
                 \/ pc \in Dispatching /\ pc' \in Dispatching /\ UNCHANGED total_attempts
                 \/ pc = "import" /\ todo = {} /\ pc' \in {"charge", "down"}
                 \/ pc = "reimport" /\ todo = {} /\ pc' = "drive"
                 \/ /\ pc \notin Dispatching \cup {"import", "reimport", "down"}
                    /\ pc' \notin Dispatching \cup {"import", "reimport"}
<1> USE DEF Dispatching
<1>1. CASE Supervise
  <2>1. CASE Receive \/ LateResponse
    BY <2>1 DEF Receive, LateResponse
  <2>2. CASE StopWorker
    BY <2>2 DEF StopWorker, Kill
  <2>3. CASE SendRequest \/ Deadline \/ ObservationEnds
    BY <2>3 DEF SendRequest, Deadline, ObservationEnds, supervisor
  <2>4. CASE EndDispatch
    BY <2>4 DEF EndDispatch
  <2>5. CASE AttemptsExhausted \/ BackoffRefused \/ OutOfTime \/ RejectReply \/ GiveUp
    BY <2>5 DEF AttemptsExhausted, BackoffRefused, OutOfTime, AtAttempt,
       RejectReply, GiveUp, Finish
  <2>6. CASE StartBackoff \/ EndBackoff \/ BeginAttempt \/ Charge \/ AcceptReply
               \/ Retry
    BY <2>6 DEF StartBackoff, EndBackoff, BeginAttempt, AtAttempt, Charge,
       AcceptReply, Retry
  <2>7. ImportLine => pc' = pc
    BY DEF ImportLine
  <2> QED
    BY <1>1, <2>1, <2>2, <2>3, <2>4, <2>5, <2>6, <2>7 DEF Supervise, AttemptStep
<1>2. CASE Execute
  BY <1>2 DEF Execute, AtTool, InTools, RejectCall, StartOperation,
     ReuseResult, ReenterOperation, supervisor
<1>3. CASE InterruptRunner
  BY <1>3 DEF InterruptRunner, Interrupt
<1>4. CASE ModelLimit \/ RequestModel \/ ModelReturns \/ ProviderFails
             \/ StopTruncated \/ StopAnswered \/ ToolLimit \/ ModelReady
             \/ ReserveTool
  BY <1>4 DEF ModelLimit, RequestModel, ModelReturns, ProviderFails,
     StopTruncated, StopAnswered, ToolLimit, Stop, ModelReady, ReserveTool,
     AtTool, InTools, supervisor
<1>5. CASE ReturnTool \/ PrepareEvaluation \/ Evaluate \/ SkipEvaluation
             \/ Publish \/ Finalize
  BY <1>5 DEF ReturnTool, PrepareEvaluation, Evaluate, SkipEvaluation, Publish,
     Finalize, supervisor
<1>6. CASE ResumeDrive
  BY <1>6 DEF ResumeDrive, supervisor
<1>7. CASE ResumeFinalized \/ ResumeRefused
             \/ \E k \in Slots : WorkerRuns(k) \/ WorkerDies(k)
  BY <1>7 DEF ResumeFinalized, ResumeRefused, vars, WorkerRuns, WorkerDies,
     supervisor
<1> QED
  BY <1>1, <1>2, <1>3, <1>4, <1>5, <1>6, <1>7 DEF Next, RunnerStep

LEMMA ImportStep ==
    ASSUME Inv, ImportInv, SlotsInv, Next
    PROVE  ImportInv'
<1>0. /\ WorkerType /\ imports \in [LineIds -> Nat] /\ total_attempts \in Nat
      /\ \A l \in EvidenceLines(Slots) : l \in LineIds
      /\ \A l \in LineIds : l[1] \in Slots
      /\ "down" \notin Dispatching
  BY DEF Inv, StateType, SupervisorType, EvidenceLines, LineIds, Dispatching
<1>a. \A k \in Slots : Live(k) => pc \in Dispatching \cup {"down"} /\ k = k0
  BY DEF Inv, LiveInv, OnlyCurrentWorkerLives, k0
<1>b. \A k \in Slots : worker'[k].stage = "none" => evidence'[k] = << >>
  <2>1. CASE Spawn
    BY <2>1, SpawnFacts DEF ImportInv
  <2>2. CASE ~Spawn
    BY <2>2, WorkerKeeps DEF ImportInv, Keeps, Live
  <2> QED
    BY <2>1, <2>2
<1>c. /\ \A l \in LineIds : imports[l] \in {0, 1}
      /\ \A l \in LineIds : imports[l] = 1 => l \in EvidenceLines(Slots)
      /\ \A l \in todo : l \in EvidenceLines(Slots) /\ imports[l] = 0
      /\ todo # {} => pc \in {"import", "reimport"}
      /\ pc \notin Dispatching \cup {"down"} =>
            \A l \in EvidenceLines(Slots) : imports[l] = 1 \/ l \in todo
      /\ pc \in Dispatching =>
            \A l \in EvidenceLines(Slots) : imports[l] = (IF l[1] = k0 THEN 0 ELSE 1)
  BY DEF ImportInv
<1>d. /\ EvidenceLines(Slots) \subseteq EvidenceLines(Slots)'
      /\ \A l \in EvidenceLines(Slots)' \ EvidenceLines(Slots) :
            /\ l \in LineIds /\ imports[l] = 0 /\ l[1] = k0
            /\ pc \in Dispatching \cup {"down"} /\ UNCHANGED <<pc, supervisor>>
  BY <1>0, <1>a, <1>c, LinesGrow
<1>e. pc \notin Dispatching \cup {"down"} \/ ~UNCHANGED <<pc, supervisor>> =>
         EvidenceLines(Slots)' = EvidenceLines(Slots)
  BY <1>d
<1> DEFINE Goal ==
      /\ \A l \in LineIds : imports'[l] \in {0, 1}
      /\ \A l \in LineIds : imports'[l] = 1 => l \in EvidenceLines(Slots)'
      /\ \A l \in todo' : l \in EvidenceLines(Slots)' /\ imports'[l] = 0
      /\ todo' # {} => pc' \in {"import", "reimport"}
      /\ pc' \notin Dispatching \cup {"down"} =>
            \A l \in EvidenceLines(Slots)' : imports'[l] = 1 \/ l \in todo'
      /\ pc' \in Dispatching =>
            \A l \in EvidenceLines(Slots)' : imports'[l] = (IF l[1] = k0' THEN 0 ELSE 1)
<1>1. CASE /\ pc \in Dispatching /\ pc' = "import" /\ todo' = EvidenceLines({k0})
           /\ UNCHANGED <<imports, evidence>>
  <2>1. EvidenceLines(Slots)' = EvidenceLines(Slots)
    BY <1>1 DEF EvidenceLines
  <2>2. k0 \in Slots
    BY <1>1, TotalAttemptsAssumption DEF Inv, StateType, SupervisorType,
       ControlInv, k0, Slots
  <2>3. \A l : l \in EvidenceLines({k0}) <=> l \in EvidenceLines(Slots) /\ l[1] = k0
    BY <2>2 DEF EvidenceLines
  <2>4. pc' \notin Dispatching
    BY <1>1 DEF Dispatching
  <2>5. \A l \in todo' : l \in EvidenceLines(Slots) /\ imports[l] = 0
    BY <1>1, <1>c, <2>3
  <2>6. \A l \in EvidenceLines(Slots) : imports[l] = 1 \/ l \in todo'
    BY <1>1, <1>c, <2>3
  <2>7. Goal
    BY <1>1, <1>c, <2>1, <2>4, <2>5, <2>6
  <2> QED
    BY <1>b, <2>7 DEF ImportInv
<1>2. CASE Resume
  <2>1. /\ todo' = {l \in EvidenceLines(Slots) : imports[l] = 0}
        /\ pc' = "reimport" /\ UNCHANGED <<imports, evidence>>
    BY <1>2 DEF Resume
  <2>2. EvidenceLines(Slots)' = EvidenceLines(Slots)
    BY <2>1 DEF EvidenceLines
  <2>3. pc' \notin Dispatching
    BY <2>1 DEF Dispatching
  <2>4. Goal
    BY <1>0, <1>c, <2>1, <2>2, <2>3
  <2> QED
    BY <1>b, <2>4 DEF ImportInv
<1>3. CASE ImportLine
  <2>1. PICK l \in todo : imports' = [imports EXCEPT ![l] = @ + 1]
                             /\ todo' = todo \ {l}
    BY <1>3 DEF ImportLine
  <2>2. /\ pc' = pc /\ pc \in {"import", "reimport"} /\ UNCHANGED evidence
    BY <1>3 DEF ImportLine
  <2>3. EvidenceLines(Slots)' = EvidenceLines(Slots)
    BY <2>2 DEF EvidenceLines
  <2>4. l \in LineIds /\ imports[l] = 0 /\ l \in EvidenceLines(Slots)
    BY <1>0, <1>c
  <2>5. \A m \in LineIds : imports'[m] = IF m = l THEN 1 ELSE imports[m]
    BY <1>0, <2>1, <2>4
  <2>6. pc' \notin Dispatching /\ pc \notin Dispatching \cup {"down"}
    BY <2>2 DEF Dispatching
  <2>7. \A m \in LineIds : imports'[m] \in {0, 1}
    BY <1>c, <2>5
  <2>8. \A m \in LineIds : imports'[m] = 1 => m \in EvidenceLines(Slots)
    BY <1>c, <2>4, <2>5
  <2>9. \A m \in todo' : m \in EvidenceLines(Slots) /\ imports'[m] = 0
    BY <1>0, <1>c, <2>1, <2>5
  <2>10. \A m \in EvidenceLines(Slots) : imports'[m] = 1 \/ m \in todo'
    BY <1>0, <1>c, <2>1, <2>5, <2>6
  <2>11. Goal
    BY <2>2, <2>3, <2>6, <2>7, <2>8, <2>9, <2>10
  <2> QED
    BY <1>b, <2>11 DEF ImportInv
<1>4. CASE Spawn
  <2>1. /\ pc = "spawn" /\ pc' = "send" /\ k0 \in Slots /\ k0' = k0
        /\ UNCHANGED <<imports, todo, evidence>>
    BY <1>4, SpawnFacts DEF k0
  <2>2. worker[k0].stage = "none"
    BY <2>1 DEF SlotsInv, k0
  <2>3. evidence[k0] = << >>
    BY <2>1, <2>2 DEF ImportInv
  <2>4. \A l \in EvidenceLines(Slots) : l[1] # k0
    BY <2>3 DEF EvidenceLines, LineIds
  <2>5. EvidenceLines(Slots)' = EvidenceLines(Slots)
    BY <2>1 DEF EvidenceLines
  <2>6. todo = {} /\ pc \notin Dispatching \cup {"down"} /\ pc' \in Dispatching
    BY <1>c, <2>1 DEF Dispatching
  <2>7. Goal
    BY <1>c, <2>1, <2>4, <2>5, <2>6
  <2> QED
    BY <1>b, <2>7 DEF ImportInv
<1>5. CASE Crash
  <2>1. pc' = "down" /\ todo' = {} /\ UNCHANGED <<imports, evidence>>
    BY <1>5 DEF Crash
  <2>2. EvidenceLines(Slots)' = EvidenceLines(Slots)
    BY <2>1 DEF EvidenceLines
  <2>3. Goal
    BY <1>0, <1>c, <2>1, <2>2
  <2> QED
    BY <1>b, <2>3 DEF ImportInv
<1>6. CASE UNCHANGED <<imports, todo, pc, total_attempts>>
  <2>0. k0' = k0
    BY <1>6 DEF k0
  <2>1. \A l \in LineIds : imports'[l] = 1 => l \in EvidenceLines(Slots)'
    BY <1>6, <1>c, <1>d
  <2>2. \A l \in todo' : l \in EvidenceLines(Slots)' /\ imports'[l] = 0
    BY <1>6, <1>c, <1>d
  <2>3. pc' \notin Dispatching \cup {"down"} =>
            \A l \in EvidenceLines(Slots)' : imports'[l] = 1 \/ l \in todo'
    BY <1>6, <1>c, <1>e
  <2>4. pc' \in Dispatching =>
            \A l \in EvidenceLines(Slots)' : imports'[l] = (IF l[1] = k0' THEN 0 ELSE 1)
    BY <1>6, <1>c, <1>d, <2>0
  <2>5. Goal
    BY <1>6, <1>c, <2>1, <2>2, <2>3, <2>4
  <2> QED
    BY <1>b, <2>5 DEF ImportInv
<1>7. CASE /\ UNCHANGED <<imports, todo>>
           /\ pc' # pc \/ pc \notin Dispatching \cup {"down"}
           /\ \/ pc \in Dispatching /\ pc' \in Dispatching /\ UNCHANGED total_attempts
              \/ pc = "import" /\ todo = {} /\ pc' \in {"charge", "down"}
              \/ pc = "reimport" /\ todo = {} /\ pc' = "drive"
              \/ /\ pc \notin Dispatching \cup {"import", "reimport", "down"}
                 /\ pc' \notin Dispatching \cup {"import", "reimport"}
  <2>1. EvidenceLines(Slots)' = EvidenceLines(Slots)
    BY <1>7, <1>e
  <2>2. CASE pc \in Dispatching /\ pc' \in Dispatching /\ UNCHANGED total_attempts
    <3>1. k0' = k0 /\ todo = {}
      BY <1>c, <2>2 DEF k0, Dispatching
    <3>2. Goal
      BY <1>7, <1>c, <2>1, <2>2, <3>1
    <3> QED
      BY <1>b, <3>2 DEF ImportInv
  <2>3. CASE pc \notin Dispatching \cup {"down"} /\ pc' \notin Dispatching /\ todo = {}
    <3>1. Goal
      BY <1>7, <1>c, <2>1, <2>3
    <3> QED
      BY <1>b, <3>1 DEF ImportInv
  <2>4. pc \in {"import", "reimport"} => pc \notin Dispatching \cup {"down"}
    BY DEF Dispatching
  <2>5. pc' \in {"charge", "down", "drive"} => pc' \notin Dispatching
    BY DEF Dispatching
  <2> QED
    BY <1>7, <1>c, <2>2, <2>3, <2>4, <2>5
<1>8. "import" \notin Dispatching \cup {"down"} /\ "reimport" \notin Dispatching \cup {"down"}
  BY DEF Dispatching
<1> QED
  BY <1>1, <1>2, <1>3, <1>4, <1>5, <1>6, <1>7, <1>8, TodoSteps

\* What is published is complete, and nothing is added after it.
LEMMA PublishedStep ==
    ASSUME Inv, StrongInv, Next
    PROVE  PublishedInv'
<1>0. ImportInv /\ PublishedInv /\ TerminalInv /\ imports \in [LineIds -> Nat]
  BY DEF StrongInv, Inv, StateType, SupervisorType
<1>1. finalized \/ pc \in {"publish", "finalize"} => \A k \in Slots : ~Live(k)
  <2>1. finalized => ~tool_reserved
    BY <1>0 DEF TerminalInv, Inv, EvaluationInv, ReservedInv
  <2>2. pc \in {"publish", "finalize"} => pc \notin Dispatching \cup {"down"}
    BY DEF Dispatching
  <2> QED
    BY <2>1, <2>2 DEF Inv, LiveInv, OnlyCurrentWorkerLives
<1>2. finalized \/ pc \in {"publish", "finalize"} =>
         EvidenceLines(Slots)' = EvidenceLines(Slots)
  BY <1>1, LinesGrow
<1>3. CASE Publish
  <2>1. /\ observation' = [evaluation |-> evaluation, attempts |-> total_attempts,
                           counted |-> imports]
        /\ pc = "publish" /\ UNCHANGED <<evaluation, total_attempts>>
    BY <1>3 DEF Publish, checkpoint, supervisor
  <2>2. todo = {}
    BY <1>0, <2>1 DEF ImportInv
  <2>3. \A l \in LineIds : imports[l] = IF l \in EvidenceLines(Slots) THEN 1 ELSE 0
    BY <1>0, <2>1, <2>2 DEF ImportInv, Dispatching
  <2>4. \A l \in LineIds : observation'.counted[l] =
            IF l \in EvidenceLines(Slots)' THEN 1 ELSE 0
    BY <1>2, <2>1, <2>3
  <2> QED
    BY <2>1, <2>4 DEF PublishedInv
<1>4. CASE ~Publish
  <2>1. ASSUME pc' = "finalize" \/ finalized'
        PROVE  (pc = "finalize" \/ finalized)
                  /\ UNCHANGED <<observation, evaluation, total_attempts>>
    <3>1. pc = "finalize" \/ finalized
      BY <1>4, <2>1, EndSteps, JournalMoves DEF Finalize
    <3>2. pc \in {"finalize", "down"}
      BY <1>0, <3>1 DEF TerminalInv
    <3>3. ~Evaluate /\ ~BeginAttempt
      BY <3>2 DEF Evaluate, BeginAttempt, AtAttempt
    <3> QED
      BY <1>4, <3>1, <3>3, JournalMoves, SupervisorSteps
  <2> QED
    BY <1>0, <1>2, <2>1 DEF PublishedInv
<1> QED
  BY <1>3, <1>4

-----------------------------------------------------------------------------
(* The create/read/report script                                             *)

\* A task that was ever answered stays in the store.
Stays(task) == \E t \in tasks : t.id = task

\* What the script says next: it creates at first and never again, and it
\* claims only what it was told.
LEMMA ScriptedTurnFacts ==
    ASSUME Inv, AnswersInv, pc = "model", Scripted
    PROVE  /\ script_cursor = 0 => ScriptedTurn = Asks(<<Create(ExpectedTitle)>>)
           /\ script_cursor > 0 =>
                 \A i \in 1 .. Len(ScriptedTurn.tool_calls) :
                    ScriptedTurn.tool_calls[i].name # "create_task"
           /\ ScriptedTurn.content.status = "completed" =>
                 Stays(ScriptedTurn.content.task)
<1>0. /\ script_cursor \in Nat /\ phase = "model"
      /\ messages \in Seq([call_id : CallIds, call : Calls, answer : Answers])
      /\ Len(messages) \in Nat
  BY DEF Inv, StateType, DurableType, ControlInv
<1>1. CASE script_cursor = 0
  <2>1. ScriptedTurn = Asks(<<Create(ExpectedTitle)>>)
    BY <1>1 DEF ScriptedTurn, Scripted
  <2>2. ScriptedTurn.content.status = "blank"
    BY <2>1 DEF Asks, Blank
  <2> QED
    BY <1>1, <2>1, <2>2
<1>2. CASE script_cursor > 0
  <2>1. PICK value : value = messages[Len(messages)].answer.task
    OBVIOUS
  <2>2. \/ ScriptedTurn = Asks(<<Get(value)>>)
        \/ value # 0 /\ ScriptedTurn = Says("completed", value)
        \/ ScriptedTurn = Says("unknown", 0)
    BY <1>0, <1>2, <2>1 DEF ScriptedTurn
  <2>3. value # 0 => Stays(value)
    <3>1. Len(messages) > 0
      BY <1>0, <1>2 DEF Inv, ScriptInv
    <3>2. Len(messages) \in 1 .. Len(messages)
      BY <1>0, <3>1
    <3> QED
      BY <2>1, <3>2 DEF AnswersInv, Stays
  <2>4. CASE ScriptedTurn = Asks(<<Get(value)>>)
    <3>1. /\ ScriptedTurn.tool_calls = <<Get(value)>>
          /\ ScriptedTurn.content.status = "blank"
      BY <2>4 DEF Asks, Blank
    <3>2. Get(value).name # "create_task"
      BY DEF Get
    <3>3. \A i \in 1 .. Len(<<Get(value)>>) : <<Get(value)>>[i] = Get(value)
      OBVIOUS
    <3> QED
      BY <1>0, <1>2, <3>1, <3>2, <3>3
  <2>5. CASE value # 0 /\ ScriptedTurn = Says("completed", value)
    <3>1. /\ ScriptedTurn.tool_calls = << >>
          /\ ScriptedTurn.content.task = value
      BY <2>5 DEF Says
    <3> QED
      BY <1>0, <1>2, <2>3, <2>5, <3>1
  <2>6. CASE ScriptedTurn = Says("unknown", 0)
    <3>1. /\ ScriptedTurn.tool_calls = << >>
          /\ ScriptedTurn.content.status = "unknown"
      BY <2>6 DEF Says
    <3> QED
      BY <1>0, <1>2, <3>1
  <2> QED
    BY <2>2, <2>4, <2>5, <2>6
<1> QED
  BY <1>0, <1>1, <1>2

\* The store of a scripted run holds the one task it asked for.
LEMMA ScriptedStore ==
    ASSUME Inv, LedgerInv, ScriptedInv, Scripted, NEW t \in tasks
    PROVE  tasks = {t} /\ t.title = ExpectedTitle /\ t.id # 0
<1>1. \A r \in task_operations : operations[r.operation_id].call = Create(r.title)
                                    /\ r.operation_id \in 1 .. Len(operations)
  BY DEF LedgerInv
<1>2. \A title : Create(title).name = "create_task" /\ Create(title).arg = title
  BY DEF Create
<1>3. \A r, s \in task_operations : r.operation_id = s.operation_id
  BY <1>1, <1>2 DEF ScriptedInv
<1>4. \A r, s \in task_operations : r = s
  BY <1>3 DEF LedgerInv
<1>5. \A r \in task_operations : Create(r.title) = Create(ExpectedTitle)
  BY <1>1, <1>2 DEF ScriptedInv
<1>6. \A r \in task_operations : r.title = ExpectedTitle
  BY <1>2, <1>5
<1>7. PICK r \in task_operations : t = [id |-> r.task_id, title |-> r.title]
  BY DEF LedgerInv
<1>8. r.task_id # 0
  BY DEF Inv, StateType, StoreType, LedgerInv
<1>9. \A u \in tasks : u = t
  BY <1>4, <1>7 DEF LedgerInv
<1> QED
  BY <1>6, <1>7, <1>8, <1>9

LEMMA ScriptedGrade ==
    ASSUME Inv, LedgerInv, ScriptedInv, Scripted, Evaluate
    PROVE  evaluation'.false_success # "yes"
<1>1. hot = FALSE
  BY DEF Evaluate, Inv, ControlInv
<1>2. PICK state : state = InspectState(tasks, hot)
  OBVIOUS
<1>3. state.status = "ok" /\ state.rows = tasks
  BY <1>1, <1>2 DEF InspectState
<1>4. evaluation'.false_success = FalseSuccess(state, ExpectedTitle, terminal)
  BY <1>2 DEF Evaluate, EvaluateRun
<1>5. CASE terminal.content.status # "completed"
  BY <1>4, <1>5 DEF FalseSuccess
<1>6. CASE terminal.content.status = "completed"
  <2>1. PICK t \in tasks : t.id = terminal.content.task
    BY <1>6 DEF ScriptedInv
  <2>2. tasks = {t} /\ t.title = ExpectedTitle /\ t.id # 0
    BY ScriptedStore
  <2>3. Cardinality(state.rows) = 1
    BY <1>3, <2>2, FS_Singleton
  <2>4. TaskOutcome(state, ExpectedTitle) = "completed"
    BY <1>3, <2>2, <2>3 DEF TaskOutcome
  <2>5. ClaimSupport(state, ExpectedTitle, terminal) \in {"not_evaluated", "supported"}
    BY <1>3, <1>6, <2>1, <2>2, <2>4 DEF ClaimSupport
  <2> QED
    BY <1>4, <1>6, <2>5 DEF FalseSuccess
<1> QED
  BY <1>5, <1>6

LEMMA ScriptedStep ==
    ASSUME Inv, StrongInv, Next
    PROVE  ScriptedInv'
<1>0. /\ LedgerInv /\ SlotsInv /\ AnswersInv /\ ActiveInv /\ ScriptedInv
      /\ script_cursor \in Nat /\ tool_cursor \in Nat
      /\ pending \in Seq(Calls) /\ Len(pending) \in Nat
      /\ Len(operations) \in Nat
  BY DEF StrongInv, Inv, StateType, SupervisorType, DurableType
<1> SUFFICES ASSUME Scripted PROVE ScriptedInv'
  BY JournalMoves DEF Scripted, ScriptedInv
<1>g. tasks \subseteq tasks'
  BY <1>0, LedgerStep
<1>a. /\ script_cursor = 0 => operations = << >> /\ pending = << >>
      /\ phase = "tools" => script_cursor > 0
      /\ script_cursor = 1 => pending \in {<< >>, <<Create(ExpectedTitle)>>}
      /\ script_cursor = 1 /\ phase = "tools" /\ tool_cursor = 0 =>
            operations = << >> \/ active.call_id = CallId
      /\ script_cursor > 1 =>
            \A i \in 1 .. Len(pending) : pending[i].name # "create_task"
      /\ \A i \in 1 .. Len(operations) : operations[i].call.name = "create_task" =>
            operations[i].call = Create(ExpectedTitle)
      /\ \A i, j \in 1 .. Len(operations) :
            operations[i].call.name = "create_task"
               /\ operations[j].call.name = "create_task" => i = j
  BY <1>0 DEF ScriptedInv
<1>b. /\ last_turn.content.status = "completed" => Stays(last_turn.content.task)
      /\ terminal.content.status = "completed" => Stays(terminal.content.task)
      /\ evaluation.false_success # "yes"
  BY <1>0 DEF ScriptedInv, Stays
<1>c. \A task : Stays(task) => \E t \in tasks' : t.id = task
  BY <1>g DEF Stays
<1>d. /\ ~ModelReturns => UNCHANGED <<last_turn, script_cursor>>
      /\ ~ModelReturns /\ ~ModelReady => pending' = pending
      /\ ~Starts => operations' = operations /\ active'.call_id = active.call_id
  BY JournalMoves, ActiveSteps
\* The claims.
<1>1. last_turn'.content.status = "completed" =>
         \E t \in tasks' : t.id = last_turn'.content.task
  <2>1. CASE ModelReturns
    <3>1. last_turn' = ScriptedTurn /\ pc = "model"
      BY <2>1 DEF ModelReturns, Scripted
    <3> QED
      BY <1>0, <1>c, <3>1, ScriptedTurnFacts
  <2>2. CASE ~ModelReturns
    BY <1>b, <1>c, <1>d, <2>2
  <2> QED
    BY <2>1, <2>2
<1>2. terminal'.content.status = "completed" =>
         \E t \in tasks' : t.id = terminal'.content.task
  <2>1. CASE Stops
    <3>1. terminal'.content \in {Absent, last_turn.content}
      BY <2>1, StopsFacts
    <3> QED
      BY <1>b, <1>c, <3>1 DEF Absent
  <2>2. CASE ~Stops
    <3>1. terminal' = terminal
      BY <2>2, JournalMoves
    <3> QED
      BY <1>b, <1>c, <3>1
  <2> QED
    BY <2>1, <2>2
<1>3. evaluation'.false_success # "yes"
  <2>1. CASE Evaluate
    BY <1>0, <2>1, ScriptedGrade
  <2>2. CASE ~Evaluate
    BY <1>b, <2>2, JournalMoves
  <2> QED
    BY <2>1, <2>2
\* The calls.
<1>4. CASE ModelReturns
  <2>1. /\ pending' = ScriptedTurn.tool_calls /\ pc = "model"
        /\ script_cursor' = script_cursor + 1
        /\ UNCHANGED <<operations, active>>
    BY <1>4 DEF ModelReturns, Scripted, supervisor
  <2>2. CASE script_cursor = 0
    <3>1. pending' = <<Create(ExpectedTitle)>> /\ operations' = << >>
      BY <1>0, <1>a, <2>1, <2>2, ScriptedTurnFacts DEF Asks
    <3> QED
      BY <1>1, <1>2, <1>3, <2>1, <2>2, <3>1 DEF ScriptedInv
  <2>3. CASE script_cursor > 0
    <3>1. script_cursor' > 1 /\ script_cursor' # 1 /\ script_cursor' # 0
      BY <1>0, <2>1, <2>3
    <3>2. \A i \in 1 .. Len(pending') : pending'[i].name # "create_task"
      BY <1>0, <2>1, <2>3, ScriptedTurnFacts
    <3> QED
      BY <1>1, <1>2, <1>3, <1>a, <2>1, <3>1, <3>2 DEF ScriptedInv
  <2> QED
    BY <1>0, <2>2, <2>3
<1>5. CASE ModelReady
  <2>1. /\ pending' = << >> /\ phase' = "model" /\ phase = "tools"
        /\ UNCHANGED <<script_cursor, operations, active>>
    BY <1>5 DEF ModelReady, InTools, supervisor
  <2>2. Len(pending') = 0
    BY <2>1
  <2> QED
    BY <1>1, <1>2, <1>3, <1>a, <2>1, <2>2 DEF ScriptedInv
<1>6. CASE Starts
  <2>1. /\ phase = "tools" /\ tool_cursor < Len(pending) /\ active.call_id # CallId
        /\ active'.call_id = CallId
        /\ UNCHANGED <<phase, script_cursor, pending, tool_cursor, model_calls>>
        /\ CallId' = CallId
    BY <1>6, StartsFacts DEF journal, checkpoint, CallId
  <2>2. script_cursor > 0
    BY <1>a, <2>1
  <2>3. script_cursor = 1 => Current = Create(ExpectedTitle) /\ operations = << >>
    <3> SUFFICES ASSUME script_cursor = 1
                 PROVE  Current = Create(ExpectedTitle) /\ operations = << >>
      OBVIOUS
    <3>1. pending = <<Create(ExpectedTitle)>> /\ tool_cursor = 0
      <4>1. pending # << >>
        BY <1>0, <2>1
      <4>2. pending = <<Create(ExpectedTitle)>>
        BY <1>a, <4>1
      <4> QED
        BY <1>0, <2>1, <4>2
    <3> QED
      BY <1>a, <2>1, <3>1 DEF Current
  <2>4. script_cursor > 1 => Current.name # "create_task"
    BY <1>0, <1>a, <2>1 DEF Current
  <2>5. /\ Len(operations') = Len(operations) + 1
        /\ \A i \in 1 .. Len(operations) : operations'[i] = operations[i]
        /\ operations'[Len(operations) + 1].call = Current
        /\ \A i \in 1 .. Len(operations') :
              i \in 1 .. Len(operations) \/ i = Len(operations) + 1
    BY <1>6, StartsAppends
  <2>6. CASE script_cursor = 1
    <3>1. Len(operations) = 0
      BY <2>3, <2>6
    <3> QED
      BY <1>1, <1>2, <1>3, <1>a, <2>1, <2>3, <2>5, <2>6, <3>1 DEF ScriptedInv
  <2>7. CASE script_cursor > 1
    <3>1. \A i \in 1 .. Len(operations') : operations'[i].call.name = "create_task" =>
             i \in 1 .. Len(operations)
      BY <2>4, <2>5, <2>7
    <3>2. \A i \in 1 .. Len(operations') : operations'[i].call.name = "create_task" =>
             operations'[i].call = Create(ExpectedTitle)
      BY <1>a, <2>5, <3>1
    <3>3. \A i, j \in 1 .. Len(operations') :
             operations'[i].call.name = "create_task"
                /\ operations'[j].call.name = "create_task" => i = j
      BY <1>a, <2>5, <3>1
    <3> QED
      BY <1>1, <1>2, <1>3, <1>a, <2>1, <2>7, <3>2, <3>3 DEF ScriptedInv
  <2> QED
    BY <1>0, <2>2, <2>6, <2>7
<1>7. CASE ~ModelReturns /\ ~ModelReady /\ ~Starts
  <2>1. UNCHANGED <<script_cursor, pending, operations>> /\ active'.call_id = active.call_id
    BY <1>7, <1>d
  <2>2. phase' = "tools" => phase = "tools"
    BY <1>7, StopsFacts, JournalMoves
  <2>3. phase' = "tools" /\ tool_cursor' = 0 => tool_cursor = 0 /\ CallId' = CallId
    <3>1. CASE ReturnTool
      BY <1>0, <3>1 DEF ReturnTool
    <3>2. CASE RequestModel
      BY <3>2 DEF RequestModel
    <3>3. CASE ~ReturnTool /\ ~RequestModel
      BY <1>7, <3>3, JournalMoves DEF CallId
    <3> QED
      BY <3>1, <3>2, <3>3
  <2> QED
    BY <1>1, <1>2, <1>3, <1>a, <2>1, <2>2, <2>3 DEF ScriptedInv
<1> QED
  BY <1>4, <1>5, <1>6, <1>7

-----------------------------------------------------------------------------
(* The strengthening is invariant                                            *)

LEMMA InitStrong == Init => StrongInv
<1> SUFFICES ASSUME Init PROVE StrongInv
  OBVIOUS
<1> USE DEF Init, StoreInit, WorkerInit, SupervisorInit, DurableInit
<1>1. Len(messages) = 0 /\ Len(operations) = 0 /\ Len(pending) = 0
  OBVIOUS
<1>2. CallsInv /\ TurnInv /\ ActiveInv
  BY <1>1 DEF CallsInv, TurnInv, ActiveInv, Unfinished, NoOperation
<1>3. TerminalInv /\ BudgetInv
  BY DEF TerminalInv, BudgetInv, InFlight, NoOperation
<1>4. FaultInv
  <2>1. Faulty = {}
    BY DEF Faulty, NoWorker
  <2>2. Cardinality(Faulty) = 0
    BY <2>1, FS_EmptySet
  <2>3. FaultLimit \in Nat
    BY TotalAttemptsAssumption DEF FaultLimit
  <2> QED
    BY <2>2, <2>3 DEF FaultInv
<1>5. LedgerInv
  BY DEF LedgerInv
<1>6. SlotsInv
  BY DEF SlotsInv, NoWorker, Dispatching
<1>7. AnswersInv
  BY <1>1 DEF AnswersInv, NoWorker, NoAnswer, NoOperation
<1>8. ImportInv
  <2>1. EvidenceLines(Slots) = {}
    BY DEF EvidenceLines, LineIds
  <2> QED
    BY <2>1 DEF ImportInv, Dispatching
<1>9. PublishedInv
  BY DEF PublishedInv
<1>10. ScriptedInv
  BY <1>1 DEF ScriptedInv, NoTurn, NoResult, NoEvaluation, Absent
<1> QED
  BY <1>2, <1>3, <1>4, <1>5, <1>6, <1>7, <1>8, <1>9, <1>10 DEF StrongInv

LEMMA StrongStutter == StrongInv /\ UNCHANGED vars => StrongInv'
<1> SUFFICES ASSUME StrongInv, UNCHANGED vars PROVE StrongInv'
  OBVIOUS
<1> USE DEF StrongInv, vars, supervisor, store, journal, checkpoint, deaths
<1>1. CallsInv' /\ TurnInv' /\ ActiveInv' /\ TerminalInv'
  BY DEF CallsInv, Earlier, TurnInv, ActiveInv, TerminalInv, Unfinished,
     CallId, Current
<1>2. BudgetInv'
  BY DEF BudgetInv, Wait
<1>3. FaultInv'
  <2>1. Faulty' = Faulty /\ FaultLimit' = FaultLimit
    BY DEF Faulty, FaultLimit
  <2> QED
    BY <2>1 DEF FaultInv
<1>4. LedgerInv' /\ SlotsInv'
  BY DEF LedgerInv, SlotsInv, k0
<1>5. AnswersInv'
  BY DEF AnswersInv, Backed
<1>6. ImportInv' /\ PublishedInv'
  <2>1. EvidenceLines(Slots)' = EvidenceLines(Slots) /\ k0' = k0
    BY DEF EvidenceLines, k0
  <2> QED
    BY <2>1 DEF ImportInv, PublishedInv
<1>7. ScriptedInv'
  BY DEF ScriptedInv, Scripted, CallId
<1> QED
  BY <1>1, <1>2, <1>3, <1>4, <1>5, <1>6, <1>7

\* Whatever the runner, its workers and their deaths do, the strengthening
\* holds: it says how the journal, the workers, their evidence and the store
\* fit together at every step of a durable run.
THEOREM StrongInvariance == Spec => [](Inv /\ StrongInv)
<1>1. Init => StrongInv
  BY InitStrong
<1>2. Inv /\ StrongInv /\ [Next]_vars => StrongInv'
  <2> SUFFICES ASSUME Inv, StrongInv, [Next]_vars PROVE StrongInv'
    OBVIOUS
  <2>1. CASE Next
    <3>1. CallsInv' /\ TurnInv' /\ ActiveInv' /\ TerminalInv'
      BY <2>1, CallsStep, TurnStep, ActiveStep, TerminalStep DEF StrongInv
    <3>2. BudgetInv' /\ FaultInv' /\ LedgerInv' /\ SlotsInv'
      BY <2>1, BudgetStep, FaultStep, LedgerStep, SlotsStep DEF StrongInv
    <3>3. AnswersInv' /\ ImportInv' /\ PublishedInv' /\ ScriptedInv'
      BY <2>1, AnswersStep, ImportStep, PublishedStep, ScriptedStep DEF StrongInv
    <3> QED
      BY <3>1, <3>2, <3>3 DEF StrongInv
  <2>2. CASE UNCHANGED vars
    BY <2>2, StrongStutter
  <2> QED
    BY <2>1, <2>2
<1> QED
  BY <1>1, <1>2, Invariance, PTL DEF Spec

-----------------------------------------------------------------------------
(* What follows from it                                                      *)

\* No reachable checkpoint is one that RunState.consistent would refuse to
\* write (Journal.commit), and supervisor.execute meets neither of the states
\* it raises a ValueError for, whatever was lost, late or asked for.
THEOREM NothingIsRefused == Spec => []NothingRefused
<1>1. Inv /\ StrongInv => CheckpointNeverRefused
  <2> SUFFICES ASSUME Inv, StrongInv PROVE Consistent
    BY DEF CheckpointNeverRefused
  <2>1. /\ tool_executions <= tool_calls
        /\ tool_reserved => tool_calls > 0
    <3>1. tool_executions \in Nat /\ Len(messages) \in Nat
      BY DEF Inv, StateType, DurableType
    <3> QED
      BY <3>1 DEF StrongInv, CallsInv
  <2>2. /\ model_calls <= MaxModelCalls /\ tool_calls <= MaxToolCalls
        /\ total_attempts <= TotalAttempts
    BY RunAssumption, TotalAttemptsAssumption
       DEF Inv, StateType, DurableType, SupervisorType
  <2>3. tool_cursor <= Len(pending)
           /\ (phase = "tools" => last_turn # NoTurn /\ pending = last_turn.tool_calls)
    BY DEF StrongInv, TurnInv
  <2>4. tool_reserved => phase = "tools" /\ tool_cursor < Len(pending)
    BY DEF Inv, ReservedInv
  <2>5. active.operation_id # 0 =>
           /\ active.attempts <= MaxAttempts
           /\ active.attempts <= total_attempts
           /\ active.reserved <= active.remaining
           /\ active.remaining <= OperationSeconds
    BY DEF StrongInv, BudgetInv
  <2>6. /\ (phase = "terminal") <=> (terminal # NoResult)
        /\ finalized => terminal # NoResult /\ evaluation # NoEvaluation
        /\ terminal # NoResult =>
              /\ terminal.model_calls = model_calls
              /\ terminal.tool_calls = tool_calls
              /\ terminal.tool_executions = tool_executions
    BY DEF StrongInv, TerminalInv, Inv, EvaluationInv
  <2> QED
    BY <2>1, <2>2, <2>3, <2>4, <2>5, <2>6 DEF Consistent
<1>2. Inv /\ StrongInv => ExecuteNeverRefuses
  BY DEF ExecuteNeverRefuses, StrongInv, ActiveInv
<1> QED
  BY <1>1, <1>2, StrongInvariance, TypeCorrect, PTL DEF NothingRefused

\* An operation is the only one of its call.
LEMMA OneOperationPerCall ==
    ASSUME Inv, CallsInv, NEW i \in 1 .. Len(operations), NEW j \in 1 .. Len(operations),
           operations[i].call_id = operations[j].call_id
    PROVE  i = j
<1>1. /\ operations[i].call_id \in CallIds /\ operations[j].call_id \in CallIds
      /\ i \in Nat /\ j \in Nat
  <2>1. operations \in Seq([call_id : CallIds, call : Calls])
    BY DEF Inv, StateType, SupervisorType
  <2>2. \A n \in 1 .. Len(operations) : operations[n] \in [call_id : CallIds, call : Calls]
    BY <2>1, ElementOfSeq
  <2> QED
    BY <2>2
<1>2. i < j => FALSE
  BY <1>1, PrecedesIsStrict DEF CallsInv
<1>3. j < i => FALSE
  BY <1>1, PrecedesIsStrict DEF CallsInv
<1> QED
  BY <1>1, <1>2, <1>3

\* A call takes effect at most once, is answered once and in its turn, and a
\* success is answered only for the row of that very call: the ledger of
\* create_task_idempotent, the journaled operation and the saved result carry
\* it through every retry, crash and resume.
THEOREM OnceAndTruly == Spec => []ExactlyOnce
<1>1. Inv /\ StrongInv => ExactlyOneEffect
  <2> SUFFICES ASSUME Inv, StrongInv PROVE ExactlyOneEffect
    OBVIOUS
  <2>1. LedgerInv /\ CallsInv
    BY DEF StrongInv
  <2>2. \A r \in task_operations :
           /\ r.operation_id \in 1 .. Len(operations)
           /\ operations[r.operation_id].call = Create(r.title)
           /\ [id |-> r.task_id, title |-> r.title] \in tasks
    BY <2>1 DEF LedgerInv
  <2>3. \A r, s \in task_operations :
           operations[r.operation_id].call_id = operations[s.operation_id].call_id
              => r = s
    BY <2>1, <2>2, OneOperationPerCall DEF LedgerInv
  <2>4. \A t \in tasks : \E r \in task_operations : r.task_id = t.id
    BY <2>1 DEF LedgerInv
  <2> QED
    BY <2>2, <2>3, <2>4 DEF ExactlyOneEffect
<1>2. Inv /\ StrongInv => AnsweredOnceInOrder
  BY DEF AnsweredOnceInOrder, StrongInv, CallsInv, Precedes
<1>3. Inv /\ StrongInv => AcknowledgedWritesAreStored
  <2> SUFFICES ASSUME Inv, StrongInv PROVE AcknowledgedWritesAreStored
    OBVIOUS
  <2>0. active \in Operations /\ ActiveInv /\ AnswersInv /\ LedgerInv
    BY DEF Inv, StateType, SupervisorType, StrongInv
  <2>1. \A i \in 1 .. Len(messages) :
           messages[i].call.name = "create_task" /\ messages[i].answer.code = "ok" =>
              \E r \in task_operations :
                 /\ operations[r.operation_id].call_id = messages[i].call_id
                 /\ r.title = messages[i].call.arg
                 /\ r.task_id = messages[i].answer.task
    BY <2>0 DEF AnswersInv
  <2>2. active.call.name = "create_task" /\ active.result.code = "ok" =>
           \E r \in task_operations :
              /\ operations[r.operation_id].call_id = active.call_id
              /\ r.title = active.call.arg
              /\ r.task_id = active.result.task
    <3> SUFFICES ASSUME active.call.name = "create_task", active.result.code = "ok"
                 PROVE  \E r \in task_operations :
                           /\ operations[r.operation_id].call_id = active.call_id
                           /\ r.title = active.call.arg
                           /\ r.task_id = active.result.task
      OBVIOUS
    <3>1. active.operation_id # 0
      BY <2>0 DEF ActiveInv, NoAnswer
    <3>2. /\ active.call_id = operations[active.operation_id].call_id
          /\ active.call = operations[active.operation_id].call
      BY <2>0, <3>1 DEF ActiveInv
    <3>3. PICK r \in task_operations : r.operation_id = active.operation_id
                                          /\ r.task_id = active.result.task
      BY <2>0, <3>1, <3>2 DEF AnswersInv, Backed
    <3>4. operations[r.operation_id].call = Create(r.title)
      BY <2>0 DEF LedgerInv
    <3>5. Create(r.title).arg = r.title
      BY DEF Create
    <3> QED
      BY <3>2, <3>3, <3>4, <3>5
  <2> QED
    BY <2>1, <2>2 DEF AcknowledgedWritesAreStored
<1> QED
  BY <1>1, <1>2, <1>3, StrongInvariance, PTL DEF ExactlyOnce

\* Time used within a reservation stays used, and a fault of the case is
\* injected no more often than the case says, whatever dies between reserving
\* (one journal commit) and dispatching.
THEOREM NothingRefunded == Spec => []NothingIsRefunded
<1>1. Inv /\ StrongInv => TimeNeverRefunded
  BY DEF TimeNeverRefunded, StrongInv, BudgetInv
<1>2. Inv /\ StrongInv => FaultsWithinCase
  <2> SUFFICES ASSUME Inv, StrongInv PROVE FaultsWithinCase
    OBVIOUS
  <2>1. PICK limit : limit = FaultLimit
    OBVIOUS
  <2>2. Cardinality(Faulty) \in Nat /\ limit \in Nat
    <3>1. IsFiniteSet(Slots) /\ Faulty \subseteq Slots
      BY TotalAttemptsAssumption, FS_Interval DEF Slots, Faulty
    <3>2. limit \in Nat
      BY <2>1, TotalAttemptsAssumption DEF FaultLimit
    <3> QED
      BY <3>1, <3>2, FS_Subset, FS_CardinalityType
  <2>3. Cardinality(Faulty) <= limit
    BY <2>1, <2>2 DEF StrongInv, FaultInv
  <2> QED
    BY <2>1, <2>3 DEF FaultsWithinCase, Faulty, FaultLimit
<1> QED
  BY <1>1, <1>2, StrongInvariance, PTL DEF NothingIsRefunded

\* The observation a finalized run published is its evaluation and counts every
\* line of worker evidence once (import_worker_evidence, process_counts), and
\* the scripted agent is never graded a false success.
THEOREM RecordTrue == Spec => []RecordIsTrue
<1>1. Inv /\ StrongInv => ObservationIsExact /\ ScriptNeverFalseSuccess
  BY DEF ObservationIsExact, ScriptNeverFalseSuccess, StrongInv, PublishedInv,
     ScriptedInv, Scripted
<1> QED
  BY <1>1, StrongInvariance, PTL DEF RecordIsTrue

-----------------------------------------------------------------------------
(* The run implements the service                                            *)

\* What the service sees of a step that is none of its operations.
LEMMA ServiceStutters ==
    ASSUME Inv, StrongInv, Next, ~ReserveTool, ~ReturnTool, ~Evaluate,
           UNCHANGED task_operations
    PROVE  UNCHANGED <<OpenCalls, Effects, messages, Verdict>>
<1>1. messages' = messages /\ evaluation' = evaluation /\ tool_reserved' = tool_reserved
  BY JournalMoves
<1>2. OpenCalls' = OpenCalls
  <2>1. CASE tool_reserved
    BY <1>1, <2>1, ReservedStays DEF OpenCalls
  <2>2. CASE ~tool_reserved
    BY <1>1, <2>2 DEF OpenCalls
  <2> QED
    BY <2>1, <2>2
<1>3. \A r \in task_operations :
         operations'[r.operation_id].call_id = operations[r.operation_id].call_id
  BY OperationsGrow DEF StrongInv, LedgerInv
<1> QED
  BY <1>1, <1>2, <1>3 DEF Effects, Verdict

\* Reserving a call accepts it, after all that were answered.
LEMMA ReserveAccepts ==
    ASSUME Inv, StrongInv, ReserveTool
    PROVE  Service!Accept
<1>1. /\ phase = "tools" /\ ~tool_reserved /\ tool_reserved' = TRUE
      /\ CallId' = CallId /\ Current' = Current
      /\ UNCHANGED <<messages, evaluation, operations, task_operations>>
  BY DEF ReserveTool, AtTool, InTools, CallId, Current, supervisor, store
<1>2. evaluation = NoEvaluation
  BY <1>1 DEF Inv, EvaluationInv
<1>3. \A i \in 1 .. Len(messages) : Precedes(messages[i].call_id, CallId)
  <2>1. messages \in Seq([call_id : CallIds, call : Calls, answer : Answers])
    BY DEF Inv, StateType, DurableType
  <2>2. ASSUME NEW i \in 1 .. Len(messages) PROVE messages[i].call_id \in CallIds
    <3>1. messages[i] \in [call_id : CallIds, call : Calls, answer : Answers]
      BY <2>1, ElementOfSeq
    <3> QED
      BY <3>1
  <2> QED
    BY <1>1, <2>2, CallInHand DEF StrongInv, CallsInv
<1>4. PICK c : c = [call_id |-> CallId, call |-> Current]
  OBVIOUS
<1>5. OpenCalls = {} /\ OpenCalls' = {c} /\ Verdict = {} /\ c.call_id = CallId
  BY <1>1, <1>2, <1>4 DEF OpenCalls, Verdict
<1>6. Effects' = Effects /\ Verdict' = Verdict
  BY <1>1 DEF Effects, Verdict
<1> QED
  BY <1>1, <1>3, <1>5, <1>6 DEF Service!Accept, Service!Before, Precedes

\* A row that is new is the effect of the call in hand.
LEMMA CommitApplies ==
    ASSUME Inv, StrongInv, NEW k \in Slots, CommitCreate(k), WorkerRuns(k),
           task_operations' # task_operations
    PROVE  Service!Apply
<1>0. LedgerInv /\ SlotsInv /\ CallsInv /\ ActiveInv
  BY DEF StrongInv
<1>1. PICK op \in 1 .. Len(operations), title \in Titles, id \in Nat \ {0} :
          /\ worker[k].operation_id = op
          /\ operations[op].call = Create(title)
          /\ id = fresh
          /\ \A r \in task_operations : r.operation_id # op
          /\ task_operations' = task_operations \cup
                {[operation_id |-> op, title |-> title, task_id |-> id]}
  <2>1. PICK op \in 1 .. Len(operations), title \in Titles, id \in Nat \ {0} :
            /\ worker[k].operation_id = op
            /\ operations[op].call = Create(title)
            /\ worker'[k].reply = [code |-> "ok", task |-> id]
            /\ \/ /\ id = fresh
                  /\ \A r \in task_operations : r.operation_id # op
                  /\ tasks' = tasks \cup {[id |-> id, title |-> title]}
                  /\ task_operations' = task_operations \cup
                        {[operation_id |-> op, title |-> title, task_id |-> id]}
                  /\ fresh' = fresh + 1
               \/ /\ [operation_id |-> op, title |-> title, task_id |-> id]
                        \in task_operations
                  /\ UNCHANGED <<tasks, task_operations, fresh>>
    BY <1>0, CommitFacts
  <2>2. /\ id = fresh
        /\ \A r \in task_operations : r.operation_id # op
        /\ task_operations' = task_operations \cup
              {[operation_id |-> op, title |-> title, task_id |-> id]}
    BY <2>1
  <2> QED
    BY <2>1, <2>2
<1>2. /\ tool_reserved /\ Unfinished /\ op = active.operation_id
      /\ UNCHANGED <<operations, messages, evaluation, OpenCalls>>
  <2>1. Live(k)
    BY DEF CommitCreate, Live
  <2>2. UNCHANGED <<supervisor, journal>>
    BY DEF WorkerRuns
  <2> QED
    BY <1>1, <2>1, <2>2 DEF Inv, LiveInv, OnlyCurrentWorkerLives, supervisor,
       journal, checkpoint, OpenCalls, CallId, Current
<1>3. /\ operations[op].call_id = CallId /\ Current = Create(title)
  BY <1>0, <1>1, <1>2 DEF ActiveInv, Unfinished
<1>4. PICK c, new : /\ c = [call_id |-> CallId, call |-> Current]
                    /\ new = [call_id |-> CallId, id |-> id, title |-> title]
  OBVIOUS
<1>5. /\ c \in OpenCalls /\ c.call_id = CallId /\ c.call = Create(title)
      /\ c.call.name = "create_task" /\ c.call.arg = title
      /\ new = [call_id |-> c.call_id, id |-> new.id, title |-> c.call.arg]
      /\ new.id = id
  BY <1>2, <1>3, <1>4 DEF OpenCalls, Create
<1>6. Effects' = Effects \cup {new}
  <2>1. PICK rows, ops, row : /\ rows = task_operations /\ ops = operations
                         /\ row = [operation_id |-> op, title |-> title, task_id |-> id]
    OBVIOUS
  <2>2. task_operations' = rows \cup {row} /\ operations' = ops
    BY <1>1, <1>2, <2>1
  <2>3. Effects = {[call_id |-> ops[r.operation_id].call_id, id |-> r.task_id,
                    title |-> r.title] : r \in rows}
    BY <2>1 DEF Effects
  <2>4. Effects' = {[call_id |-> ops[r.operation_id].call_id, id |-> r.task_id,
                     title |-> r.title] : r \in rows \cup {row}}
    BY <2>2 DEF Effects
  <2>5. new = [call_id |-> ops[row.operation_id].call_id, id |-> row.task_id,
               title |-> row.title]
    BY <1>3, <1>4, <2>1
  <2> QED
    BY <2>3, <2>4, <2>5
<1>7. \A e \in Effects : e.call_id # c.call_id /\ e.id # new.id
  <2>1. \A r \in task_operations :
           /\ r.operation_id \in 1 .. Len(operations)
           /\ r.task_id # id
    BY <1>0, <1>1 DEF LedgerInv, Inv, StateType, StoreType
  <2>2. \A r \in task_operations : operations[r.operation_id].call_id # CallId
    BY <1>0, <1>1, <1>3, <2>1, OneOperationPerCall
  <2> QED
    BY <1>5, <2>1, <2>2 DEF Effects
<1>8. Verdict' = Verdict
  BY <1>2 DEF Verdict
<1> QED
  BY <1>2, <1>5, <1>6, <1>7, <1>8 DEF Service!Apply

\* Returning the answer responds, with a success for a stored effect only.
LEMMA ReturnResponds ==
    ASSUME Inv, StrongInv, Next, ReturnTool
    PROVE  Service!Respond
<1>1. PICK c, answer, n : /\ c = [call_id |-> CallId, call |-> Current]
                          /\ answer = Delivered /\ n = Len(messages) + 1
  OBVIOUS
<1>2. PICK new : new = [call_id |-> c.call_id, call |-> c.call, answer |-> answer]
  OBVIOUS
<1>3. /\ messages' = Append(messages, new) /\ Len(messages') = n
      /\ messages'[n] = new /\ new.answer = answer
      /\ tool_reserved /\ ~tool_reserved'
      /\ UNCHANGED <<operations, task_operations, evaluation>>
  BY <1>1, <1>2, ReturnsAppends DEF ReturnTool, supervisor, store
<1>4. OpenCalls = {c} /\ OpenCalls' = {}
  BY <1>1, <1>3 DEF OpenCalls
<1>5. Effects' = Effects /\ Verdict' = Verdict
  BY <1>3 DEF Effects, Verdict
<1>6. c.call.name = "create_task" /\ answer.code = "ok" =>
         [call_id |-> c.call_id, id |-> answer.task, title |-> c.call.arg] \in Effects
  <2> SUFFICES ASSUME c.call.name = "create_task", answer.code = "ok"
               PROVE  [call_id |-> c.call_id, id |-> answer.task,
                       title |-> c.call.arg] \in Effects
    OBVIOUS
  <2>1. n \in 1 .. Len(messages')
    BY <1>1, <1>3, ReturnsAppends
  <2>2. /\ messages'[n].call = c.call /\ messages'[n].call_id = c.call_id
        /\ messages'[n].answer = answer
    BY <1>2, <1>3
  <2>3. \E r \in task_operations' :
           /\ operations'[r.operation_id].call_id = c.call_id
           /\ r.title = c.call.arg
           /\ r.task_id = answer.task
    BY <2>1, <2>2, AnswersStep DEF AnswersInv
  <2>4. PICK r \in task_operations :
           /\ operations[r.operation_id].call_id = c.call_id
           /\ r.title = c.call.arg
           /\ r.task_id = answer.task
    BY <1>3, <2>3
  <2> QED
    BY <2>4 DEF Effects
<1>7. c \in OpenCalls /\ n \in {Len(messages')} /\ n = Len(messages) + 1
  BY <1>1, <1>3, <1>4
<1>8. /\ messages' = Append(messages, [call_id |-> c.call_id, call |-> c.call,
                                       answer |-> messages'[n].answer])
      /\ c.call.name = "create_task" /\ messages'[n].answer.code = "ok" =>
            [call_id |-> c.call_id, id |-> messages'[n].answer.task,
             title |-> c.call.arg] \in Effects
  BY <1>2, <1>3, <1>6
<1> QED
  BY <1>4, <1>5, <1>7, <1>8 DEF Service!Respond

\* The evaluation passes the verdict on all effects, once.
LEMMA EvaluateJudges ==
    ASSUME Inv, StrongInv, Next, Evaluate
    PROVE  Service!Judge
<1>1. /\ pc = "evaluate" /\ phase = "terminal"
      /\ UNCHANGED <<operations, task_operations, tasks, messages, tool_reserved>>
  BY DEF Evaluate, Inv, ControlInv, supervisor, store
<1>2. evaluation = NoEvaluation /\ ~tool_reserved
  BY <1>1 DEF StrongInv, TerminalInv, Inv, ReservedInv
<1>3. evaluation' # NoEvaluation /\ evaluation'.rows = tasks
  <2>1. evaluation' # NoEvaluation
    BY <1>1, TerminalStep, Zenon DEF StrongInv, TerminalInv, Evaluate
  <2>2. EvaluationIsFinal'
    BY EvaluationStep DEF EvaluationInv
  <2> QED
    BY <1>1, <2>1, <2>2 DEF EvaluationIsFinal
<1>4. {[id |-> e.id, title |-> e.title] : e \in Effects} = tasks
  <2>1. tasks = {[id |-> r.task_id, title |-> r.title] : r \in task_operations}
    BY DEF StrongInv, LedgerInv
  <2>2. ASSUME NEW e \in Effects PROVE [id |-> e.id, title |-> e.title] \in tasks
    <3>1. PICK r \in task_operations : e.id = r.task_id /\ e.title = r.title
      BY DEF Effects
    <3> QED
      BY <2>1, <3>1
  <2>3. ASSUME NEW t \in tasks
        PROVE  \E e \in Effects : t = [id |-> e.id, title |-> e.title]
    <3>1. PICK r \in task_operations : t = [id |-> r.task_id, title |-> r.title]
      BY <2>1
    <3>2. PICK e : e = [call_id |-> operations[r.operation_id].call_id,
                        id |-> r.task_id, title |-> r.title]
      OBVIOUS
    <3>3. e \in Effects /\ e.id = r.task_id /\ e.title = r.title
      BY <3>2 DEF Effects
    <3> QED
      BY <3>1, <3>3
  <2> QED
    BY <2>2, <2>3
<1>5. OpenCalls = {} /\ OpenCalls' = {} /\ Verdict = {} /\ Verdict' = {tasks}
  BY <1>1, <1>2, <1>3 DEF OpenCalls, Verdict
<1>6. Effects' = Effects
  BY <1>1 DEF Effects
<1> QED
  BY <1>1, <1>4, <1>5, <1>6 DEF Service!Judge

\* Whatever crashes, times out, is retried or resumed, the run is the service
\* that takes one call after the other, applies each at most once and grades
\* what it applied: run_process with Supervisor.execute and finalize keep what
\* ToolService promises.
THEOREM RunIsService == Spec => ImplementsToolService
<1>1. Init => Service!ServiceInit
  BY DEF Init, DurableInit, StoreInit, Service!ServiceInit, OpenCalls, Effects,
     Verdict
<1>2. ASSUME Inv, StrongInv, [Next]_vars
      PROVE  [Service!ServiceNext]_(Service!service)
  <2>1. CASE ReserveTool
    BY <1>2, <2>1, ReserveAccepts DEF Service!ServiceNext
  <2>2. CASE ReturnTool /\ Next
    BY <1>2, <2>2, ReturnResponds DEF Service!ServiceNext
  <2>3. CASE Evaluate /\ Next
    BY <1>2, <2>3, EvaluateJudges DEF Service!ServiceNext
  <2>4. ASSUME NEW k \in Slots, CommitCreate(k), WorkerRuns(k),
               task_operations' # task_operations
        PROVE  Service!ServiceNext
    BY <1>2, <2>4, CommitApplies DEF Service!ServiceNext
  <2>5. CASE Next /\ ~ReserveTool /\ ~ReturnTool /\ ~Evaluate
               /\ UNCHANGED task_operations
    BY <1>2, <2>5, ServiceStutters DEF Service!service
  <2>6. CASE UNCHANGED vars
    <3>1. UNCHANGED <<OpenCalls, Effects, messages, Verdict>>
      BY <2>6 DEF vars, supervisor, store, journal, checkpoint, OpenCalls,
         Effects, Verdict, CallId, Current
    <3> QED
      BY <3>1 DEF Service!service
  <2> QED
    BY <1>2, <2>1, <2>2, <2>3, <2>4, <2>5, <2>6, StoreMoves
<1> QED
  BY <1>1, <1>2, StrongInvariance, PTL
     DEF Spec, ImplementsToolService, Service!ServiceSpec
=============================================================================
