------------------------- MODULE BoundaryRun_proofs -------------------------
(***************************************************************************)
(* Proofs about BoundaryRun, for every value of the constants: any         *)
(* configurations, limits, responses of a live model and number of deaths. *)
(***************************************************************************)
EXTENDS BoundaryRun, FiniteSetTheorems, TLAPS

\* The rows of the store are what they should be.
StoreInv ==
    /\ authority \in Authority
    /\ fresh \in Nat
    /\ now \in Nat
    /\ \A op \in DOMAIN proposals : proposals[op] \in Proposal
    /\ DOMAIN effects \subseteq DOMAIN proposals

\* Under enforcement every new task has a row the grading finds valid.
RowsInv ==
    Enforced => \A t \in tasks \ Seeded : ValidRow(t, proposals, effects)

\* The controller works on an operation that was proposed, and calls are
\* requests a model can make.
CallsInv ==
    /\ pending \in Seq(Requests)
    /\ cursor \in Nat
    /\ pc \in {"configure", "sleep"} => operation_id \in DOMAIN proposals

Inv == StoreInv /\ RowsInv /\ CallsInv

\* The step DecisionsAreFinal allows.
FinalStep ==
    /\ \A op \in DOMAIN proposals :
          /\ op \in DOMAIN proposals'
          /\ proposals'[op].title = proposals[op].title
          /\ ~Pending(op) =>
                \/ proposals'[op] = proposals[op]
                \/ /\ proposals[op].consumed_task_id = 0
                   /\ proposals'[op] = [proposals[op] EXCEPT
                          !.consumed_task_id = proposals'[op].consumed_task_id]
    /\ \A op \in DOMAIN effects :
          op \in DOMAIN effects' /\ effects'[op] = effects[op]

\* What a transaction of the store must keep.
Kept == StoreInv' /\ RowsInv' /\ FinalStep

-----------------------------------------------------------------------------
(* The transactions of the store *)

LEMMA IdleKeeps ==
    ASSUME StoreInv, RowsInv, UNCHANGED config, UNCHANGED permissions, now' \in Nat
    PROVE  Kept
  BY DEF Kept, StoreInv, RowsInv, FinalStep, permissions, Enforced, Seeded,
         Injected, ValidRow, Pending

LEMMA ProposeKeeps ==
    ASSUME StoreInv, RowsInv, UNCHANGED <<config, now>>,
           NEW op, NEW title \in Titles, Propose(op, title)
    PROVE  Kept /\ DOMAIN proposals' = DOMAIN proposals \cup {op}
<1>1. CASE op \in DOMAIN proposals
  <2>1. UNCHANGED permissions /\ now' \in Nat
    BY <1>1 DEF Propose, permissions, StoreInv
  <2> QED
    BY <1>1, <2>1, IdleKeeps DEF permissions
<1>2. CASE op \notin DOMAIN proposals
  <2> DEFINE row == [title |-> title,
                     request_revision |-> authority.request_revision,
                     policy_revision |-> authority.policy_revision,
                     decision |-> "pending", granted_at |-> 0,
                     expires_at |-> 0, consumed_task_id |-> 0]
  <2>1. row \in Proposal
    BY DEF StoreInv, Authority, Proposal
  <2>2. /\ proposals' = With(proposals, op, row)
        /\ UNCHANGED <<authority, tasks, effects, fresh>>
    BY <1>2 DEF Propose
  <2> HIDE DEF row
  <2>3. /\ DOMAIN proposals' = DOMAIN proposals \cup {op}
        /\ proposals'[op] = row
        /\ \A o \in DOMAIN proposals : proposals'[o] = proposals[o]
    BY <1>2, <2>2 DEF With
  <2>4. StoreInv'
    BY <2>1, <2>2, <2>3 DEF StoreInv
  <2>5. RowsInv'
    BY <2>2, <2>3 DEF RowsInv, StoreInv, Enforced, Seeded, Injected, ValidRow
  <2>6. FinalStep
    BY <2>2, <2>3 DEF FinalStep
  <2> QED
    BY <2>3, <2>4, <2>5, <2>6 DEF Kept
<1> QED
  BY <1>1, <1>2

LEMMA ChangeRevisionKeeps ==
    ASSUME StoreInv, RowsInv, UNCHANGED <<config, now>>, ChangeRevision
    PROVE  Kept
<1>1. authority' \in Authority
  BY DEF StoreInv, Authority, ChangeRevision
<1> QED
  BY <1>1 DEF Kept, StoreInv, RowsInv, FinalStep, ChangeRevision, Enforced,
              Seeded, Injected, ValidRow

\* A proposal that is still pending may be changed: no row was valid for it.
LEMMA PendingChangeKeeps ==
    ASSUME StoreInv, RowsInv, UNCHANGED <<config, now, authority, tasks, effects, fresh>>,
           NEW op, op \in DOMAIN proposals => Pending(op),
           DOMAIN proposals' = DOMAIN proposals,
           \A o \in DOMAIN proposals : o # op => proposals'[o] = proposals[o],
           op \in DOMAIN proposals =>
               /\ proposals'[op] \in Proposal
               /\ proposals'[op].title = proposals[op].title
    PROVE  Kept
<1>1. StoreInv'
  BY DEF StoreInv
<1>2. RowsInv'
  BY DEF RowsInv, StoreInv, Enforced, Seeded, Injected, ValidRow, Pending
<1>3. FinalStep
  BY DEF FinalStep
<1> QED
  BY <1>1, <1>2, <1>3 DEF Kept

LEMMA DecideKeeps ==
    ASSUME StoreInv, RowsInv, UNCHANGED <<config, now>>,
           NEW op, NEW approve \in BOOLEAN, NEW ttl \in Nat, Decide(op, approve, ttl)
    PROVE  Kept /\ DOMAIN proposals' = DOMAIN proposals
<1>1. /\ DOMAIN proposals' = DOMAIN proposals
      /\ \A o \in DOMAIN proposals : o # op => proposals'[o] = proposals[o]
      /\ UNCHANGED <<authority, tasks, effects, fresh>>
      /\ Pending(op)
  BY DEF Decide
<1>2. ASSUME op \in DOMAIN proposals
      PROVE  /\ proposals'[op] \in Proposal
             /\ proposals'[op].title = proposals[op].title
  <2> DEFINE row == proposals[op]
             end == now + ttl
  <2>1. row \in Proposal
    BY <1>2 DEF StoreInv
  <2>2. CASE approve
    <3>1. proposals'[op] = [row EXCEPT !.decision = "approved",
                               !.granted_at = now, !.expires_at = end]
      BY <1>2, <2>2 DEF Decide
    <3>2. end \in Nat /\ now \in Nat
      BY DEF StoreInv
    <3> HIDE DEF row, end
    <3>3. /\ [row EXCEPT !.decision = "approved", !.granted_at = now,
                           !.expires_at = end] \in Proposal
          /\ [row EXCEPT !.decision = "approved", !.granted_at = now,
                           !.expires_at = end].title = row.title
      BY <2>1, <3>2 DEF Proposal
    <3> QED
      BY <3>1, <3>3 DEF row
  <2>3. CASE ~approve
    <3>1. proposals'[op] = [row EXCEPT !.decision = "rejected",
                               !.granted_at = 0, !.expires_at = 0]
      BY <1>2, <2>3 DEF Decide
    <3> HIDE DEF row, end
    <3>2. /\ [row EXCEPT !.decision = "rejected", !.granted_at = 0,
                           !.expires_at = 0] \in Proposal
          /\ [row EXCEPT !.decision = "rejected", !.granted_at = 0,
                           !.expires_at = 0].title = row.title
      BY <2>1 DEF Proposal
    <3> QED
      BY <3>1, <3>2 DEF row
  <2> QED
    BY <2>2, <2>3
<1> QED
  BY <1>1, <1>2, PendingChangeKeeps

LEMMA DateBackKeeps ==
    ASSUME StoreInv, RowsInv, UNCHANGED <<config, now>>,
           NEW op, Pending(op), DateBack(op)
    PROVE  Kept /\ DOMAIN proposals' = DOMAIN proposals
<1>1. /\ DOMAIN proposals' = DOMAIN proposals
      /\ \A o \in DOMAIN proposals : o # op => proposals'[o] = proposals[o]
      /\ UNCHANGED <<authority, tasks, effects, fresh>>
  BY DEF DateBack
<1>2. ASSUME op \in DOMAIN proposals
      PROVE  /\ proposals'[op] \in Proposal
             /\ proposals'[op].title = proposals[op].title
  BY <1>2 DEF DateBack, StoreInv, Proposal
<1> QED
  BY <1>1, <1>2, PendingChangeKeeps

\* The heart of the matter: an enforced write inserts one row, and only when
\* its own approval holds at that moment.
LEMMA WriteKeeps ==
    ASSUME StoreInv, RowsInv, UNCHANGED <<config, now>>,
           NEW op, NEW title, Write(op, title, Enforced)
    PROVE  Kept /\ DOMAIN proposals' = DOMAIN proposals
<1>1. CASE op \in DOMAIN effects \/ (Enforced /\ ~Authorized(op, title))
  <2>1. UNCHANGED permissions /\ now' \in Nat
    BY <1>1 DEF Write, StoreInv
  <2> QED
    BY <2>1, IdleKeeps DEF permissions
<1>2. CASE op \notin DOMAIN effects /\ (Enforced => Authorized(op, title))
  <2> DEFINE effect == [task_id |-> fresh, title |-> title, admitted_at |-> now,
                        request_revision |-> authority.request_revision,
                        policy_revision |-> authority.policy_revision]
             new == [id |-> fresh, title |-> title]
  <2>1. op \in DOMAIN proposals /\ Insert(op, title)
    BY <1>2 DEF Write, WriteRefused
  <2>2. /\ tasks' = tasks \cup {new}
        /\ effects' = With(effects, op, effect)
        /\ fresh' = fresh + 1
        /\ UNCHANGED authority
        /\ \/ UNCHANGED proposals
           \/ /\ Authorized(op, title)
              /\ proposals' =
                     [proposals EXCEPT ![op].consumed_task_id = fresh]
        /\ Enforced =>
              /\ Authorized(op, title)
              /\ proposals' =
                     [proposals EXCEPT ![op].consumed_task_id = fresh]
    BY <1>2, <2>1 DEF Insert
  <2>3. /\ DOMAIN effects' = DOMAIN effects \cup {op}
        /\ effects'[op] = effect
        /\ \A o \in DOMAIN effects : effects'[o] = effects[o]
    BY <1>2, <2>2 DEF With
  <2>4. /\ DOMAIN proposals' = DOMAIN proposals
        /\ \A o \in DOMAIN proposals : o # op => proposals'[o] = proposals[o]
        /\ \/ proposals'[op] = proposals[op]
           \/ /\ proposals'[op] =
                     [proposals[op] EXCEPT !.consumed_task_id = fresh]
              /\ proposals[op].consumed_task_id = 0
        /\ proposals'[op] \in Proposal
        /\ proposals'[op].title = proposals[op].title
    BY <2>1, <2>2 DEF StoreInv, Proposal, Authorized, Granted
  <2>5. StoreInv'
    BY <2>1, <2>2, <2>3, <2>4 DEF StoreInv
  <2>6. ASSUME Enforced PROVE ValidRow(new, proposals', effects')
    <3>1. /\ proposals[op].title = title
          /\ proposals[op].request_revision = authority.request_revision
          /\ proposals[op].policy_revision = authority.policy_revision
          /\ proposals[op].decision = "approved"
          /\ proposals[op].granted_at <= now /\ now < proposals[op].expires_at
      BY <2>2, <2>6 DEF Authorized, Granted
    <3>2. proposals'[op] = [proposals[op] EXCEPT !.consumed_task_id = fresh]
      BY <2>1, <2>2, <2>6
    <3>3. proposals[op] \in Proposal
      BY <2>1 DEF StoreInv
    <3>4. /\ proposals'[op].title = title
          /\ proposals'[op].request_revision = authority.request_revision
          /\ proposals'[op].policy_revision = authority.policy_revision
          /\ proposals'[op].decision = "approved"
          /\ proposals'[op].granted_at <= now /\ now < proposals'[op].expires_at
          /\ proposals'[op].consumed_task_id = fresh
      BY <3>1, <3>2, <3>3 DEF Proposal
    <3> QED
      BY <2>1, <2>3, <2>4, <3>4 DEF ValidRow
  <2>7. ASSUME NEW t, ValidRow(t, proposals, effects)
        PROVE  ValidRow(t, proposals', effects')
    BY <1>2, <2>3, <2>4, <2>7 DEF ValidRow, StoreInv
  <2>8. RowsInv'
    <3>1. Enforced' = Enforced /\ Seeded' = Seeded
      BY DEF Enforced, Seeded, Injected
    <3> QED
      BY <2>2, <2>6, <2>7, <3>1 DEF RowsInv
  <2>9. FinalStep
    BY <2>1, <2>3, <2>4 DEF FinalStep, StoreInv, Proposal
  <2> QED
    BY <2>4, <2>5, <2>8, <2>9 DEF Kept
<1> QED
  BY <1>1, <1>2

-----------------------------------------------------------------------------
(* The steps of the sessions *)

LEMMA TitlesKnown ==
    /\ Title \in Titles /\ UpdatedTitle \in Titles
    /\ Canary \in Titles /\ Changed \in Titles
  BY TitlesAssumption

LEMMA ContextTitles ==
    ExpectedTitle \in Titles /\ CachedTitle \in Titles /\ SuggestedTitle \in Titles
  BY TitlesKnown DEF ExpectedTitle, CachedTitle, SuggestedTitle

LEMMA InitInv == Init => Inv
<1> SUFFICES ASSUME Init PROVE Inv
  OBVIOUS
<1>1. \E expected \in Titles, allowed \in {"unset", "yes", "no"},
          revision \in Nat, seeded \in {{}, Seeded} :
          PermissionsInit(expected, allowed, revision, seeded)
  BY ContextTitles, TitlesKnown DEF Init
<1>2. StoreInv
  BY <1>1 DEF PermissionsInit, StoreInv, Authority
<1>3. tasks \ Seeded = {}
  BY <1>1 DEF PermissionsInit
<1>4. CallsInv
  BY DEF Init, CallsInv
<1> QED
  BY <1>2, <1>3, <1>4 DEF Inv, RowsInv

\* Nothing happens to the store.
Quiet ==
    /\ UNCHANGED <<config, permissions>>
    /\ now' \in Nat
    /\ CallsInv'

\* A request the model made stays one, wherever the session is.
LEMMA CallsStay ==
    ASSUME CallsInv, UNCHANGED <<pending, cursor, proposals>>,
           pc' \in {"configure", "sleep"} =>
               pc' = pc /\ operation_id' = operation_id
    PROVE  CallsInv'
  BY DEF CallsInv

LEMMA QuietSteps ==
    ASSUME Inv,
           \/ ModelLimit \/ RefreshContext \/ RequestModel \/ ModelStops
           \/ ProviderFails \/ ToolLimit \/ ReserveTool \/ ScenarioApplied
           \/ AlreadyConfigured \/ AwaitApproval \/ AttemptWrite
           \/ RecordWrite \/ RecordReplay \/ ReadTask \/ ReadRequest
           \/ RefuseCall \/ Measure \/ SaveEvaluation \/ SaveReport
           \/ Resume \/ ResumeSettled \/ ResumeRefused \/ RecordDecision
           \/ Crash \/ Interrupt \/ Tick
    PROVE  Quiet
<1> USE DEF calls, counts, checkpoint, permissions, files, deaths, vars, Within
<1>0. CallsInv /\ now \in Nat
  BY DEF Inv, StoreInv
<1>1. CASE ModelLimit
  BY <1>0, <1>1, CallsStay DEF ModelLimit, AtModel, Driving, Finish, Quiet
<1>2. CASE RefreshContext
  BY <1>0, <1>2, CallsStay DEF RefreshContext, AtModel, Driving, Quiet
<1>3. CASE RequestModel
  BY <1>0, <1>3, CallsStay DEF RequestModel, AtModel, Driving, Quiet
<1>4. CASE ModelStops
  BY <1>0, <1>4, CallsStay DEF ModelStops, Finish, Quiet
<1>5. CASE ProviderFails
  BY <1>0, <1>5, CallsStay DEF ProviderFails, Finish, Quiet
<1>6. CASE ToolLimit
  BY <1>0, <1>6, CallsStay DEF ToolLimit, AtTool, Driving, Finish, Quiet
<1>7. CASE ReserveTool
  BY <1>0, <1>7, CallsStay DEF ReserveTool, AtTool, Driving, Quiet
<1>8. CASE ScenarioApplied
  BY <1>0, <1>8, CallsStay DEF ScenarioApplied, Configuring, Quiet
<1>9. CASE AlreadyConfigured
  BY <1>0, <1>9, CallsStay DEF AlreadyConfigured, Quiet
<1>10. CASE AwaitApproval
  BY <1>0, <1>10, CallsStay DEF AwaitApproval, Quiet
<1>11. CASE AttemptWrite
  BY <1>0, <1>11, CallsStay DEF AttemptWrite, Quiet
<1>12. CASE RecordWrite
  BY <1>0, <1>12, CallsStay DEF RecordWrite, Quiet
<1>13. CASE RecordReplay
  BY <1>0, <1>13, CallsStay DEF RecordReplay, Quiet
<1>14. CASE ReadTask
  BY <1>0, <1>14, CallsStay DEF ReadTask, Quiet
<1>15. CASE ReadRequest
  BY <1>0, <1>15, CallsStay DEF ReadRequest, Quiet
<1>16. CASE RefuseCall
  BY <1>0, <1>16, CallsStay DEF RefuseCall, Quiet
<1>17. CASE Measure
  BY <1>0, <1>17, CallsStay DEF Measure, Quiet
<1>18. CASE SaveEvaluation
  BY <1>0, <1>18, CallsStay DEF SaveEvaluation, Quiet
<1>19. CASE SaveReport
  BY <1>0, <1>19, CallsStay DEF SaveReport, Quiet
<1>20. CASE Resume
  BY <1>0, <1>20, CallsStay DEF Resume, Quiet
<1>21. CASE ResumeSettled
  BY <1>0, <1>21, CallsStay DEF ResumeSettled, Quiet
<1>22. CASE ResumeRefused
  BY <1>0, <1>22, CallsStay DEF ResumeRefused, Quiet
<1>23. CASE RecordDecision
  BY <1>0, <1>23, CallsStay DEF RecordDecision, Quiet
<1>24. CASE Crash
  BY <1>0, <1>24, CallsStay DEF Crash, Quiet
<1>25. CASE Interrupt
  BY <1>0, <1>25, CallsStay DEF Interrupt, Quiet
<1>26. CASE Tick
  BY <1>0, <1>26, CallsStay DEF Tick, Quiet
<1> QED
  BY <1>1, <1>2, <1>3, <1>4, <1>5, <1>6, <1>7, <1>8, <1>9, <1>10, <1>11, <1>12, <1>13, <1>14, <1>15, <1>16, <1>17, <1>18, <1>19, <1>20, <1>21, <1>22, <1>23, <1>24, <1>25, <1>26

LEMMA ScriptedRequests ==
    ASSUME StoreInv
    PROVE  ScriptedTurn.tool_calls \in Seq(Requests)
<1>1. ScriptedTitle \in Titles
  BY ContextTitles, TitlesKnown DEF ScriptedTitle, StoreInv, Authority
<1>2. <<Create(ScriptedTitle)>> \in Seq(Requests)
  BY <1>1 DEF Create, Requests
<1>3. <<Get(SourceId)>> \in Seq(Requests)
  BY DEF Get, SourceId, Requests
<1>4. << >> \in Seq(Requests)
  OBVIOUS
<1> DEFINE creates == {i \in 1 .. Len(messages) :
                          messages[i].call.name = "create_task"}
           last == messages[CHOOSE i \in creates : \A j \in creates : j <= i]
           claimed == IF last.answer.ok THEN Says("completed", last.answer.task)
                                       ELSE Says("unknown", 0)
<1>5. ScriptedTurn \in {claimed, Asks(<<Get(SourceId)>>),
                        Says("not_completed", 0), Asks(<<Create(ScriptedTitle)>>)}
  BY Zenon DEF ScriptedTurn
<1>6. \A turn \in {claimed, Says("not_completed", 0)} :
          turn.tool_calls \in Seq(Requests)
  <2>1. ASSUME NEW claim, NEW task
        PROVE  Says(claim, task).tool_calls \in Seq(Requests)
    BY <1>4 DEF Says
  <2> QED
    BY <2>1, Zenon
<1>7. /\ Asks(<<Get(SourceId)>>).tool_calls \in Seq(Requests)
      /\ Asks(<<Create(ScriptedTitle)>>).tool_calls \in Seq(Requests)
  BY <1>2, <1>3 DEF Asks
<1> HIDE DEF claimed
<1> QED
  BY <1>5, <1>6, <1>7, Zenon

LEMMA ModelCallsStep ==
    ASSUME Inv, ModelCalls
    PROVE  Quiet
<1> USE DEF calls, counts, checkpoint, permissions, files, deaths, vars, Within
<1>1. PICK turn \in Turns : pending' = turn.tool_calls
  BY DEF ModelCalls
<1>2. turn.tool_calls \in Seq(Requests)
  <2>1. CASE config.mode = "offline"
    BY <2>1, ScriptedRequests DEF Turns, Inv
  <2>2. CASE config.mode # "offline"
    BY <2>2, TurnsAssumption DEF Turns, LiveTurn
  <2> QED
    BY <2>1, <2>2
<1>3. CallsInv'
  BY <1>1, <1>2 DEF ModelCalls, CallsInv
<1> QED
  BY <1>3 DEF ModelCalls, Quiet, Inv, StoreInv

LEMMA ReturnToolStep ==
    ASSUME Inv, ReturnTool
    PROVE  Quiet
  BY DEF Inv, StoreInv, CallsInv, ReturnTool, Quiet, permissions, files, deaths

\* The call in hand asks for a title there is.
LEMMA CallTitle ==
    ASSUME Inv, InCall, Call.name = "create_task"
    PROVE  Call.arg \in Titles
<1>1. Call \in Requests
  BY DEF Inv, CallsInv, InCall, AtTool, Call
<1> QED
  BY <1>1 DEF Requests, GetRequest, BadCall

LEMMA StoreSteps ==
    ASSUME Inv,
           \/ ProposeTask \/ ScenarioDecides \/ SleepPastGrant
           \/ ScenarioProposesOther \/ ScenarioDecidesOther \/ ScenarioRevises
           \/ ScenarioDatesBack \/ ScenarioGrants \/ WriteTask \/ ReplayWrite
           \/ OperatorDecides
    PROVE  Kept /\ CallsInv' /\ UNCHANGED config
<1> USE DEF calls, counts, checkpoint, files, deaths, Within, Inv
<1>0. ShortTTL \in Nat /\ LongTTL \in Nat
  BY BoundaryAssumption
<1>1. CASE ProposeTask
  <2>1. Call.arg \in Titles
    BY <1>1, CallTitle DEF ProposeTask
  <2>2. Kept /\ DOMAIN proposals' = DOMAIN proposals \cup {operation_id}
    BY <1>1, <2>1, ProposeKeeps DEF ProposeTask
  <2> QED
    BY <1>1, <2>2 DEF ProposeTask, CallsInv
<1>2. CASE ScenarioDecides
  <2>1. Kept /\ DOMAIN proposals' = DOMAIN proposals
    BY <1>0, <1>2, DecideKeeps DEF ScenarioDecides
  <2> QED
    BY <1>2, <2>1 DEF ScenarioDecides, Configuring, CallsInv
<1>3. CASE SleepPastGrant
  <2>1. now' \in Nat
    BY <1>3 DEF SleepPastGrant, StoreInv, CallsInv, Proposal
  <2>2. Kept
    BY <1>3, <2>1, IdleKeeps DEF SleepPastGrant
  <2> QED
    BY <1>3, <2>2 DEF SleepPastGrant, CallsInv, permissions
<1>4. CASE ScenarioProposesOther
  <2>1. proposals[operation_id].title \in Titles
    BY <1>4 DEF ScenarioProposesOther, Configuring, CallsInv, StoreInv, Proposal
  <2>2. Kept /\ DOMAIN proposals' = DOMAIN proposals \cup {Other(operation_id)}
    BY <1>4, <2>1, ProposeKeeps DEF ScenarioProposesOther
  <2> QED
    BY <1>4, <2>2 DEF ScenarioProposesOther, CallsInv
<1>5. CASE ScenarioDecidesOther
  <2>1. Kept /\ DOMAIN proposals' = DOMAIN proposals
    BY <1>0, <1>5, DecideKeeps DEF ScenarioDecidesOther
  <2> QED
    BY <1>5, <2>1 DEF ScenarioDecidesOther, CallsInv
<1>6. CASE ScenarioRevises
  <2>1. Kept /\ proposals' = proposals
    BY <1>6, ChangeRevisionKeeps DEF ScenarioRevises, ChangeRevision
  <2> QED
    BY <1>6, <2>1 DEF ScenarioRevises, CallsInv
<1>7. CASE ScenarioDatesBack
  <2>1. Kept /\ DOMAIN proposals' = DOMAIN proposals
    BY <1>7, DateBackKeeps DEF ScenarioDatesBack, MustDateBack
  <2> QED
    BY <1>7, <2>1 DEF ScenarioDatesBack, CallsInv
<1>8. CASE ScenarioGrants
  <2>1. (Stale \/ InScope(proposals[operation_id].title)) \in BOOLEAN
    OBVIOUS
  <2>2. Kept /\ DOMAIN proposals' = DOMAIN proposals
    BY <1>0, <1>8, <2>1, DecideKeeps DEF ScenarioGrants
  <2> QED
    BY <1>8, <2>2 DEF ScenarioGrants, CallsInv
<1>9. CASE WriteTask
  <2>1. Kept /\ DOMAIN proposals' = DOMAIN proposals
    BY <1>9, WriteKeeps DEF WriteTask
  <2> QED
    BY <1>9, <2>1 DEF WriteTask, CallsInv
<1>10. CASE ReplayWrite
  <2>1. Kept /\ DOMAIN proposals' = DOMAIN proposals
    BY <1>10, WriteKeeps DEF ReplayWrite
  <2> QED
    BY <1>10, <2>1 DEF ReplayWrite, CallsInv
<1>11. CASE OperatorDecides
  <2>1. Kept /\ DOMAIN proposals' = DOMAIN proposals
    BY <1>0, <1>11, DecideKeeps DEF OperatorDecides
  <2> QED
    BY <1>11, <2>1 DEF OperatorDecides, CallsInv
<1> QED
  BY <1>1, <1>2, <1>3, <1>4, <1>5, <1>6, <1>7, <1>8, <1>9, <1>10, <1>11

LEMMA EveryStep ==
    ASSUME Inv, [Next]_vars
    PROVE  Inv' /\ FinalStep
<1>1. ASSUME Quiet PROVE Kept
  BY <1>1, IdleKeeps DEF Quiet, Inv
<1>2. CASE UNCHANGED vars
  BY <1>1, <1>2, CallsStay
     DEF Quiet, Kept, Inv, StoreInv, vars, checkpoint, calls, permissions
<1>3. CASE Next
  BY <1>1, <1>3, QuietSteps, ModelCallsStep, ReturnToolStep, StoreSteps
     DEF Next, SessionStep, Quiet, Kept, Inv
<1> QED
  BY <1>2, <1>3

-----------------------------------------------------------------------------
(* The theorems *)

THEOREM Invariance == Spec => []Inv
<1>1. Inv /\ [Next]_vars => Inv'
  BY EveryStep
<1> QED
  BY InitInv, <1>1, PTL DEF Spec

\* Whatever is delivered twice, killed, expired, decided late or decided for
\* somebody else: under enforcement PermissionStore.write lets nothing through
\* that the independent grading would call unauthorized.
THEOREM WritesAreAuthorized == Spec => []NoUnauthorizedWrite
<1>1. Inv => NoUnauthorizedWrite
  BY DEF Inv, RowsInv, NoUnauthorizedWrite, Unauthorized
<1> QED
  BY <1>1, Invariance, PTL

\* A decided proposal is only ever marked as consumed, once, and an effect is
\* never touched: no session, resume or second operator rewrites history.
THEOREM DecisionsStay == Spec => DecisionsAreFinal
<1>1. Inv /\ [Next]_vars => [FinalStep]_vars
  BY EveryStep
<1>2. Spec => [][FinalStep]_vars
  BY <1>1, Invariance, PTL DEF Spec
<1> QED
  BY <1>2 DEF DecisionsAreFinal, FinalStep

-----------------------------------------------------------------------------
(* The journal and the store together: the strengthening the other safety    *)
(* properties rest on, one named part after the other.                       *)

Message == [operation_id : OpIds, call : Requests, answer : Answers]

\* What a session does with a create call, from its proposal on.
CreateSteps == {"configure", "sleep", "check", "write", "written", "replay",
                "replayed"}

TypesInv ==
    /\ config \in Configs
    /\ status \in {"running", "awaiting_approval", "blocked", "finished", "error"}
    /\ answer \in Answers
    /\ refreshed \in BOOLEAN
    /\ messages \in Seq(Message)
    /\ reserved \in BOOLEAN
    /\ operation_id \in OpIds \cup {NoOperation}
    /\ configured_operations \subseteq OpIds
    /\ model_calls \in 0 .. MaxModelCalls
    /\ tool_calls \in 0 .. MaxToolCalls
    /\ tool_executions \in 0 .. Len(messages)
    /\ crashes \in 0 .. MaxCrashes
    /\ journal_hot \in BOOLEAN

\* Where the session is fits what the checkpoint says.
ControlInv ==
    /\ pc \in {"request", "model"} =>
          status = "running" /\ ~reserved /\ cursor = Len(pending)
    /\ pc = "request" => model_calls < MaxModelCalls
    /\ pc = "model" => model_calls > 0
    /\ pc = "drive" => status = "running"
    /\ pc \in CreateSteps \cup {"answer"} => status = "running" /\ reserved
    /\ pc \in CreateSteps \cup {"decided"} => operation_id \in DOMAIN proposals
    /\ pc = "decided" => status = "awaiting_approval"
    /\ status = "awaiting_approval" =>
          reserved /\ operation_id \in DOMAIN proposals
    /\ cursor <= Len(pending)
    /\ reserved =>
          cursor < Len(pending) /\ operation_id = <<model_calls, cursor, 0>>
    /\ ~reserved => operation_id = NoOperation
    /\ pending # << >> => model_calls > 0
    /\ tool_calls = Len(messages) + (IF reserved THEN 1 ELSE 0)
    /\ cursor <= Len(messages)
    /\ status = "finished" <=> terminal # NoResult

\* Operation ids follow the order of the calls.
Before(op) == \/ op[1] < model_calls
              \/ op[1] = model_calls /\ op[2] < cursor
Precedes(a, b) == a[1] < b[1] \/ (a[1] = b[1] /\ a[2] < b[2])

\* The calls that were answered and the operations that were proposed all came
\* before the call in hand, which has its own operation.
OrderInv ==
    /\ \A i \in 1 .. Len(messages) : Before(messages[i].operation_id)
    /\ \A i, j \in 1 .. Len(messages) : i < j =>
          Precedes(messages[i].operation_id, messages[j].operation_id)
    /\ DOMAIN proposals \subseteq OpIds
    /\ \A op \in DOMAIN proposals :
          Before(op) \/ (reserved /\ op[1] = model_calls /\ op[2] = cursor)
    /\ pc = "model" =>
          /\ \A i \in 1 .. Len(messages) :
                messages[i].operation_id[1] < model_calls
          /\ \A op \in DOMAIN proposals : op[1] < model_calls

\* The rows of the current operation are what its call asks for.
RequestInv ==
    /\ reserved /\ operation_id \in DOMAIN proposals =>
          Call = Create(proposals[operation_id].title)
    /\ reserved /\ operation_id \in DOMAIN effects =>
          effects[operation_id].title = WriteTitle

\* An approval that was used up, as the grading wants to see it.
Used(op) ==
    /\ op \in DOMAIN effects
    /\ proposals[op].decision = "approved"
    /\ proposals[op].consumed_task_id = effects[op].task_id
    /\ proposals[op].title = effects[op].title
    /\ proposals[op].request_revision = effects[op].request_revision
    /\ proposals[op].policy_revision = effects[op].policy_revision
    /\ proposals[op].granted_at <= effects[op].admitted_at
    /\ effects[op].admitted_at < proposals[op].expires_at

\* Tasks, effects and consumed approvals correspond.
LedgerInv ==
    /\ fresh >= 2
    /\ IsFiniteSet(tasks) /\ IsFiniteSet(DOMAIN effects)
    /\ Seeded \subseteq tasks
    /\ \A t \in tasks : t.id \in Nat /\ t.id < fresh
    /\ \A op \in DOMAIN effects :
          effects[op] \in Effect /\ effects[op].task_id \in 2 .. (fresh - 1)
    /\ OneTaskPerOperation
    /\ \A op \in DOMAIN proposals : proposals[op].consumed_task_id # 0 => Used(op)

TaskOf(op) == IF op \in DOMAIN effects THEN effects[op].task_id ELSE 0

\* What was answered, and what is about to be, is what the store holds.
AnswersInv ==
    /\ AnswersTellTheTruth
    /\ (pc \in {"written", "replay", "replayed", "answer"}
           /\ Call.name = "create_task") =>
          answer.task = TaskOf(operation_id) /\ (answer.ok <=> answer.task # 0)
    /\ pc \in {"replay", "replayed"} => operation_id \in DOMAIN effects

StrongInv ==
    TypesInv /\ ControlInv /\ OrderInv /\ RequestInv /\ LedgerInv /\ AnswersInv

\* The operation of a call that was reserved is one the run may have.
LEMMA ReservedOperation ==
    ASSUME Inv, TypesInv, ControlInv
    PROVE  /\ pc = "drive" /\ cursor < Len(pending) /\ tool_calls < MaxToolCalls
                 /\ ~reserved =>
              /\ <<model_calls, cursor, 0>> \in OpIds
              /\ <<model_calls, cursor, 1>> \in OpIds
           /\ reserved =>
              /\ operation_id \in OpIds
              /\ Other(operation_id) \in OpIds
              /\ operation_id = <<model_calls, cursor, 0>>
              /\ Call \in Requests
<1>1. /\ pending \in Seq(Requests) /\ cursor \in Nat /\ Len(pending) \in Nat
      /\ Len(messages) \in Nat
  BY DEF Inv, CallsInv, TypesInv
<1>2. cursor < Len(pending) => model_calls \in 1 .. MaxModelCalls
  <2>1. cursor < Len(pending) => pending # << >>
    BY <1>1
  <2> QED
    BY <2>1, BoundaryAssumption DEF TypesInv, ControlInv
<1>3. tool_calls \in 0 .. MaxToolCalls /\ cursor <= tool_calls
  BY <1>1 DEF TypesInv, ControlInv
<1>4. cursor \in 0 .. MaxToolCalls
  BY <1>1, <1>3, BoundaryAssumption
<1>5. cursor < Len(pending) => /\ <<model_calls, cursor, 0>> \in OpIds
                               /\ <<model_calls, cursor, 1>> \in OpIds
  BY <1>2, <1>4, OpIdsAssumption
<1>6. reserved => /\ operation_id = <<model_calls, cursor, 0>>
                  /\ cursor < Len(pending)
                  /\ Other(operation_id) = <<model_calls, cursor, 1>>
  BY DEF ControlInv, Other
<1>7. reserved => Call \in Requests
  BY <1>1, <1>6 DEF Call
<1> QED
  BY <1>5, <1>6, <1>7

\* Whatever ends a run leaves a terminal result.
LEMMA FinishedResult ==
    ASSUME NEW result, result # "none", NEW content, Finish(result, content)
    PROVE  terminal' # NoResult /\ status' = "finished" /\ pc' = "measure"
<1>1. terminal'.status = result
  BY DEF Finish
<1>2. NoResult.status = "none"
  BY DEF NoResult
<1> QED
  BY <1>1, <1>2 DEF Finish

LEMMA TypesStep ==
    ASSUME Inv, StrongInv, Next
    PROVE  TypesInv'
<1> USE DEF calls, counts, checkpoint, permissions, files, deaths, vars, Within
<1>0. Inv /\ TypesInv /\ ControlInv /\ LedgerInv
  BY DEF StrongInv
<1>1. CASE ModelLimit
  BY <1>1, <1>0 DEF ModelLimit, AtModel, Driving, Finish, TypesInv
<1>2. CASE RefreshContext
  BY <1>2, <1>0 DEF RefreshContext, AtModel, Driving, TypesInv
<1>3. CASE RequestModel
  <2>1. model_calls < MaxModelCalls
    BY <1>0, <1>3 DEF RequestModel, ControlInv
  <2>2. model_calls + 1 \in 0 .. MaxModelCalls
    BY <1>0, <2>1, BoundaryAssumption DEF TypesInv
  <2> QED
    BY <1>3, <1>0, <2>2 DEF RequestModel, TypesInv
<1>4. CASE ModelStops
  BY <1>4, <1>0 DEF ModelStops, Finish, TypesInv
<1>5. CASE ModelCalls
  BY <1>5, <1>0 DEF ModelCalls, TypesInv
<1>6. CASE ProviderFails
  BY <1>6, <1>0 DEF ProviderFails, Finish, TypesInv
<1>7. CASE ToolLimit
  BY <1>7, <1>0 DEF ToolLimit, AtTool, Driving, Finish, TypesInv
<1>8. CASE ReserveTool
  <2>1. <<model_calls, cursor, 0>> \in OpIds
    BY <1>0, <1>8, ReservedOperation DEF ReserveTool, AtTool, Driving
  <2>2. tool_calls + 1 \in 0 .. MaxToolCalls
    BY <1>0, <1>8, BoundaryAssumption DEF ReserveTool, TypesInv
  <2> QED
    BY <1>8, <1>0, <2>1, <2>2 DEF ReserveTool, TypesInv
<1>9. CASE ProposeTask
  BY <1>9, <1>0 DEF ProposeTask, InCall, AtTool, Driving, TypesInv
<1>10. CASE ScenarioDecides
  BY <1>10, <1>0 DEF ScenarioDecides, Configuring, TypesInv
<1>11. CASE SleepPastGrant
  BY <1>11, <1>0 DEF SleepPastGrant, TypesInv
<1>12. CASE ScenarioProposesOther
  BY <1>12, <1>0 DEF ScenarioProposesOther, Configuring, TypesInv
<1>13. CASE ScenarioDecidesOther
  BY <1>13, <1>0 DEF ScenarioDecidesOther, Configuring, TypesInv
<1>14. CASE ScenarioRevises
  BY <1>14, <1>0 DEF ScenarioRevises, Configuring, TypesInv
<1>15. CASE ScenarioDatesBack
  BY <1>15, <1>0 DEF ScenarioDatesBack, Configuring, TypesInv
<1>16. CASE ScenarioGrants
  BY <1>16, <1>0 DEF ScenarioGrants, Configuring, TypesInv
<1>17. CASE ScenarioApplied
  <2>1. operation_id \in OpIds
    BY <1>0, <1>17, ReservedOperation DEF ScenarioApplied, Configuring, ControlInv, CreateSteps
  <2> QED
    BY <1>17, <1>0, <2>1 DEF ScenarioApplied, TypesInv
<1>18. CASE AlreadyConfigured
  BY <1>18, <1>0 DEF AlreadyConfigured, TypesInv
<1>19. CASE AwaitApproval
  BY <1>19, <1>0 DEF AwaitApproval, TypesInv
<1>20. CASE AttemptWrite
  BY <1>20, <1>0 DEF AttemptWrite, TypesInv
<1>21. CASE WriteTask
  <2>1. WrittenTask(operation_id, WriteTitle, Enforced) \in Nat
    BY <1>0 DEF WrittenTask, LedgerInv, Effect, Inv, StoreInv
  <2>2. answer' \in Answers
    BY <1>21, <2>1 DEF WriteTask, Result, NoAnswer, Answers
  <2> QED
    BY <1>21, <1>0, <2>2 DEF WriteTask, TypesInv
<1>22. CASE RecordWrite
  BY <1>22, <1>0 DEF RecordWrite, TypesInv
<1>23. CASE ReplayWrite
  BY <1>23, <1>0 DEF ReplayWrite, TypesInv
<1>24. CASE RecordReplay
  BY <1>24, <1>0 DEF RecordReplay, TypesInv
<1>25. CASE ReadTask
  <2>1. Call.arg \in Nat
    BY <1>25, <1>0, ReservedOperation DEF ReadTask, InCall, Requests, GetRequest, BadCall
  <2>2. answer' \in Answers
    BY <1>25, <2>1 DEF ReadTask, Result, NoAnswer, Answers
  <2> QED
    BY <1>25, <1>0, <2>2 DEF ReadTask, TypesInv
<1>26. CASE ReadRequest
  <2>1. answer' \in Answers
    BY <1>26 DEF ReadRequest, Result, NoAnswer, Answers
  <2> QED
    BY <1>26, <1>0, <2>1 DEF ReadRequest, TypesInv
<1>27. CASE RefuseCall
  <2>1. answer' \in Answers
    BY <1>27 DEF RefuseCall, Result, NoAnswer, Answers
  <2> QED
    BY <1>27, <1>0, <2>1 DEF RefuseCall, TypesInv
<1>28. CASE ReturnTool
  <2> DEFINE m == [operation_id |-> operation_id, call |-> Call, answer |-> answer]
  <2>1. m \in Message
    BY <1>28, <1>0, ReservedOperation DEF ReturnTool, ControlInv, TypesInv, Message
  <2>2. messages' \in Seq(Message) /\ Len(messages') = Len(messages) + 1
    BY <1>28, <1>0, <2>1 DEF ReturnTool, TypesInv
  <2>3. NoAnswer \in Answers
    BY DEF NoAnswer, Answers
  <2>4. tool_executions' \in 0 .. Len(messages')
    BY <1>28, <1>0, <2>2 DEF ReturnTool, TypesInv
  <2> QED
    BY <1>28, <1>0, <2>2, <2>3, <2>4 DEF ReturnTool, TypesInv
<1>29. CASE Measure
  BY <1>29, <1>0 DEF Measure, TypesInv
<1>30. CASE SaveEvaluation
  BY <1>30, <1>0 DEF SaveEvaluation, TypesInv
<1>31. CASE SaveReport
  BY <1>31, <1>0 DEF SaveReport, TypesInv
<1>32. CASE RecordDecision
  BY <1>32, <1>0 DEF RecordDecision, TypesInv
<1>33. CASE Resume
  BY <1>33, <1>0 DEF Resume, Free, TypesInv
<1>34. CASE ResumeSettled
  BY <1>34, <1>0 DEF ResumeSettled, Free, TypesInv
<1>35. CASE ResumeRefused
  BY <1>35, <1>0 DEF ResumeRefused, TypesInv
<1>36. CASE OperatorDecides
  BY <1>36, <1>0 DEF OperatorDecides, Free, TypesInv
<1>37. CASE Crash
  <2>1. NoAnswer \in Answers
    BY DEF NoAnswer, Answers
  <2>2. crashes + 1 \in 0 .. MaxCrashes
    BY <1>37, <1>0, BoundaryAssumption DEF Crash, TypesInv
  <2> QED
    BY <1>37, <1>0, <2>1, <2>2 DEF Crash, TypesInv
<1>38. CASE Interrupt
  <2>1. NoAnswer \in Answers
    BY DEF NoAnswer, Answers
  <2>2. crashes + 1 \in 0 .. MaxCrashes
    BY <1>38, <1>0, BoundaryAssumption DEF Interrupt, TypesInv
  <2> QED
    BY <1>38, <1>0, <2>1, <2>2 DEF Interrupt, TypesInv
<1>39. CASE Tick
  BY <1>39, <1>0 DEF Tick, TypesInv
<1> QED
  BY <1>1, <1>2, <1>3, <1>4, <1>5, <1>6, <1>7, <1>8, <1>9, <1>10, <1>11,
     <1>12, <1>13, <1>14, <1>15, <1>16, <1>17, <1>18, <1>19, <1>20, <1>21,
     <1>22, <1>23, <1>24, <1>25, <1>26, <1>27, <1>28, <1>29, <1>30, <1>31,
     <1>32, <1>33, <1>34, <1>35, <1>36, <1>37, <1>38, <1>39 DEF Next,
     SessionStep

LEMMA ControlStep ==
    ASSUME Inv, StrongInv, Next
    PROVE  ControlInv'
<1> USE DEF calls, counts, checkpoint, permissions, files, deaths, vars, Within
<1>0. /\ Inv /\ TypesInv /\ ControlInv
      /\ pending \in Seq(Requests) /\ cursor \in Nat /\ Len(pending) \in Nat
      /\ model_calls \in Nat /\ tool_calls \in Nat
  BY BoundaryAssumption DEF StrongInv, Inv, CallsInv, TypesInv
<1>00. \A op \in DOMAIN proposals : op \in DOMAIN proposals'
  BY EveryStep DEF FinalStep
<1>1. CASE ModelLimit
  <2>1. Finish("model_limit", Absent)
    BY <1>1 DEF ModelLimit
  <2>2. terminal' # NoResult /\ status' = "finished" /\ pc' = "measure"
    BY <2>1, FinishedResult
  <2> QED
    BY <1>0, <1>00, <2>1, <2>2 DEF Finish, ControlInv, CreateSteps
<1>2. CASE RefreshContext
  BY <1>2, <1>0, <1>00 DEF RefreshContext, AtModel, Driving, ControlInv,
     CreateSteps
<1>3. CASE RequestModel
  BY <1>3, <1>0, <1>00 DEF RequestModel, AtModel, Driving, ControlInv,
     CreateSteps
<1>4. CASE ModelStops
  <2>1. PICK result \in {"protocol_error", "finished"} :
            \E content : Finish(result, content)
    BY <1>4 DEF ModelStops
  <2>2. terminal' # NoResult /\ status' = "finished" /\ pc' = "measure"
    BY <2>1, FinishedResult
  <2> QED
    BY <1>0, <1>00, <2>1, <2>2 DEF Finish, ControlInv, CreateSteps
<1>5. CASE ModelCalls
  <2>1. PICK turn \in Turns : turn.tool_calls # << >> /\ pending' = turn.tool_calls
    BY <1>5 DEF ModelCalls
  <2>2. pending' \in Seq(Requests)
    BY EveryStep DEF Inv, CallsInv
  <2>3. Len(pending') \in Nat
    BY <2>2
  <2> QED
    BY <1>5, <1>0, <1>00, <2>1, <2>3 DEF ModelCalls, ControlInv, CreateSteps
<1>6. CASE ProviderFails
  <2>1. Finish("provider_error", Absent)
    BY <1>6 DEF ProviderFails
  <2>2. terminal' # NoResult /\ status' = "finished" /\ pc' = "measure"
    BY <2>1, FinishedResult
  <2> QED
    BY <1>0, <1>00, <2>1, <2>2 DEF Finish, ControlInv, CreateSteps
<1>7. CASE ToolLimit
  <2>1. Finish("tool_limit", Absent)
    BY <1>7 DEF ToolLimit
  <2>2. terminal' # NoResult /\ status' = "finished" /\ pc' = "measure"
    BY <2>1, FinishedResult
  <2> QED
    BY <1>0, <1>00, <2>1, <2>2 DEF Finish, ControlInv, CreateSteps
<1>8. CASE ReserveTool
  BY <1>8, <1>0, <1>00 DEF ReserveTool, AtTool, Driving, ControlInv,
     CreateSteps
<1>9. CASE ProposeTask
  <2>1. operation_id \in DOMAIN proposals'
    BY <1>9 DEF ProposeTask, Propose, With
  <2> QED
    BY <1>9, <1>0, <1>00, <2>1 DEF ProposeTask, InCall, AtTool, Driving, ControlInv,
       CreateSteps
<1>10. CASE ScenarioDecides
  BY <1>10, <1>0, <1>00 DEF ScenarioDecides, Configuring, ControlInv,
     CreateSteps
<1>11. CASE SleepPastGrant
  BY <1>11, <1>0, <1>00 DEF SleepPastGrant, ControlInv, CreateSteps
<1>12. CASE ScenarioProposesOther
  BY <1>12, <1>0, <1>00 DEF ScenarioProposesOther, Configuring, ControlInv,
     CreateSteps
<1>13. CASE ScenarioDecidesOther
  BY <1>13, <1>0, <1>00 DEF ScenarioDecidesOther, Configuring, ControlInv,
     CreateSteps
<1>14. CASE ScenarioRevises
  BY <1>14, <1>0, <1>00 DEF ScenarioRevises, Configuring, ControlInv,
     CreateSteps
<1>15. CASE ScenarioDatesBack
  BY <1>15, <1>0, <1>00 DEF ScenarioDatesBack, Configuring, ControlInv,
     CreateSteps
<1>16. CASE ScenarioGrants
  BY <1>16, <1>0, <1>00 DEF ScenarioGrants, Configuring, ControlInv,
     CreateSteps
<1>17. CASE ScenarioApplied
  BY <1>17, <1>0, <1>00 DEF ScenarioApplied, Configuring, ControlInv,
     CreateSteps
<1>18. CASE AlreadyConfigured
  BY <1>18, <1>0, <1>00 DEF AlreadyConfigured, ControlInv, CreateSteps
<1>19. CASE AwaitApproval
  BY <1>19, <1>0, <1>00 DEF AwaitApproval, ControlInv, CreateSteps
<1>20. CASE AttemptWrite
  BY <1>20, <1>0, <1>00 DEF AttemptWrite, ControlInv, CreateSteps
<1>21. CASE WriteTask
  BY <1>21, <1>0, <1>00 DEF WriteTask, ControlInv, CreateSteps
<1>22. CASE RecordWrite
  BY <1>22, <1>0, <1>00 DEF RecordWrite, ControlInv, CreateSteps
<1>23. CASE ReplayWrite
  BY <1>23, <1>0, <1>00 DEF ReplayWrite, ControlInv, CreateSteps
<1>24. CASE RecordReplay
  BY <1>24, <1>0, <1>00 DEF RecordReplay, ControlInv, CreateSteps
<1>25. CASE ReadTask
  BY <1>25, <1>0, <1>00 DEF ReadTask, InCall, AtTool, Driving, ControlInv,
     CreateSteps
<1>26. CASE ReadRequest
  BY <1>26, <1>0, <1>00 DEF ReadRequest, InCall, AtTool, Driving, ControlInv,
     CreateSteps
<1>27. CASE RefuseCall
  BY <1>27, <1>0, <1>00 DEF RefuseCall, InCall, AtTool, Driving, ControlInv,
     CreateSteps
<1>28. CASE ReturnTool
  BY <1>28, <1>0, <1>00 DEF ReturnTool, ControlInv, CreateSteps
<1>29. CASE Measure
  BY <1>29, <1>0, <1>00 DEF Measure, ControlInv, CreateSteps
<1>30. CASE SaveEvaluation
  BY <1>30, <1>0, <1>00 DEF SaveEvaluation, ControlInv, CreateSteps
<1>31. CASE SaveReport
  BY <1>31, <1>0, <1>00 DEF SaveReport, ControlInv, CreateSteps
<1>32. CASE RecordDecision
  BY <1>32, <1>0, <1>00 DEF RecordDecision, ControlInv, CreateSteps
<1>33. CASE Resume
  <2>1. status # "finished"
    BY <1>33 DEF Resume, Settled
  <2> QED
    BY <1>33, <1>0, <1>00, <2>1 DEF Resume, ControlInv, CreateSteps
<1>34. CASE ResumeSettled
  BY <1>34, <1>0, <1>00 DEF ResumeSettled, Free, ControlInv, CreateSteps
<1>35. CASE ResumeRefused
  BY <1>35, <1>0, <1>00 DEF ResumeRefused, ControlInv, CreateSteps
<1>36. CASE OperatorDecides
  BY <1>36, <1>0, <1>00 DEF OperatorDecides, Free, ControlInv, CreateSteps
<1>37. CASE Crash
  BY <1>37, <1>0, <1>00 DEF Crash, ControlInv, CreateSteps
<1>38. CASE Interrupt
  BY <1>38, <1>0, <1>00 DEF Interrupt, ControlInv, CreateSteps
<1>39. CASE Tick
  BY <1>39, <1>0, <1>00 DEF Tick, ControlInv, CreateSteps
<1> QED
  BY <1>1, <1>2, <1>3, <1>4, <1>5, <1>6, <1>7, <1>8, <1>9, <1>10, <1>11,
     <1>12, <1>13, <1>14, <1>15, <1>16, <1>17, <1>18, <1>19, <1>20, <1>21,
     <1>22, <1>23, <1>24, <1>25, <1>26, <1>27, <1>28, <1>29, <1>30, <1>31,
     <1>32, <1>33, <1>34, <1>35, <1>36, <1>37, <1>38, <1>39 DEF Next,
     SessionStep

-----------------------------------------------------------------------------
(* What a step may do to the store                                           *)

\* The call in hand puts a proposal in, undecided.
Proposes(op) ==
    /\ op \notin DOMAIN proposals
    /\ DOMAIN proposals' = DOMAIN proposals \cup {op}
    /\ \A o \in DOMAIN proposals : proposals'[o] = proposals[o]
    /\ proposals'[op].decision = "pending"
    /\ proposals'[op].consumed_task_id = 0
    /\ UNCHANGED <<authority, tasks, effects, fresh>>

\* An undecided proposal is decided or dated back; it keeps its title.
Changes(op) ==
    /\ op \in DOMAIN proposals
    /\ Pending(op)
    /\ DOMAIN proposals' = DOMAIN proposals
    /\ \A o \in DOMAIN proposals : o # op => proposals'[o] = proposals[o]
    /\ proposals'[op].title = proposals[op].title
    /\ proposals'[op].consumed_task_id = proposals[op].consumed_task_id
    /\ UNCHANGED <<authority, tasks, effects, fresh>>

\* The current operation's task is written.
Writes ==
    /\ operation_id \notin DOMAIN effects
    /\ operation_id \in DOMAIN proposals
    /\ Enforced => Authorized(operation_id, WriteTitle)
    /\ Insert(operation_id, WriteTitle)

LEMMA RecordAtHand ==
    ASSUME Inv, NEW op \in DOMAIN proposals
    PROVE  proposals[op] \in Proposal
  BY DEF Inv, StoreInv

LEMMA DecideChanges ==
    ASSUME Inv, NEW op \in DOMAIN proposals, NEW approve, NEW ttl,
           Decide(op, approve, ttl)
    PROVE  Changes(op)
  BY RecordAtHand DEF Decide, Changes, Pending, Proposal

LEMMA ProposeProposes ==
    ASSUME Inv, NEW op, NEW title, Propose(op, title)
    PROVE  \/ UNCHANGED permissions
           \/ Proposes(op) /\ proposals'[op].title = title
  BY DEF Propose, With, Proposes, permissions

LEMMA WriteWrites ==
    ASSUME Inv, StrongInv, pc \in {"write", "replay"},
           Write(operation_id, WriteTitle, Enforced)
    PROVE  \/ UNCHANGED permissions
                 /\ (operation_id \in DOMAIN effects
                        \/ (Enforced /\ ~Authorized(operation_id, WriteTitle)))
           \/ Writes
<1>1. operation_id \in DOMAIN proposals
  BY DEF StrongInv, ControlInv, CreateSteps
<1>2. CASE \/ operation_id \in DOMAIN effects
           \/ Enforced /\ ~Authorized(operation_id, WriteTitle)
  BY <1>2 DEF Write
<1>3. CASE /\ operation_id \notin DOMAIN effects
           /\ Enforced => Authorized(operation_id, WriteTitle)
  BY <1>1, <1>3 DEF Write, Writes
<1> QED
  BY <1>2, <1>3

\* Every step leaves the store alone or is one of these.
LEMMA StoreMoves ==
    ASSUME Inv, StrongInv, Next
    PROVE  \/ UNCHANGED permissions
           \/ reserved /\ ProposeTask /\ Proposes(operation_id)
           \/ reserved /\ ScenarioProposesOther /\ Proposes(Other(operation_id))
           \/ \E op \in DOMAIN proposals : Changes(op)
                 /\ UNCHANGED <<messages, model_calls, cursor, reserved, pending,
                                operation_id, status, terminal>>
                 /\ status \in {"running", "awaiting_approval"} /\ pc' # "model"
           \/ ScenarioRevises /\ ChangeRevision
           \/ (WriteTask \/ ReplayWrite) /\ Writes
<1> USE DEF calls, counts, checkpoint, files, deaths, vars, Within
<1>0. /\ Inv /\ TypesInv /\ ControlInv
      /\ pc \in CreateSteps => status = "running" /\ operation_id \in DOMAIN proposals
      /\ status = "awaiting_approval" => operation_id \in DOMAIN proposals
  BY DEF StrongInv, ControlInv
<1>1. CASE ProposeTask
  BY <1>1, ProposeProposes DEF ProposeTask, InCall
<1>2. CASE ScenarioProposesOther
  BY <1>0, <1>2, ProposeProposes DEF ScenarioProposesOther, Configuring,
     ControlInv, CreateSteps
<1>3. CASE ScenarioDecides
  <2>1. Changes(operation_id)
    BY <1>0, <1>3, DecideChanges DEF ScenarioDecides, Configuring, CreateSteps
  <2> QED
    BY <1>0, <1>3, <2>1 DEF ScenarioDecides, Configuring, CreateSteps
<1>4. CASE ScenarioDecidesOther
  <2>1. Changes(Other(operation_id))
    BY <1>0, <1>4, DecideChanges DEF ScenarioDecidesOther, MustDecideOther,
       MustProposeOther
  <2> QED
    BY <1>0, <1>4, <2>1 DEF ScenarioDecidesOther, Configuring, CreateSteps,
       MustDecideOther, MustProposeOther
<1>5. CASE ScenarioGrants
  <2>1. Changes(operation_id)
    BY <1>0, <1>5, DecideChanges DEF ScenarioGrants, Configuring, CreateSteps
  <2> QED
    BY <1>0, <1>5, <2>1 DEF ScenarioGrants, Configuring, CreateSteps
<1>6. CASE OperatorDecides
  <2>1. Changes(operation_id)
    BY <1>0, <1>6, DecideChanges DEF OperatorDecides
  <2> QED
    BY <1>0, <1>6, <2>1 DEF OperatorDecides
<1>7. CASE ScenarioDatesBack
  <2>1. operation_id \in DOMAIN proposals /\ Pending(operation_id)
    BY <1>0, <1>7 DEF ScenarioDatesBack, Configuring, CreateSteps, MustDateBack
  <2>2. Changes(operation_id)
    BY <1>7, <2>1, RecordAtHand DEF ScenarioDatesBack, DateBack, Changes, Proposal
  <2> QED
    BY <1>0, <1>7, <2>1, <2>2 DEF ScenarioDatesBack, Configuring, CreateSteps
<1>8. CASE ScenarioRevises
  BY <1>8 DEF ScenarioRevises
<1>9. CASE WriteTask
  BY <1>9, WriteWrites DEF WriteTask
<1>10. CASE ReplayWrite
  BY <1>10, WriteWrites DEF ReplayWrite
<1>11. CASE SleepPastGrant
  BY <1>11 DEF SleepPastGrant
<1>12. ASSUME Quiet PROVE UNCHANGED permissions
  BY <1>12 DEF Quiet
<1> QED
  BY <1>1, <1>2, <1>3, <1>4, <1>5, <1>6, <1>7, <1>8, <1>9, <1>10, <1>11, <1>12,
     QuietSteps, ModelCallsStep, ReturnToolStep DEF Next, SessionStep

-----------------------------------------------------------------------------
(* The order of the operations *)

LEMMA OperationParts ==
    ASSUME NEW op \in OpIds
    PROVE  op[1] \in Nat /\ op[2] \in Nat /\ op = <<op[1], op[2], op[3]>>
  BY BoundaryAssumption, OpIdsAssumption

LEMMA OrderKept ==
    ASSUME OrderInv, UNCHANGED <<messages, model_calls, cursor, reserved>>,
           DOMAIN proposals' = DOMAIN proposals, pc' = "model" => pc = "model"
    PROVE  OrderInv'
  BY DEF OrderInv, Before, Precedes

LEMMA OrderStep ==
    ASSUME Inv, StrongInv, Next
    PROVE  OrderInv'
<1> USE DEF calls, counts, checkpoint, permissions, files, deaths, vars, Within
<1>0. /\ Inv /\ TypesInv /\ ControlInv /\ OrderInv
      /\ cursor \in Nat /\ Len(pending) \in Nat /\ Len(messages) \in Nat
      /\ model_calls \in Nat /\ tool_calls \in Nat
  BY BoundaryAssumption DEF StrongInv, Inv, CallsInv, TypesInv
<1>00. /\ \A op \in OpIds : op[1] \in Nat /\ op[2] \in Nat
       /\ \A i \in 1 .. Len(messages) : messages[i].operation_id \in OpIds
  <2>1. \A op \in OpIds : op[1] \in Nat /\ op[2] \in Nat
    BY OperationParts
  <2>2. ASSUME NEW i \in 1 .. Len(messages) PROVE messages[i].operation_id \in OpIds
    <3>1. messages[i] \in Message
      BY <1>0 DEF TypesInv
    <3> QED
      BY <3>1 DEF Message
  <2> QED
    BY <2>1, <2>2
<1>1. CASE RequestModel
  <2>1. /\ model_calls' = model_calls + 1
        /\ UNCHANGED <<messages, cursor, reserved, proposals>>
        /\ pc = "request" \/ AtModel
    BY <1>1 DEF RequestModel
  <2>2. ASSUME NEW i \in 1 .. Len(messages)
        PROVE  messages[i].operation_id[1] < model_calls + 1
    <3>1. messages[i].operation_id[1] \in Nat
      BY <1>00
    <3>2. Before(messages[i].operation_id)
      BY <1>0 DEF OrderInv
    <3>3. messages[i].operation_id[1] <= model_calls
      BY <1>0, <3>1, <3>2 DEF Before
    <3> QED
      BY <1>0, <3>1, <3>3
  <2>3. ASSUME NEW op \in DOMAIN proposals PROVE op[1] < model_calls + 1
    <3>1. op \in OpIds /\ op[1] \in Nat
      BY <1>0, <1>00 DEF OrderInv
    <3>2. op[1] <= model_calls
      BY <1>0, <3>1 DEF OrderInv, Before
    <3> QED
      BY <1>0, <3>1, <3>2
  <2>4. \A i, j \in 1 .. Len(messages) : i < j =>
            Precedes(messages[i].operation_id, messages[j].operation_id)
    BY <1>0 DEF OrderInv
  <2>5. DOMAIN proposals \subseteq OpIds
    BY <1>0 DEF OrderInv
  <2> QED
    BY <2>1, <2>2, <2>3, <2>4, <2>5 DEF OrderInv, Before, Precedes
<1>2. CASE ModelCalls
  BY <1>2, <1>0, <1>00 DEF ModelCalls, OrderInv, Before, Precedes
<1>3. CASE ReserveTool
  BY <1>3, <1>0, <1>00 DEF ReserveTool, AtTool, Driving, OrderInv, Before,
     Precedes
<1>4. CASE ReturnTool
  <2>1. reserved /\ operation_id = <<model_calls, cursor, 0>>
    BY <1>4, <1>0 DEF ReturnTool, ControlInv
  <2> DEFINE m == [operation_id |-> operation_id, call |-> Call, answer |-> answer]
  <2>2. /\ Len(messages') = Len(messages) + 1
        /\ messages'[Len(messages) + 1] = m
        /\ \A i \in 1 .. Len(messages) : messages'[i] = messages[i]
    BY <1>4, <1>0 DEF ReturnTool, TypesInv
  <2>3. m.operation_id[1] = model_calls /\ m.operation_id[2] = cursor
    BY <2>1
  <2>4. /\ cursor' = cursor + 1 /\ ~reserved' /\ pc' = "drive"
        /\ UNCHANGED <<model_calls, proposals>>
    BY <1>4 DEF ReturnTool
  <2> HIDE DEF m
  <2>5. \A i \in 1 .. Len(messages') : i \in 1 .. Len(messages) \/ i = Len(messages) + 1
    BY <1>0, <2>2
  <2>6. ASSUME NEW i \in 1 .. Len(messages')
        PROVE  LET op == messages'[i].operation_id
               IN  op[1] < model_calls \/ (op[1] = model_calls /\ op[2] < cursor + 1)
    <3>1. CASE i = Len(messages) + 1
      BY <1>0, <2>2, <2>3, <3>1
    <3>2. CASE i \in 1 .. Len(messages)
      <4>1. Before(messages[i].operation_id) /\ messages[i].operation_id \in OpIds
        BY <1>0, <1>00, <3>2 DEF OrderInv
      <4> QED
        BY <1>0, <1>00, <2>2, <3>2, <4>1 DEF Before
    <3> QED
      BY <2>5, <3>1, <3>2
  <2>7. ASSUME NEW i \in 1 .. Len(messages'), NEW j \in 1 .. Len(messages'), i < j
        PROVE  Precedes(messages'[i].operation_id, messages'[j].operation_id)
    <3>1. i \in 1 .. Len(messages)
      BY <1>0, <2>2, <2>7
    <3>2. CASE j = Len(messages) + 1
      <4>1. Before(messages[i].operation_id)
        BY <1>0, <3>1 DEF OrderInv
      <4> QED
        BY <2>2, <2>3, <3>1, <3>2, <4>1 DEF Before, Precedes
    <3>3. CASE j \in 1 .. Len(messages)
      BY <1>0, <2>2, <2>7, <3>1, <3>3 DEF OrderInv
    <3> QED
      BY <2>5, <3>2, <3>3
  <2>8. /\ DOMAIN proposals' \subseteq OpIds
        /\ \A op \in DOMAIN proposals' :
              op[1] < model_calls \/ (op[1] = model_calls /\ op[2] < cursor + 1)
    BY <1>0, <1>00, <2>4 DEF OrderInv, Before
  <2> QED
    BY <2>4, <2>6, <2>7, <2>8 DEF OrderInv, Precedes, Before
<1>5. ASSUME NEW op, \/ op = operation_id
                  \/ op = Other(operation_id),
             reserved, UNCHANGED <<messages, model_calls, cursor, reserved>>,
             DOMAIN proposals' = DOMAIN proposals \cup {op}, pc' # "model"
      PROVE  OrderInv'
  <2>1. op \in OpIds /\ op[1] = model_calls /\ op[2] = cursor
    <3>1. operation_id[1] = model_calls /\ operation_id[2] = cursor
      BY <1>0, <1>5 DEF ControlInv
    <3> QED
      BY <1>0, <1>5, <3>1, ReservedOperation DEF Other
  <2> QED
    BY <1>0, <1>5, <2>1 DEF OrderInv, Before, Precedes
<1>6. CASE ProposeTask
  <2>1. reserved /\ pc' # "model" /\ UNCHANGED <<messages, model_calls, cursor, reserved>>
    BY <1>6 DEF ProposeTask, InCall
  <2>2. \/ DOMAIN proposals' = DOMAIN proposals
        \/ DOMAIN proposals' = DOMAIN proposals \cup {operation_id}
    BY <1>6 DEF ProposeTask, Propose, With
  <2> QED
    BY <1>0, <1>5, <2>1, <2>2, OrderKept
<1>7. CASE ScenarioProposesOther
  <2>1. reserved /\ pc' # "model" /\ UNCHANGED <<messages, model_calls, cursor, reserved>>
    BY <1>0, <1>7 DEF ScenarioProposesOther, Configuring, ControlInv, CreateSteps
  <2>2. \/ DOMAIN proposals' = DOMAIN proposals
        \/ DOMAIN proposals' = DOMAIN proposals \cup {Other(operation_id)}
    BY <1>7 DEF ScenarioProposesOther, Propose, With
  <2> QED
    BY <1>0, <1>5, <2>1, <2>2, OrderKept
<1>8. CASE ScenarioRevises \/ WriteTask \/ ReplayWrite
  <2>1. DOMAIN proposals' = DOMAIN proposals
    BY <1>0, <1>8, WriteKeeps DEF ScenarioRevises, ChangeRevision, WriteTask, ReplayWrite, Inv
  <2> QED
    BY <1>0, <1>8, <2>1, OrderKept DEF ScenarioRevises, Configuring, WriteTask, ReplayWrite
<1>9. ASSUME UNCHANGED <<messages, model_calls, cursor, reserved>>,
              UNCHANGED permissions, pc' = "model" => pc = "model"
       PROVE  OrderInv'
  BY <1>0, <1>9, OrderKept
<1>10. CASE ModelLimit \/ RefreshContext \/ ModelStops \/ ProviderFails \/ ToolLimit
  BY <1>9, <1>10 DEF ModelLimit, RefreshContext, ModelStops, ProviderFails, ToolLimit, Finish
<1>11. CASE \/ SleepPastGrant \/ ScenarioApplied \/ AlreadyConfigured
            \/ AwaitApproval \/ AttemptWrite \/ RecordWrite \/ RecordReplay
            \/ ReadTask \/ ReadRequest \/ RefuseCall
  BY <1>9, <1>11 DEF SleepPastGrant, ScenarioApplied, AlreadyConfigured, AwaitApproval,
     AttemptWrite, RecordWrite, RecordReplay, ReadTask, ReadRequest, RefuseCall
<1>12. CASE \/ Measure \/ SaveEvaluation \/ SaveReport \/ RecordDecision \/ Resume
            \/ ResumeSettled \/ ResumeRefused \/ Crash \/ Interrupt \/ Tick
  BY <1>9, <1>12 DEF Measure, SaveEvaluation, SaveReport, RecordDecision, Resume,
     ResumeSettled, ResumeRefused, Crash, Interrupt, Tick
<1>13. CASE \/ ScenarioDecides \/ ScenarioDecidesOther \/ ScenarioGrants
            \/ ScenarioDatesBack \/ OperatorDecides
  <2>1. DOMAIN proposals' = DOMAIN proposals
    BY <1>13 DEF ScenarioDecides, ScenarioDecidesOther, ScenarioGrants, OperatorDecides,
       ScenarioDatesBack, Decide, DateBack
  <2> QED
    BY <1>0, <1>13, <2>1, OrderKept DEF ScenarioDecides, ScenarioDecidesOther, ScenarioGrants,
       OperatorDecides, ScenarioDatesBack, Configuring
<1> QED
  BY <1>1, <1>2, <1>3, <1>4, <1>6, <1>7, <1>8, <1>10, <1>11, <1>12, <1>13
     DEF Next, SessionStep

-----------------------------------------------------------------------------
(* The call in hand *)

\* Which steps write which part of the journal.
LEMMA JournalMoves ==
    ASSUME Next
    PROVE  /\ messages' = messages \/ ReturnTool
           /\ pending' = pending \/ ModelCalls
           /\ cursor' = cursor \/ ModelCalls \/ ReturnTool
           /\ UNCHANGED <<reserved, operation_id>> \/ ReserveTool \/ ReturnTool
           /\ refreshed' = refreshed \/ RefreshContext
           /\ \/ UNCHANGED terminal
              \/ ModelLimit \/ ModelStops \/ ProviderFails \/ ToolLimit
           /\ evaluation' = evaluation \/ SaveEvaluation
           /\ pc' \in {"request", "model"} =>
                 pc' = pc \/ RefreshContext \/ RequestModel
<1> USE DEF calls, counts, checkpoint, permissions, files, deaths, vars, Within
<1>1. CASE \/ ModelLimit \/ RefreshContext \/ RequestModel \/ ModelStops
           \/ ModelCalls \/ ProviderFails \/ ToolLimit \/ ReserveTool
  BY <1>1 DEF ModelLimit, RefreshContext, RequestModel, ModelStops,
     ModelCalls, ProviderFails, ToolLimit, ReserveTool, Finish, AtTool, Driving
<1>2. CASE \/ ProposeTask \/ ScenarioDecides \/ SleepPastGrant
           \/ ScenarioProposesOther \/ ScenarioDecidesOther \/ ScenarioRevises
           \/ ScenarioDatesBack \/ ScenarioGrants \/ ScenarioApplied
           \/ AlreadyConfigured \/ AwaitApproval \/ AttemptWrite
  BY <1>2 DEF ProposeTask, ScenarioDecides, SleepPastGrant,
     ScenarioProposesOther, ScenarioDecidesOther, ScenarioRevises,
     ScenarioDatesBack, ScenarioGrants, ScenarioApplied, AlreadyConfigured,
     AwaitApproval, AttemptWrite, Configuring
<1>3. CASE \/ WriteTask \/ RecordWrite \/ ReplayWrite \/ RecordReplay
           \/ ReadTask \/ ReadRequest \/ RefuseCall \/ ReturnTool
           \/ Measure \/ SaveEvaluation \/ SaveReport \/ RecordDecision
  BY <1>3 DEF WriteTask, RecordWrite, ReplayWrite, RecordReplay, ReadTask,
     ReadRequest, RefuseCall, ReturnTool, Measure, SaveEvaluation, SaveReport,
     RecordDecision
<1>4. CASE \/ Resume \/ ResumeSettled \/ ResumeRefused \/ OperatorDecides
           \/ Crash \/ Interrupt \/ Tick
  BY <1>4 DEF Resume, ResumeSettled, ResumeRefused, OperatorDecides, Crash,
     Interrupt, Tick
<1> QED
  BY <1>1, <1>2, <1>3, <1>4 DEF Next, SessionStep

\* A call is in hand from its reservation to its answer, and nothing about it
\* changes in between.
LEMMA ReservedStep ==
    ASSUME Inv, StrongInv, Next, reserved'
    PROVE  \/ ReserveTool
           \/ reserved /\ UNCHANGED <<config, pending, cursor, operation_id,
                                      model_calls, messages>>
<1>1. ~ReturnTool
  BY DEF ReturnTool
<1>2. CASE ReserveTool
  BY <1>2
<1>3. CASE UNCHANGED <<reserved, operation_id>>
  <2>1. ~ModelCalls /\ UNCHANGED <<pending, cursor, messages>>
    BY <1>1, <1>3, JournalMoves DEF ModelCalls, StrongInv, ControlInv
  <2>2. model_calls' = model_calls
    BY <1>3, ControlStep, <2>1 DEF StrongInv, ControlInv
  <2>3. config' = config
    BY QuietSteps, ModelCallsStep, ReturnToolStep, StoreSteps
       DEF Next, SessionStep, Quiet
  <2> QED
    BY <1>3, <2>1, <2>2, <2>3
<1> QED
  BY <1>1, <1>2, <1>3, JournalMoves

\* An operation is new when its call is reserved.
LEMMA NewOperation ==
    ASSUME Inv, StrongInv, ReserveTool
    PROVE  operation_id' \notin DOMAIN proposals
<1>1. /\ operation_id' = <<model_calls, cursor, 0>> /\ ~reserved
      /\ cursor \in Nat /\ model_calls \in Nat
  BY DEF ReserveTool, Inv, CallsInv, StrongInv, TypesInv
<1>2. ~Before(operation_id')
  BY <1>1 DEF Before
<1> QED
  BY <1>1, <1>2 DEF StrongInv, OrderInv

\* A call that proposes a task asks for it.
LEMMA CreateCall ==
    ASSUME Inv, StrongInv, reserved, Call.name = "create_task"
    PROVE  Call = Create(Call.arg) /\ Call.arg \in Titles
<1>1. Call \in Requests
  BY ReservedOperation DEF StrongInv
<1> QED
  BY <1>1 DEF Requests, Create, GetRequest, BadCall

LEMMA RequestStep ==
    ASSUME Inv, StrongInv, Next
    PROVE  RequestInv'
<1> SUFFICES ASSUME reserved' PROVE RequestInv'
  BY DEF RequestInv
<1>0. /\ RequestInv /\ DOMAIN effects' \subseteq DOMAIN proposals'
      /\ FinalStep
  BY EveryStep DEF StrongInv, Inv, StoreInv
<1>1. CASE ReserveTool
  <2>1. operation_id' \notin DOMAIN proposals' /\ operation_id' \notin DOMAIN effects'
    BY <1>0, <1>1, NewOperation DEF ReserveTool, permissions
  <2> QED
    BY <2>1 DEF RequestInv
<1>2. CASE reserved /\ UNCHANGED <<config, pending, cursor, operation_id,
                                   model_calls, messages>>
  <2>1. Call' = Call /\ WriteTitle' = WriteTitle
    BY <1>2 DEF Call, WriteTitle
  <2>2. CASE operation_id \in DOMAIN proposals
    <3>1. operation_id' \in DOMAIN proposals' =>
             Call' = Create(proposals'[operation_id'].title)
      BY <1>0, <1>2, <2>1, <2>2 DEF RequestInv, FinalStep
    <3>2. operation_id \in DOMAIN effects =>
             effects'[operation_id'].title = WriteTitle'
      BY <1>0, <1>2, <2>1 DEF RequestInv, FinalStep
    <3>3. Writes => effects'[operation_id].title = WriteTitle
      BY DEF Writes, Insert, With
    <3>4. ~Writes => effects' = effects
      BY StoreMoves DEF permissions, Proposes, Changes, ChangeRevision
    <3> QED
      BY <1>2, <2>1, <3>1, <3>2, <3>3, <3>4 DEF RequestInv
  <2>3. CASE operation_id \notin DOMAIN proposals
    <3>1. operation_id \notin DOMAIN effects /\ effects' = effects
      BY <2>3, StoreMoves DEF permissions, Proposes, Changes, ChangeRevision,
         Writes, Inv, StoreInv
    <3>2. ASSUME ProposeTask, Proposes(operation_id)
          PROVE  Call = Create(proposals'[operation_id].title)
      <4>1. proposals'[operation_id].title = Call.arg /\ Call.name = "create_task"
        BY <2>3, <3>2, ProposeProposes DEF ProposeTask, Propose, With
      <4> QED
        BY <1>2, <4>1, CreateCall
    <3>3. ASSUME operation_id \in DOMAIN proposals'
          PROVE  ProposeTask /\ Proposes(operation_id)
      <4>1. Other(operation_id) # operation_id
        <5>1. operation_id[3] = 0 /\ Other(operation_id)[3] = 1
          BY <1>2 DEF StrongInv, ControlInv, Other
        <5> QED
          BY <5>1
      <4> QED
        BY <2>3, <3>3, <4>1, StoreMoves DEF permissions, Proposes, Changes,
           ChangeRevision, Writes
    <3> QED
      BY <1>2, <2>1, <3>1, <3>2, <3>3 DEF RequestInv
  <2> QED
    BY <2>2, <2>3
<1> QED
  BY <1>1, <1>2, ReservedStep

-----------------------------------------------------------------------------
(* The ledger *)

LEMMA LedgerQuiet ==
    ASSUME LedgerInv, UNCHANGED <<config, tasks, effects, fresh>>,
           DOMAIN proposals \subseteq DOMAIN proposals',
           \A op \in DOMAIN proposals :
               \/ proposals'[op] = proposals[op]
               \/ proposals[op].decision # "approved"
                     /\ proposals'[op].consumed_task_id = proposals[op].consumed_task_id,
           \A op \in DOMAIN proposals' \ DOMAIN proposals :
               proposals'[op].consumed_task_id = 0
    PROVE  LedgerInv'
<1>1. \A op \in DOMAIN proposals' : proposals'[op].consumed_task_id # 0 => Used(op)'
  BY DEF LedgerInv, Used
<1> QED
  BY <1>1 DEF LedgerInv, OneTaskPerOperation, Seeded, Injected

\* One row more in tasks, one more in effects, with an identifier of its own.
LEMMA LedgerWrites ==
    ASSUME Inv, LedgerInv, Writes, UNCHANGED <<config, now>>,
           WriteTitle \in Titles
    PROVE  LedgerInv'
<1>0. PICK op : op = operation_id
  OBVIOUS
<1> DEFINE new == [id |-> fresh, title |-> WriteTitle]
           effect == [task_id |-> fresh, title |-> WriteTitle, admitted_at |-> now,
                      request_revision |-> authority.request_revision,
                      policy_revision |-> authority.policy_revision]
<1>1. /\ tasks' = tasks \cup {new}
      /\ fresh' = fresh + 1
      /\ op \notin DOMAIN effects /\ op \in DOMAIN proposals
      /\ DOMAIN effects' = DOMAIN effects \cup {op}
      /\ effects'[op] = effect
      /\ \A o \in DOMAIN effects : effects'[o] = effects[o]
  BY <1>0 DEF Writes, Insert, With
<1>2. fresh \in Nat /\ now \in Nat /\ authority \in Authority /\ fresh >= 2
  BY DEF Inv, StoreInv, LedgerInv
<1>3. effect \in Effect
  BY <1>2 DEF Effect, Authority
<1>4. new \notin tasks /\ new \notin Seeded /\ Seeded' = Seeded
  <2>1. new.id = fresh
    OBVIOUS
  <2>2. new \notin tasks
    BY <1>2, <2>1 DEF LedgerInv
  <2> QED
    BY <2>2 DEF LedgerInv, Seeded, Injected
<1>5. tasks' \ Seeded' = (tasks \ Seeded) \cup {new}
  BY <1>1, <1>4
<1>6. IsFiniteSet(tasks \ Seeded)
  <2>1. IsFiniteSet(tasks)
    BY DEF LedgerInv
  <2> QED
    BY <2>1, FS_Subset
<1>7. /\ IsFiniteSet(tasks') /\ IsFiniteSet(DOMAIN effects')
      /\ Cardinality(tasks' \ Seeded') = Cardinality(DOMAIN effects')
  <2>1. IsFiniteSet(tasks) /\ IsFiniteSet(DOMAIN effects)
    BY DEF LedgerInv
  <2>2. IsFiniteSet(tasks') /\ IsFiniteSet(DOMAIN effects')
    BY <1>1, <2>1, FS_AddElement
  <2>3. Cardinality(tasks' \ Seeded') = Cardinality(tasks \ Seeded) + 1
    <3> HIDE DEF new
    <3>1. new \notin tasks \ Seeded
      BY <1>4
    <3>2. Cardinality((tasks \ Seeded) \cup {new}) = Cardinality(tasks \ Seeded) + 1
      BY <1>6, <3>1, FS_AddElement
    <3> QED
      BY <1>5, <3>2
  <2>4. Cardinality(DOMAIN effects') = Cardinality(DOMAIN effects) + 1
    BY <1>1, <2>1, FS_AddElement
  <2>5. Cardinality(tasks \ Seeded) = Cardinality(DOMAIN effects)
    BY DEF LedgerInv, OneTaskPerOperation
  <2> QED
    BY <2>2, <2>3, <2>4, <2>5
<1>8. \A o \in DOMAIN effects' :
         effects'[o] \in Effect /\ effects'[o].task_id \in 2 .. (fresh' - 1)
  BY <1>1, <1>2, <1>3 DEF LedgerInv
<1>9. \A t \in tasks' : t.id \in Nat /\ t.id < fresh'
  BY <1>1, <1>2 DEF LedgerInv
<1>10. OneTaskPerOperation'
  <2>1. \A t \in tasks' \ Seeded' : \E o \in DOMAIN effects' :
           effects'[o].task_id = t.id /\ effects'[o].title = t.title
    BY <1>1, <1>5 DEF LedgerInv, OneTaskPerOperation
  <2>2. \A o \in DOMAIN effects : effects'[o].task_id # effects'[op].task_id
    BY <1>1, <1>2 DEF LedgerInv
  <2>3. \A o, other \in DOMAIN effects' :
           effects'[o].task_id = effects'[other].task_id => o = other
    BY <1>1, <2>2 DEF LedgerInv, OneTaskPerOperation
  <2> QED
    BY <1>7, <2>1, <2>3 DEF OneTaskPerOperation
<1>11. \A o \in DOMAIN proposals' : proposals'[o].consumed_task_id # 0 => Used(o)'
  <2>1. /\ DOMAIN proposals' = DOMAIN proposals
        /\ \A o \in DOMAIN proposals : o # op => proposals'[o] = proposals[o]
    BY <1>0 DEF Writes, Insert
  <2>2. ASSUME NEW o \in DOMAIN proposals, o # op,
               proposals'[o].consumed_task_id # 0
        PROVE  Used(o)'
    BY <1>1, <2>1, <2>2 DEF LedgerInv, Used
  <2>3. ASSUME proposals'[op].consumed_task_id # 0 PROVE Used(op)'
    <3>1. proposals[op] \in Proposal
      BY <1>1, RecordAtHand
    <3>2. proposals[op].consumed_task_id = 0
      BY <1>1 DEF LedgerInv, Used
    <3>3. Authorized(op, WriteTitle)
      BY <1>0, <2>3, <3>2 DEF Writes, Insert
    <3>4. proposals'[op] = [proposals[op] EXCEPT !.consumed_task_id = fresh]
      BY <1>0, <1>1, <3>3 DEF Writes, Insert
    <3>5. /\ proposals[op].title = WriteTitle
          /\ proposals[op].request_revision = authority.request_revision
          /\ proposals[op].policy_revision = authority.policy_revision
          /\ proposals[op].decision = "approved"
          /\ proposals[op].granted_at <= now /\ now < proposals[op].expires_at
      BY <3>3 DEF Authorized, Granted
    <3>6. /\ proposals'[op].title = WriteTitle
          /\ proposals'[op].request_revision = authority.request_revision
          /\ proposals'[op].policy_revision = authority.policy_revision
          /\ proposals'[op].decision = "approved"
          /\ proposals'[op].granted_at <= now /\ now < proposals'[op].expires_at
          /\ proposals'[op].consumed_task_id = fresh
      BY <3>1, <3>4, <3>5 DEF Proposal
    <3> QED
      BY <1>1, <3>6 DEF Used
  <2> QED
    BY <2>1, <2>2, <2>3
<1> QED
  BY <1>1, <1>2, <1>4, <1>7, <1>8, <1>9, <1>10, <1>11 DEF LedgerInv

LEMMA LedgerStep ==
    ASSUME Inv, StrongInv, Next
    PROVE  LedgerInv'
<1> USE DEF calls, counts, checkpoint, files, deaths, vars, Within
<1>0. LedgerInv /\ config' = config
  BY EveryStep, QuietSteps, ModelCallsStep, ReturnToolStep, StoreSteps
     DEF StrongInv, Next, SessionStep, Quiet
<1>1. CASE UNCHANGED permissions
  BY <1>0, <1>1, LedgerQuiet DEF permissions
<1>2. ASSUME NEW op, Proposes(op) PROVE LedgerInv'
  BY <1>0, <1>2, LedgerQuiet DEF Proposes
<1>3. ASSUME NEW op \in DOMAIN proposals, Changes(op) PROVE LedgerInv'
  BY <1>0, <1>3, LedgerQuiet DEF Changes, Pending
<1>4. CASE ScenarioRevises /\ ChangeRevision
  BY <1>0, <1>4, LedgerQuiet DEF ChangeRevision
<1>5. CASE (WriteTask \/ ReplayWrite) /\ Writes
  <2>1. WriteTitle \in Titles
    <3>1. reserved /\ operation_id \in DOMAIN proposals
      BY <1>5 DEF WriteTask, ReplayWrite, StrongInv, ControlInv, CreateSteps
    <3>2. Call.name = "create_task"
      BY <3>1 DEF StrongInv, RequestInv, Create
    <3> QED
      BY <3>1, <3>2, CreateCall, TitlesKnown DEF WriteTitle
  <2>2. UNCHANGED <<config, now>>
    BY <1>5 DEF WriteTask, ReplayWrite
  <2> QED
    BY <1>0, <1>5, <2>1, <2>2, LedgerWrites
<1> QED
  BY <1>1, <1>2, <1>3, <1>4, <1>5, StoreMoves


-----------------------------------------------------------------------------
(* The answers *)

\* Only the operation in hand gets an effect, and only in a write step.
LEMMA EffectsStep ==
    ASSUME Inv, StrongInv, Next
    PROVE  \/ effects' = effects
           \/ /\ WriteTask \/ ReplayWrite
              /\ reserved
              /\ operation_id \notin DOMAIN effects
              /\ DOMAIN effects' = DOMAIN effects \cup {operation_id}
              /\ effects'[operation_id].task_id = fresh
              /\ \A op \in DOMAIN effects : effects'[op] = effects[op]
<1>1. ASSUME Writes
      PROVE  /\ operation_id \notin DOMAIN effects
             /\ DOMAIN effects' = DOMAIN effects \cup {operation_id}
             /\ effects'[operation_id].task_id = fresh
             /\ \A op \in DOMAIN effects : effects'[op] = effects[op]
  BY <1>1 DEF Writes, Insert, With
<1>2. WriteTask \/ ReplayWrite => reserved
  BY DEF WriteTask, ReplayWrite, StrongInv, ControlInv, CreateSteps
<1> QED
  BY <1>1, <1>2, StoreMoves DEF permissions, Proposes, Changes, ChangeRevision

\* An answered call is not the one in hand.
LEMMA AnsweredBefore ==
    ASSUME Inv, StrongInv, reserved, NEW i \in 1 .. Len(messages)
    PROVE  messages[i].operation_id # operation_id
<1>1. Before(messages[i].operation_id)
  BY DEF StrongInv, OrderInv
<1>2. operation_id = <<model_calls, cursor, 0>> /\ cursor \in Nat /\ model_calls \in Nat
  BY DEF StrongInv, ControlInv, TypesInv, Inv, CallsInv
<1>3. ~Before(operation_id)
  BY <1>2 DEF Before
<1> QED
  BY <1>1, <1>3

LEMMA TruthStep ==
    ASSUME Inv, StrongInv, Next
    PROVE  AnswersTellTheTruth'
<1>1. /\ \A i \in 1 .. Len(messages) : messages[i].call.name = "create_task" =>
            messages[i].answer.task = TaskOf(messages[i].operation_id)
      /\ messages \in Seq(Message)
  BY DEF StrongInv, AnswersInv, AnswersTellTheTruth, TaskOf, TypesInv
<1>2. ASSUME NEW i \in 1 .. Len(messages)
      PROVE  TaskOf(messages[i].operation_id) =
                 IF messages[i].operation_id \in DOMAIN effects'
                 THEN effects'[messages[i].operation_id].task_id ELSE 0
  BY EffectsStep, AnsweredBefore DEF TaskOf
<1>3. CASE messages' = messages
  BY <1>1, <1>2, <1>3 DEF AnswersTellTheTruth
<1>4. CASE ReturnTool
  <2> DEFINE m == [operation_id |-> operation_id, call |-> Call, answer |-> answer]
  <2>1. /\ Len(messages') = Len(messages) + 1
        /\ messages'[Len(messages) + 1] = m
        /\ \A i \in 1 .. Len(messages) : messages'[i] = messages[i]
    BY <1>1, <1>4 DEF ReturnTool
  <2>2. effects' = effects
    BY <1>4 DEF ReturnTool, permissions
  <2>3. m.call.name = "create_task" => m.answer.task = TaskOf(m.operation_id)
    BY <1>4 DEF ReturnTool, StrongInv, AnswersInv
  <2> HIDE DEF m
  <2>4. \A i \in 1 .. Len(messages') :
           i \in 1 .. Len(messages) \/ i = Len(messages) + 1
    BY <1>1, <2>1
  <2> QED
    BY <1>1, <2>1, <2>2, <2>3, <2>4 DEF AnswersTellTheTruth, TaskOf
<1> QED
  BY <1>3, <1>4, JournalMoves

LEMMA AnswersStep ==
    ASSUME Inv, StrongInv, Next
    PROVE  AnswersInv'
<1> USE DEF calls, counts, checkpoint, files, deaths, vars, Within
<1> DEFINE Places == {"written", "replay", "replayed", "answer"}
           Fits == /\ pc \in Places /\ Call.name = "create_task" =>
                         answer.task = TaskOf(operation_id)
                             /\ (answer.ok <=> answer.task # 0)
                   /\ pc \in {"replay", "replayed"} => operation_id \in DOMAIN effects
<1> SUFFICES Fits'
  BY TruthStep DEF AnswersInv
<1>0. Fits
  BY DEF StrongInv, AnswersInv
<1>1. CASE pc' \notin Places
  BY <1>1
<1>2. CASE UNCHANGED <<pc, answer, pending, cursor, operation_id, effects>>
  BY <1>0, <1>2 DEF Call, TaskOf
<1>3. ASSUME UNCHANGED <<answer, pending, cursor, operation_id, effects>>,
             pc \in Places, pc' \in Places,
             pc' = "replay" => answer.ok,
             pc' = "replayed" => pc = "replay",
             Call.name = "create_task"
      PROVE  Fits'
  <2>1. answer.task = TaskOf(operation_id) /\ (answer.ok <=> answer.task # 0)
    BY <1>0, <1>3
  <2>2. pc' = "replay" => operation_id \in DOMAIN effects
    BY <1>3, <2>1 DEF TaskOf
  <2> QED
    BY <1>0, <1>3, <2>1, <2>2 DEF Call, TaskOf
<1>4. pc \in CreateSteps => Call.name = "create_task" /\ operation_id \in DOMAIN proposals
  BY DEF StrongInv, ControlInv, RequestInv, Create
<1>5. CASE WriteTask
  <2>1. answer' = Result(WrittenTask(operation_id, WriteTitle, Enforced) # 0,
                         WrittenTask(operation_id, WriteTitle, Enforced),
                         WrittenTask(operation_id, WriteTitle, Enforced) # 0)
    BY <1>5 DEF WriteTask
  <2>2. TaskOf(operation_id)' = WrittenTask(operation_id, WriteTitle, Enforced)
    <3>0. operation_id' = operation_id
      BY <1>5 DEF WriteTask
    <3>1. CASE operation_id \in DOMAIN effects
      BY <1>5, <3>0, <3>1 DEF WriteTask, Write, TaskOf, WrittenTask, permissions
    <3>2. CASE operation_id \notin DOMAIN effects /\ Enforced
                  /\ ~Authorized(operation_id, WriteTitle)
      BY <1>5, <3>0, <3>2 DEF WriteTask, Write, TaskOf, WrittenTask, permissions
    <3>3. CASE operation_id \notin DOMAIN effects
                  /\ (Enforced => Authorized(operation_id, WriteTitle))
      <4>1. Insert(operation_id, WriteTitle)
        BY <1>5, <3>3 DEF WriteTask, Write
      <4>2. operation_id \in DOMAIN effects' /\ effects'[operation_id].task_id = fresh
        BY <4>1 DEF Insert, With
      <4> QED
        BY <3>0, <3>3, <4>2 DEF TaskOf, WrittenTask
    <3> QED
      BY <3>1, <3>2, <3>3
  <2>3. answer'.task = TaskOf(operation_id)' /\ (answer'.ok <=> answer'.task # 0)
    BY <2>1, <2>2 DEF Result, NoAnswer
  <2>4. pc' = "written"
    BY <1>5 DEF WriteTask
  <2> QED
    BY <2>3, <2>4
<1>6. CASE RecordWrite
  BY <1>3, <1>4, <1>6 DEF RecordWrite, permissions, CreateSteps
<1>7. CASE ReplayWrite
  <2>1. pc = "replay" /\ operation_id \in DOMAIN effects
    BY <1>0, <1>7 DEF ReplayWrite
  <2>2. UNCHANGED permissions
    BY <1>7, <2>1 DEF ReplayWrite, Write
  <2> QED
    BY <1>3, <1>4, <1>7, <2>1, <2>2 DEF ReplayWrite, permissions, CreateSteps
<1>8. CASE RecordReplay
  BY <1>3, <1>4, <1>8 DEF RecordReplay, permissions, CreateSteps
<1>9. CASE ReadTask \/ ReadRequest \/ RefuseCall
  <2>1. Call.name # "create_task" /\ Call' = Call /\ pc' = "answer"
    BY <1>9 DEF ReadTask, ReadRequest, RefuseCall, Call
  <2> QED
    BY <2>1
<1>10. CASE \/ ModelLimit \/ RefreshContext \/ RequestModel \/ ModelStops
            \/ ModelCalls \/ ProviderFails \/ ToolLimit \/ ReserveTool
  BY <1>1, <1>10 DEF ModelLimit, RefreshContext, RequestModel, ModelStops,
     ModelCalls, ProviderFails, ToolLimit, ReserveTool, Finish, AtTool, Driving
<1>11. CASE \/ ProposeTask \/ ScenarioDecides \/ SleepPastGrant
            \/ ScenarioProposesOther \/ ScenarioDecidesOther \/ ScenarioRevises
            \/ ScenarioDatesBack \/ ScenarioGrants \/ ScenarioApplied
            \/ AlreadyConfigured \/ AwaitApproval \/ AttemptWrite
  BY <1>1, <1>11 DEF ProposeTask, ScenarioDecides, SleepPastGrant,
     ScenarioProposesOther, ScenarioDecidesOther, ScenarioRevises,
     ScenarioDatesBack, ScenarioGrants, ScenarioApplied, AlreadyConfigured,
     AwaitApproval, AttemptWrite, Configuring
<1>12. CASE ResumeRefused \/ Tick
  BY <1>2, <1>12 DEF ResumeRefused, Tick, permissions
<1>13. CASE \/ ReturnTool \/ Measure \/ SaveEvaluation \/ SaveReport
            \/ RecordDecision \/ Resume \/ ResumeSettled \/ OperatorDecides
            \/ Crash \/ Interrupt
  BY <1>1, <1>13 DEF ReturnTool, Measure, SaveEvaluation, SaveReport,
     RecordDecision, Resume, ResumeSettled, OperatorDecides, Crash, Interrupt
<1> QED
  BY <1>5, <1>6, <1>7, <1>8, <1>9, <1>10, <1>11, <1>12, <1>13 DEF Next, SessionStep

-----------------------------------------------------------------------------
(* The strengthening is inductive *)

LEMMA InitStrong == Init => StrongInv
<1> SUFFICES ASSUME Init PROVE StrongInv
  OBVIOUS
<1>1. TypesInv
  <2>1. answer \in Answers
    BY DEF Init, Answers, NoAnswer
  <2>2. messages = << >> /\ messages \in Seq(Message) /\ Len(messages) = 0
    BY DEF Init
  <2>3. status \in {"running", "awaiting_approval", "blocked", "finished", "error"}
    BY DEF Init
  <2>4. /\ model_calls \in 0 .. MaxModelCalls /\ tool_calls \in 0 .. MaxToolCalls
        /\ crashes \in 0 .. MaxCrashes
        /\ tool_executions \in 0 .. Len(messages)
    BY <2>2, BoundaryAssumption DEF Init
  <2>5. /\ config \in Configs /\ refreshed \in BOOLEAN /\ reserved \in BOOLEAN
        /\ operation_id \in OpIds \cup {NoOperation}
        /\ configured_operations \subseteq OpIds /\ journal_hot \in BOOLEAN
    BY DEF Init
  <2> QED
    BY <2>1, <2>2, <2>3, <2>4, <2>5 DEF TypesInv
<1>2. ControlInv
  BY DEF Init, ControlInv, CreateSteps
<1>3. /\ proposals = << >> /\ effects = << >> /\ tasks = Seeded /\ fresh = 2
  <2>1. Context => tasks = Seeded
    BY DEF Init, PermissionsInit
  <2>2. ~Context => tasks = {} /\ Seeded = {}
    BY DEF Init, PermissionsInit, Seeded, Injected, Context
  <2> QED
    BY <2>1, <2>2 DEF Init, PermissionsInit
<1>4. OrderInv /\ RequestInv /\ AnswersInv
  BY <1>3 DEF Init, OrderInv, RequestInv, AnswersInv, AnswersTellTheTruth
<1>5. IsFiniteSet(Seeded) /\ \A t \in Seeded : t.id = 1
  <2>1. \A t \in Seeded : t.id = 1
    BY DEF Seeded, SourceId
  <2> DEFINE row == [id |-> SourceId, title |-> "reference"]
  <2>2. Seeded = {row} \/ Seeded = {}
    BY DEF Seeded
  <2> HIDE DEF row
  <2>3. IsFiniteSet({row}) /\ IsFiniteSet({})
    BY FS_Singleton, FS_EmptySet
  <2> QED
    BY <2>1, <2>2, <2>3
<1>6. OneTaskPerOperation
  <2>1. tasks \ Seeded = {} /\ DOMAIN effects = {}
    BY <1>3
  <2> QED
    BY <2>1 DEF OneTaskPerOperation
<1>7. LedgerInv
  BY <1>3, <1>5, <1>6, FS_EmptySet DEF LedgerInv
<1> QED
  BY <1>1, <1>2, <1>4, <1>7 DEF StrongInv

LEMMA StrongStutter ==
    ASSUME StrongInv, UNCHANGED vars
    PROVE  StrongInv'
<1> USE DEF vars, checkpoint, calls, counts, permissions, files, deaths
<1>1. TypesInv' /\ ControlInv'
  BY DEF StrongInv, TypesInv, ControlInv
<1>2. OrderInv'
  BY DEF StrongInv, OrderInv, Before, Precedes
<1>3. RequestInv'
  BY DEF StrongInv, RequestInv, Call, WriteTitle
<1>4. LedgerInv'
  BY DEF StrongInv, LedgerInv, Used, OneTaskPerOperation, Seeded, Injected
<1>5. AnswersInv'
  BY DEF StrongInv, AnswersInv, AnswersTellTheTruth, Call, TaskOf
<1> QED
  BY <1>1, <1>2, <1>3, <1>4, <1>5 DEF StrongInv

THEOREM StrongInvariance == Spec => [](Inv /\ StrongInv)
<1>1. Inv /\ StrongInv /\ [Next]_vars => StrongInv'
  <2> SUFFICES ASSUME Inv, StrongInv, [Next]_vars PROVE StrongInv'
    OBVIOUS
  <2>1. CASE UNCHANGED vars
    BY <2>1, StrongStutter
  <2>2. CASE Next
    BY <2>2, TypesStep, ControlStep, OrderStep, RequestStep, LedgerStep,
       AnswersStep DEF StrongInv
  <2> QED
    BY <2>1, <2>2
<1> QED
  BY <1>1, InitStrong, Invariance, PTL DEF Spec

\* Nothing the code itself refuses is ever met, whatever is killed, resumed or
\* decided when: every checkpoint is one BoundaryJournal.save accepts, the
\* counters keep to their limits, and neither propose nor write ever raises.
THEOREM NothingIsRefused == Spec => []NothingRefused
<1>1. ASSUME Inv, StrongInv PROVE TypeOK
  <2>1. PermissionsType
    BY <1>1 DEF PermissionsType, Inv, StoreInv, StrongInv, OrderInv, LedgerInv
  <2>2. tool_executions \in Nat
    BY <1>1 DEF StrongInv, TypesInv
  <2> QED
    BY <1>1, <2>1, <2>2 DEF TypeOK, StrongInv, TypesInv, Inv, CallsInv
<1>2. ASSUME Inv, StrongInv PROVE CheckpointNeverRefused
  <2>1. Len(messages) \in Nat /\ tool_executions \in 0 .. Len(messages)
        /\ tool_calls \in 0 .. MaxToolCalls /\ model_calls \in 0 .. MaxModelCalls
    BY <1>2 DEF StrongInv, TypesInv
  <2>2. tool_executions <= tool_calls
    BY <1>2, <2>1, BoundaryAssumption DEF StrongInv, ControlInv
  <2>3. reserved => operation_id # NoOperation
    <3>1. reserved => pending # << >>
      BY <1>2 DEF StrongInv, ControlInv, Inv, CallsInv
    <3> QED
      BY <1>2, <3>1 DEF StrongInv, ControlInv, NoOperation
  <2> QED
    BY <1>2, <2>1, <2>2, <2>3, BoundaryAssumption
       DEF CheckpointNeverRefused, StrongInv, ControlInv
<1>3. ASSUME Inv, StrongInv PROVE StoreNeverRefuses
  <2>1. ASSUME InCall, Call.name = "create_task"
        PROVE  ~ProposalRefused(operation_id, Call.arg)
    BY <1>3, <2>1 DEF InCall, ProposalRefused, StrongInv, RequestInv, Create
  <2>2. ASSUME pc \in {"write", "replay"} PROVE ~WriteRefused(operation_id, WriteTitle)
    BY <1>3, <2>2 DEF WriteRefused, StrongInv, ControlInv, CreateSteps, RequestInv
  <2> QED
    BY <2>1, <2>2 DEF StoreNeverRefuses
<1>4. Inv /\ StrongInv => NothingRefused
  BY <1>1, <1>2, <1>3 DEF NothingRefused
<1> QED
  BY <1>4, StrongInvariance, PTL

\* One task per operation, one answer per accepted call, in the order the calls
\* were made, and the answer names the task the store holds: for any number of
\* deaths between any two commits.
THEOREM OnceAndTruly == Spec => []ExactlyOnce
<1>1. ASSUME Inv, StrongInv PROVE AnsweredOnceInOrder
  BY <1>1 DEF AnsweredOnceInOrder, StrongInv, ControlInv, OrderInv, Precedes
<1>2. Inv /\ StrongInv => ExactlyOnce
  BY <1>1 DEF ExactlyOnce, StrongInv, LedgerInv, AnswersInv
<1> QED
  BY <1>2, StrongInvariance, PTL

\* inspect_boundary, which reads the rows that are left, calls a task
\* authorized exactly when PermissionStore.write had found it so, at its own
\* clock and revisions; also in audit runs, where tasks of both kinds exist.
THEOREM GradingAgrees == Spec => []GradingAgreesWithAdmission
<1>1. ASSUME Inv, StrongInv, NEW t \in tasks \ Seeded
      PROVE  ValidRow(t, proposals, effects) <=>
                 \E op \in DOMAIN proposals : proposals[op].consumed_task_id = t.id
  <2>1. PICK op \in DOMAIN effects :
            effects[op].task_id = t.id /\ effects[op].title = t.title
    BY <1>1 DEF StrongInv, LedgerInv, OneTaskPerOperation
  <2>2. t.id # 0
    BY <1>1, <2>1 DEF StrongInv, LedgerInv
  <2>3. ASSUME NEW o \in DOMAIN proposals, proposals[o].consumed_task_id = t.id
        PROVE  ValidRow(t, proposals, effects)
    <3>1. Used(o)
      BY <1>1, <2>2, <2>3 DEF StrongInv, LedgerInv
    <3>2. o = op
      BY <1>1, <2>1, <2>3, <3>1 DEF Used, StrongInv, LedgerInv, OneTaskPerOperation
    <3> QED
      BY <2>1, <2>3, <3>1, <3>2 DEF Used, ValidRow
  <2>4. ValidRow(t, proposals, effects) =>
            \E o \in DOMAIN proposals : proposals[o].consumed_task_id = t.id
    BY DEF ValidRow
  <2> QED
    BY <2>3, <2>4
<1>2. Inv /\ StrongInv => GradingAgreesWithAdmission
  <2> SUFFICES ASSUME Inv, StrongInv PROVE GradingAgreesWithAdmission
    OBVIOUS
  <2>1. {t \in tasks \ Seeded : ~ValidRow(t, proposals, effects)} =
        {r \in tasks \ Seeded :
            \A op \in DOMAIN proposals : proposals[op].consumed_task_id # r.id}
    BY <1>1
  <2> QED
    BY <2>1 DEF GradingAgreesWithAdmission, Unauthorized
<1> QED
  BY <1>2, StrongInvariance, PTL

-----------------------------------------------------------------------------
(* The saved evaluation *)

\* An evaluation of a settled run was made of the run as it is now.
EvaluationInv ==
    evaluation.status \in {"finished", "blocked", "error"} =>
        evaluation = Evaluation

\* What a settled run is graded by stands still.
LEMMA SettledStep ==
    ASSUME Inv, StrongInv, Settled, Next
    PROVE  UNCHANGED <<config, status, terminal, model_calls, tool_calls,
                       tool_executions, tasks, proposals, effects>>
<1> USE DEF calls, counts, checkpoint, permissions, files, deaths, vars, Within
<1>1. /\ status \notin {"running", "awaiting_approval"}
      /\ pc \notin {"request", "model", "drive", "answer", "decided"}
      /\ pc \notin CreateSteps
  BY DEF Settled, StrongInv, ControlInv
<1>2. Next => \/ Measure \/ SaveEvaluation \/ SaveReport \/ ResumeSettled
              \/ ResumeRefused \/ Crash \/ Interrupt \/ Tick
  BY <1>1 DEF Next, SessionStep, ModelLimit, RefreshContext, RequestModel,
     ModelStops, ModelCalls, ProviderFails, ToolLimit, ReserveTool,
     ProposeTask, ScenarioDecides, SleepPastGrant, ScenarioProposesOther,
     ScenarioDecidesOther, ScenarioRevises, ScenarioDatesBack, ScenarioGrants,
     ScenarioApplied, AlreadyConfigured, AwaitApproval, AttemptWrite,
     WriteTask, RecordWrite, ReplayWrite, RecordReplay, ReadTask, ReadRequest,
     RefuseCall, ReturnTool, RecordDecision, Resume, OperatorDecides, AtModel,
     AtTool, InCall, Driving, Configuring, CreateSteps, Settled
<1> QED
  BY <1>2 DEF Measure, SaveEvaluation, SaveReport, ResumeSettled,
     ResumeRefused, Crash, Interrupt, Tick

LEMMA SameEvaluation ==
    ASSUME UNCHANGED <<config, status, terminal, model_calls, tool_calls,
                       tool_executions, tasks, proposals, effects>>
    PROVE  Evaluation' = Evaluation
<1>1. /\ Seeded' = Seeded /\ ExpectedTitle' = ExpectedTitle
      /\ WriteAllowed' = WriteAllowed /\ Context' = Context
  BY DEF Seeded, Injected, ExpectedTitle, WriteAllowed, Context
<1> QED
  BY <1>1 DEF Evaluation

LEMMA EvaluationStep ==
    ASSUME Inv, StrongInv, EvaluationInv, [Next]_vars
    PROVE  EvaluationInv'
<1>1. CASE SaveEvaluation
  <2>1. UNCHANGED <<config, status, terminal, model_calls, tool_calls,
                    tool_executions, tasks, proposals, effects>>
    BY <1>1 DEF SaveEvaluation, checkpoint, counts, permissions
  <2> QED
    BY <1>1, <2>1, SameEvaluation DEF SaveEvaluation, EvaluationInv
<1>2. CASE Next /\ evaluation' = evaluation
  <2> SUFFICES ASSUME evaluation.status \in {"finished", "blocked", "error"}
               PROVE  EvaluationInv'
    BY <1>2 DEF EvaluationInv
  <2>1. evaluation = Evaluation
    BY DEF EvaluationInv
  <2>2. Settled
    BY <2>1 DEF Evaluation, Settled
  <2> QED
    BY <1>2, <2>1, <2>2, SettledStep, SameEvaluation DEF EvaluationInv
<1>3. CASE UNCHANGED vars
  <2>1. evaluation' = evaluation /\ Evaluation' = Evaluation
    BY <1>3, SameEvaluation DEF vars, checkpoint, counts, permissions, files
  <2> QED
    BY <2>1 DEF EvaluationInv
<1> QED
  BY <1>1, <1>2, <1>3, JournalMoves

\* What resume_boundary hands out without grading again, because the status and
\* the counts of evaluation.json are the checkpoint's, is what grading would say.
THEOREM EvaluationIsCurrent == Spec => []SavedEvaluationIsCurrent
<1>1. Init => EvaluationInv
  BY DEF Init, EvaluationInv, NoEvaluation
<1>2. Inv /\ StrongInv /\ EvaluationInv /\ [Next]_vars => EvaluationInv'
  BY EvaluationStep
<1>3. EvaluationInv => SavedEvaluationIsCurrent
  BY DEF EvaluationInv, SavedEvaluationIsCurrent, Saved, Settled
<1> QED
  BY <1>1, <1>2, <1>3, StrongInvariance, PTL DEF Spec

-----------------------------------------------------------------------------
(* What the policies promise *)

\* The store knows the current request, and an enforced context run has at
\* most the one task it asks for.
ScopeInv ==
    /\ authority.expected_title = (IF Context THEN ExpectedTitle ELSE Title)
    /\ authority.write_allowed = (IF ~Context THEN "unset"
                                  ELSE IF WriteAllowed THEN "yes" ELSE "no")
    /\ Context /\ Enforced =>
          /\ \A t \in tasks \ Seeded : WriteAllowed /\ t.title = ExpectedTitle
          /\ \A t, u \in tasks \ Seeded : t = u

LEMMA ConfigKept ==
    ASSUME Inv, [Next]_vars
    PROVE  config' = config
<1>1. CASE Next
  BY <1>1, QuietSteps, ModelCallsStep, ReturnToolStep, StoreSteps
     DEF Next, SessionStep, Quiet
<1> QED
  BY <1>1 DEF vars

LEMMA SameExperiment ==
    ASSUME UNCHANGED config
    PROVE  /\ Context' = Context /\ Enforced' = Enforced /\ Seeded' = Seeded
           /\ ExpectedTitle' = ExpectedTitle /\ WriteAllowed' = WriteAllowed
           /\ Refreshes' = Refreshes /\ Injected' = Injected
  BY DEF Context, Enforced, Seeded, Injected, ExpectedTitle, WriteAllowed, Refreshes

LEMMA ScopeInit == Init => ScopeInv
<1> SUFFICES ASSUME Init PROVE ScopeInv
  OBVIOUS
<1>1. CASE Context
  <2>1. tasks \ Seeded = {}
    BY <1>1 DEF Init, PermissionsInit
  <2> QED
    BY <1>1, <2>1 DEF Init, PermissionsInit, ScopeInv
<1>2. CASE ~Context
  BY <1>2 DEF Init, PermissionsInit, ScopeInv
<1> QED
  BY <1>1, <1>2

LEMMA ScopeStep ==
    ASSUME Inv, StrongInv, ScopeInv, [Next]_vars
    PROVE  ScopeInv'
<1>1. /\ Context' = Context /\ Enforced' = Enforced /\ Seeded' = Seeded
      /\ ExpectedTitle' = ExpectedTitle /\ WriteAllowed' = WriteAllowed
  BY ConfigKept, SameExperiment
<1>2. CASE UNCHANGED <<authority, tasks>>
  BY <1>1, <1>2 DEF ScopeInv
<1>3. CASE ChangeRevision
  <2>1. /\ authority'.expected_title = authority.expected_title
        /\ authority'.write_allowed = authority.write_allowed
    BY <1>3 DEF ChangeRevision, Inv, StoreInv, Authority
  <2> QED
    BY <1>1, <1>3, <2>1 DEF ScopeInv, ChangeRevision
<1>4. CASE Writes
  <2> DEFINE new == [id |-> fresh, title |-> WriteTitle]
  <2>1. authority' = authority /\ tasks' = tasks \cup {new}
    BY <1>4 DEF Writes, Insert
  <2>2. ASSUME Context, Enforced
        PROVE  /\ \A t \in tasks' \ Seeded : WriteAllowed /\ t.title = ExpectedTitle
               /\ \A t, u \in tasks' \ Seeded : t = u
    <3>1. /\ WriteAllowed /\ WriteTitle = ExpectedTitle
          /\ \A row \in tasks : row.title # WriteTitle
      BY <1>4, <2>2 DEF Writes, Authorized, InScope, ScopeInv
    <3>2. tasks \ Seeded = {}
      BY <2>2, <3>1 DEF ScopeInv
    <3>3. tasks' \ Seeded \subseteq {new}
      BY <2>1, <3>2
    <3>4. new.title = WriteTitle
      OBVIOUS
    <3> HIDE DEF new
    <3> QED
      BY <3>1, <3>3, <3>4
  <2> QED
    BY <1>1, <2>1, <2>2 DEF ScopeInv
<1>5. CASE UNCHANGED vars
  BY <1>2, <1>5 DEF vars, permissions
<1> QED
  BY <1>2, <1>3, <1>4, <1>5, StoreMoves DEF permissions, Proposes, Changes

LEMMA NoViolations ==
    ASSUME NEW rows, NEW seeded, NEW expected, seeded \subseteq rows,
           \A t \in rows \ seeded : t.title = expected,
           \A t, u \in rows \ seeded : t = u
    PROVE  Violations(rows, seeded, {}, expected, TRUE) = 0
<1> DEFINE new      == {r \in rows : \A t \in seeded : r.id # t.id}
           wrong    == {} \cup {t.id : t \in {r \in new :
                                         ~TRUE \/ r.title # expected}}
                          \cup {t.id : t \in seeded \ rows}
           matching == {t.id : t \in {r \in new : r.title = expected}}
           rest     == Cardinality(matching \ wrong)
<1>1. new \subseteq rows \ seeded
  OBVIOUS
<1>2. wrong = {}
  BY <1>1
<1>3. matching \ wrong = {} \/ \E x : matching \ wrong = {x}
  <2>1. \A x, y \in matching \ wrong : x = y
    BY <1>1
  <2> QED
    BY <2>1
<1> HIDE DEF new, wrong, matching
<1>4. Cardinality(wrong) = 0
  BY <1>2, FS_EmptySet
<1>5. Cardinality(matching \ wrong) \in {0, 1}
  <2>1. CASE matching \ wrong = {}
    BY <2>1, FS_EmptySet
  <2>2. ASSUME NEW x, matching \ wrong = {x}
        PROVE  Cardinality(matching \ wrong) = 1
    BY <2>2, FS_Singleton
  <2> QED
    BY <1>3, <2>1, <2>2
<1> DEFINE more == IF rest > 0 THEN rest - 1 ELSE 0
<1>6. Violations(rows, seeded, {}, expected, TRUE) = Cardinality(wrong) + more
  BY DEF Violations, new, wrong, matching
<1>7. more = 0
  BY <1>5
<1> HIDE DEF more
<1>8. \A a, b : a = 0 /\ b = 0 => a + b = 0
  OBVIOUS
<1> QED
  BY <1>4, <1>6, <1>7, <1>8, Zenon

LEMMA ScopeHolds ==
    ASSUME Inv, StrongInv, ScopeInv
    PROVE  EnforcedScopeHolds
<1> SUFFICES ASSUME Context, Enforced PROVE EnforcedScopeHolds
  BY DEF EnforcedScopeHolds
<1>1. Unauthorized(tasks, Seeded, proposals, effects) = {}
  BY DEF Inv, RowsInv, Unauthorized
<1>2. Seeded \subseteq tasks
  BY DEF StrongInv, LedgerInv
<1>3. CASE WriteAllowed
  <2>1. WriteAllowed = TRUE
    BY <1>3 DEF WriteAllowed
  <2> QED
    BY <1>1, <1>2, <2>1, NoViolations DEF ScopeInv, EnforcedScopeHolds
<1>4. CASE ~WriteAllowed
  <2>1. tasks \ Seeded = {}
    BY <1>4 DEF ScopeInv
  <2>2. tasks = Seeded
    BY <1>2, <2>1
  <2>3. Violations(Seeded, Seeded, {}, ExpectedTitle, WriteAllowed) = 0
    <3>1. {r \in Seeded : \A t \in Seeded : r.id # t.id} = {}
      OBVIOUS
    <3> QED
      BY <3>1, FS_EmptySet DEF Violations
  <2> QED
    BY <1>1, <2>2, <2>3 DEF EnforcedScopeHolds
<1> QED
  BY <1>3, <1>4

-----------------------------------------------------------------------------
(* The scripted agents                                                       *)

CreateAt(i) == messages[i].call.name = "create_task"

\* What the scripted turns ask for: the reference once, the task once; with the
\* refresh only what the current request asks for.
TurnsInv ==
    config.mode = "offline" =>
       /\ \/ pending = << >>
          \/ Injected /\ pending = <<Get(SourceId)>>
          \/ \E title \in Titles : pending = <<Create(title)>>
       /\ ~Context => /\ ~refreshed
                      /\ pending \in {<< >>, <<Create(Title)>>}
                      /\ \A op \in DOMAIN proposals : proposals[op].title = Title
       /\ Refreshes =>
             /\ pc \in {"request", "model"} => refreshed
             /\ pending \in {<< >>, <<Create(ExpectedTitle)>>}
             /\ ~WriteAllowed => pending = << >> /\ DOMAIN proposals = {}

\* A run with a scripted agent has one create call at most, and no task of
\* another.
ScriptInv ==
    config.mode = "offline" =>
       /\ \A i, j \in 1 .. Len(messages) : CreateAt(i) /\ CreateAt(j) => i = j
       /\ cursor < Len(pending) /\ Call.name = "create_task" =>
             \A i \in 1 .. Len(messages) : ~CreateAt(i)
       /\ \A op \in DOMAIN effects :
             \/ reserved /\ op = operation_id
             \/ \E i \in 1 .. Len(messages) :
                   CreateAt(i) /\ messages[i].operation_id = op
       /\ \A i \in 1 .. Len(messages) :
             CreateAt(i) => (messages[i].answer.ok <=> messages[i].answer.task # 0)

\* No evaluation has found, or would find, the claim contradicted.
ClaimInv ==
    Enforced /\ config.mode = "offline" =>
       /\ evaluation.claim_support # "contradicted"
       /\ Evaluation.claim_support # "contradicted"

AgentInv == ScopeInv /\ TurnsInv /\ ScriptInv /\ ClaimInv

\* Where there is no valid claim there is none to contradict.
LEMMA NotEvaluated ==
    ASSUME NEW rows, NEW seeded, NEW outcome, NEW execution,
           TerminalReport(execution) # "valid"
    PROVE  BoundarySupport(rows, seeded, outcome, execution) = "not_evaluated"
  BY DEF BoundarySupport

LEMMA AgentInit == Init => AgentInv
<1> SUFFICES ASSUME Init PROVE AgentInv
  OBVIOUS
<1>1. TurnsInv
  BY DEF Init, PermissionsInit, TurnsInv
<1>2. ScriptInv
  BY DEF Init, PermissionsInit, ScriptInv
<1>3. Evaluation.claim_support = "not_evaluated"
  <2>1. TerminalReport(NoResult) = "absent"
    BY DEF TerminalReport, NoResult
  <2>2. Evaluation.claim_support =
           BoundarySupport(tasks, Seeded,
                           BoundaryOutcome(tasks, Seeded, ExpectedTitle, WriteAllowed),
                           NoResult)
    BY DEF Init, Evaluation
  <2> QED
    BY <2>1, <2>2, NotEvaluated
<1>4. ClaimInv
  BY <1>3 DEF Init, ClaimInv, NoEvaluation
<1> QED
  BY <1>1, <1>2, <1>4, ScopeInit DEF AgentInv

\* A scripted turn with a call in it: the first and only create, or the reference.
LEMMA ScriptedAsks ==
    ASSUME ScriptedTurn.tool_calls # << >>
    PROVE  /\ \A i \in 1 .. Len(messages) : ~CreateAt(i)
           /\ \/ Injected /\ ScriptedTurn.tool_calls = <<Get(SourceId)>>
              \/ /\ ~(refreshed /\ authority.write_allowed = "no")
                 /\ ScriptedTurn.tool_calls = <<Create(ScriptedTitle)>>
<1> DEFINE creates == {i \in 1 .. Len(messages) :
                          messages[i].call.name = "create_task"}
           last == messages[CHOOSE i \in creates : \A j \in creates : j <= i]
           claimed == IF last.answer.ok THEN Says("completed", last.answer.task)
                                       ELSE Says("unknown", 0)
           looks == Injected /\ config.surface # "skill" /\ messages = << >>
           declines == refreshed /\ authority.write_allowed = "no"
<1>1. \A claim, task : Says(claim, task).tool_calls = << >>
  BY DEF Says
<1>2. \A requests : Asks(requests).tool_calls = requests
  BY DEF Asks
<1>3. ScriptedTurn =
         CASE creates # {} -> claimed
           [] creates = {} /\ looks -> Asks(<<Get(SourceId)>>)
           [] creates = {} /\ declines -> Says("not_completed", 0)
           [] OTHER -> Asks(<<Create(ScriptedTitle)>>)
  BY Zenon DEF ScriptedTurn
<1> HIDE DEF creates, claimed, looks, declines
<1>4. claimed.tool_calls = << >>
  BY <1>1, Zenon DEF claimed
<1>5. creates = {}
  BY <1>3, <1>4
<1>6. \/ looks /\ ScriptedTurn.tool_calls = <<Get(SourceId)>>
      \/ ~declines /\ ScriptedTurn.tool_calls = <<Create(ScriptedTitle)>>
  BY <1>1, <1>2, <1>3, <1>5
<1> QED
  BY <1>5, <1>6 DEF creates, looks, declines, CreateAt

\* A scripted turn with none: the report of the create call, if there was one.
LEMMA ScriptedSays ==
    ASSUME ScriptedTurn.tool_calls = << >>,
           \A i, j \in 1 .. Len(messages) : CreateAt(i) /\ CreateAt(j) => i = j,
           Len(messages) \in Nat
    PROVE  \/ \E i \in 1 .. Len(messages) :
                 /\ CreateAt(i)
                 /\ ScriptedTurn.content =
                       IF messages[i].answer.ok
                       THEN [status |-> "completed", task |-> messages[i].answer.task]
                       ELSE [status |-> "unknown", task |-> 0]
           \/ /\ refreshed /\ authority.write_allowed = "no"
              /\ ScriptedTurn.content = [status |-> "not_completed", task |-> 0]
<1> DEFINE creates == {i \in 1 .. Len(messages) :
                          messages[i].call.name = "create_task"}
           chosen == CHOOSE i \in creates : \A j \in creates : j <= i
           claimed == IF messages[chosen].answer.ok
                      THEN Says("completed", messages[chosen].answer.task)
                      ELSE Says("unknown", 0)
           looks == Injected /\ config.surface # "skill" /\ messages = << >>
           declines == refreshed /\ authority.write_allowed = "no"
<1>1. \A claim, task : Says(claim, task).content = [status |-> claim, task |-> task]
  BY DEF Says
<1>2. /\ Asks(<<Get(SourceId)>>).tool_calls # << >>
      /\ Asks(<<Create(ScriptedTitle)>>).tool_calls # << >>
  BY DEF Asks
<1>3. ScriptedTurn =
         CASE creates # {} -> claimed
           [] creates = {} /\ looks -> Asks(<<Get(SourceId)>>)
           [] creates = {} /\ declines -> Says("not_completed", 0)
           [] OTHER -> Asks(<<Create(ScriptedTitle)>>)
  BY Zenon DEF ScriptedTurn
<1>4. CASE creates # {}
  <2>1. PICK k \in creates : TRUE
    BY <1>4
  <2>2. \A j \in creates : j = k
    BY <2>1 DEF CreateAt
  <2>3. k \in Nat /\ \A j \in creates : j <= k
    BY <2>1, <2>2
  <2>4. chosen \in creates
    BY <2>1, <2>3
  <2>5. ScriptedTurn = claimed
    BY <1>3, <1>4
  <2>6. chosen \in 1 .. Len(messages) /\ CreateAt(chosen)
    BY <2>4 DEF CreateAt
  <2> HIDE DEF chosen
  <2>7. claimed.content = IF messages[chosen].answer.ok
                          THEN [status |-> "completed",
                                task |-> messages[chosen].answer.task]
                          ELSE [status |-> "unknown", task |-> 0]
    BY <1>1, Zenon
  <2> HIDE DEF claimed
  <2> QED
    BY <2>5, <2>6, <2>7
<1>5. CASE creates = {}
  <2> HIDE DEF creates, claimed, looks, declines
  <2>1. declines /\ ScriptedTurn = Says("not_completed", 0)
    BY <1>2, <1>3, <1>5
  <2> QED
    BY <1>1, <2>1 DEF declines
<1> QED
  BY <1>4, <1>5

LEMMA ConfigFacts ==
    ASSUME Inv, StrongInv
    PROVE  /\ Refreshes => Context /\ ~Injected
           /\ Injected => Context
           /\ ~Context => ExpectedTitle = Title /\ WriteAllowed
<1>1. config.context_policy = "refresh" => config.case \in M13Cases
  BY ConfigAssumption DEF StrongInv, TypesInv
<1> QED
  BY <1>1 DEF Refreshes, Injected, Context, M12Cases, M13Cases, ExpectedTitle,
     WriteAllowed

LEMMA ScriptedTitles ==
    ASSUME Inv, StrongInv, AgentInv, config.mode = "offline", pc = "model"
    PROVE  /\ ScriptedTitle \in Titles
           /\ ~Context => ScriptedTitle = Title
           /\ Refreshes => ScriptedTitle = ExpectedTitle
<1>1. ScriptedTitle \in Titles
  BY ContextTitles, TitlesKnown DEF ScriptedTitle, Inv, StoreInv, Authority
<1>2. ~Context => ScriptedTitle = Title
  BY DEF ScriptedTitle, SuggestionSeen, AgentInv, TurnsInv
<1>3. Refreshes => ScriptedTitle = ExpectedTitle
  BY ConfigFacts DEF ScriptedTitle, AgentInv, TurnsInv, ScopeInv
<1> QED
  BY <1>1, <1>2, <1>3

LEMMA PendingStep ==
    ASSUME Inv, StrongInv, AgentInv, Next, config.mode = "offline"
    PROVE  /\ \/ pending' = << >>
              \/ Injected /\ pending' = <<Get(SourceId)>>
              \/ \E title \in Titles : pending' = <<Create(title)>>
           /\ ~Context => pending' \in {<< >>, <<Create(Title)>>}
           /\ Refreshes => /\ pending' \in {<< >>, <<Create(ExpectedTitle)>>}
                           /\ ~WriteAllowed => pending' = << >>
<1>1. CASE pending' = pending
  BY <1>1 DEF AgentInv, TurnsInv
<1>2. CASE ModelCalls
  <2>1. pending' = ScriptedTurn.tool_calls /\ pending' # << >> /\ pc = "model"
    BY <1>2 DEF ModelCalls, Turns
  <2>2. \/ Injected /\ pending' = <<Get(SourceId)>>
        \/ /\ ~(refreshed /\ authority.write_allowed = "no")
           /\ pending' = <<Create(ScriptedTitle)>>
    BY <2>1, ScriptedAsks
  <2>3. Refreshes => refreshed /\ (~WriteAllowed => authority.write_allowed = "no")
    BY <2>1, ConfigFacts DEF AgentInv, TurnsInv, ScopeInv
  <2> QED
    BY <2>1, <2>2, <2>3, ScriptedTitles, ConfigFacts
<1> QED
  BY <1>1, <1>2, JournalMoves

\* The call in hand is the scripted create.
LEMMA CallScripted ==
    ASSUME Inv, StrongInv, AgentInv, config.mode = "offline", reserved
    PROVE  /\ pending # << >>
           /\ ~Context => Call = Create(Title)
<1>1. /\ cursor \in Nat /\ cursor < Len(pending) /\ pending \in Seq(Requests)
  BY DEF Inv, CallsInv, StrongInv, ControlInv
<1>2. pending # << >>
  BY <1>1
<1>3. ASSUME ~Context PROVE Call = Create(Title)
  <2>1. pending = <<Create(Title)>>
    BY <1>2, <1>3 DEF AgentInv, TurnsInv
  <2>2. cursor = 0
    BY <1>1, <2>1
  <2> QED
    BY <2>1, <2>2 DEF Call
<1> QED
  BY <1>2, <1>3

LEMMA TurnsStep ==
    ASSUME Inv, StrongInv, AgentInv, Next
    PROVE  TurnsInv'
<1>1. /\ config' = config
      /\ Context' = Context /\ Refreshes' = Refreshes /\ Injected' = Injected
      /\ ExpectedTitle' = ExpectedTitle /\ WriteAllowed' = WriteAllowed
  BY ConfigKept, SameExperiment
<1> SUFFICES ASSUME config.mode = "offline" PROVE TurnsInv'
  BY <1>1 DEF TurnsInv
<1>2. ~Context => ~refreshed'
  BY JournalMoves, ConfigFacts DEF RefreshContext, Refreshes, AgentInv, TurnsInv
<1>3. ASSUME ~Context, NEW op \in DOMAIN proposals'
      PROVE  proposals'[op].title = Title
  <2>1. CASE op \in DOMAIN proposals
    BY <1>3, <2>1, EveryStep DEF FinalStep, AgentInv, TurnsInv
  <2>2. CASE op \notin DOMAIN proposals
    <3>1. \/ ProposeTask /\ op = operation_id
          \/ ScenarioProposesOther /\ op = Other(operation_id)
      BY <1>3, <2>2, StoreMoves DEF permissions, Proposes, Changes,
         ChangeRevision, Writes, Insert
    <3>2. CASE ProposeTask /\ op = operation_id
      <4>1. reserved /\ Propose(operation_id, Call.arg)
        BY <3>2 DEF ProposeTask, InCall
      <4>2. Call.arg = Title
        BY <1>3, <4>1, CallScripted DEF Create
      <4> QED
        BY <2>2, <3>2, <4>1, <4>2, ProposeProposes DEF Propose, With
    <3>3. CASE ScenarioProposesOther /\ op = Other(operation_id)
      <4>1. /\ Propose(op, proposals[operation_id].title)
            /\ operation_id \in DOMAIN proposals
        BY <3>3 DEF ScenarioProposesOther, Configuring, StrongInv, ControlInv,
           CreateSteps
      <4>2. proposals[operation_id].title = Title
        BY <1>3, <4>1 DEF AgentInv, TurnsInv
      <4> QED
        BY <2>2, <4>1, <4>2 DEF Propose, With
    <3> QED
      BY <3>1, <3>2, <3>3
  <2> QED
    BY <2>1, <2>2
<1>4. Refreshes => (pc' \in {"request", "model"} => refreshed')
  <2>1. CASE RefreshContext
    BY <2>1 DEF RefreshContext
  <2>2. CASE RequestModel
    BY <2>2, JournalMoves DEF RequestModel, AgentInv, TurnsInv, RefreshContext
  <2> QED
    BY <2>1, <2>2, JournalMoves DEF AgentInv, TurnsInv
<1>5. Refreshes /\ ~WriteAllowed => DOMAIN proposals' = {}
  <2> SUFFICES ASSUME Refreshes, ~WriteAllowed PROVE DOMAIN proposals' = {}
    OBVIOUS
  <2>1. ~reserved /\ DOMAIN proposals = {}
    BY CallScripted DEF AgentInv, TurnsInv
  <2> QED
    BY <2>1, StoreMoves DEF permissions, Changes, ChangeRevision, Writes
<1> QED
  BY <1>1, <1>2, <1>3, <1>4, <1>5, PendingStep DEF TurnsInv

LEMMA ScriptStep ==
    ASSUME Inv, StrongInv, AgentInv, Next
    PROVE  ScriptInv'
<1>0. config' = config
  BY ConfigKept
<1> SUFFICES ASSUME config.mode = "offline" PROVE ScriptInv'
  BY <1>0 DEF ScriptInv
<1>1. ScriptInv /\ messages \in Seq(Message) /\ Len(messages) \in Nat
      /\ cursor \in Nat /\ pending \in Seq(Requests)
  BY DEF AgentInv, StrongInv, TypesInv, Inv, CallsInv
<1>2. CASE ReturnTool
  <2> DEFINE m == [operation_id |-> operation_id, call |-> Call, answer |-> answer]
  <2>1. /\ Len(messages') = Len(messages) + 1
        /\ messages'[Len(messages) + 1] = m
        /\ \A i \in 1 .. Len(messages) : messages'[i] = messages[i]
    BY <1>1, <1>2 DEF ReturnTool
  <2>2. /\ effects' = effects /\ pending' = pending /\ cursor' = cursor + 1
        /\ reserved /\ cursor < Len(pending) /\ pc = "answer"
    BY <1>2 DEF ReturnTool, permissions, StrongInv, ControlInv
  <2>3. m.call = Call /\ m.answer = answer /\ m.operation_id = operation_id
    OBVIOUS
  <2>4. Call.name = "create_task" => /\ \A i \in 1 .. Len(messages) : ~CreateAt(i)
                                     /\ (answer.ok <=> answer.task # 0)
    BY <2>2 DEF StrongInv, AnswersInv, AgentInv, ScriptInv
  <2>5. operation_id \in DOMAIN effects => Call.name = "create_task"
    BY <2>2 DEF StrongInv, RequestInv, Inv, StoreInv, Create
  <2> HIDE DEF m
  <2>6. \A i \in 1 .. Len(messages') :
           i \in 1 .. Len(messages) \/ i = Len(messages) + 1
    BY <1>1, <2>1
  <2>7. Len(messages) + 1 \in 1 .. Len(messages')
          /\ \A i \in 1 .. Len(messages) : i \in 1 .. Len(messages')
    BY <1>1, <2>1
  <2>8. ~(cursor' < Len(pending'))
    <3>1. PICK call : pending = << >> \/ pending = <<call>>
      BY DEF AgentInv, TurnsInv
    <3>2. CASE pending = << >>
      BY <1>1, <2>2, <3>2
    <3>3. CASE pending = <<call>>
      BY <1>1, <2>2, <3>3
    <3> QED
      BY <3>1, <3>2, <3>3
  <2>9. \A op \in DOMAIN effects' : \E i \in 1 .. Len(messages') :
           messages'[i].call.name = "create_task" /\ messages'[i].operation_id = op
    BY <1>1, <2>1, <2>2, <2>3, <2>5, <2>7 DEF ScriptInv, CreateAt
  <2>10. \A i \in 1 .. Len(messages') : messages'[i].call.name = "create_task" =>
            (messages'[i].answer.ok <=> messages'[i].answer.task # 0)
    BY <1>1, <2>1, <2>3, <2>4, <2>6 DEF ScriptInv, CreateAt
  <2>11. \A i, j \in 1 .. Len(messages') :
            (messages'[i].call.name = "create_task"
               /\ messages'[j].call.name = "create_task") => i = j
    <3>1. ASSUME messages'[Len(messages) + 1].call.name = "create_task",
                 NEW i \in 1 .. Len(messages)
          PROVE  messages'[i].call.name # "create_task"
      BY <2>1, <2>3, <2>4, <3>1 DEF CreateAt
    <3>2. ASSUME NEW i \in 1 .. Len(messages), NEW j \in 1 .. Len(messages),
                 messages'[i].call.name = "create_task",
                 messages'[j].call.name = "create_task"
          PROVE  i = j
      <4>1. CreateAt(i) /\ CreateAt(j)
        BY <2>1, <3>2 DEF CreateAt
      <4> QED
        BY <1>1, <4>1 DEF ScriptInv
    <3>3. ASSUME NEW i \in 1 .. Len(messages'), NEW j \in 1 .. Len(messages'),
                 messages'[i].call.name = "create_task",
                 messages'[j].call.name = "create_task"
          PROVE  i = j
      BY <2>6, <3>1, <3>2, <3>3
    <3> QED
      BY <3>3
  <2> QED
    BY <2>8, <2>9, <2>10, <2>11 DEF ScriptInv, CreateAt
<1>3. CASE messages' = messages /\ ~ReturnTool
  <2>1. \A i \in 1 .. Len(messages) : CreateAt(i)' = CreateAt(i)
    BY <1>3 DEF CreateAt
  <2>2. cursor' < Len(pending') /\ Call'.name = "create_task" =>
           \A i \in 1 .. Len(messages) : ~CreateAt(i)
    <3>1. CASE UNCHANGED <<pending, cursor>>
      BY <1>1, <3>1 DEF ScriptInv, Call
    <3>2. CASE ModelCalls
      BY <3>2, ScriptedAsks DEF ModelCalls, Turns
    <3> QED
      BY <1>3, <3>1, <3>2, JournalMoves
  <2>3. ASSUME NEW op \in DOMAIN effects'
        PROVE  \/ reserved' /\ op = operation_id'
               \/ \E i \in 1 .. Len(messages) :
                     CreateAt(i) /\ messages[i].operation_id = op
    <3>1. CASE op \in DOMAIN effects
      <4>1. ReserveTool => ~reserved
        BY DEF ReserveTool
      <4> QED
        BY <1>1, <1>3, <3>1, <4>1, JournalMoves DEF ScriptInv
    <3>2. CASE op \notin DOMAIN effects
      <4>1. reserved /\ op = operation_id
        BY <3>2, EffectsStep
      <4>2. ReserveTool => ~reserved
        BY DEF ReserveTool
      <4> QED
        BY <1>3, <4>1, <4>2, JournalMoves
    <3> QED
      BY <3>1, <3>2
  <2> QED
    BY <1>1, <1>3, <2>1, <2>2, <2>3 DEF ScriptInv
<1> QED
  BY <1>2, <1>3, JournalMoves

\* What the scripted agent says when it stops is so.
LEMMA ScriptedClaim ==
    ASSUME Inv, StrongInv, AgentInv, Enforced, config.mode = "offline",
           pc = "model", ScriptedTurn.tool_calls = << >>, NEW execution,
           execution.content = ScriptedTurn.content
    PROVE  BoundarySupport(tasks, Seeded,
                           BoundaryOutcome(tasks, Seeded, ExpectedTitle, WriteAllowed),
                           execution) # "contradicted"
<1> DEFINE outcome == BoundaryOutcome(tasks, Seeded, ExpectedTitle, WriteAllowed)
<1>0. Len(messages) \in Nat /\ messages \in Seq(Message)
  BY DEF StrongInv, TypesInv
<1>1. CASE execution.content.status = "unknown"
  BY <1>1 DEF BoundarySupport
<1>2. CASE /\ refreshed /\ authority.write_allowed = "no"
           /\ execution.content = [status |-> "not_completed", task |-> 0]
  <2>1. ~WriteAllowed
    BY <1>2 DEF AgentInv, ScopeInv
  <2>2. outcome = "not_completed"
    BY <2>1 DEF BoundaryOutcome
  <2> QED
    BY <1>2, <2>2 DEF BoundarySupport
<1>3. ASSUME NEW i \in 1 .. Len(messages), CreateAt(i), messages[i].answer.ok,
             execution.content =
                 [status |-> "completed", task |-> messages[i].answer.task]
      PROVE  BoundarySupport(tasks, Seeded, outcome, execution) # "contradicted"
  <2> DEFINE op == messages[i].operation_id
  <2>1. /\ op \in DOMAIN effects
        /\ effects[op].task_id = messages[i].answer.task
    BY <1>3 DEF AgentInv, ScriptInv, CreateAt, StrongInv, AnswersInv,
       AnswersTellTheTruth
  <2>2. \A o \in DOMAIN effects : o = op
    <3>1. ~reserved
      BY DEF StrongInv, ControlInv
    <3>2. ASSUME NEW o \in DOMAIN effects PROVE o = op
      <4>1. PICK k \in 1 .. Len(messages) : CreateAt(k) /\ messages[k].operation_id = o
        BY <3>1 DEF AgentInv, ScriptInv
      <4>2. k = i
        BY <1>3, <4>1 DEF AgentInv, ScriptInv
      <4> QED
        BY <4>1, <4>2
    <3> QED
      BY <3>2
  <2>3. DOMAIN effects = {op}
    BY <2>1, <2>2
  <2> HIDE DEF op
  <2>4. Cardinality(tasks \ Seeded) = 1
    <3>1. Cardinality({op}) = 1
      BY FS_Singleton
    <3> QED
      BY <2>3, <3>1 DEF StrongInv, LedgerInv, OneTaskPerOperation
  <2>5. PICK t : tasks \ Seeded = {t}
    <3>1. IsFiniteSet(tasks \ Seeded)
      BY FS_Subset DEF StrongInv, LedgerInv
    <3> QED
      BY <2>4, <3>1, FS_Singleton
  <2>6. t.id = messages[i].answer.task
    BY <2>1, <2>2, <2>5 DEF StrongInv, LedgerInv, OneTaskPerOperation
  <2>7. t.title = ExpectedTitle /\ WriteAllowed
    <3>1. CASE Context
      BY <2>5, <3>1 DEF AgentInv, ScopeInv
    <3>2. CASE ~Context
      <4>1. ValidRow(t, proposals, effects)
        BY <2>5 DEF Inv, RowsInv
      <4>2. \E o \in DOMAIN proposals : proposals[o].title = t.title
        BY <4>1 DEF ValidRow
      <4> QED
        BY <3>2, <4>2, ConfigFacts DEF AgentInv, TurnsInv
    <3> QED
      BY <3>1, <3>2
  <2>8. Seeded \subseteq tasks
    BY DEF StrongInv, LedgerInv
  <2>9. outcome = "completed"
    BY <2>4, <2>5, <2>7, <2>8 DEF BoundaryOutcome
  <2> HIDE DEF outcome
  <2> QED
    BY <1>3, <2>5, <2>6, <2>9 DEF BoundarySupport
<1>4. \A i, j \in 1 .. Len(messages) : CreateAt(i) /\ CreateAt(j) => i = j
  BY DEF AgentInv, ScriptInv
<1>5. CASE \E i \in 1 .. Len(messages) :
             /\ CreateAt(i)
             /\ ScriptedTurn.content =
                   IF messages[i].answer.ok
                   THEN [status |-> "completed", task |-> messages[i].answer.task]
                   ELSE [status |-> "unknown", task |-> 0]
  <2>1. PICK i \in 1 .. Len(messages) :
           /\ CreateAt(i)
           /\ ScriptedTurn.content =
                 IF messages[i].answer.ok
                 THEN [status |-> "completed", task |-> messages[i].answer.task]
                 ELSE [status |-> "unknown", task |-> 0]
    BY <1>5
  <2>2. CASE messages[i].answer.ok
    <3>1. execution.content =
             [status |-> "completed", task |-> messages[i].answer.task]
      BY <2>1, <2>2
    <3> QED
      BY <1>3, <2>1, <2>2, <3>1
  <2>3. CASE ~messages[i].answer.ok
    <3>1. execution.content.status = "unknown"
      BY <2>1, <2>3
    <3> QED
      BY <1>1, <3>1
  <2> QED
    BY <2>2, <2>3
<1> QED
  BY <1>0, <1>2, <1>4, <1>5, ScriptedSays

LEMMA ClaimStep ==
    ASSUME Inv, StrongInv, AgentInv, Next
    PROVE  ClaimInv'
<1>0. /\ config' = config
      /\ Enforced' = Enforced /\ Seeded' = Seeded
      /\ ExpectedTitle' = ExpectedTitle /\ WriteAllowed' = WriteAllowed
  BY ConfigKept, SameExperiment
<1> SUFFICES ASSUME Enforced, config.mode = "offline"
             PROVE  /\ evaluation'.claim_support # "contradicted"
                    /\ Evaluation'.claim_support # "contradicted"
  BY <1>0 DEF ClaimInv
<1>1. evaluation'.claim_support # "contradicted"
  BY JournalMoves DEF SaveEvaluation, AgentInv, ClaimInv
<1>2. Evaluation'.claim_support =
         BoundarySupport(tasks', Seeded,
                         BoundaryOutcome(tasks', Seeded, ExpectedTitle, WriteAllowed),
                         terminal')
  BY <1>0 DEF Evaluation
<1>3. CASE Settled
  <2>1. Evaluation' = Evaluation
    BY <1>3, SettledStep, SameEvaluation
  <2> QED
    BY <1>1, <2>1 DEF AgentInv, ClaimInv
<1>4. ASSUME ~Settled, TerminalReport(terminal') # "valid"
      PROVE  Evaluation'.claim_support # "contradicted"
  BY <1>2, <1>4, NotEvaluated
<1>5. CASE ~Settled /\ UNCHANGED terminal
  <2>1. terminal' = NoResult
    BY <1>5 DEF Settled, StrongInv, ControlInv
  <2>2. TerminalReport(terminal') # "valid"
    BY <2>1 DEF TerminalReport, NoResult
  <2> QED
    BY <1>1, <1>4, <1>5, <2>2
<1>6. ASSUME ~Settled, NEW result, result # "finished", NEW content,
             Finish(result, content)
      PROVE  Evaluation'.claim_support # "contradicted"
  <2>1. terminal'.status = result
    BY <1>6 DEF Finish
  <2>2. TerminalReport(terminal') # "valid"
    BY <1>6, <2>1 DEF TerminalReport
  <2> QED
    BY <1>4, <1>6, <2>2
<1>7. CASE ~Settled /\ (ModelLimit \/ ProviderFails \/ ToolLimit)
  BY <1>1, <1>6, <1>7 DEF ModelLimit, ProviderFails, ToolLimit
<1>8. CASE ~Settled /\ ModelStops
  <2>1. \/ Finish("protocol_error", ScriptedTurn.content)
        \/ ScriptedTurn.tool_calls = << >> /\ Finish("finished", ScriptedTurn.content)
    BY <1>8 DEF ModelStops, Turns
  <2>2. CASE Finish("protocol_error", ScriptedTurn.content)
    BY <1>1, <1>6, <1>8, <2>2
  <2>3. CASE ScriptedTurn.tool_calls = << >> /\ Finish("finished", ScriptedTurn.content)
    <3>1. /\ terminal'.content = ScriptedTurn.content
          /\ tasks' = tasks /\ pc = "model"
      BY <1>8, <2>3 DEF Finish, ModelStops, permissions
    <3> QED
      BY <1>1, <1>2, <2>3, <3>1, ScriptedClaim
  <2> QED
    BY <2>1, <2>2, <2>3
<1> QED
  BY <1>3, <1>5, <1>7, <1>8, JournalMoves

LEMMA AgentStep ==
    ASSUME Inv, StrongInv, AgentInv, [Next]_vars
    PROVE  AgentInv'
<1>1. CASE Next
  BY <1>1, ScopeStep, TurnsStep, ScriptStep, ClaimStep DEF AgentInv
<1>2. CASE UNCHANGED vars
  <2> USE DEF vars, checkpoint, calls, counts, permissions, files, deaths
  <2>1. /\ Context' = Context /\ Refreshes' = Refreshes /\ Injected' = Injected
        /\ ExpectedTitle' = ExpectedTitle /\ WriteAllowed' = WriteAllowed
        /\ Enforced' = Enforced /\ Evaluation' = Evaluation
    BY <1>2, SameExperiment, SameEvaluation
  <2>2. ScopeInv'
    BY <1>2, ScopeStep DEF AgentInv
  <2>3. TurnsInv'
    BY <1>2, <2>1 DEF AgentInv, TurnsInv
  <2>4. ScriptInv'
    BY <1>2 DEF AgentInv, ScriptInv, CreateAt, Call
  <2>5. ClaimInv'
    BY <1>2, <2>1 DEF AgentInv, ClaimInv
  <2> QED
    BY <2>2, <2>3, <2>4, <2>5 DEF AgentInv
<1> QED
  BY <1>1, <1>2

\* Whatever payload, old approval, decision or crash a run meets: under
\* enforcement a context run has no boundary violation and the scripted agents
\* claim nothing that is not so; with the refresh they never ask for a stale
\* task.
THEOREM PoliciesKeepTheirPromise == Spec => []PoliciesProtect
<1>1. Inv /\ StrongInv /\ AgentInv /\ [Next]_vars => AgentInv'
  BY AgentStep
<1>2. ASSUME Inv, StrongInv, AgentInv PROVE RefreshedNeverStale
  BY <1>2 DEF RefreshedNeverStale, AgentInv, TurnsInv
<1>3. Inv /\ StrongInv /\ AgentInv => PoliciesProtect
  BY <1>2, ScopeHolds DEF PoliciesProtect, AgentInv, ClaimInv, EnforcedClaimsHold
<1> QED
  BY <1>1, <1>3, AgentInit, StrongInvariance, PTL DEF Spec

-----------------------------------------------------------------------------
(* The refinement: every step of an enforced run is a step of ApprovedWrites *)
(* or leaves its variables alone.                                            *)

DecisionRow(op) == [operation_id |-> op, title |-> proposals[op].title,
                    approved |-> proposals[op].decision = "approved"]
WrittenRow(op) == [operation_id |-> op, title |-> effects[op].title,
                   task |-> effects[op].task_id]
AnswerRow(i) == [turn |-> i, operation_id |-> messages[i].operation_id,
                 task |-> messages[i].answer.task]

LEMMA Rows ==
    /\ \A d : d \in DecidedProposals <=>
          \E op \in DOMAIN proposals : ~Pending(op) /\ d = DecisionRow(op)
    /\ \A w : w \in WrittenTasks <=> \E op \in DOMAIN effects : w = WrittenRow(op)
    /\ \A a : a \in AnsweredCreates <=>
          \E i \in 1 .. Len(messages) : CreateAt(i) /\ a = AnswerRow(i)
  BY DEF DecidedProposals, WrittenTasks, AnsweredCreates, DecisionRow,
     WrittenRow, AnswerRow, CreateAt

LEMMA RowsNext ==
    /\ \A d : d \in DecidedProposals' <=>
          \E op \in DOMAIN proposals' : ~Pending(op)' /\ d = DecisionRow(op)'
    /\ \A w : w \in WrittenTasks' <=> \E op \in DOMAIN effects' : w = WrittenRow(op)'
    /\ \A a : a \in AnsweredCreates' <=>
          \E i \in 1 .. Len(messages') : CreateAt(i)' /\ a = AnswerRow(i)'
  BY DEF DecidedProposals, WrittenTasks, AnsweredCreates, DecisionRow,
     WrittenRow, AnswerRow, CreateAt

\* What leaves the title and the decision of every decided proposal alone and
\* decides none leaves the abstract decisions alone.
LEMMA DecisionsKept ==
    ASSUME DOMAIN proposals \subseteq DOMAIN proposals',
           \A op \in DOMAIN proposals :
              /\ proposals'[op].title = proposals[op].title
              /\ proposals'[op].decision = proposals[op].decision,
           \A op \in DOMAIN proposals' \ DOMAIN proposals :
              proposals'[op].decision = "pending"
    PROVE  DecidedProposals' = DecidedProposals
<1>1. \A op \in DOMAIN proposals :
         (Pending(op)' <=> Pending(op)) /\ DecisionRow(op)' = DecisionRow(op)
  BY DEF Pending, DecisionRow
<1>2. \A op \in DOMAIN proposals' \ DOMAIN proposals : Pending(op)'
  BY DEF Pending
<1>3. \A d : d \in DecidedProposals' <=> d \in DecidedProposals
  BY <1>1, <1>2, Rows, RowsNext
<1> QED
  BY <1>3

LEMMA DecidingStep ==
    ASSUME NEW op, Changes(op)
    PROVE  DecidedProposals' = DecidedProposals
              \/ /\ \E d \in DecidedProposals' :
                       /\ ~Boundary!Decided(d.operation_id)
                       /\ DecidedProposals' = DecidedProposals \cup {d}
<1>1. CASE Pending(op)'
  <2>1. \A o \in DOMAIN proposals :
           /\ proposals'[o].title = proposals[o].title
           /\ proposals'[o].decision = proposals[o].decision
    BY <1>1 DEF Changes, Pending
  <2> QED
    BY <2>1, DecisionsKept DEF Changes
<1>2. CASE ~Pending(op)'
  <2>1. \A o \in DOMAIN proposals : o # op =>
           (Pending(o)' <=> Pending(o)) /\ DecisionRow(o)' = DecisionRow(o)
    BY DEF Changes, Pending, DecisionRow
  <2>2. op \in DOMAIN proposals /\ DOMAIN proposals' = DOMAIN proposals /\ Pending(op)
    BY DEF Changes
  <2>3. DecisionRow(op)' \in DecidedProposals'
    BY <1>2, <2>2, RowsNext
  <2>4. \A d : d \in DecidedProposals' <=>
           d \in DecidedProposals \/ d = DecisionRow(op)'
    BY <1>2, <2>1, <2>2, Rows, RowsNext
  <2>5. ~Boundary!Decided(DecisionRow(op)'.operation_id)
    <3>1. DecisionRow(op)'.operation_id = op
      BY DEF DecisionRow
    <3>2. ASSUME NEW d \in DecidedProposals PROVE d.operation_id # op
      BY <2>2, <3>2, Rows DEF DecisionRow
    <3> QED
      BY <3>1, <3>2 DEF Boundary!Decided
  <2>6. DecidedProposals' = DecidedProposals \cup {DecisionRow(op)'}
    BY <2>4
  <2> QED
    BY <2>3, <2>5, <2>6
<1> QED
  BY <1>1, <1>2

LEMMA WritingStep ==
    ASSUME Inv, StrongInv, Writes, Enforced, reserved, messages' = messages
    PROVE  Boundary!WriteOne
<1>0. PICK op : op = operation_id
  OBVIOUS
<1>a. PICK w : w = [operation_id |-> op, title |-> WriteTitle, task |-> fresh]
  OBVIOUS
<1>1. /\ op \notin DOMAIN effects /\ op \in DOMAIN proposals
      /\ Authorized(op, WriteTitle)
      /\ DOMAIN effects' = DOMAIN effects \cup {op}
      /\ effects'[op].task_id = fresh /\ effects'[op].title = WriteTitle
      /\ \A o \in DOMAIN effects : effects'[o] = effects[o]
  BY <1>0 DEF Writes, Insert, With
<1>2. /\ DOMAIN proposals' = DOMAIN proposals
      /\ \A o \in DOMAIN proposals :
            /\ proposals'[o].title = proposals[o].title
            /\ proposals'[o].decision = proposals[o].decision
  <2>1. CASE proposals' = proposals
    BY <2>1
  <2>2. CASE proposals' = [proposals EXCEPT ![op].consumed_task_id = fresh]
    <3>1. \A o \in DOMAIN proposals : o # op => proposals'[o] = proposals[o]
      BY <2>2
    <3>2. proposals'[op] = [proposals[op] EXCEPT !.consumed_task_id = fresh]
      BY <1>1, <2>2
    <3>3. proposals[op] \in Proposal
      BY <1>1, RecordAtHand
    <3>4. /\ proposals'[op].title = proposals[op].title
          /\ proposals'[op].decision = proposals[op].decision
      BY <3>2, <3>3 DEF Proposal
    <3> QED
      BY <2>2, <3>1, <3>4
  <2> QED
    BY <1>0, <2>1, <2>2 DEF Writes, Insert
<1>3. DecidedProposals' = DecidedProposals
  BY <1>2, DecisionsKept
<1>4. AnsweredCreates' = AnsweredCreates
  BY DEF AnsweredCreates
<1>5. WrittenRow(op)' = w /\ \A o \in DOMAIN effects : WrittenRow(o)' = WrittenRow(o)
  BY <1>1, <1>a DEF WrittenRow
<1>6. w \in WrittenTasks' /\ WrittenTasks' = WrittenTasks \cup {w}
  <2>1. w \in WrittenTasks'
    BY <1>1, <1>5, RowsNext
  <2>2. \A x : x \in WrittenTasks' <=> x \in WrittenTasks \/ x = w
    BY <1>1, <1>5, Rows, RowsNext
  <2> QED
    BY <2>1, <2>2
<1>7. w.operation_id = op /\ w.title = WriteTitle /\ w.task = fresh
  BY <1>a
<1>8. ASSUME NEW x \in WrittenTasks PROVE x.operation_id # op /\ x.task # fresh
  <2>1. PICK o \in DOMAIN effects : x = WrittenRow(o)
    BY Rows
  <2>2. x.operation_id = o /\ x.task = effects[o].task_id
    BY <2>1 DEF WrittenRow
  <2>3. effects[o].task_id \in 2 .. (fresh - 1) /\ fresh >= 2
    BY DEF StrongInv, LedgerInv
  <2>4. fresh \in Nat
    BY DEF Inv, StoreInv
  <2>5. effects[o].task_id # fresh
    BY <2>3, <2>4
  <2> QED
    BY <1>1, <2>2, <2>5
<1>9. Boundary!Task(w.operation_id) = {}
  BY <1>7, <1>8 DEF Boundary!Task
<1>10. [operation_id |-> w.operation_id, title |-> w.title, approved |-> TRUE]
          \in DecidedProposals
  <2>1. proposals[op].title = WriteTitle /\ proposals[op].decision = "approved"
    BY <1>1 DEF Authorized, Granted
  <2>2. DecisionRow(op) = [operation_id |-> w.operation_id, title |-> w.title,
                           approved |-> TRUE]
    BY <1>7, <2>1 DEF DecisionRow
  <2>3. ~Pending(op)
    BY <2>1 DEF Pending
  <2> QED
    BY <1>1, <2>2, <2>3, Rows
<1>11. ASSUME NEW a \in AnsweredCreates PROVE a.operation_id # w.operation_id
  <2>1. PICK i \in 1 .. Len(messages) : a = AnswerRow(i)
    BY Rows
  <2> QED
    BY <1>0, <1>7, <2>1, AnsweredBefore DEF AnswerRow
<1> QED
  BY <1>3, <1>4, <1>6, <1>7, <1>8, <1>9, <1>10, <1>11 DEF Boundary!WriteOne

LEMMA AnsweringStep ==
    ASSUME Inv, StrongInv, ReturnTool, Call.name = "create_task"
    PROVE  Boundary!AnswerOne
<1>n. PICK n : n = Len(messages) + 1
  OBVIOUS
<1> DEFINE m == [operation_id |-> operation_id, call |-> Call, answer |-> answer]
           a == [turn |-> n, operation_id |-> operation_id, task |-> answer.task]
<1>0. messages \in Seq(Message) /\ Len(messages) \in Nat
  BY DEF StrongInv, TypesInv
<1>1. /\ Len(messages') = n
      /\ messages'[n] = m
      /\ \A i \in 1 .. Len(messages) : messages'[i] = messages[i]
  BY <1>0, <1>n DEF ReturnTool
<1>2. UNCHANGED permissions /\ reserved /\ pc = "answer"
  BY DEF ReturnTool, StrongInv, ControlInv
<1>3. DecidedProposals' = DecidedProposals /\ WrittenTasks' = WrittenTasks
  BY <1>2 DEF permissions, DecidedProposals, Pending, WrittenTasks
<1>4. m.operation_id = operation_id /\ m.call = Call /\ m.answer = answer
  OBVIOUS
<1> HIDE DEF m
<1>5. /\ \A i \in 1 .. Len(messages) :
            (CreateAt(i)' <=> CreateAt(i)) /\ AnswerRow(i)' = AnswerRow(i)
      /\ CreateAt(n)' /\ AnswerRow(n)' = a
  BY <1>1, <1>4 DEF CreateAt, AnswerRow
<1>6. \A i : i \in 1 .. Len(messages') <=> i \in 1 .. Len(messages) \/ i = n
  BY <1>0, <1>1, <1>n
<1>7. n \notin 1 .. Len(messages) /\ \A i \in 1 .. Len(messages) : i < n
  BY <1>0, <1>n
<1>8. a.turn = n /\ a.operation_id = operation_id /\ a.task = answer.task
  OBVIOUS
<1> HIDE DEF a
<1>9. a \in AnsweredCreates'
  BY <1>5, <1>6, RowsNext
<1>10. AnsweredCreates' = AnsweredCreates \cup {a}
  <2>1. \A b : b \in AnsweredCreates' <=> b \in AnsweredCreates \/ b = a
    BY <1>5, <1>6, <1>7, Rows, RowsNext
  <2> QED
    BY <2>1
<1>11. ASSUME NEW b \in AnsweredCreates
       PROVE  b.turn < a.turn /\ b.operation_id # a.operation_id
  <2>1. PICK i \in 1 .. Len(messages) : b = AnswerRow(i)
    BY Rows
  <2>2. b.turn = i /\ b.operation_id = messages[i].operation_id
    BY <2>1 DEF AnswerRow
  <2> QED
    BY <1>2, <1>7, <1>8, <2>2, AnsweredBefore
<1>12. answer.task = TaskOf(operation_id)
  BY <1>2 DEF StrongInv, AnswersInv
<1>13. ASSUME NEW t
       PROVE  t \in Boundary!Task(a.operation_id) <=>
                 operation_id \in DOMAIN effects /\ t = effects[operation_id].task_id
  <2>1. t \in Boundary!Task(a.operation_id) <=>
           \E w \in WrittenTasks : w.operation_id = operation_id /\ w.task = t
    BY <1>8 DEF Boundary!Task
  <2>2. \A o \in DOMAIN effects :
           WrittenRow(o).operation_id = o /\ WrittenRow(o).task = effects[o].task_id
    BY DEF WrittenRow
  <2> QED
    BY <2>1, <2>2, Rows
<1>14. /\ Boundary!Task(a.operation_id) \subseteq {a.task}
       /\ a.task # 0 => a.task \in Boundary!Task(a.operation_id)
  BY <1>8, <1>12, <1>13 DEF TaskOf
<1> QED
  BY <1>3, <1>9, <1>10, <1>11, <1>14 DEF Boundary!AnswerOne

LEMMA BoundaryStep ==
    ASSUME Inv, StrongInv, Next, Enforced
    PROVE  Boundary!BoundaryNext \/ UNCHANGED Boundary!boundary
<1> USE DEF Boundary!BoundaryNext, Boundary!boundary
<1>1. CASE ReturnTool
  <2>1. CASE Call.name = "create_task"
    BY <1>1, <2>1, AnsweringStep
  <2>2. CASE Call.name # "create_task"
    <3>n. PICK n : n = Len(messages) + 1
      OBVIOUS
    <3> DEFINE m == [operation_id |-> operation_id, call |-> Call, answer |-> answer]
    <3>0. messages \in Seq(Message) /\ Len(messages) \in Nat
      BY DEF StrongInv, TypesInv
    <3>1. /\ Len(messages') = n
          /\ messages'[n] = m
          /\ \A i \in 1 .. Len(messages) : messages'[i] = messages[i]
      BY <1>1, <3>0, <3>n DEF ReturnTool
    <3>2. m.call = Call
      OBVIOUS
    <3> HIDE DEF m
    <3>3. /\ \A i \in 1 .. Len(messages) :
                (CreateAt(i)' <=> CreateAt(i)) /\ AnswerRow(i)' = AnswerRow(i)
          /\ ~CreateAt(n)'
      BY <2>2, <3>1, <3>2 DEF CreateAt, AnswerRow
    <3>4. \A i : i \in 1 .. Len(messages') <=> i \in 1 .. Len(messages) \/ i = n
      BY <3>0, <3>1, <3>n
    <3>5. \A b : b \in AnsweredCreates' <=> b \in AnsweredCreates
      BY <3>3, <3>4, Rows, RowsNext
    <3>6. DecidedProposals' = DecidedProposals /\ WrittenTasks' = WrittenTasks
      BY <1>1 DEF ReturnTool, permissions, DecidedProposals, Pending, WrittenTasks
    <3> QED
      BY <3>5, <3>6
  <2> QED
    BY <2>1, <2>2
<1>2. CASE messages' = messages
  <2>1. AnsweredCreates' = AnsweredCreates
    BY <1>2 DEF AnsweredCreates
  <2>2. CASE UNCHANGED permissions
    BY <2>1, <2>2 DEF permissions, DecidedProposals, Pending, WrittenTasks
  <2>3. ASSUME NEW op, Proposes(op)
        PROVE  UNCHANGED Boundary!boundary
    <3>1. DecidedProposals' = DecidedProposals
      BY <2>3, DecisionsKept DEF Proposes
    <3> QED
      BY <2>1, <2>3, <3>1 DEF Proposes, WrittenTasks
  <2>4. ASSUME NEW op, Changes(op)
        PROVE  Boundary!DecideOne \/ UNCHANGED Boundary!boundary
    <3>1. WrittenTasks' = WrittenTasks
      BY <2>4 DEF Changes, WrittenTasks
    <3> QED
      BY <2>1, <2>4, <3>1, DecidingStep DEF Boundary!DecideOne
  <2>5. CASE ChangeRevision
    BY <2>1, <2>5 DEF ChangeRevision, DecidedProposals, Pending, WrittenTasks
  <2>6. CASE (WriteTask \/ ReplayWrite) /\ Writes
    <3>1. reserved
      BY <2>6 DEF WriteTask, ReplayWrite, StrongInv, ControlInv, CreateSteps
    <3> QED
      BY <1>2, <2>6, <3>1, WritingStep
  <2> QED
    BY <2>2, <2>3, <2>4, <2>5, <2>6, StoreMoves
<1> QED
  BY <1>1, <1>2, JournalMoves

LEMMA BoundaryStart == Init => Boundary!BoundaryInit
<1> SUFFICES ASSUME Init PROVE Boundary!BoundaryInit
  OBVIOUS
<1>1. DOMAIN proposals = {} /\ DOMAIN effects = {} /\ Len(messages) = 0
  BY DEF Init, PermissionsInit
<1>2. DecidedProposals = {} /\ WrittenTasks = {} /\ AnsweredCreates = {}
  BY <1>1, Rows
<1> QED
  BY <1>2 DEF Boundary!BoundaryInit

\* Whatever its sessions go through, an enforced run is the boundary that
\* decides each operation once, writes it at most once and only as approved,
\* and answers each call once with the task it has (permissions.py write,
\* boundaries.py tool_step).
THEOREM BoundaryIsImplemented == Spec => ImplementsApprovedWrites
<1>1. Init => Boundary!BoundaryInit
  BY BoundaryStart
<1>2. Inv /\ StrongInv /\ [Next]_vars =>
         [Enforced => Boundary!BoundaryNext]_(Boundary!boundary)
  <2>1. UNCHANGED vars => UNCHANGED Boundary!boundary
    BY DEF vars, checkpoint, permissions, Boundary!boundary, DecidedProposals,
       Pending, WrittenTasks, AnsweredCreates
  <2> QED
    BY <2>1, BoundaryStep
<1>3. Spec => [](Inv /\ StrongInv)
  BY StrongInvariance
<1>4. Spec => [][Enforced => Boundary!BoundaryNext]_(Boundary!boundary)
  BY <1>2, <1>3, PTL DEF Spec
<1> QED
  BY <1>1, <1>4, PTL DEF Spec, ImplementsApprovedWrites
=============================================================================
