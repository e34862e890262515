-------------------------- MODULE InProcess_proofs --------------------------
(***************************************************************************)
(* Theorems about the in-process experiments: the run (InProcessRun), for  *)
(* every configuration of the three experiments, every caller, any limits  *)
(* a fixed caller can live with and any number of storage failures; and    *)
(* the comparison that executes such runs one after the other              *)
(* (Comparison), for every kind of plan.  The invariant of a run adds up   *)
(* the counters at every attempt, ties the effects of an operation to the  *)
(* ledger and to the attempt in progress, and follows the fixed callers    *)
(* turn by turn: what they have asked for, what they were told, and what   *)
(* is stored.  That of a comparison says at every statement of its loop    *)
(* what is recorded and which run is the partial one.                      *)
(***************************************************************************)
EXTENDS InProcessRun, Comparison, FiniteSetTheorems, TLAPS

Counters == {"operations", "attempts", "retries", "entries", "replayed",
             "delivery_errors", "faults", "valid", "syntax", "schema",
             "request", "unchecked"}
Delivery == [call : ToolCall, form : {"valid", "syntax", "schema"}, ok : BOOLEAN,
             task : Nat, title : Titles \cup {BlankTitle, ChangedTitle}]
Execution == [status : {"running", "finished", "protocol_error",
                        "provider_error", "model_limit", "tool_limit"},
              content : Contents]
Effect == [task : Nat, operation : Nat]

TypesInv ==
    /\ StoreType
    /\ config \in Configs
    /\ pc \in {"caller", "tools", "attempt", "evaluate", "done", "broken"}
    /\ queue \in Seq(ToolCall)
    /\ last \in Delivery
    /\ number \in 0 .. 2
    /\ consumed \in BOOLEAN
    /\ calls \in [model : 0 .. MaxModelCalls, tool : Nat, executed : Nat]
    /\ counts \in [Counters -> Nat]
    /\ execution \in Execution
    /\ effects \in SUBSET Effect /\ IsFiniteSet(effects)
    /\ failures \in 0 .. MaxFailures

\* The control of a call, the budgets, and what was graded.
FlowInv ==
    /\ pc \in {"tools", "attempt"} => queue # << >>
    /\ pc = "attempt" <=> number # 0
    /\ pc = "attempt" => /\ config.kind = "retries"
                         /\ WellFormed(Head(queue))
                         /\ number <= AttemptLimit
    /\ number = 2 => Head(queue).name = "create_task" /\ consumed
    /\ calls.executed <= calls.tool
    /\ config.who # "workflow" => calls.tool <= MaxToolCalls
    /\ pc # "done" => evaluation = {}
    /\ pc = "done" =>
          \E unreadable \in BOOLEAN :
             /\ evaluation = {EvaluateRun(InspectState(tasks, unreadable), Title,
                                          execution)}
             /\ failures = 0 => ~unreadable

\* The accounts at every step: those of a finished run, less the attempt that
\* is in progress.
InProgress == IF pc = "attempt" THEN 1 ELSE 0
AccountsInv ==
    /\ config.kind = "retries" =>
          /\ counts.operations = calls.executed
          /\ counts.attempts + InProgress = counts.operations + counts.retries
          /\ AttemptLimit = 1 => counts.retries = 0
          /\ pc # "attempt" => counts.retries <= counts.operations
          /\ pc = "attempt" => counts.retries + 2 <= counts.operations + number
          /\ counts.replayed <= counts.entries
          /\ counts.entries <= counts.attempts
          /\ counts.delivery_errors = counts.faults
          /\ counts.faults = IF consumed THEN 1 ELSE 0
          /\ counts.faults <= counts.attempts
          /\ consumed => config.case # "retry-healthy"
          /\ ~Protected => counts.replayed = 0
    /\ config.kind = "responses" => ContractAccounts

\* The effects of an operation: none before its first attempt, one after a
\* protected one, and never two but where a lost reply is tried again.
Repeats == /\ config.policy = "retry-unprotected"
           /\ config.case = "lost-reply-once"
EffectsOf(op) == {e \in effects : e.operation = op}
LedgerInv ==
    /\ \A e \in effects :
          e.operation <= IF config.kind = "retries" THEN counts.operations
                         ELSE calls.tool
    /\ ~Repeats => \A e, f \in effects : e.operation = f.operation => e = f
    /\ Repeats => \A op \in Nat : Cardinality(EffectsOf(op)) <= 2
    /\ pc = "attempt" /\ ~Repeats /\ (number = 1 \/ ~Protected) =>
          EffectsOf(counts.operations) = {}
    /\ pc = "attempt" /\ Repeats =>
          Cardinality(EffectsOf(counts.operations)) <= number - 1
    /\ Protected =>
          /\ \A e \in effects : \E row \in task_operations :
                row.operation_id = e.operation /\ row.task_id = e.task
          /\ \A row, other \in task_operations :
                row.operation_id = other.operation_id => row = other
          /\ \A row \in task_operations :
                /\ row.operation_id <= counts.operations
                /\ [id |-> row.task_id, title |-> row.title] \in tasks
          /\ pc = "attempt" => \A row \in Recorded(counts.operations) :
                number = 2 /\ row.title = Head(queue).title

\* A fixed caller whose success should be true, turn by turn.
Honest ==
    /\ config.who \in {"scripted", "workflow"}
    /\ ~ /\ config.kind = "claims" /\ config.who = "scripted"
         /\ config.policy = "baseline" /\ config.case = "dropped-write"
    /\ ~ /\ config.kind = "responses" /\ config.policy = "pass-through"
         /\ config.case = "wrong-get-id"
    /\ ~Repeats
Row(id) == [id |-> id, title |-> Title]
Stored(id) ==
    /\ id # 0
    /\ tasks = {Row(id)} \/ (config.case = "dropped-write" /\ tasks = {})
TurnsInv ==
    /\ config.who = "workflow" => calls.model = 0
    /\ config.who = "scripted" =>
          /\ pc \in {"caller", "attempt"} => calls.model = calls.tool
          /\ pc = "tools" => calls.model = calls.tool + 1
    /\ pc \in {"tools", "attempt"} => Len(queue) = 1
    /\ pc = "caller" => calls.tool \in {0, 1, 2}
    /\ pc = "tools" => calls.tool \in {0, 1}
    /\ pc = "attempt" => calls.tool \in {1, 2}
    /\ calls.tool = 0 => tasks = {} /\ task_operations = {}
CreateInv ==
    /\ pc = "tools" /\ calls.tool = 0 => Head(queue) = Create(Title)
    /\ pc = "attempt" /\ calls.tool = 1 =>
          /\ Head(queue) = Create(Title)
          /\ \/ tasks = {} /\ task_operations = {}
             \/ /\ Protected
                /\ \E id \in Nat \ {0} :
                      /\ tasks = {Row(id)}
                      /\ task_operations =
                            {[operation_id |-> counts.operations,
                              title |-> Title, task_id |-> id]}
    /\ pc = "caller" /\ calls.tool = 1 =>
          /\ last.call = Create(Title)
          /\ last.ok /\ last.task # 0 => Stored(last.task)
GetInv ==
    /\ \/ pc = "tools" /\ calls.tool = 1
       \/ pc = "attempt" /\ calls.tool = 2
       =>
          \E id \in Nat : Head(queue) = Get(id) /\ Stored(id)
    /\ pc = "caller" /\ calls.tool = 2 =>
          /\ last.call.name = "get_task"
          /\ last.ok /\ last.task # 0 => tasks = {Row(last.task)}
ClaimInv ==
    /\ pc \notin {"evaluate", "done"} => execution.content = Absent
    /\ config.kind = "claims" /\ last.task # 0 => last.ok
    /\ config.who = "invalid-report" => execution.content.status # "completed"
    /\ Honest /\ execution.content.status = "completed" =>
          execution.content.task # 0 /\ tasks = {Row(execution.content.task)}
ScriptInv == Honest => TurnsInv /\ CreateInv /\ GetInv

\* A protected operation without a storage failure goes the whole way.
Recovered ==
    /\ pc # "broken"
    /\ pc = "caller" /\ calls.tool \in {1, 2} =>
          /\ last.ok /\ last.task # 0 /\ last.title = Title
          /\ calls.tool = 2 => last.task = last.call.task
    /\ pc \in {"evaluate", "done"} =>
          /\ execution.status = "finished"
          /\ execution.content.status = "completed"
RecoveryInv == Protected /\ config.who # "live" /\ failures = 0 => Recovered

RunInv == /\ TypesInv /\ FlowInv /\ AccountsInv /\ LedgerInv /\ ClaimInv
          /\ ScriptInv /\ RecoveryInv /\ SuccessMatchesRequest

-----------------------------------------------------------------------------
(* The configuration, the counters, and the answers of the executors *)

LEMMA ConfigFacts ==
    ASSUME TypesInv
    PROVE  /\ config \in ExperimentConfig
           /\ config.kind \in {"claims", "responses", "retries"}
           /\ config.who \in Callers
           /\ AttemptLimit \in {1, 2}
           /\ Protected => /\ config.kind = "retries" /\ AttemptLimit = 2
                           /\ ~Repeats
                           /\ config.who \in {"scripted", "workflow", "live"}
           /\ Repeats => config.kind = "retries" /\ AttemptLimit = 2
           /\ ~Protected /\ ~Repeats /\ config.kind = "retries" =>
                 AttemptLimit = 1 \/ config.case # "lost-reply-once"
           /\ config.kind = "retries" => /\ config.case # "dropped-write"
                                         /\ config.case \in RetryCase
           /\ config.kind = "responses" =>
                 /\ config.policy \in {"pass-through", "validated"}
                 /\ config.who \in {"scripted", "live"}
           /\ config.kind = "claims" =>
                 config.policy \in {"baseline", "read-back"}
  <1>1. config \in ExperimentConfig
    BY RunAssumption DEF RunAssumption, TypesInv
  <1> QED BY <1>1 DEF ExperimentConfig, Callers, AttemptLimit, Protected,
              Repeats, RetryCase, RetryPolicy, ResponseCase, FaultMode

LEMMA CountedIs ==
    ASSUME TypesInv, NEW ks
    PROVE  /\ Counted(ks) \in [Counters -> Nat]
           /\ \A k \in Counters :
                 Counted(ks)[k] = IF k \in ks THEN counts[k] + 1 ELSE counts[k]
  BY DEF TypesInv, Counted

LEMMA Fields ==
    /\ \A c \in [Counters -> Nat] :
          /\ c.operations = c["operations"] /\ c.attempts = c["attempts"]
          /\ c.retries = c["retries"] /\ c.entries = c["entries"]
          /\ c.replayed = c["replayed"] /\ c.faults = c["faults"]
          /\ c.delivery_errors = c["delivery_errors"]
    /\ \A c \in [Counters -> Nat] :
          /\ c.valid = c["valid"] /\ c.syntax = c["syntax"]
          /\ c.schema = c["schema"] /\ c.request = c["request"]
          /\ c.unchecked = c["unchecked"]
  BY Zenon

LEMMA TitleFacts ==
    /\ Title \in Titles /\ Title # BlankTitle
    /\ Create(Title) \in ToolCall /\ Create(Title).title = Title
    /\ Create(Title).name = "create_task" /\ Create(Title).task = 0
    /\ \A id \in Nat : /\ Get(id) \in ToolCall /\ Get(id).name = "get_task"
                       /\ Get(id).task = id
    /\ ChangedTitle \notin Titles
  BY RunAssumption DEF RunAssumption, Create, Get, ToolCall

LEMMA Transitive ==
    ASSUME NEW a \in Nat, NEW b \in Nat, NEW c, a <= b, b <= c, c \in Nat
    PROVE  a <= c
  OBVIOUS

\* What a call and its two kinds of answers are.
LEMMA CallFacts ==
    ASSUME NEW call \in ToolCall
    PROVE  /\ call.name \in {"create_task", "get_task"} /\ call.task \in Nat
           /\ call.title \in Titles \cup {BlankTitle}
           /\ WellFormed(call) /\ call.name = "create_task" => call.title \in Titles
           /\ Failure(call) \in Delivery /\ ~Failure(call).ok
           /\ Failure(call).call = call /\ Failure(call).form = "valid"
           /\ Failure(call).task = 0
           /\ \A id \in Nat, title \in Titles \cup {BlankTitle} :
                 /\ Success(call, id, title) \in Delivery
                 /\ Success(call, id, title).ok = TRUE
                 /\ Success(call, id, title).call = call
                 /\ Success(call, id, title).form = "valid"
                 /\ Success(call, id, title).task = id
                 /\ Success(call, id, title).title = title
  BY DEF ToolCall, WellFormed, Failure, Success, Deliveries, Delivery

AnyTitle == Titles \cup {BlankTitle}
LEMMA SuccessIs ==
    \A call \in ToolCall, id \in Nat, title \in AnyTitle :
       /\ Success(call, id, title) \in Delivery
       /\ Success(call, id, title).ok = TRUE
       /\ Success(call, id, title).call = call
       /\ Success(call, id, title).form = "valid"
       /\ Success(call, id, title).task = id
       /\ Success(call, id, title).title = title
  BY DEF ToolCall, Success, Deliveries, Delivery, AnyTitle

LEMMA QueueFacts ==
    ASSUME TypesInv, queue # << >>
    PROVE  /\ Head(queue) \in ToolCall /\ Tail(queue) \in Seq(ToolCall)
           /\ Len(queue) \in Nat /\ Len(Tail(queue)) = Len(queue) - 1
           /\ Len(queue) = 1 <=> Tail(queue) = << >>
  <1>1. queue \in Seq(ToolCall) /\ Len(queue) \in Nat /\ Len(queue) > 0
    BY DEF TypesInv
  <1>2. \A s \in Seq(ToolCall) : s = << >> <=> Len(s) = 0
    OBVIOUS
  <1>3. /\ Head(queue) \in ToolCall /\ Tail(queue) \in Seq(ToolCall)
        /\ Len(Tail(queue)) = Len(queue) - 1
    BY <1>1
  <1> DEFINE tail == Tail(queue)
  <1>4. tail = << >> <=> Len(tail) = 0
    BY <1>2, <1>3
  <1>5. Len(tail) = Len(queue) - 1
    BY <1>3
  <1> HIDE DEF tail
  <1>6. Len(queue) = 1 <=> tail = << >>
    BY <1>1, <1>4, <1>5
  <1> QED BY <1>1, <1>3, <1>6 DEF tail

\* What every answer leaves behind.
Answered ==
    /\ number' = 0
    /\ queue' = Tail(queue) /\ queue' \in Seq(ToolCall)
    /\ pc' \in {"caller", "tools"}
    /\ pc' = "tools" => queue' # << >>
    /\ Len(queue) = 1 => pc' = "caller"
    /\ config' = config /\ execution' = execution /\ evaluation' = evaluation

LEMMA AnswerIs ==
    ASSUME TypesInv, queue # << >>, NEW d, Answer(d)
    PROVE  last' = d /\ Answered
  BY QueueFacts DEF Answer, Answered, result

\* How a delivery is counted by the response experiment.
Tallied ==
    /\ counts'.valid + counts'.syntax + counts'.schema + counts'.request
          + counts'.unchecked
       = counts.valid + counts.syntax + counts.schema + counts.request
          + counts.unchecked + 1
    /\ config.policy = "pass-through" => counts'.unchecked = counts.unchecked + 1
    /\ config.policy = "validated" => counts'.unchecked = counts.unchecked
    /\ counts'.faults \in {counts.faults, counts.faults + 1}
    /\ config.case = "healthy" => counts'.faults = counts.faults

LEMMA DamagedIs ==
    ASSUME NEW d \in Delivery, d.form = "valid", TypesInv,
           config.kind = "responses"
    PROVE  /\ Damaged(d) \in Delivery /\ Damaged(d).call = d.call
           /\ Damaged(d).ok => d.ok
           /\ ~d.ok \/ d.task = 0 => Damaged(d) = d
           /\ config.case = "healthy" => Damaged(d) = d
           /\ Damaged(d).task # 0 => d.task # 0
           /\ Damaged(d).form = "valid" /\ Damaged(d).ok =>
                 /\ Damaged(d).title \in {d.title, ChangedTitle}
                 /\ d.call.name = "create_task" => Damaged(d).task = d.task
                 /\ d.call.name = "get_task" => Damaged(d).title = d.title
           /\ d.call.name = "create_task" => Damaged(d).task = d.task
           /\ d.call.name = "get_task" /\ config.case # "wrong-get-id" =>
                 Damaged(d) = d
  <1> DEFINE D(f, ok, t, title) == [call |-> d.call, form |-> f, ok |-> ok,
                                    task |-> t, title |-> title]
  <1>1. /\ d.call \in ToolCall /\ d.ok \in BOOLEAN /\ d.task \in Nat
        /\ d.title \in Titles \cup {BlankTitle, ChangedTitle}
        /\ d = D("valid", d.ok, d.task, d.title)
    BY DEF Delivery
  <1>2. /\ [d EXCEPT !.form = "syntax"] = D("syntax", d.ok, d.task, d.title)
        /\ [d EXCEPT !.form = "schema"] = D("schema", d.ok, d.task, d.title)
        /\ [d EXCEPT !.title = ChangedTitle] =
              D("valid", d.ok, d.task, ChangedTitle)
        /\ [d EXCEPT !.task = Nowhere] = D("valid", d.ok, Nowhere, d.title)
    BY DEF Delivery
  <1>3. ASSUME NEW f \in {"syntax", "schema"}
        PROVE  [d EXCEPT !.form = f, !.ok = FALSE] = D(f, FALSE, d.task, d.title)
    <2> DEFINE e == [d EXCEPT !.form = f]
               no == FALSE
               new == [e EXCEPT !.ok = no]
               dd == D(f, d.ok, d.task, d.title)
    <2>1. e = dd
      BY <1>2, <1>3
    <2> HIDE DEF e, no
    <2>2. new = D(f, no, d.task, d.title)
      BY <2>1
    <2>3. new = [d EXCEPT !.form = f, !.ok = FALSE]
      BY Zenon DEF e, no
    <2> HIDE DEF new
    <2> QED BY <2>2, <2>3, Zenon DEF no
  <1>5. \A f \in {"valid", "syntax", "schema"}, ok \in BOOLEAN, t \in Nat,
           title \in Titles \cup {BlankTitle, ChangedTitle} :
              /\ D(f, ok, t, title) \in Delivery
              /\ D(f, ok, t, title).call = d.call
              /\ D(f, ok, t, title).form = f
              /\ D(f, ok, t, title).ok = ok
              /\ D(f, ok, t, title).task = t
              /\ D(f, ok, t, title).title = title
    BY <1>1 DEF Delivery
  <1>6. Nowhere \in Nat
    BY DEF Nowhere
  <1> DEFINE about == /\ d.ok /\ d.task # 0
                      /\ d.call.name = IF config.case = "wrong-get-id"
                                       THEN "get_task" ELSE "create_task"
  <1>7. /\ ~about => Damaged(d) = d
        /\ about =>
              /\ config.case = "malformed-json" =>
                    Damaged(d) = [d EXCEPT !.form = "syntax", !.ok = FALSE]
              /\ config.case \in {"duplicate-keys", "non-finite"} =>
                    Damaged(d) = [d EXCEPT !.form = "syntax"]
              /\ config.case = "wrong-type" =>
                    Damaged(d) = [d EXCEPT !.form = "schema", !.ok = FALSE]
              /\ config.case \in {"missing-field", "extra-field",
                                  "unsupported-version"} =>
                    Damaged(d) = [d EXCEPT !.form = "schema"]
              /\ config.case = "wrong-create-title" =>
                    Damaged(d) = [d EXCEPT !.title = ChangedTitle]
              /\ config.case = "wrong-get-id" =>
                    Damaged(d) = [d EXCEPT !.task = Nowhere]
              /\ config.case \in {"healthy", "dropped-write"} => Damaged(d) = d
    BY DEF Damaged
  <1>8. config.case \in ResponseCase
    BY ConfigFacts DEF ExperimentConfig
  <1>9. \/ Damaged(d) = d
        \/ /\ about
           /\ \/ Damaged(d) = D("syntax", FALSE, d.task, d.title)
              \/ Damaged(d) = D("syntax", d.ok, d.task, d.title)
              \/ Damaged(d) = D("schema", FALSE, d.task, d.title)
              \/ Damaged(d) = D("schema", d.ok, d.task, d.title)
              \/ /\ config.case = "wrong-create-title"
                 /\ Damaged(d) = D("valid", d.ok, d.task, ChangedTitle)
              \/ /\ config.case = "wrong-get-id"
                 /\ Damaged(d) = D("valid", d.ok, Nowhere, d.title)
    <2>1. config.case \in {"malformed-json", "duplicate-keys", "non-finite",
                          "missing-field", "extra-field", "wrong-type",
                          "unsupported-version", "wrong-create-title",
                          "wrong-get-id", "healthy", "dropped-write"}
      BY <1>8 DEF ResponseCase
    <2> HIDE DEF D, about
    <2> QED BY <1>2, <1>3, <1>7, <2>1
  <1>10. d.call.name \in {"create_task", "get_task"}
    BY <1>1 DEF ToolCall
  <1>11. /\ config.case = "healthy" => Damaged(d) = d
         /\ ~about => Damaged(d) = d
    BY <1>7
  <1>12. d.call = D("valid", d.ok, d.task, d.title).call
    BY <1>1
  <1> HIDE DEF D
  <1> DEFINE Fits(f, ok, t, title) ==
         /\ Damaged(d) \in Delivery /\ Damaged(d).call = d.call
         /\ Damaged(d).form = f /\ Damaged(d).ok = ok /\ Damaged(d).task = t
         /\ Damaged(d).title = title
  <1>13. \A f \in {"valid", "syntax", "schema"}, ok \in BOOLEAN, t \in Nat,
            title \in Titles \cup {BlankTitle, ChangedTitle} :
               Damaged(d) = D(f, ok, t, title) => Fits(f, ok, t, title)
    BY <1>5
  <1> HIDE DEF Fits
  <1>14. \/ Damaged(d) = d
         \/ about /\ (\/ Fits("syntax", FALSE, d.task, d.title)
                      \/ Fits("syntax", d.ok, d.task, d.title)
                      \/ Fits("schema", FALSE, d.task, d.title)
                      \/ Fits("schema", d.ok, d.task, d.title)
                      \/ /\ config.case = "wrong-create-title"
                         /\ Fits("valid", d.ok, d.task, ChangedTitle)
                      \/ /\ config.case = "wrong-get-id"
                         /\ Fits("valid", d.ok, Nowhere, d.title))
    <2>1. \A f \in {"valid", "syntax", "schema"} :
             /\ Damaged(d) = D(f, FALSE, d.task, d.title) =>
                   Fits(f, FALSE, d.task, d.title)
             /\ Damaged(d) = D(f, d.ok, d.task, d.title) =>
                   Fits(f, d.ok, d.task, d.title)
             /\ Damaged(d) = D(f, d.ok, d.task, ChangedTitle) =>
                   Fits(f, d.ok, d.task, ChangedTitle)
             /\ Damaged(d) = D(f, d.ok, Nowhere, d.title) =>
                   Fits(f, d.ok, Nowhere, d.title)
      <3>1. ChangedTitle \in Titles \cup {BlankTitle, ChangedTitle}
            /\ FALSE \in BOOLEAN
        OBVIOUS
      <3> QED BY <1>1, <1>6, <1>13, <3>1, Zenon
    <2>2. /\ "valid" \in {"valid", "syntax", "schema"}
          /\ "syntax" \in {"valid", "syntax", "schema"}
          /\ "schema" \in {"valid", "syntax", "schema"}
      OBVIOUS
    <2> HIDE DEF about
    <2> QED BY <1>9, <2>1, <2>2, Zenon
  <1>15. Damaged(d) = d => /\ Damaged(d) \in Delivery
                           /\ Damaged(d).call = d.call
                           /\ Damaged(d).form = "valid"
    BY <1>1
  <1> QED BY <1>1, <1>6, <1>10, <1>11, <1>14, <1>15 DEF Fits

\* What an executor without retries gives back: about the same call, a success
\* only of a success, naming the task that the tool named unless the case is
\* the one that renames it and the response is passed through.
LEMMA DeliverIs ==
    ASSUME TypesInv, queue # << >>, NEW d \in Delivery, d.form = "valid",
           config.kind # "retries",
           d.call.name = "get_task" => d.task \in {0, d.call.task},
           NEW dropped \in BOOLEAN, Deliver(d, dropped)
    PROVE  /\ last' \in Delivery /\ last'.call = d.call
           /\ Answered
           /\ last'.ok => d.ok
           /\ last'.task # 0 => d.task # 0
           /\ config.kind = "claims" => last' = d
           /\ last'.ok /\ last'.task # 0 =>
                 \/ last'.task = d.task
                 \/ /\ config.kind = "responses" /\ d.call.name = "get_task"
                    /\ config.policy = "pass-through"
                    /\ config.case = "wrong-get-id"
           /\ config.kind = "responses" /\ config.policy = "validated"
                /\ last'.ok =>
                 /\ d.call.name = "create_task" =>
                       /\ last'.task # 0 /\ last'.task = d.task
                       /\ last'.title = d.call.title
                 /\ d.call.name = "get_task" => last'.task \in {0, d.call.task}
  <1> DEFINE raw == IF config.kind = "responses" THEN Damaged(d) ELSE d
             damaged == /\ config.kind = "responses"
                        /\ config.policy = "validated"
                        /\ Contract(raw) # "valid"
             given == IF damaged THEN Failure(d.call) ELSE raw
  <1>1. Answer(given)
    BY DEF Deliver
  <1>2. last' = given
    BY <1>1 DEF Answer
  <1>3. Answered
    BY <1>1, AnswerIs
  <1>4. d.call \in ToolCall /\ d.call.name \in {"create_task", "get_task"}
    BY DEF Delivery, ToolCall
  <1>5. /\ Failure(d.call) \in Delivery /\ ~Failure(d.call).ok
        /\ Failure(d.call).call = d.call /\ Failure(d.call).task = 0
    BY <1>4, CallFacts
  <1>6. /\ config.kind = "claims" => raw = d
        /\ config.kind = "responses" => raw = Damaged(d)
        /\ config.kind \in {"claims", "responses"}
    BY ConfigFacts
  <1>7. config.kind = "responses" =>
           /\ raw \in Delivery /\ raw.call = d.call
           /\ raw.ok => d.ok
           /\ raw.task # 0 => d.task # 0
           /\ d.call.name = "create_task" => raw.task = d.task
           /\ d.call.name = "get_task" /\ config.case # "wrong-get-id" =>
                 raw = d
    BY <1>6, DamagedIs
  <1>8. config.kind = "responses" =>
           config.policy \in {"pass-through", "validated"}
    BY ConfigFacts
  <1>9. Contract(raw) = "valid" /\ raw.ok /\ raw \in Delivery =>
           /\ raw.call.name = "create_task" =>
                 raw.task # 0 /\ raw.title = raw.call.title
           /\ raw.call.name = "get_task" => raw.task \in {0, raw.call.task}
    <2>1. ASSUME Contract(raw) = "valid", raw.ok, raw \in Delivery,
                 raw.form = "valid"
          PROVE  /\ raw.call.name = "create_task" =>
                       raw.task # 0 /\ raw.title = raw.call.title
                 /\ raw.call.name = "get_task" => raw.task \in {0, raw.call.task}
      <3> HIDE DEF raw
      <3> QED BY <2>1 DEF Contract, Consistent
    <2>2. raw.form # "valid" => Contract(raw) = raw.form
      <3> HIDE DEF raw
      <3> QED BY DEF Contract
    <2> HIDE DEF raw
    <2> QED BY <2>1, <2>2
  <1> HIDE DEF raw
  <1>10. damaged => given = Failure(d.call)
    OBVIOUS
  <1>11. ~damaged => given = raw
    OBVIOUS
  <1>12. config.kind = "claims" => ~damaged
    OBVIOUS
  <1>13. config.kind = "responses" /\ config.policy = "validated" /\ ~damaged =>
            Contract(raw) = "valid"
    OBVIOUS
  <1> HIDE DEF damaged, given
  <1>14. CASE damaged
    BY <1>2, <1>3, <1>5, <1>10, <1>12, <1>14
  <1>15. CASE ~damaged
    <2>1. last' = raw
      BY <1>2, <1>11, <1>15
    <2>2. CASE config.kind = "claims"
      BY <2>1, <2>2, <1>3, <1>6
    <2>3. CASE config.kind = "responses"
      <3>1. last' \in Delivery /\ last'.call = d.call
        BY <2>1, <2>3, <1>7
      <3>2. config.policy = "validated" /\ last'.ok =>
              /\ d.call.name = "create_task" =>
                    last'.task # 0 /\ last'.title = d.call.title
              /\ d.call.name = "get_task" => last'.task \in {0, d.call.task}
        BY <2>1, <2>3, <1>7, <1>9, <1>13, <1>15
      <3> QED BY <3>1, <3>2, <2>1, <2>3, <1>3, <1>4, <1>7, <1>8
    <2> QED BY <2>2, <2>3, <1>6
  <1> QED BY <1>14, <1>15

\* Every delivery is counted once by its contract, and as a fault only when
\* something was done to it.
LEMMA DeliverCounts ==
    ASSUME TypesInv, queue # << >>, NEW d \in Delivery, d.form = "valid",
           config.kind # "retries", NEW dropped \in BOOLEAN,
           dropped => config.case = "dropped-write" /\ d.ok, Deliver(d, dropped)
    PROVE  /\ counts' \in [Counters -> Nat]
           /\ config.kind = "responses" =>
                 Tallied /\ (~d.ok => counts'.faults = counts.faults)
  <1> DEFINE raw == IF config.kind = "responses" THEN Damaged(d) ELSE d
             stage == Contract(raw)
             fault == IF dropped \/ raw # d THEN {"faults"} ELSE {}
             check == IF config.kind # "responses" THEN {}
                      ELSE IF config.policy = "validated" THEN {stage}
                      ELSE {"unchecked"}
             ks == check \cup fault
  <1>1. counts' = Counted(ks)
    BY DEF Deliver
  <1>2. config.kind = "responses" => raw = Damaged(d)
    OBVIOUS
  <1>3. config.kind = "responses" =>
           /\ raw \in Delivery
           /\ ~d.ok \/ config.case = "healthy" => raw = d
    BY <1>2, DamagedIs
  <1>4. fault \in {{}, {"faults"}}
    OBVIOUS
  <1>5. config.kind = "responses" /\ (~d.ok \/ config.case = "healthy") =>
           fault = {}
    BY <1>3
  <1>6. /\ config.kind = "responses" /\ config.policy = "validated" =>
              check = {stage}
        /\ config.kind = "responses" /\ config.policy = "pass-through" =>
              check = {"unchecked"}
    OBVIOUS
  <1> HIDE DEF raw
  <1>7. raw \in Delivery => stage \in {"valid", "syntax", "schema", "request"}
    <2>1. CASE raw \in Delivery /\ raw.form # "valid"
      <3>1. stage = raw.form
        BY <2>1 DEF Contract
      <3>2. raw.form \in {"valid", "syntax", "schema"}
        BY <2>1 DEF Delivery
      <3> HIDE DEF stage
      <3> QED BY <3>1, <3>2
    <2>2. CASE raw \in Delivery /\ raw.form = "valid"
      <3>1. stage \in {"valid", "request"}
        <4> HIDE DEF raw
        <4> QED BY <2>2 DEF Contract
      <3> HIDE DEF stage
      <3> QED BY <3>1
    <2> QED BY <2>1, <2>2
  <1>8. config.kind = "responses" =>
           config.policy \in {"pass-through", "validated"}
    BY ConfigFacts
  <1>9. ks = check \cup fault
    OBVIOUS
  <1> HIDE DEF stage, fault, check, ks
  <1>10. \A k \in Counters : counts'[k] = IF k \in ks THEN counts[k] + 1
                                          ELSE counts[k]
    BY <1>1, CountedIs
  <1>11. counts' \in [Counters -> Nat] /\ counts \in [Counters -> Nat]
    BY <1>1, CountedIs DEF TypesInv
  <1>12. CASE config.kind = "responses"
    <2>1. \E k \in {"valid", "syntax", "schema", "request", "unchecked"} :
             /\ check = {k}
             /\ config.policy = "validated" => k # "unchecked"
             /\ config.policy = "pass-through" => k = "unchecked"
      BY <1>3, <1>6, <1>7, <1>8, <1>12
    <2>2. PICK k \in {"valid", "syntax", "schema", "request", "unchecked"} :
             /\ check = {k}
             /\ config.policy = "validated" => k # "unchecked"
             /\ config.policy = "pass-through" => k = "unchecked"
      BY <2>1
    <2>3. \A c \in {"valid", "syntax", "schema", "request", "unchecked"} :
             c \in Counters /\ (c \in ks <=> c = k)
      BY <1>4, <1>9, <2>2 DEF Counters
    <2>4. "faults" \in Counters /\ ("faults" \in ks => fault # {})
      BY <1>4, <1>9, <2>2 DEF Counters
    <2>5. \A c \in {"valid", "syntax", "schema", "request", "unchecked"} :
             counts'[c] = (IF c = k THEN counts[c] + 1 ELSE counts[c])
             /\ counts[c] \in Nat
      BY <1>10, <1>11, <2>3
    <2>6. /\ counts'["faults"] \in {counts["faults"], counts["faults"] + 1}
          /\ ~d.ok \/ config.case = "healthy" =>
                counts'["faults"] = counts["faults"]
      BY <1>5, <1>10, <1>12, <2>4
    <2>7. /\ counts["valid"] \in Nat /\ counts["syntax"] \in Nat
          /\ counts["schema"] \in Nat /\ counts["request"] \in Nat
          /\ counts["unchecked"] \in Nat
      BY <2>5
    <2>8. /\ counts'["valid"] = IF k = "valid" THEN counts["valid"] + 1
                                ELSE counts["valid"]
          /\ counts'["syntax"] = IF k = "syntax" THEN counts["syntax"] + 1
                                 ELSE counts["syntax"]
          /\ counts'["schema"] = IF k = "schema" THEN counts["schema"] + 1
                                 ELSE counts["schema"]
          /\ counts'["request"] = IF k = "request" THEN counts["request"] + 1
                                  ELSE counts["request"]
          /\ counts'["unchecked"] = IF k = "unchecked"
                                    THEN counts["unchecked"] + 1
                                    ELSE counts["unchecked"]
      BY <2>5
    <2>9. counts'["valid"] + counts'["syntax"] + counts'["schema"]
             + counts'["request"] + counts'["unchecked"]
          = counts["valid"] + counts["syntax"] + counts["schema"]
             + counts["request"] + counts["unchecked"] + 1
      <3> DEFINE va == counts["valid"]
                 sy == counts["syntax"]
                 sc == counts["schema"]
                 re == counts["request"]
                 un == counts["unchecked"]
                 va2 == counts'["valid"]
                 sy2 == counts'["syntax"]
                 sc2 == counts'["schema"]
                 re2 == counts'["request"]
                 un2 == counts'["unchecked"]
      <3>1. va \in Nat /\ sy \in Nat /\ sc \in Nat /\ re \in Nat /\ un \in Nat
        BY <2>7
      <3>2. /\ va2 = IF k = "valid" THEN va + 1 ELSE va
            /\ sy2 = IF k = "syntax" THEN sy + 1 ELSE sy
            /\ sc2 = IF k = "schema" THEN sc + 1 ELSE sc
            /\ re2 = IF k = "request" THEN re + 1 ELSE re
            /\ un2 = IF k = "unchecked" THEN un + 1 ELSE un
        BY <2>8
      <3> HIDE DEF va, sy, sc, re, un, va2, sy2, sc2, re2, un2
      <3>3. va2 + sy2 + sc2 + re2 + un2 = va + sy + sc + re + un + 1
        BY <2>2, <3>1, <3>2
      <3> QED BY <3>3 DEF va, sy, sc, re, un, va2, sy2, sc2, re2, un2
    <2>10. /\ config.policy = "pass-through" =>
                 counts'["unchecked"] = counts["unchecked"] + 1
           /\ config.policy = "validated" =>
                 counts'["unchecked"] = counts["unchecked"]
      BY <2>2, <2>8
    <2>11. /\ counts'.faults = counts'["faults"]
           /\ counts'.valid = counts'["valid"]
           /\ counts'.syntax = counts'["syntax"]
           /\ counts'.schema = counts'["schema"]
           /\ counts'.request = counts'["request"]
           /\ counts'.unchecked = counts'["unchecked"]
      BY <1>11, Fields
    <2>12. /\ counts.faults = counts["faults"]
           /\ counts.valid = counts["valid"]
           /\ counts.syntax = counts["syntax"]
           /\ counts.schema = counts["schema"]
           /\ counts.request = counts["request"]
           /\ counts.unchecked = counts["unchecked"]
      BY <1>11, Fields
    <2> QED BY <1>11, <1>12, <2>6, <2>9, <2>10, <2>11, <2>12 DEF Tallied
  <1>13. CASE config.kind # "responses"
    BY <1>11, <1>13
  <1> QED BY <1>12, <1>13

\* What a read finds.
LEMMA FoundIs ==
    ASSUME TypesInv, NEW id \in Nat
    PROVE  /\ Found(id) \in Delivery /\ Found(id).call = Get(id)
           /\ Found(id).ok = TRUE /\ Found(id).form = "valid"
           /\ Found(id).task \in {0, id}
           /\ Found(id).task # 0 =>
                 \E row \in tasks : row.id = id /\ Found(id).title = row.title
           /\ Found(id).task = 0 /\ id # 0 => \A row \in tasks : row.id # id
  <1> DEFINE hit == CHOOSE row \in tasks : row.id = id
             title == IF GetTask(id) = 0 THEN BlankTitle ELSE hit.title
  <1>1. \A row \in tasks : row.id \in Nat /\ row.title \in Titles
    BY DEF TypesInv, StoreType, Task
  <1>2. GetTask(id) = IF \E row \in tasks : row.id = id THEN id ELSE 0
    BY DEF GetTask
  <1>3. GetTask(id) # 0 => hit \in tasks /\ hit.id = id
    BY <1>2
  <1>4. title \in Titles \cup {BlankTitle} /\ GetTask(id) \in Nat
    BY <1>1, <1>2, <1>3
  <1>5. Found(id) = Success(Get(id), GetTask(id), title)
    BY DEF Found
  <1>6. GetTask(id) # 0 => title = hit.title
    OBVIOUS
  <1>7. Get(id) \in ToolCall
    BY TitleFacts
  <1> HIDE DEF title, hit
  <1>8. /\ Success(Get(id), GetTask(id), title) \in Delivery
        /\ Success(Get(id), GetTask(id), title).ok = TRUE
        /\ Success(Get(id), GetTask(id), title).call = Get(id)
        /\ Success(Get(id), GetTask(id), title).form = "valid"
        /\ Success(Get(id), GetTask(id), title).task = GetTask(id)
        /\ Success(Get(id), GetTask(id), title).title = title
    <2> DEFINE call == Get(id)
               found == GetTask(id)
    <2>1. call \in ToolCall /\ found \in Nat
      BY <1>4, <1>7
    <2> HIDE DEF call, found
    <2>2. /\ Success(call, found, title) \in Delivery
          /\ Success(call, found, title).ok = TRUE
          /\ Success(call, found, title).call = call
          /\ Success(call, found, title).form = "valid"
          /\ Success(call, found, title).task = found
          /\ Success(call, found, title).title = title
      <3>1. \A i \in Nat, t \in Titles \cup {BlankTitle} :
               /\ Success(call, i, t) \in Delivery
               /\ Success(call, i, t).ok = TRUE
               /\ Success(call, i, t).call = call
               /\ Success(call, i, t).form = "valid"
               /\ Success(call, i, t).task = i
               /\ Success(call, i, t).title = t
        BY <2>1, CallFacts
      <3>2. title \in Titles \cup {BlankTitle}
        BY <1>4
      <3> HIDE DEF title
      <3> QED BY <2>1, <3>1, <3>2, Zenon
    <2> QED BY <2>2 DEF call, found
  <1>9. /\ Found(id) \in Delivery /\ Found(id).call = Get(id)
        /\ Found(id).ok = TRUE /\ Found(id).form = "valid"
        /\ Found(id).task = GetTask(id) /\ Found(id).title = title
    BY <1>5, <1>8, Zenon
  <1>10. /\ GetTask(id) \in {0, id}
         /\ GetTask(id) # 0 => \E row \in tasks : row.id = id /\ title = row.title
         /\ GetTask(id) = 0 /\ id # 0 => \A row \in tasks : row.id # id
    BY <1>2, <1>3, <1>6
  <1> QED BY <1>9, <1>10

(***************************************************************************)
(* The three ways the calls are counted                                    *)
(***************************************************************************)
LEMMA ModelCounted ==
    ASSUME TypesInv, calls' = [calls EXCEPT !.model = @ + 1]
    PROVE  /\ calls' \in [model : Nat, tool : Nat, executed : Nat]
           /\ calls'.model = calls.model + 1 /\ calls'.tool = calls.tool
           /\ calls'.executed = calls.executed
  BY DEF TypesInv

LEMMA ToolCounted ==
    ASSUME TypesInv, calls' = [calls EXCEPT !.tool = @ + 1]
    PROVE  /\ calls' \in [model : 0 .. MaxModelCalls, tool : Nat, executed : Nat]
           /\ calls'.model = calls.model /\ calls'.tool = calls.tool + 1
           /\ calls'.executed = calls.executed
  BY DEF TypesInv

LEMMA ExecutionCounted ==
    ASSUME TypesInv, calls' = [calls EXCEPT !.tool = @ + 1, !.executed = @ + 1]
    PROVE  /\ calls' \in [model : 0 .. MaxModelCalls, tool : Nat, executed : Nat]
           /\ calls'.model = calls.model /\ calls'.tool = calls.tool + 1
           /\ calls'.executed = calls.executed + 1
  <1> DEFINE one == [calls EXCEPT !.tool = @ + 1]
  <1>1. /\ one \in [model : 0 .. MaxModelCalls, tool : Nat, executed : Nat]
        /\ one.model = calls.model /\ one.tool = calls.tool + 1
        /\ one.executed = calls.executed
    BY DEF TypesInv
  <1> HIDE DEF one
  <1> DEFINE two == [one EXCEPT !.executed = @ + 1]
  <1>2. /\ two \in [model : 0 .. MaxModelCalls, tool : Nat, executed : Nat]
        /\ two.model = one.model /\ two.tool = one.tool
        /\ two.executed = one.executed + 1
    BY <1>1
  <1>3. calls' = two
    BY Zenon DEF one
  <1> HIDE DEF two
  <1> QED BY <1>1, <1>2, <1>3

-----------------------------------------------------------------------------
(* What the executors' actions do *)

LEMMA RefuseIs ==
    ASSUME TypesInv, FlowInv, Refuse
    PROVE  /\ pc = "tools" /\ queue # << >> /\ Head(queue) \in ToolCall
           /\ ~WellFormed(Head(queue)) /\ Answered
           /\ config.who # "workflow" => calls.tool < MaxToolCalls
           /\ UNCHANGED <<tasks, task_operations, hot, fresh, consumed, effects,
                          failures>>
           /\ calls' \in [model : 0 .. MaxModelCalls, tool : Nat, executed : Nat]
           /\ calls'.model = calls.model /\ calls'.tool = calls.tool + 1
           /\ calls'.executed = calls.executed
           /\ last' \in Delivery /\ ~last'.ok /\ last'.task = 0
           /\ last'.call = Head(queue)
           /\ counts' \in [Counters -> Nat]
           /\ config.kind = "retries" => counts' = counts
           /\ config.kind = "responses" =>
                 Tallied /\ counts'.faults = counts.faults
  <1>1. /\ pc = "tools" /\ queue # << >> /\ ~WellFormed(Head(queue))
        /\ config.who # "workflow" => calls.tool < MaxToolCalls
        /\ UNCHANGED <<tasks, task_operations, hot, fresh, consumed, effects,
                       failures>>
        /\ calls' = [calls EXCEPT !.tool = @ + 1]
    BY DEF Refuse, Requested, FlowInv, store
  <1>2. Head(queue) \in ToolCall
    BY <1>1, QueueFacts
  <1>3. /\ calls' \in [model : 0 .. MaxModelCalls, tool : Nat, executed : Nat]
        /\ calls'.model = calls.model /\ calls'.tool = calls.tool + 1
        /\ calls'.executed = calls.executed
    BY <1>1, ToolCounted
  <1> DEFINE d == Failure(Head(queue))
  <1>4. /\ d \in Delivery /\ ~d.ok /\ d.call = Head(queue) /\ d.form = "valid"
        /\ d.task = 0
    BY <1>2, CallFacts
  <1>5. \/ config.kind = "retries" /\ Answer(d) /\ counts' = counts
        \/ config.kind # "retries" /\ Deliver(d, FALSE)
    BY DEF Refuse
  <1>6. counts \in [Counters -> Nat]
    BY DEF TypesInv
  <1> HIDE DEF d
  <1>7. CASE config.kind = "retries" /\ Answer(d) /\ counts' = counts
    <2>1. last' = d /\ Answered
      BY <1>1, <1>7, AnswerIs
    <2> QED BY <2>1, <1>1, <1>2, <1>3, <1>4, <1>6, <1>7
  <1>8. CASE config.kind # "retries" /\ Deliver(d, FALSE)
    <2>1. /\ last' \in Delivery /\ last'.call = d.call /\ Answered
          /\ last'.ok => d.ok
          /\ last'.task # 0 => d.task # 0
      BY <1>1, <1>4, <1>8, DeliverIs
    <2>2. /\ counts' \in [Counters -> Nat]
          /\ config.kind = "responses" =>
                Tallied /\ (~d.ok => counts'.faults = counts.faults)
      BY <1>1, <1>4, <1>8, DeliverCounts
    <2> QED BY <2>1, <2>2, <1>1, <1>2, <1>3, <1>4, <1>8
  <1> QED BY <1>5, <1>7, <1>8

\* What the three executions of a tool have in common.
ExecutedCall ==
    /\ pc = "tools" /\ queue # << >> /\ Head(queue) \in ToolCall
    /\ WellFormed(Head(queue)) /\ config.kind # "retries" /\ Answered
    /\ config.who # "workflow" => calls.tool < MaxToolCalls
    /\ consumed' = consumed
    /\ calls' \in [model : 0 .. MaxModelCalls, tool : Nat, executed : Nat]
    /\ calls'.model = calls.model /\ calls'.tool = calls.tool + 1
    /\ calls'.executed = calls.executed + 1
    /\ last' \in Delivery
    /\ counts' \in [Counters -> Nat]
    /\ config.kind = "responses" => Tallied

LEMMA ExecutedIs ==
    ASSUME TypesInv, FlowInv, Executed, NEW d \in Delivery, d.form = "valid",
           d.call.name = "get_task" => d.task \in {0, d.call.task},
           NEW dropped \in BOOLEAN,
           dropped => config.case = "dropped-write" /\ d.ok, Deliver(d, dropped)
    PROVE  ExecutedCall
  <1>1. /\ pc = "tools" /\ queue # << >> /\ WellFormed(Head(queue))
        /\ config.who # "workflow" => calls.tool < MaxToolCalls
        /\ config.kind # "retries" /\ consumed' = consumed
        /\ calls' = [calls EXCEPT !.tool = @ + 1, !.executed = @ + 1]
    BY DEF Executed, Requested, FlowInv
  <1>2. Head(queue) \in ToolCall
    BY <1>1, QueueFacts
  <1>3. /\ calls' \in [model : 0 .. MaxModelCalls, tool : Nat, executed : Nat]
        /\ calls'.model = calls.model /\ calls'.tool = calls.tool + 1
        /\ calls'.executed = calls.executed + 1
    BY <1>1, ExecutionCounted
  <1>4. last' \in Delivery /\ Answered
    BY <1>1, DeliverIs
  <1>5. counts' \in [Counters -> Nat] /\ (config.kind = "responses" => Tallied)
    BY <1>1, DeliverCounts
  <1> QED BY <1>1, <1>2, <1>3, <1>4, <1>5 DEF ExecutedCall

LEMMA ExecuteCreateIs ==
    ASSUME TypesInv, FlowInv, ExecuteCreate
    PROVE  /\ ExecutedCall /\ failures' = failures
           /\ Head(queue).name = "create_task" /\ Head(queue).title \in Titles
           /\ last'.call = Head(queue)
           /\ last'.ok /\ last'.task # 0 => last'.task = fresh
           /\ config.kind = "claims" =>
                 last'.ok /\ last'.task = fresh /\ last'.title = Head(queue).title
           /\ config.kind = "responses" /\ config.policy = "validated"
                /\ last'.ok =>
                 last'.task = fresh /\ last'.title = Head(queue).title
           /\ fresh' = fresh + 1 /\ UNCHANGED <<task_operations, hot>>
           /\ IF config.case = "dropped-write"
              THEN UNCHANGED <<tasks, effects>>
              ELSE /\ tasks' = tasks \cup
                         {[id |-> fresh, title |-> Head(queue).title]}
                   /\ effects' = effects \cup
                         {[task |-> fresh, operation |-> calls.tool + 1]}
  <1> DEFINE call == Head(queue)
             dropped == config.case = "dropped-write"
             d == Success(call, fresh, call.title)
  <1>1. /\ Executed /\ call.name = "create_task" /\ Deliver(d, dropped)
        /\ failures' = failures
        /\ dropped => fresh' = fresh + 1
                      /\ UNCHANGED <<tasks, task_operations, hot, effects>>
        /\ ~dropped => NewRow(call.title, calls.tool + 1)
    BY Zenon DEF ExecuteCreate
  <1>2. queue # << >> /\ WellFormed(call) /\ config.kind # "retries"
    BY <1>1 DEF Executed, Requested, FlowInv
  <1>3. call \in ToolCall
    BY <1>2, QueueFacts
  <1>4. call.title \in Titles
    BY <1>1, <1>2, <1>3, CallFacts
  <1>5. fresh \in Nat /\ call.title \in Titles \cup {BlankTitle}
    BY <1>4 DEF TypesInv, StoreType
  <1>6. dropped \in BOOLEAN /\ (dropped => config.case = "dropped-write")
    OBVIOUS
  <1>7. /\ fresh' = fresh + 1 /\ UNCHANGED <<task_operations, hot>>
        /\ IF dropped
           THEN UNCHANGED <<tasks, effects>>
           ELSE /\ tasks' = tasks \cup {[id |-> fresh, title |-> call.title]}
                /\ effects' = effects \cup
                      {[task |-> fresh, operation |-> calls.tool + 1]}
    BY <1>1 DEF NewRow
  <1> HIDE DEF call
  <1>8. /\ d \in Delivery /\ d.ok = TRUE /\ d.call = call /\ d.form = "valid"
        /\ d.task = fresh /\ d.title = call.title
    <2>1. \A i \in Nat, t \in Titles \cup {BlankTitle} :
             /\ Success(call, i, t) \in Delivery
             /\ Success(call, i, t).ok = TRUE
             /\ Success(call, i, t).call = call
             /\ Success(call, i, t).form = "valid"
             /\ Success(call, i, t).task = i
             /\ Success(call, i, t).title = t
      BY <1>3, CallFacts
    <2> DEFINE title == call.title
    <2>2. title \in Titles \cup {BlankTitle} /\ fresh \in Nat
      BY <1>5
    <2> HIDE DEF title
    <2>3. /\ Success(call, fresh, title) \in Delivery
          /\ Success(call, fresh, title).ok = TRUE
          /\ Success(call, fresh, title).call = call
          /\ Success(call, fresh, title).form = "valid"
          /\ Success(call, fresh, title).task = fresh
          /\ Success(call, fresh, title).title = title
      BY <2>1, <2>2, Zenon
    <2> QED BY <2>3 DEF title
  <1> HIDE DEF d, dropped
  <1>9. d.call.name = "get_task" => d.task \in {0, d.call.task}
    BY <1>1, <1>8
  <1>10. ExecutedCall
    BY <1>1, <1>6, <1>8, <1>9, ExecutedIs
  <1>11. /\ last'.call = d.call
         /\ config.kind = "claims" => last' = d
         /\ last'.ok /\ last'.task # 0 =>
               last'.task = d.task \/ d.call.name = "get_task"
         /\ config.kind = "responses" /\ config.policy = "validated"
              /\ last'.ok /\ d.call.name = "create_task" =>
               last'.task = d.task /\ last'.title = d.call.title
    BY <1>1, <1>2, <1>6, <1>8, <1>9, DeliverIs DEF call
  <1>12. /\ last'.call = call
         /\ last'.ok /\ last'.task # 0 => last'.task = fresh
         /\ config.kind = "claims" =>
               last'.ok /\ last'.task = fresh /\ last'.title = call.title
         /\ config.kind = "responses" /\ config.policy = "validated"
              /\ last'.ok =>
               last'.task = fresh /\ last'.title = call.title
    BY <1>1, <1>8, <1>11
  <1> QED BY <1>1, <1>4, <1>7, <1>10, <1>12 DEF call, dropped

LEMMA ExecuteGetIs ==
    ASSUME TypesInv, FlowInv, ExecuteGet
    PROVE  /\ ExecutedCall
           /\ UNCHANGED <<tasks, task_operations, hot, fresh, effects, failures>>
           /\ Head(queue).name = "get_task" /\ Head(queue).task \in Nat \ {0}
           /\ last'.call = Get(Head(queue).task)
           /\ last'.ok /\ last'.task # 0
                /\ ~(/\ config.kind = "responses"
                     /\ config.policy = "pass-through"
                     /\ config.case = "wrong-get-id") =>
                 /\ last'.task = Head(queue).task
                 /\ \E row \in tasks : row.id = last'.task
           /\ config.kind = "claims" => last'.ok
           /\ config.kind = "responses" /\ config.policy = "validated"
                /\ last'.ok => last'.task \in {0, Head(queue).task}
  <1> DEFINE call == Head(queue)
             d == Found(call.task)
  <1>1. /\ Executed /\ call.name = "get_task" /\ Deliver(d, FALSE)
        /\ UNCHANGED <<tasks, task_operations, hot, fresh, effects, failures>>
    BY DEF ExecuteGet, store
  <1>2. queue # << >> /\ WellFormed(call) /\ config.kind # "retries"
    BY <1>1 DEF Executed, Requested, FlowInv
  <1>3. call \in ToolCall
    BY <1>2, QueueFacts
  <1>4. call.task \in Nat \ {0}
    BY <1>1, <1>2, <1>3, CallFacts DEF WellFormed
  <1> HIDE DEF call
  <1>5. /\ d \in Delivery /\ d.call = Get(call.task) /\ d.ok = TRUE
        /\ d.form = "valid" /\ d.task \in {0, call.task}
        /\ d.task # 0 => \E row \in tasks : row.id = call.task
    BY <1>4, FoundIs
  <1>6. Get(call.task).task = call.task /\ Get(call.task).name = "get_task"
    BY <1>4, TitleFacts
  <1> HIDE DEF d
  <1>7. d.call.name = "get_task" => d.task \in {0, d.call.task}
    BY <1>5, <1>6
  <1>8. ExecutedCall
    BY <1>1, <1>5, <1>7, ExecutedIs
  <1>9. /\ last'.call = d.call
        /\ last'.task # 0 => d.task # 0
        /\ config.kind = "claims" => last' = d
        /\ last'.ok /\ last'.task # 0 =>
              \/ last'.task = d.task
              \/ /\ config.kind = "responses"
                 /\ config.policy = "pass-through"
                 /\ config.case = "wrong-get-id"
        /\ config.kind = "responses" /\ config.policy = "validated"
              /\ last'.ok /\ d.call.name = "get_task" =>
              last'.task \in {0, d.call.task}
    BY <1>1, <1>2, <1>5, <1>7, DeliverIs DEF call
  <1>10. /\ last'.ok /\ last'.task # 0
              /\ ~(/\ config.kind = "responses"
                   /\ config.policy = "pass-through"
                   /\ config.case = "wrong-get-id") =>
              /\ last'.task = call.task
              /\ \E row \in tasks : row.id = last'.task
         /\ config.kind = "claims" => last'.ok
         /\ config.kind = "responses" /\ config.policy = "validated"
              /\ last'.ok => last'.task \in {0, call.task}
    BY <1>5, <1>6, <1>9
  <1> QED BY <1>1, <1>4, <1>5, <1>8, <1>9, <1>10 DEF call

LEMMA StorageFailsIs ==
    ASSUME TypesInv, FlowInv, StorageFails
    PROVE  /\ ExecutedCall
           /\ UNCHANGED <<tasks, task_operations, hot, fresh, effects>>
           /\ failures < MaxFailures /\ failures' = failures + 1
           /\ last'.call = Head(queue) /\ ~last'.ok /\ last'.task = 0
  <1> DEFINE d == Failure(Head(queue))
  <1>1. /\ Executed /\ Deliver(d, FALSE)
        /\ failures < MaxFailures /\ failures' = failures + 1
        /\ UNCHANGED <<tasks, task_operations, hot, fresh, effects>>
    BY DEF StorageFails, store
  <1>2. queue # << >> /\ config.kind # "retries"
    BY <1>1 DEF Executed, Requested, FlowInv
  <1>3. Head(queue) \in ToolCall
    BY <1>2, QueueFacts
  <1>4. /\ d \in Delivery /\ ~d.ok /\ d.call = Head(queue) /\ d.form = "valid"
        /\ d.task = 0
    BY <1>3, CallFacts
  <1> HIDE DEF d
  <1>5. ExecutedCall
    BY <1>1, <1>4, ExecutedIs
  <1>6. last'.call = d.call /\ (last'.ok => d.ok) /\ (last'.task # 0 => d.task # 0)
    BY <1>1, <1>2, <1>4, DeliverIs
  <1> QED BY <1>1, <1>4, <1>5, <1>6

-----------------------------------------------------------------------------
(* What the actions of a retried operation do *)

LEMMA AddsUp ==
    ASSUME TypesInv, NEW ks, counts' = Counted(ks)
    PROVE  /\ counts' \in [Counters -> Nat]
           /\ counts'.operations = counts.operations
                 + (IF "operations" \in ks THEN 1 ELSE 0)
           /\ counts'.attempts = counts.attempts
                 + (IF "attempts" \in ks THEN 1 ELSE 0)
           /\ counts'.retries = counts.retries
                 + (IF "retries" \in ks THEN 1 ELSE 0)
           /\ counts'.entries = counts.entries
                 + (IF "entries" \in ks THEN 1 ELSE 0)
           /\ counts'.replayed = counts.replayed
                 + (IF "replayed" \in ks THEN 1 ELSE 0)
           /\ counts'.delivery_errors = counts.delivery_errors
                 + (IF "delivery_errors" \in ks THEN 1 ELSE 0)
           /\ counts'.faults = counts.faults
                 + (IF "faults" \in ks THEN 1 ELSE 0)
  <1>1. /\ counts' \in [Counters -> Nat] /\ counts \in [Counters -> Nat]
        /\ \A k \in Counters :
              counts'[k] = IF k \in ks THEN counts[k] + 1 ELSE counts[k]
    BY CountedIs DEF TypesInv
  <1>2. \A k \in Counters :
           counts'[k] = counts[k] + (IF k \in ks THEN 1 ELSE 0)
    BY <1>1
  <1>3. /\ "operations" \in Counters /\ "attempts" \in Counters
        /\ "retries" \in Counters /\ "entries" \in Counters
        /\ "replayed" \in Counters /\ "delivery_errors" \in Counters
        /\ "faults" \in Counters
    BY DEF Counters
  <1>4. /\ counts'.operations = counts'["operations"]
        /\ counts'.attempts = counts'["attempts"]
        /\ counts'.retries = counts'["retries"]
        /\ counts'.entries = counts'["entries"]
        /\ counts'.replayed = counts'["replayed"]
        /\ counts'.delivery_errors = counts'["delivery_errors"]
        /\ counts'.faults = counts'["faults"]
    BY <1>1, Fields
  <1>5. /\ counts.operations = counts["operations"]
        /\ counts.attempts = counts["attempts"]
        /\ counts.retries = counts["retries"]
        /\ counts.entries = counts["entries"]
        /\ counts.replayed = counts["replayed"]
        /\ counts.delivery_errors = counts["delivery_errors"]
        /\ counts.faults = counts["faults"]
    BY <1>1, Fields
  <1> QED BY <1>1, <1>2, <1>3, <1>4, <1>5

LEMMA CountsAreNumbers ==
    ASSUME TypesInv
    PROVE  /\ counts.operations \in Nat /\ counts.attempts \in Nat
           /\ counts.retries \in Nat /\ counts.entries \in Nat
           /\ counts.replayed \in Nat /\ counts.delivery_errors \in Nat
           /\ counts.faults \in Nat
  <1>1. counts \in [Counters -> Nat]
    BY DEF TypesInv
  <1>2. /\ counts.operations = counts["operations"]
        /\ counts.attempts = counts["attempts"]
        /\ counts.retries = counts["retries"]
        /\ counts.entries = counts["entries"]
        /\ counts.replayed = counts["replayed"]
        /\ counts.delivery_errors = counts["delivery_errors"]
        /\ counts.faults = counts["faults"]
    BY <1>1, Fields
  <1>3. \A k \in Counters : counts[k] \in Nat
    BY <1>1
  <1> QED BY <1>2, <1>3 DEF Counters

\* One attempt: entered or not, replayed or not, a fault or not, and whether
\* it is tried again.
Tally(entered, replayed, fault, again) ==
    /\ counts' \in [Counters -> Nat]
    /\ counts'.operations = counts.operations
    /\ counts'.attempts = counts.attempts + 1
    /\ counts'.entries = counts.entries + entered
    /\ counts'.replayed = counts.replayed + replayed
    /\ counts'.faults = counts.faults + fault
    /\ counts'.delivery_errors = counts.delivery_errors + fault
    /\ counts'.retries = counts.retries + again

Retried ==
    /\ consumed' = TRUE /\ number = 1 /\ number' = 2 /\ AttemptLimit = 2
    /\ pc' = pc /\ queue' = queue /\ last' = last
    /\ config' = config /\ execution' = execution /\ evaluation' = evaluation

Failed == /\ last' \in Delivery /\ last'.call = Head(queue)
          /\ ~last'.ok /\ last'.task = 0 /\ Answered
GivenUp == consumed' = TRUE /\ AttemptLimit <= number /\ Failed

Attempting ==
    /\ pc = "attempt" /\ queue # << >> /\ Head(queue) \in ToolCall
    /\ WellFormed(Head(queue)) /\ config.kind = "retries"
    /\ number \in {1, 2} /\ number <= AttemptLimit /\ calls' = calls

LEMMA AttemptIs ==
    ASSUME TypesInv, FlowInv, pc = "attempt", calls' = calls
    PROVE  Attempting
  <1>1. queue # << >> /\ WellFormed(Head(queue)) /\ config.kind = "retries"
        /\ number # 0 /\ number <= AttemptLimit
    BY DEF FlowInv
  <1>2. Head(queue) \in ToolCall
    BY <1>1, QueueFacts
  <1>3. number \in {1, 2}
    BY <1>1 DEF TypesInv
  <1> QED BY <1>1, <1>2, <1>3 DEF Attempting

LEMMA UnavailableIs ==
    ASSUME TypesInv, FlowInv, pc = "attempt", NEW events,
           "operations" \notin events, "attempts" \in events,
           "retries" \notin events, "faults" \notin events,
           "delivery_errors" \notin events, Unavailable(events)
    PROVE  /\ Attempting /\ failures' = failures
           /\ LET e == IF "entries" \in events THEN 1 ELSE 0
                  r == IF "replayed" \in events THEN 1 ELSE 0
              IN  \/ Retried /\ Tally(e, r, 1, 1)
                  \/ GivenUp /\ Tally(e, r, 1, 0)
  <1>1. calls' = calls /\ failures' = failures /\ consumed' = TRUE
    BY DEF Unavailable
  <1>2. Attempting
    BY <1>1, AttemptIs
  <1>3. queue # << >> /\ Head(queue) \in ToolCall /\ number \in {1, 2}
        /\ number <= AttemptLimit /\ AttemptLimit \in {1, 2}
    BY <1>2, ConfigFacts DEF Attempting
  <1>4. CASE number < AttemptLimit
    <2>1. /\ number' = number + 1
          /\ counts' = Counted(events \cup {"faults", "delivery_errors", "retries"})
          /\ UNCHANGED <<config, pc, queue, last, execution, evaluation>>
      BY <1>4 DEF Unavailable, result
    <2>2. Retried
      BY <1>1, <1>3, <1>4, <2>1 DEF Retried
    <2> DEFINE e == IF "entries" \in events THEN 1 ELSE 0
               r == IF "replayed" \in events THEN 1 ELSE 0
    <2>3. Tally(e, r, 1, 1)
      <3> DEFINE ks == events \cup {"faults", "delivery_errors", "retries"}
      <3>1. /\ counts' = Counted(ks)
            /\ "operations" \notin ks /\ "attempts" \in ks /\ "retries" \in ks
            /\ "faults" \in ks /\ "delivery_errors" \in ks
            /\ "entries" \in ks <=> "entries" \in events
            /\ "replayed" \in ks <=> "replayed" \in events
        BY <2>1
      <3> HIDE DEF ks
      <3>2. /\ counts' \in [Counters -> Nat]
            /\ counts'.operations = counts.operations + 0
            /\ counts'.attempts = counts.attempts + 1
            /\ counts'.entries = counts.entries + e
            /\ counts'.replayed = counts.replayed + r
            /\ counts'.faults = counts.faults + 1
            /\ counts'.delivery_errors = counts.delivery_errors + 1
            /\ counts'.retries = counts.retries + 1
        BY <3>1, AddsUp
      <3> QED BY <3>2, CountsAreNumbers DEF Tally
    <2> QED BY <1>1, <1>2, <2>2, <2>3
  <1>5. CASE ~(number < AttemptLimit)
    <2>1. /\ Answer(Failure(Head(queue)))
          /\ counts' = Counted(events \cup {"faults", "delivery_errors"})
      BY <1>5 DEF Unavailable
    <2>2. GivenUp
      <3>1. last' = Failure(Head(queue)) /\ Answered
        BY <1>3, <2>1, AnswerIs
      <3>2. /\ Failure(Head(queue)) \in Delivery /\ ~Failure(Head(queue)).ok
            /\ Failure(Head(queue)).call = Head(queue)
            /\ Failure(Head(queue)).task = 0
        BY <1>3, CallFacts
      <3>3. Failed
        BY <3>1, <3>2, Zenon DEF Failed
      <3> QED BY <1>1, <1>3, <1>5, <3>3 DEF GivenUp
    <2> DEFINE e == IF "entries" \in events THEN 1 ELSE 0
               r == IF "replayed" \in events THEN 1 ELSE 0
    <2>3. Tally(e, r, 1, 0)
      <3> DEFINE ks == events \cup {"faults", "delivery_errors"}
      <3>1. /\ counts' = Counted(ks)
            /\ "operations" \notin ks /\ "attempts" \in ks /\ "retries" \notin ks
            /\ "faults" \in ks /\ "delivery_errors" \in ks
            /\ "entries" \in ks <=> "entries" \in events
            /\ "replayed" \in ks <=> "replayed" \in events
        BY <2>1
      <3> HIDE DEF ks
      <3>2. /\ counts' \in [Counters -> Nat]
            /\ counts'.operations = counts.operations + 0
            /\ counts'.attempts = counts.attempts + 1
            /\ counts'.entries = counts.entries + e
            /\ counts'.replayed = counts.replayed + r
            /\ counts'.faults = counts.faults + 1
            /\ counts'.delivery_errors = counts.delivery_errors + 1
            /\ counts'.retries = counts.retries + 0
        BY <3>1, AddsUp
      <3> QED BY <3>2, CountsAreNumbers DEF Tally
    <2> QED BY <1>1, <1>2, <2>2, <2>3
  <1> QED BY <1>4, <1>5

LEMMA StartIs ==
    ASSUME TypesInv, FlowInv, StartOperation
    PROVE  /\ pc = "tools" /\ queue # << >> /\ Head(queue) \in ToolCall
           /\ WellFormed(Head(queue)) /\ config.kind = "retries"
           /\ config.who # "workflow" => calls.tool < MaxToolCalls
           /\ calls' \in [model : 0 .. MaxModelCalls, tool : Nat, executed : Nat]
           /\ calls'.model = calls.model /\ calls'.tool = calls.tool + 1
           /\ calls'.executed = calls.executed + 1
           /\ number' = 1 /\ pc' = "attempt"
           /\ UNCHANGED <<tasks, task_operations, hot, fresh, config, queue, last,
                          consumed, execution, evaluation, effects, failures>>
           /\ counts' \in [Counters -> Nat]
           /\ counts'.operations = counts.operations + 1
           /\ counts'.attempts = counts.attempts
           /\ counts'.retries = counts.retries
           /\ counts'.entries = counts.entries
           /\ counts'.replayed = counts.replayed
           /\ counts'.delivery_errors = counts.delivery_errors
           /\ counts'.faults = counts.faults
  <1>1. /\ pc = "tools" /\ queue # << >> /\ WellFormed(Head(queue))
        /\ config.kind = "retries"
        /\ config.who # "workflow" => calls.tool < MaxToolCalls
        /\ calls' = [calls EXCEPT !.tool = @ + 1, !.executed = @ + 1]
        /\ number' = 1 /\ pc' = "attempt"
        /\ UNCHANGED <<tasks, task_operations, hot, fresh, config, queue, last,
                       consumed, execution, evaluation, effects, failures>>
        /\ counts' = Counted({"operations"})
    BY DEF StartOperation, Requested, FlowInv, store, result
  <1>2. Head(queue) \in ToolCall
    BY <1>1, QueueFacts
  <1>3. /\ calls' \in [model : 0 .. MaxModelCalls, tool : Nat, executed : Nat]
        /\ calls'.model = calls.model /\ calls'.tool = calls.tool + 1
        /\ calls'.executed = calls.executed + 1
    BY <1>1, ExecutionCounted
  <1>4. /\ counts' \in [Counters -> Nat]
        /\ counts'.operations = counts.operations + 1
        /\ counts'.attempts = counts.attempts + 0
        /\ counts'.retries = counts.retries + 0
        /\ counts'.entries = counts.entries + 0
        /\ counts'.replayed = counts.replayed + 0
        /\ counts'.delivery_errors = counts.delivery_errors + 0
        /\ counts'.faults = counts.faults + 0
    BY <1>1, AddsUp
  <1> QED BY <1>1, <1>2, <1>3, <1>4, CountsAreNumbers

LEMMA BeforeWriteIs ==
    ASSUME TypesInv, FlowInv, FailBeforeWrite
    PROVE  /\ Attempting /\ Head(queue).name = "create_task"
           /\ config.case = "before-write-once" /\ ~consumed
           /\ UNCHANGED <<tasks, task_operations, hot, fresh, effects, failures>>
           /\ \/ Retried /\ Tally(0, 0, 1, 1)
              \/ GivenUp /\ Tally(0, 0, 1, 0)
  <1>1. /\ pc = "attempt" /\ Head(queue).name = "create_task"
        /\ config.case = "before-write-once" /\ ~consumed
        /\ UNCHANGED <<tasks, task_operations, hot, fresh, effects>>
        /\ Unavailable({"attempts"})
    BY DEF FailBeforeWrite, Striking, store
  <1> DEFINE events == {"attempts"}
             e == IF "entries" \in events THEN 1 ELSE 0
             r == IF "replayed" \in events THEN 1 ELSE 0
  <1>2. /\ Attempting /\ failures' = failures
        /\ (Retried /\ Tally(e, r, 1, 1)) \/ (GivenUp /\ Tally(e, r, 1, 0))
    <2>1. /\ "operations" \notin events /\ "attempts" \in events
          /\ "retries" \notin events /\ "faults" \notin events
          /\ "delivery_errors" \notin events /\ Unavailable(events)
      BY <1>1
    <2> HIDE DEF events
    <2> QED BY <1>1, <2>1, UnavailableIs
  <1>3. e = 0 /\ r = 0
    OBVIOUS
  <1> HIDE DEF e, r
  <1> QED BY <1>1, <1>2, <1>3

\* The task t of an attempt to create is a new row, or the one that the ledger
\* keeps for the operation (r = 1); it is stored either way.
CreateAttempt(t, r) ==
    /\ [id |-> t, title |-> Head(queue).title] \in tasks'
    /\ effects' = effects \cup {[task |-> t, operation |-> counts.operations]}
    /\ \/ /\ r = 0 /\ t = fresh /\ fresh' = fresh + 1
          /\ ~Protected \/ Recorded(counts.operations) = {}
          /\ tasks' = tasks \cup {[id |-> fresh, title |-> Head(queue).title]}
          /\ task_operations' =
                IF Protected
                THEN task_operations \cup
                       {[operation_id |-> counts.operations,
                         title |-> Head(queue).title, task_id |-> fresh]}
                ELSE task_operations
       \/ /\ r = 1 /\ Protected /\ number = 2
          /\ \E row \in Recorded(counts.operations) : row.task_id = t
          /\ UNCHANGED <<tasks, task_operations, fresh>>
    /\ \/ /\ config.case = "lost-reply-once" /\ ~consumed
          /\ \/ Retried /\ Tally(1, r, 1, 1)
             \/ GivenUp /\ Tally(1, r, 1, 0)
       \/ /\ ~(config.case = "lost-reply-once" /\ ~consumed)
          /\ consumed' = consumed /\ Answered /\ Tally(1, r, 0, 0)
          /\ last' \in Delivery /\ last'.ok = TRUE
          /\ last'.call = Head(queue) /\ last'.task = t
          /\ last'.title = Head(queue).title

LEMMA AttemptCreateIs ==
    ASSUME TypesInv, FlowInv, LedgerInv, AttemptCreate
    PROVE  /\ Attempting /\ failures' = failures /\ hot' \in BOOLEAN
           /\ Head(queue).name = "create_task" /\ Head(queue).title \in Titles
           /\ ~(config.case = "before-write-once" /\ ~consumed)
           /\ \E t \in Nat, r \in {0, 1} : CreateAttempt(t, r)
  <1> DEFINE call == Head(queue)
             op == counts.operations
             again == Protected /\ Recorded(op) # {}
             events == {"attempts", "entries"}
                          \cup (IF again THEN {"replayed"} ELSE {})
             t == StoredTask(op)
             r == IF again THEN 1 ELSE 0
             struck == config.case = "lost-reply-once" /\ ~consumed
  <1>1. /\ pc = "attempt" /\ call.name = "create_task"
        /\ ~(config.case = "before-write-once" /\ ~consumed)
        /\ Protected => /\ CreateTaskIdempotent(call.title, op)
                        /\ effects' = effects \cup {[task |-> t, operation |-> op]}
        /\ ~Protected => NewRow(call.title, op)
        /\ struck => Unavailable(events)
        /\ ~struck => /\ Answer(Success(call, t, call.title))
                      /\ counts' = Counted(events)
                      /\ UNCHANGED <<consumed, calls, failures>>
    BY Zenon DEF AttemptCreate, Striking, LedgerKey
  <1>2. Unavailable(events) => calls' = calls /\ failures' = failures
    BY DEF Unavailable
  <1>3. calls' = calls /\ failures' = failures
    BY <1>1, <1>2
  <1>4. Attempting
    BY <1>1, <1>3, AttemptIs
  <1>5. /\ call \in ToolCall /\ call.title \in Titles /\ queue # << >>
        /\ config.kind = "retries"
    BY <1>1, <1>4, CallFacts DEF Attempting
  <1>6. fresh \in Nat /\ op \in Nat
    BY CountsAreNumbers DEF TypesInv, StoreType
  <1>7. again => /\ number = 2
                 /\ \A row \in Recorded(op) : row.title = call.title
                 /\ \A row \in Recorded(op) :
                       /\ row \in LedgerRow /\ row.operation_id = op
                       /\ [id |-> row.task_id, title |-> row.title] \in tasks
    BY <1>1 DEF LedgerInv, Recorded, TypesInv, StoreType
  <1>8. again => \E row \in Recorded(op) : row.task_id = t
    <2>1. ASSUME again PROVE \E row \in Recorded(op) : row.task_id = t
      <3> DEFINE first == CHOOSE row \in Recorded(op) : TRUE
      <3>1. first \in Recorded(op)
        BY <2>1
      <3>2. t = Receipt(call.title, op).task
        BY <2>1 DEF StoredTask, LedgerKey
      <3>3. ~(\E row \in Recorded(op) : row.title # call.title)
        BY <1>7, <2>1
      <3>4. Recorded(op) # {}
        BY <2>1
      <3> HIDE DEF op
      <3>5. Receipt(call.title, op).task = first.task_id
        BY <3>3, <3>4 DEF Receipt
      <3> QED BY <3>1, <3>2, <3>5
    <2> QED BY <2>1
  <1>9. ~again => t = fresh
    <2>1. ~Protected => t = fresh
      BY DEF StoredTask
    <2>2. Protected /\ Recorded(op) = {} => t = Receipt(call.title, op).task
      BY DEF StoredTask, LedgerKey
    <2> HIDE DEF op
    <2>3. Recorded(op) = {} => Receipt(call.title, op).task = fresh
      BY DEF Receipt
    <2> QED BY <2>1, <2>2, <2>3
  <1>10. again => /\ [id |-> t, title |-> call.title] \in tasks /\ t \in Nat
    BY <1>7, <1>8 DEF LedgerRow
  <1>11. Protected => effects' = effects \cup {[task |-> t, operation |-> op]}
    BY <1>1
  <1>12. ~Protected => effects' = effects \cup {[task |-> t, operation |-> op]}
    BY <1>1, <1>9 DEF NewRow
  <1>13. again => UNCHANGED <<tasks, task_operations, fresh>> /\ hot' = FALSE
    BY <1>1 DEF CreateTaskIdempotent
  <1>14. ~again =>
            /\ hot' \in BOOLEAN /\ fresh' = fresh + 1
            /\ tasks' = tasks \cup {[id |-> fresh, title |-> call.title]}
            /\ task_operations' =
                  IF Protected
                  THEN task_operations \cup
                          {[operation_id |-> op, title |-> call.title,
                            task_id |-> fresh]}
                  ELSE task_operations
    <2>1. CASE Protected /\ Recorded(op) = {}
      BY <1>1, <2>1 DEF CreateTaskIdempotent
    <2>2. CASE ~Protected
      BY <1>1, <2>2 DEF NewRow, TypesInv, StoreType
    <2> QED BY <2>1, <2>2
  <1>15. t \in Nat /\ [id |-> t, title |-> call.title] \in tasks'
    BY <1>6, <1>9, <1>10, <1>13, <1>14
  <1>16. /\ "operations" \notin events /\ "attempts" \in events
         /\ "retries" \notin events /\ "faults" \notin events
         /\ "delivery_errors" \notin events /\ "entries" \in events
         /\ "replayed" \in events <=> again
    OBVIOUS
  <1>17. r \in {0, 1} /\ (again => r = 1) /\ (~again => r = 0)
    OBVIOUS
  <1>18. ~again => ~Protected \/ Recorded(op) = {}
    OBVIOUS
  <1>19. again => Protected
    OBVIOUS
  <1> HIDE DEF again, events, t, r, call, op
  <1>20. struck => \/ Retried /\ Tally(1, r, 1, 1)
                   \/ GivenUp /\ Tally(1, r, 1, 0)
    <2>1. struck => LET e == IF "entries" \in events THEN 1 ELSE 0
                        s == IF "replayed" \in events THEN 1 ELSE 0
                    IN  \/ Retried /\ Tally(e, s, 1, 1)
                        \/ GivenUp /\ Tally(e, s, 1, 0)
      BY <1>1, <1>16, UnavailableIs
    <2>2. (IF "entries" \in events THEN 1 ELSE 0) = 1
          /\ (IF "replayed" \in events THEN 1 ELSE 0) = r
      BY <1>16, <1>17
    <2> QED BY <2>1, <2>2
  <1>21. ~struck =>
            /\ consumed' = consumed /\ Answered /\ Tally(1, r, 0, 0)
            /\ last' \in Delivery /\ last'.ok = TRUE
            /\ last'.call = call /\ last'.task = t /\ last'.title = call.title
    <2> SUFFICES ASSUME ~struck
                 PROVE  /\ consumed' = consumed /\ Answered /\ Tally(1, r, 0, 0)
                        /\ last' \in Delivery /\ last'.ok = TRUE
                        /\ last'.call = call /\ last'.task = t
                        /\ last'.title = call.title
      OBVIOUS
    <2> DEFINE title == call.title
    <2>1. /\ Answer(Success(call, t, title)) /\ counts' = Counted(events)
          /\ consumed' = consumed
      BY <1>1
    <2>3. title \in AnyTitle
      BY <1>5 DEF AnyTitle
    <2> HIDE DEF title
    <2>4. /\ Success(call, t, title) \in Delivery
          /\ Success(call, t, title).ok = TRUE
          /\ Success(call, t, title).call = call
          /\ Success(call, t, title).task = t
          /\ Success(call, t, title).title = title
      <3>1. t \in Nat /\ call \in ToolCall
        BY <1>5, <1>15
      <3> QED BY <2>3, <3>1, SuccessIs
    <2>5. last' = Success(call, t, title) /\ Answered
      BY <1>5, <2>1, AnswerIs
    <2>6. Tally(1, r, 0, 0)
      <3>1. /\ counts'.operations = counts.operations + 0
            /\ counts'.retries = counts.retries + 0
            /\ counts'.faults = counts.faults + 0
            /\ counts'.delivery_errors = counts.delivery_errors + 0
            /\ counts'.attempts = counts.attempts + 1
            /\ counts'.entries = counts.entries + 1
            /\ counts'.replayed = counts.replayed + r
            /\ counts' \in [Counters -> Nat]
        BY <1>16, <1>17, <2>1, AddsUp
      <3> QED BY <3>1, CountsAreNumbers DEF Tally
    <2> QED BY <2>1, <2>4, <2>5, <2>6 DEF title
  <1> HIDE DEF struck
  <1>22. effects' = effects \cup {[task |-> t, operation |-> op]}
    BY <1>11, <1>12
  <1>23. \/ /\ r = 0 /\ t = fresh /\ fresh' = fresh + 1
            /\ ~Protected \/ Recorded(op) = {}
            /\ tasks' = tasks \cup {[id |-> fresh, title |-> call.title]}
            /\ task_operations' =
                  IF Protected
                  THEN task_operations \cup
                         {[operation_id |-> op, title |-> call.title,
                           task_id |-> fresh]}
                  ELSE task_operations
         \/ /\ r = 1 /\ Protected /\ number = 2
            /\ \E row \in Recorded(op) : row.task_id = t
            /\ UNCHANGED <<tasks, task_operations, fresh>>
    BY <1>7, <1>8, <1>9, <1>13, <1>14, <1>17, <1>18, <1>19
  <1>24. hot' \in BOOLEAN
    BY <1>13, <1>14
  <1>25. \/ /\ struck
            /\ \/ Retried /\ Tally(1, r, 1, 1)
               \/ GivenUp /\ Tally(1, r, 1, 0)
         \/ /\ ~struck
            /\ consumed' = consumed /\ Answered /\ Tally(1, r, 0, 0)
            /\ last' \in Delivery /\ last'.ok = TRUE
            /\ last'.call = call /\ last'.task = t
            /\ last'.title = call.title
    BY <1>20, <1>21
  <1>26. CreateAttempt(t, r)
    BY <1>15, <1>22, <1>23, <1>25, Zenon DEF CreateAttempt, call, op, struck
  <1>27. /\ call.name = "create_task" /\ call.title \in Titles
         /\ ~(config.case = "before-write-once" /\ ~consumed)
    BY <1>1, <1>5
  <1>28. \E u \in Nat, s \in {0, 1} : CreateAttempt(u, s)
    BY <1>15, <1>17, <1>26, Zenon
  <1> QED BY <1>3, <1>4, <1>24, <1>27, <1>28, Zenon DEF call

LEMMA AttemptGetIs ==
    ASSUME TypesInv, FlowInv, AttemptGet
    PROVE  /\ Attempting /\ Head(queue).name = "get_task"
           /\ Head(queue).task \in Nat \ {0}
           /\ UNCHANGED <<tasks, task_operations, hot, fresh, consumed, effects,
                          failures>>
           /\ Answered /\ Tally(1, 0, 0, 0)
           /\ last' \in Delivery /\ last'.call = Get(Head(queue).task)
           /\ last'.ok = TRUE /\ last'.task \in {0, Head(queue).task}
           /\ last'.task # 0 => \E row \in tasks :
                 row.id = Head(queue).task /\ last'.title = row.title
           /\ last'.task = 0 => \A row \in tasks : row.id # Head(queue).task
  <1> DEFINE call == Head(queue)
             d == Found(call.task)
  <1>1. /\ pc = "attempt" /\ call.name = "get_task" /\ Answer(d)
        /\ counts' = Counted({"attempts", "entries"})
        /\ calls' = calls
        /\ UNCHANGED <<tasks, task_operations, hot, fresh, consumed, effects,
                       failures>>
    BY DEF AttemptGet, store
  <1>2. Attempting
    BY <1>1, AttemptIs
  <1>3. queue # << >> /\ WellFormed(call) /\ call \in ToolCall
    BY <1>2 DEF Attempting
  <1>4. call.task \in Nat \ {0}
    BY <1>1, <1>3, CallFacts DEF WellFormed
  <1> HIDE DEF call
  <1>5. /\ d \in Delivery /\ d.call = Get(call.task) /\ d.ok = TRUE
        /\ d.task \in {0, call.task}
        /\ d.task # 0 =>
              \E row \in tasks : row.id = call.task /\ d.title = row.title
        /\ d.task = 0 => \A row \in tasks : row.id # call.task
    BY <1>4, FoundIs
  <1> HIDE DEF d
  <1>6. last' = d /\ Answered
    BY <1>1, <1>3, AnswerIs
  <1>7. Tally(1, 0, 0, 0)
    <2>1. /\ counts' \in [Counters -> Nat]
          /\ counts'.operations = counts.operations + 0
          /\ counts'.attempts = counts.attempts + 1
          /\ counts'.entries = counts.entries + 1
          /\ counts'.replayed = counts.replayed + 0
          /\ counts'.faults = counts.faults + 0
          /\ counts'.delivery_errors = counts.delivery_errors + 0
          /\ counts'.retries = counts.retries + 0
      BY <1>1, AddsUp
    <2> QED BY <2>1, CountsAreNumbers DEF Tally
  <1> QED BY <1>1, <1>2, <1>4, <1>5, <1>6, <1>7 DEF call

LEMMA AttemptFailsIs ==
    ASSUME TypesInv, FlowInv, AttemptStorageFails
    PROVE  /\ Attempting
           /\ UNCHANGED <<tasks, task_operations, hot, fresh, consumed, effects>>
           /\ failures < MaxFailures /\ failures' = failures + 1
           /\ Failed /\ Tally(1, 0, 0, 0)
  <1>1. /\ pc = "attempt" /\ Answer(Failure(Head(queue)))
        /\ counts' = Counted({"attempts", "entries"})
        /\ calls' = calls /\ failures < MaxFailures /\ failures' = failures + 1
        /\ UNCHANGED <<tasks, task_operations, hot, fresh, consumed, effects>>
    BY DEF AttemptStorageFails, store
  <1>2. Attempting
    BY <1>1, AttemptIs
  <1>3. queue # << >> /\ Head(queue) \in ToolCall
    BY <1>2 DEF Attempting
  <1>4. Failed
    <2>1. last' = Failure(Head(queue)) /\ Answered
      BY <1>1, <1>3, AnswerIs
    <2>2. /\ Failure(Head(queue)) \in Delivery /\ ~Failure(Head(queue)).ok
          /\ Failure(Head(queue)).call = Head(queue)
          /\ Failure(Head(queue)).task = 0
      BY <1>3, CallFacts
    <2> QED BY <2>1, <2>2, Zenon DEF Failed
  <1>5. Tally(1, 0, 0, 0)
    <2>1. /\ counts' \in [Counters -> Nat]
          /\ counts'.operations = counts.operations + 0
          /\ counts'.attempts = counts.attempts + 1
          /\ counts'.entries = counts.entries + 1
          /\ counts'.replayed = counts.replayed + 0
          /\ counts'.faults = counts.faults + 0
          /\ counts'.delivery_errors = counts.delivery_errors + 0
          /\ counts'.retries = counts.retries + 0
      BY <1>1, AddsUp
    <2> QED BY <2>1, CountsAreNumbers DEF Tally
  <1> QED BY <1>1, <1>2, <1>4, <1>5

-----------------------------------------------------------------------------
(* What the callers do *)

TurnSet == [finish : {"stop", "length"}, calls : Seq(ToolCall),
            content : Contents]

LEMMA AskIs ==
    ASSUME NEW call \in ToolCall
    PROVE  /\ Ask(call) \in TurnSet /\ Ask(call).finish = "stop"
           /\ Ask(call).calls # << >> /\ Len(Ask(call).calls) = 1
           /\ Head(Ask(call).calls) = call
  <1> DEFINE one == <<call>>
  <1>3. /\ one \in Seq(ToolCall) /\ Len(one) = 1 /\ one # << >>
        /\ Head(one) = call
    OBVIOUS
  <1>4. Blank \in Contents
    BY DEF Blank, Contents
  <1>5. Ask(call) = [finish |-> "stop", calls |-> one, content |-> Blank]
    BY DEF Ask
  <1> HIDE DEF one
  <1> QED BY <1>3, <1>4, <1>5 DEF TurnSet

Statuses == {"completed", "not_completed", "unknown", "prose"}

LEMMA SayIs ==
    \A word \in Statuses, id \in Nat :
       /\ Say(word, id) \in TurnSet /\ Say(word, id).finish = "stop"
       /\ Say(word, id).calls = << >>
       /\ Say(word, id).content.status = word
       /\ Say(word, id).content.task = id
  <1> TAKE word \in Statuses, id \in Nat
  <1> DEFINE text == [status |-> word, task |-> id]
             none == << >>
  <1>1. none \in Seq(ToolCall)
    OBVIOUS
  <1>2. text \in Contents /\ text.status = word /\ text.task = id
    BY DEF Contents, Statuses
  <1>3. Say(word, id) = [finish |-> "stop", calls |-> none, content |-> text]
    BY DEF Say
  <1> HIDE DEF text, none
  <1>4. /\ Say(word, id) \in TurnSet /\ Say(word, id).finish = "stop"
        /\ Say(word, id).calls = none /\ Say(word, id).content = text
    BY <1>1, <1>2, <1>3 DEF TurnSet
  <1> QED BY <1>2, <1>4, Zenon DEF none

LEMMA StatusFacts ==
    /\ "completed" \in Statuses /\ "not_completed" \in Statuses
    /\ "unknown" \in Statuses /\ "prose" \in Statuses /\ 0 \in Nat
  BY DEF Statuses

LEMMA LiveTurnsAre ==
    ASSUME NEW turn \in LiveTurns
    PROVE  turn \in TurnSet
  <1> DEFINE ones == {<<c>> : c \in LiveCalls}
             twos == LiveCalls \X LiveCalls
             batches == ones \cup twos
             said == [finish : {"stop", "length"}, calls : {<< >>},
                      content : LiveContents]
             asked == [finish : {"stop", "length"}, calls : batches,
                       content : {Blank}]
  <1>1. LiveCalls \subseteq ToolCall /\ LiveContents \subseteq Contents
        /\ Blank \in Contents
    BY RunAssumption DEF RunAssumption, Blank, Contents
  <1>2. ASSUME NEW c \in LiveCalls PROVE <<c>> \in Seq(ToolCall)
    BY <1>1, <1>2
  <1>3. ones \subseteq Seq(ToolCall)
    BY <1>2, Zenon
  <1>4. twos \subseteq Seq(ToolCall)
    <2>1. \A a, b \in LiveCalls : <<a, b>> \in Seq(ToolCall)
      BY <1>1
    <2>2. \A pair \in twos : \E a, b \in LiveCalls : pair = <<a, b>>
      OBVIOUS
    <2> HIDE DEF twos
    <2> QED BY <2>1, <2>2, Zenon
  <1>5. batches \subseteq Seq(ToolCall) /\ << >> \in Seq(ToolCall)
    BY <1>3, <1>4
  <1>6. turn \in said \/ turn \in asked
    BY Zenon DEF LiveTurns
  <1> HIDE DEF batches
  <1>7. turn \in said => turn \in TurnSet
    BY <1>1, <1>5 DEF TurnSet
  <1>8. turn \in asked => turn \in TurnSet
    BY <1>1, <1>5 DEF TurnSet
  <1> QED BY <1>6, <1>7, <1>8

LEMMA TurnsAre ==
    ASSUME TypesInv, NEW turn \in Turns
    PROVE  turn \in TurnSet
  <1>1. last.task \in Nat /\ Nowhere \in Nat /\ 0 \in Nat
    BY DEF TypesInv, Delivery, Nowhere
  <1>2. \A call \in ToolCall : Ask(call) \in TurnSet
    BY AskIs
  <1>3. \A word \in Statuses, id \in Nat : Say(word, id) \in TurnSet
    BY SayIs, Zenon
  <1>4. /\ Ask(Create(Title)) \in TurnSet /\ Ask(Get(last.task)) \in TurnSet
        /\ Ask(Get(0)) \in TurnSet
    BY <1>1, <1>2, TitleFacts
  <1>5. /\ Say("completed", Nowhere) \in TurnSet
        /\ Say("completed", last.task) \in TurnSet
        /\ Say("completed", 0) \in TurnSet
        /\ Say("not_completed", 0) \in TurnSet
        /\ Say("unknown", 0) \in TurnSet /\ Say("prose", 0) \in TurnSet
    BY <1>1, <1>3, StatusFacts, Zenon
  <1>6. \A n \in Nat : ResponseScript(n) \subseteq TurnSet
    BY <1>4, <1>5 DEF ResponseScript
  <1>7. \A n \in Nat : ClaimScript(n) \subseteq TurnSet
    BY <1>4, <1>5 DEF ClaimScript
  <1>8. \A n \in Nat : WorkflowStep(n) \subseteq TurnSet
    BY <1>4, <1>5 DEF WorkflowStep
  <1>9. calls.tool \in Nat /\ calls.model \in Nat
    BY RunAssumption DEF TypesInv, RunAssumption
  <1>10. turn \in LiveTurns \/ turn \in ResponseScript(calls.model)
         \/ turn \in ClaimScript(calls.model) \/ turn \in WorkflowStep(calls.tool)
    BY DEF Turns
  <1> QED BY <1>6, <1>7, <1>8, <1>9, <1>10, LiveTurnsAre

LEMMA TurnIs ==
    ASSUME TypesInv, Turn
    PROVE  /\ pc = "caller"
           /\ UNCHANGED <<tasks, task_operations, hot, fresh, config, last, number,
                          consumed, counts, evaluation, effects, failures>>
           /\ calls' \in [model : 0 .. MaxModelCalls, tool : Nat, executed : Nat]
           /\ calls'.tool = calls.tool /\ calls'.executed = calls.executed
           /\ calls'.model = IF config.who = "workflow" THEN calls.model
                             ELSE calls.model + 1
           /\ \E turn \in Turns :
                 /\ turn \in TurnSet
                 /\ \/ /\ turn.calls # << >> /\ turn.finish = "stop"
                       /\ pc' = "tools" /\ queue' = turn.calls
                       /\ execution' = execution
                    \/ /\ pc' = "evaluate" /\ queue' = queue
                       /\ execution' \in Execution
                       /\ \/ /\ turn.finish = "length"
                             /\ execution'.status = "protocol_error"
                             /\ execution'.content \in {turn.content, Absent}
                          \/ /\ turn.finish = "stop" /\ turn.calls = << >>
                             /\ execution'.content = turn.content
                             /\ execution'.status =
                                   IF turn.content.status = "blank"
                                   THEN "protocol_error" ELSE "finished"
  <1>1. /\ pc = "caller"
        /\ UNCHANGED <<tasks, task_operations, hot, fresh, config, last, number,
                       consumed, counts, evaluation, effects, failures>>
        /\ config.who # "workflow" => calls.model < MaxModelCalls
    BY DEF Turn, store
  <1>2. config.who = "workflow" => calls' = calls
    BY Zenon DEF Turn
  <1>3. config.who # "workflow" => calls' = [calls EXCEPT !.model = @ + 1]
    BY Zenon DEF Turn
  <1>4. calls \in [model : 0 .. MaxModelCalls, tool : Nat, executed : Nat]
        /\ MaxModelCalls \in Nat
    BY RunAssumption DEF TypesInv, RunAssumption
  <1>5. /\ calls' \in [model : 0 .. MaxModelCalls, tool : Nat, executed : Nat]
        /\ calls'.tool = calls.tool /\ calls'.executed = calls.executed
        /\ calls'.model = IF config.who = "workflow" THEN calls.model
                          ELSE calls.model + 1
    <2>1. CASE config.who = "workflow"
      BY <1>2, <1>4, <2>1
    <2>2. CASE config.who # "workflow"
      BY <1>1, <1>3, <1>4, <2>2
    <2> QED BY <2>1, <2>2
  <1>6. PICK turn \in Turns :
          \/ /\ turn.finish = "length"
             /\ Stop("protocol_error",
                     IF turn.calls = << >> THEN turn.content ELSE Absent)
             /\ UNCHANGED queue
          \/ /\ turn.finish = "stop" /\ turn.calls # << >>
             /\ queue' = turn.calls
             /\ pc' = "tools"
             /\ UNCHANGED execution
          \/ /\ turn.finish = "stop" /\ turn.calls = << >>
             /\ Stop(IF turn.content.status = "blank" THEN "protocol_error"
                     ELSE "finished", turn.content)
             /\ UNCHANGED queue
    BY Zenon DEF Turn
  <1>7. turn \in TurnSet /\ turn.content \in Contents /\ Absent \in Contents
    BY TurnsAre DEF TurnSet, Absent, Contents
  <1> DEFINE Told ==
         /\ pc' = "evaluate" /\ queue' = queue
         /\ execution' \in Execution
         /\ \/ /\ turn.finish = "length"
               /\ execution'.status = "protocol_error"
               /\ execution'.content \in {turn.content, Absent}
            \/ /\ turn.finish = "stop" /\ turn.calls = << >>
               /\ execution'.content = turn.content
               /\ execution'.status =
                     IF turn.content.status = "blank"
                     THEN "protocol_error" ELSE "finished"
  <1>8. CASE /\ turn.finish = "length"
             /\ Stop("protocol_error",
                     IF turn.calls = << >> THEN turn.content ELSE Absent)
             /\ UNCHANGED queue
    <2>1. \E content \in {turn.content, Absent} :
             execution' = [status |-> "protocol_error", content |-> content]
             /\ pc' = "evaluate"
      BY <1>8, Zenon DEF Stop
    <2>2. Told
      BY <1>7, <1>8, <2>1 DEF Execution
    <2> QED BY <1>1, <1>5, <1>7, <2>2
  <1>9. CASE /\ turn.finish = "stop" /\ turn.calls # << >>
             /\ queue' = turn.calls
             /\ pc' = "tools"
             /\ UNCHANGED execution
    BY <1>1, <1>5, <1>7, <1>9
  <1>10. CASE /\ turn.finish = "stop" /\ turn.calls = << >>
              /\ Stop(IF turn.content.status = "blank" THEN "protocol_error"
                      ELSE "finished", turn.content)
              /\ UNCHANGED queue
    <2> DEFINE word == IF turn.content.status = "blank" THEN "protocol_error"
                       ELSE "finished"
    <2>1. execution' = [status |-> word, content |-> turn.content]
          /\ pc' = "evaluate"
      BY <1>10 DEF Stop
    <2>2. Told
      BY <1>7, <1>10, <2>1 DEF Execution
    <2> QED BY <1>1, <1>5, <1>7, <2>2
  <1> QED BY <1>6, <1>8, <1>9, <1>10

\* A call cut off, a provider that fails, a limit: no claim, nothing stored.
StoppedBlank ==
    /\ pc' = "evaluate" /\ execution' \in Execution
    /\ execution'.status # "finished" /\ execution'.content = Absent
    /\ UNCHANGED <<tasks, task_operations, hot, fresh, config, queue, last, number,
                   consumed, counts, evaluation, effects, failures>>
    /\ calls' \in [model : 0 .. MaxModelCalls, tool : Nat, executed : Nat]
    /\ calls'.tool = calls.tool /\ calls'.executed = calls.executed

LEMMA StopsAre ==
    ASSUME TypesInv, ProviderFails \/ ModelLimit \/ ToolLimit
    PROVE  /\ StoppedBlank /\ pc \in {"caller", "tools"}
           /\ ProviderFails => pc = "caller" /\ config.who = "live"
           /\ ModelLimit => /\ pc = "caller" /\ calls' = calls
                            /\ calls.model >= MaxModelCalls
           /\ ToolLimit => /\ pc = "tools" /\ config.who # "workflow"
                           /\ calls.tool >= MaxToolCalls /\ calls' = calls
  <1>1. Absent \in Contents
    BY DEF Absent, Contents
  <1>2. \A word \in {"provider_error", "model_limit", "tool_limit"} :
           Stop(word, Absent) =>
              /\ pc' = "evaluate" /\ execution' \in Execution
              /\ execution'.status # "finished" /\ execution'.content = Absent
    BY <1>1 DEF Stop, Execution
  <1>3. /\ "provider_error" \in {"provider_error", "model_limit", "tool_limit"}
        /\ "model_limit" \in {"provider_error", "model_limit", "tool_limit"}
        /\ "tool_limit" \in {"provider_error", "model_limit", "tool_limit"}
    OBVIOUS
  <1>4. calls \in [model : 0 .. MaxModelCalls, tool : Nat, executed : Nat]
        /\ MaxModelCalls \in Nat
    BY RunAssumption DEF TypesInv, RunAssumption
  <1>5. CASE ProviderFails
    <2>1. /\ pc = "caller" /\ config.who = "live" /\ Stop("provider_error", Absent)
          /\ calls.model < MaxModelCalls
          /\ calls' = [calls EXCEPT !.model = @ + 1]
          /\ UNCHANGED <<tasks, task_operations, hot, fresh, config, queue, last,
                         number, consumed, counts, evaluation, effects, failures>>
      BY <1>5 DEF ProviderFails, store, local
    <2>2. /\ calls' \in [model : 0 .. MaxModelCalls, tool : Nat, executed : Nat]
          /\ calls'.tool = calls.tool /\ calls'.executed = calls.executed
      BY <1>4, <2>1
    <2>3. StoppedBlank
      BY <1>2, <1>3, <2>1, <2>2 DEF StoppedBlank
    <2> QED BY <2>1, <2>3 DEF ModelLimit, ToolLimit
  <1>6. CASE ModelLimit
    <2>1. /\ pc = "caller" /\ Stop("model_limit", Absent)
          /\ calls.model >= MaxModelCalls /\ calls' = calls
          /\ UNCHANGED <<tasks, task_operations, hot, fresh, config, queue, last,
                         number, consumed, counts, evaluation, effects, failures>>
      BY <1>6 DEF ModelLimit, store, local
    <2>2. StoppedBlank
      BY <1>2, <1>3, <1>4, <2>1 DEF StoppedBlank
    <2> QED BY <2>1, <2>2 DEF ProviderFails, ToolLimit
  <1>7. CASE ToolLimit
    <2>1. /\ pc = "tools" /\ Stop("tool_limit", Absent)
          /\ config.who # "workflow" /\ calls.tool >= MaxToolCalls
          /\ calls' = calls
          /\ UNCHANGED <<tasks, task_operations, hot, fresh, config, queue, last,
                         number, consumed, counts, evaluation, effects, failures>>
      BY <1>7 DEF ToolLimit, store, local
    <2>2. StoppedBlank
      BY <1>2, <1>3, <1>4, <2>1 DEF StoppedBlank
    <2> QED BY <2>1, <2>2 DEF ProviderFails, ModelLimit
  <1> QED BY <1>5, <1>6, <1>7

LEMMA EvaluateIs ==
    ASSUME TypesInv, Evaluate
    PROVE  /\ pc = "evaluate" /\ pc' = "done"
           /\ UNCHANGED <<tasks, task_operations, hot, fresh, config, queue, last,
                          number, consumed, calls, counts, execution, effects>>
           /\ failures' \in {failures, failures + 1} /\ failures' \in 0 .. MaxFailures
           /\ \E unreadable \in BOOLEAN :
                 /\ evaluation' = {EvaluateRun(InspectState(tasks, unreadable),
                                               Title, execution)}
                 /\ unreadable => failures' # 0
  <1>1. /\ pc = "evaluate" /\ pc' = "done"
        /\ UNCHANGED <<tasks, task_operations, hot, fresh, config, queue, last,
                       number, consumed, calls, counts, execution, effects>>
    BY DEF Evaluate, store, local
  <1>2. failures \in 0 .. MaxFailures /\ MaxFailures \in Nat
    BY RunAssumption DEF TypesInv, RunAssumption
  <1>3. PICK unreadable \in {FALSE} \cup (IF failures < MaxFailures THEN {TRUE}
                                          ELSE {}) :
          /\ evaluation' = {EvaluateRun(InspectState(tasks, unreadable), Title,
                                        execution)}
          /\ failures' = IF unreadable THEN failures + 1 ELSE failures
    BY Zenon DEF Evaluate
  <1>4. unreadable \in BOOLEAN /\ (unreadable => failures < MaxFailures)
    BY <1>3
  <1>5. /\ failures' \in {failures, failures + 1} /\ failures' \in 0 .. MaxFailures
        /\ unreadable => failures' # 0
    BY <1>2, <1>3, <1>4
  <1> QED BY <1>1, <1>3, <1>4, <1>5

LEMMA Grown ==
    ASSUME TypesInv
    PROVE  /\ \A t \in Nat, op \in Nat :
                 effects' = effects \cup {[task |-> t, operation |-> op]} =>
                    effects' \in SUBSET Effect /\ IsFiniteSet(effects')
           /\ effects' = effects =>
                 effects' \in SUBSET Effect /\ IsFiniteSet(effects')
           /\ \A id \in Nat, title \in Titles :
                 tasks' = tasks \cup {[id |-> id, title |-> title]} =>
                    tasks' \in SUBSET Task
           /\ tasks' = tasks => tasks' \in SUBSET Task
           /\ \A id \in Nat, title \in Titles, op \in Nat :
                 task_operations' = task_operations \cup
                       {[operation_id |-> op, title |-> title, task_id |-> id]} =>
                    task_operations' \in SUBSET LedgerRow
           /\ task_operations' = task_operations =>
                 task_operations' \in SUBSET LedgerRow
           /\ hot' = hot => hot' \in BOOLEAN
           /\ fresh' \in {fresh, fresh + 1} => fresh' \in Nat \ {0}
  <1>1. /\ effects \in SUBSET Effect /\ IsFiniteSet(effects)
        /\ tasks \in SUBSET Task /\ task_operations \in SUBSET LedgerRow
        /\ hot \in BOOLEAN /\ fresh \in Nat \ {0}
    BY DEF TypesInv, StoreType
  <1>2. ASSUME NEW t \in Nat, NEW op \in Nat
        PROVE  /\ effects \cup {[task |-> t, operation |-> op]} \in SUBSET Effect
               /\ IsFiniteSet(effects \cup {[task |-> t, operation |-> op]})
    <2> DEFINE e == [task |-> t, operation |-> op]
    <2>1. e \in Effect
      BY DEF Effect
    <2> HIDE DEF e
    <2>2. effects \cup {e} \in SUBSET Effect
      BY <1>1, <2>1
    <2>3. IsFiniteSet(effects \cup {e})
      BY <1>1, FS_AddElement
    <2> QED BY <2>2, <2>3 DEF e
  <1>3. ASSUME NEW id \in Nat, NEW title \in Titles
        PROVE  tasks \cup {[id |-> id, title |-> title]} \in SUBSET Task
    BY <1>1 DEF Task
  <1>4. ASSUME NEW id \in Nat, NEW title \in Titles, NEW op \in Nat
        PROVE  task_operations \cup
                  {[operation_id |-> op, title |-> title, task_id |-> id]}
                  \in SUBSET LedgerRow
    BY <1>1 DEF LedgerRow
  <1>5. /\ \A t \in Nat, op \in Nat :
              effects' = effects \cup {[task |-> t, operation |-> op]} =>
                 effects' \in SUBSET Effect /\ IsFiniteSet(effects')
        /\ effects' = effects =>
              effects' \in SUBSET Effect /\ IsFiniteSet(effects')
    BY <1>1, <1>2, Zenon
  <1>6. /\ \A id \in Nat, title \in Titles :
              tasks' = tasks \cup {[id |-> id, title |-> title]} =>
                 tasks' \in SUBSET Task
        /\ tasks' = tasks => tasks' \in SUBSET Task
    BY <1>1, <1>3, Zenon
  <1>7. /\ \A id \in Nat, title \in Titles, op \in Nat :
              task_operations' = task_operations \cup
                    {[operation_id |-> op, title |-> title, task_id |-> id]} =>
                 task_operations' \in SUBSET LedgerRow
        /\ task_operations' = task_operations =>
              task_operations' \in SUBSET LedgerRow
    BY <1>1, <1>4, Zenon
  <1>8. /\ hot' = hot => hot' \in BOOLEAN
        /\ fresh' \in {fresh, fresh + 1} => fresh' \in Nat \ {0}
    BY <1>1
  <1> QED BY <1>5, <1>6, <1>7, <1>8

\* The variables of the loop after an attempt.
LEMMA AttemptTypes ==
    ASSUME TypesInv, Attempting, counts' \in [Counters -> Nat],
           \/ Retried
           \/ GivenUp
           \/ Failed /\ consumed' = consumed
           \/ Answered /\ last' \in Delivery /\ consumed' = consumed
    PROVE  /\ queue' \in Seq(ToolCall) /\ last' \in Delivery /\ number' \in 0 .. 2
           /\ consumed' \in BOOLEAN /\ config' = config
           /\ execution' = execution
           /\ pc' \in {"caller", "tools", "attempt"}
  <1>1. /\ queue \in Seq(ToolCall) /\ last \in Delivery /\ number \in 0 .. 2
        /\ consumed \in BOOLEAN
    BY DEF TypesInv
  <1>2. CASE Retried
    BY <1>1, <1>2 DEF Retried, Attempting
  <1>3. CASE Answered /\ last' \in Delivery /\ consumed' \in {consumed, TRUE}
    <2>1. consumed' \in BOOLEAN
      BY <1>1, <1>3
    <2>2. 0 \in 0 .. 2
      OBVIOUS
    <2> QED BY <1>3, <2>1, <2>2, Zenon DEF Answered
  <1>4. \/ Retried
        \/ Answered /\ last' \in Delivery /\ consumed' \in {consumed, TRUE}
    BY DEF GivenUp, Failed
  <1> QED BY <1>2, <1>3, <1>4

LEMMA ConfigStays ==
    ASSUME TypesInv, [Next]_vars
    PROVE  /\ config' = config /\ AttemptLimit' = AttemptLimit
           /\ Protected' = Protected /\ Repeats' = Repeats /\ Honest' = Honest
  <1>1. config' = config
    BY DEF Next, vars, Turn, ProviderFails, ScriptFails, ModelLimit, ToolLimit,
           Refuse, ExecuteCreate, ExecuteGet, StorageFails, StartOperation,
           FailBeforeWrite, AttemptCreate, AttemptGet, AttemptStorageFails,
           Evaluate, Deliver, Answer, Unavailable
  <1> QED BY <1>1 DEF AttemptLimit, Protected, Repeats, Honest

\* The control after an answer, and after an attempt.
LEMMA AnswerFlow ==
    ASSUME TypesInv, FlowInv, Answered, pc # "done",
           calls'.executed <= calls'.tool,
           config.who # "workflow" => calls'.tool <= MaxToolCalls
    PROVE  FlowInv'
  <1>1. /\ pc' \in {"caller", "tools"} /\ number' = 0 /\ config' = config
        /\ pc' = "tools" => queue' # << >>
        /\ evaluation' = {}
    BY DEF Answered, FlowInv
  <1> QED BY <1>1 DEF FlowInv

LEMMA AttemptFlow ==
    ASSUME TypesInv, FlowInv, Attempting,
           \/ Retried /\ Head(queue).name = "create_task"
           \/ GivenUp
           \/ Failed /\ consumed' = consumed
           \/ Answered /\ last' \in Delivery /\ consumed' = consumed
    PROVE  FlowInv'
  <1>1. /\ calls.executed <= calls.tool /\ calls' = calls
        /\ config.who # "workflow" => calls.tool <= MaxToolCalls
        /\ pc = "attempt" /\ evaluation = {}
    BY DEF FlowInv, Attempting
  <1>2. CASE Retried /\ Head(queue).name = "create_task"
    <2>1. /\ pc' = "attempt" /\ number' = 2 /\ consumed' /\ config' = config
          /\ queue' = queue /\ evaluation' = {} /\ queue # << >>
          /\ config.kind = "retries" /\ WellFormed(Head(queue))
          /\ AttemptLimit = 2
      BY <1>1, <1>2 DEF Retried, Attempting
    <2>2. AttemptLimit' = 2 /\ WellFormed(Head(queue))'
      BY <2>1 DEF AttemptLimit, WellFormed
    <2> QED BY <1>1, <1>2, <2>1, <2>2 DEF FlowInv
  <1>3. CASE Answered
    BY <1>1, <1>3, AnswerFlow
  <1> QED BY <1>2, <1>3 DEF GivenUp, Failed

\* The accounts after an attempt, after an execution, and when neither is made.
LEMMA AttemptAccounts ==
    ASSUME TypesInv, FlowInv, AccountsInv, Attempting, config' = config,
           NEW e \in {0, 1}, NEW r \in {0, 1}, NEW f \in {0, 1}, NEW a \in {0, 1},
           Tally(e, r, f, a), r <= e, r = 1 => Protected,
           f = 1 => ~consumed /\ config.case # "retry-healthy",
           \/ Retried /\ f = 1 /\ a = 1
           \/ Answered /\ a = 0 /\ consumed' = IF f = 1 THEN TRUE ELSE consumed
    PROVE  AccountsInv'
  <1>1. /\ config.kind = "retries" /\ pc = "attempt" /\ number \in {1, 2}
        /\ number <= AttemptLimit /\ calls' = calls
        /\ AttemptLimit' = AttemptLimit /\ Protected' = Protected
        /\ config.kind # "responses" /\ AttemptLimit \in {1, 2}
        /\ consumed \in BOOLEAN
    BY ConfigFacts DEF Attempting, AttemptLimit, Protected, TypesInv
  <1>2. /\ counts.operations \in Nat /\ counts.attempts \in Nat
        /\ counts.retries \in Nat /\ counts.entries \in Nat
        /\ counts.replayed \in Nat /\ counts.delivery_errors \in Nat
        /\ counts.faults \in Nat
    BY CountsAreNumbers
  <1>3. /\ counts.operations = calls.executed
        /\ counts.attempts + 1 = counts.operations + counts.retries
        /\ AttemptLimit = 1 => counts.retries = 0
        /\ counts.retries + 2 <= counts.operations + number
        /\ counts.replayed <= counts.entries
        /\ counts.entries <= counts.attempts
        /\ counts.delivery_errors = counts.faults
        /\ counts.faults = IF consumed THEN 1 ELSE 0
        /\ counts.faults <= counts.attempts
        /\ consumed => config.case # "retry-healthy"
        /\ ~Protected => counts.replayed = 0
    BY <1>1 DEF AccountsInv, InProgress
  <1>4. /\ counts'.operations = counts.operations
        /\ counts'.attempts = counts.attempts + 1
        /\ counts'.entries = counts.entries + e
        /\ counts'.replayed = counts.replayed + r
        /\ counts'.faults = counts.faults + f
        /\ counts'.delivery_errors = counts.delivery_errors + f
        /\ counts'.retries = counts.retries + a
    BY DEF Tally
  <1>5. /\ counts'.operations = calls'.executed
        /\ counts'.replayed <= counts'.entries
        /\ counts'.entries <= counts'.attempts
        /\ counts'.delivery_errors = counts'.faults
        /\ counts'.faults <= counts'.attempts
        /\ ~Protected => counts'.replayed = 0
    BY <1>1, <1>2, <1>3, <1>4
  <1>6. CASE Retried /\ f = 1 /\ a = 1
    <2>1. /\ pc' = "attempt" /\ number = 1 /\ number' = 2 /\ AttemptLimit = 2
          /\ consumed' /\ ~consumed
      BY <1>1, <1>6 DEF Retried
    <2>2. /\ counts'.attempts + 1 = counts'.operations + counts'.retries
          /\ counts'.retries + 2 <= counts'.operations + number'
          /\ counts'.faults = 1
      BY <1>2, <1>3, <1>4, <1>6, <2>1
    <2> QED BY <1>1, <1>5, <1>6, <2>1, <2>2 DEF AccountsInv, InProgress
  <1>7. CASE Answered /\ a = 0 /\ consumed' = IF f = 1 THEN TRUE ELSE consumed
    <2>1. pc' \in {"caller", "tools"}
      BY <1>7 DEF Answered
    <2>2. /\ counts'.attempts = counts'.operations + counts'.retries
          /\ counts'.retries <= counts'.operations
          /\ AttemptLimit = 1 => counts'.retries = 0
      BY <1>1, <1>2, <1>3, <1>4, <1>7
    <2>3. counts'.faults = IF consumed' THEN 1 ELSE 0
      <3>1. CASE f = 1
        BY <1>2, <1>3, <1>4, <1>7, <3>1
      <3>2. CASE f = 0
        BY <1>2, <1>3, <1>4, <1>7, <3>2
      <3> QED BY <3>1, <3>2
    <2>4. consumed' => config.case # "retry-healthy"
      BY <1>1, <1>3, <1>7
    <2>5. counts'.attempts \in Nat
      BY <1>2, <1>4
    <2> QED BY <1>1, <1>5, <2>1, <2>2, <2>3, <2>4, <2>5
            DEF AccountsInv, InProgress
  <1> QED BY <1>6, <1>7

LEMMA ExecutedAccounts ==
    ASSUME TypesInv, AccountsInv, ExecutedCall \/ Refuse, FlowInv
    PROVE  AccountsInv'
  <1>1. CASE config.kind = "responses"
    <2>1. /\ ContractAccounts /\ Tallied /\ config' = config
          /\ calls'.tool = calls.tool + 1
          /\ \/ calls'.executed = calls.executed + 1
             \/ calls'.executed = calls.executed /\ counts'.faults = counts.faults
      BY <1>1, RefuseIs DEF AccountsInv, ExecutedCall, Answered
    <2>2. /\ counts \in [Counters -> Nat] /\ calls.tool \in Nat
          /\ calls.executed \in Nat
      BY DEF TypesInv
    <2>3. /\ counts.unchecked \in Nat /\ counts.faults \in Nat
      <3>1. /\ counts.unchecked = counts["unchecked"]
            /\ counts.faults = counts["faults"]
        BY <2>2, Fields
      <3> QED BY <2>2, <3>1 DEF Counters
    <2>4. ContractAccounts'
      <3> DEFINE sum == counts.valid + counts.syntax + counts.schema
                           + counts.request + counts.unchecked
                 sum2 == counts'.valid + counts'.syntax + counts'.schema
                           + counts'.request + counts'.unchecked
      <3>1. sum = calls.tool /\ sum2 = sum + 1
        BY <2>1 DEF ContractAccounts, Tallied
      <3>2. /\ config.policy = "pass-through" => counts'.unchecked = calls'.tool
            /\ config.policy = "validated" => counts'.unchecked = 0
            /\ counts'.faults <= calls'.executed
            /\ config.case = "healthy" => counts'.faults = 0
        BY <2>1, <2>2, <2>3 DEF ContractAccounts, Tallied
      <3> HIDE DEF sum, sum2
      <3>3. sum2 = calls'.tool
        BY <2>1, <3>1
      <3> QED BY <2>1, <3>2, <3>3 DEF ContractAccounts, sum2
    <2> QED BY <1>1, <2>1, <2>4 DEF AccountsInv
  <1>2. CASE config.kind = "retries"
    <2>1. /\ Refuse /\ config' = config /\ pc = "tools" /\ pc' \in {"caller", "tools"}
          /\ counts' = counts /\ calls'.executed = calls.executed
          /\ consumed' = consumed
      BY <1>2, RefuseIs DEF ExecutedCall, Answered
    <2> QED BY <1>2, <2>1 DEF AccountsInv, InProgress, AttemptLimit, Protected
  <1>3. CASE config.kind = "claims"
    <2>1. config' = config
      BY RefuseIs DEF ExecutedCall, Answered
    <2> QED BY <1>3, <2>1 DEF AccountsInv
  <1> QED BY <1>1, <1>2, <1>3, ConfigFacts

LEMMA SameAccounts ==
    ASSUME AccountsInv, counts' = counts, calls'.tool = calls.tool,
           calls'.executed = calls.executed, config' = config,
           consumed' = consumed, number' = number,
           pc' = "attempt" <=> pc = "attempt"
    PROVE  AccountsInv'
  BY DEF AccountsInv, ContractAccounts, InProgress, AttemptLimit, Protected

-----------------------------------------------------------------------------
(* The effects and the ledger *)

LEMMA EffectFacts ==
    ASSUME TypesInv
    PROVE  /\ \A op \in Nat : EffectsOf(op) \in SUBSET effects
                              /\ IsFiniteSet(EffectsOf(op))
                              /\ Cardinality(EffectsOf(op)) \in Nat
           /\ \A e \in effects : e.task \in Nat /\ e.operation \in Nat
           /\ \A e \in effects, t, op \in Nat :
                 e.task = t /\ e.operation = op =>
                    e = [task |-> t, operation |-> op]
  <1>1. effects \in SUBSET Effect /\ IsFiniteSet(effects)
    BY DEF TypesInv
  <1>2. \A op \in Nat : EffectsOf(op) \subseteq effects
    BY DEF EffectsOf
  <1>3. \A op \in Nat : IsFiniteSet(EffectsOf(op))
    BY <1>1, <1>2, FS_Subset
  <1>4. \A op \in Nat : Cardinality(EffectsOf(op)) \in Nat
    BY <1>3, FS_CardinalityType
  <1>5. \A e \in effects : e \in Effect
    BY <1>1
  <1>6. \A e \in effects : e.task \in Nat /\ e.operation \in Nat
    BY <1>5 DEF Effect
  <1>7. \A e \in effects, t, op \in Nat :
           e.task = t /\ e.operation = op => e = [task |-> t, operation |-> op]
    BY <1>5 DEF Effect
  <1> QED BY <1>2, <1>3, <1>4, <1>6, <1>7

\* An operation makes at most one effect, or two where that is the point.
LEMMA SameLedger ==
    ASSUME TypesInv, FlowInv, LedgerInv, effects' = effects, tasks' = tasks,
           task_operations' = task_operations, config' = config,
           calls.tool <= calls'.tool, calls'.tool \in Nat,
           config.kind = "retries" => counts'.operations = counts.operations,
           \/ pc' # "attempt"
           \/ pc = "attempt" /\ number' = number /\ queue' = queue
    PROVE  LedgerInv'
  <1>1. /\ Protected' = Protected /\ Repeats' = Repeats
        /\ Protected => config.kind = "retries"
        /\ Repeats => config.kind = "retries"
        /\ pc = "attempt" => config.kind = "retries"
    BY ConfigFacts DEF Protected, Repeats, FlowInv
  <1>2. calls.tool \in Nat /\ calls.tool <= calls'.tool /\ calls'.tool \in Nat
    BY DEF TypesInv
  <1>3. ASSUME NEW e \in effects'
        PROVE  e.operation <= IF config'.kind = "retries" THEN counts'.operations
                              ELSE calls'.tool
    <2>1. e \in effects /\ e.operation \in Nat
      BY EffectFacts
    <2>2. e.operation <= IF config.kind = "retries" THEN counts.operations
                         ELSE calls.tool
      BY <2>1 DEF LedgerInv
    <2>3. CASE config.kind = "retries"
      BY <2>2, <2>3
    <2>4. CASE config.kind # "retries"
      <3>1. e.operation <= calls.tool /\ config'.kind # "retries"
        BY <2>2, <2>4
      <3> QED BY <2>1, <3>1, <1>2, Transitive
    <2> QED BY <2>3, <2>4
  <1>4. /\ ~Repeats' => \A e, f \in effects' : e.operation = f.operation => e = f
        /\ Repeats' => \A op \in Nat : Cardinality(EffectsOf(op)') <= 2
        /\ pc' = "attempt" /\ ~Repeats' /\ (number' = 1 \/ ~Protected') =>
              EffectsOf(counts.operations)' = {}
        /\ pc' = "attempt" /\ Repeats' =>
              Cardinality(EffectsOf(counts.operations)') <= number' - 1
    BY <1>1 DEF LedgerInv, EffectsOf
  <1>5. Protected =>
          /\ \A e \in effects' : \E row \in task_operations' :
                row.operation_id = e.operation /\ row.task_id = e.task
          /\ \A row, other \in task_operations' :
                row.operation_id = other.operation_id => row = other
          /\ \A row \in task_operations' :
                /\ row.operation_id <= counts'.operations
                /\ [id |-> row.task_id, title |-> row.title] \in tasks'
          /\ pc' = "attempt" => \A row \in Recorded(counts.operations)' :
                number' = 2 /\ row.title = Head(queue').title
    BY <1>1 DEF LedgerInv, Recorded
  <1> QED BY <1>1, <1>3, <1>4, <1>5 DEF LedgerInv

LEMMA CreateLedger ==
    ASSUME TypesInv, FlowInv, LedgerInv, AttemptCreate
    PROVE  LedgerInv'
  <1>0. PICK op \in Nat : op = counts.operations
    BY CountsAreNumbers
  <1> DEFINE title == Head(queue).title
  <1>1. PICK t \in Nat, r \in {0, 1} : CreateAttempt(t, r)
    BY AttemptCreateIs
  <1> DEFINE e0 == [task |-> t, operation |-> op]
             row0 == [operation_id |-> op, title |-> title, task_id |-> fresh]
  <1>2. /\ pc = "attempt" /\ config.kind = "retries" /\ calls' = calls
        /\ number \in {1, 2} /\ number <= AttemptLimit
    BY AttemptCreateIs DEF Attempting
  <1>3. /\ config' = config /\ counts'.operations = op
        /\ \/ config.case = "lost-reply-once" /\ Retried
           \/ pc' # "attempt"
    BY <1>0, <1>1 DEF CreateAttempt, Tally, Retried, GivenUp, Failed, Answered
  <1>4. /\ effects' = effects \cup {e0} /\ [id |-> t, title |-> title] \in tasks'
    BY <1>0, <1>1 DEF CreateAttempt
  <1>5. \/ /\ r = 0 /\ t = fresh
           /\ ~Protected \/ Recorded(op) = {}
           /\ tasks' = tasks \cup {[id |-> fresh, title |-> title]}
           /\ task_operations' = IF Protected THEN task_operations \cup {row0}
                                 ELSE task_operations
        \/ /\ r = 1 /\ Protected /\ number = 2
           /\ \E row \in Recorded(op) : row.task_id = t
           /\ UNCHANGED <<tasks, task_operations>>
    BY <1>0, <1>1 DEF CreateAttempt
  <1>6. /\ Protected' = Protected /\ Repeats' = Repeats
        /\ Protected => ~Repeats
        /\ ~Protected /\ ~Repeats =>
              AttemptLimit = 1 \/ config.case # "lost-reply-once"
    BY <1>2, <1>3, ConfigFacts DEF Protected, Repeats
  <1>7. op \in Nat /\ e0.operation = op /\ e0.task = t
    OBVIOUS
  <1>8. row0.operation_id = op /\ row0.title = title /\ row0.task_id = fresh
    OBVIOUS
  <1>9. /\ \A e \in effects : e.operation \in Nat /\ e.operation <= op
        /\ \A e \in effects : e.operation = op /\ e.task = t => e = e0
    BY <1>0, <1>2, <1>7, EffectFacts DEF LedgerInv
  <1> HIDE DEF e0, row0, title
  <1>10. \A e \in effects' : e.operation <= counts'.operations
    BY <1>3, <1>4, <1>7, <1>9
  <1>11. ~Repeats => \A e, f \in effects' : e.operation = f.operation => e = f
    <2> SUFFICES ASSUME ~Repeats, NEW e \in effects, e.operation = op PROVE e = e0
      <3>1. ~Repeats => \A e, f \in effects : e.operation = f.operation => e = f
        BY DEF LedgerInv
      <3> QED BY <1>4, <1>7, <3>1
    <2>1. EffectsOf(op) # {}
      BY DEF EffectsOf
    <2>2. Protected /\ number = 2
      BY <1>0, <1>2, <2>1 DEF LedgerInv
    <2>3. PICK row \in task_operations :
             row.operation_id = op /\ row.task_id = e.task
      BY <2>2 DEF LedgerInv
    <2>4. row \in Recorded(op)
      BY <2>3 DEF Recorded
    <2>5. PICK other \in Recorded(op) : other.task_id = t
      BY <1>5, <2>2, <2>4
    <2>6. row = other
      BY <2>2, <2>4, <2>5 DEF LedgerInv, Recorded
    <2> QED BY <1>9, <2>3, <2>5, <2>6
  <1>12. EffectsOf(op)' = EffectsOf(op) \cup {e0}
         /\ \A n \in Nat : n # op => EffectsOf(n)' = EffectsOf(n)
    BY <1>3, <1>4, <1>7 DEF EffectsOf
  <1>13. Repeats => /\ \A n \in Nat : Cardinality(EffectsOf(n)') <= 2
                    /\ number = 1 => Cardinality(EffectsOf(op)') <= 1
    <2> SUFFICES ASSUME Repeats
                 PROVE  /\ \A n \in Nat : Cardinality(EffectsOf(n)') <= 2
                        /\ number = 1 => Cardinality(EffectsOf(op)') <= 1
      OBVIOUS
    <2>1. Cardinality(EffectsOf(op)) <= number - 1
      BY <1>0, <1>2 DEF LedgerInv
    <2>2. /\ IsFiniteSet(EffectsOf(op)) /\ Cardinality(EffectsOf(op)) \in Nat
      BY <1>7, EffectFacts
    <2>3. Cardinality(EffectsOf(op) \cup {e0}) \in
             {Cardinality(EffectsOf(op)), Cardinality(EffectsOf(op)) + 1}
      BY <2>2, FS_AddElement
    <2>4. Cardinality(EffectsOf(op) \cup {e0}) <= number
      BY <1>2, <2>1, <2>2, <2>3
    <2>5. \A n \in Nat : Cardinality(EffectsOf(n)) <= 2
      BY DEF LedgerInv
    <2>6. Cardinality(EffectsOf(op)') <= number
      BY <1>12, <2>4
    <2>7. Cardinality(EffectsOf(op)') \in Nat
      BY <1>12, <2>2, <2>3
    <2>8. \A n \in Nat : n # op => Cardinality(EffectsOf(n)') <= 2
      BY <1>12, <2>5
    <2>9. Cardinality(EffectsOf(op)') <= 2
      BY <1>2, <2>6, <2>7
    <2>10. number = 1 => Cardinality(EffectsOf(op)') <= 1
      BY <2>6
    <2>11. ASSUME NEW n \in Nat PROVE Cardinality(EffectsOf(n)') <= 2
      <3>1. CASE n = op
        BY <2>9, <3>1
      <3>2. CASE n # op
        BY <2>8, <3>2
      <3> QED BY <3>1, <3>2
    <2> QED BY <2>10, <2>11
  <1>14. pc' = "attempt" =>
            number = 1 /\ number' = 2 /\ queue' = queue /\ (Protected \/ Repeats)
    BY <1>2, <1>3, <1>6 DEF Retried
  <1>15. Protected =>
            /\ \A e \in effects' : \E row \in task_operations' :
                  row.operation_id = e.operation /\ row.task_id = e.task
            /\ \A row, other \in task_operations' :
                  row.operation_id = other.operation_id => row = other
            /\ \A row \in task_operations' :
                  /\ row.operation_id <= counts'.operations
                  /\ [id |-> row.task_id, title |-> row.title] \in tasks'
            /\ pc' = "attempt" => \A row \in task_operations' :
                  row.operation_id = op => row.title = title
    <2> SUFFICES ASSUME Protected
                 PROVE  /\ \A e \in effects' : \E row \in task_operations' :
                              row.operation_id = e.operation /\ row.task_id = e.task
                        /\ \A row, other \in task_operations' :
                              row.operation_id = other.operation_id => row = other
                        /\ \A row \in task_operations' :
                              /\ row.operation_id <= counts'.operations
                              /\ [id |-> row.task_id, title |-> row.title] \in tasks'
                        /\ pc' = "attempt" => \A row \in task_operations' :
                              row.operation_id = op => row.title = title
      OBVIOUS
    <2>1. /\ \A e \in effects : \E row \in task_operations :
                row.operation_id = e.operation /\ row.task_id = e.task
          /\ \A row, other \in task_operations :
                row.operation_id = other.operation_id => row = other
          /\ \A row \in task_operations :
                /\ row.operation_id <= op
                /\ [id |-> row.task_id, title |-> row.title] \in tasks
          /\ \A row \in Recorded(op) : number = 2 /\ row.title = title
      BY <1>0, <1>2 DEF LedgerInv, title
    <2>2. CASE UNCHANGED <<tasks, task_operations>>
               /\ \E row \in Recorded(op) : row.task_id = t
      <3>1. \A e \in effects' : \E row \in task_operations' :
               row.operation_id = e.operation /\ row.task_id = e.task
        BY <1>4, <1>7, <2>1, <2>2 DEF Recorded
      <3> QED BY <1>3, <2>1, <2>2, <3>1 DEF Recorded
    <2>3. CASE /\ t = fresh /\ Recorded(op) = {}
               /\ tasks' = tasks \cup {[id |-> fresh, title |-> title]}
               /\ task_operations' = task_operations \cup {row0}
      <3>1. \A row \in task_operations : row.operation_id # op
        BY <2>3 DEF Recorded
      <3>2. \A e \in effects' : \E row \in task_operations' :
               row.operation_id = e.operation /\ row.task_id = e.task
        BY <1>4, <1>7, <1>8, <2>1, <2>3
      <3>3. \A row, other \in task_operations' :
               row.operation_id = other.operation_id => row = other
        BY <1>8, <2>1, <2>3, <3>1
      <3>4. \A row \in task_operations' :
               /\ row.operation_id <= counts'.operations
               /\ [id |-> row.task_id, title |-> row.title] \in tasks'
        <4>1. \A row \in task_operations :
                 /\ row.operation_id <= op
                 /\ [id |-> row.task_id, title |-> row.title] \in tasks'
          <5>1. tasks \subseteq tasks'
            BY <2>3
          <5> QED BY <2>1, <5>1, Zenon
        <4>2. row0.operation_id <= op
          BY <1>7, <1>8
        <4>3. [id |-> row0.task_id, title |-> row0.title] \in tasks'
          BY <1>4, <1>8, <2>3
        <4>4. \A row \in task_operations' :
                 row \in task_operations \/ row = row0
          BY <2>3
        <4> QED BY <1>3, <4>1, <4>2, <4>3, <4>4, Zenon
      <3>5. \A row \in task_operations' : row.operation_id = op => row.title = title
        BY <1>8, <2>3, <3>1
      <3> QED BY <3>2, <3>3, <3>4, <3>5
    <2> QED BY <1>5, <2>2, <2>3
  <1>16. \A row \in Recorded(counts.operations)' :
            row \in task_operations' /\ row.operation_id = op
    BY <1>3 DEF Recorded
  <1>17. Head(queue)'.title = title \/ pc' # "attempt"
    BY <1>14 DEF title
  <1>18. EffectsOf(counts.operations)' = EffectsOf(op)'
    BY <1>3 DEF EffectsOf
  <1> QED BY <1>2, <1>3, <1>6, <1>10, <1>11, <1>13, <1>14, <1>15, <1>16, <1>17,
             <1>18 DEF LedgerInv

-----------------------------------------------------------------------------
(* Answers about their requests *)

LEMMA SameMatch ==
    ASSUME SuccessMatchesRequest, last' = last, config' = config,
           tasks \subseteq tasks'
    PROVE  SuccessMatchesRequest'
  <1> DEFINE row == [id |-> last.task, title |-> last.title]
  <1>1. row \in tasks => row \in tasks'
    OBVIOUS
  <1>2. row' = row
    OBVIOUS
  <1>3. \/ config.kind = "claims"
        \/ config.kind = "responses" /\ config.policy = "pass-through"
        \/ ~last.ok
        \/ last.call.name = "get_task" /\ last.task \in {0, last.call.task}
        \/ /\ last.call.name = "create_task"
           /\ last.title = last.call.title
           /\ config.case # "dropped-write" => row \in tasks
    BY DEF SuccessMatchesRequest
  <1> HIDE DEF row
  <1>4. \/ config'.kind = "claims"
        \/ config'.kind = "responses" /\ config'.policy = "pass-through"
        \/ ~last'.ok
        \/ last'.call.name = "get_task" /\ last'.task \in {0, last'.call.task}
        \/ /\ last'.call.name = "create_task"
           /\ last'.title = last'.call.title
           /\ config'.case # "dropped-write" => row' \in tasks'
    BY <1>1, <1>2, <1>3
  <1> QED BY <1>4 DEF SuccessMatchesRequest, row

-----------------------------------------------------------------------------
(* The fixed callers *)

LEMMA HonestFacts ==
    ASSUME TypesInv, Honest
    PROVE  /\ config.who \in {"scripted", "workflow"}
           /\ config.kind = "claims" /\ config.who = "scripted"
                /\ config.policy # "read-back" => config.case # "dropped-write"
           /\ config.kind = "retries" => config.case # "dropped-write"
           /\ ~Repeats
           /\ ~(/\ config.kind = "responses" /\ config.policy = "pass-through"
                /\ config.case = "wrong-get-id")
  <1>1. config.kind = "claims" => config.policy \in {"baseline", "read-back"}
    BY ConfigFacts
  <1>2. config.kind = "retries" => config.case # "dropped-write"
    BY ConfigFacts
  <1> QED BY <1>1, <1>2 DEF Honest

Unclaimed == {Say("unknown", 0), Say("not_completed", 0)}

\* What an honest caller does next: ask for the task, read it back, or report
\* what it was told.
LEMMA HonestTurn ==
    ASSUME TypesInv, ClaimInv, ScriptInv, Honest, pc = "caller",
           NEW turn \in Turns
    PROVE  \/ turn = Ask(Create(Title)) /\ calls.tool = 0
           \/ /\ calls.tool = 1 /\ last.ok /\ last.task # 0 /\ Stored(last.task)
              /\ turn = Ask(Get(last.task))
           \/ /\ last.ok /\ last.task # 0 /\ tasks = {Row(last.task)}
              /\ turn = Say("completed", last.task)
           \/ turn \in Unclaimed
  <1>1. /\ config.who \in {"scripted", "workflow"}
        /\ calls.tool \in {0, 1, 2}
        /\ config.who = "scripted" => calls.model = calls.tool
        /\ calls.tool = 1 /\ last.ok /\ last.task # 0 => Stored(last.task)
        /\ calls.tool = 2 /\ last.ok /\ last.task # 0 =>
              tasks = {Row(last.task)}
        /\ config.kind = "claims" /\ last.task # 0 => last.ok
    BY HonestFacts DEF ScriptInv, TurnsInv, CreateInv, GetInv, ClaimInv
  <1>2. CASE config.who = "workflow"
    <2>1. turn \in WorkflowStep(calls.tool)
      BY <1>2 DEF Turns
    <2>2. \/ turn = Ask(Create(Title)) /\ calls.tool = 0
          \/ calls.tool = 1 /\ last.ok /\ last.task # 0 /\ turn = Ask(Get(last.task))
          \/ calls.tool = 2 /\ last.ok /\ last.task # 0
             /\ turn = Say("completed", last.task)
          \/ turn \in Unclaimed
      BY <1>1, <2>1, Zenon DEF WorkflowStep, Unclaimed
    <2> QED BY <1>1, <2>2
  <1>3. CASE config.who = "scripted" /\ config.kind = "claims"
    <2>1. turn \in ClaimScript(calls.model)
      BY <1>3 DEF Turns
    <2>2. \/ turn = Ask(Create(Title)) /\ calls.model = 0
          \/ /\ config.policy = "read-back" /\ calls.model # 2 /\ calls.model # 0
             /\ last.task # 0 /\ turn = Ask(Get(last.task))
          \/ /\ calls.model = 2 \/ config.policy # "read-back"
             /\ calls.model # 0 /\ last.task # 0
             /\ turn = Say("completed", last.task)
          \/ turn \in Unclaimed
      BY <1>3, <2>1 DEF ClaimScript, Unclaimed
    <2>3. config.policy # "read-back" => config.case # "dropped-write"
      BY <1>3, HonestFacts
    <2>4. calls.tool = 1 /\ last.task # 0 /\ config.policy # "read-back" =>
             tasks = {Row(last.task)}
      BY <1>1, <1>3, <2>3 DEF Stored
    <2> QED BY <1>1, <1>3, <2>2, <2>4
  <1>4. CASE config.who = "scripted" /\ config.kind # "claims"
    <2>1. turn \in ResponseScript(calls.model)
      BY <1>4 DEF Turns
    <2>2. \/ turn = Ask(Create(Title)) /\ calls.model = 0
          \/ /\ calls.model = 1 /\ last.ok /\ last.task # 0
             /\ turn = Ask(Get(last.task))
          \/ /\ calls.model \notin {0, 1} /\ last.ok /\ last.task # 0
             /\ turn = Say("completed", last.task)
          \/ turn \in Unclaimed
      <3> DEFINE named == IF last.ok THEN last.task ELSE 0
      <3>1. named # 0 => last.ok /\ last.task # 0 /\ named = last.task
        OBVIOUS
      <3>2. turn \in IF calls.model = 0 THEN {Ask(Create(Title))}
                     ELSE IF named = 0 THEN {Say("unknown", 0)}
                     ELSE IF calls.model = 1 THEN {Ask(Get(named))}
                     ELSE {Say("completed", named)}
        BY <2>1, Zenon DEF ResponseScript
      <3> HIDE DEF named
      <3> QED BY <3>1, <3>2 DEF Unclaimed
    <2> QED BY <1>1, <1>4, <2>2
  <1> QED BY <1>1, <1>2, <1>3, <1>4

\* The reports of a turn.
LEMMA TurnTexts ==
    ASSUME TypesInv
    PROVE  /\ Ask(Create(Title)).calls # << >>
           /\ Len(Ask(Create(Title)).calls) = 1
           /\ Head(Ask(Create(Title)).calls) = Create(Title)
           /\ Ask(Create(Title)).finish = "stop"
           /\ Ask(Get(last.task)).calls # << >>
           /\ Len(Ask(Get(last.task)).calls) = 1
           /\ Head(Ask(Get(last.task)).calls) = Get(last.task)
           /\ Ask(Get(last.task)).finish = "stop"
           /\ Say("completed", last.task).calls = << >>
           /\ Say("completed", last.task).finish = "stop"
           /\ Say("completed", last.task).content.status = "completed"
           /\ Say("completed", last.task).content.task = last.task
           /\ \A turn \in Unclaimed : /\ turn.calls = << >> /\ turn.finish = "stop"
                                      /\ turn.content.status # "completed"
           /\ Say("prose", 0).content.status = "prose"
           /\ Absent.status = "absent"
  <1>1. Create(Title) \in ToolCall /\ Get(last.task) \in ToolCall
        /\ last.task \in Nat
    BY TitleFacts DEF TypesInv, Delivery
  <1>2. \A call \in ToolCall :
           /\ Ask(call).finish = "stop" /\ Ask(call).calls # << >>
           /\ Len(Ask(call).calls) = 1 /\ Head(Ask(call).calls) = call
    BY AskIs
  <1>3. /\ Say("completed", last.task).calls = << >>
        /\ Say("completed", last.task).finish = "stop"
        /\ Say("completed", last.task).content.status = "completed"
        /\ Say("completed", last.task).content.task = last.task
    BY <1>1, SayIs, StatusFacts, SMT
  <1>4. /\ Say("unknown", 0).calls = << >> /\ Say("unknown", 0).finish = "stop"
        /\ Say("unknown", 0).content.status = "unknown"
        /\ Say("not_completed", 0).calls = << >>
        /\ Say("not_completed", 0).finish = "stop"
        /\ Say("not_completed", 0).content.status = "not_completed"
        /\ Say("prose", 0).content.status = "prose"
    <2>1. \A word \in Statuses :
             /\ Say(word, 0).calls = << >> /\ Say(word, 0).finish = "stop"
             /\ Say(word, 0).content.status = word
      BY SayIs, StatusFacts
    <2> QED BY <2>1, StatusFacts
  <1>5. \A turn \in Unclaimed : /\ turn.calls = << >> /\ turn.finish = "stop"
                                /\ turn.content.status # "completed"
    BY <1>4 DEF Unclaimed
  <1> QED BY <1>1, <1>2, <1>3, <1>4, <1>5, Zenon DEF Absent

LEMMA InvalidTurn ==
    ASSUME TypesInv, config.who = "invalid-report", NEW turn \in Turns
    PROVE  turn \in {Ask(Create(Title)), Say("prose", 0)}
  <1>1. config.kind = "claims"
    BY RunAssumption DEF RunAssumption, TypesInv, ExperimentConfig
  <1> QED BY <1>1 DEF Turns, ClaimScript

\* A run that goes on has claimed nothing, and leaves the claim alone.
LEMMA SameClaim ==
    ASSUME ClaimInv, config' = config, execution' = execution,
           config.kind = "claims" /\ last'.task # 0 => last'.ok,
           pc' \notin {"evaluate", "done"} => pc \notin {"evaluate", "done"},
           tasks' = tasks \/ pc \notin {"evaluate", "done"}
    PROVE  ClaimInv'
  <1>1. /\ Honest' = Honest
        /\ execution'.content = execution.content
    BY DEF Honest, Repeats
  <1>2. pc \notin {"evaluate", "done"} => execution.content.status # "completed"
    BY DEF ClaimInv, Absent
  <1> QED BY <1>1, <1>2 DEF ClaimInv, Row

\* The call in progress is the first of the run (n = 0), or the second.
InTurn(n) == \/ pc = "tools" /\ calls.tool = n
             \/ pc = "attempt" /\ calls.tool = n + 1

\* The call a fixed caller is waiting for.
LEMMA HonestCall ==
    ASSUME TypesInv, ScriptInv, Honest, pc \in {"tools", "attempt"}
    PROVE  /\ Len(queue) = 1 /\ WellFormed(Head(queue))
           /\ InTurn(0) \/ InTurn(1)
           /\ InTurn(0) =>
                 Head(queue) = Create(Title) /\ Head(queue).name = "create_task"
           /\ InTurn(1) => \E id \in Nat \ {0} :
                 /\ Head(queue) = Get(id) /\ Head(queue).name = "get_task"
                 /\ Head(queue).task = id /\ Stored(id)
  <1>1. Len(queue) = 1 /\ (InTurn(0) \/ InTurn(1)) /\ ~(InTurn(0) /\ InTurn(1))
    BY DEF ScriptInv, TurnsInv, InTurn
  <1>2. InTurn(0) => Head(queue) = Create(Title)
    BY DEF ScriptInv, CreateInv, InTurn
  <1>3. InTurn(1) => \E id \in Nat : Head(queue) = Get(id) /\ Stored(id)
    BY DEF ScriptInv, GetInv, InTurn
  <1>4. \A id \in Nat : Stored(id) => id # 0
    BY DEF Stored
  <1>5. CASE InTurn(0)
    <2>1. Head(queue).name = "create_task" /\ Head(queue).title # BlankTitle
      BY <1>2, <1>5, TitleFacts
    <2> QED BY <1>1, <1>2, <1>5, <2>1 DEF WellFormed
  <1>6. CASE InTurn(1)
    <2>1. PICK id \in Nat : Head(queue) = Get(id) /\ Stored(id)
      BY <1>3, <1>6
    <2>2. /\ Head(queue).name = "get_task" /\ Head(queue).task = id
          /\ id \in Nat \ {0}
      BY <1>4, <2>1, TitleFacts
    <2> QED BY <1>1, <1>6, <2>1, <2>2 DEF WellFormed
  <1> QED BY <1>1, <1>5, <1>6

\* An answer to a fixed caller: a success is about what is stored.
LEMMA HonestAnswer ==
    ASSUME TypesInv, ScriptInv, Honest, pc \in {"tools", "attempt"}, Answered,
           pc = "tools" => calls'.tool = calls.tool + 1,
           pc = "attempt" => calls'.tool = calls.tool,
           calls'.model = calls.model, last'.call = Head(queue),
           last'.ok /\ last'.task # 0 /\ Head(queue).name = "create_task" =>
              Stored(last.task)',
           last'.ok /\ last'.task # 0 /\ Head(queue).name = "get_task" =>
              tasks' = {Row(last'.task)}
    PROVE  (TurnsInv /\ CreateInv /\ GetInv)'
  <1>1. /\ pc' = "caller" /\ config' = config /\ calls'.tool \in {1, 2}
        /\ calls'.tool = 1 =>
              Head(queue) = Create(Title) /\ Head(queue).name = "create_task"
        /\ calls'.tool = 2 => Head(queue).name = "get_task"
    <2>1. /\ InTurn(0) \/ InTurn(1)
          /\ InTurn(0) =>
                Head(queue) = Create(Title) /\ Head(queue).name = "create_task"
          /\ InTurn(1) => Head(queue).name = "get_task"
          /\ Len(queue) = 1
      BY HonestCall
    <2>2. pc' = "caller" /\ config' = config
      BY <2>1 DEF Answered
    <2>3. /\ InTurn(0) => calls'.tool = 1
          /\ InTurn(1) => calls'.tool = 2
      BY DEF InTurn
    <2> QED BY <2>1, <2>2, <2>3
  <1>2. /\ config.who = "workflow" => calls'.model = 0
        /\ config.who = "scripted" => calls'.model = calls'.tool
    BY <1>1 DEF ScriptInv, TurnsInv
  <1>3. TurnsInv'
    BY <1>1, <1>2 DEF TurnsInv
  <1>4. CreateInv'
    BY <1>1 DEF CreateInv
  <1>5. GetInv'
    BY <1>1 DEF GetInv
  <1> QED BY <1>3, <1>4, <1>5

\* A fixed caller that stops, or waits.
LEMMA HonestStop ==
    ASSUME ScriptInv, Honest, config' = config, pc' \in {"evaluate", "done", "broken"},
           calls'.tool = calls.tool,
           config.who = "workflow" => calls'.model = calls.model,
           UNCHANGED <<tasks, task_operations>>
    PROVE  (TurnsInv /\ CreateInv /\ GetInv)'
  <1>1. TurnsInv'
    BY DEF ScriptInv, TurnsInv
  <1>2. CreateInv' /\ GetInv'
    BY DEF CreateInv, GetInv
  <1> QED BY <1>1, <1>2

\* An attempt of a fixed caller to create its task.
LEMMA HonestCreate ==
    ASSUME TypesInv, FlowInv, LedgerInv, ScriptInv, Honest, config' = config,
           AttemptCreate
    PROVE  (TurnsInv /\ CreateInv /\ GetInv)'
  <1>1. /\ Attempting /\ Head(queue).name = "create_task"
        /\ \E t \in Nat, r \in {0, 1} : CreateAttempt(t, r)
    BY AttemptCreateIs
  <1>2. PICK t \in Nat, r \in {0, 1} : CreateAttempt(t, r)
    BY <1>1
  <1>3. /\ pc = "attempt" /\ calls' = calls /\ config.kind = "retries"
        /\ calls.tool = 1 /\ Head(queue) = Create(Title)
    BY <1>1, HonestCall DEF Attempting, InTurn
  <1>4. /\ Head(queue).title = Title /\ fresh \in Nat \ {0}
        /\ config.case # "dropped-write" /\ ~Repeats
    BY <1>3, TitleFacts, HonestFacts DEF TypesInv, StoreType
  <1>5. \/ tasks = {} /\ task_operations = {}
        \/ /\ Protected
           /\ \E id \in Nat \ {0} :
                 /\ tasks = {Row(id)}
                 /\ task_operations =
                       {[operation_id |-> counts.operations,
                         title |-> Title, task_id |-> id]}
    BY <1>3 DEF ScriptInv, CreateInv
  <1>6. /\ tasks' = {Row(t)} /\ t # 0
        /\ Protected => task_operations' =
              {[operation_id |-> counts.operations, title |-> Title,
                task_id |-> t]}
        /\ r = 1 => number = 2
    <2>1. CASE /\ r = 0 /\ t = fresh
               /\ ~Protected \/ Recorded(counts.operations) = {}
               /\ tasks' = tasks \cup
                     {[id |-> fresh, title |-> Head(queue).title]}
               /\ task_operations' =
                     IF Protected
                     THEN task_operations \cup
                            {[operation_id |-> counts.operations,
                              title |-> Head(queue).title, task_id |-> fresh]}
                     ELSE task_operations
      <3>1. tasks = {} /\ task_operations = {}
        <4> SUFFICES ASSUME Protected, NEW id \in Nat \ {0},
                            task_operations =
                               {[operation_id |-> counts.operations,
                                 title |-> Title, task_id |-> id]}
                     PROVE  FALSE
          BY <1>5
        <4>1. [operation_id |-> counts.operations, title |-> Title,
               task_id |-> id] \in Recorded(counts.operations)
          BY DEF Recorded
        <4> QED BY <2>1, <4>1
      <3> QED BY <1>4, <2>1, <3>1 DEF Row
    <2>2. CASE /\ r = 1 /\ Protected /\ number = 2
               /\ \E row \in Recorded(counts.operations) : row.task_id = t
               /\ UNCHANGED <<tasks, task_operations>>
      <3>1. PICK id \in Nat \ {0} :
               /\ tasks = {Row(id)}
               /\ task_operations = {[operation_id |-> counts.operations,
                                      title |-> Title, task_id |-> id]}
        BY <1>5, <2>2 DEF Recorded
      <3>2. t = id
        BY <2>2, <3>1 DEF Recorded
      <3> QED BY <2>2, <3>1, <3>2
    <2> QED BY <1>2, <2>1, <2>2 DEF CreateAttempt
  <1>7. CASE Answered /\ last'.call = Head(queue) /\ (last'.ok => last'.task = t)
    <2>1. last'.ok /\ last'.task # 0 => Stored(last.task)'
      BY <1>6, <1>7 DEF Stored, Row
    <2> QED BY <1>1, <1>3, <1>7, <2>1, HonestAnswer
  <1>8. CASE Retried /\ config.case = "lost-reply-once"
             /\ counts'.operations = counts.operations
    <2>1. /\ pc' = pc /\ queue' = queue /\ last' = last /\ AttemptLimit = 2
      BY <1>8 DEF Retried
    <2>2. Protected /\ Protected'
      BY <1>3, <1>4, <1>8, <2>1, ConfigFacts DEF Protected
    <2>3. TurnsInv'
      BY <1>3, <2>1 DEF ScriptInv, TurnsInv
    <2>4. CreateInv'
      BY <1>3, <1>6, <1>8, <2>1, <2>2 DEF CreateInv, Row
    <2>5. GetInv'
      BY <1>3, <2>1 DEF GetInv
    <2> QED BY <2>3, <2>4, <2>5
  <1> QED BY <1>2, <1>7, <1>8 DEF CreateAttempt, GivenUp, Failed, Tally

\* A protected caller that was told what it needs goes on to the end.
LEMMA RecoveryTurn ==
    ASSUME TypesInv, ScriptInv, Honest, Protected, pc = "caller", Recovered,
           config.kind = "retries", NEW turn \in Turns
    PROVE  turn \in {Ask(Create(Title)), Ask(Get(last.task)),
                     Say("completed", last.task)}
  <1>1. /\ config.who \in {"scripted", "workflow"}
        /\ calls.tool \in {0, 1, 2}
        /\ config.who = "scripted" => calls.model = calls.tool
        /\ calls.tool # 0 => last.ok /\ last.task # 0 /\ last.title = Title
        /\ calls.tool = 2 => last.task = last.call.task
    BY HonestFacts DEF ScriptInv, TurnsInv, Recovered
  <1>2. CASE config.who = "workflow"
    <2>1. turn \in WorkflowStep(calls.tool)
      BY <1>2 DEF Turns
    <2> QED BY <1>1, <2>1 DEF WorkflowStep
  <1>3. CASE config.who = "scripted"
    <2>1. turn \in ResponseScript(calls.model)
      BY <1>3 DEF Turns
    <2>2. CASE calls.tool = 0
      BY <1>1, <1>3, <2>1, <2>2 DEF ResponseScript
    <2>3. CASE calls.tool # 0
      BY <1>1, <1>3, <2>1, <2>3 DEF ResponseScript
    <2> QED BY <2>2, <2>3
  <1> QED BY <1>1, <1>2, <1>3

LEMMA TypesStep == RunInv /\ [Next]_vars => TypesInv'
  <1> SUFFICES ASSUME RunInv, [Next]_vars PROVE TypesInv'
    OBVIOUS
  <1>1. /\ TypesInv /\ FlowInv /\ AccountsInv /\ LedgerInv /\ ClaimInv
        /\ ScriptInv /\ RecoveryInv /\ SuccessMatchesRequest
    BY DEF RunInv
  <1>2. /\ config \in Configs /\ queue \in Seq(ToolCall) /\ last \in Delivery
        /\ pc \in {"caller", "tools", "attempt", "evaluate", "done", "broken"}
        /\ number \in 0 .. 2 /\ consumed \in BOOLEAN
        /\ calls \in [model : 0 .. MaxModelCalls, tool : Nat, executed : Nat]
        /\ counts \in [Counters -> Nat] /\ execution \in Execution
        /\ failures \in 0 .. MaxFailures /\ MaxFailures \in Nat
    BY <1>1, RunAssumption DEF TypesInv, RunAssumption
  <1> USE <1>1
  <1>11. CASE Turn
    <2>1. UNCHANGED <<tasks, task_operations, hot, fresh, effects>>
      BY <1>11, TurnIs
    <2>9. StoreType' /\ effects' \in SUBSET Effect /\ IsFiniteSet(effects')
      BY <2>1, Grown DEF StoreType
    <2>2. /\ pc' \in {"tools", "evaluate"} /\ queue' \in Seq(ToolCall)
          /\ execution' \in Execution
      BY <1>11, <1>2, TurnIs DEF TurnSet
    <2> QED BY <1>11, <2>2, <2>9, <1>2, TurnIs DEF TypesInv
  <1>12. CASE ProviderFails
    <2>1. StoppedBlank
      BY <1>12, StopsAre
    <2>2. UNCHANGED <<tasks, task_operations, hot, fresh, effects>>
      BY <2>1 DEF StoppedBlank
    <2>9. StoreType' /\ effects' \in SUBSET Effect /\ IsFiniteSet(effects')
      BY <2>2, Grown DEF StoreType
    <2> QED BY <2>1, <2>9, <1>2 DEF TypesInv, StoppedBlank
  <1>13. CASE ScriptFails
    <2>1. UNCHANGED <<tasks, task_operations, hot, fresh, effects>>
      BY <1>13 DEF ScriptFails, store
    <2>9. StoreType' /\ effects' \in SUBSET Effect /\ IsFiniteSet(effects')
      BY <2>1, Grown DEF StoreType
    <2> QED BY <1>13, <2>9, <1>2 DEF TypesInv, ScriptFails, local, result
  <1>14. CASE ModelLimit
    <2>1. StoppedBlank
      BY <1>14, StopsAre
    <2>2. UNCHANGED <<tasks, task_operations, hot, fresh, effects>>
      BY <2>1 DEF StoppedBlank
    <2>9. StoreType' /\ effects' \in SUBSET Effect /\ IsFiniteSet(effects')
      BY <2>2, Grown DEF StoreType
    <2> QED BY <2>1, <2>9, <1>2 DEF TypesInv, StoppedBlank
  <1>15. CASE ToolLimit
    <2>1. StoppedBlank
      BY <1>15, StopsAre
    <2>2. UNCHANGED <<tasks, task_operations, hot, fresh, effects>>
      BY <2>1 DEF StoppedBlank
    <2>9. StoreType' /\ effects' \in SUBSET Effect /\ IsFiniteSet(effects')
      BY <2>2, Grown DEF StoreType
    <2> QED BY <2>1, <2>9, <1>2 DEF TypesInv, StoppedBlank
  <1>16. CASE Refuse
    <2>1. UNCHANGED <<tasks, task_operations, hot, fresh, effects>>
      BY <1>16, RefuseIs
    <2>9. StoreType' /\ effects' \in SUBSET Effect /\ IsFiniteSet(effects')
      BY <2>1, Grown DEF StoreType
    <2> QED BY <1>16, <2>9, <1>2, RefuseIs DEF TypesInv, Answered
  <1>17. CASE ExecuteCreate
    <2> DEFINE title == Head(queue).title
    <2>1. /\ ExecutedCall /\ failures' = failures
          /\ fresh' = fresh + 1 /\ UNCHANGED <<task_operations, hot>>
          /\ title \in Titles
          /\ \/ UNCHANGED <<tasks, effects>>
             \/ /\ tasks' = tasks \cup {[id |-> fresh, title |-> title]}
                /\ effects' = effects \cup
                      {[task |-> fresh, operation |-> calls.tool + 1]}
      BY <1>17, ExecuteCreateIs
    <2>2. fresh \in Nat /\ calls.tool + 1 \in Nat
      BY <1>2 DEF TypesInv, StoreType
    <2> HIDE DEF title
    <2>3. tasks' \in SUBSET Task
      BY <2>1, <2>2, Grown
    <2>4. effects' \in SUBSET Effect /\ IsFiniteSet(effects')
      BY <2>1, <2>2, Grown
    <2>5. task_operations' \in SUBSET LedgerRow /\ hot' \in BOOLEAN
          /\ fresh' \in Nat \ {0}
      BY <2>1, Grown
    <2> QED BY <2>1, <2>3, <2>4, <2>5, <1>2
            DEF TypesInv, StoreType, ExecutedCall, Answered
  <1>18. CASE ExecuteGet
    <2>1. /\ ExecutedCall /\ failures' \in 0 .. MaxFailures
          /\ UNCHANGED <<tasks, task_operations, hot, fresh, effects>>
      BY <1>18, <1>2, ExecuteGetIs
    <2>9. StoreType' /\ effects' \in SUBSET Effect /\ IsFiniteSet(effects')
      BY <2>1, Grown DEF StoreType
    <2> QED BY <2>1, <2>9, <1>2 DEF TypesInv, ExecutedCall, Answered
  <1>19. CASE StorageFails
    <2>1. /\ ExecutedCall /\ failures' \in 0 .. MaxFailures
          /\ UNCHANGED <<tasks, task_operations, hot, fresh, effects>>
      BY <1>19, <1>2, StorageFailsIs
    <2>9. StoreType' /\ effects' \in SUBSET Effect /\ IsFiniteSet(effects')
      BY <2>1, Grown DEF StoreType
    <2> QED BY <2>1, <2>9, <1>2 DEF TypesInv, ExecutedCall, Answered
  <1>20. CASE StartOperation
    <2>1. UNCHANGED <<tasks, task_operations, hot, fresh, effects>>
      BY <1>20, StartIs
    <2>9. StoreType' /\ effects' \in SUBSET Effect /\ IsFiniteSet(effects')
      BY <2>1, Grown DEF StoreType
    <2>2. /\ number' \in 0 .. 2 /\ pc' = "attempt"
          /\ calls' \in [model : 0 .. MaxModelCalls, tool : Nat, executed : Nat]
          /\ counts' \in [Counters -> Nat]
          /\ UNCHANGED <<config, queue, last, consumed, execution, failures>>
      BY <1>20, StartIs
    <2> QED BY <2>2, <2>9, <1>2 DEF TypesInv
  <1>21. CASE FailBeforeWrite
    <2>1. UNCHANGED <<tasks, task_operations, hot, fresh, effects, failures>>
          /\ Attempting
      BY <1>21, BeforeWriteIs
    <2>9. StoreType' /\ effects' \in SUBSET Effect /\ IsFiniteSet(effects')
      BY <2>1, Grown DEF StoreType
    <2>7. counts' \in [Counters -> Nat]
      BY <1>21, BeforeWriteIs DEF Tally
    <2>10. \/ Retried
           \/ GivenUp
           \/ Failed /\ consumed' = consumed
           \/ Answered /\ last' \in Delivery /\ consumed' = consumed
      BY <1>21, BeforeWriteIs
    <2>8. /\ queue' \in Seq(ToolCall) /\ last' \in Delivery /\ number' \in 0 .. 2
          /\ consumed' \in BOOLEAN /\ config' = config
          /\ execution' = execution
          /\ pc' \in {"caller", "tools", "attempt"}
      BY <2>1, <2>7, <2>10, AttemptTypes
    <2> QED BY <2>1, <2>7, <2>8, <2>9, <1>2 DEF TypesInv, Attempting
  <1>22. CASE AttemptCreate
    <2> DEFINE title == Head(queue).title
    <2>11. PICK t \in Nat, r \in {0, 1} : CreateAttempt(t, r)
      BY <1>22, AttemptCreateIs
    <2>1. /\ Attempting /\ failures' = failures /\ hot' \in BOOLEAN
          /\ title \in Titles
          /\ effects' = effects \cup
                      {[task |-> t, operation |-> counts.operations]}
          /\ \/ /\ fresh' = fresh + 1
                /\ tasks' = tasks \cup {[id |-> fresh, title |-> title]}
                /\ \/ task_operations' = task_operations \cup
                          {[operation_id |-> counts.operations,
                            title |-> title, task_id |-> fresh]}
                   \/ task_operations' = task_operations
             \/ UNCHANGED <<tasks, task_operations, fresh>>
      BY <1>22, <2>11, AttemptCreateIs DEF CreateAttempt
    <2>2. fresh \in Nat /\ counts.operations \in Nat
      BY CountsAreNumbers DEF TypesInv, StoreType
    <2>7. counts' \in [Counters -> Nat]
      BY <2>11 DEF CreateAttempt, Tally
    <2>10. \/ Retried
           \/ GivenUp
           \/ Failed /\ consumed' = consumed
           \/ Answered /\ last' \in Delivery /\ consumed' = consumed
      BY <2>11 DEF CreateAttempt
    <2>8. /\ queue' \in Seq(ToolCall) /\ last' \in Delivery /\ number' \in 0 .. 2
          /\ consumed' \in BOOLEAN /\ config' = config
          /\ execution' = execution
          /\ pc' \in {"caller", "tools", "attempt"}
      BY <2>1, <2>7, <2>10, AttemptTypes
    <2> HIDE DEF title
    <2>3. effects' \in SUBSET Effect /\ IsFiniteSet(effects')
      BY <2>1, <2>2, Grown
    <2>4. tasks' \in SUBSET Task
      BY <2>1, <2>2, Grown
    <2>5. task_operations' \in SUBSET LedgerRow
      BY <2>1, <2>2, Grown
    <2>6. fresh' \in Nat \ {0}
      BY <2>1, Grown
    <2> QED BY <2>1, <2>3, <2>4, <2>5, <2>6, <2>7, <2>8, <1>2
            DEF TypesInv, StoreType, Attempting
  <1>23. CASE AttemptGet
    <2>1. UNCHANGED <<tasks, task_operations, hot, fresh, effects, failures>>
          /\ Attempting
      BY <1>23, AttemptGetIs
    <2>9. StoreType' /\ effects' \in SUBSET Effect /\ IsFiniteSet(effects')
      BY <2>1, Grown DEF StoreType
    <2>7. counts' \in [Counters -> Nat]
      BY <1>23, AttemptGetIs DEF Tally
    <2>10. \/ Retried
           \/ GivenUp
           \/ Failed /\ consumed' = consumed
           \/ Answered /\ last' \in Delivery /\ consumed' = consumed
      BY <1>23, AttemptGetIs
    <2>8. /\ queue' \in Seq(ToolCall) /\ last' \in Delivery /\ number' \in 0 .. 2
          /\ consumed' \in BOOLEAN /\ config' = config
          /\ execution' = execution
          /\ pc' \in {"caller", "tools", "attempt"}
      BY <2>1, <2>7, <2>10, AttemptTypes
    <2> QED BY <2>1, <2>7, <2>8, <2>9, <1>2 DEF TypesInv, Attempting
  <1>24. CASE AttemptStorageFails
    <2>1. UNCHANGED <<tasks, task_operations, hot, fresh, effects>>
          /\ Attempting /\ failures' \in 0 .. MaxFailures
      BY <1>24, <1>2, AttemptFailsIs
    <2>9. StoreType' /\ effects' \in SUBSET Effect /\ IsFiniteSet(effects')
      BY <2>1, Grown DEF StoreType
    <2>7. counts' \in [Counters -> Nat]
      BY <1>24, AttemptFailsIs DEF Tally
    <2>10. \/ Retried
           \/ GivenUp
           \/ Failed /\ consumed' = consumed
           \/ Answered /\ last' \in Delivery /\ consumed' = consumed
      BY <1>24, AttemptFailsIs
    <2>8. /\ queue' \in Seq(ToolCall) /\ last' \in Delivery /\ number' \in 0 .. 2
          /\ consumed' \in BOOLEAN /\ config' = config
          /\ execution' = execution
          /\ pc' \in {"caller", "tools", "attempt"}
      BY <2>1, <2>7, <2>10, AttemptTypes
    <2> QED BY <2>1, <2>7, <2>8, <2>9, <1>2 DEF TypesInv, Attempting
  <1>25. CASE Evaluate
    <2>1. UNCHANGED <<tasks, task_operations, hot, fresh, effects>>
      BY <1>25, EvaluateIs
    <2>9. StoreType' /\ effects' \in SUBSET Effect /\ IsFiniteSet(effects')
      BY <2>1, Grown DEF StoreType
    <2> QED BY <1>25, <2>9, <1>2, EvaluateIs DEF TypesInv
  <1>26. CASE UNCHANGED vars
    <2>1. UNCHANGED <<tasks, task_operations, hot, fresh, effects>>
      BY <1>26 DEF vars, store
    <2>9. StoreType' /\ effects' \in SUBSET Effect /\ IsFiniteSet(effects')
      BY <2>1, Grown DEF StoreType
    <2> QED BY <1>26, <2>9, <1>2 DEF TypesInv, vars, local, result
  <1> QED
    BY <1>11, <1>12, <1>13, <1>14, <1>15, <1>16, <1>17, <1>18, <1>19,
       <1>20, <1>21, <1>22, <1>23, <1>24, <1>25, <1>26
       DEF Next

LEMMA FlowStep == RunInv /\ [Next]_vars => FlowInv'
  <1> SUFFICES ASSUME RunInv, [Next]_vars PROVE FlowInv'
    OBVIOUS
  <1>1. /\ TypesInv /\ FlowInv /\ AccountsInv /\ LedgerInv /\ ClaimInv
        /\ ScriptInv /\ RecoveryInv /\ SuccessMatchesRequest
    BY DEF RunInv
  <1>2. /\ calls.tool \in Nat /\ calls.executed \in Nat /\ MaxToolCalls \in Nat
        /\ calls.executed <= calls.tool
        /\ config.who # "workflow" => calls.tool <= MaxToolCalls
    BY <1>1, RunAssumption DEF TypesInv, FlowInv, RunAssumption
  <1>3. config' = config /\ AttemptLimit' = AttemptLimit
    BY <1>1, ConfigStays
  <1> USE <1>1
  <1>11. CASE Turn
    <2>1. /\ pc = "caller" /\ number' = number /\ evaluation' = evaluation
          /\ calls'.tool = calls.tool /\ calls'.executed = calls.executed
      BY <1>11, TurnIs
    <2>2. \/ pc' = "tools" /\ queue' # << >>
          \/ pc' = "evaluate"
      BY <1>11, TurnIs
    <2> QED BY <1>2, <1>3, <2>1, <2>2 DEF FlowInv
  <1>12. CASE ProviderFails
    <2>1. StoppedBlank /\ pc \in {"caller", "tools"}
      BY <1>12, StopsAre
    <2> QED BY <1>2, <1>3, <2>1 DEF FlowInv, StoppedBlank
  <1>13. CASE ScriptFails
    BY <1>13, <1>2, <1>3 DEF FlowInv, ScriptFails, local, result
  <1>14. CASE ModelLimit
    <2>1. StoppedBlank /\ pc \in {"caller", "tools"}
      BY <1>14, StopsAre
    <2> QED BY <1>2, <1>3, <2>1 DEF FlowInv, StoppedBlank
  <1>15. CASE ToolLimit
    <2>1. StoppedBlank /\ pc \in {"caller", "tools"}
      BY <1>15, StopsAre
    <2> QED BY <1>2, <1>3, <2>1 DEF FlowInv, StoppedBlank
  <1>16. CASE Refuse
    <2>1. /\ Answered /\ pc = "tools"
          /\ calls'.tool = calls.tool + 1 /\ calls'.executed = calls.executed
          /\ config.who # "workflow" => calls.tool < MaxToolCalls
      BY <1>16, RefuseIs
    <2> QED BY <2>1, <1>2, AnswerFlow
  <1>17. CASE ExecuteCreate
    <2>1. ExecutedCall
      BY <1>17, ExecuteCreateIs
    <2> QED BY <2>1, <1>2, AnswerFlow DEF ExecutedCall
  <1>18. CASE ExecuteGet
    <2>1. ExecutedCall
      BY <1>18, ExecuteGetIs
    <2> QED BY <2>1, <1>2, AnswerFlow DEF ExecutedCall
  <1>19. CASE StorageFails
    <2>1. ExecutedCall
      BY <1>19, StorageFailsIs
    <2> QED BY <2>1, <1>2, AnswerFlow DEF ExecutedCall
  <1>20. CASE StartOperation
    <2>1. /\ pc = "tools" /\ queue # << >> /\ WellFormed(Head(queue))
          /\ config.kind = "retries" /\ queue' = queue
          /\ config.who # "workflow" => calls.tool < MaxToolCalls
          /\ calls'.tool = calls.tool + 1 /\ calls'.executed = calls.executed + 1
          /\ number' = 1 /\ pc' = "attempt" /\ evaluation' = evaluation
      BY <1>20, StartIs
    <2>2. WellFormed(Head(queue))' /\ AttemptLimit' \in {1, 2}
      BY <1>3, <2>1, ConfigFacts DEF WellFormed
    <2> QED BY <2>1, <2>2, <1>2, <1>3 DEF FlowInv
  <1>21. CASE FailBeforeWrite
    <2>1. Attempting
      BY <1>21, BeforeWriteIs
    <2>2. \/ Retried /\ Head(queue).name = "create_task"
          \/ GivenUp
          \/ Failed /\ consumed' = consumed
          \/ Answered /\ last' \in Delivery /\ consumed' = consumed
      BY <1>21, BeforeWriteIs
    <2> QED BY <2>1, <2>2, AttemptFlow
  <1>22. CASE AttemptCreate
    <2>1. Attempting
      BY <1>22, AttemptCreateIs
    <2>2. \/ Retried /\ Head(queue).name = "create_task"
          \/ GivenUp
          \/ Failed /\ consumed' = consumed
          \/ Answered /\ last' \in Delivery /\ consumed' = consumed
      <3>1. PICK t \in Nat, r \in {0, 1} : CreateAttempt(t, r)
        BY <1>22, AttemptCreateIs
      <3>2. Head(queue).name = "create_task"
        BY <1>22, AttemptCreateIs
      <3> QED BY <3>1, <3>2 DEF CreateAttempt
    <2> QED BY <2>1, <2>2, AttemptFlow
  <1>23. CASE AttemptGet
    <2>1. Attempting
      BY <1>23, AttemptGetIs
    <2>2. \/ Retried /\ Head(queue).name = "create_task"
          \/ GivenUp
          \/ Failed /\ consumed' = consumed
          \/ Answered /\ last' \in Delivery /\ consumed' = consumed
      BY <1>23, AttemptGetIs
    <2> QED BY <2>1, <2>2, AttemptFlow
  <1>24. CASE AttemptStorageFails
    <2>1. Attempting
      BY <1>24, AttemptFailsIs
    <2>2. \/ Retried /\ Head(queue).name = "create_task"
          \/ GivenUp
          \/ Failed /\ consumed' = consumed
          \/ Answered /\ last' \in Delivery /\ consumed' = consumed
      BY <1>24, AttemptFailsIs
    <2> QED BY <2>1, <2>2, AttemptFlow
  <1>25. CASE Evaluate
    <2>1. /\ pc = "evaluate" /\ pc' = "done" /\ number' = number
          /\ tasks' = tasks /\ execution' = execution /\ calls' = calls
          /\ \E unreadable \in BOOLEAN :
                /\ evaluation' = {EvaluateRun(InspectState(tasks, unreadable),
                                              Title, execution)}
                /\ unreadable => failures' # 0
      BY <1>25, EvaluateIs
    <2>2. \E unreadable \in BOOLEAN :
             /\ evaluation' = {EvaluateRun(InspectState(tasks', unreadable),
                                           Title, execution')}
             /\ failures' = 0 => ~unreadable
      BY <2>1
    <2> QED BY <1>2, <1>3, <2>1, <2>2 DEF FlowInv
  <1>26. CASE UNCHANGED vars
    <2>1. UNCHANGED <<tasks, config, pc, queue, number, consumed, calls, execution,
                      evaluation, failures>>
      BY <1>26 DEF vars, store, local, result
    <2> QED BY <1>1, <2>1 DEF FlowInv, WellFormed, AttemptLimit
  <1> QED
    BY <1>11, <1>12, <1>13, <1>14, <1>15, <1>16, <1>17, <1>18, <1>19,
       <1>20, <1>21, <1>22, <1>23, <1>24, <1>25, <1>26
       DEF Next

LEMMA AccountsStep == RunInv /\ [Next]_vars => AccountsInv'
  <1> SUFFICES ASSUME RunInv, [Next]_vars PROVE AccountsInv'
    OBVIOUS
  <1>1. /\ TypesInv /\ FlowInv /\ AccountsInv /\ LedgerInv /\ ClaimInv
        /\ ScriptInv /\ RecoveryInv /\ SuccessMatchesRequest
    BY DEF RunInv
  <1>2. config' = config /\ consumed \in BOOLEAN
    BY <1>1, ConfigStays DEF TypesInv
  <1> USE <1>1
  <1>11. CASE Turn
    BY <1>1, <1>11, TurnIs, SameAccounts
  <1>12. CASE ProviderFails
    BY <1>1, <1>12, StopsAre, SameAccounts DEF StoppedBlank
  <1>13. CASE ScriptFails
    BY <1>1, <1>13, SameAccounts DEF ScriptFails, local
  <1>14. CASE ModelLimit
    BY <1>1, <1>14, StopsAre, SameAccounts DEF StoppedBlank
  <1>15. CASE ToolLimit
    BY <1>1, <1>15, StopsAre, SameAccounts DEF StoppedBlank
  <1>16. CASE Refuse
    BY <1>1, <1>16, ExecutedAccounts
  <1>17. CASE ExecuteCreate
    BY <1>1, <1>17, ExecuteCreateIs, ExecutedAccounts
  <1>18. CASE ExecuteGet
    BY <1>1, <1>18, ExecuteGetIs, ExecutedAccounts
  <1>19. CASE StorageFails
    BY <1>1, <1>19, StorageFailsIs, ExecutedAccounts
  <1>20. CASE StartOperation
    <2>1. /\ pc = "tools" /\ config.kind = "retries"
          /\ calls'.tool = calls.tool + 1 /\ calls'.executed = calls.executed + 1
          /\ number' = 1 /\ pc' = "attempt" /\ consumed' = consumed
          /\ counts'.operations = counts.operations + 1
          /\ counts'.attempts = counts.attempts
          /\ counts'.retries = counts.retries
          /\ counts'.entries = counts.entries
          /\ counts'.replayed = counts.replayed
          /\ counts'.delivery_errors = counts.delivery_errors
          /\ counts'.faults = counts.faults
      BY <1>20, StartIs
    <2>2. /\ counts.operations \in Nat /\ counts.attempts \in Nat
          /\ counts.retries \in Nat
      BY CountsAreNumbers
    <2> QED BY <1>2, <2>1, <2>2
            DEF AccountsInv, InProgress, AttemptLimit, Protected
  <1>21. CASE FailBeforeWrite
    <2>1. /\ Attempting /\ ~consumed /\ config.case # "retry-healthy"
      BY <1>21, BeforeWriteIs
    <2>2. CASE GivenUp /\ Tally(0, 0, 1, 0)
      <3>1. /\ Answered /\ consumed' = IF 1 = 1 THEN TRUE ELSE consumed
        BY <2>2 DEF GivenUp, Failed
      <3> QED BY <1>2, <2>1, <2>2, <3>1, AttemptAccounts
    <2>3. CASE Retried /\ Tally(0, 0, 1, 1)
      BY <1>2, <2>1, <2>3, AttemptAccounts
    <2> QED BY <1>21, <2>2, <2>3, BeforeWriteIs
  <1>22. CASE AttemptCreate
    <2>1. Attempting
      BY <1>22, AttemptCreateIs
    <2>7. PICK t \in Nat, r \in {0, 1} : CreateAttempt(t, r)
      BY <1>22, AttemptCreateIs
    <2>2. /\ r = 1 => Protected
          /\ \/ /\ config.case = "lost-reply-once" /\ ~consumed
                /\ \/ Retried /\ Tally(1, r, 1, 1)
                   \/ GivenUp /\ Tally(1, r, 1, 0)
             \/ consumed' = consumed /\ Answered /\ Tally(1, r, 0, 0)
      BY <2>7 DEF CreateAttempt
    <2>3. r <= 1
      OBVIOUS
    <2>4. CASE config.case = "lost-reply-once" /\ ~consumed
                 /\ Retried /\ Tally(1, r, 1, 1)
      BY <1>2, <2>1, <2>2, <2>3, <2>4, AttemptAccounts
    <2>5. CASE config.case = "lost-reply-once" /\ ~consumed
                 /\ GivenUp /\ Tally(1, r, 1, 0)
      <3>1. /\ Answered /\ consumed' = IF 1 = 1 THEN TRUE ELSE consumed
        BY <2>5 DEF GivenUp, Failed
      <3> QED BY <1>2, <2>1, <2>2, <2>3, <2>5, <3>1, AttemptAccounts
    <2>6. CASE consumed' = consumed /\ Answered /\ Tally(1, r, 0, 0)
      <3>1. consumed' = IF 0 = 1 THEN TRUE ELSE consumed
        BY <1>2, <2>6
      <3> QED BY <1>2, <2>1, <2>2, <2>3, <2>6, <3>1, AttemptAccounts
    <2> QED BY <2>2, <2>4, <2>5, <2>6
  <1>23. CASE AttemptGet
    <2>1. Attempting /\ consumed' = consumed /\ Answered /\ Tally(1, 0, 0, 0)
      BY <1>23, AttemptGetIs
    <2>2. consumed' = IF 0 = 1 THEN TRUE ELSE consumed
      BY <1>2, <2>1
    <2> QED BY <1>2, <2>1, <2>2, AttemptAccounts
  <1>24. CASE AttemptStorageFails
    <2>1. Attempting /\ consumed' = consumed /\ Answered /\ Tally(1, 0, 0, 0)
      BY <1>24, AttemptFailsIs DEF Failed
    <2>2. consumed' = IF 0 = 1 THEN TRUE ELSE consumed
      BY <1>2, <2>1
    <2> QED BY <1>2, <2>1, <2>2, AttemptAccounts
  <1>25. CASE Evaluate
    BY <1>1, <1>25, EvaluateIs, SameAccounts
  <1>26. CASE UNCHANGED vars
    BY <1>1, <1>26, SameAccounts DEF vars, local
  <1> QED
    BY <1>11, <1>12, <1>13, <1>14, <1>15, <1>16, <1>17, <1>18, <1>19,
       <1>20, <1>21, <1>22, <1>23, <1>24, <1>25, <1>26
       DEF Next

LEMMA LedgerStep == RunInv /\ [Next]_vars => LedgerInv'
  <1> SUFFICES ASSUME RunInv, [Next]_vars PROVE LedgerInv'
    OBVIOUS
  <1>1. /\ TypesInv /\ FlowInv /\ AccountsInv /\ LedgerInv /\ ClaimInv
        /\ ScriptInv /\ RecoveryInv /\ SuccessMatchesRequest
    BY DEF RunInv
  <1>2. /\ config' = config /\ calls.tool \in Nat
        /\ Protected' = Protected /\ Repeats' = Repeats
    BY <1>1, ConfigStays DEF TypesInv
  <1>3. \A n \in {calls.tool, calls.tool + 1} : calls.tool <= n /\ n \in Nat
    BY <1>2
  <1> USE <1>1
  <1>11. CASE Turn
    <2>1. /\ UNCHANGED <<effects, tasks, task_operations>>
          /\ calls'.tool \in {calls.tool, calls.tool + 1}
          /\ config.kind = "retries" => counts'.operations = counts.operations
          /\ \/ pc' # "attempt"
             \/ pc = "attempt" /\ number' = number /\ queue' = queue
      BY <1>1, <1>11, TurnIs
    <2> QED BY <1>1, <1>2, <1>3, <2>1, SameLedger
  <1>12. CASE ProviderFails
    <2>1. /\ UNCHANGED <<effects, tasks, task_operations>>
          /\ calls'.tool \in {calls.tool, calls.tool + 1}
          /\ config.kind = "retries" => counts'.operations = counts.operations
          /\ \/ pc' # "attempt"
             \/ pc = "attempt" /\ number' = number /\ queue' = queue
      BY <1>1, <1>12, StopsAre DEF StoppedBlank
    <2> QED BY <1>1, <1>2, <1>3, <2>1, SameLedger
  <1>13. CASE ScriptFails
    <2>1. /\ UNCHANGED <<effects, tasks, task_operations>>
          /\ calls'.tool \in {calls.tool, calls.tool + 1}
          /\ config.kind = "retries" => counts'.operations = counts.operations
          /\ \/ pc' # "attempt"
             \/ pc = "attempt" /\ number' = number /\ queue' = queue
      BY <1>1, <1>13, Zenon DEF ScriptFails, store
    <2> QED BY <1>1, <1>2, <1>3, <2>1, SameLedger
  <1>14. CASE ModelLimit
    <2>1. /\ UNCHANGED <<effects, tasks, task_operations>>
          /\ calls'.tool \in {calls.tool, calls.tool + 1}
          /\ config.kind = "retries" => counts'.operations = counts.operations
          /\ \/ pc' # "attempt"
             \/ pc = "attempt" /\ number' = number /\ queue' = queue
      BY <1>1, <1>14, StopsAre DEF StoppedBlank
    <2> QED BY <1>1, <1>2, <1>3, <2>1, SameLedger
  <1>15. CASE ToolLimit
    <2>1. /\ UNCHANGED <<effects, tasks, task_operations>>
          /\ calls'.tool \in {calls.tool, calls.tool + 1}
          /\ config.kind = "retries" => counts'.operations = counts.operations
          /\ \/ pc' # "attempt"
             \/ pc = "attempt" /\ number' = number /\ queue' = queue
      BY <1>1, <1>15, StopsAre DEF StoppedBlank
    <2> QED BY <1>1, <1>2, <1>3, <2>1, SameLedger
  <1>16. CASE Refuse
    <2>1. /\ UNCHANGED <<effects, tasks, task_operations>>
          /\ calls'.tool \in {calls.tool, calls.tool + 1}
          /\ config.kind = "retries" => counts'.operations = counts.operations
          /\ \/ pc' # "attempt"
             \/ pc = "attempt" /\ number' = number /\ queue' = queue
      BY <1>1, <1>16, RefuseIs DEF Answered
    <2> QED BY <1>1, <1>2, <1>3, <2>1, SameLedger
  <1>17. CASE ExecuteCreate
    <2> DEFINE op == calls.tool + 1
               e0 == [task |-> fresh, operation |-> op]
    <2>1. /\ ExecutedCall /\ task_operations' = task_operations
          /\ \/ UNCHANGED <<tasks, effects>>
             \/ effects' = effects \cup {e0}
      BY <1>1, <1>17, ExecuteCreateIs
    <2>2. /\ config.kind # "retries" /\ calls'.tool = op /\ pc' # "attempt"
          /\ ~Protected /\ ~Repeats
      BY <1>1, <2>1, ConfigFacts DEF ExecutedCall, Answered
    <2>3. CASE UNCHANGED <<tasks, effects>>
      <3>1. calls.tool <= calls'.tool /\ calls'.tool \in Nat
        BY <1>2, <2>2
      <3> HIDE DEF op
      <3> QED BY <1>1, <1>2, <2>1, <2>2, <2>3, <3>1, SameLedger
    <2>4. CASE effects' = effects \cup {e0}
      <3>1. e0.operation = op /\ op \in Nat /\ calls.tool < op
        BY <1>2
      <3>2. \A e \in effects : e.operation <= calls.tool /\ e.operation \in Nat
        BY <1>1, <2>2, EffectFacts DEF LedgerInv
      <3>3. \A e, f \in effects : e.operation = f.operation => e = f
        BY <1>1, <2>2 DEF LedgerInv
      <3> HIDE DEF e0, op
      <3>4. \A e \in effects' : e.operation <= calls'.tool
        BY <1>2, <2>2, <2>4, <3>1, <3>2
      <3>5. \A e \in effects : e.operation # op
        BY <1>2, <3>1, <3>2
      <3>6. \A e, f \in effects' : e.operation = f.operation => e = f
        BY <2>4, <3>1, <3>3, <3>5
      <3> QED BY <1>2, <2>2, <3>4, <3>6 DEF LedgerInv
    <2> QED BY <2>1, <2>3, <2>4
  <1>18. CASE ExecuteGet
    <2>1. /\ UNCHANGED <<effects, tasks, task_operations>>
          /\ calls'.tool \in {calls.tool, calls.tool + 1}
          /\ config.kind = "retries" => counts'.operations = counts.operations
          /\ \/ pc' # "attempt"
             \/ pc = "attempt" /\ number' = number /\ queue' = queue
      BY <1>1, <1>18, ExecuteGetIs DEF ExecutedCall, Answered
    <2> QED BY <1>1, <1>2, <1>3, <2>1, SameLedger
  <1>19. CASE StorageFails
    <2>1. /\ UNCHANGED <<effects, tasks, task_operations>>
          /\ calls'.tool \in {calls.tool, calls.tool + 1}
          /\ config.kind = "retries" => counts'.operations = counts.operations
          /\ \/ pc' # "attempt"
             \/ pc = "attempt" /\ number' = number /\ queue' = queue
      BY <1>1, <1>19, StorageFailsIs DEF ExecutedCall, Answered
    <2> QED BY <1>1, <1>2, <1>3, <2>1, SameLedger
  <1>20. CASE StartOperation
    <2> DEFINE op == counts'.operations
    <2>1. /\ config.kind = "retries" /\ number' = 1 /\ pc' = "attempt"
          /\ UNCHANGED <<tasks, task_operations, effects>>
          /\ counts'.operations = counts.operations + 1
      BY <1>1, <1>20, StartIs
    <2>2. counts.operations \in Nat /\ op \in Nat /\ counts.operations < op
      BY <1>1, <2>1, CountsAreNumbers
    <2>3. \A e \in effects : e.operation <= counts.operations /\ e.operation \in Nat
      BY <1>1, <2>1, EffectFacts DEF LedgerInv
    <2>4. Protected => \A row \in task_operations :
             row.operation_id <= counts.operations /\ row.operation_id \in Nat
      BY <1>1 DEF LedgerInv, TypesInv, StoreType, LedgerRow
    <2> HIDE DEF op
    <2>5. \A e \in effects : e.operation <= op /\ e.operation # op
      BY <2>2, <2>3
    <2>6. Protected => \A row \in task_operations :
             row.operation_id <= op /\ row.operation_id # op
      BY <2>2, <2>4
    <2>7. EffectsOf(counts.operations)' = {}
      BY <2>1, <2>5 DEF EffectsOf, op
    <2>8. Protected => Recorded(counts.operations)' = {}
      BY <2>1, <2>6 DEF Recorded, op
    <2>9. Cardinality(EffectsOf(counts.operations)') = 0
      BY <2>7, FS_EmptySet
    <2>10. Repeats => \A n \in Nat : Cardinality(EffectsOf(n)') <= 2
      BY <1>1, <2>1 DEF LedgerInv, EffectsOf
    <2> QED BY <1>1, <1>2, <2>1, <2>5, <2>6, <2>7, <2>8, <2>9, <2>10
            DEF LedgerInv, op
  <1>21. CASE FailBeforeWrite
    <2>1. /\ UNCHANGED <<effects, tasks, task_operations>> /\ Attempting
          /\ config.case = "before-write-once"
          /\ Retried \/ (GivenUp /\ Answered)
          /\ counts'.operations = counts.operations
      BY <1>1, <1>21, BeforeWriteIs DEF Tally, GivenUp, Failed
    <2>2. calls' = calls /\ ~Repeats
      BY <2>1 DEF Attempting, Repeats
    <2>3. CASE GivenUp /\ Answered
      <3>1. pc' # "attempt"
        BY <2>3 DEF Answered
      <3> QED BY <1>1, <1>2, <1>3, <2>1, <2>2, <3>1, SameLedger
    <2>4. CASE Retried
      <3>1. /\ pc = "attempt" /\ number = 1 /\ number' = 2 /\ queue' = queue
            /\ config.kind = "retries"
        BY <2>1, <2>4 DEF Retried, Attempting
      <3>2. EffectsOf(counts.operations)' = {}
        BY <1>1, <2>1, <2>2, <3>1 DEF LedgerInv, EffectsOf
      <3>3. Protected => Recorded(counts.operations)' = {}
        <4>1. Protected => \A row \in Recorded(counts.operations) : number = 2
          BY <1>1, <3>1 DEF LedgerInv
        <4>2. Protected => Recorded(counts.operations) = {}
          BY <3>1, <4>1
        <4> QED BY <2>1, <4>2 DEF Recorded
      <3>4. \A e \in effects' : e.operation <= counts'.operations
        BY <1>1, <2>1, <3>1 DEF LedgerInv
      <3> QED BY <1>1, <1>2, <2>1, <2>2, <3>1, <3>2, <3>3, <3>4 DEF LedgerInv
    <2> QED BY <2>1, <2>3, <2>4
  <1>22. CASE AttemptCreate
    BY <1>1, <1>22, CreateLedger
  <1>23. CASE AttemptGet
    <2>1. /\ UNCHANGED <<effects, tasks, task_operations>>
          /\ calls'.tool \in {calls.tool, calls.tool + 1}
          /\ config.kind = "retries" => counts'.operations = counts.operations
          /\ \/ pc' # "attempt"
             \/ pc = "attempt" /\ number' = number /\ queue' = queue
      BY <1>1, <1>23, AttemptGetIs DEF Attempting, Answered, Tally
    <2> QED BY <1>1, <1>2, <1>3, <2>1, SameLedger
  <1>24. CASE AttemptStorageFails
    <2>1. /\ UNCHANGED <<effects, tasks, task_operations>>
          /\ calls'.tool \in {calls.tool, calls.tool + 1}
          /\ config.kind = "retries" => counts'.operations = counts.operations
          /\ \/ pc' # "attempt"
             \/ pc = "attempt" /\ number' = number /\ queue' = queue
      BY <1>1, <1>24, AttemptFailsIs DEF Attempting, Failed, Answered, Tally
    <2> QED BY <1>1, <1>2, <1>3, <2>1, SameLedger
  <1>25. CASE Evaluate
    <2>1. /\ UNCHANGED <<effects, tasks, task_operations>>
          /\ calls'.tool \in {calls.tool, calls.tool + 1}
          /\ config.kind = "retries" => counts'.operations = counts.operations
          /\ \/ pc' # "attempt"
             \/ pc = "attempt" /\ number' = number /\ queue' = queue
      BY <1>1, <1>25, EvaluateIs
    <2> QED BY <1>1, <1>2, <1>3, <2>1, SameLedger
  <1>26. CASE UNCHANGED vars
    <2>1. /\ UNCHANGED <<effects, tasks, task_operations>>
          /\ calls'.tool \in {calls.tool, calls.tool + 1}
          /\ config.kind = "retries" => counts'.operations = counts.operations
          /\ \/ pc' # "attempt"
             \/ pc = "attempt" /\ number' = number /\ queue' = queue
      BY <1>1, <1>26, Zenon DEF vars, store, local
    <2> QED BY <1>1, <1>2, <1>3, <2>1, SameLedger
  <1> QED
    BY <1>11, <1>12, <1>13, <1>14, <1>15, <1>16, <1>17, <1>18, <1>19,
       <1>20, <1>21, <1>22, <1>23, <1>24, <1>25, <1>26
       DEF Next

LEMMA MatchStep == RunInv /\ [Next]_vars => SuccessMatchesRequest'
  <1> SUFFICES ASSUME RunInv, [Next]_vars PROVE SuccessMatchesRequest'
    OBVIOUS
  <1>1. /\ TypesInv /\ FlowInv /\ AccountsInv /\ LedgerInv /\ ClaimInv
        /\ ScriptInv /\ RecoveryInv /\ SuccessMatchesRequest
    BY DEF RunInv
  <1>2. config' = config /\ config.kind \in {"claims", "responses", "retries"}
        /\ (config.kind = "responses" =>
               config.policy \in {"pass-through", "validated"})
    BY <1>1, ConfigStays, ConfigFacts
  <1> USE <1>1
  <1>11. CASE Turn
    <2>1. last' = last /\ tasks \subseteq tasks'
      BY <1>1, <1>11, TurnIs
    <2> QED BY <1>1, <1>2, <2>1, SameMatch
  <1>12. CASE ProviderFails
    <2>1. last' = last /\ tasks \subseteq tasks'
      BY <1>1, <1>12, StopsAre DEF StoppedBlank
    <2> QED BY <1>1, <1>2, <2>1, SameMatch
  <1>13. CASE ScriptFails
    <2>1. last' = last /\ tasks \subseteq tasks'
      BY <1>1, <1>13, Zenon DEF ScriptFails, store, local
    <2> QED BY <1>1, <1>2, <2>1, SameMatch
  <1>14. CASE ModelLimit
    <2>1. last' = last /\ tasks \subseteq tasks'
      BY <1>1, <1>14, StopsAre DEF StoppedBlank
    <2> QED BY <1>1, <1>2, <2>1, SameMatch
  <1>15. CASE ToolLimit
    <2>1. last' = last /\ tasks \subseteq tasks'
      BY <1>1, <1>15, StopsAre DEF StoppedBlank
    <2> QED BY <1>1, <1>2, <2>1, SameMatch
  <1>16. CASE Refuse
    <2>1. ~last'.ok
      BY <1>1, <1>16, RefuseIs
    <2> QED BY <2>1 DEF SuccessMatchesRequest
  <1>17. CASE ExecuteCreate
    <2> DEFINE call == Head(queue)
               row == [id |-> fresh, title |-> call.title]
    <2>1. /\ config.kind # "retries" /\ call.name = "create_task"
          /\ last'.call = call
          /\ config.kind = "responses" /\ config.policy = "validated"
               /\ last'.ok => last'.task = fresh /\ last'.title = call.title
          /\ config.case # "dropped-write" => tasks' = tasks \cup {row}
      BY <1>1, <1>17, ExecuteCreateIs DEF ExecutedCall
    <2>2. config.case # "dropped-write" => row \in tasks'
      BY <2>1
    <2> HIDE DEF call
    <2>3. CASE \/ config.kind = "claims"
               \/ config.kind = "responses" /\ config.policy = "pass-through"
               \/ ~last'.ok
      BY <1>2, <2>3 DEF SuccessMatchesRequest
    <2>4. CASE /\ config.kind = "responses" /\ config.policy = "validated"
               /\ last'.ok
      <3>1. /\ last'.call.name = "create_task" /\ last'.title = last'.call.title
            /\ [id |-> last'.task, title |-> last'.title] = row
        BY <2>1, <2>4
      <3> HIDE DEF row
      <3> QED BY <1>2, <2>2, <3>1 DEF SuccessMatchesRequest
    <2> QED BY <1>2, <2>1, <2>3, <2>4
  <1>18. CASE ExecuteGet
    <2> DEFINE id == Head(queue).task
    <2>1. /\ config.kind # "retries" /\ id \in Nat \ {0} /\ last'.call = Get(id)
          /\ config.kind = "responses" /\ config.policy = "validated"
               /\ last'.ok => last'.task \in {0, id}
      BY <1>1, <1>18, ExecuteGetIs DEF ExecutedCall
    <2> HIDE DEF id
    <2>2. last'.call.name = "get_task" /\ last'.call.task = id
      BY <2>1, TitleFacts
    <2> QED BY <1>2, <2>1, <2>2 DEF SuccessMatchesRequest
  <1>19. CASE StorageFails
    <2>1. ~last'.ok
      BY <1>1, <1>19, StorageFailsIs
    <2> QED BY <2>1 DEF SuccessMatchesRequest
  <1>20. CASE StartOperation
    <2>1. last' = last /\ tasks \subseteq tasks'
      BY <1>1, <1>20, StartIs
    <2> QED BY <1>1, <1>2, <2>1, SameMatch
  <1>21. CASE FailBeforeWrite
    <2>1. tasks' = tasks /\ (last' = last \/ ~last'.ok)
      BY <1>1, <1>21, BeforeWriteIs DEF Retried, GivenUp, Failed
    <2>2. CASE last' = last
      BY <1>1, <1>2, <2>1, <2>2, SameMatch
    <2>3. CASE ~last'.ok
      BY <2>3 DEF SuccessMatchesRequest
    <2> QED BY <2>1, <2>2, <2>3
  <1>22. CASE AttemptCreate
    <2> DEFINE call == Head(queue)
    <2>1. PICK t \in Nat, r \in {0, 1} : CreateAttempt(t, r)
      BY <1>1, <1>22, AttemptCreateIs
    <2>2. /\ [id |-> t, title |-> call.title] \in tasks'
          /\ tasks \subseteq tasks'
          /\ \/ last' = last
             \/ ~last'.ok
             \/ last'.call = call /\ last'.task = t /\ last'.title = call.title
      BY <2>1 DEF CreateAttempt, Retried, GivenUp, Failed
    <2>3. call.name = "create_task"
      BY <1>1, <1>22, AttemptCreateIs
    <2> HIDE DEF call
    <2>4. CASE last' = last
      BY <1>1, <1>2, <2>2, <2>4, SameMatch
    <2>5. CASE ~last'.ok
      BY <2>5 DEF SuccessMatchesRequest
    <2>6. CASE last'.call = call /\ last'.task = t /\ last'.title = call.title
      BY <2>2, <2>3, <2>6 DEF SuccessMatchesRequest
    <2> QED BY <2>2, <2>4, <2>5, <2>6
  <1>23. CASE AttemptGet
    <2> DEFINE id == Head(queue).task
    <2>1. id \in Nat /\ last'.call = Get(id) /\ last'.task \in {0, id}
      BY <1>1, <1>23, AttemptGetIs
    <2> HIDE DEF id
    <2>2. last'.call.name = "get_task" /\ last'.call.task = id
      BY <2>1, TitleFacts
    <2> QED BY <2>1, <2>2 DEF SuccessMatchesRequest
  <1>24. CASE AttemptStorageFails
    <2>1. ~last'.ok
      BY <1>1, <1>24, AttemptFailsIs DEF Failed
    <2> QED BY <2>1 DEF SuccessMatchesRequest
  <1>25. CASE Evaluate
    <2>1. last' = last /\ tasks \subseteq tasks'
      BY <1>1, <1>25, EvaluateIs
    <2> QED BY <1>1, <1>2, <2>1, SameMatch
  <1>26. CASE UNCHANGED vars
    <2>1. last' = last /\ tasks \subseteq tasks'
      BY <1>1, <1>26, Zenon DEF vars, store, local
    <2> QED BY <1>1, <1>2, <2>1, SameMatch
  <1> QED
    BY <1>11, <1>12, <1>13, <1>14, <1>15, <1>16, <1>17, <1>18, <1>19,
       <1>20, <1>21, <1>22, <1>23, <1>24, <1>25, <1>26
       DEF Next

LEMMA ClaimStep == RunInv /\ [Next]_vars => ClaimInv'
  <1> SUFFICES ASSUME RunInv, [Next]_vars PROVE ClaimInv'
    OBVIOUS
  <1>1. /\ TypesInv /\ FlowInv /\ AccountsInv /\ LedgerInv /\ ClaimInv
        /\ ScriptInv /\ RecoveryInv /\ SuccessMatchesRequest
    BY DEF RunInv
  <1>2. config' = config /\ Honest' = Honest
    BY <1>1, ConfigStays
  <1>3. config.kind = "claims" /\ last.task # 0 => last.ok
    BY <1>1 DEF ClaimInv
  <1> USE <1>1
  <1>11. CASE Turn
    <2>1. /\ pc = "caller" /\ UNCHANGED <<tasks, last>>
          /\ execution.content = Absent
      BY <1>1, <1>11, TurnIs DEF ClaimInv
    <2>2. PICK turn \in Turns :
             /\ turn \in TurnSet
             /\ \/ /\ turn.calls # << >> /\ turn.finish = "stop"
                   /\ pc' = "tools" /\ queue' = turn.calls
                   /\ execution' = execution
                \/ /\ pc' = "evaluate" /\ queue' = queue
                   /\ execution' \in Execution
                   /\ \/ /\ turn.finish = "length"
                         /\ execution'.status = "protocol_error"
                         /\ execution'.content \in {turn.content, Absent}
                      \/ /\ turn.finish = "stop" /\ turn.calls = << >>
                         /\ execution'.content = turn.content
                         /\ execution'.status =
                               IF turn.content.status = "blank"
                               THEN "protocol_error" ELSE "finished"
      BY <1>1, <1>11, TurnIs, Zenon
    <2>3. CASE execution' = execution
      BY <1>1, <1>2, <1>3, <2>1, <2>3, SameClaim
    <2>4. CASE pc' = "evaluate" /\ execution'.content \in {turn.content, Absent}
               /\ (turn.finish = "length" \/ turn.calls = << >>)
      <3>1. Absent.status # "completed"
        BY <1>1, TurnTexts
      <3>2. config.who = "invalid-report" =>
               execution'.content.status # "completed"
        <4> SUFFICES ASSUME config.who = "invalid-report"
                     PROVE  execution'.content.status # "completed"
          OBVIOUS
        <4>1. turn.content.status # "completed"
          <5>1. /\ Ask(Create(Title)).content.status # "completed"
                /\ Say("prose", 0).content.status # "completed"
            BY <1>1, TurnTexts DEF Ask, Blank
          <5>2. turn \in {Ask(Create(Title)), Say("prose", 0)}
            BY <1>1, InvalidTurn
          <5> QED BY <5>1, <5>2
        <4> QED BY <2>4, <3>1, <4>1
      <3>3. Honest /\ execution'.content.status = "completed" =>
               /\ execution'.content.task # 0
               /\ tasks = {Row(execution'.content.task)}
        <4> SUFFICES ASSUME Honest, execution'.content.status = "completed"
                     PROVE  /\ execution'.content.task # 0
                            /\ tasks = {Row(execution'.content.task)}
          OBVIOUS
        <4>1. execution'.content = turn.content /\ turn.content.status = "completed"
          BY <2>4, <3>1
        <4>2. \/ turn = Ask(Create(Title))
              \/ turn = Ask(Get(last.task))
              \/ /\ last.task # 0 /\ tasks = {Row(last.task)}
                 /\ turn = Say("completed", last.task)
              \/ turn \in Unclaimed
          BY <1>1, <2>1, HonestTurn
        <4>3. /\ Ask(Create(Title)).content.status # "completed"
              /\ Ask(Get(last.task)).content.status # "completed"
          BY DEF Ask, Blank
        <4>4. /\ last.task # 0 /\ tasks = {Row(last.task)}
              /\ turn.content.task = last.task
          BY <1>1, <4>1, <4>2, <4>3, TurnTexts
        <4> QED BY <4>1, <4>4
      <3> QED BY <1>2, <1>3, <2>1, <2>4, <3>2, <3>3 DEF ClaimInv, Row
    <2> QED BY <2>2, <2>3, <2>4
  <1>12. CASE ProviderFails
    <2>1. StoppedBlank
      BY <1>1, <1>12, StopsAre
    <2>2. /\ pc' = "evaluate" /\ last' = last /\ execution'.content = Absent
          /\ Absent.status # "completed"
      BY <1>1, <2>1, TurnTexts DEF StoppedBlank
    <2> QED BY <1>2, <1>3, <2>2 DEF ClaimInv
  <1>13. CASE ScriptFails
    <2>1. /\ execution' = execution
          /\ config.kind = "claims" /\ last'.task # 0 => last'.ok
          /\ pc' \notin {"evaluate", "done"} => pc \notin {"evaluate", "done"}
          /\ tasks' = tasks \/ pc \notin {"evaluate", "done"}
      BY <1>1, <1>3, <1>13, Zenon DEF ScriptFails, store, local, result
    <2> QED BY <1>1, <1>2, <2>1, SameClaim
  <1>14. CASE ModelLimit
    <2>1. StoppedBlank
      BY <1>1, <1>14, StopsAre
    <2>2. /\ pc' = "evaluate" /\ last' = last /\ execution'.content = Absent
          /\ Absent.status # "completed"
      BY <1>1, <2>1, TurnTexts DEF StoppedBlank
    <2> QED BY <1>2, <1>3, <2>2 DEF ClaimInv
  <1>15. CASE ToolLimit
    <2>1. StoppedBlank
      BY <1>1, <1>15, StopsAre
    <2>2. /\ pc' = "evaluate" /\ last' = last /\ execution'.content = Absent
          /\ Absent.status # "completed"
      BY <1>1, <2>1, TurnTexts DEF StoppedBlank
    <2> QED BY <1>2, <1>3, <2>2 DEF ClaimInv
  <1>16. CASE Refuse
    <2>1. /\ execution' = execution
          /\ config.kind = "claims" /\ last'.task # 0 => last'.ok
          /\ pc' \notin {"evaluate", "done"} => pc \notin {"evaluate", "done"}
          /\ tasks' = tasks \/ pc \notin {"evaluate", "done"}
      BY <1>1, <1>3, <1>16, RefuseIs DEF Answered
    <2> QED BY <1>1, <1>2, <2>1, SameClaim
  <1>17. CASE ExecuteCreate
    <2>1. /\ execution' = execution
          /\ config.kind = "claims" /\ last'.task # 0 => last'.ok
          /\ pc' \notin {"evaluate", "done"} => pc \notin {"evaluate", "done"}
          /\ tasks' = tasks \/ pc \notin {"evaluate", "done"}
      BY <1>1, <1>3, <1>17, ExecuteCreateIs DEF ExecutedCall, Answered
    <2> QED BY <1>1, <1>2, <2>1, SameClaim
  <1>18. CASE ExecuteGet
    <2>1. /\ execution' = execution
          /\ config.kind = "claims" /\ last'.task # 0 => last'.ok
          /\ pc' \notin {"evaluate", "done"} => pc \notin {"evaluate", "done"}
          /\ tasks' = tasks \/ pc \notin {"evaluate", "done"}
      BY <1>1, <1>3, <1>18, ExecuteGetIs DEF ExecutedCall, Answered
    <2> QED BY <1>1, <1>2, <2>1, SameClaim
  <1>19. CASE StorageFails
    <2>1. /\ execution' = execution
          /\ config.kind = "claims" /\ last'.task # 0 => last'.ok
          /\ pc' \notin {"evaluate", "done"} => pc \notin {"evaluate", "done"}
          /\ tasks' = tasks \/ pc \notin {"evaluate", "done"}
      BY <1>1, <1>3, <1>19, StorageFailsIs DEF ExecutedCall, Answered
    <2> QED BY <1>1, <1>2, <2>1, SameClaim
  <1>20. CASE StartOperation
    <2>1. /\ execution' = execution
          /\ config.kind = "claims" /\ last'.task # 0 => last'.ok
          /\ pc' \notin {"evaluate", "done"} => pc \notin {"evaluate", "done"}
          /\ tasks' = tasks \/ pc \notin {"evaluate", "done"}
      BY <1>1, <1>3, <1>20, StartIs
    <2> QED BY <1>1, <1>2, <2>1, SameClaim
  <1>21. CASE FailBeforeWrite
    <2>1. /\ execution' = execution /\ config.kind # "claims"
          /\ pc = "attempt"
      BY <1>1, <1>21, BeforeWriteIs DEF Attempting, Retried, GivenUp,
          Failed, Answered
    <2> QED BY <1>1, <1>2, <2>1, SameClaim
  <1>22. CASE AttemptCreate
    <2>2. \E t \in Nat, r \in {0, 1} : CreateAttempt(t, r)
      BY <1>1, <1>22, AttemptCreateIs
    <2>1. /\ execution' = execution /\ config.kind # "claims"
          /\ pc = "attempt"
      BY <1>1, <2>2, <1>22, AttemptCreateIs
         DEF Attempting, CreateAttempt, Retried, GivenUp, Failed, Answered
    <2> QED BY <1>1, <1>2, <2>1, SameClaim
  <1>23. CASE AttemptGet
    <2>1. /\ execution' = execution /\ config.kind # "claims"
          /\ pc = "attempt"
      BY <1>1, <1>23, AttemptGetIs DEF Attempting, Answered
    <2> QED BY <1>1, <1>2, <2>1, SameClaim
  <1>24. CASE AttemptStorageFails
    <2>1. /\ execution' = execution /\ config.kind # "claims"
          /\ pc = "attempt"
      BY <1>1, <1>24, AttemptFailsIs DEF Attempting, Failed, Answered
    <2> QED BY <1>1, <1>2, <2>1, SameClaim
  <1>25. CASE Evaluate
    <2>1. /\ execution' = execution
          /\ config.kind = "claims" /\ last'.task # 0 => last'.ok
          /\ pc' \notin {"evaluate", "done"} => pc \notin {"evaluate", "done"}
          /\ tasks' = tasks \/ pc \notin {"evaluate", "done"}
      BY <1>1, <1>3, <1>25, EvaluateIs
    <2> QED BY <1>1, <1>2, <2>1, SameClaim
  <1>26. CASE UNCHANGED vars
    <2>1. /\ execution' = execution
          /\ config.kind = "claims" /\ last'.task # 0 => last'.ok
          /\ pc' \notin {"evaluate", "done"} => pc \notin {"evaluate", "done"}
          /\ tasks' = tasks \/ pc \notin {"evaluate", "done"}
      BY <1>1, <1>3, <1>26, Zenon DEF vars, store, local, result
    <2> QED BY <1>1, <1>2, <2>1, SameClaim
  <1> QED
    BY <1>11, <1>12, <1>13, <1>14, <1>15, <1>16, <1>17, <1>18, <1>19,
       <1>20, <1>21, <1>22, <1>23, <1>24, <1>25, <1>26
       DEF Next

LEMMA ScriptStep == RunInv /\ [Next]_vars => ScriptInv'
  <1> SUFFICES ASSUME RunInv, [Next]_vars PROVE ScriptInv'
    OBVIOUS
  <1>1. /\ TypesInv /\ FlowInv /\ AccountsInv /\ LedgerInv /\ ClaimInv
        /\ ScriptInv /\ RecoveryInv /\ SuccessMatchesRequest
    BY DEF RunInv
  <1>2. config' = config /\ Honest' = Honest
    BY <1>1, ConfigStays
  <1>3. SUFFICES ASSUME Honest PROVE (TurnsInv /\ CreateInv /\ GetInv)'
    BY <1>2 DEF ScriptInv
  <1>4. /\ TurnsInv /\ CreateInv /\ GetInv
        /\ config.who \in {"scripted", "workflow"} /\ ~Repeats
        /\ ~(/\ config.kind = "responses" /\ config.policy = "pass-through"
             /\ config.case = "wrong-get-id")
    BY <1>1, <1>3, HonestFacts DEF ScriptInv
  <1>5. TypesInv /\ FlowInv /\ LedgerInv /\ ScriptInv /\ Honest
    BY <1>1, <1>3
  <1> USE <1>1
  <1>11. CASE Turn
    <2>1. /\ pc = "caller" /\ UNCHANGED <<tasks, task_operations, last>>
          /\ calls'.tool = calls.tool
          /\ calls'.model = IF config.who = "workflow" THEN calls.model
                            ELSE calls.model + 1
      BY <1>5, <1>11, TurnIs
    <2>2. PICK turn \in Turns :
             \/ turn.calls # << >> /\ pc' = "tools" /\ queue' = turn.calls
             \/ pc' = "evaluate"
      BY <1>5, <1>11, TurnIs, Zenon
    <2>3. CASE pc' = "evaluate"
      BY <1>2, <1>5, <2>1, <2>3, HonestStop
    <2>4. CASE turn.calls # << >> /\ pc' = "tools" /\ queue' = turn.calls
      <3>1. \/ turn = Ask(Create(Title)) /\ calls.tool = 0
            \/ /\ calls.tool = 1 /\ last.ok /\ last.task # 0
               /\ Stored(last.task) /\ turn = Ask(Get(last.task))
        BY <1>1, <1>5, <2>1, <2>4, HonestTurn, TurnTexts
      <3>2. /\ Len(queue') = 1
            /\ calls.tool = 0 => Head(queue') = Create(Title)
            /\ calls.tool = 1 =>
                  Head(queue') = Get(last.task) /\ Stored(last.task)
            /\ calls.tool \in {0, 1}
        BY <1>5, <2>4, <3>1, TurnTexts
      <3>3. TurnsInv'
        BY <1>2, <1>4, <2>1, <2>4, <3>2 DEF TurnsInv
      <3>4. CreateInv'
        BY <2>1, <2>4, <3>2 DEF CreateInv
      <3>5. GetInv'
        <4>1. last.task \in Nat
          BY <1>5 DEF TypesInv, Delivery
        <4>2. Stored(last.task) => \A id \in Nat : id = last.task => Stored(id)'
          BY <1>2, <2>1 DEF Stored, Row
        <4> QED BY <2>1, <2>4, <3>2, <4>1, <4>2 DEF GetInv
      <3> QED BY <3>3, <3>4, <3>5
    <2> QED BY <2>2, <2>3, <2>4
  <1>12. CASE ProviderFails
    BY <1>4, <1>5, <1>12, StopsAre
  <1>13. CASE ScriptFails
    <2>1. /\ pc' \in {"evaluate", "done", "broken"} /\ calls' = calls
          /\ UNCHANGED <<tasks, task_operations>>
      BY <1>5, <1>13, Zenon DEF ScriptFails, store, local
    <2> QED BY <1>2, <1>5, <2>1, HonestStop
  <1>14. CASE ModelLimit
    <2>1. StoppedBlank /\ calls' = calls
      BY <1>5, <1>14, StopsAre
    <2>2. /\ pc' \in {"evaluate", "done", "broken"}
          /\ UNCHANGED <<tasks, task_operations>>
      BY <2>1 DEF StoppedBlank
    <2> QED BY <1>2, <1>5, <2>1, <2>2, HonestStop
  <1>15. CASE ToolLimit
    <2>1. StoppedBlank /\ calls' = calls
      BY <1>5, <1>15, StopsAre
    <2>2. /\ pc' \in {"evaluate", "done", "broken"}
          /\ UNCHANGED <<tasks, task_operations>>
      BY <2>1 DEF StoppedBlank
    <2> QED BY <1>2, <1>5, <2>1, <2>2, HonestStop
  <1>16. CASE Refuse
    BY <1>5, <1>16, RefuseIs, HonestCall
  <1>17. CASE ExecuteCreate
    <2>1. /\ ExecutedCall /\ Head(queue).name = "create_task"
          /\ last'.call = Head(queue)
          /\ last'.ok /\ last'.task # 0 => last'.task = fresh
          /\ task_operations' = task_operations
          /\ IF config.case = "dropped-write" THEN tasks' = tasks
             ELSE tasks' = tasks \cup
                     {[id |-> fresh, title |-> Head(queue).title]}
      BY <1>5, <1>17, ExecuteCreateIs
    <2>2. pc = "tools" /\ Answered /\ calls'.tool = calls.tool + 1
          /\ calls'.model = calls.model
      BY <2>1 DEF ExecutedCall
    <2>3. Head(queue) = Create(Title) /\ calls.tool = 0
      BY <1>5, <2>1, <2>2, HonestCall DEF InTurn
    <2>4. /\ Head(queue).title = Title /\ tasks = {}
      BY <1>4, <2>3, TitleFacts DEF TurnsInv
    <2>5. last'.ok /\ last'.task # 0 => Stored(last.task)'
      BY <1>2, <2>1, <2>4 DEF Stored, Row
    <2> QED BY <1>5, <2>1, <2>2, <2>5, HonestAnswer
  <1>18. CASE ExecuteGet
    <2>1. /\ ExecutedCall /\ Head(queue).name = "get_task"
          /\ UNCHANGED <<tasks, task_operations>>
          /\ last'.call = Get(Head(queue).task)
          /\ last'.ok /\ last'.task # 0 =>
                /\ last'.task = Head(queue).task
                /\ \E row \in tasks : row.id = last'.task
      BY <1>4, <1>5, <1>18, ExecuteGetIs
    <2>2. pc = "tools" /\ Answered /\ calls'.tool = calls.tool + 1
          /\ calls'.model = calls.model
      BY <2>1 DEF ExecutedCall
    <2>3. PICK id \in Nat \ {0} : /\ Head(queue) = Get(id) /\ Stored(id)
                                 /\ Head(queue).task = id
      BY <1>5, <2>1, <2>2, HonestCall
    <2>4. last'.ok /\ last'.task # 0 => tasks' = {Row(last'.task)}
      BY <2>1, <2>3 DEF Stored, Row
    <2>5. last'.call = Head(queue)
      BY <2>1, <2>3
    <2> QED BY <1>5, <2>1, <2>2, <2>4, <2>5, HonestAnswer
  <1>19. CASE StorageFails
    <2>1. ExecutedCall /\ last'.call = Head(queue) /\ ~last'.ok
      BY <1>5, <1>19, StorageFailsIs
    <2>2. pc = "tools" /\ Answered /\ calls'.tool = calls.tool + 1
          /\ calls'.model = calls.model
      BY <2>1 DEF ExecutedCall
    <2> QED BY <1>5, <2>1, <2>2, HonestAnswer
  <1>20. CASE StartOperation
    <2>1. /\ pc = "tools" /\ pc' = "attempt" /\ calls'.tool = calls.tool + 1
          /\ calls'.model = calls.model /\ config.kind = "retries"
          /\ UNCHANGED <<tasks, task_operations, queue>>
      BY <1>5, <1>20, StartIs
    <2>2. /\ Len(queue) = 1 /\ calls.tool \in {0, 1}
          /\ calls.tool = 0 => Head(queue) = Create(Title)
          /\ calls.tool = 1 => \E id \in Nat : Head(queue) = Get(id) /\ Stored(id)
          /\ calls.tool = 0 => tasks = {} /\ task_operations = {}
      BY <1>4, <2>1 DEF TurnsInv, CreateInv, GetInv
    <2>3. TurnsInv'
      BY <1>2, <1>4, <2>1, <2>2 DEF TurnsInv
    <2>4. CreateInv'
      BY <1>2, <2>1, <2>2 DEF CreateInv
    <2>5. GetInv'
      <3>1. \A id \in Nat : Stored(id) => Stored(id)'
        BY <1>2, <2>1 DEF Stored, Row
      <3> QED BY <2>1, <2>2, <3>1 DEF GetInv
    <2> QED BY <2>3, <2>4, <2>5
  <1>21. CASE FailBeforeWrite
    <2>1. /\ Attempting /\ Head(queue).name = "create_task"
          /\ UNCHANGED <<tasks, task_operations>>
          /\ Retried \/ Failed
          /\ counts'.operations = counts.operations
      BY <1>5, <1>21, BeforeWriteIs DEF GivenUp, Tally
    <2>2. pc = "attempt" /\ calls' = calls
      BY <2>1 DEF Attempting
    <2>3. CASE Failed
      BY <1>5, <2>2, <2>3, HonestAnswer DEF Failed
    <2>4. CASE Retried
      <3>1. /\ pc' = pc /\ queue' = queue /\ last' = last
            /\ calls.tool = 1 /\ Protected' = Protected
        BY <1>2, <1>5, <2>1, <2>2, <2>4, HonestCall DEF Retried, InTurn,
            Protected
      <3>2. TurnsInv'
        BY <1>2, <1>4, <2>1, <2>2, <3>1 DEF TurnsInv
      <3>3. CreateInv'
        BY <1>4, <2>1, <2>2, <3>1 DEF CreateInv, Row
      <3>4. GetInv'
        BY <2>2, <3>1 DEF GetInv
      <3> QED BY <3>2, <3>3, <3>4
    <2> QED BY <2>1, <2>3, <2>4
  <1>22. CASE AttemptCreate
    BY <1>2, <1>5, <1>22, HonestCreate
  <1>23. CASE AttemptGet
    <2>1. /\ Attempting /\ Answered /\ Head(queue).name = "get_task"
          /\ UNCHANGED <<tasks, task_operations>>
          /\ last'.call = Get(Head(queue).task)
          /\ last'.task \in {0, Head(queue).task}
          /\ last'.task # 0 => \E row \in tasks : row.id = Head(queue).task
      BY <1>5, <1>23, AttemptGetIs
    <2>2. pc = "attempt" /\ calls' = calls
      BY <2>1 DEF Attempting
    <2>3. PICK id \in Nat \ {0} : /\ Head(queue) = Get(id) /\ Stored(id)
                                 /\ Head(queue).task = id
      BY <1>5, <2>1, <2>2, HonestCall
    <2>4. last'.ok /\ last'.task # 0 => tasks' = {Row(last'.task)}
      BY <2>1, <2>3 DEF Stored, Row
    <2>5. last'.call = Head(queue)
      BY <2>1, <2>3
    <2> QED BY <1>5, <2>1, <2>2, <2>4, <2>5, HonestAnswer
  <1>24. CASE AttemptStorageFails
    <2>1. Attempting /\ Failed
      BY <1>5, <1>24, AttemptFailsIs
    <2>2. pc = "attempt" /\ calls' = calls
      BY <2>1 DEF Attempting
    <2> QED BY <1>5, <2>1, <2>2, HonestAnswer DEF Failed
  <1>25. CASE Evaluate
    <2>1. /\ pc' \in {"evaluate", "done", "broken"} /\ calls' = calls
          /\ UNCHANGED <<tasks, task_operations>>
      BY <1>5, <1>25, EvaluateIs
    <2> QED BY <1>2, <1>5, <2>1, HonestStop
  <1>26. CASE UNCHANGED vars
    <2>1. UNCHANGED <<tasks, task_operations, config, pc, queue, last, calls, counts>>
      BY <1>26, Zenon DEF vars, store, local
    <2>2. TurnsInv'
      BY <1>4, <2>1 DEF TurnsInv
    <2>3. CreateInv'
      BY <1>4, <2>1 DEF CreateInv, Stored, Row, Protected
    <2>4. GetInv'
      BY <1>4, <2>1 DEF GetInv, Stored, Row
    <2> QED BY <2>2, <2>3, <2>4
  <1> QED
    BY <1>11, <1>12, <1>13, <1>14, <1>15, <1>16, <1>17, <1>18, <1>19,
       <1>20, <1>21, <1>22, <1>23, <1>24, <1>25, <1>26
       DEF Next

LEMMA RecoveryStep == RunInv /\ [Next]_vars => RecoveryInv'
  <1> SUFFICES ASSUME RunInv, [Next]_vars PROVE RecoveryInv'
    OBVIOUS
  <1>1. /\ TypesInv /\ FlowInv /\ AccountsInv /\ LedgerInv /\ ClaimInv
        /\ ScriptInv /\ RecoveryInv /\ SuccessMatchesRequest
    BY DEF RunInv
  <1>2. config' = config /\ Protected' = Protected
    BY <1>1, ConfigStays
  <1>3. SUFFICES ASSUME Protected, config.who # "live", failures' = 0
                 PROVE  Recovered'
    BY <1>2 DEF RecoveryInv
  <1>4. /\ config.kind = "retries" /\ config.who \in {"scripted", "workflow"}
        /\ AttemptLimit = 2 /\ ~Repeats /\ config.case # "dropped-write"
        /\ failures \in Nat
    BY <1>1, <1>3, ConfigFacts, RunAssumption DEF TypesInv, RunAssumption
  <1>5. /\ TypesInv /\ FlowInv /\ LedgerInv /\ ScriptInv /\ Honest
        /\ failures = 0 => Recovered
    BY <1>1, <1>3, <1>4 DEF Honest, RecoveryInv
  <1>6. /\ TurnsInv /\ CreateInv
        /\ MaxModelCalls \in Nat /\ MaxModelCalls >= 3
        /\ MaxToolCalls \in Nat /\ MaxToolCalls >= 2
    BY <1>5, RunAssumption DEF ScriptInv, RunAssumption
  <1> USE <1>1
  <1>11. CASE Turn
    <2>1. pc = "caller" /\ failures' = failures /\ last' = last
      BY <1>5, <1>11, TurnIs
    <2>2. PICK turn \in Turns :
             \/ pc' = "tools" /\ turn.calls # << >>
             \/ /\ pc' = "evaluate"
                /\ \/ turn.finish = "length"
                   \/ /\ turn.finish = "stop" /\ turn.calls = << >>
                      /\ execution'.content = turn.content
                      /\ execution'.status =
                            IF turn.content.status = "blank"
                            THEN "protocol_error" ELSE "finished"
      BY <1>5, <1>11, TurnIs, Zenon
    <2>3. turn \in {Ask(Create(Title)), Ask(Get(last.task)),
                   Say("completed", last.task)}
      BY <1>3, <1>4, <1>5, <2>1, RecoveryTurn
    <2>4. CASE pc' = "tools"
      BY <2>4 DEF Recovered
    <2>5. CASE pc' = "evaluate"
      <3>1. turn = Say("completed", last.task)
        BY <1>5, <2>2, <2>3, <2>5, TurnTexts
      <3>2. /\ turn.finish = "stop" /\ turn.content.status = "completed"
        BY <1>5, <3>1, TurnTexts
      <3>3. /\ execution'.status = "finished"
            /\ execution'.content.status = "completed"
        BY <2>2, <2>5, <3>2
      <3> QED BY <2>5, <3>3 DEF Recovered
    <2> QED BY <2>2, <2>4, <2>5
  <1>12. CASE ProviderFails
    BY <1>4, <1>5, <1>12, StopsAre
  <1>13. CASE ScriptFails
    <2>1. pc = "caller" /\ Turns = {} /\ failures' = failures
      BY <1>13 DEF ScriptFails
    <2>2. CASE config.who = "workflow"
      BY <2>1, <2>2 DEF Turns, WorkflowStep
    <2>3. CASE config.who = "scripted"
      BY <1>4, <2>1, <2>3 DEF Turns, ResponseScript
    <2> QED BY <1>4, <2>2, <2>3
  <1>14. CASE ModelLimit
    <2>1. pc = "caller" /\ calls.model >= MaxModelCalls
      BY <1>5, <1>14, StopsAre
    <2>2. calls.model \in {0, 1, 2}
      BY <1>4, <1>6, <2>1 DEF TurnsInv
    <2> QED BY <1>6, <2>1, <2>2
  <1>15. CASE ToolLimit
    <2>1. pc = "tools" /\ calls.tool >= MaxToolCalls
      BY <1>5, <1>15, StopsAre
    <2>2. calls.tool \in {0, 1}
      BY <1>6, <2>1 DEF TurnsInv
    <2> QED BY <1>6, <2>1, <2>2
  <1>16. CASE Refuse
    BY <1>5, <1>16, RefuseIs, HonestCall
  <1>17. CASE ExecuteCreate
    BY <1>4, <1>5, <1>17, ExecuteCreateIs DEF ExecutedCall
  <1>18. CASE ExecuteGet
    BY <1>4, <1>5, <1>18, ExecuteGetIs DEF ExecutedCall
  <1>19. CASE StorageFails
    BY <1>4, <1>5, <1>19, StorageFailsIs DEF ExecutedCall
  <1>20. CASE StartOperation
    <2>1. pc' = "attempt"
      BY <1>5, <1>20, StartIs
    <2> QED BY <2>1 DEF Recovered
  <1>21. CASE FailBeforeWrite
    <2>1. Attempting /\ ~consumed /\ (Retried \/ GivenUp)
      BY <1>5, <1>21, BeforeWriteIs
    <2>2. number # 2 /\ pc = "attempt" /\ number \in {1, 2}
      BY <1>5, <2>1 DEF FlowInv, Attempting
    <2>3. pc' = "attempt"
      BY <1>4, <2>1, <2>2 DEF GivenUp, Retried
    <2> QED BY <2>3 DEF Recovered
  <1>22. CASE AttemptCreate
    <2>1. /\ Attempting /\ Head(queue).name = "create_task"
          /\ failures' = failures
          /\ \E t \in Nat, r \in {0, 1} : CreateAttempt(t, r)
      BY <1>5, <1>22, AttemptCreateIs
    <2>2. PICK t \in Nat, r \in {0, 1} : CreateAttempt(t, r)
      BY <2>1
    <2>3. /\ pc = "attempt" /\ number \in {1, 2} /\ calls' = calls
          /\ calls.tool = 1 /\ Head(queue) = Create(Title)
      BY <1>5, <2>1, HonestCall DEF Attempting, InTurn
    <2>4. CASE ~consumed /\ (Retried \/ GivenUp)
      <3>1. number # 2
        BY <1>5, <2>4 DEF FlowInv
      <3>2. pc' = "attempt"
        BY <1>4, <2>3, <2>4, <3>1 DEF GivenUp, Retried
      <3> QED BY <3>2 DEF Recovered
    <2>5. CASE /\ Answered /\ last'.ok = TRUE /\ last'.task = t
               /\ last'.title = Head(queue).title
      <3>1. t # 0
        <4>1. r = 0 => t = fresh
          BY <2>2 DEF CreateAttempt
        <4>2. r = 1 => \E row \in task_operations : row.task_id = t
          BY <2>2 DEF CreateAttempt, Recorded
        <4>3. \A row \in task_operations : row.task_id # 0
          BY <1>6, <2>3 DEF CreateInv
        <4> QED BY <1>5, <4>1, <4>2, <4>3 DEF TypesInv, StoreType
      <3>2. last'.title = Title /\ calls'.tool = 1 /\ pc' \in {"caller", "tools"}
        BY <2>3, <2>5, TitleFacts DEF Answered
      <3> QED BY <2>5, <3>1, <3>2 DEF Recovered
    <2> QED BY <2>2, <2>4, <2>5 DEF CreateAttempt
  <1>23. CASE AttemptGet
    <2>1. /\ Attempting /\ Answered /\ Head(queue).name = "get_task"
          /\ last'.call = Get(Head(queue).task) /\ last'.ok = TRUE
          /\ last'.task \in {0, Head(queue).task}
          /\ last'.task # 0 => \E row \in tasks :
                row.id = Head(queue).task /\ last'.title = row.title
          /\ last'.task = 0 => \A row \in tasks : row.id # Head(queue).task
      BY <1>5, <1>23, AttemptGetIs
    <2>2. pc = "attempt" /\ calls' = calls
      BY <2>1 DEF Attempting
    <2>3. PICK id \in Nat \ {0} : /\ Head(queue) = Get(id) /\ Stored(id)
                                 /\ Head(queue).task = id
      BY <1>5, <2>1, <2>2, HonestCall
    <2>4. tasks = {Row(id)} /\ Row(id).id = id /\ Row(id).title = Title
      BY <1>4, <2>3 DEF Stored, Row
    <2>5. last'.task = id /\ last'.title = Title
      BY <2>1, <2>3, <2>4
    <2>6. last'.call.task = id /\ pc' \in {"caller", "tools"}
      BY <2>1, <2>3, TitleFacts DEF Answered
    <2> QED BY <2>1, <2>5, <2>6 DEF Recovered
  <1>24. CASE AttemptStorageFails
    <2>1. failures' = failures + 1
      BY <1>5, <1>24, AttemptFailsIs
    <2> QED BY <1>3, <1>4, <2>1
  <1>25. CASE Evaluate
    <2>1. /\ pc = "evaluate" /\ pc' = "done" /\ execution' = execution
          /\ failures' \in {failures, failures + 1}
      BY <1>5, <1>25, EvaluateIs
    <2>2. failures = 0
      BY <1>3, <1>4, <2>1
    <2> QED BY <1>5, <2>1, <2>2 DEF Recovered
  <1>26. CASE UNCHANGED vars
    <2>1. UNCHANGED <<pc, last, calls, execution, failures>>
      BY <1>26, Zenon DEF vars, local, result
    <2> QED BY <1>3, <1>5, <2>1 DEF Recovered
  <1> QED
    BY <1>11, <1>12, <1>13, <1>14, <1>15, <1>16, <1>17, <1>18, <1>19,
       <1>20, <1>21, <1>22, <1>23, <1>24, <1>25, <1>26
       DEF Next

-----------------------------------------------------------------------------
(* The theorems *)

LEMMA InitRun == Init => RunInv
  <1> SUFFICES ASSUME Init PROVE RunInv
    OBVIOUS
  <1>1. /\ tasks = {} /\ task_operations = {} /\ hot = FALSE /\ fresh = 1
        /\ config \in Configs /\ pc = "caller" /\ queue = << >>
        /\ last = Nothing /\ number = 0 /\ consumed = FALSE
        /\ calls = [model |-> 0, tool |-> 0, executed |-> 0]
        /\ counts = Zero /\ evaluation = {} /\ effects = {} /\ failures = 0
        /\ execution = [status |-> "running", content |-> Absent]
    BY DEF Init, StoreInit
  <1>2. /\ MaxModelCalls \in Nat /\ MaxToolCalls \in Nat /\ MaxFailures \in Nat
    BY RunAssumption DEF RunAssumption
  <1>3. /\ last \in Delivery /\ ~last.ok /\ last.task = 0
    <2>1. Create(BlankTitle) \in ToolCall
      BY DEF Create, ToolCall
    <2> QED BY <1>1, <2>1, CallFacts DEF Nothing
  <1>4. counts \in [Counters -> Nat]
    <2>1. Zero \in [Counters -> Nat]
      BY DEF Zero, Counters
    <2> QED BY <1>1, <2>1
  <1>5. execution \in Execution /\ execution.content = Absent
        /\ Absent.status # "completed"
    BY <1>1 DEF Execution, Absent, Contents
  <1>6. calls.model = 0 /\ calls.tool = 0 /\ calls.executed = 0
        /\ calls \in [model : 0 .. MaxModelCalls, tool : Nat, executed : Nat]
    BY <1>1, <1>2
  <1>7. TypesInv
    <2>1. StoreType
      <3>1. tasks = {} /\ task_operations = {} /\ hot = FALSE /\ fresh = 1
        BY <1>1
      <3>2. tasks \subseteq Task /\ task_operations \subseteq LedgerRow
        BY <3>1
      <3>3. hot \in BOOLEAN
        BY <3>1, Zenon
      <3>4. fresh \in Nat \ {0}
        BY <3>1
      <3> QED BY <3>2, <3>3, <3>4 DEF StoreType
    <2>2. IsFiniteSet(effects) /\ effects \in SUBSET Effect
      BY <1>1, FS_EmptySet
    <2>3. queue \in Seq(ToolCall)
      BY <1>1
    <2>4. /\ config \in Configs /\ pc = "caller" /\ number \in 0 .. 2
          /\ consumed \in BOOLEAN /\ failures \in 0 .. MaxFailures
      <3>1. /\ config \in Configs /\ pc = "caller" /\ number = 0
            /\ consumed = FALSE /\ failures = 0
        BY <1>1
      <3>2. consumed \in BOOLEAN
        BY <3>1, Zenon
      <3> QED BY <1>2, <3>1, <3>2
    <2> QED BY <1>3, <1>4, <1>5, <1>6, <2>1, <2>2, <2>3, <2>4 DEF TypesInv
  <1>8. FlowInv
    BY <1>1, <1>2, <1>6 DEF FlowInv
  <1>9. AccountsInv
    <2>1. /\ counts.operations = 0 /\ counts.attempts = 0 /\ counts.retries = 0
          /\ counts.entries = 0 /\ counts.replayed = 0
          /\ counts.delivery_errors = 0 /\ counts.faults = 0
          /\ counts.valid = 0 /\ counts.syntax = 0 /\ counts.schema = 0
          /\ counts.request = 0 /\ counts.unchecked = 0
      BY <1>1 DEF Zero
    <2> QED BY <1>1, <1>6, <2>1 DEF AccountsInv, ContractAccounts, InProgress
  <1>10. LedgerInv
    <2>1. \A op \in Nat : EffectsOf(op) = {}
      BY <1>1 DEF EffectsOf
    <2>2. \A op \in Nat : Cardinality(EffectsOf(op)) = 0
      BY <2>1, FS_EmptySet
    <2> QED BY <1>1, <2>2 DEF LedgerInv
  <1>11. ClaimInv
    BY <1>1, <1>3, <1>5 DEF ClaimInv
  <1>12. ScriptInv
    BY <1>1, <1>6 DEF ScriptInv, TurnsInv, CreateInv, GetInv
  <1>13. RecoveryInv
    BY <1>1, <1>6 DEF RecoveryInv, Recovered
  <1>14. SuccessMatchesRequest
    BY <1>3 DEF SuccessMatchesRequest
  <1> QED BY <1>7, <1>8, <1>9, <1>10, <1>11, <1>12, <1>13, <1>14 DEF RunInv

LEMMA RunStep == RunInv /\ [Next]_vars => RunInv'
  <1> SUFFICES ASSUME RunInv, [Next]_vars PROVE RunInv'
    OBVIOUS
  <1>1. TypesInv' /\ FlowInv' /\ AccountsInv' /\ LedgerInv'
    BY TypesStep, FlowStep, AccountsStep, LedgerStep
  <1>2. ClaimInv' /\ ScriptInv' /\ RecoveryInv' /\ SuccessMatchesRequest'
    BY ClaimStep, ScriptStep, RecoveryStep, MatchStep
  <1> QED BY <1>1, <1>2 DEF RunInv

\* The inductive invariant of a run: the store, the trace counters, the ledger
\* and what each fixed caller knows fit together before and after every call,
\* attempt, injected fault and storage failure.
THEOREM RunInvariant == Spec => []RunInv
  <1>1. Init => RunInv
    BY InitRun
  <1>2. RunInv /\ [Next]_vars => RunInv'
    BY RunStep
  <1> QED BY <1>1, <1>2, PTL DEF Spec

\* A finished run has been evaluated.
LEMMA Evaluated ==
    ASSUME FlowInv, NEW e \in evaluation
    PROVE  /\ pc = "done"
           /\ \E unreadable \in BOOLEAN :
                 /\ e = EvaluateRun(InspectState(tasks, unreadable), Title,
                                    execution)
                 /\ failures = 0 => ~unreadable
  BY DEF FlowInv

LEMMA Accepted == RunInv => RunIsAccepted
  <1> SUFFICES ASSUME RunInv PROVE RunIsAccepted
    OBVIOUS
  <1>1. TypesInv /\ FlowInv /\ AccountsInv
    BY DEF RunInv
  <1>2. DOMAIN Zero = Counters
    BY DEF Zero, Counters
  <1>3. Cardinality(evaluation) = IF pc = "done" THEN 1 ELSE 0
    <2>1. CASE pc = "done"
      <3>1. \E e : evaluation = {e}
        BY <1>1, <2>1 DEF FlowInv
      <3> QED BY <2>1, <3>1, FS_Singleton
    <2>2. CASE pc # "done"
      BY <1>1, <2>2, FS_EmptySet DEF FlowInv
    <2> QED BY <2>1, <2>2
  <1>4. TypeOK
    <2>1. counts \in [DOMAIN Zero -> Nat]
      BY <1>1, <1>2 DEF TypesInv
    <2>2. execution.content \in Contents
      BY <1>1 DEF TypesInv, Execution
    <2> QED BY <1>1, <1>3, <2>1, <2>2 DEF TypeOK, TypesInv, FlowInv
  <1>5. pc = "done" /\ config.kind = "retries" => RetryAccounts
    <2> SUFFICES ASSUME pc = "done", config.kind = "retries" PROVE RetryAccounts
      OBVIOUS
    <2>1. /\ counts.operations \in Nat /\ counts.attempts \in Nat
          /\ counts.retries \in Nat /\ counts.entries \in Nat
          /\ counts.replayed \in Nat /\ counts.delivery_errors \in Nat
          /\ counts.faults \in Nat /\ AttemptLimit \in {1, 2}
          /\ calls.executed \in Nat /\ calls.tool \in Nat
      BY <1>1, CountsAreNumbers, ConfigFacts DEF TypesInv
    <2>2. /\ counts.operations = calls.executed /\ calls.executed <= calls.tool
          /\ counts.attempts = counts.operations + counts.retries
          /\ AttemptLimit = 1 => counts.retries = 0
          /\ counts.retries <= counts.operations
          /\ counts.replayed <= counts.entries
          /\ counts.entries <= counts.attempts
          /\ counts.delivery_errors = counts.faults
          /\ counts.faults = IF consumed THEN 1 ELSE 0
          /\ counts.faults <= counts.attempts
          /\ consumed => config.case # "retry-healthy"
          /\ ~Protected => counts.replayed = 0
      BY <1>1, <2>1 DEF AccountsInv, FlowInv, InProgress
    <2>3. counts.attempts <= AttemptLimit * counts.operations
      <3>1. CASE AttemptLimit = 1
        <4>1. counts.attempts <= 1 * counts.operations
          BY <2>1, <2>2, <3>1
        <4> QED BY <3>1, <4>1
      <3>2. CASE AttemptLimit = 2
        <4>1. counts.attempts <= 2 * counts.operations
          BY <2>1, <2>2
        <4> QED BY <3>2, <4>1
      <3> QED BY <2>1, <3>1, <3>2
    <2> QED BY <2>1, <2>2, <2>3 DEF RetryAccounts
  <1>6. config.kind = "responses" => ContractAccounts
    BY <1>1 DEF AccountsInv
  <1> QED BY <1>4, <1>5, <1>6 DEF RunIsAccepted, ObservationNeverRefused

\* Whatever a caller asks for, however a call is answered, damaged, refused or
\* tried again, and at whatever call a limit or a failure cuts the run off: it
\* keeps to its budgets, and the validators of RetryObservation and
\* ReliabilityObservation accept what the trace of it counts.
THEOREM RunsAreAccepted == Spec => []RunIsAccepted
  BY RunInvariant, Accepted, PTL

LEMMA Held == RunInv => RetriesHold
  <1> SUFFICES ASSUME RunInv PROVE RetriesHold
    OBVIOUS
  <1>1. TypesInv /\ FlowInv /\ LedgerInv /\ ClaimInv /\ RecoveryInv
    BY DEF RunInv
  <1>2. ASSUME NEW e \in effects
        PROVE  Cardinality({f \in effects : f.operation = e.operation}) <=
                  IF Repeats THEN 2 ELSE 1
    <2>1. e.operation \in Nat
      BY <1>1, <1>2, EffectFacts
    <2>2. CASE Repeats
      BY <1>1, <2>1, <2>2 DEF LedgerInv, EffectsOf
    <2>3. CASE ~Repeats
      <3>1. {f \in effects : f.operation = e.operation} = {e}
        BY <1>1, <1>2, <2>3 DEF LedgerInv
      <3>2. Cardinality({e}) = 1
        BY FS_Singleton
      <3> QED BY <2>3, <3>1, <3>2
    <2> QED BY <2>2, <2>3
  <1>3. OneEffectPerOperation
    BY <1>2 DEF OneEffectPerOperation, Repeats
  <1>4. ASSUME Protected, config.who # "live", failures = 0, NEW e \in evaluation
        PROVE  e.task_outcome = "completed" /\ e.claim_support = "supported"
    <2> DEFINE state == InspectState(tasks, FALSE)
               id == execution.content.task
    <2>1. pc = "done" /\ e = EvaluateRun(state, Title, execution)
      BY <1>1, <1>4, Evaluated
    <2>2. /\ execution.status = "finished"
          /\ execution.content.status = "completed"
      BY <1>1, <1>4, <2>1 DEF RecoveryInv, Recovered
    <2>3. Honest
      BY <1>1, <1>4, ConfigFacts DEF Honest
    <2>4. id # 0 /\ tasks = {Row(id)}
      BY <1>1, <2>2, <2>3 DEF ClaimInv
    <2>5. /\ state.status = "ok" /\ state.rows = {Row(id)}
          /\ Row(id).id = id /\ Row(id).title = Title
      BY <2>4 DEF InspectState, Row
    <2> HIDE DEF state
    <2>6. Cardinality(state.rows) = 1
      BY <2>5, FS_Singleton
    <2>7. TaskOutcome(state, Title) = "completed"
      BY <2>4, <2>5, <2>6 DEF TaskOutcome
    <2>8. TerminalReport(execution) = "valid"
      BY <2>2, <2>4 DEF TerminalReport, ValidClaim
    <2>9. ClaimSupport(state, Title, execution) = "supported"
      BY <2>2, <2>5, <2>7, <2>8 DEF ClaimSupport
    <2> QED BY <2>1, <2>7, <2>9 DEF EvaluateRun
  <1>5. RetriesRecover
    BY <1>4 DEF RetriesRecover
  <1> QED BY <1>3, <1>5 DEF RetriesHold

\* One operation makes one task under every policy and every injected fault,
\* but for the unprotected retry of a lost reply, which makes at most two; and
\* a protected retry always ends, on a database that works, with the task
\* stored once and a claim that the evaluation supports.
THEOREM RetriesAlwaysHold == Spec => []RetriesHold
  BY RunInvariant, Held, PTL

LEMMA Truthful == RunInv => SuccessIsTrue
  <1> SUFFICES ASSUME RunInv PROVE SuccessIsTrue
    OBVIOUS
  <1>1. TypesInv /\ FlowInv /\ ClaimInv /\ SuccessMatchesRequest
    BY DEF RunInv
  <1>2. ASSUME NEW e \in evaluation, e.false_success = "yes",
               config.who # "live", config.who # "false-success"
        PROVE  ~Honest
    <2> SUFFICES ASSUME Honest PROVE FALSE
      OBVIOUS
    <2>1. PICK unreadable \in BOOLEAN :
             e = EvaluateRun(InspectState(tasks, unreadable), Title, execution)
      BY <1>1, Evaluated
    <2> DEFINE state == InspectState(tasks, unreadable)
               id == execution.content.task
    <2>2. /\ execution.content.status = "completed"
          /\ ClaimSupport(state, Title, execution) \notin
                {"not_evaluated", "unknown", "supported"}
      BY <1>2, <2>1 DEF EvaluateRun, FalseSuccess
    <2>3. id # 0 /\ tasks = {Row(id)}
      BY <1>1, <2>2 DEF ClaimInv
    <2>4. /\ Row(id).id = id /\ Row(id).title = Title
          /\ Cardinality({Row(id)}) = 1
      BY FS_Singleton DEF Row
    <2>5. CASE unreadable
      BY <2>2, <2>5 DEF ClaimSupport, TaskOutcome, InspectState
    <2>6. CASE ~unreadable
      <3>1. state.status = "ok" /\ state.rows = {Row(id)}
        BY <2>3, <2>6 DEF InspectState
      <3> HIDE DEF state
      <3>2. TaskOutcome(state, Title) = "completed"
        BY <2>3, <2>4, <3>1 DEF TaskOutcome
      <3>3. ClaimSupport(state, Title, execution) \in
               {"not_evaluated", "supported"}
        BY <2>2, <2>4, <3>1, <3>2 DEF ClaimSupport
      <3> QED BY <2>2, <3>3
    <2> QED BY <2>5, <2>6
  <1>3. config.who \in Callers /\ (config.who = "invalid-report" =>
           \A e \in evaluation : e.false_success # "yes")
    <2>1. config.who \in Callers
      BY <1>1, ConfigFacts
    <2>2. ASSUME config.who = "invalid-report", NEW e \in evaluation
          PROVE  e.false_success # "yes"
      <3>1. execution.content.status # "completed"
        BY <1>1, <2>2 DEF ClaimInv
      <3>2. PICK unreadable \in BOOLEAN :
               e = EvaluateRun(InspectState(tasks, unreadable), Title, execution)
        BY <1>1, <2>2, Evaluated
      <3> QED BY <3>1, <3>2 DEF EvaluateRun, FalseSuccess
    <2> QED BY <2>1, <2>2
  <1>4. FalseSuccessHasItsCause
    BY <1>2, <1>3 DEF FalseSuccessHasItsCause, Honest, Repeats, Callers
  <1> QED BY <1>1, <1>4 DEF SuccessIsTrue

\* Whatever happens, a success that a retrying or validating executor delivers
\* is about its request, and a fixed caller that reports a success it does not
\* have can only be the one that invents it, or was let down by what the
\* experiment takes away: the read-back, the validation, or the ledger.
THEOREM SuccessIsAlwaysTrue == Spec => []SuccessIsTrue
  BY RunInvariant, Truthful, PTL

-----------------------------------------------------------------------------
(* The comparison: where its loop stands. *)

\* Before the last entry nothing failed; and nothing failed at all.
CleanBefore(n) == \A i \in 1 .. Len(entries) : i < n => entries[i] # "failed"
Clean == \A i \in 1 .. Len(entries) : entries[i] # "failed"

\* Where the loop stands: what is recorded, and which run is the partial one.
LoopTypes ==
    /\ design \in Designs
    /\ at \in {"next", "running", "returned", "appended", "cleared", "finally",
               "ended"}
    /\ position \in 0 .. Len(planned)
    /\ partial \in {0, position}
    /\ outcome \in {"none", "recorded", "failed"}
    /\ entries \in Seq({"recorded", "failed"})
    /\ status \in {"finished", "stopped", "interrupted", "harness_error"}
LoopInv ==
    /\ at \notin {"finally", "ended"} => status = "finished"
    /\ at \in {"next", "cleared"} => partial = 0
    /\ at \in {"running", "returned", "appended"} =>
          position > 0 /\ partial = position
    /\ at \in {"running", "returned"} => Len(entries) = position - 1 /\ Clean
    /\ at \in {"next", "appended", "cleared"} => Len(entries) = position
    /\ at = "next" => Clean
    /\ at = "returned" => outcome # "none"
    /\ at \in {"appended", "cleared"} =>
          /\ position > 0 /\ entries[position] = outcome
          /\ CleanBefore(position)

\* How it ended, for each of the four statuses.
EndInv ==
    at \in {"finally", "ended"} =>
        /\ status = "finished" => /\ position = Len(planned) /\ partial = 0
                                  /\ Len(entries) = position /\ Clean
        /\ status = "stopped" =>
              /\ position > 0 /\ partial = 0 /\ Len(entries) = position
              /\ entries[position] = "failed" /\ CleanBefore(position)
        /\ status = "harness_error" =>
              /\ position > 0 /\ partial = position
              /\ Len(entries) = position - 1 /\ Clean
        /\ status = "interrupted" =>
              /\ partial = 0 => Len(entries) = position
              /\ partial # 0 => Len(entries) \in {position - 1, position}
              /\ Len(entries) < position => Clean
              /\ CleanBefore(position)
SavedInv ==
    saved = IF at = "ended" /\ Validates
            THEN {[status |-> status, entries |-> entries, partial |-> partial]}
            ELSE {}

ComparisonInv == LoopTypes /\ LoopInv /\ EndInv /\ SavedInv

-----------------------------------------------------------------------------
\* Two policies under two faults, or two or three policies in one case.
PolicyList(d) ==
    IF d.kind = "claims" THEN <<"baseline", "read-back">>
    ELSE IF d.kind = "responses" THEN <<"pass-through", "validated">>
    ELSE IF d.control
    THEN <<"single-attempt", "retry-unprotected", "retry-idempotent">>
    ELSE <<"retry-unprotected", "retry-idempotent">>
FaultList(d) == IF d.kind = "claims" THEN <<"none", "dropped-write">>
            ELSE <<"the case">>
Injective(s) == \A i, j \in DOMAIN s : s[i] = s[j] => i = j

LEMMA PolicyListIs ==
    ASSUME NEW d
    PROVE  /\ Len(PolicyList(d)) \in {2, 3}
           /\ DOMAIN PolicyList(d) = 1 .. Len(PolicyList(d))
           /\ Injective(PolicyList(d))
  <1>1. CASE PolicyList(d) = <<"baseline", "read-back">>
    BY <1>1 DEF Injective
  <1>2. CASE PolicyList(d) = <<"pass-through", "validated">>
    BY <1>2 DEF Injective
  <1>3. CASE PolicyList(d) = <<"single-attempt", "retry-unprotected",
                          "retry-idempotent">>
    BY <1>3 DEF Injective
  <1>4. CASE PolicyList(d) = <<"retry-unprotected", "retry-idempotent">>
    BY <1>4 DEF Injective
  <1> QED BY <1>1, <1>2, <1>3, <1>4 DEF PolicyList

LEMMA FaultListIs ==
    ASSUME NEW d
    PROVE  /\ Len(FaultList(d)) \in {1, 2}
           /\ DOMAIN FaultList(d) = 1 .. Len(FaultList(d))
           /\ Injective(FaultList(d))
  <1>1. CASE FaultList(d) = <<"none", "dropped-write">>
    BY <1>1 DEF Injective
  <1>2. CASE FaultList(d) = <<"the case">>
    <2>1. Len(<<"the case">>) = 1 /\ DOMAIN <<"the case">> = 1 .. 1
      OBVIOUS
    <2>2. Len(FaultList(d)) = 1 /\ DOMAIN FaultList(d) = 1 .. 1
      BY <1>2, <2>1
    <2>3. 1 .. 1 = {1}
      OBVIOUS
    <2> HIDE <1>2
    <2> QED BY <2>2, <2>3 DEF Injective
  <1> QED BY <1>1, <1>2 DEF FaultList

\* The place of the k-th of n things in a trial.
Turned(n, k, t) == IF t % 2 = 0 THEN n + 1 - k ELSE k

LEMMA TrialIs ==
    ASSUME NEW d, NEW t \in Nat
    PROVE  /\ Len(Policies(d, t)) = Len(PolicyList(d))
           /\ Len(Faults(d, t)) = Len(FaultList(d))
           /\ \A k \in 1 .. Len(PolicyList(d)) :
                 Policies(d, t)[k]
                    = PolicyList(d)[Turned(Len(PolicyList(d)), k, t)]
           /\ \A k \in 1 .. Len(FaultList(d)) :
                 Faults(d, t)[k] = FaultList(d)[Turned(Len(FaultList(d)), k, t)]
  <1>1. Policies(d, t) = Reverse2(PolicyList(d), t % 2 = 0)
    BY DEF Policies, PolicyList
  <1>2. Faults(d, t) = Reverse2(FaultList(d), t % 2 = 0)
    BY DEF Faults, FaultList
  <1>3. ASSUME NEW s, DOMAIN s = 1 .. Len(s), Len(s) \in Nat
        PROVE  /\ Len(Reverse2(s, t % 2 = 0)) = Len(s)
               /\ \A k \in 1 .. Len(s) :
                     Reverse2(s, t % 2 = 0)[k] = s[Turned(Len(s), k, t)]
    BY <1>3 DEF Reverse2, Turned
  <1>4. Len(PolicyList(d)) \in Nat /\ Len(FaultList(d)) \in Nat
    BY PolicyListIs, FaultListIs
  <1> QED BY <1>1, <1>2, <1>3, <1>4, PolicyListIs, FaultListIs

\* The plan has a natural number of runs.
LEMMA PlanLength ==
    ASSUME NEW d, d.trials \in Nat
    PROVE  /\ Width(d) = Len(PolicyList(d)) * Len(FaultList(d))
           /\ Width(d) \in {2, 3, 4, 6}
           /\ d.trials * Width(d) \in Nat
           /\ Len(Schedule(d)) = d.trials * Width(d)
           /\ DOMAIN Schedule(d) = 1 .. d.trials * Width(d)
  <1>1. Width(d) = Len(PolicyList(d)) * Len(FaultList(d))
    BY TrialIs DEF Width
  <1>2. \A p \in {2, 3}, f \in {1, 2} : p * f \in {2, 3, 4, 6}
    OBVIOUS
  <1>3. Width(d) \in {2, 3, 4, 6}
    BY <1>1, <1>2, PolicyListIs, FaultListIs
  <1>4. d.trials * Width(d) \in Nat
    BY <1>3
  <1> QED BY <1>1, <1>3, <1>4 DEF Schedule

LEMMA PlannedIs == design \in Designs => Len(planned) \in Nat
  <1> SUFFICES ASSUME design \in Designs PROVE Len(planned) \in Nat
      OBVIOUS
  <1>1. design.trials \in Nat
    BY ComparisonAssumption DEF ComparisonAssumption
  <1> QED BY <1>1, PlanLength DEF planned

-----------------------------------------------------------------------------
LEMMA ComparisonStarts == ComparisonInit => ComparisonInv
  <1> SUFFICES ASSUME ComparisonInit PROVE ComparisonInv
      OBVIOUS
  <1>1. Len(planned) \in Nat
    BY PlannedIs DEF ComparisonInit
  <1> QED
    BY <1>1 DEF ComparisonInit, ComparisonInv, LoopTypes, LoopInv, EndInv,
       SavedInv, Clean

LEMMA ComparisonGoesOn ==
    ComparisonInv /\ [ComparisonNext]_comparison => ComparisonInv'
  <1> SUFFICES ASSUME ComparisonInv, [ComparisonNext]_comparison
               PROVE  ComparisonInv'
      OBVIOUS
  <1> USE DEF ComparisonInv, LoopTypes
  <1>0. /\ design' = design /\ planned' = planned /\ Len(planned) \in Nat
        /\ position \in Nat /\ Len(entries) \in Nat
    BY PlannedIs DEF planned, comparison, ComparisonNext, Start, RunReturns,
       RunRaises, Record, Clear, GoOn, AllDone, Interrupt, Save
  <1>1. CASE Start
    BY <1>0, <1>1 DEF Start, LoopInv, EndInv, SavedInv, Clean, CleanBefore
  <1>2. CASE RunReturns
    BY <1>0, <1>2 DEF RunReturns, LoopInv, EndInv, SavedInv, Clean, CleanBefore
  <1>3. CASE RunRaises
    BY <1>0, <1>3 DEF RunRaises, LoopInv, EndInv, SavedInv, Clean, CleanBefore
  <1>4. CASE Record
    <2>1. /\ entries' \in Seq({"recorded", "failed"})
          /\ Len(entries') = Len(entries) + 1
          /\ entries'[Len(entries) + 1] = outcome
          /\ \A i \in 1 .. Len(entries) : entries'[i] = entries[i]
      BY <1>4 DEF Record, LoopInv
    <2>2. LoopTypes'
      BY <1>0, <1>4, <2>1 DEF Record
    <2>3. LoopInv'
      BY <1>0, <1>4, <2>1 DEF Record, LoopInv, Clean, CleanBefore
    <2> QED BY <1>4, <2>2, <2>3 DEF Record, EndInv, SavedInv
  <1>5. CASE Clear
    BY <1>0, <1>5 DEF Clear, LoopInv, EndInv, SavedInv, Clean, CleanBefore
  <1>6. CASE GoOn
    BY <1>0, <1>6 DEF GoOn, LoopInv, EndInv, SavedInv, Clean, CleanBefore
  <1>7. CASE AllDone
    BY <1>0, <1>7 DEF AllDone, LoopInv, EndInv, SavedInv, Clean, CleanBefore
  <1>8. CASE Interrupt
    BY <1>0, <1>8 DEF Interrupt, LoopInv, EndInv, SavedInv, Clean, CleanBefore
  <1>9. CASE Save
    <2>1. LoopTypes' /\ LoopInv' /\ EndInv'
      BY <1>0, <1>9 DEF Save, LoopInv, EndInv, Clean, CleanBefore
    <2>2. Validates' = Validates
      BY <1>0, <1>9 DEF Save, Validates
    <2> QED BY <1>9, <2>1, <2>2 DEF Save, SavedInv
  <1>10. CASE UNCHANGED comparison
    <2>1. Validates' = Validates
      BY <1>0, <1>10 DEF comparison, Validates
    <2> QED BY <1>0, <1>10, <2>1 DEF comparison, LoopInv, EndInv, SavedInv,
            Clean, CleanBefore
  <1> QED BY <1>1, <1>2, <1>3, <1>4, <1>5, <1>6, <1>7, <1>8, <1>9, <1>10
          DEF ComparisonNext

LEMMA ComparisonInvariant == ComparisonSpec => []ComparisonInv
  BY ComparisonStarts, ComparisonGoesOn, PTL DEF ComparisonSpec

\* What the invariant says of an ended comparison.
LEMMA EndedIs ==
    ASSUME ComparisonInv
    PROVE  ComparisonIsSaved
  <1> USE DEF ComparisonInv, LoopTypes
  <1>0. Len(planned) \in Nat /\ position \in Nat /\ Len(entries) \in Nat
    BY PlannedIs
  <1>1. ComparisonTypes
    BY <1>0 DEF ComparisonTypes, LoopInv, EndInv
  <1>2. NothingAfterFailure
    BY <1>0 DEF NothingAfterFailure, LoopInv, EndInv, Clean, CleanBefore
  <1>3. ASSUME at = "ended", status # "interrupted" PROVE Validates
    BY <1>0, <1>3 DEF Validates, EndInv
  <1>4. EndedIsSaved
    <2> SUFFICES ASSUME at = "ended", status # "interrupted"
                 PROVE  \E c \in saved :
            /\ c.status = "finished" => Len(c.entries) = Len(planned)
            /\ c.status = "stopped" <=> \E i \in 1 .. Len(c.entries) :
                                           c.entries[i] = "failed"
            /\ Len(c.entries) = IF c.status = "harness_error" THEN position - 1
                                ELSE position
            /\ c.partial = IF c.status = "harness_error" THEN position ELSE 0
        BY DEF EndedIsSaved
    <2> DEFINE c == [status |-> status, entries |-> entries,
                     partial |-> partial]
    <2>1. c \in saved /\ c.status = status /\ c.entries = entries
          /\ c.partial = partial
      BY <1>3 DEF SavedInv
    <2>2. status = "finished" => Len(entries) = Len(planned)
      BY DEF EndInv
    <2>3. status = "stopped" <=>
              \E i \in 1 .. Len(entries) : entries[i] = "failed"
      BY <1>0 DEF EndInv, Clean
    <2>4. /\ Len(entries) = IF status = "harness_error" THEN position - 1
                            ELSE position
          /\ partial = IF status = "harness_error" THEN position ELSE 0
      BY <1>0 DEF EndInv
    <2> HIDE DEF c
    <2> QED BY <2>1, <2>2, <2>3, <2>4
  <1>5. OnlyOverlapIsLost
    <2> SUFFICES ASSUME at = "ended"
                 PROVE  /\ saved = {} <=> Overlapping /\ design.kind # "claims"
                        /\ Overlapping => status = "interrupted"
                        /\ \A c \in saved :
                              /\ c = [status |-> status, entries |-> entries,
                                      partial |-> partial]
                              /\ \/ c.partial \in {0, Len(c.entries) + 1}
                                 \/ Overlapping
        BY DEF OnlyOverlapIsLost
    <2>1. Overlapping => status = "interrupted"
      BY <1>0 DEF Overlapping, EndInv
    <2>2. Validates <=> ~(Overlapping /\ design.kind # "claims")
      BY <1>0 DEF Validates, Overlapping, EndInv
    <2>3. partial \in {0, Len(entries) + 1} \/ Overlapping
      BY <1>0 DEF Overlapping, EndInv
    <2>4. saved = IF Validates
                  THEN {[status |-> status, entries |-> entries,
                         partial |-> partial]}
                  ELSE {}
      BY DEF SavedInv
    <2> DEFINE record == [status |-> status, entries |-> entries,
                          partial |-> partial]
    <2>5. record.partial = partial /\ record.entries = entries
      OBVIOUS
    <2> HIDE DEF record
    <2>6. saved = IF Validates THEN {record} ELSE {}
      BY <2>4 DEF record
    <2>7. \A c \in saved : c = record
      BY <2>6
    <2>8. \A c \in saved :
              c.partial \in {0, Len(c.entries) + 1} \/ Overlapping
      BY <2>3, <2>5, <2>7
    <2>9. saved = {} <=> ~Validates
      BY <2>6
    <2> QED BY <2>1, <2>2, <2>7, <2>8, <2>9 DEF record
  <1> QED BY <1>1, <1>2, <1>4, <1>5 DEF ComparisonIsSaved

\* Whatever the plan and however the loop ends, the comparison is saved as it
\* went; only Ctrl-C between recording a run and forgetting its directory
\* loses one (the loop and the finally of _compare and _reliability_compare).
THEOREM ComparisonsAreSaved == ComparisonSpec => []ComparisonIsSaved
  BY ComparisonInvariant, EndedIs, PTL

-----------------------------------------------------------------------------
(* The orders of a comparison.                                             *)

\* Where the y-th policy under the x-th fault runs in trial t.
Place(d, t, x, y) ==
    LET p == Len(PolicyList(d))
        f == Len(FaultList(d))
    IN  (t - 1) * (p * f) + (Turned(f, x, t) - 1) * p + Turned(p, y, t)

\* A number has one quotient and one remainder.
LEMMA DivModUnique ==
    ASSUME NEW w \in {1, 2, 3, 4, 6}, NEW n \in Nat, NEW q \in Nat,
           NEW r \in 0 .. w - 1
    PROVE  n = q * w + r <=> n \div w = q /\ n % w = r
  <1>1. CASE w = 1
    BY <1>1
  <1>2. CASE w = 2
    BY <1>2
  <1>3. CASE w = 3
    BY <1>3
  <1>4. CASE w = 4
    BY <1>4
  <1>5. CASE w = 6
    BY <1>5
  <1> QED BY <1>1, <1>2, <1>3, <1>4, <1>5

\* The run at place n of a plan.
LEMMA RunAt ==
    ASSUME NEW d, d.trials \in Nat, NEW n \in DOMAIN Schedule(d)
    PROVE  LET p == Len(PolicyList(d))
               f == Len(FaultList(d))
               t == ((n - 1) \div (p * f)) + 1
               m == (n - 1) % (p * f)
           IN  /\ t \in 1 .. d.trials /\ m \in 0 .. p * f - 1
               /\ (m \div p) + 1 \in 1 .. f /\ (m % p) + 1 \in 1 .. p
               /\ Schedule(d)[n] =
                    [trial |-> t,
                     fault |-> FaultList(d)[Turned(f, (m \div p) + 1, t)],
                     policy |-> PolicyList(d)[Turned(p, (m % p) + 1, t)]]
  <1> DEFINE p == Len(PolicyList(d))
             f == Len(FaultList(d))
             w == p * f
             t == ((n - 1) \div w) + 1
             m == (n - 1) % w
  <1>1. p \in {2, 3} /\ f \in {1, 2}
    BY PolicyListIs, FaultListIs
  <1>2. /\ w \in {2, 3, 4, 6} /\ Width(d) = w
        /\ n \in 1 .. d.trials * w
        /\ Schedule(d)[n] = Trial(d, t)[m + 1]
    BY PlanLength DEF Schedule
  <1>3. t \in 1 .. d.trials /\ m \in 0 .. w - 1
    <2> HIDE DEF w
    <2>1. CASE w = 2
      BY <1>2, <2>1
    <2>2. CASE w = 3
      BY <1>2, <2>2
    <2>3. CASE w = 4
      BY <1>2, <2>3
    <2>4. CASE w = 6
      BY <1>2, <2>4
    <2> QED BY <1>2, <2>1, <2>2, <2>3, <2>4
  <1> HIDE DEF t, m
  <1>4. (m \div p) + 1 \in 1 .. f /\ (m % p) + 1 \in 1 .. p
    <2> HIDE DEF p, f
    <2>1. CASE p = 2 /\ f = 1
      BY <1>3, <2>1
    <2>2. CASE p = 2 /\ f = 2
      BY <1>3, <2>2
    <2>3. CASE p = 3 /\ f = 1
      BY <1>3, <2>3
    <2>4. CASE p = 3 /\ f = 2
      BY <1>3, <2>4
    <2> QED BY <1>1, <2>1, <2>2, <2>3, <2>4
  <1>5. Trial(d, t)[m + 1] =
            [trial |-> t, fault |-> Faults(d, t)[(m \div p) + 1],
             policy |-> Policies(d, t)[(m % p) + 1]]
    <2>1. Len(Policies(d, t)) = p /\ Len(Faults(d, t)) = f
      BY <1>3, TrialIs
    <2>2. m + 1 \in 1 .. p * f /\ (m + 1) - 1 = m
      BY <1>2, <1>3
    <2> HIDE DEF p, f
    <2> QED BY <2>1, <2>2 DEF Trial
  <1>6. /\ Faults(d, t)[(m \div p) + 1]
             = FaultList(d)[Turned(f, (m \div p) + 1, t)]
        /\ Policies(d, t)[(m % p) + 1]
             = PolicyList(d)[Turned(p, (m % p) + 1, t)]
    BY <1>3, <1>4, TrialIs
  <1> QED BY <1>2, <1>3, <1>4, <1>5, <1>6 DEF t, m

\* A place names one run: turning back what is turned.
LEMMA TurnedBack ==
    ASSUME NEW n \in {1, 2, 3}, NEW t \in Nat, NEW k \in 1 .. n
    PROVE  /\ Turned(n, k, t) \in 1 .. n
           /\ Turned(n, Turned(n, k, t), t) = k
           /\ Turned(n, k, t + 1) = n + 1 - Turned(n, k, t)
  <1>1. (t + 1) % 2 = 0 <=> t % 2 # 0
    OBVIOUS
  <1> QED BY <1>1 DEF Turned

LEMMA TurnedIs ==
    ASSUME NEW d, NEW t \in Nat
    PROVE  /\ \A x \in DOMAIN FaultList(d) :
                 /\ Turned(Len(FaultList(d)), x, t) \in DOMAIN FaultList(d)
                 /\ Turned(Len(FaultList(d)), x, t + 1)
                      = Len(FaultList(d)) + 1 - Turned(Len(FaultList(d)), x, t)
           /\ \A y \in DOMAIN PolicyList(d) :
                 /\ Turned(Len(PolicyList(d)), y, t) \in DOMAIN PolicyList(d)
                 /\ Turned(Len(PolicyList(d)), y, t + 1)
                      = Len(PolicyList(d)) + 1
                        - Turned(Len(PolicyList(d)), y, t)
  <1>1. \A n \in {1, 2, 3} : \A k \in 1 .. n :
            /\ Turned(n, k, t) \in 1 .. n
            /\ Turned(n, k, t + 1) = n + 1 - Turned(n, k, t)
    BY TurnedBack
  <1>2. /\ Len(FaultList(d)) \in {1, 2, 3} /\ Len(PolicyList(d)) \in {1, 2, 3}
        /\ DOMAIN FaultList(d) = 1 .. Len(FaultList(d))
        /\ DOMAIN PolicyList(d) = 1 .. Len(PolicyList(d))
    BY FaultListIs, PolicyListIs
  <1> QED BY <1>1, <1>2

LEMMA PlaceIsUnique ==
    ASSUME NEW d, d.trials \in Nat, NEW t \in 1 .. d.trials,
           NEW x \in DOMAIN FaultList(d), NEW y \in DOMAIN PolicyList(d)
    PROVE  /\ Place(d, t, x, y) \in DOMAIN Schedule(d)
           /\ \A n \in DOMAIN Schedule(d) :
                 Schedule(d)[n] = [trial |-> t, fault |-> FaultList(d)[x],
                                   policy |-> PolicyList(d)[y]]
                    <=> n = Place(d, t, x, y)
  <1> DEFINE p == Len(PolicyList(d))
             f == Len(FaultList(d))
             u == Turned(f, x, t)
             v == Turned(p, y, t)
             r == (u - 1) * p + (v - 1)
  <1>1. /\ p \in {2, 3} /\ f \in {1, 2} /\ x \in 1 .. f /\ y \in 1 .. p
        /\ t \in Nat
    BY PolicyListIs, FaultListIs
  <1>2. u \in 1 .. f /\ v \in 1 .. p
    BY <1>1, TurnedBack
  <1>3. Place(d, t, x, y) = (t - 1) * (p * f) + (u - 1) * p + v
    BY DEF Place
  <1>4. p * f \in {2, 3, 4, 6} /\ DOMAIN Schedule(d) = 1 .. d.trials * (p * f)
        /\ d.trials * (p * f) \in Nat
    BY PlanLength
  <1> HIDE DEF u, v
  <1>5. /\ r \in 0 .. p * f - 1
        /\ Place(d, t, x, y) \in 1 .. d.trials * (p * f)
        /\ Place(d, t, x, y) - 1 = (t - 1) * (p * f) + r
        /\ r \div p = u - 1 /\ r % p = v - 1
    <2> HIDE DEF p, f
    <2>1. CASE p = 2 /\ f = 1
      BY <1>1, <1>2, <1>3, <2>1
    <2>2. CASE p = 2 /\ f = 2
      BY <1>1, <1>2, <1>3, <2>2
    <2>3. CASE p = 3 /\ f = 1
      BY <1>1, <1>2, <1>3, <2>3
    <2>4. CASE p = 3 /\ f = 2
      BY <1>1, <1>2, <1>3, <2>4
    <2> QED BY <1>1, <2>1, <2>2, <2>3, <2>4
  <1>6. ASSUME NEW n \in DOMAIN Schedule(d)
        PROVE  Schedule(d)[n] = [trial |-> t, fault |-> FaultList(d)[x],
                                 policy |-> PolicyList(d)[y]]
                  <=> n = Place(d, t, x, y)
    <2> DEFINE s == ((n - 1) \div (p * f)) + 1
               m == (n - 1) % (p * f)
               a == (m \div p) + 1
               b == (m % p) + 1
    <2>1. /\ s \in 1 .. d.trials /\ m \in 0 .. p * f - 1
          /\ a \in 1 .. f /\ b \in 1 .. p
          /\ Schedule(d)[n] = [trial |-> s,
                               fault |-> FaultList(d)[Turned(f, a, s)],
                               policy |-> PolicyList(d)[Turned(p, b, s)]]
      BY <1>6, RunAt
    <2>2. n \in Nat /\ n > 0 /\ n - 1 \in Nat
      BY <1>4
    <2>3. n = Place(d, t, x, y) <=> s = t /\ m = r
      <3>1. /\ t - 1 \in Nat /\ r \in 0 .. p * f - 1 /\ n - 1 \in Nat
            /\ p * f \in {1, 2, 3, 4, 6}
        BY <1>1, <1>4, <1>5, <2>2
      <3>2. n - 1 = (t - 1) * (p * f) + r
               <=> (n - 1) \div (p * f) = t - 1 /\ m = r
        <4> DEFINE w == p * f
        <4>1. w \in {1, 2, 3, 4, 6} /\ r \in 0 .. w - 1
          BY <3>1
        <4> HIDE DEF p, f, r, w
        <4>2. n - 1 = (t - 1) * w + r
                 <=> (n - 1) \div w = t - 1 /\ (n - 1) % w = r
          BY <3>1, <4>1, DivModUnique
        <4> QED BY <4>2 DEF w
      <3>3. n = Place(d, t, x, y) <=> n - 1 = Place(d, t, x, y) - 1
        <4>1. Place(d, t, x, y) \in Int
          BY <1>5
        <4> QED BY <2>2, <4>1
      <3>4. (n - 1) \div (p * f) \in Int
        BY <1>4, <2>2
      <3> HIDE DEF p, f, r, m
      <3>5. (n - 1) \div (p * f) = t - 1 <=> s = t
        BY <1>1, <3>4
      <3> HIDE DEF s
      <3> QED BY <1>5, <3>2, <3>3, <3>5
    <2>4. m = r <=> a = u /\ b = v
      <3>1. m = (u - 1) * p + (v - 1) <=> m \div p = u - 1 /\ m % p = v - 1
        <4>1. m \in Nat /\ u - 1 \in Nat /\ v - 1 \in 0 .. p - 1
              /\ p \in {1, 2, 3, 4, 6}
          BY <1>1, <1>2, <2>1
        <4> HIDE DEF p, f, m
        <4> QED BY <4>1, DivModUnique
      <3>2. m \div p \in Int /\ m % p \in Int /\ u \in Int /\ v \in Int
        <4>1. m \in Int /\ p \in {2, 3}
          BY <1>1, <2>1
        <4> HIDE DEF m, p, f
        <4> QED BY <1>2, <4>1
      <3> HIDE DEF m, p, f
      <3>3. m \div p = u - 1 <=> a = u
        BY <3>2
      <3>4. m % p = v - 1 <=> b = v
        BY <3>2
      <3> HIDE DEF a, b
      <3> QED BY <3>1, <3>3, <3>4
    <2> HIDE DEF s, m, a, b, r, p, f
    <2>5. s = t => (Turned(f, a, s) = x <=> a = u)
      BY <1>1, <2>1, TurnedBack DEF u
    <2>6. s = t => (Turned(p, b, s) = y <=> b = v)
      BY <1>1, <2>1, TurnedBack DEF v
    <2>7. s = t => Turned(f, a, s) \in 1 .. f /\ Turned(p, b, s) \in 1 .. p
      BY <1>1, <2>1, TurnedBack
    <2>8. s = t => /\ FaultList(d)[Turned(f, a, s)] = FaultList(d)[x]
                         <=> Turned(f, a, s) = x
                   /\ PolicyList(d)[Turned(p, b, s)] = PolicyList(d)[y]
                         <=> Turned(p, b, s) = y
      BY <2>7, PolicyListIs, FaultListIs DEF Injective, p, f
    <2>9. Schedule(d)[n] = [trial |-> t, fault |-> FaultList(d)[x],
                            policy |-> PolicyList(d)[y]]
             <=> /\ s = t
                 /\ FaultList(d)[Turned(f, a, s)] = FaultList(d)[x]
                 /\ PolicyList(d)[Turned(p, b, s)] = PolicyList(d)[y]
      BY <2>1
    <2> QED BY <2>3, <2>4, <2>5, <2>6, <2>8, <2>9
  <1> QED BY <1>4, <1>5, <1>6

\* Every design is counterbalanced, whatever the number of its trials: each
\* policy runs once under each fault in each trial, and which of two policies
\* runs first changes from one trial to the next (schedule,
\* reliability_schedule and retry_schedule).
THEOREM OrdersAreCounterbalanced ==
    ASSUME NEW d, d.trials \in Nat
    PROVE  OrderReverses(d)
  <1>1. \A g \in FaultsUsed(d) :
            \E x \in DOMAIN FaultList(d) : g = FaultList(d)[x]
    <2> SUFFICES ASSUME NEW n \in DOMAIN Schedule(d)
                 PROVE  \E x \in DOMAIN FaultList(d) :
                            Schedule(d)[n].fault = FaultList(d)[x]
        BY DEF FaultsUsed
    <2> DEFINE w == Len(PolicyList(d)) * Len(FaultList(d))
               t == ((n - 1) \div w) + 1
               a == (((n - 1) % w) \div Len(PolicyList(d))) + 1
    <2>1. /\ t \in Nat /\ a \in 1 .. Len(FaultList(d))
          /\ Schedule(d)[n].fault
               = FaultList(d)[Turned(Len(FaultList(d)), a, t)]
      BY RunAt
    <2> HIDE DEF t, a
    <2>2. Turned(Len(FaultList(d)), a, t) \in DOMAIN FaultList(d)
      BY <2>1, FaultListIs, TurnedIs
    <2> QED BY <2>1, <2>2
  <1>2. \A q \in PoliciesUsed(d) :
            \E y \in DOMAIN PolicyList(d) : q = PolicyList(d)[y]
    <2> SUFFICES ASSUME NEW n \in DOMAIN Schedule(d)
                 PROVE  \E y \in DOMAIN PolicyList(d) :
                            Schedule(d)[n].policy = PolicyList(d)[y]
        BY DEF PoliciesUsed
    <2> DEFINE w == Len(PolicyList(d)) * Len(FaultList(d))
               t == ((n - 1) \div w) + 1
               b == (((n - 1) % w) % Len(PolicyList(d))) + 1
    <2>1. /\ t \in Nat /\ b \in 1 .. Len(PolicyList(d))
          /\ Schedule(d)[n].policy
               = PolicyList(d)[Turned(Len(PolicyList(d)), b, t)]
      BY RunAt
    <2> HIDE DEF t, b
    <2>2. Turned(Len(PolicyList(d)), b, t) \in DOMAIN PolicyList(d)
      BY <2>1, PolicyListIs, TurnedIs
    <2> QED BY <2>1, <2>2
  <1>3. ASSUME NEW t \in 1 .. d.trials, t < d.trials,
               NEW x \in DOMAIN FaultList(d),
               NEW y \in DOMAIN PolicyList(d), NEW z \in DOMAIN PolicyList(d),
               Place(d, t, x, y) < Place(d, t, x, z)
        PROVE  Place(d, t + 1, x, z) < Place(d, t + 1, x, y)
    <2> DEFINE p == Len(PolicyList(d))
               f == Len(FaultList(d))
               c == (t - 1) * (p * f) + (Turned(f, x, t) - 1) * p
               e == ((t + 1) - 1) * (p * f) + (Turned(f, x, t + 1) - 1) * p
    <2>1. /\ p \in {2, 3} /\ f \in {1, 2} /\ t \in Nat
          /\ x \in 1 .. f /\ y \in 1 .. p /\ z \in 1 .. p
      BY PolicyListIs, FaultListIs
    <2>2. /\ Turned(f, x, t) \in 1 .. f
          /\ Turned(f, x, t + 1) = f + 1 - Turned(f, x, t)
          /\ Turned(p, y, t) \in 1 .. p /\ Turned(p, z, t) \in 1 .. p
          /\ Turned(p, y, t + 1) = p + 1 - Turned(p, y, t)
          /\ Turned(p, z, t + 1) = p + 1 - Turned(p, z, t)
      BY <2>1, FaultListIs, PolicyListIs, TurnedIs
    <2>3. /\ Place(d, t, x, y) = c + Turned(p, y, t)
          /\ Place(d, t, x, z) = c + Turned(p, z, t)
          /\ Place(d, t + 1, x, y) = e + Turned(p, y, t + 1)
          /\ Place(d, t + 1, x, z) = e + Turned(p, z, t + 1)
      BY DEF Place
    <2>4. c \in Int /\ e \in Int
      <3>1. p * f \in Int
        BY <2>1
      <3> HIDE DEF p, f
      <3>2. (t - 1) * (p * f) \in Int /\ ((t + 1) - 1) * (p * f) \in Int
            /\ (Turned(f, x, t) - 1) * p \in Int
            /\ (Turned(f, x, t + 1) - 1) * p \in Int
        <4>1. Turned(f, x, t) \in Int /\ Turned(f, x, t + 1) \in Int
              /\ p \in Int
          BY <2>1, <2>2
        <4> QED BY <2>1, <3>1, <4>1
      <3> QED BY <3>2
    <2>5. /\ Turned(p, y, t) \in Int /\ Turned(p, z, t) \in Int /\ p \in Int
          /\ Place(d, t, x, y) < Place(d, t, x, z)
      BY <1>3, <2>1, <2>2
    <2> HIDE DEF c, e, p, f
    <2> QED BY <2>2, <2>3, <2>4, <2>5
  <1>4. ASSUME NEW t \in 1 .. d.trials, NEW g \in FaultsUsed(d),
               NEW q \in PoliciesUsed(d), NEW o \in PoliciesUsed(d)
        PROVE  \E i, j \in DOMAIN Schedule(d) :
                /\ \A k \in DOMAIN Schedule(d) : IsRun(d, k, t, g, q) <=> k = i
                /\ \A k \in DOMAIN Schedule(d) : IsRun(d, k, t, g, o) <=> k = j
                /\ t < d.trials /\ i < j =>
                      \E k, l \in DOMAIN Schedule(d) :
                          /\ IsRun(d, k, t + 1, g, o)
                          /\ IsRun(d, l, t + 1, g, q)
                          /\ k < l
    <2>1. PICK x \in DOMAIN FaultList(d) : g = FaultList(d)[x]
      BY <1>1
    <2>2. PICK y \in DOMAIN PolicyList(d) : q = PolicyList(d)[y]
      BY <1>2
    <2>3. PICK z \in DOMAIN PolicyList(d) : o = PolicyList(d)[z]
      BY <1>2
    <2> DEFINE i == Place(d, t, x, y)
               j == Place(d, t, x, z)
               k == Place(d, t + 1, x, z)
               l == Place(d, t + 1, x, y)
    <2>4. /\ i \in DOMAIN Schedule(d) /\ j \in DOMAIN Schedule(d)
          /\ \A n \in DOMAIN Schedule(d) : IsRun(d, n, t, g, q) <=> n = i
          /\ \A n \in DOMAIN Schedule(d) : IsRun(d, n, t, g, o) <=> n = j
      BY <2>1, <2>2, <2>3, PlaceIsUnique DEF IsRun
    <2>5. ASSUME t < d.trials, i < j
          PROVE  /\ k \in DOMAIN Schedule(d) /\ l \in DOMAIN Schedule(d)
                 /\ IsRun(d, k, t + 1, g, o) /\ IsRun(d, l, t + 1, g, q)
                 /\ k < l
      <3>1. t + 1 \in 1 .. d.trials
        BY <2>5
      <3>2. /\ k \in DOMAIN Schedule(d) /\ l \in DOMAIN Schedule(d)
            /\ IsRun(d, k, t + 1, g, o) /\ IsRun(d, l, t + 1, g, q)
        BY <2>1, <2>2, <2>3, <3>1, PlaceIsUnique DEF IsRun
      <3>3. k < l
        BY <1>3, <2>5
      <3> QED BY <3>2, <3>3
    <2> HIDE DEF i, j, k, l
    <2>6. t < d.trials /\ i < j =>
             \E m, n \in DOMAIN Schedule(d) :
                 /\ IsRun(d, m, t + 1, g, o)
                 /\ IsRun(d, n, t + 1, g, q)
                 /\ m < n
      BY <2>5
    <2> USE <2>4
    <2> WITNESS i \in DOMAIN Schedule(d), j \in DOMAIN Schedule(d)
    <2> QED BY <2>4, <2>6
  <1> QED BY <1>4 DEF OrderReverses
=============================================================================
