---------------------------- MODULE ToolService ----------------------------
(***************************************************************************)
(* What a durable run promises its model and its evaluator, with no        *)
(* processes, attempts, journals or crashes in sight: calls are accepted   *)
(* one at a time and in order, a create call takes effect at most once and *)
(* only before it is answered, a success is answered only after the        *)
(* effect, and the verdict is passed once on everything that ever took     *)
(* effect.  DurableRun implements it.                                      *)
(***************************************************************************)
EXTENDS Naturals, Sequences

VARIABLES
    open,      \* the accepted, unanswered call [call_id, call], if any
    effects,   \* [call_id, id, title] of every task that was created
    answers,   \* [call_id, call, answer], in order
    verdict    \* the set of tasks [id, title] that was graded, if any was

service == <<open, effects, answers, verdict>>

\* Call ids m{i}-t{j} are ordered by model response, then by position.
Before(a, b) == a[1] < b[1] \/ (a[1] = b[1] /\ a[2] < b[2])

ServiceInit ==
    /\ open = {}
    /\ effects = {}
    /\ answers = << >>
    /\ verdict = {}

Accept ==
    /\ open = {}
    /\ verdict = {}
    /\ \E c \in open' :
          /\ open' = {c}
          /\ \A i \in 1 .. Len(answers) : Before(answers[i].call_id, c.call_id)
    /\ UNCHANGED <<effects, answers, verdict>>

Apply ==
    /\ \E c \in open :
          /\ c.call.name = "create_task"
          /\ \A e \in effects : e.call_id # c.call_id
          /\ \E new \in effects' :
                /\ effects' = effects \cup {new}
                /\ new = [call_id |-> c.call_id, id |-> new.id,
                          title |-> c.call.arg]
                /\ \A e \in effects : e.id # new.id
    /\ UNCHANGED <<open, answers, verdict>>

\* The answer to a create call is a success only for the task it created; any
\* other answer says nothing about whether there is one.
Respond ==
    /\ \E c \in open, i \in {Len(answers')} :
          /\ i = Len(answers) + 1
          /\ answers' = Append(answers,
                               [call_id |-> c.call_id, call |-> c.call,
                                answer |-> answers'[i].answer])
          /\ c.call.name = "create_task" /\ answers'[i].answer.code = "ok" =>
                [call_id |-> c.call_id, id |-> answers'[i].answer.task,
                 title |-> c.call.arg] \in effects
    /\ open' = {}
    /\ UNCHANGED <<effects, verdict>>

Judge ==
    /\ open = {}
    /\ verdict = {}
    /\ verdict' = {{[id |-> e.id, title |-> e.title] : e \in effects}}
    /\ UNCHANGED <<open, effects, answers>>

ServiceNext == Accept \/ Apply \/ Respond \/ Judge

ServiceSpec == ServiceInit /\ [][ServiceNext]_service
=============================================================================
