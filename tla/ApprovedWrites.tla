--------------------------- MODULE ApprovedWrites ---------------------------
(***************************************************************************)
(* What an enforced boundary promises, without sessions, journals, clocks  *)
(* or crashes: a decision is taken once per operation, a task is written   *)
(* at most once per operation and only as it was approved, and a call is   *)
(* answered with the task if and only if its operation has one.            *)
(* BoundaryRun implements it.                                              *)
(***************************************************************************)
EXTENDS Naturals

VARIABLES
    decisions,   \* [operation_id, title, approved] of every decided proposal
    written,     \* [operation_id, title, task] of every task written
    answered     \* [turn, operation_id, task] of every create call answered,
                 \* with task 0 for one that wrote none

boundary == <<decisions, written, answered>>

Decided(op) == \E d \in decisions : d.operation_id = op
Task(op) == {w.task : w \in {x \in written : x.operation_id = op}}

BoundaryInit ==
    /\ decisions = {}
    /\ written = {}
    /\ answered = {}

\* An operator, or the scenario controller, decides one proposal.
DecideOne ==
    /\ \E d \in decisions' :
          /\ ~Decided(d.operation_id)
          /\ decisions' = decisions \cup {d}
    /\ UNCHANGED <<written, answered>>

\* A write takes effect as it was approved, before its call is answered.
WriteOne ==
    /\ \E w \in written' :
          /\ Task(w.operation_id) = {}
          /\ \A x \in written : x.task # w.task
          /\ written' = written \cup {w}
          /\ [operation_id |-> w.operation_id, title |-> w.title,
              approved |-> TRUE] \in decisions
          /\ \A a \in answered : a.operation_id # w.operation_id
    /\ UNCHANGED <<decisions, answered>>

\* One call after the other is answered, with its task if it has one.
AnswerOne ==
    /\ \E a \in answered' :
          /\ answered' = answered \cup {a}
          /\ \A b \in answered :
                b.turn < a.turn /\ b.operation_id # a.operation_id
          /\ Task(a.operation_id) \subseteq {a.task}
          /\ a.task # 0 => a.task \in Task(a.operation_id)
    /\ UNCHANGED <<decisions, written>>

BoundaryNext == DecideOne \/ WriteOne \/ AnswerOne

BoundarySpec == BoundaryInit /\ [][BoundaryNext]_boundary
=============================================================================
