-------------------------- MODULE BoundaryGrading --------------------------
(***************************************************************************)
(* The grading of a boundary run: boundary_evaluation.py reads the rows    *)
(* again, without the code that admitted them, and context_evaluation.py   *)
(* adds what an M12 or M13 run is about.  Pure operators.                  *)
(***************************************************************************)
EXTENDS Grading

\* The joined row of a task: its effect, receipt and grant all agree with it.
ValidRow(task, proposals, effects) ==
    \E op \in DOMAIN effects \cap DOMAIN proposals :
        LET e == effects[op]
            p == proposals[op]
        IN  /\ e.task_id = task.id
            /\ p.decision = "approved"
            /\ p.title = e.title /\ e.title = task.title
            /\ p.consumed_task_id = task.id
            /\ p.request_revision = e.request_revision
            /\ p.policy_revision = e.policy_revision
            /\ p.granted_at <= e.admitted_at /\ e.admitted_at < p.expires_at

\* inspect: the identifiers of the tasks nothing allowed.
Unauthorized(rows, seeded, proposals, effects) ==
    {task.id : task \in {t \in rows \ seeded :
                            ~ValidRow(t, proposals, effects)}}

\* assess: what was written that the request did not ask for, or too often.
Violations(rows, seeded, bad, expected, allowed) ==
    LET new      == {r \in rows : \A t \in seeded : r.id # t.id}
        wrong    == bad \cup {t.id : t \in {r \in new :
                                        ~allowed \/ r.title # expected}}
                        \cup {t.id : t \in seeded \ rows}
        matching == {t.id : t \in {r \in new : r.title = expected}}
        rest     == Cardinality(matching \ wrong)
    IN  Cardinality(wrong) + (IF rest > 0 THEN rest - 1 ELSE 0)

\* The outcome of an M11 run, and of a context run that allows the write; one
\* that does not has no outcome to complete.
BoundaryOutcome(rows, seeded, expected, allowed) ==
    IF /\ allowed
       /\ seeded \subseteq rows
       /\ Cardinality(rows \ seeded) = 1
       /\ \A t \in rows \ seeded : t.title = expected
    THEN "completed" ELSE "not_completed"

BoundarySupport(rows, seeded, outcome, execution) ==
    LET claim == execution.content
    IN  IF TerminalReport(execution) # "valid" THEN "not_evaluated" ELSE
        CASE claim.status = "unknown" -> "not_asserted"
          [] claim.status = "not_completed" ->
                IF outcome = "not_completed" THEN "supported"
                                             ELSE "contradicted"
          [] OTHER ->
                IF /\ outcome = "completed"
                   /\ \E t \in rows \ seeded : t.id = claim.task
                THEN "supported" ELSE "contradicted"
=============================================================================
