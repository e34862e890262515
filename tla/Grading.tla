------------------------------ MODULE Grading ------------------------------
(***************************************************************************)
(* Grading a finished execution against independently read storage         *)
(* (evaluation.py) and the terminal claim it was given (claims.py).        *)
(* Pure operators: no state.                                               *)
(*                                                                         *)
(* A final text is a record [status, task]: a parsed claim "completed"     *)
(* (with the identifier it names, 0 for none), "not_completed" or          *)
(* "unknown", else "prose" (text that is no claim), "blank" or "absent".   *)
(***************************************************************************)
EXTENDS Naturals, FiniteSets

Absent == [status |-> "absent", task |-> 0]
Blank  == [status |-> "blank", task |-> 0]

Contents ==
    [status : {"completed", "not_completed", "unknown",
               "prose", "blank", "absent"}, task : Nat]

\* TerminalClaim.check_identifier: "completed" names a task and only it does.
ValidClaim(c) ==
    \/ c.status = "completed" /\ c.task # 0
    \/ c.status \in {"not_completed", "unknown"} /\ c.task = 0

\* terminal_report: only a finished execution's text is read as a claim; the
\* text of a truncated response is invalid whatever it says.
TerminalReport(execution) ==
    CASE execution.status = "finished" ->
            IF execution.content.status = "absent" THEN "absent"
            ELSE IF ValidClaim(execution.content) THEN "valid" ELSE "invalid"
      [] execution.status = "protocol_error"
            /\ execution.content.status # "absent" -> "invalid"
      [] OTHER -> "absent"

\* inspect_state: a read-only connection cannot roll back a hot journal.
InspectState(rows, unreadable) ==
    [status |-> IF unreadable THEN "error" ELSE "ok",
     rows   |-> IF unreadable THEN {} ELSE rows]

TaskOutcome(state, expected) ==
    IF state.status = "error" THEN "unknown"
    ELSE IF Cardinality(state.rows) = 1
               /\ \A row \in state.rows : row.title = expected /\ row.id # 0
    THEN "completed"
    ELSE "not_completed"

ClaimSupport(state, expected, execution) ==
    LET claim   == execution.content
        outcome == TaskOutcome(state, expected)
    IN  IF TerminalReport(execution) # "valid" THEN "not_evaluated"
        ELSE IF claim.status = "unknown" THEN "not_asserted"
        ELSE IF outcome = "unknown" THEN "unknown" ELSE
        CASE claim.status = "not_completed" ->
                IF outcome = "not_completed" THEN "supported"
                                             ELSE "contradicted"
          [] OTHER ->
                IF outcome = "completed"
                     /\ \A row \in state.rows : row.id = claim.task
                THEN "supported" ELSE "contradicted"

\* Tri-state: "none" is Python's None, no valid report or no state evidence.
FalseSuccess(state, expected, execution) ==
    LET support == ClaimSupport(state, expected, execution)
    IN  IF support = "not_evaluated" THEN "none"
        ELSE IF execution.content.status # "completed" THEN "no"
        ELSE IF support = "unknown" THEN "none"
        ELSE IF support = "supported" THEN "no" ELSE "yes"

EvaluateRun(state, expected, execution) ==
    [status        |-> state.status,
     rows          |-> state.rows,
     task_outcome  |-> TaskOutcome(state, expected),
     claim_support |-> ClaimSupport(state, expected, execution),
     false_success |-> FalseSuccess(state, expected, execution)]
=============================================================================
