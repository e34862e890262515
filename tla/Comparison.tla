----------------------------- MODULE Comparison -----------------------------
(***************************************************************************)
(* A comparison (cli.py, _compare and _reliability_compare): the cells of  *)
(* a balanced schedule are run one after the other, each in a directory of *)
(* its own, and whatever ends the loop, a comparison.json is to be saved   *)
(* with the entries recorded so far and the directory of a partial run.    *)
(* Ctrl-C may arrive between any two statements of the loop.               *)
(***************************************************************************)
EXTENDS Naturals, Sequences

CONSTANTS
    Designs   \* comparisons considered: [kind, trials, control]

ASSUME ComparisonAssumption ==
    \A d \in Designs : /\ d.kind \in {"claims", "responses", "retries"}
                       /\ d.trials \in Nat \ {0}
                       /\ d.control \in BOOLEAN

VARIABLES
    design,    \* never changes
    at,        \* the statement of the loop
    position,  \* runs started
    partial,   \* the run whose directory is partial_directory, or 0
    outcome,   \* what the last run returned
    entries,   \* outcomes recorded, in order
    status,    \* local status
    saved      \* comparison.json: {} or one record

comparison == <<design, at, position, partial, outcome, entries, status, saved>>

Reverse2(s, turn) == IF turn THEN [i \in 1 .. Len(s) |-> s[Len(s) + 1 - i]]
                     ELSE s

\* The policies of one trial, in the order of its runs.
Policies(d, trial) ==
    Reverse2(
        IF d.kind = "claims" THEN <<"baseline", "read-back">>
        ELSE IF d.kind = "responses" THEN <<"pass-through", "validated">>
        ELSE IF d.control
        THEN <<"single-attempt", "retry-unprotected", "retry-idempotent">>
        ELSE <<"retry-unprotected", "retry-idempotent">>,
        trial % 2 = 0)

Faults(d, trial) ==
    Reverse2(IF d.kind = "claims" THEN <<"none", "dropped-write">>
             ELSE <<"the case">>, trial % 2 = 0)

\* One trial: for each fault, every policy.
Trial(d, trial) ==
    LET ps == Policies(d, trial)
        fs == Faults(d, trial)
    IN  [n \in 1 .. Len(ps) * Len(fs) |->
            [trial |-> trial, fault |-> fs[((n - 1) \div Len(ps)) + 1],
             policy |-> ps[((n - 1) % Len(ps)) + 1]]]

\* schedule, reliability_schedule, retry_schedule: one trial after the other;
\* the sequence number of a run is its index.
Width(d) == Len(Policies(d, 1)) * Len(Faults(d, 1))
Schedule(d) ==
    [n \in 1 .. d.trials * Width(d) |->
        Trial(d, ((n - 1) \div Width(d)) + 1)[((n - 1) % Width(d)) + 1]]
planned == Schedule(design)

ComparisonInit ==
    /\ design \in Designs
    /\ at = "next"
    /\ position = 0
    /\ partial = 0
    /\ outcome = "none"
    /\ entries = << >>
    /\ status = "finished"
    /\ saved = {}

\* trial_started: the directory of the run is noted before it exists.
Start ==
    /\ at = "next"
    /\ position < Len(planned)
    /\ position' = position + 1
    /\ partial' = position + 1
    /\ at' = "running"
    /\ UNCHANGED <<design, outcome, entries, status, saved>>

\* _execute returns a graded observation; _failed says whether the provider
\* or the evaluator could not do its part.
RunReturns ==
    /\ at = "running"
    /\ outcome' \in {"recorded", "failed"}
    /\ at' = "returned"
    /\ UNCHANGED <<design, position, partial, entries, status, saved>>

RunRaises ==
    /\ at = "running"
    /\ status' = "harness_error"
    /\ at' = "finally"
    /\ UNCHANGED <<design, position, partial, outcome, entries, saved>>

Record ==
    /\ at = "returned"
    /\ entries' = Append(entries, outcome)
    /\ at' = "appended"
    /\ UNCHANGED <<design, position, partial, outcome, status, saved>>

\* Mutant: the directory of a completed run stays the partial one.
ClearNothing ==
    /\ at = "appended"
    /\ at' = "cleared"
    /\ UNCHANGED <<design, position, partial, outcome, entries, status, saved>>

Clear ==
    /\ at = "appended"
    /\ partial' = 0
    /\ at' = "cleared"
    /\ UNCHANGED <<design, position, outcome, entries, status, saved>>

GoOn ==
    /\ at = "cleared"
    /\ status' = IF outcome = "failed" THEN "stopped" ELSE status
    /\ at' = IF outcome = "failed" THEN "finally" ELSE "next"
    /\ UNCHANGED <<design, position, partial, outcome, entries, saved>>

AllDone ==
    /\ at = "next"
    /\ position = Len(planned)
    /\ at' = "finally"
    /\ UNCHANGED <<design, position, partial, outcome, entries, status, saved>>

\* KeyboardInterrupt
Interrupt ==
    /\ at \in {"next", "running", "returned", "appended", "cleared"}
    /\ status' = "interrupted"
    /\ at' = "finally"
    /\ UNCHANGED <<design, position, partial, outcome, entries, saved>>

\* The validators of the comparison; those of M04 have none.
Validates ==
    design.kind # "claims" =>
        /\ status = "finished" =>
              Len(entries) = Len(planned) /\ partial = 0
        /\ partial # 0 => partial = Len(entries) + 1

\* finally: a comparison its own validators refuse is not saved at all.
Save ==
    /\ at = "finally"
    /\ saved' = IF Validates
                THEN {[status |-> status, entries |-> entries,
                       partial |-> partial]}
                ELSE {}
    /\ at' = "ended"
    /\ UNCHANGED <<design, position, partial, outcome, entries, status>>

ComparisonNext ==
    \/ Start \/ RunReturns \/ RunRaises \/ Record \/ Clear \/ GoOn
    \/ AllDone \/ Interrupt \/ Save

ComparisonSpec == ComparisonInit /\ [][ComparisonNext]_comparison

-----------------------------------------------------------------------------
\* Every policy runs under every fault once per trial, and of any two the one
\* that runs first changes with every trial (order effects).
IsRun(d, n, t, f, p) ==
    Schedule(d)[n] = [trial |-> t, fault |-> f, policy |-> p]
FaultsUsed(d) == {Schedule(d)[n].fault : n \in DOMAIN Schedule(d)}
PoliciesUsed(d) == {Schedule(d)[n].policy : n \in DOMAIN Schedule(d)}
OrderReverses(d) ==
    \A t \in 1 .. d.trials, f \in FaultsUsed(d), p, q \in PoliciesUsed(d) :
        \E i, j \in DOMAIN Schedule(d) :
            /\ \A n \in DOMAIN Schedule(d) : IsRun(d, n, t, f, p) <=> n = i
            /\ \A n \in DOMAIN Schedule(d) : IsRun(d, n, t, f, q) <=> n = j
            /\ t < d.trials /\ i < j =>
                  \E k, l \in DOMAIN Schedule(d) :
                      /\ IsRun(d, k, t + 1, f, q)
                      /\ IsRun(d, l, t + 1, f, p)
                      /\ k < l

ComparisonTypes ==
    /\ design \in Designs
    /\ position \in 0 .. Len(planned)
    /\ partial \in 0 .. position
    /\ entries \in Seq({"recorded", "failed"})
    /\ Len(entries) <= position
    /\ status \in {"finished", "stopped", "interrupted", "harness_error"}
    /\ at = "next" => partial = 0 /\ Len(entries) = position

\* However the loop ends without an interrupt, the comparison is saved with
\* every run that returned, names the run that broke as the partial one, and
\* says that it is finished, or stopped by a failed run, when it is.
EndedIsSaved ==
    at = "ended" /\ status # "interrupted" =>
        \E c \in saved :
            /\ c.status = "finished" => Len(c.entries) = Len(planned)
            /\ c.status = "stopped" <=> \E i \in 1 .. Len(c.entries) :
                                           c.entries[i] = "failed"
            /\ Len(c.entries) = IF c.status = "harness_error" THEN position - 1
                                ELSE position
            /\ c.partial = IF c.status = "harness_error" THEN position ELSE 0

\* Provider and evaluator failures stop the comparison: what is recorded
\* before the last entry did not fail, and nothing is started after it.
NothingAfterFailure ==
    \A i \in 1 .. Len(entries) :
        entries[i] = "failed" => i = Len(entries) /\ position = i

\* Between entries.append and partial = None the run that is recorded is still
\* the partial one.  Ctrl-C there is the one way to lose a comparison of
\* responses or retries: in every other end, interrupts included, what is saved
\* is what was recorded, and a partial run is the next one of the plan.
Overlapping == partial # 0 /\ partial = Len(entries)
OnlyOverlapIsLost ==
    at = "ended" =>
        /\ saved = {} <=> Overlapping /\ design.kind # "claims"
        /\ Overlapping => status = "interrupted"
        /\ \A c \in saved :
              /\ c = [status |-> status, entries |-> entries,
                      partial |-> partial]
              /\ c.partial \in {0, Len(c.entries) + 1} \/ Overlapping

\* A comparison records a prefix of its plan, stops at the first failure, and is
\* saved as it ended.
ComparisonIsSaved ==
    ComparisonTypes /\ EndedIsSaved /\ NothingAfterFailure /\ OnlyOverlapIsLost

\* "Unexpected harness errors and Ctrl-C preserve completed observations and
\* identify the partial run" (PLAN.md, on comparisons): an interrupted
\* comparison is saved, and its partial run is not one that is recorded.
InterruptKeepsEvidence ==
    at = "ended" => \E c \in saved : c.partial > Len(c.entries) \/ c.partial = 0
=============================================================================
