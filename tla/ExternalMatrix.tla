--------------------------- MODULE ExternalMatrix ---------------------------
(***************************************************************************)
(* The reproduction of an external failure (external.py): a controller     *)
(* runs one lifecycle after the other, each with a worker that invokes a   *)
(* framework's graph, fails once where the condition says, and resumes:    *)
(* in the same process ("same") or in a second one ("fresh").  Between the *)
(* two invocations and after the last the controller counts the rows the   *)
(* graph really stored.  Ctrl-C, SIGKILL of the controller, deadlines and  *)
(* a worker that dies may come between any two steps.                      *)
(*                                                                         *)
(* The worker is reproduce.py, whose alarm ends it; what the framework     *)
(* does in an invocation is external and left open.                        *)
(***************************************************************************)
EXTENDS Naturals, Sequences, FiniteSets

CONSTANTS
    Plans,         \* matrices: sequences of lifecycles
    MaxSinks(_)    \* bound: calls of the sink in one invocation of a matrix

Lifecycles == [mode : {"same", "fresh"},
               condition : {"healthy", "node-failure", "router-failure"}]

ASSUME PlansAssumption ==
    /\ Plans \subseteq Seq(Lifecycles)
    /\ \A p \in Plans : MaxSinks(p) \in Nat

VARIABLES
    plan,     \* the inventory: one lifecycle per slot
    pc,       \* the statement of run and run_slot
    n,        \* index of the current slot
    slots,    \* the controller's slots
    saved,    \* comparison.json
    found,    \* observations of the current slot
    failure,  \* of the current slot: none, error or interrupt
    owned,    \* the controller holds the worker in its variable process
    over,     \* the deadline of the matrix passed
    worker,   \* the last worker started
    line,     \* the record it printed, until it is read: {} or one record
    resume,   \* "resume" was written to its standard input
    rows      \* how many tasks a reader finds in each slot: {} if unreadable

vars == <<plan, pc, n, slots, saved, found, failure, owned, over, worker,
          line, resume, rows>>

Sizes == {{}} \cup {{k} : k \in Nat}
Reserved == [status |-> "interrupted", symptom |-> "inconclusive",
             found |-> <<>>, final |-> {}, error |-> TRUE]
Unstarted == [Reserved EXCEPT !.status = "unstarted", !.error = FALSE]
NoWorker == [slot |-> 0, at |-> "dead", phase |-> "initial", sinks |-> 0,
             fault |-> FALSE]

Init ==
    /\ plan \in Plans
    /\ pc = "next"
    /\ n = 1
    /\ slots = [k \in DOMAIN plan |-> Unstarted]
    /\ saved = [status |-> "unstarted", slots |-> slots]
    /\ found = <<>>
    /\ failure = "none"
    /\ owned = FALSE
    /\ over = FALSE
    /\ worker = NoWorker
    /\ line = {}
    /\ resume = FALSE
    /\ rows = [k \in DOMAIN plan |-> {}]

Alive == worker.at \notin {"dead", "exited", "failed"}
Condition == plan[n].condition
Fresh == plan[n].mode = "fresh"

-----------------------------------------------------------------------------
(* The worker *)

Both == plan[worker.slot].mode = "same"

\* A first worker creates the table, a second one goes on with the slot.
WorkerStarts ==
    /\ worker.at = "start"
    /\ worker' = [worker EXCEPT !.at = "invoke"]
    /\ rows' = IF worker.phase = "resume" THEN rows
               ELSE [rows EXCEPT ![worker.slot] = {0}]
    /\ UNCHANGED <<plan, pc, n, slots, saved, found, failure, owned, over,
                   line, resume>>

\* The fault: once, in the initial phase only.
FailAt ==
    /\ worker.at = "invoke"
    /\ worker.phase = "initial" /\ ~worker.fault
    /\ plan[worker.slot].condition # "healthy"
    /\ worker' = [worker EXCEPT !.fault = TRUE]
    /\ UNCHANGED <<plan, pc, n, slots, saved, found, failure, owned, over,
                   line, resume, rows>>

\* The graph calls its sink, once or again: counted, then committed, or an
\* exception.
Sink ==
    /\ worker.at = "invoke"
    /\ worker.sinks < MaxSinks(plan)
    /\ worker' = [worker EXCEPT !.sinks = @ + 1]
    /\ rows' \in {rows, [rows EXCEPT ![worker.slot] = {r + 1 : r \in @}]}
    /\ UNCHANGED <<plan, pc, n, slots, saved, found, failure, owned, over,
                   line, resume>>

\* What a record tells of an invocation: an exception, the fault, the calls of
\* the sink, and, of a resume that returned, whether the graph's state says that
\* all is done without it.
Record(error, lost) ==
    [phase |-> worker.phase, error |-> error, fault |-> worker.fault,
     sinks |-> worker.sinks, lost |-> lost]

\* invoke: the record is written to its file and printed.
InvokeEnds ==
    /\ worker.at = "invoke"
    /\ \E error \in BOOLEAN :
       \E lost \in BOOLEAN :
          /\ lost => ~error /\ worker.phase = "resume"
          /\ line' = {Record(error, lost)}
    /\ worker' = [worker EXCEPT !.at = IF worker.phase = "initial" /\ Both
                                       THEN "await" ELSE "leave"]
    /\ UNCHANGED <<plan, pc, n, slots, saved, found, failure, owned, over,
                   resume, rows>>

WorkerExits ==
    /\ worker.at = "leave"
    /\ worker' = [worker EXCEPT !.at = "exited"]
    /\ UNCHANGED <<plan, pc, n, slots, saved, found, failure, owned, over,
                   line, resume, rows>>

WorkerResumes ==
    /\ worker.at = "await"
    /\ resume
    /\ worker' = [NoWorker EXCEPT !.slot = worker.slot, !.at = "invoke",
                                  !.phase = "resume"]
    /\ resume' = FALSE
    /\ UNCHANGED <<plan, pc, n, slots, saved, found, failure, owned, over,
                   line, rows>>

\* Mutant: the alarm is set before the framework is resumed.
WorkerDiesResumed ==
    /\ worker.phase = "resume"
    /\ Alive
    /\ worker' = [worker EXCEPT !.at = "failed"]
    /\ \/ UNCHANGED rows
       \/ /\ worker.at = "invoke"
          /\ rows' = [rows EXCEPT ![worker.slot] = {}]
    /\ UNCHANGED <<plan, pc, n, slots, saved, found, failure, owned, over,
                   line, resume>>

\* Its alarm, or an error of its own; within a commit it leaves a database that
\* a read-only reader cannot recover.
WorkerDies ==
    /\ Alive
    /\ worker' = [worker EXCEPT !.at = "failed"]
    /\ \/ UNCHANGED rows
       \/ /\ worker.at = "invoke"
          /\ rows' = [rows EXCEPT ![worker.slot] = {}]
    /\ UNCHANGED <<plan, pc, n, slots, saved, found, failure, owned, over,
                   line, resume>>

Worker == \/ WorkerStarts \/ FailAt \/ Sink \/ InvokeEnds \/ WorkerExits
          \/ WorkerResumes

-----------------------------------------------------------------------------
(* One lifecycle: run_slot *)

\* The observation is of the phase asked for, by the order of reading.
Phase == IF found = <<>> THEN "initial" ELSE "resume"

Start ==
    /\ pc = "start"
    /\ IF over
       THEN /\ failure' = "error"   \* "Matrix budget exhausted before worker start"
            /\ pc' = "cleanup"
            /\ UNCHANGED <<worker, line, resume>>
       ELSE /\ worker' = [NoWorker EXCEPT !.slot = n, !.at = "start",
                                          !.phase = Phase]
            /\ line' = {}
            /\ resume' = FALSE
            /\ pc' = "started"
            /\ UNCHANGED failure
    /\ UNCHANGED <<plan, n, slots, saved, found, owned, over, rows>>

\* Popen has returned and is assigned.
Own ==
    /\ pc = "started"
    /\ owned' = TRUE
    /\ pc' = "read"
    /\ UNCHANGED <<plan, n, slots, saved, found, failure, over, worker, line,
                   resume, rows>>

\* Mutant: the worker is told to go on as soon as there is a record.
ReadAfterResume ==
    /\ pc = "read"
    /\ \E record \in line :
          \/ /\ ~resume /\ Phase = "initial" /\ ~Fresh
             /\ resume' = TRUE
             /\ UNCHANGED <<found, line, pc>>
          \/ /\ resume \/ Phase = "resume" \/ Fresh \/ worker.at # "await"
             /\ found' = Append(found, [record |-> record, rows |-> rows[n]])
             /\ line' = {}
             /\ pc' = IF Phase = "initial" /\ ~Fresh THEN "read" ELSE "wait"
             /\ UNCHANGED resume
    /\ UNCHANGED <<plan, n, slots, saved, failure, owned, over, worker, rows>>

\* The record, its file and the rows; then "resume", to a worker that waits.
Read ==
    /\ pc = "read"
    /\ \E record \in line :
          found' = Append(found, [record |-> record, rows |-> rows[n]])
    /\ line' = {}
    /\ IF Phase = "initial" /\ ~Fresh
       THEN resume' = TRUE /\ UNCHANGED pc
       ELSE pc' = "wait" /\ UNCHANGED resume
    /\ UNCHANGED <<plan, n, slots, saved, failure, owned, over, worker, rows>>

\* A deadline, which may pass at any moment, a worker that ended before its
\* record, or a record that differs from its file, from the request or from what
\* an invocation can be.
ReadFails ==
    /\ pc = "read"
    /\ failure' = "error"
    /\ pc' = "cleanup"
    /\ UNCHANGED <<plan, n, slots, saved, found, owned, over, worker, line,
                   resume, rows>>

\* stop_worker
Stopped == IF owned THEN [NoWorker EXCEPT !.slot = n] ELSE worker

\* A worker that exits with 0 is reaped, and the next one is started.
Wait ==
    /\ pc = "wait"
    /\ worker.at = "exited"
    /\ worker' = Stopped
    /\ owned' = FALSE
    /\ pc' = IF Len(found) = 2 THEN "cleanup" ELSE "start"
    /\ UNCHANGED <<plan, n, slots, saved, found, failure, over, line, resume,
                   rows>>

WaitFails ==
    /\ pc = "wait"
    /\ failure' = "error"
    /\ pc' = "cleanup"
    /\ UNCHANGED <<plan, n, slots, saved, found, owned, over, worker, line,
                   resume, rows>>

\* Within a commit, too.
StoppedRows ==
    {rows} \cup IF owned /\ worker.at = "invoke"
                THEN {[rows EXCEPT ![worker.slot] = {}]} ELSE {}

Cleanup ==
    /\ pc = "cleanup"
    /\ worker' = Stopped
    /\ rows' \in StoppedRows
    /\ owned' = FALSE
    /\ line' = {}
    /\ resume' = FALSE
    /\ pc' = "inspect"
    /\ UNCHANGED <<plan, n, slots, saved, found, failure, over>>

classify(condition, status, observations, final) ==
    IF status # "completed" \/ Len(observations) # 2 THEN "inconclusive"
    ELSE LET initial == observations[1].record
             resumed == observations[2].record
         IN  IF /\ condition = "router-failure" /\ initial.fault
                /\ ~resumed.error /\ resumed.lost
                /\ initial.sinks + resumed.sinks = 0
                /\ final = {0}
             THEN "reproduced" ELSE "not_reproduced"

\* Invocation.consistent and Slot.consistent, but for the worker's identity, the
\* state the resume starts from and the wording of errors: what they refuse of a
\* lifecycle that completed is recorded as failed, as for any other reason.
Consistent(slot, condition) ==
    LET done == slot.status = "completed"
    IN  /\ [k \in DOMAIN slot.found |-> slot.found[k].record.phase]
              \in {<<>>, <<"initial">>, <<"initial", "resume">>}
        /\ slot.symptom = classify(condition, slot.status, slot.found, slot.final)
        /\ slot.status = "unstarted" =>
              slot.found = <<>> /\ slot.final = {} /\ ~slot.error
        /\ done =>
              /\ Len(slot.found) = 2 /\ ~slot.error
              /\ slot.final # {}
              /\ \A k \in 1 .. 2 :
                    LET o == slot.found[k]
                        fault == k = 1 /\ condition # "healthy"
                    IN  /\ o.record.fault = fault
                        /\ k = 1 => o.record.error = fault
                        /\ o.rows # {}
        /\ slot.status \in {"failed", "interrupted"} => slot.error

\* The end of run_slot: evidence that its validators refuse is a failure.
Finished ==
    LET status == CASE failure = "none" -> "completed"
                    [] failure = "error" -> "failed"
                    [] failure = "interrupt" -> "interrupted"
        slot == [status |-> status,
                 symptom |-> classify(Condition, status, found, rows[n]),
                 found |-> found, final |-> rows[n], error |-> failure # "none"]
    IN  IF Consistent(slot, Condition) THEN slot
        ELSE [slot EXCEPT !.status = "failed", !.symptom = "inconclusive",
                          !.error = TRUE]

Inspect ==
    /\ pc = "inspect"
    /\ slots' = [slots EXCEPT ![n] = Finished]
    /\ pc' = "record"
    /\ UNCHANGED <<plan, n, saved, found, failure, owned, over, worker, line,
                   resume, rows>>

-----------------------------------------------------------------------------
(* The matrix: run *)

Save(status) == saved' = [status |-> status, slots |-> slots']

\* Mutant: what is running is only saved when it has ended.
ReserveUnsaved ==
    /\ pc = "next" /\ n <= Len(plan) /\ ~over
    /\ slots' = [slots EXCEPT ![n] = Reserved]
    /\ pc' = "start"
    /\ UNCHANGED <<plan, n, saved, found, failure, owned, over, worker, line,
                   resume, rows>>

Reserve ==
    /\ pc = "next"
    /\ n <= Len(plan)
    /\ ~over
    /\ slots' = [slots EXCEPT ![n] = Reserved]
    /\ Save("interrupted")
    /\ pc' = "start"
    /\ UNCHANGED <<plan, n, found, failure, owned, over, worker, line, resume,
                   rows>>

RecordSlot ==
    /\ pc = "record"
    /\ UNCHANGED slots
    /\ Save(saved.status)
    /\ IF slots[n].status = "interrupted"
       THEN pc' = "end" /\ UNCHANGED n
       ELSE pc' = "next" /\ n' = n + 1
    /\ found' = <<>>
    /\ failure' = "none"
    /\ UNCHANGED <<plan, owned, over, worker, line, resume, rows>>

LoopEnds ==
    /\ pc = "next"
    /\ n > Len(plan) \/ over
    /\ pc' = "end"
    /\ UNCHANGED <<plan, n, slots, saved, found, failure, owned, over, worker,
                   line, resume, rows>>

Overall ==
    LET all == {slots[k].status : k \in DOMAIN slots}
    IN  IF "interrupted" \in all THEN "interrupted"
        ELSE IF all \subseteq {"completed"} THEN "completed" ELSE "failed"

\* The last save; after Ctrl-C in the loop the matrix is interrupted.
End ==
    /\ pc \in {"end", "halted"}
    /\ UNCHANGED slots
    /\ Save(IF pc = "halted" THEN "interrupted" ELSE Overall)
    /\ pc' = "ended"
    /\ UNCHANGED <<plan, n, found, failure, owned, over, worker, line, resume,
                   rows>>

\* Ctrl-C: in run_slot's try; in what follows it, where a stop under way still
\* kills; in the loop; and after it, where nobody catches it.
Interrupt ==
    /\ \/ /\ pc \in {"start", "started", "read", "wait"}
          /\ failure' = "interrupt"
          /\ pc' = "cleanup"
          /\ UNCHANGED <<worker, rows, owned>>
       \/ /\ pc \in {"cleanup", "inspect"}
          /\ worker' = Stopped
          /\ rows' \in StoppedRows
          /\ owned' = FALSE
          /\ pc' = "halted"
          /\ UNCHANGED failure
       \/ /\ pc \in {"next", "record"}
          /\ pc' = "halted"
          /\ UNCHANGED <<worker, rows, owned, failure>>
       \/ /\ pc \in {"end", "halted"}
          /\ pc' = "gone"
          /\ UNCHANGED <<worker, rows, owned, failure>>
    /\ UNCHANGED <<plan, n, slots, saved, found, over, line, resume>>

\* SIGKILL of the controller.
Kill ==
    /\ pc \notin {"ended", "gone"}
    /\ pc' = "gone"
    /\ UNCHANGED <<plan, n, slots, saved, found, failure, owned, over, worker,
                   line, resume, rows>>

TimePasses ==
    /\ pc \in {"next", "start", "started", "read", "wait"}
    /\ over' = TRUE
    /\ UNCHANGED <<plan, pc, n, slots, saved, found, failure, owned, worker,
                   line, resume, rows>>

Controller == \/ Start \/ Own \/ Read \/ ReadFails \/ Wait \/ WaitFails \/ Cleanup
              \/ Inspect \/ Reserve \/ RecordSlot \/ LoopEnds \/ End

Next == Controller \/ Worker \/ WorkerDies \/ Interrupt \/ Kill \/ TimePasses

Spec == Init /\ [][Next]_vars

\* The controller is scheduled and waits for a worker up to its deadline only;
\* the worker has an alarm.
FairSpec == Spec /\ WF_vars(Controller) /\ WF_vars(WorkerDies)

-----------------------------------------------------------------------------
(* Properties *)

TypeOK ==
    /\ pc \in {"next", "start", "started", "read", "wait", "cleanup", "inspect",
               "record", "end", "halted", "ended", "gone"}
    /\ n \in 1 .. Len(plan) + 1
    /\ DOMAIN slots = DOMAIN plan /\ DOMAIN saved.slots = DOMAIN plan
    /\ failure \in {"none", "error", "interrupt"}
    /\ worker.at \in {"start", "invoke", "await", "leave", "exited", "failed",
                     "dead"}
    /\ Len(found) <= 2
    /\ \A k \in DOMAIN plan : Cardinality(rows[k]) <= 1
    /\ owned => pc \in {"read", "wait", "cleanup", "gone"}

\* What is saved can be read back, whatever the framework did and wherever the
\* matrix was cut off: the records pass their validators, and so does the whole.
ManifestAccepted ==
    /\ \A k \in DOMAIN plan : Consistent(saved.slots[k], plan[k].condition)
    /\ saved.status = "completed" =>
          \A k \in DOMAIN plan : saved.slots[k].status = "completed"
    /\ saved.status = "unstarted" =>
          \A k \in DOMAIN plan : saved.slots[k].status = "unstarted"

\* "A hard-killed controller cannot leave a started lifecycle labeled unstarted."
StartedIsNotUnstarted ==
    \A k \in DOMAIN plan :
        (worker.slot = k \/ rows[k] # {}) => saved.slots[k].status # "unstarted"

\* A symptom is reported only if the effect is really missing, for good, and
\* the framework resumed normally after a failure of its router.
ReproducedIsReal ==
    \A k \in DOMAIN plan : saved.slots[k].symptom = "reproduced" =>
        /\ rows[k] = {0}
        /\ ~(worker.slot = k /\ Alive)
        /\ plan[k].condition = "router-failure"
        /\ ~saved.slots[k].found[2].record.error

\* The rows counted between the invocations were stored by the first.
PhasesAreSeparated ==
    \A k \in DOMAIN plan : saved.slots[k].found # <<>> =>
        LET first == saved.slots[k].found[1]
        IN  first.rows \subseteq 0 .. first.record.sinks

\* The last count of a lifecycle that was not interrupted stays true: no worker
\* of it runs on.
FinalIsFinal ==
    \A k \in DOMAIN plan : saved.slots[k].status \in {"completed", "failed"} =>
        /\ saved.slots[k].final = rows[k]
        /\ ~(worker.slot = k /\ Alive)

\* What is saved can be read back and calls nothing unstarted that was started.
MatrixIsSound == TypeOK /\ ManifestAccepted /\ StartedIsNotUnstarted

\* Counts and symptoms are what they are taken for: of their own invocation,
\* final, and caused by the framework.
FindingsAreReal == PhasesAreSeparated /\ FinalIsFinal /\ ReproducedIsReal

\* No worker runs for ever, even if its controller is gone, and the controller
\* ends.
EventuallyQuiet == <>[](pc \in {"ended", "gone"} /\ ~Alive)
=============================================================================
