-------------------------------- MODULE Study --------------------------------
(***************************************************************************)
(* A preregistered study (studies.py): a controller runs the slots of a    *)
(* frozen plan one after the other, each in a child process of its own     *)
(* (study_child.py), within one budget of active time.                     *)
(*                                                                         *)
(* comparison.json holds saved, status, results, active and reserved and   *)
(* is replaced in one step; seals, artifacts and logs are files of the     *)
(* children.  pc, slot, verdict and interrupted are the controller's       *)
(* memory.  The study's lock is a flock on an open file the child          *)
(* inherits: it is held while the controller or a child lives.             *)
(***************************************************************************)
EXTENDS StudyPlan, FiniteSets

CONSTANTS
    Plans,          \* frozen plans: [preset, slots]
    StudyModes,     \* modes considered
    BudgetSeconds,  \* StudyPlan.budget_seconds, in units of time
    Overrun,        \* bound: a deadline takes effect at most this much late
    MaxCrashes      \* bound: controllers that die, in one behaviour

ASSUME StudyAssumption ==
    /\ \A p \in Plans : p.preset \in Presets /\ IsDesign(p.preset, p.slots)
    /\ StudyModes \subseteq Modes
    /\ BudgetSeconds \in Nat \ {0}
    /\ Overrun \in Nat
    /\ MaxCrashes \in Nat

None == [kind |-> "none"]
NoChild == [slot |-> 0, stage |-> "none", allowance |-> 0, ran |-> 0]

VARIABLES
    plan,         \* plan.json; never changes
    mode,         \* Study.mode; never changes
    saved,        \* comparison.json exists
    status,       \* Entry.status of every slot
    results,      \* Entry.result
    active,       \* Study.active_seconds
    reserved,     \* Study.reserved_seconds
    seals,        \* study-child.json of every slot, or None
    artifacts,    \* slots whose child directory exists
    logs,         \* slots whose worker log exists
    pc,           \* where the controller is; "down" when there is none
    slot,         \* local index of _continue
    verdict,      \* local status of _continue
    interrupted,  \* local of _continue: the user stopped the study
    child,        \* the child process: slot, stage, time allowed, time run
    spawns,       \* history: children started per slot
    used,         \* history: time during which some child ran
    crashes       \* controllers that died

manifest == <<saved, status, results, active, reserved>>
files == <<seals, artifacts, logs>>
memory == <<slot, verdict, interrupted>>
history == <<spawns, used>>
fixed == <<plan, mode>>
vars == <<fixed, manifest, files, pc, memory, child, history, crashes>>

Statuses == {"unstarted", "running", "completed", "failed", "interrupted"}
Slots == DOMAIN plan.slots
Remaining == BudgetSeconds - active
Living == child.stage # "none"
Evidence(i) == Produced(plan.preset, plan.slots[i], mode)

\* The first slot that is still to be run, if any.
Unstarted == {i \in Slots : status[i] = "unstarted"}
IsNext(i) == i \in Unstarted /\ \A j \in Unstarted : i <= j

\* A probe that was run did not give a complete scan.
Incomplete(i, s, r) ==
    /\ plan.slots[i].participant = "probe"
    /\ s # "unstarted"
    /\ \/ r = None
       \/ r.kind # "scan"
       \/ ~r.complete
GateClosed(st, rs) == \E i \in Slots : Incomplete(i, st[i], rs[i])

Init ==
    /\ plan \in Plans
    /\ mode \in StudyModes
    /\ saved = FALSE
    /\ status = [i \in Slots |-> "unstarted"]
    /\ results = [i \in Slots |-> None]
    /\ active = 0
    /\ reserved = 0
    /\ seals = [i \in Slots |-> None]
    /\ artifacts = {}
    /\ logs = {}
    /\ pc = "create"
    /\ slot = 0
    /\ verdict = "failed"
    /\ interrupted = FALSE
    /\ child = NoChild
    /\ spawns = [i \in Slots |-> 0]
    /\ used = 0
    /\ crashes = 0

-----------------------------------------------------------------------------
(* The controller *)

\* run: the directory, the lock, the plan and a manifest with every slot.
Create ==
    /\ pc = "create"
    /\ saved' = TRUE
    /\ pc' = "loop"
    /\ UNCHANGED <<fixed, status, results, active, reserved, files, memory,
                   child, history, crashes>>

\* resume: refused while a controller or an orphaned child holds the lock.
Resume ==
    /\ pc = "down"
    /\ saved
    /\ ~Living
    /\ pc' = "reconcile"
    /\ interrupted' = FALSE
    /\ UNCHANGED <<fixed, manifest, files, slot, verdict, child, history,
                   crashes>>

\* Mutant: a recovered slot is not charged for the time that was reserved.
ReconcileUncharged ==
    /\ pc = "reconcile"
    /\ status' = [i \in Slots |->
          IF status[i] # "running" THEN status[i]
          ELSE IF seals[i] # None THEN "completed" ELSE "interrupted"]
    /\ results' = [i \in Slots |->
          IF status[i] = "running" THEN seals[i] ELSE results[i]]
    /\ active' = active
    /\ reserved' = 0
    /\ pc' = IF GateClosed(status', results') THEN "down" ELSE "loop"
    /\ UNCHANGED <<fixed, saved, files, memory, child, history, crashes>>

\* Mutant: a slot that was running and has no seal is put back.
ReconcileRequeues ==
    /\ pc = "reconcile"
    /\ status' = [i \in Slots |->
          IF status[i] # "running" THEN status[i]
          ELSE IF seals[i] # None THEN "completed" ELSE "unstarted"]
    /\ results' = [i \in Slots |->
          IF status[i] = "running" THEN seals[i] ELSE results[i]]
    /\ active' = active + reserved
    /\ reserved' = 0
    /\ pc' = IF GateClosed(status', results') THEN "down" ELSE "loop"
    /\ UNCHANGED <<fixed, saved, files, memory, child, history, crashes>>

\* reconcile: a slot that was running is completed by its seal or given up,
\* charged all that was reserved for it; then the gate of the probes.
Reconcile ==
    /\ pc = "reconcile"
    /\ status' = [i \in Slots |->
          IF status[i] # "running" THEN status[i]
          ELSE IF seals[i] # None THEN "completed" ELSE "interrupted"]
    /\ results' = [i \in Slots |->
          IF status[i] = "running" THEN seals[i] ELSE results[i]]
    /\ active' = active + reserved
    /\ reserved' = 0
    /\ pc' = IF GateClosed(status', results') THEN "down" ELSE "loop"
    /\ UNCHANGED <<fixed, saved, files, memory, child, history, crashes>>

\* Mutant: the budget is not looked at.
StartUnbudgeted ==
    /\ pc = "loop"
    /\ \E i \in Slots :
          /\ IsNext(i)
          /\ i \notin artifacts
          /\ status' = [status EXCEPT ![i] = "running"]
          /\ slot' = i
    /\ reserved' = Remaining
    /\ pc' = "spawn"
    /\ UNCHANGED <<fixed, saved, results, active, files, verdict, interrupted,
                   child, history, crashes>>

\* A directory that is there already makes the study refuse to go on.
\* Before its child exists the slot is saved as running, and with it all the
\* time that is left.
StartSlot ==
    /\ pc = "loop"
    /\ Remaining > 0
    /\ \E i \in Slots :
          /\ IsNext(i)
          /\ i \notin artifacts
          /\ status' = [status EXCEPT ![i] = "running"]
          /\ slot' = i
    /\ reserved' = Remaining
    /\ pc' = "spawn"
    /\ UNCHANGED <<fixed, saved, results, active, files, verdict, interrupted,
                   child, history, crashes>>

\* Mutant: only an empty schedule ends the loop.
EndLoopWhenDone ==
    /\ pc = "loop"
    /\ Unstarted = {}
    /\ pc' = "down"
    /\ UNCHANGED <<fixed, manifest, files, memory, child, history, crashes>>

EndLoop ==
    /\ pc = "loop"
    /\ Unstarted = {} \/ Remaining <= 0
    /\ pc' = "down"
    /\ UNCHANGED <<fixed, manifest, files, memory, child, history, crashes>>

\* The worker log is created, never reused, and the child starts; it is told
\* the time that was left when the slot was saved.
Spawn ==
    /\ pc = "spawn"
    /\ slot \notin logs
    /\ logs' = logs \cup {slot}
    /\ child' = [slot |-> slot, stage |-> "starting",
                 allowance |-> Remaining, ran |-> 0]
    /\ spawns' = [spawns EXCEPT ![slot] = @ + 1]
    /\ verdict' = "failed"
    /\ pc' = "wait"
    /\ UNCHANGED <<fixed, manifest, seals, artifacts, slot, interrupted, used,
                   crashes>>

\* The log or the process cannot be created.
SpawnFails ==
    /\ pc = "spawn"
    /\ logs' = logs \cup {slot}
    /\ child' = [NoChild EXCEPT !.slot = slot]
    /\ verdict' = "failed"
    /\ pc' = "settle"
    /\ UNCHANGED <<fixed, manifest, seals, artifacts, slot, interrupted,
                   history, crashes>>

ChildReaped ==
    /\ pc = "wait"
    /\ ~Living
    /\ pc' = "settle"
    /\ UNCHANGED <<fixed, manifest, files, memory, child, history, crashes>>

\* Mutant: the controller gives the child up without stopping it.
GiveUpUnstopped ==
    /\ pc = "wait"
    /\ Living
    /\ interrupted' \in BOOLEAN
    /\ child.ran >= child.allowance \/ interrupted'
    /\ verdict' = "interrupted"
    /\ pc' = "settle"
    /\ UNCHANGED <<fixed, manifest, files, slot, child, history, crashes>>

\* The budget is exhausted, or the user interrupts the study.
GiveUp ==
    /\ pc = "wait"
    /\ Living
    /\ interrupted' \in BOOLEAN
    /\ child.ran >= child.allowance \/ interrupted'
    /\ verdict' = "interrupted"
    /\ pc' = "stop"
    /\ UNCHANGED <<fixed, manifest, files, slot, child, history, crashes>>

\* stop_worker: terminated, killed after two seconds, and reaped.
StopWorker ==
    /\ pc = "stop"
    /\ child' = [child EXCEPT !.stage = "none"]
    /\ pc' = "settle"
    /\ UNCHANGED <<fixed, manifest, files, memory, history, crashes>>

\* Mutant: the study goes on after a probe that failed.
SettleUngated ==
    /\ pc = "settle"
    /\ LET r == seals[slot]
           s == IF r # None THEN "completed" ELSE verdict
       IN  /\ status' = [status EXCEPT ![slot] = s]
           /\ results' = [results EXCEPT ![slot] = r]
    /\ pc' = IF interrupted THEN "down" ELSE "loop"
    /\ active' = active + child.ran
    /\ reserved' = 0
    /\ UNCHANGED <<fixed, saved, files, memory, child, history, crashes>>

\* The seal decides whether the slot is completed; the time that passed is
\* charged and the reservation released.
Settle ==
    /\ pc = "settle"
    /\ LET r == seals[slot]
           s == IF r # None THEN "completed" ELSE verdict
       IN  /\ status' = [status EXCEPT ![slot] = s]
           /\ results' = [results EXCEPT ![slot] = r]
           /\ pc' = IF interrupted \/ Incomplete(slot, s, r) THEN "down"
                    ELSE "loop"
    /\ active' = active + child.ran
    /\ reserved' = 0
    /\ UNCHANGED <<fixed, saved, files, memory, child, history, crashes>>

\* The controller dies, at any point; its child, if any, lives on.
Crash ==
    /\ pc # "down"
    /\ crashes < MaxCrashes
    /\ crashes' = crashes + 1
    /\ pc' = "down"
    /\ UNCHANGED <<fixed, manifest, files, memory, child, history>>

-----------------------------------------------------------------------------
(* The child *)

\* Its preflight passed: it works in a directory of its own.
ChildBegins ==
    /\ child.stage = "starting"
    /\ child.slot \notin artifacts
    /\ artifacts' = artifacts \cup {child.slot}
    /\ child' = [child EXCEPT !.stage = "working"]
    /\ UNCHANGED <<fixed, manifest, seals, logs, pc, memory, history, crashes>>

\* Evidence is sealed in one step, after everything else.
ChildSeals ==
    /\ child.stage = "working"
    /\ \E e \in Evidence(child.slot) : seals' = [seals EXCEPT ![child.slot] = e]
    /\ child' = [child EXCEPT !.stage = "sealed"]
    /\ UNCHANGED <<fixed, manifest, artifacts, logs, pc, memory, history,
                   crashes>>

\* It is done, fails its preflight or its run, or is ended by its alarm, by
\* stop_worker's first signal or from outside.
ChildEnds ==
    /\ Living
    /\ child' = [child EXCEPT !.stage = "none"]
    /\ UNCHANGED <<fixed, manifest, files, pc, memory, history, crashes>>

\* Time passes; the controller's timeout and the child's alarm both stop the
\* child when its allowance is over, though not on the second.
Tick ==
    /\ Living
    /\ child.ran < child.allowance + Overrun
    /\ child' = [child EXCEPT !.ran = @ + 1]
    /\ used' = used + 1
    /\ UNCHANGED <<fixed, manifest, files, pc, memory, spawns, crashes>>

-----------------------------------------------------------------------------
Controller ==
    \/ Create \/ Reconcile \/ StartSlot \/ EndLoop \/ Spawn \/ SpawnFails
    \/ ChildReaped \/ StopWorker \/ Settle
Child == ChildBegins \/ ChildSeals \/ ChildEnds \/ Tick

Next == Controller \/ Resume \/ GiveUp \/ Crash \/ Child

Spec == Init /\ [][Next]_vars

\* The controller runs on, a child ends of itself or by its alarm, and an
\* interrupted study is resumed.  Nobody is obliged to interrupt it.
FairSpec ==
    /\ Spec
    /\ WF_vars(Controller)
    /\ WF_vars(ChildEnds)
    /\ WF_vars(Resume)

-----------------------------------------------------------------------------
(* Properties *)

\* Every variable keeps its type, and a manifest that is saved passes the
\* validators of Entry and Study that resume applies when it reads it back.
TypeOK ==
    /\ plan \in Plans
    /\ mode \in StudyModes
    /\ saved \in BOOLEAN
    /\ status \in [Slots -> Statuses]
    /\ active \in Nat
    /\ reserved \in Nat
    /\ artifacts \subseteq Slots
    /\ logs \subseteq Slots
    /\ pc \in {"create", "down", "reconcile", "loop", "spawn", "wait", "stop",
               "settle"}
    /\ slot \in Slots \cup {0}
    /\ verdict \in {"failed", "interrupted"}
    /\ interrupted \in BOOLEAN
    /\ child \in [slot : Slots \cup {0}, allowance : Nat, ran : Nat,
                 stage : {"none", "starting", "working", "sealed"}]
    /\ used \in Nat
    /\ spawns \in [Slots -> Nat]
    /\ crashes \in 0 .. MaxCrashes

\* resume can always read the manifest back: at most one slot runs, a
\* reservation is open exactly while one does, exactly the completed slots
\* have evidence and it is evidence their cell may have (Study.inventory).
ManifestNeverRefused ==
    /\ \A i, j \in Slots :
          status[i] = "running" /\ status[j] = "running" => i = j
    /\ (\E i \in Slots : status[i] = "running") <=> reserved > 0
    /\ \A i \in Slots :
          /\ status[i] = "completed" <=> results[i] # None
          /\ results[i] # None =>
                Accepted(plan.preset, plan.slots[i], mode, results[i])

\* "Never repeat an action from a started slot" (reconcile): however often the
\* controller dies and is resumed, a slot gets one child at most, and what it
\* left behind never makes the study refuse a slot that was not started.
NoSlotRunsTwice ==
    \A i \in Slots :
        /\ spawns[i] <= 1
        /\ status[i] = "unstarted" =>
              spawns[i] = 0 /\ i \notin artifacts /\ i \notin logs

\* What a child sealed is neither lost nor changed: the evidence of a
\* completed slot is its seal, and a slot given up as failed or interrupted
\* has none, also when the child finished after its controller died or while
\* it was being stopped.
SealsAreKept ==
    \A i \in Slots :
        /\ status[i] = "completed" => results[i] = seals[i]
        /\ status[i] \in {"failed", "interrupted"} => seals[i] = None

\* A child, orphaned or not, works on the slot the manifest says is running;
\* no other session has charged, settled or gone past that slot meanwhile.
ChildOwnsItsSlot == Living => status[child.slot] = "running"

\* "A controller crash can only overcharge its unknown duration, never buy
\* another study budget" (Study.reserved_seconds): all children together run
\* no longer than the budget, plus one late deadline.
BudgetNotBoughtAgain == used <= BudgetSeconds + Overrun

\* Time spent is on the books or covered by the reservation.
TimeIsCharged == used <= active + reserved + Overrun

\* However often the controller dies, a slot has one child at most, which no
\* other session goes past, and what the child sealed is what counts.
SlotsAreSafe == NoSlotRunsTwice /\ SealsAreKept /\ ChildOwnsItsSlot

\* Time is spent once: it is on the books or reserved, and within the budget.
TimeIsBounded == BudgetNotBoughtAgain /\ TimeIsCharged

\* Every manifest has the types and the shape its validators insist on.
ManifestAccepted == TypeOK /\ ManifestNeverRefused

\* No slot other than a probe is started unless every probe before it was
\* sealed with a complete scan, in whichever session that is decided.
ProbesGateTheStudy ==
    \A i \in Slots :
        /\ plan.slots[i].participant # "probe"
        /\ spawns[i] > 0
        => \A j \in Slots :
              plan.slots[j].participant = "probe" =>
                 /\ seals[j] # None
                 /\ seals[j].kind = "scan"
                 /\ seals[j].complete

\* A study that was saved comes to an end: no child, no controller and either
\* no slot left, no budget left, or a probe that failed.
Ended == /\ pc = "down"
         /\ ~Living
         /\ Unstarted = {} \/ Remaining <= 0 \/ GateClosed(status, results)
EventuallyEnded == saved ~> Ended

-----------------------------------------------------------------------------
\* What the study promises, without processes, files or crashes.
Ledger == [i \in Slots |->
    CASE status[i] = "unstarted" -> "open"
      [] status[i] = "running" -> "started"
      [] status[i] = "completed" -> "kept"
      [] OTHER -> "lost"]
Sealed == {i \in Slots : seals[i] # None}
Abstract == INSTANCE SlotLedger WITH
    ledger <- Ledger, working <- IF Living THEN child.slot ELSE 0,
    sealed <- Sealed, charged <- active, Budget <- BudgetSeconds,
    limit <- Len(plan.slots)
ImplementsSlotLedger == Abstract!LedgerSpec
=============================================================================
