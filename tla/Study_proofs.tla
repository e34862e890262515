---------------------------- MODULE Study_proofs ----------------------------
(***************************************************************************)
(* Theorems about Study, for every plan, budget, late deadline and number  *)
(* of deaths.  The inductive invariant relates the manifest, the files and *)
(* the child: a running slot is unique and is the one the controller and   *)
(* any child work on, a slot that was not started left no trace, and the   *)
(* time used is on the books unless a crash made the books close early.    *)
(***************************************************************************)
EXTENDS Study, TLAPS, FiniteSetTheorems

Busy == {"spawn", "wait", "stop", "settle"}
IsRunning(i) == i \in Slots /\ status[i] = "running"
Total(f) == f = [i \in Slots |-> f[i]]

\* The controller and the child agree with the manifest on what runs.
OneAtATime ==
    /\ \A i, j \in Slots : IsRunning(i) /\ IsRunning(j) => i = j
    /\ pc \in Busy => IsRunning(slot)
    /\ pc \in {"wait", "stop", "settle"} => child.slot = slot
    /\ pc \in {"create", "loop"} => \A i \in Slots : ~IsRunning(i)
    /\ Living => IsRunning(child.slot) /\ pc \in {"wait", "stop", "down"}
    /\ child.slot # 0 => status[child.slot] # "unstarted"
    /\ ~saved => \A i \in Slots : status[i] = "unstarted"
    /\ pc \notin {"create", "down"} => saved
    /\ pc = "create" => ~saved

\* What a slot left behind is there only once it was started.
Traces ==
    /\ NoSlotRunsTwice
    /\ \A i \in Slots : status[i] = "unstarted" => seals[i] = None
    /\ pc = "spawn" => /\ spawns[slot] = 0
                       /\ slot \notin logs
                       /\ slot \notin artifacts
                       /\ child.slot # slot
    /\ SealsAreKept
    /\ Total(seals) /\ Total(results)

\* The books.
Books ==
    /\ \A i \in Slots : IsRunning(i) =>
          /\ reserved > 0
          /\ active + reserved = BudgetSeconds
          /\ child.slot # i => used <= active
          /\ child.slot = i =>
                /\ used <= active + child.ran
                /\ child.ran <= reserved + Overrun
    /\ (\A i \in Slots : ~IsRunning(i)) =>
          /\ reserved = 0
          /\ used <= active \/ active >= BudgetSeconds
    /\ Living => child.allowance = reserved
    /\ used <= BudgetSeconds + Overrun

StudyInv == TypeOK /\ OneAtATime /\ Traces /\ Books

-----------------------------------------------------------------------------
\* The slots of a plan are numbered from one.
LEMMA SlotsNumbered ==
    ASSUME plan \in Plans
    PROVE  Slots = 1 .. Len(plan.slots) /\ Len(plan.slots) \in Nat
  BY StudyAssumption DEF StudyAssumption, IsDesign, Slots

LEMMA Bounds ==
    /\ BudgetSeconds \in Nat /\ BudgetSeconds > 0
    /\ Overrun \in Nat
    /\ MaxCrashes \in Nat
  BY StudyAssumption DEF StudyAssumption

LEMMA InitInv == Init => StudyInv
  <1> SUFFICES ASSUME Init PROVE StudyInv
      OBVIOUS
  <1>1. Slots = 1 .. Len(plan.slots) /\ Len(plan.slots) \in Nat
    BY SlotsNumbered DEF Init
  <1>2. TypeOK
    <2>1. child \in [slot : Slots \cup {0}, allowance : Nat, ran : Nat,
                    stage : {"none", "starting", "working", "sealed"}]
      BY DEF Init, NoChild
    <2>2. crashes \in 0 .. MaxCrashes
      BY Bounds DEF Init
    <2> QED
      BY <2>1, <2>2 DEF TypeOK, Statuses, Init
  <1>3. OneAtATime
    BY <1>1 DEF OneAtATime, Busy, IsRunning, Living, Init, NoChild
  <1>4. Traces
    BY <1>1 DEF Traces, NoSlotRunsTwice, SealsAreKept, Total, Init
  <1>5. Books
    BY <1>1, Bounds DEF Books, IsRunning, Living, Init, NoChild
  <1> QED BY <1>2, <1>3, <1>4, <1>5 DEF StudyInv

-----------------------------------------------------------------------------
LEMMA CreateInv == StudyInv /\ Create => StudyInv'
  <1> SUFFICES ASSUME StudyInv, Create PROVE StudyInv'
      OBVIOUS
  <1> USE DEF StudyInv, Create, fixed, manifest, files, memory, history,
              Busy, IsRunning, Living, Remaining, Statuses
  <1>0. Slots' = Slots /\ Slots = 1 .. Len(plan.slots) /\ Len(plan.slots) \in Nat
    BY SlotsNumbered DEF Slots, TypeOK
  <1>1. TypeOK'
    BY <1>0, Bounds DEF TypeOK, OneAtATime, Books
  <1>2. OneAtATime'
    BY <1>0, Bounds DEF OneAtATime, TypeOK
  <1>3. Traces'
    BY <1>0, Bounds DEF Traces, NoSlotRunsTwice, SealsAreKept, Total,
        OneAtATime, TypeOK
  <1>4. Books'
    BY <1>0, Bounds DEF Books, OneAtATime, TypeOK
  <1> QED BY <1>1, <1>2, <1>3, <1>4

LEMMA ResumeInv == StudyInv /\ Resume => StudyInv'
  <1> SUFFICES ASSUME StudyInv, Resume PROVE StudyInv'
      OBVIOUS
  <1> USE DEF StudyInv, Resume, fixed, manifest, files, memory, history,
              Busy, IsRunning, Living, Remaining, Statuses
  <1>0. Slots' = Slots /\ Slots = 1 .. Len(plan.slots) /\ Len(plan.slots) \in Nat
    BY SlotsNumbered DEF Slots, TypeOK
  <1>1. TypeOK'
    BY <1>0, Bounds DEF TypeOK, OneAtATime, Books
  <1>2. OneAtATime'
    BY <1>0, Bounds DEF OneAtATime, TypeOK
  <1>3. Traces'
    BY <1>0, Bounds DEF Traces, NoSlotRunsTwice, SealsAreKept, Total,
        OneAtATime, TypeOK
  <1>4. Books'
    BY <1>0, Bounds DEF Books, OneAtATime, TypeOK
  <1> QED BY <1>1, <1>2, <1>3, <1>4

LEMMA ReconcileInv == StudyInv /\ Reconcile => StudyInv'
  <1> SUFFICES ASSUME StudyInv, Reconcile PROVE StudyInv'
      OBVIOUS
  <1> USE DEF StudyInv, Reconcile, fixed, manifest, files, memory, history,
              Busy, IsRunning, Living, Remaining, Statuses
  <1>0. Slots' = Slots /\ Slots = 1 .. Len(plan.slots) /\ Len(plan.slots) \in Nat
    BY SlotsNumbered DEF Slots, TypeOK
  <1>1. TypeOK'
    BY <1>0, Bounds DEF TypeOK, OneAtATime, Books
  <1>2. OneAtATime'
    BY <1>0, Bounds DEF OneAtATime, TypeOK
  <1>3. Traces'
    BY <1>0, Bounds DEF Traces, NoSlotRunsTwice, SealsAreKept, Total,
        OneAtATime, TypeOK
  <1>4. Books'
    BY <1>0, Bounds DEF Books, OneAtATime, TypeOK
  <1> QED BY <1>1, <1>2, <1>3, <1>4

LEMMA StartSlotInv == StudyInv /\ StartSlot => StudyInv'
  <1> SUFFICES ASSUME StudyInv, StartSlot PROVE StudyInv'
      OBVIOUS
  <1> USE DEF StudyInv, StartSlot, fixed, manifest, files, memory, history,
              Busy, IsRunning, Living, Remaining, Statuses
  <1>0. Slots' = Slots /\ Slots = 1 .. Len(plan.slots) /\ Len(plan.slots) \in Nat
    BY SlotsNumbered DEF Slots, TypeOK
  <1>a. PICK i \in Slots : /\ IsNext(i)
                           /\ i \notin artifacts
                           /\ status' = [status EXCEPT ![i] = "running"]
                           /\ slot' = i
    OBVIOUS
  <1>b. status[i] = "unstarted"
    BY <1>a DEF IsNext, Unstarted
  <1>c. \A j \in Slots : status'[j] = IF j = i THEN "running" ELSE status[j]
    BY <1>0, <1>a DEF TypeOK
  <1>d. pc = "loop" /\ (\A j \in Slots : ~IsRunning(j)) /\ ~Living /\ saved
    BY <1>0 DEF OneAtATime, TypeOK
  <1>1. TypeOK'
    BY <1>0, <1>a, <1>c, Bounds DEF TypeOK
  <1>2. OneAtATime'
    BY <1>0, <1>a, <1>b, <1>c, <1>d DEF OneAtATime, TypeOK
  <1>3. Traces'
    <2>1. NoSlotRunsTwice'
      BY <1>0, <1>a, <1>b, <1>c, <1>d DEF Traces, NoSlotRunsTwice, TypeOK
    <2>2. \A k \in Slots' : status'[k] = "unstarted" => seals'[k] = None
      BY <1>0, <1>a, <1>b, <1>c, <1>d DEF Traces, TypeOK
    <2>3. (pc = "spawn" => /\ spawns[slot] = 0
                          /\ slot \notin logs
                          /\ slot \notin artifacts
                          /\ child.slot # slot)'
      BY <1>0, <1>a, <1>b, <1>c, <1>d DEF Traces, NoSlotRunsTwice, OneAtATime, TypeOK
    <2>4. SealsAreKept' /\ Total(seals)' /\ Total(results)'
      BY <1>0, <1>a, <1>b, <1>c, <1>d DEF Traces, SealsAreKept, Total, TypeOK
    <2> QED BY <2>1, <2>2, <2>3, <2>4 DEF Traces
  <1>4. Books'
    BY <1>0, <1>a, <1>b, <1>c, <1>d, Bounds DEF Books, OneAtATime, TypeOK
  <1> QED BY <1>1, <1>2, <1>3, <1>4

LEMMA EndLoopInv == StudyInv /\ EndLoop => StudyInv'
  <1> SUFFICES ASSUME StudyInv, EndLoop PROVE StudyInv'
      OBVIOUS
  <1> USE DEF StudyInv, EndLoop, fixed, manifest, files, memory, history,
              Busy, IsRunning, Living, Remaining, Statuses
  <1>0. Slots' = Slots /\ Slots = 1 .. Len(plan.slots) /\ Len(plan.slots) \in Nat
    BY SlotsNumbered DEF Slots, TypeOK
  <1>1. TypeOK'
    BY <1>0, Bounds DEF TypeOK, OneAtATime, Books
  <1>2. OneAtATime'
    BY <1>0, Bounds DEF OneAtATime, TypeOK
  <1>3. Traces'
    BY <1>0, Bounds DEF Traces, NoSlotRunsTwice, SealsAreKept, Total,
        OneAtATime, TypeOK
  <1>4. Books'
    BY <1>0, Bounds DEF Books, OneAtATime, TypeOK
  <1> QED BY <1>1, <1>2, <1>3, <1>4

LEMMA SpawnInv == StudyInv /\ Spawn => StudyInv'
  <1> SUFFICES ASSUME StudyInv, Spawn PROVE StudyInv'
      OBVIOUS
  <1> USE DEF StudyInv, Spawn, fixed, manifest, files, memory, history,
              Busy, IsRunning, Living, Remaining, Statuses
  <1>0. Slots' = Slots /\ Slots = 1 .. Len(plan.slots) /\ Len(plan.slots) \in Nat
    BY SlotsNumbered DEF Slots, TypeOK
  <1>a. child' = [slot |-> slot, stage |-> "starting",
                  allowance |-> Remaining, ran |-> 0]
    BY DEF NoChild
  <1>b. /\ IsRunning(slot)
        /\ child.slot # slot
        /\ Remaining = reserved
        /\ ~Living
    BY Bounds DEF OneAtATime, Books, Traces, TypeOK
  <1>c. \A j \in Slots : spawns'[j] = IF j = slot THEN 1 ELSE spawns[j]
    BY <1>b DEF Traces, TypeOK
  <1>1. TypeOK'
    BY <1>0, <1>a, <1>b, Bounds, SMTT(60) DEF TypeOK
  <1>2. OneAtATime'
    BY <1>0, <1>a, <1>b DEF OneAtATime, TypeOK
  <1>3. Traces'
    <2>1. NoSlotRunsTwice'
      BY <1>0, <1>a, <1>b, <1>c DEF Traces, NoSlotRunsTwice, TypeOK
    <2>2. \A i \in Slots' : status'[i] = "unstarted" => seals'[i] = None
      BY <1>0, <1>a, <1>b, <1>c DEF Traces, TypeOK
    <2>3. (pc = "spawn" => /\ spawns[slot] = 0
                          /\ slot \notin logs
                          /\ slot \notin artifacts
                          /\ child.slot # slot)'
      BY <1>0, <1>a, <1>b, <1>c DEF Traces, NoSlotRunsTwice, OneAtATime, TypeOK
    <2>4. SealsAreKept' /\ Total(seals)' /\ Total(results)'
      BY <1>0, <1>a, <1>b, <1>c DEF Traces, SealsAreKept, Total, TypeOK
    <2> QED BY <2>1, <2>2, <2>3, <2>4 DEF Traces
  <1>4. Books'
    BY <1>0, <1>a, <1>b, Bounds DEF Books, OneAtATime, TypeOK
  <1> QED BY <1>1, <1>2, <1>3, <1>4

LEMMA SpawnFailsInv == StudyInv /\ SpawnFails => StudyInv'
  <1> SUFFICES ASSUME StudyInv, SpawnFails PROVE StudyInv'
      OBVIOUS
  <1> USE DEF StudyInv, Busy, IsRunning, Living, Remaining, Statuses
  <1>z. /\ plan' = plan /\ mode' = mode /\ saved' = saved /\ status' = status
        /\ results' = results /\ active' = active /\ reserved' = reserved
        /\ seals' = seals /\ artifacts' = artifacts
        /\ logs' = logs \cup {slot} /\ slot' = slot /\ verdict' = "failed"
        /\ interrupted' = interrupted /\ spawns' = spawns /\ used' = used
        /\ crashes' = crashes /\ pc = "spawn" /\ pc' = "settle"
    BY DEF SpawnFails, fixed, manifest, files, memory, history
  <1>0. Slots' = Slots /\ Slots = 1 .. Len(plan.slots) /\ Len(plan.slots) \in Nat
    BY <1>z, SlotsNumbered DEF Slots, TypeOK
  <1>a. child' = [slot |-> slot, stage |-> "none",
                  allowance |-> 0, ran |-> 0]
    BY DEF SpawnFails, NoChild
  <1>b. /\ IsRunning(slot)
        /\ child.slot # slot
        /\ Remaining = reserved
        /\ ~Living
    BY <1>z, Bounds DEF OneAtATime, Books, Traces, TypeOK
  <1>c. \A j \in Slots : spawns'[j] = IF j = slot THEN 0 ELSE spawns[j]
    BY <1>z, <1>b DEF Traces, TypeOK
  <1>1. TypeOK'
    BY <1>z, <1>0, <1>a, <1>b, Bounds, SMTT(60) DEF TypeOK
  <1>2. OneAtATime'
    BY <1>z, <1>0, <1>a, <1>b DEF OneAtATime, TypeOK
  <1>3. Traces'
    <2>1. NoSlotRunsTwice'
      BY <1>z, <1>0, <1>a, <1>b, <1>c DEF Traces, NoSlotRunsTwice, TypeOK
    <2>2. \A i \in Slots' : status'[i] = "unstarted" => seals'[i] = None
      BY <1>z, <1>0, <1>a, <1>b, <1>c DEF Traces, TypeOK
    <2>3. (pc = "spawn" => /\ spawns[slot] = 0
                          /\ slot \notin logs
                          /\ slot \notin artifacts
                          /\ child.slot # slot)'
      BY <1>z, <1>0, <1>a, <1>b, <1>c DEF Traces, NoSlotRunsTwice, OneAtATime, TypeOK
    <2>4. SealsAreKept' /\ Total(seals)' /\ Total(results)'
      BY <1>z, <1>0, <1>a, <1>b, <1>c DEF Traces, SealsAreKept, Total, TypeOK
    <2> QED BY <2>1, <2>2, <2>3, <2>4 DEF Traces
  <1>4. Books'
    BY <1>z, <1>0, <1>a, <1>b, Bounds DEF Books, OneAtATime, TypeOK
  <1> QED BY <1>1, <1>2, <1>3, <1>4

LEMMA ChildReapedInv == StudyInv /\ ChildReaped => StudyInv'
  <1> SUFFICES ASSUME StudyInv, ChildReaped PROVE StudyInv'
      OBVIOUS
  <1> USE DEF StudyInv, ChildReaped, fixed, manifest, files, memory, history,
              Busy, IsRunning, Living, Remaining, Statuses
  <1>0. Slots' = Slots /\ Slots = 1 .. Len(plan.slots) /\ Len(plan.slots) \in Nat
    BY SlotsNumbered DEF Slots, TypeOK
  <1>1. TypeOK'
    BY <1>0, Bounds DEF TypeOK, OneAtATime, Books
  <1>2. OneAtATime'
    BY <1>0, Bounds DEF OneAtATime, TypeOK
  <1>3. Traces'
    BY <1>0, Bounds DEF Traces, NoSlotRunsTwice, SealsAreKept, Total,
        OneAtATime, TypeOK
  <1>4. Books'
    BY <1>0, Bounds DEF Books, OneAtATime, TypeOK
  <1> QED BY <1>1, <1>2, <1>3, <1>4

LEMMA GiveUpInv == StudyInv /\ GiveUp => StudyInv'
  <1> SUFFICES ASSUME StudyInv, GiveUp PROVE StudyInv'
      OBVIOUS
  <1> USE DEF StudyInv, GiveUp, fixed, manifest, files, memory, history,
              Busy, IsRunning, Living, Remaining, Statuses
  <1>0. Slots' = Slots /\ Slots = 1 .. Len(plan.slots) /\ Len(plan.slots) \in Nat
    BY SlotsNumbered DEF Slots, TypeOK
  <1>1. TypeOK'
    BY <1>0, Bounds DEF TypeOK, OneAtATime, Books
  <1>2. OneAtATime'
    BY <1>0, Bounds DEF OneAtATime, TypeOK
  <1>3. Traces'
    BY <1>0, Bounds DEF Traces, NoSlotRunsTwice, SealsAreKept, Total,
        OneAtATime, TypeOK
  <1>4. Books'
    BY <1>0, Bounds DEF Books, OneAtATime, TypeOK
  <1> QED BY <1>1, <1>2, <1>3, <1>4

LEMMA StopWorkerInv == StudyInv /\ StopWorker => StudyInv'
  <1> SUFFICES ASSUME StudyInv, StopWorker PROVE StudyInv'
      OBVIOUS
  <1> USE DEF StudyInv, StopWorker, fixed, manifest, files, memory, history,
              Busy, IsRunning, Living, Remaining, Statuses
  <1>0. Slots' = Slots /\ Slots = 1 .. Len(plan.slots) /\ Len(plan.slots) \in Nat
    BY SlotsNumbered DEF Slots, TypeOK
  <1>1. TypeOK'
    BY <1>0, Bounds DEF TypeOK, OneAtATime, Books
  <1>2. OneAtATime'
    BY <1>0, Bounds DEF OneAtATime, TypeOK
  <1>3. Traces'
    BY <1>0, Bounds DEF Traces, NoSlotRunsTwice, SealsAreKept, Total,
        OneAtATime, TypeOK
  <1>4. Books'
    BY <1>0, Bounds DEF Books, OneAtATime, TypeOK
  <1> QED BY <1>1, <1>2, <1>3, <1>4

LEMMA SettleInv == StudyInv /\ Settle => StudyInv'
  <1> SUFFICES ASSUME StudyInv, Settle PROVE StudyInv'
      OBVIOUS
  <1> USE DEF StudyInv, Settle, fixed, manifest, files, memory, history,
              Busy, IsRunning, Living, Remaining, Statuses
  <1>0. Slots' = Slots /\ Slots = 1 .. Len(plan.slots) /\ Len(plan.slots) \in Nat
    BY SlotsNumbered DEF Slots, TypeOK
  <1>1. TypeOK'
    BY <1>0, Bounds DEF TypeOK, OneAtATime, Books
  <1>2. OneAtATime'
    BY <1>0, Bounds DEF OneAtATime, TypeOK
  <1>3. Traces'
    BY <1>0, Bounds DEF Traces, NoSlotRunsTwice, SealsAreKept, Total,
        OneAtATime, TypeOK
  <1>4. Books'
    BY <1>0, Bounds DEF Books, OneAtATime, TypeOK
  <1> QED BY <1>1, <1>2, <1>3, <1>4

LEMMA CrashInv == StudyInv /\ Crash => StudyInv'
  <1> SUFFICES ASSUME StudyInv, Crash PROVE StudyInv'
      OBVIOUS
  <1> USE DEF StudyInv, Crash, fixed, manifest, files, memory, history,
              Busy, IsRunning, Living, Remaining, Statuses
  <1>0. Slots' = Slots /\ Slots = 1 .. Len(plan.slots) /\ Len(plan.slots) \in Nat
    BY SlotsNumbered DEF Slots, TypeOK
  <1>1. TypeOK'
    BY <1>0, Bounds DEF TypeOK, OneAtATime, Books
  <1>2. OneAtATime'
    BY <1>0, Bounds DEF OneAtATime, TypeOK
  <1>3. Traces'
    BY <1>0, Bounds DEF Traces, NoSlotRunsTwice, SealsAreKept, Total,
        OneAtATime, TypeOK
  <1>4. Books'
    BY <1>0, Bounds DEF Books, OneAtATime, TypeOK
  <1> QED BY <1>1, <1>2, <1>3, <1>4

LEMMA ChildBeginsInv == StudyInv /\ ChildBegins => StudyInv'
  <1> SUFFICES ASSUME StudyInv, ChildBegins PROVE StudyInv'
      OBVIOUS
  <1> USE DEF StudyInv, ChildBegins, fixed, manifest, files, memory, history,
              Busy, IsRunning, Living, Remaining, Statuses
  <1>0. Slots' = Slots /\ Slots = 1 .. Len(plan.slots) /\ Len(plan.slots) \in Nat
    BY SlotsNumbered DEF Slots, TypeOK
  <1>1. TypeOK'
    BY <1>0, Bounds DEF TypeOK, OneAtATime, Books
  <1>2. OneAtATime'
    BY <1>0, Bounds DEF OneAtATime, TypeOK
  <1>3. Traces'
    BY <1>0, Bounds DEF Traces, NoSlotRunsTwice, SealsAreKept, Total,
        OneAtATime, TypeOK
  <1>4. Books'
    BY <1>0, Bounds DEF Books, OneAtATime, TypeOK
  <1> QED BY <1>1, <1>2, <1>3, <1>4

LEMMA ChildSealsInv == StudyInv /\ ChildSeals => StudyInv'
  <1> SUFFICES ASSUME StudyInv, ChildSeals PROVE StudyInv'
      OBVIOUS
  <1> USE DEF StudyInv, ChildSeals, fixed, manifest, files, memory, history,
              Busy, IsRunning, Living, Remaining, Statuses
  <1>0. Slots' = Slots /\ Slots = 1 .. Len(plan.slots) /\ Len(plan.slots) \in Nat
    BY SlotsNumbered DEF Slots, TypeOK
  <1>a. PICK e \in Evidence(child.slot) :
            seals' = [seals EXCEPT ![child.slot] = e]
    OBVIOUS
  <1>b. status[child.slot] = "running" /\ child.slot \in Slots
    BY DEF OneAtATime
  <1>c. /\ Total(seals)'
        /\ \A i \in Slots : i # child.slot => seals'[i] = seals[i]
    BY <1>0, <1>a, <1>b DEF Traces, Total
  <1>1. TypeOK'
    BY <1>0, Bounds DEF TypeOK, OneAtATime, Books
  <1>2. OneAtATime'
    BY <1>0, Bounds DEF OneAtATime, TypeOK
  <1>3. Traces'
    <2>1. NoSlotRunsTwice'
      BY <1>0, <1>b, <1>c DEF Traces, NoSlotRunsTwice, TypeOK
    <2>2. \A i \in Slots' : status'[i] = "unstarted" => seals'[i] = None
      BY <1>0, <1>b, <1>c DEF Traces, TypeOK
    <2>3. (pc = "spawn" => /\ spawns[slot] = 0
                          /\ slot \notin logs
                          /\ slot \notin artifacts
                          /\ child.slot # slot)'
      BY <1>0, <1>b, <1>c DEF Traces, NoSlotRunsTwice, OneAtATime, TypeOK
    <2>4. SealsAreKept'
      BY <1>0, <1>b, <1>c DEF Traces, SealsAreKept
    <2>5. Total(seals)' /\ Total(results)'
      BY <1>0, <1>c DEF Traces, Total
    <2> QED BY <2>1, <2>2, <2>3, <2>4, <2>5 DEF Traces
  <1>4. Books'
    BY <1>0, Bounds DEF Books, OneAtATime, TypeOK
  <1> QED BY <1>1, <1>2, <1>3, <1>4

LEMMA ChildEndsInv == StudyInv /\ ChildEnds => StudyInv'
  <1> SUFFICES ASSUME StudyInv, ChildEnds PROVE StudyInv'
      OBVIOUS
  <1> USE DEF StudyInv, ChildEnds, fixed, manifest, files, memory, history,
              Busy, IsRunning, Living, Remaining, Statuses
  <1>0. Slots' = Slots /\ Slots = 1 .. Len(plan.slots) /\ Len(plan.slots) \in Nat
    BY SlotsNumbered DEF Slots, TypeOK
  <1>1. TypeOK'
    BY <1>0, Bounds DEF TypeOK, OneAtATime, Books
  <1>2. OneAtATime'
    BY <1>0, Bounds DEF OneAtATime, TypeOK
  <1>3. Traces'
    BY <1>0, Bounds DEF Traces, NoSlotRunsTwice, SealsAreKept, Total,
        OneAtATime, TypeOK
  <1>4. Books'
    BY <1>0, Bounds DEF Books, OneAtATime, TypeOK
  <1> QED BY <1>1, <1>2, <1>3, <1>4

LEMMA TickInv == StudyInv /\ Tick => StudyInv'
  <1> SUFFICES ASSUME StudyInv, Tick PROVE StudyInv'
      OBVIOUS
  <1> USE DEF StudyInv, Tick, fixed, manifest, files, memory, history,
              Busy, IsRunning, Living, Remaining, Statuses
  <1>0. Slots' = Slots /\ Slots = 1 .. Len(plan.slots) /\ Len(plan.slots) \in Nat
    BY SlotsNumbered DEF Slots, TypeOK
  <1>a. child' = [slot |-> child.slot, stage |-> child.stage,
                  allowance |-> child.allowance, ran |-> child.ran + 1]
    BY DEF TypeOK
  <1>b. IsRunning(child.slot)
    BY DEF OneAtATime
  <1>1. TypeOK'
    <2>1. /\ child.slot \in Slots \cup {0} /\ child.allowance \in Nat
          /\ child.ran \in Nat /\ used \in Nat
          /\ child.stage \in {"none", "starting", "working", "sealed"}
      BY DEF TypeOK
    <2>2. child.ran + 1 \in Nat /\ used' \in Nat
      BY <2>1
    <2>3. child' \in [slot : Slots \cup {0}, allowance : Nat, ran : Nat,
                     stage : {"none", "starting", "working", "sealed"}]
      BY <1>a, <2>1, <2>2
    <2> QED BY <1>0, <2>2, <2>3 DEF TypeOK
  <1>2. OneAtATime'
    BY <1>0, Bounds DEF OneAtATime, TypeOK
  <1>3. Traces'
    BY <1>0, Bounds DEF Traces, NoSlotRunsTwice, SealsAreKept, Total,
        OneAtATime, TypeOK
  <1>4. Books'
    BY <1>0, <1>a, <1>b, Bounds, SMTT(60) DEF Books, TypeOK, OneAtATime
  <1> QED BY <1>1, <1>2, <1>3, <1>4

-----------------------------------------------------------------------------
\* Every step, of the controller, its child or the crash, keeps the invariant.
LEMMA StepInv == StudyInv /\ [Next]_vars => StudyInv'
  <1> SUFFICES ASSUME StudyInv, [Next]_vars PROVE StudyInv'
      OBVIOUS
  <1>1. CASE UNCHANGED vars
    <2>1. /\ UNCHANGED <<plan, mode, saved, status, results, active, reserved>>
          /\ UNCHANGED <<seals, artifacts, logs, slot, verdict, interrupted>>
          /\ UNCHANGED <<pc, child, spawns, used, crashes>>
      BY <1>1 DEF vars, fixed, manifest, files, memory, history
    <2>2. Slots' = Slots
      BY <2>1 DEF Slots
    <2>3. TypeOK'
      BY <2>1, <2>2 DEF StudyInv, TypeOK
    <2>4. OneAtATime'
      BY <2>1, <2>2 DEF StudyInv, OneAtATime, IsRunning, Living, Busy
    <2>5. Traces'
      BY <2>1, <2>2 DEF StudyInv, Traces, NoSlotRunsTwice, SealsAreKept, Total
    <2>6. Books'
      BY <2>1, <2>2 DEF StudyInv, Books, IsRunning, Living
    <2> QED BY <2>3, <2>4, <2>5, <2>6 DEF StudyInv
  <1>2. CASE Controller
    BY <1>2, CreateInv, ReconcileInv, StartSlotInv, EndLoopInv, SpawnInv,
        SpawnFailsInv, ChildReapedInv, StopWorkerInv, SettleInv
        DEF Controller
  <1>3. CASE Child
    BY <1>3, ChildBeginsInv, ChildSealsInv, ChildEndsInv, TickInv DEF Child
  <1>4. CASE Resume \/ GiveUp \/ Crash
    BY <1>4, ResumeInv, GiveUpInv, CrashInv
  <1> QED BY <1>1, <1>2, <1>3, <1>4 DEF Next

LEMMA StudyInvariant == Spec => []StudyInv
  <1> QED BY InitInv, StepInv, PTL DEF Spec

\* Every variable keeps its type in every reachable state of a study.
THEOREM StudyTypes == Spec => []TypeOK
  <1>1. StudyInv => TypeOK
    BY DEF StudyInv
  <1> QED BY <1>1, StudyInvariant, PTL

\* "Never repeat an action from a started slot" (reconcile): no sequence of
\* deaths and resumes gives a slot two children or leaves the traces of one
\* in a slot that was not started.
THEOREM SlotsRunOnce == Spec => []NoSlotRunsTwice
  <1>1. StudyInv => NoSlotRunsTwice
    BY DEF StudyInv, Traces
  <1> QED BY <1>1, StudyInvariant, PTL

\* A seal is the evidence of its slot, whoever records it, and no slot that
\* was given up has one.
THEOREM EvidenceIsKept == Spec => []SealsAreKept
  <1>1. StudyInv => SealsAreKept
    BY DEF StudyInv, Traces
  <1> QED BY <1>1, StudyInvariant, PTL

\* A child that outlived its controller still works on the one slot the
\* manifest says is running: the lock it inherited keeps other sessions out.
THEOREM OrphansOwnTheirSlot == Spec => []ChildOwnsItsSlot
  <1>1. StudyInv => ChildOwnsItsSlot
    BY DEF StudyInv, OneAtATime, IsRunning, ChildOwnsItsSlot
  <1> QED BY <1>1, StudyInvariant, PTL

\* Deaths never buy budget: all children together run at most the budget and
\* one late deadline (Study.reserved_seconds).
THEOREM BudgetHolds == Spec => []BudgetNotBoughtAgain
  <1>1. StudyInv => BudgetNotBoughtAgain
    BY DEF StudyInv, Books, BudgetNotBoughtAgain
  <1> QED BY <1>1, StudyInvariant, PTL

-----------------------------------------------------------------------------
\* Nothing a child can produce is the absence of a seal.
LEMMA EvidenceIsSomething ==
    ASSUME NEW i, NEW e \in Evidence(i) PROVE e # None
  <1>1. e.kind \in {"scan", "observation", "retry", "runtime", "boundary"}
    BY DEF Evidence, Produced, Scan
  <1>2. None.kind = "none"
    BY DEF None
  <1> QED BY <1>1, <1>2

\* What the ledger is, slot by slot.
LEMMA LedgerIs ==
    \A i \in Slots :
        /\ status[i] = "unstarted" <=> Ledger[i] = "open"
        /\ status[i] = "running" <=> Ledger[i] = "started"
        /\ status[i] = "completed" <=> Ledger[i] = "kept"
        /\ status[i] \notin {"unstarted", "running", "completed"}
              <=> Ledger[i] = "lost"
  BY DEF Ledger

\* Steps that neither touch the manifest's statuses and charges nor the seals
\* nor whether a child lives are steps of nothing, or of the work.
LEMMA QuietStep ==
    ASSUME StudyInv, plan' = plan, status' = status, active' = active,
           seals' = seals,
           \/ Living' = Living /\ child'.slot = child.slot
           \/ ~Living /\ ~Living'
           \/ Living /\ ~Living'
           \/ ~Living /\ Living' /\ IsRunning(child'.slot)
    PROVE  [Abstract!LedgerNext]_(Abstract!slotLedger)
  <1> DEFINE working == IF Living THEN child.slot ELSE 0
  <1>0. Slots' = Slots /\ Slots = 1 .. Len(plan.slots)
    BY SlotsNumbered DEF StudyInv, TypeOK, Slots
  <1>1. Ledger' = Ledger /\ Sealed' = Sealed
    BY <1>0 DEF Ledger, Sealed
  <1>2. CASE working' = working
    BY <1>1, <1>2 DEF Abstract!slotLedger
  <1>3. CASE Living /\ ~Living'
    <2>1. IsRunning(child.slot)
      BY <1>3 DEF StudyInv, OneAtATime
    <2>2. Ledger[child.slot] = "started"
      BY <2>1, LedgerIs DEF IsRunning
    <2>3. Abstract!Work(child.slot)
      BY <1>1, <1>3, <2>2 DEF Abstract!Work
    <2> QED BY <1>0, <2>1, <2>3 DEF Abstract!LedgerNext, IsRunning
  <1>4. CASE ~Living /\ Living' /\ IsRunning(child'.slot)
    <2>2. Ledger[child'.slot] = "started"
      BY <1>4, LedgerIs DEF IsRunning
    <2>3. Abstract!Work(child'.slot)
      BY <1>1, <1>4, <2>2 DEF Abstract!Work
    <2> QED BY <1>0, <1>4, <2>3 DEF Abstract!LedgerNext, IsRunning
  <1> QED BY <1>2, <1>3, <1>4

\* A session that finds no running slot changes nothing; otherwise it closes
\* the one there is, as its seal says.
LEMMA ReconcileCloses ==
    StudyInv /\ Reconcile => [Abstract!LedgerNext]_(Abstract!slotLedger)
  <1> SUFFICES ASSUME StudyInv, Reconcile
               PROVE  [Abstract!LedgerNext]_(Abstract!slotLedger)
      OBVIOUS
  <1>0. /\ plan' = plan /\ seals' = seals /\ child' = child
        /\ Slots' = Slots /\ Slots = 1 .. Len(plan.slots)
        /\ active' = active + reserved /\ active \in Nat /\ reserved \in Nat
        /\ ~Living
    BY SlotsNumbered DEF Reconcile, fixed, files, StudyInv, TypeOK, Slots,
        OneAtATime
  <1>1. \A i \in Slots : status'[i] =
            IF status[i] # "running" THEN status[i]
            ELSE IF seals[i] # None THEN "completed" ELSE "interrupted"
    BY DEF Reconcile
  <1>2. CASE \A i \in Slots : ~IsRunning(i)
    <2>1. reserved = 0 /\ active' = active
      BY <1>0, <1>2 DEF StudyInv, Books
    <2>2. status' = status
      BY <1>0, <1>1, <1>2 DEF IsRunning, Reconcile, StudyInv, TypeOK
    <2> QED BY <1>0, <2>1, <2>2, QuietStep DEF Living
  <1>3. CASE \E i \in Slots : IsRunning(i)
    <2>1. PICK i \in Slots : IsRunning(i)
      BY <1>3
    <2>2. \A j \in Slots : j # i => status[j] # "running"
      BY <2>1 DEF StudyInv, OneAtATime, IsRunning
    <2>3. Ledger' = [Ledger EXCEPT ![i] =
                        IF i \in Sealed THEN "kept" ELSE "lost"]
      BY <1>0, <1>1, <2>1, <2>2 DEF Ledger, Sealed, IsRunning
    <2>4. Abstract!Close(i)
      BY <1>0, <2>1, <2>3, LedgerIs
          DEF Abstract!Close, IsRunning, Living, Sealed
    <2> QED BY <1>0, <2>4 DEF Abstract!LedgerNext
  <1> QED BY <1>2, <1>3

LEMMA SettleCloses ==
    StudyInv /\ Settle => [Abstract!LedgerNext]_(Abstract!slotLedger)
  <1> SUFFICES ASSUME StudyInv, Settle
               PROVE  [Abstract!LedgerNext]_(Abstract!slotLedger)
      OBVIOUS
  <1>0. /\ plan' = plan /\ seals' = seals /\ child' = child
        /\ Slots' = Slots /\ Slots = 1 .. Len(plan.slots)
        /\ active' = active + child.ran /\ active \in Nat /\ child.ran \in Nat
        /\ verdict \in {"failed", "interrupted"}
        /\ ~Living /\ IsRunning(slot)
    BY SlotsNumbered DEF Settle, fixed, files, StudyInv, TypeOK, Slots,
        OneAtATime, Busy
  <1>1. status' = [status EXCEPT ![slot] =
                      IF seals[slot] # None THEN "completed" ELSE verdict]
    BY DEF Settle
  <1>2. Ledger' = [Ledger EXCEPT ![slot] =
                      IF slot \in Sealed THEN "kept" ELSE "lost"]
    BY <1>0, <1>1 DEF Ledger, Sealed, IsRunning, StudyInv, TypeOK
  <1>3. Abstract!Close(slot)
    BY <1>0, <1>2, LedgerIs DEF Abstract!Close, IsRunning, Living, Sealed
  <1> QED BY <1>0, <1>3 DEF Abstract!LedgerNext, IsRunning

LEMMA StartSlotBegins ==
    StudyInv /\ StartSlot => [Abstract!LedgerNext]_(Abstract!slotLedger)
  <1> SUFFICES ASSUME StudyInv, StartSlot
               PROVE  [Abstract!LedgerNext]_(Abstract!slotLedger)
      OBVIOUS
  <1>0. /\ plan' = plan /\ seals' = seals /\ child' = child
        /\ Slots' = Slots /\ Slots = 1 .. Len(plan.slots)
        /\ active' = active /\ active < BudgetSeconds
        /\ \A j \in Slots : ~IsRunning(j)
    BY SlotsNumbered, Bounds DEF StartSlot, fixed, files, StudyInv, TypeOK,
        Slots, OneAtATime, Remaining
  <1>1. PICK i \in Slots : /\ IsNext(i)
                           /\ status' = [status EXCEPT ![i] = "running"]
    BY DEF StartSlot
  <1>2. status[i] = "unstarted"
        /\ \A j \in Slots : j < i => status[j] # "unstarted"
    BY <1>0, <1>1 DEF IsNext, Unstarted
  <1>3. Ledger' = [Ledger EXCEPT ![i] = "started"]
    BY <1>0, <1>1 DEF Ledger, StudyInv, TypeOK
  <1>4. Abstract!Begin(i)
    BY <1>0, <1>2, <1>3, LedgerIs
        DEF Abstract!Begin, IsRunning, Living, Sealed
  <1> QED BY <1>0, <1>4 DEF Abstract!LedgerNext

LEMMA ChildSealsWorks ==
    StudyInv /\ ChildSeals => [Abstract!LedgerNext]_(Abstract!slotLedger)
  <1> SUFFICES ASSUME StudyInv, ChildSeals
               PROVE  [Abstract!LedgerNext]_(Abstract!slotLedger)
      OBVIOUS
  <1>0. /\ plan' = plan /\ status' = status /\ active' = active
        /\ Slots' = Slots /\ Slots = 1 .. Len(plan.slots)
        /\ Living /\ Living' /\ child'.slot = child.slot
        /\ IsRunning(child.slot)
    BY SlotsNumbered DEF ChildSeals, fixed, manifest, StudyInv, TypeOK, Slots,
        OneAtATime, Living
  <1>1. PICK e \in Evidence(child.slot) :
            seals' = [seals EXCEPT ![child.slot] = e]
    BY DEF ChildSeals
  <1>2. e # None
    BY EvidenceIsSomething
  <1>3. Ledger' = Ledger
    BY <1>0 DEF Ledger
  <1>4. Sealed' = Sealed \cup {child.slot}
    BY <1>0, <1>1, <1>2 DEF Sealed, IsRunning, StudyInv, Traces, Total
  <1>5. Abstract!Work(child.slot)
    BY <1>0, <1>3, <1>4, LedgerIs DEF Abstract!Work, IsRunning
  <1> QED BY <1>0, <1>5 DEF Abstract!LedgerNext, IsRunning

LEMMA StepRefines ==
    StudyInv /\ [Next]_vars => [Abstract!LedgerNext]_(Abstract!slotLedger)
  <1> SUFFICES ASSUME StudyInv, [Next]_vars
               PROVE  [Abstract!LedgerNext]_(Abstract!slotLedger)
      OBVIOUS
  <1> USE DEF fixed, manifest, files, memory, history, Living
  <1>1. CASE UNCHANGED vars
    BY <1>1, QuietStep DEF vars
  <1>2. CASE Create \/ Resume \/ EndLoop \/ ChildReaped \/ GiveUp \/ Crash
    BY <1>2, QuietStep
        DEF Create, Resume, EndLoop, ChildReaped, GiveUp, Crash
  <1>3. CASE Spawn
    <2>1. ~Living /\ IsRunning(slot)
      BY <1>3 DEF Spawn, StudyInv, OneAtATime, Busy
    <2>2. Living' /\ child'.slot = slot
      BY <1>3 DEF Spawn
    <2>3. /\ plan' = plan /\ status' = status /\ active' = active
          /\ seals' = seals
      BY <1>3 DEF Spawn
    <2> QED BY <2>1, <2>2, <2>3, QuietStep
  <1>4. CASE SpawnFails
    <2>1. ~Living /\ ~Living'
      BY <1>4 DEF SpawnFails, StudyInv, OneAtATime, NoChild
    <2>2. /\ plan' = plan /\ status' = status /\ active' = active
          /\ seals' = seals
      BY <1>4 DEF SpawnFails
    <2> QED BY <2>1, <2>2, QuietStep
  <1>5. CASE StopWorker \/ ChildEnds
    <2>1. ~Living'
      BY <1>5 DEF StopWorker, ChildEnds, StudyInv, TypeOK
    <2>2. /\ plan' = plan /\ status' = status /\ active' = active
          /\ seals' = seals
      BY <1>5 DEF StopWorker, ChildEnds
    <2> QED BY <2>1, <2>2, QuietStep
  <1>6. CASE ChildBegins \/ Tick
    <2>1. Living' = Living /\ child'.slot = child.slot
      BY <1>6 DEF ChildBegins, Tick, StudyInv, TypeOK
    <2>2. /\ plan' = plan /\ status' = status /\ active' = active
          /\ seals' = seals
      BY <1>6 DEF ChildBegins, Tick
    <2> QED BY <2>1, <2>2, QuietStep
  <1> QED BY <1>1, <1>2, <1>3, <1>4, <1>5, <1>6, ReconcileCloses, SettleCloses,
      StartSlotBegins, ChildSealsWorks DEF Next, Controller, Child

\* Time spent never exceeds what is on the books and reserved, up to one late
\* deadline.
THEOREM SpentTimeIsCovered == Spec => []TimeIsCharged
  <1>1. StudyInv => TimeIsCharged
    <2> SUFFICES ASSUME StudyInv PROVE TimeIsCharged
        OBVIOUS
    <2>0. active \in Nat /\ reserved \in Nat /\ used \in Nat
          /\ child.ran \in Nat
      BY DEF StudyInv, TypeOK
    <2>1. CASE \A i \in Slots : ~IsRunning(i)
      BY <2>0, <2>1, Bounds DEF StudyInv, Books, TimeIsCharged
    <2>2. CASE \E i \in Slots : IsRunning(i)
      BY <2>0, <2>2, Bounds DEF StudyInv, Books, TimeIsCharged
    <2> QED BY <2>1, <2>2
  <1> QED BY <1>1, StudyInvariant, PTL

\* The study implements the ledger of its slots: deaths, resumes, orphans,
\* seals and settlements all appear as starting, working on or closing one
\* slot, once and in order.
THEOREM Refinement == Spec => ImplementsSlotLedger
  <1>1. Init => Abstract!LedgerInit
    <2> SUFFICES ASSUME Init PROVE Abstract!LedgerInit
        OBVIOUS
    <2>1. Slots = 1 .. Len(plan.slots)
      BY SlotsNumbered DEF Init
    <2>2. Ledger = [i \in 1 .. Len(plan.slots) |-> "open"]
      BY <2>1 DEF Ledger, Init
    <2>3. Sealed = {}
      BY DEF Sealed, Init
    <2> QED BY <2>2, <2>3 DEF Abstract!LedgerInit, Living, Init, NoChild
  <1> QED BY <1>1, StepRefines, StudyInvariant, PTL
      DEF Spec, ImplementsSlotLedger, Abstract!LedgerSpec

\* The three together: a slot has one child, nobody goes past it, and its seal
\* is what counts (reconcile, run).
THEOREM SlotsStaySafe == Spec => []SlotsAreSafe
  <1>1. NoSlotRunsTwice /\ SealsAreKept /\ ChildOwnsItsSlot => SlotsAreSafe
    BY DEF SlotsAreSafe
  <1> QED BY <1>1, SlotsRunOnce, EvidenceIsKept, OrphansOwnTheirSlot, PTL

\* Time is bounded and accounted for (reserved_seconds, run).
THEOREM TimeStaysBounded == Spec => []TimeIsBounded
  <1>1. BudgetNotBoughtAgain /\ TimeIsCharged => TimeIsBounded
    BY DEF TimeIsBounded
  <1> QED BY <1>1, BudgetHolds, SpentTimeIsCovered, PTL

-----------------------------------------------------------------------------
(* What the validator of a plan insists on is what the proofs below use.   *)

\* Two policies, at most two participants, at most eight cases.
LEMMA PresetSizes ==
    ASSUME NEW preset \in Presets
    PROVE  /\ Len(PoliciesOf(preset)) = 2 /\ DOMAIN PoliciesOf(preset) = {1, 2}
           /\ Len(ParticipantsOf(preset)) \in {1, 2}
           /\ DOMAIN ParticipantsOf(preset) = 1 .. Len(ParticipantsOf(preset))
           /\ Len(CasesOf(preset)) \in {1, 2, 4, 8}
           /\ DOMAIN CasesOf(preset) = 1 .. Len(CasesOf(preset))
  <1>1. Len(PoliciesOf(preset)) = 2 /\ DOMAIN PoliciesOf(preset) = {1, 2}
    BY DEF Presets, PoliciesOf, Semantic
  <1>2. /\ Len(ParticipantsOf(preset)) \in {1, 2}
        /\ DOMAIN ParticipantsOf(preset) = 1 .. Len(ParticipantsOf(preset))
    <2>1. CASE preset \in {"claims", "retries"}
      BY <2>1 DEF ParticipantsOf
    <2>2. CASE preset = "scanner"
      BY <2>2 DEF ParticipantsOf
    <2>3. CASE preset \notin {"claims", "retries", "scanner"}
      <3>1. ParticipantsOf(preset) = <<"agent">>
        BY <2>3 DEF ParticipantsOf
      <3>2. Len(<<"agent">>) = 1 /\ DOMAIN <<"agent">> = 1 .. 1
        OBVIOUS
      <3> QED BY <3>1, <3>2
    <2> QED BY <2>1, <2>2, <2>3
  <1>3. /\ Len(CasesOf(preset)) \in {1, 2, 4, 8}
        /\ DOMAIN CasesOf(preset) = 1 .. Len(CasesOf(preset))
    <2>1. CASE preset = "runtime"
      BY <2>1 DEF CasesOf, RuntimeCases
    <2>2. CASE preset = "scanner"
      BY <2>2 DEF CasesOf, InjectionCases
    <2>3. CASE preset = "claims"
      <3>1. CasesOf(preset) = <<"healthy", "dropped-write">>
        BY <2>3 DEF CasesOf
      <3> QED BY <3>1
    <2>4. CASE preset = "retries"
      <3>1. CasesOf(preset) = <<"retry-healthy", "lost-reply-once">>
        BY <2>4 DEF CasesOf
      <3> QED BY <3>1
    <2>5. CASE preset = "approvals"
      <3>1. CasesOf(preset) = <<"approved", "rejected">>
        BY <2>5 DEF CasesOf
      <3> QED BY <3>1
    <2>6. CASE preset \in {"injection", "semantic-admission"}
      <3>1. CasesOf(preset)
                = <<"injection-override", "injection-override-benign">>
        BY <2>6 DEF CasesOf
      <3> QED BY <3>1
    <2>7. CASE preset = "context"
      <3>1. CasesOf(preset) = <<"memory-stale-title">>
        BY <2>7 DEF CasesOf
      <3>2. /\ Len(<<"memory-stale-title">>) = 1
            /\ DOMAIN <<"memory-stale-title">> = 1 .. 1
        OBVIOUS
      <3> QED BY <3>1, <3>2
    <2> QED
      BY <2>1, <2>2, <2>3, <2>4, <2>5, <2>6, <2>7 DEF Presets
  <1> QED BY <1>1, <1>2, <1>3

LEMMA DivMod ==
    ASSUME NEW n \in Nat, NEW d \in {1, 2, 4, 8, 16, 32}
    PROVE  /\ n \div d \in Nat /\ n % d \in 0 .. d - 1
           /\ \A m \in Nat : n < m * d => n \div d < m
  BY SMT

LEMMA BlockIsOfCells ==
    ASSUME NEW preset \in Presets, NEW r \in Nat, NEW blocks \in Seq(STRING),
           IsShuffle(preset, blocks)
    PROVE  \A n \in 1 .. BlockSize(preset) :
               /\ Block(preset, r, blocks)[n] \in Cells(preset)
               /\ Block(preset, r, blocks)[n].participant # "probe"
  <1> DEFINE who == ParticipantsOf(preset)
             per == 2 * Len(who)
  <1>0. /\ per \in {2, 4} /\ Len(blocks) = Len(CasesOf(preset))
        /\ Len(CasesOf(preset)) \in {1, 2, 4, 8}
    <2>1. Len(who) \in {1, 2} /\ Len(CasesOf(preset)) \in {1, 2, 4, 8}
      BY PresetSizes
    <2>2. Len(blocks) = Len(CasesOf(preset))
      BY DEF IsShuffle
    <2>3. \A l \in {1, 2} : 2 * l \in {2, 4}
      OBVIOUS
    <2> QED BY <2>1, <2>2, <2>3
  <1> SUFFICES ASSUME NEW n \in 1 .. BlockSize(preset)
               PROVE  /\ Block(preset, r, blocks)[n] \in Cells(preset)
                      /\ Block(preset, r, blocks)[n].participant # "probe"
      OBVIOUS
  <1> DEFINE c == ((n - 1) \div per) + 1
             p == ((n - 1) % 2) + 1
             w == (((n - 1) % per) \div 2) + 1
  <1>1. n - 1 \in Nat /\ n - 1 < Len(blocks) * per
    BY <1>0 DEF BlockSize
  <1>2. c \in 1 .. Len(blocks)
    BY <1>0, <1>1, DivMod
  <1>3. p \in {1, 2}
    BY <1>1, DivMod
  <1>4. w \in 1 .. Len(who)
    <2>1. (n - 1) % per \in Nat /\ (n - 1) % per < Len(who) * 2
      BY <1>0, <1>1, DivMod, PresetSizes
    <2> QED BY <2>1, DivMod, PresetSizes
  <1>5. Block(preset, r, blocks)[n]
            = Slot(r, blocks[c], Ordered(preset, r)[p], who[w])
    BY <1>0, <1>1 DEF Block, BlockSize
  <1>6. blocks[c] \in {CasesOf(preset)[i] : i \in DOMAIN CasesOf(preset)}
    <2>1. blocks[c] \in {blocks[i] : i \in DOMAIN blocks}
      BY <1>2
    <2> HIDE DEF c
    <2> QED BY <2>1 DEF IsShuffle
  <1>7. Ordered(preset, r)[p] \in {PoliciesOf(preset)[i] : i \in {1, 2}}
    <2> HIDE DEF p
    <2>1. CASE r % 2 = 1
      BY <1>3, <2>1 DEF Ordered
    <2>2. CASE r % 2 # 1
      <3>1. Ordered(preset, r)
                = <<PoliciesOf(preset)[2], PoliciesOf(preset)[1]>>
        BY <2>2 DEF Ordered
      <3>2. \/ Ordered(preset, r)[p] = PoliciesOf(preset)[2]
            \/ Ordered(preset, r)[p] = PoliciesOf(preset)[1]
        BY <1>3, <3>1
      <3> QED BY <3>2
    <2> QED BY <2>1, <2>2
  <1>8. who[w] \in {who[i] : i \in DOMAIN who} /\ who[w] # "probe"
    BY <1>4, PresetSizes DEF ParticipantsOf
  <1> QED BY <1>5, <1>6, <1>7, <1>8 DEF Slot, Cells

LEMMA ProbesAreOfCells ==
    ASSUME NEW preset \in Presets
    PROVE  /\ Probes(preset) \in Seq(Cells(preset))
           /\ \A i \in DOMAIN Probes(preset) :
                 Probes(preset)[i].participant = "probe"
  <1>1. CASE preset \in Semantic
    <2>1. /\ CasesOf(preset)[1] = "injection-override"
          /\ CasesOf(preset)[2] = "injection-override-benign"
          /\ {1, 2} \subseteq DOMAIN CasesOf(preset)
      BY <1>1 DEF Semantic, CasesOf, InjectionCases
    <2>2. PoliciesOf(preset)[2] = "static-plus-semantic"
      BY <1>1 DEF Semantic, PoliciesOf
    <2>3. /\ Slot(1, "injection-override-benign", "static-plus-semantic",
                  "probe") \in Cells(preset)
          /\ Slot(1, "injection-override", "static-plus-semantic", "probe")
                \in Cells(preset)
      BY <1>1, <2>1, <2>2 DEF Cells, Slot
    <2> QED BY <1>1, <2>3 DEF Probes, Slot
  <1>2. CASE preset \notin Semantic
    BY <1>2 DEF Probes
  <1> QED BY <1>1, <1>2

\* A schedule of shuffled cases, whatever the shuffles and however many
\* repetitions, is a design: its slots are cells of the preset, probes first.
THEOREM SchedulesAreDesigns ==
    ASSUME NEW preset \in Presets, NEW orders \in Seq(Seq(STRING)),
           \A r \in DOMAIN orders : IsShuffle(preset, orders[r])
    PROVE  IsDesign(preset, Schedule(preset, orders))
  <1> DEFINE size == BlockSize(preset)
             round(n) == ((n - 1) \div size) + 1
             rest == [n \in 1 .. Len(orders) * size |->
                 Block(preset, round(n), orders[round(n)])[((n - 1) % size) + 1]]
  <1>1. size \in {2, 4, 8, 16, 32}
    <2>1. Len(CasesOf(preset)) \in {1, 2, 4, 8}
          /\ Len(ParticipantsOf(preset)) \in {1, 2}
      BY PresetSizes
    <2>2. \A k \in {1, 2, 4, 8}, l \in {1, 2} :
              k * (2 * l) \in {2, 4, 8, 16, 32}
      OBVIOUS
    <2> QED BY <2>1, <2>2 DEF BlockSize
  <1>2. Len(orders) * size \in Nat
    BY <1>1
  <1>3. \A n \in 1 .. Len(orders) * size :
            rest[n] \in Cells(preset) /\ rest[n].participant # "probe"
    <2> SUFFICES ASSUME NEW n \in 1 .. Len(orders) * size
                 PROVE  rest[n] \in Cells(preset)
                        /\ rest[n].participant # "probe"
        OBVIOUS
    <2>1. n - 1 \in Nat /\ n - 1 < Len(orders) * size
      BY <1>2
    <2>2. round(n) \in 1 .. Len(orders) /\ ((n - 1) % size) + 1 \in 1 .. size
      <3> HIDE DEF size
      <3>1. /\ (n - 1) \div size \in Nat
            /\ (n - 1) \div size < Len(orders)
            /\ (n - 1) % size \in 0 .. size - 1
        BY <1>1, <2>1, DivMod
      <3> QED BY <1>1, <3>1
    <2>3. orders[round(n)] \in Seq(STRING)
          /\ IsShuffle(preset, orders[round(n)]) /\ round(n) \in Nat
      BY <2>2
    <2> HIDE DEF round
    <2>4. rest[n] =
            Block(preset, round(n), orders[round(n)])[((n - 1) % size) + 1]
      OBVIOUS
    <2> QED BY <2>2, <2>3, <2>4, BlockIsOfCells
  <1>4. rest \in Seq(Cells(preset)) /\ Len(rest) = Len(orders) * size
    BY <1>2, <1>3
  <1>5. Schedule(preset, orders) = Probes(preset) \o rest
    BY DEF Schedule
  <1> HIDE DEF rest
  <1>6. Schedule(preset, orders) \in Seq(Cells(preset))
    BY <1>4, <1>5, ProbesAreOfCells
  <1>7. ASSUME NEW i \in DOMAIN Schedule(preset, orders),
               NEW j \in DOMAIN Schedule(preset, orders),
               Schedule(preset, orders)[j].participant = "probe", i < j
        PROVE  Schedule(preset, orders)[i].participant = "probe"
    <2>1. j \in 1 .. Len(Probes(preset)) + Len(rest) /\ i \in Nat /\ i > 0
      BY <1>4, <1>5, <1>7, ProbesAreOfCells
    <2>2. j \in 1 .. Len(Probes(preset))
      <3> SUFFICES ASSUME j > Len(Probes(preset)) PROVE FALSE
          BY <2>1, ProbesAreOfCells
      <3>1. Schedule(preset, orders)[j] = rest[j - Len(Probes(preset))]
        BY <1>4, <1>5, <2>1, ProbesAreOfCells
      <3>2. j - Len(Probes(preset)) \in 1 .. Len(orders) * size
        BY <1>4, <2>1, ProbesAreOfCells
      <3> QED BY <1>3, <1>7, <3>1, <3>2
    <2>3. i \in 1 .. Len(Probes(preset))
      BY <1>7, <2>1, <2>2, ProbesAreOfCells
    <2>4. Schedule(preset, orders)[i] = Probes(preset)[i]
      BY <1>4, <1>5, <2>3, ProbesAreOfCells
    <2> QED BY <2>3, <2>4, ProbesAreOfCells
  <1> QED BY <1>6, <1>7 DEF IsDesign

-----------------------------------------------------------------------------
(* What a slot holds is evidence of that slot, and the probes come first.  *)

\* Every seal is what the slot's child may produce; a slot has a result
\* exactly when it is completed.
EvidenceInv ==
    \A i \in Slots :
        /\ seals[i] # None => seals[i] \in Evidence(i)
        /\ status[i] = "completed" <=> results[i] # None

\* A session that goes on has no probe behind it that failed, and whatever
\* else was started had every probe completed before it.
Passed(j) == status[j] = "completed" /\ ~Incomplete(j, status[j], results[j])
GateInv ==
    /\ pc \in Busy \cup {"loop"} =>
          \A j \in Slots : status[j] # "running" =>
             ~Incomplete(j, status[j], results[j])
    /\ \A i, j \in Slots :
          /\ plan.slots[i].participant # "probe"
          /\ plan.slots[j].participant = "probe"
          /\ status[i] # "unstarted"
          => Passed(j)

RecordInv == EvidenceInv /\ GateInv

LEMMA SlotsAreCells ==
    ASSUME plan \in Plans
    PROVE  /\ plan.preset \in Presets
           /\ \A i \in Slots : plan.slots[i] \in Cells(plan.preset)
           /\ \A i, j \in Slots :
                 plan.slots[j].participant = "probe" /\ i < j
                    => plan.slots[i].participant = "probe"
  BY StudyAssumption DEF StudyAssumption, IsDesign, Slots

\* The inventory of the study accepts whatever the child of a slot seals
\* (execute and boundary_config against Study.inventory).
LEMMA ProducedIsAccepted ==
    ASSUME NEW preset \in Presets, NEW cell \in Cells(preset), NEW m \in Modes,
           NEW e \in Produced(preset, cell, m)
    PROVE  Accepted(preset, cell, m, e)
  <1> DEFINE who == {ParticipantsOf(preset)[i] : i \in DOMAIN ParticipantsOf(preset)}
  <1>0. cell.participant \in who
        \/ (preset \in Semantic /\ cell.participant = "probe")
    BY DEF Cells
  <1>1. CASE preset = "claims"
    <2>1. cell.participant \in {"agent", "workflow"}
      BY <1>0, <1>1 DEF ParticipantsOf, Semantic
    <2>2. e = [kind |-> "observation", variant |-> cell.policy,
               fault |-> LegacyFault(cell.case),
               asks |-> cell.participant = "agent"]
      BY <1>1, <2>1 DEF Produced
    <2>3. /\ e.kind = "observation" /\ e.variant = cell.policy
          /\ e.fault = LegacyFault(cell.case)
          /\ cell.participant = "workflow" => ~e.asks
      BY <2>2
    <2> QED BY <1>1, <2>3 DEF Accepted, Semantic
  <1>2. CASE preset = "retries"
    <2>1. cell.participant \in {"agent", "workflow"}
      BY <1>0, <1>2 DEF ParticipantsOf, Semantic
    <2>2. e = [kind |-> "retry", case |-> cell.case, policy |-> cell.policy,
               asks |-> cell.participant = "agent"]
      BY <1>2, <2>1 DEF Produced
    <2>3. /\ e.kind = "retry" /\ e.case = cell.case
          /\ e.policy = cell.policy
          /\ cell.participant = "workflow" => ~e.asks
      BY <2>2
    <2> QED BY <1>2, <2>3 DEF Accepted, Semantic
  <1>3. CASE preset = "runtime"
    <2>1. cell.participant = "agent"
      BY <1>0, <1>3 DEF ParticipantsOf, Semantic
    <2>2. e = [kind |-> "runtime", runtime |-> cell.policy,
               config |-> RuntimeConfig(cell.case, m)]
      BY <1>3, <2>1 DEF Produced
    <2>3. /\ e.kind = "runtime" /\ e.runtime = cell.policy
          /\ e.config = RuntimeConfig(cell.case, m)
      BY <2>2
    <2> QED BY <1>3, <2>1, <2>3 DEF Accepted, Semantic
  <1>4. CASE preset \in Semantic /\ cell.participant # "agent"
    <2>1. cell.participant \in {"scanner", "probe"}
      BY <1>0, <1>4 DEF ParticipantsOf, Semantic
    <2>2. e \in {Scan(preset, cell, m, complete) : complete \in BOOLEAN}
      BY <1>4, <2>1 DEF Produced, Semantic
    <2>3. PICK complete \in BOOLEAN : e = Scan(preset, cell, m, complete)
      BY <2>2
    <2>4. e.kind = "scan" /\ e.input = cell.case
          /\ e.engine = Engine(preset, cell, m)
      BY <2>3 DEF Scan
    <2>5. AcceptedScan(cell, m, e)
      BY <1>4, <2>4 DEF AcceptedScan, Engine
    <2> QED BY <1>4, <2>1, <2>4, <2>5 DEF Accepted, Semantic
  <1>5. CASE preset = "semantic-admission" /\ cell.participant = "agent"
    <2>1. e = [kind |-> "boundary", config |-> ChildConfig(preset, cell, m),
               scan |-> Scan(preset, cell, m, TRUE)]
      BY <1>5 DEF Produced
    <2>2. AcceptedScan(cell, m, e.scan)
      BY <1>5, <2>1 DEF AcceptedScan, Scan, Engine, Semantic
    <2>3. /\ e.config.case = cell.case /\ e.config.mode = m
          /\ e.config.surface = "skill" /\ e.config.scan_policy = "enforce"
          /\ e.config.permission_policy = "audit"
      BY <1>5, <2>1 DEF ChildConfig, BoundaryConfig
    <2>4. e.kind = "boundary"
      BY <2>1
    <2> QED BY <1>5, <2>2, <2>3, <2>4 DEF Accepted, Semantic
  <1>6. CASE preset \in {"approvals", "injection", "context"}
    <2>1. cell.participant = "agent"
      BY <1>0, <1>6 DEF ParticipantsOf, Semantic
    <2>2. e = [kind |-> "boundary", config |-> ChildConfig(preset, cell, m),
               scan |-> Scan(preset, cell, m, TRUE)]
      BY <1>6, <2>1 DEF Produced
    <2>3. e.kind = "boundary" /\ e.config = ChildConfig(preset, cell, m)
      BY <2>2
    <2>4. AcceptedBoundary(preset, cell, m, ChildConfig(preset, cell, m))
      BY <1>6 DEF AcceptedBoundary, ChildConfig, BoundaryConfig
    <2> QED BY <1>6, <2>1, <2>3, <2>4 DEF Accepted, Semantic
  <1>7. preset = "scanner" => cell.participant # "agent"
    BY <1>0 DEF ParticipantsOf, Semantic
  <1> QED BY <1>1, <1>2, <1>3, <1>4, <1>5, <1>6, <1>7 DEF Presets, Semantic

LEMMA InitRecord == Init => RecordInv
  BY DEF Init, RecordInv, EvidenceInv, GateInv, Busy, Incomplete

\* Steps that leave the manifest and the seals alone, and go no further.
LEMMA RecordKept ==
    ASSUME RecordInv, UNCHANGED <<plan, mode, status, results, seals>>,
           pc' \in Busy \cup {"loop"} => pc \in Busy \cup {"loop"}
    PROVE  RecordInv'
  BY DEF RecordInv, EvidenceInv, GateInv, Passed, Incomplete, Evidence, Slots

\* One slot, or a running one at a time, is closed as its seal says.
LEMMA ClosedRecord ==
    ASSUME StudyInv, RecordInv, UNCHANGED <<plan, mode, seals>>,
           \A j \in Slots :
              \/ status'[j] = status[j] /\ results'[j] = results[j]
              \/ /\ status[j] = "running"
                 /\ results'[j] = seals[j]
                 /\ status'[j] # "unstarted"
                 /\ status'[j] = "completed" <=> seals[j] # None
    PROVE  /\ EvidenceInv'
           /\ \A i, j \in Slots :
                 /\ plan.slots[i].participant # "probe"
                 /\ plan.slots[j].participant = "probe"
                 /\ status'[i] # "unstarted"
                 => Passed(j)'
  <1>1. EvidenceInv'
    BY DEF RecordInv, EvidenceInv, Evidence, Slots
  <1>2. ASSUME NEW i \in Slots, NEW j \in Slots,
               plan.slots[i].participant # "probe",
               plan.slots[j].participant = "probe",
               status'[i] # "unstarted"
        PROVE  Passed(j)'
    <2>1. status[i] # "unstarted"
      BY <1>2
    <2>2. Passed(j)
      BY <1>2, <2>1 DEF RecordInv, GateInv
    <2>3. status'[j] = status[j] /\ results'[j] = results[j]
      BY <2>2 DEF Passed
    <2> QED BY <2>2, <2>3 DEF Passed, Incomplete
  <1> QED BY <1>1, <1>2

LEMMA StepRecord == StudyInv /\ RecordInv /\ [Next]_vars => RecordInv'
  <1> SUFFICES ASSUME StudyInv, RecordInv, [Next]_vars PROVE RecordInv'
      OBVIOUS
  <1> USE DEF fixed, manifest, files, memory, history
  <1>0. Slots' = Slots
    BY DEF Next, Controller, Child, vars, Slots, Create, Reconcile, StartSlot,
        EndLoop, Spawn, SpawnFails, ChildReaped, StopWorker, Settle, Resume,
        GiveUp, Crash, ChildBegins, ChildSeals, ChildEnds, Tick
  <1>1. CASE UNCHANGED vars
    BY <1>1, RecordKept DEF vars
  <1>2. CASE EndLoop \/ Spawn \/ SpawnFails \/ ChildReaped \/ StopWorker
    <2>1. pc \in Busy \cup {"loop"}
      BY <1>2 DEF Busy, EndLoop, Spawn, SpawnFails, ChildReaped, StopWorker
    <2>2. UNCHANGED <<plan, mode, status, results, seals>>
      BY <1>2 DEF EndLoop, Spawn, SpawnFails, ChildReaped, StopWorker
    <2> QED BY <2>1, <2>2, RecordKept
  <1>3. CASE Resume \/ Crash \/ GiveUp
    <2>1. pc' \in Busy \cup {"loop"} => pc \in Busy \cup {"loop"}
      BY <1>3 DEF Busy, Resume, Crash, GiveUp
    <2>2. UNCHANGED <<plan, mode, status, results, seals>>
      BY <1>3 DEF Resume, Crash, GiveUp
    <2> QED BY <2>1, <2>2, RecordKept
  <1>4. CASE ChildBegins \/ ChildEnds \/ Tick
    <2>1. pc' = pc /\ UNCHANGED <<plan, mode, status, results, seals>>
      BY <1>4 DEF ChildBegins, ChildEnds, Tick
    <2> QED BY <2>1, RecordKept
  <1>5. CASE Create
    <2>1. UNCHANGED <<plan, mode, status, results, seals>>
      BY <1>5 DEF Create
    <2>2. \A i \in Slots : status[i] = "unstarted"
      BY <1>5 DEF Create, StudyInv, OneAtATime
    <2> QED
      BY <2>1, <2>2, <1>0 DEF RecordInv, EvidenceInv, GateInv, Passed,
          Incomplete, Evidence
  <1>6. CASE ChildSeals
    <2>1. pc' = pc /\ UNCHANGED <<plan, mode, status, results>>
      BY <1>6 DEF ChildSeals
    <2>2. PICK e \in Evidence(child.slot) :
              seals' = [seals EXCEPT ![child.slot] = e]
      BY <1>6 DEF ChildSeals
    <2>3. \A i \in Slots : seals'[i] = IF i = child.slot THEN e ELSE seals[i]
      BY <2>2 DEF StudyInv, Traces, Total
    <2>4. EvidenceInv'
      BY <1>0, <2>1, <2>2, <2>3 DEF RecordInv, EvidenceInv, Evidence
    <2>5. GateInv'
      BY <1>0, <2>1 DEF RecordInv, GateInv, Passed, Incomplete
    <2> QED BY <2>4, <2>5 DEF RecordInv
  <1>7. CASE Reconcile
    <2>1. \A j \in Slots :
              \/ status'[j] = status[j] /\ results'[j] = results[j]
              \/ /\ status[j] = "running"
                 /\ results'[j] = seals[j]
                 /\ status'[j] # "unstarted"
                 /\ status'[j] = "completed" <=> seals[j] # None
      BY <1>7 DEF Reconcile
    <2>2. UNCHANGED <<plan, mode, seals>>
      BY <1>7 DEF Reconcile
    <2>3. pc' \in Busy \cup {"loop"} =>
              \A j \in Slots : ~Incomplete(j, status'[j], results'[j])
      BY <1>7 DEF Reconcile, GateClosed, Busy
    <2>4. GateInv'
      BY <1>0, <2>1, <2>2, <2>3, ClosedRecord DEF GateInv, Incomplete
    <2> QED BY <2>1, <2>2, <2>4, ClosedRecord DEF RecordInv
  <1>8. CASE Settle
    <2> DEFINE s == IF seals[slot] # None THEN "completed" ELSE verdict
    <2>0. /\ pc \in Busy /\ slot \in Slots /\ status[slot] = "running"
          /\ verdict \in {"failed", "interrupted"}
          /\ \A j \in Slots : status[j] = "running" => j = slot
      BY <1>8 DEF Settle, StudyInv, OneAtATime, TypeOK, IsRunning, Busy
    <2>1. /\ status' = [status EXCEPT ![slot] = s]
          /\ results' = [results EXCEPT ![slot] = seals[slot]]
          /\ pc' \in {"loop", "down"}
          /\ pc' = "loop" => ~Incomplete(slot, s, seals[slot])
          /\ UNCHANGED <<plan, mode, seals>>
      BY <1>8 DEF Settle
    <2>2. /\ \A j \in Slots : status'[j] = IF j = slot THEN s ELSE status[j]
          /\ \A j \in Slots :
                results'[j] = IF j = slot THEN seals[slot] ELSE results[j]
      BY <2>1 DEF StudyInv, TypeOK, Traces, Total
    <2>3. \A j \in Slots :
              \/ status'[j] = status[j] /\ results'[j] = results[j]
              \/ /\ status[j] = "running"
                 /\ results'[j] = seals[j]
                 /\ status'[j] # "unstarted"
                 /\ status'[j] = "completed" <=> seals[j] # None
      BY <2>0, <2>2
    <2>4. pc' \in Busy \cup {"loop"} =>
              \A j \in Slots : ~Incomplete(j, status'[j], results'[j])
      <3> SUFFICES ASSUME pc' = "loop", NEW j \in Slots
                   PROVE  ~Incomplete(j, status'[j], results'[j])
          BY <2>1 DEF Busy
      <3>1. CASE j = slot
        BY <2>1, <2>2, <3>1
      <3>2. CASE j # slot
        BY <2>0, <2>2, <3>2 DEF RecordInv, GateInv
      <3> QED BY <3>1, <3>2
    <2>5. GateInv'
      BY <1>0, <2>1, <2>3, <2>4, ClosedRecord DEF GateInv, Incomplete
    <2> QED BY <2>1, <2>3, <2>5, ClosedRecord DEF RecordInv
  <1>9. CASE StartSlot
    <2>1. PICK i \in Slots : /\ IsNext(i)
                             /\ status' = [status EXCEPT ![i] = "running"]
      BY <1>9 DEF StartSlot
    <2>2. /\ status[i] = "unstarted"
          /\ \A j \in Slots : status[j] = "unstarted" => i <= j
      BY <2>1 DEF IsNext, Unstarted
    <2>3. /\ pc = "loop" /\ \A j \in Slots : ~IsRunning(j)
          /\ UNCHANGED <<plan, mode, results, seals>>
          /\ Slots = 1 .. Len(plan.slots) /\ Len(plan.slots) \in Nat
      BY <1>9, SlotsNumbered DEF StartSlot, StudyInv, OneAtATime, TypeOK
    <2>4. \A j \in Slots : status'[j] = IF j = i THEN "running" ELSE status[j]
      BY <2>1 DEF StudyInv, TypeOK
    <2>5. \A j \in Slots : ~Incomplete(j, status[j], results[j])
      BY <2>3 DEF RecordInv, GateInv, IsRunning
    <2>6. EvidenceInv'
      BY <1>0, <2>2, <2>3, <2>4 DEF RecordInv, EvidenceInv, Evidence
    <2>7. \A j \in Slots : status'[j] # "running" =>
              ~Incomplete(j, status'[j], results'[j])
      BY <2>3, <2>4, <2>5
    <2>8. ASSUME NEW k \in Slots, NEW j \in Slots,
                 plan.slots[k].participant # "probe",
                 plan.slots[j].participant = "probe",
                 status'[k] # "unstarted"
          PROVE  status'[j] = "completed"
                 /\ ~Incomplete(j, status'[j], results'[j])
      <3>1. CASE k # i
        <4>1. Passed(j)
          BY <2>4, <2>8, <3>1 DEF RecordInv, GateInv
        <4> QED BY <2>2, <2>3, <2>4, <4>1 DEF Passed
      <3>2. CASE k = i
        <4>1. j < i
          BY <2>3, <2>8, <3>2, SlotsAreCells DEF StudyInv, TypeOK
        <4>2. status[j] # "unstarted"
          BY <2>2, <2>3, <4>1
        <4>3. results[j] # None
          BY <2>5, <2>8, <4>2 DEF Incomplete
        <4>4. status[j] = "completed"
          BY <4>3 DEF RecordInv, EvidenceInv
        <4> QED BY <2>2, <2>3, <2>4, <2>5, <4>1, <4>4
      <3> QED BY <3>1, <3>2
    <2>9. GateInv'
      BY <1>0, <2>3, <2>7, <2>8 DEF GateInv, Passed, Incomplete
    <2> QED BY <2>6, <2>9 DEF RecordInv
  <1> QED BY <1>1, <1>2, <1>3, <1>4, <1>5, <1>6, <1>7, <1>8, <1>9
      DEF Next, Controller, Child

LEMMA RecordInvariant == Spec => [](StudyInv /\ RecordInv)
  <1>1. Init => StudyInv /\ RecordInv
    BY InitInv, InitRecord
  <1>2. StudyInv /\ RecordInv /\ [Next]_vars => (StudyInv /\ RecordInv)'
    BY StepInv, StepRecord
  <1> QED BY <1>1, <1>2, PTL DEF Spec

\* resume never refuses a manifest: whichever controller wrote it, it has the
\* shape that Entry and Study insist on, and every slot's evidence is evidence
\* that the inventory accepts for its cell.
THEOREM ManifestIsAccepted == Spec => []ManifestAccepted
  <1>1. StudyInv /\ RecordInv => ManifestAccepted
    <2> SUFFICES ASSUME StudyInv, RecordInv PROVE ManifestNeverRefused
        BY DEF ManifestAccepted, StudyInv
    <2>1. \A i, j \in Slots :
              status[i] = "running" /\ status[j] = "running" => i = j
      BY DEF StudyInv, OneAtATime, IsRunning
    <2>2. (\E i \in Slots : status[i] = "running") <=> reserved > 0
      BY DEF StudyInv, Books, IsRunning
    <2>3. ASSUME NEW i \in Slots
          PROVE  /\ status[i] = "completed" <=> results[i] # None
                 /\ results[i] # None =>
                       Accepted(plan.preset, plan.slots[i], mode, results[i])
      <3>1. status[i] = "completed" <=> results[i] # None
        BY DEF RecordInv, EvidenceInv
      <3>2. ASSUME results[i] # None
            PROVE  Accepted(plan.preset, plan.slots[i], mode, results[i])
        <4>1. results[i] = seals[i]
          BY <3>1, <3>2 DEF StudyInv, Traces, SealsAreKept
        <4>2. results[i] \in Produced(plan.preset, plan.slots[i], mode)
          BY <3>2, <4>1 DEF RecordInv, EvidenceInv, Evidence
        <4>3. /\ plan.preset \in Presets /\ mode \in Modes
              /\ plan.slots[i] \in Cells(plan.preset)
          BY SlotsAreCells, StudyAssumption
              DEF StudyInv, TypeOK, StudyAssumption
        <4> QED BY <4>2, <4>3, ProducedIsAccepted
      <3> QED BY <3>1, <3>2
    <2> QED BY <2>1, <2>2, <2>3 DEF ManifestNeverRefused
  <1> QED BY <1>1, RecordInvariant, PTL

\* Nothing but a probe is started before every probe was sealed with a complete
\* scan, over any number of sessions (the gate in reconcile and in _continue).
THEOREM ProbesComeFirst == Spec => []ProbesGateTheStudy
  <1>1. StudyInv /\ RecordInv => ProbesGateTheStudy
    <2> SUFFICES ASSUME StudyInv, RecordInv,
                        NEW i \in Slots, NEW j \in Slots,
                        plan.slots[i].participant # "probe", spawns[i] > 0,
                        plan.slots[j].participant = "probe"
                 PROVE  /\ seals[j] # None
                        /\ seals[j].kind = "scan"
                        /\ seals[j].complete
        BY DEF ProbesGateTheStudy
    <2>1. status[i] # "unstarted"
      BY DEF StudyInv, Traces, NoSlotRunsTwice
    <2>2. Passed(j)
      BY <2>1 DEF RecordInv, GateInv
    <2>3. results[j] = seals[j]
      BY <2>2 DEF Passed, StudyInv, Traces, SealsAreKept
    <2> QED BY <2>2, <2>3 DEF Passed, Incomplete
  <1> QED BY <1>1, RecordInvariant, PTL

-----------------------------------------------------------------------------
(* The slots of a design are matched.                                      *)

Distinct(s) == \A i, j \in DOMAIN s : s[i] = s[j] => i = j

\* The cases, the policies and the participants of a preset have names of
\* their own.
LEMMA CasesDistinct ==
    ASSUME NEW preset \in Presets PROVE Distinct(CasesOf(preset))
  <1>1. CASE preset = "runtime"
    BY <1>1 DEF CasesOf, RuntimeCases, Distinct
  <1>2. CASE preset = "scanner"
    BY <1>2 DEF CasesOf, InjectionCases, Distinct
  <1>3. CASE preset = "claims"
    <2>1. CasesOf(preset) = <<"healthy", "dropped-write">>
      BY <1>3 DEF CasesOf
    <2> QED BY <2>1 DEF Distinct
  <1>4. CASE preset = "retries"
    <2>1. CasesOf(preset) = <<"retry-healthy", "lost-reply-once">>
      BY <1>4 DEF CasesOf
    <2> QED BY <2>1 DEF Distinct
  <1>5. CASE preset = "approvals"
    <2>1. CasesOf(preset) = <<"approved", "rejected">>
      BY <1>5 DEF CasesOf
    <2> QED BY <2>1 DEF Distinct
  <1>6. CASE preset \in {"injection", "semantic-admission"}
    <2>1. CasesOf(preset)
              = <<"injection-override", "injection-override-benign">>
      BY <1>6 DEF CasesOf
    <2> QED BY <2>1 DEF Distinct
  <1>7. CASE preset = "context"
    <2>1. CasesOf(preset) = <<"memory-stale-title">>
      BY <1>7 DEF CasesOf
    <2>2. DOMAIN <<"memory-stale-title">> = 1 .. 1 /\ 1 .. 1 = {1}
      OBVIOUS
    <2>3. DOMAIN CasesOf(preset) = {1}
      BY <2>1, <2>2
    <2> QED BY <2>3 DEF Distinct
  <1> QED BY <1>1, <1>2, <1>3, <1>4, <1>5, <1>6, <1>7 DEF Presets

LEMMA PoliciesDistinct ==
    ASSUME NEW preset \in Presets
    PROVE  PoliciesOf(preset)[1] # PoliciesOf(preset)[2]
  BY DEF Presets, PoliciesOf, Semantic

LEMMA ParticipantsDistinct ==
    ASSUME NEW preset \in Presets PROVE Distinct(ParticipantsOf(preset))
  <1>1. CASE ParticipantsOf(preset) = <<"agent", "workflow">>
    BY <1>1 DEF Distinct
  <1>2. CASE ParticipantsOf(preset) \in {<<"scanner">>, <<"agent">>}
    <2>1. \A x : DOMAIN <<x>> = 1 .. 1
      OBVIOUS
    <2>2. 1 .. 1 = {1}
      OBVIOUS
    <2>3. DOMAIN ParticipantsOf(preset) = {1}
      BY <1>2, <2>1, <2>2
    <2> QED BY <2>3 DEF Distinct
  <1> QED BY <1>1, <1>2 DEF ParticipantsOf

\* A shuffle puts every case in exactly one place.
LEMMA ShuffleIsBijective ==
    ASSUME NEW preset \in Presets, NEW order \in Seq(STRING),
           IsShuffle(preset, order)
    PROVE  /\ DOMAIN order = 1 .. Len(CasesOf(preset))
           /\ Distinct(order)
           /\ \A c \in DOMAIN CasesOf(preset) : \E a \in DOMAIN order :
                 order[a] = CasesOf(preset)[c]
           /\ \A a \in DOMAIN order : \E c \in DOMAIN CasesOf(preset) :
                 order[a] = CasesOf(preset)[c]
  <1> DEFINE S == 1 .. Len(CasesOf(preset))
             f == CasesOf(preset)
             T == {f[i] : i \in DOMAIN f}
  <1>1. /\ DOMAIN f = S /\ Len(f) \in Nat
        /\ DOMAIN order = S
        /\ {order[i] : i \in DOMAIN order} = T
    <2>1. DOMAIN f = S /\ Len(f) \in Nat
      BY PresetSizes
    <2>2. Len(order) = Len(f) /\ {order[i] : i \in DOMAIN order} = T
      BY DEF IsShuffle
    <2>3. DOMAIN order = 1 .. Len(order)
      OBVIOUS
    <2> QED BY <2>1, <2>2, <2>3
  <1> DEFINE g == [i \in S |-> f[i]]
  <1>2. g \in [S -> T] /\ order \in [S -> T]
    <2>1. order = [i \in S |-> order[i]]
      BY <1>1
    <2>2. \A i \in S : f[i] \in T /\ order[i] \in T
      BY <1>1
    <2> HIDE DEF f, T, S
    <2> QED BY <2>1, <2>2
  <1>3. g \in Bijection(S, T)
    <2>1. \A i, j \in S : g[i] = g[j] => i = j
      BY <1>1, CasesDistinct DEF Distinct
    <2>2. \A t \in T : \E i \in S : g[i] = t
      BY <1>1
    <2> HIDE DEF f, T, S, g
    <2> QED BY <1>2, <2>1, <2>2
            DEF Bijection, Injection, Surjection, IsInjective
  <1>4. IsFiniteSet(S) /\ Cardinality(S) = Cardinality(T)
    BY <1>1, <1>3, FS_Interval, FS_Bijection DEF ExistsBijection
  <1>5. order \in Surjection(S, T)
    BY <1>1, <1>2 DEF Surjection
  <1>6. order \in Injection(S, T)
    <2> HIDE DEF S, T
    <2> QED BY <1>4, <1>5, FS_SurjSameCardinalityImpliesInj
  <1>7. Distinct(order)
    BY <1>1, <1>6 DEF Injection, IsInjective, Distinct
  <1> QED BY <1>1, <1>7

\* The coordinates of the k-th slot after the probes.
Per(preset) == 2 * Len(ParticipantsOf(preset))
RoundOf(preset, k) == ((k - 1) \div BlockSize(preset)) + 1
CaseAt(preset, k) == (((k - 1) % BlockSize(preset)) \div Per(preset)) + 1
WhoAt(preset, k) == ((((k - 1) % BlockSize(preset)) % Per(preset)) \div 2) + 1
PolicyAt(preset, k) == (((k - 1) % BlockSize(preset)) % 2) + 1
SlotIndex(preset, r, c, w, p) ==
    (r - 1) * BlockSize(preset) + (c - 1) * Per(preset) + (w - 1) * 2 + p

LEMMA SizesAre ==
    ASSUME NEW preset \in Presets
    PROVE  /\ Len(ParticipantsOf(preset)) \in {1, 2}
           /\ Per(preset) = 2 * Len(ParticipantsOf(preset))
           /\ Len(CasesOf(preset)) \in {1, 2, 4, 8}
           /\ BlockSize(preset) = Len(CasesOf(preset)) * Per(preset)
           /\ Per(preset) \in {2, 4} /\ BlockSize(preset) \in {2, 4, 8, 16, 32}
  <1>1. \A k \in {1, 2, 4, 8}, l \in {1, 2} :
            2 * l \in {2, 4} /\ k * (2 * l) \in {2, 4, 8, 16, 32}
    OBVIOUS
  <1> QED BY <1>1, PresetSizes DEF Per, BlockSize

\* What is left of the arithmetic once the sizes are numbers.
LEMMA Coordinates ==
    ASSUME NEW b \in {2, 4, 8, 16, 32}, NEW h \in {2, 4}, NEW l \in {1, 2, 4, 8},
           b = l * h, NEW n \in Nat
    PROVE  LET m == n % b
           IN  /\ n \div b \in Nat
               /\ m \div h \in 0 .. l - 1
               /\ (m % h) \div 2 \in 0 .. (h \div 2) - 1
               /\ m % 2 \in {0, 1}
               /\ n = (n \div b) * b + (m \div h) * h + ((m % h) \div 2) * 2
                      + (m % 2)
  <1> DEFINE m == n % b
             q == n \div b
  <1>1. q \in Nat /\ m \in 0 .. b - 1 /\ n = q * b + m
    <2>1. CASE b = 2
      BY <2>1
    <2>2. CASE b = 4
      BY <2>2
    <2>3. CASE b = 8
      BY <2>3
    <2>4. CASE b = 16
      BY <2>4
    <2>5. CASE b = 32
      BY <2>5
    <2> QED BY <2>1, <2>2, <2>3, <2>4, <2>5
  <1> HIDE DEF m, q
  <1>2. /\ m \div h \in 0 .. l - 1
        /\ (m % h) \div 2 \in 0 .. (h \div 2) - 1
        /\ m % 2 \in {0, 1}
        /\ m = (m \div h) * h + ((m % h) \div 2) * 2 + (m % 2)
    <2>1. CASE h = 2
      <3>1. m \in 0 .. 2 * l - 1
        BY <1>1, <2>1
      <3> QED BY <2>1, <3>1
    <2>2. CASE h = 4
      <3>1. m \in 0 .. 4 * l - 1
        BY <1>1, <2>2
      <3> QED BY <2>2, <3>1
    <2> QED BY <2>1, <2>2
  <1>3. q * b \in Int /\ (m \div h) * h \in Int /\ ((m % h) \div 2) * 2 \in Int
    <2>1. \A x, y \in Int : x * y \in Int
      OBVIOUS
    <2>2. /\ q \in Int /\ b \in Int /\ h \in Int /\ m \div h \in Int
          /\ (m % h) \div 2 \in Int
      BY <1>1, <1>2
    <2> QED BY <2>1, <2>2
  <1>4. n = q * b + (m \div h) * h + ((m % h) \div 2) * 2 + (m % 2)
    <2> DEFINE x == q * b
               y == (m \div h) * h
               z == ((m % h) \div 2) * 2
               u == m % 2
    <2>1. n = x + m /\ m = y + z + u /\ u \in {0, 1}
          /\ x \in Int /\ y \in Int /\ z \in Int
      BY <1>1, <1>2, <1>3
    <2> HIDE DEF x, y, z, u
    <2>2. n = x + y + z + u
      BY <2>1
    <2> QED BY <2>2 DEF x, y, z, u
  <1> QED BY <1>1, <1>2, <1>4 DEF m, q

Packed(b, h, q, x, y, z) == q * b + x * h + y * 2 + z
FitsIn(b, h, l, x, y, z) ==
    /\ b \in {2, 4, 8, 16, 32} /\ h \in {2, 4} /\ l \in {1, 2, 4, 8}
    /\ b = l * h
    /\ x \in 0 .. l - 1 /\ y \in 0 .. (h \div 2) - 1 /\ z \in {0, 1}
Unpacks(b, h, n, q, x, y, z) ==
    /\ n \in Nat /\ n \div b = q
    /\ (n % b) \div h = x /\ ((n % b) % h) \div 2 = y /\ (n % b) % 2 = z

LEMMA CoordinatesBack ==
    \A b, h, l, q, x, y, z :
        q \in Nat /\ FitsIn(b, h, l, x, y, z)
            => Unpacks(b, h, Packed(b, h, q, x, y, z), q, x, y, z)
  <1> SUFFICES ASSUME NEW b, NEW h, NEW l, NEW q \in Nat, NEW x, NEW y, NEW z,
                      FitsIn(b, h, l, x, y, z)
               PROVE  Unpacks(b, h, Packed(b, h, q, x, y, z), q, x, y, z)
      OBVIOUS
  <1> DEFINE n == Packed(b, h, q, x, y, z)
  <1> USE DEF FitsIn
  <1> DEFINE e == x * h + y * 2 + z
  <1>1. /\ e \in 0 .. b - 1
        /\ e \div h = x /\ (e % h) \div 2 = y /\ e % 2 = z
    <2>1. CASE h = 2
      <3>1. b = l * 2 /\ y = 0
        BY <2>1
      <3> QED BY <2>1, <3>1
    <2>2. CASE h = 4
      <3>1. b = l * 4 /\ y \in {0, 1}
        BY <2>2
      <3> QED BY <2>2, <3>1
    <2> QED BY <2>1, <2>2
  <1>2. n = q * b + e
    <2>1. q * b \in Int /\ x * h \in Int /\ y * 2 \in Int
      <3>1. \A i, j \in Int : i * j \in Int
        OBVIOUS
      <3>2. q \in Int /\ b \in Int /\ x \in Int /\ h \in Int /\ y \in Int
        OBVIOUS
      <3> QED BY <3>1, <3>2
    <2> DEFINE s == q * b
               t == x * h
               u == y * 2
    <2>2. s \in Int /\ t \in Int /\ u \in Int /\ z \in Int /\ n = s + t + u + z
      BY <2>1 DEF Packed
    <2> HIDE DEF s, t, u
    <2>3. n = s + (t + u + z)
      BY <2>2
    <2> QED BY <2>3 DEF s, t, u
  <1> HIDE DEF e, n
  <1>3. n \in Nat /\ n \div b = q /\ n % b = e
    <2>1. CASE b = 2
      BY <1>1, <1>2, <2>1
    <2>2. CASE b = 4
      BY <1>1, <1>2, <2>2
    <2>3. CASE b = 8
      BY <1>1, <1>2, <2>3
    <2>4. CASE b = 16
      BY <1>1, <1>2, <2>4
    <2>5. CASE b = 32
      BY <1>1, <1>2, <2>5
    <2> QED BY <2>1, <2>2, <2>3, <2>4, <2>5
  <1> QED BY <1>1, <1>3 DEF n, Unpacks

\* The coordinates of the k-th slot are among those of the preset, and lead
\* back to it.
LEMMA PlaceOfSlot ==
    ASSUME NEW preset \in Presets, NEW k \in Nat \ {0}
    PROVE  /\ RoundOf(preset, k) \in Nat \ {0}
           /\ CaseAt(preset, k) \in 1 .. Len(CasesOf(preset))
           /\ WhoAt(preset, k) \in 1 .. Len(ParticipantsOf(preset))
           /\ PolicyAt(preset, k) \in {1, 2}
           /\ k = SlotIndex(preset, RoundOf(preset, k), CaseAt(preset, k),
                            WhoAt(preset, k), PolicyAt(preset, k))
  <1> DEFINE b == BlockSize(preset)
             h == Per(preset)
             l == Len(CasesOf(preset))
             n == k - 1
             m == n % b
  <1>1. /\ b \in {2, 4, 8, 16, 32} /\ h \in {2, 4} /\ l \in {1, 2, 4, 8}
        /\ b = l * h /\ n \in Nat
    BY SizesAre
  <1>2. h \div 2 = Len(ParticipantsOf(preset))
    BY SizesAre
  <1>3. /\ n \div b \in Nat
        /\ m \div h \in 0 .. l - 1
        /\ (m % h) \div 2 \in 0 .. (h \div 2) - 1
        /\ m % 2 \in {0, 1}
        /\ n = (n \div b) * b + (m \div h) * h + ((m % h) \div 2) * 2 + (m % 2)
    <2> HIDE DEF b, h, l, n
    <2> QED BY <1>1, Coordinates
  <1>4. /\ RoundOf(preset, k) = (n \div b) + 1
        /\ CaseAt(preset, k) = (m \div h) + 1
        /\ WhoAt(preset, k) = ((m % h) \div 2) + 1
        /\ PolicyAt(preset, k) = (m % 2) + 1
    BY DEF RoundOf, CaseAt, WhoAt, PolicyAt
  <1> DEFINE q == n \div b
             x == m \div h
             y == (m % h) \div 2
             z == m % 2
  <1>5. SlotIndex(preset, q + 1, x + 1, y + 1, z + 1)
            = ((q + 1) - 1) * b + ((x + 1) - 1) * h + ((y + 1) - 1) * 2 + (z + 1)
    BY DEF SlotIndex
  <1>6. /\ q \in Nat /\ x \in 0 .. l - 1 /\ z \in {0, 1}
        /\ y \in 0 .. Len(ParticipantsOf(preset)) - 1
        /\ n = q * b + x * h + y * 2 + z
        /\ b \in Int /\ h \in Int /\ l \in Int /\ k = n + 1
        /\ Len(ParticipantsOf(preset)) \in Int
    <2>1. k = n + 1 /\ n \in Nat
      OBVIOUS
    <2>2. Len(ParticipantsOf(preset)) \in Int
      BY SizesAre
    <2> HIDE DEF m, n, b, h, l
    <2>3. b \in Int /\ h \in Int /\ l \in Int
      BY <1>1
    <2>4. q \in Nat /\ x \in 0 .. l - 1 /\ z \in {0, 1}
      BY <1>3
    <2>5. y \in 0 .. Len(ParticipantsOf(preset)) - 1
      BY <1>2, <1>3
    <2>6. n = q * b + x * h + y * 2 + z
      BY <1>3
    <2> HIDE DEF q, x, y, z
    <2> QED BY <2>1, <2>2, <2>3, <2>4, <2>5, <2>6
  <1>7. /\ RoundOf(preset, k) = q + 1 /\ CaseAt(preset, k) = x + 1
        /\ WhoAt(preset, k) = y + 1 /\ PolicyAt(preset, k) = z + 1
    BY <1>4
  <1> HIDE DEF q, x, y, z, m, n, b, h, l
  <1>8. /\ (q + 1) - 1 = q /\ (x + 1) - 1 = x /\ (y + 1) - 1 = y
    BY <1>6
  <1>9. SlotIndex(preset, q + 1, x + 1, y + 1, z + 1) = k
    <2>1. SlotIndex(preset, q + 1, x + 1, y + 1, z + 1)
              = q * b + x * h + y * 2 + (z + 1)
      BY <1>5, <1>8
    <2> DEFINE s == q * b
               t == x * h
               u == y * 2
    <2>2. s \in Int /\ t \in Int /\ u \in Int /\ z \in Int
      <3>1. \A i, j \in Int : i * j \in Int
        OBVIOUS
      <3>2. q \in Int /\ x \in Int /\ y \in Int /\ z \in Int
        BY <1>6
      <3> QED BY <1>6, <3>1, <3>2
    <2>3. /\ n = s + t + u + z
          /\ SlotIndex(preset, q + 1, x + 1, y + 1, z + 1) = s + t + u + (z + 1)
      BY <1>6, <2>1
    <2> HIDE DEF s, t, u
    <2> QED BY <1>6, <2>2, <2>3
  <1> QED BY <1>6, <1>7, <1>9 DEF l

LiesAt(preset, k, r, c, w, p) ==
    /\ k \in Nat \ {0}
    /\ RoundOf(preset, k) = r /\ CaseAt(preset, k) = c
    /\ WhoAt(preset, k) = w /\ PolicyAt(preset, k) = p

\* Every place is that of one slot, and lies among the slots of the rounds.
LEMMA SlotOfPlace ==
    ASSUME NEW preset \in Presets, NEW r \in Nat \ {0},
           NEW c \in 1 .. Len(CasesOf(preset)),
           NEW w \in 1 .. Len(ParticipantsOf(preset)), NEW p \in {1, 2}
    PROVE  LET k == SlotIndex(preset, r, c, w, p)
           IN  /\ LiesAt(preset, k, r, c, w, p)
               /\ \A rounds \in Nat :
                     k <= rounds * BlockSize(preset) <=> r <= rounds
  <1> DEFINE b == BlockSize(preset)
             h == Per(preset)
             l == Len(CasesOf(preset))
             k == SlotIndex(preset, r, c, w, p)
             n == k - 1
             q == r - 1
             x == c - 1
             y == w - 1
             z == p - 1
  <1>1. /\ b \in {2, 4, 8, 16, 32} /\ h \in {2, 4} /\ l \in {1, 2, 4, 8}
        /\ b = l * h
    BY SizesAre
  <1>2. h \div 2 = Len(ParticipantsOf(preset))
    BY SizesAre
  <1>3. /\ q \in Nat /\ x \in 0 .. l - 1 /\ y \in 0 .. (h \div 2) - 1
        /\ z \in {0, 1}
    <2>1. l \in Int /\ h \div 2 \in Int /\ w \in 1 .. h \div 2 /\ c \in 1 .. l
      BY <1>1, <1>2, SizesAre
    <2> HIDE DEF l, h
    <2> QED BY <2>1
  <1>4. k = q * b + x * h + y * 2 + p
    BY DEF SlotIndex
  <1> HIDE DEF b, h, l, k, q, x, y
  <1>5. n = q * b + x * h + y * 2 + z /\ q * b \in Int
    <2> DEFINE s == q * b
               t == x * h
               u == y * 2
    <2>1. s \in Int /\ t \in Int /\ u \in Int
      <3>1. \A i, j \in Int : i * j \in Int
        OBVIOUS
      <3>2. q \in Int /\ x \in Int /\ y \in Int /\ b \in Int /\ h \in Int
        BY <1>1, <1>3
      <3> QED BY <3>1, <3>2
    <2>2. k = s + t + u + p
      BY <1>4
    <2> HIDE DEF s, t, u
    <2>3. n = s + t + u + z
      BY <2>1, <2>2
    <2> QED BY <2>1, <2>3 DEF s, t, u
  <1> HIDE DEF n, z
  <1>6. /\ n \in Nat /\ n \div b = q
        /\ (n % b) \div h = x /\ ((n % b) % h) \div 2 = y /\ (n % b) % 2 = z
    <2>1. n = Packed(b, h, q, x, y, z)
      BY <1>5 DEF Packed
    <2>2. FitsIn(b, h, l, x, y, z)
      BY <1>1, <1>3 DEF FitsIn
    <2>3. Unpacks(b, h, Packed(b, h, q, x, y, z), q, x, y, z)
      BY <1>3, <2>2, CoordinatesBack
    <2> QED BY <2>1, <2>3 DEF Unpacks
  <1>7. k \in Nat \ {0} /\ k = n + 1
    <2>1. k \in Int
      <3> DEFINE s == q * b
                 t == x * h
                 u == y * 2
      <3>1. s \in Int /\ t \in Int /\ u \in Int
        <4>1. \A i, j \in Int : i * j \in Int
          OBVIOUS
        <4>2. q \in Int /\ x \in Int /\ y \in Int /\ b \in Int /\ h \in Int
          BY <1>1, <1>3
        <4> QED BY <4>1, <4>2
      <3>2. k = s + t + u + p
        BY <1>4
      <3> HIDE DEF s, t, u
      <3> QED BY <3>1, <3>2
    <2> QED BY <1>6, <2>1 DEF n
  <1>8. /\ RoundOf(preset, k) = q + 1 /\ CaseAt(preset, k) = x + 1
        /\ WhoAt(preset, k) = y + 1 /\ PolicyAt(preset, k) = z + 1
    BY <1>6 DEF RoundOf, CaseAt, WhoAt, PolicyAt, b, h, n
  <1>9. q + 1 = r /\ x + 1 = c /\ y + 1 = w /\ z + 1 = p
    BY SizesAre DEF q, x, y, z
  <1>10. ASSUME NEW rounds \in Nat PROVE k <= rounds * b <=> r <= rounds
    <2> HIDE DEF n, q
    <2>1. n < rounds * b <=> n \div b < rounds
      <3>1. CASE b = 2
        BY <1>6, <3>1
      <3>2. CASE b = 4
        BY <1>6, <3>2
      <3>3. CASE b = 8
        BY <1>6, <3>3
      <3>4. CASE b = 16
        BY <1>6, <3>4
      <3>5. CASE b = 32
        BY <1>6, <3>5
      <3> QED BY <1>1, <3>1, <3>2, <3>3, <3>4, <3>5
    <2> DEFINE total == rounds * b
    <2>2. total \in Int
      BY <1>1
    <2>3. q \in Int /\ n \in Int /\ r = q + 1 /\ k = n + 1
          /\ (n < total <=> q < rounds)
      BY <1>3, <1>6, <1>7, <1>9, <2>1
    <2> HIDE DEF total
    <2>4. k <= total <=> r <= rounds
      BY <2>2, <2>3
    <2> QED BY <2>4 DEF total
  <1>11. LiesAt(preset, k, r, c, w, p)
    BY <1>7, <1>8, <1>9 DEF LiesAt
  <1> QED BY <1>10, <1>11 DEF b, k

\* What a schedule of shuffled cases has at each place.
LEMMA ScheduleIs ==
    ASSUME NEW preset \in Presets, NEW orders \in Seq(Seq(STRING)),
           \A r \in DOMAIN orders : IsShuffle(preset, orders[r])
    PROVE  LET s == Schedule(preset, orders)
               first == Len(Probes(preset))
               size == Len(orders) * BlockSize(preset)
           IN  /\ first \in Nat /\ size \in Nat
               /\ DOMAIN s = 1 .. first + size
               /\ Real(s) = first + 1 .. first + size
               /\ \A k \in 1 .. size :
                     /\ RoundOf(preset, k) \in 1 .. Len(orders)
                     /\ s[first + k] =
                          Slot(RoundOf(preset, k),
                               orders[RoundOf(preset, k)][CaseAt(preset, k)],
                               Ordered(preset, RoundOf(preset, k))
                                  [PolicyAt(preset, k)],
                               ParticipantsOf(preset)[WhoAt(preset, k)])
  <1> DEFINE b == BlockSize(preset)
             size == Len(orders) * b
             first == Len(Probes(preset))
             s == Schedule(preset, orders)
             rest == [n \in 1 .. size |->
                 Block(preset, RoundOf(preset, n), orders[RoundOf(preset, n)])
                    [((n - 1) % b) + 1]]
  <1>1. b \in {2, 4, 8, 16, 32} /\ Len(orders) \in Nat /\ size \in Nat
    <2>1. b \in {2, 4, 8, 16, 32} /\ Len(orders) \in Nat
      BY SizesAre
    <2> HIDE DEF b
    <2> QED BY <2>1
  <1>2. s = Probes(preset) \o rest
    BY DEF Schedule, RoundOf
  <1>3. /\ Probes(preset) \in Seq(Cells(preset)) /\ first \in Nat
        /\ \A i \in 1 .. first : Probes(preset)[i].participant = "probe"
    BY ProbesAreOfCells
  <1>4. ASSUME NEW k \in 1 .. size
        PROVE  /\ RoundOf(preset, k) \in 1 .. Len(orders)
               /\ rest[k] = Slot(RoundOf(preset, k),
                               orders[RoundOf(preset, k)][CaseAt(preset, k)],
                               Ordered(preset, RoundOf(preset, k))
                                  [PolicyAt(preset, k)],
                               ParticipantsOf(preset)[WhoAt(preset, k)])
               /\ rest[k].participant # "probe"
    <2> DEFINE r == RoundOf(preset, k)
               m == (k - 1) % b
    <2>1. k - 1 \in Nat /\ k - 1 < size
      BY <1>1
    <2>2. r \in 1 .. Len(orders) /\ m + 1 \in 1 .. b /\ (m + 1) - 1 = m
      <3>1. (k - 1) \div b \in Nat /\ (k - 1) \div b < Len(orders)
            /\ m \in 0 .. b - 1
        <4> HIDE DEF b
        <4> QED BY <1>1, <2>1, DivMod
      <3>2. r = (k - 1) \div b + 1
        BY DEF RoundOf
      <3> HIDE DEF b, r, m
      <3> QED BY <1>1, <3>1, <3>2
    <2>3. orders[r] \in Seq(STRING) /\ IsShuffle(preset, orders[r]) /\ r \in Nat
      BY <2>2
    <2>4. rest[k] = Block(preset, r, orders[r])[m + 1]
      OBVIOUS
    <2>5. rest[k].participant # "probe"
      <3> HIDE DEF r, m, rest
      <3> QED BY <2>2, <2>3, <2>4, BlockIsOfCells
    <2>6. Len(orders[r]) = Len(CasesOf(preset))
      BY <2>3 DEF IsShuffle
    <2>7. Block(preset, r, orders[r])[m + 1]
            = Slot(r, orders[r][CaseAt(preset, k)],
                   Ordered(preset, r)[PolicyAt(preset, k)],
                   ParticipantsOf(preset)[WhoAt(preset, k)])
      <3>1. Len(orders[r]) * (2 * Len(ParticipantsOf(preset))) = b
        BY <2>6 DEF BlockSize
      <3>2. /\ CaseAt(preset, k) = (m \div Per(preset)) + 1
            /\ WhoAt(preset, k) = ((m % Per(preset)) \div 2) + 1
            /\ PolicyAt(preset, k) = (m % 2) + 1
        BY DEF CaseAt, WhoAt, PolicyAt
      <3> HIDE DEF m, b, r
      <3> QED BY <2>2, <3>1, <3>2 DEF Block, Per
    <2> HIDE DEF r, rest
    <2> QED BY <2>2, <2>4, <2>5, <2>7 DEF r
  <1>5. Len(rest) = size /\ DOMAIN rest = 1 .. size
    BY <1>1
  <1>6. rest \in Seq(Cells(preset))
    <2>1. \A k \in 1 .. size : rest[k] \in Cells(preset)
      <3> SUFFICES ASSUME NEW k \in 1 .. size PROVE rest[k] \in Cells(preset)
          OBVIOUS
      <3> DEFINE r == RoundOf(preset, k)
                 m == (k - 1) % b
      <3>1. r \in 1 .. Len(orders)
        BY <1>4
      <3>2. m + 1 \in 1 .. b
        <4> HIDE DEF b
        <4>1. m \in 0 .. b - 1
          BY <1>1, DivMod
        <4> HIDE DEF m
        <4> QED BY <1>1, <4>1
      <3>3. orders[r] \in Seq(STRING) /\ IsShuffle(preset, orders[r])
            /\ r \in Nat
        BY <3>1
      <3>4. rest[k] = Block(preset, r, orders[r])[m + 1]
        OBVIOUS
      <3> HIDE DEF r, m, rest
      <3> QED BY <3>2, <3>3, <3>4, BlockIsOfCells
    <2> DEFINE N == size
               cell(i) == Block(preset, RoundOf(preset, i),
                                orders[RoundOf(preset, i)])[((i - 1) % b) + 1]
    <2>2. /\ N \in Nat /\ rest = [i \in 1 .. N |-> cell(i)]
          /\ \A i \in 1 .. N : cell(i) \in Cells(preset)
      <3> HIDE DEF b
      <3> QED BY <1>1, <2>1
    <2> HIDE DEF N, cell, rest
    <2> QED BY <2>2
  <1> HIDE DEF rest
  <1>7. /\ DOMAIN s = 1 .. first + size
        /\ \A i \in 1 .. first : s[i] = Probes(preset)[i]
        /\ \A k \in 1 .. size : s[first + k] = rest[k]
    <2> HIDE DEF size, s
    <2>1. /\ Len(s) = first + size /\ s \in Seq(Cells(preset))
          /\ \A i \in 1 .. first : s[i] = Probes(preset)[i]
      BY <1>1, <1>2, <1>3, <1>5, <1>6
    <2>2. \A k \in 1 .. size : s[first + k] = rest[k]
      <3> SUFFICES ASSUME NEW k \in 1 .. size PROVE s[first + k] = rest[k]
          OBVIOUS
      <3> QED BY <1>1, <1>2, <1>3, <1>5, <1>6
    <2> QED BY <2>1, <2>2
  <1>8. Real(s) = first + 1 .. first + size
    <2> HIDE DEF size, s, first
    <2>1. \A i \in 1 .. first : s[i].participant = "probe"
      BY <1>3, <1>7
    <2>2. \A k \in 1 .. size : s[first + k].participant # "probe"
      BY <1>4, <1>7
    <2>3. ASSUME NEW i \in first + 1 .. first + size
          PROVE  s[i].participant # "probe"
      <3>1. i - first \in 1 .. size /\ first + (i - first) = i
        BY <1>1, <1>3
      <3>2. s[first + (i - first)].participant # "probe"
        BY <2>2, <3>1
      <3> QED BY <3>1, <3>2
    <2>4. \A i : i \in 1 .. first + size <=>
                    i \in 1 .. first \/ i \in first + 1 .. first + size
      BY <1>1, <1>3
    <2> QED BY <1>1, <1>3, <1>7, <2>1, <2>3, <2>4 DEF Real
  <1> HIDE DEF size, s, first
  <1> QED BY <1>1, <1>3, <1>4, <1>7, <1>8 DEF s, first, size

\* The k-th slot of a schedule after the probes, by its coordinates.
First(preset) == Len(Probes(preset))
Size(preset, orders) == Len(orders) * BlockSize(preset)
Shuffled(preset, orders) ==
    /\ orders \in Seq(Seq(STRING))
    /\ \A r \in DOMAIN orders : IsShuffle(preset, orders[r])

LEMMA SlotAt ==
    ASSUME NEW preset \in Presets, NEW orders, Shuffled(preset, orders),
           NEW k \in 1 .. Size(preset, orders)
    PROVE  LET cell == Schedule(preset, orders)[First(preset) + k]
               r == RoundOf(preset, k)
           IN  /\ r \in 1 .. Len(orders) /\ r \in Nat \ {0}
               /\ orders[r] \in Seq(STRING) /\ IsShuffle(preset, orders[r])
               /\ CaseAt(preset, k) \in DOMAIN orders[r]
               /\ WhoAt(preset, k) \in DOMAIN ParticipantsOf(preset)
               /\ PolicyAt(preset, k) \in {1, 2}
               /\ cell = Slot(r, orders[r][CaseAt(preset, k)],
                              Ordered(preset, r)[PolicyAt(preset, k)],
                              ParticipantsOf(preset)[WhoAt(preset, k)])
               /\ First(preset) + k \in Real(Schedule(preset, orders))
  <1> DEFINE r == RoundOf(preset, k)
  <1> USE DEF Shuffled, First, Size
  <1>1. First(preset) \in Nat /\ Size(preset, orders) \in Nat
    BY ScheduleIs
  <1>2. k \in Nat \ {0}
    BY <1>1 DEF Size
  <1>3. r \in 1 .. Len(orders)
    BY ScheduleIs
  <1>4. /\ CaseAt(preset, k) \in 1 .. Len(CasesOf(preset))
        /\ WhoAt(preset, k) \in 1 .. Len(ParticipantsOf(preset))
        /\ PolicyAt(preset, k) \in {1, 2}
    BY <1>2, PlaceOfSlot
  <1>5. orders[r] \in Seq(STRING) /\ IsShuffle(preset, orders[r])
        /\ r \in Nat \ {0}
    BY <1>3
  <1>6. /\ DOMAIN orders[r] = 1 .. Len(CasesOf(preset))
        /\ DOMAIN ParticipantsOf(preset) = 1 .. Len(ParticipantsOf(preset))
    BY <1>5, ShuffleIsBijective, PresetSizes
  <1>7. Schedule(preset, orders)[First(preset) + k]
            = Slot(r, orders[r][CaseAt(preset, k)],
                   Ordered(preset, r)[PolicyAt(preset, k)],
                   ParticipantsOf(preset)[WhoAt(preset, k)])
    BY ScheduleIs
  <1>8. First(preset) + k \in Real(Schedule(preset, orders))
    <2>1. Real(Schedule(preset, orders))
             = First(preset) + 1 .. First(preset) + Size(preset, orders)
      BY ScheduleIs
    <2> HIDE DEF First, Size
    <2> QED BY <1>1, <2>1
  <1> QED BY <1>3, <1>4, <1>5, <1>6, <1>7, <1>8

LEMMA SlotsOfRounds ==
    ASSUME NEW preset \in Presets, NEW orders, Shuffled(preset, orders),
           NEW i \in Real(Schedule(preset, orders))
    PROVE  \E k \in 1 .. Size(preset, orders) : i = First(preset) + k
  <1>1. /\ First(preset) \in Nat /\ Size(preset, orders) \in Nat
        /\ i \in First(preset) + 1 .. First(preset) + Size(preset, orders)
    BY ScheduleIs DEF Shuffled, First, Size
  <1>2. /\ i - First(preset) \in 1 .. Size(preset, orders)
        /\ i = First(preset) + (i - First(preset))
    BY <1>1
  <1> QED BY <1>2

\* Two slots of one case, participant and repetition share their coordinates
\* but for the policy's.
LEMMA PairsShareTheirPlace ==
    ASSUME NEW preset \in Presets, NEW orders, Shuffled(preset, orders),
           NEW k \in 1 .. Size(preset, orders),
           NEW m \in 1 .. Size(preset, orders),
           IsPair(Schedule(preset, orders), First(preset) + k,
                  First(preset) + m)
    PROVE  /\ RoundOf(preset, k) = RoundOf(preset, m)
           /\ CaseAt(preset, k) = CaseAt(preset, m)
           /\ WhoAt(preset, k) = WhoAt(preset, m)
  <1> DEFINE r == RoundOf(preset, k)
             t == RoundOf(preset, m)
             s == Schedule(preset, orders)
  <1>1. /\ r \in 1 .. Len(orders)
        /\ orders[r] \in Seq(STRING) /\ IsShuffle(preset, orders[r])
        /\ CaseAt(preset, k) \in DOMAIN orders[r]
        /\ WhoAt(preset, k) \in DOMAIN ParticipantsOf(preset)
        /\ s[First(preset) + k]
              = Slot(r, orders[r][CaseAt(preset, k)],
                     Ordered(preset, r)[PolicyAt(preset, k)],
                     ParticipantsOf(preset)[WhoAt(preset, k)])
    BY SlotAt
  <1>2. /\ CaseAt(preset, m) \in DOMAIN orders[t]
        /\ WhoAt(preset, m) \in DOMAIN ParticipantsOf(preset)
        /\ s[First(preset) + m]
              = Slot(t, orders[t][CaseAt(preset, m)],
                     Ordered(preset, t)[PolicyAt(preset, m)],
                     ParticipantsOf(preset)[WhoAt(preset, m)])
    BY SlotAt
  <1> HIDE DEF r, t, s
  <1>3. /\ r = t /\ orders[r][CaseAt(preset, k)] = orders[t][CaseAt(preset, m)]
        /\ ParticipantsOf(preset)[WhoAt(preset, k)]
              = ParticipantsOf(preset)[WhoAt(preset, m)]
    BY <1>1, <1>2 DEF IsPair, Slot, s
  <1>4. CaseAt(preset, k) = CaseAt(preset, m)
    BY <1>1, <1>2, <1>3, ShuffleIsBijective DEF Distinct
  <1>5. WhoAt(preset, k) = WhoAt(preset, m)
    BY <1>1, <1>2, <1>3, ParticipantsDistinct DEF Distinct
  <1> QED BY <1>3, <1>4, <1>5 DEF r, t

\* The two slots of a pair are next to each other, the one with the first
\* policy of the repetition before the other.
LEMMA PairsAreAdjacent ==
    ASSUME NEW preset \in Presets, NEW orders, Shuffled(preset, orders),
           NEW k \in 1 .. Size(preset, orders),
           NEW m \in 1 .. Size(preset, orders),
           IsPair(Schedule(preset, orders), First(preset) + k,
                  First(preset) + m),
           k < m
    PROVE  m = k + 1 /\ PolicyAt(preset, k) = 1
  <1> DEFINE r == RoundOf(preset, k)
             c == CaseAt(preset, k)
             w == WhoAt(preset, k)
             base == SlotIndex(preset, r, c, w, 0)
  <1>1. k \in Nat \ {0} /\ m \in Nat \ {0}
    BY ScheduleIs DEF Shuffled, Size
  <1>2. /\ PolicyAt(preset, k) \in {1, 2} /\ PolicyAt(preset, m) \in {1, 2}
        /\ k = SlotIndex(preset, r, c, w, PolicyAt(preset, k))
        /\ m = SlotIndex(preset, r, c, w, PolicyAt(preset, m))
    BY <1>1, PlaceOfSlot, PairsShareTheirPlace
  <1>3. base \in Int
        /\ \A p \in {1, 2} : SlotIndex(preset, r, c, w, p) = base + p
    <2>1. r \in Int /\ c \in Int /\ w \in Int
      BY <1>1, PlaceOfSlot, SizesAre
    <2> HIDE DEF r, c, w
    <2>2. /\ (r - 1) * BlockSize(preset) \in Int
          /\ (c - 1) * Per(preset) \in Int /\ (w - 1) * 2 \in Int
      <3>1. \A i, j \in Int : i * j \in Int
        OBVIOUS
      <3>2. /\ r - 1 \in Int /\ c - 1 \in Int /\ w - 1 \in Int
            /\ BlockSize(preset) \in Int /\ Per(preset) \in Int
        BY <2>1, SizesAre
      <3> QED BY <3>1, <3>2
    <2> DEFINE x == (r - 1) * BlockSize(preset)
               y == (c - 1) * Per(preset)
               z == (w - 1) * 2
    <2>3. x \in Int /\ y \in Int /\ z \in Int
      BY <2>2
    <2>4. \A p : SlotIndex(preset, r, c, w, p) = x + y + z + p
      BY DEF SlotIndex
    <2> HIDE DEF x, y, z
    <2> QED BY <2>3, <2>4
  <1> HIDE DEF base, r, c, w
  <1> QED BY <1>2, <1>3

\* Which of a pair is first.
LEMMA FirstOfAPair ==
    ASSUME NEW preset \in Presets, NEW orders, Shuffled(preset, orders),
           NEW k \in 1 .. Size(preset, orders)
    PROVE  RunsFirst(Schedule(preset, orders), First(preset) + k)
              <=> PolicyAt(preset, k) = 1
  <1> DEFINE s == Schedule(preset, orders)
             i == First(preset) + k
  <1>1. First(preset) \in Nat /\ Size(preset, orders) \in Nat
        /\ k \in Nat \ {0}
    BY ScheduleIs DEF Shuffled, First, Size
  <1>2. ASSUME RunsFirst(s, i) PROVE PolicyAt(preset, k) = 1
    <2>1. PICK j \in Real(s) : j > i /\ IsPair(s, i, j)
      BY <1>2 DEF RunsFirst
    <2>2. PICK m \in 1 .. Size(preset, orders) : j = First(preset) + m
      BY SlotsOfRounds
    <2>3. k < m
      BY <1>1, <2>1, <2>2
    <2> QED BY <2>1, <2>2, <2>3, PairsAreAdjacent
  <1>3. ASSUME PolicyAt(preset, k) = 1 PROVE RunsFirst(s, i)
    <2> DEFINE r == RoundOf(preset, k)
               c == CaseAt(preset, k)
               w == WhoAt(preset, k)
               m == SlotIndex(preset, r, c, w, 2)
    <2>1. /\ r \in Nat \ {0} /\ r <= Len(orders) /\ Len(orders) \in Nat
          /\ c \in 1 .. Len(CasesOf(preset))
          /\ w \in 1 .. Len(ParticipantsOf(preset))
          /\ k = SlotIndex(preset, r, c, w, 1)
      <3>1. r \in 1 .. Len(orders) /\ Len(orders) \in Nat
        BY SlotAt DEF Shuffled
      <3>2. /\ r \in Nat \ {0}
            /\ c \in 1 .. Len(CasesOf(preset))
            /\ w \in 1 .. Len(ParticipantsOf(preset))
            /\ k = SlotIndex(preset, r, c, w, PolicyAt(preset, k))
        BY <1>1, PlaceOfSlot
      <3> HIDE DEF r, c, w
      <3> QED BY <1>3, <3>1, <3>2
    <2>2. /\ m \in Nat \ {0} /\ m <= Size(preset, orders)
          /\ RoundOf(preset, m) = r /\ CaseAt(preset, m) = c
          /\ WhoAt(preset, m) = w
      <3> HIDE DEF r, c, w
      <3>1. /\ LiesAt(preset, m, r, c, w, 2)
            /\ m <= Len(orders) * BlockSize(preset) <=> r <= Len(orders)
        <4>1. 2 \in {1, 2}
          OBVIOUS
        <4> QED BY <2>1, <4>1, SlotOfPlace
      <3> HIDE DEF m
      <3> QED BY <2>1, <3>1 DEF LiesAt, Size
    <2>3. m \in 1 .. Size(preset, orders)
      <3> HIDE DEF m
      <3> QED BY <1>1, <2>2
    <2> HIDE DEF m
    <2>4. First(preset) + m \in Real(s) /\ IsPair(s, i, First(preset) + m)
      <3>1. /\ s[i] = Slot(r, orders[r][c],
                           Ordered(preset, r)[PolicyAt(preset, k)],
                           ParticipantsOf(preset)[w])
        BY SlotAt
      <3>2. /\ First(preset) + m \in Real(s)
            /\ s[First(preset) + m]
                  = Slot(r, orders[r][c],
                         Ordered(preset, r)[PolicyAt(preset, m)],
                         ParticipantsOf(preset)[w])
        BY <2>2, <2>3, SlotAt
      <3> HIDE DEF s, i, r, c, w
      <3> QED BY <3>1, <3>2 DEF IsPair, Slot
    <2>5. k < m
      <3> DEFINE x == (r - 1) * BlockSize(preset)
                 y == (c - 1) * Per(preset)
                 z == (w - 1) * 2
      <3>1. k = x + y + z + 1 /\ m = x + y + z + 2
        BY <2>1 DEF SlotIndex, m
      <3>2. x \in Int /\ y \in Int /\ z \in Int
        <4>1. \A a, b \in Int : a * b \in Int
          OBVIOUS
        <4>2. /\ r - 1 \in Int /\ c - 1 \in Int /\ w - 1 \in Int
              /\ BlockSize(preset) \in Int /\ Per(preset) \in Int
          <5>1. r \in Int /\ c \in Int /\ w \in Int
            BY <2>1, SizesAre
          <5> HIDE DEF r, c, w
          <5> QED BY <5>1, SizesAre
        <4> QED BY <4>1, <4>2
      <3> HIDE DEF x, y, z
      <3> QED BY <3>1, <3>2
    <2>6. First(preset) + m > i
      BY <1>1, <2>3, <2>5
    <2> QED BY <2>4, <2>6 DEF RunsFirst
  <1> QED BY <1>2, <1>3

\* The policies of a repetition are the preset's, and those of the next one
\* in the other order.
LEMMA OrderedFlips ==
    ASSUME NEW preset \in Presets, NEW r \in Nat \ {0}
    PROVE  /\ Ordered(preset, r)[1] # Ordered(preset, r)[2]
           /\ \A p \in {1, 2} : \E o \in {1, 2} :
                 Ordered(preset, r)[o] = PoliciesOf(preset)[p]
           /\ Ordered(preset, r + 1)[1] = Ordered(preset, r)[2]
           /\ Ordered(preset, r + 1)[2] = Ordered(preset, r)[1]
  <1>1. CASE r % 2 = 1
    <2>1. (r + 1) % 2 # 1
      BY <1>1
    <2> QED BY <1>1, <2>1, PoliciesDistinct DEF Ordered
  <1>2. CASE r % 2 # 1
    <2>1. (r + 1) % 2 = 1
      BY <1>2
    <2> QED BY <1>2, <2>1, PoliciesDistinct DEF Ordered
  <1> QED BY <1>1, <1>2

\* Slots of one case, participant and policy in repetitions that follow each
\* other have the policy in different places.
LEMMA PoliciesAlternate ==
    ASSUME NEW preset \in Presets, NEW orders, Shuffled(preset, orders),
           NEW k \in 1 .. Size(preset, orders),
           NEW m \in 1 .. Size(preset, orders),
           LET s == Schedule(preset, orders)
           IN  /\ s[First(preset) + k].policy = s[First(preset) + m].policy
               /\ s[First(preset) + m].repetition
                     = s[First(preset) + k].repetition + 1
    PROVE  PolicyAt(preset, k) = 1 <=> PolicyAt(preset, m) # 1
  <1> DEFINE r == RoundOf(preset, k)
             t == RoundOf(preset, m)
             s == Schedule(preset, orders)
             p == PolicyAt(preset, k)
             o == PolicyAt(preset, m)
  <1>1. /\ r \in Nat \ {0} /\ p \in {1, 2}
        /\ s[First(preset) + k]
              = Slot(r, orders[r][CaseAt(preset, k)], Ordered(preset, r)[p],
                     ParticipantsOf(preset)[WhoAt(preset, k)])
    BY SlotAt
  <1>2. /\ o \in {1, 2}
        /\ s[First(preset) + m]
              = Slot(t, orders[t][CaseAt(preset, m)], Ordered(preset, t)[o],
                     ParticipantsOf(preset)[WhoAt(preset, m)])
    BY SlotAt
  <1>3. t = r + 1 /\ Ordered(preset, r)[p] = Ordered(preset, t)[o]
    <2>1. /\ s[First(preset) + k].policy = s[First(preset) + m].policy
          /\ s[First(preset) + m].repetition
                = s[First(preset) + k].repetition + 1
      OBVIOUS
    <2> HIDE DEF r, t, s, p, o
    <2> QED BY <1>1, <1>2, <2>1 DEF Slot
  <1> HIDE DEF r, t, s, p, o
  <1>4. /\ Ordered(preset, r)[1] # Ordered(preset, r)[2]
        /\ Ordered(preset, t)[1] = Ordered(preset, r)[2]
        /\ Ordered(preset, t)[2] = Ordered(preset, r)[1]
    BY <1>1, <1>3, OrderedFlips
  <1> QED BY <1>1, <1>2, <1>3, <1>4 DEF p, o

\* Every case, participant and policy has exactly one slot in a repetition.
LEMMA EveryCellHasASlot ==
    ASSUME NEW preset \in Presets, NEW orders, Shuffled(preset, orders),
           NEW r \in 1 .. Len(orders), NEW c \in DOMAIN CasesOf(preset),
           NEW p \in {1, 2}, NEW w \in DOMAIN ParticipantsOf(preset)
    PROVE  \E i \in Real(Schedule(preset, orders)) :
              \A j \in Real(Schedule(preset, orders)) :
                 Schedule(preset, orders)[j]
                    = Slot(r, CasesOf(preset)[c], PoliciesOf(preset)[p],
                           ParticipantsOf(preset)[w]) <=> j = i
  <1> DEFINE s == Schedule(preset, orders)
             cell == Slot(r, CasesOf(preset)[c], PoliciesOf(preset)[p],
                          ParticipantsOf(preset)[w])
  <1>1. /\ r \in Nat \ {0} /\ Len(orders) \in Nat /\ r <= Len(orders)
        /\ orders[r] \in Seq(STRING) /\ IsShuffle(preset, orders[r])
        /\ w \in 1 .. Len(ParticipantsOf(preset))
    BY PresetSizes DEF Shuffled
  <1>2. PICK a \in 1 .. Len(CasesOf(preset)) : orders[r][a] = CasesOf(preset)[c]
    <2> DEFINE order == orders[r]
    <2>1. order \in Seq(STRING) /\ IsShuffle(preset, order)
      BY <1>1
    <2> HIDE DEF order
    <2>2. /\ DOMAIN order = 1 .. Len(CasesOf(preset))
          /\ \E a \in DOMAIN order : order[a] = CasesOf(preset)[c]
      BY <2>1, ShuffleIsBijective
    <2> QED BY <2>2 DEF order
  <1>3. PICK o \in {1, 2} : Ordered(preset, r)[o] = PoliciesOf(preset)[p]
    BY <1>1, OrderedFlips
  <1> DEFINE k == SlotIndex(preset, r, a, w, o)
  <1>4. /\ k \in Nat \ {0} /\ k <= Size(preset, orders)
        /\ RoundOf(preset, k) = r /\ CaseAt(preset, k) = a
        /\ WhoAt(preset, k) = w /\ PolicyAt(preset, k) = o
    <2>1. /\ r \in Nat \ {0} /\ Len(orders) \in Nat
          /\ w \in 1 .. Len(ParticipantsOf(preset))
      BY <1>1
    <2>2. /\ k \in Nat \ {0}
          /\ RoundOf(preset, k) = r /\ CaseAt(preset, k) = a
          /\ WhoAt(preset, k) = w /\ PolicyAt(preset, k) = o
      <3>1. LiesAt(preset, k, r, a, w, o)
        BY <2>1, SlotOfPlace
      <3> HIDE DEF k
      <3> QED BY <3>1 DEF LiesAt
    <2>3. k <= Len(orders) * BlockSize(preset) <=> r <= Len(orders)
      BY <2>1, SlotOfPlace
    <2> QED BY <1>1, <2>2, <2>3 DEF Size
  <1>5. First(preset) \in Nat /\ Size(preset, orders) \in Nat
    BY ScheduleIs DEF Shuffled, First, Size
  <1>6. k \in 1 .. Size(preset, orders)
    <2> HIDE DEF k
    <2> QED BY <1>4, <1>5
  <1> HIDE DEF k
  <1>7. First(preset) + k \in Real(s) /\ s[First(preset) + k] = cell
    <2>1. /\ First(preset) + k \in Real(s)
          /\ s[First(preset) + k]
                = Slot(r, orders[r][a], Ordered(preset, r)[o],
                       ParticipantsOf(preset)[w])
      BY <1>4, <1>6, SlotAt
    <2> QED BY <1>2, <1>3, <2>1
  <1>8. ASSUME NEW j \in Real(s), s[j] = cell PROVE j = First(preset) + k
    <2>1. PICK m \in 1 .. Size(preset, orders) : j = First(preset) + m
      BY SlotsOfRounds
    <2> DEFINE t == RoundOf(preset, m)
    <2>2. /\ CaseAt(preset, m) \in DOMAIN orders[t]
          /\ WhoAt(preset, m) \in DOMAIN ParticipantsOf(preset)
          /\ PolicyAt(preset, m) \in {1, 2}
          /\ s[j] = Slot(t, orders[t][CaseAt(preset, m)],
                         Ordered(preset, t)[PolicyAt(preset, m)],
                         ParticipantsOf(preset)[WhoAt(preset, m)])
      BY <2>1, SlotAt
    <2> HIDE DEF t, s
    <2>3. /\ t = r /\ orders[t][CaseAt(preset, m)] = CasesOf(preset)[c]
          /\ Ordered(preset, t)[PolicyAt(preset, m)] = PoliciesOf(preset)[p]
          /\ ParticipantsOf(preset)[WhoAt(preset, m)]
                = ParticipantsOf(preset)[w]
      BY <1>8, <2>2 DEF Slot
    <2>4. CaseAt(preset, m) = a
      <3> DEFINE order == orders[r]
      <3>1. order \in Seq(STRING) /\ IsShuffle(preset, order)
        BY <1>1
      <3>2. /\ CaseAt(preset, m) \in DOMAIN order
            /\ order[CaseAt(preset, m)] = order[a]
        BY <1>2, <2>2, <2>3
      <3> HIDE DEF order
      <3>3. a \in DOMAIN order /\ Distinct(order)
        BY <3>1, ShuffleIsBijective
      <3> QED BY <3>2, <3>3 DEF Distinct
    <2>5. PolicyAt(preset, m) = o
      <3>1. Ordered(preset, r)[1] # Ordered(preset, r)[2]
        BY <1>1, OrderedFlips
      <3>2. Ordered(preset, r)[PolicyAt(preset, m)] = Ordered(preset, r)[o]
        BY <1>3, <2>3
      <3> QED BY <2>2, <3>1, <3>2
    <2>6. WhoAt(preset, m) = w
      BY <2>2, <2>3, ParticipantsDistinct DEF Distinct
    <2>7. m \in Nat \ {0}
      BY <1>5
    <2>8. m = SlotIndex(preset, t, a, w, o)
      BY <2>4, <2>5, <2>6, <2>7, PlaceOfSlot DEF t
    <2>9. m = k
      BY <2>3, <2>8 DEF k
    <2> QED BY <2>1, <2>9
  <1> HIDE DEF s, cell
  <1> QED BY <1>7, <1>8 DEF s, cell

\* Whatever the order the cases of each repetition are shuffled into, the
\* slots of the design are matched (schedule): one for every cell, the two
\* policies of a pair one after the other, each first in every other
\* repetition.
THEOREM SchedulesAreMatched ==
    ASSUME NEW preset \in Presets, NEW orders \in Seq(Seq(STRING)),
           \A r \in DOMAIN orders : IsShuffle(preset, orders[r])
    PROVE  IsMatched(preset, Len(orders), Schedule(preset, orders))
  <1> DEFINE s == Schedule(preset, orders)
  <1>1. Shuffled(preset, orders)
    BY DEF Shuffled
  <1>2. \A r \in 1 .. Len(orders), c \in DOMAIN CasesOf(preset),
           p \in {1, 2}, w \in DOMAIN ParticipantsOf(preset) :
           \E i \in Real(s) : \A j \in Real(s) :
               s[j] = Slot(r, CasesOf(preset)[c], PoliciesOf(preset)[p],
                           ParticipantsOf(preset)[w]) <=> j = i
    BY <1>1, EveryCellHasASlot
  <1>3. ASSUME NEW i \in Real(s), NEW j \in Real(s), IsPair(s, i, j), i < j
        PROVE  j = i + 1
    <2>1. PICK k \in 1 .. Size(preset, orders) : i = First(preset) + k
      BY <1>1, SlotsOfRounds
    <2>2. PICK m \in 1 .. Size(preset, orders) : j = First(preset) + m
      BY <1>1, SlotsOfRounds
    <2>3. First(preset) \in Nat /\ Size(preset, orders) \in Nat
      BY ScheduleIs DEF First, Size
    <2>4. k < m
      BY <1>3, <2>1, <2>2, <2>3
    <2>5. m = k + 1
      BY <1>1, <1>3, <2>1, <2>2, <2>4, PairsAreAdjacent
    <2> QED BY <2>1, <2>2, <2>3, <2>5
  <1>4. ASSUME NEW i \in Real(s), NEW j \in Real(s),
               s[i].policy = s[j].policy,
               s[j].repetition = s[i].repetition + 1
        PROVE  RunsFirst(s, i) <=> ~RunsFirst(s, j)
    <2>1. PICK k \in 1 .. Size(preset, orders) : i = First(preset) + k
      BY <1>1, SlotsOfRounds
    <2>2. PICK m \in 1 .. Size(preset, orders) : j = First(preset) + m
      BY <1>1, SlotsOfRounds
    <2>3. PolicyAt(preset, k) = 1 <=> PolicyAt(preset, m) # 1
      BY <1>1, <1>4, <2>1, <2>2, PoliciesAlternate
    <2>4. RunsFirst(s, i) <=> PolicyAt(preset, k) = 1
      BY <1>1, <2>1, FirstOfAPair
    <2>5. RunsFirst(s, j) <=> PolicyAt(preset, m) = 1
      BY <1>1, <2>2, FirstOfAPair
    <2> QED BY <2>3, <2>4, <2>5
  <1> HIDE DEF s
  <1> QED BY <1>2, <1>3, <1>4 DEF IsMatched, s

\* Whatever the child of a scheduled slot seals, in either mode, is evidence
\* the inventory accepts for that slot (execute, verify_evidence).
THEOREM EvidenceFits ==
    ASSUME NEW preset \in Presets, NEW orders \in Seq(Seq(STRING)),
           \A r \in DOMAIN orders : IsShuffle(preset, orders[r]),
           NEW i \in DOMAIN Schedule(preset, orders), NEW m \in Modes,
           NEW e \in Produced(preset, Schedule(preset, orders)[i], m)
    PROVE  Accepted(preset, Schedule(preset, orders)[i], m, e)
  <1> DEFINE s == Schedule(preset, orders)
  <1>1. s \in Seq(Cells(preset))
    BY SchedulesAreDesigns DEF IsDesign
  <1> HIDE DEF s
  <1>2. s[i] \in Cells(preset)
    BY <1>1 DEF s
  <1> QED BY <1>2, ProducedIsAccepted DEF s

=============================================================================
