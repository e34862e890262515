----------------------- MODULE ExternalMatrix_proofs -----------------------
(***************************************************************************)
(* Theorems about ExternalMatrix, for every matrix of lifecycles.  The     *)
(* inductive invariant says where the current slot's worker is for every   *)
(* statement of the controller, how many rows the first invocation has     *)
(* stored, which record is on its way, and of every slot, saved or not,    *)
(* that it is consistent and that no worker outlives a slot that is called *)
(* completed or failed.                                                    *)
(***************************************************************************)
EXTENDS ExternalMatrix, FiniteSetTheorems, TLAPS

Running == {"start", "started", "read", "wait", "cleanup", "inspect"}
Attached == {"started", "read", "wait"}
Phases == {"initial", "resume"}
RecordType == [phase : Phases, error : BOOLEAN, fault : BOOLEAN,
               sinks : Nat, lost : BOOLEAN]
Observation == [record : RecordType, rows : Sizes]
Places == {"start", "invoke", "await", "leave", "exited", "failed", "dead"}
WorkerType == [slot : Nat, at : Places, phase : Phases, sinks : Nat,
               fault : BOOLEAN]

TypesInv ==
    /\ plan \in Plans
    /\ pc \in Running \cup {"next", "record", "end", "halted", "ended", "gone"}
    /\ n \in 1 .. Len(plan) + 1
    /\ DOMAIN slots = DOMAIN plan /\ DOMAIN saved.slots = DOMAIN plan
    /\ failure \in {"none", "error", "interrupt"}
    /\ owned \in BOOLEAN /\ over \in BOOLEAN /\ resume \in BOOLEAN
    /\ found \in Seq(Observation)
    /\ line \in SUBSET RecordType
    /\ worker \in WorkerType
    /\ rows \in [DOMAIN plan -> Sizes]

\* What the manifest and the memory say of the slots before, at and after n.
PlaceInv ==
    /\ pc \in Running \cup {"record"} =>
          n \in DOMAIN plan /\ saved.status = "interrupted"
    /\ pc \in Running => slots[n] = Reserved /\ saved.slots[n] = Reserved
    /\ pc = "record" => slots[n].status # "unstarted"
    /\ \A k \in DOMAIN plan :
          /\ k > n \/ (k = n /\ pc = "next") => slots[k].status = "unstarted"
          /\ slots[k].status = "unstarted"
                <=> saved.slots[k].status = "unstarted"
    /\ saved.status = "unstarted" =>
          \A k \in DOMAIN plan : saved.slots[k].status = "unstarted"
    /\ saved.status = "completed" =>
          pc = "ended"
          /\ \A k \in DOMAIN plan : saved.slots[k].status = "completed"

\* Whose worker it is, what it may have stored, and when it may be alive.
WorkerInv ==
    /\ worker.slot \in DOMAIN plan \cup {0}
    /\ worker.at # "dead" =>
          /\ worker.slot \in DOMAIN plan
          /\ worker.phase = "initial" => rows[worker.slot] \subseteq 0 .. worker.sinks
    /\ worker.at = "start" => worker.sinks = 0
    /\ worker.at = "await" =>
          worker.phase = "initial" /\ plan[worker.slot].mode = "same"
    /\ worker.at \in {"leave", "exited"} =>
          worker.phase = "resume" \/ plan[worker.slot].mode = "fresh"
    /\ pc \in Attached => worker.slot = n /\ worker.at # "dead"
    /\ owned => worker.slot = n /\ pc \in {"read", "wait", "cleanup", "gone"}
    /\ pc \in {"read", "wait"} => owned
    /\ Alive =>
          /\ pc \notin {"next", "start"}
          /\ pc = "cleanup" => owned \/ failure = "interrupt"
          /\ pc = "inspect" => failure = "interrupt"
          /\ pc = "record" => slots[n].status = "interrupted"

\* What has been read of the current slot, and what may still be read.
Separate(observations) ==
    observations # <<>> =>
        observations[1].rows \subseteq 0 .. observations[1].record.sinks
InOrder(observations) ==
    /\ Len(observations) <= 2
    /\ \A k \in 1 .. Len(observations) :
          observations[k].record.phase = IF k = 1 THEN "initial" ELSE "resume"
Unread == found = <<>> /\ worker.phase = "initial" /\ ~resume
Resumed == Len(found) = 1 /\ worker.phase = "resume"
Resuming == /\ Len(found) = 1 /\ ~Fresh /\ pc = "read"
            /\ worker.at \in {"await", "failed"} /\ line = {}
FoundInv ==
    /\ InOrder(found)
    /\ Separate(found)
    /\ pc = "next" => found = <<>>
    /\ pc = "start" =>
          \/ found = <<>> /\ rows[n] = {}
          \/ Len(found) = 1 /\ Fresh
    /\ pc \in {"started", "read"} => Unread \/ Resumed \/ Resuming
    /\ pc = "wait" =>
          /\ \/ Len(found) = 2
             \/ Len(found) = 1 /\ Fresh /\ worker.phase = "initial"
          /\ worker.at \in {"leave", "exited", "failed"}
    /\ pc \in Attached =>
          \A r \in line : /\ r.phase = worker.phase /\ r.sinks = worker.sinks
                          /\ worker.at \notin {"start", "invoke"}

\* Every slot, in memory and in the manifest.
Good(slot, k) ==
    /\ Consistent(slot, plan[k].condition)
    /\ Separate(slot.found)
    /\ slot.status \in {"completed", "failed"} =>
          slot.final = rows[k] /\ ~(worker.slot = k /\ Alive)
SlotsInv ==
    \A k \in DOMAIN plan : Good(slots[k], k) /\ Good(saved.slots[k], k)

MatrixInv == /\ TypesInv /\ PlaceInv /\ WorkerInv /\ FoundInv /\ SlotsInv
             /\ StartedIsNotUnstarted

-----------------------------------------------------------------------------
(* The data *)

LEMMA PlanFacts ==
    ASSUME TypesInv
    PROVE  /\ plan \in Seq(Lifecycles) /\ Len(plan) \in Nat
           /\ DOMAIN plan = 1 .. Len(plan) /\ n \in Nat
           /\ \A k \in DOMAIN plan : plan[k] \in Lifecycles
  <1>1. plan \in Seq(Lifecycles)
    BY PlansAssumption DEF PlansAssumption, TypesInv
  <1> QED BY <1>1 DEF TypesInv

LEMMA AppendFacts ==
    ASSUME NEW S, NEW s \in Seq(S), NEW e \in S
    PROVE  /\ Append(s, e) \in Seq(S) /\ Len(Append(s, e)) = Len(s) + 1
           /\ Append(s, e)[Len(s) + 1] = e
           /\ \A i \in 1 .. Len(s) : Append(s, e)[i] = s[i]
  OBVIOUS

LEMMA WorkerParts ==
    ASSUME TypesInv
    PROVE  /\ worker.slot \in Nat /\ worker.phase \in Phases
           /\ worker.sinks \in Nat /\ worker.fault \in BOOLEAN
           /\ worker.at \in Places
  BY DEF TypesInv, WorkerType

\* The steps of a worker, and a new one.
Fields(w, k, at, p, s, f) ==
    /\ w \in WorkerType
    /\ w.slot = k /\ w.at = at /\ w.phase = p /\ w.sinks = s /\ w.fault = f

LEMMA Updates ==
    ASSUME NEW w \in WorkerType
    PROVE  /\ \A at \in Places :
                Fields([w EXCEPT !.at = at], w.slot, at, w.phase, w.sinks, w.fault)
           /\ \A s \in Nat :
                Fields([w EXCEPT !.sinks = s], w.slot, w.at, w.phase, s, w.fault)
           /\ Fields([w EXCEPT !.fault = TRUE], w.slot, w.at, w.phase, w.sinks, TRUE)
           /\ \A k \in Nat :
                Fields([w EXCEPT !.slot = k], k, w.at, w.phase, w.sinks, w.fault)
           /\ \A p \in Phases :
                Fields([w EXCEPT !.phase = p], w.slot, w.at, p, w.sinks, w.fault)
  BY DEF Fields, WorkerType

Created(k, at, p) == [NoWorker EXCEPT !.slot = k, !.at = at, !.phase = p]
Cleared(k) == [NoWorker EXCEPT !.slot = k]

LEMMA NewWorker ==
    /\ Fields(NoWorker, 0, "dead", "initial", 0, FALSE)
    /\ \A k \in Nat :
          Fields(Cleared(k), k, "dead", "initial", 0, FALSE)
    /\ \A k \in Nat, at \in Places, p \in Phases :
          Fields(Created(k, at, p), k, at, p, 0, FALSE)
  <1>1. Fields(NoWorker, 0, "dead", "initial", 0, FALSE)
    BY DEF Fields, NoWorker, WorkerType, Places, Phases
  <1>0. "dead" \in Places /\ "initial" \in Phases
    BY DEF Places, Phases
  <1> SUFFICES ASSUME NEW k \in Nat, NEW at \in Places, NEW p \in Phases
               PROVE  /\ Fields(Cleared(k), k, "dead", "initial", 0, FALSE)
                      /\ Fields(Created(k, at, p), k, at, p, 0, FALSE)
    BY <1>1, <1>0
  <1> DEFINE w1 == [NoWorker EXCEPT !.slot = k]
             w2 == [w1 EXCEPT !.at = at]
             w3 == [w2 EXCEPT !.phase = p]
  <1>2. Fields(w1, k, "dead", "initial", 0, FALSE)
    <2>1. NoWorker \in WorkerType
      BY <1>1 DEF Fields
    <2>2. Fields(w1, k, NoWorker.at, NoWorker.phase, NoWorker.sinks, NoWorker.fault)
      BY <2>1, Updates
    <2> QED BY <1>1, <2>2 DEF Fields
  <1> HIDE DEF w1
  <1>3. Fields(w2, k, at, "initial", 0, FALSE)
    <2>1. w1 \in WorkerType
      BY <1>2 DEF Fields
    <2>2. Fields(w2, w1.slot, at, w1.phase, w1.sinks, w1.fault)
      BY <2>1, Updates
    <2> HIDE DEF w2
    <2> QED BY <1>2, <2>2 DEF Fields
  <1> HIDE DEF w2
  <1>4. Fields(w3, k, at, p, 0, FALSE)
    <2>1. w2 \in WorkerType
      BY <1>3 DEF Fields
    <2>2. Fields(w3, w2.slot, w2.at, p, w2.sinks, w2.fault)
      BY <2>1, Updates
    <2> HIDE DEF w3
    <2> QED BY <1>3, <2>2 DEF Fields
  <1>5. Created(k, at, p) = w3 /\ Cleared(k) = w1
    BY Zenon DEF w1, w2, w3, Created, Cleared
  <1> HIDE DEF w3
  <1> QED BY <1>2, <1>4, <1>5

\* What each step makes of the worker.
LEMMA WorkerMoves ==
    ASSUME TypesInv
    PROVE  /\ WorkerStarts =>
                Fields(worker', worker.slot, "invoke", worker.phase,
                       worker.sinks, worker.fault)
           /\ FailAt =>
                Fields(worker', worker.slot, worker.at, worker.phase,
                       worker.sinks, TRUE)
           /\ Sink =>
                Fields(worker', worker.slot, worker.at, worker.phase,
                       worker.sinks + 1, worker.fault)
           /\ InvokeEnds =>
                Fields(worker', worker.slot,
                       IF worker.phase = "initial" /\ Both THEN "await"
                       ELSE "leave",
                       worker.phase, worker.sinks, worker.fault)
           /\ WorkerExits =>
                Fields(worker', worker.slot, "exited", worker.phase,
                       worker.sinks, worker.fault)
           /\ WorkerResumes =>
                Fields(worker', worker.slot, "invoke", "resume", 0, FALSE)
           /\ WorkerDies =>
                Fields(worker', worker.slot, "failed", worker.phase,
                       worker.sinks, worker.fault)
           /\ Start /\ ~over => Fields(worker', n, "start", Phase, 0, FALSE)
  <1>1. worker \in WorkerType /\ n \in Nat /\ worker.slot \in Nat
        /\ worker.sinks + 1 \in Nat
    BY WorkerParts, PlanFacts DEF TypesInv
  <1>2. /\ {"start", "invoke", "await", "leave", "exited", "failed"} \subseteq Places
        /\ Phase \in Phases /\ "resume" \in Phases
    BY DEF Places, Phases, Phase
  <1>3. InvokeEnds => Fields(worker', worker.slot,
                             IF worker.phase = "initial" /\ Both THEN "await"
                             ELSE "leave",
                             worker.phase, worker.sinks, worker.fault)
    BY <1>1, <1>2, Updates DEF InvokeEnds
  <1>4. /\ WorkerStarts => worker' = [worker EXCEPT !.at = "invoke"]
        /\ FailAt => worker' = [worker EXCEPT !.fault = TRUE]
        /\ Sink => worker' = [worker EXCEPT !.sinks = worker.sinks + 1]
        /\ WorkerExits => worker' = [worker EXCEPT !.at = "exited"]
        /\ WorkerDies => worker' = [worker EXCEPT !.at = "failed"]
        /\ WorkerResumes => worker' = Created(worker.slot, "invoke", "resume")
        /\ Start /\ ~over => worker' = Created(n, "start", Phase)
    BY DEF WorkerStarts, FailAt, Sink, WorkerExits, WorkerDies, WorkerResumes,
        Start, Created
  <1>5. /\ Fields([worker EXCEPT !.at = "invoke"], worker.slot, "invoke",
                  worker.phase, worker.sinks, worker.fault)
        /\ Fields([worker EXCEPT !.at = "exited"], worker.slot, "exited",
                  worker.phase, worker.sinks, worker.fault)
        /\ Fields([worker EXCEPT !.at = "failed"], worker.slot, "failed",
                  worker.phase, worker.sinks, worker.fault)
        /\ Fields([worker EXCEPT !.sinks = worker.sinks + 1], worker.slot,
                  worker.at, worker.phase, worker.sinks + 1, worker.fault)
        /\ Fields([worker EXCEPT !.fault = TRUE], worker.slot, worker.at,
                  worker.phase, worker.sinks, TRUE)
    BY <1>1, <1>2, Updates
  <1>6. /\ Fields(Created(worker.slot, "invoke", "resume"),
                  worker.slot, "invoke", "resume", 0, FALSE)
        /\ Fields(Created(n, "start", Phase), n, "start", Phase, 0, FALSE)
    BY <1>1, <1>2, NewWorker
  <1> QED BY <1>3, <1>4, <1>5, <1>6, Zenon

LEMMA StoppedIs ==
    ASSUME TypesInv
    PROVE  /\ Stopped \in WorkerType
           /\ owned => Stopped.slot = n /\ Stopped.at = "dead"
           /\ ~owned => Stopped = worker
  <1>1. CASE owned
    <2>1. Fields(Cleared(n), n, "dead", "initial", 0, FALSE)
      BY NewWorker, PlanFacts
    <2>2. Stopped = Cleared(n)
      BY <1>1 DEF Stopped, Cleared
    <2> QED BY <1>1, <2>1, <2>2 DEF Fields
  <1> QED BY <1>1 DEF Stopped, TypesInv

LEMMA SizesFacts ==
    /\ \A s \in Sizes : {r + 1 : r \in s} \in Sizes
    /\ \A s \in Sizes, m \in Nat :
          s \subseteq 0 .. m => {r + 1 : r \in s} \subseteq 0 .. m + 1
    /\ \A s \in Sizes : s # {} => {r + 1 : r \in s} # {}
    /\ {} \in Sizes /\ {0} \in Sizes /\ {0} # {}
  <1>1. {r + 1 : r \in {}} = {} /\ \A k \in Nat : {r + 1 : r \in {k}} = {k + 1}
    OBVIOUS
  <1>2. \A s \in Sizes : s = {} \/ \E k \in Nat : s = {k}
    BY DEF Sizes
  <1>3. {} \in Sizes /\ \A k \in Nat : {k} \in Sizes /\ {k} # {}
    BY DEF Sizes
  <1>4. \A k, m \in Nat : {k} \subseteq 0 .. m => {k + 1} \subseteq 0 .. m + 1
    OBVIOUS
  <1>5. ASSUME NEW s \in Sizes
        PROVE  /\ {r + 1 : r \in s} \in Sizes
               /\ s # {} => {r + 1 : r \in s} # {}
    <2>1. CASE s = {}
      BY <1>1, <1>3, <2>1
    <2>2. CASE s # {}
      <3>1. PICK k \in Nat : s = {k}
        BY <1>2, <2>2
      <3>2. {r + 1 : r \in s} = {k + 1} /\ k + 1 \in Nat
        BY <1>1, <3>1
      <3> QED BY <1>3, <3>2
    <2> QED BY <2>1, <2>2
  <1>6. ASSUME NEW s \in Sizes, NEW m \in Nat, s \subseteq 0 .. m
        PROVE  {r + 1 : r \in s} \subseteq 0 .. m + 1
    BY <1>6
  <1> QED BY <1>3, <1>5, <1>6

\* A commit that is cut off leaves nothing to read, in its own slot only.
LEMMA CutOff ==
    ASSUME TypesInv,
           \/ rows' = rows
           \/ worker.at = "invoke" /\ rows' = [rows EXCEPT ![worker.slot] = {}]
    PROVE  /\ rows' \in [DOMAIN plan -> Sizes]
           /\ \A k \in DOMAIN plan :
                \/ rows'[k] = rows[k]
                \/ rows'[k] = {} /\ worker.slot = k /\ worker.at = "invoke"
  <1>1. CASE rows' = rows
    BY <1>1 DEF TypesInv
  <1>2. CASE worker.at = "invoke" /\ rows' = [rows EXCEPT ![worker.slot] = {}]
    BY <1>2, SizesFacts DEF TypesInv
  <1> QED BY <1>1, <1>2

LEMMA StoppedRowsAre ==
    ASSUME TypesInv, rows' \in StoppedRows
    PROVE  /\ rows' \in [DOMAIN plan -> Sizes]
           /\ \A k \in DOMAIN plan :
                \/ rows'[k] = rows[k]
                \/ /\ rows'[k] = {} /\ worker.slot = k /\ worker.at = "invoke"
                   /\ owned
  <1>1. \/ rows' = rows
        \/ owned /\ worker.at = "invoke" /\ rows' = [rows EXCEPT ![worker.slot] = {}]
    BY DEF StoppedRows
  <1> QED BY <1>1, CutOff

\* Sink commits a row or does not, to a slot nothing is known of or to one that
\* shows what went before.
LEMMA SinkRows ==
    ASSUME TypesInv, WorkerInv, Sink
    PROVE  /\ rows' \in [DOMAIN plan -> Sizes]
           /\ \A k \in DOMAIN plan : k # worker.slot => rows'[k] = rows[k]
           /\ worker.slot \in DOMAIN plan
           /\ worker.phase = "initial" =>
                rows'[worker.slot] \subseteq 0 .. worker.sinks + 1
           /\ rows'[worker.slot] # {} => rows[worker.slot] # {}
  <1> DEFINE w == worker.slot
             up == {r + 1 : r \in rows[w]}
  <1>1. /\ w \in DOMAIN plan /\ rows \in [DOMAIN plan -> Sizes]
        /\ rows[w] \in Sizes /\ worker.sinks \in Nat
        /\ worker.phase = "initial" => rows[w] \subseteq 0 .. worker.sinks
    BY WorkerParts DEF TypesInv, WorkerInv, Sink
  <1>2. rows' = rows \/ rows' = [rows EXCEPT ![w] = up]
    BY DEF Sink
  <1>3. /\ up \in Sizes
        /\ rows[w] = {} => up = {}
        /\ worker.phase = "initial" => up \subseteq 0 .. worker.sinks + 1
    BY <1>1, SizesFacts
  <1> HIDE DEF up
  <1>4. CASE rows' = rows
    BY <1>1, <1>4
  <1>5. CASE rows' = [rows EXCEPT ![w] = up]
    BY <1>1, <1>3, <1>5
  <1> QED BY <1>2, <1>4, <1>5

-----------------------------------------------------------------------------
(* The invariant, part by part *)

LEMMA TypesStep == MatrixInv /\ [Next]_vars => TypesInv'
  <1> SUFFICES ASSUME MatrixInv, [Next]_vars PROVE TypesInv'
    OBVIOUS
  <1>1. TypesInv /\ WorkerInv
    BY DEF MatrixInv
  <1> USE <1>1
  <1>11. CASE WorkerStarts
    <2>0. UNCHANGED <<plan, pc, n, slots, saved, found, failure, owned, over>>
      BY <1>11 DEF WorkerStarts
    <2>2. worker' \in WorkerType
      BY <1>11, WorkerMoves DEF Fields
    <2>3. line' \in SUBSET RecordType
      BY <1>11 DEF WorkerStarts, TypesInv
    <2>4. rows' \in [DOMAIN plan -> Sizes]
      BY <1>11, SizesFacts DEF WorkerStarts, TypesInv
    <2>5. resume' \in BOOLEAN
      BY <1>11 DEF WorkerStarts, TypesInv
    <2> QED BY <2>0, <2>2, <2>3, <2>4, <2>5 DEF TypesInv
  <1>12. CASE FailAt
    <2>0. UNCHANGED <<plan, pc, n, slots, saved, found, failure, owned, over>>
      BY <1>12 DEF FailAt
    <2>2. worker' \in WorkerType
      BY <1>12, WorkerMoves DEF Fields
    <2>3. line' \in SUBSET RecordType
      BY <1>12 DEF FailAt, TypesInv
    <2>4. rows' \in [DOMAIN plan -> Sizes]
      BY <1>12 DEF FailAt, TypesInv
    <2>5. resume' \in BOOLEAN
      BY <1>12 DEF FailAt, TypesInv
    <2> QED BY <2>0, <2>2, <2>3, <2>4, <2>5 DEF TypesInv
  <1>13. CASE Sink
    <2>0. UNCHANGED <<plan, pc, n, slots, saved, found, failure, owned, over>>
      BY <1>13 DEF Sink
    <2>2. worker' \in WorkerType
      BY <1>13, WorkerMoves DEF Fields
    <2>3. line' \in SUBSET RecordType
      BY <1>13 DEF Sink, TypesInv
    <2>4. rows' \in [DOMAIN plan -> Sizes]
      BY <1>13, SinkRows
    <2>5. resume' \in BOOLEAN
      BY <1>13 DEF Sink, TypesInv
    <2> QED BY <2>0, <2>2, <2>3, <2>4, <2>5 DEF TypesInv
  <1>14. CASE InvokeEnds
    <2>0. UNCHANGED <<plan, pc, n, slots, saved, found, failure, owned, over>>
      BY <1>14 DEF InvokeEnds
    <2>2. worker' \in WorkerType
      BY <1>14, WorkerMoves DEF Fields
    <2>6. \A error, lost \in BOOLEAN : Record(error, lost) \in RecordType
      BY WorkerParts DEF Record, RecordType
    <2>3. line' \in SUBSET RecordType
      BY <2>6, <1>14 DEF InvokeEnds
    <2>4. rows' \in [DOMAIN plan -> Sizes]
      BY <1>14 DEF InvokeEnds, TypesInv
    <2>5. resume' \in BOOLEAN
      BY <1>14 DEF InvokeEnds, TypesInv
    <2> QED BY <2>0, <2>2, <2>3, <2>4, <2>5 DEF TypesInv
  <1>15. CASE WorkerExits
    <2>0. UNCHANGED <<plan, pc, n, slots, saved, found, failure, owned, over>>
      BY <1>15 DEF WorkerExits
    <2>2. worker' \in WorkerType
      BY <1>15, WorkerMoves DEF Fields
    <2>3. line' \in SUBSET RecordType
      BY <1>15 DEF WorkerExits, TypesInv
    <2>4. rows' \in [DOMAIN plan -> Sizes]
      BY <1>15 DEF WorkerExits, TypesInv
    <2>5. resume' \in BOOLEAN
      BY <1>15 DEF WorkerExits, TypesInv
    <2> QED BY <2>0, <2>2, <2>3, <2>4, <2>5 DEF TypesInv
  <1>16. CASE WorkerResumes
    <2>0. UNCHANGED <<plan, pc, n, slots, saved, found, failure, owned, over>>
      BY <1>16 DEF WorkerResumes
    <2>2. worker' \in WorkerType
      BY <1>16, WorkerMoves DEF Fields
    <2>3. line' \in SUBSET RecordType
      BY <1>16 DEF WorkerResumes, TypesInv
    <2>4. rows' \in [DOMAIN plan -> Sizes]
      BY <1>16 DEF WorkerResumes, TypesInv
    <2>5. resume' \in BOOLEAN
      BY <1>16 DEF WorkerResumes, TypesInv
    <2> QED BY <2>0, <2>2, <2>3, <2>4, <2>5 DEF TypesInv
  <1>17. CASE WorkerDies
    <2>0. UNCHANGED <<plan, pc, n, slots, saved, found, failure, owned, over>>
      BY <1>17 DEF WorkerDies
    <2>2. worker' \in WorkerType
      BY <1>17, WorkerMoves DEF Fields
    <2>3. line' \in SUBSET RecordType
      BY <1>17 DEF WorkerDies, TypesInv
    <2>4. rows' \in [DOMAIN plan -> Sizes]
      BY <1>17, CutOff DEF WorkerDies
    <2>5. resume' \in BOOLEAN
      BY <1>17 DEF WorkerDies, TypesInv
    <2> QED BY <2>0, <2>2, <2>3, <2>4, <2>5 DEF TypesInv
  <1>18. CASE Start
    <2>1. CASE over
      BY <1>18, <2>1 DEF Start, TypesInv, Running
    <2>2. CASE ~over
      <3>1. Fields(worker', n, "start", Phase, 0, FALSE)
        BY <1>18, <2>2, WorkerMoves
      <3>2. worker' \in WorkerType
        BY <3>1 DEF Fields
      <3> QED BY <1>18, <2>2, <3>2 DEF Start, TypesInv, Running
    <2> QED BY <2>1, <2>2
  <1>19. CASE Own
    BY <1>19, PlanFacts DEF TypesInv, MatrixInv, Running, Own, Save, Overall
  <1>20. CASE Read
    <2>1. PICK r \in line : found' = Append(found, [record |-> r, rows |-> rows[n]])
      BY <1>20 DEF Read
    <2>2. n \in DOMAIN plan
      BY <1>20 DEF Read, MatrixInv, PlaceInv, Running
    <2>3. [record |-> r, rows |-> rows[n]] \in Observation
      BY <2>2 DEF TypesInv, Observation
    <2>4. found' \in Seq(Observation)
      BY <2>1, <2>3 DEF TypesInv
    <2>5. UNCHANGED <<plan, n, slots, saved, failure, owned, over, worker, rows>>
          /\ line' = {} /\ pc' \in {"read", "wait"} /\ resume' \in BOOLEAN
      BY <1>20 DEF Read, TypesInv
    <2> QED BY <2>4, <2>5 DEF TypesInv, Running
  <1>21. CASE ReadFails
    BY <1>21, PlanFacts DEF TypesInv, MatrixInv, Running, ReadFails, Save,
        Overall
  <1>22. CASE Wait
    BY <1>22, StoppedIs DEF Wait, TypesInv, Running
  <1>23. CASE WaitFails
    BY <1>23, PlanFacts DEF TypesInv, MatrixInv, Running, WaitFails, Save,
        Overall
  <1>24. CASE Cleanup
    <2>1. worker' \in WorkerType /\ rows' \in [DOMAIN plan -> Sizes]
      BY <1>24, StoppedIs, StoppedRowsAre DEF Cleanup
    <2> QED BY <1>24, <2>1 DEF Cleanup, TypesInv, Running
  <1>25. CASE Inspect
    BY <1>25, PlanFacts DEF TypesInv, MatrixInv, Running, Inspect, Save,
        Overall
  <1>26. CASE Reserve
    BY <1>26, PlanFacts DEF TypesInv, MatrixInv, Running, Reserve, Save,
        Overall
  <1>27. CASE RecordSlot
    <2>1. n \in DOMAIN plan
      BY <1>27 DEF RecordSlot, MatrixInv, PlaceInv
    <2>2. n + 1 \in 1 .. Len(plan) + 1
      BY <2>1, PlanFacts
    <2>3. <<>> \in Seq(Observation)
      OBVIOUS
    <2>4. n' \in {n, n + 1} /\ pc' \in {"end", "next"}
      BY <1>27 DEF RecordSlot
    <2> QED BY <1>27, <2>2, <2>3, <2>4 DEF RecordSlot, TypesInv, Save
  <1>28. CASE LoopEnds
    BY <1>28, PlanFacts DEF TypesInv, MatrixInv, Running, LoopEnds, Save,
        Overall
  <1>29. CASE End
    BY <1>29, PlanFacts DEF TypesInv, MatrixInv, Running, End, Save, Overall
  <1>30. CASE Interrupt
    <2>1. worker' \in WorkerType /\ rows' \in [DOMAIN plan -> Sizes]
      BY <1>30, StoppedIs, StoppedRowsAre DEF Interrupt, TypesInv
    <2>2. /\ UNCHANGED <<plan, n, slots, saved, found, over, line, resume>>
          /\ pc' \in {"cleanup", "halted", "gone"} /\ owned' \in BOOLEAN
          /\ failure' \in {"interrupt", failure}
      BY <1>30 DEF Interrupt, TypesInv
    <2> QED BY <2>1, <2>2 DEF TypesInv, Running
  <1>31. CASE Kill
    BY <1>31, PlanFacts DEF TypesInv, MatrixInv, Running, Kill, Save, Overall
  <1>32. CASE TimePasses
    BY <1>32, PlanFacts DEF TypesInv, MatrixInv, Running, TimePasses, Save,
        Overall
  <1>33. CASE UNCHANGED vars
    BY <1>33 DEF TypesInv, vars
  <1> QED
    BY <1>11, <1>12, <1>13, <1>14, <1>15, <1>16, <1>17, <1>18, <1>19,
       <1>20, <1>21, <1>22, <1>23, <1>24, <1>25, <1>26, <1>27, <1>28,
       <1>29, <1>30, <1>31, <1>32, <1>33
       DEF Next, Controller, Worker

LEMMA PlaceKept ==
    ASSUME PlaceInv, UNCHANGED <<plan, n, slots, saved>>,
           pc' \in Running => pc \in Running,
           pc' \in {"next", "record"} => pc' = pc,
           pc = "ended" => pc' = "ended"
    PROVE  PlaceInv'
  BY DEF PlaceInv

LEMMA FinishedStatus ==
    TypesInv => /\ Finished.status \in {"completed", "failed", "interrupted"}
                /\ Finished.found = found /\ Finished.final = rows[n]
  <1> SUFFICES ASSUME TypesInv
               PROVE  /\ Finished.status \in {"completed", "failed", "interrupted"}
                      /\ Finished.found = found /\ Finished.final = rows[n]
    OBVIOUS
  <1>1. failure \in {"none", "error", "interrupt"}
    BY DEF TypesInv
  <1>2. CASE failure = "none"
    BY <1>2 DEF Finished
  <1>3. CASE failure = "error"
    BY <1>3 DEF Finished
  <1>4. CASE failure = "interrupt"
    BY <1>4 DEF Finished
  <1> QED BY <1>1, <1>2, <1>3, <1>4

LEMMA PlaceStep == MatrixInv /\ [Next]_vars => PlaceInv'
  <1> SUFFICES ASSUME MatrixInv, [Next]_vars PROVE PlaceInv'
    OBVIOUS
  <1>1. TypesInv /\ PlaceInv
    BY DEF MatrixInv
  <1> USE <1>1
  <1>11. CASE WorkerStarts
    BY <1>11, PlaceKept DEF WorkerStarts, Running
  <1>12. CASE FailAt
    BY <1>12, PlaceKept DEF FailAt, Running
  <1>13. CASE Sink
    BY <1>13, PlaceKept DEF Sink, Running
  <1>14. CASE InvokeEnds
    BY <1>14, PlaceKept DEF InvokeEnds, Running
  <1>15. CASE WorkerExits
    BY <1>15, PlaceKept DEF WorkerExits, Running
  <1>16. CASE WorkerResumes
    BY <1>16, PlaceKept DEF WorkerResumes, Running
  <1>17. CASE WorkerDies
    BY <1>17, PlaceKept DEF WorkerDies, Running
  <1>18. CASE Start
    BY <1>18, PlaceKept DEF Start, Running
  <1>19. CASE Own
    BY <1>19, PlaceKept DEF Own, Running
  <1>20. CASE Read
    BY <1>20, PlaceKept DEF Read, Running
  <1>21. CASE ReadFails
    BY <1>21, PlaceKept DEF ReadFails, Running
  <1>22. CASE Wait
    BY <1>22, PlaceKept DEF Wait, Running
  <1>23. CASE WaitFails
    BY <1>23, PlaceKept DEF WaitFails, Running
  <1>24. CASE Cleanup
    BY <1>24, PlaceKept DEF Cleanup, Running
  <1>25. CASE Inspect
    <2>1. n \in DOMAIN plan /\ slots[n] = Reserved /\ saved.slots[n] = Reserved
      BY <1>25 DEF PlaceInv, Running, Inspect
    <2>2. /\ slots'[n] = Finished
          /\ \A k \in DOMAIN plan : k # n => slots'[k] = slots[k]
      BY <1>25, <2>1 DEF Inspect, TypesInv
    <2>3. Finished.status # "unstarted" /\ Reserved.status = "interrupted"
      BY FinishedStatus DEF Reserved
    <2>4. UNCHANGED <<plan, n, saved>> /\ pc' = "record" /\ pc = "inspect"
      BY <1>25 DEF Inspect
    <2> HIDE DEF Finished
    <2> QED BY <2>1, <2>2, <2>3, <2>4, PlanFacts DEF PlaceInv, Running
  <1>26. CASE Reserve
    <2>1. n \in DOMAIN plan /\ Reserved.status = "interrupted"
      BY <1>26, PlanFacts DEF Reserve, Reserved, TypesInv
    <2>2. /\ slots'[n] = Reserved
          /\ \A k \in DOMAIN plan : k # n => slots'[k] = slots[k]
      BY <1>26, <2>1 DEF Reserve, TypesInv
    <2>3. saved'.slots = slots' /\ saved'.status = "interrupted"
      BY <1>26 DEF Reserve, Save
    <2>4. UNCHANGED <<plan, n>> /\ pc' = "start" /\ pc = "next"
      BY <1>26 DEF Reserve
    <2> QED BY <2>1, <2>2, <2>3, <2>4, PlanFacts DEF PlaceInv, Running
  <1>27. CASE RecordSlot
    <2>1. n \in DOMAIN plan /\ saved.status = "interrupted"
      BY <1>27 DEF PlaceInv, RecordSlot
    <2>2. /\ saved'.slots = slots /\ saved'.status = "interrupted"
          /\ UNCHANGED <<plan, slots>> /\ pc = "record"
          /\ \/ pc' = "end" /\ n' = n
             \/ pc' = "next" /\ n' = n + 1
      BY <1>27, <2>1 DEF RecordSlot, Save
    <2> QED BY <2>1, <2>2, PlanFacts DEF PlaceInv, Running
  <1>28. CASE LoopEnds
    BY <1>28, PlaceKept DEF LoopEnds, Running
  <1>29. CASE End
    <2>1. /\ saved'.slots = slots /\ UNCHANGED <<plan, n, slots>>
          /\ saved'.status \in {"interrupted", Overall}
          /\ pc \in {"end", "halted"} /\ pc' = "ended"
      BY <1>29 DEF End, Save
    <2>2. /\ Overall \in {"interrupted", "completed", "failed"}
          /\ Overall = "completed" =>
                \A k \in DOMAIN slots : slots[k].status = "completed"
      BY DEF Overall
    <2> QED BY <2>1, <2>2, PlanFacts DEF PlaceInv, Running, TypesInv
  <1>30. CASE Interrupt
    BY <1>30, PlaceKept DEF Interrupt, Running
  <1>31. CASE Kill
    BY <1>31, PlaceKept DEF Kill, Running
  <1>32. CASE TimePasses
    BY <1>32, PlaceKept DEF TimePasses, Running
  <1>33. CASE UNCHANGED vars
    BY <1>33, PlaceKept DEF vars, Running
  <1> QED
    BY <1>11, <1>12, <1>13, <1>14, <1>15, <1>16, <1>17, <1>18, <1>19,
       <1>20, <1>21, <1>22, <1>23, <1>24, <1>25, <1>26, <1>27, <1>28,
       <1>29, <1>30, <1>31, <1>32, <1>33
       DEF Next, Controller, Worker

\* The order of the phases, as the validator of a slot looks at it.
LEMMA PhasesInOrder ==
    ASSUME NEW f \in Seq(Observation), InOrder(f)
    PROVE  [k \in DOMAIN f |-> f[k].record.phase]
              \in {<<>>, <<"initial">>, <<"initial", "resume">>}
  <1> DEFINE phases == [k \in DOMAIN f |-> f[k].record.phase]
  <1> SUFFICES phases \in {<<>>, <<"initial">>, <<"initial", "resume">>}
    OBVIOUS
  <1>1. /\ Len(f) \in Nat /\ Len(f) <= 2 /\ DOMAIN f = 1 .. Len(f)
        /\ \A k \in 1 .. Len(f) : f[k] \in Observation
    BY DEF InOrder
  <1>2. /\ DOMAIN phases = 1 .. Len(f)
        /\ \A k \in 1 .. Len(f) : phases[k] = IF k = 1 THEN "initial" ELSE "resume"
    BY <1>1 DEF InOrder
  <1>3. phases \in [1 .. Len(f) -> Phases]
    BY <1>2 DEF Phases
  <1> HIDE DEF phases
  <1>4. phases \in Seq(Phases) /\ Len(phases) = Len(f)
    BY <1>1, <1>3
  <1>5. CASE Len(f) = 0
    BY <1>4, <1>5
  <1>6. CASE Len(f) = 1
    <2>1. phases = <<"initial">>
      BY <1>2, <1>4, <1>6
    <2> QED BY <2>1, Zenon
  <1>7. CASE Len(f) = 2
    <2>1. phases = <<"initial", "resume">>
      BY <1>2, <1>4, <1>7
    <2> QED BY <2>1, Zenon
  <1>8. Len(f) \in {0, 1, 2}
    BY <1>1
  <1> QED BY <1>5, <1>6, <1>7, <1>8

\* What run_slot makes of a lifecycle is consistent: either at once, or because
\* it is turned into a failure; and an interrupt is never lost.
LEMMA FinishedIsConsistent ==
    ASSUME TypesInv, InOrder(found)
    PROVE  /\ Consistent(Finished, Condition)
           /\ failure = "interrupt" => Finished.status = "interrupted"
           /\ failure # "interrupt" => Finished.status # "interrupted"
  <1> DEFINE status == CASE failure = "none" -> "completed"
                         [] failure = "error" -> "failed"
                         [] failure = "interrupt" -> "interrupted"
             slot == [status |-> status,
                      symptom |-> classify(Condition, status, found, rows[n]),
                      found |-> found, final |-> rows[n],
                      error |-> failure # "none"]
             f1 == [slot EXCEPT !.status = "failed"]
             f2 == [f1 EXCEPT !.symptom = "inconclusive"]
             failed == [f2 EXCEPT !.error = TRUE]
  <1>1. Finished = IF Consistent(slot, Condition) THEN slot ELSE failed
    BY Zenon DEF Finished
  <1>2. failure \in {"none", "error", "interrupt"}
    BY DEF TypesInv
  <1>3. /\ failure = "none" => status = "completed"
        /\ failure = "error" => status = "failed"
        /\ failure = "interrupt" => status = "interrupted"
    BY <1>2
  <1> HIDE DEF status
  <1>4. [k \in DOMAIN found |-> found[k].record.phase]
           \in {<<>>, <<"initial">>, <<"initial", "resume">>}
    BY PhasesInOrder DEF TypesInv
  <1>5. /\ slot.status = status /\ slot.found = found
        /\ slot.symptom = classify(Condition, status, found, rows[n])
        /\ slot.error = (failure # "none")
    OBVIOUS
  <1>6. f1 = [status |-> "failed", symptom |-> slot.symptom, found |-> found,
              final |-> rows[n], error |-> slot.error]
    OBVIOUS
  <1> HIDE DEF slot, f1
  <1>10. f2 = [status |-> "failed", symptom |-> "inconclusive",
              found |-> found, final |-> rows[n], error |-> slot.error]
    BY <1>6
  <1> HIDE DEF f2
  <1>7. /\ failed.status = "failed" /\ failed.found = found
        /\ failed.symptom = "inconclusive" /\ failed.error = TRUE
    BY <1>10
  <1> HIDE DEF failed
  <1>8. Consistent(failed, Condition)
    BY <1>4, <1>7 DEF Consistent, classify
  <1>9. ASSUME failure = "interrupt" PROVE Consistent(slot, Condition)
    BY <1>3, <1>4, <1>5, <1>9 DEF Consistent, classify
  <1> QED BY <1>1, <1>2, <1>3, <1>5, <1>7, <1>8, <1>9

LEMMA WorkerStep == MatrixInv /\ [Next]_vars => WorkerInv'
  <1> SUFFICES ASSUME MatrixInv, [Next]_vars PROVE WorkerInv'
    OBVIOUS
  <1>1. TypesInv /\ PlaceInv /\ WorkerInv /\ FoundInv
    BY DEF MatrixInv
  <1> USE <1>1
  <1>11. CASE WorkerStarts
    BY <1>11, WorkerMoves, PlanFacts, WorkerParts DEF WorkerInv, Fields,
        Alive, Attached, WorkerStarts, PlaceInv, Running
  <1>12. CASE FailAt
    BY <1>12, WorkerMoves, PlanFacts, WorkerParts DEF WorkerInv, Fields,
        Alive, Attached, FailAt, PlaceInv, Running
  <1>13. CASE Sink
    BY <1>13, WorkerMoves, SinkRows, WorkerParts DEF WorkerInv, Fields,
        Alive, Attached, Sink, PlaceInv, Running
  <1>14. CASE InvokeEnds
    BY <1>14, WorkerMoves, PlanFacts, WorkerParts DEF WorkerInv, Fields,
        Alive, Attached, InvokeEnds, PlaceInv, Running, Both, Lifecycles,
        Phases
  <1>15. CASE WorkerExits
    BY <1>15, WorkerMoves, PlanFacts, WorkerParts DEF WorkerInv, Fields,
        Alive, Attached, WorkerExits, PlaceInv, Running
  <1>16. CASE WorkerResumes
    <2>1. worker.slot \in DOMAIN plan
      BY <1>16 DEF WorkerResumes, WorkerInv
    <2>2. Fields(worker', worker.slot, "invoke", "resume", 0, FALSE) /\ Alive
      BY <1>16, WorkerMoves DEF WorkerResumes, Alive
    <2>3. UNCHANGED <<plan, pc, n, slots, failure, owned, rows>>
      BY <1>16 DEF WorkerResumes
    <2> QED BY <2>1, <2>2, <2>3 DEF WorkerInv, Fields, Alive, Attached
  <1>17. CASE WorkerDies
    <2>1. \A k \in DOMAIN plan : rows'[k] \subseteq rows[k]
      BY <1>17, CutOff DEF WorkerDies
    <2> QED BY <1>17, <2>1, WorkerMoves, WorkerParts DEF WorkerInv,
          Fields, Alive, Attached, WorkerDies
  <1>18. CASE Start
    <2>1. CASE over
      BY <1>18, <2>1 DEF Start, WorkerInv, Alive, Attached
    <2>2. CASE ~over
      <3>1. n \in DOMAIN plan
        BY <1>18 DEF Start, PlaceInv, Running
      <3>2. /\ Phase = "initial" => rows[n] = {}
            /\ Phase \in {"initial", "resume"}
        BY <1>18 DEF Start, FoundInv, Phase
      <3>3. Fields(worker', n, "start", Phase, 0, FALSE)
        BY <1>18, <2>2, WorkerMoves
      <3>4. /\ ~owned /\ pc' = "started"
            /\ UNCHANGED <<plan, n, owned, rows, slots, failure>>
        BY <1>18, <2>2 DEF Start, WorkerInv
      <3> QED BY <3>1, <3>2, <3>3, <3>4 DEF Fields, WorkerInv, Alive, Attached
    <2> QED BY <2>1, <2>2
  <1>19. CASE Own
    BY <1>19, WorkerMoves, PlanFacts, WorkerParts DEF WorkerInv, Fields,
        Alive, Attached, Own, PlaceInv, Running
  <1>20. CASE Read
    BY <1>20, WorkerMoves, PlanFacts, WorkerParts DEF WorkerInv, Fields,
        Alive, Attached, Read, PlaceInv, Running
  <1>21. CASE ReadFails
    BY <1>21, WorkerMoves, PlanFacts, WorkerParts DEF WorkerInv, Fields,
        Alive, Attached, ReadFails, PlaceInv, Running
  <1>22. CASE Wait
    <2>1. worker'.slot = n /\ worker'.at = "dead"
      BY <1>22, StoppedIs DEF Wait, WorkerInv
    <2> QED BY <1>22, <2>1, PlanFacts DEF Wait, WorkerInv, PlaceInv,
          Running, Alive, Attached
  <1>23. CASE WaitFails
    BY <1>23, WorkerMoves, PlanFacts, WorkerParts DEF WorkerInv, Fields,
        Alive, Attached, WaitFails, PlaceInv, Running
  <1>24. CASE Cleanup
    <2>1. CASE owned
      <3>1. worker'.slot = n /\ worker'.at = "dead"
        BY <1>24, <2>1, StoppedIs DEF Cleanup
      <3> QED BY <1>24, <3>1 DEF Cleanup, WorkerInv, PlaceInv, Running,
            Alive, Attached
    <2>2. CASE ~owned
      <3>1. worker' = worker /\ rows' = rows
        BY <1>24, <2>2, StoppedIs DEF Cleanup, StoppedRows
      <3> QED BY <1>24, <2>2, <3>1 DEF Cleanup, WorkerInv, Alive, Attached
    <2> QED BY <2>1, <2>2
  <1>25. CASE Inspect
    <2>1. n \in DOMAIN plan /\ InOrder(found)
      BY <1>25 DEF Inspect, PlaceInv, Running, FoundInv
    <2>2. failure = "interrupt" => slots'[n].status = "interrupted"
      BY <1>25, <2>1, FinishedIsConsistent DEF Inspect, TypesInv
    <2>3. /\ pc = "inspect" /\ pc' = "record"
          /\ UNCHANGED <<plan, n, rows, worker, owned, failure>>
      BY <1>25 DEF Inspect
    <2> QED BY <2>2, <2>3 DEF WorkerInv, Alive, Attached
  <1>26. CASE Reserve
    BY <1>26, WorkerMoves, PlanFacts, WorkerParts DEF WorkerInv, Fields,
        Alive, Attached, Reserve, PlaceInv, Running
  <1>27. CASE RecordSlot
    BY <1>27, WorkerMoves, PlanFacts, WorkerParts DEF WorkerInv, Fields,
        Alive, Attached, RecordSlot, PlaceInv, Running
  <1>28. CASE LoopEnds
    BY <1>28, WorkerMoves, PlanFacts, WorkerParts DEF WorkerInv, Fields,
        Alive, Attached, LoopEnds, PlaceInv, Running
  <1>29. CASE End
    BY <1>29, WorkerMoves, PlanFacts, WorkerParts DEF WorkerInv, Fields,
        Alive, Attached, End, PlaceInv, Running
  <1>30. CASE Interrupt
    <2>1. CASE pc \in {"start", "started", "read", "wait"}
      BY <1>30, <2>1 DEF Interrupt, WorkerInv, Alive, Attached
    <2>2. CASE pc \in {"cleanup", "inspect"}
      <3>1. CASE owned
        <4>1. worker'.slot = n /\ worker'.at = "dead"
          BY <1>30, <2>2, <3>1, StoppedIs DEF Interrupt
        <4> QED BY <1>30, <2>2, <4>1 DEF Interrupt, WorkerInv, PlaceInv,
              Running, Alive, Attached
      <3>2. CASE ~owned
        <4>1. worker' = worker /\ rows' = rows
          BY <1>30, <2>2, <3>2, StoppedIs DEF Interrupt, StoppedRows
        <4> QED BY <1>30, <2>2, <3>2, <4>1 DEF Interrupt, WorkerInv,
              Alive, Attached
      <3> QED BY <3>1, <3>2
    <2>3. CASE pc \notin {"start", "started", "read", "wait", "cleanup", "inspect"}
      BY <1>30, <2>3 DEF Interrupt, WorkerInv, Alive, Attached
    <2> QED BY <2>1, <2>2, <2>3
  <1>31. CASE Kill
    BY <1>31, WorkerMoves, PlanFacts, WorkerParts DEF WorkerInv, Fields,
        Alive, Attached, Kill, PlaceInv, Running
  <1>32. CASE TimePasses
    BY <1>32, WorkerMoves, PlanFacts, WorkerParts DEF WorkerInv, Fields,
        Alive, Attached, TimePasses, PlaceInv, Running
  <1>33. CASE UNCHANGED vars
    BY <1>33 DEF WorkerInv, vars, Alive
  <1> QED
    BY <1>11, <1>12, <1>13, <1>14, <1>15, <1>16, <1>17, <1>18, <1>19,
       <1>20, <1>21, <1>22, <1>23, <1>24, <1>25, <1>26, <1>27, <1>28,
       <1>29, <1>30, <1>31, <1>32, <1>33
       DEF Next, Controller, Worker

LEMMA FoundStep == MatrixInv /\ [Next]_vars => FoundInv'
  <1> SUFFICES ASSUME MatrixInv, [Next]_vars PROVE FoundInv'
    OBVIOUS
  <1>1. /\ TypesInv /\ PlaceInv /\ WorkerInv /\ FoundInv
        /\ StartedIsNotUnstarted
    BY DEF MatrixInv
  <1> USE <1>1
  <1>11. CASE WorkerStarts
    BY <1>11, WorkerMoves, WorkerParts DEF FoundInv, Unread, Resumed,
        Resuming, Fresh, Fields, Alive, Attached, WorkerStarts, WorkerInv
  <1>12. CASE FailAt
    BY <1>12, WorkerMoves, WorkerParts DEF FoundInv, Unread, Resumed,
        Resuming, Fresh, Fields, Alive, Attached, FailAt, WorkerInv
  <1>13. CASE Sink
    BY <1>13, WorkerMoves, WorkerParts DEF FoundInv, Unread, Resumed,
        Resuming, Fresh, Fields, Alive, Attached, Sink, WorkerInv
  <1>14. CASE InvokeEnds
    <2>1. /\ worker'.slot = worker.slot /\ worker'.phase = worker.phase
          /\ worker'.sinks = worker.sinks
          /\ worker'.at \in {"await", "leave"} /\ worker.at = "invoke"
      BY <1>14, WorkerMoves DEF InvokeEnds, Fields
    <2>2. \A r \in line' : r.phase = worker.phase /\ r.sinks = worker.sinks
      BY <1>14 DEF InvokeEnds, Record
    <2>3. UNCHANGED <<plan, pc, n, found, resume, rows>>
      BY <1>14 DEF InvokeEnds
    <2> QED BY <2>1, <2>2, <2>3 DEF FoundInv, Unread, Resumed, Resuming,
          Fresh, Attached
  <1>15. CASE WorkerExits
    BY <1>15, WorkerMoves, WorkerParts DEF FoundInv, Unread, Resumed,
        Resuming, Fresh, Fields, Alive, Attached, WorkerExits, WorkerInv
  <1>16. CASE WorkerResumes
    BY <1>16, WorkerMoves, WorkerParts DEF FoundInv, Unread, Resumed,
        Resuming, Fresh, Fields, Alive, Attached, WorkerResumes, WorkerInv
  <1>17. CASE WorkerDies
    BY <1>17, WorkerMoves, WorkerParts DEF FoundInv, Unread, Resumed,
        Resuming, Fresh, Fields, Alive, Attached, WorkerDies, WorkerInv
  <1>18. CASE Start
    <2>1. CASE over
      BY <1>18, <2>1 DEF Start, FoundInv, Attached
    <2>2. CASE ~over
      <3>1. Fields(worker', n, "start", Phase, 0, FALSE)
        BY <1>18, <2>2, WorkerMoves
      <3>2. /\ pc' = "started" /\ line' = {} /\ resume' = FALSE
            /\ UNCHANGED <<plan, n, found, rows>>
        BY <1>18, <2>2 DEF Start
      <3>3. \/ found = <<>> /\ Phase = "initial"
            \/ Len(found) = 1 /\ Phase = "resume"
        BY <1>18 DEF Start, FoundInv, Phase
      <3> QED BY <3>1, <3>2, <3>3 DEF FoundInv, Unread, Resumed, Fields,
            Attached
    <2> QED BY <2>1, <2>2
  <1>19. CASE Own
    BY <1>19, WorkerMoves, WorkerParts DEF FoundInv, Unread, Resumed,
        Resuming, Fresh, Fields, Alive, Attached, Own, WorkerInv
  <1>20. CASE Read
    <2>1. PICK r \in line : found' = Append(found, [record |-> r, rows |-> rows[n]])
      BY <1>20 DEF Read
    <2> DEFINE o == [record |-> r, rows |-> rows[n]]
    <2>2. /\ worker.slot = n /\ n \in DOMAIN plan /\ worker.at # "dead"
          /\ worker.at = "await" => worker.phase = "initial" /\ ~Fresh
          /\ worker.at \in {"leave", "exited"} => worker.phase = "resume" \/ Fresh
      BY <1>20 DEF Read, WorkerInv, PlaceInv, Running, Attached, Fresh
    <2>3. /\ r.phase = worker.phase /\ r.sinks = worker.sinks
          /\ worker.at \in {"await", "leave", "exited", "failed"}
          /\ line # {}
      BY <1>20, <2>2, WorkerParts DEF Read, FoundInv, Attached, Places
    <2>4. o \in Observation /\ o.record = r /\ o.rows = rows[n]
      BY <2>2 DEF TypesInv, Observation
    <2>5. /\ line' = {} /\ pc = "read" /\ UNCHANGED <<plan, n, worker, rows>>
          /\ IF Phase = "initial" /\ ~Fresh THEN resume' = TRUE /\ pc' = "read"
             ELSE pc' = "wait" /\ resume' = resume
      BY <1>20 DEF Read
    <2>6. found' = Append(found, o) /\ found \in Seq(Observation)
      BY <2>1 DEF TypesInv
    <2> HIDE DEF o
    <2>7. Unread \/ Resumed
      BY <2>3, <2>5 DEF FoundInv, Resuming
    <2>8. CASE Unread
      <3>1. found = <<>> /\ worker.phase = "initial" /\ Phase = "initial"
        BY <2>8 DEF Unread, Phase
      <3>2. /\ Len(found') = 1 /\ found'[1] = o
        BY <2>4, <2>6, <3>1
      <3>3. rows[n] \subseteq 0 .. worker.sinks
        BY <2>2, <3>1 DEF WorkerInv
      <3>4. InOrder(found')
        BY <2>3, <2>4, <3>1, <3>2 DEF InOrder
      <3>5. Separate(found')
        BY <2>3, <2>4, <3>2, <3>3 DEF Separate
      <3>6. CASE Fresh
        <4>1. pc' = "wait" /\ Fresh' /\ worker'.phase = "initial"
              /\ worker'.at \in {"leave", "exited", "failed"}
          BY <2>2, <2>3, <2>5, <3>1, <3>6 DEF Fresh
        <4> QED BY <2>5, <3>2, <3>4, <3>5, <4>1 DEF FoundInv, Attached
      <3>7. CASE ~Fresh
        <4>1. pc' = "read" /\ ~Fresh' /\ worker'.at \in {"await", "failed"}
          BY <2>2, <2>3, <2>5, <3>1, <3>7 DEF Fresh
        <4> QED BY <2>5, <3>2, <3>4, <3>5, <4>1 DEF FoundInv, Attached,
              Resuming
      <3> QED BY <3>6, <3>7
    <2>9. CASE Resumed
      <3>1. Len(found) = 1 /\ worker.phase = "resume" /\ Phase = "resume"
        BY <2>9 DEF Resumed, Phase
      <3>2. /\ Len(found') = 2 /\ found'[1] = found[1] /\ found'[2] = o
        <4>1. 1 \in 1 .. Len(found) /\ Len(found) + 1 = 2
          BY <3>1
        <4> QED BY <2>4, <2>6, <4>1, AppendFacts
      <3>3. InOrder(found')
        BY <2>3, <2>4, <3>1, <3>2 DEF InOrder, FoundInv
      <3>4. Separate(found')
        BY <3>1, <3>2 DEF Separate, FoundInv
      <3>5. pc' = "wait" /\ worker'.at \in {"leave", "exited", "failed"}
        BY <2>2, <2>3, <2>5, <3>1
      <3> QED BY <2>5, <3>2, <3>3, <3>4, <3>5 DEF FoundInv, Attached
    <2> QED BY <2>7, <2>8, <2>9
  <1>21. CASE ReadFails
    BY <1>21, WorkerMoves, WorkerParts DEF FoundInv, Unread, Resumed,
        Resuming, Fresh, Fields, Alive, Attached, ReadFails, WorkerInv
  <1>22. CASE Wait
    <2>1. /\ n \in DOMAIN plan /\ worker.slot = n /\ worker.at = "exited"
          /\ UNCHANGED <<plan, n, found, rows>>
          /\ pc' = IF Len(found) = 2 THEN "cleanup" ELSE "start"
      BY <1>22 DEF Wait, PlaceInv, Running, WorkerInv, Attached
    <2>2. Len(found) # 2 =>
            Len(found) = 1 /\ Fresh /\ worker.phase = "initial"
      BY <1>22, <2>1 DEF Wait, FoundInv, WorkerInv
    <2> QED BY <2>1, <2>2, WorkerParts DEF FoundInv, Attached, Fresh
  <1>23. CASE WaitFails
    BY <1>23, WorkerMoves, WorkerParts DEF FoundInv, Unread, Resumed,
        Resuming, Fresh, Fields, Alive, Attached, WaitFails, WorkerInv
  <1>24. CASE Cleanup
    BY <1>24, WorkerMoves, WorkerParts DEF FoundInv, Unread, Resumed,
        Resuming, Fresh, Fields, Alive, Attached, Cleanup, WorkerInv
  <1>25. CASE Inspect
    BY <1>25, WorkerMoves, WorkerParts DEF FoundInv, Unread, Resumed,
        Resuming, Fresh, Fields, Alive, Attached, Inspect, WorkerInv
  <1>26. CASE Reserve
    <2>1. n \in DOMAIN plan /\ found = <<>>
      BY <1>26, PlanFacts DEF Reserve, TypesInv, FoundInv
    <2>2. rows[n] = {}
      BY <1>26, <2>1 DEF Reserve, PlaceInv, StartedIsNotUnstarted
    <2> QED BY <1>26, <2>1, <2>2 DEF Reserve, FoundInv, Attached
  <1>27. CASE RecordSlot
    <2>1. found' = <<>> /\ Len(<<>>) = 0 /\ pc' \in {"next", "end"}
      BY <1>27 DEF RecordSlot
    <2> QED BY <2>1 DEF FoundInv, InOrder, Separate, Attached
  <1>28. CASE LoopEnds
    BY <1>28, WorkerMoves, WorkerParts DEF FoundInv, Unread, Resumed,
        Resuming, Fresh, Fields, Alive, Attached, LoopEnds, WorkerInv
  <1>29. CASE End
    BY <1>29, WorkerMoves, WorkerParts DEF FoundInv, Unread, Resumed,
        Resuming, Fresh, Fields, Alive, Attached, End, WorkerInv
  <1>30. CASE Interrupt
    BY <1>30, WorkerMoves, WorkerParts DEF FoundInv, Unread, Resumed,
        Resuming, Fresh, Fields, Alive, Attached, Interrupt, WorkerInv
  <1>31. CASE Kill
    BY <1>31, WorkerMoves, WorkerParts DEF FoundInv, Unread, Resumed,
        Resuming, Fresh, Fields, Alive, Attached, Kill, WorkerInv
  <1>32. CASE TimePasses
    BY <1>32, WorkerMoves, WorkerParts DEF FoundInv, Unread, Resumed,
        Resuming, Fresh, Fields, Alive, Attached, TimePasses, WorkerInv
  <1>33. CASE UNCHANGED vars
    BY <1>33 DEF FoundInv, Unread, Resumed, Resuming, Fresh, vars
  <1> QED
    BY <1>11, <1>12, <1>13, <1>14, <1>15, <1>16, <1>17, <1>18, <1>19,
       <1>20, <1>21, <1>22, <1>23, <1>24, <1>25, <1>26, <1>27, <1>28,
       <1>29, <1>30, <1>31, <1>32, <1>33
       DEF Next, Controller, Worker

\* A lifecycle that is over stays as it was counted.
LEMMA SlotsKept ==
    ASSUME MatrixInv, UNCHANGED <<plan, slots, saved>>,
           \A k \in DOMAIN plan :
              rows'[k] = rows[k] \/ (worker.slot = k /\ Alive),
           \/ ~Alive'
           \/ Alive /\ worker'.slot = worker.slot
           \/ pc = "start" /\ worker'.slot = n
    PROVE  SlotsInv'
  <1>1. SlotsInv /\ PlaceInv
    BY DEF MatrixInv
  <1>2. \A k \in DOMAIN plan :
          pc = "start" /\ worker'.slot = k /\ k = n =>
              /\ slots[k].status = "interrupted"
              /\ saved.slots[k].status = "interrupted"
    BY <1>1 DEF PlaceInv, Running, Reserved
  <1>3. ASSUME NEW k \in DOMAIN plan, NEW slot, Good(slot, k),
               pc = "start" /\ worker'.slot = k /\ k = n =>
                  slot.status = "interrupted"
        PROVE  Good(slot, k)'
    BY <1>3 DEF Good
  <1> QED BY <1>1, <1>2, <1>3 DEF SlotsInv

\* A slot that somebody was there for is not called unstarted again.
LEMMA StartedKept ==
    ASSUME MatrixInv, UNCHANGED plan,
           saved'.slots = saved.slots \/ saved'.slots = slots,
           \A k \in DOMAIN plan :
              worker'.slot = k \/ rows'[k] # {} =>
                  worker.slot = k \/ rows[k] # {} \/ (k = n /\ pc \in Running)
    PROVE  StartedIsNotUnstarted'
  <1> SUFFICES ASSUME NEW k \in DOMAIN plan, worker'.slot = k \/ rows'[k] # {}
               PROVE  saved'.slots[k].status # "unstarted"
    BY DEF StartedIsNotUnstarted
  <1>1. saved.slots[k].status # "unstarted"
    BY DEF MatrixInv, StartedIsNotUnstarted, PlaceInv, Reserved
  <1> QED BY <1>1 DEF MatrixInv, PlaceInv

LEMMA PlaceholdersAreConsistent ==
    \A c : Consistent(Reserved, c) /\ Consistent(Unstarted, c)
  <1> TAKE c
  <1>1. /\ Reserved.status = "interrupted" /\ Reserved.symptom = "inconclusive"
        /\ Reserved.found = <<>> /\ Reserved.final = {} /\ Reserved.error = TRUE
    BY DEF Reserved
  <1>2. Unstarted = [status |-> "unstarted", symptom |-> "inconclusive",
                     found |-> <<>>, final |-> {}, error |-> FALSE]
    <2> DEFINE r == Reserved
               u == [r EXCEPT !.status = "unstarted"]
               f == <<>>
               none == {}
               yes == TRUE
               no == FALSE
    <2>1. r = [status |-> "interrupted", symptom |-> "inconclusive",
               found |-> f, final |-> none, error |-> yes]
      BY DEF Reserved
    <2>2. Unstarted = [u EXCEPT !.error = no]
      BY Zenon DEF Unstarted
    <2> HIDE DEF r, f, none, yes, no
    <2>3. u = [status |-> "unstarted", symptom |-> "inconclusive",
               found |-> f, final |-> none, error |-> yes]
      BY <2>1
    <2> HIDE DEF u
    <2>4. Unstarted = [status |-> "unstarted", symptom |-> "inconclusive",
                       found |-> f, final |-> none, error |-> no]
      BY <2>2, <2>3
    <2> QED BY <2>4, Zenon DEF f, none, no
  <1>3. [k \in DOMAIN <<>> |-> <<>>[k].record.phase] = <<>>
    OBVIOUS
  <1> QED BY <1>1, <1>2, <1>3 DEF Consistent, classify

LEMMA SlotsStep == MatrixInv /\ [Next]_vars => SlotsInv'
  <1> SUFFICES ASSUME MatrixInv, [Next]_vars PROVE SlotsInv'
    OBVIOUS
  <1>1. /\ TypesInv /\ PlaceInv /\ WorkerInv /\ FoundInv /\ SlotsInv
        /\ StartedIsNotUnstarted /\ MatrixInv
    BY DEF MatrixInv
  <1> USE <1>1
  <1>11. CASE WorkerStarts
    <2>1. \A k \in DOMAIN plan : rows'[k] = rows[k] \/ (worker.slot = k /\ Alive)
      BY <1>11 DEF WorkerStarts, Alive, TypesInv
    <2>2. worker'.slot = worker.slot /\ Alive
      BY <1>11, WorkerMoves DEF WorkerStarts, Fields, Alive
    <2>3. UNCHANGED <<plan, slots, saved>>
      BY <1>11 DEF WorkerStarts
    <2> QED BY <2>1, <2>2, <2>3, SlotsKept
  <1>12. CASE FailAt
    <2>1. \A k \in DOMAIN plan : rows'[k] = rows[k] \/ (worker.slot = k /\ Alive)
      BY <1>12 DEF FailAt, Alive, TypesInv
    <2>2. worker'.slot = worker.slot /\ Alive
      BY <1>12, WorkerMoves DEF FailAt, Fields, Alive
    <2>3. UNCHANGED <<plan, slots, saved>>
      BY <1>12 DEF FailAt
    <2> QED BY <2>1, <2>2, <2>3, SlotsKept
  <1>13. CASE Sink
    <2>1. \A k \in DOMAIN plan : rows'[k] = rows[k] \/ (worker.slot = k /\ Alive)
      BY <1>13, SinkRows DEF Sink, Alive, TypesInv
    <2>2. worker'.slot = worker.slot /\ Alive
      BY <1>13, WorkerMoves DEF Sink, Fields, Alive
    <2>3. UNCHANGED <<plan, slots, saved>>
      BY <1>13 DEF Sink
    <2> QED BY <2>1, <2>2, <2>3, SlotsKept
  <1>14. CASE InvokeEnds
    <2>1. \A k \in DOMAIN plan : rows'[k] = rows[k] \/ (worker.slot = k /\ Alive)
      BY <1>14 DEF InvokeEnds, Alive, TypesInv
    <2>2. worker'.slot = worker.slot /\ Alive
      BY <1>14, WorkerMoves DEF InvokeEnds, Fields, Alive
    <2>3. UNCHANGED <<plan, slots, saved>>
      BY <1>14 DEF InvokeEnds
    <2> QED BY <2>1, <2>2, <2>3, SlotsKept
  <1>15. CASE WorkerExits
    <2>1. \A k \in DOMAIN plan : rows'[k] = rows[k] \/ (worker.slot = k /\ Alive)
      BY <1>15 DEF WorkerExits, Alive, TypesInv
    <2>2. worker'.slot = worker.slot /\ Alive
      BY <1>15, WorkerMoves DEF WorkerExits, Fields, Alive
    <2>3. UNCHANGED <<plan, slots, saved>>
      BY <1>15 DEF WorkerExits
    <2> QED BY <2>1, <2>2, <2>3, SlotsKept
  <1>16. CASE WorkerResumes
    <2>1. \A k \in DOMAIN plan : rows'[k] = rows[k] \/ (worker.slot = k /\ Alive)
      BY <1>16 DEF WorkerResumes, Alive, TypesInv
    <2>2. worker'.slot = worker.slot /\ Alive
      BY <1>16, WorkerMoves DEF WorkerResumes, Fields, Alive
    <2>3. UNCHANGED <<plan, slots, saved>>
      BY <1>16 DEF WorkerResumes
    <2> QED BY <2>1, <2>2, <2>3, SlotsKept
  <1>17. CASE WorkerDies
    <2>1. \A k \in DOMAIN plan : rows'[k] = rows[k] \/ (worker.slot = k /\ Alive)
      BY <1>17, CutOff DEF WorkerDies, Alive, TypesInv
    <2>2. worker'.slot = worker.slot /\ Alive
      BY <1>17, WorkerMoves DEF WorkerDies, Fields, Alive
    <2>3. UNCHANGED <<plan, slots, saved>>
      BY <1>17 DEF WorkerDies
    <2> QED BY <2>1, <2>2, <2>3, SlotsKept
  <1>18. CASE Start
    <2>1. \/ worker' = worker
          \/ worker'.slot = n
      BY <1>18, WorkerMoves DEF Start, Fields
    <2> QED BY <1>18, <2>1, SlotsKept DEF Start, Alive
  <1>19. CASE Own
    BY <1>19, SlotsKept DEF Own, Alive
  <1>20. CASE Read
    BY <1>20, SlotsKept DEF Read, Alive
  <1>21. CASE ReadFails
    BY <1>21, SlotsKept DEF ReadFails, Alive
  <1>22. CASE Wait
    <2>1. worker' = worker \/ worker'.at = "dead"
      BY <1>22, StoppedIs DEF Wait
    <2> QED BY <1>22, <2>1, SlotsKept DEF Wait, Alive
  <1>23. CASE WaitFails
    BY <1>23, SlotsKept DEF WaitFails, Alive
  <1>24. CASE Cleanup
    <2>1. worker' = worker \/ worker'.at = "dead"
      BY <1>24, StoppedIs DEF Cleanup
    <2>2. \A k \in DOMAIN plan : rows'[k] = rows[k] \/ (worker.slot = k /\ Alive)
      BY <1>24, StoppedRowsAre DEF Cleanup, Alive
    <2> QED BY <1>24, <2>1, <2>2, SlotsKept DEF Cleanup, Alive
  <1>25. CASE Inspect
    <2>1. n \in DOMAIN plan /\ InOrder(found) /\ Separate(found)
      BY <1>25 DEF Inspect, PlaceInv, Running, FoundInv
    <2>2. /\ slots'[n] = Finished
          /\ \A k \in DOMAIN plan : k # n => slots'[k] = slots[k]
      BY <1>25, <2>1 DEF Inspect, TypesInv
    <2>3. UNCHANGED <<plan, saved, worker, rows>>
      BY <1>25 DEF Inspect
    <2>4. failure # "interrupt" => ~Alive
      BY <1>25 DEF Inspect, WorkerInv
    <2>5. Good(Finished, n)
      BY <2>1, <2>4, FinishedIsConsistent, FinishedStatus DEF Good, Condition
    <2> HIDE DEF Finished
    <2>6. ASSUME NEW k \in DOMAIN plan, NEW slot, Good(slot, k)
          PROVE  Good(slot, k)'
      BY <2>3, <2>6 DEF Good, Alive
    <2>7. ASSUME NEW k \in DOMAIN plan PROVE Good(slots'[k], k)
      BY <2>2, <2>5 DEF SlotsInv
    <2> QED BY <2>3, <2>6, <2>7 DEF SlotsInv
  <1>26. CASE Reserve
    <2>1. n \in DOMAIN plan
      BY <1>26, PlanFacts DEF Reserve, TypesInv
    <2>2. /\ slots'[n] = Reserved /\ saved'.slots = slots'
          /\ \A k \in DOMAIN plan : k # n => slots'[k] = slots[k]
      BY <1>26, <2>1 DEF Reserve, TypesInv, Save
    <2>3. UNCHANGED <<plan, worker, rows>>
      BY <1>26 DEF Reserve
    <2>4. Good(Reserved, n)
      BY PlaceholdersAreConsistent DEF Good, Reserved, Separate
    <2>5. ASSUME NEW k \in DOMAIN plan, NEW slot, Good(slot, k)
          PROVE  Good(slot, k)'
      BY <2>3, <2>5 DEF Good, Alive
    <2>6. ASSUME NEW k \in DOMAIN plan PROVE Good(slots'[k], k)
      BY <2>2, <2>4 DEF SlotsInv
    <2> QED BY <2>2, <2>3, <2>5, <2>6 DEF SlotsInv
  <1>27. CASE RecordSlot
    <2>1. saved'.slots = slots /\ UNCHANGED <<plan, slots, worker, rows>>
      BY <1>27 DEF RecordSlot, Save
    <2>2. ASSUME NEW k \in DOMAIN plan, NEW slot, Good(slot, k)
          PROVE  Good(slot, k)'
      BY <2>1, <2>2 DEF Good, Alive
    <2> QED BY <2>1, <2>2 DEF SlotsInv
  <1>28. CASE LoopEnds
    BY <1>28, SlotsKept DEF LoopEnds, Alive
  <1>29. CASE End
    <2>1. saved'.slots = slots /\ UNCHANGED <<plan, slots, worker, rows>>
      BY <1>29 DEF End, Save
    <2>2. ASSUME NEW k \in DOMAIN plan, NEW slot, Good(slot, k)
          PROVE  Good(slot, k)'
      BY <2>1, <2>2 DEF Good, Alive
    <2> QED BY <2>1, <2>2 DEF SlotsInv
  <1>30. CASE Interrupt
    <2>1. worker' = worker \/ worker'.at = "dead"
      BY <1>30, StoppedIs DEF Interrupt
    <2>2. \A k \in DOMAIN plan : rows'[k] = rows[k] \/ (worker.slot = k /\ Alive)
      BY <1>30, StoppedRowsAre DEF Interrupt, Alive
    <2> QED BY <1>30, <2>1, <2>2, SlotsKept DEF Interrupt, Alive
  <1>31. CASE Kill
    BY <1>31, SlotsKept DEF Kill, Alive
  <1>32. CASE TimePasses
    BY <1>32, SlotsKept DEF TimePasses, Alive
  <1>33. CASE UNCHANGED vars
    BY <1>33, SlotsKept DEF vars, Alive
  <1> QED
    BY <1>11, <1>12, <1>13, <1>14, <1>15, <1>16, <1>17, <1>18, <1>19,
       <1>20, <1>21, <1>22, <1>23, <1>24, <1>25, <1>26, <1>27, <1>28,
       <1>29, <1>30, <1>31, <1>32, <1>33
       DEF Next, Controller, Worker

LEMMA StartedStep == MatrixInv /\ [Next]_vars => StartedIsNotUnstarted'
  <1> SUFFICES ASSUME MatrixInv, [Next]_vars PROVE StartedIsNotUnstarted'
    OBVIOUS
  <1>1. /\ TypesInv /\ PlaceInv /\ WorkerInv /\ FoundInv /\ SlotsInv
        /\ StartedIsNotUnstarted /\ MatrixInv
    BY DEF MatrixInv
  <1> USE <1>1
  <1>11. CASE WorkerStarts
    BY <1>11, StartedKept, WorkerMoves DEF WorkerStarts, Fields, TypesInv
  <1>12. CASE FailAt
    BY <1>12, StartedKept, WorkerMoves DEF FailAt, Fields
  <1>13. CASE Sink
    BY <1>13, StartedKept, WorkerMoves, SinkRows DEF Sink, Fields
  <1>14. CASE InvokeEnds
    BY <1>14, StartedKept, WorkerMoves DEF InvokeEnds, Fields
  <1>15. CASE WorkerExits
    BY <1>15, StartedKept, WorkerMoves DEF WorkerExits, Fields
  <1>16. CASE WorkerResumes
    BY <1>16, StartedKept, WorkerMoves DEF WorkerResumes, Fields
  <1>17. CASE WorkerDies
    BY <1>17, StartedKept, WorkerMoves, CutOff DEF WorkerDies, Fields
  <1>18. CASE Start
    BY <1>18, StartedKept, WorkerMoves DEF Start, Fields, Running
  <1>19. CASE Own
    BY <1>19, StartedKept, WorkerMoves DEF Own, Fields
  <1>20. CASE Read
    BY <1>20, StartedKept, WorkerMoves DEF Read, Fields
  <1>21. CASE ReadFails
    BY <1>21, StartedKept, WorkerMoves DEF ReadFails, Fields
  <1>22. CASE Wait
    BY <1>22, StartedKept, StoppedIs DEF Wait, Running
  <1>23. CASE WaitFails
    BY <1>23, StartedKept, WorkerMoves DEF WaitFails, Fields
  <1>24. CASE Cleanup
    BY <1>24, StartedKept, StoppedIs, StoppedRowsAre DEF Cleanup, Running
  <1>25. CASE Inspect
    BY <1>25, StartedKept, WorkerMoves DEF Inspect, Fields
  <1>26. CASE Reserve
    <2>1. n \in DOMAIN plan
      BY <1>26, PlanFacts DEF Reserve, TypesInv
    <2>2. /\ saved'.slots[n] = Reserved
          /\ \A k \in DOMAIN plan : k # n => saved'.slots[k] = slots[k]
          /\ UNCHANGED <<plan, worker, rows>>
      BY <1>26, <2>1 DEF Reserve, TypesInv, Save
    <2>3. Reserved.status # "unstarted"
      BY DEF Reserved
    <2> QED BY <2>2, <2>3 DEF StartedIsNotUnstarted, PlaceInv
  <1>27. CASE RecordSlot
    BY <1>27, StartedKept DEF RecordSlot, Save
  <1>28. CASE LoopEnds
    BY <1>28, StartedKept, WorkerMoves DEF LoopEnds, Fields
  <1>29. CASE End
    BY <1>29, StartedKept DEF End, Save
  <1>30. CASE Interrupt
    BY <1>30, StartedKept, StoppedIs, StoppedRowsAre DEF Interrupt, Running
  <1>31. CASE Kill
    BY <1>31, StartedKept, WorkerMoves DEF Kill, Fields
  <1>32. CASE TimePasses
    BY <1>32, StartedKept, WorkerMoves DEF TimePasses, Fields
  <1>33. CASE UNCHANGED vars
    BY <1>33, StartedKept DEF vars
  <1> QED
    BY <1>11, <1>12, <1>13, <1>14, <1>15, <1>16, <1>17, <1>18, <1>19,
       <1>20, <1>21, <1>22, <1>23, <1>24, <1>25, <1>26, <1>27, <1>28,
       <1>29, <1>30, <1>31, <1>32, <1>33
       DEF Next, Controller, Worker

-----------------------------------------------------------------------------
(* The theorems *)

LEMMA MatrixInit == Init => MatrixInv
  <1> SUFFICES ASSUME Init PROVE MatrixInv
    OBVIOUS
  <1> DEFINE unstarted == Unstarted
  <1>1. /\ plan \in Plans /\ plan \in Seq(Lifecycles)
        /\ Len(plan) \in Nat /\ DOMAIN plan = 1 .. Len(plan)
    BY PlansAssumption DEF Init, PlansAssumption
  <1>2. /\ pc = "next" /\ n = 1 /\ found = <<>> /\ failure = "none"
        /\ owned = FALSE /\ over = FALSE /\ line = {} /\ resume = FALSE
        /\ worker = NoWorker /\ rows = [k \in DOMAIN plan |-> {}]
        /\ slots = [k \in DOMAIN plan |-> unstarted]
        /\ saved.slots = slots /\ saved.status = "unstarted"
    BY DEF Init
  <1>3. Fields(worker, 0, "dead", "initial", 0, FALSE)
    BY <1>2, NewWorker
  <1>4. unstarted.status = "unstarted" /\ unstarted.found = <<>>
    <2> DEFINE u == [Reserved EXCEPT !.status = "unstarted"]
    <2>1. u.status = "unstarted" /\ u.found = <<>>
      BY DEF Reserved
    <2>2. unstarted = [u EXCEPT !.error = FALSE]
      BY Zenon DEF Unstarted
    <2>3. u.status = [u EXCEPT !.error = FALSE].status
          /\ u.found = [u EXCEPT !.error = FALSE].found
      BY DEF Reserved
    <2> HIDE DEF u, unstarted
    <2> QED BY <2>1, <2>2, <2>3
  <1>5. \A c : Consistent(unstarted, c)
    BY PlaceholdersAreConsistent
  <1> HIDE DEF unstarted
  <1>6. TypesInv
    <2>1. <<>> \in Seq(Observation) /\ {} \in SUBSET RecordType
      OBVIOUS
    <2>2. rows \in [DOMAIN plan -> Sizes]
      BY <1>2, SizesFacts
    <2>3. n \in 1 .. Len(plan) + 1 /\ DOMAIN slots = DOMAIN plan
      BY <1>1, <1>2
    <2>4. /\ pc \in Running \cup {"next", "record", "end", "halted", "ended",
                              "gone"}
          /\ failure \in {"none", "error", "interrupt"}
      BY <1>2
    <2>5. worker \in WorkerType
      BY <1>3 DEF Fields
    <2>6. /\ plan \in Plans /\ DOMAIN saved.slots = DOMAIN plan
          /\ owned \in BOOLEAN /\ over \in BOOLEAN /\ resume \in BOOLEAN
          /\ found \in Seq(Observation) /\ line \in SUBSET RecordType
      BY <1>1, <1>2, <2>1, <2>3
    <2> QED BY <2>2, <2>3, <2>4, <2>5, <2>6 DEF TypesInv
  <1>7. PlaceInv
    BY <1>1, <1>2, <1>4 DEF PlaceInv, Running
  <1>8. WorkerInv
    BY <1>2, <1>3 DEF WorkerInv, Fields, Alive, Attached
  <1>9. FoundInv
    BY <1>2 DEF FoundInv, InOrder, Separate, Attached
  <1>10. SlotsInv
    BY <1>1, <1>2, <1>4, <1>5 DEF SlotsInv, Good, Separate
  <1>11. StartedIsNotUnstarted
    BY <1>1, <1>2, <1>3 DEF StartedIsNotUnstarted, Fields
  <1> QED BY <1>6, <1>7, <1>8, <1>9, <1>10, <1>11 DEF MatrixInv

\* The inductive invariant, for every matrix, whatever the framework does and
\* wherever Ctrl-C, SIGKILL, a deadline or the worker's alarm cuts in.
THEOREM MatrixInvariant == Spec => []MatrixInv
  <1>1. Init => MatrixInv
    BY MatrixInit
  <1>2. MatrixInv /\ [Next]_vars => MatrixInv'
    BY TypesStep, PlaceStep, WorkerStep, FoundStep, SlotsStep, StartedStep
       DEF MatrixInv
  <1> QED BY <1>1, <1>2, PTL DEF Spec

\* A reader finds one count in a store it can read, and none in the others.
LEMMA SizeCardinality == \A s \in Sizes : Cardinality(s) <= 1
  <1> SUFFICES ASSUME NEW s \in Sizes PROVE Cardinality(s) <= 1
    OBVIOUS
  <1>1. s = {} \/ \E k \in Nat : s = {k}
    BY DEF Sizes
  <1>2. s = {} => Cardinality(s) = 0
    BY FS_EmptySet
  <1>3. (\E k \in Nat : s = {k}) => Cardinality(s) = 1
    BY FS_Singleton
  <1>4. Cardinality(s) = 0 \/ Cardinality(s) = 1
    BY <1>1, <1>2, <1>3, Zenon
  <1> QED BY <1>4

\* comparison.json can be read back at any moment, and calls no lifecycle
\* unstarted that a worker was started for (Slot.consistent, run, run_slot).
THEOREM ManifestIsSound == Spec => []MatrixIsSound
  <1>1. MatrixInv => MatrixIsSound
    <2> SUFFICES ASSUME MatrixInv PROVE MatrixIsSound
      OBVIOUS
    <2>1. TypesInv /\ PlaceInv /\ WorkerInv /\ FoundInv /\ SlotsInv
      BY DEF MatrixInv
    <2>2. \A s \in Sizes : Cardinality(s) <= 1
      BY SizeCardinality
    <2>3. \A k \in DOMAIN plan : Cardinality(rows[k]) <= 1
      BY <2>1, <2>2 DEF TypesInv
    <2>4. TypeOK
      BY <2>1, <2>3, WorkerParts, PlanFacts DEF TypesInv, TypeOK, WorkerInv,
          FoundInv,
          InOrder, Running, Places
    <2>5. ManifestAccepted
      BY <2>1 DEF ManifestAccepted, SlotsInv, Good, PlaceInv
    <2> QED BY <2>4, <2>5 DEF MatrixIsSound, MatrixInv
  <1> QED BY <1>1, MatrixInvariant, PTL

\* What the matrix reports of a framework is so: the rows between the two
\* invocations are the first one's, the last count is final, and a reproduced
\* symptom is an effect that is missing for good (classify, run_slot).
THEOREM FindingsAreTrue == Spec => []FindingsAreReal
  <1>1. MatrixInv => FindingsAreReal
    <2> SUFFICES ASSUME MatrixInv PROVE FindingsAreReal
      OBVIOUS
    <2>1. \A k \in DOMAIN plan : Good(saved.slots[k], k)
      BY DEF MatrixInv, SlotsInv
    <2>2. PhasesAreSeparated /\ FinalIsFinal
      BY <2>1 DEF PhasesAreSeparated, FinalIsFinal, Good, Separate
    <2>3. ReproducedIsReal
      <3> SUFFICES ASSUME NEW k \in DOMAIN plan,
                          saved.slots[k].symptom = "reproduced"
                   PROVE  /\ rows[k] = {0} /\ ~(worker.slot = k /\ Alive)
                          /\ plan[k].condition = "router-failure"
                          /\ ~saved.slots[k].found[2].record.error
        BY DEF ReproducedIsReal
      <3> DEFINE s == saved.slots[k]
      <3>1. classify(plan[k].condition, s.status, s.found, s.final) = "reproduced"
        BY <2>1 DEF Good, Consistent
      <3>2. /\ s.status = "completed" /\ s.final = {0}
            /\ plan[k].condition = "router-failure"
            /\ ~s.found[2].record.error
        BY <3>1 DEF classify
      <3> QED BY <3>2, <2>2 DEF FinalIsFinal
    <2> QED BY <2>2, <2>3 DEF FindingsAreReal
  <1> QED BY <1>1, MatrixInvariant, PTL
=============================================================================
