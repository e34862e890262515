------------------------------ MODULE StudyPlan ------------------------------
(***************************************************************************)
(* The frozen design of a study (study_records.py) and the evidence a      *)
(* child produces for one scheduled slot (study_child.py): which slots are *)
(* scheduled, in which order, what the child of a slot runs, and what the  *)
(* inventory of the study accepts for it.  Payload hashes, digests and     *)
(* measured quantities are left out; a payload is named by its case.       *)
(***************************************************************************)
EXTENDS Naturals, Sequences

Modes == {"offline", "live"}
RuntimeCases == <<"approved", "rejected", "injection-override",
                  "memory-stale-title">>
InjectionCases ==
    <<"injection-override", "injection-override-benign",
      "injection-forged-approval", "injection-forged-approval-benign",
      "injection-concealed", "injection-concealed-benign",
      "injection-canary", "injection-canary-benign">>
Presets == {"runtime", "claims", "retries", "approvals", "injection",
            "context", "semantic-admission", "scanner"}
Semantic == {"scanner", "semantic-admission"}

CasesOf(preset) ==
    CASE preset = "runtime" -> RuntimeCases
      [] preset = "claims" -> <<"healthy", "dropped-write">>
      [] preset = "retries" -> <<"retry-healthy", "lost-reply-once">>
      [] preset = "approvals" -> <<"approved", "rejected">>
      [] preset \in {"injection", "semantic-admission"} ->
            <<"injection-override", "injection-override-benign">>
      [] preset = "context" -> <<"memory-stale-title">>
      [] preset = "scanner" -> InjectionCases

PoliciesOf(preset) ==
    CASE preset = "runtime" -> <<"native", "langgraph">>
      [] preset = "claims" -> <<"baseline", "read-back">>
      [] preset = "retries" -> <<"retry-unprotected", "retry-idempotent">>
      [] preset \in {"approvals", "injection"} -> <<"audit", "enforce">>
      [] preset = "context" -> <<"cached", "refresh">>
      [] preset \in Semantic -> <<"static", "static-plus-semantic">>

ParticipantsOf(preset) ==
    IF preset \in {"claims", "retries"} THEN <<"agent", "workflow">>
    ELSE IF preset = "scanner" THEN <<"scanner">> ELSE <<"agent">>

-----------------------------------------------------------------------------
(* schedule *)

Slot(repetition, case, policy, participant) ==
    [repetition |-> repetition, case |-> case, policy |-> policy,
     participant |-> participant]

Probes(preset) ==
    IF preset \notin Semantic THEN << >>
    ELSE <<Slot(1, "injection-override-benign", "static-plus-semantic",
                "probe"),
           Slot(1, "injection-override", "static-plus-semantic", "probe")>>

\* The policies change places in every other repetition.
Ordered(preset, repetition) ==
    LET p == PoliciesOf(preset)
    IN  IF repetition % 2 = 1 THEN p ELSE <<p[2], p[1]>>

\* The slots of one repetition, its cases in the shuffled order `blocks`:
\* for each case, for each participant, both policies.
Block(preset, repetition, blocks) ==
    LET who == ParticipantsOf(preset)
        per == 2 * Len(who)
    IN  [n \in 1 .. Len(blocks) * per |->
            Slot(repetition, blocks[((n - 1) \div per) + 1],
                 Ordered(preset, repetition)[((n - 1) % 2) + 1],
                 who[(((n - 1) % per) \div 2) + 1])]

\* One shuffled order of the cases per repetition, one block after the other;
\* the sequence number of a slot is its index.
BlockSize(preset) ==
    Len(CasesOf(preset)) * (2 * Len(ParticipantsOf(preset)))
Schedule(preset, orders) ==
    LET size == BlockSize(preset)
        round(n) == ((n - 1) \div size) + 1
    IN  Probes(preset) \o
        [n \in 1 .. Len(orders) * size |->
            Block(preset, round(n), orders[round(n)])[((n - 1) % size) + 1]]

\* rng.shuffle yields some permutation of the cases.
IsShuffle(preset, order) ==
    /\ Len(order) = Len(CasesOf(preset))
    /\ {order[i] : i \in DOMAIN order}
          = {CasesOf(preset)[i] : i \in DOMAIN CasesOf(preset)}

\* What a frozen plan is relied on for: it has the slots of its preset's
\* cells, and the probes of a semantic preset come before everything else.
Cells(preset) ==
    [repetition : Nat,
     case : {CasesOf(preset)[i] : i \in DOMAIN CasesOf(preset)},
     policy : {PoliciesOf(preset)[i] : i \in {1, 2}},
     participant : {ParticipantsOf(preset)[i] :
                       i \in DOMAIN ParticipantsOf(preset)}
                   \cup (IF preset \in Semantic THEN {"probe"} ELSE {})]
IsDesign(preset, slots) ==
    /\ slots \in Seq(Cells(preset))
    /\ \A i, j \in DOMAIN slots :
          slots[j].participant = "probe" /\ i < j
             => slots[i].participant = "probe"

\* Every case, participant and policy of the preset has one slot per
\* repetition, the two policies of a pair are next to each other, and each is
\* first in every other repetition (schedule).
Real(s) == {i \in DOMAIN s : s[i].participant # "probe"}
IsPair(s, i, j) ==
    /\ s[i].case = s[j].case
    /\ s[i].participant = s[j].participant
    /\ s[i].repetition = s[j].repetition
RunsFirst(s, i) == \E j \in Real(s) : j > i /\ IsPair(s, i, j)
IsMatched(preset, repetitions, s) ==
    /\ \A r \in 1 .. repetitions, c \in DOMAIN CasesOf(preset),
          p \in {1, 2}, w \in DOMAIN ParticipantsOf(preset) :
          \E i \in Real(s) : \A j \in Real(s) :
              s[j] = Slot(r, CasesOf(preset)[c], PoliciesOf(preset)[p],
                          ParticipantsOf(preset)[w]) <=> j = i
    /\ \A i, j \in Real(s) : IsPair(s, i, j) /\ i < j => j = i + 1
    /\ \A i, j \in Real(s) :
          /\ s[i].case = s[j].case
          /\ s[i].participant = s[j].participant
          /\ s[i].policy = s[j].policy
          /\ s[j].repetition = s[i].repetition + 1
          => (RunsFirst(s, i) <=> ~RunsFirst(s, j))

-----------------------------------------------------------------------------
(* execute: what the child of a slot runs and seals *)

LegacyFault(case) == IF case = "healthy" THEN "none" ELSE case

BoundaryConfig(case, permission, surface, context, mode) ==
    [case |-> case, permission_policy |-> permission, scan_policy |-> "enforce",
     surface |-> surface, context_policy |-> context, mode |-> mode]

RuntimeConfig(case, mode) ==
    BoundaryConfig(case, "enforce",
        IF case = "injection-override" THEN "tool" ELSE "skill",
        IF case = "memory-stale-title" THEN "refresh" ELSE "cached", mode)

\* boundary_config
ChildConfig(preset, slot, mode) ==
    BoundaryConfig(slot.case,
        IF preset \in {"approvals", "injection"} THEN slot.policy
        ELSE IF preset = "semantic-admission" THEN "audit" ELSE "enforce",
        IF preset = "injection" THEN "tool" ELSE "skill",
        IF preset = "context" THEN slot.policy ELSE "cached", mode)

\* The scanner that execute hands to the slot.
Engine(preset, slot, mode) ==
    IF preset \notin Semantic THEN "static"
    ELSE IF mode = "offline" THEN "double" ELSE slot.policy

Scan(preset, slot, mode, complete) ==
    [kind |-> "scan", engine |-> Engine(preset, slot, mode),
     input |-> slot.case, complete |-> complete]

\* The evidence the child of a slot may seal.  The study itself only looks at
\* the outcome of a scan that is the slot's own evidence.
Produced(preset, slot, mode) ==
    CASE slot.participant \in {"scanner", "probe"} ->
            {Scan(preset, slot, mode, complete) : complete \in BOOLEAN}
      [] preset = "claims" ->
            {[kind |-> "observation", variant |-> slot.policy,
              fault |-> LegacyFault(slot.case),
              asks |-> slot.participant = "agent"]}
      [] preset = "retries" ->
            {[kind |-> "retry", case |-> slot.case, policy |-> slot.policy,
              asks |-> slot.participant = "agent"]}
      [] preset = "runtime" ->
            {[kind |-> "runtime", runtime |-> slot.policy,
              config |-> RuntimeConfig(slot.case, mode)]}
      [] OTHER ->
            {[kind |-> "boundary", config |-> ChildConfig(preset, slot, mode),
              scan |-> Scan(preset, slot, mode, TRUE)]}

-----------------------------------------------------------------------------
(* Study.inventory: what the study accepts as the evidence of a slot *)

AcceptedScan(slot, mode, scan) ==
    /\ scan.input = slot.case
    /\ scan.engine = IF mode = "offline" THEN "double" ELSE slot.policy

AcceptedBoundary(preset, slot, mode, config) ==
    /\ config.case = slot.case
    /\ config.mode = mode
    /\ slot.policy = IF preset = "context" THEN config.context_policy
                     ELSE config.permission_policy
    /\ config.scan_policy = "enforce"
    /\ config.surface = IF preset = "injection" THEN "tool" ELSE "skill"

Accepted(preset, slot, mode, e) ==
    /\ CASE preset = "claims" ->
               /\ e.kind = "observation"
               /\ e.variant = slot.policy
               /\ e.fault = LegacyFault(slot.case)
         [] preset = "retries" ->
               /\ e.kind = "retry"
               /\ e.case = slot.case
               /\ e.policy = slot.policy
         [] preset = "runtime" ->
               /\ e.kind = "runtime"
               /\ e.runtime = slot.policy
               /\ e.config = RuntimeConfig(slot.case, mode)
         [] preset \in Semantic /\ slot.participant # "agent" ->
               e.kind = "scan" /\ AcceptedScan(slot, mode, e)
         [] preset \in Semantic /\ slot.participant = "agent" ->
               /\ e.kind = "boundary"
               /\ AcceptedScan(slot, mode, e.scan)
               /\ e.config.case = slot.case
               /\ e.config.mode = mode
               /\ e.config.surface = "skill"
               /\ e.config.permission_policy = "audit"
               /\ e.config.scan_policy = "enforce"
         [] OTHER -> /\ e.kind = "boundary"
                     /\ AcceptedBoundary(preset, slot, mode, e.config)
    /\ slot.participant = "workflow" => ~e.asks
=============================================================================
