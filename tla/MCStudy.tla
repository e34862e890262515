------------------------------- MODULE MCStudy -------------------------------
(* Instances of Study for TLC, and its designs checked one by one. *)
EXTENDS Study

Straight(preset) == CasesOf(preset)
Turned(preset) ==
    LET c == CasesOf(preset)
    IN  [i \in DOMAIN c |-> c[Len(c) + 1 - i]]

Design(preset, orders) == [preset |-> preset, slots |-> Schedule(preset, orders)]

\* Two repetitions of the smallest preset, and both probes and one repetition
\* of the gated one, in both orders.
MCPlans == {Design("context", <<Straight("context"), Straight("context")>>)}
           \cup {Design("semantic-admission", <<order>>) :
                    order \in {Straight("semantic-admission"),
                               Turned("semantic-admission")}}

\* Every preset, up to four repetitions, shuffled either way in each.
Orders(preset) == {Straight(preset), Turned(preset)}
MCDesigns ==
    UNION {{Design(preset, orders) :
               orders \in UNION {[1 .. r -> Orders(preset)] : r \in 1 .. 4}} :
           preset \in Presets}

\* Every design is one, and is matched.
Repetitions(d) ==
    (Len(d.slots) - Len(Probes(d.preset))) \div BlockSize(d.preset)
ASSUME DesignsAreMatched ==
    \A d \in MCDesigns : /\ IsMatched(d.preset, Repetitions(d), d.slots)
                         /\ IsDesign(d.preset, d.slots)

\* Whatever a slot's child may produce (execute, boundary_config), the study's
\* own inventory accepts it, in every preset and mode: a mismatch of the two
\* would leave a study that neither goes on nor can be resumed.
ASSUME EvidenceFitsItsCell ==
    \A d \in MCDesigns : \A i \in DOMAIN d.slots :
        \A m \in {"offline", "live"} :
            \A e \in Produced(d.preset, d.slots[i], m) :
                Accepted(d.preset, d.slots[i], m, e)
=============================================================================
