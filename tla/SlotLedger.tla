----------------------------- MODULE SlotLedger -----------------------------
(***************************************************************************)
(* What a study promises of its slots, without processes, files, sessions  *)
(* or crashes: slots are started once each and in order, while budget is   *)
(* left, one at a time; work is done and evidence sealed only on the slot  *)
(* that is started; a slot is settled when no work is going on and for     *)
(* good, as kept if it was sealed and as lost otherwise; charges only add  *)
(* up.  Study implements it.                                               *)
(***************************************************************************)
EXTENDS Naturals

CONSTANT Budget

VARIABLES
    limit,     \* number of slots; never changes
    ledger,    \* "open", "started", "kept" or "lost", per slot
    working,   \* the slot that is being worked on, or 0
    sealed,    \* slots with evidence
    charged    \* time on the books

slotLedger == <<limit, ledger, working, sealed, charged>>

LedgerInit ==
    /\ ledger = [i \in 1 .. limit |-> "open"]
    /\ working = 0
    /\ sealed = {}
    /\ charged = 0

Begin(i) ==
    /\ charged < Budget
    /\ ledger[i] = "open"
    /\ \A j \in 1 .. limit :
          /\ ledger[j] # "started"
          /\ j < i => ledger[j] # "open"
    /\ ledger' = [ledger EXCEPT ![i] = "started"]
    /\ UNCHANGED <<limit, working, sealed, charged>>

Work(i) ==
    /\ ledger[i] = "started"
    /\ working \in {0, i}
    /\ working' \in {0, i}
    /\ sealed' \in {sealed, IF working = i THEN sealed \cup {i} ELSE sealed}
    /\ UNCHANGED <<limit, ledger, charged>>

Close(i) ==
    /\ ledger[i] = "started"
    /\ working = 0
    /\ ledger' = [ledger EXCEPT ![i] = IF i \in sealed THEN "kept" ELSE "lost"]
    /\ charged' >= charged
    /\ UNCHANGED <<limit, working, sealed>>

LedgerNext == \E i \in 1 .. limit : Begin(i) \/ Work(i) \/ Close(i)

LedgerSpec == LedgerInit /\ [][LedgerNext]_slotLedger
=============================================================================
