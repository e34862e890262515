---------------------------- MODULE Permissions ----------------------------
(***************************************************************************)
(* The authorization and task database of one boundary run                 *)
(* (permissions.py).  A transaction (BEGIN IMMEDIATE .. COMMIT) is one     *)
(* step: SQLite's atomic commit is the library's promise.                  *)
(*                                                                         *)
(* A receipt (task_operations) and its effect (boundary_effects) are       *)
(* inserted and read together, under the same key, so they are one row     *)
(* here.  Only this run's rows exist, so run_id is left out.               *)
(***************************************************************************)
EXTENDS Naturals, FiniteSets

CONSTANTS
    Titles,     \* the titles a task may be given
    OpIds       \* the operation ids of a run

VARIABLES
    authority,  \* the row of boundary_authority, with request_policy's
    proposals,  \* operation id -> its row in proposals
    tasks,      \* rows of tasks
    effects,    \* operation id -> its receipt and effect
    fresh,      \* the next identifier uuid4() returns
    now         \* time.time()

permissions == <<authority, proposals, tasks, effects, fresh>>

\* write_allowed is "unset" while there is no request_policy table.
Authority == [expected_title : Titles, write_allowed : {"unset", "yes", "no"},
              request_revision : Nat, policy_revision : Nat]
Proposal == [title : Titles, request_revision : Nat, policy_revision : Nat,
             decision : {"pending", "approved", "rejected"},
             granted_at : Nat, expires_at : Nat, consumed_task_id : Nat]
Effect == [task_id : Nat, title : Titles, admitted_at : Nat,
           request_revision : Nat, policy_revision : Nat]

PermissionsType ==
    /\ authority \in Authority
    /\ DOMAIN proposals \subseteq OpIds
    /\ \A op \in DOMAIN proposals : proposals[op] \in Proposal
    /\ \A row \in tasks : row.id \in Nat
    /\ DOMAIN effects \subseteq DOMAIN proposals
    /\ \A op \in DOMAIN effects : effects[op] \in Effect
    /\ fresh \in Nat
    /\ now \in Nat

\* PermissionStore.create, then configure_request (M12, M13) with a revision
\* and the task prepare() seeds.
PermissionsInit(expected, allowed, revision, seeded) ==
    /\ authority = [expected_title |-> expected, write_allowed |-> allowed,
                    request_revision |-> revision, policy_revision |-> revision]
    /\ proposals = << >>
    /\ tasks = seeded
    /\ effects = << >>
    /\ fresh = 2
    /\ now = 0

\* f with one more row, or another value in an existing one.
With(f, op, row) ==
    [o \in DOMAIN f \cup {op} |-> IF o = op THEN row ELSE f[o]]

\* propose would raise "Operation proposal is immutable".
ProposalRefused(op, title) ==
    op \in DOMAIN proposals /\ proposals[op].title # title

Propose(op, title) ==
    /\ ~ProposalRefused(op, title)
    /\ proposals' =
           IF op \in DOMAIN proposals THEN proposals
           ELSE With(proposals, op,
                     [title |-> title,
                      request_revision |-> authority.request_revision,
                      policy_revision |-> authority.policy_revision,
                      decision |-> "pending", granted_at |-> 0,
                      expires_at |-> 0, consumed_task_id |-> 0])
    /\ UNCHANGED <<authority, tasks, effects, fresh>>

Pending(op) == proposals[op].decision = "pending"

\* Mutant: a decision may be replaced.
DecideAgain(op, approve, ttl) ==
    /\ proposals' =
           [proposals EXCEPT
              ![op].decision = IF approve THEN "approved" ELSE "rejected",
              ![op].granted_at = IF approve THEN now ELSE 0,
              ![op].expires_at = IF approve THEN now + ttl ELSE 0]
    /\ UNCHANGED <<authority, tasks, effects, fresh>>

\* decide: once, and for an interval that starts now.
Decide(op, approve, ttl) ==
    /\ Pending(op)
    /\ proposals' =
           [proposals EXCEPT
              ![op].decision = IF approve THEN "approved" ELSE "rejected",
              ![op].granted_at = IF approve THEN now ELSE 0,
              ![op].expires_at = IF approve THEN now + ttl ELSE 0]
    /\ UNCHANGED <<authority, tasks, effects, fresh>>

ChangeRevision ==
    /\ authority' = [authority EXCEPT !.policy_revision = @ + 1]
    /\ UNCHANGED <<proposals, tasks, effects, fresh>>

\* scenario_grant(stale=True): the proposal is dated back to revision 1.
DateBack(op) ==
    /\ proposals' = [proposals EXCEPT ![op].request_revision = 1,
                                      ![op].policy_revision = 1]
    /\ UNCHANGED <<authority, tasks, effects, fresh>>

\* The approval is exactly this write's, current, in its interval and unused.
Granted(op, title) ==
    LET p == proposals[op]
    IN  /\ p.title = title
        /\ p.request_revision = authority.request_revision
        /\ p.policy_revision = authority.policy_revision
        /\ p.decision = "approved"
        /\ p.granted_at <= now /\ now < p.expires_at
        /\ p.consumed_task_id = 0

\* The current request, where there is one, wants this task and lacks it.
InScope(title) ==
    authority.write_allowed # "unset" =>
        /\ authority.write_allowed = "yes"
        /\ title = authority.expected_title
        /\ \A row \in tasks : row.title # title

\* Mutant: the approval of any operation will do.
AuthorizedByAny(op, title) ==
    (\E o \in DOMAIN proposals : Granted(o, title)) /\ InScope(title)

\* Mutant: the validity interval and the revisions are not looked at again.
AuthorizedOnce(op, title) ==
    /\ proposals[op].title = title
    /\ proposals[op].decision = "approved"
    /\ proposals[op].consumed_task_id = 0
    /\ InScope(title)

Authorized(op, title) == Granted(op, title) /\ InScope(title)

\* write would raise "Committed operation arguments cannot change", or
\* "Unknown approval proposal".
WriteRefused(op, title) ==
    IF op \in DOMAIN effects THEN effects[op].title # title
                             ELSE op \notin DOMAIN proposals

Insert(op, title) ==
    /\ tasks' = tasks \cup {[id |-> fresh, title |-> title]}
    /\ effects' = With(effects, op,
                       [task_id |-> fresh, title |-> title, admitted_at |-> now,
                        request_revision |-> authority.request_revision,
                        policy_revision |-> authority.policy_revision])
    /\ fresh' = fresh + 1
    /\ proposals' = IF Authorized(op, title)
                    THEN [proposals EXCEPT ![op].consumed_task_id = fresh]
                    ELSE proposals
    /\ UNCHANGED authority

\* Mutant: the receipt is only consulted while the approval lasts.
WriteUntilExpiry(op, title, enforce) ==
    IF \/ op \in DOMAIN effects /\ now < proposals[op].expires_at
       \/ enforce /\ ~Authorized(op, title)
    THEN UNCHANGED permissions
    ELSE Insert(op, title)

\* write: a committed receipt is authoritative, whatever became of its grant.
Write(op, title, enforce) ==
    /\ ~WriteRefused(op, title)
    /\ IF op \in DOMAIN effects \/ (enforce /\ ~Authorized(op, title))
       THEN UNCHANGED permissions
       ELSE Insert(op, title)

\* The task of the WriteDecision, 0 when the write was denied.
WrittenTask(op, title, enforce) ==
    IF op \in DOMAIN effects THEN effects[op].task_id
    ELSE IF enforce /\ ~Authorized(op, title) THEN 0 ELSE fresh
=============================================================================
