----------------------------- MODULE TaskStore -----------------------------
(***************************************************************************)
(* The SQLite task database of one experiment (tasks.py).                  *)
(*                                                                         *)
(* A transaction is one step: SQLite's atomic commit is the library's      *)
(* promise, what may go wrong around it is not.  A writer killed inside a  *)
(* transaction leaves its rollback journal behind ("hot"): the next        *)
(* read-write connection rolls it back, a read-only one cannot open the    *)
(* database at all.                                                        *)
(***************************************************************************)
EXTENDS Naturals

CONSTANT Titles

VARIABLES
    tasks,             \* rows of table tasks
    task_operations,   \* rows of the idempotency ledger
    hot,               \* a dead writer's rollback journal is lying around
    fresh              \* the next identifier uuid4() returns

store == <<tasks, task_operations, hot, fresh>>

Task == [id : Nat, title : Titles]
LedgerRow == [operation_id : Nat, title : Titles, task_id : Nat]

StoreType ==
    /\ tasks \in SUBSET Task
    /\ task_operations \in SUBSET LedgerRow
    /\ hot \in BOOLEAN
    /\ fresh \in Nat \ {0}

\* TaskStore.__init__: an empty table.
StoreInit ==
    /\ tasks = {}
    /\ task_operations = {}
    /\ hot = FALSE
    /\ fresh = 1

\* The ledger rows of one operation (the PRIMARY KEY makes them at most one).
Recorded(op) == {row \in task_operations : row.operation_id = op}

\* What create_task_idempotent answers: a conflict when the operation is
\* recorded with another title, otherwise the original or the new task.
Receipt(title, op) ==
    IF \E row \in Recorded(op) : row.title # title
    THEN [code |-> "operation_conflict", task |-> 0, replayed |-> FALSE]
    ELSE [code     |-> "ok",
          task     |-> IF Recorded(op) = {} THEN fresh
                       ELSE (CHOOSE row \in Recorded(op) : TRUE).task_id,
          replayed |-> Recorded(op) # {}]

\* The body of create_task_idempotent between BEGIN IMMEDIATE and COMMIT: the
\* effect and its ledger row become visible together, or nothing changes.
CreateTaskIdempotent(title, op) ==
    /\ tasks' = IF Recorded(op) = {}
                THEN tasks \cup {[id |-> fresh, title |-> title]}
                ELSE tasks
    /\ task_operations' =
           IF Recorded(op) = {}
           THEN task_operations
                    \cup {[operation_id |-> op, title |-> title,
                           task_id |-> fresh]}
           ELSE task_operations
    /\ fresh' = IF Recorded(op) = {} THEN fresh + 1 ELSE fresh
    /\ hot' = FALSE

\* get_task: the row's identifier, or 0 for "not found".
GetTask(id) == IF \E row \in tasks : row.id = id THEN id ELSE 0

\* recover_task_database, and every other read-write connection.
RecoverTaskDatabase ==
    /\ hot' = FALSE
    /\ UNCHANGED <<tasks, task_operations, fresh>>
=============================================================================
