------------------------------ MODULE TaskLedger ------------------------------
(***************************************************************************)
(* What the background pipelines promise about every task (one pipeline of *)
(* one document), with nothing said of rows, queues, workers or handlers:  *)
(* a status that waits is somebody's debt, a result is given only by one   *)
(* who owes it, and a debt that is dropped unpaid is recorded as lost.     *)
(***************************************************************************)
CONSTANT TaskIds

VARIABLES
    status,     \* what the task's row says of it, "none" if nothing
    owed,       \* tasks that a handler, a message or a worker still owes
    lost        \* tasks dropped before they were answered, at any time

ledger == <<status, owed, lost>>

Statuses == {"none", "pending", "done", "failed"}

TypeOK ==
    /\ status \in [TaskIds -> Statuses]
    /\ owed \subseteq TaskIds
    /\ lost \subseteq TaskIds

Init ==
    /\ status \in [TaskIds -> Statuses \ {"pending"}]
    /\ owed = {}
    /\ lost = {}

\* Somebody takes the task on.  The row says so; or it says what another one
\* wrote since it was loaded; or nobody waits for this task (base64 of a file
\* on the local disk, which is "pending" by default).
Ask(k) ==
    /\ k \in owed'
    /\ status'[k] \in {status[k], "pending", "none"}
    /\ k \in lost' <=> k \in lost

\* One who owes the task writes its result; others may owe it still.
Answer(k) ==
    /\ k \in owed
    /\ status'[k] \in {"done", "failed"}
    /\ k \in lost' <=> k \in lost

\* The row is deleted, or uploaded again without the task.
Withdraw(k) ==
    /\ status'[k] = "none"
    /\ k \in owed' <=> k \in owed
    /\ k \in lost' <=> k \in lost

\* The last one who owes a task finds that nobody waits for it.
Skip(k) ==
    /\ k \in owed /\ k \notin owed'
    /\ status[k] # "pending" /\ status'[k] = status[k]
    /\ k \in lost' <=> k \in lost

\* One who owes the task drops it.
Lose(k) ==
    /\ k \in owed
    /\ k \in lost'
    /\ status'[k] = status[k]

Stays(k) ==
    /\ status'[k] = status[k]
    /\ k \in owed' <=> k \in owed
    /\ k \in lost' <=> k \in lost

\* One commit may concern both tasks of a document.
Next ==
    /\ TypeOK'
    /\ \A k \in TaskIds :
         Ask(k) \/ Answer(k) \/ Withdraw(k) \/ Skip(k) \/ Lose(k) \/ Stays(k)

Spec == Init /\ [][Next]_ledger

\* Nobody waits for a task that no one owes and no record says was lost.
NothingForgotten ==
    \A k \in TaskIds : status[k] = "pending" /\ k \notin lost => k \in owed
=============================================================================
