---------------------------- MODULE Compensation ----------------------------
(***************************************************************************)
(* common/util/compensating_transaction.py: the list of undo calls a       *)
(* request collects while it changes OpenStack.  compensating_transaction  *)
(* runs them, the latest first, when an exception leaves the request, and  *)
(* swallows what they raise.  The iterator of rollback is created when the *)
(* rollback starts, so that it never sees a task added afterwards.         *)
(***************************************************************************)
EXTENDS Naturals, Sequences

AddTask(tasks, task) == Append(tasks, task)

\* Adds the same task `n` times.
AddTasks(tasks, task, n) == tasks \o [i \in 1..n |-> task]

LatestTask(tasks) == tasks[Len(tasks)]

WithoutLatest(tasks) == SubSeq(tasks, 1, Len(tasks) - 1)
=============================================================================
