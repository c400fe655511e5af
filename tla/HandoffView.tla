------------------------------ MODULE HandoffView ------------------------------
(***************************************************************************)
(* What a handoff and its task look like to those who depend on them, when *)
(* the task has no other handoff, and how that changes without their       *)
(* doing.  Goals and WorkflowExecution assume that handoffs move this way; *)
(* AgentHandoff is checked and proved to move no other way.                *)
(***************************************************************************)

(* The coordinator of goals reads the status of the handoff.  Task has no   *)
(* handoff yet; retry_wait is as busy as accepted, "failed" is dead_letter   *)
(* or rejected.                                                              *)
OpenWork == {"task", "pending", "busy", "waiting", "attention"}
WorkStatus == {"absent", "completed", "failed", "cancelled"} \cup OpenWork

\* What the executor, children, approvals and operators make of it.
WorkMoves(st) ==
  CASE st = "task" -> {"cancelled"}
    [] st = "pending" -> {"busy", "failed", "cancelled"}
    [] st = "busy" -> {"waiting", "completed", "failed", "cancelled"}
    [] st = "waiting" -> {"attention", "busy", "completed", "cancelled"}
    [] st = "attention" -> {"waiting", "busy", "completed", "cancelled"}
    [] OTHER -> {}
\* What an operator may requeue.
Requeueable == {"failed", "busy"}

(* A workflow that waits for a handoff asks whether the handoff has ended,   *)
(* a cancellation whether the task is decided.  "closed" is a handoff that   *)
(* has ended while its task is open: the second half of an operator's        *)
(* request is yet to come, or has failed.                                    *)
WaitStatus == {"none", "open", "closed", "completed", "failed", "cancelled"}
WaitMoves(st) ==
  CASE st = "open" -> {"closed", "completed", "failed", "cancelled"}
    [] st = "closed" -> {"completed", "failed", "cancelled"}
    [] OTHER -> {}
\* What an operator may open again by a requeue, and what a crash may open again:
\* the first half of a request that was made in memory only.
WaitRequeueable == {"failed"}
WaitUndone == {"closed"}
\* Only a cancelled task refuses to start a child; a child may end at any time.
ChildMayStart == {"open", "closed", "completed", "failed"}
=============================================================================
