---------------------------- MODULE AutomationStatus ----------------------------
(***************************************************************************)
(* What the schedule of an automation and the execution of one occurrence  *)
(* share: the statuses of an execution and the moves between them.         *)
(* AutomationSchedule assumes that executions move this way;               *)
(* AutomationExecution is checked to move no other way.                    *)
(***************************************************************************)

Active == {"pending", "running", "waiting"}
Terminal == {"completed", "dead_letter", "skipped", "budget_limited", "cancelled"}

\* To the schedule a waiting execution is a running one, and a cancelled one
\* is as dead as a dead letter: overlap, budgets and retries treat them alike.
Seen(st) ==
  CASE st = "waiting" -> "running"
    [] st = "cancelled" -> "dead_letter"
    [] OTHER -> st

SeenStatus == {Seen(st) : st \in Active \cup Terminal}
SeenActive == {Seen(st) : st \in Active}

\* What an operator may retry.
Retriable == {"dead_letter", "budget_limited"}

Moves ==
  {<<"pending", st>> : st \in {"running", "dead_letter"}}
    \cup {<<"running", st>> : st \in {"pending", "completed", "dead_letter"}}
    \cup {<<st, "pending">> : st \in Retriable}
=============================================================================
