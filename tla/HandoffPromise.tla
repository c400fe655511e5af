---------------------------- MODULE HandoffPromise ----------------------------
(***************************************************************************)
(* What the file of agent tasks promises about decisions, whatever happens *)
(* to the processes and the memory of the backend: a task is decided once, *)
(* a completed or cancelled one for good; a failed one opens again only    *)
(* with a handoff that can still be executed; a handoff that has ended     *)
(* does not change but by a requeue, which opens its task as well.         *)
(***************************************************************************)
CONSTANTS Tasks, Handoffs, TaskOf

VARIABLES task, handoff

TaskStates == {"none", "open", "completed", "failed", "cancelled"}
HandoffStates == {"none", "open", "completed", "rejected", "dead_letter"}

Init ==
  /\ task = [t \in Tasks |-> "none"]
  /\ handoff = [h \in Handoffs |-> "none"]

Requeued(h) == handoff[h] = "dead_letter" /\ handoff'[h] = "open"

\* What a write may do to a task ...
TaskMoves(t) ==
  \/ task'[t] = task[t]
  \/ task[t] = "none"
  \/ /\ task[t] = "open" /\ task'[t] # "none"
     /\ task'[t] = "completed" =>
          \E h \in Handoffs : TaskOf[h] = t /\ handoff'[h] = "completed"
  \/ /\ task[t] = "failed" /\ task'[t] = "open"
     /\ \E h \in Handoffs :
          TaskOf[h] = t /\ handoff[h] \in {"open", "dead_letter"} /\ handoff'[h] = "open"

\* ... and to a handoff.
HandoffMoves(h) ==
  \/ handoff'[h] = handoff[h]
  \/ handoff[h] = "none"
  \/ handoff[h] = "open" /\ handoff'[h] # "none"
  \/ Requeued(h) /\ task[TaskOf[h]] \in {"open", "failed"} /\ task'[TaskOf[h]] = "open"

Next ==
  /\ task' \in [Tasks -> TaskStates] /\ handoff' \in [Handoffs -> HandoffStates]
  /\ \A t \in Tasks : TaskMoves(t)
  /\ \A h \in Handoffs : HandoffMoves(h)

Spec == Init /\ [][Next]_<<task, handoff>>
=============================================================================
