------------------------- MODULE MCWorkflowExecution -------------------------
(* WorkflowExecution on small instances: the waits of two workflows.        *)
EXTENDS WorkflowExecution, TLC

\* A wait of each kind; the workers of a timer, which may overlap, come to another
\* wait.
Mixed ==
  1 :> "approval" @@ 2 :> "agent_handoff" @@ 3 :> "timer" @@ 4 :> "approval"
OneApproval == 1 :> "approval"
=============================================================================
