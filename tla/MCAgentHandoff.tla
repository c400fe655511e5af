---------------------------- MODULE MCAgentHandoff ----------------------------
(* AgentHandoff on small instances: all handoffs belong to one task.         *)
EXTENDS AgentHandoff

OneTask == [h \in Handoffs |-> "t1"]
=============================================================================
