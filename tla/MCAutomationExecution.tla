------------------------ MODULE MCAutomationExecution ------------------------
(* AutomationExecution on small instances.  The executions of one instance *)
(* are interchangeable: they only meet in the snapshot and in the slots.    *)
EXTENDS AutomationExecution, TLC

Symmetry == Permutations(Execs)
=============================================================================
