--------------------------- MODULE ExecutionPromise ---------------------------
(***************************************************************************)
(* What a durable workflow execution promises to whoever reads its         *)
(* snapshot: it goes from one wait to the next, registers each of them     *)
(* once and in their order, and ends at most once.                         *)
(***************************************************************************)
EXTENDS Naturals

CONSTANT MaxWaits

VARIABLES at, end
vars == <<at, end>>

Init == at = 0 /\ end = "open"

\* The next wait is registered; what came before it will not be run again from
\* an earlier one.
Advance ==
  /\ end = "open" /\ at < MaxWaits
  /\ at' = at + 1 /\ UNCHANGED end

End ==
  /\ end = "open"
  /\ end' \in {"completed", "failed", "cancelled"} /\ UNCHANGED at

Spec == Init /\ [][Advance \/ End]_vars
=============================================================================
