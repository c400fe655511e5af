-------------------------- MODULE AutomationPromise --------------------------
(***************************************************************************)
(* What the automation runtime promises about each occurrence, whatever    *)
(* crashes, fails or is cancelled: the target is called at most once until *)
(* the outcome of that call is on disk; an occurrence is opened again only *)
(* when no call is in doubt; one that completed stays completed.           *)
(***************************************************************************)
EXTENDS Integers

CONSTANTS Execs, Calls

VARIABLES
  state,    \* what is on disk of each occurrence
  doubt     \* the calls of its target whose outcome is not on disk

States == {"none", "live", "parked", "completed", "closed"}

Init ==
  /\ state = [e \in Execs |-> "none"]
  /\ doubt = [e \in Execs |-> {}]

Same(e) == state'[e] = state[e] /\ doubt'[e] = doubt[e]

\* The occurrence is created, or is refused by its policies.
Make(e) ==
  /\ state[e] = "none"
  /\ state'[e] \in {"live", "closed"}
  /\ doubt'[e] = doubt[e]

Call(e) ==
  /\ state[e] = "live"
  /\ doubt[e] = {}
  /\ \E k \in Calls : doubt'[e] = {k}
  /\ state'[e] = "live"

\* The outcome of the only call in doubt is recorded.
Settle(e) ==
  /\ state[e] = "live"
  /\ \E k \in Calls : doubt[e] = {k}
  /\ doubt'[e] = {}
  /\ state'[e] \in {"parked", "completed", "closed"}

\* A failed, cancelled or expired occurrence; its call may stay in doubt.
Abandon(e) ==
  /\ state[e] \in {"live", "parked"}
  /\ state'[e] = "closed"
  /\ doubt'[e] = doubt[e]

\* The wait of a parked occurrence has an answer.
Answer(e) ==
  /\ state[e] = "parked"
  /\ state'[e] = "completed"
  /\ doubt'[e] = doubt[e]

Reopen(e) ==
  /\ state[e] = "closed"
  /\ doubt[e] = {}
  /\ state'[e] = "live"
  /\ doubt'[e] = doubt[e]

Step(e) ==
  \/ Same(e) \/ Make(e) \/ Call(e) \/ Settle(e) \/ Abandon(e) \/ Answer(e) \/ Reopen(e)

Next == \A e \in Execs : Step(e)

Spec == Init /\ [][Next]_<<state, doubt>>

=============================================================================
