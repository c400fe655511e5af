------------------------- MODULE MCAutomationSchedule -------------------------
(* AutomationSchedule on small instances: the settings that edits choose    *)
(* from in each run.                                                        *)
EXTENDS AutomationSchedule

CONSTANTS a1, a2

Ranks == a1 :> 1 @@ a2 :> 2

Every(n) == [type |-> "interval", at |-> {}, every |-> n]
Once(t) == [type |-> "once", at |-> {t}, every |-> 1]
Cron(S) == [type |-> "cron", at |-> S, every |-> 1]

\* A day can have fewer runs than an automation can.
Small == [total |-> 2, daily |-> 1]

To(trigger, overlap, misfire) ==
  [trigger |-> trigger, overlap |-> overlap, misfire |-> misfire, budget |-> Small]

\* Occurrences at every time, kept when they were missed; an edit of the cron
\* expression brings its cursor back to the present.
CatchingUp ==
  {To(Every(1), "skip", "catch_up"), To(Cron({1, 2, 3, 4, 5}), "allow", "catch_up")}

\* Automations whose search for the next run fails beside some that are fine.
Rare ==
  {To(Every(2), "allow", "latest"), To(Cron({1}), "skip", "latest"),
   To(Once(1), "skip", "skip")}
=============================================================================
