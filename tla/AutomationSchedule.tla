-------------------------- MODULE AutomationSchedule --------------------------
(***************************************************************************)
(* The schedules of ModelMirror's automations: the definitions and the     *)
(* execution records of AutomationStore (automation_store.py), the edits   *)
(* an operator or an agent makes (automation_api.py,                       *)
(* automation_toolset.py), the pass that turns due times into executions   *)
(* (materialize_due), the snapshot file and the crash of the backend.      *)
(* What happens inside one execution is AutomationExecution; here it only  *)
(* moves from status to status, as AutomationStatus has them.              *)
(*                                                                         *)
(* A cron expression in its time zone is the set of the times it matches.  *)
(* The status "draft" is left out: the code treats it as "paused".         *)
(***************************************************************************)
EXTENDS Integers, Sequences, SequencesExt, AutomationStatus

CONSTANTS
  Automations,    \* automation ids
  Rank,           \* their order: materialize_due visits them sorted by id
  Settings,       \* what an edit may ask for: trigger, policies and budget
  Grace,          \* how late misfire_policy "skip" accepts an occurrence (60 s)
  Batch,          \* due times one pass looks at (100)
  CatchUp,        \* due times misfire_policy "catch_up" keeps (10)
  Horizon,        \* how far next_after searches (two years)
  DayLength,      \* times per day, for max_runs_per_day
  MaxTime,        \* bound: the last time of the clock
  MaxRevision,    \* bound: an automation is edited up to this revision
  MaxManual,      \* bound: executions "run now" makes of an automation
  MaxFaults       \* bound: crashes and failed writes

None == -1        \* no next run
Raises == -2      \* next_after raises AutomationValidationError

Trigger == [type : {"once", "interval", "cron"}, at : SUBSET Nat, every : Nat \ {0}]
Budget == [total : Nat, daily : Nat]
Setting ==
  [trigger : Trigger, overlap : {"skip", "allow"},
   misfire : {"skip", "latest", "catch_up"}, budget : Budget]

ASSUME ScheduleAssumption ==
  /\ \A a \in Automations : Rank[a] \in Int
  /\ Settings # {} /\ Settings \subseteq Setting
  /\ Grace \in Nat /\ Batch \in Nat \ {0} /\ CatchUp \in Nat \ {0} /\ Horizon \in Nat
  /\ DayLength \in Nat \ {0}
  /\ MaxTime \in Nat /\ MaxRevision \in Nat /\ MaxManual \in Nat /\ MaxFaults \in Nat

VARIABLES
  mem,     \* AutomationStore._definitions and ._executions, per automation
  disk,    \* the same in the last snapshot that was written
  now,     \* the clock
  faults   \* crashes and failed writes so far

vars == <<mem, disk, now, faults>>

Times == 0..MaxTime

\* An execution record.  "policy" and "retried" are history: the overlap
\* policy it was created under, whether an operator retried it.
Entry ==
  [at : Nat, manual : BOOLEAN, st : SeenStatus,
   policy : {"skip", "allow"}, retried : BOOLEAN]

\* A definition.  "from" is history: where the cursor "next" stood when the
\* settings last changed.
Definition ==
  [st : {"absent", "scheduled", "paused", "archived"}, set : Setting, rev : Nat,
   next : Nat \cup {None}, from : Nat \cup {None}]

Automation == [def : Definition, log : Seq(Entry)]

TypeOK ==
  /\ mem \in [Automations -> Automation]
  /\ disk \in [Automations -> Automation]
  /\ now \in Times
  /\ faults \in 0..MaxFaults

-----------------------------------------------------------------------------
(* Triggers: next_occurrence and CronSchedule.next_after.                   *)

NextOnce(tr, after) ==
  LET later == {t \in tr.at : t > after} IN IF later = {} THEN None ELSE Min(later)

NextCron(tr, after) ==
  LET found == {t \in tr.at : after < t /\ t <= after + Horizon}
  IN IF found = {} THEN Raises ELSE Min(found)

NextRun(tr, after) ==
  CASE tr.type = "once" -> NextOnce(tr, after)
    [] tr.type = "interval" -> after + tr.every
    [] tr.type = "cron" -> NextCron(tr, after)

\* The times a cursor that starts at c comes to stand at, up to the time u.
Fires(tr, c, u) ==
  {t \in c..u : \/ t = c
                \/ tr.type = "interval" /\ (t - c) % tr.every = 0
                \/ tr.type # "interval" /\ t \in tr.at}

-----------------------------------------------------------------------------
(* One automation in a pass of materialize_due at the time u.               *)

Scheduled(x) == {i \in DOMAIN x.log : ~x.log[i].manual}
Recorded(x, t) == \E i \in Scheduled(x) : x.log[i].at = t
Holding(x, S) == {i \in DOMAIN x.log : x.log[i].st \in S}

IsDue(x, u) == x.def.st = "scheduled" /\ x.def.next # None /\ x.def.next <= u

\* The due times the loop collects: the first Batch.
Due(x, u) ==
  LET fires == Fires(x.def.set.trigger, x.def.next, u)
  IN {t \in fires : Cardinality({v \in fires : v < t}) < Batch}

\* Mutant: an error of next_occurrence goes unnoticed.
NeverPoisoned(x, u) == FALSE

\* next_occurrence raises in that loop, which ends the whole pass.
Poisoned(x, u) ==
  IsDue(x, u) /\ \E t \in Due(x, u) : NextRun(x.def.set.trigger, t) = Raises

\* misfire_policy
Selected(x, u) ==
  LET due == Due(x, u)
  IN CASE x.def.set.misfire = "latest" -> {Max(due)}
       [] x.def.set.misfire = "skip" -> {t \in {Max(due)} : u - t <= Grace}
       [] x.def.set.misfire = "catch_up" ->
            {t \in due : Cardinality({v \in due : v > t}) < CatchUp}

\* Mutant: the key of an occurrence is not looked up.
FreshUnchecked(x, u) == Selected(x, u)

\* An occurrence has one key, and a key one record.
Fresh(x, u) == {t \in Selected(x, u) : ~Recorded(x, t)}

\* Mutant: the total run budget is off by one.
BudgetOverspent(x, u) ==
  Cardinality(Holding(x, {"completed", "running"})) > x.def.set.budget.total

\* _budget_error_unlocked
Day(t) == t \div DayLength
Counted == {"completed", "running"}
BudgetSpent(x, u) ==
  \/ Cardinality(Holding(x, Counted)) >= x.def.set.budget.total
  \/ Cardinality({i \in Holding(x, Counted) : Day(x.log[i].at) = Day(u)})
       >= x.def.set.budget.daily

\* Mutant: an execution that is still queued is not active.
HasRunning(x) == Holding(x, {"running"}) # {}

\* _has_active_unlocked
HasActive(x) == Holding(x, SeenActive) # {}

\* What becomes of the fresh occurrence t.  Those of one pass come in the
\* order of time, and each sees the ones before it; none is counted yet.
Decision(x, u, t) ==
  IF BudgetSpent(x, u) THEN "budget_limited"
  ELSE IF /\ x.def.set.overlap = "skip"
          /\ HasActive(x) \/ \E v \in Fresh(x, u) : v < t
       THEN "skipped" ELSE "pending"

NewEntries(x, u) ==
  LET times == SetToSeq(Fresh(x, u))
  IN [i \in 1..Len(times) |->
       [at |-> times[i], manual |-> FALSE, st |-> Decision(x, u, times[i]),
        policy |-> x.def.set.overlap, retried |-> FALSE]]

\* The cursor passes the due times; a definition whose one occurrence has
\* come is paused.
Advanced(d, cursor) ==
  IF d.set.trigger.type = "once" /\ cursor = None
  THEN [d EXCEPT !.next = None, !.st = "paused", !.rev = d.rev + 1]
  ELSE [d EXCEPT !.next = cursor]

\* Mutant: the cursor moves only when something is created.
MaterializedIfFresh(x, u) ==
  [def |-> IF Fresh(x, u) = {} THEN x.def
           ELSE Advanced(x.def, NextRun(x.def.set.trigger, Max(Due(x, u)))),
   log |-> x.log \o NewEntries(x, u)]

Materialized(x, u) ==
  [def |-> Advanced(x.def, NextRun(x.def.set.trigger, Max(Due(x, u)))),
   log |-> x.log \o NewEntries(x, u)]

-----------------------------------------------------------------------------
(* Writing the snapshot.  Every operation here but the moves of an          *)
(* execution leaves its change in memory when the write fails.              *)

Fault == faults < MaxFaults /\ faults' = faults + 1

Save(m) == mem' = m /\ disk' = m /\ UNCHANGED faults
SaveFails(m) == mem' = m /\ UNCHANGED disk /\ Fault
Write(m) == Save(m) \/ SaveFails(m)

Put(a, x) == [mem EXCEPT ![a] = x]

-----------------------------------------------------------------------------
(* Edits.                                                                   *)

DefinitionStatus == {"scheduled", "paused", "archived"}

\* The next run of a definition that is written now: the search begins one
\* second ago.
Rescheduled(set, st) == IF st = "scheduled" THEN NextRun(set.trigger, now - 1) ELSE None

\* create_definition
CreateDefinition(a) ==
  /\ mem[a].def.st = "absent"
  /\ \E set \in Settings, st \in DefinitionStatus :
       LET next == Rescheduled(set, st)
       IN /\ next # Raises
          /\ Write(Put(a, [def |-> [st |-> st, set |-> set, rev |-> 1, next |-> next,
                                    from |-> next],
                           log |-> <<>>]))
  /\ UNCHANGED now

\* update_definition and set_status, at the current revision.
UpdateDefinition(a) ==
  LET d == mem[a].def
  IN /\ d.st # "absent"
     /\ d.rev < MaxRevision
     /\ \E set \in Settings \cup {d.set}, st \in DefinitionStatus :
          LET next == Rescheduled(set, st)
          IN /\ next # Raises
             /\ Write(Put(a, [mem[a] EXCEPT
                  !.def = [st |-> st, set |-> set, rev |-> d.rev + 1, next |-> next,
                           from |-> next]]))
     /\ UNCHANGED now

\* The first k fields of a patch, in the order update_definition checks and
\* assigns them.
Patched(old, new, k) ==
  [trigger |-> IF k >= 1 THEN new.trigger ELSE old.trigger,
   overlap |-> IF k >= 2 THEN new.overlap ELSE old.overlap,
   misfire |-> IF k >= 3 THEN new.misfire ELSE old.misfire,
   budget |-> IF k >= 4 THEN new.budget ELSE old.budget]

\* update_definition raises at the field after the k-th, or at the search
\* for the next run when all fields were valid; what it assigned before
\* stays in memory, the revision and the next run as they were.
RefuseUpdate(a) ==
  LET d == mem[a].def
  IN /\ d.st # "absent"
     /\ d.rev < MaxRevision
     /\ \E set \in Settings, k \in 1..4 :
          LET kept == Patched(d.set, set, k)
          IN \/ mem' = Put(a, [mem[a] EXCEPT !.def.set = kept, !.def.from = d.next])
             \/ /\ k = 4
                /\ Rescheduled(kept, "scheduled") = Raises
                /\ mem' = Put(a, [mem[a] EXCEPT !.def.set = kept, !.def.from = d.next,
                                                !.def.st = "scheduled"])
     /\ UNCHANGED <<disk, now, faults>>

\* run_now
RunNow(a) ==
  /\ mem[a].def.st \notin {"absent", "archived"}
  /\ Cardinality(DOMAIN mem[a].log \ Scheduled(mem[a])) < MaxManual
  /\ Write(Put(a, [mem[a] EXCEPT !.log = Append(@,
       [at |-> now, manual |-> TRUE, st |-> "pending",
        policy |-> mem[a].def.set.overlap, retried |-> FALSE])]))
  /\ UNCHANGED now

-----------------------------------------------------------------------------
(* The coordinator's pass, executions, time and crashes.                    *)

\* Mutant: an error leaves the cursors moved, the executions not made.
MaterializeCursorFirst ==
  LET poison == {a \in Automations : Poisoned(mem[a], now)}
      m == [a \in Automations |->
              IF IsDue(mem[a], now) /\ a \notin poison
              THEN IF poison = {} THEN Materialized(mem[a], now)
                   ELSE [mem[a] EXCEPT !.def = Materialized(mem[a], now).def]
              ELSE mem[a]]
  IN /\ IF poison = {} THEN Write(m) ELSE mem' = m /\ UNCHANGED <<disk, faults>>
     /\ UNCHANGED now

\* materialize_due: an error at one definition leaves those before it
\* changed in memory, those after it untouched, and nothing written.
Materialize ==
  LET poison == {a \in Automations : Poisoned(mem[a], now)}
      reached == {a \in Automations : /\ IsDue(mem[a], now)
                                      /\ \A p \in poison : Rank[a] < Rank[p]}
      m == [a \in Automations |->
              IF a \in reached THEN Materialized(mem[a], now) ELSE mem[a]]
  IN /\ IF poison = {} THEN Write(m) ELSE mem' = m /\ UNCHANGED <<disk, faults>>
     /\ UNCHANGED now

\* An execution is claimed, settled, cancelled or retried; a failed write
\* undoes the move.
Move(a) ==
  /\ \E i \in DOMAIN mem[a].log, st \in SeenStatus :
       LET x == mem[a].log[i]
       IN /\ <<x.st, st>> \in Moves
          /\ Save(Put(a, [mem[a] EXCEPT !.log[i] =
               [x EXCEPT !.st = st, !.retried = x.retried \/ x.st \in Retriable]]))
  /\ UNCHANGED now

Tick ==
  /\ now < MaxTime
  /\ now' = now + 1
  /\ UNCHANGED <<mem, disk, faults>>

Crash ==
  /\ Fault
  /\ mem' = disk
  /\ UNCHANGED <<disk, now>>

Absent ==
  [def |-> [st |-> "absent", set |-> CHOOSE s \in Settings : TRUE, rev |-> 0,
            next |-> None, from |-> None],
   log |-> <<>>]

Init ==
  /\ mem = [a \in Automations |-> Absent]
  /\ disk = [a \in Automations |-> Absent]
  /\ now = 0
  /\ faults = 0

Edit ==
  \E a \in Automations :
    CreateDefinition(a) \/ UpdateDefinition(a) \/ RefuseUpdate(a) \/ RunNow(a)

Next == Edit \/ Materialize \/ (\E a \in Automations : Move(a)) \/ Tick \/ Crash

Spec == Init /\ [][Next]_vars

\* The coordinator's loop polls for ever.
FairSpec == Spec /\ WF_vars(Materialize)

-----------------------------------------------------------------------------
(* Properties.                                                              *)

\* The automations in memory and in the snapshot.
Stored == {mem[a] : a \in Automations} \cup {disk[a] : a \in Automations}

\* An occurrence, that is a due time of an automation, has one execution
\* record, in memory and in the snapshot, whatever crashes, failed writes,
\* edits that move the cursor back, and retries there were
\* (occurrence_key, materialize_due).
OccurrenceOnce ==
  \A x \in Stored :
    \A i, j \in Scheduled(x) : x.log[i].at = x.log[j].at => i = j

\* Of the executions that the schedule made under overlap_policy "skip", and
\* that no operator retried, at most one is active at a time: the policy
\* holds within a pass, across passes and across crashes
\* (_has_active_unlocked).
OneAtATime ==
  \A x \in Stored :
    \A i, j \in Scheduled(x) \cap Holding(x, SeenActive) :
      /\ x.log[i].policy = "skip" /\ ~x.log[i].retried
      /\ x.log[j].policy = "skip" /\ ~x.log[j].retried
      => i = j

\* The same executions never use more than the total run budget, when no
\* edit lowers it: the check counts only runs that have started, but under
\* "skip" nothing else is waiting to start (_budget_error_unlocked).
Used(x) ==
  {i \in Scheduled(x) \cap Holding(x, Counted \cup SeenActive) :
     x.log[i].policy = "skip" /\ ~x.log[i].retried}
TotalBudgetKept ==
  \A x \in Stored :
    x.def.st # "absent" => Cardinality(Used(x)) <= x.def.set.budget.total

\* Nothing the misfire policy keeps is lost: the last due times before the
\* cursor, as many as the policy keeps, all have their record - where the
\* cursor is, so are the records, after any crash or failed write
\* (materialize_due, _persist_unlocked).
Kept(set) == [skip |-> 0, latest |-> 1, catch_up |-> CatchUp][set.misfire]
RecentOccurrencesRecorded ==
  \A x \in Stored :
    x.def.st = "scheduled" /\ x.def.next # None /\ x.def.from # None =>
      LET past == Fires(x.def.set.trigger, x.def.from, x.def.next - 1)
      IN \A t \in past :
           Cardinality({v \in past : v > t}) < Kept(x.def.set) => Recorded(x, t)

\* A due automation does not stay due: the coordinator's passes bring its
\* cursor past the clock, or it is no longer scheduled.
DueIsServed == \A a \in Automations : IsDue(mem[a], now) ~> ~IsDue(mem[a], now)
=============================================================================
