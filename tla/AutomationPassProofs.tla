------------------------- MODULE AutomationPassProofs -------------------------
(***************************************************************************)
(* More theorems about AutomationSchedule: the total run budget and what   *)
(* the misfire policy keeps.  Both speak of one stored automation, so that *)
(* it is enough to know how a step may change one (Changes): an edit, a    *)
(* run-now execution, a move of an execution, or a pass over it.           *)
(***************************************************************************)
EXTENDS AutomationScheduleProofs

Edited(x, y) ==
  /\ y.def.from = y.def.next
  /\ y.def.set.budget.total \in
       {x.def.set.budget.total} \cup {s.budget.total : s \in Settings}
  /\ y.log = x.log \/ y.log = <<>>
Ordered(x, y) == y.def = x.def /\ \E e \in Entry : e.manual /\ y.log = Append(x.log, e)
Moved(x, y) ==
  /\ y.def = x.def
  /\ \E i \in DOMAIN x.log, st \in SeenStatus :
       /\ <<x.log[i].st, st>> \in Moves
       /\ y.log = [x.log EXCEPT ![i] =
            [x.log[i] EXCEPT !.st = st, !.retried = x.log[i].retried \/ x.log[i].st \in Retriable]]
Passed(x, y) == IsDue(x, now) /\ ~Poisoned(x, now) /\ y = Materialized(x, now)

Changes(x, y) == y = x \/ Edited(x, y) \/ Ordered(x, y) \/ Moved(x, y) \/ Passed(x, y)

\* What a step does to memory and to the snapshot.
Changed ==
  /\ \/ mem' = disk /\ disk' = disk
     \/ (\A a \in Automations : Changes(mem[a], mem'[a])) /\ disk' \in {disk, mem'}

LEMMA PutChanges ==
  ASSUME IInv, NEW a \in Automations, NEW y, Changes(mem[a], y), mem' = Put(a, y),
         disk' \in {disk, mem'}
  PROVE  Changed
<1>1. mem'[a] = y /\ \A b \in Automations : b # a => mem'[b] = mem[b]
  BY DEF IInv, Put
<1>2. QED BY <1>1 DEF Changed, Changes

LEMMA WriteFacts ==
  ASSUME NEW m, Write(m)
  PROVE  mem' = m /\ disk' \in {disk, mem'}
BY DEF Write, Save, SaveFails

LEMMA CreateChanges ==
  ASSUME IInv, NEW a \in Automations, CreateDefinition(a)
  PROVE  Changed
<1>1. PICK set \in Settings, st \in DefinitionStatus :
        Write(Put(a, [def |-> [st |-> st, set |-> set, rev |-> 1, next |-> Rescheduled(set, st),
                               from |-> Rescheduled(set, st)],
                      log |-> <<>>]))
  BY DEF CreateDefinition
<1>. DEFINE y == [def |-> [st |-> st, set |-> set, rev |-> 1, next |-> Rescheduled(set, st),
                           from |-> Rescheduled(set, st)],
                  log |-> <<>>]
<1>2. Edited(mem[a], y)
  BY DEF Edited
<1>3. Write(Put(a, y))
  BY <1>1
<1>. HIDE DEF y
<1>4. QED BY <1>2, <1>3, WriteFacts, PutChanges DEF Changes

LEMMA UpdateChanges ==
  ASSUME IInv, NEW a \in Automations, UpdateDefinition(a)
  PROVE  Changed
<1>1. PICK set \in Settings \cup {mem[a].def.set}, st \in DefinitionStatus :
        Write(Put(a, [mem[a] EXCEPT
                !.def = [st |-> st, set |-> set, rev |-> mem[a].def.rev + 1,
                         next |-> Rescheduled(set, st), from |-> Rescheduled(set, st)]]))
  BY DEF UpdateDefinition
<1>. DEFINE d == [st |-> st, set |-> set, rev |-> mem[a].def.rev + 1,
                  next |-> Rescheduled(set, st), from |-> Rescheduled(set, st)]
            y == [mem[a] EXCEPT !.def = d]
<1>2. mem[a] \in Automation
  BY DEF IInv
<1>3. y.def = d /\ y.log = mem[a].log
  BY <1>2 DEF Automation
<1>4. Write(Put(a, y))
  BY <1>1
<1>5. d.from = d.next /\ d.set = set
  OBVIOUS
<1>. HIDE DEF y, d
<1>6. Edited(mem[a], y)
  BY <1>3, <1>5 DEF Edited
<1>7. QED BY <1>4, <1>6, WriteFacts, PutChanges DEF Changes

LEMMA RefuseChanges ==
  ASSUME IInv, NEW a \in Automations, RefuseUpdate(a)
  PROVE  Changed
<1>. DEFINE d == mem[a].def
<1>1. mem[a] \in Automation /\ d \in Definition
  BY DEF IInv, Automation
<1>2. PICK set \in Settings, k \in 1..4 :
        \/ mem' = Put(a, [mem[a] EXCEPT !.def.set = Patched(d.set, set, k),
                                        !.def.from = d.next])
        \/ mem' = Put(a, [mem[a] EXCEPT !.def.set = Patched(d.set, set, k),
                                        !.def.from = d.next, !.def.st = "scheduled"])
  BY DEF RefuseUpdate
<1>. DEFINE kept == Patched(d.set, set, k)
<1>3. kept.budget \in {d.set.budget, set.budget}
  BY DEF Patched
<1>. HIDE DEF kept
<1>4. ASSUME NEW st \in {d.st, "scheduled"}, NEW y,
             y = [mem[a] EXCEPT !.def = [d EXCEPT !.set = kept, !.from = d.next, !.st = st]]
      PROVE  Edited(mem[a], y)
  <2>1. y.log = mem[a].log /\ y.def = [d EXCEPT !.set = kept, !.from = d.next, !.st = st]
    BY <1>1, <1>4 DEF Automation
  <2>2. y.def.from = d.next /\ y.def.next = d.next /\ y.def.set = kept
    BY <1>1, <2>1 DEF Definition
  <2>3. QED BY <1>3, <2>1, <2>2 DEF Edited
<1>5. [mem[a] EXCEPT !.def.set = kept, !.def.from = d.next]
        = [mem[a] EXCEPT !.def = [d EXCEPT !.set = kept, !.from = d.next, !.st = d.st]]
  BY <1>1 DEF Automation, Definition
<1>6. [mem[a] EXCEPT !.def.set = kept, !.def.from = d.next, !.def.st = "scheduled"]
        = [mem[a] EXCEPT !.def =
             [d EXCEPT !.set = kept, !.from = d.next, !.st = "scheduled"]]
  BY <1>1 DEF Automation, Definition
<1>7. PICK y : Edited(mem[a], y) /\ mem' = Put(a, y)
  BY <1>2, <1>4, <1>5, <1>6 DEF kept
<1>8. disk' = disk
  BY DEF RefuseUpdate
<1>9. QED BY <1>7, <1>8, PutChanges DEF Changes

LEMMA RunNowChanges ==
  ASSUME IInv, NEW a \in Automations, RunNow(a)
  PROVE  Changed
<1>. DEFINE e == [at |-> now, manual |-> TRUE, st |-> "pending",
                  policy |-> mem[a].def.set.overlap, retried |-> FALSE]
            y == [mem[a] EXCEPT !.log = Append(@, e)]
<1>1. mem[a] \in Automation
  BY DEF IInv
<1>2. e \in Entry /\ e.manual
  BY <1>1, StatusFacts DEF IInv, Times, Automation, Definition, Setting, Entry
<1>3. Write(Put(a, y))
  BY DEF RunNow
<1>. HIDE DEF e
<1>4. y.def = mem[a].def /\ y.log = Append(mem[a].log, e)
  BY <1>1 DEF Automation
<1>. HIDE DEF y
<1>5. Ordered(mem[a], y)
  BY <1>2, <1>4 DEF Ordered
<1>6. QED BY <1>3, <1>5, WriteFacts, PutChanges DEF Changes

LEMMA MoveChanges ==
  ASSUME IInv, NEW a \in Automations, Move(a)
  PROVE  Changed
<1>1. PICK i \in DOMAIN mem[a].log, st \in SeenStatus :
        /\ <<mem[a].log[i].st, st>> \in Moves
        /\ Save(Put(a, [mem[a] EXCEPT !.log[i] =
             [mem[a].log[i] EXCEPT !.st = st,
                !.retried = mem[a].log[i].retried \/ mem[a].log[i].st \in Retriable]]))
  BY DEF Move
<1>. DEFINE e == [mem[a].log[i] EXCEPT !.st = st,
                    !.retried = mem[a].log[i].retried \/ mem[a].log[i].st \in Retriable]
            y == [mem[a] EXCEPT !.log[i] = e]
<1>2. mem[a] \in Automation
  BY DEF IInv
<1>3. Save(Put(a, y))
  BY <1>1
<1>. HIDE DEF e
<1>4. y.def = mem[a].def /\ y.log = [mem[a].log EXCEPT ![i] = e]
  BY <1>2 DEF Automation
<1>. HIDE DEF y
<1>5. Moved(mem[a], y)
  BY <1>1, <1>4 DEF Moved, e
<1>6. QED BY <1>3, <1>5, WriteFacts, PutChanges DEF Changes, Write

LEMMA MaterializeChanges ==
  ASSUME IInv, Materialize
  PROVE  Changed
<1>. DEFINE poison == {a \in Automations : Poisoned(mem[a], now)}
            reached == {a \in Automations : /\ IsDue(mem[a], now)
                                            /\ \A p \in poison : Rank[a] < Rank[p]}
            m == [a \in Automations |->
                    IF a \in reached THEN Materialized(mem[a], now) ELSE mem[a]]
<1>1. IF poison = {} THEN Write(m) ELSE mem' = m /\ UNCHANGED <<disk, faults>>
  BY DEF Materialize
<1>2. ASSUME NEW a \in reached PROVE IsDue(mem[a], now) /\ ~Poisoned(mem[a], now)
  <2>1. Rank[a] \in Int
    BY ScheduleAssumption DEF ScheduleAssumption
  <2>2. ~(Rank[a] < Rank[a])
    BY <2>1
  <2>3. QED BY <2>2
<1>3. ASSUME NEW a \in Automations PROVE Changes(mem[a], m[a])
  BY <1>2 DEF Changes, Passed
<1>. HIDE DEF m, poison
<1>4. mem' = m /\ disk' \in {disk, mem'}
  BY <1>1, WriteFacts
<1>5. QED BY <1>3, <1>4 DEF Changed

LEMMA StepChanges ==
  ASSUME IInv, [Next]_vars
  PROVE  Changed
<1>1. CASE UNCHANGED vars \/ Tick \/ Crash
  BY <1>1 DEF vars, Tick, Crash, Changed, Changes
<1>2. QED
  BY <1>1, CreateChanges, UpdateChanges, RefuseChanges, RunNowChanges, MaterializeChanges,
     MoveChanges
  DEF Next, Edit

-----------------------------------------------------------------------------
(* The total run budget.                                                    *)

\* No edit changes it.
OneTotal == \A s, t \in Settings : s.budget.total = t.budget.total
Total == (CHOOSE s \in Settings : TRUE).budget.total

Solvent(x) == x.def.set.budget.total = Total /\ Cardinality(Used(x)) <= Total

LEMMA TotalFacts ==
  ASSUME OneTotal
  PROVE  Total \in Nat /\ \A s \in Settings : s.budget.total = Total
<1>1. (CHOOSE s \in Settings : TRUE) \in Settings
  BY ScheduleAssumption
<1>2. (CHOOSE s \in Settings : TRUE) \in Setting
  BY <1>1, ScheduleAssumption
<1>3. QED BY <1>1, <1>2 DEF OneTotal, Total, Setting, Budget

\* What counts for the budget is part of the log.
LEMMA UsedFacts ==
  ASSUME NEW x \in Automation
  PROVE  /\ IsFiniteSet(Used(x)) /\ Cardinality(Used(x)) \in Nat
         /\ IsFiniteSet(Holding(x, Counted)) /\ Cardinality(Holding(x, Counted)) \in Nat
         /\ \A i \in DOMAIN x.log : i \in Used(x) <=>
              /\ ~x.log[i].manual /\ x.log[i].policy = "skip" /\ ~x.log[i].retried
              /\ x.log[i].st \in Counted \cup SeenActive
         /\ Used(x) \subseteq DOMAIN x.log
<1>1. Len(x.log) \in Nat /\ DOMAIN x.log = 1..Len(x.log)
  BY DEF Automation
<1>2. IsFiniteSet(DOMAIN x.log)
  BY <1>1, FS_Interval
<1>3. Used(x) \subseteq DOMAIN x.log /\ Holding(x, Counted) \subseteq DOMAIN x.log
  BY DEF Used, Scheduled, Holding
<1>4. QED BY <1>2, <1>3, FS_Subset, FS_CardinalityType DEF Used, Scheduled, Holding

LEMMA FewerUsed ==
  ASSUME NEW x \in Automation, NEW y \in Automation, Used(y) \subseteq Used(x),
         Total \in Nat, Solvent(x), y.def.set.budget.total = Total
  PROVE  Solvent(y)
<1>1. Cardinality(Used(y)) <= Cardinality(Used(x))
  BY UsedFacts, FS_Subset
<1>2. QED BY <1>1, UsedFacts DEF Solvent

\* A pass adds one occurrence that counts, and only when nothing is active and the
\* budget is not spent.
LEMMA PassedSolvent ==
  ASSUME NEW x, Sound(x), NEW u \in Nat, IsDue(x, u), ~Poisoned(x, u),
         Total \in Nat, Solvent(x)
  PROVE  Solvent(Materialized(x, u))
<1>. DEFINE y == Materialized(x, u)
            new == NewEntries(x, u)
            n == Len(x.log)
<1>1. x \in Automation /\ x.log \in Seq(Entry) /\ n \in Nat /\ DOMAIN x.log = 1..n
  BY DEF Sound, Automation
<1>2. y \in Automation /\ Alone(y)
  BY MaterializedSound DEF Sound
<1>3. new \in Seq(Entry)
  BY <1>1, NewEntriesFacts
<1>4. \A i \in DOMAIN new : /\ new[i].policy = x.def.set.overlap
                            /\ new[i].st = Decision(x, u, new[i].at)
  BY <1>1, NewEntriesFacts
<1>5. y.log = x.log \o new /\ y.def = Advanced(x.def, NextRun(x.def.set.trigger, Max(Due(x, u))))
  BY DEF Materialized
<1>6. y.def.set = x.def.set
  BY <1>1, <1>5 DEF Advanced, Automation, Definition
<1>7. ASSUME NEW i \in DOMAIN y.log
      PROVE  \/ i \in DOMAIN x.log /\ y.log[i] = x.log[i]
             \/ i - n \in DOMAIN new /\ y.log[i] = new[i - n]
  BY <1>1, <1>3, <1>5, ConcatFacts
<1>. HIDE DEF y, new
<1>8. CASE \A i \in Used(y) : i \in DOMAIN x.log /\ y.log[i] = x.log[i]
  <2>1. Used(y) \subseteq Used(x)
    BY <1>1, <1>2, <1>8, UsedFacts
  <2>2. QED BY <1>1, <1>2, <1>6, <2>1, FewerUsed DEF Solvent, y
<1>9. ASSUME NEW k \in Used(y), ~(k \in DOMAIN x.log /\ y.log[k] = x.log[k])
      PROVE  Solvent(y)
  <2>. DEFINE j == k - n
  <2>1. k \in DOMAIN y.log /\ j \in DOMAIN new /\ y.log[k] = new[j]
    BY <1>2, <1>7, <1>9, UsedFacts
  <2>2. /\ new[j].policy = "skip" /\ x.def.set.overlap = "skip"
        /\ new[j].st \in Counted \cup SeenActive
    BY <1>2, <1>4, <1>9, <2>1, UsedFacts
  <2>3. Decision(x, u, new[j].at) \in {"running", "pending", "completed"}
    BY <1>4, <2>1, <2>2, StatusFacts DEF Counted
  <2>4. ~BudgetSpent(x, u) /\ ~HasActive(x)
    BY <2>2, <2>3 DEF Decision
  <2>5. x.def.set.budget.total = Total /\ Cardinality(Holding(x, Counted)) < Total
    BY <1>1, <2>4, UsedFacts DEF BudgetSpent, Solvent
  <2>6. ASSUME NEW i \in Used(y), i # k PROVE i \in Holding(x, Counted)
    <3>1. i \in DOMAIN y.log
      BY <1>2, UsedFacts
    <3>2. CASE i \in DOMAIN x.log /\ y.log[i] = x.log[i]
      <4>1. x.log[i].st \in Counted \cup SeenActive
        BY <1>2, <3>1, <3>2, UsedFacts
      <4>2. x.log[i].st \notin SeenActive
        BY <2>4, <3>2 DEF HasActive, Holding
      <4>3. QED BY <3>2, <4>1, <4>2 DEF Holding
    <3>3. CASE i - n \in DOMAIN new /\ y.log[i] = new[i - n]
      <4>1. new[i - n].st = Decision(x, u, new[i - n].at)
        BY <1>4, <3>3
      <4>2. y.log[i].st = "pending" /\ y.log[k].st = "pending"
        BY <1>2, <1>4, <2>1, <2>3, <3>1, <3>3, <4>1, UsedFacts, StatusFacts DEF Decision, Counted
      <4>3. Waits(y.log[i]) /\ Waits(y.log[k])
        BY <1>2, <2>1, <3>1, <4>2, UsedFacts, StatusFacts DEF Waits
      <4>4. i = k
        BY <1>2, <2>1, <3>1, <4>3 DEF Alone
      <4>5. QED BY <2>6, <4>4
    <3>4. QED BY <1>7, <3>1, <3>2, <3>3
  <2>7. Used(y) \subseteq Holding(x, Counted) \cup {k}
    BY <2>6
  <2>8. /\ IsFiniteSet(Holding(x, Counted) \cup {k})
        /\ Cardinality(Holding(x, Counted) \cup {k}) <= Cardinality(Holding(x, Counted)) + 1
    <3>. DEFINE H == Holding(x, Counted)
    <3>1. IsFiniteSet(H) /\ Cardinality(H) \in Nat
      BY <1>1, UsedFacts
    <3>. HIDE DEF H
    <3>2. /\ IsFiniteSet(H \cup {k})
          /\ Cardinality(H \cup {k}) = IF k \in H THEN Cardinality(H) ELSE Cardinality(H) + 1
      BY <3>1, FS_AddElement
    <3>3. QED BY <3>1, <3>2 DEF H
  <2>9. Cardinality(Used(y)) <= Cardinality(Holding(x, Counted) \cup {k})
    BY <2>7, <2>8, FS_Subset
  <2>10. Cardinality(Used(y)) <= Total
    <3>1. Cardinality(Holding(x, Counted) \cup {k}) \in Nat
      BY <2>8, FS_CardinalityType
    <3>2. QED BY <1>1, <1>2, <2>5, <2>8, <2>9, <3>1, UsedFacts
  <2>11. QED BY <1>6, <2>5, <2>10 DEF Solvent
<1>10. QED BY <1>8, <1>9 DEF y

LEMMA ChangesSolvent ==
  ASSUME OneTotal, now \in Nat, NEW x, NEW y, Sound(x), Sound(y), Changes(x, y), Solvent(x)
  PROVE  Solvent(y)
<1>1. x \in Automation /\ y \in Automation /\ Total \in Nat
  BY TotalFacts DEF Sound
<1>2. CASE Edited(x, y)
  <2>1. y.def.set.budget.total = Total
    BY <1>2, TotalFacts DEF Edited, Solvent
  <2>2. Used(y) \subseteq Used(x)
    BY <1>2 DEF Edited, Used, Scheduled, Holding
  <2>3. QED BY <1>1, <2>1, <2>2, FewerUsed
<1>3. CASE Ordered(x, y)
  <2>1. PICK e \in Entry : e.manual /\ y.log = Append(x.log, e)
    BY <1>3 DEF Ordered
  <2>2. x.log \in Seq(Entry)
    BY <1>1 DEF Automation
  <2>3. ASSUME NEW i \in DOMAIN y.log PROVE y.log[i] = e \/ (i \in DOMAIN x.log /\ y.log[i] = x.log[i])
    BY <2>1, <2>2
  <2>4. ASSUME NEW i \in Used(y) PROVE i \in Used(x)
    <3>1. i \in DOMAIN y.log /\ ~y.log[i].manual
      BY <1>1, UsedFacts
    <3>2. i \in DOMAIN x.log /\ y.log[i] = x.log[i]
      BY <2>1, <2>3, <3>1
    <3>3. QED BY <1>1, <3>1, <3>2, UsedFacts
  <2>5. Used(y) \subseteq Used(x)
    BY <2>4
  <2>6. QED BY <1>1, <1>3, <2>5, FewerUsed DEF Ordered, Solvent
<1>4. CASE Moved(x, y)
  <2>1. PICK i \in DOMAIN x.log, st \in SeenStatus :
       /\ <<x.log[i].st, st>> \in Moves
       /\ y.log = [x.log EXCEPT ![i] =
            [x.log[i] EXCEPT !.st = st, !.retried = x.log[i].retried \/ x.log[i].st \in Retriable]]
    BY <1>4 DEF Moved
  <2>. DEFINE e == [x.log[i] EXCEPT !.st = st,
                      !.retried = x.log[i].retried \/ x.log[i].st \in Retriable]
  <2>2. x.log[i] \in Entry
    BY <1>1 DEF Automation
  <2>3. /\ e.manual = x.log[i].manual /\ e.policy = x.log[i].policy
        /\ e.st = st /\ (e.retried <=> x.log[i].retried \/ x.log[i].st \in Retriable)
    BY <2>2 DEF Entry
  <2>4. ~e.retried => x.log[i].st \in Counted \cup SeenActive
    BY <2>1, <2>3, StatusFacts DEF Moves, Retriable
  <2>. HIDE DEF e
  <2>5. /\ y.log[i] = e /\ DOMAIN y.log = DOMAIN x.log
        /\ \A j \in DOMAIN x.log : j # i => y.log[j] = x.log[j]
    BY <2>1 DEF e
  <2>6. Used(y) \subseteq Used(x)
    BY <1>1, <2>2, <2>3, <2>4, <2>5, UsedFacts DEF Entry
  <2>7. QED BY <1>1, <1>4, <2>6, FewerUsed DEF Moved, Solvent
<1>5. CASE Passed(x, y)
  BY <1>1, <1>5, PassedSolvent DEF Passed
<1>6. QED BY <1>2, <1>3, <1>4, <1>5 DEF Changes

Budgeted == \A a \in Automations : Solvent(mem[a]) /\ Solvent(disk[a])

LEMMA StepBudgeted ==
  ASSUME OneTotal, IInv, Budgeted, [Next]_vars
  PROVE  Budgeted'
<1>1. IInv' /\ Changed /\ now \in Nat
  BY StepSound, StepChanges DEF IInv, Times
<1>2. CASE mem' = disk /\ disk' = disk
  BY <1>2 DEF Budgeted, Solvent, Used, Scheduled, Holding
<1>3. CASE (\A a \in Automations : Changes(mem[a], mem'[a])) /\ disk' \in {disk, mem'}
  <2>1. ASSUME NEW a \in Automations PROVE Solvent(mem'[a])
    <3>1. Sound(mem[a]) /\ Sound(mem'[a]) /\ Solvent(mem[a])
      BY <1>1 DEF IInv, Budgeted, Sound, RecordedOnce, Alone, Scheduled, Waits
    <3>2. QED BY <1>1, <1>3, <3>1, ChangesSolvent
  <2>2. CASE disk' = disk
    BY <2>1, <2>2 DEF Budgeted, Solvent, Used, Scheduled, Holding
  <2>3. CASE disk' = mem'
    BY <2>1, <2>3 DEF Budgeted, Solvent, Used, Scheduled, Holding
  <2>4. QED BY <1>3, <2>2, <2>3
<1>4. QED BY <1>1, <1>2, <1>3 DEF Changed

LEMMA InitBudgeted ==
  ASSUME OneTotal, Init
  PROVE  Budgeted
<1>1. Used(Absent) = {}
  BY DEF Absent, Used, Scheduled
<1>2. Solvent(Absent)
  <2>1. Absent.def.set.budget.total = Total
    BY DEF Absent, Total
  <2>2. QED BY <1>1, <2>1, TotalFacts, FS_EmptySet DEF Solvent
<1>3. QED BY <1>2 DEF Init, Budgeted

\* As long as no edit changes the total budget, executions under overlap_policy "skip"
\* that nobody retries never use more of it than there is, although a waiting one
\* is not counted.
THEOREM TotalBudgetHolds == ASSUME OneTotal PROVE Spec => []TotalBudgetKept
<1>1. Init => IInv /\ Budgeted
  BY InitSound, InitBudgeted
<1>2. IInv /\ Budgeted /\ [Next]_vars => (IInv /\ Budgeted)'
  BY StepSound, StepBudgeted
<1>3. Budgeted => TotalBudgetKept
  BY DEF Budgeted, TotalBudgetKept, Stored, Solvent
<1>4. QED BY <1>1, <1>2, <1>3, PTL DEF Spec

-----------------------------------------------------------------------------
(* What the misfire policy keeps is recorded.                               *)

\* Steps of a given length.
LEMMA StepsOfLength ==
  ASSUME NEW e \in Nat \ {0}, NEW a \in Nat
  PROVE  a % e = 0 <=> \E k \in Nat : a = k * e
<1>1. ASSUME a % e = 0 PROVE \E k \in Nat : a = k * e
  <2>1. a \div e \in Nat /\ a = (a \div e) * e
    BY <1>1
  <2>2. QED BY <2>1
<1>2. ASSUME NEW k \in Nat, a = k * e PROVE a % e = 0
  BY <1>2
<1>3. QED BY <1>1, <1>2

LEMMA StepsAdd ==
  ASSUME NEW e \in Nat \ {0}, NEW j \in Nat, NEW k \in Nat
  PROVE  /\ j * e + k * e = (j + k) * e
         /\ j > k => j * e >= k * e + e
         /\ j * e \in Nat /\ 1 * e = e
  OBVIOUS

\* A cursor that starts at c comes to t.
Reaches(tr, c, t) ==
  \/ t = c
  \/ tr.type = "interval" /\ (t - c) % tr.every = 0
  \/ tr.type # "interval" /\ t \in tr.at

LEMMA FiresFacts ==
  ASSUME NEW tr \in Trigger, NEW c \in Nat, NEW u \in Int
  PROVE  /\ \A t : t \in Fires(tr, c, u) <=> t \in c..u /\ Reaches(tr, c, t)
         /\ Fires(tr, c, u) \subseteq c..u
BY DEF Fires, Reaches

\* It comes from f to t by way of c.
LEMMA ReachesOn ==
  ASSUME NEW tr \in Trigger, NEW f \in Nat, NEW c \in Nat, NEW t \in Nat,
         f <= c, c <= t, Reaches(tr, f, c)
  PROVE  Reaches(tr, f, t) <=> Reaches(tr, c, t)
<1>. DEFINE e == tr.every
<1>1. e \in Nat \ {0}
  BY DEF Trigger
<1>2. CASE tr.type # "interval"
  BY <1>2 DEF Reaches
<1>3. CASE tr.type = "interval"
  <2>1. c - f \in Nat /\ t - f \in Nat /\ t - c \in Nat
    OBVIOUS
  <2>2. /\ Reaches(tr, f, c) <=> (c - f) % e = 0
        /\ Reaches(tr, f, t) <=> (t - f) % e = 0
        /\ Reaches(tr, c, t) <=> (t - c) % e = 0
    BY <1>1, <1>3, <2>1 DEF Reaches
  <2>. HIDE DEF e
  <2>3. PICK j \in Nat : c - f = j * e
    BY <1>1, <2>1, <2>2, StepsOfLength
  <2>4. ASSUME (t - f) % e = 0 PROVE (t - c) % e = 0
    <3>1. PICK k \in Nat : t - f = k * e
      BY <1>1, <2>1, <2>4, StepsOfLength
    <3>2. ~(j > k)
      <4>1. j > k => j * e >= k * e + e
        BY <1>1, StepsAdd
      <4>2. j * e \in Nat /\ k * e \in Nat /\ j * e <= k * e
        BY <1>1, <2>1, <2>3, <3>1, StepsAdd
      <4>3. QED BY <1>1, <4>1, <4>2
    <3>3. k - j \in Nat
      BY <3>2
    <3>4. j * e + (k - j) * e = k * e
      <4>1. j + (k - j) = k
        OBVIOUS
      <4>2. j * e + (k - j) * e = (j + (k - j)) * e
        BY <1>1, <3>3, StepsAdd
      <4>3. QED BY <4>1, <4>2
    <3>5. t - c = (k - j) * e
      <4>1. j * e \in Nat /\ k * e \in Nat /\ (k - j) * e \in Nat
        BY <1>1, <3>3, StepsAdd
      <4>2. QED BY <2>3, <3>1, <3>4, <4>1
    <3>6. QED BY <1>1, <2>1, <3>3, <3>5, StepsOfLength
  <2>5. ASSUME (t - c) % e = 0 PROVE (t - f) % e = 0
    <3>1. PICK k \in Nat : t - c = k * e
      BY <1>1, <2>1, <2>5, StepsOfLength
    <3>2. j * e + k * e = (j + k) * e /\ j * e \in Nat /\ k * e \in Nat
      BY <1>1, StepsAdd
    <3>3. t - f = (j + k) * e
      BY <2>3, <3>1, <3>2
    <3>4. QED BY <1>1, <2>1, <3>3, StepsOfLength
  <2>6. QED BY <2>2, <2>4, <2>5
<1>4. QED BY <1>2, <1>3

\* The next run is reached, and nothing before it.
LEMMA NextReaches ==
  ASSUME NEW tr \in Trigger, NEW m \in Nat, NextRun(tr, m) \in Nat
  PROVE  /\ NextRun(tr, m) > m /\ Reaches(tr, m, NextRun(tr, m))
         /\ \A t \in Nat : m < t /\ t < NextRun(tr, m) => ~Reaches(tr, m, t)
<1>1. tr.at \subseteq Nat /\ tr.every \in Nat \ {0} /\ tr.type \in {"once", "interval", "cron"}
  BY DEF Trigger
<1>2. CASE tr.type = "once"
  <2>. DEFINE later == {t \in tr.at : t > m}
  <2>1. NextRun(tr, m) = IF later = {} THEN None ELSE Min(later)
    BY <1>2 DEF NextRun, NextOnce
  <2>2. later # {} /\ later \in SUBSET Nat
    BY <1>1, <2>1 DEF None
  <2>3. Min(later) \in later /\ \A y \in later : Min(later) <= y
    BY <2>2, LeastExists
  <2>4. QED BY <1>1, <1>2, <2>1, <2>2, <2>3 DEF Reaches
<1>3. CASE tr.type = "cron"
  <2>. DEFINE found == {t \in tr.at : m < t /\ t <= m + Horizon}
  <2>1. NextRun(tr, m) = IF found = {} THEN Raises ELSE Min(found)
    BY <1>3 DEF NextRun, NextCron
  <2>2. found # {} /\ found \in SUBSET Nat
    BY <1>1, <2>1 DEF Raises
  <2>3. Min(found) \in found /\ \A y \in found : Min(found) <= y
    BY <2>2, LeastExists
  <2>4. Horizon \in Nat
    BY ScheduleAssumption
  <2>5. NextRun(tr, m) = Min(found) /\ Min(found) \in tr.at /\ Min(found) \in Nat
        /\ m < Min(found) /\ Min(found) <= m + Horizon
    BY <1>1, <2>1, <2>2, <2>3
  <2>6. ASSUME NEW t \in Nat, m < t, t < Min(found), t \in tr.at PROVE FALSE
    <3>1. t <= m + Horizon
      BY <2>4, <2>5, <2>6
    <3>2. t \in found
      BY <2>6, <3>1
    <3>3. QED BY <2>3, <2>5, <2>6, <3>2
  <2>. HIDE DEF found
  <2>7. QED BY <1>1, <1>3, <2>5, <2>6 DEF Reaches
<1>4. CASE tr.type = "interval"
  <2>. DEFINE e == tr.every
  <2>1. NextRun(tr, m) = m + e
    BY <1>4 DEF NextRun
  <2>2. e % e = 0
    <3>1. e \in Nat /\ e = 1 * e
      BY <1>1
    <3>2. QED BY <1>1, <3>1, StepsOfLength
  <2>3. (m + e) - m = e
    BY <1>1
  <2>4. ASSUME NEW t \in Nat, m < t, t < m + e, (t - m) % e = 0 PROVE FALSE
    <3>1. t - m \in Nat /\ t - m > 0
      BY <2>4
    <3>. HIDE DEF e
    <3>2. PICK k \in Nat : t - m = k * e
      BY <1>1, <2>4, <3>1, StepsOfLength DEF e
    <3>3. k > 0
      <4>1. k = 0 => k * e = 0
        BY <1>1 DEF e
      <4>2. QED BY <3>1, <3>2, <4>1
    <3>4. k * e >= 0 * e + e /\ 0 * e = 0
      BY <1>1, <3>3, StepsAdd DEF e
    <3>5. QED BY <1>1, <2>4, <3>2, <3>4 DEF e
  <2>5. QED BY <1>1, <1>4, <2>1, <2>2, <2>3, <2>4 DEF Reaches
<1>5. QED BY <1>1, <1>2, <1>3, <1>4

\* The due times a pass looks at are all there are from the cursor to the last of them.
LEMMA DueReaches ==
  ASSUME NEW x \in Automation, NEW u \in Nat, IsDue(x, u)
  PROVE  /\ x.def.set.trigger \in Trigger /\ x.def.next \in Nat
         /\ Max(Due(x, u)) \in Nat /\ x.def.next <= Max(Due(x, u))
         /\ Reaches(x.def.set.trigger, x.def.next, Max(Due(x, u)))
         /\ \A t \in Nat : t \in Due(x, u) <=>
              /\ x.def.next <= t /\ t <= Max(Due(x, u))
              /\ Reaches(x.def.set.trigger, x.def.next, t)
<1>. DEFINE tr == x.def.set.trigger
            c == x.def.next
            fires == Fires(tr, c, u)
            D == Due(x, u)
<1>1. tr \in Trigger /\ c \in Nat /\ c <= u
  BY DEF IsDue, Automation, Definition, Setting, None
<1>2. D \in SUBSET (0..u) /\ c \in D
  BY DueFacts
<1>3. Max(D) \in D /\ \A y \in D : Max(D) >= y
  BY <1>2, GreatestExists
<1>4. D = {t \in fires : Cardinality({v \in fires : v < t}) < Batch}
  BY DEF Due
<1>5. (\A t : t \in fires <=> t \in c..u /\ Reaches(tr, c, t)) /\ fires \subseteq c..u
  BY <1>1, FiresFacts
<1>. HIDE DEF fires, D, tr, c
<1>6. Max(D) \in Nat /\ Max(D) \in fires /\ Max(D) <= u /\ c <= Max(D)
  <2>1. Max(D) \in fires /\ Max(D) \in 0..u
    BY <1>2, <1>3, <1>4
  <2>2. Max(D) >= c
    BY <1>2, <1>3
  <2>3. QED BY <1>1, <2>1, <2>2
<1>7. ASSUME NEW t \in fires, t <= Max(D) PROVE t \in D
  <2>. DEFINE B(s) == {v \in fires : v < s}
  <2>1. fires \subseteq Nat /\ IsFiniteSet(fires)
    <3>1. c..u \subseteq Nat /\ IsFiniteSet(c..u)
      BY <1>1, FS_Interval
    <3>2. QED BY <1>5, <3>1, FS_Subset
  <2>2. B(t) \subseteq B(Max(D)) /\ B(Max(D)) \subseteq fires
    <3>1. t \in Nat
      BY <2>1
    <3>2. \A v \in fires : v < t => v < Max(D)
      BY <1>6, <1>7, <2>1, <3>1
    <3>3. QED BY <3>2
  <2>3. IsFiniteSet(B(Max(D))) /\ IsFiniteSet(B(t))
    BY <2>1, <2>2, FS_Subset
  <2>4. Cardinality(B(t)) <= Cardinality(B(Max(D)))
    BY <2>2, <2>3, FS_Subset
  <2>5. Cardinality(B(Max(D))) < Batch
    BY <1>3, <1>4
  <2>6. Cardinality(B(t)) \in Nat /\ Cardinality(B(Max(D))) \in Nat /\ Batch \in Nat
    BY <2>3, FS_CardinalityType, ScheduleAssumption
  <2>7. Cardinality(B(t)) < Batch
    BY <2>4, <2>5, <2>6
  <2>8. QED BY <1>4, <1>7, <2>7
<1>8. ASSUME NEW t \in Nat
      PROVE  t \in D <=> c <= t /\ t <= Max(D) /\ Reaches(tr, c, t)
  <2>1. t \in c..u <=> c <= t /\ t <= u
    BY <1>1
  <2>2. t \in D => t \in fires /\ t <= Max(D)
    BY <1>3, <1>4, <1>6
  <2>3. t <= Max(D) => t <= u
    BY <1>1, <1>6
  <2>4. QED BY <1>5, <1>7, <2>1, <2>2, <2>3
<1>9. QED BY <1>1, <1>3, <1>6, <1>8 DEF tr, c, D

\* The new records of a pass are for all the fresh times.
LEMMA NewEntriesCover ==
  ASSUME NEW x \in Automation, NEW u \in Nat, IsDue(x, u), NEW t \in Fresh(x, u)
  PROVE  \E i \in DOMAIN NewEntries(x, u) :
           NewEntries(x, u)[i].at = t /\ ~NewEntries(x, u)[i].manual
<1>. DEFINE S == Fresh(x, u)
            n == Cardinality(S)
            times == SetToSeq(S)
<1>1. IsFiniteSet(S)
  BY FreshFacts
<1>. HIDE DEF S
<1>2. /\ n \in Nat /\ times \in [1..n -> S] /\ Len(times) = n
      /\ \A i, j \in 1..n : times[i] = times[j] => i = j
  BY <1>1, SetToSeqFacts
<1>3. times \in Injection(1..n, S)
  BY <1>2 DEF Injection, IsInjective
<1>4. Cardinality(1..n) = n
  BY <1>2, FS_Interval
<1>. HIDE DEF times
<1>5. times \in Surjection(1..n, S)
  <2>. DEFINE I == 1..n
  <2>1. times \in Injection(I, S) /\ Cardinality(I) = Cardinality(S)
    BY <1>3, <1>4
  <2>. HIDE DEF I
  <2>2. times \in Surjection(I, S)
    BY <1>1, <2>1, FS_Injection
  <2>3. QED BY <2>2 DEF I
<1>6. PICK i \in 1..n : times[i] = t
  BY <1>5 DEF Surjection, S
<1>7. NewEntries(x, u) = [j \in 1..n |->
               [at |-> times[j], manual |-> FALSE, st |-> Decision(x, u, times[j]),
                policy |-> x.def.set.overlap, retried |-> FALSE]]
  BY <1>2 DEF NewEntries, times, S
<1>8. QED BY <1>6, <1>7

\* A pass leaves the records there are and adds the fresh ones.
LEMMA PassedRecords ==
  ASSUME NEW x \in Automation, NEW u \in Nat, IsDue(x, u), NEW t,
         Recorded(x, t) \/ t \in Fresh(x, u)
  PROVE  Recorded(Materialized(x, u), t)
<1>. DEFINE new == NewEntries(x, u)
            y == Materialized(x, u)
<1>1. x.log \in Seq(Entry) /\ new \in Seq(Entry) /\ y.log = x.log \o new
  BY NewEntriesFacts DEF Automation, Materialized
<1>2. \A i \in DOMAIN new : new[i].at = t /\ ~new[i].manual => Recorded(y, t)
  <2>. SUFFICES ASSUME NEW i \in DOMAIN new, new[i].at = t, ~new[i].manual
                PROVE  Recorded(y, t)
    OBVIOUS
  <2>1. Len(x.log) + i \in DOMAIN y.log /\ y.log[Len(x.log) + i] = new[i]
    BY <1>1
  <2>2. QED BY <2>1 DEF Recorded, Scheduled
<1>3. \A i \in DOMAIN x.log : x.log[i].at = t /\ ~x.log[i].manual => Recorded(y, t)
  <2>. SUFFICES ASSUME NEW i \in DOMAIN x.log, x.log[i].at = t, ~x.log[i].manual
                PROVE  Recorded(y, t)
    OBVIOUS
  <2>1. i \in DOMAIN y.log /\ y.log[i] = x.log[i]
    BY <1>1
  <2>2. QED BY <2>1 DEF Recorded, Scheduled
<1>4. QED BY <1>2, <1>3, NewEntriesCover DEF Recorded, Scheduled

\* The due times the misfire policy keeps are selected.
LEMMA KeptSelected ==
  ASSUME NEW x \in Automation, NEW u \in Nat, IsDue(x, u), NEW t \in Due(x, u),
         Cardinality({v \in Due(x, u) : v > t}) < Kept(x.def.set)
  PROVE  t \in Selected(x, u)
<1>. DEFINE D == Due(x, u)
            L == {v \in D : v > t}
<1>1. D \in SUBSET (0..u) /\ Max(D) \in D /\ \A v \in D : Max(D) >= v
  BY DueFacts, GreatestExists
<1>2. IsFiniteSet(L) /\ Cardinality(L) \in Nat
  <2>1. L \subseteq 0..u /\ IsFiniteSet(0..u)
    BY <1>1, FS_Interval
  <2>2. QED BY <2>1, FS_Subset, FS_CardinalityType
<1>3. x.def.set.misfire \in {"skip", "latest", "catch_up"}
  BY DEF Automation, Definition, Setting
<1>4. CASE x.def.set.misfire = "skip"
  <2>1. Kept(x.def.set) = 0
    BY <1>4 DEF Kept
  <2>2. QED BY <1>2, <2>1
<1>5. CASE x.def.set.misfire = "latest"
  <2>1. Kept(x.def.set) = 1
    BY <1>5 DEF Kept
  <2>2. L = {}
    BY <1>2, <2>1, FS_EmptySet
  <2>3. t = Max(D)
    <3>1. ~(Max(D) > t)
      BY <1>1, <2>2
    <3>2. t \in Nat /\ Max(D) \in Nat /\ Max(D) >= t
      BY <1>1
    <3>3. QED BY <3>1, <3>2
  <2>4. QED BY <1>5, <2>3 DEF Selected
<1>6. CASE x.def.set.misfire = "catch_up"
  <2>1. Kept(x.def.set) = CatchUp
    BY <1>6 DEF Kept
  <2>2. QED BY <1>6, <2>1 DEF Selected
<1>7. QED BY <1>3, <1>4, <1>5, <1>6

\* Where the cursor is since the last edit, so are the records.
Covered(x) ==
  x.def.next # None /\ x.def.from # None =>
    LET past == Fires(x.def.set.trigger, x.def.from, x.def.next - 1)
    IN /\ x.def.from <= x.def.next
       /\ Reaches(x.def.set.trigger, x.def.from, x.def.next)
       /\ \A t \in past :
            Cardinality({v \in past : v > t}) < Kept(x.def.set) => Recorded(x, t)

LEMMA PassedCovered ==
  ASSUME NEW x, Sound(x), NEW u \in Nat, IsDue(x, u), ~Poisoned(x, u), Covered(x)
  PROVE  Covered(Materialized(x, u))
<1>. DEFINE y == Materialized(x, u)
            tr == x.def.set.trigger
            f == x.def.from
            c == x.def.next
            D == Due(x, u)
            m == Max(D)
            n == NextRun(tr, m)
            past == Fires(tr, f, c - 1)
            now_past == Fires(tr, f, n - 1)
<1>1. x \in Automation /\ x.def \in Definition
  BY DEF Sound, Automation
<1>2. /\ tr \in Trigger /\ c \in Nat /\ m \in Nat /\ c <= m /\ Reaches(tr, c, m)
      /\ \A t \in Nat : t \in D <=> c <= t /\ t <= m /\ Reaches(tr, c, t)
      /\ D \subseteq Nat /\ m \in D
  <2>1. D \in SUBSET (0..u)
    BY <1>1, DueFacts
  <2>2. QED BY <1>1, <2>1, DueReaches, DueFacts
<1>3. n \in Nat \cup {None}
  BY <1>2, NextRunType DEF Poisoned
<1>4. y.def = Advanced(x.def, n)
  BY DEF Materialized
<1>5. y.def.set = x.def.set /\ y.def.from = f
  BY <1>1, <1>4 DEF Advanced, Definition
<1>6. y.def.next \in {n, None}
  BY <1>1, <1>4 DEF Advanced, Definition
<1>7. ASSUME NEW t, Recorded(x, t) \/ t \in Fresh(x, u) PROVE Recorded(y, t)
  BY <1>1, <1>7, PassedRecords
<1>8. CASE n \in Nat /\ f \in Nat /\ y.def.next = n
  <2>1. f <= c /\ Reaches(tr, f, c)
    BY <1>2, <1>8 DEF Covered, None
  <2>2. ASSUME NEW t \in past, Cardinality({v \in past : v > t}) < Kept(x.def.set)
        PROVE  Recorded(x, t)
    BY <1>2, <1>8, <2>2 DEF Covered, None
  <2>. HIDE DEF y, D, m
  <2>3. n > m /\ Reaches(tr, m, n) /\ \A t \in Nat : m < t /\ t < n => ~Reaches(tr, m, t)
    BY <1>2, <1>8, NextReaches
  <2>. HIDE DEF n, tr, f, c
  <2>4. /\ \A t : t \in past <=> t \in f..(c - 1) /\ Reaches(tr, f, t)
        /\ \A t : t \in now_past <=> t \in f..(n - 1) /\ Reaches(tr, f, t)
    <3>1. c - 1 \in Int /\ n - 1 \in Int
      BY <1>2, <1>8
    <3>2. QED BY <1>2, <1>8, <3>1, FiresFacts
  <2>. HIDE DEF past, now_past
  <2>5. Reaches(tr, f, m) /\ Reaches(tr, f, n) /\ f <= n
    <3>1. Reaches(tr, f, m)
      BY <1>2, <1>8, <2>1, ReachesOn
    <3>2. f <= m /\ m <= n
      BY <1>2, <1>8, <2>1, <2>3
    <3>3. QED BY <1>2, <1>8, <2>3, <3>1, <3>2, ReachesOn
  <2>6. ASSUME NEW t \in now_past PROVE t \in past \/ t \in D
    <3>1. t \in Nat /\ f <= t /\ t < n /\ Reaches(tr, f, t)
      BY <1>8, <2>4, <2>6
    <3>2. CASE t < c
      BY <1>2, <1>8, <2>4, <3>1, <3>2
    <3>3. CASE c <= t
      <4>1. Reaches(tr, c, t)
        BY <1>2, <1>8, <2>1, <3>1, <3>3, ReachesOn
      <4>2. t <= m
        <5>1. SUFFICES ASSUME m < t PROVE FALSE
          BY <1>2, <3>1
        <5>2. m <= t
          BY <1>2, <3>1, <5>1
        <5>3. Reaches(tr, m, t)
          BY <1>2, <3>1, <4>1, <5>2, ReachesOn
        <5>4. QED BY <2>3, <3>1, <5>1, <5>3
      <4>3. QED BY <1>2, <3>1, <3>3, <4>1, <4>2
    <3>4. QED BY <1>2, <3>1, <3>2, <3>3
  <2>7. past \subseteq now_past
    <3>1. f..(c - 1) \subseteq f..(n - 1)
      BY <1>2, <1>8, <2>3
    <3>2. QED BY <2>4, <3>1
  <2>8. D \subseteq now_past
    <3>1. ASSUME NEW t \in D PROVE t \in now_past
      <4>1. t \in Nat /\ c <= t /\ t <= m /\ Reaches(tr, c, t)
        BY <1>2, <3>1
      <4>2. Reaches(tr, f, t)
        BY <1>2, <1>8, <2>1, <4>1, ReachesOn
      <4>3. t \in f..(n - 1)
        BY <1>2, <1>8, <2>1, <2>3, <4>1
      <4>4. QED BY <2>4, <4>2, <4>3
    <3>2. QED BY <3>1
  <2>9. IsFiniteSet(now_past)
    <3>1. f..(n - 1) \subseteq 0..n /\ IsFiniteSet(0..n)
      BY <1>8, FS_Interval
    <3>2. now_past \subseteq 0..n
      BY <2>4, <3>1
    <3>3. QED BY <3>1, <3>2, FS_Subset
  <2>10. ASSUME NEW t \in now_past, Cardinality({v \in now_past : v > t}) < Kept(x.def.set)
         PROVE  Recorded(y, t)
    <3>. DEFINE Later(A) == {v \in A : v > t}
    <3>1. ASSUME NEW A \in SUBSET now_past PROVE Cardinality(Later(A)) < Kept(x.def.set)
      <4>1. Later(A) \subseteq Later(now_past) /\ Later(now_past) \subseteq now_past
        OBVIOUS
      <4>2. IsFiniteSet(Later(now_past)) /\ IsFiniteSet(Later(A))
        BY <2>9, <4>1, FS_Subset
      <4>3. Cardinality(Later(A)) <= Cardinality(Later(now_past))
        BY <4>1, <4>2, FS_Subset
      <4>4. Cardinality(Later(A)) \in Nat /\ Cardinality(Later(now_past)) \in Nat
        BY <4>2, FS_CardinalityType
      <4>5. Kept(x.def.set) \in Nat
        <5>1. x.def.set.misfire \in {"skip", "latest", "catch_up"}
          BY <1>1 DEF Definition, Setting
        <5>2. QED BY <5>1, ScheduleAssumption DEF Kept
      <4>6. QED BY <2>10, <4>3, <4>4, <4>5
    <3>2. CASE t \in past
      BY <1>7, <2>2, <2>7, <3>1, <3>2
    <3>3. CASE t \in D
      <4>1. t \in Selected(x, u)
        BY <1>1, <2>8, <3>1, <3>3, KeptSelected DEF D
      <4>2. QED BY <1>7, <4>1 DEF Fresh
    <3>4. QED BY <2>6, <3>2, <3>3
  <2>11. Covered(y)
    BY <1>5, <1>8, <2>5, <2>10 DEF Covered, now_past, tr, f
  <2>12. QED BY <2>11 DEF y
<1>9. CASE ~(n \in Nat /\ f \in Nat /\ y.def.next = n)
  <2>1. f \in Nat \cup {None}
    BY <1>1 DEF Definition
  <2>2. y.def.next = None \/ y.def.from = None
    BY <1>3, <1>5, <1>6, <1>9, <2>1
  <2>3. QED BY <2>2 DEF Covered
<1>10. QED BY <1>8, <1>9

\* A cursor that stands where the edit put it has passed nothing.
LEMMA FromHereCovered ==
  ASSUME NEW y \in Automation, y.def.from = y.def.next
  PROVE  Covered(y)
<1>. DEFINE tr == y.def.set.trigger
            c == y.def.next
<1>1. CASE c = None
  BY <1>1 DEF Covered
<1>2. CASE c # None
  <2>1. tr \in Trigger /\ c \in Nat
    BY <1>2 DEF Automation, Definition, Setting
  <2>2. c - 1 \in Int /\ c..(c - 1) = {}
    BY <2>1
  <2>3. Fires(tr, c, c - 1) = {}
    BY <2>1, <2>2, FiresFacts
  <2>4. c <= c /\ Reaches(tr, c, c)
    BY <2>1 DEF Reaches
  <2>5. QED BY <2>3, <2>4 DEF Covered
<1>3. QED BY <1>1, <1>2

LEMMA SameCovered ==
  ASSUME NEW x, NEW y, y.def = x.def, Covered(x), \A t : Recorded(x, t) => Recorded(y, t)
  PROVE  Covered(y)
BY DEF Covered

LEMMA ChangesCovered ==
  ASSUME now \in Nat, NEW x, NEW y, Sound(x), Sound(y), Changes(x, y), Covered(x)
  PROVE  Covered(y)
<1>1. x \in Automation /\ y \in Automation
  BY DEF Sound
<1>2. CASE Edited(x, y)
  BY <1>1, <1>2, FromHereCovered DEF Edited
<1>3. CASE Ordered(x, y)
  <2>1. PICK e \in Entry : e.manual /\ y.log = Append(x.log, e)
    BY <1>3 DEF Ordered
  <2>2. x.log \in Seq(Entry)
    BY <1>1 DEF Automation
  <2>3. \A i \in DOMAIN x.log : i \in DOMAIN y.log /\ y.log[i] = x.log[i]
    BY <2>1, <2>2
  <2>4. \A t : Recorded(x, t) => Recorded(y, t)
    BY <2>3 DEF Recorded, Scheduled
  <2>5. QED BY <1>3, <2>4, SameCovered DEF Ordered
<1>4. CASE Moved(x, y)
  <2>1. PICK i \in DOMAIN x.log, st \in SeenStatus :
          y.log = [x.log EXCEPT ![i] =
            [x.log[i] EXCEPT !.st = st, !.retried = x.log[i].retried \/ x.log[i].st \in Retriable]]
    BY <1>4 DEF Moved
  <2>2. x.log[i] \in Entry
    BY <1>1 DEF Automation
  <2>3. \A j \in DOMAIN x.log : /\ j \in DOMAIN y.log
                                /\ y.log[j].at = x.log[j].at /\ y.log[j].manual = x.log[j].manual
    BY <2>1, <2>2 DEF Entry
  <2>4. \A t : Recorded(x, t) => Recorded(y, t)
    BY <2>3 DEF Recorded, Scheduled
  <2>5. QED BY <1>4, <2>4, SameCovered DEF Moved
<1>5. CASE Passed(x, y)
  BY <1>5, PassedCovered DEF Passed
<1>6. QED BY <1>2, <1>3, <1>4, <1>5 DEF Changes

Recording == \A a \in Automations : Covered(mem[a]) /\ Covered(disk[a])

LEMMA StepRecording ==
  ASSUME IInv, Recording, [Next]_vars
  PROVE  Recording'
<1>1. IInv' /\ Changed /\ now \in Nat
  BY StepSound, StepChanges DEF IInv, Times
<1>2. ASSUME NEW a \in Automations
      PROVE  /\ Covered(mem[a])' <=> Covered(mem'[a])
             /\ Covered(disk[a])' <=> Covered(disk'[a])
  BY DEF Covered, Recorded, Scheduled, Kept, Fires, Reaches
<1>3. CASE mem' = disk /\ disk' = disk
  <2>1. ASSUME NEW a \in Automations PROVE Covered(mem'[a]) /\ Covered(disk'[a])
    BY <1>3 DEF Recording
  <2>2. QED BY <1>2, <2>1 DEF Recording
<1>4. CASE (\A a \in Automations : Changes(mem[a], mem'[a])) /\ disk' \in {disk, mem'}
  <2>1. ASSUME NEW a \in Automations PROVE Covered(mem'[a])
    <3>1. Sound(mem[a]) /\ Sound(mem'[a]) /\ Covered(mem[a])
      BY <1>1 DEF IInv, Recording, Sound, RecordedOnce, Alone, Scheduled, Waits
    <3>2. QED BY <1>1, <1>4, <3>1, ChangesCovered
  <2>2. ASSUME NEW a \in Automations PROVE Covered(disk'[a])
    BY <1>4, <2>1 DEF Recording
  <2>3. QED BY <1>2, <2>1, <2>2 DEF Recording
<1>5. QED BY <1>1, <1>3, <1>4 DEF Changed

\* Whatever was edited, failed to be written or crashed: the last due times before the
\* cursor, as many as the misfire policy keeps, have their records, in memory and in
\* the snapshot.
THEOREM NothingKeptIsLost == Spec => []RecentOccurrencesRecorded
<1>1. Init => IInv /\ Recording
  <2>. SUFFICES ASSUME Init PROVE IInv /\ Recording
    OBVIOUS
  <2>1. Covered(Absent)
    BY DEF Absent, Covered
  <2>2. QED BY <2>1, InitSound DEF Init, Recording
<1>2. IInv /\ Recording /\ [Next]_vars => (IInv /\ Recording)'
  BY StepSound, StepRecording
<1>3. Recording => RecentOccurrencesRecorded
  BY DEF Recording, RecentOccurrencesRecorded, Stored, Covered
<1>4. QED BY <1>1, <1>2, <1>3, PTL DEF Spec
=============================================================================
