----------------------- MODULE AutomationScheduleProofs -----------------------
(***************************************************************************)
(* Proofs about AutomationSchedule, for every set of automations, settings *)
(* and bounds: type correctness, that an occurrence has one execution      *)
(* record, and that overlap_policy "skip" lets one occurrence be active at *)
(* a time.  All three are statements about one stored automation, so the   *)
(* proof shows for each way the store changes an automation that the       *)
(* result is sound if the automation was, and only then looks at Next.     *)
(***************************************************************************)
EXTENDS AutomationSchedule, FiniteSetTheorems, WellFoundedInduction, TLAPS

RecordedOnce(x) == \A i, j \in Scheduled(x) : x.log[i].at = x.log[j].at => i = j

Waits(e) == ~e.manual /\ e.st \in SeenActive /\ e.policy = "skip" /\ ~e.retried
Alone(x) == \A i, j \in DOMAIN x.log : Waits(x.log[i]) /\ Waits(x.log[j]) => i = j

Sound(x) == x \in Automation /\ RecordedOnce(x) /\ Alone(x)

\* The inductive invariant.
IInv ==
  /\ \A a \in Automations : Sound(mem[a]) /\ Sound(disk[a])
  /\ mem \in [Automations -> Automation] /\ disk \in [Automations -> Automation]
  /\ now \in Times
  /\ faults \in 0..MaxFaults

-----------------------------------------------------------------------------
(* Sets of times, and the sequence of a set.                                *)

\* A set of natural numbers has a least element.
LEMMA LeastExists ==
  ASSUME NEW S \in SUBSET Nat, S # {}
  PROVE  Min(S) \in S /\ \A y \in S : Min(S) <= y
<1>1. PICK x \in S : \A y \in S : ~(<<y, x>> \in OpToRel(<, Nat))
  BY NatLessThanWellFounded, WFMin, Zenon
<1>2. ASSUME NEW y \in S, y < x PROVE FALSE
  <2>1. <<y, x>> \in Nat \X Nat
    OBVIOUS
  <2>2. <<y, x>>[1] < <<y, x>>[2]
    BY <1>2
  <2>3. <<y, x>> \in OpToRel(<, Nat)
    BY <2>1, <2>2 DEF OpToRel
  <2>4. QED BY <2>3, <1>1
<1>3. \A y \in S : x <= y
  BY <1>2
<1>4. QED
  BY <1>3 DEF Min

\* A bounded one has a greatest.
LEMMA GreatestExists ==
  ASSUME NEW u \in Nat, NEW S \in SUBSET (0..u), S # {}
  PROVE  Max(S) \in S /\ \A y \in S : Max(S) >= y
<1>. DEFINE D == {u - t : t \in S}
<1>1. D \in SUBSET Nat /\ D # {}
  <2>1. \A t \in S : t \in 0..u
    OBVIOUS
  <2>2. \A t \in S : u - t \in Nat
    BY <2>1
  <2>3. QED BY <2>2
<1>2. PICK d \in D : \A y \in D : d <= y
  BY <1>1, LeastExists
<1>3. PICK t \in S : d = u - t
  BY <1>2
<1>4. \A y \in S : t >= y
  BY <1>2, <1>3
<1>5. QED
  BY <1>4 DEF Max

\* The elements of a finite set, each once.
LEMMA SetToSeqFacts ==
  ASSUME NEW S, IsFiniteSet(S)
  PROVE  /\ Cardinality(S) \in Nat
         /\ SetToSeq(S) \in [1..Cardinality(S) -> S]
         /\ SetToSeq(S) \in Seq(S)
         /\ Len(SetToSeq(S)) = Cardinality(S)
         /\ \A i, j \in 1..Cardinality(S) : SetToSeq(S)[i] = SetToSeq(S)[j] => i = j
<1>1. Cardinality(S) \in Nat /\ ExistsBijection(1..Cardinality(S), S)
  BY FS_CardinalityType
<1>2. PICK f \in [1..Cardinality(S) -> S] : IsInjective(f)
  BY <1>1 DEF ExistsBijection, Bijection, Injection
<1>3. SetToSeq(S) \in [1..Cardinality(S) -> S] /\ IsInjective(SetToSeq(S))
  BY <1>2 DEF SetToSeq
<1>4. QED
  BY <1>1, <1>3 DEF IsInjective

\* The statuses the schedule sees.
LEMMA StatusFacts ==
  /\ SeenActive = {"pending", "running"}
  /\ SeenStatus = {"pending", "running", "completed", "dead_letter", "skipped",
                   "budget_limited"}
BY DEF SeenActive, SeenStatus, Seen, Active, Terminal

\* A search for the next run finds a time, finds none, or raises.
LEMMA NextRunType ==
  ASSUME NEW tr \in Trigger, NEW after \in Int, after >= -1
  PROVE  NextRun(tr, after) \in Nat \cup {None, Raises}
<1>1. /\ tr.type \in {"once", "interval", "cron"}
      /\ tr.at \subseteq Nat /\ tr.every \in Nat \ {0}
  BY DEF Trigger
<1>2. CASE tr.type = "once"
  <2>1. NextOnce(tr, after) \in Nat \cup {None}
    BY <1>1, LeastExists DEF NextOnce
  <2>2. QED BY <1>2, <2>1 DEF NextRun
<1>3. CASE tr.type = "interval"
  BY <1>1, <1>3 DEF NextRun
<1>4. CASE tr.type = "cron"
  <2>. DEFINE found == {t \in tr.at : after < t /\ t <= after + Horizon}
  <2>1. CASE found = {}
    BY <1>4, <2>1 DEF NextRun, NextCron
  <2>2. CASE found # {}
    <3>1. Min(found) \in Nat
      BY <1>1, <2>2, LeastExists
    <3>2. QED BY <1>4, <2>2, <3>1 DEF NextRun, NextCron
  <2>3. QED BY <2>1, <2>2
<1>5. QED
  BY <1>1, <1>2, <1>3, <1>4

-----------------------------------------------------------------------------
(* A pass of materialize_due over one automation.                           *)

\* The cursor is among the due times, and those are not after the clock.
LEMMA DueFacts ==
  ASSUME NEW x \in Automation, NEW u \in Nat, IsDue(x, u)
  PROVE  /\ Due(x, u) \in SUBSET (0..u)
         /\ x.def.next \in Due(x, u)
         /\ Max(Due(x, u)) \in Due(x, u)
<1>. DEFINE next == x.def.next
            fires == Fires(x.def.set.trigger, next, u)
<1>1. next \in Nat /\ next <= u
  BY DEF IsDue, Automation, Definition, None
<1>2. fires \subseteq next..u /\ next \in fires
  <2>1. next \in next..u
    BY <1>1
  <2>2. QED BY <2>1 DEF Fires
<1>. HIDE DEF fires
<1>3. {v \in fires : v < next} = {}
  <2>1. \A v \in next..u : ~(v < next)
    BY <1>1
  <2>2. QED BY <1>2, <2>1
<1>4. Cardinality({v \in fires : v < next}) = 0
  BY <1>3, FS_EmptySet
<1>5. Batch \in Nat \ {0}
  BY ScheduleAssumption DEF ScheduleAssumption
<1>6. next \in Due(x, u)
  <2>1. 0 < Batch
    BY <1>5
  <2>2. QED BY <1>2, <1>4, <2>1 DEF Due, fires
<1>7. next..u \subseteq 0..u
  BY <1>1
<1>8. Due(x, u) \in SUBSET (0..u)
  BY <1>2, <1>7 DEF Due, fires
<1>9. QED
  BY <1>6, <1>8, GreatestExists

\* The fresh occurrences are finitely many times without a record.
LEMMA FreshFacts ==
  ASSUME NEW x \in Automation, NEW u \in Nat, IsDue(x, u)
  PROVE  /\ Fresh(x, u) \in SUBSET Nat
         /\ IsFiniteSet(Fresh(x, u))
         /\ \A t \in Fresh(x, u) : ~Recorded(x, t)
<1>1. x.def.set.misfire \in {"skip", "latest", "catch_up"}
  BY DEF Automation, Definition, Setting
<1>2. Selected(x, u) \subseteq Due(x, u)
  BY <1>1, DueFacts DEF Selected
<1>3. Fresh(x, u) \subseteq 0..u
  BY <1>2, DueFacts DEF Fresh
<1>4. IsFiniteSet(0..u)
  BY FS_Interval
<1>5. IsFiniteSet(Fresh(x, u))
  BY <1>3, <1>4, FS_Subset
<1>6. QED
  BY <1>3, <1>5 DEF Fresh

\* Each new record is for a fresh time of its own.
LEMMA NewEntriesFacts ==
  ASSUME NEW x \in Automation, NEW u \in Nat, IsDue(x, u)
  PROVE  /\ NewEntries(x, u) \in Seq(Entry)
         /\ \A i \in DOMAIN NewEntries(x, u) :
              LET e == NewEntries(x, u)[i]
              IN /\ e.at \in Fresh(x, u) /\ e.at \in Nat
                 /\ e.manual = FALSE /\ e.policy = x.def.set.overlap
                 /\ e.st = Decision(x, u, e.at)
         /\ \A i, j \in DOMAIN NewEntries(x, u) :
              NewEntries(x, u)[i].at = NewEntries(x, u)[j].at => i = j
<1>. DEFINE n == Cardinality(Fresh(x, u))
            times == SetToSeq(Fresh(x, u))
            new == NewEntries(x, u)
<1>1. /\ n \in Nat /\ times \in [1..n -> Fresh(x, u)] /\ Len(times) = n
      /\ \A i, j \in 1..n : times[i] = times[j] => i = j
  BY FreshFacts, SetToSeqFacts
<1>2. new = [i \in 1..n |->
               [at |-> times[i], manual |-> FALSE, st |-> Decision(x, u, times[i]),
                policy |-> x.def.set.overlap, retried |-> FALSE]]
  BY <1>1 DEF NewEntries
<1>3. \A t : Decision(x, u, t) \in SeenStatus
  BY StatusFacts DEF Decision
<1>4. x.def.set.overlap \in {"skip", "allow"}
  BY DEF Automation, Definition, Setting
<1>5. \A i \in 1..n : times[i] \in Fresh(x, u) /\ times[i] \in Nat
  BY <1>1, FreshFacts
<1>6. \A i \in 1..n : new[i] \in Entry
  BY <1>2, <1>3, <1>4, <1>5 DEF Entry
<1>7. new \in [1..n -> Entry]
  BY <1>2, <1>6
<1>8. new \in Seq(Entry) /\ DOMAIN new = 1..n
  BY <1>1, <1>7
<1>9. QED
  BY <1>1, <1>2, <1>5, <1>8

\* An appended log keeps its old entries and adds the new ones.
LEMMA ConcatFacts ==
  ASSUME NEW s \in Seq(Entry), NEW t \in Seq(Entry), NEW i \in DOMAIN (s \o t)
  PROVE  \/ i \in DOMAIN s /\ (s \o t)[i] = s[i]
         \/ i - Len(s) \in DOMAIN t /\ (s \o t)[i] = t[i - Len(s)] /\ i \in Nat
BY DEF Entry

\* The definition a pass leaves behind.
LEMMA AdvancedType ==
  ASSUME NEW d \in Definition, NEW cursor \in Nat \cup {None}
  PROVE  Advanced(d, cursor) \in Definition
<1>1. [d EXCEPT !.next = cursor] \in Definition
  BY DEF Definition
<1>2. d.rev + 1 \in Nat
  BY DEF Definition
<1>3. [d EXCEPT !.next = None, !.st = "paused", !.rev = d.rev + 1] \in Definition
  BY <1>2 DEF Definition
<1>4. QED
  BY <1>1, <1>3, Zenon DEF Advanced

\* A pass that does not raise keeps an automation sound.
LEMMA MaterializedSound ==
  ASSUME NEW x, Sound(x), NEW u \in Nat, IsDue(x, u), ~Poisoned(x, u)
  PROVE  Sound(Materialized(x, u))
<1>. DEFINE new == NewEntries(x, u)
            log == x.log \o new
            m == Materialized(x, u)
<1>1. x \in Automation /\ x.def \in Definition /\ x.log \in Seq(Entry)
  BY DEF Sound, Automation
<1>2. m \in Automation
  <2>1. x.def.set.trigger \in Trigger
    BY <1>1 DEF Definition, Setting
  <2>2. Max(Due(x, u)) \in Due(x, u) /\ Max(Due(x, u)) \in Nat
    BY <1>1, DueFacts
  <2>3. NextRun(x.def.set.trigger, Max(Due(x, u))) \in Nat \cup {None}
    <3>1. NextRun(x.def.set.trigger, Max(Due(x, u))) # Raises
      BY <2>2 DEF Poisoned
    <3>2. QED BY <2>1, <2>2, <3>1, NextRunType
  <2>4. m.def \in Definition
    <3>. DEFINE cursor == NextRun(x.def.set.trigger, Max(Due(x, u)))
    <3>1. cursor \in Nat \cup {None}
      BY <2>3
    <3>2. m.def = Advanced(x.def, cursor)
      BY DEF Materialized
    <3>3. Advanced(x.def, cursor) \in Definition
      BY <1>1, <3>1, AdvancedType
    <3>4. QED BY <3>2, <3>3
  <2>5. log \in Seq(Entry)
    <3>1. new \in Seq(Entry)
      BY <1>1, NewEntriesFacts
    <3>. HIDE DEF new
    <3>2. QED BY <1>1, <3>1
  <2>6. QED
    BY <2>4, <2>5 DEF Materialized, Automation
<1>3. m.log = log
  BY DEF Materialized
<1>4. \A i \in DOMAIN log :
        \/ i \in DOMAIN x.log /\ log[i] = x.log[i]
        \/ i - Len(x.log) \in DOMAIN new /\ log[i] = new[i - Len(x.log)] /\ i \in Nat
  BY <1>1, NewEntriesFacts, ConcatFacts
<1>5. Len(x.log) \in Nat
  BY <1>1
<1>6. RecordedOnce(m)
  <2>1. SUFFICES ASSUME NEW i \in DOMAIN log, NEW j \in DOMAIN log,
                        ~log[i].manual, ~log[j].manual, log[i].at = log[j].at
                 PROVE  i = j
    BY <1>3 DEF RecordedOnce, Scheduled
  <2>2. ASSUME NEW a \in DOMAIN x.log, ~x.log[a].manual, NEW b \in DOMAIN new,
               x.log[a].at = new[b].at
        PROVE  FALSE
    <3>1. new[b].at \in Fresh(x, u)
      BY <1>1, NewEntriesFacts
    <3>2. ~Recorded(x, new[b].at)
      BY <1>1, <3>1, FreshFacts
    <3>3. Recorded(x, new[b].at)
      BY <2>2 DEF Recorded, Scheduled
    <3>4. QED BY <3>2, <3>3
  <2>3. CASE i \in DOMAIN x.log /\ log[i] = x.log[i]
             /\ j \in DOMAIN x.log /\ log[j] = x.log[j]
    BY <2>1, <2>3 DEF Sound, RecordedOnce, Scheduled
  <2>4. CASE /\ i - Len(x.log) \in DOMAIN new /\ log[i] = new[i - Len(x.log)] /\ i \in Nat
             /\ j - Len(x.log) \in DOMAIN new /\ log[j] = new[j - Len(x.log)] /\ j \in Nat
    <3>1. i - Len(x.log) = j - Len(x.log)
      BY <1>1, <2>1, <2>4, NewEntriesFacts
    <3>2. QED BY <1>5, <2>4, <3>1
  <2>5. QED
    BY <1>4, <2>1, <2>2, <2>3, <2>4
<1>7. Alone(m)
  <2>1. SUFFICES ASSUME NEW i \in DOMAIN log, NEW j \in DOMAIN log,
                        Waits(log[i]), Waits(log[j])
                 PROVE  i = j
    BY <1>3 DEF Alone
  <2>2. \A b \in DOMAIN new :
          Waits(new[b]) =>
            /\ ~HasActive(x)
            /\ \A v \in Fresh(x, u) : ~(v < new[b].at)
            /\ new[b].at \in Fresh(x, u)
    <3>1. TAKE b \in DOMAIN new
    <3>2. HAVE Waits(new[b])
    <3>3. new[b].st \in {"pending", "running"} /\ x.def.set.overlap = "skip"
      BY <1>1, <3>2, NewEntriesFacts, StatusFacts DEF Waits
    <3>4. /\ new[b].st = Decision(x, u, new[b].at)
          /\ new[b].at \in Fresh(x, u)
      BY <1>1, NewEntriesFacts
    <3>5. QED
      BY <3>3, <3>4 DEF Decision
  <2>3. \A a \in DOMAIN x.log : Waits(x.log[a]) => HasActive(x)
    BY DEF Waits, HasActive, Holding
  <2>4. CASE i \in DOMAIN x.log /\ log[i] = x.log[i]
             /\ j \in DOMAIN x.log /\ log[j] = x.log[j]
    BY <2>1, <2>4 DEF Sound, Alone
  <2>5. CASE /\ i - Len(x.log) \in DOMAIN new /\ log[i] = new[i - Len(x.log)] /\ i \in Nat
             /\ j - Len(x.log) \in DOMAIN new /\ log[j] = new[j - Len(x.log)] /\ j \in Nat
    <3>1. Waits(new[i - Len(x.log)]) /\ Waits(new[j - Len(x.log)])
      BY <2>1, <2>5
    <3>. DEFINE s == new[i - Len(x.log)].at
                t == new[j - Len(x.log)].at
    <3>2. s \in Fresh(x, u) /\ t \in Fresh(x, u) /\ s \in Nat /\ t \in Nat
      BY <1>1, <2>5, NewEntriesFacts
    <3>3. s = t
      <4>1. ~(s < t) /\ ~(t < s)
        BY <2>2, <2>5, <3>1, <3>2
      <4>. HIDE DEF s, t
      <4>2. QED BY <3>2, <4>1
    <3>4. i - Len(x.log) = j - Len(x.log)
      BY <1>1, <2>5, <3>3, NewEntriesFacts
    <3>5. QED BY <1>5, <2>5, <3>4
  <2>6. QED
    BY <1>4, <2>1, <2>2, <2>3, <2>4, <2>5
<1>8. QED
  BY <1>2, <1>6, <1>7 DEF Sound

-----------------------------------------------------------------------------
(* The other ways the store changes an automation.                          *)

\* An edit leaves the records alone.
LEMMA EditedSound ==
  ASSUME NEW x, Sound(x), NEW d \in Definition
  PROVE  Sound([x EXCEPT !.def = d])
<1>. DEFINE y == [x EXCEPT !.def = d]
<1>1. y \in Automation /\ y.log = x.log
  BY DEF Sound, Automation
<1>2. QED
  BY <1>1 DEF Sound, RecordedOnce, Scheduled, Alone

\* A run-now execution is not an occurrence of the schedule.
LEMMA RunNowSound ==
  ASSUME NEW x, Sound(x), NEW e \in Entry, e.manual
  PROVE  Sound([x EXCEPT !.log = Append(@, e)])
<1>. DEFINE y == [x EXCEPT !.log = Append(@, e)]
<1>1. x \in Automation /\ x.log \in Seq(Entry)
  BY DEF Sound, Automation
<1>2. y \in Automation /\ y.log = Append(x.log, e)
  BY <1>1 DEF Automation
<1>3. \A i \in DOMAIN y.log : (i \in DOMAIN x.log /\ y.log[i] = x.log[i]) \/ y.log[i] = e
  BY <1>1, <1>2
<1>4. RecordedOnce(y)
  BY <1>3 DEF Sound, RecordedOnce, Scheduled
<1>5. Alone(y)
  BY <1>3 DEF Sound, Alone, Waits
<1>6. QED
  BY <1>2, <1>4, <1>5 DEF Sound

\* Only an operator's retry makes an execution active again.
LEMMA MovedSound ==
  ASSUME NEW x, Sound(x), NEW i \in DOMAIN x.log, NEW st \in SeenStatus,
         <<x.log[i].st, st>> \in Moves
  PROVE  Sound([x EXCEPT !.log[i] =
           [x.log[i] EXCEPT !.st = st,
                            !.retried = x.log[i].retried \/ x.log[i].st \in Retriable]])
<1>. DEFINE e == [x.log[i] EXCEPT !.st = st,
                    !.retried = x.log[i].retried \/ x.log[i].st \in Retriable]
            y == [x EXCEPT !.log[i] = e]
<1>1. x \in Automation /\ x.log \in Seq(Entry) /\ x.log[i] \in Entry
  BY DEF Sound, Automation
<1>2. e \in Entry
  BY <1>1 DEF Entry
<1>3. /\ y.log = [x.log EXCEPT ![i] = e] /\ y.def = x.def
      /\ y = [def |-> x.def, log |-> [x.log EXCEPT ![i] = e]]
  <2>. HIDE DEF e
  <2>1. x = [def |-> x.def, log |-> x.log]
    BY <1>1 DEF Automation
  <2>2. y = [x EXCEPT !.log = [x.log EXCEPT ![i] = e]]
    BY <1>1 DEF Automation
  <2>3. QED BY <2>1, <2>2
<1>4. y.log \in Seq(Entry) /\ DOMAIN y.log = DOMAIN x.log
  BY <1>1, <1>2, <1>3
<1>5. y \in Automation
  BY <1>1, <1>3, <1>4 DEF Automation
<1>6. e.at = x.log[i].at /\ e.manual = x.log[i].manual /\ e.policy = x.log[i].policy
  BY <1>1 DEF Entry
<1>7. RecordedOnce(y)
  <2>1. \A j \in DOMAIN y.log :
          j \in DOMAIN x.log /\ y.log[j].at = x.log[j].at
            /\ y.log[j].manual = x.log[j].manual
    BY <1>3, <1>4, <1>6
  <2>2. QED
    BY <2>1 DEF Sound, RecordedOnce, Scheduled
<1>8. Waits(e) => Waits(x.log[i])
  <2>1. HAVE Waits(e)
  <2>2. st \in {"pending", "running"}
    BY <1>1, <2>1, StatusFacts DEF Waits, Entry
  <2>3. x.log[i].st \notin Retriable /\ ~x.log[i].retried
    BY <1>1, <2>1 DEF Waits, Entry
  <2>4. x.log[i].st \in {"pending", "running"}
    BY <2>2, <2>3 DEF Moves, Retriable
  <2>5. QED
    BY <1>6, <2>1, <2>3, <2>4, StatusFacts DEF Waits
<1>9. Alone(y)
  BY <1>3, <1>4, <1>8 DEF Sound, Alone
<1>10. QED
  BY <1>5, <1>7, <1>9 DEF Sound

-----------------------------------------------------------------------------
(* Steps.                                                                   *)

\* A new value for one automation.
LEMMA PutSound ==
  ASSUME IInv, NEW a \in Automations, NEW x, Sound(x)
  PROVE  /\ Put(a, x) \in [Automations -> Automation]
         /\ \A b \in Automations : Sound(Put(a, x)[b])
BY DEF IInv, Put, Sound

\* A write that succeeds or fails.
LEMMA WriteSound ==
  ASSUME IInv, NEW m \in [Automations -> Automation],
         \A b \in Automations : Sound(m[b]), Write(m), now' = now
  PROVE  IInv'
<1>1. MaxFaults \in Nat
  BY ScheduleAssumption DEF ScheduleAssumption
<1>2. mem' = m /\ disk' \in {m, disk} /\ faults' \in 0..MaxFaults
  BY <1>1 DEF Write, Save, SaveFails, Fault, IInv
<1>3. /\ mem' \in [Automations -> Automation] /\ disk' \in [Automations -> Automation]
      /\ \A b \in Automations : Sound(mem'[b]) /\ Sound(disk'[b])
  BY <1>2 DEF IInv
<1>4. now' \in Times
  BY DEF IInv, Times
<1>5. QED
  BY <1>2, <1>3, <1>4 DEF IInv, Sound, RecordedOnce, Alone, Scheduled, Waits

\* A change in memory alone.
LEMMA MemorySound ==
  ASSUME IInv, NEW m \in [Automations -> Automation],
         \A b \in Automations : Sound(m[b]), mem' = m, UNCHANGED <<disk, now, faults>>
  PROVE  IInv'
BY DEF IInv, Sound, RecordedOnce, Alone, Scheduled, Waits

\* The next run of an edit that is not refused.
LEMMA RescheduledType ==
  ASSUME IInv, NEW set \in Setting, NEW st, Rescheduled(set, st) # Raises
  PROVE  Rescheduled(set, st) \in Nat \cup {None}
<1>1. now - 1 \in Int /\ now - 1 >= -1 /\ set.trigger \in Trigger
  BY DEF IInv, Times, Setting
<1>2. QED
  BY <1>1, NextRunType DEF Rescheduled

\* The settings an edit asks for.
LEMMA SettingsFacts ==
  /\ Settings \subseteq Setting
  /\ (CHOOSE s \in Settings : TRUE) \in Setting
BY ScheduleAssumption DEF ScheduleAssumption

\* The automation nobody has created.
LEMMA AbsentSound == Sound(Absent)
<1>1. Absent \in Automation
  BY SettingsFacts DEF Absent, Automation, Definition
<1>2. DOMAIN Absent.log = {}
  BY DEF Absent
<1>3. QED
  BY <1>1, <1>2 DEF Sound, RecordedOnce, Alone, Scheduled

\* create_definition keeps the invariant.
LEMMA CreateKeeps ==
  ASSUME IInv, NEW a \in Automations, CreateDefinition(a)
  PROVE  IInv'
<1>1. PICK set \in Settings, st \in DefinitionStatus :
        LET next == Rescheduled(set, st)
        IN /\ next # Raises
           /\ Write(Put(a, [def |-> [st |-> st, set |-> set, rev |-> 1, next |-> next,
                                     from |-> next],
                            log |-> <<>>]))
  BY DEF CreateDefinition
<1>. DEFINE d == [st |-> st, set |-> set, rev |-> 1, next |-> Rescheduled(set, st),
                  from |-> Rescheduled(set, st)]
<1>2. d \in Definition
  BY <1>1, SettingsFacts, RescheduledType DEF Definition, DefinitionStatus
<1>. HIDE DEF d
<1>3. Sound([Absent EXCEPT !.def = d])
  BY <1>2, AbsentSound, EditedSound
<1>4. [Absent EXCEPT !.def = d] = [def |-> d, log |-> <<>>]
  <2>1. Absent = [def |-> Absent.def, log |-> <<>>]
    BY DEF Absent
  <2>2. QED BY <2>1
<1>5. Write(Put(a, [def |-> d, log |-> <<>>]))
  BY <1>1 DEF d
<1>6. QED
  BY <1>3, <1>4, <1>5, PutSound, WriteSound DEF CreateDefinition

\* update_definition and set_status keep it.
LEMMA UpdateKeeps ==
  ASSUME IInv, NEW a \in Automations, UpdateDefinition(a)
  PROVE  IInv'
<1>1. PICK set \in Settings \cup {mem[a].def.set}, st \in DefinitionStatus :
        LET next == Rescheduled(set, st)
        IN /\ next # Raises
           /\ Write(Put(a, [mem[a] EXCEPT
                !.def = [st |-> st, set |-> set, rev |-> mem[a].def.rev + 1, next |-> next,
                         from |-> next]]))
  BY DEF UpdateDefinition
<1>. DEFINE d == [st |-> st, set |-> set, rev |-> mem[a].def.rev + 1,
                  next |-> Rescheduled(set, st), from |-> Rescheduled(set, st)]
<1>2. Sound(mem[a]) /\ mem[a].def \in Definition
  BY DEF IInv, Sound, Automation
<1>3. set \in Setting /\ mem[a].def.rev + 1 \in Nat
  BY <1>2, SettingsFacts DEF Definition
<1>4. d \in Definition
  BY <1>1, <1>3, RescheduledType DEF Definition, DefinitionStatus
<1>5. QED
  BY <1>1, <1>2, <1>4, EditedSound, PutSound, WriteSound DEF UpdateDefinition

\* So does an edit that is refused half way.
LEMMA RefuseKeeps ==
  ASSUME IInv, NEW a \in Automations, RefuseUpdate(a)
  PROVE  IInv'
<1>. DEFINE d == mem[a].def
<1>1. Sound(mem[a]) /\ mem[a] \in Automation /\ d \in Definition
  BY DEF IInv, Sound, Automation
<1>2. PICK set \in Settings, k \in 1..4 :
        \/ mem' = Put(a, [mem[a] EXCEPT !.def.set = Patched(d.set, set, k),
                                        !.def.from = d.next])
        \/ mem' = Put(a, [mem[a] EXCEPT !.def.set = Patched(d.set, set, k),
                                        !.def.from = d.next, !.def.st = "scheduled"])
  BY DEF RefuseUpdate
<1>. DEFINE kept == Patched(d.set, set, k)
<1>3. kept \in Setting
  <2>1. d.set \in Setting /\ set \in Setting
    BY <1>1, SettingsFacts DEF Definition
  <2>2. QED BY <2>1 DEF Patched, Setting
<1>. HIDE DEF kept
<1>4. \A st \in {d.st, "scheduled"} :
        [d EXCEPT !.set = kept, !.from = d.next, !.st = st] \in Definition
  BY <1>1, <1>3 DEF Definition
<1>5. \A st \in {d.st, "scheduled"} :
        Sound([mem[a] EXCEPT !.def = [d EXCEPT !.set = kept, !.from = d.next, !.st = st]])
  BY <1>1, <1>4, EditedSound
<1>6. [mem[a] EXCEPT !.def.set = kept, !.def.from = d.next]
        = [mem[a] EXCEPT !.def = [d EXCEPT !.set = kept, !.from = d.next, !.st = d.st]]
  BY <1>1 DEF Automation, Definition
<1>7. [mem[a] EXCEPT !.def.set = kept, !.def.from = d.next, !.def.st = "scheduled"]
        = [mem[a] EXCEPT !.def =
             [d EXCEPT !.set = kept, !.from = d.next, !.st = "scheduled"]]
  BY <1>1 DEF Automation, Definition
<1>8. PICK x : Sound(x) /\ mem' = Put(a, x)
  BY <1>2, <1>5, <1>6, <1>7 DEF kept
<1>9. UNCHANGED <<disk, now, faults>>
  BY DEF RefuseUpdate
<1>10. QED
  BY <1>8, <1>9, PutSound, MemorySound

\* run_now keeps the invariant.
LEMMA RunNowKeeps ==
  ASSUME IInv, NEW a \in Automations, RunNow(a)
  PROVE  IInv'
<1>. DEFINE e == [at |-> now, manual |-> TRUE, st |-> "pending",
                  policy |-> mem[a].def.set.overlap, retried |-> FALSE]
            x == mem[a]
<1>1. Sound(x) /\ x \in Automation
  BY DEF IInv, Sound
<1>2. now \in Nat /\ x.def.set.overlap \in {"skip", "allow"}
  BY <1>1 DEF IInv, Times, Automation, Definition, Setting
<1>3. "pending" \in SeenStatus
  BY StatusFacts DEF SeenActive
<1>4. e \in Entry /\ e.manual
  BY <1>2, <1>3 DEF Entry
<1>5. Write(Put(a, [x EXCEPT !.log = Append(@, e)])) /\ now' = now
  BY DEF RunNow
<1>. HIDE DEF e, x
<1>6. Sound([x EXCEPT !.log = Append(@, e)])
  BY <1>1, <1>4, RunNowSound
<1>7. QED
  BY <1>5, <1>6, PutSound, WriteSound

\* A step of one execution keeps it.
LEMMA MoveKeeps ==
  ASSUME IInv, NEW a \in Automations, Move(a)
  PROVE  IInv'
<1>1. PICK i \in DOMAIN mem[a].log, st \in SeenStatus :
        /\ <<mem[a].log[i].st, st>> \in Moves
        /\ Save(Put(a, [mem[a] EXCEPT !.log[i] =
             [mem[a].log[i] EXCEPT !.st = st,
                !.retried = mem[a].log[i].retried \/ mem[a].log[i].st \in Retriable]]))
  BY DEF Move
<1>. DEFINE y == [mem[a] EXCEPT !.log[i] =
             [mem[a].log[i] EXCEPT !.st = st,
                !.retried = mem[a].log[i].retried \/ mem[a].log[i].st \in Retriable]]
<1>2. Sound(mem[a])
  BY DEF IInv
<1>3. Sound(y)
  BY <1>1, <1>2, MovedSound
<1>4. Save(Put(a, y)) /\ now' = now
  BY <1>1 DEF Move
<1>. HIDE DEF y
<1>5. QED
  BY <1>3, <1>4, PutSound, WriteSound DEF Write

\* A pass keeps it, whether it ends or an error stops it on the way.
LEMMA MaterializeKeeps ==
  ASSUME IInv, Materialize
  PROVE  IInv'
<1>. DEFINE poison == {a \in Automations : Poisoned(mem[a], now)}
            reached == {a \in Automations : /\ IsDue(mem[a], now)
                                            /\ \A p \in poison : Rank[a] < Rank[p]}
            m == [a \in Automations |->
                    IF a \in reached THEN Materialized(mem[a], now) ELSE mem[a]]
<1>1. /\ IF poison = {} THEN Write(m) ELSE mem' = m /\ UNCHANGED <<disk, faults>>
      /\ UNCHANGED now
  BY DEF Materialize
<1>2. now \in Nat
  BY DEF IInv, Times
<1>3. ASSUME NEW a \in reached PROVE IsDue(mem[a], now) /\ ~Poisoned(mem[a], now)
  <2>1. Rank[a] \in Int
    BY ScheduleAssumption DEF ScheduleAssumption
  <2>2. ~(Rank[a] < Rank[a])
    BY <2>1
  <2>3. QED BY <2>2
<1>4. \A a \in Automations : Sound(m[a])
  <2>. TAKE a \in Automations
  <2>1. Sound(mem[a])
    BY DEF IInv
  <2>2. CASE a \in reached
    <3>1. Sound(Materialized(mem[a], now))
      BY <1>2, <1>3, <2>1, <2>2, MaterializedSound
    <3>2. m[a] = Materialized(mem[a], now)
      BY <2>2
    <3>3. QED BY <3>1, <3>2
  <2>3. CASE a \notin reached
    BY <2>1, <2>3
  <2>4. QED BY <2>2, <2>3
<1>5. m \in [Automations -> Automation]
  <2>. HIDE DEF m
  <2>1. \A a \in Automations : m[a] \in Automation
    BY <1>4 DEF Sound
  <2>2. m = [a \in Automations |-> m[a]]
    BY DEF m
  <2>3. QED BY <2>1, <2>2
<1>. HIDE DEF m, poison
<1>6. QED
  BY <1>1, <1>4, <1>5, WriteSound, MemorySound

\* The invariant at the start, through a step, and what it implies.
LEMMA InitSound == Init => IInv
<1>1. HAVE Init
<1>2. /\ mem \in [Automations -> Automation] /\ disk \in [Automations -> Automation]
      /\ \A a \in Automations : Sound(mem[a]) /\ Sound(disk[a])
  BY <1>1, AbsentSound DEF Init, Sound
<1>3. now \in Times /\ faults \in 0..MaxFaults
  BY <1>1, ScheduleAssumption DEF Init, Times, ScheduleAssumption
<1>4. QED
  BY <1>2, <1>3 DEF IInv

\* Every step keeps the invariant.
LEMMA StepSound == IInv /\ [Next]_vars => IInv'
<1>. SUFFICES ASSUME IInv, [Next]_vars PROVE IInv'
  OBVIOUS
<1>1. ASSUME NEW a \in Automations, CreateDefinition(a) PROVE IInv'
  BY <1>1, CreateKeeps
<1>2. ASSUME NEW a \in Automations, UpdateDefinition(a) PROVE IInv'
  BY <1>2, UpdateKeeps
<1>3. ASSUME NEW a \in Automations, RefuseUpdate(a) PROVE IInv'
  BY <1>3, RefuseKeeps
<1>4. ASSUME NEW a \in Automations, RunNow(a) PROVE IInv'
  BY <1>4, RunNowKeeps
<1>5. CASE Materialize
  BY <1>5, MaterializeKeeps
<1>6. ASSUME NEW a \in Automations, Move(a) PROVE IInv'
  BY <1>6, MoveKeeps
<1>7. CASE Tick
  <2>1. now' \in Times
    BY <1>7, ScheduleAssumption DEF Tick, Times, IInv, ScheduleAssumption
  <2>2. QED
    BY <1>7, <2>1 DEF Tick, IInv, Sound, RecordedOnce, Alone, Scheduled, Waits
<1>8. CASE Crash
  <2>1. faults' \in 0..MaxFaults
    BY <1>8, ScheduleAssumption DEF Crash, Fault, IInv, ScheduleAssumption
  <2>2. QED
    BY <1>8, <2>1 DEF Crash, IInv, Sound, RecordedOnce, Alone, Scheduled, Waits
<1>9. CASE UNCHANGED vars
  BY <1>9 DEF vars, IInv, Sound, RecordedOnce, Alone, Scheduled, Waits
<1>10. QED
  BY <1>1, <1>2, <1>3, <1>4, <1>5, <1>6, <1>7, <1>8, <1>9 DEF Next, Edit

\* Every automation that is stored, in memory or in the snapshot, is sound.
LEMMA Inductive == Spec => []IInv
BY InitSound, StepSound, PTL DEF Spec

-----------------------------------------------------------------------------
(* Results.                                                                 *)

\* The state keeps its types: in particular no error of next_occurrence is
\* ever stored as the next run of a definition.
THEOREM ScheduleTypeCorrect == Spec => []TypeOK
<1>1. IInv => TypeOK
  BY DEF IInv, TypeOK
<1>2. QED
  BY <1>1, Inductive, PTL

\* An occurrence has one execution record, for any number of automations,
\* edits, passes, failed writes and crashes.
THEOREM OneRecordPerOccurrence == Spec => []OccurrenceOnce
<1>1. IInv => OccurrenceOnce
  BY DEF IInv, OccurrenceOnce, Stored, Sound, RecordedOnce
<1>2. QED
  BY <1>1, Inductive, PTL

\* Under overlap_policy "skip" one occurrence is active at a time.
THEOREM OneActiveAtATime == Spec => []OneAtATime
<1>1. IInv => OneAtATime
  <2>. SUFFICES ASSUME IInv, NEW x \in Stored,
                       NEW i \in Scheduled(x) \cap Holding(x, SeenActive),
                       NEW j \in Scheduled(x) \cap Holding(x, SeenActive),
                       x.log[i].policy = "skip", ~x.log[i].retried,
                       x.log[j].policy = "skip", ~x.log[j].retried
                PROVE  i = j
    BY DEF OneAtATime
  <2>1. Alone(x)
    BY DEF IInv, Stored, Sound
  <2>2. Waits(x.log[i]) /\ Waits(x.log[j]) /\ i \in DOMAIN x.log /\ j \in DOMAIN x.log
    BY DEF Waits, Scheduled, Holding
  <2>3. QED
    BY <2>1, <2>2 DEF Alone
<1>2. QED
  BY <1>1, Inductive, PTL
=============================================================================
