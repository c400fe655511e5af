-------------------------- MODULE AgentHandoffProofs --------------------------
(***************************************************************************)
(* Theorems about AgentHandoff.  Every step writes the store in one of     *)
(* five ways (Writes): not at all, to memory and file, to memory only, as  *)
(* time passing or as a crash.  What the file keeps follows from these     *)
(* five, and only the lemmas that establish them look at the operations.   *)
(***************************************************************************)
EXTENDS AgentHandoff, TLAPS

TaskStatus == {"absent"} \cup TaskOpen \cup TaskDecided

-----------------------------------------------------------------------------
(* The store: what an update of a handoff and its task leaves and changes.  *)

LEMMA BothFacts ==
  ASSUME mem \in Store, NEW h \in Handoffs, NEW t \in TaskRecord, NEW r \in HandoffRecord
  PROVE  /\ Both(h, t, r) \in Store
         /\ TaskOf[h] \in Tasks
         /\ Both(h, t, r).task[TaskOf[h]] = t
         /\ \A u \in Tasks : u # TaskOf[h] => Both(h, t, r).task[u] = mem.task[u]
         /\ Both(h, t, r).handoff[h] = r
         /\ \A g \in Handoffs : g # h => Both(h, t, r).handoff[g] = mem.handoff[g]
<1>1. TaskOf[h] \in Tasks
  BY HandoffAssumption
<1>2. mem.task \in [Tasks -> TaskRecord] /\ mem.handoff \in [Handoffs -> HandoffRecord]
  BY DEF Store
<1>. DEFINE T == [mem.task EXCEPT ![TaskOf[h]] = t]
            H == [mem.handoff EXCEPT ![h] = r]
<1>3. Both(h, t, r) = [mem EXCEPT !.task = T, !.handoff = H]
  BY DEF Both
<1>4. T \in [Tasks -> TaskRecord] /\ H \in [Handoffs -> HandoffRecord]
  BY <1>1, <1>2
<1>5. /\ T[TaskOf[h]] = t /\ \A u \in Tasks : u # TaskOf[h] => T[u] = mem.task[u]
      /\ H[h] = r /\ \A g \in Handoffs : g # h => H[g] = mem.handoff[g]
  BY <1>1, <1>2
<1>. HIDE DEF T, H
<1>6. Both(h, t, r) \in Store /\ Both(h, t, r).task = T /\ Both(h, t, r).handoff = H
  BY <1>3, <1>4 DEF Store
<1>7. QED
  BY <1>1, <1>5, <1>6

LEMMA StoreParts ==
  ASSUME NEW m \in Store
  PROVE  /\ \A t \in Tasks : /\ m.task[t] \in TaskRecord /\ m.task[t].st \in TaskStatus
                             /\ m.task[t].bound \in {None} \cup Handoffs
         /\ \A h \in Handoffs : m.handoff[h] \in HandoffRecord
         /\ \A h \in Handoffs : TaskOf[h] \in Tasks
BY HandoffAssumption DEF Store, TaskRecord, TaskStatus

LEMMA HandoffParts ==
  ASSUME NEW r \in HandoffRecord
  PROVE  /\ r.st \in HandoffStatus /\ r.ready \in BOOLEAN /\ r.att \in 0..MaxAttempts
         /\ r.tok \in {None} \cup Tokens /\ r.leased \in BOOLEAN /\ r.due \in BOOLEAN
         /\ r.run \in {None} \cup Tokens /\ r.prior \in {None} \cup Tokens
         /\ r.since \in {None} \cup Tokens
BY DEF HandoffRecord

\* The records that are written.
LEMMA NoHandoffTyped ==
  /\ NoHandoff \in HandoffRecord /\ NoHandoff.st = "absent" /\ NoHandoff.att = 0
  /\ [NoHandoff EXCEPT !.st = "pending"] \in HandoffRecord
  /\ [NoHandoff EXCEPT !.st = "pending"].st = "pending"
  /\ [NoHandoff EXCEPT !.st = "pending"].att = 0
  /\ NoTask \in TaskRecord /\ NoTask.st = "absent"
  /\ [NoTask EXCEPT !.st = "pending"] \in TaskRecord
  /\ [NoTask EXCEPT !.st = "pending"].st = "pending"
<1>. 0 \in 0..MaxAttempts
  BY HandoffAssumption
<1>. QED
  BY DEF NoHandoff, NoTask, HandoffRecord, TaskRecord, HandoffStatus, TaskOpen

LEMMA StatusTyped ==
  ASSUME NEW r \in HandoffRecord, NEW s \in HandoffStatus
  PROVE  /\ [r EXCEPT !.st = s] \in HandoffRecord
         /\ [r EXCEPT !.st = s].st = s /\ [r EXCEPT !.st = s].att = r.att
         /\ [r EXCEPT !.ready = TRUE] \in HandoffRecord
         /\ [r EXCEPT !.ready = TRUE].st = r.st /\ [r EXCEPT !.ready = TRUE].att = r.att
BY DEF HandoffRecord

LEMMA UnleasedTyped ==
  ASSUME NEW q \in HandoffRecord
  PROVE  /\ Unleased(q) \in HandoffRecord /\ Unleased(q).att = q.att
         /\ Unleased(q).ready = q.ready /\ Unleased(q).run = q.run
         /\ q.run \in {None} \cup Tokens
BY DEF Unleased, HandoffRecord

LEMMA DeadLetteredTyped ==
  ASSUME NEW r \in HandoffRecord
  PROVE  /\ DeadLettered(r) \in HandoffRecord
         /\ DeadLettered(r).st = "dead_letter" /\ DeadLettered(r).att = r.att
BY DEF DeadLettered, Unleased, HandoffRecord, HandoffStatus, Ended

LEMMA ClaimedTyped ==
  ASSUME NEW h \in Handoffs, mem.handoff[h] \in HandoffRecord, NEW k \in Tokens,
         mem.handoff[h].att < MaxAttempts
  PROVE  /\ Claimed(h, k) \in HandoffRecord
         /\ Claimed(h, k).st = "accepted" /\ Claimed(h, k).att = mem.handoff[h].att + 1
<1>1. mem.handoff[h].att + 1 \in 0..MaxAttempts
  BY HandoffParts, HandoffAssumption
<1>2. QED
  BY <1>1 DEF Claimed, Handoff, HandoffRecord, HandoffStatus

RequeuedRecord(p, reset, repin, since) ==
  [Unleased(p) EXCEPT
     !.st = "pending", !.ready = TRUE, !.due = TRUE,
     !.att = IF reset THEN 0 ELSE @,
     !.run = IF repin THEN None ELSE @, !.since = since]

LEMMA RequeuedTyped ==
  ASSUME NEW p \in HandoffRecord, NEW reset \in BOOLEAN, NEW repin \in BOOLEAN,
         NEW since \in {None} \cup Tokens
  PROVE  /\ RequeuedRecord(p, reset, repin, since) \in HandoffRecord
         /\ RequeuedRecord(p, reset, repin, since).st = "pending"
         /\ RequeuedRecord(p, reset, repin, since).att = IF reset THEN 0 ELSE p.att
<1>. DEFINE q == Unleased(p)
            att == IF reset THEN 0 ELSE q.att
            run == IF repin THEN None ELSE q.run
            r == [q EXCEPT !.st = "pending", !.ready = TRUE, !.due = TRUE,
                           !.att = IF reset THEN 0 ELSE @,
                           !.run = IF repin THEN None ELSE @, !.since = since]
<1>1. q \in HandoffRecord /\ q.att = p.att
  BY DEF Unleased, HandoffRecord
<1>2. att \in 0..MaxAttempts /\ run \in {None} \cup Tokens
  BY <1>1, HandoffParts, HandoffAssumption
<1>3. r = [q EXCEPT !.st = "pending", !.ready = TRUE, !.due = TRUE,
                    !.att = att, !.run = run, !.since = since]
  OBVIOUS
<1>4. att = IF reset THEN 0 ELSE p.att
  BY <1>1
<1>. HIDE DEF q, att, run, r
<1>5. r \in HandoffRecord /\ r.st = "pending" /\ r.att = att
  BY <1>1, <1>2, <1>3 DEF HandoffRecord, HandoffStatus
<1>6. QED BY <1>4, <1>5 DEF r, q, RequeuedRecord

-----------------------------------------------------------------------------
(* What an operation may make of the tasks and handoffs in memory, and what *)
(* it may leave there when its write fails.                                 *)

Reopened(m, h) ==
  /\ mem.handoff[h].st \in {"retry_wait", "dead_letter"} /\ m.handoff[h].st = "pending"
  /\ mem.task[TaskOf[h]].st \notin {"completed", "cancelled"}
  /\ m.task[TaskOf[h]].st = "pending"

MovesTask(m, t) ==
  /\ mem.task[t].st # "absent" => m.task[t].st # "absent"
  /\ mem.task[t].st \in {"completed", "cancelled"} => m.task[t].st = mem.task[t].st
  /\ mem.task[t].st = "failed" =>
       m.task[t].st = "failed" \/ \E h \in Handoffs : TaskOf[h] = t /\ Reopened(m, h)
  /\ m.task[t].st = "completed" /\ mem.task[t].st # "completed" =>
       \E h \in Handoffs : TaskOf[h] = t /\ m.handoff[h].st = "completed"
  /\ m.task[t].st = "failed" /\ mem.task[t].st # "failed" =>
       \E h \in Handoffs : TaskOf[h] = t /\ m.handoff[h].st \in {"rejected", "dead_letter"}

MovesHandoff(m, h) ==
  /\ mem.handoff[h].st # "absent" => m.handoff[h].st # "absent"
  /\ m.handoff[h].st = "absent" => m.handoff[h].att = mem.handoff[h].att
  /\ m.handoff[h].st # "absent" =>
       mem.handoff[h].st # "absent" \/ m.task[TaskOf[h]].st # "absent"
  /\ mem.handoff[h].st \in Ended =>
       m.handoff[h].st = mem.handoff[h].st \/ Reopened(m, h)
  /\ \/ mem.handoff[h].st = "absent"
     \/ m.handoff[h].att >= mem.handoff[h].att
     \/ requeues' # requeues
  /\ m.handoff[h].st \in {"retry_wait", "dead_letter"} =>
       \/ m.handoff[h].st = mem.handoff[h].st
       \/ m.task[TaskOf[h]].st = "cancelled" \/ proc'[h].pc = "idle"

Move(m) ==
  /\ m \in Store
  /\ \A t \in Tasks : MovesTask(m, t)
  /\ \A h \in Handoffs : MovesHandoff(m, h)

Light(m) ==
  /\ Move(m)
  /\ \A t \in Tasks :
       m.task[t].st = mem.task[t].st \/ (mem.task[t].st = "absent" /\ m.task[t].st = "pending")
  /\ \A h \in Handoffs :
       /\ m.handoff[h].st \in {"retry_wait", "dead_letter"} => mem.handoff[h].st = m.handoff[h].st
       /\ mem.handoff[h].st \in Ended => m.handoff[h].st = mem.handoff[h].st

Quiet == mem' = mem /\ disk' = disk
Saves(m) == mem' = m /\ disk' = m
Keeps(m) == mem' = m /\ disk' = disk

LEMMA BothMoves ==
  ASSUME mem \in Store, NEW h \in Handoffs, NEW t \in TaskRecord, NEW r \in HandoffRecord,
         t.st # "absent" \/ t.st = mem.task[TaskOf[h]].st,
         mem.task[TaskOf[h]].st \in {"completed", "cancelled"} =>
           t.st = mem.task[TaskOf[h]].st,
         mem.task[TaskOf[h]].st = "failed" =>
           t.st = "failed" \/ (mem.handoff[h].st \in {"retry_wait", "dead_letter"}
                               /\ r.st = "pending" /\ t.st = "pending"),
         t.st = "completed" => mem.task[TaskOf[h]].st = "completed" \/ r.st = "completed",
         t.st = "failed" =>
           mem.task[TaskOf[h]].st = "failed" \/ r.st \in {"rejected", "dead_letter"},
         r.st # "absent" \/ (mem.handoff[h].st = "absent" /\ r.att = mem.handoff[h].att),
         mem.handoff[h].st = "absent" /\ r.st # "absent" => t.st # "absent",
         mem.handoff[h].st \in Ended =>
           r.st = mem.handoff[h].st \/
             (mem.handoff[h].st = "dead_letter" /\ r.st = "pending" /\ t.st = "pending"
              /\ mem.task[TaskOf[h]].st \notin {"completed", "cancelled"}),
         mem.handoff[h].st = "absent" \/ r.att >= mem.handoff[h].att \/ requeues' # requeues,
         r.st \in {"retry_wait", "dead_letter"} =>
           r.st = mem.handoff[h].st \/ t.st = "cancelled" \/ proc'[h].pc = "idle"
  PROVE  Move(Both(h, t, r))
<1>. DEFINE m == Both(h, t, r)
<1>1. /\ m \in Store /\ TaskOf[h] \in Tasks
      /\ m.task[TaskOf[h]] = t /\ \A u \in Tasks : u # TaskOf[h] => m.task[u] = mem.task[u]
      /\ m.handoff[h] = r /\ \A g \in Handoffs : g # h => m.handoff[g] = mem.handoff[g]
  BY BothFacts
<1>. HIDE DEF m
<1>2. \A g \in Handoffs : TaskOf[g] \in Tasks /\ mem.handoff[g].att >= mem.handoff[g].att
  BY StoreParts, HandoffParts
<1>3. MovesTask(m, TaskOf[h])
  BY <1>1 DEF MovesTask, Reopened
<1>4. ASSUME NEW u \in Tasks, u # TaskOf[h] PROVE MovesTask(m, u)
  BY <1>1, <1>4 DEF MovesTask
<1>5. MovesHandoff(m, h)
  BY <1>1 DEF MovesHandoff, Reopened
<1>6. ASSUME NEW g \in Handoffs, g # h PROVE MovesHandoff(m, g)
  BY <1>1, <1>2, <1>6 DEF MovesHandoff
<1>7. QED BY <1>1, <1>3, <1>4, <1>5, <1>6 DEF Move, m

\* Updates of a handoff only, or of a task only.
LEMMA HandoffMoves ==
  ASSUME mem \in Store, NEW h \in Handoffs, NEW r \in HandoffRecord,
         r.st # "absent", mem.handoff[h].st # "absent",
         mem.handoff[h].st \in Ended => r.st = mem.handoff[h].st,
         r.st \in {"retry_wait", "dead_letter"} => r.st = mem.handoff[h].st,
         r.att >= mem.handoff[h].att
  PROVE  Light(WithHandoff(h, r))
<1>. DEFINE m == WithHandoff(h, r)
<1>1. mem.task[TaskOf[h]] \in TaskRecord /\ m = Both(h, mem.task[TaskOf[h]], r)
  BY StoreParts DEF WithHandoff, Task
<1>2. Move(m)
  BY <1>1, BothMoves
<1>3. /\ m.handoff[h] = r /\ \A g \in Handoffs : g # h => m.handoff[g] = mem.handoff[g]
      /\ \A t \in Tasks : m.task[t] = mem.task[t]
  BY <1>1, BothFacts
<1>4. QED BY <1>2, <1>3 DEF Light

LEMMA CancelledMoves ==
  ASSUME mem \in Store, NEW t \in Tasks,
         mem.task[t].st \in TaskOpen \cup {"cancelled"} \/ mem.task[t].st = "absent"
  PROVE  Move(CancelledWith(t))
<1>. DEFINE m == CancelledWith(t)
            T == [mem.task EXCEPT ![t].st = "cancelled"]
            ends(h) == TaskOf[h] = t /\ mem.handoff[h].st \notin Ended \cup {"absent"}
            H == [h \in Handoffs |-> IF ends(h) THEN DeadLettered(mem.handoff[h])
                                     ELSE mem.handoff[h]]
<1>1. m = [task |-> T, handoff |-> H]
  BY DEF CancelledWith, Handoff
<1>2. /\ mem.task \in [Tasks -> TaskRecord] /\ mem.handoff \in [Handoffs -> HandoffRecord]
  BY DEF Store
<1>3. /\ T \in [Tasks -> TaskRecord] /\ T[t].st = "cancelled"
      /\ \A u \in Tasks : u # t => T[u] = mem.task[u]
  BY <1>2 DEF TaskRecord, TaskDecided
<1>4. \A h \in Handoffs : mem.handoff[h] \in HandoffRecord
                          /\ DeadLettered(mem.handoff[h]) \in HandoffRecord
                          /\ DeadLettered(mem.handoff[h]).st = "dead_letter"
                          /\ mem.handoff[h].att >= mem.handoff[h].att
                          /\ DeadLettered(mem.handoff[h]).att >= mem.handoff[h].att
  BY <1>2, DeadLetteredTyped, HandoffParts
<1>5. H \in [Handoffs -> HandoffRecord]
  BY <1>4
<1>6. \A h \in Handoffs :
        /\ H[h] = mem.handoff[h] \/ (H[h].st = "dead_letter" /\ ends(h))
        /\ H[h].att >= mem.handoff[h].att
  BY <1>4
<1>. HIDE DEF T, H, ends
<1>7. m \in Store /\ m.task = T /\ m.handoff = H
  BY <1>1, <1>3, <1>5 DEF Store
<1>. HIDE DEF m
<1>8. ASSUME NEW u \in Tasks PROVE MovesTask(m, u)
  BY <1>3, <1>7 DEF MovesTask, TaskOpen
<1>9. ASSUME NEW h \in Handoffs PROVE MovesHandoff(m, h)
  BY <1>3, <1>6, <1>7 DEF MovesHandoff, ends
<1>10. QED BY <1>7, <1>8, <1>9 DEF Move, m

\* An operator's decision that waits for its second write has made the first one.
Requests ==
  \A h \in Handoffs :
    /\ request[h] = "completed" => mem.handoff[h].st = "completed"
    /\ request[h] = "failed" => mem.handoff[h].st = "rejected"

Aging == \E h \in Handoffs : LeaseExpires(h) \/ BackoffEnds(h)

Writes ==
  Quiet \/ (\E m : Saves(m) /\ Move(m)) \/ (\E m : Keeps(m) /\ Light(m)) \/ Aging \/ Crash

LEMMA StayLight == mem \in Store => Light(mem)
BY StoreParts, HandoffParts DEF Light, Move, MovesTask, MovesHandoff

\* A step of a child: it is resumed, runs on, ends or is cancelled by itself.
ChildMoves(h, k) ==
  \/ Resume(h, k) \/ CancelChild(h, k)
  \/ \E o \in Outcome \ {"permanent"} : ResumedEnds(h, k, o)
  \/ \E c \in {"waiting", "ended"} : ParkedResumes(h, k, c)

LEMMA ChildMovesFacts ==
  ASSUME NEW h \in Handoffs, NEW k \in Tokens, ChildMoves(h, k)
  PROVE  /\ Kept /\ UNCHANGED <<executor, requests, claims, calls, requeues>>
         /\ child[h][k] \notin ChildEnded
         /\ \E c \in ChildStatus : child' = [child EXCEPT ![h][k] = c]
         /\ \/ UNCHANGED owed
            \/ \E o \in {"none", "completed", "waiting", "cancelled"} :
                 owed' = [owed EXCEPT ![h][k] = o]
<1>a. {"ended", "resumed", "waiting", "parked"} \subseteq ChildStatus
  BY DEF ChildStatus, ChildEnded
<1>1. CASE Resume(h, k)
  BY <1>1, <1>a DEF Resume, ChildEnded
<1>2. CASE CancelChild(h, k)
  BY <1>2, <1>a DEF CancelChild, ChildEnded
<1>3. ASSUME NEW o \in Outcome \ {"permanent"}, ResumedEnds(h, k, o)
      PROVE  /\ Kept /\ UNCHANGED <<executor, requests, claims, calls, requeues>>
             /\ child[h][k] \notin ChildEnded
             /\ \E c \in ChildStatus : child' = [child EXCEPT ![h][k] = c]
             /\ \E p \in {"none", "completed", "waiting", "cancelled"} :
                  owed' = [owed EXCEPT ![h][k] = p]
  <2>1. Standing(o) \in ChildStatus
    BY <1>a DEF Standing
  <2>2. (IF o \in {"failed", "parked"} THEN "none" ELSE o)
          \in {"none", "completed", "waiting", "cancelled"}
    BY DEF Outcome
  <2>3. QED BY <1>3, <2>1, <2>2 DEF ResumedEnds, ChildEnded
<1>4. ASSUME NEW c \in {"waiting", "ended"}, ParkedResumes(h, k, c)
      PROVE  /\ Kept /\ UNCHANGED <<executor, requests, claims, calls, requeues>>
             /\ child[h][k] \notin ChildEnded
             /\ \E d \in ChildStatus : child' = [child EXCEPT ![h][k] = d]
             /\ UNCHANGED owed
  BY <1>4, <1>a DEF ParkedResumes, ChildEnded
<1>5. QED BY <1>1, <1>2, <1>3, <1>4 DEF ChildMoves

\* The executor.
LEMMA ProcessWrites ==
  ASSUME TypeOK, Requests, NEW h \in Handoffs, Process(h) \/ ExecuteNow(h)
  PROVE  Writes
<1>0. /\ mem \in Store /\ mem.handoff[h] \in HandoffRecord /\ TaskOf[h] \in Tasks
      /\ mem.task[TaskOf[h]] \in TaskRecord
      /\ mem.handoff[h].att \in Int /\ mem.handoff[h].att + 1 >= mem.handoff[h].att
      /\ mem.handoff[h].att >= mem.handoff[h].att
  BY StoreParts, HandoffParts DEF TypeOK
<1>a. Kept \/ RolledBack \/ Doubted => Quiet
  BY DEF Kept, RolledBack, Doubted, Quiet
<1>1. CASE TryClaim(h)
  <2>. DEFINE k == claims[h] + 1
              m == WithHandoff(h, Claimed(h, k))
  <2>1. CASE ~ClaimAllowed(h)
    BY <1>1, <1>a, <2>1 DEF TryClaim, Writes
  <2>2. CASE ClaimAllowed(h)
    <3>1. k \in Tokens /\ (Saved(m) \/ LeftInMemory(m))
      BY <1>1, <2>2 DEF TryClaim
    <3>2. mem.handoff[h].att < MaxAttempts
          /\ mem.handoff[h].st \in {"pending", "retry_wait", "accepted"}
      BY <2>2 DEF ClaimAllowed, Handoff
    <3>. HIDE DEF k
    <3>3. Claimed(h, k) \in HandoffRecord /\ Claimed(h, k).st = "accepted"
          /\ Claimed(h, k).att >= mem.handoff[h].att
      BY <1>0, <3>1, <3>2, ClaimedTyped
    <3>4. Light(m)
      BY <1>0, <3>2, <3>3, HandoffMoves DEF Ended
    <3>. HIDE DEF m
    <3>5. QED BY <3>1, <3>4 DEF Light, Saved, LeftInMemory, Saves, Keeps, Writes
  <2>3. QED BY <2>1, <2>2
<1>2. CASE Accept(h)
  <2>. DEFINE t == [st |-> "running", bound |-> h]
  <2>1. CASE ~Owner(h)
    BY <1>2, <1>a, <2>1 DEF Accept, Writes
  <2>2. CASE Owner(h)
    <3>1. Saved(WithTask(h, t)) \/ Doubted
      BY <1>2, <2>2 DEF Accept
    <3>2. t \in TaskRecord /\ t.st = "running"
      BY DEF TaskRecord, TaskOpen
    <3>3. /\ mem.task[TaskOf[h]].st \notin TaskDecided /\ mem.handoff[h].st = "accepted"
      BY <2>2 DEF Owner, Decided, Handoff, Task
    <3>. HIDE DEF t
    <3>4. Move(Both(h, t, mem.handoff[h]))
      BY <1>0, <3>2, <3>3, BothMoves DEF TaskDecided, Ended
    <3>5. QED BY <1>a, <3>1, <3>4 DEF WithTask, Handoff, Saved, Saves, Writes
  <2>3. QED BY <2>1, <2>2
<1>3. CASE Recheck(h)
  BY <1>3, <1>a DEF Recheck, Writes
<1>4. CASE Call(h)
  <2>1. Kept \/ LeftInMemory(mem) \/ Saved(mem)
    BY <1>4 DEF Call
  <2>2. QED BY <1>0, <1>a, <2>1, StayLight DEF Light, LeftInMemory, Saved, Saves, Keeps, Writes
<1>5. CASE Settle(h)
  <2>. DEFINE o == proc[h].out
              s == Settlement(h, o)
              t == [st |-> TaskState(s), bound |-> h]
  <2>1. CASE ~Owner(h)
    BY <1>5, <1>a, <2>1 DEF Settle, Writes
  <2>2. CASE Owner(h)
    <3>1. Saved(Settled(h, o)) \/ Doubted
      BY <1>5, <2>2 DEF Settle
    <3>2. s \in {"completed", "waiting", "retry_wait", "dead_letter"}
      BY DEF Settlement
    <3>3. /\ TaskState(s) \in {"completed", "waiting", "running", "failed"}
          /\ TaskState(s) = "completed" => s = "completed"
          /\ TaskState(s) = "failed" => s = "dead_letter"
      BY <3>2 DEF TaskState
    <3>4. t \in TaskRecord /\ t.st = TaskState(s)
      BY <3>3 DEF TaskRecord, TaskOpen, TaskDecided
    <3>5. /\ mem.task[TaskOf[h]].st \notin TaskDecided /\ mem.handoff[h].st = "accepted"
          /\ proc[h].tok \in {None} \cup Tokens
      BY <2>2 DEF Owner, Decided, Handoff, Task, TypeOK
    <3>. DEFINE r == [Unleased(Handoff(h)) EXCEPT
                        !.st = s, !.due = (s # "retry_wait"),
                        !.run = IF s \in {"completed", "waiting"} THEN proc[h].tok ELSE @]
    <3>6. r \in HandoffRecord /\ r.st = s /\ r.att = mem.handoff[h].att
      <4>1. /\ Unleased(Handoff(h)) \in HandoffRecord
            /\ Unleased(Handoff(h)).att = mem.handoff[h].att
            /\ Unleased(Handoff(h)).run \in {None} \cup Tokens
        BY <1>0, UnleasedTyped DEF Handoff
      <4>2. s \in HandoffStatus
        BY <3>2 DEF HandoffStatus, Ended
      <4>. DEFINE b == s # "retry_wait"
                  q == Unleased(Handoff(h))
                  k == IF s \in {"completed", "waiting"} THEN proc[h].tok ELSE q.run
      <4>3. k \in {None} \cup Tokens
        BY <3>5, <4>1
      <4>4. b \in BOOLEAN
        OBVIOUS
      <4>5. r = [q EXCEPT !.st = s, !.due = b, !.run = k]
        BY DEF r
      <4>. HIDE DEF s, b, k, q, r
      <4>6. q \in HandoffRecord /\ q.att = mem.handoff[h].att
        BY <4>1 DEF q
      <4>7. QED BY <4>2, <4>3, <4>4, <4>5, <4>6 DEF HandoffRecord
    <3>7. Settled(h, o) = Both(h, t, r)
      BY DEF Settled
    <3>i. proc'[h].pc = "idle"
      BY <1>5 DEF Settle, Ends, Idle, TypeOK
    <3>. HIDE DEF r, t, s, o
    <3>8. Move(Both(h, t, r))
      BY <1>0, <3>2, <3>3, <3>4, <3>5, <3>6, <3>i, BothMoves DEF TaskDecided, Ended
    <3>9. QED BY <1>a, <3>1, <3>7, <3>8 DEF Saved, Saves, Writes
  <2>3. QED BY <2>1, <2>2
<1>6. ASSUME NEW o \in Outcome, Return(h, o) PROVE Writes
  BY <1>6, <1>a DEF Return, Writes
<1>7. QED BY <1>1, <1>2, <1>3, <1>4, <1>5, <1>6 DEF Process, Claim, ExecuteNow

\* Requests and children.
LEMMA RequestWrites ==
  ASSUME TypeOK, Requests, NEW h \in Handoffs,
         \/ Create(h) \/ Publish(h) \/ FollowUp(h) \/ Expire(h)
         \/ \E s \in {"accepted", "rejected", "completed"} : Manual(h, s)
         \/ \E k \in Tokens : Project(h, k) \/ ApprovalExpires(h, k)
  PROVE  Writes
<1>0. /\ mem \in Store /\ mem.handoff[h] \in HandoffRecord /\ TaskOf[h] \in Tasks
      /\ mem.task[TaskOf[h]] \in TaskRecord /\ mem.task[TaskOf[h]].st \in TaskStatus
      /\ mem.handoff[h].att \in Int /\ mem.handoff[h].att >= mem.handoff[h].att
  BY StoreParts, HandoffParts DEF TypeOK
<1>a. Kept \/ RolledBack \/ Doubted => Quiet
  BY DEF Kept, RolledBack, Doubted, Quiet
<1>b. ASSUME NEW m, Saved(m) \/ LeftInMemory(m), Light(m) PROVE Writes
  BY <1>b DEF Light, Saved, LeftInMemory, Saves, Keeps, Writes
<1>c. ASSUME NEW m, Saved(m) \/ RolledBack \/ Doubted, Move(m) PROVE Writes
  BY <1>a, <1>c DEF Saved, Saves, Writes
<1>1. CASE Create(h)
  <2>. DEFINE r == [NoHandoff EXCEPT !.st = "pending"]
              t == IF mem.task[TaskOf[h]].st = "absent" THEN [NoTask EXCEPT !.st = "pending"]
                   ELSE mem.task[TaskOf[h]]
              m == Both(h, t, r)
  <2>1. mem.handoff[h].st = "absent" /\ (Saved(m) \/ LeftInMemory(m))
    BY <1>1 DEF Create, Created, Task, Handoff
  <2>2. /\ r \in HandoffRecord /\ r.st = "pending"
        /\ t \in TaskRecord /\ t.st # "absent"
        /\ \/ t.st = mem.task[TaskOf[h]].st
           \/ mem.task[TaskOf[h]].st = "absent" /\ t.st = "pending"
    BY <1>0, NoHandoffTyped
  <2>. HIDE DEF r, t
  <2>3. Move(m)
    BY <1>0, <2>1, <2>2, BothMoves DEF Ended
  <2>4. /\ m.handoff[h] = r /\ m.task[TaskOf[h]] = t
        /\ \A g \in Handoffs : g # h => m.handoff[g] = mem.handoff[g]
        /\ \A u \in Tasks : u # TaskOf[h] => m.task[u] = mem.task[u]
    BY <1>0, <2>2, BothFacts
  <2>. HIDE DEF m
  <2>5. Light(m)
    BY <2>1, <2>2, <2>3, <2>4 DEF Light, Ended
  <2>6. QED BY <1>b, <2>1, <2>5
<1>2. CASE Publish(h)
  <2>. DEFINE r == [mem.handoff[h] EXCEPT !.ready = TRUE]
  <2>1. Kept \/ Saved(WithHandoff(h, r)) \/ LeftInMemory(WithHandoff(h, r))
    BY <1>2 DEF Publish, Handoff
  <2>2. r \in HandoffRecord /\ r.st = mem.handoff[h].st /\ r.att = mem.handoff[h].att
    BY <1>0, HandoffParts, StatusTyped
  <2>. HIDE DEF r
  <2>3. mem.task[TaskOf[h]] \in TaskRecord /\ WithHandoff(h, r) = Both(h, mem.task[TaskOf[h]], r)
    BY <1>0 DEF WithHandoff, Task
  <2>4. CASE mem.handoff[h].st # "absent"
    <3>1. Light(WithHandoff(h, r))
      BY <1>0, <2>2, <2>4, HandoffMoves
    <3>2. QED BY <1>a, <1>b, <2>1, <3>1 DEF Writes
  <2>5. CASE mem.handoff[h].st = "absent"
    <3>1. Move(Both(h, mem.task[TaskOf[h]], r))
      BY <1>0, <2>2, <2>5, BothMoves DEF Ended
    <3>2. /\ Both(h, mem.task[TaskOf[h]], r).handoff[h] = r
          /\ \A g \in Handoffs :
               g # h => Both(h, mem.task[TaskOf[h]], r).handoff[g] = mem.handoff[g]
          /\ \A u \in Tasks : Both(h, mem.task[TaskOf[h]], r).task[u] = mem.task[u]
      BY <1>0, <2>2, BothFacts
    <3>3. Light(Both(h, mem.task[TaskOf[h]], r))
      BY <2>2, <3>1, <3>2 DEF Light
    <3>4. QED BY <1>a, <1>b, <2>1, <2>3, <3>3 DEF Writes
  <2>6. QED BY <2>4, <2>5
<1>3. CASE FollowUp(h)
  <2>. DEFINE t == [mem.task[TaskOf[h]] EXCEPT !.st = request[h]]
  <2>1. CASE Decided(h)
    BY <1>3, <1>a, <2>1 DEF FollowUp, Writes
  <2>2. CASE ~Decided(h)
    <3>1. Saved(Both(h, t, mem.handoff[h])) \/ RolledBack
      BY <1>3, <2>2 DEF FollowUp, WithTask, Task, Handoff
    <3>2. request[h] \in {"running", "completed", "failed", "needs_attention"}
      BY <1>3 DEF FollowUp, TypeOK
    <3>3. t \in TaskRecord /\ t.st = request[h]
      BY <1>0, <3>2 DEF TaskRecord, TaskOpen, TaskDecided
    <3>4. mem.task[TaskOf[h]].st \notin TaskDecided
      BY <2>2 DEF Decided, Task
    <3>5. /\ t.st = "completed" => mem.handoff[h].st = "completed"
          /\ t.st = "failed" => mem.handoff[h].st = "rejected"
      BY <3>3 DEF Requests
    <3>. HIDE DEF t
    <3>6. Move(Both(h, t, mem.handoff[h]))
      BY <1>0, <3>2, <3>3, <3>4, <3>5, BothMoves DEF TaskDecided
    <3>7. QED BY <1>c, <3>1, <3>6
  <2>3. QED BY <2>1, <2>2
<1>4. CASE Expire(h)
  <2>1. mem.task[TaskOf[h]].st \notin TaskDecided
    BY <1>4 DEF Expire, Decided, Task
  <2>2. Move(CancelledWith(TaskOf[h]))
    BY <1>0, <2>1, CancelledMoves DEF TaskStatus
  <2>3. Saved(CancelledWith(TaskOf[h])) \/ Doubted
    BY <1>4 DEF Expire
  <2>4. QED BY <1>c, <2>2, <2>3
<1>5. ASSUME NEW s \in {"accepted", "rejected", "completed"}, Manual(h, s) PROVE Writes
  <2>. DEFINE r == [mem.handoff[h] EXCEPT !.st = s]
  <2>1. /\ Saved(WithHandoff(h, r)) \/ LeftInMemory(WithHandoff(h, r))
        /\ s \in Transitions(mem.handoff[h].st)
    BY <1>5 DEF Manual, Handoff
  <2>2. mem.handoff[h].st \notin Ended \cup {"absent"}
    BY <2>1 DEF Transitions, Ended
  <2>3. r \in HandoffRecord /\ r.st = s /\ r.att = mem.handoff[h].att
    BY <1>0, StatusTyped DEF HandoffStatus, Ended
  <2>. HIDE DEF r
  <2>4. Light(WithHandoff(h, r))
    BY <1>0, <2>2, <2>3, HandoffMoves
  <2>5. QED BY <1>b, <2>1, <2>4
<1>6. ASSUME NEW k \in Tokens, Project(h, k) PROVE Writes
  <2>. DEFINE o == owed[h][k]
              t == [mem.task[TaskOf[h]] EXCEPT !.st = o, !.bound = h]
              r == [mem.handoff[h] EXCEPT
                      !.st = IF o = "cancelled" THEN "dead_letter" ELSE o,
                      !.ready = (o # "cancelled" /\ @), !.run = k, !.prior = k]
  <2>1. \/ Kept
        \/ Projectable(h, k) /\ (Saved(Both(h, t, r)) \/ RolledBack)
    BY <1>6 DEF Project, Projected, Task, Handoff
  <2>2. CASE Kept
    BY <1>a, <2>2 DEF Writes
  <2>3. CASE Projectable(h, k) /\ (Saved(Both(h, t, r)) \/ RolledBack)
    <3>1. /\ mem.handoff[h].st \in {"accepted", "waiting", "needs_attention"}
          /\ mem.task[TaskOf[h]].st \notin TaskDecided
      BY <2>3 DEF Projectable, Decided, Task, Handoff
    <3>2. o \in {"completed", "waiting", "cancelled"}
      BY <1>6 DEF Project, TypeOK
    <3>. HIDE DEF o
    <3>3. t \in TaskRecord /\ t.st = o
      BY <1>0, <3>2 DEF TaskRecord, TaskOpen, TaskDecided
    <3>s. (IF o = "cancelled" THEN "dead_letter" ELSE o) \in HandoffStatus
      BY <3>2 DEF HandoffStatus, Ended
    <3>4. r \in HandoffRecord /\ r.st = IF o = "cancelled" THEN "dead_letter" ELSE o
      <4>1. k \in {None} \cup Tokens
        OBVIOUS
      <4>. DEFINE q == mem.handoff[h]
                  b == o # "cancelled" /\ q.ready
                  z == IF o = "cancelled" THEN "dead_letter" ELSE o
      <4>2. q \in HandoffRecord /\ b \in BOOLEAN /\ z \in HandoffStatus
        BY <1>0, <3>s
      <4>3. r = [q EXCEPT !.st = z, !.ready = b, !.run = k, !.prior = k]
        BY DEF r
      <4>. HIDE DEF q, b, z, r
      <4>4. r \in HandoffRecord /\ r.st = z
        BY <4>1, <4>2, <4>3 DEF HandoffRecord
      <4>5. QED BY <4>4 DEF z
    <3>a. r.att = mem.handoff[h].att
      BY <1>0 DEF HandoffRecord
    <3>b. /\ r.st \in {"retry_wait", "dead_letter"} => t.st = "cancelled"
          /\ r.st \in {"dead_letter", "completed", "waiting"}
          /\ t.st = "completed" => r.st = "completed"
          /\ t.st \in {"completed", "waiting", "cancelled"}
      BY <3>2, <3>3, <3>4
    <3>. HIDE DEF t, r
    <3>5. Move(Both(h, t, r))
      BY <1>0, <3>1, <3>3, <3>4, <3>a, <3>b, BothMoves DEF TaskDecided, Ended
    <3>6. QED BY <1>c, <2>3, <3>5
  <2>4. QED BY <2>1, <2>2, <2>3
<1>7. ASSUME NEW k \in Tokens, ApprovalExpires(h, k) PROVE Writes
  <2>. DEFINE r == [mem.handoff[h] EXCEPT !.st = "needs_attention"]
  <2>1. \/ Kept
        \/ /\ mem.handoff[h].st = "waiting"
           /\ Saved(WithHandoff(h, r)) \/ LeftInMemory(WithHandoff(h, r))
    BY <1>7 DEF ApprovalExpires, Handoff
  <2>2. r \in HandoffRecord /\ r.st = "needs_attention" /\ r.att = mem.handoff[h].att
    BY <1>0, StatusTyped DEF HandoffStatus
  <2>. HIDE DEF r
  <2>3. mem.handoff[h].st = "waiting" => Light(WithHandoff(h, r))
    BY <1>0, <2>2, HandoffMoves DEF Ended
  <2>4. QED BY <1>a, <1>b, <2>1, <2>3 DEF Writes
<1>8. QED BY <1>1, <1>2, <1>3, <1>4, <1>5, <1>6, <1>7

LEMMA RequeueWrites ==
  ASSUME TypeOK, NEW h \in Handoffs, NEW reset \in BOOLEAN, NEW repin \in BOOLEAN,
         Requeue(h, reset, repin)
  PROVE  Writes
<1>0. /\ mem \in Store /\ mem.handoff[h] \in HandoffRecord /\ TaskOf[h] \in Tasks
      /\ claims[h] \in {None} \cup Tokens
  BY StoreParts, HandoffAssumption DEF TypeOK, None, Tokens
<1>. DEFINE t == [st |-> "pending", bound |-> h]
            r == RequeuedRecord(mem.handoff[h], reset, repin, claims[h])
<1>1. /\ mem.handoff[h].st \in {"retry_wait", "dead_letter"}
      /\ mem.task[TaskOf[h]].st \notin {"completed", "cancelled"}
      /\ Saved(Both(h, t, r)) \/ RolledBack
  BY DEF Requeue, Handoff, Task, RequeuedRecord
<1>2. t \in TaskRecord /\ t.st = "pending"
  BY DEF TaskRecord, TaskOpen
<1>3. r \in HandoffRecord /\ r.st = "pending"
  BY <1>0, RequeuedTyped
<1>n. requeues' # requeues
  BY DEF Requeue, TypeOK
<1>. HIDE DEF t, r
<1>4. Move(Both(h, t, r))
  BY <1>0, <1>1, <1>2, <1>3, <1>n, BothMoves DEF Ended
<1>5. QED BY <1>1, <1>4 DEF Saved, RolledBack, Saves, Quiet, Writes

LEMMA StepWrites ==
  ASSUME TypeOK, Requests, [Next]_vars
  PROVE  Writes
<1>a. Kept \/ RolledBack => Quiet
  BY DEF Kept, RolledBack, Quiet
<1>1. CASE BeginPass
  BY <1>1, <1>a DEF BeginPass, Writes
<1>2. ASSUME NEW h \in Handoffs, NEW k \in Tokens, ChildMoves(h, k) PROVE Writes
  BY <1>2, <1>a, ChildMovesFacts DEF Writes
<1>5. ASSUME NEW t \in Tasks, Cancel(t) PROVE Writes
  <2>1. mem.task[t].st \in TaskOpen \cup {"cancelled"} /\ mem \in Store
    BY <1>5 DEF Cancel, TypeOK
  <2>2. Move(CancelledWith(t))
    BY <2>1, CancelledMoves
  <2>3. Quiet \/ Saved(CancelledWith(t))
    BY <1>5, <1>a DEF Cancel
  <2>4. QED BY <2>2, <2>3 DEF Saved, Saves, Writes
<1>6. ASSUME NEW t \in Tasks, Sweep(t) PROVE Writes
  BY <1>6, <1>a DEF Sweep, Writes
<1>7. ASSUME UNCHANGED vars PROVE Writes
  BY <1>7 DEF vars, Quiet, Writes
<1>8. QED
  BY <1>1, <1>2, <1>5, <1>6, <1>7, ProcessWrites, RequestWrites, RequeueWrites
  DEF Next, ChildMoves, Aging, Writes

-----------------------------------------------------------------------------
(* Types.                                                                   *)

AgesTo(m, n) ==
  /\ n \in Store /\ n.task = m.task
  /\ \A g \in Handoffs : /\ n.handoff[g].st = m.handoff[g].st
                         /\ n.handoff[g].att = m.handoff[g].att

LEMMA AgedFacts ==
  ASSUME NEW m \in Store, NEW h \in Handoffs, NEW leased \in BOOLEAN, NEW due \in BOOLEAN
  PROVE  AgesTo(m, Aged(m, h, leased, due))
<1>. DEFINE l == m.handoff[h].leased /\ leased
            d == m.handoff[h].due \/ due
            r == [m.handoff[h] EXCEPT !.leased = l, !.due = d]
            H == [m.handoff EXCEPT ![h] = r]
<1>1. m.handoff \in [Handoffs -> HandoffRecord] /\ m.handoff[h] \in HandoffRecord
      /\ m.task \in [Tasks -> TaskRecord]
  BY DEF Store
<1>2. l \in BOOLEAN /\ d \in BOOLEAN
  OBVIOUS
<1>5. Aged(m, h, leased, due) = [m EXCEPT !.handoff = H]
  BY DEF Aged
<1>. HIDE DEF l, d
<1>3. r \in HandoffRecord /\ r.st = m.handoff[h].st /\ r.att = m.handoff[h].att
  BY <1>1, <1>2 DEF HandoffRecord
<1>. HIDE DEF r
<1>4. /\ H \in [Handoffs -> HandoffRecord]
      /\ \A g \in Handoffs : H[g].st = m.handoff[g].st /\ H[g].att = m.handoff[g].att
  BY <1>1, <1>3
<1>. HIDE DEF H
<1>6. QED BY <1>1, <1>4, <1>5 DEF AgesTo, Store

LEMMA AgingFacts ==
  ASSUME TypeOK, Aging
  PROVE  /\ AgesTo(mem, mem') /\ AgesTo(disk, disk')
         /\ UNCHANGED <<uncertain, executor, requests, children, bounds>>
<1>1. PICK h \in Handoffs : LeaseExpires(h) \/ BackoffEnds(h)
  BY DEF Aging
<1>2. mem \in Store /\ disk \in Store /\ TRUE \in BOOLEAN /\ FALSE \in BOOLEAN
  BY DEF TypeOK
<1>3. /\ AgesTo(mem, Aged(mem, h, FALSE, FALSE)) /\ AgesTo(mem, Aged(mem, h, TRUE, TRUE))
      /\ AgesTo(disk, Aged(disk, h, FALSE, FALSE)) /\ AgesTo(disk, Aged(disk, h, TRUE, TRUE))
  BY <1>2, AgedFacts
<1>4. QED BY <1>1, <1>3 DEF LeaseExpires, BackoffEnds

LEMMA StoreTyped ==
  ASSUME TypeOK, Writes
  PROVE  mem' \in Store /\ disk' \in Store
<1>1. mem \in Store /\ disk \in Store
  BY DEF TypeOK
<1>2. CASE Aging
  BY <1>2, AgingFacts DEF AgesTo
<1>3. CASE Crash
  BY <1>1, <1>3 DEF Crash
<1>4. QED BY <1>1, <1>2, <1>3 DEF Writes, Quiet, Saves, Keeps, Move, Light

ProcTyped ==
  /\ proc \in [Handoffs -> [pc : {"idle"} \cup Step, tok : {None} \cup Tokens,
                            out : {"none"} \cup Outcome]]
  /\ batch \subseteq Handoffs
RequestTyped ==
  /\ request \in [Handoffs -> {"none", "publish", "running", "completed", "failed",
                               "needs_attention"}]
  /\ sweep \subseteq Tasks
ChildTyped ==
  /\ claims \in [Handoffs -> 0..MaxClaims]
  /\ child \in [Handoffs -> [Tokens -> ChildStatus]]
  /\ owed \in [Handoffs -> [Tokens -> {"none", "completed", "waiting", "cancelled"}]]
  /\ calls \in [Handoffs -> Nat]
Rest == ProcTyped /\ RequestTyped /\ ChildTyped /\ requeues \in 0..MaxRequeues

Faulty == uncertain \in BOOLEAN /\ faults \in 0..MaxFaults

LEMMA FaultyKept ==
  ASSUME Faulty,
         (\E m : Saved(m) \/ LeftInMemory(m)) \/ RolledBack \/ Doubted \/ Kept
  PROVE  Faulty'
<1>1. Fault => faults' \in 0..MaxFaults
  BY HandoffAssumption DEF Fault, Faulty
<1>2. QED
  BY <1>1 DEF Faulty, Saved, LeftInMemory, RolledBack, Doubted, Kept, NoFault

LEMMA ProcKept ==
  ASSUME ProcTyped, NEW h \in Handoffs
  PROVE  /\ \A pc \in Step : Goes(h, pc) => ProcTyped'
         /\ Ends(h) => ProcTyped'
         /\ \A o \in Outcome : Returns(h, o) => ProcTyped'
         /\ proc[h].tok \in {None} \cup Tokens
<1>1. ASSUME NEW pc \in Step, Goes(h, pc) PROVE ProcTyped'
  BY <1>1 DEF ProcTyped, Goes
<1>2. CASE Ends(h)
  <2>1. Idle \in [pc : {"idle"} \cup Step, tok : {None} \cup Tokens, out : {"none"} \cup Outcome]
    BY DEF Idle
  <2>2. QED BY <1>2, <2>1 DEF ProcTyped, Ends
<1>3. ASSUME NEW o \in Outcome, Returns(h, o) PROVE ProcTyped'
  BY <1>3 DEF ProcTyped, Returns, Step
<1>4. QED BY <1>1, <1>2, <1>3 DEF ProcTyped

LEMMA RestStays ==
  /\ ProcTyped /\ UNCHANGED executor => ProcTyped'
  /\ RequestTyped /\ UNCHANGED requests => RequestTyped'
  /\ ChildTyped /\ UNCHANGED children => ChildTyped'
<1>1. ProcTyped /\ UNCHANGED executor => ProcTyped'
  BY DEF ProcTyped, executor
<1>2. RequestTyped /\ UNCHANGED requests => RequestTyped'
  BY DEF RequestTyped, requests
<1>3. ChildTyped /\ UNCHANGED children => ChildTyped'
  BY DEF ChildTyped, children
<1>4. QED BY <1>1, <1>2, <1>3

LEMMA ProcessTyped ==
  ASSUME Rest, Faulty, NEW h \in Handoffs, Process(h) \/ ExecuteNow(h)
  PROVE  Rest' /\ Faulty'
<1>0. ProcTyped /\ RequestTyped /\ ChildTyped /\ requeues \in 0..MaxRequeues
  BY DEF Rest
<1>a. UNCHANGED <<requests, requeues>> => RequestTyped' /\ requeues' \in 0..MaxRequeues
  BY <1>0, RestStays
<1>b. ASSUME UNCHANGED <<requests, requeues>>, ProcTyped', ChildTyped' PROVE Rest'
  BY <1>a, <1>b DEF Rest
<1>1. CASE TryClaim(h)
  <2>1. CASE ~ClaimAllowed(h)
    <3>1. Kept /\ Ends(h) /\ UNCHANGED <<requests, requeues, children>>
      BY <1>1, <2>1 DEF TryClaim, children
    <3>2. QED BY <1>0, <1>b, <3>1, ProcKept, RestStays, FaultyKept
  <2>2. CASE ClaimAllowed(h)
    <3>. DEFINE k == claims[h] + 1
                m == WithHandoff(h, Claimed(h, k))
    <3>1. /\ k \in Tokens /\ claims' = [claims EXCEPT ![h] = k]
          /\ UNCHANGED <<requests, requeues, child, owed, calls>>
          /\ \/ /\ Saved(m)
                /\ proc' = [proc EXCEPT ![h] = [Idle EXCEPT !.pc = "claimed", !.tok = k]]
                /\ UNCHANGED batch
             \/ LeftInMemory(m) /\ Ends(h)
      BY <1>1, <2>2 DEF TryClaim
    <3>. HIDE DEF k, m
    <3>2. ChildTyped'
      BY <1>0, <3>1 DEF ChildTyped, Tokens
    <3>3. ProcTyped'
      <4>1. [Idle EXCEPT !.pc = "claimed", !.tok = k]
              \in [pc : {"idle"} \cup Step, tok : {None} \cup Tokens, out : {"none"} \cup Outcome]
        BY <3>1 DEF Idle, Step
      <4>2. QED BY <1>0, <3>1, <4>1, ProcKept DEF ProcTyped
    <3>4. QED BY <1>b, <3>1, <3>2, <3>3, FaultyKept
  <2>3. QED BY <2>1, <2>2
<1>2. CASE Accept(h)
  <2>1. /\ (\E m : Saved(m)) \/ Doubted \/ Kept
        /\ Goes(h, "accepted") \/ Ends(h)
        /\ UNCHANGED <<requests, children, requeues>>
    BY <1>2 DEF Accept
  <2>2. QED BY <1>0, <1>b, <2>1, ProcKept, RestStays, FaultyKept DEF Step
<1>3. CASE Recheck(h)
  <2>1. Kept /\ (Goes(h, "cleared") \/ Ends(h)) /\ UNCHANGED <<requests, children, requeues>>
    BY <1>3 DEF Recheck
  <2>2. QED BY <1>0, <1>b, <2>1, ProcKept, RestStays, FaultyKept DEF Step
<1>4. CASE Call(h)
  <2>1. /\ (\E m : Saved(m) \/ LeftInMemory(m)) \/ Kept
        /\ Goes(h, "calling") \/ Returns(h, "failed") \/ Returns(h, "permanent")
        /\ UNCHANGED <<requests, claims, owed, requeues>>
        /\ \/ UNCHANGED <<child, calls>>
           \/ /\ child' = [child EXCEPT ![h][proc[h].tok] = "running"]
              /\ calls' = [calls EXCEPT ![h] = @ + 1]
    BY <1>4 DEF Call
  <2>2. ChildTyped'
    <3>1. child' \in [Handoffs -> [Tokens -> ChildStatus]]
      <4>. DEFINE c == [child[h] EXCEPT ![proc[h].tok] = "running"]
      <4>1. c \in [Tokens -> ChildStatus]
        BY <1>0 DEF ChildTyped, ChildStatus
      <4>2. child' = child \/ child' = [child EXCEPT ![h] = c]
        BY <2>1
      <4>. HIDE DEF c
      <4>3. QED BY <1>0, <4>1, <4>2 DEF ChildTyped
    <3>2. calls' \in [Handoffs -> Nat]
      BY <1>0, <2>1 DEF ChildTyped
    <3>3. QED BY <1>0, <2>1, <3>1, <3>2 DEF ChildTyped
  <2>3. QED BY <1>0, <1>b, <2>1, <2>2, ProcKept, FaultyKept DEF Step, Outcome
<1>5. CASE Settle(h)
  <2>1. /\ (\E m : Saved(m)) \/ Doubted \/ Kept
        /\ Ends(h) /\ UNCHANGED <<requests, children, requeues>>
    BY <1>5 DEF Settle
  <2>2. QED BY <1>0, <1>b, <2>1, ProcKept, RestStays, FaultyKept
<1>6. ASSUME NEW o \in Outcome, Return(h, o) PROVE Rest' /\ Faulty'
  <2>1. /\ Kept /\ Returns(h, o) /\ UNCHANGED <<requests, claims, owed, calls, requeues>>
        /\ \/ UNCHANGED child
           \/ \E c \in Standings(o) : child' = [child EXCEPT ![h][proc[h].tok] = c]
    BY <1>6 DEF Return
  <2>2. Standings(o) \subseteq ChildStatus
    BY DEF Standings, Standing, Outcome, ChildStatus, ChildEnded
  <2>3. ChildTyped'
    <3>. DEFINE k == proc[h].tok
    <3>1. UNCHANGED child \/ \E c \in ChildStatus : child' = [child EXCEPT ![h][k] = c]
      BY <2>1, <2>2
    <3>. HIDE DEF k
    <3>2. ASSUME NEW c \in ChildStatus
          PROVE  [child EXCEPT ![h][k] = c] \in [Handoffs -> [Tokens -> ChildStatus]]
      <4>. DEFINE e == [child[h] EXCEPT ![k] = c]
      <4>1. e \in [Tokens -> ChildStatus]
        BY <1>0 DEF ChildTyped
      <4>2. [child EXCEPT ![h][k] = c] = [child EXCEPT ![h] = e]
        OBVIOUS
      <4>. HIDE DEF e
      <4>3. QED BY <1>0, <4>1, <4>2 DEF ChildTyped
    <3>3. child' \in [Handoffs -> [Tokens -> ChildStatus]]
      BY <1>0, <3>1, <3>2 DEF ChildTyped
    <3>4. QED BY <1>0, <2>1, <3>3 DEF ChildTyped
  <2>4. QED BY <1>0, <1>b, <2>1, <2>3, ProcKept, FaultyKept
<1>7. QED BY <1>1, <1>2, <1>3, <1>4, <1>5, <1>6 DEF Process, Claim, ExecuteNow

LEMMA RequestTypes ==
  ASSUME Rest, Faulty, NEW h \in Handoffs,
         \/ Create(h) \/ Publish(h) \/ FollowUp(h) \/ Expire(h)
         \/ \E s \in {"accepted", "rejected", "completed"} : Manual(h, s)
         \/ \E reset, repin \in BOOLEAN : Requeue(h, reset, repin)
  PROVE  Rest' /\ Faulty'
<1>0. /\ ProcTyped /\ RequestTyped /\ ChildTyped /\ requeues \in 0..MaxRequeues
      /\ TaskOf[h] \in Tasks
  BY HandoffAssumption DEF Rest
<1>a. ASSUME UNCHANGED <<executor, children, requeues>>, RequestTyped' PROVE Rest'
  BY <1>0, <1>a, RestStays DEF Rest
<1>b. ASSUME UNCHANGED sweep,
             \/ UNCHANGED request
             \/ \E s \in {"none", "publish", "running", "completed", "failed", "needs_attention"} :
                  request' = [request EXCEPT ![h] = s]
      PROVE  RequestTyped'
  BY <1>0, <1>b DEF RequestTyped
<1>1. CASE Create(h)
  <2>1. /\ \E m : Saved(m) \/ LeftInMemory(m)
        /\ UNCHANGED request \/ request' = [request EXCEPT ![h] = "publish"]
        /\ UNCHANGED <<executor, sweep, children, requeues>>
    BY <1>1 DEF Create
  <2>2. QED BY <1>a, <1>b, <2>1, FaultyKept
<1>2. CASE Publish(h)
  <2>1. /\ (\E m : Saved(m) \/ LeftInMemory(m)) \/ Kept
        /\ request' = [request EXCEPT ![h] = "none"]
        /\ UNCHANGED <<executor, sweep, children, requeues>>
    BY <1>2 DEF Publish
  <2>2. QED BY <1>a, <1>b, <2>1, FaultyKept
<1>3. CASE FollowUp(h)
  <2>1. /\ (\E m : Saved(m)) \/ RolledBack \/ Kept
        /\ request' = [request EXCEPT ![h] = "none"]
        /\ UNCHANGED <<executor, sweep, children, requeues>>
    BY <1>3 DEF FollowUp
  <2>2. QED BY <1>a, <1>b, <2>1, FaultyKept
<1>4. CASE Expire(h)
  <2>1. /\ (\E m : Saved(m)) \/ Doubted
        /\ UNCHANGED sweep \/ sweep' = sweep \cup {TaskOf[h]}
        /\ UNCHANGED <<executor, request, children, requeues>>
    BY <1>4 DEF Expire
  <2>2. RequestTyped'
    BY <1>0, <2>1 DEF RequestTyped
  <2>3. QED BY <1>a, <2>1, <2>2, FaultyKept
<1>6. ASSUME NEW s \in {"accepted", "rejected", "completed"}, Manual(h, s) PROVE Rest' /\ Faulty'
  <2>. DEFINE next == CASE s = "accepted" -> "running" [] s = "rejected" -> "failed" [] OTHER -> s
  <2>1. /\ \E m : Saved(m) \/ LeftInMemory(m)
        /\ UNCHANGED request \/ request' = [request EXCEPT ![h] = next]
        /\ UNCHANGED <<executor, sweep, children, requeues>>
    BY <1>6 DEF Manual
  <2>2. next \in {"running", "failed", "completed"}
    OBVIOUS
  <2>. HIDE DEF next
  <2>3. QED BY <1>a, <1>b, <2>1, <2>2, FaultyKept
<1>7. ASSUME NEW reset \in BOOLEAN, NEW repin \in BOOLEAN, Requeue(h, reset, repin)
      PROVE  Rest' /\ Faulty'
  <2>1. /\ (\E m : Saved(m)) \/ RolledBack
        /\ requeues < MaxRequeues /\ requeues' = requeues + 1
        /\ UNCHANGED calls \/ calls' = [calls EXCEPT ![h] = IF reset THEN 0 ELSE @]
        /\ UNCHANGED <<executor, requests, claims, child, owed>>
    BY <1>7 DEF Requeue
  <2>c. calls' \in [Handoffs -> Nat]
    BY <1>0, <2>1 DEF ChildTyped
  <2>2. ChildTyped'
    BY <1>0, <2>1, <2>c DEF ChildTyped
  <2>3. requeues' \in 0..MaxRequeues
    BY <1>0, <2>1, HandoffAssumption
  <2>4. QED BY <1>0, <2>1, <2>2, <2>3, RestStays, FaultyKept DEF Rest
<1>8. QED BY <1>1, <1>2, <1>3, <1>4, <1>6, <1>7

LEMMA ChildTypes ==
  ASSUME Rest, Faulty, NEW h \in Handoffs, NEW k \in Tokens,
         ChildMoves(h, k) \/ Project(h, k) \/ ApprovalExpires(h, k)
  PROVE  Rest' /\ Faulty'
<1>0. /\ ProcTyped /\ RequestTyped /\ ChildTyped /\ requeues \in 0..MaxRequeues
  BY DEF Rest
<1>a. ASSUME UNCHANGED <<executor, requests, requeues>>, ChildTyped' PROVE Rest'
  BY <1>0, <1>a, RestStays DEF Rest
<1>b. ASSUME NEW c \in ChildStatus, child' = [child EXCEPT ![h][k] = c]
      PROVE  child' \in [Handoffs -> [Tokens -> ChildStatus]]
  BY <1>0, <1>b DEF ChildTyped
<1>c. ASSUME NEW o \in {"none", "completed", "waiting", "cancelled"},
             owed' = [owed EXCEPT ![h][k] = o]
      PROVE  owed' \in [Handoffs -> [Tokens -> {"none", "completed", "waiting", "cancelled"}]]
  BY <1>0, <1>c DEF ChildTyped
<1>1. CASE ChildMoves(h, k)
  BY <1>0, <1>1, <1>a, <1>b, <1>c, ChildMovesFacts, FaultyKept DEF ChildTyped
<1>2. CASE Project(h, k)
  <2>1. /\ (\E m : Saved(m)) \/ RolledBack \/ Kept
        /\ owed' = [owed EXCEPT ![h][k] = "none"]
        /\ UNCHANGED <<executor, requests, claims, child, calls, requeues>>
    BY <1>2 DEF Project
  <2>2. QED BY <1>0, <1>a, <1>c, <2>1, FaultyKept DEF ChildTyped
<1>3. CASE ApprovalExpires(h, k)
  <2>1. /\ (\E m : Saved(m) \/ LeftInMemory(m)) \/ Kept
        /\ UNCHANGED request \/ request' = [request EXCEPT ![h] = "needs_attention"]
        /\ UNCHANGED <<executor, sweep, children, requeues>>
    BY <1>3 DEF ApprovalExpires
  <2>2. RequestTyped'
    BY <1>0, <2>1 DEF RequestTyped
  <2>3. QED BY <1>0, <2>1, <2>2, RestStays, FaultyKept DEF Rest
<1>5. QED BY <1>1, <1>2, <1>3

LEMMA RestKept ==
  ASSUME Rest, Faulty, TypeOK, [Next]_vars
  PROVE  Rest' /\ Faulty'
<1>0. /\ ProcTyped /\ RequestTyped /\ ChildTyped /\ requeues \in 0..MaxRequeues
  BY DEF Rest
<1>1. CASE BeginPass
  <2>1. /\ Kept /\ UNCHANGED <<requests, children, requeues>> /\ batch' = Chosen
        /\ proc' = [h \in Handoffs |-> IF h \in Chosen THEN [Idle EXCEPT !.pc = "queued"]
                                       ELSE proc[h]]
    BY <1>1 DEF BeginPass
  <2>2. [Idle EXCEPT !.pc = "queued"]
          \in [pc : {"idle"} \cup Step, tok : {None} \cup Tokens, out : {"none"} \cup Outcome]
    BY DEF Idle, Step
  <2>3. Chosen \subseteq Handoffs
    BY DEF Chosen
  <2>4. ProcTyped'
    BY <1>0, <2>1, <2>2, <2>3 DEF ProcTyped
  <2>5. QED BY <1>0, <2>1, <2>4, RestStays, FaultyKept DEF Rest
<1>2. CASE Aging
  <2>1. UNCHANGED <<uncertain, executor, requests, children, bounds>>
    BY <1>2, AgingFacts
  <2>2. QED BY <1>0, <2>1, RestStays DEF Rest, Faulty, bounds
<1>3. ASSUME NEW t \in Tasks, Cancel(t) PROVE Rest' /\ Faulty'
  <2>1. /\ (\E m : Saved(m)) \/ RolledBack \/ Kept
        /\ UNCHANGED sweep \/ sweep' = sweep \cup {t}
        /\ UNCHANGED <<executor, request, children, requeues>>
    BY <1>3 DEF Cancel
  <2>2. RequestTyped'
    BY <1>0, <2>1 DEF RequestTyped
  <2>3. QED BY <1>0, <2>1, <2>2, RestStays, FaultyKept DEF Rest
<1>4. ASSUME NEW t \in Tasks, Sweep(t) PROVE Rest' /\ Faulty'
  <2>1. /\ Kept /\ sweep' = sweep \ {t}
        /\ child' = [h \in Handoffs |-> [k \in Tokens |->
             IF TaskOf[h] = t /\ child[h][k] \notin ChildEnded THEN "ended" ELSE child[h][k]]]
        /\ UNCHANGED <<executor, request, claims, owed, calls, requeues>>
    BY <1>4 DEF Sweep
  <2>2. RequestTyped'
    BY <1>0, <2>1 DEF RequestTyped
  <2>4. \A h \in Handoffs, k \in Tokens : child[h][k] \in ChildStatus /\ "ended" \in ChildStatus
    BY <1>0 DEF ChildTyped, ChildStatus, ChildEnded
  <2>5. child' \in [Handoffs -> [Tokens -> ChildStatus]]
    BY <2>1, <2>4
  <2>6. ChildTyped'
    BY <1>0, <2>1, <2>5 DEF ChildTyped
  <2>3. QED BY <1>0, <2>1, <2>2, <2>6, RestStays, FaultyKept DEF Rest
<1>5. CASE Crash
  <2>1. Fault /\ uncertain' = FALSE
    BY <1>5 DEF Crash
  <2>2. Faulty'
    <3>1. faults \in 0..MaxFaults /\ faults < MaxFaults /\ faults' = faults + 1
      BY <2>1 DEF Fault, Faulty
    <3>2. faults' \in 0..MaxFaults
      BY <3>1, HandoffAssumption
    <3>3. QED BY <2>1, <3>2 DEF Faulty
  <2>3. ProcTyped'
    BY <1>0, <1>5 DEF Crash, ProcTyped, Idle
  <2>8. RequestTyped'
    BY <1>5 DEF Crash, RequestTyped
  <2>4. \A h \in Handoffs, k \in Tokens :
          child[h][k] \in ChildStatus /\ "interrupted" \in ChildStatus /\ "waiting" \in ChildStatus
    BY <1>0 DEF ChildTyped, ChildStatus
  <2>5. child' \in [Handoffs -> [Tokens -> ChildStatus]]
    BY <1>5, <2>4 DEF Crash
  <2>6. ChildTyped' /\ requeues' = requeues
    BY <1>0, <1>5, <2>5 DEF Crash, ChildTyped
  <2>7. QED BY <1>0, <2>2, <2>3, <2>6, <2>8 DEF Rest
<1>6. CASE UNCHANGED vars
  BY <1>0, <1>6, RestStays DEF Rest, Faulty, vars, bounds
<1>7. QED
  BY <1>1, <1>2, <1>3, <1>4, <1>5, <1>6, ProcessTyped, RequestTypes, ChildTypes
  DEF Next, ChildMoves, Aging

LEMMA TypesSplit == TypeOK <=> mem \in Store /\ disk \in Store /\ Rest /\ Faulty
BY DEF TypeOK, Rest, Faulty, ProcTyped, RequestTyped, ChildTyped

LEMMA InitTyped == Init => TypeOK
<1>. SUFFICES ASSUME Init PROVE TypeOK
  OBVIOUS
<1>1. Empty \in Store
  BY NoHandoffTyped DEF Empty, Store
<1>2. /\ 0 \in 0..MaxClaims /\ 0 \in 0..MaxRequeues /\ 0 \in 0..MaxFaults
      /\ "none" \in ChildStatus
  BY HandoffAssumption DEF ChildStatus, ChildEnded
<1>4. ProcTyped /\ RequestTyped
  BY DEF Init, ProcTyped, RequestTyped, Idle
<1>5. ChildTyped
  BY <1>2 DEF Init, ChildTyped
<1>6. Rest /\ Faulty
  BY <1>2, <1>4, <1>5 DEF Init, Rest, Faulty
<1>3. QED BY <1>1, <1>6, TypesSplit DEF Init

-----------------------------------------------------------------------------
(* What a write keeps.                                                      *)

\* The file is never ahead of memory, and memory ahead of the file only where a
\* crash takes back nothing that was decided.
Behind ==
  /\ \A t \in Tasks : disk.task[t].st # "absent" => mem.task[t].st # "absent"
  /\ \A h \in Handoffs :
       /\ disk.handoff[h].st # "absent" => mem.handoff[h].st # "absent"
       /\ disk.handoff[h].st \in Ended => mem.handoff[h].st = disk.handoff[h].st
       /\ mem.handoff[h].st \in {"retry_wait", "dead_letter"} => disk.handoff[h].st # "absent"

Tasked(m) ==
  \A h \in Handoffs : m.handoff[h].st # "absent" => m.task[TaskOf[h]].st # "absent"

\* Explained, handoff by handoff.
Because(m) ==
  \A t \in Tasks :
    /\ m.task[t].st = "completed" =>
         \E h \in Handoffs : TaskOf[h] = t /\ m.handoff[h].st = "completed"
    /\ m.task[t].st = "failed" =>
         \E h \in Handoffs : TaskOf[h] = t /\ m.handoff[h].st \in {"rejected", "dead_letter"}

LEMMA BecauseExplained ==
  ASSUME NEW m
  PROVE  Because(m) => Explained(m)
<1>. SUFFICES ASSUME Because(m), NEW t \in Tasks
              PROVE  LET ended == {m.handoff[h].st : h \in {g \in Handoffs : TaskOf[g] = t}}
                     IN /\ m.task[t].st = "completed" => "completed" \in ended
                        /\ m.task[t].st = "failed" => ended \cap {"rejected", "dead_letter"} # {}
  BY DEF Explained
<1>. DEFINE ended == {m.handoff[h].st : h \in {g \in Handoffs : TaskOf[g] = t}}
<1>1. \A h \in Handoffs : TaskOf[h] = t => m.handoff[h].st \in ended
  OBVIOUS
<1>. HIDE DEF ended
<1>2. /\ m.task[t].st = "completed" => "completed" \in ended
      /\ m.task[t].st = "failed" => ended \cap {"rejected", "dead_letter"} # {}
  BY <1>1 DEF Because
<1>3. QED BY <1>2 DEF ended

Sound ==
  /\ DecisionsDurable /\ Behind
  /\ Tasked(mem) /\ Tasked(disk) /\ Because(mem) /\ Because(disk)

LEMMA MoveKeeps ==
  ASSUME mem \in Store, NEW m, Move(m), Tasked(mem), Because(mem)
  PROVE  Tasked(m) /\ Because(m)
<1>0. /\ \A t \in Tasks : MovesTask(m, t)
      /\ \A h \in Handoffs : MovesHandoff(m, h)
      /\ \A h \in Handoffs : TaskOf[h] \in Tasks
  BY HandoffAssumption DEF Move
<1>1. Tasked(m)
  BY <1>0 DEF Tasked, MovesTask, MovesHandoff
<1>2. ASSUME NEW t \in Tasks, m.task[t].st = "completed"
      PROVE  \E h \in Handoffs : TaskOf[h] = t /\ m.handoff[h].st = "completed"
  <2>1. CASE mem.task[t].st = "completed"
    <3>1. PICK h \in Handoffs : TaskOf[h] = t /\ mem.handoff[h].st = "completed"
      BY <2>1 DEF Because
    <3>2. m.handoff[h].st = "completed"
      BY <1>0, <3>1 DEF MovesHandoff, Reopened, Ended
    <3>3. QED BY <3>1, <3>2
  <2>2. QED BY <1>0, <1>2, <2>1 DEF MovesTask
<1>3. ASSUME NEW t \in Tasks, m.task[t].st = "failed"
      PROVE  \E h \in Handoffs : TaskOf[h] = t /\ m.handoff[h].st \in {"rejected", "dead_letter"}
  <2>1. CASE mem.task[t].st = "failed"
    <3>1. PICK h \in Handoffs :
            TaskOf[h] = t /\ mem.handoff[h].st \in {"rejected", "dead_letter"}
      BY <2>1 DEF Because
    <3>2. m.handoff[h].st \in {"rejected", "dead_letter"}
      BY <1>0, <1>3, <3>1 DEF MovesHandoff, Reopened, Ended
    <3>3. QED BY <3>1, <3>2
  <2>2. QED BY <1>0, <1>3, <2>1 DEF MovesTask
<1>4. QED BY <1>1, <1>2, <1>3 DEF Because

LEMMA AgeKeeps ==
  ASSUME NEW m, NEW n, AgesTo(m, n), Tasked(m), Because(m)
  PROVE  Tasked(n) /\ Because(n)
BY DEF AgesTo, Tasked, Because

LEMMA SoundKept ==
  ASSUME TypeOK, Sound, Writes
  PROVE  Sound'
<1>0. mem \in Store
  BY DEF TypeOK
<1>1. CASE Quiet
  BY <1>1 DEF Quiet, Sound, DecisionsDurable, Behind, Tasked, Because
<1>2. ASSUME NEW m, Saves(m), Move(m) PROVE Sound'
  <2>1. Tasked(m) /\ Because(m)
    BY <1>0, <1>2, MoveKeeps DEF Sound
  <2>2. QED
    BY <1>2, <2>1 DEF Saves, Sound, DecisionsDurable, Behind, Tasked, Because, Ended
<1>3. ASSUME NEW m, Keeps(m), Light(m) PROVE Sound'
  <2>1. Tasked(m) /\ Because(m)
    BY <1>0, <1>3, MoveKeeps DEF Sound, Light
  <2>2. mem' = m /\ disk' = disk
    BY <1>3 DEF Keeps
  <2>3. DecisionsDurable'
    BY <1>3, <2>2 DEF Light, Sound, DecisionsDurable, TaskDecided
  <2>4. Behind'
    BY <1>3, <2>2 DEF Light, Move, MovesTask, MovesHandoff, Sound, Behind
  <2>5. Tasked(disk)' /\ Because(disk)' /\ Tasked(mem)' /\ Because(mem)'
    BY <2>1, <2>2 DEF Sound, Tasked, Because
  <2>6. QED BY <2>3, <2>4, <2>5 DEF Sound
<1>4. CASE Aging
  <2>1. AgesTo(mem, mem') /\ AgesTo(disk, disk')
    BY <1>4, AgingFacts
  <2>2. DecisionsDurable' /\ Behind'
    BY <2>1 DEF AgesTo, Sound, DecisionsDurable, Behind
  <2>3. Tasked(mem') /\ Because(mem') /\ Tasked(disk') /\ Because(disk')
    BY <2>1, AgeKeeps DEF Sound
  <2>4. QED BY <2>2, <2>3 DEF Sound, Tasked, Because
<1>5. CASE Crash
  <2>1. mem' = disk /\ disk' = disk
    BY <1>5 DEF Crash
  <2>2. QED
    BY <2>1 DEF Sound, DecisionsDurable, Behind, Tasked, Because, Ended
<1>6. QED BY <1>1, <1>2, <1>3, <1>4, <1>5 DEF Writes

LEMMA EndedStays ==
  ASSUME TypeOK, Writes, ~Crash, NEW h \in Handoffs,
         mem.handoff[h].st \in {"completed", "rejected"}
  PROVE  mem'.handoff[h].st = mem.handoff[h].st
<1>1. ASSUME NEW m, Move(m) PROVE m.handoff[h].st = mem.handoff[h].st
  BY <1>1 DEF Move, MovesHandoff, Reopened, Ended
<1>2. QED
  BY <1>1, AgingFacts DEF Writes, Quiet, Saves, Keeps, Light, AgesTo

LEMMA RequestsKept ==
  ASSUME TypeOK, Requests, [Next]_vars
  PROVE  Requests'
<1>1. Writes
  BY StepWrites
<1>2. CASE Crash
  BY <1>2 DEF Crash, Requests
<1>3. ASSUME ~Crash, NEW h \in Handoffs,
             \/ request'[h] \in {request[h], "none", "publish", "needs_attention", "running"}
             \/ request'[h] \in {"completed", "failed"} /\ mem'.handoff[h].st =
                  IF request'[h] = "completed" THEN "completed" ELSE "rejected"
      PROVE  /\ request'[h] = "completed" => mem'.handoff[h].st = "completed"
             /\ request'[h] = "failed" => mem'.handoff[h].st = "rejected"
  BY <1>1, <1>3, EndedStays DEF Requests
<1>4. ASSUME ~Crash, NEW h \in Handoffs
      PROVE  \/ request'[h] \in {request[h], "none", "publish", "needs_attention", "running"}
             \/ request'[h] \in {"completed", "failed"} /\ mem'.handoff[h].st =
                  IF request'[h] = "completed" THEN "completed" ELSE "rejected"
  <2>0. request \in [Handoffs -> {"none", "publish", "running", "completed", "failed",
                                  "needs_attention"}]
    BY DEF TypeOK
  <2>1. CASE UNCHANGED request
    BY <2>1
  <2>2. ASSUME NEW g \in Handoffs,
               Create(g) \/ Publish(g) \/ FollowUp(g) \/ \E k \in Tokens : ApprovalExpires(g, k)
        PROVE  request'[h] \in {request[h], "none", "publish", "needs_attention"}
    BY <2>0, <2>2 DEF Create, Publish, FollowUp, ApprovalExpires
  <2>3. ASSUME NEW g \in Handoffs, NEW s \in {"accepted", "rejected", "completed"}, Manual(g, s)
        PROVE  \/ request'[h] \in {request[h], "running"}
               \/ request'[h] \in {"completed", "failed"} /\ mem'.handoff[h].st =
                    IF request'[h] = "completed" THEN "completed" ELSE "rejected"
    <3>. DEFINE next == CASE s = "accepted" -> "running" [] s = "rejected" -> "failed"
                          [] OTHER -> s
                r == [mem.handoff[g] EXCEPT !.st = s]
    <3>1. \/ request' = [request EXCEPT ![g] = next] /\ mem' = WithHandoff(g, r)
          \/ UNCHANGED request
      BY <2>3 DEF Manual, Handoff, Saved
    <3>2. mem \in Store /\ mem.handoff[g] \in HandoffRecord /\ mem.task[TaskOf[g]] \in TaskRecord
      BY StoreParts DEF TypeOK
    <3>3. r \in HandoffRecord /\ r.st = s
      BY <3>2, StatusTyped DEF HandoffStatus, Ended
    <3>4. /\ next \in {"running", "failed", "completed"}
          /\ next = "completed" => s = "completed"
          /\ next = "failed" => s = "rejected"
      OBVIOUS
    <3>. HIDE DEF next, r
    <3>5. WithHandoff(g, r).handoff[g] = r
      BY <3>2, <3>3, BothFacts DEF WithHandoff, Task
    <3>6. QED BY <2>0, <3>1, <3>3, <3>4, <3>5
  <2>4. UNCHANGED vars => UNCHANGED request
    BY DEF vars, requests
  <2>5. ASSUME NEW g \in Handoffs,
               \/ Process(g) \/ ExecuteNow(g) \/ Expire(g)
               \/ \E reset, repin \in BOOLEAN : Requeue(g, reset, repin)
               \/ LeaseExpires(g) \/ BackoffEnds(g)
        PROVE  UNCHANGED request
    BY <2>5 DEF ExecuteNow, Process, Claim, TryClaim, Accept, Recheck, Call, Settle, Return, Expire,
                Requeue, LeaseExpires, BackoffEnds, requests
  <2>6. ASSUME NEW g \in Handoffs, NEW k \in Tokens, ChildMoves(g, k) \/ Project(g, k)
        PROVE  UNCHANGED request
    BY <2>6, ChildMovesFacts DEF Project, requests
  <2>7. BeginPass \/ (\E t \in Tasks : Cancel(t) \/ Sweep(t)) => UNCHANGED request
    BY DEF BeginPass, Cancel, Sweep, requests
  <2>8. QED BY <1>4, <2>1, <2>2, <2>3, <2>4, <2>5, <2>6, <2>7 DEF Next, ChildMoves
<1>5. QED BY <1>2, <1>3, <1>4 DEF Requests

-----------------------------------------------------------------------------
(* Attempts and calls.                                                      *)

\* From the claim to the call.
Bound == {"claimed", "accepted", "cleared"}

Counted(h) ==
  /\ calls[h] <= mem.handoff[h].att /\ calls[h] <= disk.handoff[h].att
  /\ mem.handoff[h].st = "absent" => mem.handoff[h].att = 0
  /\ disk.handoff[h].st = "absent" => disk.handoff[h].att = 0
  /\ proc[h].pc \in Bound =>
       /\ calls[h] + 1 <= mem.handoff[h].att /\ calls[h] + 1 <= disk.handoff[h].att
       /\ mem.handoff[h].st \in {"retry_wait", "dead_letter"} =>
            mem.task[TaskOf[h]].st = "cancelled"

\* A step of the executor of h, seen from its attempts.
Steady(h) ==
  /\ calls'[h] = calls[h] /\ UNCHANGED requeues
  /\ proc'[h].pc \in Bound => proc[h].pc \in Bound
Claims(h) ==
  /\ proc'[h].pc \in Bound /\ UNCHANGED <<calls, requeues>>
  /\ ClaimAllowed(h) /\ claims[h] + 1 \in Tokens
  /\ Saved(WithHandoff(h, Claimed(h, claims[h] + 1)))
Calls(h) ==
  /\ proc[h].pc = "cleared" /\ proc'[h].pc = "calling"
  /\ calls'[h] = calls[h] + 1 /\ UNCHANGED requeues
Requeues(h) == \E reset, repin \in BOOLEAN : Requeue(h, reset, repin)

LEMMA ProcMoves ==
  ASSUME TypeOK, NEW g \in Handoffs, NEW h \in Handoffs
  PROVE  /\ \A pc \in Step : Goes(g, pc) => proc'[h].pc = IF h = g THEN pc ELSE proc[h].pc
         /\ Ends(g) => proc'[h].pc = IF h = g THEN "idle" ELSE proc[h].pc
         /\ \A o \in Outcome :
              Returns(g, o) => proc'[h].pc = IF h = g THEN "returned" ELSE proc[h].pc
<1>0. \A f \in Handoffs : proc[f] \in [pc : {"idle"} \cup Step, tok : {None} \cup Tokens,
                                      out : {"none"} \cup Outcome]
  BY DEF TypeOK
<1>. DOMAIN proc = Handoffs
  BY DEF TypeOK
<1>1. ASSUME NEW pc \in Step, Goes(g, pc) PROVE proc'[h].pc = IF h = g THEN pc ELSE proc[h].pc
  <2>. DEFINE p == [proc[g] EXCEPT !.pc = pc]
  <2>1. proc' = [proc EXCEPT ![g] = p]
    BY <1>1 DEF Goes
  <2>2. p.pc = pc
    BY <1>0
  <2>. HIDE DEF p
  <2>3. QED BY <2>1, <2>2
<1>2. ASSUME Ends(g) PROVE proc'[h].pc = IF h = g THEN "idle" ELSE proc[h].pc
  <2>1. Idle.pc = "idle"
    BY DEF Idle
  <2>2. proc' = [proc EXCEPT ![g] = Idle]
    BY <1>2 DEF Ends
  <2>3. QED BY <2>1, <2>2
<1>3. ASSUME NEW o \in Outcome, Returns(g, o)
      PROVE  proc'[h].pc = IF h = g THEN "returned" ELSE proc[h].pc
  <2>. DEFINE p == [proc[g] EXCEPT !.pc = "returned", !.out = o]
  <2>1. proc' = [proc EXCEPT ![g] = p]
    BY <1>3 DEF Returns
  <2>2. p.pc = "returned"
    BY <1>0
  <2>. HIDE DEF p
  <2>3. QED BY <2>1, <2>2
<1>4. QED BY <1>1, <1>2, <1>3

LEMMA ProcessFlow ==
  ASSUME TypeOK, NEW g \in Handoffs, Process(g) \/ ExecuteNow(g), NEW h \in Handoffs
  PROVE  Steady(h) \/ Claims(h) \/ Calls(h)
<1>0. calls \in [Handoffs -> Nat]
  BY DEF TypeOK
<1>a. "idle" \notin Bound /\ "returned" \notin Bound /\ "calling" \notin Bound
  BY DEF Bound
<1>1. CASE TryClaim(g)
  <2>1. CASE Ends(g)
    <3>1. proc'[h].pc = IF h = g THEN "idle" ELSE proc[h].pc
      BY <2>1, ProcMoves
    <3>2. UNCHANGED <<calls, requeues>>
      BY <1>1 DEF TryClaim
    <3>3. QED BY <1>a, <3>1, <3>2 DEF Steady
  <2>2. CASE ~Ends(g)
    <3>. DEFINE p == [Idle EXCEPT !.pc = "claimed", !.tok = claims[g] + 1]
    <3>1. /\ ClaimAllowed(g) /\ claims[g] + 1 \in Tokens
          /\ Saved(WithHandoff(g, Claimed(g, claims[g] + 1)))
          /\ proc' = [proc EXCEPT ![g] = p] /\ UNCHANGED <<calls, requeues>>
      BY <1>1, <2>2 DEF TryClaim
    <3>2. p.pc = "claimed"
      BY DEF Idle
    <3>. HIDE DEF p
    <3>3. proc'[h] = IF h = g THEN p ELSE proc[h]
      BY <3>1 DEF TypeOK
    <3>4. CASE h = g
      BY <3>1, <3>2, <3>3, <3>4 DEF Claims, Bound
    <3>5. CASE h # g
      BY <3>1, <3>3, <3>5 DEF Steady
    <3>6. QED BY <3>4, <3>5
  <2>3. QED BY <2>1, <2>2
<1>2. CASE Accept(g)
  <2>1. /\ Goes(g, "accepted") \/ Ends(g)
        /\ proc[g].pc = "claimed" /\ UNCHANGED <<calls, requeues>>
    BY <1>2 DEF Accept, children
  <2>2. QED BY <1>a, <2>1, ProcMoves DEF Steady, Step, Bound
<1>3. CASE Recheck(g)
  <2>1. /\ Goes(g, "cleared") \/ Ends(g)
        /\ proc[g].pc = "accepted" /\ UNCHANGED <<calls, requeues>>
    BY <1>3 DEF Recheck, children
  <2>2. QED BY <1>a, <2>1, ProcMoves DEF Steady, Step, Bound
<1>4. CASE Call(g)
  <2>1. CASE Returns(g, "failed") \/ Returns(g, "permanent")
    <3>1. proc'[h].pc = IF h = g THEN "returned" ELSE proc[h].pc
      BY <2>1, ProcMoves DEF Outcome
    <3>2. proc[g].pc = "cleared" /\ UNCHANGED requeues
      BY <1>4 DEF Call
    <3>3. UNCHANGED calls
      <4>1. ~Goes(g, "calling")
        <5>1. proc'[g].pc = "returned" /\ (Goes(g, "calling") => proc'[g].pc = "calling")
          BY <2>1, ProcMoves DEF Outcome, Step
        <5>2. QED BY <5>1
      <4>2. QED BY <1>4, <4>1 DEF Call
    <3>4. QED BY <1>a, <3>1, <3>2, <3>3 DEF Steady
  <2>2. CASE ~(Returns(g, "failed") \/ Returns(g, "permanent"))
    <3>1. /\ proc[g].pc = "cleared" /\ UNCHANGED requeues
          /\ calls' = [calls EXCEPT ![g] = @ + 1] /\ Goes(g, "calling")
      BY <1>4, <2>2 DEF Call
    <3>2. proc'[h].pc = IF h = g THEN "calling" ELSE proc[h].pc
      BY <3>1, ProcMoves DEF Step
    <3>3. calls'[h] = IF h = g THEN calls[h] + 1 ELSE calls[h]
      BY <1>0, <3>1
    <3>4. QED BY <3>1, <3>2, <3>3 DEF Steady, Calls
  <2>3. QED BY <2>1, <2>2
<1>5. CASE Settle(g)
  <2>1. Ends(g) /\ UNCHANGED <<calls, requeues>>
    BY <1>5 DEF Settle, children
  <2>2. QED BY <1>a, <2>1, ProcMoves DEF Steady
<1>6. ASSUME NEW o \in Outcome, Return(g, o) PROVE Steady(h)
  <2>1. Returns(g, o) /\ UNCHANGED <<calls, requeues>>
    BY <1>6 DEF Return
  <2>2. QED BY <1>a, <2>1, ProcMoves DEF Steady
<1>7. QED BY <1>1, <1>2, <1>3, <1>4, <1>5, <1>6 DEF Process, Claim, ExecuteNow

LEMMA Flow ==
  ASSUME TypeOK, [Next]_vars, NEW h \in Handoffs
  PROVE  Steady(h) \/ Claims(h) \/ Calls(h) \/ \E g \in Handoffs : Requeues(g)
<1>a. UNCHANGED <<executor, calls, requeues>> => Steady(h)
  BY DEF executor, Steady
<1>1. CASE BeginPass
  <2>1. /\ UNCHANGED <<calls, requeues>>
        /\ proc'[h] = IF h \in Chosen THEN [Idle EXCEPT !.pc = "queued"] ELSE proc[h]
    BY <1>1 DEF BeginPass, children
  <2>2. [Idle EXCEPT !.pc = "queued"].pc \notin Bound
    BY DEF Idle, Bound
  <2>3. QED BY <2>1, <2>2 DEF Steady
<1>3. ASSUME NEW g \in Handoffs,
             \/ Create(g) \/ Publish(g) \/ FollowUp(g) \/ Expire(g)
             \/ \E s \in {"accepted", "rejected", "completed"} : Manual(g, s)
             \/ LeaseExpires(g) \/ BackoffEnds(g)
      PROVE  Steady(h)
  <2>1. UNCHANGED <<executor, calls, requeues>>
    BY <1>3 DEF Create, Publish, FollowUp, Expire, Manual, LeaseExpires, BackoffEnds,
                children, bounds
  <2>2. QED BY <1>a, <2>1
<1>4. ASSUME NEW g \in Handoffs, NEW k \in Tokens,
             ChildMoves(g, k) \/ Project(g, k) \/ ApprovalExpires(g, k)
      PROVE  Steady(h)
  <2>1. UNCHANGED <<executor, calls, requeues>>
    BY <1>4, ChildMovesFacts DEF Project, ApprovalExpires, children
  <2>2. QED BY <1>a, <2>1
<1>5. ASSUME NEW t \in Tasks, Cancel(t) \/ Sweep(t) PROVE Steady(h)
  <2>1. UNCHANGED <<executor, calls, requeues>>
    BY <1>5 DEF Cancel, Sweep, children
  <2>2. QED BY <1>a, <2>1
<1>6. CASE Crash
  <2>1. proc'[h] = Idle /\ UNCHANGED <<calls, requeues>>
    BY <1>6 DEF Crash
  <2>2. QED BY <2>1 DEF Steady, Idle, Bound
<1>7. CASE UNCHANGED vars
  BY <1>a, <1>7 DEF vars, children, bounds
<1>8. QED
  BY <1>1, <1>3, <1>4, <1>5, <1>6, <1>7, ProcessFlow DEF Next, ChildMoves, Requeues

\* A bound on the attempts of h on record survives every write but a requeue's.
LEMMA AttemptsKept ==
  ASSUME TypeOK, Writes, UNCHANGED requeues, NEW h \in Handoffs, Counted(h),
         NEW lo \in Nat, lo <= mem.handoff[h].att, lo <= disk.handoff[h].att
  PROVE  /\ lo <= mem'.handoff[h].att /\ lo <= disk'.handoff[h].att
         /\ mem'.handoff[h].st = "absent" => mem'.handoff[h].att = 0
         /\ disk'.handoff[h].st = "absent" => disk'.handoff[h].att = 0
<1>0. /\ mem \in Store /\ disk \in Store /\ \A m \in Store : m.handoff[h].att \in Nat
  BY StoreParts, HandoffParts, HandoffAssumption DEF TypeOK
<1>1. ASSUME NEW m, Move(m)
      PROVE  lo <= m.handoff[h].att /\ (m.handoff[h].st = "absent" => m.handoff[h].att = 0)
  <2>1. m \in Store /\ MovesHandoff(m, h)
    BY <1>1 DEF Move
  <2>2. QED BY <1>0, <2>1 DEF MovesHandoff, Counted
<1>2. CASE Quiet
  BY <1>2 DEF Quiet, Counted
<1>3. ASSUME NEW m, Saves(m), Move(m)
      PROVE  /\ lo <= mem'.handoff[h].att /\ lo <= disk'.handoff[h].att
             /\ mem'.handoff[h].st = "absent" => mem'.handoff[h].att = 0
             /\ disk'.handoff[h].st = "absent" => disk'.handoff[h].att = 0
  BY <1>1, <1>3 DEF Saves
<1>4. ASSUME NEW m, Keeps(m), Light(m)
      PROVE  /\ lo <= mem'.handoff[h].att /\ lo <= disk'.handoff[h].att
             /\ mem'.handoff[h].st = "absent" => mem'.handoff[h].att = 0
             /\ disk'.handoff[h].st = "absent" => disk'.handoff[h].att = 0
  BY <1>1, <1>4 DEF Keeps, Light, Counted
<1>5. CASE Aging
  BY <1>5, AgingFacts DEF AgesTo, Counted
<1>6. CASE Crash
  BY <1>6 DEF Crash, Counted
<1>7. QED BY <1>2, <1>3, <1>4, <1>5, <1>6 DEF Writes

\* While h is bound to a claim, only the cancellation of its task takes it to
\* where it could be requeued from.
LEMMA ReopenableKept ==
  ASSUME TypeOK, Writes, NEW h \in Handoffs, proc'[h].pc # "idle",
         mem.handoff[h].st \in {"retry_wait", "dead_letter"} =>
           mem.task[TaskOf[h]].st = "cancelled",
         mem'.handoff[h].st \in {"retry_wait", "dead_letter"}
  PROVE  mem'.task[TaskOf[h]].st = "cancelled"
<1>0. TaskOf[h] \in Tasks
  BY HandoffAssumption
<1>1. ASSUME NEW m, Move(m), m.handoff[h].st \in {"retry_wait", "dead_letter"}
      PROVE  m.task[TaskOf[h]].st = "cancelled"
  BY <1>0, <1>1 DEF Move, MovesHandoff, MovesTask
<1>2. CASE Aging
  BY <1>2, AgingFacts DEF AgesTo
<1>3. CASE Crash
  BY <1>3 DEF Crash, Idle
<1>4. QED BY <1>1, <1>2, <1>3 DEF Writes, Quiet, Saves, Keeps, Light

LEMMA CountedKept ==
  ASSUME TypeOK, Requests, [Next]_vars, \A h \in Handoffs : Counted(h), NEW h \in Handoffs
  PROVE  Counted(h)'
<1>0. /\ calls[h] \in Nat /\ mem \in Store /\ disk \in Store
      /\ mem.handoff[h] \in HandoffRecord /\ mem.task[TaskOf[h]] \in TaskRecord
      /\ mem.handoff[h].att \in Nat /\ disk.handoff[h].att \in Nat
  BY StoreParts, HandoffParts, HandoffAssumption DEF TypeOK
<1>1. Writes /\ Counted(h)
  BY StepWrites
<1>2. calls[h] <= mem.handoff[h].att /\ calls[h] <= disk.handoff[h].att
  BY <1>1 DEF Counted
<1>3. CASE Steady(h)
  <2>1. /\ calls'[h] = calls[h] /\ UNCHANGED requeues
        /\ proc'[h].pc \in Bound => proc[h].pc \in Bound
    BY <1>3 DEF Steady
  <2>2. /\ calls'[h] <= mem'.handoff[h].att /\ calls'[h] <= disk'.handoff[h].att
        /\ mem'.handoff[h].st = "absent" => mem'.handoff[h].att = 0
        /\ disk'.handoff[h].st = "absent" => disk'.handoff[h].att = 0
    BY <1>0, <1>1, <1>2, <2>1, AttemptsKept
  <2>3. ASSUME proc'[h].pc \in Bound
        PROVE  /\ calls'[h] + 1 <= mem'.handoff[h].att /\ calls'[h] + 1 <= disk'.handoff[h].att
               /\ mem'.handoff[h].st \in {"retry_wait", "dead_letter"} =>
                    mem'.task[TaskOf[h]].st = "cancelled"
    <3>1. /\ calls[h] + 1 \in Nat /\ calls[h] + 1 <= mem.handoff[h].att
          /\ calls[h] + 1 <= disk.handoff[h].att
          /\ mem.handoff[h].st \in {"retry_wait", "dead_letter"} =>
               mem.task[TaskOf[h]].st = "cancelled"
      BY <1>0, <1>1, <2>1, <2>3 DEF Counted
    <3>2. calls[h] + 1 <= mem'.handoff[h].att /\ calls[h] + 1 <= disk'.handoff[h].att
      BY <1>1, <2>1, <3>1, AttemptsKept
    <3>3. proc'[h].pc # "idle"
      BY <2>3 DEF Bound
    <3>4. QED BY <1>1, <2>1, <3>1, <3>2, <3>3, ReopenableKept
  <2>4. QED BY <2>2, <2>3 DEF Counted
<1>4. CASE Claims(h)
  <2>. DEFINE k == claims[h] + 1
              r == Claimed(h, k)
              m == WithHandoff(h, r)
  <2>1. /\ k \in Tokens /\ mem' = m /\ disk' = m /\ UNCHANGED <<calls, requeues>>
        /\ mem.handoff[h].att < MaxAttempts
    BY <1>4 DEF Claims, Saved, ClaimAllowed, Handoff
  <2>. HIDE DEF k
  <2>2. r \in HandoffRecord /\ r.st = "accepted" /\ r.att = mem.handoff[h].att + 1
    BY <1>0, <2>1, ClaimedTyped
  <2>. HIDE DEF r
  <2>3. m.handoff[h] = r
    BY <1>0, <2>2, BothFacts DEF WithHandoff, Task
  <2>. HIDE DEF m
  <2>4. QED BY <1>0, <1>2, <2>1, <2>2, <2>3 DEF Counted
<1>5. CASE Calls(h)
  <2>1. /\ proc[h].pc = "cleared" /\ proc'[h].pc = "calling"
        /\ calls'[h] = calls[h] + 1 /\ UNCHANGED requeues
    BY <1>5 DEF Calls
  <2>2. /\ calls[h] + 1 \in Nat /\ calls[h] + 1 <= mem.handoff[h].att
        /\ calls[h] + 1 <= disk.handoff[h].att
    BY <1>0, <1>1, <2>1 DEF Counted, Bound
  <2>3. QED BY <1>1, <2>1, <2>2, AttemptsKept DEF Counted, Bound
<1>6. ASSUME NEW g \in Handoffs, NEW reset \in BOOLEAN, NEW repin \in BOOLEAN,
             Requeue(g, reset, repin)
      PROVE  Counted(h)'
  <2>. DEFINE t == [st |-> "pending", bound |-> g]
              att == IF reset THEN 0 ELSE mem.handoff[g].att
              r == RequeuedRecord(mem.handoff[g], reset, repin, claims[g])
  <2>1. /\ mem.handoff[g].st \in {"retry_wait", "dead_letter"}
        /\ mem.task[TaskOf[g]].st # "cancelled"
        /\ \/ Saved(Both(g, t, r)) /\ calls' = [calls EXCEPT ![g] = IF reset THEN 0 ELSE @]
           \/ RolledBack /\ UNCHANGED calls
        /\ UNCHANGED proc
    BY <1>6 DEF Requeue, Handoff, Task, executor, RequeuedRecord
  <2>2. /\ mem.handoff[g] \in HandoffRecord /\ claims[g] \in {None} \cup Tokens
        /\ calls \in [Handoffs -> Nat] /\ TaskOf[g] \in Tasks
    BY <1>0, StoreParts, HandoffAssumption DEF TypeOK, None, Tokens
  <2>3. r \in HandoffRecord /\ r.st = "pending" /\ r.att = att
    BY <2>2, RequeuedTyped
  <2>4. t \in TaskRecord
    BY DEF TaskRecord, TaskOpen
  <2>. HIDE DEF r, t
  <2>5. CASE RolledBack /\ UNCHANGED calls
    BY <1>1, <2>1, <2>5 DEF RolledBack, Counted
  <2>6. CASE Saved(Both(g, t, r)) /\ calls' = [calls EXCEPT ![g] = IF reset THEN 0 ELSE @]
    <3>. DEFINE m == Both(g, t, r)
    <3>1. /\ m.handoff[g] = r /\ \A f \in Handoffs : f # g => m.handoff[f] = mem.handoff[f]
          /\ \A u \in Tasks : u # TaskOf[g] => m.task[u] = mem.task[u]
      BY <1>0, <2>3, <2>4, BothFacts
    <3>. HIDE DEF m
    <3>2. mem' = m /\ disk' = m
      BY <2>6 DEF Saved, m
    <3>3. CASE h = g
      <4>1. calls'[h] <= att /\ proc[h].pc \notin Bound
        BY <1>0, <1>1, <2>1, <2>2, <2>6, <3>3 DEF Counted
      <4>2. QED BY <2>1, <2>3, <3>1, <3>2, <3>3, <4>1 DEF Counted
    <3>4. CASE h # g
      <4>1. calls'[h] = calls[h]
        BY <2>2, <2>6, <3>4
      <4>2. /\ mem'.handoff[h] = mem.handoff[h] /\ disk'.handoff[h] = mem.handoff[h]
            /\ mem.task[TaskOf[h]].st = "cancelled" => mem'.task[TaskOf[h]].st = "cancelled"
        BY <2>1, <3>1, <3>2, <3>4, HandoffAssumption
      <4>3. QED BY <1>1, <2>1, <4>1, <4>2 DEF Counted
    <3>5. QED BY <3>3, <3>4
  <2>7. QED BY <2>1, <2>5, <2>6
<1>7. QED BY <1>3, <1>4, <1>5, <1>6, Flow DEF Requeues

-----------------------------------------------------------------------------
(* The theorems.                                                            *)

\* What holds in every state.
Inv == TypeOK /\ Requests /\ Sound /\ \A h \in Handoffs : Counted(h)

LEMMA InitInv == Init => Inv
<1>. SUFFICES ASSUME Init PROVE Inv
  OBVIOUS
<1>1. TypeOK
  BY InitTyped
<1>2. /\ \A t \in Tasks : mem.task[t].st = "absent" /\ disk.task[t].st = "absent"
      /\ \A h \in Handoffs : /\ mem.handoff[h].st = "absent" /\ disk.handoff[h].st = "absent"
                             /\ mem.handoff[h].att = 0 /\ disk.handoff[h].att = 0
  BY NoHandoffTyped DEF Init, Empty
<1>3. Sound
  BY <1>2 DEF Sound, DecisionsDurable, Behind, Tasked, Because, TaskDecided, Ended
<1>4. Requests
  BY DEF Init, Requests
<1>5. \A h \in Handoffs : calls[h] = 0 /\ proc[h].pc = "idle"
  BY DEF Init, Idle
<1>6. \A h \in Handoffs : Counted(h)
  BY <1>2, <1>5 DEF Counted, Bound
<1>7. QED BY <1>1, <1>3, <1>4, <1>6 DEF Inv

LEMMA StepInv == Inv /\ [Next]_vars => Inv'
<1>. SUFFICES ASSUME Inv, [Next]_vars PROVE Inv'
  OBVIOUS
<1>1. TypeOK /\ Requests /\ Sound /\ \A h \in Handoffs : Counted(h)
  BY DEF Inv
<1>2. Writes
  BY <1>1, StepWrites
<1>3. TypeOK'
  <2>1. mem' \in Store /\ disk' \in Store
    BY <1>1, <1>2, StoreTyped
  <2>2. Rest' /\ Faulty'
    BY <1>1, RestKept, TypesSplit
  <2>3. QED BY <2>1, <2>2 DEF TypeOK, Rest, Faulty, ProcTyped, RequestTyped, ChildTyped
<1>4. Requests' /\ Sound'
  BY <1>1, <1>2, RequestsKept, SoundKept
<1>5. \A h \in Handoffs : Counted(h)'
  BY <1>1, CountedKept
<1>6. QED BY <1>3, <1>4, <1>5 DEF Inv

\* Types, and the invariants of the other theorems.
THEOREM HandoffInductive == Spec => []Inv
<1>1. QED BY InitInv, StepInv, PTL DEF Spec

\* Every record of a task, handoff, claim, child and request keeps its form: no write,
\* failed write, request or crash leaves a status that the code does not know.
THEOREM HandoffTypeCorrect == Spec => []TypeOK
<1>1. Inv => TypeOK
  BY DEF Inv
<1>2. QED BY <1>1, HandoffInductive, PTL

\* AgentTaskStore: a decision about a task is in memory exactly when it is in the
\* file, whatever writes fail and whenever the backend dies.
THEOREM DecisionsAreDurable == Spec => []DecisionsDurable
<1>1. Inv => DecisionsDurable
  BY DEF Inv, Sound
<1>2. QED BY <1>1, HandoffInductive, PTL

\* A task is completed or failed only beside a handoff of it that ended so, in
\* memory and in the file, though an operator's request writes the two apart.
THEOREM DecisionsHaveReasons == Spec => []DecisionsExplained
<1>1. Inv => DecisionsExplained
  BY BecauseExplained DEF Inv, Sound, DecisionsExplained
<1>2. QED BY <1>1, HandoffInductive, PTL

\* claim_handoff counts the attempt before the target is called, on disk too: no
\* interleaving of claims, failed writes, crashes and requeues loses a call.
THEOREM CallsAreCounted == Spec => []CallsCounted
<1>1. Inv => CallsCounted
  BY DEF Inv, Counted, CallsCounted
<1>2. QED BY <1>1, HandoffInductive, PTL

-----------------------------------------------------------------------------
(* The refinement of HandoffPromise.                                        *)

FileTask == [t \in Tasks |-> Coarse(disk.task[t].st)]
FileHandoff == [h \in Handoffs |-> Coarse(disk.handoff[h].st)]

LEMMA CoarseFacts ==
  /\ Coarse("absent") = "none"
  /\ \A st \in TaskDecided \cup Ended : Coarse(st) = st
  /\ \A st \in TaskOpen \cup (HandoffStatus \ (Ended \cup {"absent"})) : Coarse(st) = "open"
BY DEF Coarse, TaskDecided, Ended, TaskOpen, HandoffStatus

LEMMA CoarseTyped ==
  ASSUME NEW m \in Store
  PROVE  /\ \A t \in Tasks : Coarse(m.task[t].st) \in Promise!TaskStates
         /\ \A h \in Handoffs : Coarse(m.handoff[h].st) \in Promise!HandoffStates
<1>1. \A t \in Tasks : m.task[t].st \in TaskStatus
  BY StoreParts
<1>2. \A h \in Handoffs : m.handoff[h].st \in HandoffStatus
  BY StoreParts, HandoffParts
<1>3. \A st \in TaskStatus : Coarse(st) \in Promise!TaskStates
  BY DEF Coarse, TaskStatus, TaskDecided, TaskOpen, Ended, Promise!TaskStates
<1>4. \A st \in HandoffStatus : Coarse(st) \in Promise!HandoffStates
  BY DEF Coarse, TaskDecided, Ended, HandoffStatus, Promise!HandoffStates
<1>5. QED BY <1>1, <1>2, <1>3, <1>4

\* A write of the file is a step of the promise.
LEMMA SavePromised ==
  ASSUME Inv, NEW m, Saves(m), Move(m)
  PROVE  Promise!Next
<1>0. /\ mem \in Store /\ disk \in Store /\ m \in Store /\ disk' = m
      /\ DecisionsDurable /\ Behind /\ Tasked(disk) /\ Tasked(mem)
      /\ \A t \in Tasks : MovesTask(m, t)
      /\ \A h \in Handoffs : MovesHandoff(m, h)
      /\ \A h \in Handoffs : TaskOf[h] \in Tasks
  BY HandoffAssumption DEF Inv, TypeOK, Sound, Saves, Move
<1>t. \A t \in Tasks : /\ m.task[t].st \in TaskStatus /\ mem.task[t].st \in TaskStatus
                       /\ disk.task[t].st \in TaskStatus
  BY <1>0, StoreParts
<1>h. \A h \in Handoffs :
        /\ m.handoff[h].st \in HandoffStatus /\ mem.handoff[h].st \in HandoffStatus
        /\ disk.handoff[h].st \in HandoffStatus
  BY <1>0, StoreParts, HandoffParts
<1>1. /\ FileTask' \in [Tasks -> Promise!TaskStates]
      /\ FileHandoff' \in [Handoffs -> Promise!HandoffStates]
  BY <1>0, CoarseTyped DEF FileTask, FileHandoff
<1>2. \A st \in TaskStatus :
        /\ Coarse(st) = "none" <=> st = "absent"
        /\ Coarse(st) = "open" <=> st \in TaskOpen
        /\ \A d \in TaskDecided : Coarse(st) = d <=> st = d
  BY DEF Coarse, TaskStatus, TaskOpen, TaskDecided, Ended
<1>3. \A st \in HandoffStatus :
        /\ Coarse(st) = "none" <=> st = "absent"
        /\ Coarse(st) = "open" <=> st \notin Ended \cup {"absent"}
        /\ \A d \in Ended : Coarse(st) = d <=> st = d
  BY DEF Coarse, HandoffStatus, TaskDecided, Ended
<1>4. ASSUME NEW h \in Handoffs, Reopened(m, h)
      PROVE  /\ FileHandoff[h] \in {"open", "dead_letter"} /\ FileHandoff'[h] = "open"
             /\ FileTask[TaskOf[h]] \in {"open", "failed"} /\ FileTask'[TaskOf[h]] = "open"
  <2>1. /\ disk.handoff[h].st \notin {"absent", "completed", "rejected"}
        /\ disk.task[TaskOf[h]].st \notin {"absent", "completed", "cancelled"}
    BY <1>0, <1>4 DEF Reopened, Behind, Tasked, DecisionsDurable, TaskDecided, Ended
  <2>2. m.handoff[h].st = "pending" /\ m.task[TaskOf[h]].st = "pending"
    BY <1>4 DEF Reopened
  <2>3. FileHandoff[h] \in {"open", "dead_letter"} /\ FileHandoff'[h] = "open"
    BY <1>0, <1>h, <1>3, <2>1, <2>2 DEF FileHandoff, Ended
  <2>4. FileTask[TaskOf[h]] \in {"open", "failed"} /\ FileTask'[TaskOf[h]] = "open"
    BY <1>0, <1>t, <1>2, <2>1, <2>2 DEF FileTask, TaskStatus, TaskOpen, TaskDecided
  <2>5. QED BY <2>3, <2>4
<1>5. ASSUME NEW t \in Tasks
      PROVE  \/ FileTask'[t] = FileTask[t]
             \/ FileTask[t] = "none"
             \/ /\ FileTask[t] = "open" /\ FileTask'[t] # "none"
                /\ FileTask'[t] = "completed" =>
                     \E h \in Handoffs : TaskOf[h] = t /\ FileHandoff'[h] = "completed"
             \/ /\ FileTask[t] = "failed" /\ FileTask'[t] = "open"
                /\ \E h \in Handoffs : TaskOf[h] = t /\ FileHandoff[h] \in {"open", "dead_letter"}
                                       /\ FileHandoff'[h] = "open"
  <2>0. FileTask[t] = Coarse(disk.task[t].st) /\ FileTask'[t] = Coarse(m.task[t].st)
    BY <1>0 DEF FileTask
  <2>1. CASE disk.task[t].st = "absent"
    BY <1>2, <1>t, <2>0, <2>1
  <2>2. CASE disk.task[t].st \in TaskOpen
    <3>1. mem.task[t].st \in TaskOpen
      BY <1>0, <1>t, <2>2 DEF Behind, DecisionsDurable, TaskStatus, TaskOpen, TaskDecided
    <3>2. m.task[t].st # "absent"
      BY <1>0, <3>1 DEF MovesTask, TaskOpen
    <3>3. ASSUME m.task[t].st = "completed"
          PROVE  \E h \in Handoffs : TaskOf[h] = t /\ FileHandoff'[h] = "completed"
      <4>1. PICK h \in Handoffs : TaskOf[h] = t /\ m.handoff[h].st = "completed"
        BY <1>0, <3>1, <3>3 DEF MovesTask, TaskOpen
      <4>2. FileHandoff'[h] = "completed"
        BY <1>0, <4>1, CoarseFacts DEF FileHandoff, Ended
      <4>3. QED BY <4>1, <4>2
    <3>4. QED BY <1>2, <1>t, <2>0, <2>2, <3>2, <3>3 DEF TaskDecided
  <2>3. CASE disk.task[t].st \in {"completed", "cancelled"}
    BY <1>0, <2>0, <2>3 DEF DecisionsDurable, MovesTask, TaskDecided
  <2>4. CASE disk.task[t].st = "failed"
    <3>1. mem.task[t].st = "failed"
      BY <1>0, <2>4 DEF DecisionsDurable, TaskDecided
    <3>2. CASE m.task[t].st = "failed"
      BY <2>0, <2>4, <3>2
    <3>3. CASE \E h \in Handoffs : TaskOf[h] = t /\ Reopened(m, h)
      <4>1. PICK h \in Handoffs : TaskOf[h] = t /\ Reopened(m, h)
        BY <3>3
      <4>2. FileTask[t] = "failed"
        BY <2>0, <2>4, CoarseFacts DEF TaskDecided
      <4>3. QED BY <1>4, <4>1, <4>2
    <3>4. QED BY <1>0, <3>1, <3>2, <3>3 DEF MovesTask
  <2>5. QED BY <1>t, <2>1, <2>2, <2>3, <2>4 DEF TaskStatus, TaskDecided
<1>6. ASSUME NEW h \in Handoffs
      PROVE  \/ FileHandoff'[h] = FileHandoff[h]
             \/ FileHandoff[h] = "none"
             \/ FileHandoff[h] = "open" /\ FileHandoff'[h] # "none"
             \/ /\ FileHandoff[h] = "dead_letter" /\ FileHandoff'[h] = "open"
                /\ FileTask[TaskOf[h]] \in {"open", "failed"} /\ FileTask'[TaskOf[h]] = "open"
  <2>0. FileHandoff[h] = Coarse(disk.handoff[h].st) /\ FileHandoff'[h] = Coarse(m.handoff[h].st)
    BY <1>0 DEF FileHandoff
  <2>1. CASE disk.handoff[h].st = "absent"
    BY <1>3, <1>h, <2>0, <2>1
  <2>2. CASE disk.handoff[h].st \notin Ended \cup {"absent"}
    <3>1. m.handoff[h].st # "absent"
      BY <1>0, <2>2 DEF Behind, MovesHandoff
    <3>2. QED BY <1>3, <1>h, <2>0, <2>2, <3>1
  <2>3. CASE disk.handoff[h].st \in Ended
    <3>1. mem.handoff[h].st = disk.handoff[h].st
      BY <1>0, <2>3 DEF Behind
    <3>2. CASE m.handoff[h].st = mem.handoff[h].st
      BY <2>0, <3>1, <3>2
    <3>3. CASE Reopened(m, h)
      <4>1. disk.handoff[h].st = "dead_letter"
        BY <2>3, <3>1, <3>3 DEF Reopened, Ended
      <4>2. FileHandoff[h] = "dead_letter"
        BY <2>0, <4>1, CoarseFacts DEF Ended
      <4>3. QED BY <1>4, <3>3, <4>2
    <3>4. QED BY <1>0, <2>3, <3>1, <3>2, <3>3 DEF MovesHandoff
  <2>4. QED BY <2>1, <2>2, <2>3
<1>7. QED
  BY <1>1, <1>5, <1>6
  DEF Promise!Next, Promise!TaskMoves, Promise!HandoffMoves, Promise!Requeued,
      FileTask, FileHandoff

LEMMA FileStays ==
  ASSUME \A t \in Tasks : disk'.task[t].st = disk.task[t].st,
         \A h \in Handoffs : disk'.handoff[h].st = disk.handoff[h].st
  PROVE  UNCHANGED <<FileTask, FileHandoff>>
BY DEF FileTask, FileHandoff

LEMMA StepPromised ==
  ASSUME Inv, [Next]_vars
  PROVE  Promise!Next \/ UNCHANGED <<FileTask, FileHandoff>>
<1>1. Writes
  BY StepWrites DEF Inv
<1>2. CASE Quiet
  BY <1>2, FileStays DEF Quiet
<1>3. ASSUME NEW m, Saves(m), Move(m) PROVE Promise!Next
  BY <1>3, SavePromised
<1>4. ASSUME NEW m, Keeps(m), Light(m) PROVE UNCHANGED <<FileTask, FileHandoff>>
  BY <1>4, FileStays DEF Keeps
<1>5. CASE Aging
  <2>1. AgesTo(disk, disk')
    BY <1>5, AgingFacts DEF Inv
  <2>2. QED BY <2>1, FileStays DEF AgesTo
<1>6. CASE Crash
  BY <1>6, FileStays DEF Crash
<1>7. QED BY <1>1, <1>2, <1>3, <1>4, <1>5, <1>6 DEF Writes

\* The file of agent tasks keeps HandoffPromise: a completed or cancelled task and an
\* ended handoff stay as they are, and a failed task opens only with a requeued handoff.
THEOREM FileKeepsPromise == Spec => KeepsPromise
<1>1. Init => Promise!Init
  <2>. SUFFICES ASSUME Init PROVE Promise!Init
    OBVIOUS
  <2>1. /\ \A t \in Tasks : disk.task[t].st = "absent"
        /\ \A h \in Handoffs : disk.handoff[h].st = "absent"
    BY NoHandoffTyped DEF Init, Empty
  <2>2. QED BY <2>1, CoarseFacts DEF Promise!Init
<1>2. Inv /\ [Next]_vars => [Promise!Next]_<<FileTask, FileHandoff>>
  BY StepPromised
<1>3. QED
  BY <1>1, <1>2, HandoffInductive, PTL
  DEF Spec, KeepsPromise, Promise!Spec, FileTask, FileHandoff
-----------------------------------------------------------------------------
(* What goals and workflows see of the only handoff of a task.              *)

\* Only a decided task has a dead-lettered handoff.
Tied(m) ==
  \A h \in Handoffs :
    Sole(h) /\ m.handoff[h].st = "dead_letter" => m.task[TaskOf[h]].st \in {"failed", "cancelled"}

\* What a step may make of the handoff in memory: nothing but its publication, its
\* creation, the end of a cancelled task, a move of its own, or a requeue.
Onward(st) ==
  CASE st = "pending" -> {"accepted", "rejected"}
    [] st = "accepted" -> {"completed", "waiting", "retry_wait", "dead_letter"}
    [] st = "retry_wait" -> {"accepted"}
    [] st = "waiting" -> {"completed", "waiting", "accepted", "needs_attention"}
    [] st = "needs_attention" -> {"completed", "waiting", "accepted"}
    [] OTHER -> {}
Seen(h, u, b) ==
  LET a == mem.handoff[h]
      t == mem.task[TaskOf[h]].st
  IN \/ /\ b.st = a.st /\ (t \in TaskDecided => u = t)
        /\ b.ready = a.ready \/ (b.ready /\ t # "cancelled")
     \/ a.st = "absent" /\ b.st = "pending" /\ ~b.ready
     \/ a.st \notin Ended \cup {"absent"} /\ b.st = "dead_letter" /\ ~b.ready /\ u = "cancelled"
     \/ b.st \in Onward(a.st) /\ b.ready = a.ready /\ (b.st = "dead_letter" => u = "failed")
     \/ a.st \in {"retry_wait", "dead_letter"} /\ t # "cancelled" /\ b.st = "pending" /\ b.ready
SeenIn(m, h) == Seen(h, m.task[TaskOf[h]].st, m.handoff[h])

LEMMA StaySeen ==
  ASSUME NEW m, NEW h \in Handoffs,
         m.handoff[h].st = mem.handoff[h].st, m.handoff[h].ready = mem.handoff[h].ready,
         m.task[TaskOf[h]].st = mem.task[TaskOf[h]].st
  PROVE  SeenIn(m, h)
BY DEF SeenIn, Seen

LEMMA BothSeen ==
  ASSUME mem \in Store, NEW g \in Handoffs, NEW t \in TaskRecord, NEW r \in HandoffRecord,
         NEW h \in Handoffs, Sole(h), Seen(g, t.st, r)
  PROVE  SeenIn(Both(g, t, r), h)
<1>1. CASE g = h
  BY <1>1, BothFacts DEF SeenIn
<1>2. CASE g # h
  <2>1. TaskOf[h] # TaskOf[g] /\ TaskOf[h] \in Tasks
    BY <1>2, HandoffAssumption DEF Sole
  <2>2. /\ Both(g, t, r).handoff[h] = mem.handoff[h]
        /\ Both(g, t, r).task[TaskOf[h]] = mem.task[TaskOf[h]]
    BY <1>2, <2>1, BothFacts
  <2>3. QED BY <2>2, StaySeen
<1>3. QED BY <1>1, <1>2

LEMMA CancelledSeen ==
  ASSUME mem \in Store, NEW t \in Tasks, mem.task[t].st \notin TaskDecided,
         NEW h \in Handoffs
  PROVE  SeenIn(CancelledWith(t), h)
<1>. DEFINE m == CancelledWith(t)
            T == [mem.task EXCEPT ![t].st = "cancelled"]
            ends(g) == TaskOf[g] = t /\ mem.handoff[g].st \notin Ended \cup {"absent"}
            H == [g \in Handoffs |-> IF ends(g) THEN DeadLettered(mem.handoff[g])
                                     ELSE mem.handoff[g]]
<1>1. m = [task |-> T, handoff |-> H]
  BY DEF CancelledWith, Handoff
<1>2. mem.handoff[h] \in HandoffRecord /\ TaskOf[h] \in Tasks /\ mem.task \in [Tasks -> TaskRecord]
  BY HandoffAssumption DEF Store
<1>3. DeadLettered(mem.handoff[h]).st = "dead_letter" /\ ~DeadLettered(mem.handoff[h]).ready
  BY <1>2 DEF DeadLettered, Unleased, HandoffRecord
<1>4. T[t].st = "cancelled" /\ \A u \in Tasks : u # t => T[u] = mem.task[u]
  BY <1>2 DEF TaskRecord
<1>5. H[h] = IF ends(h) THEN DeadLettered(mem.handoff[h]) ELSE mem.handoff[h]
  OBVIOUS
<1>. HIDE DEF T, H
<1>6. m.task = T /\ m.handoff = H
  BY <1>1
<1>. HIDE DEF m
<1>7. CASE ends(h)
  <2>1. /\ m.handoff[h].st = "dead_letter" /\ ~m.handoff[h].ready
        /\ m.task[TaskOf[h]].st = "cancelled"
        /\ mem.handoff[h].st \notin Ended \cup {"absent"}
    BY <1>3, <1>4, <1>5, <1>6, <1>7
  <2>2. QED BY <2>1 DEF SeenIn, Seen, m
<1>8. CASE ~ends(h) /\ TaskOf[h] = t
  <2>1. m.handoff[h] = mem.handoff[h] /\ mem.task[TaskOf[h]].st \notin TaskDecided
    BY <1>5, <1>6, <1>8
  <2>2. QED BY <2>1 DEF SeenIn, Seen, m
<1>9. CASE TaskOf[h] # t
  <2>1. m.handoff[h] = mem.handoff[h] /\ m.task[TaskOf[h]] = mem.task[TaskOf[h]]
    BY <1>2, <1>4, <1>5, <1>6, <1>9
  <2>2. QED BY <2>1, StaySeen DEF m
<1>10. QED BY <1>7, <1>8, <1>9 DEF m

LEMMA ProcessSeen ==
  ASSUME TypeOK, NEW g \in Handoffs, Process(g) \/ ExecuteNow(g), NEW h \in Handoffs, Sole(h)
  PROVE  SeenIn(mem', h)
<1>0. /\ mem \in Store /\ mem.handoff[g] \in HandoffRecord /\ TaskOf[g] \in Tasks
      /\ mem.task[TaskOf[g]] \in TaskRecord /\ mem.handoff[g].att \in Int
  BY StoreParts, HandoffParts DEF TypeOK
<1>a. mem' = mem => SeenIn(mem', h)
  BY StaySeen
<1>b. Kept \/ RolledBack \/ Doubted => mem' = mem
  BY DEF Kept, RolledBack, Doubted
<1>c. ASSUME NEW m, Saved(m) \/ LeftInMemory(m) \/ mem' = mem, SeenIn(m, h) PROVE SeenIn(mem', h)
  BY <1>a, <1>c DEF Saved, LeftInMemory
<1>1. CASE TryClaim(g)
  <2>. DEFINE k == claims[g] + 1
  <2>1. CASE ~ClaimAllowed(g)
    BY <1>1, <1>a, <1>b, <2>1 DEF TryClaim
  <2>2. CASE ClaimAllowed(g)
    <3>1. k \in Tokens /\ (Saved(WithHandoff(g, Claimed(g, k)))
                           \/ LeftInMemory(WithHandoff(g, Claimed(g, k))))
      BY <1>1, <2>2 DEF TryClaim
    <3>2. mem.handoff[g].att < MaxAttempts
          /\ mem.handoff[g].st \in {"pending", "retry_wait", "accepted"}
      BY <2>2 DEF ClaimAllowed, Handoff
    <3>. HIDE DEF k
    <3>3. /\ Claimed(g, k) \in HandoffRecord /\ Claimed(g, k).st = "accepted"
          /\ Claimed(g, k).ready = mem.handoff[g].ready
      BY <1>0, <3>1, <3>2, ClaimedTyped DEF Claimed, Handoff, HandoffRecord
    <3>4. Seen(g, mem.task[TaskOf[g]].st, Claimed(g, k))
      BY <3>2, <3>3 DEF Seen, Onward
    <3>5. SeenIn(WithHandoff(g, Claimed(g, k)), h)
      BY <1>0, <3>3, <3>4, BothSeen DEF WithHandoff, Task
    <3>6. QED BY <1>c, <3>1, <3>5
  <2>3. QED BY <2>1, <2>2
<1>2. CASE Accept(g)
  <2>. DEFINE t == [st |-> "running", bound |-> g]
  <2>1. CASE ~Owner(g)
    BY <1>2, <1>a, <1>b, <2>1 DEF Accept
  <2>2. CASE Owner(g)
    <3>1. Saved(Both(g, t, mem.handoff[g])) \/ Doubted
      BY <1>2, <2>2 DEF Accept, WithTask, Handoff
    <3>2. t \in TaskRecord /\ mem.task[TaskOf[g]].st \notin TaskDecided
      BY <2>2 DEF TaskRecord, TaskOpen, Owner, Decided, Task
    <3>3. Seen(g, t.st, mem.handoff[g])
      BY <3>2 DEF Seen
    <3>. HIDE DEF t
    <3>4. SeenIn(Both(g, t, mem.handoff[g]), h)
      BY <1>0, <3>2, <3>3, BothSeen
    <3>5. QED BY <1>b, <1>c, <3>1, <3>4
  <2>3. QED BY <2>1, <2>2
<1>3. CASE Settle(g)
  <2>. DEFINE o == proc[g].out
              s == Settlement(g, o)
              t == [st |-> TaskState(s), bound |-> g]
              r == [Unleased(Handoff(g)) EXCEPT
                      !.st = s, !.due = (s # "retry_wait"),
                      !.run = IF s \in {"completed", "waiting"} THEN proc[g].tok ELSE @]
  <2>1. CASE ~Owner(g)
    BY <1>3, <1>a, <1>b, <2>1 DEF Settle
  <2>2. CASE Owner(g)
    <3>1. Saved(Settled(g, o)) \/ Doubted
      BY <1>3, <2>2 DEF Settle
    <3>2. s \in {"completed", "waiting", "retry_wait", "dead_letter"}
      BY DEF Settlement
    <3>3. /\ t \in TaskRecord
          /\ s = "dead_letter" => t.st = "failed"
      BY <3>2 DEF TaskState, TaskRecord, TaskOpen, TaskDecided
    <3>4. /\ mem.handoff[g].st = "accepted" /\ proc[g].tok \in {None} \cup Tokens
      BY <2>2 DEF Owner, Handoff, TypeOK
    <3>a. Unleased(Handoff(g)) \in HandoffRecord
          /\ Unleased(Handoff(g)).ready = mem.handoff[g].ready
      BY <1>0 DEF Unleased, Handoff, HandoffRecord
    <3>6. Settled(g, o) = Both(g, t, r)
      BY DEF Settled
    <3>b. s \in HandoffStatus
      BY <3>2 DEF HandoffStatus, Ended
    <3>. HIDE DEF s, t, o
    <3>5. r \in HandoffRecord /\ r.st = s /\ r.ready = mem.handoff[g].ready
      <4>1. Unleased(Handoff(g)).run \in {None} \cup Tokens
        BY <1>0, UnleasedTyped DEF Handoff
      <4>. DEFINE b == s # "retry_wait"
                  q == Unleased(Handoff(g))
                  k == IF s \in {"completed", "waiting"} THEN proc[g].tok ELSE q.run
      <4>3. k \in {None} \cup Tokens
        BY <3>4, <4>1
      <4>4. b \in BOOLEAN
        OBVIOUS
      <4>5. r = [q EXCEPT !.st = s, !.due = b, !.run = k]
        BY DEF r
      <4>. HIDE DEF b, k, q, r
      <4>6. q \in HandoffRecord /\ q.ready = mem.handoff[g].ready
        BY <3>a DEF q
      <4>7. QED BY <3>b, <4>3, <4>4, <4>5, <4>6 DEF HandoffRecord
    <3>. HIDE DEF r
    <3>7. Seen(g, t.st, r)
      BY <3>2, <3>3, <3>4, <3>5 DEF Seen, Onward
    <3>8. SeenIn(Both(g, t, r), h)
      BY <1>0, <3>3, <3>5, <3>7, BothSeen
    <3>9. QED BY <1>b, <1>c, <3>1, <3>6, <3>8
  <2>3. QED BY <2>1, <2>2
<1>4. Recheck(g) \/ (\E o \in Outcome : Return(g, o)) \/ Call(g) => mem' = mem
  BY <1>b DEF Recheck, Return, Call, Saved, LeftInMemory
<1>5. QED BY <1>1, <1>2, <1>3, <1>4, <1>a DEF Process, Claim, ExecuteNow

LEMMA RequestSeen ==
  ASSUME TypeOK, NEW g \in Handoffs, NEW h \in Handoffs, Sole(h),
         \/ Create(g) \/ Publish(g) \/ FollowUp(g) \/ Expire(g)
         \/ \E s \in {"accepted", "rejected", "completed"} : Manual(g, s)
         \/ \E k \in Tokens : Project(g, k) \/ ApprovalExpires(g, k)
         \/ \E reset, repin \in BOOLEAN : Requeue(g, reset, repin)
  PROVE  SeenIn(mem', h)
<1>0. /\ mem \in Store /\ mem.handoff[g] \in HandoffRecord /\ TaskOf[g] \in Tasks
      /\ mem.task[TaskOf[g]] \in TaskRecord
  BY StoreParts DEF TypeOK
<1>a. Kept \/ RolledBack \/ Doubted => mem' = mem
  BY DEF Kept, RolledBack, Doubted
<1>b. ASSUME NEW t \in TaskRecord, NEW r \in HandoffRecord, Seen(g, t.st, r),
             \/ Saved(Both(g, t, r)) \/ LeftInMemory(Both(g, t, r))
             \/ Kept \/ RolledBack \/ Doubted
      PROVE  SeenIn(mem', h)
  <2>1. SeenIn(Both(g, t, r), h)
    BY <1>0, <1>b, BothSeen
  <2>2. mem' = mem \/ mem' = Both(g, t, r)
    BY <1>a, <1>b DEF Saved, LeftInMemory
  <2>3. QED BY <2>1, <2>2, StaySeen
<1>c. ASSUME Kept \/ RolledBack \/ Doubted PROVE SeenIn(mem', h)
  BY <1>a, <1>c, StaySeen
<1>1. CASE Create(g)
  <2>. DEFINE r == [NoHandoff EXCEPT !.st = "pending"]
              t == IF mem.task[TaskOf[g]].st = "absent" THEN [NoTask EXCEPT !.st = "pending"]
                   ELSE mem.task[TaskOf[g]]
  <2>1. mem.handoff[g].st = "absent" /\ (Saved(Both(g, t, r)) \/ LeftInMemory(Both(g, t, r)))
    BY <1>1 DEF Create, Created, Task, Handoff
  <2>2. r \in HandoffRecord /\ r.st = "pending" /\ t \in TaskRecord
    BY <1>0, NoHandoffTyped
  <2>3. ~r.ready
    BY DEF NoHandoff
  <2>. HIDE DEF r, t
  <2>4. Seen(g, t.st, r)
    BY <2>1, <2>2, <2>3 DEF Seen
  <2>5. QED BY <1>b, <2>1, <2>2, <2>4
<1>2. CASE Publish(g)
  <2>. DEFINE r == [mem.handoff[g] EXCEPT !.ready = TRUE]
  <2>1. \/ Kept
        \/ /\ mem.task[TaskOf[g]].st # "cancelled"
           /\ \/ Saved(Both(g, mem.task[TaskOf[g]], r))
              \/ LeftInMemory(Both(g, mem.task[TaskOf[g]], r))
    BY <1>2 DEF Publish, Handoff, Task, WithHandoff
  <2>2. r \in HandoffRecord /\ r.st = mem.handoff[g].st /\ r.ready = TRUE
    BY <1>0 DEF HandoffRecord
  <2>. HIDE DEF r
  <2>3. mem.task[TaskOf[g]].st # "cancelled" => Seen(g, mem.task[TaskOf[g]].st, r)
    BY <2>2 DEF Seen
  <2>4. QED BY <1>0, <1>b, <1>c, <2>1, <2>2, <2>3
<1>3. CASE FollowUp(g)
  <2>. DEFINE t == [mem.task[TaskOf[g]] EXCEPT !.st = request[g]]
  <2>1. CASE Decided(g)
    BY <1>3, <1>c, <2>1 DEF FollowUp
  <2>2. CASE ~Decided(g)
    <3>1. Saved(Both(g, t, mem.handoff[g])) \/ RolledBack
      BY <1>3, <2>2 DEF FollowUp, WithTask, Task, Handoff
    <3>2. request[g] \in {"running", "completed", "failed", "needs_attention"}
      BY <1>3 DEF FollowUp, TypeOK
    <3>3. t \in TaskRecord /\ mem.task[TaskOf[g]].st \notin TaskDecided
      BY <1>0, <2>2, <3>2 DEF TaskRecord, TaskOpen, TaskDecided, Decided, Task
    <3>. HIDE DEF t
    <3>4. Seen(g, t.st, mem.handoff[g])
      BY <3>3 DEF Seen
    <3>5. QED BY <1>0, <1>b, <3>1, <3>3, <3>4
  <2>3. QED BY <2>1, <2>2
<1>4. CASE Expire(g)
  <2>1. mem.task[TaskOf[g]].st \notin TaskDecided
    BY <1>4 DEF Expire, Decided, Task
  <2>2. SeenIn(CancelledWith(TaskOf[g]), h)
    BY <1>0, <2>1, CancelledSeen
  <2>3. mem' = CancelledWith(TaskOf[g]) \/ Doubted
    BY <1>4 DEF Expire, Saved
  <2>4. QED BY <1>c, <2>2, <2>3
<1>5. ASSUME NEW s \in {"accepted", "rejected", "completed"}, Manual(g, s)
      PROVE  SeenIn(mem', h)
  <2>. DEFINE r == [mem.handoff[g] EXCEPT !.st = s]
  <2>1. /\ \/ Saved(Both(g, mem.task[TaskOf[g]], r))
           \/ LeftInMemory(Both(g, mem.task[TaskOf[g]], r))
        /\ s \in Transitions(mem.handoff[g].st)
    BY <1>5 DEF Manual, Handoff, Task, WithHandoff
  <2>2. s \in Onward(mem.handoff[g].st)
    BY <2>1 DEF Transitions, Onward
  <2>3. s \in HandoffStatus
    BY DEF HandoffStatus, Ended
  <2>4. r \in HandoffRecord /\ r.st = s /\ r.ready = mem.handoff[g].ready
    BY <1>0, <2>3 DEF HandoffRecord
  <2>. HIDE DEF r
  <2>5. Seen(g, mem.task[TaskOf[g]].st, r)
    BY <2>2, <2>4 DEF Seen
  <2>6. QED BY <1>0, <1>b, <2>1, <2>4, <2>5
<1>6. ASSUME NEW k \in Tokens, Project(g, k) PROVE SeenIn(mem', h)
  <2>. DEFINE o == owed[g][k]
              t == [mem.task[TaskOf[g]] EXCEPT !.st = o, !.bound = g]
              r == [mem.handoff[g] EXCEPT
                      !.st = IF o = "cancelled" THEN "dead_letter" ELSE o,
                      !.ready = (o # "cancelled" /\ @), !.run = k, !.prior = k]
  <2>1. \/ Kept
        \/ Projectable(g, k) /\ (Saved(Both(g, t, r)) \/ RolledBack)
    BY <1>6 DEF Project, Projected, Task, Handoff
  <2>2. CASE Projectable(g, k) /\ (Saved(Both(g, t, r)) \/ RolledBack)
    <3>1. mem.handoff[g].st \in {"accepted", "waiting", "needs_attention"}
      BY <2>2 DEF Projectable, Handoff
    <3>2. o \in {"completed", "waiting", "cancelled"}
      BY <1>6 DEF Project, TypeOK
    <3>. HIDE DEF o
    <3>3. t \in TaskRecord /\ t.st = o
      BY <1>0, <3>2 DEF TaskRecord, TaskOpen, TaskDecided
    <3>s. (IF o = "cancelled" THEN "dead_letter" ELSE o) \in HandoffStatus
      BY <3>2 DEF HandoffStatus, Ended
    <3>4. r \in HandoffRecord /\ r.st = IF o = "cancelled" THEN "dead_letter" ELSE o
      <4>1. k \in {None} \cup Tokens
        OBVIOUS
      <4>. DEFINE q == mem.handoff[g]
                  b == o # "cancelled" /\ q.ready
                  z == IF o = "cancelled" THEN "dead_letter" ELSE o
      <4>2. q \in HandoffRecord /\ b \in BOOLEAN /\ z \in HandoffStatus
        BY <1>0, <3>s
      <4>3. r = [q EXCEPT !.st = z, !.ready = b, !.run = k, !.prior = k]
        BY DEF r
      <4>. HIDE DEF q, b, z, r
      <4>4. r \in HandoffRecord /\ r.st = z
        BY <4>1, <4>2, <4>3 DEF HandoffRecord
      <4>5. QED BY <4>4 DEF z
    <3>5. r.ready = (o # "cancelled" /\ mem.handoff[g].ready)
      BY <1>0 DEF HandoffRecord
    <3>6. mem.handoff[g].ready \in BOOLEAN
      BY <1>0 DEF HandoffRecord
    <3>. HIDE DEF t, r
    <3>7. CASE o = "cancelled"
      BY <1>0, <1>b, <2>2, <3>1, <3>3, <3>4, <3>5, <3>7 DEF Seen, Ended
    <3>8. CASE o \in {"completed", "waiting"}
      <4>1. r.ready = mem.handoff[g].ready /\ r.st = o
        BY <3>4, <3>5, <3>6, <3>8
      <4>2. Seen(g, t.st, r)
        BY <3>1, <3>8, <4>1 DEF Seen, Onward
      <4>3. QED BY <1>b, <2>2, <3>3, <3>4, <4>2
    <3>9. QED BY <3>2, <3>7, <3>8
  <2>3. QED BY <1>c, <2>1, <2>2
<1>7. ASSUME NEW k \in Tokens, ApprovalExpires(g, k) PROVE SeenIn(mem', h)
  <2>. DEFINE r == [mem.handoff[g] EXCEPT !.st = "needs_attention"]
  <2>1. \/ Kept
        \/ /\ mem.handoff[g].st = "waiting"
           /\ \/ Saved(Both(g, mem.task[TaskOf[g]], r))
              \/ LeftInMemory(Both(g, mem.task[TaskOf[g]], r))
    BY <1>7 DEF ApprovalExpires, Handoff, Task, WithHandoff
  <2>2. /\ r \in HandoffRecord /\ r.st = "needs_attention"
        /\ r.ready = mem.handoff[g].ready
    BY <1>0 DEF HandoffRecord, HandoffStatus
  <2>. HIDE DEF r
  <2>3. mem.handoff[g].st = "waiting" => Seen(g, mem.task[TaskOf[g]].st, r)
    BY <2>2 DEF Seen, Onward
  <2>4. QED BY <1>0, <1>b, <1>c, <2>1, <2>2, <2>3
<1>8. ASSUME NEW reset \in BOOLEAN, NEW repin \in BOOLEAN, Requeue(g, reset, repin)
      PROVE  SeenIn(mem', h)
  <2>. DEFINE t == [st |-> "pending", bound |-> g]
              r == RequeuedRecord(mem.handoff[g], reset, repin, claims[g])
  <2>1. /\ mem.handoff[g].st \in {"retry_wait", "dead_letter"}
        /\ mem.task[TaskOf[g]].st \notin {"completed", "cancelled"}
        /\ Saved(Both(g, t, r)) \/ RolledBack
    BY <1>8 DEF Requeue, Handoff, Task, RequeuedRecord
  <2>2. claims[g] \in {None} \cup Tokens
    BY HandoffAssumption DEF TypeOK, None, Tokens
  <2>3. t \in TaskRecord /\ r \in HandoffRecord /\ r.st = "pending"
    BY <1>0, <2>2, RequeuedTyped DEF TaskRecord, TaskOpen
  <2>4. r.ready
    BY <1>0 DEF RequeuedRecord, Unleased, HandoffRecord
  <2>. HIDE DEF t, r
  <2>5. Seen(g, t.st, r)
    BY <2>1, <2>3, <2>4 DEF Seen
  <2>6. QED BY <1>b, <2>1, <2>3, <2>5
<1>9. QED BY <1>1, <1>2, <1>3, <1>4, <1>5, <1>6, <1>7, <1>8

LEMMA AgedReady ==
  ASSUME NEW m \in Store, NEW g \in Handoffs, NEW leased \in BOOLEAN, NEW due \in BOOLEAN,
         NEW h \in Handoffs
  PROVE  Aged(m, g, leased, due).handoff[h].ready = m.handoff[h].ready
<1>. DEFINE l == m.handoff[g].leased /\ leased
            d == m.handoff[g].due \/ due
            r == [m.handoff[g] EXCEPT !.leased = l, !.due = d]
            H == [m.handoff EXCEPT ![g] = r]
<1>1. m.handoff \in [Handoffs -> HandoffRecord] /\ m.handoff[g] \in HandoffRecord
  BY DEF Store
<1>2. Aged(m, g, leased, due) = [m EXCEPT !.handoff = H]
  BY DEF Aged
<1>. HIDE DEF l, d
<1>3. r.ready = m.handoff[g].ready
  BY <1>1 DEF HandoffRecord
<1>. HIDE DEF r
<1>4. H[h].ready = m.handoff[h].ready
  BY <1>1, <1>3
<1>. HIDE DEF H
<1>5. Aged(m, g, leased, due).handoff = H
  BY <1>2 DEF Store
<1>6. QED BY <1>4, <1>5

LEMMA StepSeen ==
  ASSUME TypeOK, [Next]_vars, NEW h \in Handoffs, Sole(h)
  PROVE  Crash \/ SeenIn(mem', h)
<1>a. mem' = mem => SeenIn(mem', h)
  BY StaySeen
<1>1. BeginPass \/ (\E t \in Tasks : Sweep(t)) \/ UNCHANGED vars => mem' = mem
  BY DEF BeginPass, Sweep, Kept, vars
<1>2. ASSUME NEW g \in Handoffs, NEW k \in Tokens, ChildMoves(g, k) PROVE mem' = mem
  BY <1>2, ChildMovesFacts DEF Kept
<1>3. ASSUME NEW t \in Tasks, Cancel(t) PROVE SeenIn(mem', h)
  <2>1. CASE mem' = mem
    BY <1>a, <2>1
  <2>2. CASE mem' # mem
    <3>1. mem' = CancelledWith(t) /\ mem.task[t].st \in TaskOpen
      BY <1>3, <2>2 DEF Cancel, Kept, RolledBack, Saved
    <3>2. SeenIn(CancelledWith(t), h)
      BY <3>1, CancelledSeen DEF TypeOK, TaskOpen, TaskDecided
    <3>3. QED BY <3>1, <3>2
  <2>3. QED BY <2>1, <2>2
<1>4. ASSUME Aging PROVE SeenIn(mem', h)
  <2>1. AgesTo(mem, mem')
    BY <1>4, AgingFacts
  <2>2. PICK g \in Handoffs : LeaseExpires(g) \/ BackoffEnds(g)
    BY <1>4 DEF Aging
  <2>4. mem' = Aged(mem, g, FALSE, FALSE) \/ mem' = Aged(mem, g, TRUE, TRUE)
    BY <2>2 DEF LeaseExpires, BackoffEnds
  <2>5. mem \in Store /\ TRUE \in BOOLEAN /\ FALSE \in BOOLEAN
    BY DEF TypeOK
  <2>6. /\ Aged(mem, g, FALSE, FALSE).handoff[h].ready = mem.handoff[h].ready
        /\ Aged(mem, g, TRUE, TRUE).handoff[h].ready = mem.handoff[h].ready
    BY <2>5, AgedReady
  <2>7. QED BY <2>1, <2>4, <2>6, StaySeen DEF AgesTo
<1>5. QED
  BY <1>a, <1>1, <1>2, <1>3, <1>4, ProcessSeen, RequestSeen DEF Next, ChildMoves, Aging

LEMMA SeenTied ==
  ASSUME NEW h \in Handoffs, SeenIn(mem', h),
         mem.handoff[h].st = "dead_letter" =>
           mem.task[TaskOf[h]].st \in {"failed", "cancelled"}
  PROVE  mem'.handoff[h].st = "dead_letter" =>
           mem'.task[TaskOf[h]].st \in {"failed", "cancelled"}
BY DEF SeenIn, Seen, TaskDecided

LEMMA TiedKept ==
  ASSUME Inv, Tied(mem), Tied(disk), [Next]_vars
  PROVE  Tied(mem)' /\ Tied(disk)'
<1>0. TypeOK /\ Requests
  BY DEF Inv
<1>1. Tied(mem')
  <2>1. CASE Crash
    BY <2>1 DEF Crash
  <2>2. CASE ~Crash
    BY <1>0, <2>2, StepSeen, SeenTied DEF Tied
  <2>3. QED BY <2>1, <2>2
<1>2. CASE Aging
  BY <1>0, <1>1, <1>2, AgingFacts DEF AgesTo, Tied, Sole
<1>3. CASE ~Aging
  <2>1. disk' = disk \/ disk' = mem'
    BY <1>0, <1>3, StepWrites DEF Writes, Quiet, Saves, Keeps, Crash
  <2>2. QED BY <1>1, <2>1 DEF Tied, Sole
<1>4. QED BY <1>2, <1>3

\* Steps of children leave the store alone, and only Call begins one.
LEMMA ChildSteps ==
  ASSUME TypeOK, [Next]_vars, NEW h \in Handoffs
  PROVE  \/ UNCHANGED child
         \/ Crash
         \/ /\ mem' = mem
            /\ ChildOn(h)' => ChildOn(h) \/ Task(h).st # "cancelled"
<1>0. child \in [Handoffs -> [Tokens -> ChildStatus]]
  BY DEF TypeOK
<1>1. ASSUME NEW g \in Handoffs, Call(g)
      PROVE  \/ UNCHANGED child
             \/ mem' = mem /\ (ChildOn(h)' => ChildOn(h) \/ Task(h).st # "cancelled")
  <2>1. CASE UNCHANGED child
    BY <2>1
  <2>2. CASE ~UNCHANGED child
    <3>1. /\ Task(g).st # "cancelled" /\ mem' = mem
          /\ child' = [child EXCEPT ![g][proc[g].tok] = "running"]
      BY <1>1, <2>2 DEF Call, Saved
    <3>2. h # g => child'[h] = child[h]
      BY <1>0, <3>1
    <3>3. QED BY <3>1, <3>2 DEF ChildOn
  <2>3. QED BY <2>1, <2>2
<1>2. ASSUME NEW g \in Handoffs, NEW o \in Outcome, Return(g, o)
      PROVE  mem' = mem /\ (ChildOn(h)' => ChildOn(h))
  <2>1. mem' = mem
    BY <1>2 DEF Return, Kept
  <2>2. \/ UNCHANGED child
        \/ \E c : /\ child[g][proc[g].tok] = "running"
                  /\ child' = [child EXCEPT ![g][proc[g].tok] = c]
    BY <1>2 DEF Return
  <2>3. ASSUME NEW k \in Tokens, child'[h][k] \notin ChildEnded
        PROVE  ChildOn(h)
    <3>1. child[h][k] \notin ChildEnded \/ child[h][k] = "running"
      BY <1>0, <2>2, <2>3
    <3>2. QED BY <3>1 DEF ChildOn, ChildEnded
  <2>4. QED BY <2>1, <2>3 DEF ChildOn
<1>3. ASSUME NEW g \in Handoffs, NEW k \in Tokens, ChildMoves(g, k)
      PROVE  mem' = mem /\ (ChildOn(h)' => ChildOn(h))
  <2>1. mem' = mem /\ child[g][k] \notin ChildEnded /\ \E c : child' = [child EXCEPT ![g][k] = c]
    BY <1>3, ChildMovesFacts DEF Kept
  <2>2. ASSUME NEW j \in Tokens, child'[h][j] \notin ChildEnded
        PROVE  child[h][j] \notin ChildEnded
    BY <1>0, <2>1, <2>2
  <2>3. QED BY <2>1, <2>2 DEF ChildOn
<1>4. ASSUME NEW t \in Tasks, Sweep(t) PROVE mem' = mem /\ (ChildOn(h)' => ChildOn(h))
  <2>1. mem' = mem /\ \A k \in Tokens : child'[h][k] \in {child[h][k], "ended"}
    BY <1>4 DEF Sweep, Kept
  <2>2. QED BY <2>1 DEF ChildOn, ChildEnded
<1>5. ASSUME NEW g \in Handoffs,
             \/ Create(g) \/ Publish(g) \/ ExecuteNow(g) \/ FollowUp(g) \/ Expire(g)
             \/ Claim(g) \/ Accept(g) \/ Recheck(g) \/ Settle(g)
             \/ \E s \in {"accepted", "rejected", "completed"} : Manual(g, s)
             \/ \E reset, repin \in BOOLEAN : Requeue(g, reset, repin)
             \/ LeaseExpires(g) \/ BackoffEnds(g)
             \/ \E k \in Tokens : Project(g, k) \/ ApprovalExpires(g, k)
      PROVE  UNCHANGED child
  BY <1>5 DEF Create, Publish, ExecuteNow, FollowUp, Expire, Claim, TryClaim, Accept, Recheck, Settle,
              Manual, Requeue, LeaseExpires, BackoffEnds, Project, ApprovalExpires, children
<1>6. BeginPass \/ (\E t \in Tasks : Cancel(t)) \/ UNCHANGED vars => UNCHANGED child
  BY DEF BeginPass, Cancel, vars, children
<1>7. QED
  BY <1>1, <1>2, <1>3, <1>4, <1>5, <1>6 DEF Next, ChildMoves, Process

LEMMA CrashedChildren ==
  ASSUME TypeOK, Crash, NEW h \in Handoffs
  PROVE  ChildOn(h)' <=> ChildOn(h)
<1>1. \A k \in Tokens :
        child'[h][k] = CASE child[h][k] = "running" -> "interrupted"
                         [] child[h][k] = "resumed" -> "waiting"
                         [] OTHER -> child[h][k]
  BY DEF Crash
<1>2. \A k \in Tokens : child'[h][k] \in ChildEnded <=> child[h][k] \in ChildEnded
  BY <1>1 DEF ChildEnded
<1>3. QED BY <1>2 DEF ChildOn

LEMMA GoalsShown ==
  ASSUME Inv, Tied(mem), [Next]_vars, NEW h \in Handoffs, Sole(h)
  PROVE  GoalStep(h)
<1>0. /\ TypeOK /\ mem.handoff[h].st \in HandoffStatus /\ mem.handoff[h].ready \in BOOLEAN
      /\ mem.handoff[h].st = "dead_letter" =>
           mem.task[TaskOf[h]].st \in {"failed", "cancelled"}
  BY StoreParts, HandoffParts DEF Inv, TypeOK, Tied
<1>1. CASE Crash
  BY <1>1 DEF Crash, GoalStep
<1>2. CASE SeenIn(mem', h)
  <2>. DEFINE a == mem.handoff[h]
              b == mem'.handoff[h]
              t == mem.task[TaskOf[h]].st
              u == mem'.task[TaskOf[h]].st
              view(r, d) ==
                CASE r.st = "rejected" -> "failed"
                  [] r.st = "dead_letter" -> IF d = "cancelled" THEN "cancelled" ELSE "failed"
                  [] r.st \in {"accepted", "retry_wait"} -> "busy"
                  [] r.st = "needs_attention" -> "attention"
                  [] OTHER -> r.st
  <2>1. GoalView(h) = view(a, t) /\ GoalView(h)' = view(b, u)
    BY DEF GoalView, Handoff, Task
  <2>2. /\ Handoff(h).ready = a.ready /\ Handoff(h)'.ready = b.ready
    BY DEF Handoff
  <2>. SUFFICES \/ view(b, u) = view(a, t)
                   /\ (b.ready = a.ready \/ (b.ready /\ view(a, t) # "cancelled"))
                \/ view(a, t) = "absent" /\ view(b, u) = "pending" /\ ~b.ready
                \/ /\ view(b, u) \in WorkMoves(view(a, t))
                   /\ b.ready = (a.ready /\ view(b, u) # "cancelled")
                \/ view(a, t) \in Requeueable /\ view(b, u) = "pending" /\ b.ready
    BY <2>1, <2>2 DEF GoalStep
  <2>. HIDE DEF a, b, t, u
  <2>3. /\ a.st \in HandoffStatus /\ a.ready \in BOOLEAN
        /\ a.st = "dead_letter" => t \in {"failed", "cancelled"}
    BY <1>0 DEF a, t
  <2>b. b.ready \in BOOLEAN
    BY <1>0, StepWrites, StoreTyped, StoreParts, HandoffParts DEF Inv, b
  <2>4. \/ /\ b.st = a.st /\ (t \in TaskDecided => u = t)
           /\ b.ready = a.ready \/ (b.ready /\ t # "cancelled")
        \/ a.st = "absent" /\ b.st = "pending" /\ ~b.ready
        \/ a.st \notin Ended \cup {"absent"} /\ b.st = "dead_letter" /\ ~b.ready /\ u = "cancelled"
        \/ b.st \in Onward(a.st) /\ b.ready = a.ready /\ (b.st = "dead_letter" => u = "failed")
        \/ a.st \in {"retry_wait", "dead_letter"} /\ t # "cancelled" /\ b.st = "pending" /\ b.ready
    BY <1>2 DEF SeenIn, Seen, a, b, t, u
  <2>5. CASE /\ b.st = a.st /\ (t \in TaskDecided => u = t)
             /\ b.ready = a.ready \/ (b.ready /\ t # "cancelled")
    BY <2>3, <2>5 DEF HandoffStatus, Ended, TaskDecided
  <2>6. CASE a.st = "absent" /\ b.st = "pending" /\ ~b.ready
    BY <2>6
  <2>7. CASE a.st \notin Ended \cup {"absent"} /\ b.st = "dead_letter" /\ ~b.ready /\ u = "cancelled"
    <3>1. view(b, u) = "cancelled" /\ view(a, t) \in {"pending", "busy", "waiting", "attention"}
      BY <2>3, <2>7 DEF HandoffStatus, Ended
    <3>2. QED BY <2>b, <2>7, <3>1 DEF WorkMoves
  <2>8. CASE b.st \in Onward(a.st) /\ b.ready = a.ready /\ (b.st = "dead_letter" => u = "failed")
    <3>1. \/ view(b, u) = view(a, t)
          \/ view(b, u) \in WorkMoves(view(a, t)) /\ view(b, u) # "cancelled"
      BY <2>3, <2>8 DEF HandoffStatus, Ended, Onward, WorkMoves
    <3>2. QED BY <2>3, <2>8, <3>1
  <2>9. CASE a.st \in {"retry_wait", "dead_letter"} /\ t # "cancelled" /\ b.st = "pending"
             /\ b.ready
    BY <2>9 DEF Requeueable
  <2>10. QED BY <2>4, <2>5, <2>6, <2>7, <2>8, <2>9
<1>3. QED BY <1>0, <1>1, <1>2, StepSeen

LEMMA WaitsShown ==
  ASSUME Inv, Tied(mem), [Next]_vars, NEW h \in Handoffs, Sole(h)
  PROVE  WaitStep(h)
<1>0. /\ TypeOK /\ Sound /\ Requests /\ Writes /\ TaskOf[h] \in Tasks
      /\ mem.task[TaskOf[h]].st \in TaskStatus
      /\ mem'.task[TaskOf[h]].st \in TaskStatus
  BY StepWrites, StoreTyped, StoreParts, HandoffAssumption DEF Inv, TypeOK
<1>. SUFFICES ASSUME disk.handoff[h].st # "absent" PROVE WaitStep(h)
  BY DEF WaitStep, WaitView
<1>. DEFINE s == mem.handoff[h].st
            r == mem'.handoff[h].st
            t == mem.task[TaskOf[h]].st
            u == mem'.task[TaskOf[h]].st
            view(st, d) ==
              IF d = "cancelled" THEN "cancelled"
              ELSE IF st \notin Ended THEN "open"
              ELSE IF d \notin TaskDecided THEN "closed"
              ELSE d
<1>1. /\ s # "absent" /\ t # "absent"
      /\ s = "dead_letter" => t \in {"failed", "cancelled"}
  BY <1>0 DEF Sound, Behind, Tasked, Tied
<1>2. disk'.handoff[h].st # "absent"
  <2>1. CASE Aging
    BY <1>0, <2>1, AgingFacts DEF AgesTo
  <2>2. QED BY <1>0, <1>1, <2>1 DEF Writes, Quiet, Saves, Keeps, Move, MovesHandoff, Crash
<1>3. WaitView(h) = view(s, t) /\ WaitView(h)' = view(r, u)
  BY <1>2 DEF WaitView, Handoff, Task, Decided
<1>4. CASE Crash
  <2>1. /\ mem' = disk /\ ChildOn(h)' = ChildOn(h)
        /\ t \in TaskDecided => u = t
        /\ \A g \in Handoffs : TaskOf[g] = TaskOf[h] => g = h
    BY <1>0, <1>4, CrashedChildren DEF Crash, Sound, DecisionsDurable, Sole, ChildOn
  <2>2. u = "completed" => r = "completed"
    BY <1>0, <2>1 DEF Sound, Because
  <2>3. u = "failed" => r \in {"rejected", "dead_letter"}
    BY <1>0, <2>1 DEF Sound, Because
  <2>4. s \in Ended \/ s \notin Ended
    OBVIOUS
  <2>5. \/ view(r, u) = view(s, t)
        \/ view(r, u) \in WaitMoves(view(s, t))
        \/ view(s, t) \in WaitUndone /\ view(r, u) = "open"
    BY <1>0, <2>1, <2>2, <2>3
    DEF WaitMoves, WaitUndone, TaskStatus, TaskDecided, TaskOpen, Ended
  <2>6. QED BY <1>3, <2>1, <2>5 DEF WaitStep
<1>5. CASE ~Crash
  <2>1. /\ t \in {"completed", "cancelled"} => u = t
        /\ t = "failed" => u = "failed" \/ (u = "pending" /\ r = "pending")
        /\ s \in Ended => \/ r = s
                          \/ /\ s = "dead_letter" /\ r = "pending" /\ u = "pending"
                             /\ t \notin {"completed", "cancelled"}
    <3>1. CASE Move(mem')
      <4>1. MovesTask(mem', TaskOf[h]) /\ MovesHandoff(mem', h)
        BY <1>0, <3>1 DEF Move
      <4>2. \A g \in Handoffs : TaskOf[g] = TaskOf[h] => g = h
        BY DEF Sole
      <4>3. QED BY <4>1, <4>2 DEF MovesTask, MovesHandoff, Reopened, Ended
    <3>2. CASE Aging
      BY <1>0, <3>2, AgingFacts DEF AgesTo
    <3>3. CASE Quiet
      BY <3>3 DEF Quiet
    <3>4. QED BY <1>0, <1>5, <3>1, <3>2, <3>3 DEF Writes, Saves, Keeps, Light
  <2>2. t \in {"completed", "failed"} => s \in Ended
    <3>1. \A g \in Handoffs : TaskOf[g] = TaskOf[h] => g = h
      BY DEF Sole
    <3>2. QED BY <1>0, <3>1 DEF Sound, Because, Ended
  <2>3. \/ view(r, u) = view(s, t)
        \/ view(r, u) \in WaitMoves(view(s, t))
        \/ view(s, t) \in WaitRequeueable /\ view(r, u) = "open"
    <3>1. CASE t \in TaskDecided
      BY <1>1, <2>1, <2>2, <3>1 DEF WaitRequeueable, TaskDecided, Ended
    <3>2. CASE t \notin TaskDecided /\ s \notin Ended
      BY <1>0, <3>2 DEF WaitMoves, TaskDecided
    <3>3. CASE t \notin TaskDecided /\ s \in Ended
      BY <1>0, <1>1, <2>1, <3>3 DEF WaitMoves, TaskDecided
    <3>4. QED BY <3>1, <3>2, <3>3
  <2>4. CASE UNCHANGED child
    <3>1. ChildOn(h)' = ChildOn(h)
      BY <2>4 DEF ChildOn
    <3>2. QED BY <1>3, <2>3, <3>1 DEF WaitStep
  <2>5. CASE mem' = mem /\ (ChildOn(h)' => ChildOn(h) \/ Task(h).st # "cancelled")
    <3>1. r = s /\ u = t
      BY <2>5
    <3>2. t # "cancelled" => view(s, t) \in ChildMayStart
      BY <1>0, <1>1 DEF ChildMayStart, TaskStatus, TaskDecided
    <3>3. QED BY <1>3, <2>5, <3>1, <3>2 DEF WaitStep, Task
  <2>6. QED BY <1>0, <1>5, <2>4, <2>5, ChildSteps
<1>6. QED BY <1>4, <1>5

\* AgentTaskStore, HandoffExecutor and the requests of main.py together: goals and
\* workflows that depend on the only handoff of a task see it make the moves of
\* HandoffView and no other, over failed writes, crashes, requeues and late children.
THEOREM HandoffMovesAsShown == Spec => MovesAsShown
<1>1. Init => Inv /\ Tied(mem) /\ Tied(disk)
  BY InitInv, NoHandoffTyped DEF Init, Empty, Tied
<1>2. Inv /\ Tied(mem) /\ Tied(disk) /\ [Next]_vars => Tied(mem)' /\ Tied(disk)'
  BY TiedKept
<1>3. Inv /\ Tied(mem) /\ [Next]_vars => [\A h \in Handoffs : Sole(h) => GoalStep(h) /\ WaitStep(h)]_vars
  BY GoalsShown, WaitsShown
<1>4. Spec => [](Tied(mem) /\ Tied(disk))
  BY <1>1, <1>2, HandoffInductive, PTL DEF Spec
<1>5. QED BY <1>3, <1>4, HandoffInductive, PTL DEF Spec, MovesAsShown
=============================================================================
