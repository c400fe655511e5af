--------------------------- MODULE AutomationProofs ---------------------------
(***************************************************************************)
(* Proofs about AutomationExecution, for every set of executions and every *)
(* value of its constants: the types, the inductive invariant behind       *)
(* "no call while a call is in doubt", and the promise of                  *)
(* AutomationPromise.                                                      *)
(***************************************************************************)
EXTENDS AutomationExecution, TLAPS

-----------------------------------------------------------------------------
(* The transitions of one record keep its type.                             *)

LEMMA TimerFacts ==
  /\ 0 \in 0..Lease /\ Lease \in 0..Lease
  /\ 0 \in 0..Backoff /\ Backoff \in 0..Backoff
  /\ MaxRuntime \in {Unset} \cup 0..MaxRuntime
  /\ Unset \in {Unset} \cup 0..MaxRuntime
BY BoundsAssumption DEF BoundsAssumption

LEMMA ValueFacts ==
  /\ NoToken \in {NoToken} \cup Tokens
  /\ \A k \in Tokens : k \in {NoToken} \cup Tokens
  /\ {"absent", "pending", "running", "waiting", "completed", "dead_letter",
      "skipped", "budget_limited", "cancelled"} \subseteq Status
  /\ {"none", "prepared", "started", "settled", "uncertain"} \subseteq Phase
  /\ {"none", "uncertain", "other"} \subseteq Error
BY DEF Status, Active, Terminal, Phase, Error

LEMMA ClearLeaseType ==
  ASSUME NEW r \in Record PROVE ClearLease(r) \in Record
BY TimerFacts, ValueFacts DEF Record, ClearLease

LEMMA ClaimedType ==
  ASSUME NEW r \in Record, NEW k \in Tokens PROVE Claimed(r, k) \in Record
<1>1. r.att + 1 \in Nat
  BY DEF Record
<1> QED
  BY <1>1, TimerFacts, ValueFacts DEF Record, Claimed

LEMMA DispatchedType ==
  ASSUME NEW r \in Record PROVE Dispatched(r) \in Record
BY ValueFacts DEF Record, Dispatched

LEMMA UncertainType ==
  ASSUME NEW r \in Record PROVE Uncertain(r) \in Record
BY ValueFacts DEF Record, Uncertain

LEMMA ExpireType ==
  ASSUME NEW r \in Record PROVE Expire(r) \in Record
<1> DEFINE err == [r EXCEPT !.err = "other"]
           dead(m) == [m EXCEPT !.st = "dead_letter", !.expd = TRUE]
<1>1. err \in Record
  BY ValueFacts DEF Record
<1>2. \A m \in Record : dead(m) \in Record
  BY ValueFacts DEF Record
<1> HIDE DEF err, dead
<1>3. Expire(r) = r \/ Expire(r) = ClearLease(dead(Uncertain(r))) \/ Expire(r) = ClearLease(dead(err))
  BY DEF Expire, err, dead
<1> QED
  BY <1>1, <1>2, <1>3, UncertainType, ClearLeaseType

LEMMA MarkUncertainType ==
  ASSUME NEW r \in Record PROVE MarkUncertain(r) \in Record
<1> DEFINE dead == [Uncertain(r) EXCEPT !.st = "dead_letter"]
<1>1. dead \in Record
  BY UncertainType, ValueFacts DEF Record
<1> QED
  BY <1>1, ClearLeaseType DEF MarkUncertain

LEMMA ProjectedType ==
  ASSUME NEW r \in Record, NEW k \in Tokens, NEW o \in Outcome
  PROVE  Projected(r, k, o) \in Record
<1> DEFINE settled == IF o = "cancelled" THEN r ELSE Settle(r)
           st == IF o = "timer" THEN "dead_letter" ELSE o
           err == IF o \in {"timer", "cancelled"} THEN "other" ELSE "none"
           final == [settled EXCEPT !.st = st, !.err = err, !.child = k]
<1>1. settled \in Record
  BY ValueFacts DEF Settle, Record
<1>2. st \in Status /\ err \in Error
  BY DEF Outcome, Status, Active, Terminal, Error
<1>3. Projected(r, k, o) = ClearLease(final)
  BY DEF Projected
<1> HIDE DEF settled, st, err
<1>4. final \in Record
  BY <1>1, <1>2, ValueFacts DEF Record
<1> QED
  BY <1>3, <1>4, ClearLeaseType

LEMMA WaitExpiredType ==
  ASSUME NEW r \in Record PROVE WaitExpired(r) \in Record
<1>1. [r EXCEPT !.st = "dead_letter", !.err = "other"] \in Record
  BY ValueFacts DEF Record
<1> QED
  BY <1>1, ClearLeaseType DEF WaitExpired

LEMMA FailedType ==
  ASSUME NEW r \in Record PROVE Failed(r) \in Record
<1> DEFINE marked == IF MaybeStarted(r) THEN Uncertain(r) ELSE [r EXCEPT !.err = "other"]
<1>1. marked \in Record
  BY UncertainType, ValueFacts DEF Record
<1> HIDE DEF marked
<1>2. [marked EXCEPT !.st = "pending", !.due = Backoff] \in Record
  BY <1>1, TimerFacts, ValueFacts DEF Record
<1>3. [marked EXCEPT !.st = "dead_letter"] \in Record
  BY <1>1, ValueFacts DEF Record
<1> QED
  BY <1>2, <1>3, ClearLeaseType DEF Failed, marked

LEMMA CancelledType ==
  ASSUME NEW r \in Record PROVE Cancelled(r) \in Record
<1>1. [r EXCEPT !.st = "cancelled", !.err = "other"] \in Record
  BY ValueFacts DEF Record
<1> QED
  BY <1>1, ClearLeaseType DEF Cancelled

LEMMA RetriedType ==
  ASSUME NEW r \in Record, NEW reset \in BOOLEAN PROVE Retried(r, reset) \in Record
<1> DEFINE attempt == IF reset THEN 0 ELSE r.att
           queued == [r EXCEPT !.st = "pending", !.att = attempt, !.due = 0,
                               !.err = "none", !.rcpt = "prepared", !.ratt = attempt]
<1>1. attempt \in Nat
  BY DEF Record
<1>2. Retried(r, reset) = ClearLease(queued)
  BY DEF Retried
<1> HIDE DEF attempt
<1>3. queued \in Record
  BY <1>1, TimerFacts, ValueFacts DEF Record
<1> QED
  BY <1>2, <1>3, ClearLeaseType

LEMMA AgedType ==
  ASSUME NEW r \in Record PROVE Aged(r) \in Record
<1>1. /\ Dec(r.lease) \in 0..Lease
      /\ Dec(r.due) \in 0..Backoff
      /\ Dec(r.left) \in {Unset} \cup 0..MaxRuntime
  BY BoundsAssumption DEF BoundsAssumption, Dec, Record, Unset
<1> QED
  BY <1>1 DEF Aged, Record

LEMMA AbsentType == Absent \in Record
BY TimerFacts, ValueFacts DEF Absent, Record

-----------------------------------------------------------------------------
(* What one step may do to the record of e, in memory and on disk, and to   *)
(* its calls in doubt.                                                      *)

\* What the store may write in place of mem[e] while the doubt stays.
Writable(e, r) ==
  \/ r = mem[e]
  \/ r = Expire(mem[e])
  \/ r = MarkUncertain(mem[e])
  \/ mem[e].st \in Active /\ r = Cancelled(mem[e])
  \/ mem[e].st = "waiting" /\ r = WaitExpired(mem[e])
  \/ mem[e].st = "running" /\ r = Failed(mem[e])
  \/ mem[e].st = "running" /\ RuntimeRemains(mem[e]) /\ r = Renewed(mem[e])
  \/ mem[e].st = "absent" /\ r \in Created
  \/ ClaimAllowed(mem[e]) /\ \E k \in Tokens : r = Claimed(mem[e], k)
  \/ RetryAllowed(mem[e]) /\ \E reset \in BOOLEAN : r = Retried(mem[e], reset)
  \/ /\ mem[e].st = "running" /\ RuntimeRemains(mem[e])
     /\ \E k \in Tokens : r = Projected(mem[e], k, "cancelled")
  \/ /\ mem[e].st = "waiting" /\ RuntimeRemains(mem[e])
     /\ \E k \in Tokens, o \in Outcome : child[e][k] = o /\ r = Projected(mem[e], k, o)

\* Memory alone: nothing, a restart, a renewal or a creation that failed.
MemoryMove(e) ==
  /\ disk'[e] = disk[e]
  /\ open'[e] = open[e]
  /\ \/ mem'[e] = mem[e]
     \/ mem' = disk
     \/ mem[e].st = "running" /\ mem'[e] = Renewed(mem[e])
     \/ mem[e].st = "absent" /\ mem'[e] \in Created

AgeMove(e) ==
  mem'[e] = Aged(mem[e]) /\ disk'[e] = Aged(disk[e]) /\ open'[e] = open[e]

WriteMove(e) ==
  disk'[e] = mem'[e] /\ open'[e] = open[e] /\ Writable(e, mem'[e])

CallMove(e) ==
  \E k \in Tokens :
    /\ DispatchAllowed(mem[e], k)
    /\ mem'[e] = Dispatched(mem[e]) /\ disk'[e] = mem'[e]
    /\ open'[e] = open[e] \cup {k}

SettleMove(e) ==
  \E k \in Tokens, o \in Outcome \ {"cancelled"} :
    /\ Owns(mem[e], k) /\ RuntimeRemains(mem[e])
    /\ child[e][k] = o
    /\ proc[e].pc = "returned" /\ proc[e].tok = k
    /\ mem'[e] = Projected(mem[e], k, o) /\ disk'[e] = mem'[e]
    /\ open'[e] = open[e] \ {k}

Move(e) == MemoryMove(e) \/ AgeMove(e) \/ WriteMove(e) \/ CallMove(e) \/ SettleMove(e)

StoreOK == mem \in [Execs -> Record] /\ disk \in [Execs -> Record]

StoreMoves == StoreOK' /\ \A e \in Execs : Move(e)

\* A record the store creates is a record.
LEMMA CreatedType == Created \subseteq Record
<1>1. \A s \in Status : [Absent EXCEPT !.st = s] \in Record
  BY AbsentType DEF Record
<1> QED
  BY <1>1, ValueFacts DEF Created

\* Whatever the store may write is a record.
LEMMA WritableType ==
  ASSUME StoreOK, NEW e \in Execs, NEW r, Writable(e, r)
  PROVE  r \in Record
<1>1. mem[e] \in Record
  BY DEF StoreOK
<1>2. Renewed(mem[e]) \in Record
  BY <1>1, TimerFacts DEF Record, Renewed
<1>3. "cancelled" \in Outcome
  BY DEF Outcome
<1> QED
  BY <1>1, <1>2, <1>3, CreatedType, ExpireType, MarkUncertainType, CancelledType,
     WaitExpiredType, FailedType, ClaimedType, RetriedType, ProjectedType
  DEF Writable

\* The three ways an operation leaves the store: untouched, saved, or changed
\* in memory only.
LEMMA KeepMoves == ASSUME StoreOK, Keep, UNCHANGED open PROVE StoreMoves
BY DEF StoreOK, Keep, store, StoreMoves, Move, MemoryMove

LEMMA SaveMoves ==
  ASSUME StoreOK, NEW e \in Execs, NEW r, Writable(e, r), Save(Set(e, r)), UNCHANGED open
  PROVE  StoreMoves
<1>1. r \in Record
  BY WritableType
<1>2. StoreOK'
  BY <1>1 DEF StoreOK, Save, Set
<1>3. ASSUME NEW x \in Execs PROVE WriteMove(x)
  <2>1. disk'[x] = mem'[x] /\ open'[x] = open[x]
    BY DEF Save
  <2>2. mem'[x] = IF x = e THEN r ELSE mem[x]
    BY DEF Save, Set, StoreOK
  <2>3. Writable(x, mem[x])
    BY DEF Writable
  <2> QED
    BY <2>1, <2>2, <2>3 DEF WriteMove
<1> QED
  BY <1>2, <1>3 DEF StoreMoves, Move

LEMMA SaveIfChangedMoves ==
  ASSUME StoreOK, NEW e \in Execs, NEW r, Writable(e, r), SaveIfChanged(Set(e, r)),
         UNCHANGED open
  PROVE  StoreMoves
BY KeepMoves, SaveMoves DEF SaveIfChanged

LEMMA MemoryMoves ==
  ASSUME StoreOK, NEW e \in Execs, NEW r \in Record, KeepInMemory(Set(e, r)), UNCHANGED open,
         \/ mem[e].st = "running" /\ r = Renewed(mem[e])
         \/ mem[e].st = "absent" /\ r \in Created
  PROVE  StoreMoves
<1>1. StoreOK'
  BY DEF StoreOK, KeepInMemory, Set
<1>2. \A x \in Execs : mem'[x] = (IF x = e THEN r ELSE mem[x])
  BY DEF StoreOK, KeepInMemory, Set
<1>3. \A x \in Execs : disk'[x] = disk[x] /\ open'[x] = open[x]
  BY DEF KeepInMemory
<1> QED
  BY <1>1, <1>2, <1>3 DEF StoreMoves, Move, MemoryMove

-----------------------------------------------------------------------------
(* Each action, as a move of every record and a type-correct step of the    *)
(* rest.                                                                    *)

RestOK ==
  /\ proc \in [Execs -> ProcessState]
  /\ ending \in [Execs -> Ending]
  /\ claims \in [Execs -> 0..MaxClaims]
  /\ child \in [Execs -> [Tokens -> ChildStatus]]
  /\ owed \in [Execs -> [Tokens -> {"none"} \cup Outcome]]
  /\ phase \in Phases
  /\ todo \in SUBSET Execs
  /\ batch \in SUBSET Execs
  /\ faults \in 0..MaxFaults
  /\ open \in [Execs -> SUBSET Tokens]

\* A process at work may take any step and keep its type.
LEMMA GoType ==
  ASSUME RestOK, NEW e \in Execs, NEW pc \in Working, proc[e].pc \in Working, Go(e, pc)
  PROVE  proc' \in [Execs -> ProcessState]
<1>1. proc[e] \in [pc : Working, tok : Tokens, ev : {"none", "stale"} \cup Outcome]
  BY DEF RestOK, ProcessState, Working
<1> DEFINE moved == [proc[e] EXCEPT !.pc = pc]
<1>2. moved \in ProcessState
  BY <1>1 DEF ProcessState
<1>3. proc' = [proc EXCEPT ![e] = moved]
  BY <1>1 DEF Go, RestOK
<1> HIDE DEF moved
<1> QED
  BY <1>2, <1>3 DEF RestOK

\* A process that ends is idle.
LEMMA IdleType == Idle \in ProcessState
BY DEF Idle, ProcessState, NoToken

LEMMA FinishType ==
  ASSUME RestOK, NEW e \in Execs, NEW how \in Ending, Finish(e, how)
  PROVE  proc' \in [Execs -> ProcessState] /\ ending' \in [Execs -> Ending]
BY IdleType DEF RestOK, Finish

\* The cancellation of a task leaves a process at work.
LEMMA SignalType ==
  ASSUME RestOK, NEW e \in Execs, Signal(e)
  PROVE  proc' \in [Execs -> ProcessState]
<1>1. CASE proc[e].pc = "called"
  <2>1. Go(e, "lost")
    BY <1>1 DEF RestOK, Signal, Go
  <2> QED
    BY <1>1, <2>1, GoType DEF Working
<1>2. CASE proc[e].pc # "called"
  <2>1. proc' = [proc EXCEPT ![e].pc = proc[e].pc]
    BY <1>2 DEF Signal
  <2>2. proc[e] \in ProcessState
    BY DEF RestOK
  <2>3. [proc[e] EXCEPT !.pc = proc[e].pc] = proc[e]
    BY <2>2 DEF ProcessState
  <2> QED
    BY <2>1, <2>3 DEF RestOK
<1> QED
  BY <1>1, <1>2

\* A step counts at most one fault, up to the bound.
LEMMA FaultType ==
  ASSUME RestOK, Fault \/ NoFault PROVE faults' \in 0..MaxFaults
BY BoundsAssumption DEF BoundsAssumption, RestOK, Fault, NoFault

\* The cancellation of an execution's children keeps their type.
LEMMA CancelAllType ==
  ASSUME NEW c \in [Tokens -> ChildStatus] PROVE CancelAll(c) \in [Tokens -> ChildStatus]
BY DEF CancelAll, ChildStatus, Outcome

\* A visit of the loop keeps the type of its bookkeeping.
LEMMA VisitType ==
  ASSUME RestOK, NEW e \in Execs, NEW next \in Phases, Visit(e, next)
  PROVE  phase' \in Phases /\ todo' \in SUBSET Execs /\ batch' \in SUBSET Execs
BY DEF RestOK, Visit

LEMMA TickStep == ASSUME TypeOK, Tick PROVE StoreMoves /\ RestOK'
<1>1. StoreOK'
  BY AgedType DEF TypeOK, Tick, StoreOK
<1>2. \A e \in Execs : AgeMove(e)
  BY DEF Tick, AgeMove
<1>3. RestOK'
  BY DEF TypeOK, RestOK, Tick, loop
<1> QED
  BY <1>1, <1>2, <1>3 DEF StoreMoves, Move

LEMMA CrashStep == ASSUME TypeOK, Crash PROVE StoreMoves /\ RestOK'
<1>1. StoreOK'
  BY DEF TypeOK, Crash, StoreOK
<1>2. \A e \in Execs : MemoryMove(e)
  BY DEF TypeOK, Crash, MemoryMove
<1>3. RestOK
  BY DEF TypeOK, RestOK
<1>4. child' \in [Execs -> [Tokens -> ChildStatus]]
  <2>1. \A c \in ChildStatus : Recovered(c) \in ChildStatus
    BY DEF Recovered, ChildStatus, Outcome
  <2> QED
    BY <2>1, <1>3 DEF RestOK, Crash
<1>5. proc' \in [Execs -> ProcessState]
  BY IdleType DEF Crash
<1>6. faults' \in 0..MaxFaults
  BY <1>3, FaultType DEF Crash
<1>7. RestOK'
  BY <1>3, <1>4, <1>5, <1>6 DEF RestOK, Crash, Ending, Phases
<1> QED
  BY <1>1, <1>2, <1>7 DEF StoreMoves, Move

LEMMA CreateStep == ASSUME TypeOK, NEW e \in Execs, Create(e) PROVE StoreMoves /\ RestOK'
<1>1. StoreOK /\ RestOK
  BY DEF TypeOK, StoreOK, RestOK
<1>2. PICK r \in Created : (Save(Set(e, r)) /\ NoFault) \/ (KeepInMemory(Set(e, r)) /\ Fault)
  BY DEF Create
<1>3. Writable(e, r) /\ r \in Record
  BY CreatedType DEF Create, Writable
<1>4. UNCHANGED open
  BY DEF Create
<1>5. StoreMoves
  BY <1>1, <1>2, <1>3, <1>4, SaveMoves, MemoryMoves DEF Create
<1>6. faults' \in 0..MaxFaults
  BY <1>1, <1>2, FaultType
<1> QED
  BY <1>1, <1>5, <1>6 DEF RestOK, Create, loop

\* Reconciling an expired or cancelled execution, whatever of it fails.
LEMMA ReconcileMoves ==
  ASSUME TypeOK, NEW e \in Execs, Reconciled(e) \/ ReconcileFails(e), UNCHANGED open
  PROVE  /\ StoreMoves
         /\ proc' \in [Execs -> ProcessState]
         /\ child' \in [Execs -> [Tokens -> ChildStatus]]
         /\ faults' \in 0..MaxFaults
<1>1. StoreOK /\ RestOK
  BY DEF TypeOK, StoreOK, RestOK
<1>2. Writable(e, Expire(mem[e]))
  BY DEF Writable
<1>3. Keep \/ SaveIfChanged(Set(e, Expire(mem[e])))
  BY DEF Reconciled, ReconcileFails
<1>4. StoreMoves
  BY <1>1, <1>2, <1>3, KeepMoves, SaveIfChangedMoves
<1>5. proc' \in [Execs -> ProcessState]
  BY <1>1, SignalType DEF Reconciled, ReconcileFails, RestOK
<1>6. child' \in [Execs -> [Tokens -> ChildStatus]]
  <2>1. CancelAll(child[e]) \in [Tokens -> ChildStatus]
    BY <1>1, CancelAllType DEF RestOK
  <2> QED
    BY <1>1, <2>1 DEF Reconciled, ReconcileFails, RestOK
<1>7. faults' \in 0..MaxFaults
  BY <1>1, FaultType DEF Reconciled, ReconcileFails
<1> QED
  BY <1>4, <1>5, <1>6, <1>7

LEMMA CancelStep == ASSUME TypeOK, NEW e \in Execs, CancelExecution(e) PROVE StoreMoves /\ RestOK'
<1> DEFINE r == IF mem[e].st = "cancelled" THEN mem[e] ELSE Cancelled(mem[e])
<1>1. StoreOK /\ RestOK
  BY DEF TypeOK, StoreOK, RestOK
<1>2. Writable(e, r)
  BY DEF CancelExecution, Writable
<1>3. SaveIfChanged(Set(e, r)) /\ UNCHANGED open
  BY DEF CancelExecution
<1> HIDE DEF r
<1>4. StoreMoves
  BY <1>1, <1>2, <1>3, SaveIfChangedMoves
<1>5. proc' \in [Execs -> ProcessState]
  BY <1>1, SignalType DEF CancelExecution
<1>6. child' \in [Execs -> [Tokens -> ChildStatus]]
  <2>1. CancelAll(child[e]) \in [Tokens -> ChildStatus]
    BY <1>1, CancelAllType DEF RestOK
  <2> QED
    BY <1>1, <2>1 DEF CancelExecution, RestOK
<1>7. faults' \in 0..MaxFaults
  BY <1>1, FaultType DEF CancelExecution
<1> QED
  BY <1>1, <1>4, <1>5, <1>6, <1>7 DEF CancelExecution, RestOK, loop

LEMMA RetryStep == ASSUME TypeOK, NEW e \in Execs, RetryExecution(e) PROVE StoreMoves /\ RestOK'
<1>1. StoreOK /\ RestOK
  BY DEF TypeOK, StoreOK, RestOK
<1>2. PICK reset \in BOOLEAN : Save(Set(e, Retried(mem[e], reset)))
  BY DEF RetryExecution
<1>3. Writable(e, Retried(mem[e], reset)) /\ UNCHANGED open
  BY DEF RetryExecution, Writable
<1>4. StoreMoves
  BY <1>1, <1>2, <1>3, SaveMoves
<1>5. child' \in [Execs -> [Tokens -> ChildStatus]]
  <2>1. CancelAll(child[e]) \in [Tokens -> ChildStatus]
    BY <1>1, CancelAllType DEF RestOK
  <2> QED
    BY <1>1, <2>1 DEF RetryExecution, RestOK
<1> QED
  BY <1>1, <1>4, <1>5 DEF RetryExecution, RestOK, loop

LEMMA LoopExpireStep == ASSUME TypeOK, NEW e \in Execs, LoopExpire(e) PROVE StoreMoves /\ RestOK'
<1>1. StoreOK /\ RestOK
  BY DEF TypeOK, StoreOK, RestOK
<1>2. phase' \in Phases /\ todo' \in SUBSET Execs /\ batch' \in SUBSET Execs
  BY <1>1, VisitType DEF LoopExpire, Phases
<1>3. CASE Reconciled(e) \/ ReconcileFails(e)
  BY <1>1, <1>2, <1>3, ReconcileMoves DEF LoopExpire, RestOK
<1>4. CASE UNCHANGED <<mem, disk, child, proc, faults>>
  <2>1. Keep /\ UNCHANGED open
    BY <1>4 DEF Keep, store, LoopExpire
  <2> QED
    BY <1>1, <1>2, <1>4, <2>1, KeepMoves DEF LoopExpire, RestOK
<1> QED
  BY <1>3, <1>4 DEF LoopExpire

LEMMA LoopUncertainStep == ASSUME TypeOK, LoopUncertain PROVE StoreMoves /\ RestOK'
<1> DEFINE marked(S) == [e \in Execs |-> IF e \in S THEN MarkUncertain(mem[e]) ELSE mem[e]]
<1>1. StoreOK /\ RestOK
  BY DEF TypeOK, StoreOK, RestOK
<1>2. PICK S \in SUBSET Execs : SaveIfChanged(marked(S))
  BY DEF LoopUncertain
<1>3. ASSUME Save(marked(S)) PROVE StoreMoves
  <2>1. marked(S) \in [Execs -> Record]
    BY <1>1, MarkUncertainType DEF StoreOK
  <2>2. StoreOK'
    BY <1>3, <2>1 DEF StoreOK, Save
  <2>3. \A e \in Execs : mem'[e] = MarkUncertain(mem[e]) \/ mem'[e] = mem[e]
    BY <1>3 DEF Save
  <2>4. \A e \in Execs : WriteMove(e)
    BY <1>3, <2>3 DEF LoopUncertain, Save, WriteMove, Writable
  <2> QED
    BY <2>2, <2>4 DEF StoreMoves, Move
<1>4. ASSUME Keep PROVE StoreMoves
  BY <1>1, <1>4, KeepMoves DEF LoopUncertain
<1>5. StoreMoves
  BY <1>2, <1>3, <1>4 DEF SaveIfChanged
<1>6. faults' \in 0..MaxFaults
  BY <1>1, FaultType DEF LoopUncertain
<1>7. phase' \in Phases
  BY DEF LoopUncertain, Phases
<1> QED
  BY <1>1, <1>5, <1>6, <1>7 DEF LoopUncertain, RestOK

LEMMA LoopCancelledStep == ASSUME TypeOK, NEW e \in Execs, LoopCancelled(e) PROVE StoreMoves /\ RestOK'
<1>1. StoreOK /\ RestOK
  BY DEF TypeOK, StoreOK, RestOK
<1>2. phase' \in Phases /\ todo' \in SUBSET Execs /\ batch' \in SUBSET Execs
  BY <1>1, VisitType DEF LoopCancelled, Phases
<1>3. StoreMoves
  BY <1>1, KeepMoves DEF LoopCancelled, Keep, store
<1>4. proc' \in [Execs -> ProcessState]
  BY <1>1, SignalType DEF LoopCancelled, RestOK
<1>5. child' \in [Execs -> [Tokens -> ChildStatus]]
  <2>1. CancelAll(child[e]) \in [Tokens -> ChildStatus]
    BY <1>1, CancelAllType DEF RestOK
  <2> QED
    BY <1>1, <2>1 DEF LoopCancelled, RestOK
<1>6. faults' \in 0..MaxFaults
  BY <1>1, FaultType DEF LoopCancelled, RestOK
<1> QED
  BY <1>1, <1>2, <1>3, <1>4, <1>5, <1>6 DEF LoopCancelled, RestOK

\* A parent's wait is found to be over.
LEMMA ExpireWaitMoves ==
  ASSUME TypeOK, NEW e \in Execs, WaitOver(e), ExpireWait(e), UNCHANGED open
  PROVE  StoreMoves /\ faults' \in 0..MaxFaults
<1>1. StoreOK /\ RestOK
  BY DEF TypeOK, StoreOK, RestOK
<1>2. Writable(e, WaitExpired(mem[e]))
  BY DEF Writable, WaitOver
<1> QED
  BY <1>1, <1>2, SaveMoves, KeepMoves, FaultType DEF ExpireWait

LEMMA LoopOutcomesStep == ASSUME TypeOK, NEW e \in Execs, LoopOutcomes(e) PROVE StoreMoves /\ RestOK'
<1>1. StoreOK /\ RestOK
  BY DEF TypeOK, StoreOK, RestOK
<1>2. phase' \in Phases /\ todo' \in SUBSET Execs /\ batch' \in SUBSET Execs
  BY <1>1, VisitType DEF LoopOutcomes, Phases
<1>3. StoreMoves /\ faults' \in 0..MaxFaults
  BY <1>1, ExpireWaitMoves, KeepMoves, FaultType DEF LoopOutcomes
<1> QED
  BY <1>1, <1>2, <1>3 DEF LoopOutcomes, RestOK

LEMMA SelectStep == ASSUME TypeOK, NEW S \in SUBSET Execs, Select(S) PROVE StoreMoves /\ RestOK'
<1>1. StoreOK /\ RestOK
  BY DEF TypeOK, StoreOK, RestOK
<1>2. StoreMoves
  BY <1>1, KeepMoves DEF Select, Keep, store
<1>3. [Idle EXCEPT !.pc = "chosen"] \in ProcessState
  BY DEF Idle, ProcessState, NoToken
<1>4. proc' \in [Execs -> ProcessState]
  BY <1>1, <1>3 DEF Select, RestOK
<1>5. phase' \in Phases
  BY DEF Select, Phases
<1> QED
  BY <1>1, <1>2, <1>4, <1>5 DEF Select, RestOK

LEMMA LoopGatherStep == ASSUME TypeOK, LoopGather PROVE StoreMoves /\ RestOK'
<1>1. StoreOK /\ RestOK
  BY DEF TypeOK, StoreOK, RestOK
<1>2. StoreMoves
  BY <1>1, KeepMoves DEF LoopGather, Keep, store
<1>3. phase' \in Phases
  BY DEF LoopGather, Phases
<1> QED
  BY <1>1, <1>2, <1>3 DEF LoopGather, RestOK

LEMMA ClaimStep == ASSUME TypeOK, NEW e \in Execs, Claim(e) PROVE StoreMoves /\ RestOK'
<1> DEFINE k == claims[e] + 1
<1>1. StoreOK /\ RestOK
  BY DEF TypeOK, StoreOK, RestOK
<1>2. CASE /\ ClaimAllowed(mem[e])
           /\ k <= MaxClaims
           /\ Save(Set(e, Claimed(mem[e], k)))
           /\ claims' = [claims EXCEPT ![e] = k]
           /\ proc' = [proc EXCEPT ![e] = [pc |-> "claimed", tok |-> k, ev |-> "none"]]
           /\ UNCHANGED <<ending, faults>>
  <2>1. k \in Tokens
    BY <1>1, <1>2, BoundsAssumption DEF BoundsAssumption, RestOK, Tokens
  <2>2. Writable(e, Claimed(mem[e], k)) /\ UNCHANGED open
    BY <1>2, <2>1 DEF Writable, Claim
  <2>3. StoreMoves
    BY <1>1, <1>2, <2>2, SaveMoves
  <2>4. claims' \in [Execs -> 0..MaxClaims]
    BY <1>1, <1>2, <2>1, BoundsAssumption DEF BoundsAssumption, RestOK, Tokens
  <2>5. [pc |-> "claimed", tok |-> k, ev |-> "none"] \in ProcessState
    BY <2>1 DEF ProcessState, Working
  <2>6. proc' \in [Execs -> ProcessState]
    BY <1>1, <1>2, <2>5 DEF RestOK
  <2> QED
    BY <1>1, <1>2, <2>3, <2>4, <2>6 DEF Claim, RestOK, loop
<1>3. CASE Keep /\ Finish(e, "quiet") /\ UNCHANGED claims /\ (Fault \/ UNCHANGED faults)
  <2>1. proc' \in [Execs -> ProcessState] /\ ending' \in [Execs -> Ending]
    BY <1>1, <1>3, FinishType DEF Ending
  <2>2. faults' \in 0..MaxFaults
    BY <1>1, <1>3, FaultType DEF NoFault
  <2>3. StoreMoves
    BY <1>1, <1>3, KeepMoves DEF Claim
  <2> QED
    BY <1>1, <1>3, <2>1, <2>2, <2>3 DEF Claim, RestOK, loop
<1> QED
  BY <1>2, <1>3 DEF Claim, Keep, store

LEMMA PreDispatchFailsStep ==
  ASSUME TypeOK, NEW e \in Execs, PreDispatchFails(e) PROVE StoreMoves /\ RestOK'
<1>1. StoreOK /\ RestOK
  BY DEF TypeOK, StoreOK, RestOK
<1>2. StoreMoves
  BY <1>1, KeepMoves DEF PreDispatchFails, Keep, store
<1>3. proc' \in [Execs -> ProcessState]
  BY <1>1, GoType DEF PreDispatchFails, Working
<1> QED
  BY <1>1, <1>2, <1>3 DEF PreDispatchFails, RestOK, loop

LEMMA DispatchStep == ASSUME TypeOK, NEW e \in Execs, Dispatch(e) PROVE StoreMoves /\ RestOK'
<1> DEFINE r == mem[e]
           k == proc[e].tok
<1>1. StoreOK /\ RestOK
  BY DEF TypeOK, StoreOK, RestOK
<1>2. CASE /\ DispatchAllowed(r, k)
           /\ Save(Set(e, Dispatched(r)))
           /\ open' = [open EXCEPT ![e] = @ \cup {k}]
           /\ Go(e, "called")
           /\ UNCHANGED <<ending, faults>>
  <2>1. k \in Tokens
    <3>1. proc[e] \in ProcessState /\ proc[e].pc = "claimed"
      BY <1>1 DEF RestOK, Dispatch
    <3> QED
      BY <3>1 DEF ProcessState
  <2>2. Dispatched(r) \in Record
    BY <1>1, DispatchedType DEF StoreOK
  <2>3. StoreOK'
    BY <1>1, <1>2, <2>2 DEF StoreOK, Save, Set
  <2>4. CallMove(e)
    BY <1>1, <1>2, <2>1 DEF CallMove, Save, Set, StoreOK, RestOK
  <2>5. ASSUME NEW x \in Execs, x # e PROVE WriteMove(x)
    BY <1>1, <1>2, <2>5 DEF WriteMove, Writable, Save, Set, StoreOK, RestOK
  <2>6. StoreMoves
    BY <2>3, <2>4, <2>5 DEF StoreMoves, Move
  <2>7. open' \in [Execs -> SUBSET Tokens]
    BY <1>1, <1>2, <2>1 DEF RestOK
  <2>8. proc' \in [Execs -> ProcessState]
    BY <1>1, <1>2, GoType DEF Dispatch, Working
  <2> QED
    BY <1>1, <1>2, <2>6, <2>7, <2>8 DEF Dispatch, RestOK, loop
<1>3. CASE Keep /\ Fault /\ Go(e, "error") /\ UNCHANGED <<ending, open>>
  <2>1. proc' \in [Execs -> ProcessState]
    BY <1>1, <1>3, GoType DEF Dispatch, Working
  <2> QED
    BY <1>1, <1>3, <2>1, KeepMoves, FaultType DEF Dispatch, RestOK, loop
<1>4. CASE Finish(e, "quiet") /\ UNCHANGED <<mem, disk, faults, open>>
  <2>1. proc' \in [Execs -> ProcessState] /\ ending' \in [Execs -> Ending]
    BY <1>1, <1>4, FinishType DEF Ending
  <2>2. StoreMoves
    BY <1>1, <1>4, KeepMoves DEF Keep, store
  <2> QED
    BY <1>1, <1>4, <2>1, <2>2 DEF Dispatch, RestOK, loop
<1> QED
  BY <1>2, <1>3, <1>4 DEF Dispatch

LEMMA RenewStep == ASSUME TypeOK, NEW e \in Execs, Renew(e) PROVE StoreMoves /\ RestOK'
<1> DEFINE r == Renewed(mem[e])
           allowed == Owns(mem[e], proc[e].tok) /\ RuntimeRemains(mem[e])
<1>1. StoreOK /\ RestOK
  BY DEF TypeOK, StoreOK, RestOK
<1>2. UNCHANGED open
  BY DEF Renew
<1>3. /\ proc[e].pc = "called"
      /\ \/ allowed /\ Save(Set(e, r)) /\ NoFault /\ UNCHANGED proc
         \/ allowed /\ KeepInMemory(Set(e, r)) /\ Fault /\ Go(e, "failing")
         \/ Keep /\ NoFault /\ Go(e, "lost")
  BY DEF Renew
<1>4. r \in Record
  BY <1>1, TimerFacts DEF StoreOK, Record, Renewed
<1>5. allowed => Writable(e, r) /\ mem[e].st = "running"
  BY DEF Writable, Owns
<1>6. StoreMoves
  <2>1. CASE allowed /\ Save(Set(e, r))
    BY <1>1, <1>2, <1>5, <2>1, SaveMoves
  <2>2. CASE allowed /\ KeepInMemory(Set(e, r))
    BY <1>1, <1>2, <1>4, <1>5, <2>2, MemoryMoves DEF Renewed
  <2> QED
    BY <1>1, <1>2, <1>3, <2>1, <2>2, KeepMoves
<1>7. proc' \in [Execs -> ProcessState]
  BY <1>1, <1>3, GoType DEF Working, RestOK
<1>8. faults' \in 0..MaxFaults
  BY <1>1, <1>3, FaultType
<1> QED
  BY <1>1, <1>6, <1>7, <1>8 DEF Renew, RestOK, loop

LEMMA TimeoutStep == ASSUME TypeOK, NEW e \in Execs, Timeout(e) PROVE StoreMoves /\ RestOK'
<1>1. StoreOK /\ RestOK
  BY DEF TypeOK, StoreOK, RestOK
<1>2. StoreMoves
  BY <1>1, KeepMoves DEF Timeout, Keep, store
<1>3. proc' \in [Execs -> ProcessState]
  BY <1>1, GoType DEF Timeout, Working
<1> QED
  BY <1>1, <1>2, <1>3 DEF Timeout, RestOK, loop

LEMMA StopTargetStep == ASSUME TypeOK, NEW e \in Execs, StopTarget(e) PROVE StoreMoves /\ RestOK'
<1>1. StoreOK /\ RestOK
  BY DEF TypeOK, StoreOK, RestOK
<1>2. StoreMoves
  BY <1>1, KeepMoves DEF StopTarget, Keep, store
<1>3. proc' \in [Execs -> ProcessState] /\ ending' \in [Execs -> Ending]
  BY <1>1, GoType, FinishType DEF StopTarget, Working, Ending, RestOK
<1> QED
  BY <1>1, <1>2, <1>3 DEF StopTarget, RestOK, loop

\* A process that reports its failure ends, whether or not it is recorded.
LEMMA FailOwnedMoves ==
  ASSUME TypeOK, NEW e \in Execs, FailOwned(e), UNCHANGED open
  PROVE  /\ StoreMoves
         /\ proc' \in [Execs -> ProcessState] /\ ending' \in [Execs -> Ending]
         /\ faults' \in 0..MaxFaults
<1>1. StoreOK /\ RestOK
  BY DEF TypeOK, StoreOK, RestOK
<1>2. CASE Owns(mem[e], proc[e].tok) /\ Save(Set(e, Failed(mem[e])))
  <2>1. Writable(e, Failed(mem[e]))
    BY <1>2 DEF Writable, Owns
  <2>2. StoreMoves
    BY <1>1, <1>2, <2>1, SaveMoves
  <2> QED
    BY <1>1, <2>2, FinishType, FaultType DEF FailOwned, Ending
<1>3. CASE Keep
  BY <1>1, <1>3, KeepMoves, FinishType, FaultType DEF FailOwned, Ending
<1> QED
  BY <1>2, <1>3 DEF FailOwned

LEMMA RecordFailureStep ==
  ASSUME TypeOK, NEW e \in Execs, RecordFailure(e) PROVE StoreMoves /\ RestOK'
<1>1. RestOK
  BY DEF TypeOK, RestOK
<1> QED
  BY <1>1, FailOwnedMoves DEF RecordFailure, RestOK, loop

LEMMA RecordTimeoutStep ==
  ASSUME TypeOK, NEW e \in Execs, RecordTimeout(e) PROVE StoreMoves /\ RestOK'
<1> DEFINE r == Expire(mem[e])
<1>1. StoreOK /\ RestOK
  BY DEF TypeOK, StoreOK, RestOK
<1>2. UNCHANGED open
  BY DEF RecordTimeout
<1>3. CASE FailOwned(e)
  BY <1>1, <1>2, <1>3, FailOwnedMoves DEF RecordTimeout, RestOK, loop
<1>4. CASE (SaveIfChanged(Set(e, r)) /\ NoFault /\ Finish(e, "quiet"))
           \/ (Keep /\ Fault /\ Finish(e, "raise"))
  <2>1. Writable(e, r)
    BY DEF Writable
  <2>2. StoreMoves
    BY <1>1, <1>2, <1>4, <2>1, KeepMoves, SaveIfChangedMoves
  <2>3. /\ proc' \in [Execs -> ProcessState] /\ ending' \in [Execs -> Ending]
        /\ faults' \in 0..MaxFaults
    BY <1>1, <1>4, FinishType, FaultType DEF Ending
  <2> QED
    BY <1>1, <2>2, <2>3 DEF RecordTimeout, RestOK, loop
<1> QED
  BY <1>3, <1>4 DEF RecordTimeout

LEMMA CommitResultStep ==
  ASSUME TypeOK, NEW e \in Execs, CommitResult(e) PROVE StoreMoves /\ RestOK'
<1> DEFINE r == mem[e]
           k == proc[e].tok
           o == proc[e].ev
           final == Projected(r, k, o)
<1>1. StoreOK /\ RestOK
  BY DEF TypeOK, StoreOK, RestOK
<1>2. /\ proc[e].pc = "returned"
      /\ k \in Tokens
  BY <1>1 DEF CommitResult, RestOK, ProcessState
<1>3. CASE Keep /\ UNCHANGED open
  <2>1. StoreMoves
    BY <1>1, <1>3, KeepMoves
  <2>2. /\ proc' \in [Execs -> ProcessState] /\ ending' \in [Execs -> Ending]
        /\ faults' \in 0..MaxFaults
    BY <1>1, <1>2, <1>3, GoType, FinishType, FaultType
    DEF CommitResult, Working, Ending, RestOK
  <2> QED
    BY <1>1, <1>3, <2>1, <2>2 DEF CommitResult, RestOK, loop
<1>4. CASE /\ OutcomeHolds(e, k, o) /\ Owns(r, k) /\ RuntimeRemains(r)
           /\ Save(Set(e, final)) /\ NoFault
           /\ open' = [open EXCEPT ![e] = IF o = "cancelled" THEN @ ELSE @ \ {k}]
           /\ Finish(e, "quiet")
  <2>1. o \in Outcome
    BY <1>4 DEF OutcomeHolds
  <2>2. final \in Record
    BY <1>1, <1>2, <2>1, ProjectedType DEF StoreOK
  <2>3. StoreOK'
    BY <1>1, <1>4, <2>2 DEF StoreOK, Save, Set
  <2>4. mem'[e] = final /\ disk'[e] = mem'[e]
    BY <1>1, <1>4 DEF StoreOK, Save, Set
  <2>5. Move(e)
    <3>1. CASE o = "cancelled"
      <4>1. open'[e] = open[e]
        BY <1>1, <1>4, <3>1 DEF RestOK
      <4>2. Writable(e, final)
        BY <1>2, <1>4, <3>1 DEF Writable, Owns
      <4> QED
        BY <2>4, <4>1, <4>2 DEF Move, WriteMove
    <3>2. CASE o # "cancelled"
      <4>1. open'[e] = open[e] \ {k}
        BY <1>1, <1>4, <3>2 DEF RestOK
      <4>2. child[e][k] = o
        BY <1>4 DEF OutcomeHolds
      <4> QED
        BY <1>2, <1>4, <2>1, <2>4, <3>2, <4>1, <4>2 DEF Move, SettleMove
    <3> QED
      BY <3>1, <3>2
  <2>6. ASSUME NEW x \in Execs, x # e PROVE WriteMove(x)
    BY <1>1, <1>4, <2>6 DEF WriteMove, Writable, Save, Set, StoreOK, RestOK
  <2>7. StoreMoves
    BY <2>3, <2>5, <2>6 DEF StoreMoves, Move
  <2>8. open' \in [Execs -> SUBSET Tokens]
    BY <1>1, <1>4 DEF RestOK
  <2>9. /\ proc' \in [Execs -> ProcessState] /\ ending' \in [Execs -> Ending]
        /\ faults' \in 0..MaxFaults
    BY <1>1, <1>4, FinishType, FaultType DEF Ending
  <2> QED
    BY <1>1, <2>7, <2>8, <2>9 DEF CommitResult, RestOK, loop
<1> QED
  BY <1>3, <1>4 DEF CommitResult, Keep, store

LEMMA CloseStep == ASSUME TypeOK, NEW e \in Execs, Close(e) PROVE StoreMoves /\ RestOK'
<1>1. StoreOK /\ RestOK
  BY DEF TypeOK, StoreOK, RestOK
<1>2. /\ StoreMoves
      /\ proc' \in [Execs -> ProcessState]
      /\ child' \in [Execs -> [Tokens -> ChildStatus]]
      /\ faults' \in 0..MaxFaults
  BY ReconcileMoves DEF Close
<1>3. batch' \in SUBSET Execs
  BY <1>1 DEF Close, RestOK
<1>4. ending' \in [Execs -> Ending]
  BY <1>1 DEF Close, RestOK, Ending
<1> QED
  BY <1>1, <1>2, <1>3, <1>4 DEF Close, RestOK

\* Asking the parent may expire it; it leaves the children well-typed.
LEMMA ParentAllowsMoves ==
  ASSUME TypeOK, NEW e \in Execs, NEW k \in Tokens, NEW to \in ChildStatus,
         NEW refused \in ChildStatus, ParentAllows(e, k, to, refused), UNCHANGED open
  PROVE  /\ StoreMoves
         /\ child' \in [Execs -> [Tokens -> ChildStatus]]
         /\ faults' \in 0..MaxFaults
<1> DEFINE r == Expire(mem[e])
           denied == [child[e] EXCEPT ![k] = refused]
<1>1. StoreOK /\ RestOK
  BY DEF TypeOK, StoreOK, RestOK
<1>2. Writable(e, r)
  BY DEF Writable
<1>3. Keep \/ SaveIfChanged(Set(e, r))
  BY DEF ParentAllows
<1>4. StoreMoves
  BY <1>1, <1>2, <1>3, KeepMoves, SaveIfChangedMoves
<1>5. /\ denied \in [Tokens -> ChildStatus]
      /\ [child[e] EXCEPT ![k] = to] \in [Tokens -> ChildStatus]
  BY <1>1 DEF RestOK
<1>6. CancelAll(denied) \in [Tokens -> ChildStatus]
  BY <1>5, CancelAllType
<1>7. child' \in [Execs -> [Tokens -> ChildStatus]]
  <2> HIDE DEF r
  <2>1. \E c \in [Tokens -> ChildStatus] : child' = [child EXCEPT ![e] = c]
    BY <1>5, <1>6 DEF ParentAllows, r
  <2> QED
    BY <1>1, <2>1 DEF RestOK
<1>8. faults' \in 0..MaxFaults
  BY <1>1, FaultType DEF ParentAllows
<1> QED
  BY <1>4, <1>7, <1>8

LEMMA StartChildStep == ASSUME TypeOK, NEW e \in Execs, StartChild(e) PROVE StoreMoves /\ RestOK'
<1> DEFINE k == proc[e].tok
<1>1. StoreOK /\ RestOK
  BY DEF TypeOK, StoreOK, RestOK
<1>2. k \in Tokens
  BY <1>1 DEF StartChild, RestOK, ProcessState
<1>3. ParentAllows(e, k, "running", "ready") /\ UNCHANGED open
  BY DEF StartChild
<1>4. "running" \in ChildStatus /\ "ready" \in ChildStatus
  BY DEF ChildStatus
<1>5. StoreMoves /\ child' \in [Execs -> [Tokens -> ChildStatus]] /\ faults' \in 0..MaxFaults
  BY <1>2, <1>3, <1>4, ParentAllowsMoves
<1>6. proc' \in [Execs -> ProcessState]
  BY <1>1, GoType DEF StartChild, Working, RestOK
<1> QED
  BY <1>1, <1>5, <1>6 DEF StartChild, RestOK, loop

\* The event a process has seen may change while it is at work.
LEMMA EventType ==
  ASSUME RestOK, NEW e \in Execs, NEW ev \in {"none", "stale"} \cup Outcome,
         proc[e].pc \in Working, proc' = [proc EXCEPT ![e].ev = ev]
  PROVE  proc' \in [Execs -> ProcessState]
<1>1. proc[e] \in [pc : Working, tok : Tokens, ev : {"none", "stale"} \cup Outcome]
  BY DEF RestOK, ProcessState, Working
<1> DEFINE told == [proc[e] EXCEPT !.ev = ev]
<1>2. told \in ProcessState
  BY <1>1 DEF ProcessState
<1>3. proc' = [proc EXCEPT ![e] = told]
  BY <1>1 DEF RestOK
<1> HIDE DEF told
<1> QED
  BY <1>2, <1>3 DEF RestOK

\* Writing back the event a process has seen changes nothing.
LEMMA SameEvent ==
  ASSUME RestOK, NEW e \in Execs
  PROVE  [proc EXCEPT ![e].ev = proc[e].ev] = proc
<1>1. proc[e] \in ProcessState
  BY DEF RestOK
<1>2. [proc[e] EXCEPT !.ev = proc[e].ev] = proc[e]
  BY <1>1 DEF ProcessState
<1> QED
  BY <1>2 DEF RestOK

LEMMA ChildEndsStep ==
  ASSUME TypeOK, NEW e \in Execs, NEW k \in Tokens, ChildEnds(e, k) PROVE StoreMoves /\ RestOK'
<1>1. StoreOK /\ RestOK
  BY DEF TypeOK, StoreOK, RestOK
<1>2. StoreMoves
  BY <1>1, KeepMoves DEF ChildEnds, Keep, store
<1>3. PICK o \in Outcome \cup {"failed"} :
        /\ child' = [child EXCEPT ![e][k] = o]
        /\ \/ /\ Runs(e, k)
              /\ proc' = [proc EXCEPT ![e].ev = IF o = "failed" THEN "none" ELSE o]
              /\ UNCHANGED owed
           \/ /\ owed' = [owed EXCEPT ![e][k] = IF o = "failed" THEN "none" ELSE o]
              /\ UNCHANGED proc
           \/ UNCHANGED <<owed, proc>>
  BY DEF ChildEnds
<1>4. child' \in [Execs -> [Tokens -> ChildStatus]]
  BY <1>1, <1>3 DEF RestOK, ChildStatus
<1>5. owed' \in [Execs -> [Tokens -> {"none"} \cup Outcome]]
  BY <1>1, <1>3 DEF RestOK
<1>6. proc' \in [Execs -> ProcessState]
  <2> DEFINE ev == IF o = "failed" THEN "none" ELSE o
  <2>1. ev \in {"none", "stale"} \cup Outcome
    BY <1>3
  <2>2. CASE UNCHANGED proc
    BY <1>1, <2>2 DEF RestOK
  <2>3. CASE Runs(e, k) /\ proc' = [proc EXCEPT ![e].ev = ev]
    <3>1. proc[e].pc \in Working
      BY <2>3 DEF Runs, TargetAlive, Working
    <3> HIDE DEF ev
    <3> QED
      BY <1>1, <2>1, <2>3, <3>1, EventType
  <2> QED
    BY <1>3, <2>2, <2>3
<1> QED
  BY <1>1, <1>2, <1>4, <1>5, <1>6 DEF ChildEnds, RestOK, loop

LEMMA TargetReturnsStep ==
  ASSUME TypeOK, NEW e \in Execs, TargetReturns(e) PROVE StoreMoves /\ RestOK'
<1>1. StoreOK /\ RestOK
  BY DEF TypeOK, StoreOK, RestOK
<1>2. StoreMoves
  BY <1>1, KeepMoves DEF TargetReturns, Keep, store
<1>3. proc' \in [Execs -> ProcessState]
  BY <1>1, GoType DEF TargetReturns, Working
<1> QED
  BY <1>1, <1>2, <1>3 DEF TargetReturns, RestOK, loop

LEMMA TargetRaisesStep ==
  ASSUME TypeOK, NEW e \in Execs, TargetRaises(e) PROVE StoreMoves /\ RestOK'
<1>1. StoreOK /\ RestOK
  BY DEF TypeOK, StoreOK, RestOK
<1>2. StoreMoves
  BY <1>1, KeepMoves DEF TargetRaises, Keep, store
<1>3. proc' \in [Execs -> ProcessState]
  BY <1>1, GoType DEF TargetRaises, Working
<1> QED
  BY <1>1, <1>2, <1>3 DEF TargetRaises, RestOK, loop

LEMMA ResumeChildStep ==
  ASSUME TypeOK, NEW e \in Execs, NEW k \in Tokens, ResumeChild(e, k) PROVE StoreMoves /\ RestOK'
<1> DEFINE to == IF child[e][k] = "waiting" THEN "resumed" ELSE "due_resumed"
           resumed == child'[e][k] \in {"resumed", "due_resumed"}
           ev == IF resumed /\ proc[e].tok = k /\ proc[e].ev # "none"
                 THEN "stale" ELSE proc[e].ev
<1>1. StoreOK /\ RestOK
  BY DEF TypeOK, StoreOK, RestOK
<1>2. to \in ChildStatus /\ child[e][k] \in ChildStatus
  BY <1>1 DEF ChildStatus, RestOK
<1>3. ParentAllows(e, k, to, child[e][k]) /\ UNCHANGED open
  BY DEF ResumeChild
<1>4. /\ proc' = [proc EXCEPT ![e].ev = ev]
      /\ owed' = [owed EXCEPT ![e][k] = IF resumed THEN "none" ELSE @]
  BY <1>1 DEF ResumeChild, RestOK
<1>5. StoreMoves /\ child' \in [Execs -> [Tokens -> ChildStatus]] /\ faults' \in 0..MaxFaults
  <2> HIDE DEF to
  <2> QED
    BY <1>2, <1>3, ParentAllowsMoves
<1>6. owed' \in [Execs -> [Tokens -> {"none"} \cup Outcome]]
  BY <1>1, <1>4 DEF RestOK
<1>7. proc' \in [Execs -> ProcessState]
  <2>1. proc[e] \in ProcessState
    BY <1>1 DEF RestOK
  <2>2. CASE proc[e].pc \in Working
    <3>1. ev \in {"none", "stale"} \cup Outcome
      BY <2>1 DEF ProcessState
    <3> HIDE DEF ev
    <3> QED
      BY <1>1, <1>4, <2>2, <3>1, EventType
  <2>3. CASE proc[e].pc \notin Working
    <3>1. ev = proc[e].ev
      BY <2>1, <2>3 DEF ProcessState
    <3> QED
      BY <1>1, <1>4, <3>1, SameEvent DEF RestOK
  <2> QED
    BY <2>2, <2>3
<1> QED
  BY <1>1, <1>5, <1>6, <1>7 DEF ResumeChild, RestOK, loop

LEMMA RequestExpiresStep ==
  ASSUME TypeOK, NEW e \in Execs, NEW k \in Tokens,
         RequestExpires(e, k) \/ RequestReopened(e, k)
  PROVE  StoreMoves /\ RestOK'
<1>1. StoreOK /\ RestOK
  BY DEF TypeOK, StoreOK, RestOK
<1>2. StoreMoves
  BY <1>1, KeepMoves DEF RequestExpires, RequestReopened, Keep, store
<1>3. child' \in [Execs -> [Tokens -> ChildStatus]]
  <2>1. \E c \in ChildStatus : child' = [child EXCEPT ![e][k] = c]
    BY DEF RequestExpires, RequestReopened, ChildStatus, Outcome
  <2>2. QED BY <1>1, <2>1 DEF RestOK
<1> QED
  BY <1>1, <1>2, <1>3 DEF RequestExpires, RequestReopened, RestOK, loop

LEMMA TellParentStep ==
  ASSUME TypeOK, NEW e \in Execs, TellParent(e) PROVE StoreMoves /\ RestOK'
<1>1. StoreOK /\ RestOK
  BY DEF TypeOK, StoreOK, RestOK
<1> QED
  BY <1>1, ExpireWaitMoves DEF TellParent, RestOK, loop

LEMMA ProjectResumedStep ==
  ASSUME TypeOK, NEW e \in Execs, NEW k \in Tokens, ProjectResumed(e, k) PROVE StoreMoves /\ RestOK'
<1> DEFINE o == owed[e][k]
           bound == /\ mem[e].st = "waiting" /\ mem[e].child = k
                    /\ OutcomeHolds(e, k, o)
                    /\ RuntimeRemains(mem[e])
<1>1. StoreOK /\ RestOK
  BY DEF TypeOK, StoreOK, RestOK
<1>2. /\ \/ bound /\ Save(Set(e, Projected(mem[e], k, o))) /\ NoFault
         \/ Keep /\ (Fault \/ NoFault)
      /\ UNCHANGED open
  BY DEF ProjectResumed
<1>3. StoreMoves
  <2>1. CASE bound /\ Save(Set(e, Projected(mem[e], k, o)))
    <3>1. Writable(e, Projected(mem[e], k, o))
      BY <2>1 DEF Writable, OutcomeHolds
    <3> QED
      BY <1>1, <1>2, <2>1, <3>1, SaveMoves
  <2> QED
    BY <1>1, <1>2, <2>1, KeepMoves
<1>4. faults' \in 0..MaxFaults
  BY <1>1, <1>2, FaultType
<1>5. owed' \in [Execs -> [Tokens -> {"none"} \cup Outcome]]
  BY <1>1 DEF ProjectResumed, RestOK
<1> QED
  BY <1>1, <1>3, <1>4, <1>5 DEF ProjectResumed, RestOK, loop

LEMMA CancelWorkflowStep ==
  ASSUME TypeOK, NEW e \in Execs, NEW k \in Tokens, CancelWorkflow(e, k) PROVE StoreMoves /\ RestOK'
<1> DEFINE ev == IF Runs(e, k) THEN "cancelled" ELSE proc[e].ev
<1>1. StoreOK /\ RestOK
  BY DEF TypeOK, StoreOK, RestOK
<1>2. StoreMoves
  BY <1>1, KeepMoves DEF CancelWorkflow, Keep, store
<1>3. child' \in [Execs -> [Tokens -> ChildStatus]]
  BY <1>1 DEF CancelWorkflow, RestOK, ChildStatus, Outcome
<1>4. owed' \in [Execs -> [Tokens -> {"none"} \cup Outcome]]
  BY <1>1 DEF CancelWorkflow, RestOK, Outcome
<1>5. proc' = [proc EXCEPT ![e].ev = ev]
  BY <1>1 DEF CancelWorkflow, RestOK
<1>6. proc' \in [Execs -> ProcessState]
  <2>1. CASE Runs(e, k)
    <3>1. proc[e].pc \in Working /\ ev \in Outcome
      BY <2>1 DEF Runs, TargetAlive, Working, Outcome
    <3> HIDE DEF ev
    <3> QED
      BY <1>1, <1>5, <3>1, EventType
  <2>2. CASE ~Runs(e, k)
    BY <1>1, <1>5, <2>2, SameEvent DEF RestOK
  <2> QED
    BY <2>1, <2>2
<1> QED
  BY <1>1, <1>2, <1>3, <1>4, <1>6 DEF CancelWorkflow, RestOK, loop

\* Every step of the system keeps the types and moves each record in one of
\* the ways Move lists.
LEMMA NextStep == ASSUME TypeOK, Next PROVE StoreMoves /\ RestOK'
<1>1. CASE Tick
  BY <1>1, TickStep
<1>2. CASE Crash
  BY <1>2, CrashStep
<1>3. CASE RunOnce
  BY <1>3, LoopUncertainStep, SelectStep, LoopGatherStep, LoopExpireStep,
     LoopCancelledStep, LoopOutcomesStep
  DEF RunOnce, LoopSelect
<1>4. ASSUME NEW e \in Execs, Process(e) PROVE StoreMoves /\ RestOK'
  BY <1>4, ClaimStep, PreDispatchFailsStep, DispatchStep, RenewStep, TimeoutStep,
     StopTargetStep, RecordTimeoutStep, RecordFailureStep, CommitResultStep, CloseStep
  DEF Process
<1>5. ASSUME NEW e \in Execs, Target(e) PROVE StoreMoves /\ RestOK'
  BY <1>5, StartChildStep, TargetReturnsStep, TargetRaisesStep, TellParentStep,
     ChildEndsStep, ResumeChildStep, RequestExpiresStep, ProjectResumedStep,
     CancelWorkflowStep
  DEF Target
<1>6. ASSUME NEW e \in Execs, Request(e) PROVE StoreMoves /\ RestOK'
  BY <1>6, CreateStep, CancelStep, RetryStep DEF Request
<1> QED
  BY <1>1, <1>2, <1>3, <1>4, <1>5, <1>6 DEF Next

-----------------------------------------------------------------------------
(* Type correctness.                                                        *)

LEMMA InitType == Init => TypeOK
<1> SUFFICES ASSUME Init PROVE TypeOK
  OBVIOUS
<1>1. StoreOK
  BY AbsentType DEF Init, StoreOK
<1>2. RestOK
  BY IdleType, BoundsAssumption
  DEF BoundsAssumption, Init, RestOK, Ending, ChildStatus, Phases
<1> QED
  BY <1>1, <1>2 DEF TypeOK, StoreOK, RestOK

LEMMA StepType == ASSUME TypeOK, [Next]_vars PROVE TypeOK'
<1>1. CASE Next
  BY <1>1, NextStep DEF StoreMoves, StoreOK, RestOK, TypeOK
<1>2. CASE UNCHANGED vars
  BY <1>2 DEF vars, TypeOK
<1> QED
  BY <1>1, <1>2

\* Every reachable state is of the declared types, whatever the bounds.
THEOREM TypeCorrect == Spec => []TypeOK
<1>1. TypeOK /\ [Next]_vars => TypeOK'
  BY StepType
<1> QED
  BY <1>1, InitType, PTL DEF Spec

-----------------------------------------------------------------------------
(* The inductive invariant.  The safety properties are not inductive by     *)
(* themselves: what keeps a second call from being made is that the record, *)
(* not the history, shows the first, that the record on disk shows the      *)
(* same, and that only the process which made the call may settle it.       *)

\* The record r shows the calls o in doubt.
Shows(r, o) ==
  /\ o # {} => r.rcpt \in {"started", "uncertain"} /\ r.ratt = r.att
  /\ r.st = "running" => o \subseteq {r.tok}
  /\ r.st = "waiting" => o = {}
  /\ r.st = "absent" => r = Absent

CompletedOf(e) ==
  mem[e].st = "completed" =>
    mem[e].child # NoToken /\ child[e][mem[e].child] = "completed"

\* A process that has called its target has a call in doubt.
Called(e) == proc[e].pc \in {"called", "returned"} => proc[e].tok \in open[e]

IInv ==
  /\ TypeOK
  /\ \A e \in Execs :
       /\ Durable(e)
       /\ Shows(mem[e], open[e])
       /\ disk[e].st = "absent" => disk[e] = Absent
       /\ \A j, k \in open[e] : j = k
       /\ CompletedOf(e)
       /\ Called(e)

\* Each transition of a record goes on to show the calls in doubt.
LEMMA ClosedShows ==
  ASSUME NEW r \in Record, NEW o, Shows(r, o)
  PROVE  /\ Shows(Expire(r), o)
         /\ Shows(MarkUncertain(r), o)
         /\ Shows(Cancelled(r), o)
         /\ Shows(WaitExpired(r), o)
<1> USE DEF Shows, ClearLease, Uncertain
<1>1. Shows(Expire(r), o)
  BY DEF Expire, Record
<1>2. Shows(MarkUncertain(r), o)
  BY DEF MarkUncertain, Record
<1>3. Shows(Cancelled(r), o)
  BY DEF Cancelled, Record
<1>4. Shows(WaitExpired(r), o)
  BY DEF WaitExpired, Record
<1> QED
  BY <1>1, <1>2, <1>3, <1>4

\* A failure is uncertain when the target may have been called.
LEMMA FailedShows ==
  ASSUME NEW r \in Record, NEW o, Shows(r, o) PROVE Shows(Failed(r), o)
<1>1. CASE MaybeStarted(r)
  BY <1>1 DEF Shows, Failed, ClearLease, Uncertain, Record
<1>2. CASE ~MaybeStarted(r)
  BY <1>2 DEF Shows, Failed, ClearLease, Record
<1> QED
  BY <1>1, <1>2

\* A call in doubt is a call that may have started.
LEMMA DoubtShows ==
  ASSUME NEW r \in Record, NEW o, Shows(r, o), o # {}
  PROVE  MaybeStarted(r) /\ ~RetryAllowed(r)
BY DEF Shows, MaybeStarted, RetryAllowed, Record

\* Whatever the store may write goes on to show the calls in doubt.
LEMMA WritableShows ==
  ASSUME StoreOK, NEW e \in Execs, NEW r, Writable(e, r), Shows(mem[e], open[e])
  PROVE  Shows(r, open[e])
<1> DEFINE m == mem[e]
           o == open[e]
<1>1. m \in Record /\ Shows(m, o)
  BY DEF StoreOK
<1>2. CASE r = m \/ r = Expire(m) \/ r = MarkUncertain(m) \/ r = Cancelled(m)
           \/ r = WaitExpired(m) \/ r = Failed(m)
  BY <1>1, <1>2, ClosedShows, FailedShows
<1>3. CASE m.st = "running" /\ r = Renewed(m)
  BY <1>1, <1>3 DEF Shows, Renewed, Record
<1>4. CASE m.st = "absent" /\ r \in Created
  <2>1. o = {}
    BY <1>1, <1>4 DEF Shows, Absent
  <2>2. r.st \in {"pending", "skipped", "budget_limited"}
    BY <1>4 DEF Created, Absent
  <2> QED
    BY <2>1, <2>2 DEF Shows
<1>5. CASE ClaimAllowed(m) /\ \E k \in Tokens : r = Claimed(m, k)
  <2>1. o = {}
    BY <1>1, <1>5, DoubtShows DEF ClaimAllowed
  <2>2. r.st = "running"
    BY <1>1, <1>5 DEF Claimed, Record
  <2> QED
    BY <2>1, <2>2 DEF Shows
<1>6. CASE RetryAllowed(m) /\ \E reset \in BOOLEAN : r = Retried(m, reset)
  <2>1. o = {}
    BY <1>1, <1>6, DoubtShows
  <2>2. r.st = "pending"
    BY <1>1, <1>6 DEF Retried, ClearLease, Record
  <2> QED
    BY <2>1, <2>2 DEF Shows
<1>7. CASE \E k \in Tokens : r = Projected(m, k, "cancelled")
  BY <1>1, <1>7 DEF Shows, Projected, ClearLease, Record
<1>8. CASE /\ m.st = "waiting"
           /\ \E k \in Tokens, x \in Outcome : r = Projected(m, k, x)
  <2>1. o = {}
    BY <1>1, <1>8 DEF Shows
  <2>2. PICK k \in Tokens, x \in Outcome : r = Projected(m, k, x)
    BY <1>8
  <2>3. r.st = IF x = "timer" THEN "dead_letter" ELSE x
    BY <1>1, <2>2 DEF Projected, Settle, ClearLease, Record
  <2>4. r.st # "absent" /\ r.st # "running"
    BY <2>3 DEF Outcome
  <2> QED
    BY <2>1, <2>4 DEF Shows
<1> QED
  BY <1>2, <1>3, <1>4, <1>5, <1>6, <1>7, <1>8 DEF Writable

\* A record whose timers are not set does not age.
LEMMA UnsetAged ==
  /\ Aged(Absent) = Absent
  /\ \A r \in Created : Aged(r) = r
<1>1. Dec(0) = 0 /\ Dec(Unset) = Unset
  BY DEF Dec, Unset
<1>2. \A r \in Record : r.lease = 0 /\ r.due = 0 /\ r.left = Unset => Aged(r) = r
  BY <1>1 DEF Aged, Record
<1>3. Absent.lease = 0 /\ Absent.due = 0 /\ Absent.left = Unset
  BY DEF Absent
<1>4. \A r \in Created : r.lease = 0 /\ r.due = 0 /\ r.left = Unset
  BY DEF Created, Absent
<1> QED
  BY <1>2, <1>3, <1>4, AbsentType, CreatedType

\* Two records that differ in their leases only age alike.
LEMMA LeaseAged ==
  ASSUME NEW m \in Record, NEW n
  PROVE  Aged([m EXCEPT !.lease = n]) = [Aged(m) EXCEPT !.lease = Dec(n)]
<1> DEFINE due == Dec(m.due)
           left == Dec(m.left)
           c == Dec(n)
<1>1. Aged([m EXCEPT !.lease = n]) = [m EXCEPT !.lease = c, !.due = due, !.left = left]
  BY DEF Aged, Record
<1>2. Aged(m) = [m EXCEPT !.lease = Dec(m.lease), !.due = due, !.left = left]
  BY DEF Aged
<1> HIDE DEF due, left, c
<1>3. [[m EXCEPT !.lease = Dec(m.lease), !.due = due, !.left = left] EXCEPT !.lease = c]
        = [m EXCEPT !.lease = c, !.due = due, !.left = left]
  BY DEF Record
<1> QED
  BY <1>1, <1>2, <1>3 DEF c

\* Every move goes on to show the calls in doubt, of which there is one.
LEMMA MoveShows ==
  ASSUME IInv, StoreOK', NEW e \in Execs, Move(e)
  PROVE  Shows(mem[e], open[e])' /\ (\A j, k \in open[e] : j = k)'
<1> DEFINE m == mem[e]
           o == open[e]
<1>1. /\ StoreOK /\ Durable(e) /\ Shows(m, o)
      /\ disk[e].st = "absent" => disk[e] = Absent
      /\ \A j, k \in o : j = k
      /\ m \in Record /\ disk[e] \in Record
  BY DEF IInv, TypeOK, StoreOK
<1>2. CASE MemoryMove(e)
  <2>1. o' = o
    BY <1>2 DEF MemoryMove
  <2>2. CASE m' = m
    BY <1>1, <2>1, <2>2 DEF Shows
  <2>3. CASE m' = disk[e]
    <3>1. CASE disk[e] = [m EXCEPT !.lease = disk[e].lease]
      BY <1>1, <2>1, <2>3, <3>1 DEF Shows, Record
    <3>2. CASE disk[e] = Absent /\ m \in Created
      <4>1. m.rcpt = "none"
        BY <3>2 DEF Created, Absent
      <4>2. o = {} /\ Absent.st = "absent"
        BY <1>1, <4>1 DEF Shows, Absent
      <4> QED
        BY <2>1, <2>3, <3>2, <4>2 DEF Shows
    <3> QED
      BY <1>1, <3>1, <3>2 DEF Durable
  <2>4. CASE m.st = "running" /\ m' = Renewed(m)
    BY <1>1, <2>1, <2>4 DEF Shows, Record, Renewed
  <2>5. CASE m.st = "absent" /\ m' \in Created
    <3>1. Writable(e, m')
      BY <2>5 DEF Writable
    <3> QED
      BY <1>1, <2>1, <3>1, WritableShows DEF Shows
  <2> QED
    BY <1>2, <2>2, <2>3, <2>4, <2>5 DEF MemoryMove, Renewed
<1>3. CASE AgeMove(e)
  <2>1. m' = Aged(m) /\ o' = o
    BY <1>3 DEF AgeMove
  <2>2. Aged(Absent) = Absent
    BY UnsetAged
  <2> QED
    BY <1>1, <2>1, <2>2 DEF Shows, Aged, Record
<1>4. CASE WriteMove(e)
  BY <1>1, <1>4, WritableShows DEF WriteMove, Shows
<1>5. CASE CallMove(e)
  <2>1. PICK k \in Tokens : /\ DispatchAllowed(m, k)
                            /\ m' = Dispatched(m)
                            /\ o' = o \cup {k}
    BY <1>5 DEF CallMove
  <2>2. o = {}
    BY <1>1, <2>1, DoubtShows DEF DispatchAllowed
  <2>3. o' = {k} /\ m.st = "running" /\ m.tok = k
    BY <2>1, <2>2 DEF DispatchAllowed, Owns
  <2> QED
    BY <1>1, <2>1, <2>3 DEF Shows, Dispatched, Record
<1>6. CASE SettleMove(e)
  <2>1. PICK k \in Tokens, x \in Outcome \ {"cancelled"} :
          /\ Owns(m, k) /\ m' = Projected(m, k, x)
          /\ o' = o \ {k}
    BY <1>6 DEF SettleMove
  <2>2. o' = {}
    BY <1>1, <2>1 DEF Owns, Shows
  <2>3. m'.st = IF x = "timer" THEN "dead_letter" ELSE x
    BY <1>1, <2>1 DEF Projected, Settle, ClearLease, Record
  <2>4. m'.st # "absent"
    BY <2>3 DEF Outcome
  <2> QED
    BY <2>2, <2>4 DEF Shows
<1> QED
  BY <1>2, <1>3, <1>4, <1>5, <1>6 DEF Move

\* Every move leaves on disk what memory would lose, and a record that was
\* created is never taken back from the disk.
LEMMA MoveDurable ==
  ASSUME IInv, StoreOK', NEW e \in Execs, Move(e), Shows(mem[e], open[e])'
  PROVE  Durable(e)' /\ (disk[e].st = "absent" => disk[e] = Absent)'
<1> DEFINE m == mem[e]
           d == disk[e]
<1>1. /\ Durable(e)
      /\ d.st = "absent" => d = Absent
      /\ m.st = "absent" => m = Absent
      /\ m \in Record /\ d \in Record /\ m' \in Record /\ d' \in Record
      /\ m'.st = "absent" => m' = Absent
  BY DEF IInv, TypeOK, StoreOK, Shows
<1>2. CASE d' = m'
  <2>1. d' = [m' EXCEPT !.lease = d'.lease]
    BY <1>1, <1>2 DEF Record
  <2> QED
    BY <1>1, <1>2, <2>1 DEF Durable
<1>3. CASE MemoryMove(e)
  <2>1. d' = d
    BY <1>3 DEF MemoryMove
  <2>2. CASE m' = m
    BY <1>1, <2>1, <2>2 DEF Durable
  <2>3. CASE m' = d
    BY <1>2, <2>1, <2>3
  <2>4. CASE m.st = "running" /\ m' = Renewed(m)
    <3>1. m \notin Created
      BY <2>4 DEF Created, Absent
    <3>2. d = [m EXCEPT !.lease = d.lease]
      BY <1>1, <3>1 DEF Durable
    <3>3. d' = [m' EXCEPT !.lease = d'.lease]
      BY <1>1, <2>1, <2>4, <3>2 DEF Renewed, Record
    <3>4. d'.st = "absent" => d' = Absent
      BY <1>1, <2>1
    <3> QED
      BY <3>3, <3>4 DEF Durable
  <2>5. CASE m.st = "absent" /\ m' \in Created
    <3>1. m \notin Created
      BY <2>5 DEF Created, Absent
    <3>2. d.st = m.st
      BY <1>1, <3>1 DEF Durable, Record
    <3> QED
      BY <1>1, <2>1, <2>5, <3>2 DEF Durable
  <2> QED
    BY <1>3, <2>2, <2>3, <2>4, <2>5 DEF MemoryMove
<1>4. CASE AgeMove(e)
  <2>1. m' = Aged(m) /\ d' = Aged(d)
    BY <1>4 DEF AgeMove
  <2>2. Aged(Absent) = Absent
    BY UnsetAged
  <2>3. d'.st = d.st
    BY <1>1, <2>1 DEF Aged, Record
  <2>4. CASE d = [m EXCEPT !.lease = d.lease]
    <3>1. d' = [m' EXCEPT !.lease = d'.lease]
      <4>1. d' = [m' EXCEPT !.lease = Dec(d.lease)]
        BY <1>1, <2>1, <2>4, LeaseAged
      <4>2. d'.lease = Dec(d.lease)
        BY <1>1, <2>1 DEF Aged, Record
      <4> QED
        BY <4>1, <4>2
    <3>2. d'.st = "absent" => d' = Absent
      BY <1>1, <2>1, <2>2, <2>3
    <3> QED
      BY <3>1, <3>2 DEF Durable
  <2>5. CASE d = Absent /\ m \in Created
    <3>1. m' = m
      BY <2>1, <2>5, UnsetAged
    <3> QED
      BY <1>1, <2>1, <2>2, <2>5, <3>1 DEF Durable
  <2> QED
    BY <1>1, <2>4, <2>5 DEF Durable
<1>5. CASE WriteMove(e) \/ CallMove(e) \/ SettleMove(e)
  BY <1>2, <1>5 DEF WriteMove, CallMove, SettleMove
<1> QED
  BY <1>3, <1>4, <1>5 DEF Move

\* No step takes back the completion of a child.
Sticky ==
  \A x \in Execs, j \in Tokens : child[x][j] = "completed" => child'[x][j] = "completed"

LEMMA CancelAllSticky ==
  ASSUME RestOK, NEW e \in Execs, NEW c \in [Tokens -> ChildStatus],
         \A j \in Tokens : child[e][j] = "completed" => c[j] = "completed",
         child' = [child EXCEPT ![e] = CancelAll(c)] \/ child' = [child EXCEPT ![e] = c]
  PROVE  Sticky
<1>1. \A j \in Tokens : c[j] = "completed" => CancelAll(c)[j] = "completed"
  BY DEF CancelAll, ChildEnded
<1> QED
  BY <1>1 DEF Sticky, RestOK

LEMMA ParentAllowsSticky ==
  ASSUME RestOK, NEW e \in Execs, NEW k \in Tokens, NEW to \in ChildStatus,
         NEW refused \in ChildStatus, ParentAllows(e, k, to, refused),
         child[e][k] # "completed"
  PROVE  Sticky
<1> DEFINE r == Expire(mem[e])
           denied == [child[e] EXCEPT ![k] = refused]
           allowed == [child[e] EXCEPT ![k] = to]
<1>1. /\ denied \in [Tokens -> ChildStatus] /\ allowed \in [Tokens -> ChildStatus]
      /\ \A j \in Tokens : child[e][j] = "completed" =>
           denied[j] = "completed" /\ allowed[j] = "completed"
  BY DEF RestOK
<1>2. \/ child' = [child EXCEPT ![e] = CancelAll(denied)]
      \/ child' = [child EXCEPT ![e] = denied]
      \/ child' = [child EXCEPT ![e] = allowed]
  <2> HIDE DEF r
  <2> QED
    BY DEF ParentAllows, r
<1> HIDE DEF denied, allowed
<1> QED
  BY <1>1, <1>2, CancelAllSticky

\* A step of one child that has not completed leaves the others alone.
LEMMA OneChildSticky ==
  ASSUME RestOK, NEW e \in Execs, NEW k \in Tokens, NEW to,
         child' = [child EXCEPT ![e][k] = to], child[e][k] # "completed"
  PROVE  Sticky
BY DEF RestOK, Sticky

LEMMA NextSticky == ASSUME TypeOK, Next PROVE Sticky
<1>1. RestOK
  BY DEF TypeOK, RestOK
<1>2. ASSUME UNCHANGED child PROVE Sticky
  BY <1>2 DEF Sticky
<1>3. ASSUME NEW e \in Execs, child' = [child EXCEPT ![e] = CancelAll(child[e])] PROVE Sticky
  BY <1>1, <1>3, CancelAllSticky DEF RestOK
<1>4. CASE Tick
  BY <1>2, <1>4 DEF Tick
<1>5. CASE Crash
  BY <1>1, <1>5 DEF Crash, Recovered, Sticky, RestOK
<1>6. ASSUME NEW e \in Execs, Reconciled(e) \/ ReconcileFails(e) PROVE Sticky
  <2>1. child' = [child EXCEPT ![e] = CancelAll(child[e])] \/ UNCHANGED child
    BY <1>1, <1>6 DEF Reconciled, ReconcileFails, RestOK
  <2> QED
    BY <1>2, <1>3, <2>1
<1>7. CASE RunOnce
  <2>1. CASE LoopUncertain \/ LoopSelect \/ LoopGather
    BY <1>2, <2>1 DEF LoopUncertain, LoopSelect, Select, LoopGather
  <2>2. ASSUME NEW e \in Execs, LoopExpire(e) PROVE Sticky
    BY <1>2, <1>6, <2>2 DEF LoopExpire
  <2>3. ASSUME NEW e \in Execs, LoopCancelled(e) PROVE Sticky
    <3>1. child' = [child EXCEPT ![e] = CancelAll(child[e])] \/ UNCHANGED child
      BY <1>1, <2>3 DEF LoopCancelled, RestOK
    <3> QED
      BY <1>2, <1>3, <3>1
  <2>4. ASSUME NEW e \in Execs, LoopOutcomes(e) PROVE Sticky
    BY <1>2, <2>4 DEF LoopOutcomes
  <2> QED
    BY <1>7, <2>1, <2>2, <2>3, <2>4 DEF RunOnce
<1>8. ASSUME NEW e \in Execs, Process(e) PROVE Sticky
  <2>1. CASE Close(e)
    BY <1>6, <2>1 DEF Close
  <2>2. CASE ~Close(e)
    BY <1>2, <1>8, <2>2 DEF Process, Claim, PreDispatchFails, Dispatch, Renew, Timeout,
         StopTarget, RecordTimeout, RecordFailure, CommitResult
  <2> QED
    BY <2>1, <2>2
<1>9. ASSUME NEW e \in Execs, Request(e) PROVE Sticky
  <2>1. child' = [child EXCEPT ![e] = CancelAll(child[e])] \/ UNCHANGED child
    BY <1>1, <1>9 DEF Request, Create, CancelExecution, RetryExecution, RestOK
  <2> QED
    BY <1>2, <1>3, <2>1
<1>10. ASSUME NEW e \in Execs, Target(e) PROVE Sticky
  <2>1. CASE StartChild(e)
    <3>1. proc[e].tok \in Tokens
      BY <1>1, <2>1 DEF StartChild, RestOK, ProcessState
    <3>2. /\ ParentAllows(e, proc[e].tok, "running", "ready")
          /\ child[e][proc[e].tok] # "completed"
      BY <2>1 DEF StartChild
    <3>3. "running" \in ChildStatus /\ "ready" \in ChildStatus
      BY DEF ChildStatus
    <3> QED
      BY <1>1, <3>1, <3>2, <3>3, ParentAllowsSticky
  <2>2. CASE TargetReturns(e) \/ TargetRaises(e) \/ TellParent(e)
    BY <1>2, <2>2 DEF TargetReturns, TargetRaises, TellParent
  <2>3. ASSUME NEW k \in Tokens, ChildEnds(e, k) PROVE Sticky
    <3>1. PICK o : child' = [child EXCEPT ![e][k] = o]
      BY <2>3 DEF ChildEnds
    <3>2. child[e][k] \in {"running", "resumed", "due_resumed"}
      BY <2>3 DEF ChildEnds, Runs
    <3> QED
      BY <1>1, <3>1, <3>2, OneChildSticky
  <2>4. ASSUME NEW k \in Tokens, ResumeChild(e, k) PROVE Sticky
    <3> DEFINE to == IF child[e][k] = "waiting" THEN "resumed" ELSE "due_resumed"
    <3>1. ParentAllows(e, k, to, child[e][k]) /\ child[e][k] # "completed"
      BY <2>4 DEF ResumeChild
    <3>2. to \in ChildStatus /\ child[e][k] \in ChildStatus
      BY <1>1 DEF ChildStatus, RestOK
    <3> HIDE DEF to
    <3> QED
      BY <1>1, <3>1, <3>2, ParentAllowsSticky
  <2>5. ASSUME NEW k \in Tokens, RequestExpires(e, k) \/ RequestReopened(e, k) PROVE Sticky
    BY <1>1, <2>5, OneChildSticky DEF RequestExpires, RequestReopened
  <2>6. ASSUME NEW k \in Tokens, ProjectResumed(e, k) PROVE Sticky
    BY <1>2, <2>6 DEF ProjectResumed
  <2>7. ASSUME NEW k \in Tokens, CancelWorkflow(e, k) PROVE Sticky
    BY <1>1, <2>7, OneChildSticky DEF CancelWorkflow, ChildEnded
  <2> QED
    BY <1>10, <2>1, <2>2, <2>3, <2>4, <2>5, <2>6, <2>7 DEF Target
<1> QED
  BY <1>4, <1>5, <1>7, <1>8, <1>9, <1>10 DEF Next

\* A parent that is completed is bound to a child that has completed.
LEMMA MoveCompleted ==
  ASSUME IInv, Sticky, NEW e \in Execs, Move(e)
  PROVE  CompletedOf(e)'
<1> DEFINE m == mem[e]
<1>1. StoreOK /\ CompletedOf(e) /\ Durable(e) /\ m \in Record /\ disk[e] \in Record
  BY DEF IInv, TypeOK, StoreOK
<1>2. SUFFICES ASSUME m'.st = "completed"
               PROVE  m'.child \in Tokens /\ child[e][m'.child] = "completed"
  BY <1>1 DEF CompletedOf, Sticky, NoToken, Tokens
<1>3. CASE m.st = "completed" /\ m'.child = m.child
  BY <1>1, <1>3 DEF CompletedOf, Record, NoToken
<1>4. CASE MemoryMove(e)
  <2>1. CASE m' = m
    BY <1>2, <1>3, <2>1
  <2>2. CASE m' = disk[e]
    <3>1. disk[e] # Absent
      BY <1>2, <2>2 DEF Absent
    <3>2. m'.st = m.st /\ m'.child = m.child
      BY <1>1, <2>2, <3>1 DEF Durable, Record
    <3> QED
      BY <1>2, <1>3, <3>2
  <2>3. CASE m.st = "running" /\ m' = [m EXCEPT !.lease = Lease]
    BY <1>1, <1>2, <2>3 DEF Record
  <2>4. CASE m' \in Created
    BY <1>2, <2>4 DEF Created, Absent
  <2> QED
    BY <1>4, <2>1, <2>2, <2>3, <2>4 DEF MemoryMove, Renewed
<1>5. CASE AgeMove(e)
  <2>1. m'.st = m.st /\ m'.child = m.child
    BY <1>1, <1>5 DEF AgeMove, Aged, Record
  <2> QED
    BY <1>2, <1>3, <2>1
<1>6. CASE WriteMove(e)
  <2> DEFINE r == m'
  <2>1. Writable(e, r)
    BY <1>6 DEF WriteMove
  <2>2. CASE r = m
    BY <1>2, <1>3, <2>2
  <2>3. CASE r = Expire(m) \/ r = MarkUncertain(m)
    <3>1. r = m
      BY <1>1, <1>2, <2>3 DEF Expire, MarkUncertain, ClearLease, Uncertain, Record
    <3> QED
      BY <1>2, <1>3, <3>1
  <2>4. CASE r = Cancelled(m) \/ r = WaitExpired(m)
    BY <1>1, <1>2, <2>4 DEF Cancelled, WaitExpired, ClearLease, Record
  <2>5. CASE r = Failed(m)
    BY <1>1, <1>2, <2>5 DEF Failed, Uncertain, ClearLease, Record
  <2>6. CASE m.st = "running" /\ r = Renewed(m)
    BY <1>1, <1>2, <2>6 DEF Renewed, Record
  <2>7. CASE r \in Created
    BY <1>2, <2>7 DEF Created, Absent
  <2>8. CASE \E k \in Tokens : r = Claimed(m, k)
    BY <1>1, <1>2, <2>8 DEF Claimed, Record
  <2>9. CASE \E reset \in BOOLEAN : r = Retried(m, reset)
    BY <1>1, <1>2, <2>9 DEF Retried, ClearLease, Record
  <2>10. CASE \E k \in Tokens : r = Projected(m, k, "cancelled")
    BY <1>1, <1>2, <2>10 DEF Projected, ClearLease, Record
  <2>11. CASE \E k \in Tokens, o \in Outcome : child[e][k] = o /\ r = Projected(m, k, o)
    <3>1. PICK k \in Tokens, o \in Outcome : child[e][k] = o /\ r = Projected(m, k, o)
      BY <2>11
    <3>2. r.child = k /\ r.st = IF o = "timer" THEN "dead_letter" ELSE o
      BY <1>1, <3>1 DEF Projected, Settle, ClearLease, Record
    <3> QED
      BY <1>2, <3>1, <3>2
  <2> HIDE DEF r
  <2> QED
    BY <2>1, <2>2, <2>3, <2>4, <2>5, <2>6, <2>7, <2>8, <2>9, <2>10, <2>11 DEF Writable
<1>7. CASE CallMove(e)
  BY <1>1, <1>2, <1>7 DEF CallMove, DispatchAllowed, Owns, Dispatched, Record
<1>8. CASE SettleMove(e)
  <2>1. PICK k \in Tokens, o \in Outcome : child[e][k] = o /\ m' = Projected(m, k, o)
    BY <1>8 DEF SettleMove
  <2>2. m'.child = k /\ m'.st = IF o = "timer" THEN "dead_letter" ELSE o
    BY <1>1, <2>1 DEF Projected, Settle, ClearLease, Record
  <2> QED
    BY <1>2, <2>1, <2>2
<1> QED
  BY <1>4, <1>5, <1>6, <1>7, <1>8 DEF Move

\* What a step does to the processes, as far as their calls are concerned.
CallsKept ==
  \A x \in Execs : proc'[x].pc \in {"called", "returned"} =>
    proc[x].pc \in {"called", "returned"} /\ proc'[x].tok = proc[x].tok

LEMMA GoKept ==
  ASSUME RestOK, NEW e \in Execs, NEW pc, Go(e, pc),
         pc \in {"called", "returned"} => proc[e].pc = "called"
  PROVE  CallsKept
BY DEF CallsKept, Go, RestOK

LEMMA FinishKept ==
  ASSUME RestOK, NEW e \in Execs, NEW how, Finish(e, how) PROVE CallsKept
BY DEF CallsKept, Finish, Idle, RestOK

LEMMA SignalKept ==
  ASSUME RestOK, NEW e \in Execs, Signal(e) PROVE CallsKept
<1>1. proc[e] \in ProcessState
  BY DEF RestOK
<1> QED
  BY <1>1 DEF CallsKept, Signal, RestOK

LEMMA EventKept ==
  ASSUME RestOK, NEW e \in Execs, NEW ev, proc' = [proc EXCEPT ![e].ev = ev]
  PROVE  CallsKept
BY DEF CallsKept, RestOK, ProcessState

\* Every step but a dispatch and a settlement keeps calls and doubt as they are.
LEMMA NextCalls ==
  ASSUME TypeOK, Next
  PROVE  \/ CallsKept /\ UNCHANGED open
         \/ \E e \in Execs : Dispatch(e) \/ CommitResult(e)
<1>1. RestOK
  BY DEF TypeOK, RestOK
<1>2. ASSUME UNCHANGED proc PROVE CallsKept
  BY <1>2 DEF CallsKept
<1>3. CASE Tick
  BY <1>2, <1>3 DEF Tick
<1>4. CASE Crash
  BY <1>4 DEF Crash, CallsKept, Idle
<1>5. ASSUME NEW e \in Execs, Reconciled(e) \/ ReconcileFails(e) PROVE CallsKept
  BY <1>1, <1>2, <1>5, SignalKept DEF Reconciled, ReconcileFails
<1>6. CASE RunOnce
  <2>1. CASE LoopUncertain \/ LoopGather
    BY <1>2, <2>1 DEF LoopUncertain, LoopGather
  <2>2. ASSUME NEW S \in SUBSET Execs, Select(S) PROVE CallsKept /\ UNCHANGED open
    BY <2>2 DEF Select, CallsKept, Idle
  <2>3. ASSUME NEW e \in Execs, LoopExpire(e) PROVE CallsKept /\ UNCHANGED open
    BY <1>2, <1>5, <2>3 DEF LoopExpire
  <2>4. ASSUME NEW e \in Execs, LoopCancelled(e) PROVE CallsKept /\ UNCHANGED open
    BY <1>1, <1>2, <2>4, SignalKept DEF LoopCancelled
  <2>5. ASSUME NEW e \in Execs, LoopOutcomes(e) PROVE CallsKept /\ UNCHANGED open
    BY <1>2, <2>5 DEF LoopOutcomes
  <2> QED
    BY <1>6, <2>1, <2>2, <2>3, <2>4, <2>5 DEF RunOnce, LoopSelect, LoopUncertain, LoopGather
<1>7. ASSUME NEW e \in Execs, Process(e), ~Dispatch(e), ~CommitResult(e)
      PROVE  CallsKept /\ UNCHANGED open
  <2>1. CASE Claim(e)
    <3>1. CASE proc' = [proc EXCEPT ![e] = [pc |-> "claimed", tok |-> claims[e] + 1,
                                            ev |-> "none"]]
      BY <1>1, <2>1, <3>1 DEF Claim, CallsKept, RestOK
    <3>2. CASE Finish(e, "quiet")
      BY <1>1, <2>1, <3>2, FinishKept DEF Claim
    <3> QED
      BY <2>1, <3>1, <3>2 DEF Claim
  <2>2. CASE PreDispatchFails(e)
    BY <1>1, <2>2, GoKept DEF PreDispatchFails
  <2>3. CASE Renew(e)
    BY <1>1, <1>2, <2>3, GoKept DEF Renew
  <2>4. CASE Timeout(e)
    BY <1>1, <2>4, GoKept DEF Timeout
  <2>5. CASE StopTarget(e)
    BY <1>1, <2>5, GoKept, FinishKept DEF StopTarget
  <2>6. CASE RecordTimeout(e) \/ RecordFailure(e)
    BY <1>1, <2>6, FinishKept DEF RecordTimeout, RecordFailure, FailOwned
  <2>7. CASE Close(e)
    BY <1>5, <2>7 DEF Close
  <2> QED
    BY <1>7, <2>1, <2>2, <2>3, <2>4, <2>5, <2>6, <2>7 DEF Process
<1>8. ASSUME NEW e \in Execs, Target(e) PROVE CallsKept /\ UNCHANGED open
  <2>1. CASE StartChild(e)
    BY <1>1, <1>2, <2>1, GoKept DEF StartChild
  <2>2. CASE TargetReturns(e) \/ TargetRaises(e)
    BY <1>1, <2>2, GoKept DEF TargetReturns, TargetRaises
  <2>3. CASE TellParent(e)
    BY <1>2, <2>3 DEF TellParent
  <2>4. ASSUME NEW k \in Tokens, ChildEnds(e, k) PROVE CallsKept /\ UNCHANGED open
    BY <1>1, <1>2, <2>4, EventKept DEF ChildEnds
  <2>5. ASSUME NEW k \in Tokens, ResumeChild(e, k) PROVE CallsKept /\ UNCHANGED open
    <3>1. \E ev : proc' = [proc EXCEPT ![e].ev = ev]
      BY <2>5 DEF ResumeChild
    <3> QED
      BY <1>1, <2>5, <3>1, EventKept DEF ResumeChild
  <2>6. ASSUME NEW k \in Tokens, RequestExpires(e, k) \/ RequestReopened(e, k)
        PROVE  CallsKept /\ UNCHANGED open
    BY <1>2, <2>6 DEF RequestExpires, RequestReopened
  <2>7. ASSUME NEW k \in Tokens, ProjectResumed(e, k) PROVE CallsKept /\ UNCHANGED open
    BY <1>2, <2>7 DEF ProjectResumed
  <2>8. ASSUME NEW k \in Tokens, CancelWorkflow(e, k) PROVE CallsKept /\ UNCHANGED open
    <3>1. \E ev : proc' = [proc EXCEPT ![e].ev = ev]
      BY <2>8 DEF CancelWorkflow
    <3> QED
      BY <1>1, <2>8, <3>1, EventKept DEF CancelWorkflow
  <2> QED
    BY <1>8, <2>1, <2>2, <2>3, <2>4, <2>5, <2>6, <2>7, <2>8 DEF Target
<1>9. ASSUME NEW e \in Execs, Request(e) PROVE CallsKept /\ UNCHANGED open
  BY <1>1, <1>2, <1>9, SignalKept DEF Request, Create, CancelExecution, RetryExecution
<1> QED
  BY <1>3, <1>4, <1>6, <1>7, <1>8, <1>9 DEF Next, Tick, Crash

LEMMA NextCalled ==
  ASSUME IInv, Next, NEW x \in Execs PROVE Called(x)'
<1>1. TypeOK /\ RestOK /\ Called(x)
  BY DEF IInv, TypeOK, RestOK
<1>2. CASE CallsKept /\ UNCHANGED open
  BY <1>1, <1>2 DEF CallsKept, Called
<1>3. ASSUME NEW e \in Execs, Dispatch(e) PROVE Called(x)'
  <2>1. CASE /\ open' = [open EXCEPT ![e] = @ \cup {proc[e].tok}]
             /\ Go(e, "called")
    BY <1>1, <2>1 DEF Called, Go, RestOK, ProcessState
  <2>2. CASE (Go(e, "error") \/ Finish(e, "quiet")) /\ UNCHANGED open
    <3>1. CallsKept
      BY <1>1, <2>2, GoKept, FinishKept
    <3> QED
      BY <1>2, <2>2, <3>1
  <2> QED
    BY <1>3, <2>1, <2>2 DEF Dispatch
<1>4. ASSUME NEW e \in Execs, CommitResult(e) PROVE Called(x)'
  <2>1. CASE (Go(e, "error") \/ Finish(e, "quiet")) /\ UNCHANGED open
    <3>1. CallsKept
      BY <1>1, <2>1, GoKept, FinishKept
    <3> QED
      BY <1>2, <2>1, <3>1
  <2>2. CASE Finish(e, "quiet") /\ \E o : open' = [open EXCEPT ![e] = o]
    BY <1>1, <2>2 DEF Called, Finish, Idle, RestOK
  <2> QED
    BY <1>4, <2>1, <2>2 DEF CommitResult
<1> QED
  BY <1>1, <1>2, <1>3, <1>4, NextCalls

LEMMA InitInv == Init => IInv
<1> SUFFICES ASSUME Init PROVE IInv
  OBVIOUS
<1>1. TypeOK
  BY InitType
<1>2. ASSUME NEW e \in Execs
      PROVE  /\ Durable(e) /\ Shows(mem[e], open[e]) /\ CompletedOf(e) /\ Called(e)
             /\ disk[e].st = "absent" => disk[e] = Absent
             /\ \A j, k \in open[e] : j = k
  <2>1. mem[e] = Absent /\ disk[e] = Absent /\ open[e] = {} /\ proc[e] = Idle
    BY DEF Init
  <2>2. Absent.st = "absent" /\ Absent = [Absent EXCEPT !.lease = Absent.lease]
    BY DEF Absent
  <2>3. Idle.pc = "idle"
    BY DEF Idle
  <2> QED
    BY <2>1, <2>2, <2>3 DEF Durable, Shows, CompletedOf, Called
<1> QED
  BY <1>1, <1>2 DEF IInv

LEMMA StepInv == ASSUME IInv, [Next]_vars PROVE IInv'
<1>1. CASE Next
  <2>1. TypeOK /\ TypeOK' /\ StoreMoves /\ Sticky /\ StoreOK'
    BY <1>1, NextStep, NextSticky DEF IInv, StoreMoves, StoreOK, RestOK, TypeOK
  <2>2. ASSUME NEW e \in Execs
        PROVE  /\ Durable(e)' /\ Shows(mem[e], open[e])' /\ CompletedOf(e)' /\ Called(e)'
               /\ (disk[e].st = "absent" => disk[e] = Absent)'
               /\ (\A j, k \in open[e] : j = k)'
    <3>1. Move(e)
      BY <2>1 DEF StoreMoves
    <3>2. Shows(mem[e], open[e])' /\ (\A j, k \in open[e] : j = k)'
      BY <2>1, <3>1, MoveShows
    <3>3. Durable(e)' /\ (disk[e].st = "absent" => disk[e] = Absent)'
      BY <2>1, <3>1, <3>2, MoveDurable
    <3>4. CompletedOf(e)'
      BY <2>1, <3>1, MoveCompleted
    <3>5. Called(e)'
      BY <1>1, NextCalled
    <3> QED
      BY <3>2, <3>3, <3>4, <3>5
  <2> QED
    BY <2>1, <2>2 DEF IInv
<1>2. CASE UNCHANGED vars
  BY <1>2 DEF vars, IInv, TypeOK, Durable, Shows, CompletedOf, Called
<1> QED
  BY <1>1, <1>2

\* The strengthened invariant holds in every reachable state.
THEOREM Inductive == Spec => []IInv
<1>1. IInv /\ [Next]_vars => IInv'
  BY StepInv
<1> QED
  BY <1>1, InitInv, PTL DEF Spec

-----------------------------------------------------------------------------
(* What the invariant gives: the safety properties the runs check.          *)

\* No target is called while an earlier call of the same occurrence is in
\* doubt (_dispatch_may_have_started and the guards that use it).
THEOREM OneCallInDoubt == Spec => []AtMostOneUnsettled
<1>1. IInv => AtMostOneUnsettled
  BY DEF IInv, AtMostOneUnsettled
<1> QED
  BY <1>1, Inductive, PTL

\* The receipt of a call in doubt is on disk for the current attempt
\* (mark_target_dispatch persists before the call).
THEOREM DoubtIsOnDisk == Spec => []EvidenceOnDisk
<1>1. ASSUME IInv PROVE EvidenceOnDisk
  <2> SUFFICES ASSUME NEW e \in Execs, open[e] # {}
               PROVE  disk[e].ratt = disk[e].att /\ MaybeStarted(disk[e])
    BY DEF EvidenceOnDisk
  <2>1. /\ mem[e] \in Record /\ disk[e] \in Record
        /\ Durable(e) /\ Shows(mem[e], open[e])
    BY <1>1 DEF IInv, TypeOK
  <2>2. mem[e] \notin Created
    BY <2>1 DEF Shows, Created, Absent
  <2>3. /\ disk[e].rcpt = mem[e].rcpt
        /\ disk[e].ratt = mem[e].ratt
        /\ disk[e].att = mem[e].att
    BY <2>1, <2>2 DEF Durable, Record
  <2> QED
    BY <2>1, <2>3 DEF Shows, MaybeStarted
<1> QED
  BY <1>1, Inductive, PTL

\* A crash loses no decision of the store (_persist_unlocked and the
\* roll-backs around it).
THEOREM NothingLost == Spec => []CrashLosesNothing
<1>1. IInv => CrashLosesNothing
  BY DEF IInv, CrashLosesNothing
<1> QED
  BY <1>1, Inductive, PTL

\* A completed occurrence is bound to a child that has durably completed
\* (_commit_result, project_workflow_outcome).
THEOREM CompletionIsTheChilds == Spec => []CompletedByChild
<1>1. IInv => CompletedByChild
  BY DEF IInv, CompletedByChild, CompletedOf
<1> QED
  BY <1>1, Inductive, PTL

-----------------------------------------------------------------------------
(* The deadline.                                                            *)

\* What DeadlineFinal says of one step of one record.
KeepsDeadline(m, n) ==
  m.left # Unset =>
    /\ n.left # Unset /\ n.left <= m.left
    /\ m.left = 0 /\ n.st \in {"running", "waiting", "completed"} => n.st = m.st

\* No transition of a record moves a deadline away or acts beyond it.
LEMMA WritableDeadline ==
  ASSUME StoreOK, NEW e \in Execs, NEW r, Writable(e, r), Shows(mem[e], open[e])
  PROVE  KeepsDeadline(mem[e], r)
<1> DEFINE m == mem[e]
<1>1. m \in Record
  BY DEF StoreOK
<1>2. m.left # Unset => m.left \in Int
  BY <1>1 DEF Record
<1>3. CASE r.left = m.left /\ (r.st = m.st
             \/ r.st \notin {"running", "waiting", "completed"} \/ RuntimeRemains(m))
  BY <1>2, <1>3 DEF KeepsDeadline, RuntimeRemains
<1>4. CASE r = m
  BY <1>3, <1>4
<1>5. CASE r = Expire(m) \/ r = MarkUncertain(m)
  <2>1. r = m \/ r.st = "dead_letter"
    BY <1>1, <1>5 DEF Expire, MarkUncertain, ClearLease, Uncertain, Record
  <2>2. CASE r = Expire(m)
    <3>1. r.left = m.left
      BY <1>1, <2>2 DEF Expire, Uncertain, ClearLease, Record
    <3> QED
      BY <1>3, <2>1, <3>1
  <2>3. CASE r = MarkUncertain(m)
    <3>1. r.left = m.left
      BY <1>1, <2>3 DEF MarkUncertain, Uncertain, ClearLease, Record
    <3> QED
      BY <1>3, <2>1, <3>1
  <2> QED
    BY <1>5, <2>2, <2>3
<1>6. CASE r = Cancelled(m) \/ r = WaitExpired(m)
  BY <1>1, <1>3, <1>6 DEF Cancelled, WaitExpired, ClearLease, Record
<1>7. CASE r = Failed(m)
  BY <1>1, <1>3, <1>7 DEF Failed, Uncertain, ClearLease, Record
<1>8. CASE r = Renewed(m)
  BY <1>1, <1>3, <1>8 DEF Renewed, Record
<1>9. CASE m.st = "absent"
  BY <1>9 DEF Shows, Absent, KeepsDeadline
<1>10. CASE ClaimAllowed(m) /\ \E k \in Tokens : r = Claimed(m, k)
  BY <1>1, <1>2, <1>10 DEF ClaimAllowed, RuntimeRemains, Claimed, Record, KeepsDeadline
<1>11. CASE \E reset \in BOOLEAN : r = Retried(m, reset)
  BY <1>1, <1>3, <1>11 DEF Retried, ClearLease, Record
<1>12. CASE RuntimeRemains(m) /\ \E k \in Tokens, o \in Outcome : r = Projected(m, k, o)
  BY <1>1, <1>3, <1>12 DEF Projected, Settle, ClearLease, Record
<1>13. "cancelled" \in Outcome
  BY DEF Outcome
<1> QED
  BY <1>4, <1>5, <1>6, <1>7, <1>8, <1>9, <1>10, <1>11, <1>12, <1>13 DEF Writable

LEMMA MoveDeadline ==
  ASSUME IInv, NEW e \in Execs, Move(e) PROVE KeepsDeadline(mem[e], mem'[e])
<1> DEFINE m == mem[e]
<1>1. /\ StoreOK /\ m \in Record /\ disk[e] \in Record
      /\ Durable(e) /\ Shows(m, open[e])
  BY DEF IInv, TypeOK, StoreOK
<1>2. m.left # Unset => m.left \in Nat /\ m \notin Created /\ m.st # "absent"
  BY <1>1, BoundsAssumption
  DEF BoundsAssumption, Record, Created, Absent, Shows, Unset
<1>3. CASE m'.left = m.left /\ m'.st = m.st
  BY <1>2, <1>3 DEF KeepsDeadline
<1>4. CASE MemoryMove(e)
  <2>1. CASE m' = disk[e] /\ m \notin Created
    BY <1>1, <1>3, <2>1 DEF Durable, Record
  <2>2. CASE m' = Renewed(m)
    BY <1>1, <1>3, <2>2 DEF Renewed, Record
  <2>3. CASE m.left = Unset
    BY <2>3 DEF KeepsDeadline
  <2> QED
    BY <1>2, <1>3, <1>4, <2>1, <2>2, <2>3 DEF MemoryMove
<1>5. CASE AgeMove(e)
  <2>1. m'.left = Dec(m.left) /\ m'.st = m.st
    BY <1>1, <1>5 DEF AgeMove, Aged, Record
  <2> QED
    BY <1>2, <2>1 DEF Dec, KeepsDeadline, Unset
<1>6. CASE WriteMove(e)
  BY <1>1, <1>6, WritableDeadline DEF WriteMove
<1>7. CASE CallMove(e)
  BY <1>1, <1>3, <1>7 DEF CallMove, Dispatched, Record
<1>8. CASE SettleMove(e)
  <2>1. RuntimeRemains(m) /\ \E k \in Tokens, o \in Outcome : m' = Projected(m, k, o)
    BY <1>8 DEF SettleMove
  <2>2. m'.left = m.left
    BY <1>1, <2>1 DEF Projected, Settle, ClearLease, Record
  <2> QED
    BY <1>2, <2>1, <2>2 DEF KeepsDeadline, RuntimeRemains
<1> QED
  BY <1>4, <1>5, <1>6, <1>7, <1>8 DEF Move

\* The runtime deadline never moves away, and beyond it an occurrence neither
\* starts, nor parks, nor completes (_assert_runtime_remaining).
THEOREM DeadlineIsFinal == Spec => DeadlineFinal
<1> DEFINE A == \A e \in Execs : mem[e].left # Unset =>
                  /\ mem'[e].left # Unset /\ mem'[e].left <= mem[e].left
                  /\ mem[e].left = 0 /\ mem'[e].st \in {"running", "waiting", "completed"}
                       => mem'[e].st = mem[e].st
<1>1. ASSUME IInv, Next PROVE A
  <2>1. StoreMoves
    BY <1>1, NextStep DEF IInv
  <2>2. ASSUME NEW e \in Execs PROVE KeepsDeadline(mem[e], mem'[e])
    BY <1>1, <2>1, MoveDeadline DEF StoreMoves
  <2> QED
    BY <2>2 DEF KeepsDeadline
<1>2. IInv /\ [Next]_vars => [A]_vars
  BY <1>1
<1>3. Spec => [][A]_vars
  BY <1>2, Inductive, PTL DEF Spec
<1> QED
  BY <1>3 DEF DeadlineFinal

-----------------------------------------------------------------------------
(* The moves the schedule relies on.                                        *)

\* What StatusMovesOnly says of one step of one record.
KeepsStatus(m, n) ==
  m.st = "absent" \/ Seen(n.st) = Seen(m.st) \/ <<Seen(m.st), Seen(n.st)>> \in Moves

\* The moves, by the statuses the store uses.
LEMMA StatusTable ==
  ASSUME NEW m, NEW n,
         \/ n.st = m.st
         \/ m.st = "absent"
         \/ m.st \in Active /\ n.st \in {"dead_letter", "cancelled"}
         \/ m.st = "pending" /\ n.st = "running"
         \/ m.st = "running" /\ n.st = "pending"
         \/ m.st \in {"running", "waiting"} /\ n.st \in {"waiting", "completed"}
         \/ m.st \in {"dead_letter", "budget_limited", "cancelled"} /\ n.st = "pending"
  PROVE  KeepsStatus(m, n)
BY DEF KeepsStatus, Seen, Moves, Active, Retriable

\* An outcome that is projected parks, completes or ends the parent.
LEMMA ProjectedStatus ==
  ASSUME NEW m \in Record, NEW n, m.st \in {"running", "waiting"},
         \E k \in Tokens, o \in Outcome : n = Projected(m, k, o)
  PROVE  KeepsStatus(m, n)
<1>1. n.st \in {"waiting", "completed", "dead_letter", "cancelled"}
  <2>1. PICK k \in Tokens, o \in Outcome : n = Projected(m, k, o)
    OBVIOUS
  <2>. DEFINE settled == IF o = "cancelled" THEN m ELSE Settle(m)
  <2>2. settled \in Record
    BY DEF Settle, Record, Phase
  <2>. HIDE DEF settled
  <2>3. n.st = IF o = "timer" THEN "dead_letter" ELSE o
    BY <2>1, <2>2 DEF Projected, ClearLease, Record, settled
  <2>4. QED
    BY <2>3 DEF Outcome
<1>2. QED
  BY <1>1, StatusTable DEF Active

\* No transition of a record leaves the table.
LEMMA WritableStatus ==
  ASSUME StoreOK, NEW e \in Execs, NEW r, Writable(e, r)
  PROVE  KeepsStatus(mem[e], r)
<1>. DEFINE m == mem[e]
<1>1. m \in Record
  BY DEF StoreOK
<1>2. CASE r = m
  BY <1>2, StatusTable
<1>3. CASE r = Expire(m)
  <2>1. r = m \/ (MustExpire(m) /\ r.st = "dead_letter")
    BY <1>1, <1>3 DEF Expire, ClearLease, Uncertain, Record
  <2>2. r.st = m.st \/ (m.st \in Active /\ r.st = "dead_letter")
    BY <2>1 DEF MustExpire, Expirable
  <2>3. QED
    BY <2>2, StatusTable
<1>4. CASE r = MarkUncertain(m)
  <2>1. r = m \/ (IsClaimable(m) /\ r.st = "dead_letter")
    BY <1>1, <1>4 DEF MarkUncertain, UncertainDue, ClearLease, Uncertain, Record
  <2>2. r.st = m.st \/ (m.st \in Active /\ r.st = "dead_letter")
    BY <2>1 DEF IsClaimable, Active
  <2>3. QED
    BY <2>2, StatusTable
<1>5. CASE m.st \in Active /\ (r = Cancelled(m) \/ r = WaitExpired(m))
  <2>1. r.st \in {"dead_letter", "cancelled"}
    BY <1>1, <1>5 DEF Cancelled, WaitExpired, ClearLease, Record
  <2>2. QED
    BY <1>5, <2>1, StatusTable
<1>6. CASE m.st = "running" /\ r = Failed(m)
  <2>1. r.st \in {"pending", "dead_letter"}
    BY <1>1, <1>6 DEF Failed, ClearLease, Uncertain, Record
  <2>2. QED
    BY <1>6, <2>1, StatusTable DEF Active
<1>7. CASE r = Renewed(m)
  BY <1>1, <1>7, StatusTable DEF Renewed, Record
<1>8. CASE m.st = "absent"
  BY <1>8, StatusTable
<1>9. CASE ClaimAllowed(m) /\ \E k \in Tokens : r = Claimed(m, k)
  <2>1. m.st \in {"pending", "running"} /\ r.st = "running"
    BY <1>1, <1>9 DEF ClaimAllowed, IsClaimable, Claimed, Record
  <2>2. QED
    BY <2>1, StatusTable
<1>10. CASE RetryAllowed(m) /\ \E reset \in BOOLEAN : r = Retried(m, reset)
  <2>1. m.st \in {"dead_letter", "budget_limited", "cancelled"} /\ r.st = "pending"
    BY <1>1, <1>10 DEF RetryAllowed, Retried, ClearLease, Record
  <2>2. QED
    BY <2>1, StatusTable
<1>11. CASE /\ m.st \in {"running", "waiting"}
            /\ \E k \in Tokens, o \in Outcome : r = Projected(m, k, o)
  BY <1>1, <1>11, ProjectedStatus
<1>12. "cancelled" \in Outcome /\ "waiting" \in Active
  BY DEF Outcome, Active
<1>13. QED
  BY <1>2, <1>3, <1>4, <1>5, <1>6, <1>7, <1>8, <1>9, <1>10, <1>11, <1>12 DEF Writable

\* A record moves along the table, or the store goes back to the snapshot.
LEMMA MoveStatus ==
  ASSUME StoreOK, NEW e \in Execs, Move(e), mem' # disk
  PROVE  KeepsStatus(mem[e], mem'[e])
<1>. DEFINE m == mem[e]
<1>1. m \in Record
  BY DEF StoreOK
<1>2. CASE MemoryMove(e)
  <2>1. \/ m.st = "absent" \/ m' = m \/ m' = Renewed(m)
    BY <1>2 DEF MemoryMove
  <2>2. m.st = "absent" \/ m'.st = m.st
    BY <1>1, <2>1 DEF Renewed, Record
  <2>3. QED
    BY <2>2, StatusTable
<1>3. CASE AgeMove(e)
  <2>1. m'.st = m.st
    BY <1>1, <1>3 DEF AgeMove, Aged, Record
  <2>2. QED
    BY <2>1, StatusTable
<1>4. CASE WriteMove(e)
  BY <1>4, WritableStatus DEF WriteMove
<1>5. CASE CallMove(e)
  <2>1. m'.st = m.st
    BY <1>1, <1>5 DEF CallMove, Dispatched, Record
  <2>2. QED
    BY <2>1, StatusTable
<1>6. CASE SettleMove(e)
  <2>1. m.st = "running" /\ \E k \in Tokens, o \in Outcome : m' = Projected(m, k, o)
    BY <1>6 DEF SettleMove, Owns
  <2>2. QED
    BY <1>1, <2>1, ProjectedStatus
<1>7. QED
  BY <1>2, <1>3, <1>4, <1>5, <1>6 DEF Move

\* Executions move between statuses only as the schedule assumes, unless a
\* crash takes them back to the snapshot (AutomationStore's transitions).
THEOREM MovesAsScheduled == Spec => StatusMovesOnly
<1>. DEFINE A == \/ mem' = disk
                 \/ \A e \in Execs :
                      LET before == Seen(mem[e].st)
                          after == Seen(mem'[e].st)
                      IN mem[e].st = "absent" \/ after = before \/ <<before, after>> \in Moves
<1>1. ASSUME TypeOK, Next PROVE A
  <2>1. StoreMoves /\ StoreOK
    BY <1>1, NextStep DEF TypeOK, StoreOK
  <2>2. ASSUME mem' # disk, NEW e \in Execs PROVE KeepsStatus(mem[e], mem'[e])
    BY <2>1, <2>2, MoveStatus DEF StoreMoves
  <2>3. QED
    BY <2>2 DEF KeepsStatus
<1>2. TypeOK /\ [Next]_vars => [A]_vars
  BY <1>1
<1>3. Spec => [][A]_vars
  BY <1>2, TypeCorrect, PTL DEF Spec
<1>4. QED
  BY <1>3 DEF StatusMovesOnly

-----------------------------------------------------------------------------
(* The refinement of AutomationPromise.                                     *)

\* What a write may do to the view of a record whose calls in doubt are o.
ViewStep(v, w, o) ==
  \/ w = v
  \/ v = "none" /\ w \in {"live", "closed"}
  \/ v \in {"live", "parked"} /\ w = "closed"
  \/ v = "parked" /\ w = "completed"
  \/ v = "closed" /\ w = "live" /\ o = {}

LEMMA WritableView ==
  ASSUME StoreOK, NEW e \in Execs, NEW r, Writable(e, r), Shows(mem[e], open[e])
  PROVE  ViewStep(View(mem[e]), View(r), open[e])
<1> DEFINE m == mem[e]
<1>1. m \in Record
  BY DEF StoreOK
<1>2. ASSUME r.st = m.st PROVE ViewStep(View(m), View(r), open[e])
  BY <1>2 DEF View, ViewStep
<1>3. ASSUME m.st \in Active \cup {"dead_letter"}, r.st \in {"dead_letter", "cancelled"}
      PROVE  ViewStep(View(m), View(r), open[e])
  BY <1>3 DEF View, ViewStep, Active
<1>4. CASE r = Expire(m)
  <2>1. CASE MustExpire(m)
    BY <1>1, <1>3, <1>4, <2>1
    DEF Expire, MustExpire, Expirable, Uncertain, ClearLease, Record
  <2>2. CASE ~MustExpire(m)
    BY <1>2, <1>4, <2>2 DEF Expire
  <2> QED
    BY <2>1, <2>2
<1>5. CASE r = MarkUncertain(m)
  <2>1. CASE UncertainDue(m)
    BY <1>1, <1>3, <1>5, <2>1
    DEF MarkUncertain, UncertainDue, IsClaimable, Uncertain, ClearLease, Record, Active
  <2>2. CASE ~UncertainDue(m)
    BY <1>2, <1>5, <2>2 DEF MarkUncertain
  <2> QED
    BY <2>1, <2>2
<1>6. CASE m.st \in Active /\ (r = Cancelled(m) \/ r = WaitExpired(m))
  BY <1>1, <1>3, <1>6 DEF Cancelled, WaitExpired, ClearLease, Record
<1>7. CASE m.st = "running" /\ r = Failed(m)
  <2>1. r.st \in {"pending", "dead_letter"}
    BY <1>1, <1>7 DEF Failed, Uncertain, ClearLease, Record
  <2> QED
    BY <1>7, <2>1 DEF View, ViewStep
<1>8. CASE r = Renewed(m)
  BY <1>1, <1>2, <1>8 DEF Renewed, Record
<1>9. CASE m.st = "absent" /\ r \in Created
  <2>1. r.st \in {"pending", "skipped", "budget_limited"}
    BY <1>9 DEF Created, Absent
  <2> QED
    BY <1>9, <2>1 DEF View, ViewStep
<1>10. CASE ClaimAllowed(m) /\ \E k \in Tokens : r = Claimed(m, k)
  <2>1. m.st \in {"pending", "running"} /\ r.st = "running"
    BY <1>1, <1>10 DEF ClaimAllowed, IsClaimable, Claimed, Record
  <2> QED
    BY <2>1 DEF View, ViewStep
<1>11. CASE RetryAllowed(m) /\ \E reset \in BOOLEAN : r = Retried(m, reset)
  <2>1. open[e] = {}
    BY <1>1, <1>11, DoubtShows
  <2>2. m.st \in {"dead_letter", "budget_limited", "cancelled"} /\ r.st = "pending"
    BY <1>1, <1>11 DEF RetryAllowed, Retried, ClearLease, Record
  <2> QED
    BY <2>1, <2>2 DEF View, ViewStep
<1>12. CASE m.st = "running" /\ \E k \in Tokens : r = Projected(m, k, "cancelled")
  BY <1>1, <1>3, <1>12 DEF Projected, ClearLease, Record, Active
<1>13. CASE m.st = "waiting" /\ \E k \in Tokens, o \in Outcome : r = Projected(m, k, o)
  <2>1. r.st \in {"dead_letter", "waiting", "completed", "cancelled"}
    BY <1>1, <1>13 DEF Projected, Settle, ClearLease, Record, Outcome
  <2> QED
    BY <1>13, <2>1 DEF View, ViewStep
<1> QED
  BY <1>2, <1>4, <1>5, <1>6, <1>7, <1>8, <1>9, <1>10, <1>11, <1>12, <1>13
  DEF Writable, Active

\* What is built on a creation whose write failed.
LEMMA CreatedView ==
  ASSUME StoreOK, NEW e \in Execs, NEW r, Writable(e, r), mem[e] \in Created
  PROVE  View(r) \in {"live", "closed"}
<1> DEFINE m == mem[e]
<1>1. /\ m \in Record
      /\ m.st \in {"pending", "skipped", "budget_limited"}
      /\ m.rcpt = "none" /\ m.att = 0 /\ m.left = Unset
  BY DEF StoreOK, Created, Absent
<1>2. Expire(m) = m /\ MarkUncertain(m) = m
  BY <1>1 DEF Expire, MustExpire, MarkUncertain, UncertainDue, MaybeStarted, Unset
<1>3. CASE r = m
  BY <1>1, <1>3 DEF View
<1>4. CASE r = Cancelled(m)
  BY <1>1, <1>4 DEF View, Cancelled, ClearLease, Record
<1>5. CASE \E k \in Tokens : r = Claimed(m, k)
  BY <1>1, <1>5 DEF View, Claimed, Record
<1>6. CASE \E reset \in BOOLEAN : r = Retried(m, reset)
  BY <1>1, <1>6 DEF View, Retried, ClearLease, Record
<1> QED
  BY <1>1, <1>2, <1>3, <1>4, <1>5, <1>6 DEF Writable

\* Every move of a record is a step of its promise.
LEMMA MovePromise ==
  ASSUME IInv, NEW e \in Execs, Move(e) PROVE Promise!Step(e)
<1> DEFINE m == mem[e]
           v == View(disk[e])
           o == open[e]
<1>1. /\ StoreOK /\ m \in Record /\ disk[e] \in Record
      /\ Durable(e) /\ Shows(m, o) /\ Called(e)
  BY DEF IInv, TypeOK, StoreOK
<1>2. ASSUME v' = v, o' = o PROVE Promise!Step(e)
  BY <1>2 DEF Promise!Step, Promise!Same
<1>3. v = View(m) \/ (v = "none" /\ m \in Created)
  <2>1. CASE disk[e] = [m EXCEPT !.lease = disk[e].lease]
    <3>1. disk[e].st = m.st
      BY <1>1, <2>1 DEF Record
    <3> QED
      BY <3>1 DEF View
  <2>2. CASE disk[e] = Absent /\ m \in Created
    BY <2>2 DEF View, Absent
  <2> QED
    BY <1>1, <2>1, <2>2 DEF Durable
<1>4. CASE MemoryMove(e)
  BY <1>2, <1>4 DEF MemoryMove
<1>5. CASE AgeMove(e)
  BY <1>1, <1>2, <1>5 DEF AgeMove, Aged, View, Record
<1>6. CASE WriteMove(e)
  <2>1. v' = View(m') /\ o' = o /\ Writable(e, m')
    BY <1>6 DEF WriteMove
  <2>2. ASSUME ViewStep(v, v', o) PROVE Promise!Step(e)
    BY <2>1, <2>2
    DEF ViewStep, Promise!Step, Promise!Same, Promise!Make, Promise!Abandon,
        Promise!Answer, Promise!Reopen
  <2>3. CASE v = View(m)
    BY <1>1, <2>1, <2>2, <2>3, WritableView
  <2>4. CASE v # View(m)
    <3>1. v = "none" /\ m \in Created
      BY <1>3, <2>4
    <3>2. v' \in {"live", "closed"}
      BY <1>1, <2>1, <3>1, CreatedView
    <3> QED
      BY <2>2, <3>1, <3>2 DEF ViewStep
  <2> QED
    BY <2>3, <2>4
<1>7. CASE CallMove(e)
  <2>1. PICK k \in Tokens : /\ DispatchAllowed(m, k)
                            /\ disk'[e] = Dispatched(m)
                            /\ o' = o \cup {k}
    BY <1>7 DEF CallMove
  <2>2. m.st = "running" /\ m \notin Created
    BY <2>1 DEF DispatchAllowed, Owns, Created, Absent
  <2>3. o = {}
    BY <1>1, <2>1, DoubtShows DEF DispatchAllowed
  <2>4. v = "live" /\ v' = "live"
    BY <1>1, <1>3, <2>1, <2>2 DEF View, Dispatched, Record
  <2> QED
    BY <2>1, <2>3, <2>4 DEF Promise!Step, Promise!Call
<1>8. CASE SettleMove(e)
  <2>1. PICK k \in Tokens, x \in Outcome \ {"cancelled"} :
          /\ Owns(m, k) /\ proc[e].pc = "returned" /\ proc[e].tok = k
          /\ disk'[e] = Projected(m, k, x)
          /\ o' = o \ {k}
    BY <1>8 DEF SettleMove
  <2>2. m.st = "running" /\ m \notin Created
    BY <2>1 DEF Owns, Created, Absent
  <2>3. o = {k}
    BY <1>1, <2>1 DEF Owns, Shows, Called
  <2>4. disk'[e].st = IF x = "timer" THEN "dead_letter" ELSE x
    BY <1>1, <2>1 DEF Projected, Settle, ClearLease, Record
  <2>5. v = "live" /\ v' \in {"parked", "completed", "closed"}
    BY <1>3, <2>2, <2>4 DEF View, Outcome
  <2> QED
    BY <2>1, <2>3, <2>5 DEF Promise!Step, Promise!Settle
<1> QED
  BY <1>4, <1>5, <1>6, <1>7, <1>8 DEF Move

\* What is on disk, with the calls in doubt, implements AutomationPromise:
\* for every set of executions and every bound, through crashes, failed
\* writes, timeouts, cancellations and retries.
THEOREM PromiseKept == Spec => KeepsPromise
<1> DEFINE pv == <<[e \in Execs |-> View(disk[e])], open>>
<1>1. Init => Promise!Init
  BY DEF Init, Promise!Init, View, Absent
<1>2. ASSUME IInv, [Next]_vars PROVE [Promise!Next]_pv
  <2>1. CASE Next
    <3>1. StoreMoves
      BY <1>2, <2>1, NextStep DEF IInv
    <3>2. \A e \in Execs : Promise!Step(e)
      BY <1>2, <3>1, MovePromise DEF StoreMoves
    <3> QED
      BY <3>2 DEF Promise!Next
  <2>2. CASE UNCHANGED vars
    BY <2>2 DEF vars
  <2> QED
    BY <1>2, <2>1, <2>2
<1> QED
  BY <1>1, <1>2, Inductive, PTL DEF Spec, KeepsPromise, Promise!Spec

=============================================================================
