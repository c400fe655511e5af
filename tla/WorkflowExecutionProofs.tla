----------------------- MODULE WorkflowExecutionProofs -----------------------
(***************************************************************************)
(* Proofs about WorkflowExecution, for every workflow and every bound: its *)
(* types, SeenIsDurable, AloneUnlessTimer, CancellationReached,            *)
(* ResumedAfterChild and the refinement of ExecutionPromise.               *)
(*                                                                         *)
(* The types come first (Typed).  Then each step is classified by what it  *)
(* does to the execution and its workers (StepKinds), to the handoffs      *)
(* (StepSettles) and to the two conversations about them (StepAside), and  *)
(* the invariants Core and Around are shown for each class.                *)
(***************************************************************************)
EXTENDS WorkflowExecution, TLAPS

\* What the steps keep of the types beyond TypeOK: a wait is one of the workflow's
\* nodes, and a worker asks for nothing behind the last of them.
Shape ==
  /\ mem.st = "waiting" => mem.at # 0
  /\ disk.st = "waiting" => disk.at # 0
  /\ \A k \in Tokens : worker[k].pc = "asked" => worker[k].from < MaxWaits

Typed == TypeOK /\ Shape

\* The effect of a write.
LEMMA PutEffect ==
  ASSUME TypeOK, NEW e \in Execution, Put(e)
  PROVE  /\ available /\ mem' = e /\ disk' \in {disk, e}
         /\ available' \in BOOLEAN /\ (available' => disk' = e)
         /\ faults' \in 0..MaxFaults
<1>1. faults \in 0..MaxFaults /\ MaxFaults \in Nat
  BY WaitAssumption DEF TypeOK
<1>2. faults' \in 0..MaxFaults
  <2>1. faults' = faults \/ (faults < MaxFaults /\ faults' = faults + 1)
    BY Zenon DEF Put, Saved, WriteFails, NoFault, Fault
  <2>2. QED BY <1>1, <2>1
<1>3. available \in BOOLEAN
  BY DEF TypeOK
<1>4. CASE Saved(e)
  BY <1>2, <1>3, <1>4, Zenon DEF Saved
<1>5. CASE WriteFails(e)
  BY <1>2, <1>5, Zenon DEF WriteFails
<1>6. QED BY <1>4, <1>5, Zenon DEF Put

LEMMA KeptEffect ==
  ASSUME TypeOK, Kept
  PROVE  /\ mem' = mem /\ disk' = disk /\ available' = available
         /\ faults' \in 0..MaxFaults
BY DEF Kept, NoFault, TypeOK

LEMMA FaultEffect ==
  ASSUME TypeOK, Fault
  PROVE  faults' \in 0..MaxFaults
<1>. MaxFaults \in Nat
  BY WaitAssumption
<1>. QED
  BY DEF Fault, TypeOK

\* What is written: the status and the lease, and the wait with them.
Status == {"running", "waiting", "ready"} \cup Terminal

LEMMA NoLease == None \in Tokens
BY WaitAssumption DEF None, Tokens

Edit(x, s, t) == [x EXCEPT !.st = s, !.tok = t]
Wait(x, w) == [x EXCEPT !.st = "waiting", !.at = w, !.tok = None]

LEMMA EditTyped ==
  ASSUME NEW x \in Execution, NEW s \in Status, NEW t \in Tokens
  PROVE  /\ Edit(x, s, t) \in Execution
         /\ Edit(x, s, t).st = s /\ Edit(x, s, t).tok = t
         /\ Edit(x, s, t).at = x.at /\ Edit(x, s, t).pending = x.pending
BY DEF Edit, Execution, Status

LEMMA WaitTyped ==
  ASSUME NEW x \in Execution, NEW w \in Waits
  PROVE  /\ Wait(x, w) \in Execution
         /\ Wait(x, w).st = "waiting" /\ Wait(x, w).tok = None
         /\ Wait(x, w).at = w /\ Wait(x, w).pending = x.pending
<1>. w \in 0..MaxWaits
  BY WaitAssumption DEF Waits
<1>. QED
  BY NoLease DEF Wait, Execution, Status

\* Claims, whichever loop makes it.
LEMMA ClaimsTyped ==
  ASSUME Typed, NEW k \in Tokens, Claims(k),
         UNCHANGED <<approvals, handoffs, overdue, calls, reopens>>,
         pass' = pass \/ pass' = NoPass, recon' = recon
  PROVE  Typed'
<1>. DEFINE e == Edit(mem, "running", k)
<1>1. e \in Execution /\ e.st = "running"
  BY EditTyped DEF Typed, TypeOK, Status
<1>2. Put(e)
  BY DEF Claims, Put, Edit
<1>. HIDE DEF e
<1>3. /\ mem' = e /\ disk' \in {disk, e} /\ available' \in BOOLEAN /\ faults' \in 0..MaxFaults
  BY <1>1, <1>2, PutEffect DEF Typed
<1>4. worker' = worker \/ worker' = [worker EXCEPT ![k] = [pc |-> "claimed", from |-> mem.at]]
  BY DEF Claims, Starts
<1>5. e \in Execution /\ e.st = "running" /\ mem.at \in 0..MaxWaits
  BY <1>1 DEF Typed, TypeOK, Execution
<1>6. /\ worker' \in [Tokens -> [pc : {"idle", "claimed", "running", "called", "asked"},
                            from : 0..MaxWaits]]
      /\ \A j \in Tokens : worker'[j].pc = "asked" => worker'[j].from < MaxWaits
  BY <1>4, <1>5 DEF Typed, TypeOK, Shape
<1>7. claims' \in 0..MaxClaims /\ leased' \in BOOLEAN
  BY WaitAssumption DEF Claims, Tokens, Typed, TypeOK
<1>8. pass' \in [pc : {"idle", "expire", "sweep", "mark", "claim"}, goal : {"mark", "claim"},
               of : {None} \cup Waits]
  BY DEF NoPass, Typed, TypeOK
<1>9. QED
  BY <1>3, <1>5, <1>6, <1>7, <1>8 DEF Typed, TypeOK, Shape, approvals, handoffs

\* A worker that leaves or goes on keeps the type of the workers.
LEMMA WorkerTyped ==
  ASSUME Typed, NEW k \in Tokens,
         \/ Ends(k) \/ UNCHANGED worker
         \/ \E pc \in {"idle", "claimed", "running", "called"} : Goes(k, pc)
         \/ Goes(k, "asked") /\ worker[k].from < MaxWaits
  PROVE  /\ worker' \in [Tokens -> [pc : {"idle", "claimed", "running", "called", "asked"},
                                    from : 0..MaxWaits]]
         /\ \A j \in Tokens : worker'[j].pc = "asked" => worker'[j].from < MaxWaits
BY WaitAssumption DEF Typed, TypeOK, Shape, Ends, Goes, NoWorker

\* What Loses writes.
LEMMA LosesTyped ==
  ASSUME Typed, NEW k \in Tokens, Loses(k)
  PROVE  /\ mem' \in Execution /\ disk' \in Execution /\ available' \in BOOLEAN
         /\ faults' \in 0..MaxFaults
         /\ mem'.st = "waiting" => mem'.at # 0
         /\ disk'.st = "waiting" => disk'.at # 0
<1>. DEFINE e == Edit(mem, "ready", None)
<1>1. e \in Execution /\ e.st = "ready"
  BY NoLease, EditTyped DEF Typed, TypeOK, Status
<1>2. Put(e) \/ Kept
  BY DEF Loses, Edit
<1>. HIDE DEF e
<1>3. CASE Put(e)
  BY <1>1, <1>3, PutEffect DEF Typed, TypeOK, Shape
<1>4. CASE Kept
  BY <1>4, KeptEffect DEF Typed, TypeOK, Shape
<1>5. QED BY <1>2, <1>3, <1>4

LEMMA WorkTyped ==
  ASSUME Typed, NEW k \in Tokens, Work(k)
  PROVE  Typed'
<1>1. CASE Begin(k)
  <2>1. Ends(k) \/ Goes(k, "running")
    BY <1>1 DEF Begin
  <2>2. QED
    BY <1>1, <2>1, WorkerTyped, KeptEffect
    DEF Begin, Typed, TypeOK, Shape, approvals, handoffs, coordinator
<1>2. CASE Call(k)
  <2>1. calls' \in [Waits -> Nat]
    <3>1. worker[k].from \in Waits
      BY <1>2, WaitAssumption DEF Call, From, Waits, Typed, TypeOK
    <3>2. calls' = [calls EXCEPT ![worker[k].from] = calls[worker[k].from] + 1]
      BY <1>2 DEF Call
    <3>3. QED BY <3>1, <3>2 DEF Typed, TypeOK
  <2>2. QED
    BY <1>2, <2>1, WorkerTyped, KeptEffect
    DEF Call, Typed, TypeOK, Shape, approvals, handoffs, coordinator
<1>3. CASE Ask(k)
  <2>. DEFINE w == worker[k].from + 1
  <2>1. w \in Waits /\ worker[k].from < MaxWaits
    BY <1>3, WaitAssumption DEF Ask, Typed, TypeOK, Waits
  <2>2. /\ Ends(k) \/ Goes(k, "asked")
        /\ UNCHANGED <<mem, disk, available>> /\ faults' \in 0..MaxFaults
    BY <1>3, FaultEffect, KeptEffect DEF Ask, NoFault, Typed, TypeOK
  <2>3. /\ approval' \in [Waits -> ApprovalStatus] /\ filed' \in [Waits -> ApprovalStatus]
        /\ handoff' \in [Waits -> HandoffStatus]
    <3>1. CASE KindOf[w] = "approval" /\ approval[w] \notin {"pending", "decided"}
      <4>1. approval' = [approval EXCEPT ![w] = "pending"] /\ filed' \in {filed, approval'}
            /\ handoff' = handoff
        BY <1>3, <3>1 DEF Ask, Filed, Unfiled
      <4>2. QED BY <2>1, <4>1 DEF Typed, TypeOK, ApprovalStatus
    <3>2. CASE ~(KindOf[w] = "approval" /\ approval[w] \notin {"pending", "decided"})
      <4>1. UNCHANGED <<approval, filed>>
            /\ (handoff' = handoff \/ handoff' = [handoff EXCEPT ![w] = "open"])
        BY <1>3, <3>2 DEF Ask, approvals
      <4>2. QED BY <2>1, <4>1 DEF Typed, TypeOK, HandoffStatus, WaitStatus
    <3>3. QED BY <3>1, <3>2
  <2>4. UNCHANGED <<leased, child, requeued, overdue, pass, recon, calls, claims, reopens>>
    BY <1>3 DEF Ask, coordinator
  <2>5. QED
    BY <2>1, <2>2, <2>3, <2>4, WorkerTyped DEF Typed, TypeOK, Shape
<1>4. CASE Suspend(k)
  <2>. DEFINE w == worker[k].from + 1
              e == Wait(mem, w)
  <2>1. w \in Waits /\ w # 0
    BY <1>4, WaitAssumption DEF Suspend, Typed, TypeOK, Shape, Waits
  <2>2. e \in Execution /\ e.at # 0
    BY <2>1, WaitTyped DEF Typed, TypeOK
  <2>. HIDE DEF e, w
  <2>3. UNCHANGED <<leased, approval, filed, handoff, child, requeued, pass, recon, calls, claims, reopens>>
    BY <1>4 DEF Suspend, approvals, handoffs, coordinator
  <2>4. CASE Owner(k)
    <3>1. Put(e) /\ overdue' = overdue \ {w} /\ Ends(k)
      BY <1>4, <2>4 DEF Suspend, e, w, Wait
    <3>2. QED
      BY <2>2, <2>3, <3>1, WorkerTyped, PutEffect DEF Typed, TypeOK, Shape
  <2>5. CASE ~Owner(k)
    <3>1. Loses(k) /\ UNCHANGED overdue
      BY <1>4, <2>5 DEF Suspend
    <3>2. QED
      BY <2>3, <3>1, WorkerTyped, LosesTyped DEF Loses, Typed, TypeOK, Shape
  <2>6. QED BY <2>4, <2>5
<1>5. ASSUME NEW st \in {"completed", "failed"}, Finish(k, st) PROVE Typed'
  <2>. DEFINE e == Edit(mem, st, None)
  <2>1. e \in Execution /\ e.st # "waiting"
    <3>1. st \in Status /\ st # "waiting" /\ mem \in Execution
      BY DEF Status, Terminal, Typed, TypeOK
    <3>2. QED BY <3>1, NoLease, EditTyped
  <2>. HIDE DEF e
  <2>2. UNCHANGED <<leased, approval, filed, handoff, child, requeued, overdue, pass, recon, calls, claims, reopens>>
    BY <1>5 DEF Finish, approvals, handoffs, coordinator
  <2>3. CASE Owner(k)
    <3>1. Put(e) /\ Ends(k)
      BY <1>5, <2>3 DEF Finish, e, Edit
    <3>2. QED
      BY <2>1, <2>2, <3>1, WorkerTyped, PutEffect DEF Typed, TypeOK, Shape
  <2>4. CASE ~Owner(k)
    <3>1. Loses(k)
      BY <1>5, <2>4 DEF Finish
    <3>2. QED
      BY <2>2, <3>1, WorkerTyped, LosesTyped DEF Loses, Typed, TypeOK, Shape
  <2>5. QED BY <2>3, <2>4
<1>6. QED
  BY <1>1, <1>2, <1>3, <1>4, <1>5 DEF Work

LEMMA CancelledTyped ==
  ASSUME NEW x \in Execution
  PROVE  /\ Cancelled(x) \in Execution
         /\ Cancelled(x).st = "cancelled" /\ Cancelled(x).tok = None
         /\ Cancelled(x).at = x.at
         /\ Cancelled(x).pending =
              IF x.at # 0 /\ KindOf[x.at] = "agent_handoff" THEN x.at ELSE None
<1>. x.at \in 0..MaxWaits /\ (x.at # 0 => x.at \in Waits)
  BY WaitAssumption DEF Execution, Waits
<1>. QED
  BY NoLease DEF Cancelled, Execution, Terminal

LEMMA ReadyTyped ==
  ASSUME NEW w, mem \in Execution
  PROVE  /\ Ready(w) \in Execution /\ Ready(w).st = "ready"
         /\ Ready(w).at = mem.at /\ Ready(w).tok = mem.tok /\ Ready(w).pending = mem.pending
BY DEF Ready, Execution

LEMMA RecoveredTyped ==
  ASSUME NEW x \in Execution
  PROVE  /\ Recovered(x) \in Execution
         /\ Recovered(x).at = x.at /\ Recovered(x).pending = x.pending
         /\ Recovered(x).st # "running"
         /\ x.st # "running" => Recovered(x) = x
         /\ x.st = "running" => Recovered(x).st \in {"ready", "waiting"}
         /\ Recovered(x).st = "waiting" => x.st = "waiting" \/ x.at # 0
BY NoLease DEF Recovered, Execution, Terminal

\* Writes and passes of the loops that leave the workers alone.
LEMMA PutTyped ==
  ASSUME Typed, NEW e \in Execution, e.st = "waiting" => e.at # 0, Put(e) \/ Kept
  PROVE  /\ mem' \in Execution /\ disk' \in Execution /\ available' \in BOOLEAN
         /\ faults' \in 0..MaxFaults
         /\ mem'.st = "waiting" => mem'.at # 0
         /\ disk'.st = "waiting" => disk'.at # 0
<1>1. CASE Put(e)
  BY <1>1, PutEffect DEF Typed, TypeOK, Shape
<1>2. CASE Kept
  BY <1>2, KeptEffect DEF Typed, TypeOK, Shape
<1>3. QED BY <1>1, <1>2

LEMMA ApprovalsTyped ==
  ASSUME Typed, NEW w \in Waits, NEW st \in ApprovalStatus, Filed(w, st) \/ Unfiled(w, st)
  PROVE  approval' \in [Waits -> ApprovalStatus] /\ filed' \in [Waits -> ApprovalStatus]
BY DEF Filed, Unfiled, Typed, TypeOK

\* Requests about an approval, and the cancellation of the execution.
LEMMA RequestTyped ==
  ASSUME Typed, NEW w \in Waits,
         Decide(w) \/ ExpireApproval(w) \/ Reopen(w) \/ CancelApproval(w)
  PROVE  Typed'
<1>0. mem \in Execution
  BY DEF Typed, TypeOK
<1>1. CASE Decide(w)
  <2>1. Put(Ready(w)) \/ Kept \/ (Fault /\ UNCHANGED <<mem, disk, available>>)
    BY <1>1 DEF Decide
  <2>2. /\ mem' \in Execution /\ disk' \in Execution /\ available' \in BOOLEAN
        /\ faults' \in 0..MaxFaults
        /\ mem'.st = "waiting" => mem'.at # 0
        /\ disk'.st = "waiting" => disk'.at # 0
    <3>1. Ready(w) \in Execution /\ Ready(w).st = "ready"
      BY <1>0, ReadyTyped
    <3>2. CASE Put(Ready(w)) \/ Kept
      BY <3>1, <3>2, PutTyped
    <3>3. CASE Fault /\ UNCHANGED <<mem, disk, available>>
      BY <3>3, FaultEffect DEF Typed, TypeOK, Shape
    <3>4. QED BY <2>1, <3>2, <3>3
  <2>3. approval' \in [Waits -> ApprovalStatus] /\ filed' \in [Waits -> ApprovalStatus]
    BY <1>1, ApprovalsTyped DEF Decide, ApprovalStatus
  <2>4. UNCHANGED <<leased, handoff, child, requeued, overdue, worker, pass, recon, calls, claims, reopens>>
    BY <1>1 DEF Decide, handoffs, coordinator
  <2>5. QED BY <2>2, <2>3, <2>4 DEF Typed, TypeOK, Shape
<1>2. CASE ExpireApproval(w)
  <2>1. approval' \in [Waits -> ApprovalStatus] /\ filed' \in [Waits -> ApprovalStatus]
    BY <1>2, ApprovalsTyped DEF ExpireApproval, ApprovalStatus
  <2>2. UNCHANGED <<leased, handoff, child, requeued, overdue, worker, pass, recon, calls, claims, reopens>>
    BY <1>2 DEF ExpireApproval, handoffs, coordinator
  <2>3. Kept
    BY <1>2 DEF ExpireApproval
  <2>4. QED BY <2>1, <2>2, <2>3, KeptEffect DEF Typed, TypeOK, Shape
<1>3. CASE Reopen(w)
  <2>1. approval' \in [Waits -> ApprovalStatus] /\ filed' \in [Waits -> ApprovalStatus]
    BY <1>3, ApprovalsTyped DEF Reopen, ApprovalStatus
  <2>2. UNCHANGED <<mem, disk, available, leased, handoff, child, requeued, overdue, worker, pass, recon,
                    calls, claims>>
    BY <1>3 DEF Reopen, handoffs, coordinator
  <2>3. faults' \in 0..MaxFaults
    BY <1>3, FaultEffect DEF Reopen, NoFault, Typed, TypeOK
  <2>4. reopens' \in 0..MaxReopens
    BY <1>3, WaitAssumption DEF Reopen, Typed, TypeOK
  <2>5. QED BY <2>1, <2>2, <2>3, <2>4 DEF Typed, TypeOK, Shape
<1>4. CASE CancelApproval(w)
  <2>1. Put(Cancelled(mem)) \/ Kept \/ (Fault /\ UNCHANGED <<mem, disk, available>>)
    BY <1>4 DEF CancelApproval
  <2>2. /\ mem' \in Execution /\ disk' \in Execution /\ available' \in BOOLEAN
        /\ faults' \in 0..MaxFaults
        /\ mem'.st = "waiting" => mem'.at # 0
        /\ disk'.st = "waiting" => disk'.at # 0
    <3>1. Cancelled(mem) \in Execution /\ Cancelled(mem).st = "cancelled"
      BY <1>0, CancelledTyped
    <3>2. CASE Put(Cancelled(mem)) \/ Kept
      BY <3>1, <3>2, PutTyped
    <3>3. CASE Fault /\ UNCHANGED <<mem, disk, available>>
      BY <3>3, FaultEffect DEF Typed, TypeOK, Shape
    <3>4. QED BY <2>1, <3>2, <3>3
  <2>3. approval' \in [Waits -> ApprovalStatus] /\ filed' \in [Waits -> ApprovalStatus]
    BY <1>4, ApprovalsTyped DEF CancelApproval, ApprovalStatus
  <2>4. UNCHANGED <<leased, handoff, child, requeued, overdue, worker, pass, recon, calls, claims, reopens>>
    BY <1>4 DEF CancelApproval, handoffs, coordinator
  <2>5. QED BY <2>2, <2>3, <2>4 DEF Typed, TypeOK, Shape
<1>6. QED BY <1>1, <1>2, <1>3, <1>4

LEMMA CancelTyped ==
  ASSUME Typed, Cancel
  PROVE  Typed'
<1>1. mem \in Execution
  BY DEF Typed, TypeOK
<1>2. Put(Cancelled(mem))
  BY DEF Cancel
<1>3. Cancelled(mem) \in Execution /\ Cancelled(mem).st = "cancelled"
  BY <1>1, CancelledTyped
<1>4. UNCHANGED <<leased, approval, filed, handoff, child, requeued, overdue, worker, pass, recon, calls,
                  claims, reopens>>
  BY DEF Cancel, approvals, handoffs, coordinator
<1>5. QED BY <1>2, <1>3, <1>4, PutTyped DEF Typed, TypeOK, Shape

\* The loops.
LEMMA LoopTyped ==
  ASSUME Typed,
         MarkDecided \/ Pass \/ Reconciles
           \/ \E k \in Tokens : ClaimDecided(k) \/ ClaimDue(k)
  PROVE  Typed'
<1>0. mem \in Execution /\ (mem.at # 0 => mem.at \in Waits)
  BY WaitAssumption DEF Typed, TypeOK, Execution, Waits
<1>1. CASE MarkDecided
  <2>1. Put(Ready(mem.at))
    BY <1>1 DEF MarkDecided
  <2>2. UNCHANGED <<leased, approval, filed, handoff, child, requeued, overdue, worker, pass, recon, calls,
                    claims, reopens>>
    BY <1>1 DEF MarkDecided, approvals, handoffs, coordinator
  <2>3. QED BY <1>0, <2>1, <2>2, ReadyTyped, PutTyped DEF Typed, TypeOK, Shape
<1>2. ASSUME NEW k \in Tokens, ClaimDecided(k) \/ ClaimDue(k) PROVE Typed'
  BY <1>2, ClaimsTyped DEF ClaimDecided, ClaimDue, coordinator
<1>3. CASE Look
  <2>1. pass' \in [pc : {"idle", "expire", "sweep", "mark", "claim"}, goal : {"mark", "claim"},
                   of : {None} \cup Waits]
    BY <1>0, <1>3 DEF Look, At
  <2>2. Kept /\ UNCHANGED <<leased, approval, filed, handoff, child, requeued, overdue, worker, recon, calls,
                            claims, reopens>>
    BY <1>3 DEF Look, approvals, handoffs
  <2>3. QED BY <2>1, <2>2, KeptEffect DEF Typed, TypeOK, Shape
<1>4. CASE ExpireHandoff
  <2>1. pass' \in [pc : {"idle", "expire", "sweep", "mark", "claim"}, goal : {"mark", "claim"},
                   of : {None} \cup Waits] /\ recon' = recon
    BY <1>4 DEF ExpireHandoff, Passes, Typed, TypeOK
  <2>2. handoff' \in [Waits -> HandoffStatus]
    BY <1>4 DEF ExpireHandoff, HandoffStatus, WaitStatus, Typed, TypeOK
  <2>3. Kept /\ UNCHANGED <<leased, approval, filed, child, requeued, overdue, worker, calls, claims, reopens>>
    BY <1>4 DEF ExpireHandoff, approvals
  <2>4. QED BY <2>1, <2>2, <2>3, KeptEffect DEF Typed, TypeOK, Shape
<1>5. ASSUME NEW w, ChildrenEnd(w) \/ (Kept /\ UNCHANGED child)
      PROVE  /\ mem' = mem /\ disk' \in Execution /\ available' \in BOOLEAN
             /\ faults' \in 0..MaxFaults /\ (disk'.st = "waiting" => disk'.at # 0)
             /\ child' \in [Waits -> BOOLEAN]
  <2>1. Put(mem) \/ Kept
    BY <1>5 DEF ChildrenEnd, Put
  <2>2. child' \in [Waits -> BOOLEAN]
    BY <1>5 DEF ChildrenEnd, Typed, TypeOK
  <2>3. CASE Put(mem)
    BY <1>0, <2>2, <2>3, PutEffect DEF Typed, TypeOK, Shape
  <2>4. CASE Kept
    BY <2>2, <2>4, KeptEffect DEF Typed, TypeOK, Shape
  <2>5. QED BY <2>1, <2>3, <2>4
<1>6. CASE SweepExpired
  <2>1. pass' \in [pc : {"idle", "expire", "sweep", "mark", "claim"}, goal : {"mark", "claim"},
                   of : {None} \cup Waits] /\ recon' = recon
    BY <1>6 DEF SweepExpired, Passes, Leaves, NoPass, Typed, TypeOK
  <2>2. ChildrenEnd(pass.of) \/ (Kept /\ UNCHANGED child)
    BY <1>6 DEF SweepExpired
  <2>3. UNCHANGED <<leased, approval, filed, handoff, requeued, overdue, worker, calls, claims, reopens>>
    BY <1>6 DEF SweepExpired, approvals
  <2>4. QED BY <1>5, <2>1, <2>2, <2>3 DEF Typed, TypeOK, Shape
<1>7. CASE MarkEnded
  <2>1. Put(Ready(mem.at)) \/ Kept
    BY <1>7 DEF MarkEnded
  <2>2. UNCHANGED <<leased, approval, filed, handoff, child, requeued, overdue, worker, recon, calls,
                    claims, reopens>> /\ pass' = NoPass
    BY <1>7 DEF MarkEnded, approvals, handoffs, Leaves
  <2>3. pass' \in [pc : {"idle", "expire", "sweep", "mark", "claim"}, goal : {"mark", "claim"},
                   of : {None} \cup Waits]
    BY <2>2 DEF NoPass
  <2>4. QED BY <1>0, <2>1, <2>2, <2>3, ReadyTyped, PutTyped DEF Typed, TypeOK, Shape
<1>8. ASSUME NEW k \in Tokens, ClaimEnded(k) PROVE Typed'
  <2>1. UNCHANGED <<approval, filed, handoff, child, requeued, overdue, recon, calls, reopens>> /\ pass' = NoPass
    BY <1>8 DEF ClaimEnded, approvals, handoffs, Leaves
  <2>2. CASE Claims(k)
    BY <2>1, <2>2, ClaimsTyped DEF approvals, handoffs
  <2>3. CASE Kept /\ UNCHANGED <<leased, worker, claims>>
    <3>1. pass' \in [pc : {"idle", "expire", "sweep", "mark", "claim"}, goal : {"mark", "claim"},
                     of : {None} \cup Waits]
      BY <2>1 DEF NoPass
    <3>2. QED BY <2>1, <2>3, <3>1, KeptEffect DEF Typed, TypeOK, Shape
  <2>4. QED BY <1>8, <2>2, <2>3 DEF ClaimEnded
<1>9. CASE Reconcile
  <2>1. handoff' \in [Waits -> HandoffStatus] /\ recon' \in {"sweep", "acknowledge"}
    BY <1>9 DEF Reconcile, HandoffStatus, WaitStatus, Typed, TypeOK
  <2>2. Kept /\ UNCHANGED <<leased, approval, filed, child, requeued, overdue, worker, pass, calls, claims, reopens>>
    BY <1>9 DEF Reconcile, approvals
  <2>3. QED BY <2>1, <2>2, KeptEffect DEF Typed, TypeOK, Shape
<1>10. CASE SweepCancelled
  <2>1. ChildrenEnd(mem.pending) \/ (Kept /\ UNCHANGED child)
    BY <1>10 DEF SweepCancelled
  <2>2. UNCHANGED <<leased, approval, filed, handoff, requeued, overdue, worker, pass, calls, claims, reopens>>
        /\ recon' \in {"no", "acknowledge"}
    BY <1>10 DEF SweepCancelled, approvals
  <2>3. QED BY <1>5, <2>1, <2>2 DEF Typed, TypeOK, Shape
<1>11. CASE Acknowledge
  <2>1. [mem EXCEPT !.pending = None] \in Execution
        /\ ([mem EXCEPT !.pending = None].st = "waiting" => [mem EXCEPT !.pending = None].at # 0)
    BY DEF Typed, TypeOK, Shape, Execution
  <2>2. Put([mem EXCEPT !.pending = None]) \/ Kept
    BY <1>11 DEF Acknowledge
  <2>3. UNCHANGED <<leased, approval, filed, handoff, child, requeued, overdue, worker, pass, calls, claims, reopens>>
        /\ recon' = "no"
    BY <1>11 DEF Acknowledge, approvals, handoffs
  <2>4. QED BY <2>1, <2>2, <2>3, PutTyped DEF Typed, TypeOK, Shape
<1>12. QED
  BY <1>1, <1>2, <1>3, <1>4, <1>6, <1>7, <1>8, <1>9, <1>10, <1>11 DEF Pass, Reconciles

\* Time, the handoff itself and crashes.
LEMMA OutsideTyped ==
  ASSUME Typed,
         LeaseExpires \/ TimePasses \/ Crash \/ UNCHANGED vars
           \/ (\E w \in Waits : HandoffMoves(w) \/ Requeue(w))
  PROVE  Typed'
<1>1. CASE LeaseExpires
  BY <1>1, KeptEffect DEF LeaseExpires, Typed, TypeOK, Shape, approvals, handoffs, coordinator
<1>2. CASE TimePasses
  <2>1. mem.at \in Waits
    BY <1>2, WaitAssumption DEF TimePasses, Typed, TypeOK, Shape, Execution, Waits
  <2>2. QED
    BY <1>2, <2>1, KeptEffect DEF TimePasses, Typed, TypeOK, Shape, approvals, handoffs, coordinator
<1>3. CASE Crash
  <2>1. /\ Recovered(disk) \in Execution
        /\ Recovered(disk).st = "waiting" => Recovered(disk).at # 0
    BY RecoveredTyped DEF Typed, TypeOK, Shape
  <2>2. faults' \in 0..MaxFaults
    BY <1>3, FaultEffect DEF Crash, Typed
  <2>3. /\ worker' \in [Tokens -> [pc : {"idle", "claimed", "running", "called", "asked"},
                                   from : 0..MaxWaits]]
        /\ \A k \in Tokens : worker'[k].pc # "asked"
    BY <1>3, WaitAssumption DEF Crash, NoWorker
  <2>4. pass' \in [pc : {"idle", "expire", "sweep", "mark", "claim"}, goal : {"mark", "claim"},
                   of : {None} \cup Waits] /\ recon' = "no"
    BY <1>3 DEF Crash, NoPass
  <2>6. handoff' \in [Waits -> HandoffStatus]
    <3>1. PICK W \in SUBSET {w \in Waits : handoff[w] \in WaitUndone} :
            handoff' = [w \in Waits |-> IF w \in W THEN "open" ELSE handoff[w]]
      BY <1>3 DEF Crash
    <3>2. QED BY <3>1 DEF HandoffStatus, WaitStatus, Typed, TypeOK
  <2>5. QED
    BY <1>3, <2>1, <2>2, <2>3, <2>4, <2>6 DEF Crash, Typed, TypeOK, Shape
<1>4. ASSUME NEW w \in Waits, HandoffMoves(w) PROVE Typed'
  <2>1. handoff' \in [Waits -> HandoffStatus] /\ child' \in [Waits -> BOOLEAN]
    <3>1. WaitMoves(handoff[w]) \subseteq HandoffStatus
      BY DEF WaitMoves, HandoffStatus, WaitStatus
    <3>2. QED BY <1>4, <3>1 DEF HandoffMoves, Typed, TypeOK
  <2>2. Kept /\ UNCHANGED <<leased, approval, filed, requeued, overdue, worker, pass, recon, calls, claims,
                            reopens>>
    BY <1>4 DEF HandoffMoves, approvals, coordinator
  <2>3. QED BY <2>1, <2>2, KeptEffect DEF Typed, TypeOK, Shape
<1>7. ASSUME NEW w \in Waits, Requeue(w) PROVE Typed'
  <2>1. handoff' \in [Waits -> HandoffStatus] /\ requeued' \subseteq Waits
    BY <1>7 DEF Requeue, HandoffStatus, WaitStatus, Typed, TypeOK
  <2>2. reopens' \in 0..MaxReopens
    BY <1>7, WaitAssumption DEF Requeue, Typed, TypeOK
  <2>3. Kept /\ UNCHANGED <<leased, approval, filed, child, overdue, worker, pass, recon, calls, claims>>
    BY <1>7 DEF Requeue, approvals, coordinator
  <2>4. QED BY <2>1, <2>2, <2>3, KeptEffect DEF Typed, TypeOK, Shape
<1>5. CASE UNCHANGED vars
  BY <1>5 DEF vars, Typed, TypeOK, Shape, approvals, handoffs, coordinator
<1>6. QED BY <1>1, <1>2, <1>3, <1>4, <1>5, <1>7

LEMMA TypedStep ==
  ASSUME Typed, [Next]_vars
  PROVE  Typed'
<1>1. ASSUME NEW k \in Tokens, Work(k) PROVE Typed'
  BY <1>1, WorkTyped
<1>2. ASSUME NEW w \in Waits, Decide(w) \/ ExpireApproval(w) \/ Reopen(w) \/ CancelApproval(w)
      PROVE  Typed'
  BY <1>2, RequestTyped, Zenon
<1>3. CASE Cancel
  BY <1>3, CancelTyped
<1>4. CASE MarkDecided \/ Pass \/ Reconciles
             \/ \E k \in Tokens : ClaimDecided(k) \/ ClaimDue(k)
  BY <1>4, LoopTyped, Zenon
<1>5. CASE LeaseExpires \/ TimePasses \/ Crash \/ UNCHANGED vars
             \/ (\E w \in Waits : HandoffMoves(w) \/ Requeue(w))
  BY <1>5, OutsideTyped, Zenon
<1>6. QED
  BY <1>1, <1>2, <1>3, <1>4, <1>5, Zenon DEF Next

LEMMA TypedInit ==
  ASSUME Init
  PROVE  Typed
<1>1. New \in Execution /\ New.st = "running"
  BY NoLease, WaitAssumption DEF New, Execution
<1>2. worker \in [Tokens -> [pc : {"idle", "claimed", "running", "called", "asked"},
                             from : 0..MaxWaits]]
      /\ \A k \in Tokens : worker[k].pc # "asked"
  BY WaitAssumption DEF Init, NoWorker
<1>3. pass \in [pc : {"idle", "expire", "sweep", "mark", "claim"}, goal : {"mark", "claim"},
                of : {None} \cup Waits]
  BY DEF Init, NoPass
<1>4. approval \in [Waits -> ApprovalStatus] /\ filed = approval
  BY DEF Init, ApprovalStatus
<1>5. handoff \in [Waits -> HandoffStatus] /\ child \in [Waits -> BOOLEAN]
  BY DEF Init, HandoffStatus, WaitStatus
<1>6. calls \in [Waits -> Nat]
  BY DEF Init
<1>7. /\ mem = New /\ disk = New /\ available = TRUE /\ leased = FALSE /\ overdue = {}
      /\ requeued = {} /\ recon = "no" /\ claims = 0 /\ reopens = 0 /\ faults = 0
  BY DEF Init
<1>8. /\ claims \in 0..MaxClaims /\ reopens \in 0..MaxReopens /\ faults \in 0..MaxFaults
  BY <1>7, WaitAssumption
<1>9. QED
  BY <1>1, <1>2, <1>3, <1>4, <1>5, <1>6, <1>7, <1>8 DEF Typed, TypeOK, Shape

\* Every variable keeps its type.
THEOREM ExecutionTypeCorrect == Spec => []TypeOK
<1>1. Spec => []Typed
  BY TypedInit, TypedStep, PTL DEF Spec
<1>2. Typed => TypeOK
  BY DEF Typed
<1>3. QED BY <1>1, <1>2, PTL

-----------------------------------------------------------------------------
(* What a step may do to the execution and its workers: most steps are      *)
(* steady, the others register a wait, give the execution back, claim it    *)
(* or are a crash.                                                          *)

Shrinks ==
  \A j \in Tokens :
    worker'[j].pc # "idle" => worker[j].pc # "idle" /\ worker'[j].from = worker[j].from

Written == /\ available' => available /\ disk' = mem'
           /\ disk' = disk \/ (available /\ disk' = mem')

\* The execution may only end, or become ready from a wait.
Onward(e) ==
  /\ e.at = mem.at
  /\ e.st \in {"waiting", "ready"} => mem.st \in {"waiting", "ready"}
  /\ e.st = "running" => mem.st = "running" /\ e.tok = mem.tok
  /\ mem.st \in Terminal => e.st = mem.st

Steady == Onward(mem') /\ Written /\ Shrinks
Suspends(k) ==
  /\ Owner(k) /\ worker[k].pc = "asked"
  /\ Put(Wait(mem, worker[k].from + 1)) /\ Ends(k)
GivesBack(k) ==
  /\ mem.st = "running" /\ mem.tok = k
  /\ Put(Edit(mem, "ready", None)) /\ Ends(k)
Takes(k) ==
  /\ available /\ Claims(k)
  /\ mem.st = "ready" \/ (At("timer") /\ mem.st \notin Terminal)
  /\ ~At("agent_handoff") \/ pass.pc = "claim"

LEMMA PutSteady ==
  ASSUME Typed, SeenIsDurable, NEW e \in Execution, Onward(e), Shrinks,
         Put(e) \/ Kept \/ (Fault /\ UNCHANGED <<mem, disk, available>>)
  PROVE  Steady
<1>1. CASE Put(e)
  <2>1. Written /\ mem' = e
    BY <1>1, PutEffect, Zenon DEF Typed, Written
  <2>2. QED BY <2>1 DEF Steady
<1>2. CASE ~Put(e)
  <2>1. mem' = mem /\ disk' = disk /\ available' = available
    BY <1>2, Zenon DEF Kept
  <2>2. Onward(mem') /\ Written
    BY <2>1, Zenon DEF Onward, Written, SeenIsDurable
  <2>3. QED BY <2>2 DEF Steady
<1>3. QED BY <1>1, <1>2

LEMMA WorkerShrinks ==
  ASSUME Typed, NEW k \in Tokens,
         \/ Ends(k) \/ UNCHANGED worker
         \/ worker[k].pc # "idle" /\ \E pc \in {"running", "called", "asked"} : Goes(k, pc)
  PROVE  Shrinks
BY DEF Typed, TypeOK, Ends, Goes, NoWorker, Shrinks

LEMMA StayOnward == Onward(mem)
BY Zenon DEF Onward

\* A worker that lost its lease.
LEMMA LosesSteps ==
  ASSUME Typed, SeenIsDurable, NEW k \in Tokens, Loses(k)
  PROVE  Steady \/ GivesBack(k)
<1>1. Ends(k)
  BY DEF Loses
<1>2. Kept \/ GivesBack(k)
  BY <1>1 DEF Loses, GivesBack, Edit
<1>3. mem \in Execution
  BY DEF Typed, TypeOK
<1>4. Shrinks
  BY <1>1, WorkerShrinks
<1>5. QED BY <1>2, <1>3, <1>4, StayOnward, PutSteady

LEMMA WorkSteps ==
  ASSUME Typed, SeenIsDurable, NEW k \in Tokens, Work(k)
  PROVE  Steady \/ Suspends(k) \/ GivesBack(k)
<1>0. mem \in Execution /\ Onward(mem)
  BY StayOnward DEF Typed, TypeOK
<1>1. CASE Begin(k)
  <2>1. Kept /\ Shrinks
    BY <1>1, WorkerShrinks DEF Begin
  <2>2. QED BY <1>0, <2>1, PutSteady
<1>2. CASE Call(k)
  <2>1. Kept /\ Shrinks
    BY <1>2, WorkerShrinks DEF Call
  <2>2. QED BY <1>0, <2>1, PutSteady
<1>3. CASE Ask(k)
  <2>1. Shrinks
    BY <1>3, WorkerShrinks DEF Ask, Working
  <2>2. Kept \/ (Fault /\ UNCHANGED <<mem, disk, available>>)
    BY <1>3 DEF Ask, Kept
  <2>3. QED BY <1>0, <2>1, <2>2, PutSteady
<1>4. CASE Suspend(k)
  <2>1. Suspends(k) \/ Loses(k)
    BY <1>4 DEF Suspend, Suspends, Wait
  <2>2. QED BY <2>1, LosesSteps
<1>5. ASSUME NEW st \in {"completed", "failed"}, Finish(k, st) PROVE Steady \/ GivesBack(k)
  <2>1. CASE Owner(k)
    <3>1. Put(Edit(mem, st, None)) /\ Ends(k)
      BY <1>5, <2>1 DEF Finish, Edit
    <3>2. /\ st \in Status /\ Edit(mem, st, None) \in Execution
          /\ Edit(mem, st, None).st = st /\ Edit(mem, st, None).at = mem.at
      <4>1. st \in Status
        BY DEF Status, Terminal
      <4>2. QED BY <1>0, <4>1, EditTyped, NoLease
    <3>3. mem.st = "running"
      BY <2>1 DEF Owner
    <3>4. Onward(Edit(mem, st, None))
      BY <3>2, <3>3 DEF Onward, Terminal
    <3>5. QED BY <3>1, <3>2, <3>4, WorkerShrinks, PutSteady
  <2>2. CASE ~Owner(k)
    BY <1>5, <2>2, LosesSteps DEF Finish
  <2>3. QED BY <2>1, <2>2
<1>6. QED BY <1>1, <1>2, <1>3, <1>4, <1>5 DEF Work

LEMMA StepKinds ==
  ASSUME Typed, SeenIsDurable, [Next]_vars
  PROVE  \/ Steady \/ Crash
         \/ \E k \in Tokens : Suspends(k) \/ GivesBack(k) \/ Takes(k)
<1>0. mem \in Execution /\ Onward(mem)
  BY StayOnward DEF Typed, TypeOK
<1>a. UNCHANGED worker => Shrinks
  BY DEF Shrinks
<1>b. ASSUME Kept, UNCHANGED worker PROVE Steady
  BY <1>0, <1>a, <1>b, PutSteady
<1>c. ASSUME mem.st \in {"waiting", "ready"} PROVE \A w : Onward(Ready(w)) /\ Ready(w) \in Execution
  <2>1. ASSUME NEW w PROVE Onward(Ready(w)) /\ Ready(w) \in Execution
    BY <1>0, <1>c, ReadyTyped DEF Onward, Terminal
  <2>2. QED BY <2>1
<1>d. ASSUME mem.st \notin Terminal PROVE Onward(Cancelled(mem)) /\ Cancelled(mem) \in Execution
  BY <1>0, <1>d, CancelledTyped DEF Onward, Terminal
<1>1. ASSUME NEW k \in Tokens, Work(k)
      PROVE  Steady \/ Suspends(k) \/ GivesBack(k)
  BY <1>1, WorkSteps
<1>2. ASSUME NEW w \in Waits, Decide(w) PROVE Steady
  <2>1. \/ (mem.st \in {"waiting", "ready"} /\ Put(Ready(w))) \/ Kept
        \/ (Fault /\ UNCHANGED <<mem, disk, available>>)
    BY <1>2 DEF Decide
  <2>2. Shrinks
    BY <1>2, <1>a DEF Decide
  <2>3. QED BY <1>0, <1>c, <2>1, <2>2, PutSteady
<1>3. ASSUME NEW w \in Waits, ExpireApproval(w) \/ HandoffMoves(w) \/ Requeue(w) PROVE Steady
  BY <1>3, <1>b DEF ExpireApproval, HandoffMoves, Requeue
<1>4. ASSUME NEW w \in Waits, Reopen(w) PROVE Steady
  <2>1. Kept \/ (Fault /\ UNCHANGED <<mem, disk, available>>)
    BY <1>4 DEF Reopen, Kept
  <2>2. Shrinks
    BY <1>4, <1>a DEF Reopen
  <2>3. QED BY <1>0, <2>1, <2>2, PutSteady
<1>5. ASSUME NEW w \in Waits, CancelApproval(w) PROVE Steady
  <2>1. \/ (mem.st \notin Terminal /\ Put(Cancelled(mem))) \/ Kept
        \/ (Fault /\ UNCHANGED <<mem, disk, available>>)
    BY <1>5 DEF CancelApproval, Ended
  <2>2. Shrinks
    BY <1>5, <1>a DEF CancelApproval
  <2>3. QED BY <1>0, <1>d, <2>1, <2>2, PutSteady
<1>6. CASE Cancel
  BY <1>6, <1>a, <1>d, PutSteady DEF Cancel, Ended
<1>7. CASE MarkDecided
  BY <1>7, <1>a, <1>c, PutSteady DEF MarkDecided
<1>8. CASE MarkEnded
  <2>1. (mem.st \in {"waiting", "ready"} /\ Put(Ready(mem.at))) \/ Kept
    BY <1>8 DEF MarkEnded
  <2>2. Shrinks
    BY <1>8, <1>a DEF MarkEnded
  <2>3. QED BY <1>0, <1>c, <2>1, <2>2, PutSteady
<1>9. ASSUME NEW k \in Tokens, ClaimDecided(k) \/ ClaimDue(k) PROVE Takes(k)
  BY <1>9 DEF ClaimDecided, ClaimDue, Takes, Terminal, At
<1>10. ASSUME NEW k \in Tokens, ClaimEnded(k) PROVE Takes(k) \/ Steady
  BY <1>10, <1>b DEF ClaimEnded, Takes
<1>11. CASE Look \/ ExpireHandoff \/ Reconcile
  BY <1>11, <1>b DEF Look, ExpireHandoff, Reconcile
<1>12. CASE SweepExpired \/ SweepCancelled
  <2>1. Put(mem) \/ Kept
    BY <1>12 DEF SweepExpired, SweepCancelled, ChildrenEnd, Put
  <2>2. Shrinks
    BY <1>12, <1>a DEF SweepExpired, SweepCancelled
  <2>3. QED BY <1>0, <2>1, <2>2, PutSteady
<1>13. CASE Acknowledge
  <2>. DEFINE e == [mem EXCEPT !.pending = None]
  <2>1. e \in Execution /\ Onward(e)
    BY <1>0 DEF Execution, Onward
  <2>2. Put(e) \/ Kept
    BY <1>13 DEF Acknowledge
  <2>3. Shrinks
    BY <1>13, <1>a DEF Acknowledge
  <2>. HIDE DEF e
  <2>4. QED BY <1>0, <2>1, <2>2, <2>3, PutSteady
<1>14. CASE LeaseExpires \/ TimePasses
  BY <1>14, <1>b DEF LeaseExpires, TimePasses
<1>15. CASE UNCHANGED vars
  <2>1. UNCHANGED <<mem, disk, available, faults, worker>>
    BY <1>15 DEF vars
  <2>2. QED BY <2>1, <1>b DEF Kept, NoFault
<1>16. QED
  BY <1>1, <1>2, <1>3, <1>4, <1>5, <1>6, <1>7, <1>8, <1>9, <1>10, <1>11, <1>12, <1>13, <1>14,
     <1>15 DEF Next, Pass, Reconciles

-----------------------------------------------------------------------------
(* The inductive invariant: a worker stands behind the execution or beside  *)
(* it; beside it, only the owner of the lease does, unless a timer let more *)
(* than one claim pass.                                                     *)

Line ==
  available =>
    \A k \in Tokens : worker[k].pc # "idle" =>
      /\ worker[k].from <= mem.at
      /\ worker[k].from = mem.at /\ ~At("timer") =>
           mem.st \notin {"waiting", "ready"} /\ (mem.st = "running" => mem.tok = k)
      /\ mem.st = "running" /\ mem.tok = k => worker[k].from = mem.at

Core == Typed /\ SeenIsDurable /\ Line /\ AloneUnlessTimer

LEMMA CoreInit ==
  ASSUME Init
  PROVE  Core
<1>1. Typed
  BY TypedInit
<1>2. SeenIsDurable
  BY DEF Init, SeenIsDurable
<1>3. /\ mem.at = 0 /\ mem.st = "running" /\ mem.tok = None
      /\ \A k \in Tokens : worker[k].pc # "idle" => k = None /\ worker[k].from = 0
  BY DEF Init, New, NoWorker
<1>4. Line
  BY <1>3 DEF Line
<1>5. AloneUnlessTimer
  BY <1>3 DEF AloneUnlessTimer
<1>6. QED BY <1>1, <1>2, <1>4, <1>5 DEF Core

\* Workers that only go on or leave stay apart.
LEMMA ShrinkAlone ==
  ASSUME AloneUnlessTimer, Shrinks
  PROVE  AloneUnlessTimer'
BY DEF AloneUnlessTimer, Shrinks, From

LEMMA CoreStep ==
  ASSUME Core, [Next]_vars
  PROVE  Core'
<1>0. /\ Typed /\ Typed' /\ SeenIsDurable /\ Line /\ AloneUnlessTimer
      /\ mem \in Execution /\ mem.at \in 0..MaxWaits
      /\ \A k \in Tokens : worker[k].from \in 0..MaxWaits
  BY TypedStep DEF Core, Typed, TypeOK, Execution
<1>1. CASE Steady
  <2>1. SeenIsDurable'
    BY <1>1, Zenon DEF Steady, Written, SeenIsDurable
  <2>2. AloneUnlessTimer'
    BY <1>0, <1>1, ShrinkAlone DEF Steady
  <2>3. Line'
    <3>1. /\ mem'.at = mem.at /\ Shrinks /\ (available' => available)
          /\ mem'.st \in {"waiting", "ready"} => mem.st \in {"waiting", "ready"}
          /\ mem'.st = "running" => mem.st = "running" /\ mem'.tok = mem.tok
      BY <1>1, Zenon DEF Steady, Written, Onward
    <3>2. At("timer")' <=> At("timer")
      BY <3>1 DEF At
    <3>3. QED BY <1>0, <3>1, <3>2 DEF Line, Shrinks
  <2>4. QED BY <1>0, <2>1, <2>2, <2>3 DEF Core
<1>2. CASE Crash
  <2>1. mem' = disk' /\ \A k \in Tokens : worker'[k].pc = "idle"
    BY <1>2 DEF Crash, NoWorker
  <2>2. QED BY <1>0, <2>1 DEF Core, SeenIsDurable, Line, AloneUnlessTimer
<1>3. ASSUME NEW k \in Tokens, Suspends(k) PROVE Core'
  <2>. DEFINE w == worker[k].from + 1
  <2>1. w \in Waits /\ w = mem.at + 1 /\ mem.st = "running" /\ mem.tok = k
    BY <1>0, <1>3, WaitAssumption DEF Suspends, Owner, Line, Typed, Shape, Waits
  <2>2. /\ Wait(mem, w) \in Execution /\ Wait(mem, w).at = w
        /\ Wait(mem, w).st = "waiting"
    BY <1>0, <2>1, WaitTyped
  <2>3. /\ available /\ mem' = Wait(mem, w) /\ (available' => disk' = mem')
    BY <1>0, <1>3, <2>2, PutEffect DEF Suspends, Typed
  <2>4. Shrinks
    BY <1>0, <1>3, WorkerShrinks DEF Suspends
  <2>5. Line'
    <3>1. \A j \in Tokens :
            worker'[j].pc # "idle" => worker'[j].from \in Nat /\ worker'[j].from < mem'.at
      BY <1>0, <2>1, <2>2, <2>3, <2>4 DEF Line, Shrinks
    <3>2. mem'.at \in Nat /\ mem'.st = "waiting"
      BY <2>1, <2>2, <2>3, WaitAssumption DEF Waits
    <3>3. QED BY <3>1, <3>2 DEF Line
  <2>6. QED BY <1>0, <2>3, <2>4, <2>5, ShrinkAlone DEF Core, SeenIsDurable
<1>4. ASSUME NEW k \in Tokens, GivesBack(k) PROVE Core'
  <2>1. /\ Edit(mem, "ready", None) \in Execution /\ Edit(mem, "ready", None).at = mem.at
        /\ Edit(mem, "ready", None).st = "ready"
    BY <1>0, EditTyped, NoLease DEF Status
  <2>2. /\ available /\ mem' = Edit(mem, "ready", None) /\ (available' => disk' = mem')
    BY <1>0, <1>4, <2>1, PutEffect DEF GivesBack, Typed
  <2>3. Shrinks /\ worker'[k].pc = "idle" /\ mem.st = "running" /\ mem.tok = k
    BY <1>0, <1>4, WorkerShrinks DEF GivesBack, Ends, NoWorker, Typed, TypeOK
  <2>4. Line'
    <3>1. At("timer")' <=> At("timer")
      BY <2>1, <2>2 DEF At
    <3>2. ASSUME NEW j \in Tokens, worker'[j].pc # "idle"
          PROVE  j # k /\ worker'[j].from <= mem'.at
                 /\ ~(worker'[j].from = mem'.at /\ ~At("timer"))
      BY <1>0, <2>1, <2>2, <2>3, <3>2 DEF Line, Shrinks
    <3>3. QED BY <2>1, <2>2, <3>1, <3>2 DEF Line
  <2>5. QED BY <1>0, <2>2, <2>3, <2>4, ShrinkAlone DEF Core, SeenIsDurable
<1>5. ASSUME NEW k \in Tokens, Takes(k) PROVE Core'
  <2>. DEFINE e == Edit(mem, "running", k)
  <2>1. e \in Execution /\ e.at = mem.at /\ e.st = "running" /\ e.tok = k
    BY <1>0, EditTyped DEF Status
  <2>2. Put(e) /\ available
    BY <1>5 DEF Takes, Claims, Put, Edit
  <2>3. mem' = e /\ (available' => disk' = mem') /\ mem'.at = mem.at
    BY <1>0, <2>1, <2>2, PutEffect DEF Typed
  <2>4. (available' /\ Starts(k)) \/ (~available' /\ UNCHANGED worker)
    BY <1>5 DEF Takes, Claims, Saved, WriteFails
  <2>5. ~At("timer") => \A j \in Tokens : worker[j].pc # "idle" => worker[j].from < mem.at
    BY <1>0, <1>5 DEF Takes, Line
  <2>6. CASE ~available' /\ UNCHANGED worker
    BY <1>0, <2>3, <2>6 DEF Core, SeenIsDurable, Line, AloneUnlessTimer, From
  <2>7. CASE available' /\ Starts(k)
    <3>1. /\ worker'[k].from = mem.at /\ worker'[k].pc = "claimed"
          /\ \A j \in Tokens : j # k => worker'[j] = worker[j]
      BY <1>0, <2>7 DEF Starts, Typed, TypeOK
    <3>2. At("timer")' <=> At("timer")
      BY <2>3 DEF At
    <3>3. Line'
      BY <1>0, <2>1, <2>3, <2>5, <3>1, <3>2, <1>5 DEF Line, Takes
    <3>4. AloneUnlessTimer'
      <4>1. ASSUME NEW j \in Tokens, j # k, worker'[j].pc # "idle",
                   worker'[j].from = worker'[k].from
            PROVE  mem.at # 0 /\ KindOf[mem.at] = "timer"
        BY <1>0, <2>5, <3>1, <4>1 DEF At
      <4>2. QED BY <1>0, <3>1, <4>1 DEF AloneUnlessTimer, From
    <3>5. QED BY <1>0, <2>3, <3>3, <3>4 DEF Core, SeenIsDurable
  <2>8. QED BY <2>4, <2>6, <2>7
<1>6. QED
  BY <1>0, <1>1, <1>2, <1>3, <1>4, <1>5, StepKinds

\* Memory and file agree while the store answers, and a run that goes on from an
\* approval or a handoff holds the latest claim or stands before what it registered.
THEOREM ExecutionCore == Spec => []Core
BY CoreInit, CoreStep, PTL DEF Spec

\* What the store shows is on disk, as long as it answers.
THEOREM NothingSeenIsLost == Spec => []SeenIsDurable
<1>1. Core => SeenIsDurable
  BY DEF Core
<1>2. QED BY <1>1, ExecutionCore, PTL

\* No two runs of the workflow go on from the same approval or handoff, though
\* leases run out and nothing stops the run that lost one.
THEOREM OneRunPerContinuation == Spec => []AloneUnlessTimer
<1>1. Core => AloneUnlessTimer
  BY DEF Core
<1>2. QED BY <1>1, ExecutionCore, PTL

-----------------------------------------------------------------------------
(* The refinement.                                                          *)

LEMMA PromiseInit ==
  ASSUME Init
  PROVE  Promise!Init
<1>1. disk.at = 0 /\ disk.st = "running"
  BY DEF Init, New
<1>2. QED BY <1>1 DEF Promise!Init, Ended, Terminal

\* The two ways the file moves, in the terms of the promise.
LEMMA EndOrStay ==
  ASSUME disk' \in Execution, disk'.at = disk.at, disk.st \in Terminal => disk'.st = disk.st
  PROVE  Promise!End \/ UNCHANGED Promise!vars
<1>1. CASE disk.st \in Terminal
  BY <1>1 DEF Promise!vars, Ended
<1>2. CASE disk.st \notin Terminal /\ disk'.st \in Terminal
  BY <1>2 DEF Promise!End, Ended, Terminal
<1>3. CASE disk.st \notin Terminal /\ disk'.st \notin Terminal
  BY <1>3 DEF Promise!vars, Ended
<1>4. QED BY <1>1, <1>2, <1>3

LEMMA PromiseStep ==
  ASSUME Core, [Next]_vars
  PROVE  [Promise!Advance \/ Promise!End]_(Promise!vars)
<1>0. /\ Typed /\ SeenIsDurable /\ Line /\ mem \in Execution /\ mem.at \in 0..MaxWaits
      /\ disk \in Execution /\ disk' \in Execution
      /\ \A k \in Tokens : worker[k].from \in 0..MaxWaits
  BY TypedStep DEF Core, Typed, TypeOK, Execution
<1>1. CASE Steady
  <2>1. disk' = disk \/ (mem = disk /\ disk' = mem')
    BY <1>0, <1>1, Zenon DEF Steady, Written, SeenIsDurable
  <2>2. disk'.at = disk.at /\ (disk.st \in Terminal => disk'.st = disk.st)
    BY <1>1, <2>1 DEF Steady, Onward
  <2>3. QED BY <1>0, <2>2, EndOrStay
<1>2. CASE Crash
  <2>1. disk'.at = disk.at /\ (disk.st \in Terminal => disk'.st = disk.st)
    BY <1>0, <1>2, RecoveredTyped DEF Crash, Terminal
  <2>2. QED BY <1>0, <2>1, EndOrStay
<1>3. ASSUME NEW k \in Tokens, Suspends(k)
      PROVE  Promise!Advance \/ UNCHANGED Promise!vars
  <2>. DEFINE w == worker[k].from + 1
  <2>1. w \in Waits /\ w = mem.at + 1 /\ mem.st = "running" /\ mem = disk
    BY <1>0, <1>3, WaitAssumption
    DEF Suspends, Owner, Line, Typed, Shape, Waits, SeenIsDurable
  <2>2. Wait(mem, w) \in Execution /\ Wait(mem, w).at = w /\ Wait(mem, w).st = "waiting"
    BY <1>0, <2>1, WaitTyped
  <2>3. disk' \in {disk, Wait(mem, w)}
    BY <1>0, <1>3, <2>2, PutEffect DEF Suspends, Typed
  <2>4. CASE disk' = disk
    BY <2>4 DEF Promise!vars, Ended
  <2>5. CASE disk' = Wait(mem, w)
    <3>1. disk.at < MaxWaits /\ disk'.at = disk.at + 1
      BY <1>0, <2>1, <2>2, <2>5, WaitAssumption DEF Waits
    <3>2. ~Ended(disk) /\ ~Ended(disk')
      BY <2>1, <2>2, <2>5 DEF Ended, Terminal
    <3>3. QED BY <3>1, <3>2 DEF Promise!Advance, Ended
  <2>6. QED BY <2>3, <2>4, <2>5
<1>4. ASSUME NEW k \in Tokens, NEW st \in Status, mem.st \notin Terminal,
             Put(Edit(mem, st, k)) \/ Put(Edit(mem, st, None))
      PROVE  Promise!End \/ UNCHANGED Promise!vars
  <2>1. PICK t \in Tokens : Put(Edit(mem, st, t))
    BY <1>4, NoLease
  <2>2. Edit(mem, st, t) \in Execution /\ Edit(mem, st, t).at = mem.at
    BY <1>0, EditTyped
  <2>3. disk' \in {disk, Edit(mem, st, t)} /\ available
    BY <1>0, <2>1, <2>2, PutEffect DEF Typed
  <2>4. mem = disk
    BY <1>0, <2>3 DEF SeenIsDurable
  <2>5. disk'.at = disk.at /\ disk.st \notin Terminal
    BY <1>4, <2>2, <2>3, <2>4
  <2>6. QED BY <1>0, <2>5, EndOrStay
<1>5. ASSUME NEW k \in Tokens, GivesBack(k)
      PROVE  Promise!End \/ UNCHANGED Promise!vars
  <2>1. "ready" \in Status /\ mem.st \notin Terminal
    BY <1>5 DEF Status, Terminal, GivesBack
  <2>2. QED BY <1>4, <1>5, <2>1 DEF GivesBack
<1>6. ASSUME NEW k \in Tokens, Takes(k)
      PROVE  Promise!End \/ UNCHANGED Promise!vars
  <2>1. "running" \in Status /\ mem.st \notin Terminal
    BY <1>6 DEF Status, Terminal, Takes
  <2>2. Put(Edit(mem, "running", k))
    BY <1>6 DEF Takes, Claims, Put, Edit
  <2>3. QED BY <1>4, <2>1, <2>2
<1>7. QED
  BY <1>0, <1>1, <1>2, <1>3, <1>5, <1>6, StepKinds

\* The snapshot keeps ExecutionPromise: its waits are registered one after the
\* other and it ends at most once, whatever crashes, writes that fail and workers
\* whose lease was taken over.
THEOREM SnapshotKeepsPromise == Spec => KeepsPromise
<1>1. Init => Promise!Init
  BY PromiseInit
<1>2. Core /\ [Next]_vars => [Promise!Advance \/ Promise!End]_(Promise!vars)
  BY PromiseStep
<1>3. QED
  BY <1>1, <1>2, ExecutionCore, PTL DEF Spec, KeepsPromise, Promise!Spec

-----------------------------------------------------------------------------
(* Handoffs and the two conversations about them: the pass that expires,    *)
(* marks and claims, and the one that cancels.                              *)

\* A handoff that exists stays.  A cancelled one stays as it is and no child of it
\* starts any more, a decided one unless it is requeued; a timeout is the pass's.
Gone == {"cancelled", "timeout"}
Over == {"completed", "failed"}
Settles ==
  \A w \in Waits :
    /\ handoff[w] # "none" => handoff'[w] # "none"
    /\ handoff[w] \in Gone => handoff'[w] = handoff[w] /\ (child'[w] => child[w])
    /\ handoff[w] \in Over => handoff'[w] = handoff[w] \/ w \in requeued'
    /\ w \in requeued => w \in requeued'
    /\ handoff'[w] = "timeout" =>
         handoff[w] = "timeout" \/ (pass.pc = "expire" /\ pass.of = w)

LEMMA SweepSettles ==
  ASSUME Typed, NEW w, ChildrenEnd(w) \/ UNCHANGED child, UNCHANGED <<handoff, requeued>>
  PROVE  Settles
<1>1. child' = child \/ child' = [child EXCEPT ![w] = FALSE]
  BY DEF ChildrenEnd
<1>2. \A v \in Waits : child'[v] => child[v]
  BY <1>1 DEF Typed, TypeOK
<1>3. QED BY <1>2 DEF Settles, Gone, Over

LEMMA StepSettles ==
  ASSUME Typed, [Next]_vars
  PROVE  Settles
<1>a. UNCHANGED handoffs => Settles
  BY DEF handoffs, Settles, Gone, Over
<1>1. ASSUME NEW k \in Tokens, Work(k) PROVE Settles
  <2>1. CASE Ask(k)
    <3>. DEFINE w == worker[k].from + 1
    <3>1. /\ child' = child /\ requeued' = requeued
          /\ handoff' = handoff
               \/ (handoff[w] = "none" /\ handoff' = [handoff EXCEPT ![w] = "open"])
      BY <2>1 DEF Ask
    <3>. HIDE DEF w
    <3>2. QED BY <3>1 DEF Settles, Gone, Over, Typed, TypeOK
  <2>2. CASE ~Ask(k)
    BY <1>1, <2>2, <1>a DEF Work, Begin, Call, Suspend, Finish
  <2>3. QED BY <2>1, <2>2
<1>2. ASSUME NEW w \in Waits, HandoffMoves(w) PROVE Settles
  <2>1. /\ \/ child' = child /\ \E st \in WaitMoves(handoff[w]) : handoff' = [handoff EXCEPT ![w] = st]
           \/ /\ handoff' = handoff /\ child' = [child EXCEPT ![w] = TRUE]
              /\ handoff[w] \in ChildMayStart
           \/ handoff' = handoff /\ child' = [child EXCEPT ![w] = FALSE]
        /\ requeued' = requeued
    BY <1>2 DEF HandoffMoves
  <2>2. \A v \in Waits : v # w => handoff'[v] = handoff[v] /\ child'[v] = child[v]
    BY <2>1 DEF Typed, TypeOK
  <2>3. /\ handoff'[w] = handoff[w] \/ handoff'[w] \in WaitMoves(handoff[w])
        /\ child'[w] = child[w] \/ handoff[w] \in ChildMayStart \/ ~child'[w]
    BY <2>1 DEF Typed, TypeOK
  <2>4. /\ handoff[w] # "none" => handoff'[w] # "none"
        /\ handoff[w] \in Gone => handoff'[w] = handoff[w] /\ (child'[w] => child[w])
        /\ handoff[w] \in Over => handoff'[w] = handoff[w]
        /\ handoff'[w] = "timeout" => handoff[w] = "timeout"
    BY <2>3 DEF WaitMoves, ChildMayStart, Gone, Over
  <2>5. QED BY <2>1, <2>2, <2>4 DEF Settles, Gone, Over
<1>12. ASSUME NEW w \in Waits, Requeue(w) PROVE Settles
  <2>1. /\ handoff[w] = "failed" /\ handoff'[w] = "open" /\ child' = child
        /\ requeued' = requeued \cup {w}
        /\ \A v \in Waits : v # w => handoff'[v] = handoff[v]
    BY <1>12 DEF Requeue, WaitRequeueable, Typed, TypeOK
  <2>2. QED BY <2>1 DEF Settles, Gone, Over
<1>3. CASE ExpireHandoff
  <2>1. /\ pass.pc = "expire" /\ child' = child /\ requeued' = requeued
        /\ handoff' = handoff \/ (handoff[pass.of] \in {"open", "timeout"}
             /\ handoff' = [handoff EXCEPT ![pass.of] = "timeout"])
    BY <1>3 DEF ExpireHandoff
  <2>2. \A w \in Waits : handoff'[w] = handoff[w]
          \/ (w = pass.of /\ handoff[w] \in {"open", "timeout"} /\ handoff'[w] = "timeout")
    BY <2>1 DEF Typed, TypeOK
  <2>3. QED BY <2>1, <2>2 DEF Settles, Gone, Over
<1>4. CASE SweepExpired
  <2>1. (ChildrenEnd(pass.of) \/ UNCHANGED child) /\ UNCHANGED <<handoff, requeued>>
    BY <1>4 DEF SweepExpired
  <2>2. QED BY <2>1, SweepSettles
<1>5. CASE SweepCancelled
  <2>1. (ChildrenEnd(mem.pending) \/ UNCHANGED child) /\ UNCHANGED <<handoff, requeued>>
    BY <1>5 DEF SweepCancelled
  <2>2. QED BY <2>1, SweepSettles
<1>6. CASE Reconcile
  <2>1. \A w \in Waits : handoff'[w] = handoff[w]
          \/ (handoff[w] \in {"open", "closed"} /\ handoff'[w] = "cancelled")
    BY <1>6 DEF Reconcile, Typed, TypeOK
  <2>2. child' = child /\ requeued' = requeued
    BY <1>6 DEF Reconcile
  <2>3. QED BY <2>1, <2>2 DEF Settles, Gone, Over
<1>7. ASSUME NEW w \in Waits, Decide(w) \/ ExpireApproval(w) \/ Reopen(w) \/ CancelApproval(w)
      PROVE  Settles
  BY <1>7, <1>a DEF Decide, ExpireApproval, Reopen, CancelApproval
<1>8. ASSUME NEW k \in Tokens, ClaimDecided(k) \/ ClaimDue(k) \/ ClaimEnded(k) PROVE Settles
  BY <1>8, <1>a DEF ClaimDecided, ClaimDue, ClaimEnded
<1>9. CASE Cancel \/ MarkDecided \/ Look \/ MarkEnded \/ Acknowledge
  BY <1>9, <1>a DEF Cancel, MarkDecided, Look, MarkEnded, Acknowledge
<1>10. CASE LeaseExpires \/ TimePasses \/ UNCHANGED vars
  BY <1>10, <1>a DEF LeaseExpires, TimePasses, vars
<1>13. CASE Crash
  <2>1. \A w \in Waits : handoff'[w] = handoff[w] \/ (handoff[w] = "closed" /\ handoff'[w] = "open")
    BY <1>13 DEF Crash, WaitUndone
  <2>2. child' = child /\ requeued' = requeued
    BY <1>13 DEF Crash
  <2>3. QED BY <2>1, <2>2 DEF Settles, Gone, Over
<1>11. QED
  BY <1>1, <1>2, <1>3, <1>4, <1>5, <1>6, <1>7, <1>8, <1>9, <1>10, <1>12, <1>13 DEF Next, Pass, Reconciles

\* A worker asks for a handoff that exists.
Asked(k) ==
  worker[k].pc = "asked" /\ KindOf[worker[k].from + 1] = "agent_handoff" =>
    handoff[worker[k].from + 1] # "none"

LEMMA StepAsked ==
  ASSUME Typed, Settles, \A k \in Tokens : Asked(k), [Next]_vars
  PROVE  \A k \in Tokens : Asked(k)'
<1>0. \A k \in Tokens : worker[k].pc = "asked" => worker[k].from + 1 \in Waits
  BY WaitAssumption DEF Typed, TypeOK, Shape, Waits
<1>a. ASSUME \A j \in Tokens : worker'[j].pc = "asked" => worker'[j] = worker[j]
      PROVE  \A j \in Tokens : Asked(j)'
  BY <1>0, <1>a DEF Asked, Settles
<1>1. ASSUME NEW k \in Tokens, Ask(k) PROVE \A j \in Tokens : Asked(j)'
  <2>. DEFINE w == worker[k].from + 1
  <2>1. worker' = [worker EXCEPT ![k].pc = "asked"] \/ worker' = [worker EXCEPT ![k] = NoWorker]
    BY <1>1 DEF Ask, Goes, Ends
  <2>2. w \in Waits
    BY <1>1, WaitAssumption DEF Ask, Waits, Typed, TypeOK
  <2>3. KindOf[w] = "agent_handoff" => handoff'[w] # "none"
    BY <1>1, <2>2 DEF Ask, Typed, TypeOK
  <2>4. \A j \in Tokens : j # k => worker'[j] = worker[j]
    BY <2>1 DEF Typed, TypeOK
  <2>5. worker'[k].pc = "asked" => worker'[k].from + 1 = w
    BY <2>1 DEF NoWorker, Typed, TypeOK
  <2>. HIDE DEF w
  <2>6. Asked(k)'
    BY <2>3, <2>5 DEF Asked
  <2>7. \A j \in Tokens : j # k => Asked(j)'
    BY <1>0, <2>4 DEF Asked, Settles
  <2>8. QED BY <2>6, <2>7
<1>2. ASSUME NEW k \in Tokens, Work(k), ~Ask(k) PROVE \A j \in Tokens : Asked(j)'
  <2>1. Ends(k) \/ Goes(k, "running") \/ Goes(k, "called")
    BY <1>2 DEF Work, Begin, Call, Suspend, Finish, Loses
  <2>2. QED BY <1>a, <2>1 DEF Ends, Goes, NoWorker, Typed, TypeOK
<1>3. ASSUME NEW k \in Tokens, Claims(k) PROVE \A j \in Tokens : Asked(j)'
  BY <1>a, <1>3 DEF Claims, Starts, Typed, TypeOK
<1>4. CASE Crash
  BY <1>a, <1>4 DEF Crash, NoWorker
<1>5. ASSUME UNCHANGED worker PROVE \A j \in Tokens : Asked(j)'
  BY <1>a, <1>5
<1>6. ASSUME NEW w \in Waits, Decide(w) \/ ExpireApproval(w) \/ Reopen(w) \/ CancelApproval(w)
                                \/ HandoffMoves(w) \/ Requeue(w)
      PROVE  UNCHANGED worker
  BY <1>6 DEF Decide, ExpireApproval, Reopen, CancelApproval, HandoffMoves, Requeue
<1>7. ASSUME NEW k \in Tokens, ClaimDecided(k) \/ ClaimDue(k) \/ ClaimEnded(k)
      PROVE  Claims(k) \/ UNCHANGED worker
  BY <1>7 DEF ClaimDecided, ClaimDue, ClaimEnded
<1>8. ASSUME Cancel \/ MarkDecided \/ Look \/ ExpireHandoff \/ SweepExpired \/ MarkEnded
               \/ Reconciles \/ LeaseExpires \/ TimePasses \/ UNCHANGED vars
      PROVE  UNCHANGED worker
  BY <1>8 DEF Cancel, MarkDecided, Look, ExpireHandoff, SweepExpired, MarkEnded, Reconciles,
    Reconcile, SweepCancelled, Acknowledge, LeaseExpires, TimePasses, vars
<1>9. QED
  BY <1>1, <1>2, <1>3, <1>4, <1>5, <1>6, <1>7, <1>8 DEF Next, Pass

\* Most steps leave the conversations alone, but for a pass that ends, and neither
\* cancel the execution nor forget its handoff.
Aside ==
  /\ pass' = pass \/ pass' = NoPass
  /\ recon' = recon
  /\ mem'.pending = mem.pending
  /\ mem'.st = "cancelled" => mem.st = "cancelled"

Cancels ==
  /\ UNCHANGED <<pass, recon>>
  /\ mem.st \notin Terminal /\ mem' = Cancelled(mem)

LEMMA StepAside ==
  ASSUME Typed, SeenIsDurable, [Next]_vars
  PROVE  \/ Aside \/ Cancels \/ Crash
         \/ Look \/ ExpireHandoff \/ SweepExpired
         \/ Reconcile \/ SweepCancelled \/ Acknowledge
<1>0. mem \in Execution
  BY DEF Typed, TypeOK
<1>a. ASSUME Kept \/ (Fault /\ UNCHANGED <<mem, disk, available>>), UNCHANGED <<pass, recon>>
      PROVE  Aside
  BY <1>a DEF Kept, Aside
<1>b. ASSUME NEW e \in Execution, Put(e), e.pending = mem.pending, e.st # "cancelled",
             recon' = recon, pass' = pass \/ pass' = NoPass
      PROVE  Aside
  <2>1. mem' = e
    BY <1>b, PutEffect DEF Typed
  <2>2. QED BY <1>b, <2>1 DEF Aside
<1>c. ASSUME NEW w, Put(Ready(w)), recon' = recon, pass' = pass \/ pass' = NoPass
      PROVE  Aside
  <2>1. Ready(w) \in Execution /\ Ready(w).pending = mem.pending /\ Ready(w).st = "ready"
    BY <1>0, ReadyTyped
  <2>2. QED BY <1>b, <1>c, <2>1
<1>d. ASSUME NEW st \in Status \ {"cancelled"}, NEW t \in Tokens, Put(Edit(mem, st, t)),
             recon' = recon, pass' = pass \/ pass' = NoPass
      PROVE  Aside
  <2>1. /\ Edit(mem, st, t) \in Execution /\ Edit(mem, st, t).pending = mem.pending
        /\ Edit(mem, st, t).st # "cancelled"
    BY <1>0, EditTyped
  <2>2. QED BY <1>b, <1>d, <2>1
<1>e. ASSUME NEW k \in Tokens, Claims(k), recon' = recon, pass' = pass \/ pass' = NoPass
      PROVE  Aside
  <2>1. Put(Edit(mem, "running", k)) /\ "running" \in Status \ {"cancelled"}
    BY <1>e DEF Claims, Put, Edit, Status
  <2>2. QED BY <1>d, <1>e, <2>1
<1>f. ASSUME NEW k \in Tokens, Loses(k), UNCHANGED <<pass, recon>> PROVE Aside
  <2>1. Put(Edit(mem, "ready", None)) \/ Kept
    BY <1>f DEF Loses, Edit
  <2>2. "ready" \in Status \ {"cancelled"}
    BY DEF Status
  <2>3. QED BY <1>a, <1>d, <1>f, <2>1, <2>2, NoLease
<1>1. ASSUME NEW k \in Tokens, Work(k) PROVE Aside
  <2>1. UNCHANGED <<pass, recon>>
    BY <1>1 DEF Work, Begin, Call, Ask, Suspend, Finish, coordinator
  <2>2. CASE Begin(k) \/ Call(k)
    BY <1>a, <2>1, <2>2 DEF Begin, Call
  <2>3. CASE Ask(k)
    <3>1. Kept \/ (Fault /\ UNCHANGED <<mem, disk, available>>)
      BY <2>3 DEF Ask, Kept
    <3>2. QED BY <1>a, <2>1, <3>1
  <2>4. CASE Suspend(k)
    <3>. DEFINE w == worker[k].from + 1
    <3>1. Put(Wait(mem, w)) \/ Loses(k)
      BY <2>4 DEF Suspend, Wait
    <3>2. w \in Waits
      BY <2>4, WaitAssumption DEF Suspend, Typed, TypeOK, Shape, Waits
    <3>3. Wait(mem, w) \in Execution /\ Wait(mem, w).pending = mem.pending
          /\ Wait(mem, w).st = "waiting"
      BY <1>0, <3>2, WaitTyped
    <3>. HIDE DEF w
    <3>4. QED BY <1>b, <1>f, <2>1, <3>1, <3>3
  <2>5. ASSUME NEW st \in {"completed", "failed"}, Finish(k, st) PROVE Aside
    <3>1. Put(Edit(mem, st, None)) \/ Loses(k)
      BY <2>5 DEF Finish, Edit
    <3>2. st \in Status \ {"cancelled"}
      BY DEF Status, Terminal
    <3>3. QED BY <1>d, <1>f, <2>1, <3>1, <3>2, NoLease
  <2>6. QED BY <1>1, <2>2, <2>3, <2>4, <2>5 DEF Work
<1>2. ASSUME NEW w \in Waits,
             Decide(w) \/ ExpireApproval(w) \/ Reopen(w) \/ HandoffMoves(w) \/ Requeue(w)
      PROVE  Aside
  <2>1. UNCHANGED <<pass, recon>>
    BY <1>2 DEF Decide, ExpireApproval, Reopen, HandoffMoves, Requeue, coordinator
  <2>2. Put(Ready(w)) \/ Kept \/ (Fault /\ UNCHANGED <<mem, disk, available>>)
    BY <1>2 DEF Decide, ExpireApproval, Reopen, HandoffMoves, Requeue, Kept
  <2>3. QED BY <1>a, <1>c, <2>1, <2>2
<1>3. ASSUME NEW w \in Waits, CancelApproval(w) PROVE Aside \/ Cancels
  <2>1. UNCHANGED <<pass, recon>>
    BY <1>3 DEF CancelApproval, coordinator
  <2>2. \/ (mem.st \notin Terminal /\ Put(Cancelled(mem))) \/ Kept
        \/ (Fault /\ UNCHANGED <<mem, disk, available>>)
    BY <1>3 DEF CancelApproval, Ended
  <2>3. Put(Cancelled(mem)) => mem' = Cancelled(mem)
    BY <1>0, CancelledTyped, PutEffect DEF Typed
  <2>4. QED BY <1>a, <2>1, <2>2, <2>3 DEF Cancels
<1>4. CASE Cancel
  <2>1. UNCHANGED <<pass, recon>> /\ mem.st \notin Terminal /\ Put(Cancelled(mem))
    BY <1>4 DEF Cancel, coordinator, Ended
  <2>2. Put(Cancelled(mem)) => mem' = Cancelled(mem)
    BY <1>0, CancelledTyped, PutEffect DEF Typed
  <2>3. QED BY <2>1, <2>2 DEF Cancels
<1>5. CASE MarkDecided \/ MarkEnded
  <2>1. recon' = recon /\ (pass' = pass \/ pass' = NoPass)
    BY <1>5 DEF MarkDecided, MarkEnded, coordinator, Leaves
  <2>2. Put(Ready(mem.at)) \/ (Kept /\ MarkEnded)
    BY <1>5 DEF MarkDecided, MarkEnded
  <2>3. QED BY <1>c, <2>1, <2>2 DEF Kept, Aside
<1>6. ASSUME NEW k \in Tokens, ClaimDecided(k) \/ ClaimDue(k) \/ ClaimEnded(k) PROVE Aside
  <2>1. recon' = recon /\ (pass' = pass \/ pass' = NoPass)
    BY <1>6 DEF ClaimDecided, ClaimDue, ClaimEnded, coordinator, Leaves
  <2>2. Claims(k) \/ Kept
    BY <1>6 DEF ClaimDecided, ClaimDue, ClaimEnded
  <2>3. QED BY <1>e, <2>1, <2>2 DEF Kept, Aside
<1>7. CASE LeaseExpires \/ TimePasses
  BY <1>a, <1>7 DEF LeaseExpires, TimePasses, coordinator
<1>8. CASE UNCHANGED vars
  BY <1>8 DEF vars, coordinator, Aside
<1>9. QED
  BY <1>1, <1>2, <1>3, <1>4, <1>5, <1>6, <1>7, <1>8 DEF Next, Pass, Reconciles

\* The cancellation of an execution and what it has reached.
Reached(w) ==
  \/ w \in requeued
  \/ handoff[w] \in Gone \cup Over /\ (handoff[w] \in Gone => ~child[w])
Waited(e) == e.at # 0 /\ KindOf[e.at] = "agent_handoff"
Remembers(e) ==
  /\ Waited(e) => handoff[e.at] # "none"
  /\ e.pending # None => e.st = "cancelled" /\ e.pending = e.at /\ Waited(e)
  /\ e.st = "cancelled" /\ e.pending = None /\ Waited(e) => Reached(e.at)
Reconciling ==
  /\ recon # "no" => mem.pending # None
  /\ recon = "sweep" => handoff[mem.pending] \in Gone
  /\ recon = "acknowledge" => Reached(mem.pending)

\* The pass of the coordinator stays with the wait it has found, from which no run
\* goes on.
Passing ==
  pass.pc # "idle" =>
    /\ pass.of \in Waits /\ KindOf[pass.of] = "agent_handoff" /\ handoff[pass.of] # "none"
    /\ available => mem.at = pass.of /\ mem.st # "running"
    /\ pass.pc = "sweep" => handoff[pass.of] = "timeout"
    /\ \A k \in Tokens : worker[k].pc # "idle" => worker[k].from # pass.of
    /\ pass.pc = "claim" /\ handoff[pass.of] = "timeout" => ~child[pass.of]

\* A run that goes on from a handoff.
Resumed ==
  \A k \in Tokens :
    worker[k].pc # "idle" /\ From(k, "agent_handoff") =>
      (handoff[worker[k].from] = "timeout" => ~child[worker[k].from])

Around ==
  /\ Remembers(mem) /\ Remembers(disk) /\ Reconciling
  /\ \A k \in Tokens : Asked(k)
  /\ Passing /\ Resumed

LEMMA AroundInit ==
  ASSUME Init
  PROVE  Around
<1>1. /\ mem.at = 0 /\ mem.pending = None /\ mem.st = "running" /\ disk = mem
      /\ recon = "no" /\ pass.pc = "idle"
      /\ \A k \in Tokens : worker[k].pc # "asked" /\ worker[k].from = 0
  BY DEF Init, New, NoPass, NoWorker
<1>2. QED
  BY <1>1 DEF Around, Remembers, Waited, Reconciling, Asked, Passing, Resumed, From

LEMMA ReachedStays ==
  ASSUME Settles, NEW w \in Waits, Reached(w)
  PROVE  Reached(w)'
BY DEF Settles, Reached, Gone, Over

\* The record of the execution.
LEMMA RemembersStep ==
  ASSUME Core, Around, Settles, [Next]_vars
  PROVE  Remembers(mem)' /\ Remembers(disk)'
<1>0. /\ Typed /\ SeenIsDurable /\ mem \in Execution /\ disk \in Execution
      /\ mem.at \in 0..MaxWaits /\ disk.at \in 0..MaxWaits
      /\ (mem.at # 0 => mem.at \in Waits) /\ (disk.at # 0 => disk.at \in Waits)
  BY WaitAssumption DEF Core, Typed, TypeOK, Execution, Waits
<1>a. ASSUME NEW x \in Execution, Remembers(x), x.at # 0 => x.at \in Waits, x' = x
      PROVE  Remembers(x)'
  BY <1>a, ReachedStays DEF Remembers, Waited, Settles
<1>b. disk' = disk => Remembers(disk)'
  BY <1>0, <1>a DEF Around
<1>c. ASSUME Remembers(mem)', disk' = disk \/ disk' = mem' PROVE Remembers(disk)'
  BY <1>b, <1>c DEF Remembers, Waited, Reached
<1>d. Crash \/ disk' = disk \/ disk' = mem'
  <2>1. ASSUME NEW k \in Tokens, Suspends(k) PROVE disk' = disk \/ disk' = mem'
    BY <2>1 DEF Suspends, Put, Saved, WriteFails
  <2>2. ASSUME NEW k \in Tokens, GivesBack(k) PROVE disk' = disk \/ disk' = mem'
    BY <2>2 DEF GivesBack, Put, Saved, WriteFails
  <2>3. ASSUME NEW k \in Tokens, Takes(k) PROVE disk' = disk \/ disk' = mem'
    BY <2>3 DEF Takes, Claims, Saved, WriteFails
  <2>4. Steady => disk' = disk \/ disk' = mem'
    BY DEF Steady, Written
  <2>5. QED BY <1>0, <2>1, <2>2, <2>3, <2>4, StepKinds
<1>1. CASE Crash
  <2>1. /\ mem' = Recovered(disk) /\ disk' = Recovered(disk)
        /\ Recovered(disk).at = disk.at /\ Recovered(disk).pending = disk.pending
        /\ Recovered(disk).st = "cancelled" <=> disk.st = "cancelled"
    BY <1>0, <1>1, RecoveredTyped DEF Crash
  <2>2. QED BY <1>0, <2>1, ReachedStays DEF Around, Remembers, Waited, Settles
<1>2. CASE Aside
  <2>1. /\ mem'.pending = mem.pending /\ (mem'.st = "cancelled" => mem.st = "cancelled")
    BY <1>2 DEF Aside
  <2>2. CASE Steady
    <3>1. mem'.at = mem.at /\ (mem.st \in Terminal => mem'.st = mem.st)
      BY <2>2 DEF Steady, Onward
    <3>2. mem'.st = "cancelled" <=> mem.st = "cancelled"
      BY <2>1, <3>1 DEF Terminal
    <3>3. Remembers(mem)'
      BY <1>0, <2>1, <3>1, <3>2, ReachedStays DEF Around, Remembers, Waited, Settles
    <3>4. QED BY <1>b, <1>c, <1>d, <1>1, <3>3
  <2>3. ASSUME NEW k \in Tokens, Suspends(k) PROVE Remembers(mem)'
    <3>. DEFINE w == worker[k].from + 1
    <3>1. w \in Waits /\ mem.st = "running" /\ Asked(k) /\ worker[k].pc = "asked"
      BY <1>0, <2>3, WaitAssumption DEF Suspends, Owner, Typed, TypeOK, Shape, Waits, Around
    <3>2. /\ Wait(mem, w) \in Execution /\ Wait(mem, w).at = w
          /\ Wait(mem, w).st = "waiting" /\ Wait(mem, w).pending = mem.pending
      BY <1>0, <3>1, WaitTyped
    <3>3. mem' = Wait(mem, w)
      BY <1>0, <2>3, <3>2, PutEffect DEF Suspends, Typed
    <3>4. mem.pending = None
      BY <3>1 DEF Around, Remembers
    <3>5. KindOf[w] = "agent_handoff" => handoff'[w] # "none"
      BY <3>1 DEF Asked, Settles
    <3>. HIDE DEF w
    <3>6. QED BY <3>2, <3>3, <3>4, <3>5 DEF Remembers, Waited
  <2>4. ASSUME NEW k \in Tokens, NEW st \in {"ready", "running"}, NEW t \in Tokens,
               Put(Edit(mem, st, t)), mem.st \notin Terminal
        PROVE  Remembers(mem)'
    <3>1. st \in Status
      BY DEF Status
    <3>2. /\ Edit(mem, st, t) \in Execution /\ Edit(mem, st, t).at = mem.at
          /\ Edit(mem, st, t).st = st /\ Edit(mem, st, t).pending = mem.pending
      BY <1>0, <3>1, EditTyped
    <3>3. mem' = Edit(mem, st, t)
      BY <1>0, <2>4, <3>2, PutEffect DEF Typed
    <3>4. mem.pending = None
      BY <2>4 DEF Around, Remembers, Terminal
    <3>5. mem'.at = mem.at /\ mem'.pending = None /\ mem'.st # "cancelled"
      BY <3>2, <3>3, <3>4
    <3>6. QED BY <1>0, <3>5 DEF Around, Remembers, Waited, Settles
  <2>5. ASSUME NEW k \in Tokens, GivesBack(k) PROVE Remembers(mem)'
    BY <2>4, <2>5, NoLease DEF GivesBack, Terminal
  <2>6. ASSUME NEW k \in Tokens, Takes(k) PROVE Remembers(mem)'
    <3>1. Put(Edit(mem, "running", k)) /\ mem.st \notin Terminal
      BY <2>6 DEF Takes, Claims, Put, Edit, Terminal
    <3>2. QED BY <2>4, <3>1
  <2>7. QED
    BY <1>0, <1>1, <1>b, <1>c, <1>d, <2>2, <2>3, <2>5, <2>6, StepKinds
<1>3. CASE Cancels
  <2>1. /\ mem' = Cancelled(mem) /\ mem'.at = mem.at /\ mem'.st = "cancelled"
        /\ mem'.pending = IF Waited(mem) THEN mem.at ELSE None
    BY <1>0, <1>3, CancelledTyped DEF Cancels, Waited
  <2>2. Remembers(mem)'
    BY <1>0, <2>1 DEF Around, Remembers, Waited, Settles, None
  <2>3. QED BY <1>1, <1>c, <1>d, <2>2
<1>4. CASE Acknowledge
  <2>1. mem' = mem \/ mem' = [mem EXCEPT !.pending = None]
    BY <1>4 DEF Acknowledge, Put, Saved, WriteFails, Kept
  <2>2. mem'.at = mem.at /\ mem'.st = mem.st /\ mem'.pending \in {mem.pending, None}
    BY <1>0, <2>1 DEF Execution
  <2>3. mem.pending = mem.at /\ Reached(mem.at) /\ mem.at \in Waits
    BY <1>0, <1>4 DEF Acknowledge, Around, Remembers, Reconciling, Waited
  <2>4. Remembers(mem)'
    BY <1>0, <2>2, <2>3, ReachedStays DEF Around, Remembers, Waited, Settles
  <2>5. QED BY <1>1, <1>c, <1>d, <2>4
<1>5. CASE Look \/ ExpireHandoff \/ SweepExpired \/ Reconcile \/ SweepCancelled
  <2>1. mem' = mem
    BY <1>5 DEF Look, ExpireHandoff, SweepExpired, Reconcile, SweepCancelled, Kept, ChildrenEnd,
      Saved, WriteFails
  <2>2. Remembers(mem)'
    BY <1>0, <1>a, <2>1 DEF Around
  <2>3. QED BY <1>1, <1>c, <1>d, <2>2
<1>6. QED
  BY <1>0, <1>1, <1>2, <1>3, <1>4, <1>5, StepAside

\* The conversation that cancels.
LEMMA ReconcilingStep ==
  ASSUME Core, Around, Settles, [Next]_vars
  PROVE  Reconciling'
<1>0. /\ Typed /\ SeenIsDurable /\ mem \in Execution
      /\ mem.pending # None => mem.pending \in Waits /\ handoff[mem.pending] # "none"
  BY DEF Core, Typed, TypeOK, Execution, Around, Remembers, Waited
<1>a. ASSUME recon' = recon \/ recon' = "no", mem'.pending = mem.pending PROVE Reconciling'
  BY <1>0, <1>a, ReachedStays DEF Around, Reconciling, Settles
<1>1. CASE Aside
  BY <1>1, <1>a DEF Aside
<1>2. CASE Cancels
  <2>1. mem.pending = None /\ recon' = recon
    BY <1>2 DEF Cancels, Around, Remembers, Terminal
  <2>2. recon' = "no"
    BY <2>1 DEF Around, Reconciling, Core, Typed, TypeOK
  <2>3. QED BY <2>2 DEF Reconciling
<1>3. CASE Crash \/ Acknowledge
  BY <1>3 DEF Crash, Acknowledge, Reconciling
<1>4. CASE Look \/ ExpireHandoff
  <2>1. mem' = mem /\ recon' = recon
    BY <1>4 DEF Look, ExpireHandoff, Kept, Passes
  <2>2. QED BY <1>a, <2>1
<1>5. CASE SweepExpired
  <2>1. mem' = mem /\ recon' = recon
    BY <1>5 DEF SweepExpired, Kept, ChildrenEnd, Saved, WriteFails, Passes, Leaves
  <2>2. QED BY <1>a, <2>1
<1>6. CASE Reconcile
  <2>1. /\ mem' = mem /\ mem.pending \in Waits /\ mem.pending # None
        /\ handoff[mem.pending] \in HandoffStatus \ {"none"}
        /\ handoff'[mem.pending] =
             IF handoff[mem.pending] \in {"open", "closed"} THEN "cancelled" ELSE handoff[mem.pending]
        /\ recon' = IF handoff'[mem.pending] \in Over THEN "acknowledge" ELSE "sweep"
    BY <1>0, <1>6 DEF Reconcile, Kept, Typed, TypeOK, Over
  <2>2. handoff'[mem.pending] \in Gone \cup Over
    BY <2>1 DEF HandoffStatus, WaitStatus, Gone, Over
  <2>3. QED BY <1>0, <2>1, <2>2 DEF Reconciling, Reached, Gone, Over
<1>7. CASE SweepCancelled
  <2>1. mem' = mem /\ handoff' = handoff /\ mem.pending \in Waits /\ mem.pending # None
        /\ handoff[mem.pending] \in Gone
    BY <1>0, <1>7 DEF SweepCancelled, Kept, ChildrenEnd, Saved, WriteFails, Around, Reconciling
  <2>2. CASE recon' = "acknowledge"
    <3>1. child' = [child EXCEPT ![mem.pending] = FALSE]
      BY <1>7, <2>2 DEF SweepCancelled, ChildrenEnd, WriteFails
    <3>2. ~child'[mem.pending]
      BY <2>1, <3>1 DEF Core, Typed, TypeOK
    <3>3. QED BY <2>1, <2>2, <3>2 DEF Reconciling, Reached
  <2>3. CASE recon' = "no"
    BY <2>3 DEF Reconciling
  <2>4. QED BY <1>7, <2>2, <2>3 DEF SweepCancelled
<1>8. QED
  BY <1>0, <1>1, <1>2, <1>3, <1>4, <1>5, <1>6, <1>7, StepAside

\* The execution a pass has found stays at its wait and is not run by others.
LEMMA PassingStays ==
  ASSUME Core, Around, Settles, [Next]_vars, ~Crash, pass.pc # "idle", available'
  PROVE  \/ /\ available /\ mem'.at = pass.of /\ mem'.st # "running"
         \/ pass.pc = "claim" /\ \E k \in Tokens : Takes(k)
<1>0. /\ Typed /\ SeenIsDurable /\ mem \in Execution /\ Passing
  BY DEF Core, Typed, TypeOK, Around
<1>1. CASE Steady
  <2>1. available /\ mem'.at = mem.at /\ (mem'.st = "running" => mem.st = "running")
    BY <1>1, Zenon DEF Steady, Written, Onward
  <2>2. QED BY <1>0, <2>1 DEF Passing
<1>2. ASSUME NEW k \in Tokens, Suspends(k) \/ GivesBack(k) PROVE FALSE
  <2>1. available /\ mem.st = "running"
    BY <1>2 DEF Suspends, GivesBack, Owner, Put, Saved, WriteFails
  <2>2. QED BY <1>0, <2>1 DEF Passing
<1>3. ASSUME NEW k \in Tokens, Takes(k) PROVE pass.pc = "claim"
  <2>1. available /\ (~At("agent_handoff") \/ pass.pc = "claim")
    BY <1>3 DEF Takes
  <2>2. mem.at = pass.of /\ pass.of \in Waits /\ KindOf[pass.of] = "agent_handoff"
    BY <1>0, <2>1 DEF Passing
  <2>3. mem.at # 0
    BY <2>2 DEF Waits
  <2>4. QED BY <2>1, <2>2, <2>3 DEF At
<1>4. QED BY <1>0, <1>1, <1>2, <1>3, StepKinds

LEMMA TakesEndsPass ==
  ASSUME Typed, NEW k \in Tokens, Takes(k), [Next]_vars, pass.pc = "claim", pass' # NoPass
  PROVE  ~At("agent_handoff")
<1>1. claims' = claims + 1 /\ claims \in Nat
  BY DEF Takes, Claims, Typed, TypeOK
<1>2. claims' # claims
  BY <1>1
<1>3. ASSUME NEW j \in Tokens, ClaimDecided(j) \/ ClaimDue(j) PROVE ~At("agent_handoff")
  BY <1>3 DEF ClaimDecided, ClaimDue, At
<1>4. ASSUME NEW j \in Tokens, ClaimEnded(j) PROVE FALSE
  BY <1>4 DEF ClaimEnded, Leaves
<1>5. ASSUME NEW j \in Tokens, Work(j) PROVE FALSE
  BY <1>2, <1>5 DEF Work, Begin, Call, Ask, Suspend, Finish
<1>6. ASSUME NEW w \in Waits, Decide(w) \/ ExpireApproval(w) \/ Reopen(w) \/ CancelApproval(w)
                                \/ HandoffMoves(w) \/ Requeue(w)
      PROVE  FALSE
  BY <1>2, <1>6 DEF Decide, ExpireApproval, Reopen, CancelApproval, HandoffMoves, Requeue
<1>7. ASSUME Cancel \/ MarkDecided \/ Look \/ ExpireHandoff \/ SweepExpired \/ MarkEnded
               \/ Reconciles \/ LeaseExpires \/ TimePasses \/ Crash \/ UNCHANGED vars
      PROVE  FALSE
  BY <1>2, <1>7 DEF Cancel, MarkDecided, Look, ExpireHandoff, SweepExpired, MarkEnded, Reconciles,
    Reconcile, SweepCancelled, Acknowledge, LeaseExpires, TimePasses, Crash, vars
<1>8. QED BY <1>3, <1>4, <1>5, <1>6, <1>7 DEF Next, Pass

\* No run begins while a pass goes on.
LEMMA PassAlone ==
  ASSUME Core, Around, [Next]_vars, ~Crash, pass.pc # "idle", pass' # NoPass
  PROVE  Shrinks
<1>0. Typed /\ SeenIsDurable /\ Passing
  BY DEF Core, Around
<1>1. ASSUME NEW k \in Tokens, Takes(k) PROVE FALSE
  <2>1. available /\ mem.at = pass.of /\ pass.of \in Waits /\ KindOf[pass.of] = "agent_handoff"
    BY <1>0, <1>1 DEF Takes, Passing
  <2>2. At("agent_handoff")
    BY <2>1 DEF At, Waits
  <2>3. pass.pc = "claim"
    BY <1>1, <2>2 DEF Takes
  <2>4. QED BY <1>0, <1>1, <2>2, <2>3, TakesEndsPass
<1>2. ASSUME NEW k \in Tokens, Suspends(k) \/ GivesBack(k) PROVE Shrinks
  BY <1>0, <1>2, WorkerShrinks DEF Suspends, GivesBack
<1>3. QED BY <1>0, <1>1, <1>2, StepKinds DEF Steady

LEMMA PassingStep ==
  ASSUME Core, Around, Settles, [Next]_vars
  PROVE  Passing'
<1>0. /\ Typed /\ SeenIsDurable /\ mem \in Execution /\ Passing
      /\ pass.pc \in {"idle", "expire", "sweep", "mark", "claim"}
      /\ pass.goal \in {"mark", "claim"}
  BY DEF Core, Typed, TypeOK, Around
<1>a. ASSUME pass' = NoPass PROVE Passing'
  BY <1>a DEF NoPass, Passing
<1>b. ASSUME pass.pc # "idle", pass' # NoPass, available', ~Crash
      PROVE  available /\ mem'.at = pass.of /\ mem'.st # "running"
  <2>1. CASE pass.pc = "claim" /\ \E k \in Tokens : Takes(k)
    <3>1. PICK k \in Tokens : Takes(k)
      BY <2>1
    <3>2. ~At("agent_handoff")
      BY <1>0, <1>b, <2>1, <3>1, TakesEndsPass
    <3>3. available /\ mem.at = pass.of /\ pass.of \in Waits /\ KindOf[pass.of] = "agent_handoff"
      BY <1>0, <2>1, <3>1 DEF Takes, Passing
    <3>4. QED BY <3>2, <3>3 DEF At, Waits
  <2>2. QED BY <1>b, <2>1, PassingStays
<1>1. ASSUME pass' = pass, ~Crash PROVE Passing'
  <2>1. CASE pass.pc = "idle"
    BY <1>1, <2>1 DEF Passing
  <2>2. CASE pass.pc # "idle"
    <3>1. pass # NoPass
      BY <2>2 DEF NoPass
    <3>2. Shrinks
      BY <1>1, <2>2, <3>1, PassAlone
    <3>3. \A k \in Tokens : worker'[k].pc # "idle" => worker'[k].from # pass.of
      BY <1>0, <2>2, <3>2 DEF Passing, Shrinks
    <3>4. pass.pc \in {"sweep", "claim"} /\ handoff'[pass.of] = "timeout" =>
            handoff[pass.of] = "timeout"
      BY <1>0, <2>2 DEF Passing, Settles
    <3>5. handoff[pass.of] = "timeout" =>
            handoff'[pass.of] = "timeout" /\ (child'[pass.of] => child[pass.of])
      BY <1>0, <2>2 DEF Passing, Settles, Gone
    <3>6. QED BY <1>0, <1>1, <1>b, <2>2, <3>1, <3>3, <3>4, <3>5 DEF Passing, Settles
  <2>3. QED BY <2>1, <2>2
<1>2. CASE Aside \/ Cancels \/ Reconcile \/ SweepCancelled \/ Acknowledge
  <2>1. pass' = pass \/ pass' = NoPass
    BY <1>2 DEF Aside, Cancels, Reconcile, SweepCancelled, Acknowledge
  <2>2. Crash => pass' = NoPass
    BY DEF Crash
  <2>3. QED BY <1>1, <1>a, <2>1, <2>2
<1>3. CASE Crash
  BY <1>3, <1>a DEF Crash
<1>4. CASE Look
  <2>1. /\ mem' = mem /\ available' = available /\ handoff' = handoff /\ child' = child
        /\ At("agent_handoff") /\ mem.st \in {"waiting", "ready"}
        /\ pass'.of = mem.at /\ handoff[mem.at] # "none"
        /\ pass'.pc \in {"expire", "mark", "claim"}
        /\ pass'.pc = "claim" => handoff[mem.at] # "timeout"
        /\ available /\ worker' = worker
    BY <1>4 DEF Look, Kept, handoffs, Closed
  <2>2. mem.at \in Waits /\ KindOf[mem.at] = "agent_handoff"
    BY <1>0, <2>1, WaitAssumption DEF At, Execution, Waits
  <2>3. \A k \in Tokens : worker[k].pc # "idle" => worker[k].from # mem.at
    BY <2>1, <2>2 DEF Core, Line, At
  <2>4. QED BY <2>1, <2>2, <2>3 DEF Passing
<1>5. CASE ExpireHandoff
  <2>1. /\ mem' = mem /\ available' = available /\ child' = child /\ pass.pc = "expire"
        /\ pass.of \in Waits /\ worker' = worker
    BY <1>0, <1>5 DEF ExpireHandoff, Kept, Passing
  <2>2. CASE handoff[pass.of] \in {"open", "timeout"}
    <3>1. handoff'[pass.of] = "timeout" /\ pass' = [pass EXCEPT !.pc = "sweep"]
      BY <1>0, <1>5, <2>1, <2>2 DEF ExpireHandoff, Passes, Typed, TypeOK
    <3>2. pass'.pc = "sweep" /\ pass'.of = pass.of
      BY <1>0, <3>1 DEF Typed, TypeOK
    <3>3. QED BY <1>0, <2>1, <3>1, <3>2 DEF Passing
  <2>3. CASE handoff[pass.of] \notin {"open", "timeout"}
    <3>1. handoff' = handoff /\ pass' = [pass EXCEPT !.pc = pass.goal]
      BY <1>5, <2>3 DEF ExpireHandoff, Passes
    <3>2. pass'.pc \in {"mark", "claim"} /\ pass'.of = pass.of
      BY <1>0, <3>1 DEF Typed, TypeOK
    <3>3. QED BY <1>0, <2>1, <2>3, <3>1, <3>2 DEF Passing
  <2>4. QED BY <2>2, <2>3
<1>6. CASE SweepExpired
  <2>1. /\ mem' = mem /\ handoff' = handoff /\ pass.pc = "sweep" /\ pass.of \in Waits
        /\ worker' = worker
    BY <1>0, <1>6 DEF SweepExpired, Kept, ChildrenEnd, Saved, WriteFails, Passing
  <2>2. CASE ~Passes(pass.goal)
    BY <1>6, <1>a, <2>2 DEF SweepExpired, Leaves
  <2>3. CASE Passes(pass.goal) /\ pass' # NoPass
    <3>1. /\ available /\ available' /\ child' = [child EXCEPT ![pass.of] = FALSE]
      BY <1>6, <2>3, Zenon DEF SweepExpired, ChildrenEnd, WriteFails, Saved, Leaves
    <3>2. ~child'[pass.of]
      BY <1>0, <2>1, <3>1 DEF Typed, TypeOK
    <3>3. pass'.pc \in {"mark", "claim"} /\ pass'.of = pass.of
      BY <1>0, <2>3 DEF Passes, Typed, TypeOK
    <3>4. QED BY <1>0, <2>1, <3>1, <3>2, <3>3 DEF Passing
  <2>4. QED BY <1>a, <2>2, <2>3
<1>7. QED
  BY <1>0, <1>2, <1>3, <1>4, <1>5, <1>6, StepAside

\* The runs that go on from a handoff.
LEMMA ResumedStep ==
  ASSUME Core, Around, Settles, [Next]_vars
  PROVE  Resumed'
<1>0. /\ Typed /\ SeenIsDurable /\ mem \in Execution /\ Passing /\ Resumed
      /\ \A k \in Tokens : worker[k].from \in 0..MaxWaits
  BY DEF Core, Typed, TypeOK, Around
<1>a. ASSUME NEW j \in Tokens, worker[j].pc # "idle", worker'[j].from = worker[j].from,
             From(j, "agent_handoff")', handoff'[worker'[j].from] = "timeout"
      PROVE  ~child'[worker'[j].from]
  <2>1. From(j, "agent_handoff") /\ worker[j].from \in Waits
    BY <1>0, <1>a, WaitAssumption DEF From, Waits
  <2>2. handoff[worker[j].from] = "timeout"
    BY <1>0, <1>a, <2>1 DEF Settles, Passing
  <2>3. QED BY <1>0, <1>a, <2>1, <2>2 DEF Resumed, Settles, Gone
<1>1. CASE Shrinks
  BY <1>1, <1>a DEF Shrinks, Resumed
<1>2. ASSUME NEW k \in Tokens, Takes(k) PROVE Resumed'
  <2>1. Starts(k) \/ UNCHANGED worker
    BY <1>2 DEF Takes, Claims
  <2>2. UNCHANGED worker => Shrinks
    BY DEF Shrinks
  <2>3. CASE Starts(k)
    <3>1. /\ worker'[k].from = mem.at
          /\ \A j \in Tokens : j # k => worker'[j] = worker[j]
      BY <1>0, <2>3 DEF Starts, Typed, TypeOK
    <3>2. From(k, "agent_handoff")' /\ handoff'[mem.at] = "timeout" => ~child'[mem.at]
      <4>1. ASSUME From(k, "agent_handoff")' PROVE At("agent_handoff")
        BY <3>1, <4>1 DEF From, At
      <4>2. At("agent_handoff") => available /\ pass.pc = "claim"
        BY <1>2 DEF Takes
      <4>3. ASSUME At("agent_handoff"), handoff'[mem.at] = "timeout" PROVE ~child'[mem.at]
        <5>1. mem.at \in Waits /\ (handoff[mem.at] = "timeout" => ~child[mem.at])
          BY <1>0, <4>2, <4>3 DEF Passing
        <5>2. handoff[mem.at] = "timeout"
          BY <4>2, <4>3, <5>1 DEF Settles
        <5>3. QED BY <5>1, <5>2 DEF Settles, Gone
      <4>4. QED BY <4>1, <4>3
    <3>3. \A j \in Tokens : j # k /\ worker'[j].pc # "idle" => worker[j].pc # "idle"
      BY <3>1
    <3>4. QED BY <1>a, <3>1, <3>2, <3>3 DEF Resumed
  <2>4. QED BY <1>1, <2>1, <2>2, <2>3
<1>3. ASSUME NEW k \in Tokens, Suspends(k) \/ GivesBack(k) PROVE Resumed'
  <2>1. Ends(k)
    BY <1>3 DEF Suspends, GivesBack
  <2>2. QED BY <1>0, <1>1, <2>1, WorkerShrinks
<1>4. CASE Steady
  BY <1>1, <1>4 DEF Steady
<1>5. CASE Crash
  BY <1>5 DEF Crash, NoWorker, Resumed
<1>6. QED BY <1>0, <1>2, <1>3, <1>4, <1>5, StepKinds

LEMMA AroundStep ==
  ASSUME Core, Around, [Next]_vars
  PROVE  Around'
<1>1. Settles
  BY StepSettles DEF Core
<1>2. Remembers(mem)' /\ Remembers(disk)'
  BY <1>1, RemembersStep
<1>3. Reconciling' /\ Passing' /\ Resumed'
  BY <1>1, ReconcilingStep, PassingStep, ResumedStep
<1>4. \A k \in Tokens : Asked(k)'
  BY <1>1, StepAsked DEF Core, Around
<1>5. QED BY <1>2, <1>3, <1>4 DEF Around

\* With Core, what the passes of the coordinator know of the handoff they look after,
\* at every step between its two stores.
THEOREM ExecutionInductive == Spec => [](Core /\ Around)
<1>1. Init => Core /\ Around
  BY CoreInit, AroundInit
<1>2. Core /\ Around /\ [Next]_vars => (Core /\ Around)'
  BY CoreStep, AroundStep
<1>3. QED BY <1>1, <1>2, PTL DEF Spec

\* A cancellation is acknowledged only when it has reached the handoff and the
\* children it was cancelled with, in another store and across crashes.
THEOREM CancellationIsReached == Spec => []CancellationReached
<1>1. Core /\ Around => CancellationReached
  BY DEF Around, Remembers, Waited, Reached, Gone, Over, CancellationReached
<1>2. QED BY <1>1, ExecutionInductive, PTL

\* A run goes on from a handoff that timed out only after its children have ended.
THEOREM ResumesAfterChild == Spec => []ResumedAfterChild
<1>1. Core /\ Around => ResumedAfterChild
  BY DEF Around, Resumed, ResumedAfterChild
<1>2. QED BY <1>1, ExecutionInductive, PTL
=============================================================================
