--------------------------- MODULE WorkflowExecution ---------------------------
(***************************************************************************)
(* One durable workflow execution (execution_store.py) that goes from wait *)
(* to wait: for an approval (approval_store.py, approval_api.py, resumed   *)
(* by approval_coordinator.py), for an agent's handoff (resumed, expired   *)
(* and cancelled by workflow_handoff_coordinator.py) and for a timer (the  *)
(* due waits of main.py).  Its workers are the first run of the workflow   *)
(* and one more for every claim, named by the lease token of the claim.    *)
(*                                                                         *)
(* The waits are numbered in the order of the workflow's nodes; the number *)
(* of the last one registered stands for the continuation and the wait_id. *)
(* It is kept when the execution ends, where the code clears both.  A      *)
(* request or a handoff is found again by the node that made it            *)
(* (action_key, occurrence_key), so that there is one of each wait.        *)
(***************************************************************************)
EXTENDS Naturals, HandoffView

CONSTANTS
  MaxWaits,   \* how many nodes of the workflow wait
  KindOf,     \* what each of them waits for
  MaxClaims,  \* bound: claims
  MaxReopens, \* bound: expired approvals reopened and handoffs requeued
  MaxFaults   \* bound: crashes and failed writes

Waits == 1..MaxWaits
Kinds == {"approval", "agent_handoff", "timer"}

ASSUME WaitAssumption ==
  /\ MaxWaits \in Nat /\ KindOf \in [Waits -> Kinds]
  /\ MaxClaims \in Nat /\ MaxReopens \in Nat /\ MaxFaults \in Nat

VARIABLES
  mem,       \* the execution in WorkflowExecutionStore._items
  disk,      \* the execution in the snapshot file
  available, \* WorkflowExecutionStore.available
  leased,    \* the lease in memory has not run out
  approval,  \* RuntimeApprovalStore._items, by wait
  filed,     \* runtime_approvals.json
  handoff,   \* the handoff of a wait and its task
  child,     \* a handoff has a workflow child that has not ended
  overdue,   \* waits whose resume_at has passed
  worker,    \* the runs of the workflow that have not returned
  pass,      \* run_once of the handoff coordinator
  recon,     \* reconcile_cancelled_workflow_handoff
  calls,     \* history: calls of the tool an approval is about
  requeued,  \* history: waits whose handoff was opened again by an operator
  claims, reopens, faults

approvals == <<approval, filed>>
handoffs == <<handoff, child, requeued>>
coordinator == <<pass, recon>>
vars == <<mem, disk, available, leased, approvals, handoffs, overdue, worker, coordinator,
          calls, claims, reopens, faults>>

None == 0
Tokens == 0..MaxClaims
Terminal == {"completed", "failed", "cancelled"}
\* pending is the wait whose handoff is still to be cancelled.
Execution ==
  [st : {"running", "waiting", "ready"} \cup Terminal, at : 0..MaxWaits, tok : Tokens,
   pending : {None} \cup Waits]
ApprovalStatus == {"none", "pending", "decided", "expired", "cancelled"}
\* "timeout" is a cancellation by the coordinator.
HandoffStatus == WaitStatus \cup {"timeout"}
Closed == {"closed", "completed", "failed", "cancelled"}

TypeOK ==
  /\ mem \in Execution /\ disk \in Execution
  /\ available \in BOOLEAN /\ leased \in BOOLEAN
  /\ approval \in [Waits -> ApprovalStatus] /\ filed \in [Waits -> ApprovalStatus]
  /\ handoff \in [Waits -> HandoffStatus] /\ child \in [Waits -> BOOLEAN]
  /\ requeued \subseteq Waits /\ overdue \subseteq Waits
  /\ worker \in [Tokens -> [pc : {"idle", "claimed", "running", "called", "asked"},
                            from : 0..MaxWaits]]
  /\ pass \in [pc : {"idle", "expire", "sweep", "mark", "claim"}, goal : {"mark", "claim"},
               of : {None} \cup Waits]
  /\ recon \in {"no", "sweep", "acknowledge"}
  /\ calls \in [Waits -> Nat]
  /\ claims \in 0..MaxClaims /\ reopens \in 0..MaxReopens /\ faults \in 0..MaxFaults

NoWorker == [pc |-> "idle", from |-> 0]
NoPass == [pc |-> "idle", goal |-> "mark", of |-> None]
New == [st |-> "running", at |-> 0, tok |-> None, pending |-> None]

\* create, by the first run
Init ==
  /\ mem = New /\ disk = New
  /\ available = TRUE /\ leased = FALSE
  /\ approval = [w \in Waits |-> "none"] /\ filed = approval
  /\ handoff = [w \in Waits |-> "none"] /\ child = [w \in Waits |-> FALSE]
  /\ requeued = {}
  /\ overdue = {}
  /\ worker = [k \in Tokens |-> IF k = None THEN [pc |-> "running", from |-> 0] ELSE NoWorker]
  /\ pass = NoPass /\ recon = "no"
  /\ calls = [w \in Waits |-> 0]
  /\ claims = 0 /\ reopens = 0 /\ faults = 0

-----------------------------------------------------------------------------
(* Writing the snapshots.                                                   *)

Fault == faults < MaxFaults /\ faults' = faults + 1
NoFault == UNCHANGED faults

Saved(e) ==
  /\ available /\ mem' = e /\ disk' = e
  /\ NoFault /\ UNCHANGED available

\* The change stays in memory, with the file replaced or not, and the store
\* refuses everything from then on.
WriteFails(e) ==
  /\ available /\ Fault
  /\ mem' = e /\ disk' \in {disk, e} /\ available' = FALSE

Put(e) == Saved(e) \/ WriteFails(e)
Kept == NoFault /\ UNCHANGED <<mem, disk, available>>

\* The approvals are written all together and kept in memory if that fails.
Filed(w, st) ==
  /\ approval' = [approval EXCEPT ![w] = st] /\ filed' = approval'
Unfiled(w, st) ==
  /\ approval' = [approval EXCEPT ![w] = st] /\ UNCHANGED filed

Ended(e) == e.st \in Terminal
At(kind) == mem.at # 0 /\ KindOf[mem.at] = kind
Ready(w) == [mem EXCEPT !.st = "ready"]

-----------------------------------------------------------------------------
(* Workers.                                                                 *)

Goes(k, pc) == worker' = [worker EXCEPT ![k].pc = pc]
Ends(k) == worker' = [worker EXCEPT ![k] = NoWorker]

Starts(k) == worker' = [worker EXCEPT ![k] = [pc |-> "claimed", from |-> mem.at]]
From(k, kind) == worker[k].from # 0 /\ KindOf[worker[k].from] = kind

\* Mutant: a worker settles whatever has become of its execution.
OwnerUnfenced(k) == available

\* _require_optional_lease_unlocked, of a running execution; the first run has no
\* lease.
Owner(k) == available /\ mem.st = "running" /\ mem.tok = k /\ (k = None \/ leased)

\* claim, claim_due_wait: nobody runs when the claim is not written.
Claims(k) ==
  /\ k = claims + 1 /\ k \in Tokens /\ claims' = k
  /\ leased' = TRUE
  /\ \/ Saved([mem EXCEPT !.st = "running", !.tok = k]) /\ Starts(k)
     \/ WriteFails([mem EXCEPT !.st = "running", !.tok = k]) /\ UNCHANGED worker

\* The checks of the lease before the stream of a resumed worker begins.
Begin(k) ==
  /\ worker[k].pc = "claimed"
  /\ IF Owner(k) THEN Goes(k, "running") ELSE Ends(k)
  /\ Kept /\ UNCHANGED <<leased, approvals, handoffs, overdue, coordinator, calls, claims, reopens>>

\* The approved tool is called; nothing is written about it before the next
\* event of the node.
Call(k) ==
  /\ worker[k].pc = "running" /\ From(k, "approval")
  /\ calls' = [calls EXCEPT ![worker[k].from] = @ + 1]
  /\ Goes(k, "called")
  /\ Kept /\ UNCHANGED <<leased, approvals, handoffs, overdue, coordinator, claims, reopens>>

Working(k) ==
  \/ worker[k].pc = "called"
  \/ worker[k].pc = "running" /\ ~From(k, "approval")

\* A worker that lost its lease leaves its stream without an outcome; the approval
\* coordinator then takes the execution back unless another has claimed it.
Loses(k) ==
  /\ Ends(k)
  /\ IF available /\ mem.st = "running" /\ mem.tok = k /\ From(k, "approval")
     THEN Put([mem EXCEPT !.st = "ready", !.tok = None]) ELSE Kept

\* create_request, which finds a pending or decided request again;
\* create_handoff and its publication
Ask(k) ==
  /\ Working(k) /\ worker[k].from < MaxWaits
  /\ LET w == worker[k].from + 1
     IN CASE KindOf[w] = "approval" /\ approval[w] \notin {"pending", "decided"} ->
               /\ \/ Filed(w, "pending") /\ NoFault /\ Goes(k, "asked")
                  \/ Unfiled(w, "pending") /\ Fault /\ Ends(k)
               /\ UNCHANGED <<mem, disk, available, handoff>>
          [] KindOf[w] = "agent_handoff" /\ handoff[w] = "none" ->
               /\ handoff' = [handoff EXCEPT ![w] = "open"]
               /\ Goes(k, "asked")
               /\ Kept /\ UNCHANGED approvals
          [] OTHER -> Goes(k, "asked") /\ Kept /\ UNCHANGED <<approvals, handoff>>
  /\ UNCHANGED <<leased, child, requeued, overdue, coordinator, calls, claims, reopens>>

\* suspend
Suspend(k) ==
  /\ worker[k].pc = "asked"
  /\ LET w == worker[k].from + 1
     IN IF Owner(k)
        THEN /\ Put([mem EXCEPT !.st = "waiting", !.at = w, !.tok = None])
             /\ overdue' = overdue \ {w} /\ Ends(k)
        ELSE Loses(k) /\ UNCHANGED overdue
  /\ UNCHANGED <<leased, approvals, handoffs, coordinator, calls, claims, reopens>>

\* complete, fail
Finish(k, st) ==
  /\ Working(k)
  /\ IF Owner(k) THEN Put([mem EXCEPT !.st = st, !.tok = None]) /\ Ends(k) ELSE Loses(k)
  /\ UNCHANGED <<leased, approvals, handoffs, overdue, coordinator, calls, claims, reopens>>

-----------------------------------------------------------------------------
(* Approvals.                                                               *)

\* decide_runtime_approval: decide and mark_ready, without an await between them
Decide(w) ==
  /\ approval[w] = "pending"
  /\ \/ /\ Filed(w, "decided")
        /\ IF available /\ mem.st \in {"waiting", "ready"} /\ mem.at = w
           THEN Put(Ready(w)) ELSE Kept
     \/ Unfiled(w, "decided") /\ Fault /\ UNCHANGED <<mem, disk, available>>
  /\ UNCHANGED <<leased, handoffs, overdue, worker, coordinator, calls, claims, reopens>>

\* expire_due, undone when it is not written
ExpireApproval(w) ==
  /\ approval[w] = "pending"
  /\ Filed(w, "expired")
  /\ Kept /\ UNCHANGED <<leased, handoffs, overdue, worker, coordinator, calls, claims, reopens>>

Reopen(w) ==
  /\ approval[w] = "expired" /\ reopens < MaxReopens /\ reopens' = reopens + 1
  /\ \/ Filed(w, "pending") /\ NoFault
     \/ Unfiled(w, "pending") /\ Fault
  /\ UNCHANGED <<mem, disk, available, leased, handoffs, overdue, worker, coordinator, calls, claims>>

\* Mutant: the handoff is remembered only while the execution waits.
CancelledIfWaiting(e) ==
  [e EXCEPT !.st = "cancelled", !.tok = None,
            !.pending = IF e.st = "waiting" /\ KindOf[e.at] = "agent_handoff" THEN e.at ELSE None]

\* _finish of a cancelled execution: the handoff it waits for, or was resumed
\* from, is remembered in the same commit.
Cancelled(e) ==
  [e EXCEPT !.st = "cancelled", !.tok = None,
            !.pending = IF e.at # 0 /\ KindOf[e.at] = "agent_handoff" THEN e.at ELSE None]

\* cancel_runtime_approval
CancelApproval(w) ==
  /\ approval[w] \in {"pending", "expired"}
  /\ \/ /\ Filed(w, "cancelled")
        /\ IF available /\ ~Ended(mem) THEN Put(Cancelled(mem)) ELSE Kept
     \/ Unfiled(w, "cancelled") /\ Fault /\ UNCHANGED <<mem, disk, available>>
  /\ UNCHANGED <<leased, handoffs, overdue, worker, coordinator, calls, claims, reopens>>

\* cancel_workflow_task
Cancel ==
  /\ available /\ ~Ended(mem)
  /\ Put(Cancelled(mem))
  /\ UNCHANGED <<leased, approvals, handoffs, overdue, worker, coordinator, calls, claims, reopens>>

\* Mutant: only the request that decides marks the execution ready.
MarkDecidedNever == FALSE /\ UNCHANGED vars

\* ApprovalCoordinator.run_once
MarkDecided ==
  /\ available /\ At("approval") /\ mem.st = "waiting" /\ approval[mem.at] = "decided"
  /\ Put(Ready(mem.at))
  /\ UNCHANGED <<leased, approvals, handoffs, overdue, worker, coordinator, calls, claims, reopens>>

\* Mutant: an execution whose lease ran out is claimed again.
ClaimDecidedAgain(k) ==
  /\ available /\ At("approval") /\ approval[mem.at] = "decided"
  /\ (mem.st = "ready" \/ (mem.st = "running" /\ ~leased))
  /\ Claims(k)
  /\ UNCHANGED <<approvals, handoffs, overdue, coordinator, calls, reopens>>

ClaimDecided(k) ==
  /\ available /\ At("approval") /\ mem.st = "ready" /\ approval[mem.at] = "decided"
  /\ Claims(k)
  /\ UNCHANGED <<approvals, handoffs, overdue, coordinator, calls, reopens>>

-----------------------------------------------------------------------------
(* Timers.                                                                  *)

\* list_due_waits and claim_due_wait, in resume_runtime_due_execution
ClaimDue(k) ==
  /\ available /\ At("timer") /\ mem.at \in overdue
  /\ (mem.st \in {"waiting", "ready"} \/ (mem.st = "running" /\ ~leased))
  /\ Claims(k)
  /\ UNCHANGED <<approvals, handoffs, overdue, coordinator, calls, reopens>>

-----------------------------------------------------------------------------
(* WorkflowHandoffCoordinator.run_once.                                     *)

Passes(pc) == pass' = [pass EXCEPT !.pc = pc] /\ UNCHANGED recon
Leaves == pass' = NoPass /\ UNCHANGED recon

\* Mutant: a resumption does not look for children a timeout has left behind.
LookOnce ==
  /\ pass.pc = "idle" /\ available /\ At("agent_handoff")
  /\ LET w == mem.at
         to(pc, goal) == pass' = [pc |-> pc, goal |-> goal, of |-> w]
     IN \/ mem.st = "waiting" /\ handoff[w] = "open" /\ w \in overdue /\ to("expire", "mark")
        \/ mem.st = "waiting" /\ handoff[w] \notin {"none", "open"} /\ to("mark", "mark")
        \/ mem.st = "ready" /\ handoff[w] \notin {"none", "open"} /\ to("claim", "claim")
  /\ Kept /\ UNCHANGED <<leased, approvals, handoffs, overdue, worker, recon, calls, claims, reopens>>

\* What the pass finds: a handoff to expire, one that has ended, or a
\* continuation that is ready.
Look ==
  /\ pass.pc = "idle" /\ available /\ At("agent_handoff")
  /\ LET w == mem.at
         to(pc, goal) == pass' = [pc |-> pc, goal |-> goal, of |-> w]
     IN \/ mem.st = "waiting" /\ handoff[w] = "open" /\ w \in overdue /\ to("expire", "mark")
        \/ mem.st = "waiting" /\ handoff[w] \notin {"none", "open"} /\ to("mark", "mark")
        \/ mem.st = "ready" /\ handoff[w] \in Closed /\ to("claim", "claim")
        \/ mem.st = "ready" /\ handoff[w] = "timeout" /\ to("expire", "claim")
  /\ Kept /\ UNCHANGED <<leased, approvals, handoffs, overdue, worker, recon, calls, claims, reopens>>

\* expire_handoff: a handoff that has ended otherwise is left alone.
ExpireHandoff ==
  /\ pass.pc = "expire"
  /\ LET w == pass.of
     IN IF handoff[w] \in {"open", "timeout"}
        THEN handoff' = [handoff EXCEPT ![w] = "timeout"] /\ Passes("sweep")
        ELSE UNCHANGED handoff /\ Passes(pass.goal)
  /\ Kept /\ UNCHANGED <<leased, approvals, child, requeued, overdue, worker, calls, claims, reopens>>

\* cancel_agent_task_children: the commits of the children, in the same store
ChildrenEnd(w) ==
  \/ child' = [child EXCEPT ![w] = FALSE] /\ Saved(mem)
  \/ UNCHANGED child /\ WriteFails(mem)

\* _cancel_agent_task_workflow_children of a handoff that timed out
SweepExpired ==
  /\ pass.pc = "sweep"
  /\ \/ available /\ ChildrenEnd(pass.of) /\ (IF available' THEN Passes(pass.goal) ELSE Leaves)
     \/ ~available /\ Kept /\ UNCHANGED child /\ Leaves
  /\ UNCHANGED <<leased, approvals, handoff, requeued, overdue, worker, calls, claims, reopens>>

\* mark_ready, for a handoff that has ended when it is looked at last
MarkEnded ==
  /\ pass.pc = "mark"
  /\ IF available /\ mem.st \in {"waiting", "ready"} /\ mem.at = pass.of /\ handoff[pass.of] # "open"
     THEN Put(Ready(mem.at)) ELSE Kept
  /\ Leaves
  /\ UNCHANGED <<leased, approvals, handoffs, overdue, worker, calls, claims, reopens>>

ClaimEnded(k) ==
  /\ pass.pc = "claim"
  /\ IF available /\ mem.st = "ready" THEN Claims(k)
     ELSE Kept /\ UNCHANGED <<leased, worker, claims>>
  /\ Leaves
  /\ UNCHANGED <<approvals, handoffs, overdue, calls, reopens>>

\* reconcile_cancelled_workflow_handoff, by the request that cancelled the
\* execution or by a later pass: cancel_task, the children, acknowledgement
Reconcile ==
  /\ available /\ mem.pending # None /\ recon = "no"
  /\ LET w == mem.pending
     IN /\ handoff' = [handoff EXCEPT ![w] = IF @ \in {"open", "closed"} THEN "cancelled" ELSE @]
        /\ recon' = IF handoff'[w] \in {"completed", "failed"} THEN "acknowledge" ELSE "sweep"
  /\ Kept /\ UNCHANGED <<leased, approvals, child, requeued, overdue, worker, pass, calls, claims, reopens>>

SweepCancelled ==
  /\ recon = "sweep"
  /\ \/ available /\ ChildrenEnd(mem.pending) /\ recon' = (IF available' THEN "acknowledge" ELSE "no")
     \/ ~available /\ Kept /\ UNCHANGED child /\ recon' = "no"
  /\ UNCHANGED <<leased, approvals, handoff, requeued, overdue, worker, pass, calls, claims, reopens>>

\* Mutant: the acknowledgement is not written.
AcknowledgeNothing ==
  /\ recon = "acknowledge" /\ recon' = "no"
  /\ Kept
  /\ UNCHANGED <<leased, approvals, handoffs, overdue, worker, pass, calls, claims, reopens>>

\* acknowledge_handoff_cancellation
Acknowledge ==
  /\ recon = "acknowledge" /\ recon' = "no"
  /\ IF available THEN Put([mem EXCEPT !.pending = None]) ELSE Kept
  /\ UNCHANGED <<leased, approvals, handoffs, overdue, worker, pass, calls, claims, reopens>>

-----------------------------------------------------------------------------
(* The handoff itself, which AgentHandoff models; time and crashes.         *)

\* The executor, operators and the children themselves move on.
HandoffMoves(w) ==
  /\ \/ /\ handoff' \in {[handoff EXCEPT ![w] = st] : st \in WaitMoves(handoff[w])}
        /\ UNCHANGED child
     \/ handoff[w] \in ChildMayStart /\ child' = [child EXCEPT ![w] = TRUE] /\ UNCHANGED handoff
     \/ child' = [child EXCEPT ![w] = FALSE] /\ UNCHANGED handoff
  /\ Kept /\ UNCHANGED <<leased, approvals, requeued, overdue, worker, coordinator, calls, claims, reopens>>

\* requeue_handoff, which does not ask who waits for the handoff
Requeue(w) ==
  /\ handoff[w] \in WaitRequeueable /\ handoff' = [handoff EXCEPT ![w] = "open"]
  /\ requeued' = requeued \cup {w}
  /\ reopens < MaxReopens /\ reopens' = reopens + 1
  /\ Kept /\ UNCHANGED <<leased, approvals, child, overdue, worker, coordinator, calls, claims>>

LeaseExpires ==
  /\ leased /\ mem.st = "running" /\ leased' = FALSE
  /\ Kept /\ UNCHANGED <<approvals, handoffs, overdue, worker, coordinator, calls, claims, reopens>>

TimePasses ==
  /\ mem.st = "waiting" /\ KindOf[mem.at] # "approval" /\ mem.at \notin overdue
  /\ overdue' = overdue \cup {mem.at}
  /\ Kept /\ UNCHANGED <<leased, approvals, handoffs, worker, coordinator, calls, claims, reopens>>

\* Mutant: an execution that had no wait is queued, a status no one else knows.
RecoveredQueued(e) ==
  IF e.st # "running" THEN e
  ELSE [e EXCEPT !.st = IF e.at = 0 THEN "queued" ELSE "waiting", !.tok = None]

\* _load: a running execution waits again where it was resumed from.
Recovered(e) ==
  IF e.st # "running" THEN e
  ELSE [e EXCEPT !.st = IF e.at = 0 THEN "ready" ELSE "waiting", !.tok = None]

Crash ==
  /\ Fault
  /\ \E W \in SUBSET {w \in Waits : handoff[w] \in WaitUndone} :
       handoff' = [w \in Waits |-> IF w \in W THEN "open" ELSE handoff[w]]
  /\ mem' = Recovered(disk) /\ disk' = Recovered(disk)
  /\ available' = TRUE /\ leased' = FALSE
  /\ approval' = filed
  /\ worker' = [k \in Tokens |-> NoWorker]
  /\ pass' = NoPass /\ recon' = "no"
  /\ UNCHANGED <<filed, child, requeued, overdue, calls, claims, reopens>>

Work(k) ==
  \/ Begin(k) \/ Call(k) \/ Ask(k) \/ Suspend(k)
  \/ \E st \in {"completed", "failed"} : Finish(k, st)

Pass ==
  \/ Look \/ ExpireHandoff \/ SweepExpired \/ MarkEnded
  \/ \E k \in Tokens : ClaimEnded(k)
Reconciles == Reconcile \/ SweepCancelled \/ Acknowledge

Next ==
  \/ \E k \in Tokens : Work(k) \/ ClaimDecided(k) \/ ClaimDue(k)
  \/ \E w \in Waits :
       \/ Decide(w) \/ ExpireApproval(w) \/ Reopen(w) \/ CancelApproval(w)
       \/ HandoffMoves(w) \/ Requeue(w)
  \/ Cancel \/ MarkDecided \/ Pass \/ Reconciles
  \/ LeaseExpires \/ TimePasses \/ Crash

Spec == Init /\ [][Next]_vars

\* The three loops poll for as long as the backend lives, a run of the workflow
\* comes to its next wait or to its end, and time passes.
Fairness ==
  /\ WF_vars(MarkDecided) /\ WF_vars(Pass) /\ WF_vars(Reconciles)
  /\ WF_vars(\E k \in Tokens : ClaimDecided(k)) /\ WF_vars(\E k \in Tokens : ClaimDue(k))
  /\ \A k \in Tokens : WF_vars(Work(k))
  /\ WF_vars(LeaseExpires) /\ WF_vars(TimePasses)

FairSpec == Spec /\ Fairness

-----------------------------------------------------------------------------
(* Properties.                                                              *)

\* The store shows nothing it may not remember: as long as it answers, what it
\* holds is what a crash would find.
SeenIsDurable == available => mem = disk

\* The abstract specification, of what is on disk, across crashes, failed writes
\* and workers whose lease was taken over.
Promise == INSTANCE ExecutionPromise WITH
  at <- disk.at, end <- IF Ended(disk) THEN disk.st ELSE "open"
KeepsPromise == Promise!Spec

\* Leases of 60 s are not renewed for approvals and handoffs; even so no two runs
\* of the workflow ever go on from the same approval or the same handoff.
AloneUnlessTimer ==
  \A j, k \in Tokens :
    /\ j # k /\ worker[j].pc # "idle" /\ worker[k].pc # "idle"
    /\ worker[j].from = worker[k].from
    => From(j, "timer")

\* An execution cancelled while it depended on a handoff is acknowledged only when
\* the handoff's task is decided and the children it was cancelled with have ended;
\* an operator may open the handoff again.
CancellationReached ==
  /\ disk.st = "cancelled" /\ disk.pending = None
  /\ disk.at # 0 /\ KindOf[disk.at] = "agent_handoff" /\ disk.at \notin requeued
  => /\ handoff[disk.at] \in {"completed", "failed", "cancelled", "timeout"}
     /\ handoff[disk.at] \in {"cancelled", "timeout"} => ~child[disk.at]

\* "A terminal receipt may precede child cancellation across a crash": a run that
\* goes on after a timeout does not share the world with the handoff's children.
ResumedAfterChild ==
  \A k \in Tokens :
    /\ worker[k].pc # "idle" /\ From(k, "agent_handoff") /\ handoff[worker[k].from] = "timeout"
    => ~child[worker[k].from]

\* Claimed by a run that has gone, and of no loop's business: the lease ran out
\* before the stream began, or during a run that goes on from a handoff.
Stranded ==
  mem.st = "running" /\ mem.tok # None /\ worker[mem.tok].pc = "idle" /\ ~At("timer")

Served(w) ==
  CASE KindOf[w] = "approval" -> filed[w] = "decided"
    [] KindOf[w] = "agent_handoff" ->
         handoff[w] # "open" \/ (mem.st = "waiting" /\ w \in overdue)
    [] OTHER -> w \in overdue

\* A wait that is over is left behind, whatever crashes: the execution registers
\* its next wait or ends, unless its handoff is opened again.
WaitsEnd ==
  \A w \in Waits :
    mem.at = w /\ mem.st \in {"waiting", "ready"} /\ Served(w)
    ~> mem.at # w \/ Ended(mem) \/ ~available \/ Stranded \/ claims = MaxClaims
       \/ ~Served(w)

\* A cancellation that is owed to a handoff is delivered.
CancellationDelivered == mem.pending # None ~> mem.pending = None \/ ~available

\* docs/XPERT_MIDDLEWARE.md: a tool that waits for approval is executed at most
\* once.
ApprovedToolOnce == \A w \in Waits : calls[w] <= 1
=============================================================================
