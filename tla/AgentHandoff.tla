----------------------------- MODULE AgentHandoff -----------------------------
(***************************************************************************)
(* Agent tasks and their handoffs: AgentTaskStore (agent_tasks.py) with    *)
(* its snapshot file, HandoffExecutor (handoff_executor.py) which claims   *)
(* handoffs and runs their targets, the workflow children those targets    *)
(* start, and the requests that decide, cancel, expire and requeue a       *)
(* handoff meanwhile (main.py).                                            *)
(*                                                                         *)
(* A handoff is the number of its creation, a lease token the number of    *)
(* the claim, which also names the child of that claim.  The two clocks    *)
(* are booleans: "leased" (the lease has not run out) and "due" (the time  *)
(* of the next attempt has come).  waiting_approval and waiting_client are *)
(* one status, "waiting".                                                  *)
(***************************************************************************)
EXTENDS Integers, FiniteSets, HandoffView

CONSTANTS
  N,              \* how many handoffs there are
  Tasks,
  TaskOf,         \* the task of each handoff
  MaxAttempts,    \* max_attempts of the executor, 1 under no_auto_retry
  MaxConcurrency, \* max_concurrency of the executor
  MaxClaims,      \* bound: claims of one handoff
  MaxRequeues,    \* bound: requeues by an operator
  MaxTimed,       \* bound: the last claim whose child a timer takes to an approval
  MaxFaults       \* bound: crashes and failed writes

Handoffs == 1..N

ASSUME HandoffAssumption ==
  /\ N \in Nat /\ TaskOf \in [Handoffs -> Tasks]
  /\ MaxAttempts \in Nat \ {0} /\ MaxConcurrency \in Nat \ {0}
  /\ MaxClaims \in Nat /\ MaxRequeues \in Nat /\ MaxTimed \in Nat /\ MaxFaults \in Nat

VARIABLES
  mem,       \* AgentTaskStore._tasks and ._handoffs
  disk,      \* agent_tasks.json
  uncertain, \* _handoff_commit_uncertain
  proc,      \* execute_handoff, for the handoffs in _active_handoffs
  batch,     \* the handoffs run_once waits for in its gather
  request,   \* the second half of a request about a handoff, yet to come
  sweep,     \* tasks whose children a cancelling request has yet to cancel
  claims,    \* how many claims a handoff has had
  child,     \* the workflow execution each claim started
  owed,      \* outcomes a resumed child's caller has yet to project
  calls,     \* history: calls of the target since attempts were last reset
  requeues, faults

executor == <<proc, batch>>
requests == <<request, sweep>>
children == <<claims, child, owed, calls>>
bounds == <<requeues, faults>>
vars == <<mem, disk, uncertain, executor, requests, children, bounds>>

Tokens == 1..MaxClaims
None == 0

TaskOpen == {"pending", "running", "waiting", "needs_attention"}
TaskDecided == {"completed", "failed", "cancelled"}
Ended == {"completed", "rejected", "dead_letter"}
HandoffStatus ==
  {"absent", "pending", "accepted", "retry_wait", "waiting", "needs_attention"} \cup Ended
ChildEnded == {"none", "ended"}
\* "waiting" is for an approval or a client, "parked" for a timer, the retry of a node
\* or a nested handoff; "interrupted" was reloaded and is claimed by no loop; "ended"
\* is completed, failed or cancelled.
ChildStatus ==
  {"running", "resumed", "waiting", "parked", "interrupted"} \cup ChildEnded
\* How a call of execute_target comes back.
Outcome == {"completed", "waiting", "parked", "cancelled", "failed", "permanent"}
Step == {"queued", "claimed", "accepted", "cleared", "calling", "returned"}

HandoffRecord ==
  [st : HandoffStatus, ready : BOOLEAN, att : 0..MaxAttempts,
   tok : {None} \cup Tokens, leased : BOOLEAN, due : BOOLEAN,
   run : {None} \cup Tokens, prior : {None} \cup Tokens, since : {None} \cup Tokens]
TaskRecord == [st : {"absent"} \cup TaskOpen \cup TaskDecided, bound : {None} \cup Handoffs]
Store == [task : [Tasks -> TaskRecord], handoff : [Handoffs -> HandoffRecord]]

TypeOK ==
  /\ mem \in Store /\ disk \in Store
  /\ uncertain \in BOOLEAN
  /\ proc \in [Handoffs -> [pc : {"idle"} \cup Step, tok : {None} \cup Tokens,
                            out : {"none"} \cup Outcome]]
  /\ batch \subseteq Handoffs
  /\ request \in [Handoffs -> {"none", "publish", "running", "completed", "failed",
                               "needs_attention"}]
  /\ sweep \subseteq Tasks
  /\ claims \in [Handoffs -> 0..MaxClaims]
  /\ child \in [Handoffs -> [Tokens -> ChildStatus]]
  /\ owed \in [Handoffs -> [Tokens -> {"none", "completed", "waiting", "cancelled"}]]
  /\ calls \in [Handoffs -> Nat]
  /\ requeues \in 0..MaxRequeues /\ faults \in 0..MaxFaults

NoHandoff ==
  [st |-> "absent", ready |-> FALSE, att |-> 0, tok |-> None, leased |-> FALSE,
   due |-> TRUE, run |-> None, prior |-> None, since |-> None]
NoTask == [st |-> "absent", bound |-> None]
Empty == [task |-> [t \in Tasks |-> NoTask], handoff |-> [h \in Handoffs |-> NoHandoff]]
Idle == [pc |-> "idle", tok |-> None, out |-> "none"]

Init ==
  /\ mem = Empty /\ disk = Empty
  /\ uncertain = FALSE
  /\ proc = [h \in Handoffs |-> Idle]
  /\ batch = {}
  /\ request = [h \in Handoffs |-> "none"]
  /\ sweep = {}
  /\ claims = [h \in Handoffs |-> 0]
  /\ child = [h \in Handoffs |-> [k \in Tokens |-> "none"]]
  /\ owed = [h \in Handoffs |-> [k \in Tokens |-> "none"]]
  /\ calls = [h \in Handoffs |-> 0]
  /\ requeues = 0 /\ faults = 0

-----------------------------------------------------------------------------
(* Writing the snapshot, after which each operation of the store is named.  *)

Fault == faults < MaxFaults /\ faults' = faults + 1
NoFault == UNCHANGED faults

\* The write succeeds; an uncertain store writes nothing.
Saved(m) == ~uncertain /\ mem' = m /\ disk' = m /\ NoFault /\ UNCHANGED uncertain
\* The write fails: the change stays in memory, or is undone, or is undone
\* and the store trusts itself no longer.
LeftInMemory(m) ==
  /\ (uncertain /\ NoFault) \/ Fault
  /\ mem' = m /\ UNCHANGED <<disk, uncertain>>
RolledBack ==
  /\ (uncertain /\ NoFault) \/ Fault
  /\ UNCHANGED <<mem, disk, uncertain>>
Doubted == Fault /\ uncertain' = TRUE /\ UNCHANGED <<mem, disk>>
Kept == NoFault /\ UNCHANGED <<mem, disk, uncertain>>

Task(h) == mem.task[TaskOf[h]]
Handoff(h) == mem.handoff[h]
Both(h, t, r) ==
  [mem EXCEPT !.task = [@ EXCEPT ![TaskOf[h]] = t], !.handoff = [@ EXCEPT ![h] = r]]
WithHandoff(h, r) == Both(h, Task(h), r)
WithTask(h, t) == Both(h, t, Handoff(h))
Decided(h) == Task(h).st \in TaskDecided
Unleased(r) == [r EXCEPT !.tok = None, !.leased = FALSE]
DeadLettered(r) == [Unleased(r) EXCEPT !.st = "dead_letter", !.ready = FALSE, !.due = TRUE]

Goes(h, pc) == proc' = [proc EXCEPT ![h].pc = pc] /\ UNCHANGED batch
Ends(h) == proc' = [proc EXCEPT ![h] = Idle] /\ batch' = batch \ {h}

-----------------------------------------------------------------------------
(* Requests that create and publish a handoff.                              *)

Created(h) ==
  Both(h, IF Task(h).st = "absent" THEN [NoTask EXCEPT !.st = "pending"] ELSE Task(h),
       [NoHandoff EXCEPT !.st = "pending"])

\* create_task, create_handoff, create_task_and_handoff
Create(h) ==
  /\ Handoff(h).st = "absent" /\ \A g \in Handoffs : g < h => Handoff(g).st # "absent"
  /\ Task(h).st # "cancelled"
  /\ \/ Saved(Created(h)) /\ request' = [request EXCEPT ![h] = "publish"]
     \/ LeftInMemory(Created(h)) /\ UNCHANGED request
  /\ UNCHANGED <<executor, sweep, children, requeues>>

\* create_agent_handoff: update_handoff_metadata after the registry's awaits.
Publish(h) ==
  /\ request[h] = "publish"
  /\ request' = [request EXCEPT ![h] = "none"]
  /\ IF Task(h).st = "cancelled" THEN Kept
     ELSE LET m == WithHandoff(h, [Handoff(h) EXCEPT !.ready = TRUE])
          IN Saved(m) \/ LeftInMemory(m)
  /\ UNCHANGED <<executor, sweep, children, requeues>>

-----------------------------------------------------------------------------
(* The executor.                                                            *)

\* Mutant: a retry that is due is not listed.
EligibleUntried(h) ==
  /\ ~Decided(h) /\ Handoff(h).ready
  /\ \/ Handoff(h).st = "pending"
     \/ Handoff(h).st = "accepted" /\ ~Handoff(h).leased

\* list_executable_handoffs
Eligible(h) ==
  /\ ~Decided(h) /\ Handoff(h).ready
  /\ \/ Handoff(h).st = "pending"
     \/ Handoff(h).st = "retry_wait" /\ Handoff(h).due
     \/ Handoff(h).st = "accepted" /\ ~Handoff(h).leased

Active == {h \in Handoffs : proc[h].pc # "idle"}
Slots == MaxConcurrency - Cardinality(Active)
\* The oldest ones that are not in progress, as many as there are slots.
Chosen ==
  LET waiting == {h \in Handoffs : Eligible(h) /\ h \notin Active}
  IN {h \in waiting : Cardinality({g \in waiting : g < h}) < Slots}

\* run_once; the processes it gathers start at once.
BeginPass ==
  /\ batch = {} /\ Chosen # {}
  /\ batch' = Chosen
  /\ proc' = [h \in Handoffs |-> IF h \in Chosen THEN [Idle EXCEPT !.pc = "queued"] ELSE proc[h]]
  /\ Kept /\ UNCHANGED <<requests, children, requeues>>

\* Mutant: attempts are not limited.
ClaimAllowedAgain(h) ==
  /\ ~uncertain /\ ~Decided(h) /\ Handoff(h).ready
  /\ Handoff(h).st = "retry_wait" => Handoff(h).due
  /\ Handoff(h).st = "accepted" => ~Handoff(h).leased
  /\ Handoff(h).st \in {"pending", "retry_wait", "accepted"}

ClaimAllowed(h) ==
  /\ ~uncertain /\ ~Decided(h) /\ Handoff(h).ready
  /\ Handoff(h).st = "retry_wait" => Handoff(h).due
  /\ Handoff(h).st = "accepted" => ~Handoff(h).leased
  /\ Handoff(h).st \in {"pending", "retry_wait", "accepted"}
  /\ Handoff(h).att < MaxAttempts

\* Mutant: taking over an expired lease is not counted.
ClaimedUncounted(h, k) ==
  [Handoff(h) EXCEPT !.st = "accepted", !.tok = k, !.leased = TRUE, !.due = TRUE,
                     !.att = IF Handoff(h).st = "accepted" THEN @ ELSE @ + 1]

Claimed(h, k) ==
  [Handoff(h) EXCEPT !.st = "accepted", !.tok = k, !.leased = TRUE, !.due = TRUE,
                     !.att = @ + 1]

\* claim_handoff: a claim that is refused, or whose write fails, ends the
\* process; the second leaves the lease in memory.
TryClaim(h) ==
  /\ LET k == claims[h] + 1
         m == WithHandoff(h, Claimed(h, k))
     IN IF ~ClaimAllowed(h) THEN Kept /\ Ends(h) /\ UNCHANGED claims
        ELSE /\ k \in Tokens
             /\ claims' = [claims EXCEPT ![h] = k]
             /\ \/ /\ Saved(m)
                   /\ proc' = [proc EXCEPT ![h] = [Idle EXCEPT !.pc = "claimed", !.tok = k]]
                   /\ UNCHANGED batch
                \/ LeftInMemory(m) /\ Ends(h)
  /\ UNCHANGED <<requests, child, owed, calls, requeues>>

\* A process of run_once claims.
Claim(h) == proc[h].pc = "queued" /\ TryClaim(h)

\* execute_agent_handoff_now, with the claim it makes at once
ExecuteNow(h) ==
  /\ h \notin Active /\ Handoff(h).st \notin Ended \cup {"absent"}
  /\ TryClaim(h)

\* _require_handoff_owner_unlocked
Owner(h) ==
  /\ ~uncertain /\ ~Decided(h)
  /\ Handoff(h).st = "accepted" /\ Handoff(h).tok = proc[h].tok /\ Handoff(h).leased

\* The first settlement, "accepted".
Accept(h) ==
  /\ proc[h].pc = "claimed"
  /\ IF ~Owner(h) THEN Kept /\ Ends(h)
     ELSE \/ Saved(WithTask(h, [st |-> "running", bound |-> h])) /\ Goes(h, "accepted")
          \/ Doubted /\ Ends(h)
  /\ UNCHANGED <<requests, children, requeues>>

\* handoff_projection, the last look at the lease before the target is called.
Recheck(h) ==
  /\ proc[h].pc = "accepted"
  /\ IF Owner(h) THEN Goes(h, "cleared") ELSE Ends(h)
  /\ Kept /\ UNCHANGED <<requests, children, requeues>>

Returns(h, o) ==
  /\ proc' = [proc EXCEPT ![h] = [@ EXCEPT !.pc = "returned", !.out = o]]
  /\ UNCHANGED batch

\* Mutant: whether the task has been cancelled is not asked before the child starts.
CallUnasked(h) ==
  /\ proc[h].pc = "cleared" /\ Saved(mem)
  /\ child' = [child EXCEPT ![h][proc[h].tok] = "running"]
  /\ calls' = [calls EXCEPT ![h] = @ + 1]
  /\ Goes(h, "calling")
  /\ UNCHANGED <<requests, claims, owed, requeues>>

\* execute_xpert_handoff_target up to the registration of the child: it is
\* prepared (which may fail for good), the handoff's metadata are written, and
\* _assert_handoff_parent_not_cancelled refuses a cancelled task.
Call(h) ==
  /\ proc[h].pc = "cleared"
  /\ \/ /\ Kept
        /\ Returns(h, "failed") \/ Returns(h, "permanent")
        /\ UNCHANGED <<child, calls>>
     \/ /\ Task(h).st # "cancelled" /\ LeftInMemory(mem)
        /\ Returns(h, "failed")
        /\ UNCHANGED <<child, calls>>
     \/ /\ Task(h).st # "cancelled" /\ Saved(mem)
        /\ child' = [child EXCEPT ![h][proc[h].tok] = "running"]
        /\ calls' = [calls EXCEPT ![h] = @ + 1]
        /\ Goes(h, "calling")
  /\ UNCHANGED <<requests, claims, owed, requeues>>

\* The status of a child after an outcome.  A permanent failure is a nested
\* handoff's wait, a failure under a managed provider or an oversized result.
Standing(o) == IF o \in {"waiting", "parked"} THEN o ELSE "ended"
Standings(o) == IF o = "permanent" THEN {"parked", "ended"} ELSE {Standing(o)}

\* The stream of the child ends, with whatever outcome unless the child has been
\* cancelled meanwhile.
Return(h, o) ==
  /\ proc[h].pc = "calling"
  /\ LET k == proc[h].tok
     IN IF child[h][k] = "running"
        THEN \E c \in Standings(o) : child' = [child EXCEPT ![h][k] = c]
        ELSE o \in {"cancelled", "failed"} /\ UNCHANGED child
  /\ Returns(h, o)
  /\ Kept /\ UNCHANGED <<requests, claims, owed, calls, requeues>>

\* What execute_handoff and _finish_failure settle for an outcome.  A target
\* that neither waits for an approval nor for a client counts as completed.
Settlement(h, o) ==
  CASE o \in {"completed", "parked", "cancelled"} -> "completed"
    [] o = "waiting" -> "waiting"
    [] o = "failed" /\ Handoff(h).att < MaxAttempts -> "retry_wait"
    [] OTHER -> "dead_letter"

\* Mutant: an attempt that will be retried already fails the task.
TaskStateEarly(s) ==
  CASE s \in {"retry_wait", "dead_letter"} -> "failed" [] OTHER -> s

TaskState(s) ==
  CASE s = "retry_wait" -> "running" [] s = "dead_letter" -> "failed" [] OTHER -> s

Settled(h, o) ==
  LET s == Settlement(h, o)
  IN Both(h, [st |-> TaskState(s), bound |-> h],
          [Unleased(Handoff(h)) EXCEPT
             !.st = s, !.due = (s # "retry_wait"),
             !.run = IF s \in {"completed", "waiting"} THEN proc[h].tok ELSE @])

\* settle_claimed_handoff
Settle(h) ==
  /\ proc[h].pc = "returned"
  /\ IF Owner(h) THEN Saved(Settled(h, proc[h].out)) \/ Doubted ELSE Kept
  /\ Ends(h)
  /\ UNCHANGED <<requests, children, requeues>>

-----------------------------------------------------------------------------
(* A child that waits outlives its process.  Its approval is decided or     *)
(* expires, it runs again and its outcome is projected.                     *)

\* The approval coordinator claims the child; a cancelled task refuses it.  A wait
\* of the child that is still to be projected no longer matches it.
Resume(h, k) ==
  /\ child[h][k] = "waiting"
  /\ child' = [child EXCEPT ![h][k] = IF Task(h).st = "cancelled" THEN "ended" ELSE "resumed"]
  /\ owed' = [owed EXCEPT ![h][k] = "none"]
  /\ Kept /\ UNCHANGED <<executor, requests, claims, calls, requeues>>

\* The outcome is owed to the parent, but for a failure, which no one reports, and a
\* wait for a timer, which no one projects.
ResumedEnds(h, k, o) ==
  /\ child[h][k] = "resumed"
  /\ child' = [child EXCEPT ![h][k] = Standing(o)]
  /\ owed' = [owed EXCEPT ![h][k] = IF o \in {"failed", "parked"} THEN "none" ELSE o]
  /\ Kept /\ UNCHANGED <<executor, requests, claims, calls, requeues>>

\* A timer of the child is due, or its nested handoff has ended: a coordinator runs
\* it on to its next wait or its end and tells the parent nothing.
ParkedResumes(h, k, c) ==
  /\ child[h][k] = "parked" /\ (c = "waiting" => k <= MaxTimed)
  /\ child' = [child EXCEPT ![h][k] = IF Task(h).st = "cancelled" THEN "ended" ELSE c]
  /\ Kept /\ UNCHANGED <<executor, requests, claims, owed, calls, requeues>>

\* An operator cancels the run of the child, or its approval.  Nobody tells the
\* parent, unless a stream is there to end with it (Return, ResumedEnds).
CancelChild(h, k) ==
  /\ child[h][k] \in {"running", "waiting", "parked", "interrupted"}
  /\ child' = [child EXCEPT ![h][k] = "ended"]
  /\ owed' = [owed EXCEPT ![h][k] = "none"]
  /\ Kept /\ UNCHANGED <<executor, requests, claims, calls, requeues>>

\* The refusals of project_workflow_outcome.
Projectable(h, k) ==
  /\ Handoff(h).st \in {"accepted", "waiting", "needs_attention"}
  /\ ~Decided(h)
  /\ Task(h).bound \in {None, h}
  /\ Handoff(h).run \in {None, k}
  /\ k > Handoff(h).since
  /\ Handoff(h).prior \in {None, k} \/ Handoff(h).since # None

\* The lease of an accepted handoff is not touched.
Projected(h, k, o) ==
  Both(h, [Task(h) EXCEPT !.st = o, !.bound = h],
          [Handoff(h) EXCEPT
             !.st = IF o = "cancelled" THEN "dead_letter" ELSE o,
             !.ready = (o # "cancelled" /\ @), !.run = k, !.prior = k])

\* project_workflow_outcome, for a child that has not moved on since
Project(h, k) ==
  /\ owed[h][k] # "none"
  /\ owed' = [owed EXCEPT ![h][k] = "none"]
  /\ IF child[h][k] = Standing(owed[h][k]) /\ Projectable(h, k)
     THEN Saved(Projected(h, k, owed[h][k])) \/ RolledBack
     ELSE Kept
  /\ UNCHANGED <<executor, requests, claims, child, calls, requeues>>

\* expire_runtime_approval_execution, and the same of a client's tool
ApprovalExpires(h, k) ==
  /\ child[h][k] = "waiting" /\ request[h] = "none"
  /\ IF Handoff(h).st = "waiting"
     THEN LET m == WithHandoff(h, [Handoff(h) EXCEPT !.st = "needs_attention"])
          IN \/ Saved(m) /\ request' = [request EXCEPT ![h] = "needs_attention"]
             \/ LeftInMemory(m) /\ UNCHANGED request
     ELSE Kept /\ request' = [request EXCEPT ![h] = "needs_attention"]
  /\ UNCHANGED <<executor, sweep, children, requeues>>

-----------------------------------------------------------------------------
(* Requests about a handoff or a task.                                      *)

\* HANDOFF_TRANSITIONS, as far as update_agent_handoff_api asks for it
Transitions(st) ==
  CASE st = "pending" -> {"accepted", "rejected"}
    [] st = "accepted" -> {"completed"}
    [] st \in {"waiting", "needs_attention"} -> {"completed", "accepted"}
    [] st = "retry_wait" -> {"accepted"}
    [] OTHER -> {}

\* update_agent_handoff_api: update_handoff_status, then update_task.
Manual(h, s) ==
  /\ request[h] = "none" /\ s \in Transitions(Handoff(h).st)
  /\ LET m == WithHandoff(h, [Handoff(h) EXCEPT !.st = s])
         next == CASE s = "accepted" -> "running" [] s = "rejected" -> "failed" [] OTHER -> s
     IN \/ Saved(m) /\ request' = [request EXCEPT ![h] = next]
        \/ LeftInMemory(m) /\ UNCHANGED request
  /\ UNCHANGED <<executor, sweep, children, requeues>>

\* Mutants: the update is left in memory when it is not written, or also changes
\* a decided task.
FollowUpInPlace(h) ==
  /\ request[h] \notin {"none", "publish"}
  /\ request' = [request EXCEPT ![h] = "none"]
  /\ IF Decided(h) THEN Kept
     ELSE LET m == WithTask(h, [Task(h) EXCEPT !.st = request[h]])
          IN Saved(m) \/ LeftInMemory(m)
  /\ UNCHANGED <<executor, sweep, children, requeues>>
FollowUpAlways(h) ==
  /\ request[h] \notin {"none", "publish"}
  /\ request' = [request EXCEPT ![h] = "none"]
  /\ Saved(WithTask(h, [Task(h) EXCEPT !.st = request[h]])) \/ RolledBack
  /\ UNCHANGED <<executor, sweep, children, requeues>>

\* update_task: a decided task is left alone.
FollowUp(h) ==
  /\ request[h] \notin {"none", "publish"}
  /\ request' = [request EXCEPT ![h] = "none"]
  /\ IF Decided(h) THEN Kept
     ELSE Saved(WithTask(h, [Task(h) EXCEPT !.st = request[h]])) \/ RolledBack
  /\ UNCHANGED <<executor, sweep, children, requeues>>

\* The task is cancelled and every handoff of it that has not ended, too.
CancelledWith(t) ==
  [task |-> [mem.task EXCEPT ![t].st = "cancelled"],
   handoff |-> [h \in Handoffs |->
     IF TaskOf[h] = t /\ Handoff(h).st \notin Ended \cup {"absent"}
     THEN DeadLettered(Handoff(h)) ELSE Handoff(h)]]

\* cancel_agent_task: cancel_task, and then the children
Cancel(t) ==
  /\ mem.task[t].st \in TaskOpen \cup {"cancelled"}
  /\ t \notin sweep
  /\ \/ /\ mem.task[t].st = "cancelled" /\ Kept
        /\ sweep' = sweep \cup {t}
     \/ /\ mem.task[t].st # "cancelled" /\ Saved(CancelledWith(t))
        /\ sweep' = sweep \cup {t}
     \/ /\ mem.task[t].st # "cancelled" /\ RolledBack
        /\ UNCHANGED sweep
  /\ UNCHANGED <<executor, request, children, requeues>>

\* expire_handoff, asked for by a workflow that waits for the handoff
Expire(h) ==
  /\ Handoff(h).st \notin Ended \cup {"absent"} /\ ~Decided(h)
  /\ ~uncertain /\ Task(h).bound \in {None, h}
  /\ \/ Saved(CancelledWith(TaskOf[h])) /\ sweep' = sweep \cup {TaskOf[h]}
     \/ Doubted /\ UNCHANGED sweep
  /\ UNCHANGED <<executor, request, children, requeues>>

\* _cancel_agent_task_workflow_children
Sweep(t) ==
  /\ t \in sweep
  /\ sweep' = sweep \ {t}
  /\ child' = [h \in Handoffs |-> [k \in Tokens |->
       IF TaskOf[h] = t /\ child[h][k] \notin ChildEnded THEN "ended" ELSE child[h][k]]]
  /\ Kept /\ UNCHANGED <<executor, request, claims, owed, calls, requeues>>

\* requeue_handoff
Requeue(h, reset, repin) ==
  /\ requeues < MaxRequeues /\ requeues' = requeues + 1
  /\ Handoff(h).st \in {"retry_wait", "dead_letter"}
  /\ Task(h).st \notin {"completed", "cancelled"}
  /\ Task(h).bound \in {None, h}
  /\ LET r == Handoff(h)
         m == Both(h, [st |-> "pending", bound |-> h],
                 [Unleased(r) EXCEPT
                    !.st = "pending", !.ready = TRUE, !.due = TRUE,
                    !.att = IF reset THEN 0 ELSE @,
                    !.run = IF repin THEN None ELSE @, !.since = claims[h]])
     IN \/ Saved(m) /\ calls' = [calls EXCEPT ![h] = IF reset THEN 0 ELSE @]
        \/ RolledBack /\ UNCHANGED calls
  /\ UNCHANGED <<executor, requests, claims, child, owed>>

-----------------------------------------------------------------------------
(* Time, crashes.                                                           *)

Aged(m, h, leased, due) ==
  LET r == m.handoff[h]
  IN [m EXCEPT !.handoff =
        [@ EXCEPT ![h] = [r EXCEPT !.leased = r.leased /\ leased, !.due = r.due \/ due]]]

LeaseExpires(h) ==
  /\ Handoff(h).leased \/ disk.handoff[h].leased
  /\ mem' = Aged(mem, h, FALSE, FALSE) /\ disk' = Aged(disk, h, FALSE, FALSE)
  /\ UNCHANGED <<uncertain, executor, requests, children, bounds>>

BackoffEnds(h) ==
  /\ ~Handoff(h).due \/ ~disk.handoff[h].due
  /\ mem' = Aged(mem, h, TRUE, TRUE) /\ disk' = Aged(disk, h, TRUE, TRUE)
  /\ UNCHANGED <<uncertain, executor, requests, children, bounds>>

\* The backend dies and loads its snapshots again.
Crash ==
  /\ Fault
  /\ mem' = disk /\ uncertain' = FALSE
  /\ proc' = [h \in Handoffs |-> Idle] /\ batch' = {}
  /\ request' = [h \in Handoffs |-> "none"] /\ sweep' = {}
  /\ child' = [h \in Handoffs |-> [k \in Tokens |->
       CASE child[h][k] = "running" -> "interrupted"
         [] child[h][k] = "resumed" -> "waiting"
         [] OTHER -> child[h][k]]]
  /\ owed' = [h \in Handoffs |-> [k \in Tokens |-> "none"]]
  /\ UNCHANGED <<disk, claims, calls, requeues>>

Process(h) ==
  \/ Claim(h) \/ Accept(h) \/ Recheck(h) \/ Call(h) \/ Settle(h)
  \/ \E o \in Outcome : Return(h, o)

Next ==
  \/ BeginPass
  \/ \E h \in Handoffs :
       \/ Create(h) \/ Publish(h) \/ ExecuteNow(h) \/ Process(h)
       \/ \E s \in {"accepted", "rejected", "completed"} : Manual(h, s)
       \/ FollowUp(h) \/ Expire(h)
       \/ \E reset, repin \in BOOLEAN : Requeue(h, reset, repin)
       \/ LeaseExpires(h) \/ BackoffEnds(h)
       \/ \E k \in Tokens :
            \/ Resume(h, k) \/ Project(h, k) \/ ApprovalExpires(h, k) \/ CancelChild(h, k)
            \/ \E o \in Outcome \ {"permanent"} : ResumedEnds(h, k, o)
            \/ \E c \in {"waiting", "ended"} : ParkedResumes(h, k, c)
  \/ \E t \in Tasks : Cancel(t) \/ Sweep(t)
  \/ Crash

Spec == Init /\ [][Next]_vars

\* The loop polls for as long as the backend lives, its processes run on, and
\* a target comes back; time passes.
Fairness ==
  /\ WF_vars(BeginPass)
  /\ \A h \in Handoffs :
       WF_vars(Process(h)) /\ WF_vars(LeaseExpires(h)) /\ WF_vars(BackoffEnds(h))

FairSpec == Spec /\ Fairness

-----------------------------------------------------------------------------
(* Properties.                                                              *)

\* A task is decided in memory exactly when it is so on disk: a crash takes back
\* no decision anyone has seen, and none that failed to be written is seen.
DecisionsDurable ==
  \A t \in Tasks :
    mem.task[t].st \in TaskDecided \/ disk.task[t].st \in TaskDecided =>
      mem.task[t].st = disk.task[t].st

\* Whoever decides a task, with one commit (settlement, projection, cancellation,
\* expiry) or with two (an operator's request), leaves a handoff that says why.
Explained(m) ==
  \A t \in Tasks :
    LET ended == {m.handoff[h].st : h \in {g \in Handoffs : TaskOf[g] = t}}
    IN /\ m.task[t].st = "completed" => "completed" \in ended
       /\ m.task[t].st = "failed" => ended \cap {"rejected", "dead_letter"} # {}
DecisionsExplained == Explained(mem) /\ Explained(disk)

\* Every call of a target is an attempt on record, in memory and on disk: however
\* often leases run out, writes fail and the backend dies, a target is called at
\* most max_attempts times between two resets.
CallsCounted ==
  \A h \in Handoffs : calls[h] <= mem.handoff[h].att /\ calls[h] <= disk.handoff[h].att

\* The abstract specification, of what is on disk.
Coarse(st) ==
  CASE st = "absent" -> "none"
    [] st \in TaskDecided \cup Ended -> st
    [] OTHER -> "open"
Promise == INSTANCE HandoffPromise WITH
  task <- [t \in Tasks |-> Coarse(disk.task[t].st)],
  handoff <- [h \in Handoffs |-> Coarse(disk.handoff[h].st)]
KeepsPromise == Promise!Spec

\* The only handoff of a task, as the coordinator of goals sees it ...
Sole(h) == \A g \in Handoffs : TaskOf[g] = TaskOf[h] => g = h
GoalView(h) ==
  CASE Handoff(h).st = "rejected" -> "failed"
    [] Handoff(h).st = "dead_letter" ->
         IF Task(h).st = "cancelled" THEN "cancelled" ELSE "failed"
    [] Handoff(h).st \in {"accepted", "retry_wait"} -> "busy"
    [] Handoff(h).st = "needs_attention" -> "attention"
    [] OTHER -> Handoff(h).st
\* ... and a workflow that has been told of its creation.
WaitView(h) ==
  IF disk.handoff[h].st = "absent" THEN "none"
  ELSE IF Task(h).st = "cancelled" THEN "cancelled"
  ELSE IF Handoff(h).st \notin Ended THEN "open"
  ELSE IF ~Decided(h) THEN "closed"
  ELSE Task(h).st
ChildOn(h) == \E k \in Tokens : child[h][k] \notin ChildEnded

GoalStep(h) ==
  LET v == GoalView(h)
      moved == GoalView(h)'
      pub == Handoff(h).ready
  IN \/ UNCHANGED mem
     \/ moved = v /\ (pub' = pub \/ (pub' /\ v # "cancelled"))
     \/ v = "absent" /\ moved = "pending" /\ ~pub'
     \/ moved \in WorkMoves(v) /\ pub' = (pub /\ moved # "cancelled")
     \/ v \in Requeueable /\ moved = "pending" /\ pub'
     \/ mem' = disk
WaitStep(h) ==
  LET v == WaitView(h)
      moved == WaitView(h)'
  IN \/ UNCHANGED <<mem, disk, child>>
     \/ v = "none"
     \/ moved = v /\ (ChildOn(h)' /\ ~ChildOn(h) => v \in ChildMayStart)
     \/ /\ \/ moved \in WaitMoves(v)
           \/ v \in WaitRequeueable /\ moved = "open"
           \/ v \in WaitUndone /\ moved = "open" /\ mem' = disk
        /\ ChildOn(h)' = ChildOn(h)

\* Whatever executor, children, operators and crashes do, a handoff shows goals and
\* workflows the moves they count on and no other: what has ended stays so but for a
\* requeue, a decided task for good, and a cancelled one starts no child.  A crash
\* takes back the first half of an operator's request, and no decision.
MovesAsShown == [][\A h \in Handoffs : Sole(h) => GoalStep(h) /\ WaitStep(h)]_vars

\* A lease that ran out during the last attempt; no claim is possible any more.
Exhausted(h) ==
  /\ Handoff(h).ready /\ ~Decided(h)
  /\ Handoff(h).st = "accepted" /\ ~Handoff(h).leased /\ Handoff(h).att = MaxAttempts

Executable(h) ==
  /\ Handoff(h).ready /\ ~Decided(h)
  /\ Handoff(h).st \in {"pending", "retry_wait", "accepted"}

\* A published handoff comes to an end or to a wait within its attempts, as long
\* as none is exhausted and the store trusts its file.
HandoffConcludes ==
  \A h \in Handoffs :
    Executable(h) ~> ~Executable(h) \/ uncertain \/ \E g \in Handoffs : Exhausted(g)
=============================================================================
