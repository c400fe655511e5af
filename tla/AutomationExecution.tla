------------------------- MODULE AutomationExecution -------------------------
(***************************************************************************)
(* The life of one automation occurrence in ModelMirror's Xpert runtime:   *)
(* the execution records of AutomationStore (automation_store.py), the     *)
(* processes AutomationCoordinator runs for them                           *)
(* (automation_coordinator.py), the workflow children those processes      *)
(* start (main.py), the snapshot file and the crash of the backend.        *)
(*                                                                         *)
(* Times are kept as the time that REMAINS: a lease, a not-before time     *)
(* and the fixed runtime deadline are counted down by Tick, so that the    *)
(* model needs no bound on the clock.  A claim's uuid token is the number  *)
(* of the claim, which also names the workflow child the claim creates.    *)
(* waiting_approval and waiting_client are one status, "waiting".          *)
(***************************************************************************)
EXTENDS Integers, FiniteSets, AutomationStatus

CONSTANTS
  Execs,          \* execution ids: occurrences of automations
  MaxAttempts,    \* AutomationDefinition.max_attempts
  Lease,          \* lease_seconds, in ticks
  MaxRuntime,     \* budget.max_runtime_seconds, in ticks
  Backoff,        \* the delay before a retry, in ticks
  Slots,          \* max_concurrency of the coordinator
  MaxClaims,      \* bound: claims of one execution
  MaxRetried,     \* bound: an operator retries executions claimed this often
  MaxFaults       \* bound: crashes and failed writes

ASSUME BoundsAssumption ==
  /\ MaxAttempts \in Nat /\ Backoff \in Nat /\ Slots \in Nat
  /\ Lease \in Nat \ {0} /\ MaxRuntime \in Nat \ {0}
  /\ MaxClaims \in Nat /\ MaxRetried \in Nat /\ MaxFaults \in Nat

VARIABLES
  mem,      \* AutomationStore._executions
  disk,     \* the executions of the last snapshot that was written
  proc,     \* the process that works on an execution (in _active)
  ending,   \* processes out of _active, in the last awaits of their "finally"
  claims,   \* how many claims an execution has had: the source of tokens
  child,    \* status of the workflow execution each claim started
  owed,     \* outcomes a resumed child's caller has yet to project
  phase,    \* where AutomationCoordinator.run_once is
  todo,     \* the executions its current phase has yet to visit
  batch,    \* the processes its asyncio.gather waits for
  faults,   \* crashes and failed writes so far
  open      \* history: target calls whose outcome was never recorded

store == <<mem, disk>>
loop == <<phase, todo, batch>>
vars == <<mem, disk, proc, ending, claims, child, owed, phase, todo, batch, faults, open>>

Tokens == 1..MaxClaims
NoToken == 0
Unset == -1

Status == {"absent"} \cup Active \cup Terminal
Phase == {"none", "prepared", "started", "settled", "uncertain"}
Error == {"none", "uncertain", "other"}
Working == {"claimed", "called", "returned", "error", "overdue", "lost", "failing",
            "timeout"}
TargetAlive == {"called", "lost", "failing", "timeout"}
Outcome == {"waiting", "timer", "completed", "cancelled"}
\* A child is "ready" once it is registered, or reloaded after a crash, and
\* nobody runs it.
ChildStatus == {"none", "running", "resumed", "due_resumed", "ready", "expired",
                "failed"} \cup Outcome
ChildEnded == {"none", "completed", "failed", "cancelled"}
Phases == {"expire", "uncertain", "cancelled", "outcomes", "select", "gather"}
Ending == {"no", "quiet", "raise"}

Record ==
  [st : Status, att : Nat, rcpt : Phase, ratt : Nat,
   tok : {NoToken} \cup Tokens, lease : 0..Lease, due : 0..Backoff,
   left : {Unset} \cup 0..MaxRuntime, expd : BOOLEAN, err : Error,
   child : {NoToken} \cup Tokens]

ProcessState ==
  [pc : {"idle", "chosen"}, tok : {NoToken}, ev : {"none"}]
    \cup [pc : Working, tok : Tokens, ev : {"none", "stale"} \cup Outcome]

TypeOK ==
  /\ mem \in [Execs -> Record]
  /\ disk \in [Execs -> Record]
  /\ proc \in [Execs -> ProcessState]
  /\ ending \in [Execs -> Ending]
  /\ claims \in [Execs -> 0..MaxClaims]
  /\ child \in [Execs -> [Tokens -> ChildStatus]]
  /\ owed \in [Execs -> [Tokens -> {"none"} \cup Outcome]]
  /\ phase \in Phases
  /\ todo \in SUBSET Execs
  /\ batch \in SUBSET Execs
  /\ faults \in 0..MaxFaults
  /\ open \in [Execs -> SUBSET Tokens]

Absent ==
  [st |-> "absent", att |-> 0, rcpt |-> "none", ratt |-> 0, tok |-> NoToken,
   lease |-> 0, due |-> 0, left |-> Unset, expd |-> FALSE, err |-> "none",
   child |-> NoToken]

Idle == [pc |-> "idle", tok |-> NoToken, ev |-> "none"]

Init ==
  /\ mem = [e \in Execs |-> Absent]
  /\ disk = [e \in Execs |-> Absent]
  /\ proc = [e \in Execs |-> Idle]
  /\ ending = [e \in Execs |-> "no"]
  /\ claims = [e \in Execs |-> 0]
  /\ child = [e \in Execs |-> [k \in Tokens |-> "none"]]
  /\ owed = [e \in Execs |-> [k \in Tokens |-> "none"]]
  /\ phase = "expire"
  /\ todo = Execs
  /\ batch = {}
  /\ faults = 0
  /\ open = [e \in Execs |-> {}]

-----------------------------------------------------------------------------
(* The transitions of one record, as AutomationStore computes them.         *)

\* _dispatch_may_have_started: only a "prepared" receipt of the current
\* attempt proves that the target was not called.
MaybeStarted(r) ==
  IF r.rcpt = "none" THEN r.att > 0
  ELSE ~(r.ratt = r.att /\ r.rcpt = "prepared")

\* _assert_runtime_remaining
RuntimeRemains(r) == r.left # 0

\* The owner's side of _assert_transition_unlocked.
Owns(r, t) == r.st = "running" /\ r.tok = t /\ r.lease > 0

ClearLease(r) == [r EXCEPT !.tok = NoToken, !.lease = 0]

\* claimable
IsClaimable(r) ==
  \/ r.st = "pending" /\ r.due = 0
  \/ r.st = "running" /\ r.lease = 0

\* The refusals of claim_execution.
ClaimAllowed(r) ==
  IsClaimable(r) /\ r.due = 0 /\ ~MaybeStarted(r) /\ RuntimeRemains(r)

\* Mutant: every claim starts the runtime budget anew.
ClaimedAnew(r, t) ==
  [r EXCEPT !.st = "running", !.att = r.att + 1,
            !.rcpt = "prepared", !.ratt = r.att + 1,
            !.tok = t, !.lease = Lease, !.left = MaxRuntime]

Claimed(r, t) ==
  [r EXCEPT !.st = "running", !.att = r.att + 1,
            !.rcpt = "prepared", !.ratt = r.att + 1,
            !.tok = t, !.lease = Lease,
            !.left = IF r.left = Unset THEN MaxRuntime ELSE r.left]

\* mark_target_dispatch
DispatchAllowed(r, t) == Owns(r, t) /\ RuntimeRemains(r) /\ ~MaybeStarted(r)
\* Mutant: the phase is not advanced.
DispatchedUnmarked(r) == [r EXCEPT !.ratt = r.att]

Dispatched(r) == [r EXCEPT !.rcpt = "started", !.ratt = r.att]

Uncertain(r) == [r EXCEPT !.rcpt = "uncertain", !.ratt = r.att, !.err = "uncertain"]

\* Mutants: a parked or a queued execution is not subject to its deadline.
ExpirableUnlessWaiting(r) == r.st \in {"pending", "running"}
ExpirableUnlessPending(r) == r.st \in {"running", "waiting"}

\* _runtime_expirable
Expirable(r) ==
  r.st \in Active \/ (r.st = "dead_letter" /\ r.err = "uncertain")

\* expire_runtime_budget
MustExpire(r) == ~r.expd /\ Expirable(r) /\ r.left = 0
Expire(r) ==
  IF ~MustExpire(r) THEN r
  ELSE LET unknown == \/ r.err = "uncertain"
                      \/ r.st \in {"running", "pending"} /\ MaybeStarted(r)
           marked == IF unknown THEN Uncertain(r) ELSE [r EXCEPT !.err = "other"]
       IN ClearLease([marked EXCEPT !.st = "dead_letter", !.expd = TRUE])

\* reconcile_uncertain_dispatches
UncertainDue(r) == IsClaimable(r) /\ MaybeStarted(r)
MarkUncertain(r) ==
  IF UncertainDue(r) THEN ClearLease([Uncertain(r) EXCEPT !.st = "dead_letter"]) ELSE r

\* _settle_target_dispatch
Settle(r) ==
  IF r.rcpt # "none" /\ r.ratt = r.att THEN [r EXCEPT !.rcpt = "settled"] ELSE r

\* Mutant: an unsupported wait becomes a status of its own.
ProjectedVerbatim(r, k, o) ==
  ClearLease([Settle(r) EXCEPT !.st = o, !.err = "none", !.child = k])

\* project_workflow_outcome: the outcome o of child k becomes the parent's
\* status; a wait other than for an approval or a client is not supported.
Projected(r, k, o) ==
  LET settled == IF o = "cancelled" THEN r ELSE Settle(r)
  IN ClearLease([settled EXCEPT
       !.st = IF o = "timer" THEN "dead_letter" ELSE o,
       !.err = IF o \in {"timer", "cancelled"} THEN "other" ELSE "none",
       !.child = k])

\* expire_workflow_wait
WaitExpired(r) == ClearLease([r EXCEPT !.st = "dead_letter", !.err = "other"])

\* Mutant: a failure is retried whether or not the target was called.
FailedBlindly(r) ==
  ClearLease([r EXCEPT !.st = IF r.att < MaxAttempts THEN "pending" ELSE "dead_letter",
                       !.due = Backoff, !.err = "other", !.rcpt = "prepared"])

\* fail_execution
Failed(r) ==
  LET marked == IF MaybeStarted(r) THEN Uncertain(r) ELSE [r EXCEPT !.err = "other"]
  IN IF ~MaybeStarted(r) /\ r.att < MaxAttempts
     THEN ClearLease([marked EXCEPT !.st = "pending", !.due = Backoff])
     ELSE ClearLease([marked EXCEPT !.st = "dead_letter"])

\* renew_execution
Renewed(r) == [r EXCEPT !.lease = Lease]

\* cancel_execution
Cancelled(r) == ClearLease([r EXCEPT !.st = "cancelled", !.err = "other"])

\* Mutant: an operator's retry clears the evidence of a dispatch.
RetryAllowedBlindly(r) ==
  r.st \in {"dead_letter", "budget_limited", "cancelled"} /\ RuntimeRemains(r)

\* Mutant: a completed execution can be retried.
RetryAllowedCompleted(r) ==
  /\ r.st \in {"completed", "dead_letter", "budget_limited", "cancelled"}
  /\ RuntimeRemains(r)
  /\ MaybeStarted(r) => r.rcpt = "settled" /\ r.ratt = r.att

\* retry_execution
RetryAllowed(r) ==
  /\ r.st \in {"dead_letter", "budget_limited", "cancelled"}
  /\ RuntimeRemains(r)
  /\ MaybeStarted(r) => r.rcpt = "settled" /\ r.ratt = r.att
Retried(r, reset) ==
  LET attempt == IF reset THEN 0 ELSE r.att
  IN ClearLease([r EXCEPT !.st = "pending", !.att = attempt, !.due = 0,
                          !.err = "none", !.rcpt = "prepared", !.ratt = attempt])

-----------------------------------------------------------------------------
(* Writing the snapshot.  A failed write is an exception; every operation   *)
(* but renewal and creation then undoes its change in memory.               *)

Keep == UNCHANGED store
Save(m) == mem' = m /\ disk' = m
SaveIfChanged(m) == IF m = mem THEN Keep ELSE Save(m)
KeepInMemory(m) == mem' = m /\ UNCHANGED disk

Fault == faults < MaxFaults /\ faults' = faults + 1
NoFault == UNCHANGED faults

Set(e, r) == [mem EXCEPT ![e] = r]
Go(e, pc) == proc' = [proc EXCEPT ![e].pc = pc]

\* The process leaves _active; its "finally" and, if it raises, the effect
\* of its exception on asyncio.gather are still to come.
Finish(e, how) ==
  /\ proc' = [proc EXCEPT ![e] = Idle]
  /\ ending' = [ending EXCEPT ![e] = how]

\* _cancel_automation_workflow_children: every child that has not ended.
CancelAll(c) == [k \in Tokens |-> IF c[k] \in ChildEnded THEN c[k] ELSE "cancelled"]
Condemned(r) == r.expd \/ r.st = "cancelled"

\* The task of a target in progress is cancelled; it has yet to stop.
Signal(e) == proc' = [proc EXCEPT ![e].pc = IF @ = "called" THEN "lost" ELSE @]

-----------------------------------------------------------------------------
(* Time and crashes.                                                        *)

Dec(n) == IF n > 0 THEN n - 1 ELSE n
Aged(r) == [r EXCEPT !.lease = Dec(r.lease), !.due = Dec(r.due), !.left = Dec(r.left)]

Tick ==
  /\ mem' = [e \in Execs |-> Aged(mem[e])]
  /\ disk' = [e \in Execs |-> Aged(disk[e])]
  /\ UNCHANGED <<proc, ending, claims, child, owed, loop, faults, open>>

\* WorkflowExecutionStore._load: a running child loses its lease; one that
\* was resumed is still registered in its wait, one that was not is ready.
Recovered(c) ==
  CASE c = "running" -> "ready"
    [] c = "resumed" -> "waiting"
    [] c = "due_resumed" -> "timer"
    [] OTHER -> c

\* The backend process dies and starts again from the snapshot files.
Crash ==
  /\ Fault
  /\ mem' = disk
  /\ proc' = [e \in Execs |-> Idle]
  /\ ending' = [e \in Execs |-> "no"]
  /\ child' = [e \in Execs |-> [k \in Tokens |-> Recovered(child[e][k])]]
  /\ owed' = [e \in Execs |-> [k \in Tokens |-> "none"]]
  /\ phase' = "expire" /\ todo' = Execs /\ batch' = {}
  /\ UNCHANGED <<disk, claims, open>>

-----------------------------------------------------------------------------
(* What both the loop and an ending process do about an execution whose     *)
(* deadline has passed or that was cancelled: _reconcile_runtime_expiry and *)
(* _reconcile_cancelled.                                                    *)

Reconciled(e) ==
  LET r == Expire(mem[e])
  IN /\ SaveIfChanged(Set(e, r))
     /\ NoFault
     /\ IF Condemned(r)
        THEN child' = [child EXCEPT ![e] = CancelAll(@)] /\ Signal(e)
        ELSE UNCHANGED <<child, proc>>

\* The write of the decision fails, or, once it is written, that of the
\* children.
ReconcileFails(e) ==
  /\ Fault
  /\ \/ MustExpire(mem[e]) /\ Keep /\ UNCHANGED proc
     \/ /\ Condemned(Expire(mem[e]))
        /\ SaveIfChanged(Set(e, Expire(mem[e])))
        /\ Signal(e)
  /\ UNCHANGED child

-----------------------------------------------------------------------------
(* Requests: materialize_due and run_now create occurrences, an operator    *)
(* cancels and retries them.                                                *)

Created == {[Absent EXCEPT !.st = s] : s \in {"pending", "skipped", "budget_limited"}}

Create(e) ==
  /\ mem[e].st = "absent"
  /\ \E r \in Created :
       LET m == Set(e, r)
       IN (Save(m) /\ NoFault) \/ (KeepInMemory(m) /\ Fault)
  /\ UNCHANGED <<proc, ending, claims, child, owed, loop, open>>

\* AutomationCoordinator.cancel_execution: the decision is committed, the
\* local target is signalled, the children are cancelled; if that fails it
\* is left to the loop.
CancelExecution(e) ==
  /\ mem[e].st \in Active \cup {"cancelled"}
  /\ SaveIfChanged(Set(e, IF mem[e].st = "cancelled" THEN mem[e] ELSE Cancelled(mem[e])))
  /\ \/ NoFault /\ child' = [child EXCEPT ![e] = CancelAll(@)]
     \/ Fault /\ UNCHANGED child
  /\ Signal(e)
  /\ UNCHANGED <<ending, claims, owed, loop, open>>

\* AutomationCoordinator.retry_execution: refused while the local target of
\* the old attempt has not stopped; a cancelled execution's children are
\* cancelled first.
RetryExecution(e) ==
  /\ claims[e] <= MaxRetried
  /\ proc[e].pc \notin TargetAlive
  /\ RetryAllowed(mem[e])
  /\ \E reset \in BOOLEAN : Save(Set(e, Retried(mem[e], reset)))
  /\ child' = IF mem[e].st = "cancelled"
              THEN [child EXCEPT ![e] = CancelAll(@)] ELSE child
  /\ UNCHANGED <<proc, ending, claims, owed, loop, faults, open>>

-----------------------------------------------------------------------------
(* One pass of AutomationCoordinator.run_once.  A phase visits the          *)
(* executions one after the other; a failure is logged and left for the     *)
(* next pass, except where it is said to end the pass.                      *)

Visit(e, next) ==
  /\ e \in todo
  /\ todo' = IF todo = {e} THEN Execs ELSE todo \ {e}
  /\ phase' = IF todo = {e} THEN next ELSE phase
  /\ UNCHANGED batch

LoopExpire(e) ==
  /\ phase = "expire"
  /\ Visit(e, "uncertain")
  /\ IF Expire(mem[e]).expd
     THEN Reconciled(e) \/ ReconcileFails(e)
     ELSE UNCHANGED <<mem, disk, child, proc, faults>>
  /\ UNCHANGED <<ending, claims, owed, open>>

\* A claim that expired, or a pending record that is due, without proof that
\* its target was not called, becomes a dead letter.  A failed write ends
\* the pass, after some of the executions.
LoopUncertain ==
  /\ phase = "uncertain"
  /\ LET marked(S) == [e \in Execs |-> IF e \in S THEN MarkUncertain(mem[e]) ELSE mem[e]]
         due == {e \in Execs : UncertainDue(mem[e])}
     IN \/ SaveIfChanged(marked(due)) /\ NoFault /\ phase' = "cancelled"
        \/ /\ \E S \in SUBSET due : S # due /\ SaveIfChanged(marked(S))
           /\ Fault
           /\ phase' = "expire"
  /\ UNCHANGED <<proc, ending, claims, child, owed, todo, batch, open>>

\* Mutant: a cancelled execution is only reconciled while its target runs.
LoopCancelledLocal(e) ==
  /\ phase = "cancelled"
  /\ Visit(e, "outcomes")
  /\ IF mem[e].st = "cancelled" /\ proc[e].pc \in TargetAlive
     THEN NoFault /\ child' = [child EXCEPT ![e] = CancelAll(@)] /\ Signal(e)
     ELSE UNCHANGED <<child, proc, faults>>
  /\ UNCHANGED <<mem, disk, ending, claims, owed, open>>

LoopCancelled(e) ==
  /\ phase = "cancelled"
  /\ Visit(e, "outcomes")
  /\ \/ /\ mem[e].st = "cancelled"
        /\ \/ NoFault /\ child' = [child EXCEPT ![e] = CancelAll(@)]
           \/ Fault /\ UNCHANGED child
        /\ Signal(e)
     \/ mem[e].st # "cancelled" /\ UNCHANGED <<child, proc, faults>>
  /\ UNCHANGED <<mem, disk, ending, claims, owed, open>>

WaitOver(e) ==
  /\ mem[e].st = "waiting"
  /\ mem[e].child # NoToken
  /\ child[e][mem[e].child] = "expired"

\* Mutant: a failed write does not undo the change in memory.
ExpireWaitNoRollback(e) ==
  \/ Save(Set(e, WaitExpired(mem[e]))) /\ NoFault
  \/ KeepInMemory(Set(e, WaitExpired(mem[e]))) /\ Fault

\* expire_workflow_wait
ExpireWait(e) ==
  \/ Save(Set(e, WaitExpired(mem[e]))) /\ NoFault
  \/ Keep /\ Fault

LoopOutcomes(e) ==
  /\ phase = "outcomes"
  /\ Visit(e, "select")
  /\ IF WaitOver(e) THEN ExpireWait(e) ELSE Keep /\ NoFault
  /\ UNCHANGED <<proc, ending, claims, child, owed, open>>

Candidates == {e \in Execs : IsClaimable(mem[e]) /\ proc[e].pc = "idle"}
\* Mutant: every item that claimable(limit=slots * 2) lists is taken.
FreeSlotsDoubled ==
  LET free == 2 * (Slots - Cardinality({e \in Execs : proc[e].pc # "idle"}))
  IN IF free > 0 THEN free ELSE 0

FreeSlots ==
  LET free == Slots - Cardinality({e \in Execs : proc[e].pc # "idle"})
  IN IF free > 0 THEN free ELSE 0

\* As many of the candidates S as there are free slots begin a process.
Select(S) ==
  /\ phase = "select"
  /\ S \subseteq Candidates
  /\ Cardinality(S) <= FreeSlots
  /\ S = Candidates \/ Cardinality(S) = FreeSlots
  /\ batch' = S
  /\ proc' = [e \in Execs |-> IF e \in S THEN [Idle EXCEPT !.pc = "chosen"] ELSE proc[e]]
  /\ phase' = "gather"
  /\ UNCHANGED <<mem, disk, ending, claims, child, owed, todo, faults, open>>

LoopSelect == \E S \in SUBSET Execs : Select(S)

\* asyncio.gather ends when every process of the batch has ended, or at the
\* first that ends with an exception (which empties the batch): the others
\* then run on beside the next pass.
LoopGather ==
  /\ phase = "gather"
  /\ \A e \in batch : proc[e].pc = "idle" /\ ending[e] = "no"
  /\ phase' = "expire"
  /\ batch' = {}
  /\ UNCHANGED <<mem, disk, proc, ending, claims, child, owed, todo, faults, open>>

RunOnce ==
  \/ LoopUncertain \/ LoopSelect \/ LoopGather
  \/ \E e \in Execs : LoopExpire(e) \/ LoopCancelled(e) \/ LoopOutcomes(e)

-----------------------------------------------------------------------------
(* process(item): claim, record the dispatch, call the target, commit.      *)

Claim(e) ==
  /\ proc[e].pc = "chosen"
  /\ LET k == claims[e] + 1
     IN \/ /\ ClaimAllowed(mem[e])
           /\ k <= MaxClaims
           /\ Save(Set(e, Claimed(mem[e], k)))
           /\ claims' = [claims EXCEPT ![e] = k]
           /\ proc' = [proc EXCEPT ![e] = [pc |-> "claimed", tok |-> k, ev |-> "none"]]
           /\ UNCHANGED <<ending, faults>>
        \/ /\ ClaimAllowed(mem[e])
           /\ Keep /\ Fault
           /\ Finish(e, "quiet")
           /\ UNCHANGED claims
        \/ /\ ~ClaimAllowed(mem[e])
           /\ Finish(e, "quiet")
           /\ UNCHANGED <<mem, disk, claims, faults>>
  /\ UNCHANGED <<child, owed, loop, open>>

\* The run or its first checkpoint cannot be registered.
PreDispatchFails(e) ==
  /\ proc[e].pc = "claimed"
  /\ Go(e, "error")
  /\ UNCHANGED <<mem, disk, ending, claims, child, owed, loop, faults, open>>

\* invoke_target: the dispatch is on disk before the target is called.
Dispatch(e) ==
  /\ proc[e].pc = "claimed"
  /\ LET r == mem[e]
         k == proc[e].tok
     IN \/ /\ DispatchAllowed(r, k)
           /\ Save(Set(e, Dispatched(r)))
           /\ open' = [open EXCEPT ![e] = @ \cup {k}]
           /\ Go(e, "called")
           /\ UNCHANGED <<ending, faults>>
        \/ /\ DispatchAllowed(r, k)
           /\ Keep /\ Fault
           /\ Go(e, "error")
           /\ UNCHANGED <<ending, open>>
        \/ /\ ~DispatchAllowed(r, k)
           /\ Finish(e, "quiet")
           /\ UNCHANGED <<mem, disk, faults, open>>
  /\ UNCHANGED <<claims, child, owed, loop>>

\* dispatch_target renews while the target runs; it cancels the target when
\* the lease is lost or the write fails (the longer lease stays in memory).
Renew(e) ==
  /\ proc[e].pc = "called"
  /\ LET r == mem[e]
         renewed == Set(e, Renewed(r))
         allowed == Owns(r, proc[e].tok) /\ RuntimeRemains(r)
     IN \/ allowed /\ Save(renewed) /\ NoFault /\ UNCHANGED proc
        \/ allowed /\ KeepInMemory(renewed) /\ Fault /\ Go(e, "failing")
        \/ ~allowed /\ Keep /\ NoFault /\ Go(e, "lost")
  /\ UNCHANGED <<ending, claims, child, owed, loop, open>>

\* asyncio.wait_for cancels dispatch_target at the deadline.
Timeout(e) ==
  /\ mem[e].left = 0
  /\ \/ proc[e].pc = "called" /\ Go(e, "timeout")
     \/ proc[e].pc = "claimed" /\ Go(e, "overdue")
  /\ UNCHANGED <<mem, disk, ending, claims, child, owed, loop, faults, open>>

\* A cancelled target has stopped.
StopTarget(e) ==
  /\ \/ proc[e].pc = "lost" /\ Finish(e, "quiet")
     \/ proc[e].pc = "failing" /\ Go(e, "error") /\ UNCHANGED ending
     \/ proc[e].pc = "timeout" /\ Go(e, "overdue") /\ UNCHANGED ending
  /\ UNCHANGED <<mem, disk, claims, child, owed, loop, faults, open>>

\* fail_execution by the process: refused once it has lost the execution.
FailOwned(e) ==
  LET owns == Owns(mem[e], proc[e].tok)
  IN \/ owns /\ Save(Set(e, Failed(mem[e]))) /\ NoFault /\ Finish(e, "quiet")
     \/ owns /\ Keep /\ Fault /\ Finish(e, "raise")
     \/ ~owns /\ Keep /\ NoFault /\ Finish(e, "quiet")

\* except Exception
RecordFailure(e) ==
  /\ proc[e].pc = "error"
  /\ FailOwned(e)
  /\ UNCHANGED <<claims, child, owed, loop, open>>

\* except asyncio.TimeoutError, which the target may also raise itself
RecordTimeout(e) ==
  /\ proc[e].pc = "overdue"
  /\ LET r == Expire(mem[e])
     IN \/ r.expd /\ SaveIfChanged(Set(e, r)) /\ NoFault /\ Finish(e, "quiet")
        \/ MustExpire(mem[e]) /\ Keep /\ Fault /\ Finish(e, "raise")
        \/ ~r.expd /\ FailOwned(e)
  /\ UNCHANGED <<claims, child, owed, loop, open>>

\* resolve_workflow_outcome: the child's durable state is the outcome told.
OutcomeHolds(e, k, o) == o \in Outcome /\ child[e][k] = o

\* _commit_result of a result that carries its workflow event: the child
\* must durably be in the state the event tells.
CommitResult(e) ==
  /\ proc[e].pc = "returned"
  /\ LET r == mem[e]
         k == proc[e].tok
         o == proc[e].ev
         allowed == Owns(r, k) /\ RuntimeRemains(r)
     IN \/ /\ ~OutcomeHolds(e, k, o)
           /\ Keep /\ NoFault
           /\ Go(e, "error")
           /\ UNCHANGED <<ending, open>>
        \/ /\ OutcomeHolds(e, k, o) /\ ~allowed
           /\ Keep /\ NoFault
           /\ Finish(e, "quiet")
           /\ UNCHANGED open
        \/ /\ OutcomeHolds(e, k, o) /\ allowed
           /\ Save(Set(e, Projected(r, k, o))) /\ NoFault
           /\ open' = [open EXCEPT ![e] = IF o = "cancelled" THEN @ ELSE @ \ {k}]
           /\ Finish(e, "quiet")
        \/ /\ OutcomeHolds(e, k, o) /\ allowed
           /\ Keep /\ Fault
           /\ Go(e, "error")
           /\ UNCHANGED <<ending, open>>
  /\ UNCHANGED <<claims, child, owed, loop>>

\* The "finally" of process, after _active.discard.
Close(e) ==
  /\ ending[e] # "no"
  /\ \/ Reconciled(e) /\ batch' = (IF ending[e] = "raise" /\ e \in batch THEN {} ELSE batch)
     \/ ReconcileFails(e) /\ batch' = (IF e \in batch THEN {} ELSE batch)
  /\ ending' = [ending EXCEPT ![e] = "no"]
  /\ UNCHANGED <<claims, owed, phase, todo, open>>

-----------------------------------------------------------------------------
(* The workflow children of an execution (main.py).                         *)

Runs(e, k) == proc[e].tok = k /\ proc[e].pc \in TargetAlive /\ child[e][k] = "running"

\* _assert_automation_parent_not_cancelled, around a step of child k that
\* leaves it in state "to" when the parent allows it and "refused" when not.
\* The deadline may pass here, and then every child is cancelled.
ParentAllows(e, k, to, refused) ==
  LET r == Expire(mem[e])
      denied == [child[e] EXCEPT ![k] = refused]
  IN \/ /\ SaveIfChanged(Set(e, r)) /\ NoFault
        /\ child' = [child EXCEPT ![e] =
             IF Condemned(r) THEN CancelAll(denied)
             ELSE IF r.st \in {"running", "waiting"} THEN [@ EXCEPT ![k] = to] ELSE denied]
     \/ /\ Fault
        /\ \/ MustExpire(mem[e]) /\ Keep
           \/ Condemned(r) /\ SaveIfChanged(Set(e, r))
        /\ child' = [child EXCEPT ![e] = denied]

\* execute_automation_target registers the child, then asks again whether the
\* parent may run it; it raises if not.
StartChild(e) ==
  /\ proc[e].pc = "called"
  /\ LET k == proc[e].tok
     IN /\ child[e][k] = "none"
        /\ ParentAllows(e, k, "running", "ready")
        /\ IF child'[e][k] = "running" THEN UNCHANGED proc ELSE Go(e, "error")
  /\ UNCHANGED <<ending, claims, owed, loop, open>>

\* A running child suspends itself, ends, or fails.
ChildEnds(e, k) ==
  /\ \E o \in Outcome \cup {"failed"} :
       /\ child' = [child EXCEPT ![e][k] = o]
       /\ \/ /\ Runs(e, k)
             /\ proc' = [proc EXCEPT ![e].ev = IF o = "failed" THEN "none" ELSE o]
             /\ UNCHANGED owed
          \/ /\ child[e][k] = "resumed"
             /\ owed' = [owed EXCEPT ![e][k] = IF o = "failed" THEN "none" ELSE o]
             /\ UNCHANGED proc
          \/ child[e][k] = "due_resumed" /\ UNCHANGED <<owed, proc>>
  /\ UNCHANGED <<mem, disk, ending, claims, loop, faults, open>>

TargetReturns(e) ==
  /\ proc[e].pc = "called"
  /\ proc[e].ev # "none"
  /\ Go(e, "returned")
  /\ UNCHANGED <<mem, disk, ending, claims, child, owed, loop, faults, open>>

TargetRaises(e) ==
  /\ proc[e].pc = "called"
  /\ Go(e, "error") \/ Go(e, "overdue")
  /\ UNCHANGED <<mem, disk, ending, claims, child, owed, loop, faults, open>>

\* An approval is decided, a client answers or a timer is due: a coordinator
\* of the workflow store claims the child and runs it on.  A result of the
\* child that is still to be recorded no longer matches it.
ResumeChild(e, k) ==
  /\ child[e][k] \in {"waiting", "timer"}
  /\ ParentAllows(e, k, IF child[e][k] = "waiting" THEN "resumed" ELSE "due_resumed",
                  child[e][k])
  /\ LET resumed == child'[e][k] \in {"resumed", "due_resumed"}
     IN /\ proc' = [proc EXCEPT ![e].ev = IF resumed /\ proc[e].tok = k /\ @ # "none"
                                          THEN "stale" ELSE @]
        /\ owed' = [owed EXCEPT ![e][k] = IF resumed THEN "none" ELSE @]
  /\ UNCHANGED <<ending, claims, loop, open>>

\* The approval or client request of the wait expires; the coordinator of
\* the request may tell the parent at once (else LoopOutcomes does).
RequestExpires(e, k) ==
  /\ child[e][k] = "waiting"
  /\ child' = [child EXCEPT ![e][k] = "expired"]
  /\ UNCHANGED <<mem, disk, proc, ending, claims, owed, loop, faults, open>>

\* An operator opens an expired approval again, which asks neither the child nor
\* its parent; the child waits as before.  (A client's request stays expired; the
\* model does not tell the two apart.)
RequestReopened(e, k) ==
  /\ child[e][k] = "expired"
  /\ child' = [child EXCEPT ![e][k] = "waiting"]
  /\ UNCHANGED <<mem, disk, proc, ending, claims, owed, loop, faults, open>>

TellParent(e) ==
  /\ WaitOver(e)
  /\ ExpireWait(e)
  /\ UNCHANGED <<proc, ending, claims, child, owed, loop, open>>

\* The caller of a resumed child projects its outcome to the parent, if the
\* parent still waits for this child and the child has not moved on.
ProjectResumed(e, k) ==
  /\ owed[e][k] # "none"
  /\ LET r == mem[e]
         o == owed[e][k]
         bound == /\ r.st = "waiting" /\ r.child = k
                  /\ OutcomeHolds(e, k, o)
                  /\ RuntimeRemains(r)
     IN \/ bound /\ Save(Set(e, Projected(r, k, o))) /\ NoFault
        \/ bound /\ Keep /\ Fault
        \/ ~bound /\ Keep /\ NoFault
  /\ owed' = [owed EXCEPT ![e][k] = "none"]
  /\ UNCHANGED <<proc, ending, claims, child, loop, open>>

\* Mutant: a child that has ended is cancelled all the same.
CancelWorkflowEnded(e, k) ==
  /\ child[e][k] # "none"
  /\ child' = [child EXCEPT ![e][k] = "cancelled"]
  /\ proc' = [proc EXCEPT ![e].ev = IF Runs(e, k) THEN "cancelled" ELSE @]
  /\ owed' = [owed EXCEPT ![e][k] = IF child[e][k] = "resumed" THEN "cancelled" ELSE @]
  /\ UNCHANGED <<mem, disk, ending, claims, loop, faults, open>>

\* The child is cancelled as a workflow of its own; who runs it sees the
\* cancellation as its outcome.
CancelWorkflow(e, k) ==
  /\ child[e][k] \notin ChildEnded
  /\ child' = [child EXCEPT ![e][k] = "cancelled"]
  /\ proc' = [proc EXCEPT ![e].ev = IF Runs(e, k) THEN "cancelled" ELSE @]
  /\ owed' = [owed EXCEPT ![e][k] = IF child[e][k] = "resumed" THEN "cancelled" ELSE @]
  /\ UNCHANGED <<mem, disk, ending, claims, loop, faults, open>>

-----------------------------------------------------------------------------
Process(e) ==
  \/ Claim(e) \/ PreDispatchFails(e) \/ Dispatch(e) \/ Renew(e) \/ Timeout(e)
  \/ StopTarget(e) \/ RecordTimeout(e) \/ RecordFailure(e) \/ CommitResult(e) \/ Close(e)

Target(e) ==
  \/ StartChild(e) \/ TargetReturns(e) \/ TargetRaises(e) \/ TellParent(e)
  \/ \E k \in Tokens :
       \/ ChildEnds(e, k) \/ ResumeChild(e, k) \/ RequestExpires(e, k)
       \/ RequestReopened(e, k) \/ ProjectResumed(e, k) \/ CancelWorkflow(e, k)

Request(e) == Create(e) \/ CancelExecution(e) \/ RetryExecution(e)

Next ==
  \/ Tick \/ Crash \/ RunOnce
  \/ \E e \in Execs : Process(e) \/ Target(e) \/ Request(e)

Spec == Init /\ [][Next]_vars

\* The loop, the steps of a process that the event loop schedules, and the
\* end of a cancelled target.  Nothing makes a target return or renew.
\* claimable sorts by available_at, which every return to "pending" moves to
\* the present: an execution that stays pending is passed over finitely often.
Fairness ==
  /\ WF_vars(Tick) /\ WF_vars(RunOnce)
  /\ \A e \in Execs :
       /\ SF_vars(\E S \in SUBSET Execs : e \in S /\ Select(S))
       /\ WF_vars(Claim(e)) /\ WF_vars(Dispatch(e)) /\ WF_vars(Timeout(e))
       /\ WF_vars(StopTarget(e)) /\ WF_vars(RecordTimeout(e))
       /\ WF_vars(RecordFailure(e)) /\ WF_vars(CommitResult(e)) /\ WF_vars(Close(e))

FairSpec == Spec /\ Fairness

-----------------------------------------------------------------------------
(* Safety.                                                                  *)

\* A target is never called while the outcome of an earlier call for the
\* same occurrence is unknown: not by a retry of the coordinator, a retry of
\* an operator, a lease that ran out or a restart
\* (_dispatch_may_have_started and its callers).
AtMostOneUnsettled ==
  \A e \in Execs : \A j, k \in open[e] : j = k

\* The evidence of such a call is on disk, for the current attempt, as long
\* as the call is unsettled: a restart always finds it (mark_target_dispatch
\* persists before invoke_target calls).
EvidenceOnDisk ==
  \A e \in Execs : open[e] # {} => disk[e].ratt = disk[e].att /\ MaybeStarted(disk[e])

\* Nothing the store holds in memory is lost by a crash, except the latest
\* renewal of a lease and a creation that was reported as failed and that
\* nothing has built upon.
Durable(e) ==
  \/ disk[e] = [mem[e] EXCEPT !.lease = disk[e].lease]
  \/ disk[e] = Absent /\ mem[e] \in Created
CrashLosesNothing == \A e \in Execs : Durable(e)

\* An occurrence is completed only by its own workflow child having durably
\* completed (_commit_result, project_workflow_outcome).
CompletedByChild ==
  \A e \in Execs : mem[e].st = "completed" =>
    mem[e].child # NoToken /\ child[e][mem[e].child] = "completed"

\* At most one workflow child of an occurrence runs at a time, whether its
\* process started it or an approval, an answer or a timer resumed it, unless
\* an operator retries an occurrence: a child that its parent has refused is then
\* resumed beside the child of the new attempt.
Acts(e, k) == Runs(e, k) \/ child[e][k] \in {"resumed", "due_resumed"}
OneRunner == \A e \in Execs : \A j, k \in Tokens : Acts(e, j) /\ Acts(e, k) => j = k

\* No more processes are at work than the coordinator has slots, although a
\* process that raises lets the next pass start beside the others.
SlotsRespected == Cardinality({e \in Execs : proc[e].pc # "idle"}) <= Slots

\* However claims, outcomes, expiries, cancellations, retries and failed
\* writes interleave, an execution only moves between statuses the way the
\* schedule counts on, except that a crash takes it back to the snapshot:
\* what was skipped or completed never runs again (AutomationStore's
\* transitions).
StatusMovesOnly ==
  [][\/ mem' = disk
     \/ \A e \in Execs :
          LET before == Seen(mem[e].st)
              after == Seen(mem'[e].st)
          IN mem[e].st = "absent" \/ after = before \/ <<before, after>> \in Moves]_vars


\* The runtime deadline is set once per occurrence and never moves away, not
\* by a retry, a wait or a crash; once it has passed the occurrence neither
\* starts, nor parks, nor completes (_assert_runtime_remaining).
DeadlineFinal ==
  [][\A e \in Execs : mem[e].left # Unset =>
       /\ mem'[e].left # Unset /\ mem'[e].left <= mem[e].left
       /\ mem[e].left = 0 /\ mem'[e].st \in {"running", "waiting", "completed"}
            => mem'[e].st = mem[e].st]_vars

\* What is on disk keeps the promise of AutomationPromise.
View(r) ==
  CASE r.st = "absent" -> "none"
    [] r.st \in {"pending", "running"} -> "live"
    [] r.st = "waiting" -> "parked"
    [] r.st = "completed" -> "completed"
    [] OTHER -> "closed"
Promise == INSTANCE AutomationPromise WITH
  Calls <- Tokens, state <- [e \in Execs |-> View(disk[e])], doubt <- open
KeepsPromise == Promise!Spec

-----------------------------------------------------------------------------
(* Liveness, under FairSpec.                                                *)

\* A cancelled or expired occurrence ends up with no workflow child that
\* could still run, even when cancelling them failed at first
\* (_reconcile_cancelled, _reconcile_runtime_expiry).
CondemnedChildrenEnd ==
  \A e \in Execs :
    Condemned(mem[e]) ~> \A k \in Tokens : child[e][k] \in ChildEnded

\* Past its deadline no occurrence stays pending, running or waiting.
DeadlineEnds == \A e \in Execs : mem[e].left = 0 ~> mem[e].st \notin Active

\* A pending occurrence is eventually claimed or ended.
PendingServed == \A e \in Execs : mem[e].st = "pending" ~> mem[e].st # "pending"

=============================================================================
