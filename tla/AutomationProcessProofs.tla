----------------------- MODULE AutomationProcessProofs -----------------------
(***************************************************************************)
(* Proofs about the processes of AutomationExecution, for every finite set *)
(* of executions: the coordinator keeps to its slots, because only a       *)
(* selection adds processes and it counts those every earlier pass has     *)
(* left behind; and, unless an operator retries, an occurrence has at most *)
(* one workflow child, because the first call is never forgotten.          *)
(***************************************************************************)
EXTENDS AutomationProofs, FiniteSetTheorems

Busy == {e \in Execs : proc[e].pc # "idle"}

\* The step adds no process.
NoneBegun == \A x \in Execs : proc'[x].pc # "idle" => proc[x].pc # "idle"

\* The step gives no process a token.
Steady == NoneBegun /\ \A x \in Execs : proc'[x].tok \in {NoToken, proc[x].tok}

-----------------------------------------------------------------------------
(* What happens to one process adds none.                                   *)

LEMMA GoBegins ==
  ASSUME RestOK, NEW e \in Execs, NEW pc, Go(e, pc), proc[e].pc # "idle"
  PROVE  Steady
BY DEF Steady, NoneBegun, Go, RestOK

LEMMA FinishBegins ==
  ASSUME RestOK, NEW e \in Execs, NEW how, Finish(e, how) PROVE Steady
BY DEF Steady, NoneBegun, Finish, Idle, RestOK

LEMMA SignalBegins ==
  ASSUME RestOK, NEW e \in Execs, Signal(e) PROVE Steady
<1>1. proc[e] \in ProcessState
  BY DEF RestOK
<1> QED
  BY <1>1 DEF Steady, NoneBegun, Signal, RestOK

LEMMA EventBegins ==
  ASSUME RestOK, NEW e \in Execs, NEW ev, proc' = [proc EXCEPT ![e].ev = ev]
  PROVE  Steady
BY DEF Steady, NoneBegun, RestOK, ProcessState

\* Every step but a selection adds no process, and only a claim gives a token.
LEMMA NextBegins ==
  ASSUME TypeOK, Next
  PROVE  \/ Steady
         \/ \E S \in SUBSET Execs : Select(S)
         \/ \E e \in Execs : Claim(e)
<1>1. RestOK
  BY DEF TypeOK, RestOK
<1>2. ASSUME UNCHANGED proc PROVE Steady
  BY <1>2 DEF Steady, NoneBegun
<1>3. CASE Tick
  BY <1>2, <1>3 DEF Tick
<1>4. CASE Crash
  BY <1>4 DEF Crash, Steady, NoneBegun, Idle
<1>5. ASSUME NEW e \in Execs, Reconciled(e) \/ ReconcileFails(e) PROVE Steady
  BY <1>1, <1>2, <1>5, SignalBegins DEF Reconciled, ReconcileFails
<1>6. CASE RunOnce
  <2>1. CASE LoopUncertain \/ LoopGather
    BY <1>2, <2>1 DEF LoopUncertain, LoopGather
  <2>2. ASSUME NEW e \in Execs, LoopExpire(e) PROVE Steady
    BY <1>2, <1>5, <2>2 DEF LoopExpire
  <2>3. ASSUME NEW e \in Execs, LoopCancelled(e) PROVE Steady
    BY <1>1, <1>2, <2>3, SignalBegins DEF LoopCancelled
  <2>4. ASSUME NEW e \in Execs, LoopOutcomes(e) PROVE Steady
    BY <1>2, <2>4 DEF LoopOutcomes
  <2> QED
    BY <1>6, <2>1, <2>2, <2>3, <2>4 DEF RunOnce, LoopSelect
<1>7. ASSUME NEW e \in Execs, Process(e), ~Claim(e) PROVE Steady
  <2>2. CASE PreDispatchFails(e)
    BY <1>1, <2>2, GoBegins DEF PreDispatchFails
  <2>3. CASE Dispatch(e)
    BY <1>1, <2>3, GoBegins, FinishBegins DEF Dispatch
  <2>4. CASE Renew(e)
    BY <1>1, <1>2, <2>4, GoBegins DEF Renew
  <2>5. CASE Timeout(e)
    BY <1>1, <2>5, GoBegins DEF Timeout
  <2>6. CASE StopTarget(e)
    BY <1>1, <2>6, GoBegins, FinishBegins DEF StopTarget
  <2>7. CASE RecordTimeout(e) \/ RecordFailure(e)
    BY <1>1, <2>7, FinishBegins DEF RecordTimeout, RecordFailure, FailOwned
  <2>8. CASE CommitResult(e)
    BY <1>1, <2>8, GoBegins, FinishBegins DEF CommitResult
  <2>9. CASE Close(e)
    BY <1>5, <2>9 DEF Close
  <2> QED
    BY <1>7, <2>2, <2>3, <2>4, <2>5, <2>6, <2>7, <2>8, <2>9 DEF Process
<1>8. ASSUME NEW e \in Execs, Target(e) PROVE Steady
  <2>1. CASE StartChild(e)
    BY <1>1, <1>2, <2>1, GoBegins DEF StartChild
  <2>2. CASE TargetReturns(e) \/ TargetRaises(e)
    BY <1>1, <2>2, GoBegins DEF TargetReturns, TargetRaises
  <2>3. CASE TellParent(e)
    BY <1>2, <2>3 DEF TellParent
  <2>4. ASSUME NEW k \in Tokens, ChildEnds(e, k) PROVE Steady
    BY <1>1, <1>2, <2>4, EventBegins DEF ChildEnds
  <2>5. ASSUME NEW k \in Tokens, ResumeChild(e, k) \/ CancelWorkflow(e, k) PROVE Steady
    <3>1. \E ev : proc' = [proc EXCEPT ![e].ev = ev]
      BY <2>5 DEF ResumeChild, CancelWorkflow
    <3> QED
      BY <1>1, <3>1, EventBegins
  <2>6. ASSUME NEW k \in Tokens,
               RequestExpires(e, k) \/ RequestReopened(e, k) \/ ProjectResumed(e, k)
        PROVE  Steady
    BY <1>2, <2>6 DEF RequestExpires, RequestReopened, ProjectResumed
  <2> QED
    BY <1>8, <2>1, <2>2, <2>3, <2>4, <2>5, <2>6 DEF Target
<1>9. ASSUME NEW e \in Execs, Request(e) PROVE Steady
  BY <1>1, <1>2, <1>9, SignalBegins DEF Request, Create, CancelExecution, RetryExecution
<1> QED
  BY <1>3, <1>4, <1>6, <1>7, <1>8, <1>9 DEF Next

LEMMA ClaimBegins ==
  ASSUME RestOK, NEW e \in Execs, Claim(e)
  PROVE  /\ NoneBegun
         /\ proc' = [proc EXCEPT ![e] = Idle] \/ claims'[e] = claims[e] + 1
         /\ \A x \in Execs : x # e => proc'[x] = proc[x] /\ claims'[x] = claims[x]
<1>1. CASE /\ proc' = [proc EXCEPT ![e] = [pc |-> "claimed", tok |-> claims[e] + 1,
                                         ev |-> "none"]]
           /\ claims' = [claims EXCEPT ![e] = claims[e] + 1]
  BY <1>1 DEF Claim, NoneBegun, RestOK
<1>2. CASE Finish(e, "quiet") /\ UNCHANGED claims
  BY <1>2, FinishBegins DEF Finish, RestOK, Steady
<1> QED
  BY <1>1, <1>2 DEF Claim

-----------------------------------------------------------------------------
(* The selection counts.                                                    *)

LEMMA SlotsLeft ==
  ASSUME IsFiniteSet(Execs), SlotsRespected
  PROVE  /\ IsFiniteSet(Busy) /\ Cardinality(Busy) \in Nat
         /\ FreeSlots = Slots - Cardinality(Busy)
<1>1. Busy \in SUBSET Execs
  BY DEF Busy
<1>2. IsFiniteSet(Busy) /\ Cardinality(Busy) \in Nat
  BY <1>1, FS_Subset, FS_CardinalityType
<1>3. Cardinality(Busy) <= Slots /\ Slots \in Nat
  BY BoundsAssumption DEF SlotsRespected, Busy, BoundsAssumption
<1>4. FreeSlots = IF Slots - Cardinality(Busy) > 0 THEN Slots - Cardinality(Busy) ELSE 0
  BY DEF FreeSlots, Busy
<1> QED
  BY <1>2, <1>3, <1>4

LEMMA SelectSlots ==
  ASSUME IsFiniteSet(Execs), SlotsRespected, NEW S \in SUBSET Execs, Select(S)
  PROVE  SlotsRespected'
<1> DEFINE after == {e \in Execs : proc'[e].pc # "idle"}
<1>1. IsFiniteSet(S) /\ Cardinality(S) \in Nat
  BY FS_Subset, FS_CardinalityType
<1>2. after \subseteq Busy \cup S
  BY DEF Select, Busy
<1>3. S \cap Busy = {}
  BY DEF Select, Candidates, Busy
<1>4. /\ IsFiniteSet(Busy \cup S)
      /\ Cardinality(Busy \cup S) = Cardinality(Busy) + Cardinality(S) - Cardinality(Busy \cap S)
  BY <1>1, SlotsLeft, FS_Union
<1>5. Cardinality(Busy \cap S) = 0
  BY <1>3, FS_EmptySet
<1>6. Cardinality(Busy \cup S) <= Slots
  <2>1. Cardinality(S) <= FreeSlots
    BY DEF Select
  <2>2. Slots \in Nat
    BY BoundsAssumption DEF BoundsAssumption
  <2> QED
    BY <1>1, <1>4, <1>5, <2>1, <2>2, SlotsLeft
<1>7. IsFiniteSet(after) /\ Cardinality(after) <= Cardinality(Busy \cup S)
  BY <1>2, <1>4, FS_Subset
<1>8. Cardinality(after) \in Nat /\ Cardinality(Busy \cup S) \in Nat /\ Slots \in Nat
  BY <1>4, <1>7, FS_CardinalityType, BoundsAssumption DEF BoundsAssumption
<1>9. Cardinality(after) <= Slots
  <2> HIDE DEF after
  <2> QED
    BY <1>6, <1>7, <1>8
<1> QED
  BY <1>9 DEF SlotsRespected

LEMMA OtherSlots ==
  ASSUME IsFiniteSet(Execs), SlotsRespected, NoneBegun
  PROVE  SlotsRespected'
<1> DEFINE after == {e \in Execs : proc'[e].pc # "idle"}
<1>1. after \subseteq Busy
  BY DEF NoneBegun, Busy
<1>2. IsFiniteSet(Busy) /\ Cardinality(Busy) \in Nat
  BY SlotsLeft
<1>3. IsFiniteSet(after) /\ Cardinality(after) <= Cardinality(Busy)
  BY <1>1, <1>2, FS_Subset
<1>4. Cardinality(after) \in Nat /\ Slots \in Nat
  BY <1>3, FS_CardinalityType, BoundsAssumption DEF BoundsAssumption
<1>5. Cardinality(Busy) <= Slots
  BY DEF SlotsRespected, Busy
<1>6. Cardinality(after) <= Slots
  <2> HIDE DEF after
  <2> QED
    BY <1>2, <1>3, <1>4, <1>5
<1> QED
  BY <1>6 DEF SlotsRespected

\* No pass, whatever processes earlier passes left behind, takes the coordinator
\* beyond max_concurrency.
THEOREM SlotsHold == ASSUME IsFiniteSet(Execs) PROVE Spec => []SlotsRespected
<1>1. Init => SlotsRespected
  <2> SUFFICES ASSUME Init PROVE SlotsRespected
    OBVIOUS
  <2>1. Busy = {}
    BY DEF Busy, Init, Idle
  <2>2. Cardinality({}) = 0 /\ Slots \in Nat
    BY FS_EmptySet, BoundsAssumption DEF BoundsAssumption
  <2>3. Cardinality(Busy) <= Slots
    BY <2>1, <2>2
  <2> QED
    BY <2>3 DEF SlotsRespected, Busy
<1>2. TypeOK /\ SlotsRespected /\ [Next]_vars => SlotsRespected'
  <2> SUFFICES ASSUME TypeOK, SlotsRespected, [Next]_vars PROVE SlotsRespected'
    OBVIOUS
  <2>1. CASE Next
    <3>1. RestOK
      BY DEF TypeOK, RestOK
    <3> QED
      BY <2>1, <3>1, NextBegins, ClaimBegins, SelectSlots, OtherSlots DEF Steady
  <2>2. CASE UNCHANGED vars
    BY <2>2 DEF vars, SlotsRespected
  <2> QED
    BY <2>1, <2>2
<1> QED
  BY <1>1, <1>2, TypeCorrect, PTL DEF Spec

-----------------------------------------------------------------------------
(* A child that does not exist yet is only registered by StartChild.        *)

LEMMA NextClaims ==
  ASSUME Next PROVE UNCHANGED claims \/ \E e \in Execs : Claim(e)
<1>1. CASE Tick \/ Crash
  BY <1>1 DEF Tick, Crash
<1>2. CASE RunOnce
  BY <1>2 DEF RunOnce, LoopUncertain, LoopSelect, Select, LoopGather, LoopExpire,
       LoopCancelled, LoopOutcomes
<1>3. ASSUME NEW e \in Execs, Process(e), ~Claim(e) PROVE UNCHANGED claims
  BY <1>3 DEF Process, PreDispatchFails, Dispatch, Renew, Timeout, StopTarget,
       RecordTimeout, RecordFailure, CommitResult, Close
<1>4. ASSUME NEW e \in Execs, Target(e) PROVE UNCHANGED claims
  BY <1>4 DEF Target, StartChild, TargetReturns, TargetRaises, TellParent, ChildEnds,
       ResumeChild, RequestExpires, RequestReopened, ProjectResumed, CancelWorkflow
<1>5. ASSUME NEW e \in Execs, Request(e) PROVE UNCHANGED claims
  BY <1>5 DEF Request, Create, CancelExecution, RetryExecution
<1> QED
  BY <1>1, <1>2, <1>3, <1>4, <1>5 DEF Next

\* No child of x but those in K comes to exist.
Unborn(x, K) ==
  \A j \in Tokens \ K : child[x][j] = "none" => child'[x][j] = "none"

LEMMA CancelAllUnborn ==
  ASSUME RestOK, NEW e \in Execs, NEW K, NEW c \in [Tokens -> ChildStatus],
         \A j \in Tokens \ K : child[e][j] = "none" => c[j] = "none",
         child' = [child EXCEPT ![e] = CancelAll(c)] \/ child' = [child EXCEPT ![e] = c]
  PROVE  Unborn(e, K) /\ \A x \in Execs : x # e => Unborn(x, {})
<1>1. \A j \in Tokens : c[j] = "none" => CancelAll(c)[j] = "none"
  BY DEF CancelAll, ChildEnded
<1> QED
  BY <1>1 DEF Unborn, RestOK

LEMMA ParentAllowsUnborn ==
  ASSUME RestOK, NEW e \in Execs, NEW k \in Tokens, NEW to \in ChildStatus,
         NEW refused \in ChildStatus, ParentAllows(e, k, to, refused)
  PROVE  Unborn(e, {k}) /\ \A x \in Execs : x # e => Unborn(x, {})
<1> DEFINE r == Expire(mem[e])
           denied == [child[e] EXCEPT ![k] = refused]
           allowed == [child[e] EXCEPT ![k] = to]
<1>1. /\ denied \in [Tokens -> ChildStatus] /\ allowed \in [Tokens -> ChildStatus]
      /\ \A j \in Tokens \ {k} : child[e][j] = "none" =>
           denied[j] = "none" /\ allowed[j] = "none"
  BY DEF RestOK
<1>2. \/ child' = [child EXCEPT ![e] = CancelAll(denied)]
      \/ child' = [child EXCEPT ![e] = denied]
      \/ child' = [child EXCEPT ![e] = allowed]
  <2> HIDE DEF r
  <2> QED
    BY DEF ParentAllows, r
<1> HIDE DEF denied, allowed
<1> QED
  BY <1>1, <1>2, CancelAllUnborn

\* A step of one child that exists leaves the others alone.
LEMMA OneChildUnborn ==
  ASSUME RestOK, NEW e \in Execs, NEW k \in Tokens, NEW to,
         child' = [child EXCEPT ![e][k] = to], child[e][k] # "none"
  PROVE  \A x \in Execs : Unborn(x, {})
BY DEF RestOK, Unborn

NoBirth == \A x \in Execs : Unborn(x, {})

LEMMA NextUnborn ==
  ASSUME TypeOK, Next
  PROVE  NoBirth \/ \E e \in Execs : StartChild(e)
<1>1. RestOK
  BY DEF TypeOK, RestOK
<1>2. ASSUME UNCHANGED child PROVE NoBirth
  BY <1>2 DEF NoBirth, Unborn
<1>3. ASSUME NEW e \in Execs, child' = [child EXCEPT ![e] = CancelAll(child[e])] PROVE NoBirth
  BY <1>1, <1>3, CancelAllUnborn DEF RestOK, NoBirth
<1>4. CASE Tick
  BY <1>2, <1>4 DEF Tick
<1>5. CASE Crash
  BY <1>1, <1>5 DEF Crash, Recovered, NoBirth, Unborn, RestOK
<1>6. ASSUME NEW e \in Execs, Reconciled(e) \/ ReconcileFails(e) PROVE NoBirth
  <2>1. child' = [child EXCEPT ![e] = CancelAll(child[e])] \/ UNCHANGED child
    BY <1>1, <1>6 DEF Reconciled, ReconcileFails, RestOK
  <2> QED
    BY <1>2, <1>3, <2>1
<1>7. CASE RunOnce
  <2>1. CASE LoopUncertain \/ LoopSelect \/ LoopGather
    BY <1>2, <2>1 DEF LoopUncertain, LoopSelect, Select, LoopGather
  <2>2. ASSUME NEW e \in Execs, LoopExpire(e) PROVE NoBirth
    BY <1>2, <1>6, <2>2 DEF LoopExpire
  <2>3. ASSUME NEW e \in Execs, LoopCancelled(e) PROVE NoBirth
    <3>1. child' = [child EXCEPT ![e] = CancelAll(child[e])] \/ UNCHANGED child
      BY <1>1, <2>3 DEF LoopCancelled, RestOK
    <3> QED
      BY <1>2, <1>3, <3>1
  <2>4. ASSUME NEW e \in Execs, LoopOutcomes(e) PROVE NoBirth
    BY <1>2, <2>4 DEF LoopOutcomes
  <2> QED
    BY <1>7, <2>1, <2>2, <2>3, <2>4 DEF RunOnce
<1>8. ASSUME NEW e \in Execs, Process(e) PROVE NoBirth
  <2>1. CASE Close(e)
    BY <1>6, <2>1 DEF Close
  <2>2. CASE ~Close(e)
    BY <1>2, <1>8, <2>2 DEF Process, Claim, PreDispatchFails, Dispatch, Renew, Timeout,
         StopTarget, RecordTimeout, RecordFailure, CommitResult
  <2> QED
    BY <2>1, <2>2
<1>9. ASSUME NEW e \in Execs, Request(e) PROVE NoBirth
  <2>1. child' = [child EXCEPT ![e] = CancelAll(child[e])] \/ UNCHANGED child
    BY <1>1, <1>9 DEF Request, Create, CancelExecution, RetryExecution, RestOK
  <2> QED
    BY <1>2, <1>3, <2>1
<1>10. ASSUME NEW e \in Execs, Target(e), ~StartChild(e) PROVE NoBirth
  <2>1. CASE TargetReturns(e) \/ TargetRaises(e) \/ TellParent(e)
    BY <1>2, <2>1 DEF TargetReturns, TargetRaises, TellParent
  <2>2. ASSUME NEW k \in Tokens, ChildEnds(e, k) PROVE NoBirth
    <3>1. PICK o : child' = [child EXCEPT ![e][k] = o]
      BY <2>2 DEF ChildEnds
    <3>2. child[e][k] # "none"
      BY <2>2 DEF ChildEnds, Runs
    <3> QED
      BY <1>1, <3>1, <3>2, OneChildUnborn DEF NoBirth
  <2>3. ASSUME NEW k \in Tokens, ResumeChild(e, k) PROVE NoBirth
    <3> DEFINE to == IF child[e][k] = "waiting" THEN "resumed" ELSE "due_resumed"
    <3>1. ParentAllows(e, k, to, child[e][k]) /\ child[e][k] # "none"
      BY <2>3 DEF ResumeChild
    <3>2. to \in ChildStatus /\ child[e][k] \in ChildStatus
      BY <1>1 DEF ChildStatus, RestOK
    <3> HIDE DEF to
    <3>3. Unborn(e, {k}) /\ \A x \in Execs : x # e => Unborn(x, {})
      BY <1>1, <3>1, <3>2, ParentAllowsUnborn
    <3> QED
      BY <3>1, <3>3 DEF NoBirth, Unborn
  <2>4. ASSUME NEW k \in Tokens, RequestExpires(e, k) \/ RequestReopened(e, k) PROVE NoBirth
    BY <1>1, <2>4, OneChildUnborn DEF RequestExpires, RequestReopened, NoBirth
  <2>5. ASSUME NEW k \in Tokens, ProjectResumed(e, k) PROVE NoBirth
    BY <1>2, <2>5 DEF ProjectResumed
  <2>6. ASSUME NEW k \in Tokens, CancelWorkflow(e, k) PROVE NoBirth
    BY <1>1, <2>6, OneChildUnborn DEF CancelWorkflow, ChildEnded, NoBirth
  <2> QED
    BY <1>10, <2>1, <2>2, <2>3, <2>4, <2>5, <2>6 DEF Target
<1> QED
  BY <1>4, <1>5, <1>7, <1>8, <1>9, <1>10 DEF Next

\* StartChild registers the child of its process and no other.
LEMMA StartBears ==
  ASSUME RestOK, NEW e \in Execs, StartChild(e)
  PROVE  Unborn(e, {proc[e].tok}) /\ \A x \in Execs : x # e => Unborn(x, {})
<1>1. proc[e].tok \in Tokens
  BY DEF StartChild, RestOK, ProcessState
<1>2. ParentAllows(e, proc[e].tok, "running", "ready")
  BY DEF StartChild
<1>3. "running" \in ChildStatus /\ "ready" \in ChildStatus
  BY DEF ChildStatus
<1> QED
  BY <1>1, <1>2, <1>3, ParentAllowsUnborn

-----------------------------------------------------------------------------
(* What shows that a call may have been made is not forgotten.              *)

LEMMA TransitionsShow ==
  ASSUME NEW r \in Record, MaybeStarted(r)
  PROVE  /\ MaybeStarted(Expire(r)) /\ MaybeStarted(MarkUncertain(r))
         /\ MaybeStarted(Cancelled(r)) /\ MaybeStarted(WaitExpired(r))
         /\ MaybeStarted(Failed(r)) /\ MaybeStarted(Renewed(r)) /\ MaybeStarted(Aged(r))
         /\ \A k \in Tokens, o \in Outcome : MaybeStarted(Projected(r, k, o))
<1>1. MaybeStarted(Uncertain(r))
  BY DEF MaybeStarted, Uncertain, Record
<1>2. MaybeStarted(Expire(r))
  BY <1>1 DEF MaybeStarted, Expire, Uncertain, ClearLease, Record
<1>3. MaybeStarted(MarkUncertain(r))
  BY <1>1 DEF MaybeStarted, MarkUncertain, Uncertain, ClearLease, Record
<1>4. MaybeStarted(Cancelled(r)) /\ MaybeStarted(WaitExpired(r))
  BY DEF MaybeStarted, Cancelled, WaitExpired, ClearLease, Record
<1>5. MaybeStarted(Failed(r))
  BY <1>1 DEF MaybeStarted, Failed, Uncertain, ClearLease, Record
<1>6. MaybeStarted(Renewed(r)) /\ MaybeStarted(Aged(r))
  BY DEF MaybeStarted, Renewed, Aged, Record
<1>7. ASSUME NEW k \in Tokens, NEW o \in Outcome PROVE MaybeStarted(Projected(r, k, o))
  BY DEF MaybeStarted, Projected, Settle, ClearLease, Record
<1> QED
  BY <1>2, <1>3, <1>4, <1>5, <1>6, <1>7

Remembers == \A x \in Execs : MaybeStarted(mem[x]) => MaybeStarted(mem'[x])

LEMMA SetRemembers ==
  ASSUME StoreOK, NEW e \in Execs, NEW r, MaybeStarted(mem[e]) => MaybeStarted(r),
         Save(Set(e, r)) \/ KeepInMemory(Set(e, r)) \/ SaveIfChanged(Set(e, r)) \/ Keep
  PROVE  Remembers
<1>1. mem' = mem \/ mem' = [mem EXCEPT ![e] = r]
  BY DEF Save, KeepInMemory, SaveIfChanged, Keep, store, Set
<1> QED
  BY <1>1 DEF Remembers, StoreOK

LEMMA ReconcileRemembers ==
  ASSUME StoreOK, NEW e \in Execs, Reconciled(e) \/ ReconcileFails(e)
  PROVE  Remembers
<1>1. SaveIfChanged(Set(e, Expire(mem[e]))) \/ Keep
  <2> HIDE DEF Expire
  <2> QED
    BY DEF Reconciled, ReconcileFails
<1> QED
  BY <1>1, SetRemembers, TransitionsShow DEF StoreOK

LEMMA ParentAllowsRemembers ==
  ASSUME StoreOK, NEW e \in Execs, NEW k, NEW to, NEW refused,
         ParentAllows(e, k, to, refused)
  PROVE  Remembers
<1>1. SaveIfChanged(Set(e, Expire(mem[e]))) \/ Keep
  BY DEF ParentAllows
<1> QED
  BY <1>1, SetRemembers, TransitionsShow DEF StoreOK

\* Every step but an operator's retry remembers.
LEMMA NextRemembers ==
  ASSUME IInv, Next
  PROVE  Remembers \/ \E e \in Execs : RetryExecution(e)
<1>1. StoreOK /\ \A e \in Execs : mem[e] \in Record
  BY DEF IInv, TypeOK, StoreOK
<1>2. ASSUME UNCHANGED mem PROVE Remembers
  BY <1>2 DEF Remembers
<1>3. CASE Tick
  BY <1>1, <1>3, TransitionsShow DEF Tick, Remembers
<1>4. CASE Crash
  <2>1. ASSUME NEW x \in Execs, MaybeStarted(mem[x]) PROVE MaybeStarted(disk[x])
    <3>1. Durable(x)
      BY DEF IInv
    <3>2. mem[x] \notin Created
      BY <2>1 DEF MaybeStarted, Created, Absent
    <3>3. /\ disk[x].rcpt = mem[x].rcpt /\ disk[x].ratt = mem[x].ratt
          /\ disk[x].att = mem[x].att
      BY <1>1, <3>1, <3>2 DEF Durable, Record
    <3> QED
      BY <2>1, <3>3 DEF MaybeStarted
  <2> QED
    BY <1>4, <2>1 DEF Crash, Remembers
<1>5. CASE RunOnce
  <2>1. CASE LoopUncertain
    <3>1. \A x \in Execs : mem'[x] \in {mem[x], MarkUncertain(mem[x])}
      BY <2>1 DEF LoopUncertain, SaveIfChanged, Save, Keep, store
    <3> QED
      BY <1>1, <3>1, TransitionsShow DEF Remembers
  <2>2. CASE LoopSelect \/ LoopGather
    BY <1>2, <2>2 DEF LoopSelect, Select, LoopGather
  <2>3. ASSUME NEW e \in Execs, LoopExpire(e) PROVE Remembers
    BY <1>1, <1>2, <2>3, ReconcileRemembers DEF LoopExpire
  <2>4. ASSUME NEW e \in Execs, LoopCancelled(e) PROVE Remembers
    BY <1>2, <2>4 DEF LoopCancelled
  <2>5. ASSUME NEW e \in Execs, LoopOutcomes(e) PROVE Remembers
    <3>1. Save(Set(e, WaitExpired(mem[e]))) \/ Keep
      BY <2>5 DEF LoopOutcomes, ExpireWait
    <3> QED
      BY <1>1, <3>1, SetRemembers, TransitionsShow
  <2> QED
    BY <1>5, <2>1, <2>2, <2>3, <2>4, <2>5 DEF RunOnce
<1>6. ASSUME NEW e \in Execs, Process(e) PROVE Remembers
  <2>1. CASE Claim(e)
    <3>1. UNCHANGED mem \/ (Save(Set(e, Claimed(mem[e], claims[e] + 1))) /\ ClaimAllowed(mem[e]))
      BY <2>1 DEF Claim, Keep, store
    <3> QED
      BY <1>1, <1>2, <3>1, SetRemembers DEF ClaimAllowed
  <2>2. CASE PreDispatchFails(e) \/ Timeout(e) \/ StopTarget(e)
    BY <1>2, <2>2 DEF PreDispatchFails, Timeout, StopTarget
  <2>3. CASE Dispatch(e)
    <3>1. \/ UNCHANGED mem
          \/ Save(Set(e, Dispatched(mem[e]))) /\ DispatchAllowed(mem[e], proc[e].tok)
      BY <2>3 DEF Dispatch, Keep, store
    <3> QED
      BY <1>1, <1>2, <3>1, SetRemembers DEF DispatchAllowed
  <2>4. CASE Renew(e)
    <3>1. \/ Save(Set(e, Renewed(mem[e]))) \/ KeepInMemory(Set(e, Renewed(mem[e])))
          \/ Keep
      BY <2>4 DEF Renew
    <3> QED
      BY <1>1, <3>1, SetRemembers, TransitionsShow
  <2>5. ASSUME FailOwned(e) PROVE Remembers
    <3>1. Save(Set(e, Failed(mem[e]))) \/ Keep
      BY <2>5 DEF FailOwned
    <3> QED
      BY <1>1, <3>1, SetRemembers, TransitionsShow
  <2>6. CASE RecordFailure(e)
    BY <2>5, <2>6 DEF RecordFailure
  <2>7. CASE RecordTimeout(e)
    <3>1. SaveIfChanged(Set(e, Expire(mem[e]))) \/ Keep \/ FailOwned(e)
      BY <2>7 DEF RecordTimeout
    <3> QED
      BY <1>1, <2>5, <3>1, SetRemembers, TransitionsShow
  <2>8. CASE CommitResult(e)
    <3>1. \/ Keep
          \/ /\ proc[e].pc = "returned" /\ proc[e].ev \in Outcome
             /\ Save(Set(e, Projected(mem[e], proc[e].tok, proc[e].ev)))
      BY <2>8 DEF CommitResult, OutcomeHolds
    <3>2. proc[e].pc = "returned" => proc[e].tok \in Tokens
      BY DEF IInv, TypeOK, ProcessState
    <3> QED
      BY <1>1, <3>1, <3>2, SetRemembers, TransitionsShow
  <2>9. CASE Close(e)
    BY <1>1, <2>9, ReconcileRemembers DEF Close
  <2> QED
    BY <1>6, <2>1, <2>2, <2>3, <2>4, <2>6, <2>7, <2>8, <2>9 DEF Process
<1>7. ASSUME NEW e \in Execs, Target(e) PROVE Remembers
  <2>1. CASE StartChild(e) \/ \E k \in Tokens : ResumeChild(e, k)
    BY <1>1, <2>1, ParentAllowsRemembers DEF StartChild, ResumeChild
  <2>2. CASE TargetReturns(e) \/ TargetRaises(e)
    BY <1>2, <2>2 DEF TargetReturns, TargetRaises
  <2>3. CASE TellParent(e)
    <3>1. Save(Set(e, WaitExpired(mem[e]))) \/ Keep
      BY <2>3 DEF TellParent, ExpireWait
    <3> QED
      BY <1>1, <3>1, SetRemembers, TransitionsShow
  <2>4. ASSUME NEW k \in Tokens,
               \/ ChildEnds(e, k) \/ CancelWorkflow(e, k)
               \/ RequestExpires(e, k) \/ RequestReopened(e, k)
        PROVE  Remembers
    BY <1>2, <2>4 DEF ChildEnds, RequestExpires, RequestReopened, CancelWorkflow
  <2>5. ASSUME NEW k \in Tokens, ProjectResumed(e, k) PROVE Remembers
    <3>1. Keep \/ (owed[e][k] \in Outcome /\ Save(Set(e, Projected(mem[e], k, owed[e][k]))))
      BY <2>5 DEF ProjectResumed, OutcomeHolds
    <3> QED
      BY <1>1, <3>1, SetRemembers, TransitionsShow
  <2> QED
    BY <1>7, <2>1, <2>2, <2>3, <2>4, <2>5 DEF Target
<1>8. ASSUME NEW e \in Execs, Create(e) PROVE Remembers
  <2>1. PICK r \in Created : Save(Set(e, r)) \/ KeepInMemory(Set(e, r))
    BY <1>8 DEF Create
  <2>2. ~MaybeStarted(mem[e])
    <3>1. mem[e] = Absent
      BY <1>8 DEF Create, IInv, Shows
    <3> QED
      BY <3>1 DEF MaybeStarted, Absent
  <2> QED
    BY <1>1, <2>1, <2>2, SetRemembers
<1>9. ASSUME NEW e \in Execs, CancelExecution(e) PROVE Remembers
  <2> DEFINE r == IF mem[e].st = "cancelled" THEN mem[e] ELSE Cancelled(mem[e])
  <2>1. SaveIfChanged(Set(e, r))
    BY <1>9 DEF CancelExecution
  <2>2. MaybeStarted(mem[e]) => MaybeStarted(r)
    BY <1>1, TransitionsShow
  <2> HIDE DEF r
  <2> QED
    BY <1>1, <2>1, <2>2, SetRemembers
<1> QED
  BY <1>3, <1>4, <1>5, <1>6, <1>7, <1>8, <1>9 DEF Next, Request

-----------------------------------------------------------------------------
(* The first call is the only one.                                          *)

\* A target of e is at work, or a child of one was registered.
Started(e) ==
  proc[e].pc \in {"called", "returned"} \/ \E k \in Tokens : child[e][k] # "none"

OneCall(e) ==
  /\ proc[e].tok # NoToken => claims[e] # 0
  /\ Started(e) => MaybeStarted(mem[e]) /\ claims[e] # 0
  /\ proc[e].pc \in {"called", "returned"} =>
       \A k \in Tokens : child[e][k] # "none" => k = proc[e].tok
  /\ \A j, k \in Tokens : child[e][j] # "none" /\ child[e][k] # "none" => j = k

LEMMA InitOneCall == Init => \A e \in Execs : OneCall(e)
BY DEF Init, Idle, OneCall, Started

\* A step that calls nothing and registers no child.
LEMMA QuietOneCall ==
  ASSUME RestOK, NEW x \in Execs, OneCall(x), Unborn(x, {}), CallsKept, Remembers,
         proc'[x].tok \in {NoToken, proc[x].tok}, claims'[x] = claims[x]
  PROVE  OneCall(x)'
<1>1. \A k \in Tokens : child'[x][k] # "none" => child[x][k] # "none"
  BY DEF Unborn
<1>2. proc'[x].pc \in {"called", "returned"} =>
        proc[x].pc \in {"called", "returned"} /\ proc'[x].tok = proc[x].tok
  BY DEF CallsKept
<1>3. Started(x)' => Started(x)
  BY <1>1, <1>2 DEF Started
<1>4. Started(x)' => MaybeStarted(mem'[x]) /\ claims'[x] # 0
  BY <1>3 DEF OneCall, Remembers
<1>5. Started(x)' => MaybeStarted(mem[x])' /\ claims'[x] # 0
  BY <1>4 DEF MaybeStarted
<1> QED
  BY <1>1, <1>2, <1>5 DEF OneCall

LEMMA GoToken ==
  ASSUME RestOK, NEW e \in Execs, NEW pc, Go(e, pc), NEW x \in Execs
  PROVE  proc'[x].tok = proc[x].tok
<1>1. proc[e] \in ProcessState
  BY DEF RestOK
<1> QED
  BY <1>1 DEF Go, RestOK, ProcessState

LEMMA FinishToken ==
  ASSUME RestOK, NEW e \in Execs, NEW how, Finish(e, how), NEW x \in Execs
  PROVE  proc'[x].tok \in {NoToken, proc[x].tok}
BY DEF Finish, Idle, RestOK

LEMMA NextOneCall ==
  ASSUME MaxRetried = 0, IInv, Next, \A e \in Execs : OneCall(e), NEW x \in Execs
  PROVE  OneCall(x)'
<1>1. TypeOK /\ RestOK /\ OneCall(x) /\ claims[x] \in Nat
  BY BoundsAssumption DEF IInv, TypeOK, RestOK, BoundsAssumption
<1>2. ASSUME NEW e \in Execs, RetryExecution(e) PROVE OneCall(x)'
  <2>1. /\ claims[e] <= MaxRetried /\ UNCHANGED <<proc, claims>>
        /\ UNCHANGED child \/ child' = [child EXCEPT ![e] = CancelAll(child[e])]
        /\ \E r : Save(Set(e, r))
    BY <1>1, <1>2 DEF RetryExecution, RestOK
  <2>2. claims[e] = 0 /\ ~Started(e)
    BY <1>1, <2>1 DEF OneCall, RestOK
  <2>3. Unborn(x, {})
    <3>1. CASE UNCHANGED child
      BY <3>1 DEF Unborn
    <3>2. CASE child' = [child EXCEPT ![e] = CancelAll(child[e])]
      <4>1. child[e] \in [Tokens -> ChildStatus]
        BY <1>1 DEF RestOK
      <4>2. Unborn(e, {}) /\ \A y \in Execs : y # e => Unborn(y, {})
        BY <1>1, <3>2, <4>1, CancelAllUnborn
      <4> QED
        BY <4>2
    <3> QED
      BY <2>1, <3>1, <3>2
  <2>4. CallsKept /\ proc'[x].tok = proc[x].tok /\ claims'[x] = claims[x]
    BY <2>1 DEF CallsKept
  <2>5. \A y \in Execs : y # e => mem'[y] = mem[y]
    BY <1>1, <2>1 DEF Save, Set, TypeOK
  <2>6. CASE x = e
    <3>1. ~Started(x)'
      BY <2>1, <2>2, <2>3, <2>6 DEF Started, Unborn
    <3> QED
      BY <1>1, <2>1, <2>6, <3>1 DEF OneCall, Started
  <2>7. CASE x # e
    <3>1. MaybeStarted(mem[x])' <=> MaybeStarted(mem[x])
      BY <2>5, <2>7 DEF MaybeStarted
    <3>2. Started(x)' => Started(x)
      BY <2>1, <2>3 DEF Started, Unborn
    <3> QED
      BY <1>1, <2>1, <2>3, <3>1, <3>2 DEF OneCall, Unborn
  <2> QED
    BY <2>6, <2>7
<1>3. ASSUME Remembers, NEW e \in Execs, Dispatch(e) PROVE OneCall(x)'
  <2>1. UNCHANGED <<child, claims>>
    BY <1>3 DEF Dispatch
  <2>2. Unborn(x, {})
    BY <2>1 DEF Unborn
  <2>3. CASE Go(e, "error") \/ Finish(e, "quiet")
    <3>1. CallsKept /\ proc'[x].tok \in {NoToken, proc[x].tok}
      BY <1>1, <2>3, GoKept, FinishKept, GoToken, FinishToken
    <3> QED
      BY <1>1, <1>3, <2>1, <2>2, <3>1, QuietOneCall
  <2>4. CASE /\ Go(e, "called") /\ Save(Set(e, Dispatched(mem[e])))
             /\ DispatchAllowed(mem[e], proc[e].tok)
    <3>1. CASE x = e
      <4>1. ~Started(e)
        BY <1>1, <2>4, <3>1 DEF DispatchAllowed, OneCall
      <4>2. MaybeStarted(Dispatched(mem[e]))
        BY <1>1 DEF MaybeStarted, Dispatched, TypeOK, Record
      <4>3. mem'[e] = Dispatched(mem[e])
        BY <1>1, <2>4 DEF Save, Set, TypeOK
      <4>4. MaybeStarted(mem[x])'
        BY <3>1, <4>2, <4>3 DEF MaybeStarted
      <4>5. proc'[x].tok = proc[x].tok /\ proc[x].tok \in Tokens
        BY <1>1, <1>3, <2>4, <3>1, GoToken DEF Dispatch, RestOK, ProcessState
      <4>6. claims[x] # 0
        BY <1>1, <4>5 DEF OneCall, Tokens, NoToken
      <4> QED
        BY <1>1, <2>1, <3>1, <4>1, <4>4, <4>5, <4>6 DEF OneCall, Started
    <3>2. CASE x # e
      <4>1. proc'[x] = proc[x] /\ mem'[x] = mem[x]
        BY <1>1, <2>4, <3>2 DEF Go, Save, Set, RestOK, TypeOK
      <4>2. MaybeStarted(mem[x])' <=> MaybeStarted(mem[x])
        BY <4>1 DEF MaybeStarted
      <4> QED
        BY <1>1, <2>1, <4>1, <4>2 DEF OneCall, Started
    <3> QED
      BY <3>1, <3>2
  <2> QED
    BY <1>3, <2>3, <2>4 DEF Dispatch
<1>4. ASSUME Remembers, NEW e \in Execs, CommitResult(e) PROVE OneCall(x)'
  <2>1. UNCHANGED <<child, claims>> /\ (Go(e, "error") \/ Finish(e, "quiet"))
    BY <1>4 DEF CommitResult
  <2>2. Unborn(x, {})
    BY <2>1 DEF Unborn
  <2>3. CallsKept /\ proc'[x].tok \in {NoToken, proc[x].tok}
    BY <1>1, <2>1, GoKept, FinishKept, GoToken, FinishToken
  <2> QED
    BY <1>1, <1>4, <2>1, <2>2, <2>3, QuietOneCall
<1>5. ASSUME Remembers, CallsKept, NEW e \in Execs, StartChild(e) PROVE OneCall(x)'
  <2>1. claims' = claims /\ \A y \in Execs : proc'[y].tok = proc[y].tok
    BY <1>1, <1>5, GoToken DEF StartChild
  <2>2. Unborn(e, {proc[e].tok}) /\ (x # e => Unborn(x, {}))
    BY <1>1, <1>5, StartBears
  <2>3. CASE x # e
    BY <1>1, <1>5, <2>1, <2>2, <2>3, QuietOneCall
  <2>4. CASE x = e
    <3>1. proc[e].pc = "called"
      BY <1>5 DEF StartChild
    <3>2. Started(e) /\ MaybeStarted(mem[e]) /\ claims[e] # 0
      BY <1>1, <2>4, <3>1 DEF OneCall, Started
    <3>3. \A k \in Tokens : child'[e][k] # "none" => k = proc[e].tok
      BY <1>1, <2>2, <2>4, <3>1 DEF OneCall, Unborn
    <3>4. MaybeStarted(mem'[e])
      BY <1>5, <3>2 DEF Remembers
    <3>5. MaybeStarted(mem[x])'
      BY <2>4, <3>4 DEF MaybeStarted
    <3> QED
      BY <1>1, <2>1, <2>4, <3>2, <3>3, <3>5 DEF OneCall
  <2> QED
    BY <2>3, <2>4
<1>6. ASSUME Remembers, CallsKept, NEW e \in Execs, Claim(e) PROVE OneCall(x)'
  <2>1. child' = child
    BY <1>6 DEF Claim
  <2>2. Unborn(x, {})
    BY <2>1 DEF Unborn
  <2>3. CASE Finish(e, "quiet") /\ claims' = claims
    <3>1. proc'[x].tok \in {NoToken, proc[x].tok}
      BY <1>1, <2>3 DEF Finish, Idle, RestOK
    <3> QED
      BY <1>1, <1>6, <2>2, <2>3, <3>1, QuietOneCall
  <2>4. CASE /\ proc' = [proc EXCEPT ![e] = [pc |-> "claimed", tok |-> claims[e] + 1,
                                             ev |-> "none"]]
             /\ claims' = [claims EXCEPT ![e] = claims[e] + 1]
             /\ ClaimAllowed(mem[e])
    <3>1. CASE x # e
      <4>1. proc'[x].tok = proc[x].tok /\ claims'[x] = claims[x]
        BY <1>1, <2>4, <3>1 DEF RestOK
      <4> QED
        BY <1>1, <1>6, <2>2, <4>1, QuietOneCall
    <3>2. CASE x = e
      <4>1. ~Started(x)
        BY <1>1, <2>4, <3>2 DEF ClaimAllowed, OneCall
      <4>2. proc'[x].pc = "claimed" /\ claims'[x] = claims[x] + 1
        BY <1>1, <2>4, <3>2 DEF RestOK
      <4>3. ~Started(x)' /\ claims'[x] # 0
        BY <1>1, <2>1, <4>1, <4>2 DEF Started
      <4> QED
        BY <1>1, <2>1, <4>2, <4>3 DEF OneCall, Started
    <3> QED
      BY <3>1, <3>2
  <2> QED
    BY <1>6, <2>3, <2>4 DEF Claim
<1>7. ASSUME Remembers, CallsKept, NEW S \in SUBSET Execs, Select(S) PROVE OneCall(x)'
  <2>1. /\ UNCHANGED <<child, claims>>
        /\ proc'[x].tok \in {NoToken, proc[x].tok}
    BY <1>7 DEF Select, Idle
  <2>2. Unborn(x, {})
    BY <2>1 DEF Unborn
  <2> QED
    BY <1>1, <1>7, <2>1, <2>2, QuietOneCall
<1>8. ASSUME Remembers, CallsKept, NoBirth, Steady, UNCHANGED claims PROVE OneCall(x)'
  BY <1>1, <1>8, QuietOneCall DEF NoBirth, Steady
<1>9. CASE \E e \in Execs : RetryExecution(e)
  BY <1>2, <1>9
<1>10. CASE Remembers
  <2>1. CASE \E e \in Execs : Dispatch(e) \/ CommitResult(e)
    BY <1>3, <1>4, <1>10, <2>1
  <2>2. CASE CallsKept
    BY <1>1, <1>5, <1>6, <1>7, <1>8, <1>10, <2>2, NextUnborn, NextBegins, NextClaims
  <2> QED
    BY <1>1, <2>1, <2>2, NextCalls
<1> QED
  BY <1>9, <1>10, NextRemembers

\* Unless an operator retries it, an occurrence has one workflow child in all,
\* and so at most one that runs, whatever crashes, expires, is lost or resumed.
THEOREM OneRunnerWithoutRetries ==
  ASSUME MaxRetried = 0 PROVE Spec => []OneRunner
<1> DEFINE OneCalls == \A e \in Execs : OneCall(e)
<1>1. Init => IInv /\ OneCalls
  BY InitInv, InitOneCall
<1>2. IInv /\ OneCalls /\ [Next]_vars => (IInv /\ OneCalls)'
  <2> SUFFICES ASSUME IInv, OneCalls, [Next]_vars PROVE (IInv /\ OneCalls)'
    OBVIOUS
  <2>1. IInv'
    BY StepInv
  <2>2. CASE Next
    BY <2>1, <2>2, NextOneCall
  <2>3. CASE UNCHANGED vars
    BY <2>1, <2>3 DEF vars, OneCall, Started, MaybeStarted
  <2> QED
    BY <2>2, <2>3
<1>3. OneCalls => OneRunner
  BY DEF OneCall, OneRunner, Acts, Runs
<1> HIDE DEF OneCalls
<1> QED
  BY <1>1, <1>2, <1>3, PTL DEF Spec
=============================================================================
