------------------------------ MODULE GoalsProofs ------------------------------
(***************************************************************************)
(* Theorems about Goals.  A step changes a goal, a task and the pass in    *)
(* few ways: what it may do to a goal is Develops, to a task Progresses,   *)
(* to the steps the pass has a claim on Claims.  Only the lemmas that      *)
(* establish these three look at the operations; the invariants follow     *)
(* from them.                                                              *)
(***************************************************************************)
EXTENDS Goals, FiniteSetTheorems, TLAPS

-----------------------------------------------------------------------------
(* Records.                                                                 *)

LEMMA PassParts ==
  ASSUME NEW p \in PassRecord
  PROVE  /\ p.goal \in Goals \cup {"none"}
         /\ p.queue \subseteq [goal : Goals, st : GoalStatus, place : Nat]
         /\ p.linked \subseteq Steps \X Dispatches
         /\ p.failed \subseteq Steps /\ p.ready \subseteq Steps
         /\ p.d \in {None} \cup Dispatches
BY DEF PassRecord

LEMMA IdleTyped == Idle \in PassRecord
BY DEF Idle, PassRecord

LEMMA PlanSteps ==
  ASSUME NEW p \in Plans \cup {NoPlan}
  PROVE  DOMAIN p.deps \subseteq Steps
<1>1. CASE p \in Plans
  BY <1>1, GoalAssumption DEF ValidPlan
<1>2. CASE p = NoPlan
  BY <1>2 DEF NoPlan
<1>3. QED BY <1>1, <1>2

LEMMA GoalParts ==
  ASSUME NEW r \in GoalRecord
  PROVE  /\ r.st \in GoalStatus /\ r.rev \in 0..MaxRevision /\ r.plan \in Plans \cup {NoPlan}
         /\ \A s \in Steps : /\ r.step[s] \in [st : StepStatus, link : {None} \cup Dispatches]
                             /\ r.step[s].st \in StepStatus
                             /\ r.step[s].link \in {None} \cup Dispatches
         /\ DOMAIN r.plan.deps \subseteq Steps
         /\ \A A : StepsIn(r, A) \subseteq Steps
BY PlanSteps DEF GoalRecord, StepsIn

LEMMA CommitFacts ==
  ASSUME TypeOK, NEW g \in Goals, NEW r \in GoalRecord, Commit(g, r)
  PROVE  /\ goal' \in [Goals -> GoalRecord] /\ place' \in [Goals -> Nat]
         /\ goal'[g] = r
         /\ \A f \in Goals : f # g => goal'[f] = goal[f]
<1>1. goal' = [goal EXCEPT ![g] = r] /\ goal \in [Goals -> GoalRecord]
  BY DEF Commit, TypeOK
<1>2. place' \in [Goals -> Nat]
  BY DEF Commit, TypeOK
<1>3. QED BY <1>1, <1>2

LEMMA StepTypes ==
  /\ NoStep \in [st : StepStatus, link : {None} \cup Dispatches]
  /\ NewStep \in [st : StepStatus, link : {None} \cup Dispatches]
  /\ NoStep.link = None /\ NewStep.link = None
  /\ NoStep.st \notin Active \cup {"completed"} /\ NewStep.st \notin Active \cup {"completed"}
BY DEF NoStep, NewStep, StepStatus, Active

-----------------------------------------------------------------------------
(* Changes of a goal that give it no work: it has not ended, no step of it  *)
(* becomes active or completed, a completed goal has its final step, and    *)
(* none ends while a handoff is being published.                            *)

Tame(g, r) ==
  /\ g \in Goals /\ r \in GoalRecord /\ goal[g].st \notin Terminal
  /\ \A s \in Steps : r.step[s].link \in {None, goal[g].step[s].link}
  /\ StepsIn(r, Active) \subseteq StepsIn(goal[g], Active)
  /\ StepsIn(r, {"completed"}) \subseteq StepsIn(goal[g], {"completed"})
  /\ r.st = "completed" => r.plan.final \in StepsIn(r, {"completed"})
  /\ r.st \in Terminal => pass.pc # "publish"

TameChange == \E g \in Goals : \E r \in GoalRecord : Tame(g, r) /\ Commit(g, r)

LEMMA TameIf ==
  ASSUME TypeOK, NEW g \in Goals, NEW r \in GoalRecord,
         goal[g].st \notin Terminal, r.st # "completed", r.plan = goal[g].plan,
         r.st \in Terminal => pass.pc # "publish",
         \A s \in Steps :
           /\ r.step[s].link \in {None, goal[g].step[s].link}
           /\ r.step[s].st = goal[g].step[s].st \/ r.step[s].st \notin Active \cup {"completed"}
  PROVE  Tame(g, r)
<1>1. goal[g] \in GoalRecord
  BY DEF TypeOK
<1>2. DOMAIN goal[g].plan.deps \subseteq Steps
  BY <1>1, GoalParts
<1>3. QED BY <1>2 DEF Tame, StepsIn

LEMMA TameAnew ==
  ASSUME TypeOK, NEW g \in Goals, NEW r \in GoalRecord,
         goal[g].st \notin Terminal, r.st \notin Terminal,
         \A s \in Steps : r.step[s] \in {NewStep, NoStep}
  PROVE  Tame(g, r)
<1>1. StepsIn(r, Active) = {} /\ StepsIn(r, {"completed"}) = {}
  BY GoalParts, StepTypes DEF StepsIn
<1>2. QED BY <1>1, StepTypes DEF Tame, Terminal

LEMMA StatusTame ==
  ASSUME TypeOK, NEW g \in Goals, NEW x \in GoalStatus, x \notin Terminal,
         goal[g].st \notin Terminal
  PROVE  [goal[g] EXCEPT !.st = x] \in GoalRecord /\ Tame(g, [goal[g] EXCEPT !.st = x])
<1>. DEFINE r == [goal[g] EXCEPT !.st = x]
<1>1. goal[g] \in GoalRecord
  BY DEF TypeOK
<1>2. r \in GoalRecord /\ r.st = x /\ r.plan = goal[g].plan /\ r.step = goal[g].step
  BY <1>1 DEF GoalRecord
<1>3. QED BY <1>2, TameIf DEF Terminal

LEMMA StepReset ==
  ASSUME TypeOK, NEW g \in Goals, NEW s \in Steps,
         NEW x \in [st : StepStatus, link : {None} \cup Dispatches]
  PROVE  /\ WithStep(g, s, x) \in GoalRecord
         /\ WithStep(g, s, x).st = goal[g].st /\ WithStep(g, s, x).plan = goal[g].plan
         /\ WithStep(g, s, x).rev = goal[g].rev
         /\ WithStep(g, s, x).step[s] = x
         /\ \A t \in Steps : t # s => WithStep(g, s, x).step[t] = goal[g].step[t]
<1>1. goal[g] \in GoalRecord
  BY DEF TypeOK
<1>. DEFINE step == [goal[g].step EXCEPT ![s] = x]
<1>2. WithStep(g, s, x) = [goal[g] EXCEPT !.step = step]
  BY DEF WithStep
<1>3. /\ step \in [Steps -> [st : StepStatus, link : {None} \cup Dispatches]]
      /\ step[s] = x /\ \A t \in Steps : t # s => step[t] = goal[g].step[t]
  BY <1>1 DEF GoalRecord
<1>. HIDE DEF step
<1>4. QED BY <1>1, <1>2, <1>3 DEF GoalRecord

\* Steps whose status is changed, and nothing else.
Restyled(r, x) ==
  /\ x \in GoalRecord /\ x.st = r.st /\ x.plan = r.plan /\ x.rev = r.rev
  /\ \A s \in Steps :
       /\ x.step[s].link = r.step[s].link
       /\ x.step[s].st = r.step[s].st \/ x.step[s].st \notin Active \cup {"completed"}

LEMMA RestyleSteps ==
  ASSUME NEW r \in GoalRecord, NEW U \in SUBSET Steps, NEW y \in StepStatus,
         y \notin Active \cup {"completed"}
  PROVE  Restyled(r, [r EXCEPT !.step =
                        [s \in Steps |-> IF s \in U THEN [r.step[s] EXCEPT !.st = y] ELSE r.step[s]]])
<1>. DEFINE step == [s \in Steps |-> IF s \in U THEN [r.step[s] EXCEPT !.st = y] ELSE r.step[s]]
            x == [r EXCEPT !.step = step]
<1>1. r.step \in [Steps -> [st : StepStatus, link : {None} \cup Dispatches]]
  BY DEF GoalRecord
<1>2. ASSUME NEW s \in Steps
      PROVE  /\ step[s] \in [st : StepStatus, link : {None} \cup Dispatches]
             /\ step[s].link = r.step[s].link
             /\ step[s].st = IF s \in U THEN y ELSE r.step[s].st
  BY <1>1
<1>3. step \in [Steps -> [st : StepStatus, link : {None} \cup Dispatches]]
  BY <1>2
<1>4. /\ x \in GoalRecord /\ x.step = step
      /\ x.st = r.st /\ x.plan = r.plan /\ x.rev = r.rev
  BY <1>3 DEF GoalRecord
<1>. HIDE DEF step, x
<1>5. Restyled(r, x)
  BY <1>2, <1>4 DEF Restyled
<1>6. QED BY <1>5 DEF x, step

LEMMA UnblockingRestyles ==
  ASSUME NEW r \in GoalRecord, NEW x \in Unblockings(r)
  PROVE  Restyled(r, x)
<1>1. PICK U \in SUBSET StepsIn(r, {"blocked"}) :
        x = [r EXCEPT !.step = [s \in Steps |-> IF s \in U THEN [r.step[s] EXCEPT !.st = "pending"]
                                                ELSE r.step[s]]]
  BY DEF Unblockings
<1>2. U \in SUBSET Steps
  BY GoalParts
<1>3. "pending" \in StepStatus /\ "pending" \notin Active \cup {"completed"}
  BY DEF StepStatus, Active
<1>4. QED BY <1>1, <1>2, <1>3, RestyleSteps

-----------------------------------------------------------------------------
(* Requests change a goal tamely, or nothing, and leave tasks and the pass  *)
(* to others.                                                               *)

Requested ==
  /\ TameChange \/ UNCHANGED store
  /\ UNCHANGED <<work, pass, requeues, faults>>
  /\ pending' \subseteq RequestRecord /\ sweep' \subseteq Dispatches

LEMMA CommitTame ==
  ASSUME NEW g, NEW r, Tame(g, r), Commit(g, r)
  PROVE  TameChange
BY DEF TameChange, Tame

LEMMA CreateRequested ==
  ASSUME TypeOK, NEW g \in Goals, Create(g)
  PROVE  Requested
<1>1. Tame(g, [goal[g] EXCEPT !.st = "planning"])
  BY StatusTame DEF Create, GoalStatus, Terminal
<1>2. QED BY <1>1, CommitTame DEF Create, Request, Requested, TypeOK

LEMMA ReplanRequested ==
  ASSUME TypeOK, NEW g \in Goals, Replan(g)
  PROVE  Requested
<1>1. Tame(g, [goal[g] EXCEPT !.st = "planning"])
  BY StatusTame DEF Replan, GoalStatus, Terminal
<1>2. QED BY <1>1, CommitTame DEF Replan, Request, Requested, TypeOK

LEMMA PauseRequested ==
  ASSUME TypeOK, NEW g \in Goals, Pause(g)
  PROVE  Requested
<1>1. Tame(g, [goal[g] EXCEPT !.st = "paused"])
  BY StatusTame DEF Pause, GoalStatus, Terminal
<1>2. QED BY <1>1, CommitTame DEF Pause, Request, Requested, TypeOK

LEMMA ResumeRequested ==
  ASSUME TypeOK, NEW g \in Goals, Resume(g)
  PROVE  Requested
<1>1. Tame(g, [goal[g] EXCEPT !.st = "running"])
  BY StatusTame DEF Resume, GoalStatus, Terminal
<1>2. QED BY <1>1, CommitTame DEF Resume, Request, Requested, TypeOK

LEMMA StartRequested ==
  ASSUME TypeOK, NEW g \in Goals, Start(g)
  PROVE  Requested
<1>. DEFINE step == [s \in Steps |-> IF s \in StepsOf(g) THEN NewStep ELSE NoStep]
            r == [goal[g] EXCEPT !.st = "running", !.step = step]
<1>1. goal[g] \in GoalRecord
  BY DEF TypeOK
<1>2. step \in [Steps -> [st : StepStatus, link : {None} \cup Dispatches]]
  BY StepTypes
<1>3. r \in GoalRecord /\ r.st = "running" /\ r.step = step
  BY <1>1, <1>2 DEF GoalRecord, GoalStatus
<1>4. \A s \in Steps : r.step[s] \in {NewStep, NoStep}
  BY <1>3
<1>5. goal[g].st \notin Terminal
  BY DEF Start, Terminal
<1>. HIDE DEF step, r
<1>6. Tame(g, r)
  BY <1>3, <1>4, <1>5, TameAnew DEF Terminal
<1>7. Commit(g, r)
  BY DEF Start, step, r
<1>8. QED BY <1>6, <1>7, CommitTame DEF Start, Request, Requested, TypeOK

LEMMA CancelledTame ==
  ASSUME TypeOK, NEW g \in Goals, goal[g].st \notin Terminal, pass.pc # "publish"
  PROVE  Tame(g, CancelledGoal(g))
<1>. DEFINE U == {s \in Steps : s \in StepsOf(g) /\ goal[g].step[s].st \notin Successful}
            x == [goal[g] EXCEPT !.step = [s \in Steps |->
                    IF s \in U THEN [goal[g].step[s] EXCEPT !.st = "cancelled"]
                    ELSE goal[g].step[s]]]
            r == [x EXCEPT !.st = "cancelled"]
<1>1. goal[g] \in GoalRecord
  BY DEF TypeOK
<1>2. Restyled(goal[g], x)
  BY <1>1, RestyleSteps DEF StepStatus, Active
<1>3. CancelledGoal(g) = r
  BY <1>1 DEF CancelledGoal, GoalRecord
<1>. HIDE DEF x
<1>4. r \in GoalRecord /\ r.st = "cancelled" /\ r.plan = goal[g].plan /\ r.step = x.step
  BY <1>2 DEF Restyled, GoalRecord, GoalStatus
<1>. HIDE DEF r
<1>5. Tame(g, r)
  BY <1>2, <1>4, TameIf DEF Restyled
<1>6. QED BY <1>3, <1>5

LEMMA CancelRequested ==
  ASSUME TypeOK, NEW g \in Goals, Cancel(g)
  PROVE  Requested
<1>1. Cancellable(g) \subseteq Dispatches
  BY DEF Cancellable
<1>2. CASE goal[g].st = "cancelled"
  BY <1>1, <1>2 DEF Cancel, Request, Requested, TypeOK
<1>3. CASE goal[g].st # "cancelled"
  <2>1. Tame(g, CancelledGoal(g))
    BY <1>3, CancelledTame DEF Cancel, Terminal
  <2>2. Commit(g, CancelledGoal(g))
    BY <1>3 DEF Cancel
  <2>3. QED BY <1>1, <2>1, <2>2, CommitTame DEF Cancel, Request, Requested, TypeOK
<1>4. QED BY <1>2, <1>3

LEMMA AskRequested ==
  ASSUME TypeOK, NEW r \in RequestRecord, Ask(r)
  PROVE  Requested
BY DEF Ask, Request, Requested, TypeOK

LEMMA AsksRequested ==
  ASSUME TypeOK, NEW g \in Goals, NEW s \in Steps,
         AskRetry(g, s) \/ AskReassign(g, s) \/ AskEdit(g)
  PROVE  Requested
<1>1. goal[g] \in GoalRecord
  BY DEF TypeOK
<1>2. goal[g].rev \in 0..MaxRevision /\ 0 \in 0..MaxRevision
  BY <1>1, GoalAssumption DEF GoalRecord
<1>3. CASE AskRetry(g, s)
  <2>1. [op |-> "retry", goal |-> g, step |-> s, rev |-> 0] \in RequestRecord
    BY <1>2 DEF RequestRecord
  <2>2. QED BY <1>3, <2>1, AskRequested DEF AskRetry
<1>4. CASE AskReassign(g, s)
  <2>1. [op |-> "reassign", goal |-> g, step |-> s, rev |-> 0] \in RequestRecord
    BY <1>2 DEF RequestRecord
  <2>2. QED BY <1>4, <2>1, AskRequested DEF AskReassign
<1>5. CASE AskEdit(g)
  <2>1. [op |-> "edit", goal |-> g, step |-> "none", rev |-> goal[g].rev] \in RequestRecord
    BY <1>2 DEF RequestRecord
  <2>2. QED BY <1>5, <2>1, AskRequested DEF AskEdit
<1>6. QED BY <1>3, <1>4, <1>5

LEMMA Restyling ==
  ASSUME TypeOK, NEW g \in Goals, NEW r \in GoalRecord, NEW x, Restyled(r, x),
         NEW z \in GoalStatus \ Terminal,
         goal[g].st \notin Terminal, r.plan = goal[g].plan,
         \A s \in Steps :
           /\ r.step[s].link \in {None, goal[g].step[s].link}
           /\ r.step[s].st = goal[g].step[s].st \/ r.step[s].st \notin Active \cup {"completed"}
  PROVE  Tame(g, [x EXCEPT !.st = z])
<1>. DEFINE y == [x EXCEPT !.st = z]
<1>1. y \in GoalRecord /\ y.st = z /\ y.plan = r.plan /\ y.step = x.step
  BY DEF Restyled, GoalRecord
<1>. HIDE DEF y
<1>2. \A s \in Steps :
        /\ y.step[s].link \in {None, goal[g].step[s].link}
        /\ y.step[s].st = goal[g].step[s].st \/ y.step[s].st \notin Active \cup {"completed"}
  BY <1>1 DEF Restyled
<1>3. Tame(g, y)
  BY <1>1, <1>2, TameIf DEF Terminal
<1>4. QED BY <1>3 DEF y

LEMMA PendingParts ==
  ASSUME TypeOK, NEW r \in pending
  PROVE  r \in RequestRecord /\ r.goal \in Goals
BY DEF TypeOK, RequestRecord

LEMMA RetryRequested ==
  ASSUME TypeOK, NEW r \in pending, Retry(r)
  PROVE  Requested
<1>1. r.goal \in Goals
  BY PendingParts
<1>2. goal[r.goal].st \notin Terminal /\ r.step \in StepsOf(r.goal) /\ r.step \in Steps
  <2>1. goal[r.goal] \in GoalRecord
    BY <1>1 DEF TypeOK
  <2>2. StepsOf(r.goal) \subseteq Steps
    BY <2>1, GoalParts DEF StepsOf
  <2>3. QED BY <2>2 DEF Retry, Applicable
<1>. DEFINE b == WithStep(r.goal, r.step, NewStep)
<1>3. PICK x \in Unblockings(b) : Commit(r.goal, [x EXCEPT !.st = "running"])
  BY DEF Retry
<1>4. /\ b \in GoalRecord /\ b.plan = goal[r.goal].plan
      /\ b.step[r.step] = NewStep
      /\ \A t \in Steps : t # r.step => b.step[t] = goal[r.goal].step[t]
  BY <1>1, <1>2, StepReset, StepTypes
<1>. HIDE DEF b
<1>5. Restyled(b, x)
  BY <1>4, UnblockingRestyles
<1>6. \A s \in Steps :
        /\ b.step[s].link \in {None, goal[r.goal].step[s].link}
        /\ b.step[s].st = goal[r.goal].step[s].st \/ b.step[s].st \notin Active \cup {"completed"}
  BY <1>4, StepTypes
<1>7. "running" \in GoalStatus \ Terminal
  BY DEF GoalStatus, Terminal
<1>8. Tame(r.goal, [x EXCEPT !.st = "running"])
  BY <1>1, <1>2, <1>4, <1>5, <1>6, <1>7, Restyling
<1>9. QED BY <1>3, <1>8, CommitTame DEF Retry, Applies, Request, Requested, TypeOK

LEMMA ReassignRequested ==
  ASSUME TypeOK, NEW r \in pending, Reassign(r)
  PROVE  Requested
<1>1. r.goal \in Goals
  BY PendingParts
<1>. DEFINE g == r.goal
            b == WithStep(g, r.step, NewStep)
            z == IF goal[g].st = "needs_attention" THEN "paused" ELSE goal[g].st
            x == [b EXCEPT !.rev = b.rev + 1, !.st = z]
<1>2. goal[g] \in GoalRecord /\ goal[g].st \notin Terminal /\ goal[g].rev < MaxRevision
  BY <1>1 DEF TypeOK, Reassign, Applicable
<1>3. r.step \in Steps
  <2>1. StepsOf(g) \subseteq Steps
    BY <1>2, GoalParts DEF StepsOf
  <2>2. QED BY <2>1 DEF Reassign, Applicable
<1>4. /\ b \in GoalRecord /\ b.plan = goal[g].plan /\ b.st = goal[g].st /\ b.rev = goal[g].rev
      /\ b.step[r.step] = NewStep
      /\ \A t \in Steps : t # r.step => b.step[t] = goal[g].step[t]
  BY <1>1, <1>3, StepReset, StepTypes
<1>5. Commit(g, x)
  BY <1>4 DEF Reassign
<1>. HIDE DEF b
<1>6. z \in GoalStatus \ Terminal
  BY <1>2, GoalParts DEF Terminal, GoalStatus
<1>7. b.rev + 1 \in 0..MaxRevision
  BY <1>2, <1>4, GoalAssumption DEF GoalRecord
<1>. HIDE DEF z
<1>8. x \in GoalRecord /\ x.st = z /\ x.plan = b.plan /\ x.step = b.step
  <2>1. [b EXCEPT !.rev = b.rev + 1] \in GoalRecord
    BY <1>4, <1>7 DEF GoalRecord
  <2>2. QED BY <1>4, <1>6, <2>1 DEF GoalRecord
<1>. HIDE DEF x
<1>9. \A s \in Steps :
        /\ x.step[s].link \in {None, goal[g].step[s].link}
        /\ x.step[s].st = goal[g].step[s].st \/ x.step[s].st \notin Active \cup {"completed"}
  BY <1>4, <1>8, StepTypes
<1>10. Tame(g, x)
  <2>1. /\ x \in GoalRecord /\ x.st \notin Terminal /\ x.st # "completed"
        /\ x.plan = goal[g].plan
    BY <1>4, <1>6, <1>8 DEF Terminal
  <2>2. QED BY <1>1, <1>2, <1>9, <2>1, TameIf
<1>11. QED
  <2>1. TameChange
    BY <1>5, <1>10, CommitTame
  <2>2. QED BY <2>1 DEF Reassign, Applies, Request, Requested, TypeOK

LEMMA ReplannedTame ==
  ASSUME TypeOK, NEW g \in Goals, NEW p \in Plans,
         goal[g].st \notin Terminal, goal[g].rev < MaxRevision
  PROVE  Tame(g, Replanned(g, p))
<1>. DEFINE step == [s \in Steps |-> IF s \in DOMAIN p.deps THEN NewStep ELSE NoStep]
<1>1. step \in [Steps -> [st : StepStatus, link : {None} \cup Dispatches]]
  BY StepTypes
<1>2. goal[g].rev + 1 \in 0..MaxRevision
  BY GoalAssumption DEF TypeOK, GoalRecord
<1>3. /\ Replanned(g, p) \in GoalRecord
      /\ Replanned(g, p).st = "awaiting_review" /\ Replanned(g, p).step = step
  BY <1>1, <1>2 DEF Replanned, GoalRecord, GoalStatus
<1>4. QED BY <1>3, TameAnew DEF Terminal

LEMMA EditRequested ==
  ASSUME TypeOK, NEW r \in pending, Edit(r)
  PROVE  Requested
<1>1. r.goal \in Goals
  BY PendingParts
<1>2. PICK p \in Plans : Commit(r.goal, Replanned(r.goal, p))
  BY DEF Edit
<1>3. Tame(r.goal, Replanned(r.goal, p))
  BY <1>1, ReplannedTame DEF Edit, Applicable
<1>4. QED BY <1>2, <1>3, CommitTame DEF Edit, Applies, Request, Requested, TypeOK

LEMMA DroppedRequested ==
  ASSUME TypeOK, NEW r \in pending, Dropped(r)
  PROVE  Requested
BY DEF Dropped, Applies, Request, Requested, TypeOK

LEMMA SkipRequested ==
  ASSUME TypeOK, NEW g \in Goals, NEW s \in Steps, Skip(g, s)
  PROVE  Requested
<1>. DEFINE skipped == [goal[g].step[s] EXCEPT !.st = "skipped"]
            b == WithStep(g, s, skipped)
<1>1. goal[g] \in GoalRecord
  BY DEF TypeOK
<1>2. /\ skipped \in [st : StepStatus, link : {None} \cup Dispatches]
      /\ skipped.st = "skipped" /\ skipped.link = goal[g].step[s].link
  BY <1>1, GoalParts DEF StepStatus
<1>3. PICK x \in Unblockings(b) :
        Commit(g, [x EXCEPT !.st = IF x.st = "needs_attention" THEN "running" ELSE x.st])
  BY DEF Skip
<1>. HIDE DEF skipped
<1>4. /\ b \in GoalRecord /\ b.plan = goal[g].plan /\ b.st = goal[g].st
      /\ b.step[s] = skipped
      /\ \A t \in Steps : t # s => b.step[t] = goal[g].step[t]
  BY <1>2, StepReset
<1>. HIDE DEF b
<1>5. Restyled(b, x)
  BY <1>4, UnblockingRestyles
<1>6. goal[g].st \in {"needs_attention", "paused"}
  BY DEF Skip
<1>. DEFINE z == IF x.st = "needs_attention" THEN "running" ELSE x.st
<1>7. z \in GoalStatus \ Terminal
  BY <1>4, <1>5, <1>6 DEF Restyled, GoalStatus, Terminal
<1>8. \A t \in Steps :
        /\ b.step[t].link \in {None, goal[g].step[t].link}
        /\ b.step[t].st = goal[g].step[t].st \/ b.step[t].st \notin Active \cup {"completed"}
  BY <1>2, <1>4 DEF Active
<1>9. goal[g].st \notin Terminal
  BY <1>6 DEF Terminal
<1>. HIDE DEF z
<1>10. Tame(g, [x EXCEPT !.st = z])
  BY <1>4, <1>5, <1>7, <1>8, <1>9, Restyling
<1>11. Commit(g, [x EXCEPT !.st = z])
  BY <1>3 DEF z
<1>12. QED BY <1>10, <1>11, CommitTame DEF Skip, Request, Requested, TypeOK

LEMMA RequestsRequested ==
  ASSUME TypeOK,
         \/ \E g \in Goals :
              \/ Create(g) \/ Replan(g) \/ Start(g) \/ Pause(g) \/ Resume(g) \/ Cancel(g) \/ AskEdit(g)
              \/ \E s \in Steps : AskRetry(g, s) \/ AskReassign(g, s) \/ Skip(g, s)
         \/ \E r \in pending : Apply(r)
  PROVE  Requested
<1>1. ASSUME NEW r \in pending, Apply(r) PROVE Requested
  BY <1>1, DroppedRequested, RetryRequested, ReassignRequested, EditRequested DEF Apply
<1>2. ASSUME NEW g \in Goals, AskEdit(g) PROVE Requested
  <2>1. goal[g].rev \in 0..MaxRevision
    BY DEF TypeOK, GoalRecord
  <2>2. [op |-> "edit", goal |-> g, step |-> "none", rev |-> goal[g].rev] \in RequestRecord
    BY <2>1 DEF RequestRecord
  <2>3. QED BY <1>2, <2>2, AskRequested DEF AskEdit
<1>3. ASSUME NEW g \in Goals, NEW s \in Steps, AskRetry(g, s) \/ AskReassign(g, s) \/ Skip(g, s)
      PROVE  Requested
  BY <1>3, AsksRequested, SkipRequested
<1>4. ASSUME NEW g \in Goals,
             Create(g) \/ Replan(g) \/ Start(g) \/ Pause(g) \/ Resume(g) \/ Cancel(g)
      PROVE  Requested
  BY <1>4, CreateRequested, ReplanRequested, StartRequested, PauseRequested, ResumeRequested,
     CancelRequested
<1>5. QED BY <1>1, <1>2, <1>3, <1>4

-----------------------------------------------------------------------------
(* The invariant.                                                           *)

\* d is a task of the step s of g.
Of(d, g, s) ==
  d \in Dispatches /\ work[d].st # "absent" /\ work[d].goal = g /\ work[d].step = s

Handing == {"handoff", "link", "publish"}

\* What the pass may rely on where it is.
Position ==
  /\ pass.pc \notin {"idle", "next"} => pass.goal \in Goals
  /\ pass.linked # {} => pass.pc \in {"reconcile", "attend"}
  /\ pass.ready # {} => pass.pc \in {"dispatch"} \cup Handing
  /\ \A l \in pass.linked : Of(l[2], pass.goal, l[1])
  /\ pass.pc \in Handing => /\ pass.d \in Dispatches /\ work[pass.d].st # "absent"
                            /\ work[pass.d].goal = pass.goal /\ work[pass.d].step \in pass.ready
  /\ pass.pc = "handoff" => work[pass.d].st \in {"task", "cancelled"}
  /\ pass.pc = "publish" => goal[pass.goal].st \notin Terminal

\* A step is linked to tasks of its own only.
Origins ==
  /\ \A d \in Dispatches : work[d].st # "absent" => work[d].goal \in Goals /\ work[d].step \in Steps
  /\ \A g \in Goals : \A s \in Steps :
       goal[g].step[s].link # None => Of(goal[g].step[s].link, g, s)

\* The steps of a goal that are active or that the pass may still make active.
Claimed(g) ==
  IF pass.goal = g THEN {l[1] : l \in pass.linked} \cup pass.ready ELSE {}
Engaged(g) == StepsIn(goal[g], Active) \cup Claimed(g)
Bounded == \A g \in Goals : Cardinality(Engaged(g)) <= MaxParallel

Inv == TypeOK /\ Position /\ Origins /\ Bounded /\ CompletionExplained

-----------------------------------------------------------------------------
(* What a step may do.                                                      *)

\* To a goal ...
Develops(g) ==
  \/ goal'[g] = goal[g]
  \/ /\ goal[g].st \notin Terminal
     /\ \A s \in Steps :
          \/ goal'[g].step[s].link \in {None, goal[g].step[s].link}
          \/ Of(goal'[g].step[s].link, g, s)
     /\ StepsIn(goal'[g], Active) \subseteq Engaged(g)
     /\ \A s \in StepsIn(goal'[g], {"completed"}) :
          \/ s \in StepsIn(goal[g], {"completed"})
          \/ \E d \in Dispatches : Of(d, g, s) /\ work[d].st = "completed"
     /\ goal'[g].st = "completed" => goal'[g].plan.final \in StepsIn(goal'[g], {"completed"})
     /\ goal'[g].st \in Terminal => pass.pc # "publish"

\* ... and to a task with its handoff.
Allowed(x, y) ==
  \/ x = y
  \/ x = "absent"
  \/ x = "task" /\ y \in OpenWork \cup {"cancelled"}
  \/ x \in OpenWork \ {"task"} /\ y \in WorkStatus \ {"absent", "task"}
  \/ x = "failed" /\ y = "pending"
Progresses(d) ==
  /\ Allowed(work[d].st, work'[d].st)
  /\ work[d].st # "absent" => work'[d].goal = work[d].goal /\ work'[d].step = work[d].step
  /\ work[d].st = "absent" /\ work'[d].st # "absent" =>
       work'[d].goal \in Goals /\ work'[d].step \in Steps
  /\ work[d].st \in {"task", "pending"} /\ ~work[d].pub /\ work'[d].pub =>
       goal[work[d].goal].st \notin Terminal

Developed == \A g \in Goals : Develops(g)
Progressed == \A d \in Dispatches : Progresses(d)

LEMMA TameDevelops ==
  ASSUME TypeOK, TameChange \/ UNCHANGED store
  PROVE  /\ Developed
         /\ goal' \in [Goals -> GoalRecord] /\ place' \in [Goals -> Nat]
<1>1. CASE UNCHANGED store
  BY <1>1 DEF Developed, Develops, store, TypeOK
<1>2. ASSUME NEW g \in Goals, NEW r \in GoalRecord, Tame(g, r), Commit(g, r)
      PROVE  /\ Developed
             /\ goal' \in [Goals -> GoalRecord] /\ place' \in [Goals -> Nat]
  <2>1. /\ goal' \in [Goals -> GoalRecord] /\ place' \in [Goals -> Nat]
        /\ goal'[g] = r /\ \A f \in Goals : f # g => goal'[f] = goal[f]
    BY <1>2, CommitFacts
  <2>2. Develops(g)
    BY <1>2, <2>1 DEF Tame, Develops, Engaged
  <2>3. QED BY <2>1, <2>2 DEF Developed, Develops
<1>3. QED BY <1>1, <1>2 DEF TameChange

LEMMA WorkStays ==
  ASSUME UNCHANGED work
  PROVE  Progressed
BY DEF Progressed, Progresses, Allowed

\* A task that stays where it is found.
LEMMA OfStays ==
  ASSUME Progressed, NEW d, NEW g, NEW s, Of(d, g, s)
  PROVE  Of(d, g, s)'
BY DEF Progressed, Progresses, Of, Allowed, OpenWork

\* The pass stays where it is, while others act.
LEMMA PositionStays ==
  ASSUME Position, UNCHANGED pass, Developed, Progressed,
         \A d \in Dispatches :
           work[d].st \in {"task", "cancelled"} => work'[d].st \in {"task", "cancelled"}
  PROVE  Position'
<1>1. \A l \in pass.linked : Of(l[2], pass.goal, l[1])'
  BY OfStays DEF Position
<1>2. pass.pc \in Handing =>
        /\ pass.d \in Dispatches /\ work'[pass.d].st # "absent"
        /\ work'[pass.d].goal = pass.goal /\ work'[pass.d].step \in pass.ready
  BY DEF Position, Progressed, Progresses, Allowed, OpenWork
<1>3. pass.pc = "publish" => goal'[pass.goal].st \notin Terminal
  BY DEF Position, Developed, Develops
<1>4. pass.pc = "handoff" => work'[pass.d].st \in {"task", "cancelled"}
  BY DEF Position, Handing
<1>5. QED BY <1>1, <1>2, <1>3, <1>4 DEF Position

\* The pass goes back to its list.
LEMMA PositionRests ==
  ASSUME pass'.pc \in {"idle", "next"}, pass'.linked = {}, pass'.ready = {}
  PROVE  Position'
BY DEF Position, Handing

\* To the steps that the pass has a claim on.
Claims == \A g \in Goals : Claimed(g)' \subseteq Engaged(g)

Outcome == TypeOK' /\ Position' /\ Developed /\ Progressed /\ (Claims \/ Bounded')

LEMMA ClaimsStay ==
  ASSUME pass' = pass
  PROVE  Claims
BY DEF Claims, Claimed, Engaged

LEMMA ClaimsRest ==
  ASSUME pass'.linked = {}, pass'.ready = {}
  PROVE  Claims
BY DEF Claims, Claimed

LEMMA ClaimsShrink ==
  ASSUME pass'.goal = pass.goal, pass'.linked \subseteq pass.linked,
         pass'.ready \subseteq pass.ready
  PROVE  Claims
BY DEF Claims, Claimed, Engaged

-----------------------------------------------------------------------------
(* Requests and the environment.                                            *)

LEMMA RequestOutcome ==
  ASSUME Inv, Requested
  PROVE  Outcome
<1>1. /\ Developed
      /\ goal' \in [Goals -> GoalRecord] /\ place' \in [Goals -> Nat]
  BY TameDevelops DEF Inv, Requested
<1>2. Progressed
  BY WorkStays DEF Requested
<1>3. Position'
  BY <1>1, <1>2, PositionStays DEF Inv, Requested
<1>4. TypeOK'
  BY <1>1 DEF Inv, Requested, TypeOK
<1>5. QED BY <1>1, <1>2, <1>3, <1>4, ClaimsStay DEF Outcome, Requested

LEMMA WorkParts ==
  ASSUME TypeOK, NEW d \in Dispatches
  PROVE  /\ work[d] \in WorkRecord
         /\ work[d].goal \in Goals \cup {"none"} /\ work[d].step \in Steps \cup {"none"}
         /\ work[d].st \in WorkStatus /\ work[d].pub \in BOOLEAN
BY DEF TypeOK, WorkRecord

\* The status of one handoff changes.
LEMMA WorkMoved ==
  ASSUME TypeOK, NEW d \in Dispatches, NEW st \in WorkStatus, NEW pub \in BOOLEAN,
         work' = [work EXCEPT ![d] = [work[d] EXCEPT !.st = st, !.pub = pub]],
         work[d].st # "absent", Allowed(work[d].st, st),
         work[d].st \in {"task", "pending"} /\ ~work[d].pub /\ pub =>
           goal[work[d].goal].st \notin Terminal
  PROVE  /\ Progressed
         /\ work' \in [Dispatches -> WorkRecord]
         /\ work'[d].st = st
         /\ \A e \in Dispatches : e # d => work'[e] = work[e]
<1>. DEFINE r == [work[d] EXCEPT !.st = st, !.pub = pub]
<1>1. /\ r \in WorkRecord /\ r.st = st /\ r.pub = pub
      /\ r.goal = work[d].goal /\ r.step = work[d].step
  BY WorkParts DEF WorkRecord
<1>. HIDE DEF r
<1>2. /\ work' \in [Dispatches -> WorkRecord] /\ work'[d] = r
      /\ \A e \in Dispatches : e # d => work'[e] = work[e]
  BY <1>1 DEF TypeOK, r
<1>3. Progresses(d)
  BY <1>1, <1>2 DEF Progresses
<1>4. \A e \in Dispatches : e # d => Progresses(e)
  BY <1>2 DEF Progresses, Allowed
<1>5. QED BY <1>1, <1>2, <1>3, <1>4 DEF Progressed

LEMMA GoalStays ==
  ASSUME UNCHANGED store
  PROVE  Developed
BY DEF Developed, Develops, store

\* What is done to a handoff while the pass stays where it is.
LEMMA WorkOutcome ==
  ASSUME Inv, Progressed, work' \in [Dispatches -> WorkRecord],
         UNCHANGED <<store, pass, pending>>,
         sweep' \subseteq Dispatches, requeues' \in 0..MaxRequeues, faults' \in 0..MaxFaults,
         \A d \in Dispatches :
           work[d].st \in {"task", "cancelled"} => work'[d].st \in {"task", "cancelled"}
  PROVE  Outcome
<1>1. Developed
  BY GoalStays
<1>2. Position'
  BY <1>1, PositionStays DEF Inv
<1>3. TypeOK'
  BY DEF Inv, TypeOK, store
<1>4. QED BY <1>1, <1>2, <1>3, ClaimsStay DEF Outcome

LEMMA FaultTyped ==
  ASSUME TypeOK, Fault
  PROVE  faults' \in 0..MaxFaults
BY GoalAssumption DEF TypeOK, Fault

LEMMA HandleOutcome ==
  ASSUME Inv, NEW d \in Dispatches, NEW st \in WorkStatus, Handle(d, st)
  PROVE  Outcome
<1>1. TypeOK
  BY DEF Inv
<1>. DEFINE pub == work[d].pub /\ st # "cancelled"
<1>2. pub \in BOOLEAN
  OBVIOUS
<1>3. work' = [work EXCEPT ![d] = [work[d] EXCEPT !.st = st, !.pub = pub]]
  BY <1>1 DEF Handle, TypeOK, WorkRecord
<1>4. st \in WorkMoves(work[d].st)
  BY DEF Handle
<1>5. work[d].st # "absent" /\ Allowed(work[d].st, st)
  BY <1>4 DEF WorkMoves, Allowed, OpenWork, WorkStatus
<1>6. work[d].st \in {"task", "cancelled"} => st \in {"task", "cancelled"}
  BY <1>4 DEF WorkMoves
<1>7. pub => work[d].pub
  BY <1>1, WorkParts
<1>. HIDE DEF pub
<1>8. /\ Progressed
      /\ work' \in [Dispatches -> WorkRecord]
      /\ work'[d].st = st
      /\ \A e \in Dispatches : e # d => work'[e] = work[e]
  BY <1>1, <1>2, <1>3, <1>5, <1>7, WorkMoved
<1>9. QED BY <1>1, <1>6, <1>8, WorkOutcome DEF Handle, TypeOK, bounds

LEMMA RequeueOutcome ==
  ASSUME Inv, NEW d \in Dispatches, Requeue(d)
  PROVE  Outcome
<1>1. TypeOK
  BY DEF Inv
<1>2. work' = [work EXCEPT ![d] = [work[d] EXCEPT !.st = "pending", !.pub = TRUE]]
  BY DEF Requeue
<1>3. work[d].st \in {"failed", "busy"}
  BY DEF Requeue, Requeueable
<1>4. "pending" \in WorkStatus /\ Allowed(work[d].st, "pending")
  BY <1>3 DEF Allowed, OpenWork, WorkStatus
<1>5. /\ Progressed
      /\ work' \in [Dispatches -> WorkRecord]
      /\ work'[d].st = "pending"
      /\ \A e \in Dispatches : e # d => work'[e] = work[e]
  BY <1>1, <1>2, <1>3, <1>4, WorkMoved
<1>6. requeues' \in 0..MaxRequeues
  BY <1>1, GoalAssumption DEF Requeue, TypeOK
<1>7. QED BY <1>1, <1>3, <1>5, <1>6, WorkOutcome DEF Requeue, TypeOK

LEMMA CancelTaskOutcome ==
  ASSUME Inv, NEW d \in Dispatches, CancelTask(d)
  PROVE  Outcome
<1>1. TypeOK
  BY DEF Inv
<1>2. faults' \in 0..MaxFaults
  BY <1>1, FaultTyped DEF CancelTask, TypeOK
<1>3. CASE UNCHANGED work
  BY <1>1, <1>2, <1>3, WorkStays, WorkOutcome DEF CancelTask, TypeOK
<1>4. CASE /\ work[d].st \in OpenWork
           /\ work' = [work EXCEPT ![d] = [work[d] EXCEPT !.st = "cancelled", !.pub = FALSE]]
  <2>1. "cancelled" \in WorkStatus /\ Allowed(work[d].st, "cancelled") /\ work[d].st # "absent"
    BY <1>4 DEF Allowed, OpenWork, WorkStatus
  <2>2. /\ Progressed
        /\ work' \in [Dispatches -> WorkRecord]
        /\ work'[d].st = "cancelled"
        /\ \A e \in Dispatches : e # d => work'[e] = work[e]
    BY <1>1, <1>4, <2>1, WorkMoved
  <2>3. QED BY <1>1, <1>2, <2>2, WorkOutcome DEF CancelTask, TypeOK
<1>5. QED BY <1>3, <1>4 DEF CancelTask

LEMMA CrashOutcome ==
  ASSUME Inv, Crash
  PROVE  Outcome
<1>1. /\ pass' = Idle /\ Idle.pc = "idle" /\ Idle.linked = {} /\ Idle.ready = {}
  BY DEF Crash, Idle
<1>2. Position' /\ Claims
  BY <1>1, PositionRests, ClaimsRest
<1>3. Developed /\ Progressed
  BY GoalStays, WorkStays DEF Crash
<1>4. TypeOK'
  BY <1>1, IdleTyped, FaultTyped DEF Inv, TypeOK, Crash, store
<1>5. QED BY <1>2, <1>3, <1>4 DEF Outcome

-----------------------------------------------------------------------------
(* The pass, while it reads and decides: tasks are left alone, goals change *)
(* tamely or not at all.                                                    *)

LEMMA PassOutcome ==
  ASSUME Inv, TameChange \/ UNCHANGED store, UNCHANGED <<work, pending, requeues>>,
         sweep' \subseteq Dispatches, faults' \in 0..MaxFaults,
         pass' \in PassRecord, Position', Claims \/ Bounded'
  PROVE  Outcome
<1>1. /\ Developed
      /\ goal' \in [Goals -> GoalRecord] /\ place' \in [Goals -> Nat]
  BY TameDevelops DEF Inv
<1>2. Progressed
  BY WorkStays
<1>3. TypeOK'
  BY <1>1 DEF Inv, TypeOK
<1>4. QED BY <1>1, <1>2, <1>3 DEF Outcome

LEMMA RestOutcome ==
  ASSUME Inv, TameChange \/ UNCHANGED store, UNCHANGED <<work, pending, requeues>>,
         sweep' \subseteq Dispatches, faults' \in 0..MaxFaults,
         pass' \in PassRecord,
         pass'.pc \in {"idle", "next"}, pass'.linked = {}, pass'.ready = {}
  PROVE  Outcome
BY PositionRests, ClaimsRest, PassOutcome

LEMMA CalmTyped ==
  ASSUME Inv, Calm
  PROVE  sweep' \subseteq Dispatches /\ faults' \in 0..MaxFaults
BY DEF Inv, TypeOK, Calm

LEMMA MovedFacts ==
  ASSUME TypeOK
  PROVE  /\ Moved \in PassRecord
         /\ Moved.pc = "next" /\ Moved.linked = {} /\ Moved.ready = {}
<1>1. pass.queue \subseteq [goal : Goals, st : GoalStatus, place : Nat]
  BY PassParts DEF TypeOK
<1>2. QED BY <1>1 DEF Moved, Idle, PassRecord

LEMMA IdleFacts ==
  /\ Idle \in PassRecord
  /\ Idle.pc = "idle" /\ Idle.linked = {} /\ Idle.ready = {}
BY DEF Idle, PassRecord

LEMMA ListingFacts ==
  ASSUME TypeOK
  PROVE  /\ Listing \in PassRecord
         /\ Listing.pc \in {"idle", "next"} /\ Listing.linked = {} /\ Listing.ready = {}
<1>1. \A g \in Goals : goal[g].st \in GoalStatus /\ place[g] \in Nat
  BY GoalParts DEF TypeOK
<1>2. Listed \subseteq [goal : Goals, st : GoalStatus, place : Nat]
  BY <1>1 DEF Listed
<1>. HIDE DEF Listed
<1>3. QED BY <1>2 DEF Listing, Idle, PassRecord

LEMMA BeginPassOutcome ==
  ASSUME Inv, BeginPass
  PROVE  Outcome
<1>1. TypeOK
  BY DEF Inv
<1>2. \A g : Cancellable(g) \subseteq Dispatches
  BY DEF Cancellable
<1>3. sweep' \subseteq Dispatches
  BY <1>1, <1>2 DEF BeginPass, TypeOK
<1>4. pass' = Listing /\ UNCHANGED <<work, pending, requeues>> /\ UNCHANGED store
  BY DEF BeginPass, Pass
<1>5. faults' \in 0..MaxFaults
  BY <1>1 DEF BeginPass, TypeOK
<1>6. QED BY <1>1, <1>3, <1>4, <1>5, ListingFacts, RestOutcome

LEMMA LinkedFacts ==
  ASSUME TypeOK, Origins, NEW g \in Goals
  PROVE  /\ Linked(g) \subseteq Steps \X Dispatches
         /\ \A l \in Linked(g) : Of(l[2], g, l[1])
         /\ {l[1] : l \in Linked(g)} \subseteq StepsIn(goal[g], Active)
<1>1. goal[g] \in GoalRecord
  BY DEF TypeOK
<1>2. ASSUME NEW l \in Linked(g)
      PROVE  l \in Steps \X Dispatches /\ Of(l[2], g, l[1]) /\ l[1] \in StepsIn(goal[g], Active)
  <2>1. PICK s \in StepsIn(goal[g], Active) :
          goal[g].step[s].link # None /\ l = <<s, goal[g].step[s].link>>
    BY <1>2 DEF Linked
  <2>2. s \in Steps
    BY <1>1, GoalParts
  <2>3. goal[g].step[s].link \in Dispatches
    BY <1>1, <2>1, <2>2, GoalParts
  <2>4. Of(goal[g].step[s].link, g, s)
    BY <2>1, <2>2 DEF Origins
  <2>5. QED BY <2>1, <2>2, <2>3, <2>4
<1>3. QED BY <1>2

LEMMA TakeOutcome ==
  ASSUME Inv, Take
  PROVE  Outcome
<1>1. TypeOK /\ Position /\ Origins
  BY DEF Inv
<1>2. /\ sweep' \subseteq Dispatches /\ faults' \in 0..MaxFaults
      /\ UNCHANGED <<work, pending, requeues>>
  BY CalmTyped DEF Take, Pass
<1>3. /\ pass \in PassRecord /\ pass.pc = "next"
      /\ pass.linked = {} /\ pass.ready = {}
  BY <1>1 DEF TypeOK, Position, Take, Handing
<1>4. CASE pass.queue = {} /\ Pass(Idle) /\ UNCHANGED store
  BY <1>2, <1>4, IdleFacts, RestOutcome DEF Pass
<1>5. ASSUME NEW e \in pass.queue,
             e.st # "planning",
             Pass(IF goal[e.goal].st \notin Processed THEN [pass EXCEPT !.queue = pass.queue \ {e}]
                  ELSE [[pass EXCEPT !.goal = e.goal, !.queue = pass.queue \ {e}] EXCEPT
                           !.pc = "reconcile", !.linked = Linked(e.goal)]),
             UNCHANGED store
      PROVE  Outcome
  <2>1. e.goal \in Goals /\ pass.queue \ {e} \subseteq [goal : Goals, st : GoalStatus, place : Nat]
    BY <1>3, <1>5, PassParts
  <2>2. CASE goal[e.goal].st \notin Processed
    <3>1. pass' = [pass EXCEPT !.queue = pass.queue \ {e}]
      BY <1>5, <2>2 DEF Pass
    <3>2. /\ pass' \in PassRecord
          /\ pass'.pc = "next" /\ pass'.linked = {} /\ pass'.ready = {}
      BY <1>3, <2>1, <3>1 DEF PassRecord
    <3>3. QED BY <1>2, <1>5, <3>2, RestOutcome
  <2>3. CASE goal[e.goal].st \in Processed
    <3>1. pass' = [pass EXCEPT !.goal = e.goal, !.queue = pass.queue \ {e},
                               !.pc = "reconcile", !.linked = Linked(e.goal)]
      BY <1>3, <1>5, <2>3 DEF Pass, PassRecord
    <3>2. /\ Linked(e.goal) \subseteq Steps \X Dispatches
          /\ \A l \in Linked(e.goal) : Of(l[2], e.goal, l[1])
          /\ {l[1] : l \in Linked(e.goal)} \subseteq StepsIn(goal[e.goal], Active)
      BY <1>1, <2>1, LinkedFacts
    <3>3. /\ pass' \in PassRecord
          /\ pass'.pc = "reconcile" /\ pass'.goal = e.goal
          /\ pass'.linked = Linked(e.goal) /\ pass'.ready = {}
      BY <1>3, <2>1, <3>1, <3>2 DEF PassRecord
    <3>4. (\A l \in pass.linked : Of(l[2], pass.goal, l[1]))'
      BY <1>2, <3>2, <3>3 DEF Of
    <3>5. Position'
      BY <2>1, <3>3, <3>4 DEF Position, Handing
    <3>6. Claims
      BY <3>2, <3>3 DEF Claims, Claimed, Engaged
    <3>7. QED BY <1>2, <1>5, <3>3, <3>5, <3>6, PassOutcome
  <2>4. QED BY <2>2, <2>3
<1>6. ASSUME NEW e \in pass.queue,
             goal[e.goal].st \in {"planning", "needs_attention"},
             Pass([[pass EXCEPT !.goal = e.goal, !.queue = pass.queue \ {e}] EXCEPT !.pc = "planning"]),
             Commit(e.goal, [goal[e.goal] EXCEPT !.st = "planning"])
      PROVE  Outcome
  <2>1. e.goal \in Goals /\ pass.queue \ {e} \subseteq [goal : Goals, st : GoalStatus, place : Nat]
    BY <1>3, <1>6, PassParts
  <2>2. TameChange
    BY <1>1, <1>6, <2>1, StatusTame, CommitTame DEF GoalStatus, Terminal
  <2>3. pass' = [pass EXCEPT !.goal = e.goal, !.queue = pass.queue \ {e}, !.pc = "planning"]
    BY <1>3, <1>6 DEF Pass, PassRecord
  <2>4. /\ pass' \in PassRecord
        /\ pass'.pc = "planning" /\ pass'.goal = e.goal
        /\ pass'.linked = {} /\ pass'.ready = {}
    BY <1>3, <2>1, <2>3 DEF PassRecord
  <2>5. Position'
    BY <2>1, <2>4 DEF Position, Handing
  <2>6. QED BY <1>2, <2>2, <2>4, <2>5, ClaimsRest, PassOutcome
<1>7. CASE Pass(Idle) /\ UNCHANGED store
  BY <1>2, <1>7, IdleFacts, RestOutcome DEF Pass
<1>8. QED BY <1>4, <1>5, <1>6, <1>7 DEF Take

LEMMA PlannedOutcome ==
  ASSUME Inv, Planned
  PROVE  Outcome
<1>1. TypeOK /\ Position
  BY DEF Inv
<1>2. G \in Goals /\ goal[G] \in GoalRecord /\ pass.pc = "planning"
  BY <1>1 DEF Position, Planned, G, TypeOK
<1>3. TameChange \/ UNCHANGED store
  <2>1. CASE UNCHANGED store
    BY <2>1
  <2>2. ASSUME goal[G].st \notin Terminal, goal[G].rev < MaxRevision,
               NEW p \in Plans, Commit(G, Replanned(G, p))
        PROVE  TameChange
    BY <1>1, <1>2, <2>2, ReplannedTame, CommitTame
  <2>3. CASE goal[G].st \notin Terminal /\ Commit(G, [goal[G] EXCEPT !.st = "needs_attention"])
    BY <1>1, <1>2, <2>3, StatusTame, CommitTame DEF GoalStatus, Terminal
  <2>4. QED BY <2>1, <2>2, <2>3 DEF Planned
<1>4. QED BY <1>1, <1>3, CalmTyped, MovedFacts, RestOutcome DEF Planned, Pass

LEMMA AttendOutcome ==
  ASSUME Inv, Attend
  PROVE  Outcome
<1>1. TypeOK /\ Position
  BY DEF Inv
<1>2. G \in Goals /\ pass.pc = "attend" /\ pass.ready = {} /\ pass \in PassRecord
  BY <1>1 DEF Position, Attend, G, TypeOK, Handing
<1>3. CASE goal[G].st \in Terminal
  BY <1>1, <1>3, CalmTyped, MovedFacts, RestOutcome DEF Attend, Pass
<1>4. CASE goal[G].st \notin Terminal
  <2>1. TameChange
    BY <1>1, <1>2, <1>4, StatusTame, CommitTame DEF Attend, GoalStatus, Terminal
  <2>2. pass' = [pass EXCEPT !.pc = "reconcile"]
    BY <1>4 DEF Attend, Pass
  <2>3. /\ pass' \in PassRecord /\ pass'.pc = "reconcile" /\ pass'.goal = pass.goal
        /\ pass'.linked = pass.linked /\ pass'.ready = {}
    BY <1>2, <2>2 DEF PassRecord
  <2>4. (\A l \in pass.linked : Of(l[2], pass.goal, l[1]))'
    BY <1>1, <2>3 DEF Position, Of, Attend
  <2>5. Position'
    BY <1>2, <2>3, <2>4 DEF Position, Handing, G
  <2>6. Claims
    BY <1>2, <2>3, ClaimsShrink
  <2>7. QED BY <2>1, <2>3, <2>5, <2>6, CalmTyped, PassOutcome DEF Attend, Pass
<1>5. QED BY <1>3, <1>4

\* One step of a goal changes, to what the pass may make of it.
LEMMA StepDevelops ==
  ASSUME TypeOK, NEW g \in Goals, NEW s \in Steps,
         NEW y \in [st : StepStatus, link : {None} \cup Dispatches],
         goal[g].st \notin Terminal,
         y.link = goal[g].step[s].link \/ Of(y.link, g, s),
         y.st \in Active => s \in Engaged(g),
         y.st = "completed" => \E d \in Dispatches : Of(d, g, s) /\ work[d].st = "completed",
         Commit(g, WithStep(g, s, y))
  PROVE  /\ Developed
         /\ goal' \in [Goals -> GoalRecord] /\ place' \in [Goals -> Nat]
         /\ \A f \in Goals : goal'[f].st = goal[f].st
<1>. DEFINE r == WithStep(g, s, y)
<1>1. /\ r \in GoalRecord /\ r.st = goal[g].st /\ r.plan = goal[g].plan
      /\ r.step[s] = y /\ \A t \in Steps : t # s => r.step[t] = goal[g].step[t]
  BY StepReset
<1>. HIDE DEF r
<1>2. /\ goal' \in [Goals -> GoalRecord] /\ place' \in [Goals -> Nat]
      /\ goal'[g] = r /\ \A f \in Goals : f # g => goal'[f] = goal[f]
  BY <1>1, CommitFacts DEF r
<1>3. \A A : /\ StepsIn(r, A) \subseteq Steps
             /\ \A t \in StepsIn(r, A) : t # s => t \in StepsIn(goal[g], A)
             /\ s \in StepsIn(r, A) => y.st \in A
  BY <1>1, GoalParts DEF StepsIn
<1>4. StepsIn(r, Active) \subseteq Engaged(g)
  BY <1>3 DEF Engaged
<1>5. \A t \in StepsIn(r, {"completed"}) :
        \/ t \in StepsIn(goal[g], {"completed"})
        \/ \E d \in Dispatches : Of(d, g, t) /\ work[d].st = "completed"
  BY <1>3
<1>6. \A t \in Steps : \/ r.step[t].link \in {None, goal[g].step[t].link}
                       \/ Of(r.step[t].link, g, t)
  BY <1>1
<1>7. r.st \notin Terminal /\ r.st # "completed"
  BY <1>1 DEF Terminal
<1>8. Develops(g)
  BY <1>2, <1>4, <1>5, <1>6, <1>7 DEF Develops
<1>9. \A f \in Goals : f # g => Develops(f)
  BY <1>2 DEF Develops
<1>10. \A f \in Goals : goal'[f].st = goal[f].st
  BY <1>1, <1>2
<1>11. QED BY <1>2, <1>8, <1>9, <1>10 DEF Developed

LEMMA PublicationProgresses ==
  ASSUME TypeOK, NEW d \in Dispatches, NEW pub \in BOOLEAN,
         work[d].st # "absent", pub => goal[work[d].goal].st \notin Terminal,
         work' = [work EXCEPT ![d].pub = pub]
  PROVE  Progressed /\ work' \in [Dispatches -> WorkRecord]
<1>1. work[d].st \in WorkStatus /\ Allowed(work[d].st, work[d].st)
  BY WorkParts DEF Allowed
<1>2. work' = [work EXCEPT ![d] = [work[d] EXCEPT !.st = work[d].st, !.pub = pub]]
  BY DEF TypeOK, WorkRecord
<1>3. QED BY <1>1, <1>2, WorkMoved

LEMMA ReconcileOutcome ==
  ASSUME Inv, NEW s \in Steps, NEW d \in Dispatches, Reconcile(s, d)
  PROVE  Outcome
<1>1. TypeOK /\ Position /\ Origins
  BY DEF Inv
<1>2. /\ pass \in PassRecord /\ pass.pc = "reconcile" /\ pass.goal \in Goals /\ G = pass.goal
      /\ pass.ready = {} /\ <<s, d>> \in pass.linked /\ Of(d, G, s)
      /\ goal[G] \in GoalRecord
  BY <1>1 DEF TypeOK, Position, Reconcile, Handing, G
<1>3. UNCHANGED <<pending, requeues>> /\ sweep' \subseteq Dispatches /\ faults' \in 0..MaxFaults
  BY <1>1, CalmTyped DEF Reconcile, Pass
<1>4. Progressed /\ work' \in [Dispatches -> WorkRecord]
  <2>1. CASE UNCHANGED work
    BY <1>1, <2>1, WorkStays DEF TypeOK
  <2>2. CASE Unstarted(s, d) /\ work' = [work EXCEPT ![d].pub = TRUE]
    BY <1>1, <1>2, <2>2, PublicationProgresses DEF Unstarted, Of, Terminal
  <2>3. QED BY <2>1, <2>2 DEF Reconcile
<1>. DEFINE rest == [pass EXCEPT !.linked = pass.linked \ {<<s, d>>}]
            y == [goal[G].step[s] EXCEPT !.st = Reached(work[d].st)]
            moved == /\ work[d].st \notin {"task", "pending", "busy"}
                     /\ ~(work[d].st = "waiting" /\ goal[G].step[s].st = "waiting")
            next == [rest EXCEPT
                       !.pc = IF work[d].st = "attention" THEN "attend" ELSE rest.pc,
                       !.failed = IF work[d].st \in {"failed", "cancelled"}
                                  THEN rest.failed \cup {s} ELSE rest.failed]
<1>5. \/ UNCHANGED store /\ pass' \in {rest, Moved, Idle}
      \/ /\ moved /\ goal[G].st \notin Terminal /\ s \in StepsOf(G)
         /\ Commit(G, WithStep(G, s, y)) /\ pass' = next
  BY DEF Reconcile, Pass
<1>6. /\ rest \in PassRecord /\ rest.pc = "reconcile" /\ rest.goal = pass.goal
      /\ rest.linked \subseteq pass.linked /\ rest.ready = {} /\ rest.failed \subseteq Steps
  BY <1>2 DEF PassRecord
<1>7. /\ next \in PassRecord /\ next.pc \in {"reconcile", "attend"} /\ next.goal = pass.goal
      /\ next.linked \subseteq pass.linked /\ next.ready = {}
  <2>. HIDE DEF rest
  <2>1. QED BY <1>2, <1>6 DEF PassRecord
<1>. HIDE DEF rest, next
<1>8. ASSUME pass' \in {rest, next} PROVE Position' /\ Claims /\ pass' \in PassRecord
  <2>1. /\ pass' \in PassRecord /\ pass'.pc \in {"reconcile", "attend"}
        /\ pass'.goal = pass.goal /\ pass'.linked \subseteq pass.linked /\ pass'.ready = {}
    BY <1>6, <1>7, <1>8
  <2>2. (\A l \in pass.linked : Of(l[2], pass.goal, l[1]))'
    BY <1>1, <1>4, <2>1, OfStays DEF Position
  <2>3. Position'
    BY <1>2, <2>1, <2>2 DEF Position, Handing
  <2>4. QED BY <1>2, <2>1, <2>3, ClaimsShrink
<1>9. ASSUME pass' \in {Moved, Idle} PROVE Position' /\ Claims /\ pass' \in PassRecord
  BY <1>1, <1>9, MovedFacts, IdleFacts, PositionRests, ClaimsRest
<1>10. Position' /\ Claims /\ pass' \in PassRecord
  BY <1>5, <1>8, <1>9
<1>11. Developed /\ goal' \in [Goals -> GoalRecord] /\ place' \in [Goals -> Nat]
  <2>1. CASE UNCHANGED store
    BY <1>1, <2>1, GoalStays DEF TypeOK, store
  <2>2. CASE /\ moved /\ goal[G].st \notin Terminal
             /\ Commit(G, WithStep(G, s, y))
    <3>1. work[d].st \in WorkStatus /\ work[d].st # "absent"
      BY <1>1, <1>2, WorkParts DEF Of
    <3>2. /\ Reached(work[d].st) \in StepStatus
          /\ Reached(work[d].st) = "completed" => work[d].st = "completed"
      BY <2>2, <3>1 DEF Reached, WorkStatus, OpenWork, StepStatus
    <3>3. /\ y \in [st : StepStatus, link : {None} \cup Dispatches]
          /\ y.st = Reached(work[d].st) /\ y.link = goal[G].step[s].link
      BY <1>2, <3>2, GoalParts
    <3>4. s \in Engaged(G)
      BY <1>2 DEF Engaged, Claimed
    <3>. HIDE DEF y
    <3>5. QED BY <1>1, <1>2, <2>2, <3>2, <3>3, <3>4, StepDevelops
  <2>3. QED BY <1>5, <2>1, <2>2
<1>12. TypeOK'
  BY <1>1, <1>3, <1>4, <1>10, <1>11 DEF TypeOK
<1>13. QED BY <1>4, <1>10, <1>11, <1>12 DEF Outcome

LEMMA AttentionTame ==
  ASSUME TypeOK, NEW g \in Goals, goal[g].st \notin Terminal
  PROVE  Tame(g, Attention(goal[g]))
<1>. DEFINE waiting == StepsIn(goal[g], {"pending"})
            failed == StepsIn(goal[g], {"failed"})
            Closed(T) == \A s \in waiting :
                           goal[g].plan.deps[s] \cap (T \cup failed) # {} => s \in T
            U == {s \in waiting : \A T \in SUBSET waiting : Closed(T) => s \in T}
            x == [goal[g] EXCEPT !.step = [s \in Steps |->
                    IF s \in U THEN [goal[g].step[s] EXCEPT !.st = "blocked"]
                    ELSE goal[g].step[s]]]
            r == [x EXCEPT !.st = "needs_attention"]
<1>1. goal[g] \in GoalRecord
  BY DEF TypeOK
<1>2. U \in SUBSET Steps
  BY <1>1, GoalParts
<1>3. Attention(goal[g]) = [goal[g] EXCEPT !.st = "needs_attention", !.step = [s \in Steps |->
                    IF s \in U THEN [goal[g].step[s] EXCEPT !.st = "blocked"]
                    ELSE goal[g].step[s]]]
  BY DEF Attention
<1>. HIDE DEF U
<1>4. Restyled(goal[g], x)
  BY <1>1, <1>2, RestyleSteps DEF StepStatus, Active
<1>5. Attention(goal[g]) = r
  BY <1>1, <1>3 DEF GoalRecord
<1>. HIDE DEF x
<1>6. r \in GoalRecord /\ r.st = "needs_attention" /\ r.plan = goal[g].plan /\ r.step = x.step
  BY <1>4 DEF Restyled, GoalRecord, GoalStatus
<1>. HIDE DEF r
<1>7. Tame(g, r)
  BY <1>4, <1>6, TameIf DEF Restyled, Terminal
<1>8. QED BY <1>5, <1>7

LEMMA ReconciledOutcome ==
  ASSUME Inv, Reconciled
  PROVE  Outcome
<1>1. TypeOK /\ Position
  BY DEF Inv
<1>2. /\ pass \in PassRecord /\ pass.goal \in Goals /\ G = pass.goal
      /\ pass.ready = {} /\ pass.linked = {}
  BY <1>1 DEF TypeOK, Position, Reconciled, Handing, G
<1>3. UNCHANGED <<work, pending, requeues>> /\ sweep' \subseteq Dispatches /\ faults' \in 0..MaxFaults
  BY <1>1, CalmTyped DEF Reconciled, Pass
<1>4. CASE UNCHANGED store /\ Pass(Moved)
  BY <1>1, <1>3, <1>4, MovedFacts, RestOutcome DEF Pass
<1>5. CASE /\ Pass([pass EXCEPT !.pc = "decide", !.failed = {}])
           /\ \/ UNCHANGED store
              \/ goal[G].st \notin Terminal /\ Commit(G, Attention(goal[G]))
  <2>1. TameChange \/ UNCHANGED store
    BY <1>1, <1>2, <1>5, AttentionTame, CommitTame
  <2>2. pass' = [pass EXCEPT !.pc = "decide", !.failed = {}]
    BY <1>5 DEF Pass
  <2>3. /\ pass' \in PassRecord /\ pass'.pc = "decide" /\ pass'.goal = pass.goal
        /\ pass'.linked = {} /\ pass'.ready = {}
    BY <1>2, <2>2 DEF PassRecord
  <2>4. Position'
    BY <1>2, <2>3 DEF Position, Handing
  <2>5. QED BY <1>3, <2>1, <2>3, <2>4, ClaimsRest, PassOutcome
<1>6. QED BY <1>4, <1>5 DEF Reconciled

-----------------------------------------------------------------------------
(* The pass, while it dispatches.                                           *)

\* The steps that are chosen fit beside the active ones.
LEMMA ReadyFits ==
  ASSUME NEW r \in GoalRecord, NEW c \in Ready(r)
  PROVE  c \subseteq Steps /\ Cardinality(StepsIn(r, Active) \cup c) <= MaxParallel
<1>. DEFINE A == StepsIn(r, Active)
<1>1. A \subseteq Steps /\ StepsIn(r, {"pending"}) \subseteq Steps
  BY GoalParts
<1>2. c \subseteq StepsIn(r, {"pending"}) /\ Cardinality(c) <= MaxParallel - Cardinality(A)
  BY DEF Ready
<1>. HIDE DEF A
<1>3. IsFiniteSet(A) /\ IsFiniteSet(c)
  BY <1>1, <1>2, FS_Subset, GoalAssumption
<1>4. /\ Cardinality(A) \in Nat /\ Cardinality(c) \in Nat
      /\ IsFiniteSet(A \cap c) /\ Cardinality(A \cap c) \in Nat
  BY <1>3, FS_CardinalityType, FS_Subset
<1>5. Cardinality(A \cup c) = Cardinality(A) + Cardinality(c) - Cardinality(A \cap c)
  BY <1>3, FS_Union
<1>6. Cardinality(A \cup c) <= MaxParallel
  BY <1>2, <1>4, <1>5, GoalAssumption
<1>7. QED BY <1>1, <1>2, <1>6 DEF A

LEMMA FewerSteps ==
  ASSUME NEW A \in SUBSET Steps, NEW B \in SUBSET A, Cardinality(A) <= MaxParallel
  PROVE  Cardinality(B) <= MaxParallel
<1>1. IsFiniteSet(A) /\ IsFiniteSet(B)
  BY FS_Subset, GoalAssumption
<1>2. Cardinality(B) <= Cardinality(A) /\ Cardinality(A) \in Nat /\ Cardinality(B) \in Nat
  BY <1>1, FS_Subset, FS_CardinalityType
<1>3. QED BY <1>2, GoalAssumption

LEMMA EngagedSteps ==
  ASSUME TypeOK, NEW g \in Goals
  PROVE  Engaged(g) \subseteq Steps
<1>1. StepsIn(goal[g], Active) \subseteq Steps
  BY GoalParts DEF TypeOK
<1>2. Claimed(g) \subseteq Steps
  BY PassParts DEF TypeOK, Claimed
<1>3. QED BY <1>1, <1>2 DEF Engaged

LEMMA DecideOutcome ==
  ASSUME Inv, Decide
  PROVE  Outcome
<1>1. TypeOK /\ Position /\ Bounded
  BY DEF Inv
<1>2. /\ pass \in PassRecord /\ pass.pc = "decide" /\ pass.goal \in Goals /\ G = pass.goal
      /\ pass.ready = {} /\ pass.linked = {} /\ goal[G] \in GoalRecord
  BY <1>1 DEF TypeOK, Position, Decide, Handing, G
<1>3. UNCHANGED <<work, pending, requeues>> /\ sweep' \subseteq Dispatches /\ faults' \in 0..MaxFaults
  BY <1>1, CalmTyped DEF Decide, Pass
<1>4. CASE pass' \in {Moved, Idle} /\ UNCHANGED store
  BY <1>1, <1>3, <1>4, MovedFacts, IdleFacts, RestOutcome
<1>5. CASE /\ goal[G].plan.final \in StepsOf(G)
           /\ goal[G].step[goal[G].plan.final].st = "completed"
           /\ goal[G].st \notin Terminal
           /\ Commit(G, [goal[G] EXCEPT !.st = "completed"]) /\ pass' = Moved
  <2>. DEFINE r == [goal[G] EXCEPT !.st = "completed"]
  <2>1. r \in GoalRecord /\ r.st = "completed" /\ r.plan = goal[G].plan /\ r.step = goal[G].step
    BY <1>2 DEF GoalRecord, GoalStatus
  <2>. HIDE DEF r
  <2>2. \A A : StepsIn(r, A) = StepsIn(goal[G], A)
    BY <2>1 DEF StepsIn
  <2>3. r.plan.final \in StepsIn(r, {"completed"})
    BY <1>5, <2>1 DEF StepsIn, StepsOf
  <2>4. Tame(G, r)
    BY <1>2, <1>5, <2>1, <2>2, <2>3 DEF Tame
  <2>5. TameChange
    BY <1>5, <2>4, CommitTame DEF r
  <2>6. QED BY <1>1, <1>3, <1>5, <2>5, MovedFacts, RestOutcome
<1>6. ASSUME NEW c \in Ready(goal[G]),
             pass' = [pass EXCEPT !.pc = "dispatch", !.ready = c], UNCHANGED store
      PROVE  Outcome
  <2>1. c \subseteq Steps /\ Cardinality(StepsIn(goal[G], Active) \cup c) <= MaxParallel
    BY <1>2, ReadyFits
  <2>2. /\ pass' \in PassRecord /\ pass'.pc = "dispatch" /\ pass'.goal = pass.goal
        /\ pass'.linked = {} /\ pass'.ready = c
    BY <1>2, <1>6, <2>1 DEF PassRecord
  <2>3. Position'
    BY <1>2, <2>2 DEF Position, Handing
  <2>4. ASSUME NEW g \in Goals PROVE Cardinality(Engaged(g)') <= MaxParallel
    <3>1. goal' = goal
      BY <1>6 DEF store
    <3>2. CASE g = G
      <4>1. Engaged(g)' = StepsIn(goal[G], Active) \cup c
        BY <1>2, <2>2, <3>1, <3>2 DEF Engaged, Claimed
      <4>2. QED BY <2>1, <4>1
    <3>3. CASE g # G
      <4>1. Engaged(g)' = StepsIn(goal[g], Active)
        BY <1>2, <2>2, <3>1, <3>3 DEF Engaged, Claimed
      <4>2. Engaged(g)' \subseteq Engaged(g) /\ Engaged(g) \subseteq Steps
        BY <1>1, <4>1, EngagedSteps DEF Engaged
      <4>3. Cardinality(Engaged(g)) <= MaxParallel
        BY <1>1 DEF Bounded
      <4>4. QED BY <4>2, <4>3, FewerSteps
    <3>4. QED BY <3>2, <3>3
  <2>5. Bounded'
    BY <2>4 DEF Bounded
  <2>6. QED BY <1>3, <1>6, <2>2, <2>3, <2>5, PassOutcome
<1>7. QED BY <1>4, <1>5, <1>6 DEF Decide, Pass

LEMMA FinallyTyped ==
  ASSUME TypeOK, Finally
  PROVE  sweep' \subseteq Dispatches
BY DEF TypeOK, Finally, Cancellable

\* A dispatch that ends, whether its handoff was published or not.
LEMMA ReturnedFacts ==
  ASSUME TypeOK, Position, pass.pc \in {"dispatch"} \cup Handing, NEW s,
         pass' = Returned(s)
  PROVE  pass' \in PassRecord /\ Position' /\ Claims
<1>1. pass \in PassRecord /\ pass.goal \in Goals /\ pass.linked = {}
  BY DEF TypeOK, Position, Handing
<1>2. /\ pass' \in PassRecord /\ pass'.pc = "dispatch" /\ pass'.goal = pass.goal
      /\ pass'.linked = {} /\ pass'.ready \subseteq pass.ready
  BY <1>1 DEF Returned, PassRecord
<1>3. QED BY <1>1, <1>2, ClaimsShrink DEF Position, Handing

LEMMA DispatchedOutcome ==
  ASSUME Inv, Dispatched
  PROVE  Outcome
<1>1. TypeOK
  BY DEF Inv
<1>2. UNCHANGED <<pending, requeues>> /\ pass' = Moved /\ UNCHANGED work /\ UNCHANGED store
  BY DEF Dispatched, Pass
<1>3. sweep' \subseteq Dispatches /\ faults' \in 0..MaxFaults
  BY CalmTyped DEF Dispatched
<1>4. QED BY <1>1, <1>2, <1>3, MovedFacts, RestOutcome

LEMMA PassFailsOutcome ==
  ASSUME Inv, PassFails
  PROVE  Outcome
<1>1. TypeOK
  BY DEF Inv
<1>2. UNCHANGED <<pending, requeues>> /\ pass' = Idle /\ UNCHANGED work /\ UNCHANGED store
  BY DEF PassFails, Pass
<1>3. sweep' \subseteq Dispatches /\ faults' \in 0..MaxFaults
  BY <1>1, FinallyTyped, FaultTyped DEF PassFails, TypeOK
<1>4. QED BY <1>1, <1>2, <1>3, IdleFacts, RestOutcome

LEMMA CreateTaskOutcome ==
  ASSUME Inv, NEW s \in Steps, CreateTask(s)
  PROVE  Outcome
<1>1. TypeOK /\ Position
  BY DEF Inv
<1>2. /\ pass \in PassRecord /\ pass.pc = "dispatch" /\ pass.goal \in Goals /\ G = pass.goal
      /\ pass.linked = {} /\ s \in pass.ready
  BY <1>1 DEF TypeOK, Position, CreateTask, Handing, G
<1>3. UNCHANGED <<pending, requeues>> /\ faults' \in 0..MaxFaults /\ UNCHANGED store
  BY <1>1 DEF CreateTask, Pass, TypeOK
<1>4. CASE pass' = Returned(s) /\ Finally /\ UNCHANGED work
  BY <1>1, <1>2, <1>3, <1>4, ReturnedFacts, FinallyTyped, PassOutcome
<1>5. ASSUME NEW d \in Unused,
             work' = [work EXCEPT ![d] = [goal |-> G, step |-> s, st |-> "task", pub |-> FALSE]],
             pass' = [pass EXCEPT !.pc = "handoff", !.d = d], UNCHANGED sweep
      PROVE  Outcome
  <2>1. d \in Dispatches /\ work[d].st = "absent"
    BY <1>5 DEF Unused
  <2>. DEFINE r == [goal |-> G, step |-> s, st |-> "task", pub |-> FALSE]
  <2>2. r \in WorkRecord
    BY <1>2 DEF WorkRecord, WorkStatus, OpenWork
  <2>3. /\ work' \in [Dispatches -> WorkRecord] /\ work'[d] = r
        /\ \A e \in Dispatches : e # d => work'[e] = work[e]
    BY <1>1, <1>5, <2>1, <2>2 DEF TypeOK
  <2>4. Progressed
    <3>1. Progresses(d)
      BY <1>2, <2>1, <2>3 DEF Progresses, Allowed
    <3>2. \A e \in Dispatches : e # d => Progresses(e)
      BY <2>3 DEF Progresses, Allowed
    <3>3. QED BY <3>1, <3>2 DEF Progressed
  <2>5. /\ pass' \in PassRecord /\ pass'.pc = "handoff" /\ pass'.goal = pass.goal /\ pass'.d = d
        /\ pass'.linked = {} /\ pass'.ready = pass.ready
    BY <1>2, <1>5, <2>1 DEF PassRecord
  <2>6. Position'
    BY <1>2, <2>1, <2>3, <2>5 DEF Position, Handing
  <2>7. Developed /\ Claims
    BY <1>2, <1>3, <2>5, GoalStays, ClaimsShrink
  <2>8. TypeOK'
    BY <1>1, <1>3, <1>5, <2>3, <2>5 DEF TypeOK, store
  <2>9. QED BY <2>4, <2>6, <2>7, <2>8 DEF Outcome
<1>6. QED BY <1>4, <1>5 DEF CreateTask, Pass

\* Where the pass has a task in hand.
LEMMA HandingFacts ==
  ASSUME TypeOK, Position, pass.pc \in Handing
  PROVE  /\ pass \in PassRecord /\ pass.goal \in Goals /\ G = pass.goal
         /\ pass.linked = {} /\ pass.d \in Dispatches /\ S \in pass.ready /\ S \in Steps
         /\ Of(pass.d, G, S) /\ S \in Engaged(G)
<1>1. /\ pass \in PassRecord /\ pass.goal \in Goals /\ G = pass.goal /\ pass.linked = {}
      /\ pass.d \in Dispatches /\ S \in pass.ready /\ Of(pass.d, G, S)
  BY DEF TypeOK, Position, Handing, G, S, Of
<1>2. S \in Steps
  BY <1>1, PassParts
<1>3. QED BY <1>1, <1>2 DEF Engaged, Claimed

LEMMA CreateHandoffOutcome ==
  ASSUME Inv, CreateHandoff
  PROVE  Outcome
<1>1. TypeOK /\ Position
  BY DEF Inv
<1>2. pass.pc = "handoff" /\ pass.pc \in Handing
  BY DEF CreateHandoff, Handing
<1>3. UNCHANGED <<pending, requeues>> /\ faults' \in 0..MaxFaults /\ UNCHANGED store
  BY <1>1 DEF CreateHandoff, Pass, TypeOK
<1>4. CASE pass' = Returned(S) /\ Finally /\ UNCHANGED work
  BY <1>1, <1>2, <1>3, <1>4, ReturnedFacts, FinallyTyped, PassOutcome
<1>5. CASE /\ work[pass.d].st # "cancelled"
           /\ work' = [work EXCEPT ![pass.d].st = "pending"]
           /\ pass' = [pass EXCEPT !.pc = "link"] /\ UNCHANGED sweep
  <2>. DEFINE d == pass.d
  <2>1. /\ pass \in PassRecord /\ pass.goal \in Goals
        /\ pass.linked = {} /\ d \in Dispatches /\ S \in pass.ready
        /\ work[d].goal = pass.goal /\ work[d].step = S /\ work[d].st = "task"
    BY <1>1, <1>2, <1>5, HandingFacts DEF Position, Of, G
  <2>. HIDE DEF d
  <2>2. work[d].pub \in BOOLEAN /\ "pending" \in WorkStatus /\ Allowed("task", "pending")
    BY <1>1, <2>1, WorkParts DEF WorkStatus, OpenWork, Allowed
  <2>3. work' = [work EXCEPT ![d] = [work[d] EXCEPT !.st = "pending", !.pub = work[d].pub]]
    BY <1>1, <1>5, <2>1 DEF TypeOK, WorkRecord, d
  <2>4. /\ Progressed /\ work' \in [Dispatches -> WorkRecord]
        /\ work'[d].st = "pending"
    BY <1>1, <2>1, <2>2, <2>3, WorkMoved
  <2>5. /\ pass' \in PassRecord /\ pass'.pc = "link" /\ pass'.goal = pass.goal
        /\ pass'.d = d /\ pass'.linked = {} /\ pass'.ready = pass.ready
    BY <1>5, <2>1 DEF PassRecord, d
  <2>6. work'[d].goal = pass.goal /\ work'[d].step = S
    BY <2>1, <2>4 DEF Progressed, Progresses
  <2>7. Position'
    BY <2>1, <2>4, <2>5, <2>6 DEF Position, Handing
  <2>8. Developed /\ Claims
    BY <2>1, <1>3, <2>5, GoalStays, ClaimsShrink
  <2>9. TypeOK'
    BY <1>1, <1>3, <1>5, <2>4, <2>5 DEF TypeOK, store
  <2>10. QED BY <2>4, <2>7, <2>8, <2>9 DEF Outcome
<1>6. QED BY <1>4, <1>5 DEF CreateHandoff, Pass

LEMMA LinkOutcome ==
  ASSUME Inv, Link
  PROVE  Outcome
<1>1. TypeOK /\ Position
  BY DEF Inv
<1>2. pass.pc = "link" /\ pass.pc \in Handing
  BY DEF Link, Handing
<1>3. UNCHANGED <<work, pending, requeues>> /\ faults' \in 0..MaxFaults
  BY <1>1 DEF Link, Pass, TypeOK
<1>4. CASE pass' = Returned(S) /\ Finally /\ UNCHANGED store
  BY <1>1, <1>2, <1>3, <1>4, ReturnedFacts, FinallyTyped, PassOutcome
<1>5. CASE pass' = Idle /\ Finally /\ UNCHANGED store
  BY <1>1, <1>3, <1>5, IdleFacts, FinallyTyped, RestOutcome
<1>6. CASE /\ goal[G].st \notin Terminal
           /\ Commit(G, WithStep(G, S, [st |-> "running", link |-> pass.d]))
           /\ pass' = [pass EXCEPT !.pc = "publish"] /\ UNCHANGED sweep
  <2>. DEFINE y == [st |-> "running", link |-> pass.d]
  <2>1. /\ pass \in PassRecord /\ pass.goal \in Goals /\ G = pass.goal
        /\ pass.linked = {} /\ pass.d \in Dispatches /\ S \in pass.ready /\ S \in Steps
        /\ Of(pass.d, G, S) /\ S \in Engaged(G)
    BY <1>1, <1>2, HandingFacts
  <2>2. /\ y \in [st : StepStatus, link : {None} \cup Dispatches]
        /\ y.st = "running" /\ y.link = pass.d
    BY <2>1 DEF StepStatus
  <2>. HIDE DEF y
  <2>3. Commit(G, WithStep(G, S, y))
    BY <1>6 DEF y
  <2>4. /\ Developed
        /\ goal' \in [Goals -> GoalRecord] /\ place' \in [Goals -> Nat]
        /\ \A f \in Goals : goal'[f].st = goal[f].st
    BY <1>1, <1>6, <2>1, <2>2, <2>3, StepDevelops
  <2>5. /\ pass' \in PassRecord /\ pass'.pc = "publish" /\ pass'.goal = pass.goal
        /\ pass'.d = pass.d /\ pass'.linked = {} /\ pass'.ready = pass.ready
    BY <1>6, <2>1 DEF PassRecord
  <2>6. Position'
    BY <1>3, <1>6, <2>1, <2>4, <2>5 DEF Position, Handing, Of
  <2>7. Progressed /\ Claims
    BY <1>3, <2>1, <2>5, WorkStays, ClaimsShrink
  <2>8. TypeOK'
    BY <1>1, <1>3, <1>6, <2>4, <2>5 DEF TypeOK
  <2>9. QED BY <2>4, <2>6, <2>7, <2>8 DEF Outcome
<1>7. QED BY <1>4, <1>5, <1>6 DEF Link, Pass

LEMMA PublishOutcome ==
  ASSUME Inv, Publish
  PROVE  Outcome
<1>1. TypeOK /\ Position
  BY DEF Inv
<1>2. pass.pc = "publish" /\ pass.pc \in Handing
  BY DEF Publish, Handing
<1>3. UNCHANGED <<pending, requeues>> /\ faults' \in 0..MaxFaults /\ UNCHANGED store
  BY <1>1 DEF Publish, Pass, TypeOK
<1>4. /\ pass.d \in Dispatches /\ work[pass.d].st # "absent"
      /\ goal[work[pass.d].goal].st \notin Terminal
  BY <1>1, <1>2, HandingFacts DEF Position, Of, G
<1>. DEFINE pub == work[pass.d].st # "cancelled"
<1>5. work' = [work EXCEPT ![pass.d].pub = pub] /\ pub \in BOOLEAN
  BY DEF Publish
<1>. HIDE DEF pub
<1>6. Progressed /\ work' \in [Dispatches -> WorkRecord]
  BY <1>1, <1>4, <1>5, PublicationProgresses
<1>7. pass' = Returned(S) /\ Finally
  BY DEF Publish, Pass
<1>8. pass' \in PassRecord /\ Position' /\ Claims /\ sweep' \subseteq Dispatches
  BY <1>1, <1>2, <1>7, ReturnedFacts, FinallyTyped
<1>9. Developed
  BY <1>3, GoalStays
<1>10. TypeOK'
  BY <1>1, <1>3, <1>6, <1>8 DEF TypeOK, store
<1>11. QED BY <1>6, <1>8, <1>9, <1>10 DEF Outcome

-----------------------------------------------------------------------------
(* All of them.                                                             *)

LEMMA CoordinateOutcome ==
  ASSUME Inv, Coordinate
  PROVE  Outcome
BY TakeOutcome, PlannedOutcome, AttendOutcome, ReconciledOutcome, DecideOutcome,
   CreateTaskOutcome, ReconcileOutcome, CreateHandoffOutcome, LinkOutcome, PublishOutcome,
   DispatchedOutcome
DEF Coordinate

LEMMA StutterOutcome ==
  ASSUME Inv, UNCHANGED vars
  PROVE  Outcome
<1>1. Requested
  BY DEF Inv, TypeOK, Requested, vars, store
<1>2. QED BY <1>1, RequestOutcome

LEMMA NextOutcome ==
  ASSUME Inv, [Next]_vars
  PROVE  Outcome
<1>1. CASE UNCHANGED vars
  BY <1>1, StutterOutcome
<1>2. CASE BeginPass \/ Coordinate \/ PassFails \/ Crash
  BY <1>2, BeginPassOutcome, CoordinateOutcome, PassFailsOutcome, CrashOutcome
<1>3. CASE \/ \E g \in Goals :
                \/ Create(g) \/ Replan(g) \/ Start(g) \/ Pause(g) \/ Resume(g) \/ Cancel(g) \/ AskEdit(g)
                \/ \E s \in Steps : AskRetry(g, s) \/ AskReassign(g, s) \/ Skip(g, s)
           \/ \E r \in pending : Apply(r)
  BY <1>3, RequestsRequested, RequestOutcome DEF Inv
<1>4. ASSUME NEW d \in Dispatches,
             CancelTask(d) \/ Requeue(d) \/ \E st \in WorkStatus : Handle(d, st)
      PROVE  Outcome
  BY <1>4, CancelTaskOutcome, RequeueOutcome, HandleOutcome
<1>5. QED BY <1>1, <1>2, <1>3, <1>4 DEF Next

-----------------------------------------------------------------------------
(* The invariant is kept.                                                   *)

LEMMA OriginsKept ==
  ASSUME Inv, Outcome
  PROVE  Origins'
<1>1. TypeOK /\ TypeOK' /\ Origins /\ Developed /\ Progressed
  BY DEF Inv, Outcome
<1>2. ASSUME NEW d \in Dispatches, work'[d].st # "absent"
      PROVE  work'[d].goal \in Goals /\ work'[d].step \in Steps
  BY <1>1, <1>2 DEF Origins, Progressed, Progresses
<1>3. ASSUME NEW g \in Goals, NEW s \in Steps, NEW d, d = goal'[g].step[s].link, d # None
      PROVE  Of(d, g, s)'
  <2>1. d = goal[g].step[s].link => Of(d, g, s)
    BY <1>1, <1>3 DEF Origins
  <2>2. d = goal[g].step[s].link \/ Of(d, g, s)
    BY <1>1, <1>3 DEF Developed, Develops
  <2>3. QED BY <1>1, <2>1, <2>2, OfStays
<1>4. QED BY <1>2, <1>3 DEF Origins, Of

LEMMA BoundedKept ==
  ASSUME Inv, Outcome
  PROVE  Bounded'
<1>1. TypeOK /\ Bounded /\ Developed
  BY DEF Inv, Outcome
<1>2. CASE Claims
  <2>1. ASSUME NEW g \in Goals PROVE Cardinality(Engaged(g)') <= MaxParallel
    <3>1. StepsIn(goal'[g], Active) \subseteq Engaged(g)
      BY <1>1 DEF Developed, Develops, Engaged
    <3>2. Engaged(g)' \subseteq Engaged(g)
      BY <1>2, <3>1 DEF Claims, Engaged
    <3>3. QED BY <1>1, <3>2, EngagedSteps, FewerSteps DEF Bounded
  <2>2. QED BY <2>1 DEF Bounded
<1>3. QED BY <1>2 DEF Outcome

LEMMA CompletionKept ==
  ASSUME Inv, Outcome
  PROVE  CompletionExplained'
<1>1. CompletionExplained /\ Developed /\ Progressed
  BY DEF Inv, Outcome
<1>2. ASSUME NEW g \in Goals, goal'[g].st = "completed"
      PROVE  goal'[g].plan.final \in StepsIn(goal'[g], {"completed"})
  BY <1>1, <1>2 DEF Developed, Develops, CompletionExplained
<1>3. ASSUME NEW g \in Goals, NEW s \in StepsIn(goal'[g], {"completed"})
      PROVE  \E d \in Dispatches :
               work'[d].goal = g /\ work'[d].step = s /\ work'[d].st = "completed"
  <2>1. PICK d \in Dispatches : work[d].goal = g /\ work[d].step = s /\ work[d].st = "completed"
    BY <1>1, <1>3 DEF Developed, Develops, CompletionExplained, Of
  <2>2. work'[d].goal = g /\ work'[d].step = s /\ work'[d].st = "completed"
    BY <1>1, <2>1 DEF Progressed, Progresses, Allowed, OpenWork
  <2>3. QED BY <2>2
<1>4. QED BY <1>2, <1>3 DEF CompletionExplained

LEMMA InvKept ==
  ASSUME Inv, [Next]_vars
  PROVE  Inv'
BY NextOutcome, OriginsKept, BoundedKept, CompletionKept DEF Inv, Outcome

LEMMA InvInit ==
  ASSUME Init
  PROVE  Inv
<1>. DEFINE r == [st |-> "absent", rev |-> 0, plan |-> NoPlan, step |-> [s \in Steps |-> NoStep]]
<1>1. /\ r \in GoalRecord /\ r.st = "absent" /\ r.plan = NoPlan
      /\ \A s \in Steps : r.step[s].link = None
  BY StepTypes, GoalAssumption DEF GoalRecord, GoalStatus
<1>2. StepsIn(r, Active) = {} /\ StepsIn(r, {"completed"}) = {}
  BY <1>1 DEF StepsIn, NoPlan
<1>. HIDE DEF r
<1>3. goal = [g \in Goals |-> r] /\ pass = Idle /\ work = [d \in Dispatches |-> NoWork]
  BY DEF Init, r
<1>4. TypeOK
  <2>1. NoWork \in WorkRecord
    BY DEF NoWork, WorkRecord, WorkStatus
  <2>2. 0 \in 0..MaxRequeues /\ 0 \in 0..MaxFaults
    BY GoalAssumption
  <2>3. QED BY <1>1, <1>3, <2>1, <2>2, IdleTyped DEF Init, TypeOK
<1>5. Position
  BY <1>3 DEF Position, Idle, Handing
<1>6. Origins
  BY <1>1, <1>3 DEF Origins, NoWork
<1>7. Bounded
  <2>1. ASSUME NEW g \in Goals PROVE Engaged(g) = {}
    BY <1>2, <1>3 DEF Engaged, Claimed, Idle
  <2>2. Cardinality({}) = 0
    BY FS_EmptySet
  <2>3. QED BY <2>1, <2>2, GoalAssumption DEF Bounded
<1>8. CompletionExplained
  BY <1>1, <1>2, <1>3 DEF CompletionExplained
<1>9. QED BY <1>4, <1>5, <1>6, <1>7, <1>8 DEF Inv

-----------------------------------------------------------------------------
(* The theorems.                                                            *)

\* With the types of the variables: what a pass relies on between its steps, that a
\* step is linked to its own tasks only, and that the steps of a goal which are active
\* or which the pass may still make active are never more than max_parallel.
THEOREM GoalInductive == Spec => []Inv
<1>1. Init => Inv
  BY InvInit
<1>2. Inv /\ [Next]_vars => Inv'
  BY InvKept
<1>3. QED BY <1>1, <1>2, PTL DEF Spec

\* Every variable keeps its type.
THEOREM GoalTypeCorrect == Spec => []TypeOK
<1>1. Inv => TypeOK
  BY DEF Inv
<1>2. QED BY <1>1, GoalInductive, PTL

\* A goal never has more active steps than max_parallel, although a pass decides what
\* to dispatch and dispatches it in other steps than the requests that change the goal.
THEOREM ParallelismKept == Spec => []MaxParallelKept
<1>1. ASSUME Inv PROVE MaxParallelKept
  <2>1. ASSUME NEW g \in Goals PROVE Cardinality(StepsIn(goal[g], Active)) <= MaxParallel
    <3>1. StepsIn(goal[g], Active) \subseteq Engaged(g)
      BY DEF Engaged
    <3>2. QED BY <1>1, <3>1, EngagedSteps, FewerSteps DEF Inv, Bounded
  <2>2. QED BY <2>1 DEF MaxParallelKept
<1>2. Inv => MaxParallelKept
  BY <1>1
<1>3. QED BY <1>2, GoalInductive, PTL

\* A completed goal has its final step, and every completed step a task of its own that
\* was completed, whatever the plan and the steps have been before.
THEOREM CompletionHasReasons == Spec => []CompletionExplained
<1>1. Inv => CompletionExplained
  BY DEF Inv
<1>2. QED BY <1>1, GoalInductive, PTL

\* No handoff of a goal that has ended is handed to the executor, wherever the dispatch
\* was when the goal ended.
THEOREM EndedGoalsStartNothing == Spec => EndedGoalStartsNothing
<1>. DEFINE A == \A d \in Dispatches :
       work[d].st \in {"task", "pending"} /\ ~work[d].pub /\ work'[d].pub
       => goal[work[d].goal].st \notin Terminal
<1>1. ASSUME Inv, [Next]_vars PROVE A
  BY <1>1, NextOutcome DEF Outcome, Progressed, Progresses
<1>2. Inv /\ [Next]_vars => [A]_vars
  BY <1>1
<1>3. QED
  BY <1>2, GoalInductive, PTL DEF Spec, EndedGoalStartsNothing

-----------------------------------------------------------------------------
(* The refinement.                                                          *)

Tasks == [d \in Dispatches |-> TaskState(d)]
Handoffs == [d \in Dispatches |-> HandoffState(d)]

LEMMA StatesOf ==
  ASSUME NEW d \in Dispatches
  PROVE  /\ work[d].st = "absent" => Tasks[d] = "none" /\ Handoffs[d] = "none"
         /\ work[d].st = "task" => Tasks[d] = "open" /\ Handoffs[d] = "none"
         /\ work[d].st \in OpenWork \ {"task"} => Tasks[d] = "open" /\ Handoffs[d] = "open"
         /\ work[d].st = "completed" => Tasks[d] = "completed" /\ Handoffs[d] = "completed"
         /\ work[d].st = "failed" => Tasks[d] = "failed" /\ Handoffs[d] = "dead_letter"
         /\ work[d].st = "cancelled" => Tasks[d] = "cancelled" /\ Handoffs[d] = "dead_letter"
BY DEF Tasks, Handoffs, TaskState, HandoffState, OpenWork

\* What a step does to one task and its handoff, in the promise's terms.
LEMMA TaskPromised ==
  ASSUME TypeOK, TypeOK', NEW d \in Dispatches, Progresses(d)
  PROVE  /\ \/ Tasks'[d] = Tasks[d]
            \/ Tasks[d] = "none"
            \/ Tasks[d] = "open" /\ Tasks'[d] # "none"
               /\ (Tasks'[d] = "completed" => Handoffs'[d] = "completed")
            \/ Tasks[d] = "failed" /\ Tasks'[d] = "open"
               /\ Handoffs[d] = "dead_letter" /\ Handoffs'[d] = "open"
         /\ \/ Handoffs'[d] = Handoffs[d]
            \/ Handoffs[d] = "none"
            \/ Handoffs[d] = "open" /\ Handoffs'[d] # "none"
            \/ Handoffs[d] = "dead_letter" /\ Handoffs'[d] = "open"
               /\ Tasks[d] = "failed" /\ Tasks'[d] = "open"
<1>1. work[d].st \in WorkStatus /\ work'[d].st \in WorkStatus
  BY WorkParts DEF TypeOK, WorkRecord
<1>2. Allowed(work[d].st, work'[d].st)
  BY DEF Progresses
<1>3. /\ work'[d].st = "absent" => Tasks'[d] = "none" /\ Handoffs'[d] = "none"
      /\ work'[d].st = "task" => Tasks'[d] = "open" /\ Handoffs'[d] = "none"
      /\ work'[d].st \in OpenWork \ {"task"} => Tasks'[d] = "open" /\ Handoffs'[d] = "open"
      /\ work'[d].st = "completed" => Tasks'[d] = "completed" /\ Handoffs'[d] = "completed"
      /\ work'[d].st = "failed" => Tasks'[d] = "failed" /\ Handoffs'[d] = "dead_letter"
      /\ work'[d].st = "cancelled" => Tasks'[d] = "cancelled" /\ Handoffs'[d] = "dead_letter"
  BY DEF Tasks, Handoffs, TaskState, HandoffState, OpenWork
<1>4. QED BY <1>1, <1>2, <1>3, StatesOf DEF Allowed, OpenWork, WorkStatus

LEMMA StepPromised ==
  ASSUME Inv, [Next]_vars
  PROVE  Promise!Next
<1>1. TypeOK /\ TypeOK' /\ Progressed
  BY NextOutcome DEF Inv, Outcome
<1>2. /\ Tasks' \in [Dispatches -> Promise!TaskStates]
      /\ Handoffs' \in [Dispatches -> Promise!HandoffStates]
  <2>1. ASSUME NEW d \in Dispatches
        PROVE  Tasks'[d] \in Promise!TaskStates /\ Handoffs'[d] \in Promise!HandoffStates
    <3>1. work'[d].st \in WorkStatus
      BY <1>1 DEF TypeOK, WorkRecord
    <3>2. QED
      BY <3>1
      DEF Tasks, Handoffs, TaskState, HandoffState, OpenWork, WorkStatus,
          Promise!TaskStates, Promise!HandoffStates
  <2>2. QED BY <2>1 DEF Tasks, Handoffs
<1>3. ASSUME NEW d \in Dispatches
      PROVE  Promise!TaskMoves(d) /\ Promise!HandoffMoves(d)
  BY <1>1, <1>3, TaskPromised
  DEF Progressed, Promise!TaskMoves, Promise!HandoffMoves, Promise!Requeued, Tasks, Handoffs
<1>4. QED BY <1>2, <1>3 DEF Promise!Next, Tasks, Handoffs

\* The goals keep the promise of AgentHandoff to its users: a task that was decided stays
\* decided, and is opened again only with its requeued handoff.
THEOREM UsesTasksAsPromised == Spec => TasksAsPromised
<1>1. Init => Promise!Init
  <2>. SUFFICES ASSUME Init PROVE Promise!Init
    OBVIOUS
  <2>1. \A d \in Dispatches : work[d].st = "absent"
    BY DEF Init, NoWork
  <2>2. QED BY <2>1, StatesOf DEF Promise!Init, Tasks, Handoffs
<1>2. Inv /\ [Next]_vars => [Promise!Next]_<<Tasks, Handoffs>>
  BY StepPromised
<1>3. QED
  BY <1>1, <1>2, GoalInductive, PTL
  DEF Spec, TasksAsPromised, Promise!Spec, Tasks, Handoffs
=============================================================================
