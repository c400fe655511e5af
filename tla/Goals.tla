-------------------------------- MODULE Goals --------------------------------
(***************************************************************************)
(* Conversation goals: GoalStore (goals.py), GoalCoordinator               *)
(* (goal_coordinator.py) whose loop plans a goal and dispatches its steps  *)
(* as agent tasks, and the requests about goals (main.py).                 *)
(*                                                                         *)
(* GoalStore undoes a change it cannot write, so that what it holds is     *)
(* what is in goals.json.  A change AgentTaskStore could only make in      *)
(* memory counts here as made or as not made.  A task of a goal has one    *)
(* handoff; what AgentHandoff says of the two is one status, and what      *)
(* executes and decides handoffs is the environment.                       *)
(***************************************************************************)
EXTENDS Integers, FiniteSets, HandoffView

CONSTANTS
  Goals, Steps,
  Plans,         \* the plans the planner or an editor may come up with
  MaxParallel,
  MaxListed,     \* how many goals a list has at most
  MaxDispatches, \* bound: tasks created for goals
  MaxRevision,   \* bound: plan revisions
  MaxRequests,   \* bound: requests in progress at once
  MaxRequeues,   \* bound: requeues of handoffs
  MaxFaults      \* bound: crashes and failed writes

\* validate_goal_plan
ValidPlan(p) ==
  LET S == DOMAIN p.deps
  IN /\ S \subseteq Steps /\ Cardinality(S) >= 2 /\ p.final \in S
     /\ \A s \in S : p.deps[s] \subseteq S \ {s}
     /\ \A T \in SUBSET S : T # {} => \E s \in T : p.deps[s] \cap T = {}
     /\ \A T \in SUBSET S : p.final \in T /\ (\A s \in T : p.deps[s] \subseteq T) => T = S

ASSUME GoalAssumption ==
  /\ IsFiniteSet(Steps)
  /\ \A p \in Plans : ValidPlan(p)
  /\ MaxParallel \in Nat \ {0} /\ MaxListed \in Nat /\ MaxDispatches \in Nat /\ MaxRevision \in Nat
  /\ MaxRequests \in Nat /\ MaxRequeues \in Nat /\ MaxFaults \in Nat

VARIABLES
  goal,    \* GoalStore._goals
  place,   \* of a goal in the list of goals, the most recently updated first
  work,    \* the tasks of goals and their handoffs, by creation
  pass,    \* run_once
  sweep,   \* tasks _cancel_goal_children has yet to cancel
  pending, \* requests between their checks and their change
  requeues, faults

vars == <<goal, place, work, pass, sweep, pending, requeues, faults>>
store == <<goal, place>>
bounds == <<requeues, faults>>

Dispatches == 1..MaxDispatches
None == 0
NoPlan == [deps |-> [s \in {} |-> {}], final |-> "none"]

GoalStatus ==
  {"absent", "planning", "awaiting_review", "running", "paused", "needs_attention",
   "completed", "cancelled"}
Terminal == {"completed", "cancelled"}
Processed == {"running", "paused", "needs_attention"}
\* waiting_approval and waiting_client are "waiting"
StepStatus ==
  {"none", "pending", "running", "waiting", "completed", "failed", "blocked", "skipped",
   "cancelled"}

GoalRecord ==
  [st : GoalStatus, rev : 0..MaxRevision, plan : Plans \cup {NoPlan},
   step : [Steps -> [st : StepStatus, link : {None} \cup Dispatches]]]
WorkRecord ==
  [goal : Goals \cup {"none"}, step : Steps \cup {"none"}, st : WorkStatus, pub : BOOLEAN]
PassRecord ==
  [pc : {"idle", "next", "planning", "reconcile", "attend", "decide", "dispatch", "handoff",
         "link", "publish"},
   goal : Goals \cup {"none"},
   queue : SUBSET [goal : Goals, st : GoalStatus, place : Nat],
   linked : SUBSET (Steps \X Dispatches), failed : SUBSET Steps, ready : SUBSET Steps,
   d : {None} \cup Dispatches]
RequestRecord ==
  [op : {"edit", "retry", "reassign"}, goal : Goals, step : Steps \cup {"none"},
   rev : 0..MaxRevision]

TypeOK ==
  /\ goal \in [Goals -> GoalRecord] /\ place \in [Goals -> Nat]
  /\ work \in [Dispatches -> WorkRecord]
  /\ pass \in PassRecord
  /\ sweep \subseteq Dispatches
  /\ pending \subseteq RequestRecord
  /\ requeues \in 0..MaxRequeues /\ faults \in 0..MaxFaults

NoStep == [st |-> "none", link |-> None]
NewStep == [st |-> "pending", link |-> None]
NoWork == [goal |-> "none", step |-> "none", st |-> "absent", pub |-> FALSE]
Idle == [pc |-> "idle", goal |-> "none", queue |-> {}, linked |-> {}, failed |-> {},
         ready |-> {}, d |-> None]

Init ==
  /\ goal = [g \in Goals |->
       [st |-> "absent", rev |-> 0, plan |-> NoPlan, step |-> [s \in Steps |-> NoStep]]]
  /\ place = [g \in Goals |-> 0]
  /\ work = [d \in Dispatches |-> NoWork]
  /\ pass = Idle
  /\ sweep = {} /\ pending = {}
  /\ requeues = 0 /\ faults = 0

Fault == faults < MaxFaults /\ faults' = faults + 1

\* _commit_unlocked; the goal becomes the most recently updated one.
Commit(g, r) ==
  /\ goal' = [goal EXCEPT ![g] = r]
  /\ place' = [f \in Goals |->
       IF f = g THEN 1
       ELSE IF place[f] # 0 /\ (place[g] = 0 \/ place[f] < place[g]) THEN place[f] + 1
       ELSE place[f]]

StepsOf(g) == DOMAIN goal[g].plan.deps
WithStep(g, s, r) == [goal[g] EXCEPT !.step[s] = r]
Active == {"running", "waiting"}
Successful == {"completed", "skipped"}
Blocking == {"failed", "blocked", "cancelled"}
StepsIn(r, statuses) == {s \in DOMAIN r.plan.deps : r.step[s].st \in statuses}

\* The tasks _cancel_goal_children finds.
Cancellable(g) ==
  {d \in Dispatches : /\ work[d].goal = g /\ work[d].step \in StepsOf(g)
                      /\ work[d].st \in OpenWork \cup {"cancelled"}}

-----------------------------------------------------------------------------
(* Requests.                                                                *)

Request == UNCHANGED <<work, pass, requeues, faults>>

\* create_conversation_goal
Create(g) ==
  /\ goal[g].st = "absent"
  /\ Commit(g, [goal[g] EXCEPT !.st = "planning"])
  /\ Request /\ UNCHANGED <<sweep, pending>>

\* replan_conversation_goal
Replan(g) ==
  /\ goal[g].st \in {"awaiting_review", "needs_attention"} /\ goal[g].rev < MaxRevision
  /\ Commit(g, [goal[g] EXCEPT !.st = "planning"])
  /\ Request /\ UNCHANGED <<sweep, pending>>

\* start_goal, which checks again after resolving the targets
Start(g) ==
  /\ goal[g].st = "awaiting_review"
  /\ Commit(g, [goal[g] EXCEPT !.st = "running",
                !.step = [s \in Steps |-> IF s \in StepsOf(g) THEN NewStep ELSE NoStep]])
  /\ Request /\ UNCHANGED <<sweep, pending>>

Pause(g) ==
  /\ goal[g].st = "running"
  /\ Commit(g, [goal[g] EXCEPT !.st = "paused"])
  /\ Request /\ UNCHANGED <<sweep, pending>>

Resume(g) ==
  /\ goal[g].st \in {"paused", "needs_attention"} /\ StepsIn(goal[g], {"failed"}) = {}
  /\ Commit(g, [goal[g] EXCEPT !.st = "running"])
  /\ Request /\ UNCHANGED <<sweep, pending>>

\* GoalStore.cancel_goal
CancelledGoal(g) ==
  [goal[g] EXCEPT !.st = "cancelled",
     !.step = [s \in Steps |->
       IF s \in StepsOf(g) /\ @[s].st \notin Successful
       THEN [@[s] EXCEPT !.st = "cancelled"] ELSE @[s]]]

\* Mutant: the goal is cancelled without the dispatch lock.
CancelUnlocked(g) ==
  /\ goal[g].st \notin {"absent", "completed"}
  /\ sweep' = sweep \cup Cancellable(g)
  /\ IF goal[g].st = "cancelled" THEN UNCHANGED store ELSE Commit(g, CancelledGoal(g))
  /\ Request /\ UNCHANGED pending

\* cancel_goal, which takes the dispatch lock for the decision and then lists
\* the tasks to cancel
Cancel(g) ==
  /\ pass.pc # "publish"
  /\ goal[g].st \notin {"absent", "completed"}
  /\ sweep' = sweep \cup Cancellable(g)
  /\ IF goal[g].st = "cancelled" THEN UNCHANGED store ELSE Commit(g, CancelledGoal(g))
  /\ Request /\ UNCHANGED pending

\* Mutant: tasks that have been decided are cancelled, too.
CancelTaskDecided(d) ==
  /\ d \in sweep /\ sweep' = sweep \ {d}
  /\ work' = [work EXCEPT ![d] = [@ EXCEPT !.st = "cancelled", !.pub = FALSE]]
  /\ UNCHANGED <<store, pass, pending, bounds>>

\* cancel_task for one of the tasks, which may fail
CancelTask(d) ==
  /\ d \in sweep /\ sweep' = sweep \ {d}
  /\ \/ /\ IF work[d].st \in OpenWork
           THEN work' = [work EXCEPT ![d] = [@ EXCEPT !.st = "cancelled", !.pub = FALSE]]
           ELSE UNCHANGED work
        /\ UNCHANGED faults
     \/ Fault /\ UNCHANGED work
  /\ UNCHANGED <<store, pass, pending, requeues>>

\* The checks of retry_step, reassign_step and update_conversation_goal_plan,
\* before they resolve the targets.
Ask(r) ==
  /\ Cardinality(pending) < MaxRequests
  /\ pending' = pending \cup {r}
  /\ Request /\ UNCHANGED <<store, sweep>>
AskRetry(g, s) ==
  /\ goal[g].st \in {"needs_attention", "paused"}
  /\ s \in StepsIn(goal[g], Blocking)
  /\ Ask([op |-> "retry", goal |-> g, step |-> s, rev |-> 0])
AskReassign(g, s) ==
  /\ goal[g].st \in {"awaiting_review", "paused", "needs_attention"}
  /\ s \in StepsOf(g) /\ goal[g].step[s].st \notin {"running", "completed"}
  /\ Ask([op |-> "reassign", goal |-> g, step |-> s, rev |-> 0])
AskEdit(g) ==
  /\ goal[g].st \in {"awaiting_review", "needs_attention"}
  /\ Ask([op |-> "edit", goal |-> g, step |-> "none", rev |-> goal[g].rev])

\* The rest of them: what is still checked is that the goal has not ended, that
\* it has the step, and the revision of an edit.
Applies(r) ==
  /\ r \in pending /\ pending' = pending \ {r}
  /\ Request /\ UNCHANGED sweep
Applicable(r) ==
  /\ goal[r.goal].st \notin Terminal
  /\ r.op = "edit" \/ r.step \in StepsOf(r.goal)
  /\ r.op = "edit" => goal[r.goal].rev = r.rev
  /\ r.op \in {"edit", "reassign"} => goal[r.goal].rev < MaxRevision
Dropped(r) == Applies(r) /\ ~Applicable(r) /\ UNCHANGED store

\* Blocked steps of r become pending when nothing blocks them any more; whether
\* this goes on down a chain depends on the order of the plan's list.
Unblockings(r) ==
  LET blocked == StepsIn(r, {"blocked"})
      bad == StepsIn(r, Blocking)
  IN {[r EXCEPT !.step = [s \in Steps |-> IF s \in U THEN [@[s] EXCEPT !.st = "pending"]
                                          ELSE @[s]]] :
      U \in {V \in SUBSET blocked :
               /\ \A s \in blocked : r.plan.deps[s] \cap bad = {} => s \in V
               /\ \A s \in V : r.plan.deps[s] \cap (bad \ V) = {}}}

Retry(r) ==
  /\ r.op = "retry" /\ Applies(r) /\ Applicable(r)
  /\ \E x \in Unblockings(WithStep(r.goal, r.step, NewStep)) :
       Commit(r.goal, [x EXCEPT !.st = "running"])

Reassign(r) ==
  /\ r.op = "reassign" /\ Applies(r) /\ Applicable(r)
  /\ Commit(r.goal, [WithStep(r.goal, r.step, NewStep) EXCEPT
                       !.rev = @ + 1, !.st = IF @ = "needs_attention" THEN "paused" ELSE @])

\* replace_plan
Replanned(g, p) ==
  [st |-> "awaiting_review", rev |-> goal[g].rev + 1, plan |-> p,
   step |-> [s \in Steps |-> IF s \in DOMAIN p.deps THEN NewStep ELSE NoStep]]
Edit(r) ==
  /\ r.op = "edit" /\ Applies(r) /\ Applicable(r)
  /\ \E p \in Plans : Commit(r.goal, Replanned(r.goal, p))

\* skip_step
Skip(g, s) ==
  /\ goal[g].st \in {"needs_attention", "paused"}
  /\ s \in StepsIn(goal[g], {"failed", "blocked", "pending"}) /\ s # goal[g].plan.final
  /\ \E x \in Unblockings(WithStep(g, s, [goal[g].step[s] EXCEPT !.st = "skipped"])) :
       Commit(g, [x EXCEPT !.st = IF @ = "needs_attention" THEN "running" ELSE @])
  /\ Request /\ UNCHANGED <<sweep, pending>>

-----------------------------------------------------------------------------
(* The coordinator's loop.                                                  *)

G == pass.goal
Pass(p) == pass' = p /\ UNCHANGED <<pending, requeues>>
Calm == UNCHANGED <<sweep, faults>>
Moved == [Idle EXCEPT !.pc = "next", !.queue = pass.queue]

\* The goals of a pass, as list_goals has them.
Listed ==
  {[goal |-> g, st |-> goal[g].st, place |-> place[g]] :
     g \in {f \in Goals : place[f] <= MaxListed /\ goal[f].st \in Processed \cup {"planning"}}}
Listing == [Idle EXCEPT !.pc = IF Listed = {} THEN "idle" ELSE "next", !.queue = Listed]

\* Mutant: a cancelled goal is not looked at again.
BeginPassForgetful ==
  /\ pass.pc = "idle"
  /\ Pass(Listing)
  /\ UNCHANGED <<store, work, sweep, faults>>

\* run_once: cancelled goals are cancelled again, the others listed.
BeginPass ==
  /\ pass.pc = "idle"
  /\ sweep' = sweep \cup UNION {Cancellable(g) : g \in {f \in Goals : goal[f].st = "cancelled"}}
  /\ Pass(Listing)
  /\ UNCHANGED <<store, work, faults>>

\* The active steps of a goal with the handoffs they are linked to.
Linked(g) ==
  {<<s, goal[g].step[s].link>> : s \in {t \in StepsIn(goal[g], Active) : goal[g].step[t].link # None}}

\* The heads of plan_goal, which raises when the goal has moved on, and of
\* process_goal.
Take ==
  /\ pass.pc = "next"
  /\ \/ pass.queue = {} /\ Pass(Idle) /\ UNCHANGED store
     \/ \E e \in pass.queue :
          LET g == e.goal
              at == [pass EXCEPT !.goal = g, !.queue = @ \ {e}]
          IN /\ \A f \in pass.queue : e.place <= f.place
             /\ IF e.st # "planning"
                THEN /\ Pass(IF goal[g].st \notin Processed THEN [pass EXCEPT !.queue = @ \ {e}]
                             ELSE [at EXCEPT !.pc = "reconcile", !.linked = Linked(g)])
                     /\ UNCHANGED store
                ELSE IF goal[g].st \in {"planning", "needs_attention"}
                THEN /\ Pass([at EXCEPT !.pc = "planning"])
                     /\ Commit(g, [goal[g] EXCEPT !.st = "planning"])
                ELSE Pass(Idle) /\ UNCHANGED store
  /\ Calm /\ UNCHANGED work

\* The planner answers, with a plan or with none that is valid.
Planned ==
  /\ pass.pc = "planning"
  /\ IF goal[G].st \in Terminal THEN UNCHANGED store
     ELSE \/ goal[G].rev < MaxRevision /\ \E p \in Plans : Commit(G, Replanned(G, p))
          \/ Commit(G, [goal[G] EXCEPT !.st = "needs_attention"])
  /\ Pass(Moved) /\ Calm /\ UNCHANGED work

\* Mutants: the handoff's status is copied, or everything that has ended counts as
\* completed.
ReachedVerbatim(st) == st
ReachedEnded(st) ==
  CASE st = "attention" -> "waiting" [] st = "cancelled" -> "completed" [] OTHER -> st

\* The status of a step whose handoff has got somewhere.
Reached(st) ==
  CASE st = "attention" -> "waiting" [] st = "cancelled" -> "failed" [] OTHER -> st

\* Mutant: a step that is linked already is not looked for.
UnstartedUnlinked(s, d) ==
  /\ work[d].st = "pending" /\ ~work[d].pub
  /\ goal[G].st = "running" /\ goal[G].step[s] = [st |-> "pending", link |-> d]

\* Under the dispatch lock: is d what the goal still waits for?
Unstarted(s, d) ==
  /\ work[d].st = "pending" /\ ~work[d].pub
  /\ goal[G].st = "running" /\ goal[G].step[s] = [st |-> "running", link |-> d]

\* One step of _reconcile_steps; the goal may have changed since it was listed.
Reconcile(s, d) ==
  /\ pass.pc = "reconcile" /\ <<s, d>> \in pass.linked
  /\ LET rest == [pass EXCEPT !.linked = @ \ {<<s, d>>}]
         moved == /\ work[d].st \notin {"task", "pending", "busy"}
                  /\ ~(work[d].st = "waiting" /\ goal[G].step[s].st = "waiting")
     IN /\ IF ~moved THEN Pass(rest) /\ UNCHANGED store
           ELSE IF goal[G].st \in Terminal THEN Pass(Moved) /\ UNCHANGED store
           ELSE IF s \notin StepsOf(G) THEN Pass(Idle) /\ UNCHANGED store
           ELSE /\ Commit(G, WithStep(G, s, [goal[G].step[s] EXCEPT !.st = Reached(work[d].st)]))
                /\ Pass([rest EXCEPT
                     !.pc = IF work[d].st = "attention" THEN "attend" ELSE @,
                     !.failed = IF work[d].st \in {"failed", "cancelled"} THEN @ \cup {s} ELSE @])
        /\ work' = IF Unstarted(s, d) THEN [work EXCEPT ![d].pub = TRUE] ELSE work
  /\ Calm

\* The second write for a wait that has expired.
Attend ==
  /\ pass.pc = "attend"
  /\ IF goal[G].st \in Terminal THEN Pass(Moved) /\ UNCHANGED store
     ELSE /\ Commit(G, [goal[G] EXCEPT !.st = "needs_attention"])
          /\ Pass([pass EXCEPT !.pc = "reconcile"])
  /\ Calm /\ UNCHANGED work

\* apply_attention: pending steps behind a failed one are blocked.
Attention(r) ==
  LET waiting == StepsIn(r, {"pending"})
      failed == StepsIn(r, {"failed"})
      Closed(T) == \A s \in waiting : r.plan.deps[s] \cap (T \cup failed) # {} => s \in T
      blocked == {s \in waiting : \A T \in SUBSET waiting : Closed(T) => s \in T}
  IN [r EXCEPT !.st = "needs_attention",
               !.step = [s \in Steps |-> IF s \in blocked THEN [@[s] EXCEPT !.st = "blocked"]
                                         ELSE @[s]]]
Reconciled ==
  /\ pass.pc = "reconcile" /\ pass.linked = {}
  /\ IF pass.failed # {} /\ goal[G].st \in Terminal THEN Pass(Moved) /\ UNCHANGED store
     ELSE /\ Pass([pass EXCEPT !.pc = "decide", !.failed = {}])
          /\ IF pass.failed = {} THEN UNCHANGED store ELSE Commit(G, Attention(goal[G]))
  /\ Calm /\ UNCHANGED work

\* Mutant: a step that waits does not count.
ReadyWhileWaiting(r) ==
  LET slots == MaxParallel - Cardinality(StepsIn(r, {"running"}))
      ready == {s \in StepsIn(r, {"pending"}) : r.plan.deps[s] \subseteq StepsIn(r, Successful)}
  IN {c \in SUBSET ready : Cardinality(c) <= slots
                           /\ (c = ready \/ Cardinality(c) = slots)}

\* _dispatch_ready_steps takes the first ready steps of the plan's list.
Ready(r) ==
  LET slots == MaxParallel - Cardinality(StepsIn(r, Active))
      ready == {s \in StepsIn(r, {"pending"}) : r.plan.deps[s] \subseteq StepsIn(r, Successful)}
  IN {c \in SUBSET ready : Cardinality(c) <= slots
                           /\ (c = ready \/ Cardinality(c) = slots)}

\* The rest of process_goal, which raises for a goal that has no plan.
Decide ==
  /\ pass.pc = "decide"
  /\ IF goal[G].plan.final \notin StepsOf(G) THEN Pass(Idle) /\ UNCHANGED store
     ELSE IF goal[G].step[goal[G].plan.final].st = "completed"
     THEN /\ IF goal[G].st \in Terminal THEN UNCHANGED store
             ELSE Commit(G, [goal[G] EXCEPT !.st = "completed"])
          /\ Pass(Moved)
     ELSE IF goal[G].st # "running" THEN Pass(Moved) /\ UNCHANGED store
     ELSE \E c \in Ready(goal[G]) :
            Pass([pass EXCEPT !.pc = "dispatch", !.ready = c]) /\ UNCHANGED store
  /\ Calm /\ UNCHANGED work

\* The end of _dispatch_step, returning or raising: a goal cancelled meanwhile
\* is cancelled again.
Finally == sweep' = IF goal[G].st = "cancelled" THEN sweep \cup Cancellable(G) ELSE sweep
Returned(s) == [pass EXCEPT !.pc = "dispatch", !.ready = @ \ {s}, !.d = None]

Unused == {d \in Dispatches : work[d].st = "absent"}
\* The step being dispatched.
S == work[pass.d].step

\* _dispatch_step and create_task
CreateTask(s) ==
  /\ pass.pc = "dispatch" /\ s \in pass.ready
  /\ IF goal[G].st \in Terminal \/ Unused = {}
     THEN Pass(Returned(s)) /\ Finally /\ UNCHANGED work
     ELSE \E d \in Unused :
            /\ \A e \in Unused : d <= e
            /\ work' = [work EXCEPT ![d] = [goal |-> G, step |-> s, st |-> "task", pub |-> FALSE]]
            /\ Pass([pass EXCEPT !.pc = "handoff", !.d = d])
            /\ UNCHANGED sweep
  /\ UNCHANGED <<store, faults>>
Dispatched ==
  /\ pass.pc = "dispatch" /\ pass.ready = {}
  /\ Pass(Moved) /\ Calm /\ UNCHANGED <<store, work>>

\* create_handoff, not yet to be executed
CreateHandoff ==
  /\ pass.pc = "handoff"
  /\ IF work[pass.d].st = "cancelled" THEN Pass(Returned(S)) /\ Finally /\ UNCHANGED work
     ELSE /\ work' = [work EXCEPT ![pass.d].st = "pending"]
          /\ Pass([pass EXCEPT !.pc = "link"]) /\ UNCHANGED sweep
  /\ UNCHANGED <<store, faults>>

\* With the dispatch lock, which it keeps until the handoff is published.
Link ==
  /\ pass.pc = "link"
  /\ IF goal[G].st \in Terminal THEN Pass(Returned(S)) /\ Finally /\ UNCHANGED store
     ELSE IF S \notin StepsOf(G) THEN Pass(Idle) /\ Finally /\ UNCHANGED store
     ELSE /\ Commit(G, WithStep(G, S, [st |-> "running", link |-> pass.d]))
          /\ Pass([pass EXCEPT !.pc = "publish"]) /\ UNCHANGED sweep
  /\ UNCHANGED <<work, faults>>

\* update_handoff_metadata
Publish ==
  /\ pass.pc = "publish"
  /\ work' = [work EXCEPT ![pass.d].pub = (work[pass.d].st # "cancelled")]
  /\ Pass(Returned(S)) /\ Finally /\ UNCHANGED <<store, faults>>

\* A write fails; the exception ends the pass.
PassFails ==
  /\ pass.pc \notin {"idle", "next"} /\ Fault
  /\ IF pass.pc \in {"handoff", "link", "publish"} THEN Finally ELSE UNCHANGED sweep
  /\ Pass(Idle) /\ UNCHANGED <<store, work>>

-----------------------------------------------------------------------------
(* The environment.                                                         *)

\* What is made of a handoff by those AgentHandoff models.
Handle(d, st) ==
  /\ st \in WorkMoves(work[d].st)
  /\ work' = [work EXCEPT ![d].st = st, ![d].pub = @ /\ st # "cancelled"]
  /\ UNCHANGED <<store, pass, sweep, pending, bounds>>

Requeue(d) ==
  /\ requeues < MaxRequeues /\ requeues' = requeues + 1
  /\ work[d].st \in Requeueable
  /\ work' = [work EXCEPT ![d] = [@ EXCEPT !.st = "pending", !.pub = TRUE]]
  /\ UNCHANGED <<store, pass, sweep, pending, faults>>

Crash ==
  /\ Fault
  /\ pass' = Idle /\ sweep' = {} /\ pending' = {}
  /\ UNCHANGED <<store, work, requeues>>

Coordinate ==
  \/ Take \/ Planned \/ Attend \/ Reconciled \/ Decide
  \/ \E s \in Steps : CreateTask(s) \/ \E d \in Dispatches : Reconcile(s, d)
  \/ CreateHandoff \/ Link \/ Publish \/ Dispatched
Apply(r) == Dropped(r) \/ Retry(r) \/ Reassign(r) \/ Edit(r)

Next ==
  \/ BeginPass \/ Coordinate \/ PassFails
  \/ \E g \in Goals :
       \/ Create(g) \/ Replan(g) \/ Start(g) \/ Pause(g) \/ Resume(g) \/ Cancel(g) \/ AskEdit(g)
       \/ \E s \in Steps : AskRetry(g, s) \/ AskReassign(g, s) \/ Skip(g, s)
  \/ \E r \in pending : Apply(r)
  \/ \E d \in Dispatches :
       CancelTask(d) \/ Requeue(d) \/ \E st \in WorkStatus : Handle(d, st)
  \/ Crash

Spec == Init /\ [][Next]_vars

\* The loop polls for as long as the backend lives, what it awaits comes back,
\* and so does what a request awaits.
Fairness ==
  /\ WF_vars(BeginPass) /\ WF_vars(Coordinate)
  /\ \A d \in Dispatches : WF_vars(CancelTask(d))

FairSpec == Spec /\ Fairness

-----------------------------------------------------------------------------
(* Properties.                                                              *)

\* However stale what a pass goes by, a goal never has more active steps than
\* max_parallel.
MaxParallelKept ==
  \A g \in Goals : Cardinality(StepsIn(goal[g], Active)) <= MaxParallel

\* A goal is completed by its final step, and a step only by a task of its own.
CompletionExplained ==
  \A g \in Goals :
    /\ goal[g].st = "completed" => goal[g].plan.final \in StepsIn(goal[g], {"completed"})
    /\ \A s \in StepsIn(goal[g], {"completed"}) :
         \E d \in Dispatches : work[d].goal = g /\ work[d].step = s /\ work[d].st = "completed"

\* Wherever a dispatch is when its goal is cancelled or completed, its handoff is
\* not handed to the executor afterwards.
EndedGoalStartsNothing ==
  [][\A d \in Dispatches :
       work[d].st \in {"task", "pending"} /\ ~work[d].pub /\ work'[d].pub
       => goal[work[d].goal].st \notin Terminal]_vars

\* Every task of a cancelled goal comes to an end, although a dispatch may be under
\* way, cancelling it may fail and the backend may die.
CancelReachesTasks ==
  \A g \in Goals : goal[g].st = "cancelled" ~> Cancellable(g) \cap
     {d \in Dispatches : work[d].st \in OpenWork} = {}

\* A step that was linked to its handoff, which was not published for a crash or a
\* failed write, is not left behind.
LinkedIsPublished ==
  \A g \in Goals, s \in Steps, d \in Dispatches :
    LET unpublished == /\ goal[g].st = "running"
                       /\ goal[g].step[s] = [st |-> "running", link |-> d]
                       /\ work[d].st = "pending" /\ ~work[d].pub
    IN unpublished ~> ~unpublished

\* The goals use the tasks as AgentHandoff, by its own promise, lets them be used.
TaskState(d) ==
  CASE work[d].st = "absent" -> "none" [] work[d].st \in OpenWork -> "open"
    [] OTHER -> work[d].st
HandoffState(d) ==
  CASE work[d].st \in {"absent", "task"} -> "none"
    [] work[d].st \in OpenWork \ {"task"} -> "open"
    [] work[d].st = "completed" -> "completed" [] OTHER -> "dead_letter"
Promise == INSTANCE HandoffPromise WITH
  Tasks <- Dispatches, Handoffs <- Dispatches, TaskOf <- [d \in Dispatches |-> d],
  task <- [d \in Dispatches |-> TaskState(d)],
  handoff <- [d \in Dispatches |-> HandoffState(d)]
TasksAsPromised == Promise!Spec

\* docs/XPERT_GOALS.md: "planning -> awaiting_review", or needs_attention for an
\* invalid plan.  Every goal is planned.
PlanningEnds == \A g \in Goals : goal[g].st = "planning" ~> goal[g].st # "planning"
=============================================================================
