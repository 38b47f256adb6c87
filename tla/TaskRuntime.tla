---------------------------- MODULE TaskRuntime ----------------------------
(***************************************************************************)
(* The task half of the production runtime (tools/lib/runtime.py): the     *)
(* registered task graph, the leases workers hold on tasks, the external   *)
(* effects they start under a lease, and the approvals that license those  *)
(* effects.                                                                *)
(*                                                                         *)
(* Every public method of Runtime runs under one exclusive file lock,      *)
(* replays the whole event log, checks its guards, appends one event and   *)
(* rewrites the projection.  An action here is one such call; what a crash *)
(* can do in the middle of one is the subject of RuntimeLog.               *)
(*                                                                         *)
(* Time.  Each call brings its own occurred_at.  The runtime compares it   *)
(* with lease expiries and validity windows but never with the times       *)
(* already in the log, and the caller reads it before waiting for the      *)
(* lock.  So a call may carry any time in Sampled: not in the future, and  *)
(* at most MaxDelay old.                                                   *)
(*                                                                         *)
(* Abstractions.  A holder stands for the pair (owner, lease_token), which *)
(* the code always compares together; a holder may come back with the same *)
(* token, as nothing in the code forbids it.  A target stands for          *)
(* (target_ref, target_sha256), and an approval requirement of a task is   *)
(* named by its target, since the planner mints one target per             *)
(* requirement.  Whether an evidence reference resolves is the caller's    *)
(* choice of outcome.                                                      *)
(***************************************************************************)
EXTENDS Naturals, FiniteSets

CONSTANTS
  Task,           \* task ids of the plan
  Holder,         \* (owner, lease_token) pairs
  EffectKey,      \* idempotency names of external effects
  Target,         \* effect targets, which are also the approval requirements
  Approval,       \* approval records somebody may submit
  \* the production plan
  PlannedStatus,  \* Task -> status written by the planner
  DependsOn,      \* Task -> SUBSET Task
  Requires,       \* Task -> SUBSET Target, approval_requirement_ids
  HumanRequired,  \* tasks whose effect type is in human_required_effects
  Supplied,       \* tasks whose resources are AVAILABLE, materials APPROVED
  EarliestStart,  \* Task -> time
  Rank,           \* Task -> position in (priority, earliest_start, task_id)
  MaxAttempts,    \* 1 + max_retry_attempts
  \* bounds of the model
  MaxTime,        \* last value of the clock
  MaxDelay,       \* how old the time a call carries may be
  LeaseLengths,   \* lease durations workers ask for
  MaxRevisions,   \* accepted handoff revisions
  NoHolder, Unused

PlanStatus == {"BACKLOG", "READY", "BLOCKED", "DONE", "SKIPPED"}
TaskStatus == PlanStatus \cup {"ABSENT", "RUNNING", "RETRY_WAITING"}
Outcome    == {"SUCCEEDED", "FAILED", "UNKNOWN"}
Decision   == {"APPROVED", "DENIED", "REVOKED"}

ApprovalRecord ==
  [id : Nat, revision : Nat, target : Target, decision : Decision,
   exactHash : BOOLEAN, fits : BOOLEAN, issued : Nat, expires : Nat]

TaskRecord ==
  [status : TaskStatus, attempt : Nat, holder : Holder \cup {NoHolder},
   until : Nat, retryAfter : Nat]

\* `epoch` and `holder` of an effect are read off the log: the revision the
\* EFFECT_STARTED event follows and the actor that appended it.
EffectRecord ==
  [task : Task, attempt : Nat, holder : Holder, epoch : Nat,
   target : Target, approvals : SUBSET Nat, startedAt : Nat,
   status : {"STARTED"} \cup Outcome]

\* What ExclusiveExecution knows of an effect.
EffectPicture == [task : Task, attempt : Nat, revision : Nat, doubt : BOOLEAN]

ASSUME PlanAssumption ==
  /\ PlannedStatus \in [Task -> PlanStatus]
  /\ DependsOn \in [Task -> SUBSET Task]
  /\ Requires \in [Task -> SUBSET Target]
  /\ HumanRequired \subseteq Task
  /\ Supplied \subseteq Task
  /\ EarliestStart \in [Task -> Nat]
  /\ Rank \in [Task -> Nat]
  /\ \A t, u \in Task : Rank[t] = Rank[u] => t = u

ASSUME BoundAssumption ==
  /\ MaxAttempts \in Nat \ {0}
  /\ MaxTime \in Nat
  /\ MaxDelay \in Nat
  /\ LeaseLengths \subseteq Nat \ {0}
  /\ MaxRevisions \in Nat
  /\ NoHolder \notin Holder
  /\ Unused \notin EffectRecord \cup EffectPicture

ASSUME ApprovalAssumption ==
  /\ Approval \subseteq ApprovalRecord
  /\ \A a \in Approval : a.issued < a.expires

VARIABLES
  clock,      \* real time
  tasks,      \* task_states of production-state.json
  effects,    \* effects of production-state.json, by effect_key
  approvals,  \* approvals of production-state.json
  epoch,      \* HANDOFF_REVISION_ACCEPTED events in the log
  poisoned    \* the log holds an event that replay rejects

vars == <<clock, tasks, effects, approvals, epoch, poisoned>>

-----------------------------------------------------------------------------
(* What the guards read.                                                   *)

Sampled == {now \in 0..MaxTime : now <= clock /\ clock <= now + MaxDelay}

Registered == \A t \in Task : tasks[t].status # "ABSENT"

Finished(t) == tasks[t].status \in {"DONE", "SKIPPED"}

EffectsOf(t) == {k \in EffectKey : effects[k] # Unused /\ effects[k].task = t}

\* What happened outside is not known.
InDoubt(effect) == effect.status \in {"STARTED", "UNKNOWN"}

Unresolved(t) ==
  \E k \in EffectsOf(t) : InDoubt(effects[k])

\* Mutant: a lease that runs out next counts as expired.
ExpiredEarly(t, now) == tasks[t].until <= now + 1

Expired(t, now) == tasks[t].until <= now

\* Mutant: the expiry of the lease is not looked at.
HoldsLeaseForever(h, t, now) == tasks[t].status = "RUNNING" /\ tasks[t].holder = h

HoldsLease(h, t, now) ==
  /\ tasks[t].status = "RUNNING"
  /\ tasks[t].holder = h
  /\ ~Expired(t, now)

\* Mutant: a superseded revision still counts.
EveryApproval == approvals

\* The highest recorded revision of every approval id.
LatestApprovals ==
  {a \in approvals : \A b \in approvals : b.id = a.id => b.revision <= a.revision}

Candidates(r) == {a \in LatestApprovals : a.target = r}

Matching(r) == {a \in Candidates(r) : a.decision = "APPROVED" /\ a.exactHash /\ a.fits}

\* Of several matching approvals the runtime looks only at the last by id.
Chosen(r) == {a \in Matching(r) : \A b \in Matching(r) : b.id <= a.id}

ApprovedAt(r, now) ==
  /\ \A a \in Candidates(r) : a.exactHash
  /\ \E a \in Chosen(r) : a.issued <= now /\ now < a.expires

ApprovalIds(t) == {a.id : a \in UNION {Chosen(r) : r \in Requires[t]}}

\* Mutant: dependencies are not looked at.
GatesOpenInAnyOrder(t, now) ==
  /\ t \in Supplied
  /\ \A r \in Requires[t] : ApprovedAt(r, now)
  /\ EarliestStart[t] <= now

\* The gates of _task_eligible that do not depend on the task's own state.
GatesOpen(t, now) ==
  /\ \A d \in DependsOn[t] : Finished(d)
  /\ t \in Supplied
  /\ \A r \in Requires[t] : ApprovedAt(r, now)
  /\ EarliestStart[t] <= now

\* Mutant: a task that waits for its retry is forgotten.
EligibleWithoutRetry(t, now) == tasks[t].status = "READY" /\ GatesOpen(t, now)

Eligible(t, now) ==
  /\ tasks[t].status \in {"READY", "RETRY_WAITING"}
  /\ tasks[t].retryAfter <= now
  /\ GatesOpen(t, now)

\* next_task: the eligible task that comes first in the deterministic order.
Selected(t, now) ==
  /\ Eligible(t, now)
  /\ \A u \in Task : Eligible(u, now) => Rank[t] <= Rank[u]

-----------------------------------------------------------------------------
(* The task graph.                                                         *)

\* An external-effect task that the planner left BLOCKED for its approval
\* starts READY: the approval is one of its eligibility gates.
RuntimeStatus(t) ==
  IF PlannedStatus[t] = "BLOCKED" /\ Requires[t] # {}
  THEN "READY" ELSE PlannedStatus[t]

FreshTask(status) ==
  [status |-> status, attempt |-> 0, holder |-> NoHolder,
   until |-> 0, retryAfter |-> 0]

TaskGraph == [t \in Task |-> FreshTask(RuntimeStatus(t))]

Init ==
  /\ clock = 0
  /\ tasks = [t \in Task |-> FreshTask("ABSENT")]
  /\ effects = [k \in EffectKey |-> Unused]
  /\ approvals = {}
  /\ epoch = 0
  /\ poisoned = FALSE

Tick ==
  /\ clock < MaxTime
  /\ clock' = clock + 1
  /\ UNCHANGED <<tasks, effects, approvals, epoch, poisoned>>

InitializeTaskGraph ==
  /\ ~poisoned
  /\ ~Registered
  /\ tasks' = TaskGraph
  /\ UNCHANGED <<clock, effects, approvals, epoch, poisoned>>

\* A superseding handoff drops the graph and its task states; the effects and
\* the approvals stay in the projection.
AcceptHandoffRevision ==
  /\ ~poisoned
  /\ epoch < MaxRevisions
  /\ epoch' = epoch + 1
  /\ tasks' = [t \in Task |-> FreshTask("ABSENT")]
  /\ UNCHANGED <<clock, effects, approvals, poisoned>>

-----------------------------------------------------------------------------
(* Leases.                                                                 *)

Lease(task, h, until) ==
  [status |-> "RUNNING", attempt |-> task.attempt + 1, holder |-> h,
   until |-> until, retryAfter |-> 0]

Release(task, status) ==
  [task EXCEPT !.status = status, !.holder = NoHolder, !.until = 0]

\* Mutant: no limit on the attempts.
ClaimWithoutLimit(h, t, now, length) ==
  /\ Eligible(t, now)
  /\ tasks' = [tasks EXCEPT ![t] = Lease(@, h, now + length)]

ClaimReady(h, t, now, length) ==
  /\ Eligible(t, now)
  /\ tasks[t].attempt < MaxAttempts
  /\ tasks' = [tasks EXCEPT ![t] = Lease(@, h, now + length)]

\* Mutant: a rival claims an expired task whatever happened outside.
ClaimDoubtful(h, t, now, length) ==
  /\ tasks[t].status = "RUNNING"
  /\ Expired(t, now)
  /\ GatesOpen(t, now) /\ tasks[t].attempt < MaxAttempts
  /\ tasks' = [tasks EXCEPT ![t] = Lease(@, h, now + length)]

\* A claim of a task whose lease ran out first appends TASK_LEASE_RECOVERED.
\* That event stays in the log when the claim itself is then refused.
ClaimExpired(h, t, now, length) ==
  /\ tasks[t].status = "RUNNING"
  /\ Expired(t, now)
  /\ ~Unresolved(t)
  /\ tasks' = [tasks EXCEPT ![t] =
       IF GatesOpen(t, now) /\ tasks[t].retryAfter <= now /\ tasks[t].attempt < MaxAttempts
       THEN Lease(@, h, now + length) ELSE Release(@, "READY")]

ClaimTask(h, t, now, length) ==
  /\ ~poisoned
  /\ Registered
  /\ ClaimReady(h, t, now, length) \/ ClaimExpired(h, t, now, length)
  /\ UNCHANGED <<clock, effects, approvals, epoch, poisoned>>

\* claim_task with task_id = None.  When the selected task is out of attempts
\* the call fails; it does not go on to the next one.
ClaimNext(h, now, length) ==
  /\ ~poisoned
  /\ Registered
  /\ \E t \in Task : Selected(t, now) /\ ClaimReady(h, t, now, length)
  /\ UNCHANGED <<clock, effects, approvals, epoch, poisoned>>

\* The new expiry replaces the old one, whichever is later.
Heartbeat(h, t, now, length) ==
  /\ ~poisoned
  /\ HoldsLease(h, t, now)
  /\ tasks' = [tasks EXCEPT ![t].until = now + length]
  /\ UNCHANGED <<clock, effects, approvals, epoch, poisoned>>

\* Mutant: recovery does not look at the effects.
RecoverDoubtfulLease(t, now) ==
  /\ ~poisoned
  /\ tasks[t].status = "RUNNING"
  /\ Expired(t, now)
  /\ tasks' = [tasks EXCEPT ![t] = Release(@, "READY")]
  /\ UNCHANGED <<clock, effects, approvals, epoch, poisoned>>

RecoverExpiredLease(t, now) ==
  /\ ~poisoned
  /\ tasks[t].status = "RUNNING"
  /\ Expired(t, now)
  /\ ~Unresolved(t)
  /\ tasks' = [tasks EXCEPT ![t] = Release(@, "READY")]
  /\ UNCHANGED <<clock, effects, approvals, epoch, poisoned>>

RetryTask(h, t, now, after) ==
  /\ ~poisoned
  /\ now <= after
  /\ HoldsLease(h, t, now)
  /\ tasks[t].attempt < MaxAttempts
  /\ ~Unresolved(t)
  /\ tasks' = [tasks EXCEPT ![t] = [Release(@, "RETRY_WAITING") EXCEPT !.retryAfter = after]]
  /\ UNCHANGED <<clock, effects, approvals, epoch, poisoned>>

FailTask(h, t, now) ==
  /\ ~poisoned
  /\ HoldsLease(h, t, now)
  /\ ~Unresolved(t)
  /\ tasks' = [tasks EXCEPT ![t] = Release(@, "BLOCKED")]
  /\ UNCHANGED <<clock, effects, approvals, epoch, poisoned>>

\* Mutant: only effects without an outcome stand in the way.
CompletionDespiteFailure(t) == ~Unresolved(t)

\* Every effect the task ever started must have SUCCEEDED, those of earlier
\* attempts and of earlier handoff revisions included.
CompletionAllowed(t) == \A k \in EffectsOf(t) : effects[k].status = "SUCCEEDED"

CompleteTask(h, t, now) ==
  /\ ~poisoned
  /\ HoldsLease(h, t, now)
  /\ CompletionAllowed(t)
  /\ tasks' = [tasks EXCEPT ![t] = [Release(@, "DONE") EXCEPT !.retryAfter = 0]]
  /\ UNCHANGED <<clock, effects, approvals, epoch, poisoned>>

-----------------------------------------------------------------------------
(* Effects and approvals.                                                  *)

\* An effect key is written once.  A second start of a SUCCEEDED key returns
\* without an event; of any other used key it is refused.
StartEffect(h, t, now, k, g) ==
  /\ ~poisoned
  /\ HoldsLease(h, t, now)
  /\ effects[k] = Unused
  /\ \A r \in Requires[t] : r = g /\ ApprovedAt(r, now)
  /\ t \in HumanRequired => ApprovalIds(t) # {}
  /\ effects' = [effects EXCEPT ![k] =
       [task |-> t, attempt |-> tasks[t].attempt, holder |-> h, epoch |-> epoch,
        target |-> g, approvals |-> ApprovalIds(t), startedAt |-> now,
        status |-> "STARTED"]]
  /\ UNCHANGED <<clock, tasks, approvals, epoch, poisoned>>

\* Mutant: an outcome may be reported again.
CompleteEffectAgain(h, t, now, k, outcome) ==
  /\ ~poisoned
  /\ HoldsLease(h, t, now)
  /\ k \in EffectsOf(t)
  /\ effects' = [effects EXCEPT ![k].status = outcome]
  /\ UNCHANGED <<clock, tasks, approvals, epoch, poisoned>>

CompleteEffect(h, t, now, k, outcome) ==
  /\ ~poisoned
  /\ HoldsLease(h, t, now)
  /\ k \in EffectsOf(t)
  /\ effects[k].status = "STARTED"
  /\ effects' = [effects EXCEPT ![k].status = outcome]
  /\ UNCHANGED <<clock, tasks, approvals, epoch, poisoned>>

\* record_approval appends before anything compares (approval_id, revision)
\* with the recorded ones; replay, which does compare, then rejects the log
\* for good.  The projection keeps its last good value.
RecordApproval(a) ==
  /\ ~poisoned
  /\ IF \E b \in approvals : b.id = a.id /\ b.revision = a.revision
     THEN poisoned' = TRUE /\ UNCHANGED approvals
     ELSE approvals' = approvals \cup {a} /\ UNCHANGED poisoned
  /\ UNCHANGED <<clock, tasks, effects, epoch>>

-----------------------------------------------------------------------------
WorkerStep(h) ==
  \E now \in Sampled :
    \/ \E length \in LeaseLengths : ClaimNext(h, now, length)
    \/ \E t \in Task :
         \/ \E length \in LeaseLengths : ClaimTask(h, t, now, length)
         \/ \E length \in LeaseLengths : Heartbeat(h, t, now, length)
         \/ \E after \in 0..MaxTime : RetryTask(h, t, now, after)
         \/ FailTask(h, t, now)
         \/ CompleteTask(h, t, now)
         \/ \E k \in EffectKey, g \in Target : StartEffect(h, t, now, k, g)
         \/ \E k \in EffectKey, o \in Outcome : CompleteEffect(h, t, now, k, o)

Next ==
  \/ Tick
  \/ InitializeTaskGraph
  \/ AcceptHandoffRevision
  \/ \E h \in Holder : WorkerStep(h)
  \/ \E t \in Task, now \in Sampled : RecoverExpiredLease(t, now)
  \/ \E a \in Approval : RecordApproval(a)

Spec == Init /\ [][Next]_vars

\* Workers that do not give up: they ask for the next task and claim what they
\* are offered, report every effect, and a worker that can finish its task
\* finishes it, one way or the other.  No worker picks a task that next_task
\* does not offer.  Expired leases are recovered by whoever polls, and time
\* passes.  Nothing obliges a worker to act before its lease runs out.
FairSpec ==
  /\ Spec
  /\ WF_vars(Tick)
  /\ WF_vars(InitializeTaskGraph)
  /\ WF_vars(\E h \in Holder, now \in Sampled, length \in LeaseLengths :
                ClaimNext(h, now, length))
  /\ \A t \in Task :
       /\ WF_vars(\E now \in Sampled : RecoverExpiredLease(t, now))
       /\ WF_vars(\E h \in Holder, now \in Sampled :
                     CompleteTask(h, t, now) \/ FailTask(h, t, now))
  /\ \A k \in EffectKey :
       WF_vars(\E h \in Holder, t \in Task, now \in Sampled, o \in Outcome :
                 CompleteEffect(h, t, now, k, o))

-----------------------------------------------------------------------------
TypeOK ==
  /\ clock \in 0..MaxTime
  /\ tasks \in [Task -> TaskRecord]
  /\ \A t \in Task : tasks[t].attempt <= MaxAttempts
  /\ effects \in [EffectKey -> EffectRecord \cup {Unused}]
  /\ approvals \subseteq Approval
  /\ epoch \in 0..MaxRevisions
  /\ poisoned \in BOOLEAN

\* An effect whose outcome is not known keeps its task RUNNING, in the attempt
\* and under the holder that started it: recovery, retry, failure, completion
\* and a rival claim all wait.  (runtime.py 595, 813, 827, 843)
UnresolvedEffectPinsTask ==
  \A k \in EffectKey :
    (effects[k] # Unused /\ effects[k].epoch = epoch /\ InDoubt(effects[k]))
    => LET e == effects[k] IN
       /\ tasks[e.task].status = "RUNNING"
       /\ tasks[e.task].attempt = e.attempt
       /\ tasks[e.task].holder = e.holder

\* A task that runs, waits for a retry or was completed had all its
\* dependencies finished, and they still are.  (runtime.py 620)
WorkedAfterDependencies ==
  \A t \in Task : tasks[t].attempt > 0 => \A d \in DependsOn[t] : Finished(d)

\* A task the runtime completed has no failed, unknown or unfinished effect
\* behind it, in any attempt of any revision.  (runtime.py 843-846)
DoneIsClean ==
  \A t \in Task :
    (tasks[t].status = "DONE" /\ tasks[t].attempt > 0) =>
      \A k \in EffectsOf(t) : effects[k].status = "SUCCEEDED"

LiveLeasesKept ==
  \A t \in Task :
    (epoch' = epoch /\ tasks[t].status = "RUNNING" /\ clock < tasks[t].until)
    => \/ tasks'[t].status = "RUNNING" /\ tasks'[t].attempt = tasks[t].attempt
          /\ tasks'[t].holder = tasks[t].holder
       \/ tasks'[t].status \in {"DONE", "BLOCKED", "RETRY_WAITING"}

\* A lease is taken from its holder only after it expired: until then only its
\* holder gives it up, by finishing the task.  (runtime.py 594, 680)
LeaseNotStolen == [][LiveLeasesKept]_vars

LateCallsRefused ==
  \A t \in Task :
    (epoch' = epoch /\ tasks[t].status = "RUNNING"
       /\ tasks[t].until + MaxDelay <= clock)
    => /\ \A k \in EffectKey :
            (effects'[k] # Unused /\ effects'[k].task = t) => effects'[k] = effects[k]
       /\ \/ tasks'[t] = tasks[t]
          \/ tasks'[t].status = "READY"
          \/ tasks'[t].attempt = tasks[t].attempt + 1

\* A worker whose lease expired more than the sampling delay ago can no longer
\* finish the task, renew the lease, start an effect or report one.
\* (runtime.py 702, 738)
LateWorkerHasNoEffect == [][LateCallsRefused]_vars

WorkNotReopened ==
  epoch' = epoch /\ Registered =>
    \A t \in Task :
      /\ tasks[t].status \in {"DONE", "SKIPPED", "BLOCKED"} => tasks'[t] = tasks[t]
      /\ tasks[t].attempt <= tasks'[t].attempt

\* Within one graph a task that is DONE, SKIPPED or BLOCKED stays so, and its
\* attempt counter never goes back: no sequence of recoveries and retries
\* reopens finished work or refills the retry budget.
FinishedStaysFinished == [][WorkNotReopened]_vars

OutcomesKept ==
  \A k \in EffectKey :
    effects[k] # Unused =>
      /\ effects'[k] # Unused
      /\ effects'[k] = [effects[k] EXCEPT !.status = effects'[k].status]
      /\ effects[k].status # "STARTED" => effects'[k] = effects[k]
      /\ (effects'[k] # effects[k] /\ effects[k].epoch = epoch) =>
           /\ tasks[effects[k].task].attempt = effects[k].attempt
           /\ tasks[effects[k].task].holder = effects[k].holder

\* The outcome of an effect is reported once, in the attempt that started it
\* and by its own holder; after that neither outcome, target nor owner of the
\* key changes.  (runtime.py 291, 752-757, 793)
OutcomeIsFinal == [][OutcomesKept]_vars

\* At the step that starts an effect, each requirement of its task is met by a
\* cited approval that is APPROVED, is the newest revision of its id, names
\* this very target and is inside its window; an approval that lapsed or was
\* revoked since the claim does not count.  (runtime.py 547-575, 758-762)
EffectStartsApproved ==
  [][\A k \in EffectKey :
       (effects[k] = Unused /\ effects'[k] # Unused) =>
         LET e == effects'[k] IN
         /\ e.task \in HumanRequired => e.approvals # {}
         /\ \A r \in Requires[e.task] :
              /\ e.target = r
              /\ \E a \in approvals :
                   /\ a.id \in e.approvals
                   /\ a.target = r /\ a.decision = "APPROVED" /\ a.exactHash
                   /\ a.issued <= e.startedAt /\ e.startedAt < a.expires
                   /\ \A b \in approvals : b.id = a.id => b.revision <= a.revision]_vars

\* next_task does not count attempts: it goes on offering a task that has none
\* left, whose claim is refused, and no task after it is offered.
ShutOut(t, now) ==
  \E u \in Task : Eligible(u, now) /\ tasks[u].attempt = MaxAttempts /\ Rank[u] < Rank[t]

\* The plan drains: in the end a task is finished or failed for good, or it
\* has used up its attempts, or it waits for a gate that never opens, or an
\* effect of it stays in doubt, or a task without attempts left is offered
\* before it.  Short of a poisoned log nothing else strands a task: not a lease
\* its worker forgot, a failed effect or a retry window.
\* (runtime.py 635-643, 669-687; run_agent_harness.py 90-94)
PlanDrains ==
  <>[](poisoned \/ \A t \in Task :
         \/ tasks[t].status \in {"DONE", "SKIPPED", "BLOCKED"}
         \/ tasks[t].attempt = MaxAttempts
         \/ ~GatesOpen(t, clock)
         \/ Unresolved(t)
         \/ ShutOut(t, clock))

-----------------------------------------------------------------------------
(* The runtime implements the promise of ExclusiveExecution: the attempt in *)
(* progress is the one whose lease is recorded, expired or not.             *)

PictureOf(e) ==
  [task |-> e.task, attempt |-> e.attempt, revision |-> e.epoch, doubt |-> InDoubt(e)]

Exclusive == INSTANCE ExclusiveExecution WITH
  owner    <- [t \in Task |-> IF tasks[t].status = "RUNNING" THEN tasks[t].attempt ELSE 0],
  attempts <- [t \in Task |-> tasks[t].attempt],
  closed   <- {t \in Task : tasks[t].status \in {"DONE", "SKIPPED", "BLOCKED"}},
  effect   <- [k \in EffectKey |->
                 IF effects[k] = Unused THEN Unused ELSE PictureOf(effects[k])],
  revision <- epoch

\* Every run of the runtime is a run of ExclusiveExecution: expiry, recovery,
\* retries, rival claims and late calls never give one task to two attempts,
\* and never hand over a task with an effect in doubt.
ImplementsExclusiveExecution == Exclusive!Spec
=============================================================================
