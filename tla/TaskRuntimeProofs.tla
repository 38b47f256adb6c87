------------------------- MODULE TaskRuntimeProofs -------------------------
(***************************************************************************)
(* Theorems about TaskRuntime, for every plan, every number of workers,    *)
(* tasks, effects and approvals, and every bound: its invariants, what its *)
(* steps may never do, and that it implements ExclusiveExecution, alone    *)
(* and behind Planner.                                                     *)
(***************************************************************************)
EXTENDS PlannedRuntime, TLAPS

-----------------------------------------------------------------------------
(* The type invariant.                                                     *)

\* A freshly registered or dropped task has the type of a task.
LEMMA FreshTaskType ==
  ASSUME NEW status \in TaskStatus
  PROVE  /\ FreshTask(status) \in TaskRecord
         /\ FreshTask(status).attempt = 0
         /\ FreshTask(status).status = status
  BY DEF FreshTask, TaskRecord

\* Giving a task up keeps its type and its attempt number.
LEMMA ReleaseType ==
  ASSUME NEW task \in TaskRecord, NEW status \in TaskStatus
  PROVE  /\ Release(task, status) \in TaskRecord
         /\ Release(task, status).attempt = task.attempt
         /\ Release(task, status).status = status
  BY DEF Release, TaskRecord

\* A lease raises the attempt number by one.
LEMMA LeaseType ==
  ASSUME NEW task \in TaskRecord, NEW h \in Holder, NEW until \in Nat
  PROVE  /\ Lease(task, h, until) \in TaskRecord
         /\ Lease(task, h, until).attempt = task.attempt + 1
         /\ Lease(task, h, until).status = "RUNNING"
         /\ Lease(task, h, until).holder = h
         /\ Lease(task, h, until).until = until
<1>1. task.attempt \in Nat /\ task.attempt + 1 \in Nat
  BY DEF TaskRecord
<1> QED
  BY <1>1 DEF Lease, TaskRecord, TaskStatus

\* What the planner calls a task is a status the runtime knows, and one in
\* which nobody works on the task.
LEMMA RuntimeStatusType ==
  ASSUME NEW t \in Task
  PROVE  RuntimeStatus(t) \in TaskStatus \ {"ABSENT", "RUNNING", "RETRY_WAITING"}
  BY PlanAssumption DEF RuntimeStatus, TaskStatus, PlanStatus

\* The ids an effect cites are ids of recorded approvals.
LEMMA ApprovalIdsType ==
  ASSUME TypeOK, NEW t \in Task
  PROVE  ApprovalIds(t) \subseteq Nat
<1>1. ASSUME NEW r, NEW a \in Chosen(r) PROVE a.id \in Nat
  BY <1>1, ApprovalAssumption
     DEF TypeOK, Chosen, Matching, Candidates, LatestApprovals, ApprovalRecord
<1> QED
  BY <1>1 DEF ApprovalIds

\* A call may change one task, to a record of the type with a bounded attempt.
LEMMA OneTaskType ==
  ASSUME TypeOK, NEW t \in Task, NEW new \in TaskRecord, new.attempt <= MaxAttempts,
         tasks' = [tasks EXCEPT ![t] = new],
         UNCHANGED <<clock, effects, approvals, epoch, poisoned>>
  PROVE  TypeOK'
  BY DEF TypeOK

LEMMA TypeInvariantStep ==
  ASSUME TypeOK, [Next]_vars
  PROVE  TypeOK'
<1> USE BoundAssumption DEF Sampled
<1>1. CASE UNCHANGED vars
  BY <1>1 DEF TypeOK, vars
<1>2. CASE Tick
  BY <1>2 DEF TypeOK, Tick
<1>3. CASE InitializeTaskGraph
  <2>1. \A t \in Task : FreshTask(RuntimeStatus(t)) \in TaskRecord
                        /\ FreshTask(RuntimeStatus(t)).attempt = 0
    BY FreshTaskType, RuntimeStatusType
  <2> QED
    BY <1>3, <2>1 DEF TypeOK, InitializeTaskGraph, TaskGraph
<1>4. CASE AcceptHandoffRevision
  <2>1. FreshTask("ABSENT") \in TaskRecord /\ FreshTask("ABSENT").attempt = 0
    BY FreshTaskType DEF TaskStatus
  <2> QED
    BY <1>4, <2>1 DEF TypeOK, AcceptHandoffRevision
<1>5. ASSUME NEW h \in Holder, NEW t \in Task, NEW now \in Sampled,
             NEW length \in LeaseLengths,
             ClaimReady(h, t, now, length) \/ ClaimExpired(h, t, now, length),
             UNCHANGED <<clock, effects, approvals, epoch, poisoned>>
      PROVE  TypeOK'
  <2>1. tasks[t] \in TaskRecord /\ tasks[t].attempt <= MaxAttempts
    BY DEF TypeOK
  <2>2. now + length \in Nat
    OBVIOUS
  <2>3. Lease(tasks[t], h, now + length) \in TaskRecord
        /\ Lease(tasks[t], h, now + length).attempt = tasks[t].attempt + 1
    BY <2>1, <2>2, LeaseType
  <2>4. Release(tasks[t], "READY") \in TaskRecord
        /\ Release(tasks[t], "READY").attempt = tasks[t].attempt
    BY <2>1, ReleaseType DEF TaskStatus, PlanStatus
  <2>5. tasks[t].attempt < MaxAttempts => tasks[t].attempt + 1 <= MaxAttempts
    BY <2>1 DEF TaskRecord
  <2>6. CASE ClaimReady(h, t, now, length)
    BY <1>5, <2>3, <2>5, <2>6, OneTaskType DEF ClaimReady
  <2>7. CASE ClaimExpired(h, t, now, length)
    BY <1>5, <2>1, <2>3, <2>4, <2>5, <2>7, OneTaskType DEF ClaimExpired
  <2> QED
    BY <1>5, <2>6, <2>7
<1>6. ASSUME NEW h \in Holder, NEW t \in Task, NEW now \in Sampled,
             NEW length \in LeaseLengths, Heartbeat(h, t, now, length)
      PROVE  TypeOK'
  BY <1>6 DEF TypeOK, Heartbeat, TaskRecord
<1>7. ASSUME NEW t \in Task, NEW status \in TaskStatus, NEW after \in Nat,
             \/ tasks' = [tasks EXCEPT ![t] = Release(@, status)]
             \/ tasks' = [tasks EXCEPT ![t] =
                            [Release(@, status) EXCEPT !.retryAfter = after]],
             UNCHANGED <<clock, effects, approvals, epoch, poisoned>>
      PROVE  TypeOK'
  <2>1. tasks[t] \in TaskRecord /\ tasks[t].attempt <= MaxAttempts
    BY DEF TypeOK
  <2>2. /\ Release(tasks[t], status) \in TaskRecord
        /\ Release(tasks[t], status).attempt = tasks[t].attempt
    BY <2>1, ReleaseType
  <2>3. /\ [Release(tasks[t], status) EXCEPT !.retryAfter = after] \in TaskRecord
        /\ [Release(tasks[t], status) EXCEPT !.retryAfter = after].attempt
             = tasks[t].attempt
    BY <2>2 DEF TaskRecord
  <2> QED
    BY <1>7, <2>1, <2>2, <2>3, OneTaskType
<1>8. ASSUME NEW h \in Holder, NEW t \in Task, NEW now \in Sampled,
             NEW k \in EffectKey, NEW g \in Target, StartEffect(h, t, now, k, g)
      PROVE  TypeOK'
  <2>1. [task |-> t, attempt |-> tasks[t].attempt, holder |-> h, epoch |-> epoch,
         target |-> g, approvals |-> ApprovalIds(t), startedAt |-> now,
         status |-> "STARTED"] \in EffectRecord
    BY ApprovalIdsType DEF TypeOK, EffectRecord, TaskRecord
  <2> QED
    BY <1>8, <2>1 DEF TypeOK, StartEffect
<1>9. ASSUME NEW h \in Holder, NEW t \in Task, NEW now \in Sampled,
             NEW k \in EffectKey, NEW o \in Outcome, CompleteEffect(h, t, now, k, o)
      PROVE  TypeOK'
  <2>1. effects[k] \in EffectRecord
    BY <1>9 DEF TypeOK, CompleteEffect, EffectsOf
  <2>2. [effects[k] EXCEPT !.status = o] \in EffectRecord
    BY <2>1 DEF EffectRecord
  <2> QED
    BY <1>9, <2>2 DEF TypeOK, CompleteEffect
<1>10. ASSUME NEW a \in Approval, RecordApproval(a) PROVE TypeOK'
  BY <1>10 DEF TypeOK, RecordApproval
<1>11. ASSUME NEW h \in Holder, WorkerStep(h) PROVE TypeOK'
  <2> PICK now \in Sampled :
        \/ \E length \in LeaseLengths : ClaimNext(h, now, length)
        \/ \E t \in Task :
             \/ \E length \in LeaseLengths : ClaimTask(h, t, now, length)
             \/ \E length \in LeaseLengths : Heartbeat(h, t, now, length)
             \/ \E after \in 0..MaxTime : RetryTask(h, t, now, after)
             \/ FailTask(h, t, now)
             \/ CompleteTask(h, t, now)
             \/ \E k \in EffectKey, g \in Target : StartEffect(h, t, now, k, g)
             \/ \E k \in EffectKey, o \in Outcome : CompleteEffect(h, t, now, k, o)
    BY <1>11 DEF WorkerStep
  <2>1. CASE \E length \in LeaseLengths : ClaimNext(h, now, length)
    BY <1>5, <2>1 DEF ClaimNext
  <2>2. CASE \E t \in Task, length \in LeaseLengths : ClaimTask(h, t, now, length)
    BY <1>5, <2>2 DEF ClaimTask
  <2>3. CASE \E t \in Task, after \in 0..MaxTime : RetryTask(h, t, now, after)
    <3> PICK t \in Task, after \in 0..MaxTime : RetryTask(h, t, now, after)
      BY <2>3
    <3>1. after \in Nat /\ "RETRY_WAITING" \in TaskStatus
      BY DEF TaskStatus
    <3>2. tasks' = [tasks EXCEPT ![t] =
                      [Release(@, "RETRY_WAITING") EXCEPT !.retryAfter = after]]
          /\ UNCHANGED <<clock, effects, approvals, epoch, poisoned>>
      BY DEF RetryTask
    <3> QED
      BY <1>7, <3>1, <3>2
  <2>4. CASE \E t \in Task : FailTask(h, t, now)
    BY <1>7, <2>4 DEF FailTask, TaskStatus, PlanStatus
  <2>5. CASE \E t \in Task : CompleteTask(h, t, now)
    BY <1>7, <2>5 DEF CompleteTask, TaskStatus, PlanStatus
  <2> QED
    BY <1>6, <1>8, <1>9, <2>1, <2>2, <2>3, <2>4, <2>5
<1>12. ASSUME NEW t \in Task, NEW now \in Sampled, RecoverExpiredLease(t, now)
       PROVE  TypeOK'
  BY <1>7, <1>12 DEF RecoverExpiredLease, TaskStatus, PlanStatus
<1> QED
  BY <1>1, <1>2, <1>3, <1>4, <1>10, <1>11, <1>12 DEF Next

LEMMA TypeInvariantInit == Init => TypeOK
<1> SUFFICES ASSUME Init PROVE TypeOK
  OBVIOUS
<1>1. FreshTask("ABSENT") \in TaskRecord /\ FreshTask("ABSENT").attempt = 0
  BY FreshTaskType DEF TaskStatus
<1>2. /\ tasks \in [Task -> TaskRecord]
      /\ \A t \in Task : tasks[t].attempt <= MaxAttempts
  BY <1>1, BoundAssumption DEF Init
<1>3. clock \in 0..MaxTime /\ epoch \in 0..MaxRevisions
  BY BoundAssumption DEF Init
<1>4. effects \in [EffectKey -> EffectRecord \cup {Unused}]
  BY DEF Init
<1>5. approvals \subseteq Approval /\ poisoned \in BOOLEAN
  BY DEF Init
<1> QED
  BY <1>2, <1>3, <1>4, <1>5 DEF TypeOK

\* Whatever the workers do, and however late their calls are, the projection
\* keeps its type and no task is attempted more than MaxAttempts times.
THEOREM TypeCorrect == Spec => []TypeOK
  BY TypeInvariantInit, TypeInvariantStep, PTL DEF Spec
-----------------------------------------------------------------------------
(* The inductive invariant.                                                *)

\* A plan revision is registered as a whole, and until then nothing is known
\* of its tasks.
AllOrNone ==
  (\E t \in Task : tasks[t].status = "ABSENT")
    => tasks = [t \in Task |-> FreshTask("ABSENT")]

\* No effect belongs to a plan revision yet to come.
EffectsOfThePast == \A k \in EffectKey : effects[k] # Unused => effects[k].epoch <= epoch

\* A task that runs was claimed.
RunningWasClaimed == \A t \in Task : tasks[t].status = "RUNNING" => tasks[t].attempt > 0

IInv ==
  /\ TypeOK
  /\ AllOrNone
  /\ EffectsOfThePast
  /\ RunningWasClaimed
  /\ UnresolvedEffectPinsTask
  /\ WorkedAfterDependencies
  /\ DoneIsClean

-----------------------------------------------------------------------------
(* What a call can do to a task and to the effects, in eight kinds: the    *)
(* proofs below are about the kinds, and Kinds shows there are no others.  *)

Unfinished == {"READY", "RETRY_WAITING", "RUNNING"}

\* Some caller may still take the lease of t for live.
Alive(t) == clock < tasks[t].until + MaxDelay

Nothing == UNCHANGED <<tasks, effects, epoch>>

Register == ~Registered /\ tasks' = TaskGraph /\ UNCHANGED <<effects, epoch>>

Revise ==
  /\ epoch' = epoch + 1
  /\ tasks' = [t \in Task |-> FreshTask("ABSENT")]
  /\ UNCHANGED effects

Give(t) ==
  /\ tasks[t].status \in Unfinished
  /\ tasks[t].status = "RUNNING" => tasks[t].until <= clock /\ ~Unresolved(t)
  /\ \A d \in DependsOn[t] : Finished(d)
  /\ tasks[t].attempt < MaxAttempts
  /\ \E h \in Holder, until \in Nat : tasks' = [tasks EXCEPT ![t] = Lease(@, h, until)]
  /\ UNCHANGED <<effects, epoch>>

Renew(t) ==
  /\ tasks[t].status = "RUNNING"
  /\ Alive(t)
  /\ \E until \in Nat : tasks' = [tasks EXCEPT ![t].until = until]
  /\ UNCHANGED <<effects, epoch>>

Leave(t) ==
  /\ tasks[t].status = "RUNNING"
  /\ ~Unresolved(t)
  /\ \E new \in TaskRecord :
       /\ tasks' = [tasks EXCEPT ![t] = new]
       /\ new.attempt = tasks[t].attempt
       /\ \/ new.status = "READY" /\ tasks[t].until <= clock
          \/ new.status \in {"RETRY_WAITING", "BLOCKED"} /\ Alive(t)
          \/ new.status = "DONE" /\ Alive(t) /\ CompletionAllowed(t)
  /\ UNCHANGED <<effects, epoch>>

Begin(t, k) ==
  /\ tasks[t].status = "RUNNING"
  /\ Alive(t)
  /\ effects[k] = Unused
  /\ \E e \in EffectRecord :
       /\ effects' = [effects EXCEPT ![k] = e]
       /\ e.task = t /\ e.attempt = tasks[t].attempt /\ e.holder = tasks[t].holder
       /\ e.epoch = epoch /\ e.status = "STARTED"
  /\ UNCHANGED <<tasks, epoch>>

Settle(t, k) ==
  /\ tasks[t].status = "RUNNING"
  /\ Alive(t)
  /\ effects[k] # Unused
  /\ effects[k].task = t
  /\ effects[k].status = "STARTED"
  /\ \E o \in Outcome : effects' = [effects EXCEPT ![k].status = o]
  /\ UNCHANGED <<tasks, epoch>>

Kind ==
  \/ Nothing \/ Register \/ Revise
  \/ \E t \in Task : Give(t) \/ Renew(t) \/ Leave(t)
  \/ \E t \in Task, k \in EffectKey : Begin(t, k) \/ Settle(t, k)

\* A live lease at a time a call may carry.
LEMMA HolderIsAlive ==
  ASSUME TypeOK, NEW h \in Holder, NEW t \in Task, NEW now \in Sampled,
         HoldsLease(h, t, now)
  PROVE  Alive(t) /\ tasks[t].status = "RUNNING" /\ tasks[t].holder = h
<1>1. tasks[t].until \in Nat /\ clock \in Nat /\ now \in Nat /\ clock <= now + MaxDelay
  BY BoundAssumption DEF TypeOK, TaskRecord, Sampled
<1>2. now < tasks[t].until
  BY <1>1 DEF HoldsLease, Expired
<1> QED
  BY <1>1, <1>2, BoundAssumption DEF HoldsLease, Alive

\* A lease that has run out at a time a call may carry has run out.
LEMMA ExpiredIsPast ==
  ASSUME TypeOK, NEW t \in Task, NEW now \in Sampled, Expired(t, now)
  PROVE  tasks[t].until <= clock
<1>1. tasks[t].until \in Nat /\ clock \in Nat /\ now \in Nat /\ now <= clock
  BY BoundAssumption DEF TypeOK, TaskRecord, Sampled
<1> QED
  BY <1>1 DEF Expired

\* An effect that succeeded is not in doubt.
LEMMA CompletionResolves ==
  ASSUME NEW t \in Task, CompletionAllowed(t)
  PROVE  ~Unresolved(t)
  BY DEF CompletionAllowed, Unresolved, InDoubt

LEMMA ClaimIsAKind ==
  ASSUME TypeOK, NEW h \in Holder, NEW t \in Task, NEW now \in Sampled,
         NEW length \in LeaseLengths,
         ClaimReady(h, t, now, length) \/ ClaimExpired(h, t, now, length),
         UNCHANGED <<effects, epoch>>
  PROVE  Give(t) \/ Leave(t)
<1>1. now + length \in Nat
  BY BoundAssumption DEF Sampled
<1>2. CASE ClaimReady(h, t, now, length)
  BY <1>1, <1>2 DEF ClaimReady, Eligible, GatesOpen, Give, Unfinished
<1>3. CASE ClaimExpired(h, t, now, length)
  <2>1. tasks[t].status = "RUNNING" /\ tasks[t].until <= clock /\ ~Unresolved(t)
    BY <1>3, ExpiredIsPast DEF ClaimExpired
  <2>2. CASE GatesOpen(t, now) /\ tasks[t].retryAfter <= now /\ tasks[t].attempt < MaxAttempts
    <3>1. tasks' = [tasks EXCEPT ![t] = Lease(@, h, now + length)]
      BY <1>3, <2>2 DEF ClaimExpired
    <3> QED
      BY <1>1, <2>1, <2>2, <3>1 DEF Give, GatesOpen, Unfinished
  <2>3. CASE ~(GatesOpen(t, now) /\ tasks[t].retryAfter <= now
                 /\ tasks[t].attempt < MaxAttempts)
    <3>1. tasks' = [tasks EXCEPT ![t] = Release(@, "READY")]
      BY <1>3, <2>3 DEF ClaimExpired
    <3>2. tasks[t] \in TaskRecord /\ "READY" \in TaskStatus
      BY DEF TypeOK, TaskStatus, PlanStatus
    <3> QED
      BY <2>1, <3>1, <3>2, ReleaseType DEF Leave
  <2> QED
    BY <2>2, <2>3
<1> QED
  BY <1>2, <1>3

\* Every call of the runtime is of one of the eight kinds.
LEMMA Kinds ==
  ASSUME TypeOK, Next
  PROVE  Kind
<1>1. CASE Tick
  BY <1>1 DEF Tick, Kind, Nothing
<1>2. CASE InitializeTaskGraph
  BY <1>2 DEF InitializeTaskGraph, Kind, Register
<1>3. CASE AcceptHandoffRevision
  BY <1>3 DEF AcceptHandoffRevision, Kind, Revise
<1>4. ASSUME NEW a \in Approval, RecordApproval(a) PROVE Kind
  BY <1>4 DEF RecordApproval, Kind, Nothing
<1>5. ASSUME NEW t \in Task, NEW now \in Sampled, RecoverExpiredLease(t, now) PROVE Kind
  <2>1. tasks[t] \in TaskRecord /\ "READY" \in TaskStatus
    BY DEF TypeOK, TaskStatus, PlanStatus
  <2>2. tasks[t].status = "RUNNING" /\ tasks[t].until <= clock /\ ~Unresolved(t)
    BY <1>5, ExpiredIsPast DEF RecoverExpiredLease
  <2>3. Leave(t)
    BY <1>5, <2>1, <2>2, ReleaseType DEF RecoverExpiredLease, Leave
  <2> QED
    BY <2>3 DEF Kind
<1>6. ASSUME NEW h \in Holder, WorkerStep(h) PROVE Kind
  <2> PICK now \in Sampled :
        \/ \E length \in LeaseLengths : ClaimNext(h, now, length)
        \/ \E t \in Task :
             \/ \E length \in LeaseLengths : ClaimTask(h, t, now, length)
             \/ \E length \in LeaseLengths : Heartbeat(h, t, now, length)
             \/ \E after \in 0..MaxTime : RetryTask(h, t, now, after)
             \/ FailTask(h, t, now)
             \/ CompleteTask(h, t, now)
             \/ \E k \in EffectKey, g \in Target : StartEffect(h, t, now, k, g)
             \/ \E k \in EffectKey, o \in Outcome : CompleteEffect(h, t, now, k, o)
    BY <1>6 DEF WorkerStep
  <2>1. CASE \E length \in LeaseLengths : ClaimNext(h, now, length)
    <3> PICK length \in LeaseLengths, t \in Task :
          /\ ClaimReady(h, t, now, length)
          /\ UNCHANGED <<clock, effects, approvals, epoch, poisoned>>
      BY <2>1 DEF ClaimNext
    <3>1. Give(t) \/ Leave(t)
      BY ClaimIsAKind
    <3> QED
      BY <3>1 DEF Kind
  <2>2. ASSUME NEW t \in Task, NEW length \in LeaseLengths, ClaimTask(h, t, now, length)
        PROVE  Kind
    <3>1. Give(t) \/ Leave(t)
      BY <2>2, ClaimIsAKind DEF ClaimTask
    <3> QED
      BY <3>1 DEF Kind
  <2>3. ASSUME NEW t \in Task, NEW length \in LeaseLengths, Heartbeat(h, t, now, length)
        PROVE  Kind
    <3>1. Alive(t) /\ tasks[t].status = "RUNNING"
      BY <2>3, HolderIsAlive DEF Heartbeat
    <3>2. now + length \in Nat
      BY BoundAssumption DEF Sampled
    <3>3. Renew(t)
      BY <2>3, <3>1, <3>2 DEF Heartbeat, Renew
    <3> QED
      BY <3>3 DEF Kind
  <2>4. ASSUME NEW t \in Task, NEW after \in 0..MaxTime, RetryTask(h, t, now, after)
        PROVE  Kind
    <3>1. Alive(t) /\ tasks[t].status = "RUNNING" /\ ~Unresolved(t)
      BY <2>4, HolderIsAlive DEF RetryTask
    <3> DEFINE new == [Release(tasks[t], "RETRY_WAITING") EXCEPT !.retryAfter = after]
    <3>2. tasks[t] \in TaskRecord /\ "RETRY_WAITING" \in TaskStatus
      BY DEF TypeOK, TaskStatus
    <3>3. after \in Nat
      BY BoundAssumption
    <3>4. new \in TaskRecord /\ new.attempt = tasks[t].attempt
          /\ new.status = "RETRY_WAITING"
      BY <3>2, <3>3, ReleaseType DEF TaskRecord
    <3>5. tasks' = [tasks EXCEPT ![t] = new] /\ UNCHANGED <<effects, epoch>>
      BY <2>4 DEF RetryTask
    <3>6. Leave(t)
      BY <3>1, <3>4, <3>5 DEF Leave
    <3> QED
      BY <3>6 DEF Kind
  <2>5. ASSUME NEW t \in Task, FailTask(h, t, now) PROVE Kind
    <3>1. Alive(t) /\ tasks[t].status = "RUNNING" /\ ~Unresolved(t)
      BY <2>5, HolderIsAlive DEF FailTask
    <3>2. tasks[t] \in TaskRecord /\ "BLOCKED" \in TaskStatus
      BY DEF TypeOK, TaskStatus, PlanStatus
    <3>3. Leave(t)
      BY <2>5, <3>1, <3>2, ReleaseType DEF FailTask, Leave
    <3> QED
      BY <3>3 DEF Kind
  <2>6. ASSUME NEW t \in Task, CompleteTask(h, t, now) PROVE Kind
    <3>1. Alive(t) /\ tasks[t].status = "RUNNING" /\ CompletionAllowed(t) /\ ~Unresolved(t)
      BY <2>6, HolderIsAlive, CompletionResolves DEF CompleteTask
    <3> DEFINE new == [Release(tasks[t], "DONE") EXCEPT !.retryAfter = 0]
    <3>2. tasks[t] \in TaskRecord /\ "DONE" \in TaskStatus
      BY DEF TypeOK, TaskStatus, PlanStatus
    <3>3. new \in TaskRecord /\ new.attempt = tasks[t].attempt /\ new.status = "DONE"
      BY <3>2, ReleaseType DEF TaskRecord
    <3>4. tasks' = [tasks EXCEPT ![t] = new] /\ UNCHANGED <<effects, epoch>>
      BY <2>6 DEF CompleteTask
    <3>5. Leave(t)
      BY <3>1, <3>3, <3>4 DEF Leave
    <3> QED
      BY <3>5 DEF Kind
  <2>7. ASSUME NEW t \in Task, NEW k \in EffectKey, NEW g \in Target,
               StartEffect(h, t, now, k, g)
        PROVE  Kind
    <3>1. Alive(t) /\ tasks[t].status = "RUNNING" /\ tasks[t].holder = h
      BY <2>7, HolderIsAlive DEF StartEffect
    <3> DEFINE e == [task |-> t, attempt |-> tasks[t].attempt, holder |-> h,
                     epoch |-> epoch, target |-> g, approvals |-> ApprovalIds(t),
                     startedAt |-> now, status |-> "STARTED"]
    <3>2. e \in EffectRecord
      BY ApprovalIdsType, BoundAssumption DEF TypeOK, EffectRecord, TaskRecord, Sampled
    <3>3. e.task = t /\ e.attempt = tasks[t].attempt /\ e.holder = tasks[t].holder
          /\ e.epoch = epoch /\ e.status = "STARTED"
      BY <3>1
    <3>4. effects[k] = Unused /\ effects' = [effects EXCEPT ![k] = e]
          /\ UNCHANGED <<tasks, epoch>>
      BY <2>7 DEF StartEffect
    <3>5. Begin(t, k)
      BY <3>1, <3>2, <3>3, <3>4 DEF Begin
    <3> QED
      BY <3>5 DEF Kind
  <2>8. ASSUME NEW t \in Task, NEW k \in EffectKey, NEW o \in Outcome,
               CompleteEffect(h, t, now, k, o)
        PROVE  Kind
    <3>1. Alive(t) /\ tasks[t].status = "RUNNING"
      BY <2>8, HolderIsAlive DEF CompleteEffect
    <3>2. Settle(t, k)
      BY <2>8, <3>1 DEF CompleteEffect, EffectsOf, Settle
    <3> QED
      BY <3>2 DEF Kind
  <2> QED
    BY <2>1, <2>2, <2>3, <2>4, <2>5, <2>6, <2>7, <2>8
<1> QED
  BY <1>1, <1>2, <1>3, <1>4, <1>5, <1>6 DEF Next

-----------------------------------------------------------------------------
(* The invariant is inductive.                                             *)

\* An unresolved effect of the current revision is a reason not to leave.
LEMMA DoubtIsUnresolved ==
  ASSUME NEW k \in EffectKey, effects[k] # Unused, InDoubt(effects[k])
  PROVE  Unresolved(effects[k].task)
  BY DEF Unresolved, EffectsOf

\* As long as some task is registered, all are.
LEMMA OneRegisteredAllRegistered ==
  ASSUME AllOrNone, NEW t \in Task, tasks[t].status # "ABSENT"
  PROVE  Registered
  BY DEF AllOrNone, Registered, FreshTask

\* The graph that is registered has no task that anybody works on.
LEMMA GraphIsFresh ==
  ASSUME NEW t \in Task
  PROVE  /\ TaskGraph[t].attempt = 0
         /\ TaskGraph[t].status = RuntimeStatus(t)
         /\ TaskGraph[t].status \notin {"ABSENT", "RUNNING", "RETRY_WAITING"}
  BY RuntimeStatusType DEF TaskGraph, FreshTask

LEMMA AllOrNoneStep ==
  ASSUME IInv, Kind
  PROVE  AllOrNone'
<1> USE DEF IInv
<1>1. CASE Nothing
  BY <1>1 DEF Nothing, AllOrNone
<1>2. CASE Register
  BY <1>2, GraphIsFresh DEF Register, AllOrNone
<1>3. CASE Revise
  BY <1>3 DEF Revise, AllOrNone
<1>4. ASSUME NEW t \in Task, NEW new, tasks[t].status # "ABSENT",
             new.status # "ABSENT", tasks' = [tasks EXCEPT ![t] = new]
      PROVE  AllOrNone'
  <2>1. Registered
    BY <1>4, OneRegisteredAllRegistered
  <2> QED
    BY <1>4, <2>1 DEF Registered, AllOrNone, TypeOK
<1>5. ASSUME NEW t \in Task, Give(t) PROVE AllOrNone'
  BY <1>4, <1>5 DEF Give, Unfinished, Lease
<1>6. ASSUME NEW t \in Task, Renew(t) PROVE AllOrNone'
  <2> PICK until \in Nat : tasks' = [tasks EXCEPT ![t].until = until]
    BY <1>6 DEF Renew
  <2>1. tasks[t] \in TaskRecord /\ tasks[t].status = "RUNNING"
    BY <1>6 DEF Renew, TypeOK
  <2> QED
    BY <1>4, <2>1 DEF TaskRecord
<1>7. ASSUME NEW t \in Task, Leave(t) PROVE AllOrNone'
  BY <1>4, <1>7 DEF Leave
<1>8. ASSUME NEW t \in Task, NEW k \in EffectKey, Begin(t, k) \/ Settle(t, k)
      PROVE  AllOrNone'
  BY <1>8 DEF Begin, Settle, AllOrNone
<1> QED
  BY <1>1, <1>2, <1>3, <1>5, <1>6, <1>7, <1>8 DEF Kind

LEMMA EffectsOfThePastStep ==
  ASSUME IInv, Kind
  PROVE  EffectsOfThePast'
<1> USE BoundAssumption DEF IInv
<1>1. CASE Revise
  BY <1>1 DEF Revise, EffectsOfThePast, TypeOK, EffectRecord
<1>2. ASSUME NEW t \in Task, NEW k \in EffectKey, Begin(t, k)
      PROVE  EffectsOfThePast'
  BY <1>2 DEF Begin, EffectsOfThePast, TypeOK
<1>3. ASSUME NEW t \in Task, NEW k \in EffectKey, Settle(t, k)
      PROVE  EffectsOfThePast'
  BY <1>3 DEF Settle, EffectsOfThePast, TypeOK, EffectRecord
<1>4. CASE UNCHANGED <<effects, epoch>>
  BY <1>4 DEF EffectsOfThePast
<1> QED
  BY <1>1, <1>2, <1>3, <1>4 DEF Kind, Nothing, Register, Give, Renew, Leave

LEMMA RunningWasClaimedStep ==
  ASSUME IInv, Kind
  PROVE  RunningWasClaimed'
<1> USE DEF IInv
<1>1. CASE UNCHANGED tasks
  BY <1>1 DEF RunningWasClaimed
<1>2. CASE Register
  BY <1>2, GraphIsFresh DEF Register, RunningWasClaimed
<1>3. CASE Revise
  BY <1>3 DEF Revise, RunningWasClaimed, FreshTask
<1>4. ASSUME NEW t \in Task, Give(t) PROVE RunningWasClaimed'
  <2>1. tasks[t].attempt \in Nat
    BY DEF TypeOK, TaskRecord
  <2> QED
    BY <1>4, <2>1 DEF Give, RunningWasClaimed, Lease, TypeOK
<1>5. ASSUME NEW t \in Task, Renew(t) PROVE RunningWasClaimed'
  <2> PICK until \in Nat : tasks' = [tasks EXCEPT ![t].until = until]
    BY <1>5 DEF Renew
  <2> QED
    BY DEF RunningWasClaimed, TypeOK, TaskRecord
<1>6. ASSUME NEW t \in Task, Leave(t) PROVE RunningWasClaimed'
  BY <1>6 DEF Leave, RunningWasClaimed, TypeOK
<1> QED
  BY <1>1, <1>2, <1>3, <1>4, <1>5, <1>6 DEF Kind, Nothing, Begin, Settle

LEMMA PinsStep ==
  ASSUME IInv, Kind
  PROVE  UnresolvedEffectPinsTask'
<1> USE BoundAssumption DEF IInv
<1> SUFFICES ASSUME NEW k \in EffectKey, effects'[k] # Unused,
                    effects'[k].epoch = epoch', InDoubt(effects'[k])
             PROVE  /\ tasks'[effects'[k].task].status = "RUNNING"
                    /\ tasks'[effects'[k].task].attempt = effects'[k].attempt
                    /\ tasks'[effects'[k].task].holder = effects'[k].holder
  BY DEF UnresolvedEffectPinsTask, InDoubt
<1> DEFINE e == effects[k]
\* What the invariant says of an effect this step leaves alone.
<1>1. ASSUME effects' = effects, epoch' = epoch
      PROVE  /\ e # Unused /\ e \in EffectRecord /\ e.task \in Task
             /\ tasks[e.task].status = "RUNNING"
             /\ tasks[e.task].attempt = e.attempt
             /\ tasks[e.task].holder = e.holder
             /\ Unresolved(e.task)
  <2>1. e # Unused /\ e.epoch = epoch /\ InDoubt(e)
    BY <1>1
  <2>2. e \in EffectRecord /\ e.task \in Task
    BY <2>1 DEF TypeOK, EffectRecord
  <2> QED
    BY <2>1, <2>2, DoubtIsUnresolved DEF UnresolvedEffectPinsTask
<1>2. CASE Nothing
  BY <1>1, <1>2 DEF Nothing
<1>3. CASE Register
  BY <1>1, <1>3, OneRegisteredAllRegistered DEF Register
<1>4. CASE Revise
  BY <1>4 DEF Revise, EffectsOfThePast, TypeOK, EffectRecord
<1>5. ASSUME NEW t \in Task, Give(t)
      PROVE  e.task # t /\ effects' = effects /\ epoch' = epoch
                /\ tasks'[e.task] = tasks[e.task]
  <2>1. effects' = effects /\ epoch' = epoch /\ e.task # t
    BY <1>1, <1>5 DEF Give
  <2> QED
    BY <1>1, <1>5, <2>1 DEF Give, TypeOK
<1>6. ASSUME NEW t \in Task, Leave(t)
      PROVE  e.task # t /\ effects' = effects /\ epoch' = epoch
                /\ tasks'[e.task] = tasks[e.task]
  <2>1. effects' = effects /\ epoch' = epoch /\ e.task # t
    BY <1>1, <1>6 DEF Leave
  <2> QED
    BY <1>1, <1>6, <2>1 DEF Leave, TypeOK
<1>7. ASSUME NEW t \in Task, Renew(t)
      PROVE  /\ effects' = effects /\ epoch' = epoch
             /\ tasks'[e.task].status = tasks[e.task].status
             /\ tasks'[e.task].attempt = tasks[e.task].attempt
             /\ tasks'[e.task].holder = tasks[e.task].holder
  <2> PICK until \in Nat : tasks' = [tasks EXCEPT ![t].until = until]
    BY <1>7 DEF Renew
  <2>1. effects' = effects /\ epoch' = epoch
    BY <1>7 DEF Renew
  <2> QED
    BY <1>1, <2>1 DEF TypeOK, TaskRecord
<1>8. ASSUME NEW t \in Task, NEW l \in EffectKey, Begin(t, l)
      PROVE  /\ tasks'[effects'[k].task].status = "RUNNING"
             /\ tasks'[effects'[k].task].attempt = effects'[k].attempt
             /\ tasks'[effects'[k].task].holder = effects'[k].holder
  <2>1. CASE l = k
    BY <1>8, <2>1 DEF Begin, TypeOK
  <2>2. CASE l # k
    BY <1>8, <2>2 DEF Begin, TypeOK, UnresolvedEffectPinsTask
  <2> QED
    BY <2>1, <2>2
<1>9. ASSUME NEW t \in Task, NEW l \in EffectKey, Settle(t, l)
      PROVE  /\ tasks'[effects'[k].task].status = "RUNNING"
             /\ tasks'[effects'[k].task].attempt = effects'[k].attempt
             /\ tasks'[effects'[k].task].holder = effects'[k].holder
  <2> PICK o \in Outcome : effects' = [effects EXCEPT ![l].status = o]
    BY <1>9 DEF Settle
  <2>1. UNCHANGED <<tasks, epoch>> /\ effects[l] # Unused /\ effects[l].status = "STARTED"
    BY <1>9 DEF Settle
  <2>2. /\ e # Unused /\ InDoubt(e) /\ e.epoch = epoch
        /\ effects'[k].task = e.task /\ effects'[k].attempt = e.attempt
        /\ effects'[k].holder = e.holder
    BY <2>1 DEF TypeOK, EffectRecord, InDoubt
  <2> QED
    BY <2>1, <2>2 DEF UnresolvedEffectPinsTask
<1> QED
  BY <1>1, <1>2, <1>3, <1>4, <1>5, <1>6, <1>7, <1>8, <1>9 DEF Kind

LEMMA DependenciesStep ==
  ASSUME IInv, Kind
  PROVE  WorkedAfterDependencies'
<1> USE PlanAssumption DEF IInv
<1>1. CASE UNCHANGED tasks
  BY <1>1 DEF WorkedAfterDependencies, Finished
<1>2. CASE Register
  BY <1>2, GraphIsFresh DEF Register, WorkedAfterDependencies
<1>3. CASE Revise
  BY <1>3 DEF Revise, WorkedAfterDependencies, FreshTask
\* A step that works on one unfinished task leaves the finished ones alone.
<1>4. ASSUME NEW t \in Task, NEW new, tasks[t].status \in Unfinished,
             tasks' = [tasks EXCEPT ![t] = new],
             \/ new.attempt = tasks[t].attempt
             \/ \A d \in DependsOn[t] : Finished(d)
      PROVE  WorkedAfterDependencies'
  <2>1. \A d \in Task : Finished(d) => Finished(d)'
    BY <1>4 DEF Finished, Unfinished, TypeOK
  <2>2. ASSUME NEW u \in Task, tasks'[u].attempt > 0
        PROVE  \A d \in DependsOn[u] : Finished(d)
    BY <1>4, <2>2 DEF WorkedAfterDependencies, TypeOK
  <2> QED
    BY <2>1, <2>2 DEF WorkedAfterDependencies
<1>5. ASSUME NEW t \in Task, Give(t) PROVE WorkedAfterDependencies'
  BY <1>4, <1>5 DEF Give
<1>6. ASSUME NEW t \in Task, Renew(t) PROVE WorkedAfterDependencies'
  <2> PICK until \in Nat : tasks' = [tasks EXCEPT ![t].until = until]
    BY <1>6 DEF Renew
  <2>1. tasks[t] \in TaskRecord /\ tasks[t].status \in Unfinished
    BY <1>6 DEF Renew, Unfinished, TypeOK
  <2> QED
    BY <1>4, <2>1 DEF TaskRecord
<1>7. ASSUME NEW t \in Task, Leave(t) PROVE WorkedAfterDependencies'
  <2> PICK new \in TaskRecord :
        tasks' = [tasks EXCEPT ![t] = new] /\ new.attempt = tasks[t].attempt
    BY <1>7 DEF Leave
  <2>1. tasks[t].status \in Unfinished
    BY <1>7 DEF Leave, Unfinished
  <2> QED
    BY <1>4, <2>1
<1> QED
  BY <1>1, <1>2, <1>3, <1>5, <1>6, <1>7 DEF Kind, Nothing, Begin, Settle

LEMMA DoneIsCleanStep ==
  ASSUME IInv, Kind
  PROVE  DoneIsClean'
<1> USE BoundAssumption DEF IInv
<1>1. CASE Nothing
  BY <1>1 DEF Nothing, DoneIsClean, EffectsOf
<1>2. CASE Register
  BY <1>2, GraphIsFresh DEF Register, DoneIsClean
<1>3. CASE Revise
  BY <1>3 DEF Revise, DoneIsClean, FreshTask
<1>4. ASSUME NEW t \in Task, NEW new, tasks' = [tasks EXCEPT ![t] = new],
             effects' = effects, new.status = "DONE" => CompletionAllowed(t)
      PROVE  DoneIsClean'
  BY <1>4 DEF DoneIsClean, EffectsOf, CompletionAllowed, TypeOK
<1>5. ASSUME NEW t \in Task, Give(t) PROVE DoneIsClean'
  BY <1>4, <1>5 DEF Give, Lease
<1>6. ASSUME NEW t \in Task, Renew(t) PROVE DoneIsClean'
  <2> PICK until \in Nat : tasks' = [tasks EXCEPT ![t].until = until]
    BY <1>6 DEF Renew
  <2>1. tasks[t] \in TaskRecord /\ tasks[t].status = "RUNNING" /\ effects' = effects
    BY <1>6 DEF Renew, TypeOK
  <2> QED
    BY <1>4, <2>1 DEF TaskRecord
<1>7. ASSUME NEW t \in Task, Leave(t) PROVE DoneIsClean'
  BY <1>4, <1>7 DEF Leave
\* An effect starts, or is settled, only while its task runs.
<1>8. ASSUME NEW t \in Task, NEW k \in EffectKey, Begin(t, k) PROVE DoneIsClean'
  <2> PICK e \in EffectRecord : effects' = [effects EXCEPT ![k] = e] /\ e.task = t
    BY <1>8 DEF Begin
  <2>1. tasks' = tasks /\ tasks[t].status = "RUNNING"
    BY <1>8 DEF Begin
  <2> QED
    BY <2>1 DEF DoneIsClean, EffectsOf, TypeOK
<1>9. ASSUME NEW t \in Task, NEW k \in EffectKey, Settle(t, k) PROVE DoneIsClean'
  <2> PICK o \in Outcome : effects' = [effects EXCEPT ![k].status = o]
    BY <1>9 DEF Settle
  <2>1. tasks' = tasks /\ tasks[t].status = "RUNNING"
        /\ effects[k] \in EffectRecord /\ effects[k].task = t
    BY <1>9 DEF Settle, TypeOK
  <2>2. effects'[k].task = t
    BY <2>1 DEF TypeOK, EffectRecord
  <2> QED
    BY <2>1, <2>2 DEF DoneIsClean, EffectsOf, TypeOK
<1> QED
  BY <1>1, <1>2, <1>3, <1>5, <1>6, <1>7, <1>8, <1>9 DEF Kind

LEMMA InductiveInit == Init => IInv
<1> SUFFICES ASSUME Init PROVE IInv
  OBVIOUS
<1>1. TypeOK
  BY TypeInvariantInit
<1>2. AllOrNone /\ RunningWasClaimed /\ WorkedAfterDependencies /\ DoneIsClean
  BY DEF Init, AllOrNone, RunningWasClaimed, WorkedAfterDependencies, DoneIsClean, FreshTask
<1>3. EffectsOfThePast /\ UnresolvedEffectPinsTask
  BY DEF Init, EffectsOfThePast, UnresolvedEffectPinsTask
<1> QED
  BY <1>1, <1>2, <1>3 DEF IInv

LEMMA InductiveStep ==
  ASSUME IInv, [Next]_vars
  PROVE  IInv'
<1>1. TypeOK'
  BY TypeInvariantStep DEF IInv
<1>2. Next => Kind
  BY Kinds DEF IInv
<1>3. UNCHANGED vars => Kind
  BY DEF vars, Kind, Nothing
<1> QED
  BY <1>1, <1>2, <1>3, AllOrNoneStep, EffectsOfThePastStep, RunningWasClaimedStep,
     PinsStep, DependenciesStep, DoneIsCleanStep DEF IInv

\* The invariant of the calls in any order, late ones included: tasks, effects and revisions agree
\* (runtime.py:606-850).
THEOREM Inductive == Spec => []IInv
  BY InductiveInit, InductiveStep, PTL DEF Spec

\* No expiry, recovery, retry, failure report, completion or rival claim gets
\* past an effect whose outcome is not known.
THEOREM EffectsArePinned == Spec => []UnresolvedEffectPinsTask
<1>1. IInv => UnresolvedEffectPinsTask
  BY DEF IInv
<1> QED
  BY <1>1, Inductive, PTL

\* Nobody works on a task before its dependencies are finished, and they stay
\* finished, for any dependency relation the planner writes, cyclic ones too.
THEOREM DependenciesComeFirst == Spec => []WorkedAfterDependencies
<1>1. IInv => WorkedAfterDependencies
  BY DEF IInv
<1> QED
  BY <1>1, Inductive, PTL

\* A completed task never has an effect behind it that did not succeed.
THEOREM CompletedIsClean == Spec => []DoneIsClean
<1>1. IInv => DoneIsClean
  BY DEF IInv
<1> QED
  BY <1>1, Inductive, PTL

-----------------------------------------------------------------------------
(* What a step may never do.                                               *)

\* A step is of some kind, in a state of the invariant.
LEMMA StepIsAKind ==
  ASSUME IInv, [Next]_vars
  PROVE  Kind
<1>1. CASE Next
  BY <1>1, Kinds DEF IInv
<1>2. CASE UNCHANGED vars
  BY <1>2 DEF vars, Kind, Nothing
<1> QED
  BY <1>1, <1>2

LEMMA LeaseStep ==
  ASSUME IInv, Kind
  PROVE  LiveLeasesKept
<1> USE DEF IInv
<1> SUFFICES ASSUME NEW t \in Task, epoch' = epoch, tasks[t].status = "RUNNING",
                    clock < tasks[t].until
             PROVE  \/ tasks'[t].status = "RUNNING"
                       /\ tasks'[t].attempt = tasks[t].attempt
                       /\ tasks'[t].holder = tasks[t].holder
                    \/ tasks'[t].status \in {"DONE", "BLOCKED", "RETRY_WAITING"}
  BY DEF LiveLeasesKept
<1>1. tasks[t] \in TaskRecord /\ clock \in Nat /\ epoch \in Nat /\ Registered
      /\ tasks[t].until \in Nat
  BY BoundAssumption, OneRegisteredAllRegistered DEF TypeOK, TaskRecord
<1>2. CASE UNCHANGED tasks
  BY <1>2
<1>3. ~Register /\ ~Revise
  BY <1>1 DEF Register, Revise
<1>4. ASSUME NEW u \in Task, Give(u) \/ Leave(u)
      PROVE  tasks'[t] = tasks[t] \/ tasks'[t].status \in {"DONE", "BLOCKED", "RETRY_WAITING"}
  <2>1. CASE u = t
    BY <1>1, <1>4, <2>1 DEF Give, Leave, TypeOK
  <2>2. CASE u # t
    BY <1>4, <2>2 DEF Give, Leave, TypeOK
  <2> QED
    BY <2>1, <2>2
<1>5. ASSUME NEW u \in Task, Renew(u)
      PROVE  /\ tasks'[t].status = "RUNNING"
             /\ tasks'[t].attempt = tasks[t].attempt
             /\ tasks'[t].holder = tasks[t].holder
  <2> PICK until \in Nat : tasks' = [tasks EXCEPT ![u].until = until]
    BY <1>5 DEF Renew
  <2> QED
    BY <1>1 DEF TypeOK, TaskRecord
<1> QED
  BY <1>2, <1>3, <1>4, <1>5 DEF Kind, Nothing, Begin, Settle

\* Only an expired lease is taken from its holder, whatever the others do.
THEOREM LeasesHold == Spec => LeaseNotStolen
<1>1. IInv /\ [Next]_vars => [LiveLeasesKept]_vars
  BY StepIsAKind, LeaseStep
<1> QED
  BY <1>1, Inductive, PTL DEF Spec, LeaseNotStolen

LEMMA LateStep ==
  ASSUME IInv, Kind
  PROVE  LateCallsRefused
<1> USE DEF IInv
<1> SUFFICES ASSUME NEW t \in Task, epoch' = epoch, tasks[t].status = "RUNNING",
                    tasks[t].until + MaxDelay <= clock
             PROVE  /\ \A k \in EffectKey :
                         (effects'[k] # Unused /\ effects'[k].task = t)
                           => effects'[k] = effects[k]
                    /\ \/ tasks'[t] = tasks[t]
                       \/ tasks'[t].status = "READY"
                       \/ tasks'[t].attempt = tasks[t].attempt + 1
  BY DEF LateCallsRefused
<1>1. tasks[t] \in TaskRecord /\ clock \in Nat /\ epoch \in Nat /\ Registered
      /\ tasks[t].until \in Nat /\ MaxDelay \in Nat
  BY BoundAssumption, OneRegisteredAllRegistered DEF TypeOK, TaskRecord
<1>2. ~Alive(t) /\ ~Register /\ ~Revise
  BY <1>1 DEF Alive, Register, Revise
<1>3. CASE Nothing
  BY <1>3 DEF Nothing
<1>4. ASSUME NEW u \in Task, Give(u) \/ Renew(u) \/ Leave(u)
      PROVE  /\ effects' = effects
             /\ \/ tasks'[t] = tasks[t]
                \/ tasks'[t].status = "READY"
                \/ tasks'[t].attempt = tasks[t].attempt + 1
  <2>1. CASE u # t
    BY <1>4, <2>1 DEF Give, Renew, Leave, TypeOK
  <2>2. CASE u = t /\ Give(u)
    BY <2>2 DEF Give, Lease, TypeOK
  <2>3. CASE u = t /\ Leave(u)
    BY <1>2, <2>3 DEF Leave, TypeOK
  <2> QED
    BY <1>2, <1>4, <2>1, <2>2, <2>3 DEF Renew
<1>5. ASSUME NEW u \in Task, NEW l \in EffectKey, Begin(u, l)
      PROVE  tasks'[t] = tasks[t]
             /\ \A k \in EffectKey :
                  (effects'[k] # Unused /\ effects'[k].task = t) => effects'[k] = effects[k]
  <2>1. u # t /\ tasks' = tasks
    BY <1>2, <1>5 DEF Begin
  <2> PICK e \in EffectRecord : effects' = [effects EXCEPT ![l] = e] /\ e.task = u
    BY <1>5 DEF Begin
  <2> QED
    BY <2>1 DEF TypeOK
<1>6. ASSUME NEW u \in Task, NEW l \in EffectKey, Settle(u, l)
      PROVE  tasks'[t] = tasks[t]
             /\ \A k \in EffectKey :
                  (effects'[k] # Unused /\ effects'[k].task = t) => effects'[k] = effects[k]
  <2>1. u # t /\ tasks' = tasks /\ effects[l] \in EffectRecord /\ effects[l].task = u
    BY <1>2, <1>6 DEF Settle, TypeOK
  <2> PICK o \in Outcome : effects' = [effects EXCEPT ![l].status = o]
    BY <1>6 DEF Settle
  <2>2. effects'[l].task = u
    BY <2>1 DEF TypeOK, EffectRecord
  <2> QED
    BY <2>1, <2>2 DEF TypeOK
<1> QED
  BY <1>2, <1>3, <1>4, <1>5, <1>6 DEF Kind

\* A worker that comes back after its lease ran out changes nothing any more.
THEOREM LateWorkersAreHarmless == Spec => LateWorkerHasNoEffect
<1>1. IInv /\ [Next]_vars => [LateCallsRefused]_vars
  BY StepIsAKind, LateStep
<1> QED
  BY <1>1, Inductive, PTL DEF Spec, LateWorkerHasNoEffect

LEMMA FinishedStep ==
  ASSUME IInv, Kind
  PROVE  WorkNotReopened
<1> USE DEF IInv
<1> SUFFICES ASSUME NEW t \in Task, epoch' = epoch, Registered
             PROVE  /\ tasks[t].status \in {"DONE", "SKIPPED", "BLOCKED"}
                         => tasks'[t] = tasks[t]
                    /\ tasks[t].attempt <= tasks'[t].attempt
  BY DEF WorkNotReopened
<1>1. tasks[t] \in TaskRecord /\ tasks[t].attempt \in Nat /\ epoch \in Nat
  BY DEF TypeOK, TaskRecord
<1>2. CASE UNCHANGED tasks
  BY <1>1, <1>2
<1>3. ~Register /\ ~Revise
  BY <1>1 DEF Register, Revise
<1>4. ASSUME NEW u \in Task, Give(u) \/ Leave(u)
      PROVE  /\ tasks[t].status \in {"DONE", "SKIPPED", "BLOCKED"} => tasks'[t] = tasks[t]
             /\ tasks[t].attempt <= tasks'[t].attempt
  <2>1. CASE u # t
    BY <1>1, <1>4, <2>1 DEF Give, Leave, TypeOK
  <2>2. CASE u = t /\ Give(u)
    BY <1>1, <2>2 DEF Give, Lease, Unfinished, TypeOK
  <2>3. CASE u = t /\ Leave(u)
    BY <1>1, <2>3 DEF Leave, TypeOK
  <2> QED
    BY <1>4, <2>1, <2>2, <2>3
<1>5. ASSUME NEW u \in Task, Renew(u)
      PROVE  /\ tasks[t].status \in {"DONE", "SKIPPED", "BLOCKED"} => tasks'[t] = tasks[t]
             /\ tasks[t].attempt <= tasks'[t].attempt
  <2> PICK until \in Nat : tasks' = [tasks EXCEPT ![u].until = until]
    BY <1>5 DEF Renew
  <2>1. tasks[u].status = "RUNNING"
    BY <1>5 DEF Renew
  <2> QED
    BY <1>1, <2>1 DEF TypeOK, TaskRecord
<1> QED
  BY <1>2, <1>3, <1>4, <1>5 DEF Kind, Nothing, Begin, Settle

\* Finished work is not reopened and the retry budget is never refilled,
\* except by a new plan revision.
THEOREM FinishedForGood == Spec => FinishedStaysFinished
<1>1. IInv /\ [Next]_vars => [WorkNotReopened]_vars
  BY StepIsAKind, FinishedStep
<1> QED
  BY <1>1, Inductive, PTL DEF Spec, FinishedStaysFinished

LEMMA OutcomeStep ==
  ASSUME IInv, Kind
  PROVE  OutcomesKept
<1> USE BoundAssumption DEF IInv
<1> SUFFICES ASSUME NEW k \in EffectKey, effects[k] # Unused
             PROVE  /\ effects'[k] # Unused
                    /\ effects'[k] = [effects[k] EXCEPT !.status = effects'[k].status]
                    /\ effects[k].status # "STARTED" => effects'[k] = effects[k]
                    /\ (effects'[k] # effects[k] /\ effects[k].epoch = epoch) =>
                         /\ tasks[effects[k].task].attempt = effects[k].attempt
                         /\ tasks[effects[k].task].holder = effects[k].holder
  BY DEF OutcomesKept
<1>1. effects[k] \in EffectRecord
  BY DEF TypeOK
<1>2. effects[k] = [effects[k] EXCEPT !.status = effects[k].status]
  BY <1>1 DEF EffectRecord
<1>3. CASE effects'[k] = effects[k]
  BY <1>2, <1>3
<1>4. ASSUME NEW t \in Task, NEW l \in EffectKey, Begin(t, l)
      PROVE  effects'[k] = effects[k]
  BY <1>4 DEF Begin, TypeOK
<1>5. ASSUME NEW t \in Task, NEW l \in EffectKey, Settle(t, l), l # k
      PROVE  effects'[k] = effects[k]
  BY <1>5 DEF Settle, TypeOK
<1>6. ASSUME NEW t \in Task, Settle(t, k)
      PROVE  /\ effects'[k] # Unused
             /\ effects'[k] = [effects[k] EXCEPT !.status = effects'[k].status]
             /\ effects[k].status = "STARTED"
             /\ effects[k].epoch = epoch =>
                  /\ tasks[effects[k].task].attempt = effects[k].attempt
                  /\ tasks[effects[k].task].holder = effects[k].holder
  <2> PICK o \in Outcome : effects' = [effects EXCEPT ![k].status = o]
    BY <1>6 DEF Settle
  <2>1. effects'[k] = [effects[k] EXCEPT !.status = o]
    BY DEF TypeOK
  <2>2. effects'[k] \in EffectRecord /\ effects'[k].status = o
    BY <1>1, <2>1 DEF EffectRecord
  <2>3. effects[k].status = "STARTED"
    BY <1>6 DEF Settle
  <2> QED
    BY <2>1, <2>2, <2>3 DEF UnresolvedEffectPinsTask, InDoubt
<1> QED
  BY <1>3, <1>4, <1>5, <1>6 DEF Kind, Nothing, Register, Revise, Give, Renew, Leave

\* The outcome of an effect is reported once, by the attempt and the holder
\* that started it, and nothing else about the effect ever changes.
THEOREM OutcomesAreFinal == Spec => OutcomeIsFinal
<1>1. IInv /\ [Next]_vars => [OutcomesKept]_vars
  BY StepIsAKind, OutcomeStep
<1> QED
  BY <1>1, Inductive, PTL DEF Spec, OutcomeIsFinal

-----------------------------------------------------------------------------
(* Approvals.                                                              *)

\* Only start_effect makes an effect, and it does so for one key.
LEMMA OnlyStartsMakeEffects ==
  ASSUME IInv, [Next]_vars, NEW k \in EffectKey, effects[k] = Unused, effects'[k] # Unused
  PROVE  \E h \in Holder, t \in Task, now \in Sampled, g \in Target : StartEffect(h, t, now, k, g)
<1> USE DEF IInv, TypeOK
<1>1. CASE UNCHANGED effects
  BY <1>1
<1>2. ASSUME NEW h \in Holder, NEW t \in Task, NEW now \in Sampled, NEW l \in EffectKey,
             NEW g \in Target, StartEffect(h, t, now, l, g)
      PROVE  l = k
  BY <1>2 DEF StartEffect
<1>3. ASSUME NEW h \in Holder, NEW t \in Task, NEW now \in Sampled, NEW l \in EffectKey,
             NEW o \in Outcome, CompleteEffect(h, t, now, l, o)
      PROVE  FALSE
  BY <1>3 DEF CompleteEffect, EffectsOf
<1>4. ASSUME NEW h \in Holder, WorkerStep(h)
      PROVE  \/ UNCHANGED effects
             \/ \E t \in Task, now \in Sampled, l \in EffectKey :
                  \/ \E g \in Target : StartEffect(h, t, now, l, g)
                  \/ \E o \in Outcome : CompleteEffect(h, t, now, l, o)
  BY <1>4 DEF WorkerStep, ClaimNext, ClaimTask, ClaimReady, ClaimExpired, Heartbeat, RetryTask,
              FailTask, CompleteTask
<1>5. \/ UNCHANGED effects \/ \E h \in Holder : WorkerStep(h)
  BY DEF Next, vars, Tick, InitializeTaskGraph, AcceptHandoffRevision, RecoverExpiredLease,
         RecordApproval
<1> QED
  BY <1>1, <1>2, <1>3, <1>4, <1>5

\* The approval that opens a requirement is cited, and is the newest of its id.
LEMMA OpenRequirementIsCited ==
  ASSUME NEW t \in Task, NEW r \in Requires[t], NEW now, ApprovedAt(r, now)
  PROVE  \E a \in approvals :
           /\ a.id \in ApprovalIds(t)
           /\ a.target = r /\ a.decision = "APPROVED" /\ a.exactHash
           /\ a.issued <= now /\ now < a.expires
           /\ \A b \in approvals : b.id = a.id => b.revision <= a.revision
<1>1. PICK a \in Chosen(r) : a.issued <= now /\ now < a.expires
  BY DEF ApprovedAt
<1>2. a.id \in ApprovalIds(t)
  BY DEF ApprovalIds
<1> QED
  BY <1>1, <1>2 DEF Chosen, Matching, Candidates, LatestApprovals

\* An effect starts only under approvals that are valid at that moment: each
\* requirement of its task is met by a cited approval, the newest of its id,
\* for this very target and inside its window.
THEOREM EffectsStartApproved == Spec => EffectStartsApproved
<1>1. ASSUME IInv, [Next]_vars, NEW k \in EffectKey, effects[k] = Unused, effects'[k] # Unused
      PROVE  LET e == effects'[k] IN
             /\ e.task \in HumanRequired => e.approvals # {}
             /\ \A r \in Requires[e.task] :
                  /\ e.target = r
                  /\ \E a \in approvals :
                       /\ a.id \in e.approvals
                       /\ a.target = r /\ a.decision = "APPROVED" /\ a.exactHash
                       /\ a.issued <= e.startedAt /\ e.startedAt < a.expires
                       /\ \A b \in approvals : b.id = a.id => b.revision <= a.revision
  <2> PICK h \in Holder, t \in Task, now \in Sampled, g \in Target : StartEffect(h, t, now, k, g)
    BY <1>1, OnlyStartsMakeEffects
  <2>1. effects'[k] = [task |-> t, attempt |-> tasks[t].attempt, holder |-> h, epoch |-> epoch,
                       target |-> g, approvals |-> ApprovalIds(t), startedAt |-> now,
                       status |-> "STARTED"]
    BY <1>1 DEF StartEffect, IInv, TypeOK
  <2>2. /\ t \in HumanRequired => ApprovalIds(t) # {}
        /\ \A r \in Requires[t] : r = g /\ ApprovedAt(r, now)
    BY DEF StartEffect
  <2> QED
    BY <2>1, <2>2, OpenRequirementIsCited
<1>2. IInv /\ [Next]_vars =>
        [\A k \in EffectKey :
           (effects[k] = Unused /\ effects'[k] # Unused) =>
             LET e == effects'[k] IN
             /\ e.task \in HumanRequired => e.approvals # {}
             /\ \A r \in Requires[e.task] :
                  /\ e.target = r
                  /\ \E a \in approvals :
                       /\ a.id \in e.approvals
                       /\ a.target = r /\ a.decision = "APPROVED" /\ a.exactHash
                       /\ a.issued <= e.startedAt /\ e.startedAt < a.expires
                       /\ \A b \in approvals : b.id = a.id => b.revision <= a.revision]_vars
  BY <1>1
<1> QED
  BY <1>2, Inductive, PTL DEF Spec, EffectStartsApproved

-----------------------------------------------------------------------------
(* The task runtime implements ExclusiveExecution: each kind of step is a  *)
(* step of the abstract specification or a stutter.                        *)

\* The refinement mapping of TaskRuntime, by name.
Owner    == [t \in Task |-> IF tasks[t].status = "RUNNING" THEN tasks[t].attempt ELSE 0]
Attempts == [t \in Task |-> tasks[t].attempt]
Closed   == {t \in Task : tasks[t].status \in {"DONE", "SKIPPED", "BLOCKED"}}
Effect   == [k \in EffectKey |-> IF effects[k] = Unused THEN Unused ELSE PictureOf(effects[k])]

\* The abstract state depends on the tasks, the effects and the epoch only.
LEMMA NothingRefines ==
  ASSUME Nothing
  PROVE  UNCHANGED Exclusive!vars
  BY DEF Nothing, Exclusive!vars

LEMMA RegisterRefines ==
  ASSUME IInv, Register
  PROVE  Exclusive!Next
<1> DEFINE done == {t \in Task : RuntimeStatus(t) \in {"DONE", "SKIPPED", "BLOCKED"}}
<1>1. \A t \in Task : tasks[t].status = "ABSENT" /\ tasks[t].attempt = 0
  BY DEF IInv, AllOrNone, Register, Registered, FreshTask
<1>2. \A t \in Task : tasks'[t] = TaskGraph[t]
  BY DEF Register
<1>3. \A t \in Task : /\ tasks'[t].status = RuntimeStatus(t) /\ tasks'[t].attempt = 0
                      /\ RuntimeStatus(t) # "RUNNING"
  BY <1>2, GraphIsFresh
<1>4. Exclusive!Plan(done)
  <2>1. Attempts' = Attempts /\ Owner' = Owner /\ \A t \in Task : Attempts[t] = 0
    BY <1>1, <1>3 DEF Attempts, Owner
  <2>2. Closed = {} /\ Closed' = done
    BY <1>1, <1>3 DEF Closed
  <2>3. UNCHANGED <<Effect, epoch>>
    BY DEF Register, Effect
  <2> QED
    BY <2>1, <2>2, <2>3 DEF Exclusive!Plan, Attempts, Owner, Closed, Effect
<1> QED
  BY <1>4 DEF Exclusive!Next

LEMMA ReviseRefines ==
  ASSUME IInv, Revise
  PROVE  Exclusive!Next
<1>1. \A t \in Task : tasks'[t] = FreshTask("ABSENT")
  BY DEF Revise
<1>2. Attempts' = [t \in Task |-> 0] /\ Owner' = [t \in Task |-> 0] /\ Closed' = {}
  BY <1>1 DEF Attempts, Owner, Closed, FreshTask
<1>3. Effect' = Effect /\ epoch' = epoch + 1
  BY DEF Revise, Effect
<1>4. Exclusive!Revise
  BY <1>2, <1>3 DEF Exclusive!Revise, Attempts, Owner, Closed, Effect
<1> QED
  BY <1>4 DEF Exclusive!Next

\* A task nobody may doubt: no effect of the current revision is in doubt.
LEMMA NoAbstractDoubt ==
  ASSUME IInv, NEW t \in Task, tasks[t].status # "RUNNING" \/ ~Unresolved(t)
  PROVE  ~Exclusive!InDoubt(t)
<1> SUFFICES ASSUME NEW k \in EffectKey, Effect[k] # Unused, Effect[k].task = t,
                    Effect[k].revision = epoch, Effect[k].doubt
             PROVE  FALSE
  BY DEF Exclusive!InDoubt, Effect
<1>1. effects[k] # Unused /\ Effect[k] = PictureOf(effects[k])
  BY DEF Effect
<1>2. effects[k].task = t /\ effects[k].epoch = epoch /\ InDoubt(effects[k])
  BY <1>1 DEF PictureOf
<1> QED
  BY <1>1, <1>2, DoubtIsUnresolved DEF IInv, UnresolvedEffectPinsTask

LEMMA GiveRefines ==
  ASSUME IInv, NEW t \in Task, Give(t)
  PROVE  Exclusive!Next
<1> PICK h \in Holder, until \in Nat : tasks' = [tasks EXCEPT ![t] = Lease(@, h, until)]
  BY DEF Give
<1>1. tasks \in [Task -> TaskRecord] /\ tasks[t].attempt \in Nat
  BY DEF IInv, TypeOK, TaskRecord
<1>2. tasks'[t].status = "RUNNING" /\ tasks'[t].attempt = tasks[t].attempt + 1
      /\ \A u \in Task \ {t} : tasks'[u] = tasks[u]
  BY <1>1 DEF Lease
<1>3. Attempts' = [Attempts EXCEPT ![t] = @ + 1]
  <2>1. Attempts'[t] = Attempts[t] + 1 /\ \A u \in Task \ {t} : Attempts'[u] = Attempts[u]
    BY <1>2 DEF Attempts
  <2> QED
    BY <2>1 DEF Attempts
<1>4. Owner' = [Owner EXCEPT ![t] = Attempts[t] + 1]
  <2>1. Owner'[t] = Attempts[t] + 1 /\ \A u \in Task \ {t} : Owner'[u] = Owner[u]
    BY <1>2 DEF Owner, Attempts
  <2> QED
    BY <2>1 DEF Owner
<1>5. Closed' = Closed /\ t \notin Closed /\ Attempts[t] < MaxAttempts
  <2>1. tasks[t].status \in Unfinished /\ tasks[t].attempt < MaxAttempts
    BY DEF Give
  <2>2. \A u \in Task : u \in Closed' <=> u \in Closed
    BY <1>2, <2>1 DEF Closed, Unfinished
  <2>3. Closed' = Closed
    BY <2>2 DEF Closed
  <2> QED
    BY <2>1, <2>3 DEF Closed, Unfinished, Attempts
<1>6. UNCHANGED <<Effect, epoch>>
  BY DEF Give, Effect
<1>7. ~Exclusive!InDoubt(t)
  BY NoAbstractDoubt DEF Give
<1>8. Exclusive!Give(t)
  BY <1>3, <1>4, <1>5, <1>6, <1>7 DEF Exclusive!Give, Attempts, Owner, Closed, Effect
<1> QED
  BY <1>8 DEF Exclusive!Next

LEMMA RenewRefines ==
  ASSUME IInv, NEW t \in Task, Renew(t)
  PROVE  UNCHANGED Exclusive!vars
<1> PICK until \in Nat : tasks' = [tasks EXCEPT ![t].until = until]
  BY DEF Renew
<1>1. \A u \in Task : tasks'[u].status = tasks[u].status
                      /\ tasks'[u].attempt = tasks[u].attempt
  BY DEF IInv, TypeOK, TaskRecord
<1>2. UNCHANGED <<effects, epoch>>
  BY DEF Renew
<1>3. Attempts' = Attempts /\ Owner' = Owner /\ Closed' = Closed
  BY <1>1 DEF Attempts, Owner, Closed
<1> QED
  BY <1>2, <1>3 DEF Exclusive!vars, Attempts, Owner, Closed

LEMMA LeaveRefines ==
  ASSUME IInv, NEW t \in Task, Leave(t)
  PROVE  Exclusive!Next
<1> PICK new \in TaskRecord :
      /\ tasks' = [tasks EXCEPT ![t] = new]
      /\ new.attempt = tasks[t].attempt
      /\ new.status \in {"READY", "RETRY_WAITING", "BLOCKED", "DONE"}
  BY DEF Leave
<1>1. tasks \in [Task -> TaskRecord] /\ tasks[t].attempt \in Nat \ {0}
      /\ tasks[t].status = "RUNNING"
  BY DEF IInv, TypeOK, TaskRecord, RunningWasClaimed, Leave
<1>2. tasks'[t] = new /\ \A u \in Task \ {t} : tasks'[u] = tasks[u]
  BY <1>1
<1>3. Attempts' = Attempts
  BY <1>2 DEF Attempts
<1>4. Owner' = [Owner EXCEPT ![t] = 0] /\ Owner[t] # 0
  BY <1>1, <1>2 DEF Owner
<1>5. UNCHANGED <<Effect, epoch>>
  BY DEF Leave, Effect
<1>6. ~Exclusive!InDoubt(t)
  BY NoAbstractDoubt DEF Leave
<1>7. CASE new.status \in {"READY", "RETRY_WAITING"}
  <2>1. Closed' = Closed
    BY <1>1, <1>2, <1>7 DEF Closed
  <2>2. Exclusive!GiveUp(t)
    BY <1>3, <1>4, <1>5, <1>6, <2>1 DEF Exclusive!GiveUp, Attempts, Owner, Closed, Effect
  <2> QED
    BY <2>2 DEF Exclusive!Next
<1>8. CASE new.status \in {"BLOCKED", "DONE"}
  <2>1. Closed' = Closed \cup {t}
    BY <1>1, <1>2, <1>8 DEF Closed
  <2>2. Exclusive!Close(t)
    BY <1>3, <1>4, <1>5, <1>6, <2>1 DEF Exclusive!Close, Attempts, Owner, Closed, Effect
  <2> QED
    BY <2>2 DEF Exclusive!Next
<1> QED
  BY <1>7, <1>8

LEMMA BeginRefines ==
  ASSUME IInv, NEW t \in Task, NEW k \in EffectKey, Begin(t, k)
  PROVE  Exclusive!Next
<1> PICK e \in EffectRecord :
      /\ effects' = [effects EXCEPT ![k] = e]
      /\ e.task = t /\ e.attempt = tasks[t].attempt /\ e.epoch = epoch
      /\ e.status = "STARTED"
  BY DEF Begin
<1>1. effects \in [EffectKey -> EffectRecord \cup {Unused}] /\ e # Unused
  BY BoundAssumption DEF IInv, TypeOK
<1>2. tasks[t].status = "RUNNING" /\ tasks[t].attempt \in Nat \ {0}
      /\ effects[k] = Unused /\ UNCHANGED <<tasks, epoch>>
  BY DEF IInv, TypeOK, TaskRecord, RunningWasClaimed, Begin
<1>3. Owner[t] = tasks[t].attempt /\ Owner[t] # 0
  BY <1>2 DEF Owner
<1>4. PictureOf(e) = [task |-> t, attempt |-> Owner[t], revision |-> epoch, doubt |-> TRUE]
  BY <1>3 DEF PictureOf, InDoubt
<1>5. Effect' = [Effect EXCEPT ![k] = PictureOf(e)]
  BY <1>1 DEF Effect
<1>6. Effect[k] = Unused /\ UNCHANGED <<Owner, Attempts, Closed, epoch>>
  BY <1>2 DEF Effect, Owner, Attempts, Closed
<1>7. Exclusive!Begin(t, k)
  BY <1>3, <1>4, <1>5, <1>6 DEF Exclusive!Begin, Attempts, Owner, Closed, Effect
<1> QED
  BY <1>7 DEF Exclusive!Next

LEMMA SettleRefines ==
  ASSUME IInv, NEW t \in Task, NEW k \in EffectKey, Settle(t, k)
  PROVE  Exclusive!Next \/ UNCHANGED Exclusive!vars
<1> PICK o \in Outcome : effects' = [effects EXCEPT ![k].status = o]
  BY DEF Settle
<1>1. /\ effects \in [EffectKey -> EffectRecord \cup {Unused}]
      /\ effects[k] \in EffectRecord /\ effects[k] # Unused
      /\ effects[k].task = t /\ effects[k].status = "STARTED"
      /\ UNCHANGED <<tasks, epoch>>
  BY DEF IInv, TypeOK, Settle
<1>2. /\ effects'[k] \in EffectRecord /\ effects'[k] # Unused
      /\ effects'[k].task = t /\ effects'[k].attempt = effects[k].attempt
      /\ effects'[k].epoch = effects[k].epoch /\ effects'[k].status = o
      /\ \A l \in EffectKey \ {k} : effects'[l] = effects[l]
  BY <1>1, BoundAssumption DEF EffectRecord
<1>3. UNCHANGED <<Owner, Attempts, Closed, epoch>>
  BY <1>1 DEF Owner, Attempts, Closed
<1>4. Effect[k] = PictureOf(effects[k]) /\ Effect'[k] = PictureOf(effects'[k])
      /\ \A l \in EffectKey \ {k} : Effect'[l] = Effect[l]
  BY <1>1, <1>2 DEF Effect, PictureOf, InDoubt
<1>5. CASE o = "UNKNOWN"
  <2>1. Effect'[k] = Effect[k]
    BY <1>1, <1>2, <1>4, <1>5 DEF PictureOf, InDoubt
  <2>2. Effect' = Effect
    BY <1>4, <2>1 DEF Effect
  <2> QED
    BY <1>3, <2>2 DEF Exclusive!vars, Owner, Attempts, Closed, Effect
<1>6. CASE o # "UNKNOWN"
  <2>1. Effect[k] = [task |-> t, attempt |-> effects[k].attempt,
                     revision |-> effects[k].epoch, doubt |-> TRUE]
    BY <1>1, <1>4 DEF PictureOf, InDoubt
  <2>2. Effect[k] # Unused
    <3>1. Effect[k] \in EffectPicture
      BY <1>1, <2>1 DEF EffectPicture, EffectRecord
    <3> QED
      BY <3>1, BoundAssumption
  <2>3. ~InDoubt(effects'[k])
    BY <1>2, <1>6 DEF InDoubt, Outcome
  <2>4. Effect'[k] = [task |-> t, attempt |-> effects[k].attempt,
                      revision |-> effects[k].epoch, doubt |-> FALSE]
    <3>1. InDoubt(effects'[k]) = FALSE
      BY <2>3 DEF InDoubt
    <3>2. PictureOf(effects'[k]) =
            [task |-> effects'[k].task, attempt |-> effects'[k].attempt,
             revision |-> effects'[k].epoch, doubt |-> FALSE]
      BY <3>1 DEF PictureOf
    <3> QED
      BY <1>2, <1>4, <3>2
  <2>5. Effect' = [Effect EXCEPT ![k].doubt = FALSE]
    <3>1. Effect'[k] = [Effect[k] EXCEPT !.doubt = FALSE]
      <4> DEFINE shown(doubt) == [task |-> t, attempt |-> effects[k].attempt,
                                  revision |-> effects[k].epoch, doubt |-> doubt]
      <4>1. \A old, new : [shown(old) EXCEPT !.doubt = new] = shown(new)
        OBVIOUS
      <4>2. Effect[k] = shown(TRUE) /\ Effect'[k] = shown(FALSE)
        BY <2>1, <2>4
      <4> HIDE DEF shown
      <4> QED
        BY <4>1, <4>2, Zenon
    <3> QED
      BY <1>4, <3>1 DEF Effect
  <2>6. Owner[t] # 0 /\ (effects[k].epoch = epoch => Owner[t] = effects[k].attempt)
    <3>1. tasks[t].status = "RUNNING" /\ tasks[t].attempt \in Nat \ {0}
      BY DEF IInv, TypeOK, TaskRecord, RunningWasClaimed, Settle
    <3>2. effects[k].epoch = epoch => tasks[t].attempt = effects[k].attempt
      BY <1>1 DEF IInv, UnresolvedEffectPinsTask, InDoubt
    <3> QED
      BY <3>1, <3>2 DEF Owner
  <2>7. Exclusive!Settle(k)
    BY <1>3, <2>1, <2>2, <2>5, <2>6 DEF Exclusive!Settle, Attempts, Owner, Closed, Effect
  <2> QED
    BY <2>7 DEF Exclusive!Next
<1> QED
  BY <1>5, <1>6

LEMMA InitRefines == Init => Exclusive!Init
<1> SUFFICES ASSUME Init PROVE Exclusive!Init
  OBVIOUS
<1>1. \A t \in Task : tasks[t].status = "ABSENT" /\ tasks[t].attempt = 0
  BY DEF Init, FreshTask
<1>2. Owner = [t \in Task |-> 0] /\ Attempts = [t \in Task |-> 0] /\ Closed = {}
  BY <1>1 DEF Owner, Attempts, Closed
<1>3. Effect = [k \in EffectKey |-> Unused] /\ epoch = 0
  BY DEF Init, Effect
<1> QED
  BY <1>2, <1>3 DEF Exclusive!Init, Owner, Attempts, Closed, Effect

LEMMA StepRefines ==
  ASSUME IInv, [Next]_vars
  PROVE  [Exclusive!Next]_(Exclusive!vars)
<1>1. Kind
  BY StepIsAKind
<1> QED
  BY <1>1, NothingRefines, RegisterRefines, ReviseRefines, GiveRefines, RenewRefines,
     LeaveRefines, BeginRefines, SettleRefines DEF Kind

\* Whatever the plan, the workers, the clock and the bounds: every run of the
\* runtime is a run of the abstract promise, in which a task has one attempt at
\* a time and an effect in doubt keeps it.
THEOREM RuntimeIsExclusive == Spec => ImplementsExclusiveExecution
  BY InitRefines, StepRefines, Inductive, PTL DEF Spec, ImplementsExclusiveExecution, Exclusive!Spec

\* Planner and runtime together do what each of them does alone, so that every
\* theorem about either holds of the composition.
THEOREM PlannedRuntimeIsBoth == PlannedSpec => Spec /\ PlannerSpec
<1>1. PlannedInit => Init /\ PlannerInit
  BY DEF PlannedInit
<1>2. [PlannedNext]_<<vars, plannerVars>> => [Next]_vars /\ [PlannerNext]_plannerVars
  BY DEF PlannedNext, Plans, Works, vars, plannerVars
<1> QED
  BY <1>1, <1>2, PTL DEF PlannedSpec, Spec, PlannerSpec
=============================================================================
