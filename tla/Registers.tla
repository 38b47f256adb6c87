----------------------------- MODULE Registers -----------------------------
(***************************************************************************)
(* The execution and the evidence register (tools/lib/execution.py and     *)
(* evidence.py): two append-only logs, each with a lock and projections of *)
(* its own.  The execution log projects to five files, the evidence log to *)
(* one.  A record call holds the lock of its book, replays the log against *)
(* the projections, checks the record, appends one event and rewrites the  *)
(* projections one after the other.  Records of the execution book cite    *)
(* the plan, the approval register and the evidence book, which they read  *)
(* without a lock; replay checks every citation again, against what those  *)
(* say now.                                                                *)
(*                                                                         *)
(* Abstractions.  A projection is the number of events it shows: it is a   *)
(* function of that prefix of the log.  A book is called by its name.  The *)
(* hash chain, schemas, URIs and the security scan are left out, and the   *)
(* requests are valid in themselves (a PASS has its dimensions, times and  *)
(* evidence), except for what they cite.  A refused or repeated call       *)
(* leaves everything as it is and is no step.  A lock-free replay of the   *)
(* evidence book is one step: one that spans a write fails, as one that    *)
(* comes between the two writes does here.                                 *)
(***************************************************************************)
EXTENDS Integers, Sequences, FiniteSets, SequencesExt

CONSTANTS
  Process,     \* concurrent invocations of run_execution.py
  Request,     \* the record calls made: a record and its idempotency key
  Plan,        \* the plans the planner may write
  Approval,    \* approval ids of the approval register
  Accepted,    \* requirement ids of the accepted handoff
  MaxEvents,   \* bound: events of one log
  None

\* No plan is absent.  The schemas of the records: the quality ids of an output are a list, and an
\* observation names a source of one of these kinds (the prototype control is left out).
ASSUME PlanAssumption == None \notin Plan
ASSUME RequestAssumption ==
  \A q \in Request :
    /\ q.record.type = "OUTPUT" => IsFiniteSet(q.record.quality)
    /\ q.record.type = "OBSERVATION" =>
         \A s \in q.record.sources : s.kind \in {"OUTPUT", "QUALITY", "INSTALLATION", "TASK", "EVIDENCE"}

Book == {"execution", "evidence"}

\* PROJECTION_FILES, in the order of ALL_EVENT_TYPES, and the evidence register.
Projections ==
  [execution |-> <<"OUTPUT", "QUALITY", "INSTALLATION_PLAN", "INSTALLATION_RESULT", "OBSERVATION">>,
   evidence  |-> <<"EVIDENCE">>]

RecordType == Range(Projections.execution) \cup Range(Projections.evidence)
BookOf(q) == IF q.record.type = "EVIDENCE" THEN "evidence" ELSE "execution"

VARIABLES
  log,      \* the events of a book, in order
  partial,  \* does the log of a book end in an incomplete line?
  created,  \* does the log file of a book exist?
  shown,    \* how many events a projection shows, -1 when there is no file
  pc,       \* where a process is in its call
  plan,     \* 03_plan/production-plan.yaml, None before the planner ran
  approved  \* the ids approved in 07_governance/approval-register.yaml

registers == <<log, partial, created, shown, pc, plan, approved>>

-----------------------------------------------------------------------------
(* What a log says.  Records are compared by type, id and revision.        *)

Identity(r) == <<r.type, r.id, r.revision>>
Records(l) == {l[i].record : i \in DOMAIN l}
Of(rs, t) == {r \in rs : r.type = t}
Ids(rs) == {r.id : r \in rs}

\* _read_events: every line of the log ends.
Complete(b) == created[b] /\ ~partial[b]

\* The projections are there, and what the log projects to.
Projected(b) == \A i \in DOMAIN Projections[b] : shown[Projections[b][i]] = Len(log[b])

\* Nothing of the book is missing, torn or behind.
Whole(b) == Complete(b) /\ Projected(b)

\* Mutant: evidence that is registered will do.
ResolveRegistered(refs, targets) ==
  /\ refs # {} /\ Whole("evidence")
  /\ \A ref \in refs : \E e \in Records(log.evidence) :
       <<e.id, e.revision>> = ref /\ e.targets \cap targets # {}

\* resolve_evidence_refs: every reference is registered, VERIFIED, and is about one of the targets.
Resolve(refs, targets) ==
  /\ refs # {} /\ Whole("evidence")
  /\ \A ref \in refs : \E e \in Records(log.evidence) :
       /\ <<e.id, e.revision>> = ref
       /\ e.status = "VERIFIED"
       /\ e.targets \cap targets # {}

\* As above, for an observation, which accepts evidence about anything.
Registered(ref) ==
  Whole("evidence") /\ \E e \in Records(log.evidence) : <<e.id, e.revision>> = ref /\ e.status = "VERIFIED"

Planned == IF plan = None THEN [deliverables |-> {}, tasks |-> {}, requirements |-> {}] ELSE plan

\* _observation_reference_ids
Sources(kind, rs) ==
  LET identities(t) == {<<r.id, r.revision>> : r \in Of(rs, t)} IN
  CASE kind = "OUTPUT"       -> identities("OUTPUT")
    [] kind = "QUALITY"      -> identities("QUALITY")
    [] kind = "INSTALLATION" -> identities("INSTALLATION_PLAN") \cup identities("INSTALLATION_RESULT")
    [] kind = "TASK"         -> Planned.tasks \X {1}

ObservationHolds(r, rs) ==
  LET earlier == {o \in Of(rs, "OBSERVATION") : o.id = r.id /\ o.revision < r.revision} IN
  /\ r.requirements \subseteq Accepted \cup Planned.requirements
  /\ IF r.revision = 1 THEN r.supersedes = None
     ELSE /\ \E o \in earlier : o.revision = r.revision - 1
          /\ r.supersedes = <<r.id, r.revision - 1>>
  /\ \A s \in r.sources :
       IF s.kind = "EVIDENCE" THEN Registered(s.ref) ELSE s.ref \in Sources(s.kind, rs)

OutputHolds(r, rs) ==
  LET cited == {q \in Of(rs, "QUALITY") : q.id \in r.quality /\ q.output = r.id} IN
  /\ r.deliverable \in Planned.deliverables
  /\ r.tasks \subseteq Planned.tasks
  /\ r.status = "AVAILABLE" =>
       /\ r.quality # {} /\ Cardinality(cited) = Cardinality(r.quality)
       /\ \A q \in cited : q.status = "PASS"

QualityHolds(r, rs) ==
  /\ \E o \in Of(rs, "OUTPUT") : <<o.id, o.revision>> = <<r.output, r.outputRevision>>
  /\ r.status = "PASS" => Resolve(r.evidence, {r.id, r.output})

InstallationPlanHolds(r, rs) ==
  /\ r.outputs \subseteq Ids(Of(rs, "OUTPUT"))
  /\ r.status = "APPROVED" => r.approvals # {} /\ r.approvals \subseteq approved

InstallationResultHolds(r, rs) ==
  /\ r.plan \in Ids(Of(rs, "INSTALLATION_PLAN"))
  /\ r.outputs \subseteq Ids(Of(rs, "OUTPUT"))
  /\ r.status = "SUCCEEDED" => Resolve(r.evidence, {r.id, r.plan} \cup r.outputs)

\* _check_cross_references: without a plan only observations are looked at.
CrossReferenced(r, rs) ==
  /\ r.type = "OBSERVATION" => ObservationHolds(r, rs)
  /\ plan # None =>
       CASE r.type = "OUTPUT"              -> OutputHolds(r, rs)
         [] r.type = "QUALITY"             -> QualityHolds(r, rs)
         [] r.type = "INSTALLATION_PLAN"   -> InstallationPlanHolds(r, rs)
         [] r.type = "INSTALLATION_RESULT" -> InstallationResultHolds(r, rs)
         [] OTHER                          -> TRUE

\* _replay_records: a record is checked against itself and those before it.
LogHolds(b) ==
  b = "execution" =>
    \A i \in DOMAIN log[b] : CrossReferenced(log[b][i].record, Records(SubSeq(log[b], 1, i)))

\* Mutant: a log alone is replayed, not compared with what it projects to.
ReplaysLogOnly(b) == created[b] /\ LogHolds(b)

Replays(b) == Whole(b) /\ LogHolds(b)

-----------------------------------------------------------------------------
(* The calls.                                                              *)

Idle == [at |-> "idle"]

\* flock: a lock is held by a process inside its call, and by no dead one.
Locked(b) == \E p \in Process : pc[p] # Idle /\ pc[p].book = b

RegistersInit ==
  /\ log = [b \in Book |-> <<>>]
  /\ partial = [b \in Book |-> FALSE]
  /\ created = [b \in Book |-> FALSE]
  /\ shown = [t \in RecordType |-> -1]
  /\ pc = [p \in Process |-> Idle]
  /\ plan = None
  /\ approved = {}

Untouched(b) ==
  ~created[b] /\ \A i \in DOMAIN Projections[b] : shown[Projections[b][i]] = -1

\* init: nothing may be there yet.  The command makes the execution book before the evidence book.
CreateLog(p, b) ==
  /\ pc[p] = Idle /\ ~Locked(b)
  /\ Untouched(b)
  /\ b = "evidence" => Replays("execution")
  /\ created' = [created EXCEPT ![b] = TRUE]
  /\ pc' = [pc EXCEPT ![p] = [at |-> "project", book |-> b, next |-> 1]]
  /\ UNCHANGED <<log, partial, shown, plan, approved>>

\* Mutant: what the record cites is left to the replay that follows.
AdmittedUnchecked(q, l) ==
  \A i \in DOMAIN l : l[i].key # q.key /\ Identity(l[i].record) # Identity(q.record)

\* A repeated key or identity is no new record; the citations of a new one must hold already.
Admitted(q, l) ==
  /\ BookOf(q) = "execution" => CrossReferenced(q.record, Records(l))
  /\ \A i \in DOMAIN l : l[i].key # q.key /\ Identity(l[i].record) # Identity(q.record)

\* record and record_evidence, up to the append.
Record(p, q) ==
  LET b == BookOf(q) IN
  /\ pc[p] = Idle /\ ~Locked(b)
  /\ Len(log[b]) < MaxEvents
  /\ Replays(b) /\ Admitted(q, log[b])
  /\ pc' = [pc EXCEPT ![p] =
              [at |-> "append", book |-> b,
               event |-> [record |-> q.record, key |-> q.key, planned |-> plan # None]]]
  /\ UNCHANGED <<log, partial, created, shown, plan, approved>>

AppendEvent(p) ==
  /\ pc[p].at = "append"
  /\ log' = [log EXCEPT ![pc[p].book] = Append(@, pc[p].event)]
  /\ pc' = [pc EXCEPT ![p] = [at |-> "project", book |-> pc[p].book, next |-> 1]]
  /\ UNCHANGED <<partial, created, shown, plan, approved>>

\* Write the next projection; after the last one the call replays once more and returns.
Project(p) ==
  LET b == pc[p].book  files == Projections[b] IN
  /\ pc[p].at = "project"
  /\ shown' = [shown EXCEPT ![files[pc[p].next]] = Len(log[b])]
  /\ pc' = IF pc[p].next = Len(files) THEN [pc EXCEPT ![p] = Idle] ELSE [pc EXCEPT ![p].next = @ + 1]
  /\ UNCHANGED <<log, partial, created, plan, approved>>

\* The process dies: during an append, perhaps in the middle of the line.
Die(p) ==
  /\ pc[p] # Idle
  /\ \/ UNCHANGED partial
     \/ pc[p].at = "append" /\ partial' = [partial EXCEPT ![pc[p].book] = TRUE]
  /\ pc' = [pc EXCEPT ![p] = Idle]
  /\ UNCHANGED <<log, created, shown, plan, approved>>

\* build_plan.py (_write_outputs): a plan, and an approval register without approvals.
WritePlan(new) ==
  /\ new # plan
  /\ plan' = new /\ approved' = {}
  /\ UNCHANGED <<log, partial, created, shown, pc>>

\* A person decides an approval in the register, or takes a decision back.
Decide(a) ==
  /\ plan # None
  /\ approved' = IF a \in approved THEN approved \ {a} ELSE approved \cup {a}
  /\ UNCHANGED <<log, partial, created, shown, pc, plan>>

RegistersNext ==
  \/ \E p \in Process, b \in Book : CreateLog(p, b)
  \/ \E p \in Process, q \in Request : Record(p, q)
  \/ \E p \in Process : AppendEvent(p)
  \/ \E p \in Process : Project(p)
  \/ \E p \in Process : Die(p)
  \/ \E new \in Plan : WritePlan(new)
  \/ \E a \in Approval : Decide(a)

RegistersSpec == RegistersInit /\ [][RegistersNext]_registers

-----------------------------------------------------------------------------
(* Properties.                                                             *)

\* Does the evidence log hold, for each reference, a VERIFIED record about one of the targets?
Verified(refs, targets) ==
  refs # {} /\ \A ref \in refs : \E e \in Records(log.evidence) :
    <<e.id, e.revision>> = ref /\ e.status = "VERIFIED" /\ e.targets \cap targets # {}

\* What was accepted under a plan rests on verified evidence, over both logs: a PASS quality result
\* and a SUCCEEDED installation directly, an AVAILABLE output through an earlier PASS of its own,
\* whatever the evidence writers did between the check and the append (execution.py:275-345).
ClaimsAreBacked ==
  \A i \in DOMAIN log.execution :
    LET r == log.execution[i].record
        before == Records(SubSeq(log.execution, 1, i - 1))
    IN log.execution[i].planned =>
         /\ r.type = "QUALITY" /\ r.status = "PASS" => Verified(r.evidence, {r.id, r.output})
         /\ r.type = "INSTALLATION_RESULT" /\ r.status = "SUCCEEDED" =>
              Verified(r.evidence, {r.id, r.plan} \cup r.outputs)
         /\ r.type = "OUTPUT" /\ r.status = "AVAILABLE" =>
              \E q \in Of(before, "QUALITY") :
                q.status = "PASS" /\ q.output = r.id /\ Verified(q.evidence, {q.id, q.output})

\* What a record cites outside the two logs is still there.
Kept(r) ==
  /\ r.type = "OUTPUT" => r.deliverable \in Planned.deliverables /\ r.tasks \subseteq Planned.tasks
  /\ r.type = "INSTALLATION_PLAN" /\ r.status = "APPROVED" => r.approvals \subseteq approved
  /\ r.type = "OBSERVATION" =>
       /\ r.requirements \subseteq Accepted \cup Planned.requirements
       /\ \A s \in r.sources : s.kind = "TASK" => s.ref \in Planned.tasks \X {1}

\* A record that was accepted never makes its log unreadable: as long as neither book is torn and
\* the plan and the approvals still say what the records cite, the execution log replays.  (A
\* planner run or a withdrawn approval that takes a citation away does stop the whole book, and so
\* do records accepted before there was a plan; execution.py:350-370 checks the past against now.)
AcceptedStaysReadable ==
  /\ Whole("execution") /\ Whole("evidence")
  /\ \A i \in DOMAIN log.execution : log.execution[i].planned /\ Kept(log.execution[i].record)
  => LogHolds("execution")

Torn(b) == ~Whole(b) /\ ~Untouched(b) /\ ~Locked(b)

\* A book that a dead process left torn stays as it is: no call gets past its replay, no event is
\* added behind a gap and no projection is brought forward over one (execution.py:428 and
\* evidence.py:246).  No command repairs it either.
TornBooksAreLeftAlone ==
  [][\A b \in Book : Torn(b) =>
       /\ Torn(b)'
       /\ log'[b] = log[b] /\ partial'[b] = partial[b] /\ created'[b] = created[b]
       /\ \A i \in DOMAIN Projections[b] :
            shown'[Projections[b][i]] = shown[Projections[b][i]]]_registers
=============================================================================
