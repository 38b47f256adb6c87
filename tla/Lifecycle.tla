----------------------------- MODULE Lifecycle -----------------------------
(***************************************************************************)
(* The lifecycle of a production project: the transitions of               *)
(* Runtime.transition, the guards of lifecycle_guards.py, and the          *)
(* acceptance of a superseding handoff (handoff_revision.py).              *)
(*                                                                         *)
(* The log is the only source of the lifecycle state.  A transition is     *)
(* judged by the canonical records of the project and stores their hashes  *)
(* in its event.  Every later call replays the whole log: of each          *)
(* transition it compares the stored hashes with the records as they are   *)
(* now.  If all of them are equal the guard is judged again; if not, each  *)
(* stored hash must be that of the current record or of a snapshot that an *)
(* accepted handoff left under a history directory.  When neither holds    *)
(* the call is refused, and so is every later one.                         *)
(*                                                                         *)
(* Abstractions.  A hash is the content it is taken of.  The content of a  *)
(* record is reduced to what guards tell apart, under the handoff revision *)
(* it was written for.  output-versions.yaml and quality-results.yaml are  *)
(* one record; so are manifest, receipt, handoff and source bundle, which  *)
(* only a handoff revision changes.  approval-register.yaml, which only    *)
(* the planner writes, is left out.  What a guard asks of the runtime's    *)
(* own tasks, approvals and effects is fixed by the log before it, so that *)
(* replay finds what the transition found, and evidence is append-only and *)
(* immutable: a caller that lacks either just does not make the call.      *)
(* Idempotency and crashes are the subject of RuntimeLog; replay here is   *)
(* always asked of a projection that matches the log.                      *)
(***************************************************************************)
EXTENDS Naturals, FiniteSets, Sequences, SequencesExt

CONSTANTS
  ResumeState,  \* resume states that blockers name
  PlanStage, ControlStage, ReportTarget, ResultId,  \* what is written
  MaxEvents,    \* bound: lifecycle events in the log
  MaxBlocked,   \* bound: how many of them block
  MaxEpoch      \* bound: accepted handoff revisions

Active ==
  {"HANDOFF_VALIDATED", "PLANNING", "READY_FOR_PROTOTYPE", "PROTOTYPING",
   "REVIEWING", "READY_FOR_PRODUCTION", "PRODUCING", "READY_FOR_INSTALLATION",
   "INSTALLING", "VALIDATING"}
Terminal == {"COMPLETE", "COMPLETE_WITH_GAPS"}
State    == Active \cup Terminal \cup {"BLOCKED", "CANCELLED"}

Forward ==
  {<<"HANDOFF_VALIDATED", "PLANNING">>,
   <<"PLANNING", "READY_FOR_PROTOTYPE">>, <<"PLANNING", "READY_FOR_PRODUCTION">>,
   <<"READY_FOR_PROTOTYPE", "PROTOTYPING">>, <<"PROTOTYPING", "REVIEWING">>,
   <<"REVIEWING", "PLANNING">>, <<"REVIEWING", "READY_FOR_PRODUCTION">>,
   <<"READY_FOR_PRODUCTION", "PRODUCING">>,
   <<"PRODUCING", "READY_FOR_INSTALLATION">>, <<"PRODUCING", "VALIDATING">>,
   <<"READY_FOR_INSTALLATION", "INSTALLING">>, <<"INSTALLING", "VALIDATING">>,
   <<"VALIDATING", "COMPLETE">>, <<"VALIDATING", "COMPLETE_WITH_GAPS">>}

\* ALLOWED_TRANSITIONS.
Allowed ==
  Forward \cup (Active \X {"BLOCKED", "CANCELLED"})
    \cup ({"BLOCKED"} \X (Active \cup {"CANCELLED"}))
    \cup (Terminal \X {"PLANNING"})

ASSUME LifecycleAssumption ==
  /\ ResumeState \subseteq State
  /\ PlanStage \subseteq {"draft", "baselined", "skipping"}
  /\ ControlStage \subseteq {"draft", "planned", "ran", "waived", "passed", "failed"}
  /\ ReportTarget \subseteq Terminal \cup {"BLOCKED", "REJECTED"}
  /\ MaxEvents \in Nat
  /\ MaxBlocked \in Nat
  /\ MaxEpoch \in Nat

Actor == {"HUMAN", "AGENT"}

\* `of` is what a document was made from: a control names its plan, a result
\* and a report their result id, an output its version.
Doc(epoch, is, of) == [epoch |-> epoch, is |-> is, of |-> of]
Missing == Doc(0, "missing", "")

VARIABLES
  log,      \* lifecycle events of run-log.jsonl
  record,   \* the canonical records on disk
  history   \* record name -> the contents of its snapshots

vars == <<log, record, history>>

Epoch == record.handoff.epoch

StateAfter(l) == IF l = <<>> THEN "HANDOFF_VALIDATED" ELSE Last(l).to

state == StateAfter(log)

-----------------------------------------------------------------------------
(* Guards, over an event e and the records rec.                            *)

\* _check_handoff_to_planning: receipt, manifest and handoff name the same one.
HandoffToPlanning(rec) == rec.handoff.is = "accepted"

RunsTerminal(control) == control.is \in {"ran", "waived", "passed", "failed"}

PlanBaselined(plan) == plan.is \in {"baselined", "skipping"}

\* _check_prototype_plan.  Only this guard asks for the plan the control names.
PrototypePlan(rec) ==
  /\ rec.control.is \notin {"missing", "draft"}
  /\ rec.control.epoch = rec.plan.epoch /\ rec.control.of = rec.plan.is

\* _check_prototyping_start.  Runs may be terminal already.
PrototypingStart(rec) == rec.control.is \notin {"missing", "draft"}

PrototypeReview(rec) == RunsTerminal(rec.control)

ReviewToPlanning(rec) == rec.control.is = "failed"

\* _check_production_readiness: an approved PROCEED decision is enough unless
\* the project comes from a review.
ProductionReadiness(rec, requireReview) ==
  /\ PlanBaselined(rec.plan)
  /\ rec.control.is \in (IF requireReview THEN {"passed"} ELSE {"passed", "waived"})

\* _check_task_start.  That a task of the plan is eligible is up to the runtime.
TaskStart(rec) == rec.plan # Missing

ReadyForInstallation(rec) ==
  rec.outputs.is = "available" /\ rec.installation.is = "approved"

InstallationSkip(rec) == rec.plan.is = "skipping"

\* _check_installing_to_validating.  A result is one that says what happened.
InstallingToValidating(rec) == rec.results # Missing

\* _check_completion: a READY report for this target, of this very result.
Completion(to, rec) ==
  /\ rec.result.is = "built"
  /\ rec.report.of = rec.result.of
  /\ rec.report.is = to

\* _check_blocked: the blocker names where the work can go on.
BlockerNamed(e) == e.resume \in Active

\* _check_resume: the caller says where it resumes, the blocker is not asked.
ResumeNamed(e) == e.resume = e.to

\* Only people cancel and reopen.
Authority(actor) == actor = "HUMAN"

Reopen(actor, rec) ==
  /\ Authority(actor)
  /\ rec.result.is = "built"
  /\ rec.changes.is = "filed"

\* LifecycleGuardEvaluator.evaluate.
Guard(e, rec) ==
  LET On(from, to) == e.from = from /\ e.to = to IN
  /\ On("HANDOFF_VALIDATED", "PLANNING") => HandoffToPlanning(rec)
  /\ On("PLANNING", "READY_FOR_PROTOTYPE") => PrototypePlan(rec)
  /\ On("READY_FOR_PROTOTYPE", "PROTOTYPING") => PrototypingStart(rec)
  /\ On("PROTOTYPING", "REVIEWING") => PrototypeReview(rec)
  /\ On("REVIEWING", "PLANNING") => ReviewToPlanning(rec)
  /\ On("PLANNING", "READY_FOR_PRODUCTION") => ProductionReadiness(rec, FALSE)
  /\ On("REVIEWING", "READY_FOR_PRODUCTION") => ProductionReadiness(rec, TRUE)
  /\ On("READY_FOR_PRODUCTION", "PRODUCING") => TaskStart(rec)
  /\ On("PRODUCING", "READY_FOR_INSTALLATION") => ReadyForInstallation(rec)
  /\ On("PRODUCING", "VALIDATING") => InstallationSkip(rec)
  /\ On("READY_FOR_INSTALLATION", "INSTALLING") => ReadyForInstallation(rec)
  /\ On("INSTALLING", "VALIDATING") => InstallingToValidating(rec)
  /\ e.to \in Terminal => Completion(e.to, rec)
  /\ e.to = "CANCELLED" => Authority(e.actor)
  /\ e.to = "BLOCKED" => BlockerNamed(e)
  /\ e.from = "BLOCKED" /\ e.to # "CANCELLED" => ResumeNamed(e)
  /\ e.from \in Terminal => Reopen(e.actor, rec)

\* _check_transition_guard.
TransitionGuard(e, rec) == <<e.from, e.to>> \in Allowed /\ Guard(e, rec)

-----------------------------------------------------------------------------
(* Evidence and replay.                                                    *)

\* Mutant: production readiness does not pin its plan.
PathsWithoutPlan(from, to) ==
  {"handoff"}
  \cup (IF to \in {"READY_FOR_PROTOTYPE", "PROTOTYPING", "REVIEWING", "READY_FOR_PRODUCTION"}
          \/ from \in {"READY_FOR_PROTOTYPE", "PROTOTYPING", "REVIEWING"}
        THEN {"control"} ELSE {})
  \cup (IF to \in Terminal THEN {"result", "report"} ELSE {})

\* _evidence_paths.
Paths(from, to) ==
  {"handoff"}
  \cup (IF to \in {"READY_FOR_PROTOTYPE", "PROTOTYPING", "REVIEWING",
                   "READY_FOR_PRODUCTION", "PRODUCING", "VALIDATING"}
          \/ from \in {"REVIEWING", "PRODUCING", "INSTALLING"}
        THEN {"plan"} ELSE {})
  \cup (IF to \in {"READY_FOR_PROTOTYPE", "PROTOTYPING", "REVIEWING", "READY_FOR_PRODUCTION"}
          \/ from \in {"READY_FOR_PROTOTYPE", "PROTOTYPING", "REVIEWING"}
        THEN {"control"} ELSE {})
  \cup (CASE <<from, to>> = <<"PRODUCING", "READY_FOR_INSTALLATION">> -> {"outputs", "installation"}
          [] <<from, to>> = <<"READY_FOR_INSTALLATION", "INSTALLING">> -> {"installation"}
          [] <<from, to>> = <<"INSTALLING", "VALIDATING">> -> {"results"}
          [] to \in Terminal -> {"result", "report"}
          [] from \in Terminal /\ to = "PLANNING" -> {"changes", "result"}
          [] OTHER -> {})

\* A record that does not exist is not hashed, so its absence is not pinned.
Evidence(from, to, rec) ==
  [r \in {q \in Paths(from, to) : rec[q] # Missing} |-> rec[r]]

\* Mutant: a stored hash that is not found is passed over.
AnyRecorded(e, rec, hist) == TRUE

\* _verify_recorded_evidence with _historical_hashes.
Recorded(e, rec, hist) ==
  \A r \in DOMAIN e.evidence : e.evidence[r] \in {rec[r]} \cup hist[r]

Holds(e, rec, hist) ==
  IF e.type = "transition" /\ e.evidence = Evidence(e.from, e.to, rec)
  THEN TransitionGuard(e, rec) ELSE Recorded(e, rec, hist)

Replays(l, rec, hist) == \A i \in DOMAIN l : Holds(l[i], rec, hist)

Healthy == Replays(log, record, history)

-----------------------------------------------------------------------------
Init ==
  /\ log = <<>>
  /\ record = [handoff |-> Doc(1, "accepted", ""), plan |-> Missing, control |-> Missing,
               outputs |-> Missing, installation |-> Missing, results |-> Missing,
               result |-> Missing, report |-> Missing, changes |-> Missing]
  /\ history = [r \in DOMAIN record |-> {}]

\* The actor is kept where a guard asks for it, and so is the resume state.
LifecycleEvent(type, to, actor, resume, rec) ==
  [type |-> type, from |-> state, to |-> to,
   actor |-> IF to = "CANCELLED" \/ state \in Terminal THEN actor ELSE "ANY",
   resume |-> IF "BLOCKED" \in {state, to} THEN resume ELSE "",
   evidence |-> IF type = "transition" THEN Evidence(state, to, rec)
                ELSE [handoff |-> rec.handoff]]

Transition(to, actor, resume) ==
  LET e == LifecycleEvent("transition", to, actor, resume, record) IN
  /\ Len(log) < MaxEvents
  /\ to = "BLOCKED" => Len(SelectSeq(log, LAMBDA b : b.to = "BLOCKED")) < MaxBlocked
  /\ TransitionGuard(e, record)
  /\ Healthy
  /\ log' = Append(log, e)
  /\ UNCHANGED <<record, history>>

LastBlocker == Last(SelectSeq(log, LAMBDA e : e.to = "BLOCKED"))

\* The states a revision is accepted in, and what is asked there.
RevisionAllowed(actor) ==
  \/ state \in {"HANDOFF_VALIDATED", "PLANNING"}
  \/ state = "REVIEWING" /\ actor = "HUMAN"
  \/ state = "BLOCKED" /\ LastBlocker.resume = "PLANNING"
  \/ state \in Terminal /\ actor = "HUMAN" /\ record.result # Missing

\* Plan and control are built again for the new handoff, the result is removed
\* and its report opened; the execution registers stay.  build_prototype empties
\* the change requests before the revision adds its own.
Revised ==
  [record EXCEPT
     !.handoff = Doc(Epoch + 1, "accepted", ""),
     !.plan    = Doc(Epoch + 1, "draft", ""),
     !.control = Doc(Epoch + 1, "draft", "draft"),
     !.changes = Doc(Epoch + 1, "filed", ""),
     !.result  = Missing,
     !.report  = Doc(Epoch + 1, "OPEN", "")]

\* Mutant: the stages after the prototype are not snapshotted.
SnapshotOfBaselines ==
  [r \in DOMAIN record |->
     history[r] \cup (IF r \in {"outputs", "installation", "results"}
                      THEN {} ELSE {record[r]} \ {Missing})]

\* _snapshot_previous copies every stage.
Snapshot == [r \in DOMAIN record |-> history[r] \cup ({record[r]} \ {Missing})]

\* The new project is replayed before it replaces the old one.  An execution
\* that has not left HANDOFF_VALIDATED gets no event.
AcceptHandoffRevision(actor) ==
  LET logged == IF state = "HANDOFF_VALIDATED" THEN log
                ELSE Append(log, LifecycleEvent("revision", "PLANNING", actor, "", Revised))
  IN
  /\ Epoch <= MaxEpoch
  /\ Len(log) < MaxEvents
  /\ RevisionAllowed(actor)
  /\ Replays(logged, Revised, Snapshot)
  /\ log' = logged
  /\ record' = Revised
  /\ history' = Snapshot

-----------------------------------------------------------------------------
(* Who writes the records: planners, makers and the execution registers.   *)

\* Where a transition that reads the record starts.
Reader ==
  [plan         |-> State \ {"HANDOFF_VALIDATED"},
   control      |-> {"PLANNING", "READY_FOR_PROTOTYPE", "PROTOTYPING", "REVIEWING"},
   outputs      |-> {"PRODUCING", "READY_FOR_INSTALLATION"},
   installation |-> {"PRODUCING", "READY_FOR_INSTALLATION"},
   results      |-> {"INSTALLING"},
   result       |-> {"VALIDATING"},
   report       |-> {"VALIDATING"},
   changes      |-> Terminal]

\* Bound: a record is written where a transition reads it next, or once an
\* event has pinned it.  Written earlier it is of no account until then.
Needed(r) == state \in Reader[r] \/ \E i \in DOMAIN log : r \in DOMAIN log[i].evidence

Write(r, doc) ==
  Needed(r) /\ record' = [record EXCEPT ![r] = doc] /\ UNCHANGED <<log, history>>

\* Bound: documents are left alone while replay fails.  No event is taken until
\* they are restored, and restored it is as if they had not been edited.
WritePlan(stage) == Write("plan", Doc(Epoch, stage, "")) /\ Healthy

WriteControl(stage) ==
  record.plan # Missing /\ Write("control", Doc(Epoch, stage, record.plan.is)) /\ Healthy

\* The registers are append-only.  A later version of an output is a candidate
\* again until it has passed.
RecordOutput ==
  \/ record.outputs = Missing /\ Write("outputs", Doc(0, "available", "v1"))
  \/ record.outputs.is = "available" /\ record.outputs.of = "v1"
       /\ Write("outputs", Doc(0, "candidate", "v2"))
  \/ record.outputs.is = "candidate" /\ Write("outputs", Doc(0, "available", "v2"))

RecordInstallation ==
  \/ record.installation = Missing /\ Write("installation", Doc(0, "approved", ""))
  \/ record.installation # Missing /\ record.results = Missing
       /\ Write("results", Doc(0, "done", ""))

FileChangeRequest ==
  record.changes = Missing /\ Write("changes", Doc(Epoch, "filed", "")) /\ Healthy

\* build_result.  A target that is not substantiated leaves a REJECTED report,
\* beside whatever result there is.  An id that was rejected once stays so: a
\* later build writes the result and then fails on the old report.
BuildResult(id, target) ==
  /\ Needed("report")
  /\ record.plan # Missing
  /\ Healthy
  /\ \/ target = "REJECTED" /\ record' = [record EXCEPT !.report = Doc(Epoch, target, id)]
     \/ /\ target # "REJECTED" /\ record.report.of # id
        /\ record' = [record EXCEPT !.result = Doc(Epoch, "built", id),
                                    !.report = Doc(Epoch, target, id)]
     \/ /\ target # "REJECTED" /\ record.report = Doc(Epoch, "REJECTED", id)
        /\ record' = [record EXCEPT !.result = Doc(Epoch, "built", id)]
  /\ UNCHANGED <<log, history>>

Next ==
  \/ \E to \in State, actor \in Actor, resume \in ResumeState : Transition(to, actor, resume)
  \/ \E actor \in Actor : AcceptHandoffRevision(actor)
  \/ \E stage \in PlanStage : WritePlan(stage)
  \/ \E stage \in ControlStage : WriteControl(stage)
  \/ RecordOutput
  \/ RecordInstallation
  \/ FileChangeRequest
  \/ \E id \in ResultId, target \in ReportTarget : BuildResult(id, target)

Spec == Init /\ [][Next]_vars

-----------------------------------------------------------------------------
\* As long as the log can be replayed, a terminal state stands on the report
\* and the result on disk: READY for that very target, of that very result.
\* Neither a later build, accepted or rejected, nor a detour over a revision
\* leaves a project COMPLETE on something else.  (lifecycle_guards.py 359-382)
TerminalIsSubstantiated ==
  Healthy /\ state \in Terminal => Completion(state, record)

Resumed(i) == log[i].from = "BLOCKED" /\ log[i].to \in Active

\* The blocker event before event i, which the resumption i ends.
LeftBy(i) == log[i - 1].from

\* The last entry of state s, 0 if there is none.
LastEntry(s) ==
  IF \E i \in DOMAIN log : log[i].to = s
  THEN CHOOSE i \in DOMAIN log : log[i].to = s /\ \A j \in DOMAIN log : log[j].to = s => j <= i
  ELSE 0

ProductionStates ==
  {"PRODUCING", "READY_FOR_INSTALLATION", "INSTALLING", "VALIDATING"} \cup Terminal

\* Unless a resumption went somewhere else than where the work was blocked,
\* production, installation and completion stand on one plan: the one that was
\* on disk when READY_FOR_PRODUCTION was last granted, after the last return
\* to planning.  (lifecycle_guards.py 249-276, 439-460, 490-503)
ProducedAsReadied ==
  (Healthy /\ state \in ProductionStates
     /\ \A i \in DOMAIN log : Resumed(i) => log[i].to = LeftBy(i))
  => LET ready == LastEntry("READY_FOR_PRODUCTION") IN
     /\ ready > LastEntry("PLANNING")
     /\ "plan" \in DOMAIN log[ready].evidence
     /\ log[ready].evidence["plan"] = record.plan

\* Once a revision is accepted, what came before it is settled: no later edit,
\* of any record, makes replay fail on an earlier event.
\* (lifecycle_guards.py 547-583, handoff_revision.py 160-186)
PastIsSettled ==
  \A i, j \in DOMAIN log :
    i < j /\ log[j].type = "revision" => Holds(log[i], record, history)

=============================================================================
