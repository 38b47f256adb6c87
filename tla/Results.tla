------------------------------ MODULE Results ------------------------------
(***************************************************************************)
(* Production result, completion report and export (tools/lib/result.py,   *)
(* build_result.py, export_result.py) over the registers they read.  A     *)
(* builder takes no lock: it reads plan and runtime state, replays both    *)
(* books, then reads the projections one file after the other, judges the  *)
(* completion target, and writes the result and then the report, each by   *)
(* rename.  Recorders, the planner, other builders and crashes come        *)
(* between any two of these.                                               *)
(*                                                                         *)
(* Abstractions.  A result is what it says of outputs, observations and    *)
(* gaps, under an id (the time of generation is an input that only adds to *)
(* its content); its hash is itself, and a REJECTED report is about no     *)
(* result that anything reads.  A gap is its source, whether it blocks,    *)
(* and its category.  What only the plan decides (scope baseline,          *)
(* measurements, budget, risks) is the set of rules a plan leaves unmet,   *)
(* and handoff, plan and risk gaps are those of the plan; the runtime      *)
(* contributes its lifecycle state and its gaps (blockers, unfinished      *)
(* tasks, failed effects); there is one acceptance test.  Rights are       *)
(* clear.                                                                  *)
(***************************************************************************)
EXTENDS Registers

CONSTANTS
  Builder,      \* concurrent invocations of build_result.py
  BuildRequest, \* result id and target state
  Runtime,      \* lifecycle states with the gaps they come with
  Test,         \* the acceptance test: its result, its evidence, what that is about
  MaxIssued,    \* bound: results written
  QualityOrder  \* the quality ids in the order of their names

\* TARGET_STATES: build_result takes no other target.
ASSUME TargetAssumption ==
  \A request \in BuildRequest : request.target \in {"COMPLETE", "COMPLETE_WITH_GAPS", "BLOCKED"}

VARIABLES
  runtime, \* 08_runtime/production-state.json and run-log.jsonl
  work,    \* where a builder is, and what it has read
  result,  \* 08_runtime/production-result.yaml
  report,  \* 08_runtime/completion-report.json
  bundle,  \* the exported bundle
  issued   \* history: the results that were written, and how long the execution log was at the replay

results == <<runtime, work, result, report, bundle, issued>>
vars    == <<registers, results>>

-----------------------------------------------------------------------------
(* What a builder makes of what it read: the records that each projection  *)
(* showed when it was read.                                                *)

Read == <<"OUTPUT", "QUALITY", "OBSERVATION", "INSTALLATION_PLAN", "INSTALLATION_RESULT">>

Shown(t) == Of(Records(SubSeq(log.execution, 1, shown[t])), t)

\* _latest_records
Latest(rs) == {r \in rs : \A o \in rs : o.id = r.id => o.revision <= r.revision}

\* Mutant: the newest revision, whatever its status.
OutputsNewest(seen) == Latest(seen.OUTPUT)

\* _output_records: the newest among the AVAILABLE revisions.
Outputs(seen) == Latest({r \in seen.OUTPUT : r.status = "AVAILABLE"})

\* _observations: the newest revision of each, when it is ACTIVE.
Observations(seen) == {o \in Latest(seen.OBSERVATION) : o.status = "ACTIVE"}

GapStatus ==
  [OUTPUT              |-> {"CANDIDATE", "REJECTED", "SUPERSEDED"},
   QUALITY             |-> {"NOT_RUN", "FAIL", "BLOCKED", "EXTERNAL_VALIDATION_REQUIRED", "SKIPPED"},
   INSTALLATION_RESULT |-> {"NOT_RUN", "FAILED", "EXTERNAL_VALIDATION_REQUIRED", "SKIPPED"},
   INSTALLATION_PLAN   |-> {"BLOCKED", "CANCELLED"}]

DefaultCategory(t) == IF t \in {"OUTPUT", "QUALITY"} THEN "MANDATORY" ELSE "SAFETY"

\* The records whose newest revision leaves something open.
Unsettled(seen) ==
  {r \in UNION {Latest(seen[t]) : t \in DOMAIN GapStatus} : r.status \in GapStatus[r.type]}

\* _gap_from_optional_record: a record that leaves something open has to say what.
Structured(r) == r.gap # None

\* _source_gap: blocking is always the record's own, the category only if it has one.
SourceGap(r) ==
  [source |-> Identity(r), blocking |-> r.gap.blocking,
   category |-> IF r.gap.category = None THEN DefaultCategory(r.type) ELSE r.gap.category]

Gaps(w) == {SourceGap(r) : r \in Unsettled(w.seen)} \cup w.plan.gaps \cup w.runtime.gaps

Content(w) ==
  [outputs |-> Outputs(w.seen), observations |-> Observations(w.seen), gaps |-> Gaps(w)]

\* quality_by_output: the last quality id about the output, at its newest revision.
QualityOf(o, seen) ==
  LET about == {q \in Latest(seen.QUALITY) : q.output = o.id}
      place(q) == CHOOSE i \in DOMAIN QualityOrder : QualityOrder[i] = q.id
  IN {q \in about : \A other \in about : place(other) <= place(q)}

InstallationSettled(w) ==
  IF w.seen.INSTALLATION_PLAN # {}
  THEN \E r \in Latest(w.seen.INSTALLATION_RESULT) : r.status = "SUCCEEDED"
  ELSE w.plan.skipsInstallation

Protected == {"SAFETY", "RIGHTS", "PRIVACY", "MANDATORY", "MAJOR", "CRITICAL"}

\* Mutant: gaps do not count against COMPLETE.
GapRulesLenient(gaps) ==
  [COMPLETE |-> TRUE,
   COMPLETE_WITH_GAPS |-> gaps # {} /\ \A g \in gaps : ~g.blocking /\ g.category \notin Protected,
   BLOCKED |-> TRUE]

GapRules(gaps) ==
  [COMPLETE |-> gaps = {},
   COMPLETE_WITH_GAPS |-> gaps # {} /\ \A g \in gaps : ~g.blocking /\ g.category \notin Protected,
   BLOCKED |-> TRUE]

\* _completion_checks: the rules that are not met.
Missing(w, target) ==
  LET outputs == Outputs(w.seen)
      rules ==
        [mandatory_deliverables_available |->
           w.plan.mandatory \subseteq {o.deliverable : o \in outputs},
         available_output_quality_verified |->
           \A o \in outputs : \E q \in QualityOf(o, w.seen) :
             q.status = "PASS" /\ q.external = "VERIFIED" /\ q.evidence # {},
         mandatory_acceptance_tests |-> Test.result = "PASS" /\ Test.evidence # {},
         installation_or_structured_skip |-> InstallationSettled(w),
         rights_privacy_publication_status_definite |-> outputs # {},
         runtime_terminal_candidate |->
           target # "BLOCKED" => w.runtime.state \in {target, "VALIDATING"},
         gap_rules |-> GapRules(Gaps(w))[target]]
  IN w.plan.unmet \cup {rule \in DOMAIN rules : ~rules[rule]}

Rejected(w, target) ==
  IF target = "BLOCKED" THEN \A g \in Gaps(w) : ~g.blocking ELSE Missing(w, target) # {}

-----------------------------------------------------------------------------
ResultsInit ==
  /\ runtime \in Runtime
  /\ work = [b \in Builder |-> Idle]
  /\ result = None /\ bundle = None
  /\ report = [id |-> None, status |-> "OPEN"]
  /\ issued = {}

Init == RegistersInit /\ ResultsInit

Stage(b, s) == work[b] # Idle /\ work[b].at = s
Move(b, w) == work' = [work EXCEPT ![b] = w]
ThisResult(b) == [id |-> work[b].request.id, content |-> work[b].content]
ThisReport(b, status, about) ==
  [id |-> work[b].request.id, target |-> work[b].request.target, about |-> about, status |-> status]

\* build_result: manifest, handoff, plan, prototype and runtime state are read first.
Begin(b, request) ==
  /\ work[b] = Idle /\ plan # None
  /\ Move(b, [at |-> "replay", request |-> request, plan |-> plan, runtime |-> runtime])
  /\ UNCHANGED <<registers, runtime, result, report, bundle, issued>>

\* Both books replay, the evidence book if anything of it is there.
ReplayBooks(b) ==
  /\ Stage(b, "replay")
  /\ Move(b, IF Replays("execution") /\ (Untouched("evidence") \/ Replays("evidence"))
             THEN [at |-> "read", request |-> work[b].request, plan |-> work[b].plan,
                   runtime |-> work[b].runtime, seen |-> <<>>, since |-> Len(log.execution)]
             ELSE Idle)
  /\ UNCHANGED <<registers, runtime, result, report, bundle, issued>>

\* The next projection, as it is now.
ReadProjection(b) ==
  LET t == Read[Cardinality(DOMAIN work[b].seen) + 1]
      seen == [u \in DOMAIN work[b].seen \cup {t} |-> IF u = t THEN Shown(t) ELSE work[b].seen[u]]
  IN
  /\ Stage(b, "read")
  /\ Move(b, [work[b] EXCEPT !.seen = seen,
                             !.at = IF Cardinality(DOMAIN seen) = Len(Read) THEN "judge" ELSE "read"])
  /\ UNCHANGED <<registers, runtime, result, report, bundle, issued>>

\* Gaps without a structure, or test evidence that does not resolve, end the call with an error.
Describable(w) ==
  /\ \A r \in Unsettled(w.seen) : Structured(r)
  /\ Test.result = "PASS" => Test.evidence # {}
  /\ Test.evidence # {} => Resolve(Test.evidence, Test.targets)

Judge(b) ==
  LET w == work[b]
      bound == /\ report.status # "OPEN" /\ report.id = w.request.id
               /\ report.target # w.request.target
  IN
  /\ Stage(b, "judge")
  /\ Move(b, IF ~Describable(w) \/ bound THEN Idle
             ELSE IF Rejected(w, w.request.target) THEN [at |-> "reject", request |-> w.request]
             ELSE [at |-> "compare", request |-> w.request, content |-> Content(w), since |-> w.since])
  /\ UNCHANGED <<registers, runtime, result, report, bundle, issued>>

\* The report says why, and the call fails.
Reject(b) ==
  /\ Stage(b, "reject")
  /\ report' = ThisReport(b, "REJECTED", None)
  /\ Move(b, Idle)
  /\ UNCHANGED <<registers, runtime, result, bundle, issued>>

\* A result of this id must be this one; a result of another id is replaced.
CompareResult(b) ==
  /\ Stage(b, "compare")
  /\ Move(b, IF result # None /\ result = ThisResult(b) THEN [work[b] EXCEPT !.at = "checkReport"]
             ELSE IF result # None /\ result.id = work[b].request.id THEN Idle
             ELSE [work[b] EXCEPT !.at = "write"])
  /\ UNCHANGED <<registers, runtime, result, report, bundle, issued>>

WriteResult(b) ==
  /\ Stage(b, "write")
  /\ Cardinality(issued) < MaxIssued
  /\ result' = ThisResult(b)
  /\ issued' = issued \cup {[result |-> ThisResult(b), target |-> work[b].request.target,
                             since |-> work[b].since]}
  /\ Move(b, [work[b] EXCEPT !.at = "checkReport"])
  /\ UNCHANGED <<registers, runtime, report, bundle>>

\* A report of this id must be this one: even a REJECTED one stays, and the call fails.
CompareReport(b) ==
  /\ Stage(b, "checkReport")
  /\ Move(b, IF report.id = work[b].request.id THEN Idle ELSE [work[b] EXCEPT !.at = "report"])
  /\ UNCHANGED <<registers, runtime, result, report, bundle, issued>>

WriteReport(b) ==
  /\ Stage(b, "report")
  /\ report' = ThisReport(b, "READY", ThisResult(b))
  /\ Move(b, Idle)
  /\ UNCHANGED <<registers, runtime, result, bundle, issued>>

BuilderDies(b) ==
  /\ work[b] # Idle
  /\ Move(b, Idle)
  /\ UNCHANGED <<registers, runtime, result, report, bundle, issued>>

\* export_result: whatever result is there; a bundle that exists is left as it is.
Export ==
  /\ result # None /\ bundle = None
  /\ bundle' = result
  /\ UNCHANGED <<registers, runtime, work, result, report, issued>>

\* The runtime goes on, in any way: Lifecycle and TaskRuntime say how.
RuntimeMoves ==
  /\ runtime' \in Runtime \ {runtime}
  /\ UNCHANGED <<registers, work, result, report, bundle, issued>>

Next ==
  \/ \E p \in Process, b \in Book : CreateLog(p, b) /\ UNCHANGED results
  \/ \E p \in Process, q \in Request : Record(p, q) /\ UNCHANGED results
  \/ \E p \in Process : AppendEvent(p) /\ UNCHANGED results
  \/ \E p \in Process : Project(p) /\ UNCHANGED results
  \/ \E p \in Process : Die(p) /\ UNCHANGED results
  \/ \E new \in Plan : WritePlan(new) /\ UNCHANGED results
  \/ \E a \in Approval : Decide(a) /\ UNCHANGED results
  \/ \E b \in Builder, request \in BuildRequest : Begin(b, request)
  \/ \E b \in Builder : \/ ReplayBooks(b) \/ ReadProjection(b) \/ Judge(b) \/ Reject(b)
                        \/ CompareResult(b) \/ WriteResult(b) \/ CompareReport(b)
                        \/ WriteReport(b) \/ BuilderDies(b)
  \/ Export
  \/ RuntimeMoves

Spec == Init /\ [][Next]_vars

-----------------------------------------------------------------------------
(* Properties.                                                             *)

\* What the execution log and the evidence log have for a result: each output that it lists was
\* recorded AVAILABLE and has a PASS that was validated outside and rests on verified evidence; nothing
\* that it leaves open blocks, and COMPLETE leaves nothing open.
Supported(content, target, since) ==
  /\ \A g \in content.gaps : target = "COMPLETE_WITH_GAPS" /\ ~g.blocking
  /\ \A o \in content.outputs :
       /\ o \in Of(Records(log.execution), "OUTPUT") /\ o.status = "AVAILABLE"
       /\ \E n \in DOMAIN log.execution :
            LET q == log.execution[n].record IN
            /\ q.type = "QUALITY" /\ q.output = o.id
            /\ q.status = "PASS" /\ q.external = "VERIFIED"
            /\ \/ Verified(q.evidence, {q.id, q.output})
               \/ ~log.execution[n].planned /\ n = since + 1

\* A result that was issued for a completed target is supported by the logs, although the builder read
\* five files one after the other while records were added (result.py:451-534).  There is one PASS that
\* may lack its evidence: the first event after the builder's replay, when its call had begun before
\* there was a plan, so that nothing it cites was looked up (execution.py:279).
CompleteMeansVerified ==
  \A i \in issued : i.target # "BLOCKED" => Supported(i.result.content, i.target, i.since)

\* A READY report vouches for a result that was issued for the target it names, and no result that
\* was refused is vouched for later: what the terminal transition compares by hash is one judgement
\* (result.py:621-648).
ReadyReportsWereJudged ==
  report.status = "READY" => \E i \in issued : i.result = report.about /\ i.target = report.target

=============================================================================
