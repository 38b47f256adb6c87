-------------------------- MODULE LifecycleProofs --------------------------
(***************************************************************************)
(* Theorems about Lifecycle, for logs of any length, any result ids, any   *)
(* number of handoff revisions and any records.                            *)
(***************************************************************************)
EXTENDS Lifecycle, TLAPS

-----------------------------------------------------------------------------
(* The inductive invariant.                                                *)

Name == {"handoff", "plan", "control", "outputs", "installation", "results", "result", "report", "changes"}

\* Records that are written for one handoff revision, and written or removed again with the next.
Revisable == {"handoff", "plan", "control", "result", "report", "changes"}

Word ==
  {"", "missing", "accepted", "available", "candidate", "approved", "done", "draft", "filed", "built", "OPEN", "v1",
   "v2"} \cup PlanStage \cup ControlStage \cup ReportTarget \cup ResultId

Document == [epoch : Nat, is : Word, of : Word]

Pins == UNION {[D -> Document] : D \in SUBSET Name}

LogEvent ==
  [type : {"transition", "revision"}, from : State, to : State, actor : Actor \cup {"ANY"},
   resume : ResumeState \cup {""}, evidence : Pins]

TypeInv ==
  /\ log \in Seq(LogEvent) /\ record \in [Name -> Document] /\ history \in [Name -> SUBSET Document]

\* A revisable record is of the current revision, its snapshots are of earlier ones.
EpochInv ==
  /\ Epoch >= 1
  /\ \A r \in Revisable : record[r] = Missing \/ record[r].epoch = Epoch
  /\ \A r \in Revisable : \A doc \in history[r] : doc.epoch < Epoch

\* Every event starts where the one before it ended, and pins the handoff and nothing that was not there.
EventInv ==
  \A i \in DOMAIN log :
    /\ log[i].from = IF i = 1 THEN "HANDOFF_VALIDATED" ELSE log[i - 1].to
    /\ "handoff" \in DOMAIN log[i].evidence
    /\ \A r \in DOMAIN log[i].evidence :
         log[i].evidence[r] # Missing /\ (r \in Revisable => log[i].evidence[r].epoch <= Epoch)

\* All that was pinned before a revision is of earlier revisions and among the snapshots.
SettledInv ==
  \A i, j \in DOMAIN log :
    i < j /\ log[j].type = "revision" =>
      /\ log[i].evidence["handoff"].epoch < Epoch
      /\ \A r \in DOMAIN log[i].evidence : log[i].evidence[r] \in history[r]

\* What the event to a terminal state pinned is of the current revision.
TerminalInv ==
  state \in Terminal =>
    /\ {"result", "report"} \subseteq DOMAIN Last(log).evidence
    /\ Last(log).evidence["result"].epoch = Epoch /\ Last(log).evidence["report"].epoch = Epoch
    /\ Last(log).evidence["result"].is = "built" /\ Last(log).evidence["report"].is = Last(log).to
    /\ Last(log).evidence["report"].of = Last(log).evidence["result"].of

Straight == \A i \in DOMAIN log : Resumed(i) => log[i].to = LeftBy(i)

\* k is the last entry of state s in log l, 0 if there is none.
Latest(l, s, k) ==
  \/ k = 0 /\ \A i \in DOMAIN l : l[i].to # s
  \/ k \in DOMAIN l /\ l[k].to = s /\ \A i \in DOMAIN l : l[i].to = s => i <= k

\* Where the work is, also while it is blocked.
Origin == IF state = "BLOCKED" THEN Last(log).from ELSE state

\* The plan of the current revision was pinned after the last return to planning.
ReadiedAt(ready, planning) ==
  /\ Latest(log, "READY_FOR_PRODUCTION", ready) /\ Latest(log, "PLANNING", planning) /\ ready > planning
  /\ "plan" \in DOMAIN log[ready].evidence /\ log[ready].evidence["plan"].epoch = Epoch
  /\ record.plan # Missing

Readied == \E ready, planning \in Nat : ReadiedAt(ready, planning)

PathInv == Straight /\ Origin \in ProductionStates \cup {"READY_FOR_PRODUCTION"} => Readied

PlanningInv == \E k \in Nat : Latest(log, "PLANNING", k)

LifeInv == TypeInv /\ EpochInv /\ EventInv /\ SettledInv /\ TerminalInv /\ PathInv /\ PlanningInv

-----------------------------------------------------------------------------
(* Documents, evidence, entries.                                           *)

LEMMA Documents ==
  /\ Missing \in Document /\ Missing.epoch = 0 /\ Missing.is = "missing"
  /\ \A e \in Nat : \A is, of \in Word : Doc(e, is, of) \in Document /\ Doc(e, is, of).epoch = e
                                         /\ Doc(e, is, of).is = is /\ Doc(e, is, of).of = of
<1>1. ASSUME NEW e \in Nat, NEW is \in Word, NEW of \in Word
      PROVE  Doc(e, is, of) \in Document /\ Doc(e, is, of).epoch = e /\ Doc(e, is, of).is = is /\ Doc(e, is, of).of = of
  BY DEF Doc, Document
<1>2. 0 \in Nat /\ "missing" \in Word /\ "" \in Word
  BY DEF Word
<1>3. Missing \in Document /\ Missing.epoch = 0 /\ Missing.is = "missing"
  BY <1>2 DEF Missing, Doc, Document
<1> QED
  BY <1>1, <1>3

LEMMA PathsAreNames ==
  ASSUME NEW from, NEW to
  PROVE  /\ Paths(from, to) \subseteq Name /\ "handoff" \in Paths(from, to)
         /\ to = "READY_FOR_PRODUCTION" => "plan" \in Paths(from, to)
         /\ to \in Terminal /\ from \in Active => {"result", "report"} \subseteq Paths(from, to)
<1>1. "handoff" \in Paths(from, to)
  BY DEF Paths
<1>2. to = "READY_FOR_PRODUCTION" => "plan" \in Paths(from, to)
  BY DEF Paths
<1>3. Paths(from, to) \subseteq Name
  BY DEF Paths, Name
<1>4. to \in Terminal /\ from \in Active => {"result", "report"} \subseteq Paths(from, to)
  BY DEF Paths, Terminal
<1> QED
  BY <1>1, <1>2, <1>3, <1>4

\* What is pinned is there, and is what is on disk.
LEMMA EvidenceIsThere ==
  ASSUME NEW from, NEW to, NEW rec \in [Name -> Document]
  PROVE  /\ Evidence(from, to, rec) \in Pins
         /\ DOMAIN Evidence(from, to, rec) = {r \in Paths(from, to) : rec[r] # Missing}
         /\ DOMAIN Evidence(from, to, rec) \subseteq Name
         /\ \A r \in DOMAIN Evidence(from, to, rec) : Evidence(from, to, rec)[r] = rec[r] /\ rec[r] # Missing
<1>1. PICK D : D = {r \in Paths(from, to) : rec[r] # Missing}
  OBVIOUS
<1>2. D \in SUBSET Name
  BY <1>1, PathsAreNames
<1>3. Evidence(from, to, rec) = [r \in D |-> rec[r]]
  BY <1>1 DEF Evidence
<1>4. [r \in D |-> rec[r]] \in [D -> Document]
  BY <1>2
<1>5. Evidence(from, to, rec) \in Pins
  BY <1>2, <1>3, <1>4 DEF Pins
<1> QED
  BY <1>1, <1>2, <1>3, <1>5

LEMMA AppendedEvent ==
  ASSUME NEW S, NEW l \in Seq(S), NEW e \in S
  PROVE  /\ Append(l, e) \in Seq(S) /\ Append(l, e) # <<>> /\ Last(Append(l, e)) = e
         /\ Len(l) \in Nat /\ DOMAIN l = 1 .. Len(l) /\ DOMAIN Append(l, e) = 1 .. (Len(l) + 1)
         /\ Append(l, e)[Len(l) + 1] = e /\ \A i \in 1 .. Len(l) : Append(l, e)[i] = l[i]
         /\ l # <<>> => Last(l) = l[Len(l)] /\ Len(l) \in DOMAIN l
BY DEF Last

LEMMA LatestAppended ==
  ASSUME NEW S, NEW l \in Seq(S), NEW e \in S, NEW s, NEW k \in Nat, Latest(l, s, k)
  PROVE  /\ e.to = s => Latest(Append(l, e), s, Len(l) + 1)
         /\ e.to # s => Latest(Append(l, e), s, k)
         /\ k <= Len(l)
<1>1. /\ Len(l) \in Nat /\ DOMAIN l = 1 .. Len(l) /\ DOMAIN Append(l, e) = 1 .. (Len(l) + 1)
      /\ Append(l, e)[Len(l) + 1] = e /\ \A i \in 1 .. Len(l) : Append(l, e)[i] = l[i]
  BY AppendedEvent
<1> QED
  BY <1>1 DEF Latest

\* LastEntry finds it.
LEMMA LastEntryIsLatest ==
  ASSUME NEW s, NEW k \in Nat, Latest(log, s, k), log \in Seq(LogEvent)
  PROVE  LastEntry(s) = k
<1>1. DOMAIN log = 1 .. Len(log) /\ Len(log) \in Nat
  OBVIOUS
<1>2. CASE k = 0
  BY <1>1, <1>2 DEF Latest, LastEntry
<1>3. CASE k # 0
  <2>1. k \in DOMAIN log /\ log[k].to = s /\ \A i \in DOMAIN log : log[i].to = s => i <= k
    BY <1>1, <1>3 DEF Latest
  <2>2. \A i \in DOMAIN log : log[i].to = s /\ (\A j \in DOMAIN log : log[j].to = s => j <= i) => i = k
    BY <1>1, <2>1
  <2>3. LastEntry(s) = CHOOSE i \in DOMAIN log : log[i].to = s /\ \A j \in DOMAIN log : log[j].to = s => j <= i
    BY <2>1 DEF LastEntry
  <2> QED
    BY <2>1, <2>2, <2>3
<1> QED
  BY <1>2, <1>3

-----------------------------------------------------------------------------
(* Writing records.                                                        *)

LEMMA WritesKeep ==
  ASSUME LifeInv, UNCHANGED <<log, history>>, record' \in [Name -> Document], record'["handoff"] = record["handoff"],
         \A r \in Revisable : record'[r] = record[r] \/ record'[r].epoch = Epoch,
         record'["plan"] = record["plan"] \/ record'["plan"] # Missing
  PROVE  LifeInv'
<1>1. Epoch' = Epoch /\ log' = log /\ history' = history /\ state' = state
  BY DEF Epoch, state
<1>2. TypeInv'
  BY <1>1 DEF LifeInv, TypeInv
<1>3. EpochInv'
  BY <1>1 DEF LifeInv, EpochInv
<1>4. EventInv' /\ SettledInv' /\ TerminalInv' /\ PlanningInv'
  BY <1>1 DEF LifeInv, EventInv, SettledInv, TerminalInv, PlanningInv
<1>5. Straight' = Straight /\ Origin' = Origin
  BY <1>1 DEF Straight, Resumed, LeftBy, Origin
<1>6. Readied => Readied'
  <2>1. record.plan # Missing => record'.plan # Missing
    OBVIOUS
  <2> QED
    BY <1>1, <2>1 DEF Readied, ReadiedAt
<1>7. PathInv'
  BY <1>5, <1>6 DEF LifeInv, PathInv
<1> QED
  BY <1>2, <1>3, <1>4, <1>7 DEF LifeInv

LEMMA RecordFacts ==
  ASSUME LifeInv
  PROVE  /\ record \in [Name -> Document] /\ DOMAIN record = Name /\ Epoch \in Nat /\ Epoch >= 1
         /\ "plan" \in Name /\ Revisable \subseteq Name /\ record["handoff"] = record.handoff
<1>1. record \in [Name -> Document] /\ Epoch >= 1
  BY DEF LifeInv, TypeInv, EpochInv
<1>2. record["handoff"] \in Document
  BY <1>1 DEF Name
<1> QED
  BY <1>1, <1>2 DEF Epoch, Document, Name, Revisable

Written(r, doc) == record' = [record EXCEPT ![r] = doc] /\ UNCHANGED <<log, history>>

LEMMA OneWriteKeeps ==
  ASSUME LifeInv, NEW r \in Name \ {"handoff"}, NEW doc \in Document, Written(r, doc),
         r \in Revisable => doc.epoch = Epoch
  PROVE  LifeInv'
<1>0. record' = [record EXCEPT ![r] = doc] /\ UNCHANGED <<log, history>>
  BY DEF Written
<1>1. record' \in [Name -> Document] /\ record'["handoff"] = record["handoff"] /\ record'[r] = doc
      /\ \A q \in Name : q # r => record'[q] = record[q]
  BY <1>0, RecordFacts DEF Name
<1>2. \A q \in Revisable : record'[q] = record[q] \/ record'[q].epoch = Epoch
  BY <1>1, RecordFacts
<1>3. record'["plan"] = record["plan"] \/ record'["plan"] # Missing
  <2>1. r = "plan" => doc # Missing
    BY RecordFacts, Documents DEF Revisable
  <2> QED
    BY <1>1, <2>1, RecordFacts
<1> QED
  BY <1>0, <1>1, <1>2, <1>3, WritesKeep

LEMMA RecordingKeeps ==
  ASSUME LifeInv,
         \/ \E stage \in PlanStage : WritePlan(stage)
         \/ \E stage \in ControlStage : WriteControl(stage)
         \/ RecordOutput \/ RecordInstallation \/ FileChangeRequest
         \/ \E id \in ResultId, target \in ReportTarget : BuildResult(id, target)
  PROVE  LifeInv'
<1>1. /\ {"plan", "control", "outputs", "installation", "results", "changes", "result", "report"} \subseteq Name \ {"handoff"}
      /\ {"outputs", "installation", "results"} \cap Revisable = {}
      /\ {"", "filed", "built", "available", "candidate", "approved", "done", "v1", "v2"} \subseteq Word
      /\ PlanStage \subseteq Word /\ ControlStage \subseteq Word /\ ReportTarget \subseteq Word /\ ResultId \subseteq Word
      /\ 0 \in Nat /\ Epoch \in Nat
  BY RecordFacts DEF Name, Revisable, Word
<1>2. ASSUME NEW r \in Name \ {"handoff"}, NEW doc \in Document, Written(r, doc),
             r \in Revisable => doc.epoch = Epoch
      PROVE  LifeInv'
  BY <1>2, OneWriteKeeps
<1>3. ASSUME NEW stage \in PlanStage, WritePlan(stage) PROVE LifeInv'
  <2>1. PICK doc : doc = Doc(Epoch, stage, "")
    OBVIOUS
  <2>3. doc \in Document /\ doc.epoch = Epoch
    BY <1>1, <2>1 DEF Doc, Document
  <2>2. Written("plan", doc)
    BY <1>3, <2>1 DEF WritePlan, Write, Written
  <2> QED
    BY <1>1, <1>2, <2>2, <2>3
<1>4. ASSUME NEW stage \in ControlStage, WriteControl(stage) PROVE LifeInv'
  <2>1. record.plan.is \in Word
    <3>1. record["plan"] \in Document
      BY RecordFacts
    <3> QED
      BY <3>1 DEF Document
  <2>2. PICK doc : doc = Doc(Epoch, stage, record.plan.is)
    OBVIOUS
  <2>4. doc \in Document /\ doc.epoch = Epoch
    BY <1>1, <2>1, <2>2 DEF Doc, Document
  <2>3. Written("control", doc)
    BY <1>4, <2>2 DEF WriteControl, Write, Written
  <2> QED
    BY <1>1, <1>2, <2>3, <2>4
<1>5. ASSUME RecordOutput PROVE LifeInv'
  <2>1. PICK is \in {"available", "candidate"}, of \in {"v1", "v2"} : Write("outputs", Doc(0, is, of))
    BY <1>5 DEF RecordOutput
  <2>2. PICK doc \in Document : doc = Doc(0, is, of)
    BY <1>1 DEF Doc, Document
  <2>3. Written("outputs", doc)
    BY <2>1, <2>2 DEF Write, Written
  <2> QED
    BY <1>1, <1>2, <2>2, <2>3
<1>6. ASSUME RecordInstallation PROVE LifeInv'
  <2>1. PICK a, d \in Document : a = Doc(0, "approved", "") /\ d = Doc(0, "done", "")
    BY <1>1 DEF Doc, Document
  <2>2. Written("installation", a) \/ Written("results", d)
    BY <1>6, <2>1 DEF RecordInstallation, Write, Written
  <2> QED
    BY <1>1, <1>2, <2>1, <2>2
<1>7. ASSUME FileChangeRequest PROVE LifeInv'
  <2>1. PICK doc : doc = Doc(Epoch, "filed", "")
    OBVIOUS
  <2>3. doc \in Document /\ doc.epoch = Epoch
    BY <1>1, <2>1 DEF Doc, Document
  <2>2. Written("changes", doc)
    BY <1>7, <2>1 DEF FileChangeRequest, Write, Written
  <2> QED
    BY <1>1, <1>2, <2>2, <2>3
<1>8. ASSUME NEW id \in ResultId, NEW target \in ReportTarget, BuildResult(id, target) PROVE LifeInv'
  <2>1. PICK result, report : result = Doc(Epoch, "built", id) /\ report = Doc(Epoch, target, id)
    OBVIOUS
  <2>2. result \in Document /\ report \in Document /\ result.epoch = Epoch /\ report.epoch = Epoch
    BY <1>1, <2>1 DEF Doc, Document
  <2>3. UNCHANGED <<log, history>>
    BY <1>8 DEF BuildResult
  <2>4. CASE record' = [record EXCEPT !.report = report]
    <3>1. Written("report", report)
      BY <2>3, <2>4 DEF Written
    <3> QED
      BY <1>1, <1>2, <2>2, <3>1
  <2>5. CASE record' = [record EXCEPT !.result = result]
    <3>1. Written("result", result)
      BY <2>3, <2>5 DEF Written
    <3> QED
      BY <1>1, <1>2, <2>2, <3>1
  <2>6. CASE record' = [record EXCEPT !.result = result, !.report = report]
    <3>1. /\ record' \in [Name -> Document] /\ record'["handoff"] = record["handoff"]
          /\ record'["result"] = result /\ record'["report"] = report
          /\ \A q \in Name : q \notin {"result", "report"} => record'[q] = record[q]
      BY <1>1, <2>2, <2>6, RecordFacts DEF Name
    <3>2. \A q \in Revisable : record'[q] = record[q] \/ record'[q].epoch = Epoch
      BY <2>2, <3>1, RecordFacts
    <3>3. record'["plan"] = record["plan"]
      BY <3>1, RecordFacts
    <3> QED
      BY <2>3, <3>1, <3>2, <3>3, WritesKeep
  <2> QED
    BY <1>8, <2>1, <2>4, <2>5, <2>6 DEF BuildResult
<1> QED
  BY <1>3, <1>4, <1>5, <1>6, <1>7, <1>8

-----------------------------------------------------------------------------
(* Transitions.                                                            *)

LEMMA StateIsAState ==
  ASSUME LifeInv
  PROVE  /\ state \in State /\ Len(log) \in Nat /\ DOMAIN log = 1 .. Len(log) /\ log \in Seq(LogEvent)
         /\ state = IF Len(log) = 0 THEN "HANDOFF_VALIDATED" ELSE log[Len(log)].to
         /\ Len(log) # 0 => Last(log) = log[Len(log)] /\ log[Len(log)] \in LogEvent
<1>1. log \in Seq(LogEvent)
  BY DEF LifeInv, TypeInv
<1>2. /\ Len(log) \in Nat /\ DOMAIN log = 1 .. Len(log) /\ (log = <<>> <=> Len(log) = 0)
      /\ Len(log) # 0 => Last(log) = log[Len(log)] /\ log[Len(log)] \in LogEvent
  BY <1>1 DEF Last
<1>3. state = IF Len(log) = 0 THEN "HANDOFF_VALIDATED" ELSE log[Len(log)].to
  BY <1>2 DEF state, StateAfter
<1>4. state \in State
  BY <1>2, <1>3 DEF LogEvent, State, Active
<1> QED
  BY <1>1, <1>2, <1>3, <1>4

\* Where a transition of the work leads, and where the work was.
LEMMA Ways ==
  ASSUME NEW from, NEW to, <<from, to>> \in Allowed
  PROVE  /\ to \in Terminal => from = "VALIDATING"
         /\ to = "BLOCKED" => from \in Active
         /\ from = "BLOCKED" => to \in Active \cup {"CANCELLED"}
         /\ to \in ProductionStates /\ from # "BLOCKED" => from \in ProductionStates \cup {"READY_FOR_PRODUCTION"}
         /\ to = "READY_FOR_PRODUCTION" /\ from # "BLOCKED" => from \in {"PLANNING", "REVIEWING"}
<1>1. \/ <<from, to>> \in Forward
      \/ from \in Active /\ to \in {"BLOCKED", "CANCELLED"}
      \/ from = "BLOCKED" /\ to \in Active \cup {"CANCELLED"}
      \/ from \in Terminal /\ to = "PLANNING"
  BY DEF Allowed
<1>2. CASE <<from, to>> \in Forward
  BY <1>2 DEF Forward, Terminal, Active, ProductionStates
<1>3. CASE from \in Active /\ to \in {"BLOCKED", "CANCELLED"}
  BY <1>3 DEF Terminal, Active, ProductionStates
<1>4. CASE from = "BLOCKED" /\ to \in Active \cup {"CANCELLED"}
  BY <1>4 DEF Terminal, Active, ProductionStates
<1>5. CASE from \in Terminal /\ to = "PLANNING"
  BY <1>5 DEF Terminal, Active, ProductionStates
<1> QED
  BY <1>1, <1>2, <1>3, <1>4, <1>5

LEMMA TransitionKeeps ==
  ASSUME LifeInv, NEW to \in State, NEW actor \in Actor, NEW resume \in ResumeState, Transition(to, actor, resume)
  PROVE  LifeInv'
<1>1. PICK e : e = LifecycleEvent("transition", to, actor, resume, record)
  OBVIOUS
<1>2. /\ TransitionGuard(e, record) /\ log' = Append(log, e) /\ UNCHANGED <<record, history>>
  BY <1>1 DEF Transition
<1>3. /\ e.type = "transition" /\ e.from = state /\ e.to = to /\ e.evidence = Evidence(state, to, record)
  BY <1>1 DEF LifecycleEvent
<1>4. e \in LogEvent
  <2>1. Evidence(state, to, record) \in Pins /\ state \in State
    BY EvidenceIsThere, RecordFacts, StateIsAState
  <2> QED
    BY <1>1, <2>1 DEF LifecycleEvent, LogEvent
<1>5. PICK n : n = Len(log)
  OBVIOUS
<1>6. /\ n \in Nat /\ DOMAIN log = 1 .. n /\ DOMAIN log' = 1 .. (n + 1) /\ log'[n + 1] = e /\ log' # <<>>
      /\ Last(log') = e /\ log' \in Seq(LogEvent) /\ \A i \in 1 .. n : log'[i] = log[i]
  BY <1>2, <1>4, <1>5, StateIsAState, AppendedEvent
<1>7. state' = to /\ Epoch' = Epoch /\ record' = record /\ history' = history
  BY <1>2, <1>3, <1>6 DEF state, StateAfter, Epoch
<1>8. <<state, to>> \in Allowed /\ Guard(e, record)
  BY <1>2, <1>3 DEF TransitionGuard
<1>9. TypeInv' /\ EpochInv'
  BY <1>6, <1>7 DEF LifeInv, TypeInv, EpochInv
<1>10. PICK D : D = DOMAIN e.evidence
  OBVIOUS
<1>11. /\ D = {r \in Paths(state, to) : record[r] # Missing} /\ D \subseteq Name
       /\ \A r \in D : e.evidence[r] = record[r] /\ record[r] # Missing /\ (r \in Revisable => record[r].epoch = Epoch)
  <2>1. /\ D = {r \in Paths(state, to) : record[r] # Missing} /\ D \subseteq Name
        /\ \A r \in D : e.evidence[r] = record[r] /\ record[r] # Missing
    <3>1. e.evidence = Evidence(state, to, record) /\ D = DOMAIN Evidence(state, to, record)
      BY <1>3, <1>10
    <3>2. record \in [Name -> Document]
      BY RecordFacts
    <3>3. D = {r \in Paths(state, to) : record[r] # Missing}
      BY <3>1, <3>2, EvidenceIsThere
    <3>4. D \subseteq Name
      BY <3>1, <3>2, EvidenceIsThere
    <3>5. ASSUME NEW r \in D PROVE e.evidence[r] = record[r] /\ record[r] # Missing
      <4>1. e.evidence = [q \in D |-> record[q]]
        BY <3>1, <3>3 DEF Evidence
      <4> QED
        BY <3>3, <4>1
    <3> QED
      BY <3>3, <3>4, <3>5
  <2> QED
    BY <2>1 DEF LifeInv, EpochInv
<1>12. EventInv'
  <2>1. record["handoff"] # Missing /\ "handoff" \in D
    <3>1. record["handoff"] # Missing
      BY RecordFacts, Documents DEF Epoch
    <3> QED
      BY <1>11, <3>1, PathsAreNames
  <2>2. \A i \in 1 .. n : i - 1 \in 1 .. n \/ i = 1
    BY <1>6
  <2>3. ASSUME NEW i \in 1 .. n
        PROVE  /\ log'[i].from = IF i = 1 THEN "HANDOFF_VALIDATED" ELSE log'[i - 1].to
               /\ "handoff" \in DOMAIN log'[i].evidence
               /\ \A r \in DOMAIN log'[i].evidence :
                    log'[i].evidence[r] # Missing /\ (r \in Revisable => log'[i].evidence[r].epoch <= Epoch')
    BY <1>6, <1>7, <2>2 DEF LifeInv, EventInv
  <2>4. e.from = IF n + 1 = 1 THEN "HANDOFF_VALIDATED" ELSE log'[n].to
    BY <1>3, <1>5, <1>6, StateIsAState
  <2>5. \A r \in DOMAIN e.evidence : e.evidence[r] # Missing /\ (r \in Revisable => e.evidence[r].epoch <= Epoch')
    BY <1>7, <1>10, <1>11, RecordFacts
  <2>6. \A i \in DOMAIN log' : i \in 1 .. n \/ i = n + 1
    BY <1>6
  <2>7. (n + 1) - 1 = n
    BY <1>6
  <2> QED
    BY <1>6, <1>10, <2>1, <2>3, <2>4, <2>5, <2>6, <2>7 DEF EventInv
<1>13. SettledInv'
  <2>1. \A i, j \in DOMAIN log' : i < j /\ log'[j].type = "revision" => i \in 1 .. n /\ j \in 1 .. n
    BY <1>3, <1>6
  <2> QED
    BY <1>6, <1>7, <2>1 DEF LifeInv, SettledInv
<1>14. TerminalInv'
  <2>1. SUFFICES ASSUME to \in Terminal PROVE TerminalInv'
    BY <1>7 DEF TerminalInv
  <2>2. Completion(to, record) /\ state \in Active
    BY <1>3, <1>8, <2>1, Ways DEF Guard, Active
  <2>3. /\ record["result"].is = "built" /\ record["report"].is = to /\ record["report"].of = record["result"].of
        /\ record["result"] # Missing /\ record["report"] # Missing
    BY <2>1, <2>2, Documents DEF Completion, Terminal
  <2>4. "result" \in D /\ "report" \in D /\ {"result", "report"} \subseteq Revisable
    BY <1>11, <2>1, <2>2, <2>3, PathsAreNames DEF Revisable
  <2> QED
    BY <1>3, <1>6, <1>7, <1>10, <1>11, <2>3, <2>4 DEF TerminalInv
<1>15. PlanningInv'
  <2>1. PICK k \in Nat : Latest(log, "PLANNING", k)
    BY DEF LifeInv, PlanningInv
  <2>2. Latest(log', "PLANNING", n + 1) \/ Latest(log', "PLANNING", k)
    BY <1>2, <1>4, <1>5, <2>1, StateIsAState, LatestAppended
  <2> QED
    BY <1>6, <2>2 DEF PlanningInv
<1>16. PathInv'
  <2> SUFFICES ASSUME Straight', Origin' \in ProductionStates \cup {"READY_FOR_PRODUCTION"} PROVE Readied'
    BY DEF PathInv
  <2>1. Straight
    <3>1. ASSUME NEW i \in DOMAIN log, Resumed(i) PROVE log[i].to = LeftBy(i)
      <4>1. i # 1
        BY <3>1 DEF LifeInv, EventInv, Resumed
      <4>2. i - 1 \in 1 .. n /\ i \in 1 .. n /\ i \in DOMAIN log'
        BY <1>6, <4>1
      <4>3. log'[i] = log[i] /\ log'[i - 1] = log[i - 1]
        BY <1>6, <4>2
      <4> QED
        BY <3>1, <4>2, <4>3 DEF Straight, Resumed, LeftBy
    <3> QED
      BY <3>1 DEF Straight
  <2>2. state = "BLOCKED" /\ to \in Active => to = Origin
    <3>1. SUFFICES ASSUME state = "BLOCKED", to \in Active PROVE to = Origin
      OBVIOUS
    <3>2. n \in 1 .. n /\ n + 1 \in DOMAIN log' /\ (n + 1) - 1 = n /\ Last(log) = log[n]
      BY <1>5, <1>6, <3>1, StateIsAState
    <3>3. log'[n + 1].to = log'[n].from
      BY <1>3, <1>6, <3>1, <3>2 DEF Straight, Resumed, LeftBy
    <3> QED
      BY <1>3, <1>6, <3>1, <3>2, <3>3 DEF Origin
  <2>3. Origin' = IF to = "BLOCKED" THEN state ELSE to
    BY <1>3, <1>6, <1>7 DEF Origin
  <2>4. \/ to = "READY_FOR_PRODUCTION"
        \/ /\ Origin \in ProductionStates \cup {"READY_FOR_PRODUCTION"}
           /\ to \notin {"PLANNING", "READY_FOR_PRODUCTION"}
    <3>1. CASE to = "BLOCKED"
      BY <1>8, <2>3, <3>1, Ways DEF Origin, Active
    <3>2. CASE to # "BLOCKED" /\ state = "BLOCKED"
      <4>1. to \in Active
        BY <1>8, <2>3, <3>2, Ways DEF ProductionStates, Terminal, Active
      <4> QED
        BY <2>2, <2>3, <3>2, <4>1 DEF ProductionStates, Terminal
    <3>3. CASE to # "BLOCKED" /\ state # "BLOCKED"
      BY <1>8, <2>3, <3>3, Ways DEF Origin, ProductionStates, Terminal
    <3> QED
      BY <3>1, <3>2, <3>3
  <2>5. Origin \in ProductionStates \cup {"READY_FOR_PRODUCTION"} => \E ready, planning \in Nat : ReadiedAt(ready, planning)
    BY <2>1 DEF LifeInv, PathInv, Readied
  <2>6. CASE to = "READY_FOR_PRODUCTION"
    <3>1. record["plan"] # Missing
      <4>1. CASE state = "BLOCKED"
        BY <2>2, <2>5, <2>6, <4>1 DEF Active, ReadiedAt
      <4>2. CASE state # "BLOCKED"
        <5>1. PlanBaselined(record.plan)
          BY <1>3, <1>8, <2>6, <4>2, Ways DEF Guard, ProductionReadiness
        <5> QED
          BY <5>1, Documents DEF PlanBaselined
      <4> QED
        BY <4>1, <4>2
    <3>2. "plan" \in D /\ "plan" \in Revisable
      BY <1>11, <2>6, <3>1, PathsAreNames DEF Revisable
    <3>3. "plan" \in DOMAIN e.evidence /\ e.evidence["plan"].epoch = Epoch
      BY <1>10, <1>11, <3>2
    <3>4. PICK k \in Nat : Latest(log, "PLANNING", k)
      BY DEF LifeInv, PlanningInv
    <3>5. Latest(log', "PLANNING", k) /\ k <= n
      BY <1>2, <1>3, <1>4, <1>5, <2>6, <3>4, StateIsAState, LatestAppended
    <3>6. Latest(log', "READY_FOR_PRODUCTION", n + 1)
      BY <1>3, <1>6, <2>6 DEF Latest
    <3>7. ReadiedAt(n + 1, k)'
      BY <1>6, <1>7, <3>1, <3>3, <3>5, <3>6 DEF ReadiedAt
    <3> QED
      BY <1>6, <3>7 DEF Readied
  <2>7. CASE /\ Origin \in ProductionStates \cup {"READY_FOR_PRODUCTION"}
             /\ to \notin {"PLANNING", "READY_FOR_PRODUCTION"}
    <3>1. PICK ready, planning \in Nat : ReadiedAt(ready, planning)
      BY <2>5, <2>7
    <3>2. Latest(log', "PLANNING", planning) /\ Latest(log', "READY_FOR_PRODUCTION", ready)
      BY <1>2, <1>3, <1>4, <2>7, <3>1, StateIsAState, LatestAppended DEF ReadiedAt
    <3>3. ready \in 1 .. n
      BY <1>6, <3>1 DEF ReadiedAt, Latest
    <3>4. ReadiedAt(ready, planning)'
      BY <1>6, <1>7, <3>1, <3>2, <3>3 DEF ReadiedAt
    <3> QED
      BY <3>4 DEF Readied
  <2> QED
    BY <2>4, <2>6, <2>7
<1> QED
  BY <1>9, <1>12, <1>13, <1>14, <1>15, <1>16 DEF LifeInv

-----------------------------------------------------------------------------
(* Handoff revisions.                                                      *)

LEMMA RevisedRecords ==
  ASSUME LifeInv
  PROVE  /\ Revised \in [Name -> Document] /\ Revised["plan"] # Missing /\ Revised["handoff"] # Missing
         /\ \A r \in Revisable : Revised[r] = Missing \/ Revised[r].epoch = Epoch + 1
         /\ \A r \in Name \ Revisable : Revised[r] = record[r]
         /\ Revised.handoff.epoch = Epoch + 1 /\ Revised.handoff = Revised["handoff"]
<1>1. PICK h, p, c, f, o : /\ h = Doc(Epoch + 1, "accepted", "") /\ p = Doc(Epoch + 1, "draft", "")
                           /\ c = Doc(Epoch + 1, "draft", "draft") /\ f = Doc(Epoch + 1, "filed", "")
                           /\ o = Doc(Epoch + 1, "OPEN", "")
  OBVIOUS
<1>2. Epoch + 1 \in Nat /\ {"accepted", "draft", "filed", "OPEN", ""} \subseteq Word
  BY RecordFacts DEF Word
<1>3. /\ h \in Document /\ p \in Document /\ c \in Document /\ f \in Document /\ o \in Document
      /\ h.epoch = Epoch + 1 /\ p.epoch = Epoch + 1 /\ c.epoch = Epoch + 1 /\ f.epoch = Epoch + 1 /\ o.epoch = Epoch + 1
  BY <1>1, <1>2 DEF Doc, Document
<1>4. Revised = [record EXCEPT !.handoff = h, !.plan = p, !.control = c, !.changes = f, !.result = Missing, !.report = o]
  BY <1>1 DEF Revised
<1>5. h # Missing /\ p # Missing /\ Missing \in Document
  BY <1>3, RecordFacts, Documents
<1>6. /\ Revised \in [Name -> Document] /\ Revised["handoff"] = h /\ Revised["plan"] = p /\ Revised["control"] = c
      /\ Revised["changes"] = f /\ Revised["result"] = Missing /\ Revised["report"] = o
      /\ \A r \in Name \ Revisable : Revised[r] = record[r]
  BY <1>3, <1>4, <1>5, RecordFacts DEF Name, Revisable
<1>7. \A r \in Revisable : Revised[r] = Missing \/ Revised[r].epoch = Epoch + 1
  BY <1>3, <1>6 DEF Revisable
<1> QED
  BY <1>3, <1>5, <1>6, <1>7

LEMMA Snapshots ==
  ASSUME LifeInv
  PROVE  /\ Snapshot \in [Name -> SUBSET Document]
         /\ \A r \in Name : history[r] \subseteq Snapshot[r] /\ (record[r] # Missing => record[r] \in Snapshot[r])
         /\ \A r \in Revisable : \A doc \in Snapshot[r] : doc.epoch < Epoch + 1
<1>1. history \in [Name -> SUBSET Document] /\ record \in [Name -> Document] /\ DOMAIN record = Name
  BY RecordFacts DEF LifeInv, TypeInv
<1>2. Snapshot = [r \in Name |-> history[r] \cup ({record[r]} \ {Missing})]
  BY <1>1 DEF Snapshot
<1>3. Snapshot \in [Name -> SUBSET Document]
  BY <1>1, <1>2
<1>4. \A r \in Name : history[r] \subseteq Snapshot[r] /\ (record[r] # Missing => record[r] \in Snapshot[r])
  BY <1>2
<1>5. ASSUME NEW r \in Revisable, NEW doc \in Snapshot[r]
      PROVE  doc.epoch < Epoch + 1
  <2>1. r \in Name
    BY RecordFacts
  <2>2. doc \in Document
    BY <1>3, <2>1
  <2>3. CASE doc \in history[r]
    <3>1. doc.epoch < Epoch /\ doc.epoch \in Nat
      BY <2>2, <2>3 DEF LifeInv, EpochInv, Document
    <3> QED
      BY <3>1, RecordFacts
  <2>4. CASE doc = record[r] /\ doc # Missing
    <3>1. doc.epoch = Epoch
      BY <2>4 DEF LifeInv, EpochInv
    <3> QED
      BY <3>1, RecordFacts
  <2> QED
    BY <1>2, <2>1, <2>3, <2>4
<1> QED
  BY <1>3, <1>4, <1>5

\* Replay of the new project finds the old evidence among the snapshots.
LEMMA OldEventsAreSettled ==
  ASSUME LifeInv, NEW i \in DOMAIN log, Holds(log[i], Revised, Snapshot)
  PROVE  /\ log[i].evidence["handoff"].epoch < Epoch + 1
         /\ \A r \in DOMAIN log[i].evidence : log[i].evidence[r] \in Snapshot[r]
<1>1. log[i] \in LogEvent
  BY StateIsAState
<1>2. PICK D \in SUBSET Name : log[i].evidence \in [D -> Document]
  BY <1>1 DEF LogEvent, Pins
<1>3. PICK v : v = log[i].evidence
  OBVIOUS
<1>4. /\ DOMAIN v = D /\ D \subseteq Name /\ "handoff" \in D /\ "handoff" \in Revisable
      /\ \A r \in D : v[r] \in Document /\ v[r] # Missing /\ (r \in Revisable => v[r].epoch <= Epoch)
  BY <1>2, <1>3 DEF LifeInv, EventInv, Revisable
<1>5. \A r \in D : r \in Revisable => v[r].epoch \in Nat /\ v[r].epoch < Epoch + 1
  <2>1. \A doc \in Document : doc.epoch \in Nat
    BY DEF Document
  <2> QED
    BY <1>4, <2>1, RecordFacts
<1>6. v # Evidence(log[i].from, log[i].to, Revised)
  <2>1. Revised \in [Name -> Document] /\ Revised["handoff"].epoch = Epoch + 1
    BY RevisedRecords
  <2>2. SUFFICES ASSUME v = Evidence(log[i].from, log[i].to, Revised) PROVE FALSE
    OBVIOUS
  <2>3. "handoff" \in DOMAIN Evidence(log[i].from, log[i].to, Revised)
    BY <1>4, <2>2
  <2>4. v["handoff"] = Revised["handoff"]
    BY <2>2, <2>3 DEF Evidence
  <2> QED
    BY <1>4, <1>5, <2>1, <2>4
<1>7. \A r \in D : v[r] \in {Revised[r]} \cup Snapshot[r]
  <2>1. Recorded(log[i], Revised, Snapshot)
    BY <1>3, <1>6 DEF Holds
  <2> QED
    BY <1>3, <1>4, <2>1 DEF Recorded
<1>8. ASSUME NEW r \in D PROVE v[r] \in Snapshot[r]
  <2>1. CASE r \in Revisable
    <3>1. v[r] # Revised[r]
      BY <1>4, <1>5, <2>1, RevisedRecords
    <3> QED
      BY <1>7, <3>1
  <2>2. CASE r \notin Revisable
    <3>1. Revised[r] = record[r] /\ r \in Name
      BY <1>4, <2>2, RevisedRecords
    <3> QED
      BY <1>4, <1>7, <3>1, Snapshots
  <2> QED
    BY <2>1, <2>2
<1> QED
  BY <1>3, <1>4, <1>5, <1>8

LEMMA RevisionKeeps ==
  ASSUME LifeInv, NEW actor \in Actor, AcceptHandoffRevision(actor)
  PROVE  LifeInv'
<1>1. PICK e : e = LifecycleEvent("revision", "PLANNING", actor, "", Revised)
  OBVIOUS
<1>2. PICK logged : logged = IF state = "HANDOFF_VALIDATED" THEN log ELSE Append(log, e)
  OBVIOUS
<1>3. /\ Replays(logged, Revised, Snapshot) /\ log' = logged /\ record' = Revised /\ history' = Snapshot
  BY <1>1, <1>2 DEF AcceptHandoffRevision
<1>4. Epoch' = Epoch + 1 /\ Epoch \in Nat
  BY <1>3, RevisedRecords, RecordFacts DEF Epoch
<1>5. /\ e.type = "revision" /\ e.from = state /\ e.to = "PLANNING" /\ e.evidence = [handoff |-> Revised.handoff]
  BY <1>1 DEF LifecycleEvent
<1>6. PICK h : h = Revised.handoff /\ h \in Document /\ h # Missing /\ h.epoch = Epoch + 1
  <2>1. "handoff" \in Name
    BY DEF Name
  <2> QED
    BY <2>1, RevisedRecords
<1>7. e \in LogEvent
  <2>1. [handoff |-> h] \in [{"handoff"} -> Document] /\ {"handoff"} \in SUBSET Name
    BY <1>6 DEF Name
  <2>2. e.evidence \in Pins
    BY <1>5, <1>6, <2>1 DEF Pins
  <2>3. e = [type |-> "revision", from |-> state, to |-> "PLANNING",
             actor |-> IF "PLANNING" = "CANCELLED" \/ state \in Terminal THEN actor ELSE "ANY",
             resume |-> IF "BLOCKED" \in {state, "PLANNING"} THEN "" ELSE "", evidence |-> e.evidence]
    BY <1>1, <1>5 DEF LifecycleEvent
  <2>4. PICK who \in Actor \cup {"ANY"}, pins \in Pins :
         /\ pins = e.evidence
         /\ e = [type |-> "revision", from |-> state, to |-> "PLANNING", actor |-> who, resume |-> "", evidence |-> pins]
    BY <2>2, <2>3
  <2>5. state \in State /\ "PLANNING" \in State
    BY StateIsAState DEF State, Active
  <2> QED
    BY <2>2, <2>4, <2>5 DEF LogEvent
<1>8. EpochInv'
  <2>1. \A r \in Revisable : record'[r] = Missing \/ record'[r].epoch = Epoch'
    BY <1>3, <1>4, RevisedRecords
  <2>2. \A r \in Revisable : \A doc \in history'[r] : doc.epoch < Epoch'
    BY <1>3, <1>4, Snapshots
  <2> QED
    BY <1>4, <2>1, <2>2 DEF EpochInv
<1>9. ASSUME NEW i \in DOMAIN log
      PROVE  /\ "handoff" \in DOMAIN log[i].evidence
             /\ \A r \in DOMAIN log[i].evidence :
                  log[i].evidence[r] # Missing /\ (r \in Revisable => log[i].evidence[r].epoch <= Epoch')
  <2>1. log[i].evidence \in Pins
    <3>1. log[i] \in LogEvent
      BY StateIsAState
    <3> QED
      BY <3>1 DEF LogEvent
  <2>2. \A r \in DOMAIN log[i].evidence : log[i].evidence[r].epoch \in Nat
    BY <2>1 DEF Pins, Document
  <2> QED
    BY <1>4, <2>2 DEF LifeInv, EventInv
<1>10. CASE state = "HANDOFF_VALIDATED"
  <2>1. log' = log /\ state' = state
    BY <1>2, <1>3, <1>10 DEF state
  <2>2. TypeInv'
    BY <1>3, <2>1, RevisedRecords, Snapshots DEF LifeInv, TypeInv
  <2>3. EventInv'
    BY <1>9, <2>1 DEF LifeInv, EventInv
  <2>4. SettledInv'
    <3>1. SUFFICES ASSUME NEW i \in DOMAIN log, NEW j \in DOMAIN log, i < j, log[j].type = "revision"
                   PROVE  /\ log[i].evidence["handoff"].epoch < Epoch'
                          /\ \A r \in DOMAIN log[i].evidence : log[i].evidence[r] \in history'[r]
      BY <2>1 DEF SettledInv
    <3>2. Holds(log[i], Revised, Snapshot)
      BY <1>2, <1>3, <1>10 DEF Replays
    <3> QED
      BY <1>3, <1>4, <3>2, OldEventsAreSettled
  <2>5. TerminalInv' /\ PathInv'
    BY <1>10, <2>1 DEF TerminalInv, PathInv, Origin, Terminal, ProductionStates
  <2>6. PlanningInv'
    BY <2>1 DEF LifeInv, PlanningInv
  <2> QED
    BY <1>8, <2>2, <2>3, <2>4, <2>5, <2>6 DEF LifeInv
<1>11. CASE state # "HANDOFF_VALIDATED"
  <2>1. PICK n : n = Len(log)
    OBVIOUS
  <2>2. /\ n \in Nat /\ DOMAIN log = 1 .. n /\ DOMAIN log' = 1 .. (n + 1) /\ log'[n + 1] = e /\ log' # <<>>
        /\ Last(log') = e /\ log' \in Seq(LogEvent) /\ (\A i \in 1 .. n : log'[i] = log[i]) /\ log' = Append(log, e)
    BY <1>2, <1>3, <1>7, <1>11, <2>1, StateIsAState, AppendedEvent
  <2>3. state' = "PLANNING"
    BY <1>5, <2>2 DEF state, StateAfter
  <2>4. TypeInv'
    BY <1>3, <2>2, RevisedRecords, Snapshots DEF TypeInv
  <2>5. EventInv'
    <3>1. e.from = IF n + 1 = 1 THEN "HANDOFF_VALIDATED" ELSE log'[n].to
      BY <1>5, <2>1, <2>2, StateIsAState
    <3>2. DOMAIN e.evidence = {"handoff"} /\ e.evidence["handoff"] = h
      BY <1>5, <1>6
    <3>3. \A i \in 1 .. n : i - 1 \in 1 .. n \/ i = 1
      BY <2>2
    <3>4. ASSUME NEW i \in 1 .. n
          PROVE  log'[i] = log[i] /\ log'[i].from = IF i = 1 THEN "HANDOFF_VALIDATED" ELSE log'[i - 1].to
      BY <2>2, <3>3 DEF LifeInv, EventInv
    <3>5. \A i \in DOMAIN log' : i \in 1 .. n \/ i = n + 1
      BY <2>2
    <3>6. (n + 1) - 1 = n
      BY <2>2
    <3> QED
      BY <1>4, <1>6, <1>9, <2>2, <3>1, <3>2, <3>4, <3>5, <3>6 DEF EventInv
  <2>6. SettledInv'
    <3>1. SUFFICES ASSUME NEW i \in DOMAIN log', NEW j \in DOMAIN log', i < j, log'[j].type = "revision"
                   PROVE  /\ log'[i].evidence["handoff"].epoch < Epoch'
                          /\ \A r \in DOMAIN log'[i].evidence : log'[i].evidence[r] \in history'[r]
      BY DEF SettledInv
    <3>2. i \in DOMAIN log /\ log'[i] = log[i]
      BY <2>2, <3>1
    <3>3. Holds(log'[i], Revised, Snapshot)
      BY <1>3 DEF Replays
    <3> QED
      BY <1>3, <1>4, <3>2, <3>3, OldEventsAreSettled
  <2>7. TerminalInv'
    BY <2>3 DEF TerminalInv, Terminal
  <2>8. PathInv'
    BY <2>3 DEF PathInv, Origin, Terminal, ProductionStates
  <2>9. PlanningInv'
    <3>1. PICK k \in Nat : Latest(log, "PLANNING", k)
      BY DEF LifeInv, PlanningInv
    <3>2. Latest(log', "PLANNING", n + 1)
      BY <1>5, <1>7, <2>1, <2>2, <3>1, StateIsAState, LatestAppended
    <3> QED
      BY <2>2, <3>2 DEF PlanningInv
  <2> QED
    BY <1>8, <2>4, <2>5, <2>6, <2>7, <2>8, <2>9 DEF LifeInv
<1> QED
  BY <1>10, <1>11

-----------------------------------------------------------------------------
(* The theorems.                                                           *)

LEMMA LifeInit == Init => LifeInv
<1> SUFFICES ASSUME Init PROVE LifeInv
  OBVIOUS
<1>1. PICK h : h = Doc(1, "accepted", "")
  OBVIOUS
<1>2. h \in Document /\ h.epoch = 1
  BY <1>1 DEF Doc, Document, Word
<1>3. record = [handoff |-> h, plan |-> Missing, control |-> Missing,
                outputs |-> Missing, installation |-> Missing, results |-> Missing,
                result |-> Missing, report |-> Missing, changes |-> Missing]
  BY <1>1 DEF Init
<1>4. record \in [Name -> Document] /\ DOMAIN record = Name /\ record.handoff = h
      /\ \A r \in Name : r # "handoff" => record[r] = Missing
  BY <1>2, <1>3, Documents DEF Name
<1>5. history = [r \in Name |-> {}] /\ log = <<>>
  BY <1>4 DEF Init
<1>6. TypeInv
  BY <1>4, <1>5 DEF TypeInv
<1>7. EpochInv
  BY <1>2, <1>4, <1>5 DEF EpochInv, Epoch, Revisable, Name
<1>8. state = "HANDOFF_VALIDATED" /\ DOMAIN log = {}
  BY <1>5 DEF state, StateAfter
<1>9. EventInv /\ SettledInv /\ TerminalInv /\ PathInv
  BY <1>8 DEF EventInv, SettledInv, TerminalInv, PathInv, Origin, Terminal, ProductionStates
<1>10. PlanningInv
  BY <1>8 DEF PlanningInv, Latest
<1> QED
  BY <1>6, <1>7, <1>9, <1>10 DEF LifeInv

LEMMA LifeStep == LifeInv /\ [Next]_vars => LifeInv'
<1> SUFFICES ASSUME LifeInv, [Next]_vars PROVE LifeInv'
  OBVIOUS
<1>1. CASE Next
  BY <1>1, TransitionKeeps, RevisionKeeps, RecordingKeeps DEF Next
<1>2. CASE UNCHANGED vars
  <2>1. UNCHANGED <<log, record, history>>
    BY <1>2 DEF vars
  <2> QED
    BY <2>1, RecordFacts, WritesKeep
<1> QED
  BY <1>1, <1>2

\* Whatever is transitioned, revised and written, in any order: events chain, pins are of the revision they
\* were made in, and production stands behind an entry of READY_FOR_PRODUCTION later than planning.
THEOREM LifecycleInductive == Spec => []LifeInv
BY LifeInit, LifeStep, PTL DEF Spec

\* COMPLETE means COMPLETE: as long as replay passes, a terminal state has on disk the result and the READY
\* report for that state that it was reached with.  (lifecycle_guards.py 359-382, 490-583)
THEOREM CompletionStands == Spec => []TerminalIsSubstantiated
<1>1. LifeInv => TerminalIsSubstantiated
  <2> SUFFICES ASSUME LifeInv, Healthy, state \in Terminal PROVE Completion(state, record)
    BY DEF TerminalIsSubstantiated
  <2>1. PICK n : n = Len(log)
    OBVIOUS
  <2>2. n \in DOMAIN log /\ Last(log) = log[n] /\ state = log[n].to
    BY <2>1, StateIsAState DEF Terminal
  <2>3. PICK e : e = log[n]
    OBVIOUS
  <2>4. Holds(e, record, history) /\ e.to = state
    BY <2>2, <2>3 DEF Healthy, Replays
  <2>5. CASE e.type = "transition" /\ e.evidence = Evidence(e.from, e.to, record)
    BY <2>4, <2>5 DEF Holds, TransitionGuard, Guard
  <2>6. CASE ~(e.type = "transition" /\ e.evidence = Evidence(e.from, e.to, record))
    <3>1. Recorded(e, record, history)
      BY <2>4, <2>6 DEF Holds
    <3>2. /\ "result" \in DOMAIN e.evidence /\ "report" \in DOMAIN e.evidence
          /\ e.evidence["result"].epoch = Epoch /\ e.evidence["report"].epoch = Epoch
          /\ e.evidence["result"].is = "built" /\ e.evidence["report"].is = e.to
          /\ e.evidence["report"].of = e.evidence["result"].of
      BY <2>2, <2>3 DEF LifeInv, TerminalInv
    <3>3. \A r \in {"result", "report"} : \A doc \in history[r] : doc.epoch # Epoch
      <4>1. \A r \in {"result", "report"} : \A doc \in history[r] : doc.epoch < Epoch /\ doc.epoch \in Nat
        BY DEF LifeInv, EpochInv, TypeInv, Revisable, Name, Document
      <4> QED
        BY <4>1, RecordFacts
    <3>4. e.evidence["result"] = record["result"] /\ e.evidence["report"] = record["report"]
      BY <3>1, <3>2, <3>3 DEF Recorded
    <3> QED
      BY <2>4, <3>2, <3>4 DEF Completion
  <2> QED
    BY <2>5, <2>6
<1> QED
  BY <1>1, LifecycleInductive, PTL

\* What is produced, installed and completed is the plan that was made ready, unless a resumption went
\* elsewhere.  (lifecycle_guards.py 249-276, 439-460, 490-503)
THEOREM ThePlanMadeReady == Spec => []ProducedAsReadied
<1>1. LifeInv => ProducedAsReadied
  <2> SUFFICES ASSUME LifeInv, Healthy, state \in ProductionStates,
                      \A i \in DOMAIN log : Resumed(i) => log[i].to = LeftBy(i)
               PROVE  /\ LastEntry("READY_FOR_PRODUCTION") > LastEntry("PLANNING")
                      /\ "plan" \in DOMAIN log[LastEntry("READY_FOR_PRODUCTION")].evidence
                      /\ log[LastEntry("READY_FOR_PRODUCTION")].evidence["plan"] = record.plan
    BY DEF ProducedAsReadied
  <2>1. Straight /\ Origin \in ProductionStates
    BY DEF Straight, Origin, ProductionStates, Terminal
  <2>2. PICK ready \in Nat, planning \in Nat : ReadiedAt(ready, planning)
    BY <2>1 DEF LifeInv, PathInv, Readied
  <2>3. LastEntry("READY_FOR_PRODUCTION") = ready /\ LastEntry("PLANNING") = planning
    BY <2>2, StateIsAState, LastEntryIsLatest DEF ReadiedAt
  <2>4. /\ ready > planning /\ "plan" \in DOMAIN log[ready].evidence /\ log[ready].evidence["plan"].epoch = Epoch
        /\ ready \in DOMAIN log
    BY <2>2 DEF ReadiedAt, Latest
  <2>5. PICK e : e = log[ready]
    OBVIOUS
  <2>6. Holds(e, record, history)
    BY <2>4, <2>5 DEF Healthy, Replays
  <2>7. e.evidence["plan"] = record["plan"]
    <3>1. CASE e.evidence = Evidence(e.from, e.to, record)
      <4>1. "plan" \in DOMAIN Evidence(e.from, e.to, record)
        BY <2>4, <2>5, <3>1
      <4>2. Evidence(e.from, e.to, record)["plan"] = record["plan"]
        BY <4>1 DEF Evidence
      <4> QED
        BY <3>1, <4>2
    <3>2. CASE e.evidence # Evidence(e.from, e.to, record)
      <4>1. Recorded(e, record, history)
        BY <2>6, <3>2 DEF Holds
      <4>2. \A doc \in history["plan"] : doc.epoch # Epoch
        <5>1. \A doc \in history["plan"] : doc.epoch < Epoch /\ doc.epoch \in Nat
          BY DEF LifeInv, EpochInv, TypeInv, Revisable, Name, Document
        <5> QED
          BY <5>1, RecordFacts
      <4> QED
        BY <2>4, <2>5, <4>1, <4>2 DEF Recorded
    <3> QED
      BY <3>1, <3>2
  <2> QED
    BY <2>3, <2>4, <2>5, <2>7
<1> QED
  BY <1>1, LifecycleInductive, PTL

\* No edit of any record makes replay fail on an event that is older than an accepted revision.
\* (lifecycle_guards.py 547-583, handoff_revision.py 160-186)
THEOREM RevisionsSettle == Spec => []PastIsSettled
<1>1. LifeInv => PastIsSettled
  <2> SUFFICES ASSUME LifeInv, NEW i \in DOMAIN log, NEW j \in DOMAIN log, i < j, log[j].type = "revision"
               PROVE  Holds(log[i], record, history)
    BY DEF PastIsSettled
  <2>1. PICK v : v = log[i].evidence
    OBVIOUS
  <2>2. /\ "handoff" \in DOMAIN v /\ v["handoff"].epoch < Epoch
        /\ \A r \in DOMAIN v : v[r] \in history[r]
    BY <2>1 DEF LifeInv, EventInv, SettledInv
  <2>3. v # Evidence(log[i].from, log[i].to, record)
    <3>1. SUFFICES ASSUME v = Evidence(log[i].from, log[i].to, record) PROVE FALSE
      OBVIOUS
    <3>2. v["handoff"] = record["handoff"]
      <4>1. "handoff" \in DOMAIN Evidence(log[i].from, log[i].to, record)
        BY <2>2, <3>1
      <4> QED
        BY <3>1, <4>1 DEF Evidence
    <3> QED
      BY <2>2, <3>2, RecordFacts DEF Epoch
  <2>4. Recorded(log[i], record, history)
    BY <2>1, <2>2 DEF Recorded
  <2> QED
    BY <2>1, <2>3, <2>4 DEF Holds
<1> QED
  BY <1>1, LifecycleInductive, PTL

=============================================================================
