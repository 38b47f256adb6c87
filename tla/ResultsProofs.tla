--------------------------- MODULE ResultsProofs ---------------------------
(***************************************************************************)
(* Theorems about Registers, for any number of processes, any records and  *)
(* plans, and logs of any length; and about Results, for any number of     *)
(* recorders and builders, over the invariant of the registers.            *)
(***************************************************************************)
EXTENDS Results, FiniteSetTheorems, TLAPS

-----------------------------------------------------------------------------
(* The inductive invariant of the registers.                               *)

Event == [record : {q.record : q \in Request}, key : {q.key : q \in Request}, planned : BOOLEAN]

Appending == [at : {"append"}, book : Book, event : Event]
Projecting == [at : {"project"}, book : Book, next : Nat]

\* Types.
RegistersTypeOK ==
  /\ log \in [Book -> Seq(Event)]
  /\ partial \in [Book -> BOOLEAN]
  /\ created \in [Book -> BOOLEAN]
  /\ shown \in [RecordType -> Int]
  /\ pc \in [Process -> {Idle} \cup Appending \cup Projecting]
  /\ \A p \in Process : pc[p].at = "project" => pc[p].next \in DOMAIN Projections[pc[p].book]
  /\ plan \in Plan \cup {None}

\* A book is in the hands of one process at most.
OneWriter ==
  \A p, q \in Process : pc[p] # Idle /\ pc[q] # Idle /\ pc[p].book = pc[q].book => p = q

\* Verified, by the evidence records ev.
VerifiedBy(ev, refs, targets) ==
  refs # {} /\ \A ref \in refs : \E e \in ev :
    <<e.id, e.revision>> = ref /\ e.status = "VERIFIED" /\ e.targets \cap targets # {}

\* What an output that is AVAILABLE rests on.
OutputGrounded(r, before, ev) ==
  LET cited == {q \in Of(before, "QUALITY") : q.id \in r.quality /\ q.output = r.id} IN
  /\ r.quality # {} /\ Cardinality(cited) = Cardinality(r.quality)
  /\ \A q \in cited : q.status = "PASS"
  /\ \E q \in Of(before, "QUALITY") :
       q.status = "PASS" /\ q.output = r.id /\ VerifiedBy(ev, q.evidence, {q.id, q.output})

QualityGrounded(r, before, ev) ==
  /\ \E o \in Of(before, "OUTPUT") : <<o.id, o.revision>> = <<r.output, r.outputRevision>>
  /\ r.status = "PASS" => VerifiedBy(ev, r.evidence, {r.id, r.output})

InstallationGrounded(r, before, ev) ==
  /\ r.outputs \subseteq Ids(Of(before, "OUTPUT"))
  /\ r.type = "INSTALLATION_PLAN" /\ r.status = "APPROVED" => r.approvals # {}
  /\ r.type = "INSTALLATION_RESULT" =>
       /\ r.plan \in Ids(Of(before, "INSTALLATION_PLAN"))
       /\ r.status = "SUCCEEDED" => VerifiedBy(ev, r.evidence, {r.id, r.plan} \cup r.outputs)

\* The records of a log that a source may name.
Named(kind, before) ==
  UNION {{<<r.id, r.revision>> : r \in Of(before, t)} :
           t \in IF kind = "INSTALLATION" THEN {"INSTALLATION_PLAN", "INSTALLATION_RESULT"} ELSE {kind}}

ObservationGrounded(r, before, ev) ==
  /\ IF r.revision = 1 THEN r.supersedes = None
     ELSE /\ \E o \in Of(before, "OBSERVATION") :
               o.id = r.id /\ o.revision < r.revision /\ o.revision = r.revision - 1
          /\ r.supersedes = <<r.id, r.revision - 1>>
  /\ \A s \in r.sources :
       /\ s.kind = "EVIDENCE" => \E e \in ev : <<e.id, e.revision>> = s.ref /\ e.status = "VERIFIED"
       /\ s.kind \in {"OUTPUT", "QUALITY", "INSTALLATION"} => s.ref \in Named(s.kind, before)

\* What a record rests on in the two logs: the records before it, and the evidence ev.
Grounded(r, before, ev) ==
  /\ r.type = "OUTPUT" /\ r.status = "AVAILABLE" => OutputGrounded(r, before, ev)
  /\ r.type = "QUALITY" => QualityGrounded(r, before, ev)
  /\ r.type \in {"INSTALLATION_PLAN", "INSTALLATION_RESULT"} => InstallationGrounded(r, before, ev)
  /\ r.type = "OBSERVATION" => ObservationGrounded(r, before, ev)

\* Every record accepted under a plan rests on what came before it.
LogIsGrounded ==
  \A i \in DOMAIN log.execution : log.execution[i].planned =>
    Grounded(log.execution[i].record, Records(SubSeq(log.execution, 1, i - 1)), Records(log.evidence))

\* So does one that is about to be appended: nothing came between its check and its append.
NextIsGrounded ==
  \A p \in Process : pc[p].at = "append" /\ pc[p].book = "execution" /\ pc[p].event.planned =>
    Grounded(pc[p].event.record, Records(log.execution), Records(log.evidence))

\* No projection shows more than the log has.
ShownTrailsLog ==
  \A b \in Book : \A i \in DOMAIN Projections[b] : shown[Projections[b][i]] <= Len(log[b])

RegistersInv ==
  /\ RegistersTypeOK
  /\ OneWriter
  /\ LogIsGrounded
  /\ NextIsGrounded
  /\ ShownTrailsLog

-----------------------------------------------------------------------------
(* Sequences, and what records rest on.                                    *)

LEMMA AppendAdds ==
  ASSUME NEW S, NEW l \in Seq(S), NEW e \in S
  PROVE  /\ Append(l, e) \in Seq(S)
         /\ DOMAIN Append(l, e) = DOMAIN l \cup {Len(l) + 1}
         /\ \A i \in DOMAIN l : Append(l, e)[i] = l[i]
         /\ Append(l, e)[Len(l) + 1] = e
  OBVIOUS

\* The records before one of a log, and those before the next one.
LEMMA RecordsBefore ==
  ASSUME NEW S, NEW l \in Seq(S), NEW e \in S
  PROVE  /\ Records(l) \subseteq Records(Append(l, e))
         /\ Records(SubSeq(Append(l, e), 1, Len(l))) = Records(l)
         /\ \A i \in DOMAIN l :
              /\ Records(SubSeq(Append(l, e), 1, i - 1)) = Records(SubSeq(l, 1, i - 1))
              /\ Records(SubSeq(l, 1, i - 1)) \subseteq Records(l)
              /\ Records(SubSeq(l, 1, i)) = Records(SubSeq(l, 1, i - 1)) \cup {l[i].record}
              /\ l[i].record \in Records(l)
<1> DEFINE longer == Append(l, e)
<1>1. /\ longer \in Seq(S) /\ DOMAIN longer = DOMAIN l \cup {Len(l) + 1}
      /\ \A i \in DOMAIN l : longer[i] = l[i]
  BY AppendAdds
<1>2. Records(l) \subseteq Records(longer)
  BY <1>1 DEF Records
<1>3. SubSeq(longer, 1, Len(l)) = l
  OBVIOUS
<1>4. ASSUME NEW i \in DOMAIN l
      PROVE  /\ SubSeq(longer, 1, i - 1) = SubSeq(l, 1, i - 1)
             /\ Records(SubSeq(l, 1, i - 1)) = {l[j].record : j \in 1 .. (i - 1)}
             /\ Records(SubSeq(l, 1, i)) = {l[j].record : j \in 1 .. i}
  <2>1. DOMAIN SubSeq(l, 1, i - 1) = 1 .. (i - 1) /\ \A j \in 1 .. (i - 1) : SubSeq(l, 1, i - 1)[j] = l[j]
    BY <1>4
  <2>2. DOMAIN SubSeq(l, 1, i) = 1 .. i /\ \A j \in 1 .. i : SubSeq(l, 1, i)[j] = l[j]
    BY <1>4
  <2>3. DOMAIN SubSeq(longer, 1, i - 1) = 1 .. (i - 1)
        /\ \A j \in 1 .. (i - 1) : SubSeq(longer, 1, i - 1)[j] = l[j]
    BY <1>4, <1>1
  <2>4. SubSeq(longer, 1, i - 1) = SubSeq(l, 1, i - 1)
    <3>1. SubSeq(longer, 1, i - 1) \in Seq(S) /\ SubSeq(l, 1, i - 1) \in Seq(S)
      BY <1>4, <1>1
    <3> HIDE DEF longer
    <3> QED
      BY <2>1, <2>3, <3>1
  <2> QED
    BY <2>1, <2>2, <2>4 DEF Records
<1>5. ASSUME NEW i \in DOMAIN l
      PROVE  /\ Records(SubSeq(l, 1, i - 1)) \subseteq Records(l)
             /\ Records(SubSeq(l, 1, i)) = Records(SubSeq(l, 1, i - 1)) \cup {l[i].record}
             /\ l[i].record \in Records(l)
  <2>1. 1 .. i = 1 .. (i - 1) \cup {i} /\ 1 .. (i - 1) \subseteq DOMAIN l
    BY <1>5
  <2>2. Records(l) = {l[j].record : j \in DOMAIN l}
    BY DEF Records
  <2>3. {l[j].record : j \in 1 .. i} = {l[j].record : j \in 1 .. (i - 1)} \cup {l[i].record}
    BY <2>1
  <2>4. {l[j].record : j \in 1 .. (i - 1)} \subseteq {l[j].record : j \in DOMAIN l}
    BY <2>1
  <2> QED
    BY <2>2, <2>3, <2>4, <1>4, <1>5
<1> QED
  BY <1>2, <1>3, <1>4, <1>5

\* More evidence takes no ground away.
LEMMA GroundStays ==
  ASSUME NEW r, NEW before, NEW ev, NEW more, ev \subseteq more, Grounded(r, before, ev)
  PROVE  Grounded(r, before, more)
<1>1. \A refs, targets : VerifiedBy(ev, refs, targets) => VerifiedBy(more, refs, targets)
  BY DEF VerifiedBy
<1>2. OutputGrounded(r, before, ev) => OutputGrounded(r, before, more)
  BY <1>1 DEF OutputGrounded
<1>3. QualityGrounded(r, before, ev) => QualityGrounded(r, before, more)
  BY <1>1 DEF QualityGrounded
<1>4. InstallationGrounded(r, before, ev) => InstallationGrounded(r, before, more)
  BY <1>1 DEF InstallationGrounded
<1>5. ObservationGrounded(r, before, ev) => ObservationGrounded(r, before, more)
  BY DEF ObservationGrounded
<1> QED
  BY <1>2, <1>3, <1>4, <1>5 DEF Grounded

LEMMA VerifiedByLog ==
  ASSUME NEW refs, NEW targets
  PROVE  /\ Verified(refs, targets) <=> VerifiedBy(Records(log.evidence), refs, targets)
         /\ Resolve(refs, targets) => VerifiedBy(Records(log.evidence), refs, targets)
  BY DEF Verified, VerifiedBy, Resolve

\* What replay accepts under a plan: every PASS is verified.
LEMMA ReplayedPasses ==
  ASSUME LogHolds("execution"), plan # None, log.execution \in Seq(Event),
         NEW q \in Of(Records(log.execution), "QUALITY"), q.status = "PASS"
  PROVE  VerifiedBy(Records(log.evidence), q.evidence, {q.id, q.output})
<1>1. PICK i \in DOMAIN log.execution : log.execution[i].record = q
  BY DEF Of, Records
<1>2. CrossReferenced(q, Records(SubSeq(log.execution, 1, i)))
  BY <1>1 DEF LogHolds
<1>3. q.type = "QUALITY"
  BY DEF Of
<1>4. QualityHolds(q, Records(SubSeq(log.execution, 1, i)))
  BY <1>2, <1>3 DEF CrossReferenced
<1> QED
  BY <1>4, VerifiedByLog DEF QualityHolds

\* An AVAILABLE output that is accepted cites a PASS of its own, which is verified.
LEMMA OutputIsGrounded ==
  ASSUME NEW q \in Request, q.record.type = "OUTPUT", q.record.status = "AVAILABLE",
         plan # None, LogHolds("execution"), log.execution \in Seq(Event),
         OutputHolds(q.record, Records(log.execution))
  PROVE  OutputGrounded(q.record, Records(log.execution), Records(log.evidence))
<1> DEFINE r == q.record
           rs == Records(log.execution)
           cited == {c \in Of(rs, "QUALITY") : c.id \in r.quality /\ c.output = r.id}
<1>1. r.quality # {} /\ Cardinality(cited) = Cardinality(r.quality) /\ \A c \in cited : c.status = "PASS"
  BY DEF OutputHolds
<1>2. cited # {}
  <2>1. IsFiniteSet(r.quality)
    BY RequestAssumption
  <2>2. Cardinality(r.quality) # 0
    BY <2>1, <1>1, FS_EmptySet
  <2> QED
    BY <2>2, <1>1, FS_EmptySet
<1>3. PICK c \in cited : TRUE
  BY <1>2
<1>4. c \in Of(rs, "QUALITY") /\ c.output = r.id /\ c.status = "PASS"
  BY <1>1, <1>3
<1>5. VerifiedBy(Records(log.evidence), c.evidence, {c.id, c.output})
  BY <1>4, ReplayedPasses
<1> QED
  BY <1>1, <1>4, <1>5 DEF OutputGrounded

\* An observation that is accepted names what the logs hold.
LEMMA ObservationIsGrounded ==
  ASSUME NEW q \in Request, q.record.type = "OBSERVATION",
         NEW rs, ObservationHolds(q.record, rs)
  PROVE  ObservationGrounded(q.record, rs, Records(log.evidence))
<1> DEFINE r == q.record
<1>1. ASSUME r.revision # 1
      PROVE  /\ \E o \in Of(rs, "OBSERVATION") :
                  o.id = r.id /\ o.revision < r.revision /\ o.revision = r.revision - 1
             /\ r.supersedes = <<r.id, r.revision - 1>>
  BY <1>1 DEF ObservationHolds
<1>2. r.revision = 1 => r.supersedes = None
  BY DEF ObservationHolds
<1>3. ASSUME NEW s \in r.sources
      PROVE  /\ s.kind = "EVIDENCE" =>
                  \E e \in Records(log.evidence) : <<e.id, e.revision>> = s.ref /\ e.status = "VERIFIED"
             /\ s.kind \in {"OUTPUT", "QUALITY", "INSTALLATION"} => s.ref \in Named(s.kind, rs)
  <2>1. IF s.kind = "EVIDENCE" THEN Registered(s.ref) ELSE s.ref \in Sources(s.kind, rs)
    BY <1>3 DEF ObservationHolds
  <2>2. s.kind \in {"OUTPUT", "QUALITY", "INSTALLATION"} => Sources(s.kind, rs) = Named(s.kind, rs)
    BY DEF Sources, Named
  <2> QED
    BY <2>1, <2>2 DEF Registered
<1> QED
  BY <1>1, <1>2, <1>3 DEF ObservationGrounded

\* What record admits under a plan is grounded.
LEMMA AdmittedIsGrounded ==
  ASSUME NEW q \in Request, plan # None, LogHolds("execution"), log.execution \in Seq(Event),
         CrossReferenced(q.record, Records(log.execution))
  PROVE  Grounded(q.record, Records(log.execution), Records(log.evidence))
<1> DEFINE r == q.record
           rs == Records(log.execution)
           ev == Records(log.evidence)
<1>1. r.type = "OUTPUT" /\ r.status = "AVAILABLE" => OutputGrounded(r, rs, ev)
  BY OutputIsGrounded DEF CrossReferenced
<1>2. r.type = "QUALITY" => QualityGrounded(r, rs, ev)
  <2>1. r.type = "QUALITY" => QualityHolds(r, rs)
    BY DEF CrossReferenced
  <2> QED
    BY <2>1, VerifiedByLog DEF QualityHolds, QualityGrounded
<1>3. r.type \in {"INSTALLATION_PLAN", "INSTALLATION_RESULT"} => InstallationGrounded(r, rs, ev)
  <2>1. r.type = "INSTALLATION_PLAN" => InstallationPlanHolds(r, rs)
    BY DEF CrossReferenced
  <2>2. r.type = "INSTALLATION_RESULT" => InstallationResultHolds(r, rs)
    BY DEF CrossReferenced
  <2> QED
    BY <2>1, <2>2, VerifiedByLog
    DEF InstallationPlanHolds, InstallationResultHolds, InstallationGrounded
<1>4. r.type = "OBSERVATION" => ObservationGrounded(r, rs, ev)
  BY ObservationIsGrounded DEF CrossReferenced
<1> QED
  BY <1>1, <1>2, <1>3, <1>4 DEF Grounded

-----------------------------------------------------------------------------
(* Each conjunct is kept by every step.                                    *)

LEMMA Steps ==
  ASSUME [RegistersNext]_registers
  PROVE  \/ UNCHANGED registers
         \/ \E p \in Process, b \in Book : CreateLog(p, b)
         \/ \E p \in Process, q \in Request : Record(p, q)
         \/ \E p \in Process : AppendEvent(p) \/ Project(p) \/ Die(p)
         \/ \E new \in Plan : WritePlan(new)
         \/ \E a \in Approval : Decide(a)
  BY DEF RegistersNext

\* Where a process may be.
LEMMA Places ==
  ASSUME RegistersTypeOK, NEW p \in Process
  PROVE  /\ pc[p].at = "append" => pc[p] \in Appending
         /\ pc[p].at = "project" => pc[p] \in Projecting
         /\ pc[p] # Idle => pc[p] \in Appending \cup Projecting
  BY DEF RegistersTypeOK, Idle, Appending, Projecting

LEMMA BookFacts ==
  /\ DOMAIN Projections = Book
  /\ Book = {"execution", "evidence"}
  /\ \A b \in Book : /\ Projections[b] \in Seq(RecordType)
                     /\ 1 \in DOMAIN Projections[b]
  /\ DOMAIN Projections["execution"] = 1 .. 5 /\ Len(Projections["execution"]) = 5
  /\ DOMAIN Projections["evidence"] = 1 .. 1 /\ Len(Projections["evidence"]) = 1
  BY DEF Projections, Book, RecordType, Range

\* No file belongs to two books.
LEMMA BooksApart ==
  ASSUME NEW b \in Book, NEW c \in Book, b # c,
         NEW i \in DOMAIN Projections[b], NEW j \in DOMAIN Projections[c]
  PROVE  Projections[b][i] # Projections[c][j]
  BY DEF Projections, Book

LEMMA TypeStep ==
  ASSUME RegistersTypeOK, [RegistersNext]_registers
  PROVE  RegistersTypeOK'
<1>1. CASE UNCHANGED registers
  BY <1>1 DEF RegistersTypeOK, registers
<1>2. ASSUME NEW p \in Process, NEW b \in Book, CreateLog(p, b)
      PROVE  RegistersTypeOK'
  BY <1>2, BookFacts DEF RegistersTypeOK, CreateLog, Projecting, Idle
<1>3. ASSUME NEW p \in Process, NEW q \in Request, Record(p, q)
      PROVE  RegistersTypeOK'
  <2>1. BookOf(q) \in Book
    BY DEF BookOf, Book
  <2>2. [record |-> q.record, key |-> q.key, planned |-> plan # None] \in Event
    BY DEF Event
  <2> QED
    BY <1>3, <2>1, <2>2 DEF RegistersTypeOK, Record, Appending
<1>4. ASSUME NEW p \in Process, AppendEvent(p)
      PROVE  RegistersTypeOK'
  <2>1. pc[p] \in Appending
    BY <1>4, Places DEF AppendEvent
  <2> QED
    BY <1>4, <2>1, BookFacts DEF RegistersTypeOK, AppendEvent, Appending, Projecting
<1>5. ASSUME NEW p \in Process, Project(p)
      PROVE  RegistersTypeOK'
  <2>1. pc[p] \in Projecting /\ pc[p].next \in DOMAIN Projections[pc[p].book]
    BY <1>5, Places DEF Project, RegistersTypeOK
  <2>2. pc[p].book \in Book /\ pc[p].next \in Nat /\ pc[p].at = "project"
    BY <2>1 DEF Projecting
  <2>3. shown' \in [RecordType -> Int]
    <3>1. Len(log[pc[p].book]) \in Int
      BY <2>2 DEF RegistersTypeOK
    <3> QED
      BY <1>5, <2>1, <2>2, <3>1, BookFacts DEF RegistersTypeOK, Project
  <2>4. CASE pc[p].next = Len(Projections[pc[p].book])
    BY <1>5, <2>3, <2>4 DEF RegistersTypeOK, Project, Idle
  <2>5. CASE pc[p].next # Len(Projections[pc[p].book])
    <3>1. pc' = [pc EXCEPT ![p].next = @ + 1]
      BY <1>5, <2>5 DEF Project
    <3>2. [pc[p] EXCEPT !.next = pc[p].next + 1] \in Projecting
      BY <2>1, <2>2 DEF Projecting
    <3>3. pc[p].next + 1 \in DOMAIN Projections[pc[p].book]
      BY <2>1, <2>2, <2>5, BookFacts
    <3>4. pc' \in [Process -> {Idle} \cup Appending \cup Projecting]
      BY <3>1, <3>2 DEF RegistersTypeOK
    <3>5. \A q \in Process : pc'[q].at = "project" =>
            pc'[q].next \in DOMAIN Projections[pc'[q].book]
      BY <2>1, <3>1, <3>3 DEF RegistersTypeOK, Projecting
    <3> QED
      BY <1>5, <2>3, <3>4, <3>5 DEF RegistersTypeOK, Project
  <2> QED
    BY <2>4, <2>5
<1>6. ASSUME NEW p \in Process, Die(p)
      PROVE  RegistersTypeOK'
  <2>1. partial' \in [Book -> BOOLEAN]
    BY <1>6 DEF Die, RegistersTypeOK
  <2> QED
    BY <1>6, <2>1 DEF RegistersTypeOK, Die, Idle
<1>7. ASSUME NEW new \in Plan, WritePlan(new)
      PROVE  RegistersTypeOK'
  BY <1>7 DEF RegistersTypeOK, WritePlan
<1>8. ASSUME NEW a \in Approval, Decide(a)
      PROVE  RegistersTypeOK'
  BY <1>8 DEF RegistersTypeOK, Decide
<1> QED
  BY <1>1, <1>2, <1>3, <1>4, <1>5, <1>6, <1>7, <1>8, Steps

\* Only a call on a book that nobody has is let in.
LEMMA WriterStep ==
  ASSUME RegistersTypeOK, OneWriter, [RegistersNext]_registers
  PROVE  OneWriter'
<1>1. CASE UNCHANGED <<pc>>
  BY <1>1 DEF OneWriter
<1>2. ASSUME NEW p \in Process, NEW b \in Book, ~Locked(b),
             pc'[p].book = b, \A q \in Process : q # p => pc'[q] = pc[q]
      PROVE  OneWriter'
  BY <1>2 DEF OneWriter, Locked
<1>3. ASSUME NEW p \in Process, pc'[p] = Idle \/ (pc[p] # Idle /\ pc'[p].book = pc[p].book),
             \A q \in Process : q # p => pc'[q] = pc[q]
      PROVE  OneWriter'
  BY <1>3 DEF OneWriter
<1>4. ASSUME NEW p \in Process, AppendEvent(p) \/ Project(p)
      PROVE  OneWriter'
  <2>1. pc[p] # Idle /\ pc[p] \in Appending \cup Projecting
    BY <1>4, Places DEF AppendEvent, Project, Idle
  <2> QED
    BY <1>3, <1>4, <2>1 DEF AppendEvent, Project, RegistersTypeOK, Appending, Projecting
<1> QED
  BY <1>1, <1>2, <1>3, <1>4, Steps
  DEF registers, CreateLog, Record, Die, WritePlan, Decide, RegistersTypeOK, BookOf, Book

\* What a step does to what the two logs say, and to the events on their way to them.
LEMMA LogsGrow ==
  ASSUME RegistersTypeOK, OneWriter, [RegistersNext]_registers
  PROVE  \/ UNCHANGED <<log, pc>>
         \/ /\ log' = log
            /\ \A p \in Process : pc'[p] = pc[p] \/ pc'[p].at # "append"
         \/ /\ log' = log
            /\ \E p \in Process, q \in Request :
                 Record(p, q) /\ \A o \in Process : o # p => pc'[o] = pc[o]
         \/ \E p \in Process, b \in Book :
              /\ pc[p].at = "append" /\ pc[p].book = b /\ pc[p].event \in Event
              /\ log' = [log EXCEPT ![b] = Append(log[b], pc[p].event)]
              /\ pc'[p].at # "append"
              /\ \A o \in Process : o # p => pc'[o] = pc[o] /\ (pc[o].at = "append" => pc[o].book # b)
<1>1. ASSUME NEW p \in Process, NEW b \in Book, CreateLog(p, b)
      PROVE  log' = log /\ \A o \in Process : pc'[o] = pc[o] \/ pc'[o].at # "append"
  BY <1>1 DEF CreateLog, RegistersTypeOK
<1>2. ASSUME NEW p \in Process, NEW q \in Request, Record(p, q)
      PROVE  log' = log /\ \A o \in Process : o # p => pc'[o] = pc[o]
  BY <1>2 DEF Record, RegistersTypeOK
<1>3. ASSUME NEW p \in Process, AppendEvent(p)
      PROVE  \E b \in Book :
              /\ pc[p].at = "append" /\ pc[p].book = b /\ pc[p].event \in Event
              /\ log' = [log EXCEPT ![b] = Append(log[b], pc[p].event)]
              /\ pc'[p].at # "append"
              /\ \A o \in Process : o # p => pc'[o] = pc[o] /\ (pc[o].at = "append" => pc[o].book # b)
  <2>1. pc[p].at = "append" /\ pc[p] \in Appending
    BY <1>3, Places DEF AppendEvent
  <2>2. pc[p].book \in Book /\ pc[p].event \in Event
    BY <2>1 DEF Appending
  <2>3. \A o \in Process : o # p => (pc[o].at = "append" => pc[o].book # pc[p].book)
    BY <2>1 DEF OneWriter, Idle
  <2> QED
    BY <1>3, <2>1, <2>2, <2>3 DEF AppendEvent, RegistersTypeOK
<1>4. ASSUME NEW p \in Process, Project(p)
      PROVE  log' = log /\ \A o \in Process : pc'[o] = pc[o] \/ pc'[o].at # "append"
  <2>1. pc[p] \in Projecting
    BY <1>4, Places DEF Project
  <2> QED
    BY <1>4, <2>1 DEF Project, Projecting, Idle, RegistersTypeOK
<1>5. ASSUME NEW p \in Process, Die(p)
      PROVE  log' = log /\ \A o \in Process : pc'[o] = pc[o] \/ pc'[o].at # "append"
  BY <1>5 DEF Die, Idle, RegistersTypeOK
<1>6. (\E new \in Plan : WritePlan(new)) \/ (\E a \in Approval : Decide(a)) => UNCHANGED <<log, pc>>
  BY DEF WritePlan, Decide
<1>7. UNCHANGED registers => UNCHANGED <<log, pc>>
  BY DEF registers
<1> QED
  BY <1>1, <1>2, <1>3, <1>4, <1>5, <1>6, <1>7, Steps

\* What stands on the logs goes on standing on them, since only its own process can add to the
\* execution log before it does.
LEMMA GroundStep ==
  ASSUME RegistersTypeOK, OneWriter, LogIsGrounded, NextIsGrounded, [RegistersNext]_registers
  PROVE  LogIsGrounded' /\ NextIsGrounded'
<1>1. CASE UNCHANGED <<log, pc>>
  BY <1>1 DEF LogIsGrounded, NextIsGrounded
<1>2. CASE log' = log /\ \A p \in Process : pc'[p] = pc[p] \/ pc'[p].at # "append"
  <2>1. LogIsGrounded'
    BY <1>2 DEF LogIsGrounded
  <2>2. NextIsGrounded'
    BY <1>2 DEF NextIsGrounded
  <2> QED
    BY <2>1, <2>2
<1>3. ASSUME log' = log, NEW p \in Process, NEW q \in Request, Record(p, q),
             \A o \in Process : o # p => pc'[o] = pc[o]
      PROVE  LogIsGrounded' /\ NextIsGrounded'
  <2>1. LogIsGrounded'
    BY <1>3 DEF LogIsGrounded
  <2>2. /\ pc'[p].book = BookOf(q)
        /\ pc'[p].event.record = q.record
        /\ pc'[p].event.planned = (plan # None)
    BY <1>3 DEF Record, RegistersTypeOK
  <2>3. ASSUME BookOf(q) = "execution", plan # None
        PROVE  Grounded(q.record, Records(log.execution), Records(log.evidence))
    <3>1. LogHolds("execution") /\ CrossReferenced(q.record, Records(log.execution))
      BY <1>3, <2>3 DEF Record, Replays, Admitted
    <3>2. log.execution \in Seq(Event)
      BY DEF RegistersTypeOK, Book
    <3> QED
      BY <2>3, <3>1, <3>2, AdmittedIsGrounded
  <2>4. NextIsGrounded'
    BY <1>3, <2>2, <2>3 DEF NextIsGrounded
  <2> QED
    BY <2>1, <2>4
<1>4. ASSUME NEW p \in Process, NEW b \in Book,
             pc[p].at = "append", pc[p].book = b, pc[p].event \in Event,
             log' = [log EXCEPT ![b] = Append(log[b], pc[p].event)],
             pc'[p].at # "append",
             \A o \in Process : o # p => pc'[o] = pc[o] /\ (pc[o].at = "append" => pc[o].book # b)
      PROVE  LogIsGrounded' /\ NextIsGrounded'
  <2> DEFINE e == pc[p].event
  <2>1. log.execution \in Seq(Event) /\ log.evidence \in Seq(Event)
    BY DEF RegistersTypeOK, Book
  <2>2. CASE b = "execution"
    <3>1. log'.execution = Append(log.execution, e) /\ log'.evidence = log.evidence
      BY <1>4, <2>2 DEF RegistersTypeOK, Book
    <3>2. e.planned => Grounded(e.record, Records(log.execution), Records(log.evidence))
      BY <1>4, <2>2 DEF NextIsGrounded
    <3>3. ASSUME NEW i \in DOMAIN log'.execution, log'.execution[i].planned
          PROVE  Grounded(log'.execution[i].record, Records(SubSeq(log'.execution, 1, i - 1)),
                          Records(log'.evidence))
      <4>1. CASE i \in DOMAIN log.execution
        <5>1. /\ log'.execution[i] = log.execution[i]
              /\ Records(SubSeq(log'.execution, 1, i - 1)) = Records(SubSeq(log.execution, 1, i - 1))
          BY <3>1, <4>1, <2>1, <1>4, AppendAdds, RecordsBefore
        <5> QED
          BY <5>1, <3>1, <3>3, <4>1 DEF LogIsGrounded
      <4>2. CASE i = Len(log.execution) + 1
        <5>1. log'.execution[i] = e /\ i - 1 = Len(log.execution)
          BY <3>1, <4>2, <2>1, <1>4, AppendAdds
        <5>2. Records(SubSeq(log'.execution, 1, i - 1)) = Records(log.execution)
          BY <3>1, <5>1, <2>1, <1>4, RecordsBefore
        <5> QED
          BY <5>1, <5>2, <3>1, <3>2, <3>3
      <4> QED
        BY <4>1, <4>2, <3>1, <2>1, <1>4, AppendAdds
    <3>4. LogIsGrounded'
      BY <3>3 DEF LogIsGrounded
    <3>5. NextIsGrounded'
      BY <1>4, <2>2 DEF NextIsGrounded
    <3> QED
      BY <3>4, <3>5
  <2>3. CASE b = "evidence"
    <3>1. log'.evidence = Append(log.evidence, e) /\ log'.execution = log.execution
      BY <1>4, <2>3 DEF RegistersTypeOK, Book
    <3>2. Records(log.evidence) \subseteq Records(log'.evidence)
      BY <3>1, <2>1, <1>4, RecordsBefore
    <3>3. \A r, before : Grounded(r, before, Records(log.evidence)) =>
                         Grounded(r, before, Records(log'.evidence))
      BY <3>2, GroundStays
    <3>4. LogIsGrounded'
      BY <3>1, <3>3 DEF LogIsGrounded
    <3>5. NextIsGrounded'
      BY <1>4, <3>1, <3>3 DEF NextIsGrounded
    <3> QED
      BY <3>4, <3>5
  <2> QED
    BY <2>2, <2>3 DEF Book
<1> QED
  BY <1>1, <1>2, <1>3, <1>4, LogsGrow

\* A projection is written from the log, which only grows.
LEMMA ShownStep ==
  ASSUME RegistersTypeOK, OneWriter, ShownTrailsLog, [RegistersNext]_registers
  PROVE  ShownTrailsLog'
<1>1. CASE UNCHANGED <<log, shown>>
  BY <1>1 DEF ShownTrailsLog
<1>2. ASSUME NEW p \in Process, AppendEvent(p)
      PROVE  ShownTrailsLog'
  <2>1. pc[p] \in Appending
    BY <1>2, Places DEF AppendEvent
  <2>2. pc[p].book \in Book /\ pc[p].event \in Event
    BY <2>1 DEF Appending
  <2>3. \A b \in Book : Len(log[b]) \in Nat /\ Len(log[b]) <= Len(log'[b])
    <3>1. \A b \in Book : log[b] \in Seq(Event)
      BY DEF RegistersTypeOK
    <3>2. log' = [log EXCEPT ![pc[p].book] = Append(log[pc[p].book], pc[p].event)]
      BY <1>2 DEF AppendEvent
    <3>3. \A b \in Book : log'[b] = log[b] \/ log'[b] = Append(log[b], pc[p].event)
      BY <3>2, <2>2 DEF RegistersTypeOK
    <3> QED
      BY <2>2, <3>1, <3>3
  <2>4. \A b \in Book : Len(log'[b]) \in Nat
    <3>1. RegistersTypeOK'
      BY TypeStep
    <3> QED
      BY <3>1 DEF RegistersTypeOK
  <2>5. \A b \in Book : \A i \in DOMAIN Projections[b] : shown[Projections[b][i]] \in Int
    BY BookFacts DEF RegistersTypeOK
  <2> QED
    BY <1>2, <2>3, <2>4, <2>5 DEF AppendEvent, ShownTrailsLog
<1>3. ASSUME NEW p \in Process, Project(p)
      PROVE  ShownTrailsLog'
  <2> DEFINE c == pc[p].book
  <2>1. c \in Book /\ pc[p].next \in DOMAIN Projections[c]
    <3>1. pc[p] \in Projecting
      BY <1>3, Places DEF Project
    <3> QED
      BY <1>3, <3>1 DEF Projecting, Project, RegistersTypeOK
  <2>2. /\ shown' = [shown EXCEPT ![Projections[c][pc[p].next]] = Len(log[c])]
        /\ log' = log
    BY <1>3 DEF Project
  <2>3. ASSUME NEW b \in Book, NEW i \in DOMAIN Projections[b]
        PROVE  shown'[Projections[b][i]] <= Len(log'[b])
    <3>1. Projections[b][i] \in RecordType /\ Len(log[b]) \in Int
      BY BookFacts DEF RegistersTypeOK
    <3>2. Projections[b][i] = Projections[c][pc[p].next] => b = c
      BY <2>1, BooksApart
    <3>3. shown'[Projections[b][i]] =
            IF Projections[b][i] = Projections[c][pc[p].next] THEN Len(log[c]) ELSE shown[Projections[b][i]]
      BY <2>2, <3>1 DEF RegistersTypeOK
    <3> QED
      BY <2>2, <3>1, <3>2, <3>3 DEF ShownTrailsLog
  <2> QED
    BY <2>3 DEF ShownTrailsLog
<1> QED
  BY <1>1, <1>2, <1>3, Steps DEF registers, CreateLog, Record, Die, WritePlan, Decide

LEMMA RegistersInitially ==
  ASSUME RegistersInit
  PROVE  RegistersInv
<1>1. RegistersTypeOK
  BY DEF RegistersInit, RegistersTypeOK, Idle
<1>2. OneWriter
  BY DEF RegistersInit, OneWriter
<1>3. LogIsGrounded /\ NextIsGrounded
  BY DEF RegistersInit, LogIsGrounded, NextIsGrounded, Idle, Book
<1>4. ShownTrailsLog
  BY BookFacts DEF RegistersInit, ShownTrailsLog
<1> QED
  BY <1>1, <1>2, <1>3, <1>4 DEF RegistersInv

LEMMA RegistersStep ==
  ASSUME RegistersInv, [RegistersNext]_registers
  PROVE  RegistersInv'
  BY TypeStep, WriterStep, GroundStep, ShownStep DEF RegistersInv

\* Every reachable state of the registers has the invariant.
THEOREM RegistersInductive == RegistersSpec => []RegistersInv
<1>1. RegistersInit => RegistersInv
  BY RegistersInitially
<1>2. RegistersInv /\ [RegistersNext]_registers => RegistersInv'
  BY RegistersStep
<1> QED
  BY <1>1, <1>2, PTL DEF RegistersSpec

-----------------------------------------------------------------------------
(* The properties.                                                         *)

LEMMA GroundedClaims ==
  ASSUME RegistersTypeOK, LogIsGrounded
  PROVE  ClaimsAreBacked
<1> SUFFICES ASSUME NEW i \in DOMAIN log.execution, log.execution[i].planned
             PROVE  LET r == log.execution[i].record
                        before == Records(SubSeq(log.execution, 1, i - 1))
                    IN /\ r.type = "QUALITY" /\ r.status = "PASS" => Verified(r.evidence, {r.id, r.output})
                       /\ r.type = "INSTALLATION_RESULT" /\ r.status = "SUCCEEDED" =>
                            Verified(r.evidence, {r.id, r.plan} \cup r.outputs)
                       /\ r.type = "OUTPUT" /\ r.status = "AVAILABLE" =>
                            \E q \in Of(before, "QUALITY") :
                              q.status = "PASS" /\ q.output = r.id /\ Verified(q.evidence, {q.id, q.output})
  BY DEF ClaimsAreBacked
<1> DEFINE r == log.execution[i].record
           before == Records(SubSeq(log.execution, 1, i - 1))
<1>1. Grounded(r, before, Records(log.evidence))
  BY DEF LogIsGrounded
<1> QED
  BY <1>1, VerifiedByLog DEF Grounded, OutputGrounded, QualityGrounded, InstallationGrounded

\* Whatever evidence writers, planner and approvers do between the check of a record and its append,
\* and after it, what was accepted under a plan rests on verified evidence (execution.py:275-345).
THEOREM AcceptedClaimsAreBacked == RegistersSpec => []ClaimsAreBacked
<1>1. RegistersInv => ClaimsAreBacked
  BY GroundedClaims DEF RegistersInv
<1> QED
  BY <1>1, RegistersInductive, PTL

\* A record that was accepted on its ground holds wherever that ground is still there.
LEMMA GroundedRecordHolds ==
  ASSUME NEW q \in Request, NEW before,
         Grounded(q.record, before, Records(log.evidence)), Kept(q.record), Whole("evidence")
  PROVE  CrossReferenced(q.record, before \cup {q.record})
<1> DEFINE r == q.record
           rs == before \cup {r}
           ev == Records(log.evidence)
<1>1. \A t : Of(before, t) \subseteq Of(rs, t) /\ (r.type # t => Of(rs, t) = Of(before, t))
  BY DEF Of
<1>2. \A refs, targets : VerifiedBy(ev, refs, targets) => Resolve(refs, targets)
  BY DEF VerifiedBy, Resolve
<1>3. ASSUME r.type = "OUTPUT", plan # None
      PROVE  OutputHolds(r, rs)
  <2>1. Of(rs, "QUALITY") = Of(before, "QUALITY")
    BY <1>1, <1>3
  <2>2. r.deliverable \in Planned.deliverables /\ r.tasks \subseteq Planned.tasks
    BY <1>3 DEF Kept
  <2>3. r.status = "AVAILABLE" => OutputGrounded(r, before, ev)
    BY <1>3 DEF Grounded
  <2> QED
    BY <2>1, <2>2, <2>3 DEF OutputHolds, OutputGrounded
<1>4. ASSUME r.type = "QUALITY"
      PROVE  QualityHolds(r, rs)
  BY <1>1, <1>2, <1>4 DEF Grounded, QualityGrounded, QualityHolds
<1>5. ASSUME r.type = "INSTALLATION_PLAN"
      PROVE  InstallationPlanHolds(r, rs)
  BY <1>1, <1>5 DEF Grounded, InstallationGrounded, InstallationPlanHolds, Ids, Kept
<1>6. ASSUME r.type = "INSTALLATION_RESULT"
      PROVE  InstallationResultHolds(r, rs)
  BY <1>1, <1>2, <1>6 DEF Grounded, InstallationGrounded, InstallationResultHolds, Ids
<1>7. ASSUME r.type = "OBSERVATION"
      PROVE  ObservationHolds(r, rs)
  <2>1. ObservationGrounded(r, before, ev)
    BY <1>7 DEF Grounded
  <2>2. r.requirements \subseteq Accepted \cup Planned.requirements
    BY <1>7 DEF Kept
  <2>3. ASSUME NEW s \in r.sources
        PROVE  IF s.kind = "EVIDENCE" THEN Registered(s.ref) ELSE s.ref \in Sources(s.kind, rs)
    <3>1. s.kind \in {"OUTPUT", "QUALITY", "INSTALLATION", "TASK", "EVIDENCE"}
      BY <1>7, <2>3, RequestAssumption
    <3>2. CASE s.kind = "EVIDENCE"
      BY <2>1, <2>3, <3>2 DEF ObservationGrounded, Registered
    <3>3. CASE s.kind = "TASK"
      BY <1>7, <2>3, <3>3 DEF Kept, Sources
    <3>4. CASE s.kind \in {"OUTPUT", "QUALITY", "INSTALLATION"}
      <4>1. s.ref \in Named(s.kind, before)
        BY <2>1, <2>3, <3>4 DEF ObservationGrounded
      <4>2. Sources(s.kind, rs) = Named(s.kind, rs)
        BY <3>4 DEF Named, Sources
      <4>3. \A t : {<<x.id, x.revision>> : x \in Of(before, t)} \subseteq
                   {<<x.id, x.revision>> : x \in Of(rs, t)}
        BY <1>1
      <4>4. Named(s.kind, before) \subseteq Named(s.kind, rs)
        BY <4>3, Zenon DEF Named
      <4> QED
        BY <3>4, <4>1, <4>2, <4>4
    <3> QED
      BY <3>1, <3>2, <3>3, <3>4
  <2>4. IF r.revision = 1 THEN r.supersedes = None
        ELSE /\ \E o \in {o \in Of(rs, "OBSERVATION") : o.id = r.id /\ o.revision < r.revision} :
                  o.revision = r.revision - 1
             /\ r.supersedes = <<r.id, r.revision - 1>>
    BY <1>1, <2>1 DEF ObservationGrounded
  <2> QED
    BY <2>2, <2>3, <2>4 DEF ObservationHolds
<1> QED
  BY <1>3, <1>4, <1>5, <1>6, <1>7 DEF CrossReferenced

\* Replay never rejects what record accepted, unless a file is torn or something outside the two
\* logs that a record cites has gone (execution.py:350-370).
THEOREM AcceptedReplays == RegistersSpec => []AcceptedStaysReadable
<1>1. ASSUME RegistersInv
      PROVE  AcceptedStaysReadable
  <2> SUFFICES ASSUME Whole("evidence"),
                      NEW i \in DOMAIN log.execution,
                      log.execution[i].planned, Kept(log.execution[i].record)
               PROVE  CrossReferenced(log.execution[i].record, Records(SubSeq(log.execution, 1, i)))
    BY DEF AcceptedStaysReadable, LogHolds
  <2>1. log.execution \in Seq(Event)
    BY <1>1 DEF RegistersInv, RegistersTypeOK, Book
  <2>2. PICK q \in Request : log.execution[i].record = q.record
    <3>1. log.execution[i] \in Event
      BY <2>1
    <3> QED
      BY <3>1 DEF Event
  <2>3. Grounded(q.record, Records(SubSeq(log.execution, 1, i - 1)), Records(log.evidence))
    BY <1>1, <2>2 DEF RegistersInv, LogIsGrounded
  <2>4. Records(SubSeq(log.execution, 1, i)) =
          Records(SubSeq(log.execution, 1, i - 1)) \cup {q.record}
    <3>1. log.execution[i] \in Event
      BY <2>1
    <3> QED
      BY <2>1, <2>2, <3>1, RecordsBefore
  <2> QED
    BY <2>2, <2>3, <2>4, GroundedRecordHolds
<1> QED
  BY <1>1, RegistersInductive, PTL

\* No call gets past the replay of a torn book, and none on another book touches it.
LEMMA TornStays ==
  ASSUME RegistersTypeOK, [RegistersNext]_registers, NEW b \in Book, Torn(b)
  PROVE  /\ ~Locked(b)'
         /\ log'[b] = log[b] /\ partial'[b] = partial[b] /\ created'[b] = created[b]
         /\ \A i \in DOMAIN Projections[b] : shown'[Projections[b][i]] = shown[Projections[b][i]]
<1>1. /\ ~Whole(b) /\ ~Untouched(b)
      /\ \A p \in Process : pc[p] = Idle \/ pc[p].book # b
  BY DEF Torn, Locked
<1>2. CASE UNCHANGED registers
  BY <1>1, <1>2 DEF registers, Locked
<1>3. ASSUME NEW p \in Process, NEW c \in Book, CreateLog(p, c)
      PROVE  /\ ~Locked(b)' /\ UNCHANGED <<log, partial, shown>> /\ created'[b] = created[b]
  <2>1. c # b
    BY <1>1, <1>3 DEF CreateLog
  <2> QED
    BY <1>1, <1>3, <2>1 DEF CreateLog, Locked, RegistersTypeOK
<1>4. ASSUME NEW p \in Process, NEW q \in Request, Record(p, q)
      PROVE  ~Locked(b)' /\ UNCHANGED <<log, partial, created, shown>>
  <2>1. BookOf(q) # b
    BY <1>1, <1>4 DEF Record, Replays
  <2> QED
    BY <1>1, <1>4, <2>1 DEF Record, Locked, RegistersTypeOK
<1>5. ASSUME NEW p \in Process, AppendEvent(p)
      PROVE  ~Locked(b)' /\ UNCHANGED <<partial, created, shown>> /\ log'[b] = log[b]
  <2>1. pc[p] # Idle /\ pc[p].book # b
    BY <1>1, <1>5 DEF AppendEvent, Idle
  <2> QED
    BY <1>1, <1>5, <2>1 DEF AppendEvent, Locked, RegistersTypeOK
<1>6. ASSUME NEW p \in Process, Project(p)
      PROVE  /\ ~Locked(b)' /\ UNCHANGED <<log, partial, created>>
             /\ \A i \in DOMAIN Projections[b] : shown'[Projections[b][i]] = shown[Projections[b][i]]
  <2>1. pc[p] \in Projecting /\ pc[p].book # b
    BY <1>1, <1>6, Places DEF Project, Idle
  <2>2. pc[p].book \in Book /\ pc[p].next \in DOMAIN Projections[pc[p].book]
    BY <1>6, <2>1 DEF Projecting, Project, RegistersTypeOK
  <2>3. \A i \in DOMAIN Projections[b] : Projections[b][i] # Projections[pc[p].book][pc[p].next]
    BY <2>1, <2>2, BooksApart
  <2>4. \A i \in DOMAIN Projections[b] : Projections[b][i] \in RecordType
    BY BookFacts
  <2>5. \A o \in Process : pc'[o] = pc[o] \/ pc'[o] = Idle \/ (pc[o] # Idle /\ pc'[o].book = pc[o].book)
    BY <1>6, <2>1 DEF Project, Projecting, RegistersTypeOK, Idle
  <2>6. ~Locked(b)'
    BY <1>1, <2>5 DEF Locked
  <2>7. shown' = [shown EXCEPT ![Projections[pc[p].book][pc[p].next]] = Len(log[pc[p].book])]
        /\ UNCHANGED <<log, partial, created>>
    BY <1>6 DEF Project
  <2> QED
    BY <2>3, <2>4, <2>6, <2>7 DEF RegistersTypeOK
<1>7. ASSUME NEW p \in Process, Die(p)
      PROVE  ~Locked(b)' /\ UNCHANGED <<log, created, shown>> /\ partial'[b] = partial[b]
  BY <1>1, <1>7 DEF Die, Locked, RegistersTypeOK
<1>8. (\E new \in Plan : WritePlan(new)) \/ (\E a \in Approval : Decide(a))
        => UNCHANGED <<log, partial, created, shown, pc>>
  BY DEF WritePlan, Decide
<1>9. UNCHANGED pc => ~Locked(b)'
  BY <1>1 DEF Locked
<1> QED
  BY <1>2, <1>3, <1>4, <1>5, <1>6, <1>7, <1>8, <1>9, Steps

\* A book left torn by a dead process is never written again, by any number of later calls
\* (execution.py:428, evidence.py:246).
THEOREM TornIsFinal == RegistersSpec => TornBooksAreLeftAlone
<1>1. ASSUME RegistersInv, [RegistersNext]_registers, NEW b \in Book, Torn(b)
      PROVE  /\ Torn(b)'
             /\ log'[b] = log[b] /\ partial'[b] = partial[b] /\ created'[b] = created[b]
             /\ \A i \in DOMAIN Projections[b] :
                  shown'[Projections[b][i]] = shown[Projections[b][i]]
  <2>1. /\ ~Locked(b)'
        /\ log'[b] = log[b] /\ partial'[b] = partial[b] /\ created'[b] = created[b]
        /\ \A i \in DOMAIN Projections[b] : shown'[Projections[b][i]] = shown[Projections[b][i]]
    BY <1>1, TornStays DEF RegistersInv
  <2>2. ~Whole(b)' /\ ~Untouched(b)'
    BY <1>1, <2>1 DEF Torn, Whole, Complete, Projected, Untouched
  <2> QED
    BY <2>1, <2>2 DEF Torn
<1>2. RegistersInv /\ [RegistersNext]_registers =>
        [\A b \in Book : Torn(b) =>
           /\ Torn(b)'
           /\ log'[b] = log[b] /\ partial'[b] = partial[b] /\ created'[b] = created[b]
           /\ \A i \in DOMAIN Projections[b] :
                shown'[Projections[b][i]] = shown[Projections[b][i]]]_registers
  BY <1>1
<1> QED
  BY <1>2, RegistersInductive, PTL DEF RegistersSpec, TornBooksAreLeftAlone

-----------------------------------------------------------------------------
(* The inductive invariant of the builders, over that of the registers.    *)

ReadingAt == {"read", "judge"}
OfferingAt == {"compare", "write", "checkReport", "report"}

\* What a builder carries at each of its steps.
Carries(b) ==
  /\ work[b].at \in {"idle", "replay", "reject"} \cup ReadingAt \cup OfferingAt
  /\ work[b].at = "idle" <=> work[b] = Idle
  /\ work[b].at = "replay" =>
       work[b] \in [at : {"replay"}, request : BuildRequest, plan : Plan, runtime : Runtime]
  /\ work[b].at \in ReadingAt =>
       work[b] \in [at : ReadingAt, request : BuildRequest, plan : Plan, runtime : Runtime,
                    seen : {work[b].seen}, since : Nat]
  /\ work[b].at = "reject" => work[b] \in [at : {"reject"}, request : BuildRequest]
  /\ work[b].at \in OfferingAt =>
       work[b] \in [at : OfferingAt, request : BuildRequest, content : {work[b].content}, since : Nat]

\* The files that were read, in their order.
FirstRead(k) == {Read[i] : i \in 1 .. k}

\* A builder that reads has seen records of the log only.
SeesTheLog(b) ==
  /\ \E k \in 0 .. 5 : DOMAIN work[b].seen = FirstRead(k) /\ (work[b].at = "judge" <=> k = 5)
  /\ \A t \in DOMAIN work[b].seen : work[b].seen[t] \subseteq Of(Records(log.execution), t)

\* What a replay under a plan finds, when the log has since events: every PASS up to there is verified.
\* After it, only the call that then has the book may still append what it accepted without a plan.
Replayed(since) ==
  /\ plan # None
  /\ since <= Len(log.execution)
  /\ \A n \in DOMAIN log.execution :
       LET q == log.execution[n].record IN
       /\ n <= since /\ q.type = "QUALITY" /\ q.status = "PASS" =>
            VerifiedBy(Records(log.evidence), q.evidence, {q.id, q.output})
       /\ n > since + 1 => log.execution[n].planned
  /\ \A p \in Process :
       pc[p].at = "append" /\ pc[p].book = "execution" /\ ~pc[p].event.planned =>
         Len(log.execution) = since

\* The gaps leave room for one target only.
TargetFits(gaps, target) ==
  /\ target = "COMPLETE" => gaps = {}
  /\ target = "COMPLETE_WITH_GAPS" => gaps # {} /\ \A g \in gaps : ~g.blocking
  /\ target = "BLOCKED" => ~\A g \in gaps : ~g.blocking

\* What a judgement has established.
Judged(content, target, since) ==
  /\ TargetFits(content.gaps, target)
  /\ target # "BLOCKED" => Supported(content, target, since)

\* There is a result about, issued for this target.
Issued(about, target) == \E i \in issued : i.result = about /\ i.target = target

\* What holds of a builder: it sees the log while it reads, it offers what it has judged, and it
\* vouches for what was issued.
BuilderInv(b) ==
  /\ Carries(b)
  /\ work[b].at = "replay" => plan # None
  /\ work[b].at \in ReadingAt => SeesTheLog(b) /\ Replayed(work[b].since)
  /\ work[b].at \in OfferingAt => Judged(work[b].content, work[b].request.target, work[b].since)
  /\ work[b].at \in {"checkReport", "report"} => Issued(ThisResult(b), work[b].request.target)

IssuesAreJudged ==
  \A i \in issued : /\ i.target \in {"COMPLETE", "COMPLETE_WITH_GAPS", "BLOCKED"}
                    /\ Judged(i.result.content, i.target, i.since)
ResultIsIssued == result # None => \E i \in issued : i.result = result

ResultsInv ==
  /\ DOMAIN work = Builder
  /\ runtime \in Runtime
  /\ \A b \in Builder : BuilderInv(b)
  /\ IssuesAreJudged
  /\ ResultIsIssued
  /\ ReadyReportsWereJudged

-----------------------------------------------------------------------------
(* What steps of the registers leave to a builder.                         *)

\* A builder changes nothing in the registers.
LEMMA RegistersMove ==
  ASSUME [Next]_vars
  PROVE  [RegistersNext]_registers
<1>1. \A b \in Builder, request \in BuildRequest : Begin(b, request) => UNCHANGED registers
  BY DEF Begin
<1>2. \A b \in Builder :
        \/ ReplayBooks(b) \/ ReadProjection(b) \/ Judge(b) \/ Reject(b) \/ CompareResult(b)
        \/ WriteResult(b) \/ CompareReport(b) \/ WriteReport(b) \/ BuilderDies(b)
        => UNCHANGED registers
  BY DEF ReplayBooks, ReadProjection, Judge, Reject, CompareResult, WriteResult, CompareReport,
         WriteReport, BuilderDies
<1>3. Export \/ RuntimeMoves \/ UNCHANGED vars => UNCHANGED registers
  BY DEF Export, RuntimeMoves, vars
<1> QED
  BY <1>1, <1>2, <1>3 DEF Next, RegistersNext

\* The registers behave as Registers says, whatever builders do.
THEOREM RegistersAreShared == Spec => RegistersSpec
<1>1. Init => RegistersInit
  BY DEF Init
<1>2. [Next]_vars => [RegistersNext]_registers
  BY RegistersMove
<1> QED
  BY <1>1, <1>2, PTL DEF Spec, RegistersSpec

LEMMA LogFacts ==
  ASSUME RegistersInv
  PROVE  log.execution \in Seq(Event) /\ log.evidence \in Seq(Event)
  BY DEF RegistersInv, RegistersTypeOK, Book

LEMMA LogsOnlyGrow ==
  ASSUME RegistersInv, [RegistersNext]_registers
  PROVE  /\ Len(log.execution) <= Len(log'.execution)
         /\ DOMAIN log.execution \subseteq DOMAIN log'.execution
         /\ \A n \in DOMAIN log.execution : log'.execution[n] = log.execution[n]
         /\ Records(log.execution) \subseteq Records(log'.execution)
         /\ Records(log.evidence) \subseteq Records(log'.evidence)
<1>1. log.execution \in Seq(Event) /\ log.evidence \in Seq(Event)
  BY LogFacts
<1>2. CASE log' = log
  BY <1>1, <1>2
<1>3. ASSUME NEW e \in Event, log' = [log EXCEPT !["execution"] = Append(log["execution"], e)]
      PROVE  /\ log'.execution = Append(log.execution, e) /\ log'.evidence = log.evidence
             /\ Len(Append(log.execution, e)) = Len(log.execution) + 1
  BY <1>1, <1>3 DEF RegistersInv, RegistersTypeOK, Book
<1>4. ASSUME NEW e \in Event, log' = [log EXCEPT !["evidence"] = Append(log["evidence"], e)]
      PROVE  log'.evidence = Append(log.evidence, e) /\ log'.execution = log.execution
  BY <1>1, <1>4 DEF RegistersInv, RegistersTypeOK, Book
<1>5. \/ log' = log
      \/ \E e \in Event : log' = [log EXCEPT !["execution"] = Append(log["execution"], e)]
      \/ \E e \in Event : log' = [log EXCEPT !["evidence"] = Append(log["evidence"], e)]
  BY LogsGrow DEF RegistersInv, Book
<1>6. CASE \E e \in Event : log' = [log EXCEPT !["execution"] = Append(log["execution"], e)]
  BY <1>1, <1>3, <1>6, AppendAdds, RecordsBefore
<1>7. CASE \E e \in Event : log' = [log EXCEPT !["evidence"] = Append(log["evidence"], e)]
  BY <1>1, <1>4, <1>7, RecordsBefore
<1> QED
  BY <1>2, <1>5, <1>6, <1>7

\* There is a plan from the first one on.
LEMMA PlanStays ==
  ASSUME [RegistersNext]_registers, plan # None
  PROVE  plan' # None
  BY PlanAssumption, Steps
  DEF registers, CreateLog, Record, AppendEvent, Project, Die, WritePlan, Decide

LEMMA ReplayedStays ==
  ASSUME RegistersInv, [RegistersNext]_registers, NEW since \in Nat, Replayed(since)
  PROVE  Replayed(since)'
<1>1. plan' # None
  BY PlanStays DEF Replayed
<1>2. log.execution \in Seq(Event) /\ log.evidence \in Seq(Event)
  BY LogFacts
<1>3. \A refs, targets : VerifiedBy(Records(log.evidence), refs, targets) =>
                         VerifiedBy(Records(log'.evidence), refs, targets)
  BY LogsOnlyGrow DEF VerifiedBy
<1>4. CASE UNCHANGED <<log, pc>>
  BY <1>1, <1>4 DEF Replayed
<1>5. CASE log' = log /\ \A p \in Process : pc'[p] = pc[p] \/ pc'[p].at # "append"
  BY <1>1, <1>5 DEF Replayed
<1>6. ASSUME log' = log, NEW p \in Process, NEW q \in Request, Record(p, q),
             \A o \in Process : o # p => pc'[o] = pc[o]
      PROVE  Replayed(since)'
  <2>1. pc'[p].event.planned = TRUE
    BY <1>6 DEF Record, RegistersInv, RegistersTypeOK, Replayed
  <2> QED
    BY <1>1, <1>6, <2>1 DEF Replayed
<1>7. ASSUME NEW p \in Process, NEW b \in Book,
             pc[p].at = "append", pc[p].book = b, pc[p].event \in Event,
             log' = [log EXCEPT ![b] = Append(log[b], pc[p].event)],
             pc'[p].at # "append",
             \A o \in Process : o # p => pc'[o] = pc[o] /\ (pc[o].at = "append" => pc[o].book # b)
      PROVE  Replayed(since)'
  <2> DEFINE e == pc[p].event
  <2>1. CASE b = "evidence"
    <3>1. log'.execution = log.execution
      BY <1>7, <2>1 DEF RegistersInv, RegistersTypeOK, Book
    <3>2. \A o \in Process : pc'[o].at = "append" => pc'[o] = pc[o]
      BY <1>7
    <3> QED
      BY <1>1, <1>3, <3>1, <3>2 DEF Replayed
  <2>2. CASE b = "execution"
    <3>1. log'.execution = Append(log.execution, e)
      BY <1>7, <2>2 DEF RegistersInv, RegistersTypeOK, Book
    <3>2. /\ DOMAIN log'.execution = DOMAIN log.execution \cup {Len(log.execution) + 1}
          /\ \A n \in DOMAIN log.execution : log'.execution[n] = log.execution[n]
          /\ log'.execution[Len(log.execution) + 1] = e
          /\ Len(log'.execution) = Len(log.execution) + 1
      BY <1>2, <1>7, <3>1, AppendAdds
    <3>3. since <= Len(log.execution) /\ (~e.planned => Len(log.execution) = since)
      BY <1>7, <2>2 DEF Replayed
    <3>4. Len(log.execution) \in Nat
      BY <1>2
    <3>5. ASSUME NEW n \in DOMAIN log'.execution
          PROVE  LET q == log'.execution[n].record IN
                 /\ n <= since /\ q.type = "QUALITY" /\ q.status = "PASS" =>
                      VerifiedBy(Records(log'.evidence), q.evidence, {q.id, q.output})
                 /\ n > since + 1 => log'.execution[n].planned
      <4>1. CASE n \in DOMAIN log.execution
        BY <1>3, <3>2, <4>1 DEF Replayed
      <4>2. CASE n = Len(log.execution) + 1
        BY <3>2, <3>3, <3>4, <4>2
      <4> QED
        BY <3>2, <4>1, <4>2
    <3>6. \A o \in Process : ~(pc'[o].at = "append" /\ pc'[o].book = "execution")
      BY <1>7, <2>2
    <3>7. since <= Len(log'.execution)
      BY <3>2, <3>3, <3>4
    <3> QED
      BY <1>1, <3>5, <3>6, <3>7 DEF Replayed
  <2> QED
    BY <2>1, <2>2 DEF Book
<1> QED
  BY <1>4, <1>5, <1>6, <1>7, LogsGrow DEF RegistersInv

LEMMA SupportStays ==
  ASSUME RegistersInv, [RegistersNext]_registers,
         NEW content, NEW target, NEW since, Supported(content, target, since)
  PROVE  Supported(content, target, since)'
<1>1. \A refs, targets : Verified(refs, targets) => VerifiedBy(Records(log'.evidence), refs, targets)
  BY LogsOnlyGrow, VerifiedByLog DEF VerifiedBy
<1>2. ASSUME NEW o \in content.outputs
      PROVE  /\ o \in Of(Records(log'.execution), "OUTPUT") /\ o.status = "AVAILABLE"
             /\ \E n \in DOMAIN log'.execution :
                  LET q == log'.execution[n].record IN
                  /\ q.type = "QUALITY" /\ q.output = o.id
                  /\ q.status = "PASS" /\ q.external = "VERIFIED"
                  /\ \/ VerifiedBy(Records(log'.evidence), q.evidence, {q.id, q.output})
                     \/ ~log'.execution[n].planned /\ n = since + 1
  <2>1. o \in Of(Records(log'.execution), "OUTPUT") /\ o.status = "AVAILABLE"
    BY <1>2, LogsOnlyGrow DEF Supported, Of
  <2>2. PICK n \in DOMAIN log.execution :
          LET q == log.execution[n].record IN
          /\ q.type = "QUALITY" /\ q.output = o.id
          /\ q.status = "PASS" /\ q.external = "VERIFIED"
          /\ \/ Verified(q.evidence, {q.id, q.output})
             \/ ~log.execution[n].planned /\ n = since + 1
    BY <1>2 DEF Supported
  <2>3. n \in DOMAIN log'.execution /\ log'.execution[n] = log.execution[n]
    BY LogsOnlyGrow
  <2> QED
    BY <1>1, <2>1, <2>2, <2>3
<1>3. \A g \in content.gaps : target = "COMPLETE_WITH_GAPS" /\ ~g.blocking
  BY DEF Supported
<1> QED
  BY <1>2, <1>3 DEF Supported, Verified, VerifiedBy

LEMMA JudgedStays ==
  ASSUME RegistersInv, [RegistersNext]_registers,
         NEW content, NEW target, NEW since, Judged(content, target, since)
  PROVE  Judged(content, target, since)'
  BY SupportStays DEF Judged

-----------------------------------------------------------------------------
(* What the steps of a builder do.                                         *)

\* A builder that does nothing keeps what it has.
LEMMA BuilderStays ==
  ASSUME RegistersInv, [RegistersNext]_registers, NEW b \in Builder, BuilderInv(b),
         work'[b] = work[b], issued \subseteq issued'
  PROVE  BuilderInv(b)'
<1>1. Carries(b)'
  BY DEF BuilderInv, Carries
<1>2. ASSUME work[b].at \in ReadingAt
      PROVE  SeesTheLog(b)' /\ Replayed(work[b].since)'
  <2>1. SeesTheLog(b) /\ Replayed(work[b].since) /\ work[b].since \in Nat
    BY <1>2 DEF BuilderInv, Carries
  <2>2. \A t : Of(Records(log.execution), t) \subseteq Of(Records(log'.execution), t)
    BY LogsOnlyGrow DEF Of
  <2>3. SeesTheLog(b)'
    BY <2>1, <2>2 DEF SeesTheLog
  <2>4. \A since \in Nat : Replayed(since) => Replayed(since)'
    BY ReplayedStays
  <2>5. \A since : since = work[b].since => Replayed(since)'
    BY <2>1, <2>4
  <2> QED
    BY <2>3, <2>5
<1> QED
  BY <1>1, <1>2, JudgedStays, PlanStays DEF BuilderInv, Issued, ThisResult

LEMMA BuilderMoves ==
  ASSUME DOMAIN work = Builder, NEW b \in Builder, NEW w, Move(b, w)
  PROVE  DOMAIN work' = Builder /\ work'[b] = w /\ \A c \in Builder : c # b => work'[c] = work[c]
  BY DEF Move

LEMMA IdleBuilder ==
  ASSUME NEW b \in Builder, work'[b] = Idle
  PROVE  BuilderInv(b)'
  BY DEF BuilderInv, Carries, Idle, ReadingAt, OfferingAt

\* After a replay nothing is unverified, whatever came before there was a plan.
LEMMA ReplayIsReplayed ==
  ASSUME RegistersInv, plan # None, Replays("execution")
  PROVE  Replayed(Len(log.execution)) /\ Len(log.execution) \in Nat
<1>1. log.execution \in Seq(Event)
  BY LogFacts
<1>2. LogHolds("execution")
  BY DEF Replays
<1>3. ASSUME NEW n \in DOMAIN log.execution,
             log.execution[n].record.type = "QUALITY", log.execution[n].record.status = "PASS"
      PROVE  VerifiedBy(Records(log.evidence), log.execution[n].record.evidence,
                        {log.execution[n].record.id, log.execution[n].record.output})
  <2>1. log.execution[n].record \in Of(Records(log.execution), "QUALITY")
    BY <1>3 DEF Of, Records
  <2> QED
    BY <1>1, <1>2, <1>3, <2>1, ReplayedPasses
<1>4. \A n \in DOMAIN log.execution : ~(n > Len(log.execution) + 1)
  BY <1>1
<1>5. Len(log.execution) \in Nat /\ Len(log.execution) <= Len(log.execution)
  BY <1>1
<1>6. ASSUME NEW n \in DOMAIN log.execution
      PROVE  LET q == log.execution[n].record IN
             /\ n <= Len(log.execution) /\ q.type = "QUALITY" /\ q.status = "PASS" =>
                  VerifiedBy(Records(log.evidence), q.evidence, {q.id, q.output})
             /\ n > Len(log.execution) + 1 => log.execution[n].planned
  BY <1>3, <1>4
<1> QED
  BY <1>5, <1>6 DEF Replayed

LEMMA ReadFacts ==
  /\ DOMAIN Read = 1 .. 5 /\ Len(Read) = 5
  /\ \A k \in 0 .. 5 : IsFiniteSet(FirstRead(k)) /\ Cardinality(FirstRead(k)) = k
  /\ \A k \in 0 .. 4 : FirstRead(k + 1) = FirstRead(k) \cup {Read[k + 1]}
  /\ FirstRead(0) = {}
  /\ FirstRead(5) = {"OUTPUT", "QUALITY", "OBSERVATION", "INSTALLATION_PLAN", "INSTALLATION_RESULT"}
  /\ \A i \in DOMAIN Read : \E j \in DOMAIN Projections["execution"] :
       Read[i] = Projections["execution"][j]
<1>1. DOMAIN Read = 1 .. 5 /\ Len(Read) = 5
  BY DEF Read
<1>2. \A i, j \in 1 .. 5 : Read[i] = Read[j] => i = j
  BY DEF Read
<1>3. FirstRead(0) = {}
  BY DEF FirstRead
<1>4. \A k \in 0 .. 4 : FirstRead(k + 1) = FirstRead(k) \cup {Read[k + 1]} /\ Read[k + 1] \notin FirstRead(k)
  <2> SUFFICES ASSUME NEW k \in 0 .. 4
               PROVE  FirstRead(k + 1) = FirstRead(k) \cup {Read[k + 1]} /\ Read[k + 1] \notin FirstRead(k)
    OBVIOUS
  <2>1. 1 .. (k + 1) = (1 .. k) \cup {k + 1} /\ (k + 1) \notin 1 .. k
        /\ 1 .. k \subseteq 1 .. 5 /\ k + 1 \in 1 .. 5
    OBVIOUS
  <2>2. Read[k + 1] \notin FirstRead(k)
    BY <1>2, <2>1 DEF FirstRead
  <2>3. FirstRead(k + 1) = FirstRead(k) \cup {Read[k + 1]}
    BY <2>1 DEF FirstRead
  <2> QED
    BY <2>2, <2>3
<1>5. IsFiniteSet(FirstRead(0)) /\ Cardinality(FirstRead(0)) = 0
  BY <1>3, FS_EmptySet
<1>6. ASSUME NEW k \in 0 .. 4, IsFiniteSet(FirstRead(k)), Cardinality(FirstRead(k)) = k
      PROVE  IsFiniteSet(FirstRead(k + 1)) /\ Cardinality(FirstRead(k + 1)) = k + 1
  <2>1. /\ IsFiniteSet(FirstRead(k) \cup {Read[k + 1]})
        /\ Cardinality(FirstRead(k) \cup {Read[k + 1]}) = Cardinality(FirstRead(k)) + 1
    BY <1>4, <1>6, FS_AddElement
  <2> QED
    BY <1>4, <1>6, <2>1
<1>7. \A k \in 0 .. 5 : IsFiniteSet(FirstRead(k)) /\ Cardinality(FirstRead(k)) = k
  <2> DEFINE Counted(k) == IsFiniteSet(FirstRead(k)) /\ Cardinality(FirstRead(k)) = k
  <2>1. Counted(0) /\ (Counted(0) => Counted(1)) /\ (Counted(1) => Counted(2)) /\ (Counted(2) => Counted(3))
        /\ (Counted(3) => Counted(4)) /\ (Counted(4) => Counted(5))
    BY <1>5, <1>6
  <2> HIDE DEF Counted
  <2>2. \A k \in 0 .. 5 : k = 0 \/ k = 1 \/ k = 2 \/ k = 3 \/ k = 4 \/ k = 5
    OBVIOUS
  <2>3. \A k \in 0 .. 5 : Counted(k)
    BY <2>1, <2>2
  <2> QED
    BY <2>3 DEF Counted
<1>8. FirstRead(5) = {"OUTPUT", "QUALITY", "OBSERVATION", "INSTALLATION_PLAN", "INSTALLATION_RESULT"}
  BY DEF FirstRead, Read
<1>9. \A i \in DOMAIN Read : \E j \in DOMAIN Projections["execution"] :
       Read[i] = Projections["execution"][j]
  BY DEF Read, Projections
<1> QED
  BY <1>1, <1>3, <1>4, <1>7, <1>8, <1>9

\* What a file shows is in the log.
LEMMA ShownIsLogged ==
  ASSUME RegistersInv, NEW i \in DOMAIN Read
  PROVE  Shown(Read[i]) \subseteq Of(Records(log.execution), Read[i])
<1>1. log.execution \in Seq(Event)
  BY LogFacts
<1>2. shown[Read[i]] \in Int /\ shown[Read[i]] <= Len(log.execution)
  <2>1. PICK j \in DOMAIN Projections["execution"] : Read[i] = Projections["execution"][j]
    BY ReadFacts
  <2> QED
    BY <2>1, BookFacts DEF RegistersInv, RegistersTypeOK, ShownTrailsLog, Book
<1>3. \A n \in DOMAIN SubSeq(log.execution, 1, shown[Read[i]]) :
        n \in DOMAIN log.execution /\ SubSeq(log.execution, 1, shown[Read[i]])[n] = log.execution[n]
  BY <1>1, <1>2
<1> QED
  BY <1>3 DEF Shown, Of, Records

\* What is not missing holds: the two rules that the proofs below need.
LEMMA NothingMissing ==
  ASSUME NEW w, NEW target, Missing(w, target) = {}
  PROVE  /\ GapRules(Gaps(w))[target]
         /\ \A o \in Outputs(w.seen) : \E q \in QualityOf(o, w.seen) :
              q.status = "PASS" /\ q.external = "VERIFIED" /\ q.evidence # {}
<1> DEFINE gap == GapRules(Gaps(w))[target]
           quality == \A o \in Outputs(w.seen) : \E q \in QualityOf(o, w.seen) :
                        q.status = "PASS" /\ q.external = "VERIFIED" /\ q.evidence # {}
<1>1. ~gap => "gap_rules" \in Missing(w, target)
  BY DEF Missing
<1>2. ~quality => "available_output_quality_verified" \in Missing(w, target)
  BY DEF Missing
<1> QED
  BY <1>1, <1>2

\* A judgement that is not a rejection is right about the logs.
LEMMA JudgementIsRight ==
  ASSUME RegistersInv, NEW b \in Builder, BuilderInv(b), work[b].at = "judge",
         ~Rejected(work[b], work[b].request.target)
  PROVE  Judged(Content(work[b]), work[b].request.target, work[b].since)
<1> DEFINE w == work[b]
           target == w.request.target
<1>1. /\ SeesTheLog(b) /\ Replayed(w.since) /\ w.since \in Nat /\ w.request \in BuildRequest
      /\ target \in {"COMPLETE", "COMPLETE_WITH_GAPS", "BLOCKED"}
  BY TargetAssumption DEF BuilderInv, Carries, ReadingAt
<1>2. target # "BLOCKED" => Missing(w, target) = {}
  BY DEF Rejected
<1>3. TargetFits(Gaps(w), target)
  <2>1. CASE target = "BLOCKED"
    BY <2>1 DEF Rejected, TargetFits
  <2>2. target # "BLOCKED" => GapRules(Gaps(w))[target]
    BY <1>2, NothingMissing
  <2>3. CASE target = "COMPLETE"
    <3>1. GapRules(Gaps(w))["COMPLETE"]
      BY <2>2, <2>3
    <3>2. Gaps(w) = {}
      BY <3>1 DEF GapRules
    <3> QED
      BY <2>3, <3>2 DEF TargetFits
  <2>4. CASE target = "COMPLETE_WITH_GAPS"
    <3>1. GapRules(Gaps(w))["COMPLETE_WITH_GAPS"]
      BY <2>2, <2>4
    <3>2. Gaps(w) # {} /\ \A g \in Gaps(w) : ~g.blocking
      BY <3>1 DEF GapRules
    <3> QED
      BY <2>4, <3>2 DEF TargetFits
  <2> QED
    BY <1>1, <2>1, <2>3, <2>4
<1>4. /\ w.seen.OUTPUT \subseteq Of(Records(log.execution), "OUTPUT")
      /\ w.seen.QUALITY \subseteq Of(Records(log.execution), "QUALITY")
  BY <1>1, ReadFacts DEF SeesTheLog
<1>5. ASSUME target # "BLOCKED", NEW o \in Outputs(w.seen)
      PROVE  /\ o \in Of(Records(log.execution), "OUTPUT") /\ o.status = "AVAILABLE"
             /\ \E n \in DOMAIN log.execution :
                  LET q == log.execution[n].record IN
                  /\ q.type = "QUALITY" /\ q.output = o.id
                  /\ q.status = "PASS" /\ q.external = "VERIFIED"
                  /\ \/ Verified(q.evidence, {q.id, q.output})
                     \/ ~log.execution[n].planned /\ n = w.since + 1
  <2>1. o \in w.seen.OUTPUT /\ o.status = "AVAILABLE"
    BY <1>5 DEF Outputs, Latest
  <2>2. PICK q \in QualityOf(o, w.seen) : q.status = "PASS" /\ q.external = "VERIFIED"
    BY <1>2, <1>5, NothingMissing
  <2>3. q \in w.seen.QUALITY /\ q.output = o.id
    BY DEF QualityOf, Latest
  <2>4. q \in Records(log.execution) /\ q.type = "QUALITY"
    BY <1>4, <2>3 DEF Of
  <2>5. PICK n \in DOMAIN log.execution : log.execution[n].record = q
    BY <2>4 DEF Records
  <2>6. CASE log.execution[n].planned
    <3>1. Grounded(q, Records(SubSeq(log.execution, 1, n - 1)), Records(log.evidence))
      BY <2>5, <2>6 DEF RegistersInv, LogIsGrounded
    <3>2. VerifiedBy(Records(log.evidence), q.evidence, {q.id, q.output})
      BY <2>2, <2>4, <3>1 DEF Grounded, QualityGrounded
    <3> QED
      BY <1>4, <2>1, <2>2, <2>3, <2>4, <2>5, <3>2, VerifiedByLog
  <2>7. CASE ~log.execution[n].planned
    <3>1. ~(n > w.since + 1)
      BY <1>1, <2>7 DEF Replayed
    <3>2. n <= w.since => VerifiedBy(Records(log.evidence), q.evidence, {q.id, q.output})
      BY <1>1, <2>2, <2>4, <2>5 DEF Replayed
    <3>3. n \in Nat
      BY LogFacts
    <3>4. n <= w.since \/ n = w.since + 1
      BY <1>1, <3>1, <3>3
    <3> QED
      BY <1>4, <2>1, <2>2, <2>3, <2>4, <2>5, <2>7, <3>2, <3>4, VerifiedByLog
  <2> QED
    BY <2>6, <2>7
<1>6. target # "BLOCKED" => \A g \in Gaps(w) : target = "COMPLETE_WITH_GAPS" /\ ~g.blocking
  BY <1>1, <1>3 DEF TargetFits
<1> QED
  BY <1>3, <1>5, <1>6 DEF Judged, Supported, Content

\* The gaps of a result tell its target.
LEMMA OneTarget ==
  ASSUME NEW gaps, NEW t, NEW u, TargetFits(gaps, t), TargetFits(gaps, u),
         t \in {"COMPLETE", "COMPLETE_WITH_GAPS", "BLOCKED"},
         u \in {"COMPLETE", "COMPLETE_WITH_GAPS", "BLOCKED"}
  PROVE  t = u
  BY DEF TargetFits

-----------------------------------------------------------------------------
(* Each step keeps the invariant.                                          *)

LEMMA BeginStep ==
  ASSUME RegistersInv, ResultsInv, NEW b \in Builder, NEW request \in BuildRequest, Begin(b, request)
  PROVE  BuilderInv(b)'
<1>1. plan \in Plan /\ runtime \in Runtime /\ plan # None /\ plan' = plan
  BY DEF Begin, RegistersInv, RegistersTypeOK, ResultsInv, registers
<1>2. work'[b] = [at |-> "replay", request |-> request, plan |-> plan, runtime |-> runtime]
  BY BuilderMoves DEF Begin, ResultsInv
<1> QED
  BY <1>1, <1>2 DEF BuilderInv, Carries, Idle, ReadingAt, OfferingAt

LEMMA ReplayStep ==
  ASSUME RegistersInv, ResultsInv, NEW b \in Builder, ReplayBooks(b)
  PROVE  BuilderInv(b)'
<1>1. work[b].at = "replay" /\ BuilderInv(b) /\ UNCHANGED registers
  BY DEF ReplayBooks, Stage, ResultsInv
<1>2. CASE work'[b] = Idle
  BY <1>2, IdleBuilder
<1>3. ASSUME Replays("execution"),
             work'[b] = [at |-> "read", request |-> work[b].request, plan |-> work[b].plan,
                         runtime |-> work[b].runtime, seen |-> <<>>, since |-> Len(log.execution)]
      PROVE  BuilderInv(b)'
  <2>1. plan # None /\ work[b] \in [at : {"replay"}, request : BuildRequest, plan : Plan, runtime : Runtime]
    BY <1>1 DEF BuilderInv, Carries
  <2>2. Replayed(Len(log.execution)) /\ Len(log.execution) \in Nat
    BY <1>3, <2>1, ReplayIsReplayed
  <2>3. Carries(b)'
    BY <1>3, <2>1, <2>2 DEF Carries, Idle, ReadingAt, OfferingAt
  <2>4. SeesTheLog(b)'
    <3>1. work'[b].seen = <<>> /\ DOMAIN work'[b].seen = FirstRead(0) /\ work'[b].at = "read"
      BY <1>3, ReadFacts
    <3>2. 0 \in 0 .. 5
      OBVIOUS
    <3> QED
      BY <3>1, <3>2, ReadFacts DEF SeesTheLog
  <2>5. Replayed(work[b].since)'
    <3>1. work'[b].since = Len(log.execution)
      BY <1>3
    <3> QED
      BY <1>1, <2>2, <3>1 DEF Replayed, registers
  <2> QED
    BY <1>3, <2>3, <2>4, <2>5 DEF BuilderInv, ReadingAt, OfferingAt
<1> QED
  BY <1>2, <1>3, BuilderMoves DEF ReplayBooks, ResultsInv

LEMMA ReadStep ==
  ASSUME RegistersInv, ResultsInv, NEW b \in Builder, ReadProjection(b)
  PROVE  BuilderInv(b)'
<1> DEFINE w == work[b]
           t == Read[Cardinality(DOMAIN w.seen) + 1]
           seen == [u \in DOMAIN w.seen \cup {t} |-> IF u = t THEN Shown(t) ELSE w.seen[u]]
<1>1. /\ w.at = "read" /\ Carries(b) /\ SeesTheLog(b) /\ Replayed(w.since)
      /\ UNCHANGED registers
  BY DEF ReadProjection, Stage, ResultsInv, BuilderInv, ReadingAt
<1>2. w \in [at : ReadingAt, request : BuildRequest, plan : Plan, runtime : Runtime,
             seen : {w.seen}, since : Nat]
  BY <1>1 DEF Carries, ReadingAt
<1>3. work'[b] = [w EXCEPT !.seen = seen,
                           !.at = IF Cardinality(DOMAIN seen) = Len(Read) THEN "judge" ELSE "read"]
  BY BuilderMoves DEF ReadProjection, ResultsInv
<1>4. PICK k \in 0 .. 4 : DOMAIN w.seen = FirstRead(k)
  BY <1>1 DEF SeesTheLog
<1>5. t = Read[k + 1] /\ k + 1 \in DOMAIN Read /\ DOMAIN seen = FirstRead(k + 1)
      /\ Cardinality(DOMAIN seen) = k + 1
  <2>1. k \in 0 .. 5 /\ k + 1 \in 0 .. 5 /\ k + 1 \in 1 .. 5
    OBVIOUS
  <2>2. t = Read[k + 1] /\ k + 1 \in DOMAIN Read
    BY <1>4, <2>1, ReadFacts
  <2>3. DOMAIN seen = FirstRead(k + 1)
    BY <1>4, <2>2, ReadFacts
  <2> QED
    BY <2>1, <2>2, <2>3, ReadFacts
<1> HIDE DEF seen
<1>6. /\ work'[b].seen = seen /\ work'[b].since = w.since /\ work'[b].request = w.request
      /\ work'[b].at = IF k + 1 = 5 THEN "judge" ELSE "read"
      /\ work'[b] \in [at : ReadingAt, request : BuildRequest, plan : Plan, runtime : Runtime,
                       seen : {seen}, since : Nat]
  BY <1>2, <1>3, <1>5, ReadFacts DEF ReadingAt
<1>7. Carries(b)'
  BY <1>6 DEF Carries, Idle, ReadingAt, OfferingAt
<1>8. SeesTheLog(b)'
  <2>1. \A u \in DOMAIN seen : seen[u] \subseteq Of(Records(log.execution), u)
    BY <1>1, <1>5, ShownIsLogged DEF SeesTheLog, seen
  <2> QED
    BY <1>1, <1>5, <1>6, <2>1 DEF SeesTheLog, registers
<1>9. Replayed(work[b].since)'
  BY <1>1, <1>6 DEF Replayed, registers
<1> QED
  BY <1>6, <1>7, <1>8, <1>9 DEF BuilderInv, ReadingAt, OfferingAt

LEMMA JudgeStep ==
  ASSUME RegistersInv, ResultsInv, NEW b \in Builder, Judge(b)
  PROVE  BuilderInv(b)'
<1> DEFINE w == work[b]
<1>1. /\ w.at = "judge" /\ BuilderInv(b) /\ UNCHANGED registers
      /\ w.request \in BuildRequest /\ w.since \in Nat
  BY DEF Judge, Stage, ResultsInv, BuilderInv, Carries, ReadingAt
<1>2. CASE work'[b] = Idle
  BY <1>2, IdleBuilder
<1>3. CASE work'[b] = [at |-> "reject", request |-> w.request]
  BY <1>1, <1>3 DEF BuilderInv, Carries, Idle, ReadingAt, OfferingAt
<1>4. ASSUME ~Rejected(w, w.request.target),
             work'[b] = [at |-> "compare", request |-> w.request, content |-> Content(w), since |-> w.since]
      PROVE  BuilderInv(b)'
  <2>1. Judged(Content(w), w.request.target, w.since)
    BY <1>1, <1>4, JudgementIsRight
  <2>2. Judged(work[b].content, work[b].request.target, work[b].since)'
    BY <1>1, <1>4, <2>1 DEF Judged, Supported, Verified, registers
  <2>3. Carries(b)'
    BY <1>1, <1>4 DEF Carries, Idle, ReadingAt, OfferingAt
  <2> QED
    BY <1>4, <2>2, <2>3 DEF BuilderInv, ReadingAt
<1> QED
  BY <1>2, <1>3, <1>4, BuilderMoves DEF Judge, ResultsInv

\* What a builder with an offer has, and keeps while it goes from one step to the next.
LEMMA OfferFacts ==
  ASSUME ResultsInv, NEW b \in Builder, work[b].at \in OfferingAt
  PROVE  /\ work[b] \in [at : OfferingAt, request : BuildRequest, content : {work[b].content}, since : Nat]
         /\ work[b].request.target \in {"COMPLETE", "COMPLETE_WITH_GAPS", "BLOCKED"}
         /\ Judged(work[b].content, work[b].request.target, work[b].since)
         /\ work[b].at \in {"checkReport", "report"} => Issued(ThisResult(b), work[b].request.target)
<1>1. BuilderInv(b)
  BY DEF ResultsInv
<1>2. work[b] \in [at : OfferingAt, request : BuildRequest, content : {work[b].content}, since : Nat]
  BY <1>1 DEF BuilderInv, Carries
<1>3. work[b].request.target \in {"COMPLETE", "COMPLETE_WITH_GAPS", "BLOCKED"}
  BY <1>2, TargetAssumption
<1> QED
  BY <1>1, <1>2, <1>3 DEF BuilderInv

LEMMA OfferStep ==
  ASSUME RegistersInv, ResultsInv, NEW b \in Builder, work[b].at \in OfferingAt,
         NEW at \in OfferingAt, work'[b] = [work[b] EXCEPT !.at = at], UNCHANGED registers,
         at \in {"checkReport", "report"} => Issued(ThisResult(b), work[b].request.target)'
  PROVE  BuilderInv(b)'
<1>1. work[b] \in [at : OfferingAt, request : BuildRequest, content : {work[b].content}, since : Nat]
  BY OfferFacts
<1>2. /\ work'[b] \in [at : OfferingAt, request : BuildRequest, content : {work[b].content}, since : Nat]
      /\ work'[b].at = at /\ work'[b].request = work[b].request
      /\ work'[b].content = work[b].content /\ work'[b].since = work[b].since
  BY <1>1
<1>3. Carries(b)'
  BY <1>2 DEF Carries, Idle, ReadingAt, OfferingAt
<1>4. Judged(work[b].content, work[b].request.target, work[b].since)'
  BY <1>2, OfferFacts DEF Judged, Supported, Verified, registers
<1> QED
  BY <1>2, <1>3, <1>4 DEF BuilderInv, ReadingAt, OfferingAt

\* An offer that is the result that is there was issued, and for the same target.
LEMMA CompareStep ==
  ASSUME RegistersInv, ResultsInv, NEW b \in Builder, CompareResult(b)
  PROVE  BuilderInv(b)'
<1>1. work[b].at = "compare" /\ work[b].at \in OfferingAt /\ UNCHANGED <<registers, issued>>
  BY DEF CompareResult, Stage, OfferingAt
<1>2. CASE work'[b] = Idle
  BY <1>2, IdleBuilder
<1>3. CASE work'[b] = [work[b] EXCEPT !.at = "write"]
  <2>1. "write" \in OfferingAt
    BY DEF OfferingAt
  <2> QED
    BY <1>1, <1>3, <2>1, OfferStep
<1>4. ASSUME result # None, result = ThisResult(b), work'[b] = [work[b] EXCEPT !.at = "checkReport"]
      PROVE  BuilderInv(b)'
  <2>1. PICK i \in issued : i.result = ThisResult(b)
    BY <1>4 DEF ResultsInv, ResultIsIssued
  <2>2. i.result.content = work[b].content
    BY <2>1 DEF ThisResult
  <2>3. /\ i.target \in {"COMPLETE", "COMPLETE_WITH_GAPS", "BLOCKED"}
        /\ TargetFits(work[b].content.gaps, i.target)
    BY <2>2 DEF ResultsInv, IssuesAreJudged, Judged
  <2>4. i.target = work[b].request.target
    BY <1>1, <2>3, OfferFacts, OneTarget DEF Judged
  <2>5. Issued(ThisResult(b), work[b].request.target)
    BY <2>1, <2>4 DEF Issued
  <2>6. ThisResult(b)' = ThisResult(b) /\ work'[b].request = work[b].request
    BY <1>1, <1>4, OfferFacts DEF ThisResult
  <2>7. Issued(ThisResult(b), work[b].request.target)'
    BY <1>1, <2>5, <2>6 DEF Issued
  <2>8. "checkReport" \in OfferingAt
    BY DEF OfferingAt
  <2> QED
    BY <1>1, <1>4, <2>7, <2>8, OfferStep
<1> QED
  BY <1>2, <1>3, <1>4, BuilderMoves DEF CompareResult, ResultsInv

LEMMA WriteStep ==
  ASSUME RegistersInv, ResultsInv, NEW b \in Builder, WriteResult(b)
  PROVE  BuilderInv(b)' /\ IssuesAreJudged' /\ ResultIsIssued' /\ issued \subseteq issued'
<1> DEFINE new == [result |-> ThisResult(b), target |-> work[b].request.target, since |-> work[b].since]
<1>1. /\ work[b].at = "write" /\ work[b].at \in OfferingAt /\ UNCHANGED registers
      /\ result' = ThisResult(b) /\ issued' = issued \cup {new}
      /\ work'[b] = [work[b] EXCEPT !.at = "checkReport"]
  <2>1. DOMAIN work = Builder
    BY DEF ResultsInv
  <2>2. Move(b, [work[b] EXCEPT !.at = "checkReport"]) /\ Stage(b, "write")
    BY DEF WriteResult
  <2>3. UNCHANGED registers /\ result' = ThisResult(b) /\ issued' = issued \cup {new}
    BY DEF WriteResult
  <2> QED
    BY <2>1, <2>2, <2>3, BuilderMoves DEF Stage, OfferingAt
<1>2. ThisResult(b)' = ThisResult(b) /\ work'[b].request = work[b].request
  <2>1. work[b] \in [at : OfferingAt, request : BuildRequest, content : {work[b].content}, since : Nat]
    BY <1>1, OfferFacts
  <2>2. work'[b].request = work[b].request /\ work'[b].content = work[b].content
    BY <1>1, <2>1
  <2> QED
    BY <2>2 DEF ThisResult
<1>3. Issued(ThisResult(b), work[b].request.target)'
  <2>1. new \in issued' /\ new.result = ThisResult(b)' /\ new.target = work'[b].request.target
    BY <1>1, <1>2
  <2> QED
    BY <2>1 DEF Issued
<1>4. BuilderInv(b)'
  <2>1. "checkReport" \in OfferingAt
    BY DEF OfferingAt
  <2> QED
    BY <1>1, <1>3, <2>1, OfferStep
<1>5. IssuesAreJudged'
  <2>1. ASSUME NEW content, NEW target, NEW since, Judged(content, target, since)
        PROVE  Judged(content, target, since)'
    BY <1>1, <2>1 DEF Judged, Supported, Verified, registers
  <2>2. new.result.content = work[b].content
    BY DEF ThisResult
  <2>3. new.target \in {"COMPLETE", "COMPLETE_WITH_GAPS", "BLOCKED"} /\ Judged(new.result.content, new.target, new.since)
    BY <1>1, <2>2, OfferFacts
  <2>4. ASSUME NEW j \in issued'
        PROVE  /\ j.target \in {"COMPLETE", "COMPLETE_WITH_GAPS", "BLOCKED"}
               /\ Judged(j.result.content, j.target, j.since)
    <3>1. CASE j \in issued
      BY <3>1 DEF ResultsInv, IssuesAreJudged
    <3>2. CASE j = new
      BY <2>3, <3>2
    <3> QED
      BY <1>1, <2>4, <3>1, <3>2
  <2>5. \A j \in issued' : Judged(j.result.content, j.target, j.since)'
    BY <2>1, <2>4
  <2> QED
    BY <2>4, <2>5 DEF IssuesAreJudged
<1>6. ResultIsIssued'
  <2>1. new \in issued' /\ new.result = result'
    BY <1>1
  <2> QED
    BY <2>1 DEF ResultIsIssued
<1> QED
  BY <1>1, <1>4, <1>5, <1>6

LEMMA CheckReportStep ==
  ASSUME RegistersInv, ResultsInv, NEW b \in Builder, CompareReport(b)
  PROVE  BuilderInv(b)'
<1>1. work[b].at = "checkReport" /\ work[b].at \in OfferingAt /\ UNCHANGED <<registers, issued>>
  BY DEF CompareReport, Stage, OfferingAt
<1>2. CASE work'[b] = Idle
  BY <1>2, IdleBuilder
<1>3. CASE work'[b] = [work[b] EXCEPT !.at = "report"]
  <2>1. ThisResult(b)' = ThisResult(b) /\ work'[b].request = work[b].request
    BY <1>1, <1>3, OfferFacts DEF ThisResult
  <2>2. Issued(ThisResult(b), work[b].request.target)'
    BY <1>1, <2>1, OfferFacts DEF Issued
  <2>3. "report" \in OfferingAt
    BY DEF OfferingAt
  <2> QED
    BY <1>1, <1>3, <2>2, <2>3, OfferStep
<1> QED
  BY <1>2, <1>3, BuilderMoves DEF CompareReport, ResultsInv

\* Every step leaves each builder with its invariant.
LEMMA BuilderStep ==
  ASSUME RegistersInv, ResultsInv, [Next]_vars, NEW b \in Builder
  PROVE  BuilderInv(b)' /\ DOMAIN work' = Builder /\ issued \subseteq issued'
<1>1. DOMAIN work = Builder /\ BuilderInv(b)
  BY DEF ResultsInv
<1>2. work'[b] = work[b] /\ issued \subseteq issued' => BuilderInv(b)'
  BY <1>1, RegistersMove, BuilderStays
<1>3. CASE UNCHANGED <<work, issued>>
  BY <1>1, <1>2, <1>3
<1>4. ASSUME NEW c \in Builder,
             \/ \E request \in BuildRequest : Begin(c, request)
             \/ ReplayBooks(c) \/ ReadProjection(c) \/ Judge(c) \/ Reject(c) \/ CompareResult(c)
             \/ WriteResult(c) \/ CompareReport(c) \/ WriteReport(c) \/ BuilderDies(c)
      PROVE  BuilderInv(b)' /\ DOMAIN work' = Builder /\ issued \subseteq issued'
  <2>1. PICK w : Move(c, w)
    BY <1>4 DEF Begin, ReplayBooks, ReadProjection, Judge, Reject, CompareResult, WriteResult,
                CompareReport, WriteReport, BuilderDies
  <2>2. DOMAIN work' = Builder /\ \A o \in Builder : o # c => work'[o] = work[o]
    BY <1>1, <2>1, BuilderMoves
  <2>3. issued \subseteq issued'
    BY <1>4 DEF Begin, ReplayBooks, ReadProjection, Judge, Reject, CompareResult, WriteResult,
                CompareReport, WriteReport, BuilderDies
  <2>4. Reject(c) \/ WriteReport(c) \/ BuilderDies(c) => work'[c] = Idle
    BY <1>1, BuilderMoves DEF Reject, WriteReport, BuilderDies
  <2>5. BuilderInv(c)'
    BY <1>4, <2>4, IdleBuilder, BeginStep, ReplayStep, ReadStep, JudgeStep, CompareStep, WriteStep,
       CheckReportStep
  <2> QED
    BY <1>2, <2>2, <2>3, <2>5
<1>5. Next => \/ UNCHANGED <<work, issued>>
              \/ \E c \in Builder :
                   \/ \E request \in BuildRequest : Begin(c, request)
                   \/ ReplayBooks(c) \/ ReadProjection(c) \/ Judge(c) \/ Reject(c) \/ CompareResult(c)
                   \/ WriteResult(c) \/ CompareReport(c) \/ WriteReport(c) \/ BuilderDies(c)
  BY DEF Next, results, Export, RuntimeMoves
<1>6. UNCHANGED vars => UNCHANGED <<work, issued>>
  BY DEF vars, results
<1> QED
  BY <1>3, <1>4, <1>5, <1>6

\* What holds of results and report.
LEMMA ResultStep ==
  ASSUME RegistersInv, ResultsInv, [Next]_vars
  PROVE  IssuesAreJudged' /\ ResultIsIssued' /\ ReadyReportsWereJudged'
<1>1. [RegistersNext]_registers
  BY RegistersMove
<1>2. UNCHANGED issued => IssuesAreJudged'
  <2>1. \A content, target, since : Judged(content, target, since) => Judged(content, target, since)'
    BY <1>1, JudgedStays
  <2> QED
    BY <2>1 DEF ResultsInv, IssuesAreJudged
<1>3. UNCHANGED <<issued, result>> => ResultIsIssued'
  BY DEF ResultsInv, ResultIsIssued
<1>4. report' = report /\ issued \subseteq issued' => ReadyReportsWereJudged'
  BY DEF ResultsInv, ReadyReportsWereJudged
<1>5. CASE UNCHANGED <<issued, result, report>>
  BY <1>2, <1>3, <1>4, <1>5
<1>6. ASSUME NEW b \in Builder, Reject(b)
      PROVE  IssuesAreJudged' /\ ResultIsIssued' /\ ReadyReportsWereJudged'
  <2>1. UNCHANGED <<issued, result>> /\ report'.status = "REJECTED"
    BY <1>6 DEF Reject, ThisReport
  <2> QED
    BY <1>2, <1>3, <2>1 DEF ReadyReportsWereJudged
<1>7. ASSUME NEW b \in Builder, WriteResult(b)
      PROVE  IssuesAreJudged' /\ ResultIsIssued' /\ ReadyReportsWereJudged'
  <2>1. report' = report
    BY <1>7 DEF WriteResult
  <2> QED
    BY <1>4, <1>7, <2>1, WriteStep
<1>8. ASSUME NEW b \in Builder, WriteReport(b)
      PROVE  IssuesAreJudged' /\ ResultIsIssued' /\ ReadyReportsWereJudged'
  <2>1. /\ UNCHANGED <<issued, result>> /\ work[b].at = "report"
        /\ report'.about = ThisResult(b) /\ report'.target = work[b].request.target
    BY <1>8 DEF WriteReport, ThisReport, Stage
  <2>2. Issued(ThisResult(b), work[b].request.target)
    BY <2>1, OfferFacts DEF OfferingAt
  <2>3. ReadyReportsWereJudged'
    BY <2>1, <2>2 DEF Issued, ReadyReportsWereJudged
  <2> QED
    BY <1>2, <1>3, <2>1, <2>3
<1>9. Next => \/ UNCHANGED <<issued, result, report>>
              \/ \E b \in Builder : Reject(b) \/ WriteResult(b) \/ WriteReport(b)
  BY DEF Next, results, Begin, ReplayBooks, ReadProjection, Judge, CompareResult, CompareReport,
         BuilderDies, Export, RuntimeMoves
<1>10. UNCHANGED vars => UNCHANGED <<issued, result, report>>
  BY DEF vars, results
<1> QED
  BY <1>5, <1>6, <1>7, <1>8, <1>9, <1>10

LEMMA RuntimeStep ==
  ASSUME ResultsInv, [Next]_vars
  PROVE  runtime' \in Runtime
  BY DEF ResultsInv, Next, vars, results, Begin, ReplayBooks, ReadProjection, Judge, Reject, CompareResult,
         WriteResult, CompareReport, WriteReport, BuilderDies, Export, RuntimeMoves

\* In every reachable state, builders see what the logs hold and offer what they judged.
THEOREM ResultsInductive == Spec => []ResultsInv
<1>1. Init => ResultsInv
  <2> SUFFICES ASSUME Init
               PROVE  ResultsInv
    OBVIOUS
  <2>1. /\ work = [b \in Builder |-> Idle] /\ result = None /\ issued = {}
        /\ report.status = "OPEN" /\ runtime \in Runtime
    BY DEF Init, ResultsInit
  <2>2. \A b \in Builder : BuilderInv(b)
    BY <2>1 DEF BuilderInv, Carries, Idle, ReadingAt, OfferingAt
  <2> QED
    BY <2>1, <2>2 DEF ResultsInv, IssuesAreJudged, ResultIsIssued, ReadyReportsWereJudged
<1>2. RegistersInv /\ ResultsInv /\ [Next]_vars => ResultsInv'
  <2> SUFFICES ASSUME RegistersInv, ResultsInv, [Next]_vars
               PROVE  ResultsInv'
    OBVIOUS
  <2>1. \A b \in Builder : BuilderInv(b)'
    BY BuilderStep
  <2>2. DOMAIN work' = Builder
    <3>1. CASE Builder = {}
      BY <3>1 DEF ResultsInv, Next, vars, results, Export, RuntimeMoves
    <3>2. CASE Builder # {}
      BY <3>2, BuilderStep
    <3> QED
      BY <3>1, <3>2
  <2> QED
    BY <2>1, <2>2, ResultStep, RuntimeStep DEF ResultsInv
<1>3. Spec => []RegistersInv
  BY RegistersAreShared, RegistersInductive, PTL
<1> QED
  BY <1>1, <1>2, <1>3, PTL DEF Spec

\* What was issued as complete is supported by both logs, for any number of recorders, builders,
\* planner runs and crashes, and whatever was recorded before there was a plan (result.py:451-534).
THEOREM CompleteResultsAreVerified == Spec => []CompleteMeansVerified
<1>1. ResultsInv => CompleteMeansVerified
  BY DEF ResultsInv, IssuesAreJudged, Judged, CompleteMeansVerified
<1> QED
  BY <1>1, ResultsInductive, PTL

\* A READY report is about a result issued for its own target: the gaps of a result tell the target,
\* so a builder that finds its result already there was judged as the one that wrote it (result.py:621-648).
THEOREM ReportsVouchForJudged == Spec => []ReadyReportsWereJudged
<1>1. ResultsInv => ReadyReportsWereJudged
  BY DEF ResultsInv
<1> QED
  BY <1>1, ResultsInductive, PTL

=============================================================================
