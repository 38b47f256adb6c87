--------------------------- MODULE PlanningProofs ---------------------------
(***************************************************************************)
(* Theorems about the two parts that lead from a request to a plan:        *)
(* PlanElements, for any media, tasks and gaps, any answers and judgements *)
(* and any number of attempts, deaths and edits; and Planner, for any      *)
(* handoffs and calendars.                                                 *)
(***************************************************************************)
EXTENDS PlanElements, Planner, FiniteSetTheorems, SequenceTheorems, WellFoundedInduction, TLAPS

-----------------------------------------------------------------------------
(* The inductive invariant.                                                *)

Value == Media \cup Texts
Method == UNION {[E -> Value] : E \in SUBSET Element}
MethodOfMedium == {m \in Method : Medium \in DOMAIN m => m[Medium] \in Media}

Checkpoint ==
  [answers : MethodOfMedium, abandoned : SUBSET Element, attempts : [Element -> Nat],
   history : SUBSET [element : Element, attempt : Nat, value : Value],
   status : {"WAITING", "BLOCKED", "COMPLETED"}, pending : Element \cup {None},
   file : Method \cup {None}, completion : {None, "PLAN_READY", "INCOMPLETE"}]

Received(history, e) == {h \in history : h.element = e}

\* The answers received for e are n, one for each attempt.
Counted(history, e, n) ==
  /\ n \in Nat
  /\ IsFiniteSet(Received(history, e)) /\ Cardinality(Received(history, e)) = n
  /\ {h.attempt : h \in Received(history, e)} = 1 .. n

\* The attempt of an element that is answered has been received for, that of one
\* that is asked has not, and that of one given up, or of a blocked run, may have.
TidyFor(s, e) ==
  /\ e \in DOMAIN s.answers => Counted(s.history, e, s.attempts[e])
  /\ e \notin DOMAIN s.answers \cup s.abandoned /\ s.status # "BLOCKED"
       => Counted(s.history, e, s.attempts[e] - 1)
  /\ \E n \in Nat : Counted(s.history, e, n)
Tidy(s) == \A e \in Element : TidyFor(s, e)

\* What a saved checkpoint asks for is open.
AsksForOpen(s) ==
  s.status = "WAITING" => s.pending \in Element \ (DOMAIN s.answers \cup s.abandoned)

ElementsInv ==
  /\ ckpt # None => ckpt \in Checkpoint /\ Tidy(ckpt) /\ AsksForOpen(ckpt)
  /\ call # None => call \in Checkpoint /\ Tidy(call)
  /\ disk \in Method \cup {None, Foreign}
  /\ call # None /\ ckpt # None => InputsPinned /\ (ckpt.file # None => disk # Foreign)
  /\ edits \in Nat

-----------------------------------------------------------------------------
(* Methods and the schedule.                                               *)

LEMMA Methods ==
  /\ \A m \in Method : DOMAIN m \in SUBSET Element /\ \A e \in DOMAIN m : m[e] \in Value
  /\ \A m \in Method : m # None /\ m # Foreign
  /\ \A E \in SUBSET Element : \A m \in [E -> Value] : m \in Method
<1>1. ASSUME NEW m \in Method
      PROVE  DOMAIN m \in SUBSET Element /\ (\A e \in DOMAIN m : m[e] \in Value) /\ m # None /\ m # Foreign
  <2>1. PICK E \in SUBSET Element : m \in [E -> Value]
    BY DEF Method
  <2> QED
    BY <2>1, NoneAssumption DEF Value
<1>2. \A E \in SUBSET Element : \A m \in [E -> Value] : m \in Method
  BY DEF Method
<1> QED
  BY <1>1, <1>2

LEMMA Assembled ==
  ASSUME NEW s \in Checkpoint
  PROVE  assemble(s) \in Method
<1>1. s.answers \in Method
  BY DEF Checkpoint, MethodOfMedium
<1>2. Used(s) \subseteq DOMAIN s.answers
  BY DEF Used
<1>3. Used(s) \in SUBSET Element /\ assemble(s) \in [Used(s) -> Value]
  BY <1>1, <1>2, Methods DEF assemble
<1> QED
  BY <1>3, Methods

\* What is asked is an element.
LEMMA ScheduledElements ==
  ASSUME NEW s \in Checkpoint
  PROVE  Schedule(s) \in Seq(Seq(Element))
<1>1. ASSUME NEW t \in ToSet(Tasks)
      PROVE  TaskElements(s, t) \in Seq(Element)
  <2>1. Step(t, "instruction") \in Element /\ Step(t, "completion") \in Element
    BY <1>1 DEF Element
  <2>2. t \in Physical => /\ Step(t, "material") \in Element /\ Step(t, "material-quantity") \in Element
                          /\ Step(t, "tool") \in Element
    BY <1>1 DEF Element
  <2> QED
    BY <2>1, <2>2 DEF TaskElements
<1>2. ASSUME NEW g \in ToSet(Gaps)
      PROVE  GapElements(s, g) \in Seq(Element)
  <2>1. Gap(g, "method") \in Element /\ Gap(g, "condition") \in Element
    BY <1>2 DEF Element
  <2> QED
    BY <2>1 DEF GapElements
<1>3. Medium \in Element /\ Location \in Element
  BY DEF Element
<1>4. CASE Medium \notin DOMAIN s.answers
  BY <1>3, <1>4 DEF Schedule
<1>5. CASE Medium \in DOMAIN s.answers
  <2> DEFINE specs == Required[s.answers[Medium]]
  <2>1. s.answers[Medium] \in Media /\ specs \in Seq(STRING)
    BY <1>5, PlanElementsAssumption DEF Checkpoint, MethodOfMedium
  <2>2. \A i \in DOMAIN specs : SpecOf(specs[i]) \in Element
    BY <2>1 DEF Element, ToSet
  <2>3. [i \in DOMAIN specs |-> SpecOf(specs[i])] \in Seq(Element)
    BY <2>1, <2>2
  <2>4. <<<<Medium, Location>>, [i \in DOMAIN specs |-> SpecOf(specs[i])]>> \in Seq(Seq(Element))
    BY <2>3, <1>3
  <2>5. [i \in DOMAIN Tasks |-> TaskElements(s, Tasks[i])] \in Seq(Seq(Element))
    <3>1. \A i \in DOMAIN Tasks : TaskElements(s, Tasks[i]) \in Seq(Element)
      BY <1>1 DEF ToSet
    <3> QED
      BY <3>1, PlanElementsAssumption
  <2>6. [i \in DOMAIN Gaps |-> GapElements(s, Gaps[i])] \in Seq(Seq(Element))
    <3>1. \A i \in DOMAIN Gaps : GapElements(s, Gaps[i]) \in Seq(Element)
      BY <1>2 DEF ToSet
    <3> QED
      BY <3>1, PlanElementsAssumption
  <2>7. Schedule(s) = <<<<Medium, Location>>, [i \in DOMAIN specs |-> SpecOf(specs[i])]>>
                        \o [i \in DOMAIN Tasks |-> TaskElements(s, Tasks[i])]
                        \o [i \in DOMAIN Gaps |-> GapElements(s, Gaps[i])]
    BY <1>5 DEF Schedule
  <2> HIDE DEF specs
  <2> QED
    BY <2>4, <2>5, <2>6, <2>7, ConcatProperties
<1> QED
  BY <1>4, <1>5

\* What advance asks for is an element that is neither answered nor given up.
LEMMA OpenElements ==
  ASSUME NEW s \in Checkpoint, NEW p \in Foremost(Open(s))
  PROVE  Schedule(s)[p[1]][p[2]] \in Element \ (DOMAIN s.answers \cup s.abandoned)
<1>1. p \in Open(s)
  BY DEF Foremost
<1>2. p[1] \in DOMAIN Schedule(s) /\ p[2] \in DOMAIN Schedule(s)[p[1]]
  BY <1>1 DEF Open, Places
<1>3. Schedule(s)[p[1]] \in Seq(Element)
  BY <1>2, ScheduledElements
<1>4. Schedule(s)[p[1]][p[2]] \in Element
  BY <1>2, <1>3
<1> QED
  BY <1>1, <1>4 DEF Open

-----------------------------------------------------------------------------
(* Attempts and answers.                                                   *)

\* An answer to the next attempt is one answer more, and touches no other element.
LEMMA CountedAnswer ==
  ASSUME NEW history, NEW e, NEW n, NEW v, Counted(history, e, n)
  PROVE  LET more == history \cup {[element |-> e, attempt |-> n + 1, value |-> v]}
         IN /\ Counted(more, e, n + 1)
            /\ \A d, m : d # e => (Counted(more, d, m) <=> Counted(history, d, m))
<1> DEFINE new == [element |-> e, attempt |-> n + 1, value |-> v]
           more == history \cup {new}
<1>0. new.element = e /\ new.attempt = n + 1
  OBVIOUS
<1> HIDE DEF new
<1>1. new \notin Received(history, e)
  <2>1. ASSUME new \in Received(history, e) PROVE FALSE
    <3>1. new.attempt \in 1 .. n
      BY <2>1 DEF Counted
    <3> QED
      BY <1>0, <3>1 DEF Counted
  <2> QED
    BY <2>1
<1>2. Received(more, e) = Received(history, e) \cup {new}
  BY <1>0 DEF Received
<1>3. IsFiniteSet(Received(more, e)) /\ Cardinality(Received(more, e)) = n + 1
  <2>1. IsFiniteSet(Received(history, e)) /\ Cardinality(Received(history, e)) = n
    BY DEF Counted
  <2>2. IsFiniteSet(Received(history, e) \cup {new}) /\ Cardinality(Received(history, e) \cup {new}) = n + 1
    BY <1>1, <2>1, FS_AddElement
  <2> QED
    BY <1>2, <2>2
<1>4. {h.attempt : h \in Received(more, e)} = {h.attempt : h \in Received(history, e)} \cup {n + 1}
  BY <1>0, <1>2
<1>5. (1 .. n) \cup {n + 1} = 1 .. (n + 1)
  BY DEF Counted
<1>6. Counted(more, e, n + 1)
  <2>1. n + 1 \in Nat
    BY DEF Counted
  <2>2. {h.attempt : h \in Received(more, e)} = 1 .. (n + 1)
    BY <1>4, <1>5 DEF Counted
  <2> HIDE DEF more
  <2> QED
    BY <1>3, <2>1, <2>2 DEF Counted
<1>7. ASSUME NEW d, d # e
      PROVE  Received(more, d) = Received(history, d)
  BY <1>0, <1>7 DEF Received
<1> QED
  BY <1>6, <1>7 DEF Counted, new

\* Fewer answers are the answers to fewer elements.
LEMMA Fewer ==
  ASSUME NEW m \in MethodOfMedium, NEW E
  PROVE  [d \in DOMAIN m \ E |-> m[d]] \in MethodOfMedium
<1>1. DOMAIN m \ E \in SUBSET Element /\ [d \in DOMAIN m \ E |-> m[d]] \in [DOMAIN m \ E -> Value]
  BY Methods DEF MethodOfMedium
<1>2. [d \in DOMAIN m \ E |-> m[d]] \in Method
  BY <1>1, Methods
<1> QED
  BY <1>2 DEF MethodOfMedium

\* Whatever is refused, when its attempt has been received for, is asked with
\* the next attempt, given up, or blocks the run.
LEMMA Rejected ==
  ASSUME NEW s \in Checkpoint, NEW refused \in SUBSET Element,
         \A e \in refused : Counted(s.history, e, s.attempts[e]),
         \A e \in Element \ refused : TidyFor(s, e)
  PROVE  /\ reject(s, refused) \in Checkpoint /\ Tidy(reject(s, refused))
         /\ reject(s, refused).history = s.history /\ reject(s, refused).file = s.file
         /\ reject(s, refused).status \in {s.status, "BLOCKED"}
<1> DEFINE spent == {e \in refused : s.attempts[e] >= MaxAttempts}
           stuck == {e \in spent : ~abandonable(e)}
           r == reject(s, refused)
           f1 == [d \in DOMAIN s.answers \ refused |-> s.answers[d]]
           f2 == [e \in Element |-> IF e \in refused \ spent THEN s.attempts[e] + 1 ELSE s.attempts[e]]
           f3 == s.abandoned \cup (spent \ stuck)
           f4 == IF stuck # {} THEN "BLOCKED" ELSE s.status
           f5 == IF stuck # {} THEN None ELSE s.pending
<1>1. r = [s EXCEPT !.answers = f1, !.attempts = f2, !.abandoned = f3, !.status = f4, !.pending = f5]
  BY Zenon DEF reject
<1>2. f1 \in MethodOfMedium
  <2>1. s.answers \in MethodOfMedium
    BY DEF Checkpoint
  <2> QED
    BY <2>1, Fewer
<1>3. /\ f2 \in [Element -> Nat] /\ f3 \in SUBSET Element
      /\ f4 \in {"WAITING", "BLOCKED", "COMPLETED"} /\ f5 \in Element \cup {None}
  BY DEF Checkpoint
<1>4. /\ r \in Checkpoint
      /\ r.answers = f1 /\ r.attempts = f2 /\ r.abandoned = f3 /\ r.status = f4
      /\ r.history = s.history /\ r.file = s.file
  <2> HIDE DEF f1, f2, f3, f4, f5, r
  <2>1. r \in Checkpoint
    BY <1>1, <1>2, <1>3 DEF Checkpoint
  <2>2. /\ r.answers = f1 /\ r.attempts = f2 /\ r.abandoned = f3 /\ r.status = f4
        /\ r.history = s.history /\ r.file = s.file
    BY <1>1 DEF Checkpoint
  <2> QED
    BY <2>1, <2>2
<1> HIDE DEF r
<1>5. ASSUME NEW e \in Element
      PROVE  TidyFor(r, e)
  <2>1. s.attempts[e] \in Nat
    BY DEF Checkpoint
  <2>2. CASE e \in refused \ spent
    <3>1. /\ e \notin DOMAIN r.answers /\ r.history = s.history
          /\ r.attempts[e] = s.attempts[e] + 1 /\ Counted(s.history, e, s.attempts[e])
      BY <1>4, <2>2
    <3>2. r.attempts[e] - 1 = s.attempts[e]
      BY <2>1, <3>1
    <3> QED
      BY <2>1, <3>1, <3>2 DEF TidyFor
  <2>3. CASE e \in spent
    <3>1. /\ e \notin DOMAIN r.answers
          /\ (e \in r.abandoned \/ r.status = "BLOCKED")
          /\ r.history = s.history /\ Counted(s.history, e, s.attempts[e])
      BY <1>4, <2>3
    <3> QED
      BY <2>1, <3>1 DEF TidyFor
  <2>4. CASE e \notin refused
    <3>1. /\ (e \in DOMAIN r.answers <=> e \in DOMAIN s.answers)
          /\ (e \in r.abandoned <=> e \in s.abandoned)
          /\ (r.status # "BLOCKED" => s.status = r.status)
          /\ r.history = s.history /\ r.attempts[e] = s.attempts[e] /\ TidyFor(s, e)
      BY <1>4, <2>4
    <3> QED
      BY <3>1 DEF TidyFor
  <2> QED
    BY <2>2, <2>3, <2>4
<1> QED
  BY <1>4, <1>5 DEF Tidy, r

LEMMA AnsweredTidy ==
  ASSUME ckpt \in Checkpoint, Tidy(ckpt), AsksForOpen(ckpt), ckpt.status = "WAITING",
         NEW v \in Values(ckpt.pending)
  PROVE  Answered(v) \in Checkpoint /\ Tidy(Answered(v))
<1> DEFINE e == ckpt.pending
           n == ckpt.attempts[e] - 1
           more == ckpt.history \cup {[element |-> e, attempt |-> n + 1, value |-> v]}
           s == [ckpt EXCEPT !.history = more]
           known == [d \in DOMAIN ckpt.answers \cup {e} |-> IF d = e THEN v ELSE ckpt.answers[d]]
           t == [s EXCEPT !.answers = known]
<1>1. /\ e \in Element /\ e \notin DOMAIN ckpt.answers /\ e \notin ckpt.abandoned
      /\ Counted(ckpt.history, e, n) /\ TidyFor(ckpt, e)
  BY DEF AsksForOpen, Tidy, TidyFor
<1>2. n \in Nat /\ ckpt.attempts[e] = n + 1
  <2>1. ckpt.attempts[e] \in Nat
    BY <1>1 DEF Checkpoint
  <2> QED
    BY <1>1, <2>1 DEF Counted
<1>3. v \in Value /\ (e = Medium => v \in Media)
  BY DEF Values, Value, Texts
<1>4. more \in SUBSET [element : Element, attempt : Nat, value : Value]
  BY <1>1, <1>2, <1>3 DEF Checkpoint
<1>5. Counted(more, e, n + 1) /\ \A d, m : d # e => (Counted(more, d, m) <=> Counted(ckpt.history, d, m))
  BY <1>1, CountedAnswer
<1>6. Answered(v) = IF v = "unfit" THEN reject(s, {e}) ELSE t
  BY <1>2 DEF Answered, Checkpoint
<1>7. known \in MethodOfMedium
  <2>1. ckpt.answers \in MethodOfMedium
    BY DEF Checkpoint
  <2>2. ckpt.answers \in Method /\ DOMAIN ckpt.answers \in SUBSET Element
    BY <2>1, Methods DEF MethodOfMedium
  <2>3. DOMAIN ckpt.answers \cup {e} \in SUBSET Element /\ known \in [DOMAIN ckpt.answers \cup {e} -> Value]
    BY <1>1, <1>3, <2>2, Methods
  <2>4. known \in Method
    BY <2>3, Methods
  <2> QED
    BY <1>1, <1>3, <2>1, <2>4 DEF MethodOfMedium
<1> HIDE DEF e, n, more, known
<1>8. /\ s \in Checkpoint /\ s.history = more /\ s.answers = ckpt.answers /\ s.abandoned = ckpt.abandoned
      /\ s.attempts = ckpt.attempts /\ s.status = ckpt.status
  BY <1>4 DEF Checkpoint
<1>9. /\ t \in Checkpoint /\ t.history = more /\ t.answers = known /\ t.abandoned = ckpt.abandoned
      /\ t.attempts = ckpt.attempts /\ t.status = ckpt.status
  BY <1>7, <1>8 DEF Checkpoint
<1> HIDE DEF s, t
<1>10. ASSUME NEW d \in Element, d # e
       PROVE  TidyFor(s, d) /\ TidyFor(t, d)
  <2>1. TidyFor(ckpt, d)
    BY DEF Tidy
  <2>2. d \in DOMAIN known <=> d \in DOMAIN ckpt.answers
    BY <1>10 DEF known
  <2> QED
    BY <1>5, <1>8, <1>9, <1>10, <2>1, <2>2 DEF TidyFor
<1>11. CASE v = "unfit"
  <2>1. Counted(s.history, e, s.attempts[e])
    BY <1>2, <1>5, <1>8
  <2>2. {e} \in SUBSET Element
    BY <1>1
  <2>3. reject(s, {e}) \in Checkpoint /\ Tidy(reject(s, {e}))
    BY <1>8, <1>10, <2>1, <2>2, Rejected
  <2> QED
    BY <1>6, <1>11, <2>3
<1>12. CASE v # "unfit"
  <2>1. e \in DOMAIN t.answers
    BY <1>9 DEF known
  <2>2. n + 1 \in Nat /\ Counted(t.history, e, t.attempts[e]) /\ t.attempts[e] \in Nat
    BY <1>2, <1>5, <1>9
  <2>3. TidyFor(t, e)
    BY <2>1, <2>2 DEF TidyFor
  <2>4. Tidy(t)
    BY <1>10, <2>3 DEF Tidy
  <2> QED
    BY <1>6, <1>9, <1>12, <2>4
<1> QED
  BY <1>11, <1>12

\* What is asked again was answered.
LEMMA FinishedTidy ==
  ASSUME NEW s \in Checkpoint, Tidy(s), NEW built \in BOOLEAN
  PROVE  finish(s, built) \in Checkpoint /\ Tidy(finish(s, built))
<1> DEFINE method == assemble(s)
           written == [s EXCEPT !.file = method]
           out == reject(written, Asked(s, built))
           status == IF out.status = "BLOCKED" THEN "BLOCKED" ELSE "COMPLETED"
           completion == IF built /\ Findings(method) = {} /\ ~OtherFindings(method)
                         THEN "PLAN_READY" ELSE "INCOMPLETE"
           ended == [out EXCEPT !.status = status, !.pending = None, !.completion = completion]
<1>1. finish(s, built) \in {out, ended}
  BY DEF finish
<1>2. method \in Method
  BY Assembled
<1>3. Asked(s, built) \subseteq DOMAIN s.answers /\ DOMAIN s.answers \in SUBSET Element
  <2>1. s.answers \in Method
    BY DEF Checkpoint, MethodOfMedium
  <2> QED
    BY <2>1, Methods DEF Asked
<1> HIDE DEF method
<1>4. /\ written \in Checkpoint /\ written.answers = s.answers /\ written.abandoned = s.abandoned
      /\ written.attempts = s.attempts /\ written.status = s.status /\ written.history = s.history
  BY <1>2 DEF Checkpoint
<1> HIDE DEF written
<1>5. \A e \in Element : TidyFor(written, e)
  BY <1>4 DEF Tidy, TidyFor
<1>6. \A e \in Asked(s, built) : Counted(written.history, e, written.attempts[e])
  BY <1>3, <1>4, <1>5 DEF TidyFor
<1>7. out \in Checkpoint /\ Tidy(out)
  BY <1>3, <1>4, <1>5, <1>6, Rejected
<1>8. status \in {"BLOCKED", "COMPLETED"} /\ (out.status = "BLOCKED" <=> status = "BLOCKED")
  OBVIOUS
<1>9. completion \in {"PLAN_READY", "INCOMPLETE"}
  OBVIOUS
<1> HIDE DEF out, status, completion
<1>10. /\ ended \in Checkpoint /\ ended.answers = out.answers /\ ended.abandoned = out.abandoned
       /\ ended.attempts = out.attempts /\ ended.status = status /\ ended.history = out.history
  BY <1>7, <1>8, <1>9 DEF Checkpoint
<1> HIDE DEF ended
<1>11. Tidy(ended)
  BY <1>7, <1>8, <1>10 DEF Tidy, TidyFor
<1> QED
  BY <1>1, <1>7, <1>10, <1>11

-----------------------------------------------------------------------------
(* Every step keeps the invariant.                                         *)

LEMMA StartKeeps ==
  ElementsInv /\ Start => ElementsInv'
<1> SUFFICES ASSUME ElementsInv, Start
             PROVE  ElementsInv'
  OBVIOUS
<1> DEFINE s == initialize
<1>1. [e \in {} |-> "sound"] \in MethodOfMedium
  <2>1. [e \in {} |-> "sound"] \in [{} -> Value] /\ {} \in SUBSET Element
    OBVIOUS
  <2>2. [e \in {} |-> "sound"] \in Method
    BY <2>1, Methods
  <2> QED
    BY <2>2 DEF MethodOfMedium
<1>2. [e \in Element |-> 1] \in [Element -> Nat]
  OBVIOUS
<1>3. /\ s.history = {} /\ DOMAIN s.answers = {} /\ s.abandoned = {} /\ \A e \in Element : s.attempts[e] = 1
  BY DEF initialize
<1>4. s \in Checkpoint
  BY <1>1, <1>2 DEF initialize, Checkpoint
<1>5. ASSUME NEW e \in Element
      PROVE  Counted({}, e, 0)
  <2>1. Received({}, e) = {}
    BY DEF Received
  <2> QED
    BY <2>1, FS_EmptySet DEF Counted
<1>6. Tidy(s)
  BY <1>3, <1>5 DEF Tidy, TidyFor
<1> QED
  BY <1>4, <1>6 DEF ElementsInv, Start

LEMMA KeptType ==
  ASSUME ElementsInv, ckpt # None
  PROVE  /\ Kept \in Method \cup {None, Foreign}
         /\ ckpt.file # None => Kept # Foreign /\ Kept = ckpt.file
<1>1. ckpt.file # None => ckpt.file \in Method
  BY DEF ElementsInv, Checkpoint
<1> QED
  BY <1>1, Methods DEF ElementsInv, Kept

LEMMA ReportKeeps ==
  ElementsInv /\ Report => ElementsInv'
  BY KeptType DEF ElementsInv, Report, Materialized, Readable

LEMMA AnswerKeeps ==
  ASSUME NEW v, ElementsInv, Answer(v)
  PROVE  ElementsInv'
<1>1. ckpt # None /\ InputsPinned /\ ckpt.status = "WAITING" /\ v \in Values(ckpt.pending)
  BY DEF Answer, Materialized, Readable
<1>2. Answered(v) \in Checkpoint /\ Tidy(Answered(v))
  BY <1>1, AnsweredTidy DEF ElementsInv
<1>3. Kept \in Method \cup {None, Foreign} /\ (ckpt.file # None => Kept # Foreign)
  BY <1>1, KeptType
<1> QED
  BY <1>1, <1>2, <1>3 DEF ElementsInv, Answer, InputsPinned

LEMMA AskKeeps ==
  ElementsInv /\ Ask => ElementsInv'
<1> SUFFICES ASSUME ElementsInv, Ask
             PROVE  ElementsInv'
  OBVIOUS
<1>1. call \in Checkpoint /\ Tidy(call) /\ call' = None
  BY DEF ElementsInv, Ask
<1>2. PICK p \in Foremost(Open(call)) : ckpt' = [call EXCEPT !.pending = Schedule(call)[p[1]][p[2]]]
  BY DEF Ask
<1> DEFINE e == Schedule(call)[p[1]][p[2]]
<1>3. e \in Element \ (DOMAIN call.answers \cup call.abandoned)
  BY <1>1, <1>2, OpenElements
<1> HIDE DEF e
<1>4. /\ ckpt' \in Checkpoint /\ ckpt'.answers = call.answers /\ ckpt'.abandoned = call.abandoned
      /\ ckpt'.attempts = call.attempts /\ ckpt'.status = call.status /\ ckpt'.history = call.history
      /\ ckpt'.pending = e
  BY <1>1, <1>2, <1>3 DEF Checkpoint, e
<1>5. Tidy(ckpt')
  BY <1>1, <1>4 DEF Tidy, TidyFor
<1>6. AsksForOpen(ckpt')
  BY <1>3, <1>4 DEF AsksForOpen
<1> QED
  BY <1>1, <1>4, <1>5, <1>6 DEF ElementsInv, Ask

LEMMA FinishKeeps ==
  ASSUME NEW built \in BOOLEAN, ElementsInv, Finish(built)
  PROVE  ElementsInv'
<1>1. call # None /\ call \in Checkpoint /\ Tidy(call)
  BY DEF ElementsInv, Finish
<1>2. finish(call, built) \in Checkpoint /\ Tidy(finish(call, built)) /\ assemble(call) \in Method
  BY <1>1, FinishedTidy, Assembled
<1>3. assemble(call) # Foreign
  BY <1>2, Methods
<1> QED
  BY <1>1, <1>2, <1>3 DEF ElementsInv, Finish, InputsPinned

LEMMA OtherStepsKeep ==
  ElementsInv /\ (Save \/ Die \/ EditMethod \/ EditInputs \/ TightenPolicy \/ UNCHANGED vars) => ElementsInv'
<1> SUFFICES ASSUME ElementsInv, Save \/ Die \/ EditMethod \/ EditInputs \/ TightenPolicy \/ UNCHANGED vars
             PROVE  ElementsInv'
  OBVIOUS
<1>1. CASE Save
  BY <1>1 DEF ElementsInv, Save, AsksForOpen
<1>2. CASE Die
  BY <1>2 DEF ElementsInv, Die
<1>3. CASE EditMethod
  BY <1>3 DEF ElementsInv, EditMethod
<1>4. CASE EditInputs
  BY <1>4 DEF ElementsInv, EditInputs
<1>5. CASE TightenPolicy
  BY <1>5 DEF ElementsInv, TightenPolicy, InputsPinned
<1>6. CASE UNCHANGED vars
  BY <1>6 DEF ElementsInv, vars, InputsPinned
<1> QED
  BY <1>1, <1>2, <1>3, <1>4, <1>5, <1>6

-----------------------------------------------------------------------------
(* The theorems.                                                           *)

\* The inductive invariant: both the saved checkpoint and the one in the
\* memory of a call count exactly the answers received, a saved run asks for
\* what is open, and a call is under way only on pinned inputs and on a method
\* file that is the engine's.  (plan_elements.py:163-330)
THEOREM ElementsInductive == Spec => []ElementsInv
<1>1. Init => ElementsInv
  BY DEF Init, ElementsInv
<1>2. ElementsInv /\ [Next]_vars => ElementsInv'
  BY StartKeeps, ReportKeeps, AnswerKeeps, AskKeeps, FinishKeeps, OtherStepsKeep
     DEF Next, AnswerSome, Advance
<1> QED
  BY <1>1, <1>2, PTL DEF Spec

\* Whatever is answered, refused at once or sent back by the judgement, and
\* whenever a call dies: every attempt of an element is one answer received,
\* and none is counted twice or given back.  (plan_elements.py:252-265, 298-316)
THEOREM AttemptsAreAnswers == Spec => []EveryAttemptIsAnAnswer
<1>1. ElementsInv => EveryAttemptIsAnAnswer
  <2> SUFFICES ASSUME ElementsInv, ckpt # None, NEW e \in Element
               PROVE  LET received == {h \in ckpt.history : h.element = e}
                          waiting == e \notin DOMAIN ckpt.answers \cup ckpt.abandoned /\ ckpt.status # "BLOCKED"
                      IN /\ {h.attempt : h \in received} = 1..Cardinality(received)
                         /\ waiting => Cardinality(received) = ckpt.attempts[e] - 1
                         /\ e \in DOMAIN ckpt.answers => Cardinality(received) = ckpt.attempts[e]
    BY DEF EveryAttemptIsAnAnswer
  <2>1. TidyFor(ckpt, e)
    BY DEF ElementsInv, Tidy
  <2> QED
    BY <2>1 DEF TidyFor, Counted, Received
<1> QED
  BY <1>1, ElementsInductive, PTL

\* On inputs that changed, or once somebody else has written the method file,
\* no step of the engine changes the checkpoint or the file, not even that of a
\* call that was under way: there is none.  (plan_elements.py:163-187)
THEOREM ChangesStopTheRun == Spec => OutsideChangesStopTheRun
<1>1. ElementsInv /\ [Next]_vars /\ Foreignness => UNCHANGED ckpt /\ (disk' # disk => edits' # edits)
  <2> SUFFICES ASSUME ElementsInv, [Next]_vars, Foreignness
               PROVE  UNCHANGED ckpt /\ (disk' # disk => edits' # edits)
    OBVIOUS
  <2>1. ckpt # None /\ call = None
    BY DEF Foreignness, ElementsInv
  <2>2. ~Materialized
    <3>1. ckpt.file # None => ckpt.file # Foreign
      BY <2>1, Methods DEF ElementsInv, Checkpoint
    <3> QED
      BY <3>1, NoneAssumption DEF Foreignness, Materialized, Readable
  <2>3. edits + 1 # edits
    BY DEF ElementsInv
  <2> QED
    BY <2>1, <2>2, <2>3
       DEF Next, Start, Report, AnswerSome, Answer, Advance, Ask, Save, Finish, Die, EditMethod, EditInputs,
           TightenPolicy, vars
<1> QED
  BY <1>1, ElementsInductive, PTL DEF Spec, OutsideChangesStopTheRun

-----------------------------------------------------------------------------
(* Induction and recursion over sets of numbers.                           *)

LEMMA LeastNumber ==
  ASSUME NEW S \in SUBSET Nat, S # {}
  PROVE  \E m \in S : \A n \in S : m <= n
<1> DEFINE R == OpToRel(<, Nat)
<1>1. \A n, m \in Nat : n < m => <<n, m>> \in R
  BY DEF OpToRel
<1>2. IsWellFoundedOn(R, Nat)
  BY NatLessThanWellFounded
<1> HIDE DEF R
<1>3. PICK m \in S : \A n \in S : ~(<<n, m>> \in R)
  BY <1>2, WFMin
<1>4. \A n \in S : ~(n < m)
  BY <1>1, <1>3
<1> QED
  BY <1>4

\* A set of numbers that has 0, and with each number the next, has them all.
LEMMA AllNumbers ==
  ASSUME NEW T, 0 \in T, \A n \in T \cap Nat : n + 1 \in T
  PROVE  Nat \subseteq T
<1> SUFFICES ASSUME Nat \ T # {}
             PROVE  FALSE
  OBVIOUS
<1>1. PICK m \in Nat \ T : \A n \in Nat \ T : m <= n
  <2>1. Nat \ T \in SUBSET Nat
    OBVIOUS
  <2> QED
    BY <2>1, LeastNumber
<1>2. m # 0 /\ m - 1 \in Nat /\ ~(m <= m - 1) /\ (m - 1) + 1 = m
  BY <1>1
<1>3. m - 1 \in T
  BY <1>1, <1>2
<1> QED
  BY <1>1, <1>2, <1>3

\* f starts with a and goes on as step says.
Iterates(f, N, a, step) == f[0] = a /\ \A n \in 1..N : f[n] = step[n][f[n - 1]]

\* A step repeated N times defines a function.
LEMMA Recursion ==
  ASSUME NEW N \in Nat, NEW S, NEW a \in S, NEW step \in [1..N -> [S -> S]]
  PROVE  \E f \in [0..N -> S] : Iterates(f, N, a, step)
<1> DEFINE Upto(m, f) == Iterates(f, m, a, step)
           T == {m \in Nat : m <= N => \E f \in [0..m -> S] : Upto(m, f)}
<1>1. 0 \in T
  <2>1. [n \in 0..0 |-> a] \in [0..0 -> S] /\ Upto(0, [n \in 0..0 |-> a])
    BY DEF Iterates
  <2> QED
    BY <2>1
<1>2. ASSUME NEW m \in T \cap Nat
      PROVE  m + 1 \in T
  <2> SUFFICES ASSUME m + 1 <= N
               PROVE  \E f \in [0..(m + 1) -> S] : Upto(m + 1, f)
    OBVIOUS
  <2>1. PICK f \in [0..m -> S] : Upto(m, f)
    BY <1>2
  <2> DEFINE g == [n \in 0..(m + 1) |-> IF n = m + 1 THEN step[m + 1][f[m]] ELSE f[n]]
  <2>2. step[m + 1][f[m]] \in S
    BY <1>2, <2>1
  <2>3. g \in [0..(m + 1) -> S]
    BY <2>2
  <2>4. Upto(m + 1, g)
    <3>1. m \in Nat /\ m + 1 \in 1..N
      BY <1>2
    <3>2. g[0] = a
      BY <2>1, <3>1 DEF Iterates
    <3>3. ASSUME NEW n \in 1..(m + 1)
          PROVE  g[n] = step[n][g[n - 1]]
      <4>1. n - 1 \in 0..m /\ g[n - 1] = f[n - 1]
        BY <2>1, <3>1
      <4>2. CASE n = m + 1
        BY <3>1, <4>1, <4>2
      <4>3. CASE n # m + 1
        <5>1. n \in 1..m /\ n \in 0..(m + 1) /\ g[n] = f[n]
          BY <3>1, <4>3
        <5> QED
          BY <2>1, <4>1, <5>1 DEF Iterates
      <4> QED
        BY <4>2, <4>3
    <3> QED
      BY <3>2, <3>3 DEF Iterates
  <2> QED
    BY <2>3, <2>4
<1>3. N \in T
  <2> HIDE DEF T
  <2> QED
    BY <1>1, <1>2, AllNumbers
<1> QED
  BY <1>3

\* What holds of 0, and passes from each number to the next up to N.
LEMMA Stepwise ==
  ASSUME NEW N \in Nat, NEW T, 0 \in T, \A n \in 1..N : n - 1 \in T => n \in T
  PROVE  0..N \subseteq T
<1> DEFINE U == {n \in Nat : n <= N => n \in T}
<1>1. 0 \in U
  OBVIOUS
<1>2. ASSUME NEW n \in U \cap Nat
      PROVE  n + 1 \in U
  <2> SUFFICES ASSUME n + 1 <= N
               PROVE  n + 1 \in T
    OBVIOUS
  <2>1. n + 1 \in 1..N /\ (n + 1) - 1 = n /\ n \in T
    BY <1>2
  <2> QED
    BY <2>1
<1>3. Nat \subseteq U
  <2> HIDE DEF U
  <2> QED
    BY <1>1, <1>2, AllNumbers
<1> QED
  BY <1>3

\* g starts with a and, as long as it is in S, goes on as step says.
Follows(g, N, S, a, step) ==
  /\ g = [n \in 0..N |-> g[n]] /\ g[0] = a
  /\ \A n \in 1..N : g[n - 1] \in S => g[n] = step[n][g[n - 1]]

\* What starts in S and goes on as a step that stays in S is in S.
LEMMA Stays ==
  ASSUME NEW N \in Nat, NEW S, NEW a \in S, NEW step \in [1..N -> [S -> S]],
         NEW g, Follows(g, N, S, a, step)
  PROVE  g \in [0..N -> S]
<1> DEFINE T == {n \in 0..N : g[n] \in S}
<1>1. 0 \in T
  BY DEF Follows
<1>2. ASSUME NEW n \in 1..N, n - 1 \in T
      PROVE  n \in T
  <2>1. n \in 0..N /\ g[n - 1] \in S
    BY <1>2
  <2>2. g[n] \in S
    BY <2>1 DEF Follows
  <2> QED
    BY <2>1, <2>2
<1>3. 0..N \subseteq T
  <2> HIDE DEF T
  <2> QED
    BY <1>1, <1>2, Stepwise
<1> QED
  BY <1>3 DEF Follows

\* A finite set has a least element in every total order.
LEMMA LeastElement ==
  ASSUME NEW U, IsFiniteSet(U), U # {}, NEW R,
         \A x, y \in U : <<x, y>> \in R \/ <<y, x>> \in R,
         \A x, y, z \in U : <<x, y>> \in R /\ <<y, z>> \in R => <<x, z>> \in R
  PROVE  \E x \in U : \A y \in U : <<x, y>> \in R
<1> DEFINE T == {n \in Nat : \A S \in SUBSET U :
                   Cardinality(S) = n /\ S # {} => \E x \in S : \A y \in S : <<x, y>> \in R}
<1>1. 0 \in T
  BY FS_EmptySet, FS_Subset
<1>2. ASSUME NEW n \in T \cap Nat
      PROVE  n + 1 \in T
  <2> SUFFICES ASSUME NEW S \in SUBSET U, Cardinality(S) = n + 1, S # {}
               PROVE  \E x \in S : \A y \in S : <<x, y>> \in R
    OBVIOUS
  <2>1. PICK z : z \in S
    OBVIOUS
  <2>2. IsFiniteSet(S)
    BY FS_Subset
  <2>3. Cardinality(S \ {z}) = n /\ S \ {z} \in SUBSET U
    BY <2>1, <2>2, FS_RemoveElement
  <2>4. CASE S = {z}
    BY <2>1, <2>4
  <2>5. CASE S # {z}
    <3>1. PICK x \in S \ {z} : \A y \in S \ {z} : <<x, y>> \in R
      BY <1>2, <2>1, <2>3, <2>5
    <3>2. CASE <<x, z>> \in R
      BY <3>1, <3>2
    <3>3. CASE <<z, x>> \in R
      <4>1. \A y \in S : <<z, y>> \in R
        BY <2>1, <3>1, <3>3
      <4> QED
        BY <2>1, <4>1
    <3> QED
      BY <2>1, <3>1, <3>2, <3>3
  <2> QED
    BY <2>4, <2>5
<1>3. Cardinality(U) \in Nat
  BY FS_CardinalityType
<1>4. Cardinality(U) \in T
  <2> HIDE DEF T
  <2> QED
    BY <1>1, <1>2, <1>3, AllNumbers
<1> QED
  BY <1>4

LEMMA FiniteImage ==
  ASSUME NEW S, IsFiniteSet(S), NEW f
  PROVE  IsFiniteSet({f[x] : x \in S})
<1> DEFINE T == {f[x] : x \in S}
           g == [x \in S |-> f[x]]
<1>1. g \in Surjection(S, T)
  BY DEF Surjection
<1>2. IsFiniteSet(T)
  BY <1>1, FS_Surjection
<1> QED
  BY <1>2

-----------------------------------------------------------------------------
(* The tasks of a plan.                                                    *)

LEMMA NumberedStep ==
  ASSUME NEW h \in Handoffs
  PROVE  /\ Len(h.prototypes) \in Nat /\ DOMAIN h.prototypes = 1..Len(h.prototypes)
         /\ \A k \in DOMAIN h.prototypes : h.prototypes[k] \in Prototypes
         /\ Numbered(h) \in [0..Len(h.prototypes) -> Nat]
         /\ Numbered(h)[0] = 0
         /\ \A k \in 1..Len(h.prototypes) :
              Numbered(h)[k] = Numbered(h)[k - 1] + Len(h.prototypes[k].tasks)
<1> DEFINE N == Len(h.prototypes)
           long(k) == Len(h.prototypes[k].tasks)
           P(f) == f = [k \in 0..N |-> IF k = 0 THEN 0 ELSE f[k - 1] + long(k)]
           step == [k \in 1..N |-> [v \in Nat |-> v + long(k)]]
<1>1. N \in Nat /\ DOMAIN h.prototypes = 1..N /\ \A k \in 1..N : h.prototypes[k] \in Prototypes
  BY HandoffsAssumption
<1>2. \A k \in 1..N : long(k) \in Nat
  BY <1>1 DEF Prototypes
<1>3. step \in [1..N -> [Nat -> Nat]]
  BY <1>2
<1>4. \A k \in 1..N, v \in Nat : step[k][v] = v + long(k)
  OBVIOUS
<1>5. PICK f \in [0..N -> Nat] : Iterates(f, N, 0, step)
  <2>1. 0 \in Nat /\ N \in Nat
    BY <1>1
  <2> HIDE DEF step, N
  <2> QED
    BY <1>3, <2>1, Recursion
<1>6. \A k \in 1..N : f[k] = f[k - 1] + long(k)
  <2> HIDE DEF step
  <2>1. \A k \in 1..N : k \in 1..N /\ f[k - 1] \in Nat
    BY <1>1
  <2> QED
    BY <1>4, <1>5, <2>1 DEF Iterates
<1>7. P(f)
  <2> HIDE DEF step, long
  <2>1. f = [k \in 0..N |-> f[k]]
    BY <1>5
  <2>2. \A k \in 0..N : f[k] = IF k = 0 THEN 0 ELSE f[k - 1] + long(k)
    BY <1>1, <1>5, <1>6 DEF Iterates
  <2> QED
    BY <2>1, <2>2
<1>8. Numbered(h) = CHOOSE g : P(g)
  BY Zenon DEF Numbered
<1>9. P(Numbered(h))
  <2> HIDE DEF P
  <2> QED
    BY <1>7, <1>8
<1> DEFINE g == Numbered(h)
<1> HIDE DEF g, long
<1>10. DOMAIN g = 0..N /\ g = [k \in 0..N |-> g[k]] /\ g[0] = 0 /\ \A k \in 1..N : g[k] = g[k - 1] + long(k)
  BY <1>1, <1>9 DEF g
<1>11. g \in [0..N -> Nat]
  <2>1. \A k \in 1..N : g[k - 1] \in Nat => g[k] = step[k][g[k - 1]]
    <3> HIDE DEF step, N
    <3> QED
      BY <1>4, <1>10
  <2>2. 0 \in Nat /\ N \in Nat
    BY <1>1
  <2> HIDE DEF step, N
  <2>3. Follows(g, N, Nat, 0, step)
    BY <1>10, <2>1 DEF Follows
  <2> QED
    BY <1>3, <2>2, <2>3, Stays
<1> QED
  BY <1>1, <1>10, <1>11 DEF g, long

LEMMA NumberedGrows ==
  ASSUME NEW h \in Handoffs, NEW k \in 0..Len(h.prototypes)
  PROVE  Numbered(h)[k] <= Numbered(h)[Len(h.prototypes)]
<1> DEFINE N == Len(h.prototypes)
           g == Numbered(h)
           T == {m \in 0..N : \A j \in 0..m : g[j] <= g[m]}
<1>1. N \in Nat /\ g \in [0..N -> Nat]
  BY NumberedStep
<1>2. \A m \in 1..N : g[m - 1] <= g[m]
  <2> SUFFICES ASSUME NEW m \in 1..N
               PROVE  g[m - 1] <= g[m]
    OBVIOUS
  <2>1. g[m] = g[m - 1] + Len(h.prototypes[m].tasks) /\ h.prototypes[m] \in Prototypes
    BY NumberedStep
  <2>2. Len(h.prototypes[m].tasks) \in Nat
    BY <2>1 DEF Prototypes
  <2>3. g[m - 1] \in Nat
    BY <1>1
  <2> HIDE DEF g
  <2> QED
    BY <2>1, <2>2, <2>3
<1> HIDE DEF N, g
<1>3. 0 \in T
  BY <1>1
<1>4. ASSUME NEW m \in 1..N, m - 1 \in T
      PROVE  m \in T
  <2>1. m \in 0..N /\ m - 1 \in 0..N /\ g[m] \in Nat /\ g[m - 1] \in Nat
    BY <1>1
  <2>2. ASSUME NEW j \in 0..m
        PROVE  g[j] <= g[m]
    <3>1. CASE j = m
      BY <2>1, <3>1
    <3>2. CASE j # m
      <4>1. j \in 0..(m - 1) /\ j \in 0..N
        BY <1>1, <3>2
      <4>2. g[j] <= g[m - 1] /\ g[j] \in Nat
        BY <1>1, <1>4, <4>1
      <4> QED
        BY <1>2, <2>1, <4>2
    <3> QED
      BY <3>1, <3>2
  <2> QED
    BY <2>1, <2>2
<1>5. 0..N \subseteq T
  <2> HIDE DEF T
  <2> QED
    BY <1>1, <1>3, <1>4, Stepwise
<1>6. N \in T /\ k \in 0..N
  BY <1>1, <1>5 DEF N
<1> QED
  BY <1>6 DEF N, g

\* Every number up to the last belongs to a prototype.
LEMMA NumberedPlace ==
  ASSUME NEW h \in Handoffs, NEW n \in 1..Numbered(h)[Len(h.prototypes)]
  PROVE  \E k \in DOMAIN h.prototypes : Numbered(h)[k - 1] < n /\ n <= Numbered(h)[k]
<1> DEFINE N == Len(h.prototypes)
           g == Numbered(h)
           S == {k \in 0..N : n <= g[k]}
<1>1. N \in Nat /\ g \in [0..N -> Nat] /\ g[0] = 0 /\ DOMAIN h.prototypes = 1..N
  BY NumberedStep
<1>2. n \in 1..g[N]
  OBVIOUS
<1> HIDE DEF N, g
<1>3. g[N] \in Nat /\ n \in Nat /\ n <= g[N] /\ ~(n <= 0)
  BY <1>1, <1>2
<1>4. S \in SUBSET Nat /\ S # {}
  BY <1>1, <1>3
<1>5. PICK k \in S : \A j \in S : k <= j
  <2> HIDE DEF S
  <2> QED
    BY <1>4, LeastNumber
<1>6. k \in 1..N
  BY <1>1, <1>3, <1>5
<1>7. k - 1 \in 0..N /\ ~(k <= k - 1) /\ g[k - 1] \in Nat
  BY <1>1, <1>6
<1>8. ~(n <= g[k - 1])
  BY <1>5, <1>7
<1> QED
  BY <1>1, <1>3, <1>5, <1>6, <1>7, <1>8 DEF g

\* A task as derived; what acts outside is blocked, and what is ready neither
\* acts outside nor waits.
Effects == STRING \cup External \cup {"READ_ONLY"}
Statuses == {"BACKLOG", "READY", "BLOCKED", "DONE", "SKIPPED"}
DerivedTask == [id : Nat, effect : Effects, deps : SUBSET Nat, status : Statuses, minutes : Nat]
Guarded(t) ==
  /\ t.status = "READY" => t.deps = {} /\ t.effect \notin External
  /\ t.effect \in External => t.status = "BLOCKED"

LEMMA StatusGuards ==
  ASSUME NEW task \in HandoffTask
  PROVE  /\ StatusOf(task) \in Statuses
         /\ StatusOf(task) = "READY" => task.deps = {} /\ task.effect \notin External
         /\ task.effect \in External => StatusOf(task) = "BLOCKED"
<1>1. CASE task.effect \in External
  <2>1. StatusOf(task) = "BLOCKED"
    BY <1>1 DEF StatusOf
  <2> QED
    BY <2>1 DEF Statuses
<1>2. CASE task.effect \notin External /\ task.status \in {"BACKLOG", "DONE", "SKIPPED"}
  <2>1. StatusOf(task) = task.status
    BY <1>2 DEF StatusOf
  <2> QED
    BY <1>2, <2>1 DEF Statuses
<1>3. CASE task.effect \notin External /\ task.status \notin {"BACKLOG", "DONE", "SKIPPED"}
  <2>1. StatusOf(task) = IF task.deps = {} THEN "READY" ELSE "BACKLOG"
    BY <1>3 DEF StatusOf
  <2> QED
    BY <1>3, <2>1 DEF Statuses
<1> QED
  BY <1>1, <1>2, <1>3

LEMMA MinutesNumber ==
  ASSUME NEW band
  PROVE  Minutes(band) \in Nat
<1>1. CASE band \in {"DAYS", "WEEKS", "MONTHS"}
  BY <1>1 DEF Minutes
<1>2. CASE band \notin {"DAYS", "WEEKS", "MONTHS"}
  BY <1>2 DEF Minutes
<1> QED
  BY <1>1, <1>2

LEMMA GivenTask ==
  ASSUME NEW h \in Handoffs, NEW n \in 1..Numbered(h)[Len(h.prototypes)]
  PROVE  /\ Given(h, n) \in DerivedTask /\ Given(h, n).id = n
         /\ Given(h, n).deps \subseteq 1..Numbered(h)[Len(h.prototypes)]
         /\ Guarded(Given(h, n))
<1> DEFINE N == Len(h.prototypes)
           g == Numbered(h)
           Here(k) == g[k - 1] < n /\ n <= g[k]
           k == CHOOSE k \in DOMAIN h.prototypes : Here(k)
           task == h.prototypes[k].tasks[n - g[k - 1]]
           deps == {g[k - 1] + d : d \in task.deps}
<1>1. N \in Nat /\ g \in [0..N -> Nat] /\ DOMAIN h.prototypes = 1..N
  BY NumberedStep
<1>2. k \in DOMAIN h.prototypes /\ Here(k)
  <2>1. \E j \in DOMAIN h.prototypes : Here(j)
    BY NumberedPlace
  <2> HIDE DEF Here
  <2> QED
    BY <2>1
<1>3. Given(h, n) = [id |-> n, effect |-> task.effect, deps |-> deps, status |-> StatusOf(task),
                     minutes |-> Minutes(h.prototypes[k].band)]
  BY DEF Given
<1> HIDE DEF k
<1>4. k \in 1..N /\ h.prototypes[k] \in Prototypes /\ g[k] = g[k - 1] + Len(h.prototypes[k].tasks)
  BY <1>1, <1>2, NumberedStep
<1>5. /\ h.prototypes[k].tasks \in Seq(HandoffTask) /\ Len(h.prototypes[k].tasks) \in Nat
      /\ DOMAIN h.prototypes[k].tasks = 1..Len(h.prototypes[k].tasks)
  BY <1>4 DEF Prototypes
<1> DEFINE L == Len(h.prototypes[k].tasks)
<1> HIDE DEF L, g, N
<1>6. g[k - 1] \in Nat /\ g[k] \in Nat /\ g[N] \in Nat /\ g[k] <= g[N] /\ g[k] = g[k - 1] + L /\ L \in Nat
  <2>1. g[k - 1] \in Nat /\ g[k] \in Nat /\ g[N] \in Nat
    BY <1>1, <1>4
  <2>2. k \in 0..N
    BY <1>1, <1>4
  <2> QED
    BY <1>4, <1>5, <2>1, <2>2, NumberedGrows DEF g, L, N
<1>7. n \in 1..g[N] /\ n \in Nat
  BY <1>6 DEF g, N
<1>8. n - g[k - 1] \in 1..L
  BY <1>2, <1>6, <1>7
<1>9. task \in HandoffTask /\ task.deps \subseteq 1..L
  <2>1. n - g[k - 1] \in DOMAIN h.prototypes[k].tasks
    BY <1>5, <1>8 DEF L
  <2>2. \A i \in DOMAIN h.prototypes[k].tasks :
          h.prototypes[k].tasks[i].deps \subseteq DOMAIN h.prototypes[k].tasks
    BY <1>2, HandoffsAssumption
  <2> QED
    BY <1>5, <2>1, <2>2 DEF L
<1> HIDE DEF task
<1>10. deps \subseteq 1..g[N] /\ deps \subseteq Nat /\ (task.deps = {} => deps = {})
  BY <1>6, <1>9
<1>11. task.effect \in Effects /\ Minutes(h.prototypes[k].band) \in Nat
  BY <1>9, MinutesNumber DEF HandoffTask, Effects
<1> DEFINE minutes == Minutes(h.prototypes[k].band)
           status == StatusOf(task)
<1>12. /\ status \in Statuses
       /\ status = "READY" => task.deps = {} /\ task.effect \notin External
       /\ task.effect \in External => status = "BLOCKED"
  BY <1>9, StatusGuards
<1> HIDE DEF deps, minutes, status
<1>13. Given(h, n) = [id |-> n, effect |-> task.effect, deps |-> deps, status |-> status, minutes |-> minutes]
  BY <1>3 DEF task, deps, minutes, status
<1>14. Given(h, n) \in DerivedTask
  BY <1>7, <1>10, <1>11, <1>12, <1>13 DEF DerivedTask, minutes
<1>15. Guarded(Given(h, n))
  BY <1>10, <1>12, <1>13 DEF Guarded
<1> QED
  BY <1>10, <1>13, <1>14, <1>15 DEF g, N

LEMMA FallbackTask ==
  ASSUME NEW L \in Nat, NEW n \in 1..L
  PROVE  /\ Fallback(n) \in DerivedTask /\ Fallback(n).id = n
         /\ Fallback(n).deps \subseteq 1..L /\ Guarded(Fallback(n))
<1> DEFINE effect == IF n % 3 = 0 THEN "READ_ONLY" ELSE "PHYSICAL_EXTERNAL"
           deps == IF n % 3 = 1 THEN {} ELSE {n - 1}
           status == IF n % 3 = 0 THEN "BACKLOG" ELSE "BLOCKED"
<1>1. n \in Nat /\ (n % 3 # 1 => n - 1 \in 1..L)
  <2>1. n # 1 => n - 1 \in 1..L
    OBVIOUS
  <2>2. 1 % 3 = 1
    OBVIOUS
  <2> QED
    BY <2>1, <2>2
<1>2. effect \in Effects /\ status \in Statuses /\ deps \subseteq 1..L /\ deps \subseteq Nat
  BY <1>1 DEF Effects, Statuses, External
<1>3. status # "READY" /\ (effect \in External => status = "BLOCKED")
  BY DEF External
<1> HIDE DEF effect, deps, status
<1>4. Fallback(n) = [id |-> n, effect |-> effect, deps |-> deps, status |-> status, minutes |-> 60]
  BY DEF Fallback, effect, deps, status
<1> QED
  BY <1>1, <1>2, <1>3, <1>4 DEF DerivedTask, Guarded

\* A task that is local, ready and waits for nothing.
LEMMA LocalTask ==
  ASSUME NEW id \in Nat
  PROVE  /\ Local(id) \in DerivedTask /\ Local(id).id = id /\ Local(id).deps = {}
         /\ Guarded(Local(id)) /\ LocalRoot(Local(id))
<1>1. "READ_ONLY" \notin External /\ "READ_ONLY" \in Effects /\ "READY" \in Statuses
  BY DEF External, Effects, Statuses
<1>2. Local(id) = [id |-> id, effect |-> "READ_ONLY", deps |-> {}, status |-> "READY", minutes |-> 15]
  BY DEF Local
<1> QED
  BY <1>1, <1>2 DEF DerivedTask, Guarded, LocalRoot

\* Tasks that are numbered through and depend on one another.
Numbering(base) ==
  /\ base \in Seq(DerivedTask)
  /\ \A i \in DOMAIN base : base[i].id = i /\ base[i].deps \subseteq DOMAIN base /\ Guarded(base[i])

LEMMA GivenNumbering ==
  ASSUME NEW h \in Handoffs
  PROVE  Numbering([n \in 1..Numbered(h)[Len(h.prototypes)] |-> Given(h, n)])
<1> DEFINE L == Numbered(h)[Len(h.prototypes)]
<1>1. L \in Nat
  BY NumberedStep
<1>2. \A n \in 1..L : Given(h, n) \in DerivedTask /\ Given(h, n).id = n /\ Given(h, n).deps \subseteq 1..L
                        /\ Guarded(Given(h, n))
  BY GivenTask
<1> HIDE DEF L
<1> QED
  BY <1>1, <1>2 DEF Numbering, L

LEMMA FallbackNumbering ==
  ASSUME NEW L \in Nat
  PROVE  Numbering([n \in 1..L |-> Fallback(n)])
<1>1. \A n \in 1..L : Fallback(n) \in DerivedTask /\ Fallback(n).id = n /\ Fallback(n).deps \subseteq 1..L
                        /\ Guarded(Fallback(n))
  BY FallbackTask
<1> QED
  BY <1>1 DEF Numbering

\* What is derived is numbered through, but for a validation task, which has a
\* number that is free.
LEMMA DerivedShape ==
  ASSUME NEW h \in Handoffs
  PROVE  \E base : /\ Numbering(base)
                   /\ \/ Derived(h) = base
                      \/ \E v \in Nat \ DOMAIN base : Derived(h) = Append(base, Local(v))
<1> DEFINE packages == Len(h.prototypes)
           given == [n \in 1..Numbered(h)[packages] |-> Given(h, n)]
           required == Cardinality(DOMAIN h.listed)
           length == 3 * IF required = 0 THEN 1 ELSE required
           fallback == [n \in 1..length |-> Fallback(n)]
<1>1. Derived(h) = IF packages = 0 THEN Append(fallback, Local(Len(fallback) + 1))
                   ELSE IF h.prototypes[packages].validates THEN given
                   ELSE Append(given, Local(ValidationId(Len(given))))
  BY DEF Derived
<1>2. length \in Nat
  <2>1. required \in Nat
    BY HandoffsAssumption, FS_CardinalityType
  <2> HIDE DEF required
  <2> QED
    BY <2>1
<1>3. Numbering(fallback) /\ Numbering(given)
  <2> HIDE DEF length
  <2> QED
    BY <1>2, FallbackNumbering, GivenNumbering
<1> HIDE DEF fallback, given
<1>4. ASSUME NEW base, Numbering(base)
      PROVE  /\ Len(base) \in Nat /\ DOMAIN base = 1..Len(base)
             /\ Len(base) + 1 \in Nat \ DOMAIN base /\ ValidationId(Len(base)) \in Nat \ DOMAIN base
  <2>1. Len(base) \in Nat /\ DOMAIN base = 1..Len(base)
    BY <1>4 DEF Numbering
  <2> QED
    BY <2>1 DEF ValidationId
<1> QED
  BY <1>1, <1>3, <1>4

\* A task of a plan, and what holds of its tasks together.
PlanTask ==
  [id : Nat, effect : Effects, deps : SUBSET Nat, status : Statuses, minutes : Nat, approvals : SUBSET {"AR001"}]
Graph(tasks) ==
  /\ tasks \in Seq(PlanTask)
  /\ \A i, j \in DOMAIN tasks : tasks[i].id = tasks[j].id => i = j
  /\ \A i \in DOMAIN tasks : tasks[i].deps \subseteq Ids(tasks)
CanStart(tasks) ==
  /\ \E i \in DOMAIN tasks : LocalRoot(tasks[i])
  /\ \A i \in DOMAIN tasks :
       Guarded(tasks[i]) /\ (tasks[i].approvals = {} <=> tasks[i].effect \notin External)

\* The tasks of a plan before approvals are added to them.
Sound(made) ==
  /\ made \in Seq(DerivedTask)
  /\ \A i, j \in DOMAIN made : made[i].id = made[j].id => i = j
  /\ \A i \in DOMAIN made :
       Guarded(made[i]) /\ \A d \in made[i].deps : \E j \in DOMAIN made : made[j].id = d

LEMMA NumberingSound ==
  ASSUME NEW base, Numbering(base)
  PROVE  Sound(base) /\ \A v \in Nat \ DOMAIN base : Sound(Append(base, Local(v)))
<1>1. /\ base \in Seq(DerivedTask) /\ Len(base) \in Nat /\ DOMAIN base = 1..Len(base)
      /\ \A i \in DOMAIN base : base[i].id = i /\ base[i].deps \subseteq DOMAIN base /\ Guarded(base[i])
  BY DEF Numbering
<1>2. Sound(base)
  BY <1>1 DEF Sound
<1>3. ASSUME NEW v \in Nat \ DOMAIN base
      PROVE  Sound(Append(base, Local(v)))
  <2> DEFINE made == Append(base, Local(v))
             L == Len(base)
  <2>1. /\ Local(v) \in DerivedTask /\ Local(v).id = v /\ Local(v).deps = {} /\ Guarded(Local(v))
    BY LocalTask
  <2>2. /\ made \in Seq(DerivedTask) /\ DOMAIN made = 1..(L + 1) /\ made[L + 1] = Local(v)
        /\ \A i \in 1..L : made[i] = base[i]
    BY <1>1, <2>1
  <2>3. \A i \in 1..(L + 1) : i \in 1..L \/ i = L + 1
    BY <1>1
  <2> HIDE DEF made
  <2>4. \A i \in 1..L : made[i].id = i /\ made[i].deps \subseteq 1..L /\ Guarded(made[i]) /\ i \in 1..(L + 1)
    BY <1>1, <2>2
  <2>5. made[L + 1].id = v /\ v \notin 1..L /\ made[L + 1].deps = {} /\ Guarded(made[L + 1])
    BY <1>1, <2>1, <2>2
  <2> HIDE DEF L
  <2>6. \A i, j \in DOMAIN made : made[i].id = made[j].id => i = j
    BY <2>2, <2>3, <2>4, <2>5
  <2>7. \A i \in DOMAIN made :
          Guarded(made[i]) /\ \A d \in made[i].deps : \E j \in DOMAIN made : made[j].id = d
    BY <2>2, <2>3, <2>4, <2>5
  <2> QED
    BY <2>2, <2>6, <2>7 DEF Sound, made
<1> QED
  BY <1>2, <1>3

LEMMA PlanTasksGraph ==
  ASSUME NEW h \in Handoffs
  PROVE  Graph(PlanTasks(h)) /\ CanStart(PlanTasks(h))
<1> DEFINE derived == Derived(h)
           made == IF \E i \in DOMAIN derived : LocalRoot(derived[i]) THEN derived
                   ELSE Append(derived, Local(Len(derived) + 1))
           tasks == PlanTasks(h)
<1>1. tasks = [i \in DOMAIN made |->
                 [id |-> made[i].id, effect |-> made[i].effect, deps |-> made[i].deps,
                  status |-> made[i].status, minutes |-> made[i].minutes, approvals |-> ApprovedBy(made[i])]]
  BY DEF PlanTasks
<1>2. PICK base : /\ Numbering(base)
                  /\ \/ derived = base
                     \/ \E v \in Nat \ DOMAIN base : derived = Append(base, Local(v))
  BY DerivedShape
<1>3. /\ base \in Seq(DerivedTask) /\ Len(base) \in Nat /\ DOMAIN base = 1..Len(base)
      /\ Len(base) + 1 \in Nat \ DOMAIN base
  BY <1>2 DEF Numbering
<1>4. Sound(made) /\ \E i \in DOMAIN made : LocalRoot(made[i])
  <2>1. CASE derived = base /\ \E i \in DOMAIN derived : LocalRoot(derived[i])
    BY <1>2, <2>1, NumberingSound
  <2>2. CASE derived = base /\ ~\E i \in DOMAIN derived : LocalRoot(derived[i])
    <3> DEFINE n == Len(base) + 1
    <3>1. made = Append(base, Local(n)) /\ n \in Nat \ DOMAIN base
      BY <1>3, <2>2
    <3>2. Sound(made)
      BY <1>2, <3>1, NumberingSound
    <3>3. Local(n) \in DerivedTask /\ LocalRoot(Local(n))
      BY <3>1, LocalTask
    <3> HIDE DEF made
    <3>4. n \in DOMAIN made /\ made[n] = Local(n)
      BY <1>3, <3>1, <3>3
    <3> QED
      BY <3>2, <3>3, <3>4
  <2>3. CASE \E v \in Nat \ DOMAIN base : derived = Append(base, Local(v))
    <3>1. PICK v \in Nat \ DOMAIN base : derived = Append(base, Local(v))
      BY <2>3
    <3>2. Sound(derived)
      BY <1>2, <3>1, NumberingSound
    <3>3. Local(v) \in DerivedTask /\ LocalRoot(Local(v))
      BY LocalTask
    <3> DEFINE n == Len(base) + 1
    <3> HIDE DEF derived
    <3>4. n \in DOMAIN derived /\ derived[n] = Local(v)
      BY <1>3, <3>1, <3>3
    <3>5. \E i \in DOMAIN derived : LocalRoot(derived[i])
      BY <3>3, <3>4
    <3> QED
      BY <3>2, <3>5
  <2> QED
    BY <1>2, <2>1, <2>2, <2>3
<1> HIDE DEF made
<1>5. /\ made \in Seq(DerivedTask)
      /\ \A i, j \in DOMAIN made : made[i].id = made[j].id => i = j
      /\ \A i \in DOMAIN made :
           Guarded(made[i]) /\ \A d \in made[i].deps : \E j \in DOMAIN made : made[j].id = d
  BY <1>4 DEF Sound
<1> HIDE DEF tasks
<1>6. DOMAIN tasks = DOMAIN made /\ Len(made) \in Nat /\ DOMAIN made = 1..Len(made)
  BY <1>1, <1>5
<1>7. \A i \in DOMAIN tasks :
        /\ tasks[i].id = made[i].id /\ tasks[i].effect = made[i].effect /\ tasks[i].deps = made[i].deps
        /\ tasks[i].status = made[i].status /\ tasks[i].approvals = ApprovedBy(made[i])
        /\ tasks[i] \in PlanTask
  <2> SUFFICES ASSUME NEW i \in DOMAIN made
               PROVE  /\ tasks[i].id = made[i].id /\ tasks[i].effect = made[i].effect
                      /\ tasks[i].deps = made[i].deps /\ tasks[i].status = made[i].status
                      /\ tasks[i].approvals = ApprovedBy(made[i]) /\ tasks[i] \in PlanTask
    BY <1>6
  <2> DEFINE m == made[i]
             by == ApprovedBy(m)
  <2>1. m \in DerivedTask
    BY <1>5, <1>6
  <2>2. by \in SUBSET {"AR001"}
    BY DEF ApprovedBy
  <2>3. tasks[i] = [id |-> m.id, effect |-> m.effect, deps |-> m.deps, status |-> m.status,
                    minutes |-> m.minutes, approvals |-> by]
    BY <1>1
  <2> HIDE DEF m, by
  <2> QED
    BY <2>1, <2>2, <2>3 DEF DerivedTask, PlanTask, m, by
<1>8. tasks \in Seq(PlanTask)
  <2>1. tasks \in [1..Len(made) -> PlanTask]
    BY <1>1, <1>6, <1>7
  <2> QED
    BY <1>6, <2>1
<1>9. \A i \in DOMAIN tasks : tasks[i].deps \subseteq Ids(tasks)
  <2>1. \A j \in DOMAIN tasks : tasks[j].id \in Ids(tasks)
    BY DEF Ids, ToSet
  <2> QED
    BY <1>5, <1>6, <1>7, <2>1
<1>10. Graph(tasks)
  BY <1>5, <1>6, <1>7, <1>8, <1>9 DEF Graph
<1>11. \A i \in DOMAIN tasks :
         Guarded(tasks[i]) /\ (tasks[i].approvals = {} <=> tasks[i].effect \notin External)
  BY <1>5, <1>6, <1>7 DEF Guarded, ApprovedBy
<1>12. \E i \in DOMAIN tasks : LocalRoot(tasks[i])
  BY <1>4, <1>6, <1>7 DEF LocalRoot
<1> QED
  BY <1>10, <1>11, <1>12 DEF CanStart, tasks

-----------------------------------------------------------------------------
(* The order of the tasks.                                                 *)

LEMMA GraphTasks ==
  ASSUME NEW tasks, Graph(tasks)
  PROVE  /\ Len(tasks) \in Nat /\ DOMAIN tasks = 1..Len(tasks)
         /\ IsFiniteSet(ToSet(tasks)) /\ IsFiniteSet(Ids(tasks)) /\ Ids(tasks) \in SUBSET Nat
         /\ \A i \in 1..Len(tasks) : tasks[i] \in ToSet(tasks)
         /\ \A t \in ToSet(tasks) : \E i \in 1..Len(tasks) : t = tasks[i]
         /\ \A t \in ToSet(tasks) :
              t \in PlanTask /\ t.id \in Ids(tasks) /\ t.deps \subseteq Ids(tasks) /\ IsFiniteSet(t.deps)
         /\ \A t, u \in ToSet(tasks) : t.id = u.id => t = u
         /\ \A x \in Ids(tasks) : \E t \in ToSet(tasks) : t.id = x
<1>1. Len(tasks) \in Nat /\ DOMAIN tasks = 1..Len(tasks) /\ \A i \in 1..Len(tasks) : tasks[i] \in PlanTask
  BY DEF Graph
<1>2. ToSet(tasks) = {tasks[i] : i \in 1..Len(tasks)}
  BY <1>1 DEF ToSet
<1>3. IsFiniteSet(1..Len(tasks))
  BY <1>1, FS_Interval
<1>4. IsFiniteSet(ToSet(tasks)) /\ IsFiniteSet(Ids(tasks))
  <2>1. IsFiniteSet({tasks[i] : i \in 1..Len(tasks)})
    BY <1>3, FiniteImage
  <2>2. IsFiniteSet(ToSet(tasks))
    BY <1>2, <2>1
  <2> DEFINE name == [t \in ToSet(tasks) |-> t.id]
  <2>3. IsFiniteSet({name[t] : t \in ToSet(tasks)})
    BY <2>2, FiniteImage
  <2>4. {name[t] : t \in ToSet(tasks)} = {t.id : t \in ToSet(tasks)}
    OBVIOUS
  <2> QED
    BY <2>2, <2>3, <2>4 DEF Ids
<1>5. /\ \A i \in 1..Len(tasks) : tasks[i] \in ToSet(tasks)
      /\ \A t \in ToSet(tasks) : \E i \in 1..Len(tasks) : t = tasks[i]
  BY <1>2
<1>6. \A t \in ToSet(tasks) : t \in PlanTask /\ t.id \in Ids(tasks) /\ t.deps \subseteq Ids(tasks)
  BY <1>1, <1>5 DEF Graph, Ids
<1>7. \A t \in ToSet(tasks) : IsFiniteSet(t.deps)
  BY <1>4, <1>6, FS_Subset
<1>8. \A t, u \in ToSet(tasks) : t.id = u.id => t = u
  BY <1>1, <1>5 DEF Graph
<1>9. Ids(tasks) \in SUBSET Nat /\ \A x \in Ids(tasks) : \E t \in ToSet(tasks) : t.id = x
  BY <1>6 DEF Ids, PlanTask
<1> QED
  BY <1>1, <1>4, <1>5, <1>6, <1>7, <1>8, <1>9

\* When a task became ready is some number of tasks done.
LEMMA Freed ==
  ASSUME NEW done \in Seq(Nat), NEW t, t.deps \subseteq ToSet(done)
  PROVE  FreedAt(done, t) \in 0..Len(done)
<1> DEFINE N == Len(done)
           Free(n) == t.deps \subseteq {done[j] : j \in 1..n}
           S == {n \in 0..N : Free(n)}
<1>1. N \in Nat /\ DOMAIN done = 1..N
  OBVIOUS
<1>2. N \in S
  BY <1>1 DEF ToSet
<1> HIDE DEF N
<1>3. PICK n \in S : \A m \in S : n <= m
  <2> HIDE DEF Free
  <2>1. S \in SUBSET Nat /\ S # {}
    BY <1>1, <1>2
  <2> HIDE DEF S
  <2> QED
    BY <2>1, LeastNumber
<1>4. \A m \in 0..N : n <= m => Free(m)
  <2> SUFFICES ASSUME NEW m \in 0..N, n <= m
               PROVE  Free(m)
    OBVIOUS
  <2>1. 1..n \subseteq 1..m
    BY <1>1, <1>3
  <2> QED
    BY <1>3, <2>1
<1>5. \A m \in 0..N : Free(m) <=> n <= m
  <2> HIDE DEF Free
  <2> QED
    BY <1>3, <1>4
<1>6. n \in 0..N
  BY <1>3
<1>7. FreedAt(done, t) = CHOOSE k \in 0..N : \A m \in 0..N : Free(m) <=> k <= m
  BY DEF FreedAt, N
<1> HIDE DEF Free
<1> QED
  BY <1>5, <1>6, <1>7 DEF N

\* Of what is ready something is first.
LEMMA HeadOfReady ==
  ASSUME NEW tasks, Graph(tasks), NEW done \in Seq(Nat), Ready(tasks, done) # {}
  PROVE  \E t \in Ready(tasks, done) : \A u \in Ready(tasks, done) : Queued(done, t, u)
<1> DEFINE U == Ready(tasks, done)
           R == {e \in U \X U : Queued(done, e[1], e[2])}
<1>1. U \subseteq ToSet(tasks) /\ \A t \in U : t.deps \subseteq ToSet(done)
  BY DEF Ready
<1>2. IsFiniteSet(U) /\ \A t \in U : t.id \in Nat
  BY <1>1, GraphTasks, FS_Subset DEF PlanTask
<1>3. \A t \in U : FreedAt(done, t) \in Nat
  <2> TAKE t \in U
  <2>1. FreedAt(done, t) \in 0..Len(done)
    BY <1>1, Freed
  <2> QED
    BY <2>1
<1> HIDE DEF U
<1>4. \A x, y \in U : <<x, y>> \in R \/ <<y, x>> \in R
  BY <1>2, <1>3 DEF Queued
<1>5. \A x, y, z \in U : <<x, y>> \in R /\ <<y, z>> \in R => <<x, z>> \in R
  BY <1>2, <1>3 DEF Queued
<1>6. \A x, y \in U : <<x, y>> \in R => Queued(done, x, y)
  OBVIOUS
<1>7. U # {}
  BY DEF U
<1> HIDE DEF R
<1>8. \E x \in U : \A y \in U : <<x, y>> \in R
  BY <1>2, <1>4, <1>5, <1>7, LeastElement
<1> QED
  BY <1>6, <1>8 DEF U

\* A task that is ready is done next, until none is.
LEMMA PopStep ==
  ASSUME NEW tasks, Graph(tasks), NEW done \in Seq(Nat)
  PROVE  /\ Ready(tasks, done) = {} => Pop(tasks, done) = done
         /\ Ready(tasks, done) # {} => \E t \in Ready(tasks, done) : Pop(tasks, done) = Append(done, t.id)
         /\ Pop(tasks, done) \in Seq(Nat)
<1> DEFINE ready == Ready(tasks, done)
           First(t) == \A u \in ready : Queued(done, t, u)
           head == CHOOSE t \in ready : First(t)
<1>1. Pop(tasks, done) = IF ready = {} THEN done ELSE Append(done, head.id)
  BY DEF Pop
<1>2. ready # {} => head \in ready
  <2>1. ready # {} => \E t \in ready : First(t)
    BY HeadOfReady
  <2> HIDE DEF First, ready
  <2> QED
    BY <2>1
<1>3. \A t \in ready : t.id \in Nat
  BY GraphTasks DEF Ready, PlanTask
<1> HIDE DEF head
<1> QED
  BY <1>1, <1>2, <1>3

LEMMA OrdersStep ==
  ASSUME NEW tasks, Graph(tasks)
  PROVE  /\ Orders(tasks) \in [0..Len(tasks) -> Seq(Nat)]
         /\ Orders(tasks)[0] = <<>>
         /\ \A n \in 1..Len(tasks) : Orders(tasks)[n] = Pop(tasks, Orders(tasks)[n - 1])
<1> DEFINE N == Len(tasks)
           S == Seq(Nat)
           P(f) == f = [n \in 0..N |-> IF n = 0 THEN <<>> ELSE Pop(tasks, f[n - 1])]
           step == [n \in 1..N |-> [done \in S |-> Pop(tasks, done)]]
<1>1. N \in Nat
  BY GraphTasks
<1>2. \A done \in S : Pop(tasks, done) \in S
  BY PopStep
<1>3. <<>> \in S
  OBVIOUS
<1> HIDE DEF S, N
<1>4. step \in [1..N -> [S -> S]] /\ \A n \in 1..N, done \in S : step[n][done] = Pop(tasks, done)
  BY <1>2
<1> HIDE DEF step
<1>5. PICK f \in [0..N -> S] : Iterates(f, N, <<>>, step)
  BY <1>1, <1>3, <1>4, Recursion
<1>6. P(f)
  <2>1. f = [n \in 0..N |-> f[n]]
    BY <1>5
  <2>2. \A n \in 1..N : f[n] = step[n][f[n - 1]] /\ f[n - 1] \in S
    BY <1>1, <1>5 DEF Iterates
  <2>3. \A n \in 1..N : f[n] = Pop(tasks, f[n - 1])
    BY <1>4, <2>2
  <2>4. \A n \in 0..N : f[n] = IF n = 0 THEN <<>> ELSE Pop(tasks, f[n - 1])
    BY <1>1, <1>5, <2>3 DEF Iterates
  <2> QED
    BY <2>1, <2>4
<1>7. Orders(tasks) = CHOOSE g : P(g)
  BY Zenon DEF Orders, N
<1>8. P(Orders(tasks))
  <2> HIDE DEF P
  <2> QED
    BY <1>6, <1>7
<1> DEFINE g == Orders(tasks)
<1> HIDE DEF g
<1>9. /\ DOMAIN g = 0..N /\ g = [n \in 0..N |-> g[n]] /\ g[0] = <<>>
      /\ \A n \in 1..N : g[n] = Pop(tasks, g[n - 1])
  BY <1>1, <1>8 DEF g
<1>10. g \in [0..N -> S]
  <2>1. \A n \in 1..N : g[n - 1] \in S => g[n] = step[n][g[n - 1]]
    BY <1>4, <1>9
  <2>2. Follows(g, N, S, <<>>, step)
    BY <1>9, <2>1 DEF Follows
  <2> QED
    BY <1>1, <1>3, <1>4, <2>2, Stays
<1> QED
  BY <1>9, <1>10 DEF g, N, S

\* What is done is done once, and after what it waits for.
Ordered(tasks, done) ==
  /\ done \in Seq(Nat) /\ ToSet(done) \subseteq Ids(tasks)
  /\ \A i, j \in DOMAIN done : done[i] = done[j] => i = j
  /\ \A i \in DOMAIN done, t \in ToSet(tasks) :
       t.id = done[i] => \A d \in t.deps : \E j \in 1..(i - 1) : done[j] = d

LEMMA PopOrdered ==
  ASSUME NEW tasks, Graph(tasks), NEW done, Ordered(tasks, done), NEW t \in Ready(tasks, done)
  PROVE  Ordered(tasks, Append(done, t.id)) /\ Len(Append(done, t.id)) = Len(done) + 1
<1> DEFINE L == Len(done)
           next == Append(done, t.id)
<1>1. /\ done \in Seq(Nat) /\ L \in Nat /\ DOMAIN done = 1..L
      /\ \A i \in 1..L : done[i] \in ToSet(done)
      /\ \A x \in ToSet(done) : \E i \in 1..L : x = done[i]
  BY DEF Ordered, ToSet
<1>2. /\ t \in ToSet(tasks) /\ t.id \in Nat /\ t.id \in Ids(tasks)
      /\ t.id \notin ToSet(done) /\ t.deps \subseteq ToSet(done)
  BY GraphTasks DEF Ready, PlanTask
<1>3. /\ next \in Seq(Nat) /\ Len(next) = L + 1 /\ DOMAIN next = 1..(L + 1) /\ next[L + 1] = t.id
      /\ \A i \in 1..L : next[i] = done[i]
  BY <1>1, <1>2
<1> HIDE DEF next, L
<1>4. \A i \in 1..(L + 1) : i \in 1..L \/ i = L + 1
  BY <1>1
<1>5. ToSet(next) \subseteq Ids(tasks)
  <2>1. \A i \in 1..(L + 1) : next[i] \in Ids(tasks)
    BY <1>1, <1>2, <1>3, <1>4 DEF Ordered
  <2> QED
    BY <1>3, <2>1 DEF ToSet
<1>6. \A i, j \in DOMAIN next : next[i] = next[j] => i = j
  <2>1. \A i, j \in 1..L : done[i] = done[j] => i = j
    BY <1>1 DEF Ordered
  <2>2. \A i \in 1..L : done[i] # t.id
    BY <1>1, <1>2
  <2> QED
    BY <1>3, <1>4, <2>1, <2>2
<1>7. ASSUME NEW i \in DOMAIN next, NEW u \in ToSet(tasks), u.id = next[i], NEW d \in u.deps
      PROVE  \E j \in 1..(i - 1) : next[j] = d
  <2>1. CASE i \in 1..L
    <3>1. u.id = done[i] /\ i \in DOMAIN done
      BY <1>1, <1>3, <1>7, <2>1
    <3>2. PICK j \in 1..(i - 1) : done[j] = d
      BY <1>7, <3>1 DEF Ordered
    <3>3. j \in 1..L
      BY <1>1, <2>1, <3>2
    <3> QED
      BY <1>3, <3>2, <3>3
  <2>2. CASE i = L + 1
    <3>1. u = t
      BY <1>2, <1>3, <1>7, <2>2, GraphTasks
    <3>2. PICK j \in 1..L : done[j] = d
      BY <1>1, <1>2, <1>7, <3>1
    <3>3. j \in 1..(i - 1)
      BY <1>1, <2>2, <3>2
    <3> QED
      BY <1>3, <3>2, <3>3
  <2> QED
    BY <1>3, <1>4, <2>1, <2>2
<1> QED
  BY <1>3, <1>5, <1>6, <1>7 DEF Ordered, next, L

\* After n steps n tasks are done, or no more can be.
LEMMA OrdersKeep ==
  ASSUME NEW tasks, Graph(tasks), NEW n \in 0..Len(tasks)
  PROVE  /\ Ordered(tasks, Orders(tasks)[n])
         /\ Len(Orders(tasks)[n]) = n \/ Ready(tasks, Orders(tasks)[n]) = {}
         /\ Len(Orders(tasks)[n]) <= n
<1> DEFINE N == Len(tasks)
           g == Orders(tasks)
           Fine(m) == /\ Ordered(tasks, g[m]) /\ Len(g[m]) <= m
                      /\ Len(g[m]) = m \/ Ready(tasks, g[m]) = {}
           T == {m \in 0..N : Fine(m)}
<1>1. N \in Nat /\ g \in [0..N -> Seq(Nat)] /\ g[0] = <<>> /\ \A m \in 1..N : g[m] = Pop(tasks, g[m - 1])
  BY OrdersStep, GraphTasks
<1>2. n \in 0..N
  OBVIOUS
<1> HIDE DEF g, N
<1>3. 0 \in T
  <2>1. Ordered(tasks, <<>>) /\ Len(<<>>) = 0
    BY DEF Ordered, ToSet
  <2> QED
    BY <1>1, <2>1
<1>4. ASSUME NEW m \in 1..N, m - 1 \in T
      PROVE  m \in T
  <2> DEFINE done == g[m - 1]
  <2>1. m \in 0..N /\ m - 1 \in 0..N /\ m \in Nat
    BY <1>1
  <2>2. /\ Ordered(tasks, done) /\ Len(done) <= m - 1 /\ done \in Seq(Nat) /\ Len(done) \in Nat
        /\ Len(done) = m - 1 \/ Ready(tasks, done) = {}
    <3>1. Fine(m - 1)
      <4> HIDE DEF Fine
      <4> QED
        BY <1>4
    <3>2. done \in Seq(Nat)
      BY <1>1, <2>1
    <3> QED
      BY <3>1, <3>2
  <2>3. g[m] = Pop(tasks, done)
    BY <1>1
  <2> HIDE DEF done
  <2>4. CASE Ready(tasks, done) = {}
    <3>1. g[m] = done
      BY <2>2, <2>3, <2>4, PopStep
    <3>2. Fine(m)
      BY <2>1, <2>2, <2>4, <3>1
    <3> QED
      BY <2>1, <3>2
  <2>5. CASE Ready(tasks, done) # {}
    <3>1. PICK t \in Ready(tasks, done) : g[m] = Append(done, t.id)
      BY <2>2, <2>3, <2>5, PopStep
    <3>2. Ordered(tasks, g[m]) /\ Len(g[m]) = Len(done) + 1
      BY <2>2, <3>1, PopOrdered
    <3>3. Fine(m)
      BY <2>1, <2>2, <2>5, <3>2
    <3> QED
      BY <2>1, <3>3
  <2> QED
    BY <2>4, <2>5
<1>5. 0..N \subseteq T
  <2> HIDE DEF T
  <2> QED
    BY <1>1, <1>3, <1>4, Stepwise
<1> QED
  BY <1>2, <1>5 DEF g, N

LEMMA Topological ==
  ASSUME NEW tasks, Graph(tasks)
  PROVE  /\ Ordered(tasks, TopologicalOrder(tasks))
         /\ Len(TopologicalOrder(tasks)) \in Nat /\ Len(TopologicalOrder(tasks)) <= Len(tasks)
         /\ Acyclic(tasks) \/ Ready(tasks, TopologicalOrder(tasks)) = {}
<1> DEFINE N == Len(tasks)
           done == Orders(tasks)[N]
<1>1. N \in Nat /\ N \in 0..N
  BY GraphTasks
<1>2. Ordered(tasks, done) /\ (Len(done) = N \/ Ready(tasks, done) = {}) /\ Len(done) <= N
  BY <1>1, OrdersKeep
<1>3. TopologicalOrder(tasks) = done
  BY DEF TopologicalOrder
<1> HIDE DEF done
<1>4. Len(done) \in Nat
  BY <1>2 DEF Ordered
<1> QED
  BY <1>2, <1>3, <1>4 DEF Acyclic

\* Where among the tasks the i-th of an order is.
Placed(tasks, done, at) ==
  /\ at \in Injection(1..Len(done), 1..Len(tasks))
  /\ \A i \in 1..Len(done) : tasks[at[i]].id = done[i]

LEMMA PlacesOfOrder ==
  ASSUME NEW tasks, Graph(tasks), NEW done, Ordered(tasks, done)
  PROVE  \E at : Placed(tasks, done, at)
<1> DEFINE L == Len(done)
           N == Len(tasks)
           at == [i \in 1..L |-> CHOOSE k \in 1..N : tasks[k].id = done[i]]
<1>1. /\ DOMAIN done = 1..L /\ \A i \in 1..L : done[i] \in Ids(tasks)
      /\ \A i, j \in 1..L : done[i] = done[j] => i = j
  BY DEF Ordered, ToSet
<1>2. \A x \in Ids(tasks) : \E k \in 1..N : tasks[k].id = x
  BY GraphTasks
<1>3. \A i \in 1..L : at[i] \in 1..N /\ tasks[at[i]].id = done[i]
  BY <1>1, <1>2
<1>4. at \in [1..L -> 1..N]
  BY <1>3
<1> HIDE DEF at
<1>5. at \in Injection(1..L, 1..N)
  <2>1. \A i, j \in 1..L : at[i] = at[j] => i = j
    BY <1>1, <1>3
  <2> QED
    BY <1>4, <2>1 DEF Injection, IsInjective
<1> QED
  BY <1>3, <1>5 DEF Placed

\* The order of a graph without cycles has all its tasks.
LEMMA OrderHasAll ==
  ASSUME NEW tasks, Graph(tasks), Acyclic(tasks)
  PROVE  ToSet(TopologicalOrder(tasks)) = Ids(tasks)
<1> DEFINE order == TopologicalOrder(tasks)
           N == Len(tasks)
<1>1. N \in Nat /\ Len(order) = N /\ Ordered(tasks, order) /\ DOMAIN order = 1..N
  BY GraphTasks, Topological DEF Acyclic, Ordered
<1>2. PICK at : at \in Injection(1..N, 1..N) /\ \A i \in 1..N : tasks[at[i]].id = order[i]
  <2>1. PICK at : Placed(tasks, order, at)
    BY <1>1, PlacesOfOrder
  <2> QED
    BY <1>1, <2>1 DEF Placed
<1>3. at \in Surjection(1..N, 1..N)
  <2>1. IsFiniteSet(1..N)
    BY <1>1, FS_Interval
  <2> HIDE DEF N
  <2> QED
    BY <1>2, <2>1, FS_Injection
<1>4. ASSUME NEW x \in Ids(tasks)
      PROVE  x \in ToSet(order)
  <2>1. PICK k \in 1..N : tasks[k].id = x
    BY GraphTasks
  <2>2. PICK i \in 1..N : at[i] = k
    BY <1>3 DEF Surjection
  <2>3. order[i] = x
    BY <1>2, <2>1, <2>2
  <2> QED
    BY <1>1, <2>2, <2>3 DEF ToSet
<1>5. ToSet(order) \subseteq Ids(tasks)
  BY <1>1 DEF Ordered
<1> QED
  BY <1>4, <1>5

LEMMA AcyclicOrderable ==
  ASSUME NEW tasks, Graph(tasks), Acyclic(tasks)
  PROVE  Orderable(tasks)
<1> DEFINE order == TopologicalOrder(tasks)
           N == Len(tasks)
           place == [x \in Ids(tasks) |-> CHOOSE i \in 1..N : order[i] = x]
<1>1. N \in Nat /\ Len(order) = N /\ Ordered(tasks, order) /\ DOMAIN order = 1..N
  BY GraphTasks, Topological DEF Acyclic, Ordered
<1>2. \A x \in Ids(tasks) : \E i \in 1..N : order[i] = x
  BY <1>1, OrderHasAll DEF ToSet
<1>3. \A x \in Ids(tasks) : place[x] \in 1..N /\ order[place[x]] = x
  BY <1>2
<1>4. place \in [Ids(tasks) -> 1..N]
  BY <1>3
<1> HIDE DEF place, order
<1>5. ASSUME NEW t \in ToSet(tasks), NEW d \in t.deps
      PROVE  place[d] < place[t.id]
  <2>1. t.id \in Ids(tasks) /\ d \in Ids(tasks)
    BY GraphTasks
  <2>2. place[t.id] \in 1..N /\ order[place[t.id]] = t.id /\ place[d] \in 1..N /\ order[place[d]] = d
    BY <1>3, <2>1
  <2>3. PICK j \in 1..(place[t.id] - 1) : order[j] = d
    BY <1>1, <2>2 DEF Ordered
  <2>4. j \in 1..N /\ j < place[t.id]
    BY <1>1, <2>2, <2>3
  <2>5. j = place[d]
    BY <1>1, <2>2, <2>3, <2>4 DEF Ordered
  <2> QED
    BY <2>4, <2>5
<1> QED
  BY <1>4, <1>5 DEF Orderable

\* What can be ordered has no cycle: what comes first of what is left is ready.
LEMMA OrderableAcyclic ==
  ASSUME NEW tasks, Graph(tasks), Orderable(tasks)
  PROVE  Acyclic(tasks)
<1> DEFINE order == TopologicalOrder(tasks)
           N == Len(tasks)
           L == Len(order)
           left == {t \in ToSet(tasks) : t.id \notin ToSet(order)}
<1> SUFFICES ASSUME ~Acyclic(tasks)
             PROVE  FALSE
  OBVIOUS
<1>1. N \in Nat /\ L \in Nat /\ L < N /\ Ordered(tasks, order) /\ Ready(tasks, order) = {}
  BY GraphTasks, Topological DEF Acyclic
<1>2. DOMAIN order = 1..L
  BY <1>1 DEF Ordered
<1>3. left # {}
  <2> SUFFICES ASSUME left = {}
               PROVE  FALSE
    OBVIOUS
  <2> DEFINE back == [k \in 1..N |-> CHOOSE i \in 1..L : order[i] = tasks[k].id]
  <2>1. \A k \in 1..N : \E i \in 1..L : order[i] = tasks[k].id
    BY <1>2, GraphTasks DEF ToSet
  <2>2. \A k \in 1..N : back[k] \in 1..L /\ order[back[k]] = tasks[k].id
    BY <2>1
  <2>3. back \in [1..N -> 1..L]
    BY <2>2
  <2> HIDE DEF back
  <2>4. \A k, m \in 1..N : back[k] = back[m] => k = m
    <3>1. \A k, m \in 1..N : tasks[k].id = tasks[m].id => k = m
      BY GraphTasks DEF Graph
    <3> QED
      BY <2>2, <3>1
  <2>5. back \in Injection(1..N, 1..L)
    BY <2>3, <2>4 DEF Injection, IsInjective
  <2>6. IsFiniteSet(1..L) /\ Cardinality(1..L) = L /\ Cardinality(1..N) = N
    <3> HIDE DEF N, L
    <3>1. \A k \in Nat : IsFiniteSet(1..k) /\ Cardinality(1..k) = k
      BY FS_Interval
    <3> QED
      BY <1>1, <3>1
  <2>7. Cardinality(1..N) <= Cardinality(1..L)
    <3> HIDE DEF N, L
    <3> QED
      BY <2>5, <2>6, FS_Injection
  <2> QED
    BY <1>1, <2>6, <2>7
<1>4. PICK place \in [Ids(tasks) -> 1..N] : \A t \in ToSet(tasks) : \A d \in t.deps : place[d] < place[t.id]
  BY DEF Orderable
<1> DEFINE S == {place[t.id] : t \in left}
<1>5. \A t \in left : t \in ToSet(tasks) /\ t.id \in Ids(tasks) /\ place[t.id] \in Nat
  BY <1>4, GraphTasks
<1>6. S \in SUBSET Nat /\ S # {}
  BY <1>3, <1>5
<1>7. PICK m \in S : \A n \in S : m <= n
  <2> HIDE DEF S
  <2> QED
    BY <1>6, LeastNumber
<1>8. PICK t \in left : place[t.id] = m
  BY <1>7
<1>9. t.deps \subseteq ToSet(order)
  <2> SUFFICES ASSUME NEW d \in t.deps, d \notin ToSet(order)
               PROVE  FALSE
    OBVIOUS
  <2>1. PICK u \in ToSet(tasks) : u.id = d
    BY <1>5, GraphTasks
  <2>2. u \in left /\ place[d] < place[t.id]
    BY <1>4, <1>5, <2>1
  <2>3. m <= place[d] /\ place[d] \in Nat /\ m \in Nat
    BY <1>5, <1>6, <1>7, <2>1, <2>2
  <2> QED
    BY <1>8, <2>2, <2>3
<1>10. t \in Ready(tasks, order)
  BY <1>5, <1>9 DEF Ready
<1> QED
  BY <1>1, <1>10

-----------------------------------------------------------------------------
(* The longest paths.                                                      *)

LEMMA NotAfterTotal ==
  ASSUME NEW p \in Seq(Nat), NEW q \in Seq(Nat)
  PROVE  NotAfter(p, q) \/ NotAfter(q, p)
<1> DEFINE S == {i \in DOMAIN p \cap DOMAIN q : p[i] # q[i]}
<1>1. /\ Len(p) \in Nat /\ Len(q) \in Nat /\ DOMAIN p = 1..Len(p) /\ DOMAIN q = 1..Len(q)
      /\ \A i \in DOMAIN p : p[i] \in Nat
      /\ \A i \in DOMAIN q : q[i] \in Nat
  OBVIOUS
<1>2. CASE S # {}
  <2>1. S \in SUBSET Nat
    BY <1>1
  <2>2. PICK m \in S : \A i \in S : m <= i
    <3> HIDE DEF S
    <3> QED
      BY <1>2, <2>1, LeastNumber
  <2>3. m \in DOMAIN p /\ m \in DOMAIN q /\ p[m] # q[m] /\ m \in Nat
    BY <1>1
  <2>4. \A j \in 1..(m - 1) : p[j] = q[j]
    <3> TAKE j \in 1..(m - 1)
    <3>1. j \in DOMAIN p /\ j \in DOMAIN q /\ ~(m <= j)
      BY <1>1, <2>3
    <3> QED
      BY <2>2, <3>1
  <2>5. p[m] < q[m] \/ q[m] < p[m]
    BY <1>1, <2>3
  <2> QED
    BY <2>3, <2>4, <2>5 DEF NotAfter, Lexicographic
<1>3. CASE S = {}
  <2>1. \A i \in DOMAIN p \cap DOMAIN q : p[i] = q[i]
    BY <1>3
  <2>2. CASE Len(p) < Len(q)
    BY <1>1, <2>1, <2>2 DEF NotAfter, Lexicographic
  <2>3. CASE Len(q) < Len(p)
    BY <1>1, <2>1, <2>3 DEF NotAfter, Lexicographic
  <2>4. CASE Len(p) = Len(q)
    <3>1. p = q
      BY <1>1, <2>1, <2>4
    <3> QED
      BY <3>1 DEF NotAfter
  <2>5. Len(p) < Len(q) \/ Len(q) < Len(p) \/ Len(p) = Len(q)
    <3>1. \A k, m \in Nat : k < m \/ m < k \/ k = m
      OBVIOUS
    <3>2. Len(p) \in Nat /\ Len(q) \in Nat
      BY <1>1
    <3> QED
      BY <3>1, <3>2
  <2> QED
    BY <2>2, <2>3, <2>4, <2>5
<1> QED
  BY <1>2, <1>3

LEMMA NotAfterTransitive ==
  ASSUME NEW p \in Seq(Nat), NEW q \in Seq(Nat), NEW r \in Seq(Nat), NotAfter(p, q), NotAfter(q, r)
  PROVE  NotAfter(p, r)
<1> DEFINE Differ(x, y, i) == i \in DOMAIN x \cap DOMAIN y /\ x[i] < y[i] /\ \A j \in 1..(i - 1) : x[j] = y[j]
           Shorter(x, y) == Len(x) < Len(y) /\ \A j \in DOMAIN x : x[j] = y[j]
<1>1. /\ Len(p) \in Nat /\ Len(q) \in Nat /\ Len(r) \in Nat
      /\ DOMAIN p = 1..Len(p) /\ DOMAIN q = 1..Len(q) /\ DOMAIN r = 1..Len(r)
      /\ \A i \in 1..Len(p) : p[i] \in Nat
      /\ \A i \in 1..Len(q) : q[i] \in Nat
      /\ \A i \in 1..Len(r) : r[i] \in Nat
  OBVIOUS
<1>2. CASE p = q \/ q = r
  BY <1>2
<1>3. CASE p # q /\ q # r
  <2>1. (\E i : Differ(p, q, i)) \/ Shorter(p, q)
    BY <1>3 DEF NotAfter, Lexicographic
  <2>2. (\E i : Differ(q, r, i)) \/ Shorter(q, r)
    BY <1>3 DEF NotAfter, Lexicographic
  <2>3. ASSUME NEW i, Differ(p, q, i), NEW j, Differ(q, r, j)
        PROVE  NotAfter(p, r)
    <3>1. i \in Nat /\ j \in Nat
      BY <1>1, <2>3
    <3>2. CASE i <= j
      <4>1. i \in DOMAIN p /\ i \in DOMAIN r /\ i \in DOMAIN q
        BY <1>1, <2>3, <3>1, <3>2
      <4>2. \A k \in 1..(i - 1) : p[k] = q[k]
        BY <2>3
      <4>3. \A k \in 1..(i - 1) : q[k] = r[k]
        <5>1. \A k \in 1..(i - 1) : k \in 1..(j - 1)
          BY <3>1, <3>2
        <5> QED
          BY <2>3, <5>1
      <4>4. p[i] < r[i]
        <5>1. CASE i = j
          BY <1>1, <2>3, <4>1, <5>1
        <5>2. CASE i # j
          <6>1. i \in 1..(j - 1)
            BY <1>1, <3>1, <3>2, <4>1, <5>2
          <6>2. p[i] < q[i] /\ q[i] = r[i]
            BY <2>3, <6>1
          <6> QED
            BY <6>2
        <5> QED
          BY <5>1, <5>2
      <4>5. Differ(p, r, i)
        BY <4>1, <4>2, <4>3, <4>4
      <4> QED
        BY <4>5 DEF NotAfter, Lexicographic
    <3>3. CASE j < i
      <4>1. j \in DOMAIN p /\ j \in DOMAIN r /\ j \in 1..(i - 1)
        BY <1>1, <2>3, <3>1, <3>3
      <4>2. \A k \in 1..(j - 1) : q[k] = r[k]
        BY <2>3
      <4>3. \A k \in 1..(j - 1) : p[k] = q[k]
        <5>1. \A k \in 1..(j - 1) : k \in 1..(i - 1)
          BY <3>1, <3>3
        <5> QED
          BY <2>3, <5>1
      <4>4. p[j] = q[j] /\ q[j] < r[j]
        BY <2>3, <4>1
      <4>5. Differ(p, r, j)
        BY <4>1, <4>2, <4>3, <4>4
      <4> QED
        BY <4>5 DEF NotAfter, Lexicographic
    <3> QED
      BY <3>1, <3>2, <3>3
  <2>4. ASSUME NEW i, Differ(p, q, i), Shorter(q, r)
        PROVE  NotAfter(p, r)
    <3>1. i \in DOMAIN p /\ i \in DOMAIN r /\ i \in DOMAIN q /\ i \in Nat
      BY <1>1, <2>4
    <3>2. \A k \in 1..(i - 1) : p[k] = r[k]
      <4>1. \A k \in 1..(i - 1) : k \in DOMAIN q
        BY <1>1, <3>1
      <4> QED
        BY <2>4, <4>1
    <3>3. p[i] < q[i] /\ q[i] = r[i]
      BY <2>4, <3>1
    <3>4. Differ(p, r, i)
      BY <3>1, <3>2, <3>3
    <3> QED
      BY <3>4 DEF NotAfter, Lexicographic
  <2>5. ASSUME Shorter(p, q), NEW j, Differ(q, r, j)
        PROVE  NotAfter(p, r)
    <3>1. j \in Nat
      BY <1>1, <2>5
    <3>2. CASE j <= Len(p)
      <4>1. j \in DOMAIN p /\ j \in DOMAIN r
        BY <1>1, <2>5, <3>1, <3>2
      <4>2. \A k \in 1..(j - 1) : p[k] = r[k]
        <5>1. \A k \in 1..(j - 1) : k \in DOMAIN p
          BY <1>1, <3>1, <3>2
        <5> QED
          BY <2>5, <5>1
      <4>3. p[j] = q[j] /\ q[j] < r[j]
        BY <2>5, <4>1
      <4>4. Differ(p, r, j)
        BY <4>1, <4>2, <4>3
      <4> QED
        BY <4>4 DEF NotAfter, Lexicographic
    <3>3. CASE Len(p) < j
      <4>1. Len(p) < Len(r)
        BY <1>1, <2>5, <3>1, <3>3
      <4>2. \A k \in DOMAIN p : k \in 1..(j - 1)
        BY <1>1, <3>1, <3>3
      <4>3. Shorter(p, r)
        BY <2>5, <4>1, <4>2
      <4> QED
        BY <4>3 DEF NotAfter, Lexicographic
    <3> QED
      BY <1>1, <3>1, <3>2, <3>3
  <2>6. ASSUME Shorter(p, q), Shorter(q, r)
        PROVE  NotAfter(p, r)
    <3>1. Shorter(p, r)
      BY <1>1, <2>6
    <3> QED
      BY <3>1 DEF NotAfter, Lexicographic
  <2> HIDE DEF Differ, Shorter
  <2> QED
    BY <2>1, <2>2, <2>3, <2>4, <2>5, <2>6
<1> QED
  BY <1>2, <1>3

\* A path and its minutes.
Route == [path : Seq(Nat), minutes : Nat]

\* Of finitely many paths one is the best: none is longer.
LEMMA BestIsLongest ==
  ASSUME NEW found \in SUBSET Route, IsFiniteSet(found), found # {}
  PROVE  Best(found) \in found /\ \A c \in found : c.minutes <= Best(found).minutes
<1>1. \A b \in found : b.path \in Seq(Nat) /\ b.minutes \in Nat
  BY DEF Route
<1> DEFINE R == {e \in found \X found : e[2].minutes <= e[1].minutes}
           long == Longest(found)
           Q == {e \in long \X long : NotAfter(e[1].path, e[2].path)}
           First(b) == \A c \in long : NotAfter(b.path, c.path)
<1>2. long # {}
  <2>1. \A x, y \in found : <<x, y>> \in R \/ <<y, x>> \in R
    BY <1>1
  <2>2. \A x, y, z \in found : <<x, y>> \in R /\ <<y, z>> \in R => <<x, z>> \in R
    BY <1>1
  <2>3. \A x, y \in found : <<x, y>> \in R => y.minutes <= x.minutes
    OBVIOUS
  <2> HIDE DEF R
  <2>4. PICK x \in found : \A y \in found : <<x, y>> \in R
    BY <2>1, <2>2, LeastElement
  <2> QED
    BY <2>3, <2>4 DEF Longest
<1>3. long \subseteq found /\ IsFiniteSet(long)
  BY FS_Subset DEF Longest
<1> HIDE DEF long
<1>4. \E b \in long : First(b)
  <2>1. \A x, y \in long : <<x, y>> \in Q \/ <<y, x>> \in Q
    BY <1>1, <1>3, NotAfterTotal
  <2>2. \A x, y, z \in long : <<x, y>> \in Q /\ <<y, z>> \in Q => <<x, z>> \in Q
    <3> SUFFICES ASSUME NEW x \in long, NEW y \in long, NEW z \in long,
                        NotAfter(x.path, y.path), NotAfter(y.path, z.path)
                 PROVE  NotAfter(x.path, z.path)
      OBVIOUS
    <3>1. x.path \in Seq(Nat) /\ y.path \in Seq(Nat) /\ z.path \in Seq(Nat)
      BY <1>1, <1>3
    <3> QED
      BY <3>1, NotAfterTransitive
  <2>3. \A x, y \in long : <<x, y>> \in Q => NotAfter(x.path, y.path)
    OBVIOUS
  <2> HIDE DEF Q
  <2>4. PICK x \in long : \A y \in long : <<x, y>> \in Q
    BY <1>2, <1>3, <2>1, <2>2, LeastElement
  <2> QED
    BY <2>3, <2>4
<1>5. Best(found) = CHOOSE b \in long : First(b)
  BY DEF Best, long
<1>6. Best(found) \in long
  <2> HIDE DEF First
  <2> QED
    BY <1>4, <1>5
<1> QED
  BY <1>6 DEF long, Longest

\* The latest of finitely many ends.
LEMMA LatestIsLatest ==
  ASSUME NEW S \in SUBSET Nat, IsFiniteSet(S)
  PROVE  Latest(S) \in Nat /\ Latest(S) \in S \cup {0} /\ \A n \in S : n <= Latest(S)
<1> DEFINE U == S \cup {0}
           R == {e \in U \X U : e[2] <= e[1]}
           After(m) == \A n \in S : n <= m
<1>1. IsFiniteSet(U) /\ U # {} /\ U \in SUBSET Nat
  BY FS_AddElement
<1>2. \E m \in U : After(m)
  <2>1. \A x, y \in U : <<x, y>> \in R \/ <<y, x>> \in R
    BY <1>1
  <2>2. \A x, y, z \in U : <<x, y>> \in R /\ <<y, z>> \in R => <<x, z>> \in R
    BY <1>1
  <2>3. \A x, y \in U : <<x, y>> \in R => y <= x
    OBVIOUS
  <2>4. S \subseteq U
    OBVIOUS
  <2> HIDE DEF R, U
  <2>5. PICK x \in U : \A y \in U : <<x, y>> \in R
    BY <1>1, <2>1, <2>2, LeastElement
  <2> QED
    BY <2>3, <2>4, <2>5
<1>3. Latest(S) = CHOOSE m \in U : After(m)
  BY DEF Latest
<1> HIDE DEF U
<1>4. Latest(S) \in U /\ After(Latest(S))
  <2> HIDE DEF After
  <2> QED
    BY <1>2, <1>3
<1> QED
  BY <1>1, <1>4 DEF U

\* A path goes on to a task.
Nowhere == [path |-> <<>>, minutes |-> 0]

LEMMA ProlongedRoute ==
  ASSUME NEW c \in Route, NEW t \in PlanTask
  PROVE  /\ Prolonged(c, t) \in Route /\ Prolonged(c, t).path # <<>>
         /\ Last(Prolonged(c, t).path) = t.id
         /\ Prolonged(c, t).minutes = c.minutes + t.minutes
<1>1. c.path \in Seq(Nat) /\ c.minutes \in Nat /\ t.id \in Nat /\ t.minutes \in Nat
  BY DEF Route, PlanTask
<1> DEFINE path == Append(c.path, t.id)
           minutes == c.minutes + t.minutes
<1>2. path \in Seq(Nat) /\ Len(path) = Len(c.path) + 1 /\ path[Len(path)] = t.id /\ path # <<>>
  BY <1>1
<1>3. minutes \in Nat
  BY <1>1
<1>4. Prolonged(c, t) = [path |-> path, minutes |-> minutes]
  BY DEF Prolonged
<1> HIDE DEF path, minutes
<1> QED
  BY <1>2, <1>3, <1>4 DEF Route, Last, minutes

LEMMA NowhereRoute == Nowhere \in Route
  BY DEF Nowhere, Route

\* The paths to a task are finitely many when those to the others are.
LEMMA CandidateRoutes ==
  ASSUME NEW reached \in SUBSET Route, IsFiniteSet(reached), NEW t \in PlanTask
  PROVE  /\ PathsTo(reached, t) \in SUBSET Route
         /\ IsFiniteSet(PathsTo(reached, t)) /\ PathsTo(reached, t) # {}
<1> DEFINE from == {c \in reached : Last(c.path) \in t.deps}
           on == [b \in from |-> Prolonged(b, t)]
<1>1. PathsTo(reached, t) = {Prolonged(b, t) : b \in from} \cup {Prolonged(Nowhere, t)}
  BY DEF PathsTo, Nowhere
<1>2. IsFiniteSet(from)
  BY FS_Subset
<1>3. IsFiniteSet({on[b] : b \in from})
  <2> HIDE DEF from, on
  <2> QED
    BY <1>2, FiniteImage
<1>4. {on[b] : b \in from} = {Prolonged(b, t) : b \in from}
  OBVIOUS
<1>5. IsFiniteSet(PathsTo(reached, t))
  <2> DEFINE ons == {Prolonged(b, t) : b \in from}
             first == Prolonged(Nowhere, t)
  <2>1. IsFiniteSet(ons) /\ PathsTo(reached, t) = ons \cup {first}
    BY <1>1, <1>3, <1>4
  <2> HIDE DEF ons, first
  <2> QED
    BY <2>1, FS_AddElement
<1>6. \A b \in from : Prolonged(b, t) \in Route
  BY ProlongedRoute
<1> HIDE DEF from
<1> QED
  BY <1>1, <1>5, <1>6, NowhereRoute, ProlongedRoute

\* The tasks of an order that has all tasks.
LEMMA TaskAt ==
  ASSUME NEW tasks, Graph(tasks), NEW i \in 1..Len(TopologicalOrder(tasks))
  PROVE  /\ TaskOf(tasks, TopologicalOrder(tasks)[i]) \in ToSet(tasks)
         /\ TaskOf(tasks, TopologicalOrder(tasks)[i]).id = TopologicalOrder(tasks)[i]
<1> DEFINE x == TopologicalOrder(tasks)[i]
<1>1. x \in Ids(tasks)
  BY Topological DEF Ordered, ToSet
<1>2. \E t \in ToSet(tasks) : t.id = x
  BY <1>1, GraphTasks
<1> HIDE DEF x
<1>3. TaskOf(tasks, x) \in ToSet(tasks) /\ TaskOf(tasks, x).id = x
  BY <1>2 DEF TaskOf
<1> QED
  BY <1>3 DEF x

LEMMA ReachedStep ==
  ASSUME NEW tasks, Graph(tasks), Acyclic(tasks)
  PROVE  /\ Reached(tasks) \in [0..Len(tasks) -> {r \in SUBSET Route : IsFiniteSet(r)}]
         /\ Reached(tasks)[0] = {}
         /\ \A n \in 1..Len(tasks) :
              Reached(tasks)[n] = Reach(Reached(tasks)[n - 1], TaskOf(tasks, TopologicalOrder(tasks)[n]))
<1> DEFINE N == Len(tasks)
           S == {r \in SUBSET Route : IsFiniteSet(r)}
           task(n) == TaskOf(tasks, TopologicalOrder(tasks)[n])
           P(f) == f = [n \in 0..N |-> IF n = 0 THEN {} ELSE Reach(f[n - 1], task(n))]
           step == [n \in 1..N |-> [r \in S |-> Reach(r, task(n))]]
<1>1. N \in Nat /\ Len(TopologicalOrder(tasks)) = N
  BY GraphTasks DEF Acyclic
<1>2. ASSUME NEW n \in 1..N, NEW r \in S
      PROVE  Reach(r, task(n)) \in S
  <2>1. task(n) \in PlanTask
    BY <1>1, TaskAt, GraphTasks
  <2> DEFINE b == Best(PathsTo(r, task(n)))
  <2>2. b \in PathsTo(r, task(n))
    <3> HIDE DEF task
    <3> QED
      BY <2>1, CandidateRoutes, BestIsLongest
  <2>3. b \in Route
    BY <2>1, <2>2, CandidateRoutes
  <2> HIDE DEF b
  <2>4. Reach(r, task(n)) = r \cup {b}
    BY DEF Reach, b
  <2> QED
    BY <2>3, <2>4, FS_AddElement
<1>3. {} \in S
  BY FS_EmptySet
<1> HIDE DEF S, N, task
<1>4. step \in [1..N -> [S -> S]] /\ \A n \in 1..N, r \in S : step[n][r] = Reach(r, task(n))
  BY <1>2
<1> HIDE DEF step
<1>5. PICK f \in [0..N -> S] : Iterates(f, N, {}, step)
  BY <1>1, <1>3, <1>4, Recursion
<1>6. P(f)
  <2>1. f = [n \in 0..N |-> f[n]]
    BY <1>5
  <2>2. \A n \in 1..N : f[n] = step[n][f[n - 1]] /\ f[n - 1] \in S
    BY <1>1, <1>5 DEF Iterates
  <2>3. \A n \in 1..N : f[n] = Reach(f[n - 1], task(n))
    BY <1>4, <2>2
  <2>4. \A n \in 0..N : f[n] = IF n = 0 THEN {} ELSE Reach(f[n - 1], task(n))
    BY <1>1, <1>5, <2>3 DEF Iterates
  <2> QED
    BY <2>1, <2>4
<1>7. Reached(tasks) = CHOOSE g : P(g)
  BY <1>1, Zenon DEF Reached, task
<1>8. P(Reached(tasks))
  <2> HIDE DEF P
  <2> QED
    BY <1>6, <1>7
<1> DEFINE g == Reached(tasks)
<1> HIDE DEF g
<1>9. /\ DOMAIN g = 0..N /\ g = [n \in 0..N |-> g[n]] /\ g[0] = {}
      /\ \A n \in 1..N : g[n] = Reach(g[n - 1], task(n))
  <2>1. g = [n \in 0..N |-> IF n = 0 THEN {} ELSE Reach(g[n - 1], task(n))]
    BY <1>8 DEF g
  <2>2. DOMAIN g = 0..N /\ g = [n \in 0..N |-> g[n]]
    BY <2>1
  <2>3. \A n \in 0..N : g[n] = IF n = 0 THEN {} ELSE Reach(g[n - 1], task(n))
    BY <2>1
  <2>4. 0 \in 0..N /\ \A n \in 1..N : n \in 0..N /\ n # 0
    BY <1>1
  <2> QED
    BY <2>2, <2>3, <2>4
<1>10. g \in [0..N -> S]
  <2>1. \A n \in 1..N : g[n - 1] \in S => g[n] = step[n][g[n - 1]]
    BY <1>4, <1>9
  <2>2. Follows(g, N, S, {}, step)
    BY <1>9, <2>1 DEF Follows
  <2> QED
    BY <1>1, <1>3, <1>4, <2>2, Stays
<1> QED
  BY <1>9, <1>10 DEF g, N, S, task

LEMMA EndsStep ==
  ASSUME NEW tasks, Graph(tasks), Acyclic(tasks)
  PROVE  /\ Ends(tasks) \in [0..Len(tasks) -> [Ids(tasks) -> Nat]]
         /\ \A n \in 1..Len(tasks) :
              Ends(tasks)[n] = End(Ends(tasks)[n - 1], TaskOf(tasks, TopologicalOrder(tasks)[n]))
<1> DEFINE N == Len(tasks)
           S == [Ids(tasks) -> Nat]
           a == [i \in Ids(tasks) |-> 0]
           task(n) == TaskOf(tasks, TopologicalOrder(tasks)[n])
           P(f) == f = [n \in 0..N |-> IF n = 0 THEN a ELSE End(f[n - 1], task(n))]
           step == [n \in 1..N |-> [e \in S |-> End(e, task(n))]]
<1>1. N \in Nat /\ Len(TopologicalOrder(tasks)) = N
  BY GraphTasks DEF Acyclic
<1>2. ASSUME NEW n \in 1..N, NEW ends \in S
      PROVE  End(ends, task(n)) \in S
  <2> DEFINE t == task(n)
             U == {ends[d] : d \in t.deps}
  <2>1. t \in ToSet(tasks) /\ t \in PlanTask
    BY <1>1, TaskAt, GraphTasks
  <2> HIDE DEF t
  <2>2. IsFiniteSet(t.deps) /\ t.deps \subseteq Ids(tasks) /\ t.minutes \in Nat
    BY <2>1, GraphTasks DEF PlanTask
  <2>3. IsFiniteSet(U)
    BY <2>2, FiniteImage
  <2>4. U \in SUBSET Nat
    BY <2>2
  <2>5. Latest(U) \in Nat
    BY <2>3, <2>4, LatestIsLatest
  <2> HIDE DEF U
  <2>6. End(ends, t) = [ends EXCEPT ![t.id] = Latest(U) + t.minutes]
    BY DEF End, U
  <2>7. Latest(U) + t.minutes \in Nat
    BY <2>2, <2>5
  <2> QED
    BY <2>6, <2>7 DEF t
<1>3. a \in S
  OBVIOUS
<1> HIDE DEF S, N, task, a
<1>4. step \in [1..N -> [S -> S]] /\ \A n \in 1..N, e \in S : step[n][e] = End(e, task(n))
  BY <1>2
<1> HIDE DEF step
<1>5. PICK f \in [0..N -> S] : Iterates(f, N, a, step)
  BY <1>1, <1>3, <1>4, Recursion
<1>6. P(f)
  <2>1. f = [n \in 0..N |-> f[n]]
    BY <1>5
  <2>2. \A n \in 1..N : f[n] = step[n][f[n - 1]] /\ f[n - 1] \in S
    BY <1>1, <1>5 DEF Iterates
  <2>3. \A n \in 1..N : f[n] = End(f[n - 1], task(n))
    BY <1>4, <2>2
  <2>4. \A n \in 0..N : f[n] = IF n = 0 THEN a ELSE End(f[n - 1], task(n))
    BY <1>1, <1>5, <2>3 DEF Iterates
  <2> QED
    BY <2>1, <2>4
<1>7. Ends(tasks) = CHOOSE g : P(g)
  BY <1>1, Zenon DEF Ends, task, a
<1>8. P(Ends(tasks))
  <2> HIDE DEF P
  <2> QED
    BY <1>6, <1>7
<1> DEFINE g == Ends(tasks)
<1> HIDE DEF g
<1>9. /\ DOMAIN g = 0..N /\ g = [n \in 0..N |-> g[n]] /\ g[0] = a
      /\ \A n \in 1..N : g[n] = End(g[n - 1], task(n))
  BY <1>1, <1>8 DEF g
<1>10. g \in [0..N -> S]
  <2>1. \A n \in 1..N : g[n - 1] \in S => g[n] = step[n][g[n - 1]]
    BY <1>4, <1>9
  <2>2. Follows(g, N, S, a, step)
    BY <1>9, <2>1 DEF Follows
  <2> QED
    BY <1>1, <1>3, <1>4, <2>2, Stays
<1> QED
  BY <1>9, <1>10 DEF g, N, S, task

LEMMA ChainsStep ==
  ASSUME NEW tasks, Graph(tasks)
  PROVE  /\ Chains(tasks) \in [0..Len(tasks) -> SUBSET Route]
         /\ Chains(tasks)[0] = {Nowhere}
         /\ \A n \in 1..Len(tasks) : Chains(tasks)[n] = Prolongations(tasks, Chains(tasks)[n - 1])
<1> DEFINE N == Len(tasks)
           S == SUBSET Route
           P(f) == f = [n \in 0..N |-> IF n = 0 THEN {Nowhere} ELSE Prolongations(tasks, f[n - 1])]
           step == [n \in 1..N |-> [r \in S |-> Prolongations(tasks, r)]]
<1>1. N \in Nat
  BY GraphTasks
<1>2. ASSUME NEW r \in S
      PROVE  Prolongations(tasks, r) \in S
  <2>1. \A c \in r, t \in ToSet(tasks) : Prolonged(c, t) \in Route
    BY GraphTasks, ProlongedRoute
  <2> QED
    BY <2>1 DEF Prolongations
<1>3. {Nowhere} \in S
  BY NowhereRoute
<1> HIDE DEF S, N
<1>4. step \in [1..N -> [S -> S]] /\ \A n \in 1..N, r \in S : step[n][r] = Prolongations(tasks, r)
  BY <1>2
<1> HIDE DEF step
<1>5. PICK f \in [0..N -> S] : Iterates(f, N, {Nowhere}, step)
  BY <1>1, <1>3, <1>4, Recursion
<1>6. P(f)
  <2>1. f = [n \in 0..N |-> f[n]]
    BY <1>5
  <2>2. \A n \in 1..N : f[n] = step[n][f[n - 1]] /\ f[n - 1] \in S
    BY <1>1, <1>5 DEF Iterates
  <2>3. \A n \in 1..N : f[n] = Prolongations(tasks, f[n - 1])
    BY <1>4, <2>2
  <2>4. \A n \in 0..N : f[n] = IF n = 0 THEN {Nowhere} ELSE Prolongations(tasks, f[n - 1])
    BY <1>1, <1>5, <2>3 DEF Iterates
  <2> QED
    BY <2>1, <2>4
<1>7. Chains(tasks) = CHOOSE g : P(g)
  BY Zenon DEF Chains, N, Nowhere
<1>8. P(Chains(tasks))
  <2> HIDE DEF P
  <2> QED
    BY <1>6, <1>7
<1> DEFINE g == Chains(tasks)
<1> HIDE DEF g
<1>9. /\ DOMAIN g = 0..N /\ g = [n \in 0..N |-> g[n]] /\ g[0] = {Nowhere}
      /\ \A n \in 1..N : g[n] = Prolongations(tasks, g[n - 1])
  <2>1. g = [n \in 0..N |-> IF n = 0 THEN {Nowhere} ELSE Prolongations(tasks, g[n - 1])]
    BY <1>8 DEF g
  <2>2. DOMAIN g = 0..N /\ g = [n \in 0..N |-> g[n]]
    BY <2>1
  <2>3. \A n \in 0..N : g[n] = IF n = 0 THEN {Nowhere} ELSE Prolongations(tasks, g[n - 1])
    BY <2>1
  <2>4. 0 \in 0..N /\ \A n \in 1..N : n \in 0..N /\ n # 0
    BY <1>1
  <2> QED
    BY <2>2, <2>3, <2>4
<1>10. g \in [0..N -> S]
  <2>1. \A n \in 1..N : g[n - 1] \in S => g[n] = step[n][g[n - 1]]
    BY <1>4, <1>9
  <2>2. Follows(g, N, S, {Nowhere}, step)
    BY <1>9, <2>1 DEF Follows
  <2> QED
    BY <1>1, <1>3, <1>4, <2>2, Stays
<1> QED
  BY <1>9, <1>10 DEF g, N, S

\* The tasks in their order.
LEMMA Sorted ==
  ASSUME NEW tasks, Graph(tasks), Acyclic(tasks)
  PROVE  LET order == TopologicalOrder(tasks)
             N == Len(tasks)
         IN /\ N \in Nat /\ \A i \in 1..N : order[i] \in Ids(tasks)
            /\ \A i \in 1..N : /\ TaskOf(tasks, order[i]) \in ToSet(tasks) /\ TaskOf(tasks, order[i]) \in PlanTask
                               /\ TaskOf(tasks, order[i]).id = order[i]
                               /\ \A d \in TaskOf(tasks, order[i]).deps : \E j \in 1..(i - 1) : order[j] = d
            /\ \A i, j \in 1..N : order[i] = order[j] => i = j
            /\ \A x \in Ids(tasks) : \E i \in 1..N : order[i] = x
            /\ \A t \in ToSet(tasks) : \E i \in 1..N : TaskOf(tasks, order[i]) = t
<1> DEFINE order == TopologicalOrder(tasks)
           N == Len(tasks)
<1>1. N \in Nat /\ Len(order) = N /\ Ordered(tasks, order) /\ DOMAIN order = 1..N
  BY GraphTasks, Topological DEF Acyclic, Ordered
<1>2. \A i \in 1..N : TaskOf(tasks, order[i]) \in ToSet(tasks) /\ TaskOf(tasks, order[i]).id = order[i]
  BY <1>1, TaskAt
<1>3. \A x \in Ids(tasks) : \E i \in 1..N : order[i] = x
  BY <1>1, OrderHasAll DEF ToSet
<1> HIDE DEF order, N
<1>4. \A t \in ToSet(tasks) : t \in PlanTask /\ t.id \in Ids(tasks)
  BY GraphTasks
<1>5. \A t \in ToSet(tasks) : \E i \in 1..N : TaskOf(tasks, order[i]) = t
  <2> TAKE t \in ToSet(tasks)
  <2>1. PICK i \in 1..N : order[i] = t.id
    BY <1>3, <1>4
  <2>2. TaskOf(tasks, order[i]) = t
    BY <1>2, <2>1, GraphTasks
  <2> QED
    BY <2>2
<1>6. \A i \in 1..N : \A d \in TaskOf(tasks, order[i]).deps : \E j \in 1..(i - 1) : order[j] = d
  BY <1>1, <1>2 DEF Ordered
<1>7. \A i, j \in 1..N : order[i] = order[j] => i = j
  BY <1>1 DEF Ordered
<1>8. \A i \in 1..N : order[i] \in Ids(tasks)
  BY <1>2, <1>4
<1> QED
  BY <1>1, <1>2, <1>3, <1>4, <1>5, <1>6, <1>7, <1>8 DEF order, N

\* A chain of n tasks is one of n - 1 that goes on to a task.
LEMMA ChainBefore ==
  ASSUME NEW tasks, Graph(tasks), NEW n \in 1..Len(tasks), NEW c \in Chains(tasks)[n]
  PROVE  \E b \in Chains(tasks)[n - 1], t \in ToSet(tasks) :
           /\ b \in Route /\ t \in PlanTask /\ c = Prolonged(b, t)
           /\ c.path # <<>> /\ Last(c.path) = t.id
           /\ (n = 1 /\ b = Nowhere) \/ (n > 1 /\ Last(b.path) \in t.deps)
<1> DEFINE N == Len(tasks)
           g == Chains(tasks)
<1>1. /\ N \in Nat /\ g \in [0..N -> SUBSET Route] /\ g[0] = {Nowhere}
      /\ \A m \in 1..N : g[m] = Prolongations(tasks, g[m - 1])
  BY ChainsStep, GraphTasks
<1>2. \A m \in 1..N : \A x \in g[m] : \E b \in g[m - 1], t \in ToSet(tasks) :
        x = Prolonged(b, t) /\ (b.path = <<>> \/ Last(b.path) \in t.deps)
  BY <1>1 DEF Prolongations
<1>3. n \in 1..N /\ c \in g[n]
  OBVIOUS
<1> HIDE DEF N, g
<1>4. \A m \in 0..N : \A x \in g[m] : x \in Route
  BY <1>1
<1>5. PICK b \in g[n - 1], t \in ToSet(tasks) :
        c = Prolonged(b, t) /\ (b.path = <<>> \/ Last(b.path) \in t.deps)
  BY <1>2, <1>3
<1>6. n \in Nat /\ n - 1 \in 0..N
  BY <1>1, <1>3
<1>7. b \in Route /\ t \in PlanTask
  BY <1>4, <1>6, GraphTasks
<1>8. c.path # <<>> /\ Last(c.path) = t.id
  BY <1>5, <1>7, ProlongedRoute
<1>9. CASE n = 1
  <2>1. b \in g[0]
    BY <1>9
  <2>2. b = Nowhere
    BY <1>1, <2>1
  <2> QED
    BY <1>5, <1>7, <1>8, <1>9, <2>2 DEF g
<1>10. CASE n # 1
  <2>1. n - 1 \in 1..N /\ n > 1
    BY <1>1, <1>3, <1>10
  <2>2. PICK a \in g[(n - 1) - 1], u \in ToSet(tasks) : b = Prolonged(a, u)
    BY <1>2, <2>1
  <2>3. (n - 1) - 1 \in 0..N
    BY <1>1, <2>1
  <2>4. a \in Route /\ u \in PlanTask
    BY <1>4, <2>3, GraphTasks
  <2>5. b.path # <<>>
    BY <2>2, <2>4, ProlongedRoute
  <2> QED
    BY <1>5, <1>7, <1>8, <2>1, <2>5 DEF g
<1> QED
  BY <1>9, <1>10

LEMMA ChainGoesOn ==
  ASSUME NEW tasks, Graph(tasks), NEW n \in 1..Len(tasks), NEW b \in Chains(tasks)[n - 1],
         NEW t \in ToSet(tasks), b.path = <<>> \/ Last(b.path) \in t.deps
  PROVE  Prolonged(b, t) \in Chains(tasks)[n]
<1> DEFINE r == Chains(tasks)[n - 1]
<1>1. Chains(tasks)[n] = Prolongations(tasks, r)
  BY ChainsStep
<1> HIDE DEF r
<1>2. <<b, t>> \in r \X ToSet(tasks)
  BY DEF r
<1>3. Prolonged(b, t) \in Prolongations(tasks, r)
  BY <1>2 DEF Prolongations
<1> QED
  BY <1>1, <1>3

\* b is a chain to the i-th task of the order, and no chain to it is longer.
Tops(tasks, b, i) ==
  /\ b \in Route /\ b.path # <<>> /\ Last(b.path) = TopologicalOrder(tasks)[i]
  /\ \E m \in 1..i : b \in Chains(tasks)[m]
  /\ \A m \in 1..Len(tasks) : \A c \in Chains(tasks)[m] :
       Last(c.path) = TopologicalOrder(tasks)[i] => c.minutes <= b.minutes

\* What is reached is a longest chain to each of the first n tasks.
Tracked(tasks, reached, n) ==
  /\ reached \in SUBSET Route /\ IsFiniteSet(reached)
  /\ \A b \in reached : \E j \in 1..n : Tops(tasks, b, j)
  /\ \A j \in 1..n : \E b \in reached : Tops(tasks, b, j)

\* The best way to the next task is one of its longest chains.
LEMMA BestTops ==
  ASSUME NEW tasks, Graph(tasks), Acyclic(tasks), NEW i \in 1..Len(tasks),
         NEW reached, Tracked(tasks, reached, i - 1)
  PROVE  Tops(tasks, Best(PathsTo(reached, TaskOf(tasks, TopologicalOrder(tasks)[i]))), i)
<1> DEFINE N == Len(tasks)
           order == TopologicalOrder(tasks)
           t == TaskOf(tasks, order[i])
           found == PathsTo(reached, t)
           B == Best(found)
<1>1. /\ N \in Nat /\ i \in 1..N /\ i \in Nat /\ t \in ToSet(tasks) /\ t \in PlanTask /\ t.id = order[i]
      /\ \A d \in t.deps : \E j \in 1..(i - 1) : order[j] = d
  <2>1. N \in Nat /\ i \in 1..N
    BY Sorted
  <2>2. i \in Nat
    BY <2>1
  <2> QED
    BY <2>1, <2>2, Sorted
<1>2. \A k, j \in 1..N : order[k] = order[j] => k = j
  BY Sorted
<1> HIDE DEF N, order, t
<1>3. reached \in SUBSET Route /\ IsFiniteSet(reached)
  BY DEF Tracked
<1>4. B \in found /\ \A c \in found : c.minutes <= B.minutes
  BY <1>1, <1>3, CandidateRoutes, BestIsLongest
<1>5. found = {Prolonged(b, t) : b \in {c \in reached : Last(c.path) \in t.deps}} \cup {Prolonged(Nowhere, t)}
  BY DEF PathsTo, Nowhere
<1>6. \A x \in found : x \in Route /\ x.path # <<>> /\ Last(x.path) = order[i]
  BY <1>1, <1>3, <1>5, NowhereRoute, ProlongedRoute
<1> HIDE DEF found, B
<1>7. \E m \in 1..i : B \in Chains(tasks)[m]
  <2>1. CASE B = Prolonged(Nowhere, t)
    <3>1. Nowhere \in Chains(tasks)[0] /\ Nowhere.path = <<>>
      BY ChainsStep DEF Nowhere
    <3>2. 1 \in 1..N /\ 1 \in 1..i /\ 1 - 1 = 0
      BY <1>1
    <3>3. B \in Chains(tasks)[1]
      BY <1>1, <2>1, <3>1, <3>2, ChainGoesOn DEF N
    <3> QED
      BY <3>2, <3>3
  <2>2. ASSUME NEW b \in reached, Last(b.path) \in t.deps, B = Prolonged(b, t)
        PROVE  \E m \in 1..i : B \in Chains(tasks)[m]
    <3>1. PICK j \in 1..(i - 1) : Tops(tasks, b, j)
      BY DEF Tracked
    <3>2. PICK m \in 1..j : b \in Chains(tasks)[m]
      BY <3>1 DEF Tops
    <3>3. m + 1 \in 1..N /\ m + 1 \in 1..i /\ (m + 1) - 1 = m
      BY <1>1
    <3>4. b \in Chains(tasks)[(m + 1) - 1]
      BY <3>2, <3>3
    <3>5. B \in Chains(tasks)[m + 1]
      BY <1>1, <2>2, <3>3, <3>4, ChainGoesOn DEF N
    <3> QED
      BY <3>3, <3>5
  <2> QED
    BY <1>4, <1>5, <2>1, <2>2
<1>8. ASSUME NEW m \in 1..N, NEW c \in Chains(tasks)[m], Last(c.path) = order[i]
      PROVE  c.minutes <= B.minutes
  <2>1. PICK p \in Chains(tasks)[m - 1], u \in ToSet(tasks) :
          /\ p \in Route /\ u \in PlanTask /\ c = Prolonged(p, u) /\ Last(c.path) = u.id
          /\ (m = 1 /\ p = Nowhere) \/ (m > 1 /\ Last(p.path) \in u.deps)
    BY ChainBefore DEF N
  <2>2. u = t
    BY <1>1, <1>8, <2>1, GraphTasks
  <2>3. CASE p = Nowhere
    BY <1>4, <1>5, <2>1, <2>2, <2>3
  <2>4. CASE m > 1 /\ Last(p.path) \in t.deps
    <3>1. PICK j \in 1..(i - 1) : order[j] = Last(p.path)
      BY <1>1, <2>4
    <3>2. PICK b \in reached : Tops(tasks, b, j)
      BY DEF Tracked
    <3>3. m - 1 \in 1..N /\ Last(b.path) = order[j]
      BY <1>1, <2>4, <3>2 DEF Tops, order
    <3>4. p.minutes <= b.minutes
      BY <2>1, <3>1, <3>2, <3>3 DEF Tops, N, order
    <3>5. Prolonged(b, t) \in found
      BY <1>5, <2>4, <3>1, <3>3
    <3>6. /\ Prolonged(b, t).minutes = b.minutes + t.minutes /\ c.minutes = p.minutes + t.minutes
          /\ b.minutes \in Nat /\ p.minutes \in Nat /\ t.minutes \in Nat
      BY <1>1, <1>3, <2>1, <2>2, ProlongedRoute DEF Route, PlanTask
    <3>7. B.minutes \in Nat /\ Prolonged(b, t).minutes <= B.minutes
      BY <1>4, <1>6, <3>5 DEF Route
    <3> QED
      BY <3>4, <3>6, <3>7
  <2> QED
    BY <2>1, <2>2, <2>3, <2>4
<1>9. Tops(tasks, B, i)
  BY <1>4, <1>6, <1>7, <1>8 DEF Tops, N, order
<1> QED
  BY <1>9 DEF B, found, t, order

\* The first n tasks end when the longest chain to them does.
Timed(tasks, ends, n) ==
  \A j \in 1..n : \A b \in Route : Tops(tasks, b, j) => ends[TopologicalOrder(tasks)[j]] = b.minutes

LEMMA EndTops ==
  ASSUME NEW tasks, Graph(tasks), Acyclic(tasks), NEW i \in 1..Len(tasks),
         NEW reached, Tracked(tasks, reached, i - 1),
         NEW ends \in [Ids(tasks) -> Nat], Timed(tasks, ends, i - 1)
  PROVE  LET t == TaskOf(tasks, TopologicalOrder(tasks)[i])
         IN Latest({ends[d] : d \in t.deps}) + t.minutes = Best(PathsTo(reached, t)).minutes
<1> DEFINE N == Len(tasks)
           order == TopologicalOrder(tasks)
           t == TaskOf(tasks, order[i])
           found == PathsTo(reached, t)
           B == Best(found)
           U == {ends[d] : d \in t.deps}
<1>1. /\ N \in Nat /\ i \in 1..N /\ t \in ToSet(tasks) /\ t \in PlanTask
      /\ \A d \in t.deps : \E j \in 1..(i - 1) : order[j] = d
  BY Sorted
<1> HIDE DEF N, order, t
<1>2. reached \in SUBSET Route /\ IsFiniteSet(reached)
  BY DEF Tracked
<1>3. B \in found /\ \A c \in found : c.minutes <= B.minutes
  BY <1>1, <1>2, CandidateRoutes, BestIsLongest
<1>4. found = {Prolonged(b, t) : b \in {c \in reached : Last(c.path) \in t.deps}} \cup {Prolonged(Nowhere, t)}
  BY DEF PathsTo, Nowhere
<1>5. /\ Prolonged(Nowhere, t).minutes = t.minutes /\ t.minutes \in Nat
      /\ \A b \in reached : b.minutes \in Nat /\ Prolonged(b, t).minutes = b.minutes + t.minutes
  <2>1. Nowhere.minutes = 0 /\ t.minutes \in Nat /\ \A b \in reached : b.minutes \in Nat
    BY <1>1, <1>2 DEF Nowhere, Route, PlanTask
  <2> QED
    BY <1>1, <1>2, <2>1, NowhereRoute, ProlongedRoute
<1>6. Latest(U) \in Nat /\ Latest(U) \in U \cup {0} /\ \A n \in U : n <= Latest(U)
  <2>1. IsFiniteSet(t.deps) /\ t.deps \subseteq Ids(tasks)
    BY <1>1, GraphTasks
  <2>2. IsFiniteSet(U) /\ U \in SUBSET Nat
    BY <2>1, FiniteImage
  <2> HIDE DEF U
  <2> QED
    BY <2>2, LatestIsLatest
<1>7. ASSUME NEW b \in reached, NEW j \in 1..(i - 1), Tops(tasks, b, j)
      PROVE  ends[order[j]] = b.minutes /\ Last(b.path) = order[j]
  BY <1>2, <1>7 DEF Timed, Tops, order
<1> HIDE DEF found, B
<1>8. B.minutes \in Nat /\ B.minutes <= Latest(U) + t.minutes
  <2>1. CASE B = Prolonged(Nowhere, t)
    BY <1>5, <1>6, <2>1
  <2>2. ASSUME NEW b \in reached, Last(b.path) \in t.deps, B = Prolonged(b, t)
        PROVE  B.minutes \in Nat /\ B.minutes <= Latest(U) + t.minutes
    <3>1. PICK j \in 1..(i - 1) : Tops(tasks, b, j)
      BY DEF Tracked
    <3>2. ends[Last(b.path)] = b.minutes
      BY <1>7, <3>1
    <3>3. b.minutes \in U
      BY <2>2, <3>2
    <3> HIDE DEF U
    <3>4. b.minutes <= Latest(U) /\ b.minutes \in Nat /\ B.minutes = b.minutes + t.minutes
      BY <1>5, <1>6, <2>2, <3>3
    <3> QED
      BY <1>5, <1>6, <3>4
  <2> QED
    BY <1>3, <1>4, <2>1, <2>2
<1>9. Latest(U) + t.minutes <= B.minutes
  <2>1. CASE Latest(U) = 0
    <3>1. Prolonged(Nowhere, t).minutes <= B.minutes
      BY <1>3, <1>4
    <3> QED
      BY <1>5, <2>1, <3>1
  <2>2. ASSUME NEW d \in t.deps, Latest(U) = ends[d]
        PROVE  Latest(U) + t.minutes <= B.minutes
    <3>1. PICK j \in 1..(i - 1) : order[j] = d
      BY <1>1
    <3>2. PICK b \in reached : Tops(tasks, b, j)
      BY DEF Tracked
    <3>3. ends[d] = b.minutes /\ Last(b.path) = d
      BY <1>7, <3>1, <3>2
    <3>4. Prolonged(b, t).minutes <= B.minutes
      BY <1>3, <1>4, <3>3
    <3> QED
      BY <1>5, <2>2, <3>3, <3>4
  <2> QED
    BY <1>6, <2>1, <2>2
<1>10. Latest(U) + t.minutes = B.minutes
  <2>1. Latest(U) + t.minutes \in Nat
    BY <1>5, <1>6
  <2> HIDE DEF U
  <2> QED
    BY <1>8, <1>9, <2>1
<1> QED
  BY <1>10 DEF B, found, t, order

\* After all tasks there is a longest chain to each, and its end is known.
LEMMA BestPaths ==
  ASSUME NEW tasks, Graph(tasks), Acyclic(tasks)
  PROVE  /\ Tracked(tasks, Reached(tasks)[Len(tasks)], Len(tasks))
         /\ Timed(tasks, Ends(tasks)[Len(tasks)], Len(tasks))
         /\ Ends(tasks)[Len(tasks)] \in [Ids(tasks) -> Nat]
<1> DEFINE N == Len(tasks)
           order == TopologicalOrder(tasks)
           task(n) == TaskOf(tasks, order[n])
           g == Reached(tasks)
           e == Ends(tasks)
           Fine(n) == Tracked(tasks, g[n], n) /\ Timed(tasks, e[n], n)
           T == {n \in 0..N : Fine(n)}
<1>1. /\ N \in Nat /\ g[0] = {} /\ \A n \in 0..N : g[n] \in SUBSET Route /\ IsFiniteSet(g[n])
      /\ \A n \in 1..N : g[n] = Reach(g[n - 1], task(n))
  BY GraphTasks, ReachedStep
<1>2. /\ \A n \in 0..N : e[n] \in [Ids(tasks) -> Nat]
      /\ \A n \in 1..N : e[n] = End(e[n - 1], task(n))
  BY EndsStep
<1>3. /\ \A n \in 1..N : task(n).id = order[n] /\ order[n] \in Ids(tasks)
      /\ \A k, n \in 1..N : order[k] = order[n] => k = n
  BY Sorted
<1> HIDE DEF g, e, task, order
<1>4. 0 \in T
  BY <1>1, FS_EmptySet DEF Tracked, Timed
<1>5. ASSUME NEW n \in 1..N, n - 1 \in T
      PROVE  n \in T
  <2> DEFINE t == task(n)
             B == Best(PathsTo(g[n - 1], t))
  <2>1. n \in 0..N /\ n \in Nat /\ n - 1 \in 0..N /\ n \in 1..n
    BY <1>1
  <2>2. Tracked(tasks, g[n - 1], n - 1) /\ Timed(tasks, e[n - 1], n - 1)
    <3> HIDE DEF Fine
    <3>1. Fine(n - 1)
      BY <1>5
    <3> QED
      BY <3>1 DEF Fine
  <2>3. Tops(tasks, B, n)
    BY <2>2, BestTops DEF N, task, order
  <2>4. e[n - 1] \in [Ids(tasks) -> Nat]
    BY <1>2, <2>1
  <2>5. Latest({e[n - 1][d] : d \in t.deps}) + t.minutes = B.minutes
    BY <2>2, <2>4, EndTops DEF N, task, order
  <2> HIDE DEF B
  <2>6. g[n] = g[n - 1] \cup {B}
    BY <1>1 DEF Reach, B
  <2>7. e[n] = [e[n - 1] EXCEPT ![t.id] = B.minutes]
    BY <1>2, <2>5 DEF End
  <2> HIDE DEF t
  <2>8. \A j \in 1..n : j \in 1..(n - 1) \/ j = n
    BY <2>1
  <2>9. \A j \in 1..(n - 1) : j \in 1..n /\ j \in 1..N /\ j # n
    BY <1>1, <2>1
  <2>10. Tracked(tasks, g[n], n)
    <3>1. g[n] \in SUBSET Route /\ IsFiniteSet(g[n])
      BY <1>1, <2>1
    <3>2. \A b \in g[n] : \E j \in 1..n : Tops(tasks, b, j)
      BY <2>1, <2>2, <2>3, <2>6, <2>9 DEF Tracked
    <3>3. \A j \in 1..n : \E b \in g[n] : Tops(tasks, b, j)
      BY <2>2, <2>3, <2>6, <2>8 DEF Tracked
    <3> QED
      BY <3>1, <3>2, <3>3 DEF Tracked
  <2>11. ASSUME NEW j \in 1..n, NEW b \in Route, Tops(tasks, b, j)
         PROVE  e[n][order[j]] = b.minutes
    <3>1. t.id = order[n] /\ order[n] \in Ids(tasks)
      BY <1>3 DEF t
    <3>2. CASE j \in 1..(n - 1)
      <4>1. j \in 1..N /\ j # n
        BY <2>9, <3>2
      <4>2. order[j] # order[n] /\ order[j] \in Ids(tasks)
        BY <1>3, <4>1
      <4>3. e[n][order[j]] = e[n - 1][order[j]]
        BY <2>4, <2>7, <3>1, <4>2
      <4>4. e[n - 1][order[j]] = b.minutes
        BY <2>2, <2>11, <3>2 DEF Timed, order
      <4> QED
        BY <4>3, <4>4
    <3>3. CASE j = n
      <4>1. e[n][order[n]] = B.minutes
        BY <2>4, <2>7, <3>1
      <4>2. \A m \in 1..n : m \in 1..N
        BY <1>1, <2>1
      <4>3. PICK m \in 1..N : B \in Chains(tasks)[m]
        BY <2>3, <4>2 DEF Tops
      <4>4. PICK k \in 1..N : b \in Chains(tasks)[k]
        BY <2>11, <3>3, <4>2 DEF Tops
      <4>5. Last(B.path) = TopologicalOrder(tasks)[n] /\ Last(b.path) = TopologicalOrder(tasks)[n]
        BY <2>3, <2>11, <3>3 DEF Tops
      <4>6. B.minutes <= b.minutes
        BY <2>11, <3>3, <4>3, <4>5 DEF Tops
      <4>7. b.minutes <= B.minutes
        BY <2>3, <4>4, <4>5 DEF Tops
      <4>8. b.minutes \in Nat /\ B.minutes \in Nat
        BY <2>3, <2>11 DEF Tops, Route
      <4>9. b.minutes = B.minutes
        BY <4>6, <4>7, <4>8
      <4> QED
        BY <3>3, <4>1, <4>9
    <3> QED
      BY <2>8, <3>2, <3>3
  <2>12. Timed(tasks, e[n], n)
    BY <2>11 DEF Timed, order
  <2> QED
    BY <2>1, <2>10, <2>12
<1>6. 0..N \subseteq T
  <2> HIDE DEF T, N
  <2> QED
    BY <1>1, <1>4, <1>5, Stepwise
<1>7. N \in 0..N
  BY <1>1
<1>8. N \in T
  BY <1>6, <1>7
<1> QED
  BY <1>2, <1>7, <1>8 DEF g, e

\* The critical path is a chain that none exceeds, and when it ends all has ended.
LEMMA CriticalIsLongest ==
  ASSUME NEW tasks, Graph(tasks), Acyclic(tasks), tasks # <<>>
  PROVE  LET critical == Best(Reached(tasks)[Len(tasks)])
             ends == Ends(tasks)[Len(tasks)]
         IN /\ critical \in AllChains(tasks) /\ CriticalPath(tasks) = critical.path
            /\ \A c \in AllChains(tasks) : c.minutes <= critical.minutes
            /\ DOMAIN ends = Ids(tasks)
            /\ \A t \in ToSet(tasks) : \A d \in t.deps : ends[d] + t.minutes <= ends[t.id]
            /\ \E i \in Ids(tasks) : ends[i] = critical.minutes
            /\ \A i \in Ids(tasks) : ends[i] <= critical.minutes
            /\ Latest({ends[i] : i \in Ids(tasks)}) = critical.minutes
<1> DEFINE N == Len(tasks)
           order == TopologicalOrder(tasks)
           reached == Reached(tasks)[N]
           ends == Ends(tasks)[N]
           critical == Best(reached)
<1>1. Tracked(tasks, reached, N) /\ Timed(tasks, ends, N) /\ ends \in [Ids(tasks) -> Nat]
  BY BestPaths
<1>2. /\ N \in Nat /\ \A i \in 1..N : order[i] \in Ids(tasks)
      /\ \A x \in Ids(tasks) : \E i \in 1..N : order[i] = x
  BY Sorted
<1>3. N # 0
  BY <1>2 DEF Graph
<1>4. CriticalPath(tasks) = critical.path
  BY DEF CriticalPath
<1> HIDE DEF N, order, reached, ends
<1>5. reached \in SUBSET Route /\ IsFiniteSet(reached) /\ reached # {}
  <2>1. 1 \in 1..N
    BY <1>2, <1>3
  <2> QED
    BY <1>1, <2>1 DEF Tracked
<1>6. critical \in reached /\ \A b \in reached : b.minutes <= critical.minutes
  BY <1>5, BestIsLongest
<1> HIDE DEF critical
<1>7. ASSUME NEW j \in 1..N, NEW b, Tops(tasks, b, j)
      PROVE  /\ ends[order[j]] = b.minutes /\ b.minutes \in Nat
             /\ \A m \in 1..N : \A c \in Chains(tasks)[m] : Last(c.path) = order[j] => c.minutes <= b.minutes
  BY <1>1, <1>7 DEF Timed, Tops, Route, order, N
<1>8. \A j \in 1..N : \E b \in reached : Tops(tasks, b, j)
  BY <1>1 DEF Tracked
<1>9. PICK last \in 1..N : Tops(tasks, critical, last)
  BY <1>1, <1>6 DEF Tracked
<1>10. critical \in AllChains(tasks)
  <2>1. PICK m \in 1..last : critical \in Chains(tasks)[m]
    BY <1>9 DEF Tops
  <2>2. m \in 1..N
    BY <1>2, <1>9, <2>1
  <2> QED
    BY <2>1, <2>2 DEF AllChains, N
<1>11. ASSUME NEW m \in 1..N, NEW c \in Chains(tasks)[m]
       PROVE  c.minutes <= critical.minutes
  <2>1. PICK p \in Chains(tasks)[m - 1], t \in ToSet(tasks) :
          p \in Route /\ t \in PlanTask /\ c = Prolonged(p, t) /\ Last(c.path) = t.id
    BY ChainBefore DEF N
  <2>2. PICK j \in 1..N : order[j] = t.id
    BY <1>2, GraphTasks
  <2>3. PICK b \in reached : Tops(tasks, b, j)
    BY <1>8
  <2>4. c.minutes <= b.minutes /\ b.minutes \in Nat
    BY <1>7, <2>1, <2>2, <2>3
  <2>5. b.minutes <= critical.minutes
    BY <1>6
  <2>6. c.minutes \in Nat /\ critical.minutes \in Nat
    BY <1>5, <1>6, <2>1, ProlongedRoute DEF Route
  <2> QED
    BY <2>4, <2>5, <2>6
<1>12. ASSUME NEW t \in ToSet(tasks), NEW d \in t.deps
       PROVE  ends[d] + t.minutes <= ends[t.id]
  <2>1. /\ t \in PlanTask /\ t.minutes \in Nat
        /\ \E i \in 1..N : TaskOf(tasks, order[i]) = t
        /\ \A i \in 1..N : TaskOf(tasks, order[i]).id = order[i]
        /\ \A i \in 1..N : \A x \in TaskOf(tasks, order[i]).deps : \E j \in 1..(i - 1) : order[j] = x
    BY Sorted, GraphTasks DEF PlanTask, N, order
  <2>2. PICK i \in 1..N : TaskOf(tasks, order[i]) = t
    BY <2>1
  <2>3. t.id = order[i]
    BY <2>1, <2>2
  <2>4. PICK j \in 1..(i - 1) : order[j] = d
    BY <2>1, <2>2
  <2>5. j \in 1..N
    BY <1>2, <2>4
  <2>6. PICK b \in reached : Tops(tasks, b, j)
    BY <1>8, <2>5
  <2>7. PICK m \in 1..j : b \in Chains(tasks)[m] /\ Last(b.path) = d
    BY <2>4, <2>6 DEF Tops, order
  <2>8. m + 1 \in 1..N /\ (m + 1) - 1 = m
    BY <1>2, <2>4, <2>7
  <2>9. Prolonged(b, t) \in Chains(tasks)[m + 1]
    <3>1. b \in Chains(tasks)[(m + 1) - 1]
      BY <2>7, <2>8
    <3> QED
      BY <2>7, <2>8, <3>1, ChainGoesOn DEF N
  <2>10. Last(Prolonged(b, t).path) = t.id /\ Prolonged(b, t).minutes = b.minutes + t.minutes
    BY <1>5, <2>1, ProlongedRoute
  <2>11. PICK a \in reached : Tops(tasks, a, i)
    BY <1>8
  <2>12. ends[t.id] = a.minutes /\ Prolonged(b, t).minutes <= a.minutes
    BY <1>7, <2>3, <2>8, <2>9, <2>10, <2>11
  <2>13. ends[d] = b.minutes
    BY <1>7, <2>4, <2>5, <2>6
  <2> QED
    BY <2>10, <2>12, <2>13
<1>13. order[last] \in Ids(tasks) /\ ends[order[last]] = critical.minutes /\ critical.minutes \in Nat
  BY <1>2, <1>7, <1>9
<1>14. ASSUME NEW i \in Ids(tasks)
       PROVE  ends[i] <= critical.minutes
  <2>1. PICK j \in 1..N : order[j] = i
    BY <1>2
  <2>2. PICK b \in reached : Tops(tasks, b, j)
    BY <1>8
  <2> QED
    BY <1>6, <1>7, <2>1, <2>2
<1>15. Latest({ends[i] : i \in Ids(tasks)}) = critical.minutes
  <2> DEFINE U == {ends[i] : i \in Ids(tasks)}
  <2>1. IsFiniteSet(U) /\ U \in SUBSET Nat
    BY <1>1, GraphTasks, FiniteImage
  <2>2. critical.minutes \in U /\ \A u \in U : u <= critical.minutes
    BY <1>13, <1>14
  <2> HIDE DEF U
  <2>3. Latest(U) \in Nat /\ Latest(U) \in U \cup {0} /\ \A u \in U : u <= Latest(U)
    BY <2>1, LatestIsLatest
  <2>4. Latest(U) <= critical.minutes
    BY <1>13, <2>2, <2>3
  <2>5. critical.minutes <= Latest(U)
    BY <2>2, <2>3
  <2>6. Latest(U) = critical.minutes
    BY <1>13, <2>3, <2>4, <2>5
  <2> QED
    BY <2>6 DEF U
<1>16. \A c \in AllChains(tasks) : c.minutes <= critical.minutes
  BY <1>11 DEF AllChains, N
<1> QED
  BY <1>1, <1>4, <1>10, <1>12, <1>13, <1>14, <1>15, <1>16 DEF critical, ends, reached, N

-----------------------------------------------------------------------------
(* The plan that is written.                                               *)

\* The plan is what is built of the handoff, and one without a first action is
\* there only when its revision was given.
PlannerInv ==
  /\ handoff \in Handoffs /\ calendar \in {Absent} \cup Calendars
  /\ plan # Absent =>
       \E input \in {Absent} \cup Calendars, revision \in {1, 2}, given \in BOOLEAN :
         plan = Build(handoff, input, revision, given) /\ (given \/ plan.startable)

\* What every plan says of its revision, and of how it came about.
LEMMA BuildRevision ==
  ASSUME NEW h, NEW input, NEW revision, NEW given
  PROVE  /\ Build(h, input, revision, given).revision = revision
         /\ Build(h, input, revision, given).given = given
<1>1. CASE Empty(h)
  BY <1>1 DEF Build, Draft, Emptied
<1>2. CASE ~Empty(h)
  BY <1>2 DEF Build, Draft, Emptied
<1> QED
  BY <1>1, <1>2

\* Whatever is tried, the plan on disk is one that was built of this handoff;
\* without a given revision it can be started (build_plan.py 2574-2590).
THEOREM PlannerInductive == PlannerSpec => []PlannerInv
<1>1. PlannerInit => PlannerInv
  BY DEF PlannerInit, PlannerInv
<1>2. PlannerInv /\ [PlannerNext]_plannerVars => PlannerInv'
  <2> SUFFICES ASSUME PlannerInv, [PlannerNext]_plannerVars
               PROVE  PlannerInv'
    OBVIOUS
  <2>1. CASE SetCalendar
    BY <2>1 DEF SetCalendar, PlannerInv
  <2>2. ASSUME NEW revision \in {Absent, 2}, BuildPlan(revision)
        PROVE  PlannerInv'
    <3> DEFINE number == IF revision # Absent THEN revision ELSE IF plan = Absent THEN 1 ELSE plan.revision
               given == revision # Absent
               made == Build(handoff, calendar, number, given)
    <3>1. /\ plan' = made /\ handoff' = handoff /\ calendar' = calendar
          /\ made.startable \/ revision # Absent
      BY <2>2 DEF BuildPlan
    <3>2. plan # Absent => plan.revision \in {1, 2}
      BY BuildRevision DEF PlannerInv
    <3>3. number \in {1, 2} /\ given \in BOOLEAN
      BY <2>2, <3>2
    <3>4. given \/ made.startable
      BY <3>1
    <3> HIDE DEF number, given
    <3> QED
      BY <3>1, <3>3, <3>4 DEF PlannerInv
  <2>3. CASE UNCHANGED plannerVars
    BY <2>3 DEF plannerVars, PlannerInv
  <2> QED
    BY <2>1, <2>2, <2>3 DEF PlannerNext
<1> QED
  BY <1>1, <1>2, PTL DEF PlannerSpec

\* A requirement is called covered only if one work package has tasks for it and
\* all its tests, for any handoffs (build_plan.py 1665-1697).
THEOREM CoverageHasAPath == PlannerSpec => []CoveredHasAPath
<1>1. PlannerInv => CoveredHasAPath
  <2> SUFFICES ASSUME PlannerInv, plan # Absent, handoff.prototypes # <<>>, NEW r \in plan.covered
               PROVE  \E k \in DOMAIN handoff.prototypes :
                        /\ handoff.prototypes[k].tasks # <<>> /\ r \in Serves(handoff, k)
                        /\ handoff.listed[r] \subseteq Outputs(handoff, k)
                        /\ \A t \in DOMAIN handoff.target :
                             handoff.target[t] = r => t \in Outputs(handoff, k)
    BY DEF CoveredHasAPath
  <2>1. PICK input, revision, given : plan = Build(handoff, input, revision, given)
    BY DEF PlannerInv
  <2>2. ~Empty(handoff)
    BY <2>1 DEF Build, Draft, Emptied
  <2>3. plan.covered = {s \in DOMAIN handoff.listed : Covered(handoff, s)}
    BY <2>1, <2>2 DEF Build, Draft, Emptied
  <2>4. r \in DOMAIN handoff.listed /\ TasksFor(handoff, r) # {}
    BY <2>3 DEF Covered
  <2>5. PICK k \in DOMAIN handoff.prototypes :
          r \in Serves(handoff, k) /\ handoff.prototypes[k].tasks # <<>>
    BY <2>4 DEF TasksFor
  <2>6. Declared(handoff, r) \subseteq Outputs(handoff, k)
    BY <2>5 DEF Outputs
  <2> QED
    BY <2>5, <2>6 DEF Declared
<1> QED
  BY <1>1, PlannerInductive, PTL

\* Whatever the handoff, a plan that is written without a given revision can be
\* started and finished (build_plan.py 1296-1317, 1590-1618, 1837-1877, 2574-2590).
THEOREM WrittenCanStart == PlannerSpec => []WrittenPlansCanStart
<1>1. PlannerInv => WrittenPlansCanStart
  <2> SUFFICES ASSUME PlannerInv, plan # Absent, ~plan.given
               PROVE  WrittenPlansCanStart
    BY DEF WrittenPlansCanStart
  <2>1. PICK input \in {Absent} \cup Calendars, revision \in {1, 2}, given \in BOOLEAN :
          plan = Build(handoff, input, revision, given) /\ (given \/ plan.startable)
    BY DEF PlannerInv
  <2>2. plan.startable
    BY <2>1, BuildRevision
  <2> DEFINE tasks == PlanTasks(handoff)
  <2>3. ~Empty(handoff)
    BY <2>1, <2>2 DEF Build, Draft, Emptied
  <2>4. plan.tasks = tasks /\ plan.order = TopologicalOrder(tasks) /\ Acyclic(tasks)
    BY <2>1, <2>2, <2>3 DEF Build, Draft, Emptied
  <2>5. Graph(tasks) /\ CanStart(tasks)
    BY PlanTasksGraph DEF PlannerInv
  <2> HIDE DEF tasks
  <2>6. Orderable(tasks) /\ ToSet(TopologicalOrder(tasks)) = Ids(tasks)
    BY <2>4, <2>5, AcyclicOrderable, OrderHasAll
  <2>7. \A i, j \in DOMAIN tasks : tasks[i].id = tasks[j].id => i = j
    BY <2>5 DEF Graph
  <2>8. \E t \in ToSet(tasks) : t.effect \notin External /\ t.deps = {} /\ t.status = "READY"
    BY <2>5 DEF CanStart, LocalRoot, ToSet
  <2>9. \A t \in ToSet(tasks) :
          /\ t.status = "READY" => t.deps = {} /\ t.approvals = {}
          /\ t.effect \in External => t.status = "BLOCKED" /\ t.approvals # {}
    BY <2>5 DEF CanStart, Guarded, ToSet
  <2> QED
    BY <2>4, <2>6, <2>7, <2>8, <2>9 DEF WrittenPlansCanStart
<1> QED
  BY <1>1, PlannerInductive, PTL

\* The critical path is a chain of dependencies that none exceeds, and the
\* calendar agrees with it: every task follows what it depends on, the plan ends
\* when the critical path does, and only that end is a baseline's
\* (build_plan.py 367-437, 754-812).
THEOREM CriticalPathLongest == PlannerSpec => []CriticalPathIsLongest
<1>1. PlannerInv => CriticalPathIsLongest
  <2> SUFFICES ASSUME PlannerInv, plan # Absent, plan.tasks # <<>>, Orderable(plan.tasks)
               PROVE  CriticalPathIsLongest
    BY DEF CriticalPathIsLongest
  <2>1. PICK input \in {Absent} \cup Calendars, revision \in {1, 2}, given \in BOOLEAN :
          plan = Build(handoff, input, revision, given)
    BY DEF PlannerInv
  <2> DEFINE tasks == PlanTasks(handoff)
             critical == Best(Reached(tasks)[Len(tasks)])
             ends == Ends(tasks)[Len(tasks)]
             schedule == ScheduleOf(handoff, input, tasks)
  <2>2. ~Empty(handoff)
    BY <2>1 DEF Build, Draft, Emptied
  <2>3. plan.tasks = tasks /\ plan.critical = CriticalPath(tasks) /\ plan.schedule = schedule
    BY <2>1, <2>2 DEF Build, Draft, Emptied
  <2>4. Graph(tasks)
    BY PlanTasksGraph DEF PlannerInv
  <2> HIDE DEF tasks
  <2>5. Acyclic(tasks) /\ tasks # <<>>
    BY <2>3, <2>4, OrderableAcyclic
  <2>6. /\ critical \in AllChains(tasks) /\ CriticalPath(tasks) = critical.path
        /\ \A c \in AllChains(tasks) : c.minutes <= critical.minutes
        /\ DOMAIN ends = Ids(tasks)
        /\ \A t \in ToSet(tasks) : \A d \in t.deps : ends[d] + t.minutes <= ends[t.id]
        /\ \E i \in Ids(tasks) : ends[i] = critical.minutes
        /\ \A i \in Ids(tasks) : ends[i] <= critical.minutes
        /\ Latest({ends[i] : i \in Ids(tasks)}) = critical.minutes
    BY <2>4, <2>5, CriticalIsLongest
  <2> DEFINE end == Latest({ends[i] : i \in Ids(tasks)})
  <2>7. schedule.mode = "CALENDAR" =>
          /\ schedule.ends = ends
          /\ schedule.baseline = "BASELINED" => schedule.due = end
    <3>1. schedule = IF input = Absent \/ DurationGap(handoff) \/ ~Acyclic(tasks) THEN Relative
                     ELSE [mode |-> "CALENDAR", ends |-> ends, due |-> input.due,
                           baseline |-> IF input.due = end THEN input.baseline ELSE "PROVISIONAL"]
      BY DEF ScheduleOf
    <3> HIDE DEF schedule, ends, end
    <3>2. CASE schedule = Relative
      BY <3>2 DEF Relative
    <3>3. CASE schedule = [mode |-> "CALENDAR", ends |-> ends, due |-> input.due,
                           baseline |-> IF input.due = end THEN input.baseline ELSE "PROVISIONAL"]
      BY <3>3
    <3> QED
      BY <3>1, <3>2, <3>3
  <2> HIDE DEF critical, ends, schedule
  <2> QED
    BY <2>3, <2>6, <2>7 DEF CriticalPathIsLongest
<1> QED
  BY <1>1, PlannerInductive, PTL
=============================================================================
