---------------------------- MODULE PlanElements ----------------------------
(***************************************************************************)
(* Stage D (src/tools/plan_elements.py and its driver): the production     *)
(* method of an accepted handoff, asked for one element and answered one   *)
(* value at a time, then written, built into a plan and judged.  A call    *)
(* holds the lock of the engine from its first read to its last write; it  *)
(* may finish the method several times, each time writing the file, before *)
(* it saves the checkpoint, and it may die anywhere in between.  People    *)
(* edit the inputs, the policy and the method file themselves; they leave  *)
(* the inputs and the file alone while a call is under way.                *)
(***************************************************************************)
EXTENDS Naturals, FiniteSets, Sequences, SequencesExt

CONSTANTS
  Media,          \* the media to choose from
  Required,       \* for a medium, the specifications it requires, in order
  Tasks,          \* the tasks of the plan without a method, in order
  Physical,       \* the PHYSICAL_EXTERNAL ones; the others are local
  Gaps,           \* the gaps of the probed plan that a method has to resolve
  Blocking,       \* the blocking ones
  MaxAttempts,    \* max_attempts of config/plan-elements.yaml
  Hard,           \* bound: elements that may be answered badly
  MaxDeaths,      \* bound: calls that die half way
  MaxEdits,       \* bound: hand-made changes to the method file, the inputs
  None, Foreign   \* no file; a file somebody else wrote

ASSUME PlanElementsAssumption ==
  /\ Tasks \in Seq(STRING) /\ Gaps \in Seq(STRING) /\ Required \in [Media -> Seq(STRING)]
  /\ Physical \subseteq ToSet(Tasks) /\ Blocking \subseteq ToSet(Gaps)
  /\ MaxAttempts \in Nat \ {0} /\ MaxDeaths \in Nat /\ MaxEdits \in Nat

Medium == <<"medium">>
Location == <<"environment", "location">>
SpecOf(n) == <<"spec", n>>
Step(t, field) == <<"step", t, field>>
Gap(g, field) == <<"gap", g, field>>

Element ==
  {Medium, Location} \cup {SpecOf(n) : n \in UNION {ToSet(Required[m]) : m \in Media}}
    \cup {Step(t, f) : t \in ToSet(Tasks), f \in {"instruction", "completion"}}
    \cup {Step(t, f) : t \in Physical, f \in {"material", "material-quantity", "tool"}}
    \cup {Gap(g, f) : g \in ToSet(Gaps), f \in {"method", "condition"}}

\* A text passes the policy pinned at the start and today's ("sound"), only the
\* pinned one ("dated"), or neither ("unfit").  A medium is a choice.
Texts == {"sound", "dated", "unfit"}
Values(e) == IF e = Medium THEN Media ELSE IF e \in Hard THEN Texts ELSE {"sound"}

\* Methods map elements to values; nobody else writes one of them.
ASSUME NoneAssumption ==
  /\ \A E \in SUBSET Element : None \notin [E -> Media \cup Texts] /\ Foreign \notin [E -> Media \cup Texts]
  /\ None # Foreign

VARIABLES
  ckpt,     \* 08_runtime/plan-elements.json, or None
  call,     \* the checkpoint in the memory of the call under way, or None
  disk,     \* 02_specification/production-method.yaml
  policy,   \* config/plan-actionability.yaml: as pinned, or tightened since
  inputs,   \* handoff, bundle, base plan: as pinned, or changed
  deaths, edits

vars == <<ckpt, call, disk, policy, inputs, deaths, edits>>

-----------------------------------------------------------------------------
(* Scheduling and assembly: lib/plan_element_driver.py.                    *)

\* What is asked of a task: the rest is not once a part of it is given up.
TaskElements(s, t) ==
  IF Step(t, "instruction") \in s.abandoned THEN <<Step(t, "instruction")>>
  ELSE <<Step(t, "instruction"), Step(t, "completion")>>
         \o IF t \notin Physical \/ Step(t, "completion") \in s.abandoned THEN <<>>
            ELSE <<Step(t, "material"), Step(t, "material-quantity"), Step(t, "tool")>>

GapElements(s, g) ==
  IF Gap(g, "method") \in s.abandoned THEN <<Gap(g, "method")>>
  ELSE <<Gap(g, "method"), Gap(g, "condition")>>

\* The schedule, task by task and gap by gap.
Schedule(s) ==
  IF Medium \notin DOMAIN s.answers THEN <<<<Medium>>>>
  ELSE LET specs == Required[s.answers[Medium]]
       IN <<<<Medium, Location>>, [i \in DOMAIN specs |-> SpecOf(specs[i])]>>
            \o [i \in DOMAIN Tasks |-> TaskElements(s, Tasks[i])]
            \o [i \in DOMAIN Gaps |-> GapElements(s, Gaps[i])]

\* The places of a schedule.
Places(asked) == UNION {{g} \X DOMAIN asked[g] : g \in DOMAIN asked}

\* Mutant: what was given up is asked again.
OpenForGood(s) ==
  LET asked == Schedule(s) IN {p \in Places(asked) : asked[p[1]][p[2]] \notin DOMAIN s.answers}

Open(s) ==
  LET asked == Schedule(s)
  IN {p \in Places(asked) : asked[p[1]][p[2]] \notin DOMAIN s.answers \cup s.abandoned}

Foremost(open) == {p \in open : \A q \in open : p[1] < q[1] \/ (p[1] = q[1] /\ p[2] <= q[2])}

\* A step and an uncertainty enter the method whole or not at all.
StepOf(t) == {Step(t, "instruction"), Step(t, "completion")}
               \cup IF t \in Physical THEN {Step(t, f) : f \in {"material", "material-quantity", "tool"}}
                    ELSE {}
ResolutionOf(g) == {Gap(g, "method"), Gap(g, "condition")}

Used(s) ==
  LET whole(E) == E \subseteq DOMAIN s.answers
  IN (DOMAIN s.answers \ UNION ({StepOf(t) : t \in ToSet(Tasks)} \cup {ResolutionOf(g) : g \in ToSet(Gaps)}))
       \cup UNION {E \in {StepOf(t) : t \in ToSet(Tasks)} \cup {ResolutionOf(g) : g \in ToSet(Gaps)} : whole(E)}

assemble(s) == [e \in Used(s) |-> s.answers[e]]

\* Only what is done locally, or need not be resolved, may be given up.
abandonable(e) ==
  \/ e[1] = "gap" /\ e[2] \notin Blocking
  \/ e[1] = "step" /\ e[2] \notin Physical

-----------------------------------------------------------------------------
(* The judgement of the assembled plan: lib/actionability.py.              *)

\* The elements whose values today's policy calls placeholders.  A material
\* carries the text of the specification "materials" and answers for it too;
\* a quantity is not looked at.
Placeholders(method) ==
  LET stale(e) == e \in DOMAIN method /\ method[e] = "dated" /\ policy = "tightened"
  IN {e \in DOMAIN method : stale(e) /\ e[1] # "medium" /\ (e[1] = "step" => e[3] # "material-quantity")}
       \cup {Step(t, "material") : t \in {u \in Physical : StepOf(u) \subseteq DOMAIN method
                                                           /\ stale(SpecOf("materials"))}}

\* assess: the findings that name an element; a local task without a step is
\* none as long as other steps cover the requirements, which every step does.
Findings(method) ==
  Placeholders(method)
    \cup {Step(t, "instruction") : t \in {u \in Physical : ~ StepOf(u) \subseteq DOMAIN method}}
    \cup {Gap(g, "method") : g \in {h \in ToSet(Gaps) : ~ ResolutionOf(h) \subseteq DOMAIN method}}

\* PROCEDURE_REQUIRED and NATIVE_BLOCKING_GAP, which name no element.
OtherFindings(method) ==
  Blocking # {} \/ \A t \in ToSet(Tasks) : ~ StepOf(t) \subseteq DOMAIN method

-----------------------------------------------------------------------------
(* The engine: tools/plan_elements.py.                                     *)

initialize ==
  [answers |-> [e \in {} |-> "sound"], abandoned |-> {}, attempts |-> [e \in Element |-> 1],
   history |-> {}, status |-> "WAITING", pending |-> None, file |-> None, completion |-> None]

\* Answers and judgements draw on one budget of attempts per element.
reject(s, refused) ==
  LET spent == {e \in refused : s.attempts[e] >= MaxAttempts}
      stuck == {e \in spent : ~abandonable(e)}
  IN [s EXCEPT !.answers = [d \in DOMAIN s.answers \ refused |-> s.answers[d]],
               !.attempts = [e \in Element |-> IF e \in refused \ spent THEN s.attempts[e] + 1 ELSE s.attempts[e]],
               !.abandoned = s.abandoned \cup (spent \ stuck),
               !.status = IF stuck # {} THEN "BLOCKED" ELSE s.status,
               !.pending = IF stuck # {} THEN None ELSE s.pending]

Asked(s, built) == IF built THEN Findings(assemble(s)) \cap DOMAIN s.answers ELSE {}

\* Mutant: an element that the judgement sends back has all its attempts again.
finishRestarting(s, built) ==
  LET again == [s EXCEPT !.file = assemble(s),
                         !.attempts = [e \in Element |-> IF e \in Asked(s, built) THEN 1 ELSE s.attempts[e]]]
  IN IF Asked(s, built) # {} THEN reject(again, Asked(s, built))
     ELSE [again EXCEPT !.status = "COMPLETED", !.pending = None, !.completion = "INCOMPLETE"]

\* finish: the method is written, the plan built (or not) and judged; what a
\* finding names is asked again.
finish(s, built) ==
  LET method == assemble(s)
      out == reject([s EXCEPT !.file = method], Asked(s, built))
  IN IF Asked(s, built) # {} /\ out.status # "BLOCKED" THEN out
     ELSE [out EXCEPT !.status = IF out.status = "BLOCKED" THEN "BLOCKED" ELSE "COMPLETED", !.pending = None,
                      !.completion = IF built /\ Findings(method) = {} /\ ~OtherFindings(method)
                                     THEN "PLAN_READY" ELSE "INCOMPLETE"]

-----------------------------------------------------------------------------
(* Calls.                                                                  *)

Init ==
  /\ ckpt = None /\ call = None /\ disk = None
  /\ policy = "pinned" /\ inputs = "pinned"
  /\ deaths = 0 /\ edits = 0

\* handoff_hash and input_hash: the checkpoint has the hashes of the first read.
InputsPinned == inputs = "pinned"

\* read and materialize: the inputs are those pinned, and the method on disk
\* is the engine's; a removed one is written again.
Readable == ckpt # None /\ InputsPinned
MaterializedAnyhow == Readable
Materialized ==
  /\ Readable
  /\ ckpt.file # None => disk \in {None, ckpt.file}

Kept == IF ckpt.file = None THEN disk ELSE ckpt.file

\* The first next: what it pins is what it finds, but a method file must not be.
Start ==
  /\ call = None /\ ckpt = None /\ disk = None
  /\ call' = initialize
  /\ UNCHANGED <<ckpt, disk, policy, inputs, deaths, edits>>

\* next on a checkpoint, and an answer already in the history: nothing but the
\* method file is restored.
Report ==
  /\ call = None /\ Materialized /\ disk # Kept
  /\ disk' = Kept
  /\ UNCHANGED <<ckpt, call, policy, inputs, deaths, edits>>

\* The checkpoint after the pending request is answered with v, before advance.
Answered(v) ==
  LET e == ckpt.pending
      s == [ckpt EXCEPT !.history = @ \cup {[element |-> e, attempt |-> ckpt.attempts[e], value |-> v]}]
  IN IF v = "unfit" THEN reject(s, {e})
     ELSE [s EXCEPT !.answers = [d \in DOMAIN @ \cup {e} |-> IF d = e THEN v ELSE @[d]]]

Answer(v) ==
  /\ call = None /\ Materialized
  /\ ckpt.status = "WAITING" /\ v \in Values(ckpt.pending)
  /\ call' = Answered(v) /\ disk' = Kept
  /\ UNCHANGED <<ckpt, policy, inputs, deaths, edits>>

\* advance: the first open element is asked and the checkpoint saved, ...
Ask ==
  /\ call # None /\ call.status = "WAITING"
  /\ \E p \in Foremost(Open(call)) : ckpt' = [call EXCEPT !.pending = Schedule(call)[p[1]][p[2]]]
  /\ call' = None
  /\ UNCHANGED <<disk, policy, inputs, deaths, edits>>

\* ... or none is open, and the method is written and judged.
Finish(built) ==
  /\ call # None /\ call.status = "WAITING" /\ Open(call) = {}
  /\ call' = finish(call, built) /\ disk' = assemble(call)
  /\ UNCHANGED <<ckpt, policy, inputs, deaths, edits>>

\* A run that is blocked or completed is saved.
Save ==
  /\ call # None /\ call.status # "WAITING"
  /\ ckpt' = call /\ call' = None
  /\ UNCHANGED <<disk, policy, inputs, deaths, edits>>

\* The process dies, perhaps after a method is written, and before the checkpoint is.
Die ==
  /\ call # None /\ deaths < MaxDeaths
  /\ call' = None /\ deaths' = deaths + 1
  /\ UNCHANGED <<ckpt, disk, policy, inputs, edits>>

\* Somebody writes or removes the method file, changes the inputs or puts them
\* back, or a new version of the policy is installed.
EditMethod ==
  /\ call = None
  /\ edits < MaxEdits /\ edits' = edits + 1
  /\ disk' \in {None, Foreign} \ {disk}
  /\ UNCHANGED <<ckpt, call, policy, inputs, deaths>>

EditInputs ==
  /\ call = None /\ ckpt # None
  /\ edits < MaxEdits /\ edits' = edits + 1
  /\ inputs' \in {"pinned", "changed"} \ {inputs}
  /\ UNCHANGED <<ckpt, call, disk, policy, deaths>>

TightenPolicy ==
  /\ policy = "pinned" /\ policy' = "tightened"
  /\ UNCHANGED <<ckpt, call, disk, inputs, deaths, edits>>

AnswerSome == \E v \in Media \cup Texts : Answer(v)
Advance == Ask \/ Save \/ \E built \in BOOLEAN : Finish(built)

Next ==
  \/ Start \/ Report \/ AnswerSome \/ Advance \/ Die
  \/ EditMethod \/ EditInputs \/ TightenPolicy

\* The caller asks for the next element and answers it, well or badly; a call
\* that is alive goes on.
Spec == Init /\ [][Next]_vars
Fair == WF_vars(Start) /\ WF_vars(AnswerSome) /\ WF_vars(Advance)
LiveSpec == Spec /\ Fair

-----------------------------------------------------------------------------
(* Properties.                                                             *)

Settled == ckpt # None /\ ckpt.status \in {"COMPLETED", "BLOCKED"}

\* An attempt of an element is one answer that was received: what was refused
\* at once, and what the judgement of the whole plan sends back later, count
\* together, each once, and no crash, resending or second judgement gives an
\* element an attempt more.  (plan_elements.py:252-265, 298-316)
EveryAttemptIsAnAnswer ==
  ckpt # None => \A e \in Element :
    LET received == {h \in ckpt.history : h.element = e}
        waiting == e \notin DOMAIN ckpt.answers \cup ckpt.abandoned /\ ckpt.status # "BLOCKED"
    IN /\ {h.attempt : h \in received} = 1..Cardinality(received)
       /\ waiting => Cardinality(received) = ckpt.attempts[e] - 1
       /\ e \in DOMAIN ckpt.answers => Cardinality(received) = ckpt.attempts[e]

\* Once the engine has written a method, neither it nor a call that dies half
\* way builds on inputs that changed, or on a method file that is not its own:
\* the file and the answers stay as they are until people have settled it.
\* (plan_elements.py:163-187)
Foreignness == ckpt # None /\ (~InputsPinned \/ (ckpt.file # None /\ disk = Foreign))
OutsideChangesStopTheRun ==
  [][Foreignness => UNCHANGED ckpt /\ (disk' # disk => edits' # edits)]_vars

\* As long as it is left alone, a run ends, whatever is answered: re-asking,
\* by the checks or by the judgement, never goes round for ever, nor does a
\* run wait for an answer that it would refuse.  A crash that leaves another
\* method on disk than the checkpoint's has to be settled by hand.
\* (plan_elements.py:192-250)
LeftAlone ==
  \/ call # None
  \/ IF ckpt = None THEN disk = None
     ELSE InputsPinned /\ (ckpt.file # None => disk \in {None, ckpt.file})
RunSettles == <>[]LeftAlone => <>Settled

=============================================================================
