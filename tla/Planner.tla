------------------------------ MODULE Planner -------------------------------
(***************************************************************************)
(* The plan that build_plan.py derives from an accepted handoff: its tasks *)
(* and their numbers, the order and the critical path of their graph, the  *)
(* calendar, what is covered, and whether the plan may be written.         *)
(***************************************************************************)
EXTENDS Naturals, FiniteSets, Sequences, SequencesExt

CONSTANTS
  Handoffs,    \* bound: the accepted handoffs tried
  Calendars,   \* bound: the calendar inputs tried, [due (minutes after start or Absent), baseline]
  Absent

(***************************************************************************)
(* A handoff: prototypes, the bundled ones, each with its tasks; named: the *)
(* handoff itself lists some; listed[r] the tests that a                   *)
(* mandatory requirement lists; target[t] the requirement of a bundled     *)
(* test; method: a production method is there; fits: alignment and visual  *)
(* package are in order.  The bundle is refused when a task depends on one *)
(* that its prototype does not have; a task is what validates a plan.      *)
(***************************************************************************)
HandoffTask == [deps : SUBSET Nat, effect : STRING, status : STRING]
Prototypes ==
  [tasks : Seq(HandoffTask), validates : BOOLEAN, band : STRING, requirements : SUBSET STRING, tests : SUBSET STRING]

ASSUME HandoffsAssumption ==
  \A h \in Handoffs :
    /\ h.prototypes \in Seq(Prototypes) /\ h.named \in BOOLEAN /\ IsFiniteSet(DOMAIN h.listed)
    /\ \A k \in DOMAIN h.prototypes :
         LET p == h.prototypes[k]
         IN /\ p.validates => p.tasks # <<>>
            /\ \A i \in DOMAIN p.tasks : p.tasks[i].deps \subseteq DOMAIN p.tasks

VARIABLES handoff, calendar, plan

plannerVars == <<handoff, calendar, plan>>

External == {"PHYSICAL_EXTERNAL", "PUBLICATION", "PURCHASE", "CONTRACT", "DELETION"}

-----------------------------------------------------------------------------
(* Tasks.                                                                  *)

\* _duration_for_band, in minutes.
Minutes(band) ==
  CASE band = "DAYS" -> 480 [] band = "WEEKS" -> 2400 [] band = "MONTHS" -> 9600 [] OTHER -> 60
KnownBands == {"HOURS", "DAYS", "WEEKS", "MONTHS"}

\* Mutant: a task that is called ready is, whatever it depends on.
StatusAsGiven(task) ==
  CASE task.effect \in External -> "BLOCKED"
    [] task.effect \notin External /\ task.status \in {"BACKLOG", "READY", "DONE", "SKIPPED"} -> task.status
    [] OTHER -> IF task.deps = {} THEN "READY" ELSE "BACKLOG"

\* What the planner makes of the status of a task of the handoff.
StatusOf(task) ==
  CASE task.effect \in External -> "BLOCKED"
    [] task.effect \notin External /\ task.status \in {"BACKLOG", "DONE", "SKIPPED"} -> task.status
    [] OTHER -> IF task.deps = {} THEN "READY" ELSE "BACKLOG"

\* Tasks are numbered through: the number of tasks of the first k prototypes.
Numbered(h) ==
  LET upto[k \in 0..Len(h.prototypes)] ==
        IF k = 0 THEN 0 ELSE upto[k - 1] + Len(h.prototypes[k].tasks)
  IN upto

\* Task n of the plan is one of its prototype's, and so are those it depends on.
Given(h, n) ==
  LET k == CHOOSE k \in DOMAIN h.prototypes : Numbered(h)[k - 1] < n /\ n <= Numbered(h)[k]
      task == h.prototypes[k].tasks[n - Numbered(h)[k - 1]]
  IN [id |-> n, effect |-> task.effect, deps |-> {Numbered(h)[k - 1] + d : d \in task.deps},
      status |-> StatusOf(task), minutes |-> Minutes(h.prototypes[k].band)]

Local(id) == [id |-> id, effect |-> "READ_ONLY", deps |-> {}, status |-> "READY", minutes |-> 15]

\* Without prototypes, three tasks in a row for each mandatory requirement, or
\* for one that is made up.
Fallback(n) ==
  [id |-> n, effect |-> IF n % 3 = 0 THEN "READ_ONLY" ELSE "PHYSICAL_EXTERNAL",
   deps |-> IF n % 3 = 1 THEN {} ELSE {n - 1},
   status |-> IF n % 3 = 0 THEN "BACKLOG" ELSE "BLOCKED", minutes |-> 60]

\* The validation task is TK004 where that is free.
ValidationId(n) == IF n < 4 THEN 4 ELSE n + 1

Derived(h) ==
  LET packages == Len(h.prototypes)
      given == [n \in 1..Numbered(h)[packages] |-> Given(h, n)]
      required == Cardinality(DOMAIN h.listed)
      fallback == [n \in 1..(3 * IF required = 0 THEN 1 ELSE required) |-> Fallback(n)]
  IN IF packages = 0 THEN Append(fallback, Local(Len(fallback) + 1))
     ELSE IF h.prototypes[packages].validates THEN given
     ELSE Append(given, Local(ValidationId(Len(given))))

LocalRoot(t) == t.effect \notin External /\ t.deps = {} /\ t.status = "READY"

\* What acts outside needs an approval.
ApprovedBy(t) == IF t.effect \in External THEN {"AR001"} ELSE {}

\* A plan that has no local first action is given one.
PlanTasks(h) ==
  LET derived == Derived(h)
      made == IF \E i \in DOMAIN derived : LocalRoot(derived[i]) THEN derived
              ELSE Append(derived, Local(Len(derived) + 1))
  IN [i \in DOMAIN made |->
        [id |-> made[i].id, effect |-> made[i].effect, deps |-> made[i].deps, status |-> made[i].status,
         minutes |-> made[i].minutes, approvals |-> ApprovedBy(made[i])]]

-----------------------------------------------------------------------------
(* The graph of the tasks.                                                 *)

Ids(tasks) == {t.id : t \in ToSet(tasks)}
TaskOf(tasks, id) == CHOOSE t \in ToSet(tasks) : t.id = id

\* What waits for nothing that is not done.
Ready(tasks, done) == {t \in ToSet(tasks) : t.id \notin ToSet(done) /\ t.deps \subseteq ToSet(done)}

\* When a task became ready, counted in tasks done.
FreedAt(done, t) ==
  CHOOSE n \in 0..Len(done) :
    \A m \in 0..Len(done) : t.deps \subseteq {done[j] : j \in 1..m} <=> n <= m

\* _topological_order: what becomes ready goes to the end of the queue, what
\* becomes ready together in the order of the names.
Queued(done, t, u) ==
  \/ FreedAt(done, t) < FreedAt(done, u)
  \/ FreedAt(done, t) = FreedAt(done, u) /\ t.id <= u.id

Pop(tasks, done) ==
  LET ready == Ready(tasks, done)
      head == CHOOSE t \in ready : \A u \in ready : Queued(done, t, u)
  IN IF ready = {} THEN done ELSE Append(done, head.id)

Orders(tasks) ==
  LET done[n \in 0..Len(tasks)] == IF n = 0 THEN <<>> ELSE Pop(tasks, done[n - 1]) IN done

TopologicalOrder(tasks) == Orders(tasks)[Len(tasks)]

\* The longest paths, and of those the first by name.
Lexicographic(p, q) ==
  \/ \E i \in DOMAIN p \cap DOMAIN q :
       p[i] < q[i] /\ \A j \in 1..(i - 1) : p[j] = q[j]
  \/ Len(p) < Len(q) /\ \A j \in DOMAIN p : p[j] = q[j]
NotAfter(p, q) == p = q \/ Lexicographic(p, q)

\* Mutant: the first by name, whatever its length.
FirstByName(found) == CHOOSE b \in found : \A c \in found : NotAfter(b.path, c.path)

Longest(found) == {b \in found : \A c \in found : c.minutes <= b.minutes}
Best(found) == CHOOSE b \in Longest(found) : \A c \in Longest(found) : NotAfter(b.path, c.path)

\* The paths to a task: of its own, or one that reaches what it depends on.
Prolonged(c, t) == [path |-> Append(c.path, t.id), minutes |-> c.minutes + t.minutes]
PathsTo(reached, t) ==
  {Prolonged([path |-> <<>>, minutes |-> 0], t)}
    \cup {Prolonged(b, t) : b \in {c \in reached : Last(c.path) \in t.deps}}
Reach(reached, t) == reached \cup {Best(PathsTo(reached, t))}

\* One best path for each of the first n tasks of the order.
Reached(tasks) ==
  LET order == TopologicalOrder(tasks)
      reached[n \in 0..Len(order)] ==
        IF n = 0 THEN {} ELSE Reach(reached[n - 1], TaskOf(tasks, order[n]))
  IN reached

Acyclic(tasks) == Len(TopologicalOrder(tasks)) = Len(tasks)

CriticalPath(tasks) == IF Acyclic(tasks) THEN Best(Reached(tasks)[Len(tasks)]).path ELSE <<>>

\* _calendar_task_schedule: the end of each task in minutes after the start, or
\* Absent as long as the schedule is relative.
Latest(S) == CHOOSE m \in S \cup {0} : \A n \in S : n <= m
End(ends, t) == [ends EXCEPT ![t.id] = Latest({ends[d] : d \in t.deps}) + t.minutes]

Ends(tasks) ==
  LET order == TopologicalOrder(tasks)
      ends[n \in 0..Len(order)] ==
        IF n = 0 THEN [i \in Ids(tasks) |-> 0] ELSE End(ends[n - 1], TaskOf(tasks, order[n]))
  IN ends

Relative == [mode |-> "RELATIVE", baseline |-> "PROVISIONAL", due |-> Absent, ends |-> Absent]

DurationGap(h) == \E k \in DOMAIN h.prototypes : h.prototypes[k].band \notin KnownBands

ScheduleOf(h, input, tasks) ==
  LET ends == Ends(tasks)[Len(tasks)]
      end == Latest({ends[i] : i \in Ids(tasks)})
  IN IF input = Absent \/ DurationGap(h) \/ ~Acyclic(tasks) THEN Relative
     ELSE [mode |-> "CALENDAR", ends |-> ends, due |-> input.due,
           baseline |-> IF input.due = end THEN input.baseline ELSE "PROVISIONAL"]

-----------------------------------------------------------------------------
(* Coverage.                                                               *)

Declared(h, r) == h.listed[r] \cup {t \in DOMAIN h.target : h.target[t] = r}

\* The mandatory requirements a prototype serves: those it names, and those its
\* tests are for.
Serves(h, k) ==
  DOMAIN h.listed \cap (h.prototypes[k].requirements
    \cup {h.target[t] : t \in h.prototypes[k].tests \cap DOMAIN h.target})

\* The tests among the outputs of its work package.
Outputs(h, k) == h.prototypes[k].tests \cup UNION {Declared(h, r) : r \in Serves(h, k)}

\* The work packages and the tasks of a requirement, looked up apart.
WorkPackages(h, r) ==
  IF h.prototypes = <<>> THEN {0} ELSE {k \in DOMAIN h.prototypes : Declared(h, r) \subseteq Outputs(h, k)}
TasksFor(h, r) ==
  IF h.prototypes = <<>> THEN {0}
  ELSE {k \in DOMAIN h.prototypes : r \in Serves(h, k) /\ h.prototypes[k].tasks # <<>>}

CoveredByTests(h, r) == Declared(h, r) # {} /\ Declared(h, r) \subseteq DOMAIN h.target
Covered(h, r) ==
  /\ Declared(h, r) # {} /\ Declared(h, r) \subseteq DOMAIN h.target
  /\ WorkPackages(h, r) # {} /\ TasksFor(h, r) # {}

-----------------------------------------------------------------------------
(* The plan and what is written of it.                                     *)

\* Nothing is derived from nothing: a handoff that lists no prototype, bundled or
\* not, and comes without a method has its plan emptied, after it was made.
Empty(h) == ~h.named /\ ~h.method

\* The lists are cleared; mode and baseline stay those of the tasks thrown away.
Emptied(h, made) ==
  IF Empty(h)
  THEN [made EXCEPT !.tasks = <<>>, !.order = <<>>, !.critical = <<>>, !.covered = {},
                    !.startable = FALSE, !.schedule.ends = <<>>]
  ELSE made

Draft(h, input, tasks, revision, given) ==
  [tasks |-> tasks, order |-> TopologicalOrder(tasks), critical |-> CriticalPath(tasks),
   covered |-> {r \in DOMAIN h.listed : Covered(h, r)}, startable |-> Acyclic(tasks) /\ h.fits,
   schedule |-> ScheduleOf(h, input, tasks), revision |-> revision, given |-> given]

Build(h, input, revision, given) == Emptied(h, Draft(h, input, PlanTasks(h), revision, given))

\* validate_plan_document, as far as the builder does not meet it anyway: the
\* tests of a deliverable are bundled, and are for mandatory requirements.
Valid(h) ==
  /\ ~Empty(h) => \A r \in DOMAIN h.listed : Declared(h, r) \subseteq DOMAIN h.target
  /\ \A t \in DOMAIN h.target : h.target[t] \in DOMAIN h.listed

PlannerInit == handoff \in Handoffs /\ calendar = Absent /\ plan = Absent

\* Somebody puts 01_scope/calendar-input.yaml in place, or takes it away.
SetCalendar ==
  /\ calendar' \in ({Absent} \cup Calendars) \ {calendar}
  /\ UNCHANGED <<handoff, plan>>

\* main: a plan without a first action is not written, unless the revision is
\* given, as an accepted revision of the handoff does.
BuildPlan(revision) ==
  LET number == IF revision # Absent THEN revision ELSE IF plan = Absent THEN 1 ELSE plan.revision
  IN /\ plan' = Build(handoff, calendar, number, revision # Absent)
     /\ plan'.startable \/ revision # Absent
     /\ Valid(handoff)
     /\ UNCHANGED <<handoff, calendar>>

PlannerNext == SetCalendar \/ \E revision \in {Absent, 2} : BuildPlan(revision)

PlannerSpec == PlannerInit /\ [][PlannerNext]_plannerVars

-----------------------------------------------------------------------------
(* Properties.                                                             *)

\* The chains of dependencies of n tasks, each with its minutes.
Prolongations(tasks, chains) ==
  {Prolonged(e[1], e[2]) : e \in {f \in chains \X ToSet(tasks) :
                                     f[1].path = <<>> \/ Last(f[1].path) \in f[2].deps}}
Chains(tasks) ==
  LET of[n \in 0..Len(tasks)] ==
        IF n = 0 THEN {[path |-> <<>>, minutes |-> 0]} ELSE Prolongations(tasks, of[n - 1])
  IN of
AllChains(tasks) == UNION {Chains(tasks)[n] : n \in 1..Len(tasks)}

\* The tasks can be put into some order that respects all dependencies.
Orderable(tasks) ==
  \E place \in [Ids(tasks) -> 1..Len(tasks)] :
    \A t \in ToSet(tasks) : \A d \in t.deps : place[d] < place[t.id]

\* The critical path is a chain of dependencies that none exceeds; with a
\* calendar every task follows what it depends on, the plan ends when the
\* critical path does, and a baseline is granted only for exactly that end.
\* (build_plan.py 367-437, 754-812)
CriticalPathIsLongest ==
  (plan # Absent /\ plan.tasks # <<>> /\ Orderable(plan.tasks)) =>
    \E critical \in AllChains(plan.tasks) :
      /\ plan.critical = critical.path
      /\ \A c \in AllChains(plan.tasks) : c.minutes <= critical.minutes
      /\ plan.schedule.mode = "CALENDAR" =>
           LET ends == plan.schedule.ends IN
           /\ \A t \in ToSet(plan.tasks) : \A d \in t.deps : ends[d] + t.minutes <= ends[t.id]
           /\ \E i \in DOMAIN ends : ends[i] = critical.minutes
           /\ \A i \in DOMAIN ends : ends[i] <= critical.minutes
           /\ plan.schedule.baseline = "BASELINED" => plan.schedule.due = critical.minutes

\* Whatever the handoff, a plan that is written without a given revision can be
\* started and finished: its tasks have names of their own and an order, one is
\* local, ready and waits for nothing, nothing is ready that waits for another,
\* and what acts outside is blocked behind an approval.
\* (build_plan.py 1296-1317, 1590-1618, 1837-1877, 2574-2590)
WrittenPlansCanStart ==
  (plan # Absent /\ ~plan.given) =>
    /\ \A i, j \in DOMAIN plan.tasks : plan.tasks[i].id = plan.tasks[j].id => i = j
    /\ Orderable(plan.tasks) /\ ToSet(plan.order) = Ids(plan.tasks)
    /\ \E t \in ToSet(plan.tasks) : t.effect \notin External /\ t.deps = {} /\ t.status = "READY"
    /\ \A t \in ToSet(plan.tasks) :
         /\ t.status = "READY" => t.deps = {} /\ t.approvals = {}
         /\ t.effect \in External => t.status = "BLOCKED" /\ t.approvals # {}

\* A requirement is called covered only when one and the same work package has
\* tasks for it and carries all the tests that it lists or that name it, though
\* packages and tasks are looked up separately.  (build_plan.py 1665-1697)
CoveredHasAPath ==
  (plan # Absent /\ handoff.prototypes # <<>>) =>
    \A r \in plan.covered :
      \E k \in DOMAIN handoff.prototypes :
        /\ handoff.prototypes[k].tasks # <<>> /\ r \in Serves(handoff, k)
        /\ handoff.listed[r] \subseteq Outputs(handoff, k)
        /\ \A t \in DOMAIN handoff.target : handoff.target[t] = r => t \in Outputs(handoff, k)
=============================================================================
