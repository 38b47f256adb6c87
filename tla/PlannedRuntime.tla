--------------------------- MODULE PlannedRuntime ---------------------------
(***************************************************************************)
(* Planner and runtime together: the graph that TaskRuntime registers is   *)
(* the one that Planner has written.  What TaskRuntime takes for constants *)
(* (status, dependencies, approvals of the planned tasks) is read from the *)
(* plan on disk, which replaces the tasks of the runtime only as a whole.  *)
(*                                                                         *)
(* Bound: the runtime takes up one plan only, the one its constants        *)
(* describe, as it is first written, and from then on nobody plans.        *)
(***************************************************************************)
EXTENDS TaskRuntime, Planner

CONSTANT NumberOf   \* Task -> number of the task in the plan

\* The planner writes neither a priority nor an earliest start, so that
\* next_task goes by the numbers.
ASSUME NumberAssumption ==
  /\ NumberOf \in [Task -> Nat]
  /\ \A t \in Task : EarliestStart[t] = 0
  /\ \A t, u \in Task : NumberOf[t] < NumberOf[u] <=> Rank[t] < Rank[u]

\* Runtime._task_graph: a task of the runtime is what the plan says of it.
Describes(planned, t) ==
  /\ planned.id = NumberOf[t]
  /\ planned.status = PlannedStatus[t]
  /\ planned.deps = {NumberOf[d] : d \in DependsOn[t]}
  /\ planned.approvals = {} <=> Requires[t] = {}
  /\ planned.effect \in External => t \in HumanRequired

\* _load_plan: there is a plan, and its tasks are those of the runtime.
PlanIsLoaded ==
  /\ plan # Absent
  /\ Ids(plan.tasks) = {NumberOf[t] : t \in Task}
  /\ \A t \in Task : \E planned \in ToSet(plan.tasks) : Describes(planned, t)

PlannedInit == Init /\ PlannerInit

\* build_plan.py, until the runtime has begun.
Plans == Init /\ PlannerNext /\ UNCHANGED vars

\* The runtime, once the plan is there.
Works ==
  /\ calendar = Absent /\ PlanIsLoaded
  /\ ~plan.given /\ plan.revision = 1 /\ plan.schedule = Relative
  /\ Next
  /\ UNCHANGED plannerVars

PlannedNext == Plans \/ Works

PlannedSpec == PlannedInit /\ [][PlannedNext]_<<vars, plannerVars>>
=============================================================================
