--------------------------- MODULE MCPlanElements ---------------------------
(* Stage D of a plan with a local and a physical task, one gap that need not *)
(* be resolved, and a medium with or without a specification of materials.   *)
EXTENDS PlanElements

MCRequired == ("physical" :> <<"materials">>) @@ ("digital" :> <<"format">>)
MCTasks == <<"local", "physical">>
MCGaps == <<"gap">>
MCHard == {SpecOf("materials"), Step("local", "completion"), Step("physical", "tool"),
           Gap("gap", "method"), Gap("gap", "condition")}
=============================================================================
