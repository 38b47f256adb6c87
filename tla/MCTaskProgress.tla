-------------------------- MODULE MCTaskProgress ---------------------------
(* A plan for the progress of TaskRuntime: a task, one that waits for it and *)
(* for an approval, and one that waits for nothing but comes last in order.  *)
EXTENDS TaskRuntime, TLC

CONSTANTS draft, publish, catalogue,   \* tasks
          release                      \* the target of publish

MCPlannedStatus == draft :> "READY" @@ publish :> "BLOCKED" @@ catalogue :> "READY"
MCDependsOn     == draft :> {} @@ publish :> {draft} @@ catalogue :> {}
MCRequires      == draft :> {} @@ publish :> {release} @@ catalogue :> {}
MCEarliestStart == draft :> 0 @@ publish :> 0 @@ catalogue :> 0
MCRank          == draft :> 1 @@ publish :> 2 @@ catalogue :> 3

\* An approval of `release` that outlives the model's clock.
MCApproval ==
  {[id |-> 1, revision |-> 1, target |-> release, decision |-> "APPROVED",
    exactHash |-> TRUE, fits |-> TRUE, issued |-> 0, expires |-> 9]}
=============================================================================
