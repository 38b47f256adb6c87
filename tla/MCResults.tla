----------------------------- MODULE MCResults -----------------------------
(* An instance of Results: one output, its quality result and their        *)
(* revisions, one of them without evidence, while a builder reads.         *)
EXTENDS Results, TLC

E(id, targets) ==
  [type |-> "EVIDENCE", id |-> id, revision |-> 1, status |-> "VERIFIED", targets |-> targets]
O(revision, status, quality, gap) ==
  [type |-> "OUTPUT", id |-> "O1", revision |-> revision, status |-> status, deliverable |-> "D1",
   tasks |-> {"T1"}, quality |-> quality, gap |-> gap]
Q(revision, status, evidence, external, gap) ==
  [type |-> "QUALITY", id |-> "Q1", revision |-> revision, status |-> status, output |-> "O1",
   outputRevision |-> 1, evidence |-> evidence, external |-> external, gap |-> gap]

As(record, key) == [record |-> record, key |-> key]
Open(blocking, category) == [blocking |-> blocking, category |-> category]

MCRequest ==
  {As(E("E1", {"Q1", "AT1"}), "e1"),
   As(O(1, "CANDIDATE", {}, Open(FALSE, None)), "o1"),
   As(O(2, "AVAILABLE", {"Q1"}, None), "o2"),
   As(O(3, "REJECTED", {}, Open(FALSE, "MINOR")), "o3"),
   As(Q(1, "PASS", {<<"E1", 1>>}, "VERIFIED", None), "q1"),
   As(Q(2, "PASS", {<<"E1", 1>>}, "NOT_REQUIRED", None), "q2"),
   As(Q(3, "PASS", {<<"E2", 1>>}, "VERIFIED", None), "q3")}

MCPlan ==
  {[deliverables |-> {"D1"}, tasks |-> {"T1"}, requirements |-> {}, gaps |-> {},
    mandatory |-> {"D1"}, unmet |-> {}, skipsInstallation |-> TRUE]}

Task(blocking, category) == [source |-> <<"TASK", "T1", 1>>, blocking |-> blocking, category |-> category]
Finishing == {[state |-> "VALIDATING", gaps |-> {}],
              [state |-> "VALIDATING", gaps |-> {Task(FALSE, "MINOR")}]}
MCTest == [result |-> "PASS", evidence |-> {<<"E1", 1>>}, targets |-> {"AT1"}]
MCQualityOrder == <<"Q1">>

Build(id, target) == [id |-> id, target |-> target]
OneBuild == {Build("PR1", "COMPLETE"), Build("PR1", "COMPLETE_WITH_GAPS")}
=============================================================================
