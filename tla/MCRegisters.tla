---------------------------- MODULE MCRegisters ----------------------------
(* Instances of Registers: one output with its quality result and its      *)
(* evidence, an installation, an observation, and records that must be     *)
(* refused (an unverified reference, an unknown deliverable or approval).  *)
EXTENDS Registers, TLC

E(id, revision, status, targets) ==
  [type |-> "EVIDENCE", id |-> id, revision |-> revision, status |-> status, targets |-> targets]
O(revision, status, deliverable, quality) ==
  [type |-> "OUTPUT", id |-> "O1", revision |-> revision, status |-> status,
   deliverable |-> deliverable, tasks |-> {"T1"}, quality |-> quality]
Q(revision, status, outputRevision, evidence) ==
  [type |-> "QUALITY", id |-> "Q1", revision |-> revision, status |-> status,
   output |-> "O1", outputRevision |-> outputRevision, evidence |-> evidence]
IP == [type |-> "INSTALLATION_PLAN", id |-> "IP1", revision |-> 1, status |-> "APPROVED",
       outputs |-> {"O1"}, approvals |-> {"A1"}]
IR == [type |-> "INSTALLATION_RESULT", id |-> "IR1", revision |-> 1, status |-> "SUCCEEDED",
       plan |-> "IP1", outputs |-> {"O1"}, evidence |-> {<<"E1", 1>>}]
B(revision, supersedes, kind, ref) ==
  [type |-> "OBSERVATION", id |-> "B1", revision |-> revision, status |-> "ACTIVE",
   requirements |-> {"R1"}, supersedes |-> supersedes, sources |-> {[kind |-> kind, ref |-> ref]}]

As(record, key) == [record |-> record, key |-> key]

MCRequest ==
  {As(E("E1", 1, "VERIFIED", {"Q1", "IP1"}), "e1"), As(E("E1", 2, "REJECTED", {"Q1"}), "e2"),
   As(O(1, "CANDIDATE", "D1", {}), "o1"), As(O(2, "AVAILABLE", "D1", {"Q1"}), "o2"),
   As(O(2, "AVAILABLE", "D2", {"Q1"}), "o1"),
   As(Q(1, "PASS", 1, {<<"E1", 1>>}), "q1"), As(Q(1, "PASS", 1, {<<"E1", 2>>}), "q2"),
   As(Q(2, "FAIL", 1, {}), "q3"),
   As(IP, "ip"), As(IR, "ir"),
   As(B(1, None, "TASK", <<"T1", 1>>), "b1"),
   As(B(2, <<"B1", 1>>, "OUTPUT", <<"O1", 1>>), "b2"), As(B(2, <<"B1", 1>>, "EVIDENCE", <<"E1", 2>>), "b3")}

MCPlan ==
  {[deliverables |-> {"D1"}, tasks |-> {"T1"}, requirements |-> {}],
   [deliverables |-> {"D2"}, tasks |-> {"T1"}, requirements |-> {"R1"}]}

Symmetry == Permutations(Process)
=============================================================================
