-------------------------- MODULE MCPlannedRuntime --------------------------
(* Families of handoffs: every dependency graph on three tasks, two           *)
(* prototypes that share the numbering, graphs that leave TK004 taken, every  *)
(* way to connect two requirements with tests and prototypes, no prototype.   *)
(* Of these the runtime takes up one: a task nobody has to approve, and a     *)
(* publication behind a human approval, which depends on it.                  *)
EXTENDS PlannedRuntime

CONSTANTS draft, publish,   \* tasks
          release           \* the target of publish, also its requirement

MCPlannedStatus == draft :> "READY" @@ publish :> "BLOCKED"
MCDependsOn     == draft :> {} @@ publish :> {draft}
MCRequires      == draft :> {} @@ publish :> {release}
MCEarliestStart == draft :> 0 @@ publish :> 0
MCRank          == draft :> 1 @@ publish :> 2

\* An approval of `release` that lapses, and the revision that revokes it.
\* Either may be submitted again.
Grant(id, revision, decision, expires) ==
  [id |-> id, revision |-> revision, target |-> release, decision |-> decision,
   exactHash |-> TRUE, fits |-> TRUE, issued |-> 0, expires |-> expires]

MCApproval == {Grant(1, 1, "APPROVED", 2), Grant(1, 2, "REVOKED", 9)}

HolderSymmetry == Permutations(Holder)
EffectSymmetry == Permutations(EffectKey)
Symmetric == HolderSymmetry \cup EffectSymmetry

MCNumberOf == draft :> 1 @@ publish :> 2

Made(effect, status, deps) == [effect |-> effect, status |-> status, deps |-> deps]
Prototype(work, validates, band, requirements, tests) ==
  [tasks |-> work, validates |-> validates, band |-> band, requirements |-> requirements, tests |-> tests]
OneTest == [t1 |-> "r1"]
Handoff(prototypes, named, listed, target, method, fits) ==
  [prototypes |-> prototypes, named |-> named, listed |-> listed, target |-> target, method |-> method, fits |-> fits]
Simple(prototypes) == Handoff(prototypes, TRUE, [r1 |-> {"t1"}], OneTest, FALSE, TRUE)

\* Effects and statuses of three tasks.
Mixed == <<<<"REPOSITORY_WRITE", "READY">>, <<"READ_ONLY", "">>, <<"PHYSICAL_EXTERNAL", "READY">>>>
Settled == <<<<"READ_ONLY", "BACKLOG">>, <<"REPOSITORY_WRITE", "DONE">>, <<"READ_ONLY", "READY">>>>

Graphs3 ==
  {Simple(<<Prototype([i \in 1..3 |-> Made(k[1][i][1], k[1][i][2], deps[i])], k[2], "DAYS", {"r1"}, {})>>) :
     k \in {<<Mixed, TRUE>>, <<Settled, FALSE>>}, deps \in [1..3 -> SUBSET (1..3)]}

Chain(n, effect) == [i \in 1..n |-> Made(effect, "READY", IF i = 1 THEN {} ELSE {i - 1})]
Fan(n, effect) == [i \in 1..n |-> Made(effect, "READY", IF i = n THEN 1..(n - 1) ELSE {})]

TwoPrototypes ==
  {Simple(<<Prototype(first, v, b, {"r1"}, {}), Prototype(second, w, c, {"r1"}, {})>>) :
     first \in {Chain(2, "PHYSICAL_EXTERNAL"), Fan(3, "READ_ONLY"), Chain(4, "READ_ONLY")},
     second \in {Chain(1, "PHYSICAL_EXTERNAL"), Fan(2, "PHYSICAL_EXTERNAL"), Chain(2, "READ_ONLY")},
     v, w \in BOOLEAN, b, c \in {"HOURS", "DAYS", "UNKNOWN"}}

Coverings ==
  {Handoff(<<Prototype(IF k THEN Chain(1, "READ_ONLY") ELSE <<>>, FALSE, "HOURS", first[1], first[2]),
             Prototype(Chain(1, "READ_ONLY"), FALSE, "HOURS", second[1], second[2])>>,
           TRUE, [r1 |-> listed[1], r2 |-> listed[2]], target, FALSE, TRUE) :
     k \in BOOLEAN,
     first, second \in (SUBSET {"r1", "r2"}) \X (SUBSET {"t1", "t2"}),
     listed \in {<<{"t1"}, {"t2"}>>, <<{"t1", "t2"}, {}>>, <<{"t2"}, {"t1", "t3"}>>},
     target \in {[t1 |-> "r1", t2 |-> "r2"], [t1 |-> "r1", t2 |-> "r1"]}}

\* No prototype is bundled, whether or not the handoff names one.
WithoutPrototypes ==
  {Handoff(<<>>, named, listed, OneTest, method, fits) :
     named, method, fits \in BOOLEAN,
     listed \in {[r1 |-> {"t1"}], [r1 |-> {"t1"}, r2 |-> {}], [r1 |-> {"t2"}]}}

\* Prototypes are bundled that the handoff does not name.
Unnamed ==
  {Handoff(<<Prototype(Chain(2, effect), TRUE, band, {"r1"}, {})>>, FALSE, [r1 |-> {"t1"}], OneTest, method, TRUE) :
     effect \in {"READ_ONLY", "PURCHASE"}, band \in {"DAYS", "UNKNOWN"}, method \in BOOLEAN}

\* The handoff whose plan the runtime takes up.
Published ==
  Simple(<<Prototype(<<Made("READ_ONLY", "READY", {}), Made("PUBLICATION", "READY", {1})>>,
                     TRUE, "HOURS", {"r1"}, {})>>)

MCCalendars == {[due |-> 960, baseline |-> "BASELINED"], [due |-> Absent, baseline |-> "BASELINED"]}

MCHandoffs == Graphs3 \cup TwoPrototypes \cup Coverings \cup WithoutPrototypes \cup Unnamed \cup {Published}
=============================================================================
