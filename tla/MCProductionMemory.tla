-------------------------- MODULE MCProductionMemory -------------------------
(* A record and its correction by a further observation, and another name    *)
(* for the source of the correction, with its observations in either order.  *)
EXTENDS ProductionMemory

Ask(record, revision, observations, operation) ==
  [record |-> record, revision |-> revision, phase |-> "observed", observations |-> observations,
   operation |-> operation, run |-> "r"]

MCRequest ==
  {Ask("a", 1, <<"o">>, "first"), Ask("a", 2, <<"o", "n">>, "correction"),
   Ask("b", 1, <<"o", "n">>, "renamed"), Ask("b", 1, <<"n", "o">>, "permuted")}

Symmetric == Permutations(Process)
=============================================================================
