--------------------------- MODULE MCAgentHarness ---------------------------
EXTENDS AgentHarness, TLC

MCAnswer == {<<"REQUEST_TOOL">>, <<"STOP", "REQUEST_EFFECT">>}
MCApart == [events |-> 8, incidents |-> 2]
MCTogether == [events |-> 5, incidents |-> 1]
Symmetry == Permutations(Invoker)
=============================================================================
