--------------------------- MODULE MCProjectSwap ---------------------------
(***************************************************************************)
(* One writer and two acceptors for ProjectSwap, which are offered two     *)
(* contents of revision 2 and a revision 3.                                *)
(***************************************************************************)
EXTENDS ProjectSwap, TLC

Offered ==
  {[revision |-> 2, content |-> c] : c \in {"a", "b"}} \cup {[revision |-> 3, content |-> "a"]}

Interchangeable == Permutations(Acceptor)
=============================================================================
