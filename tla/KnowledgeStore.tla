--------------------------- MODULE KnowledgeStore ---------------------------
(***************************************************************************)
(* What the production memory promises, without branches, hashes, racing   *)
(* commands and retries: versions in a row, each made of the last one by a *)
(* single operation that was judged by that very version.                  *)
(*   - a document is added as the next revision of its record, if no other *)
(*     record has its source and its operation is not one for other data;  *)
(*   - a use is added once, of documents that are the latest and accepted; *)
(*   - an answer names the version that added a document, and what is      *)
(*     shown is nothing but one version.                                   *)
(***************************************************************************)
EXTENDS Naturals, Sequences, SequencesExt

CONSTANT None

VARIABLES
  versions,  \* [records, operations, uses], in order
  shown,     \* the version that readers are shown, or None
  answered   \* the documents that were answered for, with their versions

vars == <<versions, shown, answered>>

Empty == [records |-> {}, operations |-> {}, uses |-> {}]

Init == versions = <<>> /\ shown = None /\ answered = {}

\* The observations are lists: in another order they are another source.
SameSource(d, e) ==
  /\ d.payload.request.phase = e.payload.request.phase
  /\ d.payload.result = e.payload.result
  /\ d.payload.observations = e.payload.observations

\* d is the revision after the last one of its record.
IsNext(d, records) ==
  /\ \A e \in records : e.record = d.record => e.revision < d.revision
  /\ d.revision = 1 \/ \E e \in records : e.record = d.record /\ e.revision + 1 = d.revision

Learned(v, w) ==
  \E d \in w.records, o \in w.operations :
    /\ \A e \in v.records : SameSource(d, e) => e.record = d.record
    /\ IsNext(d, v.records)
    /\ o.payload = d.payload
    /\ \A k \in v.operations : k.operation = o.operation => k.payload = o.payload /\ k.run = o.run
    /\ w = [records |-> v.records \cup {d}, operations |-> v.operations \cup {o}, uses |-> v.uses]

Cited(v, w) ==
  \E u \in w.uses \ v.uses :
    /\ \A d \in u.adopted :
         /\ d \in v.records /\ d.lifecycle = "accepted"
         /\ \A e \in v.records : e.record = d.record => e.revision <= d.revision
    /\ w = [v EXCEPT !.uses = @ \cup {u}]

Open == versions = <<>> /\ versions' = <<Empty>> /\ UNCHANGED <<shown, answered>>

Advance ==
  /\ versions # <<>>
  /\ \E w \in ToSet(versions') :
       /\ Learned(versions[Len(versions)], w) \/ Cited(versions[Len(versions)], w)
       /\ versions' = Append(versions, w)
  /\ UNCHANGED <<shown, answered>>

Answer(n, d) ==
  /\ d \in versions[n].records /\ \A m \in 1..(n - 1) : d \notin versions[m].records
  /\ answered' = answered \cup {[document |-> d, commit |-> n]}
  /\ shown' \in {shown, [commit |-> n, records |-> versions[n].records]}
  /\ UNCHANGED versions

Next == Open \/ Advance \/ \E n \in DOMAIN versions : \E d \in versions[n].records : Answer(n, d)

Spec == Init /\ [][Next]_vars

=============================================================================
