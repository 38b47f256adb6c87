-------------------------- MODULE ProductionMemory --------------------------
(***************************************************************************)
(* The production memory (tools/production_memory.py): a store of its own, *)
(* a bare git repository, that keeps what projects learned.  ingest takes  *)
(* an observation out of a project, remember-use records which plan used   *)
(* what, and both move one branch with a compare-and-swap; an index beside *)
(* the branch can be thrown away.  A plan cites the store as of a commit   *)
(* that its author pins (lib/production_reuse.py), however long ago.       *)
(*                                                                         *)
(* Abstractions.  One project is the source and one the user.  A hash is   *)
(* what it is the hash of; of a document there are the request, the source *)
(* and the lifecycle.  A commit that loses the swap is unreachable and not *)
(* kept.  The store reads of one command all name one commit, so they are  *)
(* one step; the files of a project are read one after the other.  Schemas,*)
(* sizes, privacy, evidence and the identity of the store are in order;    *)
(* what a plan selects is selected under a matching environment and date.  *)
(***************************************************************************)
EXTENDS Integers, FiniteSets, Sequences, SequencesExt

CONSTANTS
  Process,      \* concurrent commands on the store
  Request,      \* ingests: record, revision, phase, observations (a list of ids), operation, run
  Content,      \* what an observation may say
  MaxRecords,   \* bound: observation records of the source project
  MaxCommits,   \* bound: commits of the branch
  MaxDeaths,    \* bound: commands that die
  None

VARIABLES
  made,     \* does the directory of the store exist?
  commits,  \* the commits that were the branch: parent, and the tree
  ref,      \* refs/heads/knowledge, 0 before the first commit
  index,    \* production-memory-index.json: the commit it names and its records
  book,     \* source project: observation records, in order
  result,   \* source project: what production-result.yaml shows, None without one
  pc,       \* where a command is
  receipts, \* history: what ingests answered
  deaths    \* history

store == <<made, commits, ref>>
projects == <<book, result>>
vars == <<store, index, projects, pc, receipts, deaths>>

-----------------------------------------------------------------------------
(* Records.                                                                *)

Idle == [at |-> "idle"]
Go(p, to) == pc' = [pc EXCEPT ![p] = to]
At(p, stage) == pc[p].at = stage

Latest(records, r) ==
  LET of == {d \in records : d.record = r}
  IN CHOOSE d \in of : \A e \in of : e.revision <= d.revision
Names(records) == {d.record : d \in records}

\* The observation records of the highest revisions.
Current == {o \in ToSet(book) : \A n \in ToSet(book) : n.id = o.id => n.revision <= o.revision}

\* Mutant: the whole request is part of the source.
SourceKeyOfRequest(payload) == payload

\* What makes two payloads the same source: not the record they are for, but the order of the
\* observations.
SourceKey(payload) ==
  [result |-> payload.result, phase |-> payload.request.phase,
   observations |-> [i \in DOMAIN payload.observations |->
                       <<payload.observations[i].id, payload.observations[i].revision>>]]

Revoked(payload) == \E o \in ToSet(payload.observations) : o.status = "RETRACTED"

Document(payload) ==
  [record |-> payload.request.record, revision |-> payload.request.revision, payload |-> payload,
   lifecycle |-> IF Revoked(payload) THEN "revoked" ELSE "accepted"]

Before(c) == IF commits[c].parent = 0 THEN {} ELSE commits[commits[c].parent].records

\* The commit that added a document, looked up in the history of a commit.
Original(document, head) ==
  CHOOSE c \in 1..head : document \in commits[c].records \ Before(c)

-----------------------------------------------------------------------------
(* The store.                                                              *)

Init ==
  /\ made = FALSE /\ commits = <<>> /\ ref = 0 /\ index = None
  /\ book = <<>> /\ result = None
  /\ pc = [p \in Process |-> Idle]
  /\ receipts = {} /\ deaths = 0

\* init: a directory that is there already is an error, whatever is in it.
MakeStore(p) ==
  /\ pc[p] = Idle /\ ~made
  /\ made' = TRUE /\ Go(p, [at |-> "first"])
  /\ UNCHANGED <<commits, ref, index, projects, receipts, deaths>>

FirstCommit(p) ==
  /\ At(p, "first")
  /\ commits' = <<[parent |-> 0, records |-> {}, operations |-> {}, uses |-> {}]>> /\ ref' = 1
  /\ Go(p, Idle)
  /\ UNCHANGED <<made, index, projects, receipts, deaths>>

\* Mutant: update-ref is not told what it replaces.
UnmovedOrNot(head) == TRUE

\* update-ref with the old value.
Unmoved(head) == ref = head

\* commit: a tree on top of head becomes the branch, or the command ends with PARENT_CONFLICT.
Commit(p, tree, then) ==
  /\ IF Unmoved(pc[p].head)
     THEN /\ commits' = Append(commits, tree) /\ ref' = Len(commits) + 1
          /\ Go(p, then)
     ELSE Go(p, Idle) /\ UNCHANGED <<commits, ref>>
  /\ UNCHANGED <<made, index, projects, deaths>>

Die(p) ==
  /\ pc[p] # Idle /\ deaths < MaxDeaths
  /\ Go(p, Idle) /\ deaths' = deaths + 1
  /\ UNCHANGED <<store, index, projects, receipts>>

-----------------------------------------------------------------------------
(* ingest.                                                                 *)

\* read: the branch, once; all that follows is about that commit.
Ingest(p, q) ==
  /\ pc[p] = Idle /\ ref # 0
  /\ Go(p, [at |-> "observe", request |-> q, head |-> ref])
  /\ UNCHANGED <<store, index, projects, receipts, deaths>>

\* capture: an observation that is missing is an error; without any, only a plan is knowledge.
\* They are found in the order in which the request names them.
Observe(p) ==
  LET q == pc[p].request
      found == [i \in DOMAIN q.observations |-> CHOOSE o \in Current : o.id = q.observations[i]]
  IN /\ At(p, "observe")
     /\ IF /\ ToSet(q.observations) \subseteq {o.id : o \in Current}
           /\ q.phase = "planned" <=> q.observations = <<>>
        THEN Go(p, [at |-> "result", request |-> q, head |-> pc[p].head, found |-> found])
        ELSE Go(p, Idle)
     /\ UNCHANGED <<store, index, projects, receipts, deaths>>

\* Does the result show what is observed, and not what is retracted?
Shown(o, shown) ==
  IF o.status = "ACTIVE" THEN <<o.id, o.content>> \in shown ELSE \A s \in shown : s[1] # o.id

SeeResult(p) ==
  LET found == pc[p].found IN
  /\ At(p, "result")
  /\ IF IF result = None THEN found = <<>> ELSE \A o \in ToSet(found) : Shown(o, result)
     THEN Go(p, [at |-> "digest", request |-> pc[p].request, head |-> pc[p].head,
                 found |-> found, result |-> result])
     ELSE Go(p, Idle)
  /\ UNCHANGED <<store, index, projects, receipts, deaths>>

\* The payload: with the hashes of the files as they are now.
Payload(c) ==
  [request |-> [f \in {"record", "revision", "phase", "observations"} |-> c.request[f]],
   result |-> c.result, observations |-> c.found, snapshot |-> <<Len(book), result>>]

\* A known operation is for the same payload and run.
OperationFree(q, payload, tree) ==
  \A o \in tree.operations :
    o.operation = q.operation => o.payload = payload /\ o.run = q.run

Duplicates(payload, tree) ==
  {d \in tree.records : d.record # payload.request.record /\ SourceKey(d.payload) = SourceKey(payload)}

Existing(payload, tree) ==
  {d \in tree.records : <<d.record, d.revision>> = <<payload.request.record, payload.request.revision>>}

\* The revision after the last one of the record.
Follows(q, tree) ==
  q.revision = IF q.record \in Names(tree.records) THEN Latest(tree.records, q.record).revision + 1 ELSE 1

\* Mutant: for an old commit the records of the head are indexed.
IndexedAtHead(c, head) == commits[head].records

\* What the index will show of a commit that holds the document already.
Indexed(c, head) == commits[c].records

Indexing(document, commit, records) ==
  [at |-> "index", document |-> document, commit |-> commit, records |-> records]

\* Decide on a payload: known operation, known source, known revision, or something to commit.
Decide(p) ==
  LET q == pc[p].request
      head == pc[p].head
      tree == commits[head]
      payload == Payload(pc[p])
      document == Document(payload)
      known == Existing(payload, tree)
      first == Original(document, head)
  IN
  /\ At(p, "digest")
  /\ Go(p, IF ~OperationFree(q, payload, tree) \/ Duplicates(payload, tree) # {} THEN Idle
           ELSE IF known = {document} THEN Indexing(document, first, Indexed(first, head))
           ELSE IF known = {} /\ Follows(q, tree) /\ Len(commits) < MaxCommits
           THEN [at |-> "commit", head |-> head, document |-> document,
                 operation |-> [operation |-> q.operation, payload |-> payload, run |-> q.run]]
           ELSE Idle)
  /\ UNCHANGED <<store, index, projects, receipts, deaths>>

CommitRecord(p) ==
  LET c == pc[p]
      base == commits[c.head]
      records == base.records \cup {c.document}
  IN
  /\ At(p, "commit")
  /\ Commit(p, [base EXCEPT !.parent = c.head, !.records = records, !.operations = @ \cup {c.operation}],
            Indexing(c.document, Len(commits) + 1, records))
  /\ UNCHANGED receipts

\* reindex, which may fail: the answer is the commit, the index can wait.
Reindex(p) ==
  LET c == pc[p] IN
  /\ At(p, "index")
  /\ index' \in {index, [commit |-> c.commit, records |-> c.records]}
  /\ receipts' = receipts \cup {[document |-> c.document, commit |-> c.commit]}
  /\ Go(p, Idle)
  /\ UNCHANGED <<store, projects, deaths>>

-----------------------------------------------------------------------------
(* The plans that use the store.                                           *)

\* query and integrate: a plan pins a commit of the branch, and adopts the latest revision of what
\* it selects, unless that is revoked.
BuildPlan(snapshot, selected) ==
  [snapshot |-> snapshot,
   adopted |-> {d \in {Latest(commits[snapshot].records, r) : r \in selected} :
                  d.lifecycle = "accepted"}]

\* remember_use: a plan that adopted something, read before the store.
RememberUse(p, snapshot, selected) ==
  /\ pc[p] = Idle /\ snapshot \in 1..ref /\ selected \subseteq Names(commits[snapshot].records)
  /\ BuildPlan(snapshot, selected).adopted # {}
  /\ Go(p, [at |-> "sources", use |-> BuildPlan(snapshot, selected)])
  /\ UNCHANGED <<store, index, projects, receipts, deaths>>

\* Mutant: the source is compared with what the plan was built from.
UsableAsPinned(d, use, tree) == d \in commits[use.snapshot].records

\* Each source still is the latest revision, and not revoked.
Usable(d, use, tree) ==
  /\ d.record \in Names(tree.records)
  /\ d = Latest(tree.records, d.record) /\ d.lifecycle = "accepted"

CheckSources(p) ==
  LET use == pc[p].use IN
  /\ At(p, "sources")
  /\ IF /\ \A d \in use.adopted : Usable(d, use, commits[ref])
        /\ use \notin commits[ref].uses /\ Len(commits) < MaxCommits
     THEN Go(p, [at |-> "use", use |-> use, head |-> ref])
     ELSE Go(p, Idle)
  /\ UNCHANGED <<store, index, projects, receipts, deaths>>

CommitUse(p) ==
  LET c == pc[p] IN
  /\ At(p, "use")
  /\ Commit(p, [commits[c.head] EXCEPT !.parent = c.head, !.uses = @ \cup {c.use}], Idle)
  /\ UNCHANGED receipts

\* query: the uses that a commit has to take back to validation.
Affected(commit, r) ==
  LET last == Latest(commits[commit].records, r)
  IN {u \in commits[commit].uses : \E d \in u.adopted :
        d.record = r /\ (d.revision < last.revision \/ last.lifecycle # "accepted")}

-----------------------------------------------------------------------------
(* The source project.                                                     *)

\* A revision of an observation, as Registers has it: what it said, or something else.
RecordObservation(id, status, content) ==
  LET earlier == {o \in ToSet(book) : o.id = id} IN
  /\ Len(book) < MaxRecords
  /\ book' = Append(book, [id |-> id, revision |-> Cardinality(earlier) + 1,
                           status |-> status, content |-> content])
  /\ UNCHANGED <<store, index, result, pc, receipts, deaths>>

\* build_result, as Results has it: the observations that are not retracted.
BuildResult ==
  /\ result' = {<<o.id, o.content>> : o \in {n \in Current : n.status = "ACTIVE"}}
  /\ UNCHANGED <<store, index, book, pc, receipts, deaths>>

Observed == UNION {ToSet(q.observations) : q \in Request}

Next ==
  \/ \E p \in Process :
       \/ MakeStore(p) \/ FirstCommit(p)
       \/ \E q \in Request : Ingest(p, q)
       \/ Observe(p) \/ SeeResult(p) \/ Decide(p) \/ CommitRecord(p) \/ Reindex(p)
       \/ \E snapshot \in 1..MaxCommits, selected \in SUBSET {q.record : q \in Request} :
            RememberUse(p, snapshot, selected)
       \/ CheckSources(p) \/ CommitUse(p)
       \/ Die(p)
  \/ \E id \in Observed, status \in {"ACTIVE", "RETRACTED"}, content \in Content :
       RecordObservation(id, status, content)
  \/ BuildResult

Spec == Init /\ [][Next]_vars

-----------------------------------------------------------------------------
(* Properties.                                                             *)

\* What an ingest answered for stays: its record is in the branch from the commit that the answer
\* names, which is the one that added it, however many commands commit, retry or die beside it
\* (production_memory.py 70-82, 243-261).
AnsweredKnowledgeIsKept ==
  \A a \in receipts :
    /\ a.document \in commits[ref].records
    /\ a.document \in commits[a.commit].records \ Before(a.commit)

\* The branch has one record for one source (the same result, phase and observations in the same
\* order), and of each record the revisions from the first on, one document each, also when the same
\* thing is ingested twice at the same time under two names (production_memory.py 237-256).
OneRecordPerSource ==
  ref # 0 =>
    LET records == commits[ref].records IN
    /\ \A d, e \in records :
         d.payload.observations # <<>> /\ d.payload.request.phase = e.payload.request.phase
           /\ d.payload.result = e.payload.result /\ d.payload.observations = e.payload.observations
         => d.record = e.record
    /\ \A d, e \in records : d.record = e.record /\ d.revision = e.revision => d = e
    /\ \A d \in records : \A n \in 1..d.revision :
         \E e \in records : e.record = d.record /\ e.revision = n

\* A use enters the branch only as long as all it cites is the latest and not revoked, whatever the
\* plan was built from; and what is corrected or revoked later leads back to every such use
\* (production_memory.py 287, 302-313).
UsesAreCurrentOrRecalled ==
  \A c \in DOMAIN commits : \A u \in commits[c].uses : \A d \in u.adopted :
    /\ commits[c].parent # 0 /\ u \notin commits[commits[c].parent].uses =>
         /\ d.lifecycle = "accepted"
         /\ \A e \in Before(c) : e.record = d.record => e.revision <= d.revision
    /\ \/ u \in Affected(c, d.record)
       \/ \A e \in commits[c].records : e.record = d.record => e.revision <= d.revision

\* The index shows the records of a commit of the branch, though it may be an old one: a retry
\* indexes the commit it finds (production_memory.py 211-218, 243-248, 262-265).
IndexShowsACommit ==
  index # None => index.commit \in 1..ref /\ index.records = commits[index.commit].records

-----------------------------------------------------------------------------
(* The branch implements the store that KnowledgeStore promises.            *)

Versions ==
  [c \in DOMAIN commits |->
     [records |-> commits[c].records, operations |-> commits[c].operations, uses |-> commits[c].uses]]

Store == INSTANCE KnowledgeStore WITH versions <- Versions, shown <- index, answered <- receipts

\* Every run of racing, retrying and dying commands is a run of a store that changes by one
\* operation at a time, each judged by the version it follows: what is new in a commit was new, next,
\* unused and current in exactly the commit before it, an operation id stands for one payload and
\* run, and the index shows one version (production_memory.py 70-82, 211-263, 292-314).
ImplementsKnowledgeStore == Store!Spec
=============================================================================
