---------------------- MODULE ProductionMemoryProofs ----------------------
(***************************************************************************)
(* Theorems about ProductionMemory, for any number of concurrent commands, *)
(* any requests, and a branch of any length.                               *)
(***************************************************************************)
EXTENDS ProductionMemory, SequenceTheorems, TLAPS

-----------------------------------------------------------------------------
(* The inductive invariant.                                                *)

\* A record has its revisions from the first to a last one, each once, and a source has one record.
Consistent(records) ==
  /\ \A d \in records : d.revision \in Nat
  /\ \A d, e \in records : SourceKey(d.payload) = SourceKey(e.payload) => d.record = e.record
  /\ \A d, e \in records : d.record = e.record /\ d.revision = e.revision => d = e
  /\ \A d \in records : \A n \in 1 .. d.revision : \E e \in records : e.record = d.record /\ e.revision = n
  /\ \A d \in records : \E last \in records :
       last.record = d.record /\ \A e \in records : e.record = d.record => e.revision <= last.revision

\* A document that may be added to records.
Fits(d, records) ==
  /\ \A e \in records : SourceKey(d.payload) = SourceKey(e.payload) => d.record = e.record
  /\ d.revision = IF d.record \in Names(records) THEN Latest(records, d.record).revision + 1 ELSE 1

\* A use that may be added to a commit.
UseFits(use, tree) ==
  \A d \in use.adopted : Usable(d, use, tree)

\* The branch is a chain: each commit follows the one before it.
BranchIsChain ==
  /\ commits \in Seq(ToSet(commits))
  /\ \A c \in DOMAIN commits :
       commits[c] \in [parent : {c - 1}, records : {commits[c].records},
                       operations : {commits[c].operations}, uses : {commits[c].uses}]
  /\ ref = Len(commits)
  /\ \A c, k \in DOMAIN commits : c <= k => commits[c].records \subseteq commits[k].records

CommitsAreConsistent == \A c \in DOMAIN commits : Consistent(commits[c].records)

\* What a commit has was added by it or by one before it.
AddedOnce ==
  \A c \in DOMAIN commits : \A d \in commits[c].records :
    \E k \in 1 .. c : d \in commits[k].records \ Before(k)

\* A use was added to a commit that had what it cites as its latest.
UsesWereCurrent ==
  \A c \in DOMAIN commits : \A u \in commits[c].uses :
    /\ \A d \in u.adopted : d.revision \in Nat
    /\ u \notin (IF c = 1 THEN {} ELSE commits[c - 1].uses) =>
         c # 1 /\ \A d \in u.adopted :
           d.lifecycle = "accepted" /\ \A e \in Before(c) : e.record = d.record => e.revision <= d.revision

\* What a command knows at each of its steps.
Stages == {"idle", "first", "observe", "result", "digest", "commit", "index", "sources", "use"}
CommandInv(p) ==
  /\ pc[p].at \in Stages
  /\ At(p, "first") => made /\ commits = <<>> /\ \A o \in Process : At(o, "first") => o = p
  /\ pc[p].at \in {"observe", "result", "digest", "commit", "use"} => pc[p].head \in DOMAIN commits
  /\ At(p, "commit") => Fits(pc[p].document, commits[pc[p].head].records)
  /\ At(p, "sources") => 1 \in DOMAIN commits
  /\ At(p, "use") => UseFits(pc[p].use, commits[pc[p].head])
  /\ At(p, "index") =>
       /\ pc[p].commit \in DOMAIN commits
       /\ pc[p].records = commits[pc[p].commit].records
       /\ pc[p].document \in commits[pc[p].commit].records \ Before(pc[p].commit)

MemoryInv ==
  /\ DOMAIN pc = Process
  /\ made = FALSE => commits = <<>>
  /\ BranchIsChain
  /\ CommitsAreConsistent
  /\ AddedOnce
  /\ UsesWereCurrent
  /\ \A p \in Process : CommandInv(p)
  /\ \A a \in receipts :
       a.commit \in DOMAIN commits /\ a.document \in commits[a.commit].records \ Before(a.commit)
  /\ IndexShowsACommit

-----------------------------------------------------------------------------
(* Records.                                                                *)

\* The latest revision of a record is there, and no later one is.
LEMMA LatestIsLast ==
  ASSUME NEW records, Consistent(records), NEW r \in Names(records)
  PROVE  /\ Latest(records, r) \in records
         /\ Latest(records, r).record = r
         /\ \A e \in records : e.record = r => e.revision <= Latest(records, r).revision
<1> DEFINE of == {d \in records : d.record = r}
<1>1. PICK d \in records : d.record = r
  BY DEF Names
<1>2. PICK last \in records :
        last.record = d.record /\ \A e \in records : e.record = d.record => e.revision <= last.revision
  BY <1>1 DEF Consistent
<1>3. last \in of /\ \A e \in of : e.revision <= last.revision
  BY <1>1, <1>2
<1>4. Latest(records, r) = CHOOSE l \in of : \A e \in of : e.revision <= l.revision
  BY DEF Latest
<1>5. Latest(records, r) \in of /\ \A e \in of : e.revision <= Latest(records, r).revision
  BY <1>3, <1>4
<1> QED
  BY <1>5

\* A document that fits leaves the records consistent.
LEMMA FittingDocument ==
  ASSUME NEW records, Consistent(records), NEW d, Fits(d, records)
  PROVE  Consistent(records \cup {d})
<1> DEFINE more == records \cup {d}
<1>1. CASE d.record \notin Names(records)
  <2>1. d.revision = 1 /\ \A e \in records : e.record # d.record
    BY <1>1 DEF Fits, Names
  <2>2. \A e \in more : e.revision \in Nat
    BY <2>1 DEF Consistent
  <2>3. \A e, f \in more : SourceKey(e.payload) = SourceKey(f.payload) => e.record = f.record
    BY DEF Consistent, Fits
  <2>4. \A e, f \in more : e.record = f.record /\ e.revision = f.revision => e = f
    BY <2>1 DEF Consistent
  <2>5. \A e \in more : \A n \in 1 .. e.revision : \E f \in more : f.record = e.record /\ f.revision = n
    BY <2>1 DEF Consistent
  <2>6. \A e \in more : \E last \in more :
          last.record = e.record /\ \A f \in more : f.record = e.record => f.revision <= last.revision
    BY <2>1 DEF Consistent
  <2> QED
    BY <2>2, <2>3, <2>4, <2>5, <2>6 DEF Consistent
<1>2. CASE d.record \in Names(records)
  <2> DEFINE last == Latest(records, d.record)
  <2>1. /\ last \in records /\ last.record = d.record /\ last.revision \in Nat
        /\ \A e \in records : e.record = d.record => e.revision <= last.revision /\ e.revision \in Nat
        /\ d.revision = last.revision + 1
    BY <1>2, LatestIsLast DEF Fits, Consistent
  <2> HIDE DEF last
  <2>2. \A e \in more : e.revision \in Nat
    BY <2>1 DEF Consistent
  <2>3. \A e, f \in more : SourceKey(e.payload) = SourceKey(f.payload) => e.record = f.record
    BY DEF Consistent, Fits
  <2>4. \A e, f \in more : e.record = f.record /\ e.revision = f.revision => e = f
    <3>1. \A e \in records : e.record = d.record => e.revision # d.revision
      BY <2>1
    <3> QED
      BY <3>1 DEF Consistent
  <2>5. \A e \in more : \A n \in 1 .. e.revision : \E f \in more : f.record = e.record /\ f.revision = n
    <3>1. \A n \in 1 .. d.revision : n = d.revision \/ n \in 1 .. last.revision
      BY <2>1
    <3>2. \A n \in 1 .. last.revision : \E f \in records : f.record = d.record /\ f.revision = n
      BY <2>1 DEF Consistent
    <3>3. \A n \in 1 .. d.revision : \E f \in more : f.record = d.record /\ f.revision = n
      BY <3>1, <3>2
    <3> QED
      BY <3>3 DEF Consistent
  <2>6. \A e \in more : \E l \in more :
          l.record = e.record /\ \A f \in more : f.record = e.record => f.revision <= l.revision
    <3>1. \A f \in more : f.record = d.record => f.revision <= d.revision
      BY <2>1
    <3>2. \A e \in records : e.record # d.record => \E l \in records :
            l.record = e.record /\ \A f \in more : f.record = e.record => f.revision <= l.revision
      BY DEF Consistent
    <3> QED
      BY <3>1, <3>2
  <2> QED
    BY <2>2, <2>3, <2>4, <2>5, <2>6 DEF Consistent
<1> QED
  BY <1>1, <1>2

-----------------------------------------------------------------------------
(* The branch.                                                             *)

LEMMA AppendedCommit ==
  ASSUME commits \in Seq(ToSet(commits)), NEW tree
  PROVE  /\ Append(commits, tree) \in Seq(ToSet(Append(commits, tree)))
         /\ Len(commits) \in Nat /\ DOMAIN commits = 1 .. Len(commits)
         /\ Len(Append(commits, tree)) = Len(commits) + 1
         /\ DOMAIN Append(commits, tree) = 1 .. (Len(commits) + 1)
         /\ \A c \in DOMAIN commits : Append(commits, tree)[c] = commits[c]
         /\ Append(commits, tree)[Len(commits) + 1] = tree
<1>1. /\ Len(commits) \in Nat /\ DOMAIN commits = 1 .. Len(commits)
      /\ Len(Append(commits, tree)) = Len(commits) + 1
      /\ DOMAIN Append(commits, tree) = 1 .. (Len(commits) + 1)
      /\ \A c \in DOMAIN commits : Append(commits, tree)[c] = commits[c]
      /\ Append(commits, tree)[Len(commits) + 1] = tree
  OBVIOUS
<1>2. ToSet(Append(commits, tree)) = ToSet(commits) \cup {tree}
  BY <1>1 DEF ToSet
<1>3. Append(commits, tree) \in Seq(ToSet(commits) \cup {tree})
  <2>1. commits \in Seq(ToSet(commits) \cup {tree})
    OBVIOUS
  <2> QED
    BY <2>1
<1> QED
  BY <1>1, <1>2, <1>3

\* A tree that may follow the branch as it is.
Extends(tree) ==
  /\ tree \in [parent : {Len(commits)}, records : {tree.records},
               operations : {tree.operations}, uses : {tree.uses}]
  /\ Len(commits) # 0 => commits[Len(commits)].records \subseteq tree.records
  /\ Consistent(tree.records)
  /\ \A u \in tree.uses :
       Len(commits) # 0 /\ (u \in commits[Len(commits)].uses \/ UseFits(u, commits[Len(commits)]))

\* The branch is kept, or a tree that may follow is put on top.
Grows == \/ UNCHANGED <<commits, ref>>
         \/ \E tree : Extends(tree) /\ commits' = Append(commits, tree) /\ ref' = Len(commits) + 1

LEMMA GrowthKeeps ==
  ASSUME BranchIsChain, Grows
  PROVE  /\ Len(commits) \in Nat /\ DOMAIN commits = 1 .. Len(commits)
         /\ DOMAIN commits \subseteq DOMAIN commits'
         /\ \A c \in DOMAIN commits : commits'[c] = commits[c] /\ Before(c)' = Before(c)
         /\ \A c \in DOMAIN commits : Before(c) = IF c = 1 THEN {} ELSE commits[c - 1].records
<1>1. commits \in Seq(ToSet(commits))
  BY DEF BranchIsChain
<1>2. /\ Len(commits) \in Nat /\ DOMAIN commits = 1 .. Len(commits)
      /\ DOMAIN commits \subseteq DOMAIN commits'
      /\ \A c \in DOMAIN commits : commits'[c] = commits[c]
  BY <1>1, AppendedCommit DEF Grows
<1>3. \A c \in DOMAIN commits : commits[c].parent = c - 1
  BY DEF BranchIsChain
<1>4. \A c \in DOMAIN commits : c - 1 = 0 \/ c - 1 \in DOMAIN commits
  BY <1>2
<1>5. \A c \in DOMAIN commits : Before(c) = IF c = 1 THEN {} ELSE commits[c - 1].records
  BY <1>2, <1>3 DEF Before
<1>6. \A c \in DOMAIN commits : Before(c)' = Before(c)
  BY <1>2, <1>3, <1>4 DEF Before
<1> QED
  BY <1>2, <1>5, <1>6

LEMMA ChainGrows ==
  ASSUME BranchIsChain, CommitsAreConsistent, AddedOnce, UsesWereCurrent, Grows
  PROVE  BranchIsChain' /\ CommitsAreConsistent' /\ AddedOnce' /\ UsesWereCurrent'
<1>1. CASE UNCHANGED <<commits, ref>>
  BY <1>1 DEF BranchIsChain, CommitsAreConsistent, AddedOnce, UsesWereCurrent, Before
<1>2. ASSUME NEW tree, Extends(tree), commits' = Append(commits, tree), ref' = Len(commits) + 1
      PROVE  BranchIsChain' /\ CommitsAreConsistent' /\ AddedOnce' /\ UsesWereCurrent'
  <2>0. PICK n : n = Len(commits)
    OBVIOUS
  <2>1. /\ n \in Nat /\ DOMAIN commits = 1 .. n
        /\ commits' \in Seq(ToSet(commits')) /\ Len(commits') = n + 1
        /\ DOMAIN commits' = 1 .. (n + 1)
        /\ \A c \in 1 .. n : commits'[c] = commits[c]
        /\ commits'[n + 1] = tree
    BY <1>2, <2>0, AppendedCommit DEF BranchIsChain
  <2>2. /\ \A c \in 1 .. n : Before(c)' = Before(c)
        /\ \A c \in 1 .. n : Before(c) = IF c = 1 THEN {} ELSE commits[c - 1].records
    BY <1>2, <2>1, GrowthKeeps DEF Grows
  <2>3. tree.parent = n /\ Before(n + 1)' = IF n = 0 THEN {} ELSE commits[n].records
    <3>1. tree.parent = n
      BY <1>2, <2>0 DEF Extends
    <3>2. n # 0 => n \in 1 .. n
      BY <2>1
    <3> QED
      BY <2>1, <3>1, <3>2 DEF Before
  <2>4. \A c \in 1 .. (n + 1) : c \in 1 .. n \/ c = n + 1
    BY <2>1
  <2>5. n # 0 => n \in 1 .. n /\ commits[n].records \subseteq tree.records
    BY <1>2, <2>0, <2>1 DEF Extends
  <2>6. BranchIsChain'
    <3>1. \A c \in 1 .. (n + 1) :
            commits'[c] \in [parent : {c - 1}, records : {commits'[c].records},
                             operations : {commits'[c].operations}, uses : {commits'[c].uses}]
      <4>1. \A c \in 1 .. n :
            commits[c] \in [parent : {c - 1}, records : {commits[c].records},
                            operations : {commits[c].operations}, uses : {commits[c].uses}]
        BY <2>1 DEF BranchIsChain
      <4>2. tree \in [parent : {(n + 1) - 1}, records : {tree.records},
                      operations : {tree.operations}, uses : {tree.uses}]
        <5>1. (n + 1) - 1 = n
          BY <2>1
        <5>2. tree \in [parent : {n}, records : {tree.records}, operations : {tree.operations}, uses : {tree.uses}]
          BY <1>2, <2>0 DEF Extends
        <5> QED
          BY <5>1, <5>2
      <4> QED
        BY <2>1, <2>4, <4>1, <4>2
    <3>2. \A c, k \in 1 .. (n + 1) : c <= k => commits'[c].records \subseteq commits'[k].records
      <4>1. \A c, k \in 1 .. n : c <= k => commits[c].records \subseteq commits[k].records
        BY <2>1 DEF BranchIsChain
      <4>2. \A c \in 1 .. n : c <= n /\ n # 0 /\ n \in 1 .. n
        BY <2>1
      <4>3. \A c \in 1 .. n : commits[c].records \subseteq tree.records
        BY <4>1, <4>2, <2>5
      <4>4. \A c \in 1 .. n : ~(n + 1 <= c)
        BY <2>1
      <4> QED
        BY <2>1, <2>4, <4>1, <4>3, <4>4
    <3> QED
      BY <1>2, <2>0, <2>1, <3>1, <3>2 DEF BranchIsChain
  <2>7. CommitsAreConsistent'
    BY <1>2, <2>1, <2>4 DEF CommitsAreConsistent, Extends
  <2>8. AddedOnce'
    <3>1. \A c \in 1 .. n : \A d \in commits[c].records : \E k \in 1 .. c : d \in commits[k].records \ Before(k)
      BY <2>1 DEF AddedOnce
    <3>2. \A c \in 1 .. n : \A k \in 1 .. c : k \in 1 .. n
      BY <2>1
    <3>3. ASSUME NEW d \in tree.records
          PROVE  \E k \in 1 .. (n + 1) : d \in commits'[k].records \ Before(k)'
      <4>1. CASE n # 0 /\ d \in commits[n].records
        <5>1. PICK k \in 1 .. n : d \in commits[k].records \ Before(k)
          BY <2>5, <3>1, <4>1
        <5>2. k \in 1 .. (n + 1)
          BY <2>1, <5>1
        <5> QED
          BY <2>1, <2>2, <5>1, <5>2
      <4>2. CASE ~(n # 0 /\ d \in commits[n].records)
        <5>1. d \notin Before(n + 1)' /\ n + 1 \in 1 .. (n + 1)
          BY <2>1, <2>3, <4>2
        <5> QED
          BY <2>1, <3>3, <5>1
      <4> QED
        BY <4>1, <4>2
    <3> QED
      BY <2>1, <2>2, <2>4, <3>1, <3>2, <3>3 DEF AddedOnce
  <2>9. UsesWereCurrent'
    <3>1. ASSUME NEW u \in tree.uses
          PROVE  /\ \A d \in u.adopted : d.revision \in Nat
                 /\ u \notin (IF n = 0 THEN {} ELSE commits[n].uses) =>
                      n # 0 /\ \A d \in u.adopted :
                        d.lifecycle = "accepted"
                        /\ \A e \in commits[n].records : e.record = d.record => e.revision <= d.revision
      <4>1. n # 0 /\ (u \in commits[n].uses \/ UseFits(u, commits[n]))
        BY <1>2, <2>0, <3>1 DEF Extends
      <4>2. n \in DOMAIN commits
        BY <2>1, <2>5, <4>1
      <4>3. CASE u \in commits[n].uses
        BY <4>1, <4>2, <4>3 DEF UsesWereCurrent
      <4>4. CASE UseFits(u, commits[n])
        <5>1. Consistent(commits[n].records)
          BY <4>2 DEF CommitsAreConsistent
        <5>2. \A d \in u.adopted :
                /\ d.revision \in Nat /\ d.lifecycle = "accepted"
                /\ \A e \in commits[n].records : e.record = d.record => e.revision <= d.revision
          <6> TAKE d \in u.adopted
          <6>1. /\ d.record \in Names(commits[n].records)
                /\ d = Latest(commits[n].records, d.record) /\ d.lifecycle = "accepted"
            BY <4>4 DEF UseFits, Usable
          <6>2. /\ d \in commits[n].records
                /\ \A e \in commits[n].records : e.record = d.record => e.revision <= d.revision
            BY <5>1, <6>1, LatestIsLast
          <6> QED
            BY <5>1, <6>1, <6>2 DEF Consistent
        <5> QED
          BY <4>1, <5>2
      <4> QED
        BY <4>1, <4>3, <4>4
    <3>2. \A c \in 1 .. n : c = 1 \/ c - 1 \in 1 .. n
      BY <2>1
    <3>3. (n + 1) - 1 = n /\ (n + 1 = 1 <=> n = 0)
      BY <2>1
    <3>4. ASSUME NEW c \in 1 .. n, NEW u \in commits'[c].uses
          PROVE  /\ \A d \in u.adopted : d.revision \in Nat
                 /\ u \notin (IF c = 1 THEN {} ELSE commits'[c - 1].uses) =>
                      c # 1 /\ \A d \in u.adopted :
                        d.lifecycle = "accepted" /\ \A e \in Before(c)' : e.record = d.record => e.revision <= d.revision
      BY <2>1, <2>2, <3>2, <3>4 DEF UsesWereCurrent
    <3>5. ASSUME NEW u \in commits'[n + 1].uses
          PROVE  /\ \A d \in u.adopted : d.revision \in Nat
                 /\ u \notin (IF n + 1 = 1 THEN {} ELSE commits'[(n + 1) - 1].uses) =>
                      n + 1 # 1 /\ \A d \in u.adopted :
                        d.lifecycle = "accepted"
                        /\ \A e \in Before(n + 1)' : e.record = d.record => e.revision <= d.revision
      BY <2>1, <2>3, <2>5, <3>1, <3>3, <3>5
    <3> QED
      BY <2>1, <2>4, <3>4, <3>5 DEF UsesWereCurrent
  <2> QED
    BY <2>6, <2>7, <2>8, <2>9
<1> QED
  BY <1>1, <1>2 DEF Grows

-----------------------------------------------------------------------------
(* The steps of a command.                                                 *)

\* A document that fits is not there yet.
LEMMA FittingIsNew ==
  ASSUME NEW records, Consistent(records), NEW d, Fits(d, records)
  PROVE  d \notin records
<1>1. CASE d.record \notin Names(records)
  BY <1>1 DEF Names
<1>2. CASE d.record \in Names(records)
  <2>1. /\ Latest(records, d.record) \in records
        /\ \A e \in records : e.record = d.record => e.revision <= Latest(records, d.record).revision
    BY <1>2, LatestIsLast
  <2>2. Latest(records, d.record).revision \in Nat
    BY <2>1 DEF Consistent
  <2>3. d.revision = Latest(records, d.record).revision + 1
    BY <1>2 DEF Fits
  <2> QED
    BY <2>1, <2>2, <2>3
<1> QED
  BY <1>1, <1>2

\* A command that does not move knows what it knew, also when the branch grows.
LEMMA WaitingCommand ==
  ASSUME MemoryInv, Grows, NEW p \in Process, pc'[p] = pc[p],
         At(p, "first") => UNCHANGED <<made, commits>> /\ \A o \in Process : o # p => pc'[o].at # "first"
  PROVE  CommandInv(p)'
<1>1. CommandInv(p)
  BY DEF MemoryInv
<1>2. /\ DOMAIN commits \subseteq DOMAIN commits'
      /\ \A c \in DOMAIN commits : commits'[c] = commits[c] /\ Before(c)' = Before(c)
  BY GrowthKeeps DEF MemoryInv
<1>3. pc'[p].at \in Stages
  BY <1>1 DEF CommandInv, Stages
<1>4. At(p, "first")' => made' /\ commits' = <<>> /\ \A o \in Process : At(o, "first")' => o = p
  BY <1>1 DEF CommandInv, At
<1>5. /\ pc'[p].at \in {"observe", "result", "digest", "commit", "use"} => pc'[p].head \in DOMAIN commits'
      /\ At(p, "commit")' => Fits(pc'[p].document, commits'[pc'[p].head].records)
      /\ At(p, "sources")' => 1 \in DOMAIN commits'
      /\ At(p, "use")' => UseFits(pc'[p].use, commits'[pc'[p].head])
  BY <1>1, <1>2 DEF CommandInv, At
<1>6. At(p, "index") =>
        /\ pc[p].commit \in DOMAIN commits
        /\ pc[p].records = commits[pc[p].commit].records
        /\ pc[p].document \in commits[pc[p].commit].records \ Before(pc[p].commit)
  BY <1>1 DEF CommandInv
<1>7. At(p, "index")' =>
        /\ pc'[p].commit \in DOMAIN commits'
        /\ pc'[p].records = commits'[pc'[p].commit].records
        /\ pc'[p].document \in (commits[pc[p].commit].records \ Before(pc[p].commit))'
  <2>1. PICK c : c = pc[p].commit
    OBVIOUS
  <2>2. (Before(pc[p].commit))' = Before(c)'
    BY <2>1 DEF Before
  <2> QED
    BY <1>2, <1>6, <2>1, <2>2 DEF At
<1> QED
  BY <1>3, <1>4, <1>5, <1>7 DEF CommandInv

\* One command moves, and the branch may grow.
LEMMA CommandMoves ==
  ASSUME MemoryInv, Grows, NEW p \in Process, NEW to, pc' = [pc EXCEPT ![p] = to],
         CommandInv(p)',
         to.at = "first" \/ made' # made \/ commits' # commits => \A o \in Process : o # p => ~At(o, "first"),
         made' = FALSE => commits' = <<>>,
         \A a \in receipts' : a \notin receipts =>
           a.commit \in DOMAIN commits' /\ a.document \in commits'[a.commit].records \ Before(a.commit)',
         \/ index' = index
         \/ index'.commit \in DOMAIN commits' /\ index'.records = commits'[index'.commit].records
  PROVE  MemoryInv'
<1>1. DOMAIN pc' = Process /\ pc'[p] = to /\ \A o \in Process : o # p => pc'[o] = pc[o]
  BY DEF MemoryInv
<1>2. \A o \in Process : CommandInv(o)'
  <2> SUFFICES ASSUME NEW o \in Process, o # p
               PROVE  CommandInv(o)'
    OBVIOUS
  <2>1. CommandInv(o)
    BY DEF MemoryInv
  <2>2. At(o, "first") => UNCHANGED <<made, commits>> /\ to.at # "first"
    OBVIOUS
  <2>3. At(o, "first") => \A e \in Process : e # o => pc'[e].at # "first"
    BY <1>1, <2>1, <2>2 DEF CommandInv, At
  <2> QED
    BY <1>1, <2>2, <2>3, WaitingCommand
<1>3. BranchIsChain' /\ CommitsAreConsistent' /\ AddedOnce' /\ UsesWereCurrent'
  BY ChainGrows DEF MemoryInv
<1>4. /\ DOMAIN commits \subseteq DOMAIN commits'
      /\ \A c \in DOMAIN commits : commits'[c] = commits[c] /\ Before(c)' = Before(c)
  BY GrowthKeeps DEF MemoryInv
<1>5. \A a \in receipts' :
        a.commit \in DOMAIN commits' /\ a.document \in commits'[a.commit].records \ Before(a.commit)'
  BY <1>4 DEF MemoryInv
<1>6. DOMAIN commits = 1 .. ref /\ DOMAIN commits' = 1 .. ref'
  BY <1>3 DEF MemoryInv, BranchIsChain
<1>7. IndexShowsACommit'
  BY <1>4, <1>6 DEF MemoryInv, IndexShowsACommit
<1> QED
  BY <1>1, <1>2, <1>3, <1>5, <1>7 DEF MemoryInv

\* A command that ends.
LEMMA CommandEnds ==
  ASSUME MemoryInv, Grows, NEW p \in Process, Go(p, Idle),
         made' # made \/ commits' # commits => \A o \in Process : o # p => ~At(o, "first"),
         made' = FALSE => commits' = <<>>,
         UNCHANGED <<index, receipts>>
  PROVE  MemoryInv'
<1>1. pc'[p] = Idle /\ Idle.at = "idle"
  BY DEF Go, MemoryInv, Idle
<1>2. CommandInv(p)'
  BY <1>1 DEF CommandInv, At, Stages
<1> QED
  BY <1>1, <1>2, CommandMoves DEF Go

-----------------------------------------------------------------------------
(* Every step keeps the invariant.                                         *)

LEMMA MakeStoreStep ==
  ASSUME MemoryInv, NEW p \in Process, MakeStore(p)
  PROVE  MemoryInv'
<1>1. Grows
  BY DEF MakeStore, Grows
<1>2. made = FALSE /\ commits = <<>> /\ UNCHANGED <<commits, index, receipts>>
  <2>1. \A a \in receipts : a.commit \in DOMAIN commits
    BY DEF MemoryInv
  <2> QED
    BY DEF MakeStore, MemoryInv
<1>3. \A o \in Process : ~At(o, "first")
  BY <1>2 DEF MemoryInv, CommandInv
<1>4. pc' = [pc EXCEPT ![p] = [at |-> "first"]] /\ made' = TRUE
  BY DEF MakeStore, Go
<1>5. /\ pc'[p] = [at |-> "first"]
      /\ \A o \in Process : o # p => pc'[o] = pc[o]
  BY <1>4 DEF MemoryInv
<1>6. CommandInv(p)'
  BY <1>2, <1>3, <1>4, <1>5 DEF CommandInv, At, Stages
<1> QED
  BY <1>1, <1>2, <1>3, <1>4, <1>6, CommandMoves

LEMMA FirstCommitStep ==
  ASSUME MemoryInv, NEW p \in Process, FirstCommit(p)
  PROVE  MemoryInv'
<1> DEFINE tree == [parent |-> 0, records |-> {}, operations |-> {}, uses |-> {}]
<1>1. made /\ commits = <<>> /\ \A o \in Process : At(o, "first") => o = p
  BY DEF FirstCommit, MemoryInv, CommandInv
<1>2. commits' = <<tree>> /\ ref' = 1 /\ Go(p, Idle) /\ UNCHANGED <<made, index, receipts>>
  BY DEF FirstCommit
<1>3. Len(commits) = 0 /\ commits' = Append(commits, tree) /\ ref' = Len(commits) + 1
  BY <1>1, <1>2
<1>4. Extends(tree)
  <2>1. Consistent(tree.records)
    BY DEF Consistent
  <2> QED
    BY <1>3, <2>1 DEF Extends
<1>5. Grows
  BY <1>3, <1>4 DEF Grows
<1>6. made' = FALSE => commits' = <<>>
  BY <1>1, <1>2
<1> QED
  BY <1>1, <1>2, <1>5, <1>6, CommandEnds

\* A command that goes on from a step that leaves the store alone.
LEMMA QuietMove ==
  ASSUME MemoryInv, NEW p \in Process, NEW to, pc' = [pc EXCEPT ![p] = to],
         to.at \in Stages \ {"first"}, UNCHANGED <<store, index, receipts>>,
         to.at \in {"observe", "result", "digest", "commit", "use"} => to.head \in DOMAIN commits,
         to.at = "commit" => Fits(to.document, commits[to.head].records),
         to.at = "sources" => 1 \in DOMAIN commits,
         to.at = "use" => UseFits(to.use, commits[to.head]),
         to.at = "index" =>
           /\ to.commit \in DOMAIN commits /\ to.records = commits[to.commit].records
           /\ to.document \in commits[to.commit].records \ Before(to.commit)
  PROVE  MemoryInv'
<1>1. Grows /\ UNCHANGED <<made, commits, ref>>
  BY DEF store, Grows
<1>2. pc'[p] = to /\ to.at # "first"
  BY DEF MemoryInv
<1>3. At(p, "index")' => pc'[p].document \in (commits[pc[p].commit].records \ Before(pc[p].commit))'
  BY <1>1, <1>2 DEF At, Before
<1>4. CommandInv(p)'
  BY <1>1, <1>2, <1>3 DEF CommandInv, At
<1>5. made' = FALSE => commits' = <<>>
  BY <1>1 DEF MemoryInv
<1> QED
  BY <1>1, <1>2, <1>4, <1>5, CommandMoves

LEMMA QuietEnd ==
  ASSUME MemoryInv, NEW p \in Process, Go(p, Idle), UNCHANGED <<store, index, receipts>>
  PROVE  MemoryInv'
<1>1. Idle.at = "idle"
  BY DEF Idle
<1> QED
  BY <1>1, QuietMove DEF Go, Stages

LEMMA IngestStep ==
  ASSUME MemoryInv, NEW p \in Process, NEW q \in Request, Ingest(p, q)
  PROVE  MemoryInv'
<1> DEFINE to == [at |-> "observe", request |-> q, head |-> ref]
<1>1. ref \in DOMAIN commits
  BY DEF Ingest, MemoryInv, BranchIsChain
<1>2. pc' = [pc EXCEPT ![p] = to] /\ UNCHANGED <<store, index, receipts>>
  BY DEF Ingest, Go
<1>3. to.at = "observe" /\ to.head = ref
  OBVIOUS
<1> HIDE DEF to
<1> QED
  BY <1>1, <1>2, <1>3, QuietMove DEF Stages

LEMMA ObserveStep ==
  ASSUME MemoryInv, NEW p \in Process, Observe(p)
  PROVE  MemoryInv'
<1>1. pc[p].head \in DOMAIN commits /\ UNCHANGED <<store, index, receipts>>
  BY DEF Observe, MemoryInv, CommandInv, At
<1>2. CASE Go(p, Idle)
  BY <1>1, <1>2, QuietEnd
<1>3. ASSUME NEW found,
             Go(p, [at |-> "result", request |-> pc[p].request, head |-> pc[p].head, found |-> found])
      PROVE  MemoryInv'
  <2> DEFINE to == [at |-> "result", request |-> pc[p].request, head |-> pc[p].head, found |-> found]
  <2>1. to.at = "result" /\ to.head = pc[p].head /\ pc' = [pc EXCEPT ![p] = to]
    BY <1>3 DEF Go
  <2> HIDE DEF to
  <2> QED
    BY <1>1, <2>1, QuietMove DEF Stages
<1> QED
  BY <1>2, <1>3 DEF Observe

LEMMA SeeResultStep ==
  ASSUME MemoryInv, NEW p \in Process, SeeResult(p)
  PROVE  MemoryInv'
<1>1. pc[p].head \in DOMAIN commits /\ UNCHANGED <<store, index, receipts>>
  BY DEF SeeResult, MemoryInv, CommandInv, At
<1>2. CASE Go(p, Idle)
  BY <1>1, <1>2, QuietEnd
<1> DEFINE to == [at |-> "digest", request |-> pc[p].request, head |-> pc[p].head,
                  found |-> pc[p].found, result |-> result]
<1>3. CASE Go(p, to)
  <2>1. to.at = "digest" /\ to.head = pc[p].head /\ pc' = [pc EXCEPT ![p] = to]
    BY <1>3 DEF Go
  <2> HIDE DEF to
  <2> QED
    BY <1>1, <2>1, QuietMove DEF Stages
<1> QED
  BY <1>2, <1>3 DEF SeeResult

\* What is decided on: the commit of a document that is there, or a document that fits.
LEMMA DecideStep ==
  ASSUME MemoryInv, NEW p \in Process, Decide(p)
  PROVE  MemoryInv'
<1> DEFINE q == pc[p].request
           head == pc[p].head
           tree == commits[head]
           payload == Payload(pc[p])
           document == Document(payload)
           first == Original(document, head)
<1>1. head \in DOMAIN commits /\ UNCHANGED <<store, index, receipts>>
  BY DEF Decide, MemoryInv, CommandInv, At
<1>2. /\ document.record = q.record /\ document.revision = q.revision /\ document.payload = payload
      /\ payload.request.record = q.record /\ payload.request.revision = q.revision
  BY DEF Document, Payload
<1>3. CASE Go(p, Idle)
  BY <1>1, <1>3, QuietEnd
<1>4. CASE Existing(payload, tree) = {document} /\ Go(p, Indexing(document, first, Indexed(first, head)))
  <2> DEFINE to == Indexing(document, first, Indexed(first, head))
  <2>1. document \in tree.records
    BY <1>4 DEF Existing
  <2>2. \E k \in 1 .. head : document \in commits[k].records \ Before(k)
    BY <1>1, <2>1 DEF MemoryInv, AddedOnce
  <2>3. first \in 1 .. head /\ document \in commits[first].records \ Before(first)
    BY <2>2 DEF Original
  <2>4. first \in DOMAIN commits
    BY <1>1, <2>3 DEF MemoryInv, BranchIsChain
  <2>5. /\ to.at = "index" /\ to.document = document /\ to.commit = first
        /\ to.records = commits[first].records /\ pc' = [pc EXCEPT ![p] = to]
    BY <1>4 DEF Indexing, Indexed, Go
  <2> HIDE DEF to, first, document
  <2> QED
    BY <1>1, <2>3, <2>4, <2>5, QuietMove DEF Stages
<1>5. ASSUME NEW operation, Duplicates(payload, tree) = {}, Follows(q, tree),
             Go(p, [at |-> "commit", head |-> head, document |-> document, operation |-> operation])
      PROVE  MemoryInv'
  <2> DEFINE to == [at |-> "commit", head |-> head, document |-> document, operation |-> operation]
  <2>1. Fits(document, tree.records)
    <3>1. \A e \in tree.records : SourceKey(payload) = SourceKey(e.payload) => e.record = q.record
      BY <1>2, <1>5 DEF Duplicates
    <3>2. q.revision = IF q.record \in Names(tree.records) THEN Latest(tree.records, q.record).revision + 1 ELSE 1
      BY <1>5 DEF Follows
    <3> HIDE DEF document, payload, q
    <3> QED
      BY <1>2, <3>1, <3>2 DEF Fits
  <2>2. to.at = "commit" /\ to.head = head /\ to.document = document /\ pc' = [pc EXCEPT ![p] = to]
    BY <1>5 DEF Go
  <2> HIDE DEF to, document
  <2> QED
    BY <1>1, <2>1, <2>2, QuietMove DEF Stages
<1> QED
  BY <1>3, <1>4, <1>5 DEF Decide

\* The swap: the branch is where the command read it, or the command ends.
LEMMA CommitRecordStep ==
  ASSUME MemoryInv, NEW p \in Process, CommitRecord(p)
  PROVE  MemoryInv'
<1>1. PICK base : base = commits[pc[p].head]
  OBVIOUS
<1>2. PICK document : document = pc[p].document
  OBVIOUS
<1>3. PICK n : n = Len(commits)
  OBVIOUS
<1> DEFINE records == base.records \cup {document}
           tree == [base EXCEPT !.parent = pc[p].head, !.records = records, !.operations = @ \cup {pc[p].operation}]
<1>4. /\ pc[p].head \in DOMAIN commits /\ Fits(document, base.records) /\ Consistent(base.records)
      /\ UNCHANGED <<made, index, receipts>>
  BY <1>1, <1>2 DEF CommitRecord, Commit, MemoryInv, CommandInv, At, CommitsAreConsistent
<1>5. CASE Go(p, Idle) /\ UNCHANGED <<commits, ref>>
  BY <1>4, <1>5, QuietEnd DEF store
<1>6. CASE /\ ref = pc[p].head /\ commits' = Append(commits, tree) /\ ref' = Len(commits) + 1
           /\ Go(p, Indexing(document, n + 1, records))
  <2>1. n = pc[p].head /\ n \in DOMAIN commits /\ n \in Nat /\ n # 0 /\ ref = n
    BY <1>3, <1>4, <1>6, AppendedCommit DEF MemoryInv, BranchIsChain
  <2>2. base \in [parent : {n - 1}, records : {base.records}, operations : {base.operations}, uses : {base.uses}]
    BY <1>1, <2>1 DEF MemoryInv, BranchIsChain
  <2>3. /\ tree \in [parent : {n}, records : {tree.records}, operations : {tree.operations}, uses : {tree.uses}]
        /\ tree.parent = n /\ tree.records = records /\ tree.uses = base.uses
    BY <2>1, <2>2
  <2>4. Extends(tree)
    <3>1. Consistent(records)
      BY <1>4, FittingDocument
    <3> HIDE DEF tree
    <3> QED
      BY <1>1, <1>3, <2>1, <2>3, <3>1 DEF Extends
  <2> HIDE DEF tree
  <2>5. Grows
    BY <1>6, <2>4 DEF Grows
  <2>6. /\ n + 1 \in DOMAIN commits' /\ commits'[n + 1] = tree /\ commits'[n] = base
        /\ commits' # <<>>
    <3>1. commits \in Seq(ToSet(commits)) /\ commits' = Append(commits, tree) /\ commits[n] = base
      BY <1>1, <1>6, <2>1 DEF MemoryInv, BranchIsChain
    <3>2. /\ DOMAIN commits' = 1 .. (n + 1) /\ commits'[n + 1] = tree
          /\ \A c \in DOMAIN commits : commits'[c] = commits[c]
      BY <1>3, <3>1, AppendedCommit
    <3>3. n + 1 \in 1 .. (n + 1) /\ commits'[n] = base
      BY <2>1, <3>1, <3>2
    <3> QED
      BY <3>2, <3>3
  <2>7. Before(n + 1)' = base.records
    BY <2>1, <2>3, <2>6 DEF Before
  <2>8. document \in records \ base.records
    BY <1>4, FittingIsNew
  <2> DEFINE to == Indexing(document, n + 1, records)
  <2>9. /\ to.at = "index" /\ to.document = document /\ to.commit = n + 1 /\ to.records = records
        /\ pc' = [pc EXCEPT ![p] = to] /\ pc'[p] = to
    BY <1>6 DEF Indexing, Go, MemoryInv
  <2> HIDE DEF to, records
  <2>10. pc'[p].document \in (commits[pc[p].commit].records \ Before(pc[p].commit))'
    <3>1. Before(pc[p].commit)' = base.records
      BY <2>7, <2>9 DEF Before
    <3> QED
      BY <2>3, <2>6, <2>8, <2>9, <3>1
  <2>11. CommandInv(p)'
    BY <2>3, <2>6, <2>9, <2>10 DEF CommandInv, At, Stages
  <2>12. \A o \in Process : ~At(o, "first")
    BY <2>1 DEF MemoryInv, CommandInv
  <2>13. made' = FALSE => commits' = <<>>
    BY <1>4, <2>1 DEF MemoryInv
  <2> QED
    BY <1>4, <2>5, <2>9, <2>11, <2>12, <2>13, CommandMoves
<1> QED
  BY <1>1, <1>2, <1>3, <1>5, <1>6 DEF CommitRecord, Commit, Unmoved

LEMMA ReindexStep ==
  ASSUME MemoryInv, NEW p \in Process, Reindex(p)
  PROVE  MemoryInv'
<1>1. /\ pc[p].commit \in DOMAIN commits
      /\ pc[p].records = commits[pc[p].commit].records
      /\ pc[p].document \in commits[pc[p].commit].records \ Before(pc[p].commit)
  BY DEF Reindex, MemoryInv, CommandInv
<1>2. Grows /\ UNCHANGED <<made, commits, ref>> /\ pc' = [pc EXCEPT ![p] = Idle]
  BY DEF Reindex, store, Grows, Go
<1>3. /\ index' \in {index, [commit |-> pc[p].commit, records |-> pc[p].records]}
      /\ receipts' = receipts \cup {[document |-> pc[p].document, commit |-> pc[p].commit]}
  BY DEF Reindex
<1>4. \A c : Before(c)' = Before(c)
  BY <1>2 DEF Before
<1>5. \A a \in receipts' : a \notin receipts =>
        a.commit \in DOMAIN commits' /\ a.document \in commits'[a.commit].records \ Before(a.commit)'
  BY <1>1, <1>2, <1>3, <1>4
<1>6. \/ index' = index
      \/ index'.commit \in DOMAIN commits' /\ index'.records = commits'[index'.commit].records
  BY <1>1, <1>2, <1>3
<1>7. CommandInv(p)' /\ Idle.at = "idle"
  BY <1>2 DEF CommandInv, At, Stages, Idle, MemoryInv
<1>8. made' = FALSE => commits' = <<>>
  BY <1>2 DEF MemoryInv
<1> QED
  BY <1>2, <1>5, <1>6, <1>7, <1>8, CommandMoves

LEMMA RememberUseStep ==
  ASSUME MemoryInv, NEW p \in Process, NEW snapshot, NEW selected, RememberUse(p, snapshot, selected)
  PROVE  MemoryInv'
<1> DEFINE to == [at |-> "sources", use |-> BuildPlan(snapshot, selected)]
<1>1. to.at = "sources" /\ pc' = [pc EXCEPT ![p] = to] /\ UNCHANGED <<store, index, receipts>>
  BY DEF RememberUse, Go
<1>2. 1 \in DOMAIN commits
  BY DEF RememberUse, MemoryInv, BranchIsChain
<1> HIDE DEF to
<1> QED
  BY <1>1, <1>2, QuietMove DEF Stages

LEMMA CheckSourcesStep ==
  ASSUME MemoryInv, NEW p \in Process, CheckSources(p)
  PROVE  MemoryInv'
<1>1. UNCHANGED <<store, index, receipts>>
  BY DEF CheckSources
<1>2. CASE Go(p, Idle)
  BY <1>1, <1>2, QuietEnd
<1> DEFINE to == [at |-> "use", use |-> pc[p].use, head |-> ref]
<1>3. CASE (\A d \in pc[p].use.adopted : Usable(d, pc[p].use, commits[ref])) /\ Go(p, to)
  <2>1. to.at = "use" /\ to.use = pc[p].use /\ to.head = ref /\ pc' = [pc EXCEPT ![p] = to]
    BY <1>3 DEF Go
  <2>2. UseFits(to.use, commits[ref])
    BY <1>3 DEF UseFits
  <2>3. ref \in DOMAIN commits
    BY DEF CheckSources, MemoryInv, CommandInv, BranchIsChain
  <2> HIDE DEF to
  <2> QED
    BY <1>1, <2>1, <2>2, <2>3, QuietMove DEF Stages
<1> QED
  BY <1>2, <1>3 DEF CheckSources

LEMMA CommitUseStep ==
  ASSUME MemoryInv, NEW p \in Process, CommitUse(p)
  PROVE  MemoryInv'
<1>1. PICK base : base = commits[pc[p].head]
  OBVIOUS
<1>2. PICK use : use = pc[p].use
  OBVIOUS
<1>3. PICK n : n = Len(commits)
  OBVIOUS
<1> DEFINE tree == [base EXCEPT !.parent = pc[p].head, !.uses = @ \cup {use}]
<1>4. /\ pc[p].head \in DOMAIN commits /\ UseFits(use, base) /\ Consistent(base.records)
      /\ UNCHANGED <<made, index, receipts>>
  BY <1>1, <1>2 DEF CommitUse, Commit, MemoryInv, CommandInv, At, CommitsAreConsistent
<1>5. CASE Go(p, Idle) /\ UNCHANGED <<commits, ref>>
  BY <1>4, <1>5, QuietEnd DEF store
<1>6. CASE ref = pc[p].head /\ commits' = Append(commits, tree) /\ ref' = Len(commits) + 1 /\ Go(p, Idle)
  <2>1. n = pc[p].head /\ n \in DOMAIN commits /\ n # 0 /\ commits[n] = base
    BY <1>1, <1>3, <1>4, <1>6, AppendedCommit DEF MemoryInv, BranchIsChain
  <2>2. base \in [parent : {n - 1}, records : {base.records}, operations : {base.operations}, uses : {base.uses}]
    BY <2>1 DEF MemoryInv, BranchIsChain
  <2>3. /\ tree \in [parent : {n}, records : {tree.records}, operations : {tree.operations}, uses : {tree.uses}]
        /\ tree.records = base.records /\ tree.uses = base.uses \cup {use}
    BY <2>1, <2>2
  <2> HIDE DEF tree
  <2>4. Extends(tree)
    BY <1>3, <1>4, <2>1, <2>3 DEF Extends
  <2>5. Grows
    BY <1>6, <2>4 DEF Grows
  <2>6. \A o \in Process : ~At(o, "first")
    BY <2>1 DEF MemoryInv, CommandInv
  <2>7. made' = FALSE => commits' = <<>>
    BY <1>4, <2>1 DEF MemoryInv
  <2> QED
    BY <1>4, <1>6, <2>5, <2>6, <2>7, CommandEnds
<1> QED
  BY <1>1, <1>2, <1>5, <1>6 DEF CommitUse, Commit, Unmoved

\* The invariant is about the store, the commands, the index and the answers.
LEMMA OutsideStep ==
  ASSUME MemoryInv, UNCHANGED <<store, index, pc, receipts>>
  PROVE  MemoryInv'
<1>1. \A c : Before(c)' = Before(c)
  BY DEF Before, store
<1>2. BranchIsChain' /\ CommitsAreConsistent' /\ AddedOnce' /\ UsesWereCurrent'
  BY ChainGrows DEF MemoryInv, Grows, store
<1>3. ASSUME NEW p \in Process
      PROVE  CommandInv(p)'
  <2>1. At(p, "first") => \A o \in Process : o # p => pc'[o].at # "first"
    BY DEF MemoryInv, CommandInv, At
  <2> QED
    BY <2>1, WaitingCommand DEF Grows, store
<1>4. IndexShowsACommit'
  BY DEF MemoryInv, IndexShowsACommit, store
<1>5. \A a \in receipts' :
        a.commit \in DOMAIN commits' /\ a.document \in commits'[a.commit].records \ Before(a.commit)'
  BY <1>1 DEF MemoryInv, store
<1>6. DOMAIN pc' = Process /\ (made' = FALSE => commits' = <<>>)
  BY DEF MemoryInv, store
<1> QED
  BY <1>2, <1>3, <1>4, <1>5, <1>6 DEF MemoryInv

LEMMA MemoryInit ==
  ASSUME Init
  PROVE  MemoryInv
<1>1. /\ made = FALSE /\ commits = <<>> /\ ref = 0 /\ index = None /\ receipts = {}
      /\ pc = [p \in Process |-> Idle] /\ DOMAIN commits = {} /\ Len(commits) = 0
  BY DEF Init
<1>2. commits \in Seq(ToSet(commits))
  BY <1>1
<1>3. BranchIsChain /\ CommitsAreConsistent /\ AddedOnce /\ UsesWereCurrent /\ IndexShowsACommit
  BY <1>1, <1>2 DEF BranchIsChain, CommitsAreConsistent, AddedOnce, UsesWereCurrent, IndexShowsACommit
<1>4. \A p \in Process : CommandInv(p)
  BY <1>1 DEF CommandInv, At, Stages, Idle
<1> QED
  BY <1>1, <1>3, <1>4 DEF MemoryInv

LEMMA MemoryStep ==
  ASSUME MemoryInv, [Next]_vars
  PROVE  MemoryInv'
<1>1. ASSUME NEW p \in Process, Die(p)
      PROVE  MemoryInv'
  BY <1>1, QuietEnd DEF Die
<1>2. ASSUME NEW id, NEW status, NEW content, RecordObservation(id, status, content)
      PROVE  MemoryInv'
  BY <1>2, OutsideStep DEF RecordObservation
<1>3. CASE BuildResult
  BY <1>3, OutsideStep DEF BuildResult
<1>4. CASE UNCHANGED vars
  BY <1>4, OutsideStep DEF vars
<1> QED
  BY <1>1, <1>2, <1>3, <1>4, MakeStoreStep, FirstCommitStep, IngestStep, ObserveStep, SeeResultStep,
     DecideStep, CommitRecordStep, ReindexStep, RememberUseStep, CheckSourcesStep, CommitUseStep
     DEF Next

-----------------------------------------------------------------------------
(* What follows.                                                           *)

\* The branch stays a chain of consistent commits, and every command knows what its steps rely on
\* (production_memory.py 58-90, 180-265, 268-320).
THEOREM MemoryInductive == Spec => []MemoryInv
<1> QED
  BY MemoryInit, MemoryStep, PTL DEF Spec

\* What an ingest answered for is in the branch from the commit of the answer on, for any number of
\* commands (production_memory.py 70-82, 243-261).
THEOREM AnswersStayKnown == Spec => []AnsweredKnowledgeIsKept
<1>1. MemoryInv => AnsweredKnowledgeIsKept
  <2> SUFFICES ASSUME MemoryInv, NEW a \in receipts
               PROVE  /\ a.document \in commits[ref].records
                      /\ a.document \in commits[a.commit].records \ Before(a.commit)
    BY DEF AnsweredKnowledgeIsKept
  <2>1. a.commit \in DOMAIN commits /\ a.document \in commits[a.commit].records \ Before(a.commit)
    BY DEF MemoryInv
  <2>2. ref \in DOMAIN commits /\ a.commit <= ref
    BY <2>1 DEF MemoryInv, BranchIsChain
  <2>3. commits[a.commit].records \subseteq commits[ref].records
    BY <2>1, <2>2 DEF MemoryInv, BranchIsChain
  <2> QED
    BY <2>1, <2>3
<1> QED
  BY <1>1, MemoryInductive, PTL

\* The branch has one record for a source and all its revisions, each once, for any requests at the
\* same time (production_memory.py 191-203, 237-256).
THEOREM SourcesAreRecordedOnce == Spec => []OneRecordPerSource
<1>1. MemoryInv => OneRecordPerSource
  <2> SUFFICES ASSUME MemoryInv, ref # 0
               PROVE  OneRecordPerSource
    BY DEF OneRecordPerSource
  <2>1. Consistent(commits[ref].records)
    BY DEF MemoryInv, BranchIsChain, CommitsAreConsistent
  <2>2. \A d, e : d.payload.request.phase = e.payload.request.phase
                    /\ d.payload.result = e.payload.result /\ d.payload.observations = e.payload.observations
                  => SourceKey(d.payload) = SourceKey(e.payload)
    BY DEF SourceKey
  <2> QED
    BY <2>1, <2>2 DEF OneRecordPerSource, Consistent
<1> QED
  BY <1>1, MemoryInductive, PTL

\* A use was current when it entered the branch, and is affected by all that is newer: whatever a
\* plan was built from (production_memory.py 287, 302-313).
THEOREM UsesAreRecalled == Spec => []UsesAreCurrentOrRecalled
<1>1. ASSUME MemoryInv, NEW c \in DOMAIN commits, NEW u \in commits[c].uses, NEW d \in u.adopted
      PROVE  /\ commits[c].parent # 0 /\ u \notin commits[commits[c].parent].uses =>
                  /\ d.lifecycle = "accepted"
                  /\ \A e \in Before(c) : e.record = d.record => e.revision <= d.revision
             /\ \/ u \in Affected(c, d.record)
                \/ \A e \in commits[c].records : e.record = d.record => e.revision <= d.revision
  <2>1. c \in Nat /\ commits[c].parent = c - 1
    BY <1>1 DEF MemoryInv, BranchIsChain
  <2>2. /\ d.revision \in Nat
        /\ u \notin (IF c = 1 THEN {} ELSE commits[c - 1].uses) =>
             /\ d.lifecycle = "accepted"
             /\ \A e \in Before(c) : e.record = d.record => e.revision <= d.revision
    BY <1>1 DEF MemoryInv, UsesWereCurrent
  <2>3. ASSUME NEW e \in commits[c].records, e.record = d.record, ~(e.revision <= d.revision)
        PROVE  u \in Affected(c, d.record)
    <3>1. Consistent(commits[c].records) /\ d.record \in Names(commits[c].records)
      BY <1>1, <2>3 DEF MemoryInv, CommitsAreConsistent, Names
    <3> DEFINE last == Latest(commits[c].records, d.record)
    <3>2. last \in commits[c].records /\ e.revision <= last.revision
      BY <2>3, <3>1, LatestIsLast
    <3>3. e.revision \in Nat /\ last.revision \in Nat
      BY <3>1, <3>2 DEF Consistent
    <3>4. d.revision < last.revision
      BY <2>2, <2>3, <3>2, <3>3
    <3> QED
      BY <3>4 DEF Affected
  <2> QED
    BY <2>1, <2>2, <2>3
<1>2. MemoryInv => UsesAreCurrentOrRecalled
  BY <1>1 DEF UsesAreCurrentOrRecalled
<1> QED
  BY <1>2, MemoryInductive, PTL

\* The index shows the records of one commit of the branch, after any reindexing that failed or was
\* for an old commit (production_memory.py 211-218, 243-248, 262-265).
THEOREM IndexIsOfACommit == Spec => []IndexShowsACommit
<1> QED
  BY MemoryInductive, PTL DEF MemoryInv

-----------------------------------------------------------------------------
(* The branch implements KnowledgeStore.                                   *)

\* What a command is about to commit is new to the commit that it has read.
HandInv(p) ==
  /\ At(p, "commit") =>
       /\ pc[p].operation.payload = pc[p].document.payload
       /\ \A k \in commits[pc[p].head].operations :
            k.operation = pc[p].operation.operation =>
              k.payload = pc[p].operation.payload /\ k.run = pc[p].operation.run
  /\ At(p, "use") => pc[p].use \notin commits[pc[p].head].uses

HandsInv == \A p \in Process : HandInv(p)

\* No step takes a commit away.
LEMMA CommitsStay ==
  ASSUME MemoryInv, [Next]_vars
  PROVE  \A c \in DOMAIN commits : commits'[c] = commits[c]
<1>1. commits \in Seq(ToSet(commits))
  BY DEF MemoryInv, BranchIsChain
<1>2. ASSUME NEW p \in Process, FirstCommit(p)
      PROVE  \A c \in DOMAIN commits : commits'[c] = commits[c]
  <2>1. commits = <<>>
    BY <1>2 DEF FirstCommit, MemoryInv, CommandInv
  <2> QED
    BY <2>1
<1>3. ASSUME NEW p \in Process, CommitRecord(p) \/ CommitUse(p)
      PROVE  \A c \in DOMAIN commits : commits'[c] = commits[c]
  <2>1. commits' = commits \/ \E tree : commits' = Append(commits, tree)
    BY <1>3 DEF CommitRecord, CommitUse, Commit
  <2> QED
    BY <1>1, <2>1, AppendedCommit
<1>4. commits' = commits \/ \E p \in Process : FirstCommit(p) \/ CommitRecord(p) \/ CommitUse(p)
  BY DEF Next, vars, store, MakeStore, Ingest, Observe, SeeResult, Decide, Reindex, RememberUse,
         CheckSources, Die, RecordObservation, BuildResult
<1> QED
  BY <1>2, <1>3, <1>4

\* A command that waits has in hand what it had.
LEMMA HandKept ==
  ASSUME MemoryInv, [Next]_vars, NEW p \in Process, HandInv(p), pc'[p] = pc[p]
  PROVE  HandInv(p)'
<1>1. CommandInv(p) /\ \A c \in DOMAIN commits : commits'[c] = commits[c]
  BY CommitsStay DEF MemoryInv
<1> QED
  BY <1>1 DEF HandInv, CommandInv, At

LEMMA HandMoves ==
  ASSUME MemoryInv, [Next]_vars, HandsInv, NEW p \in Process, NEW to, pc' = [pc EXCEPT ![p] = to],
         to.at = "commit" =>
           /\ to.operation.payload = to.document.payload
           /\ \A k \in commits'[to.head].operations :
                k.operation = to.operation.operation =>
                  k.payload = to.operation.payload /\ k.run = to.operation.run,
         to.at = "use" => to.use \notin commits'[to.head].uses
  PROVE  HandsInv'
<1>1. pc'[p] = to /\ \A o \in Process : o # p => pc'[o] = pc[o]
  BY DEF MemoryInv
<1>2. HandInv(p)'
  BY <1>1 DEF HandInv, At
<1>3. ASSUME NEW o \in Process, o # p
      PROVE  HandInv(o)'
  BY <1>1, <1>3, HandKept DEF HandsInv
<1> QED
  BY <1>2, <1>3 DEF HandsInv

LEMMA HandMovesOn ==
  ASSUME MemoryInv, [Next]_vars, HandsInv, NEW p \in Process, NEW to, Go(p, to), to.at \notin {"commit", "use"}
  PROVE  HandsInv'
BY HandMoves DEF Go

LEMMA HandsStep ==
  ASSUME MemoryInv, [Next]_vars, HandsInv
  PROVE  HandsInv'
<1>0. Idle.at = "idle"
  BY DEF Idle
<1>1. ASSUME NEW p \in Process, Go(p, Idle)
      PROVE  HandsInv'
  BY <1>0, <1>1, HandMovesOn
<1>2. ASSUME NEW p \in Process, NEW q, Ingest(p, q)
      PROVE  HandsInv'
  <2> DEFINE to == [at |-> "observe", request |-> q, head |-> ref]
  <2>1. Go(p, to) /\ to.at = "observe"
    BY <1>2 DEF Ingest
  <2> HIDE DEF to
  <2> QED
    BY <2>1, HandMovesOn
<1>3. ASSUME NEW p \in Process, MakeStore(p)
      PROVE  HandsInv'
  <2> DEFINE to == [at |-> "first"]
  <2>1. Go(p, to) /\ to.at = "first"
    BY <1>3 DEF MakeStore
  <2> HIDE DEF to
  <2> QED
    BY <2>1, HandMovesOn
<1>4. ASSUME NEW p \in Process, Observe(p)
      PROVE  HandsInv'
  <2>1. ASSUME NEW found,
               Go(p, [at |-> "result", request |-> pc[p].request, head |-> pc[p].head, found |-> found])
        PROVE  HandsInv'
    <3> DEFINE to == [at |-> "result", request |-> pc[p].request, head |-> pc[p].head, found |-> found]
    <3>1. Go(p, to) /\ to.at = "result"
      BY <2>1
    <3> HIDE DEF to
    <3> QED
      BY <3>1, HandMovesOn
  <2> QED
    BY <1>1, <1>4, <2>1 DEF Observe
<1>5. ASSUME NEW p \in Process, SeeResult(p)
      PROVE  HandsInv'
  <2> DEFINE to == [at |-> "digest", request |-> pc[p].request, head |-> pc[p].head,
                    found |-> pc[p].found, result |-> result]
  <2>1. CASE Go(p, to)
    <3>1. to.at = "digest"
      OBVIOUS
    <3> HIDE DEF to
    <3> QED
      BY <2>1, <3>1, HandMovesOn
  <2> QED
    BY <1>1, <1>5, <2>1 DEF SeeResult
<1>6. ASSUME NEW p \in Process, NEW document, NEW commit, NEW records, Go(p, Indexing(document, commit, records))
      PROVE  HandsInv'
  <2> DEFINE to == Indexing(document, commit, records)
  <2>1. to.at = "index"
    BY DEF Indexing
  <2> HIDE DEF to
  <2> QED
    BY <1>6, <2>1, HandMovesOn DEF to
<1>7. ASSUME NEW p \in Process, Decide(p)
      PROVE  HandsInv'
  <2> DEFINE q == pc[p].request
             head == pc[p].head
             payload == Payload(pc[p])
             document == Document(payload)
             operation == [operation |-> q.operation, payload |-> payload, run |-> q.run]
             to == [at |-> "commit", head |-> head, document |-> document, operation |-> operation]
  <2>1. UNCHANGED commits
    BY <1>7 DEF Decide, store
  <2>2. CASE OperationFree(q, payload, commits[head]) /\ Go(p, to)
    <3>1. document.payload = payload
      BY DEF Document
    <3>2. /\ operation.operation = q.operation /\ operation.payload = payload /\ operation.run = q.run
          /\ to.at = "commit" /\ to.head = head /\ to.document = document /\ to.operation = operation
      OBVIOUS
    <3>3. \A k \in commits[head].operations : k.operation = q.operation => k.payload = payload /\ k.run = q.run
      BY <2>2 DEF OperationFree
    <3> HIDE DEF to, operation, document, payload, head, q
    <3>4. /\ to.operation.payload = to.document.payload
          /\ \A k \in commits'[to.head].operations :
               k.operation = to.operation.operation => k.payload = to.operation.payload /\ k.run = to.operation.run
      BY <2>1, <3>1, <3>2, <3>3
    <3> QED
      BY <2>2, <3>2, <3>4, HandMoves DEF Go
  <2> QED
    BY <1>1, <1>6, <1>7, <2>2 DEF Decide
<1>8. ASSUME NEW p \in Process, CommitRecord(p)
      PROVE  HandsInv'
  BY <1>1, <1>6, <1>8 DEF CommitRecord, Commit
<1>9. ASSUME NEW p \in Process, NEW snapshot, NEW selected, RememberUse(p, snapshot, selected)
      PROVE  HandsInv'
  <2> DEFINE to == [at |-> "sources", use |-> BuildPlan(snapshot, selected)]
  <2>1. Go(p, to) /\ to.at = "sources"
    BY <1>9 DEF RememberUse
  <2> HIDE DEF to
  <2> QED
    BY <2>1, HandMovesOn
<1>10. ASSUME NEW p \in Process, CheckSources(p)
       PROVE  HandsInv'
  <2> DEFINE to == [at |-> "use", use |-> pc[p].use, head |-> ref]
  <2>1. CASE pc[p].use \notin commits[ref].uses /\ Go(p, to)
    <3>1. to.at = "use" /\ to.use = pc[p].use /\ to.head = ref /\ UNCHANGED commits
      BY <1>10 DEF CheckSources, store
    <3> HIDE DEF to
    <3> QED
      BY <2>1, <3>1, HandMoves DEF Go
  <2> QED
    BY <1>1, <1>10, <2>1 DEF CheckSources
<1>11. ASSUME NEW p \in Process, FirstCommit(p) \/ Reindex(p) \/ Die(p) \/ CommitUse(p)
       PROVE  HandsInv'
  BY <1>1, <1>11 DEF FirstCommit, Reindex, Die, CommitUse, Commit
<1>12. CASE UNCHANGED pc
  BY <1>12, HandKept DEF HandsInv
<1> QED
  BY <1>2, <1>3, <1>4, <1>5, <1>7, <1>8, <1>9, <1>10, <1>11, <1>12
     DEF Next, vars, RecordObservation, BuildResult

\* The versions of the store are the commits of the branch.
LEMMA VersionsAre ==
  ASSUME commits \in Seq(ToSet(commits))
  PROVE  /\ Len(commits) \in Nat /\ Len(Versions) = Len(commits)
         /\ DOMAIN Versions = 1 .. Len(commits) /\ DOMAIN commits = 1 .. Len(commits)
         /\ \A c \in 1 .. Len(commits) :
              Versions[c] = [records |-> commits[c].records, operations |-> commits[c].operations,
                             uses |-> commits[c].uses]
         /\ Versions \in Seq({Versions[c] : c \in DOMAIN Versions})
<1>1. Len(commits) \in Nat /\ DOMAIN commits = 1 .. Len(commits)
  BY AppendedCommit
<1>2. /\ DOMAIN Versions = 1 .. Len(commits)
      /\ \A c \in 1 .. Len(commits) :
           Versions[c] = [records |-> commits[c].records, operations |-> commits[c].operations,
                          uses |-> commits[c].uses]
  BY <1>1 DEF Versions
<1>3. Versions = [c \in 1 .. Len(commits) |-> Versions[c]]
  BY <1>1 DEF Versions
<1>4. Versions \in Seq({Versions[c] : c \in DOMAIN Versions})
  BY <1>1, <1>2, <1>3, IsASeq
<1>5. Len(Versions) = Len(commits)
  BY <1>1, <1>2, <1>4, LenProperties
<1> QED
  BY <1>1, <1>2, <1>4, <1>5

\* A commit on top of the branch is a version on top of the store.
LEMMA VersionAdded ==
  ASSUME MemoryInv, NEW tree, commits' = Append(commits, tree)
  PROVE  Versions' = Append(Versions, [records |-> tree.records, operations |-> tree.operations, uses |-> tree.uses])
<1> DEFINE w == [records |-> tree.records, operations |-> tree.operations, uses |-> tree.uses]
           n == Len(commits)
           S == {Versions[c] : c \in DOMAIN Versions} \cup {w}
<1>1. commits \in Seq(ToSet(commits))
  BY DEF MemoryInv, BranchIsChain
<1>2. /\ commits' \in Seq(ToSet(commits')) /\ Len(commits') = n + 1 /\ n \in Nat
      /\ \A c \in 1 .. n : commits'[c] = commits[c]
      /\ commits'[n + 1] = tree
  BY <1>1, AppendedCommit
<1>3. /\ DOMAIN Versions' = 1 .. (n + 1)
      /\ \A c \in 1 .. (n + 1) :
           Versions'[c] = [records |-> commits'[c].records, operations |-> commits'[c].operations,
                           uses |-> commits'[c].uses]
      /\ Versions' \in Seq({Versions'[c] : c \in DOMAIN Versions'})
      /\ Len(Versions') = n + 1
  <2>1. /\ DOMAIN commits' = 1 .. (n + 1) /\ Versions' = [c \in DOMAIN commits' |->
             [records |-> commits'[c].records, operations |-> commits'[c].operations, uses |-> commits'[c].uses]]
    BY <1>1, AppendedCommit DEF Versions
  <2>2. /\ DOMAIN Versions' = 1 .. (n + 1)
        /\ \A c \in 1 .. (n + 1) :
             Versions'[c] = [records |-> commits'[c].records, operations |-> commits'[c].operations,
                             uses |-> commits'[c].uses]
        /\ Versions' = [c \in 1 .. (n + 1) |-> Versions'[c]]
    BY <2>1
  <2>3. Versions' \in Seq({Versions'[c] : c \in DOMAIN Versions'})
    BY <1>2, <2>2, IsASeq
  <2> QED
    BY <1>2, <2>2, <2>3, LenProperties
<1>4. /\ Versions \in Seq(S) /\ Len(Versions) = n
      /\ \A c \in 1 .. n : Versions[c] = [records |-> commits[c].records, operations |-> commits[c].operations,
                                         uses |-> commits[c].uses]
  BY <1>1, VersionsAre
<1>5. /\ Append(Versions, w) \in Seq(S) /\ Len(Append(Versions, w)) = n + 1
      /\ \A c \in 1 .. n : Append(Versions, w)[c] = Versions[c]
      /\ Append(Versions, w)[n + 1] = w
  <2> HIDE DEF w
  <2>1. w \in S
    OBVIOUS
  <2> HIDE DEF S
  <2> QED
    BY <1>4, <2>1, AppendProperties
<1>6. \A c \in 1 .. (n + 1) : c \in 1 .. n \/ c = n + 1
  BY <1>2
<1>7. \A c \in 1 .. (n + 1) : Versions'[c] = Append(Versions, w)[c]
  <2>1. \A c \in 1 .. n : Versions'[c] = Append(Versions, w)[c]
    <3> TAKE c \in 1 .. n
    <3>1. c \in 1 .. (n + 1)
      BY <1>2
    <3> QED
      BY <1>2, <1>3, <1>4, <1>5, <3>1
  <2>2. Versions'[n + 1] = w
    <3>1. n + 1 \in 1 .. (n + 1)
      BY <1>2
    <3> QED
      BY <1>2, <1>3, <3>1
  <2> QED
    BY <1>5, <1>6, <2>1, <2>2
<1>8. DOMAIN Append(Versions, w) = 1 .. (n + 1)
  BY <1>5, LenProperties
<1>9. /\ Versions' = [c \in 1 .. (n + 1) |-> Versions'[c]]
      /\ Append(Versions, w) = [c \in 1 .. (n + 1) |-> Append(Versions, w)[c]]
  BY <1>3, <1>5, <1>8
<1> QED
  BY <1>7, <1>9

LEMMA OpenRefines ==
  ASSUME MemoryInv, NEW p \in Process, FirstCommit(p)
  PROVE  Store!Open
<1> DEFINE tree == [parent |-> 0, records |-> {}, operations |-> {}, uses |-> {}]
<1>1. commits = <<>> /\ UNCHANGED <<index, receipts>> /\ commits' = <<tree>>
  BY DEF FirstCommit, MemoryInv, CommandInv
<1>2. commits' = Append(commits, tree)
  BY <1>1
<1>3. Versions = <<>>
  BY <1>1 DEF Versions
<1>4. Versions' = Append(<<>>, [records |-> {}, operations |-> {}, uses |-> {}])
  BY <1>2, <1>3, VersionAdded
<1> QED
  BY <1>1, <1>3, <1>4 DEF Store!Open, Store!Empty

\* A version that follows the last one by one operation.
LEMMA AdvanceRefines ==
  ASSUME MemoryInv, Len(commits) # 0, NEW tree, commits' = Append(commits, tree), UNCHANGED <<index, receipts>>,
         NEW w, w = [records |-> tree.records, operations |-> tree.operations, uses |-> tree.uses],
         Store!Learned(Versions[Len(commits)], w) \/ Store!Cited(Versions[Len(commits)], w)
  PROVE  Store!Advance
<1>1. commits \in Seq(ToSet(commits))
  BY DEF MemoryInv, BranchIsChain
<1>2. Versions' = Append(Versions, w)
  BY VersionAdded
<1>3. Len(Versions) = Len(commits) /\ Versions # <<>>
  <2>1. Len(Versions) = Len(commits)
    BY <1>1, VersionsAre
  <2> QED
    BY <2>1
<1>4. w \in ToSet(Versions')
  <2>1. Versions \in Seq({Versions[c] : c \in DOMAIN Versions} \cup {w}) /\ Len(Versions) \in Nat
    BY <1>1, VersionsAre
  <2>2. /\ Append(Versions, w) \in Seq({Versions[c] : c \in DOMAIN Versions} \cup {w})
        /\ Append(Versions, w)[Len(Versions) + 1] = w /\ Len(Append(Versions, w)) = Len(Versions) + 1
    <3>1. w \in {Versions[c] : c \in DOMAIN Versions} \cup {w}
      OBVIOUS
    <3> QED
      BY <2>1, <3>1, AppendProperties
  <2>3. Len(Versions) + 1 \in DOMAIN Append(Versions, w)
    BY <2>1, <2>2, LenProperties
  <2> QED
    BY <1>2, <2>2, <2>3 DEF ToSet
<1> QED
  BY <1>2, <1>3, <1>4 DEF Store!Advance, Store!ToSet, ToSet

\* A record that wins the swap was judged by the last version.
LEMMA RecordRefines ==
  ASSUME MemoryInv, HandsInv, NEW p \in Process, CommitRecord(p)
  PROVE  Store!Advance \/ UNCHANGED Store!vars
<1> DEFINE n == Len(commits)
           base == commits[pc[p].head]
           d == pc[p].document
           o == pc[p].operation
           tree == [base EXCEPT !.parent = pc[p].head, !.records = base.records \cup {d}, !.operations = @ \cup {o}]
           w == [records |-> tree.records, operations |-> tree.operations, uses |-> tree.uses]
           v == Versions[n]
<1>1. CASE UNCHANGED commits
  BY <1>1 DEF Versions, Store!vars, CommitRecord, Commit
<1>2. CASE ref = pc[p].head /\ commits' = Append(commits, tree)
  <2>1. /\ commits \in Seq(ToSet(commits)) /\ pc[p].head = n /\ n \in DOMAIN commits
        /\ At(p, "commit") /\ UNCHANGED <<index, receipts>>
    <3>1. At(p, "commit") /\ UNCHANGED <<index, receipts>>
      BY DEF CommitRecord, Commit
    <3>2. pc[p].head \in DOMAIN commits
      BY <3>1 DEF MemoryInv, CommandInv, At
    <3>3. commits \in Seq(ToSet(commits)) /\ ref = n
      BY DEF MemoryInv, BranchIsChain
    <3> QED
      BY <1>2, <3>1, <3>2, <3>3
  <2>2. /\ Fits(d, base.records) /\ Consistent(base.records)
        /\ o.payload = d.payload
        /\ \A k \in base.operations : k.operation = o.operation => k.payload = o.payload /\ k.run = o.run
    BY <2>1 DEF MemoryInv, CommandInv, CommitsAreConsistent, HandsInv, HandInv
  <2>3. n \in 1 .. n /\ n # 0
    BY <2>1, VersionsAre
  <2>4. v = [records |-> base.records, operations |-> base.operations, uses |-> base.uses]
    BY <2>1, <2>3, VersionsAre
  <2>5. base \in [parent : {n - 1}, records : {base.records}, operations : {base.operations}, uses : {base.uses}]
    BY <2>1 DEF MemoryInv, BranchIsChain
  <2>6. tree.records = base.records \cup {d} /\ tree.operations = base.operations \cup {o} /\ tree.uses = base.uses
    BY <2>5
  <2>7. PICK t : t = tree
    OBVIOUS
  <2>8. PICK x : x = [records |-> t.records, operations |-> t.operations, uses |-> t.uses]
    OBVIOUS
  <2>9. /\ x.records = base.records \cup {d} /\ x.operations = base.operations \cup {o} /\ x.uses = base.uses
        /\ x = [records |-> v.records \cup {d}, operations |-> v.operations \cup {o}, uses |-> v.uses]
    <3> HIDE DEF tree, base, d, o, v
    <3>1. /\ x.records = base.records \cup {d} /\ x.operations = base.operations \cup {o} /\ x.uses = base.uses
          /\ x = [records |-> base.records \cup {d}, operations |-> base.operations \cup {o}, uses |-> base.uses]
      BY <2>6, <2>7, <2>8
    <3>2. v.records = base.records /\ v.operations = base.operations /\ v.uses = base.uses
      BY <2>4
    <3> QED
      BY <3>1, <3>2
  <2>10. Store!IsNext(d, v.records)
    <3>1. v.records = base.records
      BY <2>4
    <3>2. CASE d.record \notin Names(base.records)
      <4>1. d.revision = 1 /\ \A e \in base.records : e.record # d.record
        BY <2>2, <3>2 DEF Fits, Names
      <4> QED
        BY <3>1, <4>1 DEF Store!IsNext
    <3>3. CASE d.record \in Names(base.records)
      <4> DEFINE last == Latest(base.records, d.record)
      <4>1. /\ last \in base.records /\ last.record = d.record
            /\ \A e \in base.records : e.record = d.record => e.revision <= last.revision
        BY <2>2, <3>3, LatestIsLast
      <4>2. d.revision = last.revision + 1
        BY <2>2, <3>3 DEF Fits
      <4>3. \A e \in base.records : e.revision \in Nat
        BY <2>2 DEF Consistent
      <4> HIDE DEF last, base, d, v
      <4>4. \A e \in base.records : e.record = d.record => e.revision < d.revision
        BY <4>1, <4>2, <4>3
      <4>5. \E e \in base.records : e.record = d.record /\ e.revision + 1 = d.revision
        BY <4>1, <4>2
      <4> QED
        BY <3>1, <4>4, <4>5 DEF Store!IsNext
    <3> QED
      BY <3>2, <3>3
  <2>11. \A e \in v.records : Store!SameSource(d, e) => e.record = d.record
    <3>1. \A e : Store!SameSource(d, e) => SourceKey(d.payload) = SourceKey(e.payload)
      BY DEF Store!SameSource, SourceKey
    <3> QED
      BY <2>2, <2>4, <3>1 DEF Fits
  <2>12. Store!Learned(v, x)
    <3>1. d \in x.records /\ o \in x.operations
      BY <2>9
    <3>2. v.operations = base.operations
      BY <2>4
    <3> HIDE DEF base, d, o, v
    <3> QED
      BY <2>2, <2>9, <2>10, <2>11, <3>1, <3>2 DEF Store!Learned
  <2>13. commits' = Append(commits, t)
    BY <1>2, <2>7
  <2> QED
    BY <2>1, <2>3, <2>8, <2>12, <2>13, AdvanceRefines
<1> QED
  BY <1>1, <1>2 DEF CommitRecord, Commit, Unmoved

\* So was a use.
LEMMA UseRefines ==
  ASSUME MemoryInv, HandsInv, NEW p \in Process, CommitUse(p)
  PROVE  Store!Advance \/ UNCHANGED Store!vars
<1> DEFINE n == Len(commits)
           base == commits[pc[p].head]
           u == pc[p].use
           tree == [base EXCEPT !.parent = pc[p].head, !.uses = @ \cup {u}]
           v == Versions[n]
<1>1. CASE UNCHANGED commits
  BY <1>1 DEF Versions, Store!vars, CommitUse, Commit
<1>2. CASE ref = pc[p].head /\ commits' = Append(commits, tree)
  <2>1. /\ commits \in Seq(ToSet(commits)) /\ pc[p].head = n /\ n \in DOMAIN commits
        /\ At(p, "use") /\ UNCHANGED <<index, receipts>>
    <3>1. At(p, "use") /\ UNCHANGED <<index, receipts>>
      BY DEF CommitUse, Commit
    <3>2. pc[p].head \in DOMAIN commits
      BY <3>1 DEF MemoryInv, CommandInv, At
    <3>3. commits \in Seq(ToSet(commits)) /\ ref = n
      BY DEF MemoryInv, BranchIsChain
    <3> QED
      BY <1>2, <3>1, <3>2, <3>3
  <2>2. UseFits(u, base) /\ Consistent(base.records) /\ u \notin base.uses
    BY <2>1 DEF MemoryInv, CommandInv, CommitsAreConsistent, HandsInv, HandInv
  <2>3. n \in 1 .. n /\ n # 0
    BY <2>1, VersionsAre
  <2>4. v = [records |-> base.records, operations |-> base.operations, uses |-> base.uses]
    BY <2>1, <2>3, VersionsAre
  <2>5. base \in [parent : {n - 1}, records : {base.records}, operations : {base.operations}, uses : {base.uses}]
    BY <2>1 DEF MemoryInv, BranchIsChain
  <2>6. tree.records = base.records /\ tree.operations = base.operations /\ tree.uses = base.uses \cup {u}
    BY <2>5
  <2>7. PICK t : t = tree
    OBVIOUS
  <2>8. PICK x : x = [records |-> t.records, operations |-> t.operations, uses |-> t.uses]
    OBVIOUS
  <2>9. x.uses = base.uses \cup {u} /\ x = [v EXCEPT !.uses = @ \cup {u}]
    <3> HIDE DEF tree, base, u, v
    <3> QED
      BY <2>4, <2>6, <2>7, <2>8
  <2>10. \A d \in u.adopted :
           /\ d \in base.records /\ d.lifecycle = "accepted"
           /\ \A e \in base.records : e.record = d.record => e.revision <= d.revision
    <3> TAKE d \in u.adopted
    <3>1. /\ d.record \in Names(base.records)
          /\ d = Latest(base.records, d.record) /\ d.lifecycle = "accepted"
      BY <2>2 DEF UseFits, Usable
    <3>2. /\ d \in base.records
          /\ \A e \in base.records : e.record = d.record => e.revision <= d.revision
      BY <2>2, <3>1, LatestIsLast
    <3> QED
      BY <3>1, <3>2
  <2>11. Store!Cited(v, x)
    <3>1. u \in x.uses \ v.uses /\ v.records = base.records
      BY <2>2, <2>4, <2>9
    <3> HIDE DEF base, u, v
    <3> QED
      BY <2>9, <2>10, <3>1 DEF Store!Cited
  <2>12. commits' = Append(commits, t)
    BY <1>2, <2>7
  <2> QED
    BY <2>1, <2>3, <2>8, <2>11, <2>12, AdvanceRefines
<1> QED
  BY <1>1, <1>2 DEF CommitUse, Commit, Unmoved

\* An answer names the version that added the document, and the index may show it.
LEMMA ReindexRefines ==
  ASSUME MemoryInv, NEW p \in Process, Reindex(p)
  PROVE  \E n \in DOMAIN Versions : \E d \in Versions[n].records : Store!Answer(n, d)
<1> DEFINE n == pc[p].commit
           d == pc[p].document
<1>1. /\ n \in DOMAIN commits /\ pc[p].records = commits[n].records
      /\ d \in commits[n].records \ Before(n)
  BY DEF Reindex, MemoryInv, CommandInv
<1>2. /\ n \in 1 .. Len(commits) /\ Len(commits) \in Nat /\ DOMAIN Versions = 1 .. Len(commits)
      /\ DOMAIN commits = 1 .. Len(commits)
      /\ \A c \in 1 .. Len(commits) : Versions[c].records = commits[c].records
  BY <1>1, VersionsAre DEF MemoryInv, BranchIsChain
<1>3. \A m \in 1 .. (n - 1) : d \notin commits[m].records
  <2> TAKE m \in 1 .. (n - 1)
  <2>1. n - 1 \in DOMAIN commits /\ m \in DOMAIN commits /\ m <= n - 1 /\ n - 1 # 0
    BY <1>2
  <2>2. commits[m].records \subseteq commits[n - 1].records
    BY <2>1 DEF MemoryInv, BranchIsChain
  <2>3. commits[n].parent = n - 1
    BY <1>1 DEF MemoryInv, BranchIsChain
  <2>4. Before(n) = commits[n - 1].records
    BY <2>1, <2>3 DEF Before
  <2> QED
    BY <1>1, <2>2, <2>4
<1>4. \A m \in 1 .. (n - 1) : d \notin Versions[m].records
  <2>1. \A m \in 1 .. (n - 1) : m \in 1 .. Len(commits)
    BY <1>2
  <2> QED
    BY <1>2, <1>3, <2>1
<1>5. /\ receipts' = receipts \cup {[document |-> d, commit |-> n]}
      /\ index' \in {index, [commit |-> n, records |-> Versions[n].records]}
      /\ UNCHANGED Versions
  BY <1>1, <1>2 DEF Reindex, store, Versions
<1>6. Store!Answer(n, d) /\ n \in DOMAIN Versions /\ d \in Versions[n].records
  BY <1>1, <1>2, <1>4, <1>5 DEF Store!Answer
<1> QED
  BY <1>6

\* The branch, its racing commands and its index implement a store that changes by one operation at
\* a time, judged by the last version: for any requests, commands and deaths
\* (production_memory.py 70-82, 211-263, 292-314).
THEOREM MemoryIsAStore == Spec => ImplementsKnowledgeStore
<1>1. Init => Store!Init
  <2>1. commits = <<>> => Versions = <<>>
    BY DEF Versions
  <2> QED
    BY <2>1 DEF Init, Store!Init
<1>2. Init => HandsInv
  BY DEF Init, HandsInv, HandInv, At, Idle
<1>3. MemoryInv /\ HandsInv /\ [Next]_vars => HandsInv'
  BY HandsStep
<1>4. MemoryInv /\ HandsInv /\ [Next]_vars => [Store!Next]_(Store!vars)
  <2> SUFFICES ASSUME MemoryInv, HandsInv, [Next]_vars
               PROVE  Store!Next \/ UNCHANGED Store!vars
    OBVIOUS
  <2>1. CASE UNCHANGED <<commits, index, receipts>>
    BY <2>1 DEF Versions, Store!vars
  <2>2. ASSUME NEW p \in Process, FirstCommit(p) \/ CommitRecord(p) \/ Reindex(p) \/ CommitUse(p)
        PROVE  Store!Next \/ UNCHANGED Store!vars
    BY <2>2, OpenRefines, RecordRefines, ReindexRefines, UseRefines DEF Store!Next
  <2>3. \/ UNCHANGED <<commits, index, receipts>>
        \/ \E p \in Process : FirstCommit(p) \/ CommitRecord(p) \/ Reindex(p) \/ CommitUse(p)
    BY DEF Next, vars, store, MakeStore, Ingest, Observe, SeeResult, Decide, RememberUse,
           CheckSources, Die, RecordObservation, BuildResult
  <2> QED
    BY <2>1, <2>2, <2>3
<1> QED
  BY <1>1, <1>2, <1>3, <1>4, MemoryInductive, PTL DEF Spec, ImplementsKnowledgeStore, Store!Spec

=============================================================================
