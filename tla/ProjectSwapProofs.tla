-------------------------- MODULE ProjectSwapProofs --------------------------
(***************************************************************************)
(* Theorems about ProjectSwap, for any writers and acceptors, any handoffs *)
(* and any number of calls and invocations.                                *)
(***************************************************************************)
EXTENDS ProjectSwap, TLAPS

-----------------------------------------------------------------------------
(* The inductive invariant.                                                *)

Calling == {"idle", "opened", "check", "append", "project", "readManifest", "writeManifest", "answer",
            "return"}

TypeInv ==
  /\ dir \in [Dir -> Directory \cup {None}] /\ project \in Dir \cup {None} /\ aside \subseteq Dir
  /\ DOMAIN pc = Process /\ calls \in [Process -> Nat]
  /\ \A w \in Writer : pc[w] \in Calling
  /\ \A a \in Acceptor : pc[a] \in Accepting \cup {"idle", "offered"}
  /\ bound \in [Writer -> Dir \cup {None}] /\ base \in [Writer -> Seq(Event)]
  /\ named \in [Writer -> Handoff \cup {None}]
  /\ candidate \in [Acceptor -> Handoff \cup {None}] /\ original \in [Acceptor -> State \cup {None}]
  /\ staging \in [Acceptor -> Dir \cup {None}] /\ rollback \in [Acceptor -> Dir \cup {None}]
  /\ copied \in [Acceptor -> SUBSET {"log", "state"}]
  /\ overlapped \in BOOLEAN

\* The project and what was moved aside exist, each once; a project has a projection.
PlaceInv ==
  /\ project # None => dir[project] # None /\ project \notin aside
  /\ \A d \in aside : dir[d] # None
  /\ project # None /\ dir[project].history # <<>> => dir[project].state # None
  /\ \A d \in aside : dir[d].history # <<>> => dir[d].state # None

AtomicInv == \A a, b \in Acceptor : pc[a] \in Accepting /\ pc[b] \in Accepting => a = b

\* A copy is nobody else's, and is only there while it is in use.
StagingInv(a) ==
  /\ pc[a] \in {"idle", "offered", "examine", "discard", "accept"} <=> staging[a] = None /\ pc[a] # "refuse"
  /\ staging[a] # None => dir[staging[a]] # None /\ staging[a] \notin aside /\ staging[a] # project

\* The copy a's log holds what was there, at some moment, of directory d.
Continues(a, d) ==
  /\ dir[staging[a]].history = Append(dir[d].history, candidate[a])
  /\ dir[staging[a]].log # <<>> /\ IsPrefix(Front(dir[staging[a]].log), dir[d].log)
  /\ ~overlapped => Ids(dir[d].log) \subseteq Ids(dir[staging[a]].log)

Replayed(a) ==
  dir[staging[a]].state = dir[staging[a]].log /\ Replays(dir[staging[a]].log)

AcceptorInv(a) ==
  /\ StagingInv(a)
  /\ pc[a] # "idle" => candidate[a] \in Handoff
  /\ pc[a] \in {"idle", "offered", "examine"} => copied[a] = {}
  /\ pc[a] \in {"copy", "build", "validate", "moveAway"} =>
       /\ project # None /\ dir[project].history # <<>> /\ original[a] \in State
       /\ candidate[a].revision = Last(dir[project].history).revision + 1
  /\ pc[a] \in {"copy", "build"} =>
       /\ dir[staging[a]].history = dir[project].history
       /\ "state" \in copied[a] => dir[staging[a]].state # None
       /\ "log" \in copied[a] =>
            /\ IsPrefix(dir[staging[a]].log, dir[project].log)
            /\ ~overlapped => dir[staging[a]].log = dir[project].log
  /\ pc[a] = "build" => copied[a] = {"log", "state"}
  /\ pc[a] \in {"validate", "moveAway"} => Continues(a, project) /\ dir[staging[a]].state # None
  /\ pc[a] \in {"moveAway", "moveIn"} => Replayed(a)
  /\ pc[a] = "moveIn" =>
       /\ rollback[a] \in aside /\ Continues(a, rollback[a]) /\ dir[staging[a]].state # None
       /\ dir[rollback[a]].history # <<>>
       /\ candidate[a].revision = Last(dir[rollback[a]].history).revision + 1
       /\ project # None => dir[project].history = <<>>
  /\ pc[a] = "discard" => rollback[a] \in aside
  /\ pc[a] \in {"discard", "accept"} =>
       project # None /\ candidate[a] \in ToSet(dir[project].history)

WriterInv(w) ==
  /\ pc[w] \in {"append", "project"} => base[w] # <<>>
  /\ ~overlapped =>
       /\ pc[w] # "idle" => \A a \in Acceptor : pc[a] \notin Accepting
       /\ pc[w] \in {"append", "project", "readManifest", "writeManifest", "answer"} =>
            project # None /\ dir[project].history # <<>>
       /\ pc[w] \in {"project", "readManifest", "writeManifest", "answer"} =>
            [by |-> w, call |-> calls[w]] \in Ids(dir[project].log)

\* One directory has all that was ever accepted, and, as long as nothing overlapped, answered.
Main(m) ==
  /\ m \in aside \cup ({project} \ {None})
  /\ dir[m].history # <<>> /\ \A i \in DOMAIN dir[m].history : dir[m].history[i].revision = i
  /\ accepted \subseteq ToSet(dir[m].history)
  /\ ~overlapped => answered \subseteq Ids(dir[m].log)
  /\ project # None /\ dir[project].history # <<>> => m = project
  /\ \A a \in Acceptor : pc[a] = "moveIn" => m = rollback[a]

QuietStub ==
  ~overlapped /\ project # None /\ dir[project].history = <<>> => dir[project].state = None

SwapInv ==
  /\ TypeInv /\ PlaceInv /\ AtomicInv /\ QuietStub
  /\ \A a \in Acceptor : AcceptorInv(a)
  /\ \A w \in Writer : WriterInv(w)
  /\ \E m \in Dir : Main(m)

-----------------------------------------------------------------------------
(* Logs and directories.                                                   *)

LEMMA PrefixGrows ==
  ASSUME NEW S, NEW s \in Seq(S), NEW t \in Seq(S), NEW e \in S, IsPrefix(s, t)
  PROVE  IsPrefix(s, Append(t, e))
<1>1. Len(s) \in Nat /\ Len(t) \in Nat /\ Len(s) <= Len(t)
  BY DEF IsPrefix
<1>2. Append(t, e) \in Seq(S) /\ Len(Append(t, e)) = Len(t) + 1 /\ \A i \in 1 .. Len(t) : Append(t, e)[i] = t[i]
  OBVIOUS
<1>3. SubSeq(Append(t, e), 1, Len(s)) = SubSeq(t, 1, Len(s))
  BY <1>1, <1>2
<1> QED
  BY <1>1, <1>2, <1>3 DEF IsPrefix

LEMMA PrefixOfItself ==
  ASSUME NEW S, NEW s \in Seq(S)
  PROVE  IsPrefix(s, s)
BY DEF IsPrefix

LEMMA FrontOfAppend ==
  ASSUME NEW S, NEW s \in Seq(S), NEW e \in S
  PROVE  Front(Append(s, e)) = s
<1>1. Len(Append(s, e)) = Len(s) + 1 /\ Len(s) \in Nat /\ \A i \in 1 .. Len(s) : Append(s, e)[i] = s[i]
  OBVIOUS
<1>2. Front(Append(s, e)) = SubSeq(Append(s, e), 1, Len(s))
  BY <1>1 DEF Front
<1>3. SubSeq(Append(s, e), 1, Len(s)) = s
  BY <1>1
<1> QED
  BY <1>2, <1>3

LEMMA IdsOfAppend ==
  ASSUME NEW S, NEW s \in Seq(S), NEW e \in S
  PROVE  Ids(Append(s, e)) = Ids(s) \cup {e.id}
<1>1. /\ Len(s) \in Nat /\ DOMAIN s = 1 .. Len(s) /\ DOMAIN Append(s, e) = 1 .. (Len(s) + 1)
      /\ \A i \in 1 .. Len(s) : Append(s, e)[i] = s[i]
      /\ Append(s, e)[Len(s) + 1] = e
  OBVIOUS
<1> QED
  BY <1>1 DEF Ids

LEMMA ItemsOfAppend ==
  ASSUME NEW S, NEW s \in Seq(S), NEW e \in S
  PROVE  ToSet(Append(s, e)) = ToSet(s) \cup {e}
<1>1. /\ Len(s) \in Nat /\ DOMAIN s = 1 .. Len(s) /\ DOMAIN Append(s, e) = 1 .. (Len(s) + 1)
      /\ \A i \in 1 .. Len(s) : Append(s, e)[i] = s[i]
      /\ Append(s, e)[Len(s) + 1] = e
  OBVIOUS
<1> QED
  BY <1>1 DEF ToSet

LEMMA LastOfSeq ==
  ASSUME NEW S, NEW s \in Seq(S), s # <<>>
  PROVE  Last(s) \in S /\ Last(s) \in ToSet(s)
<1>1. Len(s) \in DOMAIN s
  OBVIOUS
<1> QED
  BY <1>1 DEF Last, ToSet

LEMMA Directories ==
  /\ None \notin Dir /\ None \notin Directory /\ None \notin Seq(Event) /\ <<>> \in Seq(Event)
  /\ Stub \in Directory /\ Created \in Directory /\ First \in Handoff /\ Bootstrap \in Event
<1>1. First \in Handoff
  BY DEF Handoff
<1>2. Bootstrap \in Event
  BY DEF Bootstrap, Event, EventId, State
<1>3. Stub \in Directory
  BY DEF Stub, Directory, Projection
<1>4. Created \in Directory
  <2>1. <<First>> \in Seq(Handoff) /\ <<Bootstrap>> \in Seq(Event) /\ <<Bootstrap>> # <<>>
    BY <1>1, <1>2
  <2> QED
    BY <1>1, <2>1 DEF Created, Directory, Projection
<1> QED
  BY <1>1, <1>2, <1>3, <1>4, NoneAssumption

-----------------------------------------------------------------------------
(* What runtime calls do to the disk.                                      *)

\* A writer leaves the disk alone, or rewrites a file of the project, or of a new directory where there
\* is no project.
DiskStep ==
  /\ aside' = aside
  /\ \/ dir' = dir /\ project' = project
     \/ /\ project' \in Dir
        /\ \E new \in Directory :
             /\ dir' = [dir EXCEPT ![project'] = new]
             /\ \/ project = None /\ dir[project'] = None /\ new.history = <<>>
                \/ /\ project # None /\ project' = project /\ new.history = dir[project].history
                   /\ new.log = dir[project].log \/ \E e \in Event : new.log = Append(dir[project].log, e)
             /\ new.history # <<>> => new.state # None
             /\ ~overlapped' /\ new.history = <<>> => new.state = None

LEMMA DiskStepPlaces ==
  ASSUME SwapInv, DiskStep, overlapped => overlapped', overlapped' \in BOOLEAN
  PROVE  /\ dir' \in [Dir -> Directory \cup {None}] /\ project' \in Dir \cup {None} /\ aside' \subseteq Dir
         /\ PlaceInv' /\ QuietStub'
         /\ \A d \in Dir : dir[d] # None /\ d # project => d # project' /\ dir'[d] = dir[d]
         /\ project # None => /\ project' = project /\ dir'[project].history = dir[project].history
                              /\ Ids(dir[project].log) \subseteq Ids(dir'[project].log)
                              /\ \A s \in Seq(Event) : IsPrefix(s, dir[project].log) => IsPrefix(s, dir'[project].log)
         /\ project = None /\ project' # None => dir'[project'].history = <<>>
<1>1. TypeInv /\ PlaceInv /\ QuietStub
  BY DEF SwapInv
<1>2. /\ dir \in [Dir -> Directory \cup {None}] /\ project \in Dir \cup {None} /\ aside \subseteq Dir
      /\ None \notin Dir /\ None \notin Directory
  BY <1>1, Directories DEF TypeInv
<1>3. CASE dir' = dir /\ project' = project
  BY <1>1, <1>2, <1>3 DEF PlaceInv, QuietStub, DiskStep
<1>4. CASE /\ project' \in Dir
           /\ \E new \in Directory :
                /\ dir' = [dir EXCEPT ![project'] = new]
                /\ \/ project = None /\ dir[project'] = None /\ new.history = <<>>
                   \/ /\ project # None /\ project' = project /\ new.history = dir[project].history
                      /\ new.log = dir[project].log \/ \E e \in Event : new.log = Append(dir[project].log, e)
                /\ new.history # <<>> => new.state # None
                /\ ~overlapped' /\ new.history = <<>> => new.state = None
  <2>1. PICK new \in Directory :
          /\ dir' = [dir EXCEPT ![project'] = new]
          /\ \/ project = None /\ dir[project'] = None /\ new.history = <<>>
             \/ /\ project # None /\ project' = project /\ new.history = dir[project].history
                /\ new.log = dir[project].log \/ \E e \in Event : new.log = Append(dir[project].log, e)
          /\ new.history # <<>> => new.state # None
          /\ ~overlapped' /\ new.history = <<>> => new.state = None
    BY <1>4
  <2>2. PICK q : q = project'
    OBVIOUS
  <2>3. /\ q \in Dir /\ q # None /\ dir'[q] = new /\ dir' \in [Dir -> Directory \cup {None}] /\ new # None
        /\ \A d \in Dir : d # q => dir'[d] = dir[d]
    BY <1>2, <1>4, <2>1, <2>2
  <2>4. aside' = aside /\ q \notin aside /\ (project # None => dir[project] \in Directory /\ q = project)
    BY <1>1, <1>2, <2>1, <2>2 DEF PlaceInv, DiskStep
  <2>5. project # None => /\ Ids(dir[project].log) \subseteq Ids(new.log)
                          /\ \A s \in Seq(Event) : IsPrefix(s, dir[project].log) => IsPrefix(s, new.log)
    <3>1. project # None => dir[project].log \in Seq(Event)
      BY <2>4 DEF Directory
    <3> QED
      BY <2>1, <3>1, PrefixGrows, IdsOfAppend
  <2>6. PlaceInv'
    BY <1>1, <1>2, <2>1, <2>2, <2>3, <2>4 DEF PlaceInv
  <2>7. QuietStub'
    BY <2>1, <2>2, <2>3 DEF QuietStub
  <2>8. \A d \in Dir : dir[d] # None /\ d # project => d # q /\ dir'[d] = dir[d]
    BY <2>1, <2>2, <2>3, <2>4
  <2> QED
    BY <1>2, <2>1, <2>2, <2>3, <2>4, <2>5, <2>6, <2>7, <2>8
<1> QED
  BY <1>3, <1>4 DEF DiskStep

\* Acceptances under way keep what they rely on.
LEMMA DiskStepAcceptors ==
  ASSUME SwapInv, DiskStep, overlapped => overlapped', overlapped' \in BOOLEAN,
         UNCHANGED <<candidate, original, staging, copied, rollback>>,
         NEW a \in Acceptor, pc'[a] = pc[a], pc[a] \in Accepting => overlapped'
  PROVE  AcceptorInv(a)'
<1>1. AcceptorInv(a) /\ TypeInv /\ PlaceInv
  BY DEF SwapInv
<1>2. PICK s, r, p : s = staging[a] /\ r = rollback[a] /\ p = project
  OBVIOUS
<1>3. s \in Dir \cup {None} /\ r \in Dir \cup {None} /\ p \in Dir \cup {None} /\ aside' = aside /\ aside \subseteq Dir
      /\ None \notin Dir /\ staging'[a] = s /\ rollback'[a] = r /\ None \notin Directory
      /\ dir \in [Dir -> Directory \cup {None}]
  BY <1>1, <1>2, Directories DEF TypeInv, DiskStep
<1>4. StagingInv(a)
  BY <1>1 DEF AcceptorInv
<1>5. s # None => s # project' /\ dir'[s] = dir[s] /\ dir[s] \in Directory /\ s # p
  BY <1>2, <1>3, <1>4, DiskStepPlaces DEF StagingInv
<1>6. r \in aside => dir'[r] = dir[r]
  BY <1>1, <1>2, <1>3, DiskStepPlaces DEF PlaceInv
<1>7. StagingInv(a)'
  BY <1>2, <1>3, <1>4, <1>5 DEF StagingInv
<1>8. p # None => /\ project' = p /\ dir'[p].history = dir[p].history
                  /\ \A l \in Seq(Event) : IsPrefix(l, dir[p].log) => IsPrefix(l, dir'[p].log)
  BY <1>2, DiskStepPlaces
<1>9. pc'[a] \in {"copy", "build", "validate", "moveAway"} =>
        /\ project' # None /\ dir'[project'].history # <<>> /\ original'[a] \in State
        /\ candidate'[a].revision = Last(dir'[project'].history).revision + 1
  BY <1>1, <1>2, <1>8 DEF AcceptorInv
<1>10. pc[a] \in {"copy", "build", "validate", "moveAway", "moveIn"} => /\ s # None /\ dir[s].log \in Seq(Event) /\ overlapped'
                                                                       /\ Front(dir[s].log) \in Seq(Event)
  <2>1. pc[a] \in {"copy", "build", "validate", "moveAway", "moveIn"} => s # None /\ overlapped'
    BY <1>2, <1>4 DEF StagingInv, Accepting
  <2>2. s # None => dir[s].log \in Seq(Event)
    BY <1>5 DEF Directory
  <2>3. \A l \in Seq(Event) : Front(l) \in Seq(Event)
    BY DEF Front
  <2> QED
    BY <2>1, <2>2, <2>3
<1>11. pc'[a] \in {"copy", "build"} =>
         /\ dir'[s].history = dir'[project'].history
         /\ "state" \in copied'[a] => dir'[s].state # None
         /\ "log" \in copied'[a] =>
              /\ IsPrefix(dir'[s].log, dir'[project'].log)
              /\ ~overlapped' => dir'[s].log = dir'[project'].log
  BY <1>1, <1>2, <1>5, <1>8, <1>9, <1>10 DEF AcceptorInv
<1>12. pc'[a] \in {"validate", "moveAway"} => Continues(a, project)' /\ dir'[s].state # None
  BY <1>1, <1>2, <1>3, <1>5, <1>8, <1>9, <1>10 DEF AcceptorInv, Continues
<1>13. pc'[a] \in {"moveAway", "moveIn"} => Replayed(a)'
  BY <1>1, <1>2, <1>3, <1>5, <1>10 DEF AcceptorInv, Replayed
<1>14. pc'[a] = "moveIn" =>
         /\ r \in aside' /\ Continues(a, rollback[a])' /\ dir'[s].state # None
         /\ dir'[r].history # <<>>
         /\ candidate'[a].revision = Last(dir'[r].history).revision + 1
         /\ project' # None => dir'[project'].history = <<>>
  <2>1. pc[a] = "moveIn" =>
         /\ r \in aside' /\ dir'[s].state # None /\ dir'[r].history # <<>>
         /\ candidate'[a].revision = Last(dir'[r].history).revision + 1
    BY <1>1, <1>2, <1>3, <1>5, <1>6, <1>10 DEF AcceptorInv
  <2>2. pc[a] = "moveIn" => Continues(a, rollback[a])'
    BY <1>1, <1>2, <1>3, <1>5, <1>6, <1>10 DEF AcceptorInv, Continues
  <2>3. pc[a] = "moveIn" /\ project' # None => dir'[project'].history = <<>>
    BY <1>1, DiskStepPlaces DEF AcceptorInv
  <2> QED
    BY <2>1, <2>2, <2>3
<1>15. pc'[a] = "discard" => rollback'[a] \in aside'
  BY <1>1, <1>3, <1>2 DEF AcceptorInv
<1>16. pc'[a] \in {"discard", "accept"} => project' # None /\ candidate'[a] \in ToSet(dir'[project'].history)
  BY <1>1, <1>2, <1>8 DEF AcceptorInv
<1>17. (pc'[a] # "idle" => candidate'[a] \in Handoff) /\ (pc'[a] \in {"idle", "offered", "examine"} => copied'[a] = {}) /\ (pc'[a] = "build" => copied'[a] = {"log", "state"})
  BY <1>1 DEF AcceptorInv
<1> QED
  BY <1>3, <1>7, <1>9, <1>11, <1>12, <1>13, <1>14, <1>15, <1>16, <1>17 DEF AcceptorInv

\* So does the directory that has it all; a call that answers is in the log of the project.
LEMMA DiskStepMain ==
  ASSUME SwapInv, DiskStep, overlapped => overlapped', overlapped' \in BOOLEAN, accepted' = accepted,
         UNCHANGED rollback, \A a \in Acceptor : pc'[a] = pc[a],
         \/ answered' = answered
         \/ ~overlapped' => /\ project # None /\ dir[project].history # <<>>
                            /\ answered' \subseteq answered \cup Ids(dir[project].log)
  PROVE  \E m \in Dir : Main(m)'
<1>1. PICK m \in Dir : Main(m)
  BY DEF SwapInv
<1>2. TypeInv /\ PlaceInv
  BY DEF SwapInv
<1>3. aside' = aside /\ aside \subseteq Dir /\ None \notin Dir /\ project \in Dir \cup {None}
  BY <1>2, Directories DEF TypeInv, DiskStep
<1>4. PICK p : p = project
  OBVIOUS
<1>5. p # None => project' = p /\ dir'[p].history = dir[p].history /\ Ids(dir[p].log) \subseteq Ids(dir'[p].log)
  BY <1>4, DiskStepPlaces
<1>6. m # p => m \in aside /\ dir'[m] = dir[m]
  BY <1>1, <1>2, <1>4, DiskStepPlaces DEF Main, PlaceInv
<1>7. m \in aside' \cup ({project'} \ {None}) /\ dir'[m].history = dir[m].history /\ Ids(dir[m].log) \subseteq Ids(dir'[m].log)
  BY <1>1, <1>3, <1>4, <1>5, <1>6 DEF Main
<1>8. ~overlapped' => answered' \subseteq Ids(dir'[m].log)
  BY <1>1, <1>7 DEF Main
<1>9. project' # None /\ dir'[project'].history # <<>> => m = project'
  BY <1>1, <1>4, <1>5, DiskStepPlaces DEF Main
<1>10. \A a \in Acceptor : pc'[a] = "moveIn" => m = rollback'[a]
  BY <1>1 DEF Main
<1>11. /\ dir'[m].history # <<>> /\ \A i \in DOMAIN dir'[m].history : dir'[m].history[i].revision = i
       /\ accepted' \subseteq ToSet(dir'[m].history)
  BY <1>1, <1>7 DEF Main
<1> QED
  BY <1>7, <1>8, <1>9, <1>10, <1>11 DEF Main

\* A step of a runtime call.
LEMMA WriterMoves ==
  ASSUME SwapInv, NEW w \in Writer, NEW to \in Calling, pc' = [pc EXCEPT ![w] = to], DiskStep,
         overlapped => overlapped', overlapped' \in BOOLEAN,
         UNCHANGED <<candidate, original, staging, copied, rollback, accepted>>,
         calls' \in [Process -> Nat], bound' \in [Writer -> Dir \cup {None}], base' \in [Writer -> Seq(Event)],
         named' \in [Writer -> Handoff \cup {None}],
         \A o \in Writer : o # w => calls'[o] = calls[o] /\ base'[o] = base[o],
         pc[w] # "idle" \/ overlapped' \/ \A a \in Acceptor : pc[a] \notin Accepting,
         to \in {"append", "project"} => base'[w] # <<>>,
         ~overlapped' =>
           /\ to \in {"append", "project", "readManifest", "writeManifest", "answer"} =>
                project # None /\ dir[project].history # <<>>
           /\ to \in {"project", "readManifest", "writeManifest", "answer"} =>
                [by |-> w, call |-> calls'[w]] \in Ids(dir'[project'].log),
         \/ answered' = answered
         \/ ~overlapped' => /\ project # None /\ dir[project].history # <<>>
                            /\ answered' \subseteq answered \cup Ids(dir[project].log)
  PROVE  SwapInv'
<1>1. /\ DOMAIN pc = Process /\ Process = Writer \cup Acceptor /\ Writer \cap Acceptor = {}
  BY ProcessAssumption DEF SwapInv, TypeInv, Process
<1>2. DOMAIN pc' = Process /\ pc'[w] = to /\ (\A o \in Writer : o # w => pc'[o] = pc[o]) /\ (\A a \in Acceptor : pc'[a] = pc[a])
  BY <1>1
<1>3. /\ dir' \in [Dir -> Directory \cup {None}] /\ project' \in Dir \cup {None} /\ aside' \subseteq Dir
      /\ PlaceInv' /\ QuietStub'
      /\ project # None => /\ project' = project /\ dir'[project].history = dir[project].history
                           /\ Ids(dir[project].log) \subseteq Ids(dir'[project].log)
  BY DiskStepPlaces
<1>4. TypeInv'
  BY <1>2, <1>3 DEF SwapInv, TypeInv
<1>5. AtomicInv'
  BY <1>2 DEF SwapInv, AtomicInv
<1>6. ~overlapped' => \A a \in Acceptor : pc[a] \notin Accepting
  BY DEF SwapInv, WriterInv
<1>7. \A a \in Acceptor : AcceptorInv(a)'
  BY <1>2, <1>6, DiskStepAcceptors
<1>8. \E m \in Dir : Main(m)'
  BY <1>2, DiskStepMain
<1>9. WriterInv(w)'
  BY <1>2, <1>3, <1>6 DEF WriterInv
<1>10. ASSUME NEW o \in Writer, o # w
       PROVE  WriterInv(o)'
  <2>1. WriterInv(o)
    BY DEF SwapInv
  <2> QED
    BY <1>2, <1>3, <1>6, <1>10, <2>1 DEF WriterInv
<1> QED
  BY <1>3, <1>4, <1>5, <1>7, <1>8, <1>9, <1>10 DEF SwapInv

LEMMA FreshIsFree == Free # {} => Fresh \in Dir /\ dir[Fresh] = None
<1>1. Free # {} => Fresh \in Free
  BY DEF Fresh
<1> QED
  BY <1>1 DEF Free

\* Writing the project at its path, as the runtime does, is a step of that kind.
LEMMA WritesThrough ==
  ASSUME SwapInv, NEW d \in Directory, WriteThrough(d), overlapped => overlapped', d.history = At.history,
         d.log = At.log \/ \E e \in Event : d.log = Append(At.log, e), d.state = At.state
  PROVE  DiskStep /\ project' \in Dir /\ dir'[project'] = d
<1>1. TypeInv /\ PlaceInv /\ QuietStub
  BY DEF SwapInv
<1>2. dir \in [Dir -> Directory \cup {None}] /\ project \in Dir \cup {None} /\ None \notin Dir
  BY <1>1, Directories DEF TypeInv
<1>3. PICK q : q = project'
  OBVIOUS
<1>4. q = (IF project = None THEN Fresh ELSE project) /\ dir' = [dir EXCEPT ![q] = d] /\ aside' = aside
      /\ (project = None => Free # {})
  BY <1>3 DEF WriteThrough
<1>5. q \in Dir /\ dir'[q] = d /\ (project = None => dir[q] = None)
  BY <1>2, <1>4, FreshIsFree
<1>6. CASE project = None
  <2>1. d.history = <<>> /\ d.state = None
    BY <1>6 DEF At, Stub
  <2> QED
    BY <1>3, <1>4, <1>5, <1>6, <2>1 DEF DiskStep
<1>7. CASE project # None
  <2>1. d.history = dir[project].history /\ d.state = dir[project].state /\ q = project
        /\ (d.log = dir[project].log \/ \E e \in Event : d.log = Append(dir[project].log, e))
    BY <1>4, <1>7 DEF At
  <2>2. (d.history # <<>> => d.state # None) /\ (~overlapped' /\ d.history = <<>> => d.state = None)
    BY <1>1, <1>7, <2>1 DEF PlaceInv, QuietStub
  <2> QED
    BY <1>3, <1>4, <1>5, <1>7, <2>1, <2>2 DEF DiskStep
<1> QED
  BY <1>3, <1>5, <1>6, <1>7

LEMMA AtIsADirectory == SwapInv => At \in Directory
<1> SUFFICES ASSUME SwapInv PROVE At \in Directory
  OBVIOUS
<1>1. TypeInv /\ PlaceInv
  BY DEF SwapInv
<1> QED
  BY <1>1, Directories DEF TypeInv, PlaceInv, At

-----------------------------------------------------------------------------
(* Runtime calls.                                                          *)

LEMMA OpenLockKeeps ==
  ASSUME SwapInv, NEW w \in Writer, OpenLock(w)
  PROVE  SwapInv'
<1>1. TypeInv /\ WriterInv(w) /\ Writer \subseteq Process
  BY DEF SwapInv, Process
<1>2. pc[w] = "idle" /\ pc' = [pc EXCEPT ![w] = "opened"] /\ calls' = [calls EXCEPT ![w] = @ + 1]
      /\ WriteThrough(At) /\ bound' = [bound EXCEPT ![w] = project']
      /\ overlapped' = (overlapped \/ \E a \in Acceptor : pc[a] \in Accepting)
      /\ UNCHANGED <<base, named, candidate, original, staging, copied, rollback, answered, accepted>>
  BY DEF OpenLock, Goto
<1>3. DiskStep /\ project' \in Dir
  BY <1>2, AtIsADirectory, WritesThrough
<1>4. calls' \in [Process -> Nat] /\ bound' \in [Writer -> Dir \cup {None}] /\ overlapped' \in BOOLEAN
      /\ base' \in [Writer -> Seq(Event)] /\ named' \in [Writer -> Handoff \cup {None}]
  BY <1>1, <1>2, <1>3 DEF TypeInv
<1>5. \A o \in Writer : o # w => calls'[o] = calls[o] /\ base'[o] = base[o]
  BY <1>1, <1>2 DEF TypeInv
<1> QED
  BY <1>2, <1>3, <1>4, <1>5, WriterMoves DEF Calling

LEMMA AcquireLockKeeps ==
  ASSUME SwapInv, NEW w \in Writer, AcquireLock(w)
  PROVE  SwapInv'
<1>1. TypeInv
  BY DEF SwapInv
<1>2. pc[w] = "opened" /\ pc' = [pc EXCEPT ![w] = "check"] /\ UNCHANGED <<disk, calls, locals, promises>>
  BY DEF AcquireLock, Goto
<1>3. DiskStep
  BY <1>2 DEF DiskStep, disk
<1> QED
  BY <1>1, <1>2, <1>3, WriterMoves DEF Calling, locals, promises, TypeInv

LEMMA CheckedRuntimeKeeps ==
  ASSUME SwapInv, NEW w \in Writer, CheckedRuntime(w)
  PROVE  SwapInv'
<1>1. TypeInv /\ QuietStub /\ PlaceInv
  BY DEF SwapInv
<1>2. PICK to : to = IF Healthy(At) THEN "append" ELSE "return"
  OBVIOUS
<1>3. pc[w] = "check" /\ pc' = [pc EXCEPT ![w] = to] /\ base' = [base EXCEPT ![w] = At.log]
      /\ UNCHANGED <<disk, calls, bound, named, candidate, original, staging, copied, rollback, promises>>
  BY <1>2 DEF CheckedRuntime, Goto
<1>4. DiskStep
  BY <1>3 DEF DiskStep, disk
<1>5. At \in Directory /\ At.log \in Seq(Event)
  BY AtIsADirectory DEF Directory
<1>6. base' \in [Writer -> Seq(Event)] /\ base'[w] = At.log /\ \A o \in Writer : o # w => base'[o] = base[o]
  BY <1>1, <1>3, <1>5 DEF TypeInv
<1>7. Healthy(At) => At.state # None /\ At.log # <<>>
  BY <1>5, Directories DEF Healthy, Directory, Projection
<1>8. Healthy(At) => project # None
  BY <1>7 DEF At, Stub
<1>9. Healthy(At) /\ ~overlapped => dir[project].history # <<>>
  BY <1>1, <1>7, <1>8 DEF At, QuietStub
<1> QED
  BY <1>1, <1>2, <1>3, <1>4, <1>6, <1>7, <1>8, <1>9, WriterMoves DEF Calling, promises, TypeInv

LEMMA AppendEventKeeps ==
  ASSUME SwapInv, NEW w \in Writer, NEW to \in State, AppendEvent(w, to)
  PROVE  SwapInv'
<1>1. TypeInv /\ WriterInv(w) /\ w \in Process
  BY DEF SwapInv, Process
<1>2. PICK e : e = [id |-> [by |-> w, call |-> calls[w]], after |-> Last(base[w]).id,
                    from |-> Last(base[w]).to, to |-> to, handoff |-> None]
  OBVIOUS
<1>3. PICK d : d = [At EXCEPT !.log = Append(@, e)]
  OBVIOUS
<1>4. pc[w] = "append" /\ pc' = [pc EXCEPT ![w] = "project"] /\ WriteThrough(d)
      /\ base' = [base EXCEPT ![w] = Append(@, e)]
      /\ UNCHANGED <<calls, bound, named, candidate, original, staging, copied, rollback, promises>>
  BY <1>2, <1>3 DEF AppendEvent, Goto
<1>5. base[w] # <<>> /\ base[w] \in Seq(Event)
  BY <1>1, <1>4 DEF WriterInv, TypeInv
<1>6. e \in Event
  <2>1. Last(base[w]) \in Event /\ calls[w] \in Nat
    BY <1>1, <1>5, LastOfSeq DEF TypeInv
  <2> QED
    BY <1>1, <1>2, <2>1 DEF Event, EventId
<1>7. At \in Directory
  BY AtIsADirectory
<1>8. /\ d \in Directory /\ d.history = At.history /\ d.state = At.state /\ d.log = Append(At.log, e)
      /\ At.log \in Seq(Event)
  BY <1>3, <1>6, <1>7 DEF Directory
<1>9. DiskStep /\ dir'[project'] = d
  BY <1>4, <1>6, <1>8, WritesThrough DEF promises
<1>10. base' \in [Writer -> Seq(Event)] /\ base'[w] # <<>> /\ \A o \in Writer : o # w => base'[o] = base[o]
  <2>1. Append(base[w], e) \in Seq(Event) /\ Append(base[w], e) # <<>>
    BY <1>5, <1>6
  <2> QED
    BY <1>1, <1>4, <2>1 DEF TypeInv
<1>11. [by |-> w, call |-> calls'[w]] \in Ids(dir'[project'].log)
  <2>1. e.id \in Ids(Append(At.log, e))
    BY <1>6, <1>8, IdsOfAppend
  <2> QED
    BY <1>2, <1>4, <1>8, <1>9, <2>1
<1>12. ~overlapped' => project # None /\ dir[project].history # <<>>
  BY <1>1, <1>4 DEF WriterInv, promises
<1> QED
  BY <1>1, <1>4, <1>9, <1>10, <1>11, <1>12, WriterMoves DEF Calling, promises, TypeInv

\* Writing one file of the project, if there is one.
LEMMA OneFile ==
  ASSUME SwapInv, NEW new \in Directory, project # None,
         dir' = [d \in Dir |-> IF d = project THEN new ELSE dir[d]], UNCHANGED <<project, aside, overlapped>>,
         new.history = dir[project].history, new.log = dir[project].log,
         new.history # <<>> => new.state # None,
         ~overlapped /\ new.history = <<>> => new.state = None
  PROVE  DiskStep /\ dir'[project'].log = dir[project].log
<1>1. dir \in [Dir -> Directory \cup {None}] /\ project \in Dir
  BY DEF SwapInv, TypeInv
<1>2. dir' = [dir EXCEPT ![project'] = new]
  BY <1>1
<1>3. dir'[project'] = new
  BY <1>1
<1> QED
  BY <1>1, <1>2, <1>3 DEF DiskStep

LEMMA WriteStateKeeps ==
  ASSUME SwapInv, NEW w \in Writer, WriteState(w)
  PROVE  SwapInv'
<1>1. TypeInv /\ WriterInv(w) /\ PlaceInv
  BY DEF SwapInv
<1>2. PICK to : to = IF project = None THEN "return" ELSE "readManifest"
  OBVIOUS
<1>3. pc[w] = "project" /\ pc' = [pc EXCEPT ![w] = to]
      /\ dir' = [d \in Dir |-> IF d = project THEN [dir[d] EXCEPT !.state = base[w]] ELSE dir[d]]
      /\ UNCHANGED <<project, aside, calls, locals, promises>>
  BY <1>2 DEF WriteState, Goto
<1>4. base[w] # <<>> /\ base[w] \in Seq(Event)
  BY <1>1, <1>3 DEF WriterInv, TypeInv
<1>5. ~overlapped => project # None /\ dir[project].history # <<>> /\ [by |-> w, call |-> calls[w]] \in Ids(dir[project].log)
  BY <1>1, <1>3 DEF WriterInv
<1>6. CASE project = None
  <2>1. dir' = dir
    BY <1>1, <1>3, <1>6, Directories DEF TypeInv
  <2>2. DiskStep
    BY <1>3, <2>1 DEF DiskStep
  <2> QED
    BY <1>1, <1>2, <1>3, <1>5, <1>6, <2>2, WriterMoves DEF Calling, locals, promises, TypeInv
<1>7. CASE project # None
  <2>1. PICK new : new = [dir[project] EXCEPT !.state = base[w]]
    OBVIOUS
  <2>2. dir[project] \in Directory
    BY <1>1, <1>7 DEF TypeInv, PlaceInv
  <2>3. new \in Directory /\ new.history = dir[project].history /\ new.log = dir[project].log /\ new.state = base[w]
    BY <1>4, <2>1, <2>2 DEF Directory, Projection
  <2>4. dir' = [d \in Dir |-> IF d = project THEN new ELSE dir[d]]
    BY <1>3, <2>1
  <2>5. DiskStep /\ dir'[project'].log = dir[project].log
    BY <1>3, <1>4, <1>5, <1>7, <2>3, <2>4, OneFile, Directories DEF promises
  <2> QED
    BY <1>1, <1>2, <1>3, <1>5, <1>7, <2>5, WriterMoves DEF Calling, locals, promises, TypeInv
<1> QED
  BY <1>6, <1>7

LEMMA ReadManifestKeeps ==
  ASSUME SwapInv, NEW w \in Writer, ReadManifest(w)
  PROVE  SwapInv'
<1>1. TypeInv /\ WriterInv(w)
  BY DEF SwapInv
<1>2. PICK to : to = IF At.manifest = None THEN "answer" ELSE "writeManifest"
  OBVIOUS
<1>3. pc[w] = "readManifest" /\ pc' = [pc EXCEPT ![w] = to] /\ named' = [named EXCEPT ![w] = At.manifest]
      /\ UNCHANGED <<disk, calls, bound, base, candidate, original, staging, copied, rollback, promises>>
  BY <1>2 DEF ReadManifest, Goto
<1>4. DiskStep /\ project' = project /\ dir' = dir
  BY <1>3 DEF DiskStep, disk
<1>5. At.manifest \in Handoff \cup {None}
  BY AtIsADirectory DEF Directory
<1>6. named' \in [Writer -> Handoff \cup {None}]
  BY <1>1, <1>3, <1>5 DEF TypeInv
<1>7. to \in {"answer", "writeManifest"}
  BY <1>2
<1> QED
  BY <1>1, <1>3, <1>4, <1>6, <1>7, WriterMoves DEF Calling, promises, TypeInv, WriterInv

LEMMA WriteManifestKeeps ==
  ASSUME SwapInv, NEW w \in Writer, WriteManifest(w)
  PROVE  SwapInv'
<1>1. TypeInv /\ WriterInv(w) /\ PlaceInv /\ QuietStub
  BY DEF SwapInv
<1>2. PICK to : to = IF project = None THEN "return" ELSE "answer"
  OBVIOUS
<1>3. pc[w] = "writeManifest" /\ pc' = [pc EXCEPT ![w] = to]
      /\ dir' = [d \in Dir |-> IF d = project THEN [dir[d] EXCEPT !.manifest = named[w]] ELSE dir[d]]
      /\ UNCHANGED <<project, aside, calls, locals, promises>>
  BY <1>2 DEF WriteManifest, Goto
<1>4. named[w] \in Handoff \cup {None}
  BY <1>1 DEF TypeInv
<1>5. ~overlapped => project # None /\ dir[project].history # <<>> /\ [by |-> w, call |-> calls[w]] \in Ids(dir[project].log)
  BY <1>1, <1>3 DEF WriterInv
<1>6. CASE project = None
  <2>1. dir' = dir
    BY <1>1, <1>3, <1>6, Directories DEF TypeInv
  <2>2. DiskStep
    BY <1>3, <2>1 DEF DiskStep
  <2> QED
    BY <1>1, <1>2, <1>3, <1>5, <1>6, <2>2, WriterMoves DEF Calling, locals, promises, TypeInv
<1>7. CASE project # None
  <2>1. PICK new : new = [dir[project] EXCEPT !.manifest = named[w]]
    OBVIOUS
  <2>2. dir[project] \in Directory
    BY <1>1, <1>7 DEF TypeInv, PlaceInv
  <2>3. new \in Directory /\ new.history = dir[project].history /\ new.log = dir[project].log /\ new.state = dir[project].state
    BY <1>4, <2>1, <2>2 DEF Directory
  <2>4. dir' = [d \in Dir |-> IF d = project THEN new ELSE dir[d]]
    BY <1>3, <2>1
  <2>5. DiskStep /\ dir'[project'].log = dir[project].log
    BY <1>1, <1>3, <1>7, <2>3, <2>4, OneFile DEF promises, PlaceInv, QuietStub
  <2> QED
    BY <1>1, <1>2, <1>3, <1>5, <1>7, <2>5, WriterMoves DEF Calling, locals, promises, TypeInv
<1> QED
  BY <1>6, <1>7

LEMMA Forgotten ==
  ASSUME SwapInv, NEW w \in Writer, ForgetWriter(w)
  PROVE  /\ bound' \in [Writer -> Dir \cup {None}] /\ base' \in [Writer -> Seq(Event)]
         /\ named' \in [Writer -> Handoff \cup {None}]
         /\ \A o \in Writer : o # w => base'[o] = base[o]
         /\ UNCHANGED <<candidate, original, staging, copied, rollback>>
BY Directories DEF SwapInv, TypeInv, ForgetWriter

LEMMA ReturnCallKeeps ==
  ASSUME SwapInv, NEW w \in Writer, ReturnCall(w)
  PROVE  SwapInv'
<1>1. TypeInv /\ WriterInv(w)
  BY DEF SwapInv
<1>2. /\ pc' = [pc EXCEPT ![w] = "idle"] /\ ForgetWriter(w) /\ UNCHANGED <<disk, calls, accepted, overlapped>>
      /\ \/ pc[w] = "answer" /\ answered' = answered \cup {[by |-> w, call |-> calls[w]]}
         \/ pc[w] = "return" /\ answered' = answered
  BY DEF ReturnCall, Goto
<1>3. DiskStep
  BY <1>2 DEF DiskStep, disk
<1>4. pc[w] # "idle"
  BY <1>2
<1>5. \/ answered' = answered
      \/ ~overlapped' => /\ project # None /\ dir[project].history # <<>>
                         /\ answered' \subseteq answered \cup Ids(dir[project].log)
  BY <1>1, <1>2 DEF WriterInv
<1>6. calls' \in [Process -> Nat] /\ calls' = calls /\ overlapped' \in BOOLEAN /\ accepted' = accepted
  BY <1>1, <1>2 DEF TypeInv
<1> QED
  BY <1>2, <1>3, <1>4, <1>5, <1>6, Forgotten, WriterMoves DEF Calling

LEMMA CrashCallKeeps ==
  ASSUME SwapInv, NEW w \in Writer, CrashCall(w)
  PROVE  SwapInv'
<1>1. TypeInv
  BY DEF SwapInv
<1>2. /\ pc[w] # "idle" /\ pc' = [pc EXCEPT ![w] = "idle"] /\ ForgetWriter(w) /\ UNCHANGED <<disk, calls, promises>>
  BY DEF CrashCall
<1>3. DiskStep
  BY <1>2 DEF DiskStep, disk
<1>4. calls' \in [Process -> Nat] /\ calls' = calls /\ overlapped' \in BOOLEAN /\ accepted' = accepted
      /\ answered' = answered
  BY <1>1, <1>2 DEF TypeInv, promises
<1> QED
  BY <1>2, <1>3, <1>4, Forgotten, WriterMoves DEF Calling, promises

-----------------------------------------------------------------------------
(* What acceptances do to the disk.                                        *)

\* Only a copy changes, neither the project nor what was moved aside.
CopyStep ==
  /\ UNCHANGED <<project, aside>> /\ dir' \in [Dir -> Directory \cup {None}]
  /\ \A d \in Dir : d = project \/ d \in aside => dir'[d] = dir[d]

LEMMA CopyStepKeeps ==
  ASSUME SwapInv, CopyStep, overlapped => overlapped', overlapped' \in BOOLEAN, answered' = answered,
         \A c \in accepted' : c \in accepted \/ (project # None /\ c \in ToSet(dir[project].history)),
         \A b \in Acceptor : pc'[b] = "moveIn" => pc[b] = "moveIn" /\ rollback'[b] = rollback[b]
  PROVE  PlaceInv' /\ QuietStub' /\ \E m \in Dir : Main(m)'
<1>1. TypeInv /\ PlaceInv /\ QuietStub
  BY DEF SwapInv
<1>2. PICK m \in Dir : Main(m)
  BY DEF SwapInv
<1>3. /\ project' = project /\ aside' = aside /\ aside \subseteq Dir /\ project \in Dir \cup {None} /\ None \notin Dir
      /\ project # None => dir'[project] = dir[project]
      /\ \A d \in aside : dir'[d] = dir[d]
  BY <1>1, Directories DEF CopyStep, TypeInv
<1>4. PlaceInv' /\ QuietStub'
  BY <1>1, <1>3 DEF PlaceInv, QuietStub
<1>5. m \in aside' \cup ({project'} \ {None}) /\ dir'[m] = dir[m]
  BY <1>2, <1>3 DEF Main
<1>6. project # None /\ dir[project].history # <<>> => m = project
  BY <1>2 DEF Main
<1>7. accepted' \subseteq ToSet(dir'[m].history)
  <2>1. ASSUME NEW c \in accepted', project # None, c \in ToSet(dir[project].history)
        PROVE  m = project
    BY <1>6, <2>1 DEF ToSet
  <2> QED
    BY <1>2, <1>5, <2>1 DEF Main
<1>8. Main(m)'
  BY <1>2, <1>3, <1>5, <1>6, <1>7 DEF Main
<1> QED
  BY <1>4, <1>8

\* A step of an acceptance.
LEMMA AcceptorMoves ==
  ASSUME SwapInv, NEW a \in Acceptor, NEW to \in Accepting \cup {"idle", "offered"}, pc' = [pc EXCEPT ![a] = to],
         \/ pc[a] \in Accepting
         \/ UNCHANGED <<disk, overlapped>> /\ to \notin Accepting
         \/ /\ UNCHANGED disk /\ \A b \in Acceptor : pc[b] \notin Accepting
            /\ ~overlapped' => \A w \in Writer : pc[w] = "idle",
         overlapped => overlapped', overlapped' \in BOOLEAN, UNCHANGED <<bound, base, named, answered>>,
         dir' \in [Dir -> Directory \cup {None}], project' \in Dir \cup {None}, aside' \subseteq Dir,
         calls' \in [Process -> Nat],
         candidate' \in [Acceptor -> Handoff \cup {None}], original' \in [Acceptor -> State \cup {None}],
         staging' \in [Acceptor -> Dir \cup {None}], rollback' \in [Acceptor -> Dir \cup {None}],
         copied' \in [Acceptor -> SUBSET {"log", "state"}],
         \A p \in Process : p # a => calls'[p] = calls[p],
         \A b \in Acceptor : b # a =>
           /\ candidate'[b] = candidate[b] /\ original'[b] = original[b] /\ staging'[b] = staging[b]
           /\ rollback'[b] = rollback[b] /\ copied'[b] = copied[b],
         PlaceInv', QuietStub', AcceptorInv(a)', \E m \in Dir : Main(m)'
  PROVE  SwapInv'
<1>1. /\ TypeInv /\ AtomicInv /\ DOMAIN pc = Process /\ Process = Writer \cup Acceptor /\ Writer \cap Acceptor = {}
  BY ProcessAssumption DEF SwapInv, TypeInv, Process
<1>2. DOMAIN pc' = Process /\ pc'[a] = to /\ (\A w \in Writer : pc'[w] = pc[w]) /\ (\A b \in Acceptor : b # a => pc'[b] = pc[b])
  BY <1>1
<1>3. TypeInv'
  BY <1>1, <1>2 DEF TypeInv
<1>4. AtomicInv'
  BY <1>1, <1>2 DEF AtomicInv
<1>5. ASSUME NEW b \in Acceptor, b # a
      PROVE  AcceptorInv(b)'
  <2>1. AcceptorInv(b)
    BY DEF SwapInv
  <2>2. CASE UNCHANGED <<disk, overlapped>>
    BY <1>2, <1>5, <2>1, <2>2 DEF AcceptorInv, StagingInv, Continues, Replayed, disk
  <2>3. CASE pc[b] \notin Accepting
    <3>1. pc[b] \in {"idle", "offered"}
      BY <1>1, <2>3 DEF TypeInv
    <3>2. staging[b] = None /\ copied[b] = {} /\ (pc[b] # "idle" => candidate[b] \in Handoff)
      BY <2>1, <3>1 DEF AcceptorInv, StagingInv
    <3>3. pc'[b] = pc[b] /\ staging'[b] = None /\ copied'[b] = {} /\ candidate'[b] = candidate[b]
      BY <1>2, <1>5, <3>2
    <3>4. StagingInv(b)'
      BY <3>1, <3>3 DEF StagingInv
    <3>5. (pc'[b] # "idle" => candidate'[b] \in Handoff) /\ pc'[b] \in {"idle", "offered"}
      BY <3>1, <3>2, <3>3
    <3> QED
      BY <3>3, <3>4, <3>5 DEF AcceptorInv
  <2> QED
    BY <1>1, <1>5, <2>2, <2>3 DEF AtomicInv
<1>6. ASSUME NEW w \in Writer
      PROVE  WriterInv(w)'
  <2>1. WriterInv(w)
    BY DEF SwapInv
  <2>2. w \in Process /\ w # a /\ calls'[w] = calls[w] /\ pc'[w] = pc[w] /\ base'[w] = base[w]
    BY <1>1, <1>2
  <2>3. ~overlapped' /\ pc[w] # "idle" => /\ UNCHANGED disk /\ \A b \in Acceptor : pc'[b] \notin Accepting
    BY <1>2, <2>1 DEF WriterInv
  <2>4. (dir' = dir /\ project' = project) \/ overlapped' \/ pc[w] = "idle"
    BY <2>3 DEF disk
  <2> QED
    BY <2>1, <2>2, <2>3, <2>4 DEF WriterInv
<1> QED
  BY <1>3, <1>4, <1>5, <1>6 DEF SwapInv

\* A step that leaves the disk, the history of acceptances and the overlap alone.
LEMMA UndisturbedDisk ==
  ASSUME SwapInv, UNCHANGED disk
  PROVE  CopyStep /\ dir' = dir /\ project' = project /\ aside' = aside
         /\ project' \in Dir \cup {None} /\ aside' \subseteq Dir
BY DEF SwapInv, TypeInv, disk, CopyStep

-----------------------------------------------------------------------------
(* Acceptances.                                                            *)

LEMMA AcceptorTypes ==
  ASSUME SwapInv
  PROVE  /\ calls \in [Process -> Nat] /\ candidate \in [Acceptor -> Handoff \cup {None}]
         /\ original \in [Acceptor -> State \cup {None}] /\ staging \in [Acceptor -> Dir \cup {None}]
         /\ rollback \in [Acceptor -> Dir \cup {None}] /\ copied \in [Acceptor -> SUBSET {"log", "state"}]
         /\ overlapped \in BOOLEAN /\ dir \in [Dir -> Directory \cup {None}] /\ project \in Dir \cup {None}
         /\ aside \subseteq Dir /\ None \notin Dir /\ None \notin Directory /\ Acceptor \subseteq Process
BY Directories DEF SwapInv, TypeInv, Process

LEMMA OfferKeeps ==
  ASSUME SwapInv, NEW a \in Acceptor, NEW c \in Candidate, Offer(a, c)
  PROVE  SwapInv'
<1>1. /\ pc[a] = "idle" /\ pc' = [pc EXCEPT ![a] = "offered"] /\ calls' = [calls EXCEPT ![a] = @ + 1]
      /\ candidate' = [candidate EXCEPT ![a] = c]
      /\ UNCHANGED <<disk, bound, base, named, original, staging, copied, rollback, answered, accepted, overlapped>>
  BY DEF Offer, Goto, promises
<1>2. c \in Handoff
  BY DEF Handoff
<1>3. /\ calls' \in [Process -> Nat] /\ candidate' \in [Acceptor -> Handoff \cup {None}] /\ candidate'[a] = c
      /\ \A b \in Acceptor : b # a => candidate'[b] = candidate[b]
      /\ \A p \in Process : p # a => calls'[p] = calls[p]
  BY <1>1, <1>2, AcceptorTypes
<1>4. CopyStep /\ dir' \in [Dir -> Directory \cup {None}] /\ project' \in Dir \cup {None} /\ aside' \subseteq Dir
  BY <1>1, UndisturbedDisk DEF CopyStep
<1>5. DOMAIN pc = Process
  BY DEF SwapInv, TypeInv
<1>6. \A b \in Acceptor : pc'[b] = "moveIn" => pc[b] = "moveIn" /\ rollback'[b] = rollback[b]
  BY <1>1, <1>5, AcceptorTypes
<1>7. PlaceInv' /\ QuietStub' /\ \E m \in Dir : Main(m)'
  BY <1>1, <1>4, <1>6, AcceptorTypes, CopyStepKeeps
<1>8. AcceptorInv(a)'
  <2>1. pc'[a] = "offered" /\ staging'[a] = staging[a] /\ copied'[a] = copied[a]
    BY <1>1, <1>5, AcceptorTypes
  <2>2. AcceptorInv(a)
    BY DEF SwapInv
  <2>3. staging[a] = None /\ copied[a] = {}
    BY <1>1, <2>2 DEF AcceptorInv, StagingInv
  <2>4. StagingInv(a)'
    BY <2>1, <2>3 DEF StagingInv
  <2> QED
    BY <1>2, <1>3, <2>1, <2>3, <2>4 DEF AcceptorInv
<1>9. "offered" \notin Accepting
  BY DEF Accepting
<1> QED
  BY <1>1, <1>3, <1>4, <1>7, <1>8, <1>9, AcceptorTypes, AcceptorMoves

LEMMA LockBesideKeeps ==
  ASSUME SwapInv, NEW a \in Acceptor, LockBeside(a)
  PROVE  SwapInv'
<1>1. /\ pc[a] = "offered" /\ pc' = [pc EXCEPT ![a] = "examine"]
      /\ \A b \in Acceptor : pc[b] \notin Accepting
      /\ overlapped' = (overlapped \/ \E w \in Writer : pc[w] # "idle")
      /\ UNCHANGED <<disk, calls, bound, base, named, candidate, original, staging, copied, rollback, answered, accepted>>
  BY DEF LockBeside, Goto, locals
<1>2. DOMAIN pc = Process
  BY DEF SwapInv, TypeInv
<1>3. CopyStep /\ dir' \in [Dir -> Directory \cup {None}] /\ project' \in Dir \cup {None} /\ aside' \subseteq Dir
  BY <1>1, UndisturbedDisk DEF CopyStep
<1>4. \A b \in Acceptor : pc'[b] = "moveIn" => pc[b] = "moveIn" /\ rollback'[b] = rollback[b]
  BY <1>1, <1>2, AcceptorTypes
<1>5. overlapped' \in BOOLEAN
  BY <1>1, AcceptorTypes
<1>6. PlaceInv' /\ QuietStub' /\ \E m \in Dir : Main(m)'
  BY <1>1, <1>3, <1>4, <1>5, CopyStepKeeps
<1>7. AcceptorInv(a)'
  <2>1. pc'[a] = "examine" /\ staging'[a] = staging[a] /\ copied'[a] = copied[a] /\ candidate'[a] = candidate[a]
    BY <1>1, <1>2, AcceptorTypes
  <2>2. AcceptorInv(a)
    BY DEF SwapInv
  <2>3. staging[a] = None /\ copied[a] = {} /\ candidate[a] \in Handoff
    BY <1>1, <2>2 DEF AcceptorInv, StagingInv
  <2>4. StagingInv(a)'
    BY <2>1, <2>3 DEF StagingInv
  <2> QED
    BY <2>1, <2>3, <2>4 DEF AcceptorInv
<1>8. "examine" \in Accepting
  BY DEF Accepting
<1>9. \A w \in Writer : ~overlapped' => pc[w] = "idle"
  BY <1>1
<1> QED
  BY <1>1, <1>3, <1>5, <1>6, <1>7, <1>8, <1>9, AcceptorTypes, AcceptorMoves

\* The step of one acceptance that writes its copy s at most.
LEMMA CopyMoves ==
  ASSUME SwapInv, NEW a \in Acceptor, pc[a] \in Accepting, NEW to \in Accepting \cup {"idle"}, to # "moveIn",
         pc' = [pc EXCEPT ![a] = to], CopyStep,
         UNCHANGED <<calls, bound, base, named, answered, overlapped>>,
         \A c \in accepted' : c \in accepted \/ (project # None /\ c \in ToSet(dir[project].history)),
         candidate' \in [Acceptor -> Handoff \cup {None}], original' \in [Acceptor -> State \cup {None}],
         staging' \in [Acceptor -> Dir \cup {None}], rollback' \in [Acceptor -> Dir \cup {None}],
         copied' \in [Acceptor -> SUBSET {"log", "state"}],
         \A b \in Acceptor : b # a =>
           /\ candidate'[b] = candidate[b] /\ original'[b] = original[b] /\ staging'[b] = staging[b]
           /\ rollback'[b] = rollback[b] /\ copied'[b] = copied[b],
         AcceptorInv(a)'
  PROVE  SwapInv'
<1>1. DOMAIN pc = Process
  BY DEF SwapInv, TypeInv
<1>2. \A b \in Acceptor : pc'[b] = "moveIn" => pc[b] = "moveIn" /\ rollback'[b] = rollback[b]
  BY <1>1, AcceptorTypes
<1>3. PlaceInv' /\ QuietStub' /\ \E m \in Dir : Main(m)'
  BY <1>2, AcceptorTypes, CopyStepKeeps
<1>4. dir' \in [Dir -> Directory \cup {None}] /\ project' \in Dir \cup {None} /\ aside' \subseteq Dir
  BY AcceptorTypes DEF CopyStep
<1> QED
  BY <1>3, <1>4, AcceptorTypes, AcceptorMoves

LEMMA ExamineKeeps ==
  ASSUME SwapInv, NEW a \in Acceptor, Examine(a)
  PROVE  SwapInv'
<1>1. TypeInv /\ PlaceInv /\ AcceptorInv(a) /\ DOMAIN pc = Process
  BY DEF SwapInv, TypeInv
<1>2. PICK v, s : v = Verdict(candidate[a]) /\ s = IF v = "copy" THEN Fresh ELSE None
  OBVIOUS
<1>3. /\ pc[a] = "examine" /\ pc' = [pc EXCEPT ![a] = v] /\ (v = "copy" => Free # {})
      /\ original' = [original EXCEPT ![a] = IF v = "copy" THEN Last(At.state).to ELSE None]
      /\ staging' = [staging EXCEPT ![a] = s]
      /\ dir' = [d \in Dir |-> IF d = staging'[a] THEN [Stub EXCEPT !.history = At.history] ELSE dir[d]]
      /\ UNCHANGED <<project, aside, calls, bound, base, named, candidate, copied, rollback, answered, accepted,
                     overlapped>>
  BY <1>2 DEF Examine, Goto, promises
<1>4. v \in {"refuse", "accept", "copy"} /\ candidate[a] \in Handoff /\ pc'[a] = v
  BY <1>1, <1>2, <1>3, AcceptorTypes DEF Verdict, AcceptorInv
<1>5. v # "refuse" => project # None /\ dir[project].history # <<>> /\ At = dir[project]
  BY <1>2 DEF Verdict, Whole, At, Stub
<1>6. v = "accept" => candidate[a] \in ToSet(dir[project].history)
  <2>1. project # None => dir[project] \in Directory
    BY <1>1, AcceptorTypes DEF PlaceInv
  <2>2. v # "refuse" => Last(dir[project].history) \in ToSet(dir[project].history)
    BY <1>5, <2>1, LastOfSeq DEF Directory
  <2> QED
    BY <1>2, <1>5, <2>2 DEF Verdict
<1>7. v = "copy" => candidate[a].revision = Last(dir[project].history).revision + 1
  BY <1>2, <1>5 DEF Verdict
<1>8. v = "copy" => Last(At.state).to \in State
  <2>1. v = "copy" => At.state \in Seq(Event) /\ At.state # <<>>
    BY <1>1, <1>5, AtIsADirectory DEF PlaceInv, Directory, Projection
  <2>2. v = "copy" => Last(At.state) \in Event
    BY <2>1, LastOfSeq
  <2> QED
    BY <2>2 DEF Event
<1>9. v = "copy" => s \in Dir /\ dir[s] = None /\ s \notin aside /\ s # project
  BY <1>1, <1>2, <1>3, FreshIsFree, AcceptorTypes DEF PlaceInv
<1>10. staging' \in [Acceptor -> Dir \cup {None}] /\ staging'[a] = s /\ original' \in [Acceptor -> State \cup {None}]
       /\ (\A b \in Acceptor : b # a => staging'[b] = staging[b] /\ original'[b] = original[b])
       /\ (v = "copy" => original'[a] \in State)
  <2>1. s \in Dir \cup {None}
    BY <1>2, <1>9
  <2> QED
    BY <1>3, <1>8, <2>1, AcceptorTypes
<1>11. PICK new : new = [Stub EXCEPT !.history = At.history]
  OBVIOUS
<1>12. new \in Directory /\ new.history = At.history /\ new # None
  BY <1>11, AtIsADirectory, Directories DEF Directory, Stub
<1>13. dir' = [d \in Dir |-> IF d = s THEN new ELSE dir[d]]
  BY <1>3, <1>10, <1>11
<1>14. CopyStep
  <2>1. \A d \in Dir : d = project \/ d \in aside => d # s
    BY <1>2, <1>9, AcceptorTypes
  <2> QED
    BY <1>3, <1>12, <1>13, <2>1, AcceptorTypes DEF CopyStep
<1>15. AcceptorInv(a)'
  <2>1. StagingInv(a)'
    BY <1>2, <1>3, <1>4, <1>9, <1>10, <1>12, <1>13, AcceptorTypes DEF StagingInv
  <2>2. CASE v = "copy"
    <3>1. copied[a] = {}
      BY <1>1, <1>3 DEF AcceptorInv
    <3> QED
      BY <1>2, <1>3, <1>4, <1>5, <1>7, <1>9, <1>10, <1>12, <1>13, <2>1, <2>2, <3>1, AcceptorTypes DEF AcceptorInv
  <2>3. CASE v = "accept"
    <3>1. dir'[project] = dir[project]
      BY <1>5, <2>3, <1>14, AcceptorTypes DEF CopyStep
    <3> QED
      BY <1>3, <1>4, <1>5, <1>6, <2>1, <2>3, <3>1 DEF AcceptorInv
  <2>4. CASE v = "refuse"
    BY <1>3, <1>4, <2>1, <2>4 DEF AcceptorInv
  <2> QED
    BY <1>4, <2>2, <2>3, <2>4
<1>16. v \in Accepting /\ v # "moveIn" /\ pc[a] \in Accepting
  BY <1>3, <1>4 DEF Accepting
<1> QED
  BY <1>3, <1>10, <1>14, <1>15, <1>16, AcceptorTypes, CopyMoves

\* The copy that an acceptance in "copy" to "moveAway" works on.
LEMMA CopyInUse ==
  ASSUME SwapInv, NEW a \in Acceptor, pc[a] \in {"copy", "build", "validate", "moveAway", "moveIn"}
  PROVE  /\ staging[a] \in Dir /\ dir[staging[a]] \in Directory /\ staging[a] \notin aside /\ staging[a] # project
         /\ pc[a] # "moveIn" => /\ project \in Dir /\ At = dir[project] /\ At \in Directory /\ At.history # <<>>
                                /\ At.state # None
<1>1. PlaceInv /\ AcceptorInv(a) /\ StagingInv(a)
  BY DEF SwapInv, AcceptorInv
<1>2. staging[a] # None
  BY <1>1 DEF StagingInv
<1>3. pc[a] # "moveIn" => project # None /\ dir[project].history # <<>>
  BY <1>1 DEF AcceptorInv
<1> QED
  BY <1>1, <1>2, <1>3, AcceptorTypes, AtIsADirectory DEF StagingInv, PlaceInv, At

\* Writing the copy.
LEMMA CopyWritten ==
  ASSUME SwapInv, NEW a \in Acceptor, pc[a] \in {"copy", "build"}, NEW new \in Directory,
         dir' = [dir EXCEPT ![staging[a]] = new], UNCHANGED <<project, aside>>
  PROVE  CopyStep /\ dir'[staging[a]] = new /\ dir'[project] = dir[project]
<1>1. staging[a] \in Dir /\ staging[a] \notin aside /\ staging[a] # project /\ project \in Dir
  BY CopyInUse
<1>2. dir' \in [Dir -> Directory \cup {None}] /\ dir'[staging[a]] = new
      /\ \A d \in Dir : d # staging[a] => dir'[d] = dir[d]
  BY <1>1, AcceptorTypes
<1> QED
  BY <1>1, <1>2 DEF CopyStep

LEMMA CopyFileKeeps ==
  ASSUME SwapInv, NEW a \in Acceptor, NEW f \in {"log", "state"}, CopyFile(a, f)
  PROVE  SwapInv'
<1>1. TypeInv /\ PlaceInv /\ AcceptorInv(a) /\ StagingInv(a) /\ DOMAIN pc = Process
  BY DEF SwapInv, TypeInv, AcceptorInv
<1>2. PICK to, s : to = (IF copied[a] \cup {f} = {"log", "state"} THEN "build" ELSE "copy") /\ s = staging[a]
  OBVIOUS
<1>3. PICK new : new = [dir[s] EXCEPT ![f] = At[f]]
  OBVIOUS
<1>4. /\ pc[a] = "copy" /\ pc' = [pc EXCEPT ![a] = to] /\ copied' = [copied EXCEPT ![a] = @ \cup {f}]
      /\ dir' = [dir EXCEPT ![s] = new]
      /\ UNCHANGED <<project, aside, calls, bound, base, named, candidate, original, staging, rollback, answered,
                     accepted, overlapped>>
  BY <1>2, <1>3 DEF CopyFile, Goto, promises
<1>5. /\ s \in Dir /\ dir[s] \in Directory /\ s \notin aside /\ s # project /\ project \in Dir /\ At = dir[project]
      /\ At \in Directory /\ At.state # None
  BY <1>2, <1>4, CopyInUse
<1>6. new \in Directory /\ new.history = dir[s].history
      /\ (f = "log" => new.log = At.log /\ new.state = dir[s].state)
      /\ (f = "state" => new.state = At.state /\ new.log = dir[s].log)
  <2>1. CASE f = "log"
    BY <1>3, <1>5, <2>1 DEF Directory
  <2>2. CASE f = "state"
    BY <1>3, <1>5, <2>2 DEF Directory
  <2> QED
    BY <2>1, <2>2
<1>7. copied' \in [Acceptor -> SUBSET {"log", "state"}] /\ copied'[a] = copied[a] \cup {f}
      /\ \A b \in Acceptor : b # a => copied'[b] = copied[b]
  BY <1>4, AcceptorTypes
<1>8. CopyStep /\ dir'[s] = new /\ dir'[project] = dir[project]
  <2>1. pc[a] \in {"copy", "build"} /\ dir' = [dir EXCEPT ![staging[a]] = new] /\ UNCHANGED <<project, aside>>
    BY <1>2, <1>4
  <2>2. new \in Directory
    BY <1>6
  <2> QED
    BY <1>2, <2>1, <2>2, CopyWritten
<1>9. to \in {"copy", "build"} /\ pc'[a] = to /\ (to = "build" => copied'[a] = {"log", "state"})
  BY <1>1, <1>2, <1>4, <1>7, AcceptorTypes
<1>10. AcceptorInv(a)'
  <2>1. StagingInv(a)'
    BY <1>1, <1>2, <1>4, <1>5, <1>6, <1>8, <1>9, AcceptorTypes DEF StagingInv
  <2>2. /\ project # None /\ dir[project].history # <<>> /\ original[a] \in State /\ candidate[a] \in Handoff
        /\ candidate[a].revision = Last(dir[project].history).revision + 1
        /\ dir[s].history = dir[project].history
        /\ "state" \in copied[a] => dir[s].state # None
        /\ "log" \in copied[a] =>
             /\ IsPrefix(dir[s].log, dir[project].log)
             /\ ~overlapped => dir[s].log = dir[project].log
    BY <1>1, <1>2, <1>4 DEF AcceptorInv
  <2>3. IsPrefix(dir[project].log, dir[project].log)
    BY <1>5, PrefixOfItself DEF Directory
  <2>4. "log" \in copied'[a] => /\ IsPrefix(dir'[s].log, dir'[project].log)
                                /\ ~overlapped => dir'[s].log = dir'[project].log
    BY <1>5, <1>6, <1>7, <1>8, <2>2, <2>3
  <2>5. "state" \in copied'[a] => dir'[s].state # None
    BY <1>5, <1>6, <1>7, <1>8, <2>2
  <2> QED
    BY <1>2, <1>4, <1>6, <1>8, <1>9, <2>1, <2>2, <2>4, <2>5 DEF AcceptorInv
<1>11. to \in Accepting /\ to # "moveIn" /\ pc[a] \in Accepting
  BY <1>4, <1>9 DEF Accepting
<1> QED
  BY <1>4, <1>7, <1>8, <1>10, <1>11, AcceptorTypes, CopyMoves

LEMMA BuildKeeps ==
  ASSUME SwapInv, NEW a \in Acceptor, Build(a)
  PROVE  SwapInv'
<1>1. TypeInv /\ PlaceInv /\ AcceptorInv(a) /\ StagingInv(a) /\ DOMAIN pc = Process
  BY DEF SwapInv, TypeInv, AcceptorInv
<1>2. PICK to, s : to = (IF original[a] = "PLANNING" THEN "validate" ELSE "refuse") /\ s = staging[a]
  OBVIOUS
<1>3. PICK e : e = RevisionEvent(a, dir[s].log)
  OBVIOUS
<1>4. PICK new : new = Revised(a, dir[s])
  OBVIOUS
<1>5. /\ pc[a] = "build" /\ pc' = [pc EXCEPT ![a] = to] /\ dir' = [dir EXCEPT ![s] = new]
      /\ UNCHANGED <<project, aside, calls, bound, base, named, candidate, original, staging, copied, rollback,
                     answered, accepted, overlapped>>
  BY <1>2, <1>4 DEF Build, Goto, promises, locals
<1>6. /\ s \in Dir /\ dir[s] \in Directory /\ s \notin aside /\ s # project /\ project \in Dir /\ At = dir[project]
      /\ At \in Directory
  BY <1>2, <1>5, CopyInUse
<1>7. /\ project # None /\ dir[project].history # <<>> /\ original[a] \in State /\ candidate[a] \in Handoff
      /\ candidate[a].revision = Last(dir[project].history).revision + 1
      /\ dir[s].history = dir[project].history /\ dir[s].state # None
      /\ IsPrefix(dir[s].log, dir[project].log)
      /\ ~overlapped => dir[s].log = dir[project].log
  BY <1>1, <1>2, <1>5 DEF AcceptorInv
<1>8. dir[s].log \in Seq(Event) /\ dir[s].state \in Seq(Event) /\ dir[s].history \in Seq(Handoff)
  BY <1>6, <1>7 DEF Directory, Projection
<1>9. e \in Event
  <2>1. dir[s].log # <<>> => Last(dir[s].log).id \in EventId
    <3>1. dir[s].log # <<>> => Last(dir[s].log) \in Event
      BY <1>8, LastOfSeq
    <3> QED
      BY <3>1 DEF Event
  <2>2. [by |-> a, call |-> calls[a]] \in EventId
    BY AcceptorTypes DEF EventId
  <2> QED
    BY <1>3, <1>7, <2>1, <2>2 DEF RevisionEvent, Event, State
<1>10. new = [history |-> Append(dir[s].history, candidate[a]), log |-> Append(dir[s].log, e),
              state |-> Append(dir[s].state, e), manifest |-> candidate[a]]
  BY <1>3, <1>4, <1>7 DEF Revised
<1>11. /\ Append(dir[s].history, candidate[a]) \in Seq(Handoff)
       /\ Append(dir[s].log, e) \in Seq(Event) /\ Append(dir[s].log, e) # <<>>
       /\ Append(dir[s].state, e) \in Seq(Event) /\ Append(dir[s].state, e) # <<>>
  BY <1>7, <1>8, <1>9
<1>12. new \in Directory /\ new.state # None
  BY <1>7, <1>10, <1>11, Directories DEF Directory, Projection
<1>13. CopyStep /\ dir'[s] = new /\ dir'[project] = dir[project]
  BY <1>2, <1>5, <1>12, CopyWritten
<1>14. to \in {"validate", "refuse"} /\ pc'[a] = to
  BY <1>1, <1>2, <1>5, AcceptorTypes
<1>15. AcceptorInv(a)'
  <2>1. StagingInv(a)'
    BY <1>1, <1>2, <1>5, <1>6, <1>12, <1>13, <1>14, AcceptorTypes DEF StagingInv
  <2>2. Continues(a, project)'
    <3>1. Front(new.log) = dir[s].log
      BY <1>8, <1>9, <1>10, FrontOfAppend
    <3>2. ~overlapped => Ids(dir[project].log) \subseteq Ids(new.log)
      BY <1>7, <1>8, <1>9, <1>10, IdsOfAppend
    <3>3. staging'[a] = s /\ candidate'[a] = candidate[a] /\ project' = project /\ overlapped' = overlapped
      BY <1>2, <1>5
    <3>4. /\ new.history = Append(dir[project].history, candidate[a]) /\ new.log # <<>>
          /\ IsPrefix(Front(new.log), dir[project].log)
      BY <1>7, <1>10, <1>11, <3>1
    <3> QED
      BY <1>13, <3>2, <3>3, <3>4 DEF Continues
  <2> QED
    BY <1>2, <1>5, <1>7, <1>12, <1>13, <1>14, <2>1, <2>2 DEF AcceptorInv
<1>16. to \in Accepting /\ to # "moveIn" /\ pc[a] \in Accepting
  BY <1>5, <1>14 DEF Accepting
<1> QED
  BY <1>5, <1>13, <1>15, <1>16, AcceptorTypes, CopyMoves

LEMMA ValidateKeeps ==
  ASSUME SwapInv, NEW a \in Acceptor, Validate(a)
  PROVE  SwapInv'
<1>1. AcceptorInv(a) /\ StagingInv(a) /\ DOMAIN pc = Process
  BY DEF SwapInv, TypeInv, AcceptorInv
<1>2. PICK to : to = IF Healthy(dir[staging[a]]) THEN "moveAway" ELSE "refuse"
  OBVIOUS
<1>3. /\ pc[a] = "validate" /\ pc' = [pc EXCEPT ![a] = to]
      /\ UNCHANGED <<dir, project, aside, calls, bound, base, named, candidate, original, staging, copied, rollback,
                     answered, accepted, overlapped>>
  BY <1>2 DEF Validate, Goto, disk, locals, promises
<1>4. to \in {"moveAway", "refuse"} /\ pc'[a] = to
  BY <1>1, <1>2, <1>3, AcceptorTypes
<1>5. StagingInv(a)'
  BY <1>1, <1>3, <1>4 DEF StagingInv
<1>6. AcceptorInv(a)'
  BY <1>1, <1>2, <1>3, <1>4, <1>5 DEF AcceptorInv, Continues, Replayed, Healthy
<1>7. to \in Accepting /\ to # "moveIn" /\ pc[a] \in Accepting
  BY <1>3, <1>4 DEF Accepting
<1>8. CopyStep
  BY <1>3, AcceptorTypes DEF CopyStep
<1> QED
  BY <1>3, <1>6, <1>7, <1>8, AcceptorTypes, CopyMoves

LEMMA GiveUpKeeps ==
  ASSUME SwapInv, NEW a \in Acceptor, GiveUp(a)
  PROVE  SwapInv'
<1>1. AcceptorInv(a) /\ StagingInv(a) /\ DOMAIN pc = Process
  BY DEF SwapInv, TypeInv, AcceptorInv
<1>2. /\ pc[a] \in {"copy", "build", "validate"} /\ pc' = [pc EXCEPT ![a] = "refuse"]
      /\ UNCHANGED <<dir, project, aside, calls, bound, base, named, candidate, original, staging, copied, rollback,
                     answered, accepted, overlapped>>
  BY DEF GiveUp, disk, locals, promises
<1>3. pc'[a] = "refuse"
  BY <1>1, <1>2, AcceptorTypes
<1>4. StagingInv(a)'
  BY <1>1, <1>2, <1>3 DEF StagingInv
<1>5. AcceptorInv(a)'
  BY <1>1, <1>2, <1>3, <1>4 DEF AcceptorInv
<1>6. "refuse" \in Accepting /\ pc[a] \in Accepting
  BY <1>2 DEF Accepting
<1>7. CopyStep
  BY <1>2, AcceptorTypes DEF CopyStep
<1> QED
  BY <1>2, <1>5, <1>6, <1>7, AcceptorTypes, CopyMoves

\* m is the main directory after a step that takes acceptance a to a new place.
MainNext(m, a, to) ==
  /\ m \in aside' \cup ({project'} \ {None})
  /\ dir'[m].history # <<>> /\ \A i \in DOMAIN dir'[m].history : dir'[m].history[i].revision = i
  /\ accepted \subseteq ToSet(dir'[m].history)
  /\ ~overlapped => answered \subseteq Ids(dir'[m].log)
  /\ project' # None /\ dir'[project'].history # <<>> => m = project'
  /\ to = "moveIn" => m = rollback'[a]

\* The two moves, and their undoing: no file changes, and the one acceptance under way does them.
LEMMA SwapMoves ==
  ASSUME SwapInv, NEW a \in Acceptor, pc[a] \in Accepting, NEW to \in Accepting, pc' = [pc EXCEPT ![a] = to],
         UNCHANGED <<calls, bound, base, named, candidate, original, copied, answered, accepted, overlapped>>,
         dir' \in [Dir -> Directory \cup {None}], project' \in Dir \cup {None}, aside' \subseteq Dir,
         staging' \in [Acceptor -> Dir \cup {None}], rollback' \in [Acceptor -> Dir \cup {None}],
         \A b \in Acceptor : b # a => staging'[b] = staging[b] /\ rollback'[b] = rollback[b],
         PlaceInv', QuietStub', AcceptorInv(a)',
         \E m \in Dir : MainNext(m, a, to)
  PROVE  SwapInv'
<1>1. DOMAIN pc = Process /\ AtomicInv
  BY DEF SwapInv, TypeInv
<1>2. \A b \in Acceptor : pc'[b] = "moveIn" => b = a /\ to = "moveIn"
  <2>1. \A b \in Acceptor : b # a => pc'[b] = pc[b] /\ pc[b] \notin Accepting
    BY <1>1, AcceptorTypes DEF AtomicInv
  <2>2. pc'[a] = to /\ "moveIn" \in Accepting
    BY <1>1, AcceptorTypes DEF Accepting
  <2> QED
    BY <2>1, <2>2
<1>3. PICK m \in Dir : MainNext(m, a, to)
  OBVIOUS
<1>4. Main(m)'
  BY <1>2, <1>3 DEF Main, MainNext
<1>5. \E n \in Dir : Main(n)'
  BY <1>4
<1> QED
  BY <1>5, AcceptorTypes, AcceptorMoves

LEMMA MoveAwayKeeps ==
  ASSUME SwapInv, NEW a \in Acceptor, MoveAway(a)
  PROVE  SwapInv'
<1>1. PlaceInv /\ AcceptorInv(a) /\ StagingInv(a) /\ DOMAIN pc = Process
  BY DEF SwapInv, TypeInv, AcceptorInv
<1>2. PICK p, s : p = project /\ s = staging[a]
  OBVIOUS
<1>3. /\ pc[a] = "moveAway" /\ pc' = [pc EXCEPT ![a] = "moveIn"] /\ aside' = aside \cup {p}
      /\ rollback' = [rollback EXCEPT ![a] = p] /\ project' = None
      /\ UNCHANGED <<dir, calls, bound, base, named, candidate, original, staging, copied, answered, accepted,
                     overlapped>>
  BY <1>2 DEF MoveAway, Goto, promises
<1>4. /\ p \in Dir /\ s \in Dir /\ s \notin aside /\ s # p /\ p # None /\ dir[p] # None /\ dir[p].history # <<>>
      /\ dir[p].state # None /\ s # None
  BY <1>1, <1>2, <1>3, CopyInUse, AcceptorTypes DEF PlaceInv, AcceptorInv
<1>5. pc'[a] = "moveIn" /\ rollback'[a] = p /\ staging'[a] = s
  BY <1>1, <1>2, <1>3, AcceptorTypes
<1>6. PlaceInv'
  BY <1>1, <1>3, <1>4 DEF PlaceInv
<1>7. QuietStub'
  BY <1>3 DEF QuietStub
<1>8. AcceptorInv(a)'
  <2>1. StagingInv(a)'
    BY <1>1, <1>2, <1>3, <1>4, <1>5 DEF StagingInv
  <2>2. Continues(a, rollback[a])'
    BY <1>1, <1>2, <1>3, <1>5 DEF AcceptorInv, Continues
  <2>3. Replayed(a)'
    BY <1>1, <1>2, <1>3, <1>5 DEF AcceptorInv, Replayed
  <2>4. candidate[a] \in Handoff /\ candidate[a].revision = Last(dir[p].history).revision + 1 /\ dir[s].state # None
    BY <1>1, <1>2, <1>3 DEF AcceptorInv
  <2> QED
    BY <1>3, <1>4, <1>5, <2>1, <2>2, <2>3, <2>4 DEF AcceptorInv
<1>9. PICK m \in Dir : Main(m)
  BY DEF SwapInv
<1>10. m = p /\ m \in aside'
  BY <1>2, <1>3, <1>4, <1>9 DEF Main
<1>11. /\ dir[m].history # <<>> /\ \A i \in DOMAIN dir[m].history : dir[m].history[i].revision = i
       /\ accepted \subseteq ToSet(dir[m].history)
       /\ ~overlapped => answered \subseteq Ids(dir[m].log)
  BY <1>9 DEF Main
<1>12. "moveIn" \in Accepting /\ pc[a] \in Accepting
  BY <1>3 DEF Accepting
<1>13. /\ rollback' \in [Acceptor -> Dir \cup {None}] /\ aside' \subseteq Dir
       /\ \A b \in Acceptor : b # a => rollback'[b] = rollback[b]
  BY <1>3, <1>4, AcceptorTypes
<1>14. MainNext(m, a, "moveIn")
  BY <1>3, <1>5, <1>10, <1>11 DEF MainNext
<1> QED
  BY <1>3, <1>5, <1>6, <1>7, <1>8, <1>12, <1>13, <1>14, AcceptorTypes, SwapMoves

LEMMA MoveInKeeps ==
  ASSUME SwapInv, NEW a \in Acceptor, MoveIn(a)
  PROVE  SwapInv'
<1>1. PlaceInv /\ AcceptorInv(a) /\ StagingInv(a) /\ DOMAIN pc = Process
  BY DEF SwapInv, TypeInv, AcceptorInv
<1>2. PICK r, s : r = rollback[a] /\ s = staging[a]
  OBVIOUS
<1>3. /\ project = None /\ pc[a] = "moveIn" /\ pc' = [pc EXCEPT ![a] = "discard"] /\ project' = s
      /\ staging' = [staging EXCEPT ![a] = None]
      /\ UNCHANGED <<dir, aside, calls, bound, base, named, candidate, original, copied, rollback, answered, accepted,
                     overlapped>>
  BY <1>2 DEF MoveIn, Goto, promises
<1>4. /\ s \in Dir /\ s \notin aside /\ s # None /\ dir[s] \in Directory /\ dir[s] # None
  BY <1>2, <1>3, CopyInUse, AcceptorTypes
<1>5. /\ r \in aside /\ dir[s].state # None /\ candidate[a] \in Handoff
      /\ dir[s].history = Append(dir[r].history, candidate[a])
      /\ ~overlapped => Ids(dir[r].log) \subseteq Ids(dir[s].log)
      /\ dir[r].history # <<>> /\ candidate[a].revision = Last(dir[r].history).revision + 1
  BY <1>1, <1>2, <1>3 DEF AcceptorInv, Continues
<1>6. dir[r].history \in Seq(Handoff)
  BY <1>1, <1>5, AcceptorTypes DEF PlaceInv, Directory
<1>7. dir[s].history # <<>> /\ ToSet(dir[s].history) = ToSet(dir[r].history) \cup {candidate[a]}
  BY <1>5, <1>6, ItemsOfAppend
<1>8. pc'[a] = "discard" /\ staging'[a] = None
  BY <1>1, <1>3, AcceptorTypes
<1>9. PlaceInv'
  BY <1>1, <1>3, <1>4, <1>5 DEF PlaceInv
<1>10. QuietStub'
  BY <1>3, <1>7 DEF QuietStub
<1>11. AcceptorInv(a)'
  <2>1. StagingInv(a)'
    BY <1>8 DEF StagingInv
  <2> QED
    BY <1>2, <1>3, <1>4, <1>5, <1>7, <1>8, <2>1 DEF AcceptorInv
<1>12. PICK m \in Dir : Main(m)
  BY DEF SwapInv
<1>13. m = r
  BY <1>2, <1>3, <1>12 DEF Main
<1>14. \A i \in DOMAIN dir[s].history : dir[s].history[i].revision = i
  <2>1. \A i \in DOMAIN dir[r].history : dir[r].history[i].revision = i
    BY <1>12, <1>13 DEF Main
  <2>2. PICK n \in Nat : n = Len(dir[r].history) /\ n # 0 /\ DOMAIN dir[r].history = 1 .. n
    BY <1>5, <1>6
  <2>3. candidate[a].revision = n + 1
    BY <1>5, <2>1, <2>2 DEF Last
  <2>4. /\ DOMAIN dir[s].history = 1 .. (n + 1) /\ dir[s].history[n + 1] = candidate[a]
        /\ \A i \in 1 .. n : dir[s].history[i] = dir[r].history[i]
    BY <1>5, <1>6, <2>2
  <2> QED
    BY <2>1, <2>2, <2>3, <2>4
<1>15. /\ accepted \subseteq ToSet(dir[s].history)
       /\ ~overlapped => answered \subseteq Ids(dir[s].log)
  BY <1>5, <1>7, <1>12, <1>13 DEF Main
<1>16. "discard" \in Accepting /\ pc[a] \in Accepting
  BY <1>3 DEF Accepting
<1>17. /\ staging' \in [Acceptor -> Dir \cup {None}] /\ project' \in Dir \cup {None}
       /\ \A b \in Acceptor : b # a => staging'[b] = staging[b]
  BY <1>3, <1>4, AcceptorTypes
<1>18. dir' = dir /\ s \in aside' \cup ({project'} \ {None})
  BY <1>3, <1>4
<1>19. MainNext(s, a, "discard")
  BY <1>3, <1>7, <1>14, <1>15, <1>18 DEF MainNext
<1> QED
  BY <1>3, <1>4, <1>9, <1>10, <1>11, <1>16, <1>17, <1>18, <1>19, AcceptorTypes, SwapMoves

LEMMA MoveBackKeeps ==
  ASSUME SwapInv, NEW a \in Acceptor, MoveBack(a)
  PROVE  SwapInv'
<1>1. PlaceInv /\ QuietStub /\ AcceptorInv(a) /\ StagingInv(a) /\ DOMAIN pc = Process
  BY DEF SwapInv, TypeInv, AcceptorInv
<1>2. PICK r, s : r = rollback[a] /\ s = staging[a]
  OBVIOUS
<1>3. /\ pc[a] = "moveIn" /\ pc' = [pc EXCEPT ![a] = "refuse"]
      /\ \/ project = None /\ project' = r /\ aside' = aside \ {r}
         \/ project # None /\ project' = project /\ aside' = aside
      /\ UNCHANGED <<dir, calls, bound, base, named, candidate, original, staging, copied, rollback, answered, accepted,
                     overlapped>>
  BY <1>2 DEF MoveBack, Goto, locals, promises
<1>4. /\ s \in Dir /\ s \notin aside /\ s # None /\ s # project /\ dir[s] # None
  BY <1>2, <1>3, CopyInUse, AcceptorTypes
<1>5. /\ r \in aside /\ r \in Dir /\ dir[r].history # <<>> /\ candidate[a] \in Handoff
      /\ project # None => dir[project].history = <<>>
  BY <1>1, <1>2, <1>3, AcceptorTypes DEF AcceptorInv
<1>6. pc'[a] = "refuse" /\ staging'[a] = s
  BY <1>1, <1>2, <1>3, AcceptorTypes
<1>7. PlaceInv'
  BY <1>1, <1>3, <1>5 DEF PlaceInv
<1>8. QuietStub'
  BY <1>1, <1>3, <1>5 DEF QuietStub
<1>9. AcceptorInv(a)'
  <2>1. StagingInv(a)'
    BY <1>3, <1>4, <1>5, <1>6 DEF StagingInv
  <2> QED
    BY <1>3, <1>5, <1>6, <2>1 DEF AcceptorInv
<1>10. PICK m \in Dir : Main(m)
  BY DEF SwapInv
<1>11. m = r /\ m \in aside' \cup ({project'} \ {None})
  BY <1>2, <1>3, <1>5, <1>10, AcceptorTypes DEF Main
<1>12. /\ dir[m].history # <<>> /\ \A i \in DOMAIN dir[m].history : dir[m].history[i].revision = i
       /\ accepted \subseteq ToSet(dir[m].history)
       /\ ~overlapped => answered \subseteq Ids(dir[m].log)
  BY <1>10 DEF Main
<1>13. project' # None /\ dir[project'].history # <<>> => m = project'
  BY <1>3, <1>5, <1>11
<1>14. "refuse" \in Accepting /\ pc[a] \in Accepting
  BY <1>3 DEF Accepting
<1>15. project' \in Dir \cup {None} /\ aside' \subseteq Dir
  BY <1>3, <1>5, AcceptorTypes
<1>16. dir' = dir
  BY <1>3
<1>17. MainNext(m, a, "refuse")
  BY <1>11, <1>12, <1>13, <1>16 DEF MainNext
<1> QED
  BY <1>3, <1>7, <1>8, <1>9, <1>14, <1>15, <1>16, <1>17, AcceptorTypes, SwapMoves

LEMMA DiscardKeeps ==
  ASSUME SwapInv, NEW a \in Acceptor, Discard(a)
  PROVE  SwapInv'
<1>1. PlaceInv /\ QuietStub /\ AcceptorInv(a) /\ StagingInv(a) /\ DOMAIN pc = Process
  BY DEF SwapInv, TypeInv, AcceptorInv
<1>2. PICK r : r = rollback[a]
  OBVIOUS
<1>3. /\ pc[a] = "discard" /\ pc' = [pc EXCEPT ![a] = "accept"] /\ dir' = [dir EXCEPT ![r] = None]
      /\ aside' = aside \ {r}
      /\ UNCHANGED <<project, calls, bound, base, named, candidate, original, staging, copied, rollback, answered,
                     accepted, overlapped>>
  BY <1>2 DEF Discard, Goto, locals, promises
<1>4. /\ r \in aside /\ r \in Dir /\ project # None /\ candidate[a] \in ToSet(dir[project].history)
      /\ candidate[a] \in Handoff /\ staging[a] = None /\ project \in Dir /\ r # project
  BY <1>1, <1>2, <1>3, AcceptorTypes DEF AcceptorInv, StagingInv, PlaceInv
<1>5. dir' \in [Dir -> Directory \cup {None}] /\ dir'[project] = dir[project] /\ aside' \subseteq aside
      /\ \A d \in aside' : dir'[d] = dir[d]
  BY <1>3, <1>4, AcceptorTypes
<1>6. pc'[a] = "accept" /\ staging'[a] = None
  BY <1>1, <1>3, <1>4, AcceptorTypes
<1>7. PlaceInv'
  BY <1>1, <1>3, <1>5 DEF PlaceInv
<1>8. QuietStub'
  BY <1>1, <1>3, <1>5 DEF QuietStub
<1>9. AcceptorInv(a)'
  <2>1. StagingInv(a)'
    BY <1>6 DEF StagingInv
  <2> QED
    BY <1>3, <1>4, <1>5, <1>6, <2>1 DEF AcceptorInv
<1>10. PICK m \in Dir : Main(m)
  BY DEF SwapInv
<1>11. m = project /\ dir'[m] = dir[m]
  <2>1. dir[project].history # <<>>
    BY <1>4 DEF ToSet
  <2> QED
    BY <1>4, <1>5, <1>10, <2>1 DEF Main
<1>12. /\ dir[m].history # <<>> /\ \A i \in DOMAIN dir[m].history : dir[m].history[i].revision = i
       /\ accepted \subseteq ToSet(dir[m].history)
       /\ ~overlapped => answered \subseteq Ids(dir[m].log)
  BY <1>10 DEF Main
<1>13. "accept" \in Accepting /\ pc[a] \in Accepting
  BY <1>3 DEF Accepting
<1>14. project' = project /\ m \in aside' \cup ({project'} \ {None})
  BY <1>3, <1>4, <1>11
<1>15. MainNext(m, a, "accept")
  BY <1>11, <1>12, <1>14 DEF MainNext
<1>16. aside' \subseteq Dir
  BY <1>5, AcceptorTypes
<1> QED
  BY <1>3, <1>5, <1>7, <1>8, <1>9, <1>13, <1>14, <1>15, <1>16, AcceptorTypes, SwapMoves

\* The end of an invocation removes its copy and forgets what it knew.
LEMMA CopyRemoved ==
  ASSUME SwapInv, NEW a \in Acceptor, ForgetAcceptor(a), pc' = [pc EXCEPT ![a] = "idle"],
         dir' = [d \in Dir |-> IF d = staging[a] THEN None ELSE dir[d]], UNCHANGED <<project, aside>>
  PROVE  /\ CopyStep /\ (staging[a] = None => dir' = dir) /\ AcceptorInv(a)'
         /\ candidate' \in [Acceptor -> Handoff \cup {None}] /\ original' \in [Acceptor -> State \cup {None}]
         /\ staging' \in [Acceptor -> Dir \cup {None}] /\ rollback' \in [Acceptor -> Dir \cup {None}]
         /\ copied' \in [Acceptor -> SUBSET {"log", "state"}] /\ UNCHANGED <<bound, base, named>>
         /\ \A b \in Acceptor : b # a =>
              /\ candidate'[b] = candidate[b] /\ original'[b] = original[b] /\ staging'[b] = staging[b]
              /\ rollback'[b] = rollback[b] /\ copied'[b] = copied[b]
<1>1. AcceptorInv(a) /\ StagingInv(a) /\ DOMAIN pc = Process
  BY DEF SwapInv, TypeInv, AcceptorInv
<1>2. /\ candidate' \in [Acceptor -> Handoff \cup {None}] /\ original' \in [Acceptor -> State \cup {None}]
      /\ staging' \in [Acceptor -> Dir \cup {None}] /\ rollback' \in [Acceptor -> Dir \cup {None}]
      /\ copied' \in [Acceptor -> SUBSET {"log", "state"}] /\ UNCHANGED <<bound, base, named>>
      /\ staging'[a] = None /\ copied'[a] = {}
      /\ \A b \in Acceptor : b # a =>
           /\ candidate'[b] = candidate[b] /\ original'[b] = original[b] /\ staging'[b] = staging[b]
           /\ rollback'[b] = rollback[b] /\ copied'[b] = copied[b]
  BY AcceptorTypes DEF ForgetAcceptor
<1>3. CopyStep
  <2>1. \A d \in Dir : d = project \/ d \in aside => d # staging[a]
    BY <1>1, AcceptorTypes DEF StagingInv
  <2> QED
    BY <2>1, AcceptorTypes DEF CopyStep
<1>4. staging[a] = None => dir' = dir
  BY AcceptorTypes
<1>5. pc'[a] = "idle"
  BY <1>1, AcceptorTypes
<1>6. StagingInv(a)'
  BY <1>2, <1>5 DEF StagingInv
<1>7. AcceptorInv(a)'
  BY <1>2, <1>5, <1>6 DEF AcceptorInv
<1> QED
  BY <1>2, <1>3, <1>4, <1>7

LEMMA ReturnAcceptanceKeeps ==
  ASSUME SwapInv, NEW a \in Acceptor, ReturnAcceptance(a)
  PROVE  SwapInv'
<1>1. /\ pc' = [pc EXCEPT ![a] = "idle"] /\ ForgetAcceptor(a)
      /\ \/ pc[a] = "accept" /\ accepted' = accepted \cup {candidate[a]}
         \/ pc[a] = "refuse" /\ accepted' = accepted
      /\ dir' = [d \in Dir |-> IF d = staging[a] THEN None ELSE dir[d]]
      /\ UNCHANGED <<project, aside, calls, answered, overlapped>>
  BY DEF ReturnAcceptance, Goto
<1>2. \A c \in accepted' : c \in accepted \/ (project # None /\ c \in ToSet(dir[project].history))
  BY <1>1 DEF SwapInv, AcceptorInv
<1>3. "idle" # "moveIn" /\ pc[a] \in Accepting
  BY <1>1 DEF Accepting
<1> QED
  BY <1>1, <1>2, <1>3, CopyRemoved, CopyMoves

LEMMA CrashAcceptanceKeeps ==
  ASSUME SwapInv, NEW a \in Acceptor, CrashAcceptance(a)
  PROVE  SwapInv'
<1>1. /\ pc[a] # "idle" /\ pc' = [pc EXCEPT ![a] = "idle"] /\ ForgetAcceptor(a)
      /\ dir' = [d \in Dir |-> IF d = staging[a] THEN None ELSE dir[d]]
      /\ UNCHANGED <<project, aside, calls, answered, accepted, overlapped>>
  BY DEF CrashAcceptance, promises
<1>2. CASE pc[a] \in Accepting
  BY <1>1, <1>2, CopyRemoved, CopyMoves
<1>3. CASE pc[a] \notin Accepting
  <2>1. pc[a] = "offered" /\ AcceptorInv(a) /\ DOMAIN pc = Process
    BY <1>1, <1>3 DEF SwapInv, TypeInv
  <2>2. staging[a] = None
    BY <2>1 DEF AcceptorInv, StagingInv
  <2>3. dir' = dir
    BY <1>1, <2>2, CopyRemoved
  <2>7. UNCHANGED <<disk, overlapped>> /\ "idle" \notin Accepting
    BY <1>1, <2>3 DEF disk, Accepting
  <2>4. \A b \in Acceptor : pc'[b] = "moveIn" => pc[b] = "moveIn" /\ rollback'[b] = rollback[b]
    BY <1>1, <2>1, AcceptorTypes, CopyRemoved
  <2>5. PlaceInv' /\ QuietStub' /\ \E m \in Dir : Main(m)'
    BY <1>1, <2>4, AcceptorTypes, CopyRemoved, CopyStepKeeps
  <2>6. dir' \in [Dir -> Directory \cup {None}] /\ project' \in Dir \cup {None} /\ aside' \subseteq Dir
        /\ AcceptorInv(a)'
    BY <1>1, AcceptorTypes, CopyRemoved DEF CopyStep
  <2>8. /\ UNCHANGED <<bound, base, named, answered>> /\ overlapped' \in BOOLEAN /\ (overlapped => overlapped')
        /\ calls' \in [Process -> Nat] /\ \A p \in Process : p # a => calls'[p] = calls[p]
    BY <1>1, AcceptorTypes, CopyRemoved
  <2>9. /\ candidate' \in [Acceptor -> Handoff \cup {None}] /\ original' \in [Acceptor -> State \cup {None}]
        /\ staging' \in [Acceptor -> Dir \cup {None}] /\ rollback' \in [Acceptor -> Dir \cup {None}]
        /\ copied' \in [Acceptor -> SUBSET {"log", "state"}]
        /\ \A b \in Acceptor : b # a =>
             /\ candidate'[b] = candidate[b] /\ original'[b] = original[b] /\ staging'[b] = staging[b]
             /\ rollback'[b] = rollback[b] /\ copied'[b] = copied[b]
    BY <1>1, CopyRemoved
  <2> QED
    BY <1>1, <2>5, <2>6, <2>7, <2>8, <2>9, AcceptorMoves
<1> QED
  BY <1>2, <1>3

-----------------------------------------------------------------------------
(* The theorems.                                                           *)

LEMMA SwapInit == Init => SwapInv
<1> SUFFICES ASSUME Init PROVE SwapInv
  OBVIOUS
<1>1. TypeInv
  BY Directories, DirAssumption DEF Init, TypeInv, Process, Calling
<1>2. dir[1] = Created /\ Created # None /\ project = 1 /\ project # None /\ aside = {} /\ 1 \in Dir /\ ~overlapped
  BY Directories, DirAssumption DEF Init
<1>3. Created.history = <<First>> /\ Created.state = <<Bootstrap>> /\ <<First>> # <<>> /\ <<Bootstrap>> # None
      /\ accepted = {} /\ answered = {}
  <2>1. <<Bootstrap>> \in Seq(Event)
    BY Directories
  <2> QED
    BY <2>1, Directories DEF Created, Init
<1>4. PlaceInv /\ QuietStub
  BY <1>2, <1>3 DEF PlaceInv, QuietStub
<1>5. \A a \in Acceptor : pc[a] = "idle" /\ staging[a] = None /\ copied[a] = {}
  BY DEF Init, Process
<1>6. AtomicInv
  BY <1>5 DEF AtomicInv, Accepting
<1>7. \A a \in Acceptor : AcceptorInv(a)
  <2>1. \A a \in Acceptor : StagingInv(a)
    BY <1>5 DEF StagingInv
  <2> QED
    BY <1>5, <2>1 DEF AcceptorInv
<1>8. \A w \in Writer : WriterInv(w)
  BY DEF Init, Process, WriterInv
<1>9. \A i \in DOMAIN <<First>> : <<First>>[i].revision = i
  BY DEF First
<1>10. Main(1)
  BY <1>2, <1>3, <1>5, <1>9 DEF Main
<1> QED
  BY <1>1, <1>2, <1>4, <1>6, <1>7, <1>8, <1>10 DEF SwapInv

LEMMA SwapUnchanged ==
  ASSUME SwapInv, UNCHANGED vars
  PROVE  SwapInv'
<1>1. UNCHANGED <<dir, project, aside, pc, calls, bound, base, named, candidate, original, staging, copied, rollback,
                  answered, accepted, overlapped>>
  BY DEF vars, disk, locals, promises
<1>2. TypeInv' /\ PlaceInv' /\ AtomicInv' /\ QuietStub'
  BY <1>1 DEF SwapInv, TypeInv, PlaceInv, AtomicInv, QuietStub
<1>3. \A a \in Acceptor : AcceptorInv(a)'
  BY <1>1 DEF SwapInv, AcceptorInv, StagingInv, Continues, Replayed
<1>4. \A w \in Writer : WriterInv(w)'
  BY <1>1 DEF SwapInv, WriterInv
<1>5. \E m \in Dir : Main(m)'
  BY <1>1 DEF SwapInv, Main
<1> QED
  BY <1>2, <1>3, <1>4, <1>5 DEF SwapInv

LEMMA SwapStep == SwapInv /\ [Next]_vars => SwapInv'
<1> SUFFICES ASSUME SwapInv, [Next]_vars PROVE SwapInv'
  OBVIOUS
<1>1. ASSUME NEW w \in Writer, CallStep(w) PROVE SwapInv'
  BY <1>1, OpenLockKeeps, AcquireLockKeeps, CheckedRuntimeKeeps, WriteStateKeeps, ReadManifestKeeps,
     WriteManifestKeeps, ReturnCallKeeps, CrashCallKeeps, AppendEventKeeps DEF CallStep
<1>2. ASSUME NEW a \in Acceptor, AcceptanceStep(a) PROVE SwapInv'
  BY <1>2, LockBesideKeeps, ExamineKeeps, BuildKeeps, ValidateKeeps, GiveUpKeeps, MoveAwayKeeps, MoveInKeeps,
     MoveBackKeeps, DiscardKeeps, ReturnAcceptanceKeeps, CrashAcceptanceKeeps, CopyFileKeeps, OfferKeeps
     DEF AcceptanceStep
<1> QED
  BY <1>1, <1>2, SwapUnchanged DEF Next

\* Whatever runtime calls and acceptances do, in any order and with any crashes, there is at every moment
\* one directory, at the project's path or where an acceptance moved it, whose handoff log is numbered
\* without a gap and has every handoff an acceptance returned for.  (handoff_revision.py 539-609)
THEOREM SwapInductive == Spec => []SwapInv
BY SwapInit, SwapStep, PTL DEF Spec

\* Two contents for one revision are never both accepted: both are at the place of their revision in one
\* handoff log.  (handoff_revision.py 539-548, 579-603)
THEOREM OneBaseline == Spec => []OneContentPerRevision
<1>1. SwapInv => OneContentPerRevision
  <2> SUFFICES ASSUME SwapInv, NEW c \in accepted, NEW d \in accepted, c.revision = d.revision PROVE c = d
    BY DEF OneContentPerRevision
  <2>1. PICK m \in Dir : Main(m)
    BY DEF SwapInv
  <2>2. PICK i \in DOMAIN dir[m].history : c = dir[m].history[i]
    BY <2>1 DEF Main, ToSet
  <2>3. PICK j \in DOMAIN dir[m].history : d = dir[m].history[j]
    BY <2>1 DEF Main, ToSet
  <2>4. c.revision = i /\ d.revision = j
    BY <2>1, <2>2, <2>3 DEF Main
  <2> QED
    BY <2>2, <2>3, <2>4
<1> QED
  BY <1>1, SwapInductive, PTL

\* An accepted handoff stays in what an operator finds at the project's path or moved aside.
\* (handoff_revision.py 551-561)
THEOREM BaselinesAreKept == Spec => []AcceptedIsKept
<1>1. SwapInv => AcceptedIsKept
  BY DEF SwapInv, Main, AcceptedIsKept, Kept
<1> QED
  BY <1>1, SwapInductive, PTL

\* What is moved into the project's place is a replayable continuation of one moment of the project, for
\* all that the files were copied one by one under a runtime that wrote them.
\* (handoff_revision.py 564-576, 604-609)
THEOREM OneMoment == Spec => []SwapsInOneMoment
<1>1. SwapInv => SwapsInOneMoment
  BY DEF SwapInv, AcceptorInv, Continues, Replayed, SwapsInOneMoment
<1> QED
  BY <1>1, SwapInductive, PTL

\* Without a runtime call during an acceptance every answered event is still found, whatever acceptances
\* failed, crashed or were repeated.  (handoff_revision.py 685-690)
THEOREM QuietLosesNothing == Spec => []QuietAcceptanceLosesNothing
<1>1. SwapInv => QuietAcceptanceLosesNothing
  BY DEF SwapInv, Main, QuietAcceptanceLosesNothing, Kept
<1> QED
  BY <1>1, SwapInductive, PTL

=============================================================================
