---------------------------- MODULE ProjectSwap ----------------------------
(***************************************************************************)
(* Acceptance of a superseding handoff (tools/lib/handoff_revision.py),    *)
(* step by step, while the runtime goes on writing.  An acceptor copies    *)
(* the project, rebuilds the copy under the new handoff, moves the project *)
(* aside and the copy into its place.  It holds a lock file beside the     *)
(* project; the runtime's lock file is inside it, so the two do not        *)
(* exclude each other, and the copy comes with a runtime lock of its own.  *)
(* Every process names the project by its path: a writer that had opened   *)
(* its lock before the swap appends to whatever is at the path after it.   *)
(*                                                                         *)
(* Abstractions.  A directory is what matters of its files: the handoffs   *)
(* of its handoff log (the last is the current one, and its receipt), the  *)
(* events of run-log.jsonl, the log whose projection production-state.json *)
(* is, and the handoff that manifest.yaml names.  An event knows the event *)
(* before it, as the hash chain does, and the lifecycle states it leads    *)
(* from and to.  Lifecycle states are those an acceptance may start from   *)
(* (PLANNING) and the others (BUSY).  The project has been bootstrapped.   *)
(* The call itself is RuntimeLog's, without keys and guards.               *)
(***************************************************************************)
EXTENDS Naturals, Sequences, SequencesExt

CONSTANTS
  Writer,     \* runtime calls
  Acceptor,   \* invocations of new_production.py --accept-revision
  Candidate,  \* handoffs that are offered
  Dir,        \* bound: directories that exist at the same time, dead ones included
  MaxCalls,   \* bound: calls of one writer
  MaxOffers,  \* bound: invocations by one acceptor
  None

\* r1 is what the project was created from.
First == [revision |-> 1, content |-> "first"]

Process == Writer \cup Acceptor
State == {"PLANNING", "BUSY"}

\* What files hold.
Handoff == Candidate \cup {First}
EventId == [by : Process \cup {None}, call : Nat]
Event == [id : EventId, after : EventId \cup {None}, from : State, to : State,
          handoff : Handoff \cup {None}]
Projection == (Seq(Event) \ {<<>>}) \cup {None}
Directory == [history : Seq(Handoff), log : Seq(Event), state : Projection,
              manifest : Handoff \cup {None}]

ASSUME ProcessAssumption == Writer \cap Acceptor = {}
ASSUME DirAssumption == 1 \in Dir
ASSUME NoneAssumption == None \notin Dir \cup Directory \cup Seq(Event)

VARIABLES
  dir,       \* the directories, by inode: their content, or None
  project,   \* the directory at the project's path, or None
  aside,     \* the directories at rollback paths
  pc, calls,
  bound,     \* the directory whose runtime lock a writer has opened
  base,      \* the log a writer replayed
  named,     \* the manifest a writer has read
  candidate, \* what an acceptor was called with
  original,  \* the lifecycle state it read before it copied
  staging,   \* its copy of the project
  copied,    \* files of 08_runtime in the copy
  rollback,  \* where it moved the project
  answered,  \* events of the runtime calls that returned normally
  accepted,  \* handoffs whose acceptance returned normally
  overlapped \* some runtime call ran during a copy or a swap

disk   == <<dir, project, aside>>
locals == <<bound, base, named, candidate, original, staging, copied, rollback>>
promises == <<answered, accepted, overlapped>>
vars   == <<disk, pc, calls, locals, promises>>

-----------------------------------------------------------------------------
Bootstrap ==
  [id |-> [by |-> None, call |-> 0], after |-> None, from |-> "PLANNING",
   to |-> "PLANNING", handoff |-> None]

Created ==
  [history |-> <<First>>, log |-> <<Bootstrap>>, state |-> <<Bootstrap>>, manifest |-> First]

\* What mkdir(parents=True) leaves where no project is.
Stub == [history |-> <<>>, log |-> <<>>, state |-> None, manifest |-> None]

Ids(l) == {l[i].id : i \in DOMAIN l}

\* _replay_events, as far as the chain and the lifecycle go.
Replays(l) ==
  \A i \in DOMAIN l :
    /\ l[i].after = IF i = 1 THEN None ELSE l[i - 1].id
    /\ l[i].from  = IF i = 1 THEN "PLANNING" ELSE l[i - 1].to

\* _current_handoff: handoff, receipt, manifest and handoff log agree.
Whole(d) == d.history # <<>> /\ d.manifest = Last(d.history)

Healthy(d) == d.state = d.log /\ Replays(d.log)

Locked(d) == {w \in Writer : bound[w] = d /\ pc[w] \notin {"idle", "opened"}} # {}

\* Directories nobody can name any more may be used again.
Free == {d \in Dir : dir[d] = None /\ \A w \in Writer : bound[w] # d}

Fresh == CHOOSE d \in Free : TRUE

Accepting == {"examine", "copy", "build", "validate", "moveAway", "moveIn", "discard",
              "accept", "refuse"}

Init ==
  /\ dir = [d \in Dir |-> IF d = 1 THEN Created ELSE None]
  /\ project = 1 /\ aside = {}
  /\ pc = [p \in Process |-> "idle"]
  /\ calls = [p \in Process |-> 0]
  /\ bound = [w \in Writer |-> None]
  /\ base = [w \in Writer |-> <<>>]
  /\ named = [w \in Writer |-> None]
  /\ candidate = [a \in Acceptor |-> None]
  /\ original = [a \in Acceptor |-> None]
  /\ staging = [a \in Acceptor |-> None]
  /\ copied = [a \in Acceptor |-> {}]
  /\ rollback = [a \in Acceptor |-> None]
  /\ answered = {} /\ accepted = {}
  /\ overlapped = FALSE

Goto(p, from, to) == pc[p] = from /\ pc' = [pc EXCEPT ![p] = to]

ForgetWriter(w) ==
  /\ bound' = [bound EXCEPT ![w] = None]
  /\ base' = [base EXCEPT ![w] = <<>>]
  /\ named' = [named EXCEPT ![w] = None]
  /\ UNCHANGED <<candidate, original, staging, copied, rollback>>

ForgetAcceptor(a) ==
  /\ candidate' = [candidate EXCEPT ![a] = None]
  /\ original' = [original EXCEPT ![a] = None]
  /\ staging' = [staging EXCEPT ![a] = None]
  /\ copied' = [copied EXCEPT ![a] = {}]
  /\ rollback' = [rollback EXCEPT ![a] = None]
  /\ UNCHANGED <<bound, base, named>>

-----------------------------------------------------------------------------
(* Runtime calls.  Every step resolves the project's path again.           *)

At == IF project = None THEN Stub ELSE dir[project]

\* Writes below the project: the directories on the way are created.
WriteThrough(d) ==
  /\ project = None => Free # {}
  /\ project' = IF project = None THEN Fresh ELSE project
  /\ dir' = [dir EXCEPT ![project'] = d]
  /\ UNCHANGED aside

\* _writer_lock opens the lock file; this is the only use of its directory.
OpenLock(w) ==
  /\ Goto(w, "idle", "opened")
  /\ calls[w] < MaxCalls
  /\ calls' = [calls EXCEPT ![w] = @ + 1]
  /\ WriteThrough(At)
  /\ bound' = [bound EXCEPT ![w] = project']
  /\ overlapped' = (overlapped \/ \E a \in Acceptor : pc[a] \in Accepting)
  /\ UNCHANGED <<base, named, candidate, original, staging, copied, rollback, answered, accepted>>

AcquireLock(w) ==
  /\ Goto(w, "opened", "check")
  /\ ~Locked(bound[w])
  /\ UNCHANGED <<disk, calls, locals, promises>>

CheckedRuntime(w) ==
  /\ Goto(w, "check", IF Healthy(At) THEN "append" ELSE "return")
  /\ base' = [base EXCEPT ![w] = At.log]
  /\ UNCHANGED <<disk, calls, bound, named, candidate, original, staging, copied, rollback,
                 promises>>

AppendEvent(w, to) ==
  LET e == [id |-> [by |-> w, call |-> calls[w]], after |-> Last(base[w]).id,
            from |-> Last(base[w]).to, to |-> to, handoff |-> None]
  IN /\ Goto(w, "append", "project")
     /\ WriteThrough([At EXCEPT !.log = Append(@, e)])
     /\ base' = [base EXCEPT ![w] = Append(@, e)]
     /\ UNCHANGED <<calls, bound, named, candidate, original, staging, copied, rollback,
                    promises>>

\* Temporary files are made in the directory: without it the call raises.
WriteState(w) ==
  /\ Goto(w, "project", IF project = None THEN "return" ELSE "readManifest")
  /\ dir' = [d \in Dir |-> IF d = project THEN [dir[d] EXCEPT !.state = base[w]] ELSE dir[d]]
  /\ UNCHANGED <<project, aside, calls, locals, promises>>

\* No manifest, nothing to do.
ReadManifest(w) ==
  /\ Goto(w, "readManifest", IF At.manifest = None THEN "answer" ELSE "writeManifest")
  /\ named' = [named EXCEPT ![w] = At.manifest]
  /\ UNCHANGED <<disk, calls, bound, base, candidate, original, staging, copied, rollback,
                 promises>>

\* The whole manifest is written back, not only its state.
WriteManifest(w) ==
  /\ Goto(w, "writeManifest", IF project = None THEN "return" ELSE "answer")
  /\ dir' = [d \in Dir |-> IF d = project THEN [dir[d] EXCEPT !.manifest = named[w]] ELSE dir[d]]
  /\ UNCHANGED <<project, aside, calls, locals, promises>>

ReturnCall(w) ==
  /\ \/ Goto(w, "answer", "idle") /\ answered' = answered \cup {[by |-> w, call |-> calls[w]]}
     \/ Goto(w, "return", "idle") /\ UNCHANGED answered
  /\ ForgetWriter(w)
  /\ UNCHANGED <<disk, calls, accepted, overlapped>>

CrashCall(w) ==
  /\ pc[w] # "idle"
  /\ pc' = [pc EXCEPT ![w] = "idle"]
  /\ ForgetWriter(w)
  /\ UNCHANGED <<disk, calls, promises>>

-----------------------------------------------------------------------------
(* Acceptance.                                                             *)

Offer(a, c) ==
  /\ Goto(a, "idle", "offered")
  /\ calls[a] < MaxOffers
  /\ project # None
  /\ calls' = [calls EXCEPT ![a] = @ + 1]
  /\ candidate' = [candidate EXCEPT ![a] = c]
  /\ UNCHANGED <<disk, bound, base, named, original, staging, copied, rollback, promises>>

\* Mutant: acceptances do not exclude each other.
LockNothing(a) ==
  /\ Goto(a, "offered", "examine")
  /\ overlapped' = (overlapped \/ \E w \in Writer : pc[w] # "idle")
  /\ UNCHANGED <<disk, calls, locals, answered, accepted>>

\* The lock file beside the project is never moved.
LockBeside(a) ==
  /\ Goto(a, "offered", "examine")
  /\ \A b \in Acceptor : pc[b] \notin Accepting
  /\ overlapped' = (overlapped \/ \E w \in Writer : pc[w] # "idle")
  /\ UNCHANGED <<disk, calls, locals, answered, accepted>>

\* The same handoff again is a success without effect; another content under
\* its revision, a fork or a skipped revision are refused (_supersedes).
Verdict(c) ==
  IF ~Whole(At) THEN "refuse"
  ELSE IF c = Last(At.history) THEN "accept"
  ELSE IF c.revision = Last(At.history).revision + 1 THEN "copy" ELSE "refuse"

\* The projection is read here, before the copy: its state will be from_state.
Examine(a) ==
  LET verdict == Verdict(candidate[a])
  IN /\ Goto(a, "examine", verdict)
     /\ verdict = "copy" => Free # {}
     /\ original' = [original EXCEPT ![a] = IF verdict = "copy" THEN Last(At.state).to ELSE None]
     /\ staging'  = [staging EXCEPT ![a] = IF verdict = "copy" THEN Fresh ELSE None]
     /\ dir' = [d \in Dir |-> IF d = staging'[a] THEN [Stub EXCEPT !.history = At.history]
                                                 ELSE dir[d]]
     /\ UNCHANGED <<project, aside, calls, bound, base, named, candidate, copied, rollback,
                    promises>>

\* copytree copies file by file, in the order of the directory.
CopyFile(a, f) ==
  /\ Goto(a, "copy", IF copied[a] \cup {f} = {"log", "state"} THEN "build" ELSE "copy")
  /\ f \notin copied[a]
  /\ copied' = [copied EXCEPT ![a] = @ \cup {f}]
  /\ dir' = [dir EXCEPT ![staging[a]][f] = At[f]]
  /\ UNCHANGED <<project, aside, calls, bound, base, named, candidate, original, staging, rollback,
                 promises>>

RevisionEvent(a, l) ==
  [id |-> [by |-> a, call |-> calls[a]], after |-> IF l = <<>> THEN None ELSE Last(l).id,
   from |-> original[a], to |-> "PLANNING", handoff |-> candidate[a]]

Revised(a, d) ==
  [history  |-> Append(d.history, candidate[a]),
   log      |-> Append(d.log, RevisionEvent(a, d.log)),
   state    |-> IF d.state = None THEN None ELSE Append(d.state, RevisionEvent(a, d.log)),
   manifest |-> candidate[a]]

\* Mutant: what the planner wrote over the runtime's files is not undone.
BuildWithoutRestore(a) ==
  LET e == RevisionEvent(a, <<>>)
  IN /\ Goto(a, "build", IF original[a] = "PLANNING" THEN "validate" ELSE "refuse")
     /\ dir' = [dir EXCEPT ![staging[a]] = [Revised(a, @) EXCEPT !.log = <<e>>, !.state = <<e>>]]
     /\ UNCHANGED <<project, aside, calls, locals, promises>>

\* The old records move to the history, the new plan is built, log and
\* projection are restored, the revision event goes into both, and receipt,
\* manifest and handoff log follow.
Build(a) ==
  /\ Goto(a, "build", IF original[a] = "PLANNING" THEN "validate" ELSE "refuse")
  /\ dir' = [dir EXCEPT ![staging[a]] = Revised(a, @)]
  /\ UNCHANGED <<project, aside, calls, locals, promises>>

\* Mutant: the copy is not replayed.
ValidateNothing(a) ==
  /\ Goto(a, "validate", "moveAway")
  /\ UNCHANGED <<disk, calls, locals, promises>>

\* _validate_revision_files and validate_project replay the copy's log.
Validate(a) ==
  /\ Goto(a, "validate", IF Healthy(dir[staging[a]]) THEN "moveAway" ELSE "refuse")
  /\ UNCHANGED <<disk, calls, locals, promises>>

\* Bundle, plan, schema, disk: anything else may fail, and nothing is lost.
GiveUp(a) ==
  /\ pc[a] \in {"copy", "build", "validate"}
  /\ pc' = [pc EXCEPT ![a] = "refuse"]
  /\ UNCHANGED <<disk, calls, locals, promises>>

\* Mutant: the project is removed to make room for the copy.
RemoveOld(a) ==
  /\ Goto(a, "moveAway", "moveIn")
  /\ dir' = [dir EXCEPT ![project] = None]
  /\ project' = None
  /\ UNCHANGED <<aside, calls, locals, promises>>

MoveAway(a) ==
  /\ Goto(a, "moveAway", "moveIn")
  /\ aside' = aside \cup {project}
  /\ rollback' = [rollback EXCEPT ![a] = project]
  /\ project' = None
  /\ UNCHANGED <<dir, calls, bound, base, named, candidate, original, staging, copied,
                 promises>>

MoveIn(a) ==
  /\ project = None
  /\ Goto(a, "moveIn", "discard")
  /\ project' = staging[a]
  /\ staging' = [staging EXCEPT ![a] = None]
  /\ UNCHANGED <<dir, aside, calls, bound, base, named, candidate, original, copied, rollback,
                 promises>>

\* A failed move is undone, unless a writer has put something in its place.
MoveBack(a) ==
  /\ Goto(a, "moveIn", "refuse")
  /\ IF project = None
     THEN project' = rollback[a] /\ aside' = aside \ {rollback[a]}
     ELSE UNCHANGED <<project, aside>>
  /\ UNCHANGED <<dir, calls, locals, promises>>

Discard(a) ==
  /\ Goto(a, "discard", "accept")
  /\ dir' = [dir EXCEPT ![rollback[a]] = None]
  /\ aside' = aside \ {rollback[a]}
  /\ UNCHANGED <<project, calls, locals, promises>>

\* The finally clause removes the copy, then the lock is dropped.
ReturnAcceptance(a) ==
  /\ \/ Goto(a, "accept", "idle") /\ accepted' = accepted \cup {candidate[a]}
     \/ Goto(a, "refuse", "idle") /\ UNCHANGED accepted
  /\ dir' = [d \in Dir |-> IF d = staging[a] THEN None ELSE dir[d]]
  /\ ForgetAcceptor(a)
  /\ UNCHANGED <<project, aside, calls, answered, overlapped>>

\* The copy stays on disk, under a name nobody uses again: as good as gone.
CrashAcceptance(a) ==
  /\ pc[a] # "idle"
  /\ pc' = [pc EXCEPT ![a] = "idle"]
  /\ dir' = [d \in Dir |-> IF d = staging[a] THEN None ELSE dir[d]]
  /\ ForgetAcceptor(a)
  /\ UNCHANGED <<project, aside, calls, promises>>

-----------------------------------------------------------------------------
CallStep(w) ==
  \/ OpenLock(w) \/ AcquireLock(w) \/ CheckedRuntime(w) \/ WriteState(w)
  \/ ReadManifest(w) \/ WriteManifest(w) \/ ReturnCall(w) \/ CrashCall(w)
  \/ \E to \in State : AppendEvent(w, to)

AcceptanceStep(a) ==
  \/ LockBeside(a) \/ Examine(a) \/ Build(a) \/ Validate(a) \/ GiveUp(a) \/ MoveAway(a)
  \/ MoveIn(a) \/ MoveBack(a) \/ Discard(a) \/ ReturnAcceptance(a) \/ CrashAcceptance(a)
  \/ \E f \in {"log", "state"} : CopyFile(a, f)
  \/ \E c \in Candidate : Offer(a, c)

Next ==
  \/ \E w \in Writer : CallStep(w)
  \/ \E a \in Acceptor : AcceptanceStep(a)

Spec == Init /\ [][Next]_vars

-----------------------------------------------------------------------------
(* Properties.                                                             *)

\* What an operator can still find: the project, or where it was moved to.
Kept == {dir[d] : d \in aside \cup ({project} \ {None})}

\* Of two contents for one revision at most one is ever accepted, whoever
\* offers them at the same time, and again after a crash.
\* (handoff_revision.py 539-548, 579-603)
OneContentPerRevision ==
  \A c, d \in accepted : c.revision = d.revision => c = d

\* An accepted baseline is never lost, neither by a crash between the two
\* moves nor by a later acceptance that fails. (handoff_revision.py 551-561)
AcceptedIsKept == \A c \in accepted : \E d \in Kept : c \in ToSet(d.history)

\* What is put into the project's place continues one moment of the project,
\* although files were copied one by one while the runtime wrote them: a
\* projection that matches the log, and a log that was the project's.
\* (handoff_revision.py 564-576, 604-609)
SwapsInOneMoment ==
  \A a \in Acceptor : pc[a] \in {"moveAway", "moveIn"} =>
    LET new == dir[staging[a]]
        old == dir[IF pc[a] = "moveAway" THEN project ELSE rollback[a]]
    IN new.state = new.log /\ Replays(new.log) /\ IsPrefix(Front(new.log), old.log)

\* As long as no runtime call runs during an acceptance, no crash, failure or
\* repeat of an acceptance loses an event that the runtime has answered for.
\* (handoff_revision.py 685-690)
QuietAcceptanceLosesNothing ==
  ~overlapped => \A e \in answered : \E d \in Kept : e \in Ids(d.log)

-----------------------------------------------------------------------------
(* What the documents say of the code, for the run that refutes it.        *)

\* docs/20260811-agentic-art-production-implementation-contract-specification
\* .md:335: the run log is the append-only canonical record.
AnsweredStaysInLog ==
  (project # None /\ Whole(At)) => \A e \in answered : e \in Ids(At.log)
=============================================================================
