----------------------------- MODULE RuntimeLog -----------------------------
(***************************************************************************)
(* How one call of Runtime commits its event (tools/lib/runtime.py): under *)
(* an exclusive flock on 08_runtime/.runtime.lock it replays the log,      *)
(* compares the result with the projection, checks its guard and its       *)
(* idempotency key, appends one line, replays again, replaces the          *)
(* projection and then the state field of the manifest.  Each of the four  *)
(* files changes on its own, and a process may die between any two steps.  *)
(* replay(), next_task() and validate_runtime_project() read the log and   *)
(* the projection without the lock.                                        *)
(*                                                                         *)
(* Abstractions.  An event is its idempotency key and its body; sequence   *)
(* numbers and the hash chain are the order of the log.  A projection is   *)
(* written only as the replay of a log, so it is represented by that log.  *)
(* A body may take effect once: "what a second one would find" stands for  *)
(* the guards of each operation and for the checks of _apply_event.  The   *)
(* bodies differ in when that is found out:                                *)
(*   KeyFirst    the key is compared before the guard (claim_task,         *)
(*               transition)                                               *)
(*   GuardFirst  the guard comes first (complete_task, complete_effect,    *)
(*               retry_task, fail_task)                                    *)
(*   Unguarded   only replay, after the append (record_approval)           *)
(* A claim that recovers a lease commits twice under one lock; it is two   *)
(* calls here.                                                             *)
(***************************************************************************)
EXTENDS Naturals, FiniteSets, Sequences, SequencesExt

CONSTANTS
  Process,     \* writers: CLI invocations, workers, the agent harness
  Observer,    \* lock-free readers
  Key,         \* idempotency keys
  KeyFirst, GuardFirst, Unguarded,   \* bodies, see above
  MaxCalls,    \* bound: calls one process makes, its retries included
  Nobody

Body  == KeyFirst \cup GuardFirst \cup Unguarded
Event == [key : Key, body : Body]

ASSUME BodyAssumption ==
  /\ KeyFirst \cap GuardFirst = {}
  /\ (KeyFirst \cup GuardFirst) \cap Unguarded = {}

ASSUME ProcessAssumption ==
  /\ Nobody \notin Process
  /\ Nobody \notin Event
  /\ Nobody \notin Seq(Event)
  /\ MaxCalls \in Nat

VARIABLES
  log,       \* run-log.jsonl, its complete lines
  torn,      \* run-log.jsonl ends in a partial line
  state,     \* production-state.json, as the log it projects
  manifest,  \* manifest.yaml, as the log whose lifecycle state it shows
  lock,      \* holder of .runtime.lock
  pc,        \* what each process does next
  event,     \* the event of its call, or Nobody
  base,      \* the log it replayed under the lock
  calls,     \* calls each process has made
  answered,  \* events of the calls that returned normally
  seen,      \* the log an observer has read, or Nobody
  told       \* the log whose projection an observer was given last

files   == <<log, torn, state, manifest>>
writers == <<lock, pc, event, base, calls, answered>>
readers == <<seen, told>>
vars    == <<files, writers, readers>>

-----------------------------------------------------------------------------
Bodies(l) == {l[i].body : i \in DOMAIN l}

Keys(l) == {l[i].key : i \in DOMAIN l}

\* _replay_events: no event repeats what an earlier one did.
Replays(l) == \A i, j \in DOMAIN l : l[i].body = l[j].body => i = j

\* _checked_runtime raises nothing.
Healthy == ~torn /\ Replays(log) /\ state = log

Committing == {"append", "replay", "project", "sync"}

\* Nobody is between its check and its answer.
Resting == \A p \in Process : pc[p] \notin Committing

\* The log ends in a partial line, or in an event that replay rejects.
Corrupt == torn \/ ~Replays(log)

\* All that a crash left behind is an event that the projection does not show.
EventAhead == Resting /\ ~Corrupt /\ state # log

Init ==
  /\ log = <<>> /\ torn = FALSE /\ state = <<>> /\ manifest = <<>>
  /\ lock = Nobody
  /\ pc = [p \in Process |-> "idle"]
  /\ event = [p \in Process |-> Nobody]
  /\ base = [p \in Process |-> <<>>]
  /\ calls = [p \in Process |-> 0]
  /\ answered = {}
  /\ seen = [o \in Observer |-> Nobody]
  /\ told = [o \in Observer |-> <<>>]

Goto(p, from, to) == pc[p] = from /\ pc' = [pc EXCEPT ![p] = to]

\* The local variables of a call end with it.
Forget(p) ==
  /\ event' = [event EXCEPT ![p] = Nobody]
  /\ base' = [base EXCEPT ![p] = <<>>]

-----------------------------------------------------------------------------
(* Writers.                                                                *)

\* A caller is free to send again an event it has sent before.
Call(p, e) ==
  /\ Goto(p, "idle", "waiting")
  /\ calls[p] < MaxCalls
  /\ calls' = [calls EXCEPT ![p] = @ + 1]
  /\ event' = [event EXCEPT ![p] = e]
  /\ UNCHANGED <<files, lock, base, answered, readers>>

\* Mutant: the lock is not exclusive.
AcquireShared(p) ==
  /\ Goto(p, "waiting", "check")
  /\ lock' = p
  /\ UNCHANGED <<files, event, base, calls, answered, readers>>

Acquire(p) ==
  /\ Goto(p, "waiting", "check")
  /\ lock = Nobody
  /\ lock' = p
  /\ UNCHANGED <<files, event, base, calls, answered, readers>>

\* Mutant: any event under the key passes for a repeat of this one.
VerdictByKeyOnly(e) ==
  IF ~Healthy \/ (e.body \in GuardFirst /\ e.body \in Bodies(log)) THEN "refuse"
  ELSE IF e.key \in Keys(log) THEN "accept"
  ELSE IF e.body \in KeyFirst /\ e.body \in Bodies(log) THEN "refuse" ELSE "append"

\* Mutant: a partial last line is skipped, as if it had never been begun.
VerdictDespiteTornLine(e) ==
  IF ~Replays(log) \/ state # log \/ e.key \in Keys(log) \/ e.body \in Bodies(log)
  THEN "refuse" ELSE "append"

\* What a checked call comes to, given the replayed log.
Verdict(e) ==
  LET spent  == e.body \in Bodies(log)
      repeat == e \in ToSet(log)
      clash  == e.key \in Keys(log) /\ ~repeat
  IN IF ~Healthy \/ (e.body \in GuardFirst /\ spent) THEN "refuse"
     ELSE IF repeat THEN "accept"
     ELSE IF clash \/ (e.body \in KeyFirst /\ spent) THEN "refuse" ELSE "append"

Check(p) ==
  /\ Goto(p, "check", Verdict(event[p]))
  /\ base' = [base EXCEPT ![p] = log]
  /\ UNCHANGED <<files, lock, event, calls, answered, readers>>

AppendEvent(p) ==
  /\ Goto(p, "append", "replay")
  /\ log' = Append(log, event[p])
  /\ UNCHANGED <<torn, state, manifest, lock, event, base, calls, answered, readers>>

\* The event is already on disk when replay finds it impossible.
ReplayAppended(p) ==
  /\ Goto(p, "replay", IF Replays(Append(base[p], event[p])) THEN "project" ELSE "refuse")
  /\ UNCHANGED <<files, lock, event, base, calls, answered, readers>>

WriteState(p) ==
  /\ Goto(p, "project", "sync")
  /\ state' = Append(base[p], event[p])
  /\ UNCHANGED <<log, torn, manifest, lock, event, base, calls, answered, readers>>

SyncManifest(p) ==
  /\ Goto(p, "sync", "accept")
  /\ manifest' = Append(base[p], event[p])
  /\ UNCHANGED <<log, torn, state, lock, event, base, calls, answered, readers>>

\* The context manager unlocks, whether the call returns or raises.
Return(p) ==
  /\ \/ Goto(p, "accept", "idle") /\ answered' = answered \cup {event[p]}
     \/ Goto(p, "refuse", "idle") /\ UNCHANGED answered
  /\ lock' = Nobody
  /\ Forget(p)
  /\ UNCHANGED <<files, calls, readers>>

\* Mutant: a lock file that only its owner removes.
CrashKeepsLock(p) ==
  /\ pc[p] # "idle"
  /\ pc' = [pc EXCEPT ![p] = "idle"]
  /\ torn' \in (IF pc[p] = "append" THEN {torn, TRUE} ELSE {torn})
  /\ Forget(p)
  /\ UNCHANGED <<log, state, manifest, lock, calls, answered, readers>>

\* The kernel drops the flock of a dead process.  Death while the line is
\* written may leave a part of it.
Crash(p) ==
  /\ pc[p] # "idle"
  /\ pc' = [pc EXCEPT ![p] = "idle"]
  /\ torn' \in (IF pc[p] = "append" THEN {torn, TRUE} ELSE {torn})
  /\ lock' = IF lock = p THEN Nobody ELSE lock
  /\ Forget(p)
  /\ UNCHANGED <<log, state, manifest, calls, answered, readers>>

-----------------------------------------------------------------------------
(* Observers.                                                              *)

\* A torn or impossible log is reported at once.
ReadLog(o) ==
  /\ seen[o] = Nobody
  /\ ~torn /\ Replays(log)
  /\ seen' = [seen EXCEPT ![o] = log]
  /\ UNCHANGED <<files, writers, told>>

\* Mutant: the projection is not compared.
ReturnsUncompared(o) == seen[o] # Nobody

\* The projection is read next; only an equal one is returned.
Returns(o) == seen[o] # Nobody /\ state = seen[o]

ReadState(o) ==
  /\ seen[o] # Nobody
  /\ seen' = [seen EXCEPT ![o] = Nobody]
  /\ told' = [told EXCEPT ![o] = IF Returns(o) THEN seen[o] ELSE @]
  /\ UNCHANGED <<files, writers>>

-----------------------------------------------------------------------------
Step(p) ==
  \/ Acquire(p) \/ Check(p) \/ AppendEvent(p) \/ ReplayAppended(p)
  \/ WriteState(p) \/ SyncManifest(p) \/ Return(p)

Next ==
  \/ \E p \in Process : Step(p) \/ Crash(p) \/ \E e \in Event : Call(p, e)
  \/ \E o \in Observer : ReadLog(o) \/ ReadState(o)

Spec == Init /\ [][Next]_vars

\* A process that is alive goes on, and somebody keeps replaying.  Nothing
\* obliges a process to call, or to die.
FairSpec ==
  /\ Spec
  /\ \A p \in Process : WF_vars(Step(p))
  /\ \A o \in Observer : WF_vars(ReadLog(o)) /\ WF_vars(ReadState(o))

-----------------------------------------------------------------------------
\* A guard that was checked still holds when its event is appended: no two
\* claims, completions or transitions both succeed.  (runtime.py 362-370)
GuardedOnce ==
  \A i, j \in DOMAIN log :
    (log[i].body = log[j].body /\ log[i].body \notin Unguarded) => i = j

\* A call that returned normally has its event in the log and in the
\* projection, and no crash of a later call takes it away.
AnsweredIsDurable == \A e \in answered : e \in ToSet(log) /\ e \in ToSet(state)

\* What a lock-free replay returned stays in the projection: a reader is never
\* told of an event whose call is later found to have failed or died, and never
\* less than it was told before.  (runtime.py 354-360)
ReadsAreDurable == \A o \in Observer : IsPrefix(told[o], state)

\* Once a dead process has left a partial line, or an event is in the log that
\* replay rejects, nobody writes any file again: nothing is cut off, skipped or
\* built upon, whoever calls and however often.
\* (runtime.py 450-456, contract specification 361)
CorruptLogIsLeftAlone == [][(Corrupt /\ Resting) => UNCHANGED files /\ Resting']_vars

\* What the contract specification says of the other case, at line 360: when a
\* crash leaves the event ahead, replay brings the projection up to the log.
\* The code compares and stops, in a reader as in a writer (runtime.py 354-360,
\* 450-456), so that this does not hold.
CrashedEventIsProjected == EventAhead ~> state = log

\* Every call returns, or its process dies: nobody waits for a lock that a
\* dead or a finished process still holds.
CallsReturn == \A p \in Process : pc[p] = "waiting" ~> pc[p] = "idle"

-----------------------------------------------------------------------------
(* The commit implements the promise of AtomicLog: what took effect is what *)
(* is projected, and it takes effect when the projection is replaced.       *)

PhaseAt(l) ==
  CASE l = "idle" -> "idle"
    [] l \in {"sync", "accept"} -> "done"
    [] l = "refuse" -> "refused"
    [] OTHER -> "open"
Phases == [p \in Process |-> PhaseAt(pc[p])]

Atomic == INSTANCE AtomicLog WITH entries <- state, phase <- Phases, request <- event

\* Every run of the log is a run of an atomic store: whatever dies between two
\* of the four files, a call has its effect once, at one moment, or none, and
\* who reads without the lock is shown the store of one moment.
\* (runtime.py 354-370, 450-470)
ImplementsAtomicLog == Atomic!Spec

=============================================================================
