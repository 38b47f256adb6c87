------------------------- MODULE RuntimeLogProofs -------------------------
(***************************************************************************)
(* Theorems about RuntimeLog, for any number of writers and readers, any   *)
(* keys and bodies, and any number of calls.                               *)
(***************************************************************************)
EXTENDS RuntimeLog, TLAPS

-----------------------------------------------------------------------------
(* The inductive invariant.                                                *)

Location == {"idle", "waiting", "check", "accept", "refuse"} \cup Committing

\* Types.  An observer that reads nothing has seen Nobody.
TypeOK ==
  /\ log \in Seq(Event) /\ state \in Seq(Event) /\ manifest \in Seq(Event)
  /\ torn \in BOOLEAN
  /\ lock \in Process \cup {Nobody}
  /\ pc \in [Process -> Location]
  /\ event \in [Process -> Event \cup {Nobody}]
  /\ base \in [Process -> Seq(Event)]
  /\ calls \in [Process -> Nat]
  /\ answered \in SUBSET Event
  /\ seen \in [Observer -> Seq(Event) \cup {Nobody}]
  /\ told \in [Observer -> Seq(Event)]

\* Whoever is past its wait holds the lock, and nobody else does.
LockIsHeld == \A p \in Process : lock = p <=> pc[p] \notin {"idle", "waiting"}

\* A call that has started knows its event.
EventIsKnown == \A p \in Process : pc[p] # "idle" => event[p] \in Event

\* Nothing in l stands against the event e.
Fits(e, l) == e.key \notin Keys(l) /\ (e.body \notin Unguarded => e.body \notin Bodies(l))

\* What a commit has found and done so far, when it is at each of its steps.
CommitIsAt(p) ==
  LET longer == Append(base[p], event[p]) IN
  /\ pc[p] \in Committing => ~torn /\ Fits(event[p], base[p]) /\ Replays(base[p])
  /\ pc[p] = "append" => log = base[p] /\ state = base[p]
  /\ pc[p] = "replay" => log = longer /\ state = base[p]
  /\ pc[p] = "project" => log = longer /\ state = base[p] /\ Replays(longer)
  /\ pc[p] = "sync" => log = longer /\ state = longer /\ Replays(longer)
  /\ pc[p] = "accept" => log = state /\ event[p] \in ToSet(state)

\* The projection is that of the whole log, or misses its last event.
StateTrailsLog == state = log \/ \E e \in Event : log = Append(state, e)

\* The projection is always one that replay accepts.
StateReplays == Replays(state)

\* No key is used twice.
OneEventPerKey == \A i, j \in DOMAIN log : log[i].key = log[j].key => i = j

\* What was answered, or read without the lock, is in the projection.
AnsweredIsProjected == \A e \in answered : e \in ToSet(state)

IInv ==
  /\ TypeOK
  /\ LockIsHeld
  /\ EventIsKnown
  /\ \A p \in Process : CommitIsAt(p)
  /\ StateTrailsLog
  /\ StateReplays
  /\ OneEventPerKey
  /\ GuardedOnce
  /\ AnsweredIsProjected
  /\ ReadsAreDurable

-----------------------------------------------------------------------------
(* Sequences of events.                                                    *)

\* What an appended event adds to a log.
LEMMA AppendAdds ==
  ASSUME NEW l \in Seq(Event), NEW e \in Event
  PROVE  /\ Append(l, e) \in Seq(Event)
         /\ DOMAIN Append(l, e) = DOMAIN l \cup {Len(l) + 1}
         /\ Len(l) + 1 \notin DOMAIN l
         /\ \A i \in DOMAIN l : Append(l, e)[i] = l[i]
         /\ Append(l, e)[Len(l) + 1] = e
  OBVIOUS

LEMMA AppendToSet ==
  ASSUME NEW l \in Seq(Event), NEW e \in Event
  PROVE  ToSet(Append(l, e)) = ToSet(l) \cup {e}
  BY AppendAdds DEF ToSet

\* An event that fits leaves keys, and guarded bodies, without a double.
LEMMA FittingAppend ==
  ASSUME NEW l \in Seq(Event), NEW e \in Event, Fits(e, l)
  PROVE  /\ (\A i, j \in DOMAIN l : l[i].key = l[j].key => i = j) =>
              \A i, j \in DOMAIN Append(l, e) :
                Append(l, e)[i].key = Append(l, e)[j].key => i = j
         /\ (\A i, j \in DOMAIN l :
               (l[i].body = l[j].body /\ l[i].body \notin Unguarded) => i = j) =>
              \A i, j \in DOMAIN Append(l, e) :
                (Append(l, e)[i].body = Append(l, e)[j].body
                   /\ Append(l, e)[i].body \notin Unguarded) => i = j
<1> DEFINE longer == Append(l, e)
<1>1. /\ DOMAIN longer = DOMAIN l \cup {Len(l) + 1}
      /\ \A i \in DOMAIN l : longer[i] = l[i]
      /\ longer[Len(l) + 1] = e
  BY AppendAdds
<1>2. \A i \in DOMAIN l : l[i].key # e.key
                          /\ (e.body \notin Unguarded => l[i].body # e.body)
  BY DEF Fits, Keys, Bodies
<1> HIDE DEF longer
<1> QED
  BY <1>1, <1>2

\* A log starts with itself, and with whatever it started with before.
LEMMA PrefixOfItself ==
  ASSUME NEW l \in Seq(Event)
  PROVE  IsPrefix(l, l)
  BY DEF IsPrefix

LEMMA PrefixGrows ==
  ASSUME NEW s \in Seq(Event), NEW l \in Seq(Event), NEW e \in Event, IsPrefix(s, l)
  PROVE  IsPrefix(s, Append(l, e))
  BY DEF IsPrefix

-----------------------------------------------------------------------------
(* Each conjunct is kept by every step.                                    *)

\* What can happen, one case per action, as the proofs below need it.
LEMMA Steps ==
  ASSUME [Next]_vars
  PROVE  \/ UNCHANGED vars
         \/ \E p \in Process : \/ \E e \in Event : Call(p, e)
                               \/ Acquire(p) \/ Check(p) \/ AppendEvent(p)
                               \/ ReplayAppended(p) \/ WriteState(p)
                               \/ SyncManifest(p) \/ Return(p) \/ Crash(p)
         \/ \E o \in Observer : ReadLog(o) \/ ReadState(o)
  BY DEF Next, Step

LEMMA VerdictType ==
  ASSUME NEW e \in Event
  PROVE  Verdict(e) \in {"refuse", "accept", "append"}
  BY DEF Verdict

\* Only the holder of the lock moves on, and it gives the lock back when it leaves.
LEMMA LockStep ==
  ASSUME TypeOK, LockIsHeld, EventIsKnown, [Next]_vars
  PROVE  LockIsHeld' /\ EventIsKnown'
<1> USE ProcessAssumption DEF TypeOK, LockIsHeld, EventIsKnown, Goto, Forget, Location, Committing
<1>1. CASE UNCHANGED vars
  BY <1>1 DEF vars, writers
<1>2. ASSUME NEW p \in Process, NEW e \in Event, Call(p, e)
      PROVE  LockIsHeld' /\ EventIsKnown'
  BY <1>2 DEF Call
<1>3. ASSUME NEW p \in Process, Acquire(p)
      PROVE  LockIsHeld' /\ EventIsKnown'
  BY <1>3 DEF Acquire
<1>4. ASSUME NEW p \in Process, Check(p)
      PROVE  LockIsHeld' /\ EventIsKnown'
  <2>1. event[p] \in Event
    BY <1>4 DEF Check
  <2> QED
    BY <1>4, <2>1, VerdictType DEF Check
<1>5. ASSUME NEW p \in Process,
             AppendEvent(p) \/ ReplayAppended(p) \/ WriteState(p) \/ SyncManifest(p)
      PROVE  LockIsHeld' /\ EventIsKnown'
  BY <1>5 DEF AppendEvent, ReplayAppended, WriteState, SyncManifest
<1>6. ASSUME NEW p \in Process, Return(p)
      PROVE  LockIsHeld' /\ EventIsKnown'
  BY <1>6 DEF Return
<1>7. ASSUME NEW p \in Process, Crash(p)
      PROVE  LockIsHeld' /\ EventIsKnown'
  BY <1>7 DEF Crash
<1>8. ASSUME NEW o \in Observer, ReadLog(o) \/ ReadState(o)
      PROVE  LockIsHeld' /\ EventIsKnown'
  BY <1>8 DEF ReadLog, ReadState, writers
<1> QED
  BY <1>1, <1>2, <1>3, <1>4, <1>5, <1>6, <1>7, <1>8, Steps

LEMMA TypeStep ==
  ASSUME TypeOK, EventIsKnown, [Next]_vars
  PROVE  TypeOK'
<1> USE ProcessAssumption
    DEF TypeOK, EventIsKnown, Goto, Forget, Location, Committing, files, writers, readers
<1>1. CASE UNCHANGED vars
  BY <1>1 DEF vars
<1>2. ASSUME NEW p \in Process, NEW e \in Event, Call(p, e)
      PROVE  TypeOK'
  BY <1>2 DEF Call
<1>3. ASSUME NEW p \in Process, Acquire(p)
      PROVE  TypeOK'
  BY <1>3 DEF Acquire
<1>4. ASSUME NEW p \in Process, Check(p)
      PROVE  TypeOK'
  <2>1. event[p] \in Event
    BY <1>4 DEF Check
  <2> QED
    BY <1>4, <2>1, VerdictType DEF Check
<1>5. ASSUME NEW p \in Process, event[p] \in Event
      PROVE  Append(log, event[p]) \in Seq(Event) /\ Append(base[p], event[p]) \in Seq(Event)
  BY <1>5, AppendAdds
<1>6. ASSUME NEW p \in Process,
             AppendEvent(p) \/ ReplayAppended(p) \/ WriteState(p) \/ SyncManifest(p)
      PROVE  TypeOK'
  <2>1. event[p] \in Event
    BY <1>6 DEF AppendEvent, ReplayAppended, WriteState, SyncManifest
  <2> QED
    BY <1>5, <1>6, <2>1 DEF AppendEvent, ReplayAppended, WriteState, SyncManifest
<1>7. ASSUME NEW p \in Process, Return(p)
      PROVE  TypeOK'
  <2>1. event[p] \in Event /\ <<>> \in Seq(Event)
    BY <1>7 DEF Return
  <2>2. answered' \in SUBSET Event
    BY <1>7, <2>1 DEF Return
  <2> QED
    BY <1>7, <2>1, <2>2 DEF Return
<1>8. ASSUME NEW p \in Process, Crash(p)
      PROVE  TypeOK'
  <2>1. torn' \in BOOLEAN
    BY <1>8 DEF Crash
  <2>2. lock' \in Process \cup {Nobody} /\ <<>> \in Seq(Event)
    BY <1>8 DEF Crash
  <2> QED
    BY <1>8, <2>1, <2>2 DEF Crash
<1>9. ASSUME NEW o \in Observer, ReadLog(o) \/ ReadState(o)
      PROVE  TypeOK'
  BY <1>9 DEF ReadLog, ReadState
<1> QED
  BY <1>1, <1>2, <1>3, <1>4, <1>6, <1>7, <1>8, <1>9, Steps

\* No other process is at work while one commits.
LEMMA OthersWait ==
  ASSUME LockIsHeld, NEW p \in Process, pc[p] \notin {"idle", "waiting"}, NEW q \in Process, q # p
  PROVE  pc[q] \in {"idle", "waiting"}
  BY DEF LockIsHeld

\* A process that is not committing has nothing to keep.
LEMMA NothingDone ==
  ASSUME NEW q \in Process, pc[q] \in {"idle", "waiting", "check", "refuse"}
  PROVE  CommitIsAt(q)
  BY DEF CommitIsAt, Committing

LEMMA NothingDoneNext ==
  ASSUME NEW q \in Process, pc'[q] \in {"idle", "waiting", "check", "refuse"}
  PROVE  CommitIsAt(q)'
  BY DEF CommitIsAt, Committing

\* A verdict other than a refusal says what it was given for.
LEMMA VerdictMeans ==
  ASSUME TypeOK, NEW e \in Event
  PROVE  /\ Verdict(e) = "append" => Healthy /\ Fits(e, log)
         /\ Verdict(e) = "accept" => Healthy /\ e \in ToSet(log)
<1>1. e.body \in KeyFirst \cup GuardFirst \cup Unguarded
  BY DEF Event, Body
<1>2. e \in ToSet(log) => e.key \in Keys(log)
  BY DEF ToSet, Keys
<1>3. Verdict(e) = "append" =>
        /\ Healthy /\ e.key \notin Keys(log)
        /\ e.body \in KeyFirst \cup GuardFirst => e.body \notin Bodies(log)
  BY <1>2 DEF Verdict
<1>4. Verdict(e) = "accept" => Healthy /\ e \in ToSet(log)
  BY DEF Verdict
<1> QED
  BY <1>1, <1>3, <1>4 DEF Fits

\* The holder of the lock does its commit step by step.
LEMMA CommitStep ==
  ASSUME IInv, [Next]_vars
  PROVE  \A q \in Process : CommitIsAt(q)'
<1> SUFFICES ASSUME NEW q \in Process
             PROVE  CommitIsAt(q)'
  OBVIOUS
<1> USE DEF TypeOK, Goto, IInv
<1>1. CASE UNCHANGED vars
  BY <1>1 DEF vars, files, writers, CommitIsAt, Fits
<1>2. ASSUME NEW p \in Process, pc[p] \notin {"idle", "waiting"}, q # p,
             pc' = [pc EXCEPT ![p] = pc'[p]]
      PROVE  CommitIsAt(q)'
  BY <1>2, OthersWait, NothingDoneNext
<1>3. ASSUME UNCHANGED <<files, writers>>
      PROVE  CommitIsAt(q)'
  BY <1>3 DEF files, writers, CommitIsAt, Fits
<1>4. ASSUME NEW p \in Process, NEW e \in Event, Call(p, e)
      PROVE  CommitIsAt(q)'
  <2>1. CASE q = p
    BY <1>4, <2>1, NothingDoneNext DEF Call
  <2>2. CASE q # p
    BY <1>4, <2>2 DEF Call, files, CommitIsAt, Fits
  <2> QED
    BY <2>1, <2>2
<1>5. ASSUME NEW p \in Process, Acquire(p)
      PROVE  CommitIsAt(q)'
  <2>1. CASE q = p
    BY <1>5, <2>1, NothingDoneNext DEF Acquire
  <2>2. CASE q # p
    BY <1>5, <2>2 DEF Acquire, files, CommitIsAt, Fits
  <2> QED
    BY <2>1, <2>2
<1>6. ASSUME NEW p \in Process, Check(p)
      PROVE  CommitIsAt(q)'
  <2>1. event[p] \in Event
    BY <1>6 DEF Check, EventIsKnown
  <2>2. CASE q = p
    BY <1>6, <2>1, <2>2, VerdictMeans, VerdictType
       DEF Check, files, CommitIsAt, Committing, Healthy, Fits
  <2> QED
    BY <1>2, <1>6, <2>2 DEF Check
<1>7. ASSUME NEW p \in Process, AppendEvent(p)
      PROVE  CommitIsAt(q)'
  <2>1. CASE q = p
    BY <1>7, <2>1 DEF AppendEvent, CommitIsAt, Committing, Fits
  <2> QED
    BY <1>2, <1>7, <2>1 DEF AppendEvent
<1>8. ASSUME NEW p \in Process, ReplayAppended(p)
      PROVE  CommitIsAt(q)'
  <2>1. CASE q = p
    BY <1>8, <2>1 DEF ReplayAppended, files, CommitIsAt, Committing, Fits
  <2> QED
    BY <1>2, <1>8, <2>1 DEF ReplayAppended
<1>9. ASSUME NEW p \in Process, WriteState(p)
      PROVE  CommitIsAt(q)'
  <2>1. CASE q = p
    BY <1>9, <2>1 DEF WriteState, CommitIsAt, Committing, Fits
  <2> QED
    BY <1>2, <1>9, <2>1 DEF WriteState
<1>10. ASSUME NEW p \in Process, SyncManifest(p)
       PROVE  CommitIsAt(q)'
  <2>1. event[p] \in Event /\ base[p] \in Seq(Event)
    BY <1>10 DEF SyncManifest, EventIsKnown
  <2>2. event[p] \in ToSet(Append(base[p], event[p]))
    BY <2>1, AppendToSet
  <2>3. CASE q = p
    <3>1. pc[p] = "sync" /\ CommitIsAt(p)
      BY <1>10 DEF SyncManifest
    <3>2. log = state /\ state = Append(base[p], event[p])
      BY <3>1, Zenon DEF CommitIsAt
    <3>3. log' = log /\ state' = state /\ event' = event /\ pc'[p] = "accept"
      BY <1>10 DEF SyncManifest
    <3> QED
      BY <2>2, <2>3, <3>2, <3>3 DEF CommitIsAt, Committing
  <2> QED
    BY <1>2, <1>10, <2>3 DEF SyncManifest
<1>11. ASSUME NEW p \in Process, Return(p)
       PROVE  CommitIsAt(q)'
  <2>1. CASE q = p
    BY <1>11, <2>1, NothingDoneNext DEF Return
  <2> QED
    BY <1>2, <1>11, <2>1 DEF Return
<1>12. ASSUME NEW p \in Process, Crash(p)
       PROVE  CommitIsAt(q)'
  <2>1. CASE q = p
    BY <1>12, <2>1, NothingDoneNext DEF Crash
  <2>2. CASE q # p /\ pc[p] \notin {"idle", "waiting"}
    BY <1>2, <1>12, <2>2 DEF Crash
  <2>3. CASE q # p /\ pc[p] = "waiting"
    BY <1>12, <2>3 DEF Crash, Forget, CommitIsAt, Fits
  <2> QED
    BY <1>12, <2>1, <2>2, <2>3 DEF Crash
<1>13. ASSUME NEW o \in Observer, ReadLog(o) \/ ReadState(o)
       PROVE  CommitIsAt(q)'
  BY <1>3, <1>13 DEF ReadLog, ReadState
<1> QED
  BY <1>1, <1>4, <1>5, <1>6, <1>7, <1>8, <1>9, <1>10, <1>11, <1>12, <1>13, Steps

\* The log gains an event in one kind of step, and the projection in another.
LEMMA FilesChange ==
  ASSUME [Next]_vars
  PROVE  /\ \/ log' = log
            \/ \E p \in Process : AppendEvent(p)
         /\ \/ state' = state
            \/ \E p \in Process : WriteState(p)
<1> USE DEF files, vars
<1> QED
  BY Steps DEF Call, Acquire, Check, AppendEvent, ReplayAppended, WriteState, SyncManifest,
               Return, Crash, ReadLog, ReadState

\* The appended event fits the log that it is appended to.
LEMMA LogStep ==
  ASSUME IInv, NEW p \in Process, AppendEvent(p)
  PROVE  /\ event[p] \in Event /\ Fits(event[p], log) /\ state = log /\ state' = state
         /\ log' = Append(log, event[p])
<1>1. pc[p] = "append" /\ CommitIsAt(p) /\ event[p] \in Event
  BY DEF IInv, TypeOK, EventIsKnown, AppendEvent, Goto
<1>2. Fits(event[p], base[p]) /\ log = base[p] /\ state = base[p]
  BY <1>1 DEF CommitIsAt, Committing
<1> QED
  BY <1>1, <1>2 DEF AppendEvent

\* The projection catches up with the log, by its last event.
LEMMA StateStep ==
  ASSUME IInv, NEW p \in Process, WriteState(p)
  PROVE  /\ event[p] \in Event /\ state' = Append(state, event[p])
         /\ log = state' /\ log' = log /\ Replays(state')
<1>1. pc[p] = "project" /\ CommitIsAt(p) /\ event[p] \in Event
  BY DEF IInv, TypeOK, EventIsKnown, WriteState, Goto
<1>2. state = base[p] /\ log = Append(base[p], event[p]) /\ Replays(Append(base[p], event[p]))
  BY <1>1, Zenon DEF CommitIsAt
<1> QED
  BY <1>1, <1>2 DEF WriteState

LEMMA TrailStep ==
  ASSUME IInv, [Next]_vars
  PROVE  StateTrailsLog' /\ StateReplays'
<1>1. CASE log' = log /\ state' = state
  BY <1>1 DEF IInv, StateTrailsLog, StateReplays, Replays
<1>2. ASSUME NEW p \in Process, AppendEvent(p)
      PROVE  StateTrailsLog' /\ StateReplays'
  BY <1>2, LogStep DEF IInv, StateTrailsLog, StateReplays, Replays
<1>3. ASSUME NEW p \in Process, WriteState(p)
      PROVE  StateTrailsLog' /\ StateReplays'
  BY <1>3, StateStep DEF StateTrailsLog, StateReplays
<1> QED
  BY <1>1, <1>2, <1>3, FilesChange

LEMMA OnceStep ==
  ASSUME IInv, [Next]_vars
  PROVE  OneEventPerKey' /\ GuardedOnce'
<1>1. CASE log' = log
  BY <1>1 DEF IInv, OneEventPerKey, GuardedOnce
<1>2. ASSUME NEW p \in Process, AppendEvent(p)
      PROVE  OneEventPerKey' /\ GuardedOnce'
  <2>1. event[p] \in Event /\ Fits(event[p], log) /\ log' = Append(log, event[p])
    BY <1>2, LogStep
  <2> QED
    BY <2>1, FittingAppend DEF IInv, TypeOK, OneEventPerKey, GuardedOnce
<1> QED
  BY <1>1, <1>2, FilesChange

\* The projection only grows, and nobody is told anything else than the projection.
LEMMA DurableStep ==
  ASSUME IInv, [Next]_vars
  PROVE  AnsweredIsProjected' /\ ReadsAreDurable'
<1> USE DEF IInv, TypeOK
<1>1. /\ ToSet(state) \subseteq ToSet(state')
      /\ \A l \in Seq(Event) : IsPrefix(l, state) => IsPrefix(l, state')
  <2>1. CASE state' = state
    BY <2>1
  <2>2. ASSUME NEW p \in Process, WriteState(p)
        PROVE  /\ ToSet(state) \subseteq ToSet(state')
               /\ \A l \in Seq(Event) : IsPrefix(l, state) => IsPrefix(l, state')
    <3>1. state \in Seq(Event) /\ event[p] \in Event /\ state' = Append(state, event[p])
      BY <2>2, StateStep
    <3>2. ToSet(Append(state, event[p])) = ToSet(state) \cup {event[p]}
      BY <3>1, AppendToSet
    <3>3. \A l \in Seq(Event) : IsPrefix(l, state) => IsPrefix(l, Append(state, event[p]))
      BY <3>1, PrefixGrows
    <3> HIDE DEF IInv, TypeOK
    <3> QED
      BY <3>1, <3>2, <3>3, Zenon
  <2> QED
    BY <2>1, <2>2, FilesChange
<1>2. answered' = answered \/ \E p \in Process : event[p] \in ToSet(state)
                                                 /\ answered' = answered \cup {event[p]}
  <2>1. ASSUME NEW p \in Process, Return(p), answered' # answered
        PROVE  event[p] \in ToSet(state) /\ answered' = answered \cup {event[p]}
    <3>1. pc[p] = "accept" /\ answered' = answered \cup {event[p]}
      BY <2>1 DEF Return, Goto
    <3> QED
      BY <3>1, Zenon DEF CommitIsAt
  <2> QED
    BY <2>1, Steps DEF vars, writers, Call, Acquire, Check, AppendEvent, ReplayAppended,
                       WriteState, SyncManifest, Crash, ReadLog, ReadState
<1>3. told' = told \/ \E o \in Observer : seen[o] = state /\ state' = state
                                          /\ told' = [told EXCEPT ![o] = seen[o]]
  <2>1. ASSUME NEW o \in Observer, ReadState(o), told' # told
        PROVE  seen[o] = state /\ state' = state /\ told' = [told EXCEPT ![o] = seen[o]]
    BY <2>1 DEF ReadState, Returns, files
  <2> QED
    BY <2>1, Steps DEF vars, readers, Call, Acquire, Check, AppendEvent, ReplayAppended,
                       WriteState, SyncManifest, Return, Crash, ReadLog
<1>4. AnsweredIsProjected'
  BY <1>1, <1>2 DEF AnsweredIsProjected
<1>5. ReadsAreDurable'
  <2>1. IsPrefix(state, state)
    BY PrefixOfItself
  <2>2. \A o \in Observer : IsPrefix(told[o], state')
    BY <1>1 DEF ReadsAreDurable
  <2> QED
    <3>1. CASE told' = told
      BY <2>2, <3>1 DEF ReadsAreDurable
    <3>2. ASSUME NEW o \in Observer, seen[o] = state, state' = state,
                 told' = [told EXCEPT ![o] = seen[o]]
          PROVE  ReadsAreDurable'
      BY <2>1, <2>2, <3>2 DEF ReadsAreDurable
    <3> QED
      BY <1>3, <3>1, <3>2
<1> QED
  BY <1>4, <1>5

-----------------------------------------------------------------------------
(* Theorems.                                                               *)

LEMMA Initially == Init => IInv
<1> SUFFICES ASSUME Init
             PROVE  IInv
  OBVIOUS
<1>1. <<>> \in Seq(Event) /\ DOMAIN (<<>>) = {}
  OBVIOUS
<1>2. TypeOK
  BY <1>1 DEF Init, TypeOK, Location
<1>3. LockIsHeld /\ EventIsKnown /\ AnsweredIsProjected
  BY ProcessAssumption DEF Init, LockIsHeld, EventIsKnown, AnsweredIsProjected
<1>4. \A p \in Process : CommitIsAt(p)
  BY NothingDone DEF Init
<1>5. StateTrailsLog /\ StateReplays /\ OneEventPerKey /\ GuardedOnce
  BY <1>1 DEF Init, StateTrailsLog, StateReplays, Replays, OneEventPerKey, GuardedOnce
<1>6. ReadsAreDurable
  <2>1. IsPrefix(<<>>, <<>>)
    BY <1>1, PrefixOfItself
  <2> QED
    BY <2>1 DEF Init, ReadsAreDurable
<1> QED
  BY <1>2, <1>3, <1>4, <1>5, <1>6 DEF IInv

\* What one call knows of the log while it holds the lock, and what the files
\* have in common whenever a process may die: the invariant is inductive.
THEOREM Inductive == Spec => []IInv
<1>1. IInv /\ [Next]_vars => IInv'
  BY TypeStep, LockStep, CommitStep, TrailStep, OnceStep, DurableStep DEF IInv
<1> QED
  BY Initially, <1>1, PTL DEF Spec

\* A guard that was checked still holds when its event is appended, whoever
\* dies in between: no guarded body takes effect twice.
THEOREM GuardsHoldOnce == Spec => []GuardedOnce
<1>1. IInv => GuardedOnce
  BY DEF IInv
<1> QED
  BY <1>1, Inductive, PTL

\* What a call answered is in the log and in the projection for good.
THEOREM AnswersAreDurable == Spec => []AnsweredIsDurable
<1>1. ASSUME IInv
      PROVE  AnsweredIsDurable
  <2>1. ToSet(state) \subseteq ToSet(log)
    BY <1>1, AppendToSet DEF IInv, TypeOK, StateTrailsLog
  <2> QED
    BY <1>1, <2>1 DEF IInv, AnsweredIsProjected, AnsweredIsDurable
<1> QED
  BY <1>1, Inductive, PTL

\* What a lock-free replay returned stays in the projection.
THEOREM ReadsStay == Spec => []ReadsAreDurable
<1>1. IInv => ReadsAreDurable
  BY DEF IInv
<1> QED
  BY <1>1, Inductive, PTL

\* Whatever crashes leave behind, the projection misses at most the last event
\* of the log, replay accepts it, and every idempotency key is used once.
THEOREM ProjectionTrails == Spec => [](StateTrailsLog /\ StateReplays /\ OneEventPerKey)
<1>1. IInv => StateTrailsLog /\ StateReplays /\ OneEventPerKey
  BY DEF IInv
<1> QED
  BY <1>1, Inductive, PTL

\* While the log is corrupt and nobody commits, no step starts a commit or
\* writes a file.
THEOREM CorruptLogLeftAlone == Spec => CorruptLogIsLeftAlone
<1>1. ASSUME IInv, [Next]_vars, Corrupt, Resting
      PROVE  UNCHANGED files /\ Resting'
  <2> USE DEF IInv, TypeOK, Goto, Committing, Resting, files
  <2>1. CASE UNCHANGED vars
    BY <1>1, <2>1 DEF vars, writers
  <2>2. ASSUME NEW p \in Process, (\E e \in Event : Call(p, e)) \/ Acquire(p)
                                    \/ Return(p) \/ Crash(p)
        PROVE  UNCHANGED files /\ Resting'
    BY <1>1, <2>2 DEF Call, Acquire, Return, Crash
  <2>3. ASSUME NEW p \in Process, Check(p)
        PROVE  UNCHANGED files /\ Resting'
    BY <1>1, <2>3 DEF Check, Verdict, Healthy, Corrupt
  <2>4. ASSUME NEW p \in Process,
               AppendEvent(p) \/ ReplayAppended(p) \/ WriteState(p) \/ SyncManifest(p)
        PROVE  FALSE
    BY <1>1, <2>4 DEF AppendEvent, ReplayAppended, WriteState, SyncManifest
  <2>5. ASSUME NEW o \in Observer, ReadLog(o) \/ ReadState(o)
        PROVE  UNCHANGED files /\ Resting'
    BY <1>1, <2>5 DEF ReadLog, ReadState, writers
  <2> QED
    BY <1>1, <2>1, <2>2, <2>3, <2>4, <2>5, Steps
<1>2. IInv /\ [Next]_vars => [(Corrupt /\ Resting) => UNCHANGED files /\ Resting']_vars
  BY <1>1
<1> QED
  BY <1>2, Inductive, PTL DEF Spec, CorruptLogIsLeftAlone

-----------------------------------------------------------------------------
(* The refinement of AtomicLog: each step is a step of the store, or leaves *)
(* it as it is.                                                             *)

LEMMA PhaseValues ==
  /\ PhaseAt("idle") = "idle" /\ PhaseAt("refuse") = "refused"
  /\ PhaseAt("sync") = "done" /\ PhaseAt("accept") = "done"
  /\ \A l \in {"waiting", "check", "append", "replay", "project"} : PhaseAt(l) = "open"
  BY DEF PhaseAt

LEMMA PhaseMoves ==
  ASSUME TypeOK, NEW p \in Process, NEW a, NEW b, Goto(p, a, b)
  PROVE  /\ Phases[p] = PhaseAt(a) /\ Phases' = [Phases EXCEPT ![p] = PhaseAt(b)]
         /\ PhaseAt(a) = PhaseAt(b) => Phases' = Phases
<1>1. pc[p] = a /\ pc' = [pc EXCEPT ![p] = b] /\ pc \in [Process -> Location]
  BY DEF Goto, TypeOK
<1>2. \A q \in Process : pc'[q] = IF q = p THEN b ELSE pc[q]
  BY <1>1
<1>3. Phases' = [q \in Process |-> PhaseAt(pc'[q])]
  BY DEF Phases, PhaseAt
<1> QED
  BY <1>1, <1>2, <1>3 DEF Phases

\* The end of a call, by returning or by dying, leaves no request.
LEMMA RequestEnds ==
  ASSUME NEW p \in Process, Forget(p)
  PROVE  event' = [event EXCEPT ![p] = Nobody]
  BY DEF Forget

LEMMA ProjectionRecords ==
  ASSUME IInv, NEW p \in Process, WriteState(p)
  PROVE  Atomic!Record(p)
<1>1. pc[p] = "project" /\ base[p] \in Seq(Event) /\ event[p] \in Event /\ CommitIsAt(p)
  BY DEF WriteState, Goto, IInv, TypeOK, EventIsKnown
<1>2. state = base[p] /\ Fits(event[p], base[p]) /\ Replays(Append(base[p], event[p]))
  BY <1>1 DEF CommitIsAt, Committing
<1>3. \A i \in DOMAIN base[p] : base[p][i].key # event[p].key /\ base[p][i].body # event[p].body
  <2> DEFINE longer == Append(base[p], event[p])
             last == Len(base[p]) + 1
  <2>1. /\ DOMAIN longer = DOMAIN base[p] \cup {last} /\ last \notin DOMAIN base[p]
        /\ longer[last] = event[p] /\ \A i \in DOMAIN base[p] : longer[i] = base[p][i]
    BY <1>1, AppendAdds
  <2> HIDE DEF longer, last
  <2>2. Replays(longer)
    BY <1>2 DEF longer
  <2>3. \A i \in DOMAIN base[p] : base[p][i].body # event[p].body
    BY <2>1, <2>2 DEF Replays
  <2>4. \A i \in DOMAIN base[p] : base[p][i].key # event[p].key
    BY <1>2 DEF Fits, Keys
  <2> QED
    BY <2>3, <2>4
<1>4. \A e \in ToSet(state) : e.key # event[p].key /\ e.body # event[p].body
  BY <1>2, <1>3 DEF ToSet
<1>5. Atomic!Move(p, "open", "done")
  BY PhaseMoves, PhaseValues DEF WriteState, IInv, Atomic!Move
<1> QED
  BY <1>2, <1>4, <1>5 DEF WriteState, Atomic!Record, readers, ToSet, Atomic!ToSet

LEMMA CheckRefines ==
  ASSUME IInv, NEW p \in Process, Check(p)
  PROVE  Atomic!Repeat(p) \/ Atomic!Refuse(p) \/ UNCHANGED Atomic!vars
<1>1. event[p] \in Event
  BY DEF Check, Goto, IInv, TypeOK, EventIsKnown
<1>2. Verdict(event[p]) \in {"refuse", "accept", "append"}
  BY <1>1, VerdictType
<1>3. UNCHANGED <<state, event, answered, told>>
  BY DEF Check, files, readers
<1>4. CASE Verdict(event[p]) = "refuse"
  BY <1>3, <1>4, PhaseMoves, PhaseValues DEF Check, IInv, Atomic!Refuse, Atomic!Move
<1>5. CASE Verdict(event[p]) = "accept"
  <2>1. event[p] \in Atomic!ToSet(state)
    BY <1>5 DEF Verdict, Healthy, ToSet, Atomic!ToSet
  <2> QED
    BY <1>3, <1>5, <2>1, PhaseMoves, PhaseValues DEF Check, IInv, Atomic!Repeat, Atomic!Move
<1>6. CASE Verdict(event[p]) = "append"
  BY <1>3, <1>6, PhaseMoves, PhaseValues DEF Check, IInv, Atomic!vars
<1> QED
  BY <1>2, <1>4, <1>5, <1>6

LEMMA CommitRefines ==
  ASSUME IInv, NEW p \in Process, AppendEvent(p) \/ ReplayAppended(p) \/ WriteState(p) \/ SyncManifest(p)
  PROVE  Atomic!Record(p) \/ Atomic!Refuse(p) \/ UNCHANGED Atomic!vars
<1>1. CASE AppendEvent(p)
  BY <1>1, PhaseMoves, PhaseValues DEF AppendEvent, IInv, readers, Atomic!vars
<1>2. CASE ReplayAppended(p)
  <2> DEFINE next == IF Replays(Append(base[p], event[p])) THEN "project" ELSE "refuse"
  <2>1. Goto(p, "replay", next) /\ UNCHANGED <<state, event, answered, told>>
    BY <1>2 DEF ReplayAppended, files, readers
  <2>2. next \in {"project", "refuse"}
    OBVIOUS
  <2> HIDE DEF next
  <2>3. CASE next = "project"
    BY <2>1, <2>3, PhaseMoves, PhaseValues DEF IInv, Atomic!vars
  <2>4. CASE next = "refuse"
    BY <2>1, <2>4, PhaseMoves, PhaseValues DEF IInv, Atomic!Refuse, Atomic!Move
  <2> QED
    BY <2>2, <2>3, <2>4
<1>3. CASE WriteState(p)
  BY <1>3, ProjectionRecords
<1>4. CASE SyncManifest(p)
  BY <1>4, PhaseMoves, PhaseValues DEF SyncManifest, IInv, readers, Atomic!vars
<1> QED
  BY <1>1, <1>2, <1>3, <1>4

LEMMA CallRefines ==
  ASSUME IInv, NEW p \in Process
  PROVE  /\ \A e \in Event : Call(p, e) => Atomic!Invoke(p, e)
         /\ Acquire(p) => UNCHANGED Atomic!vars
         /\ Return(p) => Atomic!Return(p)
         /\ Crash(p) => Atomic!Die(p)
<1>1. ASSUME NEW e \in Event, Call(p, e)
      PROVE  Atomic!Invoke(p, e)
  BY <1>1, PhaseMoves, PhaseValues DEF Call, IInv, files, readers, Atomic!Invoke, Atomic!Move
<1>2. ASSUME Acquire(p)
      PROVE  UNCHANGED Atomic!vars
  BY <1>2, PhaseMoves, PhaseValues DEF Acquire, IInv, files, readers, Atomic!vars
<1>3. ASSUME Return(p)
      PROVE  Atomic!Return(p)
  <2>1. event' = [event EXCEPT ![p] = Nobody] /\ UNCHANGED <<state, told>>
    BY <1>3, RequestEnds DEF Return, files, readers
  <2>2. CASE Goto(p, "accept", "idle") /\ answered' = answered \cup {event[p]}
    BY <2>1, <2>2, PhaseMoves, PhaseValues DEF IInv, Atomic!Return, Atomic!Move
  <2>3. CASE Goto(p, "refuse", "idle") /\ UNCHANGED answered
    BY <2>1, <2>3, PhaseMoves, PhaseValues DEF IInv, Atomic!Return, Atomic!Move
  <2> QED
    BY <1>3, <2>2, <2>3 DEF Return
<1>4. ASSUME Crash(p)
      PROVE  Atomic!Die(p)
  <2>1. event' = [event EXCEPT ![p] = Nobody] /\ UNCHANGED <<state, answered, told>>
    BY <1>4, RequestEnds DEF Crash, readers
  <2>2. Goto(p, pc[p], "idle") /\ pc[p] # "idle" /\ pc[p] \in Location
    BY <1>4 DEF Crash, Goto, IInv, TypeOK
  <2>3. Phases[p] = PhaseAt(pc[p]) /\ Phases' = [Phases EXCEPT ![p] = "idle"]
    BY <2>2, PhaseMoves, PhaseValues DEF IInv
  <2>4. PhaseAt(pc[p]) # "idle"
    BY <2>2 DEF PhaseAt
  <2> QED
    BY <2>1, <2>3, <2>4 DEF Atomic!Die
<1> QED
  BY <1>1, <1>2, <1>3, <1>4

\* A reader is shown the projection as it is when it reads it.
LEMMA ReadRefines ==
  ASSUME IInv, NEW o \in Observer, ReadLog(o) \/ ReadState(o)
  PROVE  Atomic!Tell(o) \/ UNCHANGED Atomic!vars
<1>1. Phases' = Phases /\ UNCHANGED <<state, event, answered>>
  BY DEF ReadLog, ReadState, files, writers, Phases, PhaseAt
<1>2. CASE UNCHANGED told
  BY <1>1, <1>2 DEF Atomic!vars
<1>3. CASE ReadState(o) /\ Returns(o)
  <2>1. told' = [told EXCEPT ![o] = state]
    BY <1>3 DEF ReadState, Returns
  <2> QED
    BY <1>1, <2>1 DEF Atomic!Tell
<1>4. CASE ReadState(o) /\ ~Returns(o)
  <2>1. told' = told
    BY <1>4 DEF ReadState, IInv, TypeOK
  <2> QED
    BY <1>1, <2>1 DEF Atomic!vars
<1> QED
  BY <1>2, <1>3, <1>4 DEF ReadLog

\* The runtime's log, its projection and its lock are an atomic store: whatever
\* steps interleave and whoever dies between two files, a call adds its event at
\* one moment or not at all, what was refused added nothing, and a reader without
\* the lock is shown the store of one moment.  (runtime.py:354-370, 463-468)
THEOREM LogIsAtomic == Spec => ImplementsAtomicLog
<1>1. Init => Atomic!Init
  BY PhaseValues DEF Init, Atomic!Init, Phases
<1>2. IInv /\ [Next]_vars => [Atomic!Next]_(Atomic!vars)
  <2> SUFFICES ASSUME IInv, [Next]_vars
               PROVE  Atomic!Next \/ UNCHANGED Atomic!vars
    OBVIOUS
  <2>1. CASE UNCHANGED vars
    BY <2>1 DEF vars, files, writers, readers, Atomic!vars, Phases, PhaseAt
  <2>2. ASSUME NEW p \in Process,
               \/ \E e \in Event : Call(p, e)
               \/ Acquire(p) \/ Return(p) \/ Crash(p)
        PROVE  Atomic!Next \/ UNCHANGED Atomic!vars
    BY <2>2, CallRefines DEF Atomic!Next
  <2>3. ASSUME NEW p \in Process, Check(p)
        PROVE  Atomic!Next \/ UNCHANGED Atomic!vars
    BY <2>3, CheckRefines DEF Atomic!Next
  <2>4. ASSUME NEW p \in Process,
               AppendEvent(p) \/ ReplayAppended(p) \/ WriteState(p) \/ SyncManifest(p)
        PROVE  Atomic!Next \/ UNCHANGED Atomic!vars
    BY <2>4, CommitRefines DEF Atomic!Next
  <2>5. ASSUME NEW o \in Observer, ReadLog(o) \/ ReadState(o)
        PROVE  Atomic!Next \/ UNCHANGED Atomic!vars
    BY <2>5, ReadRefines DEF Atomic!Next
  <2> QED
    BY <2>1, <2>2, <2>3, <2>4, <2>5, Steps
<1> QED
  BY <1>1, <1>2, Inductive, PTL DEF Spec, ImplementsAtomicLog, Atomic!Spec
=============================================================================
