------------------------------ MODULE AtomicLog ------------------------------
(***************************************************************************)
(* What the runtime promises to its callers, without files, locks, replays *)
(* and steps that a crash may separate: a store of events to which a call  *)
(* adds its event at one moment.                                           *)
(*   - a call that returns normally has added its event, or has found that *)
(*     very event in the store; one that is refused has added nothing; of  *)
(*     one that died the caller does not know;                             *)
(*   - no idempotency key and no effect is in the store twice, and nothing *)
(*     leaves it or changes its place;                                     *)
(*   - a reader is shown the whole store as it is at one moment.           *)
(***************************************************************************)
EXTENDS Naturals, Sequences, SequencesExt

CONSTANTS Process, Observer, Event, Nobody

VARIABLES
  entries,   \* the events that took effect, in order
  phase,     \* of each process: "idle", or how far its call has come
  request,   \* the event of its call, or Nobody
  answered,  \* events of the calls that returned normally
  told       \* what each observer was shown last

vars == <<entries, phase, request, answered, told>>

Init ==
  /\ entries = <<>>
  /\ phase = [p \in Process |-> "idle"]
  /\ request = [p \in Process |-> Nobody]
  /\ answered = {}
  /\ told = [o \in Observer |-> <<>>]

Move(p, from, to) == phase[p] = from /\ phase' = [phase EXCEPT ![p] = to]

Invoke(p, e) ==
  /\ Move(p, "idle", "open")
  /\ request' = [request EXCEPT ![p] = e]
  /\ UNCHANGED <<entries, answered, told>>

\* The event takes effect: its key and its body are new.
Record(p) ==
  /\ Move(p, "open", "done")
  /\ \A e \in ToSet(entries) : e.key # request[p].key /\ e.body # request[p].body
  /\ entries' = Append(entries, request[p])
  /\ UNCHANGED <<request, answered, told>>

Repeat(p) ==
  /\ Move(p, "open", "done")
  /\ request[p] \in ToSet(entries)
  /\ UNCHANGED <<entries, request, answered, told>>

Refuse(p) ==
  /\ Move(p, "open", "refused")
  /\ UNCHANGED <<entries, request, answered, told>>

Return(p) ==
  /\ \/ Move(p, "done", "idle") /\ answered' = answered \cup {request[p]}
     \/ Move(p, "refused", "idle") /\ UNCHANGED answered
  /\ request' = [request EXCEPT ![p] = Nobody]
  /\ UNCHANGED <<entries, told>>

\* The process dies, before or after its event took effect.
Die(p) ==
  /\ phase[p] # "idle"
  /\ phase' = [phase EXCEPT ![p] = "idle"]
  /\ request' = [request EXCEPT ![p] = Nobody]
  /\ UNCHANGED <<entries, answered, told>>

Tell(o) ==
  /\ told' = [told EXCEPT ![o] = entries]
  /\ UNCHANGED <<entries, phase, request, answered>>

Next ==
  \/ \E p \in Process : Record(p) \/ Repeat(p) \/ Refuse(p) \/ Return(p) \/ Die(p)
                          \/ \E e \in Event : Invoke(p, e)
  \/ \E o \in Observer : Tell(o)

Spec == Init /\ [][Next]_vars

=============================================================================
