------------------------- MODULE ExclusiveExecution -------------------------
(***************************************************************************)
(* What the task runtime promises to whoever runs tasks, without clocks,   *)
(* leases, dependencies or approvals:                                      *)
(*   - a task has at most one attempt in progress, attempts are numbered   *)
(*     1, 2, ... and there are at most MaxAttempts of them;                *)
(*   - an effect is begun by the attempt in progress, under a key used     *)
(*     once, and settled by that same attempt;                             *)
(*   - while an effect is in doubt (begun, outcome not known) its task is  *)
(*     neither given up, nor closed, nor given to another attempt;         *)
(*   - a closed task is never worked on again.                             *)
(* A new plan revision voids the attempts of the old one, doubts included. *)
(* It is the code's only way around the third promise.                     *)
(***************************************************************************)
EXTENDS Naturals

CONSTANTS Task, EffectKey, MaxAttempts, Unused

VARIABLES
  owner,     \* Task -> the attempt in progress, 0 if there is none
  attempts,  \* Task -> attempts given so far
  closed,    \* tasks nobody will work on again
  effect,    \* EffectKey -> what was begun under the key
  revision

vars == <<owner, attempts, closed, effect, revision>>

\* Effects of the current plan revision whose outcome is not known.
InDoubt(t) ==
  \E k \in EffectKey :
    /\ effect[k] # Unused
    /\ effect[k].task = t
    /\ effect[k].revision = revision
    /\ effect[k].doubt

Init ==
  /\ owner = [t \in Task |-> 0]
  /\ attempts = [t \in Task |-> 0]
  /\ closed = {}
  /\ effect = [k \in EffectKey |-> Unused]
  /\ revision = 0

\* Give the task its next attempt, taking it from a lapsed one if need be.
Give(t) ==
  /\ t \notin closed
  /\ ~InDoubt(t)
  /\ attempts[t] < MaxAttempts
  /\ attempts' = [attempts EXCEPT ![t] = @ + 1]
  /\ owner' = [owner EXCEPT ![t] = attempts[t] + 1]
  /\ UNCHANGED <<closed, effect, revision>>

GiveUp(t) ==
  /\ owner[t] # 0
  /\ ~InDoubt(t)
  /\ owner' = [owner EXCEPT ![t] = 0]
  /\ UNCHANGED <<attempts, closed, effect, revision>>

Close(t) ==
  /\ owner[t] # 0
  /\ ~InDoubt(t)
  /\ owner' = [owner EXCEPT ![t] = 0]
  /\ closed' = closed \cup {t}
  /\ UNCHANGED <<attempts, effect, revision>>

Begin(t, k) ==
  /\ owner[t] # 0
  /\ effect[k] = Unused
  /\ effect' = [effect EXCEPT ![k] =
       [task |-> t, attempt |-> owner[t], revision |-> revision, doubt |-> TRUE]]
  /\ UNCHANGED <<owner, attempts, closed, revision>>

Settle(k) ==
  /\ effect[k] # Unused
  /\ effect[k].doubt
  /\ owner[effect[k].task] # 0
  /\ effect[k].revision = revision => owner[effect[k].task] = effect[k].attempt
  /\ effect' = [effect EXCEPT ![k].doubt = FALSE]
  /\ UNCHANGED <<owner, attempts, closed, revision>>

\* A plan may declare tasks finished or blocked before any attempt.
Plan(done) ==
  /\ \A t \in Task : attempts[t] = 0
  /\ closed' = closed \cup done
  /\ UNCHANGED <<owner, attempts, effect, revision>>

Revise ==
  /\ revision' = revision + 1
  /\ owner' = [t \in Task |-> 0]
  /\ attempts' = [t \in Task |-> 0]
  /\ closed' = {}
  /\ UNCHANGED effect

Next ==
  \/ \E t \in Task : Give(t) \/ GiveUp(t) \/ Close(t)
  \/ \E t \in Task, k \in EffectKey : Begin(t, k)
  \/ \E k \in EffectKey : Settle(k)
  \/ \E done \in SUBSET Task : Plan(done)
  \/ Revise

Spec == Init /\ [][Next]_vars
=============================================================================
