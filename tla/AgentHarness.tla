---------------------------- MODULE AgentHarness ----------------------------
(***************************************************************************)
(* The agent harness (tools/lib/agent_harness.py, run_agent_harness.py):   *)
(* runs that lease one task, hand a bounded context to a worker process    *)
(* and record what it proposes; run_worker.py and apply_agent_actions.py   *)
(* do parts of a step by hand.  One event log serves all runs; a state     *)
(* file and a run file are projected from it, but the commands also write  *)
(* the run file themselves.  Several commands may be under way at once:    *)
(* only an append holds the lock, everything between two appends is open   *)
(* to other commands, to the runtime, to the clock and to a crash.         *)
(*                                                                         *)
(* Abstractions.  Each run takes a task of its own; of the runtime there   *)
(* is as much as the harness looks at.  An event stands for its            *)
(* idempotency key: append compares the stored payload, which has the run  *)
(* id, with the caller's, which has not, so that a repeated key is always  *)
(* refused.  The state file is the number of events it shows.  Context and *)
(* grant are their expiry.  Schemas, hashes, the security scan, byte and   *)
(* action-count limits are left out; a worker answer is the kinds of its   *)
(* proposals, and a bad answer (exit status, timeout, size, schema) is no  *)
(* answer. Targets of tool requests and effects match the grant and the    *)
(* plan.                                                                   *)
(***************************************************************************)
EXTENDS Integers, Sequences, FiniteSets, SequencesExt

CONSTANTS
  Invoker,   \* concurrent commands
  Run,       \* run ids
  Answer,    \* what a worker may answer: sequences of action kinds
  MaxSteps,  \* stopping policy: max_steps
  MaxInvocations, \* stopping policy: max_invocations
  GrantTime, \* grant_max_seconds
  HandNumbers, \* bound: the invocation numbers that callers choose
  MaxTime, MaxAttempt, \* bounds: the clock, claims of the task
  Apart, Together, \* bounds on events and incidents, before and after commands have overlapped
  None

RunStatus == {"RUNNING", "WAITING_APPROVAL", "BLOCKED", "CANCELLED", "COMPLETE"}
RunFile == [status : RunStatus, until : Nat]

\* An answer is a list, the policy gives counts, and there may be no run file.
ASSUME AnswerAssumption == \A answer \in Answer : answer \in Seq(Range(answer))
ASSUME PolicyAssumption == MaxSteps \in Nat /\ GrantTime \in Nat
ASSUME NumberAssumption == HandNumbers \subseteq Nat /\ Apart.incidents \in Nat /\ Together.incidents \in Nat
ASSUME NoneAssumption == None \notin RunFile

VARIABLES
  autonomous,  \* is the effect type of the tasks one of autonomous_effect_types?
  task,        \* the task that is for a run, in the runtime: status, attempt, lease
  approved,    \* has the runtime a valid approval for every requirement of the tasks?
  now,         \* the clock the callers read
  log,         \* agent-run-log.jsonl
  torn,        \* does the log end in an incomplete line?
  shown,       \* events that agent-run-state.json shows, -1 when there is no file
  runs,        \* runs/<id>.json with its context and grant, or None
  invocations, \* invocations/<id>.json, by number
  responses,   \* responses/<id>.json, by number
  actions,     \* actions/<id>.json, and the tool requests that come with them
  pc,          \* where a command is
  claimed,     \* the runs whose claim the runtime has in its log
  calls,       \* history: worker processes that the steps of a run started
  overlapped,  \* history: runs on which two commands were under way together
  settled,     \* history: what the last step that ended a run had at hand
  incidents    \* bounded: commands that died or were given by hand

vars == <<autonomous, task, approved, now, log, torn, shown, runs, invocations, responses,
          actions, pc, claimed, calls, overlapped, settled, incidents>>
files == <<log, torn, shown, runs, invocations, responses, actions>>
world == <<autonomous, task, approved, now, claimed>>

Idle == [at |-> "idle"]
Go(p, to) == pc' = [pc EXCEPT ![p] = to]

\* A command on a run begins.
Enter(p, r, to) ==
  /\ pc[p] = Idle
  /\ Go(p, to)
  /\ overlapped' = IF \E o \in Invoker : pc[o] # Idle /\ pc[o].run = r
                   THEN overlapped \cup {r} ELSE overlapped
At(p, stage) == pc[p] # Idle /\ pc[p].at = stage

-----------------------------------------------------------------------------
(* The log and what it says of a run.                                      *)

EventOf(r, type, tag) == [run |-> r, type |-> type, tag |-> tag]
Events(r, type) == {e \in Range(log) : e.run = r /\ e.type = type}
StepCount(r) == Cardinality(Events(r, "STEP_STARTED"))
InvocationCount(r) == Cardinality(Events(r, "INVOCATION_RECORDED"))

\* The status of the last event that carries one.
Carrying(l) == {i \in DOMAIN l : l[i].type \in {"RUN_CREATED", "RUN_STATUS_CHANGED"}}
LoggedStatus(l) ==
  LET last == l[Max(Carrying(l))]
  IN IF last.type = "RUN_CREATED" THEN "RUNNING" ELSE last.tag[1]

\* replay without the projection: the events of all runs are in one log, and those of another run
\* are an error.
Readable(r, l) ==
  /\ \E e \in Range(l) : e.type = "RUN_CREATED"
  /\ \A e \in Range(l) : e.run = r

Replays(r) == ~torn /\ Readable(r, log) /\ shown \in {-1, Len(log)}

Token(r, attempt) == <<r, attempt>>

AllowedActions ==
  IF autonomous THEN {"RECORD_METADATA", "REQUEST_TOOL", "STOP"}
  ELSE {"REQUEST_APPROVAL", "REQUEST_EFFECT", "STOP"}

\* start and step expect the token of the current attempt, context and lease have that of the first.
Leases(r) == task[r].status = "RUNNING" /\ task[r].lease.token = Token(r, task[r].attempt)
Holds(r) == task[r].status = "RUNNING" /\ task[r].lease.token = Token(r, 1)
Authority(r, time) == Holds(r) /\ time < task[r].lease.until /\ time < runs[r].until

Init ==
  /\ autonomous \in BOOLEAN
  /\ task = [r \in Run |-> [status |-> "READY", attempt |-> 0, lease |-> None]]
  /\ approved = FALSE /\ now = 0
  /\ log = <<>> /\ torn = FALSE /\ shown = -1
  /\ runs = [r \in Run |-> None]
  /\ invocations = <<>> /\ responses = <<>> /\ actions = {}
  /\ pc = [p \in Invoker |-> Idle]
  /\ claimed = {}
  /\ calls = [r \in Run |-> 0] /\ overlapped = {} /\ settled = [r \in Run |-> None]
  /\ incidents = 0

-----------------------------------------------------------------------------
(* HarnessStore.append: a stage of several commands.  The caller goes on   *)
(* with "then" when the append is done.                                    *)

\* A command that appends; "time" is the timestamp it was given when it began, "hand" whether it is
\* run_worker.py or apply_agent_actions.py, "found" whether it has found its invocation on file.
Appending(event, then, time) ==
  [at |-> "append", run |-> event.run, event |-> event, then |-> then, time |-> time,
   invocation |-> 0, deadline |-> 0, answer |-> <<>>, hand |-> FALSE, found |-> FALSE]

Bound == IF overlapped = {} THEN Apart ELSE Together
Incident == incidents < Bound.incidents /\ incidents' = incidents + 1

Locked == \E p \in Invoker : pc[p] # Idle /\ pc[p].at \in {"project", "update"}

\* Mutant: keys are not compared.
FreshAlways(event) == ~torn

Fresh(event) == ~torn /\ event \notin Range(log)

\* An event whose key is known, or a torn log, ends the command with an error; so does, once the
\* event is written, a log that does not replay for this run.
AppendEvent(p) ==
  LET c == pc[p] IN
  /\ At(p, "append") /\ ~Locked
  /\ Len(log) < Bound.events
  /\ IF Fresh(c.event)
     THEN /\ log' = Append(log, c.event)
          /\ Go(p, IF Readable(c.run, log') THEN [c EXCEPT !.at = "project"] ELSE Idle)
     ELSE Go(p, Idle) /\ UNCHANGED log
  /\ UNCHANGED <<world, torn, shown, runs, invocations, responses, actions, calls, overlapped, settled, incidents>>

ProjectState(p) ==
  /\ At(p, "project")
  /\ shown' = Len(log)
  /\ Go(p, [pc[p] EXCEPT !.at = "update"])
  /\ UNCHANGED <<world, log, torn, runs, invocations, responses, actions, calls, overlapped, settled, incidents>>

\* The run file takes the status of the log, whatever it said before.
UpdateRunFile(p) ==
  LET c == pc[p] IN
  /\ At(p, "update")
  /\ runs' = [runs EXCEPT ![c.run].status = LoggedStatus(log)]
  /\ Go(p, IF c.then = "idle" THEN Idle ELSE [c EXCEPT !.at = c.then])
  /\ UNCHANGED <<world, log, torn, shown, invocations, responses, actions, calls, overlapped, settled, incidents>>

-----------------------------------------------------------------------------
(* start                                                                   *)

Claim(r, token) ==
  /\ task[r].status = "READY" /\ task[r].attempt < MaxAttempt
  /\ task' = [task EXCEPT ![r] = [status |-> "RUNNING", attempt |-> @.attempt + 1,
                                  lease |-> [token |-> token, until |-> now + GrantTime]]]

\* _start: the claim, always with the token of a first attempt, then build_context and create_run up
\* to the run file.  On a later attempt the token is not the lease's and the command fails, claimed.
\* The key of the claim is the run's: it cannot claim again.
Start(p, r) ==
  /\ r \notin claimed
  /\ Claim(r, Token(r, 1))
  /\ claimed' = claimed \cup {r}
  /\ Enter(p, r, [at |-> "start", run |-> r, time |-> now])
  /\ UNCHANGED <<autonomous, approved, now, files, calls, settled, incidents>>

CreateRun(p) ==
  LET r == pc[p].run IN
  /\ At(p, "start")
  /\ IF Leases(r) /\ pc[p].time < task[r].lease.until
     THEN /\ runs' = [runs EXCEPT ![r] = [status |-> "RUNNING", until |-> task[r].lease.until]]
          /\ Go(p, Appending(EventOf(r, "RUN_CREATED", 0), "created", pc[p].time))
     ELSE Go(p, Idle) /\ UNCHANGED runs
  /\ UNCHANGED <<world, log, torn, shown, invocations, responses, actions, calls, overlapped, settled, incidents>>

\* create_run writes the run it made once more.
RunCreated(p) ==
  /\ At(p, "created")
  /\ runs' = [runs EXCEPT ![pc[p].run].status = "RUNNING"]
  /\ Go(p, Idle)
  /\ UNCHANGED <<world, log, torn, shown, invocations, responses, actions, calls, overlapped, settled, incidents>>

-----------------------------------------------------------------------------
(* step, run and resume                                                    *)

AtLimit(r) == StepCount(r) >= MaxSteps \/ InvocationCount(r) >= MaxInvocations

Stepping(r, time) ==
  Appending(EventOf(r, "STEP_STARTED", StepCount(r) + 1), "invoke", time)

\* _step up to its first append; it reads run file, log and runtime state.
BeginStep(p, r) ==
  /\ runs[r] # None /\ runs[r].status = "RUNNING" /\ Replays(r)
  /\ ~AtLimit(r) /\ Leases(r)
  /\ Enter(p, r, Stepping(r, now))
  /\ UNCHANGED <<world, files, calls, settled, incidents>>

\* _sync_run alone: the log does not hear of the limit.
StopAtLimit(p, r) ==
  /\ pc[p] = Idle /\ runs[r] # None
  /\ runs[r].status = "RUNNING" /\ Replays(r) /\ AtLimit(r)
  /\ runs' = [runs EXCEPT ![r].status = "BLOCKED"]
  /\ UNCHANGED <<world, log, torn, shown, invocations, responses, actions, pc, calls, overlapped, settled, incidents>>

\* Mutant: whatever approval reference is given will do.
ResumeUnapproved(p, r) ==
  /\ runs[r] # None /\ runs[r].status = "WAITING_APPROVAL"
  /\ runs' = [runs EXCEPT ![r].status = "RUNNING"]
  /\ Enter(p, r, Appending(EventOf(r, "RUN_STATUS_CHANGED", <<"RUNNING", now>>), "step", now))
  /\ UNCHANGED <<world, log, torn, shown, invocations, responses, actions, calls, settled, incidents>>

\* _resume of a waiting run: update_run writes the run file, then appends; _step follows.
Resume(p, r) ==
  /\ runs[r] # None /\ runs[r].status = "WAITING_APPROVAL"
  /\ approved
  /\ runs' = [runs EXCEPT ![r].status = "RUNNING"]
  /\ Enter(p, r, Appending(EventOf(r, "RUN_STATUS_CHANGED", <<"RUNNING", now>>), "step", now))
  /\ UNCHANGED <<world, log, torn, shown, invocations, responses, actions, calls, settled, incidents>>

ResumedStep(p) ==
  LET r == pc[p].run IN
  /\ At(p, "step")
  /\ LET runnable == runs[r].status = "RUNNING" /\ Replays(r) IN
     /\ Go(p, IF runnable /\ ~AtLimit(r) /\ Leases(r) THEN Stepping(r, pc[p].time) ELSE Idle)
     /\ runs' = IF runnable /\ AtLimit(r) THEN [runs EXCEPT ![r].status = "BLOCKED"] ELSE runs
  /\ UNCHANGED <<world, log, torn, shown, invocations, responses, actions, calls, overlapped, settled, incidents>>

\* run_invocation: an invocation file with this number and this request answers for the worker,
\* whatever its status; the actions are those of the response file, none when there is no such file.
Invoke(p) ==
  LET c == pc[p]  r == c.run  n == InvocationCount(r) + 1
      known == n \in DOMAIN invocations
  IN
  /\ At(p, "invoke")
  /\ IF ~Replays(r) \/ ~Authority(r, c.time) THEN Go(p, Idle) /\ UNCHANGED calls
     ELSE IF ~known
     THEN /\ Go(p, [c EXCEPT !.at = "worker", !.invocation = n, !.deadline = task[r].lease.until])
          /\ calls' = [calls EXCEPT ![r] = @ + 1]
     ELSE /\ Go(p, IF invocations[n].request = <<r, n, task[r].lease.until>>
                   THEN [c EXCEPT !.at = "apply", !.invocation = n, !.found = TRUE,
                                  !.answer = IF n \in DOMAIN responses THEN responses[n] ELSE <<>>]
                   ELSE Idle)
          /\ UNCHANGED calls
  /\ UNCHANGED <<world, files, overlapped, settled, incidents>>

Put(f, n, v) == [i \in DOMAIN f \cup {n} |-> IF i = n THEN v ELSE f[i]]

\* The worker answers: the response file is written first.
WorkerAnswers(p, answer) ==
  /\ At(p, "worker")
  /\ responses' = Put(responses, pc[p].invocation, answer)
  /\ Go(p, [pc[p] EXCEPT !.at = "receipt", !.answer = answer])
  /\ UNCHANGED <<world, log, torn, shown, runs, invocations, actions, calls, overlapped, settled, incidents>>

Receipt(c, status) ==
  [run |-> c.run, status |-> status, request |-> <<c.run, c.invocation, c.deadline>>]

\* The finally clause records an invocation that failed, and the command fails.
WorkerFails(p) ==
  /\ At(p, "worker")
  /\ invocations' = Put(invocations, pc[p].invocation, Receipt(pc[p], "FAILED"))
  /\ Go(p, Idle)
  /\ UNCHANGED <<world, log, torn, shown, runs, responses, actions, calls, overlapped, settled, incidents>>

\* Mutant: the proposals are not applied.
RecordInvocationOnly(p) ==
  LET c == pc[p] IN
  /\ At(p, "receipt")
  /\ invocations' = Put(invocations, c.invocation, Receipt(c, "SUCCEEDED"))
  /\ Go(p, [c EXCEPT !.at = "append", !.then = IF c.hand THEN "idle" ELSE "finish",
                     !.event = EventOf(c.run, "INVOCATION_RECORDED", c.invocation)])
  /\ UNCHANGED <<world, log, torn, shown, runs, responses, actions, calls, overlapped, settled, incidents>>

RecordInvocation(p) ==
  LET c == pc[p] IN
  /\ At(p, "receipt")
  /\ invocations' = Put(invocations, c.invocation, Receipt(c, "SUCCEEDED"))
  /\ Go(p, [c EXCEPT !.at = "append", !.then = IF c.hand THEN "idle" ELSE "apply",
                     !.event = EventOf(c.run, "INVOCATION_RECORDED", c.invocation)])
  /\ UNCHANGED <<world, log, torn, shown, runs, responses, actions, calls, overlapped, settled, incidents>>

\* apply_actions: the actions are written one by one until one is refused.
Apply(p) ==
  LET c == pc[p]  r == c.run
      current == /\ runs[r].status = "RUNNING" /\ Authority(r, c.time)
                 /\ c.invocation \in DOMAIN invocations /\ invocations[c.invocation].run = r
      admitted(i) == \A j \in 1..i : c.answer[j] \in AllowedActions
      identity(i) == <<c.invocation, i>>
      clashing(i) == \E a \in actions : a.id = identity(i) /\ <<a.run, a.kind>> # <<r, c.answer[i]>>
      written == {i \in DOMAIN c.answer : admitted(i) /\ \A j \in 1..i : ~clashing(j)}
  IN
  /\ At(p, "apply")
  /\ IF current
     THEN /\ actions' = actions \cup {[id |-> identity(i), run |-> r, kind |-> c.answer[i]] : i \in written}
          /\ Go(p, IF written = DOMAIN c.answer
                   THEN [c EXCEPT !.at = "append", !.then = IF c.hand THEN "idle" ELSE "finish",
                                  !.event = EventOf(r, "ACTION_RECORDED", c.invocation)]
                   ELSE Idle)
     ELSE Go(p, Idle) /\ UNCHANGED actions
  /\ UNCHANGED <<world, log, torn, shown, runs, invocations, responses, calls, overlapped, settled, incidents>>

Outcome(answer) ==
  IF \E i \in DOMAIN answer : answer[i] \in {"REQUEST_APPROVAL", "REQUEST_EFFECT"} THEN "WAITING_APPROVAL"
  ELSE IF \E i \in DOMAIN answer : answer[i] = "STOP" THEN "BLOCKED"
  ELSE "COMPLETE"

\* _sync_run at the end of a step: the status goes to the run file only.
Finish(p) ==
  LET c == pc[p] IN
  /\ At(p, "finish")
  /\ IF Replays(c.run)
     THEN /\ runs' = [runs EXCEPT ![c.run].status = Outcome(c.answer)]
          /\ settled' = [settled EXCEPT ![c.run] = [invocation |-> c.invocation, answer |-> c.answer,
                                                    found |-> c.found]]
     ELSE UNCHANGED <<runs, settled>>
  /\ Go(p, Idle)
  /\ UNCHANGED <<world, log, torn, shown, invocations, responses, actions, calls, overlapped, incidents>>

-----------------------------------------------------------------------------
(* run_worker.py and apply_agent_actions.py                                *)

\* A command that was given an invocation number, of its own choice.
ByHand(r, n, stage) ==
  [Appending(EventOf(r, "INVOCATION_RECORDED", n), "idle", now) EXCEPT
     !.at = stage, !.invocation = n, !.hand = TRUE]

\* run_invocation alone, at any status of the run and without a step; an invocation that is on file
\* is only shown, and no worker starts.
RunWorker(p, r, n) ==
  /\ runs[r] # None /\ Authority(r, now)
  /\ n \notin DOMAIN invocations
  /\ Enter(p, r, [ByHand(r, n, "worker") EXCEPT !.deadline = task[r].lease.until])
  /\ Incident
  /\ UNCHANGED <<world, files, calls, settled>>

\* apply_actions alone, with a response that the caller brings; only an invocation that is on file
\* passes.
ApplyActions(p, r, n, answer) ==
  /\ runs[r] # None /\ runs[r].status = "RUNNING" /\ Authority(r, now)
  /\ n \in DOMAIN invocations
  /\ Enter(p, r, [ByHand(r, n, "apply") EXCEPT !.answer = answer])
  /\ Incident
  /\ UNCHANGED <<world, files, calls, settled>>

-----------------------------------------------------------------------------
(* cancel, and record_tool_result                                          *)

\* update_run, whatever the status; _sync_run sets it once more.
Cancel(p, r) ==
  /\ runs[r] # None
  /\ runs' = [runs EXCEPT ![r].status = "CANCELLED"]
  /\ Enter(p, r, Appending(EventOf(r, "RUN_STATUS_CHANGED", <<"CANCELLED", now>>), "cancelled", now))
  /\ UNCHANGED <<world, log, torn, shown, invocations, responses, actions, calls, settled, incidents>>

SyncCancelled(p) ==
  LET r == pc[p].run IN
  /\ At(p, "cancelled")
  /\ runs' = IF Replays(r) THEN [runs EXCEPT ![r].status = "CANCELLED"] ELSE runs
  /\ Go(p, Idle)
  /\ UNCHANGED <<world, log, torn, shown, invocations, responses, actions, calls, overlapped, settled, incidents>>

\* A result for a tool request of the run, at any status of the run; the receipt is the event.
RecordToolResult(p, r) ==
  /\ runs[r] # None
  /\ \E a \in actions :
       /\ a.run = r /\ a.kind = "REQUEST_TOOL"
       /\ Enter(p, r, Appending(EventOf(r, "TOOL_RESULT_RECORDED", a.id), "idle", now))
  /\ UNCHANGED <<world, files, calls, settled, incidents>>

-----------------------------------------------------------------------------
(* Everything else.                                                        *)

\* The command dies; in an append perhaps in the middle of the line.
Die(p) ==
  /\ pc[p] # Idle /\ Incident
  /\ \/ UNCHANGED torn
     \/ At(p, "append") /\ ~Locked /\ torn' = TRUE
  /\ Go(p, Idle)
  /\ UNCHANGED <<world, log, shown, runs, invocations, responses, actions, calls, overlapped, settled>>

Tick ==
  /\ now < MaxTime /\ now' = now + 1
  /\ UNCHANGED <<autonomous, task, approved, claimed, files, pc, calls, overlapped, settled, incidents>>

\* The runtime: another worker claims the task, the lease is renewed, or it ends.
ClaimedElsewhere(r) ==
  /\ Claim(r, Token(None, 1))
  /\ UNCHANGED <<autonomous, approved, now, claimed, files, pc, calls, overlapped, settled, incidents>>

Renewed(r) ==
  /\ task[r].status = "RUNNING" /\ now < task[r].lease.until
  /\ task[r].lease.until < MaxTime + GrantTime
  /\ task' = [task EXCEPT ![r].lease.until = @ + 1]
  /\ UNCHANGED <<autonomous, approved, now, claimed, files, pc, calls, overlapped, settled, incidents>>

\* A task that is done is to the harness as one that nobody claims.
Released(r) ==
  /\ task[r].status = "RUNNING"
  /\ task' = [task EXCEPT ![r] = [@ EXCEPT !.status = "READY", !.lease = None]]
  /\ UNCHANGED <<autonomous, approved, now, claimed, files, pc, calls, overlapped, settled, incidents>>

ApprovalDecided ==
  /\ ~autonomous
  /\ approved' = ~approved
  /\ UNCHANGED <<autonomous, task, now, claimed, files, pc, calls, overlapped, settled, incidents>>

Next ==
  \/ \E p \in Invoker, r \in Run : \/ Start(p, r) \/ BeginStep(p, r) \/ StopAtLimit(p, r)
                                   \/ Resume(p, r) \/ Cancel(p, r) \/ RecordToolResult(p, r)
  \/ \E p \in Invoker, r \in Run, n \in HandNumbers :
       RunWorker(p, r, n) \/ \E answer \in Answer : ApplyActions(p, r, n, answer)
  \/ \E p \in Invoker : \/ AppendEvent(p) \/ ProjectState(p) \/ UpdateRunFile(p)
                        \/ CreateRun(p) \/ RunCreated(p) \/ ResumedStep(p) \/ Invoke(p)
                        \/ WorkerFails(p) \/ RecordInvocation(p) \/ Apply(p) \/ Finish(p)
                        \/ SyncCancelled(p) \/ Die(p)
  \/ \E p \in Invoker, answer \in Answer : WorkerAnswers(p, answer)
  \/ \E r \in Run : ClaimedElsewhere(r) \/ Renewed(r) \/ Released(r)
  \/ Tick \/ ApprovalDecided

Spec == Init /\ [][Next]_vars

-----------------------------------------------------------------------------
(* Properties.                                                             *)

\* max_steps bounds the worker processes that the steps of a run start, also when steps overlap,
\* fail, are retried or die, and whatever is done by hand meanwhile: each is started under a step of
\* its own in the log, and the key of a step is its number (run_agent_harness.py:102-118,
\* agent_harness.py:269-275).  Processes that run_worker.py starts come on top, in any number.
WorkerCallsBounded == \A r \in Run : calls[r] <= StepCount(r) /\ StepCount(r) <= MaxSteps

\* A run that a step left complete or waiting has the proposals of that very step on record, all of
\* them in files and their invocation in the log, and they are the reason of its status, in spite of
\* steps that overlap, of what is done by hand and of crashes.  Without proposals it settles only if the
\* worker made none or the step found the invocation of an earlier one that had failed: then it is
\* COMPLETE all the same (run_agent_harness.py:119-130, agent_harness.py:461-466).
SettledRunsAreRecorded ==
  \A r \in Run : runs[r] # None /\ runs[r].status \in {"COMPLETE", "WAITING_APPROVAL"} =>
    LET step == settled[r] IN
    /\ EventOf(r, "ACTION_RECORDED", step.invocation) \in Range(log)
    /\ \A i \in DOMAIN step.answer :
         [id |-> <<step.invocation, i>>, run |-> r, kind |-> step.answer[i]] \in actions
    /\ runs[r].status = Outcome(step.answer)
    /\ step.answer \in Answer \/ (step.answer = <<>> /\ step.found)

\* As long as commands on a run do not overlap, what people say holds, crashes included: a run that
\* waits goes on only when its task is approved, or when somebody records a worker by hand, and a run
\* whose cancellation is in the log stays cancelled (run_agent_harness.py:141-166).  Overlapping
\* commands can undo both.
PeopleAreObeyed ==
  [][\A r \in Run : r \notin overlapped /\ runs[r] # None =>
       /\ runs[r].status = "WAITING_APPROVAL" /\ runs'[r].status = "RUNNING" =>
            approved \/ \E p \in Invoker : At(p, "update") /\ pc[p].run = r /\ pc[p].hand
       /\ runs[r].status = "CANCELLED" /\ (\E e \in Events(r, "RUN_STATUS_CHANGED") : e.tag[1] = "CANCELLED")
            => runs'[r].status = "CANCELLED"]_vars

=============================================================================
