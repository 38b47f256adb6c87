------------------------- MODULE AgentHarnessProofs -------------------------
(***************************************************************************)
(* Theorems about AgentHarness, for any number of commands under way       *)
(* together, any runs and answers, and a log of any length.                *)
(***************************************************************************)
EXTENDS AgentHarness, FiniteSetTheorems, TLAPS

-----------------------------------------------------------------------------
(* The inductive invariant.                                                *)

IsAnswer(a) == a \in Seq(Range(a))

\* What an append does next, by what it appends and whether it was given by hand.
Then ==
  [RUN_CREATED |-> "created", STEP_STARTED |-> "invoke", INVOCATION_RECORDED |-> "apply",
   ACTION_RECORDED |-> "finish", TOOL_RESULT_RECORDED |-> "idle"]
GoesTo(event, hand) ==
  IF hand THEN "idle"
  ELSE IF event.type = "RUN_STATUS_CHANGED" THEN IF event.tag[1] = "RUNNING" THEN "step" ELSE "cancelled"
  ELSE Then[event.type]

EventOK(e) ==
  /\ e = EventOf(e.run, e.type, e.tag)
  /\ e.type \in DOMAIN Then \cup {"RUN_STATUS_CHANGED"}
  /\ e.type = "STEP_STARTED" => e.tag \in 1 .. MaxSteps
  /\ e.type = "RUN_STATUS_CHANGED" => e.tag[1] \in {"RUNNING", "CANCELLED"}

CarriesStatus(e) == e.type \in {"RUN_CREATED", "RUN_STATUS_CHANGED"}

\* The log: events of runs that have a run file, and one of those with a status is the last.
LogInv ==
  /\ log \in Seq(Range(log))
  /\ \A e \in Range(log) : EventOK(e) /\ e.run \in Run /\ runs[e.run] # None
  /\ Carrying(log) # {} => \E i \in Carrying(log) : \A j \in Carrying(log) : j <= i

RunsInv ==
  /\ DOMAIN runs = Run
  /\ \A r \in Run : runs[r] # None => runs[r] \in RunFile /\ r \in claimed

TaskInv ==
  /\ now \in Nat /\ DOMAIN task = Run
  /\ \A r \in Run : task[r] \in [status : {task[r].status}, attempt : {task[r].attempt}, lease : {task[r].lease}]
  /\ \A r \in Run : task[r].status = "RUNNING" => task[r].lease \in [token : {task[r].lease.token}, until : Nat]

\* The answer is that of a worker, or there is none because an invocation without one was found.
Answered(c) == c.answer \in Answer \/ (c.answer = <<>> /\ c.found)

\* Every proposal of the answer is written, and their event is in the log.
Written(r, step) ==
  \A i \in DOMAIN step.answer : [id |-> <<step.invocation, i>>, run |-> r, kind |-> step.answer[i]] \in actions
Logged(r, step) == EventOf(r, "ACTION_RECORDED", step.invocation) \in Range(log)

Settled(r) ==
  runs[r].status \in {"COMPLETE", "WAITING_APPROVAL"} =>
    /\ Logged(r, settled[r]) /\ Written(r, settled[r]) /\ Answered(settled[r])
    /\ runs[r].status = Outcome(settled[r].answer)

FilesInv ==
  /\ \A n \in DOMAIN responses : responses[n] \in Answer
  /\ DOMAIN settled = Run
  /\ \A a \in actions : a.kind \in AllowedActions
  /\ \A r \in Run : runs[r] # None => Settled(r)

Appends == {"append", "project", "update"}
Stages == Appends \cup {"created", "step", "invoke", "worker", "receipt", "apply", "finish", "cancelled"}

\* A command that has got beyond its claim.
Started(c) ==
  /\ c \in [at : Stages, run : Run, event : {c.event}, then : {c.then}, time : {c.time},
            invocation : {c.invocation}, deadline : {c.deadline}, answer : {c.answer}, hand : {c.hand}, found : {c.found}]
  /\ runs[c.run] # None /\ IsAnswer(c.answer) /\ c.hand \in BOOLEAN
  /\ c.hand => c.event.type \in {"INVOCATION_RECORDED", "ACTION_RECORDED"}
  /\ c.at \in Appends =>
       /\ c.event.run = c.run /\ EventOK(c.event)
       /\ c.then = GoesTo(c.event, c.hand)
       /\ c.then = "finish" =>
            c.event = EventOf(c.run, "ACTION_RECORDED", c.invocation) /\ Written(c.run, c)
       /\ c.then \in {"apply", "finish"} => Answered(c)
  /\ c.at \in {"project", "update"} => c.event \in Range(log) /\ Readable(c.run, log)
  /\ c.at = "invoke" => c.event \in Events(c.run, "STEP_STARTED")
  /\ c.at = "finish" => Written(c.run, c) /\ Logged(c.run, c)
  /\ c.at \in {"receipt", "apply", "finish"} => Answered(c)

CommandInv(p) ==
  pc[p] # Idle =>
    IF pc[p].at = "start"
    THEN pc[p].run \in claimed /\ pc[p].run \in Run /\ runs[pc[p].run] = None
    ELSE Started(pc[p])

\* An append is done by one command at a time.
Holding(p) == At(p, "project") \/ At(p, "update")
LockInv == \A p, o \in Invoker : Holding(p) /\ Holding(o) => p = o

\* A run is created by the command that claimed for it.
ClaimInv == \A p, o \in Invoker : At(p, "start") /\ At(o, "start") /\ pc[p].run = pc[o].run => p = o

HarnessInv ==
  /\ pc = [p \in Invoker |-> pc[p]]
  /\ TaskInv /\ LogInv /\ RunsInv /\ FilesInv /\ LockInv /\ ClaimInv
  /\ \A p \in Invoker : CommandInv(p)

\* A command that has a step in the log and has not started its worker.
Active(p, r) == pc[p] # Idle /\ pc[p].run = r
HasStep(c) == c.at = "invoke" \/ (c.at \in {"project", "update"} /\ c.then = "invoke")
Pending(p, r) == Active(p, r) /\ HasStep(pc[p])

Steps(r) == Events(r, "STEP_STARTED")
Unused(r) == {e \in Steps(r) : \A p \in Invoker : Pending(p, r) => pc[p].event # e}

\* Each worker process has used up a step of its own.
CallsInv ==
  /\ DOMAIN calls = Run
  /\ \A r \in Run : calls[r] \in Nat /\ calls[r] <= Cardinality(Unused(r))
  /\ \A r \in Run : \A p, o \in Invoker : Pending(p, r) /\ Pending(o, r) /\ p # o => pc[p].event # pc[o].event

Cancellation(e, r) == e.run = r /\ e.type = "RUN_STATUS_CHANGED" /\ e.tag[1] = "CANCELLED"
Cancelled(r) == \E e \in Range(log) : Cancellation(e, r)

\* The last status of the run in the log is its cancellation.
EndsCancelled(r) ==
  \E i \in DOMAIN log : /\ Cancellation(log[i], r)
                       /\ \A j \in DOMAIN log : j > i /\ log[j].run = r /\ CarriesStatus(log[j])
                            => Cancellation(log[j], r)

Cancelling(c) == c.at = "cancelled" \/ (c.at \in Appends /\ c.then = "cancelled")
Recording(c) == IF c.at \in Appends THEN c.then = "idle"
                ELSE c.at \in {"worker", "receipt", "apply"} /\ c.hand

\* What a command on the run finds.
Alone(c, r) ==
  /\ runs[r] # None /\ runs[r].status = "WAITING_APPROVAL" => Recording(c) /\ c.hand
  /\ Cancelling(c) => runs[r].status = "CANCELLED"
  /\ Cancelled(r) => Cancelling(c) \/ Recording(c)

\* On a run whose commands do not overlap: while it waits, none is under way but by hand, and after
\* its cancellation nothing changes its status, in the file or in the log.
Obeys(r) ==
  /\ \A p, o \in Invoker : Active(p, r) /\ Active(o, r) => p = o
  /\ \A p \in Invoker : Active(p, r) => Alone(pc[p], r)
  /\ Cancelled(r) => runs[r].status = "CANCELLED" /\ EndsCancelled(r)

PeopleInv == \A r \in Run : r \notin overlapped => Obeys(r)

-----------------------------------------------------------------------------
(* The log.                                                                *)

LEMMA AppendedEvent ==
  ASSUME log \in Seq(Range(log)), NEW e, log' = Append(log, e)
  PROVE  /\ log' \in Seq(Range(log'))
         /\ Range(log') = Range(log) \cup {e}
         /\ Len(log) \in Nat /\ DOMAIN log = 1 .. Len(log) /\ DOMAIN log' = 1 .. (Len(log) + 1)
         /\ \A i \in DOMAIN log : log'[i] = log[i]
         /\ log'[Len(log) + 1] = e
<1>1. /\ Len(log) \in Nat /\ DOMAIN log = 1 .. Len(log) /\ DOMAIN log' = 1 .. (Len(log) + 1)
      /\ \A i \in DOMAIN log : log'[i] = log[i]
      /\ log'[Len(log) + 1] = e
  OBVIOUS
<1>2. Range(log') = Range(log) \cup {e}
  BY <1>1 DEF Range
<1>3. log \in Seq(Range(log) \cup {e})
  OBVIOUS
<1>4. log' \in Seq(Range(log) \cup {e})
  BY <1>3
<1> QED
  BY <1>1, <1>2, <1>4

\* The status of the log is that of its last event with one: a running or a cancelled run.
LEMMA StatusOfLog ==
  ASSUME LogInv, NEW r, Readable(r, log)
  PROVE  \E i \in Carrying(log) :
           /\ \A j \in Carrying(log) : j <= i
           /\ LoggedStatus(log) = IF log[i].type = "RUN_CREATED" THEN "RUNNING" ELSE log[i].tag[1]
           /\ LoggedStatus(log) \in {"RUNNING", "CANCELLED"}
           /\ log[i] \in Range(log) /\ log[i].run = r
<1>1. Carrying(log) # {}
  BY DEF Readable, Carrying, Range
<1>2. PICK i \in Carrying(log) : \A j \in Carrying(log) : j <= i
  BY <1>1 DEF LogInv
<1>3. Carrying(log) \subseteq Nat
  BY DEF Carrying, LogInv
<1>4. Max(Carrying(log)) = i
  <2>1. \A x \in Carrying(log) : (\A y \in Carrying(log) : x >= y) => x = i
    BY <1>2, <1>3
  <2>2. \A y \in Carrying(log) : i >= y
    BY <1>2, <1>3
  <2> QED
    BY <1>2, <2>1, <2>2 DEF Max
<1>5. log[i] \in Range(log) /\ log[i].type \in {"RUN_CREATED", "RUN_STATUS_CHANGED"}
  BY <1>2 DEF Carrying, Range
<1>6. log[i].run = r /\ EventOK(log[i])
  BY <1>5 DEF LogInv, Readable
<1> QED
  BY <1>2, <1>4, <1>5, <1>6 DEF LoggedStatus, EventOK

-----------------------------------------------------------------------------
(* Commands that wait, and one that moves.                                 *)

\* What a started command relies on stays: files and log only grow.
LEMMA StartedStays ==
  ASSUME NEW c, Started(c), Range(log) \subseteq Range(log'), actions \subseteq actions',
         c.at \in {"project", "update"} => log' = log,
         \A r \in Run : runs[r] # None => runs'[r] # None
  PROVE  Started(c)'
<1>1. c.run \in Run
  BY DEF Started
<1>2. /\ c \in [at : Stages, run : Run, event : {c.event}, then : {c.then}, time : {c.time},
                invocation : {c.invocation}, deadline : {c.deadline}, answer : {c.answer}, hand : {c.hand}, found : {c.found}]
      /\ runs'[c.run] # None /\ IsAnswer(c.answer) /\ c.hand \in BOOLEAN
      /\ c.hand => c.event.type \in {"INVOCATION_RECORDED", "ACTION_RECORDED"}
  BY <1>1 DEF Started
<1>3. (Written(c.run, c) => Written(c.run, c)') /\ (Logged(c.run, c) => Logged(c.run, c)')
  BY DEF Written, Logged
<1>4. \A type : Events(c.run, type) \subseteq Events(c.run, type)'
  BY DEF Events
<1>5. c.at \in Appends =>
        /\ c.event.run = c.run /\ EventOK(c.event)
        /\ c.then = GoesTo(c.event, c.hand)
        /\ c.then = "finish" =>
             c.event = EventOf(c.run, "ACTION_RECORDED", c.invocation) /\ Written(c.run, c)
        /\ c.then \in {"apply", "finish"} => Answered(c)
  BY DEF Started
<1>6. c.at \in {"project", "update"} => c.event \in Range(log') /\ Readable(c.run, log')
  BY DEF Started
<1>7. c.at = "invoke" => c.event \in Events(c.run, "STEP_STARTED")
  BY DEF Started
<1>8. /\ c.at = "finish" => Written(c.run, c) /\ Logged(c.run, c)
      /\ c.at \in {"receipt", "apply", "finish"} => Answered(c)
  BY DEF Started
<1>9. EventOK(c.event) = EventOK(c.event)'
  BY DEF EventOK
<1> QED
  BY <1>2, <1>3, <1>4, <1>5, <1>6, <1>7, <1>8 DEF Started

\* One command moves, the log stays.
LEMMA CommandMoves ==
  ASSUME HarnessInv, NEW p \in Invoker, NEW to, pc' = [pc EXCEPT ![p] = to], log' = log,
         TaskInv', autonomous' = autonomous, claimed \subseteq claimed', actions \subseteq actions',
         \A a \in actions' : a \in actions \/ a.kind \in AllowedActions,
         (\A n \in DOMAIN responses' : responses'[n] \in Answer) /\ DOMAIN settled' = Run,
         DOMAIN runs' = Run,
         \A r \in Run : runs[r] # None => runs'[r] # None,
         \A r \in Run : runs'[r] # None =>
           runs'[r] \in RunFile /\ r \in claimed' /\ Settled(r)',
         \A o \in Invoker : o # p /\ At(o, "start") => runs'[pc[o].run] = None,
         CommandInv(p)',
         to # Idle /\ to.at = "start" => \A o \in Invoker : At(o, "start") => pc[o].run # to.run,
         to # Idle /\ to.at \in {"project", "update"} => Holding(p)
  PROVE  HarnessInv'
<1>1. DOMAIN pc' = Invoker /\ pc'[p] = to /\ \A o \in Invoker : o # p => pc'[o] = pc[o]
  BY DEF HarnessInv
<1>2. LogInv'
  <2>1. LogInv
    BY DEF HarnessInv
  <2>2. Carrying(log)' = Carrying(log) /\ \A e : EventOK(e)' = EventOK(e)
    BY DEF Carrying, EventOK
  <2> QED
    BY <2>1, <2>2 DEF LogInv
<1>3. RunsInv'
  BY DEF RunsInv
<1>4. FilesInv'
  BY DEF FilesInv, HarnessInv, AllowedActions
<1>5. LockInv'
  BY <1>1 DEF HarnessInv, LockInv, Holding, At
<1>6. ClaimInv'
  BY <1>1 DEF HarnessInv, ClaimInv, At
<1>7. ASSUME NEW o \in Invoker, o # p
      PROVE  CommandInv(o)'
  <2>1. PICK c : c = pc[o]
    OBVIOUS
  <2>2. pc'[o] = c /\ CommandInv(o)
    BY <1>1, <1>7, <2>1 DEF HarnessInv
  <2>3. CASE c # Idle /\ c.at = "start"
    <3>1. c.run \in claimed' /\ c.run \in Run /\ runs'[c.run] = None
      BY <1>7, <2>1, <2>2, <2>3 DEF CommandInv, At
    <3> QED
      BY <2>2, <2>3, <3>1 DEF CommandInv
  <2>4. CASE c # Idle /\ c.at # "start"
    <3>1. Started(c)
      BY <2>1, <2>2, <2>4 DEF CommandInv
    <3>2. Started(c)'
      BY <3>1, StartedStays
    <3>3. Started(pc[o])' = Started(c)'
      BY <2>2 DEF Started, Written, Logged, Events
    <3> QED
      BY <2>2, <2>4, <3>2, <3>3 DEF CommandInv
  <2>5. CASE c = Idle
    BY <2>2, <2>5 DEF CommandInv
  <2> QED
    BY <2>3, <2>4, <2>5
<1> QED
  BY <1>1, <1>2, <1>3, <1>4, <1>5, <1>6, <1>7 DEF HarnessInv

\* The command ends, or goes on as a started one.
MayGo(p, to) ==
  \/ to = Idle
  \/ Started(to) /\ (to.at \in {"project", "update"} => Holding(p))

\* What a command may write in the run file when it does not end a step.
MayBe(r, status) ==
  /\ runs[r] # None /\ r \in Run
  /\ status \in {"RUNNING", "BLOCKED", "CANCELLED"}

\* One command moves, and writes at most a status.
LEMMA CommandWrites ==
  ASSUME HarnessInv, NEW p \in Invoker, NEW to, pc' = [pc EXCEPT ![p] = to], MayGo(p, to),
         UNCHANGED <<autonomous, task, now, claimed, log, actions, responses, settled>>,
         runs' = runs \/ \E r, status : MayBe(r, status) /\ runs' = [runs EXCEPT ![r].status = status]
  PROVE  HarnessInv'
<1>1. DOMAIN pc' = Invoker /\ pc'[p] = to
  BY DEF HarnessInv
<1>2. Idle.at = "idle" /\ (to = Idle \/ to.at \in Stages)
  BY DEF MayGo, Started, Idle
<1>3. /\ DOMAIN runs' = Run
      /\ \A r \in Run : runs[r] # None <=> runs'[r] # None
      /\ \A r \in Run : runs'[r] # None => runs'[r] \in RunFile /\ r \in claimed' /\ Settled(r)'
  <2>1. /\ DOMAIN runs = Run
        /\ \A r \in Run : runs[r] # None => runs[r] \in RunFile /\ r \in claimed /\ Settled(r)
    BY DEF HarnessInv, RunsInv, FilesInv
  <2>2. CASE runs' = runs
    BY <2>1, <2>2 DEF Settled, Written, Logged
  <2>3. ASSUME NEW r, NEW status, MayBe(r, status), runs' = [runs EXCEPT ![r].status = status]
        PROVE  /\ DOMAIN runs' = Run
               /\ \A e \in Run : runs[e] # None <=> runs'[e] # None
               /\ \A e \in Run : runs'[e] # None => runs'[e] \in RunFile /\ e \in claimed' /\ Settled(e)'
    <3>1. r \in Run /\ runs[r] # None /\ status \in RunStatus
      BY <2>3 DEF MayBe, RunStatus
    <3>2. DOMAIN runs' = Run /\ \A e \in Run : e # r => runs'[e] = runs[e]
      BY <2>1, <2>3
    <3>3. runs'[r] \in RunFile /\ runs'[r].status = status
      BY <2>1, <2>3, <3>1 DEF RunFile
    <3>4. Settled(r)'
      BY <2>3, <3>3 DEF MayBe, Settled
    <3>5. \A e \in Run : e # r /\ runs'[e] # None => Settled(e)'
      BY <2>1, <3>2 DEF Settled, Written, Logged
    <3> QED
      BY <2>1, <3>1, <3>2, <3>3, <3>4, <3>5, NoneAssumption
  <2> QED
    BY <2>2, <2>3
<1>4. \A o \in Invoker : o # p /\ At(o, "start") => runs'[pc[o].run] = None
  BY <1>3 DEF HarnessInv, CommandInv, At
<1>5. CommandInv(p)'
  <2>1. to # Idle => Started(to)'
    <3> SUFFICES ASSUME to # Idle
                 PROVE  Started(to)'
      OBVIOUS
    <3>1. Started(to)
      BY DEF MayGo
    <3> QED
      BY <1>3, <3>1, StartedStays
  <2>2. Started(pc[p])' = Started(to)'
    BY <1>1 DEF Started, Written, Logged, Events
  <2> QED
    BY <1>1, <1>2, <2>1, <2>2 DEF CommandInv, Stages, Appends
<1>6. TaskInv' /\ (\A n \in DOMAIN responses' : responses'[n] \in Answer) /\ DOMAIN settled' = Run
  BY DEF HarnessInv, TaskInv, FilesInv
<1>7. (to # Idle => to.at # "start") /\ (to # Idle /\ to.at \in {"project", "update"} => Holding(p))
  BY <1>2 DEF MayGo, Stages, Appends
<1> QED
  BY <1>3, <1>4, <1>5, <1>6, <1>7, CommandMoves

\* Steps are numbered within the policy.
LEMMA NumberedSteps ==
  ASSUME NEW r, NEW steps, \A e \in steps : e = EventOf(r, "STEP_STARTED", e.tag) /\ e.tag \in 1 .. MaxSteps
  PROVE  IsFiniteSet(steps) /\ Cardinality(steps) \in Nat /\ Cardinality(steps) <= MaxSteps
<1> DEFINE all == {EventOf(r, "STEP_STARTED", n) : n \in 1 .. MaxSteps}
           f == [n \in 1 .. MaxSteps |-> EventOf(r, "STEP_STARTED", n)]
<1>1. steps \subseteq all
  OBVIOUS
<1>2. IsFiniteSet(1 .. MaxSteps) /\ Cardinality(1 .. MaxSteps) = MaxSteps
  <2>1. 1 \in Int /\ MaxSteps \in Int /\ (1 > MaxSteps => MaxSteps = 0) /\ MaxSteps - 1 + 1 = MaxSteps
    BY PolicyAssumption
  <2> QED
    BY <2>1, FS_Interval
<1>3. f \in Surjection(1 .. MaxSteps, all)
  <2>1. f \in [1 .. MaxSteps -> all]
    OBVIOUS
  <2>2. \A e \in all : \E n \in 1 .. MaxSteps : f[n] = e
    OBVIOUS
  <2> QED
    BY <2>1, <2>2 DEF Surjection
<1>4. IsFiniteSet(all) /\ Cardinality(all) <= MaxSteps
  BY <1>2, <1>3, FS_Surjection DEF ExistsSurjection
<1> HIDE DEF all
<1>5. IsFiniteSet(steps) /\ Cardinality(steps) <= Cardinality(all)
  BY <1>1, <1>4, FS_Subset
<1>6. Cardinality(steps) \in Nat /\ Cardinality(all) \in Nat
  BY <1>4, <1>5, FS_CardinalityType
<1> QED
  BY <1>4, <1>5, <1>6, PolicyAssumption

LEMMA StepsBounded ==
  ASSUME LogInv, NEW r
  PROVE  /\ IsFiniteSet(Events(r, "STEP_STARTED"))
         /\ StepCount(r) \in Nat /\ StepCount(r) <= MaxSteps
<1>1. \A e \in Events(r, "STEP_STARTED") : e = EventOf(r, "STEP_STARTED", e.tag) /\ e.tag \in 1 .. MaxSteps
  BY DEF Events, LogInv, EventOK
<1> QED
  BY <1>1, NumberedSteps DEF StepCount

\* A command that is about to append something goes on as a started one.
LEMMA AppendingStarts ==
  ASSUME NEW p, NEW r \in Run, runs[r] # None, NEW type, NEW tag, NEW then, NEW time,
         EventOK(EventOf(r, type, tag)),
         then \notin {"apply", "finish"}, then = GoesTo(EventOf(r, type, tag), FALSE)
  PROVE  MayGo(p, Appending(EventOf(r, type, tag), then, time)) /\ Started(Appending(EventOf(r, type, tag), then, time))
<1>1. EventOf(r, type, tag).run = r /\ EventOf(r, type, tag).type = type /\ EventOf(r, type, tag).tag = tag
  BY DEF EventOf
<1>2. PICK e : e = EventOf(r, type, tag)
  OBVIOUS
<1>3. PICK c : c = Appending(e, then, time)
  OBVIOUS
<1>4. /\ c.at = "append" /\ c.run = r /\ c.event = e /\ c.then = then /\ c.answer = <<>> /\ c.hand = FALSE
      /\ c \in [at : Stages, run : Run, event : {c.event}, then : {c.then}, time : {c.time},
                invocation : {c.invocation}, deadline : {c.deadline}, answer : {c.answer}, hand : {c.hand}, found : {c.found}]
  BY <1>1, <1>2, <1>3 DEF Appending, Stages, Appends
<1>5. IsAnswer(c.answer)
  BY <1>4 DEF IsAnswer
<1>6. Started(c)
  BY <1>1, <1>2, <1>4, <1>5 DEF Started
<1> QED
  BY <1>2, <1>3, <1>4, <1>6 DEF MayGo

-----------------------------------------------------------------------------
(* Every step keeps the invariant.                                         *)

\* What the runtime, the clock and the people do.
LEMMA WorldStep ==
  ASSUME HarnessInv, TaskInv', UNCHANGED <<autonomous, claimed, log, runs, responses, actions, settled, pc>>
  PROVE  HarnessInv'
<1>1. LogInv' /\ RunsInv' /\ FilesInv' /\ LockInv' /\ ClaimInv'
  BY DEF HarnessInv, LogInv, RunsInv, FilesInv, LockInv, ClaimInv, Holding, At, EventOK, Carrying,
         Settled, Written, Logged, AllowedActions
<1>2. \A p \in Invoker : Started(pc[p])' = Started(pc[p])
  BY DEF Started, Written, Logged, Events, EventOK
<1> QED
  BY <1>1, <1>2 DEF HarnessInv, CommandInv

LEMMA ClaimKeeps ==
  ASSUME TaskInv, NEW r \in Run, NEW token, Claim(r, token), now' = now
  PROVE  TaskInv'
<1> DEFINE lease == [token |-> token, until |-> now + GrantTime]
<1>1. PICK attempt : task' = [task EXCEPT ![r] = [status |-> "RUNNING", attempt |-> attempt, lease |-> lease]]
  BY DEF Claim, TaskInv
<1>2. lease \in [token : {lease.token}, until : Nat]
  BY PolicyAssumption DEF TaskInv
<1> HIDE DEF lease
<1>3. /\ DOMAIN task' = Run /\ \A e \in Run : e # r => task'[e] = task[e]
      /\ task'[r] = [status |-> "RUNNING", attempt |-> attempt, lease |-> lease]
  BY <1>1 DEF TaskInv
<1> QED
  BY <1>2, <1>3 DEF TaskInv

LEMMA RuntimeSteps ==
  ASSUME HarnessInv,
         \/ \E r \in Run : ClaimedElsewhere(r) \/ Renewed(r) \/ Released(r)
         \/ Tick \/ ApprovalDecided
  PROVE  HarnessInv'
<1>1. TaskInv
  BY DEF HarnessInv
<1>2. ASSUME NEW r \in Run, ClaimedElsewhere(r)
      PROVE  TaskInv'
  BY <1>1, <1>2, ClaimKeeps DEF ClaimedElsewhere
<1>3. ASSUME NEW r \in Run, Renewed(r)
      PROVE  TaskInv'
  <2>1. /\ task[r].status = "RUNNING" /\ now' = now
        /\ task' = [task EXCEPT ![r].lease.until = task[r].lease.until + 1]
    BY <1>3 DEF Renewed
  <2>2. PICK lease, until : lease = task[r].lease /\ until = lease.until + 1
    OBVIOUS
  <2>3. until \in Nat /\ lease \in [token : {lease.token}, until : Nat]
    BY <1>1, <2>1, <2>2 DEF TaskInv
  <2>4. /\ DOMAIN task' = Run /\ \A e \in Run : e # r => task'[e] = task[e]
        /\ task'[r] = [task[r] EXCEPT !.lease.until = until]
    BY <1>1, <2>1, <2>2 DEF TaskInv
  <2>5. task'[r] \in [status : {task[r].status}, attempt : {task[r].attempt},
                      lease : [token : {lease.token}, until : {until}]]
    BY <1>1, <2>2, <2>3, <2>4 DEF TaskInv
  <2> QED
    BY <1>1, <2>1, <2>3, <2>4, <2>5 DEF TaskInv
<1>4. ASSUME NEW r \in Run, Released(r)
      PROVE  TaskInv'
  <2>1. task' = [task EXCEPT ![r] = [task[r] EXCEPT !.status = "READY", !.lease = None]]
    BY <1>4 DEF Released
  <2>2. now' = now
    BY <1>4 DEF Released
  <2>3. PICK t : t = task[r]
    OBVIOUS
  <2>4. t \in [status : {t.status}, attempt : {t.attempt}, lease : {t.lease}]
    BY <1>1, <2>3 DEF TaskInv
  <2>5. /\ DOMAIN task' = Run /\ \A e \in Run : e # r => task'[e] = task[e]
        /\ task'[r] = [t EXCEPT !.status = "READY", !.lease = None]
    BY <1>1, <2>1, <2>3 DEF TaskInv
  <2>6. task'[r] \in [status : {"READY"}, attempt : {t.attempt}, lease : {None}]
    BY <2>4, <2>5
  <2>7. task'[r].status # "RUNNING"
    BY <2>6
  <2> QED
    BY <1>1, <2>2, <2>5, <2>6, <2>7 DEF TaskInv
<1>5. Tick => TaskInv'
  BY <1>1 DEF Tick, TaskInv
<1>6. ApprovalDecided => TaskInv'
  BY <1>1 DEF ApprovalDecided, TaskInv
<1> QED
  BY <1>2, <1>3, <1>4, <1>5, <1>6, WorldStep
     DEF ClaimedElsewhere, Renewed, Released, Tick, ApprovalDecided, files

LEMMA StartStep ==
  ASSUME HarnessInv, NEW p \in Invoker, NEW r \in Run, Start(p, r)
  PROVE  HarnessInv'
<1> DEFINE to == [at |-> "start", run |-> r, time |-> now]
<1>1. /\ r \notin claimed /\ claimed' = claimed \cup {r} /\ pc[p] = Idle /\ pc' = [pc EXCEPT ![p] = to]
      /\ UNCHANGED <<autonomous, now, log, runs, responses, actions, settled>>
  BY DEF Start, Enter, Go, files
<1>2. pc'[p] = to /\ to.at = "start" /\ to.run = r
  BY <1>1 DEF HarnessInv
<1>3. TaskInv'
  BY <1>1, ClaimKeeps DEF Start, HarnessInv
<1>4. \A e \in Run : runs'[e] # None => runs'[e] \in RunFile /\ e \in claimed' /\ Settled(e)'
  BY <1>1 DEF HarnessInv, RunsInv, FilesInv, Settled, Written, Logged
<1>5. CommandInv(p)'
  BY <1>1, <1>2 DEF CommandInv, HarnessInv, RunsInv
<1>6. \A o \in Invoker : At(o, "start") => pc[o].run # r /\ runs'[pc[o].run] = None
  BY <1>1 DEF HarnessInv, CommandInv, At
<1>7. DOMAIN runs' = Run /\ DOMAIN settled' = Run /\ (\A n \in DOMAIN responses' : responses'[n] \in Answer)
  BY <1>1 DEF HarnessInv, RunsInv, FilesInv
<1> HIDE DEF to
<1> QED
  BY <1>1, <1>2, <1>3, <1>4, <1>5, <1>6, <1>7, CommandMoves

LEMMA CreateRunStep ==
  ASSUME HarnessInv, NEW p \in Invoker, CreateRun(p)
  PROVE  HarnessInv'
<1>1. PICK r : r = pc[p].run
  OBVIOUS
<1>2. At(p, "start") /\ r \in claimed /\ r \in Run /\ runs[r] = None
  BY <1>1 DEF CreateRun, HarnessInv, CommandInv, At
<1>3. UNCHANGED <<autonomous, task, now, claimed, log, responses, actions, settled>>
  BY DEF CreateRun, world
<1>4. CASE Go(p, Idle) /\ UNCHANGED runs
  BY <1>3, <1>4, CommandWrites DEF Go, MayGo
<1> DEFINE to == Appending(EventOf(r, "RUN_CREATED", 0), "created", pc[p].time)
<1>5. CASE /\ Leases(r) /\ Go(p, to)
           /\ runs' = [runs EXCEPT ![r] = [status |-> "RUNNING", until |-> task[r].lease.until]]
  <2>1. task[r].lease.until \in Nat
    BY <1>2, <1>5 DEF Leases, HarnessInv, TaskInv
  <2>2. [status |-> "RUNNING", until |-> task[r].lease.until] \in RunFile
    BY <2>1 DEF RunFile, RunStatus
  <2>3. /\ DOMAIN runs' = Run /\ \A e \in Run : e # r => runs'[e] = runs[e]
        /\ runs'[r] \in RunFile /\ runs'[r].status = "RUNNING" /\ runs'[r] # None
    BY <1>2, <1>5, <2>2, NoneAssumption DEF HarnessInv, RunsInv
  <2>4. \A e \in Run : runs'[e] # None => runs'[e] \in RunFile /\ e \in claimed' /\ Settled(e)'
    <3>1. Settled(r)'
      BY <2>3 DEF Settled
    <3>2. \A e \in Run : e # r /\ runs'[e] # None => runs'[e] \in RunFile /\ e \in claimed' /\ Settled(e)'
      BY <1>3, <2>3 DEF HarnessInv, RunsInv, FilesInv, Settled, Written, Logged
    <3> QED
      BY <1>2, <1>3, <2>3, <3>1, <3>2
  <2>5. EventOK(EventOf(r, "RUN_CREATED", 0)) /\ GoesTo(EventOf(r, "RUN_CREATED", 0), FALSE) = "created"
    BY DEF EventOK, EventOf, GoesTo, Then
  <2>6. EventOK(EventOf(r, "RUN_CREATED", 0))'
    BY <2>5 DEF EventOK
  <2>7. PICK c : c = to
    OBVIOUS
  <2>8. Started(c)'
    <3>1. Appending(EventOf(r, "RUN_CREATED", 0), "created", c.time) = c
      BY <2>7 DEF Appending
    <3>2. /\ c.at = "append" /\ c.run = r /\ c.event = EventOf(r, "RUN_CREATED", 0) /\ c.then = "created"
          /\ c.answer = <<>> /\ c.hand = FALSE
          /\ c \in [at : Stages, run : Run, event : {c.event}, then : {c.then}, time : {c.time},
                    invocation : {c.invocation}, deadline : {c.deadline}, answer : {c.answer}, hand : {c.hand}, found : {c.found}]
      BY <1>2, <2>7 DEF Appending, EventOf, Stages, Appends
    <3>3. c.event.run = r /\ c.event.type = "RUN_CREATED"
      BY <3>2 DEF EventOf
    <3>4. IsAnswer(c.answer)
      BY <3>2 DEF IsAnswer
    <3> QED
      BY <2>3, <2>5, <2>6, <3>2, <3>3, <3>4 DEF Started
  <2>9. pc'[p] = c /\ pc' = [pc EXCEPT ![p] = c] /\ c.at = "append"
    BY <1>5, <2>7 DEF Go, HarnessInv, Appending
  <2>10. CommandInv(p)'
    <3>1. Started(pc[p])' = Started(c)'
      BY <2>9 DEF Started, Written, Logged, Events
    <3> QED
      BY <2>8, <2>9, <3>1 DEF CommandInv
  <2>11. \A o \in Invoker : o # p /\ At(o, "start") => runs'[pc[o].run] = None
    BY <1>1, <1>2, <2>3 DEF HarnessInv, ClaimInv, CommandInv, At
  <2>12. TaskInv' /\ DOMAIN settled' = Run /\ (\A n \in DOMAIN responses' : responses'[n] \in Answer) /\ \A e \in Run : runs[e] # None => runs'[e] # None
    BY <1>2, <1>3, <2>3 DEF HarnessInv, TaskInv, FilesInv
  <2> HIDE DEF to
  <2> QED
    BY <1>3, <2>3, <2>4, <2>9, <2>10, <2>11, <2>12, CommandMoves
<1> QED
  BY <1>1, <1>4, <1>5 DEF CreateRun

LEMMA AppendEventStep ==
  ASSUME HarnessInv, NEW p \in Invoker, AppendEvent(p)
  PROVE  HarnessInv'
<1>1. PICK c : c = pc[p]
  OBVIOUS
<1>2. /\ c # Idle /\ c.at = "append" /\ Started(c) /\ \A o \in Invoker : ~Holding(o)
      /\ UNCHANGED <<autonomous, task, now, claimed, runs, actions, responses, settled>>
  BY <1>1 DEF AppendEvent, HarnessInv, CommandInv, At, Locked, Holding, world
<1>3. CASE Go(p, Idle) /\ UNCHANGED log
  BY <1>2, <1>3, CommandWrites DEF Go, MayGo
<1>5. PICK to : to = IF Readable(c.run, log') THEN [c EXCEPT !.at = "project"] ELSE Idle
  OBVIOUS
<1>4. CASE log' = Append(log, c.event) /\ Go(p, to)
  <2>1. LogInv /\ log \in Seq(Range(log)) /\ EventOK(c.event) /\ c.event.run = c.run /\ c.run \in Run /\ runs[c.run] # None
    BY <1>2 DEF HarnessInv, LogInv, Started, Appends
  <2>2. PICK n : n = Len(log)
    OBVIOUS
  <2>3. /\ log' \in Seq(Range(log')) /\ Range(log') = Range(log) \cup {c.event}
        /\ n \in Nat /\ DOMAIN log = 1 .. n /\ DOMAIN log' = 1 .. (n + 1)
        /\ \A i \in 1 .. n : log'[i] = log[i]
        /\ log'[n + 1] = c.event
    BY <1>4, <2>1, <2>2, AppendedEvent
  <2>4. LogInv'
    <3>1. \A e \in Range(log') : EventOK(e)' /\ e.run \in Run /\ runs'[e.run] # None
      BY <1>2, <2>1, <2>3 DEF LogInv, EventOK
    <3>2. \A i \in 1 .. n : i \in Carrying(log') <=> i \in Carrying(log)
      BY <2>3 DEF Carrying
    <3>3. \A i \in Carrying(log') : i \in 1 .. n \/ i = n + 1
      BY <2>3 DEF Carrying
    <3>4. Carrying(log) \subseteq 1 .. n /\ \A i \in 1 .. n : i <= n + 1 /\ i \in Nat
      BY <2>3 DEF Carrying
    <3>5. CASE n + 1 \in Carrying(log')
      <4>1. \A j \in Carrying(log') : j <= n + 1
        BY <2>3, <3>3, <3>4
      <4> QED
        BY <2>3, <3>1, <3>5, <4>1 DEF LogInv
    <3>6. CASE n + 1 \notin Carrying(log')
      <4>1. Carrying(log') = Carrying(log)
        BY <3>2, <3>3, <3>4, <3>6
      <4> QED
        BY <2>1, <2>3, <3>1, <4>1 DEF LogInv
    <3> QED
      BY <3>5, <3>6
  <2>5. /\ pc' = [o \in Invoker |-> pc'[o]]
        /\ pc'[p] = to /\ \A o \in Invoker : o # p => pc'[o] = pc[o]
    BY <1>4 DEF Go, HarnessInv
  <2>6. RunsInv' /\ TaskInv'
    BY <1>2 DEF HarnessInv, RunsInv, TaskInv
  <2>7. \A r : Settled(r) => Settled(r)'
    BY <1>2, <2>3 DEF Settled, Written, Logged
  <2>8. FilesInv'
    BY <1>2, <2>7 DEF HarnessInv, FilesInv, AllowedActions
  <2>9. to = Idle \/ (to.at = "project" /\ to # Idle)
    BY <1>2, <1>5 DEF Idle, Started
  <2>10. LockInv'
    BY <1>2, <2>5 DEF LockInv, Holding, At
  <2>11. ClaimInv'
    BY <2>5, <2>9 DEF HarnessInv, ClaimInv, At
  <2>12. to # Idle => Started(to)'
    <3> SUFFICES ASSUME Readable(c.run, log'), to = [c EXCEPT !.at = "project"]
                 PROVE  Started(to)'
      BY <1>5
    <3>1. PICK d : d = to
      OBVIOUS
    <3>2. /\ d.at = "project" /\ d.run = c.run /\ d.event = c.event /\ d.then = c.then /\ d.answer = c.answer
          /\ d.hand = c.hand /\ d.found = c.found /\ d.invocation = c.invocation
          /\ d \in [at : Stages, run : Run, event : {d.event}, then : {d.then}, time : {d.time},
                    invocation : {d.invocation}, deadline : {d.deadline}, answer : {d.answer}, hand : {d.hand}, found : {d.found}]
      <4>1. c \in [at : Stages, run : Run, event : {c.event}, then : {c.then}, time : {c.time},
                   invocation : {c.invocation}, deadline : {c.deadline}, answer : {c.answer}, hand : {c.hand}, found : {c.found}]
        BY <1>2 DEF Started
      <4>2. "project" \in Stages
        BY DEF Stages, Appends
      <4> QED
        BY <3>1, <4>1, <4>2
    <3>3. (Written(c.run, c) => Written(d.run, d)') /\ (Answered(c) => Answered(d))
      BY <1>2, <3>2 DEF Written, Answered
    <3>4. /\ runs'[d.run] # None /\ IsAnswer(d.answer) /\ d.hand \in BOOLEAN
          /\ d.hand => d.event.type \in {"INVOCATION_RECORDED", "ACTION_RECORDED"}
          /\ d.event.run = d.run /\ EventOK(d.event)' /\ d.then = GoesTo(d.event, d.hand)
          /\ d.then = "finish" =>
               d.event = EventOf(d.run, "ACTION_RECORDED", d.invocation) /\ Written(d.run, d)'
          /\ d.then \in {"apply", "finish"} => Answered(d)
      BY <1>2, <3>2, <3>3 DEF Started, Appends, EventOK
    <3>5. d.event \in Range(log') /\ Readable(d.run, log')
      BY <2>3, <3>2
    <3>6. Started(d)'
      BY <3>2, <3>4, <3>5 DEF Started
    <3>7. Started(to)' = Started(d)'
      BY <2>5, <3>1 DEF Started, Written, Logged, Events
    <3> QED
      BY <3>6, <3>7
  <2>13. CommandInv(p)'
    <3>1. Started(pc[p])' = Started(to)'
      BY <2>5 DEF Started, Written, Logged, Events
    <3> QED
      BY <2>5, <2>9, <2>12, <3>1 DEF CommandInv
  <2>14. ASSUME NEW o \in Invoker, o # p
         PROVE  CommandInv(o)'
    <3>1. PICK d : d = pc[o]
      OBVIOUS
    <3>2. pc'[o] = d /\ CommandInv(o) /\ ~Holding(o)
      BY <1>2, <2>5, <2>14, <3>1 DEF HarnessInv
    <3>3. CASE d # Idle /\ d.at # "start"
      <4>1. Started(d) /\ d.at \notin {"project", "update"}
        BY <3>1, <3>2, <3>3 DEF CommandInv, Holding, At
      <4>2. Started(d)'
        BY <1>2, <2>3, <4>1, StartedStays
      <4>3. Started(pc[o])' = Started(d)'
        BY <3>2 DEF Started, Written, Logged, Events
      <4> QED
        BY <3>2, <3>3, <4>2, <4>3 DEF CommandInv
    <3>4. CASE d = Idle \/ d.at = "start"
      BY <1>2, <3>1, <3>2, <3>4 DEF CommandInv
    <3> QED
      BY <3>3, <3>4
  <2> QED
    BY <2>4, <2>5, <2>6, <2>8, <2>10, <2>11, <2>13, <2>14 DEF HarnessInv
<1> QED
  BY <1>1, <1>3, <1>4, <1>5 DEF AppendEvent

\* A command goes to another stage with the same event, or with nothing to append.
LEMMA GoesOn ==
  ASSUME NEW p \in Invoker, NEW c, Started(c), NEW d,
         d \in [at : Stages, run : {c.run}, event : {d.event}, then : {d.then}, time : {d.time},
                invocation : {d.invocation}, deadline : {d.deadline}, answer : {d.answer}, hand : {d.hand}, found : {d.found}],
         IsAnswer(d.answer), d.at \notin Appends,
         d.at = "invoke" => d.event \in Events(c.run, "STEP_STARTED"),
         d.hand = c.hand, d.hand => d.event.type \in {"INVOCATION_RECORDED", "ACTION_RECORDED"},
         d.at = "finish" => Written(c.run, d) /\ Logged(c.run, d),
         d.at \in {"receipt", "apply", "finish"} => Answered(d)
  PROVE  MayGo(p, d)
<1>1. d.run = c.run /\ c.run \in Run /\ runs[c.run] # None
  BY DEF Started
<1>2. d \in [at : Stages, run : Run, event : {d.event}, then : {d.then}, time : {d.time},
             invocation : {d.invocation}, deadline : {d.deadline}, answer : {d.answer}, hand : {d.hand}, found : {d.found}]
  BY <1>1
<1>3. Started(d)
  BY <1>1, <1>2 DEF Started, Appends
<1> QED
  BY <1>3 DEF MayGo, Appends

LEMMA ProjectStateStep ==
  ASSUME HarnessInv, NEW p \in Invoker, ProjectState(p)
  PROVE  HarnessInv'
<1>1. PICK c : c = pc[p]
  OBVIOUS
<1>2. c # Idle /\ c.at = "project" /\ Started(c) /\ Holding(p)
  BY <1>1 DEF ProjectState, HarnessInv, CommandInv, At, Holding
<1> DEFINE d == [c EXCEPT !.at = "update"]
<1>3. /\ d.at = "update" /\ d.run = c.run /\ d.event = c.event /\ d.then = c.then /\ d.answer = c.answer
      /\ d.hand = c.hand /\ d.found = c.found /\ d.invocation = c.invocation
      /\ d \in [at : Stages, run : Run, event : {d.event}, then : {d.then}, time : {d.time},
                invocation : {d.invocation}, deadline : {d.deadline}, answer : {d.answer}, hand : {d.hand}, found : {d.found}]
  BY <1>2 DEF Started, Stages, Appends
<1>4. pc' = [pc EXCEPT ![p] = d] /\ UNCHANGED <<autonomous, task, now, claimed, log, actions, responses, settled, runs>>
  BY <1>1 DEF ProjectState, Go, world
<1> HIDE DEF d
<1>5. Started(d)
  BY <1>2, <1>3 DEF Started, Written, Answered, Appends
<1>6. MayGo(p, d)
  BY <1>2, <1>5 DEF MayGo
<1> QED
  BY <1>4, <1>6, CommandWrites

LEMMA UpdateRunFileStep ==
  ASSUME HarnessInv, NEW p \in Invoker, UpdateRunFile(p)
  PROVE  HarnessInv'
<1>1. PICK c : c = pc[p]
  OBVIOUS
<1>2. c # Idle /\ c.at = "update" /\ Started(c)
  BY <1>1 DEF UpdateRunFile, HarnessInv, CommandInv, At
<1>3. MayBe(c.run, LoggedStatus(log))
  <2>1. LoggedStatus(log) \in {"RUNNING", "CANCELLED"}
    BY <1>2, StatusOfLog DEF HarnessInv, Started
  <2> QED
    BY <1>2, <2>1 DEF MayBe, Started
<1> DEFINE d == [c EXCEPT !.at = c.then]
<1>4. CASE c.then = "idle"
  BY <1>1, <1>3, <1>4, CommandWrites DEF UpdateRunFile, Go, MayGo, world
<1>5. CASE c.then # "idle"
  <2>1. /\ EventOK(c.event) /\ c.event \in Range(log) /\ c.event.run = c.run
        /\ c.then = GoesTo(c.event, c.hand)
        /\ c.then = "finish" =>
             c.event = EventOf(c.run, "ACTION_RECORDED", c.invocation) /\ Written(c.run, c)
        /\ c.then \in {"apply", "finish"} => Answered(c)
        /\ c.hand \in BOOLEAN
    BY <1>2 DEF Started, Appends
  <2>2. c.event.type \in {"RUN_CREATED", "STEP_STARTED", "INVOCATION_RECORDED", "ACTION_RECORDED",
                          "TOOL_RESULT_RECORDED", "RUN_STATUS_CHANGED"}
    BY <2>1 DEF EventOK, Then
  <2>3. /\ c.then \in {"created", "invoke", "apply", "finish", "step", "cancelled"}
        /\ c.then = "invoke" => c.event.type = "STEP_STARTED"
        /\ ~c.hand
    BY <1>5, <2>1, <2>2 DEF GoesTo, Then
  <2>4. /\ d.at = c.then /\ d.event = c.event /\ d.answer = c.answer /\ d.run = c.run
        /\ d.hand = c.hand /\ d.found = c.found /\ d.invocation = c.invocation
        /\ d \in [at : Stages, run : {c.run}, event : {d.event}, then : {d.then}, time : {d.time},
                  invocation : {d.invocation}, deadline : {d.deadline}, answer : {d.answer}, hand : {d.hand}, found : {d.found}]
    <3>1. c.then \in Stages
      BY <2>3 DEF Stages
    <3> QED
      BY <1>2, <3>1 DEF Started
  <2>5. pc' = [pc EXCEPT ![p] = d]
    BY <1>1, <1>5 DEF UpdateRunFile, Go
  <2> HIDE DEF d
  <2>6. d.at \notin Appends /\ IsAnswer(d.answer)
    BY <1>2, <2>3, <2>4 DEF Appends, Started
  <2>7. d.at = "invoke" => d.event \in Events(c.run, "STEP_STARTED")
    BY <2>1, <2>3, <2>4 DEF Events
  <2>8. /\ d.at = "finish" => Written(c.run, d) /\ Logged(c.run, d)
        /\ d.at \in {"receipt", "apply", "finish"} => Answered(d)
    <3>1. d.at = "finish" => Written(c.run, d)
      BY <2>1, <2>4 DEF Written
    <3>2. d.at = "finish" => Logged(c.run, d)
      BY <2>1, <2>4 DEF Logged
    <3>3. d.at \in {"receipt", "apply", "finish"} => Answered(d)
      BY <2>1, <2>3, <2>4 DEF Answered
    <3> QED
      BY <3>1, <3>2, <3>3
  <2>9. MayGo(p, d)
    BY <1>2, <2>3, <2>4, <2>6, <2>7, <2>8, GoesOn
  <2> QED
    BY <1>1, <1>3, <2>5, <2>9, CommandWrites DEF UpdateRunFile, world
<1> QED
  BY <1>4, <1>5

\* Steps that write a status, or nothing, and end the command.
LEMMA EndingSteps ==
  ASSUME HarnessInv, NEW p \in Invoker,
         RunCreated(p) \/ SyncCancelled(p) \/ WorkerFails(p) \/ Die(p)
  PROVE  HarnessInv'
<1>1. MayGo(p, Idle)
  BY DEF MayGo
<1>2. PICK c : c = pc[p]
  OBVIOUS
<1>3. At(p, "created") \/ At(p, "cancelled") => Started(c)
  BY <1>2 DEF At, HarnessInv, CommandInv
<1>4. Started(c) => \A status \in {"RUNNING", "CANCELLED"} : MayBe(c.run, status)
  BY DEF Started, MayBe
<1>6. CASE RunCreated(p)
  BY <1>1, <1>2, <1>3, <1>4, <1>6, CommandWrites DEF RunCreated, Go, world
<1>8. CASE SyncCancelled(p)
  BY <1>1, <1>2, <1>3, <1>4, <1>8, CommandWrites DEF SyncCancelled, Go, world
<1>9. CASE WorkerFails(p) \/ Die(p)
  BY <1>1, <1>9, CommandWrites DEF WorkerFails, Die, Go, world
<1> QED
  BY <1>6, <1>8, <1>9

\* The step that settles a run has its proposals on record.
LEMMA FinishStep ==
  ASSUME HarnessInv, NEW p \in Invoker, Finish(p)
  PROVE  HarnessInv'
<1>1. PICK c : c = pc[p]
  OBVIOUS
<1>2. /\ c.at = "finish" /\ Started(c) /\ pc' = [pc EXCEPT ![p] = Idle]
      /\ UNCHANGED <<autonomous, task, now, claimed, log, actions, responses>>
  BY <1>1 DEF Finish, HarnessInv, CommandInv, At, Go, world
<1>3. c.run \in Run /\ runs[c.run] # None /\ Written(c.run, c) /\ Logged(c.run, c) /\ Answered(c)
  BY <1>2 DEF Started
<1>4. CASE UNCHANGED <<runs, settled>>
  BY <1>2, <1>4, CommandWrites DEF MayGo
<1> DEFINE step == [invocation |-> c.invocation, answer |-> c.answer, found |-> c.found]
<1>5. CASE /\ runs' = [runs EXCEPT ![c.run].status = Outcome(c.answer)]
           /\ settled' = [settled EXCEPT ![c.run] = step]
  <2>1. /\ DOMAIN runs = Run /\ DOMAIN settled = Run
        /\ \A r \in Run : runs[r] # None => runs[r] \in RunFile /\ r \in claimed /\ Settled(r)
    BY DEF HarnessInv, RunsInv, FilesInv
  <2>2. /\ DOMAIN runs' = Run /\ DOMAIN settled' = Run
        /\ \A r \in Run : r # c.run => runs'[r] = runs[r] /\ settled'[r] = settled[r]
        /\ settled'[c.run] = step
    BY <1>3, <1>5, <2>1
  <2>3. Outcome(c.answer) \in {"WAITING_APPROVAL", "BLOCKED", "COMPLETE"}
    BY DEF Outcome
  <2>4. runs'[c.run] \in RunFile /\ runs'[c.run].status = Outcome(c.answer)
    BY <1>3, <1>5, <2>1, <2>3 DEF RunFile, RunStatus
  <2>5. Written(c.run, step) /\ Logged(c.run, step) /\ Answered(step)
    BY <1>3 DEF Written, Logged, Answered
  <2>6. Settled(c.run)'
    <3>1. PICK d : d = step
      OBVIOUS
    <3>2. Written(c.run, d)' /\ Logged(c.run, d)' /\ Answered(d) /\ d.answer = c.answer
      BY <1>2, <2>5, <3>1 DEF Written, Logged
    <3>3. settled'[c.run] = d
      BY <2>2, <3>1
    <3> HIDE DEF step
    <3> QED
      BY <2>4, <3>2, <3>3 DEF Settled, Written, Logged, Answered
  <2> HIDE DEF step
  <2>7. \A r \in Run : r # c.run /\ runs'[r] # None => Settled(r)'
    BY <1>2, <2>1, <2>2 DEF Settled, Written, Logged
  <2>8. \A r \in Run : runs'[r] # None => runs'[r] \in RunFile /\ r \in claimed' /\ Settled(r)'
    BY <1>2, <1>3, <2>1, <2>2, <2>4, <2>6, <2>7
  <2>9. \A r \in Run : runs[r] # None <=> runs'[r] # None
    BY <1>3, <2>2, <2>4, NoneAssumption
  <2>10. \A o \in Invoker : o # p /\ At(o, "start") => runs'[pc[o].run] = None
    BY <2>9 DEF HarnessInv, CommandInv, At
  <2>11. TaskInv' /\ (\A n \in DOMAIN responses' : responses'[n] \in Answer) /\ CommandInv(p)'
    BY <1>2 DEF HarnessInv, TaskInv, FilesInv, CommandInv
  <2> QED
    BY <1>2, <2>2, <2>8, <2>9, <2>10, <2>11, CommandMoves
<1> QED
  BY <1>1, <1>4, <1>5 DEF Finish

LEMMA SteppingStarts ==
  ASSUME HarnessInv, NEW p \in Invoker, NEW r \in Run, runs[r] # None, ~AtLimit(r), NEW time
  PROVE  MayGo(p, Stepping(r, time))
<1>1. StepCount(r) \in Nat /\ ~(StepCount(r) >= MaxSteps)
  BY StepsBounded DEF HarnessInv, AtLimit
<1>2. StepCount(r) + 1 \in 1 .. MaxSteps
  BY <1>1, PolicyAssumption
<1>3. /\ EventOK(EventOf(r, "STEP_STARTED", StepCount(r) + 1))
      /\ GoesTo(EventOf(r, "STEP_STARTED", StepCount(r) + 1), FALSE) = "invoke"
  BY <1>2 DEF EventOK, EventOf, GoesTo, Then
<1> QED
  BY <1>3, AppendingStarts DEF Stepping

\* Commands that begin with an append.
LEMMA BeginningSteps ==
  ASSUME HarnessInv, NEW p \in Invoker, NEW r \in Run,
         BeginStep(p, r) \/ Resume(p, r) \/ Cancel(p, r) \/ RecordToolResult(p, r) \/ StopAtLimit(p, r)
  PROVE  HarnessInv'
<1>1. CASE BeginStep(p, r)
  <2>1. MayGo(p, Stepping(r, now))
    BY <1>1, SteppingStarts DEF BeginStep
  <2> QED
    BY <1>1, <2>1, CommandWrites DEF BeginStep, Enter, Go, world, files
<1>2. ASSUME NEW status \in {"RUNNING", "CANCELLED"}, runs[r] # None
      PROVE  /\ MayBe(r, status)
             /\ MayGo(p, Appending(EventOf(r, "RUN_STATUS_CHANGED", <<status, now>>),
                                   IF status = "RUNNING" THEN "step" ELSE "cancelled", now))
  <2>1. <<status, now>>[1] = status
    OBVIOUS
  <2>2. PICK tag : tag = <<status, now>>
    OBVIOUS
  <2>3. /\ EventOK(EventOf(r, "RUN_STATUS_CHANGED", tag))
        /\ GoesTo(EventOf(r, "RUN_STATUS_CHANGED", tag), FALSE) = IF status = "RUNNING" THEN "step" ELSE "cancelled"
    BY <2>1, <2>2 DEF EventOK, EventOf, GoesTo
  <2>4. MayGo(p, Appending(EventOf(r, "RUN_STATUS_CHANGED", tag),
                           IF status = "RUNNING" THEN "step" ELSE "cancelled", now))
    BY <1>2, <2>1, <2>2, <2>3, AppendingStarts
  <2> QED
    BY <1>2, <2>2, <2>4 DEF MayBe
<1>3. CASE Resume(p, r)
  <2>1. MayGo(p, Appending(EventOf(r, "RUN_STATUS_CHANGED", <<"RUNNING", now>>), "step", now)) /\ MayBe(r, "RUNNING")
    BY <1>2, <1>3 DEF Resume
  <2> QED
    BY <1>3, <2>1, CommandWrites DEF Resume, Enter, Go, world
<1>4. CASE Cancel(p, r)
  <2>1. /\ MayGo(p, Appending(EventOf(r, "RUN_STATUS_CHANGED", <<"CANCELLED", now>>), "cancelled", now))
        /\ MayBe(r, "CANCELLED")
    BY <1>2, <1>4 DEF Cancel
  <2> QED
    BY <1>4, <2>1, CommandWrites DEF Cancel, Enter, Go, world
<1>5. CASE RecordToolResult(p, r)
  <2>1. PICK a : Enter(p, r, Appending(EventOf(r, "TOOL_RESULT_RECORDED", a.id), "idle", now))
    BY <1>5 DEF RecordToolResult
  <2>2. EventOK(EventOf(r, "TOOL_RESULT_RECORDED", a.id)) /\ GoesTo(EventOf(r, "TOOL_RESULT_RECORDED", a.id), FALSE) = "idle"
    BY DEF EventOK, EventOf, GoesTo, Then
  <2>3. MayGo(p, Appending(EventOf(r, "TOOL_RESULT_RECORDED", a.id), "idle", now))
    BY <1>5, <2>2, AppendingStarts DEF RecordToolResult
  <2> QED
    BY <1>5, <2>1, <2>3, CommandWrites DEF RecordToolResult, Enter, Go, world, files
<1>6. CASE StopAtLimit(p, r)
  <2>1. pc' = [pc EXCEPT ![p] = Idle] /\ MayBe(r, "BLOCKED")
    BY <1>6 DEF StopAtLimit, HarnessInv, MayBe
  <2>2. MayGo(p, Idle)
    BY DEF MayGo
  <2> QED
    BY <1>6, <2>1, <2>2, CommandWrites DEF StopAtLimit, world
<1> QED
  BY <1>1, <1>3, <1>4, <1>5, <1>6

LEMMA ResumedStepStep ==
  ASSUME HarnessInv, NEW p \in Invoker, ResumedStep(p)
  PROVE  HarnessInv'
<1>1. PICK c : c = pc[p]
  OBVIOUS
<1>2. Started(c) /\ c.run \in Run /\ runs[c.run] # None
  BY <1>1 DEF ResumedStep, HarnessInv, CommandInv, At, Started
<1>3. MayBe(c.run, "BLOCKED") /\ MayGo(p, Idle) /\ (~AtLimit(c.run) => MayGo(p, Stepping(c.run, c.time)))
  BY <1>2, SteppingStarts DEF MayBe, MayGo
<1>4. PICK to : pc' = [pc EXCEPT ![p] = to] /\ MayGo(p, to)
  BY <1>1, <1>3 DEF ResumedStep, Go
<1>5. runs' = runs \/ runs' = [runs EXCEPT ![c.run].status = "BLOCKED"]
  BY <1>1 DEF ResumedStep
<1> QED
  BY <1>3, <1>4, <1>5, CommandWrites DEF ResumedStep, world

LEMMA InvokeStep ==
  ASSUME HarnessInv, NEW p \in Invoker, Invoke(p)
  PROVE  HarnessInv'
<1>1. PICK c : c = pc[p]
  OBVIOUS
<1>2. Started(c) /\ c.at = "invoke"
  BY <1>1 DEF Invoke, HarnessInv, CommandInv, At
<1>3. /\ c \in [at : Stages, run : Run, event : {c.event}, then : {c.then}, time : {c.time},
                invocation : {c.invocation}, deadline : {c.deadline}, answer : {c.answer}, hand : {c.hand}, found : {c.found}]
      /\ IsAnswer(c.answer) /\ c.hand \in BOOLEAN
      /\ c.hand => c.event.type \in {"INVOCATION_RECORDED", "ACTION_RECORDED"}
  BY <1>2 DEF Started
<1>4. ASSUME NEW n, NEW deadline
      PROVE  MayGo(p, [c EXCEPT !.at = "worker", !.invocation = n, !.deadline = deadline])
  <2>3. PICK d : d = [c EXCEPT !.at = "worker", !.invocation = n, !.deadline = deadline]
    OBVIOUS
  <2>1. "worker" \in Stages /\ "worker" \notin Appends
    BY DEF Stages, Appends
  <2>2. /\ d \in [at : Stages, run : {c.run}, event : {d.event}, then : {d.then}, time : {d.time},
                  invocation : {d.invocation}, deadline : {d.deadline}, answer : {d.answer}, hand : {d.hand}, found : {d.found}]
        /\ d.at = "worker" /\ d.answer = c.answer /\ d.hand = c.hand /\ d.event = c.event
    BY <1>3, <2>1, <2>3
  <2>4. MayGo(p, d)
    BY <1>2, <1>3, <2>1, <2>2, GoesOn
  <2> QED
    BY <2>3, <2>4
<1>5. ASSUME NEW n, NEW answer, answer \in Answer \cup {<<>>}
      PROVE  MayGo(p, [c EXCEPT !.at = "apply", !.invocation = n, !.found = TRUE, !.answer = answer])
  <2>3. PICK d : d = [c EXCEPT !.at = "apply", !.invocation = n, !.found = TRUE, !.answer = answer]
    OBVIOUS
  <2>1. "apply" \in Stages /\ "apply" \notin Appends
    BY DEF Stages, Appends
  <2>2. /\ d \in [at : Stages, run : {c.run}, event : {d.event}, then : {d.then}, time : {d.time},
                  invocation : {d.invocation}, deadline : {d.deadline}, answer : {d.answer}, hand : {d.hand}, found : {d.found}]
        /\ d.at = "apply" /\ d.answer = answer /\ d.hand = c.hand /\ d.event = c.event /\ d.found = TRUE
    BY <1>3, <2>1, <2>3
  <2>7. IsAnswer(<<>>)
    BY DEF IsAnswer
  <2>8. answer \in Answer => IsAnswer(answer)
    BY AnswerAssumption DEF IsAnswer
  <2>5. IsAnswer(d.answer)
    BY <1>5, <2>2, <2>7, <2>8
  <2>6. Answered(d)
    BY <1>5, <2>2 DEF Answered
  <2>4. MayGo(p, d)
    BY <1>2, <1>3, <2>1, <2>2, <2>5, <2>6, GoesOn
  <2> QED
    BY <2>3, <2>4
<1>6. \A n : (IF n \in DOMAIN responses THEN responses[n] ELSE <<>>) \in Answer \cup {<<>>}
  BY DEF HarnessInv, FilesInv
<1>7. MayGo(p, Idle)
  BY DEF MayGo
<1>8. PICK n : n = InvocationCount(c.run) + 1
  OBVIOUS
<1>9. \/ Go(p, Idle)
      \/ Go(p, [c EXCEPT !.at = "worker", !.invocation = n, !.deadline = task[c.run].lease.until])
      \/ Go(p, [c EXCEPT !.at = "apply", !.invocation = n, !.found = TRUE,
                         !.answer = IF n \in DOMAIN responses THEN responses[n] ELSE <<>>])
  BY <1>1, <1>8 DEF Invoke
<1>10. PICK to : pc' = [pc EXCEPT ![p] = to] /\ MayGo(p, to)
  <2>1. PICK answer : answer = IF n \in DOMAIN responses THEN responses[n] ELSE <<>>
    OBVIOUS
  <2>2. answer \in Answer \cup {<<>>}
    BY <1>6, <2>1
  <2>3. MayGo(p, [c EXCEPT !.at = "apply", !.invocation = n, !.found = TRUE, !.answer = answer])
    BY <1>5, <2>2
  <2> QED
    BY <1>4, <1>7, <1>9, <2>1, <2>3 DEF Go
<1> QED
  BY <1>10, CommandWrites DEF Invoke, world, files

\* A command adds to the responses or the actions, and goes on.
LEMMA CommandFiles ==
  ASSUME HarnessInv, NEW p \in Invoker, NEW to, pc' = [pc EXCEPT ![p] = to],
         to = Idle \/ (Started(to)' /\ to.at \notin {"project", "update"}),
         UNCHANGED <<autonomous, task, now, claimed, log, runs, settled>>,
         actions \subseteq actions', \A a \in actions' : a \in actions \/ a.kind \in AllowedActions,
         \A n \in DOMAIN responses' : responses'[n] \in Answer
  PROVE  HarnessInv'
<1>1. pc'[p] = to
  BY DEF HarnessInv
<1>2. CommandInv(p)' /\ (to # Idle => to.at # "start" /\ to.at \notin {"project", "update"})
  <2>1. Started(pc[p])' = Started(to)'
    BY <1>1 DEF Started, Written, Logged, Events
  <2> QED
    BY <1>1, <2>1 DEF CommandInv, Started, Stages, Appends
<1>3. DOMAIN runs' = Run /\ DOMAIN settled' = Run /\ \A r \in Run : runs'[r] # None => runs'[r] \in RunFile /\ r \in claimed' /\ Settled(r)'
  BY DEF HarnessInv, RunsInv, FilesInv, Settled, Written, Logged
<1>4. TaskInv' /\ \A o \in Invoker : o # p /\ At(o, "start") => runs'[pc[o].run] = None
  BY DEF HarnessInv, TaskInv, CommandInv, At
<1> QED
  BY <1>2, <1>3, <1>4, CommandMoves

LEMMA WorkerAnswersStep ==
  ASSUME HarnessInv, NEW p \in Invoker, NEW answer \in Answer, WorkerAnswers(p, answer)
  PROVE  HarnessInv'
<1>1. PICK c : c = pc[p]
  OBVIOUS
<1>2. Started(c)
  BY <1>1 DEF WorkerAnswers, HarnessInv, CommandInv, At
<1>3. IsAnswer(answer)
  BY AnswerAssumption DEF IsAnswer
<1>4. PICK to : to = [c EXCEPT !.at = "receipt", !.answer = answer]
  OBVIOUS
<1>5. /\ to \in [at : Stages, run : {c.run}, event : {to.event}, then : {to.then}, time : {to.time},
                 invocation : {to.invocation}, deadline : {to.deadline}, answer : {to.answer}, hand : {to.hand}, found : {to.found}]
      /\ to.at = "receipt" /\ to.answer = answer /\ to.hand = c.hand /\ to.event = c.event
  <2>1. "receipt" \in Stages
    BY DEF Stages
  <2> QED
    BY <1>2, <1>4, <2>1 DEF Started
<1>6. Started(to)
  <2>1. Answered(to) /\ (to.hand => to.event.type \in {"INVOCATION_RECORDED", "ACTION_RECORDED"})
    BY <1>2, <1>5 DEF Answered, Started
  <2>3. MayGo(p, to)
    BY <1>2, <1>3, <1>5, <2>1, GoesOn DEF Appends
  <2> QED
    BY <1>5, <2>3 DEF MayGo, Idle
<1>7. UNCHANGED <<autonomous, task, now, claimed, log, runs, settled, actions>> /\ pc' = [pc EXCEPT ![p] = to]
  BY <1>1, <1>4 DEF WorkerAnswers, Go, world
<1>8. Started(to)'
  BY <1>6, <1>7, StartedStays
<1>9. \A n \in DOMAIN responses' : responses'[n] \in Answer
  BY DEF WorkerAnswers, Put, HarnessInv, FilesInv
<1> QED
  BY <1>5, <1>7, <1>8, <1>9, CommandFiles

LEMMA RecordInvocationStep ==
  ASSUME HarnessInv, NEW p \in Invoker, RecordInvocation(p)
  PROVE  HarnessInv'
<1>1. PICK c : c = pc[p]
  OBVIOUS
<1>2. Started(c) /\ c.run \in Run /\ c.at = "receipt" /\ c.hand \in BOOLEAN
  BY <1>1 DEF RecordInvocation, HarnessInv, CommandInv, At, Started
<1>3. PICK e : e = EventOf(c.run, "INVOCATION_RECORDED", c.invocation)
  OBVIOUS
<1>10. PICK then : then = IF c.hand THEN "idle" ELSE "apply"
  OBVIOUS
<1>4. EventOK(e) /\ e.run = c.run /\ e.type = "INVOCATION_RECORDED" /\ then = GoesTo(e, c.hand)
  BY <1>3, <1>10 DEF EventOK, EventOf, GoesTo, Then
<1>5. PICK to : to = [c EXCEPT !.at = "append", !.then = then, !.event = e]
  OBVIOUS
<1>6. /\ to \in [at : Stages, run : Run, event : {to.event}, then : {to.then}, time : {to.time},
                 invocation : {to.invocation}, deadline : {to.deadline}, answer : {to.answer}, hand : {to.hand}, found : {to.found}]
      /\ to.at = "append" /\ to.then = then /\ to.event = e /\ to.run = c.run /\ to.answer = c.answer
      /\ to.hand = c.hand /\ to.found = c.found
  <2>1. "append" \in Stages
    BY DEF Stages, Appends
  <2> QED
    BY <1>2, <1>5, <2>1 DEF Started
<1>7. Started(to)
  <2>1. Answered(to)
    BY <1>2, <1>6 DEF Started, Answered
  <2>2. then \in {"idle", "apply"}
    BY <1>10
  <2> QED
    BY <1>2, <1>4, <1>6, <2>1, <2>2 DEF Started
<1>8. /\ UNCHANGED <<autonomous, task, now, claimed, log, runs, actions, responses, settled>>
      /\ pc' = [pc EXCEPT ![p] = to]
  BY <1>1, <1>3, <1>5, <1>10 DEF RecordInvocation, Go, world
<1>9. MayGo(p, to)
  BY <1>6, <1>7 DEF MayGo
<1> QED
  BY <1>8, <1>9, CommandWrites

\* All proposals of the answer are written before the event is appended.
LEMMA ApplyStep ==
  ASSUME HarnessInv, NEW p \in Invoker, Apply(p)
  PROVE  HarnessInv'
<1>1. PICK c : c = pc[p]
  OBVIOUS
<1>2. Started(c) /\ c.run \in Run /\ IsAnswer(c.answer) /\ c.hand \in BOOLEAN /\ c.at = "apply" /\ Answered(c)
  BY <1>1 DEF Apply, HarnessInv, CommandInv, At, Started
<1>3. UNCHANGED <<autonomous, task, now, claimed, log, runs, settled, responses>>
  BY DEF Apply, world
<1>4. \A n \in DOMAIN responses' : responses'[n] \in Answer
  BY <1>3 DEF HarnessInv, FilesInv
<1>5. CASE Go(p, Idle) /\ UNCHANGED actions
  BY <1>3, <1>4, <1>5, CommandFiles DEF Go
<1>6. PICK e : e = EventOf(c.run, "ACTION_RECORDED", c.invocation)
  OBVIOUS
<1>11. PICK then : then = IF c.hand THEN "idle" ELSE "finish"
  OBVIOUS
<1>7. PICK to : to = [c EXCEPT !.at = "append", !.then = then, !.event = e]
  OBVIOUS
<1>8. ASSUME NEW written \in SUBSET DOMAIN c.answer,
             \A i \in written : \A j \in 1 .. i : c.answer[j] \in AllowedActions,
             actions' = actions \cup {[id |-> <<c.invocation, i>>, run |-> c.run, kind |-> c.answer[i]] : i \in written},
             Go(p, IF written = DOMAIN c.answer THEN to ELSE Idle)
      PROVE  HarnessInv'
  <2>1. \A i \in written : i \in 1 .. i
    BY <1>2, <1>8 DEF IsAnswer
  <2>2. \A a \in actions' : a \in actions \/ a.kind \in AllowedActions
    BY <1>8, <2>1
  <2>3. CASE written # DOMAIN c.answer
    BY <1>3, <1>4, <1>8, <2>2, <2>3, CommandFiles DEF Go
  <2>4. CASE written = DOMAIN c.answer
    <3>1. EventOK(e)' /\ e.run = c.run /\ e.type = "ACTION_RECORDED" /\ then = GoesTo(e, c.hand)
      BY <1>6, <1>11 DEF EventOK, EventOf, GoesTo, Then
    <3>2. /\ to \in [at : Stages, run : Run, event : {to.event}, then : {to.then}, time : {to.time},
                     invocation : {to.invocation}, deadline : {to.deadline}, answer : {to.answer}, hand : {to.hand}, found : {to.found}]
          /\ to.at = "append" /\ to.then = then /\ to.event = e /\ to.run = c.run /\ to.answer = c.answer
          /\ to.hand = c.hand /\ to.found = c.found /\ to.invocation = c.invocation
      <4>1. "append" \in Stages
        BY DEF Stages, Appends
      <4> QED
        BY <1>2, <1>7, <4>1 DEF Started
    <3>3. \A i \in DOMAIN c.answer : [id |-> <<c.invocation, i>>, run |-> c.run, kind |-> c.answer[i]] \in actions'
      BY <1>8, <2>4
    <3>4. Written(to.run, to)' /\ Answered(to)
      BY <1>2, <3>2, <3>3 DEF Written, Answered
    <3>6. then \in {"idle", "finish"}
      BY <1>11
    <3>5. Started(to)'
      BY <1>2, <1>3, <1>6, <3>1, <3>2, <3>4, <3>6 DEF Started
    <3> QED
      BY <1>3, <1>4, <1>8, <2>2, <2>4, <3>2, <3>5, CommandFiles DEF Go
  <2> QED
    BY <2>3, <2>4
<1> DEFINE admitted(i) == \A j \in 1 .. i : c.answer[j] \in AllowedActions
           clashing(i) == \E a \in actions : a.id = <<c.invocation, i>> /\ <<a.run, a.kind>> # <<c.run, c.answer[i]>>
           w == {i \in DOMAIN c.answer : admitted(i) /\ \A j \in 1 .. i : ~clashing(j)}
<1>9. \/ Go(p, Idle) /\ UNCHANGED actions
      \/ /\ actions' = actions \cup {[id |-> <<c.invocation, i>>, run |-> c.run, kind |-> c.answer[i]] : i \in w}
         /\ Go(p, IF w = DOMAIN c.answer THEN to ELSE Idle)
  BY <1>1, <1>6, <1>7, <1>11 DEF Apply
<1>10. w \in SUBSET DOMAIN c.answer /\ \A i \in w : \A j \in 1 .. i : c.answer[j] \in AllowedActions
  OBVIOUS
<1> HIDE DEF w
<1> QED
  BY <1>5, <1>8, <1>9, <1>10

\* Commands given by hand.
LEMMA ByHandSteps ==
  ASSUME HarnessInv, NEW p \in Invoker, NEW r \in Run, NEW n,
         RunWorker(p, r, n) \/ \E answer \in Answer : ApplyActions(p, r, n, answer)
  PROVE  HarnessInv'
<1>1. PICK e : e = EventOf(r, "INVOCATION_RECORDED", n)
  OBVIOUS
<1>2. e.run = r /\ e.type = "INVOCATION_RECORDED"
  BY <1>1 DEF EventOf
<1>3. ASSUME NEW to,
             to \in [at : {"worker", "apply"}, run : {r}, event : {e}, then : {to.then}, time : {to.time},
                     invocation : {to.invocation}, deadline : {to.deadline}, answer : {to.answer},
                     hand : {TRUE}, found : {to.found}],
             IsAnswer(to.answer), to.at = "apply" => to.answer \in Answer, runs[r] # None
      PROVE  MayGo(p, to)
  <2>1. to.at \in Stages /\ to.at \notin Appends
    BY <1>3 DEF Stages, Appends
  <2>2. Started(to)
    BY <1>2, <1>3, <2>1 DEF Started, Answered
  <2> QED
    BY <1>3, <2>2 DEF MayGo
<1>4. CASE RunWorker(p, r, n)
  <2>1. PICK to : to = [ByHand(r, n, "worker") EXCEPT !.deadline = task[r].lease.until]
    OBVIOUS
  <2>2. /\ to \in [at : {"worker"}, run : {r}, event : {e}, then : {to.then}, time : {to.time},
                   invocation : {to.invocation}, deadline : {to.deadline}, answer : {to.answer},
                   hand : {TRUE}, found : {to.found}]
        /\ to.answer = <<>>
    BY <1>1, <1>2, <2>1 DEF ByHand, Appending
  <2>4. IsAnswer(to.answer) /\ to.at # "apply" /\ runs[r] # None
    BY <1>4, <2>2 DEF RunWorker, IsAnswer
  <2>3. MayGo(p, to)
    BY <1>3, <2>2, <2>4
  <2> QED
    BY <1>4, <2>1, <2>3, CommandWrites DEF RunWorker, Enter, Go, world, files
<1>5. ASSUME NEW answer \in Answer, ApplyActions(p, r, n, answer)
      PROVE  HarnessInv'
  <2>1. PICK to : to = [ByHand(r, n, "apply") EXCEPT !.answer = answer]
    OBVIOUS
  <2>2. /\ to \in [at : {"apply"}, run : {r}, event : {e}, then : {to.then}, time : {to.time},
                   invocation : {to.invocation}, deadline : {to.deadline}, answer : {to.answer},
                   hand : {TRUE}, found : {to.found}]
        /\ to.answer = answer
    BY <1>1, <1>2, <2>1 DEF ByHand, Appending
  <2>3. MayGo(p, to)
    BY <1>3, <1>5, <2>2, AnswerAssumption DEF ApplyActions, IsAnswer
  <2> QED
    BY <1>5, <2>1, <2>3, CommandWrites DEF ApplyActions, Enter, Go, world, files
<1> QED
  BY <1>4, <1>5

LEMMA HarnessInit ==
  ASSUME Init
  PROVE  HarnessInv
<1>1. /\ runs = [r \in Run |-> None] /\ log = <<>> /\ pc = [p \in Invoker |-> Idle] /\ DOMAIN log = {}
      /\ responses = <<>> /\ DOMAIN responses = {} /\ actions = {} /\ now = 0
      /\ settled = [r \in Run |-> None]
      /\ task = [r \in Run |-> [status |-> "READY", attempt |-> 0, lease |-> None]]
  BY DEF Init
<1>2. TaskInv /\ RunsInv /\ FilesInv
  BY <1>1 DEF TaskInv, RunsInv, FilesInv
<1>3. LogInv
  <2>1. log \in Seq(Range(log)) /\ Range(log) = {} /\ Carrying(log) = {}
    BY <1>1 DEF Range, Carrying
  <2> QED
    BY <2>1 DEF LogInv
<1>4. LockInv /\ ClaimInv /\ \A p \in Invoker : CommandInv(p)
  BY <1>1 DEF LockInv, ClaimInv, Holding, At, CommandInv
<1> QED
  BY <1>1, <1>2, <1>3, <1>4 DEF HarnessInv

LEMMA HarnessStep ==
  ASSUME HarnessInv, [Next]_vars
  PROVE  HarnessInv'
<1>1. CASE UNCHANGED vars
  <2>1. TaskInv'
    BY <1>1 DEF HarnessInv, TaskInv, vars
  <2> QED
    BY <1>1, <2>1, WorldStep DEF vars
<1>2. ASSUME NEW p \in Invoker, NEW r \in Run,
             \/ Start(p, r) \/ BeginStep(p, r) \/ StopAtLimit(p, r)
             \/ Resume(p, r) \/ Cancel(p, r) \/ RecordToolResult(p, r)
      PROVE  HarnessInv'
  BY <1>2, StartStep, BeginningSteps
<1>4. ASSUME NEW p \in Invoker, NEW r \in Run, NEW n \in HandNumbers,
             RunWorker(p, r, n) \/ \E answer \in Answer : ApplyActions(p, r, n, answer)
      PROVE  HarnessInv'
  BY <1>4, ByHandSteps
<1>3. ASSUME NEW p \in Invoker,
             \/ AppendEvent(p) \/ ProjectState(p) \/ UpdateRunFile(p)
             \/ CreateRun(p) \/ RunCreated(p) \/ ResumedStep(p) \/ Invoke(p)
             \/ WorkerFails(p) \/ RecordInvocation(p) \/ Apply(p) \/ Finish(p)
             \/ SyncCancelled(p) \/ Die(p)
      PROVE  HarnessInv'
  BY <1>3, AppendEventStep, ProjectStateStep, UpdateRunFileStep, CreateRunStep, ResumedStepStep, InvokeStep,
     RecordInvocationStep, ApplyStep, EndingSteps, FinishStep
<1> QED
  BY <1>1, <1>2, <1>3, <1>4, RuntimeSteps, WorkerAnswersStep DEF Next

\* What the commands rely on between their steps holds however they overlap, and wherever they die
\* (agent_harness.py:260-330, run_agent_harness.py:60-166).
THEOREM HarnessInductive == Spec => []HarnessInv
<1> QED
  BY HarnessInit, HarnessStep, PTL DEF Spec

\* A run that a step left complete or waiting has the proposals of that step on record, for any commands
\* at the same time, by hand or not, and any crashes (run_agent_harness.py:119-130).
THEOREM SettledRunsRecorded == Spec => []SettledRunsAreRecorded
<1>1. HarnessInv => SettledRunsAreRecorded
  BY DEF HarnessInv, FilesInv, Settled, Written, Logged, Answered, SettledRunsAreRecorded
<1> QED
  BY <1>1, HarnessInductive, PTL

-----------------------------------------------------------------------------
(* Worker processes and steps.                                             *)

\* The event of a command that has a step is in the log.
LEMMA StepInLog ==
  ASSUME HarnessInv, NEW p \in Invoker, NEW r, Pending(p, r)
  PROVE  pc[p].event \in Steps(r) /\ Started(pc[p]) /\ r \in Run
<1>1. PICK c : c = pc[p]
  OBVIOUS
<1>2. c # Idle /\ c.run = r /\ HasStep(c) /\ c.at # "start"
  BY <1>1 DEF Pending, Active, HasStep
<1>3. Started(c) /\ r \in Run
  BY <1>1, <1>2 DEF HarnessInv, CommandInv, Started
<1>4. CASE c.at = "invoke"
  BY <1>1, <1>2, <1>3, <1>4 DEF Started, Steps
<1>5. CASE c.at \in {"project", "update"} /\ c.then = "invoke"
  <2>1. /\ c.event \in Range(log) /\ c.event.run = r /\ EventOK(c.event)
        /\ c.then = GoesTo(c.event, c.hand)
    BY <1>2, <1>3, <1>5 DEF Started, Appends
  <2>2. c.event.type \in {"RUN_CREATED", "STEP_STARTED", "INVOCATION_RECORDED", "ACTION_RECORDED",
                          "TOOL_RESULT_RECORDED", "RUN_STATUS_CHANGED"}
    BY <2>1 DEF EventOK, Then
  <2>3. c.event.type = "STEP_STARTED"
    BY <1>5, <2>1, <2>2 DEF GoesTo, Then
  <2> QED
    BY <1>1, <1>3, <2>1, <2>3 DEF Steps, Events
<1> QED
  BY <1>2, <1>4, <1>5 DEF HasStep

LEMMA UnusedFinite ==
  ASSUME HarnessInv, NEW r
  PROVE  IsFiniteSet(Unused(r)) /\ Cardinality(Unused(r)) \in Nat /\ Cardinality(Unused(r)) <= StepCount(r)
<1>1. IsFiniteSet(Steps(r)) /\ Unused(r) \subseteq Steps(r)
  BY StepsBounded DEF HarnessInv, Steps, Unused
<1>2. IsFiniteSet(Unused(r)) /\ Cardinality(Unused(r)) <= Cardinality(Steps(r))
  BY <1>1, FS_Subset
<1> QED
  BY <1>2, FS_CardinalityType DEF StepCount, Steps

\* A set of unused steps that grows does so within a finite set.
LEMMA UnusedGrows ==
  ASSUME HarnessInv, HarnessInv', NEW r, Unused(r) \subseteq Unused(r)'
  PROVE  /\ IsFiniteSet(Unused(r)') /\ Cardinality(Unused(r)') \in Nat
         /\ Cardinality(Unused(r)) <= Cardinality(Unused(r)')
<1>1. PICK steps : steps = Steps(r)'
  OBVIOUS
<1>2. \A e \in steps : e = EventOf(r, "STEP_STARTED", e.tag) /\ e.tag \in 1 .. MaxSteps
  BY <1>1 DEF HarnessInv, LogInv, EventOK, Steps, Events
<1>3. IsFiniteSet(steps) /\ Unused(r)' \subseteq steps
  BY <1>1, <1>2, NumberedSteps DEF Unused
<1>4. IsFiniteSet(Unused(r)')
  BY <1>3, FS_Subset
<1> QED
  BY <1>4, FS_Subset, FS_CardinalityType

\* One command moves: it has no step, or it keeps the one it had, or it has a new one.
LEMMA CallsMove ==
  ASSUME HarnessInv, HarnessInv', CallsInv, NEW p \in Invoker, NEW to, pc' = [pc EXCEPT ![p] = to],
         calls' = calls, Range(log) \subseteq Range(log'),
         to # Idle /\ HasStep(to) =>
           \/ pc[p] # Idle /\ HasStep(pc[p]) /\ to.event = pc[p].event /\ to.run = pc[p].run
           \/ to.event \notin Range(log)
  PROVE  CallsInv'
<1>1. pc'[p] = to /\ \A o \in Invoker : o # p => pc'[o] = pc[o]
  BY DEF HarnessInv
<1>2. \A r : \A o \in Invoker : o # p => (Pending(o, r)' <=> Pending(o, r))
  BY <1>1 DEF Pending, Active
<1>3. \A r : Pending(p, r)' => \/ Pending(p, r) /\ to.event = pc[p].event
                               \/ to.event \notin Range(log)
  BY <1>1 DEF Pending, Active
<1>4. \A r : \A o \in Invoker : Pending(o, r) => pc[o].event \in Range(log)
  BY StepInLog DEF Steps, Events
<1>5. ASSUME NEW r \in Run
      PROVE  calls'[r] \in Nat /\ calls'[r] <= Cardinality(Unused(r)')
  <2>1. Steps(r) \subseteq Steps(r)'
    BY DEF Steps, Events
  <2>2. Unused(r) \subseteq Unused(r)'
    <3> SUFFICES ASSUME NEW e \in Unused(r), NEW o \in Invoker, Pending(o, r)'
                 PROVE  pc'[o].event # e
      BY <2>1 DEF Unused
    <3>1. e \in Range(log) /\ (Pending(o, r) => pc[o].event # e)
      BY DEF Unused, Steps, Events
    <3> QED
      BY <1>1, <1>2, <1>3, <3>1
  <2>3. Cardinality(Unused(r)) <= Cardinality(Unused(r)') /\ Cardinality(Unused(r)) \in Nat
        /\ Cardinality(Unused(r)') \in Nat
    BY <2>2, UnusedGrows, UnusedFinite
  <2>4. PICK k, m, n : k = calls[r] /\ m = Cardinality(Unused(r)) /\ n = Cardinality(Unused(r)')
    OBVIOUS
  <2> QED
    BY <2>3, <2>4 DEF CallsInv
<1>6. ASSUME NEW r \in Run, NEW o \in Invoker, NEW q \in Invoker, Pending(o, r)', Pending(q, r)', o # q
      PROVE  pc'[o].event # pc'[q].event
  <2>1. CASE o # p /\ q # p
    BY <1>1, <1>2, <1>6, <2>1 DEF CallsInv
  <2>2. CASE o = p
    BY <1>1, <1>2, <1>3, <1>4, <1>6, <2>2 DEF CallsInv
  <2>3. CASE q = p
    BY <1>1, <1>2, <1>3, <1>4, <1>6, <2>3 DEF CallsInv
  <2> QED
    BY <2>1, <2>2, <2>3
<1> QED
  BY <1>5, <1>6 DEF CallsInv

LEMMA AppendEventCalls ==
  ASSUME HarnessInv, HarnessInv', CallsInv, NEW p \in Invoker, AppendEvent(p)
  PROVE  CallsInv'
<1>1. PICK c : c = pc[p]
  OBVIOUS
<1>2. Started(c) /\ calls' = calls /\ log \in Seq(Range(log))
  BY <1>1 DEF AppendEvent, HarnessInv, CommandInv, At, LogInv
<1>3. CASE Go(p, Idle) /\ UNCHANGED log
  BY <1>2, <1>3, CallsMove DEF Go
<1>4. PICK to : to = IF Readable(c.run, log') THEN [c EXCEPT !.at = "project"] ELSE Idle
  OBVIOUS
<1>5. CASE c.event \notin Range(log) /\ log' = Append(log, c.event) /\ Go(p, to)
  <2>1. Range(log) \subseteq Range(log')
    BY <1>2, <1>5, AppendedEvent
  <2>2. to = Idle \/ to.event = c.event
    BY <1>2, <1>4 DEF Started
  <2> QED
    BY <1>2, <1>5, <2>1, <2>2, CallsMove DEF Go
<1> QED
  BY <1>1, <1>3, <1>4, <1>5 DEF AppendEvent, Fresh

LEMMA ProjectStateCalls ==
  ASSUME HarnessInv, HarnessInv', CallsInv, NEW p \in Invoker, ProjectState(p)
  PROVE  CallsInv'
<1>1. PICK c : c = pc[p]
  OBVIOUS
<1>2. Started(c) /\ c # Idle /\ c.at = "project" /\ UNCHANGED <<calls, log>>
  BY <1>1 DEF ProjectState, HarnessInv, CommandInv, At
<1>3. PICK to : to = [c EXCEPT !.at = "update"]
  OBVIOUS
<1>4. to.at = "update" /\ to.event = c.event /\ to.run = c.run /\ to.then = c.then
  BY <1>2, <1>3 DEF Started
<1>5. pc' = [pc EXCEPT ![p] = to]
  BY <1>1, <1>3 DEF ProjectState, Go
<1> QED
  BY <1>1, <1>2, <1>4, <1>5, CallsMove DEF HasStep

LEMMA UpdateRunFileCalls ==
  ASSUME HarnessInv, HarnessInv', CallsInv, NEW p \in Invoker, UpdateRunFile(p)
  PROVE  CallsInv'
<1>1. PICK c : c = pc[p]
  OBVIOUS
<1>2. Started(c) /\ c # Idle /\ c.at = "update" /\ UNCHANGED <<calls, log>>
  BY <1>1 DEF UpdateRunFile, HarnessInv, CommandInv, At
<1>3. PICK to : to = IF c.then = "idle" THEN Idle ELSE [c EXCEPT !.at = c.then]
  OBVIOUS
<1>4. to = Idle \/ (to.at = c.then /\ to.event = c.event /\ to.run = c.run /\ to.then = c.then)
  BY <1>2, <1>3 DEF Started
<1>5. c.then \notin {"project", "update"}
  <2>1. /\ EventOK(c.event)
        /\ c.then = GoesTo(c.event, c.hand)
    BY <1>2 DEF Started, Appends
  <2>2. c.event.type \in {"RUN_CREATED", "STEP_STARTED", "INVOCATION_RECORDED", "ACTION_RECORDED",
                          "TOOL_RESULT_RECORDED", "RUN_STATUS_CHANGED"}
    BY <2>1 DEF EventOK, Then
  <2> QED
    BY <2>1, <2>2 DEF GoesTo, Then
<1>6. pc' = [pc EXCEPT ![p] = to]
  BY <1>1, <1>3 DEF UpdateRunFile, Go
<1> QED
  BY <1>1, <1>2, <1>4, <1>5, <1>6, CallsMove DEF HasStep

\* A worker is started under a step that no other command has.
LEMMA InvokeCalls ==
  ASSUME HarnessInv, HarnessInv', CallsInv, NEW p \in Invoker, Invoke(p)
  PROVE  CallsInv'
<1>1. PICK c : c = pc[p]
  OBVIOUS
<1>2. Started(c) /\ c # Idle /\ c.at = "invoke" /\ UNCHANGED log /\ c.run \in Run
  BY <1>1 DEF Invoke, HarnessInv, CommandInv, At, files, Started
<1>3. PICK to : pc' = [pc EXCEPT ![p] = to] /\ (to # Idle => ~HasStep(to))
  <2>1. \A n, deadline : ~HasStep([c EXCEPT !.at = "worker", !.invocation = n, !.deadline = deadline])
    BY <1>2 DEF Started, HasStep
  <2>2. \A n, answer : ~HasStep([c EXCEPT !.at = "apply", !.invocation = n, !.found = TRUE, !.answer = answer])
    BY <1>2 DEF Started, HasStep
  <2> QED
    BY <1>1, <2>1, <2>2 DEF Invoke, Go
<1>4. CASE UNCHANGED calls
  BY <1>2, <1>3, <1>4, CallsMove
<1>5. CASE calls' = [calls EXCEPT ![c.run] = @ + 1]
  <2>1. PICK r : r = c.run
    OBVIOUS
  <2>2. r \in Run /\ Pending(p, r) /\ c.event \in Steps(r)
    BY <1>1, <1>2, <2>1, StepInLog DEF Pending, Active, HasStep
  <2>3. pc'[p] = to /\ \A o \in Invoker : o # p => pc'[o] = pc[o]
    BY <1>3 DEF HarnessInv
  <2>4. \A e : /\ ~Pending(p, e)'
               /\ \A o \in Invoker : o # p => (Pending(o, e)' <=> Pending(o, e))
    BY <1>3, <2>3 DEF Pending, Active
  <2>5. \A e : Steps(e)' = Steps(e)
    BY <1>2 DEF Steps, Events
  <2>6. \A e \in Run : Unused(e) \subseteq Unused(e)'
    BY <2>3, <2>4, <2>5 DEF Unused
  <2>7. c.event \in Unused(r)' /\ c.event \notin Unused(r)
    <3>1. \A o \in Invoker : o # p /\ Pending(o, r) => pc[o].event # c.event
      BY <1>1, <2>2 DEF CallsInv
    <3> QED
      BY <1>1, <2>2, <2>3, <2>4, <2>5, <3>1 DEF Unused
  <2>8. /\ DOMAIN calls' = Run /\ calls'[r] = calls[r] + 1
        /\ \A e \in Run : e # r => calls'[e] = calls[e]
    BY <1>5, <2>1, <2>2 DEF CallsInv
  <2>9. \A e \in Run : /\ calls[e] \in Nat /\ calls[e] <= Cardinality(Unused(e))
                       /\ Cardinality(Unused(e)) \in Nat /\ Cardinality(Unused(e)') \in Nat
                       /\ Cardinality(Unused(e)) <= Cardinality(Unused(e)')
    BY <2>6, UnusedFinite, UnusedGrows DEF CallsInv
  <2>10. Cardinality(Unused(r)) + 1 <= Cardinality(Unused(r)')
    <3>1. PICK old, new : old = Unused(r) /\ new = Unused(r)'
      OBVIOUS
    <3>2. IsFiniteSet(old) /\ IsFiniteSet(new) /\ old \cup {c.event} \subseteq new /\ c.event \notin old
      BY <2>2, <2>6, <2>7, <3>1, UnusedFinite, UnusedGrows
    <3>3. Cardinality(old \cup {c.event}) = Cardinality(old) + 1 /\ IsFiniteSet(old \cup {c.event})
      BY <3>2, FS_AddElement
    <3>4. Cardinality(old \cup {c.event}) <= Cardinality(new)
      BY <3>2, FS_Subset
    <3> QED
      BY <3>1, <3>3, <3>4
  <2>11. ASSUME NEW e \in Run
         PROVE  calls'[e] \in Nat /\ calls'[e] <= Cardinality(Unused(e)')
    <3>1. PICK k, m, n : k = calls[e] /\ m = Cardinality(Unused(e)) /\ n = Cardinality(Unused(e)')
      OBVIOUS
    <3>2. k \in Nat /\ m \in Nat /\ n \in Nat /\ k <= m /\ m <= n /\ (e = r => m + 1 <= n)
      BY <2>9, <2>10, <3>1
    <3> QED
      BY <2>8, <3>1, <3>2
  <2>12. \A e \in Run : \A o, q \in Invoker : Pending(o, e)' /\ Pending(q, e)' /\ o # q => pc'[o].event # pc'[q].event
    BY <2>3, <2>4 DEF CallsInv
  <2> QED
    BY <2>8, <2>11, <2>12 DEF CallsInv
<1> QED
  BY <1>1, <1>4, <1>5 DEF Invoke

\* Steps after which the command has no step of its own.
LEMMA OtherCalls ==
  ASSUME HarnessInv, HarnessInv', CallsInv, NEW p \in Invoker,
         \/ \E r \in Run : \/ Start(p, r) \/ BeginStep(p, r) \/ Resume(p, r) \/ Cancel(p, r)
                           \/ RecordToolResult(p, r)
         \/ \E r \in Run, n \in HandNumbers : RunWorker(p, r, n) \/ \E answer \in Answer : ApplyActions(p, r, n, answer)
         \/ CreateRun(p) \/ RunCreated(p) \/ ResumedStep(p) \/ WorkerFails(p) \/ RecordInvocation(p)
         \/ Apply(p) \/ Finish(p) \/ SyncCancelled(p) \/ Die(p)
         \/ \E answer \in Answer : WorkerAnswers(p, answer)
  PROVE  CallsInv'
<1>1. UNCHANGED <<calls, log>>
  BY DEF Start, BeginStep, Resume, Cancel, RecordToolResult, CreateRun, RunCreated, ResumedStep, WorkerFails,
         RecordInvocation, Apply, Finish, SyncCancelled, Die, WorkerAnswers, RunWorker, ApplyActions, files
<1>2. \A event, then, time : ~HasStep(Appending(event, then, time))
  BY DEF HasStep, Appending
<1>3. \A r, time : ~HasStep([at |-> "start", run |-> r, time |-> time])
  BY DEF HasStep
<1>4. PICK c : c = pc[p]
  OBVIOUS
<1>5. At(p, "worker") \/ At(p, "receipt") \/ At(p, "apply") => Started(c)
  BY <1>4 DEF HarnessInv, CommandInv, At
<1>6. Started(c) =>
        /\ \A answer : ~HasStep([c EXCEPT !.at = "receipt", !.answer = answer])
        /\ \A then, event : ~HasStep([c EXCEPT !.at = "append", !.then = then, !.event = event])
  BY DEF Started, HasStep
<1>7. \E to : pc' = [pc EXCEPT ![p] = to] /\ (to # Idle => ~HasStep(to))
  <2>1. CASE \E r \in Run : \/ Start(p, r) \/ BeginStep(p, r) \/ Resume(p, r) \/ Cancel(p, r)
                            \/ RecordToolResult(p, r)
    BY <1>2, <1>3, <2>1 DEF Start, BeginStep, Resume, Cancel, RecordToolResult, Enter, Go, Stepping
  <2>2. CASE CreateRun(p) \/ RunCreated(p) \/ ResumedStep(p)
    BY <1>2, <2>2 DEF CreateRun, RunCreated, ResumedStep, Go, Stepping
  <2>3. CASE WorkerFails(p) \/ Finish(p) \/ SyncCancelled(p) \/ Die(p)
    BY <2>3 DEF WorkerFails, Finish, SyncCancelled, Die, Go
  <2>4. CASE RecordInvocation(p)
    BY <1>4, <1>5, <1>6, <2>4 DEF RecordInvocation, Go
  <2>5. CASE \E answer \in Answer : WorkerAnswers(p, answer)
    BY <1>4, <1>5, <1>6, <2>5 DEF WorkerAnswers, Go
  <2>6. CASE Apply(p)
    BY <1>4, <1>5, <1>6, <2>6 DEF Apply, Go
  <2>7. CASE \E r \in Run, n \in HandNumbers : RunWorker(p, r, n) \/ \E answer \in Answer : ApplyActions(p, r, n, answer)
    <3>1. PICK r \in Run, n \in HandNumbers : RunWorker(p, r, n) \/ \E answer \in Answer : ApplyActions(p, r, n, answer)
      BY <2>7
    <3>2. /\ \A d : ~HasStep([ByHand(r, n, "worker") EXCEPT !.deadline = d])
          /\ \A answer : ~HasStep([ByHand(r, n, "apply") EXCEPT !.answer = answer])
      BY DEF HasStep, ByHand, Appending
    <3> QED
      BY <3>1, <3>2 DEF RunWorker, ApplyActions, Enter, Go
  <2> QED
    BY <2>1, <2>2, <2>3, <2>4, <2>5, <2>6, <2>7
<1> QED
  BY <1>1, <1>7, CallsMove

LEMMA CallsStep ==
  ASSUME HarnessInv, HarnessInv', CallsInv, [Next]_vars
  PROVE  CallsInv'
<1>1. CASE UNCHANGED <<calls, log, pc>>
  BY <1>1 DEF CallsInv, Unused, Steps, Events, Pending, Active
<1>2. \/ \E r \in Run : ClaimedElsewhere(r) \/ Renewed(r) \/ Released(r)
      \/ Tick \/ ApprovalDecided \/ UNCHANGED vars \/ (\E p \in Invoker, r \in Run : StopAtLimit(p, r))
      => UNCHANGED <<calls, log, pc>>
  BY DEF ClaimedElsewhere, Renewed, Released, Tick, ApprovalDecided, vars, StopAtLimit, files
<1> QED
  BY <1>1, <1>2, AppendEventCalls, ProjectStateCalls, UpdateRunFileCalls, InvokeCalls, OtherCalls DEF Next

\* However commands overlap, fail, are repeated or die, the worker processes that the steps of a run
\* start are bounded by the policy (run_agent_harness.py:102-118, agent_harness.py:269-275).
THEOREM WorkersAreBounded == Spec => []WorkerCallsBounded
<1>1. Init => CallsInv
  <2> SUFFICES ASSUME Init
               PROVE  CallsInv
    OBVIOUS
  <2>1. HarnessInv /\ calls = [r \in Run |-> 0] /\ \A p \in Invoker : pc[p] = Idle
    BY HarnessInit DEF Init
  <2>2. \A r : Cardinality(Unused(r)) \in Nat
    BY <2>1, UnusedFinite
  <2> QED
    BY <2>1, <2>2 DEF CallsInv, Pending, Active
<1>2. HarnessInv /\ HarnessInv' /\ CallsInv /\ [Next]_vars => CallsInv'
  BY CallsStep
<1>3. HarnessInv /\ CallsInv => WorkerCallsBounded
  <2> SUFFICES ASSUME HarnessInv, CallsInv, NEW r \in Run
               PROVE  calls[r] <= StepCount(r) /\ StepCount(r) <= MaxSteps
    BY DEF WorkerCallsBounded
  <2>1. StepCount(r) \in Nat /\ StepCount(r) <= MaxSteps
    BY StepsBounded DEF HarnessInv
  <2>2. Cardinality(Unused(r)) \in Nat /\ Cardinality(Unused(r)) <= StepCount(r)
    BY UnusedFinite
  <2>3. calls[r] \in Nat /\ calls[r] <= Cardinality(Unused(r))
    BY DEF CallsInv
  <2>4. PICK k, m, n : k = calls[r] /\ m = Cardinality(Unused(r)) /\ n = StepCount(r)
    OBVIOUS
  <2> QED
    BY <2>1, <2>2, <2>3, <2>4
<1> QED
  BY <1>1, <1>2, <1>3, HarnessInductive, PTL DEF Spec

-----------------------------------------------------------------------------
(* What people say.                                                        *)

\* What an append leaves as the last status of the run.
LEMMA EndAfterAppend ==
  ASSUME HarnessInv, NEW r, NEW e, log' = Append(log, e),
         Cancellation(e, r) \/ (EndsCancelled(r) /\ (e.run # r \/ ~CarriesStatus(e)))
  PROVE  EndsCancelled(r)'
<1>1. /\ Len(log) \in Nat /\ DOMAIN log = 1 .. Len(log) /\ DOMAIN log' = 1 .. (Len(log) + 1)
      /\ \A j \in DOMAIN log : log'[j] = log[j]
      /\ log'[Len(log) + 1] = e
  BY AppendedEvent DEF HarnessInv, LogInv
<1>2. CASE Cancellation(e, r)
  <2>1. PICK i : i = Len(log) + 1
    OBVIOUS
  <2>2. i \in DOMAIN log' /\ Cancellation(log'[i], r) /\ \A j \in DOMAIN log' : ~(j > i)
    BY <1>1, <1>2, <2>1
  <2> QED
    BY <2>2 DEF EndsCancelled
<1>3. CASE EndsCancelled(r) /\ (e.run # r \/ ~CarriesStatus(e))
  <2>1. PICK i \in DOMAIN log :
          /\ Cancellation(log[i], r)
          /\ \A j \in DOMAIN log : j > i /\ log[j].run = r /\ CarriesStatus(log[j]) => Cancellation(log[j], r)
    BY <1>3 DEF EndsCancelled
  <2>2. i \in DOMAIN log' /\ Cancellation(log'[i], r)
    BY <1>1, <2>1
  <2>3. ASSUME NEW j \in DOMAIN log', j > i, log'[j].run = r, CarriesStatus(log'[j])
        PROVE  Cancellation(log'[j], r)
    <3>1. j # Len(log) + 1
      BY <1>1, <1>3, <2>3
    <3>2. j \in DOMAIN log
      BY <1>1, <2>3, <3>1
    <3>3. log'[j] = log[j]
      BY <1>1, <3>2
    <3> QED
      BY <2>1, <2>3, <3>2, <3>3
  <2> QED
    BY <2>2, <2>3 DEF EndsCancelled
<1> QED
  BY <1>2, <1>3

\* Steps of commands on other runs.
LEMMA PeopleElsewhere ==
  ASSUME HarnessInv, NEW r \in Run, Obeys(r), NEW p \in Invoker, NEW to, pc' = [pc EXCEPT ![p] = to],
         ~Active(p, r), to = Idle \/ to.run # r, runs'[r] = runs[r],
         log' = log \/ \E e : e.run # r /\ log' = Append(log, e)
  PROVE  Obeys(r)'
<1>1. pc'[p] = to /\ \A o \in Invoker : o # p => pc'[o] = pc[o]
  BY DEF HarnessInv
<1>2. \A o \in Invoker : Active(o, r)' => Active(o, r) /\ pc'[o] = pc[o]
  BY <1>1 DEF Active
<1>3. Cancelled(r)' <=> Cancelled(r)
  BY AppendedEvent DEF Cancelled, Cancellation, HarnessInv, LogInv
<1>4. Cancelled(r) => runs'[r].status = "CANCELLED"
  BY DEF Obeys
<1>5. Cancelled(r) => EndsCancelled(r)'
  <2>1. CASE log' = log
    BY <2>1 DEF Obeys, EndsCancelled
  <2>2. CASE \E e : e.run # r /\ log' = Append(log, e)
    BY <2>2, EndAfterAppend DEF Obeys
  <2> QED
    BY <2>1, <2>2
<1>6. \A o \in Invoker : Active(o, r)' => Alone(pc[o], r)'
  BY <1>1, <1>2, <1>3 DEF Obeys, Alone
<1> QED
  BY <1>2, <1>3, <1>4, <1>5, <1>6 DEF Obeys, Alone

\* A step of the one command on a run, that appends nothing.
LEMMA PeopleMove ==
  ASSUME HarnessInv, NEW r \in Run, Obeys(r), NEW p \in Invoker, NEW to, pc' = [pc EXCEPT ![p] = to],
         log' = log, \A o \in Invoker : Active(o, r) => o = p,
         to # Idle => /\ runs'[r] # None /\ runs'[r].status = "WAITING_APPROVAL" => Recording(to) /\ to.hand
                      /\ Cancelling(to) => runs'[r].status = "CANCELLED"
                      /\ Cancelled(r) => Cancelling(to) \/ Recording(to),
         Cancelled(r) => runs'[r].status = "CANCELLED"
  PROVE  Obeys(r)'
<1>1. pc'[p] = to /\ \A o \in Invoker : o # p => pc'[o] = pc[o]
  BY DEF HarnessInv
<1>2. \A o \in Invoker : Active(o, r)' => o = p /\ to # Idle /\ pc'[o] = to
  BY <1>1 DEF Active
<1>3. (Cancelled(r)' <=> Cancelled(r)) /\ (EndsCancelled(r)' <=> EndsCancelled(r))
  BY DEF Cancelled, EndsCancelled
<1>4. \A o \in Invoker : Active(o, r)' => Alone(pc[o], r)'
  BY <1>2, <1>3 DEF Alone
<1> QED
  BY <1>2, <1>3, <1>4 DEF Obeys

\* After a cancellation the status of the log is that.
LEMMA LogStaysCancelled ==
  ASSUME HarnessInv, NEW r \in Run, Obeys(r), Cancelled(r), Readable(r, log)
  PROVE  LoggedStatus(log) = "CANCELLED"
<1>1. PICK i \in Carrying(log) :
        /\ \A j \in Carrying(log) : j <= i
        /\ LoggedStatus(log) = IF log[i].type = "RUN_CREATED" THEN "RUNNING" ELSE log[i].tag[1]
        /\ log[i] \in Range(log) /\ log[i].run = r
  BY StatusOfLog DEF HarnessInv
<1>2. PICK k \in DOMAIN log :
        /\ Cancellation(log[k], r)
        /\ \A j \in DOMAIN log : j > k /\ log[j].run = r /\ CarriesStatus(log[j]) => Cancellation(log[j], r)
  BY DEF Obeys, EndsCancelled
<1>3. k \in Carrying(log) /\ i \in DOMAIN log /\ CarriesStatus(log[i]) /\ DOMAIN log \subseteq Nat
  BY <1>1, <1>2 DEF Cancellation, Carrying, CarriesStatus, HarnessInv, LogInv
<1>4. Cancellation(log[i], r)
  <2>1. k <= i /\ (i = k \/ i > k)
    BY <1>1, <1>3
  <2> QED
    BY <1>1, <1>2, <1>3, <2>1
<1> QED
  BY <1>1, <1>4 DEF Cancellation

LEMMA AppendEventPeople ==
  ASSUME HarnessInv, NEW r \in Run, Obeys(r), NEW p \in Invoker, AppendEvent(p)
  PROVE  Obeys(r)'
<1>1. PICK c : c = pc[p]
  OBVIOUS
<1>2. /\ Started(c) /\ c # Idle /\ c.at = "append" /\ c.event.run = c.run /\ EventOK(c.event)
      /\ c.then = GoesTo(c.event, c.hand)
      /\ c.hand \in BOOLEAN /\ (c.hand => c.event.type \in {"INVOCATION_RECORDED", "ACTION_RECORDED"})
      /\ runs' = runs
  BY <1>1 DEF AppendEvent, HarnessInv, CommandInv, At, Started, Appends
<1>3. PICK to : to = IF Readable(c.run, log') THEN [c EXCEPT !.at = "project"] ELSE Idle
  OBVIOUS
<1>4. to = Idle \/ (to.at = "project" /\ to.run = c.run /\ to.then = c.then /\ to.hand = c.hand)
  BY <1>2, <1>3 DEF Started
<1>5. \/ pc' = [pc EXCEPT ![p] = Idle] /\ log' = log
      \/ pc' = [pc EXCEPT ![p] = to] /\ log' = Append(log, c.event)
  BY <1>1, <1>3 DEF AppendEvent, Go
<1>6. CASE c.run # r
  <2>1. ~Active(p, r)
    BY <1>1, <1>6 DEF Active
  <2> QED
    BY <1>2, <1>4, <1>5, <1>6, <2>1, PeopleElsewhere
<1>7. CASE c.run = r /\ pc' = [pc EXCEPT ![p] = Idle] /\ log' = log
  <2>1. \A o \in Invoker : Active(o, r) => o = p
    BY <1>1, <1>2, <1>7 DEF Active, Obeys
  <2>2. Cancelled(r) => runs'[r].status = "CANCELLED"
    BY <1>2 DEF Obeys
  <2> QED
    BY <1>7, <2>1, <2>2, PeopleMove
<1>8. CASE c.run = r /\ pc' = [pc EXCEPT ![p] = to] /\ log' = Append(log, c.event)
  <2>1. Active(p, r) /\ Alone(c, r) /\ \A o \in Invoker : Active(o, r) => o = p
    BY <1>1, <1>2, <1>8 DEF Active, Obeys
  <2>2. Cancelled(r)' <=> Cancelled(r) \/ Cancellation(c.event, r)
    BY <1>8, AppendedEvent DEF Cancelled, HarnessInv, LogInv, Cancellation
  <2>3. c.then = "cancelled" <=> Cancellation(c.event, r)
    BY <1>2, <1>8 DEF Cancellation, EventOK, GoesTo, Then
  <2>4. c.then = "idle" => ~CarriesStatus(c.event)
    BY <1>2 DEF CarriesStatus, GoesTo, EventOK, Then
  <2>5. Cancelled(r)' => c.then \in {"cancelled", "idle"}
    BY <1>2, <2>1, <2>2, <2>3 DEF Alone, Cancelling, Recording
  <2>6. Cancelled(r)' => runs'[r].status = "CANCELLED"
    BY <1>2, <2>1, <2>2, <2>3 DEF Obeys, Alone, Cancelling, Appends
  <2>7. Cancelled(r)' => EndsCancelled(r)'
    BY <1>8, <2>2, <2>3, <2>4, <2>5, EndAfterAppend DEF Obeys
  <2>8. pc'[p] = to /\ \A o \in Invoker : o # p => pc'[o] = pc[o]
    BY <1>8 DEF HarnessInv
  <2>9. \A o \in Invoker : Active(o, r)' => o = p /\ to # Idle /\ pc'[o] = to
    BY <2>1, <2>8 DEF Active
  <2>10. to # Idle => /\ runs'[r] # None /\ runs'[r].status = "WAITING_APPROVAL" => Recording(to) /\ to.hand
                      /\ Cancelling(to) => runs'[r].status = "CANCELLED"
                      /\ Cancelled(r)' => Cancelling(to) \/ Recording(to)
    BY <1>2, <1>4, <2>1, <2>5 DEF Alone, Cancelling, Recording, Appends
  <2>11. \A o \in Invoker : Active(o, r)' => Alone(pc[o], r)'
    BY <2>9, <2>10 DEF Alone
  <2> QED
    BY <2>6, <2>7, <2>9, <2>11 DEF Obeys
<1> QED
  BY <1>5, <1>6, <1>7, <1>8

\* A command on a run goes on, or ends.
LEMMA PeopleGoOn ==
  ASSUME HarnessInv, NEW r \in Run, Obeys(r), NEW p \in Invoker, NEW to, pc' = [pc EXCEPT ![p] = to],
         log' = log, pc[p] # Idle, to = Idle \/ to.run = pc[p].run,
         \A e \in Run : e # pc[p].run => runs'[e] = runs[e],
         pc[p].run = r /\ Alone(pc[p], r) =>
           /\ to # Idle => /\ runs'[r] # None /\ runs'[r].status = "WAITING_APPROVAL" => Recording(to) /\ to.hand
                           /\ Cancelling(to) => runs'[r].status = "CANCELLED"
                           /\ Cancelled(r) => Cancelling(to) \/ Recording(to)
           /\ Cancelled(r) => runs'[r].status = "CANCELLED"
  PROVE  Obeys(r)'
<1>1. CASE pc[p].run = r
  <2>1. Alone(pc[p], r) /\ \A o \in Invoker : Active(o, r) => o = p
    BY <1>1 DEF Active, Obeys
  <2> QED
    BY <1>1, <2>1, PeopleMove
<1>2. CASE pc[p].run # r
  BY <1>2, PeopleElsewhere DEF Active
<1> QED
  BY <1>1, <1>2

\* From the step on to its end a command does not cancel, and one given by hand goes on recording.
Onwards(c, to) ==
  \/ to = Idle
  \/ /\ to.run = c.run /\ to.hand = c.hand
     /\ \/ c.at = "project" /\ to.at = "update" /\ to.then = c.then
        \/ /\ c.at \in {"invoke", "worker", "receipt", "apply"} /\ (c.at = "invoke" => ~c.hand)
           /\ \/ to.at \in {"worker", "receipt", "apply"}
              \/ to.at = "append" /\ to.then \in (IF c.hand THEN {"idle"} ELSE {"apply", "finish"})

\* The event of a step is not one of a command given by hand.
LEMMA StepNotByHand ==
  ASSUME NEW c, Started(c), c.at = "invoke"
  PROVE  c.hand = FALSE
<1>1. c.event.type = "STEP_STARTED"
  BY DEF Started, Events
<1> QED
  BY <1>1 DEF Started

\* Steps that leave log and run files alone.
LEMMA QuietPeople ==
  ASSUME HarnessInv, NEW r \in Run, Obeys(r), NEW p \in Invoker, UNCHANGED <<log, runs>>,
         \/ ProjectState(p) \/ Invoke(p) \/ WorkerFails(p) \/ RecordInvocation(p) \/ Apply(p) \/ Die(p)
         \/ \E answer \in Answer : WorkerAnswers(p, answer)
  PROVE  Obeys(r)'
<1>1. PICK c : c = pc[p]
  OBVIOUS
<1>2. c # Idle
  BY <1>1 DEF ProjectState, Invoke, WorkerFails, RecordInvocation, Apply, Die, WorkerAnswers, At
<1>3. c.at \in Stages => Started(c)
  BY <1>1, <1>2 DEF HarnessInv, CommandInv, Stages, Appends
<1>4. \E to : pc' = [pc EXCEPT ![p] = to] /\ Onwards(c, to)
  <2>1. CASE ProjectState(p)
    <3>1. c.at = "project" /\ pc' = [pc EXCEPT ![p] = [c EXCEPT !.at = "update"]]
      BY <1>1, <2>1 DEF ProjectState, At, Go
    <3>2. PICK to : to = [c EXCEPT !.at = "update"]
      OBVIOUS
    <3>3. to.run = c.run /\ to.at = "update" /\ to.then = c.then /\ to.hand = c.hand
      BY <1>3, <3>1, <3>2 DEF Started, Stages, Appends
    <3> QED
      BY <3>1, <3>2, <3>3 DEF Onwards
  <2>2. CASE Invoke(p)
    <3>1. c.at = "invoke" /\ Started(c) /\ ~c.hand
      BY <1>1, <1>3, <2>2, StepNotByHand DEF Invoke, At, Stages, Appends
    <3>2. ASSUME NEW n, NEW deadline,
                 pc' = [pc EXCEPT ![p] = [c EXCEPT !.at = "worker", !.invocation = n, !.deadline = deadline]]
          PROVE  \E to : pc' = [pc EXCEPT ![p] = to] /\ Onwards(c, to)
      <4>1. PICK to : to = [c EXCEPT !.at = "worker", !.invocation = n, !.deadline = deadline]
        OBVIOUS
      <4>2. to.at = "worker" /\ to.run = c.run /\ to.hand = c.hand
        BY <3>1, <4>1 DEF Started
      <4> QED
        BY <3>1, <3>2, <4>1, <4>2 DEF Onwards
    <3>3. ASSUME NEW n, NEW answer,
                 pc' = [pc EXCEPT ![p] = [c EXCEPT !.at = "apply", !.invocation = n, !.found = TRUE, !.answer = answer]]
          PROVE  \E to : pc' = [pc EXCEPT ![p] = to] /\ Onwards(c, to)
      <4>1. PICK to : to = [c EXCEPT !.at = "apply", !.invocation = n, !.found = TRUE, !.answer = answer]
        OBVIOUS
      <4>2. to.at = "apply" /\ to.run = c.run /\ to.hand = c.hand
        BY <3>1, <4>1 DEF Started
      <4> QED
        BY <3>1, <3>3, <4>1, <4>2 DEF Onwards
    <3> QED
      BY <1>1, <2>2, <3>2, <3>3 DEF Invoke, Go, Onwards
  <2>3. CASE WorkerFails(p) \/ Die(p)
    BY <2>3 DEF WorkerFails, Die, Go, Onwards
  <2>4. CASE RecordInvocation(p)
    <3>1. c.at = "receipt" /\ Started(c)
      BY <1>1, <1>3, <2>4 DEF RecordInvocation, At, Stages, Appends
    <3>2. PICK to : /\ pc' = [pc EXCEPT ![p] = to]
               /\ \/ to = Idle
                  \/ \E event : to = [c EXCEPT !.at = "append", !.then = IF c.hand THEN "idle" ELSE "apply", !.event = event]
      BY <1>1, <2>4 DEF RecordInvocation, Go
    <3>3. to = Idle \/ (/\ to.run = c.run /\ to.at = "append" /\ to.hand = c.hand
                          /\ to.then = IF c.hand THEN "idle" ELSE "apply")
      BY <3>1, <3>2 DEF Started
    <3> QED
      BY <3>1, <3>2, <3>3 DEF Onwards
  <2>5. CASE Apply(p)
    <3>1. c.at = "apply" /\ Started(c)
      BY <1>1, <1>3, <2>5 DEF Apply, At, Stages, Appends
    <3>2. PICK to : /\ pc' = [pc EXCEPT ![p] = to]
               /\ \/ to = Idle
                  \/ \E event : to = [c EXCEPT !.at = "append", !.then = IF c.hand THEN "idle" ELSE "finish", !.event = event]
      BY <1>1, <2>5 DEF Apply, Go
    <3>3. to = Idle \/ (/\ to.run = c.run /\ to.at = "append" /\ to.hand = c.hand
                          /\ to.then = IF c.hand THEN "idle" ELSE "finish")
      BY <3>1, <3>2 DEF Started
    <3> QED
      BY <3>1, <3>2, <3>3 DEF Onwards
  <2>6. CASE \E answer \in Answer : WorkerAnswers(p, answer)
    <3>1. c.at = "worker" /\ Started(c)
      BY <1>1, <1>3, <2>6 DEF WorkerAnswers, At, Stages, Appends
    <3>2. PICK to : /\ pc' = [pc EXCEPT ![p] = to]
               /\ \/ to = Idle
                  \/ \E answer : to = [c EXCEPT !.at = "receipt", !.answer = answer]
      BY <1>1, <2>6 DEF WorkerAnswers, Go
    <3>3. to = Idle \/ (to.run = c.run /\ to.at = "receipt" /\ to.hand = c.hand)
      BY <3>1, <3>2 DEF Started
    <3> QED
      BY <3>1, <3>2, <3>3 DEF Onwards
  <2> QED
    BY <2>1, <2>2, <2>3, <2>4, <2>5, <2>6
<1>5. PICK to : pc' = [pc EXCEPT ![p] = to] /\ Onwards(c, to)
  BY <1>4
<1>6. to # Idle => /\ to.hand = c.hand /\ (Cancelling(to) => Cancelling(c))
                   /\ (Recording(c) => Recording(to)) /\ (Cancelling(c) => Cancelling(to))
  BY <1>5 DEF Onwards, Cancelling, Recording, Appends
<1>7. Alone(c, r) => /\ to # Idle => /\ runs'[r] # None /\ runs'[r].status = "WAITING_APPROVAL" => Recording(to) /\ to.hand
                                     /\ Cancelling(to) => runs'[r].status = "CANCELLED"
                                     /\ Cancelled(r) => Cancelling(to) \/ Recording(to)
                     /\ Cancelled(r) => runs'[r].status = "CANCELLED"
  BY <1>6 DEF Alone, Obeys
<1> QED
  BY <1>1, <1>2, <1>5, <1>7, PeopleGoOn DEF Onwards

\* The status of the log, after a cancellation, is the cancellation.
LEMMA UpdateRunFilePeople ==
  ASSUME HarnessInv, NEW r \in Run, Obeys(r), NEW p \in Invoker, UpdateRunFile(p)
  PROVE  Obeys(r)'
<1>1. PICK c : c = pc[p]
  OBVIOUS
<1>2. /\ Started(c) /\ c # Idle /\ c.at = "update" /\ log' = log /\ c.run \in Run
      /\ runs' = [runs EXCEPT ![c.run].status = LoggedStatus(log)]
  BY <1>1 DEF UpdateRunFile, HarnessInv, CommandInv, At, Started
<1>3. Readable(c.run, log) /\ LoggedStatus(log) \in {"RUNNING", "CANCELLED"}
  BY <1>2, StatusOfLog DEF Started, HarnessInv
<1>4. DOMAIN runs = Run /\ runs[c.run] # None /\ runs[c.run] \in RunFile
  BY <1>2 DEF HarnessInv, RunsInv, Started
<1>5. runs'[c.run].status = LoggedStatus(log) /\ \A e \in Run : e # c.run => runs'[e] = runs[e]
  BY <1>2, <1>4 DEF RunFile
<1>6. PICK to : to = IF c.then = "idle" THEN Idle ELSE [c EXCEPT !.at = c.then]
  OBVIOUS
<1>7. to = Idle \/ (to.at = c.then /\ to.run = c.run)
  BY <1>2, <1>6 DEF Started
<1>8. c.then \notin Appends
  <2>1. /\ EventOK(c.event)
        /\ c.then = GoesTo(c.event, c.hand)
    BY <1>2 DEF Started, Appends
  <2>2. c.event.type \in {"RUN_CREATED", "STEP_STARTED", "INVOCATION_RECORDED", "ACTION_RECORDED",
                          "TOOL_RESULT_RECORDED", "RUN_STATUS_CHANGED"}
    BY <2>1 DEF EventOK, Then
  <2> QED
    BY <2>1, <2>2 DEF GoesTo, Then, Appends
<1>9. pc' = [pc EXCEPT ![p] = to]
  BY <1>1, <1>6 DEF UpdateRunFile, Go
<1>10. ASSUME c.run = r, Alone(c, r)
       PROVE  /\ to # Idle => /\ runs'[r] # None /\ runs'[r].status = "WAITING_APPROVAL" => Recording(to) /\ to.hand
                              /\ Cancelling(to) => runs'[r].status = "CANCELLED"
                              /\ Cancelled(r) => Cancelling(to) \/ Recording(to)
              /\ Cancelled(r) => runs'[r].status = "CANCELLED"
  <2>1. Cancelled(r) => runs'[r].status = "CANCELLED"
    BY <1>3, <1>5, <1>10, LogStaysCancelled
  <2>2. to # Idle /\ Cancelling(to) => Cancelled(r)
    <3>1. /\ EventOK(c.event) /\ c.event.run = r /\ c.event \in Range(log)
          /\ c.then = GoesTo(c.event, c.hand) /\ c.hand \in BOOLEAN
      BY <1>2, <1>10 DEF Started, Appends
    <3>2. c.then = "cancelled" => Cancellation(c.event, r)
      BY <3>1 DEF Cancellation, EventOK, GoesTo, Then
    <3> QED
      BY <1>7, <1>8, <3>1, <3>2 DEF Cancelling, Cancelled
  <2>3. to # Idle /\ Cancelled(r) => Cancelling(to)
    BY <1>2, <1>6, <1>7, <1>10 DEF Alone, Cancelling, Recording, Appends
  <2> QED
    BY <1>3, <1>5, <1>10, <2>1, <2>2, <2>3
<1> QED
  BY <1>1, <1>2, <1>5, <1>7, <1>9, <1>10, PeopleGoOn

\* The other writes of a command to its run file.
LEMMA WritingPeople ==
  ASSUME HarnessInv, NEW r \in Run, Obeys(r), NEW p \in Invoker,
         CreateRun(p) \/ RunCreated(p) \/ ResumedStep(p) \/ Finish(p) \/ SyncCancelled(p)
  PROVE  Obeys(r)'
<1>1. PICK c : c = pc[p]
  OBVIOUS
<1>2. c # Idle /\ log' = log /\ c.at \in {"start", "created", "step", "finish", "cancelled"}
  BY <1>1 DEF CreateRun, RunCreated, ResumedStep, Finish, SyncCancelled, At
<1>3. c.run \in Run /\ DOMAIN runs = Run /\ (runs[c.run] = None <=> c.at = "start")
  BY <1>1, <1>2 DEF HarnessInv, RunsInv, CommandInv, Started
<1>4. \A e \in Run : runs[e] # None => runs[e] \in RunFile
  BY DEF HarnessInv, RunsInv
<1>5. Cancelled(r) => runs[r] # None
  BY DEF HarnessInv, LogInv, Cancelled, Cancellation
<1>6. \A event, then, time : LET d == Appending(event, then, time)
                             IN d.at = "append" /\ d.run = event.run /\ d.then = then
  BY DEF Appending
<1>7. \A e, type, tag : EventOf(e, type, tag).run = e
  BY DEF EventOf
<1>8. ASSUME c.run = r, Alone(c, r), Cancelled(r)
      PROVE  c.at = "cancelled"
  BY <1>2, <1>8 DEF Alone, Cancelling, Recording, Appends
<1>9. CASE CreateRun(p)
  <2>1. c.at = "start"
    BY <1>1, <1>9 DEF CreateRun, At
  <2>2. \/ pc' = [pc EXCEPT ![p] = Idle] /\ runs' = runs
        \/ /\ pc' = [pc EXCEPT ![p] = Appending(EventOf(c.run, "RUN_CREATED", 0), "created", c.time)]
           /\ runs' = [runs EXCEPT ![c.run] = [status |-> "RUNNING", until |-> task[c.run].lease.until]]
    BY <1>1, <1>9 DEF CreateRun, Go
  <2>3. c.run = r => ~Cancelled(r)
    BY <1>3, <1>5, <2>1
  <2>4. CASE pc' = [pc EXCEPT ![p] = Idle] /\ runs' = runs
    BY <1>1, <1>2, <2>3, <2>4, PeopleGoOn
  <2>5. CASE /\ pc' = [pc EXCEPT ![p] = Appending(EventOf(c.run, "RUN_CREATED", 0), "created", c.time)]
             /\ runs' = [runs EXCEPT ![c.run] = [status |-> "RUNNING", until |-> task[c.run].lease.until]]
    <3>1. PICK to : to = Appending(EventOf(c.run, "RUN_CREATED", 0), "created", c.time)
      OBVIOUS
    <3>2. to.at = "append" /\ to.run = c.run /\ to.then = "created"
      BY <1>6, <1>7, <3>1
    <3>3. runs'[c.run].status = "RUNNING" /\ \A e \in Run : e # c.run => runs'[e] = runs[e]
      BY <1>3, <2>5
    <3> QED
      BY <1>1, <1>2, <2>3, <2>5, <3>1, <3>2, <3>3, PeopleGoOn DEF Cancelling, Appends
  <2> QED
    BY <2>2, <2>4, <2>5
<1>10. CASE RunCreated(p)
  <2>1. c.at = "created" /\ pc' = [pc EXCEPT ![p] = Idle] /\ runs' = [runs EXCEPT ![c.run].status = "RUNNING"]
    BY <1>1, <1>10 DEF RunCreated, At, Go
  <2> QED
    BY <1>1, <1>2, <1>3, <1>8, <2>1, PeopleGoOn
<1>11. CASE ResumedStep(p)
  <2>1. /\ c.at = "step" /\ (runs' = runs \/ runs' = [runs EXCEPT ![c.run].status = "BLOCKED"])
        /\ \/ pc' = [pc EXCEPT ![p] = Idle]
           \/ pc' = [pc EXCEPT ![p] = Stepping(c.run, c.time)]
    BY <1>1, <1>11 DEF ResumedStep, At, Go
  <2>2. PICK to : pc' = [pc EXCEPT ![p] = to] /\ (to = Idle \/ to = Stepping(c.run, c.time))
    BY <2>1
  <2>3. to = Idle \/ (to.at = "append" /\ to.run = c.run /\ to.then = "invoke")
    BY <2>2 DEF Stepping, Appending, EventOf
  <2>4. /\ \A e \in Run : e # c.run => runs'[e] = runs[e]
        /\ runs'[c.run].status \in {"BLOCKED", runs[c.run].status}
    <3>1. runs[c.run] \in RunFile
      BY <1>3, <1>4, <2>1
    <3> QED
      BY <1>3, <2>1, <3>1 DEF RunFile
  <2>5. c.run = r /\ Alone(c, r) => runs[r].status # "WAITING_APPROVAL" /\ ~Cancelled(r)
    BY <1>3, <1>8, <2>1 DEF Alone, Recording, Appends
  <2> QED
    BY <1>1, <1>2, <2>1, <2>2, <2>3, <2>4, <2>5, PeopleGoOn DEF Cancelling, Appends
<1>12. CASE Finish(p)
  <2>1. /\ c.at = "finish" /\ pc' = [pc EXCEPT ![p] = Idle]
        /\ runs' = runs \/ \E status : runs' = [runs EXCEPT ![c.run].status = status]
    BY <1>1, <1>12 DEF Finish, At, Go
  <2> QED
    BY <1>1, <1>2, <1>3, <1>8, <2>1, PeopleGoOn
<1>13. CASE SyncCancelled(p)
  <2>1. /\ c.at = "cancelled" /\ pc' = [pc EXCEPT ![p] = Idle]
        /\ runs' = runs \/ runs' = [runs EXCEPT ![c.run].status = "CANCELLED"]
    BY <1>1, <1>13 DEF SyncCancelled, At, Go
  <2>2. \A e \in Run : e # c.run => runs'[e] = runs[e]
    BY <1>3, <2>1
  <2>3. c.run = r /\ Cancelled(r) => runs'[r].status = "CANCELLED"
    BY <1>3, <1>4, <2>1 DEF Obeys, RunFile
  <2> QED
    BY <1>1, <1>2, <2>1, <2>2, <2>3, PeopleGoOn
<1> QED
  BY <1>9, <1>10, <1>11, <1>12, <1>13

\* A command begins on a run that no other command works on.
LEMMA EnteringPeople ==
  ASSUME HarnessInv, NEW r \in Run, Obeys(r), r \notin overlapped', NEW p \in Invoker, NEW q \in Run,
         \/ Start(p, q) \/ BeginStep(p, q) \/ Resume(p, q) \/ Cancel(p, q) \/ RecordToolResult(p, q)
         \/ \E n : RunWorker(p, q, n) \/ \E answer \in Answer : ApplyActions(p, q, n, answer)
  PROVE  Obeys(r)'
<1>1. /\ pc[p] = Idle /\ log' = log
      /\ overlapped' = IF \E o \in Invoker : pc[o] # Idle /\ pc[o].run = q
                       THEN overlapped \cup {q} ELSE overlapped
  BY DEF Start, BeginStep, Resume, Cancel, RecordToolResult, RunWorker, ApplyActions, Enter, files
<1>2. q = r => \A o \in Invoker : ~Active(o, r)
  BY <1>1 DEF Active
<1>3. DOMAIN runs = Run /\ \A e \in Run : runs[e] # None => runs[e] \in RunFile
  BY DEF HarnessInv, RunsInv
<1>4. \A e \in Run : e # q => runs'[e] = runs[e]
  BY <1>3 DEF Start, BeginStep, Resume, Cancel, RecordToolResult, RunWorker, ApplyActions, files
<1>5. (runs[r] = None => ~Cancelled(r)) /\ (Cancelled(r) => runs[r].status = "CANCELLED")
  BY DEF HarnessInv, LogInv, Cancelled, Cancellation, Obeys
<1>6. \A type, tag, then, time : LET d == Appending(EventOf(q, type, tag), then, time)
                                 IN d.at = "append" /\ d.run = q /\ d.then = then
  BY DEF Appending, EventOf
<1>7. ASSUME NEW to, pc' = [pc EXCEPT ![p] = to], to.run = q,
             q = r => /\ runs'[r] # None /\ runs'[r].status = "WAITING_APPROVAL" => Recording(to) /\ to.hand
                      /\ Cancelling(to) => runs'[r].status = "CANCELLED"
                      /\ Cancelled(r) => Cancelling(to) \/ Recording(to)
                      /\ Cancelled(r) => runs'[r].status = "CANCELLED"
      PROVE  Obeys(r)'
  <2>1. CASE q = r
    BY <1>1, <1>2, <1>7, <2>1, PeopleMove
  <2>2. CASE q # r
    BY <1>1, <1>4, <1>7, <2>2, PeopleElsewhere DEF Active
  <2> QED
    BY <2>1, <2>2
<1>8. CASE Start(p, q)
  <2>1. PICK to : to = [at |-> "start", run |-> q, time |-> now]
    OBVIOUS
  <2>2. pc' = [pc EXCEPT ![p] = to] /\ runs' = runs /\ runs[q] = None
    BY <1>8, <2>1 DEF Start, Enter, Go, files, HarnessInv, RunsInv
  <2>3. to.run = q /\ ~Cancelling(to)
    BY <2>1 DEF Cancelling, Appends
  <2> QED
    BY <1>5, <1>7, <2>2, <2>3
<1>9. CASE BeginStep(p, q)
  <2>1. PICK to : to = Stepping(q, now)
    OBVIOUS
  <2>2. pc' = [pc EXCEPT ![p] = to] /\ runs' = runs /\ runs[q].status = "RUNNING"
    BY <1>9, <2>1 DEF BeginStep, Enter, Go, files
  <2>3. to.run = q /\ ~Cancelling(to)
    BY <1>6, <2>1 DEF Stepping, Cancelling, Appends
  <2> QED
    BY <1>5, <1>7, <2>2, <2>3
<1>10. CASE Resume(p, q)
  <2>1. PICK to : to = Appending(EventOf(q, "RUN_STATUS_CHANGED", <<"RUNNING", now>>), "step", now)
    OBVIOUS
  <2>2. /\ pc' = [pc EXCEPT ![p] = to] /\ runs' = [runs EXCEPT ![q].status = "RUNNING"]
        /\ runs[q] # None /\ runs[q].status = "WAITING_APPROVAL"
    BY <1>10, <2>1 DEF Resume, Enter, Go
  <2>3. runs'[q].status = "RUNNING"
    BY <1>3, <2>2 DEF RunFile
  <2>4. to.run = q /\ ~Cancelling(to)
    BY <1>6, <2>1 DEF Cancelling, Appends
  <2> QED
    BY <1>5, <1>7, <2>2, <2>3, <2>4
<1>11. CASE Cancel(p, q)
  <2>1. PICK to : to = Appending(EventOf(q, "RUN_STATUS_CHANGED", <<"CANCELLED", now>>), "cancelled", now)
    OBVIOUS
  <2>2. pc' = [pc EXCEPT ![p] = to] /\ runs' = [runs EXCEPT ![q].status = "CANCELLED"] /\ runs[q] # None
    BY <1>11, <2>1 DEF Cancel, Enter, Go
  <2>3. runs'[q].status = "CANCELLED"
    BY <1>3, <2>2 DEF RunFile
  <2>4. to.run = q /\ Cancelling(to)
    BY <1>6, <2>1 DEF Cancelling, Appends
  <2> QED
    BY <1>7, <2>2, <2>3, <2>4
<1>12. CASE RecordToolResult(p, q)
  <2>1. PICK a \in actions :
          /\ runs[q] # None /\ a.run = q /\ a.kind = "REQUEST_TOOL" /\ runs' = runs
          /\ pc' = [pc EXCEPT ![p] = Appending(EventOf(q, "TOOL_RESULT_RECORDED", a.id), "idle", now)]
    BY <1>12 DEF RecordToolResult, Enter, Go, files
  <2>2. PICK to : to = Appending(EventOf(q, "TOOL_RESULT_RECORDED", a.id), "idle", now)
    OBVIOUS
  <2>3. to.run = q /\ ~Cancelling(to) /\ Recording(to)
    BY <1>6, <2>2 DEF Cancelling, Recording, Appends
  <2>4. runs[q].status # "WAITING_APPROVAL"
    <3>1. autonomous
      BY <2>1 DEF HarnessInv, FilesInv, AllowedActions
    <3>2. \A e \in actions : e.kind \notin {"REQUEST_APPROVAL", "REQUEST_EFFECT"}
      BY <3>1 DEF HarnessInv, FilesInv, AllowedActions
    <3>3. ASSUME runs[q].status = "WAITING_APPROVAL"
          PROVE  FALSE
      <4>1. Written(q, settled[q]) /\ Outcome(settled[q].answer) = "WAITING_APPROVAL"
        BY <2>1, <3>3 DEF HarnessInv, FilesInv, Settled
      <4>2. PICK i \in DOMAIN settled[q].answer : settled[q].answer[i] \in {"REQUEST_APPROVAL", "REQUEST_EFFECT"}
        BY <4>1 DEF Outcome
      <4>3. [id |-> <<settled[q].invocation, i>>, run |-> q, kind |-> settled[q].answer[i]] \in actions
        BY <4>1 DEF Written
      <4> QED
        BY <3>2, <4>2, <4>3
    <3> QED
      BY <3>3
  <2> QED
    BY <1>5, <1>7, <2>1, <2>2, <2>3, <2>4
<1>13. ASSUME NEW n, RunWorker(p, q, n) \/ \E answer \in Answer : ApplyActions(p, q, n, answer)
       PROVE  Obeys(r)'
  <2>1. PICK to : /\ pc' = [pc EXCEPT ![p] = to] /\ runs' = runs
                  /\ \/ \E d : to = [ByHand(q, n, "worker") EXCEPT !.deadline = d]
                     \/ \E answer : to = [ByHand(q, n, "apply") EXCEPT !.answer = answer]
    BY <1>13 DEF RunWorker, ApplyActions, Enter, Go, files
  <2>2. to.run = q /\ to.at \in {"worker", "apply"} /\ to.hand = TRUE
    BY <2>1 DEF ByHand, Appending, EventOf
  <2>3. ~Cancelling(to) /\ Recording(to)
    BY <2>2 DEF Cancelling, Recording, Appends
  <2> QED
    BY <1>5, <1>7, <2>1, <2>2, <2>3
<1> QED
  BY <1>8, <1>9, <1>10, <1>11, <1>12, <1>13

\* Steps of no command.
LEMMA StillPeople ==
  ASSUME HarnessInv, NEW r \in Run, Obeys(r), UNCHANGED <<log, pc>>,
         runs'[r] = runs[r] \/ (runs[r].status = "RUNNING" /\ runs'[r].status = "BLOCKED")
  PROVE  Obeys(r)'
<1>1. (Cancelled(r)' <=> Cancelled(r)) /\ (EndsCancelled(r)' <=> EndsCancelled(r))
  BY DEF Cancelled, EndsCancelled
<1>2. \A p \in Invoker : Active(p, r)' => Active(p, r)
  BY DEF Active
<1>3. Cancelled(r) => runs'[r].status = "CANCELLED"
  BY DEF Obeys
<1>4. ASSUME NEW p \in Invoker, Active(p, r)'
      PROVE  Alone(pc[p], r)'
  <2>1. PICK c : c = pc[p] /\ c = pc'[p]
    OBVIOUS
  <2>2. Alone(c, r)
    BY <1>2, <1>4, <2>1 DEF Obeys
  <2>3. /\ runs'[r] # None /\ runs'[r].status = "WAITING_APPROVAL" => Recording(c) /\ c.hand
        /\ Cancelling(c) => runs'[r].status = "CANCELLED"
        /\ Cancelled(r)' => Cancelling(c) \/ Recording(c)
    BY <1>1, <2>2 DEF Alone
  <2> QED
    BY <2>1, <2>3 DEF Alone
<1> QED
  BY <1>1, <1>2, <1>3, <1>4 DEF Obeys

LEMMA PeopleStep ==
  ASSUME HarnessInv, PeopleInv, [Next]_vars
  PROVE  PeopleInv'
<1> SUFFICES ASSUME NEW r \in Run, r \notin overlapped'
             PROVE  Obeys(r)'
  BY DEF PeopleInv
<1>1. overlapped \subseteq overlapped'
  BY DEF Next, vars, Start, BeginStep, StopAtLimit, Resume, Cancel, RecordToolResult, Enter, AppendEvent,
         ProjectState, UpdateRunFile, CreateRun, RunCreated, ResumedStep, Invoke, WorkerFails, RecordInvocation,
         Apply, Finish, SyncCancelled, Die, WorkerAnswers, ClaimedElsewhere, Renewed, Released, Tick, ApprovalDecided,
         RunWorker, ApplyActions
<1>2. Obeys(r)
  BY <1>1 DEF PeopleInv
<1>3. ASSUME NEW p \in Invoker, NEW q \in Run, StopAtLimit(p, q)
      PROVE  Obeys(r)'
  <2>1. UNCHANGED <<log, pc>> /\ runs' = [runs EXCEPT ![q].status = "BLOCKED"] /\ runs[q].status = "RUNNING" /\ runs[q] # None
    BY <1>3 DEF StopAtLimit
  <2>2. runs'[r] = runs[r] \/ (runs[r].status = "RUNNING" /\ runs'[r].status = "BLOCKED")
    BY <2>1 DEF HarnessInv, RunsInv, RunFile
  <2> QED
    BY <1>2, <2>1, <2>2, StillPeople
<1>4. ASSUME \/ \E q \in Run : ClaimedElsewhere(q) \/ Renewed(q) \/ Released(q)
             \/ Tick \/ ApprovalDecided \/ UNCHANGED vars
      PROVE  Obeys(r)'
  <2>1. UNCHANGED <<log, pc, runs>>
    BY <1>4 DEF ClaimedElsewhere, Renewed, Released, Tick, ApprovalDecided, vars, files
  <2> QED
    BY <1>2, <2>1, StillPeople
<1>5. ASSUME NEW p \in Invoker,
             \/ ProjectState(p) \/ Invoke(p) \/ WorkerFails(p) \/ RecordInvocation(p) \/ Apply(p) \/ Die(p)
             \/ \E answer \in Answer : WorkerAnswers(p, answer)
      PROVE  Obeys(r)'
  <2>1. UNCHANGED <<log, runs>>
    BY <1>5 DEF ProjectState, Invoke, WorkerFails, RecordInvocation, Apply, Die, WorkerAnswers, files
  <2> QED
    BY <1>2, <1>5, <2>1, QuietPeople
<1> QED
  BY <1>2, <1>3, <1>4, <1>5, EnteringPeople, AppendEventPeople, UpdateRunFilePeople, WritingPeople DEF Next

\* A command given by hand is about to write the run file.
RecordsByHand(r) == \E p \in Invoker : At(p, "update") /\ pc[p].run = r /\ pc[p].hand

\* What a step does to a run that waits or that was cancelled.
LEMMA PeopleObeyedStep ==
  ASSUME HarnessInv, PeopleInv, PeopleInv', HarnessInv', [Next]_vars, NEW r \in Run, r \notin overlapped, runs[r] # None
  PROVE  /\ runs[r].status = "WAITING_APPROVAL" /\ runs'[r].status = "RUNNING" => approved \/ RecordsByHand(r)
         /\ runs[r].status = "CANCELLED" /\ Cancelled(r) => runs'[r].status = "CANCELLED"
<1>1. DOMAIN runs = Run /\ \A e \in Run : runs[e] # None => runs[e] \in RunFile
  BY DEF HarnessInv, RunsInv
<1>2. Obeys(r)
  BY DEF PeopleInv
<1>3. CASE runs'[r] = runs[r]
  BY <1>3
<1>4. CASE \E p \in Invoker, q \in Run : StopAtLimit(p, q) \/ Resume(p, q) \/ Cancel(p, q)
  <2>1. PICK p \in Invoker, q \in Run : StopAtLimit(p, q) \/ Resume(p, q) \/ Cancel(p, q)
    BY <1>4
  <2>2. CASE q # r
    BY <1>1, <1>3, <2>1, <2>2 DEF StopAtLimit, Resume, Cancel
  <2>3. CASE q = r /\ StopAtLimit(p, q)
    BY <1>1, <2>3 DEF StopAtLimit, RunFile
  <2>4. CASE q = r /\ Resume(p, q)
    BY <1>1, <2>4 DEF Resume, RunFile
  <2>5. CASE q = r /\ Cancel(p, q)
    BY <1>1, <2>5 DEF Cancel, RunFile
  <2> QED
    BY <2>1, <2>2, <2>3, <2>4, <2>5
<1>5. ASSUME NEW p \in Invoker,
             \/ UpdateRunFile(p) \/ CreateRun(p) \/ RunCreated(p) \/ ResumedStep(p) \/ Finish(p) \/ SyncCancelled(p)
      PROVE  /\ overlapped' = overlapped
             /\ \/ runs'[r] = runs[r] \/ runs[r].status # "WAITING_APPROVAL"
                \/ UpdateRunFile(p) /\ RecordsByHand(r)
  <2>1. PICK c : c = pc[p]
    OBVIOUS
  <2>2. c # Idle /\ overlapped' = overlapped
    BY <1>5, <2>1 DEF UpdateRunFile, CreateRun, RunCreated, ResumedStep, Finish, SyncCancelled, At
  <2>3. runs' = runs \/ \E v : runs' = [runs EXCEPT ![c.run] = v]
    BY <1>5, <2>1 DEF UpdateRunFile, CreateRun, RunCreated, ResumedStep, Finish, SyncCancelled
  <2>4. CASE c.run # r
    BY <1>1, <2>2, <2>3, <2>4
  <2>5. CASE c.run = r /\ runs[r].status = "WAITING_APPROVAL"
    <3>1. Recording(c) /\ c.hand
      BY <1>2, <2>1, <2>2, <2>5 DEF Obeys, Alone, Active
    <3>2. UpdateRunFile(p) /\ c.at = "update"
      BY <1>5, <2>1, <3>1 DEF UpdateRunFile, CreateRun, RunCreated, ResumedStep, Finish, SyncCancelled, At,
                              Recording, Appends
    <3> QED
      BY <2>1, <2>2, <2>5, <3>1, <3>2 DEF RecordsByHand, At
  <2> QED
    BY <2>2, <2>4, <2>5
<1>6. ASSUME NEW p \in Invoker,
             \/ UpdateRunFile(p) \/ CreateRun(p) \/ RunCreated(p) \/ ResumedStep(p) \/ Finish(p) \/ SyncCancelled(p)
      PROVE  /\ runs[r].status = "WAITING_APPROVAL" /\ runs'[r].status = "RUNNING" => approved \/ RecordsByHand(r)
             /\ runs[r].status = "CANCELLED" /\ Cancelled(r) => runs'[r].status = "CANCELLED"
  <2>1. Cancelled(r)' <=> Cancelled(r)
    BY <1>6 DEF UpdateRunFile, CreateRun, RunCreated, ResumedStep, Finish, SyncCancelled, Cancelled
  <2> QED
    BY <1>3, <1>5, <1>6, <2>1 DEF PeopleInv, Obeys
<1>7. ASSUME \/ \E p \in Invoker, q \in Run : Start(p, q) \/ BeginStep(p, q) \/ RecordToolResult(p, q)
             \/ \E p \in Invoker, q \in Run, n \in HandNumbers :
                  RunWorker(p, q, n) \/ \E answer \in Answer : ApplyActions(p, q, n, answer)
             \/ \E p \in Invoker : \/ AppendEvent(p) \/ ProjectState(p) \/ Invoke(p) \/ WorkerFails(p)
                                   \/ RecordInvocation(p) \/ Apply(p) \/ Die(p)
             \/ \E p \in Invoker, answer \in Answer : WorkerAnswers(p, answer)
             \/ \E q \in Run : ClaimedElsewhere(q) \/ Renewed(q) \/ Released(q)
             \/ Tick \/ ApprovalDecided \/ UNCHANGED vars
      PROVE  runs' = runs
  BY <1>7 DEF Start, BeginStep, RecordToolResult, AppendEvent, ProjectState, Invoke, WorkerFails, RecordInvocation,
              Apply, Die, WorkerAnswers, ClaimedElsewhere, Renewed, Released, Tick, ApprovalDecided, RunWorker, ApplyActions,
              vars, files
<1> QED
  BY <1>3, <1>4, <1>6, <1>7 DEF Next

\* Whoever runs commands, and whichever of them die: on a run on which no two commands were under way
\* together, waiting ends in running only with the approval or when a worker is recorded by hand, and a
\* recorded cancellation is final (run_agent_harness.py:141-166, run_worker.py:35).
THEOREM PeopleObeyed == Spec => PeopleAreObeyed
<1>1. Init => PeopleInv
  BY DEF Init, PeopleInv, Obeys, Active, Cancelled, Range
<1>2. HarnessInv /\ PeopleInv /\ [Next]_vars => PeopleInv'
  BY PeopleStep
<1>3. HarnessInv /\ HarnessInv' /\ PeopleInv /\ PeopleInv' /\ [Next]_vars =>
        [\A r \in Run : r \notin overlapped /\ runs[r] # None =>
           /\ runs[r].status = "WAITING_APPROVAL" /\ runs'[r].status = "RUNNING" =>
                approved \/ \E p \in Invoker : At(p, "update") /\ pc[p].run = r /\ pc[p].hand
           /\ runs[r].status = "CANCELLED" /\ (\E e \in Events(r, "RUN_STATUS_CHANGED") : e.tag[1] = "CANCELLED")
                => runs'[r].status = "CANCELLED"]_vars
  <2>1. \A r : (\E e \in Events(r, "RUN_STATUS_CHANGED") : e.tag[1] = "CANCELLED") => Cancelled(r)
    BY DEF Events, Cancelled, Cancellation
  <2> QED
    BY <2>1, PeopleObeyedStep DEF RecordsByHand
<1> QED
  BY <1>1, <1>2, <1>3, HarnessInductive, PTL DEF Spec, PeopleAreObeyed

=============================================================================
