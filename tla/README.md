# A TLA+ model of the production tools

This directory specifies and checks the part of agentic-art-production that keeps state:
the runtime that hands tasks to agents and records what they did outside, its event log, the
lifecycle of a production project and the acceptance of handoffs, the books of execution and
evidence, results and exports, the agent harness, the planner and its element-wise front end,
and the production memory. `PROJECT.json` lists the components, the runs, the hazards with
their lines in the code, and which lines each definition stands for.

## The system

A production project is a directory. An accepted handoff from upstream is materialised in
it; tools run one at a time from a command line or from an agent harness, and they
communicate only through files. Nothing stops two of them from running at once: each
component has a lock of its own, or none. Paths below are under `src/tools/`.

| component | state it keeps | operations | what is hard |
|---|---|---|---|
| runtime, tasks (`lib/runtime.py`) | `task_states`, `effects`, `approvals` of `production-state.json` | register the graph, claim, heartbeat, recover, retry, fail, complete, start and complete an effect, record an approval | leases that run out under their worker, late calls, effects whose outcome is unknown, approvals that lapse |
| runtime, log (`lib/runtime.py`) | `run-log.jsonl` (hash chain), `production-state.json`, the state in `manifest.yaml`, `.runtime.lock` | commit, replay, validate | death between any two writes, repeated calls, readers without the lock |
| lifecycle (`lib/lifecycle_guards.py`, `Runtime.transition`) | lifecycle events of the log, with the hashes of the records they stand on | one guard per transition, replay of all of them | a record edited after the transition it supports, detours over BLOCKED, two ways out of a terminal state |
| handoff revision (`lib/handoff_revision.py`) | handoff log, receipts, history snapshots, the whole project | accept a superseding handoff | copies the project and swaps it in, under a lock of its own |
| execution and evidence registers (`lib/execution.py`, `lib/evidence.py`) | two logs; five projections of the one, one of the other | init, record, replay | records cite another book, the plan and the approvals, which all change; a crash among five writes |
| result and export (`lib/result.py`, `build_result.py`, `export_result.py`) | result, completion report | build, reject, export | a builder takes no lock, reads five files in turn and writes two |
| agent harness (`lib/agent_harness.py`, `run_agent_harness.py`, `run_worker.py`, `apply_agent_actions.py`) | run log, run files, contexts, grants, invocations, actions | start, resume, status, cancel, replay, tool result; a worker or its actions by hand | only an append holds a lock; commands overlap, expire and die |
| planner (`build_plan.py`, `lib/planning.py`) | the plan | derive tasks, order, critical path, calendar, coverage; check; write | numbering, ties, statuses that nothing promotes later |
| plan elements (`plan_elements.py`, `lib/plan_element_driver.py`) | checkpoint, method file | start, answer, next, status | values sent back by a later judgement, giving up, a crash between two files |
| production memory (`production_memory.py`, `lib/production_reuse.py`) | a bare git repository and an index | init, ingest, query, remember-use | compare-and-swap, retries, plans that pin an old commit |
| prototype control (`build_prototype.py`) | `04_prototype/*`, change requests | build, rewrite | rewrites what events have pinned |
| project creation and bundles | the new directory | materialise an accepted handoff | only its outcome matters to the rest |
| release gate, evaluation, plan derivation, briefs, alignment, visual package, rendering, attestation and review, validation and schemas | none between calls (release: a checkpoint) | checks and pure functions over documents | - |

What makes each part correct:

- a task has one worker at a time, and what happened outside is never done twice behind
  one's back;
- a log is the truth: nothing shows more than it holds, and what was answered stays;
- a lifecycle state stands on the records it was granted for, and only a human leaves the end;
- what a book claims is backed by verified evidence, and a result claims no more than the books;
- the number of worker processes that steps start is bounded, a run ends with its step on record, and
  what people decide is obeyed;
- a plan that is written can be started and finished, and what it calls critical or covered is;
- knowledge is recorded once for its source, is kept, and a correction leads to its uses.

## Modules

| module | models | state |
|---|---|---|
| `TaskRuntime` | tasks, leases, effects and approvals of `Runtime`, one action per public method | `tasks`, `effects`, `approvals` are the projection; `epoch` counts accepted revisions; `clock` is real time; `poisoned` says that the log holds an event replay rejects |
| `ExclusiveExecution` | nothing in the code: what the runtime promises. A task has at most one attempt at a time, and an effect in doubt keeps it | owner, attempts, closed tasks, effects |
| `PlannedRuntime` | `build_plan` and the runtime together: the graph that is registered is that of the plan on disk | extends `TaskRuntime` and `Planner`; nothing of its own |
| `TaskRuntimeProofs` | - | theorems about `TaskRuntime`, among them that it implements `ExclusiveExecution`, and that `PlannedRuntime` is a behaviour of either part |
| `RuntimeLogProofs`, `LifecycleProofs`, `ProjectSwapProofs`, `AgentHarnessProofs`, `ProductionMemoryProofs` | - | theorems about the module so named |
| `ResultsProofs` | - | theorems about `Registers` and about `Results`, which extends it |
| `PlanningProofs` | - | theorems about `PlanElements` and `Planner` |
| `RuntimeLog` | the steps of one call: lock, replay and compare, check, append, replay, projection, manifest, unlock; crashes; readers | the four files, and the program counter of each process |
| `AtomicLog` | nothing in the code: what the log promises. A call adds its event at one moment, or finds it there, or is refused; a reader sees the store of one moment | the store, the phase and request of each process, what was answered and told |
| `Lifecycle` | `Runtime.transition`, `LifecycleGuardEvaluator`, `accept_handoff_revision`, and those who write the records | `log` (lifecycle events with pinned contents), `record` (the records on disk), `history` (snapshots) |
| `ProjectSwap` | `accept_handoff_revision` step by step (its lock, the copy, the rebuilt copy, validation, the two moves) against runtime calls, which resolve the project's path at every step | `dir` is the file system, `project` and `aside` are the paths that name directories in it; locks are held on directories |
| `Registers` | `ExecutionRegister` and the evidence register: init, record and replay, step by step, with crashes; the planner and the approval file change meanwhile | `log` of each book, `shown[file]` the number of events that a projection shows, `partial` a torn line, `holder` the locks |
| `Results` | `build_result` as the sequence of its reads, the judgement of the target, the two writes, rejection, rebuilding and export | extends `Registers`; `work` is a builder's place and what it has read, `result`, `report` and `bundle` are the files, `issued` is history |
| `AgentHarness` | the commands of the harness, and those that do part of a step by hand (`RunWorker`, `ApplyActions`), one step for each append, write and worker call, with expiry and crashes | `log`, the state file, `runs` and the other files, and what each invoker has in hand; `settled` is what the last step that ended a run had in hand |
| `PlanElements` | the commands of the element-wise engine, its schedule of elements, each round of `advance`, the judgement, giving up, a crash at any point of a call, hand-made edits | `ckpt` the checkpoint, `call` the one in the memory of the call under way, `disk` the method file |
| `Planner` | the plan of an accepted handoff as operators: tasks, numbers, order, critical path, calendar, coverage, the checks before writing | `handoff` and `calendar` are the inputs, `plan` the outcome |
| `ProductionMemory` | ingest, remember-use and index over the branch, and a project whose observations and result change | `commits`, `ref` the branch, `index`, the project's files, `receipts` the answers |
| `KnowledgeStore` | nothing in the code: what the memory promises. Versions in a row, each made of the last one by one operation that was judged by it | the versions, the one shown, the answers |
| `MC...` | the small instances | - |

### How they fit together

`TaskRuntime` takes each call as one step: `RuntimeLog!GuardedOnce` and `AnsweredIsDurable`
are the licence for that, since no call sees another between its check and its append, and what
it answered is in the log. `Lifecycle` asks replay only of a projection that matches the log,
for the same reason. A handoff revision appears in `TaskRuntime` by what it does to tasks, in
`Lifecycle` by what it does to the records, and in `ProjectSwap` by how it replaces the project;
there a runtime call is the one of `RuntimeLog`, without keys and guards. `RuntimeLog` itself
implements `AtomicLog`, which has neither files nor locks: that is the licence in one formula.

`Results` extends `Registers` with its whole next-state relation: a build is interleaved with every step
of every recorder. What `Lifecycle` reads of a result and a report (an id, a target, a content) is what
`Results` produces; that a READY report was judged (`ReadyReportsWereJudged`) is what makes the
comparison of hashes in the terminal guard worth something. `ProductionMemory` starts from such a result
and from observations of the execution book. `Planner` says which statuses, dependencies and approvals a
plan has; they are CONSTANTS in `TaskRuntime`. `PlannedRuntime` puts the two together: planning goes on
until the plan on disk says of each task what these constants say (`PlanIsLoaded`), and then the runtime
takes it up. Each of its behaviours is one of `Planner` and one of `TaskRuntime`. `PlanElements` makes
the method that the planner needs when there are no prototypes, and treats the planner's verdict on it
as an answer.

### What is abstracted

A hash is the content it is taken of, and content is reduced to what guards tell apart. Schemas,
URIs, sizes, wording and the security scan are left out.

- Time in `TaskRuntime`: a call carries its own `occurred_at`, which the runtime compares with
  expiries and windows but not with the log, and which the caller may have read before it
  waited for the lock. So an action takes any time at most `MaxDelay` old. In `AgentHarness` the
  clock only expires grants and leases.
- `Registers`: a projection is the number of events it shows. A refused call changes nothing and
  is no step.
- `Results`: what only the plan decides (scope, budget, measurements, risks) is the set of rules
  it leaves unmet. Deviations, incidents and change requests of a result are copied.
- `AgentHarness`: a worker's answer is the kinds of its proposals; a bad answer is no answer.
  `append` compares the stored payload with the caller's, which lacks the run id, so that a
  repeated key is always refused. A task that is done is one that nobody can claim any more, so it
  stands with those that are free. A command given by hand names the number of its invocation
  itself; the steps count theirs in the log.
- `PlanElements`: whether the criteria that name no element are met is one free choice. Tools of
  physical tasks are distinct. The first finish overwrites a method that others wrote after the
  start, as the code does. A call may finish the method several times before it saves, and may die
  after each; the exception after `max_attempts * 4 + 4` rounds is such a death, since it saves
  nothing either. People leave inputs and method file alone while a call is under way. A crash that
  leaves another method than the checkpoint's stops the run until somebody removes it.
- `Planner`: a handoff is in schema; budgets, risks and the other documents are left out. Tasks are
  their numbers, so names sort as numbers do (below a thousand tasks). The queue of the topological
  order is described by what it returns: the task that was freed first (`FreedAt`), and by name among
  those freed at once.
- `ProductionMemory`: a source is its observations in the order of the request: the code hashes the
  list, so the same observations in another order are another source. The reads of one command name
  one commit and are one step; the files of a project are read one after the other. A commit that
  loses the swap is not kept. The parent that a caller names is the head it reads; a plan may pin any
  old commit. A crash between the directory of the store and its first commit leaves one that no
  command accepts.

## Runs

| run | shows | bounds |
|---|---|---|
| `planned_runtime` | the safety of tasks, leases, effects and approvals (`TypeOK`, `UnresolvedEffectPinsTask`, `WorkedAfterDependencies`, `DoneIsClean`, `LeaseNotStolen`, `LateWorkerHasNoEffect`, `OutcomeIsFinal`, `EffectStartsApproved`), and the refinement; the critical path determines the calendar, written plans can start and finish, what is covered has a path | the planner: every dependency graph on three tasks with two mixtures of effects and statuses; two prototypes that share the numbering, with and without `TK004` taken; every way to connect two requirements with tests and prototypes; no prototypes, or prototypes that the handoff does not name; two calendars. The runtime takes up one of these plans: two tasks (one approved by a human, depending on the other), two workers, two effect keys, an approval and its revocation, clock 0..3, delay 1, leases of 1 and 2, two attempts, one revision. Enough for a rival claim after expiry, a late call, a retry, an exhausted task, a revocation after the claim, and a second graph with old effects |
| `task_progress` | `PlanDrains`: with workers that go on asking for the next task, a task ends, exhausts its attempts, waits for a gate or an effect in doubt, or is shut out by an exhausted task before it | three tasks: a draft, a publication that depends on it and on an approval which does not lapse, and a catalogue that depends on nothing and comes last, so that it may stand behind a task that is exhausted; one effect key, clock 0..2, delay 1, leases of 1, two attempts, one revision. Two lapsed claims exhaust the draft, which then shuts out the catalogue |
| `runtime_log` | what survives crashes, races and repeats (`GuardedOnce`, `AnsweredIsDurable`), a log that replay rejects is left alone by everybody (`CorruptLogIsLeftAlone`), every call returns or dies, and that the whole (four files, one lock, readers without it) is an atomic store (`ImplementsAtomicLog`) | two writers with two calls each, one reader, two keys, one body of each kind |
| `lifecycle` | states stand on their records (`TerminalIsSubstantiated`, `ProducedAsReadied`), the past is settled (`PastIsSettled`) | six events, one BLOCKED (resumed to PLANNING), one revision, plans that skip installation or are baselined, controls planned, waived, passed and failed, two result ids. Enough for a completion with a revision before or after it, or a reopening |
| `project_swap` | acceptances race each other and the runtime, fail and die: `OneContentPerRevision`, `AcceptedIsKept`, `SwapsInOneMoment`, `QuietAcceptanceLosesNothing` | one writer with two calls, two acceptors with one offer each (one that dies and one that tries again, or two rivals, or a revision after a revision), two contents of revision 2 and a revision 3, three directories at a time |
| `registers` | what was accepted is backed (`ClaimsAreBacked`), never makes its own log unreadable (`AcceptedStaysReadable`), and a torn book is left alone | two processes, 13 requests (an output, its quality results and evidence in several revisions, an installation, an observation and its successors, records to be refused), two plans, an approval, three events in each log. Three are enough for evidence, a PASS on it, and the output or a later revision that builds on the PASS |
| `results` | a completed result is backed by the logs although it was read file by file (`CompleteMeansVerified`), and a READY report was judged | one recorder with seven requests and four events, a planner that may run after them, one builder that builds PR001 for either target, again and again, one issued result besides, crashes of both. Four events are evidence, output, PASS, AVAILABLE or a revision that takes one back between two reads, and a PASS without evidence that was begun before there was a plan |
| `agent_harness` | steps bound the worker processes they start, a settled run has the proposals of the step that settled it on record and the status that they call for, people are obeyed where commands do not overlap | two invokers on one run, two answers (a tool request; a stop with an effect request), two steps, two invocations, a grant and a lease that expire, one number by hand (2, which a second step takes too). Eight events and two incidents (a death or a command by hand) as long as commands are apart, five and one once they have overlapped. Enough for two steps at once, a step against a cancellation, a worker by hand on a run that waits, a second settled step after an approval, and one that finds an invocation on file after a death |
| `plan_elements` | attempts are answers, outside changes stop the run, a run that is left alone ends | two media, one with a specification, a local and a physical task, one gap, two attempts, five elements that may be answered badly, one death, one edit |
| `production_memory` | answers are kept, sources are recorded once, uses are current or recalled, and the whole is a store that changes by one operation at a time (`ImplementsKnowledgeStore`): what a commit adds was new, next, unused and current in exactly the commit before it, an operation id stands for one payload and run, the index shows one version | two processes, four requests (a record, its correction by a further observation, and another name for the source of the correction, with its observations in either order), one content, two observation records, four commits, one death. Four are enough for an ingest, its rival or a use of it, and a correction after either |

Two runs refute what a document says (`findings` in `PROJECT.json` quotes it):

- `lost_in_swap`, with `AnsweredStaysInLog`. A runtime call that commits while an acceptance
  copies the project loses its event, though it was answered: each side has a lock of its own.
- `event_ahead`, with `CrashedEventIsProjected`. A process dies between the append and the projection,
  and replay goes on for ever (`RuntimeLog!FairSpec`): it compares and stops, in a reader and in a
  writer, and the projection is never brought up to the log.

### Bounds

Clock, attempts, revisions, calls, events, commits and snapshots are bounded in guards, by the constants
so named. `AgentHarness` bounds events and incidents twice, closer once commands have overlapped
(`Together`) than before (`Apart`): a run on which they take turns needs the longer behaviours, and
overlap has more of the short ones. The callers of its commands by hand choose among `HandNumbers`. In
`PlannedRuntime` the runtime takes up the first revision of one plan, whose contents its constants
describe, and from then on nobody plans. In `Lifecycle` a record is written only where a transition
reads it next or once an event has pinned it (`Needed`), and a document is left alone while replay
fails: an unpinned record that is written earlier, or a document that is edited and restored, leads to
the same states. Processes that are alike are interchangeable (`SYMMETRY`), except where a run checks
liveness. A project that can take no further event within its bound stops, so deadlock is not checked;
that nobody waits for ever is a liveness property instead.

### Fairness

- `TaskRuntime!FairSpec`: time passes, the graph is registered, and workers are diligent: they ask
  for the next task and claim what they are offered (`ClaimNext`), report their effects, complete or
  fail the task they hold, and somebody recovers expired leases. No code loops over these calls: the
  obligation is the one `docs/operations-runbook.md` puts on workers (line 96: a claim is kept alive
  and always ended with `complete-task`, `retry` or `fail`) and on operators (line 161: expired
  leases are recovered). Nobody is obliged to claim any other task than the one that `next-task`
  offers, as `run_agent_harness.py:90-94` does; an exhausted task is offered again and again, which
  shuts out those behind it (`ShutOut`). Nothing obliges a worker to act before its lease runs out.
  The clock of the instance ends, so at its last value leases no longer run out; `PlanDrains` speaks
  of what is left then.
- `RuntimeLog!FairSpec`: a live process goes on. Weak fairness of `Acquire` is enough since the
  number of calls is bounded, so that the lock is free for ever in the end; `flock` itself promises
  no more. Calls and crashes are never obliged to happen.
- `PlanElements!LiveSpec`: the caller starts the run and goes on answering the element that it
  is asked, well or badly, and a call that is alive goes on (`Advance`). The engine does nothing by
  itself; that is what its callers are there for. `RunSettles` concerns runs that are left
  alone in the end: an edit by hand stops the run until people undo it.
- The other modules have no liveness property: their steps are choices of people.

## Proofs

The theorems hold for every value of the constants that satisfies the assumptions of the module:
any number of processes, tasks, keys, requests, directories and revisions, and every bound. Each
assumption says what a schema or a caller grants, and TLC evaluates it on every run:

| module | assumes |
|---|---|
| `TaskRuntime` | `PlanAssumption`: the plan is a function on tasks, and ranks are distinct; `BoundAssumption`: attempts and lease lengths are positive, `NoHolder` and `Unused` are not data; `ApprovalAssumption`: approvals are records whose window is not empty |
| `RuntimeLog` | `BodyAssumption`: an operation looks at its key first, at its guard first, or has no guard; `ProcessAssumption`: `Nobody` is not data |
| `Lifecycle` | `LifecycleAssumption`: stages and targets are those that the schemas list |
| `ProjectSwap` | `ProcessAssumption`: a writer is not an acceptor; `DirAssumption`: there is a directory; `NoneAssumption`: `None` is not data |
| `Registers` | `PlanAssumption`: `None` is no plan; `RequestAssumption`: an output lists finitely many qualities, an observation names the kinds of source of its schema |
| `Results` | `TargetAssumption`: a build names one of the targets that the command line accepts |
| `PlannedRuntime` | those of `TaskRuntime` and `Planner`; `NumberAssumption`: each task has a number in the plan, the order by numbers is that of the ranks, and there are no earliest starts, since the planner writes neither these nor priorities |
| `AgentHarness` | `AnswerAssumption`: an answer is a list; `PolicyAssumption`: steps and seconds are counts; `NumberAssumption`: numbers given by hand and bounds are counts; `NoneAssumption`: `None` is no run file |
| `PlanElements` | `PlanElementsAssumption`: tasks, gaps and required specifications are lists, there is at least one attempt; `NoneAssumption`: no file and a file of others are no method of the engine |
| `Planner` | `HandoffsAssumption`: prototypes are lists of tasks that depend on tasks of their own prototype, one that validates the plan has a task, and there are finitely many mandatory requirements |

Every proof has the same form: an invariant that is inductive, one lemma for each action and each
part that the action can disturb, and then what the runs check as a consequence. The
properties alone are seldom inductive. What had to be added is the reason why the code works:

- **`TaskRuntime`** (`IInv`). Each call is one of eight kinds of step (nothing that matters,
  register, revise, give, renew, leave, begin, settle), each saying only what it does to tasks and
  effects; invariants are shown for kinds and not for calls. That an effect in doubt pins its task
  needs to know that a graph is registered as a whole and its tasks are fresh until then
  (`AllOrNone`), that no effect belongs to a revision yet to come (`EffectsOfThePast`), and that a
  running task has been claimed (`RunningWasClaimed`). Action properties follow from `IInv` and the
  kinds, except that those about time look again at the time each call has sampled.
  `FinishedForGood` (finished tasks stay finished, attempts only grow) is checked by no run.
  `EffectsStartApproved` needs no invariant but that the search for an approval (`Chosen`) finds the
  newest record of its id. For the refinement a lease, expired or not, is the ownership of an
  attempt; each kind is a step of `ExclusiveExecution` or leaves it unchanged. An UNKNOWN
  outcome is a stuttering step: the effect was in doubt before and still is.
- **`PlannedRuntime`** (`PlannedRuntimeIsBoth`). A step of the one part leaves the other unchanged, or in
  its initial state, so the theorems about `TaskRuntime` and `Planner` hold of it.
- **`RuntimeLog`** (`IInv`). Only the holder of the lock is past its check, and what it has replayed
  is the log until it appends (`LockIsHeld`, `CommitIsAt`). The projection is the log or misses its
  last event (`StateTrailsLog`), so that a state that matches the log has every answered event. That a
  corrupt log is left alone (`CorruptLogLeftAlone`) rests on the check that every call makes before
  it writes.
  Beyond the runs, `ProjectionTrails` says that replay accepts every state of the files and
  that no key is used twice.
- **`Registers`** (`RegistersInv`). A record that is accepted was grounded when it was checked, and
  stays so until its append although the other book moves: a log only grows, and what a record cites
  it cites with its revision (`LogIsGrounded`, `NextIsGrounded`). No projection shows more than its
  log (`ShownTrailsLog`).
- **`Results`** (`ResultsInv`). `RegistersAreShared` shows that every behaviour of `Results` is one of
  `Registers`, which hands over all of the above. What a builder
  has read of each file is in the log now, though no two files need show one moment (`SeesTheLog`), and
  every PASS up to its replay is verified (`Replayed`); what supports a complete result does not go away
  as logs grow. A report vouches for its target because the gaps of
  a result tell the target. Proving `CompleteMeansVerified` changed it: a recorder that began
  before the plan existed may append, as the first event of the execution book, a PASS that nobody
  checked against the plan, after the builder's replay and before it reads the quality file
  (`lib/execution.py:279`, `lib/result.py:579-584`). The property now names this case, and the
  instance of the run reaches it.
- **`ProductionMemory`** (`MemoryInv`). The branch is a chain (`BranchIsChain`), what a commit
  holds was added by it or by one before it (`AddedOnce`), and a command carries what fitted the commit
  it read, which the compare-and-swap shows to be still the last. Then a receipt is kept because
  everything after its commit contains it, and a use was
  current when it entered the branch (`UsesWereCurrent`). For the refinement the versions are the
  commits of the branch; the swap is the moment of an operation. Two records of one commit have
  different observations, the lists compared in order (`SourceKey`). What it adds besides is
  `HandsInv`: between its read and its swap a command holds an operation and a use that are new to
  the commit it has read.
- **`AgentHarness`** (`HarnessInv`, `CallsInv`, `PeopleInv`). `HarnessInv` says for each place of a
  command what it relies on there: from `Apply` on, that the proposals in hand are on file, then in the
  log, and that they are an answer, or none at all for an invocation that was found on file. That is
  what `SettledRunsAreRecorded` says once the step has ended the run. `WorkerCallsBounded` follows from
  an account: every worker process that a step has started has used up a step of its own, which no
  command by hand does, and the policy bounds the steps of a run in the log. `PeopleInv` is about runs
  whose commands did not overlap: there the run file, the log and the command in hand agree, only a
  worker by hand can be under way while a run waits, and the recorded cancellation is the last status.
- **`ProjectSwap`** (`SwapInv`). At every moment one directory, at the project's path or moved aside
  (`Main`), has a handoff log numbered without a gap, with everything accepted in it, and, as long as
  no call has overlapped an acceptance, every answered event. The copies of acceptances under
  way continue it. Two contents of one revision would be at one place of this log. The run has a single
  writer; the theorems have any number, so two calls that both hold a lock of the project, one
  from before the swap and one from after it, are covered by them.
- **`Lifecycle`** (`LifeInv`). Contents carry the revision they were written in: the revisable records
  on disk are of the current one and snapshots are of earlier ones (`EpochInv`), so a pinned hash that is not
  found on disk cannot be excused by history unless a revision came after it (`SettledInv`). The
  terminal state pins result and report of the current revision (`TerminalInv`). For
  `ProducedAsReadied`, the last entry of a production state lies behind the last entry of
  READY_FOR_PRODUCTION, and that behind the last one of PLANNING (`PathInv`), along a path without
  detours. `LifeInv` was checked with TLC on the instance of the run before it was proved.
- **`RuntimeLog` implements `AtomicLog`** (`LogIsAtomic`). The store is the projection
  `production-state.json`: replacing it is the moment at which an event takes effect. Until then a
  crash leaves a log that no call accepts, and after it the event is answered for. A reader takes
  its copy of the log before it compares it with a projection that it reads later; that the two agree
  shows that what it returns is the store of that later moment. The refinement is step by step: of
  the steps of a call only the write of the projection, the verdict on a repeat, the refusal and
  the return are steps of the store.
- **`PlanElements`** (`ElementsInv`). The answers received for an element are numbered from one without
  a gap, and the last number is the attempt of an element that is answered, and one less than that of an
  element that is asked (`Tidy`). This holds of the checkpoint and of the copy in the memory of a call,
  through every round of judging; two findings about one element count once, since the first takes its
  answer away (`plan_elements.py:237`). `OutsideChangesStopTheRun` needs that a call under way has found
  inputs and method file in order.
- **`Planner`** (`PlannerInv`). The invariant only says where the plan comes from; the theorems are
  about the operators. Orders, paths and ends are recursive functions of a number, and what holds at
  every number is shown by looking at the least one where it fails (`LeastNumber`, `AllNumbers`): the
  set of the numbers where it fails has a minimum. From it follow the recursion equations, that the
  numbering puts each task in one prototype and gives distinct names (`NumberingSound`,
  `PlanTasksGraph`), that the order has each task once and each after what it depends on (`PopOrdered`,
  `OrdersKeep`), and has all of them exactly if the graph has no cycle (`AcyclicOrderable`,
  `OrderableAcyclic`), that names of paths are totally ordered so that a best path exists and is a
  longest (`BestIsLongest`), and that the ends of the calendar are the minutes of the best paths
  (`BestTops`, `EndTops`). `CriticalPathIsLongest` speaks of all chains of dependencies of any handoff,
  not of those an algorithm has looked at.

Induction over numbers is therefore no obstacle here, as long as the induction hypothesis is a set:
the induction theorems of the library that take an operator are not used.

Only model-checked: liveness (`PlanDrains`, `CallsReturn`, `RunSettles`), which is out of the prover's
reach; and `lost_in_swap` and `event_ahead`, whose properties a counterexample refutes. Every other
property of a passing run is a theorem, for all values of the constants.

## Where code and documents disagree

Met while modelling. The models follow the code; only the one at `lib/runtime.py:354`
is a run (`event_ahead`; `lost_in_swap` is not in this list).

- `build_plan.py:1259` writes a task with dependencies as BACKLOG, and nothing promotes it;
  the design specification (line 33) has the runtime do that.
- `lib/runtime.py:635` offers a task that has no attempts left, and claiming it fails; the contract
  specification (line 372) excludes it. Whoever claims what is offered never comes to the tasks behind it.
- `lib/runtime.py:234`: a handoff revision forgets task states and keeps effects, so that a task with
  an UNKNOWN effect is given out again, against `docs/operations-runbook.md:96`.
- `lib/runtime.py:354`: a log one event ahead of its projection stops every call; the contract
  specification (line 360) has the projection repaired from the log.
- `lib/lifecycle_guards.py:415` compares the target of a resumption with the call's own
  `resume_state`, not with the blocker's (contract specification, line 301).
- `lib/lifecycle_guards.py:501`: completing the runs of a PLANNED control changes a record that
  earlier events have pinned (lines 193 and 217), and no later call replays.
- `lib/result.py:634` compares a result only with the one on disk: after a build under another id, or
  a REJECTED report that comes without a result, an id can be used again with other content, against
  `docs/operations-runbook.md:175` and `docs/schema-reference.md:63`.
- `lib/actionability.py:127-130` asks for the procedure of external tasks only: a plan whose local
  steps were given up is PLAN_READY and not INCOMPLETE, against `docs/plan-elements.md:50` and
  `lib/plan_element_driver.py:65`.
- `run_worker.py:35` runs an invocation whatever the status of the run. On a run that waits it appends,
  and `append` sets the run file back to RUNNING from the log (`lib/agent_harness.py:285-296`) without
  any approval; `docs/agent-startup.md:75` says that WAITING_APPROVAL stops until a human approves.
- `run_agent_harness.py:129` says "worker proposal recorded" of every step; one that finds a FAILED
  invocation on file (`lib/agent_harness.py:461-466`) has none, and ends the run as COMPLETE.
- `production_memory.py:238` tells sources by the hash of the list of observations: the same ones in
  another order are another source, and enter a second time under another record name.
- `run_execution.py:85-89` picks the method for `record-observation` and never calls it: from the
  command line an observation is not recorded.

## Not modelled

- What is pure: schemas, YAML, canonical JSON, rendering, briefs, alignment, visual package,
  budgets and risks. A hash is its content; a collision is not considered.
- The release gate: one process that runs a fixed sequence of checks and remembers which passed
  on which tree. Evaluation: a driver of the other components over fixtures. Plan derivation: pure,
  and no other file imports it. Attestation and review: checks of files by one process.
- `approval-register.yaml`, which guards and registers read, is only an input that changes.
- Of an acceptance: the contents of impact reports and change requests, and a `rmtree` that fails.
- Of the planner: the documents it writes beside the plan, and how much of an existing project a
  second run rewrites. `Registers` has its effect on records that cite the plan; the projection it
  rewrites is one that the log no longer matches, which stops every runtime call.
- `build_agent_context.py` on its own: it writes a context and a grant that no command of a run reads.
- Of the prototype control: all but what the guards read.
- `Runtime.bootstrap`, which writes the first projection of a project.

## Plan

Every safety property and every refinement that a run checks is proved. What could follow: the
guards of `TaskRuntime` in place of the abstract events of `AtomicLog`, so that the licence for
one-step calls becomes a refinement of the composed system; and the same for `Registers`, whose
two logs are not replaced but appended to.
