# Specifications of trans4mers

TLA+ specifications of the agent engine of trans4mers (`src/core`): what they
model, what TLC checks on small instances, and what the TLA+ proof system
proves for every instance. Definitions carry the names of the code where they
can; `PROJECT.json` maps each one to the lines it translates.

## 1. The system and its parts

trans4mers runs teams of LLM agents beside a desktop application. A person
sends messages; an *execution* of an agent answers them in a loop of steps
(ask the model, evaluate the policy, call a tool, record the result). State is
kept in one SQLite database per project, as rows and as an append-only event
log projected onto the rows in the same transaction.

| Part | State it keeps | Operations | Hard behaviour |
|---|---|---|---|
| Scheduler (`scheduler.rs`, `shutdown_manager.rs`) | two bounded channels, semaphore, per-project counters, running set, tokens, wake latch | queue, wake, cancel, shutdown; a task claims a slot, a permit, registers, boots, runs, cleans up | races between the loop and the tasks, leaks on early returns, lost notifications, starvation |
| Agent runtime (`agent_runtime.rs`) | step list and counters of a run | begin, claim, checkpoint, ack, think, ask, act, record, finish | crash between any two transactions, cancellation at any await |
| Inbox (`agent_inbox.rs`) | `inbox_messages.delivery_state` | queue, claim, ack, revert | at-least-once across crashes, shared by the executions of an agent |
| Checkpoints (`checkpoint_manager.rs`, `execution_repo.rs`) | one checkpoint row per execution | save, load with a generation check, prune | the generation in two tables, pruning of open executions |
| Recovery (`recovery_manager.rs`) | – | replay the log after the checkpoint, requeue, revert claims | volatile requeue, second crash |
| Housekeeping (`housekeeping.rs`) | the stalled list of a cycle | purge locks, prune, fail stalled, tiers, expiry | a list read in one transaction and used in another; timeouts against live runs |
| Approvals (`approval_engine.rs`, `approval_repo.rs`, `approval_commands.rs`) | `approvals` | request, resolve, expire, look up by hash | answer against subscription, lag, re-run |
| Advisory locks (`lock_repo.rs`) | `locks` | acquire, renew, release, purge | expiry and takeover |
| Delegation, completion, worktrees (`delegate_task.rs`, `complete_task.rs`, `git_workspace.rs`) | sub-agents, worktrees, branches, HEAD | delegate, inherit, commit, merge, clean up, report | merges against a HEAD that moved, two writers of one row, crash between five steps |
| Workflow engine (`workflow_engine.rs`) | runs, checkpoints, node states | start, run the graph, pause for a review, resume | answers racing the pause, failing events, crashes |
| Swarm (`swarm_orchestrator.rs`) | debates and fan-outs | debate, supervise, fan out, poll | permits held while talking, executions that change between polls |
| Policies and diff review (`policy_engine.rs`, `diff_reviewer.rs`) | policies, diffs | evaluate, propose, resolve | precedence of layers, two gates that do not know of each other |
| Cost guard (`agent_runtime.rs`, `cost_repo.rs`) | `cost_ledger` | read, compare, reserve, adjust | concurrent runs, midnight, failed calls |
| Memory (`memory_engine.rs`, `tier_promoter.rs`, memory tools) | memories in four tiers with validity | insert, replace, archive, search, promote, prune | look-up and write in two transactions, stale lists |
| Distillation (`distillation_engine.rs`) | a marker per conversation | read, ask for facts, store, move the marker | messages stored out of order |
| Automation (`scheduled_automation.rs`) | scheduled tasks | heartbeat, trigger, next run | late ticks, a trigger between two reads of a run |
| MCP client (`mcp_client.rs`) | pending requests, the stream | call, deliver, time out, reconnect | late, doubled and lost answers |
| Tool executor, registry, plugins (`tool_executor.rs`, `plugin_runner.rs`) | mounted tools, running calls | mount, forget, call | two executors of one project, dropped calls |
| Documents (`document_rag.rs`, `vector_migration.rs`, `document_chunker.rs`) | chunks, two vector stores | ingest, search, migrate, chunk | ingestion against migration |
| Model providers (`llm/*.rs`) | one reply | request, stream, retry | pieces of lines, broken streams |
| Project databases (`app_state.rs`, `migration_runner.rs`, `db_handle.rs`) | handles, the ledger of migrations | open, migrate, mount, read, write, delete | two openers, a kill inside a migration |
| Context of a run (`context_compactor.rs`, `context_engine.rs`) | history, summary, prompt | compact, assemble | interruption while steps are summarized |
| Browser spaces (`cdp_manager.rs`, `browser_space_manager.rs`) | Chrome, its profile, snapshots | act, snapshot, roll back, close | a rollback under the feet of other runs |
| Terminals, bridges, gateways, user interface | connections | requests | I/O with the outside |

They interact through calls of `Scheduler::queue` (commands, recovery,
delegation, automation, workflows), through the shared maps of the scheduler,
through the database, and through the event bus of a project, on which a run
waits for the answer to its approval.

The services of the second half of the table share tables with a run but no
variable of their models with one another, so each is a module that can be
read and proved about alone; where one touches another (a wake, a claimed
message, an approval, an execution's status), the module carries the other's
state as far as it is seen there and an action for each way it moves.

What makes them correct:

- *Scheduler*: permits and slots are conserved on every path; caps hold;
  waiting for a permit ends; a cancelled run ends; an execution runs once at a
  time; a wake is not lost.
- *Runtime, inbox, checkpoints, recovery*: no message is lost; the two copies
  of the generation agree; recovery arrives at no fewer steps than were
  recorded; a tool effect leaves a trace; recovered executions are started.
- *Housekeeping and control*: what stays 'Running' without a run is resolved;
  what waits for a person is not failed; what was killed stays stopped.
- *Approvals*: a tool that needs an answer runs only after that answer; the
  answer is not missed. *Policies and diffs*: what a layer denies does not slip
  through a combination of layers and capabilities, nor past a change that is approved
  by itself; the hunk that is read is the change.
- *Locks*: one holder per resource until expiry. *Delegation*: inheritance
  narrows; merged work stays merged. *Workflows*: a completed run has visited
  what its edges led to; nothing behind a review runs before it. *Swarm*: a
  verdict is about executions that had ended.
- *Cost*: the ceiling holds up to what single calls cost above their estimate.
  *Automation*: a task fires once per interval and its trigger is served.
- *Memory*: what was reported as remembered is found. *Distillation*: the marker
  passes only what was read. *Documents*: the backend that is asked has every
  vector; chunks cover a file. *Context*: no step is forgotten.
- *MCP*: an answer is for its call. *Tools*: what was mounted is what runs.
  *Providers*: an answer is one reply, whole and in order. *Databases*: a migration
  runs once. *Browser*: a denied call takes back no deed that its
  snapshot ought to have.

## 2. Modules

| Module | What it is |
|---|---|
| `Admission` | abstract specification: who owns a slot, who owns a permit |
| `Scheduler` | `scheduler.rs` with its users of permits; refines `Admission` |
| `SchedulerProofs` | theorems about `Scheduler` |
| `MCScheduler` | instance for TLC |
| `Execution` | the durable life of the executions of one agent in one conversation; refines `Durability` |
| `Durability` | abstract specification: from how many steps an execution goes on |
| `ExecutionProofs` | theorems about `Execution`: what is stored, and what replay makes of it |
| `MCExecution` | instances for TLC |
| `Approval` | how runs ask for consent and hear of it, and how the operator answers |
| `ApprovalProofs` | theorems about `Approval` |
| `MCApproval` | instance of `Approval` without answers for TLC |
| `Locks` | advisory locks under clocks that pass their expiry |
| `Delegation` | sub-agents, what they inherit, and the merging of their work |
| `Cost` | reservations, adjustments and ceilings |
| `Review` | policy precedence, proposals, hunks: pure functions of an input |
| `Automation` | the heartbeat and the runs it wakes |
| `Workflow` | runs of one workflow |
| `Swarm` | a debate, and dispatch with a report |
| `Memory`, `Distillation` | the memories of a project, and how conversations become memories |
| `Mcp` | one MCP client |
| `Toolbox` | executor, registry, mounting, plugin calls |
| `Documents` | the index and its two backends; the chunker |
| `Streaming` | one model call |
| `Database` | one project database |
| `Context` | the history of a run and its prompt |
| `Browser` | one browser space |
| `MCReview` | instance of `Review` for TLC that asks about the memory tools |
| `MCServices` | one instance of `Approval` and the sixteen service modules for TLC |
| `CoordinationProofs` | theorems about `Locks`, `Delegation`, `Swarm`, `Workflow`, `Automation` |
| `KnowledgeProofs` | theorems about `Database`, `Memory`, `Distillation`, `Documents`, `Context` |
| `ToolProofs` | theorems about `Mcp`, `Toolbox`, `Browser`, `Review`, `Streaming`, `Cost` |
| `ServiceProofs` | theorems about `MCServices`: the seventeen side by side |
| `DataLemmas` | least and greatest elements, sums, sequences, tables: what the proofs share |

### Scheduler

One variable per shared structure (`newQueue`, `wakeQueue`, `permits`,
`active` for `project_active`, `running`, `tokens`, `latch`), the place of each
spawned task (`pc`, `exec`), what the orchestrator loop is doing (`loop`), and
the shutdown signal with the tasks that can hear it. An action is one critical
section: the comparison of `running_executions` and the insertion into
`wake_latch` are two (`LoopNew`, `LoopLatch`); the comparison with the cap and
the increment are one, under the entry's lock (`ClaimSlot`), and the creation
of the waiter is another (`Park`). The six early returns of a booting task do
the same three things in the same order and are one action, `BootFails`,
followed by `BailSlot` and `BailPermit`. The run itself is what the scheduler
sees of it: `AskApproval` gives the permit back, `Reacquire` takes one again.
`Wake` has no caller in the program (its tests have); it is modelled because
the loop handles it.

### Execution

The project database (`status`, `generation`, `cp`, `inbox`, `log`), what time
has done to it (`stale`, `old`), the memory of the program (`phase`, `run`,
`queue`, `cancelled`, `stalled`, `sending`, `recovered`) and history variables
for the properties. An action is one transaction with the local steps around
it. `Crash` clears memory and leaves the database, in every state, also in the
middle of a recovery or of `send_message`. `log` keeps the events recovery can
tell apart. `Durability` has none of this: of an execution it knows whether it has a run,
whether it is said to be running, whether it was told to stop, and from how many steps it
goes on. The mapping (`Known`) reads that number where it is at the time: in the run
while there is one, in what replay of the log will come to if the program is down, in the
checkpoint otherwise. `queue` stands for a request in a channel, a task that waits, or a
latched wake; that the scheduler may drop or duplicate one is the subject of
`Scheduler`, and here an execution has at most one run at a time.

Abstracted: prompts, compaction, retrieval, the cost guard and the parsing of
answers (`Answer` and `Abort` choose among their outcomes); retries of a tool
are one call; database errors do not happen. `complete_task`, a tool that writes
rows itself, is in `Delegation`; the cost guard, the model call and the
history are in `Cost`, `Streaming` and `Context`.

### Approval

The tables (`status`, `asks`, `diff`, and `answer`, the last `ApprovalResolved`
of the log), the place of each run between a call and its effect (`run`), the
receivers of the event bus (`unread`, `lags`), and the commands of the operator
(`cmd`). `consent` and `torn` are history. An action is one transaction or one
access to the bus: a run looks for an approved row (`LookUp`), inserts its
request (`Request`), subscribes (`Subscribe`), reads the row (`Check`), and then
hears events (`Hear`) or that it has lost some (`Lag`); `resolve_approval` writes
the row (`ResolveRow`), commits the event and its projection (`CommitAnswer`)
and publishes (`PublishAnswer`). A receiver that falls behind keeps the newest
`BusCap` events and is told of the loss before it reads on, as
`tokio::sync::broadcast` does. Events of other parts of the program are
`Chatter`. `Propose` stands for the three tools whose diff is reviewed first;
the policy's answer is a choice (`Evaluate`), and so is the reviewer's
(`Small`). A crash drops memory and may fall between the two transactions of an
answer. Database errors do not happen, so a proposal always succeeds.

### Locks

`locks` is the table, one row per key; `lease` is what each holder was last
told, `clock` is `Utc::now`. Each operation of `LockRepo` is one transaction and
one action: `TryAcquire` deletes what has expired and then inserts or extends,
`Renew` and `Release` look at the holder only. `setBack` remembers that
the machine's clock went backwards, which is the only exception of the properties.

### Delegation

`agents` and `childStatus` are rows, `place` is where the delegation of an
agent, then its run, stands: worktree, transaction, request, run, and then the
steps of `complete_task` or of the end of a run (analysis of the merge, fast
forward or join, cleanup, report, wake), each of which a crash (`Outage`) can
separate from the next. A commit is named after its author and a branch is the set
of its commits, which is all a merge can be asked about; `Conflicting` says
which pairs git2 refuses to join. `ProjectAgentSpawned` is the second writer of
the row of a sub-agent.

### Cost

`ledger` sums the rows of an account (a provider with a project) per day.
`BUDGET_LOCK` covers reading the sums, comparing and reserving (`ReadSums`,
`Reserve`, `RefuseCall`) and not the call; `Adjust` books the difference. A
sum that cannot be read counts as zero and a row that cannot be written is
ignored, as in the code (`unread`, `unwritten`). `Midnight` may fall anywhere.

### Review

No state of its own: a step asks `Evaluate`, `Propose`, `Gate` or `HunkLines` about
one input. `EvaluateCapability` is the precedence of the layers, `Evaluate` the answer of
the policy engine for a tool, `Propose` that of the diff reviewer, and `Gate` the branch of
the runtime that puts the two together: a proposal that was approved by itself is allowed
without a question to the policy engine. Small patches and clean commands are approved by
themselves where a setting says so (`lenient`); a memory mutation of importance at most
0.5, which is an argument of the agent's, and a browser call that only looks need no
setting (`mild`). `HunkLines` is the longest-common-
subsequence table and walk of `compute_file_hunks`.

### Automation

`beat` is the heartbeat: the tasks listed at its tick, and which of the five
steps it is at for one of them (find or make the execution, commit the message,
ask for a run, advance the row). `mail`, `requests`, `latch` and `work` are the
inbox, the scheduler and the run of the target, which reads until the inbox is
empty and then leaves.

### Workflow

`flowRow` and `marker` are the row of a run with its checkpoint, `active` and
`doing` the memory of the task that walks the graph. `Enter` appends the
successors whose condition holds, once per edge; `ReviewNode`, `PauseRun` and
`ResolveReview` are the request, the pause, and the answer of a person that may come
between the two, or after another answer to the same review. Every event may fail to be stored (`EmitFails`).

### Swarm

A debate (`StartDebate` to `EndDebate`) holds a permit while two agents talk. A
supervisor or fan-out announces its tasks, makes an execution for each
(`SpawnWorkerExecution`), waits with a poll every 200 milliseconds (`Poll`) for
sixty seconds (`Timeout`) and reports. The executions run, claim, end, are
killed and restart beside it.

### Memory and Distillation

`rows` is `project_memories`; an `errand` is what a tool or the distiller has
looked up and will write in a later transaction. `promoter` holds the list of a
pass. Ages are classes (`new`, `settled`, `stale`) and an end is open, today or
past, because the text comparison with `datetime('now')` and the comparison with
a timestamp differ on the day itself. `told` is what agents were told is
remembered. `Distillation` reads batches after a marker; messages are stored in
another order than their stamps.

### Mcp

`pending` is the table of requests, `rpc` each task's call with what its oneshot
holds, `frames` what the server has sent. Delivery looks only at the id
(`Deliver`), a timeout removes the entry (`TimeOut`), a dropped call leaves it
(`DropCall`). `StreamBreaks` and `Reconnect` count the tries; over stdio the end
of the child is the end.

### Toolbox

`executor` names the current executor of the project and `boxes` the tools in
each that was made. `GetExecutor` and `InsertExecutor` are the look and the
insertion of `get_or_create_tool_executor`; `Connect` to `Finish` the command
that mounts a server's tools one by one. `CheckCalls` and `CountCall` are the
test and the increment of a plugin's counter, which are two accesses.

### Documents

Every await of an ingestion is a step: read the file and its hash, ask which
backend is active, store the rows with their vectors, write LanceDB. The
migration loads, copies, counts and switches. `missed` are the chunks that the code
itself leaves without a vector. The chunker is `Pieces`, a fold over the lines of a
file, checked against the definition of a cover; like the other folds of the
models it is a recursive function, which the prover can take apart.

### Streaming

`reply` is all the server will say, `arrived` how many lines of it have been read and
`cutOff` how many were cut off the buffer; `stalled` is the loop awaiting
bytes while lines are buffered. A line is the set of things the JSON holds;
`OpenAIYields`, `AnthropicYields` and `OllamaYields` are the order in which each
loop looks for them. `AskAgain` is the retry of the runtime.

### Database

`file` is the committed content of `project.sqlite`, `opening` where each caller of
`get_project_db` is, with the snapshot its transaction reads (`view`); SQLite's
write lock is taken at the first write and refused on a stale snapshot. `handles` and
`mounted` are `project_dbs`, `readers` and `pool` the connections.

### Context

`steps` is the history, `dropped` what was drained from it and is being
summarized, `saved` the checkpoint. The compactor counts tokens with a tokenizer
(`bpe`), the prompt with a quarter of the length (`est`).

### Browser

`sessions` is the entry of the space, `keeps` what each launched Chrome has in
memory only, `profile` its directory. A deed is a call reported as a success, by
its number. `BeginVisit`, `Launch`, `LockPage` and `Perform` are a call;
`TakeSnapshot`, `BeginRollback`, `CloseSpace`, `CloseEnds`, `ClearProfile` and
`CopySnapshot` are the snapshot before a question and the way back after a no.
The copy may fail, and the snapshot is recorded all the same. `displaced` and
`forfeited` name what closing a browser or restoring a snapshot may take away:
the property bounds the loss by them.

## 3. Runs

| Run | Instance | Shows |
|---|---|---|
| `scheduler` | 2 executions of 2 projects, 2 tasks, 1 debate, 1 permit, cap 1, channels of 1, 3 requests | type, `PermitConservation`, `SlotAccounting`, `ImplementsAdmission`, `PermitProgress`, `CancelledEnds` |
| `scheduler_duplicate`, `scheduler_latch`, `scheduler_wait` | 3 executions, 3 tasks | violated: see Findings |
| `execution` | 1 execution, 2 messages, 3 steps, 1 crash, 1 command or wait | type, `GenerationMatches`, `NoMessageLost`, `CrashForgetsNothing`, `EffectsAreLogged`, `OrphansResolved`, `ImplementsDurability` |
| `execution_recovered`, `execution_killed`, `execution_waiting`, `execution_pruned` | 1 execution | violated: see Findings |
| `approval_duplicate` | 1 execution, 3 calls, 2 approvals, no answers | violated: see Findings |
| `review_denied` | one capability of the memory tools, every table for it, every importance, no setting | violated: see Findings |
| `services` | `Approval` and each of the sixteen service modules by itself, see below | type and the 25 properties below |

The run `services` holds twenty choices of `turn`, each of which lets one
component move (delegation and its merging, tools and plugin calls, documents and
the chunker are taken apart) while the others keep their initial values. They
share no state, so the run explores the sum of their state spaces, about 650,000
states.

| Component | Instance | Properties |
|---|---|---|
| delegation | 2 sub-agents that delegate in their turn, 2 capabilities, 1 crash | `BoundedInheritance` |
| merging | 3 children, one pair in conflict | `MergedStaysMerged` |
| locks | 3 holders of 1 key, 2 times to live, 4 instants | `LeaseIsExclusive` |
| cost | 2 runs, 4 calls, 2 days, cap of two estimates | `CeilingHolds`, `LedgerBalances` |
| review | every policy table, proposal and effect; files of 3 lines of 2 kinds | `PolicyIsStrict`, `HunkIsTheChange` |
| automation | 1 task, 1 agent, 4 instants, 1 stop | `OncePerInterval`, `TriggerIsServed` |
| workflow | a fork to a task and to a condition with a review behind it, 2 runs, 1 crash | `CompletedIsWhole`, `ReviewComesFirst` |
| swarm | 3 tasks for 2 workers; a debate of 2 rounds | `VerdictIsFounded` |
| memory | 2 authors, 1 content, 2 rows, thresholds 1 and 2, 2 commands | `KnowledgeKept` |
| distillation | 4 messages, 3 stamps, batches of 2 | `MarkerPassesOnlyRead` |
| mcp | 2 tasks, 2 calls, 2 tries, 1 frame under way | `AnswerIsForCall` |
| toolbox, plugin | 2 tasks, 1 server and a plugin, 2 names of which one is native, 1 call at a time | `MountedToolsStay` |
| documents, chunker | 2 ingestions of 1 file, 2 versions; 4 lines | `ActiveBackendServes`, `ChunksCoverFile` |
| streaming | every reply of 3 lines of each provider, 1 retry | `ReplyIsWhole` |
| database | 2 openers, 2 migrations, a file at each version | `RanOnce` |
| context | 4 steps of 2 sizes, threshold 4 of 6 tokens | `NothingForgotten` |
| browser | 2 runs, 2 launches, 2 deeds and snapshots together | `DeedsAreKept` |
| approval | 1 execution, 3 calls (reviewed, automatically approved, not reviewed), 2 approvals, 2 commands, 2 answers, bus of 1 | `ActsWithConsent`, `RowFollowsLog`, `AnswerIsHeard` |

Bounds. With one permit, cap 1 and channels of capacity 1 every limit is
reached by two tasks and a debate: a full channel, a saturated project, a
contended permit. `MaxRequests` bounds what people ask, not what the system
does. The properties proved do not depend on these bounds. In `Execution`,
three steps let a run claim both messages and still act; one crash reaches every
pair of transactions, and the runs about recovery use two. One execution is enough for
TLC: that several of an agent share its inbox and its log is covered by the theorems,
which hold for any number. `MaxCommands` bounds cancels, kills, and waits of a
live run. Checkpoints grow old and are pruned under any execution, but in the run
`execution` not under one that has a run (`PrunesAtRest`): that loss is the finding of
`execution_pruned`, in which a day passes while every run waits. `Symmetry` is used only
in runs without liveness properties. In the
approval part of `services`, two commands can answer the same approval in opposite ways at
a time, or one after the other, and a bus of one event lags whenever two are published
before a read. One run is enough for TLC: runs of different executions share only the
supply of identifiers, and the theorems hold for any number. Identifiers and commands are
interchangeable, so the lowest that is free is taken; that is a choice of names and not a
bound.

In `services`, `MaxOps` bounds what people do (twice that many calls in the cost
and tool instances), `MaxStops` the crashes of a component, `MaxClock` the
instants, `MaxId` the rows of memory, `MaxPieces` the lines of a file and
`MaxMail` the messages of a worker. Two actors suffice for each race that was
looked for, because every critical section is a single transaction or access and
each property relates an actor to the shared state or to one other; locks and merging
have three, for a takeover seen by a bystander and for a merge between the analysis
and the join of another. Actors are interchangeable, so the lowest that rests begins
first (`LowestFirst`), which is a choice of names and not a bound. The small
thresholds of memory, documents and context are reached within the bounds.

Deadlock is checked in the scheduler runs (an idle scheduler still debates);
it is not checked in the execution runs, which stop when the messages are
answered and the bounds are used up. `services` stops when a
component has used up its bounds, and `review_denied` after its one question. A run that
waits although it has its answer is what `AnswerIsHeard` excludes.

Fairness. `Scheduler`: the tokio runtime polls every ready task and the loop
(weak fairness); the semaphore is first-in first-out, so an acquirer is served
if permits keep coming back (strong fairness of `AcquirePermit`, `Reacquire`
and `DebateAcquires`); a run has at most 25 steps and so does not ask for
approvals for ever (strong fairness of `FinishRun`). Nobody has to queue, cancel
or answer. `Execution`: the housekeeper ticks every 60 seconds, time passes, and
the program is started again. Nothing is assumed of runs, models, tools and
people. `services`: for approvals, the runtime polls a run that has something to do
(`RunStep`) and a command that was given (`CommandStep`), see `RunsAreServed`; no other
property of that run needs fairness. The model, the tools, other
publishers and the operator may stay silent for ever.

## 4. Proofs

`SchedulerProofs` proves, for any finite sets of tasks and debates, any
executions and projects, and any positive limits (`SchedulerAssumption`):

- `TypeCorrect`: `Spec => []TypeOK`;
- `PermitsConserved`: `Spec => []PermitConservation`;
- `SlotsAccounted`: `Spec => []SlotAccounting`;
- `SchedulerImplementsAdmission`: `Spec => ImplementsAdmission`.

The argument: the permits that are out are counted by the set `PermitHolders`
and the slots by `SlotHolders`, both functions of where the tasks are. Each
action moves at most one task, except a release, which also moves waiting tasks
that own nothing. So each set gains or loses one element exactly when the
counter does; the lemmas on cardinalities do the rest. `TypeOK` is what makes
the conservation inductive: a task that is not free has an execution, and so a
project. The cap needs the equality of `SlotAccounting`: it is the comparison with
`active` that guards `ClaimSlot`, and the equality that carries it over to the
set. The refinement follows from the two: each step adds or removes one owner,
within the bounds of `Admission`, or stutters.

`ExecutionProofs` proves, for any executions, messages and bounds:

- `GenerationsMatch`: `Spec => []GenerationMatches`;
- `MessagesKept`: `Spec => []NoMessageLost`;
- `EffectsLogged`: `Spec => []EffectsAreLogged`.

Its invariant `IInv` adds two things to these properties. `ClaimsHeld`: a run
holds in memory the message it has claimed until it has acknowledged it, holds
every message of its checkpoint, and has saved before it acknowledges, so that a
claim or an acknowledgement never is the only copy of a message. `Shape`: the
rows and runs are functions and records, which the proofs of the updates need.
`GenerationMatches` is inductive with them, because every transaction that writes
one copy of the generation writes the other. Nothing here restricts pruning.

`EffectsLogged` has an invariant of its own, `EffectsInv`: only a run about to record
its step has an effect to record, so a run that ends otherwise (cancelled at the loop,
failed by the model, cut while it acts) leaves none behind. The bound moves with the
run: its effect counts until the step is logged, and a crash or a cancellation counts
one from then on in place of the run it ends.

`ApprovalProofs` proves, for any executions, calls, identifiers and commands and
any positive capacity of the bus (`ApprovalAssumption`):

- `TypeCorrect`: `Spec => []TypeOK`;
- `ConsentBeforeAct`: `Spec => []ActsWithConsent`;
- `RowsFollowLog`: `Spec => []RowFollowsLog`.

`ActsWithConsent` is not inductive: a run learns of a yes from the table before
it asks, from the row after it has subscribed or lagged, and from an event. The
invariant `CInv` says that each of these tells the truth: an approved row, a yes
in a command and a yes in an unread event stand for an approval in `consent`
(`TableTrue`, `CommandsTrue`, `EventsTrue`), and the approval a run has asked
for is for its own call (`RequestsTrue`). The last needs that the identifier a
proposal has reserved is still unused when the request is inserted, and is
reserved by one run only (`IdsReserved`). `RowFollowsLog` needs the same: only
then is the approval that a request makes 'Pending' one without an answer in
the log.

The second part of `ExecutionProofs` adds what needs the arithmetic of replay:

- `ExecutionTypes`: `Spec => []TypeOK`;
- `CrashesForgetNothing`: `Spec /\ [][PrunesAtRest]_vars => []CrashForgetsNothing`;
- `RunsAreDurable`: `Spec /\ [][PrunesAtRest]_vars => ImplementsDurability`.

`ReplayTotal` is a recursive function over the log. Lemmas give it what an induction
over data would: that it exists and is a natural number (`CountsExist`), that it only
grows, that a longer log or a later checkpoint on the same log reaches no less. With
these, three facts are inductive. `ReplayReaches`: replay of the log over the checkpoint
arrives at no fewer steps than a run that is live has recorded; every transaction that
records a step keeps it, because it appends the step's event with its number or stores
its count in the checkpoint, and what others append to the shared log only adds.
`Unsaved`: a run whose execution has no checkpoint has recorded nothing yet; without a
checkpoint recovery writes no count at all. `DeadAreStill`: there is no run while the
program is down. The hypothesis `PrunesAtRest` is the exact point at which the code breaks
the promise; `execution_pruned` is the counterexample without it.

`RunsAreDurable` says of every step what `CrashForgetsNothing` says of the states a crash
may come upon: a step of the program begins or ends a run, adds one to what it goes on from,
or leaves that number alone, and only three kinds of steps take from it. A run that is told
to stop leaves without saving, and a crash does not recover an execution that was closed
under its run; both lose one step at most. Pruning forgets what does not run. That bound is the strengthening this proof
needs (`CheckpointFollows`): a live run is ahead of its checkpoint by one step and no
more, because every turn of the loop saves before it acts. The crash step is where
`ReplayReaches` is used, the restart where replay and the count that recovery writes are
shown to be the same number.

`CoordinationProofs`:

- `LocksAreExclusive` (`LeaseIsExclusive`), for any holders, keys and times to live.
  Exclusion between what two clients believe is not inductive, because the table is what
  connects them: `LeaseIsBacked` says that whoever believes in a lease is the holder of
  the row, with an expiry no earlier. The deletion of expired rows keeps it because a
  row that a belief rests on has not expired; a foreign acquisition because the row is
  then not its own.
- `InheritanceIsBounded` (`BoundedInheritance`), for any agents and capabilities.
  `RowsInv` adds that who runs has a row and who was not delegated to has none
  (`RowsFollowPlaces`), that what is scheduled has a row (`ScheduledExist`), and that an
  agent's parent has its row before it (`ParentsExist`); so the capabilities that bound a
  sub-agent are never written again.
- `MergesAreKept` (`MergedStaysMerged`). `MergeInv` adds that before a fast-forward the
  branch contains the HEAD that was looked at, and before either merge the agent's own
  commit, and that a branch has no commit outside the main line other than its own; a
  join is safe because git2 compares HEAD, a fast-forward only while no other one has
  overtaken it (`overtaken`).
- `VerdictsAreFounded` (`VerdictIsFounded`), for any tasks and workers. The counter of a
  poll says how many executions it has seen ended, and only a set of that many elements
  is all of them: `FS_Subset` and `FS_Interval` do the rest.
- `CompletedRunsAreWhole` (`CompletedIsWhole`) and `ReviewsComeFirst` (`ReviewComesFirst`),
  for every graph. `FlowCounts` balances the books of `process_dag`: a node was started as
  often as it was entered, less the times it waits in the active list, and a task asked
  for an agent as often as it was started, less the node the engine is at. A completed
  run has an empty list. `Entered` gives every entry an edge and, behind a review, an
  answer.
- `TriggersAreServed` (`TriggerIsServed`) and `TasksFireOncePerInterval`
  (`OncePerInterval`, a property of steps), for any tasks and intervals. `ListIsDue`: what the
  tick listed was due at the `now` of the tick and is not listed twice; `FiredWaits`: a
  task that has fired is due an interval later, or is the one about to be advanced.

`KnowledgeProofs`:

- `MigrationsRunOnce` (`RanOnce`) and `MountedHasSchema` (`MountedIsMigrated`, which no run
  checks by itself), for any openers, migrations and pool. `DatabaseInv`: a migrating
  transaction sees all of its steps so far, no less than the file if it holds the write
  lock and no more if it does not (`ViewFits`), the lock's holder is migrating
  (`WriterMigrates`), and who is about to mount without an error does so on a file with
  all migrations (`MountFits`).
- `ToldKnowledgeIsKept` (`KnowledgeKept`), for any authors, contents and thresholds. An errand
  writes what it looked up in an earlier transaction. `ErrandHolds`: the row it found, if it
  is still there, has the content it looked for, and the row it will write can be
  retrieved; `IdsAreFresh`: nobody else writes under its id or looks at it.
- `MarkersPassOnlyRead` (`MarkerPassesOnlyRead`), for any batch size and stamps.
  `BatchIsNext`: no message that is stored in time lies before the end of a batch without
  being in it; `EqualStamps`: two messages with one stamp both count as late.
- `SearchIsServed` (`ActiveBackendServes`), for any files, ingestions and migrations.
  `MigrationCovers` says at each step of a migration where the vector of an embedded chunk
  is: among the loaded ones, in the target, or missed.
- `ChunksCover` (`ChunksCoverFile`), for every file and ceiling: each prefix of the scan has cut
  pieces that follow one another up to the piece begun, which is within the ceiling.
- `NothingIsForgotten` (`NothingForgotten`), for any window and `Preserve`. `Told` says of the
  history and of the checkpoint that each step is in one entry (`Covers`, `Apart`) and the
  newest are single, in order and last (`NewestLast`); the last is what shows that the
  compaction, which takes from the front, spares them.

`ToolProofs`:

- `AnswersAreForCalls` (`AnswerIsForCall`) and `PendingIsBounded` (`PendingHasCaller`), for any
  tasks. Ids are never used twice and every frame but a server's own request carries the id
  of the call it is for (`CallIds`); what a oneshot holds was delivered while its id was
  pending, and then the id is not pending any more (`HeldByCall`).
- `MountedToolsAreServed` (`MountedToolsStay`), for any tasks, servers and names: who holds an
  executor that is not the project's holds one that lost a race or was forgotten, and who
  makes one saw none (`HoldersKnow`).
- `DeedsAreNotLost` (`DeedsAreKept`), for any runs of a space. While a snapshot is restored
  nothing need be where it was. What was due in a snapshot is in it or was forfeited
  (`SnapshotsHold`), and every browser that was launched is the space's or displaced
  (`NoneIsLost`), because who launches one had seen none.
- `ThePolicyIsStrict` (`PolicyIsStrict`), for every manifest and table: what a capability is
  answered depends on which layers say what (`DecidedByLayers`), what a tool is answered on
  the answers for its capabilities (`DecidedByPolicy`), and a row that is added or made
  stricter raises the one (`StricterLayer`) and with it the other (`StricterPolicy`). It is
  about the policy engine alone. That the runtime always asks it is false:
  `review_denied`.
- `HunksAreTheChange` (`HunkIsTheChange`), for files of any length. A cell of the table is the
  most pairs a common part of the two prefixes has (`TableIsLongest`), because a part either
  ends with both last lines or avoids one of them; the walk back from a cell makes both
  prefixes with i + j - 2 * cell changed lines (`WalkIsRight`). Both are inductions over the
  cells by i + j.
- `RepliesAreWhole` (`ReplyIsWhole`), for every provider, reply and number of attempts. Each
  line of text cut off so far is collected, in order and of this attempt, or hidden by what
  the loop looks for first, and a stalled loop last took a line that yields nothing
  (`Reading`); so what is missing at the end came after such a line, or after the end.
- `LedgersBalance` (`LedgerBalances`) and `CeilingsHold` (`CeilingHolds`), for any callers,
  accounts, days, caps and estimate. The sums a caller read under the lock are still the
  ledger's when it reserves, but for what adjustments have added, and the overrun counts
  that (`Seen`). A month is a sum over days; `SumToChange` of `DataLemmas` says what one
  entry does to it.

Each of these theorems that has the component's type invariant in its statement
proves it, too. Three type invariants are more than a part of another proof:

- `SwarmTypes` needs where a command is: a task is dispatched only while `next` is one of
  them, and a debate's round is one of its rounds until the judge speaks (`CommandCounts`);
- `ContextTypes` takes from `Told` that no step is numbered beyond the total, and adds that
  no checkpoint is ahead of its run. What is sent to the model is computed by recursive
  functions over sequences; `StaysIn` of `DataLemmas` is the induction that types them
  (`SumType`, `FlattenType`, `NewestType`, `ExtrasType`);
- `StreamingTypes` adds that an attempt that may be made again is not the last, and that
  a delta comes from a line of the reply, or from the one that is not closed, which is
  there when the loop hands out something at its end.

`ServiceProofs` puts the seventeen together, as `services` runs them:

- `ServicesRunAlone`: `MCSpec` implies each component's own specification. A step of the
  run is a step of the component whose turn it is and leaves all others alone; the moves
  that `MCServices` chooses for it (`MemoryMoves`, `MergingMoves`, `Questions` ...) are
  among the component's. So every theorem above about a service is one about that run.
- `ServicesAreTyped`: `MCSpec => []TypeOK`, from the former and the types of each.
- `ServicesAreSafe`: every invariant and the action property of the run `services`, of
  `MCSpec`: what TLC shows of the instance holds for any number of agents, callers, files,
  messages and rows, in whatever order the services move.

`DataLemmas` replaces the induction theorems of the library, which take
an operator: a property of all numbers is a set of numbers that contains 0 and each
successor (`SetInduction`), a recursive function is shown to exist by building it
up to each bound (`RecursionExists`), and what it computes is read off its equation.
`CellInduction` and `TableExists` are the same two facts for tables of two indices.

Only model-checked:

- the liveness properties `PermitProgress`, `CancelledEnds`, `AnswerIsHeard` and
  `OrphansResolved`: fairness and ENABLED are out of the prover's reach. Every other
  property that a passing run checks is stated by a theorem;
- `CrashForgetsNothing` and `ImplementsDurability` when a checkpoint is pruned under its
  run: there they are false (`execution_pruned`), and the theorems exclude it
  (`PrunesAtRest`).

## 5. Findings

Each is a run that TLC ends with a counterexample of the code's behaviour.

1. `NoDuplicateRun`: two requests in the channel start two runs of an execution.
2. `LatchIsDrained`: a latched wake can be left behind.
3. `WaitsOnlyAtCap`: a released slot can go unnoticed by a task about to wait.
4. `RecoveredIsScheduled`: after a second crash a recovered execution stays
   'Queued'.
5. `KilledStaysStopped`: a queued execution starts after it was killed.
6. `WaitingIsNotFailed`: a run that waits for a person is marked failed.
7. `CrashForgetsNothing` without `PrunesAtRest`: a checkpoint pruned under a run that
   has waited for a day leaves a crash nothing to replay from.
8. `PendingIsReused`: a run that left while its approval was pending asks for
   the same call again; the operator sees two cards, and answering the older one
   wakes nobody.
9. `DeniedIsBlocked`: a layer denies the capability of a memory tool, the agent gives its
   memory an importance of at most 0.5, and the call goes ahead: a change that the diff
   reviewer has approved by itself is not put to the policy engine
   (`agent_runtime.rs:985-990`, `diff_reviewer.rs:144-146`). `PRD.md:75` says that a request
   is blocked if any layer denies, and `policy_engine.rs:60` that a denial always wins.

Noted while reading, without a run: `expire_old_approvals` has no caller, though
`ARCHITECTURE_DECISIONS.md:109` says that housekeeping expires stale approvals; a
crash between the two transactions of `resolve_approval` leaves a resolved row
with no event (`RowFollowsLog` exempts it as `torn`); `resolve_action_diff`
publishes an event that it does not commit; the decisions on single hunks are
stored and not applied; the diff of a call that an earlier approval covers stays
'Pending'; replay counts a message and an approval as
steps, so a recovered run has fewer steps left than the dead one; `Failed` is
documented as retried by recovery (`state.rs:20`) and is not; a tool runs before
its event is written (`VIRALITY_PLAYBOOK.md:100` says after), which
`EffectsAreLogged` bounds; a crash between the final checkpoint and the reply
leaves a completed execution without an answer.

Exceptions that the properties name are behaviours of the code, too. Found while
modelling the services:

- *Delegation*: the scheduler passes the project's path as the override
  (`scheduler.rs:350-377`, `agent_runtime.rs:733`), so a child never works in its
  worktree (`ARCHITECTURE_DECISIONS.md:83` says it does). `complete_task` cleans the
  worktree after a conflict, too (`ARCHITECTURE_DECISIONS.md:85`); the end of a
  run merges without committing and then wipes. A fast-forward writes HEAD without
  looking at it again (`git_workspace.rs:262-285`): `overtaken`.
- *Cost*: ceilings called global are compared with one provider's sums in one project; the
  estimate of a failed call is never given back (`unanswered`).
- *Policies*: a change that is reviewed is not put to the policies at all, also when a person
  is asked about it; where no row answers, a person is asked, although
  `GOVERNANCE_AND_SECURITY_ARCHITECTURE.md:97` promises that effect class and risk decide
  then; the only writer of the table is a migration, and one seed (`MessageSend`) matches
  no capability.
- *Automation*: intervals of minutes, hours and days are parsed as seconds; the default
  target `orchestrator` is not the id of an agent; a message that comes while a
  wake is latched has no request of its own (`hushed`).
- *Workflow*: resuming inserts the run's row again, so an approved review fails its run; a
  node that two edges lead to runs twice; a review that is answered before the
  row is 'Paused' leaves the run paused; nobody resumes a run after a crash.
- *Swarm*: an execution whose message another one of the same worker has
  claimed runs without a task; 'Cancelled' is never written; a kill marks completed
  executions 'Failed'.
- *Memory*: distilled rows stay candidates and are never retrieved, yet they count as
  twins of a new content; a scope without owner is never retrieved; concurrent
  replacements fork a row. *Distillation*: a message stored late, or with the stamp of the
  boundary, is never read (`lateSent`); a fact that could not be stored is passed over.
- *MCP*: a request of the server with a pending id is taken for its answer (`to = 0`);
  the 30 seconds of `rpc_call` (`mcp_client.rs:600`) do not cover the sending; dropped
  calls stay pending; a piece that is not UTF-8 takes its frame with it.
- *Tools*: revoking or deleting a server leaves its tools mounted; a server's tool
  of a native name replaces it; calls dropped with their runs stay counted
  (`abandoned`), and three of them block a plugin.
- *Documents*: LanceDB keeps the vectors of chunks that were replaced, after which the
  count of a migration fails; a chunk stored without a provider never gets a vector; a
  migration that overlaps an ingestion misses its chunks (`missed`).
- *Streaming*: after a line that yields nothing the loop awaits bytes although lines are
  buffered (`openai.rs:206-305`, `anthropic.rs:313-395`, `ollama.rs:209-366`), and loses
  them when the body ends (`Silent`); a chunk with `"usage": null` hides its text
  (`openai.rs:228`); all tool calls of Ollama have index 0 (`ollama.rs:273`).
- *Databases*: two first callers open two handles; an error of the migrations is ignored
  and the handle mounted (`unmigrated`); a caller may mount a project that was
  deleted meanwhile.
- *Execution*: a run that was cancelled returns at the loop without a checkpoint
  (`agent_runtime.rs:69`), so the next run of the execution starts from the older one and
  the last step is forgotten, though `docs/VIRALITY_PLAYBOOK.md:149` says that it can be
  "interrupted, checkpointed, and resumed seamlessly" (`Durability`'s `Stop`).
- *Context*: what was drained for a summary is lost with a cancelled run except for its
  checkpoint; a prompt may begin with a result without its action; a system prompt that is
  too long drops the whole history.
- *Browser*: a denied call restores the profile for all runs of the space and closes their
  browser; a snapshot whose copy failed is restored as if whole
  (`browser_space_manager.rs:228-236`); "file locks are released" before the
  restoration does not hold if another call launches Chrome in between; two first
  calls launch two browsers.
- Not in any model: `nightly_dreaming.rs:26-67` holds a shard of `project_dbs` over the
  await of a model; a task spawned after the shutdown signal never sees it
  (`scheduler.rs:156`, in the model, nobody promises otherwise); four unanswered
  approvals keep the four slots of a project (`scheduler.rs:166`); a duplicate run's
  cleanup removes the token of the other (`scheduler.rs:381`).

## 6. Plan and what is not modelled

Done: the scheduler, the execution, approvals, and the sixteen service modules above.
What would add most next:

1. a composition of `Execution` with `Context`, in which recovery replays events into a
   history that was compacted;
2. abstract specifications of consent (for `Approval`), of a schema (for `Database`) and of
   a budget (for `Cost`), whose properties are proved here of the detailed modules.

Not modelled: the non-streaming calls and the listings of providers, embeddings, the HTTP
and git clients, terminals, the desktop commands that are one row each, and the user
interface, which are requests with no state of their own; `deep_research.rs`,
`nightly_dreaming.rs` and the bridge and inspector of MCP, sequences of external calls
with one write at their end; the Telegram gateway, which `main.rs:162-166` starts and which
is off in the default configuration: a message of a chat takes the steps of `send_message`,
which `Execution` models. Ranking (BM25,
vectors, fusion) is modelled only as far as it leaves nothing valid out. A queued
request is dropped when its channel is full and no document promises more, so the model
does so without a property.
