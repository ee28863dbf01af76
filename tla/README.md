# Verification of the beddel workflow engine

Beddel runs declarative AI workflows: a workflow is a list of steps, each step
calls a primitive (an LLM, a tool, another workflow), and an executor takes the
steps through conditions, timeouts, retries, fallbacks, budgets and circuit
breakers, one after the other, in parallel groups, or durably with an event
store. This directory holds TLA+ models of that engine, the TLC configurations
that check them on small instances, and TLAPS proofs of properties that hold
for every workflow, provider and budget. Paths below are relative to
`src/src/beddel/`.

## 1. The system

| Component | State it keeps | Operations | What is hard about it | What makes it correct |
|---|---|---|---|---|
| Workflow executor, `domain/executor.py` | per run: step results, metadata, `suspended`; per step: the point its coroutine has reached | `execute`, `execute_step_with_context`, `_execute_steps`, the five error strategies | every `await` lets other runs move; errors travel through handlers that call steps again | no error is lost, attempts and spending are bounded, one outcome per admitted step, every run ends |
| Streaming, `execute_stream`, and hooks, `adapters/hooks.py` | a queue, a background task and a generator per stream; the shared list of hooks | start, notices, chunks, sentinel, iteration, `aclose`, `add_hook`, `remove_hook` | failure or cancellation of either side at any await; streams share hooks | each consumer sees its own stream, whole and in order, and leaves no task behind |
| Circuit breaker, `adapters/circuit_breaker.py` | per provider: state, counters, last failure | `is_open`, `record_failure`, `record_success` | question and report are apart: late reports in any state | counters mean consecutive outcomes, legal transitions, an open circuit is probed again |
| Budget enforcer, `adapters/budget_enforcer.py` | cumulative cost | `track_usage`, `check_budget` | shared by concurrent runs | bounded overshoot |
| Durable execution, `domain/strategies/durable.py`, `adapters/event_store.py` | the events of a workflow | load, replay, append, truncate | crashes and cancellations between a step and its event, threads that outlive their task | completions are kept once, form a prefix of the plan, and spare work |
| Parallel groups, `domain/strategies/parallel.py`, `domain/state.py` | per group: tasks, semaphore, branch contexts, versioned keys | group, run, cancel, collect, merge | tasks interleave, fail and are cancelled together | order, limit, no stragglers, isolation, nothing lost |
| Goal-oriented and reflection strategies, `domain/strategies/` | attempt, results carried from round to round, feedback | the loop of `execute` | verdicts that are stale after a suspension, loop bounds | bounded loops, a verdict of the last round |
| Approval gates, `adapters/approval.py` | requests and their timers | request, check, resolve, escalate | the timeout races the human | the first decision stands, every request is decided |
| Triggers, `domain/strategies/event_driven.py` | a task, a tick count, retries | start, stop, tick, connect, consume | restarts, reconnection, failing callbacks | one loop at a time, stop stops it |
| Coordination, `domain/strategies/coordination/` | calls in flight, a hand-off chain | coordinate | cancellation of the losers, loops of hand-offs | bounded chains, no agent left running |
| Agent delegation, `domain/strategies/agent_delegation.py` | one delegated task | execute | failure and approval | a result or an error |
| call-agent, tool, tool-use loop, guardrail, llm, chat: `primitives/` | nesting depth, messages | execute | recursion, iteration bounds, partial failure | bounded, errors surface |
| PII, memory, knowledge, state store, index: `adapters/` | maps and files | get, set, save, sync | background writes, lost updates, collisions | what was stored is found again |
| MCP composition, `cli/mcp_composition.py`; agent engine, `serve/` | connected clients; a thread and a queue | compose, close; chat | one of several fails; thread and event loop | everything opened is closed; messages in order |
| Parser, resolver, registry, kits, CLI, tools | none that lasts, or files written once | | pure translation and I/O | |

A `WorkflowExecutor` passes one `DefaultDependencies` to every run, so runs
share the breaker, the budget enforcer, the event store and the hook manager. A
strategy gets a `step_runner` callback from the executor and decides which step
runs when; strategies wrap each other (durable around any other). A stream adds
a call-local collector in front of the shared hooks. `PROJECT.json` lists every
component with its status, and every hazard at its line.

## 2. Modules

Each specification is a module of that name, or the last one named in its row; the
others are its parts.

| Specification | Modules | Models |
|---|---|---|
| circuit breaker | `BreakerState`, `CircuitBreaker` | the record of one provider with the breaker's methods as functions on it (also used by `Executor`), and callers that ask, call, and report later or never |
| executor | `Executor` | runs of one workflow under `SequentialStrategy`, sharing breaker and budget |
| durable execution | `CompletionLog`, `Durable` | abstract: one completion per step until truncation; `DurableExecutionStrategy` over either event store, which refines it (`RecordsOnce`) |
| parallel groups | `ParallelGroups` | `ParallelExecutionStrategy` and versioned state |
| streaming | `EventChannel`, `StreamSession` | abstract: every event once, in order, then the end; `execute_stream` and `LifecycleHookManager`, which refine it (`StreamsAreChannels`) |
| orchestration | below | strategies handed a `step_runner`; workflows that call workflows, skills and agents |
| parts | below | one step of any other primitive, or one service around a workflow |
| PII middleware | `PiiMiddleware` | `adapters/pii_tokenizer.py` and `pii_middleware.py`: matching, tokens, the merged map, the answer restored |

`Orchestration` is composed of:

| Module | Models |
|---|---|
| `StrategyContext` | what the four strategies below share: a step that returns, raises, or finds its context suspended; results and the round each was written in |
| `GoalOriented` | attempts until the goal condition holds, with each backoff |
| `Reflection` | generate and evaluate until convergence, by equal texts or by a threshold |
| `EventDriven` | the trigger's payload, then the steps in order |
| `AgentDelegation` | one delegated task: adapter, approval policy, the gate's answer, the agent's |
| `RoundLoop` | abstract: a bounded loop of rounds that ends in one of a few ways; `LoopsAreBounded` is the refinement of all four strategies |
| `Coordination` | hand-off, parallel dispatch (merge, vote, first) and supervisor over agents that answer, fail, or stop some time after they are cancelled |
| `CallAgent` | call-agent and the skill resolver: a stack of nested runs, version constraints, governance, depth, coordination steps |

`Parts` is composed of `Primitives` (one step) and `Services` (one service at a time):

| Module | Models |
|---|---|
| `ContextWindow` | chat's window: limits in messages and tokens, the dropping of tool pairs, the reducer |
| `ModelCalls` | llm and chat: choice of the model, one request, a stream, the tool-use loop with its preprocessors |
| `Guardrail` | the four strategies over every kind of data, and the repair loop of delegate |
| `ToolSteps` | local and MCP tools: allowlists, discovery, validation, one timeout; several steps in one context |
| `Primitives` | agent-exec, decide, output-generator, and the composition |
| `ApprovalGate` | requests, policy, the human, polling, the escalation timer |
| `TriggerHandlers` | the schedule with its cron interval, and the SSE handler line by line with reconnection |
| `Stores` | the kit index under overlapping syncs and toggles; checkpoints of a running context in overlapping saves, cancelled or cut short, with a crash at any point; composite memory with its background writes |
| `EngineBridge` | the agent engine's chat: its thread, the queue of the event loop, a client that leaves |
| `McpWiring` | the clients composed around `run` and `serve`: loading the adapter, building, running, closing |
| `Resolver` | variable references and paths, next to what they mean |
| `Kits` | discovery and loading of kits, next to what they mean |

`MC...` modules give TLC its constants; `...Proofs` modules hold theorems.

`PROJECT.json` maps every definition to the lines it translates. The
correspondence in short:

* **Executor.** `execute_step_with_context` is a coroutine that calls itself for
  branch and fallback steps. `frame[r][s]` is the activation of step `s` in run
  `r`; its `pc` names the `await` at which it stands. An action is the code
  between two awaits, with every call that changes state: the except clause, for
  instance, records the failure with the breaker and may announce its opening
  before `on_error` (`Throw`), and the end of the try block records the success
  (`Credit`). `tally` and `refusals` are histories. Costs are small integers.
  The condition's value is a free choice. The delegate's LLM may answer anything.
  `Garbling` names the steps whose usage may hold a cost that is no number:
  `track_usage` raises then, inside the try block (`UsageUnreadable`).
* **CircuitBreaker.** Methods hold a lock, so each is one step. Instead of
  `last_failure_time` the model keeps the time elapsed since, which stops at
  the recovery window. `streak` and `wins` are histories, cut off where no
  property can tell more apart.
* **Durable.** A plan is the sequence of steps the wrapped strategy asks for; it
  may visit a step again, as loops do. The n-th run of a primitive returns `n`,
  which tells completions apart. Interruptions are a step that raises, a store
  that raises, cancellation (with or without a thread that still writes) and a
  crash of the process. `by` says which execution wrote an event; the code's
  events do not carry it.
* **ParallelGroups.** `_group_steps` cuts the workflow into groups once; the
  model keeps the position of the current group's first step (`group`) and
  `GroupFrom` says where that group ends. The result of a step is the step, so
  `step_results` maps a key to whose result it holds. The lock of
  `VersionedState` is never held across an await, so the compare-and-swap is one
  step. A cancelled task is over once CancelledError is thrown into it.
* **StreamSession.** The strategy inside a stream is a number of notices, a
  return or an error. A notice reaches the collector (the queue) and then a
  snapshot of the hooks, called one by one.
* **Strategies.** A value is a member of a small set with what the code asks of
  it: `Text` is its `str()`, `Score` its number, `Truthy` the goal condition's
  view of it. `stamp` is a history: the round in which each result was written.
  Anyone who holds the context may suspend it at an await (`Suspend`).
* **Coordination and CallAgent.** A frame of `stack` is one nested run with its
  own context. An agent says what matters to the question it was put: the name
  of the next agent, a set of assignments, a text. A version is three numbers.
* **Model calls.** A message is its role, its size in tokens and, for tool
  calls, its identifiers. The four-characters-per-token estimate is the size.
  Before each request of a tool loop the preprocessors (`_tool_use.py:69-80`) may
  change the list or return another, with which the loop goes on; one that fails
  is passed over. The repository has only their protocol (`ports.py:892-930`), so
  what they may make of a list is the constant `Rewrites`, about which nothing is
  assumed. `intact` is a history: no preprocessor has left a malformed list. Only
  chat validates its messages.
* **Tool steps.** Time is counted in ticks, a timeout in the same.
* **Stores.** A sync reads the rows outside the transaction that its first
  INSERT opens, so `SyncReads` and `SyncWrites` are steps of their own, for each
  sync in `existing`; toggles and other syncs come between them. `choice` is the
  user's last toggle and nothing else changes it; `disturbed` holds the items
  whose choice the code loses. A context is two counts: the results stored in it,
  and the position `durable.py:89` gives to those on record. `serialize` copies
  the position but hands on the live `step_results`, which the thread of the save
  dumps later, while they grow: so the results in a file are of some moment
  between the checkpoint and the dump (`WriteTemporary`), or the dump raises. The
  lock of a save is on its own temporary file and keeps no other save waiting:
  saves overlap, and the thread of a cancelled one goes on to its rename
  (`CancelSave` ends the wait, or a thread that never began). What `os.write`
  returns is not looked at, so a file may be `cut`. `floor` is a history: the
  position a restart finds at least.
* **EngineBridge.** The test of the queue, the registration of the getter and
  the put are separate steps because two threads take them. The thread ends with
  the stream, with an error of the stream, or with one of `asyncio.run` itself
  (`RunFails`).

Left out on purpose: tracer spans and the errors of a tracer that is not
fail-silent; the texts of errors and events; `on_workflow_start` and
`on_workflow_end` outside streams; `output_key` in `Executor` (it is in
`ParallelGroups`, where it matters).

## 3. What is checked

| Run | Instance | Shows |
|---|---|---|
| `breaker` | 3 callers, 1 provider, thresholds 2 and 2, window 2 | late reports never leave a closed circuit with a wrong count (`ClosedMeansHealthy`), only legal `Transitions`, `ClosesOnSuccesses`, `OpenLetsAProbeThrough` |
| `executor_branch` | 2 runs of a conditional LLM step with an LLM step in one branch and a tool in the other, retries 2, budget 2, a usage that may be unreadable | `OneOutcomePerAdmission`, `OvershootBounded`, `EveryRunEnds` |
| `executor_recovery` | 2 runs of delegate, fallback of a fallback, retry with 0 attempts, skip, suspension | `ErrorsSurface` |
| `durable` | 2 executions of 2 steps over the database, 2 interruptions | `RunsAccountedFor`, `RecordedPrefix`, `RecordsOnce` |
| `parallel` | 3 steps, every marking as parallel, limits 0 to 2, both error semantics, isolated or not, 2 steps with one output key | `LimitRespected`, `NoStragglers`, `ErrorsCollected`, `ResultsReachParent`, `WinnerStays`, `StrategyEnds` |
| `stream` | a stream with a step and a chunk, a stream with a surface, one hook that stays and one that comes and goes | `StreamsAreChannels`, `NoOrphanTask`, `LoyalHooksHearAll`, `EveryStreamEnds` |
| `orchestration` | strategies over 2 steps with 4 values and up to 4 rounds, in every configuration; workflows that call themselves, two kits' skills and each coordination over 3 agents, hand-offs up to 3; 9 constraint operators over 8 versions | `VerdictIsOfTheLastRound`, `LoopsAreBounded`, `NoAgentLeftAtWork`, `OutcomeIsEarned`, `ChainFollowsMarkers`, `NestingIsBounded`, `SkillsArePermitted`, `EveryOrchestrationEnds` |
| `parts` | every configuration of every primitive, conversations of up to 4 messages, every window from none to 4 tokens or 3 messages, loops of 2 iterations with 2 calls each, one of 3 with preprocessors that add in front, add behind or drop; 2 approvals, 2 schedule starts, 6 SSE lines, 2 kits under 4 syncs and toggles with 2 syncs at once, 2 results with 2 saves at once, 2 memory keys, 3 engine events, 2 MCP servers | `RequestsAreWellFormed`, `WindowKeepsItsLimits`, `VerdictTellsTheTruth`, `StepKeepsItsBudget`, `FirstDecisionStands`, `EventsAreWhole`, `ChoicesSurviveSyncs`, `SavedStatesSurvive`, `ChunksInOrder`, `EveryClientIsClosed`, `EveryPartEnds` |

The stateless algorithms are assumptions TLC evaluates when it loads `MCParts`,
over every input up to a bound: `ScheduleKeepsTime` (the cron interval),
`ReferencesResolve` and `PathsAreWalked` (`Resolver`), `KitsAreFound`,
`ToolsAreLoaded` and `AdaptersAreLoaded` (`Kits`).

Why these bounds are enough: the hazards are about two actors meeting, so two
runs, executions or streams suffice (three callers for the breaker, so that two
late reports can surround a third; three agents, so that a vote has a majority
and a first answer has two losers). Breaker thresholds of 1 in the executor make
every report a transition; `breaker` has the counting. A retry bound of 2 has a
first, a middle and a last attempt. Two interruptions let one hit a resumption.
Three steps are the fewest with a parallel run before or after a sequential step.
Four rounds reach the bound of the backoff twice. Three lines make an SSE event,
so six let a second one follow a disconnection. Windows smaller than a
conversation cut a tool pair in every place. Two syncs and two toggles are enough
to lose a choice in both of the code's ways and to give it back by a new one; two
saves, to rename an older state over a newer. Every mutant named in
`PROJECT.json`, a plausible slip in one mapped definition, is found by the
property it is listed with under these bounds.

**Fairness.** `EveryRunEnds`, `StrategyEnds`, `EveryStreamEnds` and
`EveryOrchestrationEnds` assume weak fairness of runs, tasks and generators: the
asyncio loop runs every ready task, and whatever is awaited (primitive, hook,
LLM, agent) returns, raises or times out. Suspension and cancellation from
outside are free to happen or not. A primitive without a timeout that never
returns is outside these properties, and in a stream a consumer goes on
iterating or leaves. `OpenLetsAProbeThrough` assumes that time passes, that
calls end, and, with strong fairness, that there is always new demand for a
provider; without demand nothing moves an open circuit, since only `is_open`
does. In `EveryPartEnds` a primitive goes on, a sleeping timer wakes, a
background task lands, a thread goes on (that of each save by itself) and a
disconnect has a timeout
(`ServiceFairness`); nobody need ask, answer, toggle, tick or send, so a schedule
or an SSE stream promises nothing there.

`CHECK_DEADLOCK FALSE` stands where the system may rest: a breaker without
callers, a workflow all of whose executions are done, a strategy or a part that
is over.

## 4. Where the documentation and the code disagree

Four runs expect a violation; each is a finding in `PROJECT.json`.

| Run | Documented | The code |
|---|---|---|
| `executor_unbilled` | `ports.py:356` usage of a completed step is recorded | usage of a step completed by a retry is not |
| `durable_skipped` | `durable.py:9` each successful execution is recorded | the SKIPPED result of a false condition cannot be encoded |
| `parallel_dropped` | `parallel.py:13` no branch's result is silently dropped | it is, when an output key equals another step's id |
| `pii` | `ports.py:229` original values are restored after responses | tokens are numbered anew in each message, so the last value wins |

More statements of this kind are written down at the end of the modules, without
a run of their own. Each is refuted by TLC when it takes the place of the
properties in the configuration named here (and of its symmetry).

| Configuration | Statement | Quoted from |
|---|---|---|
| `MCExecutorUnbilled.cfg` | `ExceededStopsWorkflow` | `models.py:607` EXCEEDED: "the workflow should be stopped" (retry, skip or fallback recover from it) |
| | `OpeningNeedsFailedRequest` | `ports.py:947` "a failed request" (a failing condition, nested step or budget counts) |
| | `FalsySkipsPrimitive`, `TruthyRunsThenSteps` | `executor.py:758` (retries run the primitive, and then no branch) |
| | `AttemptsIncludeTheFirst` | `models.py:516` "including the first" (it is not) |
| `MCExecutorBranch.cfg` | `ClosingNeedsRequest` | `ports.py:958` "a successful request" (a skipped step counts as one) |
| `MCExecutorRecovery.cfg` | `SuspendedSkipsRemainingSteps` | `models.py:1087` (branch steps go on) |
| `MCDurable.cfg` | `ExactlyOnce` | `README.md:290` "exactly-once semantics" |
| with `Nesting = {a}` | `RestoresAllResults` | `durable.py:8` "their results restored" (not those of nested steps) |
| with `Plan <- LoopPlan` | `RecordsLastResult` | `durable.py:9` (in a loop the first result is kept) |
| `MCParallelGroupsDropped.cfg` | `MergeBringsResults` | `parallel.py:60` "merged back to the parent" (not over older entries) |
| | `SuspensionStopsWorkflow` | `models.py:1087` (an isolated branch suspends its clone only) |
| `MCCircuitBreaker.cfg` | `SingleProbe` | `models.py:563` "a single request is allowed through" |

Met while modelling, part of the models as the code has it, and worth a reader's
attention though no run is about them:

* **Executor, durable.** Retries do not ask the breaker (`executor.py:1273`),
  though `ports.py:981` has requests blocked while it is open. Events belong to
  the workflow, not to an execution (`event_store.py:135`): a second execution
  replays the first.
* **Strategies.** Adaptive backoff grows past `backoff_max` when the base exceeds
  1. Goal and reflection metadata count the interrupted attempt. A first
  evaluation that prints `None` converges at once, unlike `reflection.py:150`
  says. An `AgentError` in a delegation does not reach `on_error`.
* **Coordination.** A first-result dispatch cancelled from outside leaves its
  agents running (`parallel_dispatch.py:165`). `CoordinationTask.timeout` is not
  used.
* **call-agent.** A child context has no budget, breaker, event store or MCP
  registry, and along the workflow path no kit manifests. A suspension of the
  child is not told to the parent. Governance is read from metadata that only
  the host can have written.
* **llm, chat, tool.** The window's limits hold for the first request, not inside
  the tool loop; `max_messages: 0` means none. A sync tool is under no timeout.
* **Guardrail.** `correct` returns the original data next to errors about its
  parsed form; JSON `null` reads as unparsable; data that cannot be serialized
  raises a `TypeError` in delegate.
* **Approval.** ESCALATED is final; an unknown or forgotten request reads PENDING.
* **Triggers.** The retry count of an SSE handler is never reset; an event whose
  callback raises is lost; starting a schedule twice leaves the first loop
  without a handle; next to an hour field `*/N` the minute field is
  ignored.
* **Kit index.** A toggle between a sync's read and its first write is lost. The
  row of a kit that vanishes is deleted (`index_store.py:160-168`), so a kit that
  was switched off comes back enabled. `ChoicesSurviveSyncs` names both and says
  that a choice is lost in no third way.
* **State store.** The lock `state_store.py:75` mentions is on the temporary file,
  so overlapping saves do not wait for each other, and the thread of a cancelled
  save (`:125`) may rename an older state over a newer one; a dump in that thread
  may hold results of a later moment than the position beside them; a short
  `os.write` (`:103`) is renamed into place. `SavedStatesSurvive` is what is left:
  how old a file may be, and that its position never goes beyond its results.
* **Tool loop.** With `messages` that is one `$`-reference, llm passes on the very
  list the reference leads to (`llm.py:165`), and the loop appends its turns to it.
* **Stores.** A read after a composite `set`
  may be old, and a background error is only logged. Nothing in the executor
  calls `checkpoint`.
* **Engine.** A sentinel put between the test of the queue and the registration
  of the getter wakes nobody; an error after the first event reads as a normal
  end.

## 5. What is proved

The theorems hold for every value of the constants that satisfies the named
assumptions (`BreakerAssumption`, `CallersAssumption`, `ExecutorAssumption`,
`DurableAssumption`, `NoEventAssumption`, `ParallelAssumption`,
`StreamAssumption`, `SentinelAssumption`, `WorkflowAssumption`,
`RoundsAssumption`, `ToolAssumption`, `CallsAssumption`,
`CompositionsAssumption`, `ModelAssumption`), which say that the constants have
their types, that sentinels are not ordinary values, and that a hook that stays
is registered once. Two ask more. `CallsAssumption`: minor and patch numbers
below 100, so that a version can be compared with its rank as one number.
`ModelAssumption`: `max_messages` is absent or not negative; the code does not
check that, and with a negative number its slice `[-n:]` skips the first
messages instead of keeping the last ones, a limit of nothing. TLC evaluates all of them
on its instances.

* **`CircuitBreakerProofs`**: `TypeCorrect`, `ClosedHealthy`,
  `HalfOpenIsUndecided`, `LegalTransitions`, `ClosesAfterSuccesses`, for any
  number of callers and providers and any thresholds. The properties about
  closed and half-open circuits are not inductive alone; `CountersSound` relates
  a circuit's record to the history in all three states, and is kept by each
  method (`SoundAfterFailure` and its like) whoever calls it. `ClosesAfterSuccesses` needs
  `WinsCounted`: a half-open circuit has counted no more successes than came in
  a row.
* **`ExecutorProofs`**: `TypeCorrect`; `Overshoot`, from the fact that a step
  either leaves `spent` below the limit or raises a `BudgetError`; and
  `OneOutcome`. Its invariant `AllHonest` says that a frame has reported nothing
  while its try block is open, exactly one outcome once it is settled, and that
  an error is set only then. Every action moves each frame in one of a few ways
  (`AllMove`: not at all, on one side of the end of the try block, or across it
  with a report), and each of those moves keeps the invariant. So the many
  actions are looked at once, and the invariant once. `NoErrorIsLost` argues about
  who waits for whom: in a run that goes on, every active step is the current
  step of the workflow or is waited for by another (`Rooted`), and a step that
  raised still has a caller that waits for it or was taken by one (`Heeded`). A
  run completes only with nothing active, so nobody waits any more.
* **`DurableProofs`**: `TypeCorrect`, and `KeepsFirstCompletion`: with the
  database, `Durable` implements `CompletionLog`. The refinement needs
  `UniqueEvents` (no two events of one step), which `INSERT OR IGNORE` keeps also
  for late writes. `RecordsPrefix` needs `OnTrack`: an execution is nowhere in the
  plan that the records have not reached, and neither is a write under way.
  `RunsAreAccountedFor` counts: each run of a step is charged to a visit of the
  plan by one execution that will not run it there again (`Claims`) or to a
  record that was lost, and there are no more claims than visits.
* **`ParallelGroupsProofs`**: `Limited`, `NothingLeftBehind`, `NoErrorLost`. The
  invariant `IInv` adds three facts to them: only tasks of the running group are
  alive (`AliveInGroup`), the groups before it ended well and those after it are
  idle (`GroupByGroup`), and while a group runs only a failed sibling cancels
  (`CancelledByFailure`). `ResultsAreMerged` and `WinnersStay` need `RInv`: an
  isolated branch has written only its own keys (`OnlyOwn`), a finished one's
  result is with it or with the parent (`ResultsKept`), and a contended key holds
  its winner or has a writer that will put it back (`WinnersHold`). The proof of
  the last failed for a step whose id is the key but which writes to another:
  its plain write (`executor.py:912`) replaces the winner in the code too, so
  `WinnerStays` leaves such keys out.
* **`StreamSessionProofs`**: `NoTaskIsOrphaned`, `LoyalHooksHear` and
  `StreamsImplementChannels`, all from `StreamSound`. Its core is `QueueIsRest`:
  what was received, followed by the queue, is what was sent, followed by the
  sentinel if the task is over. So the head of a queue is either the next event
  or the end with nothing left (`HeadOfQueue`), which is what `Take` and `End` of
  `EventChannel` ask for. `TaskIsWatched` ties a running task to a generator that
  is still there; `NoticesAreOwed` says that a loyal hook has heard every notice
  but the current one if it is still in the list of calls, where it occurs once,
  since removing another hook moves it but never drops it (`RemovedOnce`).
* **`PartsProofs`**, of the components `Services` composes, of `ToolSteps` and of
  `Guardrail`: `DecisionsStand` (a step leaves every request that is decided as
  it is), `ChoicesStand` (`ReadAsChosen`: a sync that is still to write has read
  the flag the user chose, of every item that is not `disturbed`), `SavesStand` (`InHand`:
  what a save has in hand, and the context itself, is no older than the `floor`,
  no position beyond its results and none beyond the context's; the floor a rename
  sets is the least of the saves then under way, `FloorIsLeast`), `ClientsAreClosed` (each client is unbuilt,
  open, or asked to disconnect, and the composition is over only when none is
  open), `EventsStayWhole` (`BlockSound`: the data collected is that of the lines
  since the last blank one, in increasing order), `ChunksStayInOrder`
  (`BridgeSound`: what was ever put is what was taken and then the queue, and the
  end is put once and last), `BudgetHolds` (while a server is awaited, what is
  left is the timeout less what was spent, and never negative), `VerdictsAreTrue`
  (`RepairIsSound`: through every repair the errors kept are those of the data
  kept), and for llm and chat steps, from their specification `ModelSpec` (the
  `ModelStart`, `ModelNext` and `Compose` that `Primitives` is composed of),
  `RequestsStayWellFormed` and `WindowsKeepTheirLimits`. The invariant of these
  two, `Conversing`, needs more of a history than that it is well formed:
  in a `Whole` one a tool message answers one call and no two assistants share a
  call id, so that a pair dropped from the middle takes no other message's
  partner along. Composing keeps it, each cut keeps it of what is left (only the
  slice leaves answers at the start, for the next cut to drop), and the loop adds
  one turn at a time, whose calls stay listed until each has its tool message
  (`Answering`). As long as the preprocessors leave well-formed lists, whatever
  else they make of them, the invariant goes on from the list they left; it asks
  nothing of the requests after a malformed one. The window is a chain of recursive functions, and what such a
  function returns is shown without an induction theorem, which would need an
  operator as parameter: the set of arguments at which a formula fails has a
  least element if it is not empty (`LeastOf`, from the well-foundedness of `<`
  on the naturals), and that element contradicts one unfolding of the
  definition. `Recursion` gets from it, in the same way, that a function
  defined by its predecessor exists and unfolds.
* **`OrchestrationProofs`**: `NobodyLeftAtWork` and `ChainsFollow` from
  `CoordinationSound`, which says who may be at work in each phase (all of the
  team, only the agent asked, or nobody) and that a chain leads to the agent
  asked; `NestingBounded` and `OnlyPermittedSkills` from `StackSound`: the depth
  a frame carries is its place in the stack, governance travels from skill to
  skill, and a frame was entered by a call that was allowed. Every step either
  shrinks or moves the stack along (`Shrinks`) or enters one frame
  (`EnterSound`). What `Satisfies` computes digit by digit is what `Means` says
  of ranks (`SatisfiesMeans`). `OutcomesAreEarned` needs `Earned`: each phase
  belongs to a mode, asks only agents of the team, and is about to decide only on
  what makes the decision due; that a vote's winner leads is the lemma
  `WinnerLeads` about finite sets. `VerdictsAreFresh` and the refinement of
  `RoundLoop` (`StrategiesAreLoops`) share `ExecutionSound`: rounds are counted,
  and within a round every step is either left to do or stamped with that round
  (`StampsAreFresh`). Because a `SelectSeq` is opaque to the provers, the steps a
  strategy has left are a set of positions of the workflow, the next the least.
* **`BreakerStateProofs`**: the types of the methods, cited by two of the others.

Every invariant, action property and refinement the runs check is proved. Only
model-checked are the properties that rest on fairness, which TLAPS does not
reach (`EveryRunEnds`, `EveryStreamEnds`, `StrategyEnds`, `EveryOrchestrationEnds`,
`EveryPartEnds`, `OpenLetsAProbeThrough`), and the comparison of the algorithms of
`Resolver`, `Kits` and the cron interval with their meaning, which TLC evaluates
over bounded inputs: these are statements about particular finite sets of inputs
with no state behind them, and folds and `SelectSeq`, which take an operator as
parameter, are opaque to the provers.

## 6. Not modelled

* Out of interest here, because nothing in them changes after a translation: the
  parser, the models and their validators, error codes, configuration commands,
  `init`, tests and dashboards, and the rest of the command line.
* Only observers: tracers, metrics, event serializers, HTTP routes that read.
* External: providers, agent back ends (OpenClaw, Claude, Codex), databases,
  MCP servers. They answer, raise, stay silent for a while or are cancelled,
  whenever the code that awaits them allows it.
* Partly modelled, with the missing operations in `PROJECT.json`: knowledge
  providers, decision filters, kit installation and preferences, the webhook
  handler, the list of agents.

## 7. Plan

Done, in this order: breaker, executor, durable execution, parallel groups,
streaming; then the strategies, coordinations and nested calls, the primitives,
the services around a workflow, PII; with them the proofs of section 5.

Left: a composition of a durable strategy around a goal loop, whose repeated
steps the event store sees as done; and installation of kits while an index sync
runs.

## 8. Running

    tlc -config MCExecutorBranch.cfg MCExecutor
    tlc -config MCOrchestration.cfg MCOrchestration
    tlc -config MCParts.cfg MCParts
    tlapm OrchestrationProofs.tla
    tlapm StreamSessionProofs.tla
