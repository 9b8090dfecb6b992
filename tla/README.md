# The DeepSeek CLI: specification, model checking, proofs

This directory holds a TLA+ development of the parts of the CLI that decide what
happens next: the scheduler of tool calls, the shell commands and the service
that keeps track of them, the policy engine with the approvals of the user, the
calls to the models with retries and fallback, the turns of a conversation, the
tasks of the A2A server, the local agents, and the hooks. TLC checks each of them on small
instances; the most important facts are proved with TLAPS for every instance.

Paths below are relative to the repository; `core` is `packages/core/src`, `cli`
is `packages/cli/src`, `a2a` is `packages/a2a-server/src`.

## 1. Inventory of the system

The repository is a monorepo of seven packages. `core` has all the logic;
`cli` (terminal interface), `a2a-server` (agent-to-agent server), `sdk`,
`vscode-ide-companion` are clients of it; `devtools` and `test-utils` are not
part of the running program.

| Component (directory in `core` unless said) | State it keeps | Operations | Talks to | Hard behaviour | What makes it correct |
|---|---|---|---|---|---|
| **State store** `scheduler/state-manager.ts` | queue, map of active calls, list of completed calls | enqueue, dequeue, updateStatus, updateArgs, finalizeCall, replaceActiveCallWithTailCall, cancelAllQueued, clearBatch | published snapshots on the message bus, `onTerminalCall` | shared by all coroutines of a batch and by late output | a call is in one place, is lost nowhere and is reported once |
| **Scheduler** `scheduler/scheduler.ts` | request queue, `isProcessing`, `isCancelling`, the loop and one coroutine per call | schedule, cancelAll, the loop with its waves, _processToolCall, _execute | store, confirmation, policy, hooks, executor | interleaved coroutines, abort, cancelAll, refusals, tail calls, re-runs after a sandbox expansion | callers are served in order and answered in full; order, permission and stops are respected; every request settles |
| **Confirmation** `scheduler/confirmation.ts`, `tool-modifier.ts` | the pending dialog of each call | resolveConfirmation loop, editor and inline modification | message bus, IDE, editors | races of abort, answer, editor; dialogs of several calls at once | what runs is what was shown and approved |
| **Policy check and hooks of the scheduler** `scheduler/policy.ts`, `hook-utils.ts` | persistent policy of a tool | checkPolicy, updatePolicy, evaluateBeforeToolHook | policy engine, hook system | combination of policy, hook and origin of the call; arguments change between the checks | a denied call never runs |
| **Tool executor** `scheduler/tool-executor.ts` | none | execute | tools, lifecycle service | result against abort | one result per run |
| **Shell execution** `services/shellExecutionService.ts`, `tools/shell.ts` | processes, terminals, history, log streams, two timers of the tool | execute, background, kill, exit handlers, abort | lifecycle service, interface | exits handled late, logs that end over an await, timers that do not ask | nothing of a command that has ended is left; what is killed ends |
| **Execution lifecycle** `services/executionLifecycleService.ts` | active executions, resolvers, listeners, exit info | attach, create, background, complete, kill, onExit | shell service, tools, conversation injection | background, kill and exit in any order | each execution is answered once, one that ends in the background is told once |
| **Message bus** `confirmation-bus/message-bus.ts`, `tools/tools.ts` | listeners | publish, request, getMessageBusDecision | policy engine, everybody | answer against timeout, a policy check in between | who asks is told something |
| **Policy engine** `policy/` | rules in order of priority, checkers, approval mode, the policy file | check, getExcludedTools, addRule, setApprovalMode, saving of approvals | message bus, scheduler, safety checkers | order of rules, compound commands, saves that overlap | the most restrictive part of a compound command wins; approvals hold and are kept |
| **Model availability, retry, fallback** `availability/`, `utils/retry.ts`, `fallback/`, `cli/ui/hooks/useQuotaAndFallback.ts` | health of each model, attempts, the dialog | markTerminal, markRetryOncePerTurn, retryWithBackoff, handleFallback, the handler of the CLI | chat client, user | attempts reset by a fallback; models marked while a dialog is open | a call ends; no model is switched unasked |
| **Chat turn and client loop** `core/client.ts`, `turn.ts`, `deepseekChat.ts` | history, promise of the current stream, turn counters | sendMessageStream, retries of streams, next speaker, tools of the consumer | model service, loop detection, the consumers in `cli`, `agent/` and `a2a` | abort in mid-stream, two senders, retries after parts were shown | the history is one conversation; calls are followed by their results; a prompt ends |
| **Loop detection** `services/loopDetectionService.ts` | counters per prompt | addAndCheck, turnStarted, reset | client loop | recovery, who resets | repeated calls are stopped |
| **A2A task and executor** `a2a/agent/` | pending, completed and processed calls, completion promise, running executions, the task store | updates of the scheduler, confirmations, waitForPendingTools, cancelPendingTools, execute, cancelTask | scheduler (by bus updates), HTTP | second requests, cancellation, end of a connection, restart | one execution drives a task, results are told once, no wakeup is lost |
| **Deadline timer, local agent executor** `utils/deadlineTimer.ts`, `agents/local-executor.ts` | remaining time, timer, turn counter | pause, resume, fire, abort; turns, tools, turn of grace | scheduler, dialogs | time-out against pause and answer | an agent gets its time, no more, and ends |
| **Hook system** `hooks/` | registry of hooks; per firing the plan, processes, timers, results, input of the next hook | register, initialize, enable, disable; plan, run in sequence or in parallel, aggregate | external processes, extensions, scheduler, client loop | failing, refused and slow hooks, timeouts, duplicates, a registry that changes | a block of a tool call or an agent by one hook is not lost; a hook sees the edits of those before it; a firing ends |
| **Agent session** `agent/` | event log of a session | send, stream, abort | client loop | replay while events are added | each stream sees each event once |
| Context management, routing, MCP clients, tools, recording, configuration, telemetry, authentication, sandbox, IDE companion, terminal interface, SDK | see `PROJECT.json` | | | mostly I/O, text or presentation | |

The hazards of this code, each at its line, are listed in `PROJECT.json`
("hazards") with the properties that would catch them going wrong.

### How the modelled parts work

JavaScript runs one callback at a time, so an action is the code between two
awaits, and the interleavings that matter are those of the coroutines, timers,
events of processes, clients and users.

**Scheduler.** `schedule()` starts a batch when the scheduler is free and
otherwise puts the request in a line. The calls of a batch go to the queue of the
store; the loop (`_processQueue`) takes a *wave*: the first call, and when that one
is parallelizable all parallelizable calls that follow it. All calls of a wave are
checked in parallel (BeforeTool hooks, then policy, then, if needed, the user).
When every check has ended, the scheduled calls of the wave are executed in
parallel, and terminal calls move to the completed list. A run may replace the
call by a *tail call* with the same id at the front of the queue, or come back
for more sandbox permissions, which are confirmed before it runs again. An
abort signal stops the batch at the next turn of the loop; `cancelAll()` marks
all calls at once and rejects the requests in line. When the loop ends, the
caller gets the completed list, and the next request in line starts.

**Shell commands.** The tool prepares a command over several awaits, spawns it and
registers it with the lifecycle service, whose promise it awaits. The command
moves to the background by a key or by a timer of the tool; its starter is answered
then, and the end is told to the conversation later. The service, the exit
handler, `kill()` and `background()` share a record in the history and a log
stream that ends over an await.

**Policy.** `check()` looks for the first rule, by priority, that matches and
decides; a shell command is split, and each part is checked like a call of its
own. An approval "always" adds a rule at once and, if it is for good, saves it in a
file that is read, merged and replaced over several awaits. Tools that confirm for
themselves ask over the message bus, with a timeout.

**Models.** A request runs in `retryWithBackoff()`: attempts with delays, then
`handleFallback()`, which picks another model of the chain and, unless the chain is
silent, asks the user in a dialog. An answer may switch the model for good, repeat
the call with all its attempts, or stop it.

**Conversation.** `sendMessageStream()` of the client sends a message to the chat,
which sends one message at a time, repeats streams that break or are invalid,
and records the answer. The consumer of the events (terminal interface, session,
A2A server) runs the tools that the model called and sends their results as the
next message. The client calls itself when the model is to go on.

**A2A server.** A request for a task finds or loads its `Task`. The first one
drives the conversation (the *primary* execution) and waits, by a promise, for the
calls that its scheduler runs; later ones hand in a text or a confirmation and
leave. Updates of the scheduler come over the message bus.

**Local agents.** A loop of turns with a limit on their number and on the time,
measured by a timer that stops while the user is asked. At a limit the agent gets
a last turn of grace to submit its result.

**Hooks.** An event fires the enabled hooks that match its tool or trigger, those
of the program first, then those of the project, then those of extensions, each
name and command once. If one of them says `sequential`, they run one after
another, and each sees the edits of those before it; otherwise all at once. A hook
is a process, whose answer is its exit code and its output, or a function. A
timeout ends the wait for a function and sends SIGTERM to a process. The answers
are merged in the order of the plan, by a strategy that depends on the event.

## 2. Modules

| Module | Models | Correspondence |
|---|---|---|
| `StateManager` | `core/scheduler/state-manager.ts` | `status`, `queue`, `active`, `completed` are the private fields, `reports` counts `onTerminalCall`. Each operator is one method and takes the status function it starts from, so that the scheduler can use several of them in one step. |
| `Scheduler` | `scheduler.ts`, `confirmation.ts`, `tool-modifier.ts`, the scheduler's `policy.ts` and `hook-utils.ts`, the status side of `tool-executor.ts`, and what backgrounding does to a call | `phase` is the await at which the loop is suspended, `step[c]` the await at which the coroutine of call `c` is suspended. `promise` and `answer` are what callers of `schedule()` see, `requestQueue` the line, `aborted` the abort signals. `args[c]` says which arguments the invocation has (the model's, a hook's, the user's, another call's, with sandbox permissions), `rewritten` which requests carry arguments of a hook, `approved[c]` and `consented` are history variables: the arguments last permitted, and the calls sent to the user (`forced`) whose last question was answered with yes. `Heedless` tools do not heed that a hook wants a question. |
| `Subsequences` | what `splice` and `filter` leave of an array | `Surviving`, all that may be left, used by `Abort` for the line of requests and by `BatchService`; `Filtered`, the same for arrays without repetition, as a recursive function, used by `HookSystem`. |
| `BatchService` | what the scheduler promises to callers, without tool calls | Jobs are served one at a time and in the order of arrival; a waiting job may leave; the job served is answered in the end. |
| `ExecutionLifecycle` | `executionLifecycleService.ts` | `active`, `resolvers`, `listeners`, `exitInfo` are its maps, `backgrounded` a flag of its records. An operator is one method; calls that find no execution do nothing. |
| `ShellExecution` | `shellExecutionService.ts`, the part of `tools/shell.ts` that starts and awaits a command, and the background key of `cli/ui/hooks/useExecutionLifecycle.ts` | `tool[s]` is the await of the tool, or of the interface for a command that the user typed ("typed"), `timer[s]` its two timers; `proc`, `ptys`, `history`, `logged` are the process and the service's maps, `ending` the calls suspended in `cleanupLogStream`. EXTENDS `ExecutionLifecycle`: every exit, kill and move goes through it in the same step. |
| `Execution` | what the lifecycle service promises to whoever starts an execution | One answer, early when it moves to the background; at most one injection, none after an abort. |
| `PolicyEngine` | `policy-engine.ts` | `rules` in the order of priority, `mode`. `Verdict` is `check()`, with `ByRule` for one rule of its loop, `RuledBy` for the loop and `ByDefault` when none matches; `Verdicts` ties it to the verdicts on the parts of commands, as a recursive function. `Excluded` is `getExcludedTools()`, `WithRules` is `addRule()`. Patterns are the sets of calls they match. |
| `MessageBus` | `message-bus.ts`, `getMessageBusDecision()` of `tools.ts` | `handlers` are subscribed listeners, `check[r]` what a running policy check may answer. |
| `PolicyUpdater` | `createPolicyUpdater` of `policy/config.ts`, the arguments of an approval from `scheduler/policy.ts` | `WithApprovals` is what a saved or remembered approval adds to the rules, one for each first word. `queue` is the chain of saves, `loaded` the file as read, `file` its contents, `saved` a history variable: what was written to it, in order; `Restart` ends a session at any moment and starts another one from the file. |
| `ModelAvailability` | `availability/`, the choice in `fallback/handler.ts` | `active` is the configured model, `health` the map of the service, `Selected` what is picked from a chain. `Offer(m)` is what is offered when `m` fails. |
| `ModelCalls` | `utils/retry.ts`, the callers in `deepseekChat.ts` and `baseLlmClient.ts`, `useQuotaAndFallback.ts` | `phase[c]` is the await of a call, `attempt` counts up to a fallback, `offer` and `failure` are what its dialog shows, `dialog` and `validation` the two flags of the interface. |
| `Chat` | `deepseekChat.ts` | `tail` is whose stream `sendPromise` stands for, `behind[s]` whose stream `s` awaits, `history` the messages with who sent them; `got` are the parts received since the last RETRY. |
| `ClientTurns` | `client.ts`, `turn.ts`, and the consumers `useDeepSeekStream.ts`, `legacy-agent-session.ts`, `a2a/agent` | `run[s]` is where `sendMessageStream()` is, `bound` its turns left; `lastPrompt`, `detected`, `count` belong to the loop detector. |
| `Task` | `a2a/agent/task.ts`, and as much of a scheduler as a task can tell | `pending`, `completed`, `processed`, `confirmed`, `details`, `correlation` are the maps of the task; `promise` and `wait` its completion promise and what those who wait for it hold. `status`, `work` are the scheduler's. `Update` is the handler of a bus update. |
| `TaskExecutor` | `a2a/agent/executor.ts` | `pc[e]` is the await of the execution of request `e`, `executing` the set of executing tasks, `cached` the map of tasks, `stored` the store, which survives `Restart`. `Exits` is the end of the process by an unhandled rejection: nothing but `Restart` follows. |
| `DeadlineTimer` | `utils/deadlineTimer.ts` | `remaining`, `armed`, `isPaused` are its fields, time passes in ticks. |
| `HookAggregator` | `hooks/hookAggregator.ts`, the conversion of plain text in `hookRunner.ts` | No state: `Aggregated` folds the answers of the hooks into a verdict, in the order of the plan, by a recursive function; an answer has only its decision, its continue flag, whether it edits, and its tool mode. |
| `HookSystem` | `hooks/hookRegistry.ts`, `hookPlanner.ts`, `hookRunner.ts`, `executeHooks` of `hookEventHandler.ts` | `entries` and `enabled` are the registry, `trusted` what `isTrustedFolder()` returns. `progress[h]` is how far a hook is, `killed` is `child.killed`, `forcing` the second timer, `input` whose edits the next hook of a sequence gets. A hook that is configured twice is two hooks with one key. |
| `LocalAgent` | `agents/local-executor.ts` | `pc` is the await of the loop, `reason` the reason of its end, `call[c]` what its scheduler has done with a call, `grace` the last turn. Tools in `Deaf` ignore the signal. Holds its properties, too. |
| `SchedulerProperties`, `ShellProperties`, `PolicyProperties`, `ModelProperties`, `ClientProperties`, `TaskProperties`, `HookProperties` | the properties, the refinement mappings | |
| `MCScheduler`, `MCShell`, `MCPolicy`, `MCModels`, `MCTask`, `MCHooks` and the `.cfg` files | instances for TLC | |
| `SchedulerProofs` (in four parts: places, reports, answers, permission), `ShellProofs`, `PolicyProofs`, `ModelProofs`, `ClientProofs`, `TaskProofs`, `AgentProofs`, `HookProofs` | theorems and their proofs | |

Names follow the source. `map` in `PROJECT.json` gives, for every definition,
the lines it stands for. An operator whose comment starts with "Mutant" is a
plausible bug: it is not used by the specification, and replaces the definition
that follows it to show that a property notices it.

**How the modules compose.** `Scheduler` contains `StateManager`. `ShellExecution`
contains `ExecutionLifecycle`; `PolicyUpdater` contains `MessageBus` and
`PolicyEngine`; `ModelCalls` contains `ModelAvailability`; `ClientTurns` contains
`Chat`; `TaskExecutor` contains `Task`; `LocalAgent` contains `DeadlineTimer`; `HookSystem`
contains `HookAggregator`.
Between those groups the interfaces are narrow, and each side models the other by
what it can do: the scheduler sees the policy as a decision per tool that may change
(`PolicyEngine` says which), a detachable call that writes after its end
(`ShellExecution`), hooks as the ways their verdict may come out (`HookSystem` says
how it does), and clients that abort what they cancel; `Task` has the
scheduler as status updates of one batch at a time, in the order that `Scheduler`
allows (`ImplementsBatchService`, `ReportedOnce` and `CompletedIsFinal` are what it relies
on); `ClientTurns` has the tools as one step with the ways their batch can end.

**What is abstracted.** A call, message, rule or model is a model value; requests,
texts, timings, display and telemetry are left out, and so are the snapshots
published on the bus where they carry no state of their own. A hook, a tool, an
editor, a stream or a safety checker may end in any of its ways at any of its
awaits. In particular:

* Scheduler: the policy is a decision per tool, chosen freely at the start;
  "always" may change it (the rule it adds may cover no other call). Call ids are
  distinct, as they are when the model service assigns them
  (`SchedulerAssumption`).
* Shell: output, resizing and scrolling are left out. Ids of processes are not
  reused while they are remembered.
* Policy: regular expressions, server names and annotations are the set of calls
  a rule matches; one safety checker per guarded call may answer anything.
  `PolicyAssumption` says that a rule without a pattern concerns all calls of its tools
  (rules for one subagent are left out) and that some rule concerns every call in the
  yolo mode, as the one in `core/policy/policies/yolo.toml` does;
  `PartsAssumption`, that the other parts of a command are shorter than it.
* Models: a failure is of one of the four kinds the classification gives; the
  chains are those of the catalog. Delays are arbitrary. The model that a call of
  the chat starts with is a free choice: the router may choose another than the active
  one, a prompt keeps the model of its first turn, and the active model may change
  between that choice and the request. A BeforeModel hook that names another model
  is left out.
* Conversation: parts that follow each other as text are one part. Compression,
  masking of tool output and agent hooks are left out. What the loop detector
  detects is a free choice; what follows from it is not. An AfterModel hook may put
  text in the place of a call: the call is recorded, but nobody is shown it
  (`SeePart`); the chunk that stands for an answer a hook has blocked is left out.
* A2A: a message has one part. The calls of a batch form one wave; success and
  error of a tool are one status "result". Saves of the store succeed except in
  `cancelTask`. Editing of proposals, `autoExecute` and the YOLO mode are left out.
* Local agent: a timer that is due fires before more time passes. `extend()` has no
  callers.
* Hooks: one firing at a time, since firings share only the registry. An answer may
  be any of a set per event (`SaysTo`); a hook of the program is registered once;
  the extensions are those of the start. Messages, warnings, telemetry, the expansion
  of commands and the file of trusted hooks, which only warns, are left out.

## 3. What the runs show

Each run asks a distinct question; the constants are chosen so that it has the
interesting cases without the product of all of them.

| Run | Instance | Shows |
|---|---|---|
| `SchedulerBatch` | one of two batches. One has 3 calls of 2 tools: the first tail-calls, the second waits for the previous and needs a sandbox expansion, the third comes after it. The other has one call, initiated by a client, with hooks, an editor, a sandbox expansion and a tail call to a tool that does not heed hooks; 3,103,934 states | type invariant; no call is lost or strays (`Accounted`); telemetry fires once (`ReportedOnce`); a run has the approved arguments (`RunsAsApproved`); waves respect `wait_for_previous` even with tail calls (`WaitsForPrevious`); a call that a hook sends to the user, or that the policy denies, runs only with the last word of the user (`AskedBeforeRun`) |
| `SchedulerPermissions` | 3 calls: one with hooks, which tail-calls too, one editable call that is an `update_topic` and waits for the previous, one that goes to the background while a sibling runs; 8,216,738 states | what runs was approved, with hooks that rewrite arguments, until `cancelAll()` (`RunsAsRewritten`); a call whose check throws beside its sibling is reported once (`ReportedOnce`); a refusal ends the batch, but for tail calls of siblings (`RefusalEndsBatch`) |
| `SchedulerLive` | 3 jobs with one signal: a malformed call, a client-initiated call, and a batch of a call that goes to the background and one that waits for it; with fairness; 206,928 states | every request settles (`EveryJobSettles`); each caller gets exactly its own calls, with late output of a call before, too (`AnsweredInFull`); what is completed stays as it is (`CompletedIsFinal`); the scheduler implements `BatchService`, its order and its liveness (`ImplementsBatchService`) |
| `ShellCommands` | a command and a virtual execution, one watcher of the command, of the model or typed by the user; 110,264 states | the lifecycle service keeps the promise of `Execution` (`ImplementsExecution`); a watcher hears the end once, subscribed in time or late (`ExitHeardOnce`); a command that has ended leaves no running record and no log (`NothingOutlives`); what was killed ends (`KilledEnds`) |
| `PolicyApprovals` | 4 configurations (the default rules; a denial by the user; an administrator's question above allowed redirections; everything denied), 4 shell commands of which one has two others as parts, a guarded tool, 2 modes, 2 approvals, one request over the bus, restarts; 46,244 states | a compound command is judged no more leniently than any part (`NoLaxerThanParts`); what is hidden from the model is what would be denied (`ExcludedIsDenied`); an approved command is not asked about again (`ApprovalHolds`); saved approvals stay, with their modes until they are given again (`SavedStays`); who asks over the bus is told something (`EveryRequestAnswered`) |
| `ModelFallback` | a call of the chat and a utility call, 3 models, the chains of the catalog, 2 attempts, one consent of the user and one change of model by command; a chat that starts with any model; both verbosities; 959,026 states | one dialog, and none left over (`DialogIsOne`); the model that a dialog offers has not been given up meanwhile (`OfferStaysGood`); no model is switched unasked (`SwitchNeedsConsent`); every call ends (`EveryCallEnds`) |
| `ClientTurns` | two prompts of one sender, or a prompt and a side message; one part per answer, one tool call, 2 turns, 2 attempts; each of the three consumers; 606,566 states | an answer is to the conversation recorded before it (`AnswersItsHistory`); calls are followed by their results (`CallsAreAnswered`); every prompt ends (`EveryPromptEnds`) |
| `A2ATask` | 3 requests, a task that is loaded up to 2 times, 2 calls, two faults (failure, cancellation, end of a connection, eviction, restart), and the exit of the server; 4,222,641 states | one execution drives a task (`OnePrimary`); results are told at most once (`ResultsOnce`) and are not lost (`NoResultLost`); an execution waits only for calls that the scheduler will still end and report (`WaitsForSomething`) |
| `LocalAgent` | a limit of 4 ticks, 2 turns, 2 calls of which one is deaf to the signal, 2 ticks of grace; 181,534 states | waiting for the user is not charged, and no agent works longer than its limit (`TimeIsKept`); after an abort no tool starts and the run does not succeed unless it has (`AbortEndsWork`); a run ends though the model or a tool that heeds the signal never answers, unless a question to the user stays open or a deaf tool never returns (`RunEnds`) |
| `HookFirings` | a function of the program, a hook of the project, two of extensions, of which one has the key of the project's and one ignores SIGTERM; 3 events, 2 tools; 288,064 states | hooks of a sequence run one at a time and see the edits of exactly those before them that succeeded (`SeesEarlierEdits`); no decision about a tool or a selection of tools is lost, in whatever order hooks end and fail (`DecisionsCount`); a firing ends unless a command ignores SIGTERM or leaves its pipes open (`EveryFiringEnds`) |
| `LateOutputFreezes`, `PrimaryIsResumed` | two batches of which one has a call in the background; `A2ATask` without faults | disagreements, see below |

**Bounds.**

* Scheduler: three calls are the smallest batch with a wave, a sibling and a call
  behind the wave; three jobs the smallest line whose order can be wrong while one
  job is served; two tools are needed for "always" to change one policy and not
  the other, and for a tail call to change the tool. `MaxTails = 1` bounds the tail
  calls in a row of one call: after one tail call the call is in the state of a
  fresh call, so more of them repeat it. A call asks for a sandbox expansion at most
  once, for the same reason. Waves, batches and answers are otherwise unbounded.
  Hooks, clients and policy disagree in a batch of its own, where one call suffices,
  since what they say of it depends on no other; two tools let its tail call leave the
  tool that heeds hooks. A constraint (`OneIsAsked`) keeps the two batches of
  `SchedulerBatch` apart: the client asks for one of them. The runs have a user to ask; without one a question makes the check throw
  (`Interactive = FALSE`), which the proofs cover.
* Shell: commands share nothing but the service's maps, which are indexed by the
  command, so one command shows every order; the virtual execution adds the other
  way into the lifecycle service. The key may be pressed twice before the interface
  notices, not more often.
* Policy: two parts, of which each may be denied, asked about or allowed, cover the
  combinations of `checkShellCommand`; two approvals are the least that overlap in a
  save or update the same rule.
* Models: two calls are the least that meet in a dialog; three models the least with
  a chain of more than one candidate; two attempts distinguish the last one from
  the others.
* Conversation: two senders are the least with an order; the third sender's case is
  told below. One part per answer suffices to lose, double or misplace it.
* A2A: a primary and a secondary request, and a third one that comes when one of
  them has ended; two objects for one task are the least by which a restart or an
  eviction can confuse calls of both. `MaxFaults = 2` lets one fault meet the
  consequences of another, as a restart after a cancellation does. The exit of the
  server is no fault that is counted: it follows from the rejection of a batch.
* Local agent: a limit of 4 ticks allows stopping and starting the clock with time
  spent before, between and after; two calls are the least of which both wait for
  the user.
* Hooks: three hooks in one plan are the least with a failure between two others; the
  fourth is the duplicate, which takes the project's place when that one is not
  trusted. Each of the three strategies has an event, with answers that disagree.

**Deadlock** is checked in the runs of the scheduler; the only state where it may
rest is the one of `AllSettled`, in which every request has been answered. The
other systems stop when their bounds are spent (every prompt sent, every request
ended, every call returned), so their runs do not check it; what must not get
stuck is stated as a liveness property, or, for A2A tasks, as `WaitsForSomething`.

**Fairness** is what the runtime and the services give, and no more.

* Scheduler (only in the runs with liveness). The loop, every coroutine and
  every run of a tool go on when they can (`WF` of `Loop`, `Check(c)`, `Run(c)`):
  the event loop runs each callback that is due, and hooks, editors and tools
  come back. A user answers a call that is *shown* as awaiting approval
  (`UserAnswers`). `CancelledIsAborted` says that a client that calls
  `cancelAll()` also fires the signal of the batch:
  `cli/ui/hooks/useDeepSeekStream.ts:826-862` aborts before it cancels. Nothing is
  assumed of the order in which signals, output or editors come, and no client
  must schedule anything.
* Shell: the tool goes on when it can, timers fire, log streams end, a process
  that was sent a kill exits and its exit is handled. A command nobody kills may
  run for ever.
* Policy: the timers of requests fire. A policy check may never end.
* Models, conversation: each call and each prompt goes on (`Progress`): requests
  end in some way, tools come back, the user answers dialogs, with consents bounded
  by `MaxConsents` and turns by the limits of the code.
* Local agent: time passes, timers fire, the agent itself reacts, and so do, once
  the signal is aborted, the request to the model, the checks and questions
  (`awaitConfirmation` listens to the signal) and the tools that heed it. Nothing
  is assumed of a tool in `Deaf`: the executor awaits it without a race with the
  signal (`core/scheduler/tool-executor.ts:124`), and a discovered tool ignores its
  own (`core/tools/tool-registry.ts:58`). Without an abort the model, the tools and the
  user may never answer.
* Hooks: timers fire; a command that is not `Stubborn` exits when it gets SIGTERM and
  its pipes are closed then. A hook may never end by itself.
* A2A: none; its properties are safety properties.

### Where code and documentation disagree

Two are runs whose property TLC finds violated; `findings` in `PROJECT.json` has
the quotations.

* `LateOutputFreezes`: the output handler of a call does not ask whether the
  call is finished. When a process that was moved to the background writes
  while its call is still active (a sibling runs on), the finished call becomes
  `executing` again. When the sibling ends, nothing is left that will finish the
  call, and the loop waits for it by `queueMicrotask`, which lets no event in.
* `PrimaryIsResumed`: a confirmation that a second request hands in replaces the
  completion promise of the task (`a2a/agent/task.ts:1120`), but the primary
  execution awaits the old one. When the tools end nobody resumes it, and the task
  stays marked as executing; `a2a/agent/executor.ts:463` says that it is resumed.

Others were seen while modelling, and are behaviours of the modules.

*Scheduler*

* A hook decision "ask" replaces the policy's denial (`core/scheduler/scheduler.ts:625`),
  where `docs/reference/policy-engine.md:108` says that a denied call is not executed.
  `AskedBeforeRun` says what remains: it runs only when the user agrees.
* A call cancelled by `cancelAll()` while it is being checked is scheduled and run when
  the check succeeds (`scheduler.ts:692`), where `scheduler.test.ts:613` says that
  `cancelAll()` cancels the active call. A client that fires the signal as well, as the
  terminal client does, is safe; the A2A server cancels a task without it
  (`a2a/agent/task.ts:234`). What such a call runs with is what was permitted
  (`RunsAsApproved`), and it is reported once.
* A refusal cancels what is queued, not the siblings in the same wave
  (`core/scheduler/scheduler.ts:688`), although the comment before it says that it
  cascades to the entire batch. The siblings run, and their tail calls start after
  the refused call is finalized; a refused sandbox expansion ends its call in error
  and the batch goes on. `RefusalEndsBatch` says what is left of the promise.
* A tail call waits only when its own arguments say so: that of a call that set
  `wait_for_previous` runs together with the calls after it
  (`core/scheduler/scheduler.ts:447-457`), for which `WaitsForPrevious` allows.
* The editor and the inline edit work on the oldest active call
  (`core/scheduler/confirmation.ts:252`), so with two dialogs open the second call
  gets the first one's contents. No run has two editable calls in a wave, and the
  theorems on permission leave them out (`EditsAlone`).
* `state-manager.test.ts:410` says that updates of terminal calls are ignored;
  `state-manager.ts:144` ignores them only after finalization.
* A client that calls `cancelAll()` without firing the signal, as
  `a2a/agent/task.ts:234` does, leaves the loop waiting for the answer
  of a dialog that is no longer shown; hence `CancelledIsAborted` above.
* When `cancelAll()` comes while a hook runs, the arguments the hook makes are
  put into an object the store has already replaced: the policy judges the new
  arguments, the old ones run (`docs/hooks/reference.md:108` promises that the
  hook's override them). `RunsAsRewritten` therefore promises it until `cancelAll()`.
  Late output does the same to the tail call of a command that runs on in the
  background (`scheduler.ts:729`): it replaces the call while the hooks of the tail
  call work. The theorem on `RunsAsRewritten` leaves such calls out.

*Shell commands*

* The background timer does not ask whether the command has completed
  (`core/tools/shell.ts:610`): the history gets a record that says "running" and a
  log is opened that no exit will close. `NothingOutlives` and the ghost variable
  `late` leave those commands out.
* `background()` opens a log without a look at one that is open
  (`core/services/shellExecutionService.ts:1381`). The key and the timer do not meet
  there: for a command of the model the key goes to the lifecycle service alone
  (`cli/ui/hooks/useExecutionLifecycle.ts:209-213`), and one typed by the user has no
  timer. Two presses of the key within one chunk of input, before the interface
  has drawn the first, leave the first stream of a typed command open for ever;
  `NothingOutlives` and the ghost variable `repeated` leave it out.
* An abort during the preparation of a command is not heeded: the listener is added
  after several awaits without a look at the signal
  (`core/services/shellExecutionService.ts:1240`), and the command runs on.
  `KilledEnds` therefore speaks of commands that were sent a kill.

*Policy*

* An approval of the same tool and words that is saved later replaces the modes of the
  rule in the policy file (`core/policy/config.ts:742`), for example from two dialogs that
  are open while the mode changes. After a restart an approval given in the default mode
  no longer holds there, against `docs/reference/policy-engine.md:185`. `SavedStays` asks
  for the modes of the last approval only.
* Two sessions that save approvals at once lose one of them: the chain of saves is
  one of a process.
* The heuristic for dangerous commands turns a denial without a pattern into a
  question (`core/policy/policy-engine.ts:306-334`); `ExcludedIsDenied` leaves those
  commands out.
* The loop over the rules goes on after a match when the decision was not the
  rule's own (`policy-engine.ts:586`), so it is not always the first matching rule
  that decides; `RuledBy` models it, and `NoLaxerThanParts` holds nevertheless.

*Models*

* With the default verbosity a server error that persists is answered with
  "retry once" (`cli/ui/hooks/useQuotaAndFallback.ts:163`), which resets the attempts
  (`core/utils/retry.ts:196`, `:292`): the call goes on until the server recovers or
  the user aborts. `EveryCallEnds` therefore asks for the full verbosity.
* `docs/cli/model-routing.md:25` says that the request is then sent to the fallback
  model: after "retry once" the next attempt goes to the model that failed, since
  nothing on that path consumes the choice. The sticky attempts of
  `modelAvailabilityService.ts` are not consumed by the code as it stands either.
* `docs/cli/model-routing.md:20-22` says that utility calls fall back without
  prompting and without changing the configured model. The chain is that of the
  active model, not of the call (`core/fallback/handler.ts:30`): a utility call asks
  the user about the main chain, unless the active model is the lite one, and a
  silent fallback sets the configured model (`core/config/config.ts:1830`).
* Every change of the model forgets the health of all models, terminal marks
  included.
* The catalog makes every failure terminal for a model, the temporary ones, too
  (`core/availability/policyCatalog.ts:51`). With the low verbosity a call that is repeated
  unasked can therefore give up the model that the dialog of another call offers;
  `OfferStaysGood` leaves this case out. With `sticky_retry` for temporary failures, the
  other value a configuration may have, it holds in every case (`OffersStayGood`).

*Conversation*

* On RETRY the UI should discard what the failed attempt showed
  (`core/core/deepseekChat.ts:62`); no consumer does. The terminal has "Will add the
  missing logic later" (`cli/ui/hooks/useDeepSeekStream.ts:1532`), the session emits
  nothing (`core/agent/event-translator.ts:269`), the A2A task breaks
  (`a2a/agent/task.ts:836`). So a part may be shown twice and recorded once, and nothing
  is promised of what is shown.
* When the turn ends at its start, because the context would overflow or a loop was
  detected before (`core/core/client.ts:695`), the message is not sent, tool results in
  it are lost, and the history ends with unanswered calls; the comment at
  `client.ts:652` says that a response must follow immediately. `dropped` records
  them, as well as results dropped by the consumer after STOP_EXECUTION or a switch
  of the model.
* Calls collected from an attempt that failed run after the RETRY
  (`cli/ui/hooks/useDeepSeekStream.ts:1530`).
* With three overlapping senders the two that wait for the same stream are released
  together (`core/core/deepseekChat.ts:272`, `:307`), and their answers may be recorded
  in each other's place; with two, the instance here, `AnswersItsHistory` holds. In
  the terminal client messages overlap only through the A2A server.
* A message of another sender resets the loop detector of a prompt under way.
* The legacy session ends its stream at the event Finished, before the answer is
  recorded in the history.
* An AfterModel hook may replace a chunk for the consumer; the chunk of the model is
  recorded (`core/core/deepseekChat.ts:904`, `:938`). A call that is replaced by text is in the history and is
  never run or answered; `CallsAreAnswered` leaves it out (`dropped`).

*A2A server*

* `cancelTask` makes a task canceled, but an execution that still streams sets it to
  "working" or "failed" afterwards (`a2a/agent/executor.ts:217`, `:616`).
* The promise is resolved when a call asks for input, with results of its siblings
  sent to the model, while a sibling that is scheduled keeps the task from asking.
* Tool calls in the answer to a second request's text are dropped.
* After the final event the socket ends, which fires the signal of the calls of that
  request: calls that await an approval are cancelled.
* A batch that waits in the scheduler is rejected by `cancelAll()` or its signal, and
  nobody handles the rejection (`a2a/agent/task.ts:764`): the process, which makes every
  uncaught exception its end (`a2a/http/server.ts:25`), exits, with all its tasks.
* `cancelTask` disposes of the `Task` object but does not stop an execution that
  streams (`a2a/agent/executor.ts:262`). The calls that this execution makes afterwards run, but the
  task hears of none of them, and the execution waits for ever; `WaitsForSomething`
  speaks of tasks that listen.
* `cancelPendingTools` passes through the state "input-required" when several calls
  are cancelled, since the task sees each update.

*Local agents*

* A deadline that fires while tools run is reported as an abort, without the turn of
  grace; so is a call that was cancelled because a sibling was refused
  (`core/agents/local-executor.ts:717-720`, `:1243`).
* The first answer of several questions restarts the clock (`local-executor.ts:566`);
  `TimeIsCredited` is stated for runs in which questions did not overlap.

*Hooks*

* The answers to events of the model are merged field by field
  (`core/hooks/hookAggregator.ts:222`), so that a later "allow", which plain text counts as,
  too, overwrites a denial, where `docs/hooks/reference.md:200` says that it blocks the
  request. `DecisionsCount` is about the other events.
* "Force kill after 5 seconds" (`core/hooks/hookRunner.ts:381`) never happens on
  POSIX: `child.killed` is true as soon as SIGTERM was sent, so a command that
  ignores it is waited for. So is one whose children hold its pipes, and the answer
  of such a command that exited in time counts as timed out. `EveryFiringEnds` has
  both as its exception.
* `docs/hooks/reference.md:108` says that `tool_input` merges with the model's
  arguments. Within the hooks of a sequence it does, but what is run is the last
  hook's object alone (`core/scheduler/hook-utils.ts:89`): arguments it does not
  name, and edits of earlier hooks to them, are lost.
* Exit code 2 blocks only with plain text: with JSON the JSON counts, without output
  nothing (`docs/hooks/reference.md:12` says that the action is blocked). Other codes
  than 0 and 1 with plain text block as well; line 14 there says that they warn.
* `/hooks disable` lasts until an extension is started or stopped: `initialize()`
  takes the list of the start, which `updateDisabledHooks()`
  (`core/config/config.ts:3705`) would bring up to date, but nothing calls it.
* A duplicate that is left out takes its `sequential` along, although the comment at
  `core/hooks/hookPlanner.ts:54` says "if ANY hook definition".

## 4. What is proved

TLAPS checks the theorems for every value of the constants that satisfies the named
assumptions of the modules: every set of jobs, calls, signals, executions,
requests, every bound. Each invariant was first checked with TLC on the instances
above. The `BY` of each step names what it rests on; the provers are an SMT
solver, Zenon and, for the temporal steps, LS4.

None of them takes a predicate as a parameter, so the induction theorems of the
library cannot be applied. Where a recursive function is reasoned about (`Verdicts`,
`Filtered`, `Aggregated`), the induction is done by hand for that function: a set of
numbers without a least element is empty, which is `WFMin` for the numbers.

### Scheduler (`SchedulerProofs`)

The assumption `SchedulerAssumption` says that each batch is nonempty and without
repetition, and that batches are disjoint.

* `TypeCorrect`: `Spec => []TypeOK`. `TypeOK` is not
  inductive: `RunEnds` copies the executor's result into the status, and a
  result may be "none" or "expansion". The strengthening is
  `SettlingHasResult` (a call whose run is being evaluated has a result), which
  with the guard of `RunEnds` excludes both. The proof has a lemma for each
  group of actions, per variable group where they are disturbed together.
* `InOnePlace`: `Spec => []OnePlace`: no call is queued twice or
  in two of queue, active map and completed list. `OnePlace` is not
  inductive on three accounts, and `PlaceInv` adds what is missing:
  `SuspendedInWave`, a coroutine that is suspended belongs to an active call
  (otherwise a tail call could be queued while it is queued or completed);
  `DrainedAtRest`, queue and active map are empty when the loop has returned
  (otherwise the next batch would be added to remains of the old one); and the
  type invariant. The sequence lemmas (splitting, taking the head, putting a
  call in front or at the end of a sequence without repetition) carry the cases
  of `StartWave`, `AnswerErrored`, `TailCall` and `StartBatch`. `OnePlace` is
  proved and no longer checked by a run.
* `ReportsOnce`: `Spec => []ReportedOnce`. Two layers carry it.
  `WaveInv` says what a wave is like while it is awaited: queued calls are fresh
  (`QueuedFresh`), a coroutine is at a step that belongs to the phase of the loop
  (`StepInPhase`), a call whose coroutine has ended is decided, or is a
  detachable one that late output made executing again (`IdleSettled`). From the
  last it follows that `FinalizeWave` never ends the loop for lack of progress,
  hence that a loop that has ended leaves its queue empty (`RestDrained`).
  `ReportInv` ties calls to batches: one job is served at a time
  (`OneBatchAtATime`), the line holds the queued jobs once each (`LineOfQueued`),
  the store holds calls of the current batch only (`OwnCalls`), answers given
  are disjoint from the store (`AnswersApart`). A call is then reported at the
  moment it enters the completed list, and no call enters it twice.
* `CompletedStays`: `Spec => CompletedIsFinal`, from the lemma
  `BatchStep`: every step except the start and the end of a batch only `Moves`
  calls between the places of the store, and changes the status of no call
  outside queue and active map.
* `NoneIsLost`, `AnswersAreComplete`:
  `Spec => [](Detachable = {} => Accounted)`, and the same for `AnsweredInFull`.
  Without detachable calls no call is active between two waves
  (`ActiveInWave`), so the batch is in the completed list when the loop returns.
* `NoneStrays`, `AnswersMissNone`, for any `Detachable`:
  `Spec => [](current # NoJob \/ active = {} => Accounted)`, and the same for
  `AnsweredInFull`. `Together`: while a batch is processed, its calls are all in the
  store, whatever a call in the background does. `GivenInFull`: an answer misses at most
  what is still active, and another batch starts only when nothing is. So both
  properties can fail only while the scheduler rests on a call that was never
  finalized, which is what `LateOutputFreezes` shows.
* `ServedInOrder`: with `Detachable = {}`, `Spec => ServesInOrder`,
  step by step: `ScheduleNow` is `Start`, `ScheduleLater` is `Wait`, `Abort` and
  `CancelAll` are `Leave`, `ReturnBatch` is `Finish`, all others stutter.
* `ConsentFirst`: `Spec => []AskedBeforeRun`, for all constants. The invariant
  (`ConsentInv`) says it of every call that may run, is scheduled or will be when its
  coroutine goes on: a call that the policy denies has got past it only by a hook
  (`DeniedIsForced`, `PastPolicy`), and one that a hook sent to the user was asked about
  after the last change of its request (`ForcedIsAsked`, `Heeded`).
* `RewrittenArgsRun`: `RunsAsRewritten` when `EditsAlone` and `HooksInPeace`: calls with
  editable proposals set `wait_for_previous` and make no tail call, and no call that the
  hooks have a say in both goes to the background and makes a tail call. `ArgsInv` says of
  every call that has its permission (`Cleared`) that the arguments are those of the
  permission. That a hook's rewrite reaches the invocation as well as the policy
  (`RewriteSeen`) needs the call to be the one the store knows while the hook works
  (`HookHeard`), and the request to carry nothing of an earlier run (`UncheckedClean`,
  for all calls that are queued or still to come). That an edit reaches the call it was
  made for needs that call to be alone among the active ones (`EditedAlone`).
  `cancelAll()` breaks `HookHeard`; the next batch, which starts the promise anew, starts
  when no call is active, so that the rest of the invariant carries it over.
* `PermittedArgsRun`: `RunsAsApproved` when `Hooked = {}` and `EditsAlone`, after
  `cancelAll()` as well, from the same invariant.
* `RefusalHolds`: `Spec => []RefusalEndsBatch`.
  Calls that are still to come are undecided (`Untouched`, `QueuedUndecided`). A
  refused call only waits to be cancelled (`RefusalDecides`), unless late output made
  it executing again, and has emptied the queue, where only tail calls can get
  afterwards (`RefusalEmpties`). When it is finalized, only tail calls are queued,
  checked or run, and a scheduled sibling that is none stands beside a call that is
  executing with no coroutine left (`Stuck`); nothing but `cancelAll()` ends such a call,
  and that ends the sibling too, so it never runs (`AfterRefusal`).
* `WaitingHolds`: `Spec => []WaitsForPrevious`.
  The property is about calls that run; the invariant is about all that have begun.
  `LineKept`: tail calls are queued before fresh calls, and those stand as they were
  requested. `BegunInOrder`: while a batch is processed, what was requested before a
  call that has begun is not fresh any more, and is completed when one of the two waits.
  `Together` supplies that every earlier call is somewhere, and `IsWave` that a call that
  waits, which a fresh call does exactly when its request says so (`OwnWaits`), is alone
  in its wave.

The restrictions on the constants of `NoneIsLost`, `AnswersAreComplete`, `ServedInOrder`,
`RewrittenArgsRun` and `PermittedArgsRun` are necessary: a detached call
that writes late is never finalized, so that callers wait though nobody is served
(`LateOutputFreezes`), late output hides a tail call from its hooks, and an edit may
reach another call (section 3).

### Shell commands and executions (`ShellProofs`)

Every step is one method of the lifecycle service or leaves it alone (`LifeStep`,
lemma `OnlyMethods`), so that invariants of the service need one case per method
and not one per action of the shell.

* `PromiseKept`: `Spec => ImplementsExecution`, the whole refinement. `Registry`: a
  promise is pending exactly while its resolver is registered, and then the
  execution is active. `Answers`: what was moved to the background was answered so,
  and an active execution has no fate and no injection. Each method then is an
  action of `Execution` or a stutter.
* `ExitsAreHeard`: `Spec => []ExitHeardOnce`, from `Listening`: who listens has
  asked early, for an active execution, and has heard nothing.
* `CommandsTidyUp`: `Spec => []NothingOutlives`, from `Processes`: what the state of a
  process says of its registration, its record and its log stream, for commands
  that were not moved to the background too late; the count of its open streams is
  exact but for a key pressed twice.
* `ShellTypes`: `Spec => []TypeOK`. Its one fact that is not a type is
  `StreamsCounted`: a stream that nobody has told to end counts as open, so the exit
  and the kill, which both end the log, never count below zero.

### Policy (`PolicyProofs`)

* `ApprovalsAreKept`: `Spec => []SavedStays`. `InTurn`: the file is read for one
  approval at a time and is not written between reading and writing, so what is
  merged is the present file; `MergedKeeps`: merging keeps tool, words and
  redirections of every rule, and the modes of all but the one that is approved again,
  which gets the new ones.
* `PartsCount`: `Spec => []NoLaxerThanParts`. That `Verdicts` is the function its
  recursive definition asks for is `VerdictsAre`, by induction over the length of
  commands (`PartsAssumption`). The verdict of one rule on a command is either as strict
  as every part's, or is not returned to the loop (`RuleVerdictBounds`,
  `ShellVerdictBounds`); the rule that decides is one that is returned, if there is any
  (`RuleThatDecides`); and the default bounds like a rule.
* `HiddenIsDenied`: `Spec => []ExcludedIsDenied`. Both theorems need only that the rules
  in force are the configured ones with rules added that allow (`Extends`), in every
  state: the approvals of this session and those loaded from the file (`WithRulesKeeps`,
  `WithApprovalsKeeps`).
* `ApprovalsHold`: `Spec => [](ApprovalsDecide => ApprovalHolds)`. `ApprovedInv`: the
  rules stay in the order of their priorities wherever a session adds to them
  (`WithRulesInOrder`), each is configured or an approval, and every first word of an
  approved command has its rule. So, unless the call is overruled, an approval is the
  first to match the command and each of its parts, and all that match before it are
  approvals as well (`Covered`). Such a rule is returned to the loop unless a redirection
  that it does not cover makes it ask, in which case it is passed over
  (`ApprovalVerdict`); the induction over the parts is `CoveredNeverAsks`. The hypothesis
  `ApprovalsDecide` names what an approval cannot settle: a command that cannot be parsed,
  or runs more than was shown (`Settled`), permissions outside the workspace, a
  configured rule of exactly the priority of approvals, which comes before them. The
  instance of `PolicyApprovals` satisfies it in every state.
* `PolicyTypes`: `Spec => []TypeOK`. What a check may answer is a decision whatever a
  safety checker says (`CheckedAs`), so a tool is never told anything else; the file and
  the approvals that wait to be saved have finitely many first words each (`SavedInv`),
  which keeps the rules made of them a sequence.

### Models (`ModelProofs`)

* `ModelTypes`: attempts stay within the limit, and what is offered and active is named.
* `OneDialog`, `OffersStayGood`: `DialogIsOne`, `OfferStaysGood`, from `DialogInv`, which
  adds that a dialog offers a model of the chain. `DialogKept` says what every step but
  those of a dialog leaves as it is, so that the invariant has four cases and not one
  per action.
* `ConsentNeeded`: `Spec => SwitchNeedsConsent`, from the types and from
  `CatalogAssumption`: only the chain of the utility calls is silent.

### Conversation (`ClientProofs`)

* `TurnTypes`: `TypeOK`, which needs `TurnInv`: who streams is sending, who may go on has a
  turn left, who pauses has an attempt left.
* `AnswersFollow`: `Spec => [](AtMostTwo => AnswersItsHistory)`. `OneStream`: one stream at
  a time, which is the one that `sendPromise` stands for and that others wait for;
  `RequestStands`: after the message under way, only contexts and results recorded by
  hand follow. The restriction to two senders is necessary (section 3).
* `CallsFollowed`: `Spec => []CallsAreAnswered`, for any number of senders. The results of
  the calls of an answer after which its sender has said nothing are on their way
  (`CallsKept`, `Awaited`): in the tools, in the turn that has just ended, or in the next
  message, or they have been dropped. `Collected` says that the turn and the consumer
  know the calls of a stream, unless a hook has replaced them, `MainAlone` that other senders come through the A2A server
  only, so that context is added when nothing is open.

### A2A tasks (`TaskProofs`)

Lemma `SchedulingReports` reduces every step of the scheduler to one update of one
task (`Reported`), so that an invariant of the task is proved once for all of them.
The only assumption is `TaskAssumption`.

* `OneDrives`: `Spec => []OnePrimary`, from `Marked`: the task is marked exactly when
  one request is primary.
* `EachToldOnce`: `Spec => []ResultsOnce`, from `Counted`: a call was told once if it
  is processed, and never if not; and a kept result is not of a processed call.
* `ResultsKept`: `Spec => []NoResultLost`, which is inductive together with the types
  (`Kept`) and with `Owned`: calls and requests belong to Task objects that are
  loaded.
* `NoWakeupLost`: `Spec => []WaitsForSomething`, from `Awaited`: who waits for an open
  promise waits for that of its own task, which is open and has pending calls; and
  from `AtWork` and `Heard`: while the server runs, a pending call of a task that listens
  is one the scheduler still works on, whose end the task has not processed.
* `TaskTypes`: `Spec => []TypeOK`, from `Kept`, `Owned` and `Noted`.

### Local agents (`AgentProofs`)

* `AgentTypes`, `TimeKept` (from `LimitHolds` and `CreditHolds`), `AbortHolds`: `TypeOK`,
  `TimeIsKept`, `AbortEndsWork` for every budget, grace period, number of turns
  and set of calls. The invariant relates the clock (`ClockOK`), the calls that wait
  for the user (`CallsOK`, `WaitOK`: a stopped clock means that one does) and the
  time spent (`SpentOK`: worked, elapsed and remaining time add up to the budget).

### Hooks (`HookProofs`)

`HookAssumption` is all that is assumed: any number of hooks of any sources, keys and
matchers, any events, and any answers.

* `HookTypes`: `Spec => []TypeOK`; the verdict of a firing is one of `Verdicts`, since
  every answer that is folded into it keeps it there (`StrictestIs`, `LastIs`, `UnionIs`).
* `EditsAreSeen`: `Spec => []SeesEarlierEdits`. `OncePlanned`: no hook is registered or
  planned twice (`PlanIs`, from the lemmas `Kept` and `Joined` on filtering and joining),
  so that a hook has one place in the plan; what has not ended has not answered.
  `InSequence`: while a hook of a sequence runs, those before it have ended and those
  behind it wait (`NextInLine`: the next to run is the first behind it that is not
  refused). `EditsKept`: the input has the edits of those that succeeded in the order of
  the plan, and no more of them than there are hooks before the one that runs.
* `DecisionsKept`: `Spec => []DecisionsCount`. `VerdictKept`: when a firing is over, its
  verdict is `Aggregated` of the answers present, whatever came in between.
  `AggregatedIs` says that this is a fold over the plan; `StrictestFold` and `UnionFold`
  say, answer by answer, what the fold keeps.

### Only model-checked

* Liveness and the fairness part of `ImplementsBatchService`, which are beyond the
  prover.
* `AnsweredInFull` in the instance of `SchedulerLive`, where a detachable call is alone
  in its wave, also while the scheduler rests; the theorems leave that case out, since
  with siblings it fails (`LateOutputFreezes`).

## 5. What is not modelled, and why

Of the modelled components: the published snapshots, the approval-mode switch of
edit tools ("proceed always" of an edit changes the mode of the session; in
`Scheduler` "always" changes the policy of the tool), telemetry contents, `dispose`;
output of commands; loading of policy files and trust of workspaces; the credits
dialog of the fallback; compression and masking of the history; the modification of
proposals, `autoExecute` and the file system of A2A tasks; hints and activities of
local agents; messages, telemetry and the translation of model requests of hooks.

Of the system: the components marked `not_modelled` in `PROJECT.json`, for the
reasons given there: input and output (tools, MCP clients, recording, telemetry,
authentication, sandbox), presentation (the terminal interface, the largest part of
the code, of which only what it does to the core is modelled), text processing
(context management, prompts), data definitions (settings) or stateless chains
(routing).

## 6. Plan

What is left, the most important first.

1. Composition of `HookSystem` with `Scheduler`, in place of the free outcome of a
   hook there; and of hooks that end a turn with `ClientTurns`.
2. Composition of `PolicyEngine` with `Scheduler`: approvals of one call that decide
   about its siblings, changes of mode in a batch.
3. MCP manager: discovery and restart of servers while tools are in use.
4. Loop detection with its thresholds, in place of the free choice in `ClientTurns`.
