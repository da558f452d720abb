# Pan-agent in TLA+

Pan-agent is a coding agent: a TypeScript program that lets a language model work on files with
tools, under budgets, deadlines and a verifier, and that keeps a tamper-evident archive of every
run; a Go/PostgreSQL web application (`apps/evidence-web`) that queues questions and lets
Workers run them in child processes and containers; and a Python harness
(`workspace_agent_harness`) with a kernel, an evented agent loop, paid evaluation campaigns,
protocol studies and a live session. This directory models the parts of it that are
protocols — where several processes, callbacks or files meet, and where a step may fail or be
interrupted — checks them with TLC and proves the most important results with TLAPS.

- [Inventory](#inventory) — the components, their state and what makes them hard
- [Modules](#modules) — what models what, and how
- [Runs](#runs) — what is checked, with which bounds, under which fairness
- [Proofs](#proofs) — what holds for every value of the constants
- [Disagreements](#disagreements) — where code and documents differ
- [What is not modelled](#what-is-not-modelled) and the [plan](#plan)

Paths below are relative to the repository; `execution/` stands for
`typescript/src/execution/`, `runtime/`, `memory/` and `sandbox/` likewise, and `tasks/` for
`apps/evidence-web/internal/tasks/`; Python files without a directory are those of
`workspace_agent_harness/`.

## Inventory

| Component | State it keeps | Operations | Hard because | Correct when |
|---|---|---|---|---|
| Reservation ledger (`execution/admission.ts`) | counts per run and in total, tickets, usage, a promise queue | begin, admit, settle, snapshot | the sink is awaited between the test of a cap and the charge; begins are not queued; the sink fails | budgets hold, what is granted was persisted, nothing is refunded or counted twice |
| Execution controller (`execution/controller.ts`) | reason, abort signal, cadence, stop promise, reconciliation loop | execute: plan, attempts, verdicts, finally block | a revocation may come at every await; records, runs, stops and cleanups fail; timers | no dispatch after a revocation, the runner is stopped, success is timely, it ends |
| Task store, Workers, coordinator (`tasks/*.go`, `internal/worker`, `internal/executor`) | task rows, leases, checkpoints, children, containers | claim, admit, checkpoint, publish, control, resume, finish, Maintain | READ COMMITTED statements, leases that expire under a live Worker, crashes, stale authorities | slots and order respected, a confirmed stop is one, cancel wins, resume waits |
| Run archive (`memory/run-archive.ts`) | `events.jsonl`, `manifest.json`, the writer's chain | beginRun, append, settle, open, recoverRun | a crash or an error inside any write, also of the recovery; no lock: a start recovers a run that is still written | acknowledged records stay, a seal verifies and is final, a run is settled |
| Agent session and native kernel (`runtime/session.ts`, `native-kernel.ts`) | admission flags, the kernel's controller and transcript, the archive's writer | runTask, cancel, close; the loop of exchanges and tools | cancel and close at any await, records that are lost, two places that remember a cancel | nothing runs unrecorded or after a cancel, the archive says what was returned |
| Process runner, supervisor, worker (`execution/process-runner.ts`, `supervisor.ts`, `worker.ts`, `maintenance.ts`) | process groups, RPCs, a bounded stop, whether a generation settled | run, verify, stop, reconcile, preserve | three processes, each of which may freeze or die | a stop that is confirmed is one |
| Docker sandbox (`sandbox/docker.ts`, `session.ts`, `cli.ts`) | `state.json`: phase, identities, destination and hash of the export; the container, volume and verifier at the daemon | prepare, call, stop, recover, verify, export, cleanup | four holders load and rewrite one state file whole; a death between a request to the daemon and its record | no work is lost, a confirmed stop ends all effects, what is verified is what was archived |
| Authorization, checkpoints (`runtime/authorization.ts`, `checkpoint.ts`) | approvals, policy revision; the checkpoint file | authorize, revoke; invalidate, pending, commit | an answer that comes after what it was asked for changed | a stale approval is void, an effect is never repeated |
| Web executor children (`apps/evidence-web/executor/*.mjs`) | operation stages, the checkpoint in the child | run, reconcile | a child that dies in a stage | a stage is done once or reconciled |
| Retrospective ledger, runbook (`memory/`) | an append-only file, a file replaced whole | append, list, replace | no lock | entries refer to sealed archives |
| View cache (`internal/httpapi/cache.go`) | Redis entries, an index of keys, slots | lookup, fill, invalidate | a fill that races an invalidation | no view older than its bound, none of another owner |
| General runtime, proof packs, campaigns (`__init__.py`, `proof_packs.py`, Python) | registrations, grants, the run's workspace and traces, the frozen artifact, the evaluator's process group, `attempts/` and `report.json` | create, run: admit, stage, loop, freeze, evaluate, report; campaign run | registered code may change behind it, evaluators hang, fork and ignore signals, any write may fail | tools stay within four grants, a pass is earned, traces and attempts agree, the evaluator is gone |
| Agent loop, context projection, behavioral evaluation (`evented.py`, `context_projection.py`, `behavioral_eval.py`) | the Run Event Log, history groups, the artifact store | turns, projections, one retry after an overflow, batches of calls; rebuild a report | a cancel at any exchange or call, a death between any two events, an artifact store that fails half-way | the log tells the effects, what is sent is whole and fits, a rebuilt report agrees |
| Live evaluation campaign (`deepseek_live_campaign.py`, `deepseek_live_runner.py`) | the meter, the gateway's stop, intents, authorizations, settlements, attempts, a stop record | run: slots and exchanges; reconstruct the report | money is spent between two files; every write may fail, tear or be the last | nothing is sent unrecorded or after a stop, the report is true |
| DeepSeek gateway, canonical conversation (`deepseek_live.py`, `translation.py`) | none but the conversation | decode a reply, encode a request | what one turn accepts the next has to send | an admitted turn can be sent back |
| Live session, trusted-local commands (`live_tui.py`, `trusted_local.py`) | the screen, the run's thread, typed lines, a command's processes | prompts, runs, interrupts; shell and terminal commands | interrupts at any step, descendants that hold output or leave the group | no command or run outlives its session in order, a cancel ends a run |
| Protocol studies (`protocol_reliability.py`, `protocol_max_token_sensitivity.py`, `scripts/`) | a directory per slot, the summary, the committed configurations | start, run a slot, repair, summarize | runners die anywhere and are started again, perhaps with another configuration | summaries count what was paid, drift stops, the second study's source stays |

How they interact: the controller gives every attempt a ledger guarded by its own revocation
(`controller.ts:40`) and drives a runner, whose worker process holds a session; the session's
kernel asks the ledger for every exchange and batch and emits observations, which the session
archives before the user sees them. The web application's Worker claims a task from the store,
starts a child with a session, and every effect of the child is admitted by the store first; the
coordinator (`Maintain`, run by the API server and by every Worker) confirms the stops of
executions whose Worker is gone. In the Python harness the kernel's campaigns run its bounded loop and
judge what it froze in a process of their own; the evented loop is what the live campaign, the
behavioral evaluation and the live session run, each with a gateway of its own: the campaign's is
budgeted and writes before it sends, the session's is the DeepSeek gateway. The studies call the
provider directly.

Each hazard found in this code, with its line and the properties that watch it, is listed in
`PROJECT.json`.

## Modules

**`BudgetAllowance` ← `BudgetLedger`.** The allowance is what `execution/README.md` promises:
"atomic whole-batch reservations" as one step that tests both caps and charges both counts. The
ledger is `admission.ts`: requests join a promise queue (`Admit`, `Settle`); the head is checked
(`AdmitRefused`, `AdmitChecked`, `SettleIgnored`, `SettleChecked`), the sink is awaited (`writing`)
and acknowledges (`AdmitRecorded`, `SettleRecorded`) or rejects (`AdmitUnrecorded`,
`SettleUnrecorded`). `Begin` and `Stop` are not queued and may fall into that await. Usage is
abstracted to whether it is complete ("reported") or not. `granted`, `restored` and `imported` are
history variables. `MaxSafe` is `Number.MAX_SAFE_INTEGER`.

**`ExecutionContract` ← `ExecutionController`.** The contract is what a plan promises: attempts one
after another, none after a revocation, one reason for good, no end while an attempt runs. The
controller is `execute` with one `pc` value per await, the listeners of the abort signal
(`Revoke` runs them synchronously), the reconciliation loop as a process of its own, and the finally
block (`Drain` … `Terminal`). The runner is its interface: a run settles or rejects, a stop settles
true or false or rejects. A rejection nobody listens to ends the process, as in Node
(`pc = "crashed"`). `RecordFails` and `LastRecordFails` make every
`record` fail.

**`TaskOwnership`.** The PostgreSQL rows of `ew_tasks` and its checkpoints (`row`, `point`), the
Workers' sessions (`lease`, `exec`), their children and containers (`child`, `box`), and the
coordinator (`listed`, the stale listing it works from). A transaction that locks the row is one
action; the claim is two, as its safety query and its pick are separate READ COMMITTED statements
(`ClaimCheck`, then `Claim` and its variants). `Holds` is `requireAuthority`: attempt, owner and
generation. `Crash` ends a Worker and leaves its child and container running; `LoseLease` lets its
lease expire while it goes on. `Act` is an effect in the container, which goes on when the child
dies.

**`SealedLog` ← `RunArchive`.** The log is what ADR 0015 promises: records appended, never lost, and
one seal. The archive is the two files as sequences of lines and a manifest, and the processes that
write and recover them, beside each other, one action per file operation. `Crash` may cut the write a
process is in, and an append may fail half-way in a session that goes on (`WriteFails`): either leaves
nothing of the line, some bytes, all but its newline, or all of it (`Cut`). A recovery truncates at the byte
it read before, whatever others did to the file since (`CutAtPrefix`). The history variable `sound` says when
the code's guarantees end: a recovery begins while another process is busy with the archive (`Opens`), a
crash leaves a line without its newline, or a session goes on after an append that left bytes. What was
acknowledged until then is kept for ever (`AcknowledgedKept` has no such condition); that a seal verifies,
and the sealed log, are promised while the archive is sound, and Disagreements shows the seal that does
not verify after each of the three.
Hash links are modelled as what they commit to: a line's `previous` is the sequence of the bodies
before it. The refinement mapping reads the log off the longest prefix that verifies.

**`AgentSession`.** `executeTask` and the kernel's `execute` as one task with one `pc` value per
await; the loop is `turning → turnStarting → checking → exchanging → turnSettling → calling →
toolStarting → dispatching → executing → toolSettling`. `cancelled` is the session's
`admissionCancelled`, `signal` the kernel's controller: which of the two knows of a cancel is what
`CancelHolds` is about. `RecordLost` is `emit` when the archive or the sink rejects. The transcript
is the number of its calls that have no result.

Actions named `…Heedless`, `…Unchecked`, `…Behind` and the like, each with a one-line comment, are
variants of the action that follows them with a plausible mistake. `Next` does not use them; they
show that a property notices the mistake.

**`DockerSandbox`.** One sandbox with its four kinds of holders of `state.json`: the worker (a thread
`task`, and a thread `cancel` for `SandboxSession.cancel`), the `runner` that freezes and verifies a
candidate, and the `helper`, which is the maintenance process of a stop or a preservation and, once
the execution is gone, an operator's command. Each has a `copy` of the `State` and rewrites `file`
whole (`Record`). A thread is at a step `at` of an operation, and `todo` lists the operations after it:
`export` is `<<"stop", "export">>`, the preservation
`<<"load", "stop", "remove", "reader", "choose", "stop", "export", "cleanup">>`. `Records`, `Asks` and
`Goes` are the three kinds of steps between two awaits: a record, a request to the daemon, and neither.
`Fails` lets every request, file operation and check throw; `WorkerDies`, `HelperDies` and
`ControllerDies` happen at every step. `docker` is what the daemon has: `box` is the container of the
sandbox's name, its own or the reader that recovers a lost one, `shell` whether commands run in it,
also those no call waits for. Files are abstracted to `content`, how often the workspace was
written, and an archive to the content it holds. The daemon's own behaviour (it creates a volume a
mount names and does not find, keeps one that is mounted, refuses a second container of a name) is
taken from how the code relies on it. Nobody else is taken to touch the containers or archives.

**`GeneralRuntime`.** A campaign of `EvaluationCampaign.run` over `GeneralAgentRuntime.run`: `Create` and
`CreateCampaign` compare registrations and hashes, `Admit` and `Refuse` resolve the common authority of
the four grants and the limits, `Calls`, `Denied`, `Complete`, `ToolFails` … are the loop, `Freeze` the
snapshot, `Fork` … `Join` the evaluator's process and `_terminate_evaluator_process`, `Keep` and
`CampaignReports` the files. Content is `original`, `right` or `wrong`; a scope is the files it covers.
`Drift` changes something registered behind the runtime's back: `identity` is what a later comparison
notices, `helper` a function the frozen evaluator has copied. `judge` is what the evaluator's process
group is and what is known of it.

**`EventedRun`.** `AgentLoop.run` with the projector it is given (`Policies`), one action per answer of
the model, effect of a call or projection. `Write` appends events one by one and may end the process
between any two; `Refused` is the log's own admission. A result is small or `Large`; `CompactSize` and
`Recent` are what `SemanticContextProjector` keeps. `Evaluate` makes the report with the tools at hand
and `Rebuilt` the one from the log. `late` counts the requests and calls begun after a cancel.

**`LiveCampaign`.** The serial runner with its gateway, meter and store. Every file is written by an
action that keeps it, leaves it torn or leaves it absent (`Whole`), and a failed write or query is a
`Fault`. `lock` says which part of the frozen lock has drifted, and what the operator acknowledged.
`sent` is the history variable of exchanges whose request reached the provider. `Readable`,
`Inventory` and `ProviderExchanges` are `reconstruct_live_campaign_report`.

**`DeepSeekExchange` ← `LiveSession`.** The exchange is the gateway as pure operators: which replies
`decode_response` admits (`Rejects`), the message a candidate becomes (`Turn`), which conversations
`encode_request` can send (`Encodable`). The session has the main thread (`ui`), the run's thread
(`worker`), the terminal's unread `lines` and a command's `leader` and one descendant `kin` with a
`kind` (deaf to SIGTERM, holding the output, talking, away from the group).

**`ProtocolStudy`.** Both studies' runners as one process that is started again and again, with one
action per file or call; `Level` is `assess_provider_response`, `SourceHolds` the verification of the
second study's source, `Summarizes` and `Rows` the summaries. `made` counts the calls that left.

The proofs are in modules beside the models, some for two components: `ExecutionProofs` (the controller,
the ledger and the Docker sandbox), `TaskOwnershipProofs`, `SessionArchiveProofs` (the session and the archive),
`GeneralRuntimeProofs`, `LiveSessionProofs` (the live session and `EventedRun`), `ProtocolStudyProofs` and
`LiveCampaignProofs`. A model that shares a proof module with another names its parts apart from it
(`LedgerSpec`, `ArchiveSpec`, `RunSpec`, `SandboxSpec`). `SetSums` has the lemmas on induction and on sums over finite
sets. `MC…` modules and `.cfg` files instantiate the models for TLC.

## Runs

| Run | Checks | Shows |
|---|---|---|
| `budget_ledger` | `WithinBudget`, `PersistedBeforeGranted`, `AccountsBalance`, `ReservationsAreAtomic` | whatever queues, begins, fails or stops meanwhile, the ledger is the atomic allowance |
| `execution` | `RevocationReachesRunner`, `ContractHolds`, `KeepsTime`, `RevocationEnds` | the controller implements the contract, never succeeds late, keeps its cadence and ends once revoked |
| `task_recovery` | `StopIsProof`, `PointsAreCurrent`, `ControlsHold`, `StopsAreConfirmed` | one task, two Workers that crash and lose leases, two attempts with checkpoints |
| `task_queue` | `SlotsRespected`, `ConversationOrder` | three questions of a conversation, replacements, two Workers, one slot |
| `run_archive` | `ArchiveIsTrue`, `ImplementsLog`, `ArchivesSettle` | one run, three processes beside each other, two deaths or failed writes at any step |
| `agent_session` | `RecordedFirst`, `ArchiveTells`, `CancelHolds`, `CancelEnds` | two tasks of two exchanges with batches of two |
| `docker_sandbox` | `WorkSurvives`, `CleanedIsClean`, `StopEndsEffects` | one sandbox from its preparation to its cleanup; every holder fails or dies at every step, stops come at any time, operators repeat their commands |
| `general_runtime` | `WithinAuthority`, `RecordsAgree`, `EvaluatorIsStopped` | campaigns of the two seed packs with drift, failing writes, a death at any step and an evaluator that does what it likes |
| `evented_run` | `LogTellsEffects`, `RebuiltAgrees`, `CancelIsPrompt`, `ContextWhole` | one run under four policies, a death between any two events |
| `live_campaign` | `LedgerFirst`, `ReportTrue`, `StopIsFinal` | two paid slots, their lock whole or drifted, one failing write or query, cancels and crashes |
| `live_session` | `NextTurnEncodes`, `NothingOutlives`, `CancelEnds` | two runs, interrupts at every step, replies and descendants of every kind |
| `protocol_study` | `SummaryTrue`, `DriftStops`, `SourceStays` | two studies whose runners die anywhere and whose configurations change between starts |

A property may have named parts, each stated with its own comment: `KeepsTime` is `SuccessIsTimely` and
`CadenceHolds`, `ControlsHold` is `CancelWins` and `ResumeAfterStop`, `ArchiveIsTrue` is `SealedVerifies`
and `AcknowledgedKept`, `RecordsAgree` is `TracesAgree`, `CampaignCounts` and `VerdictsAreEarned`,
`WorkSurvives` includes `VerifiesWhatIsKept`, and `CancelEnds` of the session that a close ends too.
Each model's type invariant is a part of one of its properties.

**Bounds.**
- `budget_ledger`: two runs, two tickets, a queue of two, batches of one or two. A fault of the
  ledger needs one operation in its await and one more to meet it: a begin, an admission, a foreign
  or repeated settlement. `MaxSafe = 3` lies one batch above the caps, so both the caps and the width
  are reached.
- `execution`: a deadline at 5 and a cadence of 2, so that ticks fall before, on and after the end of
  an attempt and the deadline between two of them; two goal attempts (one that fails and one that
  passes). `Duration`, `Every` and `MaxGoal` are the plan's.
- `task_recovery`: two sessions (one that fails and one that takes over) and two attempts, since a
  resume is needed once; checkpoints of both versions (one may be resumed, one may not).
- `task_queue`: three tasks, so that a replacement can stand between two of a conversation; a single
  slot, so that every second claim contends; no checkpoints. Sessions are symmetric here; a run with
  a liveness property uses no symmetry.
- `run_archive`: one record and the settlement, three processes and two faults: a session that dies, a
  recovery that dies, and another that recovers from both, each also beside the others. A truncation whose
  prefix is no longer there (the second branch of `CutAtPrefix`) needs two recoveries beside a third;
  it is left to the proof of `AcknowledgedKept`, which holds for any number of processes.
- `agent_session`: `MaxTasks`, `MaxTurns` and `MaxBatch` of two: a second task meets the first one's
  transcript, a second exchange its results, a second call the first one's failure.
- `docker_sandbox`: two writes, so that an archive of the first may miss the second (a volume that is
  only ever written once cannot tell a stale archive). The number of failures, deaths of helpers and
  operators' commands is not bounded; there is one sandbox, since two share nothing but a limit on
  their number, and one worker, runner and execution, since a new generation makes a new sandbox.
- `general_runtime`: six requests — the seeds' own tasks of both domains, a repeated case beside one that
  is not eligible and one not selected, an open workspace, a scope that covers the task's without being
  its name, and no limit left; three calls and two steps at most, so that each limit is met first once.
- `evented_run`: five calls and steps, batches of two, a large result three times a small one and a
  window of five, so that a history fits, fits compacted, and fits with fewer groups.
- `live_campaign`: two slots of two exchanges, a ceiling of three calls, a cap and a campaign's tokens of
  two, so that each limit ends a campaign before the others in some run; one fault, since the first one
  that matters stops the campaign, besides any number of bad answers.
- `live_session`: three exchanges, so that a reply's identity can repeat and its reasoning be sent back;
  two runs, so that a line typed for the first may be read by the second; four kinds of descendants.
- `protocol_study`: one JSON slot, two strict ones (a cut one and a drift between two of a transport) and
  two of the second study; two configurations, which are symmetric.

**Fairness**, and why the code gives it.
- `ExecutionController`: time passes and timers fire; Node runs ready callbacks; a stop settles within
  its watchdog (`process-runner.ts:150`); a run settles *once it was stopped* (its supervisor kills it
  or the watchdog rejects the pending attempt) — before that it may last for ever; a verification is
  bounded by its own timeout.
- `TaskOwnership`: `Maintain` runs again and again in the API server (`internal/startup/startup.go:72`)
  and in each Worker, hence weak fairness of its listing and revocation; a stop that is tried for
  ever succeeds at last, hence strong fairness of the confirmation of each task: a cycle may end at
  an earlier task that fails. Nothing is assumed of Workers or users.
- `RunArchive`: a live process goes on, a session settles at last, and somebody opens the store again
  (`cli.ts:207` does at every start), beside a live process or not. There is one process more than
  `MaxFaults`, so that one survives.
- `AgentSession`: the event loop runs what is ready; an exchange or a tool ends only *if its signal is
  aborted* (adapters and tools watch it), so the liveness of `cancel` and `close` rests on the abort
  reaching them and not on a model that happens to answer.
- `GeneralRuntime`: the harness goes on; the model and the tools answer. Nothing is assumed of the
  evaluator's process, whose parent polls with timeouts (`__init__.py:2025`).
- `EventedRun`: the loop goes on; its run checks no liveness.
- `LiveCampaign`: the provider and the balance service answer within their timeouts, or fail.
- `LiveSession`: the run's thread and the main thread that watches it go on. Nothing is assumed of the
  human, the provider or a command's processes; `CancelEnds` says which descendants may hold a run.

`CHECK_DEADLOCK FALSE` stands where the system really stops: an execution that ended, a sealed
archive, a session without further tasks.

## Proofs

| Theorem | States | For every |
|---|---|---|
| `LedgerTypes`, `BudgetsHold`, `PersistenceIsABarrier` | `LedgerTypeOK`, `WithinBudget`, `PersistedBeforeGranted` of `BudgetLedger` | set of runs, tickets, batch sizes, limits, restored counts |
| `LedgerImplementsAllowance` | `ReservationsAreAtomic`: `BudgetLedger` implements `BudgetAllowance` | as above |
| `AccountsAlwaysBalance` | `AccountsBalance` of `BudgetLedger` | as above |
| `WorkAlwaysSurvives`, `CleanedIsAlwaysClean`, `StopsEndEffects` | `WorkSurvives`, `CleanedIsClean`, `StopEndsEffects` of `DockerSandbox` | number of writes |
| `RevocationsReachRunner`, `ControllerImplementsContract` | `RevocationReachesRunner`, `ContractHolds`: `ExecutionController` implements `ExecutionContract` | plan |
| `ControllerKeepsTime` | `KeepsTime` of `ExecutionController` | duration, cadence, number of goals |
| `TypesHold`, `StopsAreProved` | `TypeOK`, `StopIsProof` of `TaskOwnership` | number of tasks, Workers, attempts, slots |
| `PointsStayCurrent`, `ConversationsKeepOrder`, `ControlsAreKept`, `SlotsAreRespected` | `PointsAreCurrent`, `ConversationOrder`, `ControlsHold`, `SlotsRespected` of `TaskOwnership` | as above |
| `CancelsAreKept`, `RecordsComeFirst`, `ArchivesTell` | `CancelHolds`, `RecordedFirst`, `ArchiveTells` of `AgentSession` | number of tasks, turns, calls |
| `SealedArchivesVerify`, `ArchiveImplementsLog` | `ArchiveIsTrue` and `ImplementsLog` of `RunArchive` | number of processes, records, faults |
| `AuthorizationsComeFirst`, `NothingIsSentAfterStop` | `LedgerFirst` and the safety half of `StopIsFinal` of `LiveCampaign` | number of slots, calls, faults, ceilings |
| `ReportsAreTrue` | `ReportTrue` of `LiveCampaign` | as above |
| `ToolsStayWithinGrants` | `WithinAuthority` of `GeneralRuntime` | capabilities, scopes, limits |
| `RecordsAlwaysAgree`, `EvaluatorIsGone` | `RecordsAgree` and the safety half of `EvaluatorIsStopped` of `GeneralRuntime` | as above, requests, materials |
| `NothingIsLeftBehind`, `EveryTurnEncodes` | `NothingOutlives`, `NextTurnEncodes` of `LiveSession` | replies, descendants, bounds |
| `LogTellsOfEffects`, `RebuiltIsReported`, `CancelStops`, `ContextsAreWhole` | `LogTellsEffects`, `RebuiltAgrees`, `CancelIsPrompt`, `ContextWhole` of `EventedRun` | policies, limits, candidates, sizes |
| `SourceNeverMoves`, `DriftAlwaysStops`, `SummariesAreTrue` | `SourceStays`, `DriftStops`, `SummaryTrue` of `ProtocolStudy` | matrix, replies, configurations |

Every safety property that a run checks is proved; liveness is left to the runs.

The assumptions are those the modules name (`LedgerAssumption`, `PlanAssumption`, `OwnershipAssumption`,
`SettledAssumption`, `ArchiveBounds`, `CampaignAssumption`, `RuntimeAssumption`, `SessionAssumption`, `RunAssumption`,
`StudyAssumption`, `WritesAssumption` and those that say that `None`, `Nothing`, `NoSeal` and `NoValue` are no
other value of the model);
TLC evaluates each on the constants of its run. No theorem has a hypothesis beyond them. Each proof has an inductive invariant, which TLC checked before, one lemma per
action or group of actions, and a temporal step.

- **Ledger.** `WithinBudget` is not inductive: the charge happens an await after the test.
  `ReservationFits` says that while the head waits for the sink its batch still fits both caps, and
  holds because only the head may charge and a begin adds to `imported` what it adds to `total`;
  `SettlementPending` and `QueueOpen` say whom the head may belong to. The refinement maps a
  reservation to the step that charges it and everything else to a stutter. `AccountsBalance` compares
  counters with sums over the tickets: `SetSums` shows that a sum changes by what one element's weight
  changes by, so a charge adds its batch on both sides and a settlement touches neither.
- **Controller.** `RevocationReachesRunner` needs to know that no attempt exists before `execute`
  begins, since only then may a revocation find no listener, and that the finally block has stopped
  the runner wherever a stop or cleanup may still change the reason. The refinement then goes action
  by action: `Dispatch` is the only start, and its guard reads the reason in the same step. `KeepsTime`
  rests on `TimeInv`: what is due is a multiple of the cadence, not in the future when an attempt is announced
  and later than the end of the one before (`DueInTime`, by `TickIsLater`, the arithmetic of
  `controller.ts`); what is judged is a completed attempt of a goal (`JudgedInOrder`).
- **Task ownership.** That a recorded stop leaves no container is a fact of the row only if each
  container's task is busy and not cleaned (`BoxesAreBusy`) and an authority that is still good has
  none between two calls (`NoBoxBetweenCalls`) — this is what makes it safe for a Worker that finishes
  in order to confirm without looking. That it leaves no Node needs `TrackedAreRecorded`: a child that has
  the job, or may still be sent it, is recorded in the row, under the authority of its Worker.
  `RowsAgree`, `ExecutionsHaveTasks`, `ChildrenHaveExecutions` and `ClaimersAreIdle` tie the state of
  rows, Workers and children together.
- **Rows, points and conversations.** `HistoryInv` adds to it what a row's past says. Every action is
  first shown to be `Lawful`: it moves one row along the task's life cycle (`Legal`), starts it only
  when it is `Claimable`, and leaves a point eligible only with the row it belongs to (`Keeps`). From
  that alone follow that cancels stay, that tasks are created in order, that points are current, that
  a conversation's earlier questions stay answered, and with `BoxesAreBusy` and `TrackedAreRecorded`
  that nothing of an old attempt works when a new one is allotted. `SlotInv`: one Worker is between the two
  statements of a claim (the table lock), and from its count to its pick nobody else takes a slot, so
  the bound it read strictly still holds; every other step only frees slots.
- **Session.** `CancelIsKnown`: inside the loop a cancel the session knows of is the kernel's as well;
  the only way in, `Enter`, looks at the flag in the step that creates the controller.
  `RecordsPrecede`: until its first lost record a run's archive is open and begins with `run.started`,
  and a lost record leaves the loop. `ArchiveTells` reads the log from its end: `LogTells` says which starts
  are unsettled at each place of the loop and that none is where a run may complete.
- **Archive.** `ArchiveInv` has two halves. `Lasting` holds whatever befalls the archive: the file begins
  with the acknowledged chain in whole lines (`Holds`), bytes that follow never touch a whole line
  (`JoinedKeeps`), and a recovery about to truncate has scanned a prefix that begins with that chain
  (`Careful`), so the byte it cuts at is behind it wherever the rest went (`CommonIs`). `Soundness` holds
  besides while the archive is sound: at most one process is busy with it, what it remembers (`Knows`) is the
  count and the hash of the whole lines, a manifest that is being written is empty, and a seal is of the file
  as it is. From it a truncation leaves the prefix and maps to a stutter, an append to the log's, a death to
  either. `SoundBefore`: what was lost is not had again.
- **Docker sandbox.** `SandboxInvariant` (`SandboxSafety`) has twelve parts, proved in their order. `Placed` follows
  two threads of the worker, the runner and the helper through their operations: `Rests` lists
  what each may still have to do at each step, and `Moves` says where one step of an operation leads. `Living`
  says who may still be at work, `Mounted` which containers hold the volume. The heart is `Hashes`: a
  record with a hash and every archive tell of the workspace as it is, and nobody can write to it any
  more (`Quiet`), so no later writer makes them stale; with `Dropping`, that cleanup is past its check
  only with an archive there, `WorkSurvives` follows. `CleanedIsClean` needs that nobody's copy is older
  than a cleanup (`CleanInv`: a cleaned record is the file's, and no member of the execution lives), and that
  a reader is known or about to be (`Readers`). For `StopsEndEffects`, `Halting` keeps the helper of a stop at
  work as long as a command runs or the task may still start one in a running box (`Potential`).
- **Campaign.** `CampaignInv`: numbers of exchanges that left are below the meter's count until the one in
  progress leaves (`Numbered`), which is what makes authorizations distinct; a stop, a drifted lock
  and an unkept attempt leave the places from which `Dispatch` can be reached (`StopInv`). `ReportInv`
  says that slots are begun, attempted and skipped in their order (`SlotsInv`), that no settlement denies a
  request that left (`DeniedInv`), and that an exchange the files count and the provider never saw is
  in progress or leaves the runner `Stuck` (`UnsentInv`): hence there is one at most.
- **General runtime.** `AuthorityInv`: what the loop holds is below the intersection of the four grants
  (`LoopBounded`), and the tools acted as often as the loop has counted steps. `RecordInv` goes along the
  pipeline: what the loop froze, what the evaluator's process made of it, the traces of all runs, and the
  campaign's attempts as those traces in order; the counts of its report partition the attempts.
- **Live session.** `SessionInv` says in which places of the run's thread a leader may be up and in which
  of the main thread a run may go on. `Conversation` says that the history, joined with a result for
  each call still due, can be sent: a turn starts when none is due.
- **Evented run.** Each action is first described by what it appends (`Passes`, `Announces`, `Says`); `RunInv`
  then relates places to the log: a call is told before its effect and completed before the next one
  (`EffectsTold`), identities are used once (`CallsOnce`), a group has the results of its calls in order
  (`GroupsWhole`). That a log without a batch rebuilds the report, and that the projected context is
  within its window, are inductions over the log and over the groups of a history.
- **Protocol studies.** `StudyInv`: what a runner remembers has every print on disk but for the attempt it
  has just kept (`Remembers`), and once the second study has begun the attempts of the first stay
  complete (`SourceGood`), because a slot that is kept is never opened again. `SumInv`: the calls that
  left are what a kept attempt tells or those of the slot at work (`CallsTold`, `CallsAtWork`), so a sum over the
  complete slots is a sum of `made`; a runner has done no more slots than are kept (`Counts`), and the one
  that ended well left its study complete (`EndedWell`).
- **Induction.** The library's induction theorems take an operator and cannot be used; `Counting` and
  `Gathering` of `SetSums` state the same about a set of naturals or of subsets (from the well-foundedness of
  `<`), so that recursive functions and sums are within reach.

Only model-checked: the liveness properties, since fairness and `ENABLED` are beyond the prover
(`RevocationEnds`, `StopsAreConfirmed`, `ArchivesSettle`, both `CancelEnds`, and the ends that
`EvaluatorIsStopped` and `StopIsFinal` promise).

## Disagreements

Places where the code does not do what a document, a comment or a test of the repository says, met
while it was modelled. The first five were seen as counterexamples of TLC, of the formula given; the
formulas are no part of the runs.

- *A replacement does not always wait.* `\A t : row[t].state = "running" /\ row[t].replaces # None =>
  row[row[t].replaces].cleanup` of `TaskOwnership`: a replacement committed between a claim's safety query
  and its pick (`claim.go:58`, `:74`, two READ COMMITTED statements; `Control` takes no claim lock) is
  started while the replaced task still runs. `apps/evidence-web/README.md:169`: unknown stops "keep
  replacement queued".
- *A failing log can prevent a stop.* `(pc = "reporting") ~> (stopping # "none" \/ pc \in Ended)` of
  `ExecutionController`: the record of an error precedes the revocation (`controller.ts:75`); when it
  rejects too, the finally block waits for a loop that waits for the signal (`:47`, `:77`). Line 45:
  "Logging failure cannot prevent revocation/termination."
- *A seal that does not verify.* `manifest \notin {Absent, Torn} => Verifies(events, manifest)` of
  `RunArchive`, which is `SealedVerifies` without `sound`. (1) Without any fault: a second Pan process opens
  the memory root (`cli.ts:207`) while the first one's session is in an append; it recovers and seals the
  run, and the append, past its look for a manifest (`run-archive.ts:184`), lands behind the seal or between
  its records. `run-archive.ts:205`: "including staleness from a concurrent or recovered writer, detected".
  (2) One death, nobody beside anybody: it leaves a line without its newline; the recovery keeps that line
  (`:321`), writes its settlement onto it and seals the result. `docs/adr/0015-three-lane-memory-contract.md:33`:
  "A run interrupted mid-write keeps a verifiable causal prefix"; `:18`: sealed archives "offer only verified
  read/replay". (3) One append whose `sync` fails after its bytes were written: the session settles with the
  same sequence number again.
- *Calls without a result.* `~running => unanswered = 0` of `AgentSession`: the assistant's message is
  pushed before the signal is looked at (`native-kernel.ts:256`), so a cancel leaves its calls without a
  result and every later task of that session ends as `model_error`.
  `docs/design/native-agent-kernel-v0.md:46`: "append exactly one correlated ToolResult per call".
- *A stale stop forgets an archive.* `[][halt' # "unconfirmed" /\ file # Nothing /\ file.phase =
  "archived" => file'.path = file.path /\ file'.hash = file.hash]_sandboxVars` of `DockerSandbox`: a stop that
  reaches the worker after its task settled writes the worker's copy over a `state.json` that the
  runner's export has set to `archived` (`docker.ts:253`, `process-runner.ts:114`); the preservation
  then exports again, elsewhere. `docker.ts:308`: "An exported candidate remains frozen"; the work
  itself survives (`WorkSurvives`).
- *A late envelope is not retained.* `Publish` demands `state='running'` (`tasks/execution.go:148`) before
  its branch for cancelled tasks (`:201`), which is therefore unreachable;
  `apps/evidence-web/README.md:171` says it is retained.
- *Protocol studies.* A JSON action whose `type` is an array or an object raises in
  `_assess_json_action` (`protocol_reliability.py:645`): no `attempt.json`, and a directory that blocks the
  study. A repair's HTTP 401, 402 or 403 does not stop the runner before its next slot
  (`scripts/run_protocol_reliability.py:134`). A torn `attempt.json` makes every later start and summary
  raise. `docs/design/protocol-reliability-v1.1-max-token-sensitivity.md` says hashes of raw artifacts
  are verified; `verify_source_observations` compares fields of the summary. The second study's summary
  calls an unfinished slot "missing" (`scripts/summarize_protocol_max_token_sensitivity.py:138`).
- *Live campaign.* Usage that does not add up stops the meter (`deepseek_live_campaign.py:490`), yet the
  report of such a campaign cannot be rebuilt ("live exchange usage drift"; `LedgerReadable`). A stale
  receipt counts as an exchange's own cost. With the repository's gateway a transport failure carries no
  usage, so the rule of three failures in a row is not reached before the meter stops.
- *Evented runs.* `behavioral_eval.py:853` rebuilds single calls only: a batch makes `reconstruct` raise
  (`Rebuildable`).
- *General runtime.* A child of the evaluator survives when the readiness poll times out just as its
  leader becomes one of a group (`__init__.py:2035`; `EvaluatorIsStopped` excludes a group that was never
  known); `docs/design/general-vertical-system.md:313` promises the whole group.
- *Live session.* A blank reasoning is kept by the gateway (`deepseek_live.py:496`) and refused by the
  canonical message, so the run's thread raises and its log has no terminal event. A line typed ahead
  answers the next handoff, or becomes a task; `docs/design/deepseek-live-tui.md:106`: "requires a new
  Human y/yes decision". A KeyboardInterrupt that falls outside `worker.join` is raised while the run
  goes on (`live_tui.py:961`; `exit = Raised` in the model).

## What is not modelled

- Within the modelled parts: in the task store, the request-id ledgers (a retried request is a
  stutter), `SubmitTask` (a task without a conversation), admission ordinals, the live provider's
  exclusive lock, and the operation stages inside a checkpoint. In the session, `resumeTask` with the checkpoint sink, approvals
  and token usage. In the controller, input checks of plans and durations.
- Of the process runner, the process groups, the RPC between runner, supervisor and worker, and the
  executor of the local verifier: `DockerSandbox` has `run`, `verify`, `stop` and `preserve` as far as
  they touch a sandbox, with "the worker exited" as what the supervisor's answer means. Of the
  sandbox, the fixed profile, tar files, tool arguments, foreign resources, and a request that a
  dead worker left with the daemon and that takes effect after a stop.
- Model providers, stream assembly, tools, retrieval, configuration, the terminal and web pages,
  views and evidence imports: conversions and presentation, without a protocol between actors.
- Of the session's authorization, an approval answered after the file, the policy or the channel changed
  (`authorization.ts:197`), and of the kernel, a cancel while `importState` is awaited
  (`native-kernel.ts:128`); of the sandbox, a recovery that throws for ever where prepare died before its
  volume (`docker.ts:235`: `WorkSurvives` holds, nothing ends); a view cached from an older snapshot while a
  mutation deletes it (`cache.go:331`).
- Of the Python harness: in `EventedRun` the events of a tool's lifecycle and torn artifact files; in
  `GeneralRuntime` instance state that no material declares, which the operator vouches for; in
  `LiveSession` what is rendered, and the usage a summary adds up; in `ProtocolStudy` intervals, usage and
  the extraction of the corpus; in `LiveCampaign` what each part of a lock says. The first ReAct loop
  (`react_mvp`), the offline translation checks, the demonstration screen, the conformance fixtures,
  overnight automation and `references/pi` are single-threaded or no part of the product.

## Plan

1. The process runner: supervisor, worker and process groups, whose answers the controller and the
   sandbox now take for granted; that a preservation ends at last, or is refused for good
   (`ensureRecoveryReader` throws where a volume was never made or is gone, `docker.ts:235`).
2. Checkpoints: `AgentSession` with `invalidate`, `pending`, `settled` and `commit`, crashes, and
   `resumeTask`; an abstract specification "an effect happens at most once or is reconciled". The
   operation stages of the web executor are the same question with another store.
3. Authorization as part of the session: a stale approval, a revoked trust, a closing channel.
4. `ViewCache` with its age bound, and the retrospective ledger: small modules.
5. Theorems: the invariants of those modules as they come, and an abstract specification of the
   sandbox (a workspace, its archives, gone or not) for `DockerSandbox` to implement.
