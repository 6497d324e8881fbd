# TLA+ models of MissionBraid

MissionBraid is a local controller for coding agents. It executes *Missions* (a
contract with acceptance criteria) with Agents of several Runtimes (Claude,
Codex, Qoder, hosted adapters) in a git workspace, keeps an append-only event
log of everything that happened, and ends with a *receipt* that says what was
verified. Its value lies in what that log and that receipt may be trusted for
after crashes, restarts, two controllers, late answers and revisions of the
contract. These modules model that part of it, check it with TLC, and prove what
matters most with TLAPS.

All paths below are relative to the repository (`src/` of the project, i.e.
`src/src/engine.ts` is the engine).

Contents: [inventory](#inventory), [plan](#plan), [modules](#modules-and-code),
[runs](#runs), [properties](#properties-worth-a-word), [fairness](#fairness),
[proofs](#proofs), [disagreements](#where-the-code-and-its-documents-disagree),
[observations](#observed-while-modelling), [not modelled](#what-is-not-modelled).

## Inventory

| Component | State | Operations | Interacts with |
|---|---|---|---|
| Workspace lease and fenced log (`store.ts`) | SQLite rows `workspace_leases` (owner, fencing token, expiry) and `events` | `acquire`, `renew`, `releaseWorkspaceLease`, `appendEvents` | every writer: engine, app, CLI; other processes through the database |
| Projections and receipts (`store.ts`, `domain.ts`) | Mission projection, rebuilt from the log | `#project`, `#assertReceipt`, `#assertBranch`, effects, branches | every append |
| Command ledger (`store.ts`, `engine.ts`, `app.ts`, `cli.ts`) | `mission_commands` rows: status, claim and its expiry; command events | `acceptCommand`, `claimCommand`, `renewCommandClaim`, `recordCommandStatus`, `executeCommand`, `drainCommands` | lease, stage execution; several processes |
| Stage execution of a direct Mission (`engine.ts`) | Attempts, checkpoints, Effects and status in the log; the workspace | `#execute`, `#executeStage`, `#planHandoff`, `#closeDanglingAttempts`, `#verifyAndReceipt` | lease, Runtimes, Tool Gateway, planner, verifiers |
| Runtime processes (`adapters/`) | an operating-system process per Attempt, its streams and timers | spawn, prompt, observe, compact, abort, kill | outlives its controller; writes the workspace |
| Mission specifications and drafts (`app-page.ts`, `mission-draft.ts`, `spec.ts`) | the form, the Mission file, its snapshot | compose, accept, load, restore, create | app, engine |
| Mission Plan execution (`engine.ts`, `mission-plan.ts`, `mission-plan-runtime.ts`) | Contract and Plan revisions, node Attempts, artifacts, fences | `executeMissionPlan`, `#executeMissionPlanNode`, consolidation, `reviseMissionContract`, `missionPlanRuntime` | lease, worktrees, Runtimes, revisions made by the developer meanwhile |
| External effects (`external-effect.ts`, `mission-external-effect.ts`) | `effect.*` transitions in the log; the target's own state | `coordinate`, `#reconcile`, compensation | lease; a remote target over HTTP |
| Tool Gateway (`tool-gateway.ts`, `hook-bridge.ts`, `claude-tool-gate.ts`) | request, decision, release and result files of an Attempt, locks; `tool.gate.*` events | hook: request, wait, result; developer: decide; engine: `#drainToolGateway` | Claude's hook processes, the app, the engine's watcher |
| Adaptive planner and Runtime catalog (`execution-planner.ts`, `engine.ts`) | overrides in the log | eligibility, ranking, override, decision | stage execution, forks |
| Composite checkpoints and replay (`composite-checkpoint.ts`, `checkpoint-replay.ts`, `mission-checkpoint-replay.ts`, `model-only-resample.ts`) | manifests in the log, one journal file per replay, artifact files | capture, playback, cached replay, counterfactual resample | log, lease, a model |
| Execution forks (`execution-fork.ts`, `mission-execution-fork.ts`, `runtime-continuation.ts`) | a journal file per fork, mirrored events, child branches, worktrees | `executeFork`, continuation, receipts, recovery | log, lease, planner, Runtimes |
| Failure intelligence (`failure-intelligence.ts`, `mission-failure-intelligence.ts`) | none; derived from log, checkpoints and forks | derive candidates, diagnostic fork | log, forks |
| Outcome Studio (`outcome-studio.ts`, `mission-outcome-studio.ts`) | scenarios, selections, reruns, CI results in the log | view, save, select, rerun | forks, lease |
| Application and page (`app.ts`, `app-page.ts`) | what a page has loaded, the operations of a process | list, detail, stream, post, supervise, close | all the above |
| Context capsule and graph (`capsule.ts`, `context-*.ts`) | none | compose, budget, read | handoffs, insight |
| Verifiers, workspace inspection | none | run a command, read git | stage and plan execution |
| Adapter SDK and host, providers, CLI, scripts | protocol sessions | host adapters, check products, print | Runtimes |

What is hard in it, and what makes it right:

- **Lease and log.** Clocks are read before the write lock is waited for; owners
  pause and wake up as former owners. Right when no write of an older grant
  follows a newer one, and nobody takes a lease over before it ends.
- **Command ledger.** Several processes claim; claims and leases expire under a
  runner; direct calls never renew. Right when what is executed is unsettled,
  an outcome is final, row and event agree, and every command is settled.
- **Stage execution.** A controller may end between any two appends while its
  Runtime lives on; `verify` does not recover; a developer edits. Right when one
  Agent works at a time, every Attempt is closed and its work disclosed, and a
  verified receipt is for a quiet workspace.
- **Handoff.** Detection, capture, decision and capsule are separated by awaits;
  users set and clear overrides; Effects are reconciled meanwhile. Right when
  the next Runtime gets the frontier as it is, the decision is the planner's for
  a state that existed, and a command does not go in circles.
- **Runtime process.** Signals are ignored, lines come late, observers fail.
  Right when a success accounts for every line, an acknowledgement precedes the
  work, and what must end ends.
- **Mission Plan.** Revisions arrive between any two awaits. Right when nothing
  adopted or joined is affected by a later revision, the receipt is for the
  present contract, what the page composes is served, and a run ends.
- **External effects.** A request may be applied, unanswered, late. Right when
  every POST was recorded before, nothing is claimed that did not happen, and a
  prompt network sees the effect applied at most once.
- **Tool Gateway.** Two drains and several processes work on the same files;
  locks are left behind; a listing may throw. Right when what is released was
  decided in the log, stands, and is what the log says of the tool.
- **Checkpoints and replay.** The capture awaits between its reads; journals are
  files without a lock; a process ends in the middle of a line. Right when a
  frontier is whole, a model is asked at most once, and a replay claims only
  what it has read.
- **Forks and Outcome Studio.** Two accounts of one fork (journal, log) fall
  apart; trials interleave with other forks; views are older than the lease
  under which they are recorded. Right when evidence leads, receipts hold, and a
  CI result stands for every trial.
- **Insight.** Three reads with waits between. Right when what is shown as
  confirmed is earned, and a conclusion is taken back only for a reason.
- **Workbench.** Poll, stream and reloads overtake one another across a restart.
  Right when the pane does not go back, and shows the Mission in the end.

`PROJECT.json` lists the hazards line by line with the properties that cover
each of them.

## Plan

Done, in this order: `FencedLog`, `WorkspaceLease` with its proofs (everything
else rests on the fence), `CommandDispatch`, `ExternalEffect`, `MissionPlanRun`,
`ToolGate`, `MissionRun`; then `MissionStore`, `ExecutionFork`,
`CheckpointReplay`, `RuntimeProcess`, `ExecutionPlanner` and `AdaptiveHandoff`,
`FailureIntelligence` and `MissionInsight`, `OutcomeStudio` and
`OutcomeRegression`, `Workbench`, `MissionPlan` and `MissionDraft`.

How they compose:

```
FencedLog  <= WorkspaceLease             (refinement, checked and proved)
MissionStore <- ExecutionFork <- OutcomeRegression -> OutcomeStudio
MissionStore <- CheckpointReplay
MissionStore <- MissionInsight -> FailureIntelligence
ExecutionPlanner <- AdaptiveHandoff
MissionDraft, MissionPlan <- MissionPlanRun
CommandDispatch, ExternalEffect, ToolGate, MissionRun, RuntimeProcess, Workbench
```

All of them use the lease as `FencedLog` describes it: an append is made by the
holder or by nobody, and a holder may be replaced at any time. That
`WorkspaceLease` implements `FencedLog` is what entitles them to it.

Proved, in this order: the fenced log, the command ledger, the external Effect,
the stages of a direct Mission, the Tool Gateway, checkpoints and replay, forks
and reruns, Mission Plans under revision, Runtime processes, adaptive handoff,
failure intelligence, the way of a form to its Mission, the workbench (see [proofs](#proofs)).
With that every safety property that a run checks is proved; liveness is not
(see the end of the proofs).
No module declares a RECURSIVE operator, so that all of them can be proved about.

## Modules and code

A module's constants are the actors and the bounds. Its state is rows, events
and files first, then the places where processes stand between two awaits. A
definition that a comment calls a mutant is a plausible bug in the definition
that follows it; it takes no part in the specification. `map` in `PROJECT.json`
names the lines of every definition.

### FencedLog, WorkspaceLease

`FencedLog` promises: grants are numbered, only the holder of the newest grant
writes, entries carry the grant and a time that does not go back.
`WorkspaceLease` is `store.ts`. Each call is two steps: `Begin` reads the clock
(`const nowMs`), the action named like the call is the transaction, which may
come arbitrarily later (`BEGIN IMMEDIATE` waits for the write lock). `OwnerEnds`
loses the owner's fence and call; rows stay. `appendEvents` stands for all
fenced writes. Clock and tokens are bounded by `MaxClock`, `MaxToken`, and the
log by `MaxLog`. The clock is one machine's and does not go back.

### CommandDispatch

Processes are apps (supervisor with heartbeat) and direct calls. Acceptance is
three steps (lease, `acceptCommand`, release) since `acceptCommand` runs under a
lease of its own. A runner passes `claimed`, `checked` (it has read the row,
`executeCommand`), `leased`, `running`, `releasing`. Claims and leases expire
at any time (`ExpireLease`, `ExpireClaim`); `HeartbeatFails` is a renewal that
throws and aborts the run. What executing means is left out: the outcome is
any of completed, failed, or pending again after an abort.

### ExternalEffect

One effect, several controllers one after the other, each under the lease. The
POST leaves the machine without a fence, its answer may be late or lost, and a
lookup tells what the target has seen. The environment is `prompt` or
`hostile` for a whole behaviour (see the module's head); `AppliedAtMostOnce`
and the failed half of `ClaimsAreTrue` are only claimed of the prompt one,
because in the hostile one the code relies on the target's idempotency key.
Compensation is another coordination with a key of its own and is not told
apart; the status `conflict` (a key reused for another request) is not modelled.

### MissionDraft, MissionPlan, MissionPlanRun

`MissionDraft` is how a Mission comes to be, as the questions each reader asks:
what the page composes from its form (`PageSends`), what the draft accepts
(`DraftStands`), what the loader and the snapshot accept (`Loads`, `Restores`),
the first Contract and Plan (`Creates`), and the answer of the application
(`Answer`). A text is a value; what the checks tell apart (blank, secret,
`${KNOWN}`, `${UNKNOWN}`, absent) has a name.

`MissionPlan` is `mission-plan.ts` over data: `PlanStands` (nodes, edges, DAG,
shapes of joins and splits), `Invalidation` (what a revision of the Contract
makes invalid, keeps and leaves unplanned), `ConsolidationBlocker`.

`MissionPlanRun` composes both: a Mission is asked for with a form of the page or
with a body of one's own, refused or created, executed, revised, and shown. One
run (`executeMissionPlan`) at a time; its rounds adopt, dispatch all ready
nodes, and wait for all. A node's Attempt is in `step` (detecting, integrating
or bound, running, verifying, sealing, settled); `fenced` is the durable stop
request. `ReviseMissionContract` makes a Contract and a Plan revision.
`LoseRun` covers everything that ends a run early: crash, abort, lost lease, an
exception of one node out of `Promise.all`. `Busy` marks the synchronous tail of
a node in which nothing else of that process can run. `NodeStatus` is what
`missionPlanRuntime` shows. Artifacts' input ids are always empty in the code,
so the fixpoint from artifacts to nodes has nothing to do and is left out, and
equality of node versions follows from that of requirements and ownership. A work
node need not have a criterion (`spec.ts` and the draft accept that); then its
artifact has no evidence, and `Complete` does not take the node. Worktrees,
commits and merges are the outcomes they may have.

### ToolGate

One Attempt with `Gates` tool invocations. `WritePending`, `Proceed`, `TimeOut`
and `MarkResult` are the hook's; `WriteDecisionIntent` is the developer's in the
app; `Drain` is `#drainToolGateway`, run by the 25 ms watcher and once more when
the Runtime has ended, interleaved at each await. Between two awaits it appends
one transaction at a time, each with a check of the fence of its own
(`RecordRequest`, `Decide` and `MoveEffect`, `ObserveResult` and `ConcludeEffect`):
no other drain comes between them (`HasTurn`), but the lease may be lost there, and the
controller may end. `decided` and `moved` are the two events of a decision. A file is
written once under its lock (`AcquireLock`, `Store`, `Unlock`); a lock may be left behind, and a
listing throws when the directory has more entries than the limit
(`ListingFails`). A directory is read in one step. Of the intents it has read, a
drain passes over those that the log had when it began, and those that are not
pending but released; one that is neither ends it (`PassOver`). A `modify` decision is an
`approve`. An Attempt's gateway really ends, hence `CHECK_DEADLOCK FALSE`.

### MissionRun

A Mission of `Stages` stages, those in `HandOff` with `onFailure: handoff`. A
controller's record `at` is the await or append it stands before:
`recover`, `recoverEffect`, `recoverFinish` are `#closeDanglingAttempts`;
`execute`, `handoff`, `stage`, `planned` are `#execute`, `#planHandoff` and the
head of `#executeStage`; `bound` to `resolved` follow an Attempt from its
binding to `attempt.finished`; `verify` and `verifying` are
`#verifyAndReceipt`. The workspace is the set of those who have changed it
since the Mission began, which is all that digests and deltas are compared for
(a change is not undone). `Spawn` and `SendPrompt` need no lease; the prompt is
given through stdin after `runtime.process_started` is durable, as the three
built-in adapters and `process-runner.ts` do it. A lease may expire at any
moment and ends at once when its owner does. Which stage takes over, and with
what, is `AdaptiveHandoff`. Statuses other than `succeeded` are not told apart.

### ExecutionPlanner, AdaptiveHandoff

`ExecutionPlanner` is `planExecution` as a function of requirements, candidates,
current Profile, Effects and override: eligibility, classification of what a
handoff would lose, ranking, refusal. `AdaptiveHandoff` is the engine around it,
at a coarser grain than `MissionRun`: of a controller's own appends those that
nobody reads between are one step, as `MissionRun` has them one by one; `Detect`, the capture (`Persist`), `Compose` and `Decide`, which are
separated by awaits, are steps of their own. A stage is a Profile with its
capabilities, permission and injection budget; a capsule fits by the number of
Effects it must name, and `Prompt` throws when budget and prompt disagree.
`Recover`, `Close`, `Finish`, `Receipt` are those of the engine; `SetOverride`,
`ReadActive`, `AppendClear` are the users'. `Coordination` is
`coordinateExternalEffect` under a lease of its own, append by append
(`RecordIntended`, `RecordDispatch`, `RecordAnswer`, `RecordConfirmed`, `Reconcile`), so
that a crash, or a lost lease, leaves an Effect `intended`, `dispatch_started` or
`executed` for a later request to reconcile, or for a handoff to meet. `applied` is what the
targets have done; here an answer comes while its request waits, and the late ones
are `ExternalEffect`'s. `reconcile_started` and `reconciled_absent` change no
status and have no step. The workspace is the number of edits.

### RuntimeProcess

`runProcess` with one of the adapters: `Spawn`, `Start` (the observer of the
start, awaited), `Resume` (the prompt), `Read`, `FinishStream`, `Emit`, `Deliver`
(one line at a time through the promise chain), `Terminate`, `KillTimer`,
`Close`, `Finalize`. `Thinking` and `Compact` are Claude's compaction of
thinking-token lines, `OnOutput` the engine's observer, `OrderingAccepted` the
acknowledgement of a capsule. A probe is a detection (`--version`) with its
timeout. The process chooses what it writes and whether it obeys.

### MissionStore, ExecutionFork

`MissionStore` has no variables: it is what `#project` accepts into a log and
what is read out of one. `ExecutionFork` runs single forks and the trials of
reruns with it. A run passes `Resolve` (profile and request), `AcquireLease`,
`Prepare`, then for every event `WriteJournal` (the file) and `Bridge` (the
projection under the lease), with `Checkout` and `Continue` between them, the
receipt, and `Settle`. `Refused`, `RefuseRuntime`, `DrainFails`, `FailFork` are
its error paths; `Crash` and `ExpireLease` come between any two steps, `Resume`
closes what they leave.

### CheckpointReplay

`BeginCapture` and `EndCapture` are `createCompositeCheckpoint` with the
`contextGraph` it awaits between listing the Effects and reading the head;
`OthersMay` lets other holders coordinate Effects there. A request is asked for
(`Ask` checks the bundles against the checkpoint), projects its journal
(`Project`), loads it (`Load`) and writes one line (`Write`), which a crash may
tear; `Resample` asks the model; `Persist` records the outcome in the Kernel
event by event. `Allowed` and `Follows` are the transitions a journal accepts,
`PayloadStands` what a line must hold. All playbacks of a checkpoint share one
journal.

### FailureIntelligence, MissionInsight

`FailureIntelligence` is the derivation: detectors over sets of evidence, the
candidates they name, support and contradiction, mechanisms confirmed or refuted
by interventions, ranking. `MissionInsight` projects a log into that input and
takes the three reads apart (`ReadEvents`, `ReadCheckpoint`, `Show`) while
Attempts observe, checkpoints are captured, Context is edited, and a developer
asks for a diagnostic fork (`Ask`, `Request`, `Advance`). What an Attempt may
record is a constant of the module; of its tools, it is in the order in which
`#drainToolGateway` appends (`InGateOrder`).

### OutcomeStudio, OutcomeRegression

`OutcomeStudio` holds the judgements as operators: thresholds over trials,
evaluation of a branch, receipts, comparison, CI results and their consistency,
selection. `OutcomeRegression` extends `ExecutionFork`: a rerun executes one
fork per trial (`StartScenario`, `ViewTrial`), then judges and records under one
lease (`Complete`), while people save scenarios and select branches from views
they took before (`ReadIncident`, `SaveIncident`, `ReadComparison`,
`SelectBranch`).

### Workbench

One page and one application process. The page asks for lists and details
(`LoadMissions`, `LoadDetail`), polls, reads the stream (`Deliver`), renders and
refreshes on timers, and posts one action at a time; the application answers
from the reads of the code in their order, drains the outbox, launches plans,
closes, is killed and starts again. Rows are one per Mission. The settling of a
row and of the operation shown are one step. The operation of a detail falls back on
the status that was read first (`app.ts:1142`), the timeline is read last. The handlers of the other buttons
(gates, forks, replays, studio, override) follow the same reload pattern and
are not separate actions.

## Runs

Sizes are distinct states with symmetry where a cfg declares it; symmetry is
used for interchangeable actors only, and in no run with a liveness property.

| Run | Instance | States | Shows |
|---|---|---|---|
| `lease` | 2 owners, Ttl 2, clock to 4, 3 grants, 3 writes | 508 000 | fencing, order, no early takeover, refinement of `FencedLog` |
| `dispatch` | 2 apps, 1 direct call, 1 command | 25 000 | only unsettled commands run, outcomes are final, row and event agree, every command is settled |
| `effect` | 3 controllers, 3 attempts | 1.53 M | sends recorded, nothing claimed that was not applied, applied at most once |
| `plan` | 18 forms, 17 bodies; 2 work nodes and a join, 7 edits, 3 revisions, 2 runs | 432 000 | pages are served, nothing affected is adopted, kept or joined, receipts are current, runs end |
| `mission` | 2 controllers, 2 stages (the first hands off), 2 Attempts | 508 000 | single writer, recovery, disclosure, quiet verification |
| `handoff` | 1 controller, 3 writing stages with budgets 3, 9, 3, 1 Effect, 4 Attempts, 2 overrides, 2 edits | 6.11 M | the frontier is carried, decisions are the planner's, commands go forward |
| `runtime` | 3 kinds of task, 3 lines, 1 of stderr, estimates 0 and 3 | 1.24 M | results, acknowledgements, ends |
| `gate` | 2 gates, 2 drains | 7.50 M | releases, decisions and outcomes agree |
| `checkpoint` | 2 playbacks, a cached replay, a resample, 2 foreign events, 1 replay at a time, 1 fault | 2.64 M | frontier, one question to the model, what replays claim |
| `insight` | 3 histories, 1 observation, 1 edit, 2 checkpoints, 1 fork | 1.59 M | what is confirmed, what is taken back |
| `studio` | 1 rerun of 2 trials, 1 single fork, 1 client, 2 faults | 1.36 M | evidence, receipts, reruns, CI results, records |
| `workbench` | 2 Missions (one with a Plan), 2 entries, 1 click, 1 fault | 1.55 M | what the page shows |

Why the bounds are enough. *Lease*: a stale owner, its successor and a third
grant need two owners, three tokens, and a clock of twice the Ttl; longer
behaviours are covered by the proofs. *Dispatch*: two apps and a direct call are
the roles; commands and claims are not bounded otherwise. One app, one direct
call and two commands (166 000), and two apps with two commands (133 000), pass
as well, so that one command waits behind another; with all of them safety
holds, and only the liveness graph is too large. *Effect*: the first POST, its
late answer and a retry take three controllers. *Plan*: an edge, an independent
node and a join give every relation between a touched node and an artifact;
three revisions allow one to be adopted over, and a requirement to go and come
back; a second run meets what the first left; one body leaves a requirement of
the first Contract without a node, one has a review without a criterion, and one a
join without any. A fourth node passes too (1.0 M).
*Mission*: two Attempts are what "at most one" is about; the second stage is the
fallback; a third controller can do no more than the stale one. *Handoff*: three
stages let the planner skip one; the budgets make one capsule not fit; four
Attempts and two overrides let a decision race with a change of both; one Effect
is cut off, reconciled and dispatched again any number of times. *Runtime*:
three lines are one complete, one compacted and one without an end. *Gate*: with
two gates one drain has a second intent in hand when another gate changes.
*Checkpoint*: two playbacks share a journal, which is the case of two writers;
two foreign events place one on either side of the capture's await. *Insight*:
the histories hold an observed tool failure with counter-evidence, a denied loop
and a diverged workspace; one more of anything, a tool's result among it, arrives
between two reads.
*Studio*: two trials are what "every trial" needs, the single fork is the other
selection and the other receipt, two faults end one run and lose the lease of
another; two single forks with one fault and symmetry pass too. *Workbench*: the
second Mission is the other selection, and the one that may be created; a fault
is a lost request or stream, a stop, a kill, or a command that throws.

`TypeOK` is stated in every module with variables; `lease` checks it. It is part
of each inductive invariant that is proved; the others were checked while the
modules were built.

## Properties worth a word

Several properties are conjunctions of parts that one reader asks together:
`LedgerHolds` (only unsettled commands execute; row and event agree),
`ClaimsAreTrue` (executed is applied, failed is not), `ArtifactsHold` (what
counts for a revision still satisfies it, was built on what counts for it, is
adopted when it may be, shown as it is, and feeds the join), `OneAtATime` (one
writer, one open Attempt), `ReleasesHold` (a release has its decision in the
log, a skipped tool its block), `DecisionsStand` (a release and an outcome do
not change while the Runtime runs), `EvidenceLeads` (a journal is ahead of the
log by at most two events, and nothing happens before its event is durable),
`ReceiptsHold` (a verified receipt, and the status it gives, claim nothing that
is open), `ResultsHold` (a success accounts for every line, and the result comes
last), `ReplaysAreTrue` (what a request returned is what its journal says, and
the Kernel knows the one end the journal has).

`GoesForward` says by a variant, not by fairness, that a command does not take
up a stage again that it has tried. `ConclusionsStand` says what a later view
may take back. `SelectedIsShown` is liveness: a selected Mission's newest
entries are shown in the end.

## Fairness

- `CommandDispatch!FairSpec`: weak fairness of each process' own next step (an
  event loop that is not blocked, `setInterval` of the supervisor; it includes
  that a started run ends, since Runtimes have time limits and an abort), of
  the expiry of leases and claims that nobody renews, and
  `<>[][~Disruption]_vars`: crashes, aborts and expirations of *renewed* leases
  and claims stop at some time. Without the last one nothing can be promised.
- `MissionPlanRun!FairSpec` (`RunEnds`): weak fairness of the run's own steps.
  Nothing is assumed of revisions, nor that a run is not lost; the number of
  revisions is bounded, and `RunEnds` says that the loop does not go on by
  itself. It says so of Plans whose work nodes have criteria (`Verifiable`): without
  that condition TLC finds, in this run, the lasso in which a node without one is
  run in every round (19 states; see [observations](#observed-while-modelling)).
- `RuntimeProcess!FairSpec` (`RunsEnd`): Node runs what is ready (streams,
  promise chain, close), the kill timer fires, and the timeout of a probe
  aborts. Nothing is assumed of the process, of its obedience to SIGTERM, of a
  grandchild, or of the user's abort; `RunsEnd` excludes a grandchild that keeps
  the output open.
- `Workbench!FairBenchSpec` (`SelectedIsShown`): timers fire, requests are served
  while the application is up, answers are taken, a closed application is
  started again, an aborted engine ends, a page is not hidden for ever. Nothing
  is assumed of the operator, nor that an engine which is not aborted ends.

All other runs check safety under any scheduling.

## Proofs

TLC checks instances; the theorems hold for every value of the constants that the
named assumption of the module allows. These say that sets of actors are
disjoint and that names for "nobody" are not actors, and that bounds are natural
numbers; the code justifies each by construction. `PlanAssumption` asks that the
nodes and edges of a Plan are lists and the bound a number, and nothing of its
criteria. Every
proof goes the same way: an invariant `IInv`, the type invariant among its parts, holds initially
and is preserved by every action (one step of the proof per action, or one
lemma per action or per part where they are long); the property follows from it,
or, for an action property, from it and the action. TLC has checked each `IInv`
as an invariant of its module's instance (for `ExternalEffect` with two
controllers, for `OutcomeRegression` with two trials and one single fork) before
it was proved. What an `IInv` adds to a property
is what its module's code takes for granted between two awaits.

| Module | Assumption | Theorems |
|---|---|---|
| `StoreProofs` | `LeaseAssumption` | `TypeCorrect` (`LeaseTypeOK`), `WritesAreFenced` (`LogIsFenced`), `WritesAreInOrder` (`RecordedInOrder`), `NoTakeoverBeforeExpiry` (`NoEarlyTakeover`), `Refinement` (`ImplementsFencedLog`) |
| `StoreProofs` | `DispatchAssumption` | `LedgerIsTrue` (`LedgerHolds`), `SettledStays` (`SettledIsFinal`) |
| `ClaimProofs` | `EffectAssumption` | `PostsAreRecorded` (`SendsAreRecorded`), `LogTellsTheTruth` (`ClaimsAreTrue`), `NoDoubleEffect` (`AppliedAtMostOnce`), `OutcomeStays` (`OutcomeIsFinal`) of `ExternalEffect` |
| `ClaimProofs` | `InsightAssumption` | `ConfirmationIsEarned` (`ConfirmedIsEarned`), `ConclusionsAreKept` (`ConclusionsStand`) of `MissionInsight` |
| `MissionRunProofs` | `RunAssumption` | `OneAgentAtATime` (`OneAtATime`), `WorkIsDisclosed` (`FinishedIsDisclosed`), `SuccessIsQuiet` (`VerifiedIsQuiet`) |
| `MissionRunProofs` | none | `BenchTypesHold` (`BenchTypeOK`), `DisplayNeverGoesBack` (`StatusNeverGoesBack`) of `Workbench` |
| `RuntimeProofs` | `RuntimeAssumption` (the second component only) | `ReleaseIsDecision` (`ReleasesHold`), `DecisionIsReleased` (`DecidedIsReleased`), `ReleaseStands` (`DecisionsStand`) of `ToolGate`; `RunsAreComplete` (`ResultsHold`), `HandoffsAreAcknowledged` (`HandoffIsAcknowledged`) of `RuntimeProcess` |
| `CheckpointReplayProofs` | `ReplayAssumption` | `FrontierOfPrefix` (`FrontierIsWhole`), `OneResample` (`AtMostOneResample`), `ReplayIsTrue` (`ReplaysAreTrue`) |
| `MissionPlanRunProofs` | `PlanAssumption`, for forms `FormAssumption`, `MarkAssumption` | `ArtifactsStand` (`ArtifactsHold`), `ReceiptStands` (`ReceiptIsCurrent`), `FormsServed` (`FormsAreServed`) |
| `OutcomeRegressionProofs` | `ForkAssumption`, `StudioAssumption`, `RegressionAssumption` | `StudioEvidence` (`EvidenceLeads`), `StudioReceipts` (`ReceiptsHold`), `RecordedIsWhole` (`RerunIsWhole`), `PassIsEarned` (`PassedIsEveryTrial`), `RecordsAreTrue` (`RecordsStand`) |
| `AdaptiveHandoffProofs` | `HandoffAssumption` | `HandoffTypes`, `FrontierIsCarried` (`HandoffCarriesFrontier`), `DecisionsAreRight` (`DecisionIsRight`), `CommandsGoForward` (`GoesForward`) |

**Lease and log.** `LogIsFenced` alone does not exclude that a paused owner's
fence equals the token of the row while somebody else is in the row;
`RecordedInOrder` alone does not exclude an append in preparation whose clock is
older than the last entry. `LeaseInv` adds what is missing:

- `FenceInv`: no fence is newer than the row, and one that equals it belongs to
  the row's owner;
- `ClockInv`: a clock that was read is not ahead of the machine's;
- `LogInv`: no entry is newer than the row's grant; an append that can still
  commit (its fence is the row's) was begun after every entry. That holds since
  the owner is sequential and a new grant is given to an owner that begins its
  appends after it, with a clock not behind the one under which the old lease
  was seen to end.

Takeover and refinement follow from the invariant by cases on the same actions.

**Command ledger.** `LedgerHolds` does not say that a process that handles a
command handles one that was accepted; without it a `dispatching` event could be
the first of a command without a row. `InHand` says it. That an outcome is final
is then that of the guards of `recordCommandStatus`, under the ledger.

**External Effect.** The properties speak of log and target, and a step is right
only for what the controller knows. `HolderInv`: nobody has appended since the
holder of the lease read the log. `PostInv`: the POSTs that have not left yet
are counted already (`sent + Cardinality(Posting) <= attempts`). `AnswerInv`: an
answer is that of a POST the controller waits for, and true. `PromptInv`, for a
prompt network: the active controller is the holder, its POST is the only one
under way, and it sends one only when the target has not applied any. A crash
or a lost lease between any two steps keeps all four.

**Stages.** `AttemptInv` is what the log says of an Attempt whatever its
controller does (the prompt after the pid, the checkpoint after the end of the
process, disclosure before the finish). `WorkInv` is what a controller that
works on an Attempt knows of it also after it has lost its lease: the Attempt is its own,
and its pid is recorded as its step says, since only it appends that.
`HolderInv` is what the lease adds: no Attempt is open but the one at hand, and
since a verification began only an Agent without a checkpoint can have written.
`SingleWriter` follows from the first and the third: a prompted Runtime has no
checkpoint, so that its Attempt is open.

**Tool Gateway.** `GateInv` orders what log and files say of a gate (decided,
released, let go, result, outcome); `Serves` is what a drain has in hand: what it
releases it has decided, and it alone has the lock that it made. `DecidedIsReleased`
needs the two events of a decision apart: after the second the drain goes on to the
release without asking for the lease again, so that only the end of the controller leaves
the gate without one; after the first the fence may refuse the second, and then
the decision is never released (see observations). `WatchInv` says
that while the Runtime runs there is the watcher's drain only, and that no
request it takes for pending has an outcome, without which a decision read late
would set an Effect back that has come to its end.

**Runtime processes.** The properties speak of a result, and everything that
makes it true has happened before: `ProcessInv` follows a line from the process
to the record. `Writes` and `Chain`: what is chained is what was read, in the
order of its stream, and without a failed observer all of it. `InHand`: of the
lines that the adapter has taken, those that are not on record are the ones it
still delivers, or the one that the compactor keeps. `Complete`: every line it is
through with is on record, or a later one of the same burst of thinking-token
lines is (on record or still in hand), and the compactor has counted it; so
dropping the line that was kept is right only because the new one takes its
place. `Recorded` and `Noted`: the record is in order, and the acknowledgement and
the tool request that are noted are the first of theirs. `Stages` and `Answers`
say that a result comes after `finalize`, with the chain empty and both streams
ended. `HandoffIsAcknowledged` speaks of what the process wrote, and the engine
judges what it has noted: the two agree since acknowledgements and requests are
never compacted. The number and kind of lines, the estimates and the interval are
arbitrary. `RuntimeAssumption` says that a probe has no capsule to acknowledge,
that estimates are numbers, and that "no line" is not one.

**Checkpoints and replay.** `FrontierInv`: while a capture holds the lease, no
Effect is recorded behind the events it has read. `Follow`: the line that a
request is about to write is one its journal takes, a result is the end of
a chain that the journal begins with, and what is recorded is where the
journal has come to an end. `Asked`: lines about a model's answer follow the one
question, and that the line that it is asked. Two lemmas carry the journal: a
line that a journal takes leaves the ends it has had (`EndsOfAppend`), and a
branching request adds none to a journal that has ended (`Follows`). `ReplayAssumption` says that kinds of requests
are disjoint, that no replay of one's own has the id of the shared playback
journal (ids are digests), that the two kinds of Effects are, and that "nobody"
is not the capture.

**Forks and reruns.** `IInv` is about forks alone and holds of `ExecutionFork`
by itself (`ForksHold`); what Outcome Studio adds leaves the forks' state alone
or is a step of them. `KernelInv`: what the log says of a fork begins with its
plan, only one fork of a branch gets that far, and an Attempt that is started and
not finished has its Effect at `dispatch_started`. `Writes`: a journal is ahead
of the log by as much as the step of its run says. `Reports`: what a run has
brought about is in the log, and what it is about to say is not there yet.
One lemma per kind of append says what it does to the log of every fork
(`BridgeStep`, `ReceiptStep`, `NoteStep`); `StepHolds` and `OthersKeep` are the
frame. For a rerun, `TrialInv` keeps what lies behind it: as many views as trials
it is past, with a receipt and a started Attempt for each, and a saved rerun
does not move, so that what was compared when it was saved is what the property
compares. `JudgedInv` carries the verdicts: one changes only while the Runtime of
its fork is at work, so never after the fork's receipt and never for a trial that
its rerun is past (`VerdictStays`, `TrialVerdictStays`); a view of a trial says
what the verifier said (`Viewed`); and a rate of 100 percent over the declared
trials is every one of them (`FullRate`). What a client has prepared would still
be true if it were recorded now (`Stands`, `ClientsHold`): a branch has one
receipt, and the log only grows. `ForkAssumption` says that the root branch, the
one that single forks ask for by name and those of trials are different: `branch-root-` goes before a
UUID and `branch-outcome-trial-` before a digest (`engine.ts:665`, `1368`), and a
request that names a branch the log has is refused before it starts (`2472`); a
caller that names a trial's branch before it exists is left out.

**Mission Plan.** `PlanInv` is what the creation checks: one join, of two inputs
or more (`PlanIsMade` derives it from the reader and the planner). `RevisionInv` is about any
two revisions: a node that none between them touches finds its requirements
saying the same (`Keeps`); an invalidation is closed downstream and finds
reusable only what counted for the revision before it; a requirement without a
node has been found so by a revision, or was left out by the first Plan and says
what it said (`LeftOut`). `Keeps` makes "not touched since" mean "says the same",
over any number of adoptions; without `LeftOut` the emptiness of `activeUnplannedRequirementIds`, which reads
the invalidations only (`engine.ts:7555`), says nothing of the Contract. `RunInv`
is what a run relies on from its look at the log to its append: the inputs of a
node that is under way count for the revision its round has read, and still do
when a newer revision has come; the join alone is under way once every other
node counts. `ArtifactInv` is the first two parts of `ArtifactsHold` with the
origin of each artifact. What "counts" is what has evidence, so that a Plan with a node without a criterion
never comes to its join (`ReceiptIsCurrent` says that every work node behind a
receipt is complete). Edits, kinds of nodes and Plans are
arbitrary; that a Plan stays a DAG, and its workspaces apart, is not needed.

**Forms.** `FormsAreServed` is a question of data: what the page sends goes through
three readers, each with checks of its own (`DraftStands`, `SpecStands`, `Creates`),
and is changed on the way (`Document`, `Resolved`). A stage, a criterion and a Plan
that the page makes are brought to what all of them ask (`PlainStage`,
`PlainCriterion`, `PlanFits`); what the draft files and the loader expands keeps it
(`StageIsFiled`, `ExpandedStands`); so the draft stands (`PlainDraft`), is loaded and
made (`PlainMission`), for every route, every Adapter and any texts. The Plan of
the page stands because its ids are those of its stages, criteria and lines
(`PlanIsDrafted`, `PlanIsMadeUp`); a Mission without one is a chain of fallbacks,
which has no cycle (`ChainIsMadeUp`). That the Plan covers the Contract needs none
of that, only that no requirement gets lost between form and Contract
(`ContractOfForm`, `PlanCovers`), and holds for forms that are not plain, too. The
answer and the first revision then stay as they are (`OnlyMade`).
`MarkAssumption` says that "not given" and "absent" are no texts, `FormAssumption`
what `submitMission` lets through: required fields are filled in, empty lines are
left out.

**Adaptive handoff.** `PlacesHold` says where a place lies in the plan: the type
invariant alone does not bound the stage that a command is at. `Carrying` is what
the holder of the lease knows from the decision to the prompt: the composite of a
handed-off frontier has the Effects as they are, since they are coordinated under
a lease of its own; a command that has lost its lease may be wrong about them, and
its append is refused. `EffectsAreTrue` is what the log says of the targets, whatever was cut
off where: what is confirmed or executed has been done, what failed, or was not
dispatched yet, has not; hence the capsule, which names the confirmed and
the ambiguous ones, misses of what was done only what was cut off. That no edit
came in between is what `#executeStage` asks again before it binds the Attempt. For the decision, two things that the code
computes in a loop are brought to a closed form, each by its least
counterexample: the override in force is the last one set, if nothing after it
clears that one (`ActiveIsLast`), and the first candidate in rank is the eligible
one with the least id (`LeastIsFirst`), so that the planner refuses only when
nobody is eligible. `EligibleIsQualified` then says
that its filter takes the stages that qualify. The order of the ids is
arbitrary. `GoesForward` bounds every command by `10 * (Len(Plan) + 2)` steps.
`HandoffAssumption` says what `spec.ts` checks of a plan and which permissions,
gates and budgets its Profiles can have.

**Failure intelligence.** Two things are proved of the derivation, for any
evidence that is finite (`Evidence`): a candidate is confirmed only by the outcome
of a diagnostic branch on the checkpoint of the projection (`CandidateOf`), and
it stands above every one that is not (`ConfirmedAbove`), since the support of a
candidate adds 9 to its score at most and what speaks against it takes 18, while
"confirmed" begins at 100 and "observed" at 70. That the projection of any log is
finite evidence is `ProjectionIsEvidence`. `EventInv` (a request is in the log before
any receipt of its branch, with the checkpoint of its fork and, for stale
Context, a fork of the kind "context"), `ForkInv` (a Context fork that finished has
read what its checkpoint holds) and `AskInv` (what an asker takes to the lease
has been validated) say what stands behind a confirmation, and `Steady` that no
step takes any of it back: so a reader may take log, checkpoint and forks at three different
times. `InsightAssumption` says that the root branch is not a fork's number, that
criteria are finitely many, that what an Attempt records is of the root
branch and no request of a diagnostic, and that what earlier Attempts recorded of
their tools is in the order of the Tool Gateway.

That conclusions are kept needs more. Between two sets of evidence, `More` is what
the five detectors of lasting conclusions rest on: inclusion, the tool of a gate
known as before, a release as its decision was, and a fork's confirmation still
there. Each detector finds with more what it found with less (`StaleStands` to
`LoopStands`; a loop by the cardinality of its requests), merging keeps the best
status of an identity (`MergedStands`), and so `CandidatesStand`. A projection of a
longer prefix of the log, with checkpoints and forks as a later state has them,
is one of more evidence (`ProjectionGrows`): this is where the order of the Tool
Gateway (`GateInv`) is needed, since a result before its request would be an error
of an unknown tool first and of a known one later, and where the first receipt of
a branch has to stay the first (`FirstReceiptStays`). `StandsInv`: a report
stands in every prefix of the log from the one it was made of on, and a reader
that reads again has read no less. TLC checked `StandsInv` on an instance of
331 008 states in which the gate's events are what is observed.

**Workbench.** `StatusNeverGoesBack` compares two displays, and between them lie the
detail at hand, a request under way and the log. `BenchOrder` puts the four in a
row: what is displayed of a Mission is not behind the detail at hand, either is
not behind what a request under way has read of it, and that is not behind the
log. It is inductive since one request for a detail is under way at a time
(`LoadsTyped`) and the log only grows, a Mission being created once
(`CreatedOnce`). Most steps are `Quiet`: they show nothing they did not show before
and read no status, so that the order stays (`QuietKeepsOrder`); what is left are
the reads of the status, the answers taken and the renders. TLC has checked
`BenchInv` on 16 million states of an instance with two clicks, which was not
run to its end.

Only model-checked are the liveness properties, which are out of the prover's
reach: `AcceptedIsSettled`, `RunEnds`, `RunsEnd` and `SelectedIsShown`.

## Where the code and its documents disagree

TLC found each of these in the models, but no run of `PROJECT.json` keeps the
counterexample: the definition named states what the document says, and checking
it in its module's run gives the behaviour.

1. **Unaffected work is abandoned** (`UnaffectedWorkIsKept` of `MissionPlanRun`). A node that a revision does not affect is
   abandoned when it finishes after the revision, because
   `#missionPlanAttemptFence` fences every Attempt of an older revision; the
   comment at `mission-plan.ts:769` says such work is kept and adopted.
2. **A fenced Attempt records its work** (`FencedAcceptsNoEffects` of `MissionPlanRun`). A revision during the last `await`
   before a node's commit (`engine.ts:4152`) is not seen, and the Attempt records
   Effect and artifact; `mission-plan.ts:228` types every fence
   `acceptsFurtherEffects: false`, and `docs/roadmap.md:502` says "stale work
   stops".
3. **A lost run blocks every receipt** (`RestartReconciles` of `MissionPlanRun`). Plan Attempts that a lost run leaves open
   are closed by no later run; their Effects bar every verified receipt.
   `docs/product-requirements.md:542`: "A restart must reconcile incomplete
   dispatch".
4. **Everything succeeds after a receipt** (`SucceededIsEvidenced` of
   `MissionPlanRun`, 24 steps). After a verified receipt of a Plan, every later
   Contract revision shows every node as succeeded, the invalidated ones too:
   `missionPlanRuntime` (`engine.ts:3223`) takes the checkpoint of every Attempt
   the receipt names for an artifact of the newest revision. Its comment says "A
   node is `succeeded` only when a verifier-backed PlanArtifact is available".
   The display is wrong; what is dispatched is not.
5. **A second decision is called a prevention** (`PreventedIsNotDispatched` of `ToolGate`). Of two decisions on one gate
   that one drain reads, the second (reject) is recorded as an enforced
   prevention though the first released the tool
   (`docs/product-requirements.md:385`: "only an enforced Adapter gate may claim
   that mutation was prevented").
6. **A finished stage is followed by its fallback** (`FallbackAfterFailure` of `MissionRun`). A controller that ends after
   a stage succeeded and before the receipt makes the resumed Mission run the
   fallback stage (`engine.ts:9180`); `engine.test.ts:397`: "verifies
   immediately after the preferred Runtime succeeds without starting a fallback".
7. **A fork left open blocks its Mission** (`RestartReconcilesForks` of `ExecutionFork`). `#closeDanglingAttempts`
   (`engine.ts:7054`) looks for an open Attempt's Effect under
   `workspace.stage_mutation` only; a fork's is another, so that a fork whose
   controller ended makes every later resume throw. Against the sentence of 3.
8. **Replays cannot be inspected** (`ReplaysStayInspectable` of `CheckpointReplay`). Two playbacks of one checkpoint that overlap
   write a line with the same number (`checkpoint-replay.ts:584`); the file is
   refused from then on, and so are the details of the Mission
   (`engine.ts:1965`). `docs/roadmap.md:306`: "an application restart can
   continue inspecting and operating both Branches". A torn last line does the
   same.
9. **An analysis becomes unreadable** (`InsightStaysReadable` of `MissionInsight`, 9
   steps). A diagnostic fork requested for a
   candidate whose variable does not fit the Intervention's kind makes every
   later failure intelligence of the branch throw (`engine.ts:2405`,
   `mission-failure-intelligence.ts:974`), until a newer composite checkpoint;
   `docs/product-requirements.md:386`: "the original Branch remains
   inspectable".
10. **CI passes on a rejected trial** (`PassedIsVerified` of
    `OutcomeRegression`, 39 steps). A trial whose process failed, or showed no
    tool at work, but whose verifiers passed has a rejected Kernel receipt with
    every criterion passed; the rerun's own receipt is issued with no Effects
    and the CI result passes. `docs/product-requirements.md:423`: "any required
    failed/unknown criterion or blocking/ambiguous required Effect prevents a
    verified Receipt".
11. **The pane shows another Mission** (`ShownIsSelected` of `Workbench`).
    Selecting B while A's detail loads leaves A's answer in `state.detail` under
    selection B; a live render displays it, and Resume and Verify act on B.
12. **An entry goes and comes back** (`EntriesStay` of `Workbench`). An entry of
    the stream is dropped by a detail read before it, until the next poll.

## Observed while modelling

Not against a document, or not checked by a run; for whoever changes the code.

*Mission Plans.* A requirement that leaves the Contract while its node keeps
another one makes the Plan unrunnable: `createMissionPlanNodePrompt`
(`engine.ts:7646`) throws after `attempt.started`, the Attempt stays open with
its Effect intended, and every later run does the same; adding the requirement
back makes it unplanned instead. A work node without criteria, which `spec.ts:573`
and `mission-draft.ts:351` accept, is executed and checkpointed, is never
complete (`engine.ts:7632`: no evidence), and is dispatched again by every round of
the loop (`engine.ts:3531`), with a new Attempt and a new Runtime each time, until an
Attempt fails; `RunEnds` excludes such Plans, all other properties hold of them. A Plan need not cover every initial requirement. An adopted artifact is
listed as invalidated by the next revision and may be adopted once more; two
revisions before an adoption lose the reuse of the first. The status `stale` is
unreachable; a stranded Attempt shows its node running for ever. A declared
output that was not written, an unsafe output path, or two workstreams with one
output path are refused only when a node or the join runs.

*Creation.* The page and the draft accept `${NAME}` in arguments and paths that
the loader refuses after the draft's file was written, and check neither the DAG
nor the shape of a join: all of these are answered with 500. A restored snapshot
resolves its context path again, so that a later symbolic link makes the Mission
unopenable. An adapter route that is no longer listed falls back to blank
stages, which the draft refuses. An Adapter whose id has a colon is loaded
(`adapter-sdk.ts:492`) and offered on the page, and every request that names it is
refused by the draft (`mission-draft.ts:593`). `create` may leave a Mission without its
command when the application closes in between.

*Stages and handoffs.* A verified receipt may be issued while the last Attempt is
open (the controller ended before `attempt.finished`, then `verify`); `verify`
on a succeeded Mission sets `verifying`, and a crash then makes `resume` execute
stages again. A prompt above the Profile's budget throws after
`attempt.started` (`engine.ts:6007`). An external Effect that a coordinator left
at `dispatch_started` or `executed`, since it ended or lost its lease, is not
among `doNotRepeatEffectIds` (`engine.ts:9066`), although its target may have done
it: the next Runtime's capsule does not name it, and only the composite of
a handed-off frontier has its status. Nothing but a repeated request for that Effect
reconciles it. (`docs/product-requirements.md:378` puts "Effect state" among what a
capsule contains, and `README.md:80` "which external effects already happened and must
not be repeated" among what MissionBraid makes explicit.) The planner never keeps the current
Profile for its own sake and breaks ties by digest, so that the plan's order is
not kept; after a jump a resume plans from the skipped stage. Stages of hosted
adapters are never eligible; `EFFECT_REPLAY_BLOCKED` never fires, as
`wouldRepeatEffectIds` is always empty; a handoff may widen a permission
(`docs/product-requirements.md:337`); an override that names a stage which no
longer remains blocks the handoff; an Attempt that never started, with a changed
workspace, gets a `handed_off` checkpoint whose composite can never be made.

*Runtime processes.* Lines queued after an observer failed are still observed,
and then raw differs from retained and dropped; a grandchild that holds the
output keeps a run, and a detection, from ending; a process that exits with 0
before it has its prompt counts as a success; an acknowledgement before the
first tool request is accepted although the workspace has changed.

*Tool Gateway.* `tool.gate.decided` and the `effect.status_changed` that follows
are two transactions (`engine.ts:6925`, `6945`). A lease that is lost, or a
controller that ends, between them leaves a decision that is in the log, has no release
and leaves its Effect at `intended`: every later drain takes the intent for handled
(`engine.ts:6917`), and the hook denies the tool when its time is up. A hook that
times out leaves its Effect unresolved for good;
nobody drains an earlier Attempt's gateway after a crash; a decision between the
two directory reads of a drain makes it throw, which aborts the Runtime; the
watcher is not stopped if the last drain throws; the last drain can overwrite an
outcome the watcher observed. A directory above its limit makes every listing
throw; a lock left by a killed process is never taken over.

*Receipts and forks.* A child branch's rejected receipt sets the Mission to
failed and replaces its receipt; an Effect recorded after a receipt leaves
`succeeded` with an unresolved Effect until the next Attempt starts.

*Checkpoints and replay.* A replay asked over HTTP gets a fresh Intervention id,
so that a retry is another replay; a cached replay retried after a crash between
`receipt-input.ready` and `replay.completed` is refused for ever, and one with
two identical lines, or a replacement equal to a line, from the start; two
replays may name one child branch; Effects confirmed after a checkpoint are not
in its frontier; the captured workspace is the present commit, not the
Attempt's.

*Insight.* A newer checkpoint drops earlier confirmations; a request derived
before a newer checkpoint and appended after it is never considered; proposals
for a permission conflict are never ready, and `mechanism-refuted` cannot be
reached through the engine; adapter evidence is never passed. The projection reads
`tool.gate.released` (`mission-failure-intelligence.ts:727`), which nothing
records: a release is a file, so that a rejection is never more than the
unknown conflict of a decision.

*Outcome Studio.* After a Contract revision two evaluated branches make every
branch's view throw (`engine.ts:3302`); a profile or planner observation between
trials changes the Agent Revision, and the rerun throws after all trials; two
clicks record two selections; a scenario of a rebound fork can never be rerun;
`view.ciResult` is always null.

*Workbench.* A list load under way when a Mission was created deselects it; a
dispatching command of a killed application offers a Resume that is answered 409
until the claim expires; `launchPlan` and `queueView` overwrite each other's
entry in `operations`, so that `close` neither aborts nor awaits the other; a
command claimed by another controller stays queued in this one; a re-render
discards what was typed.

## What is not modelled

- *Compensation* of an external Effect as a second coordination in order, and
  the status `conflict`, in `ExternalEffect` and in `AdaptiveHandoff`.
- *Context capsule and graph*: a capsule is its size and the Effects it names
  (`AdaptiveHandoff`), Context is the fact that was read (`MissionInsight`);
  selection, hashing and rendering are functions over documents.
- *Conflicting facts of a Runtime*: in `MissionInsight` a fact's id is the place of
  its event, so that no two facts share one. Of facts that differ and share an id
  the code takes none and notes a gap (`mission-failure-intelligence.ts:467`).
- *Verifiers and git inspection*: the nondeterministic verdict, digest or
  conflict of the models.
- *Adapter SDK, host and providers*: protocol checks of products; a hosted
  adapter is a Profile that can be detected.
- *Catalog probes*: the nondeterministic outcome of a detection.
- *Command line, exports, proof and fixture scripts*: argument parsing and
  printing; the HTTP effect target is the target's side of `ExternalEffect`.
- *Rendering, translation and layout* of the page, and the handlers of buttons
  that post and reload like the ones in the model. They are most of
  `app-page.ts`, and keep no state but what they show.
- *Hashes* and the chain of hashes of the log are taken to do what they are for:
  two records have one digest if and only if they are equal.
