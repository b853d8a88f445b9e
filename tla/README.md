# A verification of PrivAgent

PrivAgent is a browser agent. The user types a task on a dashboard page; a
Chrome extension opens or chooses a tab, perceives it, asks a reasoning backend
for one action at a time, passes each action through a row of gates, executes
it, and asks the page what the action did. What makes it hard is not any one of
those steps but what happens between them: every step is asynchronous, the user
can stop, replace, confirm or decline at any await, messages to the dashboard
are repeated and overtake each other, and the service worker in the middle can
be evicted.

This directory holds TLA+ models of the parts of the program where these
interleavings decide whether it is right, the TLC configurations that check
them, and proofs of their invariants for every value of the bounds. Paths
below are relative to the repository.

Contents: [the system](#the-system) · [the models](#the-models) ·
[the runs](#the-runs) · [bounds](#bounds) · [fairness](#fairness) ·
[proofs](#proofs) · [disagreements](#disagreements-with-docs-and-comments) ·
[not modelled](#what-is-not-modelled) · [the plan](#the-plan)

## The system

### Parts, state and operations

| Part | Source | State it keeps | Operations |
|---|---|---|---|
| Dashboard card | `frontend/src/adapters/extensionAdapter.ts` | run id, card status, prompt, watchdog, `isStartingTask`, active conversation | `startTask`, `stopTask`, `confirmAction`, progress handler, watchdog |
| Relay | `extension/src/content/contentScript.ts` | validity of the extension context | START, STOP, CONFIRM to the worker; progress and answers back |
| Service worker | `extension/src/background/serviceWorker.ts` | `activeTaskRunId`, `activeLoop`, `activeConversation`, `lastTaskExecutionState` | START bodies, STOP, CONFIRM, `sendToDashboard`, `executeAction` |
| Agent loop | `extension/src/agent/agentLoop.ts` | lifecycle, status, step, retries, recorded steps, commit records | `runTask`, `cancel`, `resumeWithConfirmation` |
| Commit certainty | `agent/commitCertainty.ts` | commit records (last 50) | assess, resolve by page wording, settle by effect, `mayDispatchConsequential` |
| Hierarchical planning | `hierarchicalPlanning/*` | subgoal graph, plan state machine and its context | select, complete, fail, register each stage |
| Long-horizon tracker | `agent/longHorizon.ts`, `semanticProgress.ts` | actions, replans, consecutive and total no-progress, fingerprints, scroll budget | `observe`, `detectLoop`, `detectStall`, `replanRemaining`, `checkBounds` |
| Recovery | `agent/recoveryEngine.ts` | attempts and strategy per failure category; decisions taken | `plan`, `decide` |
| Persistence | `agent/longHorizonPersistence.ts` | one record in session storage | load, save, clear |
| Reasoning turn | `agent/backendAgentProvider.ts`, `modelRouter.ts`, `providerResponse.ts`, requests of `runTask` | attempts, back-off, escalation | request, classify, retry, escalate |
| Backend | `backend/app/*` | none between requests | accept a request, ask models within a budget, fail over, accept a completion |
| Target tab | `background/targetResolver.ts`, `agent/intentBoundary.ts`, `agent/containment.ts`, `agent/harness.ts` | the scope of a run | admit, choose or open a tab, check the scope |
| Conversation | `agent/conversationContext.ts`, `referenceResolver.ts`, `entityIdentity.ts` | candidates, selections, a pending question | observe, resolve, revalidate, continue |
| Perception and privacy | `content/*`, `worldModel/*`, `visualPerception/*`, `ocr/*`, `offscreen/*`, `privacy/*` | page counters, one offscreen document | scan, read, fuse, decide, minimise |
| Evidence | `evidence/evidenceLedger.ts`, `agent/proposal.ts`, `semanticObservation/*` | records with page number | ingest, age, cite, resolve a terminal proposal |
| Gates | `groundingEngine.ts`, `actionValidator.ts`, `selfHealing.ts`, `securityCritic.ts`, `riskEngine.ts`, `actionFreshness.ts` | none | refuse, heal, ask |
| Execution | `executeAction`, `contentScript.ts`, `domInteractiveScanner.ts`, `effectVerifier.ts` | the last report, a queue, recent clicks | find, act, snapshot, compare |
| Goal | `goalVerifier.ts`, `goalProgressTracker.ts`, `destinationVerifier.ts` | page type, candidates, first scroll position | judge |
| Output | `agentOutput.ts`, `actionHistory.ts`, `uiProjection.ts`, `agentWorkspace.ts`, `receiptsStore.ts` | card, turns and their logs, receipts | project, screen, fold, file |
| Words to plan | `planning/destinationNormalizer.ts`, `hierarchicalPlanning/taskDecomposer.ts` | none | declare destinations, classify, decompose |
| Memory | `memory/*` | notes of a run, one storage key | note, write, recall, evict |
| Firewalls, redaction | `security/*`, `redaction/*`, `capture/*` | none | match, draw |

### How they interact

```
dashboard page --START/STOP/CONFIRM--> content script --runtime message--> service worker
      ^                                                        | one async body per START
      |                                                        v
      +-----------progress (repeated, reordered)------- AgentLoop.runTask
                                                               |
      perceive -> select subgoal -> goal? -> provider -> gates -> dispatch -> effect -> proof
                                     (executeAction calls back into the worker)
```

* A START makes an *async body* in the worker. It awaits the list of tabs, a
  provisioned tab and its readiness, then creates a loop and awaits `runTask`.
  Nothing queues bodies: several can be in flight, told apart by a token that is
  compared after each await.
* A loop cannot be interrupted, only *halted*: `cancel` changes its lifecycle,
  and the loop looks at it after each await.
* A confirmation is a second entry into the loop (`resumeWithConfirmation`),
  which dispatches the parked action and then calls `runTask` again.
* Progress is fire-and-forget: each `sendToDashboard` repeats its message until
  a delivery is acknowledged in 1.5 s.

### What is hard, and what must be true

* **Interleaving**: between any two awaits of a body or loop another START, STOP
  or CONFIRM may be handled. Must hold: one run owns the tab, and a run that lost
  it sends no more than the action it had already begun (*Task ownership*).
* **Dispatch without knowledge of the effect**: BUY, SUBMIT, SEND … may have
  happened although the call failed. Must hold: no such class is dispatched again
  before something was observed (*Commit guard*).
* **Unreliable delivery**: progress repeated, late, reordered, lost with the
  worker. Must hold: what the user stopped stays stopped, a confirmation reaches
  the run whose prompt was shown, no card runs for ever (*Extension adapter*).
* **Attempted is not achieved**: dispatch, effect and proof are separate. Must
  hold: dependents start only when their prerequisites were proven, completion is
  earned (*Hierarchical planning*).
* **Many bounds on one loop**: steps, retries, replans, stalls, recoveries of two
  engines. Must hold: the run ends, each bound bounds what it says, no engine
  ends what another still recovers (*Long horizon*).
* **Eviction**: the worker's memory is lost at any await; what is kept must be
  found again (*Long horizon*, where it is not: `RestartRemembers`).
* **Deadlines that race**: the client's attempt, its back-off, the backend's own
  requests and sleeps, the watchdog of the card. Must hold: every turn ends, no
  silence is longer than a known bound, a refusal that cannot change is not asked
  again (*Reasoning turn*).
* **Evidence that outlives its page**: a reading is filed after the tab moved on,
  counters restart per origin. Must hold: stale is stale for good, what is told is
  undisputed, a success that needs evidence has some (*Page evidence*).
* **Verdicts on what was not read**: of a goal, of an effect, of a target that
  self-healing exchanged between two gates. Must hold: nothing is concluded from
  the absence of a reading, and what leaves is what was judged (*Gate chain*,
  *Execution*, *Goal verdict*).
* **A window shared with the user**: tabs are listed, opened and entered over
  several awaits while the user browses. Must hold: no unrelated tab is taken,
  none is touched for a start that is no longer the latest, a run led off its
  site stops (*Task target*).
* **Two languages for one contract**: TypeScript and Python write the same limits
  down separately, and cut, scan and drop in different orders (*Wire contract*,
  *Page perception*).
* **Words that become a plan**: verbs that ask and verbs that report, boundaries between
  clauses, a branch per category. Must hold: no page is opened that was not asked for,
  none that was asked for is lost (*Task decomposer*).
* **A store written by read, await and write**: by runs that overlap. Must hold: what
  is recent is recalled unless another writer lost it (*Agent memory*).
* **Meaning carried over turns**: "it" and "the third one", turns that overlap,
  projections of late messages (*Conversation*, *Output*).

`PROJECT.json` lists 26 components with their status, and 40 hazards at the
lines where they bite, each with the properties that would catch it or the
reason why none does.

## The models

| Module | Lines of the program | Abstract specification | Proofs |
|---|---|---|---|
| `CommitGuard` | dispatch section of `runTask`, `resumeWithConfirmation`, `commitCertainty.ts` | `EvidenceGate` | `CommitGuardProofs` |
| `TaskOwnership` | START/STOP/CONFIRM of the worker, bodies, lifecycle of loops, contextual intents | `TabLease` | `TaskOwnershipProofs` |
| `ExtensionAdapter` | adapter, relay, `sendToDashboard` | — | `ExtensionAdapterProofs` |
| `PlanEngine` | planning side of `runTask`, `subgoalGraph.ts`, `subgoalSelector.ts`, `planStateMachine.ts` | — | `PlanEngineProofs` |
| `LongHorizon` | bounds of `runTask`, `longHorizon.ts`, `semanticProgress.ts`, `recoveryEngine.ts`, `longHorizonPersistence.ts` | — | `LongHorizonProofs` |
| `ReasoningTurn` | `requestActionWithBoundedRetry`, `backendAgentProvider.ts`, `providerResponse.ts`, `modelRouter.ts`, the request loop of `reasoner.py` and its route | — | `DecisionsProofs` |
| `PageEvidence` | page counters of `contentScript.ts`, `perceivePage`, `evidenceLedger.ts`, `proposal.ts`, the verdicts of `runTask` | — | `PageEvidenceProofs` |
| `TaskTarget` | `intentBoundary.ts`, `targetResolver.ts`, the body of START, `containment.ts`, `harness.ts` | — | `BoundaryProofs` |
| `Conversation` | `conversationContext.ts`, `referenceResolver.ts`, `entityIdentity.ts`, their use in worker and loop | — | `BoundaryProofs` |
| `GateChain` | grounding, M5, self-healing, critic, risk, semantics, confidence, review, confirmation, containment, freshness | — | `DecisionsProofs` |
| `Execution` | `executeAction`, `executeBrowserAction`, the scanner, snapshots, `effectVerifier.ts` | — | `DecisionsProofs` |
| `GoalVerdict` | `goalVerifier.ts`, `goalProgressTracker.ts`, `destinationVerifier.ts` and what the loop keeps for them | — | `DecisionsProofs` |
| `TaskDecomposer` | `destinationNormalizer.ts`, `taskDecomposer.ts`, `isSearchSurfaceUrl` | — | `BoundaryProofs` |
| `AgentMemory` | `memoryStore.ts`, `memoryManager.ts`, `memoryRetriever.ts`, the writes of `runTask` and `longHorizon.ts` | — | `DecisionsProofs` |
| `PagePerception` | `perceivePage`, coordinator, offscreen OCR, `fusion.ts`, `privacyDecision.ts`, `contextMinimizer.ts` | — | `BoundaryProofs` |
| `WireContract` | `historyContract.ts`, `actionHistory.ts`, `providerResponse.ts`, `models.py`, `reasoner.py` | — | `BoundaryProofs` |
| `Output` | `agentOutput.ts`, the adapter's card, `uiProjection.ts`, `agentWorkspace.ts`, `receiptsStore.ts`, `main.ts` | — | `BoundaryProofs` |

`Absent` holds the value that stands for null, `Sifting` the two walks over a list that
the models share (keep the entries of a set; join lists).

All follow one convention: **a step is the synchronous section between two
awaits**, and a `pc`-like variable names the await in which a run is suspended,
so TLC interleaves exactly where JavaScript can. What a page shows, what the
provider answers and what a gate computes is a free choice; the control that
follows from it is the program's. Variables marked `history` are not in the
program: they remember what a property speaks about. An operator above another
with a longer name (`RereadRevives` above `Reread`) is a plausible mistake in the
one below it; nothing of the model uses it, it is the way in which one property
was seen to fail. A module may end with *What the repository says and the code
does not do*: sentences of comments or docs as properties, which TLC refutes.
A text is abstracted to what the code looks for in it: a set of telling words,
a kind of claim, a mark.

### CommitGuard

One run and its consequential dispatches. `records` is `state.commitRecords`
(cut to `KeepRecords`), `class` the class of the action in hand, `page` the
outcome wording the page shows at present (silent, confirms, fails). Two history
variables tell what the records should: `unseen`, how often each class was
dispatched since anything was observed, by the loop or for the user, and `granted`,
how many of those the user confirmed.
`pc` is one of `propose`, `parked`, `confirmedGate`, `confirmedExec`, `gate`,
`resolveGate`, `exec`, `resolveFailure`, `effect`, `done`.

`GateClear`/`GateBlocked` are the two ways out of `mayDispatchConsequential`;
`ResolveAtGate` and `ResolveAfterFailure` call `ResolveOpenCommit`, which reads
the page; `EffectObserved`, `EffectAbsent`, `EffectUnobservable` are the effect
verifier; `Cancel`, `ConfirmAllowed`, `PageChanges` come from outside at any time.
`ConfirmedGate` and `ConfirmedReturns` are the path of `resumeWithConfirmation`: the
parked action is dispatched past the guard, no record is made of it and its effect is
not looked for.
`EvidenceGate` says what all that is for: every dispatch is paid for, with the one
credit an observation leaves each class or with one the user's word adds to it. Its
variables map to `1 + granted - unseen`, the class in flight (confirmed or not), `page`
and `pc = "done"`.

### TaskOwnership

The worker with any number of bodies and loops, and the dashboard page that
numbers them. A body has `bodyPc` (query, provision, ready, announce, loop,
done), a loop has `life` (ACTIVE, CANCELLED, SUPERSEDED), `status`, `steps` and
`cycle` (think, check, sent, gate, settle). `TaskArrives`, `ContinueArrives`,
`AnswerArrives`, `ChatArrives` are the branches of the START handler: browser
work, a continuation of the last task, an answer from the conversation, a chat
turn. `ConfirmArrives` and `DenyArrives` are CONFIRM; `Reload` loads the
dashboard page again, whose run ids then start from one. `Caught` is the `catch` of the
START body: `BodyThrows` reaches it from an await of the body itself, `LoopThrows` from
the `runTask` it awaits (what a resume throws is only logged). `LoopSends` is
`executeAction` after its await of `chrome.tabs.get`: the point from which an
action can no longer be recalled. `TabLease` is granted, revoked and used once
more late; its holder is the body whose token is the worker's id.

### ExtensionAdapter

The card and its messages in both directions. `posted` is the queue to the
worker, `calls` the running `sendToDashboard`s with the attempts each may still
make, `wire` the attempts queued at the tab, so a message can arrive twice,
late and behind younger ones. `ExtensionReloads` makes the content script
invalid; the worker may lose its loop. The worker is reduced to the loop it
can stop.

### PlanEngine

One run seen from its plan: `sub` (the states of the subgoals), `engine` and
`ctx` (`PlanStateMachine` and the context its guards read), the loop's `step`,
`retry`, `lastAction`, and the history `proven`, `verified`. A cycle
is `BeginCycle`, `SelectSubgoal`, `RevisitDestination`, `CheckGoal`, `Propose`,
`Ground`, `ValidateM5`, `PassCriticAndPrivacy`, `AssessRisk`, `CheckDispatch`,
`Execute`, an effect action, `ProveSubgoal`, `JudgeCycle`, `FinishCycle`. The
loop informs the state machine only where it finds it in the expected state, so
the two drift apart; `OnlyGoalThrows` says how far. The filter on a subgoal's own
`maxRetries` is not in `SelectSubgoal`: the recent failures are booked on the subgoal
selected last, which is not READY when the next is selected, so it removes nothing.

### LongHorizon

What ends a run that gets nowhere. `tracker` are the four counters, `scroll`
and `stagnation` the scroll strategy, `planner` the typed planner, `calls` the
decisions of `RecoveryEngine`
(`Raw` are the ids that its scan takes for a personal value), `stored` the record in session storage, `runs`
the number of the run (its `runId`). `Observe` is the part of a cycle between
perception and the check of the bounds: it counts the action of the *last
recorded step*, saves, replans, drains the scroll strategy and ends the run at
a bound. The other actions are the ways through a cycle: unsupported and stale
answers, proposals, refusals, parking, a page that moved, dispatch, and the five
outcomes of a dispatch. `Die` is an eviction or an exception at any await.

### ReasoningTurn

A turn in scaled time: `attempt` and `left` are the client's attempt and what is
left of its running timer, `server` and `queue` the backend, which serves one
request at a time and is never told that nobody waits for the answer. `Tick`
passes a unit and no unit passes while a timer is due. `RaceTimesOut`,
`NetworkFails`, `BodyArrives`, `BodyGarbled`, `BackoffEnds` are the client;
`ServerTakes`, `ModelAnswers`, `PostFails`, `PostTimesOut`, `RateLimited`,
`FormatRefused`, `SleepEnds` are the reasoner with its formats, retries and fall-back
provider; `RequestRefused` is the route. The classification of a reply
(`parseError`) is an operator on status, kind and flag, so a kind that the
backend calls final and the client calls retryable, or the reverse, is found.
The bound that holds, `SilenceBounded`, is one attempt and one back-off:
85 s in the program, more than the 60 s of the card's watchdog.

### PageEvidence

`tab` is the document and its script's counter, `stored` the counters in session
storage per origin, `reading` a scan the worker is working on, `ledger` the
records, `per`, `cur` and `scoped` the loop's three numbers. The tab moves, and
what it displays changes, between any two steps of a reading. `Ingest` is
`advance`, then `record` and `verify` per fact, then the ring; `Accepted` is
`normalizePerceptionResult`; `Verdict` is the goal verdict with the answer it
composes; `Propose` is a terminal proposal. Reading a page into the ledger and
accepting it into the loop are separate in the code and here: a reading the loop
refuses is still in the ledger.

### GateChain, Execution, GoalVerdict

Three decisions about one action. `GateChain` computes each gate from an action,
a page and the words of the task, in the program's order, with what a refusal
does to the run (`gRetries`, `gStale`, `gBlind`); `gIdle` is history. `Execution`
is the page's side: `xDoc` what the tab shows, `xReport` the scan by which the
content script looks a target up again, `xQueue` what was sent and not yet run, so
an action given up after 10 s runs later. A snapshot has the code's two awaits: the
tab's record gives the address (`xTab`), then the page answers or does not, and between
the two the page may change or leave, also unasked (`PageNavigates`). `xWas` and `xIs`
are the history of what was there when each half was read. `GoalVerdict` is `verifyTaskGoal`
with its rules in order, the subgoal conditions, and `mem`, what the loop keeps
from one reading for a later verdict; `seen` is history.

### TaskDecomposer

A text (one of `TaskTexts`) is a sequence of words; each vocabulary of the code is
represented by a few of its words, and `PageRoles` is the table of page names.
`NormalizeDestinations` masks all addresses but the first and walks over the rest: a
step of the walk (`Construct`) finds a verb (`VerbLength`) and whether it only reports
(`Asserts`); `ResolveHead` cuts the words behind it (`Window`) at the `Boundary` and
keeps the `Continuation`; `LookupHead` takes the first of the `HeadCandidates` that is in
the table. `Constructs` repeats that to the end of the text. An address that no verb
took is claimed last. `DecomposeTask` classifies the text and
builds the graph of its category (`Lead`, `ChainOf`, `Linked`). The two steps are
`Declare` and `Decompose`, from any text and any page the run may start on.

### AgentMemory

`mNotes` is the working memory of the worker, `mStore` the records in storage by class,
`mLoops` the loop of each run with what it recalled (`hints`), read (`copy`) and
writes (`record`). A cycle is `Recall`, `NoteProgress`, then `Remember` or `PassOver`; a
write is `ReadStore` and `SaveStore`, with every other run between them, or
`BlockWrite`. `StartRun` clears the notes of all runs; `WorkerDies` drops notes and
loops. `mSaved` and `mLost` are history.

### TaskTarget

Messages become bodies in `starts`, each with its place (`asked`, `listed`,
`loading`, `activating`, `told`, `between`, `reading`, …), the list of tabs it was
given, the tab and page it chose (`home`) and the pages it has read. `MessageComes`
admits or refuses, `TabsListed` and `Decides` are the resolver, `Provisioned` and
`Acknowledges` the waits, `LoopStarts` binds the scope, `CycleBegins` is the check
of the harness and `CycleReads` a reading. `PageChanges` and `UserPicks` are the
user, between any two of them.

### Conversation

`cCurrent` and `cActive` are the worker's conversation and run, `cLoops` the
loops with a context each. `MessageArrives` plans whether the turn continues,
`Reads` observes a page (candidates, revalidation of a selection, the anchor),
`Resolves` resolves the reference of the turn, `Asks` asks, and each hands the
context back to the worker, which takes it from the run that owns the task.

### PagePerception

One reading per reader: `Scan`, `Locate`, `Measure`, `Capture`, `Send` to the
offscreen document, `Recognised` or `GivesUp` or `Skip`, `Conclude`. Boxes have one
dimension. `Fused` merges overlapping findings, `Decide` withholds by category,
`Minimized` cuts to the limits. The user switches tabs and pages between the steps.

### WireContract

A request of the loop (`Ask` with the history recorded so far), the acceptance of
the backend, a completion (`Answered`) parsed by the backend and checked again by
the extension, and the step recorded of it (`Record`) at one of the places where the
loop records. A text is one of seven kinds that the checks tell apart.

### Output

`runs` are loops and chats of the worker, `outbox` the messages in flight, which
may be lost, repeated and overtaken; `card`, `turns` (each with its log) and
`receipts` are the dashboard. `StartTask`, `StopTask`, `OpenReceipt`, `Reload` and
`Watchdog` are its side.

### Composition

The modules overlap on purpose at their seams and leave to each other what is
not theirs: `TaskOwnership` reduces a cycle to "from one `executeAction` to the
next"; `CommitGuard`, `PlanEngine` and `GateChain` hold its halves, `LongHorizon`
its bounds, `ReasoningTurn` and `PageEvidence` its question and its reading;
`ExtensionAdapter` reduces the worker to the loop that STOP reaches, `TaskTarget`
fills in what its bodies await. The abstract specifications are composed by
`INSTANCE … WITH` and checked as properties (`ImplementsEvidenceGate`,
`ImplementsLease`).

`MCDecisions` and `MCBoundary` put modules that share no state side by side in one
specification with one next-state relation: a behaviour is of one part (`part`,
`side`), the others stand still. They join questions of one kind in one run, not the
parts' interleavings; nothing in the modules would let those meet.

## The runs

Each `MC*.tla` names the small sets, each `.cfg` a question. `passing` runs
finish without error; a `violation` run checks one sentence of the repository
that the code does not keep.

| Run | Expect | Distinct states | Checks |
|---|---|---|---|
| `commit_guard` | pass | 640,804 | `RepeatNeedsEvidence`, `ImplementsEvidenceGate`, `RunEndsOrWaits` |
| `task_ownership` | pass | 601,307 | `ShownIsOwner`, `ActiveLoopIsLatest`, `OwnTaskIsTold`, `ImplementsLease` |
| `task_settles` | pass | 46,469 | `EveryRunSettles` |
| `extension_adapter` | pass | 409,025 | `StopHolds`, `ConfirmedIsOwnRun`, `CardSettles` |
| `plan_engine` | pass | 311,133 | `PlanFollowsEvidence`, `CompletedIsEarned`, `RunEnds` |
| `long_horizon` | pass | 3,769,376 | `FruitlessBounded`, `BudgetsEndRun`, `EngineAbortsOnlyRaw` |
| `reasoning_turn` | pass | 93,225 | `RetryOnlyWhatMayChange`, `SilenceBounded`, `TurnSettles` |
| `page_evidence` | pass | 1,466,452 | `InformedSuccess`, `StaleStaysStale`, `AnswerStands` |
| `decisions` | pass | 3,106,567 | `LeavesJudged`, `EffectWasMeasured`, `EffectIsItsOwn`, `SuccessWasRead`, `AbsenceProvesNothing`, `OnlyWhenAsked`, `DeclaredIsPlanned`, `FailuresAreRecalled` |
| `boundary` | pass | 1,016,591 | `NeverHijacks`, `OneStrangePage`, `TouchesAsLatest`, `ConversationIsLatest`, `NeverGuessed`, `SensitiveKept`, `ScannedWhole`, `ToldTruthfully`, `NeverWorksAgain` |
| `history_accepted` | violation | | `HistoryAccepted` |
| `screened_only` | violation | | `ScreenedOnly` |

What the passing runs show:

* **`RepeatNeedsEvidence`**: as long as nothing is observed a class is dispatched once,
  and once more for each confirmation the user gave to it, whichever path dispatches;
  the reason, proved as `GuardNeverForgets`, is that after a dispatch of its own the
  guard holds an open record of the class, or the dispatch has not returned. That a
  confirmed dispatch blocks the class too, as the contract says, does not hold
  (`ConfirmedBlocksClass`).
* **`RunEndsOrWaits`**, **`RunEnds`**, **`EveryRunSettles`**: from many places a
  cycle goes back to the top; each has spent a step, so a run ends or waits for
  the user, and bodies end even when superseded between any two awaits.
* **`ImplementsLease`**: the tab has one holder; a loser never returns and sends
  at most one late action (the await in the dispatcher is why it is not none).
* **`ShownIsOwner`**, **`ActiveLoopIsLatest`**, **`OwnTaskIsTold`**: a card shows
  its own run, STOP never reaches only an older loop, and the final state of a
  plain task is taken by its card.
* **`StopHolds`**, **`ConfirmedIsOwnRun`**, **`CardSettles`**: the promises of the
  card under bad delivery.
* **`PlanFollowsEvidence`**, **`CompletedIsEarned`**: order and completion, while
  loop and state machine drift apart; `OnlyGoalThrows`, proved, says how far they do.
* **`FruitlessBounded`**: no action that taught nothing is ever forgiven.
  **`BudgetsEndRun`**: no mixture of successes and refusals lets a run outlive the
  budget of a failure category, in particular two effects that could not be read.
  **`EngineAbortsOnlyRaw`**: no budget of the second recovery engine gets to end a run;
  what it does abort, failing closed, is a failure with an id that looks like a personal
  value (`recoveryEngine.ts:595`). They rest on `ActionsAreSteps`, proved: the tracker counts observations, not
  dispatches, and never more than the steps, so its 24 actions cannot end a run of
  10 steps.
* **`RetryOnlyWhatMayChange`**, **`SilenceBounded`**, **`TurnSettles`**: what a turn
  asks again, how long it is silent, and that it ends when no provider answers, a
  body stalls or the server is busy with a request nobody waits for.
* **`StaleStaysStale`**, **`AnswerStands`**, **`InformedSuccess`**: the life of a
  record against restarting counters and late readings, what a verdict may tell,
  and that a success tells something.
* **`LeavesJudged`**: whatever self-healing or grounding makes of an action after a
  gate has judged it, no gate objects to the form in which it leaves. That no path of
  refusals is uncounted (`RefusalsBounded`) is proved.
* **`EffectWasMeasured`**, **`EffectIsItsOwn`**: an effect is claimed only where the
  page was different, none is denied where it was, and an action that was given up
  never runs between the snapshots of a later one (the scan of the next cycle waits
  behind it; were a cached scan used, TLC shows it would).
* **`SuccessWasRead`**, **`AbsenceProvesNothing`**: no rule of the verifier fires on
  what a step asked for or on a field that perception did not deliver; shopping
  and STATE_CHANGED are excluded, and are among the disagreements below.
* **`NeverHijacks`**, **`TouchesAsLatest`**, **`OneStrangePage`**: of all orders in
  which messages, the user and the awaits of bodies can fall, none takes an unrelated
  tab, moves the window for an overtaken message, or reads two pages off the site.
* **`ConversationIsLatest`**, **`NeverGuessed`**: superseded loops never put their
  context back, and a selection is never carried over to one of several namesakes.
* **`OnlyWhenAsked`**, **`DeclaredIsPlanned`**: no reading of a text sends a run to a page
  nobody asked for, and the page asked for first gates the plan in every category, but
  for a commerce task that starts on a shop.
* **`FailuresAreRecalled`**: neither successes, which rewrite the failures too, nor the
  eviction, nor the loss of the worker hides a recent failure from a run; only a write
  that had read the store before it does.
* **`SensitiveKept`**: fusion loses no element and makes no finding, and nothing that is
  offered, milder than what was merged into it. One page has a field of a frame that bears
  the id of a button elsewhere (`domInteractiveScanner.ts:546` takes `el.id` as it is): the
  two are not merged, and the id is offered for the button. That no affordance survives the
  element it names (`NoDecoys`) is proved.
* **`ScannedWhole`**, **`ToldTruthfully`**: cut after scan, not before; every entry of the
  history is of one recorded step, in order, and reads as done only if that step ran, not
  if another of its kind did.
* **`NeverWorksAgain`**: late and repeated reports never set a finished turn to work;
  that its log has no entry at work (`SettledLog`) is proved.

Every property of a passing run is listed in `PROJECT.json` with a mutant of a
definition it depends on; under the run's own configuration the mutant violates it.

## Bounds

| Run | Bounds | Why they are enough |
|---|---|---|
| `commit_guard` | 2 classes, `MaxSteps` 3, `MaxRetries` 2, 2 confirmations, 2 records kept | a class is dispatched, blocked and dispatched again, after one confirmation and after two; two records of different classes are open together; of up to nine records all but two are dropped; retries are exhausted |
| `task_ownership` | 3 bodies, 3 run ids, 2 steps, no confirmation, no reload | one body opens a conversation, one ends in it, one continues it; an action can follow a late one |
| `task_settles` | 2 bodies, 1 run id, 1 step, 1 confirmation, 1 reload | a parked run is resumed while the other arrives, from a page loaded again |
| `extension_adapter` | 2 runs, 2 reports, 2 calls in flight, 2 attempts each, 1 click | a repeated old message behind a newer one of each of two runs |
| `plan_engine` | 3 subgoals in a chain and in a plan with two destinations, `MaxSteps` 6, `MaxRetries` 2 | all subgoals are proven, and a run falls out of step and comes back. With `MaxSteps` 10, the program's, 895,129 states and no error |
| `long_horizon` | the program's `MaxReplans` 4, `MaxQuiet` 3, `MaxStall` 5, `MaxRepeats` 2, `MaxTotalActions` 24, `MaxSubgoals` 10; `MaxSteps` 6, `MaxRetries` 1, 1 run with a plan of six subgoals (the decomposer's longest), an ordinary target and one whose id looks like a personal value | the stall budget is drained, an oscillation is a failed effect, the engine replans. A second run starts from reset variables and adds nothing to these invariants; with two, TLC refutes `RestartRemembers` |

| `reasoning_turn` | 2 classes of task, 2 turns, the program's 2 retries; attempt 3, request 2, sleep 1, honoured wait 2 units; hints 1 and 5; 1 repeat for a rate limit, 1 other format, a fall-back | one request fits into an attempt and two do not, as in the program (30 s of 55 s); a hint above and one below what is honoured; a request outlives the attempt that sent it, into the next turn |
| `page_evidence` | 2 origins, one with storage; 2 displays of 3 facts, with one key of two claims, a private one and an instruction; 3 records, 2 cycles, 1 move | counters restart, a number comes back on another page, the ring forgets, a conflict and its repetition are in one reading |
| `decisions` | 5 pages, 11 actions, 4 tasks, 1 retry, 4 cycles; 4 documents, 2 actions, 1 poll, 1 unasked change; 25 tasks, 48 readings, 2 looks; all texts up to 3 of 21 words, up to 4 of 11, up to 5 of 7; 2 runs, 2 sites, 2 records of which a class keeps 1 | each gate refuses and each heals; an action is left over from the one before; a reading with each field present and absent; an address, a verb, determiners, a head of two words and a continuation in one text; one run's write overlaps the other's and evicts |
| `boundary` | 2 messages of 7 kinds, 3 tabs, 3 pages to browse to; 7 turns over 4 pages, 2 messages; 3 pages, 1 reader, 2 readings; 29 completions, 8 declarations, 2 steps; 1 wording, 2 tasks, 2 messages in flight, 1 reload | one start overtakes another at each await; the tab leaves the site; namesakes; overlaps of each severity; each limit on both sides |

`MaxBodies`, `MaxRuns`, `MaxConfirms`, `MaxReloads`, `MaxConfirmations`,
`MaxReports`, `MaxCalls`, `MaxClicks`, the `MaxRuns` of `LongHorizon`, `MaxTurns`,
`MaxMoves`, `MaxLooks`, `MaxCycles`, `MaxActions`, `MaxPolls`, `MaxChanges`,
`MaxStarts`, `MaxBrowsed`, `MaxLooked`, `MaxMessages`, `MaxReadings`, `MaxSaid`,
`MaxStages`, `MaxInFlight`, `MaxOpened`, `MaxRecords`, `MemoryRuns` are bounds of the models, as are the
`MaxSteps` of `PageEvidence` and `WireContract`; the other constants are the program's, scaled down where the table says so (`MaxKept` is 50
there). `long_horizon` uses the
symmetry of the two scroll directions, which no temporal property contradicts
because it checks none. Deadlock is not checked where a run may simply be over.

## Fairness

* `CommitGuard`: `WF_vars(LoopStep)`. Every call the loop awaits (provider,
  perception, execution, snapshots) has a timeout, so a suspended run goes on.
  Nothing is assumed of the user, hence "ends *or waits*".
* `TaskOwnership`: weak fairness of `BodyStep(n)`, `LoopStep(n)` and
  `LoopCloses(n)` for each body, for the same reason. None for the dashboard.
* `ExtensionAdapter`: `WF_vars(PingReturns)`, `WF_vars(WatchdogFires)`: the ping
  gives up after 3 s, the watchdog fires after 30 or 60 s. None for the worker,
  the relay or the delivery: they may be lost. `CardSettles` rests on the
  watchdog alone.
* `PlanEngine`: `WF_vars(Next)`, one sequential run with timeouts.
* `ReasoningTurn`: weak fairness of `Tick` and of each timer that is due
  (`RaceTimesOut`, `BackoffEnds`, `PostTimesOut`, `SleepEnds`), of the server
  taking the next request, and of the loop's own steps. None for the providers, the
  network or the body of a reply: that they never come is what `TurnSettles` is
  about. It rests on the race covering the body too.
* The other modules have none; only invariants and action properties are checked
  and proved.

## Proofs

All theorems are checked by TLAPS to the last leaf, from the named assumptions
on the constants and nothing else.

| Module | Theorems | Inductive invariant |
|---|---|---|
| `CommitGuardProofs` | `TypeCorrect`, `GuardNeverForgets`, `NoBlindRepeat`, `GuardImplementsGate`, `RunsAreFinite` | `TypeOK`, `OwnOnce`, `Recalled`, `FlightFirst` |
| `TaskOwnershipProofs` | `TypeCorrect`, `LeaseCorrect`, `CardShowsItsOwn`, `StopReachesLatest`, `EndOfTaskIsTold`, `OwnershipImplementsLease`, `BodiesRunOut` | `TypeOK`, `LeaseInv`, `OrderInv`, `CardIsItsTask`, `SettleIsResumed` |
| `ExtensionAdapterProofs` | `TypeCorrect`, `RunningWatched`, `OrderCorrect`, `StopIsKept`, `ConfirmationIsOwn` | `TypeOK`, `OrderInv` |
| `PlanEngineProofs` | `TypeCorrect`, `EvidenceOrder`, `CompletionEarned`, `OnlyGoalThrowsHolds`, `RunsAreFinite` | `TypeOK`, `PlanInv` |
| `LongHorizonProofs` | `HorizonCorrect`, `TypeCorrect`, `ActionsBounded`, `FruitlessActionsBounded`, `BudgetsHold`, `EngineSilent` | `TypeOK`, `HorizonInv` |
| `PageEvidenceProofs` | `InformedAlways`, `StaleForGood`, `TypeCorrect`, `AnswerAlwaysStands` | `Informed`; `Ordered` (with `OnePlace`); `StandInv` |
| `DecisionsProofs` | `OnlyJudgedLeaves`, `RefusalsEnd` | `GateInv` |
| | `NothingElseRan`, `EffectsAreReal` | `ExecutionInv` |
| | `DoneWasRead`, `NothingFromAbsence` | `GoalInv` |
| | `HopelessNotRetried`, `SilenceEnds`, `TurnsAreShort` | `TurnInv`, `Tried` |
| | `RecentIsRecalled` | `MemoryInv` |
| `BoundaryProofs` | `TargetTypeCorrect`, `NoHijack`, `OneStrange`, `TouchedAsLatest` | `TargetInv`: `TargetTypeOK`, and `Holds` of every body |
| | `ConversationLatest`, `GuessesNothing` | `TalkInv` |
| | `NothingSoftened`, `OffersAreNameable` | `PerceptionInv` |
| | `WholeIsScanned`, `HistoryIsTrue` | `WireInv` |
| | `LogsSettle`, `EndsStayEnds` | `OutputInv` |
| | `PagesAreAskedFor`, `AskedIsPlanned` | `DecomposerIInv` |

* **Commit guard.** The slice of records may drop an open one. `Recalled` says that of a
  class the loop dispatched itself a *recent* record is open: behind it all are open and
  no two are of one class. So no more were made since than there are classes, and
  `KeepAssumption`, `Cardinality(Classes) <= KeepRecords` (six and fifty), keeps them
  (`RememberKeepsRecent`). `OwnOnce` bounds what the loop dispatched by one beyond the
  confirmations, `FlightFirst` speaks of the dispatch that has not returned.
  `RepeatNeedsEvidence` is `OwnOnce`; in the refinement `DispatchIsPaid` is the step both
  paths of a dispatch share.
* **Task ownership.** `LeaseInv` says that ids only advance, that no two bodies
  hold a token, that a loser has sent at most one action, and that what was not
  claimed is idle. It needs `MaxReloads = 0`, which is a hypothesis of the two
  theorems; with `MaxReloads = 1` TLC refutes `SingleOwner`, so it cannot be dropped.
  `OrderInv` adds that bodies begin in the order of their tokens and that only the body of
  the run on the card has that run's id: so what passes the card's comparison of ids is its
  own (`CardShowsItsOwn`), and the active loop is of the last claim (`StopReachesLatest`);
  both need `MaxReloads = 0` too. `CardIsItsTask` does not: the body of the card's run has
  the tab and the card's words, however often the page is loaded, so `EndOfTaskIsTold`
  has no hypothesis.
* **Extension adapter.** `OrderInv` orders what is on its way: runs start in the
  order of their ids, each behind everything said about earlier ones, a stop is
  behind what it stops, and a prompt that can be answered has no later start in
  the queue. `StopHolds` and `ConfirmedIsOwnRun` are consequences.
* **Plan engine.** `GraphInv` relates the states of the subgoals to what was
  proven, `ContextInv` the machine's context to its state, `StepInv` the place in
  the cycle to the steps taken.
* **Long horizon.** `StallInv` bounds the fruitless actions by the total and the
  total by the budget; `ScrollInv` counts scrolls as fruitless observations and
  shows that an oscillation has always been charged to its recovery budget before
  an action is dispatched; `RecoveryInv` therefore keeps oscillations away from
  `RecoveryEngine`, which is left with three failures at most: too few for any of its
  budgets, so it aborts none but those it must not look at (`RawShaped`).
  That rests on `RunwayAssumption`, `MaxStall <= MaxQuiet + MaxSwings - 1` (in the
  program 5 ≤ 3 + 4 − 1), which nothing in the source states: raise
  `maxStallActions` by two and the argument is gone.

* **Task target.** A place of a body tells what it has: from `loading` on a tab that
  exists, from `told` on a home. The home of a body that opened no tab suits the
  mention of its task at the moment of choice and is never changed after, although
  the tab's page is: hence `NoHijack`. Every page read but the last was seen by the
  check of a later cycle, hence `OneStrange`. `TouchedAsLatest` follows from the
  comparison of the token after each await and from run numbers that only grow.
* **Conversation.** The worker takes a context back only from the run that owns the
  task, and a loop that is not superseded is that run's; `TalkInv` is that property with
  the shape of contexts, loops and turns. `GuessesNothing` is about `Revalidated`: a
  selection comes out of it confirmed only if its name is on the page once.
* **Page evidence.** `InformedSuccess` holds because the status stays IN_PROGRESS until
  the run ends, and each of its ends with SUCCESS was asked for keys that the ledger
  gave with a claim. For `StaleForGood`, no two records share reading and position, so
  a record can be followed through the ring; `Advance` takes away freshness for good,
  and `Reread` verifies fresh records only. `AnswerAlwaysStands` needs `StandInv`: where
  no subgoal declares a destination the two counters of the loop agree and no record has
  a higher number, so what a verdict finds at its number was filed from the reading of its
  own cycle, where a claim that was disputed or may not be told is not verified.
* **Gates.** `GateInv` says at each place what the gates passed so far have said of the
  action in hand (`Passed`): self-healing is followed by the validation of what it
  made, and no gate after it changes the target. `Counted` charges each cycle without a
  success to the retries, to the one stale page or to the one unread page.
* **Execution.** `Tells`: a snapshot tells of the page what it was when it answered, or
  only the address, which is the tab's of the moment before (`Reading`). `Alone`: while an action is tried nothing older is queued at the page, because
  the scan of its cycle waited behind it.
* **Goal.** `FromTheTab` ties what the loop keeps for later verdicts to addresses that were
  read; each rule is then looked at under the removal of any one field of the reading.
* **Reasoning.** `Served` follows a hint from the model over the backend to the
  client and says that no back-off follows a hopeless reply; `Timed` adds what is left of
  the timers to the silence so far.
* **Memory.** `MemoryInv` says that ages are given once (`Ages`), that what is stored, and
  what a write has read, was saved (`WasSaved`), and of every failure that was saved that it
  is in the store, was lost to another write, or is outnumbered by newer ones
  (`KeptInStore`). A write adds to the lost what it had not read, and the eviction takes the
  `Oldest`, which is older than all the others only because no two records are of one age:
  hence enough newer ones remain, each of them saved.
* **Perception.** Fusion is a recursive function over the list of signals, and so are the
  choice of what is offered and the walks of `Sifting`. Their invariants are proved by
  the smallest index at which they would fail (`Smallest`, `Climb`, `Recursed`): a
  finding ranks as high as the strongest of its group, every signal is in a group, and
  only what is offered is kept among the affordances. `PagesAssumption` gives a page's
  elements their shape and says nothing of their ids. The proof also found a mistake of the model: a misplaced conjunct made
  `FirstOffered` choose among equals at will.
* **Wire.** A text that comes back from `ParseAction` or `ParseProposal` was judged before
  it was cut, whatever completion it came from; an entry of the history carries a verdict
  or an effect only where `Places` says that the step ran, and keeping some of a list
  (`AmongInOrder`) keeps their order.
* **Output.** Steps that are reported are done (`StepStates`), messages carry only such
  steps, and turns are *calm* wherever they are kept (on the board, in receipts, in
  storage): at most the last entry is ACTIVE, none after an end.
* **Words.** The state of a decomposition says little (`DecomposerIInv`: the plan is what
  the operators make of the text), the proof is about the operators. *s can be read in w
  from a to b* (`FoundIn`, with the places of `StandsAt` as witness) is kept by a stretch
  of the text, by the ends of a complement, by what is kept of a continuation, by putting
  two together and by taking the addresses out; so every candidate for the name of a page
  stands behind its verb in the order of the user's words (`AskedFor`). The walk itself is
  a recursive function, and the claim is carried along it by the smallest step at which it
  would fail. For `AskedIsPlanned`, `LinksUp` is the shape of a plan, and `ChainAwaits`
  descends from a subgoal to the lead, one prerequisite at a time.
* **Why runs end.** For four of the five liveness properties the argument is a *variant*, a
  number that every step of the program (of a turn, every unit of time) lowers and that
  nothing else raises:

  | Theorem | For | What is left |
  |---|---|---|
  | `PlanEngineProofs!RunsAreFinite` | `RunEnds` | at most `17 * MaxSteps + 5` steps: 17 for each iteration, which outweighs the at most 16 stages of one (`StagesLeft`, `RunLeft`) |
  | `DecisionsProofs!TurnsAreShort` | `TurnSettles` | at most `3 * AttemptTime + 2 * MaxHonoured` units of time, with the code's 55 s and 30 s 225 s (`TurnLeft`); each `Tick` takes one, nothing gives one back |
  | `CommitGuardProofs!RunsAreFinite` | `RunEndsOrWaits` | confirmations, then steps: a confirmation gives the steps back (`AnswersLeft`, `StepsLeft`) |
  | `TaskOwnershipProofs!BodiesRunOut` | `EveryRunSettles` | of each body the same pair (`AnswersLeft`, `AwaitsLeft`); no message, reload or other body adds to it |

  The numbers of confirmations are bounds of the model (`MaxConfirmations`, `MaxConfirms`),
  since a user may confirm as often as asked: the two theorems say that a run goes on
  for ever only if the user confirms for ever. What the variants leave to TLC is that a
  run that is not over has a step, that fairness takes it, and of a turn that time can
  pass: that is `ENABLED`.
  The fifth, `CardSettles`, rests on the watchdog, and `RunningWatched` says that a card
  that shows RUNNING has one or is about to.

The type invariants `TypeOK` (`TargetTypeOK`) and the invariants `GuardRemembers`,
`RunningIsWatched`, `OnlyGoalThrows`, `ActionsAreSteps`, `RefusalsBounded`, `NoDecoys`, `SettledLog` are proved
and so not among the properties of the runs.

Every invariant and every action property of a passing run, and both refinements, are
proved. Only model-checked are the liveness properties `RunEndsOrWaits`, `RunEnds`,
`EveryRunSettles`, `CardSettles` and `TurnSettles`, because the prover handles neither
fairness nor `ENABLED`; their safety halves are the theorems under *Why runs end*. The library's induction rules take a predicate as parameter and
cannot be instantiated; where a proof needs induction over a list it takes the set of
indices at which the claim fails and its smallest element instead. No module has
`RECURSIVE` operators.

What is assumed of constants is named beside them: that bounds are numbers, that sets of
inputs hold inputs (`IsPage`, `IsReading`, `IsAction`, `WireAssumption`,
`OutputAssumption`), that texts are sequences of words (`DecomposerAssumption`), that the value for null is none of the others, and the three relations
of the program's own numbers explained above (`KeepAssumption`, `RunwayAssumption`, and in
`EvidenceAssumption` that a page's facts fit into the ring). TLC evaluates all of them on
the runs' constants.

## Disagreements with docs and comments

Two are kept as runs, with the sentence each contradicts in `PROJECT.json`
(`findings`): the words of a refusal become part of a history that the backend then
refuses whole (`HistoryAccepted`); after a chat, the next chat shows the raw text of
the previous answer until its own arrives (`ScreenedOnly`).

The following are definitions in the modules that TLC refutes under the
configurations of the module, or with the bound named:

| Definition | Module | What happens |
|---|---|---|
| `ConfirmedBlocksClass` | `CommitGuard` | a confirmed dispatch leaves no record: the loop dispatches the class again with nothing observed (`agentLoop.ts:4129`, against `commitCertainty.ts:16`) |
| `OpenCommitBlocksClass` | `CommitGuard` | an open commit of one class is resolved in place of the one that blocked |
| `CancellationIsOneWay` | `TaskOwnership` | a run stopped while its confirmed action is in flight is ACTIVE again |
| `SingleOwner` | `TaskOwnership` | after a reload two bodies own the tab (`MaxReloads` 1) |
| `ConfirmedWasShown` | `ExtensionAdapter` | a confirmation dispatches another action of the run than the one shown |
| `GoalVerdictIsAccepted` | `PlanEngine` | a satisfied goal ends a run with an exception |
| `RestartRemembers` | `LongHorizon` | a restart gets a second full budget (`MaxRuns` 2) |
| `CancelledIsNotAFailure` | `ReasoningTurn` | a stop during an attempt is counted as a failure of the model (`agentLoop.ts:4535`, against `:4452`) |
| `FreshPageAccepted` | `PageEvidence` | a new page's model is refused as stale: the counter restarts on another origin (`contentScript.ts:74`, against `:59`) |
| `SuccessTellsThisPage` | `PageEvidence` | the answer is of a page the loop has left (`agentLoop.ts:4961`, against `:4665`) |
| `LiveTargetNotContradicted` | `GateChain` | after a navigation the critic blocks numbered targets of the page now shown (`securityCritic.ts:705`) |
| `HealedOnlyIfStale` | `GateChain` | self-healing exchanges a target that is on the page and was refused for another reason (`agentLoop.ts:2197`, against `selfHealing.ts:4`) |
| `ClickedIsJudged` | `Execution` | two elements share a selector; the one found is not the one judged (`domInteractiveScanner.ts:59`) |
| `ScrollWasSeen` | `GoalVerdict` | a page that reports no position counts as scrolled from the top (`agentLoop.ts:1317`, against `goalVerifier.ts:441`) |
| `ProductIsInView` | `GoalVerdict` | shopping succeeds with products of an earlier page (against `goalVerifier.ts:871`) |
| `SelectionKept` | `Conversation` | "the third one" is taken anew from each page of the run (`agentLoop.ts:1854`, against `entityIdentity.ts:22`) |
| `ObservedIsReal` | `PagePerception` | text of another tab, or of a mock picture, is filed as observed (`ocrObservationContract.ts:15`, `:55`) |

Others were met while modelling and are not stated as properties:

* The card of a continuation never takes its final state: the loop reports the
  continued task, the card holds the words typed
  (`extensionAdapter.ts:303`), and the watchdog reports FAILED.
* The effect of any action, also a harmless one, closes the last open commit
  record (`agentLoop.ts:5188`).
* "continue" resumes what the user declined (`serviceWorker.ts:2021`,
  `contextualIntentResolver.ts:87`); the last text typed, not the last task, is
  what "again" repeats in some orders.
* Progress that was overtaken by the end shows the card running once more
  (`extensionAdapter.ts:311`).
* A destination proven at the top of a cycle is failed by an action without
  effect in the same cycle, its dependents stay READY (`subgoalGraph.ts:154`).
* Provenance records of the state machine can name an older target
  (`planStateMachine.ts:213`); nothing reads them.
* A run ends COMMIT_UNKNOWN although the page has just confirmed the commit
  (`agentLoop.ts:2874`).
* `taskDecomposer.ts:298` promises one destination subgoal ("Exactly ONE"); a retrieval
  task that starts on an unknown page gets two (`:339`).
* The planner's STOP for POLICY_BLOCKED is never looked at (`agentLoop.ts:2139`
  says that its budget terminates the run); retries do.
* The one change of strategy that OSCILLATION is given (`recoveryEngine.ts:161`)
  is consumed by the observation, so an oscillating action without effect ends
  the run at once.
* A scroll is counted again by cycles that record no step, and a refused scroll
  is counted; a productive run can end as REPEATED_STATE; the record is saved
  before the replan of the same cycle is counted; the `clearTracker` of a loop
  that was superseded removes the record of its successor.

* *Reasoning.* A structured 503 may arrive after the client's abort at 55 s; a
  malformed action and an unknown target are retried, though `providerResponse.ts`
  calls such refusals final.
* *Evidence.* A reading is in the ledger even when the loop refuses it; the address
  is read after the scan; facts are cut at 24 before they are compared; the second
  verdict after a navigating click rests on the old page's records; lines 2009–2030 and
  the reset at 1032 are never reached.
* *Gates.* The generation checks of a proposal never fire; the comparison of addresses
  ignores the query; risk reads selector and reason, not the label; confidence counts
  earlier successes; `checkActionIdempotency` is never called.
* *Execution.* A key goes to whatever has the focus; typing into a field that already
  holds text counts as an effect; a pending address alone counts as a navigation;
  the scope is checked before the message is sent, not when the page acts.
* *Goal.* STATE_CHANGED is proven by a missing screenshot; the login rule takes any
  address that is not a login page.
* *Target.* The expression for a domain takes two labels: "open www.flipkart.com" opens
  `https://www.flipkart` (against `targetResolver.ts:317` and `:548`); a message that
  is refused takes the run number (`serviceWorker.ts:917`), so a start in progress ends
  silently (against `intentBoundary.ts:23`) and never answers its port; an overtaken
  provisioning leaves its tab open; a page titled with the site's name is taken for
  it; the scope of `x.co.uk` is `co.uk`, and that of localhost ignores the port.
* *Words.* `destinationNormalizer.ts:543` says that a continuation "can never be read as
  the head on its own"; with three words of it, two lie wholly behind the boundary, so
  "open the catalog and sign in" declares the login page and never the catalog. A commerce
  task that starts on a shop drops the page declared (`taskDecomposer.ts:425`). "I already
  opened http://x" still declares x: an address needs no verb.
* *Memory.* The hints are accepted by the backend (`models.py:170`) and reach no prompt; a
  success rewrites the failures; two runs that overlap lose a record, against "typically
  serialized" (`memoryStore.ts:51`).
* *Conversation.* `conversationSettlesAmbiguity` is always true (`!== null ||
  !== undefined`); `conversationStore.load` and `clearClarification` are never called.
* *Perception.* Cued lines are withheld by index
  (`multimodalCoordinator.ts:375`); safe recognised texts fuse with each other
  (`fusion.ts:280`), boxes of the picture and of the page are compared unscaled
  (`:319`); detections lose their labels on export, so rules 6.3 to 6.5 of the goal
  verifier never succeed on minimised contexts; more than 40 findings push controls out.
* *Wire.* Type and select steps never reach the model's history; the backend looks for
  `ACTION_NO_EFFECT`, the loop writes `NO_EFFECT`; a PARTIAL without answer is accepted
  by one side and refused by the other; lengths are counted in code points and in
  UTF-16 units; an address may have 200 characters or 2048.
* *Output.* A page loaded again counts runs from 0 while receipts keep the old numbers;
  when a phase is entered again, the activity shown as ACTIVE stays the one before it (`uiProjection.ts:305`);
  a STOPPED receipt without turns is shown FAILED.

## What is not modelled

* **Text and pixels.** The vocabularies of intent classification and of the gates, PII
  and injection patterns, prompt building, redaction geometry: functions of strings
  and images without state. The models have their outcome as marks of a text.
* **Firewalls, redaction and capture, popup, telemetry.** Functions without state, a
  view, and measurements of finished runs.
* **Left out of modelled parts:** observe and settings messages of the adapter;
  splicing, skipping and cancelling of subgoals (never called by the loop);
  `maxSubgoals` of the tracker; recovery categories whose outcome nothing looks at;
  USER_CONFIRMED and CUSTOM goals; knowledge (SEMANTIC), expiry and
  invalidation in the memory, which no run uses; the words of the vocabularies beyond those
  that stand for them in `TaskDecomposer`; context generations and ages of a conversation other
  than "old"; limits, clearing and diagnostics of receipts; the budgets of the harness;
  the direct providers of the registry; frames and files in the page; chat and inspection routes
  in `TaskTarget` (they are in `TaskOwnership`).
* **Verdicts across modules.** In `PlanEngine`, `CommitGuard`, `LongHorizon` and
  `PageEvidence` what a gate or a goal rule says is free; `GateChain`, `Execution` and
  `GoalVerdict` compute it, but are not composed with them: the product is beyond
  exploration, and the free verdict covers every computed one.
* **Two readers at once** in `PagePerception`: the module allows it (`Readers`), the run
  has one, to keep it short.

## The plan

Order: first what a user would notice most, an action repeated, a stop ignored,
a tab shared; then plans and bounds; then time and storage.

| # | Module | Properties and theorems | Status |
|---|---|---|---|
| 1 | `CommitGuard` → `EvidenceGate` | no blind repeat; refinement | modelled, proved |
| 2 | `TaskOwnership` → `TabLease` | one owner, one late action; refinement | modelled, proved |
| 3 | `ExtensionAdapter` | stop holds, confirmation is own | modelled, proved |
| 4 | `PlanEngine` | order of evidence, earned completion | modelled, proved |
| 5 | `LongHorizon` | what each bound bounds | modelled, proved |
| 6 | `ReasoningTurn` | retries, silence, end | modelled; all but the end proved, and the bound on a turn |
| 7 | `PageEvidence` | stale for good, informed success, the answer stands | modelled, proved |
| 8 | `TaskTarget` | no hijack, one strange page, touched as the latest | modelled, proved |
| 9 | `Conversation` | latest conversation, nothing guessed | modelled, proved |
| 10 | `GateChain`, `Execution`, `GoalVerdict` | judged form, own effect, read goal | modelled, proved |
| 11 | `PagePerception`, `WireContract`, `Output` | fusion, contract, settled log | modelled, proved |
| 12 | `TaskDecomposer`, `AgentMemory` | only what was asked, recent failures recalled | modelled, proved |

What is left: an abstract specification of a turn (`pending`, one answer or one failure)
that `ReasoningTurn` implements, and one of a card that `ExtensionAdapter` implements.

## Running the checks

```
tlc -workers 2 -config MCCommitGuard.cfg MCCommitGuard.tla
tlapm CommitGuardProofs.tla
```
