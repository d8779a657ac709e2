# Network automation lab: specifications

TLA+ modules for the automation runtime in `src/network_automation`: the Kafka to
Temporal bridge, the device workflow, the activities that write artifacts and configure
devices, the answers the read API puts together and the pages of the web UI that ask for them. They
state what these parts promise each other when processes die, answers get lost, clocks
differ, upstreams hang and several requests meet on one device, which is where unit tests
hardly reach. Paths below are relative to the repository; Python files are
named relative to `src/network_automation`, those of the UI to `ui/src`.

## The system

| Part | State it keeps | Operations | Talks to |
|---|---|---|---|
| Request producers (`cli/render_request.py`, `events/producer.py`) | none | publish one request, wait for the broker's acknowledgement | Kafka request topics |
| Event consumer (`events/consumer.py`) | position per topic, the record in hand, ready and heartbeat files | poll, validate, start a workflow, commit or seek, probe the broker, stop | Kafka, Temporal, Docker's healthcheck |
| Temporal server (external) | executions by workflow id, activity attempts, timers | start, retry, time out, drop late results | consumer, worker, API |
| Worker (`worker.py`) | a pool of four threads, ready and heartbeat files | run workflow tasks and activity attempts | Temporal |
| Workflow (`workflows/render_device.py`) | its history | render, or prepare, deploy and validate; build the outcome event; publish it | activities |
| Activities (`activities/*.py`) | none of their own; share `artifacts/configs/<device>.cfg` | read intent, render, write, verify, Set, Get, compare, publish | Nautobot, file system, device, Kafka |
| Device client (`devices/srlinux.py`) | none | read the artifact, identify the device, Set, Get every validated leaf | SR Linux over gNMI |
| Intent client (`intent/nautobot.py`) | none | read one device in many requests, normalise | Nautobot |
| Comparison (`devices/comparison.py`, `devices/read_state.py`) | none | compare an expected state with one observation, for configuration and for health | read API |
| Read API (`api/*.py`) | a lazily connected Temporal client and its lock | project workflows, deployments, devices, topology, health | Temporal, Nautobot, device |
| Web UI (`ui/src`) | what the polling hooks hold | poll, show, mark stale | read API |
| Compose stack, scripts, lab | third-party services | start, health-check, restart | everything |

Where it is hard:

* **The bridge** acts on two servers that know nothing of each other. Every step can be
  cut short: a start request is lost, served late or served twice; a commit is refused,
  or takes effect and its answer is lost; the process dies anywhere; the group rebalances;
  producers repeat events. *Correct means*: no committed offset covers a request Temporal
  does not have, one execution per workflow id, nothing started that was not asked for,
  nothing blocked for ever.
* **The loop** around it is an asyncio coroutine whose Kafka calls block the whole event
  loop, so signals, the heartbeat and the work compete. *Correct means*: healthy exactly
  while the broker answers, and a signal ends it.
* **The workflow** must end every execution with an outcome event its own models accept,
  whatever fails, within the execution timeout, with the worker's clock and the service's
  clock in one record.
* **The activities** of different executions share one file per device and the device
  itself, and an attempt that Temporal has given up keeps running. *Correct means*: what
  is Set is what was prepared, what is validated is what was Set, a mismatch is real.
* **The read side** derives stages from growing histories, composes partly failing
  sources under timeouts, and polls from pages that come and go. *Correct means*: no read
  shows more than the execution has done, a closed execution is shown as it was, a page
  keeps asking until it has seen the end, never twice at once, and says when its data is
  old. A page of several sources is about one moment of each, shows every source that
  answered in time, and is answered whoever hangs; what it concludes of a device is what
  a deployment would.

## Modules

| Module | Models | Kind |
|---|---|---|
| `RequestIntake` | what the bridge promises, without consumer, process or network | abstract specification |
| `EventConsumer` | `process_message`, `_commit_or_seek`, with Kafka, Temporal, the network and crashes | detailed, implements `RequestIntake` |
| `EventConsumerProofs` | theorems about `EventConsumer` and `ConsumerLoop`, two views of one process | proofs |
| `ConsumerLoop` | `run_consumer`, `main`, the healthcheck, SIGTERM, in seconds | detailed |
| `DeviceWorkflow` | one execution of `RenderDeviceConfigWorkflow`, in half seconds | detailed |
| `DeploymentPipeline` | the attempts of several executions over file, device and intent | composition of activities and clients |
| `WorkflowProjection` | what `api/workflows.py` derives for one execution, and the page that polls it | projection over a growing history |
| `DeviceComparison` | the two judgements of one observation, `compare_device_state` and `validation_result` | operators |
| `DeviceReads` | `get_device_detail` while the intent is edited; extends `DeviceComparison` | detailed |
| `TopologyRead` | `get_topology` while cables and addresses change; a node's status | detailed |
| `ReadApi` | `api/app.py`: concurrent requests, the shared client and its lock, limits inside limits | detailed, in ticks |
| `UsePolling` | `usePolling`, `getJson`'s timeout, the browser's timers and visibility | detailed |
| `DeviceDetail` | `useDeviceDetail`: the live read, its fallback and the refreshes | detailed |
| `UsePollingProofs` | theorems about `UsePolling` and `DeviceDetail`, the two polling hooks | proofs |
| `DeviceWorkflowProofs`, `DeploymentPipelineProofs`, `WorkflowProjectionProofs`, `DeviceReadsProofs`, `TopologyReadProofs`, `ReadApiProofs` | theorems about the module they are named after | proofs |
| `Bridge` | `EventConsumer` and, as `L`, `ConsumerLoop` | composition: two views of one process |
| `Answers` | `DeviceReads` and, as `T` and `P`, `TopologyRead` and `WorkflowProjection` | composition: three reads of one API |
| `Browser` | `UsePolling` and, as `D`, `DeviceDetail` | composition: two kinds of page |
| `MC...` | one module each for TLC, with the values of its constants | instances |

Each definition that stands for code is listed in `PROJECT.json` under `map` with the
lines it translates. Operators commented as *Mutant* are plausible bugs: each takes the
place of the definition that follows it, and the property it belongs to must then fail.

`Bridge`, `Answers` and `Browser` put modules together that look at the same part of the
system and share no variable: a variable (`view`, `reader`, `page`) says from the first
state on which of them takes steps, the others stay where they began, and the properties of
all are checked in one run and proved about under one set of names. Fairness is that of the module that takes steps. This adds
the state spaces of the modules and does not multiply them.

### EventConsumer

| Variable | In the code |
|---|---|
| `log`, `committed` | the two request topics and the group's committed offsets (one partition each: `compose.yaml` leaves the broker at its default) |
| `execution`, `starts` | what Temporal retains of a workflow id; a history count of executions |
| `requests` | `start_workflow` calls on the wire, repeated ones included |
| `position` | where `poll` reads next |
| `current`, `pc`, `reply` | `message`, the line of `process_message`, what `start_workflow` returned or raised |

A record is reduced to what the consumer tells apart: the type its payload parses as and
its identity. `PollRequest` and `PollPoison` are lines 82-137 with the early return for
poison; `StartAccepted`, `StartFails`, `CommitSucceeds` and `CommitFails` are the returns
and handlers that follow. `Crash` is any end of the process, the graceful one included,
because `close()` commits nothing. `Rejoin` is a rebalance, after which reading resumes at
the committed offset. `StartFails` needs no cause: the request may have been lost, served
or still be under way, which is what a timeout tells the consumer.

The refinement maps `committed` to what the intake has acknowledged and the ids Temporal
knows to what it has accepted. A late start of a lost call, a second processing after an
unnoticed commit and a crash are then stutters or a repeated acknowledgement that changes
nothing.

### ConsumerLoop

`pc` is the call the process is in, grouped by what it does to the event loop:
`Suspending` calls are awaited, `Blocking` ones are not. `due` and `age` are the time to
the next probe and the age of the heartbeat file, and every call says how long it may
take. `HandleSignal` is the callback of `add_signal_handler`, enabled only while the
coroutine is suspended. A probe that succeeds touches both files and sets the next probe
from the moment it began (line 239); a failed one sleeps and returns to the loop head.

### DeviceWorkflow

The state is the activity being attempted, its attempt, how it failed, the time, the
worker's `deployed_at` and the event built. `Options` holds the retry policies and
timeouts of lines 25-91 and of each call. `Raises` holds what each activity's code can
classify, `Flagged` what it raises with `non_retryable=True`, `RefusedByPolicy` what each
policy refuses by type: an attempt is retried only if neither says no. `NoBlindRetry` and
`TransientIsRetried` hold the two against the promises of the requirements FR-025 and
FR-024 (`specs/004-srlinux-deployment-validation/spec.md`); the run checks both, with the
type invariant, as `RetriesAsPromised`. `KnownToWorkflow` is `_DEPLOYMENT_FAILURE_TYPES`, `AllowedByEvent` the sets of
`events/models.py`, and `Constructible` the validators of the events. An event that cannot
be constructed leaves the execution `stuck`: the workflow task fails and is repeated. An
attempt takes no time at all or the longest its timeouts allow; these are the extremes of
every sum of times, and the properties over time are monotone in them.

### DeploymentPipeline

The intent is two parts that Nautobot serves in different responses, each with a version;
a rendering, an expected state and a device configuration are the versions of both parts.
A thread is an attempt of one execution: `FetchDevice` and `FetchInterfaces` read the
parts, `Write` and `Replace` are the two halves of `_write_srlinux_artifact`, `Verify` is
`_verify_artifact_shape`, `ReadArtifact` to `SetConfirmed` are `SRLinuxClient.deploy`,
`GetDevice` and `GetInterfaces` the reads and the comparison of `validate_device_state`.
`TimeOut` schedules the next attempt and leaves the thread running; its result is then
dropped, its effects are not. `WorkerCrashes` ends all threads at once.
Errors are retried as the code classifies them; the number of attempts is the bound
`MaxAttempts`, and the pauses between them belong to `DeviceWorkflow`.

### WorkflowProjection

The execution is its `status` and its `history`: which activities were scheduled and how
each closed. An activity with a retry policy leaves no started event before it has ended,
so started events are left out. `Describe` and `ReadHistory` are the two awaits of
`get_workflow_detail`; the execution may take any steps in between, so `described` can be
older than the history it is combined with. `FromHistory`, `WithPending`, `WithFailure`
and `WithFinalizing` are the four parts of `_stages` in their order, `SummaryOutcome` is
`_summary`, `DeploymentOf` is `deployment_from_summary`, and `Current`, `Validation` and
`FailureSummary` are the rest of the detail. `HistoryFails` is the answer without a
history. `shown` is what the page holds; `Answer` stops its polling when
`isTerminalWorkflow` says so. How the page paces its reads is the matter of `UsePolling`.
`Foreign` is an activity that another version of the workflow schedules and
`ACTIVITY_STAGES` does not know.

`Exact` is the reference: the stages a closed execution's history proves, in the order of
the pipeline, computed from the plan and not from the order of the events.

### DeviceComparison and DeviceReads

An expected state is its ASN, the prefix of its addresses and the names of its routed
interfaces and neighbours; an observation gives every leaf of `_validation_paths` the
value the state asks for, another one, one of the wrong type, one the models refuse, or
none. `Compare` is `compare_device_state` with the validators of its results, which refuse
an observation as a whole; `Validation` is `validation_result` and what
`validate_device_state` makes of it: passed, still converging, failed for good, or an
internal error. The two are written apart in the code, and `PageAgreesWithDeployment`
relates them. Both are sets of leaves where the code has lists of checks; that no two
checks share a key is `KeysUnique`, and their number is `Fits`.

`DeviceReads` is `get_device_detail`: `phase` is the await it is in, `snapshot` the intent
it has read, `observed` the leaves. `EditIntent` may happen between any two of them. An
intent whose expected state is over the bound (`Admitted`) is shown by a page without a
comparison and called unavailable by one with it, as in lines 373-405. What Temporal
retains of the device is shown beside the comparison and enters neither.

### TopologyRead

A port is a device and a number, a cable a set of two ports, an assignment a port and an
address. `ReadInventory` is the first request, `ReadInterfaces` one more per device, each
at a moment of its own, and between them cables are moved and addresses reassigned.
`PhysicalLinks` keeps the cables both of whose ends were read with the other as peer,
`BgpLinks` the peerings whose addresses were found once each. `steady` and `ever` are
histories: what was there during the whole read, and at any time of it; `SteadyLinkIsDrawn`
needs both, because an address that had a second owner for a moment may be found twice. The
order of the requests is left open, where the code has the inventory's.

One request per device asks for one page of `InterfaceLimit` interfaces (100), whose `next`
is never followed, and `Answer` keeps `LinkLimit` links (200). Which interfaces are on the
page is Nautobot's order and left open (`Page`); links are cut in the order of their keys,
of which those of peerings (`bgp:`) come before those of cables (`physical:`), and within a
kind the order is left open too. So `SteadyLinkIsDrawn` is about devices that are `Whole`,
whose interfaces fit a page, and allows a peering to be missing only from a graph full of
peerings and a cable only from a full graph. A device's neighbours are a sequence: the code
counts the entries that lead to the other device, so an address that is listed twice draws
nothing.

`NodeStatus` and `Overridden` are the two places that give a node its status, and
`OverviewAgreesWithTopology` compares them on all inputs, for one and the same deployment;
the overview decodes fewer executions than the topology page, so it may know of none where
the topology knows one.

### ReadApi

| Variable | In the code |
|---|---|
| `temporal`, `holder`, `queue` | `application.state.temporal`, who holds `temporal_lock`, who waits for it |
| `kind`, `phase`, `client` | the route of a request, which await it is in, whether `temporal_for` returned a client |
| `result`, `began` | the upstream calls of a request and when each was made |
| `since`, `age` | when the limit of the whole was set, and the time |
| `shown` | the sources that the answer shows as available |

A request is the calls it makes. `Before` is the order of its awaits, `Fatal` the calls
without which there is no answer, `Requires` those without which another is not made;
`Limit` is the `wait_for` round one call and `Outer` the one round all. The limit of the
whole does not begin before `temporal_for` has returned (it is an argument of what is
waited for), except in the overview, whose deadline is set first. Where both limits are due
the outer one fires first: it was set first. A call may answer, fail or hang. The
deployments routes are the workflows routes under another name, and a probe that calls
Temporal twice is one call.

### UsePolling

| Variable | In the code |
|---|---|
| `request`, `late` | `running` with the time since the request was sent; requests of disposed effects whose promises have not settled |
| `stopped`, `timer`, `staleTimer` | the variables of the effect |
| `timers` | the browser's own list of `setTimeout(run)`, which the effect only reaches through the handle in `timer` |
| `data`, `error`, `stale` | the React state; `data` is its observation's age and whether the current effect fetched it |
| `visible`, `mounted` | `document.visibilityState`; whether an effect is set up |

Keeping the browser's timers apart from the handle is what makes `OneClock` worth
stating: a handle that is overwritten or not cleared leaves a timer running. `Fire` and
`Show` are the two ways into `run`, `Succeed` and `Fail` its ends with the `finally`
block, `SettleLate` an answer after `disposed`, `Dispose` the cleanup, and `ChangePath`
the cleanup and the next effect, which React runs together. Time passes in `Tick`; on a
visible page nothing that is due waits, on a hidden one timers may be throttled.

### DeviceDetail

The variables are those of `UsePolling`, with two kinds of request: the live read, made
once per device, and the refresh, which may carry the failure it is to report (`failed`).
`LiveFails` goes on to the forced fallback in the same step, as the code does between two
awaits. `Kept` is the comparison a refresh shows. The two comparisons of a page are always
replaced together and are one value here: the device's, a failure, or none requested.
`OpenAnother` is the cleanup and the next effect with its microtask. `opened` and
`unreported` are histories.

## Runs

Each property of a passing run has its own way to fail, and closely related invariants are
checked as one, with the type invariant of their module: `JudgesAgree` is
`IntendedDevicePasses` and `PageAgreesWithDeployment`; `GraphIsPossible` is `PortHasOneLink`
and `PeeringIsMutual`; `ClosedReadIsExact` of `Answers` is that of `WorkflowProjection` and
`FailureIsNamed`; `DetailIsSound` is `OneDetailClock` and `DetailStaleIsTrue`;
`RetriesAsPromised` is `NoBlindRetry` and `TransientIsRetried`, and these five,
`HealthyWhileBrokerAnswers` and `OneConnection` include the type invariant.
`LiveReadReported` is `LiveFailureReported` and `LoadingEnds`; `AnsweredIsShown` is
`LiveDegradesAlone` and `OthersShown`. Where a run checks `IInv`, the inductive invariant of
its module, it stands for the type invariant and for the parts of it that have no line of
their own: `OnlyRequestedWork`, `QuietWhenDone`, `NoAnswerOfAnotherPath` and
`ArtifactAlwaysComplete`, as the theorems show. For every property there is a fault in the
code, kept beside the definition it replaces as an operator marked *Mutant*, with which TLC
finds it violated; the joint properties have one for each part but the type invariant.

| Run | Instance | Shows |
|---|---|---|
| `consumer` | messages: one event id, 2 records over two topics, 2 crashes; or the loop: the code's own times, 1 outage; fairness | the safety properties of the bridge, the inductive invariant, that it implements `RequestIntake`, that every record is settled; heartbeat and signal properties |
| `loop_stop` | the loop without outage, fairness | *violation*: an idle consumer ignores SIGTERM |
| `workflow` | clock skew up to a tick, workers may vanish, fairness | outcome, timeout and retry properties; every execution closes |
| `workflow_outcome` | workers present, fairness | *violation*: a prepare timeout has no outcome event |
| `pipeline` | 2 deployments with 1 timeout, or a deployment and a render with 2; 2 versions, 2 attempts, storage faults | prepared, Set and validated belong together; the file is complete and mismatches are real |
| `pipeline_overwrite` | 1 deployment, 1 render, no timeout | *violation*: mutation before `artifact_mismatch` |
| `projection` | a device page: 5 intents, 2 unusual leaves in uniform observations; or a topology: 7 ports, 3 addresses, 3 devices, 2 interfaces of a device and 2 links; or an execution of both workflows with a foreign activity; fairness | what is concluded from reads of several moments; the page comes to show the end |
| `projection_stages` | both workflows | *violation*: a completed stage shown as running |
| `polling` | interval 2, timeout 6; or a device page: interval 3, stale after 6, timeouts 1 and 2; 1 late request, fairness | one request or timer at a time, true stale marks, refreshes go on, the comparison or its failure stays |
| `polling_path` | the same | *violation*: stale data of another path |
| `read_api` | each kind of request alone, an overview beside a list, three lists; probe 1, overview 3, live 3; fairness | answers in time, one client, partial answers |
| `read_api_independent` | the same, without fairness | *violation*: an inventory dropped because Temporal hangs |

**Bounds.** One event id gives two workflow ids, one per topic; two records are a request
and its duplicate, a request behind a failed one, poison before a request, or one payload
on both topics, and the proofs lift these bounds. The second
deployment brings the interference between executions; a third would only repeat it.
Two attempts are one retry, with the first attempt's thread still running; two versions
tell a stale reading from a fresh one. `CopiesCap` counts publications up to two, enough
to tell none, one and several. Time is capped at the age the healthcheck tells apart.
In `projection` an execution has as many events as its plan gives it, so nothing is cut
off; one foreign activity is enough to stand in any gap. In `polling` the interval and the
timeout are those of the workflow detail page, 4 s to 12 s, in ticks of 2 s: a request can
outlive the staleness of what is shown. Ages beyond two intervals are alike. One late
request meets every step of the next effect; the proofs lift these bounds too. The ticks
of the device page are of six to ten seconds: a refresh every thirty, stale after sixty,
twelve and seventeen seconds of timeout.
The intents of the device page differ in ASN, prefix, neighbours and interfaces, one is at
the bound of the checks and one over it (`MaxChecks` is 16 in place of 64, which an
intent of two neighbours and one interface reaches), one has an interface of the
loopback's name. Observations are uniform (as intended, nothing there, all operational
leaves absent or down) but for two leaves of any value: the judgements distinguish all,
some and none, and two odd leaves make every pair of verdicts meet. The topology has a
device with two ports, one outside the inventory, one with more ports than a page holds and
without readable neighbours, an address that is listed twice, and addresses that can be on
two devices, or twice on one. `InterfaceLimit` and `LinkLimit` are 2 in place of 100 and
200: two cables and a peering are one link too many. Three peerings would take more
addresses, so a cut among peerings is covered by the theorem only. Cables and addresses
are edited in separate behaviours (`Subjects`), because physical links look at no address
and peerings at no cable, with two cables at first (`Cabled`); `Connectable` and
`Assignable` are the edits there are. The theorems need none of these bounds. In `read_api` the ticks keep the order of the defaults, 3 s, 8 s and 15 s: an
overview holds two connection attempts and not three; two probes stand for five, one that
needs Temporal's client and one that does not. Three lists queue for the lock; who finds a
client shares nothing, so requests that do are checked one at a time. Ages beyond the
longest answer are alike.
The other runs have no check for deadlock: topics run dry, executions close, a consumer
stops, and so does a page that is closed. In `read_api` and `read_api_independent` the
clock never stops, and TLC checks that.

**Fairness.** In `EventConsumer`, Docker restarts the process (`restart: unless-stopped`),
`start_workflow` returns because it has an `rpc_timeout`, and librdkafka, Temporal and the
broker eventually serve a call that is repeated for ever: the last three are strong
fairness of the calls that are tried again and again. Nothing makes a particular
attempt succeed. In `ConsumerLoop` the process runs, the event loop looks at the signal's
wake-up descriptor each time it gets control, and `poll` without a broker waits out its
second. In `DeviceWorkflow` Temporal's timers fire. In `WorkflowProjection` the page asks
again while it polls, which `KeepsAsking` of `UsePolling` shows for a visible page, and a
read returns because both its awaits have timeouts; that the history can be read is not
assumed. In `UsePolling` and `DeviceDetail` the browser's timers and the timeout of `fetch`
fire; no request need ever be answered. In `ReadApi` the event loop runs its callbacks and
its timers fire; no upstream need ever answer or fail.

### What the violations say

* `FailureCreatesOutcome`: `specs/004-srlinux-deployment-validation/contracts/execution.md`
  promises a `DeploymentFailed` for every prepare failure. A timeout has no category of
  its own, `_deployment_error` answers `internal_error`, and `DeploymentFailed` does not
  allow that for the prepare stage; the workflow task fails until the execution times out.
  `OutcomeIsConstructible` shows it to be the only such case.
* `GracefulTermination`: `specs/003-event-driven-execution/contracts/execution.md` promises
  that termination closes the consumer. An idle loop alternates blocking calls and never
  lets the signal's callback run. `StopsIfSuspended` shows that nothing else is missing.
* `OverwriteFailsBeforeMutation`: `specs/004-srlinux-deployment-validation/research.md`
  promises that an overwritten artifact fails before mutation. That is so for each
  attempt, not for a retry after a Set whose answer was lost.
* `StagesFromHistory`: `specs/006-network-control-plane-ui/data-model.md` says stages
  transition only from history evidence. An activity that completes between the
  description and the history is still pending in the one and completed in the other, and
  `_stages` lists it twice, the second time as running and as the current stage. The next
  read corrects it; `ClosedReadIsExact` shows that a description taken after the end
  never does this.
* `InitialFailureHasNoStaleData`: `specs/006-network-control-plane-ui/contracts/frontend.md`
  says an initial failure has no stale data. `usePolling` keeps its state when the path
  changes, which it does between two workflow details, so the first failure of the new
  path marks the other workflow's data as stale and leaves it on display.
* `FailureStaysLocal`: FR-009 of `specs/006-network-control-plane-ui/spec.md` says that the
  failure of one upstream read must not prevent independent reads from appearing. The list
  of devices has one limit round inventory and executions: when Temporal hangs, the
  inventory that was there goes with it, and the answer blames Nautobot. The detail of a
  device has limits inside, but they are as long as the one outside and begin later, so a
  hanging Temporal turns the whole page into a 504. `LiveDegradesAlone` shows that the
  larger budget of the live detail has the room, `OthersShown` that health, workflows and
  overview show what answered.

Three plainer differences were met and have no run. `research.md:179` of feature 006 calls a
gap after validation `finalizing`; `workflows.py:533-534` calls every gap after a completed
activity so, among them that between prepare and deploy. `research.md:267` promises a short
retry delay after network errors; `usePolling.ts:63` waits a whole interval. `spec.md:137-138`
of feature 006 wants missing links represented as incomplete data; a link beyond the page of
a hundred interfaces (`nautobot.py:246-258`) or the cut at two hundred links
(`devices.py:605`) is left out of an answer whose source is not degraded, which only
unreadable BGP intent does to it (`devices.py:606-613`). `SteadyLinkIsDrawn` shows that a
cable which stays is missed for no other reason.

## Proofs

Every safety property that a passing run checks is a theorem for all values of the
constants the module's assumptions allow. Each proof has the same shape: an inductive invariant `IInv` of
named parts, one lemma per action or group of actions that it is kept, and the property as
a consequence.

`EventConsumerProofs` proves for any topics, any set of identities and any bounds, from
`TopicsAreDistinct` and `BoundsAreNat` alone:

| Theorem | States |
|---|---|
| `TypeCorrect`, `Inductive` | `Spec => []TypeOK`, `Spec => []IInv` |
| `NothingIsLost` | `Spec => []NoRequestLost` |
| `OneRequestedExecution` | `Spec => []AtMostOneExecution` and `[]OnlyRequestedWork` |
| `StaysWithCommits` | `Spec => []NeverReadsAhead` |
| `CommitsAdvance` | `Spec => CommitsNeverRegress` |
| `Refinement` | `Spec => ImplementsIntake` |

`NoRequestLost` is not inductive: that a commit is safe depends on what was done with the
record before. `IInv` adds `CommitIsEarned` (a record about to be committed is poison or
known to Temporal, and an answer received means Temporal has it), `PositionsFollow` (the
record in hand is the one at the committed offset or, after an unnoticed commit, one
before it, and between records every position is that of the committed offset or one
behind), `OffsetsInLog` and `WorkIsRequested`. A commit then raises the committed offset
by at most one record, and that record is settled. `CommitsNeverRegress` needs
`PositionsFollow`: a second commit after an unnoticed one writes the same offset.
`Refinement` maps each step: `Publish` to `Publish`, a `ServeStart` that starts an
execution to `Accept`, a commit that takes effect to `Acknowledge`, all others to a
stutter. The invariant's preservation has one lemma per group of actions; the facts about
appending to a log and about the untouched part of a function are stated once.

`UsePollingProofs` proves for any interval and timeout and any number of late requests,
from `TimesArePositive` and `NoneIsNothingElse` (the value that stands for `undefined` is
neither a number nor an answer):

| Theorem | States |
|---|---|
| `Inductive` | `Spec => []IInv` |
| `NeverTwoAtOnce` | `Spec => []OneClock /\ []QuietWhenDone` |
| `ShowsWhatItSays` | `Spec => []NoAnswerOfAnotherPath /\ []StaleIsTrue` |

`OneClock` is not inductive: it says nothing of the handle through which alone a timer can
be cleared. `IInv` adds `HandleHeld` (the handle is that of the only timer there is),
`ErrorIsMarked`, and `StaleTimerCounts` (what is left on the stale timer and the age of the
observation add up to two intervals, until the page is marked). The proof has one lemma
per action, and two on which most of them rest: scheduling with no timer set leaves one,
and its handle is held; clearing leaves none.

`ConsumerLoop` is proved about in the same module, as the instance `L` of `Bridge`: `HeartbeatIsFresh` states `L!Spec => []HealthyWhileBrokerAnswers` from `TimesAreNat` and
`RoundFitsWindow`: a heartbeat's interval, the longest calls of one round and a probe
are together shorter than the healthcheck's window. Its invariant `HeartbeatInv` says that
the heartbeat is as old as the part of the interval that has passed while no probe is due,
and that once one is due only the message at hand comes before it.

`UsePollingProofs` does the same for the page of a device, the instance `D` of `Browser`,
from `DetailConstants`:

| Theorem | States |
|---|---|
| `NeverTwoClocks` | `D!Spec => []DetailIsSound` |
| `LiveReadEnds` | `D!Spec => []LiveReadReported` |
| `ComparisonIsKept` | `D!Spec => ComparisonRetained`, an action property |

`LoadingEnds` adds the two timeouts up: `NothingShownYet` says that until something is
shown the live read or its fallback is under way, and that the page is as old as the
requests it has made.

### DeviceWorkflowProofs

From `ConstantTypes` and `NoneIsNothing`. `Spec` lets an attempt take no time or the longest
its timeouts allow, `AnySpec` any time in between, and a lemma shows that every step of the
one is a step of the other; the theorems hold for both, which replaces the argument that
the extremes are enough.

| Theorem | States |
|---|---|
| `WorkflowInvariant` | `AnySpec => []IInv` |
| `FailuresAreReported` | `[]OutcomeIsConstructible` |
| `WorkflowEndsInTime` | `[]FitsExecutionTimeout` |
| `CompletionIsDelivered` | `[]CompletedMeansDelivered` |
| `RetriesKeepPromise` | `[]RetriesAsPromised` |

That the workflow ends in time is a sum over all stages, so `IInv` has `InTime`: an activity
begins no later than `LatestStart`, the sum of the `WorstCase` of the activities before it,
and an attempt no later than the attempts before it and their pauses allow. The sum comes
to 580 of the 600 seconds. `KnownByNow` says what the workflow has learnt at each stage.

### DeploymentPipelineProofs

For any sets of deployments and renders, any number of attempts, timeouts and versions, from
`DisjointRequests`, `LoadsAreExecutions`, `PipelineBounds` and `NothingIsNoContent`:

| Theorem | States |
|---|---|
| `PipelineInvariant` | `Spec => []IInv` |
| `EverySetCarriesPrepared` | `Spec => []SetCarriesPrepared` |
| `PreparationBindsOneRead` | `Spec => []PreparedBindsOneRead` |
| `CompletionMeansOwnSet` | `Spec => []CompletedMeansOwnSet` |
| `MismatchIsReal` | `Spec => []NoFalseMismatch` |
| `ArtifactIsComplete` | `Spec => []ArtifactAlwaysComplete` |

What a thread will Set depends on what it has read and on what its execution prepared.
`IInv` ties them together: `ThreadsAtWork` (a thread is at a step of an activity of its
execution), `NoneAhead` and `OneThreadPerAttempt` (a thread is of the attempt under way or
of an earlier one, and each attempt has one, so one result can count), `SeenIsWhole` (a
thread has a whole rendering before it writes and the prepared artifact before it Sets),
`StagesFollow` (what each stage has left behind is there for the next) and `FileIsTheirs`
(until another artifact takes its place, the file is what the attempt at work wrote and
what the execution deploys).

### WorkflowProjectionProofs

For any set of foreign activities, from `WorkflowConstants` (they are foreign, and `None` is
nothing else):

| Theorem | States |
|---|---|
| `SuccessIsNeverInferred` | `P!Spec => []SuccessIsProved` |
| `ClosedReadsAreExact` | `P!Spec => []ClosedReadIsExact` |

For the first, what is shown was derived from a history that has grown since, so the invariant is about the
history: `ClosesOnce` and `ClosedWasScheduled` make a closing final, `PublishedLast` says
that a publication without a failed activity comes after all others have completed,
`ReturnsLast` that nothing follows a result, and `SucceedsWhenDone` that a result which says
success stands behind the completion of every activity. A description adds nothing, because
no answer takes success from it.

The second says what the whole timeline is, which takes more. Its invariant `TimelineInv`
adds `HistoryTraced`: there are a plan, a number `k` of its activities and a number `n` of
those closed such that the history is one scheduled and one closing event for each of them
in the order of the plan, then those of the publication if it was scheduled (the last
closing is missing while it is open), and then the end, whose result `Tells` what failed. A plan has at most four activities, so the positions of
a traced history are enumerated rather than reached by induction: `At`, which selects the
events of an activity, is determined by any enumeration of what it selects
(`Enumerates`). `FromHistoryIs` and `WithFailureIs` then give the stages before and after
the failure's correction, `StagesOfClosed` that they are the ones which the trace calls
for, each placed where the plan has it, and `PlacedIsExact` that this is `Exact`.
`CurrentOfFailure` finds the stage that the failure names. `ReadInv` carries this from the
reads to the page: a description that said closed is of an execution which has stood still
since, so the history read after it is the whole one; what was read before the end may be
anything the projection makes of it.

### DeviceReadsProofs

From `DeviceConstants` (the intents are expected states of at most `MaxChecks` checks).
`Spec` observes devices that are uniform but for two leaves, `AnySpec` any value of each leaf
of `_validation_paths`; both are covered.

| Theorem | States |
|---|---|
| `PageIsOfOneIntent` | `[]OneExpectation` |
| `OneJudgement` | `[]JudgesAgree` |

`IInv` adds `InHand`: what is being compared was read and admitted for this answer. That
the two judgements agree is then no longer a matter of behaviour but of their definitions,
and the proof goes through the leaves: both look at the same ones, both find the same
kinds of value wrong, and a cardinality argument (7 checks, 5 for each routed interface
and 2 for each neighbour) shows that the results of an admitted state stay within the
bound the answer's model has.

### TopologyReadProofs

For any devices, any finite set of ports, any addresses, assignments, neighbours and limits,
and with cables and addresses edited together, from `TopologyConstants`:

| Theorem | States |
|---|---|
| `DrawnIsPossible` | `T!Spec => []GraphIsPossible` |
| `SteadyIsDrawn` | `T!Spec => []SteadyLinkIsDrawn` |
| `OneColour` | `T!Spec => []OverviewAgreesWithTopology` |

`SteadyLinkIsDrawn` speaks of the moment of the answer, `IInv` of every moment before it:
`ReadSoFar` says that what has been read shows each port at most once, and every port of a
device that is `Whole`, with all that has been there since the read began and nothing that
never was; `NothingSteady` that before a read begins nothing counts as steady. `CableFound`
and `PeeringFound` take a steady link from there to the links that `Answer` cuts, and `Cut`
says what a cut leaves: all of them, or as many as the limit.

### ReadApiProofs

For any finite set of requests of any mixture of kinds and any set of probes, from
`RequestsAreFinite`, `ScenariosAreOfKinds`, `ProbesAreProbes` and `LimitsLeaveRoom` (the
overview has more time than two attempts to connect; the defaults are 8 s and 3 s):

| Theorem | States |
|---|---|
| `OneClientIsMade` | `Spec => []OneConnection` |
| `RequestsEndInTime` | `Spec => []AnsweredInTime` |
| `WhatAnsweredIsShown` | `Spec => []AnsweredIsShown` |

The run begins in fewer states than `ReadApi!Init` has; the theorems are about all of them.
`LockIsHeld` says that the lock is held by the one who connects, for which there is no
client yet, and `TurnsAreShort` that a turn of the queue takes one attempt and that there
are no more of them than were before a request when it came. Per request,
`InTime`, `CallsBegin` and `CallsInTime` relate its age, the begin of each call and the
limits, `LiveRounds` and `HistoryFollows` say which calls can be under way together. With
them an answered call was answered within its limit and is shown, unless the queue for the
lock had used the time up, which is the exception that `AnsweredIsShown` itself names.

### Only model-checked

* Liveness (`EveryRecordSettled`, `UnhealthyWhileBrokerAway`, `StopsIfSuspended`,
  `EveryExecutionCloses`, `FinalTimelineShown`, `KeepsAsking`, `KeepsRefreshing`,
  `EveryRequestAnswered`): fairness and `ENABLED` are beyond the prover.
* The six violations, which are counterexamples and need no proof.

## Not modelled

* The contents of intent, templates, native state and events: normalisation, parsing and
  formatting are pure functions of their input; what matters between processes is which
  reading a content came from.
* The lists of executions: their order, filters and hydration four at a time. `ReadApi` has
  them as one call, and which deployment of a device is its latest is taken as given.
* Branches that no property tells apart from one that is modelled. In the consumer: a `seek`
  that raises (`consumer.py:58`, `141`), which ends the process as `Crash` does, and records
  that librdkafka had fetched before the broker went away. In the workflow: a validation
  that is returned as failed (`render_device.py:315-337`), which the present activity never
  does. In the pipeline: the artifacts refused for their template, size or shape
  (`deployment.py:111-124`, `145`, `274-279`), and a Set that was applied but answered
  `INTERNAL` or `UNKNOWN` (`srlinux.py:241-242`), which ends as a rejected one. In the device
  page: missing credentials, found before the expected state is built (`devices.py:363`). In
  the projection: executions continued as new or of unknown status and results that cannot
  be decoded, none of which shows success. In the UI: an answer without a time of
  observation (`usePolling.ts:37-39`), which no polled response is.
* The thread pool behind `asyncio.to_thread`: a call that timed out goes on in its thread
  until the client's own timeout ends it. The verdict of a probe from what its service
  answered, and the command line's health checks, which are one call each.
* The worker's heartbeat and graceful drain.
* Of the UI, what the pages draw from what the hooks hold, routing, and the shape checks of
  `client.ts`, whose failure is a failed request.
* Unknown event types, which add a stage of their own, and the limit of 64 stages, which no
  execution of this workflow reaches.
* Kafka, Temporal, Nautobot and SR Linux beyond what the code relies on: one partition per
  topic, retries, timeouts and id policies as documented by the calls that use them, a Set
  as one transaction.
* The CLI, the scripts and the lab topology: no state of their own.
* Workflow replay: the workflow's state is a function of its history.

## Plan

Done, in this order: `RequestIntake`, `EventConsumer`, its proofs, `ConsumerLoop`,
`DeviceWorkflow`, `DeploymentPipeline`, `WorkflowProjection`, `UsePolling` and its proofs,
`DeviceDetail`, `DeviceComparison`, `DeviceReads`, `TopologyRead`, `ReadApi`; then the proofs
about `ConsumerLoop`, `DeploymentPipeline`, `DeviceWorkflow`, `DeviceDetail`, `ReadApi`,
`TopologyRead`, `DeviceReads` and `WorkflowProjection`.

Next modules:

1. The lists in `WorkflowProjection`: several executions, some of which cannot be hydrated,
   and the latest deployment that devices and topology take from them.
2. `WorkerLoop` (`worker.py`, `health.py`): the pool of four, graceful drain, heartbeat and
   the probes that look at it.

Both come with their proofs: that a list loses no execution it could read, and that the
heartbeat of a worker in service is fresh.
