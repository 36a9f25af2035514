# A verification of kuaifei

kuaifei is a proxy client: a Flutter app drives a Go core (`hiddify-core`) that
runs a fork of sing-box. This directory holds TLA+ models of the parts of it
whose correctness depends on the order of events, the TLC configurations that
check them, and TLAPS proofs of their main invariants.

## 1. Inventory

Paths are relative to `src/`; `SB` stands for `hiddify-core/hiddify-sing-box`.
The last column names the modules; a dash refers to section 13.

| Component | State | Operations | Interacts with | What is hard | What makes it correct | Modules |
|---|---|---|---|---|---|---|
| Outbound monitor: tests (`SB/common/monitoring/outbound_monitoring.go`) | per-outbound flags, two bounded channels, cycle number, URL index, dirty flag | `TestNow`, `InvalidateTest`, `workerLoop`, `executeTask`, `applyResult`, `runCycle`, `runStage`, `saveHistory`, `Close` | balancers, selectors, dialers and lazy endpoints call it; it calls outbounds | workers, retries, priority tests and the cycle overlap; channels fill up; outbounds are not ready | a stage is a barrier, a skipped outbound is under test, cycles end, results reach the snapshot, `Close` returns | `OutboundMonitor`, `CycleBarrier` |
| Outbound monitor: idle timer (same file) | `mainTicker`, `workersRunning`, `lastActive`, pause callback | `Touch`, `startTimerWorkers`, `stopTimerWorkers`, `scheduleLoop` | `Start`, `Close`, every dial calls `Touch` | the loop stops itself while a `Touch` or `Close` runs | a touched monitor has a running ticker, one loop per ticker, one pause callback per ticker | `MonitorTimer` |
| Outbound monitor: group notifiers (same file and `brodcaster.go`) | notify channels, debounce timer, subscriber channels | `SignalChange`, `emitGroupEvent`, `groupNotifierLoop`, `Subscribe`, `Unsubscribe`, `Publish`, `closeAll` | the balancer and the gRPC streams subscribe | slow subscribers, close against publish | no send on a closed channel, a change reaches a live subscriber | `GroupNotifier` |
| Balancer (`SB/protocol/group/balancer`) | histories as last read, selections, place of a key, interrupt group | `worker`, `UpdateOutboundsInfo`, `Select` of four strategies, dials | monitor events, dials | selection against update against dial; 16-bit delays; retries of a hash | selects as its strategy promises; a key moves only when its outbound dies | `BalancerDelays`, `BalancerGroup`, `BalancerHashing` |
| Selector group (`SB/protocol/group/selector.go`) | selected outbound, cache file, interrupt group | `Start`, `PostStart`, `SelectOutbound`, dials | cache file, monitor, API clients | no lock around swap, store and interrupt; a dial during a switch; death between two steps | a restart comes back to the selection; the selection is what was tested; a switch closes old connections | `SelectorGroup` |
| URLTest group (`SB/protocol/group/urltest.go`) | histories, selection per network, ticker, `lastActive`, `checking` | `Touch`, `Close`, `loopCheck`, `urlTest`, `performUpdateCheck`, `Select`, dials | pause manager, interrupt group | the loop reads without the lock; idle stop against touch and close; 16-bit sums | one check at a time, near the best within the tolerance, a loop per ticker | `URLTestGroup`, `URLTestLoop` |
| Core lifecycle (`hiddify-core/v2/hcore`) | `CoreState`, `StartedService`, lock | `StartService`, `Stop`, `Restart`, `errorWrapper` | gRPC, FFI, `StartedService` | failing builds and closes, panics, a restart in two critical sections | at most one proxy is up and `Stop` reaches it; the status tells the truth | `CoreLifecycle`, `ServiceContract` |
| Started service (`SB/daemon/started_service.go`) | `serviceStatus`, `instance`, the open parts of a box | `StartOrReloadService`, `CloseService`, `SetError` | hcore | unlocks while it closes the old box and starts the new one | a status in between has a call behind it; open parts can be closed | `StartedService`, `ServiceContract` |
| Status listener (`v2/hcore/coreinfo.go`, `lib/hiddifycore/hiddify_core_service.dart`) | observers' channels, table of subscriptions | `SetCoreStatus`, `CoreInfoListener`, `listenSingle`, `stopListenSingle` | core and app | drops, a first status that races with the channel, calls that cross at an await | what is shown is the status of the core | `StatusListener` |
| App: connection (`lib/features/connection`, `lib/hiddifycore`) | status shown, active profile, calls under way | `toggleConnection`, `abortConnection`, `reconnect`, `start`, `stop`, `restart` | core over gRPC, background service | commands that cross, statuses in transit, services that fail | the app shows what the core does, and the core does the user's last wish | `AppConnection` |
| App: origin document (`lib/core/http_client/kuaifei_origin.dart`) | document in memory and on disk, pool | `restore`, `replace` | preferences | two awaited writes between check and assignment, death | memory and disk agree, revisions only grow | `OriginConfig` |
| App: session (`lib/features/auth/notifier/auth_notifier.dart`) | token, metadata, timers, profiles | login, cancel, synchronisation, refresh, logout | panel, profiles | nothing cancels what runs; two accounts | a session that lasts gets its own profiles | `AuthSession` |
| App: profiles (`lib/features/profile`) | rows of the database | upsert, edit, delete, activate, import | session, periodic update, user | concurrent imports, identity by name | a delivered subscription has a profile; one is active | `ProfileImport` |
| App: transports (`dio_http_client.dart`, `xboard_api_client.dart`) | hosts in flight and cooling down, fallback base, preferred path | download, discovery, race | network | late answers, shared discovery, cool-downs | nothing fails while a route is left | `SubscriptionDownload`, `AuthTransport` |
| Android service (`android/.../bg`, `MainActivity.kt`) | `status`, receiver, core, pending start | `onStartCommand`, `startService`, `stopService`, `stopAndAlert`, `startServiceAndWait` | app, tile, system | two coroutines and a main thread; posted values | what it reports is what it hosts; a request is answered | `AndroidService` |
| Group information streams (`v2/hcore/proxy_info.go`) | a debounce timer | `AllProxiesInfoStream` | monitor, app | as for the notifiers | every result is read | `GroupNotifier` |
| Service manager, configuration builder, Go profiles and database, `ray2sing`, extension host, gRPC and FFI entry points | | | | | | - |
| sing-box router, transports, DNS; platform runners; settings and screens | | | | | | - |

## 2. Plan

Done: every module named above, and a proof of every safety property that a
passing run checks (section 11).

The monitor came first, as it is the heart of the fork and every group depends
on it; then the core and its service, which everything else talks to; then the
groups and balancers that use the monitor; then the app and its Android service.

Left: the liveness properties, which TLAPS does not reach, and the components
of section 13.

The component modules state their constants' assumptions as named operators
(`CoreAssumption`, ...): the modules that check several components side by side
assume them of each instance, and a theorem assumes them of its own.

## 3. How the runs are built

A module that models a component declares its parameters, their assumptions (a
named operator), a type invariant, the actions, a fairness condition and its
properties. Twelve runs check them. Components that belong to one layer of the
program share a run: its module (`MCCore`, `MCGroups`, `MCBalancers`,
`MCConnection`, `MCAccount`, `MCNotifierTimer`) instantiates each component,
once for each way it is to move, and a variable `part`, chosen at the start and
never changed, names the instance that moves. The other components keep the
state they had at first (or `None`), so the state space is the sum of those of
the parts and not their product, and a property of a component holds of the run
exactly if it holds of the component alone. Where one component really uses
another, they are composed in one module: a selector, a balancer or a URLTest
group with its connections and interrupt group, the notifier with its
subscribers, the connection of the app with the core it calls.

| Run | Module | Distinct states | What is in it | What it shows |
|---|---|---|---|---|
| `stages` | `MCOutboundMonitor` | 445 000 | two ready leaves and their selector, one worker, two URLs, two cycles, one call | `StageAccounting`, `RoomForOutcome`, `BoundedOvertaking`, the refinement `ImplementsBarrier`, types |
| `retries` | `MCOutboundMonitor` | 258 000 | a leaf that is late to become ready and may stop being so, two workers, two cycles, results that change the history | `SkippedMeansPending`, `NoForgottenResult` |
| `liveness` | `MCOutboundMonitor` | 485 000 | two ready leaves, a channel of normal tasks that never fills, `Close` at any time | `CycleTerminates`, `CloseReturns` |
| `retested` | `MCOutboundMonitor` | | a leaf that becomes ready, `InvalidateTest` | expected violation, section 4 |
| `delivery` | `MCNotifierTimer` | 508 000 | two outbounds, a balancer, a stream, a thread that signals | `UnseenMeansPending`, `ChannelsOpen` |
| `settling` | `MCNotifierTimer` | 18 000 | two touching threads and two tickers; one outbound, a stream, a thread that signals | `NoTimerLeaks`, `TickerHasLoop`, `PanicOnlyWhileClosing`, `TimerFollowsTouches`, `NothingStuck` |
| `core` | `MCCore` | 65 000 | two threads; three services of two parts | `TransientHasOwner`, `FreeMeansSettled`, `RestartEndsUp`, the refinement `ImplementsContract`, `CallsReturn` |
| `groups` | `MCGroups` | 128 000 | a selector of two outbounds, with one connection; a URLTest group of two with delays next to the 16-bit boundary; its loop with two tickers | `PickTakesHold`, `SelectedNearBest`, `LoopOwnsTicker`, `EventuallySelected`, `SwitchCuts`, `StopsOnlyIdle`, `EndsAtRest` |
| `balancers` | `MCBalancers` | 964 000 | three outbounds under each strategy | `SelectsAsPromised`, `MovesOnlyWhenNeeded` |
| `connection` | `MCConnection` | 1 229 000 | three starts and two stops of the Android service; four acts of a user; two listeners | `ServiceSettles`, `ConnectionSettles`, `ToldIsCore`, `RequestAnswered`, `AnswerHasCore` |
| `account` | `MCAccount` | 1 114 000 | two subscriptions over three URLs; two logins and any logouts, after an older app or not; two callers of `replace`; two downloads over three hosts; three paths | `ImportedAppear`, `AgreeAtRest`, `FailsOnlyWithoutPath`, `NothingTakenBack` |
| `session` | `AuthSession` | 137 000 | a login beside what another account left running, logouts | `EventuallyOwn` |

`CHECK_DEADLOCK FALSE` is in every configuration because every component may
rightly stop: an idle or closed monitor, a core that nobody calls, an app whose
user has done what the bound allows. That nothing stops where it should go on is
what the liveness properties say. Under every liveness property stand fairness
conditions on the steps of goroutines, coroutines and timers only; no user, no
network result and no caller is assumed to do anything, unless the section of
the component says so.

A component's `TypeOK` gives the types of its variables for the reader and for
proofs; each holds in TLC, and several are proved (section 11). Only that of
`OutboundMonitor` is in a run, as an example of what the others would say.

## 4. The URL-test engine: `OutboundMonitor`

### State and actions

Variables carry the names of the fields they stand for (`invalid`, `queued`,
`priorityQueued`, `testing`, `enqueuedCycle`, `currentLinkIndex`, `cacheDirty`,
`cycleSeq`). A Go task object is a member of `Task`; `task[t]` is its contents
and `place[t]` who refers to it: a channel, a worker, or a goroutine that
sleeps before a retry. `worker` and `held` are the program counter and the task
of each worker, `probe` the counter of the test goroutine that `executeTask`
starts, `cycle` that of the goroutine of `runCycle`. `todo[c]` holds the
`enqueueTask` calls a thread still has to make. Three history variables
serve properties only: `unsaved`, `overtaken`, `lost`.

| Action | Code |
|---|---|
| `EnqueueTask` (`Accepts`, `HasRoom`, `SetFlags`, `Send`, `LetGo`) | `enqueueTask`, one critical section; a full channel loses the task after the flags are set |
| `TestNow`, `InvalidateTest`, `CallEnqueue` | the two calls; parents first, then the outbound or the members of a group, one `enqueueTask` per step |
| `BecomeReady`, `LoseReady` | lazy endpoints: WireGuard's `readyChecker` calls `TestNow` on itself, an ssh client may drop and redial |
| `TakePriority`, `EnterSelect`, `TakeNormal`, `WorkerExit` | `workerLoop`: the poll, the inner select, the exit. A worker that has given up a test (`AbandonTask`) is back at the top of its loop, "leaving": the context has ended, so it exits, or takes one more priority task |
| `Postpone`, `Retry` | the not-ready branch of `executeTask` and its goroutine |
| `StartProbe`, `ProbeReturns`, `ApplyResult`, `Reply`, `FinishTask`, `AbandonTask` | the test goroutine, `tester`, `applyResult`, the send of the outcome, the deferred clearing of `testing` |
| `StartCycleOnce`, `BeginCycle`, `Collect`, `EndCollect` | `startCycleOnce`, the head of `runCycle`, `collectCycleTargets` one outbound at a time |
| `EnqueueStage`, `Receive`, `AbandonStage`, `NextStage`, `EndCycle`, `SaveOne` | `runStage`, the loop over the URLs, the deferred save |
| `Close` | `Close`: cancels the context; that it returns is `CloseReturns` |

Not modelled here: delays and IP information (a result is a success or not, and
`changed` says whether it sets `cacheDirty`), the order of tags by delay, group
events (a send that never blocks), history loading, and the timer: a cycle may
start at any time its compare-and-swap allows, which includes every schedule of
the ticker and of interface updates. The age of a result is a choice in
`Collect`. The ready check is skipped from cycle 10 on in the code; `RetryLimit`
lowers this to 3 so that both sides are reached.

Bounds: `Task` (live task objects), `MaxCycles`, `MaxCalls`, and channels of
capacity 1 and 2 in place of 1000 and 10000, so that they fill.

### Instances

Leaves `a` and `b`, a group `g` of them, `a` dialing through `b`; `retries` and
`retested` have `b` and `g` only. Two URLs are enough for rotation to pass from
one stage to another and wrap; a second worker is enough for two tests of one
outbound (a priority and a normal one) to overlap; a call and two cycles are
enough for a retry to meet a task of a later cycle and of another kind.

Fairness (`Fairness`): goroutines that can run do run: each worker, each test
(bounded by `urlTestTimeout`), the cycle, a sleeping retry (three seconds), a
call that has begun. Ticks, calls, readiness and `Close` are the environment's
and carry none; `FairReadySpec` adds only that a lazy outbound becomes ready.

### The promise: `CycleBarrier`

A cycle asks outbounds, each answers once, the next URL is tried only when
nobody succeeded, a cycle concludes only when nobody is left to answer.
`ImplementsBarrier` maps `outstanding` to the outbounds whose task of the
running stage is unanswered. Outcomes that are lost for ever (a refused
retry) stay outstanding: the barrier then never opens, which is what the code
does, and what the hazard list records as the hang of a cycle. TLC checks the
refinement in `stages`, and `BarrierImplemented` proves it (section 11).

### Findings

`retested`: the comment on `InvalidateTest` (`outbound_monitoring.go:410`) says
the outbound "will be retested". For an outbound that is not ready it is not:
the retry of the priority task (`:541`) meets the `priorityQueued` flag its own
first attempt set, `enqueueTask` refuses it, and the flag is never cleared.
Later cycles skip the outbound, and the `TestNow` it makes on itself when it
becomes ready is refused as well.

Seen on the way, contradicted by no document:
- with a lazy outbound `CycleTerminates` fails: a stage's task is postponed,
  its retry carries a cycle number that a group test has used meanwhile, the
  retry is refused and `runStage` waits for ever, so `cycleRunning` stays set
  and no cycle runs again. The `liveness` run therefore has ready leaves only,
  and a channel of normal tasks that does not fill.
- a stage whose tasks were all refused (`expected = 0`) moves on to the next
  URL although no test failed.
- before the first cycle `cycleSeq` and `enqueuedCycle` are both 0, so the test
  of a group is refused for every member.

## 5. The idle timer: `MonitorTimer`

Every routed connection calls `Touch`. The first one starts a ticker and the
loop that reads it, and the loop stops both when nobody has touched the monitor
for `idleTimeout`. `Touch` holds `m.access`; the loop and `Close` do not, and
only `workersRunning` is atomic. So each read and write of `mainTicker` and
`pauseCallback` is a step of its own. A ticker, its loop and its pause callback
share a number; 0 is nil. `callbacks` pairs a callback with the ticker it holds,
since `RegisterTicker` reads `mainTicker` again (`:332`). `touch[t]` is the program counter of a touching
thread, `pc` that of each loop and of `Close` (both run `stopTimerWorkers`),
`recent` says that `lastActive` is younger than the idle timeout, `overlapped`
remembers that a start began while a stop was not finished.

| Action | Code |
|---|---|
| `TouchLooks`, `TouchStores` | `Touch`: lock, look at `mainTicker`, store `lastActive` |
| `StartTimerWorkers`, `MakeTicker`, `RegisterTicker`, `SpawnLoop` | `startTimerWorkers`: compare-and-swap, ticker, pause callback, wait group and goroutine |
| `LoopBegins`, `LoopCancelled`, `Tick`, `LoopChecksIdle` | `scheduleLoop` |
| `StopCas`, `StopTicker`, `ClearTicker`, `Save`, `UnregisterCallback` | `stopTimerWorkers`, in its order |
| `LoopPanics`, `StopPanics`, `UnregisterPanics` | a nil ticker or callback is used: the process ends |
| `CloseBegins`, `Cancel`, `CloseReturns` | `Close` |
| `TimePasses` | the idle timeout passes |

The run `settling` has two touching threads, two tickers and `Close` at any
time. Two threads let one start a timer while the other waits for the lock; two
tickers let a stop overlap with the start of the next timer. The theorems are
about any number of both. `MaxTickers` bounds touches that would start another
ticker. `TimerFollowsTouches` says that a touch gets a loop
going, that a timer nobody touches stops, and that `Close` returns.
Fairness: goroutines that can run do, a ticker ticks, and the branch of a
cancelled context is taken in the end although ticks keep coming (a Go select
chooses among ready branches at random). That connections come, time passes or
`Close` is called is not assumed.

What the runs and proofs show, and what they do not:
- `NoTimerLeaks`: no second ticker runs (`OneTicker`), and the pause callback
  comes and goes with the ticker, which is the one it holds
  (`CallbackMatchesTicker`).
- `TickerHasLoop`: no set `mainTicker` without a loop, which would make the
  monitor deaf to touches.
- `PanicOnlyWhileClosing`: only `Close` can meet a nil ticker, or let the loop
  meet one, when it overlaps with the touch that starts a timer
  (`workersRunning` is set before `mainTicker`). TLC reaches these panics.
- `CallbackMatchesTicker` excludes the states after an overlap of a stop and the
  next start. Without that exclusion TLC finds the property violated: the stop
  reads `pauseCallback` last, after saving the history, and unregisters the
  callback of the new ticker in place of its own.
- a `Close` between the making of a ticker and the registration of its callback
  lets the callback hold a nil ticker, which the pause manager would dereference;
  the model has that callback, and no pause.
- a touch between the compare-and-swap of a stop and the clearing of
  `mainTicker` only stores `lastActive`; the next touch starts the timer.

## 6. The way of a result: `GroupNotifier`

One outbound group. `ApplyResult` stores a result and offers a signal to
`notifyCh`; `groupNotifierLoop` starts a debounce timer at a signal, and when it
fires publishes an event through the `Broadcaster`, which offers it to the
channel of each subscriber. Two kinds of subscribers exist: `Balancer.worker`,
which reads all histories at each event, and `AllProxiesInfoStream`, which
debounces once more and then reads them. Reading is one outbound per step,
while results go on arriving. `unseen[s]` is a history variable: the outbounds
whose last result `s` has not read since it subscribed.

| Action | Code |
|---|---|
| `ApplyResult`, `CallSignalChange`, `SendSignal` | `applyResult` with `emitGroupEvent` (drops), `SignalChange` (blocks) |
| `ReceiveSignal`, `TimerFires`, `BeginPublish`, `EndPublish`, `LoopReturns` | `groupNotifierLoop`, `emitGroupEventThrottled` |
| `PublishTo`, `AbandonPublish` | `Publish` under the read lock, one subscriber per step |
| `Subscribe`, `Unsubscribe`, `CloseBroadcaster`, `CloseAll` | the same names in `brodcaster.go`, under the write lock |
| `ReceiveEvent`, `StreamTimerFires`, `ReadHistory`, `Use`, `Leave` | the loops of the two subscribers, `OutboundsHistory` |
| `CancelMonitor`, `CancelBox` | the contexts of the monitor and of the box, from which the other two derive |

Run `delivery` checks the safety properties with two outbounds, two subscribers
and a thread that signals, `settling` the liveness ones with one outbound and a
stream: `NothingStuck`, that is `EventuallySeen`, `SignalReturns` and
`SubscribersEnd`. A balancer beside the stream makes the state space too large
for liveness, so that its worker returns is not checked.

The capacities are those of the code. Two outbounds make a reading take two
steps, so that a result arrives behind it; two subscribers make a publication
take two.

Fairness: goroutines run and timers fire (weak); a branch of a select that is
ready again and again is taken, a sender blocked on a channel is served before
later offers, and a waiting writer gets the lock (strong). Results, calls,
streams and closing carry none, except that a begun `Close` goes on.

Left out: the tags and times in an event, which no subscriber uses; what a
stream sends, and the snapshot it sends before it subscribes, so a result
between the two is outside `unseen`; a stream's write error, which the code
only logs. `Balancer.close` is never made, so the worker has no such branch.
`SignalReturns` allows for the end of the monitor: the send has no other way
out, and a caller that finds the channel full then stays.

## 7. The core: `CoreLifecycle`, `StartedService`, `ServiceContract`

`StartService`, `Stop` and `Restart` of hcore run under `static.lock`, on
threads of the gRPC server and of the FFI. Below them, `StartedService` of the
daemon package has a status and a mutex of its own, which
`startOrReloadService` gives up twice: while it closes the box it replaces and
while the new one starts.

`CoreLifecycle`: `coreState`, `started` and `lock` are the three globals;
`service[s]` says whether a service that `NewService` made is up, down, or left by
a close that failed: parts of it may be on, nobody can ask them again, and
`CloseService` refuses it from then on. `pc[c]` is the
place of a call, `again[c]` that it is a restart.

| Action | Code |
|---|---|
| `StartRefused`, `StartAccepted`, `BuildFails`, `NewService`, `AssignService`, `PublishStarted` | `StartService` of `start.go`, in its order |
| `StopLocked`, `StopNothing`, `StopService`, `StopDone` | `Stop` of `stop.go`; a service whose close failed is forgotten all the same |
| `AfterStop` | `Restart`: when its stop has returned without an error it calls `StartService`, after having given up the lock |
| `Alert`, `AlertClose`, `AlertForget`, `AlertFinal` | `errorWrapper` of `custom.go`: STOPPED, close, forget, STOPPED |
| `PanicInStart` | the deferred handler, which runs after the deferred unlock |

`StartedService`: a box is a row of `NumParts` parts, opened one per step
(`StartPart`); `done` is its closed channel, and `open` are the parts that nobody
has asked to close. The start of a box goes on over its
own list of parts when somebody closes it meanwhile.

| Action | Code |
|---|---|
| `StartFresh`, `Reload`, `CloseOld`, `Relock`, `Create` | `startOrReloadService` up to `newInstance` |
| `StartPart`, `StartFails`, `StartDone`, `FinishStart` | `Box.Start` without the mutex, and what follows it |
| `CloseService`, `EndClose`, `SetError` | the same names |

`ServiceContract` is what hcore relies on and in turn promises the app: no part
of the proxy is on while the status says that it is stopped, and it is up only
with parts on. `ImplementsContract` shows that `StartedService` implements it
for one caller, which is how hcore calls it, and that `CoreLifecycle` implements
it for any. Both are also proved.

The four parts of `MCCore`: the core without panics (all properties) and with
them (`CallsReturn`), the service under two callers and `SetError`
(`TransientHasOwner`, `CallsReturn`) and under one (`FreeMeansSettled`,
`ImplementsContract`). Two threads let a start come between the two critical
sections of a restart; three services let one fail, one be replaced and one
stay; two parts let a start fail half way. Fairness: a call that has begun goes
on (weak), and a waiter for `static.lock` gets it in the end (strong), since a
Go mutex hands itself to the waiter that has waited for a millisecond.

Left out: a panic inside `NewService` that leaves a box half open, panics in
`Stop`, `waitForStarted`, and the branch of `Restart` for an ended context, which
cannot be reached. A part that cannot be closed, or not within its time limit
(`closeWithTimeout`), makes the close one that failed. What it leaves on is not
followed further: the properties, and the contract, are about services and parts
that nobody has closed, and so say nothing of a second service started beside
the rest of a first (`stop.go:36`).

## 8. The groups: `SelectorGroup`, `URLTestGroup`, `URLTestLoop`

All three have a selection that is read without a lock by whoever dials, and an
interrupt group (`common/interrupt`) that closes the registered connections
when the selection moves. `conn[c]` is the place of a connection: the selection
is loaded (`LoadSelected`, `Dial`), the outbound dialed, the connection
registered (`NewConn`) or not (`DialFails`), and closed (`CloseConn`, `Cut`).

| Module | Actions | Code |
|---|---|---|
| `SelectorGroup` | `PostStart`; `Pick`, `StoreSelected`, `Interrupt`, `PingSelected`, `TestNow`; `Kill` | `selector.go`: `Start`/`PostStart`, `SelectOutbound` with its deferred `pingSelected` (the load of the selection, then the test of what was loaded); death of the process, after which `Init` reads the cache file again |
| `URLTestGroup` | `Call`, `Refused`, `BeginTests`, `TestDone`, `BeginUpdate`, `ScanOne`, `Assign`, `Interrupt`; `DialFails` | `urltest.go`: `urlTest` with the flag `checking`, `Select` one outbound per step over a history that changes meanwhile, `performUpdateCheck`; a failed dial that writes a delay of 65535 |
| `URLTestLoop` | `PostStart`, `TouchRunning`, `TouchIdle`, `Close`; `LoopBegin`, `LoopTick`, `CheckDone`, `LoopClosed`, `LoopStop`; `Fire`, `Older`, `Pass` | the same names and `loopCheck`; the ticker's channel of one, and time |

`URLTestGroup` computes delays modulo `Modulus`, here 8, so that a delay of
65535, written for a failed outbound, and a sum that wraps exist beside ordinary
delays of 1, 2 and 4 with tolerance 1. `SelectedNearBest` is about selections
made while no outbound has failed; what happens otherwise is in section 12.

`PickTakesHold` says that the selection in force has been tested since it came
into force (`tested` starts anew with each swap), however picks cross. It does
not say that it was tested last: a pick that loaded the selection before another
swapped it may ask for its test after that one has. With one pick at a time
nothing but the selection is tested (`OnlySelectedTested`). `SwitchCuts`
says that a connection which was registered when the selection moved away from its
outbound is closed, by a pick and by a check. In the run the selector has a connection and
picks that cross; the URLTest group has a connection over tcp, whose selection the
first and a later check move between the outbounds, and one over udp, which a
single outbound serves.

Bounds: two outbounds and two pickers let picks cross and each be the stale one;
a kill may come at any step, twice; two checkers let a check meet another; two
tickers let a loop stop while a touch makes the next. `LateTouches` is false: a
connection does not touch a group that has been closed. Fairness: pickers,
checkers and loops go on, a running ticker ticks, time passes.

Left out: members that are themselves groups (`RealTag`), direct routes, and the
pause manager's suspension of the ticker.

## 9. The balancer: `BalancerDelays`, `BalancerGroup`, `BalancerHashing`

`BalancerDelays` holds the arithmetic as operators: `DelayOf`
(`getModifiedDelay`, with the penalty of a cached result), the stable order of
`sortOutboundsByDelay` (`Rank`, `At`), `Lowest` (`getMinDelay`), `Acceptable`
(a product cut to 16 bits). `BalancerGroup` runs the worker and the connections
for lowest-delay and round-robin, `BalancerHashing` for consistent-hashing and
sticky-sessions.

| Action | Code |
|---|---|
| `Result`, `Receive` | the monitor stores a result and signals; the worker reads all histories |
| `Update`, `Interrupt` | `UpdateOutboundsInfo` of the strategy, and the interrupt when it says that it changed |
| `Dial` with `Select`, `NewConn`, `DialFails`, `CloseConn` | the connections |
| `Traversed`, `HashPlace` | the loop over further hashes; `HashPlaceAmongAlive` and the like are what a slip in it would do |

`MCBalancers` has a part per strategy. With `Modulus` 16, penalty 4, floor 2 and
ratio 2, cached, untested, timed-out and measured delays on both sides of the
acceptable one exist. Three outbounds of which one supports UDP make the
networks differ. Hashes are arbitrary functions (`Hashes`), fixed for
consistent-hashing and changing for sticky-sessions, whose key includes the
clock; one key is enough, since keys do not interact except by eviction. Two
results under lowest-delay and consistent-hashing let one arrive while the worker
is busy with the other; round-robin and sticky-sessions, whose promises are about
the time between two updates, have one result and more selections. The theorems
of section 11 have no such bounds.

Three conditions bound what is promised. `2 * Penalty <= Timeout` holds of the
code (20000 and 65535): the penalty lifts no delay over the timeout, so a member
without a measured delay is never preferred for it. `DelaysFit` is part of the
properties: where the acceptable delay does not fit 16 bits it is cut down, and
round-robin or a hash may then find nobody acceptable. With the ratio 2 that the
configuration builder sets, it holds while no delay, with its penalty, reaches
half the timeout. `OneNet` is part of
`StaysStuck`: the place stored for a key that is used over tcp need not be a
place of the udp members, is then not used, and is kept all the same.

What the code does and the model keeps: `max_retry` n tries n - 1 further
hashes in sticky-sessions; round-robin says that it changed only when the last
acceptable place differs, and serves only the first member while all have timed
out. Left out: `getKey`, eviction from the cache of keys, members that are
groups. `SwitchCuts` of lowest-delay is defined and not in a run: with the
connections it needs, the state space is too large beside the rest.

## 10. The app and its Android service

One Dart task runs at a time and suspends at its awaits, so an action is what
happens between two awaits.

**`AppConnection`**: `ConnectionNotifier` with its repository and the calls of
`HiddifyCoreService`, over the core as they see it (`core`, `runs`, `up`) and
the statuses on their way (`feed`). The user toggles, aborts and changes the
profile (`ToggleOn`, `ToggleOff`, `Abort`, `ChangeProfile`); `Connect...`,
`Disconnect...` and `Reconnect...` steps are those of `_connect`, `_disconnect`
and `reconnect`. `Hosted` tells Android, where the core lives in a service, from
the desktop. A stop of the core may fail (`StopFails`): the core publishes STOPPED
all the same, the app goes on with the error and shows it beside the emitted
"stopped", in an order that is open. `StartService` and `Stop` take the place that module `CoreLifecycle`
gives them. Statuses are not lost here; that they can be is the subject of
`StatusListener`.

**`StatusListener`**: `listenSingle`/`stopListenSingle` with their table of
subscriptions on the side of the app, `SetCoreStatus` and `CoreInfoListener`
with a channel of one on the side of the core. `Apart` is true in the run: a
status does not follow another within the time it takes to send one. Without it
a listener misses the second, as the channel has room for one. `Crossing` is
false: calls of `listenSingle` for one key come one after the other.

**`AndroidService`**: `BoxService` with its binder, and `startServiceAndWait` of
`MainActivity`. `main` is the queue of the main thread, `posted` and `appPosted`
what the `postValue` of the service and of `MainActivity` have left for it, `pc[j]`
the place of a coroutine of `startService` or `stopService`. The app (`AskStart`,
`AskStop`), the tile (`TileStart`) and the system (`Revoke`) ask for starts and
stops. A broadcast (`Tell`) completes a pending start at once and posts the status,
which `Apply` makes visible to `startServiceAndWait` in a later task. The last
block of a stop is two steps, `Close` gives up the port and `Closed` sets the
status, between which it keeps the main thread but the app may find the port
closed. The message of a start may overtake tasks that wait (`AskStart`).

**`MCConnection`** moves each of the first and the third in two ways: requests
that wait until nothing is under way (three of the service, four of the app), for
which everything is shown, and requests that cross, with a core that may fail to
start (three), for which what remains true is shown: nothing stays half way, the
app is not left connecting, and a start request is answered unless it falls in a
window. The window (`Unheard`): a crossing stop has left the service Started
without a core; its Started has been told before the request was made, and is
applied after the request has looked. `AnswerHasCore` is about requests that wait:
the yes that `startServiceAndWait` gives at once, for a status of Started that it
sees too late, is not excluded. Fairness: the main thread takes its
tasks and the coroutines go on.

**`OriginConfig`**: `replace` of the origin document: check, two awaited writes,
assignment. `writes` are the writes the platform has still to do, which it does
in the order they were given. `Kill` is the death of the process; `Init` reads
what was stored. Refused documents, and the early return for an equal revision,
change nothing and are steps that stutter.

**`ProfileImport`**: one upsert per subscription (`FindByUrl`, `FindByName`,
`Insert` or `Edit`, `FindDups`, `Purge`: transactions of the database, each one
step), then `PickActive`, `Activate`, `FindObsolete`, `DeleteObsolete`,
`NormalizeNames`, beside the periodic update and the user's `SetAsActive`. A
name is a base and digits, so that `VIP2` may be a title or be generated for a
second `VIP`. The pattern match of `getByUrl` is an equality here, a local
profile counts as one of an old URL, and the information of a subscription is
left out.

**`AuthSession`**: logins that may be cancelled, the synchronisation each leaves
in the background, the refresh of the timers, logout. `Init` includes a refresh
left over from a session that was logged out, and an app that comes with only the
legacy profile of the aggregate URL. A synchronisation begins with the deletion of
that profile (`RemoveLegacy`). `EventuallyOwn` is about a session that lasts
(`SessionLasts`): its timers fire, requests end (weak), and a request that is
repeated is answered in the end (strong). Cancelling a login only hides it; the
model keeps that. Accounts have the profiles in `Common` together and one more
each, so that an import of one may remove what an import of another has added.

`KeepsOne`, the session's part of `NothingTakenBack`: for want of metadata or of a
download no step takes the last profile away. The steps that do are named: a
logout, the deletion of the legacy profile where it is the only one
(`LastLegacyGoes`), and the end of an import that a logout, or an import of other
profiles, has robbed of what it had added (`CrossedRemoves`; `crossed` is a
history variable). The comment at `auth_notifier.dart:216` promises more, that a
synchronisation without metadata keeps the profiles there are. `KeepsExisting`
states it, and TLC finds it violated (section 12): the deletion (`:201`) comes
before the metadata are looked at.

**`SubscriptionDownload`**: the routes of a download (mapped addresses, direct,
proxy, another endpoint of the pool), `inFlight`, `cooling`, `base` and the
shared discovery `probing`. **`AuthTransport`**: the preferred path for three
seconds, then a race; attempts that were left go on. In the run the network of
the downloads stays as it was chosen at first and that of the paths changes
once. A route that works answers within its budget; whether the local proxy
reaches hosts is one Boolean for all; `proxyOnly` is not used by downloads. A
download that only the mapped route could serve may fail while another one's
probe of that host is in flight, which the code does on purpose. `FailuresEnd`,
`WinnerPreferred` and `RequestEnds` are defined and not in a run.

`MCAccount` has seven parts: the import with an old profile to remove and with a
crossing update, the session, the origin document with calls that cross
(`AgreeAtRest`) and one at a time over deaths (`NothingTakenBack`), downloads,
paths. Two callers, two subscriptions and two downloads are what it takes for
any of them to cross; three hosts let a fallback fail and another be left.

## 11. Proofs

Every theorem holds for every value of the constants that the named assumptions
allow. Those of the components say what the code takes for granted (finite sets
of outbounds and workers, positive capacities, a positive interval no longer
than the idle timeout, delays that do not wrap when the tolerance is added). The
modules that run several components assume them of each part (`PartsAssumption`,
`SelectorsAssumption`, `URLTestsAssumption`, `ImportsAssumption`,
`SessionsAssumption`, `OriginsAssumption`, `PathsAssumption`, `EventsAssumption`,
`BalancersAssumption`, `ActsAssumption`, `ListenersAssumption`,
`NotifierConstants`), TLC evaluates them
in the runs, and only these add anything: there is a thread, a picker, a caller,
a profile, a status; and no other call is the one of the button (`Connect`).

| Theorem | States |
|---|---|
| `OutboundMonitorProofs!TypeSafety` | `TypeOK`, by `TypeInv == TypeOK /\ HoldsTask`: `ApplyResult` and `Reply` are typed only because a test goroutine always holds a task |
| `OvertakingBounded` | `BoundedOvertaking`, by `OvertakingInv`: overtaken tasks plus workers in the inner select never exceed the workers, since a worker enters the select only while no priority task waits |
| `HistoryNotForgotten` | `NoForgottenResult`, inductive by itself over `TypeInv` |
| `SingleReference` | `OneReference`: an object is in one channel, once, or with one worker |
| `SkippedOutboundsPending` | `SkippedMeansPending`, by `FlagsCovered` over `OneReference`: a worker that finishes must not drop an object another holds, so single references come first |
| `StageCounts`, `OutcomesHaveRoom` | `StageAccounting`, `RoomForOutcome`, from `StageInv` over `OneReference` |
| `BarrierImplemented` | `ImplementsBarrier`: every step of `OutboundMonitor` is a step of `CycleBarrier` or none, from `StageInv` and `BarrierInv` |
| `NotifierTimerProofs!TickerKeepsLoop`, `NoPanicBeforeClose` | `TickerHasLoop`, `PanicOnlyWhileClosing`, from `TimerInvariant` |
| `NotifierTimerProofs!TimersDoNotLeak` | `NoTimerLeaks`, from `TimerInvariant` and `RegisterInvariant` |
| `NotifierTimerProofs!GroupCountsLoops` | the wait group counts the loops that run, from `WaitInv` |
| `NotifierTimerProofs!NotifierTypes`, `ResultsNotLost`, `ChannelsStayOpen` | `NotifierTypeOK`, `UnseenMeansPending`, `ChannelsOpen` of `GroupNotifier`, the instance `Notifier` of `MCNotifierTimer`, from `DeliveryInvariant` |
| `CoreProofs!CoreTypes` | `TypeOK` of `CoreLifecycle`, with panics and so without them |
| `CoreProofs!FreeLockMeansSettled`, `ServicesStayKnown`, `CoreImplementsContract` | without panics: `FreeMeansSettled`, `UpIsKnown`, the refinement of `ServiceContract`, from `CoreInv` |
| `StartedServiceProofs!ServiceTypes` | `TypeOK` of `StartedService` |
| `StartedServiceProofs!TransientsHaveOwners`, `StoppersAreAlone` | `TransientHasOwner`, `OneStopper`, for any number of callers, from `OwnerInv` |
| `StartedServiceProofs!OpenPartsCanBeClosed`, `ServiceImplementsContract` | for one caller and no `SetError` (`OneCaller`): `OpenCanBeClosed`, the refinement of `ServiceContract`, from `SoleInv` |
| `CoreProofs!AllPartsHold`, `TransientsOwned`, `FreeIsSettled`, `RestartsEndUp`, `PartsImplementContract` | the four safety properties of the run `core`, of the system it runs, from `CoreProofsInv`: `CoreInv`, `OwnerInv` and `SoleInv` together |
| `GroupsProofs!GroupsHold`, `PicksTakeHold`, `SelectsNearBest`, `LoopKeepsTicker`, `LoopStopsOnlyIdle` | the safety properties of the run `groups`, from `GroupsInv` |
| `BalancersProofs!BalancersSelectAsPromised`, `KeysMoveOnlyWhenNeeded` | both properties of the run `balancers`, for any members, delays, ratios, hashes and connections, from `BalancersInv` |
| `AccountProofs!AccountStaysConsistent`, `ImportLeavesProfiles`, `OriginsAgree`, `PathsAreFound`, `NothingIsTakenBack` | all four properties of the run `account`, from `AccountInv` |
| `ConnectionProofs!ConnectionHolds`, `ServicesSettle`, `AppsSettle`, `ListenersTold`, `AnswersHaveCore` | the safety properties of the run `connection`, from `ConnectionInv` |

**The monitor.** `StageAccounting` counts answers, and counting is sound only if
an outbound owes a stage one answer at most (`AsksOnce`), is not asked before the
loop over the tags comes to it, and no task is of a later stage (`AsksAhead`,
`StagesPast`). Then each answer takes one outbound off a finite set, which gives
the arithmetic of `expected` and of the room in the result channel. The proof
needs `OneReference`: an object in two places would answer twice. For the
refinement each lemma also says what its step does to the outbounds that are
outstanding: nothing (`KeepsOwed`), a request adds one, a reply takes one off
(`AnswersOwed`). `BarrierInv` says that between two stages nothing of the last
one is left, so a late reply is no `Answer`; and by `StageAccounting` nobody is
outstanding when `expected` is zero, which makes `NextStage` and `EndCycle` a
`TryNextLink` and a `Conclude`. After `Close` the barrier promises types only.

**The timer and the notifier.** `TimerInv` reads `workersRunning` as a token
(`TokenInv`): it is in the flag or with the one thread that cleared the flag and
has not yet cleared `mainTicker`, and while it exists nobody starts a timer;
`LoopInv` adds that before `Close` a loop works on its own ticker only.
`OneTicker` is not inductive without the token: a second thread that stops could
clear the ticker another has just made. `RegisterInv` says what a start and a
stop may count on while they do not overlap: a start finds no callback
registered and, once it has registered its own, `pauseCallback` is that one, and
a loop and the stop that follows it find the callback of their own ticker.
`WaitInv` counts: a touch adds one to the wait group and starts a loop that was
not there, a loop that returns takes one off, and every other step leaves the
set of running loops as it is. `DeliveryInv` adds to
`UnseenMeansPending` that the loop keeps its timer on until it has published,
that a registered subscriber is known to the open `Broadcaster`, so that
`BeginPublish` plans to reach it, and that a subscriber starts with nothing
unread.

**The core and its service.** `FreeMeansSettled` is about the moments when the
lock is free; `CoreInv` adds what a call may count on at each place of its
critical section (`SectionInv`) and that only the holder of the lock is in one
(`LockInv`). A panic breaks `LockInv`, which is why
`StartsOnlyWhenNothingRuns` fails with panics (section 12). `OneStopper` is not
inductive: `OwnerInv` adds that nobody stops the service while the status admits
a new call, which is all that keeps a second one out where the mutex is given
up. `SoleInv` follows the one caller: it knows at each place the status, the box
it works on and whether parts are open, and that a box not yet made is new.
`CoreProofs` proves that `MCCore` moves the service as `StartedServiceProofs`
supposes: under the lock, one caller (`Holder`) moves and the others stay idle.

**The groups.** With one picker the file holds the selection except between the
swap and the store, and then what is about to be stored is the selection, and
what `pingSelected` has loaded is it too (`PickedInv`). When picks cross, the
selection has been tested since its swap or a pick is on its way to load and test
it: the one that swapped last at least (`TestedInv`). `SelectedNearBest` needs to know what the loop of `Select` has
seen half way (`ScanSees`): the first of the lowest delays up to the tolerance
among the outbounds it has passed, over a history that changes meanwhile, and
the selection it began with not left for one that is not better by more than the
tolerance; `FlagHeld` keeps a second scan out. For the loop, once it has begun
`lastActive` is at most one interval older than the last touch, as only the
touch that makes the ticker is not stored.

**The balancers.** `sortOutboundsByDelay`, `outbounds[net][i]` and the index up
to which round-robin goes are numbers of members that come before one. A first
group of lemmas is about any order by delay and number: it is total
(`PrecedesOrders`), each member has a place and each place a member
(`PlacesDiffer`, `PlacesTaken`, by cardinalities), and a set that contains with a
member all that come before it takes up the first places (`FirstPlaces`), which
is why `getAcceptableIndex` may count the acceptable ones. `LowestInv` follows a
result: it is in the histories while an event waits, then in what the worker has
read, then in the selection. `FairShare` is not inductive: `FairlyServed` says
that since the last update the selections have gone round a whole number of
times, and once more from the place where they began to that of `idx`; taking
the next place either lengthens that round or closes it (`RoundGoesOn`). For
consistent hashing `HashFindsAnswering` shows that the member with the least
delay is alive whenever one has answered, so the search ends at a place that is,
and `PlaceFound` that the first of several finds stays the first when others
drop out. For sticky sessions `StickyInv` adds that what is stored for a key
that is used over one network is a place of that network, and the place that the
connections since the last update were given unless it was not alive; without it
a new connection could start from a place of the other network.

**The account.** The session needs that an import about to remove what is obsolete
has all it wants in the database unless it was crossed (`SessionInv`).
`AgreeAtRest` is about writes in the platform's queue: the last
endpoint pool to be written belongs to the document on disk, and if none is to
be written memory has that document (`LastPoolIsStored`). With one call at a
time, the call under way brings a later document than the one in use
(`CallUnderWay`). The downloads know at each place what has failed (`FoundOut`),
and a discovery that is under way has every endpoint still to probe or known not
to answer. The imports are the largest proof: a row is made from the title of
one subscription at most, so what an upsert has found stays what it was while
others insert, rename and purge theirs (`OthersHold`), the rows it deletes are
not another's, and of the rows that are active or doomed to be deleted one is
left. `Generated` is reasoned about as a relation on sequences; no property of
the order of rows is used.

**The connection.** `NothingHalfway` is about rest, and what rules rest out is in
the queue of the main thread: `CrossedInv` says that the block a coroutine waits
for is in the queue once (`BlocksOnce`), that a posted value waits exactly while
its task does, once, and a posted Starting before the notification of its start
(`PostedOnce`), and that a status half way has a coroutine that takes it on, or a
posted Started (`HalfwayIsHeld`). The order in `PostedOnce` is needed: a late
Starting would undo what an alert has set. While stops wait, `QuietInv` follows
the one coroutine that runs (`JobKnows`), what each status stands for
(`StatusKnows`), and why no Started without a core is told to a request that waits
(`NewsKnows`): a Started waiting to be told is still the status, since a stop is
asked for only when nothing waits. For the app the queue is `feed`: its last status is that of the core
(`FeedEnds`), and an app left connecting has a status to hear or a call that will
show something else (`ConnectingIsHeld`, for crossing calls); with one call at a
time `QuietAppInv` follows the call (`CallKnows`) and says when the last wish and
the active profile are those of the core (`WishesKept`). The listener has what is
unsaid or in a channel equal to the status of the core, once (`OnlyCurrentTold`),
and one open stream, the registered one (`OneOpen`). Lemmas on queues
(`QueueFrom`, ...) say what is left of the tasks when one is taken and some are
put at the end.

Each proof has a lemma per action or group of actions, a lemma that combines
them for `Next`, and a temporal step. The inductive invariants of the monitor,
the timer, the groups and balancers, the account, the connection and the core
were checked by TLC on small instances before they were proved. The order of the proof changed the models in a few
places that do not change what they say: bounds that were numbers became
constants (`MaxPicks`, `MaxLoops`, `MaxRevision`, `MaxActs`, ...), "at most one" is stated
by a quantifier rather than a cardinality, `StopsOnlyIdle`
is a property of its own, and so is `AnswerHasCore`, which was a conjunct of
`RequestAnswered`, and `CallbackMatchesTicker`, which was one of
`TimerFollowsTouches`.

Only model-checked: every liveness property, since liveness under fairness and
`ENABLED` are out of reach of TLAPS: `SwitchCuts`, `CycleTerminates`,
`CloseReturns`, `TimerFollowsTouches`, `NothingStuck`, `CallsReturn`,
`EventuallySelected`, `EndsAtRest`, `RequestAnswered`, `EventuallyOwn`. The
closures behind `TestNow` (`MemberClosure`, `DependentClosure`) are used in the
proofs only through the set they select from.

## 12. Behaviours that TLC finds

One run expects a violation, `retested` (section 4). While the other modules were
written TLC found the following violated, in each case by what the code does.
The properties are defined in the modules named, and the passing runs state what
holds beside them; a configuration with the constants given here shows each.
Lines are those of the code.

| Property | What happens |
|---|---|
| `CoreLifecycle!StartsOnlyWhenNothingRuns`, with `Panics` | `start.go:79`: the panic handler runs after the unlock. While it is in `errorWrapper` another `StartService` reaches STARTED, the handler publishes STOPPED, and the next start makes a second service beside the first |
| `SelectorGroup!RestartKeepsSelection`, with two pickers | `selector.go:137`: swap and store are not one step, so crossing picks may be stored in the other order |
| `SelectorGroup!NoConnectionOverOldSelection` | `selector.go:169`: a connection that is being dialed during a switch is registered afterwards and lives on over the old outbound |
| `URLTestGroup!WorkingBeatsFailed` | `urltest.go:314`: a failed outbound has delay 65535, to which the tolerance is added in 16 bits; it then beats every outbound listed before it |
| `BalancerHashing!CacheNotTrusted` | `sticky_session.go:81`: the acceptable delay comes from the delays with penalty, and is compared with those without it |
| `BalancerHashing!InterruptsOnChange` | `sticky_session.go:91`: the update says "changed" for every event, so each result of a member cuts all connections |
| `OriginConfig!OnlyForward`, with two callers | `kuaifei_origin.dart:279`: both pass the check of the revision, and the older document is assigned last |
| `ProfileImport!ImportedAppear`, with titles that generate one another | `profile_data_source.dart:89`: two packages of one name, or VIP and VIP2, delete each other's profile |
| `AuthSession!KeepsExisting`, without logouts | `auth_notifier.dart:201`: a synchronisation deletes the only profile, that of an older app, before metadata that is missing makes it end |
| `AuthSession!LogoutClears` | `auth_notifier.dart:557`: a refresh that has read the token stores its answer, and imports profiles, after the logout has ended |
| `AndroidService!ReadyWhenStarted`, with `StopsCross` | `BoxService.kt:184`: a start that a stop has overtaken posts Started over Stopped |
| `AndroidService!ClosedWhenStopped`, with `CoreMayFail` | `BoxService.kt:306`: when `Mobile.start` throws, the service is stopped and the core of `Mobile.setup` goes on listening |
| `AppConnection!AbortedStays`, without `UserWaits` | `connection_notifier.dart:176`: an abort during the setup of a connect stops a core that does not run yet, and the connect goes on |
| `AppConnection!RunsActiveProfile`, without `ProfileWaits` | `connection_notifier.dart:97`: a change of profile during a connect is lost |
| `StatusListener!OpenIsRegistered`, with `Crossing` | `hiddify_core_service.dart:509`: the second of two crossing calls removes the first's fresh subscription without cancelling it |
| `AuthTransport!WinnerPreferred` | `xboard_api_client.dart:406`: the late answer of an attempt that was left makes its slow path preferred again |

Seen in the models and stated by no property, because nothing in the repository
says otherwise:
- `selector.go:151`: of two picks that cross, the loser's outbound may be the last
  one that is tested.
- `auth_notifier.dart:284`: an import of one account that an import of another, or
  a logout, has crossed removes what the other added, and may leave no profile
  until the next refresh.
- `MainActivity.kt:65`: a start right after a stop may read the Started of before
  and be answered yes without a core. The app then waits for the port
  (`core_interface_mobile.dart:141`) and the start fails.
- `MainActivity.kt:156`: when a crossing stop has left the service Started without
  a core, a start request made after that Started was told and before it is applied
  is never answered.
- `outbound_monitoring.go:332`: `Close` beside the touch that starts a timer may
  register a callback that holds a nil ticker.
- `stop.go:36`, `started_service.go:242`: what a failed close leaves on is forgotten.

## 13. Not modelled

- Service manager, extension host: nothing registers with them in this build;
  the registrations are commented out (`extension/interface.go:125`,
  `v2/hcore/grpc_server.go:137`), so their lists stay empty.
- Go profiles and database: no server is registered for them; the app keeps its
  profiles in its own database, which `ProfileImport` models.
- Configuration builder, `ray2sing`: translations without state, in which
  nothing depends on the order of events.
- gRPC and FFI entry points: they pass calls on; generated stubs.
- URL test and IP lookup: input and output, of which the models take any
  outcome. Stored history: read once, before anybody else runs.
- sing-box itself, its transports, protocols, router and DNS, and the vendored
  libraries: by far most of the repository, and not this program's own logic.
  The models have what is seen of them: outbounds that become ready and stop
  being so, dials that fail, parts of a box that open and close.
- Platform runners, build files, settings and screens.
- In the Android service: the tunnel's file descriptor, the local resolver,
  notifications, reload, a server whose `net.Listen` fails.
- In the connection of the app: dialogs, haptics, `startedByUser`, the reconnect
  to no profile.

`PROJECT.json` repeats the reason for each component, and lists the hazards
that no property covers, each with a note.
