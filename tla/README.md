# A TLA+ model of the AppMetrica SDK

AppMetrica is an analytics SDK for Apple platforms. An application reports
events to *reporters*, one for every API key; a reporter numbers them, puts them
into sessions and stores them in a database; *dispatchers* read them back, send
them to the servers in batches and delete what the servers have answered for.
This directory holds TLA+ specifications of that core, TLC models of them, and
proofs checked by TLAPS. The specifications are written from the code; where the
code and its tests or declarations disagree, the models follow the code and the
disagreement is a finding.

`C/` below stands for `src/AppMetricaCore/Sources/`.

## The system

### Components

| component | where | state | operations |
|---|---|---|---|
| reports controller | `C/Network/Report/AMAReportsController.m` | `inProgress`, `isRetryAllowed`, queue of request models, current request and HTTP requestor | report models, cancel pending, the four ways a request ends |
| proxy controller | `C/Network/Report/AMAProxyReportsController.m` | state of the regular and of the tracking controller | split tracking events off, forward, join the two ends |
| request models | `AMAReportRequestProvider.m`, `AMARequestModelSplitter.m`, `AMAReportPayloadProvider.m` | none (the event tables) | read, group, split, trim, serialize |
| dispatcher | `C/Dispatcher/AMADispatcher.m` | its serial executor, the request identifier | perform report, cancel pending, purge, call the delegate |
| dispatching controller | `C/Dispatcher/AMADispatchingController.m`, `AMAUniquePriorityQueue.m` | dispatchers by key, forced and regular queue, `isWorking`, `started` | perform report for a key, start, shutdown, next report |
| timeout policy | `C/AMATimeoutRequestsController.m` | limit date and failure count by host type, persistent | is allowed, success, failure |
| strategies | `C/Strategies` | event counters, timers, subscriptions by key | start, shut down, restart, ask for a report |
| sending restriction | `AMADataSendingRestrictionController.m` | restrictions by key | allow, forbid |
| reporter and sessions | `C/Reporter`, `C/Model` | session and event tables, numbering, flags, update timer | pause, resume, report event |
| startup | `C/Network/Startup` | current requestor, hosts, time of update | update, cancel, answers |
| privacy timer | `C/Privacy`, `AMAMultiTimer.m` | timer, started flag | start, stop, fire |
| storage | `C/Database`, `src/AppMetricaStorageUtils` | SQLite tables, caches, counters, trimming | save, flush, increment, roll back, trim |
| facade | `C/AMAAppMetrica.m`, `C/AMAAppMetricaImpl.m` | wiring | public API, application state, delegates |
| the rest | crashes, identifiers, ID sync, location, attribution, revenue, profiles, logs, adapters | | see `PROJECT.json`, "components" |

### How they interact

A strategy or the application asks the dispatching controller to report a key, on
any thread. The controller queues the key and, if nothing runs, pops keys one by
one; it tells the dispatcher of a key to report, and goes on when that dispatcher
calls its delegate back. A dispatcher owns a serial executor, shared by the proxy
and the two reports controllers behind it: every step of a round is a block of
that executor, and network answers arrive as blocks posted by the URL session. A
definite answer makes the dispatcher delete the events of the model and take the
next request identifier. When the application leaves the foreground, the
dispatching controller is shut down and cancels what is pending in every
dispatcher. The two reports controllers share the timeout policy of their host
type with the dispatchers of all other keys.

Before a strategy's wish becomes a request, the startup configuration has to be up
to date; if it is not, the startup controller is told to update it, one request at a
time, host after host. Its success restarts all strategies, like the end of a round
that sent something: restarted, they count the stored events anew.

### What is hard, and what makes each part correct

* **Dispatching controller**: two locks taken one after the other, callbacks on
  many executors. Correct when one report runs at a time, no request is
  forgotten, and the chain of reports ends.
* **Reports controllers**: cancellation posted as blocks, retries over hosts,
  splits of a request in flight, errors before and after the request is set.
  Correct when a controller never hangs, an event leaves the store only after an
  answer, an identifier whose acknowledgement was handled is not reused, and every
  round ends.
* **Proxy**: two rounds joined into one. Correct when somebody always calls back.
* **Timeout policy**: exponential arithmetic on `int`, persistent. Correct when a
  failed update delays the next one, and only a failed one does.
* **Reporter**: dates taken before queueing, sessions expiring, flags saved after
  what they describe, past events stored from another thread, empty sessions deleted
  meanwhile. Correct when one session is live at most and the last one, each session
  that ends has one `EVENT_ALIVE`, each pair of session identifier and event number
  is unique, and init is reported once.
* **Startup**: a requestor that is both the lock against a second update and the mark
  of the live request, answers checked outside the lock, a date saved before what it
  dates. Correct when one requestor is live, each update is told once and ends.
* **Strategies**: subscriptions changed on one thread and events counted on another,
  delayed blocks, restarts posted in pieces. Correct when no event is missed, a timer
  is set once and stays alive, and events that are enough are asked for.
* **Privacy timer**: timers sharing an executor.
* **Storage**: caches ahead of the disk, counters with a rollback, approximate
  counts.

`PROJECT.json`, "hazards", lists these at their lines, with the properties that
cover them.

## The modules

| module | models |
|---|---|
| `RequestModels` | pure operators: from stored events to request models, splitting, payloads |
| `ReportDelivery` | one key: dispatcher, proxy, both reports controllers, their executor, the network, crashes |
| `EventOutbox` | what the delivery promises, in three actions; `ReportDelivery` implements it |
| `DispatchingController` | many keys: the queues, the locks, the threads |
| `ReporterSessions` | one key: the reporter's calls, session and event rows, the first and init flags, deaths, failed statements, the cleaner |
| `StartupController` | updates of the startup configuration: controller, hosts, requestors, timeout policy, saving, deaths |
| `DispatchStrategies` | one key: timer, counting and urgent strategy, their restarts by the facade, rounds and updates as begun and ended |
| `MCReportDelivery`, `MCDispatchStrategies` | constants for TLC |
| `ReportDeliveryProofs`, `ReportDeliveryRoundProofs`, `DispatchingControllerProofs`, `StartupControllerProofs`, `DispatchStrategiesProofs`, `ReporterSessionsProofs`, `ReporterSessionsCalmProofs`, `ReporterSessionsOnceProofs` | theorems |

### RequestModels

An event is its database oid. A model of a request keeps the set of its events and
whether it ends in an empty batch (`blank`): a regular model keeps the batches it
lost all its (tracking) events from, and such a batch makes a one-event model
split in two. `Collected` reads the first `BatchSize` events by session and oid,
`RequestModels` groups them, `RegularModels` and `TrackingModels` are what the
proxy hands to its controllers, `SplitRequestModel` halves a model, and `Payloads`
is every result the payload provider may give: the model, the model trimmed to its
oldest events, `AllSessionsAreEmpty` when no event can be encoded, another error.

### ReportDelivery

The executor is a sequence of blocks; `RunBlock` takes the first one and runs it to
its end, so each `Run...` action and each answer is a whole handler with all the
calls it makes. `PerformNextRequest`, `RestartCurrentRequest`, `RetryOnNextHost`,
`SplitCurrentRequest` and `CompleteWithError` are the methods of those names; they
are operators on the state the handler has reached, because Objective-C calls them
from the middle of other methods. `denied` is the timeout policy: a failure after
the last host may close it, an answer opens it, and other dispatchers or time may
do either at any moment. `PerformNextReport` is the dispatching controller as this
key sees it: `queued` and `isWorking` with the other keys abstracted into choices.
`Relaunch` loses all memory and keeps the database, the identifier and the policy.
`added`, `answers`, `lastAck`, `lostAck` and `lastPurge` are history variables: `lastAck`
is the last identifier that a server acknowledged, handled or not, and `lostAck` one
whose acknowledgement went with the process. `Hosts` are the possible numbers of usable
hosts, and with `NamelessHosts` a list may also hold an empty name: the controller then
ends with an error that purges nothing, before or after the hosts it could use.

`CompleteWithError` has both the model that failed and the model the code passes to
the delegate. They differ, which is one of the findings.

### DispatchingController

Each `@synchronized` block is an action; a thread between two of them is a program
counter and the locals of `-performNextReport` (`hand`). The loop that skips keys
without a dispatcher holds `queueLock` over several looks at `dispatchers`, which
change under another lock, so the lock is a variable and each turn an action. A
dispatcher that was told to report *owes* one callback; with `TwoEnded` keys it owes
one or two, since both controllers behind the proxy may fail and each failure is
forwarded. `doubled` is a history of that: `OneChain` promises one chain until a round
has called back twice, and the other properties hold with any number of chains.

The two system modules fit together at that callback. `ReportDelivery!OneRound`
says that, without tracking events, a round is one chain ending in one callback,
and `RoundEnds` that it comes: so a key without tracking events is not in `TwoEnded`,
and `DispatcherCalledBack` is fair.

### StartupController

`update` runs on the facade's executor, everything else on the controller's own, a
block a step; `hand` is the block between its parts: `TakeAnswer` is what
`-httpRequestor:didFinishWithData:` does before the lock (the comparison with the
current requestor, the success told to the policy, the parsing), `Accept` and the
`Fail...` actions what follows under the lock, `Synchronize` the save after it. A
requestor is a number; it waits in `delayed`, runs in `wire`, and its completion
block is in `inbox`. `FailOnLastHost`, `FailToNextHost` and `FailOffline` are the three
outcomes of `-reportErrorWithRequest:error:`, `DenyRequest` its fourth, the policy's.

`count` and `backoff` are the persistent state of the timeout policy. `Interval` is
`-intervalForAttempt:` for one `Multiplier` and one `MaxInterval` of the configuration, 0
included; the shift is of an `int`, so `Intervals` offers every value up to the maximum once it is undefined, with
`IntBits` small enough for TLC to get there. `stored` and `stamp` are the saved
configuration and the one that the saved date is about; `torn` records that a failed
save or a death came between the two. `Die` may come between any two steps.

### DispatchStrategies

Each strategy has its executor (`blocks`), the facade one (`tasks`). Posting is
appending. `restart` of the timer posts a `shutdown` and a `start` from a block, one after
the other: `TimerRestart` and `TimerRestartEnds` are the two, and the blocks of other
threads may come in between. A counting strategy unsubscribes on the
thread that restarts it and subscribes in its own block: `observers` counts its
registrations, since a second `start` before the first one has run registers it
twice. Its start is two steps, `StartSubscribe` and `StartRecount`, and a stored event
waits in `posting` for its notification, so that an event can be counted by the
query, by the notification, or by both. Cancelling the timer's delay also keeps a block
that is due from running (`NotFired`): its timer source is cancelled, and when its turn
comes there is nothing to do (`TimerCancelled`).

`BeginRound`, `RoundSucceeds`, `RoundFails`, `StartupSucceeds` and `StartupFails`
are the other modules seen from here, with the delegate methods of the facade they
end in. `asked` and `skipped` are histories: a strategy has asked since the last of
its events was stored, and a start found a delayed dispatch scheduled and did not
count. The second is the one case in which stored events stay uncounted.

The strategies share only the executor of the facade, whose blocks restart all of
them; `MCDispatchStrategies` checks them one at a time (`TypeMasks`).

### ReporterSessions

`rows` and `events` are the two tables (an oid is an index; deletion is a flag, so
that the history stays), `lastSessionID`, `sent` and `saved` the persistent counter
and the flags in memory and on disk. A call of the reporter is two things: an
action that reads the sessions and decides, from the conditions of the method, which
transactions follow (`ResumeSteps`, `PauseSteps`, `ReportSteps`, `FirstEventSteps`,
`ReattributionSteps`, `NewPastSessionSteps`, all sequences of `End`, `Create`,
`Add`, `SaveAsLast`, `Mark`), and one action for each transaction (`EndSession`,
`NewSession`, `AddEvent`, `SaveSessionAsLastSession`, `MarkEventSent`). `work[t]`
keeps what is left to do and the two `AMASession` objects of the call: copies,
whose `finished` and `eventSeq` do not follow the row.

`executor` is the reporter's serial executor. `caller` is the thread of
`reportEventToPastSessionWithBlock:`, the one report that is not queued there
(`reportPollingEvent:`, and file events with a date). The cleaner is the dispatcher's
executor: `PurgeEvents` deletes the events that a request carried, all that some sessions
had so far (a request takes the batches of equal application state and environment, so
any sessions may be together), and `PurgeEmptySessions` deletes the sessions without events but for the
two newest. The code asks for this once per session type, but the type is not part of
the statement, and the second time finds nothing; so it is one action.

Whether a session has expired depends on the device clock, which can be set at any
time, forwards or backwards, so `Expirations` offers every answer at every call, and
dates are left out. Init and update events are the two names of one flag: which one
is used is a configuration.

`Failing` is a statement that fails, in a read (nil, which callers take for "no
session") or in a transaction; `Die` ends the process between two transactions.
`faults` is a history of both, and of two calls that overlapped. Most properties are
about `faults = {}`, since the code does not repair what a fault leaves behind;
`SequenceNumbersDistinct` holds through deaths and failures but for one, `copied`:
when the session for a past event cannot be made, the last session is copied
nevertheless (`AMAReporter.m:1004`), its finished old row is then right below the
copy, and a later past event that goes to that row takes a number that the copy
uses as well. `AddEvent` has a third outcome, from `AMAEventNumbersFiller.m:61`: the rollback flag of a failed
global number is overwritten by the next counter, so an event can be stored while its
caller is told that it was not.

## What TLC checks

| run | instance | properties |
|---|---|---|
| `delivery` | 3 regular events in 2 groups, batches of 2, one unreadable event, 1-2 hosts or none usable, 2 calls, 1 shutdown, 1 relaunch, deletions may fail | `NoLoss`, `FreshIdentifier`, `WireHoldsStored`, `OneRound` |
| `delivery_proxy` | 1 regular and 1 tracking event, 1 host (tracking: 0 or 1), 2 calls, 1 shutdown, 1 relaunch | `TypeOK`, `InProgressHasRequest`, `WorkingMakesProgress`, `LeftoversAreCancelled`, `OutboxSpec` |
| `delivery_live` | the same events, 1-2 hosts, 1 call, 1 shutdown, deletions may fail | `RoundEnds` |
| `dispatching` | 2 keys, 2 callers, 3 calls, rounds that call back once or twice | `TypeOK`, `OneChain`, `RequestKept`, `WaitsOnce`, `ChainEnds`, `ChainServesForced` |
| `sessions` | a first launch, 2 calls, 1 past event, 2 purges (a death counts as one), 1 fault (statement or death), or 1 death between calls | `TypeOK`, `EventsHaveSession`, `SequenceNumbersDistinct`, `OneLiveSession`, `EndedSessionsHaveAlive`, `InitReportedOnce` |
| `startup` | 2 hosts, 4 updates, multiplier 2, intervals up to 5, 4 bits, 2 expiries, 1 death | `TypeOK`, `OneRequestor`, `OneOutcome`, `DatedIsStored`, `FailureBacksOff`, `UpdateEnds` |
| `strategies` | one strategy, 2 events (timer: 1), limit 2, dispatch period on or off, 2 starts or configurations | `TypeOK`, `TimerSetOnce`, `ScheduledIsOnItsWay`, `ActiveTimerTicks`, `CountCoversEvents`, `EventsAreTried`, `ReachedCountAsks` |
| `delivery_split` | violation | `TooLargeOnlyAlone` |
| `delivery_nil_model` | violation | `PurgesTheFailedModel` |
| `dispatching_wakeup` | violation | `ForcedIsPerformed` |
| `sessions_overlap` | violation | `AliveAtMostOnce` |
| `startup_unusable_host` | violation | `UpdateEnds` |

**Bounds.** `MaxCalls`, `MaxShutdowns`, `MaxRestarts` bound what the environment
does in `ReportDelivery`; nothing else is bounded there, the executor and the queues
are as long as the code makes them. Three events are the least with which a request is split and another
one follows; two hosts the least with which a retry moves on and then runs out; two
calls make a second round meet what the first one left. The relaunch of `delivery` is
there for `FreshIdentifier`: it loses acknowledgements that no block has handled, after
which the next round sends the same identifier again. Two keys and two callers
make one chain find a key without a dispatcher before one with a dispatcher while
another thread pushes. In `ReporterSessions`, `MaxCalls`, `MaxPast`, `MaxPurges` and
`MaxDeaths` bound the calls, and at most one thing goes wrong in a behaviour; the two
blocks that every launch queues come besides, so two calls and a relaunch are up to
six calls of the executor, enough for a live session to be copied, ended, followed by
another and purged. The cfg of `sessions` has the state constraint `OneCallAtATime`,
which cuts behaviours at the first state in which two calls have overlapped: its
properties claim nothing there, and `sessions_overlap` looks at them without it.

In `StartupController`, four updates are enough for three failures in a row, after
which the shift by an `int` of four bits is undefined, and for an update after a
success; two expiries make a configuration outdated before and after a death. In
`DispatchStrategies`, two events reach the limit of two by counting one in the query
and one by a notification; two starts are the least with which a strategy is restarted
while its restart is under way. `MaxTasks` keeps the timer from expiring while more
than that many blocks wait on the facade's executor: the period is seconds, a block is
not. `limit` takes one value: a new configuration changes the period.

**What the properties do not reach.** `FreshIdentifier` allows what the code does after a
relaunch that lost an acknowledgement. `OutboxSpec` and `FreshIdentifier` are about
processes that die between blocks: dying between the purge and the increment of the
identifier, inside one block, is not in the model. `DatedIsStored` says nothing after the
first date saved without its configuration (`torn` stays), `CountCoversEvents` and
`ReachedCountAsks` nothing after the first start that did not count (`skipped` stays); that
the flag behind it is cleared again is `ScheduledIsOnItsWay`. `EventsAreTried` counts an
update under way as a try, and that such an update ends is `UpdateEnds` of the run
`startup`, with hosts for which a URL can be made; `startup_unusable_host` shows the other
case. The four properties of `sessions` that need `faults = {}` say nothing of what a
death within a call or a failed statement leaves behind: those hazards are listed with no
property. In `StartupController` the multiplier and the maximum do not change in a run.

Deadlock is checked in every run but those of `ReporterSessions`, `StartupController`
and `DispatchStrategies`: a reporter that used up the bounds, a startup configuration
that is up to date and a strategy without events have nothing left to do.

**Fairness.** The executor runs its blocks (a dispatch queue does), the URL session
ends every request (it has a timeout), threads inside the dispatching controller go
on, and a dispatcher makes the callback it owes. Delays expire, a round and an update
that `DispatchStrategies` sees begin end there because `RoundEnds` and `UpdateEnds` say
so. No fairness is assumed of the application, of the timeout policy, of time in
`Expire`, or of shutdowns.

### Findings

* `delivery_split`: after a cancellation, a 413 purges the first half of a request
  that was split but never sent in halves (`AMAReportsController.m:202`).
* `delivery_nil_model`: a payload error is reported with a nil, old or empty model,
  so the events that cannot be encoded are not purged and fail again in each round
  (`AMAReportsController.m:256`).
* `dispatching_wakeup`: a request that arrives between the chain's last look at the
  queues and its clearing of `isWorking` wakes nobody
  (`AMADispatchingController.m:143`).
* `sessions_overlap`: an event for a past session, stored on its caller's thread
  while the setup ends the last session, brings that session back to life from a
  stale copy; it ends, and gets its `EVENT_ALIVE`, twice (`AMAReporter.m:324`).
* `startup_unusable_host`: the requestor does nothing when no URL request can be made
  for its host, so the update never ends, the next host is not tried, and no other
  update begins in this process (`AMAHTTPRequestor.m:64`).

Four things that the strategies do are in the model and named by exceptions of its
properties, since no text promises otherwise: a start that finds a delayed dispatch
scheduled does not recount (`skipped`); two restarts in a row subscribe a counting
strategy twice, and it then counts an event twice and asks early; a restart followed
by a shutdown leaves it subscribed; and with a dispatch period of 0 what failed is
tried again only with the next event.

## What is proved

For every value of the constants that satisfies `RequestModelsAssumption` and
`ReportDeliveryAssumption` (finite set of natural oids, any grouping, any sets of
numbers of hosts, any bounds), `ReportDeliveryProofs` proves

* `TypeCorrect`: `Spec => []TypeOK`,
* `NoEventIsLost`: `Spec => []NoLoss`,
* `RequestInProgress`: `Spec => []InProgressHasRequest`,
* `DeliveryIsAnOutbox`: `Spec => OutboxSpec`.

All four come from one inductive invariant, `IInv`. `NoLoss` alone is not
inductive: the purge of an accepted request happens when the answer's block runs,
long after the server gave it. `DefiniteIsSettled` bridges the gap: a definite
answer waiting on the executor is the answer to the request its controller still
holds. It needs the controller not to change its request while an answer waits,
which is `InProgressHasRequest` (one requestor, one answer, `inProgress` exactly
then), and needs the model passed to a purge after a payload error, the nil or old
model of the finding, to be harmless: it is empty or was answered
(`IdleHasNoRequest`, and the clause on the request while its answer is handled).
`DataType` says that what travels are events that were stored, so that a grouping,
a split or a trim adds nothing. The step proof goes through an `Outcome`: each of
the five ways an answer is handled leaves its controller idle or with a request in
flight, posts no answer, and removes from the store only settled events; one lemma
per method shows it, and one lemma shows that an `Outcome` preserves `IInv`. The
refinement maps `settled` to the union of the answered models; a step that both
purges and changes memory is a purge or a stutter.

`DispatchingControllerProofs` proves, under `DispatchingControllerAssumption`,

* `TypeCorrect`: `Spec => []TypeOK`, with the lock held only inside the loop,
* `OneReportAtATime`: `Spec => []OneChain`, inductive once a chain that performs a
  report is known to hold a key (`ChainHasKey`),
* `NobodyWaitsTwice`: `Spec => []WaitsOnce`, from lemmas on what `-push:prioritized:`
  and `-popPrioritized:` do to the members of the queues (`AddObjectMembers`,
  `RemoveObjectMembers`, `PushForced`, `PushRegular`, `PopMembers`),
* `NoRequestForgotten`: `Spec => []RequestKept`. It is not inductive: a thread about to
  take a key could overwrite one in its hand. `HandFits` says that its hand is empty,
  and `Kept` restates the property over the threads that decide or perform.

`StartupControllerProofs` proves, under `StartupControllerAssumption`,

* `TypeCorrect`: `Spec => []TypeOK`, in which `host \in 0..NHosts` is not obvious,
* `OneRequestorAtATime`: `Spec => []OneRequestor`,
* `EveryUpdateToldOnce`: `Spec => []OneOutcome`,
* `DatedConfigurationIsStored`: `Spec => []DatedIsStored`,
* `FailuresBackOff`: `Spec => FailureBacksOff`, from the hypothesis that `2^n - 1` is a
  positive natural for every positive `n`, which needs an induction; a multiplier or a
  maximum of 0 configures no backoff, and is excepted.

They share the inductive invariant `IInv`, whose core is `Phase`: an update is idle,
waiting, running, answered, handled or silent (a host for which nothing was sent), and
in each phase the requestor is in one place. `OneRequestor` alone is not inductive: it
does not say that what the executor has in hand is the answer of the current
requestor, nor that hosts are given up in their order (`InTurn`), on which
`FailureBacksOff` rests, nor that an accepted configuration is the dated one
(`AcceptedIsDated`), on which `DatedIsStored` does.

`ReportDeliveryRoundProofs` goes on from the `IInv` of `ReportDeliveryProofs`, under the
same assumptions, and proves

* `IdentifiersAreFresh`: `Spec => []FreshIdentifier`,
* `NothingIsLeftOver`: `Spec => []LeftoversAreCancelled`,
* `WorkIsUnderWay`: `Spec => []WorkingMakesProgress`,
* `RoundIsOneChain`: `Spec => []OneRound`, when `Tracking = {}`,
* `OnlyStoredEventsAreSent`: `Spec => []WireHoldsStored`, when `Tracking = {}`.

`Tracking = {}` is the hypothesis of the two properties themselves: with a tracking event
the round of a controller that failed ends while the other one is in flight, and neither
holds. The first three come from the invariant `Base`. `FreshIdentifier` speaks of
requests in flight only; `Numbered` adds those whose answer waits, which may be the
acknowledgement itself (`AckPosted`), the identifier that the next request will take, and
that no identifier comes from the future. The theorem is about every order of crashes
between blocks, and says no more than the code does: an acknowledged identifier is sent
again if the process died before the acknowledgement was handled, and not otherwise. `WorkingMakesProgress` is not inductive because a controller that
completes may leave the dispatcher waiting for the other one: `ProxyFollows` says that
the proxy is right about whom it waits for, unless the round closes anyway. The last two
come from `Round`: the chain is one block or one request (`OneChain`), the models that
are appended or queued share no event and carry stored ones (`Batches`, `Sends`), and
what is left of a round is cleared before the next one takes its models (`Clears`, an
order of blocks on the executor). That the models of a round share no event rests on
`NthGroupRank`: numbering the groups by how many come before them is a bijection.
A controller's turn has one form (`Turn`: it sends, fails or finishes), which one lemma
per method establishes and one lemma shows to preserve the invariants.

`DispatchStrategiesProofs` proves, under `DispatchStrategiesAssumption` (any strategies,
kinds of events, limits, periods and bounds),

* `TypeCorrect`: `Spec => []TypeOK`,
* `TimerIsSetOnce`: `Spec => []TimerSetOnce`,
* `ActiveTimerFires`: `Spec => []ActiveTimerTicks`,
* `ScheduledComes`: `Spec => []ScheduledIsOnItsWay`,
* `NoEventUncounted`: `Spec => []CountCoversEvents`.

`TimerSetOnce` looks at the head of the timer's executor only. The invariant behind it,
`StartFollowsShutdown`, says why no restart, start or shutdown from elsewhere can come
between, not even between the two blocks of a restart: each start in the queue comes after
a shutdown with no other start in between (`Covers`), or is the first one while the timer
is not set, and a restart that has posted its shutdown only has it in the queue with no
start behind it. `ScheduledIsOnItsWay` needs that there is one delayed
dispatch at a time and not while the delay runs (`OneDispatch`), or the first of two
would clear the flag of the second. `CountCoversEvents` excepts a strategy that is about
to count; but a start that finds no limit counts nothing, and then the count must cover
the events already, from the registration that an earlier start left behind (`CountInv`).
The proof counts positions in the queues (`ComingAppended`, `ComingBehindHead`).

`ReporterSessionsProofs` proves, under `ReporterSessionsAssumption` (any bounds, storage
that may fail or not),

* `TypeCorrect`: `Spec => []TypeOK`, with the plans of calls typed step by step,
* `NumbersAreUnique`: `Spec => []SequenceNumbersDistinct`.

The number of an event comes from the object at hand, and a session can have several
rows. The invariant `Sound` says why that is enough. A row that is not the last one of
its session is finished and has two kept rows above it (`RowsFit`), so the reporter,
which reads the two newest rows only, never takes it up again; the object of a call is
one of a last row and equals it (`Agrees`); and the last row of a session holds a number
above those of all its events (`EventsFit`). That needs to survive the deletion of empty
sessions at any point of a call: `TwoAreSpared` shows that what it deletes has two spared
rows above it, since it spares the two newest empty ones. A plan that saves a session as
the last one has the creation of another session before it and none after (`PlanFits`),
so the row saved has two rows above it when the past event has its session, and only then.
When that creation fails it has one: a second past event read that row as the session
before the last, numbered its event from it, and met the number of an event of the copy.
The property carries the exception `copied` for this, which the code has
(`AMAReporter.m:1004`). That the newest row exists, the CHOOSE of the model, rests on the
well-foundedness of the naturals (`MaximumExists`).

`ReporterSessionsCalmProofs` proves, under the same assumption, two of the properties about
`faults = {}` (no failed statement, no death within a call, no overlap of calls):

* `EventsKeepTheirSession`: `Spec => []EventsHaveSession`,
* `OnlyLastLives`: `Spec => []OneLiveSession`.

Neither is inductive: within a call a session may be ended and the next not yet created, or a
new row be above an unfinished one, and the cleaner acts between any two transactions. The
invariant `CalmInv` is about the plans. A plan that still creates a session either ends the
last one with the step in front, or finds it ended, or is going to save it again
(`CreatesAfterEnd`); one that still saves the last session has just created the row that is
now last (`SavesBehindNew`); and one that does neither only touches rows that have one kept
row above them at most (`InReach`), which the cleaner spares. In between only the row a
thread is about to save again is unfinished without being the last (`LiveRows`). The proofs
rest on `Sound` for what a session read by a call has to do with the table: the last session
is the last row (`LastIsAtHand`), an unfinished general session can only be that row
(`GeneralIsNear`), and the session before the last has one kept row above it
(`PreviousIsNear`).

`ReporterSessionsOnceProofs` goes on from `CalmInv` and proves the other two:

* `EndedSessionsHaveOneAlive`: `Spec => []EndedSessionsHaveAlive`,
* `InitIsReportedOnce`: `Spec => []InitReportedOnce`.

Both events are stored a step after what they are about, so the invariants say when one is
due. `AliveInv`: a session has its EVENT_ALIVE if it lived, none of its rows is unfinished,
and no thread is about to add the event; that no other step stands in front of it is
`InOrder`, from `PlanCalm`. A session saved as the last one keeps its state, since its old
row is finished and the copy takes its place (`UnendedIsLast`). `InitInv`: the EVENT_INIT is
stored if a general session has been started and the event is not due, and the flag is saved
if it is stored and the flag is not due. The start of a general session asks the flag in
memory, so two more facts are needed: only the executor starts general sessions
(`CallerInv`: what the thread of a past event creates is a finished background session), and
when it does, the flag in memory is the one in the database (`FlagsInv`: a launch acts only
after its setup has copied it). `RestIsNotDue`, `FrontIsDue` and `OpensNotDue` say what is
due when a plan goes on, gets a follow-up or begins.

**Only model-checked**: the liveness properties (`RoundEnds`, `ChainEnds`,
`ChainServesForced`, `UpdateEnds`, `EventsAreTried`, `ReachedCountAsks`), which are out
of the prover's reach. Every invariant and every action property of a passing run is the
statement of a theorem.

## What is left out of these modules

* Rows that cannot be deserialized are deleted when read; trimming deletes old
  events when there are too many. `NoLoss` and `EventOutbox` speak of the others.
* Sessions count toward the read limit even when they have no events;
  `RequestModels` sees sessions only through their events.
* In `ReportDelivery`, a URL request that cannot be built, for which the requestor
  never answers; `StartupController` has it.
* A crash in the middle of a block; crashes fall between blocks.
* The reasons for refusing a report (restriction, hosts, device identifier,
  attribution, network) are one nondeterministic refusal.
* The cleanup events that report what was purged, and the event logs.
* In `ReporterSessions`: dates and time stamps of sessions and events, the session
  update timer (its resume is one of the calls), global and per-type event numbers,
  open and attribution identifiers, profile, environment, extras, privacy. The many
  `report...` methods differ in the event they build and are the one action
  `ReportEvent`. Its cleaner and `ReportDelivery` are not composed: which events a
  request carried is a choice there.

* In `StartupController`: the contents of the configuration, identifiers but for their
  presence, attribution, the server time offset, the additional
  parameters of the request and the exponential delay, which is any delay.
* In `DispatchStrategies`: data sending restrictions, the conditions of the main and of
  the internal reporter (`AMAMainReportExecutionConditionChecker.m`,
  `AMASelfReportExecutionConditionChecker.m`), other keys, and deaths.

## Not modelled

* **Privacy timer, key-value storage, trimming**: in the plan below; each has a hazard
  in `PROJECT.json`.
* **Data sending restriction**: a table under one lock, whose effect is a refusal.
* **Crashes, attribution, revenue, profiles, identifiers, ID sync, location, adapters**:
  conversions of values and calls of system frameworks around the reporter.
* **C files and headers.** The program is written in Objective-C, in `.m` files, and
  that is where every definition of the map comes from. The repository's `.c` and `.h`
  files are generated protobuf code, the protobuf-c and FMDB libraries, and interface
  declarations: a share of the lines of those alone that is covered by the map is
  close to zero and says nothing about the core.

## Plan

What is left, in order of importance; each module with its runs and mutants.

1. `PrivacyTimer` with `AMAMultiTimer` and the cancelable executor: a started timer
   has a pending delay.
2. `CountersStorage`: the caching storage, delayed saves, counters with rollback,
   crash: a number is given once.
3. `Trimming`: the approximate count against the real one, and trimming beside a round
   of `ReportDelivery`.
4. An abstract specification of `ReporterSessions`: a log of numbered events by session.
