-------------------------- MODULE DispatchStrategies --------------------------
(***************************************************************************)
(* What makes AppMetrica report: the strategies of one API key             *)
(* (AMATimerDispatchStrategy, AMAEventCountDispatchStrategy and its urgent *)
(* subclass), AMADispatchStrategiesContainer, and the part of              *)
(* AMAAppMetricaImpl that turns their wishes into reports and restarts     *)
(* them afterwards.                                                        *)
(*                                                                         *)
(* Every strategy has a serial executor of its own, AMAAppMetricaImpl has  *)
(* one, and the reporter stores an event and then posts a notification on  *)
(* a third.  A step is a block of one of them, except two: the start of a  *)
(* counting strategy subscribes and counts in two steps, for the           *)
(* notification of an event may come in between, and the restart of the    *)
(* timer strategy posts its two blocks in two.                             *)
(*                                                                         *)
(* A round of reports and an update of the startup configuration are only  *)
(* begun and ended here: ReportDelivery, DispatchingController and         *)
(* StartupController say what happens in them.  Data sending is allowed.   *)
(***************************************************************************)
EXTENDS Naturals, Sequences, FiniteSets

CONSTANTS
  TypeMasks,      \* the typeMasks for which the factory makes strategies
  Kinds,          \* kinds of events that are reported
  Limits,         \* values of maxReportsCount
  Periods,        \* values of dispatchPeriod
  MaxEvents,      \* bound, by the strategies of the key: events
  MaxCalls,       \* bound: starts of AMAAppMetricaImpl and new configurations of the reporter
  MaxTasks        \* bound: tasks of AMAAppMetricaImpl beyond which the timer does not expire

Counting == {"count", "urgent"}
Types    == Counting \cup {"timer"}

ASSUME DispatchStrategiesAssumption ==
  /\ TypeMasks \subseteq SUBSET Types /\ TypeMasks # {}
  /\ Kinds \subseteq {"urgent", "ordinary", "cleanup"}
  /\ Limits \subseteq Nat /\ Limits # {}
  /\ Periods \subseteq Nat /\ Periods # {}
  /\ \A mask \in TypeMasks : MaxEvents[mask] \in Nat
  /\ MaxCalls \in Nat /\ MaxTasks \in Nat

VARIABLES
  types,         \* the strategies of the key
  events,        \* per kind: events in the database
  posting,       \* events that are stored and whose notification is not posted
  limit, period, \* maxReportsCount and dispatchPeriod of the key's configuration
  blocks,        \* per strategy: the blocks on its executor
  observers,     \* per counting strategy: its registrations for the notification
  maxCount, currentCount, dispatchScheduled,
  delay,         \* per counting strategy: the delay of 0.5 seconds runs
  isActive,      \* of the timer strategy
  alarm,         \* the delayed block of the timer strategy waits
  tasks,         \* the blocks on the executor of AMAAppMetricaImpl
  started,       \* AMADispatchingController is started
  requested,     \* the key waits in its queue
  reporting,     \* a round of reports of the key is under way
  upToDate, updating,  \* AMAStartupController
  asked,         \* history, per strategy: it asked for a report since the last event
  skipped,       \* history: a start did not count the events
  added, calls   \* counters for the bounds

config    == <<types, limit, period>>
counters  == <<maxCount, currentCount, dispatchScheduled>>
timer     == <<isActive, alarm>>
rounds    == <<requested, reporting>>
startup   == <<upToDate, updating>>
bounds    == <<added, calls>>
vars      == <<events, posting, config, blocks, observers, counters, delay, timer, tasks,
               started, rounds, startup, asked, skipped, bounds>>

Init ==
  /\ types \in TypeMasks
  /\ events = [k \in Kinds |-> 0]
  /\ posting = <<>>
  /\ limit \in Limits /\ period \in Periods
  /\ blocks = [s \in Types |-> <<>>]
  /\ observers = [s \in Counting |-> 0]
  /\ maxCount = [s \in Counting |-> 0]
  /\ currentCount = [s \in Counting |-> 0]
  /\ dispatchScheduled = [s \in Counting |-> FALSE]
  /\ delay = [s \in Counting |-> FALSE]
  /\ isActive = FALSE /\ alarm = FALSE
  /\ tasks = <<>>
  /\ started = FALSE
  /\ requested = FALSE /\ reporting = FALSE
  /\ upToDate \in BOOLEAN /\ updating = FALSE
  /\ asked = [s \in Types |-> FALSE]
  /\ skipped = FALSE
  /\ added = 0 /\ calls = 0

-----------------------------------------------------------------------------
(* Which events a strategy counts, and how many it waits for. *)

\* includedEventTypes and excludedEventTypes
Counts(s) == IF s = "urgent" THEN Kinds \cap {"urgent"} ELSE Kinds \ {"cleanup"}

\* eventsNumberNeededForDispatch; the batch size of the minimum is a Limits of its own
Needed(s) == IF s = "urgent" THEN 1 ELSE limit

\* currentEventsCount
EventsCount(s) ==
  LET Of(k) == IF k \in Counts(s) THEN events[k] ELSE 0
  IN  Of("urgent") + Of("ordinary")

Posted(s, block) == [blocks EXCEPT ![s] = Append(@, block)]

\* dispatchStrategyWantsReportingToHappen: posts to the executor of AMAAppMetricaImpl.
TriggerDispatch(s) ==
  /\ tasks' = Append(tasks, <<"wants", s>>)
  /\ asked' = [asked EXCEPT ![s] = TRUE]

NoTrigger == UNCHANGED <<tasks, asked>>

TriggerIf(s, reached) == IF reached THEN TriggerDispatch(s) ELSE NoTrigger

-----------------------------------------------------------------------------
(* The counting strategies. *)

IsHead(s, block) == blocks[s] # <<>> /\ Head(blocks[s]) = block
WithoutHead(s)   == [blocks EXCEPT ![s] = Tail(@)]

(* The block of -start: first it subscribes, then it counts the events, unless
   a delayed dispatch is on its way. *)
StartSubscribe(s) ==
  /\ IsHead(s, "start")
  /\ maxCount' = [maxCount EXCEPT ![s] = Needed(s)]
  /\ observers' = IF Needed(s) > 0 THEN [observers EXCEPT ![s] = @ + 1] ELSE observers
  /\ blocks' = [blocks EXCEPT ![s] = <<"recount">> \o Tail(@)]
  /\ UNCHANGED <<events, posting, config, currentCount, dispatchScheduled, delay, timer, tasks,
                 started, rounds, startup, asked, skipped, bounds>>

StartWithoutCount(s) ==
  /\ IsHead(s, "recount")
  /\ NoTrigger
  /\ blocks' = WithoutHead(s)
  /\ UNCHANGED <<events, posting, config, observers, counters, delay, timer, started, rounds,
                 startup, skipped, bounds>>

\* triggerDispatchWithUpdatedCount
StartRecount(s) ==
  /\ IsHead(s, "recount")
  /\ IF maxCount[s] > 0 /\ ~dispatchScheduled[s]
     THEN /\ currentCount' = [currentCount EXCEPT ![s] = EventsCount(s)]
          /\ TriggerIf(s, EventsCount(s) >= maxCount[s])
     ELSE UNCHANGED currentCount /\ NoTrigger
  /\ skipped' = (skipped \/ dispatchScheduled[s])
  /\ blocks' = WithoutHead(s)
  /\ UNCHANGED <<events, posting, config, observers, maxCount, dispatchScheduled, delay, timer,
                 started, rounds, startup, bounds>>

(* handleSessionDidAddEventNotification: and updateEventsCount *)
EventAdded(s) ==
  /\ \E k \in Kinds :
       /\ IsHead(s, k)
       /\ IF k \in Counts(s)
          THEN /\ currentCount' = [currentCount EXCEPT ![s] = @ + 1]
               /\ dispatchScheduled' = [dispatchScheduled EXCEPT ![s] = TRUE]
               /\ delay' = [delay EXCEPT ![s] = @ \/ ~dispatchScheduled[s]]
          ELSE UNCHANGED <<currentCount, dispatchScheduled, delay>>
  /\ blocks' = WithoutHead(s)
  /\ UNCHANGED <<events, posting, config, observers, maxCount, timer, tasks, started, rounds,
                 startup, asked, skipped, bounds>>

DelayExpires(s) ==
  /\ delay[s]
  /\ delay' = [delay EXCEPT ![s] = FALSE]
  /\ blocks' = Posted(s, "dispatch")
  /\ UNCHANGED <<events, posting, config, observers, counters, timer, tasks, started, rounds,
                 startup, asked, skipped, bounds>>

DelayedDispatchKeptScheduled(s) ==
  /\ IsHead(s, "dispatch")
  /\ TriggerIf(s, maxCount[s] > 0 /\ currentCount[s] >= maxCount[s])
  /\ blocks' = WithoutHead(s)
  /\ UNCHANGED <<events, posting, config, observers, counters, delay, timer, started, rounds,
                 startup, skipped, bounds>>

DelayedDispatch(s) ==
  /\ IsHead(s, "dispatch")
  /\ dispatchScheduled' = [dispatchScheduled EXCEPT ![s] = FALSE]
  /\ TriggerIf(s, maxCount[s] > 0 /\ currentCount[s] >= maxCount[s])
  /\ blocks' = WithoutHead(s)
  /\ UNCHANGED <<events, posting, config, observers, maxCount, currentCount, delay, timer,
                 started, rounds, startup, skipped, bounds>>

-----------------------------------------------------------------------------
(* The timer strategy.  Cancelling its delayed block also keeps one that is due
   from running: its timer source is cancelled, and there is nothing to do. *)

NotFired(q) == [i \in DOMAIN q |-> IF q[i] = "fire" THEN "void" ELSE q[i]]

TimerCancelled ==
  /\ IsHead("timer", "void")
  /\ blocks' = WithoutHead("timer")
  /\ UNCHANGED <<events, posting, config, observers, counters, delay, timer, tasks, started,
                 rounds, startup, asked, skipped, bounds>>

\* The block of -restart posts two blocks; those of other threads may come in between.
TimerRestart ==
  /\ IsHead("timer", "restart")
  /\ blocks' = [blocks EXCEPT !["timer"] = Append([@ EXCEPT ![1] = "restarting"], "shutdown")]
  /\ UNCHANGED <<events, posting, config, observers, counters, delay, timer, tasks, started,
                 rounds, startup, asked, skipped, bounds>>

TimerRestartEnds ==
  /\ IsHead("timer", "restarting")
  /\ blocks' = [blocks EXCEPT !["timer"] = Append(Tail(@), "start")]
  /\ UNCHANGED <<events, posting, config, observers, counters, delay, timer, tasks, started,
                 rounds, startup, asked, skipped, bounds>>

TimerShutdownStillActive ==
  /\ IsHead("timer", "shutdown")
  /\ alarm' = FALSE
  /\ blocks' = [blocks EXCEPT !["timer"] = NotFired(Tail(@))]
  /\ UNCHANGED <<events, posting, config, observers, counters, delay, isActive, tasks, started,
                 rounds, startup, asked, skipped, bounds>>

TimerShutdown ==
  /\ IsHead("timer", "shutdown")
  /\ isActive' = FALSE /\ alarm' = FALSE
  /\ blocks' = [blocks EXCEPT !["timer"] = NotFired(Tail(@))]
  /\ UNCHANGED <<events, posting, config, observers, counters, delay, tasks, started, rounds,
                 startup, asked, skipped, bounds>>

TimerStart ==
  /\ IsHead("timer", "start")
  /\ isActive' = (period > 0)
  /\ alarm' = (period > 0 /\ (alarm \/ ~isActive))
  /\ blocks' = [blocks EXCEPT !["timer"] = IF period > 0 THEN Tail(@) ELSE NotFired(Tail(@))]
  /\ UNCHANGED <<events, posting, config, observers, counters, delay, tasks, started, rounds,
                 startup, asked, skipped, bounds>>

(* Bound: the period is long compared to the tasks of AMAAppMetricaImpl. *)
AlarmExpires ==
  /\ alarm
  /\ Len(tasks) < MaxTasks
  /\ alarm' = FALSE
  /\ blocks' = Posted("timer", "fire")
  /\ UNCHANGED <<events, posting, config, observers, counters, delay, isActive, tasks, started,
                 rounds, startup, asked, skipped, bounds>>

TimerFiredOnce ==
  /\ IsHead("timer", "fire")
  /\ TriggerDispatch("timer")
  /\ blocks' = WithoutHead("timer")
  /\ UNCHANGED <<events, posting, config, observers, counters, delay, timer, started, rounds,
                 startup, skipped, bounds>>

TimerFired ==
  /\ IsHead("timer", "fire")
  /\ TriggerDispatch("timer")
  /\ blocks' = [blocks EXCEPT !["timer"] = Append(Tail(@), "restart")]
  /\ UNCHANGED <<events, posting, config, observers, counters, delay, timer, started, rounds,
                 startup, skipped, bounds>>

-----------------------------------------------------------------------------
(* The executor of AMAAppMetricaImpl and the container.  -restart of a counting
   strategy unsubscribes at once and posts its start; the timer strategy posts
   everything. *)

UnsubscribedOnce == [s \in Counting |-> IF maxCount[s] > 0 THEN observers[s] - 1 ELSE observers[s]]

Unsubscribed == [s \in Counting |-> IF maxCount[s] > 0 THEN 0 ELSE observers[s]]

RestartAll ==
  /\ observers' = Unsubscribed
  /\ blocks' = [s \in Types |->
       IF s \notin types THEN blocks[s]
       ELSE IF s = "timer" THEN Append(blocks[s], "restart") ELSE Append(blocks[s], "start")]

ShutdownAll ==
  /\ observers' = Unsubscribed
  /\ blocks' = [s \in Types |->
       IF s \in types \cap {"timer"} THEN Append(blocks[s], "shutdown") ELSE blocks[s]]

\* -start: two blocks, posted one after the other, for the dispatching controller and
\* the strategies; a start that waits longer among the tasks is one made later.
Start ==
  /\ calls < MaxCalls
  /\ calls' = calls + 1
  /\ started' = TRUE
  /\ RestartAll
  /\ UNCHANGED <<events, posting, config, counters, delay, timer, tasks, rounds, startup, asked,
                 skipped, added>>

\* -shutdown, likewise
Shutdown ==
  /\ started
  /\ started' = FALSE
  /\ ShutdownAll
  /\ UNCHANGED <<events, posting, config, counters, delay, timer, tasks, rounds, startup, asked,
                 skipped, bounds>>

\* The configuration is replaced, and handleConfigurationUpdate posted.
Configure ==
  /\ calls < MaxCalls
  /\ calls' = calls + 1
  /\ types' = types /\ limit' \in Limits /\ period' \in Periods
  /\ <<limit', period'>> # <<limit, period>>
  /\ tasks' = Append(tasks, <<"restart">>)
  /\ UNCHANGED <<events, posting, blocks, observers, counters, delay, timer, started, rounds,
                 startup, asked, skipped, added>>

(* dispatchMoreIfNeeded, dispatchMoreIfNeededForApiKey: and
   handleConfigurationUpdate, as far as this key goes *)
Restart ==
  /\ tasks # <<>> /\ Head(tasks) = <<"restart">>
  /\ tasks' = Tail(tasks)
  /\ RestartAll
  /\ UNCHANGED <<events, posting, config, counters, delay, timer, started, rounds, startup,
                 asked, skipped, bounds>>

\* The rest of dispatchStrategyWantsReportingToHappen:, with canBeExecuted: and
\* the push of performReportForApiKey:forced:, which drops the key when not started.
WantsReporting ==
  /\ tasks # <<>> /\ Head(tasks)[1] = "wants"
  /\ tasks' = Tail(tasks)
  /\ updating' = (updating \/ ~upToDate)
  /\ requested' = (requested \/ (upToDate /\ started))
  /\ UNCHANGED <<events, posting, config, blocks, observers, counters, delay, timer, started,
                 reporting, upToDate, asked, skipped, bounds>>

-----------------------------------------------------------------------------
(* The reporter, the reports and the startup update. *)

AddEvent ==
  /\ added < MaxEvents[types]
  /\ added' = added + 1
  /\ posting = <<>>
  /\ \E k \in Kinds :
       /\ events' = [events EXCEPT ![k] = @ + 1]
       /\ posting' = <<k>>
       /\ asked' = [s \in Types |-> asked[s] /\ s \in Counting /\ k \notin Counts(s)]
  /\ UNCHANGED <<config, blocks, observers, counters, delay, timer, tasks, started, rounds,
                 startup, skipped, calls>>

\* Every registration gets the notification.
NotifyEventAdded ==
  /\ posting # <<>>
  /\ posting' = <<>>
  /\ blocks' = [s \in Types |->
       IF s = "timer" THEN blocks[s]
       ELSE blocks[s] \o [i \in 1..observers[s] |-> Head(posting)]]
  /\ UNCHANGED <<events, config, observers, counters, delay, timer, tasks, started, rounds,
                 startup, asked, skipped, bounds>>

BeginRound ==
  /\ requested /\ ~reporting
  /\ requested' = FALSE
  /\ reporting' = (\E k \in Kinds : events[k] > 0)
  /\ UNCHANGED <<events, posting, config, blocks, observers, counters, delay, timer, tasks,
                 started, startup, asked, skipped, bounds>>

\* What a round has deleted; events of one kind go together here.
PurgeSome ==
  \E purged \in SUBSET Kinds : events' = [k \in Kinds |-> IF k \in purged THEN 0 ELSE events[k]]

\* dispatcherDidPerformReport:; that a deletion fails is left to ReportDelivery.
RoundSucceeds ==
  /\ reporting
  /\ reporting' = FALSE
  /\ PurgeSome /\ events' # events
  /\ tasks' = Append(tasks, <<"restart">>)
  /\ UNCHANGED <<posting, config, blocks, observers, counters, delay, timer, started, requested,
                 startup, asked, skipped, bounds>>

(* dispatcher:didFailToReportWithError:, whose block calls -update when hosts or
   the device ID are missing.  A failed round may have purged events, too. *)
RoundFails ==
  /\ reporting
  /\ reporting' = FALSE
  /\ PurgeSome
  /\ updating' \in {updating, updating \/ ~upToDate}
  /\ UNCHANGED <<posting, config, blocks, observers, counters, delay, timer, tasks,
                 started, requested, upToDate, asked, skipped, bounds>>

StartupSucceeds ==
  /\ updating
  /\ updating' = FALSE /\ upToDate' = TRUE
  /\ tasks' = Append(tasks, <<"restart">>)
  /\ UNCHANGED <<events, posting, config, blocks, observers, counters, delay, timer, started,
                 rounds, asked, skipped, bounds>>

StartupFails ==
  /\ updating
  /\ updating' = FALSE
  /\ UNCHANGED <<events, posting, config, blocks, observers, counters, delay, timer, tasks,
                 started, rounds, upToDate, asked, skipped, bounds>>

-----------------------------------------------------------------------------
CountingBlock(s) == StartSubscribe(s) \/ StartRecount(s) \/ EventAdded(s) \/ DelayedDispatch(s)
TimerBlock       ==
  \/ TimerRestart \/ TimerRestartEnds
  \/ TimerShutdown \/ TimerStart \/ TimerFired \/ TimerCancelled
Task             == Restart \/ WantsReporting
RoundEnds        == RoundSucceeds \/ RoundFails
UpdateEnds       == StartupSucceeds \/ StartupFails

Next ==
  \/ \E s \in Counting : CountingBlock(s) \/ DelayExpires(s)
  \/ TimerBlock \/ AlarmExpires
  \/ Task
  \/ Start \/ Shutdown \/ Configure
  \/ AddEvent \/ NotifyEventAdded
  \/ BeginRound \/ RoundEnds
  \/ UpdateEnds

Spec == Init /\ [][Next]_vars

(* Executors run their blocks, delays expire, rounds and updates end
   (ReportDelivery's RoundEnds, StartupController's UpdateEnds). *)
Fairness ==
  /\ \A s \in Counting : WF_vars(CountingBlock(s)) /\ WF_vars(DelayExpires(s))
  /\ WF_vars(TimerBlock) /\ WF_vars(AlarmExpires)
  /\ WF_vars(Task)
  /\ WF_vars(NotifyEventAdded)
  /\ WF_vars(BeginRound) /\ WF_vars(RoundEnds) /\ WF_vars(UpdateEnds)

FairSpec == Spec /\ Fairness

-----------------------------------------------------------------------------
TypeOK ==
  /\ types \in TypeMasks
  /\ events \in [Kinds -> 0..added]
  /\ posting \in Seq(Kinds) /\ Len(posting) <= 1
  /\ limit \in Limits /\ period \in Periods
  /\ \A s \in Types : blocks[s] \in
       Seq(IF s = "timer" THEN {"restart", "restarting", "shutdown", "start", "fire", "void"}
           ELSE Kinds \cup {"start", "recount", "dispatch"})
  /\ observers \in [Counting -> Nat]
  /\ maxCount \in [Counting -> Nat] /\ currentCount \in [Counting -> Nat]
  /\ dispatchScheduled \in [Counting -> BOOLEAN] /\ delay \in [Counting -> BOOLEAN]
  /\ {isActive, alarm, started, requested, reporting, upToDate, updating, skipped} \subseteq BOOLEAN
  /\ tasks \in Seq({<<"restart">>} \cup ({"wants"} \X Types))
  /\ asked \in [Types -> BOOLEAN]

(* The assertion "The timer has already been set!" of -start never fails,
   whoever restarts or shuts the strategy down in between. *)
TimerSetOnce ==
  IsHead("timer", "start") /\ period > 0 => ~isActive

(* The delayed dispatch of a counting strategy is marked for exactly as long as
   it is on its way: marked for longer, the strategy would neither ask nor count
   again. *)
ScheduledIsOnItsWay ==
  \A s \in Counting :
    dispatchScheduled[s] <=> delay[s] \/ \E i \in DOMAIN blocks[s] : blocks[s][i] = "dispatch"

(* An active timer is on its way or about to be set again. *)
ActiveTimerTicks ==
  isActive =>
    \/ alarm
    \/ \E i \in DOMAIN blocks["timer"] :
         blocks["timer"][i] \in {"fire", "restart", "restarting", "start"}

\* how many of the blocks or events in q the strategy s counts
Coming(q, s) == Cardinality({i \in DOMAIN q : q[i] \in Counts(s)})

(* A counting strategy that listens has counted every stored event, but for
   those whose notification is on its way: an event that comes while the
   strategy starts is not missed, since it subscribes before it counts.  The
   exception is a start that does not count because a delayed dispatch is
   scheduled: what came between its two halves stays uncounted. *)
CountCoversEvents ==
  \A s \in Counting :
    \/ skipped
    \/ observers[s] = 0
    \/ IsHead(s, "recount")
    \/ EventsCount(s) <= currentCount[s] + Coming(blocks[s], s) + Coming(posting, s)

(* With a timer, events are not left alone: as long as AppMetrica is started,
   there is again and again a round of reports or an update of the startup
   configuration, whatever failed before. *)
EventsAreTried ==
  (\E k \in Kinds : events[k] > 0) /\ started /\ period > 0 /\ "timer" \in types
    ~> reporting \/ updating \/ ~started \/ period = 0

(* "Events dispatch is triggered when events count reaches maxReportsCount"
   (AMAReporterConfiguration.h), for events that no counting strategy has asked
   to report since the last of them was stored: restarts, rounds and new limits
   may come in between.  Nothing is promised after a start that did not count. *)
ReachedCountAsks ==
  \A s \in Counting :
    s \in types /\ started /\ Needed(s) > 0 /\ EventsCount(s) >= Needed(s)
      ~> asked[s] \/ skipped \/ ~started \/ EventsCount(s) < Needed(s)
=============================================================================
