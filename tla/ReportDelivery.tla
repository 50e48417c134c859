---------------------------- MODULE ReportDelivery ----------------------------
(***************************************************************************)
(* The delivery of the stored events of one API key: AMADispatcher, the    *)
(* AMAProxyReportsController it owns, and the two AMAReportsControllers    *)
(* behind the proxy, one for regular events and one for tracking events.   *)
(*                                                                         *)
(* The four objects share one serial executor.  Its pending blocks are the *)
(* sequence "executor"; a block runs to its end before the next one, and   *)
(* what it posts goes to the end.  The network replies and the callers of  *)
(* the dispatching controller interleave with the blocks.                  *)
(***************************************************************************)
EXTENDS RequestModels

CONSTANTS
  Hosts,        \* numbers of hosts the configuration may list for each controller
  NamelessHosts, \* whether the lists of hosts may hold an empty string
  DeletionMayFail, \* whether the database may fail to delete purged events
  MaxCalls,     \* bound: performReportForApiKey:forced: calls
  MaxShutdowns, \* bound: shutdowns of the dispatching controller
  MaxRestarts   \* bound: crashes and relaunches of the process

Controllers == {"regular", "tracking"}

ASSUME ReportDeliveryAssumption ==
  /\ Hosts \in [Controllers -> SUBSET Nat]
  /\ NamelessHosts \in BOOLEAN
  /\ DeletionMayFail \in BOOLEAN
  /\ MaxCalls \in Nat
  /\ MaxShutdowns \in Nat
  /\ MaxRestarts \in Nat

VARIABLES
  stored,      \* events in the database of the API key
  requestID,   \* AMAReporterStateStorage.requestIDStorage, shared by both controllers
  executor,    \* blocks waiting on the executor, the next one first
  controller,  \* state of each AMAReportsController
  proxyState,  \* AMAProxyReportsController.regularState and trackingState
  denied,      \* the timeout policy of the host type denies requests (it outlives the process)
  queued,      \* the API key waits in the dispatching controller's queue
  isWorking,   \* AMADispatchingController.isWorking
  added,       \* history: events the reporter ever stored
  answers,     \* history: definite answers of the servers, with the model answered
  lastAck,     \* history: the identifier that a server acknowledged last, of each controller
  lostAck,     \* history: an identifier whose acknowledgement was lost with the process, or 0
  lastPurge,   \* history: last purge for an error: the model that failed, the model purged
  calls, shutdowns, restarts   \* counters for the bounds

memory  == <<executor, controller, proxyState, queued, isWorking>>
history == <<added, answers, lastAck, lostAck, lastPurge>>
bounds  == <<calls, shutdowns, restarts>>
vars    == <<stored, requestID, denied, memory, history, bounds>>

NoRequest == [model |-> NoModel, id |-> 0]
NoPurge   == [failed |-> NoModel, purged |-> NoModel]

\* What ends an HTTP request: 200 with an accepted or another status in its
\* body, 400, 413, and any other status code or transport error.
Replies  == {"accepted", "unknown", "badRequest", "tooLarge", "failure"}
Definite == {"accepted", "badRequest", "tooLarge"}

IdleController ==
  [inProgress |-> FALSE, retry |-> FALSE, models |-> <<>>, request |-> NoRequest,
   requestor |-> "none", hostsLeft |-> 0]

ControllerState ==
  [inProgress : BOOLEAN,                        \* inProgress
   retry      : BOOLEAN,                        \* isRetryAllowed
   models     : Seq(Model),                     \* requestModels
   request    : [model : Model, id : Nat],      \* reportRequest: payload model and identifier
   requestor  : {"none", "waiting", "answered"},\* currentHTTPRequestor, and whether its reply is posted
   hostsLeft  : Nat]                            \* hosts after the one the provider is at

\* The blocks posted to the executor.
Perform         == [kind |-> "perform"]          \* -[AMADispatcher performReport]
CancelPending   == [kind |-> "cancelPending"]    \* -[AMADispatcher cancelPending]
Callback        == [kind |-> "callback"]         \* the dispatcher tells its delegate how a round ended
AppendTo(c, ms) == [kind |-> "append", ctl |-> c, models |-> ms]
CancelOf(c)     == [kind |-> "cancel", ctl |-> c]
ReplyTo(c, r)   == [kind |-> "reply", ctl |-> c, reply |-> r]

Block ==
  {Perform, CancelPending, Callback}
  \cup [kind : {"append"}, ctl : Controllers, models : Seq(Model)]
  \cup [kind : {"cancel"}, ctl : Controllers]
  \cup [kind : {"reply"}, ctl : Controllers, reply : Replies]

Init ==
  /\ stored = {}
  /\ requestID = 1
  /\ executor = <<>>
  /\ controller = [c \in Controllers |-> IdleController]
  /\ proxyState = [c \in Controllers |-> "NotStarted"]
  /\ denied = [c \in Controllers |-> FALSE]
  /\ queued = FALSE
  /\ isWorking = FALSE
  /\ added = {}
  /\ answers = {}
  /\ lastAck = [c \in Controllers |-> 0]
  /\ lostAck = [c \in Controllers |-> 0]
  /\ lastPurge = NoPurge
  /\ calls = 0 /\ shutdowns = 0 /\ restarts = 0

-----------------------------------------------------------------------------
(* A running block is the head of the executor: it leaves, and what it posts
   is appended. *)
Running(kind) == executor # <<>> /\ Head(executor).kind = kind
Post(blocks)  == executor' = Tail(executor) \o blocks
Set(c, s)     == controller' = [controller EXCEPT ![c] = s]

(* -complete: the state it leaves, and the block it posts to clear the queue. *)
CompletedInProgress(s) == [s EXCEPT !.request = NoRequest, !.requestor = "none"]

Completed(s) ==
  [s EXCEPT !.inProgress = FALSE, !.request = NoRequest, !.requestor = "none"]

CompletePostsNothing(c) == <<>>
CompletePosts(c)        == <<CancelOf(c)>>

(* The error codes after which AMADispatcher purges the model it is given. *)
PurgingAnyError == {"BadRequest", "RequestEntityTooLarge", "Other"}
Purging         == {"BadRequest", "RequestEntityTooLarge"}

(* -purgeSessionWithRequestModel:reason: what it leaves of the events db.  A
   failed deletion is only logged. *)
AfterPurge(db, m) == {db \ m.events} \cup (IF DeletionMayFail THEN {db} ELSE {})

(* -handleRequestMarkedComplete: takes the next request identifier. *)
SameIdentifier(id) == id
NextIdentifier(id) == id + 1

(* The first request model leaves the queue. *)
NotDequeued(s) == s
Dequeued(s)    == [s EXCEPT !.models = Tail(@)]

(* -next of the host provider. *)
HasNextHostOrOneMore(s) == s.hostsLeft >= 0
HasNextHost(s)          == s.hostsLeft > 0

OnSameHost(s) == s
OnNextHost(s) == [s EXCEPT !.hostsLeft = @ - 1]

(* -completeWithError: of controller c in state s, and the dispatcher's
   reportsController:didFailRequest:withError:, which the proxy forwards.
   "passed" is the model handed to the dispatcher, "failed" the one that
   failed; db and id are the stored events and the request identifier when
   it is called. *)
CompleteWithError(c, s, code, passed, failed, db, id) ==
  /\ Set(c, Completed(s))
  /\ Post(CompletePosts(c) \o <<Callback>>)
  /\ IF code \in Purging
     THEN /\ stored' \in AfterPurge(db, passed)
          /\ requestID' = NextIdentifier(id)
          /\ lastPurge' = [failed |-> failed, purged |-> passed]
     ELSE /\ stored' = db
          /\ requestID' = id
          /\ UNCHANGED lastPurge
  /\ UNCHANGED proxyState

(* The code a payload error becomes in -handlePayloadProviderError:. *)
ControllerError(payloadError) ==
  IF payloadError = "AllSessionsAreEmpty" THEN "BadRequest" ELSE "Other"

(* reportsControllerDidFinishWithSuccess: of the proxy, after -complete: the
   dispatcher is told when neither controller is in progress. *)
DidFinishWithSuccess(c) ==
  LET after == [proxyState EXCEPT ![c] = "Completed"] IN
  /\ proxyState' = after
  /\ Post(CompletePosts(c) \o
          IF \A d \in Controllers : after[d] # "InProgress" THEN <<Callback>> ELSE <<>>)

(* -performNextRequest of controller c in state s. *)
PerformNextRequest(c, s, db, id) ==
  \/ /\ s.models = <<>>
     /\ Set(c, Completed(s))
     /\ DidFinishWithSuccess(c)
     /\ stored' = db /\ requestID' = id
     /\ UNCHANGED lastPurge
  \/ /\ s.models # <<>>
     /\ denied'[c]
     /\ CompleteWithError(c, s, "Timeout", s.request.model, Head(s.models), db, id)
  \/ /\ s.models # <<>>
     /\ ~denied'[c]
     /\ \E payload \in Payloads(Head(s.models)), hosts \in Hosts[c] :
          LET taken == Dequeued(s) IN
          \/ /\ payload.error # "None"
             /\ CompleteWithError(c, taken, ControllerError(payload.error),
                                  s.request.model, Head(s.models), db, id)
          \/ /\ payload.error = "None"
             /\ hosts = 0 \/ NamelessHosts     \* -completeWithRequestCreationError
             /\ CompleteWithError(c, taken, "Other", s.request.model, Head(s.models), db, id)
          \/ /\ payload.error = "None"
             /\ hosts > 0
             /\ Set(c, [taken EXCEPT !.request = [model |-> payload.model, id |-> id],
                                     !.requestor = "waiting", !.retry = TRUE, !.hostsLeft = hosts - 1])
             /\ Post(<<>>)
             /\ stored' = db /\ requestID' = id
             /\ UNCHANGED <<proxyState, lastPurge>>

(* -restartCurrentRequest of controller c in state s: the same request, sent
   to the host the provider is at; a host it has just moved to may have no name.
   A controller that restarts has a request: only a finished one has none. *)
RestartCurrentRequest(c, s) ==
  \/ /\ denied'[c]
     /\ CompleteWithError(c, s, "Timeout", s.request.model, s.request.model, stored, requestID)
  \/ /\ ~denied'[c]
     /\ NamelessHosts /\ s.hostsLeft # controller[c].hostsLeft
     /\ CompleteWithError(c, s, "Other", s.request.model, s.request.model, stored, requestID)
  \/ /\ ~denied'[c]
     /\ Set(c, [s EXCEPT !.requestor = "waiting"])
     /\ Post(<<>>)
     /\ UNCHANGED <<stored, requestID, proxyState, lastPurge>>

(* -retryIfPossibleWithHostProvider:fallbackError: with a host provider.
   Running out of hosts with error Other is reported to the timeout policy. *)
RetryOnNextHost(c, code) ==
  LET s == controller[c]
      Fail == CompleteWithError(c, s, code, s.request.model, s.request.model, stored, requestID)
  IN  \/ ~s.retry /\ Fail /\ UNCHANGED denied
      \/ /\ s.retry /\ HasNextHost(s)
         /\ UNCHANGED denied
         /\ RestartCurrentRequest(c, OnNextHost(s))
      \/ /\ s.retry /\ ~HasNextHost(s)
         /\ denied' = [denied EXCEPT ![c] = @ \/ code = "Other"]
         /\ Fail

(* -splitCurrentRequest: the first part takes the place of the request and
   keeps its identifier, the second one goes to the head of the queue.  When
   its payload cannot be made the request has no model any more. *)
SplitCurrentRequest(c) ==
  LET s     == controller[c]
      parts == SplitRequestModel(s.request.model)
      TooLarge(t) == CompleteWithError(c, t, "RequestEntityTooLarge", t.request.model,
                                       t.request.model, stored, requestID)
  IN  \/ Len(parts) = 1 /\ TooLarge(s)
      \/ /\ Len(parts) = 2
         /\ \E payload \in Payloads(parts[1]) :
              LET t == [s EXCEPT !.models = <<parts[2]>> \o s.models,
                                 !.request.model = payload.model]
              IN  \/ /\ payload.error # "None"
                     /\ CompleteWithError(c, t, ControllerError(payload.error),
                                          NoModel, parts[1], stored, requestID)
                  \/ payload.error = "None" /\ ~s.retry /\ TooLarge(t)
                  \/ payload.error = "None" /\ s.retry /\ RestartCurrentRequest(c, t)

-----------------------------------------------------------------------------
(* -[AMADispatchingController performNextReport] for this API key: a queued
   key is popped; it is reported unless it was not forced and the controller
   is shut down.  "posts" is what the calling block has posted so far. *)
PerformNextReport(onExecutor) ==
  \/ /\ queued
     /\ queued' = FALSE
     /\ executor' = Append(onExecutor, Perform)
     /\ UNCHANGED isWorking
  \/ /\ queued' = FALSE
     /\ executor' = onExecutor
     /\ isWorking' = FALSE

(* -performReportForApiKey:forced: called by a strategy or by the user. *)
PerformReportForApiKey ==
  /\ calls < MaxCalls
  /\ calls' = calls + 1
  /\ \/ /\ isWorking
        /\ queued' = TRUE
        /\ UNCHANGED <<executor, isWorking>>
     \/ /\ ~isWorking
        /\ queued' = FALSE
        /\ \/ isWorking' = TRUE /\ executor' = Append(executor, Perform)
           \/ UNCHANGED <<executor, isWorking>>
  /\ UNCHANGED <<stored, requestID, denied, controller, proxyState, history, shutdowns, restarts>>

(* The dispatcher's delegate callback: the controller goes on with its queue. *)
RunCallback ==
  /\ Running("callback")
  /\ PerformNextReport(Tail(executor))
  /\ UNCHANGED <<stored, requestID, denied, controller, proxyState, history, bounds>>

(* -performSyncReport: it may be refused (data sending restricted, no host, no
   device identifier, attribution not checked, no network), or find nothing to
   send; both call the delegate at once.  Otherwise the proxy hands the models
   to its controllers. *)
RunPerform ==
  /\ Running("perform")
  /\ \/ PerformNextReport(Tail(executor)) /\ UNCHANGED proxyState
     \/ LET collected == Collected(stored)
            tracking  == TrackingModels(collected)
            ForTracking ==
              IF tracking = <<>> THEN <<>> ELSE <<AppendTo("tracking", tracking)>>
        IN  /\ collected # {}
            /\ proxyState' = [regular  |-> "InProgress",
                              tracking |-> IF tracking = <<>> THEN "Completed" ELSE "InProgress"]
            /\ Post(<<AppendTo("regular", RegularModels(collected))>> \o ForTracking)
            /\ UNCHANGED <<queued, isWorking>>
  /\ UNCHANGED <<stored, requestID, denied, controller, history, bounds>>

(* The block of -reportRequestModelsFromArray:. *)
RunAppend ==
  /\ Running("append")
  /\ LET c == Head(executor).ctl
         s == [controller[c] EXCEPT !.models = @ \o Head(executor).models]
     IN  \/ /\ s.inProgress
            /\ Set(c, s)
            /\ Post(<<>>)
            /\ UNCHANGED <<stored, requestID, denied, proxyState, lastPurge>>
         \/ /\ ~s.inProgress
            /\ UNCHANGED denied
            /\ PerformNextRequest(c, [s EXCEPT !.inProgress = TRUE], stored, requestID)
  /\ UNCHANGED <<queued, isWorking, added, answers, lastAck, lostAck, bounds>>

(* The block of -cancelPendingRequests. *)
RunCancel ==
  /\ Running("cancel")
  /\ LET c == Head(executor).ctl IN
     Set(c, [controller[c] EXCEPT !.retry = FALSE, !.models = <<>>])
  /\ Post(<<>>)
  /\ UNCHANGED <<stored, requestID, denied, proxyState, queued, isWorking, history, bounds>>

(* The block of -[AMADispatcher cancelPending]; the proxy cancels both. *)
RunCancelPending ==
  /\ Running("cancelPending")
  /\ Post(<<CancelOf("regular"), CancelOf("tracking")>>)
  /\ UNCHANGED <<stored, requestID, denied, controller, proxyState, queued, isWorking,
                 history, bounds>>

-----------------------------------------------------------------------------
(* The AMAHTTPRequestDelegate methods, run by the block that the requestor of
   a controller posted.  A definite answer clears the timeout policy. *)
ReplyOf(c, r) == Running("reply") /\ Head(executor) = ReplyTo(c, r)

ReplyRest == UNCHANGED <<queued, isWorking, added, answers, lastAck, bounds>>

(* 200, accepted: the dispatcher purges the model and takes the next request
   identifier, and the controller goes on with its queue. *)
DidReportRequest(c) ==
  /\ ReplyOf(c, "accepted")
  /\ denied' = [denied EXCEPT ![c] = FALSE]
  /\ LET s == controller[c] IN
     /\ lostAck' = [lostAck EXCEPT ![c] = 0]
     /\ \E db \in AfterPurge(stored, s.request.model) :
          PerformNextRequest(c, s, db, NextIdentifier(requestID))
  /\ ReplyRest

(* 200 with another status. *)
UnknownStatus(c) ==
  /\ ReplyOf(c, "unknown")
  /\ LET s == controller[c]
         Fail == CompleteWithError(c, s, "JsonStatusUnknown", s.request.model,
                                   s.request.model, stored, requestID)
     IN  /\ denied' = [denied EXCEPT ![c] = FALSE]
         /\ \/ s.retry /\ HasNextHost(s) /\ RestartCurrentRequest(c, OnNextHost(s))
            \/ ~(s.retry /\ HasNextHost(s)) /\ Fail
  /\ UNCHANGED lostAck
  /\ ReplyRest

BadRequest(c) ==
  /\ ReplyOf(c, "badRequest")
  /\ denied' = [denied EXCEPT ![c] = FALSE]
  /\ LET s == controller[c] IN
     CompleteWithError(c, s, "BadRequest", s.request.model, s.request.model, stored, requestID)
  /\ UNCHANGED lostAck
  /\ ReplyRest

EntityTooLarge(c) ==
  /\ ReplyOf(c, "tooLarge")
  /\ denied' = [denied EXCEPT ![c] = FALSE]
  /\ SplitCurrentRequest(c)
  /\ UNCHANGED lostAck
  /\ ReplyRest

RequestFailed(c) ==
  /\ ReplyOf(c, "failure")
  /\ RetryOnNextHost(c, "Other")
  /\ UNCHANGED lostAck
  /\ ReplyRest

-----------------------------------------------------------------------------
(* The environment. *)

(* The reporter stores an event. *)
AddEvent(e) ==
  /\ e \notin added
  /\ added' = added \cup {e}
  /\ stored' = stored \cup {e}
  /\ UNCHANGED <<requestID, denied, memory, answers, lastAck, lostAck, lastPurge,
                 bounds>>

(* The network ends the request of c; the requestor posts its reply. *)
Reply(c, r) ==
  /\ controller[c].requestor = "waiting"
  /\ Set(c, [controller[c] EXCEPT !.requestor = "answered"])
  /\ executor' = Append(executor, ReplyTo(c, r))
  /\ answers' = IF r \in Definite
                THEN answers \cup {[model |-> controller[c].request.model.events, reply |-> r]}
                ELSE answers
  /\ lastAck' = IF r = "accepted" THEN [lastAck EXCEPT ![c] = controller[c].request.id]
                ELSE lastAck
  /\ UNCHANGED <<stored, requestID, denied, proxyState, queued, isWorking, added, lostAck,
                 lastPurge, bounds>>

(* The timeout policy of a host type is shared by the dispatchers of all API
   keys: another one reports a failure, or the interval runs out. *)
DenyRequests(c) ==
  /\ ~denied[c]
  /\ denied' = [denied EXCEPT ![c] = TRUE]
  /\ UNCHANGED <<stored, requestID, memory, history, bounds>>

IntervalElapses(c) ==
  /\ denied[c]
  /\ denied' = [denied EXCEPT ![c] = FALSE]
  /\ UNCHANGED <<stored, requestID, memory, history, bounds>>

(* -[AMADispatchingController shutdown]: the application leaves the foreground. *)
Shutdown ==
  /\ shutdowns < MaxShutdowns
  /\ shutdowns' = shutdowns + 1
  /\ executor' = Append(executor, CancelPending)
  /\ UNCHANGED <<stored, requestID, denied, controller, proxyState, queued, isWorking,
                 history, calls, restarts>>

\* An acknowledgement of c waits on the executor.
AckPosted(c) == \E i \in DOMAIN executor : executor[i] = ReplyTo(c, "accepted")

(* The process dies and is launched again: what was in memory is gone, replies
   that no block has handled included. *)
Relaunch ==
  /\ restarts < MaxRestarts
  /\ restarts' = restarts + 1
  /\ executor' = <<>>
  /\ controller' = [c \in Controllers |-> IdleController]
  /\ proxyState' = [c \in Controllers |-> "NotStarted"]
  /\ queued' = FALSE
  /\ isWorking' = FALSE
  /\ lostAck' = [c \in Controllers |-> IF AckPosted(c) THEN lastAck[c] ELSE lostAck[c]]
  /\ UNCHANGED <<stored, requestID, denied, added, answers, lastAck, lastPurge, calls, shutdowns>>

RunBlock ==
  \/ RunCallback
  \/ RunPerform
  \/ RunAppend
  \/ RunCancel
  \/ RunCancelPending
  \/ \E c \in Controllers :
       \/ DidReportRequest(c)
       \/ UnknownStatus(c)
       \/ BadRequest(c)
       \/ EntityTooLarge(c)
       \/ RequestFailed(c)

SomeReply(c) == \E r \in Replies : Reply(c, r)

Next ==
  \/ RunBlock
  \/ \E c \in Controllers : SomeReply(c) \/ DenyRequests(c) \/ IntervalElapses(c)
  \/ \E e \in Events : AddEvent(e)
  \/ PerformReportForApiKey
  \/ Shutdown
  \/ Relaunch

Spec == Init /\ [][Next]_vars

(* The executor runs its blocks, and the URL session ends every request. *)
Fairness == WF_vars(RunBlock) /\ \A c \in Controllers : WF_vars(SomeReply(c))

FairSpec == Spec /\ Fairness

-----------------------------------------------------------------------------
TypeOK ==
  /\ stored \subseteq Events
  /\ requestID \in Nat \ {0}
  /\ executor \in Seq(Block)
  /\ controller \in [Controllers -> ControllerState]
  /\ proxyState \in [Controllers -> {"NotStarted", "InProgress", "Completed"}]
  /\ denied \in [Controllers -> BOOLEAN]
  /\ queued \in BOOLEAN
  /\ isWorking \in BOOLEAN
  /\ added \subseteq Events
  /\ answers \subseteq [model : SUBSET Events, reply : Definite]
  /\ lastAck \in [Controllers -> Nat] /\ lostAck \in [Controllers -> Nat]
  /\ lastPurge \in [failed : Model, purged : Model]
  /\ calls \in 0..MaxCalls /\ shutdowns \in 0..MaxShutdowns /\ restarts \in 0..MaxRestarts

(* The delivery implements the outbox: it settles only events that were stored,
   and deletes only events that are settled. *)
Settled == UNION {a.model : a \in answers}

Outbox == INSTANCE EventOutbox WITH settled <- Settled

OutboxSpec == Outbox!Spec

(* No event is lost: one that is no longer stored was in a request to which a
   server gave a definite answer, whatever was cancelled, split, retried or
   interrupted by a crash. *)
NoLoss == added \ stored \subseteq Settled

(* Between two blocks a controller is in progress exactly when a request of its
   own is with the network or its reply waits on the executor: a controller
   that is in progress without one would never send again. *)
InProgressHasRequest ==
  \A c \in Controllers :
    LET posted == {i \in DOMAIN executor : executor[i].kind = "reply" /\ executor[i].ctl = c} IN
    /\ controller[c].inProgress <=> controller[c].requestor # "none"
    /\ controller[c].requestor = "answered" <=> posted # {}
    /\ \A i, j \in posted : i = j

(* The dispatching controller never waits for a round that has ended: while it
   is working, some block or some request will make the dispatcher call back. *)
WorkingMakesProgress ==
  isWorking => \/ \E i \in DOMAIN executor : executor[i].kind \in {"perform", "append", "callback"}
               \/ \E c \in Controllers : controller[c].requestor # "none"

(* With no tracking event in the store, a round is one chain: while the
   dispatching controller works there is exactly one of a round to begin, models
   to take, a request in progress and a callback to make.  This is what lets
   DispatchingController say that a dispatcher calls back once. *)
OneRound ==
  Cardinality({i \in DOMAIN executor : executor[i].kind \in {"perform", "append", "callback"}})
  + Cardinality({c \in Controllers : controller[c].inProgress})
  = IF isWorking THEN 1 ELSE 0

(* A finished controller keeps no model from the round that ended, unless the
   block that clears its queue is still to run: an old model would be sent
   with the next round. *)
LeftoversAreCancelled ==
  \A c \in Controllers :
    controller[c].models # <<>> /\ ~controller[c].inProgress =>
      \E i \in DOMAIN executor : executor[i] = CancelOf(c)

(* An identifier that a server has acknowledged is used again by a request of the
   same controller, split and retried ones included, in one case only: the
   process died before the acknowledgement was handled, and no later one has been
   handled yet. *)
MayBeSent(c, id) == id > lastAck[c] \/ (id = lastAck[c] /\ id = lostAck[c])

FreshIdentifier ==
  \A c \in Controllers :
    controller[c].requestor = "waiting" => MayBeSent(c, controller[c].request.id)

(* With no tracking event in the store, a request carries only events that are
   still stored: nothing that was purged is sent again. *)
WireHoldsStored ==
  \A c \in Controllers :
    controller[c].requestor = "waiting" => controller[c].request.model.events \subseteq stored

(* Every round of reporting ends: no chain of retries, splits and next requests
   keeps the dispatching controller busy for ever. *)
RoundEnds == isWorking ~> ~isWorking

(* What the test "The the first host responds 413 and respond could be split"
   says: an event leaves the store as too large only when it was sent alone. *)
TooLargeOnlyAlone ==
  \A e \in added \ stored :
    \E a \in answers : e \in a.model /\ (a.reply = "tooLarge" => a.model = {e})

(* The delegate protocol declares the failed model nonnull, and the dispatcher
   purges what it is given: the model purged is the one that failed. *)
PurgesTheFailedModel == lastPurge.purged = lastPurge.failed
=============================================================================
