------------------------- MODULE ReportDeliveryProofs -------------------------
(***************************************************************************)
(* Theorems about ReportDelivery, for every set of events, every grouping  *)
(* into requests, every number of hosts and every value of the bounds.     *)
(***************************************************************************)
EXTENDS ReportDelivery, FiniteSetTheorems, SequenceTheorems, TLAPS

(* The inductive invariant.  TypeOK says that what the delivery handles are
   events; it is strengthened to events that were stored at some time, which is
   what TypedOver(added) says. *)
ModelOver(A) == [events : SUBSET A, blank : BOOLEAN]

StateOver(A) ==
  [inProgress : BOOLEAN, retry : BOOLEAN, models : Seq(ModelOver(A)),
   request : [model : ModelOver(A), id : Nat],
   requestor : {"none", "waiting", "answered"}, hostsLeft : Nat]

BlockOver(A) ==
  {Perform, CancelPending, Callback}
  \cup [kind : {"append"}, ctl : Controllers, models : Seq(ModelOver(A))]
  \cup [kind : {"cancel"}, ctl : Controllers]
  \cup [kind : {"reply"}, ctl : Controllers, reply : Replies]

PlainType ==
  /\ requestID \in Nat \ {0}
  /\ proxyState \in [Controllers -> {"NotStarted", "InProgress", "Completed"}]
  /\ denied \in [Controllers -> BOOLEAN]
  /\ queued \in BOOLEAN
  /\ isWorking \in BOOLEAN
  /\ lastAck \in [Controllers -> Nat] /\ lostAck \in [Controllers -> Nat]
  /\ lastPurge \in [failed : Model, purged : Model]
  /\ calls \in 0..MaxCalls /\ shutdowns \in 0..MaxShutdowns /\ restarts \in 0..MaxRestarts

DataType ==
  /\ added \subseteq Events
  /\ stored \subseteq added
  /\ answers \subseteq [model : SUBSET added, reply : Definite]
  /\ executor \in Seq(BlockOver(added))
  /\ controller \in [Controllers -> StateOver(added)]

\* A controller that is not in progress keeps no request.
IdleHasNoRequest ==
  \A c \in Controllers : ~controller[c].inProgress => controller[c].request = NoRequest

\* A definite reply that waits on the executor is the answer to the request
\* its controller still holds.
DefiniteIsSettled ==
  \A i \in DOMAIN executor :
    executor[i].kind = "reply" /\ executor[i].reply \in Definite =>
      controller[executor[i].ctl].request.model.events \subseteq Settled

IInv ==
  /\ PlainType
  /\ DataType
  /\ InProgressHasRequest
  /\ IdleHasNoRequest
  /\ DefiniteIsSettled
  /\ NoLoss

-----------------------------------------------------------------------------
(* What the operators of RequestModels return. *)

LEMMA GroupsCount ==
  ASSUME NEW S \in SUBSET Events
  PROVE  Cardinality(GroupsOf(S)) \in Nat
<1>1. GroupsOf(S) \subseteq 1..NGroups
  BY RequestModelsAssumption DEF GroupsOf, RequestModelsAssumption
<1>2. IsFiniteSet(1..NGroups)
  BY RequestModelsAssumption, FS_Interval DEF RequestModelsAssumption
<1>3. QED
  BY <1>1, <1>2, FS_Subset, FS_CardinalityType

LEMMA RequestModelsOver ==
  ASSUME NEW S \in SUBSET Events
  PROVE  RequestModels(S) \in Seq(ModelOver(S))
<1>1. \A i \in 1..Cardinality(GroupsOf(S)) :
        [events |-> {e \in S : GroupOf[e] = NthGroup(S, i)}, blank |-> FALSE] \in ModelOver(S)
  BY DEF ModelOver
<1>2. QED
  BY <1>1, GroupsCount DEF RequestModels

LEMMA RegularModelsOver ==
  ASSUME NEW S \in SUBSET Events
  PROVE  RegularModels(S) \in Seq(ModelOver(S))
<1>1. RequestModels(S) \in Seq(ModelOver(S))
  BY RequestModelsOver
<1>2. Len(RequestModels(S)) = Cardinality(GroupsOf(S)) /\ Cardinality(GroupsOf(S)) \in Nat
  BY GroupsCount DEF RequestModels
<1>3. ASSUME NEW i \in 1..Cardinality(GroupsOf(S))
      PROVE  RegularPart(RequestModels(S)[i]) \in ModelOver(S)
  <2>1. RequestModels(S)[i] \in ModelOver(S)
    BY <1>1, <1>2
  <2>2. QED
    BY <2>1 DEF RegularPart, ModelOver
<1>4. QED
  BY <1>2, <1>3 DEF RegularModels

LEMMA ModelOverMonotone ==
  ASSUME NEW A, NEW B, A \subseteq B
  PROVE  /\ ModelOver(A) \subseteq ModelOver(B)
         /\ Seq(ModelOver(A)) \subseteq Seq(ModelOver(B))
<1>1. ModelOver(A) \subseteq ModelOver(B)
  BY DEF ModelOver
<1>2. QED
  BY <1>1

LEMMA TrackingModelsOver ==
  ASSUME NEW S \in SUBSET Events
  PROVE  TrackingModels(S) \in Seq(ModelOver(S))
<1>1. RequestModels(S \cap Tracking) \in Seq(ModelOver(S \cap Tracking))
  BY RequestModelsOver
<1>2. QED
  BY <1>1, ModelOverMonotone DEF TrackingModels

(* Neither splitting nor trimming adds an event to a model. *)
LEMMA SplitOver ==
  ASSUME NEW A, NEW m \in ModelOver(A)
  PROVE  /\ Len(SplitRequestModel(m)) \in {1, 2}
         /\ SplitRequestModel(m)[1] \in ModelOver(m.events)
         /\ Len(SplitRequestModel(m)) = 2 => SplitRequestModel(m)[2] \in ModelOver(m.events)
  BY DEF SplitRequestModel, First, ModelOver

LEMMA PayloadsOver ==
  ASSUME NEW A, NEW m \in ModelOver(A), NEW payload \in Payloads(m)
  PROVE  /\ payload.error \in PayloadErrors
         /\ payload.model \in ModelOver(m.events)
<1>1. m.events \subseteq A /\ \A k : Lowest(m.events, k) \subseteq m.events
  BY DEF ModelOver, Lowest
<1>2. NoModel \in ModelOver(m.events) /\ m \in ModelOver(m.events)
  BY DEF ModelOver, NoModel
<1>3. CASE m.events \subseteq Unreadable
  BY <1>2, <1>3 DEF Payloads, PayloadErrors
<1>4. CASE ~(m.events \subseteq Unreadable)
  <2> DEFINE Trimmed == {T \in {Lowest(m.events, k) : k \in 1..(Cardinality(m.events) - 1)} :
                           ~ T \subseteq Unreadable}
  <2>1. \A S \in Trimmed : [events |-> S, blank |-> FALSE] \in ModelOver(m.events)
    BY <1>1 DEF ModelOver
  <2> HIDE DEF Trimmed
  <2>2. \/ payload = [error |-> "Other", model |-> NoModel]
        \/ payload = [error |-> "None", model |-> m]
        \/ \E S \in Trimmed : payload = [error |-> "None", model |-> [events |-> S, blank |-> FALSE]]
    BY <1>4 DEF Payloads, Trimmed
  <2>3. QED
    BY <1>2, <2>1, <2>2 DEF PayloadErrors
<1>5. QED
  BY <1>3, <1>4

-----------------------------------------------------------------------------
(* What every block that moves a controller does.  The controller c ends with a
   request under way or idle, no reply is posted, and no event leaves the store
   but those of "old". *)
Outcome(A, c, old) ==
  /\ \E t \in StateOver(A), blocks \in Seq(BlockOver(A)) :
       /\ controller' = [controller EXCEPT ![c] = t]
       /\ executor' = Tail(executor) \o blocks
       /\ \A i \in DOMAIN blocks : blocks[i].kind # "reply"
       /\ t.requestor = IF t.inProgress THEN "waiting" ELSE "none"
       /\ ~t.inProgress => t.request = NoRequest
  /\ stored' \subseteq stored
  /\ stored \ stored' \subseteq old
  /\ requestID' \in Nat \ {0}
  /\ proxyState' \in [Controllers -> {"NotStarted", "InProgress", "Completed"}]
  /\ lastPurge' \in [failed : Model, purged : Model]

LEMMA ModelOverEvents ==
  ASSUME NEW A \in SUBSET Events
  PROVE  ModelOver(A) \subseteq Model
  BY DEF ModelOver, Model

LEMMA NoModelOver == \A A : NoModel \in ModelOver(A)
  BY DEF ModelOver, NoModel

LEMMA CompletedOver ==
  ASSUME NEW A, NEW s \in StateOver(A)
  PROVE  /\ Completed(s) \in StateOver(A)
         /\ ~Completed(s).inProgress
         /\ Completed(s).requestor = "none"
         /\ Completed(s).request = NoRequest
<1>1. NoRequest \in [model : ModelOver(A), id : Nat]
  BY NoModelOver DEF NoRequest
<1>2. QED
  BY <1>1 DEF Completed, StateOver

LEMMA CompletionBlocks ==
  ASSUME NEW A, NEW c \in Controllers, NEW bs \in {<<>>, <<Callback>>}
  PROVE  /\ CompletePosts(c) \o bs \in Seq(BlockOver(A))
         /\ \A i \in DOMAIN (CompletePosts(c) \o bs) : (CompletePosts(c) \o bs)[i].kind # "reply"
<1> DEFINE Quiet == {b \in BlockOver(A) : b.kind # "reply"}
<1>1. CancelOf(c) \in Quiet /\ Callback \in Quiet
  BY DEF CancelOf, Callback, BlockOver
<1> HIDE DEF Quiet
<1>2. CompletePosts(c) \in Seq(Quiet) /\ bs \in Seq(Quiet)
  <2>1. CompletePosts(c) = <<CancelOf(c)>>
    BY DEF CompletePosts
  <2>2. <<CancelOf(c)>> \in Seq(Quiet) /\ <<Callback>> \in Seq(Quiet) /\ <<>> \in Seq(Quiet)
    BY <1>1
  <2>3. QED
    BY <2>1, <2>2
<1>3. CompletePosts(c) \o bs \in Seq(Quiet)
  BY <1>2
<1>4. QED
  <2>1. \A q \in Seq(Quiet) : /\ q \in Seq(BlockOver(A))
                              /\ \A i \in DOMAIN q : q[i].kind # "reply"
    BY DEF Quiet
  <2>2. QED
    BY <1>3, <2>1

LEMMA CompleteWithErrorOutcome ==
  ASSUME NEW A \in SUBSET Events, NEW c \in Controllers, NEW s \in StateOver(A), NEW code,
         NEW passed \in ModelOver(A), NEW failed \in ModelOver(A),
         NEW db, db \subseteq stored, NEW id \in Nat \ {0}, NEW old, stored \ db \subseteq old,
         code \in Purging => passed.events \subseteq old,
         PlainType,
         CompleteWithError(c, s, code, passed, failed, db, id)
  PROVE  Outcome(A, c, old)
<1> DEFINE blocks == CompletePosts(c) \o <<Callback>>
<1>1. /\ controller' = [controller EXCEPT ![c] = Completed(s)]
      /\ executor' = Tail(executor) \o blocks
      /\ proxyState' = proxyState
  BY DEF CompleteWithError, Set, Post
<1>2. blocks \in Seq(BlockOver(A)) /\ \A i \in DOMAIN blocks : blocks[i].kind # "reply"
  BY CompletionBlocks
<1>5. passed \in Model /\ failed \in Model
  BY ModelOverEvents
<1>6. /\ stored' \subseteq stored
      /\ stored \ stored' \subseteq old
      /\ requestID' \in Nat \ {0}
      /\ lastPurge' \in [failed : Model, purged : Model]
  <2>1. CASE code \in Purging
    <3>1. stored' \in {db, db \ passed.events} /\ requestID' = id + 1
          /\ lastPurge' = [failed |-> failed, purged |-> passed]
      BY <2>1 DEF CompleteWithError, NextIdentifier, AfterPurge
    <3>2. QED
      BY <2>1, <3>1, <1>5
  <2>2. CASE code \notin Purging
    <3>1. stored' = db /\ requestID' = id /\ lastPurge' = lastPurge
      BY <2>2 DEF CompleteWithError
    <3>2. QED
      BY <3>1 DEF PlainType
  <2>3. QED
    BY <2>1, <2>2
<1> HIDE DEF blocks
<1>7. \E t \in StateOver(A), bs \in Seq(BlockOver(A)) :
        /\ controller' = [controller EXCEPT ![c] = t]
        /\ executor' = Tail(executor) \o bs
        /\ \A i \in DOMAIN bs : bs[i].kind # "reply"
        /\ t.requestor = IF t.inProgress THEN "waiting" ELSE "none"
        /\ ~t.inProgress => t.request = NoRequest
  BY <1>1, <1>2, CompletedOver
<1>8. QED
  BY <1>1, <1>6, <1>7 DEF Outcome, PlainType

LEMMA RestartOutcome ==
  ASSUME NEW A \in SUBSET Events, NEW c \in Controllers, NEW s \in StateOver(A),
         s.inProgress, NEW old, PlainType,
         RestartCurrentRequest(c, s)
  PROVE  Outcome(A, c, old)
<1> DEFINE Fails(code) ==
             CompleteWithError(c, s, code, s.request.model, s.request.model, stored, requestID)
<1>1. CASE Fails("Timeout") \/ Fails("Other")
  <2>1. s.request.model \in ModelOver(A) /\ requestID \in Nat \ {0}
        /\ "Timeout" \notin Purging /\ "Other" \notin Purging
    BY DEF StateOver, PlainType, Purging
  <2>2. QED
    BY <1>1, <2>1, CompleteWithErrorOutcome
<1>2. CASE ~(Fails("Timeout") \/ Fails("Other"))
  <2> DEFINE t == [s EXCEPT !.requestor = "waiting"]
  <2>1. /\ controller' = [controller EXCEPT ![c] = t]
        /\ executor' = Tail(executor) \o <<>>
        /\ UNCHANGED <<stored, requestID, proxyState, lastPurge>>
    BY <1>2 DEF RestartCurrentRequest, Set, Post
  <2>2. t \in StateOver(A) /\ t.inProgress /\ t.requestor = "waiting"
    BY DEF StateOver
  <2> HIDE DEF t
  <2>3. <<>> \in Seq(BlockOver(A)) /\ \A i \in DOMAIN <<>> : <<>>[i].kind # "reply"
    OBVIOUS
  <2>4. QED
    BY <2>1, <2>2, <2>3 DEF Outcome, PlainType
<1>3. QED
  BY <1>1, <1>2

\* A controller that takes its first model is still well typed.
LEMMA DequeuedOver ==
  ASSUME NEW A, NEW s \in StateOver(A), s.models # <<>>
  PROVE  /\ Head(s.models) \in ModelOver(A)
         /\ Dequeued(s) \in StateOver(A)
         /\ Dequeued(s).inProgress = s.inProgress
<1>1. s.models \in Seq(ModelOver(A))
  BY DEF StateOver
<1>2. Head(s.models) \in ModelOver(A) /\ Tail(s.models) \in Seq(ModelOver(A))
  BY <1>1, HeadTailProperties
<1>3. Dequeued(s) = [s EXCEPT !.models = Tail(s.models)]
  BY DEF Dequeued
<1>4. QED
  BY <1>2, <1>3 DEF StateOver

LEMMA PerformNextRequestOutcome ==
  ASSUME NEW A \in SUBSET Events, NEW c \in Controllers, NEW s \in StateOver(A), s.inProgress,
         NEW db, db \subseteq stored, NEW id \in Nat \ {0}, NEW old,
         stored \ db \subseteq old, s.request.model.events \subseteq old,
         PlainType,
         PerformNextRequest(c, s, db, id)
  PROVE  Outcome(A, c, old)
<1>1. s.request.model \in ModelOver(A) /\ s.models \in Seq(ModelOver(A))
  BY DEF StateOver
<1>2. s.models # <<>> => /\ Head(s.models) \in ModelOver(A)
                         /\ Dequeued(s) \in StateOver(A)
                         /\ Dequeued(s).inProgress
  BY DequeuedOver
<1>3. CASE s.models = <<>>
  <2> DEFINE after  == [proxyState EXCEPT ![c] = "Completed"]
             blocks == CompletePosts(c) \o
                       IF \A d \in Controllers : after[d] # "InProgress"
                       THEN <<Callback>> ELSE <<>>
  <2>1. /\ controller' = [controller EXCEPT ![c] = Completed(s)]
        /\ executor' = Tail(executor) \o blocks
        /\ proxyState' = after
        /\ stored' = db /\ requestID' = id /\ lastPurge' = lastPurge
    BY <1>3 DEF PerformNextRequest, DidFinishWithSuccess, Set, Post
  <2>2. blocks \in Seq(BlockOver(A)) /\ \A i \in DOMAIN blocks : blocks[i].kind # "reply"
    BY CompletionBlocks
  <2>3. after \in [Controllers -> {"NotStarted", "InProgress", "Completed"}]
    BY DEF PlainType
  <2> HIDE DEF after, blocks
  <2>4. QED
    BY <2>1, <2>2, <2>3, CompletedOver DEF Outcome, PlainType
<1>4. CASE s.models # <<>> /\ denied'[c]
  <2>1. CompleteWithError(c, s, "Timeout", s.request.model, Head(s.models), db, id)
    BY <1>4 DEF PerformNextRequest
  <2>2. QED
    BY <1>1, <1>2, <1>4, <2>1, CompleteWithErrorOutcome
<1>5. CASE s.models # <<>> /\ ~denied'[c]
  <2>1. PICK payload \in Payloads(Head(s.models)), hosts \in Hosts[c] :
          LET taken == Dequeued(s) IN
          \/ /\ payload.error # "None"
             /\ CompleteWithError(c, taken, ControllerError(payload.error),
                                  s.request.model, Head(s.models), db, id)
          \/ CompleteWithError(c, taken, "Other", s.request.model, Head(s.models), db, id)
          \/ /\ hosts > 0
             /\ Set(c, [taken EXCEPT !.request = [model |-> payload.model, id |-> id],
                                     !.requestor = "waiting", !.retry = TRUE,
                                     !.hostsLeft = hosts - 1])
             /\ Post(<<>>)
             /\ stored' = db /\ requestID' = id
             /\ UNCHANGED <<proxyState, lastPurge>>
    BY <1>5 DEF PerformNextRequest
  <2>2. CASE CompleteWithError(c, Dequeued(s), ControllerError(payload.error),
                               s.request.model, Head(s.models), db, id)
    BY <1>1, <1>2, <1>5, <2>2, CompleteWithErrorOutcome
  <2>3. CASE CompleteWithError(c, Dequeued(s), "Other", s.request.model, Head(s.models), db, id)
    BY <1>1, <1>2, <1>5, <2>3, CompleteWithErrorOutcome
  <2>4. CASE /\ hosts > 0
             /\ Set(c, [Dequeued(s) EXCEPT !.request = [model |-> payload.model, id |-> id],
                                           !.requestor = "waiting", !.retry = TRUE,
                                           !.hostsLeft = hosts - 1])
             /\ Post(<<>>)
             /\ stored' = db /\ requestID' = id
             /\ UNCHANGED <<proxyState, lastPurge>>
    <3> DEFINE t == [Dequeued(s) EXCEPT !.request = [model |-> payload.model, id |-> id],
                                        !.requestor = "waiting", !.retry = TRUE,
                                        !.hostsLeft = hosts - 1]
    <3>1. /\ controller' = [controller EXCEPT ![c] = t]
          /\ executor' = Tail(executor) \o <<>>
          /\ stored' = db /\ requestID' = id
          /\ UNCHANGED <<proxyState, lastPurge>>
      BY <2>4 DEF Set, Post
    <3>2. payload.model \in ModelOver(A)
      <4>1. payload.model \in ModelOver(Head(s.models).events)
        BY <1>2, <1>5, PayloadsOver
      <4>2. QED
        BY <1>2, <1>5, <4>1 DEF ModelOver
    <3>3. hosts - 1 \in Nat
      BY <2>4, ReportDeliveryAssumption DEF ReportDeliveryAssumption
    <3>4. t \in StateOver(A) /\ t.inProgress /\ t.requestor = "waiting"
      BY <1>2, <1>5, <3>2, <3>3 DEF StateOver
    <3> HIDE DEF t
    <3>5. <<>> \in Seq(BlockOver(A)) /\ \A i \in DOMAIN <<>> : <<>>[i].kind # "reply"
      OBVIOUS
    <3>6. QED
      BY <3>1, <3>4, <3>5 DEF Outcome, PlainType
  <2>5. QED
    BY <2>1, <2>2, <2>3, <2>4
<1>6. QED
  BY <1>3, <1>4, <1>5
-----------------------------------------------------------------------------
(* The handlers of the replies. *)

\* The controller whose reply is at the head is in progress; a definite reply
\* settled the request it holds.
LEMMA HeadReply ==
  ASSUME IInv, NEW c \in Controllers, NEW r \in Replies, ReplyOf(c, r)
  PROVE  /\ executor # <<>> /\ executor[1] = ReplyTo(c, r) /\ 1 \in DOMAIN executor
         /\ controller[c].requestor = "answered"
         /\ controller[c].inProgress
         /\ r \in Definite => controller[c].request.model.events \subseteq Settled
<1>1. executor \in Seq(BlockOver(added))
  BY DEF IInv, DataType
<1>2. executor # <<>> /\ executor[1] = ReplyTo(c, r) /\ 1 \in DOMAIN executor
  BY <1>1 DEF ReplyOf, Running
<1>3. executor[1].kind = "reply" /\ executor[1].ctl = c /\ executor[1].reply = r
  BY <1>2 DEF ReplyTo
<1>4. controller[c].requestor = "answered" /\ controller[c].inProgress
  BY <1>2, <1>3 DEF IInv, InProgressHasRequest
<1>5. r \in Definite => controller[c].request.model.events \subseteq Settled
  BY <1>2, <1>3 DEF IInv, DefiniteIsSettled
<1>6. QED
  BY <1>2, <1>4, <1>5

LEMMA ControllerFacts ==
  ASSUME IInv, NEW c \in Controllers
  PROVE  /\ added \in SUBSET Events
         /\ PlainType /\ requestID \in Nat \ {0}
         /\ controller[c] \in StateOver(added)
         /\ controller[c].request.model \in ModelOver(added)
  BY DEF IInv, PlainType, DataType, StateOver

LEMMA NextHostOver ==
  ASSUME NEW A, NEW s \in StateOver(A), s.inProgress, HasNextHost(s)
  PROVE  OnNextHost(s) \in StateOver(A) /\ OnNextHost(s).inProgress
<1>1. s.hostsLeft - 1 \in Nat
  BY DEF StateOver, HasNextHost
<1>2. QED
  BY <1>1 DEF OnNextHost, StateOver

LEMMA DidReportRequestOutcome ==
  ASSUME IInv, NEW c \in Controllers, DidReportRequest(c)
  PROVE  \E old \in SUBSET Settled : Outcome(added, c, old)
<1> DEFINE carried == controller[c].request.model.events
<1>1. controller[c].inProgress /\ carried \in SUBSET Settled
  BY HeadReply DEF DidReportRequest, Replies, Definite
<1>2. PICK db \in {stored, stored \ carried} :
        PerformNextRequest(c, controller[c], db, requestID + 1)
  BY DEF DidReportRequest, NextIdentifier, AfterPurge
<1>3. requestID + 1 \in Nat \ {0}
  BY ControllerFacts
<1>4. Outcome(added, c, carried)
  <2>1. db \subseteq stored /\ stored \ db \subseteq carried
    OBVIOUS
  <2>2. QED
    BY <1>1, <1>2, <1>3, <2>1, ControllerFacts, PerformNextRequestOutcome
<1>5. QED
  BY <1>1, <1>4

LEMMA UnknownStatusOutcome ==
  ASSUME IInv, NEW c \in Controllers, UnknownStatus(c)
  PROVE  \E old \in SUBSET Settled : Outcome(added, c, old)
<1> DEFINE s == controller[c]
<1>1. s.inProgress
  BY HeadReply DEF UnknownStatus, Replies
<1>2. \/ HasNextHost(s) /\ RestartCurrentRequest(c, OnNextHost(s))
      \/ CompleteWithError(c, s, "JsonStatusUnknown", s.request.model, s.request.model,
                           stored, requestID)
  BY DEF UnknownStatus
<1>3. CASE HasNextHost(s) /\ RestartCurrentRequest(c, OnNextHost(s))
  <2>1. Outcome(added, c, {})
    BY <1>1, <1>3, ControllerFacts, NextHostOver, RestartOutcome
  <2>2. QED
    BY <2>1
<1>4. CASE CompleteWithError(c, s, "JsonStatusUnknown", s.request.model, s.request.model,
                             stored, requestID)
  <2>1. "JsonStatusUnknown" \notin Purging
    BY DEF Purging
  <2>2. Outcome(added, c, {})
    BY <1>4, <2>1, ControllerFacts, CompleteWithErrorOutcome
  <2>3. QED
    BY <2>2
<1>5. QED
  BY <1>2, <1>3, <1>4

LEMMA BadRequestOutcome ==
  ASSUME IInv, NEW c \in Controllers, BadRequest(c)
  PROVE  \E old \in SUBSET Settled : Outcome(added, c, old)
<1> DEFINE s == controller[c]
           carried == s.request.model.events
<1>1. carried \in SUBSET Settled
  BY HeadReply DEF BadRequest, Replies, Definite
<1>2. CompleteWithError(c, s, "BadRequest", s.request.model, s.request.model, stored, requestID)
  BY DEF BadRequest
<1>3. Outcome(added, c, carried)
  BY <1>2, ControllerFacts, CompleteWithErrorOutcome
<1>4. QED
  BY <1>1, <1>3

LEMMA RequestFailedOutcome ==
  ASSUME IInv, NEW c \in Controllers, RequestFailed(c)
  PROVE  \E old \in SUBSET Settled : Outcome(added, c, old)
<1> DEFINE s == controller[c]
<1>1. s.inProgress
  BY HeadReply DEF RequestFailed, Replies
<1>2. \/ HasNextHost(s) /\ RestartCurrentRequest(c, OnNextHost(s))
      \/ CompleteWithError(c, s, "Other", s.request.model, s.request.model, stored, requestID)
  BY DEF RequestFailed, RetryOnNextHost
<1>3. CASE HasNextHost(s) /\ RestartCurrentRequest(c, OnNextHost(s))
  <2>1. Outcome(added, c, {})
    BY <1>1, <1>3, ControllerFacts, NextHostOver, RestartOutcome
  <2>2. QED
    BY <2>1
<1>4. CASE CompleteWithError(c, s, "Other", s.request.model, s.request.model, stored, requestID)
  <2>1. "Other" \notin Purging
    BY DEF Purging
  <2>2. Outcome(added, c, {})
    BY <1>4, <2>1, ControllerFacts, CompleteWithErrorOutcome
  <2>3. QED
    BY <2>2
<1>5. QED
  BY <1>2, <1>3, <1>4

(* The model that replaces a split request is part of it, so that purging it
   as too large purges settled events only. *)
LEMMA EntityTooLargeOutcome ==
  ASSUME IInv, NEW c \in Controllers, EntityTooLarge(c)
  PROVE  \E old \in SUBSET Settled : Outcome(added, c, old)
<1> DEFINE s       == controller[c]
           parts   == SplitRequestModel(s.request.model)
           carried == s.request.model.events
           After(m) == [s EXCEPT !.models = <<parts[2]>> \o s.models, !.request.model = m]
<1>1. s.inProgress /\ carried \in SUBSET Settled
  BY HeadReply DEF EntityTooLarge, Replies, Definite
<1>2. s \in StateOver(added) /\ s.request.model \in ModelOver(added)
  BY ControllerFacts
<1>3. SplitCurrentRequest(c)
  BY DEF EntityTooLarge
<1>4. CASE CompleteWithError(c, s, "RequestEntityTooLarge", s.request.model, s.request.model,
                             stored, requestID)
  <2>1. Outcome(added, c, carried)
    BY <1>4, ControllerFacts, CompleteWithErrorOutcome
  <2>2. QED
    BY <1>1, <2>1
<1>5. CASE Len(parts) = 2 /\ ~CompleteWithError(c, s, "RequestEntityTooLarge", s.request.model,
                                                s.request.model, stored, requestID)
  <2>1. parts[1] \in ModelOver(carried) /\ parts[2] \in ModelOver(carried)
    BY <1>2, <1>5, SplitOver
  <2>2. carried \subseteq added
    BY <1>2 DEF ModelOver
  <2>3. parts[1] \in ModelOver(added) /\ parts[2] \in ModelOver(added)
    BY <2>1, <2>2, ModelOverMonotone
  <2>4. PICK payload \in Payloads(parts[1]) :
          \/ CompleteWithError(c, After(payload.model), ControllerError(payload.error), NoModel,
                               parts[1], stored, requestID)
          \/ CompleteWithError(c, After(payload.model), "RequestEntityTooLarge",
                               After(payload.model).request.model,
                               After(payload.model).request.model, stored, requestID)
          \/ RestartCurrentRequest(c, After(payload.model))
    BY <1>3, <1>5 DEF SplitCurrentRequest
  <2> DEFINE t == After(payload.model)
  <2>5. payload.model \in ModelOver(carried)
    <3>1. payload.model \in ModelOver(parts[1].events)
      BY <2>1, PayloadsOver
    <3>2. parts[1].events \subseteq carried
      BY <2>1 DEF ModelOver
    <3>3. QED
      BY <3>1, <3>2, ModelOverMonotone
  <2>6. payload.model \in ModelOver(added)
    BY <2>2, <2>5, ModelOverMonotone
  <2>7. /\ t \in StateOver(added)
        /\ t.inProgress
        /\ t.request.model = payload.model
    <3>1. <<parts[2]>> \o s.models \in Seq(ModelOver(added))
      <4>1. <<parts[2]>> \in Seq(ModelOver(added)) /\ s.models \in Seq(ModelOver(added))
        BY <1>2, <2>3 DEF StateOver
      <4>2. QED
        BY <4>1
    <3> DEFINE ms == <<parts[2]>> \o s.models
               m  == payload.model
    <3>2. [s EXCEPT !.models = ms] \in StateOver(added)
      BY <1>2, <3>1 DEF StateOver
    <3>3. t = [s EXCEPT !.models = ms, !.request.model = m]
      OBVIOUS
    <3> HIDE DEF ms, m, t
    <3>4. m \in ModelOver(added)
      BY <2>6 DEF m
    <3>5. QED
      BY <1>1, <1>2, <3>1, <3>2, <3>3, <3>4 DEF StateOver, ms, m
  <2> HIDE DEF t
  <2>8. payload.model.events \subseteq carried
    BY <2>5 DEF ModelOver
  <2>9. Outcome(added, c, carried)
    <3>1. \/ CompleteWithError(c, t, ControllerError(payload.error), NoModel,
                               parts[1], stored, requestID)
          \/ CompleteWithError(c, t, "RequestEntityTooLarge", t.request.model,
                               t.request.model, stored, requestID)
          \/ RestartCurrentRequest(c, t)
      BY <2>4 DEF t
    <3>2. CASE CompleteWithError(c, t, ControllerError(payload.error), NoModel,
                                 parts[1], stored, requestID)
      <4>1. NoModel \in ModelOver(added) /\ NoModel.events \subseteq carried
        BY NoModelOver DEF NoModel
      <4>2. QED
        BY <2>3, <2>7, <3>2, <4>1, ControllerFacts, CompleteWithErrorOutcome
    <3>3. CASE CompleteWithError(c, t, "RequestEntityTooLarge", t.request.model,
                                 t.request.model, stored, requestID)
      <4>1. t.request.model \in ModelOver(added) /\ t.request.model.events \subseteq carried
        BY <2>6, <2>7, <2>8
      <4>2. QED
        BY <2>7, <3>3, <4>1, ControllerFacts, CompleteWithErrorOutcome
    <3>4. CASE RestartCurrentRequest(c, t)
      BY <2>7, <3>4, ControllerFacts, RestartOutcome
    <3>5. QED
      BY <3>1, <3>2, <3>3, <3>4
  <2>10. QED
    BY <1>1, <2>9
<1>6. QED
  BY <1>3, <1>4, <1>5 DEF SplitCurrentRequest
LEMMA ReplyOutcome ==
  ASSUME IInv, NEW c \in Controllers,
         \/ DidReportRequest(c) \/ UnknownStatus(c) \/ BadRequest(c)
         \/ EntityTooLarge(c) \/ RequestFailed(c)
  PROVE  \E old \in SUBSET Settled : Outcome(added, c, old)
  BY DidReportRequestOutcome, UnknownStatusOutcome, BadRequestOutcome, EntityTooLargeOutcome,
     RequestFailedOutcome

-----------------------------------------------------------------------------
(* The executor as a queue: where its blocks are after a block has run, and
   after a block was posted by another thread. *)

LEMMA BlocksAfterRun ==
  ASSUME NEW B, executor \in Seq(B), executor # <<>>, NEW blocks \in Seq(B),
         executor' = Tail(executor) \o blocks,
         \A i \in DOMAIN blocks : blocks[i].kind # "reply"
  PROVE  /\ executor' \in Seq(B)
         /\ \A i \in DOMAIN executor' : executor'[i].kind = "reply" =>
              /\ i \in Nat \ {0} /\ i + 1 \in DOMAIN executor /\ executor'[i] = executor[i + 1]
         /\ \A i \in DOMAIN executor : i # 1 =>
              /\ i \in Nat /\ i - 1 \in DOMAIN executor' /\ executor'[i - 1] = executor[i]
<1> DEFINE rest == Tail(executor)
<1>1. /\ rest \in Seq(B) /\ Len(rest) = Len(executor) - 1
      /\ \A i \in 1..Len(rest) : rest[i] = executor[i + 1]
  BY HeadTailProperties
<1>2. Len(executor) \in Nat /\ Len(blocks) \in Nat /\ Len(rest) \in Nat
  BY <1>1
<1> HIDE DEF rest
<1>3. /\ executor' \in Seq(B)
      /\ Len(executor') = Len(rest) + Len(blocks)
      /\ \A i \in 1..(Len(rest) + Len(blocks)) :
           executor'[i] = IF i <= Len(rest) THEN rest[i] ELSE blocks[i - Len(rest)]
  <2>1. executor' = rest \o blocks
    BY DEF rest
  <2>2. QED
    BY <1>1, <2>1, ConcatProperties
<1>4. /\ DOMAIN executor = 1..Len(executor)
      /\ DOMAIN executor' = 1..Len(executor')
      /\ DOMAIN blocks = 1..Len(blocks)
  BY <1>3
<1>5. ASSUME NEW i \in DOMAIN executor', executor'[i].kind = "reply"
      PROVE  i \in Nat \ {0} /\ i + 1 \in DOMAIN executor /\ executor'[i] = executor[i + 1]
  <2>1. i \in 1..(Len(rest) + Len(blocks))
    BY <1>3, <1>4
  <2>2. CASE i <= Len(rest)
    BY <1>1, <1>2, <1>3, <1>4, <2>1, <2>2
  <2>3. CASE ~(i <= Len(rest))
    <3>1. i - Len(rest) \in DOMAIN blocks /\ executor'[i] = blocks[i - Len(rest)]
      BY <1>2, <1>3, <1>4, <2>1, <2>3
    <3>2. QED
      BY <1>5, <3>1
  <2>4. QED
    BY <2>2, <2>3
<1>6. ASSUME NEW i \in DOMAIN executor, i # 1
      PROVE  i \in Nat /\ i - 1 \in DOMAIN executor' /\ executor'[i - 1] = executor[i]
  BY <1>1, <1>2, <1>3, <1>4, <1>6
<1>7. QED
  BY <1>3, <1>5, <1>6

LEMMA BlocksAfterPost ==
  ASSUME NEW B, executor \in Seq(B), NEW block \in B, executor' = Append(executor, block)
  PROVE  /\ executor' \in Seq(B)
         /\ DOMAIN executor' = DOMAIN executor \cup {Len(executor) + 1}
         /\ Len(executor) + 1 \notin DOMAIN executor
         /\ executor'[Len(executor) + 1] = block
         /\ \A i \in DOMAIN executor : executor'[i] = executor[i]
<1>1. Len(executor) \in Nat /\ DOMAIN executor = 1..Len(executor)
  OBVIOUS
<1>2. /\ executor' \in Seq(B) /\ Len(executor') = Len(executor) + 1
      /\ DOMAIN executor' = 1..(Len(executor) + 1)
  OBVIOUS
<1>3. QED
  BY <1>1, <1>2

\* The replies that wait are those that waited before, the one that has run
\* apart; so what InProgressHasRequest says of a controller whose reply has
\* not run, and whose requestor is untouched, stays true.
RepliesOf(c) == {i \in DOMAIN executor : executor[i].kind = "reply" /\ executor[i].ctl = c}

LEMMA RepliesAfterRun ==
  ASSUME NEW B, executor \in Seq(B), executor # <<>>, NEW blocks \in Seq(B),
         executor' = Tail(executor) \o blocks,
         \A i \in DOMAIN blocks : blocks[i].kind # "reply",
         NEW c \in Controllers
  PROVE  /\ RepliesOf(c)' # {} <=> RepliesOf(c) \ {1} # {}
         /\ (\A i, j \in RepliesOf(c) : i = j) => (\A i, j \in RepliesOf(c)' : i = j)
<1>1. /\ \A i \in DOMAIN executor' : executor'[i].kind = "reply" =>
           /\ i \in Nat \ {0} /\ i + 1 \in DOMAIN executor /\ executor'[i] = executor[i + 1]
      /\ \A i \in DOMAIN executor : i # 1 =>
           /\ i \in Nat /\ i - 1 \in DOMAIN executor' /\ executor'[i - 1] = executor[i]
  BY BlocksAfterRun
<1>2. \A i \in RepliesOf(c)' : i \in Nat \ {0} /\ i + 1 \in RepliesOf(c) \ {1}
  BY <1>1 DEF RepliesOf
<1>3. \A i \in RepliesOf(c) \ {1} : i - 1 \in RepliesOf(c)'
  BY <1>1 DEF RepliesOf
<1>4. QED
  BY <1>2, <1>3
-----------------------------------------------------------------------------
(* The steps preserve the inductive invariant. *)

OwnRequest(c) ==
  /\ controller[c].inProgress <=> controller[c].requestor # "none"
  /\ controller[c].requestor = "answered" <=> RepliesOf(c) # {}
  /\ \A i, j \in RepliesOf(c) : i = j

LEMMA OwnRequests == InProgressHasRequest <=> \A c \in Controllers : OwnRequest(c)
  BY DEF InProgressHasRequest, OwnRequest, RepliesOf

LEMMA OwnRequestsNext == InProgressHasRequest' <=> \A c \in Controllers : OwnRequest(c)'
  BY DEF InProgressHasRequest, OwnRequest, RepliesOf

(* A block that moves controller c: its own reply, or an append while it was
   idle. *)
LEMMA OutcomeStep ==
  ASSUME IInv, NEW c \in Controllers, NEW old \in SUBSET Settled, Outcome(added, c, old),
         executor # <<>>,
         \/ controller[c].requestor = "answered" /\ 1 \in RepliesOf(c)
         \/ controller[c].requestor = "none" /\ executor[1].kind # "reply",
         UNCHANGED <<queued, isWorking, added, answers, bounds>>,
         denied' \in [Controllers -> BOOLEAN],
         lastAck' \in [Controllers -> Nat], lostAck' \in [Controllers -> Nat]
  PROVE  IInv'
<1>1. PICK t \in StateOver(added), blocks \in Seq(BlockOver(added)) :
        /\ controller' = [controller EXCEPT ![c] = t]
        /\ executor' = Tail(executor) \o blocks
        /\ \A i \in DOMAIN blocks : blocks[i].kind # "reply"
        /\ t.requestor = IF t.inProgress THEN "waiting" ELSE "none"
        /\ ~t.inProgress => t.request = NoRequest
  BY DEF Outcome
<1>2. executor \in Seq(BlockOver(added)) /\ controller \in [Controllers -> StateOver(added)]
  BY DEF IInv, DataType
<1>3. executor' \in Seq(BlockOver(added))
  BY <1>1, <1>2, BlocksAfterRun
<1>4. PlainType'
  BY DEF IInv, PlainType, Outcome, bounds
<1>5. DataType'
  BY <1>1, <1>2, <1>3 DEF IInv, DataType, Outcome
<1>6. \A d \in Controllers : OwnRequest(d)
  BY OwnRequests DEF IInv
<1>7. RepliesOf(c) \subseteq {1} /\ \A d \in Controllers \ {c} : 1 \notin RepliesOf(d)
  BY <1>6 DEF OwnRequest, RepliesOf
<1>8. InProgressHasRequest'
  <2>1. ASSUME NEW d \in Controllers
        PROVE  OwnRequest(d)'
    <3>1. /\ RepliesOf(d)' # {} <=> RepliesOf(d) \ {1} # {}
          /\ (\A i, j \in RepliesOf(d) : i = j) => (\A i, j \in RepliesOf(d)' : i = j)
      BY <1>1, <1>2, RepliesAfterRun
    <3>2. CASE d = c
      <4>1. RepliesOf(d)' = {}
        BY <1>7, <3>1, <3>2
      <4>2. controller'[d] = t
        BY <1>1, <1>2, <3>2
      <4>3. t.inProgress \in BOOLEAN
        BY DEF StateOver
      <4>4. QED
        BY <1>1, <4>1, <4>2, <4>3 DEF OwnRequest
    <3>3. CASE d # c
      <4>1. RepliesOf(d)' # {} <=> RepliesOf(d) # {}
        BY <1>7, <3>1, <3>3
      <4>2. controller'[d] = controller[d]
        BY <1>1, <1>2, <3>3
      <4>3. QED
        BY <1>6, <3>1, <4>1, <4>2 DEF OwnRequest
    <3>4. QED
      BY <3>2, <3>3
  <2>2. QED
    BY <2>1, OwnRequestsNext
<1>9. IdleHasNoRequest'
  BY <1>1, <1>2 DEF IInv, IdleHasNoRequest
<1>10. Settled' = Settled
  BY DEF Settled
<1>11. DefiniteIsSettled'
  <2>1. ASSUME NEW i \in DOMAIN executor', executor'[i].kind = "reply",
               executor'[i].reply \in Definite
        PROVE  controller'[executor'[i].ctl].request.model.events \subseteq Settled
    <3>1. i + 1 \in DOMAIN executor /\ executor'[i] = executor[i + 1] /\ i + 1 # 1
      BY <1>1, <1>2, <2>1, BlocksAfterRun
    <3>2. executor[i + 1] \in BlockOver(added)
      BY <1>2, <3>1
    <3>3. executor[i + 1].ctl \in Controllers
      BY <2>1, <3>1, <3>2 DEF BlockOver, Perform, CancelPending, Callback
    <3>4. executor[i + 1].ctl # c
      BY <1>7, <2>1, <3>1 DEF RepliesOf
    <3>5. controller'[executor[i + 1].ctl] = controller[executor[i + 1].ctl]
      BY <1>1, <1>2, <3>3, <3>4
    <3>6. QED
      BY <2>1, <3>1, <3>5 DEF IInv, DefiniteIsSettled
  <2>2. QED
    BY <1>10, <2>1 DEF DefiniteIsSettled
<1>12. NoLoss'
  BY <1>10 DEF IInv, NoLoss, Outcome
<1>13. QED
  BY <1>4, <1>5, <1>8, <1>9, <1>11, <1>12 DEF IInv

\* What the invariant reads of a controller.
SameRequests ==
  \A d \in Controllers :
    /\ controller'[d].inProgress = controller[d].inProgress
    /\ controller'[d].requestor = controller[d].requestor
    /\ controller'[d].request = controller[d].request

(* A block that is no reply and moves no controller. *)
LEMMA QuietRun ==
  ASSUME IInv, executor # <<>>, executor[1].kind # "reply",
         NEW blocks \in Seq(BlockOver(added)), executor' = Tail(executor) \o blocks,
         \A i \in DOMAIN blocks : blocks[i].kind # "reply",
         controller' \in [Controllers -> StateOver(added)], SameRequests,
         UNCHANGED <<stored, added, answers>>, PlainType'
  PROVE  IInv'
<1>1. executor \in Seq(BlockOver(added))
  BY DEF IInv, DataType
<1>2. executor' \in Seq(BlockOver(added))
  BY <1>1, BlocksAfterRun
<1>3. DataType'
  BY <1>2 DEF IInv, DataType
<1>4. InProgressHasRequest'
  <2>1. ASSUME NEW d \in Controllers
        PROVE  OwnRequest(d)'
    <3>1. /\ RepliesOf(d)' # {} <=> RepliesOf(d) \ {1} # {}
          /\ (\A i, j \in RepliesOf(d) : i = j) => (\A i, j \in RepliesOf(d)' : i = j)
      BY <1>1, RepliesAfterRun
    <3>2. 1 \notin RepliesOf(d)
      BY DEF RepliesOf
    <3>3. OwnRequest(d)
      BY OwnRequests DEF IInv
    <3>4. QED
      BY <3>1, <3>2, <3>3 DEF OwnRequest, SameRequests
  <2>2. QED
    BY <2>1, OwnRequestsNext
<1>5. IdleHasNoRequest'
  BY DEF IInv, IdleHasNoRequest, SameRequests
<1>6. Settled' = Settled
  BY DEF Settled
<1>7. DefiniteIsSettled'
  <2>1. ASSUME NEW i \in DOMAIN executor', executor'[i].kind = "reply",
               executor'[i].reply \in Definite
        PROVE  controller'[executor'[i].ctl].request.model.events \subseteq Settled
    <3>1. i + 1 \in DOMAIN executor /\ executor'[i] = executor[i + 1]
      BY <1>1, <2>1, BlocksAfterRun
    <3>2. executor[i + 1] \in BlockOver(added)
      BY <1>1, <3>1
    <3>3. executor[i + 1].ctl \in Controllers
      BY <2>1, <3>1, <3>2 DEF BlockOver, Perform, CancelPending, Callback
    <3>4. QED
      BY <2>1, <3>1, <3>3 DEF IInv, DefiniteIsSettled, SameRequests
  <2>2. QED
    BY <1>6, <2>1 DEF DefiniteIsSettled
<1>8. NoLoss'
  BY <1>6 DEF IInv, NoLoss
<1>9. QED
  BY <1>3, <1>4, <1>5, <1>7, <1>8 DEF IInv
LEMMA PlainBlocks ==
  ASSUME NEW A
  PROVE  /\ \A b \in {Perform, CancelPending, Callback} : b \in BlockOver(A) /\ b.kind # "reply"
         /\ \A c \in Controllers : CancelOf(c) \in BlockOver(A) /\ CancelOf(c).kind # "reply"
         /\ \A c \in Controllers, ms \in Seq(ModelOver(A)) :
              AppendTo(c, ms) \in BlockOver(A) /\ AppendTo(c, ms).kind # "reply"
  BY DEF BlockOver, Perform, CancelPending, Callback, CancelOf, AppendTo

\* The head of the executor, when it is not a reply.
LEMMA HeadKind ==
  ASSUME IInv, NEW kind, Running(kind)
  PROVE  /\ executor # <<>> /\ Head(executor) = executor[1] /\ executor[1].kind = kind
         /\ executor[1] \in BlockOver(added)
         /\ Tail(executor) \in Seq(BlockOver(added))
         /\ Tail(executor) = Tail(executor) \o <<>>
<1>1. executor \in Seq(BlockOver(added)) /\ executor # <<>>
  BY DEF IInv, DataType, Running
<1>2. Tail(executor) \in Seq(BlockOver(added))
  BY <1>1
<1>3. Tail(executor) = Tail(executor) \o <<>>
  BY <1>2, ConcatEmptySeq
<1>4. QED
  BY <1>1, <1>2, <1>3 DEF Running

LEMMA NoBlocks ==
  ASSUME NEW A
  PROVE  <<>> \in Seq(BlockOver(A)) /\ \A i \in DOMAIN <<>> : <<>>[i].kind # "reply"
  OBVIOUS

LEMMA OneBlock ==
  ASSUME NEW A, NEW b \in BlockOver(A), b.kind # "reply"
  PROVE  <<b>> \in Seq(BlockOver(A)) /\ \A i \in DOMAIN <<b>> : <<b>>[i].kind # "reply"
  OBVIOUS

LEMMA TwoBlocks ==
  ASSUME NEW A, NEW b \in BlockOver(A), b.kind # "reply",
         NEW d \in BlockOver(A), d.kind # "reply"
  PROVE  <<b, d>> \in Seq(BlockOver(A)) /\ \A i \in DOMAIN <<b, d>> : <<b, d>>[i].kind # "reply"
  OBVIOUS

\* -performNextReport posts nothing or one block that is no reply.
LEMMA PerformNextReportBlocks ==
  ASSUME NEW onExecutor \in Seq(BlockOver(added)), PerformNextReport(onExecutor)
  PROVE  /\ \E blocks \in {<<>>, <<Perform>>} : executor' = onExecutor \o blocks
         /\ queued' \in BOOLEAN
         /\ isWorking' \in {isWorking, FALSE}
<1>1. onExecutor \o <<>> = onExecutor
  BY ConcatEmptySeq
<1>2. \A b : Append(onExecutor, b) = onExecutor \o <<b>>
  BY AppendIsConcat
<1>3. QED
  BY <1>1, <1>2 DEF PerformNextReport

LEMMA RunCallbackStep ==
  ASSUME IInv, RunCallback
  PROVE  IInv'
<1>1. /\ executor # <<>> /\ executor[1].kind # "reply"
      /\ Tail(executor) \in Seq(BlockOver(added))
  BY HeadKind DEF RunCallback
<1>2. PerformNextReport(Tail(executor))
  BY DEF RunCallback
<1>3. PICK blocks \in {<<>>, <<Perform>>} : executor' = Tail(executor) \o blocks
  BY <1>1, <1>2, PerformNextReportBlocks
<1>4. blocks \in Seq(BlockOver(added)) /\ \A i \in DOMAIN blocks : blocks[i].kind # "reply"
  BY PlainBlocks, NoBlocks, OneBlock
<1>5. PlainType'
  <2>1. queued' \in BOOLEAN /\ isWorking' \in BOOLEAN
    BY <1>1, <1>2, PerformNextReportBlocks DEF IInv, PlainType
  <2>2. QED
    BY <2>1 DEF RunCallback, IInv, PlainType, history, bounds
<1>6. QED
  BY <1>1, <1>3, <1>4, <1>5, QuietRun
     DEF RunCallback, SameRequests, history, IInv, DataType

LEMMA RunPerformStep ==
  ASSUME IInv, RunPerform
  PROVE  IInv'
<1>1. /\ executor # <<>> /\ executor[1].kind # "reply"
      /\ Tail(executor) \in Seq(BlockOver(added))
  BY HeadKind DEF RunPerform
<1>2. CASE PerformNextReport(Tail(executor)) /\ UNCHANGED proxyState
  <2>1. PICK blocks \in {<<>>, <<Perform>>} : executor' = Tail(executor) \o blocks
    BY <1>1, <1>2, PerformNextReportBlocks
  <2>2. blocks \in Seq(BlockOver(added)) /\ \A i \in DOMAIN blocks : blocks[i].kind # "reply"
    BY PlainBlocks, NoBlocks, OneBlock
  <2>3. PlainType'
    <3>1. queued' \in BOOLEAN /\ isWorking' \in BOOLEAN
      BY <1>1, <1>2, PerformNextReportBlocks DEF IInv, PlainType
    <3>2. QED
      BY <1>2, <3>1 DEF RunPerform, IInv, PlainType, history, bounds
  <2>4. QED
    BY <1>1, <2>1, <2>2, <2>3, QuietRun
       DEF RunPerform, SameRequests, history, IInv, DataType
<1>3. CASE ~(PerformNextReport(Tail(executor)) /\ UNCHANGED proxyState)
  <2> DEFINE tracking == TrackingModels(Collected(stored))
             regular  == RegularModels(Collected(stored))
             ForTracking == IF tracking = <<>> THEN <<>> ELSE <<AppendTo("tracking", tracking)>>
             blocks == <<AppendTo("regular", regular)>> \o ForTracking
  <2>1. /\ executor' = Tail(executor) \o blocks
        /\ proxyState' = [regular  |-> "InProgress",
                          tracking |-> IF tracking = <<>> THEN "Completed" ELSE "InProgress"]
        /\ UNCHANGED <<queued, isWorking>>
    BY <1>3 DEF RunPerform, Post
  <2>2. Collected(stored) \in SUBSET Events /\ Collected(stored) \subseteq added
    BY DEF IInv, DataType, Collected, First
  <2>3. regular \in Seq(ModelOver(added)) /\ tracking \in Seq(ModelOver(added))
    BY <2>2, RegularModelsOver, TrackingModelsOver, ModelOverMonotone
  <2>4. "regular" \in Controllers /\ "tracking" \in Controllers
    BY DEF Controllers
  <2> DEFINE Quiet == {b \in BlockOver(added) : b.kind # "reply"}
  <2>5. AppendTo("regular", regular) \in Quiet /\ AppendTo("tracking", tracking) \in Quiet
    BY <2>3, <2>4, PlainBlocks
  <2> HIDE DEF Quiet, tracking, regular
  <2>6. <<AppendTo("regular", regular)>> \in Seq(Quiet) /\ ForTracking \in Seq(Quiet)
    BY <2>5
  <2>7. blocks \in Seq(Quiet)
    BY <2>6
  <2> HIDE DEF blocks
  <2>8. blocks \in Seq(BlockOver(added)) /\ \A i \in DOMAIN blocks : blocks[i].kind # "reply"
    BY <2>7 DEF Quiet
  <2>9. PlainType'
    <3>1. proxyState' \in [Controllers -> {"NotStarted", "InProgress", "Completed"}]
      BY <2>1 DEF Controllers
    <3>2. QED
      BY <2>1, <3>1 DEF RunPerform, IInv, PlainType, history, bounds
  <2>10. QED
    BY <1>1, <2>1, <2>8, <2>9, QuietRun
       DEF RunPerform, SameRequests, history, IInv, DataType
<1>4. QED
  BY <1>2, <1>3

LEMMA RunAppendStep ==
  ASSUME IInv, RunAppend
  PROVE  IInv' /\ stored' = stored
<1>1. /\ executor # <<>> /\ Head(executor) = executor[1] /\ executor[1].kind = "append"
      /\ executor[1] \in BlockOver(added)
      /\ Tail(executor) \in Seq(BlockOver(added))
  BY HeadKind DEF RunAppend
<1>2. executor[1].ctl \in Controllers /\ executor[1].models \in Seq(ModelOver(added))
  BY <1>1 DEF BlockOver, Perform, CancelPending, Callback
<1> DEFINE c == executor[1].ctl
           s == [controller[c] EXCEPT !.models = @ \o executor[1].models]
<1>3. controller[c] \in StateOver(added) /\ controller \in [Controllers -> StateOver(added)]
  BY <1>2 DEF IInv, DataType
<1>4. /\ s \in StateOver(added)
      /\ s.inProgress = controller[c].inProgress
      /\ s.requestor = controller[c].requestor
      /\ s.request = controller[c].request
  <2>1. controller[c].models \o executor[1].models \in Seq(ModelOver(added))
    BY <1>2, <1>3 DEF StateOver
  <2>2. QED
    BY <1>3, <2>1 DEF StateOver
<1>5. \/ /\ s.inProgress /\ Set(c, s) /\ Post(<<>>)
         /\ UNCHANGED <<stored, requestID, denied, proxyState, lastPurge>>
      \/ /\ ~s.inProgress /\ UNCHANGED denied
         /\ PerformNextRequest(c, [s EXCEPT !.inProgress = TRUE], stored, requestID)
  BY <1>1 DEF RunAppend
<1> HIDE DEF c, s
<1>6. CASE /\ s.inProgress /\ Set(c, s) /\ Post(<<>>)
           /\ UNCHANGED <<stored, requestID, denied, proxyState, lastPurge>>
  <2>1. /\ controller' = [controller EXCEPT ![c] = s]
        /\ executor' = Tail(executor) \o <<>>
    BY <1>6 DEF Set, Post
  <2>2. PlainType'
    BY <1>6 DEF RunAppend, IInv, PlainType, bounds
  <2>3. controller' \in [Controllers -> StateOver(added)] /\ SameRequests
    BY <1>3, <1>4, <2>1 DEF SameRequests
  <2>4. QED
    BY <1>1, <1>6, <2>1, <2>2, <2>3, NoBlocks, QuietRun DEF RunAppend
<1>7. CASE /\ ~s.inProgress /\ UNCHANGED denied
           /\ PerformNextRequest(c, [s EXCEPT !.inProgress = TRUE], stored, requestID)
  <2> DEFINE begun == [s EXCEPT !.inProgress = TRUE]
  <2>1. c \in Controllers
    BY <1>2 DEF c
  <2>2. controller[c].requestor = "none" /\ controller[c].request = NoRequest
    <3>1. OwnRequest(c)
      BY <2>1, OwnRequests DEF IInv
    <3>2. QED
      BY <1>4, <1>7, <2>1, <3>1 DEF OwnRequest, IInv, IdleHasNoRequest
  <2>3. begun \in StateOver(added) /\ begun.inProgress /\ begun.request.model.events \subseteq {}
    <3>1. s \in StateOver(added) /\ s.request = NoRequest
      BY <1>4, <2>2
    <3>2. begun \in StateOver(added) /\ begun.inProgress /\ begun.request = NoRequest
      BY <3>1 DEF StateOver
    <3>3. QED
      BY <3>2 DEF NoRequest, NoModel
  <2>4. PerformNextRequest(c, begun, stored, requestID)
    BY <1>7
  <2> HIDE DEF begun
  <2>5. Outcome(added, c, {})
    BY <2>1, <2>3, <2>4, ControllerFacts, PerformNextRequestOutcome
  <2>6. /\ denied' \in [Controllers -> BOOLEAN]
        /\ lastAck' \in [Controllers -> Nat] /\ lostAck' \in [Controllers -> Nat]
        /\ UNCHANGED <<queued, isWorking, added, answers, bounds>>
    BY <1>7 DEF RunAppend, IInv, PlainType
  <2>7. executor[1].kind # "reply"
    BY <1>1
  <2>8. stored' = stored
    BY <2>5 DEF Outcome
  <2>9. QED
    BY <1>1, <2>1, <2>2, <2>5, <2>6, <2>7, <2>8, OutcomeStep
<1>8. QED
  BY <1>5, <1>6, <1>7

LEMMA RunCancelStep ==
  ASSUME IInv, RunCancel
  PROVE  IInv'
<1>1. /\ executor # <<>> /\ Head(executor) = executor[1] /\ executor[1].kind = "cancel"
      /\ executor[1] \in BlockOver(added)
  BY HeadKind DEF RunCancel
<1>2. executor[1].ctl \in Controllers
  BY <1>1 DEF BlockOver, Perform, CancelPending, Callback
<1> DEFINE c == executor[1].ctl
           t == [controller[c] EXCEPT !.retry = FALSE, !.models = <<>>]
<1>3. controller \in [Controllers -> StateOver(added)]
  BY DEF IInv, DataType
<1>4. /\ t \in StateOver(added)
      /\ t.inProgress = controller[c].inProgress
      /\ t.requestor = controller[c].requestor
      /\ t.request = controller[c].request
  <2>1. controller[c] \in StateOver(added) /\ <<>> \in Seq(ModelOver(added))
    BY <1>2, <1>3
  <2>2. QED
    BY <2>1 DEF StateOver
<1>5. controller' = [controller EXCEPT ![c] = t] /\ executor' = Tail(executor) \o <<>>
  BY <1>1 DEF RunCancel, Set, Post
<1> HIDE DEF c, t
<1>6. controller' \in [Controllers -> StateOver(added)] /\ SameRequests
  BY <1>3, <1>4, <1>5 DEF SameRequests
<1>7. PlainType'
  BY DEF RunCancel, IInv, PlainType, history, bounds
<1>8. QED
  BY <1>1, <1>5, <1>6, <1>7, NoBlocks, QuietRun DEF RunCancel, history

LEMMA RunCancelPendingStep ==
  ASSUME IInv, RunCancelPending
  PROVE  IInv'
<1> DEFINE blocks == <<CancelOf("regular"), CancelOf("tracking")>>
<1>1. executor # <<>> /\ executor[1].kind # "reply"
  BY HeadKind DEF RunCancelPending
<1>2. executor' = Tail(executor) \o blocks
  BY DEF RunCancelPending, Post
<1>3. blocks \in Seq(BlockOver(added)) /\ \A i \in DOMAIN blocks : blocks[i].kind # "reply"
  BY PlainBlocks, TwoBlocks DEF Controllers
<1> HIDE DEF blocks
<1>4. PlainType'
  BY DEF RunCancelPending, IInv, PlainType, history, bounds
<1>5. QED
  BY <1>1, <1>2, <1>3, <1>4, QuietRun
     DEF RunCancelPending, SameRequests, history, IInv, DataType

LEMMA RunReplyStep ==
  ASSUME IInv, NEW c \in Controllers,
         \/ DidReportRequest(c) \/ UnknownStatus(c) \/ BadRequest(c)
         \/ EntityTooLarge(c) \/ RequestFailed(c)
  PROVE  IInv'
<1>1. PICK old \in SUBSET Settled : Outcome(added, c, old)
  BY ReplyOutcome
<1>2. PICK r \in Replies : ReplyOf(c, r)
  BY DEF DidReportRequest, UnknownStatus, BadRequest, EntityTooLarge, RequestFailed, Replies
<1>3. executor # <<>> /\ controller[c].requestor = "answered" /\ 1 \in RepliesOf(c)
  <2>1. /\ executor # <<>> /\ executor[1] = ReplyTo(c, r) /\ 1 \in DOMAIN executor
        /\ controller[c].requestor = "answered"
    BY <1>2, HeadReply
  <2>2. executor[1].kind = "reply" /\ executor[1].ctl = c
    BY <2>1 DEF ReplyTo
  <2>3. QED
    BY <2>1, <2>2 DEF RepliesOf
<1>4. UNCHANGED <<queued, isWorking, added, answers, bounds>>
  BY DEF DidReportRequest, UnknownStatus, BadRequest, EntityTooLarge, RequestFailed, ReplyRest
<1>5. /\ denied \in [Controllers -> BOOLEAN]
      /\ lastAck \in [Controllers -> Nat] /\ lostAck \in [Controllers -> Nat]
  BY DEF IInv, PlainType
<1>6. lastAck' \in [Controllers -> Nat] /\ lostAck' \in [Controllers -> Nat]
  BY <1>5 DEF DidReportRequest, UnknownStatus, BadRequest, EntityTooLarge, RequestFailed, ReplyRest
<1>7. denied' \in [Controllers -> BOOLEAN]
  <2>1. CASE RequestFailed(c)
    BY <1>5, <2>1 DEF RequestFailed, RetryOnNextHost
  <2>2. CASE ~RequestFailed(c)
    BY <1>5, <2>2 DEF DidReportRequest, UnknownStatus, BadRequest, EntityTooLarge
  <2>3. QED
    BY <2>1, <2>2
<1>8. QED
  BY <1>1, <1>3, <1>4, <1>6, <1>7, OutcomeStep
\* A step of another thread that posts at most one block, no reply.
LEMMA QuietPost ==
  ASSUME IInv, NEW block \in BlockOver(added), block.kind # "reply",
         executor' = executor \/ executor' = Append(executor, block),
         UNCHANGED <<controller, stored, added, answers>>, PlainType'
  PROVE  IInv'
<1>1. executor \in Seq(BlockOver(added))
  BY DEF IInv, DataType
<1>2. /\ executor' \in Seq(BlockOver(added))
      /\ \A i \in DOMAIN executor : i \in DOMAIN executor' /\ executor'[i] = executor[i]
      /\ \A i \in DOMAIN executor' : executor'[i].kind = "reply" =>
           i \in DOMAIN executor /\ executor'[i] = executor[i]
  BY <1>1, BlocksAfterPost
<1>3. \A c \in Controllers : RepliesOf(c)' = RepliesOf(c)
  BY <1>2 DEF RepliesOf
<1>4. InProgressHasRequest'
  BY <1>3, OwnRequests, OwnRequestsNext DEF IInv, OwnRequest
<1>5. DataType' /\ IdleHasNoRequest'
  BY <1>2 DEF IInv, DataType, IdleHasNoRequest
<1>6. Settled' = Settled
  BY DEF Settled
<1>7. DefiniteIsSettled' /\ NoLoss'
  BY <1>2, <1>6 DEF IInv, DefiniteIsSettled, NoLoss
<1>8. QED
  BY <1>4, <1>5, <1>7 DEF IInv

LEMMA PerformReportStep ==
  ASSUME IInv, PerformReportForApiKey
  PROVE  IInv'
<1>1. Perform \in BlockOver(added) /\ Perform.kind # "reply"
  BY PlainBlocks
<1>2. executor' = executor \/ executor' = Append(executor, Perform)
  BY DEF PerformReportForApiKey
<1>3. PlainType'
  <2>1. calls' \in 0..MaxCalls
    BY ReportDeliveryAssumption
       DEF PerformReportForApiKey, IInv, PlainType, ReportDeliveryAssumption
  <2>2. queued' \in BOOLEAN /\ isWorking' \in BOOLEAN
    BY DEF PerformReportForApiKey, IInv, PlainType
  <2>3. UNCHANGED <<requestID, proxyState, denied, lastAck, lostAck, lastPurge, shutdowns, restarts>>
    BY DEF PerformReportForApiKey, history
  <2>4. QED
    BY <2>1, <2>2, <2>3 DEF IInv, PlainType
<1>4. QED
  BY <1>1, <1>2, <1>3, QuietPost DEF PerformReportForApiKey, history

LEMMA ShutdownStep ==
  ASSUME IInv, Shutdown
  PROVE  IInv'
<1>1. CancelPending \in BlockOver(added) /\ CancelPending.kind # "reply"
  BY PlainBlocks
<1>2. executor' = Append(executor, CancelPending)
  BY DEF Shutdown
<1>3. PlainType'
  BY ReportDeliveryAssumption DEF Shutdown, IInv, PlainType, history, ReportDeliveryAssumption
<1>4. QED
  BY <1>1, <1>2, <1>3, QuietPost DEF Shutdown, history

LEMMA PolicyStep ==
  ASSUME IInv, NEW c \in Controllers, DenyRequests(c) \/ IntervalElapses(c)
  PROVE  IInv'
<1>1. Perform \in BlockOver(added) /\ Perform.kind # "reply"
  BY PlainBlocks
<1>2. PlainType' /\ UNCHANGED <<executor, controller, stored, added, answers>>
  BY DEF DenyRequests, IntervalElapses, IInv, PlainType, memory, history, bounds
<1>3. QED
  BY <1>1, <1>2, QuietPost

LEMMA StutterStep ==
  ASSUME IInv, UNCHANGED vars
  PROVE  IInv'
<1>1. Perform \in BlockOver(added) /\ Perform.kind # "reply"
  BY PlainBlocks
<1>2. PlainType' /\ UNCHANGED <<executor, controller, stored, added, answers>>
  BY DEF IInv, PlainType, vars, memory, history, bounds
<1>3. QED
  BY <1>1, <1>2, QuietPost

LEMMA OverMonotone ==
  ASSUME NEW A, NEW B, A \subseteq B
  PROVE  StateOver(A) \subseteq StateOver(B) /\ BlockOver(A) \subseteq BlockOver(B)
<1>1. ModelOver(A) \subseteq ModelOver(B) /\ Seq(ModelOver(A)) \subseteq Seq(ModelOver(B))
  BY ModelOverMonotone
<1> DEFINE M == ModelOver(A)
           N == ModelOver(B)
           SM == Seq(ModelOver(A))
           SN == Seq(ModelOver(B))
<1> HIDE DEF M, N, SM, SN
<1>2. M \subseteq N /\ SM \subseteq SN
  BY <1>1 DEF M, N, SM, SN
<1>3. /\ StateOver(A) = [inProgress : BOOLEAN, retry : BOOLEAN, models : SM,
                         request : [model : M, id : Nat],
                         requestor : {"none", "waiting", "answered"}, hostsLeft : Nat]
      /\ StateOver(B) = [inProgress : BOOLEAN, retry : BOOLEAN, models : SN,
                         request : [model : N, id : Nat],
                         requestor : {"none", "waiting", "answered"}, hostsLeft : Nat]
  BY DEF StateOver, M, N, SM, SN
<1>4. StateOver(A) \subseteq StateOver(B)
  BY <1>2, <1>3
<1>5. BlockOver(A) \subseteq BlockOver(B)
  BY <1>2 DEF BlockOver, SM, SN
<1>6. QED
  BY <1>4, <1>5

LEMMA AddEventStep ==
  ASSUME IInv, NEW e \in Events, AddEvent(e)
  PROVE  IInv'
<1>1. /\ added' = added \cup {e} /\ stored' = stored \cup {e}
      /\ UNCHANGED <<executor, controller, answers>>
      /\ PlainType'
  BY DEF AddEvent, memory, bounds, IInv, PlainType
<1>2. DataType'
  <2>1. added \subseteq added' /\ added' \subseteq Events /\ stored' \subseteq added'
    BY <1>1 DEF IInv, DataType
  <2>2. StateOver(added) \subseteq StateOver(added') /\ BlockOver(added) \subseteq BlockOver(added')
    BY <2>1, OverMonotone
  <2>3. executor' \in Seq(BlockOver(added')) /\ controller' \in [Controllers -> StateOver(added')]
    <3>1. executor \in Seq(BlockOver(added)) /\ controller \in [Controllers -> StateOver(added)]
      BY DEF IInv, DataType
    <3>2. executor \in Seq(BlockOver(added'))
      BY <2>2, <3>1, SeqMonotonic
    <3>3. controller \in [Controllers -> StateOver(added')]
      BY <2>2, <3>1
    <3>4. QED
      BY <1>1, <3>2, <3>3
  <2>4. answers' \subseteq [model : SUBSET added', reply : Definite]
    BY <1>1, <2>1 DEF IInv, DataType
  <2>5. QED
    BY <2>1, <2>3, <2>4 DEF DataType
<1>3. InProgressHasRequest' /\ IdleHasNoRequest'
  BY <1>1 DEF IInv, InProgressHasRequest, IdleHasNoRequest
<1>4. Settled' = Settled
  BY <1>1 DEF Settled
<1>5. DefiniteIsSettled' /\ NoLoss'
  BY <1>1, <1>4 DEF IInv, DefiniteIsSettled, NoLoss
<1>6. QED
  BY <1>1, <1>2, <1>3, <1>5 DEF IInv

LEMMA ReplyStep ==
  ASSUME IInv, NEW c \in Controllers, NEW r \in Replies, Reply(c, r)
  PROVE  /\ IInv'
         /\ Settled' = Settled \/ Settled' = Settled \cup controller[c].request.model.events
<1> DEFINE t == [controller[c] EXCEPT !.requestor = "answered"]
           carried == controller[c].request.model.events
<1>1. /\ executor \in Seq(BlockOver(added)) /\ controller \in [Controllers -> StateOver(added)]
      /\ controller[c] \in StateOver(added) /\ carried \subseteq added
  BY DEF IInv, DataType, StateOver, ModelOver
<1>2. /\ t \in StateOver(added) /\ t.requestor = "answered"
      /\ t.inProgress = controller[c].inProgress /\ t.request = controller[c].request
  BY <1>1 DEF StateOver
<1>3. /\ controller' = [controller EXCEPT ![c] = t]
      /\ executor' = Append(executor, ReplyTo(c, r))
      /\ controller[c].requestor = "waiting"
      /\ UNCHANGED <<stored, added>>
  BY DEF Reply, Set
<1> HIDE DEF t
<1>4. /\ r \in Definite => answers' = answers \cup {[model |-> carried, reply |-> r]}
      /\ r \notin Definite => answers' = answers
  BY DEF Reply
<1> HIDE DEF carried
<1>5. /\ ReplyTo(c, r) \in BlockOver(added) /\ ReplyTo(c, r).kind = "reply"
      /\ ReplyTo(c, r).ctl = c /\ ReplyTo(c, r).reply = r
  BY DEF ReplyTo, BlockOver
<1> DEFINE last == Len(executor) + 1
<1>6. /\ executor' \in Seq(BlockOver(added))
      /\ DOMAIN executor' = DOMAIN executor \cup {last}
      /\ last \notin DOMAIN executor
      /\ executor'[last] = ReplyTo(c, r)
      /\ \A i \in DOMAIN executor : executor'[i] = executor[i]
  BY <1>1, <1>3, <1>5, BlocksAfterPost
<1> HIDE DEF last
<1>7. /\ r \in Definite => Settled' = Settled \cup carried
      /\ r \notin Definite => Settled' = Settled
  <2>1. CASE r \in Definite
    <3> DEFINE answer == [model |-> carried, reply |-> r]
    <3>1. answers' = answers \cup {answer} /\ answer.model = carried
      BY <1>4, <2>1
    <3> HIDE DEF answer
    <3>2. \A e : e \in Settled' <=> \E a \in answers' : e \in a.model
      BY DEF Settled
    <3>3. \A e : e \in Settled <=> \E a \in answers : e \in a.model
      BY DEF Settled
    <3>4. \A e : e \in Settled' <=> e \in Settled \/ e \in answer.model
      BY <3>1, <3>2, <3>3
    <3>5. Settled' = Settled \cup carried
      BY <3>1, <3>4
    <3>6. QED
      BY <2>1, <3>5
  <2>2. CASE r \notin Definite
    BY <1>4, <2>2 DEF Settled
  <2>3. QED
    BY <2>1, <2>2
<1>8. DataType'
  <2>1. answers' \subseteq [model : SUBSET added', reply : Definite]
    BY <1>1, <1>3, <1>4 DEF IInv, DataType
  <2>2. QED
    BY <1>1, <1>2, <1>3, <1>6, <2>1 DEF IInv, DataType
<1>9. InProgressHasRequest'
  <2>1. \A d \in Controllers : OwnRequest(d)
    BY OwnRequests DEF IInv
  <2>2. RepliesOf(c) = {}
    BY <1>3, <2>1 DEF OwnRequest
  <2>3. RepliesOf(c)' = {last}
    BY <1>5, <1>6, <2>2 DEF RepliesOf
  <2>4. \A d \in Controllers \ {c} : RepliesOf(d)' = RepliesOf(d)
    BY <1>5, <1>6 DEF RepliesOf
  <2>5. OwnRequest(c)'
    BY <1>1, <1>2, <1>3, <2>1, <2>3 DEF OwnRequest
  <2>6. \A d \in Controllers \ {c} : OwnRequest(d)'
    BY <1>1, <1>3, <2>1, <2>4 DEF OwnRequest
  <2>7. QED
    BY <2>5, <2>6, OwnRequestsNext
<1>10. IdleHasNoRequest'
  BY <1>1, <1>2, <1>3 DEF IInv, IdleHasNoRequest
<1>11. DefiniteIsSettled'
  <2>1. \A d \in Controllers : controller'[d].request = controller[d].request
    BY <1>1, <1>2, <1>3
  <2>2. Settled \subseteq Settled'
    BY <1>7
  <2>3. ASSUME NEW i \in DOMAIN executor', executor'[i].kind = "reply",
               executor'[i].reply \in Definite
        PROVE  controller'[executor'[i].ctl].request.model.events \subseteq Settled'
    <3>1. CASE i = last
      <4>1. executor'[i].ctl = c /\ r \in Definite
        BY <1>5, <1>6, <2>3, <3>1
      <4>2. QED
        BY <1>7, <2>1, <4>1 DEF carried
    <3>2. CASE i # last
      <4>1. i \in DOMAIN executor /\ executor'[i] = executor[i]
        BY <1>6, <3>2
      <4>2. executor[i].ctl \in Controllers
        <5>1. executor[i] \in BlockOver(added)
          BY <1>1, <4>1
        <5>2. QED
          BY <2>3, <4>1, <5>1 DEF BlockOver, Perform, CancelPending, Callback
      <4>3. controller[executor[i].ctl].request.model.events \subseteq Settled
        BY <2>3, <4>1 DEF IInv, DefiniteIsSettled
      <4>4. QED
        BY <2>1, <2>2, <4>1, <4>2, <4>3
    <3>3. QED
      BY <3>1, <3>2
  <2>4. QED
    BY <2>3 DEF DefiniteIsSettled
<1>12. NoLoss'
  BY <1>3, <1>7 DEF IInv, NoLoss
<1>13. PlainType'
  <2>1. lastAck' \in [Controllers -> Nat]
    BY <1>1 DEF Reply, IInv, PlainType, StateOver
  <2>2. QED
    BY <2>1 DEF Reply, bounds, IInv, PlainType
<1>14. QED
  BY <1>3, <1>7, <1>8, <1>9, <1>10, <1>11, <1>12, <1>13 DEF IInv, carried

LEMMA RelaunchStep ==
  ASSUME IInv, Relaunch
  PROVE  IInv'
<1>1. IdleController \in StateOver(added)
  BY NoModelOver DEF IdleController, StateOver, NoRequest
<1>2. executor' = <<>> /\ controller' = [c \in Controllers |-> IdleController]
  BY DEF Relaunch
<1>3. PlainType'
  <2>1. restarts' \in 0..MaxRestarts
    BY ReportDeliveryAssumption DEF Relaunch, IInv, PlainType, ReportDeliveryAssumption
  <2>2. proxyState' \in [Controllers -> {"NotStarted", "InProgress", "Completed"}]
    BY DEF Relaunch
  <2>3. queued' \in BOOLEAN /\ isWorking' \in BOOLEAN
    BY DEF Relaunch
  <2>4. UNCHANGED <<requestID, denied, lastAck, lastPurge, calls, shutdowns>>
    BY DEF Relaunch
  <2>5. lostAck' \in [Controllers -> Nat]
    BY DEF Relaunch, IInv, PlainType
  <2>6. QED
    BY <2>1, <2>2, <2>3, <2>4, <2>5 DEF IInv, PlainType
<1>4. DataType'
  BY <1>1, <1>2 DEF Relaunch, IInv, DataType, history
<1>5. DOMAIN executor' = {}
  BY <1>2
<1>6. InProgressHasRequest' /\ IdleHasNoRequest' /\ DefiniteIsSettled'
  BY <1>2, <1>5 DEF InProgressHasRequest, IdleHasNoRequest, DefiniteIsSettled, IdleController
<1>7. NoLoss'
  BY DEF Relaunch, IInv, NoLoss, Settled, history
<1>8. QED
  BY <1>3, <1>4, <1>6, <1>7 DEF IInv

LEMMA IInvInit == Init => IInv
<1> SUFFICES ASSUME Init PROVE IInv
  OBVIOUS
<1>1. IdleController \in StateOver(added)
  BY NoModelOver DEF IdleController, StateOver, NoRequest
<1>2. NoModel \in Model
  BY DEF NoModel, Model
<1>3. PlainType
  <2>1. calls \in 0..MaxCalls /\ shutdowns \in 0..MaxShutdowns /\ restarts \in 0..MaxRestarts
    BY ReportDeliveryAssumption DEF Init, ReportDeliveryAssumption
  <2>2. /\ proxyState \in [Controllers -> {"NotStarted", "InProgress", "Completed"}]
        /\ denied \in [Controllers -> BOOLEAN]
        /\ lastAck \in [Controllers -> Nat] /\ lostAck \in [Controllers -> Nat]
    BY DEF Init
  <2>3. lastPurge \in [failed : Model, purged : Model]
    BY <1>2 DEF Init, NoPurge
  <2>4. requestID \in Nat \ {0} /\ queued \in BOOLEAN /\ isWorking \in BOOLEAN
    <3>1. requestID \in Nat \ {0}
      BY DEF Init
    <3>2. queued \in BOOLEAN /\ isWorking \in BOOLEAN
      BY Zenon DEF Init
    <3>3. QED
      BY <3>1, <3>2
  <2>5. QED
    BY <2>1, <2>2, <2>3, <2>4 DEF PlainType
<1>4. DataType
  BY <1>1 DEF Init, DataType
<1>5. DOMAIN executor = {}
  BY DEF Init
<1>6. InProgressHasRequest /\ IdleHasNoRequest /\ DefiniteIsSettled
  BY <1>5 DEF Init, InProgressHasRequest, IdleHasNoRequest, DefiniteIsSettled, IdleController
<1>7. NoLoss
  BY DEF Init, NoLoss
<1>8. QED
  BY <1>3, <1>4, <1>6, <1>7 DEF IInv

LEMMA IInvStep ==
  ASSUME IInv, [Next]_vars
  PROVE  IInv'
<1>1. CASE RunBlock
  BY <1>1, RunCallbackStep, RunPerformStep, RunAppendStep, RunCancelStep, RunCancelPendingStep,
     RunReplyStep DEF RunBlock
<1>2. ASSUME NEW c \in Controllers, SomeReply(c) \/ DenyRequests(c) \/ IntervalElapses(c)
      PROVE  IInv'
  BY <1>2, ReplyStep, PolicyStep DEF SomeReply
<1>3. ASSUME NEW e \in Events, AddEvent(e)
      PROVE  IInv'
  BY <1>3, AddEventStep
<1>4. CASE PerformReportForApiKey
  BY <1>4, PerformReportStep
<1>5. CASE Shutdown
  BY <1>5, ShutdownStep
<1>6. CASE Relaunch
  BY <1>6, RelaunchStep
<1>7. CASE UNCHANGED vars
  BY <1>7, StutterStep
<1>8. QED
  BY <1>1, <1>2, <1>3, <1>4, <1>5, <1>6, <1>7 DEF Next

LEMMA IInvHolds == Spec => []IInv
<1>1. QED
  BY IInvInit, IInvStep, PTL DEF Spec

-----------------------------------------------------------------------------
(* The delivery handles events only, whatever is split, trimmed or retried, and
   its requests, blocks and counters keep their shape. *)
THEOREM TypeCorrect == Spec => []TypeOK
<1>1. IInv => TypeOK
  <2> SUFFICES ASSUME IInv PROVE TypeOK
    OBVIOUS
  <2>1. added \subseteq Events
    BY DEF IInv, DataType
  <2>2. StateOver(added) \subseteq StateOver(Events) /\ BlockOver(added) \subseteq BlockOver(Events)
    BY <2>1, OverMonotone
  <2>3. StateOver(Events) = ControllerState /\ BlockOver(Events) = Block
    BY DEF StateOver, ControllerState, BlockOver, Block, ModelOver, Model
  <2>4. controller \in [Controllers -> ControllerState] /\ executor \in Seq(Block)
    BY <2>2, <2>3 DEF IInv, DataType
  <2>5. answers \subseteq [model : SUBSET Events, reply : Definite]
    BY <2>1 DEF IInv, DataType
  <2>6. QED
    BY <2>1, <2>4, <2>5 DEF IInv, DataType, PlainType, TypeOK
<1>2. QED
  BY <1>1, IInvHolds, PTL

(* No event is lost: what is not in the store any more was in a request to which
   a server gave a definite answer, through every cancellation, split, retry,
   timeout and crash. *)
THEOREM NoEventIsLost == Spec => []NoLoss
<1>1. IInv => NoLoss
  BY DEF IInv
<1>2. QED
  BY <1>1, IInvHolds, PTL

(* A controller that is in progress has exactly one request of its own under
   way, with the network or with its reply waiting on the executor. *)
THEOREM RequestInProgress == Spec => []InProgressHasRequest
<1>1. IInv => InProgressHasRequest
  BY DEF IInv
<1>2. QED
  BY <1>1, IInvHolds, PTL
-----------------------------------------------------------------------------
(* The delivery implements the outbox. *)

\* A step that only takes settled events out of the store is a Purge.
LEMMA PurgeRefines ==
  ASSUME IInv, stored' \subseteq stored, stored \ stored' \subseteq Settled,
         UNCHANGED <<added, answers>>
  PROVE  Outbox!Next
<1> DEFINE gone == stored \ stored'
<1>1. gone \in SUBSET Events
  BY DEF IInv, DataType
<1>2. Settled' = Settled
  BY DEF Settled
<1>3. Outbox!Purge(gone)
  BY <1>2 DEF Outbox!Purge
<1>4. QED
  BY <1>1, <1>3 DEF Outbox!Next

LEMMA StepRefines ==
  ASSUME IInv, [Next]_vars
  PROVE  [Outbox!Next]_(Outbox!vars)
<1>1. CASE RunBlock
  <2>1. ASSUME RunCallback \/ RunPerform \/ RunCancel \/ RunCancelPending
        PROVE  UNCHANGED <<stored, added, answers>>
    BY <2>1 DEF RunCallback, RunPerform, RunCancel, RunCancelPending, history
  <2>2. ASSUME RunAppend
        PROVE  UNCHANGED <<stored, added, answers>>
    BY <2>2, RunAppendStep DEF RunAppend
  <2>3. ASSUME NEW c \in Controllers,
               \/ DidReportRequest(c) \/ UnknownStatus(c) \/ BadRequest(c)
               \/ EntityTooLarge(c) \/ RequestFailed(c)
        PROVE  Outbox!Next
    <3>1. stored' \subseteq stored /\ stored \ stored' \subseteq Settled
      BY <2>3, ReplyOutcome DEF Outcome
    <3>2. UNCHANGED <<added, answers>>
      BY <2>3
         DEF DidReportRequest, UnknownStatus, BadRequest, EntityTooLarge, RequestFailed, ReplyRest
    <3>3. QED
      BY <3>1, <3>2, PurgeRefines
  <2>4. ASSUME UNCHANGED <<stored, added, answers>>
        PROVE  UNCHANGED Outbox!vars
    BY <2>4 DEF Outbox!vars, Settled
  <2>5. QED
    BY <1>1, <2>1, <2>2, <2>3, <2>4 DEF RunBlock
<1>2. ASSUME NEW c \in Controllers, NEW r \in Replies, Reply(c, r)
      PROVE  [Outbox!Next]_(Outbox!vars)
  <2> DEFINE carried == controller[c].request.model.events
  <2>1. Settled' = Settled \/ Settled' = Settled \cup carried
    BY <1>2, ReplyStep
  <2>2. carried \subseteq added /\ added \subseteq Events
    BY ControllerFacts DEF ModelOver
  <2>3. UNCHANGED <<added, stored>>
    BY <1>2 DEF Reply
  <2> HIDE DEF carried
  <2>4. CASE Settled' = Settled
    BY <2>3, <2>4 DEF Outbox!vars
  <2>5. CASE Settled' = Settled \cup carried
    <3>1. Outbox!Settle(carried)
      BY <2>2, <2>3, <2>5 DEF Outbox!Settle
    <3>2. carried \in SUBSET Events
      BY <2>2
    <3>3. QED
      BY <3>1, <3>2 DEF Outbox!Next
  <2>6. QED
    BY <2>1, <2>4, <2>5
<1>3. ASSUME NEW e \in Events, AddEvent(e)
      PROVE  Outbox!Next
  <2>1. Settled' = Settled
    BY <1>3 DEF AddEvent, Settled
  <2>2. Outbox!Add(e)
    BY <1>3, <2>1 DEF AddEvent, Outbox!Add
  <2>3. QED
    BY <2>2 DEF Outbox!Next
<1>4. ASSUME UNCHANGED <<stored, added, answers>>
      PROVE  UNCHANGED Outbox!vars
  BY <1>4 DEF Outbox!vars, Settled
<1>5. ASSUME NEW c \in Controllers, DenyRequests(c) \/ IntervalElapses(c)
      PROVE  UNCHANGED <<stored, added, answers>>
  BY <1>5 DEF DenyRequests, IntervalElapses, history
<1>6. ASSUME \/ PerformReportForApiKey \/ Shutdown \/ Relaunch \/ UNCHANGED vars
      PROVE  UNCHANGED <<stored, added, answers>>
  BY <1>6 DEF PerformReportForApiKey, Shutdown, Relaunch, vars, history
<1>7. QED
  BY <1>1, <1>2, <1>3, <1>4, <1>5, <1>6 DEF Next, SomeReply

(* Whatever the controllers, their retries, splits and crashes do, the delivery
   behaves as an outbox: it deletes only events that a server has given a
   definite answer to. *)
THEOREM DeliveryIsAnOutbox == Spec => OutboxSpec
<1>1. Init => Outbox!Init
  BY DEF Init, Outbox!Init, Settled
<1>2. IInv /\ [Next]_vars => [Outbox!Next]_(Outbox!vars)
  BY StepRefines
<1>3. QED
  BY <1>1, <1>2, IInvHolds, PTL DEF Spec, OutboxSpec, Outbox!Spec
=============================================================================
