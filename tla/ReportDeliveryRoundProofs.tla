---------------------- MODULE ReportDeliveryRoundProofs ----------------------
(***************************************************************************)
(* More theorems about ReportDelivery: the identifiers of requests, the    *)
(* models that a round leaves behind, that a round is never waited for in  *)
(* vain, and, when there are no tracking events, that a round is one chain *)
(* whose requests carry only events that are stored.                       *)
(*                                                                         *)
(* The invariants here rest on IInv of ReportDeliveryProofs.               *)
(***************************************************************************)
EXTENDS ReportDeliveryProofs, FunctionTheorems

(* Identifiers: none comes from the future, and a request in progress, like the
   next one of an idle controller, has one that may be sent, unless it is the
   request whose acknowledgement waits on the executor. *)
Numbered ==
  \A c \in Controllers :
    /\ controller[c].requestor = "none" => MayBeSent(c, requestID)
    /\ controller[c].requestor # "none" =>
         /\ lastAck[c] <= controller[c].request.id
         /\ controller[c].request.id <= requestID
         /\ MayBeSent(c, controller[c].request.id) \/ AckPosted(c)

(* A round: a controller is active while it has a request or models to take, and
   the round closes when the dispatcher calls back and begins the next one.
   The proxy, which waits for the controllers that it holds to be in progress,
   is right about them unless the round closes anyway. *)
Active(c) ==
  \/ controller[c].requestor # "none"
  \/ \E i \in DOMAIN executor : executor[i].kind = "append" /\ executor[i].ctl = c

Closing == \E i \in DOMAIN executor : executor[i].kind \in {"perform", "callback"}

ProxyFollows ==
  isWorking /\ ~Closing =>
    /\ \E c \in Controllers : proxyState[c] = "InProgress"
    /\ \A c \in Controllers : proxyState[c] = "InProgress" => Active(c)

(* Without tracking events a round is one chain of a round to begin, models to
   take, a request in progress and a callback to make. *)
ChainKinds == {"perform", "append", "callback"}
Chains     == {i \in DOMAIN executor : executor[i].kind \in ChainKinds}

OneChain ==
  /\ \A i, j \in Chains : i = j
  /\ Chains # {} => ~controller["regular"].inProgress
  /\ isWorking <=> Chains # {} \/ controller["regular"].inProgress
  /\ proxyState["tracking"] # "InProgress" /\ ~controller["tracking"].inProgress

(* The models of a queue share no event, and carry only stored ones; and so for
   a controller, whose request is one of its models. *)
IsDisjoint(m, n) == m.events \cap n.events = {}

QueueProper(ms, db) ==
  /\ \A i \in DOMAIN ms : ms[i].events \subseteq db
  /\ \A i, j \in DOMAIN ms : i # j => IsDisjoint(ms[i], ms[j])

Proper(s, db) ==
  /\ QueueProper(s.models, db)
  /\ s.request.model.events \subseteq db
  /\ \A i \in DOMAIN s.models : IsDisjoint(s.models[i], s.request.model)

Batches ==
  \A i \in DOMAIN executor :
    executor[i].kind = "append" =>
      executor[i].ctl = "regular" /\ QueueProper(executor[i].models, stored)

\* The models of the last round are cleared before the next round takes any.
Clears ==
  \A i \in Chains :
    \/ controller["regular"].models = <<>>
    \/ \E j \in DOMAIN executor : j < i /\ executor[j] = CancelOf("regular")

Sends == controller["regular"].inProgress => Proper(controller["regular"], stored)

Round == OneChain /\ Batches /\ Clears /\ Sends

-----------------------------------------------------------------------------
(* The turn of controller c, which is in state s when it goes on: it sends a
   request, with one of the identifiers "ids", or it completes, clears its queue
   and maybe lets the dispatcher call back. *)
Sent(c, s, t, ids) ==
  /\ t.inProgress /\ t.requestor = "waiting"
  /\ t.request.id \in ids
  /\ executor' = Tail(executor) \o <<>>
  /\ UNCHANGED proxyState
  /\ Proper(s, stored) => Proper(t, stored')

Failed(c, t) ==
  /\ ~t.inProgress /\ t.requestor = "none"
  /\ executor' = Tail(executor) \o <<CancelOf(c), Callback>>
  /\ UNCHANGED proxyState

Finished(c, t) ==
  /\ ~t.inProgress /\ t.requestor = "none"
  /\ proxyState' = [proxyState EXCEPT ![c] = "Completed"]
  /\ executor' = Tail(executor) \o
       IF \A d \in Controllers : proxyState'[d] # "InProgress"
       THEN <<CancelOf(c), Callback>> ELSE <<CancelOf(c)>>

Turn(c, s, base, ids) ==
  /\ requestID' \in Nat /\ requestID' >= base
  /\ \E t \in StateOver(added) :
       /\ controller' = [controller EXCEPT ![c] = t]
       /\ Sent(c, s, t, ids) \/ Failed(c, t) \/ Finished(c, t)

LEMMA ConcatPair ==
  ASSUME NEW a, NEW b
  PROVE  <<a>> \o <<b>> = <<a, b>> /\ <<a>> \o <<>> = <<a>>
<1> DEFINE S == {a, b}
<1>1. /\ <<a>> \in Seq(S) /\ <<b>> \in Seq(S) /\ <<a, b>> \in Seq(S)
      /\ Len(<<a>>) = 1 /\ Len(<<b>>) = 1 /\ Len(<<a, b>>) = 2
  OBVIOUS
<1> HIDE DEF S
<1>2. <<a>> \o <<>> = <<a>>
  BY <1>1, ConcatEmptySeq
<1>3. /\ <<a>> \o <<b>> \in Seq(S) /\ Len(<<a>> \o <<b>>) = 1 + 1
      /\ \A i \in 1..(1 + 1) : (<<a>> \o <<b>>)[i] = IF i <= 1 THEN <<a>>[i] ELSE <<b>>[i - 1]
  BY <1>1, ConcatProperties
<1>4. \A i \in 1..2 : (<<a>> \o <<b>>)[i] = <<a, b>>[i]
  <2>1. (<<a>> \o <<b>>)[1] = a /\ (<<a>> \o <<b>>)[2] = b
    BY <1>3
  <2>2. <<a, b>>[1] = a /\ <<a, b>>[2] = b
    OBVIOUS
  <2>3. QED
    BY <2>1, <2>2
<1>5. ASSUME NEW p \in Seq(S), NEW q \in Seq(S), Len(p) = 2, Len(q) = 2,
             \A i \in 1..2 : p[i] = q[i]
      PROVE  p = q
  BY <1>5, SeqEqual
<1>6. Len(<<a>> \o <<b>>) = 2
  BY <1>3
<1>7. <<a>> \o <<b>> = <<a, b>>
  BY <1>1, <1>3, <1>4, <1>5, <1>6
<1>8. QED
  BY <1>2, <1>7

LEMMA CompleteWithErrorTurn ==
  ASSUME NEW c \in Controllers, NEW s, NEW u \in StateOver(added), NEW code, NEW passed,
         NEW failed, NEW db, NEW id \in Nat \ {0}, NEW ids,
         CompleteWithError(c, u, code, passed, failed, db, id)
  PROVE  Turn(c, s, id, ids)
<1>1. /\ controller' = [controller EXCEPT ![c] = Completed(u)]
      /\ executor' = Tail(executor) \o (CompletePosts(c) \o <<Callback>>)
      /\ proxyState' = proxyState
  BY DEF CompleteWithError, Set, Post
<1>2. CompletePosts(c) \o <<Callback>> = <<CancelOf(c), Callback>>
  BY ConcatPair DEF CompletePosts
<1>3. Failed(c, Completed(u)) /\ Completed(u) \in StateOver(added)
  BY <1>1, <1>2, CompletedOver DEF Failed
<1>4. requestID' \in Nat /\ requestID' >= id
  <2>1. requestID' \in {id, id + 1}
    BY DEF CompleteWithError, NextIdentifier
  <2>2. QED
    BY <2>1
<1>5. QED
  BY <1>1, <1>3, <1>4 DEF Turn

LEMMA RestartTurn ==
  ASSUME NEW c \in Controllers, NEW s \in StateOver(added), NEW u \in StateOver(added),
         u.inProgress, requestID \in Nat \ {0}, NEW ids, u.request.id \in ids,
         Proper(s, stored) => Proper(u, stored),
         RestartCurrentRequest(c, u)
  PROVE  Turn(c, s, requestID, ids)
<1> DEFINE Fails(code) ==
             CompleteWithError(c, u, code, u.request.model, u.request.model, stored, requestID)
<1>1. CASE Fails("Timeout") \/ Fails("Other")
  BY <1>1, CompleteWithErrorTurn
<1>2. CASE ~(Fails("Timeout") \/ Fails("Other"))
  <2> DEFINE t == [u EXCEPT !.requestor = "waiting"]
  <2>1. /\ controller' = [controller EXCEPT ![c] = t]
        /\ executor' = Tail(executor) \o <<>>
        /\ UNCHANGED <<stored, requestID, proxyState>>
    BY <1>2 DEF RestartCurrentRequest, Set, Post
  <2>2. /\ t \in StateOver(added) /\ t.inProgress /\ t.requestor = "waiting"
        /\ t.request = u.request /\ t.models = u.models
    BY DEF StateOver
  <2> HIDE DEF t
  <2>3. Proper(u, stored) => Proper(t, stored')
    BY <2>1, <2>2 DEF Proper
  <2>4. Sent(c, s, t, ids)
    BY <2>1, <2>2, <2>3 DEF Sent
  <2>5. requestID' \in Nat /\ requestID' >= requestID
    BY <2>1
  <2>6. QED
    BY <2>1, <2>2, <2>4, <2>5 DEF Turn
<1>3. QED
  BY <1>1, <1>2

(* The model that leaves the queue becomes the request. *)
LEMMA DequeuedProper ==
  ASSUME NEW s \in StateOver(added), s.models # <<>>, NEW db, QueueProper(s.models, db),
         NEW t \in StateOver(added), t.models = Tail(s.models),
         t.request.model.events \subseteq Head(s.models).events
  PROVE  Proper(t, db)
<1>1. s.models \in Seq(ModelOver(added))
  BY DEF StateOver
<1>2. /\ Len(Tail(s.models)) = Len(s.models) - 1 /\ Len(s.models) \in Nat
      /\ Tail(s.models) \in Seq(ModelOver(added))
      /\ \A i \in 1..Len(Tail(s.models)) : Tail(s.models)[i] = s.models[i + 1]
      /\ Head(s.models) = s.models[1]
  BY <1>1, HeadTailProperties
<1>3. DOMAIN t.models = 1..(Len(s.models) - 1) /\ DOMAIN s.models = 1..Len(s.models)
  BY <1>1, <1>2
<1>4. /\ \A i \in DOMAIN t.models : i + 1 \in DOMAIN s.models /\ t.models[i] = s.models[i + 1]
      /\ 1 \in DOMAIN s.models
  BY <1>2, <1>3
<1>5. QueueProper(t.models, db)
  <2>1. \A i \in DOMAIN t.models : t.models[i].events \subseteq db
    BY <1>4 DEF QueueProper
  <2>2. ASSUME NEW i \in DOMAIN t.models, NEW j \in DOMAIN t.models, i # j
        PROVE  IsDisjoint(t.models[i], t.models[j])
    <3>1. i + 1 # j + 1
      BY <1>3, <2>2
    <3>2. QED
      BY <1>4, <3>1 DEF QueueProper
  <2>3. QED
    BY <2>1, <2>2 DEF QueueProper
<1>6. t.request.model.events \subseteq db
  BY <1>2, <1>4 DEF QueueProper
<1>7. ASSUME NEW i \in DOMAIN t.models
      PROVE  IsDisjoint(t.models[i], t.request.model)
  <2>1. IsDisjoint(s.models[i + 1], s.models[1])
    <3>1. i + 1 # 1
      BY <1>3
    <3>2. QED
      BY <1>4, <3>1 DEF QueueProper
  <2>2. QED
    BY <1>2, <1>4, <2>1 DEF IsDisjoint
<1>8. QED
  BY <1>5, <1>6, <1>7 DEF Proper

LEMMA PerformNextRequestTurn ==
  ASSUME NEW c \in Controllers, NEW s \in StateOver(added), NEW u \in StateOver(added),
         u.inProgress, NEW db, NEW id \in Nat \ {0},
         Proper(s, stored) => QueueProper(u.models, db),
         PerformNextRequest(c, u, db, id)
  PROVE  Turn(c, s, id, {id})
<1>1. CASE u.models = <<>>
  <2>1. /\ controller' = [controller EXCEPT ![c] = Completed(u)]
        /\ DidFinishWithSuccess(c) /\ requestID' = id
    BY <1>1 DEF PerformNextRequest, Set
  <2>2. Completed(u) \in StateOver(added) /\ ~Completed(u).inProgress
        /\ Completed(u).requestor = "none"
    BY CompletedOver
  <2>3. /\ proxyState' = [proxyState EXCEPT ![c] = "Completed"]
        /\ executor' = Tail(executor) \o (<<CancelOf(c)>> \o
             IF \A d \in Controllers : proxyState'[d] # "InProgress" THEN <<Callback>> ELSE <<>>)
    BY <2>1 DEF DidFinishWithSuccess, Post, CompletePosts
  <2>4. /\ <<CancelOf(c)>> \o <<Callback>> = <<CancelOf(c), Callback>>
        /\ <<CancelOf(c)>> \o <<>> = <<CancelOf(c)>>
    BY ConcatPair
  <2>5. Finished(c, Completed(u))
    BY <2>2, <2>3, <2>4 DEF Finished
  <2>6. requestID' \in Nat /\ requestID' >= id
    BY <2>1
  <2>7. QED
    BY <2>1, <2>2, <2>5, <2>6 DEF Turn
<1>2. CASE u.models # <<>> /\ denied'[c]
  <2>1. CompleteWithError(c, u, "Timeout", u.request.model, Head(u.models), db, id)
    BY <1>2 DEF PerformNextRequest
  <2>2. QED
    BY <2>1, CompleteWithErrorTurn
<1>3. CASE u.models # <<>> /\ ~denied'[c]
  <2> DEFINE taken == Dequeued(u)
  <2>1. taken \in StateOver(added) /\ taken.inProgress /\ Head(u.models) \in ModelOver(added)
    BY <1>3, DequeuedOver
  <2>2. PICK payload \in Payloads(Head(u.models)), hosts \in Hosts[c] :
          \/ payload.error # "None"
             /\ CompleteWithError(c, taken, ControllerError(payload.error),
                                  u.request.model, Head(u.models), db, id)
          \/ CompleteWithError(c, taken, "Other", u.request.model, Head(u.models), db, id)
          \/ /\ hosts > 0
             /\ Set(c, [taken EXCEPT !.request = [model |-> payload.model, id |-> id],
                                     !.requestor = "waiting", !.retry = TRUE, !.hostsLeft = hosts - 1])
             /\ Post(<<>>)
             /\ stored' = db /\ requestID' = id
             /\ UNCHANGED <<proxyState, lastPurge>>
    BY <1>3 DEF PerformNextRequest
  <2>3. CASE CompleteWithError(c, taken, ControllerError(payload.error),
                               u.request.model, Head(u.models), db, id)
    BY <2>1, <2>3, CompleteWithErrorTurn
  <2>4. CASE CompleteWithError(c, taken, "Other", u.request.model, Head(u.models), db, id)
    BY <2>1, <2>4, CompleteWithErrorTurn
  <2>5. CASE /\ hosts > 0
             /\ Set(c, [taken EXCEPT !.request = [model |-> payload.model, id |-> id],
                                     !.requestor = "waiting", !.retry = TRUE, !.hostsLeft = hosts - 1])
             /\ Post(<<>>)
             /\ stored' = db /\ requestID' = id
             /\ UNCHANGED <<proxyState, lastPurge>>
    <3> DEFINE t == [taken EXCEPT !.request = [model |-> payload.model, id |-> id],
                                  !.requestor = "waiting", !.retry = TRUE, !.hostsLeft = hosts - 1]
    <3>1. payload.model \in ModelOver(Head(u.models).events)
          /\ Head(u.models).events \subseteq added
      BY <2>1, PayloadsOver DEF ModelOver
    <3>2. payload.model \in ModelOver(added) /\ payload.model.events \subseteq Head(u.models).events
      BY <3>1 DEF ModelOver
    <3>3. hosts - 1 \in Nat
      BY <2>5, ReportDeliveryAssumption DEF ReportDeliveryAssumption
    <3>4. /\ t \in StateOver(added) /\ t.inProgress /\ t.requestor = "waiting"
          /\ t.request = [model |-> payload.model, id |-> id]
          /\ t.models = taken.models
      BY <2>1, <3>2, <3>3 DEF StateOver
    <3>5. taken.models = Tail(u.models)
      BY DEF Dequeued, StateOver
    <3>6. /\ controller' = [controller EXCEPT ![c] = t]
          /\ executor' = Tail(executor) \o <<>>
          /\ stored' = db /\ requestID' = id /\ proxyState' = proxyState
      BY <2>5 DEF Set, Post
    <3> HIDE DEF t, taken
    <3>7. QueueProper(u.models, db) => Proper(t, db)
      BY <1>3, <3>2, <3>4, <3>5, DequeuedProper
    <3>8. Sent(c, s, t, {id})
      BY <3>4, <3>6, <3>7 DEF Sent
    <3>9. requestID' \in Nat /\ requestID' >= id
      BY <3>6
    <3>10. QED
      BY <3>4, <3>6, <3>8, <3>9 DEF Turn
  <2>6. QED
    BY <2>2, <2>3, <2>4, <2>5
<1>4. QED
  BY <1>1, <1>2, <1>3

(* What a reply makes of its controller. *)
LEMMA NextHostProper ==
  ASSUME NEW s \in StateOver(added)
  PROVE  /\ OnNextHost(s).request = s.request
         /\ Proper(s, stored) => Proper(OnNextHost(s), stored)
  BY DEF OnNextHost, StateOver, Proper

LEMMA AcceptedTurn ==
  ASSUME IInv, NEW c \in Controllers, DidReportRequest(c)
  PROVE  /\ Turn(c, controller[c], requestID + 1, {requestID + 1})
         /\ lastAck' = lastAck /\ lostAck' = [lostAck EXCEPT ![c] = 0]
<1> DEFINE s == controller[c]
<1>1. s.inProgress
  BY HeadReply DEF DidReportRequest, Replies
<1>2. PICK db \in {stored, stored \ s.request.model.events} :
        PerformNextRequest(c, s, db, requestID + 1)
  BY DEF DidReportRequest, NextIdentifier, AfterPurge
<1>3. requestID + 1 \in Nat \ {0} /\ s \in StateOver(added)
  BY ControllerFacts
<1>4. Proper(s, stored) => QueueProper(s.models, db)
  BY DEF Proper, QueueProper, IsDisjoint
<1> HIDE DEF s
<1>5. Turn(c, s, requestID + 1, {requestID + 1})
  BY <1>1, <1>2, <1>3, <1>4, PerformNextRequestTurn
<1>6. QED
  BY <1>5 DEF DidReportRequest, ReplyRest, s

LEMMA SplitProper ==
  ASSUME NEW s \in StateOver(added), NEW t \in StateOver(added),
         Len(SplitRequestModel(s.request.model)) = 2,
         t.models = <<SplitRequestModel(s.request.model)[2]>> \o s.models,
         t.request.model.events \subseteq SplitRequestModel(s.request.model)[1].events,
         Proper(s, stored)
  PROVE  Proper(t, stored)
<1> DEFINE whole == s.request.model
           one   == SplitRequestModel(whole)[1]
           two   == SplitRequestModel(whole)[2]
<1>1. one.events \cap two.events = {} /\ one.events \subseteq whole.events
      /\ two.events \subseteq whole.events /\ two \in ModelOver(added)
  <2>1. whole \in ModelOver(added)
    BY DEF StateOver
  <2>2. one \in ModelOver(whole.events) /\ two \in ModelOver(whole.events)
    BY <2>1, SplitOver
  <2>3. one.events \cap two.events = {}
    BY DEF SplitRequestModel
  <2>4. QED
    BY <2>1, <2>2, <2>3 DEF ModelOver
<1> HIDE DEF one, two
<1>2. /\ <<two>> \in Seq(ModelOver(added)) /\ s.models \in Seq(ModelOver(added))
      /\ Len(<<two>>) = 1 /\ <<two>>[1] = two
  BY <1>1 DEF StateOver
<1>3. /\ t.models \in Seq(ModelOver(added)) /\ Len(t.models) = 1 + Len(s.models)
      /\ \A i \in 1..(1 + Len(s.models)) :
           t.models[i] = IF i <= 1 THEN <<two>>[i] ELSE s.models[i - 1]
  <2>1. t.models = <<two>> \o s.models
    BY DEF two
  <2>2. QED
    BY <1>2, <2>1, ConcatProperties
<1>4. /\ DOMAIN t.models = 1..(1 + Len(s.models)) /\ DOMAIN s.models = 1..Len(s.models)
      /\ Len(s.models) \in Nat
  BY <1>2, <1>3
<1>5. \A i \in DOMAIN t.models :
        \/ i = 1 /\ t.models[i] = two
        \/ i # 1 /\ i \in Nat /\ i - 1 \in DOMAIN s.models /\ t.models[i] = s.models[i - 1]
  BY <1>2, <1>3, <1>4
<1>6. QueueProper(t.models, stored)
  <2>1. ASSUME NEW i \in DOMAIN t.models
        PROVE  t.models[i].events \subseteq stored
    BY <1>1, <1>5 DEF Proper, QueueProper
  <2>2. \A i \in DOMAIN s.models : IsDisjoint(two, s.models[i]) /\ IsDisjoint(s.models[i], two)
    BY <1>1 DEF Proper, IsDisjoint
  <2>3. ASSUME NEW i \in DOMAIN t.models, NEW j \in DOMAIN t.models, i # j
        PROVE  IsDisjoint(t.models[i], t.models[j])
    <3>1. CASE i = 1
      BY <1>5, <2>2, <2>3, <3>1
    <3>2. CASE j = 1
      BY <1>5, <2>2, <2>3, <3>2
    <3>3. CASE i # 1 /\ j # 1
      <4>1. i \in Nat /\ j \in Nat /\ i - 1 # j - 1
        BY <1>5, <2>3, <3>3
      <4>2. QED
        BY <1>5, <3>3, <4>1 DEF Proper, QueueProper
    <3>4. QED
      BY <3>1, <3>2, <3>3
  <2>4. QED
    BY <2>1, <2>3 DEF QueueProper
<1>7. t.request.model.events \subseteq one.events
  BY DEF one
<1>8. t.request.model.events \subseteq stored
  BY <1>1, <1>7 DEF Proper
<1>9. ASSUME NEW i \in DOMAIN t.models
      PROVE  IsDisjoint(t.models[i], t.request.model)
  <2>1. CASE i = 1
    BY <1>1, <1>5, <1>7, <2>1 DEF IsDisjoint
  <2>2. CASE i # 1
    BY <1>1, <1>5, <1>7, <2>2 DEF IsDisjoint, Proper
  <2>3. QED
    BY <2>1, <2>2
<1>10. QED
  BY <1>6, <1>8, <1>9 DEF Proper

LEMMA SplitTurn ==
  ASSUME IInv, NEW c \in Controllers, controller[c].inProgress, SplitCurrentRequest(c)
  PROVE  Turn(c, controller[c], requestID, {controller[c].request.id})
<1> DEFINE s       == controller[c]
           parts   == SplitRequestModel(s.request.model)
           After(m) == [s EXCEPT !.models = <<parts[2]>> \o s.models, !.request.model = m]
<1>1. s \in StateOver(added) /\ s.request.model \in ModelOver(added) /\ requestID \in Nat \ {0}
  BY ControllerFacts
<1>2. CASE CompleteWithError(c, s, "RequestEntityTooLarge", s.request.model, s.request.model,
                             stored, requestID)
  BY <1>1, <1>2, CompleteWithErrorTurn
<1>3. CASE Len(parts) = 2 /\ ~CompleteWithError(c, s, "RequestEntityTooLarge", s.request.model,
                                                s.request.model, stored, requestID)
  <2>1. parts[1] \in ModelOver(s.request.model.events) /\ parts[2] \in ModelOver(added)
    <3>1. /\ parts[1] \in ModelOver(s.request.model.events)
          /\ parts[2] \in ModelOver(s.request.model.events)
      BY <1>1, <1>3, SplitOver
    <3>2. QED
      BY <1>1, <3>1 DEF ModelOver
  <2>2. PICK payload \in Payloads(parts[1]) :
          \/ CompleteWithError(c, After(payload.model), ControllerError(payload.error), NoModel,
                               parts[1], stored, requestID)
          \/ CompleteWithError(c, After(payload.model), "RequestEntityTooLarge",
                               After(payload.model).request.model,
                               After(payload.model).request.model, stored, requestID)
          \/ RestartCurrentRequest(c, After(payload.model))
    BY <1>3 DEF SplitCurrentRequest
  <2> DEFINE m == payload.model
             t == After(m)
  <2>3. m \in ModelOver(parts[1].events)
    BY <2>1, PayloadsOver
  <2>4. m \in ModelOver(added) /\ m.events \subseteq parts[1].events
    BY <1>1, <2>1, <2>3 DEF ModelOver
  <2> HIDE DEF m
  <2>5. /\ t \in StateOver(added) /\ t.inProgress
        /\ t.models = <<parts[2]>> \o s.models
        /\ t.request = [model |-> m, id |-> s.request.id]
    <3> DEFINE ms == <<parts[2]>> \o s.models
    <3>1. ms \in Seq(ModelOver(added))
      <4>1. <<parts[2]>> \in Seq(ModelOver(added)) /\ s.models \in Seq(ModelOver(added))
        BY <1>1, <2>1 DEF StateOver
      <4>2. QED
        BY <4>1
    <3> HIDE DEF ms
    <3>2. t = [s EXCEPT !.models = ms, !.request.model = m]
      BY DEF ms
    <3>3. s.request = [model |-> s.request.model, id |-> s.request.id]
      BY <1>1 DEF StateOver
    <3> HIDE DEF t
    <3>4. /\ t \in StateOver(added) /\ t.inProgress /\ t.models = ms
          /\ t.request = [model |-> m, id |-> s.request.id]
      BY <1>1, <2>4, <3>1, <3>2, <3>3 DEF StateOver
    <3>5. QED
      BY <3>4 DEF ms
  <2> HIDE DEF t
  <2>6. Proper(s, stored) => Proper(t, stored)
    <3>1. t.request.model.events \subseteq parts[1].events
      BY <2>4, <2>5
    <3>2. QED
      BY <1>1, <1>3, <2>5, <3>1, SplitProper
  <2>7. t.request.id \in {s.request.id}
    BY <2>5
  <2>8. \/ CompleteWithError(c, t, ControllerError(payload.error), NoModel,
                             parts[1], stored, requestID)
        \/ CompleteWithError(c, t, "RequestEntityTooLarge", t.request.model,
                             t.request.model, stored, requestID)
        \/ RestartCurrentRequest(c, t)
    BY <2>2 DEF t, m
  <2> HIDE DEF s, parts
  <2>9. Turn(c, s, requestID, {s.request.id})
    BY <1>1, <2>5, <2>6, <2>7, <2>8, CompleteWithErrorTurn, RestartTurn
  <2>10. QED
    BY <2>9 DEF s
<1>4. QED
  BY <1>1, <1>2, <1>3 DEF SplitCurrentRequest

LEMMA OtherReplyTurn ==
  ASSUME IInv, NEW c \in Controllers,
         \/ UnknownStatus(c) \/ BadRequest(c) \/ EntityTooLarge(c) \/ RequestFailed(c)
  PROVE  /\ Turn(c, controller[c], requestID, {controller[c].request.id})
         /\ lastAck' = lastAck /\ lostAck' = lostAck
<1> DEFINE s == controller[c]
<1>1. s.inProgress
  BY HeadReply DEF UnknownStatus, BadRequest, EntityTooLarge, RequestFailed, Replies
<1>2. s \in StateOver(added) /\ requestID \in Nat \ {0}
  BY ControllerFacts
<1>3. lastAck' = lastAck /\ lostAck' = lostAck
  BY DEF UnknownStatus, BadRequest, EntityTooLarge, RequestFailed, ReplyRest
<1>4. \/ HasNextHost(s) /\ RestartCurrentRequest(c, OnNextHost(s))
      \/ \E code : CompleteWithError(c, s, code, s.request.model, s.request.model, stored,
                                     requestID)
      \/ SplitCurrentRequest(c)
  BY DEF UnknownStatus, BadRequest, EntityTooLarge, RequestFailed, RetryOnNextHost
<1>5. CASE HasNextHost(s) /\ RestartCurrentRequest(c, OnNextHost(s))
  <2>1. OnNextHost(s) \in StateOver(added) /\ OnNextHost(s).inProgress
    BY <1>1, <1>2, <1>5, NextHostOver
  <2>2. /\ OnNextHost(s).request.id \in {s.request.id}
        /\ Proper(s, stored) => Proper(OnNextHost(s), stored)
    BY <1>2, NextHostProper
  <2> HIDE DEF s
  <2>3. Turn(c, s, requestID, {s.request.id})
    BY <1>2, <1>5, <2>1, <2>2, RestartTurn
  <2>4. QED
    BY <1>3, <2>3 DEF s
<1>6. CASE \E code : CompleteWithError(c, s, code, s.request.model, s.request.model, stored,
                                       requestID)
  BY <1>2, <1>3, <1>6, CompleteWithErrorTurn
<1>7. CASE SplitCurrentRequest(c)
  BY <1>1, <1>3, <1>7, SplitTurn
<1>8. QED
  BY <1>4, <1>5, <1>6, <1>7

-----------------------------------------------------------------------------
(* The executor as a queue: where its blocks are after one has run. *)
LEMMA QueueAfterRun ==
  ASSUME IInv, executor # <<>>, NEW blocks \in Seq(BlockOver(added)),
         executor' = Tail(executor) \o blocks
  PROVE  /\ \A i \in DOMAIN executor' :
              \/ i \in Nat /\ i + 1 # 1 /\ i + 1 \in DOMAIN executor /\ executor'[i] = executor[i + 1]
              \/ \E j \in DOMAIN blocks :
                   j \in Nat /\ i = Len(executor) - 1 + j /\ executor'[i] = blocks[j]
         /\ \A i \in DOMAIN executor : i # 1 =>
              i \in Nat /\ i - 1 \in DOMAIN executor' /\ executor'[i - 1] = executor[i]
         /\ \A j \in DOMAIN blocks :
              /\ Len(executor) - 1 + j \in DOMAIN executor'
              /\ executor'[Len(executor) - 1 + j] = blocks[j]
         /\ \A i \in DOMAIN executor : i \in Nat \ {0} /\ i <= Len(executor)
         /\ 1 \in DOMAIN executor /\ Len(executor) \in Nat \ {0}
<1> DEFINE rest == Tail(executor)
<1>0. executor \in Seq(BlockOver(added))
  BY DEF IInv, DataType
<1>1. /\ rest \in Seq(BlockOver(added)) /\ Len(rest) = Len(executor) - 1
      /\ \A i \in 1..Len(rest) : rest[i] = executor[i + 1]
  BY <1>0, HeadTailProperties
<1>2. Len(executor) \in Nat \ {0} /\ Len(blocks) \in Nat /\ Len(rest) \in Nat
  BY <1>0, <1>1
<1> HIDE DEF rest
<1>3. /\ executor' \in Seq(BlockOver(added))
      /\ Len(executor') = Len(rest) + Len(blocks)
      /\ \A i \in 1..(Len(rest) + Len(blocks)) :
           executor'[i] = IF i <= Len(rest) THEN rest[i] ELSE blocks[i - Len(rest)]
  <2> DEFINE B == BlockOver(added)
  <2>1. executor' = rest \o blocks
    BY DEF rest
  <2>2. rest \in Seq(B) /\ blocks \in Seq(B)
    BY <1>1
  <2> HIDE DEF B
  <2>3. /\ rest \o blocks \in Seq(B) /\ Len(rest \o blocks) = Len(rest) + Len(blocks)
        /\ \A i \in 1..(Len(rest) + Len(blocks)) :
             (rest \o blocks)[i] = IF i <= Len(rest) THEN rest[i] ELSE blocks[i - Len(rest)]
    BY <2>2, ConcatProperties
  <2>4. QED
    BY <2>1, <2>3 DEF B
<1>4. /\ DOMAIN executor = 1..Len(executor)
      /\ DOMAIN executor' = 1..Len(executor')
      /\ DOMAIN blocks = 1..Len(blocks)
  BY <1>0, <1>3
<1>5. ASSUME NEW i \in DOMAIN executor'
      PROVE  \/ i \in Nat /\ i + 1 # 1 /\ i + 1 \in DOMAIN executor /\ executor'[i] = executor[i + 1]
             \/ \E j \in DOMAIN blocks :
                  j \in Nat /\ i = Len(executor) - 1 + j /\ executor'[i] = blocks[j]
  <2>1. i \in 1..(Len(rest) + Len(blocks))
    BY <1>3, <1>4
  <2>2. CASE i <= Len(rest)
    BY <1>1, <1>2, <1>3, <1>4, <2>1, <2>2
  <2>3. CASE ~(i <= Len(rest))
    <3>1. i - Len(rest) \in DOMAIN blocks /\ executor'[i] = blocks[i - Len(rest)]
      BY <1>2, <1>3, <1>4, <2>1, <2>3
    <3>2. i - Len(rest) \in Nat /\ i = Len(executor) - 1 + (i - Len(rest))
      BY <1>1, <1>2, <2>1, <2>3
    <3>3. QED
      BY <3>1, <3>2
  <2>4. QED
    BY <2>2, <2>3
<1>6. ASSUME NEW i \in DOMAIN executor, i # 1
      PROVE  i \in Nat /\ i - 1 \in DOMAIN executor' /\ executor'[i - 1] = executor[i]
  BY <1>1, <1>2, <1>3, <1>4, <1>6
<1>7. ASSUME NEW j \in DOMAIN blocks
      PROVE  /\ Len(executor) - 1 + j \in DOMAIN executor'
             /\ executor'[Len(executor) - 1 + j] = blocks[j]
  <2>1. j \in 1..Len(blocks)
    BY <1>4
  <2>2. Len(rest) + j \in 1..(Len(rest) + Len(blocks)) /\ ~(Len(rest) + j <= Len(rest))
        /\ (Len(rest) + j) - Len(rest) = j
    BY <1>2, <2>1
  <2>3. executor'[Len(rest) + j] = blocks[j]
    BY <1>3, <2>2
  <2>4. QED
    BY <1>1, <1>3, <1>4, <2>2, <2>3
<1>8. (\A i \in DOMAIN executor : i \in Nat \ {0} /\ i <= Len(executor)) /\ 1 \in DOMAIN executor
  BY <1>2, <1>4
<1>9. QED
  BY <1>2, <1>5, <1>6, <1>7, <1>8

\* What stays in the queue when its head runs, and when a block is posted.
LEMMA StaysQueued ==
  ASSUME IInv, executor # <<>>, NEW blocks \in Seq(BlockOver(added)),
         executor' = Tail(executor) \o blocks,
         NEW b, b # executor[1], \E i \in DOMAIN executor : executor[i] = b
  PROVE  \E i \in DOMAIN executor' : executor'[i] = b
<1>1. PICK i \in DOMAIN executor : executor[i] = b
  OBVIOUS
<1>2. i # 1
  BY <1>1
<1>3. i - 1 \in DOMAIN executor' /\ executor'[i - 1] = executor[i]
  BY <1>2, QueueAfterRun
<1>4. QED
  BY <1>1, <1>3

LEMMA IsQueued ==
  ASSUME IInv, executor # <<>>, NEW blocks \in Seq(BlockOver(added)),
         executor' = Tail(executor) \o blocks,
         NEW b, \E j \in DOMAIN blocks : blocks[j] = b
  PROVE  \E i \in DOMAIN executor' : executor'[i] = b
<1>1. PICK j \in DOMAIN blocks : blocks[j] = b
  OBVIOUS
<1>2. /\ Len(executor) - 1 + j \in DOMAIN executor'
      /\ executor'[Len(executor) - 1 + j] = blocks[j]
  BY QueueAfterRun
<1>3. QED
  BY <1>1, <1>2

LEMMA PostKeeps ==
  ASSUME IInv, NEW block \in BlockOver(added), executor' = Append(executor, block)
  PROVE  /\ \A i \in DOMAIN executor : i \in DOMAIN executor' /\ executor'[i] = executor[i]
         /\ \A i \in DOMAIN executor' : i \in DOMAIN executor \/ executor'[i] = block
         /\ \E i \in DOMAIN executor' : executor'[i] = block
<1>1. executor \in Seq(BlockOver(added))
  BY DEF IInv, DataType
<1>2. QED
  BY <1>1, BlocksAfterPost

-----------------------------------------------------------------------------
(* The models that a finished controller keeps. *)
LEMMA LeftoversRun ==
  ASSUME IInv, LeftoversAreCancelled, executor # <<>>, NEW blocks \in Seq(BlockOver(added)),
         executor' = Tail(executor) \o blocks,
         \A c \in Controllers :
           \/ /\ controller'[c].models = controller[c].models
              /\ controller'[c].inProgress = controller[c].inProgress
              /\ executor[1] # CancelOf(c)
           \/ controller'[c].models = <<>>
           \/ controller'[c].inProgress
           \/ \E j \in DOMAIN blocks : blocks[j] = CancelOf(c)
  PROVE  LeftoversAreCancelled'
<1> SUFFICES ASSUME NEW c \in Controllers,
                    controller'[c].models # <<>>, ~controller'[c].inProgress
             PROVE  \E i \in DOMAIN executor' : executor'[i] = CancelOf(c)
  BY DEF LeftoversAreCancelled, CancelOf
<1>1. CASE \E j \in DOMAIN blocks : blocks[j] = CancelOf(c)
  BY <1>1, IsQueued
<1>2. CASE /\ controller'[c].models = controller[c].models
           /\ controller'[c].inProgress = controller[c].inProgress
           /\ executor[1] # CancelOf(c)
  <2>1. \E i \in DOMAIN executor : executor[i] = CancelOf(c)
    BY <1>2 DEF LeftoversAreCancelled
  <2>2. QED
    BY <1>2, <2>1, StaysQueued
<1>3. QED
  BY <1>1, <1>2

LEMMA LeftoversPost ==
  ASSUME IInv, LeftoversAreCancelled, NEW block \in BlockOver(added),
         executor' \in {executor, Append(executor, block)},
         \A c \in Controllers :
           /\ controller'[c].models = controller[c].models
           /\ controller'[c].inProgress = controller[c].inProgress
  PROVE  LeftoversAreCancelled'
<1> SUFFICES ASSUME NEW c \in Controllers,
                    controller'[c].models # <<>>, ~controller'[c].inProgress
             PROVE  \E i \in DOMAIN executor' : executor'[i] = CancelOf(c)
  BY DEF LeftoversAreCancelled, CancelOf
<1>1. PICK i \in DOMAIN executor : executor[i] = CancelOf(c)
  BY DEF LeftoversAreCancelled
<1>2. QED
  BY <1>1, PostKeeps

-----------------------------------------------------------------------------
(* What the proxy waits for. *)
LEMMA ActiveRun ==
  ASSUME IInv, executor # <<>>, NEW blocks \in Seq(BlockOver(added)),
         executor' = Tail(executor) \o blocks,
         NEW c \in Controllers, Active(c),
         \/ controller'[c].requestor # "none"
         \/ /\ controller'[c].requestor = controller[c].requestor
            /\ ~(executor[1].kind = "append" /\ executor[1].ctl = c)
  PROVE  Active(c)'
<1>1. CASE controller'[c].requestor # "none"
  BY <1>1 DEF Active
<1>2. CASE /\ controller'[c].requestor = "none"
           /\ controller'[c].requestor = controller[c].requestor
           /\ ~(executor[1].kind = "append" /\ executor[1].ctl = c)
  <2>1. PICK i \in DOMAIN executor : executor[i].kind = "append" /\ executor[i].ctl = c
    BY <1>2 DEF Active
  <2>2. i # 1
    BY <1>2, <2>1
  <2>3. i - 1 \in DOMAIN executor' /\ executor'[i - 1] = executor[i]
    BY <2>2, QueueAfterRun
  <2>4. QED
    BY <2>1, <2>3 DEF Active
<1>3. QED
  BY <1>1, <1>2

LEMMA ClosingRun ==
  ASSUME IInv, executor # <<>>, NEW blocks \in Seq(BlockOver(added)),
         executor' = Tail(executor) \o blocks, Closing,
         executor[1].kind \notin {"perform", "callback"}
  PROVE  Closing'
<1>1. PICK i \in DOMAIN executor : executor[i].kind \in {"perform", "callback"}
  BY DEF Closing
<1>2. i # 1
  BY <1>1
<1>3. i - 1 \in DOMAIN executor' /\ executor'[i - 1] = executor[i]
  BY <1>2, QueueAfterRun
<1>4. QED
  BY <1>1, <1>3 DEF Closing

LEMMA ClosingPosted ==
  ASSUME IInv, executor # <<>>, NEW blocks \in Seq(BlockOver(added)),
         executor' = Tail(executor) \o blocks,
         \E j \in DOMAIN blocks : blocks[j] \in {Perform, Callback}
  PROVE  Closing'
<1>1. PICK i \in DOMAIN executor' : executor'[i] \in {Perform, Callback}
  BY IsQueued
<1>2. QED
  BY <1>1 DEF Closing, Perform, Callback

\* The proxy is still right when controllers stay active and no round ends.
LEMMA ProxyRun ==
  ASSUME IInv, ProxyFollows, executor # <<>>, NEW blocks \in Seq(BlockOver(added)),
         executor' = Tail(executor) \o blocks,
         executor[1].kind \notin {"perform", "callback"},
         isWorking' = isWorking, proxyState' = proxyState,
         \A c \in Controllers :
           \/ controller'[c].requestor # "none"
           \/ /\ controller'[c].requestor = controller[c].requestor
              /\ ~(executor[1].kind = "append" /\ executor[1].ctl = c)
  PROVE  ProxyFollows'
<1> SUFFICES ASSUME isWorking, ~Closing'
             PROVE  /\ \E c \in Controllers : proxyState[c] = "InProgress"
                    /\ \A c \in Controllers : proxyState[c] = "InProgress" => Active(c)'
  BY DEF ProxyFollows, Active
<1>1. ~Closing
  BY ClosingRun
<1>2. /\ \E c \in Controllers : proxyState[c] = "InProgress"
      /\ \A c \in Controllers : proxyState[c] = "InProgress" => Active(c)
  BY <1>1 DEF ProxyFollows
<1>3. QED
  BY <1>2, ActiveRun

-----------------------------------------------------------------------------
(* Every step preserves the three invariants that hold with tracking events,
   too. *)
Base == Numbered /\ LeftoversAreCancelled /\ ProxyFollows

\* The blocks that a turn posts.
LEMMA TurnBlocks ==
  ASSUME NEW c \in Controllers
  PROVE  /\ <<>> \in Seq(BlockOver(added))
         /\ <<CancelOf(c)>> \in Seq(BlockOver(added))
         /\ <<CancelOf(c), Callback>> \in Seq(BlockOver(added))
         /\ \E j \in DOMAIN <<CancelOf(c)>> : <<CancelOf(c)>>[j] = CancelOf(c)
         /\ \E j \in DOMAIN <<CancelOf(c), Callback>> : <<CancelOf(c), Callback>>[j] = CancelOf(c)
         /\ \E j \in DOMAIN <<CancelOf(c), Callback>> :
              <<CancelOf(c), Callback>>[j] \in {Perform, Callback}
<1>1. CancelOf(c) \in BlockOver(added) /\ Callback \in BlockOver(added)
  BY PlainBlocks
<1>2. /\ <<>> \in Seq(BlockOver(added))
      /\ <<CancelOf(c)>> \in Seq(BlockOver(added))
      /\ <<CancelOf(c), Callback>> \in Seq(BlockOver(added))
  BY <1>1
<1>3. 1 \in DOMAIN <<CancelOf(c)>> /\ <<CancelOf(c)>>[1] = CancelOf(c)
  OBVIOUS
<1>4. /\ 1 \in DOMAIN <<CancelOf(c), Callback>> /\ <<CancelOf(c), Callback>>[1] = CancelOf(c)
      /\ 2 \in DOMAIN <<CancelOf(c), Callback>> /\ <<CancelOf(c), Callback>>[2] = Callback
  OBVIOUS
<1>5. QED
  BY <1>2, <1>3, <1>4

\* An identifier that may be sent: so may every later one.
LEMMA LaterMayBeSent ==
  ASSUME NEW c \in Controllers, lastAck \in [Controllers -> Nat],
         NEW id \in Nat, NEW later \in Nat, id <= later, MayBeSent(c, id)
  PROVE  lastAck[c] < later \/ (later = lastAck[c] /\ later = lostAck[c])
<1>1. lastAck[c] \in Nat
  OBVIOUS
<1>2. QED
  BY <1>1 DEF MayBeSent

\* An acknowledgement that is not at the head stays on the executor.
LEMMA AckRun ==
  ASSUME IInv, executor # <<>>, NEW blocks \in Seq(BlockOver(added)),
         executor' = Tail(executor) \o blocks,
         NEW c \in Controllers, executor[1].kind # "reply" \/ executor[1].ctl # c,
         AckPosted(c)
  PROVE  AckPosted(c)'
<1>1. PICK i \in DOMAIN executor : executor[i] = ReplyTo(c, "accepted")
  BY DEF AckPosted
<1>2. i # 1
  BY <1>1 DEF ReplyTo
<1>3. i - 1 \in DOMAIN executor' /\ executor'[i - 1] = executor[i]
  BY <1>2, QueueAfterRun
<1>4. QED
  BY <1>1, <1>3 DEF AckPosted, ReplyTo

LEMMA TurnBase ==
  ASSUME IInv, Base, executor # <<>>,
         NEW c \in Controllers, NEW s, NEW base \in Nat, NEW ids, Turn(c, s, base, ids),
         executor[1].kind \in {"reply", "append"}, executor[1].ctl = c,
         isWorking' = isWorking, requestID <= base,
         lastAck' = lastAck, \A d \in Controllers \ {c} : lostAck'[d] = lostAck[d],
         lastAck[c] < base \/ (base = lastAck[c] /\ base = lostAck'[c]),
         \A id \in ids :
           id <= base /\ (lastAck[c] < id \/ (id = lastAck[c] /\ id = lostAck'[c]))
  PROVE  Base'
<1>0. /\ controller \in [Controllers -> StateOver(added)]
      /\ requestID \in Nat /\ lastAck \in [Controllers -> Nat]
      /\ proxyState \in [Controllers -> {"NotStarted", "InProgress", "Completed"}]
  BY DEF IInv, DataType, PlainType
<1>1. requestID' \in Nat /\ requestID' >= base
  BY DEF Turn
<1>2. PICK t \in StateOver(added) :
        /\ controller' = [controller EXCEPT ![c] = t]
        /\ Sent(c, s, t, ids) \/ Failed(c, t) \/ Finished(c, t)
  BY DEF Turn
<1>3. controller'[c] = t /\ \A d \in Controllers \ {c} : controller'[d] = controller[d]
  BY <1>0, <1>2
<1>4. executor[1].kind # "cancel" /\ \A d \in Controllers : executor[1] # CancelOf(d)
  BY DEF CancelOf
<1>5. executor[1].kind \notin {"perform", "callback"}
  OBVIOUS
<1>6. PICK blocks \in Seq(BlockOver(added)) :
        /\ executor' = Tail(executor) \o blocks
        /\ \/ t.inProgress /\ t.requestor = "waiting" /\ t.request.id \in ids /\ proxyState' = proxyState
           \/ /\ ~t.inProgress /\ t.requestor = "none"
              /\ \E j \in DOMAIN blocks : blocks[j] = CancelOf(c)
              /\ \/ \E j \in DOMAIN blocks : blocks[j] \in {Perform, Callback}
                 \/ /\ proxyState' = [proxyState EXCEPT ![c] = "Completed"]
                    /\ \E d \in Controllers : proxyState'[d] = "InProgress"
  <2>1. CASE Sent(c, s, t, ids)
    BY <2>1, TurnBlocks DEF Sent
  <2>2. CASE Failed(c, t)
    BY <2>2, TurnBlocks DEF Failed
  <2>3. CASE Finished(c, t) /\ \A d \in Controllers : proxyState'[d] # "InProgress"
    BY <2>3, TurnBlocks DEF Finished
  <2>4. CASE Finished(c, t) /\ ~\A d \in Controllers : proxyState'[d] # "InProgress"
    BY <2>4, TurnBlocks DEF Finished
  <2>5. QED
    BY <1>2, <2>1, <2>2, <2>3, <2>4
<1>7. Numbered'
  <2> DEFINE Fits(d) ==
        /\ controller[d].requestor = "none" => MayBeSent(d, requestID)
        /\ controller[d].requestor # "none" =>
             /\ lastAck[d] <= controller[d].request.id
             /\ controller[d].request.id <= requestID
             /\ MayBeSent(d, controller[d].request.id) \/ AckPosted(d)
  <2>1. Fits(c)'
    <3>1. t.request.id \in Nat /\ lastAck[c] \in Nat
      BY <1>0 DEF StateOver
    <3>2. CASE t.requestor = "none"
      <4>1. lastAck[c] < requestID' \/ (requestID' = lastAck[c] /\ requestID' = lostAck'[c])
        BY <1>1, <3>1
      <4>2. QED
        BY <1>3, <3>2, <4>1 DEF MayBeSent
    <3>3. CASE t.requestor # "none" /\ t.request.id \in ids
      <4>1. /\ t.request.id <= requestID' /\ lastAck[c] <= t.request.id
            /\ lastAck[c] < t.request.id
               \/ (t.request.id = lastAck[c] /\ t.request.id = lostAck'[c])
        BY <1>1, <3>1, <3>3
      <4>2. QED
        BY <1>3, <3>3, <4>1 DEF MayBeSent
    <3>4. QED
      BY <1>6, <3>2, <3>3
  <2>2. ASSUME NEW d \in Controllers \ {c}
        PROVE  Fits(d)'
    <3>1. Fits(d) /\ controller'[d] = controller[d] /\ lastAck' = lastAck /\ lostAck'[d] = lostAck[d]
      BY <1>3 DEF Base, Numbered
    <3>2. lastAck[d] \in Nat /\ controller[d].request.id \in Nat /\ requestID <= requestID'
      BY <1>0, <1>1 DEF StateOver
    <3>3. MayBeSent(d, requestID) => MayBeSent(d, requestID)'
      BY <1>0, <1>1, <3>1, <3>2, LaterMayBeSent DEF MayBeSent
    <3>4. AckPosted(d) => AckPosted(d)'
      BY <1>6, AckRun
    <3>5. controller[d].request.id <= requestID => controller[d].request.id <= requestID'
      BY <1>0, <1>1, <3>2
    <3>6. QED
      BY <3>1, <3>3, <3>4, <3>5 DEF MayBeSent
  <2>3. QED
    BY <2>1, <2>2 DEF Numbered
<1>8. LeftoversAreCancelled'
  <2>1. \A d \in Controllers :
           \/ /\ controller'[d].models = controller[d].models
              /\ controller'[d].inProgress = controller[d].inProgress
              /\ executor[1] # CancelOf(d)
           \/ controller'[d].inProgress
           \/ \E j \in DOMAIN blocks : blocks[j] = CancelOf(d)
    BY <1>3, <1>4, <1>6
  <2>2. QED
    BY <1>6, <2>1, LeftoversRun DEF Base
<1>9. ProxyFollows'
  <2>1. CASE t.requestor = "waiting" /\ proxyState' = proxyState
    <3>1. \A d \in Controllers :
           \/ controller'[d].requestor # "none"
           \/ /\ controller'[d].requestor = controller[d].requestor
              /\ ~(executor[1].kind = "append" /\ executor[1].ctl = d)
      BY <1>3, <2>1
    <3>2. QED
      BY <1>5, <1>6, <2>1, <3>1, ProxyRun DEF Base
  <2>2. CASE \E j \in DOMAIN blocks : blocks[j] \in {Perform, Callback}
    BY <1>6, <2>2, ClosingPosted DEF ProxyFollows
  <2>3. CASE /\ proxyState' = [proxyState EXCEPT ![c] = "Completed"]
             /\ \E d \in Controllers : proxyState'[d] = "InProgress"
    <3> SUFFICES ASSUME isWorking, ~Closing'
                 PROVE  \A d \in Controllers : proxyState'[d] = "InProgress" => Active(d)'
      BY <2>3 DEF ProxyFollows, Active
    <3>1. ~Closing
      BY <1>5, <1>6, ClosingRun
    <3>2. \A d \in Controllers : proxyState[d] = "InProgress" => Active(d)
      BY <3>1 DEF Base, ProxyFollows
    <3>3. ASSUME NEW d \in Controllers, proxyState'[d] = "InProgress"
          PROVE  Active(d)'
      <4>1. d # c /\ proxyState[d] = "InProgress"
        BY <1>0, <2>3, <3>3
      <4>2. controller'[d].requestor = controller[d].requestor
            /\ ~(executor[1].kind = "append" /\ executor[1].ctl = d)
        BY <1>3, <4>1
      <4>3. QED
        BY <1>6, <3>2, <4>1, <4>2, ActiveRun
    <3>4. QED
      BY <3>3
  <2>4. QED
    BY <1>6, <2>1, <2>2, <2>3
<1>10. QED
  BY <1>7, <1>8, <1>9 DEF Base

LEMMA ReplyBase ==
  ASSUME IInv, Base, NEW c \in Controllers,
         \/ DidReportRequest(c) \/ UnknownStatus(c) \/ BadRequest(c)
         \/ EntityTooLarge(c) \/ RequestFailed(c)
  PROVE  Base'
<1> DEFINE id == controller[c].request.id
<1>1. PICK r \in Replies : ReplyOf(c, r) /\ (r = "accepted" <=> DidReportRequest(c))
  <2>1. DidReportRequest(c) => ReplyOf(c, "accepted")
    BY DEF DidReportRequest
  <2>2. UnknownStatus(c) \/ BadRequest(c) \/ EntityTooLarge(c) \/ RequestFailed(c) =>
          \E r \in Replies \ {"accepted"} : ReplyOf(c, r)
    BY DEF UnknownStatus, BadRequest, EntityTooLarge, RequestFailed, Replies
  <2>3. ASSUME NEW r \in Replies, ReplyOf(c, r)
        PROVE  executor[1] = ReplyTo(c, r)
    BY <2>3, HeadReply
  <2>4. \A r \in Replies \ {"accepted"} : ~(ReplyOf(c, r) /\ ReplyOf(c, "accepted"))
    BY <2>3 DEF ReplyTo, Replies
  <2>5. QED
    BY <2>1, <2>2, <2>4 DEF Replies
<1>2. /\ executor # <<>> /\ executor[1] = ReplyTo(c, r) /\ 1 \in DOMAIN executor
      /\ executor[1].kind \in {"reply", "append"} /\ executor[1].ctl = c
      /\ controller[c].requestor = "answered"
  <2>1. /\ executor # <<>> /\ executor[1] = ReplyTo(c, r) /\ 1 \in DOMAIN executor
        /\ controller[c].requestor = "answered"
    BY <1>1, HeadReply
  <2>2. QED
    BY <2>1 DEF ReplyTo
<1>3. isWorking' = isWorking
  BY DEF DidReportRequest, UnknownStatus, BadRequest, EntityTooLarge, RequestFailed, ReplyRest
<1>4. /\ requestID \in Nat /\ lastAck \in [Controllers -> Nat] /\ lostAck \in [Controllers -> Nat]
      /\ id \in Nat /\ lastAck[c] \in Nat
  BY ControllerFacts DEF IInv, PlainType, StateOver
<1>5. /\ lastAck[c] <= id /\ id <= requestID
      /\ MayBeSent(c, id) \/ AckPosted(c)
  BY <1>2 DEF Base, Numbered
<1> HIDE DEF id
<1>6. CASE DidReportRequest(c)
  <2>1. /\ Turn(c, controller[c], requestID + 1, {requestID + 1})
        /\ lastAck' = lastAck /\ lostAck' = [lostAck EXCEPT ![c] = 0]
    BY <1>6, AcceptedTurn
  <2>2. \A d \in Controllers \ {c} : lostAck'[d] = lostAck[d]
    BY <1>4, <2>1
  <2>3. /\ requestID + 1 \in Nat /\ requestID <= requestID + 1
        /\ lastAck[c] < requestID + 1
    BY <1>4, <1>5
  <2>4. QED
    BY <1>2, <1>3, <2>1, <2>2, <2>3, TurnBase
\* The acknowledgement would be a second reply of the controller.
<1>7. CASE ~DidReportRequest(c)
  <2>1. /\ Turn(c, controller[c], requestID, {id})
        /\ lastAck' = lastAck /\ lostAck' = lostAck
    BY <1>7, OtherReplyTurn DEF id
  <2>2. ~AckPosted(c)
    <3>1. SUFFICES ASSUME NEW i \in DOMAIN executor, executor[i] = ReplyTo(c, "accepted")
                   PROVE  FALSE
      BY DEF AckPosted
    <3>2. executor[i].kind = "reply" /\ executor[i].ctl = c
          /\ executor[1].kind = "reply" /\ executor[1].ctl = c
      BY <1>2, <3>1 DEF ReplyTo
    <3>3. i = 1
      BY <1>2, <3>2 DEF IInv, InProgressHasRequest
    <3>4. QED
      BY <1>1, <1>2, <1>7, <3>1, <3>3 DEF ReplyTo
  <2>3. MayBeSent(c, id)
    BY <1>5, <2>2
  <2>4. lastAck[c] < requestID \/ (requestID = lastAck[c] /\ requestID = lostAck'[c])
    BY <1>4, <1>5, <2>1, <2>3, LaterMayBeSent
  <2>5. lastAck[c] < id \/ (id = lastAck[c] /\ id = lostAck'[c])
    BY <1>4, <2>1, <2>3 DEF MayBeSent
  <2>6. QED
    BY <1>2, <1>3, <1>4, <1>5, <2>1, <2>4, <2>5, TurnBase
<1>8. QED
  BY <1>6, <1>7

\* The controller that begins with the models of an append.
Begun(c) ==
  [controller[c] EXCEPT !.models = @ \o Head(executor).models, !.inProgress = TRUE]

LEMMA AppendHead ==
  ASSUME IInv, RunAppend
  PROVE  LET c == executor[1].ctl IN
         /\ executor # <<>> /\ executor[1].kind = "append" /\ Head(executor) = executor[1]
         /\ c \in Controllers /\ controller[c] \in StateOver(added)
         /\ executor[1].models \in Seq(ModelOver(added))
         /\ controller[c].models \o executor[1].models \in Seq(ModelOver(added))
         /\ Begun(c) \in StateOver(added) /\ Begun(c).inProgress
         /\ Begun(c).models = controller[c].models \o executor[1].models
         /\ Begun(c).request = controller[c].request
         /\ ~controller[c].inProgress => controller[c].request = NoRequest
         /\ controller[c].inProgress <=> controller[c].requestor # "none"
<1> DEFINE c == executor[1].ctl
<1>1. /\ executor # <<>> /\ Head(executor) = executor[1] /\ executor[1].kind = "append"
      /\ executor[1] \in BlockOver(added)
  BY HeadKind DEF RunAppend
<1>2. c \in Controllers /\ executor[1].models \in Seq(ModelOver(added))
  BY <1>1 DEF BlockOver, Perform, CancelPending, Callback
<1> HIDE DEF c
<1>3. controller[c] \in StateOver(added)
  BY <1>2, ControllerFacts
<1>4. controller[c].models \in Seq(ModelOver(added))
  BY <1>3 DEF StateOver
<1>5. controller[c].models \o executor[1].models \in Seq(ModelOver(added))
  BY <1>2, <1>4
<1>6. /\ Begun(c) \in StateOver(added) /\ Begun(c).inProgress
      /\ Begun(c).models = controller[c].models \o executor[1].models
      /\ Begun(c).request = controller[c].request
  <2> DEFINE ms == controller[c].models \o executor[1].models
  <2>1. Begun(c) = [controller[c] EXCEPT !.models = ms, !.inProgress = TRUE]
    BY <1>1 DEF Begun
  <2>2. ms \in Seq(ModelOver(added))
    BY <1>5
  <2> HIDE DEF ms
  <2>3. /\ Begun(c) \in StateOver(added) /\ Begun(c).inProgress
        /\ Begun(c).models = ms /\ Begun(c).request = controller[c].request
    BY <1>3, <2>1, <2>2 DEF StateOver
  <2>4. QED
    BY <2>3 DEF ms
<1>7. OwnRequest(c)
  BY <1>2, OwnRequests DEF IInv
<1>8. QED
  BY <1>1, <1>2, <1>3, <1>5, <1>6, <1>7 DEF IInv, IdleHasNoRequest, OwnRequest, c

\* What the block of an append does.
LEMMA AppendMoves ==
  ASSUME IInv, RunAppend
  PROVE  LET c == executor[1].ctl IN
         /\ isWorking' = isWorking /\ lastAck' = lastAck /\ lostAck' = lostAck
         /\ \/ /\ controller[c].inProgress
               /\ controller' = [controller EXCEPT ![c].models = @ \o executor[1].models]
               /\ executor' = Tail(executor) \o <<>>
               /\ UNCHANGED <<stored, requestID, proxyState>>
            \/ /\ ~controller[c].inProgress
               /\ PerformNextRequest(c, Begun(c), stored, requestID)
<1> DEFINE c == executor[1].ctl
           s == [controller[c] EXCEPT !.models = @ \o executor[1].models]
<1>1. /\ Head(executor) = executor[1] /\ c \in Controllers /\ controller[c] \in StateOver(added)
      /\ controller \in [Controllers -> StateOver(added)]
  BY AppendHead DEF IInv, DataType
<1>2. s.inProgress = controller[c].inProgress
  BY <1>1 DEF StateOver
<1>3. \/ /\ s.inProgress /\ Set(c, s) /\ Post(<<>>)
         /\ UNCHANGED <<stored, requestID, denied, proxyState, lastPurge>>
      \/ /\ ~s.inProgress
         /\ PerformNextRequest(c, [s EXCEPT !.inProgress = TRUE], stored, requestID)
  BY <1>1 DEF RunAppend
<1>4. [s EXCEPT !.inProgress = TRUE] = Begun(c)
  BY <1>1 DEF Begun
<1>5. [controller EXCEPT ![c] = s] = [controller EXCEPT ![c].models = @ \o executor[1].models]
  OBVIOUS
<1> HIDE DEF s, c
<1>6. \/ /\ controller[c].inProgress
         /\ controller' = [controller EXCEPT ![c].models = @ \o executor[1].models]
         /\ executor' = Tail(executor) \o <<>>
         /\ UNCHANGED <<stored, requestID, proxyState>>
      \/ /\ ~controller[c].inProgress
         /\ PerformNextRequest(c, Begun(c), stored, requestID)
  BY <1>2, <1>3, <1>4, <1>5 DEF Set, Post
<1>7. QED
  BY <1>6 DEF RunAppend, c

\* A step that leaves requests and identifiers alone.
LEMMA NumberedKept ==
  ASSUME Numbered, UNCHANGED <<requestID, lastAck, lostAck>>,
         \A c \in Controllers :
           /\ controller'[c].requestor # "none" <=> controller[c].requestor # "none"
           /\ controller'[c].request = controller[c].request
           /\ AckPosted(c) => AckPosted(c)'
  PROVE  Numbered'
  BY DEF Numbered, MayBeSent

LEMMA AppendBase ==
  ASSUME IInv, Base, RunAppend
  PROVE  Base'
<1> DEFINE c == executor[1].ctl
<1>1. /\ executor # <<>> /\ executor[1].kind = "append" /\ c \in Controllers
      /\ controller[c] \in StateOver(added) /\ Begun(c) \in StateOver(added) /\ Begun(c).inProgress
      /\ controller[c].inProgress <=> controller[c].requestor # "none"
  BY AppendHead
<1>2. isWorking' = isWorking /\ lastAck' = lastAck /\ lostAck' = lostAck
  BY AppendMoves
<1>3. requestID \in Nat \ {0} /\ lastAck \in [Controllers -> Nat]
  BY DEF IInv, PlainType
<1>4. CASE /\ controller[c].inProgress
           /\ controller' = [controller EXCEPT ![c].models = @ \o executor[1].models]
           /\ executor' = Tail(executor) \o <<>>
           /\ UNCHANGED <<stored, requestID, proxyState>>
  <2>1. \A d \in Controllers :
          /\ controller'[d].requestor = controller[d].requestor
          /\ controller'[d].request = controller[d].request
          /\ controller'[d].inProgress = controller[d].inProgress
          /\ controller'[d].models = controller[d].models \/ controller'[d].inProgress
          /\ ~(executor[1].kind = "append" /\ executor[1].ctl = d) \/ controller'[d].requestor # "none"
    BY <1>1, <1>4 DEF IInv, DataType, StateOver
  <2>2. \A d \in Controllers : executor[1] # CancelOf(d)
    BY <1>1 DEF CancelOf
  <2>3. Numbered'
    <3>1. \A d \in Controllers : AckPosted(d) => AckPosted(d)'
      BY <1>1, <1>4, NoBlocks, AckRun
    <3>2. QED
      BY <1>2, <1>4, <2>1, <3>1, NumberedKept DEF Base
  <2>4. LeftoversAreCancelled'
    BY <1>1, <1>4, <2>1, <2>2, NoBlocks, LeftoversRun DEF Base
  <2>5. ProxyFollows'
    BY <1>1, <1>2, <1>4, <2>1, NoBlocks, ProxyRun DEF Base
  <2>6. QED
    BY <2>3, <2>4, <2>5 DEF Base
<1>5. CASE /\ ~controller[c].inProgress
           /\ PerformNextRequest(c, Begun(c), stored, requestID)
  <2>1. Proper(Begun(c), stored) => QueueProper(Begun(c).models, stored)
    BY DEF Proper
  <2>2. Turn(c, Begun(c), requestID, {requestID})
    BY <1>1, <1>3, <1>5, <2>1, PerformNextRequestTurn
  <2>3. lastAck[c] < requestID \/ (requestID = lastAck[c] /\ requestID = lostAck[c])
    BY <1>1, <1>5 DEF Base, Numbered, MayBeSent, StateOver
  <2>4. QED
    BY <1>1, <1>2, <1>3, <2>2, <2>3, TurnBase
<1>6. QED
  BY <1>4, <1>5, AppendMoves

LEMMA NextReportBlocks ==
  ASSUME NEW onExecutor \in Seq(BlockOver(added)), PerformNextReport(onExecutor)
  PROVE  \/ executor' = onExecutor \o <<Perform>> /\ isWorking' = isWorking
         \/ executor' = onExecutor \o <<>> /\ isWorking' = FALSE
<1>1. onExecutor \o <<>> = onExecutor
  BY ConcatEmptySeq
<1>2. Append(onExecutor, Perform) = onExecutor \o <<Perform>>
  BY AppendIsConcat
<1>3. QED
  BY <1>1, <1>2 DEF PerformNextReport

\* A callback, or a round that comes to nothing.
LEMMA NextReportBase ==
  ASSUME IInv, Base, executor # <<>>, executor[1].kind \in {"callback", "perform"},
         PerformNextReport(Tail(executor)),
         UNCHANGED <<requestID, controller, lastAck, lostAck>>
  PROVE  Base'
<1>1. Tail(executor) \in Seq(BlockOver(added))
  BY DEF IInv, DataType
<1>2. PICK blocks \in Seq(BlockOver(added)) :
        /\ executor' = Tail(executor) \o blocks
        /\ isWorking' = FALSE \/ \E j \in DOMAIN blocks : blocks[j] \in {Perform, Callback}
  <2>1. <<>> \in Seq(BlockOver(added)) /\ <<Perform>> \in Seq(BlockOver(added))
    BY PlainBlocks
  <2>2. 1 \in DOMAIN <<Perform>> /\ <<Perform>>[1] = Perform
    OBVIOUS
  <2>3. QED
    BY <1>1, <2>1, <2>2, NextReportBlocks
<1>3. \A d \in Controllers : executor[1] # CancelOf(d)
  BY DEF CancelOf
<1>4. LeftoversAreCancelled'
  BY <1>2, <1>3, LeftoversRun DEF Base
<1>5. ProxyFollows'
  <2>1. isWorking' = FALSE => ProxyFollows'
    BY DEF ProxyFollows
  <2>2. (\E j \in DOMAIN blocks : blocks[j] \in {Perform, Callback}) => Closing'
    BY <1>2, ClosingPosted
  <2>3. QED
    BY <1>2, <2>1, <2>2 DEF ProxyFollows
<1>6. Numbered'
  <2>1. \A c \in Controllers : AckPosted(c) => AckPosted(c)'
    BY <1>2, AckRun
  <2>2. QED
    BY <2>1, NumberedKept DEF Base
<1>7. QED
  BY <1>4, <1>5, <1>6 DEF Base

LEMMA CallbackBase ==
  ASSUME IInv, Base, RunCallback
  PROVE  Base'
<1>1. executor # <<>> /\ executor[1].kind = "callback"
  BY HeadKind DEF RunCallback
<1>2. PerformNextReport(Tail(executor)) /\ UNCHANGED <<requestID, controller, lastAck, lostAck>>
  BY DEF RunCallback, history
<1>3. QED
  BY <1>1, <1>2, NextReportBase

\* The models that a round hands to the two controllers.
LEMMA PerformMoves ==
  ASSUME IInv, RunPerform
  PROVE  /\ executor # <<>> /\ executor[1].kind = "perform"
         /\ UNCHANGED <<stored, requestID, controller, lastAck, lostAck>>
         /\ \/ PerformNextReport(Tail(executor)) /\ UNCHANGED proxyState
            \/ LET regular  == RegularModels(Collected(stored))
                   tracking == TrackingModels(Collected(stored))
               IN  /\ UNCHANGED isWorking
                   /\ regular \in Seq(ModelOver(added)) /\ tracking \in Seq(ModelOver(added))
                   /\ \/ /\ tracking = <<>>
                         /\ executor' = Tail(executor) \o <<AppendTo("regular", regular)>>
                         /\ proxyState' = [regular |-> "InProgress", tracking |-> "Completed"]
                      \/ /\ tracking # <<>>
                         /\ executor' = Tail(executor) \o
                              <<AppendTo("regular", regular), AppendTo("tracking", tracking)>>
                         /\ proxyState' = [regular |-> "InProgress", tracking |-> "InProgress"]
<1> DEFINE regular  == RegularModels(Collected(stored))
           tracking == TrackingModels(Collected(stored))
<1>1. executor # <<>> /\ executor[1].kind = "perform"
  BY HeadKind DEF RunPerform
<1>2. UNCHANGED <<stored, requestID, controller, lastAck, lostAck>>
  BY DEF RunPerform, history
<1>3. regular \in Seq(ModelOver(added)) /\ tracking \in Seq(ModelOver(added))
  <2>1. Collected(stored) \in SUBSET Events /\ Collected(stored) \subseteq added
    BY DEF IInv, DataType, Collected, First
  <2>2. QED
    BY <2>1, RegularModelsOver, TrackingModelsOver, ModelOverMonotone
<1>4. \/ PerformNextReport(Tail(executor)) /\ UNCHANGED proxyState
      \/ /\ proxyState' = [regular  |-> "InProgress",
                           tracking |-> IF tracking = <<>> THEN "Completed" ELSE "InProgress"]
         /\ executor' = Tail(executor) \o (<<AppendTo("regular", regular)>> \o
              IF tracking = <<>> THEN <<>> ELSE <<AppendTo("tracking", tracking)>>)
         /\ UNCHANGED isWorking
  BY DEF RunPerform, Post
<1> HIDE DEF regular, tracking
<1>5. <<AppendTo("regular", regular)>> \o <<>> = <<AppendTo("regular", regular)>>
      /\ <<AppendTo("regular", regular)>> \o <<AppendTo("tracking", tracking)>>
         = <<AppendTo("regular", regular), AppendTo("tracking", tracking)>>
  BY ConcatPair
<1>6. \/ PerformNextReport(Tail(executor)) /\ UNCHANGED proxyState
      \/ /\ UNCHANGED isWorking
         /\ \/ /\ tracking = <<>>
               /\ executor' = Tail(executor) \o <<AppendTo("regular", regular)>>
               /\ proxyState' = [regular |-> "InProgress", tracking |-> "Completed"]
            \/ /\ tracking # <<>>
               /\ executor' = Tail(executor) \o
                    <<AppendTo("regular", regular), AppendTo("tracking", tracking)>>
               /\ proxyState' = [regular |-> "InProgress", tracking |-> "InProgress"]
  BY <1>4, <1>5
<1>7. QED
  BY <1>1, <1>2, <1>3, <1>6 DEF regular, tracking

LEMMA PerformBase ==
  ASSUME IInv, Base, RunPerform
  PROVE  Base'
<1> DEFINE regular  == RegularModels(Collected(stored))
           tracking == TrackingModels(Collected(stored))
           one == <<AppendTo("regular", regular)>>
           two == <<AppendTo("regular", regular), AppendTo("tracking", tracking)>>
<1>1. executor # <<>> /\ executor[1].kind = "perform"
      /\ UNCHANGED <<requestID, controller, lastAck, lostAck>>
  BY PerformMoves
<1>2. CASE PerformNextReport(Tail(executor)) /\ UNCHANGED proxyState
  BY <1>1, <1>2, NextReportBase
<1>3. CASE /\ UNCHANGED isWorking
           /\ regular \in Seq(ModelOver(added)) /\ tracking \in Seq(ModelOver(added))
           /\ \/ /\ executor' = Tail(executor) \o one
                 /\ proxyState' = [regular |-> "InProgress", tracking |-> "Completed"]
              \/ /\ executor' = Tail(executor) \o two
                 /\ proxyState' = [regular |-> "InProgress", tracking |-> "InProgress"]
  <2>1. /\ AppendTo("regular", regular) \in BlockOver(added)
        /\ AppendTo("tracking", tracking) \in BlockOver(added)
    BY <1>3, PlainBlocks DEF Controllers
  <2> HIDE DEF regular, tracking
  <2>2. one \in Seq(BlockOver(added)) /\ two \in Seq(BlockOver(added))
    BY <2>1
  <2>3. /\ 1 \in DOMAIN one /\ one[1] = AppendTo("regular", regular)
        /\ 1 \in DOMAIN two /\ two[1] = AppendTo("regular", regular)
        /\ 2 \in DOMAIN two /\ two[2] = AppendTo("tracking", tracking)
    OBVIOUS
  <2> HIDE DEF one, two
  <2>4. PICK blocks \in Seq(BlockOver(added)) :
          /\ executor' = Tail(executor) \o blocks
          /\ \E j \in DOMAIN blocks : blocks[j] = AppendTo("regular", regular)
          /\ \/ proxyState' = [regular |-> "InProgress", tracking |-> "Completed"]
             \/ /\ proxyState' = [regular |-> "InProgress", tracking |-> "InProgress"]
                /\ \E j \in DOMAIN blocks : blocks[j] = AppendTo("tracking", tracking)
    BY <1>3, <2>2, <2>3
  <2>5. \A d \in Controllers : executor[1] # CancelOf(d)
    BY <1>1 DEF CancelOf
  <2>6. LeftoversAreCancelled'
    BY <1>1, <2>4, <2>5, LeftoversRun DEF Base
  <2>7. Numbered'
    <3>1. \A c \in Controllers : AckPosted(c) => AckPosted(c)'
      BY <1>1, <2>4, AckRun
    <3>2. QED
      BY <1>1, <3>1, NumberedKept DEF Base
  <2>8. ASSUME NEW d \in Controllers, NEW ms, \E j \in DOMAIN blocks : blocks[j] = AppendTo(d, ms)
        PROVE  Active(d)'
    <3>1. PICK i \in DOMAIN executor' : executor'[i] = AppendTo(d, ms)
      BY <1>1, <2>4, <2>8, IsQueued
    <3>2. QED
      BY <3>1 DEF Active, AppendTo
  <2>9. /\ proxyState'["regular"] = "InProgress" /\ Active("regular")'
        /\ proxyState'["tracking"] = "InProgress" => Active("tracking")'
    BY <2>4, <2>8 DEF Controllers
  <2>10. ProxyFollows'
    BY <2>9 DEF ProxyFollows, Active, Controllers
  <2>11. QED
    BY <2>6, <2>7, <2>10 DEF Base
<1>4. QED
  BY <1>2, <1>3, PerformMoves

LEMMA CancelBase ==
  ASSUME IInv, Base, RunCancel
  PROVE  Base'
<1> DEFINE c == executor[1].ctl
<1>1. /\ executor # <<>> /\ Head(executor) = executor[1] /\ executor[1].kind = "cancel"
      /\ executor[1] \in BlockOver(added)
  BY HeadKind DEF RunCancel
<1>2. c \in Controllers /\ executor[1] = CancelOf(c)
  BY <1>1 DEF BlockOver, Perform, CancelPending, Callback, CancelOf
<1>3. /\ controller' = [controller EXCEPT ![c] = [controller[c] EXCEPT !.retry = FALSE, !.models = <<>>]]
      /\ executor' = Tail(executor) \o <<>>
      /\ UNCHANGED <<requestID, proxyState, isWorking, lastAck, lostAck>>
  BY <1>1 DEF RunCancel, Set, Post, history
<1> HIDE DEF c
<1>4. \A d \in Controllers :
        /\ controller'[d].requestor = controller[d].requestor
        /\ controller'[d].request = controller[d].request
        /\ controller'[d].inProgress = controller[d].inProgress
        /\ IF d = c THEN controller'[d].models = <<>>
                    ELSE controller'[d].models = controller[d].models
  BY <1>2, <1>3 DEF IInv, DataType, StateOver
<1>5. \A d \in Controllers : d # c => executor[1] # CancelOf(d)
  BY <1>2 DEF CancelOf
<1>6. LeftoversAreCancelled'
  <2>1. \A d \in Controllers :
           \/ /\ controller'[d].models = controller[d].models
              /\ controller'[d].inProgress = controller[d].inProgress
              /\ executor[1] # CancelOf(d)
           \/ controller'[d].models = <<>>
    BY <1>4, <1>5
  <2>2. QED
    BY <1>1, <1>3, <2>1, NoBlocks, LeftoversRun DEF Base
<1>7. ProxyFollows'
  BY <1>1, <1>3, <1>4, NoBlocks, ProxyRun DEF Base
<1>8. Numbered'
  <2>1. \A d \in Controllers : AckPosted(d) => AckPosted(d)'
    BY <1>1, <1>3, NoBlocks, AckRun
  <2>2. QED
    BY <1>3, <1>4, <2>1, NumberedKept DEF Base
<1>9. QED
  BY <1>6, <1>7, <1>8 DEF Base

LEMMA CancelPendingBase ==
  ASSUME IInv, Base, RunCancelPending
  PROVE  Base'
<1> DEFINE blocks == <<CancelOf("regular"), CancelOf("tracking")>>
<1>1. executor # <<>> /\ executor[1].kind = "cancelPending"
  BY HeadKind DEF RunCancelPending
<1>2. /\ executor' = Tail(executor) \o blocks
      /\ UNCHANGED <<requestID, controller, proxyState, isWorking, lastAck, lostAck>>
  BY DEF RunCancelPending, Post, history
<1>3. blocks \in Seq(BlockOver(added))
  BY PlainBlocks, TwoBlocks DEF Controllers
<1> HIDE DEF blocks
<1>4. \A d \in Controllers : executor[1] # CancelOf(d)
  BY <1>1 DEF CancelOf
<1>5. LeftoversAreCancelled'
  BY <1>1, <1>2, <1>3, <1>4, LeftoversRun DEF Base
<1>6. ProxyFollows'
  BY <1>1, <1>2, <1>3, ProxyRun DEF Base
<1>7. Numbered'
  <2>1. \A c \in Controllers : AckPosted(c) => AckPosted(c)'
    BY <1>1, <1>2, <1>3, AckRun
  <2>2. QED
    BY <1>2, <2>1, NumberedKept DEF Base
<1>8. QED
  BY <1>5, <1>6, <1>7 DEF Base

LEMMA RunBase ==
  ASSUME IInv, Base, RunBlock
  PROVE  Base'
  BY CallbackBase, PerformBase, AppendBase, CancelBase, CancelPendingBase, ReplyBase DEF RunBlock

\* A step of another thread.
LEMMA PostBase ==
  ASSUME IInv, Base, NEW block \in BlockOver(added),
         executor' \in {executor, Append(executor, block)},
         UNCHANGED <<requestID, proxyState>>, Numbered' \/ UNCHANGED <<lastAck, lostAck>>,
         isWorking' = isWorking \/ (executor' # executor /\ block = Perform),
         \A c \in Controllers :
           /\ controller'[c].requestor # "none" <=> controller[c].requestor # "none"
           /\ controller'[c].request = controller[c].request
           /\ controller'[c].models = controller[c].models
           /\ controller'[c].inProgress = controller[c].inProgress
  PROVE  Base'
<1>3. \A i \in DOMAIN executor : i \in DOMAIN executor' /\ executor'[i] = executor[i]
  BY PostKeeps
<1>1. Numbered'
  <2>1. \A c \in Controllers : AckPosted(c) => AckPosted(c)'
    BY <1>3 DEF AckPosted, ReplyTo
  <2>2. QED
    BY <2>1, NumberedKept DEF Base
<1>2. LeftoversAreCancelled'
  BY LeftoversPost DEF Base
<1>4. CASE isWorking' = isWorking
  <2>1. Closing => Closing'
    BY <1>3 DEF Closing
  <2>2. \A c \in Controllers : Active(c) => Active(c)'
    BY <1>3 DEF Active
  <2>3. QED
    BY <1>1, <1>2, <1>4, <2>1, <2>2 DEF Base, ProxyFollows
<1>5. CASE executor' = Append(executor, Perform)
  <2>1. Perform \in BlockOver(added)
    BY PlainBlocks
  <2>2. PICK i \in DOMAIN executor' : executor'[i] = Perform
    BY <1>5, <2>1, PostKeeps
  <2>3. Closing'
    BY <2>2 DEF Closing, Perform
  <2>4. QED
    BY <1>1, <1>2, <2>3 DEF Base, ProxyFollows
<1>6. QED
  BY <1>4, <1>5

LEMMA BaseStep ==
  ASSUME IInv, Base, [Next]_vars
  PROVE  Base'
<1> DEFINE Same == UNCHANGED <<executor, controller, requestID, proxyState, lastAck, lostAck, isWorking>>
<1>0. Perform \in BlockOver(added) /\ CancelPending \in BlockOver(added)
  BY PlainBlocks
<1>1. CASE Same
  BY <1>0, <1>1, PostBase
<1>2. ASSUME NEW c \in Controllers, NEW r \in Replies, Reply(c, r)
      PROVE  Base'
  <2>1. /\ controller' = [controller EXCEPT ![c] = [controller[c] EXCEPT !.requestor = "answered"]]
        /\ controller[c].requestor = "waiting"
        /\ executor' = Append(executor, ReplyTo(c, r))
        /\ UNCHANGED <<requestID, proxyState, lostAck, isWorking>>
        /\ lastAck' = IF r = "accepted" THEN [lastAck EXCEPT ![c] = controller[c].request.id]
                      ELSE lastAck
    BY <1>2 DEF Reply, Set
  <2>2. \A d \in Controllers :
           /\ controller'[d].requestor # "none" <=> controller[d].requestor # "none"
           /\ controller'[d].request = controller[d].request
           /\ controller'[d].models = controller[d].models
           /\ controller'[d].inProgress = controller[d].inProgress
    BY <2>1 DEF IInv, DataType, StateOver
  <2>3. ReplyTo(c, r) \in BlockOver(added)
    BY DEF ReplyTo, BlockOver
  <2>4. Numbered'
    <3>1. \A d \in Controllers : AckPosted(d) => AckPosted(d)'
      BY <2>1, <2>3, PostKeeps DEF AckPosted, ReplyTo
    <3>2. r = "accepted" => AckPosted(c)'
      BY <2>1, <2>3, PostKeeps DEF AckPosted, ReplyTo
    <3>3. lastAck \in [Controllers -> Nat] /\ controller[c].request.id \in Nat
      BY ControllerFacts DEF IInv, PlainType, StateOver
    <3>4. \A d \in Controllers \ {c} : lastAck'[d] = lastAck[d]
      BY <2>1, <3>3
    <3>5. /\ lastAck'[c] <= controller[c].request.id
          /\ MayBeSent(c, controller[c].request.id)' \/ AckPosted(c)'
      <4>1. CASE r = "accepted"
        BY <2>1, <3>2, <3>3, <4>1
      <4>2. CASE r # "accepted"
        BY <2>1, <2>2, <3>1, <4>2 DEF Base, Numbered, MayBeSent
      <4>3. QED
        BY <4>1, <4>2
    <3>6. QED
      BY <2>1, <2>2, <3>1, <3>4, <3>5 DEF Base, Numbered, MayBeSent
  <2>5. QED
    BY <2>1, <2>2, <2>3, <2>4, PostBase
<1>3. ASSUME NEW e \in Events, AddEvent(e)
      PROVE  Same
  BY <1>3 DEF AddEvent, memory
<1>4. ASSUME NEW c \in Controllers, DenyRequests(c) \/ IntervalElapses(c)
      PROVE  Same
  BY <1>4 DEF DenyRequests, IntervalElapses, memory, history
<1>5. CASE PerformReportForApiKey
  <2>1. /\ \/ executor' = executor /\ isWorking' = isWorking
           \/ executor' = Append(executor, Perform)
        /\ UNCHANGED <<requestID, controller, proxyState, lastAck, lostAck>>
    BY <1>5 DEF PerformReportForApiKey, history
  <2>2. Append(executor, Perform) # executor
    BY DEF IInv, DataType
  <2>3. QED
    BY <1>0, <2>1, <2>2, PostBase
<1>6. CASE Shutdown
  <2>1. /\ executor' = Append(executor, CancelPending)
        /\ UNCHANGED <<requestID, controller, proxyState, lastAck, lostAck, isWorking>>
    BY <1>6 DEF Shutdown, history
  <2>2. QED
    BY <1>0, <2>1, PostBase
<1>7. CASE Relaunch
  <2>1. /\ ~isWorking' /\ controller' = [c \in Controllers |-> IdleController]
        /\ UNCHANGED <<requestID, lastAck>>
        /\ lostAck' = [c \in Controllers |-> IF AckPosted(c) THEN lastAck[c] ELSE lostAck[c]]
    BY <1>7 DEF Relaunch
  <2>2. \A c \in Controllers : controller'[c].requestor = "none" /\ controller'[c].models = <<>>
    BY <2>1 DEF IdleController
  <2>3. ASSUME NEW c \in Controllers
        PROVE  MayBeSent(c, requestID)'
    <3>1. requestID \in Nat /\ lastAck \in [Controllers -> Nat] /\ lastAck[c] \in Nat
          /\ controller[c].request.id \in Nat
      BY ControllerFacts DEF IInv, PlainType, StateOver
    <3>2. lastAck[c] <= requestID /\ (AckPosted(c) \/ MayBeSent(c, requestID))
      <4>1. CASE controller[c].requestor = "none"
        BY <3>1, <4>1 DEF Base, Numbered, MayBeSent
      <4>2. CASE controller[c].requestor # "none"
        <5>1. /\ lastAck[c] <= controller[c].request.id /\ controller[c].request.id <= requestID
              /\ MayBeSent(c, controller[c].request.id) \/ AckPosted(c)
          BY <4>2 DEF Base, Numbered
        <5>2. QED
          BY <3>1, <5>1, LaterMayBeSent DEF MayBeSent
      <4>3. QED
        BY <4>1, <4>2
    <3>3. CASE AckPosted(c)
      BY <2>1, <3>1, <3>2, <3>3 DEF MayBeSent
    <3>4. CASE ~AckPosted(c)
      BY <2>1, <3>2, <3>4 DEF MayBeSent
    <3>5. QED
      BY <3>3, <3>4
  <2>4. QED
    BY <2>1, <2>2, <2>3 DEF Base, Numbered, LeftoversAreCancelled, ProxyFollows
<1>8. CASE UNCHANGED vars
  BY <1>1, <1>8 DEF vars, memory, history
<1>9. QED
  BY <1>1, <1>2, <1>3, <1>4, <1>5, <1>6, <1>7, <1>8, RunBase DEF Next, SomeReply

LEMMA BaseHolds == Spec => []Base
<1>1. Init => Base
  BY DEF Init, Base, Numbered, MayBeSent, LeftoversAreCancelled, ProxyFollows, IdleController
<1>2. IInv /\ Base /\ [Next]_vars => Base'
  BY BaseStep
<1>3. QED
  BY <1>1, <1>2, IInvHolds, PTL DEF Spec

(* A request of the same controller uses an identifier that a server has
   acknowledged again only while the acknowledgement is one that was lost with
   the process before it was handled: a split or retried request keeps the
   identifier it took, and the handling of an acknowledgement makes the
   dispatcher take the next. *)
THEOREM IdentifiersAreFresh == Spec => []FreshIdentifier
<1>1. IInv /\ Base => FreshIdentifier
  <2> SUFFICES ASSUME IInv, Base, NEW c \in Controllers, controller[c].requestor = "waiting"
               PROVE  MayBeSent(c, controller[c].request.id)
    BY DEF FreshIdentifier
  <2>1. MayBeSent(c, controller[c].request.id) \/ AckPosted(c)
    BY DEF Base, Numbered
  <2>2. ~AckPosted(c)
    BY DEF IInv, InProgressHasRequest, AckPosted, ReplyTo
  <2>3. QED
    BY <2>1, <2>2
<1>2. QED
  BY <1>1, IInvHolds, BaseHolds, PTL

(* A finished controller keeps no model of its round, unless the block that
   clears its queue is still to run. *)
THEOREM NothingIsLeftOver == Spec => []LeftoversAreCancelled
<1>1. Base => LeftoversAreCancelled
  BY DEF Base
<1>2. QED
  BY <1>1, BaseHolds, PTL

(* While the dispatching controller works, a block or a request is under way
   that will make the dispatcher call back, with or without tracking events. *)
THEOREM WorkIsUnderWay == Spec => []WorkingMakesProgress
<1>1. Base => WorkingMakesProgress
  BY DEF Base, ProxyFollows, Closing, Active, WorkingMakesProgress
<1>2. QED
  BY <1>1, BaseHolds, PTL

-----------------------------------------------------------------------------
(* The models of a round share no event: the groups of the collected events are
   numbered, so that two models carry two groups. *)
LEMMA NthGroupRank ==
  ASSUME NEW S \in SUBSET Events, NEW i \in 1..Cardinality(GroupsOf(S))
  PROVE  /\ NthGroup(S, i) \in GroupsOf(S)
         /\ Cardinality({h \in GroupsOf(S) : h <= NthGroup(S, i)}) = i
<1> DEFINE G == GroupsOf(S)
           n == Cardinality(G)
           UpTo(g) == {h \in G : h <= g}
<1>1. G \subseteq Nat /\ IsFiniteSet(G) /\ n \in Nat
  <2>1. G \subseteq 1..NGroups
    BY RequestModelsAssumption DEF GroupsOf, RequestModelsAssumption
  <2>2. IsFiniteSet(1..NGroups)
    BY RequestModelsAssumption, FS_Interval DEF RequestModelsAssumption
  <2>3. IsFiniteSet(G)
    BY <2>1, <2>2, FS_Subset
  <2>4. n \in Nat
    BY <2>3, FS_CardinalityType
  <2>5. 1..NGroups \subseteq Nat
    BY RequestModelsAssumption DEF RequestModelsAssumption
  <2> HIDE DEF G
  <2>6. QED
    BY <2>1, <2>3, <2>4, <2>5
<1> HIDE DEF G
<1>2. ASSUME NEW g \in G
      PROVE  /\ UpTo(g) \in SUBSET G /\ IsFiniteSet(UpTo(g))
             /\ Cardinality(UpTo(g)) \in 1..n
  <2>1. UpTo(g) \in SUBSET G
    OBVIOUS
  <2>2. g \in UpTo(g)
    BY <1>1
  <2>3. IsFiniteSet(UpTo(g)) /\ Cardinality(UpTo(g)) <= n
    BY <1>1, <2>1, FS_Subset
  <2>4. Cardinality(UpTo(g)) \in Nat
    BY <2>3, FS_CardinalityType
  <2>5. Cardinality(UpTo(g)) # 0
    BY <2>2, <2>3, FS_EmptySet
  <2>6. QED
    BY <1>1, <2>1, <2>3, <2>4, <2>5
<1> DEFINE f == [g \in G |-> Cardinality(UpTo(g))]
<1>3. f \in [G -> 1..n]
  BY <1>2
<1>4. ASSUME NEW g \in G, NEW h \in G, f[g] = f[h]
      PROVE  g = h
  <2>1. Cardinality(UpTo(g)) = Cardinality(UpTo(h))
    BY <1>4
  <2>2. ASSUME NEW a \in G, NEW b \in G, a <= b
        PROVE  UpTo(a) \in SUBSET UpTo(b)
    <3>1. \A k \in G : k <= a => k <= b
      BY <1>1, <2>2
    <3>2. QED
      BY <3>1
  <2>3. g <= h \/ h <= g
    BY <1>1
  <2>4. UpTo(g) = UpTo(h)
    BY <1>1, <1>2, <2>1, <2>2, <2>3, FS_Subset
  <2>5. g \in UpTo(h) /\ h \in UpTo(g)
    <3>1. g \in UpTo(g) /\ h \in UpTo(h)
      BY <1>1
    <3>2. QED
      BY <2>4, <3>1
  <2>6. QED
    BY <1>1, <2>5
<1> HIDE DEF f
<1>5. f \in Injection(G, 1..n)
  BY <1>3, <1>4, Fun_IsInj
<1>6. IsFiniteSet(1..n) /\ Cardinality(1..n) = n
  BY <1>1, FS_Interval
<1>7. f \in Surjection(G, 1..n)
  BY <1>5, <1>6, FS_Injection
<1>8. PICK g \in G : f[g] = i
  <2>1. i \in 1..n
    BY DEF G
  <2> DEFINE T == 1..n
  <2>2. i \in T /\ f \in Surjection(G, T)
    BY <1>7, <2>1
  <2> HIDE DEF T
  <2>3. \A t \in T : \E g \in G : f[g] = t
    BY <2>2, Fun_SurjectionProperties, Zenon
  <2>4. QED
    BY <2>2, <2>3
<1>9. \E k \in G : Cardinality(UpTo(k)) = i
  BY <1>8 DEF f
<1>10. QED
  BY <1>9 DEF NthGroup, G

LEMMA RegularModelsProper ==
  ASSUME NEW S \in SUBSET Events
  PROVE  QueueProper(RegularModels(S), S)
<1> DEFINE n == Cardinality(GroupsOf(S))
<1>1. n \in Nat
  BY GroupsCount
<1>2. /\ DOMAIN RegularModels(S) = 1..n
      /\ \A i \in 1..n : RegularModels(S)[i].events
                         = {e \in S : GroupOf[e] = NthGroup(S, i)} \ Tracking
  BY DEF RegularModels, RequestModels, RegularPart
<1>3. ASSUME NEW i \in 1..n, NEW j \in 1..n, i # j
      PROVE  IsDisjoint(RegularModels(S)[i], RegularModels(S)[j])
  <2>1. NthGroup(S, i) # NthGroup(S, j)
    BY <1>3, NthGroupRank
  <2>2. QED
    BY <1>2, <2>1 DEF IsDisjoint
<1>4. \A i \in DOMAIN RegularModels(S) : RegularModels(S)[i].events \subseteq S
  BY <1>2
<1>5. QED
  BY <1>2, <1>3, <1>4 DEF QueueProper

LEMMA NoTrackingModels ==
  ASSUME Tracking = {}, NEW S
  PROVE  TrackingModels(S) = <<>>
<1>1. GroupsOf(S \cap Tracking) = {}
  BY DEF GroupsOf
<1>2. Cardinality(GroupsOf(S \cap Tracking)) = 0
  BY <1>1, FS_EmptySet
<1>3. QED
  BY <1>2 DEF TrackingModels, RequestModels

\* More events in the store do no harm.
LEMMA ProperMonotone ==
  ASSUME NEW db, NEW more, db \subseteq more
  PROVE  /\ \A ms : QueueProper(ms, db) => QueueProper(ms, more)
         /\ \A s : Proper(s, db) => Proper(s, more)
  BY DEF QueueProper, Proper

-----------------------------------------------------------------------------
(* The chain of a round, without tracking events: where it is after a block has
   run, and after one was posted. *)

LEMMA ChainsAfterRun ==
  ASSUME IInv, executor # <<>>, NEW blocks \in Seq(BlockOver(added)),
         executor' = Tail(executor) \o blocks,
         \A j \in DOMAIN blocks : blocks[j].kind \notin ChainKinds
  PROVE  /\ \A i \in Chains' : /\ i \in Nat /\ i + 1 # 1 /\ i + 1 \in Chains
                               /\ executor'[i] = executor[i + 1]
         /\ \A i \in Chains : i # 1 => i - 1 \in Chains'
<1>1. ASSUME NEW i \in Chains'
      PROVE  i \in Nat /\ i + 1 # 1 /\ i + 1 \in Chains /\ executor'[i] = executor[i + 1]
  <2>1. i \in DOMAIN executor' /\ executor'[i].kind \in ChainKinds
    BY DEF Chains
  <2>2. CASE \E j \in DOMAIN blocks : executor'[i] = blocks[j]
    BY <2>1, <2>2
  <2>3. CASE i \in Nat /\ i + 1 # 1 /\ i + 1 \in DOMAIN executor /\ executor'[i] = executor[i + 1]
    BY <2>1, <2>3 DEF Chains
  <2>4. QED
    BY <2>1, <2>2, <2>3, QueueAfterRun
<1>2. ASSUME NEW i \in Chains, i # 1
      PROVE  i - 1 \in Chains'
  <2>1. i \in DOMAIN executor /\ executor[i].kind \in ChainKinds
    BY DEF Chains
  <2>2. i - 1 \in DOMAIN executor' /\ executor'[i - 1] = executor[i]
    BY <1>2, <2>1, QueueAfterRun
  <2>3. QED
    BY <2>1, <2>2 DEF Chains
<1>3. QED
  BY <1>1, <1>2

\* The block that a chain goes on with is the only one of its kind.
LEMMA ChainPosted ==
  ASSUME IInv, executor # <<>>, NEW blocks \in Seq(BlockOver(added)),
         executor' = Tail(executor) \o blocks, Chains \subseteq {1},
         NEW k \in DOMAIN blocks, blocks[k].kind \in ChainKinds,
         \A j \in DOMAIN blocks : j # k => blocks[j].kind \notin ChainKinds
  PROVE  /\ Chains' = {Len(executor) - 1 + k}
         /\ executor'[Len(executor) - 1 + k] = blocks[k]
<1>1. /\ Len(executor) - 1 + k \in DOMAIN executor'
      /\ executor'[Len(executor) - 1 + k] = blocks[k]
  BY QueueAfterRun
<1>2. ASSUME NEW i \in Chains'
      PROVE  i = Len(executor) - 1 + k
  <2>1. i \in DOMAIN executor' /\ executor'[i].kind \in ChainKinds
    BY DEF Chains
  <2>2. CASE i \in Nat /\ i + 1 # 1 /\ i + 1 \in DOMAIN executor /\ executor'[i] = executor[i + 1]
    <3>1. i + 1 \in Chains
      BY <2>1, <2>2 DEF Chains
    <3>2. QED
      BY <2>2, <3>1
  <2>3. CASE \E j \in DOMAIN blocks : i = Len(executor) - 1 + j /\ executor'[i] = blocks[j]
    BY <2>1, <2>3
  <2>4. QED
    BY <2>1, <2>2, <2>3, QueueAfterRun
<1>3. QED
  BY <1>1, <1>2 DEF Chains

\* A block that is no link of the chain, and moves no controller but by clearing
\* queues.
LEMMA RoundRun ==
  ASSUME IInv, Round, executor # <<>>, NEW blocks \in Seq(BlockOver(added)),
         executor' = Tail(executor) \o blocks,
         executor[1].kind \notin ChainKinds,
         \A j \in DOMAIN blocks : blocks[j].kind \notin ChainKinds,
         UNCHANGED <<stored, proxyState, isWorking>>,
         \A c \in Controllers :
           /\ controller'[c].inProgress = controller[c].inProgress
           /\ controller'[c].request = controller[c].request
           /\ controller'[c].models \in {controller[c].models, <<>>},
         executor[1] = CancelOf("regular") => controller'["regular"].models = <<>>
  PROVE  Round'
<1>1. /\ \A i \in Chains' : /\ i \in Nat /\ i + 1 # 1 /\ i + 1 \in Chains
                            /\ executor'[i] = executor[i + 1]
      /\ \A i \in Chains : i # 1 => i - 1 \in Chains'
  BY ChainsAfterRun
<1>2. 1 \notin Chains /\ "regular" \in Controllers /\ "tracking" \in Controllers
  BY DEF Chains, Controllers
<1>3. OneChain'
  <2>1. \A i, j \in Chains' : i = j
    <3>1. \A i, j \in Chains' : i + 1 = j + 1
      BY <1>1 DEF Round, OneChain
    <3>2. QED
      BY <1>1, <3>1
  <2>2. Chains' # {} <=> Chains # {}
    BY <1>1, <1>2
  <2>3. QED
    BY <1>2, <2>1, <2>2 DEF Round, OneChain
<1>4. Batches'
  <2>1. ASSUME NEW i \in DOMAIN executor', executor'[i].kind = "append"
        PROVE  executor'[i].ctl = "regular" /\ QueueProper(executor'[i].models, stored)
    <3>1. i \in Chains'
      BY <2>1 DEF Chains, ChainKinds
    <3>2. i + 1 \in DOMAIN executor /\ executor'[i] = executor[i + 1]
      BY <1>1, <3>1 DEF Chains
    <3>3. QED
      BY <2>1, <3>2 DEF Round, Batches
  <2>2. QED
    BY <2>1 DEF Batches
<1>5. Clears'
  <2> SUFFICES ASSUME NEW i \in Chains', controller'["regular"].models # <<>>
               PROVE  \E j \in DOMAIN executor' : j < i /\ executor'[j] = CancelOf("regular")
    BY DEF Clears, CancelOf
  <2>1. i + 1 \in Chains /\ i \in Nat
    BY <1>1
  <2>2. controller["regular"].models # <<>> /\ executor[1] # CancelOf("regular")
    BY <1>2
  <2>3. PICK j \in DOMAIN executor : j < i + 1 /\ executor[j] = CancelOf("regular")
    BY <2>1, <2>2 DEF Round, Clears
  <2>4. j # 1
    BY <2>2, <2>3
  <2>5. j \in Nat /\ j - 1 \in DOMAIN executor' /\ executor'[j - 1] = executor[j]
    BY <2>4, QueueAfterRun
  <2>6. j - 1 < i
    BY <2>1, <2>3, <2>5
  <2>7. QED
    BY <2>3, <2>5, <2>6
<1>6. Sends'
  <2>1. CASE controller'["regular"].models = controller["regular"].models
    BY <1>2, <2>1 DEF Round, Sends, Proper
  <2>2. CASE controller'["regular"].models = <<>>
    <3>1. QueueProper(<<>>, stored)
      BY DEF QueueProper
    <3>2. QED
      BY <1>2, <2>2, <3>1 DEF Round, Sends, Proper
  <2>3. QED
    BY <1>2, <2>1, <2>2
<1>7. QED
  BY <1>3, <1>4, <1>5, <1>6 DEF Round

\* A link that is posted to the chain: the models of the last round are cleared
\* before it.
LEMMA RoundPosted ==
  ASSUME NEW k, Chains' = {k}, ~controller'["regular"].inProgress, isWorking',
         proxyState'["tracking"] # "InProgress", ~controller'["tracking"].inProgress,
         executor'[k].kind = "append" =>
           executor'[k].ctl = "regular" /\ QueueProper(executor'[k].models, stored'),
         \/ controller'["regular"].models = <<>>
         \/ \E j \in DOMAIN executor' : j < k /\ executor'[j] = CancelOf("regular")
  PROVE  Round'
<1>1. OneChain'
  BY DEF OneChain
<1>2. Batches'
  <2>1. \A i \in DOMAIN executor' : executor'[i].kind = "append" => i = k
    BY DEF Chains, ChainKinds
  <2>2. QED
    BY <2>1 DEF Batches
<1>3. Clears' /\ Sends'
  BY DEF Clears, Sends, CancelOf
<1>4. QED
  BY <1>1, <1>2, <1>3 DEF Round

\* The turn of the controller: the chain is the request it sends, or the
\* callback that follows the block that clears its queue.
LEMMA TurnRound ==
  ASSUME IInv, Round, executor # <<>>, NEW s, NEW base, NEW ids, Turn("regular", s, base, ids),
         Proper(s, stored), Chains \subseteq {1}, isWorking, isWorking' = isWorking
  PROVE  Round'
<1>0. /\ controller \in [Controllers -> StateOver(added)]
      /\ proxyState \in [Controllers -> {"NotStarted", "InProgress", "Completed"}]
      /\ "regular" \in Controllers /\ "tracking" \in Controllers
      /\ \A d \in Controllers : d \in {"regular", "tracking"}
  BY DEF IInv, DataType, PlainType, Controllers
<1>1. PICK t \in StateOver(added) :
        /\ controller' = [controller EXCEPT !["regular"] = t]
        /\ Sent("regular", s, t, ids) \/ Failed("regular", t) \/ Finished("regular", t)
  BY DEF Turn
<1>2. controller'["regular"] = t /\ controller'["tracking"] = controller["tracking"]
  BY <1>0, <1>1
<1>3. ~controller'["tracking"].inProgress /\ proxyState["tracking"] # "InProgress"
  BY <1>2 DEF Round, OneChain
<1>4. CASE Sent("regular", s, t, ids)
  <2>1. /\ executor' = Tail(executor) \o <<>> /\ <<>> \in Seq(BlockOver(added))
        /\ t.inProgress /\ Proper(t, stored') /\ proxyState' = proxyState
    BY <1>4 DEF Sent
  <2>2. Chains' = {}
    <3>1. \A j \in DOMAIN <<>> : <<>>[j].kind \notin ChainKinds
      OBVIOUS
    <3>2. \A i \in Chains' : i \in Nat /\ i + 1 # 1 /\ i + 1 \in Chains
      BY <2>1, <3>1, ChainsAfterRun
    <3>3. QED
      BY <3>2
  <2>3. OneChain'
    BY <1>2, <1>3, <2>1, <2>2 DEF OneChain
  <2>4. Batches'
    BY <2>2 DEF Batches, Chains, ChainKinds
  <2>5. Clears' /\ Sends'
    BY <1>2, <2>1, <2>2 DEF Clears, Sends
  <2>6. QED
    BY <2>3, <2>4, <2>5 DEF Round
<1>5. CASE Failed("regular", t) \/ Finished("regular", t)
  <2> DEFINE blocks == <<CancelOf("regular"), Callback>>
             k == Len(executor) - 1 + 2
  <2>1. /\ ~t.inProgress /\ executor' = Tail(executor) \o blocks
        /\ proxyState'["tracking"] = proxyState["tracking"]
    <3>1. CASE Failed("regular", t)
      BY <3>1 DEF Failed
    <3>2. CASE Finished("regular", t)
      <4>1. /\ proxyState'["regular"] = "Completed"
            /\ proxyState'["tracking"] = proxyState["tracking"]
        BY <1>0, <3>2 DEF Finished
      <4>2. \A d \in Controllers : proxyState'[d] # "InProgress"
        BY <1>0, <1>3, <4>1
      <4>3. executor' = Tail(executor) \o <<CancelOf("regular"), Callback>>
        BY <3>2, <4>2, Zenon DEF Finished
      <4>4. QED
        BY <3>2, <4>1, <4>3 DEF Finished
    <3>3. QED
      BY <1>5, <3>1, <3>2
  <2>2. blocks \in Seq(BlockOver(added))
    BY TurnBlocks DEF Controllers
  <2>3. /\ 1 \in DOMAIN blocks /\ blocks[1] = CancelOf("regular")
        /\ 2 \in DOMAIN blocks /\ blocks[2] = Callback /\ DOMAIN blocks = {1, 2}
    OBVIOUS
  <2> HIDE DEF blocks
  <2>4. blocks[2].kind \in ChainKinds /\ blocks[1].kind \notin ChainKinds
    BY <2>3 DEF ChainKinds, Callback, CancelOf
  <2>5. Chains' = {k} /\ executor'[k] = Callback
    BY <2>1, <2>2, <2>3, <2>4, ChainPosted
  <2>6. /\ Len(executor) - 1 + 1 \in DOMAIN executor'
        /\ executor'[Len(executor) - 1 + 1] = CancelOf("regular")
        /\ Len(executor) \in Nat
    BY <2>1, <2>2, <2>3, QueueAfterRun
  <2>7. Len(executor) - 1 + 1 < k
    BY <2>6
  <2> HIDE DEF k
  <2>8. executor'[k].kind # "append"
    BY <2>5 DEF Callback
  <2>9. QED
    BY <1>2, <1>3, <2>1, <2>5, <2>6, <2>7, <2>8, RoundPosted
<1>6. QED
  BY <1>1, <1>4, <1>5

LEMMA CallbackRound ==
  ASSUME IInv, Round, executor # <<>>, executor[1].kind \in {"callback", "perform"},
         PerformNextReport(Tail(executor)),
         UNCHANGED <<stored, controller, proxyState>>
  PROVE  Round'
<1>1. Tail(executor) \in Seq(BlockOver(added)) /\ 1 \in Chains
  <2>1. executor \in Seq(BlockOver(added))
    BY DEF IInv, DataType
  <2>2. QED
    BY <2>1 DEF Chains, ChainKinds
<1>2. /\ Chains \subseteq {1} /\ isWorking
      /\ ~controller["regular"].inProgress /\ ~controller["tracking"].inProgress
      /\ proxyState["tracking"] # "InProgress"
  BY <1>1 DEF Round, OneChain
<1>3. controller["regular"].models = <<>>
  <2>1. \A j \in DOMAIN executor : ~(j < 1)
    BY DEF IInv, DataType
  <2>2. QED
    BY <1>1, <2>1 DEF Round, Clears
<1>4. CASE executor' = Tail(executor) \o <<Perform>> /\ isWorking' = isWorking
  <2> DEFINE blocks == <<Perform>>
             k == Len(executor) - 1 + 1
  <2>1. blocks \in Seq(BlockOver(added))
    BY PlainBlocks
  <2>2. 1 \in DOMAIN blocks /\ blocks[1] = Perform /\ DOMAIN blocks = {1}
        /\ Perform.kind = "perform" /\ "perform" \in ChainKinds
    BY DEF ChainKinds, Perform
  <2>3. executor' = Tail(executor) \o blocks
    BY <1>4
  <2> HIDE DEF blocks
  <2>4. Chains' = {k} /\ executor'[k] = Perform
    BY <1>2, <2>1, <2>2, <2>3, ChainPosted
  <2> HIDE DEF k
  <2>5. QED
    BY <1>2, <1>3, <1>4, <2>2, <2>4, RoundPosted
<1>5. CASE executor' = Tail(executor) \o <<>> /\ isWorking' = FALSE
  <2>1. \A j \in DOMAIN <<>> : <<>>[j].kind \notin ChainKinds
    OBVIOUS
  <2>2. Chains' = {}
    <3>1. \A i \in Chains' : i \in Nat /\ i + 1 # 1 /\ i + 1 \in Chains
      BY <1>5, <2>1, NoBlocks, ChainsAfterRun
    <3>2. QED
      BY <1>2, <3>1
  <2>3. OneChain'
    BY <1>2, <1>5, <2>2 DEF OneChain
  <2>4. Batches' /\ Clears' /\ Sends'
    BY <1>2, <2>2 DEF Batches, Clears, Sends, Chains, ChainKinds
  <2>5. QED
    BY <2>3, <2>4 DEF Round
<1>6. QED
  BY <1>1, <1>4, <1>5, NextReportBlocks

LEMMA PerformRound ==
  ASSUME IInv, Round, Tracking = {}, RunPerform
  PROVE  Round'
<1> DEFINE regular  == RegularModels(Collected(stored))
           tracking == TrackingModels(Collected(stored))
<1>1. executor # <<>> /\ executor[1].kind = "perform" /\ UNCHANGED <<stored, controller>>
  BY PerformMoves
<1>2. tracking = <<>>
  BY NoTrackingModels
<1>3. QueueProper(regular, stored)
  <2>1. Collected(stored) \in SUBSET Events /\ Collected(stored) \subseteq stored
    BY DEF IInv, DataType, Collected, First
  <2>2. QED
    BY <2>1, RegularModelsProper, ProperMonotone
<1> HIDE DEF regular, tracking
<1>4. CASE PerformNextReport(Tail(executor)) /\ UNCHANGED proxyState
  BY <1>1, <1>4, CallbackRound
<1>5. CASE /\ UNCHANGED isWorking /\ regular \in Seq(ModelOver(added))
           /\ executor' = Tail(executor) \o <<AppendTo("regular", regular)>>
           /\ proxyState' = [regular |-> "InProgress", tracking |-> "Completed"]
  <2> DEFINE block  == AppendTo("regular", regular)
             blocks == <<block>>
             k == Len(executor) - 1 + 1
  <2>1. block \in BlockOver(added)
    BY <1>5, PlainBlocks DEF Controllers
  <2>2. block.kind = "append" /\ block.ctl = "regular" /\ block.models = regular
    BY DEF AppendTo
  <2>3. executor' = Tail(executor) \o blocks
    BY <1>5
  <2> HIDE DEF block
  <2>4. blocks \in Seq(BlockOver(added))
    BY <2>1
  <2>5. 1 \in DOMAIN blocks /\ blocks[1] = block /\ DOMAIN blocks = {1}
        /\ block.kind \in ChainKinds
    BY <2>2 DEF ChainKinds
  <2> HIDE DEF blocks
  <2>6. 1 \in Chains
    <3>1. executor \in Seq(BlockOver(added))
      BY DEF IInv, DataType
    <3>2. QED
      BY <1>1, <3>1 DEF Chains, ChainKinds
  <2>7. /\ Chains \subseteq {1} /\ isWorking
        /\ ~controller["regular"].inProgress /\ ~controller["tracking"].inProgress
    BY <2>6 DEF Round, OneChain
  <2>8. controller["regular"].models = <<>>
    <3>1. \A j \in DOMAIN executor : ~(j < 1)
      BY DEF IInv, DataType
    <3>2. QED
      BY <2>6, <3>1 DEF Round, Clears
  <2>9. Chains' = {k} /\ executor'[k] = block
    BY <1>1, <2>3, <2>4, <2>5, <2>7, ChainPosted
  <2> HIDE DEF k
  <2>10. QED
    BY <1>1, <1>3, <1>5, <2>2, <2>7, <2>8, <2>9, RoundPosted
<1>6. \/ PerformNextReport(Tail(executor)) /\ UNCHANGED proxyState
      \/ /\ UNCHANGED isWorking /\ regular \in Seq(ModelOver(added))
         /\ executor' = Tail(executor) \o <<AppendTo("regular", regular)>>
         /\ proxyState' = [regular |-> "InProgress", tracking |-> "Completed"]
  BY <1>2, PerformMoves DEF regular, tracking
<1>7. QED
  BY <1>4, <1>5, <1>6

LEMMA AppendRound ==
  ASSUME IInv, Round, RunAppend
  PROVE  Round'
<1>1. /\ executor # <<>> /\ executor[1].kind = "append" /\ 1 \in DOMAIN executor
      /\ executor \in Seq(BlockOver(added))
  <2>1. executor \in Seq(BlockOver(added))
    BY DEF IInv, DataType
  <2>2. executor # <<>> /\ executor[1].kind = "append"
    BY AppendHead
  <2>3. QED
    BY <2>1, <2>2
<1>2. 1 \in Chains
  BY <1>1 DEF Chains, ChainKinds
<1>3. /\ Chains \subseteq {1} /\ isWorking /\ ~controller["regular"].inProgress
      /\ executor[1].ctl = "regular" /\ QueueProper(executor[1].models, stored)
  BY <1>1, <1>2 DEF Round, OneChain, Batches
<1>4. controller["regular"].models = <<>>
  <2>1. \A j \in DOMAIN executor : ~(j < 1)
    BY <1>1
  <2>2. QED
    BY <1>2, <2>1 DEF Round, Clears
<1> DEFINE s == Begun("regular")
<1>5. /\ s \in StateOver(added) /\ s.inProgress /\ s.request = NoRequest
      /\ s.models = <<>> \o executor[1].models /\ executor[1].models \in Seq(ModelOver(added))
      /\ "regular" \in Controllers
  BY <1>3, <1>4, AppendHead
<1>6. /\ PerformNextRequest("regular", s, stored, requestID) /\ isWorking' = isWorking
  BY <1>3, AppendMoves
<1> HIDE DEF s
<1>7. s.models = executor[1].models
  BY <1>5, ConcatEmptySeq
<1>8. Proper(s, stored)
  <2>1. s.request.model.events = {}
    BY <1>5 DEF NoRequest, NoModel
  <2>2. QED
    BY <1>3, <1>7, <2>1 DEF Proper, IsDisjoint
<1>9. requestID \in Nat \ {0} /\ QueueProper(s.models, stored)
  BY <1>3, <1>7 DEF IInv, PlainType
<1>10. Turn("regular", s, requestID, {requestID})
  BY <1>5, <1>6, <1>9, PerformNextRequestTurn
<1>11. QED
  BY <1>1, <1>3, <1>6, <1>8, <1>10, TurnRound

LEMMA ReplyRound ==
  ASSUME IInv, Round, NEW c \in Controllers,
         \/ DidReportRequest(c) \/ UnknownStatus(c) \/ BadRequest(c)
         \/ EntityTooLarge(c) \/ RequestFailed(c)
  PROVE  Round'
<1>1. PICK r \in Replies : ReplyOf(c, r)
  BY DEF DidReportRequest, UnknownStatus, BadRequest, EntityTooLarge, RequestFailed, Replies
<1>2. executor # <<>> /\ controller[c].inProgress
  BY <1>1, HeadReply
<1>3. c = "regular"
  BY <1>2 DEF Round, OneChain, Controllers
<1>4. Chains = {} /\ isWorking /\ Proper(controller[c], stored)
  BY <1>2, <1>3 DEF Round, OneChain, Sends
<1>5. isWorking' = isWorking
  BY DEF DidReportRequest, UnknownStatus, BadRequest, EntityTooLarge, RequestFailed, ReplyRest
<1>6. \E base, ids : Turn(c, controller[c], base, ids)
  BY AcceptedTurn, OtherReplyTurn
<1>7. QED
  BY <1>2, <1>3, <1>4, <1>5, <1>6, TurnRound

LEMMA CancelRound ==
  ASSUME IInv, Round, RunCancel
  PROVE  Round'
<1> DEFINE c == executor[1].ctl
<1>1. /\ executor # <<>> /\ Head(executor) = executor[1] /\ executor[1].kind = "cancel"
      /\ executor[1] \in BlockOver(added)
  BY HeadKind DEF RunCancel
<1>2. c \in Controllers
  BY <1>1 DEF BlockOver, Perform, CancelPending, Callback
<1>3. /\ controller' = [controller EXCEPT ![c] = [controller[c] EXCEPT !.retry = FALSE, !.models = <<>>]]
      /\ executor' = Tail(executor) \o <<>>
      /\ UNCHANGED <<stored, proxyState, isWorking>>
  BY <1>1 DEF RunCancel, Set, Post
<1>4. executor[1] = CancelOf("regular") => c = "regular"
  BY DEF CancelOf
<1> HIDE DEF c
<1>5. \A d \in Controllers :
        /\ controller'[d].request = controller[d].request
        /\ controller'[d].inProgress = controller[d].inProgress
        /\ IF d = c THEN controller'[d].models = <<>>
                    ELSE controller'[d].models = controller[d].models
  BY <1>2, <1>3 DEF IInv, DataType, StateOver
<1>6. executor[1].kind \notin ChainKinds
  BY <1>1 DEF ChainKinds
<1>7. executor[1] = CancelOf("regular") => controller'["regular"].models = <<>>
  BY <1>4, <1>5 DEF Controllers
<1>8. \A d \in Controllers : controller'[d].models \in {controller[d].models, <<>>}
  BY <1>5
<1>9. <<>> \in Seq(BlockOver(added)) /\ \A j \in DOMAIN <<>> : <<>>[j].kind \notin ChainKinds
  OBVIOUS
<1>10. QED
  BY <1>1, <1>3, <1>5, <1>6, <1>7, <1>8, <1>9, RoundRun

LEMMA CancelPendingRound ==
  ASSUME IInv, Round, RunCancelPending
  PROVE  Round'
<1> DEFINE blocks == <<CancelOf("regular"), CancelOf("tracking")>>
<1>1. executor # <<>> /\ executor[1].kind = "cancelPending"
  BY HeadKind DEF RunCancelPending
<1>2. /\ executor' = Tail(executor) \o blocks
      /\ UNCHANGED <<stored, controller, proxyState, isWorking>>
  BY DEF RunCancelPending, Post
<1>3. blocks \in Seq(BlockOver(added)) /\ \A j \in DOMAIN blocks : blocks[j].kind \notin ChainKinds
  <2>1. CancelOf("regular").kind \notin ChainKinds /\ CancelOf("tracking").kind \notin ChainKinds
    BY DEF CancelOf, ChainKinds
  <2>2. CancelOf("regular") \in BlockOver(added) /\ CancelOf("tracking") \in BlockOver(added)
    BY PlainBlocks DEF Controllers
  <2>3. QED
    BY <2>1, <2>2
<1> HIDE DEF blocks
<1>4. executor[1].kind \notin ChainKinds /\ executor[1] # CancelOf("regular")
  BY <1>1 DEF ChainKinds, CancelOf
<1>5. \A d \in Controllers : controller'[d].models \in {controller[d].models, <<>>}
  BY <1>2
<1>6. QED
  BY <1>1, <1>2, <1>3, <1>4, <1>5, RoundRun

\* A step of another thread that posts no link, or none at all.
LEMMA RoundPost ==
  ASSUME IInv, Round, NEW block \in BlockOver(added), block.kind \notin ChainKinds,
         executor' \in {executor, Append(executor, block)},
         stored \subseteq stored', UNCHANGED <<proxyState, isWorking>>,
         \A c \in Controllers :
           /\ controller'[c].inProgress = controller[c].inProgress
           /\ controller'[c].request = controller[c].request
           /\ controller'[c].models = controller[c].models
  PROVE  Round'
<1>1. /\ \A i \in DOMAIN executor : i \in DOMAIN executor' /\ executor'[i] = executor[i]
      /\ \A i \in DOMAIN executor' : i \in DOMAIN executor \/ executor'[i] = block
  BY PostKeeps
<1>2. Chains' = Chains /\ \A i \in Chains : executor'[i] = executor[i]
  BY <1>1 DEF Chains
<1>3. "regular" \in Controllers /\ "tracking" \in Controllers
  BY DEF Controllers
<1>4. OneChain'
  BY <1>2, <1>3 DEF Round, OneChain
<1>5. Batches'
  <2>1. ASSUME NEW i \in DOMAIN executor', executor'[i].kind = "append"
        PROVE  executor'[i].ctl = "regular" /\ QueueProper(executor'[i].models, stored')
    <3>1. i \in Chains'
      BY <2>1 DEF Chains, ChainKinds
    <3>2. i \in DOMAIN executor /\ executor'[i] = executor[i]
      BY <1>1, <1>2, <3>1 DEF Chains
    <3>3. QED
      BY <2>1, <3>2, ProperMonotone DEF Round, Batches
  <2>2. QED
    BY <2>1 DEF Batches
<1>6. Clears'
  BY <1>1, <1>2, <1>3 DEF Round, Clears, CancelOf
<1>7. Sends'
  <2>1. Proper(controller["regular"], stored) => Proper(controller'["regular"], stored')
    <3>1. Proper(controller["regular"], stored) => Proper(controller["regular"], stored')
      BY ProperMonotone
    <3>2. QED
      BY <1>3, <3>1 DEF Proper
  <2>2. QED
    BY <1>3, <2>1 DEF Round, Sends
<1>8. QED
  BY <1>4, <1>5, <1>6, <1>7 DEF Round

LEMMA PerformReportRound ==
  ASSUME IInv, Base, Round, PerformReportForApiKey
  PROVE  Round'
<1>1. UNCHANGED <<stored, controller, proxyState>>
  BY DEF PerformReportForApiKey
<1>2. CASE executor' = executor /\ isWorking' = isWorking
  <2>1. CancelPending \in BlockOver(added) /\ CancelPending.kind \notin ChainKinds
    BY PlainBlocks DEF CancelPending, ChainKinds
  <2>2. QED
    BY <1>1, <1>2, <2>1, RoundPost
<1>3. CASE ~isWorking /\ isWorking' /\ executor' = Append(executor, Perform)
  <2> DEFINE k == Len(executor) + 1
  <2>1. /\ Chains = {} /\ "regular" \in Controllers
        /\ ~controller["regular"].inProgress /\ ~controller["tracking"].inProgress
        /\ proxyState["tracking"] # "InProgress"
    BY <1>3 DEF Round, OneChain, Controllers
  <2>2. executor \in Seq(BlockOver(added)) /\ Perform \in BlockOver(added)
    BY PlainBlocks DEF IInv, DataType
  <2>3. /\ DOMAIN executor' = DOMAIN executor \cup {k} /\ executor'[k] = Perform
        /\ \A i \in DOMAIN executor : executor'[i] = executor[i] /\ i < k
    <3>1. /\ DOMAIN executor' = DOMAIN executor \cup {k} /\ executor'[k] = Perform
          /\ \A i \in DOMAIN executor : executor'[i] = executor[i]
      BY <1>3, <2>2, BlocksAfterPost
    <3>2. \A i \in DOMAIN executor : i < k
      BY <2>2
    <3>3. QED
      BY <3>1, <3>2
  <2> HIDE DEF k
  <2>4. Perform.kind = "perform" /\ "perform" \in ChainKinds
    BY DEF Perform, ChainKinds
  <2>5. Chains' = {k}
    BY <2>1, <2>3, <2>4 DEF Chains
  <2>6. \/ controller["regular"].models = <<>>
        \/ \E j \in DOMAIN executor : executor[j] = CancelOf("regular")
    BY <2>1 DEF Base, LeftoversAreCancelled
  <2>7. \/ controller'["regular"].models = <<>>
        \/ \E j \in DOMAIN executor' : j < k /\ executor'[j] = CancelOf("regular")
    BY <1>1, <2>3, <2>6
  <2>8. QED
    BY <1>1, <1>3, <2>1, <2>3, <2>4, <2>5, <2>7, RoundPosted
<1>4. QED
  BY <1>2, <1>3 DEF PerformReportForApiKey

LEMMA RoundStep ==
  ASSUME IInv, Base, Round, Tracking = {}, [Next]_vars
  PROVE  Round'
<1> DEFINE Same == UNCHANGED <<executor, controller, proxyState, isWorking>> /\ stored \subseteq stored'
<1>0. CancelPending \in BlockOver(added) /\ CancelPending.kind \notin ChainKinds
  BY PlainBlocks DEF CancelPending, ChainKinds
<1>1. CASE Same
  BY <1>0, <1>1, RoundPost
<1>2. CASE RunBlock
  <2>1. CASE RunCallback
    <3>1. executor # <<>> /\ executor[1].kind = "callback"
      BY <2>1, HeadKind DEF RunCallback
    <3>2. PerformNextReport(Tail(executor)) /\ UNCHANGED <<stored, controller, proxyState>>
      BY <2>1 DEF RunCallback
    <3>3. QED
      BY <3>1, <3>2, CallbackRound
  <2>2. QED
    BY <1>2, <2>1, PerformRound, AppendRound, CancelRound, CancelPendingRound, ReplyRound
       DEF RunBlock
<1>3. ASSUME NEW c \in Controllers, NEW r \in Replies, Reply(c, r)
      PROVE  Round'
  <2>1. /\ controller' = [controller EXCEPT ![c] = [controller[c] EXCEPT !.requestor = "answered"]]
        /\ executor' = Append(executor, ReplyTo(c, r))
        /\ UNCHANGED <<stored, proxyState, isWorking>>
    BY <1>3 DEF Reply, Set
  <2>2. \A d \in Controllers :
           /\ controller'[d].inProgress = controller[d].inProgress
           /\ controller'[d].request = controller[d].request
           /\ controller'[d].models = controller[d].models
    BY <2>1 DEF IInv, DataType, StateOver
  <2>3. ReplyTo(c, r) \in BlockOver(added) /\ ReplyTo(c, r).kind \notin ChainKinds
    BY DEF ReplyTo, BlockOver, ChainKinds
  <2>4. QED
    BY <2>1, <2>2, <2>3, RoundPost
<1>4. ASSUME NEW e \in Events, AddEvent(e)
      PROVE  Same
  BY <1>4 DEF AddEvent, memory
<1>5. ASSUME NEW c \in Controllers, DenyRequests(c) \/ IntervalElapses(c)
      PROVE  Same
  BY <1>5 DEF DenyRequests, IntervalElapses, memory
<1>6. CASE Shutdown
  <2>1. /\ executor' = Append(executor, CancelPending)
        /\ UNCHANGED <<stored, controller, proxyState, isWorking>>
    BY <1>6 DEF Shutdown
  <2>2. QED
    BY <1>0, <2>1, RoundPost
<1>7. CASE Relaunch
  <2>1. /\ ~isWorking' /\ controller' = [c \in Controllers |-> IdleController]
        /\ executor' = <<>> /\ proxyState' = [c \in Controllers |-> "NotStarted"]
    BY <1>7 DEF Relaunch
  <2>2. /\ ~controller'["regular"].inProgress /\ ~controller'["tracking"].inProgress
        /\ proxyState'["tracking"] # "InProgress" /\ DOMAIN executor' = {}
    BY <2>1 DEF IdleController, Controllers
  <2>3. Chains' = {}
    BY <2>2 DEF Chains
  <2>4. QED
    BY <2>1, <2>2, <2>3 DEF Round, OneChain, Batches, Clears, Sends
<1>8. CASE UNCHANGED vars
  BY <1>1, <1>8 DEF vars, memory
<1>9. QED
  BY <1>1, <1>2, <1>3, <1>4, <1>5, <1>6, <1>7, <1>8, PerformReportRound DEF Next, SomeReply

LEMMA RoundHolds ==
  ASSUME Tracking = {}
  PROVE  Spec => []Round
<1>1. Init => Round
  <2> SUFFICES ASSUME Init PROVE Round
    OBVIOUS
  <2>1. Chains = {} /\ DOMAIN executor = {}
    BY DEF Init, Chains
  <2>2. ~isWorking
    BY DEF Init
  <2>3. /\ ~controller["regular"].inProgress /\ ~controller["tracking"].inProgress
        /\ proxyState["tracking"] # "InProgress"
    BY DEF Init, IdleController, Controllers
  <2>4. QED
    BY <2>1, <2>2, <2>3 DEF Round, OneChain, Batches, Clears, Sends
<1>2. IInv /\ Base /\ Round /\ [Next]_vars => Round'
  BY RoundStep
<1>3. QED
  BY <1>1, <1>2, IInvHolds, BaseHolds, PTL DEF Spec

(* With no tracking event a round is one chain: while the dispatching controller
   works there is exactly one of a round to begin, models to take, a request in
   progress and a callback to make, so that the dispatcher calls back once. *)
THEOREM RoundIsOneChain ==
  ASSUME Tracking = {}
  PROVE  Spec => []OneRound
<1>1. IInv /\ Round => OneRound
  <2> SUFFICES ASSUME IInv, Round PROVE OneRound
    OBVIOUS
  <2> DEFINE active == {c \in Controllers : controller[c].inProgress}
  <2>1. {i \in DOMAIN executor : executor[i].kind \in {"perform", "append", "callback"}} = Chains
    BY DEF Chains, ChainKinds
  <2>2. \A c \in active : c = "regular"
    BY DEF Round, OneChain, Controllers
  <2>3. /\ Chains = {} => Cardinality(Chains) = 0
        /\ \A i : Chains = {i} => Cardinality(Chains) = 1
        /\ active = {} => Cardinality(active) = 0
        /\ active = {"regular"} => Cardinality(active) = 1
    BY FS_EmptySet, FS_Singleton
  <2>4. CASE Chains # {}
    <3>1. PICK i \in Chains : TRUE
      BY <2>4
    <3>2. Chains = {i} /\ active = {} /\ isWorking
      BY <2>2, <3>1 DEF Round, OneChain
    <3>3. Cardinality(Chains) = 1 /\ Cardinality(active) = 0
      BY <2>3, <3>2
    <3>4. QED
      BY <2>1, <3>2, <3>3 DEF OneRound
  <2>5. CASE Chains = {} /\ controller["regular"].inProgress
    <3>1. "regular" \in active /\ isWorking
      BY <2>5 DEF Round, OneChain, Controllers
    <3>2. Cardinality(Chains) + Cardinality(active) = 1 => OneRound
      BY <2>1, <3>1 DEF OneRound
    <3> HIDE DEF active
    <3>3. Cardinality(Chains) = 0 /\ Cardinality(active) = 1
      <4>1. active = {"regular"}
        BY <2>2, <3>1
      <4>2. QED
        BY <2>3, <2>5, <4>1
    <3>4. QED
      BY <3>2, <3>3
  <2>6. CASE Chains = {} /\ ~controller["regular"].inProgress
    <3>1. active = {} /\ ~isWorking
      BY <2>2, <2>6 DEF Round, OneChain
    <3>2. Cardinality(Chains) = 0 /\ Cardinality(active) = 0
      BY <2>3, <2>6, <3>1
    <3>3. QED
      BY <2>1, <3>1, <3>2 DEF OneRound
  <2>7. QED
    BY <2>4, <2>5, <2>6
<1>2. QED
  BY <1>1, IInvHolds, RoundHolds, PTL

(* With no tracking event a request carries only events that are still stored:
   what was purged, with an acknowledgement or an error, is not sent again,
   though a split, a retry or the next model of the queue follows. *)
THEOREM OnlyStoredEventsAreSent ==
  ASSUME Tracking = {}
  PROVE  Spec => []WireHoldsStored
<1>1. IInv /\ Round => WireHoldsStored
  <2> SUFFICES ASSUME IInv, Round, NEW c \in Controllers, controller[c].requestor = "waiting"
               PROVE  controller[c].request.model.events \subseteq stored
    BY DEF WireHoldsStored
  <2>1. controller[c].inProgress
    BY DEF IInv, InProgressHasRequest
  <2>2. c = "regular"
    BY <2>1 DEF Round, OneChain, Controllers
  <2>3. QED
    BY <2>1, <2>2 DEF Round, Sends, Proper
<1>2. QED
  BY <1>1, IInvHolds, RoundHolds, PTL
=============================================================================
