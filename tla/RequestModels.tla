---------------------------- MODULE RequestModels ----------------------------
(***************************************************************************)
(* The request models of one API key: how the stored events are grouped    *)
(* into the requests that carry them (AMAReportRequestProvider), how a     *)
(* model is cut in two when the server finds it too large or when it mixes *)
(* tracking events with regular ones (AMARequestModelSplitter), and what   *)
(* the payload provider makes of it (AMAReportPayloadProvider).            *)
(*                                                                         *)
(* An event is its database oid.  A model keeps only what the delivery can *)
(* tell apart: the events it carries, and whether its last batch is empty  *)
(* ("blank"), which happens to a regular model whose last batch held       *)
(* tracking events only.                                                   *)
(***************************************************************************)
EXTENDS Naturals, FiniteSets, Sequences

CONSTANTS
  Events,      \* oids of the events the reporter may store
  GroupOf,     \* the request an event belongs to (app state, attribution, app environment)
  SessionOf,   \* oid of the event's session; the events of a session and a group are a batch
  NGroups,     \* number of requests the stored events can make
  BatchSize,   \* most events that are read from the database for one round
  Tracking,    \* the ApplePrivacy events
  Unreadable   \* events the serializer cannot encode, such as one whose file is lost

ASSUME RequestModelsAssumption ==
  /\ Events \subseteq Nat
  /\ IsFiniteSet(Events)
  /\ NGroups \in Nat
  /\ GroupOf \in [Events -> 1..NGroups]
  /\ SessionOf \in [Events -> Nat]
  /\ BatchSize \in Nat
  /\ Tracking \subseteq Events
  /\ Unreadable \subseteq Events

Model == [events : SUBSET Events, blank : BOOLEAN]

\* The nil model of Objective-C: messages to it yield no events.
NoModel == [events |-> {}, blank |-> FALSE]

\* The k events of S with the smallest oids.
Lowest(S, k) == {e \in S : Cardinality({x \in S : x < e}) < k}

\* The k events of S that come first in the order in which they are read and
\* batched: by session, then by oid.
Before(x, y) == SessionOf[x] < SessionOf[y] \/ (SessionOf[x] = SessionOf[y] /\ x < y)
First(S, k)  == {e \in S : Cardinality({x \in S : Before(x, e)}) < k}

\* -collections: the events one round takes from the store S.
Collected(S) == First(S, BatchSize)

-----------------------------------------------------------------------------
(* What -[AMAReportRequestProvider requestModels] makes of the collected events
   S: one model for every group that has an event in S, in the order of the groups. *)
GroupsOf(S) == {GroupOf[e] : e \in S}

NthGroup(S, i) ==
  CHOOSE g \in GroupsOf(S) : Cardinality({h \in GroupsOf(S) : h <= g}) = i

RequestModels(S) ==
  [i \in 1..Cardinality(GroupsOf(S)) |->
     [events |-> {e \in S : GroupOf[e] = NthGroup(S, i)}, blank |-> FALSE]]

(* +extractTrackingRequestModelFromModel: the regular model is kept even when
   it has lost all its events, and keeps its emptied batches. *)
RegularPart(m) ==
  LET regular == m.events \ Tracking
      tracking == m.events \cap Tracking
  IN  [events |-> regular,
       blank  |-> \E t \in tracking : \A r \in regular : SessionOf[t] > SessionOf[r]]

\* The models of both controllers when S is collected: a request has a tracking
\* part when it has a tracking event.
RegularModels(S) ==
  [i \in 1..Cardinality(GroupsOf(S)) |-> RegularPart(RequestModels(S)[i])]

TrackingModels(S) == RequestModels(S \cap Tracking)

(* +splitRequestModel:inParts: with two parts.  A model of one event has one
   part, unless an empty batch follows it. *)
SplitRequestModel(m) ==
  LET size  == Cardinality(m.events)
      first == First(m.events, IF size \div 2 > 1 THEN size \div 2 ELSE 1)
      rest  == m.events \ first
      Part(S) == [events |-> S, blank |-> FALSE]
  IN  IF rest # {} \/ m.blank THEN <<Part(first), Part(rest)>> ELSE <<Part(first)>>

-----------------------------------------------------------------------------
(* The results of -generatePayloadWithRequestModel:error:.  A model that is
   larger than the size limit is trimmed to its oldest events, and to nothing
   in the worst case.  Any other failure (no memory, no encryption, no size
   limit) can happen to every model. *)
PayloadErrors == {"None", "AllSessionsAreEmpty", "Other"}

Payloads(m) ==
  IF m.events \subseteq Unreadable
  THEN {[error |-> "AllSessionsAreEmpty", model |-> NoModel]}
  ELSE {[error |-> "Other", model |-> NoModel]}
       \cup {[error |-> "None", model |-> m]}
       \cup {[error |-> "None", model |-> [events |-> S, blank |-> FALSE]] :
               S \in {T \in {Lowest(m.events, k) : k \in 1..(Cardinality(m.events) - 1)} :
                        ~ T \subseteq Unreadable}}
=============================================================================
