--------------------------- MODULE ReporterSessions ---------------------------
(***************************************************************************)
(* The sessions and events that AMAReporter keeps in the database of its   *)
(* API key (AMASessionStorage, AMAEventStorage, AMAEventNumbersFiller), and *)
(* the deletion of delivered events and of empty sessions beside it        *)
(* (AMASessionsCleaner).                                                   *)
(*                                                                         *)
(* A call of the reporter reads the sessions it is about, decides, and     *)
(* then makes one database transaction after another; a step of this       *)
(* module is one of them, so that the process may die, and the other       *)
(* threads may act, between any two.  Most calls are blocks of the         *)
(* reporter's serial executor.  reportEventToPastSessionWithBlock: is not: *)
(* it runs on the thread that calls it, which is the executor of           *)
(* AMAAppMetricaImpl when the polling delegates are asked for their events.*)
(*                                                                         *)
(* Dates only decide whether a session has expired.  The device clock can  *)
(* be set at any time, so every answer of AMASessionExpirationHandler is   *)
(* possible at every call, and dates are left out.                         *)
(***************************************************************************)
EXTENDS Naturals, FiniteSets, Sequences

CONSTANTS
  StorageMayFail,  \* whether a statement of the database may fail
  MaxCalls,        \* bound: calls on the executor, besides those of a launch
  MaxPast,         \* bound: events for past sessions
  MaxPurges,       \* bound: purges of delivered events; a death leaves one less
  MaxDeaths        \* bound: times the process dies

ASSUME ReporterSessionsAssumption ==
  /\ StorageMayFail \in BOOLEAN
  /\ MaxCalls \in Nat
  /\ MaxPast \in Nat
  /\ MaxPurges \in Nat
  /\ MaxDeaths \in Nat

VARIABLES
  rows,           \* the sessions table; the oid of a row is its index
  events,         \* the events table, likewise
  lastSessionID,  \* sessionIDStorage
  sent,           \* initEventSent (or updateEventSent) and firstEventSent in memory
  saved,          \* the same flags in the database
  isActive,
  launch,         \* what the executor has queued since the launch: setup, first event
  work,           \* per thread: the steps that are left, and the AMASession objects at hand
  cleaning,       \* purgeSessionWithEventsBatches: is between its two statements
  lived,          \* history: IDs of the sessions that were created unfinished
  faults,         \* history: what went wrong so far
  calls, past, purges, deaths  \* counters for the bounds

stored == <<rows, events, lastSessionID, saved>>
counts == <<calls, past, purges, deaths>>
vars   == <<stored, sent, isActive, launch, work, cleaning, lived, faults, counts>>

Threads == {"executor", "caller"}
Flags   == {"init", "first"}
Kinds   == Flags \cup {"start", "alive", "client", "past"}
Faults  == {"storage", "death", "overlap", "copied"}

Row    == [id : Nat, type : {"General", "Background"}, finished : BOOLEAN, eventSeq : Nat,
           deleted : BOOLEAN]
Event  == [session : Nat, id : Nat, kind : Kinds, sequenceNumber : Nat, purged : BOOLEAN]
Object == [oid : Nat, id : Nat, type : {"General", "Background"}, finished : BOOLEAN,
           eventSeq : Nat]
Step   == [op : {"end", "create", "add", "saveAsLast", "mark", "addOrReport"},
           on : {"cur", "new"}, what : Kinds \cup {"General", "Background", "Finished"}]

-----------------------------------------------------------------------------
(* Reading sessions.  Objects are copies: they do not follow the row. *)

UnfinishedNil ==
  [oid |-> 0, id |-> 0, type |-> "Background", finished |-> FALSE, eventSeq |-> 0]

NoSession == [oid |-> 0, id |-> 0, type |-> "Background", finished |-> TRUE, eventSeq |-> 0]

Kept == {i \in DOMAIN rows : ~rows[i].deleted}

Newest(S) ==
  IF S = {} THEN NoSession
  ELSE LET i == CHOOSE j \in S : \A k \in S : k <= j
       IN  [oid |-> i, id |-> rows[i].id, type |-> rows[i].type,
            finished |-> rows[i].finished, eventSeq |-> rows[i].eventSeq]

LastSession        == Newest(Kept)
LastGeneralSession == Newest({i \in Kept : rows[i].type = "General"})
PreviousSession(s) == Newest({i \in Kept : i < s.oid})

\* A failed query yields nil, which the reporter takes for "no session".
\* Bound: one fault, that is one failed statement or one death within a call.
MayFail    == StorageMayFail /\ faults = {}
Reading(s) == IF MayFail THEN {s, NoSession} ELSE {s}

\* -expirationTypeForSession:withDate:, where Limit stands for a date before the
\* start of the session and for one beyond its longest duration.
Expirations(s) == IF s = NoSession THEN {"Invalid"} ELSE {"None", "Timeout", "Limit"}

\* -isCurrentSession:expiredWithType:
IsExpired(s, expiration) ==
  /\ expiration # "None"
  /\ ~(expiration = "Timeout" /\ s.type = "General" /\ isActive)

-----------------------------------------------------------------------------
(* What a call does, as the sequence of its transactions. *)

End           == [op |-> "end", on |-> "cur", what |-> "alive"]
Create(type)  == [op |-> "create", on |-> "new", what |-> type]
Add(kind, on) == [op |-> "add", on |-> on, what |-> kind]
SaveAsLast    == [op |-> "saveAsLast", on |-> "cur", what |-> "start"]
Mark(flag)    == [op |-> "mark", on |-> "cur", what |-> flag]
AddOrReport   == [op |-> "addOrReport", on |-> "new", what |-> "client"]

EndAgain(s) == IF s = NoSession THEN <<>> ELSE <<End>>

\* -ensureSessionEnded:
EnsureEnded(s) == IF s.finished THEN <<>> ELSE <<End>>

Started(type) == <<Create(type), Add("start", "new")>>

ResumeSteps(s, expiration) ==
  IF s.finished \/ s.type = "Background" \/ IsExpired(s, expiration)
  THEN EnsureEnded(s) \o Started("General")
  ELSE <<>>

PauseSteps(s, expiration) == IF IsExpired(s, expiration) THEN EnsureEnded(s) ELSE <<>>

ReportBesideSession(s, expiration) ==
  IF s.finished \/ IsExpired(s, expiration)
  THEN Started("Background") \o <<Add("client", "new")>>
  ELSE <<Add("client", "cur")>>

\* -currentSessionForEventCreatedAt:error:onNewSession: and the adding of the event
ReportSteps(s, expiration) ==
  IF s.finished \/ IsExpired(s, expiration)
  THEN EnsureEnded(s) \o Started("Background") \o <<Add("client", "new")>>
  ELSE <<Add("client", "cur")>>

FirstEventSteps(s, expiration) ==
  IF s.finished \/ IsExpired(s, expiration)
  THEN EnsureEnded(s) \o <<Create("Background"), Add("first", "new"), Add("start", "new")>>
  ELSE <<Add("first", "cur"), Add("start", "cur")>>

ReattributionSteps(s) ==
  EnsureEnded(s) \o Started(IF isActive THEN "General" ELSE "Background") \o <<AddOrReport>>

\* When neither the last session nor the one before it takes the past event.
NewPastSessionSteps(s) ==
  Started("Finished") \o (IF s.finished THEN <<>> ELSE <<SaveAsLast>>) \o <<Add("past", "new")>>

-----------------------------------------------------------------------------
NoWork    == [todo |-> <<>>, cur |-> NoSession, new |-> NoSession]
IsIdle(t) == work[t].todo = <<>>
Idle      == \A t \in Threads : IsIdle(t)

\* Thread t goes on with these steps and objects, which it lets go with the last step.
GoOn(t, todo, cur, new) ==
  work' = [work EXCEPT ![t] =
             IF todo = <<>> THEN NoWork ELSE [todo |-> todo, cur |-> cur, new |-> new]]

\* A call begins on thread t; s is the session it read, which should have been "meant".
Begin(t, todo, s, meant) ==
  /\ GoOn(t, todo, s, NoSession)
  /\ faults' = faults \cup (IF \E u \in Threads \ {t} : ~IsIdle(u) THEN {"overlap"} ELSE {})
                      \cup (IF s # meant THEN {"storage"} ELSE {})

Failing == MayFail /\ faults' = faults \cup {"storage"}

Init ==
  /\ rows = <<>>
  /\ events = <<>>
  /\ lastSessionID = 0
  /\ sent = [f \in Flags |-> FALSE]
  /\ saved = [f \in Flags |-> FALSE]
  /\ isActive = FALSE
  /\ launch = "setup"
  /\ work = [t \in Threads |-> NoWork]
  /\ cleaning = FALSE
  /\ lived = {}
  /\ faults = {}
  /\ calls = 0
  /\ past = 0
  /\ purges = 0
  /\ deaths = 0

-----------------------------------------------------------------------------
(* The calls. *)

\* -setupWithOnStorageRestored:onSetupComplete:, the first block of every launch
Setup ==
  /\ launch = "setup" /\ IsIdle("executor")
  /\ launch' = "first"
  /\ sent' = saved
  /\ \E s \in Reading(LastSession) : Begin("executor", EnsureEnded(s), s, LastSession)
  /\ UNCHANGED <<stored, isActive, cleaning, lived, counts>>

\* -reportFirstEventIfNeeded, which AMAAppMetricaImpl queues behind the setup
ReportFirstEventIfNeeded ==
  /\ launch = "first" /\ IsIdle("executor")
  /\ launch' = "done"
  /\ IF sent["first"]
     THEN UNCHANGED <<work, faults>>
     ELSE \E s \in Reading(LastSession) : \E x \in Expirations(s) :
            Begin("executor", FirstEventSteps(s, x), s, LastSession)
  /\ UNCHANGED <<stored, sent, isActive, cleaning, lived, counts>>

Call ==
  /\ launch = "done" /\ IsIdle("executor")
  /\ calls < MaxCalls
  /\ calls' = calls + 1
  /\ UNCHANGED <<stored, sent, launch, cleaning, lived, past, purges, deaths>>

\* -resumeSessionWithDate:, called for resumeSession and by the session stamp timer
ResumeSession ==
  /\ Call
  /\ \E s \in Reading(LastSession) : \E x \in Expirations(s) :
       Begin("executor", ResumeSteps(s, x), s, LastSession)
  /\ isActive' = TRUE

\* -pauseSessionWithDate:
PauseSession ==
  /\ Call
  /\ \E s \in Reading(LastGeneralSession) : \E x \in Expirations(s) :
       Begin("executor", PauseSteps(s, x), s, LastGeneralSession)
  /\ isActive' = FALSE

\* -reportEvent:createdAt:appState:onFailure:
ReportEvent ==
  /\ Call
  /\ \E s \in Reading(LastSession) : \E x \in Expirations(s) :
       Begin("executor", ReportSteps(s, x), s, LastSession)
  /\ UNCHANGED isActive

\* -reportOpenEvent:reattribution:onFailure: with reattribution
ReportReattribution ==
  /\ Call
  /\ \E s \in Reading(LastSession) :
       Begin("executor", ReattributionSteps(s), s, LastSession)
  /\ UNCHANGED isActive

\* -reportEventToPastSessionWithBlock:createdAt:appState:onFailure:, on the caller's thread.
\* A session takes the event if it is finished, and the event's date and state fit it.
ReportEventToPastSession ==
  /\ IsIdle("caller")
  /\ past < MaxPast
  /\ past' = past + 1
  /\ \E last \in Reading(LastSession) : \E prev \in Reading(PreviousSession(last)) :
       \/ last # NoSession /\ last.finished
          /\ Begin("caller", <<Add("past", "cur")>>, last, LastSession)
       \/ prev # NoSession /\ prev.finished
          /\ Begin("caller", <<Add("past", "cur")>>, prev, PreviousSession(LastSession))
       \/ Begin("caller", NewPastSessionSteps(last), last, LastSession)
  /\ UNCHANGED <<stored, sent, isActive, launch, cleaning, lived, calls, purges, deaths>>

-----------------------------------------------------------------------------
(* The steps.  Next(t, op) holds of a thread whose next step is op. *)

Todo(t)   == work[t].todo
IsNext(t, op) == ~IsIdle(t) /\ Head(Todo(t)).op = op
Rest(t)   == Tail(Todo(t))
Target(t) == IF Head(Todo(t)).on = "cur" THEN work[t].cur ELSE work[t].new

\* Thread t goes on with "todo", and its target object has become s.
GoOnWith(t, todo, s) ==
  IF Head(Todo(t)).on = "cur" THEN GoOn(t, todo, s, work[t].new) ELSE GoOn(t, todo, work[t].cur, s)

\* -endSession:updatedAt:, up to the finishing of the session
EndSession(t) ==
  /\ IsNext(t, "end")
  /\ LET s == Target(t) IN
     \/ /\ rows' = [rows EXCEPT ![s.oid].finished = TRUE]
        /\ GoOnWith(t, <<Add("alive", "cur")>> \o Rest(t), [s EXCEPT !.finished = TRUE])
        /\ UNCHANGED faults
     \/ /\ Failing
        /\ GoOnWith(t, Rest(t), s)
        /\ UNCHANGED rows
  /\ UNCHANGED <<events, lastSessionID, saved, sent, isActive, launch, cleaning, lived, counts>>

\* -newSessionWithType:startDate:finished:appState:incrementAttributionID:error:
NewSession(t) ==
  /\ IsNext(t, "create")
  /\ LET what == Head(Todo(t)).what
         id   == lastSessionID + 1
         row  == [id |-> id, type |-> IF what = "General" THEN "General" ELSE "Background",
                  finished |-> what = "Finished", eventSeq |-> 0, deleted |-> FALSE]
         s    == [oid |-> Len(rows) + 1, id |-> id, type |-> row.type,
                  finished |-> row.finished, eventSeq |-> 0]
     IN \/ /\ rows' = Append(rows, row)
           /\ lastSessionID' = id
           /\ lived' = IF row.finished THEN lived ELSE lived \cup {id}
           /\ GoOnWith(t, Rest(t), s)
           /\ UNCHANGED faults
        \/ /\ Failing
           /\ GoOnWith(t, Rest(t), NoSession)
           /\ UNCHANGED <<rows, lastSessionID, lived>>
  /\ UNCHANGED <<events, saved, sent, isActive, launch, cleaning, counts>>

SaveAsFreshSession(t) ==
  /\ IsNext(t, "saveAsLast")
  /\ LET s == Target(t) IN
     /\ rows' = Append([rows EXCEPT ![s.oid].finished = TRUE],
                       [id |-> s.id, type |-> s.type, finished |-> s.finished,
                        eventSeq |-> 0, deleted |-> FALSE])
     /\ GoOnWith(t, Rest(t), [s EXCEPT !.oid = Len(rows) + 1])
  /\ UNCHANGED <<events, lastSessionID, saved, sent, isActive, launch, cleaning, lived, faults,
                 counts>>

\* -saveSessionAsLastSession:error: finishes the row and inserts the object as a new one,
\* also when the session for the past event could not be made before: "copied".
SaveSessionAsLastSession(t) ==
  /\ IsNext(t, "saveAsLast")
  /\ LET s == Target(t) IN
     \/ /\ rows' = Append([rows EXCEPT ![s.oid].finished = TRUE],
                          [id |-> s.id, type |-> s.type, finished |-> s.finished,
                           eventSeq |-> s.eventSeq, deleted |-> FALSE])
        /\ GoOnWith(t, Rest(t), [s EXCEPT !.oid = Len(rows) + 1])
        /\ faults' = faults \cup (IF work[t].new = NoSession THEN {"copied"} ELSE {})
     \/ /\ Failing
        /\ GoOnWith(t, Rest(t), s)
        /\ UNCHANGED rows
  /\ UNCHANGED <<events, lastSessionID, saved, sent, isActive, launch, cleaning, lived, counts>>

ShouldReportInitAnywhere(kind, s) == kind = "start" /\ ~sent["init"]

\* -shouldReportEventInitOrEventUpdateWhenSavingEvent:toSession:
ShouldReportInit(kind, s) == kind = "start" /\ s.type = "General" /\ ~sent["init"]

\* What -addEvent:createdAt:toSession:timeSince:error: does once the event is in the database.
AfterAdding(kind, on, s) ==
  CASE kind \in Flags             -> <<Mark(kind)>>
    [] ShouldReportInit(kind, s)  -> <<Add("init", on)>>
    [] OTHER                      -> <<>>

\* -[AMAEventStorage addEvent:toSession:error:] numbers the event and moves the session's
\* counter, both from the object at hand.  A nil session cannot be stored.  A failure
\* to save the global number of the event is forgotten when the number of its type is
\* saved: the event is stored, and yet refused.
AddEvent(t) ==
  /\ IsNext(t, "add")
  /\ LET s    == Target(t)
         kind == Head(Todo(t)).what
         on   == Head(Todo(t)).on
         Store == /\ events' = Append(events, [session |-> s.oid, id |-> s.id, kind |-> kind,
                                               sequenceNumber |-> s.eventSeq, purged |-> FALSE])
                  /\ rows' = [rows EXCEPT ![s.oid].eventSeq = s.eventSeq + 1]
         moved == [s EXCEPT !.eventSeq = @ + 1]
     IN \/ /\ s # NoSession
           /\ Store
           /\ GoOnWith(t, AfterAdding(kind, on, s) \o Rest(t), moved)
           /\ UNCHANGED faults
        \/ /\ s # NoSession
           /\ Failing
           /\ Store
           /\ GoOnWith(t, Rest(t), moved)
        \/ /\ IF s = NoSession THEN UNCHANGED faults ELSE Failing
           /\ GoOnWith(t, Rest(t), s)
           /\ UNCHANGED <<events, rows>>
  /\ UNCHANGED <<lastSessionID, saved, sent, isActive, launch, cleaning, lived, counts>>

\* -markInitEventSent, -markUpdateEventSent, -markFirstEventSent
MarkEventSent(t) ==
  /\ IsNext(t, "mark")
  /\ LET flag == Head(Todo(t)).what IN
     /\ sent' = [sent EXCEPT ![flag] = TRUE]
     /\ \/ /\ saved' = IF sent[flag] THEN saved ELSE [saved EXCEPT ![flag] = TRUE]
           /\ UNCHANGED faults
        \/ /\ ~sent[flag]
           /\ Failing
           /\ UNCHANGED saved
  /\ GoOnWith(t, Rest(t), Target(t))
  /\ UNCHANGED <<rows, events, lastSessionID, isActive, launch, cleaning, lived, counts>>

\* The event that comes with a reattribution goes to the new session; without one it is
\* reported as any other.
AddToNewOrReport(t) ==
  /\ IsNext(t, "addOrReport")
  /\ IF work[t].new # NoSession
     THEN /\ GoOnWith(t, <<Add("client", "new")>> \o Rest(t), work[t].new)
          /\ UNCHANGED faults
     ELSE \E s \in Reading(LastSession) : \E x \in Expirations(s) :
            Begin(t, ReportSteps(s, x), s, LastSession)
  /\ UNCHANGED <<stored, sent, isActive, launch, cleaning, lived, counts>>

Perform(t) ==
  \/ EndSession(t)
  \/ NewSession(t)
  \/ SaveSessionAsLastSession(t)
  \/ AddEvent(t)
  \/ MarkEventSent(t)
  \/ AddToNewOrReport(t)

-----------------------------------------------------------------------------
(* -purgeSessionWithEventsBatches:reason:, on the executor of the dispatcher. *)

Stored == {events[e].session : e \in {f \in DOMAIN events : ~events[f].purged}}

\* A request carried the events that some sessions had so far, those of an equal
\* application state and environment.
PurgeEvents ==
  /\ ~cleaning
  /\ purges + deaths < MaxPurges
  /\ purges' = purges + 1
  /\ \E sessions \in SUBSET Stored \ {{}} :
       \/ /\ events' = [e \in DOMAIN events |->
                           IF events[e].session \in sessions
                           THEN [events[e] EXCEPT !.purged = TRUE] ELSE events[e]]
          /\ UNCHANGED faults
       \/ /\ Failing
          /\ UNCHANGED events
  /\ cleaning' = TRUE
  /\ UNCHANGED <<rows, lastSessionID, saved, sent, isActive, launch, work, lived, calls, past,
                 deaths>>

IsEmpty(i) == \A e \in DOMAIN events : events[e].session = i => events[e].purged

EmptyButForFewer(offset) ==
  LET empty == {i \in Kept : IsEmpty(i)}
  IN  {i \in empty : Cardinality({j \in empty : j > i}) + 1 >= offset}

\* DELETE of the sessions without events but for the first of them by descending oid;
\* made twice, for the type is not part of the condition, and nothing is left to the second.
EmptyButFor(offset) ==
  LET empty == {i \in Kept : IsEmpty(i)}
  IN  {i \in empty : Cardinality({j \in empty : j > i}) >= offset}

PurgeEmptySessions ==
  /\ cleaning
  /\ cleaning' = FALSE
  /\ \/ /\ rows' = [i \in DOMAIN rows |->
                      IF i \in EmptyButFor(2) THEN [rows[i] EXCEPT !.deleted = TRUE] ELSE rows[i]]
        /\ UNCHANGED faults
     \/ /\ Failing
        /\ UNCHANGED rows
  /\ UNCHANGED <<events, lastSessionID, saved, sent, isActive, launch, work, lived, counts>>

-----------------------------------------------------------------------------
\* The process dies and is launched again.
Die ==
  /\ deaths < MaxDeaths
  /\ Idle \/ faults = {}
  /\ deaths' = deaths + 1
  /\ sent' = [f \in Flags |-> FALSE]
  /\ isActive' = FALSE
  /\ launch' = "setup"
  /\ work' = [t \in Threads |-> NoWork]
  /\ cleaning' = FALSE
  /\ faults' = faults \cup (IF Idle THEN {} ELSE {"death"})
  /\ UNCHANGED <<stored, lived, calls, past, purges>>

Next ==
  \/ Setup
  \/ ReportFirstEventIfNeeded
  \/ ResumeSession
  \/ PauseSession
  \/ ReportEvent
  \/ ReportReattribution
  \/ ReportEventToPastSession
  \/ \E t \in Threads : Perform(t)
  \/ PurgeEvents
  \/ PurgeEmptySessions
  \/ Die

Spec == Init /\ [][Next]_vars

-----------------------------------------------------------------------------
(* Properties.  faults = {} says that no statement failed, that the process died only    *)
(* between two calls, and that no two calls overlapped. *)

\* The variables are of their types, and an event refers to a row that was inserted, so that
\* nothing is stored for a nil session.
TypeOK ==
  /\ rows \in Seq(Row)
  /\ events \in Seq(Event)
  /\ \A e \in DOMAIN events : events[e].session \in DOMAIN rows
  /\ lastSessionID \in Nat
  /\ sent \in [Flags -> BOOLEAN]
  /\ saved \in [Flags -> BOOLEAN]
  /\ isActive \in BOOLEAN
  /\ launch \in {"setup", "first", "done"}
  /\ work \in [Threads -> [todo : Seq(Step), cur : Object, new : Object]]
  /\ cleaning \in BOOLEAN
  /\ lived \subseteq Nat
  /\ faults \subseteq Faults
  /\ calls \in Nat /\ past \in Nat /\ purges \in Nat /\ deaths \in Nat

EventsOf(id, kind) == {e \in DOMAIN events : events[e].id = id /\ events[e].kind = kind}
IsLive(id)         == \E i \in Kept : rows[i].id = id /\ ~rows[i].finished

\* The deletion of empty sessions, which runs between any two steps of a call, never takes the
\* session that the call is about to add to: -[AMASessionsCleaner purgeEmptySessions] spares
\* the two newest empty ones.
EventsHaveSession ==
  faults = {} =>
    \A e \in DOMAIN events : ~events[e].purged => events[e].session \in Kept

\* No two events of a session ID share a sequence number, though a session can have several
\* rows, each with a counter, and whatever statement fails or wherever the process dies.  The
\* exception is a session that was copied right behind its old row: PreviousSession then
\* finds the old row, which a later past event goes to, with a number that the copy uses, too.
SequenceNumbersDistinct ==
  faults \cap {"overlap", "copied"} = {} =>
    \A d, e \in DOMAIN events :
      d # e /\ events[d].id = events[e].id =>
        events[d].sequenceNumber # events[e].sequenceNumber

\* Between two calls only the last row can be unfinished: what -endCurrentSession and the
\* reporter's calls, which look at the last session only, rely on to end every session.
OneLiveSession ==
  faults = {} /\ Idle => \A i \in Kept : rows[i].finished \/ i = LastSession.oid

\* Between two calls a session has one EVENT_ALIVE if it has lived and ended, in whichever of its
\* rows, and none otherwise: sessions made for a past event never get one.
EndedSessionsHaveAlive ==
  faults = {} /\ Idle =>
    \A id \in 1..lastSessionID :
      Cardinality(EventsOf(id, "alive")) = IF id \in lived /\ ~IsLive(id) THEN 1 ELSE 0

\* Over all launches EVENT_INIT (or EVENT_UPDATE) is stored once, with the first general session.
InitReportedOnce ==
  LET Inits   == {e \in DOMAIN events : events[e].kind = "init"}
      General == {e \in DOMAIN events : events[e].kind = "start"
                                        /\ rows[events[e].session].type = "General"}
  IN  faults = {} /\ Idle => Cardinality(Inits) = IF General = {} THEN 0 ELSE 1

\* State constraint: the properties above claim nothing once two calls have overlapped.
OneCallAtATime == "overlap" \notin faults

\* A session gets one EVENT_ALIVE at most, as AMAReporterTests.m:836 has it ("Should add only one
\* EVENT_ALIVE to finished session after app launch").
AliveAtMostOnce == \A id \in 1..lastSessionID : Cardinality(EventsOf(id, "alive")) <= 1

=============================================================================
