----------------------- MODULE ReporterSessionsProofs -----------------------
(***************************************************************************)
(* Theorems about ReporterSessions: its type invariant, and that no two    *)
(* events of a session share a sequence number, whatever statements fail   *)
(* and wherever the process dies, unless two calls overlapped or the last  *)
(* session was copied right behind its old row.                            *)
(*                                                                         *)
(* First the types of the state and of the steps that a call plans; then   *)
(* what rows, events and the objects of a call have to do with each other  *)
(* (Sound); then one lemma per action for each.                            *)
(***************************************************************************)
EXTENDS ReporterSessions, SequenceTheorems, FiniteSetTheorems, WellFoundedInduction, TLAPS

(* The steps that calls are made of, and the plans that calls begin with: only a call
   for a past session, see NewPastSessionPlan, saves a session as the last one. *)
Steps ==
  {s \in Step : /\ s.op = "create" => s.on = "new" /\ s.what \notin Kinds
                /\ s.op = "add" => s.what \in Kinds
                /\ s.op \in {"end", "saveAsLast", "mark"} => s.on = "cur"
                /\ s.op = "mark" => s.what \in Flags
                /\ s.op = "addOrReport" => s.on = "new"}

LEMMA StepsTypes ==
  /\ Steps \subseteq Step
  /\ End \in Steps
  /\ SaveAsLast \in Steps
  /\ AddOrReport \in Steps
  /\ \A type \in {"General", "Background", "Finished"} : Create(type) \in Steps
  /\ \A kind \in Kinds, on \in {"cur", "new"} : Add(kind, on) \in Steps
  /\ \A flag \in Flags : Mark(flag) \in Steps
BY DEF Steps, Step, End, SaveAsLast, AddOrReport, Create, Add, Mark, Kinds, Flags

IsPlan(q) == q \in Seq(Steps) /\ \A k \in DOMAIN q : q[k].op # "saveAsLast"

LEMMA ConcatIsPlan ==
  ASSUME NEW p, NEW q, IsPlan(p), IsPlan(q)
  PROVE  IsPlan(p \o q)
BY DEF IsPlan

LEMMA BuildersArePlans ==
  ASSUME NEW s, NEW x
  PROVE  /\ IsPlan(EnsureEnded(s))
         /\ \A type \in {"General", "Background", "Finished"} : IsPlan(Started(type))
         /\ IsPlan(ResumeSteps(s, x))
         /\ IsPlan(PauseSteps(s, x))
         /\ IsPlan(ReportSteps(s, x))
         /\ IsPlan(FirstEventSteps(s, x))
         /\ IsPlan(ReattributionSteps(s))
         /\ IsPlan(<<Add("past", "cur")>>)
<1> USE StepsTypes DEF Kinds, Flags
<1>0. IsPlan(<< >>)
  BY DEF IsPlan
<1>1. IsPlan(EnsureEnded(s))
  BY DEF IsPlan, EnsureEnded, End
<1>2. \A type \in {"General", "Background", "Finished"} : IsPlan(Started(type))
  BY DEF IsPlan, Started, Create, Add
<1>3. IsPlan(<<Add("past", "cur")>>) /\ IsPlan(<<Add("client", "cur")>>) /\ IsPlan(<<Add("client", "new")>>)
      /\ IsPlan(<<AddOrReport>>) /\ IsPlan(<<Add("first", "cur"), Add("start", "cur")>>)
      /\ IsPlan(<<Create("Background"), Add("first", "new"), Add("start", "new")>>)
  BY DEF IsPlan, Add, Create, AddOrReport
<1>4. IsPlan(ResumeSteps(s, x)) /\ IsPlan(PauseSteps(s, x))
  BY <1>0, <1>1, <1>2, ConcatIsPlan DEF ResumeSteps, PauseSteps
<1>5. IsPlan(ReportSteps(s, x)) /\ IsPlan(FirstEventSteps(s, x)) /\ IsPlan(ReattributionSteps(s))
  BY <1>1, <1>2, <1>3, ConcatIsPlan DEF ReportSteps, FirstEventSteps, ReattributionSteps
<1> QED
  BY <1>1, <1>2, <1>3, <1>4, <1>5



-----------------------------------------------------------------------------

(* The CHOOSE in Newest denotes a row: a set of row numbers has a largest one. *)
LEMMA MaximumExists ==
  ASSUME NEW n \in Nat, NEW S, S \subseteq 1..n, S # {}
  PROVE  \E m \in S : \A k \in S : k <= m
<1> DEFINE Bounds == {b \in Nat : \A k \in S : k <= b}
<1>1. n \in Bounds
  OBVIOUS
<1>2. PICK b \in Bounds : \A c \in Bounds : ~(<<c, b>> \in OpToRel(<, Nat))
  <2> HIDE DEF Bounds
  <2> Bounds \subseteq Nat
    BY DEF Bounds
  <2> QED
    BY <1>1, NatLessThanWellFounded, WFMin
<1>3. \A c \in Bounds : ~(c < b)
  BY <1>2 DEF OpToRel
<1>4. b \in S
  <2>1. SUFFICES ASSUME b \notin S PROVE FALSE
    OBVIOUS
  <2>2. \A k \in S : k <= b - 1 /\ b - 1 \in Nat
    BY <2>1
  <2>3. b - 1 \in Bounds
    BY <2>2
  <2> QED
    BY <1>3, <2>3
<1> QED
  BY <1>4

NewestIn(S, rs) ==
  LET i == CHOOSE j \in S : \A k \in S : k <= j
  IN  [oid |-> i, id |-> rs[i].id, type |-> rs[i].type,
       finished |-> rs[i].finished, eventSeq |-> rs[i].eventSeq]

\* What a query for the newest of some rows returns.
LEMMA NewestIsOne ==
  ASSUME rows \in Seq(Row), NEW S, S \subseteq DOMAIN rows
  PROVE  /\ Newest(S) \in Object
         /\ S = {} => Newest(S) = NoSession
         /\ S # {} => /\ Newest(S).oid \in S
                      /\ \A k \in S : k <= Newest(S).oid
                      /\ Newest(S) = [oid |-> Newest(S).oid, id |-> rows[Newest(S).oid].id,
                                      type |-> rows[Newest(S).oid].type,
                                      finished |-> rows[Newest(S).oid].finished,
                                      eventSeq |-> rows[Newest(S).oid].eventSeq]
<1>1. CASE S = {}
  BY <1>1 DEF Newest, NoSession, Object
<1>2. CASE S # {}
  <2>1. Len(rows) \in Nat /\ S \subseteq 1..Len(rows)
    OBVIOUS
  <2>2. \E m \in S : \A k \in S : k <= m
    BY <1>2, <2>1, MaximumExists
  <2> DEFINE i == CHOOSE j \in S : \A k \in S : k <= j
  <2>3. i \in S /\ \A k \in S : k <= i
    BY <2>2
  <2>4. Newest(S) = [oid |-> i, id |-> rows[i].id, type |-> rows[i].type,
                     finished |-> rows[i].finished, eventSeq |-> rows[i].eventSeq]
    BY <1>2 DEF Newest
  <2> HIDE DEF i
  <2>5. rows[i] \in Row /\ i \in Nat
    BY <2>1, <2>3, ElementOfSeq
  <2> QED
    BY <1>2, <2>3, <2>4, <2>5 DEF Row, Object
<1> QED
  BY <1>1, <1>2

(* The object of a session is "no session" or one of a row that was inserted; a thread
   that has nothing to do has let go of its objects. *)
Referable(s, rs) == s \in Object /\ (s = NoSession \/ s.oid \in DOMAIN rs)

WorkFits(w, rs) ==
  /\ w \in [todo : Seq(Steps), cur : Object, new : Object]
  /\ w.todo = <<>> => w = NoWork
  /\ Referable(w.cur, rs) /\ Referable(w.new, rs)

Typed ==
  /\ TypeOK
  /\ \A t \in Threads : WorkFits(work[t], rows)

\* The work of a thread after GoOn.
GoneOn(todo, cur, new) ==
  IF todo = <<>> THEN NoWork ELSE [todo |-> todo, cur |-> cur, new |-> new]

LEMMA NoWorkFits ==
  ASSUME NEW rs
  PROVE  WorkFits(NoWork, rs)
BY DEF NoWork, NoSession, WorkFits, Referable, Object

LEMMA GoneOnFits ==
  ASSUME NEW rs, NEW todo \in Seq(Steps), NEW cur, NEW new, Referable(cur, rs), Referable(new, rs)
  PROVE  WorkFits(GoneOn(todo, cur, new), rs)
<1>1. CASE todo = <<>>
  BY <1>1, NoWorkFits DEF GoneOn
<1>2. CASE todo # <<>>
  BY <1>2 DEF GoneOn, WorkFits, Referable
<1> QED
  BY <1>1, <1>2


LEMMA ReadingIsReferable ==
  ASSUME rows \in Seq(Row), NEW S, S \subseteq Kept, NEW s \in Reading(Newest(S))
  PROVE  Referable(s, rows)
<1>1. S \subseteq DOMAIN rows
  BY DEF Kept
<1>2. Referable(NoSession, rows)
  BY DEF Referable, NoSession, Object
<1>3. Referable(Newest(S), rows)
  BY <1>1, NewestIsOne DEF Referable
<1> QED
  BY <1>2, <1>3 DEF Reading

LEMMA SessionsRead ==
  ASSUME rows \in Seq(Row)
  PROVE  /\ \A s \in Reading(LastSession) : Referable(s, rows)
         /\ \A s \in Reading(LastGeneralSession) : Referable(s, rows)
         /\ \A x : \A s \in Reading(PreviousSession(x)) : Referable(s, rows)
<1>1. \A s \in Reading(LastSession) : Referable(s, rows)
  BY ReadingIsReferable DEF LastSession
<1>2. \A s \in Reading(LastGeneralSession) : Referable(s, rows)
  <2> DEFINE S == {i \in Kept : rows[i].type = "General"}
  <2>1. S \subseteq Kept
    OBVIOUS
  <2>2. LastGeneralSession = Newest(S)
    BY DEF LastGeneralSession
  <2> QED
    BY <2>1, <2>2, ReadingIsReferable
<1>3. ASSUME NEW x, NEW s \in Reading(PreviousSession(x)) PROVE Referable(s, rows)
  <2> DEFINE S == {i \in Kept : i < x.oid}
  <2>1. S \subseteq Kept
    OBVIOUS
  <2>2. PreviousSession(x) = Newest(S)
    BY DEF PreviousSession
  <2> QED
    BY <1>3, <2>1, <2>2, ReadingIsReferable
<1> QED
  BY <1>1, <1>2, <1>3

LEMMA ThreadGoesOn ==
  ASSUME Typed, NEW t \in Threads, NEW todo \in Seq(Steps), NEW cur, NEW new,
         Referable(cur, rows'), Referable(new, rows'), DOMAIN rows \subseteq DOMAIN rows',
         GoOn(t, todo, cur, new)
  PROVE  /\ work' = [work EXCEPT ![t] = GoneOn(todo, cur, new)]
         /\ work'[t] = GoneOn(todo, cur, new)
         /\ \A u \in Threads \ {t} : work'[u] = work[u]
         /\ \A u \in Threads : WorkFits(work'[u], rows')
         /\ work' \in [Threads -> [todo : Seq(Step), cur : Object, new : Object]]
<1>0. work \in [Threads -> [todo : Seq(Step), cur : Object, new : Object]]
  BY DEF Typed, TypeOK
<1>1. work' = [work EXCEPT ![t] = GoneOn(todo, cur, new)]
  BY DEF GoOn, GoneOn
<1>2. work'[t] = GoneOn(todo, cur, new) /\ \A u \in Threads \ {t} : work'[u] = work[u]
  BY <1>0, <1>1
<1>3. WorkFits(GoneOn(todo, cur, new), rows')
  BY GoneOnFits
<1>4. \A u \in Threads : WorkFits(work'[u], rows')
  <2> SUFFICES ASSUME NEW u \in Threads, u # t PROVE WorkFits(work'[u], rows')
    BY <1>2, <1>3
  <2> QED
    BY <1>2 DEF Typed, WorkFits, Referable
<1>5. GoneOn(todo, cur, new) \in [todo : Seq(Step), cur : Object, new : Object]
  <2>1. Seq(Steps) \subseteq Seq(Step)
    BY StepsTypes
  <2> QED
    BY <1>3, <2>1 DEF WorkFits
<1> QED
  BY <1>0, <1>1, <1>2, <1>4, <1>5

LEMMA CallBegins ==
  ASSUME Typed, NEW t \in Threads, NEW todo \in Seq(Steps), NEW s, NEW meant, Referable(s, rows),
         Begin(t, todo, s, meant), UNCHANGED rows
  PROVE  /\ work' = [work EXCEPT ![t] = GoneOn(todo, s, NoSession)]
         /\ work'[t] = GoneOn(todo, s, NoSession)
         /\ \A u \in Threads \ {t} : work'[u] = work[u]
         /\ \A u \in Threads : WorkFits(work'[u], rows')
         /\ work' \in [Threads -> [todo : Seq(Step), cur : Object, new : Object]]
         /\ faults' \subseteq Faults
<1>1. Referable(s, rows') /\ Referable(NoSession, rows') /\ DOMAIN rows \subseteq DOMAIN rows'
  BY DEF Referable, NoSession, Object
<1>2. faults' \subseteq Faults
  BY DEF Begin, Typed, TypeOK, Faults
<1>3. GoOn(t, todo, s, NoSession)
  BY DEF Begin
<1> QED
  BY <1>1, <1>2, <1>3, ThreadGoesOn


-----------------------------------------------------------------------------

LEMMA InitTyped == Init => Typed
<1> SUFFICES ASSUME Init PROVE Typed
  OBVIOUS
<1>1. \A t \in Threads : WorkFits(work[t], rows)
  BY NoWorkFits DEF Init
<1>2. work \in [Threads -> [todo : Seq(Step), cur : Object, new : Object]]
  BY DEF Init, NoWork, NoSession, Object
<1>3. rows \in Seq(Row) /\ events \in Seq(Event) /\ DOMAIN events = {}
  BY DEF Init
<1> QED
  BY <1>1, <1>2, <1>3 DEF Init, Typed, TypeOK, Flags, Faults

\* The step that a thread takes next, and the object it is about.
LEMMA NextStep ==
  ASSUME Typed, NEW t \in Threads, NEW op, IsNext(t, op)
  PROVE  /\ Todo(t) \in Seq(Steps) /\ Todo(t) # <<>>
         /\ Head(Todo(t)) = Todo(t)[1] /\ Head(Todo(t)) \in Steps /\ Head(Todo(t)).op = op
         /\ Rest(t) \in Seq(Steps)
         /\ Len(Rest(t)) = Len(Todo(t)) - 1
         /\ \A k \in DOMAIN Rest(t) : k + 1 \in DOMAIN Todo(t) /\ Rest(t)[k] = Todo(t)[k + 1]
         /\ work[t] \in [todo : Seq(Steps), cur : Object, new : Object]
         /\ Referable(work[t].cur, rows) /\ Referable(work[t].new, rows) /\ Referable(Target(t), rows)
<1>1. Todo(t) \in Seq(Steps) /\ Todo(t) # <<>> /\ Head(Todo(t)).op = op
  BY DEF Typed, WorkFits, Todo, IsNext, IsIdle
<1>2. work[t] \in [todo : Seq(Steps), cur : Object, new : Object]
      /\ Referable(work[t].cur, rows) /\ Referable(work[t].new, rows) /\ Referable(Target(t), rows)
  BY DEF Typed, WorkFits, Target
<1>3. Head(Todo(t)) = Todo(t)[1] /\ Head(Todo(t)) \in Steps
  BY <1>1
<1> DEFINE q == Todo(t)
<1>4. Rest(t) = Tail(q) /\ q \in Seq(Steps) /\ q # <<>>
  BY <1>1 DEF Rest
<1> HIDE DEF q
<1>5. Tail(q) \in Seq(Steps) /\ Len(Tail(q)) = Len(q) - 1
      /\ \A k \in DOMAIN Tail(q) : k + 1 \in DOMAIN q /\ Tail(q)[k] = q[k + 1]
  BY <1>4, HeadTailProperties
<1>6. Rest(t) \in Seq(Steps)
      /\ Len(Rest(t)) = Len(Todo(t)) - 1
      /\ \A k \in DOMAIN Rest(t) : k + 1 \in DOMAIN Todo(t) /\ Rest(t)[k] = Todo(t)[k + 1]
  BY <1>4, <1>5 DEF q
<1> QED
  BY <1>1, <1>2, <1>3, <1>6

\* A step of a thread that puts the steps "more" before the others.
LEMMA InFront ==
  ASSUME NEW x \in Steps, NEW q \in Seq(Steps)
  PROVE  /\ <<x>> \o q \in Seq(Steps)
         /\ Len(<<x>> \o q) = Len(q) + 1
         /\ (<<x>> \o q)[1] = x
         /\ \A k \in DOMAIN q : (<<x>> \o q)[k + 1] = q[k]
         /\ \A k \in 2..(Len(q) + 1) : k - 1 \in DOMAIN q /\ (<<x>> \o q)[k] = q[k - 1]
OBVIOUS

\* Whichever object it is about, the thread goes on with that one replaced.
LEMMA GoesOnWith ==
  ASSUME Typed, NEW t \in Threads, NEW todo \in Seq(Steps), NEW s, Referable(s, rows'),
         DOMAIN rows \subseteq DOMAIN rows', GoOnWith(t, todo, s)
  PROVE  /\ work'[t] = IF Head(Todo(t)).on = "cur" THEN GoneOn(todo, s, work[t].new)
                       ELSE GoneOn(todo, work[t].cur, s)
         /\ \A u \in Threads \ {t} : work'[u] = work[u]
         /\ \A u \in Threads : WorkFits(work'[u], rows')
         /\ work' \in [Threads -> [todo : Seq(Step), cur : Object, new : Object]]
<1>1. Referable(work[t].cur, rows') /\ Referable(work[t].new, rows')
  BY DEF Typed, WorkFits, Referable
<1>2. CASE Head(Todo(t)).on = "cur"
  <2>1. GoOn(t, todo, s, work[t].new)
    BY <1>2 DEF GoOnWith
  <2>2. work'[t] = GoneOn(todo, s, work[t].new)
        /\ (\A u \in Threads \ {t} : work'[u] = work[u])
        /\ (\A u \in Threads : WorkFits(work'[u], rows'))
        /\ work' \in [Threads -> [todo : Seq(Step), cur : Object, new : Object]]
    BY <1>1, <2>1, ThreadGoesOn
  <2> QED
    BY <1>2, <2>2
<1>3. CASE Head(Todo(t)).on # "cur"
  <2>1. GoOn(t, todo, work[t].cur, s)
    BY <1>3 DEF GoOnWith
  <2>2. work'[t] = GoneOn(todo, work[t].cur, s)
        /\ (\A u \in Threads \ {t} : work'[u] = work[u])
        /\ (\A u \in Threads : WorkFits(work'[u], rows'))
        /\ work' \in [Threads -> [todo : Seq(Step), cur : Object, new : Object]]
    BY <1>1, <2>1, ThreadGoesOn
  <2> QED
    BY <1>3, <2>2
<1> QED
  BY <1>2, <1>3


\* What the lemmas about calls show first: the parts of Typed' that are not assignments.
TypedAfter ==
  /\ work' \in [Threads -> [todo : Seq(Step), cur : Object, new : Object]]
  /\ \A u \in Threads : WorkFits(work'[u], rows')
  /\ rows' \in Seq(Row)
  /\ DOMAIN rows \subseteq DOMAIN rows'

LEMMA CallsTyped ==
  ASSUME Typed,
         \/ Setup \/ ReportFirstEventIfNeeded \/ ResumeSession \/ PauseSession
         \/ ReportEvent \/ ReportReattribution \/ ReportEventToPastSession
  PROVE  Typed'
<1> DEFINE E == "executor"
<1>0. E \in Threads /\ "caller" \in Threads /\ rows \in Seq(Row)
  BY DEF Typed, TypeOK, Threads
<1>a. ASSUME UNCHANGED <<stored, cleaning, lived>>, launch' \in {"setup", "first", "done"},
             isActive' \in BOOLEAN, sent' \in [Flags -> BOOLEAN],
             calls' \in Nat, past' \in Nat, UNCHANGED <<purges, deaths>>,
             NEW t \in Threads, NEW todo \in Seq(Steps), NEW s, NEW meant, Referable(s, rows),
             Begin(t, todo, s, meant)
      PROVE  Typed'
  <2>1. UNCHANGED rows
    BY <1>a DEF stored
  <2>2. work' \in [Threads -> [todo : Seq(Step), cur : Object, new : Object]]
        /\ (\A u \in Threads : WorkFits(work'[u], rows')) /\ faults' \subseteq Faults
    BY <1>a, <2>1, CallBegins
  <2> QED
    BY <1>a, <2>2 DEF Typed, TypeOK, stored
<1>1. ASSUME Setup PROVE Typed'
  <2>1. PICK s \in Reading(LastSession) : Begin(E, EnsureEnded(s), s, LastSession)
    BY <1>1 DEF Setup
  <2>2. Referable(s, rows) /\ EnsureEnded(s) \in Seq(Steps)
    BY <1>0, SessionsRead, BuildersArePlans DEF IsPlan
  <2>3. UNCHANGED <<stored, cleaning, lived>> /\ launch' \in {"setup", "first", "done"}
        /\ isActive' \in BOOLEAN /\ sent' \in [Flags -> BOOLEAN]
        /\ calls' \in Nat /\ past' \in Nat /\ UNCHANGED <<purges, deaths>>
    BY <1>1 DEF Setup, Typed, TypeOK, counts
  <2> QED
    BY <1>0, <1>a, <2>1, <2>2, <2>3
<1>2. ASSUME ReportFirstEventIfNeeded PROVE Typed'
  <2>3. UNCHANGED <<stored, cleaning, lived>> /\ launch' \in {"setup", "first", "done"}
        /\ isActive' \in BOOLEAN /\ sent' \in [Flags -> BOOLEAN]
        /\ calls' \in Nat /\ past' \in Nat /\ UNCHANGED <<purges, deaths>>
    BY <1>2 DEF ReportFirstEventIfNeeded, Typed, TypeOK, counts
  <2>4. CASE sent["first"]
    BY <1>2, <2>3, <2>4 DEF ReportFirstEventIfNeeded, Typed, TypeOK, stored
  <2>5. CASE ~sent["first"]
    <3>1. PICK s \in Reading(LastSession), x \in {"Invalid", "None", "Timeout", "Limit"} :
            Begin(E, FirstEventSteps(s, x), s, LastSession)
      BY <1>2, <2>5 DEF ReportFirstEventIfNeeded, Expirations
    <3>2. Referable(s, rows) /\ FirstEventSteps(s, x) \in Seq(Steps)
      BY <1>0, SessionsRead, BuildersArePlans DEF IsPlan
    <3> QED
      BY <1>0, <1>a, <2>3, <3>1, <3>2
  <2> QED
    BY <2>4, <2>5
<1>3. ASSUME ResumeSession \/ PauseSession \/ ReportEvent \/ ReportReattribution PROVE Typed'
  <2>1. Call /\ (isActive' = TRUE \/ isActive' = FALSE \/ isActive' = isActive)
    BY <1>3 DEF ResumeSession, PauseSession, ReportEvent, ReportReattribution
  <2>2. isActive' \in BOOLEAN
    BY <2>1 DEF Typed, TypeOK
  <2>3. UNCHANGED <<stored, cleaning, lived>> /\ launch' \in {"setup", "first", "done"}
        /\ isActive' \in BOOLEAN /\ sent' \in [Flags -> BOOLEAN]
        /\ calls' \in Nat /\ past' \in Nat /\ UNCHANGED <<purges, deaths>>
    BY <2>1, <2>2 DEF Call, Typed, TypeOK
  <2>4. PICK s, todo, meant :
           /\ Referable(s, rows) /\ todo \in Seq(Steps)
           /\ Begin(E, todo, s, meant)
    <3>0. \A s \in Reading(LastSession) : Referable(s, rows)
      BY <1>0, SessionsRead
    <3>1. ASSUME ResumeSession
          PROVE  \E s, todo, meant : Referable(s, rows) /\ todo \in Seq(Steps) /\ Begin(E, todo, s, meant)
      <4>1. PICK s \in Reading(LastSession), x \in {"Invalid", "None", "Timeout", "Limit"} :
              Begin(E, ResumeSteps(s, x), s, LastSession)
        BY <3>1 DEF ResumeSession, Expirations
      <4> QED
        BY <3>0, <4>1, BuildersArePlans DEF IsPlan
    <3>2. ASSUME PauseSession
          PROVE  \E s, todo, meant : Referable(s, rows) /\ todo \in Seq(Steps) /\ Begin(E, todo, s, meant)
      <4>1. PICK s \in Reading(LastGeneralSession), x \in {"Invalid", "None", "Timeout", "Limit"} :
              Begin(E, PauseSteps(s, x), s, LastGeneralSession)
        BY <3>2 DEF PauseSession, Expirations
      <4>2. Referable(s, rows)
        BY <1>0, SessionsRead
      <4> QED
        BY <4>1, <4>2, BuildersArePlans DEF IsPlan
    <3>3. ASSUME ReportEvent
          PROVE  \E s, todo, meant : Referable(s, rows) /\ todo \in Seq(Steps) /\ Begin(E, todo, s, meant)
      <4>1. PICK s \in Reading(LastSession), x \in {"Invalid", "None", "Timeout", "Limit"} :
              Begin(E, ReportSteps(s, x), s, LastSession)
        BY <3>3 DEF ReportEvent, Expirations
      <4> QED
        BY <3>0, <4>1, BuildersArePlans DEF IsPlan
    <3>4. ASSUME ReportReattribution
          PROVE  \E s, todo, meant : Referable(s, rows) /\ todo \in Seq(Steps) /\ Begin(E, todo, s, meant)
      <4>1. PICK s \in Reading(LastSession) : Begin(E, ReattributionSteps(s), s, LastSession)
        BY <3>4 DEF ReportReattribution
      <4> QED
        BY <3>0, <4>1, BuildersArePlans DEF IsPlan
    <3> QED
      BY <1>3, <3>1, <3>2, <3>3, <3>4
  <2> QED
    BY <1>0, <1>a, <2>3, <2>4
<1>4. ASSUME ReportEventToPastSession PROVE Typed'
  <2>3. UNCHANGED <<stored, cleaning, lived>> /\ launch' \in {"setup", "first", "done"}
        /\ isActive' \in BOOLEAN /\ sent' \in [Flags -> BOOLEAN]
        /\ calls' \in Nat /\ past' \in Nat /\ UNCHANGED <<purges, deaths>>
    BY <1>4 DEF ReportEventToPastSession, Typed, TypeOK, counts
  <2>4. PICK last \in Reading(LastSession) : \E prev \in Reading(PreviousSession(last)) :
       \/ Begin("caller", <<Add("past", "cur")>>, last, LastSession)
       \/ Begin("caller", <<Add("past", "cur")>>, prev, PreviousSession(LastSession))
       \/ Begin("caller", NewPastSessionSteps(last), last, LastSession)
    BY <1>4 DEF ReportEventToPastSession
  <2>8. PICK prev \in Reading(PreviousSession(last)) :
       \/ Begin("caller", <<Add("past", "cur")>>, last, LastSession)
       \/ Begin("caller", <<Add("past", "cur")>>, prev, PreviousSession(LastSession))
       \/ Begin("caller", NewPastSessionSteps(last), last, LastSession)
    BY <2>4
  <2>5. Referable(last, rows) /\ Referable(prev, rows)
    BY <1>0, SessionsRead
  <2>6. <<Add("past", "cur")>> \in Seq(Steps)
    BY BuildersArePlans DEF IsPlan
  <2>7. NewPastSessionSteps(last) \in Seq(Steps)
    <3>1. Started("Finished") \in Seq(Steps)
      BY BuildersArePlans DEF IsPlan
    <3>2. SaveAsLast \in Steps /\ Add("past", "new") \in Steps
      BY StepsTypes DEF Kinds
    <3>3. <<SaveAsLast>> \in Seq(Steps) /\ <<Add("past", "new")>> \in Seq(Steps) /\ <<>> \in Seq(Steps)
      BY <3>2
    <3> QED
      BY <3>1, <3>3 DEF NewPastSessionSteps
  <2> QED
    BY <1>0, <1>a, <2>3, <2>8, <2>5, <2>6, <2>7
<1> QED
  BY <1>1, <1>2, <1>3, <1>4


\* Only the row o has changed: it was finished, or its counter moved.
Alters(rs, rs2, o) ==
  /\ rs \in Seq(Row) /\ rs2 \in Seq(Row)
  /\ Len(rs2) = Len(rs) /\ DOMAIN rs2 = DOMAIN rs
  /\ \A i \in DOMAIN rs :
       /\ rs2[i].id = rs[i].id /\ rs2[i].type = rs[i].type /\ rs2[i].deleted = rs[i].deleted
       /\ rs2[i].eventSeq \in Nat /\ rs[i].eventSeq \in Nat
       /\ i # o => rs2[i] = rs[i]
       /\ rs[i].finished => rs2[i].finished

LEMMA FinishingAlters ==
  ASSUME NEW rs \in Seq(Row), NEW o
  PROVE  /\ Alters(rs, [rs EXCEPT ![o].finished = TRUE], o)
         /\ o \in DOMAIN rs => /\ [rs EXCEPT ![o].finished = TRUE][o].finished
                               /\ [rs EXCEPT ![o].finished = TRUE][o].eventSeq = rs[o].eventSeq
<1> DEFINE rs2 == [rs EXCEPT ![o].finished = TRUE]
<1>1. \A i \in DOMAIN rs : rs[i] \in Row
  OBVIOUS
<1>2. DOMAIN rs2 = DOMAIN rs /\ \A i \in DOMAIN rs : rs2[i] = IF i = o THEN [rs[i] EXCEPT !.finished = TRUE] ELSE rs[i]
  OBVIOUS
<1>3. \A i \in DOMAIN rs : rs2[i] \in Row
  BY <1>1, <1>2 DEF Row
<1>a. rs2 = [i \in DOMAIN rs |-> rs2[i]]
  OBVIOUS
<1> HIDE DEF rs2
<1>b. rs2 \in [1..Len(rs) -> Row] /\ Len(rs) \in Nat
  BY <1>3, <1>a
<1>4. rs2 \in Seq(Row) /\ Len(rs2) = Len(rs)
  BY <1>b
<1>5. \A i \in DOMAIN rs :
       /\ rs2[i].id = rs[i].id /\ rs2[i].type = rs[i].type /\ rs2[i].deleted = rs[i].deleted
       /\ rs2[i].eventSeq = rs[i].eventSeq /\ rs[i].eventSeq \in Nat
       /\ i # o => rs2[i] = rs[i]
       /\ rs[i].finished => rs2[i].finished
       /\ i = o => rs2[i].finished
  BY <1>1, <1>2 DEF Row
<1>6. Alters(rs, rs2, o) /\ (o \in DOMAIN rs => rs2[o].finished /\ rs2[o].eventSeq = rs[o].eventSeq)
  BY <1>2, <1>4, <1>5 DEF Alters
<1> QED
  BY <1>6 DEF rs2

LEMMA CountingAlters ==
  ASSUME NEW rs \in Seq(Row), NEW o, NEW n \in Nat
  PROVE  /\ Alters(rs, [rs EXCEPT ![o].eventSeq = n], o)
         /\ o \in DOMAIN rs => /\ [rs EXCEPT ![o].eventSeq = n][o].eventSeq = n
                               /\ [rs EXCEPT ![o].eventSeq = n][o].finished = rs[o].finished
<1> DEFINE rs2 == [rs EXCEPT ![o].eventSeq = n]
<1>1. \A i \in DOMAIN rs : rs[i] \in Row
  OBVIOUS
<1>2. DOMAIN rs2 = DOMAIN rs /\ \A i \in DOMAIN rs : rs2[i] = IF i = o THEN [rs[i] EXCEPT !.eventSeq = n] ELSE rs[i]
  OBVIOUS
<1>3. \A i \in DOMAIN rs : rs2[i] \in Row
  BY <1>1, <1>2 DEF Row
<1>a. rs2 = [i \in DOMAIN rs |-> rs2[i]]
  OBVIOUS
<1> HIDE DEF rs2
<1>b. rs2 \in [1..Len(rs) -> Row] /\ Len(rs) \in Nat
  BY <1>3, <1>a
<1>4. rs2 \in Seq(Row) /\ Len(rs2) = Len(rs)
  BY <1>b
<1>5. \A i \in DOMAIN rs :
       /\ rs2[i].id = rs[i].id /\ rs2[i].type = rs[i].type /\ rs2[i].deleted = rs[i].deleted
       /\ rs2[i].eventSeq \in Nat /\ rs[i].eventSeq \in Nat
       /\ i # o => rs2[i] = rs[i]
       /\ rs2[i].finished = rs[i].finished
       /\ i = o => rs2[i].eventSeq = n
  BY <1>1, <1>2 DEF Row
<1>6. Alters(rs, rs2, o) /\ (o \in DOMAIN rs => rs2[o].eventSeq = n /\ rs2[o].finished = rs[o].finished)
  BY <1>2, <1>4, <1>5 DEF Alters
<1> QED
  BY <1>6 DEF rs2

\* What appending a row leaves alone.
LEMMA AppendedRow ==
  ASSUME NEW rs \in Seq(Row), NEW row \in Row
  PROVE  /\ Append(rs, row) \in Seq(Row)
         /\ Len(Append(rs, row)) = Len(rs) + 1
         /\ DOMAIN Append(rs, row) = DOMAIN rs \cup {Len(rs) + 1}
         /\ \A i \in DOMAIN rs : Append(rs, row)[i] = rs[i] /\ i < Len(rs) + 1
         /\ Append(rs, row)[Len(rs) + 1] = row
OBVIOUS

-----------------------------------------------------------------------------
LEMMA EndSessionTyped ==
  ASSUME Typed, NEW t \in Threads, EndSession(t)
  PROVE  Typed'
<1> DEFINE s == Target(t)
<1>1. IsNext(t, "end") /\ rows \in Seq(Row)
  BY DEF EndSession, Typed, TypeOK
<1>2. Rest(t) \in Seq(Steps) /\ Referable(s, rows)
  BY <1>1, NextStep
<1>3. UNCHANGED <<events, lastSessionID, saved, sent, isActive, launch, cleaning, lived, counts>>
  BY DEF EndSession
<1> HIDE DEF s
<1>4. ASSUME NEW todo \in Seq(Steps), NEW s2, Referable(s2, rows'), GoOnWith(t, todo, s2),
             rows' \in Seq(Row), DOMAIN rows = DOMAIN rows', faults' \subseteq Faults
      PROVE  Typed'
  <2>1. (\A u \in Threads : WorkFits(work'[u], rows'))
        /\ work' \in [Threads -> [todo : Seq(Step), cur : Object, new : Object]]
    BY <1>4, GoesOnWith
  <2> QED
    BY <1>3, <1>4, <2>1 DEF Typed, TypeOK, counts
<1>5. CASE /\ rows' = [rows EXCEPT ![s.oid].finished = TRUE]
           /\ GoOnWith(t, <<Add("alive", "cur")>> \o Rest(t), [s EXCEPT !.finished = TRUE])
           /\ UNCHANGED faults
  <2>1. Alters(rows, rows', s.oid)
    BY <1>1, <1>5, FinishingAlters
  <2>2. Referable([s EXCEPT !.finished = TRUE], rows')
    <3>1. s = NoSession => [s EXCEPT !.finished = TRUE] = NoSession
      <4>0. NoSession \in Object /\ NoSession.finished = TRUE
        BY DEF NoSession, Object
      <4> DEFINE f == [NoSession EXCEPT !.finished = TRUE]
      <4>2. f \in Object /\ f.oid = NoSession.oid /\ f.id = NoSession.id /\ f.type = NoSession.type
            /\ f.finished = NoSession.finished /\ f.eventSeq = NoSession.eventSeq
        BY <4>0 DEF Object
      <4> HIDE DEF f
      <4>3. f = NoSession
        BY <4>0, <4>2 DEF Object
      <4>1. [NoSession EXCEPT !.finished = TRUE] = NoSession
        BY <4>3 DEF f
      <4> QED
        BY <4>1
    <3> QED
      BY <1>2, <2>1, <3>1 DEF Referable, Alters, Object
  <2>3. <<Add("alive", "cur")>> \o Rest(t) \in Seq(Steps)
    BY <1>2, StepsTypes, InFront DEF Kinds
  <2> QED
    BY <1>4, <1>5, <2>1, <2>2, <2>3 DEF Alters, Typed, TypeOK
<1>6. CASE /\ Failing
           /\ GoOnWith(t, Rest(t), s)
           /\ UNCHANGED rows
  BY <1>1, <1>2, <1>4, <1>6 DEF Failing, Typed, TypeOK, Faults
<1> QED
  BY <1>5, <1>6 DEF EndSession, s

LEMMA NewSessionTyped ==
  ASSUME Typed, NEW t \in Threads, NewSession(t)
  PROVE  Typed'
<1> DEFINE what == Head(Todo(t)).what
           id   == lastSessionID + 1
           row  == [id |-> id, type |-> IF what = "General" THEN "General" ELSE "Background",
                    finished |-> what = "Finished", eventSeq |-> 0, deleted |-> FALSE]
           s    == [oid |-> Len(rows) + 1, id |-> id, type |-> row.type,
                    finished |-> row.finished, eventSeq |-> 0]
<1>1. IsNext(t, "create") /\ rows \in Seq(Row) /\ lastSessionID \in Nat /\ id \in Nat
  BY DEF NewSession, Typed, TypeOK
<1>2. Rest(t) \in Seq(Steps)
  BY <1>1, NextStep
<1>3. UNCHANGED <<events, saved, sent, isActive, launch, cleaning, counts>>
  BY DEF NewSession
<1>4. ASSUME NEW todo \in Seq(Steps), NEW s2, Referable(s2, rows'), GoOnWith(t, todo, s2),
             rows' \in Seq(Row), DOMAIN rows \subseteq DOMAIN rows', faults' \subseteq Faults,
             lastSessionID' \in Nat, lived' \subseteq Nat
      PROVE  Typed'
  <2>1. (\A u \in Threads : WorkFits(work'[u], rows'))
        /\ work' \in [Threads -> [todo : Seq(Step), cur : Object, new : Object]]
    BY <1>4, GoesOnWith
  <2> QED
    BY <1>3, <1>4, <2>1 DEF Typed, TypeOK, counts
<1>5. CASE /\ rows' = Append(rows, row)
           /\ lastSessionID' = id
           /\ lived' = IF row.finished THEN lived ELSE lived \cup {id}
           /\ GoOnWith(t, Rest(t), s)
           /\ UNCHANGED faults
  <2>1. row \in Row
    BY <1>1 DEF Row
  <2>2. s \in Object
    BY <1>1 DEF Object
  <2>3. s.oid = Len(rows) + 1
    OBVIOUS
  <2>4. lived' \subseteq Nat /\ faults' \subseteq Faults
    BY <1>1, <1>5 DEF Typed, TypeOK
  <2> HIDE DEF row, s
  <2>5. rows' \in Seq(Row) /\ DOMAIN rows \subseteq DOMAIN rows' /\ Len(rows) + 1 \in DOMAIN rows'
    BY <1>1, <1>5, <2>1, AppendedRow
  <2> QED
    BY <1>1, <1>2, <1>4, <1>5, <2>2, <2>3, <2>4, <2>5 DEF Referable
<1>6. CASE /\ Failing
           /\ GoOnWith(t, Rest(t), NoSession)
           /\ UNCHANGED <<rows, lastSessionID, lived>>
  <2>1. Referable(NoSession, rows')
    BY DEF Referable, NoSession, Object
  <2> QED
    BY <1>1, <1>2, <1>4, <1>6, <2>1 DEF Failing, Typed, TypeOK, Faults
<1> QED
  BY <1>5, <1>6 DEF NewSession

LEMMA SaveSessionAsLastSessionTyped ==
  ASSUME Typed, NEW t \in Threads, SaveSessionAsLastSession(t)
  PROVE  Typed'
<1> DEFINE s   == Target(t)
           row == [id |-> s.id, type |-> s.type, finished |-> s.finished,
                   eventSeq |-> s.eventSeq, deleted |-> FALSE]
<1>1. IsNext(t, "saveAsLast") /\ rows \in Seq(Row)
  BY DEF SaveSessionAsLastSession, Typed, TypeOK
<1>2. Rest(t) \in Seq(Steps) /\ Referable(s, rows)
  BY <1>1, NextStep
<1>3. UNCHANGED <<events, lastSessionID, saved, sent, isActive, launch, cleaning, lived, counts>>
  BY DEF SaveSessionAsLastSession
<1> HIDE DEF s
<1>4. ASSUME NEW todo \in Seq(Steps), NEW s2, Referable(s2, rows'), GoOnWith(t, todo, s2),
             rows' \in Seq(Row), DOMAIN rows \subseteq DOMAIN rows', faults' \subseteq Faults
      PROVE  Typed'
  <2>1. (\A u \in Threads : WorkFits(work'[u], rows'))
        /\ work' \in [Threads -> [todo : Seq(Step), cur : Object, new : Object]]
    BY <1>4, GoesOnWith
  <2> QED
    BY <1>3, <1>4, <2>1 DEF Typed, TypeOK, counts
<1>5. CASE /\ rows' = Append([rows EXCEPT ![s.oid].finished = TRUE], row)
           /\ GoOnWith(t, Rest(t), [s EXCEPT !.oid = Len(rows) + 1])
           /\ faults' = faults \cup (IF work[t].new = NoSession THEN {"copied"} ELSE {})
  <2>1. row \in Row
    BY <1>2 DEF Row, Referable, Object
  <2>2. [s EXCEPT !.oid = Len(rows) + 1] \in Object /\ [s EXCEPT !.oid = Len(rows) + 1].oid = Len(rows) + 1
    BY <1>1, <1>2 DEF Object, Referable
  <2>4. faults' \subseteq Faults
    BY <1>1, <1>5 DEF Typed, TypeOK, Faults
  <2> HIDE DEF row
  <2> DEFINE rs == [rows EXCEPT ![s.oid].finished = TRUE]
  <2>3. rs \in Seq(Row) /\ DOMAIN rs = DOMAIN rows /\ Len(rs) = Len(rows)
    BY <1>1, FinishingAlters DEF Alters
  <2> HIDE DEF rs
  <2>5. rows' = Append(rs, row)
    BY <1>5 DEF rs
  <2>6. rows' \in Seq(Row) /\ DOMAIN rows \subseteq DOMAIN rows' /\ Len(rows) + 1 \in DOMAIN rows'
    BY <2>1, <2>3, <2>5, AppendedRow
  <2> QED
    BY <1>1, <1>2, <1>4, <1>5, <2>2, <2>4, <2>6 DEF Referable
<1>6. CASE /\ Failing
           /\ GoOnWith(t, Rest(t), s)
           /\ UNCHANGED rows
  BY <1>1, <1>2, <1>4, <1>6 DEF Failing, Typed, TypeOK, Faults
<1> QED
  BY <1>5, <1>6 DEF SaveSessionAsLastSession, s


LEMMA AfterAddingSteps ==
  ASSUME NEW kind \in Kinds, NEW on \in {"cur", "new"}, NEW s
  PROVE  \/ AfterAdding(kind, on, s) = <<>> /\ kind \notin Flags
         \/ kind \in Flags /\ AfterAdding(kind, on, s) = <<Mark(kind)>>
         \/ kind = "start" /\ ShouldReportInit(kind, s)
            /\ AfterAdding(kind, on, s) = <<Add("init", on)>>
BY DEF AfterAdding, ShouldReportInit, Flags

\* The steps that an event may add are of their type.
LEMMA AfterAddingTyped ==
  ASSUME NEW kind \in Kinds, NEW on \in {"cur", "new"}, NEW s, NEW q \in Seq(Steps)
  PROVE  AfterAdding(kind, on, s) \o q \in Seq(Steps)
<1>1. Add("init", on) \in Steps /\ (kind \in Flags => Mark(kind) \in Steps)
  BY StepsTypes DEF Kinds, Flags
<1>2. \/ AfterAdding(kind, on, s) = <<>>
      \/ kind \in Flags /\ AfterAdding(kind, on, s) = <<Mark(kind)>>
      \/ AfterAdding(kind, on, s) = <<Add("init", on)>>
  BY AfterAddingSteps
<1>3. \E x \in Steps : AfterAdding(kind, on, s) \in {<<>>, <<x>>}
  BY <1>1, <1>2
<1>4. PICK x \in Steps : AfterAdding(kind, on, s) \in {<<>>, <<x>>}
  BY <1>3
<1>5. AfterAdding(kind, on, s) \in Seq(Steps)
  <2>1. <<>> \in Seq(Steps) /\ <<x>> \in Seq(Steps)
    OBVIOUS
  <2> QED
    BY <1>4, <2>1
<1> QED
  BY <1>5

LEMMA AddEventTyped ==
  ASSUME Typed, NEW t \in Threads, AddEvent(t)
  PROVE  Typed'
<1> DEFINE s     == Target(t)
           kind  == Head(Todo(t)).what
           on    == Head(Todo(t)).on
           event == [session |-> s.oid, id |-> s.id, kind |-> kind,
                     sequenceNumber |-> s.eventSeq, purged |-> FALSE]
           Store == /\ events' = Append(events, event)
                    /\ rows' = [rows EXCEPT ![s.oid].eventSeq = s.eventSeq + 1]
           moved == [s EXCEPT !.eventSeq = @ + 1]
<1>1. IsNext(t, "add") /\ rows \in Seq(Row) /\ events \in Seq(Event) /\ faults \subseteq Faults
      /\ \A e \in DOMAIN events : events[e].session \in DOMAIN rows
  BY DEF AddEvent, Typed, TypeOK
<1>2. Rest(t) \in Seq(Steps) /\ Referable(s, rows)
  BY <1>1, NextStep
<1>3. kind \in Kinds /\ on \in {"cur", "new"}
  <2>1. Head(Todo(t)) \in Steps /\ Head(Todo(t)).op = "add"
    BY <1>1, NextStep
  <2> QED
    BY <2>1 DEF Steps, Step
<1>4. UNCHANGED <<lastSessionID, saved, sent, isActive, launch, cleaning, lived, counts>>
  BY DEF AddEvent
<1>5. \/ /\ s # NoSession
         /\ Store
         /\ GoOnWith(t, AfterAdding(kind, on, s) \o Rest(t), moved)
         /\ UNCHANGED faults
      \/ /\ s # NoSession
         /\ Failing
         /\ Store
         /\ GoOnWith(t, Rest(t), moved)
      \/ /\ IF s = NoSession THEN UNCHANGED faults ELSE Failing
         /\ GoOnWith(t, Rest(t), s)
         /\ UNCHANGED <<events, rows>>
  BY DEF AddEvent
<1>6. AfterAdding(kind, on, s) \o Rest(t) \in Seq(Steps)
  BY <1>2, <1>3, AfterAddingTyped
<1>7. faults' \subseteq Faults
  BY <1>1, <1>5 DEF Failing, Faults
<1>8. ASSUME NEW todo \in Seq(Steps), NEW s2, Referable(s2, rows'), GoOnWith(t, todo, s2),
             rows' \in Seq(Row), DOMAIN rows = DOMAIN rows', events' \in Seq(Event),
             \A e \in DOMAIN events' : events'[e].session \in DOMAIN rows
      PROVE  Typed'
  <2>1. (\A u \in Threads : WorkFits(work'[u], rows'))
        /\ work' \in [Threads -> [todo : Seq(Step), cur : Object, new : Object]]
    BY <1>8, GoesOnWith
  <2> QED
    BY <1>4, <1>7, <1>8, <2>1 DEF Typed, TypeOK, counts
<1>9. ASSUME s # NoSession, Store
      PROVE  /\ Referable(moved, rows') /\ rows' \in Seq(Row) /\ DOMAIN rows = DOMAIN rows'
             /\ events' \in Seq(Event)
             /\ \A e \in DOMAIN events' : events'[e].session \in DOMAIN rows
  <2>1. s \in Object /\ s.oid \in DOMAIN rows
    BY <1>2, <1>9 DEF Referable
  <2>2. s.eventSeq + 1 \in Nat /\ moved \in Object /\ moved.oid = s.oid
    BY <2>1 DEF Object
  <2>3. event \in Event
    BY <1>3, <2>1 DEF Event, Object
  <2>4. Alters(rows, rows', s.oid)
    BY <1>1, <1>9, <2>2, CountingAlters
  <2>5. event.session \in DOMAIN rows
    BY <2>1
  <2> HIDE DEF event, moved, s
  <2>6. events' \in Seq(Event)
        /\ \A e \in DOMAIN events' : events'[e].session \in DOMAIN rows
    BY <1>1, <1>9, <2>3, <2>5
  <2> QED
    BY <2>1, <2>2, <2>4, <2>6 DEF Referable, Alters
<1> HIDE DEF moved, s, kind, on, Store
<1>10. CASE s # NoSession /\ Store
  BY <1>2, <1>5, <1>6, <1>8, <1>9, <1>10
<1>11. CASE GoOnWith(t, Rest(t), s) /\ UNCHANGED <<events, rows>>
  BY <1>1, <1>2, <1>8, <1>11
<1> QED
  BY <1>5, <1>10, <1>11

LEMMA MarkEventSentTyped ==
  ASSUME Typed, NEW t \in Threads, MarkEventSent(t)
  PROVE  Typed'
<1>1. IsNext(t, "mark") /\ rows' = rows /\ rows \in Seq(Row)
  BY DEF MarkEventSent, Typed, TypeOK
<1>2. Rest(t) \in Seq(Steps) /\ Referable(Target(t), rows')
  BY <1>1, NextStep
<1>3. GoOnWith(t, Rest(t), Target(t))
  BY DEF MarkEventSent
<1>4. (\A u \in Threads : WorkFits(work'[u], rows'))
      /\ work' \in [Threads -> [todo : Seq(Step), cur : Object, new : Object]]
  BY <1>1, <1>2, <1>3, GoesOnWith
<1>5. sent' \in [Flags -> BOOLEAN] /\ saved' \in [Flags -> BOOLEAN] /\ faults' \subseteq Faults
  BY DEF MarkEventSent, Failing, Typed, TypeOK, Faults
<1> QED
  BY <1>4, <1>5 DEF MarkEventSent, Typed, TypeOK, counts

LEMMA AddToNewOrReportTyped ==
  ASSUME Typed, NEW t \in Threads, AddToNewOrReport(t)
  PROVE  Typed'
<1>1. IsNext(t, "addOrReport") /\ rows' = rows /\ rows \in Seq(Row)
  BY DEF AddToNewOrReport, Typed, TypeOK, stored
<1>2. Rest(t) \in Seq(Steps) /\ Referable(work[t].new, rows')
  BY <1>1, NextStep
<1>3. UNCHANGED <<stored, sent, isActive, launch, cleaning, lived, counts>>
  BY DEF AddToNewOrReport
<1>4. ASSUME (\A u \in Threads : WorkFits(work'[u], rows')),
             work' \in [Threads -> [todo : Seq(Step), cur : Object, new : Object]],
             faults' \subseteq Faults
      PROVE  Typed'
  BY <1>3, <1>4 DEF Typed, TypeOK, counts, stored
<1>5. CASE work[t].new # NoSession
  <2>1. GoOnWith(t, <<Add("client", "new")>> \o Rest(t), work[t].new) /\ UNCHANGED faults
    BY <1>5 DEF AddToNewOrReport
  <2>2. <<Add("client", "new")>> \o Rest(t) \in Seq(Steps)
    BY <1>2, StepsTypes, InFront DEF Kinds
  <2>3. faults' \subseteq Faults
    BY <2>1 DEF Typed, TypeOK
  <2> QED
    BY <1>1, <1>2, <1>4, <2>1, <2>2, <2>3, GoesOnWith
<1>6. CASE work[t].new = NoSession
  <2>1. PICK s \in Reading(LastSession), x \in {"Invalid", "None", "Timeout", "Limit"} :
          Begin(t, ReportSteps(s, x), s, LastSession)
    BY <1>6 DEF AddToNewOrReport, Expirations
  <2>2. Referable(s, rows) /\ ReportSteps(s, x) \in Seq(Steps)
    BY <1>1, SessionsRead, BuildersArePlans DEF IsPlan
  <2> QED
    BY <1>1, <1>4, <2>1, <2>2, CallBegins
<1> QED
  BY <1>5, <1>6


LEMMA PurgeEventsTyped ==
  ASSUME Typed, PurgeEvents
  PROVE  Typed'
<1>1. events \in Seq(Event) /\ faults \subseteq Faults
  BY DEF Typed, TypeOK
<1>2. faults' \subseteq Faults
  BY <1>1 DEF PurgeEvents, Failing, Faults
<1>3. events' \in Seq(Event) /\ \A e \in DOMAIN events' : e \in DOMAIN events /\ events'[e].session = events[e].session
  <2>1. CASE UNCHANGED events
    BY <1>1, <2>1
  <2>2. CASE ~UNCHANGED events
    <3>1. PICK sessions \in SUBSET Stored \ {{}} :
            events' = [e \in DOMAIN events |->
                         IF events[e].session \in sessions
                         THEN [events[e] EXCEPT !.purged = TRUE] ELSE events[e]]
      BY <2>2 DEF PurgeEvents
    <3>2. \A e \in DOMAIN events : events[e] \in Event
      BY <1>1
    <3>3. DOMAIN events' = DOMAIN events
          /\ \A e \in DOMAIN events : events'[e] \in Event /\ events'[e].session = events[e].session
      BY <3>1, <3>2 DEF Event
    <3>4. events' = [e \in DOMAIN events |-> events'[e]]
      BY <3>1
    <3>5. events' \in [1..Len(events) -> Event] /\ Len(events) \in Nat
      BY <1>1, <3>3, <3>4
    <3>6. events' \in Seq(Event)
      BY <3>5
    <3> QED
      BY <3>3, <3>6
  <2> QED
    BY <2>1, <2>2
<1>4. UNCHANGED <<rows, lastSessionID, saved, sent, isActive, launch, work, lived, calls, past, deaths>>
      /\ cleaning' = TRUE /\ purges' = purges + 1
  BY DEF PurgeEvents
<1> QED
  BY <1>2, <1>3, <1>4 DEF Typed, TypeOK

\* What the deletion of sessions does to the table.
Deletes(rs, rs2) ==
  /\ rs \in Seq(Row) /\ rs2 \in Seq(Row)
  /\ Len(rs2) = Len(rs) /\ DOMAIN rs2 = DOMAIN rs
  /\ \A i \in DOMAIN rs :
       /\ rs2[i].id = rs[i].id /\ rs2[i].type = rs[i].type /\ rs2[i].finished = rs[i].finished
       /\ rs2[i].eventSeq = rs[i].eventSeq
       /\ rs[i].deleted => rs2[i].deleted

LEMMA PurgeEmptyDeletes ==
  ASSUME rows \in Seq(Row), PurgeEmptySessions
  PROVE  /\ Deletes(rows, rows')
         /\ \A i \in DOMAIN rows : rows'[i].deleted => rows[i].deleted \/ i \in EmptyButFor(2)
         /\ \/ UNCHANGED rows
            \/ \A i \in EmptyButFor(2) : rows'[i].deleted
<1>0. \A i \in DOMAIN rows : rows[i] \in Row
  OBVIOUS
<1>1. CASE UNCHANGED rows
  BY <1>0, <1>1 DEF Deletes
<1>2. CASE ~UNCHANGED rows
  <2>1. rows' = [i \in DOMAIN rows |->
                  IF i \in EmptyButFor(2) THEN [rows[i] EXCEPT !.deleted = TRUE] ELSE rows[i]]
    BY <1>2 DEF PurgeEmptySessions
  <2>2. DOMAIN rows' = DOMAIN rows
        /\ \A i \in DOMAIN rows : rows'[i] = IF i \in EmptyButFor(2) THEN [rows[i] EXCEPT !.deleted = TRUE] ELSE rows[i]
    BY <2>1
  <2>3. \A i \in DOMAIN rows :
          /\ rows'[i] \in Row
          /\ rows'[i].id = rows[i].id /\ rows'[i].type = rows[i].type /\ rows'[i].finished = rows[i].finished
          /\ rows'[i].eventSeq = rows[i].eventSeq
          /\ rows[i].deleted => rows'[i].deleted
          /\ rows'[i].deleted => rows[i].deleted \/ i \in EmptyButFor(2)
          /\ i \in EmptyButFor(2) => rows'[i].deleted
    BY <1>0, <2>2 DEF Row
  <2>4. rows' = [i \in DOMAIN rows |-> rows'[i]]
    BY <2>1
  <2>5. rows' \in [1..Len(rows) -> Row] /\ Len(rows) \in Nat
    BY <2>2, <2>3, <2>4
  <2>6. rows' \in Seq(Row) /\ Len(rows') = Len(rows)
    BY <2>5
  <2>7. EmptyButFor(2) \subseteq DOMAIN rows
    BY DEF EmptyButFor, Kept
  <2> QED
    BY <2>2, <2>3, <2>6, <2>7 DEF Deletes
<1> QED
  BY <1>1, <1>2

LEMMA PurgeEmptySessionsTyped ==
  ASSUME Typed, PurgeEmptySessions
  PROVE  Typed'
<1>1. Deletes(rows, rows')
  BY PurgeEmptyDeletes DEF Typed, TypeOK
<1>2. faults' \subseteq Faults
  BY DEF PurgeEmptySessions, Failing, Faults, Typed, TypeOK
<1>3. UNCHANGED <<events, lastSessionID, saved, sent, isActive, launch, work, lived, counts>> /\ cleaning' = FALSE
  BY DEF PurgeEmptySessions
<1>4. rows' \in Seq(Row) /\ DOMAIN rows' = DOMAIN rows
  BY <1>1 DEF Deletes
<1>5. \A t \in Threads : WorkFits(work'[t], rows')
  BY <1>3, <1>4 DEF Typed, WorkFits, Referable
<1> QED
  BY <1>2, <1>3, <1>4, <1>5 DEF Typed, TypeOK, counts

LEMMA DieTyped ==
  ASSUME Typed, Die
  PROVE  Typed'
<1>1. \A t \in Threads : WorkFits(work'[t], rows')
  BY NoWorkFits DEF Die
<1>2. work' \in [Threads -> [todo : Seq(Step), cur : Object, new : Object]]
  BY DEF Die, NoWork, NoSession, Object
<1>3. faults' \subseteq Faults /\ sent' \in [Flags -> BOOLEAN] /\ deaths' \in Nat
  BY DEF Die, Typed, TypeOK, Faults
<1>4. isActive' = FALSE /\ launch' = "setup" /\ cleaning' = FALSE
      /\ UNCHANGED <<stored, lived, calls, past, purges>>
  BY DEF Die
<1> QED
  BY <1>1, <1>2, <1>3, <1>4 DEF Typed, TypeOK, stored

LEMMA StepTyped == Typed /\ [Next]_vars => Typed'
<1> SUFFICES ASSUME Typed, [Next]_vars PROVE Typed'
  OBVIOUS
<1>1. CASE UNCHANGED vars
  BY <1>1 DEF vars, stored, counts, Typed, TypeOK
<1>2. ASSUME NEW t \in Threads, Perform(t) PROVE Typed'
  BY <1>2, EndSessionTyped, NewSessionTyped, SaveSessionAsLastSessionTyped, AddEventTyped,
     MarkEventSentTyped, AddToNewOrReportTyped DEF Perform
<1> QED
  BY <1>1, <1>2, CallsTyped, PurgeEventsTyped, PurgeEmptySessionsTyped, DieTyped DEF Next

(* Type correctness: threads plan only steps and hold only objects of their kinds, and
   every event stored refers to a row that was inserted: -addEvent:toSession:error: stores
   nothing for a nil session, whatever reading, creation or copy failed before it. *)
THEOREM TypeCorrect == Spec => []TypeOK
<1>1. Typed => TypeOK
  BY DEF Typed
<1> QED
  BY <1>1, InitTyped, StepTyped, PTL DEF Spec


-----------------------------------------------------------------------------

(* What rows, events and objects have to do with each other.

   A session has several rows when it was saved as the last one again: all but the last
   of them are stale.  A stale row is finished and has two kept rows above it, so that no
   reading of the reporter, which looks at the two newest rows, returns it; and the
   deletion of empty sessions, which spares two, leaves that as it is.  The number that
   the next event of a session takes is above those of all its events in the last row of
   the session, and in the object of the call at work, which agrees with such a row. *)
IsStale(i, rs)  == \E j \in DOMAIN rs : j > i /\ rs[j].id = rs[i].id
TwoAbove(i, rs) == \E a, b \in DOMAIN rs : i < a /\ a < b /\ ~rs[a].deleted /\ ~rs[b].deleted

RowsFit(rs, n) ==
  /\ \A i \in DOMAIN rs : rs[i].id \in 1..n
  /\ \A i \in DOMAIN rs : IsStale(i, rs) => rs[i].finished /\ TwoAbove(i, rs)
  /\ rs # <<>> => ~rs[Len(rs)].deleted

EventsFit(es, rs) ==
  /\ \A e \in DOMAIN es : es[e].session \in DOMAIN rs
  /\ \A e \in DOMAIN es : es[e].id = rs[es[e].session].id
  /\ \A e \in DOMAIN es : \A j \in DOMAIN rs :
       j >= es[e].session /\ rs[j].id = es[e].id => es[e].sequenceNumber < rs[j].eventSeq

Agrees(s, rs) ==
  /\ s.oid \in DOMAIN rs
  /\ s.id = rs[s.oid].id
  /\ s.type = rs[s.oid].type
  /\ s.finished = rs[s.oid].finished
  /\ s.eventSeq = rs[s.oid].eventSeq
  /\ ~IsStale(s.oid, rs)

(* What each change of the table does to this: a row is altered, a new session or a copy
   of the last one is appended, sessions are deleted. *)
LEMMA AlteredRows ==
  ASSUME NEW rs, NEW rs2, NEW o, Alters(rs, rs2, o),
         o \in DOMAIN rs => rs2[o].eventSeq >= rs[o].eventSeq, NEW n \in Nat, NEW es \in Seq(Event)
  PROVE  /\ RowsFit(rs, n) => RowsFit(rs2, n)
         /\ EventsFit(es, rs) => EventsFit(es, rs2)
         /\ \A s \in Object : Agrees(s, rs) /\ s.oid # o => Agrees(s, rs2)
         /\ \A i \in DOMAIN rs : IsStale(i, rs2) <=> IsStale(i, rs)
<1>0. rs \in Seq(Row) /\ Len(rs2) = Len(rs) /\ DOMAIN rs2 = DOMAIN rs /\ Len(rs) \in Nat /\ DOMAIN rs = 1..Len(rs)
  BY DEF Alters
<1>1. \A i \in DOMAIN rs : rs2[i].id = rs[i].id /\ rs2[i].deleted = rs[i].deleted /\ (rs[i].finished => rs2[i].finished)
  BY DEF Alters
<1>2. \A i \in DOMAIN rs : IsStale(i, rs2) <=> IsStale(i, rs)
  BY <1>0, <1>1 DEF IsStale
<1>3. \A i \in DOMAIN rs : TwoAbove(i, rs2) <=> TwoAbove(i, rs)
  BY <1>0, <1>1 DEF TwoAbove
<1>4. ASSUME RowsFit(rs, n) PROVE RowsFit(rs2, n)
  <2>1. rs2 # <<>> => ~rs2[Len(rs2)].deleted
    BY <1>0, <1>1, <1>4 DEF RowsFit
  <2>2. \A i \in DOMAIN rs2 : IsStale(i, rs2) => rs2[i].finished /\ TwoAbove(i, rs2)
    BY <1>0, <1>1, <1>2, <1>3, <1>4 DEF RowsFit
  <2> QED
    BY <1>0, <1>1, <1>4, <2>1, <2>2 DEF RowsFit
<1>5. ASSUME EventsFit(es, rs) PROVE EventsFit(es, rs2)
  <2>1. \A i \in DOMAIN rs : rs2[i].eventSeq >= rs[i].eventSeq /\ rs[i].eventSeq \in Nat /\ rs2[i].eventSeq \in Nat
    BY DEF Alters
  <2>2. \A e \in DOMAIN es : es[e].sequenceNumber \in Nat
    <3>1. \A e \in DOMAIN es : es[e] \in Event
      OBVIOUS
    <3> QED
      BY <3>1 DEF Event
  <2>3. ASSUME NEW e \in DOMAIN es, NEW j \in DOMAIN rs, j >= es[e].session, rs[j].id = es[e].id
        PROVE  es[e].sequenceNumber < rs2[j].eventSeq
    <3>1. es[e].sequenceNumber < rs[j].eventSeq
      BY <1>5, <2>3 DEF EventsFit
    <3> QED
      BY <2>1, <2>2, <3>1
  <2>4. \A e \in DOMAIN es : es[e].session \in DOMAIN rs2 /\ es[e].id = rs2[es[e].session].id
    BY <1>0, <1>1, <1>5 DEF EventsFit
  <2> QED
    BY <1>0, <1>1, <2>3, <2>4 DEF EventsFit
<1>6. ASSUME NEW s \in Object, Agrees(s, rs), s.oid # o PROVE Agrees(s, rs2)
  BY <1>0, <1>2, <1>6 DEF Agrees, Alters
<1> QED
  BY <1>2, <1>4, <1>5, <1>6

LEMMA FreshRow ==
  ASSUME NEW rs \in Seq(Row), NEW row \in Row, NEW n \in Nat, row.id = n + 1, ~row.deleted,
         RowsFit(rs, n), NEW es \in Seq(Event), EventsFit(es, rs)
  PROVE  /\ RowsFit(Append(rs, row), n + 1)
         /\ EventsFit(es, Append(rs, row))
         /\ \A s \in Object : Agrees(s, rs) => Agrees(s, Append(rs, row))
         /\ ~IsStale(Len(rs) + 1, Append(rs, row))
<1> DEFINE rs2 == Append(rs, row)
<1>0. rs2 \in Seq(Row) /\ Len(rs2) = Len(rs) + 1 /\ DOMAIN rs2 = DOMAIN rs \cup {Len(rs) + 1}
      /\ (\A i \in DOMAIN rs : rs2[i] = rs[i] /\ i < Len(rs) + 1) /\ rs2[Len(rs) + 1] = row
      /\ Len(rs) \in Nat /\ DOMAIN rs = 1..Len(rs) /\ rs2 # <<>>
  BY AppendedRow
<1> HIDE DEF rs2
<1>1. \A i \in DOMAIN rs : rs2[i].id # row.id /\ rs[i].id \in 1..n
  BY <1>0 DEF RowsFit
<1>2. \A i \in DOMAIN rs : IsStale(i, rs2) => IsStale(i, rs)
  BY <1>0, <1>1 DEF IsStale
<1>3. ~IsStale(Len(rs) + 1, rs2)
  BY <1>0 DEF IsStale
<1>4. \A i \in DOMAIN rs : TwoAbove(i, rs) => TwoAbove(i, rs2)
  BY <1>0 DEF TwoAbove
<1>5. RowsFit(rs2, n + 1)
  <2>1. \A i \in DOMAIN rs2 : rs2[i].id \in 1..(n + 1)
    BY <1>0, <1>1
  <2>2. ~rs2[Len(rs2)].deleted
    BY <1>0
  <2>3. \A i \in DOMAIN rs2 : IsStale(i, rs2) => rs2[i].finished /\ TwoAbove(i, rs2)
    BY <1>0, <1>2, <1>3, <1>4 DEF RowsFit
  <2> QED
    BY <2>1, <2>2, <2>3 DEF RowsFit
<1>6. EventsFit(es, rs2)
  <2>1. \A e \in DOMAIN es : /\ es[e].session \in DOMAIN rs /\ es[e].id = rs[es[e].session].id
                             /\ es[e].session \in DOMAIN rs2 /\ es[e].id = rs2[es[e].session].id
    BY <1>0 DEF EventsFit
  <2>2. ASSUME NEW e \in DOMAIN es, NEW j \in DOMAIN rs2, j >= es[e].session, rs2[j].id = es[e].id
        PROVE  es[e].sequenceNumber < rs2[j].eventSeq
    <3>1. j # Len(rs) + 1
      BY <1>0, <1>1, <2>1, <2>2
    <3>2. j \in DOMAIN rs /\ rs2[j] = rs[j]
      BY <1>0, <3>1
    <3> QED
      BY <2>2, <3>2 DEF EventsFit
  <2> QED
    BY <2>1, <2>2 DEF EventsFit
<1>7. \A s \in Object : Agrees(s, rs) => Agrees(s, rs2)
  BY <1>0, <1>2 DEF Agrees
<1> QED
  BY <1>3, <1>5, <1>6, <1>7 DEF rs2

LEMMA CopiedRow ==
  ASSUME NEW rs \in Seq(Row), NEW row \in Row, NEW o \in DOMAIN rs, o < Len(rs), rs[o].finished,
         row.id = rs[o].id, row.eventSeq >= rs[o].eventSeq, ~row.deleted, ~IsStale(o, rs),
         NEW n \in Nat, RowsFit(rs, n), NEW es \in Seq(Event), EventsFit(es, rs)
  PROVE  /\ RowsFit(Append(rs, row), n)
         /\ EventsFit(es, Append(rs, row))
         /\ \A s \in Object : Agrees(s, rs) /\ s.id # row.id => Agrees(s, Append(rs, row))
         /\ ~IsStale(Len(rs) + 1, Append(rs, row))
<1> DEFINE rs2 == Append(rs, row)
<1>0. rs2 \in Seq(Row) /\ Len(rs2) = Len(rs) + 1 /\ DOMAIN rs2 = DOMAIN rs \cup {Len(rs) + 1}
      /\ (\A i \in DOMAIN rs : rs2[i] = rs[i] /\ i < Len(rs) + 1) /\ rs2[Len(rs) + 1] = row
      /\ Len(rs) \in Nat /\ DOMAIN rs = 1..Len(rs) /\ rs2 # <<>>
  BY AppendedRow
<1> HIDE DEF rs2
<1>1. \A i \in DOMAIN rs : i # o /\ rs[i].id = rs[o].id => IsStale(i, rs)
  BY <1>0 DEF IsStale
<1>2. \A i \in DOMAIN rs : IsStale(i, rs2) => IsStale(i, rs) \/ i = o
  BY <1>0, <1>1 DEF IsStale
<1>3. ~IsStale(Len(rs) + 1, rs2)
  BY <1>0 DEF IsStale
<1>4. \A i \in DOMAIN rs : TwoAbove(i, rs) => TwoAbove(i, rs2)
  BY <1>0 DEF TwoAbove
<1>5. TwoAbove(o, rs2)
  <2>1. ~rs[Len(rs)].deleted
    BY <1>0 DEF RowsFit
  <2>3. Len(rs) \in DOMAIN rs /\ o < Len(rs) /\ Len(rs) < Len(rs) + 1
    BY <1>0
  <2>2. Len(rs) \in DOMAIN rs2 /\ Len(rs) + 1 \in DOMAIN rs2 /\ ~rs2[Len(rs)].deleted /\ ~rs2[Len(rs) + 1].deleted
    BY <1>0, <2>1, <2>3
  <2> QED
    BY <2>2, <2>3 DEF TwoAbove
<1>6. RowsFit(rs2, n)
  <2>1. \A i \in DOMAIN rs2 : rs2[i].id \in 1..n
    BY <1>0 DEF RowsFit
  <2>2. ~rs2[Len(rs2)].deleted
    BY <1>0
  <2>3. \A i \in DOMAIN rs2 : IsStale(i, rs2) => rs2[i].finished /\ TwoAbove(i, rs2)
    BY <1>0, <1>2, <1>3, <1>4, <1>5 DEF RowsFit
  <2> QED
    BY <2>1, <2>2, <2>3 DEF RowsFit
<1>7. EventsFit(es, rs2)
  <2>1. \A e \in DOMAIN es : es[e].id = rs2[es[e].session].id /\ es[e].session \in DOMAIN rs2
    BY <1>0 DEF EventsFit
  <2>2. ASSUME NEW e \in DOMAIN es, es[e].id = row.id PROVE es[e].sequenceNumber < row.eventSeq
    <3>1. es[e].session \in DOMAIN rs /\ rs[es[e].session].id = rs[o].id
      BY <2>2 DEF EventsFit
    <3>2. o >= es[e].session
      BY <1>0, <3>1 DEF IsStale
    <3>3. es[e].sequenceNumber < rs[o].eventSeq
      BY <2>2, <3>2 DEF EventsFit
    <3>4. rs[o] \in Row /\ es[e] \in Event
      OBVIOUS
    <3> QED
      BY <3>3, <3>4 DEF Row, Event
  <2> QED
    BY <1>0, <2>1, <2>2 DEF EventsFit
<1>8. \A s \in Object : Agrees(s, rs) /\ s.id # row.id => Agrees(s, rs2)
  BY <1>0, <1>2 DEF Agrees
<1> QED
  BY <1>3, <1>6, <1>7, <1>8 DEF rs2

LEMMA DeletedRows ==
  ASSUME NEW rs, NEW rs2, Deletes(rs, rs2),
         \A i \in DOMAIN rs : rs2[i].deleted /\ ~rs[i].deleted => TwoAbove(i, rs2),
         NEW n \in Nat, NEW es \in Seq(Event)
  PROVE  /\ RowsFit(rs, n) => RowsFit(rs2, n)
         /\ EventsFit(es, rs) => EventsFit(es, rs2)
         /\ \A s \in Object : Agrees(s, rs) => Agrees(s, rs2)
<1>0. rs \in Seq(Row) /\ Len(rs2) = Len(rs) /\ DOMAIN rs2 = DOMAIN rs /\ Len(rs) \in Nat /\ DOMAIN rs = 1..Len(rs)
      /\ rs2 \in Seq(Row)
  BY DEF Deletes
<1>1. \A i \in DOMAIN rs : rs2[i].id = rs[i].id /\ rs2[i].finished = rs[i].finished /\ rs2[i].eventSeq = rs[i].eventSeq
  BY DEF Deletes
<1>2. \A i \in DOMAIN rs : IsStale(i, rs2) <=> IsStale(i, rs)
  BY <1>0, <1>1 DEF IsStale
<1>3. ASSUME NEW i \in DOMAIN rs, TwoAbove(i, rs) PROVE TwoAbove(i, rs2)
  <2>1. PICK a \in DOMAIN rs, b \in DOMAIN rs : i < a /\ a < b /\ ~rs[a].deleted /\ ~rs[b].deleted
    BY <1>3 DEF TwoAbove
  <2>2. CASE rs2[a].deleted
    <3>1. TwoAbove(a, rs2)
      BY <2>1, <2>2
    <3> QED
      BY <1>0, <2>1, <3>1 DEF TwoAbove
  <2>3. CASE rs2[b].deleted
    <3>1. TwoAbove(b, rs2)
      BY <2>1, <2>3
    <3> QED
      BY <1>0, <2>1, <3>1 DEF TwoAbove
  <2>4. CASE ~rs2[a].deleted /\ ~rs2[b].deleted
    BY <1>0, <2>1, <2>4 DEF TwoAbove
  <2> QED
    BY <2>2, <2>3, <2>4
<1>4. ASSUME RowsFit(rs, n) PROVE RowsFit(rs2, n)
  <2>1. ASSUME rs2 # <<>> PROVE ~rs2[Len(rs2)].deleted
    <3>1. Len(rs) \in DOMAIN rs /\ ~rs[Len(rs)].deleted
      BY <1>0, <1>4, <2>1 DEF RowsFit
    <3>2. ~TwoAbove(Len(rs), rs2)
      BY <1>0 DEF TwoAbove
    <3> QED
      BY <1>0, <3>1, <3>2
  <2>2. \A i \in DOMAIN rs2 : IsStale(i, rs2) => rs2[i].finished /\ TwoAbove(i, rs2)
    BY <1>0, <1>1, <1>2, <1>3, <1>4 DEF RowsFit
  <2> QED
    BY <1>0, <1>1, <1>4, <2>1, <2>2 DEF RowsFit
<1>5. ASSUME EventsFit(es, rs) PROVE EventsFit(es, rs2)
  BY <1>0, <1>1, <1>5 DEF EventsFit
<1>6. ASSUME NEW s \in Object, Agrees(s, rs) PROVE Agrees(s, rs2)
  BY <1>0, <1>2, <1>6 DEF Agrees, Deletes
<1> QED
  BY <1>4, <1>5, <1>6

\* The two newest empty sessions stay, so what is deleted has them above it.
LEMMA TwoAreSpared ==
  ASSUME rows \in Seq(Row), NEW i \in EmptyButFor(2)
  PROVE  \E a, b \in Kept : i < a /\ a < b /\ a \notin EmptyButFor(2) /\ b \notin EmptyButFor(2)
<1> DEFINE empty == {j \in Kept : IsEmpty(j)}
           Above(k) == {j \in empty : j > k}
<1>0. Len(rows) \in Nat /\ empty \subseteq 1..Len(rows) /\ (\A k \in empty : k \in Nat)
  BY DEF Kept
<1>1. i \in empty /\ Cardinality(Above(i)) >= 2
  BY DEF EmptyButFor
<1>2. \A k : k \in EmptyButFor(2) => Cardinality(Above(k)) >= 2
  BY DEF EmptyButFor
<1>3. empty \subseteq Kept
  OBVIOUS
<1> HIDE DEF empty
<1>4. PICK b \in empty : \A k \in empty : k <= b
  BY <1>0, <1>1, MaximumExists
<1>5. Above(b) = {}
  <2>1. \A j \in empty : ~(j > b)
    BY <1>0, <1>4
  <2> QED
    BY <2>1
<1>6. b \notin EmptyButFor(2)
  <2>1. Cardinality(Above(b)) = 0
    BY <1>5, FS_EmptySet
  <2> HIDE DEF Above
  <2> QED
    BY <1>2, <2>1
<1>7. i # b
  <2>1. Cardinality(Above(b)) = 0
    BY <1>5, FS_EmptySet
  <2> HIDE DEF Above
  <2> QED
    BY <1>1, <2>1
<1>8. PICK a \in empty \ {b} : \A k \in empty \ {b} : k <= a
  <2>1. empty \ {b} # {} /\ empty \ {b} \subseteq 1..Len(rows)
    BY <1>0, <1>1, <1>7
  <2> DEFINE others == empty \ {b}
  <2> HIDE DEF others
  <2>2. \E a \in others : \A k \in others : k <= a
    BY <1>0, <2>1, MaximumExists DEF others
  <2> QED
    BY <2>2 DEF others
<1>9. Above(a) = {b} /\ a < b
  <2>1. a \in Nat /\ b \in Nat /\ a # b /\ a <= b
    BY <1>0, <1>4, <1>8
  <2>2. \A j \in empty : j > a <=> j = b
    BY <1>0, <1>4, <1>8, <2>1
  <2> QED
    BY <1>4, <2>1, <2>2
<1>10. Cardinality(Above(a)) = 1
  BY <1>9, FS_Singleton
<1>11. a \notin EmptyButFor(2) /\ i # a
  <2> HIDE DEF Above
  <2> QED
    BY <1>1, <1>2, <1>10
<1>12. i < a
  BY <1>0, <1>1, <1>7, <1>8, <1>11
<1> QED
  BY <1>3, <1>6, <1>9, <1>11, <1>12


-----------------------------------------------------------------------------

Clean == faults \cap {"overlap", "copied"} = {}

Numbered(es) ==
  \A d, e \in DOMAIN es : d # e /\ es[d].id = es[e].id => es[d].sequenceNumber # es[e].sequenceNumber

(* The objects of a call agree with their rows, and are of two sessions.  A call that is
   going to save a session as the last one does nothing else than to create the session
   for the past event before, and to add events: the row saved is stale right after, and
   the session created, if it could be, is then the newest row but for the copy. *)
ObjectsFit(w, rs) ==
  /\ w.cur # NoSession => Agrees(w.cur, rs)
  /\ w.new # NoSession => Agrees(w.new, rs)
  /\ w.cur # NoSession /\ w.new # NoSession => w.cur.id # w.new.id

PlanFits(w, rs) ==
  \A k \in DOMAIN w.todo : w.todo[k].op = "saveAsLast" =>
    /\ w.cur # NoSession
    /\ \A j \in DOMAIN w.todo : j # k => w.todo[j].op \in {"create", "add", "mark"}
    /\ \A j \in DOMAIN w.todo : w.todo[j].op = "create" => j = 1
    /\ w.todo[1].op = "create" \/ w.new = NoSession \/ w.new.oid = Len(rs)

Alone(t) == \A u \in Threads \ {t} : IsIdle(u)

Sound ==
  Clean =>
    /\ RowsFit(rows, lastSessionID)
    /\ EventsFit(events, rows)
    /\ Numbered(events)
    /\ \A t \in Threads : IsIdle(t) \/ Alone(t)
    /\ \A t \in Threads : ObjectsFit(work[t], rows) /\ PlanFits(work[t], rows)

LEMMA NoWorkIsSound ==
  ASSUME NEW rs
  PROVE  ObjectsFit(NoWork, rs) /\ PlanFits(NoWork, rs)
BY DEF ObjectsFit, PlanFits, NoWork

LEMMA PlanHasNoSave ==
  ASSUME NEW q, IsPlan(q), NEW c, NEW n, NEW rs
  PROVE  PlanFits(GoneOn(q, c, n), rs)
BY DEF PlanFits, IsPlan, GoneOn, NoWork

LEMMA PlanHasOneSave ==
  ASSUME NEW w, NEW rs, PlanFits(w, rs), w.todo \in Seq(Steps), w.todo # <<>>,
         w.todo[1].op \notin {"create", "add", "mark"}
  PROVE  /\ IsPlan(Tail(w.todo))
         /\ \A x \in Steps : x.op # "saveAsLast" => IsPlan(<<x>> \o Tail(w.todo))
<1> DEFINE q == w.todo
<1>1. q \in Seq(Steps) /\ q # <<>> /\ 1 \in DOMAIN q
  OBVIOUS
<1>2. \A k \in DOMAIN q : q[k].op = "saveAsLast" => k = 1
  BY <1>1 DEF PlanFits
<1> HIDE DEF q
<1>3. Tail(q) \in Seq(Steps) /\ \A k \in DOMAIN Tail(q) : k + 1 \in DOMAIN q /\ k \in Nat /\ k > 0 /\ Tail(q)[k] = q[k + 1]
  BY <1>1, HeadTailProperties
<1>4. IsPlan(Tail(q))
  BY <1>2, <1>3 DEF IsPlan
<1>5. \A x \in Steps : x.op # "saveAsLast" => IsPlan(<<x>>)
  BY DEF IsPlan
<1> QED
  BY <1>4, <1>5, ConcatIsPlan DEF q

LEMMA PlanCreates ==
  ASSUME NEW w, NEW rs, PlanFits(w, rs), w.todo \in Seq(Steps), w.todo # <<>>,
         w.todo[1].op = "create", NEW new, NEW rs2, new = NoSession \/ new.oid = Len(rs2)
  PROVE  PlanFits(GoneOn(Tail(w.todo), w.cur, new), rs2)
<1> DEFINE q == w.todo
           r == Tail(q)
<1>1. q \in Seq(Steps) /\ q # <<>> /\ 1 \in DOMAIN q
  OBVIOUS
<1>2. r \in Seq(Steps) /\ \A k \in DOMAIN r : k + 1 \in DOMAIN q /\ k \in Nat /\ k > 0 /\ r[k] = q[k + 1]
  <2> HIDE DEF q
  <2> QED
    BY <1>1, HeadTailProperties
<1>3. \A k \in DOMAIN q : q[k].op = "saveAsLast" =>
        /\ w.cur # NoSession
        /\ \A j \in DOMAIN q : j # k => q[j].op \in {"create", "add", "mark"}
        /\ \A j \in DOMAIN q : q[j].op = "create" => j = 1
  BY DEF PlanFits
<1> DEFINE v == GoneOn(r, w.cur, new)
<1>4. v.todo = r /\ (r # <<>> => v.cur = w.cur /\ v.new = new)
  BY DEF GoneOn, NoWork
<1> HIDE DEF q, r, v
<1>5. ASSUME NEW k \in DOMAIN r, r[k].op = "saveAsLast"
      PROVE  /\ w.cur # NoSession
             /\ \A j \in DOMAIN r : j # k => r[j].op \in {"create", "add", "mark"}
             /\ \A j \in DOMAIN r : r[j].op # "create"
             /\ r # <<>>
  <2>1. q[k + 1].op = "saveAsLast" /\ k + 1 \in DOMAIN q
    BY <1>2, <1>5
  <2>2. \A j \in DOMAIN r : j # k => r[j].op \in {"create", "add", "mark"}
    BY <1>2, <1>3, <2>1
  <2>3. \A j \in DOMAIN r : r[j].op # "create"
    BY <1>2, <1>3, <2>1
  <2> QED
    BY <1>2, <1>3, <1>5, <2>1, <2>2, <2>3
<1>6. PlanFits(v, rs2)
  BY <1>4, <1>5 DEF PlanFits
<1> QED
  BY <1>6 DEF v, r, q

\* A step that adds an event or marks one: its follow-up comes in its place, or nothing does.
LEMMA PlanGoesOn ==
  ASSUME NEW w, NEW rs, PlanFits(w, rs), w.todo \in Seq(Steps), w.todo # <<>>,
         w.todo[1].op \in {"add", "mark"},
         NEW r \in Seq(Steps), Len(r) <= Len(w.todo),
         \/ r = Tail(w.todo)
         \/ \E x \in Steps : x.op \in {"add", "mark"} /\ r = <<x>> \o Tail(w.todo),
         NEW cur, w.cur # NoSession => cur # NoSession,
         NEW new, w.new = NoSession => new = NoSession, new.oid = w.new.oid,
         NEW rs2, Len(rs2) = Len(rs)
  PROVE  PlanFits(GoneOn(r, cur, new), rs2)
<1> DEFINE q == w.todo
<1>1. q \in Seq(Steps) /\ q # <<>> /\ 1 \in DOMAIN q /\ q[1].op \in {"add", "mark"}
  OBVIOUS
<1>3. \A k \in DOMAIN q : q[k].op = "saveAsLast" =>
        /\ w.cur # NoSession
        /\ \A j \in DOMAIN q : j # k => q[j].op \in {"create", "add", "mark"}
        /\ \A j \in DOMAIN q : q[j].op = "create" => j = 1
        /\ q[1].op = "create" \/ w.new = NoSession \/ w.new.oid = Len(rs)
  BY DEF PlanFits
<1> DEFINE v == GoneOn(r, cur, new)
<1>4. v.todo = r /\ (r # <<>> => v.cur = cur /\ v.new = new)
  BY DEF GoneOn, NoWork
<1>2. \E d \in {0, 1} : \A k \in DOMAIN r :
        r[k].op \in {"add", "mark"} \/ (k + d \in DOMAIN q /\ k + d # 1 /\ r[k] = q[k + d] /\ k \in Nat)
  <2>1. CASE r = Tail(q)
    <3> HIDE DEF q
    <3>1. \A k \in DOMAIN r : k + 1 \in DOMAIN q /\ k \in Nat /\ k > 0 /\ r[k] = q[k + 1]
      BY <1>1, <2>1, HeadTailProperties
    <3> QED
      BY <3>1
  <2>2. CASE \E x \in Steps : x.op \in {"add", "mark"} /\ r = <<x>> \o Tail(q)
    <3>1. PICK x \in Steps : x.op \in {"add", "mark"} /\ r = <<x>> \o Tail(q)
      BY <2>2
    <3> DEFINE z == Tail(q)
    <3> HIDE DEF q
    <3>2. z \in Seq(Steps) /\ \A k \in DOMAIN z : k + 1 \in DOMAIN q /\ k \in Nat /\ k > 0 /\ z[k] = q[k + 1]
      BY <1>1, HeadTailProperties
    <3>3. r = <<x>> \o z
      BY <3>1
    <3> HIDE DEF z
    <3>4. DOMAIN r = 1..(Len(z) + 1) /\ r[1] = x /\ \A k \in 2..(Len(z) + 1) : k - 1 \in DOMAIN z /\ r[k] = z[k - 1]
      BY <3>2, <3>3, InFront
    <3>5. ASSUME NEW k \in DOMAIN r, k # 1 PROVE k + 0 \in DOMAIN q /\ k + 0 # 1 /\ r[k] = q[k + 0] /\ k \in Nat
      <4>1. k \in 2..(Len(z) + 1)
        BY <3>2, <3>4, <3>5
      <4>2. k - 1 \in DOMAIN z /\ r[k] = z[k - 1]
        BY <3>4, <4>1
      <4>3. r[k] = q[(k - 1) + 1] /\ (k - 1) + 1 \in DOMAIN q
        BY <3>2, <4>2
      <4>4. (k - 1) + 1 = k /\ k + 0 = k /\ k \in Nat
        BY <4>1
      <4> QED
        BY <4>3, <4>4, <3>5
    <3>6. \A k \in DOMAIN r :
            r[k].op \in {"add", "mark"} \/ (k + 0 \in DOMAIN q /\ k + 0 # 1 /\ r[k] = q[k + 0] /\ k \in Nat)
      BY <3>1, <3>4, <3>5
    <3> QED
      BY <3>6
  <2> QED
    BY <2>1, <2>2
<1> HIDE DEF q, v
<1>5. ASSUME NEW k \in DOMAIN r, r[k].op = "saveAsLast"
      PROVE  /\ cur # NoSession
             /\ \A j \in DOMAIN r : j # k => r[j].op \in {"create", "add", "mark"}
             /\ \A j \in DOMAIN r : r[j].op # "create"
             /\ new = NoSession \/ new.oid = Len(rs2)
             /\ r # <<>>
  <2>1. PICK d \in {0, 1} : \A j \in DOMAIN r :
          r[j].op \in {"add", "mark"} \/ (j + d \in DOMAIN q /\ j + d # 1 /\ r[j] = q[j + d] /\ j \in Nat)
    BY <1>2
  <2>2. k + d \in DOMAIN q /\ q[k + d].op = "saveAsLast" /\ k \in Nat
    BY <1>5, <2>1
  <2>3. /\ w.cur # NoSession
        /\ \A j \in DOMAIN q : j # k + d => q[j].op \in {"create", "add", "mark"}
        /\ \A j \in DOMAIN q : q[j].op = "create" => j = 1
        /\ q[1].op = "create" \/ w.new = NoSession \/ w.new.oid = Len(rs)
    BY <1>3, <2>2
  <2>4. \A j \in DOMAIN r : r[j].op # "create"
    BY <2>1, <2>3
  <2>5. ASSUME NEW j \in DOMAIN r, j # k PROVE r[j].op \in {"create", "add", "mark"}
    BY <2>1, <2>2, <2>3, <2>5
  <2>6. new = NoSession \/ new.oid = Len(rs2)
    BY <1>1, <2>3
  <2> QED
    BY <1>5, <2>3, <2>4, <2>5, <2>6
<1>6. PlanFits(v, rs2)
  BY <1>4, <1>5 DEF PlanFits
<1> QED
  BY <1>6 DEF v


-----------------------------------------------------------------------------

\* Objects that were just read agree with their rows.
LEMMA LastAgrees ==
  ASSUME rows \in Seq(Row), NEW n, RowsFit(rows, n), LastSession # NoSession
  PROVE  /\ Agrees(LastSession, rows)
         /\ LastSession.oid = Len(rows)
         /\ \A i \in DOMAIN rows : i <= LastSession.oid
<1>1. Kept \subseteq DOMAIN rows /\ DOMAIN rows = 1..Len(rows) /\ Len(rows) \in Nat
  BY DEF Kept
<1>2. Kept # {} /\ LastSession.oid \in Kept /\ (\A k \in Kept : k <= LastSession.oid)
      /\ LastSession = [oid |-> LastSession.oid, id |-> rows[LastSession.oid].id,
                        type |-> rows[LastSession.oid].type,
                        finished |-> rows[LastSession.oid].finished,
                        eventSeq |-> rows[LastSession.oid].eventSeq]
  BY <1>1, NewestIsOne DEF LastSession
<1>3. Len(rows) \in DOMAIN rows /\ rows # <<>>
  BY <1>1, <1>2
<1>4. Len(rows) \in Kept
  BY <1>3 DEF RowsFit, Kept
<1>5. LastSession.oid = Len(rows)
  BY <1>1, <1>2, <1>4
<1>6. ~IsStale(Len(rows), rows)
  BY <1>1 DEF IsStale
<1>7. /\ LastSession.id = rows[LastSession.oid].id
      /\ LastSession.type = rows[LastSession.oid].type
      /\ LastSession.finished = rows[LastSession.oid].finished
      /\ LastSession.eventSeq = rows[LastSession.oid].eventSeq
  BY <1>2
<1> QED
  BY <1>1, <1>3, <1>5, <1>6, <1>7 DEF Agrees

LEMMA GeneralAgrees ==
  ASSUME rows \in Seq(Row), NEW n, RowsFit(rows, n), ~LastGeneralSession.finished
  PROVE  Agrees(LastGeneralSession, rows)
<1> DEFINE S == {i \in Kept : rows[i].type = "General"}
           s == LastGeneralSession
<1>1. S \subseteq DOMAIN rows
  BY DEF Kept
<1>2. s = Newest(S)
  BY DEF LastGeneralSession
<1>3. S # {}
  BY <1>1, <1>2, NewestIsOne DEF NoSession
<1>4. s.oid \in S /\ s = [oid |-> s.oid, id |-> rows[s.oid].id, type |-> rows[s.oid].type,
                          finished |-> rows[s.oid].finished, eventSeq |-> rows[s.oid].eventSeq]
  <2> HIDE DEF S, s
  <2> QED
    BY <1>1, <1>2, <1>3, NewestIsOne
<1>5. s.oid \in DOMAIN rows /\ s.id = rows[s.oid].id /\ s.type = rows[s.oid].type
      /\ s.finished = rows[s.oid].finished /\ s.eventSeq = rows[s.oid].eventSeq
  <2> HIDE DEF s
  <2> QED
    BY <1>1, <1>4
<1>6. ~IsStale(s.oid, rows)
  BY <1>5 DEF RowsFit
<1> QED
  BY <1>5, <1>6 DEF Agrees

LEMMA PreviousAgrees ==
  ASSUME rows \in Seq(Row), NEW n, RowsFit(rows, n), NEW last, last \in {LastSession, NoSession},
         PreviousSession(last) # NoSession
  PROVE  /\ Agrees(PreviousSession(last), rows)
         /\ last = LastSession /\ PreviousSession(last).oid \in Kept
         /\ \A a, b \in Kept : PreviousSession(last).oid < a /\ PreviousSession(last).oid < b => a = b
<1> DEFINE S == {i \in Kept : i < last.oid}
           s == PreviousSession(last)
<1>1. S \subseteq DOMAIN rows /\ Kept \subseteq DOMAIN rows /\ DOMAIN rows \subseteq Nat /\ \A i \in DOMAIN rows : i > 0
  BY DEF Kept
<1>2. s = Newest(S)
  BY DEF PreviousSession
<1>3. S # {}
  BY <1>1, <1>2, NewestIsOne
<1>4. last = LastSession /\ last # NoSession
  <2>1. NoSession.oid = 0
    BY DEF NoSession
  <2> QED
    BY <1>1, <1>3, <2>1
<1>5. s.oid \in S /\ (\A k \in S : k <= s.oid)
      /\ s = [oid |-> s.oid, id |-> rows[s.oid].id, type |-> rows[s.oid].type,
              finished |-> rows[s.oid].finished, eventSeq |-> rows[s.oid].eventSeq]
  <2> HIDE DEF S, s
  <2> QED
    BY <1>1, <1>2, <1>3, NewestIsOne
<1>6. s.oid \in Kept /\ s.oid \in DOMAIN rows /\ s.id = rows[s.oid].id /\ s.type = rows[s.oid].type
      /\ s.finished = rows[s.oid].finished /\ s.eventSeq = rows[s.oid].eventSeq
  <2> HIDE DEF s
  <2> QED
    BY <1>1, <1>5
<1>7. \A i \in DOMAIN rows : i <= last.oid
  BY <1>4, LastAgrees
<1>8. \A a \in Kept : s.oid < a => a = last.oid
  <2> SUFFICES ASSUME NEW a \in Kept, s.oid < a, a # last.oid PROVE FALSE
    OBVIOUS
  <2>1. a <= last.oid /\ a \in Nat /\ last.oid = Len(rows)
    BY <1>1, <1>4, <1>7, LastAgrees
  <2>2. a \in S
    BY <2>1
  <2>3. a <= s.oid /\ s.oid \in Nat
    BY <1>1, <1>5, <2>2
  <2> HIDE DEF s
  <2> QED
    BY <2>1, <2>3
<1>9. \A a, b \in Kept : s.oid < a /\ s.oid < b => a = b
  BY <1>8
<1>10. ~TwoAbove(s.oid, rows)
  <2> SUFFICES ASSUME NEW a \in DOMAIN rows, NEW b \in DOMAIN rows, s.oid < a, a < b,
                      ~rows[a].deleted, ~rows[b].deleted
               PROVE  FALSE
    BY DEF TwoAbove
  <2>1. a \in Kept /\ b \in Kept /\ a \in Nat /\ b \in Nat /\ s.oid \in Nat
    BY <1>1, <1>6 DEF Kept
  <2> HIDE DEF s
  <2>2. s.oid < b
    BY <2>1
  <2> QED
    BY <1>9, <2>1, <2>2
<1>11. ~IsStale(s.oid, rows)
  BY <1>6, <1>10 DEF RowsFit
<1> HIDE DEF s
<1>12. Agrees(s, rows)
  BY <1>6, <1>11 DEF Agrees
<1> QED
  BY <1>4, <1>6, <1>9, <1>12 DEF s

\* A fault is not forgotten: a step that leads to a clean state begins in one.
LEMMA FaultsStay ==
  ASSUME Typed, Next
  PROVE  faults \subseteq faults'
<1>1. ASSUME NEW t \in Threads, Perform(t) PROVE faults \subseteq faults'
  BY <1>1 DEF Perform, EndSession, NewSession, SaveSessionAsLastSession, AddEvent, MarkEventSent,
              AddToNewOrReport, Failing, Begin
<1>2. ASSUME \/ Setup \/ ReportFirstEventIfNeeded \/ ResumeSession \/ PauseSession
             \/ ReportEvent \/ ReportReattribution \/ ReportEventToPastSession
      PROVE  faults \subseteq faults'
  BY <1>2 DEF Setup, ReportFirstEventIfNeeded, ResumeSession, PauseSession,
     ReportEvent, ReportReattribution, ReportEventToPastSession, Begin
<1>3. ASSUME PurgeEvents \/ PurgeEmptySessions \/ Die PROVE faults \subseteq faults'
  BY <1>3 DEF PurgeEvents, PurgeEmptySessions, Die, Failing
<1> QED
  BY <1>1, <1>2, <1>3 DEF Next

\* A thread alone at work leaves everything sound if it does so with its rows and objects.
LEMMA AloneIsSound ==
  ASSUME Typed, NEW t \in Threads, Alone(t), \A u \in Threads \ {t} : work'[u] = work[u],
         Clean' => /\ RowsFit(rows', lastSessionID') /\ EventsFit(events', rows') /\ Numbered(events')
                   /\ ObjectsFit(work'[t], rows') /\ PlanFits(work'[t], rows')
  PROVE  Sound'
<1> SUFFICES ASSUME Clean'
    PROVE  /\ \A u \in Threads : IsIdle(u)' \/ Alone(u)'
           /\ \A u \in Threads : ObjectsFit(work'[u], rows') /\ PlanFits(work'[u], rows')
  BY DEF Sound
<1>1. \A u \in Threads \ {t} : work'[u] = NoWork
  BY DEF Typed, WorkFits, Alone, IsIdle
<1>2. \A u \in Threads \ {t} : IsIdle(u)'
  BY <1>1 DEF IsIdle, NoWork
<1> QED
  BY <1>1, <1>2, NoWorkIsSound DEF Alone

LEMMA CallIsSound ==
  ASSUME Typed, Sound, Clean' => Clean, NEW t \in Threads, NEW todo \in Seq(Steps), NEW s, NEW meant,
         Referable(s, rows), Begin(t, todo, s, meant), UNCHANGED stored,
         Clean /\ RowsFit(rows, lastSessionID) /\ todo # <<>> /\ s # NoSession => Agrees(s, rows),
         PlanFits(GoneOn(todo, s, NoSession), rows)
  PROVE  Sound'
<1> SUFFICES ASSUME Clean' PROVE Sound'
  BY DEF Sound
<1>0. UNCHANGED <<rows, events, lastSessionID>> /\ Clean
  BY DEF stored
<1>1. Alone(t)
  BY DEF Begin, Clean, Alone
<1>2. work'[t] = GoneOn(todo, s, NoSession) /\ \A u \in Threads \ {t} : work'[u] = work[u]
  BY <1>0, CallBegins
<1>3. RowsFit(rows, lastSessionID) /\ EventsFit(events, rows) /\ Numbered(events)
  BY <1>0 DEF Sound
<1>4. ObjectsFit(GoneOn(todo, s, NoSession), rows)
  BY <1>0, <1>3, NoWorkIsSound DEF GoneOn, ObjectsFit
<1> QED
  BY <1>0, <1>1, <1>2, <1>3, <1>4, AloneIsSound


\* The call for a past session, whose plan saves the last session again.
LEMMA ConcatShort ==
  ASSUME NEW a \in Steps, NEW b \in Steps, NEW c \in Steps, NEW d \in Steps
  PROVE  /\ <<a, b>> \o <<>> \o <<d>> = <<a, b, d>>
         /\ <<a, b>> \o <<c>> \o <<d>> = <<a, b, c, d>>
<1>1. <<a, b>> \o <<>> = <<a, b>>
  BY ConcatEmptySeq
<1>2. <<a, b>> \o <<d>> = <<a, b, d>>
  <2> DEFINE p == <<a, b>> \o <<d>>
             q == <<a, b, d>>
  <2>1. p \in Seq(Steps) /\ q \in Seq(Steps) /\ Len(p) = 3 /\ Len(q) = 3
        /\ p[1] = a /\ p[2] = b /\ p[3] = d /\ q[1] = a /\ q[2] = b /\ q[3] = d
    OBVIOUS
  <2> HIDE DEF p, q
  <2>2. \A i \in 1..3 : p[i] = q[i]
    BY <2>1
  <2>3. p = q
    BY <2>1, <2>2, SeqEqual
  <2> QED
    BY <2>3 DEF p, q
<1>3. <<a, b>> \o <<c>> \o <<d>> = <<a, b, c, d>>
  <2> DEFINE p == <<a, b>> \o <<c>> \o <<d>>
             q == <<a, b, c, d>>
  <2>1. p \in Seq(Steps) /\ q \in Seq(Steps) /\ Len(p) = 4 /\ Len(q) = 4
        /\ p[1] = a /\ p[2] = b /\ p[3] = c /\ p[4] = d /\ q[1] = a /\ q[2] = b /\ q[3] = c /\ q[4] = d
    OBVIOUS
  <2> HIDE DEF p, q
  <2>2. \A i \in 1..4 : p[i] = q[i]
    BY <2>1
  <2>3. p = q
    BY <2>1, <2>2, SeqEqual
  <2> QED
    BY <2>3 DEF p, q
<1> QED
  BY <1>1, <1>2, <1>3

LEMMA NewPastSessionPlan ==
  ASSUME NEW s, NEW rs
  PROVE  /\ NewPastSessionSteps(s) \in Seq(Steps)
         /\ s.finished \/ s # NoSession => PlanFits(GoneOn(NewPastSessionSteps(s), s, NoSession), rs)
         /\ s.finished => IsPlan(NewPastSessionSteps(s))
<1>0. Create("Finished") \in Steps /\ Add("start", "new") \in Steps /\ SaveAsLast \in Steps /\ Add("past", "new") \in Steps
  BY StepsTypes DEF Kinds
<1>1. CASE s.finished
  <2>1. NewPastSessionSteps(s) = <<Create("Finished"), Add("start", "new"), Add("past", "new")>>
    BY <1>0, <1>1, ConcatShort DEF NewPastSessionSteps, Started
  <2>2. IsPlan(NewPastSessionSteps(s))
    BY <1>0, <2>1 DEF IsPlan, Create, Add
  <2> QED
    BY <2>2, PlanHasNoSave DEF IsPlan
<1>2. CASE ~s.finished
  <2> DEFINE q == <<Create("Finished"), Add("start", "new"), SaveAsLast, Add("past", "new")>>
  <2>1. NewPastSessionSteps(s) = q
    BY <1>0, <1>2, ConcatShort DEF NewPastSessionSteps, Started
  <2>2. q \in Seq(Steps) /\ q # <<>>
    BY <1>0
  <2>3. s # NoSession => PlanFits([todo |-> q, cur |-> s, new |-> NoSession], rs)
    BY DEF PlanFits, Create, Add, SaveAsLast
  <2> HIDE DEF q
  <2> QED
    BY <1>2, <2>1, <2>2, <2>3 DEF GoneOn
<1> QED
  BY <1>1, <1>2

LEMMA CallsSound ==
  ASSUME Typed, Sound, Clean' => Clean,
         \/ Setup \/ ReportFirstEventIfNeeded \/ ResumeSession \/ PauseSession
         \/ ReportEvent \/ ReportReattribution \/ ReportEventToPastSession
  PROVE  Sound'
<1>0. "executor" \in Threads /\ "caller" \in Threads /\ rows \in Seq(Row)
  BY DEF Typed, TypeOK, Threads
<1>1. UNCHANGED stored
  BY DEF Setup, ReportFirstEventIfNeeded, ResumeSession, PauseSession, Call,
         ReportEvent, ReportReattribution, ReportEventToPastSession
<1>2. \A s \in Reading(LastSession) :
        Referable(s, rows) /\ (RowsFit(rows, lastSessionID) /\ s # NoSession => Agrees(s, rows))
  BY <1>0, SessionsRead, LastAgrees DEF Reading
<1>3. ASSUME NEW t \in Threads, NEW s \in Reading(LastSession), NEW todo, IsPlan(todo),
             Begin(t, todo, s, LastSession)
      PROVE  Sound'
  BY <1>1, <1>2, <1>3, PlanHasNoSave, CallIsSound DEF IsPlan
<1>4. ASSUME Setup PROVE Sound'
  BY <1>0, <1>3, <1>4, BuildersArePlans DEF Setup
<1>5. ASSUME ReportFirstEventIfNeeded PROVE Sound'
  <2>1. CASE sent["first"]
    <3>1. UNCHANGED <<rows, events, lastSessionID, work, faults>>
      BY <1>1, <1>5, <2>1 DEF ReportFirstEventIfNeeded, stored
    <3> QED
      BY <3>1 DEF Sound, Clean, Alone, IsIdle
  <2>2. CASE ~sent["first"]
    BY <1>0, <1>3, <1>5, <2>2, BuildersArePlans DEF ReportFirstEventIfNeeded
  <2> QED
    BY <2>1, <2>2
<1>6. ASSUME ResumeSession PROVE Sound'
  BY <1>0, <1>3, <1>6, BuildersArePlans DEF ResumeSession
<1>7. ASSUME ReportEvent PROVE Sound'
  BY <1>0, <1>3, <1>7, BuildersArePlans DEF ReportEvent
<1>8. ASSUME ReportReattribution PROVE Sound'
  BY <1>0, <1>3, <1>8, BuildersArePlans DEF ReportReattribution
<1>9. ASSUME PauseSession PROVE Sound'
  <2>1. PICK s \in Reading(LastGeneralSession), x \in {"Invalid", "None", "Timeout", "Limit"} :
          Begin("executor", PauseSteps(s, x), s, LastGeneralSession)
    BY <1>9 DEF PauseSession, Expirations
  <2>2. Referable(s, rows) /\ IsPlan(PauseSteps(s, x)) /\ PauseSteps(s, x) \in Seq(Steps)
    BY <1>0, SessionsRead, BuildersArePlans DEF IsPlan
  <2>3. PauseSteps(s, x) # <<>> => ~s.finished
    BY DEF PauseSteps, EnsureEnded
  <2>4. RowsFit(rows, lastSessionID) /\ PauseSteps(s, x) # <<>> /\ s # NoSession => Agrees(s, rows)
    BY <1>0, <2>3, GeneralAgrees DEF Reading
  <2>5. PlanFits(GoneOn(PauseSteps(s, x), s, NoSession), rows)
    BY <2>2, PlanHasNoSave
  <2> QED
    BY <1>0, <1>1, <2>1, <2>2, <2>4, <2>5, CallIsSound
<1>10. ASSUME ReportEventToPastSession PROVE Sound'
  <2>4. PICK last \in Reading(LastSession) : \E prev \in Reading(PreviousSession(last)) :
       \/ Begin("caller", <<Add("past", "cur")>>, last, LastSession)
       \/ prev # NoSession /\ Begin("caller", <<Add("past", "cur")>>, prev, PreviousSession(LastSession))
       \/ Begin("caller", NewPastSessionSteps(last), last, LastSession)
    BY <1>10 DEF ReportEventToPastSession
  <2>5. PICK prev \in Reading(PreviousSession(last)) :
       \/ Begin("caller", <<Add("past", "cur")>>, last, LastSession)
       \/ prev # NoSession /\ Begin("caller", <<Add("past", "cur")>>, prev, PreviousSession(LastSession))
       \/ Begin("caller", NewPastSessionSteps(last), last, LastSession)
    BY <2>4
  <2>6. IsPlan(<<Add("past", "cur")>>)
    BY BuildersArePlans
  <2>7. CASE Begin("caller", <<Add("past", "cur")>>, last, LastSession)
    BY <1>0, <1>3, <2>6, <2>7
  <2>8. CASE prev # NoSession /\ Begin("caller", <<Add("past", "cur")>>, prev, PreviousSession(LastSession))
    <3>1. prev = PreviousSession(last) /\ last \in {LastSession, NoSession}
      BY <2>8 DEF Reading
    <3>2. RowsFit(rows, lastSessionID) => Agrees(prev, rows)
      BY <1>0, <2>8, <3>1, PreviousAgrees
    <3>3. Referable(prev, rows)
      BY <1>0, SessionsRead
    <3>4. <<Add("past", "cur")>> \in Seq(Steps)
      BY <2>6 DEF IsPlan
    <3>5. PlanFits(GoneOn(<<Add("past", "cur")>>, prev, NoSession), rows)
      BY <2>6, PlanHasNoSave
    <3> DEFINE todo == <<Add("past", "cur")>>
    <3> HIDE DEF todo
    <3>6. Begin("caller", todo, prev, PreviousSession(LastSession)) /\ todo \in Seq(Steps)
          /\ PlanFits(GoneOn(todo, prev, NoSession), rows)
      BY <2>8, <3>4, <3>5 DEF todo
    <3> QED
      BY <1>0, <1>1, <3>2, <3>3, <3>6, CallIsSound
  <2>9. CASE Begin("caller", NewPastSessionSteps(last), last, LastSession)
    <3>1. NoSession.finished = TRUE
      BY DEF NoSession
    <3>2. PlanFits(GoneOn(NewPastSessionSteps(last), last, NoSession), rows)
          /\ NewPastSessionSteps(last) \in Seq(Steps)
      BY <3>1, NewPastSessionPlan
    <3> QED
      BY <1>0, <1>1, <1>2, <2>9, <3>2, CallIsSound
  <2> QED
    BY <2>5, <2>7, <2>8, <2>9
<1> QED
  BY <1>4, <1>5, <1>6, <1>7, <1>8, <1>9, <1>10


-----------------------------------------------------------------------------

\* What is known when a thread takes a step.
LEMMA StepContext ==
  ASSUME Typed, Sound, Clean, NEW t \in Threads, NEW op, IsNext(t, op)
  PROVE  /\ Alone(t)
         /\ rows \in Seq(Row) /\ events \in Seq(Event) /\ lastSessionID \in Nat
         /\ RowsFit(rows, lastSessionID) /\ EventsFit(events, rows) /\ Numbered(events)
         /\ ObjectsFit(work[t], rows) /\ PlanFits(work[t], rows)
         /\ work[t].todo = Todo(t) /\ work[t].todo \in Seq(Steps) /\ work[t].todo # <<>>
         /\ work[t].todo[1] \in Steps /\ work[t].todo[1].op = op /\ Head(Todo(t)) = work[t].todo[1]
         /\ Rest(t) = Tail(work[t].todo) /\ Rest(t) \in Seq(Steps)
         /\ Referable(work[t].cur, rows) /\ Referable(work[t].new, rows)
<1>1. Todo(t) \in Seq(Steps) /\ Todo(t) # <<>>
      /\ Head(Todo(t)) = Todo(t)[1] /\ Head(Todo(t)) \in Steps /\ Head(Todo(t)).op = op
      /\ Rest(t) \in Seq(Steps)
      /\ Referable(work[t].cur, rows) /\ Referable(work[t].new, rows)
  BY NextStep
<1>2. ~IsIdle(t)
  BY DEF IsNext
<1>3. RowsFit(rows, lastSessionID) /\ EventsFit(events, rows) /\ Numbered(events)
      /\ ObjectsFit(work[t], rows) /\ PlanFits(work[t], rows) /\ Alone(t)
  BY <1>2 DEF Sound
<1>4. rows \in Seq(Row) /\ events \in Seq(Event) /\ lastSessionID \in Nat
  BY DEF Typed, TypeOK
<1> QED
  BY <1>1, <1>3, <1>4 DEF Todo, Rest

\* Two objects of one thread are of different rows.
LEMMA DifferentRows ==
  ASSUME NEW w, NEW rs, ObjectsFit(w, rs), w.cur # NoSession, w.new # NoSession
  PROVE  w.cur.oid # w.new.oid
BY DEF ObjectsFit, Agrees

LEMMA GoneOnObjects ==
  ASSUME NEW todo, NEW cur, NEW new, NEW rs, ObjectsFit([cur |-> cur, new |-> new], rs)
  PROVE  ObjectsFit(GoneOn(todo, cur, new), rs)
<1>1. CASE todo = <<>>
  BY <1>1, NoWorkIsSound DEF GoneOn
<1>2. CASE todo # <<>>
  BY <1>2 DEF GoneOn, ObjectsFit
<1> QED
  BY <1>1, <1>2

LEMMA EndSessionSound ==
  ASSUME Typed, Sound, Typed', Clean' => Clean, NEW t \in Threads, EndSession(t)
  PROVE  Sound'
<1> SUFFICES ASSUME Clean, Clean' PROVE Sound'
  BY DEF Sound
<1> DEFINE w == work[t]
           s == w.cur
<1>1. IsNext(t, "end")
  BY DEF EndSession
<1>2. /\ Alone(t)
      /\ rows \in Seq(Row) /\ events \in Seq(Event) /\ lastSessionID \in Nat
      /\ RowsFit(rows, lastSessionID) /\ EventsFit(events, rows) /\ Numbered(events)
      /\ ObjectsFit(w, rows) /\ PlanFits(w, rows)
      /\ w.todo = Todo(t) /\ w.todo \in Seq(Steps) /\ w.todo # <<>>
      /\ w.todo[1] \in Steps /\ w.todo[1].op = "end" /\ Head(Todo(t)) = w.todo[1]
      /\ Rest(t) = Tail(w.todo) /\ Rest(t) \in Seq(Steps)
      /\ Referable(w.cur, rows) /\ Referable(w.new, rows)
  BY <1>1, StepContext
<1>3. Head(Todo(t)).on = "cur" /\ Target(t) = s
  BY <1>2 DEF Steps, Target
<1>4. UNCHANGED <<events, lastSessionID>>
  BY DEF EndSession
<1>5. IsPlan(Rest(t)) /\ IsPlan(<<Add("alive", "cur")>> \o Rest(t))
  <2>1. Add("alive", "cur") \in Steps /\ Add("alive", "cur").op = "add"
    BY StepsTypes DEF Kinds, Add
  <2> QED
    BY <1>2, <2>1, PlanHasOneSave
<1> HIDE DEF w
<1>6. CASE /\ rows' = [rows EXCEPT ![s.oid].finished = TRUE]
           /\ GoOnWith(t, <<Add("alive", "cur")>> \o Rest(t), [s EXCEPT !.finished = TRUE])
  <2> DEFINE s2 == [s EXCEPT !.finished = TRUE]
             q  == <<Add("alive", "cur")>> \o Rest(t)
  <2>1. Alters(rows, rows', s.oid)
        /\ (s.oid \in DOMAIN rows => rows'[s.oid].finished /\ rows'[s.oid].eventSeq = rows[s.oid].eventSeq)
    BY <1>2, <1>6, FinishingAlters
  <2>2. s.oid \in DOMAIN rows => rows'[s.oid].eventSeq >= rows[s.oid].eventSeq
    BY <2>1 DEF Alters
  <2>3. RowsFit(rows', lastSessionID) /\ EventsFit(events, rows')
        /\ (\A x \in Object : Agrees(x, rows) /\ x.oid # s.oid => Agrees(x, rows'))
        /\ \A i \in DOMAIN rows : IsStale(i, rows') <=> IsStale(i, rows)
    BY <1>2, <2>1, <2>2, AlteredRows
  <2>4. s \in Object /\ w.new \in Object
    BY <1>2 DEF Referable
  <2>5. s2 \in Object /\ s2.oid = s.oid /\ s2.id = s.id /\ s2.type = s.type /\ s2.finished = TRUE
        /\ s2.eventSeq = s.eventSeq
    BY <2>4 DEF Object
  <2>6. s = NoSession => s2 = NoSession
    <3>1. s = NoSession => s2.finished = s.finished
      BY <2>5 DEF NoSession
    <3>2. s = NoSession => s2 = s
      BY <2>4, <2>5, <3>1 DEF Object
    <3> QED
      BY <3>2
  <2> HIDE DEF s2, q
  <2>7. s # NoSession => Agrees(s2, rows')
    <3> SUFFICES ASSUME s # NoSession PROVE Agrees(s2, rows')
      OBVIOUS
    <3>1. Agrees(s, rows)
      BY <1>2 DEF ObjectsFit
    <3> QED
      BY <2>1, <2>3, <2>5, <3>1 DEF Agrees, Alters
  <2>8. w.new # NoSession => Agrees(w.new, rows')
    <3> SUFFICES ASSUME w.new # NoSession PROVE Agrees(w.new, rows')
      OBVIOUS
    <3>1. Agrees(w.new, rows)
      BY <1>2 DEF ObjectsFit
    <3>2. w.new.oid # s.oid
      <4>1. CASE s = NoSession
        BY <1>2, <3>1, <4>1 DEF Agrees, NoSession
      <4>2. CASE s # NoSession
        BY <1>2, <4>2, DifferentRows
      <4> QED
        BY <4>1, <4>2
    <3> QED
      BY <2>3, <2>4, <3>1, <3>2
  <2>9. ObjectsFit([cur |-> s2, new |-> w.new], rows')
    BY <1>2, <2>5, <2>6, <2>7, <2>8 DEF ObjectsFit
  <2>10. q \in Seq(Steps) /\ Referable(s2, rows') /\ DOMAIN rows \subseteq DOMAIN rows'
    BY <1>2, <1>5, <2>1, <2>5, <2>6 DEF IsPlan, Referable, Alters, q
  <2>11. GoOnWith(t, q, s2)
    BY <1>6 DEF q, s2
  <2>12. work'[t] = GoneOn(q, s2, w.new) /\ \A u \in Threads \ {t} : work'[u] = work[u]
    BY <1>3, <2>10, <2>11, GoesOnWith DEF w
  <2>13. ObjectsFit(work'[t], rows')
    BY <2>9, <2>12, GoneOnObjects
  <2>14. PlanFits(work'[t], rows')
    BY <1>5, <2>12, PlanHasNoSave DEF q
  <2> QED
    BY <1>2, <1>4, <2>3, <2>12, <2>13, <2>14, AloneIsSound
<1>7. CASE GoOnWith(t, Rest(t), s) /\ UNCHANGED rows
  <2>1. work'[t] = GoneOn(Rest(t), s, w.new) /\ \A u \in Threads \ {t} : work'[u] = work[u]
    BY <1>2, <1>3, <1>7, GoesOnWith DEF w
  <2>2. ObjectsFit(work'[t], rows')
    <3>1. ObjectsFit([cur |-> s, new |-> w.new], rows')
      BY <1>2, <1>7 DEF ObjectsFit
    <3> QED
      BY <2>1, <3>1, GoneOnObjects
  <2>3. PlanFits(work'[t], rows')
    BY <1>5, <2>1, PlanHasNoSave
  <2> QED
    BY <1>2, <1>4, <1>7, <2>1, <2>2, <2>3, AloneIsSound
<1> QED
  BY <1>3, <1>6, <1>7 DEF EndSession

LEMMA NewSessionSound ==
  ASSUME Typed, Sound, Typed', Clean' => Clean, NEW t \in Threads, NewSession(t)
  PROVE  Sound'
<1> SUFFICES ASSUME Clean, Clean' PROVE Sound'
  BY DEF Sound
<1> DEFINE w    == work[t]
           what == Head(Todo(t)).what
           id   == lastSessionID + 1
           row  == [id |-> id, type |-> IF what = "General" THEN "General" ELSE "Background",
                    finished |-> what = "Finished", eventSeq |-> 0, deleted |-> FALSE]
           s    == [oid |-> Len(rows) + 1, id |-> id, type |-> row.type,
                    finished |-> row.finished, eventSeq |-> 0]
<1>1. IsNext(t, "create")
  BY DEF NewSession
<1>2. /\ Alone(t)
      /\ rows \in Seq(Row) /\ events \in Seq(Event) /\ lastSessionID \in Nat
      /\ RowsFit(rows, lastSessionID) /\ EventsFit(events, rows) /\ Numbered(events)
      /\ ObjectsFit(w, rows) /\ PlanFits(w, rows)
      /\ w.todo = Todo(t) /\ w.todo \in Seq(Steps) /\ w.todo # <<>>
      /\ w.todo[1] \in Steps /\ w.todo[1].op = "create" /\ Head(Todo(t)) = w.todo[1]
      /\ Rest(t) = Tail(w.todo) /\ Rest(t) \in Seq(Steps)
      /\ Referable(w.cur, rows) /\ Referable(w.new, rows)
  BY <1>1, StepContext
<1>3. Head(Todo(t)).on = "new"
  BY <1>2 DEF Steps
<1>4. UNCHANGED events
  BY DEF NewSession
<1> HIDE DEF w
<1>5. CASE /\ rows' = Append(rows, row)
           /\ lastSessionID' = id
           /\ GoOnWith(t, Rest(t), s)
  <2>1. row \in Row /\ row.id = lastSessionID + 1 /\ ~row.deleted /\ row.eventSeq = 0
    BY <1>2 DEF Row
  <2>2. s \in Object
    BY <1>2 DEF Object
  <2>3. s.oid = Len(rows) + 1 /\ s.id = row.id /\ s.type = row.type /\ s.finished = row.finished /\ s.eventSeq = 0
        /\ s.id = lastSessionID + 1
    OBVIOUS
  <2> HIDE DEF row, s
  <2>4. RowsFit(rows', lastSessionID') /\ EventsFit(events, rows')
        /\ (\A x \in Object : Agrees(x, rows) => Agrees(x, rows')) /\ ~IsStale(Len(rows) + 1, rows')
    BY <1>2, <1>5, <2>1, FreshRow
  <2>5. rows' \in Seq(Row) /\ Len(rows') = Len(rows) + 1 /\ DOMAIN rows' = DOMAIN rows \cup {Len(rows) + 1}
        /\ rows'[Len(rows) + 1] = row
    BY <1>2, <1>5, <2>1, AppendedRow
  <2>6. Agrees(s, rows')
    BY <2>1, <2>3, <2>4, <2>5 DEF Agrees
  <2>7. w.cur # NoSession => Agrees(w.cur, rows') /\ w.cur.id # s.id
    <3> SUFFICES ASSUME w.cur # NoSession PROVE Agrees(w.cur, rows') /\ w.cur.id # s.id
      OBVIOUS
    <3>1. Agrees(w.cur, rows) /\ w.cur \in Object
      BY <1>2 DEF ObjectsFit, Referable
    <3>2. w.cur.id \in 1..lastSessionID
      BY <1>2, <3>1 DEF Agrees, RowsFit
    <3> QED
      BY <1>2, <2>3, <2>4, <3>1, <3>2
  <2>8. Referable(s, rows') /\ DOMAIN rows \subseteq DOMAIN rows'
    BY <2>2, <2>3, <2>5 DEF Referable
  <2>9. work'[t] = GoneOn(Rest(t), w.cur, s) /\ \A u \in Threads \ {t} : work'[u] = work[u]
    BY <1>2, <1>3, <1>5, <2>8, GoesOnWith DEF w
  <2>10. ObjectsFit([cur |-> w.cur, new |-> s], rows')
    BY <2>6, <2>7 DEF ObjectsFit
  <2>11. ObjectsFit(work'[t], rows')
    BY <2>9, <2>10, GoneOnObjects
  <2>12. PlanFits(work'[t], rows')
    <3>1. s.oid = Len(rows')
      BY <2>3, <2>5
    <3>2. PlanFits(GoneOn(Tail(w.todo), w.cur, s), rows')
      BY <1>2, <3>1, PlanCreates
    <3> QED
      BY <1>2, <2>9, <3>2
  <2> QED
    BY <1>2, <1>4, <2>4, <2>9, <2>11, <2>12, AloneIsSound
<1>6. CASE GoOnWith(t, Rest(t), NoSession) /\ UNCHANGED <<rows, lastSessionID>>
  <2>1. Referable(NoSession, rows')
    BY DEF Referable, NoSession, Object
  <2>2. work'[t] = GoneOn(Rest(t), w.cur, NoSession) /\ \A u \in Threads \ {t} : work'[u] = work[u]
    BY <1>2, <1>3, <1>6, <2>1, GoesOnWith DEF w
  <2>3. ObjectsFit(work'[t], rows')
    <3>1. ObjectsFit([cur |-> w.cur, new |-> NoSession], rows')
      BY <1>2, <1>6 DEF ObjectsFit
    <3> QED
      BY <2>2, <3>1, GoneOnObjects
  <2>4. PlanFits(work'[t], rows')
    <3>1. PlanFits(GoneOn(Tail(w.todo), w.cur, NoSession), rows')
      BY <1>2, PlanCreates
    <3> QED
      BY <1>2, <2>2, <3>1
  <2> QED
    BY <1>2, <1>4, <1>6, <2>2, <2>3, <2>4, AloneIsSound
<1> QED
  BY <1>5, <1>6 DEF NewSession


LEMMA MovedObject ==
  ASSUME NEW s \in Object, NEW o \in Nat
  PROVE  /\ [s EXCEPT !.oid = o] \in Object
         /\ [s EXCEPT !.oid = o].oid = o
         /\ [s EXCEPT !.oid = o].id = s.id
         /\ [s EXCEPT !.oid = o].type = s.type
         /\ [s EXCEPT !.oid = o].finished = s.finished
         /\ [s EXCEPT !.oid = o].eventSeq = s.eventSeq
<1>1. [s EXCEPT !.oid = o] \in Object /\ [s EXCEPT !.oid = o].oid = o
  BY DEF Object
<1>2. [s EXCEPT !.oid = o].id = s.id /\ [s EXCEPT !.oid = o].type = s.type
      /\ [s EXCEPT !.oid = o].eventSeq = s.eventSeq
  BY DEF Object
<1>3. [s EXCEPT !.oid = o].finished = s.finished
  BY DEF Object
<1> QED
  BY <1>1, <1>2, <1>3

LEMMA SaveSessionAsLastSessionSound ==
  ASSUME Typed, Sound, Typed', Clean' => Clean, NEW t \in Threads, SaveSessionAsLastSession(t)
  PROVE  Sound'
<1> SUFFICES ASSUME Clean, Clean' PROVE Sound'
  BY DEF Sound
<1> DEFINE w   == work[t]
           s   == w.cur
           row == [id |-> s.id, type |-> s.type, finished |-> s.finished,
                   eventSeq |-> s.eventSeq, deleted |-> FALSE]
<1>1. IsNext(t, "saveAsLast")
  BY DEF SaveSessionAsLastSession
<1>2. /\ Alone(t)
      /\ rows \in Seq(Row) /\ events \in Seq(Event) /\ lastSessionID \in Nat
      /\ RowsFit(rows, lastSessionID) /\ EventsFit(events, rows) /\ Numbered(events)
      /\ ObjectsFit(w, rows) /\ PlanFits(w, rows)
      /\ w.todo = Todo(t) /\ w.todo \in Seq(Steps) /\ w.todo # <<>>
      /\ w.todo[1] \in Steps /\ w.todo[1].op = "saveAsLast" /\ Head(Todo(t)) = w.todo[1]
      /\ Rest(t) = Tail(w.todo) /\ Rest(t) \in Seq(Steps)
      /\ Referable(w.cur, rows) /\ Referable(w.new, rows)
  BY <1>1, StepContext
<1>3. Head(Todo(t)).on = "cur" /\ Target(t) = s
  BY <1>2 DEF Steps, Target
<1>4. UNCHANGED <<events, lastSessionID>>
  BY DEF SaveSessionAsLastSession
<1>5. IsPlan(Rest(t))
  BY <1>2, PlanHasOneSave
<1>6. s # NoSession /\ (w.new = NoSession \/ w.new.oid = Len(rows))
  <2>1. 1 \in DOMAIN w.todo
    BY <1>2
  <2> QED
    BY <1>2, <2>1 DEF PlanFits
<1>7. s \in Object /\ Agrees(s, rows) /\ s.oid \in DOMAIN rows
  BY <1>2, <1>6 DEF ObjectsFit, Referable, Agrees
<1> HIDE DEF w
<1>8. CASE /\ rows' = Append([rows EXCEPT ![s.oid].finished = TRUE], row)
           /\ GoOnWith(t, Rest(t), [s EXCEPT !.oid = Len(rows) + 1])
           /\ faults' = faults \cup (IF w.new = NoSession THEN {"copied"} ELSE {})
  <2>1. w.new # NoSession /\ w.new.oid = Len(rows)
    BY <1>6, <1>8 DEF Clean
  <2>2. w.new \in Object /\ Agrees(w.new, rows) /\ w.new.oid # s.oid /\ w.new.id # s.id
    <3>1. w.new.oid # w.cur.oid
      BY <1>2, <1>6, <2>1, DifferentRows
    <3>2. Agrees(w.new, rows) /\ w.new.id # s.id
      BY <1>2, <1>6, <2>1 DEF ObjectsFit
    <3> QED
      BY <1>2, <3>1, <3>2 DEF Referable
  <2>3. s.oid < Len(rows)
    BY <1>2, <1>7, <2>1, <2>2
  <2> DEFINE rs == [rows EXCEPT ![s.oid].finished = TRUE]
             s2 == [s EXCEPT !.oid = Len(rows) + 1]
  <2>4. row \in Row /\ row.id = s.id /\ row.type = s.type /\ row.finished = s.finished
        /\ row.eventSeq = s.eventSeq /\ ~row.deleted
    <3>1. row \in Row
      BY <1>7 DEF Row, Object
    <3>2. row.id = s.id /\ row.type = s.type /\ row.finished = s.finished
          /\ row.eventSeq = s.eventSeq /\ row.deleted = FALSE
      OBVIOUS
    <3> HIDE DEF row
    <3> QED
      BY <3>1, <3>2
  <2>5. s2 \in Object /\ s2.oid = Len(rows) + 1 /\ s2.id = s.id /\ s2.type = s.type
        /\ s2.finished = s.finished /\ s2.eventSeq = s.eventSeq
    <3>1. Len(rows) + 1 \in Nat
      BY <1>2
    <3> QED
      BY <1>7, <3>1, MovedObject
  <2>6. Alters(rows, rs, s.oid) /\ rs[s.oid].finished /\ rs[s.oid].eventSeq = rows[s.oid].eventSeq
    BY <1>2, <1>7, FinishingAlters
  <2>7. rows' = Append(rs, row) /\ GoOnWith(t, Rest(t), s2)
    BY <1>8
  <2> HIDE DEF rs, s2, row
  <2>8. rs \in Seq(Row) /\ Len(rs) = Len(rows) /\ DOMAIN rs = DOMAIN rows
        /\ rs[s.oid].eventSeq \in Nat /\ rs[s.oid].id = rows[s.oid].id
    BY <1>7, <2>6 DEF Alters
  <2>9. RowsFit(rs, lastSessionID) /\ EventsFit(events, rs)
        /\ (\A x \in Object : Agrees(x, rows) /\ x.oid # s.oid => Agrees(x, rs))
        /\ ~IsStale(s.oid, rs)
    <3>1. rs[s.oid].eventSeq >= rows[s.oid].eventSeq
      BY <2>6, <2>8
    <3>2. RowsFit(rs, lastSessionID) /\ EventsFit(events, rs)
          /\ (\A x \in Object : Agrees(x, rows) /\ x.oid # s.oid => Agrees(x, rs))
          /\ (\A i \in DOMAIN rows : IsStale(i, rs) <=> IsStale(i, rows))
      BY <1>2, <2>6, <3>1, AlteredRows
    <3> QED
      BY <1>7, <3>2 DEF Agrees
  <2>10. s.oid \in DOMAIN rs /\ s.oid < Len(rs) /\ row.id = rs[s.oid].id /\ row.eventSeq >= rs[s.oid].eventSeq
    BY <1>7, <2>3, <2>4, <2>6, <2>8 DEF Agrees
  <2>11. RowsFit(rows', lastSessionID) /\ EventsFit(events, rows')
         /\ (\A x \in Object : Agrees(x, rs) /\ x.id # row.id => Agrees(x, rows'))
         /\ ~IsStale(Len(rs) + 1, rows')
    BY <1>2, <2>4, <2>6, <2>7, <2>8, <2>9, <2>10, CopiedRow
  <2>12. Len(rows) + 1 \in DOMAIN rows' /\ rows'[Len(rows) + 1] = row /\ DOMAIN rows \subseteq DOMAIN rows'
    BY <2>4, <2>7, <2>8, AppendedRow
  <2>13. Agrees(s2, rows')
    BY <2>4, <2>5, <2>8, <2>11, <2>12 DEF Agrees
  <2>14. Agrees(w.new, rows')
    BY <2>2, <2>4, <2>9, <2>11
  <2>15. ObjectsFit([cur |-> s2, new |-> w.new], rows')
    BY <2>2, <2>5, <2>13, <2>14 DEF ObjectsFit
  <2>16. Referable(s2, rows')
    BY <2>5, <2>12 DEF Referable
  <2>17. work'[t] = GoneOn(Rest(t), s2, w.new) /\ \A u \in Threads \ {t} : work'[u] = work[u]
    BY <1>2, <1>3, <2>7, <2>12, <2>16, GoesOnWith DEF w
  <2>18. ObjectsFit(work'[t], rows')
    BY <2>15, <2>17, GoneOnObjects
  <2>19. PlanFits(work'[t], rows')
    BY <1>5, <2>17, PlanHasNoSave
  <2> QED
    BY <1>2, <1>4, <2>11, <2>17, <2>18, <2>19, AloneIsSound
<1>9. CASE GoOnWith(t, Rest(t), s) /\ UNCHANGED rows
  <2>1. work'[t] = GoneOn(Rest(t), s, w.new) /\ \A u \in Threads \ {t} : work'[u] = work[u]
    BY <1>2, <1>3, <1>9, GoesOnWith DEF w
  <2>2. ObjectsFit(work'[t], rows')
    <3>1. ObjectsFit([cur |-> s, new |-> w.new], rows')
      BY <1>2, <1>9 DEF ObjectsFit
    <3> QED
      BY <2>1, <3>1, GoneOnObjects
  <2>3. PlanFits(work'[t], rows')
    BY <1>5, <2>1, PlanHasNoSave
  <2> QED
    BY <1>2, <1>4, <1>9, <2>1, <2>2, <2>3, AloneIsSound
<1> QED
  BY <1>3, <1>8, <1>9 DEF SaveSessionAsLastSession, w

\* An event of a session takes the number that its last row holds.
LEMMA StoredEvent ==
  ASSUME NEW rs \in Seq(Row), NEW rs2, NEW s \in Object, Agrees(s, rs), Alters(rs, rs2, s.oid),
         rs2[s.oid].eventSeq = s.eventSeq + 1, NEW n \in Nat, RowsFit(rs, n),
         NEW es \in Seq(Event), EventsFit(es, rs), Numbered(es),
         NEW e \in Event, e.session = s.oid, e.id = s.id, e.sequenceNumber = s.eventSeq
  PROVE  /\ RowsFit(rs2, n)
         /\ EventsFit(Append(es, e), rs2)
         /\ Numbered(Append(es, e))
         /\ \A x \in Object : Agrees(x, rs) /\ x.oid # s.oid => Agrees(x, rs2)
         /\ ~IsStale(s.oid, rs2)
<1>1. s.oid \in DOMAIN rs /\ s.eventSeq \in Nat /\ rs[s.oid].eventSeq = s.eventSeq /\ rs[s.oid].id = s.id
  BY DEF Agrees, Object
<1>2. rs2[s.oid].eventSeq >= rs[s.oid].eventSeq
  BY <1>1
<1>3. RowsFit(rs2, n) /\ EventsFit(es, rs2)
      /\ (\A x \in Object : Agrees(x, rs) /\ x.oid # s.oid => Agrees(x, rs2))
      /\ (\A i \in DOMAIN rs : IsStale(i, rs2) <=> IsStale(i, rs))
  BY <1>2, AlteredRows
<1>4. ~IsStale(s.oid, rs2) /\ ~IsStale(s.oid, rs)
  BY <1>1, <1>3 DEF Agrees
<1> DEFINE es2 == Append(es, e)
<1>5. DOMAIN es2 = DOMAIN es \cup {Len(es) + 1} /\ (\A d \in DOMAIN es : es2[d] = es[d] /\ d # Len(es) + 1 /\ es[d] \in Event)
      /\ es2[Len(es) + 1] = e
  OBVIOUS
<1> HIDE DEF es2
<1>6. \A d \in DOMAIN es : es[d].id = s.id => es[d].sequenceNumber < s.eventSeq
  <2> SUFFICES ASSUME NEW d \in DOMAIN es, es[d].id = s.id PROVE es[d].sequenceNumber < s.eventSeq
    OBVIOUS
  <2>1. es[d].session \in DOMAIN rs /\ rs[es[d].session].id = rs[s.oid].id
    BY <1>1 DEF EventsFit
  <2>2. s.oid >= es[d].session
    BY <1>1, <1>4, <2>1 DEF IsStale
  <2> QED
    BY <1>1, <2>2 DEF EventsFit
<1>7. \A d \in DOMAIN es : es[d].sequenceNumber \in Nat
  BY <1>5 DEF Event
<1>8. Numbered(es2)
  BY <1>1, <1>5, <1>6, <1>7 DEF Numbered
<1>9. EventsFit(es2, rs2)
  <2>0. DOMAIN rs2 = DOMAIN rs /\ rs2[s.oid].id = s.id /\ DOMAIN rs \subseteq Nat
    BY <1>1 DEF Alters
  <2>1. \A d \in DOMAIN es2 : es2[d].session \in DOMAIN rs2 /\ es2[d].id = rs2[es2[d].session].id
    BY <1>1, <1>3, <1>5, <2>0 DEF EventsFit
  <2>2. ASSUME NEW j \in DOMAIN rs2, j >= s.oid, rs2[j].id = s.id PROVE s.eventSeq < rs2[j].eventSeq
    <3>1. j = s.oid
      BY <1>1, <1>4, <2>0, <2>2 DEF IsStale
    <3> QED
      BY <1>1, <3>1
  <2>3. ASSUME NEW d \in DOMAIN es2, NEW j \in DOMAIN rs2, j >= es2[d].session, rs2[j].id = es2[d].id
        PROVE  es2[d].sequenceNumber < rs2[j].eventSeq
    <3>1. CASE d = Len(es) + 1
      BY <1>5, <2>2, <2>3, <3>1
    <3>2. CASE d \in DOMAIN es
      BY <1>3, <1>5, <2>3, <3>2 DEF EventsFit
    <3> QED
      BY <1>5, <3>1, <3>2
  <2> QED
    BY <2>1, <2>3 DEF EventsFit
<1> QED
  BY <1>3, <1>4, <1>8, <1>9 DEF es2


\* The rest of a plan, with the follow-up of an event or without one.
FollowsUp(r, q) ==
  /\ r \in Seq(Steps)
  /\ \/ r = q
     \/ \E x \in Steps : x.op \in {"add", "mark"} /\ r = <<x>> \o q

LEMMA RestOrFollowUp ==
  ASSUME NEW kind \in Kinds, NEW on \in {"cur", "new"}, NEW s, NEW q \in Seq(Steps)
  PROVE  FollowsUp(AfterAdding(kind, on, s) \o q, q)
<1>1. AfterAdding(kind, on, s) \o q \in Seq(Steps)
  BY AfterAddingTyped
<1>2. CASE AfterAdding(kind, on, s) = <<>>
  BY <1>1, <1>2, ConcatEmptySeq DEF FollowsUp
<1>3. CASE AfterAdding(kind, on, s) # <<>>
  <2>1. kind \in Flags => Mark(kind) \in Steps /\ Mark(kind).op = "mark"
    BY StepsTypes DEF Mark
  <2>2. Add("init", on) \in Steps /\ Add("init", on).op = "add"
    BY StepsTypes DEF Add, Kinds, Flags
  <2>3. \E x \in Steps : x.op \in {"add", "mark"} /\ AfterAdding(kind, on, s) = <<x>>
    BY <1>3, <2>1, <2>2, AfterAddingSteps
  <2> QED
    BY <1>1, <2>3 DEF FollowsUp
<1> QED
  BY <1>2, <1>3

LEMMA AddEventSound ==
  ASSUME Typed, Sound, Typed', Clean' => Clean, NEW t \in Threads, AddEvent(t)
  PROVE  Sound'
<1> SUFFICES ASSUME Clean, Clean' PROVE Sound'
  BY DEF Sound
<1> DEFINE w     == work[t]
           s     == Target(t)
           kind  == Head(Todo(t)).what
           on    == Head(Todo(t)).on
           event == [session |-> s.oid, id |-> s.id, kind |-> kind,
                     sequenceNumber |-> s.eventSeq, purged |-> FALSE]
           Store == /\ events' = Append(events, event)
                    /\ rows' = [rows EXCEPT ![s.oid].eventSeq = s.eventSeq + 1]
           moved == [s EXCEPT !.eventSeq = @ + 1]
           more  == AfterAdding(kind, on, s) \o Rest(t)
<1>1. IsNext(t, "add")
  BY DEF AddEvent
<1>2. /\ Alone(t)
      /\ rows \in Seq(Row) /\ events \in Seq(Event) /\ lastSessionID \in Nat
      /\ RowsFit(rows, lastSessionID) /\ EventsFit(events, rows) /\ Numbered(events)
      /\ ObjectsFit(w, rows) /\ PlanFits(w, rows)
      /\ w.todo = Todo(t) /\ w.todo \in Seq(Steps) /\ w.todo # <<>>
      /\ w.todo[1] \in Steps /\ w.todo[1].op = "add" /\ Head(Todo(t)) = w.todo[1]
      /\ Rest(t) = Tail(w.todo) /\ Rest(t) \in Seq(Steps)
      /\ Referable(w.cur, rows) /\ Referable(w.new, rows)
  BY <1>1, StepContext
<1>3. kind \in Kinds /\ on \in {"cur", "new"} /\ Len(Rest(t)) = Len(w.todo) - 1 /\ Len(w.todo) \in Nat
  <2>1. Len(Rest(t)) = Len(Todo(t)) - 1
    BY <1>1, NextStep
  <2> QED
    BY <1>2, <2>1 DEF Steps, Step
<1>4. UNCHANGED lastSessionID
  BY DEF AddEvent
<1>5. s = IF on = "cur" THEN w.cur ELSE w.new
  BY DEF Target
<1>6. \/ /\ s # NoSession
         /\ Store
         /\ GoOnWith(t, more, moved)
      \/ /\ s # NoSession
         /\ Store
         /\ GoOnWith(t, Rest(t), moved)
      \/ /\ GoOnWith(t, Rest(t), s)
         /\ UNCHANGED <<events, rows>>
  BY DEF AddEvent
<1>7. more \in Seq(Steps) /\ (\/ more = Rest(t)
                              \/ \E x \in Steps : x.op \in {"add", "mark"} /\ more = <<x>> \o Rest(t))
  <2> DEFINE q == Rest(t)
  <2>1. q \in Seq(Steps) /\ kind \in Kinds /\ on \in {"cur", "new"}
    BY <1>2, <1>3
  <2> HIDE DEF kind, on, s, q
  <2>2. FollowsUp(AfterAdding(kind, on, s) \o q, q)
    BY <2>1, RestOrFollowUp
  <2>3. FollowsUp(more, Rest(t))
    BY <2>2 DEF q
  <2> HIDE DEF more
  <2> QED
    BY <2>3 DEF FollowsUp
<1>8. Len(more) <= Len(w.todo)
  <2> HIDE DEF more
  <2>1. CASE more = Rest(t)
    BY <1>2, <1>3, <2>1
  <2>2. CASE \E x \in Steps : x.op \in {"add", "mark"} /\ more = <<x>> \o Rest(t)
    BY <1>2, <1>3, <2>2, InFront
  <2> QED
    BY <1>7, <2>1, <2>2
<1>9. ASSUME NEW q \in Seq(Steps), NEW s2, GoOnWith(t, q, s2), Referable(s2, rows'),
             s2 = NoSession <=> s = NoSession, s2.oid = s.oid, s2.id = s.id,
             q \in {Rest(t), more},
             s2 # NoSession => Agrees(s2, rows'),
             \A x \in Object : Agrees(x, rows) /\ (s # NoSession => x.oid # s.oid) => Agrees(x, rows'),
             DOMAIN rows' = DOMAIN rows, Len(rows') = Len(rows)
      PROVE  /\ \A u \in Threads \ {t} : work'[u] = work[u]
             /\ ObjectsFit(work'[t], rows')
             /\ PlanFits(work'[t], rows')
  <2> DEFINE cur == IF on = "cur" THEN s2 ELSE w.cur
             new == IF on = "cur" THEN w.new ELSE s2
  <2>1. work'[t] = GoneOn(q, cur, new) /\ \A u \in Threads \ {t} : work'[u] = work[u]
    <3>1. DOMAIN rows \subseteq DOMAIN rows'
      BY <1>9
    <3>2. /\ work'[t] = IF on = "cur" THEN GoneOn(q, s2, w.new) ELSE GoneOn(q, w.cur, s2)
          /\ \A u \in Threads \ {t} : work'[u] = work[u]
      BY <1>9, <3>1, GoesOnWith
    <3> QED
      BY <3>2
  <2>2. (w.cur # NoSession => Agrees(w.cur, rows)) /\ (w.new # NoSession => Agrees(w.new, rows))
        /\ (w.cur # NoSession /\ w.new # NoSession => w.cur.id # w.new.id /\ w.cur.oid # w.new.oid)
        /\ w.cur \in Object /\ w.new \in Object
    BY <1>2, DifferentRows DEF ObjectsFit, Referable
  <2> HIDE DEF w, s, on, more
  <2>3. ObjectsFit([cur |-> cur, new |-> new], rows')
    <3>1. CASE on = "cur"
      <4>1. w.new # NoSession => Agrees(w.new, rows')
        BY <1>5, <1>9, <2>2, <3>1
      <4> QED
        BY <1>5, <1>9, <2>2, <3>1, <4>1 DEF ObjectsFit
    <3>2. CASE on # "cur"
      <4>1. w.cur # NoSession => Agrees(w.cur, rows')
        BY <1>5, <1>9, <2>2, <3>2
      <4> QED
        BY <1>5, <1>9, <2>2, <3>2, <4>1 DEF ObjectsFit
    <3> QED
      BY <3>1, <3>2
  <2>4. (w.cur # NoSession => cur # NoSession) /\ (w.new = NoSession => new = NoSession) /\ new.oid = w.new.oid
    BY <1>5, <1>9
  <2> HIDE DEF cur, new
  <2>5. Len(q) <= Len(w.todo)
    BY <1>2, <1>3, <1>8, <1>9
  <2>6. PlanFits(GoneOn(q, cur, new), rows')
    BY <1>2, <1>7, <1>9, <2>4, <2>5, PlanGoesOn
  <2> QED
    BY <2>1, <2>3, <2>6, GoneOnObjects
<1>10. CASE s # NoSession /\ Store /\ (GoOnWith(t, more, moved) \/ GoOnWith(t, Rest(t), moved))
  <2>1. s \in Object /\ Agrees(s, rows) /\ s.oid \in DOMAIN rows /\ s.eventSeq \in Nat
    BY <1>2, <1>5, <1>10 DEF ObjectsFit, Referable, Agrees, Object
  <2>2. event \in Event /\ event.session = s.oid /\ event.id = s.id /\ event.sequenceNumber = s.eventSeq
    BY <1>3, <2>1 DEF Event, Object
  <2>3. moved \in Object /\ moved.oid = s.oid /\ moved.id = s.id /\ moved.type = s.type
        /\ moved.eventSeq = s.eventSeq + 1
    BY <2>1 DEF Object
  <2>4. moved.finished = s.finished
    BY <2>1 DEF Object
  <2> HIDE DEF event, moved, more, s, kind
  <2>5. Alters(rows, rows', s.oid) /\ rows'[s.oid].eventSeq = s.eventSeq + 1
        /\ rows'[s.oid].finished = rows[s.oid].finished
    <3>1. s.eventSeq + 1 \in Nat /\ rows' = [rows EXCEPT ![s.oid].eventSeq = s.eventSeq + 1]
      BY <1>10, <2>1
    <3> QED
      BY <1>2, <2>1, <3>1, CountingAlters
  <2>6. RowsFit(rows', lastSessionID) /\ EventsFit(events', rows') /\ Numbered(events')
        /\ (\A x \in Object : Agrees(x, rows) /\ x.oid # s.oid => Agrees(x, rows'))
        /\ ~IsStale(s.oid, rows')
    <3>1. events' = Append(events, event)
      BY <1>10
    <3> QED
      BY <1>2, <2>1, <2>2, <2>5, <3>1, StoredEvent
  <2>7. Agrees(moved, rows')
    BY <2>1, <2>3, <2>4, <2>5, <2>6 DEF Agrees, Alters
  <2>8. moved # NoSession
    BY <1>2, <2>1, <2>3 DEF NoSession
  <2>9. Referable(moved, rows') /\ DOMAIN rows' = DOMAIN rows /\ Len(rows') = Len(rows)
    BY <2>1, <2>3, <2>5 DEF Referable, Alters
  <2>10. /\ \A u \in Threads \ {t} : work'[u] = work[u]
         /\ ObjectsFit(work'[t], rows')
         /\ PlanFits(work'[t], rows')
    BY <1>2, <1>7, <1>9, <1>10, <2>3, <2>6, <2>7, <2>8, <2>9
  <2> QED
    BY <1>2, <1>4, <2>6, <2>10, AloneIsSound
<1>11. CASE GoOnWith(t, Rest(t), s) /\ UNCHANGED <<events, rows>>
  <2>1. Referable(s, rows') /\ (s # NoSession => Agrees(s, rows'))
    BY <1>2, <1>5, <1>11 DEF ObjectsFit
  <2> HIDE DEF s, more
  <2>2. /\ \A u \in Threads \ {t} : work'[u] = work[u]
        /\ ObjectsFit(work'[t], rows')
        /\ PlanFits(work'[t], rows')
    BY <1>2, <1>9, <1>11, <2>1
  <2> QED
    BY <1>2, <1>4, <1>11, <2>2, AloneIsSound
<1> QED
  BY <1>6, <1>10, <1>11


LEMMA MarkEventSentSound ==
  ASSUME Typed, Sound, Typed', Clean' => Clean, NEW t \in Threads, MarkEventSent(t)
  PROVE  Sound'
<1> SUFFICES ASSUME Clean, Clean' PROVE Sound'
  BY DEF Sound
<1> DEFINE w == work[t]
<1>1. IsNext(t, "mark")
  BY DEF MarkEventSent
<1>2. /\ Alone(t)
      /\ rows \in Seq(Row) /\ events \in Seq(Event) /\ lastSessionID \in Nat
      /\ RowsFit(rows, lastSessionID) /\ EventsFit(events, rows) /\ Numbered(events)
      /\ ObjectsFit(w, rows) /\ PlanFits(w, rows)
      /\ w.todo = Todo(t) /\ w.todo \in Seq(Steps) /\ w.todo # <<>>
      /\ w.todo[1] \in Steps /\ w.todo[1].op = "mark" /\ Head(Todo(t)) = w.todo[1]
      /\ Rest(t) = Tail(w.todo) /\ Rest(t) \in Seq(Steps)
      /\ Referable(w.cur, rows) /\ Referable(w.new, rows)
  BY <1>1, StepContext
<1>3. Head(Todo(t)).on = "cur" /\ Target(t) = w.cur
  BY <1>2 DEF Steps, Target
<1>4. UNCHANGED <<rows, events, lastSessionID>> /\ GoOnWith(t, Rest(t), Target(t))
  BY DEF MarkEventSent
<1>5. Len(Rest(t)) <= Len(w.todo)
  <2>1. Len(Rest(t)) = Len(Todo(t)) - 1
    BY <1>1, NextStep
  <2> QED
    BY <1>2, <2>1
<1> HIDE DEF w
<1>6. work'[t] = GoneOn(Rest(t), w.cur, w.new) /\ \A u \in Threads \ {t} : work'[u] = work[u]
  BY <1>2, <1>3, <1>4, GoesOnWith DEF w
<1>7. ObjectsFit(work'[t], rows')
  <2>1. ObjectsFit([cur |-> w.cur, new |-> w.new], rows')
    BY <1>2, <1>4 DEF ObjectsFit
  <2> QED
    BY <1>6, <2>1, GoneOnObjects
<1>8. PlanFits(work'[t], rows')
  <2>1. Len(rows') = Len(rows)
    BY <1>4
  <2>2. PlanFits(GoneOn(Rest(t), w.cur, w.new), rows')
    BY <1>2, <1>5, <2>1, PlanGoesOn
  <2> QED
    BY <1>6, <2>2
<1> QED
  BY <1>2, <1>4, <1>6, <1>7, <1>8, AloneIsSound

LEMMA AddToNewOrReportSound ==
  ASSUME Typed, Sound, Typed', Clean' => Clean, NEW t \in Threads, AddToNewOrReport(t)
  PROVE  Sound'
<1> SUFFICES ASSUME Clean, Clean' PROVE Sound'
  BY DEF Sound
<1> DEFINE w == work[t]
<1>1. IsNext(t, "addOrReport")
  BY DEF AddToNewOrReport
<1>2. /\ Alone(t)
      /\ rows \in Seq(Row) /\ events \in Seq(Event) /\ lastSessionID \in Nat
      /\ RowsFit(rows, lastSessionID) /\ EventsFit(events, rows) /\ Numbered(events)
      /\ ObjectsFit(w, rows) /\ PlanFits(w, rows)
      /\ w.todo = Todo(t) /\ w.todo \in Seq(Steps) /\ w.todo # <<>>
      /\ w.todo[1] \in Steps /\ w.todo[1].op = "addOrReport" /\ Head(Todo(t)) = w.todo[1]
      /\ Rest(t) = Tail(w.todo) /\ Rest(t) \in Seq(Steps)
      /\ Referable(w.cur, rows) /\ Referable(w.new, rows)
  BY <1>1, StepContext
<1>3. Head(Todo(t)).on # "cur"
  BY <1>2 DEF Steps
<1>4. UNCHANGED stored /\ UNCHANGED <<rows, events, lastSessionID>>
  BY DEF AddToNewOrReport, stored
<1>5. CASE w.new # NoSession
  <2>1. GoOnWith(t, <<Add("client", "new")>> \o Rest(t), w.new)
    BY <1>5 DEF AddToNewOrReport
  <2>2. IsPlan(<<Add("client", "new")>> \o Rest(t))
    <3>1. Add("client", "new") \in Steps /\ Add("client", "new").op = "add"
      BY StepsTypes DEF Kinds, Add
    <3> QED
      BY <1>2, <3>1, PlanHasOneSave
  <2> DEFINE q == <<Add("client", "new")>> \o Rest(t)
  <2> HIDE DEF w, q
  <2>3. IsPlan(q) /\ q \in Seq(Steps) /\ GoOnWith(t, q, w.new)
    BY <2>1, <2>2 DEF IsPlan, q
  <2>4. work'[t] = GoneOn(q, w.cur, w.new) /\ \A u \in Threads \ {t} : work'[u] = work[u]
    BY <1>2, <1>3, <1>4, <2>3, GoesOnWith DEF w
  <2>5. ObjectsFit(work'[t], rows')
    <3>1. ObjectsFit([cur |-> w.cur, new |-> w.new], rows')
      BY <1>2, <1>4 DEF ObjectsFit
    <3> QED
      BY <2>4, <3>1, GoneOnObjects
  <2>6. PlanFits(work'[t], rows')
    BY <2>3, <2>4, PlanHasNoSave
  <2> QED
    BY <1>2, <1>4, <2>4, <2>5, <2>6, AloneIsSound
<1>6. CASE w.new = NoSession
  <2>1. PICK s \in Reading(LastSession), x \in {"Invalid", "None", "Timeout", "Limit"} :
          Begin(t, ReportSteps(s, x), s, LastSession)
    BY <1>6 DEF AddToNewOrReport, Expirations
  <2>2. Referable(s, rows) /\ IsPlan(ReportSteps(s, x)) /\ ReportSteps(s, x) \in Seq(Steps)
    BY <1>2, SessionsRead, BuildersArePlans DEF IsPlan
  <2>3. s # NoSession => Agrees(s, rows)
    BY <1>2, LastAgrees DEF Reading
  <2>4. PlanFits(GoneOn(ReportSteps(s, x), s, NoSession), rows)
    BY <2>2, PlanHasNoSave
  <2> QED
    BY <1>4, <2>1, <2>2, <2>3, <2>4, CallIsSound
<1> QED
  BY <1>5, <1>6

LEMMA PurgeEventsSound ==
  ASSUME Typed, Sound, Clean' => Clean, PurgeEvents
  PROVE  Sound'
<1> SUFFICES ASSUME Clean, Clean' PROVE Sound'
  BY DEF Sound
<1>1. DOMAIN events' = DOMAIN events
      /\ \A e \in DOMAIN events : /\ events'[e].session = events[e].session
                                  /\ events'[e].id = events[e].id
                                  /\ events'[e].sequenceNumber = events[e].sequenceNumber
  <2>1. CASE UNCHANGED events
    BY <2>1
  <2>2. CASE ~UNCHANGED events
    <3>1. PICK sessions \in SUBSET Stored \ {{}} :
            events' = [e \in DOMAIN events |->
                         IF events[e].session \in sessions
                         THEN [events[e] EXCEPT !.purged = TRUE] ELSE events[e]]
      BY <2>2 DEF PurgeEvents
    <3>2. \A e \in DOMAIN events : events[e] \in Event
      BY DEF Typed, TypeOK
    <3> QED
      BY <3>1, <3>2 DEF Event
  <2> QED
    BY <2>1, <2>2
<1>2. UNCHANGED <<rows, lastSessionID, work>>
  BY DEF PurgeEvents
<1>3. EventsFit(events', rows) /\ Numbered(events')
  <2>1. EventsFit(events, rows) /\ Numbered(events)
    BY DEF Sound
  <2>2. EventsFit(events', rows)
    BY <1>1, <2>1 DEF EventsFit
  <2>3. Numbered(events')
    BY <1>1, <2>1 DEF Numbered
  <2> QED
    BY <2>2, <2>3
<1> QED
  BY <1>2, <1>3 DEF Sound, Alone, IsIdle

\* Whatever is deleted leaves two sessions above it.
LEMMA PurgedHaveTwoAbove ==
  ASSUME rows \in Seq(Row), PurgeEmptySessions
  PROVE  \A i \in DOMAIN rows : rows'[i].deleted /\ ~rows[i].deleted =>
           TwoAbove(i, rows') /\ i \in EmptyButFor(2)
<1> SUFFICES ASSUME NEW i \in DOMAIN rows, rows'[i].deleted, ~rows[i].deleted
             PROVE  TwoAbove(i, rows') /\ i \in EmptyButFor(2)
  OBVIOUS
<1>1. i \in EmptyButFor(2)
  BY PurgeEmptyDeletes
<1>2. PICK a \in Kept, b \in Kept : i < a /\ a < b /\ a \notin EmptyButFor(2) /\ b \notin EmptyButFor(2)
  BY <1>1, TwoAreSpared
<1>3. a \in DOMAIN rows /\ b \in DOMAIN rows /\ ~rows[a].deleted /\ ~rows[b].deleted
  BY DEF Kept
<1>4. ~rows'[a].deleted /\ ~rows'[b].deleted /\ DOMAIN rows' = DOMAIN rows
  BY <1>2, <1>3, PurgeEmptyDeletes DEF Deletes
<1> QED
  BY <1>1, <1>2, <1>3, <1>4 DEF TwoAbove

LEMMA PurgeEmptySessionsSound ==
  ASSUME Typed, Sound, Clean' => Clean, PurgeEmptySessions
  PROVE  Sound'
<1> SUFFICES ASSUME Clean, Clean' PROVE Sound'
  BY DEF Sound
<1>1. rows \in Seq(Row) /\ events \in Seq(Event) /\ lastSessionID \in Nat
  BY DEF Typed, TypeOK
<1>2. Deletes(rows, rows') /\ Len(rows') = Len(rows)
  BY <1>1, PurgeEmptyDeletes DEF Deletes
<1>3. UNCHANGED <<events, lastSessionID, work>>
  BY DEF PurgeEmptySessions
<1>4. \A i \in DOMAIN rows : rows'[i].deleted /\ ~rows[i].deleted => TwoAbove(i, rows')
  BY <1>1, PurgedHaveTwoAbove
<1>5. /\ RowsFit(rows, lastSessionID) => RowsFit(rows', lastSessionID)
      /\ EventsFit(events, rows) => EventsFit(events, rows')
      /\ \A s \in Object : Agrees(s, rows) => Agrees(s, rows')
  BY <1>1, <1>2, <1>4, DeletedRows
<1>6. \A t \in Threads : ObjectsFit(work[t], rows) => ObjectsFit(work[t], rows')
  BY <1>5 DEF ObjectsFit, Typed, WorkFits, Referable
<1>7. \A t \in Threads : PlanFits(work[t], rows) => PlanFits(work[t], rows')
  BY <1>2 DEF PlanFits
<1> QED
  BY <1>3, <1>5, <1>6, <1>7 DEF Sound, Alone, IsIdle

LEMMA DieSound ==
  ASSUME Typed, Sound, Clean' => Clean, Die
  PROVE  Sound'
<1> SUFFICES ASSUME Clean, Clean' PROVE Sound'
  BY DEF Sound
<1>1. UNCHANGED <<rows, events, lastSessionID>> /\ \A t \in Threads : work'[t] = NoWork
  BY DEF Die, stored
<1>2. \A t \in Threads : IsIdle(t)'
  BY <1>1 DEF IsIdle, NoWork
<1>3. \A t \in Threads : ObjectsFit(work'[t], rows') /\ PlanFits(work'[t], rows')
  BY <1>1, NoWorkIsSound
<1> QED
  BY <1>1, <1>2, <1>3 DEF Sound

IInv == Typed /\ Sound

LEMMA InitSound == Init => IInv
<1> SUFFICES ASSUME Init PROVE IInv
  OBVIOUS
<1>1. \A t \in Threads : work[t] = NoWork
  BY DEF Init
<1>2. \A t \in Threads : IsIdle(t) /\ ObjectsFit(work[t], rows) /\ PlanFits(work[t], rows)
  BY <1>1, NoWorkIsSound DEF IsIdle, NoWork
<1>3. rows = <<>> /\ events = <<>> /\ DOMAIN rows = {} /\ DOMAIN events = {}
  BY DEF Init
<1>4. RowsFit(rows, lastSessionID) /\ EventsFit(events, rows) /\ Numbered(events)
  BY <1>3 DEF RowsFit, EventsFit, Numbered
<1> QED
  BY <1>2, <1>4, InitTyped DEF IInv, Sound

LEMMA StepSound == IInv /\ [Next]_vars => IInv'
<1> SUFFICES ASSUME Typed, Sound, [Next]_vars PROVE Typed' /\ Sound'
  BY DEF IInv
<1>0. Typed'
  BY StepTyped
<1>1. CASE UNCHANGED vars
  <2>1. UNCHANGED <<rows, events, lastSessionID, work, faults>>
    BY <1>1 DEF vars, stored
  <2>2. Sound'
    BY <2>1 DEF Sound, Clean, Alone, IsIdle
  <2> QED
    BY <1>0, <2>2
<1>2. CASE Next
  <2>1. Clean' => Clean
    BY <1>2, FaultsStay DEF Clean
  <2>2. ASSUME NEW t \in Threads, Perform(t) PROVE Sound'
    BY <1>0, <2>1, <2>2, EndSessionSound, NewSessionSound, SaveSessionAsLastSessionSound, AddEventSound,
       MarkEventSentSound, AddToNewOrReportSound DEF Perform
  <2>3. Sound'
    BY <1>2, <2>1, <2>2, CallsSound, PurgeEventsSound, PurgeEmptySessionsSound, DieSound DEF Next
  <2> QED
    BY <1>0, <2>3
<1> QED
  BY <1>1, <1>2

(* No two events of a session share a sequence number, though the number is taken from
   the object at hand and a session can have several rows with a counter each: through
   failed statements, deaths between two transactions, purges and the deletion of empty
   sessions beside a call, as long as no two calls overlap and no copy stands alone. *)
THEOREM NumbersAreUnique == Spec => []SequenceNumbersDistinct
<1>1. IInv => SequenceNumbersDistinct
  BY DEF IInv, Sound, Clean, Numbered, SequenceNumbersDistinct
<1> QED
  BY <1>1, InitSound, StepSound, PTL DEF Spec
=============================================================================
