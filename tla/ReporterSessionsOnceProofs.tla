--------------------- MODULE ReporterSessionsOnceProofs ---------------------
(***************************************************************************)
(* Theorems about ReporterSessions while nothing goes wrong (faults = {}): *)
(* between two calls every session that has lived and ended has one        *)
(* EVENT_ALIVE, and EVENT_INIT has been stored once, with the first        *)
(* general session.                                                        *)
(*                                                                         *)
(* Both events follow another step within a call: an EVENT_ALIVE is due    *)
(* from the finishing of a session to its storing, an EVENT_INIT from the  *)
(* start of a general session, and the flag from the storing of the        *)
(* EVENT_INIT.  The invariants say what is due, and that it is always the  *)
(* very next step of its thread; see InOrder.  EVENT_INIT also rests on    *)
(* who reports it: only the executor (CallerInv), with the flag in memory  *)
(* as it is in the database (FlagsInv).                                    *)
(***************************************************************************)
EXTENDS ReporterSessionsCalmProofs

\* What a thread does next.
AliveDue(w) == w.todo # <<>> /\ IsAlive(w.todo[1])
InitDue(w)  == w.todo # <<>> /\ IsInit(w.todo[1])
MarkDue(w)  == w.todo # <<>> /\ IsMarkInit(w.todo[1])

NothingDue(w) == ~AliveDue(w) /\ ~InitDue(w) /\ ~MarkDue(w)

\* After the first step of a plan nothing is due but what that step calls for.
LEMMA RestIsNotDue ==
  ASSUME NEW w, InOrder(w), w.todo \in Seq(Steps), w.todo # <<>>, NEW cur, NEW new
  PROVE  NothingDue(GoneOn(Tail(w.todo), cur, new))
<1> DEFINE q == w.todo
           r == Tail(q)
<1>1. \A k \in DOMAIN r : k \in Nat /\ k + 1 \in DOMAIN q /\ k + 1 # 1 /\ r[k] = q[k + 1]
  BY TailSteps
<1>2. \A k \in DOMAIN q : IsPrompt(q[k]) => k = 1
  BY DEF InOrder
<1>3. r \in Seq(Steps)
  BY TailSteps
<1> HIDE DEF q, r
<1>4. \A k \in DOMAIN r : ~IsPrompt(r[k])
  BY <1>1, <1>2
<1>5. r # <<>> => 1 \in DOMAIN r
  BY <1>3
<1>6. CASE r = <<>>
  BY <1>6 DEF GoneOn, NoWork, NothingDue, AliveDue, InitDue, MarkDue, r, q
<1>7. CASE r # <<>>
  <2> DEFINE v == [todo |-> r, cur |-> cur, new |-> new]
  <2>1. v.todo = r
    OBVIOUS
  <2>2. GoneOn(r, cur, new) = v
    BY <1>7 DEF GoneOn
  <2> HIDE DEF v
  <2>3. NothingDue(v)
    BY <1>4, <1>5, <1>7, <2>1 DEF NothingDue, AliveDue, InitDue, MarkDue, IsPrompt
  <2> QED
    BY <2>2, <2>3 DEF r, q
<1> QED
  BY <1>6, <1>7

\* What is due when a step is put in front of the others.
LEMMA FrontIsDue ==
  ASSUME NEW z \in Seq(Steps), NEW x \in Steps, NEW cur, NEW new, NEW v, v = GoneOn(<<x>> \o z, cur, new)
  PROVE  /\ AliveDue(v) <=> IsAlive(x)
         /\ InitDue(v) <=> IsInit(x)
         /\ MarkDue(v) <=> IsMarkInit(x)
         /\ v.cur = cur /\ v.new = new
<1> DEFINE r == <<x>> \o z
<1>1. r # <<>> /\ r[1] = x
  BY InFront
<1> HIDE DEF r
<1>2. GoneOn(r, cur, new) = [todo |-> r, cur |-> cur, new |-> new]
  BY <1>1 DEF GoneOn
<1>3. v.todo = r /\ v.cur = cur /\ v.new = new
  BY <1>2 DEF r
<1> QED
  BY <1>1, <1>3 DEF AliveDue, InitDue, MarkDue

\* No call begins with such a step.
Opens(q) == \A k \in DOMAIN q : q[k].op # "mark" /\ (q[k].op = "add" => q[k].what \notin {"alive", "init"})

LEMMA ConcatOpens ==
  ASSUME NEW p \in Seq(Steps), NEW q \in Seq(Steps), Opens(p), Opens(q)
  PROVE  Opens(p \o q)
BY DEF Opens

LEMMA BuildersOpen ==
  ASSUME NEW s, NEW x
  PROVE  /\ Opens(EnsureEnded(s))
         /\ Opens(ResumeSteps(s, x))
         /\ Opens(PauseSteps(s, x))
         /\ Opens(ReportSteps(s, x))
         /\ Opens(FirstEventSteps(s, x))
         /\ Opens(ReattributionSteps(s))
<1> USE StepsTypes DEF Kinds, Flags
<1>0. Opens(<< >>)
  BY DEF Opens
<1>1. Opens(EnsureEnded(s)) /\ EnsureEnded(s) \in Seq(Steps)
  BY DEF Opens, EnsureEnded, End
<1>2. \A type \in {"General", "Background"} : Opens(Started(type)) /\ Started(type) \in Seq(Steps)
  BY DEF Opens, Started, Create, Add
<1>3. \A q \in {<<Add("client", "cur")>>, <<Add("client", "new")>>, <<AddOrReport>>,
                <<Add("first", "cur"), Add("start", "cur")>>,
                <<Create("Background"), Add("first", "new"), Add("start", "new")>>} :
        Opens(q) /\ q \in Seq(Steps)
  <2>1. \A y \in {Add("client", "cur"), Add("client", "new"), AddOrReport, Add("first", "cur"),
                   Add("start", "cur"), Create("Background"), Add("first", "new"), Add("start", "new")} :
          y \in Steps /\ y.op # "mark" /\ (y.op = "add" => y.what \notin {"alive", "init"})
    BY DEF Add, Create, AddOrReport
  <2>2. \A y \in Steps : y.op # "mark" /\ (y.op = "add" => y.what \notin {"alive", "init"}) =>
          Opens(<<y>>) /\ <<y>> \in Seq(Steps)
    BY DEF Opens
  <2>3. Opens(<<Add("first", "cur"), Add("start", "cur")>>) /\ <<Add("first", "cur"), Add("start", "cur")>> \in Seq(Steps)
    BY <2>1 DEF Opens
  <2>4. /\ Opens(<<Create("Background"), Add("first", "new"), Add("start", "new")>>)
        /\ <<Create("Background"), Add("first", "new"), Add("start", "new")>> \in Seq(Steps)
    BY <2>1 DEF Opens
  <2> QED
    BY <2>1, <2>2, <2>3, <2>4
<1> HIDE StepsTypes DEF Kinds, Flags
<1>4. \A type \in {"General", "Background"} :
        Opens(EnsureEnded(s) \o Started(type)) /\ EnsureEnded(s) \o Started(type) \in Seq(Steps)
  BY <1>1, <1>2, ConcatOpens
<1>5. \A type \in {"General", "Background"}, q \in {<<Add("client", "new")>>, <<AddOrReport>>} :
        Opens(EnsureEnded(s) \o Started(type) \o q)
  BY <1>3, <1>4, ConcatOpens
<1>6. Opens(ResumeSteps(s, x))
  BY <1>0, <1>4 DEF ResumeSteps
<1>7. Opens(PauseSteps(s, x))
  BY <1>0, <1>1 DEF PauseSteps
<1>8. Opens(ReportSteps(s, x))
  BY <1>3, <1>5 DEF ReportSteps
<1>9. Opens(FirstEventSteps(s, x))
  BY <1>1, <1>3, ConcatOpens DEF FirstEventSteps
<1>10. Opens(ReattributionSteps(s))
  BY <1>5 DEF ReattributionSteps
<1> QED
  BY <1>1, <1>6, <1>7, <1>8, <1>9, <1>10

LEMMA OpensNotDue ==
  ASSUME NEW q \in Seq(Steps), Opens(q), NEW s, NEW new
  PROVE  NothingDue(GoneOn(q, s, new))
<1>1. CASE q = <<>>
  BY <1>1 DEF GoneOn, NoWork, NothingDue, AliveDue, InitDue, MarkDue
<1>2. CASE q # <<>>
  <2> DEFINE v == [todo |-> q, cur |-> s, new |-> new]
  <2>1. v.todo = q /\ 1 \in DOMAIN q /\ GoneOn(q, s, new) = v
    BY <1>2 DEF GoneOn
  <2> HIDE DEF v
  <2>2. NothingDue(v)
    BY <2>1 DEF Opens, NothingDue, AliveDue, InitDue, MarkDue, IsAlive, IsInit, IsMarkInit
  <2> QED
    BY <2>1, <2>2
<1> QED
  BY <1>1, <1>2

-----------------------------------------------------------------------------
(* EVENT_ALIVE. *)

\* Whether a session is live, in whichever of its rows, and whether it has an EVENT_ALIVE.
Unended(id, rs)  == \E i \in DOMAIN rs : rs[i].id = id /\ ~rs[i].finished
HasAlive(id, es) == \E e \in DOMAIN es : es[e].kind = "alive" /\ es[e].id = id

\* The sessions whose EVENT_ALIVE is due.
DueIDs(wk) == {i \in Nat : \E t \in Threads : AliveDue(wk[t]) /\ wk[t].cur.id = i}

(* A session has one EVENT_ALIVE if it has lived, has ended, and the event is not due, and
   none otherwise. *)
AlivesFit(es, rs, lv, n, due) ==
  /\ \A d, e \in DOMAIN es :
       es[d].kind = "alive" /\ es[e].kind = "alive" /\ es[d].id = es[e].id => d = e
  /\ lv \subseteq 1..n
  /\ \A id \in Nat : Unended(id, rs) => id \in lv
  /\ \A id \in Nat : HasAlive(id, es) <=> id \in lv /\ ~Unended(id, rs) /\ id \notin due
  /\ \A id \in due : id \in lv /\ ~Unended(id, rs)

\* The sessions whose EVENT_ALIVE is due when one thread is at work.
LEMMA AloneIsDue ==
  ASSUME NEW wk, NEW t \in Threads, \A u \in Threads \ {t} : wk[u] = NoWork
  PROVE  /\ AliveDue(wk[t]) /\ wk[t].cur.id \in Nat => DueIDs(wk) = {wk[t].cur.id}
         /\ ~AliveDue(wk[t]) => DueIDs(wk) = {}
<1>1. \A u \in Threads \ {t} : ~AliveDue(wk[u])
  BY DEF NoWork, AliveDue
<1> QED
  BY <1>1 DEF DueIDs

\* A session ends, and its event is due, ...
LEMMA AliveFallsDue ==
  ASSUME NEW es, NEW rs, NEW lv, NEW n, AlivesFit(es, rs, lv, n, {}), NEW id \in Nat, Unended(id, rs),
         NEW rs2, \A i \in Nat : Unended(i, rs2) <=> Unended(i, rs) /\ i # id
  PROVE  AlivesFit(es, rs2, lv, n, {id})
BY DEF AlivesFit

\* ... one is created, ...
LEMMA AlivesOfNew ==
  ASSUME NEW es, NEW rs, NEW lv, NEW n \in Nat, AlivesFit(es, rs, lv, n, {}), NEW rs2, NEW lv2,
         NEW fin \in BOOLEAN,
         \A i \in Nat : Unended(i, rs2) <=> Unended(i, rs) \/ (i = n + 1 /\ fin = FALSE),
         lv2 = IF fin THEN lv ELSE lv \cup {n + 1}
  PROVE  AlivesFit(es, rs2, lv2, n + 1, {})
<1>1. n + 1 \notin lv /\ lv \subseteq 1..n /\ lv2 \subseteq 1..(n + 1)
  BY DEF AlivesFit
<1>2. n + 1 \in Nat /\ ~Unended(n + 1, rs)
  BY <1>1 DEF AlivesFit
<1>3. \A id \in Nat : id \in lv2 <=> id \in lv \/ (id = n + 1 /\ fin = FALSE)
  BY <1>2
<1>4. \A id \in Nat : Unended(id, rs2) => id \in lv2
  BY <1>3 DEF AlivesFit
<1>5. \A id \in Nat : HasAlive(id, es) <=> id \in lv2 /\ ~Unended(id, rs2)
  BY <1>1, <1>2, <1>3 DEF AlivesFit
<1> QED
  BY <1>1, <1>4, <1>5 DEF AlivesFit

\* ... or gets its event.
LEMMA AliveIsStored ==
  ASSUME NEW es \in Seq(Event), NEW rs, NEW lv, NEW n, NEW id \in Nat, AlivesFit(es, rs, lv, n, {id}),
         NEW e \in Event, e.kind = "alive", e.id = id
  PROVE  AlivesFit(Append(es, e), rs, lv, n, {})
<1> DEFINE es2 == Append(es, e)
<1>1. es2 \in Seq(Event) /\ Len(es2) = Len(es) + 1 /\ es2[Len(es) + 1] = e /\ Len(es) + 1 \in DOMAIN es2
      /\ \A d \in DOMAIN es : d \in DOMAIN es2 /\ es2[d] = es[d] /\ d # Len(es) + 1
  OBVIOUS
<1>2. \A d \in DOMAIN es2 : d \in DOMAIN es \/ d = Len(es) + 1
  OBVIOUS
<1> HIDE DEF es2
<1>3. ~HasAlive(id, es)
  BY DEF AlivesFit
<1>4. \A i \in Nat : HasAlive(i, es2) <=> HasAlive(i, es) \/ i = id
  <2>1. \A i \in Nat : HasAlive(i, es) => HasAlive(i, es2)
    BY <1>1 DEF HasAlive
  <2>2. HasAlive(id, es2)
    BY <1>1 DEF HasAlive
  <2>3. \A i \in Nat : HasAlive(i, es2) => HasAlive(i, es) \/ i = id
    BY <1>1, <1>2 DEF HasAlive
  <2> QED
    BY <2>1, <2>2, <2>3
<1>5. \A d, c \in DOMAIN es2 : es2[d].kind = "alive" /\ es2[c].kind = "alive" /\ es2[d].id = es2[c].id => d = c
  <2>1. \A d, c \in DOMAIN es : es[d].kind = "alive" /\ es[c].kind = "alive" /\ es[d].id = es[c].id => d = c
    BY DEF AlivesFit
  <2>2. \A d \in DOMAIN es : es[d].kind = "alive" => es[d].id # id
    BY <1>3 DEF HasAlive
  <2> QED
    BY <1>1, <1>2, <2>1, <2>2
<1>6. AlivesFit(es2, rs, lv, n, {})
  BY <1>4, <1>5 DEF AlivesFit
<1> QED
  BY <1>6 DEF es2

\* Other events leave this as it is.
LEMMA AlivesOfOthers ==
  ASSUME NEW es \in Seq(Event), NEW rs, NEW lv, NEW n, NEW due, AlivesFit(es, rs, lv, n, due),
         NEW e \in Event, e.kind # "alive"
  PROVE  AlivesFit(Append(es, e), rs, lv, n, due)
<1> DEFINE es2 == Append(es, e)
<1>1. es2[Len(es) + 1] = e
      /\ \A d \in DOMAIN es : d \in DOMAIN es2 /\ es2[d] = es[d]
  OBVIOUS
<1>2. \A d \in DOMAIN es2 : d \in DOMAIN es \/ d = Len(es) + 1
  OBVIOUS
<1> HIDE DEF es2
<1>3. \A i \in Nat : HasAlive(i, es2) <=> HasAlive(i, es)
  <2>1. \A i \in Nat : HasAlive(i, es) => HasAlive(i, es2)
    BY <1>1 DEF HasAlive
  <2>2. \A i \in Nat : HasAlive(i, es2) => HasAlive(i, es)
    BY <1>1, <1>2 DEF HasAlive
  <2> QED
    BY <2>1, <2>2
<1>4. \A d, c \in DOMAIN es2 : es2[d].kind = "alive" /\ es2[c].kind = "alive" /\ es2[d].id = es2[c].id => d = c
  BY <1>1, <1>2 DEF AlivesFit
<1>5. AlivesFit(es2, rs, lv, n, due)
  BY <1>3, <1>4 DEF AlivesFit
<1> QED
  BY <1>5 DEF es2

LEMMA AlivesOfSame ==
  ASSUME NEW es, NEW rs, NEW lv, NEW n, NEW due, AlivesFit(es, rs, lv, n, due),
         NEW es2, DOMAIN es2 = DOMAIN es,
         \A e \in DOMAIN es : es2[e].kind = es[e].kind /\ es2[e].id = es[e].id,
         NEW rs2, \A i \in Nat : Unended(i, rs2) <=> Unended(i, rs), due \subseteq Nat
  PROVE  AlivesFit(es2, rs2, lv, n, due)
<1>1. \A i \in Nat : HasAlive(i, es2) <=> HasAlive(i, es)
  BY DEF HasAlive
<1>2. \A d, c \in DOMAIN es2 : es2[d].kind = "alive" /\ es2[c].kind = "alive" /\ es2[d].id = es2[c].id => d = c
  BY DEF AlivesFit
<1> QED
  BY <1>1, <1>2 DEF AlivesFit

AliveInv == Quiet => AlivesFit(events, rows, lived, lastSessionID, DueIDs(work))


\* A thread alone at work keeps the invariant if it does so itself.
LEMMA AloneKeepsAlives ==
  ASSUME NEW t \in Threads, \A u \in Threads \ {t} : work'[u] = NoWork, NEW due,
         \/ AliveDue(work'[t]) /\ work'[t].cur.id \in Nat /\ due = {work'[t].cur.id}
         \/ ~AliveDue(work'[t]) /\ due = {},
         AlivesFit(events', rows', lived', lastSessionID', due)
  PROVE  AliveInv'
<1> DEFINE wk == work'
<1>1. \A u \in Threads \ {t} : wk[u] = NoWork
  OBVIOUS
<1>2. /\ AliveDue(wk[t]) /\ wk[t].cur.id \in Nat => DueIDs(wk) = {wk[t].cur.id}
      /\ ~AliveDue(wk[t]) => DueIDs(wk) = {}
  <2> HIDE DEF wk
  <2> QED
    BY <1>1, AloneIsDue
<1>3. DueIDs(wk) = due
  BY <1>2
<1> QED
  BY <1>3 DEF AliveInv

\* What is due when a thread takes a step that stores no EVENT_ALIVE.
LEMMA NothingIsDue ==
  ASSUME AliveInv, Quiet, NEW t \in Threads, NEW op, AtWork(t, op), ~IsAlive(work[t].todo[1])
  PROVE  AlivesFit(events, rows, lived, lastSessionID, {})
<1>1. \A u \in Threads \ {t} : work[u] = NoWork
  BY DEF AtWork
<1>2. ~AliveDue(work[t])
  BY DEF AliveDue
<1>3. DueIDs(work) = {}
  BY <1>1, <1>2, AloneIsDue
<1> QED
  BY <1>3 DEF AliveInv

\* The only row of a session that can be unfinished is its last one.
LEMMA UnendedIsLast ==
  ASSUME NEW rs \in Seq(Row), NEW n, RowsFit(rs, n), NEW s, Agrees(s, rs)
  PROVE  /\ s.id \in Nat
         /\ \A i \in DOMAIN rs : rs[i].id = s.id /\ ~rs[i].finished => i = s.oid
         /\ Unended(s.id, rs) <=> ~s.finished
<1>1. s.oid \in DOMAIN rs /\ s.id = rs[s.oid].id /\ s.finished = rs[s.oid].finished /\ ~IsStale(s.oid, rs)
  BY DEF Agrees
<1>2. rs[s.oid] \in Row
  BY <1>1
<1>3. \A i \in DOMAIN rs : rs[i].id = s.id /\ ~rs[i].finished => i = s.oid
  <2> SUFFICES ASSUME NEW i \in DOMAIN rs, rs[i].id = s.id, ~rs[i].finished, i # s.oid PROVE FALSE
    OBVIOUS
  <2>1. i \in Nat /\ s.oid \in Nat
    BY <1>1
  <2>2. CASE i < s.oid
    <3>1. IsStale(i, rs)
      BY <1>1, <2>1, <2>2 DEF IsStale
    <3> QED
      BY <3>1 DEF RowsFit
  <2>3. CASE i > s.oid
    BY <1>1, <2>3 DEF IsStale
  <2> QED
    BY <2>1, <2>2, <2>3
<1>4. Unended(s.id, rs) <=> ~s.finished
  BY <1>1, <1>3 DEF Unended
<1>5. s.id \in Nat
  BY <1>1, <1>2 DEF Row
<1> QED
  BY <1>3, <1>4, <1>5

LEMMA EndSessionAlive ==
  ASSUME Typed, AliveInv, Quiet, NEW t \in Threads, AtWork(t, "end"), EndSession(t)
  PROVE  AliveInv'
<1> SUFFICES ASSUME Quiet' PROVE AliveInv'
  BY DEF AliveInv
<1> DEFINE w == work[t]
           q == <<Add("alive", "cur")>> \o Tail(w.todo)
           id == w.cur.id
<1>1. EndEffect(t)
  BY EndSessionEffect
<1>2. PICK cur \in Object : cur.id = id /\ work'[t] = [todo |-> q, cur |-> cur, new |-> w.new]
  BY <1>1 DEF EndEffect
<1>3. /\ Agrees(w.cur, rows) /\ ~w.cur.finished
      /\ Alters(rows, rows', w.cur.oid) /\ rows'[w.cur.oid].finished
      /\ \A u \in Threads \ {t} : work'[u] = NoWork
  BY <1>1 DEF EndEffect
<1>4. /\ rows \in Seq(Row) /\ RowsFit(rows, lastSessionID)
      /\ w.todo \in Seq(Steps) /\ w.todo # <<>> /\ ~IsAlive(w.todo[1])
  BY DEF AtWork, IsAlive
<1>5. UNCHANGED <<events, lived, lastSessionID>>
  BY DEF EndSession
<1>6. AlivesFit(events, rows, lived, lastSessionID, {})
  BY <1>4, NothingIsDue
<1>7. id \in Nat /\ Unended(id, rows) /\ \A i \in DOMAIN rows : rows[i].id = id /\ ~rows[i].finished => i = w.cur.oid
  <2> HIDE DEF w
  <2> QED
    BY <1>3, <1>4, UnendedIsLast
<1>8. AliveDue(work'[t]) /\ work'[t].cur.id = id
  <2>1. Add("alive", "cur") \in Steps /\ IsAlive(Add("alive", "cur"))
    BY StepsTypes DEF Kinds, IsAlive, Add
  <2>2. q[1] = Add("alive", "cur") /\ q # <<>>
    BY <1>4, <2>1, FirstReplaced
  <2> HIDE DEF q
  <2> QED
    BY <1>2, <2>1, <2>2 DEF AliveDue
<1> HIDE DEF w, id, q
<1>9. \A i \in Nat : Unended(i, rows') <=> Unended(i, rows) /\ i # id
  <2>1. /\ DOMAIN rows' = DOMAIN rows
        /\ \A j \in DOMAIN rows : rows'[j].id = rows[j].id /\ (j # w.cur.oid => rows'[j].finished = rows[j].finished)
    BY <1>3 DEF Alters
  <2>2. rows[w.cur.oid].id = id
    BY <1>3 DEF Agrees, id
  <2>3. \A j \in DOMAIN rows : ~rows'[j].finished <=> ~rows[j].finished /\ rows[j].id # id
    BY <1>3, <1>7, <2>1, <2>2
  <2> QED
    BY <2>1, <2>3 DEF Unended
<1>10. AlivesFit(events', rows', lived', lastSessionID', {id})
  BY <1>5, <1>6, <1>7, <1>9, AliveFallsDue
<1> QED
  BY <1>3, <1>7, <1>8, <1>10, AloneKeepsAlives

LEMMA NewSessionAlive ==
  ASSUME Typed, AliveInv, Quiet, NEW t \in Threads, AtWork(t, "create"), NewSession(t)
  PROVE  AliveInv'
<1> SUFFICES ASSUME Quiet' PROVE AliveInv'
  BY DEF AliveInv
<1> DEFINE w == work[t]
           n == lastSessionID
<1>1. CreateEffect(t)
  BY NewSessionEffect
<1>2. PICK row \in Row : \E new \in Object :
        /\ row.id = n + 1
        /\ rows' = Append(rows, row)
        /\ lived' = IF row.finished THEN lived ELSE lived \cup {row.id}
        /\ work'[t] = GoneOn(Tail(w.todo), w.cur, new)
  BY <1>1 DEF CreateEffect
<1>3. lastSessionID' = n + 1 /\ \A u \in Threads \ {t} : work'[u] = NoWork
  BY <1>1 DEF CreateEffect
<1>4. /\ rows \in Seq(Row) /\ n \in Nat
      /\ w.todo \in Seq(Steps) /\ w.todo # <<>> /\ ~IsAlive(w.todo[1]) /\ InOrder(w)
  BY DEF AtWork, IsAlive, PlanCalm
<1>5. UNCHANGED events
  BY DEF NewSession
<1>6. AlivesFit(events, rows, lived, n, {})
  BY <1>4, NothingIsDue
<1>7. ~AliveDue(work'[t])
  <2> HIDE DEF w
  <2> QED
    BY <1>2, <1>4, RestIsNotDue DEF NothingDue
<1>8. row.finished \in BOOLEAN
  BY DEF Row
<1> DEFINE fin == row.finished
<1>9. \A i \in Nat : Unended(i, rows') <=> Unended(i, rows) \/ (i = n + 1 /\ fin = FALSE)
  <2>1. /\ DOMAIN rows' = DOMAIN rows \cup {Len(rows) + 1} /\ rows'[Len(rows) + 1] = row
        /\ \A j \in DOMAIN rows : rows'[j] = rows[j]
    BY <1>2, <1>4, AppendedRow
  <2>2. \A i : Unended(i, rows) => Unended(i, rows')
    BY <2>1 DEF Unended
  <2>3. fin = FALSE => Unended(n + 1, rows')
    BY <1>2, <2>1 DEF Unended
  <2>4. \A i : Unended(i, rows') => Unended(i, rows) \/ (i = n + 1 /\ fin = FALSE)
    BY <1>2, <1>8, <2>1 DEF Unended
  <2> QED
    BY <2>2, <2>3, <2>4
<1>10. lived' = IF fin THEN lived ELSE lived \cup {n + 1}
  BY <1>2
<1> HIDE DEF n, fin
<1>11. AlivesFit(events, rows', lived', n + 1, {})
  BY <1>4, <1>6, <1>8, <1>9, <1>10, AlivesOfNew DEF fin
<1> QED
  BY <1>3, <1>5, <1>7, <1>11, AloneKeepsAlives

LEMMA SaveSessionAsLastSessionAlive ==
  ASSUME Typed, AliveInv, Quiet, NEW t \in Threads, AtWork(t, "saveAsLast"), SaveSessionAsLastSession(t)
  PROVE  AliveInv'
<1> SUFFICES ASSUME Quiet' PROVE AliveInv'
  BY DEF AliveInv
<1> DEFINE w == work[t]
           s == w.cur
<1>1. SaveEffect(t)
  BY SaveSessionAsLastSessionEffect
<1>2. PICK rs \in Seq(Row) : \E row \in Row : \E cur \in Object :
       /\ Alters(rows, rs, s.oid) /\ rs[s.oid].finished
       /\ row.id = s.id /\ row.finished = s.finished
       /\ rows' = Append(rs, row)
       /\ work'[t] = GoneOn(Tail(w.todo), cur, w.new)
  BY <1>1 DEF SaveEffect
<1>3. PICK row \in Row : \E cur \in Object :
       /\ Alters(rows, rs, s.oid) /\ rs[s.oid].finished
       /\ row.id = s.id /\ row.finished = s.finished
       /\ rows' = Append(rs, row)
       /\ work'[t] = GoneOn(Tail(w.todo), cur, w.new)
  BY <1>2
<1>4. Agrees(s, rows) /\ \A u \in Threads \ {t} : work'[u] = NoWork
  BY <1>1 DEF SaveEffect
<1>5. /\ rows \in Seq(Row) /\ RowsFit(rows, lastSessionID)
      /\ w.todo \in Seq(Steps) /\ w.todo # <<>> /\ ~IsAlive(w.todo[1]) /\ InOrder(w)
  BY DEF AtWork, IsAlive, PlanCalm
<1>6. UNCHANGED <<events, lived, lastSessionID>>
  BY DEF SaveSessionAsLastSession
<1>7. AlivesFit(events, rows, lived, lastSessionID, {})
  BY <1>5, NothingIsDue
<1>8. ~AliveDue(work'[t])
  <2> HIDE DEF w
  <2> QED
    BY <1>3, <1>5, RestIsNotDue DEF NothingDue
<1> HIDE DEF w, s
<1>9. /\ \A i \in DOMAIN rows : rows[i].id = s.id /\ ~rows[i].finished => i = s.oid
      /\ Unended(s.id, rows) <=> ~s.finished
      /\ rows[s.oid].id = s.id
  BY <1>4, <1>5, UnendedIsLast DEF Agrees
<1>10. \A i \in Nat : Unended(i, rows') <=> Unended(i, rows)
  <2>1. /\ DOMAIN rs = DOMAIN rows
        /\ \A j \in DOMAIN rows : rs[j].id = rows[j].id /\ (j # s.oid => rs[j].finished = rows[j].finished)
        /\ rs \in Seq(Row)
    BY <1>3 DEF Alters
  <2>2. /\ DOMAIN rows' = DOMAIN rows \cup {Len(rs) + 1} /\ rows'[Len(rs) + 1] = row
        /\ \A j \in DOMAIN rows : rows'[j] = rs[j]
    BY <1>3, <2>1, AppendedRow
  <2>3. \A j \in DOMAIN rows : ~rs[j].finished <=> ~rows[j].finished /\ rows[j].id # s.id
    BY <1>3, <1>9, <2>1
  <2>4. \A i \in Nat : i # s.id => (Unended(i, rows') <=> Unended(i, rows))
    <3>1. \A j \in DOMAIN rows' : rows'[j].id # s.id => j \in DOMAIN rows
      BY <1>3, <2>2
    <3> QED
      BY <2>1, <2>2, <2>3, <3>1 DEF Unended
  <2>5. Unended(s.id, rows') <=> ~s.finished
    <3>1. ~s.finished => Unended(s.id, rows')
      BY <1>3, <2>2 DEF Unended
    <3>2. \A j \in DOMAIN rows : ~(rows'[j].id = s.id /\ ~rows'[j].finished)
      BY <2>1, <2>2, <2>3
    <3>3. s.finished => ~Unended(s.id, rows')
      BY <1>3, <2>2, <3>2 DEF Unended
    <3> QED
      BY <3>1, <3>3
  <2> QED
    BY <1>9, <2>4, <2>5
<1>11. AlivesFit(events', rows', lived', lastSessionID', {})
  BY <1>6, <1>7, <1>10, AlivesOfSame
<1> QED
  BY <1>4, <1>8, <1>11, AloneKeepsAlives

\* What is due after an event was stored: what follows it.
LEMMA DueAfterEvent ==
  ASSUME NEW t \in Threads, AtWork(t, "add"), AddEffect(t)
  PROVE  LET w == work[t]
             x == w.todo[1]
             s == Goal(x, w)
         IN  /\ ~AliveDue(work'[t])
             /\ InitDue(work'[t]) <=> x.what = "start" /\ ShouldReportInit(x.what, s)
             /\ MarkDue(work'[t]) <=> x.what = "init"
<1> DEFINE w == work[t]
           x == w.todo[1]
           s == Goal(x, w)
           z == Tail(w.todo)
           kind == x.what
           on == x.on
           r == AfterAdding(kind, on, s) \o z
<1>1. PICK cur, new : work'[t] = GoneOn(r, cur, new)
  BY DEF AddEffect
<1>2. kind \in Kinds /\ on \in {"cur", "new"}
  BY DEF AddEffect
<1>3. w.todo \in Seq(Steps) /\ w.todo # <<>> /\ InOrder(w)
  BY DEF AtWork, PlanCalm
<1> HIDE DEF w
<1>4. z \in Seq(Steps)
  BY <1>3, TailSteps
<1> SUFFICES /\ ~AliveDue(work'[t])
             /\ InitDue(work'[t]) <=> kind = "start" /\ ShouldReportInit(kind, s)
             /\ MarkDue(work'[t]) <=> kind = "init"
  BY DEF w
<1>5. IsFollowedUp(r, z, kind, on, s)
  <2> HIDE DEF z, s, kind, on
  <2> QED
    BY <1>2, <1>4, FollowUps
<1> HIDE DEF r, s, kind, on
<1>6. CASE r = z /\ kind \notin Flags /\ ~ShouldReportInit(kind, s)
  <2>1. NothingDue(work'[t])
    BY <1>1, <1>3, <1>6, RestIsNotDue
  <2> QED
    BY <1>6, <2>1 DEF NothingDue, Flags
<1>7. ASSUME NEW y \in Steps, r = <<y>> \o z
      PROVE  /\ AliveDue(work'[t]) <=> IsAlive(y)
             /\ InitDue(work'[t]) <=> IsInit(y)
             /\ MarkDue(work'[t]) <=> IsMarkInit(y)
  <2> DEFINE v == work'[t]
  <2>1. v = GoneOn(<<y>> \o z, cur, new)
    BY <1>1, <1>7
  <2> SUFFICES (AliveDue(v) <=> IsAlive(y)) /\ (InitDue(v) <=> IsInit(y)) /\ (MarkDue(v) <=> IsMarkInit(y))
    OBVIOUS
  <2> HIDE DEF v, x, z
  <2> QED
    BY <1>4, <2>1, FrontIsDue
<1>8. CASE r = <<Mark(kind)>> \o z /\ kind \in Flags /\ Mark(kind) \in Steps
  <2>1. Mark(kind).op = "mark" /\ Mark(kind).what = kind /\ kind # "start"
    BY <1>8 DEF Mark, Flags
  <2>2. ~IsAlive(Mark(kind)) /\ ~IsInit(Mark(kind)) /\ (IsMarkInit(Mark(kind)) <=> kind = "init")
    BY <2>1 DEF IsAlive, IsInit, IsMarkInit
  <2> QED
    BY <1>7, <1>8, <2>1, <2>2
<1>9. CASE r = <<Add("init", on)>> \o z /\ kind = "start" /\ ShouldReportInit(kind, s) /\ Add("init", on) \in Steps
  <2>1. Add("init", on).op = "add" /\ Add("init", on).what = "init"
    BY DEF Add
  <2>2. ~IsAlive(Add("init", on)) /\ IsInit(Add("init", on)) /\ ~IsMarkInit(Add("init", on))
    BY <2>1 DEF IsAlive, IsInit, IsMarkInit
  <2> QED
    BY <1>7, <1>9, <2>2
<1> QED
  BY <1>5, <1>6, <1>8, <1>9 DEF IsFollowedUp

LEMMA SameRowsUnended ==
  ASSUME NEW rs, NEW rs2, SameRows(rs, rs2)
  PROVE  \A i : Unended(i, rs2) <=> Unended(i, rs)
BY DEF SameRows, Unended

LEMMA AddEventAlive ==
  ASSUME Typed, AliveInv, Quiet, NEW t \in Threads, AtWork(t, "add"), AddEvent(t)
  PROVE  AliveInv'
<1> SUFFICES ASSUME Quiet' PROVE AliveInv'
  BY DEF AliveInv
<1> DEFINE w == work[t]
           x == w.todo[1]
           s == Goal(x, w)
<1>1. AddEffect(t)
  BY AddEventEffect
<1>2. /\ s \in Object /\ SameRows(rows, rows')
      /\ \A u \in Threads \ {t} : work'[u] = NoWork
  BY <1>1 DEF AddEffect
<1>3. PICK e \in Event : e.id = s.id /\ e.kind = x.what /\ events' = Append(events, e)
  BY <1>1 DEF AddEffect
<1>4. ~AliveDue(work'[t])
  BY <1>1, DueAfterEvent
<1>5. events \in Seq(Event) /\ w.todo # <<>> /\ InOrder(w) /\ 1 \in DOMAIN w.todo
      /\ \A u \in Threads \ {t} : work[u] = NoWork
  BY TailSteps DEF AtWork, PlanCalm
<1>6. UNCHANGED <<lived, lastSessionID>>
  BY DEF AddEvent
<1>7. \A i : Unended(i, rows') <=> Unended(i, rows)
  BY <1>2, SameRowsUnended
<1>8. x.op = "add"
  BY DEF AtWork
<1>9. AlivesFit(events', rows, lived, lastSessionID, {})
  <2>1. CASE IsAlive(x)
    <3>1. s = w.cur
      BY <1>5, <2>1 DEF InOrder, Goal
    <3>2. s.id \in Nat
      BY <1>2 DEF Object
    <3>3. AliveDue(work[t])
      BY <1>5, <2>1 DEF AliveDue
    <3>4. DueIDs(work) = {s.id}
      BY <1>5, <3>1, <3>2, <3>3, AloneIsDue
    <3>5. AlivesFit(events, rows, lived, lastSessionID, {s.id})
      BY <3>4 DEF AliveInv
    <3>6. e.kind = "alive"
      BY <1>3, <2>1 DEF IsAlive
    <3> HIDE DEF s
    <3> QED
      BY <1>3, <1>5, <3>2, <3>5, <3>6, AliveIsStored
  <2>2. CASE ~IsAlive(x)
    <3>1. AlivesFit(events, rows, lived, lastSessionID, {})
      BY <2>2, NothingIsDue
    <3>2. e.kind # "alive"
      BY <1>3, <1>8, <2>2 DEF IsAlive
    <3> QED
      BY <1>3, <1>5, <3>1, <3>2, AlivesOfOthers
  <2> QED
    BY <2>1, <2>2
<1>10. AlivesFit(events', rows', lived', lastSessionID', {})
  BY <1>6, <1>7, <1>9, AlivesOfSame
<1> QED
  BY <1>2, <1>4, <1>10, AloneKeepsAlives

LEMMA MarkEventSentAlive ==
  ASSUME Typed, AliveInv, Quiet, NEW t \in Threads, AtWork(t, "mark"), MarkEventSent(t)
  PROVE  AliveInv'
<1> SUFFICES ASSUME Quiet' PROVE AliveInv'
  BY DEF AliveInv
<1> DEFINE w == work[t]
<1>1. MarkEffect(t)
  BY MarkEventSentEffect
<1>2. /\ work'[t] = GoneOn(Tail(w.todo), w.cur, w.new)
      /\ UNCHANGED <<rows, events>> /\ \A u \in Threads \ {t} : work'[u] = NoWork
  BY <1>1 DEF MarkEffect
<1>3. w.todo \in Seq(Steps) /\ w.todo # <<>> /\ ~IsAlive(w.todo[1]) /\ InOrder(w)
  BY DEF AtWork, IsAlive, PlanCalm
<1>4. UNCHANGED <<lived, lastSessionID>>
  BY DEF MarkEventSent
<1>5. AlivesFit(events, rows, lived, lastSessionID, {})
  BY <1>3, NothingIsDue
<1>6. ~AliveDue(work'[t])
  <2> HIDE DEF w
  <2> QED
    BY <1>2, <1>3, RestIsNotDue DEF NothingDue
<1> QED
  BY <1>2, <1>4, <1>5, <1>6, AloneKeepsAlives

\* The event that comes with a reattribution is nothing that is due.
LEMMA ClientNext ==
  ASSUME NEW t \in Threads, AtWork(t, "addOrReport"), OrReportEffect(t)
  PROVE  NothingDue(work'[t])
<1> DEFINE w == work[t]
           z == Tail(w.todo)
           x == Add("client", "new")
           v == work'[t]
<1>1. v = GoneOn(<<x>> \o z, w.cur, w.new)
  BY DEF OrReportEffect
<1>2. z \in Seq(Steps)
  BY TailSteps DEF AtWork
<1>3. x \in Steps /\ ~IsAlive(x) /\ ~IsInit(x) /\ ~IsMarkInit(x)
  BY StepsTypes DEF Kinds, Add, IsAlive, IsInit, IsMarkInit
<1> SUFFICES NothingDue(v)
  OBVIOUS
<1> HIDE DEF v, x, z
<1> QED
  BY <1>1, <1>2, <1>3, FrontIsDue DEF NothingDue

LEMMA AddToNewOrReportAlive ==
  ASSUME Typed, AliveInv, Quiet, NEW t \in Threads, AtWork(t, "addOrReport"), AddToNewOrReport(t)
  PROVE  AliveInv'
<1> SUFFICES ASSUME Quiet' PROVE AliveInv'
  BY DEF AliveInv
<1>1. OrReportEffect(t)
  BY AddToNewOrReportEffect
<1>2. UNCHANGED <<rows, events>> /\ \A u \in Threads \ {t} : work'[u] = NoWork
  BY <1>1 DEF OrReportEffect
<1>3. UNCHANGED <<lived, lastSessionID>>
  BY DEF AddToNewOrReport, stored
<1>4. ~IsAlive(work[t].todo[1])
  BY DEF AtWork, IsAlive
<1>5. AlivesFit(events, rows, lived, lastSessionID, {})
  BY <1>4, NothingIsDue
<1>6. ~AliveDue(work'[t])
  BY <1>1, ClientNext DEF NothingDue
<1> QED
  BY <1>2, <1>3, <1>5, <1>6, AloneKeepsAlives

\* A thread that lets go of its objects has nothing due.
LEMMA NoWorkIsNotDue == NothingDue(NoWork)
BY DEF NothingDue, AliveDue, InitDue, MarkDue, NoWork

\* What a call leaves due: nothing.
CallOpens ==
  \/ UNCHANGED work
  \/ \A u \in Threads : work[u] = NoWork /\ NothingDue(work'[u])

LEMMA CallBeginsOpen ==
  ASSUME Typed, Quiet', NEW t \in Threads, IsIdle(t), NEW todo \in Seq(Steps), Opens(todo),
         NEW s, NEW meant, Referable(s, rows), Begin(t, todo, s, meant), UNCHANGED stored
  PROVE  CallOpens
<1>1. \A u \in Threads : IsIdle(u)
  BY DEF Begin, Quiet
<1>2. \A u \in Threads : work[u] = NoWork
  BY <1>1 DEF Typed, WorkFits, IsIdle
<1>3. UNCHANGED rows
  BY DEF stored
<1>4. work'[t] = GoneOn(todo, s, NoSession) /\ \A u \in Threads \ {t} : work'[u] = NoWork
  BY <1>2, <1>3, CallBegins
<1>5. NothingDue(work'[t])
  BY <1>4, OpensNotDue
<1> QED
  BY <1>2, <1>4, <1>5, NoWorkIsNotDue DEF CallOpens

\* The steps for a past event.
LEMMA PastOpens ==
  ASSUME NEW s
  PROVE  /\ Opens(<<Add("past", "cur")>>) /\ <<Add("past", "cur")>> \in Seq(Steps)
         /\ Opens(NewPastSessionSteps(s)) /\ NewPastSessionSteps(s) \in Seq(Steps)
<1>0. /\ Create("Finished") \in Steps /\ Add("start", "new") \in Steps /\ SaveAsLast \in Steps
      /\ Add("past", "new") \in Steps /\ Add("past", "cur") \in Steps
  BY StepsTypes DEF Kinds
<1>1. \A y \in {Create("Finished"), Add("start", "new"), SaveAsLast, Add("past", "new"), Add("past", "cur")} :
        y.op # "mark" /\ (y.op = "add" => y.what \notin {"alive", "init"})
  BY DEF Create, Add, SaveAsLast
<1>2. Opens(<<Add("past", "cur")>>) /\ <<Add("past", "cur")>> \in Seq(Steps)
  BY <1>0, <1>1 DEF Opens
<1>3. Opens(Started("Finished")) /\ Started("Finished") \in Seq(Steps)
  BY <1>0, <1>1 DEF Opens, Started
<1>4. \A q \in {<<>>, <<SaveAsLast>>, <<Add("past", "new")>>} : Opens(q) /\ q \in Seq(Steps)
  <2>1. Opens(<<>>) /\ <<>> \in Seq(Steps)
    BY DEF Opens
  <2>2. \A y \in {SaveAsLast, Add("past", "new")} : Opens(<<y>>) /\ <<y>> \in Seq(Steps)
    BY <1>0, <1>1 DEF Opens
  <2> QED
    BY <2>1, <2>2
<1>5. Opens(NewPastSessionSteps(s))
  <2> DEFINE q == IF s.finished THEN <<>> ELSE <<SaveAsLast>>
  <2>1. Opens(q) /\ q \in Seq(Steps)
    BY <1>4
  <2> HIDE DEF q
  <2>2. Opens(Started("Finished") \o q) /\ Started("Finished") \o q \in Seq(Steps)
    BY <1>3, <2>1, ConcatOpens
  <2>3. Opens((Started("Finished") \o q) \o <<Add("past", "new")>>)
    BY <1>4, <2>2, ConcatOpens
  <2> QED
    BY <2>3 DEF NewPastSessionSteps, q
<1> QED
  BY <1>2, <1>5, NewPastSessionPlan

LEMMA CallsOpen ==
  ASSUME Typed, Quiet',
         \/ Setup \/ ReportFirstEventIfNeeded \/ ResumeSession \/ PauseSession
         \/ ReportEvent \/ ReportReattribution \/ ReportEventToPastSession
  PROVE  CallOpens
<1>0. "executor" \in Threads /\ "caller" \in Threads /\ rows \in Seq(Row)
  BY DEF Typed, TypeOK, Threads
<1>1. UNCHANGED stored
  BY DEF Setup, ReportFirstEventIfNeeded, ResumeSession, PauseSession, Call,
         ReportEvent, ReportReattribution, ReportEventToPastSession
<1>2. /\ \A s \in Reading(LastSession) : Referable(s, rows)
      /\ \A s \in Reading(LastGeneralSession) : Referable(s, rows)
      /\ \A x : \A s \in Reading(PreviousSession(x)) : Referable(s, rows)
  BY <1>0, SessionsRead
<1>3. ASSUME NEW t \in Threads, IsIdle(t), NEW s, NEW meant, Referable(s, rows), NEW x, NEW todo,
             todo \in {EnsureEnded(s), ResumeSteps(s, x), ReportSteps(s, x), FirstEventSteps(s, x),
                       PauseSteps(s, x), ReattributionSteps(s)},
             Begin(t, todo, s, meant)
      PROVE  CallOpens
  <2>1. todo \in Seq(Steps)
    BY <1>3, BuildersArePlans DEF IsPlan
  <2>2. Opens(todo)
    BY <1>3, BuildersOpen
  <2> QED
    BY <1>1, <1>3, <2>1, <2>2, CallBeginsOpen
<1>4. ASSUME Setup PROVE CallOpens
  BY <1>0, <1>2, <1>3, <1>4 DEF Setup
<1>5. ASSUME ReportFirstEventIfNeeded PROVE CallOpens
  <2>1. CASE sent["first"]
    BY <1>5, <2>1 DEF ReportFirstEventIfNeeded, CallOpens
  <2>2. CASE ~sent["first"]
    BY <1>0, <1>2, <1>3, <1>5, <2>2 DEF ReportFirstEventIfNeeded
  <2> QED
    BY <2>1, <2>2
<1>6. ASSUME ResumeSession PROVE CallOpens
  BY <1>0, <1>2, <1>3, <1>6 DEF ResumeSession, Call
<1>7. ASSUME PauseSession PROVE CallOpens
  BY <1>0, <1>2, <1>3, <1>7 DEF PauseSession, Call
<1>8. ASSUME ReportEvent PROVE CallOpens
  BY <1>0, <1>2, <1>3, <1>8 DEF ReportEvent, Call
<1>9. ASSUME ReportReattribution PROVE CallOpens
  BY <1>0, <1>2, <1>3, <1>9 DEF ReportReattribution, Call
<1>10. ASSUME ReportEventToPastSession PROVE CallOpens
  <2>1. IsIdle("caller")
    BY <1>10 DEF ReportEventToPastSession
  <2>2. PICK s, meant, todo : /\ Referable(s, rows) /\ Begin("caller", todo, s, meant)
                              /\ todo \in {<<Add("past", "cur")>>, NewPastSessionSteps(s)}
    BY <1>2, <1>10 DEF ReportEventToPastSession
  <2>3. Opens(todo) /\ todo \in Seq(Steps)
    BY <2>2, PastOpens
  <2> QED
    BY <1>0, <1>1, <2>1, <2>2, <2>3, CallBeginsOpen
<1> QED
  BY <1>4, <1>5, <1>6, <1>7, <1>8, <1>9, <1>10

LEMMA CallsAlive ==
  ASSUME Typed, AliveInv, Quiet' => Quiet,
         \/ Setup \/ ReportFirstEventIfNeeded \/ ResumeSession \/ PauseSession
         \/ ReportEvent \/ ReportReattribution \/ ReportEventToPastSession
  PROVE  AliveInv'
<1> SUFFICES ASSUME Quiet, Quiet' PROVE AliveInv'
  BY DEF AliveInv
<1>1. UNCHANGED <<events, rows, lived, lastSessionID>>
  BY DEF Setup, ReportFirstEventIfNeeded, ResumeSession, PauseSession, Call,
         ReportEvent, ReportReattribution, ReportEventToPastSession, stored
<1>2. CallOpens
  BY CallsOpen
<1>3. DueIDs(work') = DueIDs(work)
  <2>1. CASE UNCHANGED work
    BY <2>1
  <2>2. CASE \A u \in Threads : work[u] = NoWork /\ NothingDue(work'[u])
    <3>1. \A u \in Threads : ~AliveDue(work[u]) /\ ~AliveDue(work'[u])
      BY <2>2, NoWorkIsNotDue DEF NothingDue
    <3> QED
      BY <3>1 DEF DueIDs
  <2> QED
    BY <1>2, <2>1, <2>2 DEF CallOpens
<1> QED
  BY <1>1, <1>3 DEF AliveInv

LEMMA PurgeEventsPurges ==
  ASSUME Typed, PurgeEvents
  PROVE  /\ DOMAIN events' = DOMAIN events
         /\ \A e \in DOMAIN events : /\ events'[e].kind = events[e].kind
                                     /\ events'[e].id = events[e].id
                                     /\ events'[e].session = events[e].session
<1>1. CASE UNCHANGED events
  BY <1>1
<1>2. CASE ~UNCHANGED events
  <2>1. PICK sessions \in SUBSET Stored \ {{}} :
          events' = [e \in DOMAIN events |->
                       IF events[e].session \in sessions
                       THEN [events[e] EXCEPT !.purged = TRUE] ELSE events[e]]
    BY <1>2 DEF PurgeEvents
  <2>2. \A e \in DOMAIN events : events[e] \in Event
    BY DEF Typed, TypeOK
  <2> QED
    BY <2>1, <2>2 DEF Event
<1> QED
  BY <1>1, <1>2

LEMMA PurgesAlive ==
  ASSUME Typed, AliveInv, Quiet' => Quiet, PurgeEvents \/ PurgeEmptySessions \/ Die
  PROVE  AliveInv'
<1> SUFFICES ASSUME Quiet, Quiet' PROVE AliveInv'
  BY DEF AliveInv
<1> DEFINE due == DueIDs(work)
<1>1. UNCHANGED <<lived, lastSessionID>>
  BY DEF PurgeEvents, PurgeEmptySessions, Die, stored
<1>2. AlivesFit(events, rows, lived, lastSessionID, due) /\ due \subseteq Nat
  BY DEF AliveInv, DueIDs
<1>3. DueIDs(work') = due
  <2>1. CASE Die
    <3>1. \A u \in Threads : work'[u] = NoWork
      BY <2>1 DEF Die
    <3>2. \A u \in Threads : work[u] = NoWork
      BY <2>1 DEF Die, Quiet, Idle, IsIdle, Typed, WorkFits
    <3>3. \A u \in Threads : ~AliveDue(work[u]) /\ ~AliveDue(work'[u])
      BY <3>1, <3>2, NoWorkIsNotDue DEF NothingDue
    <3> QED
      BY <3>3 DEF DueIDs
  <2>2. CASE PurgeEvents \/ PurgeEmptySessions
    BY <2>2 DEF PurgeEvents, PurgeEmptySessions
  <2> QED
    BY <2>1, <2>2
<1>4. /\ DOMAIN events' = DOMAIN events
      /\ \A e \in DOMAIN events : events'[e].kind = events[e].kind /\ events'[e].id = events[e].id
  BY PurgeEventsPurges DEF PurgeEmptySessions, Die, stored
<1>5. \A i : Unended(i, rows') <=> Unended(i, rows)
  <2>1. CASE PurgeEmptySessions
    <3>1. Deletes(rows, rows')
      BY <2>1, PurgeEmptyDeletes DEF Typed, TypeOK
    <3> QED
      BY <3>1 DEF Deletes, Unended
  <2>2. CASE PurgeEvents \/ Die
    <3>1. UNCHANGED rows
      BY <2>2 DEF PurgeEvents, Die, stored
    <3> QED
      BY <3>1
  <2> QED
    BY <2>1, <2>2
<1> HIDE DEF due
<1>6. AlivesFit(events', rows', lived', lastSessionID', due)
  BY <1>1, <1>2, <1>4, <1>5, AlivesOfSame
<1> QED
  BY <1>3, <1>6 DEF AliveInv

LEMMA InitAlive == Init => AliveInv
<1> SUFFICES ASSUME Init PROVE AlivesFit(events, rows, lived, lastSessionID, DueIDs(work))
  BY DEF AliveInv
<1>1. \A u \in Threads : ~AliveDue(work[u])
  BY NoWorkIsNotDue DEF Init, NothingDue
<1>2. DueIDs(work) = {}
  BY <1>1 DEF DueIDs
<1>3. DOMAIN rows = {} /\ DOMAIN events = {} /\ lived = {}
  BY DEF Init
<1> QED
  BY <1>2, <1>3 DEF AlivesFit, HasAlive, Unended

LEMMA StepAlive == CInv /\ AliveInv /\ [Next]_vars => AliveInv'
<1> SUFFICES ASSUME IInv, CalmInv, AliveInv, [Next]_vars PROVE AliveInv'
  BY DEF CInv
<1>0. Typed /\ Sound
  BY DEF IInv
<1>1. CASE UNCHANGED vars
  BY <1>1 DEF vars, stored, AliveInv, Quiet
<1>2. CASE Next
  <2>1. Quiet' => Quiet
    BY <1>0, <1>2, FaultsStay DEF Quiet
  <2>2. ASSUME NEW t \in Threads, Perform(t) PROVE AliveInv'
    <3>1. SUFFICES ASSUME Quiet PROVE AliveInv'
      BY <2>1 DEF AliveInv
    <3>2. \A op : IsNext(t, op) => AtWork(t, op)
      BY <1>0, <3>1, CalmContext
    <3>3. CASE EndSession(t)
      BY <1>0, <3>1, <3>2, <3>3, EndSessionAlive DEF EndSession
    <3>4. CASE NewSession(t)
      BY <1>0, <3>1, <3>2, <3>4, NewSessionAlive DEF NewSession
    <3>5. CASE SaveSessionAsLastSession(t)
      BY <1>0, <3>1, <3>2, <3>5, SaveSessionAsLastSessionAlive DEF SaveSessionAsLastSession
    <3>6. CASE AddEvent(t)
      BY <1>0, <3>1, <3>2, <3>6, AddEventAlive DEF AddEvent
    <3>7. CASE MarkEventSent(t)
      BY <1>0, <3>1, <3>2, <3>7, MarkEventSentAlive DEF MarkEventSent
    <3>8. CASE AddToNewOrReport(t)
      BY <1>0, <3>1, <3>2, <3>8, AddToNewOrReportAlive DEF AddToNewOrReport
    <3> QED
      BY <2>2, <3>3, <3>4, <3>5, <3>6, <3>7, <3>8 DEF Perform
  <2> QED
    BY <1>0, <1>2, <2>1, <2>2, CallsAlive, PurgesAlive DEF Next
<1> QED
  BY <1>1, <1>2

(* As long as nothing went wrong, a session that was created unfinished has one EVENT_ALIVE
   between two calls if it has ended, and none while it is live; one that was made for a past
   event never gets one.  -endSession:updatedAt: finishes a session before it stores the
   event, so that only the plan of a call says that the event is still to come. *)
THEOREM EndedSessionsHaveOneAlive == Spec => []EndedSessionsHaveAlive
<1>1. CInv /\ AliveInv => EndedSessionsHaveAlive
  <2> SUFFICES ASSUME CInv, AliveInv, Quiet, Idle, NEW id \in 1..lastSessionID
               PROVE  Cardinality(EventsOf(id, "alive")) = IF id \in lived /\ ~IsLive(id) THEN 1 ELSE 0
    BY DEF EndedSessionsHaveAlive, Quiet
  <2>1. rows \in Seq(Row) /\ RowsFit(rows, lastSessionID) /\ LiveRows(rows, work) /\ lastSessionID \in Nat
    BY DEF CInv, IInv, Typed, TypeOK, Sound, Clean, CalmInv, Quiet
  <2>2. id \in Nat
    BY <2>1
  <2>3. \A u \in Threads : ~AliveDue(work[u])
    BY DEF Idle, IsIdle, AliveDue
  <2>4. id \notin DueIDs(work)
    BY <2>3 DEF DueIDs
  <2>5. AlivesFit(events, rows, lived, lastSessionID, DueIDs(work))
    BY DEF AliveInv
  <2>6. IsLive(id) <=> Unended(id, rows)
    <3>1. IsLive(id) => Unended(id, rows)
      BY DEF IsLive, Unended, Kept
    <3>2. ASSUME NEW i \in DOMAIN rows, rows[i].id = id, ~rows[i].finished PROVE IsLive(id)
      <4>1. i = Len(rows)
        BY <2>1, <3>2 DEF LiveRows, Idle, IsIdle, Saves
      <4>2. ~rows[i].deleted
        BY <2>1, <4>1 DEF RowsFit
      <4> QED
        BY <3>2, <4>2 DEF IsLive, Kept
    <3> QED
      BY <3>1, <3>2 DEF Unended
  <2>7. HasAlive(id, events) <=> id \in lived /\ ~IsLive(id)
    BY <2>2, <2>4, <2>5, <2>6 DEF AlivesFit
  <2>8. CASE HasAlive(id, events)
    <3>1. PICK e \in DOMAIN events : events[e].kind = "alive" /\ events[e].id = id
      BY <2>8 DEF HasAlive
    <3>2. EventsOf(id, "alive") = {e}
      BY <2>5, <3>1 DEF AlivesFit, EventsOf
    <3> QED
      BY <2>7, <2>8, <3>2, FS_Singleton
  <2>9. CASE ~HasAlive(id, events)
    <3>1. EventsOf(id, "alive") = {}
      BY <2>9 DEF HasAlive, EventsOf
    <3> QED
      BY <2>7, <2>9, <3>1, FS_EmptySet
  <2> QED
    BY <2>8, <2>9
<1>2. Init => CInv /\ AliveInv
  BY InitCalm, InitAlive
<1>3. CInv /\ AliveInv /\ [Next]_vars => (CInv /\ AliveInv)'
  BY StepCalm, StepAlive
<1> QED
  BY <1>1, <1>2, <1>3, PTL DEF Spec

-----------------------------------------------------------------------------
(* EVENT_INIT.  First what the two threads have to do with it: the caller's thread never
   reports it, for its sessions are background ones, ... *)

CallerFits(w) ==
  /\ w.new.type = "Background"
  /\ \A k \in DOMAIN w.todo :
       /\ w.todo[k].op \in {"create", "add", "saveAsLast"}
       /\ w.todo[k].op = "create" => w.todo[k].what = "Finished"
       /\ w.todo[k].op = "add" => w.todo[k].what = "past" \/ (w.todo[k].what = "start" /\ w.todo[k].on = "new")

CallerInv == Quiet => CallerFits(work["caller"])

(* ... and the executor acts with the flag in memory as it is in the database. *)
FlagsInv ==
  Quiet =>
    /\ launch = "setup" => IsIdle("executor")
    /\ launch # "setup" => sent["init"] = saved["init"]
    /\ sent["init"] => saved["init"]

\* A step of a thread leaves the other one alone, which has nothing to do.
LEMMA OthersRest ==
  ASSUME Typed, Quiet', NEW t \in Threads, Perform(t), \A op : IsNext(t, op) => AtWork(t, op)
  PROVE  \A u \in Threads \ {t} : work'[u] = NoWork
<1>1. CASE EndSession(t)
  <2>1. EndEffect(t)
    BY <1>1, EndSessionEffect DEF EndSession
  <2> QED
    BY <2>1 DEF EndEffect
<1>2. CASE NewSession(t)
  <2>1. CreateEffect(t)
    BY <1>2, NewSessionEffect DEF NewSession
  <2> QED
    BY <2>1 DEF CreateEffect
<1>3. CASE SaveSessionAsLastSession(t)
  <2>1. SaveEffect(t)
    BY <1>3, SaveSessionAsLastSessionEffect DEF SaveSessionAsLastSession
  <2> QED
    BY <2>1 DEF SaveEffect
<1>4. CASE AddEvent(t)
  <2>1. AddEffect(t)
    BY <1>4, AddEventEffect DEF AddEvent
  <2> QED
    BY <2>1 DEF AddEffect
<1>5. CASE MarkEventSent(t)
  <2>1. MarkEffect(t)
    BY <1>5, MarkEventSentEffect DEF MarkEventSent
  <2> QED
    BY <2>1 DEF MarkEffect
<1>6. CASE AddToNewOrReport(t)
  <2>1. OrReportEffect(t)
    BY <1>6, AddToNewOrReportEffect DEF AddToNewOrReport
  <2> QED
    BY <2>1 DEF OrReportEffect
<1> QED
  BY <1>1, <1>2, <1>3, <1>4, <1>5, <1>6 DEF Perform

LEMMA NoWorkFitsCaller == CallerFits(NoWork)
BY DEF CallerFits, NoWork, NoSession

LEMMA CallerGoesOn ==
  ASSUME NEW w, CallerFits(w), w.todo \in Seq(Steps), w.todo # <<>>,
         NEW cur, NEW new, new.type = "Background"
  PROVE  CallerFits(GoneOn(Tail(w.todo), cur, new))
<1> DEFINE r == Tail(w.todo)
           v == [todo |-> r, cur |-> cur, new |-> new]
<1>1. \A k \in DOMAIN r : k + 1 \in DOMAIN w.todo /\ r[k] = w.todo[k + 1]
  BY TailSteps
<1>2. v.todo = r /\ v.new = new
  OBVIOUS
<1>3. GoneOn(r, cur, new) = IF r = <<>> THEN NoWork ELSE v
  BY DEF GoneOn
<1> HIDE DEF r, v
<1>4. CallerFits(v)
  BY <1>1, <1>2 DEF CallerFits
<1>5. CallerFits(GoneOn(r, cur, new))
  BY <1>3, <1>4, NoWorkFitsCaller
<1> QED
  BY <1>5 DEF r

\* What the caller adds is a past event, or the start of a background session.
LEMMA CallerAdds ==
  ASSUME AtWork("caller", "add"), CallerFits(work["caller"])
  PROVE  LET w == work["caller"]
             x == w.todo[1]
         IN  x.what \in {"past", "start"} /\ (x.what = "start" => Goal(x, w) = w.new /\ w.new.type = "Background")
<1>1. 1 \in DOMAIN work["caller"].todo /\ work["caller"].todo[1].op = "add"
  BY TailSteps DEF AtWork
<1> QED
  BY <1>1 DEF CallerFits, Goal

LEMMA CallerStepFits ==
  ASSUME Typed, CallerInv, Quiet, Quiet', NEW t \in Threads, Perform(t), \A op : IsNext(t, op) => AtWork(t, op)
  PROVE  CallerFits(work'["caller"])
<1>0. \A u \in Threads \ {t} : work'[u] = NoWork
  BY OthersRest
<1>1. CASE t # "caller"
  BY <1>0, <1>1, NoWorkFitsCaller DEF Threads
<1>2. CASE t = "caller"
  <2> DEFINE w == work[t]
             v == work'[t]
  <2>1. CallerFits(w)
    BY <1>2 DEF CallerInv
  <2> SUFFICES CallerFits(v)
    BY <1>2
  <2>2. \A op : IsNext(t, op) => w.todo \in Seq(Steps) /\ w.todo # <<>> /\ w.todo[1].op = op /\ 1 \in DOMAIN w.todo
    BY TailSteps DEF AtWork
  <2>3. \A op : IsNext(t, op) => op \in {"create", "add", "saveAsLast"}
    BY <2>1, <2>2 DEF CallerFits
  <2>4. w.new.type = "Background"
    BY <2>1 DEF CallerFits
  <2>5. CASE NewSession(t)
    <3>1. AtWork(t, "create") /\ IsNext(t, "create")
      BY <2>5 DEF NewSession
    <3>2. CreateEffect(t) /\ w.todo[1].what = "Finished"
      BY <2>1, <2>2, <2>5, <3>1, NewSessionEffect DEF CallerFits
    <3>3. PICK row \in Row : \E new \in Object : /\ row.type = "Background" /\ new.type = row.type
                                                 /\ v = GoneOn(Tail(w.todo), w.cur, new)
      BY <3>2 DEF CreateEffect
    <3>4. PICK new : new.type = "Background" /\ v = GoneOn(Tail(w.todo), w.cur, new)
      BY <3>3
    <3> HIDE DEF v, w
    <3> QED
      BY <2>1, <2>2, <3>1, <3>4, CallerGoesOn
  <2>6. CASE SaveSessionAsLastSession(t)
    <3>1. AtWork(t, "saveAsLast") /\ IsNext(t, "saveAsLast")
      BY <2>6 DEF SaveSessionAsLastSession
    <3>2. SaveEffect(t)
      BY <2>6, <3>1, SaveSessionAsLastSessionEffect
    <3>3. \E cur : v = GoneOn(Tail(w.todo), cur, w.new)
      BY <3>2 DEF SaveEffect
    <3> HIDE DEF v, w
    <3> QED
      BY <2>1, <2>2, <2>4, <3>1, <3>3, CallerGoesOn
  <2>7. CASE AddEvent(t)
    <3> DEFINE x == w.todo[1]
               s == Goal(x, w)
               z == Tail(w.todo)
    <3>1. AtWork(t, "add") /\ IsNext(t, "add")
      BY <2>7 DEF AddEvent
    <3>2. AddEffect(t)
      BY <2>7, <3>1, AddEventEffect
    <3>3. x.what \in {"past", "start"} /\ (x.what = "start" => s = w.new)
      BY <1>2, <2>1, <3>1, CallerAdds
    <3>4. x.what \notin Flags /\ ~ShouldReportInit(x.what, s)
      BY <2>4, <3>3 DEF Flags, ShouldReportInit
    <3>5. AfterAdding(x.what, x.on, s) = <<>>
      BY <3>4 DEF AfterAdding
    <3>6. \E cur, new : new.type = w.new.type /\ v = GoneOn(<<>> \o z, cur, new)
      BY <3>2, <3>5 DEF AddEffect
    <3>7. z \in Seq(Steps)
      BY <2>2, <3>1, TailSteps
    <3>8. <<>> \o z = z
      BY <3>7, ConcatEmptySeq
    <3> HIDE DEF v, w
    <3> QED
      BY <2>1, <2>2, <2>4, <3>1, <3>6, <3>8, CallerGoesOn
  <2>8. CASE EndSession(t) \/ MarkEventSent(t) \/ AddToNewOrReport(t)
    BY <2>3, <2>8 DEF EndSession, MarkEventSent, AddToNewOrReport
  <2> QED
    BY <2>5, <2>6, <2>7, <2>8 DEF Perform
<1> QED
  BY <1>1, <1>2

\* The calls for a past event are planned so, ...
LEMMA PastFitsCaller ==
  ASSUME NEW s
  PROVE  /\ CallerFits(GoneOn(<<Add("past", "cur")>>, s, NoSession))
         /\ CallerFits(GoneOn(NewPastSessionSteps(s), s, NoSession))
<1> DEFINE Fits(y) == /\ y.op \in {"create", "add", "saveAsLast"}
                      /\ y.op = "create" => y.what = "Finished"
                      /\ y.op = "add" => y.what = "past" \/ (y.what = "start" /\ y.on = "new")
           AllFit(q) == q \in Seq(Steps) /\ \A k \in DOMAIN q : Fits(q[k])
<1>1. \A y \in {Create("Finished"), Add("start", "new"), SaveAsLast, Add("past", "new"), Add("past", "cur")} :
        y \in Steps /\ Fits(y)
  <2>1. /\ Create("Finished") \in Steps /\ Add("start", "new") \in Steps /\ SaveAsLast \in Steps
        /\ Add("past", "new") \in Steps /\ Add("past", "cur") \in Steps
    BY StepsTypes DEF Kinds
  <2>2. /\ Fits(Create("Finished")) /\ Fits(Add("start", "new")) /\ Fits(SaveAsLast)
        /\ Fits(Add("past", "new")) /\ Fits(Add("past", "cur"))
    BY DEF Create, Add, SaveAsLast
  <2> HIDE DEF Fits
  <2> QED
    BY <2>1, <2>2
<1>2. NoSession.type = "Background"
  BY DEF NoSession
<1>3. ASSUME NEW q, AllFit(q) PROVE CallerFits(GoneOn(q, s, NoSession))
  <2> DEFINE v == [todo |-> q, cur |-> s, new |-> NoSession]
  <2>1. v.todo = q /\ v.new = NoSession
    OBVIOUS
  <2>2. GoneOn(q, s, NoSession) = IF q = <<>> THEN NoWork ELSE v
    BY DEF GoneOn
  <2> HIDE DEF v
  <2>3. CallerFits(v)
    BY <1>2, <1>3, <2>1 DEF CallerFits
  <2> QED
    BY <2>2, <2>3, NoWorkFitsCaller
<1> HIDE DEF Fits
<1>4. \A p, q : AllFit(p) /\ AllFit(q) => AllFit(p \o q)
  OBVIOUS
<1>5. AllFit(<<>>)
  OBVIOUS
<1>6. \A y \in {SaveAsLast, Add("past", "new"), Add("past", "cur")} : AllFit(<<y>>)
  BY <1>1
<1>7. AllFit(Started("Finished"))
  BY <1>1 DEF Started
<1> HIDE DEF AllFit
<1>8. AllFit(NewPastSessionSteps(s))
  <2> DEFINE q == IF s.finished THEN <<>> ELSE <<SaveAsLast>>
  <2>1. AllFit(q)
    BY <1>5, <1>6
  <2> HIDE DEF q
  <2>2. AllFit((Started("Finished") \o q) \o <<Add("past", "new")>>)
    BY <1>4, <1>6, <1>7, <2>1
  <2> QED
    BY <2>2 DEF NewPastSessionSteps, q
<1> QED
  BY <1>3, <1>6, <1>8

LEMMA CallsFitCaller ==
  ASSUME Typed, CallerInv, Quiet, Quiet',
         \/ Setup \/ ReportFirstEventIfNeeded \/ ResumeSession \/ PauseSession
         \/ ReportEvent \/ ReportReattribution \/ ReportEventToPastSession
  PROVE  CallerFits(work'["caller"])
<1>0. /\ "caller" \in Threads /\ "executor" # "caller"
      /\ work \in [Threads -> [todo : Seq(Step), cur : Object, new : Object]]
      /\ CallerFits(work["caller"]) /\ rows \in Seq(Row)
  BY DEF Threads, CallerInv, Typed, TypeOK
<1>1. CASE ReportEventToPastSession
  <2>1. PICK s, meant, todo : /\ Referable(s, rows) /\ Begin("caller", todo, s, meant)
                              /\ todo \in {<<Add("past", "cur")>>, NewPastSessionSteps(s)}
    BY <1>0, <1>1, SessionsRead DEF ReportEventToPastSession
  <2>2. todo \in Seq(Steps) /\ UNCHANGED rows
    BY <1>1, <2>1, PastOpens DEF ReportEventToPastSession, stored
  <2>3. work'["caller"] = GoneOn(todo, s, NoSession)
    BY <1>0, <2>1, <2>2, CallBegins
  <2> QED
    BY <2>1, <2>3, PastFitsCaller
<1>2. CASE Setup \/ ReportFirstEventIfNeeded \/ ResumeSession \/ PauseSession
           \/ ReportEvent \/ ReportReattribution
  <2>1. \A todo, s, meant : Begin("executor", todo, s, meant) => work'["caller"] = work["caller"]
    BY <1>0 DEF Begin, GoOn
  <2>2. UNCHANGED work \/ \E todo, s, meant : Begin("executor", todo, s, meant)
    BY <1>2 DEF Setup, ReportFirstEventIfNeeded, ResumeSession, PauseSession, ReportEvent, ReportReattribution
  <2> QED
    BY <1>0, <2>1, <2>2
<1> QED
  BY <1>1, <1>2

LEMMA StepCaller == CInv /\ CallerInv /\ [Next]_vars => CallerInv'
<1> SUFFICES ASSUME IInv, CalmInv, CallerInv, [Next]_vars, Quiet' PROVE CallerFits(work'["caller"])
  BY DEF CInv, CallerInv
<1>0. Typed /\ Sound
  BY DEF IInv
<1>1. CASE UNCHANGED vars
  BY <1>1 DEF vars, stored, CallerInv, Quiet
<1>2. CASE Next
  <2>1. Quiet
    BY <1>0, <1>2, FaultsStay DEF Quiet
  <2>2. CASE \E t \in Threads : Perform(t)
    <3>1. PICK t \in Threads : Perform(t)
      BY <2>2
    <3>2. \A op : IsNext(t, op) => AtWork(t, op)
      BY <1>0, <2>1, CalmContext
    <3> QED
      BY <1>0, <2>1, <3>1, <3>2, CallerStepFits
  <2>3. CASE PurgeEvents \/ PurgeEmptySessions
    BY <2>1, <2>3 DEF PurgeEvents, PurgeEmptySessions, CallerInv
  <2>4. CASE Die
    BY <2>4, NoWorkFitsCaller DEF Die, Threads
  <2> QED
    BY <1>0, <1>2, <2>1, <2>2, <2>3, <2>4, CallsFitCaller DEF Next
<1> QED
  BY <1>1, <1>2

LEMMA StepFlags == CInv /\ FlagsInv /\ [Next]_vars => FlagsInv'
<1> SUFFICES ASSUME IInv, CalmInv, FlagsInv, [Next]_vars, Quiet'
             PROVE  /\ launch' = "setup" => IsIdle("executor")'
                    /\ launch' # "setup" => sent'["init"] = saved'["init"]
                    /\ sent'["init"] => saved'["init"]
  BY DEF CInv, FlagsInv
<1>0. Typed /\ Sound /\ "executor" \in Threads /\ "init" \in Flags
      /\ sent \in [Flags -> BOOLEAN] /\ saved \in [Flags -> BOOLEAN] 
  BY DEF IInv, Threads, Flags, Typed, TypeOK
<1>1. CASE UNCHANGED vars
  BY <1>1 DEF vars, stored, FlagsInv, Quiet, IsIdle
<1>2. CASE Next
  <2>1. Quiet
    BY <1>0, <1>2, FaultsStay DEF Quiet
  <2>2. /\ launch = "setup" => IsIdle("executor")
        /\ launch # "setup" => sent["init"] = saved["init"]
        /\ sent["init"] => saved["init"]
    BY <2>1 DEF FlagsInv
  <2>3. CASE \E t \in Threads : Perform(t)
    <3>1. PICK t \in Threads : Perform(t)
      BY <2>3
    <3>2. \A op : IsNext(t, op) => AtWork(t, op)
      BY <1>0, <2>1, CalmContext
    <3>3. UNCHANGED launch /\ ~IsIdle(t)
      BY <3>1 DEF Perform, EndSession, NewSession, SaveSessionAsLastSession, AddEvent, MarkEventSent,
                  AddToNewOrReport, IsNext
    <3>4. launch = "setup" => IsIdle("executor")'
      <4>1. launch = "setup" => t # "executor"
        BY <2>2, <3>3
      <4>2. t # "executor" => work'["executor"] = NoWork
        BY <1>0, <3>1, <3>2, OthersRest
      <4> QED
        BY <4>1, <4>2 DEF IsIdle, NoWork
    <3>5. CASE MarkEventSent(t)
      <4>1. AtWork(t, "mark")
        BY <3>2, <3>5 DEF MarkEventSent
      <4>2. MarkEffect(t)
        BY <1>0, <3>5, <4>1, MarkEventSentEffect
      <4>3. PICK flag \in Flags : /\ sent' = [sent EXCEPT ![flag] = TRUE]
                                  /\ saved' = IF sent[flag] THEN saved ELSE [saved EXCEPT ![flag] = TRUE]
        BY <4>2 DEF MarkEffect
      <4>4. CASE flag = "init"
        BY <1>0, <2>2, <3>3, <3>4, <4>3, <4>4
      <4>5. CASE flag # "init"
        <5>1. sent'["init"] = sent["init"] /\ saved'["init"] = saved["init"]
          BY <1>0, <4>3, <4>5
        <5> QED
          BY <2>2, <3>3, <3>4, <5>1
      <4> QED
        BY <4>4, <4>5
    <3>6. CASE ~MarkEventSent(t)
      <4>1. UNCHANGED <<sent, saved>>
        BY <3>1, <3>6 DEF Perform, EndSession, NewSession, SaveSessionAsLastSession, AddEvent,
                          AddToNewOrReport, stored
      <4> QED
        BY <2>2, <3>3, <3>4, <4>1
    <3> QED
      BY <3>5, <3>6
  <2>4. CASE Setup
    BY <2>4 DEF Setup, stored
  <2>5. CASE ReportFirstEventIfNeeded \/ ResumeSession \/ PauseSession \/ ReportEvent \/ ReportReattribution
    <3>1. launch # "setup" /\ launch' # "setup" /\ UNCHANGED <<sent, saved>>
      BY <2>5 DEF ReportFirstEventIfNeeded, ResumeSession, PauseSession, ReportEvent, ReportReattribution,
                  Call, stored
    <3> QED
      BY <2>2, <3>1
  <2>6. CASE ReportEventToPastSession
    <3>1. UNCHANGED <<launch, sent, saved>>
      BY <2>6 DEF ReportEventToPastSession, stored
    <3>2. work'["executor"] = work["executor"]
      <4>1. work \in [Threads -> [todo : Seq(Step), cur : Object, new : Object]] /\ "executor" # "caller"
        BY <1>0 DEF Typed, TypeOK
      <4>2. \A todo, s, meant : Begin("caller", todo, s, meant) => work'["executor"] = work["executor"]
        BY <1>0, <4>1 DEF Begin, GoOn
      <4> QED
        BY <2>6, <4>2 DEF ReportEventToPastSession
    <3> QED
      BY <2>2, <3>1, <3>2 DEF IsIdle
  <2>7. CASE PurgeEvents \/ PurgeEmptySessions
    BY <2>2, <2>7 DEF PurgeEvents, PurgeEmptySessions, IsIdle
  <2>8. CASE Die
    <3>1. sent'["init"] = FALSE /\ work'["executor"] = NoWork /\ launch' = "setup"
      BY <1>0, <2>8 DEF Die
    <3> QED
      BY <3>1 DEF IsIdle, NoWork
  <2> QED
    BY <1>2, <2>3, <2>4, <2>5, <2>6, <2>7, <2>8 DEF Next
<1> QED
  BY <1>1, <1>2

-----------------------------------------------------------------------------

HasInit(es) == \E e \in DOMAIN es : es[e].kind = "init"

\* Whether a general session has been started.
GeneralStarted(es, rs) == \E e \in DOMAIN es : es[e].kind = "start" /\ rs[es[e].session].type = "General"

(* The EVENT_INIT is stored, once, if a general session has been started and the event is not
   due (init); the flag is saved if it is stored and the flag is not due (mark). *)
InitsFit(es, rs, flag, init, mark) ==
  /\ \A d, e \in DOMAIN es : es[d].kind = "init" /\ es[e].kind = "init" => d = e
  /\ HasInit(es) <=> GeneralStarted(es, rs) /\ ~init
  /\ init => GeneralStarted(es, rs)
  /\ flag <=> HasInit(es) /\ ~mark
  /\ mark => HasInit(es)

InitIsDue(wk) == \E t \in Threads : InitDue(wk[t])
MarkIsDue(wk) == \E t \in Threads : MarkDue(wk[t])

InitInv == Quiet => InitsFit(events, rows, saved["init"], InitIsDue(work), MarkIsDue(work))

\* What an event that is stored adds to this.
LEMMA InitsAppended ==
  ASSUME NEW es \in Seq(Event), NEW e \in Event, NEW rs
  PROVE  /\ HasInit(Append(es, e)) <=> HasInit(es) \/ e.kind = "init"
         /\ GeneralStarted(Append(es, e), rs) <=>
              GeneralStarted(es, rs) \/ (e.kind = "start" /\ rs[e.session].type = "General")
         /\ /\ e.kind # "init" \/ ~HasInit(es)
            /\ \A c, d \in DOMAIN es : es[c].kind = "init" /\ es[d].kind = "init" => c = d
            => \A c, d \in DOMAIN Append(es, e) :
                 Append(es, e)[c].kind = "init" /\ Append(es, e)[d].kind = "init" => c = d
<1> DEFINE es2 == Append(es, e)
<1>1. es2[Len(es) + 1] = e /\ Len(es) + 1 \in DOMAIN es2
      /\ \A d \in DOMAIN es : d \in DOMAIN es2 /\ es2[d] = es[d]
  OBVIOUS
<1>2. \A d \in DOMAIN es2 : d \in DOMAIN es \/ d = Len(es) + 1
  OBVIOUS
<1> HIDE DEF es2
<1>3. HasInit(es2) <=> HasInit(es) \/ e.kind = "init"
  <2>1. HasInit(es) \/ e.kind = "init" => HasInit(es2)
    BY <1>1 DEF HasInit
  <2>2. HasInit(es2) => HasInit(es) \/ e.kind = "init"
    BY <1>1, <1>2 DEF HasInit
  <2> QED
    BY <2>1, <2>2
<1>4. GeneralStarted(es2, rs) <=> GeneralStarted(es, rs) \/ (e.kind = "start" /\ rs[e.session].type = "General")
  <2>1. GeneralStarted(es, rs) \/ (e.kind = "start" /\ rs[e.session].type = "General") => GeneralStarted(es2, rs)
    BY <1>1 DEF GeneralStarted
  <2>2. GeneralStarted(es2, rs) => GeneralStarted(es, rs) \/ (e.kind = "start" /\ rs[e.session].type = "General")
    BY <1>1, <1>2 DEF GeneralStarted
  <2> QED
    BY <2>1, <2>2
<1>5. ASSUME e.kind # "init" \/ ~HasInit(es),
             \A c, d \in DOMAIN es : es[c].kind = "init" /\ es[d].kind = "init" => c = d
      PROVE  \A c, d \in DOMAIN es2 : es2[c].kind = "init" /\ es2[d].kind = "init" => c = d
  BY <1>1, <1>2, <1>5 DEF HasInit
<1> QED
  BY <1>3, <1>4, <1>5 DEF es2

\* Rows keep their types, and events their kinds and rows.
LEMMA InitsOfSame ==
  ASSUME NEW es, NEW rs, NEW flag, NEW init, NEW mark, InitsFit(es, rs, flag, init, mark),
         \A e \in DOMAIN es : es[e].session \in DOMAIN rs,
         NEW es2, DOMAIN es2 = DOMAIN es,
         \A e \in DOMAIN es : es2[e].kind = es[e].kind /\ es2[e].session = es[e].session,
         NEW rs2, \A i \in DOMAIN rs : rs2[i].type = rs[i].type
  PROVE  InitsFit(es2, rs2, flag, init, mark)
<1>1. HasInit(es2) <=> HasInit(es)
  BY DEF HasInit
<1>2. GeneralStarted(es2, rs2) <=> GeneralStarted(es, rs)
  BY DEF GeneralStarted
<1>3. \A d, e \in DOMAIN es2 : es2[d].kind = "init" /\ es2[e].kind = "init" => d = e
  BY DEF InitsFit
<1> QED
  BY <1>1, <1>2, <1>3 DEF InitsFit

\* What a thread alone at work has due.
LEMMA AloneHasDue ==
  ASSUME NEW wk, NEW t \in Threads, \A u \in Threads \ {t} : wk[u] = NoWork
  PROVE  (InitIsDue(wk) <=> InitDue(wk[t])) /\ (MarkIsDue(wk) <=> MarkDue(wk[t]))
<1>1. \A u \in Threads \ {t} : ~InitDue(wk[u]) /\ ~MarkDue(wk[u])
  BY NoWorkIsNotDue DEF NothingDue
<1> QED
  BY <1>1 DEF InitIsDue, MarkIsDue

LEMMA AloneHasDueThen ==
  ASSUME NEW t \in Threads, \A u \in Threads \ {t} : work'[u] = NoWork
  PROVE  (InitIsDue(work') <=> InitDue(work'[t])) /\ (MarkIsDue(work') <=> MarkDue(work'[t]))
<1> DEFINE wk == work'
<1>1. \A u \in Threads \ {t} : wk[u] = NoWork
  OBVIOUS
<1> SUFFICES (InitIsDue(wk) <=> InitDue(wk[t])) /\ (MarkIsDue(wk) <=> MarkDue(wk[t]))
  OBVIOUS
<1> HIDE DEF wk
<1> QED
  BY <1>1, AloneHasDue

\* A step after which nothing is due, and that takes none of these, keeps the invariant.
LEMMA KeepsInits ==
  ASSUME Typed, InitInv, Quiet, NEW t \in Threads, NEW op, AtWork(t, op),
         ~IsInit(work[t].todo[1]), ~IsMarkInit(work[t].todo[1]),
         \A u \in Threads \ {t} : work'[u] = NoWork, ~InitDue(work'[t]), ~MarkDue(work'[t]),
         UNCHANGED <<events, saved>>, \A i \in DOMAIN rows : rows'[i].type = rows[i].type
  PROVE  InitInv'
<1>1. \A u \in Threads \ {t} : work[u] = NoWork
  BY DEF AtWork
<1>2. ~InitDue(work[t]) /\ ~MarkDue(work[t])
  BY DEF InitDue, MarkDue
<1>3. ~InitIsDue(work) /\ ~MarkIsDue(work)
  BY <1>1, <1>2, AloneHasDue
<1>4. ~InitIsDue(work') /\ ~MarkIsDue(work')
  BY AloneHasDueThen
<1>5. InitsFit(events, rows, saved["init"], InitIsDue(work), MarkIsDue(work))
  BY DEF InitInv
<1>6. \A e \in DOMAIN events : events[e].session \in DOMAIN rows
  BY DEF Typed, TypeOK
<1>7. InitsFit(events', rows', saved'["init"], InitIsDue(work), MarkIsDue(work))
  BY <1>5, <1>6, InitsOfSame
<1> QED
  BY <1>3, <1>4, <1>7 DEF InitInv, InitsFit

LEMMA EndSessionInits ==
  ASSUME Typed, InitInv, Quiet, Quiet', NEW t \in Threads, AtWork(t, "end"), EndSession(t)
  PROVE  InitInv'
<1> DEFINE w == work[t]
           q == <<Add("alive", "cur")>> \o Tail(w.todo)
<1>1. EndEffect(t)
  BY EndSessionEffect
<1>2. work'[t].todo = q /\ Alters(rows, rows', w.cur.oid) /\ \A u \in Threads \ {t} : work'[u] = NoWork
  BY <1>1 DEF EndEffect
<1>3. UNCHANGED <<events, saved>>
  BY DEF EndSession
<1>4. ~IsInit(w.todo[1]) /\ ~IsMarkInit(w.todo[1]) /\ w.todo \in Seq(Steps) /\ w.todo # <<>>
  BY DEF AtWork, IsInit, IsMarkInit
<1>5. Add("alive", "cur") \in Steps /\ ~IsInit(Add("alive", "cur")) /\ ~IsMarkInit(Add("alive", "cur"))
  BY StepsTypes DEF Kinds, IsInit, IsMarkInit, Add
<1>6. q[1] = Add("alive", "cur")
  BY <1>4, <1>5, FirstReplaced
<1>7. ~InitDue(work'[t]) /\ ~MarkDue(work'[t])
  BY <1>2, <1>5, <1>6 DEF InitDue, MarkDue
<1>8. \A i \in DOMAIN rows : rows'[i].type = rows[i].type
  BY <1>2 DEF Alters
<1> QED
  BY <1>2, <1>3, <1>4, <1>7, <1>8, KeepsInits

LEMMA NewSessionInits ==
  ASSUME Typed, InitInv, Quiet, Quiet', NEW t \in Threads, AtWork(t, "create"), NewSession(t)
  PROVE  InitInv'
<1> DEFINE w == work[t]
<1>1. CreateEffect(t)
  BY NewSessionEffect
<1>2. PICK row \in Row : \E new \in Object :
        rows' = Append(rows, row) /\ work'[t] = GoneOn(Tail(w.todo), w.cur, new)
  BY <1>1 DEF CreateEffect
<1>3. \A u \in Threads \ {t} : work'[u] = NoWork
  BY <1>1 DEF CreateEffect
<1>4. UNCHANGED <<events, saved>>
  BY DEF NewSession
<1>5. ~IsInit(w.todo[1]) /\ ~IsMarkInit(w.todo[1]) /\ w.todo \in Seq(Steps) /\ w.todo # <<>> /\ InOrder(w)
      /\ rows \in Seq(Row)
  BY DEF AtWork, IsInit, IsMarkInit, PlanCalm
<1>6. NothingDue(work'[t])
  <2> HIDE DEF w
  <2> QED
    BY <1>2, <1>5, RestIsNotDue
<1>7. \A i \in DOMAIN rows : rows'[i].type = rows[i].type
  BY <1>2, <1>5, AppendedRow
<1> QED
  BY <1>3, <1>4, <1>5, <1>6, <1>7, KeepsInits DEF NothingDue

LEMMA SaveSessionAsLastSessionInits ==
  ASSUME Typed, InitInv, Quiet, Quiet', NEW t \in Threads, AtWork(t, "saveAsLast"), SaveSessionAsLastSession(t)
  PROVE  InitInv'
<1> DEFINE w == work[t]
<1>1. SaveEffect(t)
  BY SaveSessionAsLastSessionEffect
<1>2. PICK rs \in Seq(Row) : \E row \in Row : \E cur \in Object :
       /\ Alters(rows, rs, w.cur.oid)
       /\ rows' = Append(rs, row)
       /\ work'[t] = GoneOn(Tail(w.todo), cur, w.new)
  BY <1>1 DEF SaveEffect
<1>3. \A u \in Threads \ {t} : work'[u] = NoWork
  BY <1>1 DEF SaveEffect
<1>4. UNCHANGED <<events, saved>>
  BY DEF SaveSessionAsLastSession
<1>5. ~IsInit(w.todo[1]) /\ ~IsMarkInit(w.todo[1]) /\ w.todo \in Seq(Steps) /\ w.todo # <<>> /\ InOrder(w)
  BY DEF AtWork, IsInit, IsMarkInit, PlanCalm
<1>6. NothingDue(work'[t])
  <2> HIDE DEF w
  <2> QED
    BY <1>2, <1>5, RestIsNotDue
<1>7. \A i \in DOMAIN rows : rows'[i].type = rows[i].type
  <2>1. DOMAIN rs = DOMAIN rows /\ \A i \in DOMAIN rows : rs[i].type = rows[i].type
    BY <1>2 DEF Alters
  <2>2. \A i \in DOMAIN rs : rows'[i] = rs[i]
    BY <1>2, AppendedRow
  <2> QED
    BY <2>1, <2>2
<1> QED
  BY <1>3, <1>4, <1>5, <1>6, <1>7, KeepsInits DEF NothingDue

LEMMA AddToNewOrReportInits ==
  ASSUME Typed, InitInv, Quiet, NEW t \in Threads, AtWork(t, "addOrReport"), AddToNewOrReport(t)
  PROVE  InitInv'
<1>1. OrReportEffect(t)
  BY AddToNewOrReportEffect
<1>2. UNCHANGED <<rows, events>> /\ \A u \in Threads \ {t} : work'[u] = NoWork
  BY <1>1 DEF OrReportEffect
<1>3. UNCHANGED saved
  BY DEF AddToNewOrReport, stored
<1>4. ~IsInit(work[t].todo[1]) /\ ~IsMarkInit(work[t].todo[1])
  BY DEF AtWork, IsInit, IsMarkInit
<1>5. NothingDue(work'[t])
  BY <1>1, ClientNext
<1> QED
  BY <1>2, <1>3, <1>4, <1>5, KeepsInits DEF NothingDue

\* The flag is saved right behind the event.
LEMMA MarkEventSentInits ==
  ASSUME Typed, InitInv, FlagsInv, Quiet, Quiet', NEW t \in Threads, AtWork(t, "mark"), MarkEventSent(t)
  PROVE  InitInv'
<1> DEFINE w == work[t]
           flag == w.todo[1].what
<1>1. MarkEffect(t)
  BY MarkEventSentEffect
<1>2. /\ flag \in Flags /\ w.todo[1].op = "mark"
      /\ saved' = IF sent[flag] THEN saved ELSE [saved EXCEPT ![flag] = TRUE]
      /\ UNCHANGED <<rows, events>>
      /\ \A u \in Threads \ {t} : work'[u] = NoWork
      /\ work'[t] = GoneOn(Tail(w.todo), w.cur, w.new)
  BY <1>1 DEF MarkEffect
<1>3. w.todo \in Seq(Steps) /\ w.todo # <<>> /\ InOrder(w) /\ \A u \in Threads \ {t} : work[u] = NoWork
  BY DEF AtWork, PlanCalm
<1>4. NothingDue(work'[t])
  <2> HIDE DEF w
  <2> QED
    BY <1>2, <1>3, RestIsNotDue
<1>5. sent \in [Flags -> BOOLEAN] /\ saved \in [Flags -> BOOLEAN] /\ "init" \in Flags
  BY DEF Typed, TypeOK, Flags
<1>6. CASE flag = "init"
  <2>1. MarkDue(work[t]) /\ ~InitDue(work[t])
    BY <1>2, <1>3, <1>6 DEF MarkDue, InitDue, IsMarkInit, IsInit
  <2>2. MarkIsDue(work) /\ ~InitIsDue(work)
    BY <1>3, <2>1, AloneHasDue
  <2>3. InitsFit(events, rows, saved["init"], InitIsDue(work), MarkIsDue(work))
    BY DEF InitInv
  <2>4. saved'["init"] = TRUE
    BY <1>2, <1>5, <1>6 DEF FlagsInv
  <2>5. ~InitIsDue(work') /\ ~MarkIsDue(work')
    BY <1>2, <1>4, AloneHasDueThen DEF NothingDue
  <2> QED
    BY <1>2, <2>2, <2>3, <2>4, <2>5 DEF InitInv, InitsFit
<1>7. CASE flag # "init"
  <2>1. ~IsInit(w.todo[1]) /\ ~IsMarkInit(w.todo[1])
    BY <1>2, <1>7 DEF IsInit, IsMarkInit
  <2>2. saved'["init"] = saved["init"]
    BY <1>2, <1>5, <1>7
  <2>3. ~InitDue(work[t]) /\ ~MarkDue(work[t])
    BY <2>1 DEF InitDue, MarkDue
  <2>4. ~InitIsDue(work) /\ ~MarkIsDue(work)
    BY <1>3, <2>3, AloneHasDue
  <2>5. ~InitIsDue(work') /\ ~MarkIsDue(work')
    BY <1>2, <1>4, AloneHasDueThen DEF NothingDue
  <2> QED
    BY <1>2, <2>2, <2>4, <2>5 DEF InitInv, InitsFit
<1> QED
  BY <1>6, <1>7

(* An event is stored: the start of the first general session calls for the EVENT_INIT, and
   that one for the flag. *)
LEMMA AddEventInits ==
  ASSUME Typed, InitInv, FlagsInv, CallerInv, Quiet, Quiet', NEW t \in Threads, AtWork(t, "add"), AddEvent(t)
  PROVE  InitInv'
<1> DEFINE w == work[t]
           x == w.todo[1]
           s == Goal(x, w)
           flag == saved["init"]
<1>1. AddEffect(t)
  BY AddEventEffect
<1>2. /\ x.op = "add" /\ s \in Object /\ Agrees(s, rows) /\ SameRows(rows, rows') /\ rows' \in Seq(Row)
      /\ \A u \in Threads \ {t} : work'[u] = NoWork
  BY <1>1 DEF AddEffect
<1>3. PICK e \in Event : e.session = s.oid /\ e.kind = x.what /\ events' = Append(events, e)
  BY <1>1 DEF AddEffect
<1>4. /\ InitDue(work'[t]) <=> x.what = "start" /\ ShouldReportInit(x.what, s)
      /\ MarkDue(work'[t]) <=> x.what = "init"
  BY <1>1, DueAfterEvent
<1>5. /\ InitIsDue(work') <=> x.what = "start" /\ s.type = "General" /\ ~sent["init"]
      /\ MarkIsDue(work') <=> x.what = "init"
  BY <1>2, <1>4, AloneHasDueThen DEF ShouldReportInit
<1>6. /\ events \in Seq(Event) /\ w.todo # <<>> /\ \A u \in Threads \ {t} : work[u] = NoWork
      /\ \A d \in DOMAIN events : events[d].session \in DOMAIN rows
  BY DEF AtWork, EventsFit
<1>7. /\ InitIsDue(work) <=> x.what = "init"
      /\ ~MarkIsDue(work)
  <2>1. (InitDue(work[t]) <=> x.what = "init") /\ ~MarkDue(work[t])
    BY <1>2, <1>6 DEF InitDue, MarkDue, IsInit, IsMarkInit
  <2> QED
    BY <1>6, <2>1, AloneHasDue
<1>8. InitsFit(events, rows, flag, InitIsDue(work), FALSE)
  BY <1>7 DEF InitInv, InitsFit
<1>9. UNCHANGED saved /\ flag \in BOOLEAN /\ sent["init"] \in BOOLEAN
  BY DEF AddEvent, Typed, TypeOK, Flags
<1>10. rows[e.session].type = s.type
  BY <1>2, <1>3 DEF Agrees
<1> DEFINE es == events'
<1>11. /\ HasInit(es) <=> HasInit(events) \/ x.what = "init"
       /\ GeneralStarted(es, rows) <=> GeneralStarted(events, rows) \/ (x.what = "start" /\ s.type = "General")
       /\ /\ x.what # "init" \/ ~HasInit(events)
          /\ \A c, d \in DOMAIN events : events[c].kind = "init" /\ events[d].kind = "init" => c = d
          => \A c, d \in DOMAIN es : es[c].kind = "init" /\ es[d].kind = "init" => c = d
  BY <1>3, <1>6, <1>10, InitsAppended
<1>12. x.what = "start" /\ s.type = "General" => sent["init"] = flag
  <2> SUFFICES ASSUME x.what = "start", s.type = "General" PROVE sent["init"] = flag
    OBVIOUS
  <2>1. t = "executor"
    <3> SUFFICES ASSUME t = "caller" PROVE FALSE
      BY DEF Threads
    <3> QED
      BY CallerAdds DEF CallerInv
  <2>2. launch # "setup"
    BY <1>6, <2>1 DEF FlagsInv, IsIdle
  <2> QED
    BY <2>2 DEF FlagsInv
<1> HIDE DEF es, flag, s, x, w
<1>13. InitsFit(es, rows, flag, InitIsDue(work'), MarkIsDue(work'))
  <2>1. CASE x.what = "init"
    BY <1>5, <1>7, <1>8, <1>11, <2>1 DEF InitsFit
  <2>2. CASE x.what = "start" /\ s.type = "General" /\ ~flag
    BY <1>5, <1>7, <1>8, <1>11, <1>12, <2>2 DEF InitsFit
  <2>3. CASE x.what = "start" /\ s.type = "General" /\ flag
    BY <1>5, <1>7, <1>8, <1>11, <1>12, <2>3 DEF InitsFit
  <2>4. CASE x.what # "init" /\ ~(x.what = "start" /\ s.type = "General")
    BY <1>5, <1>7, <1>8, <1>11, <2>4 DEF InitsFit
  <2> QED
    BY <2>1, <2>2, <2>3, <2>4
<1>14. /\ \A d \in DOMAIN es : es[d].session \in DOMAIN rows
       /\ \A i \in DOMAIN rows : rows'[i].type = rows[i].type
  <2>1. \A i \in DOMAIN rows : rows'[i].type = rows[i].type
    BY <1>2 DEF SameRows
  <2>2. \A d \in DOMAIN es : (d \in DOMAIN events /\ es[d] = events[d]) \/ es[d] = e
    BY <1>3, <1>6 DEF es
  <2>3. e.session \in DOMAIN rows
    BY <1>2, <1>3 DEF Agrees
  <2> QED
    BY <1>6, <2>1, <2>2, <2>3
<1>15. InitsFit(es, rows', flag, InitIsDue(work'), MarkIsDue(work'))
  BY <1>13, <1>14, InitsOfSame
<1> QED
  BY <1>9, <1>15 DEF InitInv, es, flag

LEMMA CallsInits ==
  ASSUME Typed, InitInv, Quiet, Quiet',
         \/ Setup \/ ReportFirstEventIfNeeded \/ ResumeSession \/ PauseSession
         \/ ReportEvent \/ ReportReattribution \/ ReportEventToPastSession
  PROVE  InitInv'
<1>1. UNCHANGED <<events, rows, saved>>
  BY DEF Setup, ReportFirstEventIfNeeded, ResumeSession, PauseSession, Call,
         ReportEvent, ReportReattribution, ReportEventToPastSession, stored
<1>2. CallOpens
  BY CallsOpen
<1>3. InitIsDue(work') = InitIsDue(work) /\ MarkIsDue(work') = MarkIsDue(work)
  <2>1. CASE UNCHANGED work
    BY <2>1
  <2>2. CASE \A u \in Threads : work[u] = NoWork /\ NothingDue(work'[u])
    <3>1. \A u \in Threads : /\ ~InitDue(work[u]) /\ ~InitDue(work'[u])
                             /\ ~MarkDue(work[u]) /\ ~MarkDue(work'[u])
      BY <2>2, NoWorkIsNotDue DEF NothingDue
    <3> QED
      BY <3>1 DEF InitIsDue, MarkIsDue
  <2> QED
    BY <1>2, <2>1, <2>2 DEF CallOpens
<1> QED
  BY <1>1, <1>3 DEF InitInv

LEMMA PurgesInits ==
  ASSUME Typed, InitInv, Quiet, Quiet', PurgeEvents \/ PurgeEmptySessions \/ Die
  PROVE  InitInv'
<1>1. UNCHANGED saved
  BY DEF PurgeEvents, PurgeEmptySessions, Die, stored
<1>2. InitIsDue(work') = InitIsDue(work) /\ MarkIsDue(work') = MarkIsDue(work)
  <2>1. CASE Die
    <3>1. \A u \in Threads : work'[u] = NoWork
      BY <2>1 DEF Die
    <3>2. \A u \in Threads : work[u] = NoWork
      BY <2>1 DEF Die, Quiet, Idle, IsIdle, Typed, WorkFits
    <3>3. \A u \in Threads : /\ ~InitDue(work[u]) /\ ~InitDue(work'[u])
                             /\ ~MarkDue(work[u]) /\ ~MarkDue(work'[u])
      BY <3>1, <3>2, NoWorkIsNotDue DEF NothingDue
    <3> QED
      BY <3>3 DEF InitIsDue, MarkIsDue
  <2>2. CASE PurgeEvents \/ PurgeEmptySessions
    BY <2>2 DEF PurgeEvents, PurgeEmptySessions
  <2> QED
    BY <2>1, <2>2
<1>3. /\ DOMAIN events' = DOMAIN events
      /\ \A e \in DOMAIN events : events'[e].kind = events[e].kind /\ events'[e].session = events[e].session
  BY PurgeEventsPurges DEF PurgeEmptySessions, Die, stored
<1>4. \A i \in DOMAIN rows : rows'[i].type = rows[i].type
  <2>1. CASE PurgeEmptySessions
    <3>1. Deletes(rows, rows')
      BY <2>1, PurgeEmptyDeletes DEF Typed, TypeOK
    <3> QED
      BY <3>1 DEF Deletes
  <2>2. CASE PurgeEvents \/ Die
    BY <2>2 DEF PurgeEvents, Die, stored
  <2> QED
    BY <2>1, <2>2
<1>5. \A e \in DOMAIN events : events[e].session \in DOMAIN rows
  BY DEF Typed, TypeOK
<1>6. InitsFit(events, rows, saved["init"], InitIsDue(work), MarkIsDue(work))
  BY DEF InitInv
<1>7. InitsFit(events', rows', saved["init"], InitIsDue(work), MarkIsDue(work))
  BY <1>3, <1>4, <1>5, <1>6, InitsOfSame
<1> QED
  BY <1>1, <1>2, <1>7 DEF InitInv

\* The whole invariant.
OnceInv == CInv /\ CallerInv /\ FlagsInv /\ InitInv

LEMMA InitOnce == Init => OnceInv
<1> SUFFICES ASSUME Init PROVE OnceInv
  OBVIOUS
<1>1. CInv
  BY InitCalm
<1>2. \A u \in Threads : work[u] = NoWork
  BY DEF Init
<1>3. CallerInv
  BY <1>2, NoWorkFitsCaller DEF CallerInv, Threads
<1>4. FlagsInv
  BY <1>2 DEF Init, FlagsInv, IsIdle, NoWork, Threads, Flags
<1>5. ~InitIsDue(work) /\ ~MarkIsDue(work)
  BY <1>2, NoWorkIsNotDue DEF NothingDue, InitIsDue, MarkIsDue
<1>6. DOMAIN events = {} /\ saved["init"] = FALSE
  BY DEF Init, Flags
<1>7. InitInv
  BY <1>5, <1>6 DEF InitInv, InitsFit, HasInit, GeneralStarted
<1> QED
  BY <1>1, <1>3, <1>4, <1>7 DEF OnceInv

LEMMA StepInits == OnceInv /\ [Next]_vars => InitInv'
<1> SUFFICES ASSUME CInv, IInv, CalmInv, CallerInv, FlagsInv, InitInv, [Next]_vars, Quiet' PROVE InitInv'
  BY DEF OnceInv, CInv, InitInv
<1>0. Typed /\ Sound
  BY DEF IInv
<1>1. CASE UNCHANGED vars
  BY <1>1 DEF vars, stored, InitInv, Quiet
<1>2. CASE Next
  <2>1. Quiet
    BY <1>0, <1>2, FaultsStay DEF Quiet
  <2>2. ASSUME NEW t \in Threads, Perform(t) PROVE InitInv'
    <3>1. \A op : IsNext(t, op) => AtWork(t, op)
      BY <1>0, <2>1, CalmContext
    <3>2. CASE EndSession(t)
      BY <1>0, <2>1, <3>1, <3>2, EndSessionInits DEF EndSession
    <3>3. CASE NewSession(t)
      BY <1>0, <2>1, <3>1, <3>3, NewSessionInits DEF NewSession
    <3>4. CASE SaveSessionAsLastSession(t)
      BY <1>0, <2>1, <3>1, <3>4, SaveSessionAsLastSessionInits DEF SaveSessionAsLastSession
    <3>5. CASE AddEvent(t)
      BY <1>0, <2>1, <3>1, <3>5, AddEventInits DEF AddEvent
    <3>6. CASE MarkEventSent(t)
      BY <1>0, <2>1, <3>1, <3>6, MarkEventSentInits DEF MarkEventSent
    <3>7. CASE AddToNewOrReport(t)
      BY <1>0, <2>1, <3>1, <3>7, AddToNewOrReportInits DEF AddToNewOrReport
    <3> QED
      BY <2>2, <3>2, <3>3, <3>4, <3>5, <3>6, <3>7 DEF Perform
  <2> QED
    BY <1>0, <1>2, <2>1, <2>2, CallsInits, PurgesInits DEF Next
<1> QED
  BY <1>1, <1>2

(* As long as nothing went wrong, one EVENT_INIT is stored over all launches, with the first
   general session, and none before: the executor asks the flag in memory, which is the one
   in the database from -setupWithOnStorageRestored:onSetupComplete: on, and the thread of a
   past event only starts background sessions. *)
THEOREM InitIsReportedOnce == Spec => []InitReportedOnce
<1>1. OnceInv => InitReportedOnce
  <2> DEFINE Inits   == {e \in DOMAIN events : events[e].kind = "init"}
             General == {e \in DOMAIN events : events[e].kind = "start"
                                               /\ rows[events[e].session].type = "General"}
  <2> SUFFICES ASSUME OnceInv, Quiet, Idle PROVE Cardinality(Inits) = IF General = {} THEN 0 ELSE 1
    BY DEF InitReportedOnce, Quiet
  <2>1. ~InitIsDue(work)
    BY DEF Idle, IsIdle, InitIsDue, InitDue
  <2>2. InitsFit(events, rows, saved["init"], InitIsDue(work), MarkIsDue(work))
    BY DEF OnceInv, InitInv
  <2>3. HasInit(events) <=> General # {}
    BY <2>1, <2>2 DEF InitsFit, GeneralStarted
  <2>4. CASE HasInit(events)
    <3>1. PICK e \in DOMAIN events : events[e].kind = "init"
      BY <2>4 DEF HasInit
    <3>2. Inits = {e}
      BY <2>2, <3>1 DEF InitsFit
    <3> QED
      BY <2>3, <2>4, <3>2, FS_Singleton
  <2>5. CASE ~HasInit(events)
    <3>1. Inits = {}
      BY <2>5 DEF HasInit
    <3> QED
      BY <2>3, <2>5, <3>1, FS_EmptySet
  <2> QED
    BY <2>4, <2>5
<1>2. OnceInv /\ [Next]_vars => OnceInv'
  BY StepCalm, StepCaller, StepFlags, StepInits DEF OnceInv
<1> QED
  BY <1>1, <1>2, InitOnce, PTL DEF Spec
=============================================================================
