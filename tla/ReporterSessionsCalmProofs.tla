--------------------- MODULE ReporterSessionsCalmProofs ---------------------
(***************************************************************************)
(* Theorems about ReporterSessions while nothing goes wrong (faults = {}): *)
(* the deletion of empty sessions never takes the row of an event that is  *)
(* still to be sent, and between two calls only the last row can be        *)
(* unfinished.                                                             *)
(*                                                                         *)
(* Neither is inductive, for a call is several transactions, and the       *)
(* cleaner acts between any two of them.  What makes both so is a property *)
(* of the plans (PlanCalm): a plan that still creates a session has ended  *)
(* the last one, or does so first; one that still saves the last session   *)
(* again has just created the row below it; and one that does neither only *)
(* touches rows within reach, that is with one kept row above them at      *)
(* most, which -[AMASessionsCleaner purgeEmptySessions] spares.            *)
(*                                                                         *)
(* First what each plan becomes when its first step is taken; then what    *)
(* the steps do when nothing fails; then one lemma per action.             *)
(***************************************************************************)
EXTENDS ReporterSessionsProofs

\* Whether steps of this kind are still planned.
Creates(q) == \E k \in DOMAIN q : q[k].op = "create"
Saves(q)   == \E k \in DOMAIN q : q[k].op = "saveAsLast"

\* The steps that are only ever planned as the next one.
IsAlive(x)    == x.op = "add" /\ x.what = "alive"
IsInit(x)     == x.op = "add" /\ x.what = "init"
IsMarkInit(x) == x.op = "mark" /\ x.what = "init"
IsPrompt(x)   == x.op = "end" \/ IsAlive(x) \/ IsInit(x) \/ IsMarkInit(x)

\* A row that the deletion of empty sessions spares: at most one that is kept is above it.
NearTop(i, rs) == i \in DOMAIN rs /\ ~rs[i].deleted /\ ~TwoAbove(i, rs)
LastEnded(rs)  == rs # <<>> => rs[Len(rs)].finished

\* The object that a step is about.
Goal(x, w) == IF x.on = "cur" THEN w.cur ELSE w.new

InOrder(w) ==
  /\ \A k \in DOMAIN w.todo : IsPrompt(w.todo[k]) => k = 1
  /\ \A k \in DOMAIN w.todo : IsAlive(w.todo[k]) => w.todo[k].on = "cur"
  /\ \A k \in DOMAIN w.todo : w.todo[k].op = "end" => ~w.cur.finished

(* A plan that creates a session.  What has to be ended is ended before, by the step in
   front of it, unless it is the last session, which is saved again later. *)
CreatesAfterEnd(w, rs) ==
  /\ \A k \in DOMAIN w.todo : w.todo[k].op = "create" =>
       \/ k = 1
       \/ k = 2 /\ w.cur # NoSession /\ w.cur.oid = Len(rs) /\ (w.todo[1].op = "end" \/ IsAlive(w.todo[1]))
  /\ \A k \in DOMAIN w.todo : k = 1 \/ w.todo[k].on = "new" \/ w.todo[k].op = "saveAsLast"
  /\ \/ LastEnded(rs)
     \/ w.cur.oid = Len(rs) /\ (w.todo[1].op = "end" \/ Saves(w.todo))
  /\ Saves(w.todo) => \A k \in DOMAIN w.todo : w.todo[k].op = "create" => w.todo[k].what = "Finished"

\* A plan that saves the last session again, behind the one that it has created.
SavesBehindNew(w, rs) ==
  /\ w.new # NoSession /\ w.new.oid = Len(rs)
  /\ LastEnded(rs)
  /\ \A k \in DOMAIN w.todo : w.todo[k].on = "new" \/ w.todo[k].op \in {"saveAsLast", "mark"}

\* A plan that only ends sessions and adds events.
InReach(w, rs) ==
  \A k \in DOMAIN w.todo :
    w.todo[k].op \in {"add", "end", "addOrReport"} => NearTop(Goal(w.todo[k], w).oid, rs)

PlanCalm(w, rs) ==
  /\ InOrder(w)
  /\ Creates(w.todo) => CreatesAfterEnd(w, rs)
  /\ Saves(w.todo) /\ ~Creates(w.todo) => SavesBehindNew(w, rs)
  /\ ~Saves(w.todo) /\ ~Creates(w.todo) => InReach(w, rs)

\* Only the last row is unfinished, or the row that a thread is going to save again.
LiveRows(rs, wk) ==
  \A i \in DOMAIN rs :
    \/ rs[i].finished
    \/ i = Len(rs)
    \/ \E t \in Threads : Saves(wk[t].todo) /\ wk[t].cur.oid = i

EventsKept(es, rs) == \A e \in DOMAIN es : ~es[e].purged => ~rs[es[e].session].deleted

-----------------------------------------------------------------------------

\* What a plan is without its first step.
LEMMA TailSteps ==
  ASSUME NEW q \in Seq(Steps), q # <<>>
  PROVE  /\ Tail(q) \in Seq(Steps)
         /\ 1 \in DOMAIN q /\ DOMAIN q \subseteq Nat
         /\ \A k \in DOMAIN Tail(q) : k \in Nat /\ k + 1 # 1 /\ k + 1 \in DOMAIN q /\ Tail(q)[k] = q[k + 1]
         /\ \A k \in DOMAIN q : k # 1 => k - 1 \in DOMAIN Tail(q) /\ Tail(q)[k - 1] = q[k]
<1>1. Tail(q) \in Seq(Steps) /\ Len(Tail(q)) = Len(q) - 1
      /\ \A k \in 1..Len(Tail(q)) : Tail(q)[k] = q[k + 1]
  BY HeadTailProperties
<1>2. Len(q) \in Nat /\ Len(q) > 0 /\ DOMAIN q = 1..Len(q) /\ DOMAIN Tail(q) = 1..Len(Tail(q))
  BY <1>1
<1>3. \A k \in DOMAIN q : k # 1 => k - 1 \in 1..Len(Tail(q)) /\ (k - 1) + 1 = k
  BY <1>1, <1>2
<1> QED
  BY <1>1, <1>2, <1>3

\* A first step in the place of another.
LEMMA FirstReplaced ==
  ASSUME NEW q \in Seq(Steps), q # <<>>, NEW x \in Steps
  PROVE  /\ <<x>> \o Tail(q) \in Seq(Steps) /\ <<x>> \o Tail(q) # <<>>
         /\ DOMAIN (<<x>> \o Tail(q)) = DOMAIN q
         /\ (<<x>> \o Tail(q))[1] = x
         /\ \A k \in DOMAIN q : k # 1 => (<<x>> \o Tail(q))[k] = q[k]
<1> DEFINE z == Tail(q)
<1>1. /\ z \in Seq(Steps)
      /\ 1 \in DOMAIN q /\ DOMAIN q \subseteq Nat
      /\ \A k \in DOMAIN q : k # 1 => k - 1 \in DOMAIN z /\ z[k - 1] = q[k]
  BY TailSteps
<1>2. Len(z) = Len(q) - 1 /\ Len(q) \in Nat /\ DOMAIN q = 1..Len(q) /\ Len(q) > 0
  BY HeadTailProperties
<1> HIDE DEF z
<1>3. /\ <<x>> \o z \in Seq(Steps) /\ Len(<<x>> \o z) = Len(z) + 1
      /\ (<<x>> \o z)[1] = x
      /\ \A k \in 2..(Len(z) + 1) : k - 1 \in DOMAIN z /\ (<<x>> \o z)[k] = z[k - 1]
  BY <1>1, InFront
<1>4. Len(<<x>> \o z) = Len(q) /\ DOMAIN (<<x>> \o z) = 1..Len(q) /\ <<x>> \o z # <<>>
  BY <1>2, <1>3
<1>5. \A k \in DOMAIN q : k # 1 => k \in 2..(Len(z) + 1)
  BY <1>2
<1>6. \A k \in DOMAIN q : k # 1 => (<<x>> \o z)[k] = q[k]
  BY <1>1, <1>3, <1>5
<1> QED
  BY <1>2, <1>3, <1>4, <1>6 DEF z

\* A thread that has let go of its objects is calm.
LEMMA GoneOnIsCalm ==
  ASSUME NEW r, NEW cur, NEW new, NEW rs, PlanCalm([todo |-> r, cur |-> cur, new |-> new], rs)
  PROVE  PlanCalm(GoneOn(r, cur, new), rs)
<1>1. PlanCalm(NoWork, rs)
  BY DEF PlanCalm, InOrder, Creates, Saves, InReach, NoWork
<1> QED
  BY <1>1 DEF GoneOn


\* What a change of the table that keeps every row and its place leaves within reach.
LEMMA ReachStays ==
  ASSUME NEW rs, NEW rs2, DOMAIN rs2 = DOMAIN rs,
         \A i \in DOMAIN rs : rs2[i].deleted <=> rs[i].deleted
  PROVE  \A i : NearTop(i, rs2) <=> NearTop(i, rs)
BY DEF NearTop, TwoAbove

\* The last row is within reach.
LEMMA LastIsNear ==
  ASSUME NEW rs \in Seq(Row), NEW n, RowsFit(rs, n), rs # <<>>
  PROVE  NearTop(Len(rs), rs)
<1>1. Len(rs) \in DOMAIN rs /\ \A i \in DOMAIN rs : i <= Len(rs) /\ i \in Nat
  OBVIOUS
<1> QED
  BY <1>1 DEF RowsFit, NearTop, TwoAbove

\* The parts of PlanCalm.
LEMMA CalmParts ==
  ASSUME NEW v, NEW rs, NEW r, v.todo = r
  PROVE  /\ PlanCalm(v, rs) =>
              /\ InOrder(v)
              /\ Creates(r) => CreatesAfterEnd(v, rs)
              /\ Saves(r) /\ ~Creates(r) => SavesBehindNew(v, rs)
              /\ ~Saves(r) /\ ~Creates(r) => InReach(v, rs)
         /\ InOrder(v) /\ Creates(r) /\ CreatesAfterEnd(v, rs) => PlanCalm(v, rs)
         /\ InOrder(v) /\ ~Creates(r) /\ Saves(r) /\ SavesBehindNew(v, rs) => PlanCalm(v, rs)
         /\ InOrder(v) /\ ~Creates(r) /\ ~Saves(r) /\ InReach(v, rs) => PlanCalm(v, rs)
BY DEF PlanCalm

(* What the plan becomes when its first step is taken: a session is ended, ... *)
LEMMA EndGoesOn ==
  ASSUME NEW w, NEW rs, NEW rs2, PlanCalm(w, rs), w.todo \in Seq(Steps), w.todo # <<>>,
         w.todo[1].op = "end", w.todo[1].on = "cur", Alters(rs, rs2, w.cur.oid),
         w.cur.oid \in DOMAIN rs => rs2[w.cur.oid].finished,
         NEW cur, cur.oid = w.cur.oid, cur # NoSession
  PROVE  PlanCalm([todo |-> <<Add("alive", "cur")>> \o Tail(w.todo), cur |-> cur, new |-> w.new], rs2)
<1> DEFINE q == w.todo
           x == Add("alive", "cur")
           r == <<x>> \o Tail(q)
           v == [todo |-> r, cur |-> cur, new |-> w.new]
<1>1. x \in Steps /\ x.op = "add" /\ x.on = "cur" /\ x.what = "alive"
  BY StepsTypes DEF Add, Kinds
<1>2. r \in Seq(Steps) /\ DOMAIN r = DOMAIN q /\ r[1] = x /\ 1 \in DOMAIN q
      /\ \A k \in DOMAIN q : k # 1 => r[k] = q[k]
  BY <1>1, FirstReplaced
<1>3. v.todo = r /\ v.cur = cur /\ v.new = w.new /\ q[1].op = "end" /\ q[1].on = "cur"
  OBVIOUS
<1>4. InOrder(w) /\ (Creates(q) => CreatesAfterEnd(w, rs))
      /\ (Saves(q) /\ ~Creates(q) => SavesBehindNew(w, rs))
      /\ (~Saves(q) /\ ~Creates(q) => InReach(w, rs))
  BY DEF PlanCalm
<1> SUFFICES PlanCalm(v, rs2)
  OBVIOUS
<1> HIDE DEF r, v, x
<1>5. \A k \in DOMAIN q : IsPrompt(q[k]) => k = 1
  BY <1>4 DEF InOrder
<1>6. InOrder(v)
  <2>1. \A k \in DOMAIN r : IsPrompt(r[k]) => k = 1
    BY <1>2, <1>5
  <2>2. \A k \in DOMAIN r : r[k].op = "end" => k = 1
    BY <2>1 DEF IsPrompt
  <2>3. \A k \in DOMAIN r : IsAlive(r[k]) => k = 1
    BY <2>1 DEF IsPrompt
  <2> QED
    BY <1>1, <1>2, <1>3, <2>1, <2>2, <2>3 DEF InOrder
<1>7. (Creates(r) <=> Creates(q)) /\ (Saves(r) <=> Saves(q))
  <2>1. r[1].op # "create" /\ r[1].op # "saveAsLast" /\ q[1].op # "create" /\ q[1].op # "saveAsLast"
    BY <1>1, <1>2
  <2> QED
    BY <1>2, <2>1 DEF Creates, Saves
<1>8. Len(rs2) = Len(rs) /\ DOMAIN rs2 = DOMAIN rs /\ rs \in Seq(Row) /\ rs2 \in Seq(Row)
      /\ \A i \in DOMAIN rs : (rs2[i].deleted <=> rs[i].deleted) /\ (rs[i].finished => rs2[i].finished)
  BY DEF Alters
<1>9. CASE Creates(q)
  <2>1. /\ \A k \in DOMAIN q : q[k].op = "create" =>
             k = 1 \/ (k = 2 /\ w.cur.oid = Len(rs) /\ (q[1].op = "end" \/ IsAlive(q[1])))
        /\ \A k \in DOMAIN q : k = 1 \/ q[k].on = "new" \/ q[k].op = "saveAsLast"
        /\ LastEnded(rs) \/ w.cur.oid = Len(rs)
        /\ Saves(q) => \A k \in DOMAIN q : q[k].op = "create" => q[k].what = "Finished"
    BY <1>4, <1>9 DEF CreatesAfterEnd
  <2>2. LastEnded(rs2)
    <3>1. rs2 # <<>> => rs # <<>> /\ Len(rs2) \in DOMAIN rs
      BY <1>8
    <3> QED
      BY <1>8, <2>1, <3>1 DEF LastEnded
  <2>3. IsAlive(r[1])
    BY <1>1, <1>2 DEF IsAlive
  <2>4. \A k \in DOMAIN r : r[k].op = "create" => k # 1
    BY <1>1, <1>2
  <2>5. CreatesAfterEnd(v, rs2)
    BY <1>2, <1>3, <1>7, <1>8, <2>1, <2>2, <2>3, <2>4 DEF CreatesAfterEnd
  <2> QED
    BY <1>3, <1>6, <1>7, <1>9, <2>5, CalmParts
<1>10. CASE ~Creates(q) /\ Saves(q)
  BY <1>2, <1>3, <1>4, <1>10 DEF SavesBehindNew
<1>11. CASE ~Creates(q) /\ ~Saves(q)
  <2>1. \A k \in DOMAIN q : q[k].op \in {"add", "end", "addOrReport"} => NearTop(Goal(q[k], w).oid, rs)
    BY <1>4, <1>11 DEF InReach
  <2>2. \A i : NearTop(i, rs2) <=> NearTop(i, rs)
    BY <1>8, ReachStays
  <2>3. NearTop(Goal(r[1], v).oid, rs2)
    BY <1>1, <1>2, <1>3, <2>1, <2>2 DEF Goal
  <2>4. \A k \in DOMAIN q : Goal(q[k], v).oid = Goal(q[k], w).oid
    BY <1>3 DEF Goal
  <2>5. InReach(v, rs2)
    BY <1>2, <1>3, <2>1, <2>2, <2>3, <2>4 DEF InReach
  <2> QED
    BY <1>3, <1>6, <1>7, <1>11, <2>5, CalmParts
<1> QED
  BY <1>9, <1>10, <1>11

\* ... created, ...
LEMMA CreateGoesOn ==
  ASSUME NEW w, NEW rs \in Seq(Row), PlanCalm(w, rs), w.todo \in Seq(Steps), w.todo # <<>>,
         w.todo[1].op = "create", NEW row \in Row, ~row.deleted,
         w.todo[1].what = "Finished" => row.finished,
         NEW new, new # NoSession, new.oid = Len(rs) + 1
  PROVE  PlanCalm([todo |-> Tail(w.todo), cur |-> w.cur, new |-> new], Append(rs, row))
<1> DEFINE q   == w.todo
           r   == Tail(q)
           v   == [todo |-> r, cur |-> w.cur, new |-> new]
           rs2 == Append(rs, row)
<1>1. /\ 1 \in DOMAIN q
      /\ \A k \in DOMAIN r : k + 1 \in DOMAIN q /\ k + 1 # 1 /\ r[k] = q[k + 1]
  BY TailSteps
<1>2. v.todo = r /\ v.cur = w.cur /\ v.new = new /\ q[1].op = "create"
  OBVIOUS
<1>3. InOrder(w) /\ CreatesAfterEnd(w, rs) /\ Creates(q)
  BY <1>1, <1>2 DEF PlanCalm, Creates
<1>4. Len(rs2) = Len(rs) + 1 /\ DOMAIN rs2 = DOMAIN rs \cup {Len(rs) + 1} /\ rs2[Len(rs) + 1] = row
      /\ Len(rs) \in Nat /\ \A i \in DOMAIN rs2 : i \in Nat /\ i <= Len(rs) + 1
  BY AppendedRow
<1> SUFFICES PlanCalm(v, rs2)
  OBVIOUS
<1> HIDE DEF r, v, rs2
<1>5. InOrder(v)
  <2>1. \A k \in DOMAIN r : ~IsPrompt(r[k])
    BY <1>1, <1>3 DEF InOrder
  <2> QED
    BY <1>2, <2>1 DEF InOrder, IsPrompt
<1>6. /\ \A k \in DOMAIN q : q[k].op = "create" => k = 1 \/ q[1].op = "end" \/ IsAlive(q[1])
      /\ \A k \in DOMAIN q : k = 1 \/ q[k].on = "new" \/ q[k].op = "saveAsLast"
      /\ Saves(q) => q[1].what = "Finished"
  BY <1>1, <1>3 DEF CreatesAfterEnd
<1>7. ~Creates(r)
  <2>1. \A k \in DOMAIN q : q[k].op = "create" => k = 1
    BY <1>2, <1>6 DEF IsAlive
  <2> QED
    BY <1>1, <2>1 DEF Creates
<1>8. Saves(r) => row.finished
  BY <1>1, <1>6 DEF Saves
<1>9. \A k \in DOMAIN r : r[k].on = "new" \/ r[k].op = "saveAsLast"
  BY <1>1, <1>6
<1>10. CASE Saves(r)
  <2>1. LastEnded(rs2)
    BY <1>4, <1>8, <1>10 DEF LastEnded
  <2>2. SavesBehindNew(v, rs2)
    BY <1>2, <1>4, <1>9, <2>1 DEF SavesBehindNew
  <2> QED
    BY <1>2, <1>5, <1>7, <1>10, <2>2, CalmParts
<1>11. CASE ~Saves(r)
  <2>1. NearTop(Len(rs) + 1, rs2)
    BY <1>4 DEF NearTop, TwoAbove
  <2>2. \A k \in DOMAIN r : r[k].on = "new"
    BY <1>9, <1>11 DEF Saves
  <2>3. InReach(v, rs2)
    BY <1>2, <2>1, <2>2 DEF InReach, Goal
  <2> QED
    BY <1>2, <1>5, <1>7, <1>11, <2>3, CalmParts
<1> QED
  BY <1>10, <1>11

\* ... saved again behind the new one, ...
LEMMA SaveGoesOn ==
  ASSUME NEW w, NEW rs, PlanCalm(w, rs), PlanFits(w, rs), w.todo \in Seq(Steps), w.todo # <<>>,
         w.todo[1].op = "saveAsLast", NEW n, RowsFit(rs, n), w.new.oid \in Nat,
         NEW rs1, NEW row \in Row, Alters(rs, rs1, w.cur.oid), ~row.deleted, rs # <<>>,
         NEW cur
  PROVE  PlanCalm([todo |-> Tail(w.todo), cur |-> cur, new |-> w.new], Append(rs1, row))
<1> DEFINE q   == w.todo
           r   == Tail(q)
           v   == [todo |-> r, cur |-> cur, new |-> w.new]
           rs2 == Append(rs1, row)
<1>1. /\ 1 \in DOMAIN q
      /\ \A k \in DOMAIN r : k + 1 \in DOMAIN q /\ k + 1 # 1 /\ r[k] = q[k + 1]
  BY TailSteps
<1>2. v.todo = r /\ v.cur = cur /\ v.new = w.new /\ q[1].op = "saveAsLast"
  OBVIOUS
<1>3. InOrder(w) /\ Saves(q) /\ (Creates(q) => CreatesAfterEnd(w, rs)) /\ (~Creates(q) => SavesBehindNew(w, rs))
  BY <1>1, <1>2 DEF PlanCalm, Saves
<1>4. rs \in Seq(Row) /\ rs1 \in Seq(Row) /\ Len(rs1) = Len(rs) /\ DOMAIN rs1 = DOMAIN rs
      /\ \A i \in DOMAIN rs : rs1[i].deleted = rs[i].deleted
  BY DEF Alters
<1>5. /\ Len(rs2) = Len(rs) + 1 /\ DOMAIN rs2 = DOMAIN rs \cup {Len(rs) + 1}
      /\ \A i \in DOMAIN rs : rs2[i] = rs1[i]
      /\ Len(rs) \in DOMAIN rs /\ \A i \in DOMAIN rs2 : i \in Nat /\ i <= Len(rs) + 1
  BY <1>4, AppendedRow
<1> SUFFICES PlanCalm(v, rs2)
  OBVIOUS
<1> HIDE DEF r, v, rs2
<1>6. InOrder(v)
  <2>1. \A k \in DOMAIN r : ~IsPrompt(r[k])
    BY <1>1, <1>3 DEF InOrder
  <2> QED
    BY <1>2, <2>1 DEF InOrder, IsPrompt
<1>7. ~Creates(q)
  BY <1>2, <1>3 DEF PlanFits, CreatesAfterEnd, IsAlive, Creates
<1>8. SavesBehindNew(w, rs)
  BY <1>3, <1>7
<1>9. ~Creates(r)
  BY <1>1, <1>7 DEF Creates
<1>10. ~Saves(r)
  <2>1. \A k \in DOMAIN q : k # 1 => q[k].op \in {"create", "add", "mark"}
    BY <1>1, <1>2 DEF PlanFits
  <2> QED
    BY <1>1, <2>1 DEF Saves
<1>11. NearTop(w.new.oid, rs2)
  <2>1. w.new.oid = Len(rs) /\ ~rs2[Len(rs)].deleted
    BY <1>4, <1>5, <1>8 DEF SavesBehindNew, RowsFit
  <2>2. \A a \in DOMAIN rs2 : Len(rs) < a => a = Len(rs) + 1
    BY <1>5
  <2> QED
    BY <1>5, <2>1, <2>2 DEF NearTop, TwoAbove
<1>12. \A k \in DOMAIN r : r[k].on = "new" \/ r[k].op \in {"saveAsLast", "mark"}
  BY <1>1, <1>8 DEF SavesBehindNew
<1>13. InReach(v, rs2)
  BY <1>2, <1>11, <1>12 DEF InReach, Goal
<1> QED
  BY <1>2, <1>6, <1>9, <1>10, <1>13, CalmParts

\* What a step that only moves counters or flags makes of a table.
SameRows(rs, rs2) ==
  /\ Len(rs2) = Len(rs) /\ DOMAIN rs2 = DOMAIN rs
  /\ rs2 # <<>> => rs # <<>> /\ Len(rs2) \in DOMAIN rs
  /\ \A i \in DOMAIN rs : rs2[i].deleted = rs[i].deleted /\ rs2[i].finished = rs[i].finished
                          /\ rs2[i].id = rs[i].id /\ rs2[i].type = rs[i].type

\* ... or gets an event.
LEMMA RestGoesOn ==
  ASSUME NEW w, NEW rs, PlanCalm(w, rs), w.todo \in Seq(Steps), w.todo # <<>>,
         w.todo[1].op \in {"add", "mark", "addOrReport"},
         NEW cur, cur.oid = w.cur.oid, NEW new, new.oid = w.new.oid, w.new # NoSession => new # NoSession,
         NEW rs2, SameRows(rs, rs2)
  PROVE  PlanCalm([todo |-> Tail(w.todo), cur |-> cur, new |-> new], rs2)
<1> DEFINE q == w.todo
           r == Tail(q)
           v == [todo |-> r, cur |-> cur, new |-> new]
<1>1. /\ 1 \in DOMAIN q
      /\ \A k \in DOMAIN r : k \in Nat /\ k + 1 \in DOMAIN q /\ k + 1 # 1 /\ r[k] = q[k + 1]
      /\ \A k \in DOMAIN q : k # 1 => k - 1 \in DOMAIN r /\ r[k - 1] = q[k]
  BY TailSteps
<1>2. v.todo = r /\ v.cur = cur /\ v.new = new /\ q[1].op \in {"add", "mark", "addOrReport"}
  OBVIOUS
<1>3. InOrder(w) /\ (Creates(q) => CreatesAfterEnd(w, rs))
      /\ (Saves(q) /\ ~Creates(q) => SavesBehindNew(w, rs))
      /\ (~Saves(q) /\ ~Creates(q) => InReach(w, rs))
  BY DEF PlanCalm
<1> SUFFICES PlanCalm(v, rs2)
  OBVIOUS
<1> HIDE DEF r, v
<1>4. InOrder(v)
  <2>1. \A k \in DOMAIN r : ~IsPrompt(r[k])
    BY <1>1, <1>3 DEF InOrder
  <2> QED
    BY <1>2, <2>1 DEF InOrder, IsPrompt
<1>5. (Creates(r) <=> Creates(q)) /\ (Saves(r) <=> Saves(q))
  <2>1. (Creates(r) => Creates(q)) /\ (Saves(r) => Saves(q))
    BY <1>1 DEF Creates, Saves
  <2>2. Creates(q) => Creates(r)
    <3>1. \A k \in DOMAIN q : q[k].op = "create" => k - 1 \in DOMAIN r /\ r[k - 1].op = "create"
      BY <1>1, <1>2
    <3> QED
      BY <3>1 DEF Creates
  <2>3. Saves(q) => Saves(r)
    <3>1. \A k \in DOMAIN q : q[k].op = "saveAsLast" => k - 1 \in DOMAIN r /\ r[k - 1].op = "saveAsLast"
      BY <1>1, <1>2
    <3> QED
      BY <3>1 DEF Saves
  <2> QED
    BY <2>1, <2>2, <2>3
<1>6. (\A i : NearTop(i, rs2) <=> NearTop(i, rs)) /\ (LastEnded(rs) => LastEnded(rs2)) /\ Len(rs2) = Len(rs)
  <2>1. DOMAIN rs2 = DOMAIN rs /\ \A i \in DOMAIN rs : rs2[i].deleted <=> rs[i].deleted
    BY DEF SameRows
  <2>2. \A i : NearTop(i, rs2) <=> NearTop(i, rs)
    BY <2>1, ReachStays
  <2>3. LastEnded(rs) => LastEnded(rs2)
    BY DEF LastEnded, SameRows
  <2> QED
    BY <2>2, <2>3 DEF SameRows
<1>7. CASE Creates(q)
  <2>1. /\ \A k \in DOMAIN q : q[k].op = "create" => k = 2 /\ w.cur.oid = Len(rs)
        /\ \A k \in DOMAIN q : k = 1 \/ q[k].on = "new" \/ q[k].op = "saveAsLast"
        /\ LastEnded(rs) \/ (w.cur.oid = Len(rs) /\ Saves(q))
        /\ Saves(q) => \A k \in DOMAIN q : q[k].op = "create" => q[k].what = "Finished"
    BY <1>2, <1>3, <1>7 DEF CreatesAfterEnd
  <2>2. ASSUME NEW k \in DOMAIN r, r[k].op = "create" PROVE k = 1
    <3>1. k \in Nat /\ k + 1 \in DOMAIN q /\ q[k + 1].op = "create"
      BY <1>1, <2>2
    <3>2. k + 1 = 2
      BY <2>1, <3>1
    <3> QED
      BY <3>1, <3>2
  <2>3. \A k \in DOMAIN r : r[k].on = "new" \/ r[k].op = "saveAsLast"
    BY <1>1, <2>1
  <2>4. Saves(r) => \A k \in DOMAIN r : r[k].op = "create" => r[k].what = "Finished"
    <3> SUFFICES ASSUME Saves(r), NEW k \in DOMAIN r, r[k].op = "create" PROVE r[k].what = "Finished"
      OBVIOUS
    <3>1. \A j \in DOMAIN q : q[j].op = "create" => q[j].what = "Finished"
      BY <1>5, <2>1
    <3>2. k + 1 \in DOMAIN q /\ r[k] = q[k + 1]
      BY <1>1
    <3> QED
      BY <3>1, <3>2
  <2>5. LastEnded(rs2) \/ (cur.oid = Len(rs2) /\ Saves(r))
    BY <1>5, <1>6, <2>1
  <2>6. CreatesAfterEnd(v, rs2)
    BY <1>2, <2>2, <2>3, <2>4, <2>5 DEF CreatesAfterEnd
  <2> QED
    BY <1>2, <1>4, <1>5, <1>7, <2>6, CalmParts
<1>8. CASE ~Creates(q) /\ Saves(q)
  <2>1. SavesBehindNew(w, rs)
    BY <1>3, <1>8
  <2>2. \A k \in DOMAIN r : r[k].on = "new" \/ r[k].op \in {"saveAsLast", "mark"}
    BY <1>1, <2>1 DEF SavesBehindNew
  <2>3. SavesBehindNew(v, rs2)
    BY <1>2, <1>6, <2>1, <2>2 DEF SavesBehindNew
  <2> QED
    BY <1>2, <1>4, <1>5, <1>8, <2>3, CalmParts
<1>9. CASE ~Creates(q) /\ ~Saves(q)
  <2>1. \A k \in DOMAIN q : q[k].op \in {"add", "end", "addOrReport"} => NearTop(Goal(q[k], w).oid, rs)
    BY <1>3, <1>9 DEF InReach
  <2>2. \A x : Goal(x, v).oid = Goal(x, w).oid
    BY <1>2 DEF Goal
  <2>3. ASSUME NEW k \in DOMAIN r, r[k].op \in {"add", "end", "addOrReport"}
        PROVE  NearTop(Goal(r[k], v).oid, rs2)
    <3>1. k + 1 \in DOMAIN q /\ r[k] = q[k + 1]
      BY <1>1
    <3>2. NearTop(Goal(r[k], w).oid, rs)
      BY <2>1, <2>3, <3>1
    <3> QED
      BY <1>6, <2>2, <3>2
  <2>4. InReach(v, rs2)
    BY <1>2, <2>3 DEF InReach
  <2> QED
    BY <1>2, <1>4, <1>5, <1>9, <2>4, CalmParts
<1> QED
  BY <1>7, <1>8, <1>9

\* The follow-up of a step, in its place.
LEMMA FollowUpGoesOn ==
  ASSUME NEW w, NEW rs, PlanCalm(w, rs), w.todo \in Seq(Steps), w.todo # <<>>,
         w.todo[1].op \in {"add", "mark", "addOrReport"}, ~IsAlive(w.todo[1]),
         NEW x \in Steps, x.op \in {"add", "mark"}, x.op = "add" => x.on = w.todo[1].on /\ w.todo[1].op # "mark",
         ~IsAlive(x),
         NEW cur, cur.oid = w.cur.oid, NEW new, new.oid = w.new.oid, w.new # NoSession => new # NoSession,
         NEW rs2, SameRows(rs, rs2)
  PROVE  PlanCalm([todo |-> <<x>> \o Tail(w.todo), cur |-> cur, new |-> new], rs2)
<1> DEFINE q == w.todo
           r == <<x>> \o Tail(q)
           v == [todo |-> r, cur |-> cur, new |-> new]
<1>1. r \in Seq(Steps) /\ DOMAIN r = DOMAIN q /\ r[1] = x /\ 1 \in DOMAIN q
      /\ \A k \in DOMAIN q : k # 1 => r[k] = q[k]
  BY FirstReplaced
<1>2. v.todo = r /\ v.cur = cur /\ v.new = new /\ q[1].op \in {"add", "mark", "addOrReport"}
  OBVIOUS
<1>3. InOrder(w) /\ (Creates(q) => CreatesAfterEnd(w, rs))
      /\ (Saves(q) /\ ~Creates(q) => SavesBehindNew(w, rs))
      /\ (~Saves(q) /\ ~Creates(q) => InReach(w, rs))
  BY DEF PlanCalm
<1> SUFFICES PlanCalm(v, rs2)
  OBVIOUS
<1> HIDE DEF r, v
<1>4. InOrder(v)
  <2>1. \A k \in DOMAIN r : IsPrompt(r[k]) => k = 1
    BY <1>1, <1>3 DEF InOrder
  <2>2. \A k \in DOMAIN r : ~IsAlive(r[k]) /\ r[k].op # "end"
    BY <1>1, <2>1 DEF IsPrompt
  <2> QED
    BY <1>2, <2>1, <2>2 DEF InOrder
<1>5. ~Creates(q)
  BY <1>2, <1>3 DEF CreatesAfterEnd, Creates
<1>6. ~Creates(r) /\ (Saves(r) <=> Saves(q))
  BY <1>1, <1>2, <1>5 DEF Creates, Saves
<1>7. (\A i : NearTop(i, rs2) <=> NearTop(i, rs)) /\ (LastEnded(rs) => LastEnded(rs2)) /\ Len(rs2) = Len(rs)
  <2>1. DOMAIN rs2 = DOMAIN rs /\ \A i \in DOMAIN rs : rs2[i].deleted <=> rs[i].deleted
    BY DEF SameRows
  <2>2. \A i : NearTop(i, rs2) <=> NearTop(i, rs)
    BY <2>1, ReachStays
  <2>3. LastEnded(rs) => LastEnded(rs2)
    BY DEF LastEnded, SameRows
  <2> QED
    BY <2>2, <2>3 DEF SameRows
<1>8. CASE Saves(q)
  <2>1. SavesBehindNew(w, rs)
    BY <1>3, <1>5, <1>8
  <2>2. \A k \in DOMAIN r : r[k].on = "new" \/ r[k].op \in {"saveAsLast", "mark"}
    BY <1>1, <1>2, <2>1 DEF SavesBehindNew
  <2>3. SavesBehindNew(v, rs2)
    BY <1>2, <1>7, <2>1, <2>2 DEF SavesBehindNew
  <2> QED
    BY <1>2, <1>4, <1>6, <1>8, <2>3, CalmParts
<1>9. CASE ~Saves(q)
  <2>1. \A k \in DOMAIN q : q[k].op \in {"add", "end", "addOrReport"} => NearTop(Goal(q[k], w).oid, rs)
    BY <1>3, <1>5, <1>9 DEF InReach
  <2>2. \A y : Goal(y, v).oid = Goal(y, w).oid
    BY <1>2 DEF Goal
  <2>3. x.op = "add" => NearTop(Goal(x, w).oid, rs)
    BY <1>1, <1>2, <2>1 DEF Goal
  <2>4. InReach(v, rs2)
    BY <1>1, <1>2, <1>7, <2>1, <2>2, <2>3 DEF InReach
  <2> QED
    BY <1>2, <1>4, <1>6, <1>9, <2>4, CalmParts
<1> QED
  BY <1>8, <1>9

\* Sessions are deleted.
LEMMA CalmAfterDeleting ==
  ASSUME NEW w, NEW rs, PlanCalm(w, rs), NEW rs2, Deletes(rs, rs2),
         \A i \in DOMAIN rs : rs2[i].deleted /\ ~rs[i].deleted => TwoAbove(i, rs2)
  PROVE  PlanCalm(w, rs2)
<1>1. \A i : NearTop(i, rs) => NearTop(i, rs2)
  BY DEF NearTop, TwoAbove, Deletes
<1>2. (LastEnded(rs) => LastEnded(rs2)) /\ Len(rs2) = Len(rs)
  <2>1. rs2 # <<>> => rs # <<>> /\ Len(rs) \in DOMAIN rs
    BY DEF Deletes
  <2> QED
    BY <2>1 DEF LastEnded, Deletes
<1>3. InOrder(w) /\ (Creates(w.todo) => CreatesAfterEnd(w, rs))
      /\ (Saves(w.todo) /\ ~Creates(w.todo) => SavesBehindNew(w, rs))
      /\ (~Saves(w.todo) /\ ~Creates(w.todo) => InReach(w, rs))
  BY DEF PlanCalm
<1>4. (CreatesAfterEnd(w, rs) => CreatesAfterEnd(w, rs2)) /\ (SavesBehindNew(w, rs) => SavesBehindNew(w, rs2))
      /\ (InReach(w, rs) => InReach(w, rs2))
  BY <1>1, <1>2 DEF CreatesAfterEnd, SavesBehindNew, InReach
<1> QED
  BY <1>3, <1>4 DEF PlanCalm

-----------------------------------------------------------------------------

Quiet == faults = {}

(* As long as nothing went wrong, the plans are calm, only the last session is live, and
   every event that is to be sent has its row. *)
CalmInv ==
  Quiet =>
    /\ \A t \in Threads : PlanCalm(work[t], rows)
    /\ LiveRows(rows, work)
    /\ EventsKept(events, rows)

\* LiveRows for one thread alone.
LiveFor(rs, w) ==
  \A i \in DOMAIN rs : rs[i].finished \/ i = Len(rs) \/ (Saves(w.todo) /\ w.cur.oid = i)

\* The rows that live while one thread is at work.
LEMMA AloneLives ==
  ASSUME NEW rs, NEW wk, NEW t \in Threads, \A u \in Threads \ {t} : wk[u] = NoWork
  PROVE  LiveRows(rs, wk) <=> LiveFor(rs, wk[t])
<1>1. \A u \in Threads \ {t} : ~Saves(wk[u].todo)
  BY DEF NoWork, Saves
<1> QED
  BY <1>1 DEF LiveRows, LiveFor

\* What is known when thread t takes a step in a state without faults.
AtWork(t, op) ==
  /\ rows \in Seq(Row) /\ events \in Seq(Event) /\ lastSessionID \in Nat
  /\ RowsFit(rows, lastSessionID) /\ EventsFit(events, rows)
  /\ ObjectsFit(work[t], rows) /\ PlanFits(work[t], rows) /\ PlanCalm(work[t], rows)
  /\ LiveFor(rows, work[t]) /\ EventsKept(events, rows)
  /\ work[t].todo \in Seq(Steps) /\ work[t].todo # <<>>
  /\ work[t].todo[1] \in Steps /\ work[t].todo[1].op = op
  /\ Head(Todo(t)) = work[t].todo[1] /\ Rest(t) = Tail(work[t].todo)
  /\ Referable(work[t].cur, rows) /\ Referable(work[t].new, rows)
  /\ \A u \in Threads \ {t} : work[u] = NoWork

LEMMA CalmContext ==
  ASSUME Typed, Sound, CalmInv, Quiet, NEW t \in Threads, NEW op, IsNext(t, op)
  PROVE  AtWork(t, op)
<1>1. Clean
  BY DEF Quiet, Clean
<1>2. /\ Alone(t)
      /\ rows \in Seq(Row) /\ events \in Seq(Event) /\ lastSessionID \in Nat
      /\ RowsFit(rows, lastSessionID) /\ EventsFit(events, rows)
      /\ ObjectsFit(work[t], rows) /\ PlanFits(work[t], rows)
      /\ work[t].todo \in Seq(Steps) /\ work[t].todo # <<>>
      /\ work[t].todo[1] \in Steps /\ work[t].todo[1].op = op /\ Head(Todo(t)) = work[t].todo[1]
      /\ Rest(t) = Tail(work[t].todo)
      /\ Referable(work[t].cur, rows) /\ Referable(work[t].new, rows)
  BY <1>1, StepContext
<1>3. \A u \in Threads \ {t} : work[u] = NoWork
  BY <1>2 DEF Typed, WorkFits, Alone, IsIdle
<1>4. PlanCalm(work[t], rows) /\ LiveRows(rows, work) /\ EventsKept(events, rows)
  BY DEF CalmInv
<1>5. LiveFor(rows, work[t])
  BY <1>3, <1>4, AloneLives
<1> QED
  BY <1>2, <1>3, <1>4, <1>5 DEF AtWork

\* A thread alone at work leaves everything calm if it does so itself.
LEMMA AloneIsCalm ==
  ASSUME NEW t \in Threads, \A u \in Threads \ {t} : work'[u] = NoWork,
         Quiet' => PlanCalm(work'[t], rows') /\ LiveFor(rows', work'[t]) /\ EventsKept(events', rows')
  PROVE  CalmInv'
<1> SUFFICES ASSUME Quiet'
    PROVE  /\ \A u \in Threads : PlanCalm(work'[u], rows')
           /\ LiveRows(rows', work')
           /\ EventsKept(events', rows')
  BY DEF CalmInv
<1>1. PlanCalm(NoWork, rows')
  BY DEF PlanCalm, InOrder, Creates, Saves, InReach, NoWork
<1>2. LiveRows(rows', work')
  BY AloneLives
<1> QED
  BY <1>1, <1>2

\* An object that a step refers to, when it is within reach, is the copy of a row.
LEMMA GoalAgrees ==
  ASSUME NEW t \in Threads, NEW op, AtWork(t, op), op \in {"add", "end", "addOrReport"}
  PROVE  LET s == Goal(work[t].todo[1], work[t]) IN
         /\ NearTop(s.oid, rows)
         /\ s # NoSession /\ s \in Object
         /\ op # "addOrReport" => Agrees(s, rows)
<1> DEFINE w == work[t]
           q == w.todo
           x == q[1]
           s == Goal(x, w)
<1>1. 1 \in DOMAIN q /\ x \in Steps /\ x.op = op /\ x.on \in {"cur", "new"}
  BY DEF AtWork, Steps, Step
<1>2. /\ Creates(q) => CreatesAfterEnd(w, rows)
      /\ Saves(q) /\ ~Creates(q) => SavesBehindNew(w, rows)
      /\ ~Saves(q) /\ ~Creates(q) => InReach(w, rows)
  BY DEF AtWork, PlanCalm
<1>3. rows \in Seq(Row) /\ RowsFit(rows, lastSessionID) /\ Referable(w.cur, rows) /\ Referable(w.new, rows)
      /\ ObjectsFit(w, rows)
  BY DEF AtWork
<1> HIDE DEF w
<1>4. (w.cur.oid = Len(rows) /\ w.cur # NoSession => NearTop(w.cur.oid, rows))
      /\ (w.new.oid = Len(rows) /\ w.new # NoSession => NearTop(w.new.oid, rows))
  <2>1. (w.cur # NoSession => rows # <<>>) /\ (w.new # NoSession => rows # <<>>)
    BY <1>3 DEF Referable
  <2> QED
    BY <1>3, <2>1, LastIsNear
<1>5. NearTop(s.oid, rows)
  <2>1. CASE Creates(q)
    <3>1. \E k \in DOMAIN q : q[k].op = "create" /\ k # 1
      BY <1>1, <1>2, <2>1 DEF Creates, CreatesAfterEnd
    <3>2. w.cur # NoSession /\ w.cur.oid = Len(rows) /\ (x.op = "end" \/ IsAlive(x))
      BY <1>2, <2>1, <3>1 DEF CreatesAfterEnd
    <3>3. x.on = "cur"
      BY <1>1, <3>2 DEF AtWork, PlanCalm, InOrder, w, Steps
    <3> QED
      BY <1>4, <3>2, <3>3 DEF Goal
  <2>2. CASE ~Creates(q) /\ Saves(q)
    <3>1. SavesBehindNew(w, rows)
      BY <1>2, <2>2
    <3>2. x.on = "new"
      BY <1>1, <3>1 DEF SavesBehindNew
    <3> QED
      BY <1>4, <3>1, <3>2 DEF SavesBehindNew, Goal
  <2>3. CASE ~Creates(q) /\ ~Saves(q)
    BY <1>1, <1>2, <2>3 DEF InReach
  <2> QED
    BY <2>1, <2>2, <2>3
<1>6. s # NoSession
  BY <1>3, <1>5 DEF NearTop, NoSession
<1>7. s \in Object /\ Agrees(s, rows)
  BY <1>1, <1>3, <1>6 DEF Goal, Referable, ObjectsFit
<1> QED
  BY <1>5, <1>6, <1>7 DEF w

-----------------------------------------------------------------------------
(* What each step does when nothing fails. *)

EndEffect(t) ==
  LET w == work[t] IN
  /\ Agrees(w.cur, rows) /\ ~w.cur.finished /\ w.cur \in Object
  /\ Alters(rows, rows', w.cur.oid) /\ rows'[w.cur.oid].finished
  /\ \A u \in Threads \ {t} : work'[u] = NoWork
  /\ \E cur \in Object :
       /\ cur.oid = w.cur.oid /\ cur.id = w.cur.id /\ cur # NoSession
       /\ work'[t] = [todo |-> <<Add("alive", "cur")>> \o Tail(w.todo), cur |-> cur, new |-> w.new]
  /\ w.todo[1].on = "cur"

LEMMA EndSessionEffect ==
  ASSUME Typed, NEW t \in Threads, AtWork(t, "end"), EndSession(t), Quiet'
  PROVE  EndEffect(t)
<1> DEFINE w  == work[t]
           s  == w.cur
           s2 == [s EXCEPT !.finished = TRUE]
           q  == <<Add("alive", "cur")>> \o Tail(w.todo)
<1>1. w.todo[1] \in Steps /\ w.todo[1].op = "end" /\ Head(Todo(t)) = w.todo[1] /\ Rest(t) = Tail(w.todo)
      /\ rows \in Seq(Row) /\ w.todo \in Seq(Steps) /\ w.todo # <<>> /\ 1 \in DOMAIN w.todo
      /\ Referable(w.new, rows)
      /\ \A u \in Threads \ {t} : work[u] = NoWork
  BY DEF AtWork
<1>2. w.todo[1].on = "cur" /\ Target(t) = s /\ Goal(w.todo[1], w) = s
  BY <1>1 DEF Steps, Target, Goal
<1>3. s # NoSession /\ s \in Object /\ Agrees(s, rows)
  BY <1>2, GoalAgrees
<1>4. ~s.finished
  BY <1>1 DEF AtWork, PlanCalm, InOrder
<1>5. rows' = [rows EXCEPT ![s.oid].finished = TRUE] /\ GoOnWith(t, q, s2)
  <2>1. ~Failing
    BY DEF Failing, Quiet
  <2> QED
    BY <1>1, <1>2, <2>1 DEF EndSession
<1>6. s.oid \in DOMAIN rows
  BY <1>3 DEF Agrees
<1> HIDE DEF w
<1>7. Alters(rows, rows', s.oid) /\ rows'[s.oid].finished
  BY <1>1, <1>5, <1>6, FinishingAlters
<1>8. s2 \in Object /\ s2.oid = s.oid /\ s2.id = s.id
  BY <1>3 DEF Object
<1>9. s2 # NoSession
  BY <1>1, <1>6, <1>8 DEF NoSession
<1>10. Add("alive", "cur") \in Steps
  BY StepsTypes DEF Kinds
<1>11. q \in Seq(Steps) /\ q # <<>>
  BY <1>1, <1>10, FirstReplaced
<1> HIDE DEF s2, q
<1>12. Referable(s2, rows') /\ DOMAIN rows \subseteq DOMAIN rows'
  BY <1>6, <1>7, <1>8 DEF Referable, Alters
<1>13. work'[t] = GoneOn(q, s2, w.new) /\ \A u \in Threads \ {t} : work'[u] = work[u]
  BY <1>1, <1>2, <1>5, <1>11, <1>12, GoesOnWith DEF w
<1>14. work'[t] = [todo |-> q, cur |-> s2, new |-> w.new]
  BY <1>11, <1>13 DEF GoneOn
<1>15. \E cur \in Object :
         /\ cur.oid = s.oid /\ cur.id = s.id /\ cur # NoSession
         /\ work'[t] = [todo |-> q, cur |-> cur, new |-> w.new]
  BY <1>8, <1>9, <1>14
<1> QED
  BY <1>1, <1>2, <1>3, <1>4, <1>7, <1>13, <1>15 DEF EndEffect, w, q

CreateEffect(t) ==
  LET w    == work[t]
      what == w.todo[1].what
  IN
  /\ \A u \in Threads \ {t} : work'[u] = NoWork
  /\ lastSessionID' = lastSessionID + 1
  /\ w.todo[1].op = "create"
  /\ \E row \in Row : \E new \in Object :
       /\ row.id = lastSessionID + 1 /\ ~row.deleted
       /\ row.type = IF what = "General" THEN "General" ELSE "Background"
       /\ row.finished = (what = "Finished")
       /\ new # NoSession /\ new.oid = Len(rows) + 1 /\ new.id = row.id /\ new.type = row.type
       /\ rows' = Append(rows, row)
       /\ lived' = IF row.finished THEN lived ELSE lived \cup {row.id}
       /\ work'[t] = GoneOn(Tail(w.todo), w.cur, new)

LEMMA NewSessionEffect ==
  ASSUME Typed, NEW t \in Threads, AtWork(t, "create"), NewSession(t), Quiet'
  PROVE  CreateEffect(t)
<1> DEFINE w    == work[t]
           what == w.todo[1].what
           id   == lastSessionID + 1
           row  == [id |-> id, type |-> IF what = "General" THEN "General" ELSE "Background",
                    finished |-> what = "Finished", eventSeq |-> 0, deleted |-> FALSE]
           s    == [oid |-> Len(rows) + 1, id |-> id, type |-> row.type,
                    finished |-> row.finished, eventSeq |-> 0]
<1>1. w.todo[1] \in Steps /\ w.todo[1].op = "create" /\ Head(Todo(t)) = w.todo[1] /\ Rest(t) = Tail(w.todo)
      /\ rows \in Seq(Row) /\ w.todo \in Seq(Steps) /\ w.todo # <<>> /\ lastSessionID \in Nat
      /\ Referable(w.cur, rows)
      /\ \A u \in Threads \ {t} : work[u] = NoWork
  BY DEF AtWork
<1>2. w.todo[1].on = "new" /\ Tail(w.todo) \in Seq(Steps)
  BY <1>1, TailSteps DEF Steps
<1>3. /\ rows' = Append(rows, row)
      /\ lastSessionID' = id
      /\ lived' = IF row.finished THEN lived ELSE lived \cup {id}
      /\ GoOnWith(t, Tail(w.todo), s)
  <2>1. ~Failing
    BY DEF Failing, Quiet
  <2> HIDE DEF w
  <2> QED
    BY <1>1, <2>1 DEF NewSession
<1> HIDE DEF w
<1>4. row \in Row /\ row.id = id /\ ~row.deleted
  BY <1>1 DEF Row
<1>5. s \in Object
  BY <1>1 DEF Object
<1>6. row.type = IF what = "General" THEN "General" ELSE "Background"
  OBVIOUS
<1>7. row.finished = (what = "Finished")
  OBVIOUS
<1>8. s.oid = Len(rows) + 1 /\ s.id = row.id /\ s.type = row.type
  OBVIOUS
<1> HIDE DEF row, s, id, what
<1>9. s # NoSession
  <2>1. Len(rows) \in Nat
    BY <1>1
  <2> QED
    BY <1>8, <2>1 DEF NoSession
<1>10. DOMAIN rows' = DOMAIN rows \cup {Len(rows) + 1}
  BY <1>1, <1>3, <1>4, AppendedRow
<1>11. Referable(s, rows') /\ DOMAIN rows \subseteq DOMAIN rows'
  BY <1>5, <1>8, <1>10 DEF Referable
<1>12. work'[t] = GoneOn(Tail(w.todo), w.cur, s) /\ \A u \in Threads \ {t} : work'[u] = work[u]
  <2>1. Head(Todo(t)).on # "cur"
    BY <1>1, <1>2
  <2> QED
    BY <1>2, <1>3, <1>11, <2>1, GoesOnWith DEF w
<1>13. /\ row.id = id /\ ~row.deleted
       /\ row.type = IF what = "General" THEN "General" ELSE "Background"
       /\ s # NoSession /\ s.oid = Len(rows) + 1 /\ s.id = row.id /\ s.type = row.type
       /\ rows' = Append(rows, row)
       /\ lived' = IF row.finished THEN lived ELSE lived \cup {row.id}
       /\ work'[t] = GoneOn(Tail(w.todo), w.cur, s)
  BY <1>3, <1>4, <1>6, <1>8, <1>9, <1>12
<1>14. \A u \in Threads \ {t} : work'[u] = NoWork
  BY <1>1, <1>12
<1>15. \E r \in Row : \E new \in Object :
       /\ r.id = lastSessionID + 1 /\ ~r.deleted
       /\ r.type = IF what = "General" THEN "General" ELSE "Background"
       /\ r.finished = (what = "Finished")
       /\ new # NoSession /\ new.oid = Len(rows) + 1 /\ new.id = r.id /\ new.type = r.type
       /\ rows' = Append(rows, r)
       /\ lived' = IF r.finished THEN lived ELSE lived \cup {r.id}
       /\ work'[t] = GoneOn(Tail(w.todo), w.cur, new)
  <2> DEFINE P(r, new) ==
               /\ r.id = lastSessionID + 1 /\ ~r.deleted
               /\ r.type = IF what = "General" THEN "General" ELSE "Background"
               /\ r.finished = (what = "Finished")
               /\ new # NoSession /\ new.oid = Len(rows) + 1 /\ new.id = r.id /\ new.type = r.type
               /\ rows' = Append(rows, r)
               /\ lived' = IF r.finished THEN lived ELSE lived \cup {r.id}
               /\ work'[t] = GoneOn(Tail(w.todo), w.cur, new)
  <2>1. P(row, s)
    BY <1>7, <1>13 DEF id
  <2> HIDE DEF P
  <2>2. \E r \in Row : \E new \in Object : P(r, new)
    BY <1>4, <1>5, <2>1
  <2> QED
    BY <2>2 DEF P
<1>16. lastSessionID' = lastSessionID + 1
  BY <1>3 DEF id
<1> QED
  BY <1>1, <1>14, <1>15, <1>16 DEF CreateEffect, w, what

SaveEffect(t) ==
  LET w == work[t] IN
  /\ Agrees(w.cur, rows) /\ w.cur \in Object
  /\ SavesBehindNew(w, rows)
  /\ \A u \in Threads \ {t} : work'[u] = NoWork
  /\ \E rows1 \in Seq(Row) : \E row \in Row : \E cur \in Object :
       /\ Alters(rows, rows1, w.cur.oid) /\ rows1[w.cur.oid].finished
       /\ row.id = w.cur.id /\ row.type = w.cur.type /\ ~row.deleted
       /\ row.finished = w.cur.finished
       /\ rows' = Append(rows1, row)
       /\ cur.id = w.cur.id
       /\ work'[t] = GoneOn(Tail(w.todo), cur, w.new)

LEMMA SaveSessionAsLastSessionEffect ==
  ASSUME Typed, NEW t \in Threads, AtWork(t, "saveAsLast"), SaveSessionAsLastSession(t), Quiet'
  PROVE  SaveEffect(t)
<1> DEFINE w     == work[t]
           s     == w.cur
           rows1 == [rows EXCEPT ![s.oid].finished = TRUE]
           row   == [id |-> s.id, type |-> s.type, finished |-> s.finished,
                     eventSeq |-> s.eventSeq, deleted |-> FALSE]
           s2    == [s EXCEPT !.oid = Len(rows) + 1]
<1>1. w.todo[1] \in Steps /\ w.todo[1].op = "saveAsLast" /\ Head(Todo(t)) = w.todo[1] /\ Rest(t) = Tail(w.todo)
      /\ rows \in Seq(Row) /\ w.todo \in Seq(Steps) /\ w.todo # <<>> /\ 1 \in DOMAIN w.todo
      /\ Referable(w.cur, rows) /\ Referable(w.new, rows) /\ ObjectsFit(w, rows)
      /\ \A u \in Threads \ {t} : work[u] = NoWork
  BY DEF AtWork
<1>2. w.todo[1].on = "cur" /\ Tail(w.todo) \in Seq(Steps) /\ Target(t) = s
  BY <1>1, TailSteps DEF Steps, Target
<1>3. /\ s # NoSession
      /\ \A j \in DOMAIN w.todo : w.todo[j].op = "create" => j = 1
  BY <1>1 DEF AtWork, PlanFits
<1>4. ~Creates(w.todo) /\ Saves(w.todo)
  BY <1>1, <1>3 DEF Creates, Saves
<1>5. SavesBehindNew(w, rows)
  BY <1>4 DEF AtWork, PlanCalm
<1>6. rows' = Append(rows1, row) /\ GoOnWith(t, Tail(w.todo), s2)
  <2>1. ~Failing
    BY DEF Failing, Quiet
  <2> QED
    BY <1>1, <1>2, <2>1 DEF SaveSessionAsLastSession
<1> HIDE DEF w
<1>7. Agrees(s, rows) /\ s \in Object /\ s.oid \in DOMAIN rows
  BY <1>1, <1>3 DEF ObjectsFit, Referable, Agrees
<1>8. Alters(rows, rows1, s.oid) /\ rows1[s.oid].finished
  BY <1>1, <1>7, FinishingAlters
<1>9. row \in Row /\ row.id = s.id /\ row.type = s.type /\ ~row.deleted
  BY <1>7 DEF Row, Object
<1>10. row.finished = s.finished
  OBVIOUS
<1>11. s2 \in Object /\ s2.id = s.id /\ s2.oid = Len(rows) + 1
  <2>1. Len(rows) + 1 \in Nat
    BY <1>1
  <2> QED
    BY <1>7, <2>1, MovedObject
<1> HIDE DEF rows1, row, s2
<1>12. DOMAIN rows' = DOMAIN rows \cup {Len(rows) + 1} /\ rows1 \in Seq(Row)
  BY <1>6, <1>8, <1>9, AppendedRow DEF Alters
<1>13. Referable(s2, rows') /\ DOMAIN rows \subseteq DOMAIN rows'
  BY <1>11, <1>12 DEF Referable
<1>14. work'[t] = GoneOn(Tail(w.todo), s2, w.new) /\ \A u \in Threads \ {t} : work'[u] = work[u]
  BY <1>1, <1>2, <1>6, <1>13, GoesOnWith DEF w
<1> DEFINE P(rs, r, cur) ==
             /\ Alters(rows, rs, s.oid) /\ rs[s.oid].finished
             /\ r.id = s.id /\ r.type = s.type /\ ~r.deleted
             /\ r.finished = s.finished
             /\ rows' = Append(rs, r)
             /\ cur.id = s.id
             /\ work'[t] = GoneOn(Tail(w.todo), cur, w.new)
<1>15. P(rows1, row, s2)
  BY <1>6, <1>8, <1>9, <1>10, <1>11, <1>14
<1> HIDE DEF P
<1>16. \E rs \in Seq(Row) : \E r \in Row : \E cur \in Object : P(rs, r, cur)
  BY <1>9, <1>11, <1>12, <1>15
<1> QED
  BY <1>1, <1>5, <1>7, <1>14, <1>16 DEF SaveEffect, P, w

AddEffect(t) ==
  LET w    == work[t]
      x    == w.todo[1]
      s    == Goal(x, w)
  IN
  /\ x.op = "add" /\ x.what \in Kinds /\ x.on \in {"cur", "new"}
  /\ NearTop(s.oid, rows) /\ s # NoSession /\ s \in Object /\ Agrees(s, rows)
  /\ \A u \in Threads \ {t} : work'[u] = NoWork
  /\ SameRows(rows, rows') /\ rows' \in Seq(Row)
  /\ \E e \in Event :
       /\ e.session = s.oid /\ e.id = s.id /\ e.kind = x.what /\ ~e.purged
       /\ events' = Append(events, e)
  /\ \E cur \in Object : \E new \in Object :
       /\ cur.oid = w.cur.oid /\ cur.id = w.cur.id
       /\ new.oid = w.new.oid /\ new.type = w.new.type /\ (w.new # NoSession => new # NoSession)
       /\ work'[t] = GoneOn(AfterAdding(x.what, x.on, s) \o Tail(w.todo), cur, new)

LEMMA AddEventEffect ==
  ASSUME Typed, NEW t \in Threads, AtWork(t, "add"), AddEvent(t), Quiet'
  PROVE  AddEffect(t)
<1> DEFINE w     == work[t]
           x     == w.todo[1]
           s     == Goal(x, w)
           event == [session |-> s.oid, id |-> s.id, kind |-> x.what,
                     sequenceNumber |-> s.eventSeq, purged |-> FALSE]
           moved == [s EXCEPT !.eventSeq = @ + 1]
           more  == AfterAdding(x.what, x.on, s) \o Tail(w.todo)
<1>1. x \in Steps /\ x.op = "add" /\ Head(Todo(t)) = x /\ Rest(t) = Tail(w.todo)
      /\ rows \in Seq(Row) /\ w.todo \in Seq(Steps) /\ w.todo # <<>>
      /\ Referable(w.cur, rows) /\ Referable(w.new, rows)
      /\ \A u \in Threads \ {t} : work[u] = NoWork
  BY DEF AtWork
<1>2. x.what \in Kinds /\ x.on \in {"cur", "new"} /\ Tail(w.todo) \in Seq(Steps)
  BY <1>1, TailSteps DEF Steps, Step
<1>3. s # NoSession /\ s \in Object /\ Agrees(s, rows) /\ NearTop(s.oid, rows)
  BY GoalAgrees
<1>4. Target(t) = s
  BY <1>1 DEF Target, Goal
<1>5. /\ events' = Append(events, event)
      /\ rows' = [rows EXCEPT ![s.oid].eventSeq = s.eventSeq + 1]
      /\ GoOnWith(t, more, moved)
  <2>1. ~Failing
    BY DEF Failing, Quiet
  <2> HIDE DEF w, s
  <2> QED
    BY <1>1, <1>3, <1>4, <2>1 DEF AddEvent
<1>6. more \in Seq(Steps)
  <2> HIDE DEF s, w, x
  <2> QED
    BY <1>2, AfterAddingTyped
<1> HIDE DEF w
<1>7. s.eventSeq + 1 \in Nat /\ s.oid \in DOMAIN rows
  BY <1>3 DEF Object, Agrees
<1>8. event \in Event /\ event.session = s.oid /\ event.id = s.id /\ event.kind = x.what /\ ~event.purged
  BY <1>2, <1>3 DEF Event, Object
<1>9. moved \in Object /\ moved.oid = s.oid /\ moved.id = s.id /\ moved.type = s.type
  BY <1>3 DEF Object
<1> HIDE DEF event, moved, more, s, x
<1>10. Alters(rows, rows', s.oid) /\ rows'[s.oid].finished = rows[s.oid].finished
  BY <1>1, <1>5, <1>7, CountingAlters
<1>11. SameRows(rows, rows') /\ rows' \in Seq(Row)
  <2>1. rows' \in Seq(Row) /\ rows \in Seq(Row) /\ Len(rows') = Len(rows) /\ DOMAIN rows' = DOMAIN rows
        /\ \A i \in DOMAIN rows :
             rows'[i].id = rows[i].id /\ rows'[i].type = rows[i].type /\ rows'[i].deleted = rows[i].deleted
    BY <1>10 DEF Alters
  <2>2. \A i \in DOMAIN rows : rows'[i].finished = rows[i].finished
    BY <1>10 DEF Alters
  <2>3. rows' # <<>> => rows # <<>> /\ Len(rows') \in DOMAIN rows
    BY <2>1
  <2> QED
    BY <2>1, <2>2, <2>3 DEF SameRows
<1>12. moved # NoSession
  BY <1>1, <1>7, <1>9 DEF NoSession
<1>13. Referable(moved, rows') /\ DOMAIN rows \subseteq DOMAIN rows'
  BY <1>7, <1>9, <1>11 DEF Referable, SameRows
<1>14. /\ work'[t] = IF x.on = "cur" THEN GoneOn(more, moved, w.new) ELSE GoneOn(more, w.cur, moved)
       /\ \A u \in Threads \ {t} : work'[u] = work[u]
  BY <1>1, <1>5, <1>6, <1>13, GoesOnWith DEF w
<1> DEFINE P(cur, new) ==
             /\ cur.oid = w.cur.oid /\ cur.id = w.cur.id
             /\ new.oid = w.new.oid /\ new.type = w.new.type /\ (w.new # NoSession => new # NoSession)
             /\ work'[t] = GoneOn(more, cur, new)
<1>15. \E cur \in Object : \E new \in Object : P(cur, new)
  <2>0. w.cur \in Object /\ w.new \in Object
    BY <1>1 DEF Referable
  <2>1. CASE x.on = "cur"
    <3>1. s = w.cur
      BY <2>1 DEF s, Goal
    <3>2. P(moved, w.new)
      BY <1>9, <1>12, <1>14, <2>1, <3>1
    <3> HIDE DEF P
    <3> QED
      BY <1>9, <2>0, <3>2
  <2>2. CASE x.on # "cur"
    <3>1. s = w.new
      BY <2>2 DEF s, Goal
    <3>2. P(w.cur, moved)
      BY <1>9, <1>12, <1>14, <2>2, <3>1
    <3> HIDE DEF P
    <3> QED
      BY <1>9, <2>0, <3>2
  <2> QED
    BY <2>1, <2>2
<1> HIDE DEF P
<1>16. \E e \in Event :
         /\ e.session = s.oid /\ e.id = s.id /\ e.kind = x.what /\ ~e.purged
         /\ events' = Append(events, e)
  BY <1>5, <1>8
<1> QED
  BY <1>1, <1>2, <1>3, <1>11, <1>14, <1>15, <1>16 DEF AddEffect, P, w, x, s, more

MarkEffect(t) ==
  LET w    == work[t]
      flag == w.todo[1].what
  IN
  /\ flag \in Flags /\ w.todo[1].op = "mark"
  /\ sent' = [sent EXCEPT ![flag] = TRUE]
  /\ saved' = IF sent[flag] THEN saved ELSE [saved EXCEPT ![flag] = TRUE]
  /\ UNCHANGED <<rows, events>>
  /\ \A u \in Threads \ {t} : work'[u] = NoWork
  /\ work'[t] = GoneOn(Tail(w.todo), w.cur, w.new)

LEMMA MarkEventSentEffect ==
  ASSUME Typed, NEW t \in Threads, AtWork(t, "mark"), MarkEventSent(t), Quiet'
  PROVE  MarkEffect(t)
<1> DEFINE w == work[t]
<1>1. w.todo[1] \in Steps /\ w.todo[1].op = "mark" /\ Head(Todo(t)) = w.todo[1] /\ Rest(t) = Tail(w.todo)
      /\ w.todo \in Seq(Steps) /\ w.todo # <<>> /\ Referable(w.cur, rows)
      /\ \A u \in Threads \ {t} : work[u] = NoWork
  BY DEF AtWork
<1>2. w.todo[1].on = "cur" /\ Tail(w.todo) \in Seq(Steps) /\ Target(t) = w.cur /\ w.todo[1].what \in Flags
  BY <1>1, TailSteps DEF Steps, Target
<1>3. ~Failing
  BY DEF Failing, Quiet
<1>4. /\ sent' = [sent EXCEPT ![w.todo[1].what] = TRUE]
      /\ saved' = IF sent[w.todo[1].what] THEN saved ELSE [saved EXCEPT ![w.todo[1].what] = TRUE]
      /\ UNCHANGED <<rows, events>>
      /\ GoOnWith(t, Tail(w.todo), w.cur)
  BY <1>1, <1>2, <1>3 DEF MarkEventSent
<1>5. work'[t] = GoneOn(Tail(w.todo), w.cur, w.new) /\ \A u \in Threads \ {t} : work'[u] = work[u]
  <2>1. Referable(w.cur, rows') /\ DOMAIN rows \subseteq DOMAIN rows'
    BY <1>1, <1>4
  <2> QED
    BY <1>1, <1>2, <1>4, <2>1, GoesOnWith
<1> QED
  BY <1>1, <1>2, <1>4, <1>5 DEF MarkEffect

OrReportEffect(t) ==
  LET w == work[t] IN
  /\ w.todo[1].op = "addOrReport" /\ w.todo[1].on = "new"
  /\ UNCHANGED <<rows, events>>
  /\ \A u \in Threads \ {t} : work'[u] = NoWork
  /\ work'[t] = GoneOn(<<Add("client", "new")>> \o Tail(w.todo), w.cur, w.new)

LEMMA AddToNewOrReportEffect ==
  ASSUME Typed, NEW t \in Threads, AtWork(t, "addOrReport"), AddToNewOrReport(t)
  PROVE  OrReportEffect(t)
<1> DEFINE w == work[t]
           q == <<Add("client", "new")>> \o Tail(w.todo)
<1>1. w.todo[1] \in Steps /\ w.todo[1].op = "addOrReport" /\ Head(Todo(t)) = w.todo[1] /\ Rest(t) = Tail(w.todo)
      /\ w.todo \in Seq(Steps) /\ w.todo # <<>> /\ Referable(w.new, rows)
      /\ \A u \in Threads \ {t} : work[u] = NoWork
  BY DEF AtWork
<1>2. w.todo[1].on = "new"
  BY <1>1 DEF Steps
<1>3. w.new # NoSession
  BY <1>2, GoalAgrees DEF Goal
<1>4. GoOnWith(t, q, w.new) /\ UNCHANGED <<rows, events>>
  BY <1>1, <1>3 DEF AddToNewOrReport, stored
<1>5. q \in Seq(Steps)
  <2>1. Add("client", "new") \in Steps
    BY StepsTypes DEF Kinds
  <2> QED
    BY <1>1, <2>1, FirstReplaced
<1> HIDE DEF q
<1>6. work'[t] = GoneOn(q, w.cur, w.new) /\ \A u \in Threads \ {t} : work'[u] = work[u]
  <2>1. Referable(w.new, rows') /\ DOMAIN rows \subseteq DOMAIN rows' /\ Head(Todo(t)).on # "cur"
    BY <1>1, <1>2, <1>4
  <2> QED
    BY <1>4, <1>5, <2>1, GoesOnWith
<1> QED
  BY <1>1, <1>2, <1>4, <1>6 DEF OrReportEffect, q

-----------------------------------------------------------------------------

LEMMA GoneOnLives ==
  ASSUME NEW r, NEW cur, NEW new, NEW rs, LiveFor(rs, [todo |-> r, cur |-> cur, new |-> new])
  PROVE  LiveFor(rs, GoneOn(r, cur, new))
<1>1. CASE r = <<>>
  <2>1. ~Saves(r)
    BY <1>1 DEF Saves
  <2> QED
    BY <1>1, <2>1 DEF LiveFor, GoneOn, NoWork
<1>2. CASE r # <<>>
  BY <1>2 DEF GoneOn
<1> QED
  BY <1>1, <1>2

-----------------------------------------------------------------------------
(* Each step leaves everything calm. *)

LEMMA EndSessionCalm ==
  ASSUME Typed, NEW t \in Threads, AtWork(t, "end"), EndSession(t)
  PROVE  CalmInv'
<1> SUFFICES ASSUME Quiet' PROVE CalmInv'
  BY DEF CalmInv
<1> DEFINE w == work[t]
           q == <<Add("alive", "cur")>> \o Tail(w.todo)
<1>1. EndEffect(t)
  BY EndSessionEffect
<1>2. PICK cur \in Object :
        /\ cur.oid = w.cur.oid /\ cur.id = w.cur.id /\ cur # NoSession
        /\ work'[t] = [todo |-> q, cur |-> cur, new |-> w.new]
  BY <1>1 DEF EndEffect
<1>3. /\ rows \in Seq(Row) /\ PlanFits(w, rows) /\ PlanCalm(w, rows)
      /\ LiveFor(rows, w) /\ EventsKept(events, rows)
      /\ w.todo \in Seq(Steps) /\ w.todo # <<>> /\ w.todo[1].op = "end" /\ 1 \in DOMAIN w.todo
  BY DEF AtWork
<1>4. Alters(rows, rows', w.cur.oid) /\ rows'[w.cur.oid].finished /\ w.todo[1].on = "cur"
      /\ \A u \in Threads \ {t} : work'[u] = NoWork
  BY <1>1 DEF EndEffect
<1>5. UNCHANGED events /\ \A e \in DOMAIN events : events[e].session \in DOMAIN rows
  BY DEF EndSession, AtWork, EventsFit
<1> HIDE DEF w
<1>6. PlanCalm(work'[t], rows')
  BY <1>2, <1>3, <1>4, EndGoesOn
<1>7. ~Saves(w.todo)
  BY <1>3 DEF Saves, PlanFits
<1>8. LiveFor(rows', work'[t])
  BY <1>3, <1>4, <1>7 DEF LiveFor, Alters
<1>9. EventsKept(events', rows')
  BY <1>3, <1>4, <1>5 DEF EventsKept, Alters
<1> QED
  BY <1>4, <1>6, <1>8, <1>9, AloneIsCalm

LEMMA NewSessionCalm ==
  ASSUME Typed, NEW t \in Threads, AtWork(t, "create"), NewSession(t)
  PROVE  CalmInv'
<1> SUFFICES ASSUME Quiet' PROVE CalmInv'
  BY DEF CalmInv
<1> DEFINE w == work[t]
           q == w.todo
           r == Tail(q)
<1>1. CreateEffect(t)
  BY NewSessionEffect
<1>2. PICK row \in Row : \E new \in Object :
        /\ ~row.deleted
        /\ row.finished = (q[1].what = "Finished")
        /\ new # NoSession /\ new.oid = Len(rows) + 1
        /\ rows' = Append(rows, row)
        /\ work'[t] = GoneOn(r, w.cur, new)
  BY <1>1 DEF CreateEffect
<1>3. PICK new \in Object :
        /\ ~row.deleted
        /\ row.finished = (q[1].what = "Finished")
        /\ new # NoSession /\ new.oid = Len(rows) + 1
        /\ rows' = Append(rows, row)
        /\ work'[t] = GoneOn(r, w.cur, new)
  BY <1>2
<1>4. /\ rows \in Seq(Row) /\ PlanCalm(w, rows)
      /\ LiveFor(rows, w) /\ EventsKept(events, rows)
      /\ q \in Seq(Steps) /\ q # <<>> /\ q[1].op = "create" /\ 1 \in DOMAIN q
  BY DEF AtWork
<1>5. \A u \in Threads \ {t} : work'[u] = NoWork
  BY <1>1 DEF CreateEffect
<1>6. UNCHANGED events /\ \A e \in DOMAIN events : events[e].session \in DOMAIN rows
  BY DEF NewSession, AtWork, EventsFit
<1>7. /\ \A k \in DOMAIN q : k # 1 => k - 1 \in DOMAIN r /\ r[k - 1] = q[k]
  BY <1>4, TailSteps
<1>8. rows' \in Seq(Row) /\ Len(rows') = Len(rows) + 1 /\ DOMAIN rows' = DOMAIN rows \cup {Len(rows) + 1}
      /\ \A i \in DOMAIN rows : rows'[i] = rows[i]
  BY <1>3, <1>4, AppendedRow
<1> HIDE DEF w, q, r
<1>9. PlanCalm(work'[t], rows')
  <2>1. PlanCalm([todo |-> r, cur |-> w.cur, new |-> new], Append(rows, row))
    BY <1>3, <1>4, CreateGoesOn DEF r, q
  <2> QED
    BY <1>3, <2>1, GoneOnIsCalm
<1>10. CreatesAfterEnd(w, rows)
  <2>1. Creates(w.todo)
    BY <1>4 DEF Creates, q
  <2> QED
    BY <1>4, <2>1 DEF PlanCalm
<1>11. Saves(q) => Saves(r)
  <2>1. \A k \in DOMAIN q : q[k].op = "saveAsLast" => k - 1 \in DOMAIN r /\ r[k - 1].op = "saveAsLast"
    BY <1>4, <1>7
  <2> QED
    BY <2>1 DEF Saves
<1>12. \A i \in DOMAIN rows : rows[i].finished \/ (Saves(r) /\ w.cur.oid = i)
  <2>1. LastEnded(rows) \/ (w.cur.oid = Len(rows) /\ Saves(q))
    BY <1>4, <1>10 DEF CreatesAfterEnd, q
  <2>2. \A i \in DOMAIN rows : rows # <<>>
    OBVIOUS
  <2> QED
    BY <1>4, <1>11, <2>1, <2>2 DEF LiveFor, LastEnded, q
<1>13. LiveFor(rows', work'[t])
  <2> DEFINE v == [todo |-> r, cur |-> w.cur, new |-> new]
  <2>1. v.todo = r /\ v.cur = w.cur
    OBVIOUS
  <2> HIDE DEF v
  <2>2. LiveFor(rows', v)
    BY <1>8, <1>12, <2>1 DEF LiveFor
  <2> QED
    BY <1>3, <2>2, GoneOnLives DEF v
<1>14. EventsKept(events', rows')
  BY <1>4, <1>6, <1>8 DEF EventsKept
<1> QED
  BY <1>5, <1>9, <1>13, <1>14, AloneIsCalm

LEMMA SaveSessionAsLastSessionCalm ==
  ASSUME Typed, NEW t \in Threads, AtWork(t, "saveAsLast"), SaveSessionAsLastSession(t)
  PROVE  CalmInv'
<1> SUFFICES ASSUME Quiet' PROVE CalmInv'
  BY DEF CalmInv
<1> DEFINE w == work[t]
           q == w.todo
           r == Tail(q)
<1>1. SaveEffect(t)
  BY SaveSessionAsLastSessionEffect
<1>2. PICK rs \in Seq(Row) : \E row \in Row : \E cur \in Object :
        /\ Alters(rows, rs, w.cur.oid) /\ rs[w.cur.oid].finished
        /\ ~row.deleted
        /\ rows' = Append(rs, row)
        /\ work'[t] = GoneOn(r, cur, w.new)
  BY <1>1 DEF SaveEffect
<1>3. PICK row \in Row : \E cur \in Object :
        /\ Alters(rows, rs, w.cur.oid) /\ rs[w.cur.oid].finished
        /\ ~row.deleted
        /\ rows' = Append(rs, row)
        /\ work'[t] = GoneOn(r, cur, w.new)
  BY <1>2
<1>4. PICK cur \in Object :
        /\ Alters(rows, rs, w.cur.oid) /\ rs[w.cur.oid].finished
        /\ ~row.deleted
        /\ rows' = Append(rs, row)
        /\ work'[t] = GoneOn(r, cur, w.new)
  BY <1>3
<1>5. /\ rows \in Seq(Row) /\ PlanCalm(w, rows) /\ PlanFits(w, rows) /\ RowsFit(rows, lastSessionID)
      /\ LiveFor(rows, w) /\ EventsKept(events, rows) /\ Referable(w.new, rows)
      /\ q \in Seq(Steps) /\ q # <<>> /\ q[1].op = "saveAsLast" /\ 1 \in DOMAIN q
  BY DEF AtWork
<1>6. /\ \A u \in Threads \ {t} : work'[u] = NoWork
      /\ SavesBehindNew(w, rows) /\ w.cur.oid \in DOMAIN rows
  BY <1>1 DEF SaveEffect, Agrees
<1>7. UNCHANGED events /\ \A e \in DOMAIN events : events[e].session \in DOMAIN rows
  BY DEF SaveSessionAsLastSession, AtWork, EventsFit
<1>8. /\ Len(rs) = Len(rows) /\ DOMAIN rs = DOMAIN rows
      /\ \A i \in DOMAIN rows : rs[i].deleted = rows[i].deleted /\ (rows[i].finished => rs[i].finished)
  BY <1>4 DEF Alters
<1>9. /\ Len(rows') = Len(rows) + 1 /\ DOMAIN rows' = DOMAIN rows \cup {Len(rows) + 1}
      /\ \A i \in DOMAIN rows : rows'[i] = rs[i]
  BY <1>4, <1>8, AppendedRow
<1> HIDE DEF w, q, r
<1>10. PlanCalm(work'[t], rows')
  <2>1. w.new.oid \in Nat /\ rows # <<>>
    BY <1>5, <1>6 DEF Referable, Object
  <2>2. PlanCalm([todo |-> r, cur |-> cur, new |-> w.new], Append(rs, row))
    BY <1>4, <1>5, <2>1, SaveGoesOn DEF r, q
  <2> QED
    BY <1>4, <2>2, GoneOnIsCalm
<1>11. \A i \in DOMAIN rows : rows'[i].finished
  <2>1. LastEnded(rows) /\ \A i \in DOMAIN rows : rows # <<>>
    BY <1>6 DEF SavesBehindNew
  <2> QED
    BY <1>4, <1>5, <1>8, <1>9, <2>1 DEF LiveFor, LastEnded
<1>12. LiveFor(rows', work'[t])
  BY <1>9, <1>11 DEF LiveFor
<1>13. EventsKept(events', rows')
  BY <1>5, <1>7, <1>8, <1>9 DEF EventsKept
<1> QED
  BY <1>6, <1>10, <1>12, <1>13, AloneIsCalm

\* A step that neither creates nor saves a session leaves what is planned, and who is live.
LEMMA PlansSave ==
  ASSUME NEW q \in Seq(Steps), q # <<>>, q[1].op # "saveAsLast",
         NEW r, r = Tail(q) \/ \E x \in Steps : x.op # "saveAsLast" /\ r = <<x>> \o Tail(q)
  PROVE  Saves(r) <=> Saves(q)
<1>1. CASE r = Tail(q)
  <2>1. /\ \A k \in DOMAIN r : k + 1 \in DOMAIN q /\ r[k] = q[k + 1]
        /\ \A k \in DOMAIN q : k # 1 => k - 1 \in DOMAIN r /\ r[k - 1] = q[k]
    BY <1>1, TailSteps
  <2>2. Saves(r) => Saves(q)
    BY <2>1 DEF Saves
  <2>3. \A k \in DOMAIN q : q[k].op = "saveAsLast" => k - 1 \in DOMAIN r /\ r[k - 1].op = "saveAsLast"
    BY <2>1
  <2>4. Saves(q) => Saves(r)
    BY <2>3 DEF Saves
  <2> QED
    BY <2>2, <2>4
<1>2. ASSUME NEW x \in Steps, x.op # "saveAsLast", r = <<x>> \o Tail(q) PROVE Saves(r) <=> Saves(q)
  <2>1. DOMAIN r = DOMAIN q /\ r[1] = x /\ \A k \in DOMAIN q : k # 1 => r[k] = q[k]
    BY <1>2, FirstReplaced
  <2>2. \A k \in DOMAIN q : r[k].op = "saveAsLast" <=> q[k].op = "saveAsLast"
    BY <1>2, <2>1
  <2> QED
    BY <2>1, <2>2 DEF Saves
<1> QED
  BY <1>1, <1>2

\* How an event is followed up.
IsFollowedUp(r, q, kind, on, s) ==
  \/ /\ r = q
     /\ kind \notin Flags
     /\ ~ShouldReportInit(kind, s)
  \/ /\ r = <<Mark(kind)>> \o q
     /\ kind \in Flags /\ Mark(kind) \in Steps
  \/ /\ r = <<Add("init", on)>> \o q
     /\ kind = "start" /\ ShouldReportInit(kind, s) /\ Add("init", on) \in Steps

LEMMA FollowUps ==
  ASSUME NEW kind \in Kinds, NEW on \in {"cur", "new"}, NEW s, NEW q \in Seq(Steps)
  PROVE  IsFollowedUp(AfterAdding(kind, on, s) \o q, q, kind, on, s)
<1> USE DEF IsFollowedUp
<1>1. CASE kind \in Flags
  <2>1. ~ShouldReportInit(kind, s)
    BY <1>1 DEF ShouldReportInit, Flags
  <2>2. AfterAdding(kind, on, s) = <<Mark(kind)>>
    BY <1>1, <2>1 DEF AfterAdding
  <2> QED
    BY <1>1, <2>2, StepsTypes
<1>2. CASE kind \notin Flags /\ ShouldReportInit(kind, s)
  <2>1. AfterAdding(kind, on, s) = <<Add("init", on)>> /\ kind = "start"
    BY <1>2 DEF AfterAdding, ShouldReportInit
  <2>2. Add("init", on) \in Steps
    BY StepsTypes DEF Kinds, Flags
  <2> QED
    BY <1>2, <2>1, <2>2
<1>3. CASE kind \notin Flags /\ ~ShouldReportInit(kind, s)
  <2>1. AfterAdding(kind, on, s) = <<>>
    BY <1>3 DEF AfterAdding
  <2> QED
    BY <1>3, <2>1, ConcatEmptySeq
<1> QED
  BY <1>1, <1>2, <1>3

LEMMA LivesOn ==
  ASSUME NEW w, NEW rs, LiveFor(rs, w), NEW rs2, SameRows(rs, rs2),
         NEW r, Saves(r) <=> Saves(w.todo), NEW cur, cur.oid = w.cur.oid, NEW new
  PROVE  LiveFor(rs2, GoneOn(r, cur, new))
<1> DEFINE v == [todo |-> r, cur |-> cur, new |-> new]
<1>1. v.todo = r /\ v.cur = cur
  OBVIOUS
<1> HIDE DEF v
<1>2. LiveFor(rs2, v)
  BY <1>1 DEF LiveFor, SameRows
<1> QED
  BY <1>2, GoneOnLives DEF v

LEMMA AddEventCalm ==
  ASSUME Typed, NEW t \in Threads, AtWork(t, "add"), AddEvent(t)
  PROVE  CalmInv'
<1> SUFFICES ASSUME Quiet' PROVE CalmInv'
  BY DEF CalmInv
<1> DEFINE w == work[t]
           q == w.todo
           x == q[1]
           s == Goal(x, w)
           r == AfterAdding(x.what, x.on, s) \o Tail(q)
<1>1. AddEffect(t)
  BY AddEventEffect
<1>2. PICK cur \in Object : \E new \in Object :
       /\ cur.oid = w.cur.oid
       /\ new.oid = w.new.oid /\ (w.new # NoSession => new # NoSession)
       /\ work'[t] = GoneOn(r, cur, new)
  BY <1>1 DEF AddEffect
<1>3. PICK new \in Object :
       /\ cur.oid = w.cur.oid
       /\ new.oid = w.new.oid /\ (w.new # NoSession => new # NoSession)
       /\ work'[t] = GoneOn(r, cur, new)
  BY <1>2
<1>4. PICK e \in Event : e.session = s.oid /\ ~e.purged /\ events' = Append(events, e)
  BY <1>1 DEF AddEffect
<1>5. /\ x.op = "add" /\ x.what \in Kinds /\ x.on \in {"cur", "new"}
      /\ NearTop(s.oid, rows) /\ SameRows(rows, rows')
      /\ \A u \in Threads \ {t} : work'[u] = NoWork
  BY <1>1 DEF AddEffect
<1>6. /\ rows \in Seq(Row) /\ PlanCalm(w, rows) /\ events \in Seq(Event)
      /\ LiveFor(rows, w) /\ EventsKept(events, rows)
      /\ q \in Seq(Steps) /\ q # <<>>
      /\ \A d \in DOMAIN events : events[d].session \in DOMAIN rows
  BY DEF AtWork, EventsFit
<1>7. Tail(q) \in Seq(Steps)
  BY <1>6, TailSteps
<1> HIDE DEF w
<1>8. \/ r = Tail(q)
      \/ \E y \in Steps : r = <<y>> \o Tail(q) /\ y.op \in {"add", "mark"} /\ (y.op = "add" => y.on = x.on)
                          /\ ~IsAlive(y) /\ ~IsAlive(x)
  <2> DEFINE z == Tail(q)
             kind == x.what
             on == x.on
  <2>0. z \in Seq(Steps) /\ r = AfterAdding(kind, on, s) \o z /\ kind \in Kinds /\ on \in {"cur", "new"}
    BY <1>5, <1>7
  <2>4. kind \in Flags \cup {"start"} => ~IsAlive(x)
    BY DEF Flags, IsAlive
  <2> HIDE DEF z, r, s, kind, on
  <2>1. \/ r = z
        \/ r = <<Mark(kind)>> \o z /\ kind \in Flags /\ Mark(kind) \in Steps
        \/ r = <<Add("init", on)>> \o z /\ kind = "start" /\ Add("init", on) \in Steps
    <3>1. IsFollowedUp(r, z, kind, on, s)
      BY <2>0, FollowUps
    <3> QED
      BY <3>1 DEF IsFollowedUp
  <2>2. Mark(kind).op = "mark" /\ Add("init", on).op = "add" /\ Add("init", on).on = on
        /\ Add("init", on).what = "init"
    BY DEF Mark, Add
  <2>3. ~IsAlive(Mark(kind)) /\ ~IsAlive(Add("init", on))
    BY <2>2 DEF IsAlive
  <2>5. \/ r = z
        \/ \E y \in Steps : r = <<y>> \o z /\ y.op \in {"add", "mark"} /\ (y.op = "add" => y.on = on)
                            /\ ~IsAlive(y) /\ ~IsAlive(x)
    BY <2>1, <2>2, <2>3, <2>4
  <2> QED
    BY <2>5 DEF z, on
<1> HIDE DEF r, s
<1>9. PlanCalm(work'[t], rows')
  <2>1. CASE r = Tail(q)
    <3>1. PlanCalm([todo |-> r, cur |-> cur, new |-> new], rows')
      BY <1>3, <1>5, <1>6, <2>1, RestGoesOn
    <3> QED
      BY <1>3, <3>1, GoneOnIsCalm
  <2>2. ASSUME NEW y \in Steps, r = <<y>> \o Tail(q), y.op \in {"add", "mark"}, y.op = "add" => y.on = x.on,
               ~IsAlive(y), ~IsAlive(x)
        PROVE  PlanCalm(work'[t], rows')
    <3>1. PlanCalm([todo |-> r, cur |-> cur, new |-> new], rows')
      BY <1>3, <1>5, <1>6, <2>2, FollowUpGoesOn
    <3> QED
      BY <1>3, <3>1, GoneOnIsCalm
  <2> QED
    BY <1>8, <2>1, <2>2
<1>10. LiveFor(rows', work'[t])
  <2>1. Saves(r) <=> Saves(q)
    <3>1. r = Tail(q) \/ \E y \in Steps : y.op # "saveAsLast" /\ r = <<y>> \o Tail(q)
      BY <1>8
    <3> HIDE DEF q
    <3> QED
      BY <1>5, <1>6, <3>1, PlansSave
  <2> QED
    BY <1>3, <1>5, <1>6, <2>1, LivesOn
<1>11. EventsKept(events', rows')
  <2>1. \A d \in DOMAIN events' : (d \in DOMAIN events /\ events'[d] = events[d]) \/ events'[d] = e
    BY <1>4, <1>6
  <2>2. s.oid \in DOMAIN rows /\ ~rows[s.oid].deleted
    BY <1>5 DEF NearTop
  <2>3. \A i \in DOMAIN rows : rows'[i].deleted = rows[i].deleted
    BY <1>5 DEF SameRows
  <2>4. ASSUME NEW d \in DOMAIN events', ~events'[d].purged PROVE ~rows'[events'[d].session].deleted
    <3>1. CASE d \in DOMAIN events /\ events'[d] = events[d]
      <4>1. events[d].session \in DOMAIN rows /\ ~rows[events[d].session].deleted
        BY <1>6, <2>4, <3>1 DEF EventsKept
      <4> QED
        BY <2>3, <3>1, <4>1
    <3>2. CASE events'[d] = e
      BY <1>4, <2>2, <2>3, <3>2
    <3> QED
      BY <2>1, <3>1, <3>2
  <2> QED
    BY <2>4 DEF EventsKept
<1> QED
  BY <1>5, <1>9, <1>10, <1>11, AloneIsCalm

LEMMA SameRowsAreSame ==
  ASSUME NEW rs \in Seq(Row)
  PROVE  SameRows(rs, rs)
BY DEF SameRows

LEMMA MarkEventSentCalm ==
  ASSUME Typed, NEW t \in Threads, AtWork(t, "mark"), MarkEventSent(t)
  PROVE  CalmInv'
<1> SUFFICES ASSUME Quiet' PROVE CalmInv'
  BY DEF CalmInv
<1> DEFINE w == work[t]
           q == w.todo
<1>1. MarkEffect(t)
  BY MarkEventSentEffect
<1>2. /\ UNCHANGED <<rows, events>>
      /\ \A u \in Threads \ {t} : work'[u] = NoWork
      /\ work'[t] = GoneOn(Tail(q), w.cur, w.new)
      /\ q[1].op = "mark"
  BY <1>1 DEF MarkEffect
<1>3. /\ rows \in Seq(Row) /\ PlanCalm(w, rows)
      /\ LiveFor(rows, w) /\ EventsKept(events, rows)
      /\ q \in Seq(Steps) /\ q # <<>> /\ SameRows(rows, rows)
  BY SameRowsAreSame DEF AtWork
<1> HIDE DEF w
<1>4. PlanCalm(work'[t], rows')
  <2>1. PlanCalm([todo |-> Tail(q), cur |-> w.cur, new |-> w.new], rows)
    BY <1>2, <1>3, RestGoesOn
  <2> QED
    BY <1>2, <2>1, GoneOnIsCalm
<1>5. Saves(Tail(q)) <=> Saves(q)
  <2> HIDE DEF q
  <2> QED
    BY <1>2, <1>3, PlansSave
<1>6. LiveFor(rows', work'[t])
  <2> DEFINE r == Tail(q)
  <2>1. (Saves(r) <=> Saves(w.todo)) /\ work'[t] = GoneOn(r, w.cur, w.new) /\ rows' = rows
    BY <1>2, <1>5
  <2> HIDE DEF r
  <2> QED
    BY <1>3, <2>1, LivesOn
<1> QED
  BY <1>2, <1>3, <1>4, <1>6, AloneIsCalm

LEMMA AddToNewOrReportCalm ==
  ASSUME Typed, NEW t \in Threads, AtWork(t, "addOrReport"), AddToNewOrReport(t)
  PROVE  CalmInv'
<1> DEFINE w == work[t]
           q == w.todo
           x == Add("client", "new")
           r == <<x>> \o Tail(q)
<1>1. OrReportEffect(t)
  BY AddToNewOrReportEffect
<1>2. /\ UNCHANGED <<rows, events>>
      /\ \A u \in Threads \ {t} : work'[u] = NoWork
      /\ work'[t] = GoneOn(r, w.cur, w.new)
      /\ q[1].op = "addOrReport" /\ q[1].on = "new"
  BY <1>1 DEF OrReportEffect
<1>3. /\ rows \in Seq(Row) /\ PlanCalm(w, rows)
      /\ LiveFor(rows, w) /\ EventsKept(events, rows)
      /\ q \in Seq(Steps) /\ q # <<>> /\ SameRows(rows, rows)
  BY SameRowsAreSame DEF AtWork
<1>4. x \in Steps /\ x.op = "add" /\ x.on = "new" /\ x.what = "client"
  BY StepsTypes DEF Kinds, Add
<1>5. ~IsAlive(x) /\ ~IsAlive(q[1])
  BY <1>2, <1>4 DEF IsAlive
<1> HIDE DEF w, x
<1>6. PlanCalm(work'[t], rows')
  <2>1. PlanCalm([todo |-> r, cur |-> w.cur, new |-> w.new], rows)
    BY <1>2, <1>3, <1>4, <1>5, FollowUpGoesOn
  <2> QED
    BY <1>2, <2>1, GoneOnIsCalm
<1>7. Saves(r) <=> Saves(q)
  <2> HIDE DEF q
  <2> QED
    BY <1>2, <1>3, <1>4, PlansSave
<1>8. LiveFor(rows', work'[t])
  <2>1. (Saves(r) <=> Saves(w.todo)) /\ work'[t] = GoneOn(r, w.cur, w.new) /\ rows' = rows
    BY <1>2, <1>7
  <2> HIDE DEF r
  <2> QED
    BY <1>3, <2>1, LivesOn
<1> QED
  BY <1>2, <1>3, <1>6, <1>8, AloneIsCalm

-----------------------------------------------------------------------------
(* The calls. *)

\* A plan that ends the session it read, if that is unfinished, and starts another.
StartsAnew(q, s) ==
  LET n == IF s.finished THEN 1 ELSE 2 IN
  /\ q \in Seq(Steps)
  /\ n \in DOMAIN q /\ q[n].op = "create"
  /\ ~s.finished => q[1].op = "end" /\ q[1].on = "cur"
  /\ \A k \in DOMAIN q : k > n =>
       q[k].op \in {"add", "addOrReport"} /\ q[k].on = "new" /\ ~IsPrompt(q[k])

LEMMA StartsWith ==
  ASSUME NEW s, s.finished \in BOOLEAN, NEW type \in {"General", "Background", "Finished"},
         NEW kind \in {"start", "first"}
  PROVE  StartsAnew(EnsureEnded(s) \o <<Create(type), Add(kind, "new")>>, s)
<1> DEFINE a == Create(type)
           b == Add(kind, "new")
           q == EnsureEnded(s) \o <<a, b>>
<1>1. /\ a \in Steps /\ a.op = "create"
      /\ b \in Steps /\ b.op = "add" /\ b.on = "new" /\ b.what = kind
      /\ End \in Steps /\ End.op = "end" /\ End.on = "cur"
  BY StepsTypes DEF Create, Add, End, Kinds, Flags
<1>2. ~IsPrompt(b)
  BY <1>1 DEF IsPrompt, IsAlive, IsInit, IsMarkInit
<1> SUFFICES StartsAnew(q, s)
  OBVIOUS
<1> HIDE DEF a, b
<1>3. CASE s.finished
  <2>1. q = <<a, b>>
    BY <1>1, <1>3 DEF EnsureEnded
  <2>2. <<a, b>> \in Seq(Steps) /\ DOMAIN <<a, b>> = 1..2 /\ <<a, b>>[1] = a /\ <<a, b>>[2] = b
    BY <1>1
  <2> HIDE DEF q
  <2>3. q \in Seq(Steps) /\ DOMAIN q = 1..2 /\ q[1] = a /\ q[2] = b
    BY <2>1, <2>2
  <2>4. \A k \in DOMAIN q : k > 1 => k = 2
    BY <2>3
  <2>5. q[1].op = "create" /\ 1 \in DOMAIN q
        /\ \A k \in DOMAIN q : k > 1 =>
             q[k].op \in {"add", "addOrReport"} /\ q[k].on = "new" /\ ~IsPrompt(q[k])
    BY <1>1, <1>2, <2>3, <2>4
  <2>6. StartsAnew(q, s)
    BY <1>3, <2>3, <2>5 DEF StartsAnew
  <2> QED
    BY <2>6 DEF q
<1>4. CASE ~s.finished
  <2>1. q = <<End>> \o <<a, b>>
    BY <1>4 DEF EnsureEnded
  <2> DEFINE p == <<End>> \o <<a, b>>
  <2>2. p \in Seq(Steps) /\ DOMAIN p = 1..3 /\ p[1] = End /\ p[2] = a /\ p[3] = b
    BY <1>1
  <2> HIDE DEF p, q
  <2>3. \A k \in DOMAIN p : k > 2 => k = 3
    BY <2>2
  <2>4. p[1].op = "end" /\ p[1].on = "cur" /\ p[2].op = "create" /\ 2 \in DOMAIN p
        /\ \A k \in DOMAIN p : k > 2 =>
             p[k].op \in {"add", "addOrReport"} /\ p[k].on = "new" /\ ~IsPrompt(p[k])
    BY <1>1, <1>2, <2>2, <2>3
  <2>5. StartsAnew(p, s)
    BY <1>4, <2>2, <2>4 DEF StartsAnew
  <2> QED
    BY <2>1, <2>5 DEF p, q
<1> QED
  BY <1>3, <1>4

LEMMA StartsAndAdds ==
  ASSUME NEW s, s.finished \in BOOLEAN, NEW q, StartsAnew(q, s), NEW x \in Steps,
         x.op \in {"add", "addOrReport"}, x.on = "new", ~IsPrompt(x)
  PROVE  StartsAnew(q \o <<x>>, s)
<1> DEFINE p == q \o <<x>>
<1>1. q \in Seq(Steps)
  BY DEF StartsAnew
<1>2. /\ p \in Seq(Steps) /\ Len(p) = Len(q) + 1 /\ Len(q) \in Nat
      /\ \A k \in 1..Len(q) : p[k] = q[k]
      /\ p[Len(q) + 1] = x
  BY <1>1
<1>3. DOMAIN q = 1..Len(q) /\ DOMAIN p = 1..(Len(q) + 1)
  BY <1>1, <1>2
<1> HIDE DEF p
<1>4. \A k \in DOMAIN p : (k \in DOMAIN q /\ p[k] = q[k]) \/ p[k] = x
  BY <1>2, <1>3
<1>5. \A k \in DOMAIN q : k \in DOMAIN p /\ p[k] = q[k]
  BY <1>2, <1>3
<1>6. ~s.finished => 1 \in DOMAIN q
  BY <1>3 DEF StartsAnew
<1>7. StartsAnew(p, s)
  BY <1>2, <1>4, <1>5, <1>6 DEF StartsAnew
<1> QED
  BY <1>7 DEF p

\* The session that such a call reads: the last one, which nobody is about to save again.
LastAtHand(s, rs) ==
  /\ s \in Object
  /\ s.finished => LastEnded(rs)
  /\ s # NoSession => s.oid = Len(rs) /\ NearTop(s.oid, rs)

LEMMA StartsCalmly ==
  ASSUME NEW s, NEW rs, NEW q, StartsAnew(q, s), LastAtHand(s, rs)
  PROVE  PlanCalm([todo |-> q, cur |-> s, new |-> NoSession], rs)
<1> DEFINE v == [todo |-> q, cur |-> s, new |-> NoSession]
           n == IF s.finished THEN 1 ELSE 2
<1>1. v.todo = q /\ v.cur = s
  OBVIOUS
<1>2. /\ n \in DOMAIN q /\ q[n].op = "create"
      /\ ~s.finished => q[1].op = "end" /\ q[1].on = "cur"
      /\ \A k \in DOMAIN q : k > n =>
           q[k].op \in {"add", "addOrReport"} /\ q[k].on = "new" /\ ~IsPrompt(q[k])
      /\ \A k \in DOMAIN q : k \in Nat /\ k > 0
  BY DEF StartsAnew
<1>3. s.finished \in BOOLEAN /\ NoSession.finished
  BY DEF LastAtHand, Object, NoSession
<1>4. \A k \in DOMAIN q : k > n \/ k = n \/ (k = 1 /\ ~s.finished)
  BY <1>2, <1>3
<1>5. s.finished => n = 1
  OBVIOUS
<1>6. ~s.finished => n = 2
  OBVIOUS
<1> HIDE DEF v, n
<1>7. ~IsPrompt(q[n])
  BY <1>2 DEF IsPrompt, IsAlive, IsInit, IsMarkInit
<1>8. \A k \in DOMAIN q : IsPrompt(q[k]) => k = 1 /\ ~s.finished
  BY <1>2, <1>4, <1>7
<1>9. ~s.finished => ~IsAlive(q[1])
  BY <1>2 DEF IsAlive
<1>10. InOrder(v)
  <2>1. \A k \in DOMAIN q : ~IsAlive(q[k])
    BY <1>8, <1>9 DEF IsPrompt
  <2>2. \A k \in DOMAIN q : q[k].op = "end" => ~s.finished
    BY <1>8 DEF IsPrompt
  <2> QED
    BY <1>1, <1>8, <2>1, <2>2 DEF InOrder
<1>11. Creates(q)
  BY <1>2 DEF Creates
<1>12. ~Saves(q)
  BY <1>2, <1>4 DEF Saves
<1>13. CreatesAfterEnd(v, rs)
  <2>1. \A k \in DOMAIN q : q[k].op = "create" => k = n
    BY <1>2, <1>4
  <2>2. q[n] \in Steps
    BY <1>2 DEF StartsAnew
  <2>3. q[n].on = "new"
    BY <1>2, <2>2 DEF Steps
  <2>4. \A k \in DOMAIN q : k = 1 \/ q[k].on = "new"
    BY <1>2, <1>4, <2>3
  <2>5. ~s.finished => s # NoSession /\ s.oid = Len(rs)
    BY <1>3 DEF LastAtHand
  <2>6. s.finished => LastEnded(rs)
    BY DEF LastAtHand
  <2> QED
    BY <1>1, <1>2, <1>3, <1>5, <1>6, <1>12, <2>1, <2>4, <2>5, <2>6 DEF CreatesAfterEnd
<1>14. PlanCalm(v, rs)
  BY <1>1, <1>10, <1>11, <1>13, CalmParts
<1> QED
  BY <1>14 DEF v

\* A plan that ends a session or adds events to it, and no more.
LEMMA AddsCalmly ==
  ASSUME NEW s, NEW rs, NEW q \in Seq(Steps), NearTop(s.oid, rs),
         \A k \in DOMAIN q : q[k].op = "add" /\ q[k].on = "cur" /\ ~IsPrompt(q[k])
  PROVE  PlanCalm([todo |-> q, cur |-> s, new |-> NoSession], rs)
<1> DEFINE v == [todo |-> q, cur |-> s, new |-> NoSession]
<1>1. v.todo = q /\ v.cur = s
  OBVIOUS
<1> HIDE DEF v
<1>2. InOrder(v)
  BY <1>1 DEF InOrder, IsPrompt
<1>3. ~Creates(q) /\ ~Saves(q)
  BY DEF Creates, Saves
<1>4. InReach(v, rs)
  BY <1>1 DEF InReach, Goal
<1> QED
  BY <1>1, <1>2, <1>3, <1>4, CalmParts DEF v

LEMMA EndsCalmly ==
  ASSUME NEW s, NEW rs, ~s.finished, NearTop(s.oid, rs)
  PROVE  PlanCalm([todo |-> <<End>>, cur |-> s, new |-> NoSession], rs)
<1> DEFINE q == <<End>>
           v == [todo |-> q, cur |-> s, new |-> NoSession]
<1>1. v.todo = q /\ v.cur = s /\ DOMAIN q = {1} /\ q[1].op = "end" /\ q[1].on = "cur"
  BY DEF End
<1> HIDE DEF v, q
<1>2. InOrder(v)
  BY <1>1 DEF InOrder, IsAlive
<1>3. ~Creates(q) /\ ~Saves(q)
  BY <1>1 DEF Creates, Saves
<1>4. InReach(v, rs)
  BY <1>1 DEF InReach, Goal
<1> QED
  BY <1>1, <1>2, <1>3, <1>4, CalmParts DEF v, q

\* A call begins.
LEMMA CallIsCalm ==
  ASSUME Typed, CalmInv, Quiet' => Quiet, NEW t \in Threads, IsIdle(t), NEW todo \in Seq(Steps),
         NEW s, NEW meant, Referable(s, rows), Begin(t, todo, s, meant), UNCHANGED stored,
         (\A u \in Threads : IsIdle(u)) /\ Quiet /\ s = meant /\ todo # <<>> =>
           PlanCalm([todo |-> todo, cur |-> s, new |-> NoSession], rows)
  PROVE  CalmInv'
<1> SUFFICES ASSUME Quiet' PROVE CalmInv'
  BY DEF CalmInv
<1>1. UNCHANGED <<rows, events>> /\ Quiet
  BY DEF stored
<1>2. (\A u \in Threads : IsIdle(u)) /\ s = meant
  BY DEF Begin, Quiet
<1>3. \A u \in Threads : work[u] = NoWork
  BY <1>2 DEF Typed, WorkFits, IsIdle
<1>4. work'[t] = GoneOn(todo, s, NoSession) /\ \A u \in Threads \ {t} : work'[u] = NoWork
  BY <1>1, <1>3, CallBegins
<1>5. PlanCalm(GoneOn(todo, s, NoSession), rows)
  <2>1. CASE todo = <<>>
    BY <1>1, <1>3, <2>1 DEF GoneOn, CalmInv
  <2>2. CASE todo # <<>>
    BY <1>1, <1>2, <2>2, GoneOnIsCalm
  <2> QED
    BY <2>1, <2>2
<1>6. LiveRows(rows, work) /\ EventsKept(events, rows)
  BY <1>1 DEF CalmInv
<1>7. LiveFor(rows, work'[t])
  BY <1>3, <1>6 DEF LiveRows, LiveFor, Saves, NoWork
<1> QED
  BY <1>1, <1>4, <1>5, <1>6, <1>7, AloneIsCalm

LEMMA LastIsAtHand ==
  ASSUME rows \in Seq(Row), NEW n, RowsFit(rows, n)
  PROVE  LastAtHand(LastSession, rows)
<1>1. Kept \subseteq DOMAIN rows /\ \A i \in DOMAIN rows : i # 0
  BY DEF Kept
<1>2. LastSession \in Object
  BY <1>1, NewestIsOne DEF LastSession
<1>3. CASE LastSession = NoSession
  <2>1. Kept = {}
    <3>1. NoSession.oid = 0
      BY DEF NoSession
    <3> QED
      BY <1>1, <1>3, <3>1, NewestIsOne DEF LastSession
  <2>2. rows = <<>>
    <3>1. rows # <<>> => Len(rows) \in DOMAIN rows
      OBVIOUS
    <3> QED
      BY <2>1, <3>1 DEF Kept, RowsFit
  <2> QED
    BY <1>2, <1>3, <2>2 DEF LastAtHand, LastEnded
<1>4. CASE LastSession # NoSession
  <2>1. Agrees(LastSession, rows) /\ LastSession.oid = Len(rows)
    BY <1>4, LastAgrees
  <2>2. rows # <<>>
    BY <2>1 DEF Agrees
  <2>3. NearTop(LastSession.oid, rows)
    BY <2>1, <2>2, LastIsNear
  <2> QED
    BY <1>2, <2>1, <2>3 DEF LastAtHand, LastEnded, Agrees
<1> QED
  BY <1>3, <1>4

LEMMA GeneralIsNear ==
  ASSUME rows \in Seq(Row), NEW n, RowsFit(rows, n), LiveFor(rows, NoWork), ~LastGeneralSession.finished
  PROVE  NearTop(LastGeneralSession.oid, rows)
<1>1. Agrees(LastGeneralSession, rows)
  BY GeneralAgrees
<1>2. LastGeneralSession.oid = Len(rows)
  BY <1>1 DEF Agrees, LiveFor, Saves, NoWork
<1>3. rows # <<>>
  BY <1>1 DEF Agrees
<1> QED
  BY <1>2, <1>3, LastIsNear

LEMMA PreviousIsNear ==
  ASSUME rows \in Seq(Row), NEW n, RowsFit(rows, n), PreviousSession(LastSession) # NoSession
  PROVE  NearTop(PreviousSession(LastSession).oid, rows)
<1> DEFINE o == PreviousSession(LastSession).oid
<1>1. o \in Kept /\ \A a, b \in Kept : o < a /\ o < b => a = b
  BY PreviousAgrees
<1> HIDE DEF o
<1>2. ~TwoAbove(o, rows)
  <2> SUFFICES ASSUME NEW a \in DOMAIN rows, NEW b \in DOMAIN rows, o < a, a < b,
                      ~rows[a].deleted, ~rows[b].deleted
               PROVE  FALSE
    BY DEF TwoAbove
  <2>1. a \in Kept /\ b \in Kept /\ o \in Nat /\ a \in Nat /\ b \in Nat
    BY <1>1 DEF Kept
  <2>2. o < b
    BY <2>1
  <2>3. a = b
    BY <1>1, <2>1, <2>2
  <2> QED
    BY <2>1, <2>3
<1>3. NearTop(o, rows)
  BY <1>1, <1>2 DEF NearTop, Kept
<1> QED
  BY <1>3 DEF o

LEMMA EnsureEndedCalm ==
  ASSUME NEW s, NEW rs, ~s.finished => NearTop(s.oid, rs), EnsureEnded(s) # <<>>
  PROVE  PlanCalm([todo |-> EnsureEnded(s), cur |-> s, new |-> NoSession], rs)
<1>1. ~s.finished /\ EnsureEnded(s) = <<End>>
  BY DEF EnsureEnded
<1> QED
  BY <1>1, EndsCalmly

\* The plans that are about the last session.
LEMMA BuildersAreCalm ==
  ASSUME NEW s, NEW rs, LastAtHand(s, rs), NEW x, NEW q, q # <<>>,
         q \in {EnsureEnded(s), ResumeSteps(s, x), ReportSteps(s, x), FirstEventSteps(s, x),
                ReattributionSteps(s)}
  PROVE  PlanCalm([todo |-> q, cur |-> s, new |-> NoSession], rs)
<1>1. s.finished \in BOOLEAN /\ (~s.finished => s # NoSession /\ NearTop(s.oid, rs))
  BY DEF LastAtHand, Object, NoSession
<1>2. \A type \in {"General", "Background"} : StartsAnew(EnsureEnded(s) \o Started(type), s)
  BY <1>1, StartsWith DEF Started
<1>3. \A y \in {Add("client", "new"), AddOrReport, Add("start", "new")} :
        y \in Steps /\ y.op \in {"add", "addOrReport"} /\ y.on = "new" /\ ~IsPrompt(y)
  <2>1. Add("client", "new") \in Steps /\ AddOrReport \in Steps /\ Add("start", "new") \in Steps
    BY StepsTypes DEF Kinds
  <2>2. \A y \in {Add("client", "new"), AddOrReport, Add("start", "new")} :
          y.op \in {"add", "addOrReport"} /\ y.on = "new" /\ ~IsPrompt(y)
    BY DEF Add, AddOrReport, IsPrompt, IsAlive, IsInit, IsMarkInit
  <2> QED
    BY <2>1, <2>2
<1>4. ASSUME NEW type \in {"General", "Background"}, NEW y \in {Add("client", "new"), AddOrReport}
      PROVE  StartsAnew(EnsureEnded(s) \o Started(type) \o <<y>>, s)
  <2> DEFINE z == EnsureEnded(s) \o Started(type)
  <2>1. StartsAnew(z, s)
    BY <1>2
  <2>2. y \in Steps /\ y.op \in {"add", "addOrReport"} /\ y.on = "new" /\ ~IsPrompt(y)
    BY <1>3
  <2> HIDE DEF z
  <2>3. StartsAnew(z \o <<y>>, s)
    BY <1>1, <2>1, <2>2, StartsAndAdds
  <2> QED
    BY <2>3 DEF z
<1>5. CASE q = EnsureEnded(s)
  BY <1>1, <1>5, EnsureEndedCalm
<1>6. CASE q = ResumeSteps(s, x)
  <2>1. StartsAnew(q, s)
    BY <1>2, <1>6 DEF ResumeSteps
  <2> QED
    BY <2>1, StartsCalmly
<1>7. ASSUME NEW y \in {Add("client", "cur"), Add("first", "cur"), Add("start", "cur")}
      PROVE  y \in Steps /\ y.op = "add" /\ y.on = "cur" /\ ~IsPrompt(y)
  BY StepsTypes DEF Add, Kinds, Flags, IsPrompt, IsAlive, IsInit, IsMarkInit
<1>8. CASE q = ReportSteps(s, x)
  <2>1. CASE q = EnsureEnded(s) \o Started("Background") \o <<Add("client", "new")>>
    BY <1>4, <2>1, StartsCalmly
  <2>2. CASE ~s.finished /\ q = <<Add("client", "cur")>>
    <3>1. q \in Seq(Steps) /\ \A k \in DOMAIN q : q[k] = Add("client", "cur")
      BY <1>7, <2>2
    <3> QED
      BY <1>1, <1>7, <2>2, <3>1, AddsCalmly
  <2> QED
    BY <1>8, <2>1, <2>2 DEF ReportSteps
<1>9. CASE q = FirstEventSteps(s, x)
  <2>1. CASE q = EnsureEnded(s) \o <<Create("Background"), Add("first", "new"), Add("start", "new")>>
    <3> DEFINE a == Create("Background")
               b == Add("first", "new")
               c == Add("start", "new")
               e == EnsureEnded(s)
    <3>1. StartsAnew(e \o <<a, b>>, s)
      BY <1>1, StartsWith
    <3>2. c \in Steps /\ c.op \in {"add", "addOrReport"} /\ c.on = "new" /\ ~IsPrompt(c)
      BY <1>3
    <3>3. e \in Seq(Steps) /\ a \in Steps /\ b \in Steps
      BY StepsTypes DEF EnsureEnded, Kinds, Flags
    <3>4. q = e \o <<a, b, c>>
      BY <2>1
    <3> HIDE DEF a, b, c, e
    <3>5. StartsAnew((e \o <<a, b>>) \o <<c>>, s)
      BY <1>1, <3>1, <3>2, StartsAndAdds
    <3>6. (e \o <<a, b>>) \o <<c>> = e \o <<a, b, c>>
      <4>1. <<a, b>> \o <<c>> = <<a, b, c>>
        <5>1. <<a, b>> \o <<>> \o <<c>> = <<a, b, c>>
          BY <3>2, <3>3, ConcatShort
        <5>2. <<a, b>> \o <<>> = <<a, b>>
          BY <3>3, ConcatEmptySeq
        <5> QED
          BY <5>1, <5>2
      <4>2. (e \o <<a, b>>) \o <<c>> = e \o (<<a, b>> \o <<c>>)
        BY <3>2, <3>3, ConcatAssociative
      <4> QED
        BY <4>1, <4>2
    <3>7. StartsAnew(q, s)
      BY <3>4, <3>5, <3>6
    <3> QED
      BY <3>7, StartsCalmly
  <2>2. CASE ~s.finished /\ q = <<Add("first", "cur"), Add("start", "cur")>>
    <3>1. q \in Seq(Steps) /\ \A k \in DOMAIN q : q[k] \in {Add("first", "cur"), Add("start", "cur")}
      BY <1>7, <2>2
    <3> QED
      BY <1>1, <1>7, <2>2, <3>1, AddsCalmly
  <2> QED
    BY <1>9, <2>1, <2>2 DEF FirstEventSteps
<1>10. CASE q = ReattributionSteps(s)
  <2>1. StartsAnew(q, s)
    BY <1>4, <1>10 DEF ReattributionSteps
  <2> QED
    BY <2>1, StartsCalmly
<1> QED
  BY <1>5, <1>6, <1>8, <1>9, <1>10

\* A session for a past event is started finished, and the last session saved again behind it.
LEMMA PastCalm ==
  ASSUME NEW s, NEW rs, LastAtHand(s, rs)
  PROVE  PlanCalm([todo |-> NewPastSessionSteps(s), cur |-> s, new |-> NoSession], rs)
<1> DEFINE a == Create("Finished")
           b == Add("start", "new")
           c == SaveAsLast
           d == Add("past", "new")
<1>1. /\ a \in Steps /\ b \in Steps /\ c \in Steps /\ d \in Steps
      /\ a.op = "create" /\ a.what = "Finished" /\ a.on = "new"
      /\ b.op = "add" /\ b.on = "new" /\ b.what = "start"
      /\ c.op = "saveAsLast"
      /\ d.op = "add" /\ d.on = "new" /\ d.what = "past"
  BY StepsTypes DEF Create, Add, SaveAsLast, Kinds
<1>2. \A y \in {a, b, c, d} : ~IsPrompt(y)
  BY <1>1 DEF IsPrompt, IsAlive, IsInit, IsMarkInit
<1>3. s.finished \in BOOLEAN /\ (~s.finished => s # NoSession /\ s.oid = Len(rs))
  BY DEF LastAtHand, Object, NoSession
<1>4. CASE s.finished
  <2>1. NewPastSessionSteps(s) = <<a, b>> \o <<d>>
    <3>1. <<a, b>> \o <<>> = <<a, b>>
      BY <1>1, ConcatEmptySeq
    <3> QED
      BY <1>4, <3>1 DEF NewPastSessionSteps, Started
  <2>2. EnsureEnded(s) \o <<a, b>> = <<a, b>>
    BY <1>1, <1>4, ConcatEmptySeq DEF EnsureEnded
  <2>3. StartsAnew(<<a, b>>, s)
    <3>1. StartsAnew(EnsureEnded(s) \o <<a, b>>, s)
      BY <1>3, StartsWith
    <3> QED
      BY <2>2, <3>1
  <2> HIDE DEF a, b, c, d
  <2>4. StartsAnew(<<a, b>> \o <<d>>, s)
    BY <1>1, <1>2, <1>3, <2>3, StartsAndAdds
  <2> QED
    BY <2>1, <2>4, StartsCalmly
<1>5. CASE ~s.finished
  <2> DEFINE q == <<a, b, c, d>>
             v == [todo |-> q, cur |-> s, new |-> NoSession]
  <2>1. NewPastSessionSteps(s) = q
    BY <1>1, <1>5, ConcatShort DEF NewPastSessionSteps, Started
  <2> SUFFICES PlanCalm(v, rs)
    BY <2>1
  <2> HIDE DEF a, b, c, d
  <2>2. v.todo = q /\ v.cur = s /\ DOMAIN q = 1..4 /\ q[1] = a /\ q[2] = b /\ q[3] = c /\ q[4] = d
    OBVIOUS
  <2> HIDE DEF q, v
  <2>3. \A k \in DOMAIN q : k = 1 \/ k = 2 \/ k = 3 \/ k = 4
    BY <2>2
  <2>4. \A k \in DOMAIN q : ~IsPrompt(q[k])
    BY <1>2, <2>2, <2>3
  <2>5. InOrder(v)
    BY <2>2, <2>4 DEF InOrder, IsPrompt
  <2>6. Creates(q) /\ Saves(q)
    BY <1>1, <2>2 DEF Creates, Saves
  <2>7. \A k \in DOMAIN q : q[k].op = "create" => k = 1
    BY <1>1, <2>2, <2>3
  <2>8. \A k \in DOMAIN q : k = 1 \/ q[k].on = "new" \/ q[k].op = "saveAsLast"
    BY <1>1, <2>2, <2>3
  <2>9. CreatesAfterEnd(v, rs)
    BY <1>1, <1>3, <1>5, <2>2, <2>6, <2>7, <2>8 DEF CreatesAfterEnd
  <2> QED
    BY <2>2, <2>5, <2>6, <2>9, CalmParts
<1> QED
  BY <1>3, <1>4, <1>5

LEMMA CallsCalm ==
  ASSUME Typed, Sound, CalmInv, Quiet' => Quiet,
         \/ Setup \/ ReportFirstEventIfNeeded \/ ResumeSession \/ PauseSession
         \/ ReportEvent \/ ReportReattribution \/ ReportEventToPastSession
  PROVE  CalmInv'
<1>0. "executor" \in Threads /\ "caller" \in Threads /\ rows \in Seq(Row)
  BY DEF Typed, TypeOK, Threads
<1>1. UNCHANGED stored
  BY DEF Setup, ReportFirstEventIfNeeded, ResumeSession, PauseSession, Call,
         ReportEvent, ReportReattribution, ReportEventToPastSession
<1>2. Quiet => RowsFit(rows, lastSessionID) /\ LiveRows(rows, work)
  BY DEF Sound, Clean, Quiet, CalmInv
<1>3. Quiet => LastAtHand(LastSession, rows)
  BY <1>0, <1>2, LastIsAtHand
<1>4. /\ \A s \in Reading(LastSession) : Referable(s, rows)
      /\ \A s \in Reading(LastGeneralSession) : Referable(s, rows)
      /\ \A x : \A s \in Reading(PreviousSession(x)) : Referable(s, rows)
  BY <1>0, SessionsRead
<1>5. (\A u \in Threads : IsIdle(u)) /\ Quiet => LiveFor(rows, NoWork)
  BY <1>2 DEF IsIdle, LiveRows, LiveFor, Saves
<1>6. ASSUME IsIdle("executor"), NEW s \in Reading(LastSession), NEW x, NEW todo,
             todo \in {EnsureEnded(s), ResumeSteps(s, x), ReportSteps(s, x), FirstEventSteps(s, x),
                       ReattributionSteps(s)},
             Begin("executor", todo, s, LastSession)
      PROVE  CalmInv'
  <2>1. todo \in Seq(Steps)
    BY <1>6, BuildersArePlans DEF IsPlan
  <2>2. Quiet /\ s = LastSession /\ todo # <<>> =>
          PlanCalm([todo |-> todo, cur |-> s, new |-> NoSession], rows)
    BY <1>3, <1>6, BuildersAreCalm
  <2> QED
    BY <1>0, <1>1, <1>4, <1>6, <2>1, <2>2, CallIsCalm
<1>7. ASSUME Setup PROVE CalmInv'
  BY <1>6, <1>7 DEF Setup
<1>8. ASSUME ReportFirstEventIfNeeded PROVE CalmInv'
  <2>1. CASE sent["first"]
    <3>1. UNCHANGED <<rows, events, work, faults>>
      BY <1>1, <1>8, <2>1 DEF ReportFirstEventIfNeeded, stored
    <3> QED
      BY <3>1 DEF CalmInv, Quiet
  <2>2. CASE ~sent["first"]
    BY <1>6, <1>8, <2>2 DEF ReportFirstEventIfNeeded
  <2> QED
    BY <2>1, <2>2
<1>9. ASSUME ResumeSession PROVE CalmInv'
  BY <1>6, <1>9 DEF ResumeSession, Call
<1>10. ASSUME ReportEvent PROVE CalmInv'
  BY <1>6, <1>10 DEF ReportEvent, Call
<1>11. ASSUME ReportReattribution PROVE CalmInv'
  BY <1>6, <1>11 DEF ReportReattribution, Call
<1>12. ASSUME PauseSession PROVE CalmInv'
  <2>1. PICK s \in Reading(LastGeneralSession), x \in {"Invalid", "None", "Timeout", "Limit"} :
          Begin("executor", PauseSteps(s, x), s, LastGeneralSession)
    BY <1>12 DEF PauseSession, Expirations
  <2>2. Referable(s, rows) /\ PauseSteps(s, x) \in Seq(Steps) /\ IsIdle("executor")
    BY <1>4, <1>12, BuildersArePlans DEF IsPlan, PauseSession, Call
  <2>3. PauseSteps(s, x) # <<>> => PauseSteps(s, x) = EnsureEnded(s) /\ ~s.finished
    BY DEF PauseSteps, EnsureEnded
  <2>4. ASSUME \A u \in Threads : IsIdle(u), Quiet, s = LastGeneralSession, PauseSteps(s, x) # <<>>
        PROVE  PlanCalm([todo |-> PauseSteps(s, x), cur |-> s, new |-> NoSession], rows)
    <3>1. NearTop(s.oid, rows)
      BY <1>0, <1>2, <1>5, <2>3, <2>4, GeneralIsNear
    <3> QED
      BY <2>3, <2>4, <3>1, EnsureEndedCalm
  <2> QED
    BY <1>0, <1>1, <2>1, <2>2, <2>4, CallIsCalm
<1>13. ASSUME ReportEventToPastSession PROVE CalmInv'
  <2> DEFINE todo == <<Add("past", "cur")>>
  <2>1. IsIdle("caller")
    BY <1>13 DEF ReportEventToPastSession
  <2>2. PICK last \in Reading(LastSession) : \E prev \in Reading(PreviousSession(last)) :
       \/ last # NoSession /\ Begin("caller", todo, last, LastSession)
       \/ prev # NoSession /\ Begin("caller", todo, prev, PreviousSession(LastSession))
       \/ Begin("caller", NewPastSessionSteps(last), last, LastSession)
    BY <1>13 DEF ReportEventToPastSession
  <2>3. PICK prev \in Reading(PreviousSession(last)) :
       \/ last # NoSession /\ Begin("caller", todo, last, LastSession)
       \/ prev # NoSession /\ Begin("caller", todo, prev, PreviousSession(LastSession))
       \/ Begin("caller", NewPastSessionSteps(last), last, LastSession)
    BY <2>2
  <2>4. todo \in Seq(Steps) /\ \A k \in DOMAIN todo : todo[k].op = "add" /\ todo[k].on = "cur" /\ ~IsPrompt(todo[k])
    <3>1. Add("past", "cur") \in Steps /\ Add("past", "cur").op = "add" /\ Add("past", "cur").on = "cur"
          /\ Add("past", "cur").what = "past"
      BY StepsTypes DEF Add, Kinds
    <3>2. ~IsPrompt(Add("past", "cur"))
      BY <3>1 DEF IsPrompt, IsAlive, IsInit, IsMarkInit
    <3> QED
      BY <3>1, <3>2
  <2> HIDE DEF todo
  <2>5. CASE last # NoSession /\ Begin("caller", todo, last, LastSession)
    <3>1. Quiet /\ last = LastSession => PlanCalm([todo |-> todo, cur |-> last, new |-> NoSession], rows)
      BY <1>3, <2>4, <2>5, AddsCalmly DEF LastAtHand
    <3> QED
      BY <1>0, <1>1, <1>4, <2>1, <2>4, <2>5, <3>1, CallIsCalm
  <2>6. CASE prev # NoSession /\ Begin("caller", todo, prev, PreviousSession(LastSession))
    <3>1. ASSUME Quiet, prev = PreviousSession(LastSession)
          PROVE  PlanCalm([todo |-> todo, cur |-> prev, new |-> NoSession], rows)
      <4>1. NearTop(prev.oid, rows)
        BY <1>0, <1>2, <2>6, <3>1, PreviousIsNear
      <4> QED
        BY <2>4, <4>1, AddsCalmly
    <3> QED
      BY <1>0, <1>1, <1>4, <2>1, <2>4, <2>6, <3>1, CallIsCalm
  <2>7. CASE Begin("caller", NewPastSessionSteps(last), last, LastSession)
    <3>1. Quiet /\ last = LastSession =>
            PlanCalm([todo |-> NewPastSessionSteps(last), cur |-> last, new |-> NoSession], rows)
      BY <1>3, PastCalm
    <3>2. NewPastSessionSteps(last) \in Seq(Steps)
      BY NewPastSessionPlan
    <3> QED
      BY <1>0, <1>1, <1>4, <2>1, <2>7, <3>1, <3>2, CallIsCalm
  <2> QED
    BY <2>3, <2>5, <2>6, <2>7
<1> QED
  BY <1>7, <1>8, <1>9, <1>10, <1>11, <1>12, <1>13

LEMMA PurgeEventsCalm ==
  ASSUME Typed, CalmInv, Quiet' => Quiet, PurgeEvents
  PROVE  CalmInv'
<1> SUFFICES ASSUME Quiet, Quiet' PROVE CalmInv'
  BY DEF CalmInv
<1>1. DOMAIN events' = DOMAIN events
      /\ \A e \in DOMAIN events : /\ events'[e].session = events[e].session
                                  /\ events[e].purged => events'[e].purged
  <2>1. CASE UNCHANGED events
    BY <2>1
  <2>2. CASE ~UNCHANGED events
    <3>1. PICK sessions \in SUBSET Stored \ {{}} :
            events' = [e \in DOMAIN events |->
                         IF events[e].session \in sessions
                         THEN [events[e] EXCEPT !.purged = TRUE] ELSE events[e]]
      BY <2>2 DEF PurgeEvents
    <3>2. \A e \in DOMAIN events : events[e] \in Event
      BY DEF Typed, TypeOK
    <3> QED
      BY <3>1, <3>2 DEF Event
  <2> QED
    BY <2>1, <2>2
<1>2. UNCHANGED <<rows, work>>
  BY DEF PurgeEvents
<1> QED
  BY <1>1, <1>2 DEF CalmInv, EventsKept

LEMMA PurgeEmptySessionsCalm ==
  ASSUME Typed, CalmInv, Quiet' => Quiet, PurgeEmptySessions
  PROVE  CalmInv'
<1> SUFFICES ASSUME Quiet, Quiet' PROVE CalmInv'
  BY DEF CalmInv
<1>1. rows \in Seq(Row) /\ \A e \in DOMAIN events : events[e].session \in DOMAIN rows
  BY DEF Typed, TypeOK
<1>2. UNCHANGED <<events, work>>
  BY DEF PurgeEmptySessions
<1>3. Deletes(rows, rows')
  BY <1>1, PurgeEmptyDeletes
<1>4. \A i \in DOMAIN rows : rows'[i].deleted /\ ~rows[i].deleted => TwoAbove(i, rows') /\ i \in EmptyButFor(2)
  BY <1>1, PurgedHaveTwoAbove
<1>5. \A t \in Threads : PlanCalm(work[t], rows')
  BY <1>3, <1>4, CalmAfterDeleting DEF CalmInv
<1>6. LiveRows(rows', work)
  BY <1>3 DEF CalmInv, LiveRows, Deletes
<1>7. EventsKept(events, rows')
  <2> SUFFICES ASSUME NEW e \in DOMAIN events, ~events[e].purged PROVE ~rows'[events[e].session].deleted
    BY DEF EventsKept
  <2>1. ~rows[events[e].session].deleted /\ events[e].session \in DOMAIN rows
    BY <1>1 DEF CalmInv, EventsKept
  <2>2. ~IsEmpty(events[e].session)
    BY DEF IsEmpty
  <2>3. events[e].session \notin EmptyButFor(2)
    BY <2>2 DEF EmptyButFor
  <2> QED
    BY <1>4, <2>1, <2>3
<1> QED
  BY <1>2, <1>5, <1>6, <1>7 DEF CalmInv

LEMMA DieCalm ==
  ASSUME Typed, CalmInv, Quiet' => Quiet, Die
  PROVE  CalmInv'
<1> SUFFICES ASSUME Quiet, Quiet' PROVE CalmInv'
  BY DEF CalmInv
<1>1. UNCHANGED <<rows, events>> /\ \A t \in Threads : work'[t] = NoWork
  BY DEF Die, stored
<1>2. \A t \in Threads : work[t] = NoWork
  BY DEF Die, Quiet, Idle, IsIdle, Typed, WorkFits
<1> QED
  BY <1>1, <1>2 DEF CalmInv, LiveRows

CInv == IInv /\ CalmInv

LEMMA InitCalm == Init => CInv
<1> SUFFICES ASSUME Init PROVE CInv
  OBVIOUS
<1>1. \A t \in Threads : work[t] = NoWork
  BY DEF Init
<1>2. PlanCalm(NoWork, rows)
  BY DEF PlanCalm, InOrder, Creates, Saves, InReach, NoWork
<1>3. rows = <<>> /\ events = <<>> /\ DOMAIN rows = {} /\ DOMAIN events = {}
  BY DEF Init
<1>4. LiveRows(rows, work) /\ EventsKept(events, rows)
  BY <1>3 DEF LiveRows, EventsKept
<1> QED
  BY <1>1, <1>2, <1>4, InitSound DEF CInv, CalmInv

LEMMA StepCalm == CInv /\ [Next]_vars => CInv'
<1> SUFFICES ASSUME IInv, CalmInv, [Next]_vars PROVE IInv' /\ CalmInv'
  BY DEF CInv
<1>0. IInv' /\ Typed /\ Sound
  BY StepSound DEF IInv
<1>1. CASE UNCHANGED vars
  <2>1. UNCHANGED <<rows, events, work, faults>>
    BY <1>1 DEF vars, stored
  <2>2. CalmInv'
    BY <2>1 DEF CalmInv, Quiet
  <2> QED
    BY <1>0, <2>2
<1>2. CASE Next
  <2>1. Quiet' => Quiet
    BY <1>0, <1>2, FaultsStay DEF Quiet
  <2>2. ASSUME NEW t \in Threads, Perform(t) PROVE CalmInv'
    <3>1. SUFFICES ASSUME Quiet PROVE CalmInv'
      BY <2>1 DEF CalmInv
    <3>2. \A op : IsNext(t, op) => AtWork(t, op)
      BY <1>0, <3>1, CalmContext
    <3>3. CASE EndSession(t)
      BY <1>0, <3>2, <3>3, EndSessionCalm DEF EndSession
    <3>4. CASE NewSession(t)
      BY <1>0, <3>2, <3>4, NewSessionCalm DEF NewSession
    <3>5. CASE SaveSessionAsLastSession(t)
      BY <1>0, <3>2, <3>5, SaveSessionAsLastSessionCalm DEF SaveSessionAsLastSession
    <3>6. CASE AddEvent(t)
      BY <1>0, <3>2, <3>6, AddEventCalm DEF AddEvent
    <3>7. CASE MarkEventSent(t)
      BY <1>0, <3>2, <3>7, MarkEventSentCalm DEF MarkEventSent
    <3>8. CASE AddToNewOrReport(t)
      BY <1>0, <3>2, <3>8, AddToNewOrReportCalm DEF AddToNewOrReport
    <3> QED
      BY <2>2, <3>3, <3>4, <3>5, <3>6, <3>7, <3>8 DEF Perform
  <2>3. CalmInv'
    BY <1>0, <1>2, <2>1, <2>2, CallsCalm, PurgeEventsCalm, PurgeEmptySessionsCalm, DieCalm DEF Next
  <2> QED
    BY <1>0, <2>3
<1> QED
  BY <1>1, <1>2

(* As long as nothing went wrong, the row of an event that is still to be sent is kept:
   PurgeEmptySessions, which runs between any two transactions of a call, spares the rows
   that the call is going to add to, for at most one kept row is above them. *)
THEOREM EventsKeepTheirSession == Spec => []EventsHaveSession
<1>1. CInv => EventsHaveSession
  BY DEF CInv, IInv, Typed, TypeOK, CalmInv, Quiet, EventsKept, EventsHaveSession, Kept
<1> QED
  BY <1>1, InitCalm, StepCalm, PTL DEF Spec

(* As long as nothing went wrong, no row but the last is unfinished between two calls:
   every call that creates a session has ended the one before it, and the call that puts a
   session for a past event above the last one saves that again. *)
THEOREM OnlyLastLives == Spec => []OneLiveSession
<1>1. CInv => OneLiveSession
  <2> SUFFICES ASSUME CInv, Quiet, Idle, NEW i \in Kept, ~rows[i].finished PROVE i = LastSession.oid
    BY DEF OneLiveSession, Quiet
  <2>1. rows \in Seq(Row) /\ RowsFit(rows, lastSessionID) /\ LiveRows(rows, work)
    BY DEF CInv, IInv, Typed, TypeOK, Sound, Clean, CalmInv, Quiet
  <2>2. i \in DOMAIN rows
    BY DEF Kept
  <2>3. i = Len(rows)
    BY <2>1, <2>2 DEF LiveRows, Idle, IsIdle, Saves
  <2>4. LastSession # NoSession
    <3>1. Kept \subseteq DOMAIN rows /\ NoSession.oid = 0
      BY DEF Kept, NoSession
    <3>2. LastSession.oid \in Kept
      BY <2>1, <3>1, NewestIsOne DEF LastSession
    <3> QED
      BY <2>1, <3>1, <3>2
  <2> QED
    BY <2>1, <2>3, <2>4, LastAgrees
<1> QED
  BY <1>1, InitCalm, StepCalm, PTL DEF Spec
=============================================================================
