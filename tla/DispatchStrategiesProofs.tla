----------------------- MODULE DispatchStrategiesProofs -----------------------
(***************************************************************************)
(* Theorems about DispatchStrategies, for every choice of strategies,      *)
(* kinds of events, limits, periods and bounds.                            *)
(***************************************************************************)
EXTENDS DispatchStrategies, FiniteSetTheorems, FunctionTheorems, TLAPS

\* The blocks of the executor of s.
BlocksOf(s) == IF s = "timer" THEN {"restart", "restarting", "shutdown", "start", "fire", "void"}
               ELSE Kinds \cup {"start", "recount", "dispatch"}

\* Types, with what the type invariant leaves to the bounds.
TypeInv == /\ TypeOK
           /\ blocks = [s \in Types |-> blocks[s]]
           /\ added \in Nat

\* In the queue q of the timer, j is a shutdown before i with no start in between.
Covers(q, j, i) ==
  /\ j \in DOMAIN q /\ j < i /\ q[j] = "shutdown"
  /\ \A k \in DOMAIN q : j < k /\ k < i => q[k] # "start"

\* Every start in the queue q of the timer comes after a shutdown, unless it is the
\* first one and the timer is not set; so will the start of a restart that has
\* posted its shutdown.
StartsFollow(q, active) ==
  /\ \A i \in DOMAIN q : q[i] = "start" =>
       \/ \E j \in Nat : Covers(q, j, i)
       \/ active = FALSE /\ \A k \in DOMAIN q : k < i => q[k] # "start"
  /\ \A i \in DOMAIN q : q[i] = "restarting" =>
       i = 1 /\ \E j \in Nat : Covers(q, j, Len(q) + 1)

StartFollowsShutdown == StartsFollow(blocks["timer"], isActive)

TimerInv == StartFollowsShutdown /\ ActiveTimerTicks

\* A counting strategy has one delayed dispatch at a time, which runs its delay or
\* waits on the executor.
DispatchAt(s, i) == i \in DOMAIN blocks[s] /\ blocks[s][i] = "dispatch"

OneDispatch(s) ==
  /\ dispatchScheduled[s] <=> delay[s] \/ \E i \in Nat : DispatchAt(s, i)
  /\ delay[s] => \A i \in Nat : ~DispatchAt(s, i)
  /\ \A i, j \in Nat : DispatchAt(s, i) /\ DispatchAt(s, j) => i = j

DelayInv == \A s \in Counting : OneDispatch(s)

\* A counting strategy that listens is about to count, or its count covers the events.
Covered(s) == EventsCount(s) <= currentCount[s] + Coming(blocks[s], s) + Coming(posting, s)

WillCount(s) == IsHead(s, "recount") /\ maxCount[s] > 0

CountInv == \A s \in Counting : skipped \/ observers[s] = 0 \/ WillCount(s) \/ Covered(s)

-----------------------------------------------------------------------------
(* Queues of blocks. *)

\* The blocks behind the head of a queue.
LEMMA WithoutHeadBlocks ==
  ASSUME NEW S, NEW q \in Seq(S), q # <<>>
  PROVE  /\ Head(q) = q[1] /\ Head(q) \in S
         /\ Tail(q) \in Seq(S) /\ Len(Tail(q)) = Len(q) - 1 /\ Len(q) \in Nat
         /\ DOMAIN q = 1..Len(q) /\ DOMAIN Tail(q) = 1..(Len(q) - 1) /\ 1 \in DOMAIN q
         /\ \A i \in DOMAIN Tail(q) : Tail(q)[i] = q[i + 1] /\ i + 1 \in DOMAIN q
  OBVIOUS

\* A block posted to a queue.
LEMMA PostedBlocks ==
  ASSUME NEW S, NEW q \in Seq(S), NEW b \in S
  PROVE  /\ Append(q, b) \in Seq(S) /\ Len(q) \in Nat
         /\ DOMAIN q = 1..Len(q) /\ DOMAIN Append(q, b) = 1..(Len(q) + 1)
         /\ \A i \in DOMAIN q : Append(q, b)[i] = q[i]
         /\ Append(q, b)[Len(q) + 1] = b
  OBVIOUS

\* The block of a restart stays at the head while it posts the shutdown.
LEMMA RestartingBlocks ==
  ASSUME NEW S, NEW q \in Seq(S), q # <<>>, NEW h \in S, NEW b \in S
  PROVE  /\ Append([q EXCEPT ![1] = h], b) \in Seq(S)
         /\ Len(q) \in Nat /\ Len(q) >= 1 /\ DOMAIN q = 1..Len(q)
         /\ DOMAIN Append([q EXCEPT ![1] = h], b) = 1..(Len(q) + 1)
         /\ Len(Append([q EXCEPT ![1] = h], b)) = Len(q) + 1
         /\ Append([q EXCEPT ![1] = h], b)[1] = h
         /\ Append([q EXCEPT ![1] = h], b)[Len(q) + 1] = b
         /\ \A i \in DOMAIN q : i # 1 => Append([q EXCEPT ![1] = h], b)[i] = q[i]
<1> DEFINE p == [q EXCEPT ![1] = h]
<1>1. Len(q) \in Nat /\ Len(q) >= 1 /\ DOMAIN q = 1..Len(q) /\ q \in [1..Len(q) -> S]
  BY WithoutHeadBlocks
<1>2. p \in [1..Len(q) -> S]
  BY <1>1
<1>3. p \in Seq(S) /\ Len(p) = Len(q)
  BY <1>1, <1>2
<1>4. p[1] = h /\ \A i \in DOMAIN q : i # 1 => p[i] = q[i]
  BY <1>1
<1> HIDE DEF p
<1>5. /\ Append(p, b) \in Seq(S) /\ DOMAIN Append(p, b) = 1..(Len(q) + 1)
      /\ Len(Append(p, b)) = Len(q) + 1
      /\ Append(p, b)[Len(q) + 1] = b /\ \A i \in DOMAIN q : Append(p, b)[i] = p[i]
  BY <1>1, <1>3, PostedBlocks
<1>6. QED
  BY <1>1, <1>4, <1>5 DEF p

\* A cancelled block of the timer stays where it is.
LEMMA CancelledBlocks ==
  ASSUME NEW q \in Seq(BlocksOf("timer"))
  PROVE  /\ NotFired(q) \in Seq(BlocksOf("timer"))
         /\ DOMAIN NotFired(q) = DOMAIN q /\ Len(NotFired(q)) = Len(q)
         /\ \A i \in DOMAIN q : NotFired(q)[i] = IF q[i] = "fire" THEN "void" ELSE q[i]
<1>1. DOMAIN q = 1..Len(q) /\ Len(q) \in Nat
  OBVIOUS
<1>2. \A i \in 1..Len(q) : q[i] \in BlocksOf("timer")
  OBVIOUS
<1>3. "void" \in BlocksOf("timer")
  BY DEF BlocksOf
<1>4. NotFired(q) \in [1..Len(q) -> BlocksOf("timer")]
  BY <1>1, <1>2, <1>3 DEF NotFired
<1>5. Len(NotFired(q)) = Len(q)
  BY <1>1, <1>4
<1>6. QED
  BY <1>1, <1>4, <1>5 DEF NotFired

\* The notifications of n registrations.
LEMMA Notifications ==
  ASSUME NEW S, NEW n \in Nat, NEW k \in S
  PROVE  [i \in 1..n |-> k] \in Seq(S)
  OBVIOUS

LEMMA CountInNat ==
  ASSUME NEW S, NEW q \in Seq(S), NEW s
  PROVE  Coming(q, s) \in Nat
<1>1. IsFiniteSet(DOMAIN q)
  <2>1. DOMAIN q = 1..Len(q) /\ Len(q) \in Nat
    OBVIOUS
  <2>2. QED
    BY <2>1, FS_Interval
<1>2. IsFiniteSet({i \in DOMAIN q : q[i] \in Counts(s)})
  BY <1>1, FS_Subset
<1>3. QED
  BY <1>2, FS_CardinalityType DEF Coming

\* What the database holds is a natural number of events.
LEMMA EventsCountInNat ==
  ASSUME NEW s, events \in [Kinds -> Nat]
  PROVE  EventsCount(s) \in Nat
<1>1. \A k \in Counts(s) : k \in Kinds
  BY DEF Counts
<1>2. QED
  BY <1>1 DEF EventsCount

-----------------------------------------------------------------------------
(* Type correctness. *)

\* The parts of the types that the queues do not belong to.
DataOK ==
  /\ types \in TypeMasks
  /\ events \in [Kinds -> 0..added]
  /\ posting \in Seq(Kinds) /\ Len(posting) <= 1
  /\ limit \in Limits /\ period \in Periods
  /\ observers \in [Counting -> Nat]
  /\ maxCount \in [Counting -> Nat] /\ currentCount \in [Counting -> Nat]
  /\ dispatchScheduled \in [Counting -> BOOLEAN] /\ delay \in [Counting -> BOOLEAN]
  /\ {isActive, alarm, started, requested, reporting, upToDate, updating, skipped} \subseteq BOOLEAN
  /\ asked \in [Types -> BOOLEAN]
  /\ added \in Nat

Tasks == {<<"restart">>} \cup ({"wants"} \X Types)

BlocksOK == blocks = [s \in Types |-> blocks[s]] /\ \A s \in Types : blocks[s] \in Seq(BlocksOf(s))

LEMMA TypeParts == TypeInv <=> DataOK /\ BlocksOK /\ tasks \in Seq(Tasks)
  BY DEF TypeInv, TypeOK, DataOK, BlocksOK, Tasks, BlocksOf

LEMMA CountingTypes ==
  /\ \A s \in Counting : s \in Types /\ s # "timer"
  /\ "timer" \in Types
  BY DEF Types, Counting

LEMMA TypeInit == Init => TypeInv
<1> SUFFICES ASSUME Init PROVE DataOK /\ BlocksOK /\ tasks \in Seq(Tasks)
  BY TypeParts
<1>1. DataOK
  <2>1. /\ types \in TypeMasks /\ limit \in Limits /\ period \in Periods
        /\ posting \in Seq(Kinds) /\ Len(posting) <= 1 /\ added \in Nat
    BY DEF Init
  <2>2. events \in [Kinds -> 0..added]
    BY DEF Init
  <2>3. /\ observers \in [Counting -> Nat]
        /\ maxCount \in [Counting -> Nat] /\ currentCount \in [Counting -> Nat]
    BY DEF Init
  <2>4. /\ dispatchScheduled \in [Counting -> BOOLEAN] /\ delay \in [Counting -> BOOLEAN]
        /\ asked \in [Types -> BOOLEAN]
    BY DEF Init
  <2>5. {isActive, alarm, started, requested, reporting, upToDate, updating, skipped} \subseteq BOOLEAN
    BY DEF Init
  <2>6. QED
    BY <2>1, <2>2, <2>3, <2>4, <2>5 DEF DataOK
<1>2. BlocksOK
  BY DEF Init, BlocksOK
<1>3. QED
  BY <1>1, <1>2 DEF Init

\* Every step leaves the queues of blocks well typed.
LEMMA BlocksStep ==
  ASSUME TypeInv, [Next]_vars
  PROVE  BlocksOK'
<1> USE CountingTypes
<1>0. BlocksOK /\ DataOK
  BY TypeParts
<1>1. ASSUME NEW s \in Types, NEW q \in Seq(BlocksOf(s)), blocks' = [blocks EXCEPT ![s] = q]
      PROVE  BlocksOK'
  BY <1>0, <1>1 DEF BlocksOK
<1>2. ASSUME NEW s \in Types, blocks' = WithoutHead(s), blocks[s] # <<>>
      PROVE  BlocksOK'
  <2>1. Tail(blocks[s]) \in Seq(BlocksOf(s))
    BY <1>0, <1>2, WithoutHeadBlocks DEF BlocksOK
  <2>2. QED
    BY <1>1, <1>2, <2>1 DEF WithoutHead
<1>3. CASE UNCHANGED blocks
  BY <1>0, <1>3 DEF BlocksOK
<1>4. ASSUME NEW s \in Counting, CountingBlock(s) PROVE BlocksOK'
  <2>1. CASE StartSubscribe(s)
    <3>1. /\ blocks[s] # <<>> /\ blocks[s] \in Seq(BlocksOf(s))
          /\ blocks' = [blocks EXCEPT ![s] = <<"recount">> \o Tail(@)]
      BY <1>0, <2>1 DEF StartSubscribe, IsHead, BlocksOK
    <3>2. Tail(blocks[s]) \in Seq(BlocksOf(s))
      BY <3>1, WithoutHeadBlocks
    <3>3. <<"recount">> \in Seq(BlocksOf(s))
      <4>1. "recount" \in BlocksOf(s)
        BY DEF BlocksOf
      <4>2. QED
        BY <4>1
    <3>4. <<"recount">> \o Tail(blocks[s]) \in Seq(BlocksOf(s))
      BY <3>2, <3>3
    <3>5. QED
      BY <1>1, <3>1, <3>4
  <2>2. CASE StartRecount(s)
    BY <1>2, <2>2 DEF StartRecount, IsHead
  <2>3. CASE EventAdded(s)
    BY <1>2, <2>3 DEF EventAdded, IsHead
  <2>4. CASE DelayedDispatch(s)
    BY <1>2, <2>4 DEF DelayedDispatch, IsHead
  <2>5. QED
    BY <1>4, <2>1, <2>2, <2>3, <2>4 DEF CountingBlock
<1>5. ASSUME NEW s \in Counting, DelayExpires(s) PROVE BlocksOK'
  <2>1. Append(blocks[s], "dispatch") \in Seq(BlocksOf(s))
    <3>1. "dispatch" \in BlocksOf(s)
      BY DEF BlocksOf
    <3>2. QED
      BY <1>0, <3>1, PostedBlocks DEF BlocksOK
  <2>2. QED
    BY <1>1, <1>5, <2>1 DEF DelayExpires, Posted
<1>6. CASE TimerBlock
  <2> DEFINE q == blocks["timer"]
             T == BlocksOf("timer")
  <2>1. q \in Seq(T)
    BY <1>0 DEF BlocksOK
  <2>2. q # <<>>
    BY <1>6 DEF TimerBlock, TimerRestart, TimerRestartEnds, TimerShutdown, TimerStart, TimerFired, TimerCancelled,
                IsHead
  <2>3. Tail(q) \in Seq(T)
    BY <2>1, <2>2, WithoutHeadBlocks
  <2>4. NotFired(Tail(q)) \in Seq(T)
    BY <2>3, CancelledBlocks
  <2>5. /\ Append([q EXCEPT ![1] = "restarting"], "shutdown") \in Seq(T)
        /\ Append(Tail(q), "start") \in Seq(T) /\ Append(Tail(q), "restart") \in Seq(T)
    <3>1. "shutdown" \in T /\ "start" \in T /\ "restart" \in T /\ "restarting" \in T
      BY DEF BlocksOf
    <3>2. Append(Tail(q), "start") \in Seq(T) /\ Append(Tail(q), "restart") \in Seq(T)
      BY <2>3, <3>1
    <3>3. Append([q EXCEPT ![1] = "restarting"], "shutdown") \in Seq(T)
      BY <2>1, <2>2, <3>1, RestartingBlocks
    <3>4. QED
      BY <3>2, <3>3
  <2>6. \E r \in Seq(T) : blocks' = [blocks EXCEPT !["timer"] = r]
    <3>1. CASE TimerRestart
      BY <2>5, <3>1 DEF TimerRestart
    <3>6. CASE TimerRestartEnds
      BY <2>5, <3>6 DEF TimerRestartEnds
    <3>2. CASE TimerShutdown
      BY <2>4, <3>2 DEF TimerShutdown
    <3>3. CASE TimerStart
      BY <2>3, <2>4, <3>3 DEF TimerStart
    <3>4. CASE TimerFired
      BY <2>5, <3>4 DEF TimerFired
    <3>5. CASE TimerCancelled
      BY <2>3, <3>5 DEF TimerCancelled, WithoutHead
    <3>7. QED
      BY <1>6, <3>1, <3>2, <3>3, <3>4, <3>5, <3>6 DEF TimerBlock
  <2>7. QED
    BY <1>1, <2>6
<1>7. CASE AlarmExpires
  <2>1. Append(blocks["timer"], "fire") \in Seq(BlocksOf("timer"))
    BY <1>0 DEF BlocksOK, BlocksOf
  <2>2. QED
    BY <1>1, <1>7, <2>1 DEF AlarmExpires, Posted
<1>8. CASE RestartAll \/ ShutdownAll
  <2>1. \A s \in Types : blocks[s] \in Seq(BlocksOf(s))
    BY <1>0 DEF BlocksOK
  <2>2. \A s \in Types : s # "timer" => Append(blocks[s], "start") \in Seq(BlocksOf(s))
    BY <2>1 DEF BlocksOf
  <2>3. /\ Append(blocks["timer"], "restart") \in Seq(BlocksOf("timer"))
        /\ Append(blocks["timer"], "shutdown") \in Seq(BlocksOf("timer"))
    BY <2>1 DEF BlocksOf
  <2>4. QED
    BY <1>8, <2>1, <2>2, <2>3 DEF RestartAll, ShutdownAll, BlocksOK
<1>9. CASE NotifyEventAdded
  <2>1. \A s \in Types : blocks[s] \in Seq(BlocksOf(s))
    BY <1>0 DEF BlocksOK
  <2>2. Head(posting) \in Kinds
    BY <1>0, <1>9, WithoutHeadBlocks DEF NotifyEventAdded, DataOK
  <2>3. \A s \in Types : s # "timer" => [i \in 1..observers[s] |-> Head(posting)] \in Seq(BlocksOf(s))
    <3>1. ASSUME NEW s \in Types, s # "timer"
          PROVE  [i \in 1..observers[s] |-> Head(posting)] \in Seq(BlocksOf(s))
      <4>1. observers[s] \in Nat /\ Head(posting) \in BlocksOf(s)
        BY <1>0, <2>2, <3>1 DEF DataOK, BlocksOf, Types
      <4>2. QED
        BY <4>1, Notifications
    <3>2. QED
      BY <3>1
  <2>4. \A s \in Types : s # "timer" =>
          blocks[s] \o [i \in 1..observers[s] |-> Head(posting)] \in Seq(BlocksOf(s))
    BY <2>1, <2>3
  <2>5. QED
    BY <1>9, <2>1, <2>4 DEF NotifyEventAdded, BlocksOK
<1>10. CASE Task
  BY <1>3, <1>8, <1>10 DEF Task, Restart, WantsReporting
<1>11. CASE Start \/ Shutdown \/ Configure
  BY <1>3, <1>8, <1>11 DEF Start, Shutdown, Configure
<1>12. CASE AddEvent \/ BeginRound
  BY <1>3, <1>12 DEF AddEvent, BeginRound
<1>13. CASE RoundEnds
  BY <1>3, <1>13 DEF RoundEnds, RoundSucceeds, RoundFails
<1>14. CASE UpdateEnds
  BY <1>3, <1>14 DEF UpdateEnds, StartupSucceeds, StartupFails
<1>15. CASE UNCHANGED vars
  BY <1>3, <1>15 DEF vars
<1>16. QED
  BY <1>4, <1>5, <1>6, <1>7, <1>9, <1>10, <1>11, <1>12, <1>13, <1>14, <1>15 DEF Next


LEMMA TriggerType ==
  ASSUME TypeInv, NEW s \in Types, NEW reached, TriggerIf(s, reached) \/ TriggerDispatch(s) \/ NoTrigger
  PROVE  tasks' \in Seq(Tasks) /\ asked' \in [Types -> BOOLEAN]
<1>1. tasks \in Seq(Tasks) /\ asked \in [Types -> BOOLEAN]
  BY TypeParts DEF DataOK
<1>2. CASE TriggerDispatch(s)
  <2>1. <<"wants", s>> \in Tasks
    BY DEF Tasks
  <2>2. Append(tasks, <<"wants", s>>) \in Seq(Tasks)
    BY <1>1, <2>1, PostedBlocks
  <2>3. QED
    BY <1>1, <1>2, <2>2 DEF TriggerDispatch
<1>3. CASE NoTrigger
  BY <1>1, <1>3 DEF NoTrigger
<1>4. QED
  BY <1>2, <1>3 DEF TriggerIf

\* Every step leaves the tasks of the facade and the history well typed.
LEMMA TasksStep ==
  ASSUME TypeInv, [Next]_vars
  PROVE  tasks' \in Seq(Tasks) /\ asked' \in [Types -> BOOLEAN]
<1> USE CountingTypes
<1>0. tasks \in Seq(Tasks) /\ asked \in [Types -> BOOLEAN]
  BY TypeParts DEF DataOK
<1>1. <<"restart">> \in Tasks
  BY DEF Tasks
<1>2. Append(tasks, <<"restart">>) \in Seq(Tasks)
  BY <1>0, <1>1, PostedBlocks
<1>3. CASE UNCHANGED <<tasks, asked>>
  BY <1>0, <1>3
<1>4. ASSUME NEW s \in Counting, CountingBlock(s) \/ DelayExpires(s)
      PROVE  tasks' \in Seq(Tasks) /\ asked' \in [Types -> BOOLEAN]
  <2>1. CASE StartSubscribe(s) \/ EventAdded(s) \/ DelayExpires(s)
    BY <1>3, <2>1 DEF StartSubscribe, EventAdded, DelayExpires
  <2>2. CASE StartRecount(s)
    <3>1. NoTrigger \/ TriggerIf(s, EventsCount(s) >= maxCount[s])
      BY <2>2 DEF StartRecount
    <3>2. QED
      BY <3>1, TriggerType
  <2>3. CASE DelayedDispatch(s)
    <3>1. TriggerIf(s, maxCount[s] > 0 /\ currentCount[s] >= maxCount[s])
      BY <2>3 DEF DelayedDispatch
    <3>2. QED
      BY <3>1, TriggerType
  <2>4. QED
    BY <1>4, <2>1, <2>2, <2>3 DEF CountingBlock
<1>5. CASE TimerBlock \/ AlarmExpires
  <2>1. CASE TimerFired
    <3>1. TriggerDispatch("timer")
      BY <2>1 DEF TimerFired
    <3>2. QED
      BY <3>1, TriggerType
  <2>2. CASE ~TimerFired
    BY <1>3, <1>5, <2>2 DEF TimerBlock, AlarmExpires, TimerRestart, TimerRestartEnds, TimerShutdown, TimerStart, TimerCancelled
  <2>3. QED
    BY <2>1, <2>2
<1>6. CASE Task
  <2>1. tasks # <<>> /\ tasks' = Tail(tasks) /\ asked' = asked
    BY <1>6 DEF Task, Restart, WantsReporting
  <2>2. QED
    BY <1>0, <2>1, WithoutHeadBlocks
<1>7. CASE Start \/ Shutdown \/ NotifyEventAdded \/ BeginRound
  BY <1>3, <1>7 DEF Start, Shutdown, NotifyEventAdded, BeginRound
<1>8. CASE Configure
  BY <1>0, <1>2, <1>8 DEF Configure
<1>9. CASE AddEvent
  <2>1. tasks' = tasks
    BY <1>9 DEF AddEvent
  <2>2. asked' \in [Types -> BOOLEAN]
    <3>1. PICK k \in Kinds : asked' = [s \in Types |-> asked[s] /\ s \in Counting /\ k \notin Counts(s)]
      BY <1>9 DEF AddEvent
    <3>2. QED
      BY <3>1, Zenon
  <2>3. QED
    BY <1>0, <2>1, <2>2
<1>10. CASE RoundEnds
  BY <1>0, <1>2, <1>10 DEF RoundEnds, RoundSucceeds, RoundFails
<1>11. CASE UpdateEnds
  BY <1>0, <1>2, <1>11 DEF UpdateEnds, StartupSucceeds, StartupFails
<1>12. CASE UNCHANGED vars
  BY <1>3, <1>12 DEF vars
<1>13. QED
  BY <1>4, <1>5, <1>6, <1>7, <1>8, <1>9, <1>10, <1>11, <1>12 DEF Next

\* What a restart or a shutdown does to the registrations, and what a round deletes.
LEMMA UnsubscribedType ==
  ASSUME TypeInv
  PROVE  Unsubscribed \in [Counting -> Nat]
<1>1. observers \in [Counting -> Nat]
  BY TypeParts DEF DataOK
<1>2. QED
  BY <1>1 DEF Unsubscribed

LEMMA PurgeType ==
  ASSUME TypeInv, PurgeSome
  PROVE  /\ events' \in [Kinds -> 0..added]
         /\ \A k \in Kinds : events'[k] <= events[k]
<1>1. events \in [Kinds -> 0..added] /\ added \in Nat
  BY TypeParts DEF DataOK
<1>2. PICK purged \in SUBSET Kinds : events' = [k \in Kinds |-> IF k \in purged THEN 0 ELSE events[k]]
  BY DEF PurgeSome
<1>3. QED
  BY <1>1, <1>2

\* What each step may change.
LEMMA Frame ==
  ASSUME [Next]_vars
  PROVE  /\ UNCHANGED <<types, limit, period>> \/ Configure
         /\ UNCHANGED <<events, posting, added>> \/ AddEvent \/ NotifyEventAdded \/ RoundEnds
         /\ \/ UNCHANGED observers
            \/ \E s \in Counting : StartSubscribe(s)
            \/ RestartAll \/ ShutdownAll
         /\ \/ UNCHANGED <<counters, delay, skipped>>
            \/ \E s \in Counting : CountingBlock(s) \/ DelayExpires(s)
         /\ UNCHANGED timer \/ TimerBlock \/ AlarmExpires
         /\ UNCHANGED <<started, rounds, startup>> \/ Start \/ Shutdown \/ WantsReporting
                      \/ BeginRound \/ RoundEnds \/ UpdateEnds
<1>1. CASE \E s \in Counting : CountingBlock(s) \/ DelayExpires(s)
  BY <1>1 DEF CountingBlock, StartSubscribe, StartRecount, EventAdded, DelayedDispatch, DelayExpires,
              config, rounds, startup, bounds
<1>2. CASE TimerBlock \/ AlarmExpires
  BY <1>2 DEF TimerBlock, TimerRestart, TimerRestartEnds, TimerShutdown, TimerStart, TimerFired, TimerCancelled,
              AlarmExpires, config, bounds
<1>3. CASE Task
  BY <1>3 DEF Task, Restart, WantsReporting, config, bounds
<1>4. CASE Start \/ Shutdown
  BY <1>4 DEF Start, Shutdown, config, bounds
<1>5. CASE Configure
  BY <1>5 DEF Configure, counters
<1>6. CASE AddEvent \/ NotifyEventAdded
  BY <1>6 DEF AddEvent, NotifyEventAdded, config
<1>7. CASE BeginRound \/ RoundEnds \/ UpdateEnds
  BY <1>7 DEF BeginRound, RoundEnds, RoundSucceeds, RoundFails, UpdateEnds, StartupSucceeds, StartupFails,
              config, bounds
<1>8. CASE UNCHANGED vars
  BY <1>8 DEF vars, config, bounds
<1>9. QED
  BY <1>1, <1>2, <1>3, <1>4, <1>5, <1>6, <1>7, <1>8 DEF Next

\* Every step leaves the rest well typed.
LEMMA DataStep ==
  ASSUME TypeInv, [Next]_vars
  PROVE  DataOK'
<1> USE CountingTypes, DispatchStrategiesAssumption DEF DispatchStrategiesAssumption
<1>0. DataOK
  BY TypeParts
<1>1. asked' \in [Types -> BOOLEAN]
  BY TasksStep
<1>2. types' \in TypeMasks /\ limit' \in Limits /\ period' \in Periods
  BY <1>0, Frame DEF DataOK, Configure
<1>3. events' \in [Kinds -> 0..added'] /\ added' \in Nat /\ posting' \in Seq(Kinds) /\ Len(posting') <= 1
  <2>1. CASE UNCHANGED <<events, posting, added>>
    BY <1>0, <2>1 DEF DataOK
  <2>2. CASE AddEvent
    <3>1. PICK k \in Kinds : events' = [events EXCEPT ![k] = @ + 1] /\ posting' = <<k>>
      BY <2>2 DEF AddEvent
    <3>2. added' = added + 1
      BY <2>2 DEF AddEvent
    <3>3. events' \in [Kinds -> 0..added'] /\ added' \in Nat
      BY <1>0, <3>1, <3>2 DEF DataOK
    <3>4. posting' \in Seq(Kinds) /\ Len(posting') <= 1
      BY <3>1
    <3>5. QED
      BY <3>3, <3>4
  <2>3. CASE NotifyEventAdded
    BY <1>0, <2>3 DEF NotifyEventAdded, DataOK, bounds
  <2>4. CASE RoundEnds
    <3>1. PurgeSome /\ UNCHANGED <<posting, added>>
      BY <2>4 DEF RoundEnds, RoundSucceeds, RoundFails, bounds
    <3>2. QED
      BY <1>0, <3>1, PurgeType DEF DataOK
  <2>5. QED
    BY <2>1, <2>2, <2>3, <2>4, Frame
<1>4. observers' \in [Counting -> Nat]
  <2>1. CASE \E s \in Counting : StartSubscribe(s)
    BY <1>0, <2>1 DEF StartSubscribe, DataOK
  <2>2. CASE RestartAll \/ ShutdownAll
    BY <2>2, UnsubscribedType DEF RestartAll, ShutdownAll
  <2>3. QED
    BY <1>0, <2>1, <2>2, Frame DEF DataOK
<1>5. /\ maxCount' \in [Counting -> Nat] /\ currentCount' \in [Counting -> Nat]
      /\ dispatchScheduled' \in [Counting -> BOOLEAN] /\ delay' \in [Counting -> BOOLEAN]
      /\ skipped' \in BOOLEAN
  <2>0. /\ maxCount \in [Counting -> Nat] /\ currentCount \in [Counting -> Nat]
        /\ dispatchScheduled \in [Counting -> BOOLEAN] /\ delay \in [Counting -> BOOLEAN]
        /\ skipped \in BOOLEAN
    BY <1>0 DEF DataOK
  <2>1. CASE UNCHANGED <<counters, delay, skipped>>
    BY <2>0, <2>1 DEF counters
  <2>2. ASSUME NEW s \in Counting, StartSubscribe(s)
        PROVE  /\ maxCount' \in [Counting -> Nat]
               /\ UNCHANGED <<currentCount, dispatchScheduled, delay, skipped>>
    <3>1. Needed(s) \in Nat
      BY <1>0 DEF DataOK, Needed
    <3>2. QED
      BY <2>0, <2>2, <3>1 DEF StartSubscribe
  <2>3. ASSUME NEW s \in Counting, StartRecount(s)
        PROVE  /\ currentCount' \in [Counting -> Nat] /\ skipped' \in BOOLEAN
               /\ UNCHANGED <<maxCount, dispatchScheduled, delay>>
    <3>1. EventsCount(s) \in Nat
      <4>1. events \in [Kinds -> Nat]
        BY <1>0 DEF DataOK
      <4>2. QED
        BY <4>1, EventsCountInNat
    <3>2. currentCount' \in [Counting -> Nat]
      BY <2>0, <2>3, <3>1 DEF StartRecount
    <3>3. UNCHANGED <<maxCount, dispatchScheduled, delay>>
      BY <2>3 DEF StartRecount
    <3>4. skipped' \in BOOLEAN
      BY <2>3 DEF StartRecount
    <3>5. QED
      BY <3>2, <3>3, <3>4
  <2>4. ASSUME NEW s \in Counting, EventAdded(s)
        PROVE  /\ currentCount' \in [Counting -> Nat]
               /\ dispatchScheduled' \in [Counting -> BOOLEAN] /\ delay' \in [Counting -> BOOLEAN]
               /\ UNCHANGED <<maxCount, skipped>>
    <3>1. UNCHANGED <<maxCount, skipped>>
      BY <2>4 DEF EventAdded
    <3>2. currentCount' \in [Counting -> Nat]
      BY <2>0, <2>4 DEF EventAdded
    <3>3. dispatchScheduled' \in [Counting -> BOOLEAN]
      BY <2>0, <2>4, Zenon DEF EventAdded
    <3>4. delay' \in [Counting -> BOOLEAN]
      BY <2>0, <2>4, Zenon DEF EventAdded
    <3>5. QED
      BY <3>1, <3>2, <3>3, <3>4
  <2>5. ASSUME NEW s \in Counting, DelayedDispatch(s)
        PROVE  /\ dispatchScheduled' \in [Counting -> BOOLEAN]
               /\ UNCHANGED <<maxCount, currentCount, delay, skipped>>
    BY <2>0, <2>5 DEF DelayedDispatch
  <2>6. ASSUME NEW s \in Counting, DelayExpires(s)
        PROVE  delay' \in [Counting -> BOOLEAN] /\ UNCHANGED <<counters, skipped>>
    BY <2>0, <2>6 DEF DelayExpires
  <2>7. QED
    BY <2>0, <2>1, <2>2, <2>3, <2>4, <2>5, <2>6, Frame DEF CountingBlock, counters
<1>6. isActive' \in BOOLEAN /\ alarm' \in BOOLEAN
  <2>1. isActive \in BOOLEAN /\ alarm \in BOOLEAN
    BY <1>0 DEF DataOK
  <2>2. CASE UNCHANGED timer \/ AlarmExpires \/ TimerRestart \/ TimerRestartEnds \/ TimerShutdown \/ TimerFired
                             \/ TimerCancelled
    BY <2>1, <2>2 DEF timer, AlarmExpires, TimerRestart, TimerRestartEnds, TimerShutdown, TimerFired, TimerCancelled
  <2>3. CASE TimerStart
    <3>1. CASE period > 0
      BY <2>3, <3>1 DEF TimerStart
    <3>2. CASE ~(period > 0)
      BY <2>3, <3>2 DEF TimerStart
    <3>3. QED
      BY <3>1, <3>2
  <2>4. QED
    BY <2>2, <2>3, Frame DEF TimerBlock
<1>7. /\ started' \in BOOLEAN /\ requested' \in BOOLEAN /\ reporting' \in BOOLEAN
      /\ upToDate' \in BOOLEAN /\ updating' \in BOOLEAN
  <2>0. /\ started \in BOOLEAN /\ requested \in BOOLEAN /\ reporting \in BOOLEAN
        /\ upToDate \in BOOLEAN /\ updating \in BOOLEAN
    BY <1>0 DEF DataOK
  <2>1. CASE UNCHANGED <<started, rounds, startup>>
    BY <2>0, <2>1 DEF rounds, startup
  <2>2. CASE Start \/ Shutdown \/ WantsReporting
    BY <2>0, <2>2 DEF Start, Shutdown, WantsReporting, rounds, startup
  <2>3. CASE BeginRound
    BY <2>0, <2>3 DEF BeginRound, startup
  <2>4. CASE RoundEnds
    BY <2>0, <2>4 DEF RoundEnds, RoundSucceeds, RoundFails, startup
  <2>5. CASE UpdateEnds
    BY <2>0, <2>5 DEF UpdateEnds, StartupSucceeds, StartupFails, rounds
  <2>6. QED
    BY <2>1, <2>2, <2>3, <2>4, <2>5, Frame
<1>8. QED
  BY <1>1, <1>2, <1>3, <1>4, <1>5, <1>6, <1>7 DEF DataOK

LEMMA TypeStep == ASSUME TypeInv, [Next]_vars PROVE TypeInv'
<1>1. DataOK' /\ BlocksOK' /\ tasks' \in Seq(Tasks)
  BY BlocksStep, TasksStep, DataStep
<1>2. QED
  BY <1>1 DEF TypeInv, TypeOK, DataOK, BlocksOK, Tasks, BlocksOf

LEMMA TypeHolds == Spec => []TypeInv
<1>1. Init => TypeInv
  BY TypeInit
<1>2. TypeInv /\ [Next]_vars => TypeInv'
  BY TypeStep
<1>3. QED
  BY <1>1, <1>2, PTL DEF Spec

(* Type correctness: the executors hold only blocks of their own kinds, no count
   and no number of registrations becomes negative, however often the strategies
   are restarted, and one event at most waits for its notification. *)
THEOREM TypeCorrect == Spec => []TypeOK
<1>1. TypeInv => TypeOK
  BY DEF TypeInv
<1>2. QED
  BY <1>1, TypeHolds, PTL


-----------------------------------------------------------------------------
(* The timer. *)

\* The steps that concern the timer strategy.
LEMMA TimerFrame ==
  ASSUME TypeInv, [Next]_vars
  PROVE  \/ blocks'["timer"] = blocks["timer"] /\ UNCHANGED timer
         \/ TimerBlock \/ AlarmExpires
         \/ (RestartAll \/ ShutdownAll) /\ UNCHANGED timer
<1> USE CountingTypes
<1>0. BlocksOK
  BY TypeParts
<1>1. ASSUME NEW s \in Counting, CountingBlock(s) \/ DelayExpires(s)
      PROVE  blocks'["timer"] = blocks["timer"] /\ UNCHANGED timer
  <2>1. s # "timer"
    OBVIOUS
  <2>2. QED
    BY <1>0, <1>1, <2>1 DEF CountingBlock, StartSubscribe, StartRecount, EventAdded, DelayedDispatch,
                            DelayExpires, WithoutHead, Posted, BlocksOK
<1>2. CASE NotifyEventAdded
  BY <1>2 DEF NotifyEventAdded
<1>3. CASE Task
  BY <1>3 DEF Task, Restart, WantsReporting
<1>4. CASE Start \/ Shutdown
  BY <1>4 DEF Start, Shutdown
<1>5. CASE Configure \/ AddEvent \/ BeginRound \/ RoundEnds \/ UpdateEnds
  BY <1>5 DEF Configure, AddEvent, BeginRound, RoundEnds, RoundSucceeds, RoundFails, UpdateEnds,
              StartupSucceeds, StartupFails
<1>6. CASE UNCHANGED vars
  BY <1>6 DEF vars
<1>7. QED
  BY <1>1, <1>2, <1>3, <1>4, <1>5, <1>6 DEF Next

LEMMA TimerInit == Init => TimerInv
  BY CountingTypes DEF Init, TimerInv, StartFollowsShutdown, StartsFollow, ActiveTimerTicks

\* A block appended to the queue of the timer that is no start.
LEMMA AppendedStarts ==
  ASSUME NEW q \in Seq(BlocksOf("timer")), NEW b \in BlocksOf("timer"), b \notin {"start", "restarting"},
         NEW active, StartsFollow(q, active)
  PROVE  StartsFollow(Append(q, b), active)
<1> DEFINE r == Append(q, b)
<1>1. /\ r \in Seq(BlocksOf("timer")) /\ Len(q) \in Nat /\ DOMAIN q = 1..Len(q)
      /\ DOMAIN r = 1..(Len(q) + 1) /\ Len(r) = Len(q) + 1
      /\ \A i \in DOMAIN q : r[i] = q[i]
      /\ r[Len(q) + 1] = b
  BY PostedBlocks
<1> HIDE DEF r
<1>2. \A i, j \in Nat : i <= Len(q) + 1 /\ Covers(q, j, i) => Covers(r, j, i)
  BY <1>1 DEF Covers
<1>3. \A j \in Nat : Covers(q, j, Len(q) + 1) => Covers(r, j, Len(r) + 1)
  BY <1>1 DEF Covers
<1>4. ASSUME NEW i \in DOMAIN r, r[i] = "start"
      PROVE  \/ \E j \in Nat : Covers(r, j, i)
             \/ active = FALSE /\ \A k \in DOMAIN r : k < i => r[k] # "start"
  <2>1. i \in DOMAIN q /\ q[i] = "start" /\ i \in Nat /\ i <= Len(q) + 1
    BY <1>1, <1>4
  <2>2. \/ \E j \in Nat : Covers(q, j, i)
        \/ active = FALSE /\ \A k \in DOMAIN q : k < i => q[k] # "start"
    BY <2>1 DEF StartsFollow
  <2>3. CASE \E j \in Nat : Covers(q, j, i)
    BY <1>2, <2>1, <2>3
  <2>4. CASE active = FALSE /\ \A k \in DOMAIN q : k < i => q[k] # "start"
    BY <1>1, <2>1, <2>4
  <2>5. QED
    BY <2>2, <2>3, <2>4
<1>5. ASSUME NEW i \in DOMAIN r, r[i] = "restarting"
      PROVE  i = 1 /\ \E j \in Nat : Covers(r, j, Len(r) + 1)
  <2>1. i \in DOMAIN q /\ q[i] = "restarting"
    BY <1>1, <1>5
  <2>2. i = 1 /\ \E j \in Nat : Covers(q, j, Len(q) + 1)
    BY <2>1 DEF StartsFollow
  <2>3. QED
    BY <1>3, <2>2
<1>6. QED
  BY <1>4, <1>5 DEF StartsFollow, r

\* The head leaves the queue of the timer; other blocks may be cancelled with it.  A
\* shutdown leaves the timer not set, and a start may set it.
LEMMA PoppedStarts ==
  ASSUME NEW q \in Seq(BlocksOf("timer")), q # <<>>, q[1] # "restarting",
         NEW r \in Seq(BlocksOf("timer")), Len(r) = Len(q) - 1,
         \A i \in DOMAIN r : \A b \in {"start", "shutdown", "restarting"} : r[i] = b <=> q[i + 1] = b,
         NEW active, NEW next, StartsFollow(q, active),
         q[1] = "shutdown" => next = FALSE,
         q[1] \notin {"shutdown", "start"} => (active = FALSE => next = FALSE)
  PROVE  StartsFollow(r, next)
<1>1. /\ Len(q) \in Nat /\ Len(q) >= 1 /\ DOMAIN q = 1..Len(q) /\ DOMAIN r = 1..(Len(q) - 1)
      /\ 1 \in DOMAIN q
  BY WithoutHeadBlocks
<1>2. ASSUME NEW i \in DOMAIN r, r[i] = "start"
      PROVE  \/ \E j \in Nat : Covers(r, j, i)
             \/ next = FALSE /\ \A k \in DOMAIN r : k < i => r[k] # "start"
  <2>1. i \in Nat /\ i + 1 \in DOMAIN q /\ q[i + 1] = "start"
    BY <1>1, <1>2
  <2>2. \/ \E j \in Nat : Covers(q, j, i + 1)
        \/ active = FALSE /\ \A k \in DOMAIN q : k < i + 1 => q[k] # "start"
    BY <2>1 DEF StartsFollow
  <2>3. ASSUME NEW j \in Nat, Covers(q, j, i + 1), j # 1
        PROVE  Covers(r, j - 1, i) /\ j - 1 \in Nat
    <3>1. j \in DOMAIN q /\ j < i + 1 /\ q[j] = "shutdown" /\ j - 1 \in DOMAIN r
      BY <1>1, <1>2, <2>3 DEF Covers
    <3>2. r[j - 1] = "shutdown" /\ j - 1 < i
      BY <1>1, <2>1, <3>1
    <3>3. ASSUME NEW k \in DOMAIN r, j - 1 < k, k < i
          PROVE  r[k] # "start"
      <4>1. k + 1 \in DOMAIN q /\ j < k + 1 /\ k + 1 < i + 1
        BY <1>1, <2>1, <3>3
      <4>2. q[k + 1] # "start"
        BY <2>3, <4>1 DEF Covers
      <4>3. QED
        BY <4>2
    <3>4. QED
      BY <1>1, <3>1, <3>2, <3>3 DEF Covers
  <2>4. ASSUME \A k \in DOMAIN q : 1 < k /\ k < i + 1 => q[k] # "start"
        PROVE  \A k \in DOMAIN r : k < i => r[k] # "start"
    <3> SUFFICES ASSUME NEW k \in DOMAIN r, k < i PROVE r[k] # "start"
      OBVIOUS
    <3>1. k + 1 \in DOMAIN q /\ 1 < k + 1 /\ k + 1 < i + 1
      BY <1>1, <2>1
    <3>2. q[k + 1] # "start"
      BY <2>4, <3>1
    <3>3. QED
      BY <3>2
  <2>5. CASE \E j \in Nat : j # 1 /\ Covers(q, j, i + 1)
    BY <2>3, <2>5
  <2>6. CASE Covers(q, 1, i + 1)
    <3>1. q[1] = "shutdown" /\ \A k \in DOMAIN q : 1 < k /\ k < i + 1 => q[k] # "start"
      BY <2>6 DEF Covers
    <3>2. QED
      BY <2>4, <3>1
  <2>7. CASE active = FALSE /\ \A k \in DOMAIN q : k < i + 1 => q[k] # "start"
    <3>1. q[1] # "start"
      <4>1. 1 < i + 1
        BY <1>1, <1>2
      <4>2. QED
        BY <1>1, <2>7, <4>1
    <3>2. next = FALSE
      BY <2>7, <3>1
    <3>3. QED
      BY <2>4, <2>7, <3>2
  <2>8. QED
    BY <2>2, <2>5, <2>6, <2>7
<1>3. ASSUME NEW i \in DOMAIN r PROVE r[i] # "restarting"
  <2>1. i + 1 \in DOMAIN q /\ i + 1 # 1
    BY <1>1
  <2>2. q[i + 1] # "restarting"
    BY <2>1 DEF StartsFollow
  <2>3. QED
    BY <2>2
<1>4. QED
  BY <1>2, <1>3 DEF StartsFollow

LEMMA TimerPosted ==
  ASSUME TypeInv, TimerInv, NEW b \in BlocksOf("timer"), b \notin {"start", "restarting"},
         blocks'["timer"] = Append(blocks["timer"], b), isActive' = isActive,
         (alarm' <=> alarm) \/ b = "fire"
  PROVE  TimerInv'
<1> DEFINE q == blocks["timer"]
           r == blocks'["timer"]
<1>1. q \in Seq(BlocksOf("timer"))
  BY TypeParts, CountingTypes DEF BlocksOK
<1>2. /\ Len(q) \in Nat /\ DOMAIN q = 1..Len(q) /\ DOMAIN r = 1..(Len(q) + 1)
      /\ \A i \in DOMAIN q : r[i] = q[i]
      /\ r[Len(q) + 1] = b
  BY <1>1, PostedBlocks
<1>3. StartFollowsShutdown'
  BY <1>1, AppendedStarts DEF TimerInv, StartFollowsShutdown
<1>4. ActiveTimerTicks'
  <2>1. ActiveTimerTicks
    BY DEF TimerInv
  <2>2. CASE b = "fire"
    BY <1>2, <2>2 DEF ActiveTimerTicks
  <2>3. CASE b # "fire"
    BY <1>2, <2>1, <2>3 DEF ActiveTimerTicks
  <2>4. QED
    BY <2>2, <2>3
<1>5. QED
  BY <1>3, <1>4 DEF TimerInv


\* The timer runs a block of its executor.
LEMMA TimerBlockStep ==
  ASSUME TypeInv, TimerInv, TimerBlock
  PROVE  TimerInv'
<1> DEFINE q == blocks["timer"]
           t == Tail(blocks["timer"])
           r == blocks'["timer"]
<1>0. /\ q \in Seq(BlocksOf("timer")) /\ blocks = [s \in Types |-> blocks[s]]
      /\ isActive \in BOOLEAN /\ alarm \in BOOLEAN
  BY TypeParts, CountingTypes DEF BlocksOK, DataOK
<1>1. q # <<>>
  BY DEF TimerBlock, TimerRestart, TimerRestartEnds, TimerShutdown, TimerStart, TimerFired,
         TimerCancelled, IsHead
<1>2. /\ Head(q) = q[1]
      /\ t \in Seq(BlocksOf("timer")) /\ Len(t) \in Nat /\ Len(t) = Len(q) - 1
      /\ DOMAIN q = 1..(Len(t) + 1) /\ DOMAIN t = 1..Len(t)
      /\ \A i \in DOMAIN t : t[i] = q[i + 1] /\ i + 1 \in DOMAIN q
  BY <1>0, <1>1, WithoutHeadBlocks
<1>3. /\ NotFired(t) \in Seq(BlocksOf("timer")) /\ DOMAIN NotFired(t) = DOMAIN t
      /\ Len(NotFired(t)) = Len(t)
      /\ \A i \in DOMAIN t : NotFired(t)[i] = IF t[i] = "fire" THEN "void" ELSE t[i]
  BY <1>2, CancelledBlocks
<1>4. StartsFollow(q, isActive)
  BY DEF TimerInv, StartFollowsShutdown
<1>5. isActive => alarm \/ \E i \in DOMAIN q : q[i] \in {"fire", "restart", "restarting", "start"}
  BY DEF TimerInv, ActiveTimerTicks
<1>6. ASSUME NEW u \in {t, NotFired(t)}, NEW next, q[1] # "restarting",
             q[1] = "shutdown" => next = FALSE,
             q[1] \notin {"shutdown", "start"} => (isActive = FALSE => next = FALSE)
      PROVE  StartsFollow(u, next)
  <2>1. /\ u \in Seq(BlocksOf("timer")) /\ Len(u) = Len(q) - 1
        /\ \A i \in DOMAIN u : \A b \in {"start", "shutdown", "restarting"} : u[i] = b <=> q[i + 1] = b
    BY <1>2, <1>3, <1>6
  <2> HIDE DEF q
  <2>2. QED
    BY <1>0, <1>1, <1>4, <1>6, <2>1, PoppedStarts
<1>7. CASE TimerRestart
  <2>1. r = Append([q EXCEPT ![1] = "restarting"], "shutdown") /\ isActive' = isActive
    BY <1>0, <1>7, CountingTypes DEF TimerRestart, timer
  <2>2. /\ DOMAIN r = 1..(Len(q) + 1) /\ Len(r) = Len(q) + 1 /\ Len(q) \in Nat /\ Len(q) >= 1
        /\ DOMAIN q = 1..Len(q)
        /\ r[1] = "restarting" /\ r[Len(q) + 1] = "shutdown"
        /\ \A i \in DOMAIN q : i # 1 => r[i] = q[i]
    <3>1. "restarting" \in BlocksOf("timer") /\ "shutdown" \in BlocksOf("timer")
      BY DEF BlocksOf
    <3>2. QED
      BY <1>0, <1>1, <2>1, <3>1, RestartingBlocks
  <2>3. q[1] = "restart"
    BY <1>2, <1>7 DEF TimerRestart, IsHead
  <2>4. ASSUME NEW i \in DOMAIN r, r[i] = "start"
        PROVE  \/ \E j \in Nat : Covers(r, j, i)
               \/ isActive' = FALSE /\ \A k \in DOMAIN r : k < i => r[k] # "start"
    <3>1. i \in DOMAIN q /\ i # 1 /\ q[i] = "start" /\ i \in Nat
      BY <2>2, <2>4
    <3>2. \/ \E j \in Nat : Covers(q, j, i)
          \/ isActive = FALSE /\ \A k \in DOMAIN q : k < i => q[k] # "start"
      BY <1>4, <3>1 DEF StartsFollow
    <3>3. ASSUME NEW j \in Nat, Covers(q, j, i) PROVE Covers(r, j, i)
      <4>1. j \in DOMAIN q /\ j # 1 /\ j < i /\ q[j] = "shutdown"
        BY <2>3, <3>3 DEF Covers
      <4>2. j \in DOMAIN r /\ r[j] = "shutdown"
        BY <2>2, <4>1
      <4>3. ASSUME NEW k \in DOMAIN r, j < k, k < i PROVE r[k] # "start"
        <5>1. k \in DOMAIN q /\ k # 1
          BY <2>2, <3>1, <4>1, <4>3
        <5>2. q[k] # "start"
          BY <3>3, <4>3, <5>1 DEF Covers
        <5>3. QED
          BY <2>2, <5>1, <5>2
      <4>4. QED
        BY <4>1, <4>2, <4>3 DEF Covers
    <3>4. (\A k \in DOMAIN q : k < i => q[k] # "start") => \A k \in DOMAIN r : k < i => r[k] # "start"
      BY <2>2, <3>1
    <3>5. QED
      BY <2>1, <3>2, <3>3, <3>4
  <2>5. ASSUME NEW i \in DOMAIN r, r[i] = "restarting"
        PROVE  i = 1 /\ \E j \in Nat : Covers(r, j, Len(r) + 1)
    <3>1. i = 1
      <4>1. SUFFICES ASSUME i # 1 PROVE FALSE
        OBVIOUS
      <4>2. i \in DOMAIN q /\ q[i] = "restarting"
        BY <2>2, <2>5, <4>1
      <4>3. QED
        BY <1>4, <4>1, <4>2 DEF StartsFollow
    <3>2. Covers(r, Len(q) + 1, Len(r) + 1) /\ Len(q) + 1 \in Nat
      BY <2>2 DEF Covers
    <3>3. QED
      BY <3>1, <3>2
  <2>6. StartFollowsShutdown'
    BY <2>4, <2>5 DEF StartFollowsShutdown, StartsFollow
  <2>7. ActiveTimerTicks'
    BY <2>2 DEF ActiveTimerTicks
  <2>8. QED
    BY <2>6, <2>7 DEF TimerInv
<1>8. CASE TimerRestartEnds
  <2>1. r = Append(t, "start") /\ isActive' = isActive
    BY <1>0, <1>8, CountingTypes DEF TimerRestartEnds, timer
  <2>2. /\ DOMAIN r = 1..(Len(t) + 1)
        /\ \A i \in DOMAIN t : r[i] = t[i]
        /\ r[Len(t) + 1] = "start"
    BY <1>2, <2>1
  <2>3. q[1] = "restarting" /\ 1 \in DOMAIN q
    BY <1>2, <1>8 DEF TimerRestartEnds, IsHead
  <2>4. ASSUME NEW i \in 1..(Len(t) + 1), NEW j \in Nat, Covers(q, j, i + 1)
        PROVE  Covers(r, j - 1, i) /\ j - 1 \in Nat
    <3>1. j \in DOMAIN q /\ j < i + 1 /\ q[j] = "shutdown" /\ j # 1
      BY <2>3, <2>4 DEF Covers
    <3>2. j - 1 \in DOMAIN t /\ t[j - 1] = "shutdown" /\ j - 1 \in Nat /\ j - 1 < i
      BY <1>2, <3>1
    <3>3. ASSUME NEW k \in DOMAIN r, j - 1 < k, k < i PROVE r[k] # "start"
      <4>1. k \in DOMAIN t /\ k + 1 \in DOMAIN q /\ j < k + 1 /\ k + 1 < i + 1
        BY <1>2, <2>2, <3>1, <3>3
      <4>2. q[k + 1] # "start"
        BY <2>4, <4>1 DEF Covers
      <4>3. QED
        BY <1>2, <2>2, <4>1, <4>2
    <3>4. j - 1 \in DOMAIN r /\ r[j - 1] = "shutdown"
      BY <1>2, <2>2, <3>2
    <3>5. QED
      BY <3>2, <3>3, <3>4 DEF Covers
  <2>5. ASSUME NEW i \in DOMAIN r, r[i] = "start"
        PROVE  \/ \E j \in Nat : Covers(r, j, i)
               \/ isActive' = FALSE /\ \A k \in DOMAIN r : k < i => r[k] # "start"
    <3>1. CASE i = Len(t) + 1
      <4>1. PICK j \in Nat : Covers(q, j, Len(q) + 1)
        BY <1>4, <2>3 DEF StartsFollow
      <4>2. Len(q) + 1 = i + 1 /\ i \in 1..(Len(t) + 1)
        BY <1>0, <1>2, <2>2, <3>1
      <4>3. QED
        BY <2>4, <4>1, <4>2
    <3>2. CASE i \in DOMAIN t
      <4>1. i + 1 \in DOMAIN q /\ q[i + 1] = "start" /\ i \in Nat
        BY <1>2, <2>2, <2>5, <3>2
      <4>2. \/ \E j \in Nat : Covers(q, j, i + 1)
            \/ isActive = FALSE /\ \A k \in DOMAIN q : k < i + 1 => q[k] # "start"
        BY <1>4, <4>1 DEF StartsFollow
      <4>3. CASE \E j \in Nat : Covers(q, j, i + 1)
        BY <2>2, <2>4, <4>3
      <4>4. CASE isActive = FALSE /\ \A k \in DOMAIN q : k < i + 1 => q[k] # "start"
        <5>1. ASSUME NEW k \in DOMAIN r, k < i PROVE r[k] # "start"
          <6>1. k \in DOMAIN t /\ k + 1 \in DOMAIN q /\ k + 1 < i + 1
            BY <1>2, <2>2, <3>2, <5>1
          <6>2. QED
            BY <1>2, <2>2, <4>4, <6>1
        <5>2. QED
          BY <2>1, <4>4, <5>1
      <4>5. QED
        BY <4>2, <4>3, <4>4
    <3>3. i = Len(t) + 1 \/ i \in DOMAIN t
      BY <1>2, <2>2
    <3>4. QED
      BY <3>1, <3>2, <3>3, Zenon
  <2>6. ASSUME NEW i \in DOMAIN r PROVE r[i] # "restarting"
    <3>1. CASE i = Len(t) + 1
      BY <2>2, <3>1
    <3>2. CASE i \in DOMAIN t
      <4>1. i + 1 \in DOMAIN q /\ i + 1 # 1 /\ r[i] = q[i + 1]
        BY <1>2, <2>2, <3>2
      <4>2. QED
        BY <1>4, <4>1 DEF StartsFollow
    <3>3. QED
      BY <1>2, <2>2, <3>1, <3>2
  <2>7. StartFollowsShutdown'
    BY <2>5, <2>6 DEF StartFollowsShutdown, StartsFollow
  <2>8. ActiveTimerTicks'
    BY <1>2, <2>2 DEF ActiveTimerTicks
  <2>9. QED
    BY <2>7, <2>8 DEF TimerInv
<1>9. CASE TimerShutdown
  <2>1. r = NotFired(t) /\ isActive' = FALSE /\ q[1] = "shutdown"
    BY <1>0, <1>2, <1>9, CountingTypes DEF TimerShutdown, IsHead
  <2>2. StartFollowsShutdown'
    BY <1>6, <2>1 DEF StartFollowsShutdown
  <2>3. QED
    BY <2>1, <2>2 DEF TimerInv, ActiveTimerTicks
<1>10. CASE TimerStart
  <2>1. /\ r \in {t, NotFired(t)}
        /\ isActive' = (period > 0)
        /\ alarm' = (period > 0 /\ (alarm \/ ~isActive))
    BY <1>0, <1>10, CountingTypes DEF TimerStart
  <2>2. q[1] = "start" /\ 1 \in DOMAIN q
    BY <1>2, <1>10 DEF TimerStart, IsHead
  <2>3. ~isActive
    BY <1>2, <1>4, <2>2 DEF StartsFollow, Covers
  <2>4. ActiveTimerTicks'
    BY <2>1, <2>3 DEF ActiveTimerTicks
  <2>5. StartFollowsShutdown'
    BY <1>6, <2>1, <2>2 DEF StartFollowsShutdown
  <2>6. QED
    BY <2>4, <2>5 DEF TimerInv
<1>11. CASE TimerFired
  <2>1. r = Append(t, "restart") /\ isActive' = isActive /\ q[1] = "fire"
    BY <1>0, <1>2, <1>11, CountingTypes DEF TimerFired, timer, IsHead
  <2>2. DOMAIN r = 1..(Len(t) + 1) /\ r[Len(t) + 1] = "restart"
    BY <1>2, <2>1
  <2>3. StartsFollow(t, isActive)
    BY <1>6, <2>1
  <2>4. StartFollowsShutdown'
    <3>1. "restart" \in BlocksOf("timer")
      BY DEF BlocksOf
    <3>2. StartsFollow(Append(t, "restart"), isActive)
      BY <1>2, <2>3, <3>1, AppendedStarts
    <3>3. QED
      BY <2>1, <3>2 DEF StartFollowsShutdown
  <2>5. ActiveTimerTicks'
    BY <1>2, <2>2 DEF ActiveTimerTicks
  <2>6. QED
    BY <2>4, <2>5 DEF TimerInv
<1>12. CASE TimerCancelled
  <2>1. r = t /\ isActive' = isActive /\ alarm' = alarm
    BY <1>0, <1>12, CountingTypes DEF TimerCancelled, WithoutHead, timer
  <2>2. q[1] = "void"
    BY <1>2, <1>12 DEF TimerCancelled, IsHead
  <2>3. StartFollowsShutdown'
    BY <1>6, <2>1, <2>2 DEF StartFollowsShutdown
  <2>4. ActiveTimerTicks'
    <3>1. ASSUME NEW i \in DOMAIN q, q[i] \in {"fire", "restart", "restarting", "start"}
          PROVE  \E j \in DOMAIN t : t[j] \in {"fire", "restart", "restarting", "start"}
      <4>1. i # 1
        BY <2>2, <3>1
      <4>2. i - 1 \in DOMAIN t /\ t[i - 1] = q[i]
        BY <1>2, <4>1
      <4>3. QED
        BY <3>1, <4>2
    <3>2. QED
      BY <1>5, <2>1, <3>1 DEF ActiveTimerTicks
  <2>5. QED
    BY <2>3, <2>4 DEF TimerInv
<1>13. QED
  BY <1>7, <1>8, <1>9, <1>10, <1>11, <1>12 DEF TimerBlock

LEMMA TimerStep == ASSUME TypeInv, TimerInv, [Next]_vars PROVE TimerInv'
<1> USE CountingTypes
<1>0. BlocksOK
  BY TypeParts
<1>1. CASE blocks'["timer"] = blocks["timer"] /\ UNCHANGED timer
  BY <1>1 DEF TimerInv, StartFollowsShutdown, ActiveTimerTicks, timer
<1>2. CASE TimerBlock
  BY <1>2, TimerBlockStep
<1>3. CASE AlarmExpires
  <2>1. /\ blocks'["timer"] = Append(blocks["timer"], "fire") /\ isActive' = isActive
    BY <1>0, <1>3 DEF AlarmExpires, Posted, BlocksOK
  <2>2. "fire" \in BlocksOf("timer")
    BY DEF BlocksOf
  <2>3. QED
    BY <2>1, <2>2, TimerPosted
<1>4. CASE (RestartAll \/ ShutdownAll) /\ UNCHANGED timer
  <2>1. isActive' = isActive /\ alarm' = alarm
    BY <1>4 DEF timer
  <2>2. \/ blocks'["timer"] = blocks["timer"]
        \/ blocks'["timer"] = Append(blocks["timer"], "restart")
        \/ blocks'["timer"] = Append(blocks["timer"], "shutdown")
    BY <1>4 DEF RestartAll, ShutdownAll
  <2>3. CASE blocks'["timer"] = blocks["timer"]
    BY <2>1, <2>3 DEF TimerInv, StartFollowsShutdown, ActiveTimerTicks
  <2>4. "restart" \in BlocksOf("timer") /\ "shutdown" \in BlocksOf("timer")
    BY DEF BlocksOf
  <2>5. QED
    BY <2>1, <2>2, <2>3, <2>4, TimerPosted
<1>5. QED
  BY <1>1, <1>2, <1>3, <1>4, TimerFrame


LEMMA TimerHolds == Spec => []TimerInv
<1>1. Init => TimerInv
  BY TimerInit
<1>2. TypeInv /\ TimerInv /\ [Next]_vars => TimerInv'
  BY TimerStep
<1>3. QED
  BY <1>1, <1>2, TypeHolds, PTL DEF Spec

(* The timer is never set twice: whoever restarts it or shuts it down while the
   two halves of another restart wait on its executor, a -start that is about to
   run finds it not set, and its assertion holds. *)
THEOREM TimerIsSetOnce == Spec => []TimerSetOnce
<1>1. TypeInv /\ TimerInv => TimerSetOnce
  <2> SUFFICES ASSUME TypeInv, TimerInv, IsHead("timer", "start") PROVE ~isActive
    BY DEF TimerSetOnce
  <2>1. blocks["timer"] \in Seq(BlocksOf("timer")) /\ blocks["timer"] # <<>>
    BY TypeParts, CountingTypes DEF BlocksOK, IsHead
  <2>2. 1 \in DOMAIN blocks["timer"] /\ blocks["timer"][1] = "start"
    BY <2>1, WithoutHeadBlocks DEF IsHead
  <2>3. QED
    BY <2>1, <2>2, WithoutHeadBlocks DEF TimerInv, StartFollowsShutdown, StartsFollow, Covers
<1>2. QED
  BY <1>1, TypeHolds, TimerHolds, PTL

(* An active timer waits for its alarm, or has a block that sets it again: it
   cannot be left marked as active with nothing to fire it. *)
THEOREM ActiveTimerFires == Spec => []ActiveTimerTicks
<1>1. TimerInv => ActiveTimerTicks
  BY DEF TimerInv
<1>2. QED
  BY <1>1, TimerHolds, PTL

-----------------------------------------------------------------------------
(* The delayed dispatch of a counting strategy. *)

\* The steps that concern a counting strategy.
LEMMA CountingFrame ==
  ASSUME TypeInv, [Next]_vars, NEW s \in Counting
  PROVE  \/ CountingBlock(s) \/ DelayExpires(s)
         \/ /\ maxCount'[s] = maxCount[s] /\ currentCount'[s] = currentCount[s]
            /\ dispatchScheduled'[s] = dispatchScheduled[s] /\ delay'[s] = delay[s]
            /\ \/ blocks'[s] = blocks[s] /\ observers'[s] = observers[s]
               \/ blocks'[s] \in {blocks[s], Append(blocks[s], "start")} /\ observers' = Unsubscribed
               \/ NotifyEventAdded
<1> USE CountingTypes
<1>0. BlocksOK /\ DataOK
  BY TypeParts
<1>1. ASSUME NEW u \in Counting, CountingBlock(u) \/ DelayExpires(u), u # s
      PROVE  /\ maxCount'[s] = maxCount[s] /\ currentCount'[s] = currentCount[s]
             /\ dispatchScheduled'[s] = dispatchScheduled[s] /\ delay'[s] = delay[s]
             /\ blocks'[s] = blocks[s] /\ observers'[s] = observers[s]
  <2>1. CASE StartSubscribe(u)
    BY <1>0, <1>1, <2>1 DEF StartSubscribe, BlocksOK, DataOK
  <2>2. CASE StartRecount(u)
    BY <1>0, <1>1, <2>2 DEF StartRecount, WithoutHead, BlocksOK, DataOK
  <2>3. CASE EventAdded(u)
    BY <1>0, <1>1, <2>3 DEF EventAdded, WithoutHead, BlocksOK, DataOK
  <2>4. CASE DelayedDispatch(u)
    BY <1>0, <1>1, <2>4 DEF DelayedDispatch, WithoutHead, BlocksOK, DataOK
  <2>5. CASE DelayExpires(u)
    BY <1>0, <1>1, <2>5 DEF DelayExpires, Posted, BlocksOK, DataOK, counters
  <2>6. QED
    BY <1>1, <2>1, <2>2, <2>3, <2>4, <2>5 DEF CountingBlock
<1>2. CASE UNCHANGED <<counters, delay>>
  <2>1. /\ maxCount'[s] = maxCount[s] /\ currentCount'[s] = currentCount[s]
        /\ dispatchScheduled'[s] = dispatchScheduled[s] /\ delay'[s] = delay[s]
    BY <1>2 DEF counters
  <2>2. CASE RestartAll \/ ShutdownAll
    BY <2>1, <2>2 DEF RestartAll, ShutdownAll
  <2>3. CASE UNCHANGED <<blocks, observers>>
    BY <2>1, <2>3
  <2>4. CASE TimerBlock \/ AlarmExpires
    <3>1. blocks'[s] = blocks[s] /\ observers'[s] = observers[s]
      BY <1>0, <2>4 DEF TimerBlock, AlarmExpires, TimerRestart, TimerRestartEnds, TimerShutdown, TimerStart, TimerFired,
                        TimerCancelled, WithoutHead, Posted, BlocksOK
    <3>2. QED
      BY <2>1, <3>1
  <2>5. CASE NotifyEventAdded
    BY <2>1, <2>5
  <2>6. CASE \E u \in Counting : CountingBlock(u) \/ DelayExpires(u)
    BY <1>1, <2>6
  <2>7. QED
    BY <2>2, <2>3, <2>4, <2>5, <2>6
       DEF Next, Task, Restart, WantsReporting, Start, Shutdown, Configure, AddEvent, BeginRound,
           RoundEnds, RoundSucceeds, RoundFails, UpdateEnds, StartupSucceeds, StartupFails, vars
<1>3. CASE \E u \in Counting : CountingBlock(u) \/ DelayExpires(u)
  BY <1>1, <1>3
<1>4. QED
  BY <1>2, <1>3, Frame


\* The blocks of a notification.
LEMMA NotifiedBlocks ==
  ASSUME TypeInv, NotifyEventAdded, NEW s \in Counting
  PROVE  \E p \in Seq(BlocksOf(s)) :
           /\ blocks'[s] = blocks[s] \o p
           /\ Len(p) = observers[s]
           /\ \A i \in DOMAIN p : p[i] = Head(posting)
           /\ Head(posting) \in Kinds
<1> DEFINE p == [i \in 1..observers[s] |-> Head(posting)]
<1>0. DataOK
  BY TypeParts
<1>1. Head(posting) \in Kinds
  BY <1>0, WithoutHeadBlocks DEF NotifyEventAdded, DataOK
<1>2. Head(posting) \in BlocksOf(s)
  BY <1>1, CountingTypes DEF BlocksOf
<1>3. observers[s] \in Nat
  BY <1>0 DEF DataOK
<1>4. p \in Seq(BlocksOf(s)) /\ Len(p) = observers[s]
  BY <1>2, <1>3
<1>5. blocks'[s] = blocks[s] \o p
  BY CountingTypes DEF NotifyEventAdded
<1>6. \A i \in DOMAIN p : p[i] = Head(posting)
  OBVIOUS
<1>7. QED
  BY <1>1, <1>4, <1>5, <1>6

\* Where the dispatches are after blocks are appended, and after the head is gone.
LEMMA DispatchAppended ==
  ASSUME NEW s \in Counting, blocks[s] \in Seq(BlocksOf(s)), NEW p \in Seq(BlocksOf(s)),
         blocks'[s] = blocks[s] \o p, \A i \in DOMAIN p : p[i] # "dispatch"
  PROVE  \A i \in Nat : DispatchAt(s, i)' <=> DispatchAt(s, i)
<1> DEFINE q == blocks[s]
           r == blocks'[s]
<1>1. /\ Len(q) \in Nat /\ Len(p) \in Nat /\ DOMAIN q = 1..Len(q) /\ DOMAIN p = 1..Len(p)
      /\ DOMAIN r = 1..(Len(q) + Len(p))
      /\ \A i \in 1..Len(q) : r[i] = q[i]
      /\ \A i \in (Len(q) + 1)..(Len(q) + Len(p)) : r[i] = p[i - Len(q)]
  OBVIOUS
<1>2. ASSUME NEW i \in Nat PROVE DispatchAt(s, i)' <=> DispatchAt(s, i)
  <2>1. CASE i \in 1..Len(q)
    BY <1>1, <2>1 DEF DispatchAt
  <2>2. CASE i \in (Len(q) + 1)..(Len(q) + Len(p))
    <3>1. i - Len(q) \in DOMAIN p
      BY <1>1, <2>2
    <3>2. p[i - Len(q)] # "dispatch"
      BY <3>1
    <3>3. r[i] # "dispatch"
      BY <1>1, <2>2, <3>2
    <3>4. i \notin DOMAIN q
      BY <1>1, <2>2
    <3>5. QED
      BY <3>3, <3>4 DEF DispatchAt
  <2>3. CASE i \notin 1..(Len(q) + Len(p))
    BY <1>1, <2>3 DEF DispatchAt
  <2>4. QED
    BY <1>1, <2>1, <2>2, <2>3
<1>3. QED
  BY <1>2

LEMMA DispatchBehindHead ==
  ASSUME NEW s \in Counting, blocks[s] \in Seq(BlocksOf(s)), blocks[s] # <<>>,
         blocks'[s] = Tail(blocks[s])
  PROVE  /\ \A i \in Nat : DispatchAt(s, i)' <=> i # 0 /\ DispatchAt(s, i + 1)
         /\ DispatchAt(s, 1) <=> Head(blocks[s]) = "dispatch"
         /\ ~DispatchAt(s, 0)
<1> DEFINE q == blocks[s]
           r == blocks'[s]
<1>1. /\ Head(q) = q[1] /\ Len(q) \in Nat /\ DOMAIN q = 1..Len(q)
      /\ DOMAIN r = 1..(Len(q) - 1) /\ 1 \in DOMAIN q
      /\ \A i \in DOMAIN r : r[i] = q[i + 1]
  BY WithoutHeadBlocks
<1>2. QED
  BY <1>1 DEF DispatchAt

\* The strategy keeps one dispatch when none comes and none goes.
LEMMA SameDispatch ==
  ASSUME NEW s \in Counting, OneDispatch(s),
         \A i \in Nat : DispatchAt(s, i)' <=> DispatchAt(s, i),
         delay'[s] = delay[s], dispatchScheduled'[s] = dispatchScheduled[s]
  PROVE  OneDispatch(s)'
  BY DEF OneDispatch

LEMMA HeadNoDispatch ==
  ASSUME NEW s \in Counting, OneDispatch(s), blocks[s] \in Seq(BlocksOf(s)), blocks[s] # <<>>,
         Head(blocks[s]) # "dispatch", blocks'[s] = Tail(blocks[s]),
         delay'[s] = delay[s], dispatchScheduled'[s] = dispatchScheduled[s]
  PROVE  OneDispatch(s)'
<1>1. \A i \in Nat : DispatchAt(s, i)' <=> i # 0 /\ DispatchAt(s, i + 1)
  BY DispatchBehindHead
<1>2. ~DispatchAt(s, 0) /\ ~DispatchAt(s, 1)
  BY DispatchBehindHead
<1>3. (\E i \in Nat : DispatchAt(s, i)) => \E i \in Nat : DispatchAt(s, i)'
  <2>1. ASSUME NEW i \in Nat, DispatchAt(s, i) PROVE \E j \in Nat : DispatchAt(s, j)'
    <3>1. i # 0 /\ i # 1
      BY <1>2, <2>1
    <3>2. i - 1 \in Nat /\ i - 1 # 0 /\ (i - 1) + 1 = i
      BY <3>1
    <3>3. DispatchAt(s, i - 1)'
      <4> DEFINE j == i - 1
      <4>1. j \in Nat /\ j # 0 /\ j + 1 = i
        BY <3>2
      <4>2. DispatchAt(s, j + 1)
        BY <2>1, <4>1
      <4> HIDE DEF j
      <4>3. DispatchAt(s, j)'
        BY <1>1, <4>1, <4>2
      <4>4. QED
        BY <4>3 DEF j
    <3>4. QED
      BY <3>2, <3>3
  <2>2. QED
    BY <2>1
<1>4. (\E i \in Nat : DispatchAt(s, i)') => \E i \in Nat : DispatchAt(s, i)
  <2>1. ASSUME NEW i \in Nat, DispatchAt(s, i)' PROVE \E j \in Nat : DispatchAt(s, j)
    <3>1. DispatchAt(s, i + 1) /\ i + 1 \in Nat
      BY <1>1, <2>1
    <3>2. QED
      BY <3>1
  <2>2. QED
    BY <2>1
<1>5. delay[s] => \A i \in Nat : ~DispatchAt(s, i)'
  BY <1>4 DEF OneDispatch
<1>6. \A i, j \in Nat : DispatchAt(s, i)' /\ DispatchAt(s, j)' => i = j
  <2>1. ASSUME NEW i \in Nat, NEW j \in Nat, DispatchAt(s, i)', DispatchAt(s, j)' PROVE i = j
    <3>1. DispatchAt(s, i + 1) /\ DispatchAt(s, j + 1) /\ i + 1 \in Nat /\ j + 1 \in Nat
      BY <1>1, <2>1
    <3>2. i + 1 = j + 1
      BY <3>1 DEF OneDispatch
    <3>3. QED
      BY <3>2
  <2>2. QED
    BY <2>1
<1>7. QED
  BY <1>3, <1>4, <1>5, <1>6 DEF OneDispatch


LEMMA DelayInit == Init => DelayInv
  BY CountingTypes DEF Init, DelayInv, OneDispatch, DispatchAt

LEMMA DelayStep == ASSUME TypeInv, DelayInv, [Next]_vars PROVE DelayInv'
<1> USE CountingTypes
<1>0. BlocksOK /\ DataOK
  BY TypeParts
<1> SUFFICES ASSUME NEW s \in Counting PROVE OneDispatch(s)'
  BY DEF DelayInv
<1>1. OneDispatch(s) /\ blocks[s] \in Seq(BlocksOf(s))
  BY <1>0 DEF DelayInv, BlocksOK
<1>2. ASSUME WithoutHead(s) = blocks', IsHead(s, Head(blocks[s]))
      PROVE  blocks'[s] = Tail(blocks[s]) /\ blocks[s] # <<>>
  BY <1>0, <1>2 DEF WithoutHead, IsHead, BlocksOK
<1>3. CASE StartSubscribe(s)
  <2>1. /\ blocks[s] # <<>> /\ Head(blocks[s]) = "start"
        /\ blocks'[s] = <<"recount">> \o Tail(blocks[s])
        /\ delay'[s] = delay[s] /\ dispatchScheduled'[s] = dispatchScheduled[s]
    BY <1>0, <1>3 DEF StartSubscribe, IsHead, BlocksOK
  <2>2. /\ Head(blocks[s]) = blocks[s][1] /\ Len(blocks[s]) \in Nat /\ Len(blocks[s]) >= 1
        /\ DOMAIN blocks[s] = 1..Len(blocks[s]) /\ Tail(blocks[s]) \in Seq(BlocksOf(s))
        /\ Len(Tail(blocks[s])) = Len(blocks[s]) - 1
        /\ \A i \in 1..(Len(blocks[s]) - 1) : Tail(blocks[s])[i] = blocks[s][i + 1]
    BY <1>1, <2>1, WithoutHeadBlocks
  <2>3. /\ DOMAIN blocks'[s] = 1..Len(blocks[s]) /\ blocks'[s][1] = "recount"
        /\ \A i \in 2..Len(blocks[s]) : blocks'[s][i] = blocks[s][i]
    <3> DEFINE t == Tail(blocks[s])
               r == <<"recount">> \o t
    <3>1. DOMAIN r = 1..(Len(t) + 1) /\ r[1] = "recount" /\ \A i \in 2..(Len(t) + 1) : r[i] = t[i - 1]
      BY <2>2
    <3>2. ASSUME NEW i \in 2..Len(blocks[s]) PROVE r[i] = blocks[s][i]
      <4>1. i - 1 \in 1..(Len(blocks[s]) - 1) /\ (i - 1) + 1 = i
        BY <2>2
      <4>2. t[i - 1] = blocks[s][i]
        BY <2>2, <4>1
      <4>3. QED
        BY <2>2, <3>1, <4>2
    <3>3. QED
      BY <2>1, <2>2, <3>1, <3>2
  <2>4. ASSUME NEW i \in Nat PROVE DispatchAt(s, i)' <=> DispatchAt(s, i)
    <3>1. CASE i = 1
      BY <2>1, <2>2, <2>3, <3>1 DEF DispatchAt
    <3>2. CASE i \in 2..Len(blocks[s])
      BY <2>2, <2>3, <3>2 DEF DispatchAt
    <3>3. CASE i \notin 1..Len(blocks[s])
      BY <2>2, <2>3, <3>3 DEF DispatchAt
    <3>4. QED
      BY <2>2, <3>1, <3>2, <3>3
  <2>5. QED
    BY <1>1, <2>1, <2>4, SameDispatch
<1>4. CASE StartRecount(s)
  <2>1. /\ Head(blocks[s]) = "recount" /\ blocks[s] # <<>> /\ blocks'[s] = Tail(blocks[s])
        /\ delay'[s] = delay[s] /\ dispatchScheduled'[s] = dispatchScheduled[s]
    BY <1>2, <1>4 DEF StartRecount, IsHead
  <2>2. QED
    BY <1>1, <2>1, HeadNoDispatch
<1>5. CASE EventAdded(s)
  <2>1. PICK k \in Kinds :
          /\ IsHead(s, k)
          /\ IF k \in Counts(s)
             THEN /\ dispatchScheduled' = [dispatchScheduled EXCEPT ![s] = TRUE]
                  /\ delay' = [delay EXCEPT ![s] = @ \/ ~dispatchScheduled[s]]
             ELSE UNCHANGED <<dispatchScheduled, delay>>
    BY <1>5, Zenon DEF EventAdded
  <2>2. /\ Head(blocks[s]) # "dispatch" /\ blocks[s] # <<>> /\ blocks'[s] = Tail(blocks[s])
    BY <1>2, <1>5, <2>1, DispatchStrategiesAssumption DEF DispatchStrategiesAssumption, EventAdded, IsHead
  <2>3. CASE k \notin Counts(s)
    BY <1>1, <2>1, <2>2, <2>3, HeadNoDispatch
  <2>4. CASE k \in Counts(s) /\ dispatchScheduled[s]
    <3>1. dispatchScheduled'[s] = dispatchScheduled[s] /\ delay'[s] = delay[s]
      BY <1>0, <2>1, <2>4, Zenon DEF DataOK
    <3>2. QED
      BY <1>1, <2>2, <3>1, HeadNoDispatch
  <2>5. CASE k \in Counts(s) /\ ~dispatchScheduled[s]
    <3>1. dispatchScheduled'[s] /\ delay'[s]
      BY <1>0, <2>1, <2>5, Zenon DEF DataOK
    <3>2. \A i \in Nat : ~DispatchAt(s, i)
      BY <1>1, <2>5 DEF OneDispatch
    <3>3. \A i \in Nat : ~DispatchAt(s, i)'
      <4>1. \A i \in Nat : DispatchAt(s, i)' <=> i # 0 /\ DispatchAt(s, i + 1)
        BY <1>1, <2>2, DispatchBehindHead
      <4>2. ASSUME NEW i \in Nat PROVE ~DispatchAt(s, i)'
        <5>1. i + 1 \in Nat
          OBVIOUS
        <5>2. ~DispatchAt(s, i + 1)
          BY <3>2, <5>1
        <5>3. QED
          BY <4>1, <5>2
      <4>3. QED
        BY <4>2
    <3>4. QED
      BY <3>1, <3>3 DEF OneDispatch
  <2>6. QED
    BY <2>3, <2>4, <2>5
<1>6. CASE DelayedDispatch(s)
  <2>1. /\ Head(blocks[s]) = "dispatch" /\ blocks[s] # <<>> /\ blocks'[s] = Tail(blocks[s])
        /\ delay'[s] = delay[s] /\ ~dispatchScheduled'[s]
    BY <1>0, <1>2, <1>6 DEF DelayedDispatch, IsHead, DataOK
  <2>2. /\ \A i \in Nat : DispatchAt(s, i)' <=> i # 0 /\ DispatchAt(s, i + 1)
        /\ DispatchAt(s, 1)
    BY <1>1, <2>1, DispatchBehindHead
  <2>3. ~delay[s]
    BY <1>1, <2>2 DEF OneDispatch
  <2>4. ASSUME NEW i \in Nat PROVE ~DispatchAt(s, i)'
    <3>1. SUFFICES ASSUME i # 0, DispatchAt(s, i + 1) PROVE FALSE
      BY <2>2
    <3>2. i + 1 \in Nat /\ 1 \in Nat /\ i + 1 # 1
      BY <3>1
    <3>3. i + 1 = 1
      BY <1>1, <2>2, <3>1, <3>2 DEF OneDispatch
    <3>4. QED
      BY <3>2, <3>3
  <2>5. QED
    BY <2>1, <2>3, <2>4 DEF OneDispatch
<1>7. CASE DelayExpires(s)
  <2>1. /\ delay[s] /\ ~delay'[s] /\ dispatchScheduled'[s] = dispatchScheduled[s]
        /\ blocks'[s] = Append(blocks[s], "dispatch")
    BY <1>0, <1>7 DEF DelayExpires, Posted, BlocksOK, DataOK, counters
  <2>2. "dispatch" \in BlocksOf(s)
    BY DEF BlocksOf
  <2>3. /\ Len(blocks[s]) \in Nat /\ DOMAIN blocks[s] = 1..Len(blocks[s])
        /\ DOMAIN blocks'[s] = 1..(Len(blocks[s]) + 1)
        /\ \A i \in DOMAIN blocks[s] : blocks'[s][i] = blocks[s][i]
        /\ blocks'[s][Len(blocks[s]) + 1] = "dispatch"
    BY <1>1, <2>1, <2>2, PostedBlocks
  <2>4. \A i \in Nat : ~DispatchAt(s, i)
    BY <1>1, <2>1 DEF OneDispatch
  <2>5. ASSUME NEW i \in Nat PROVE DispatchAt(s, i)' <=> i = Len(blocks[s]) + 1
    BY <2>3, <2>4 DEF DispatchAt
  <2>6. Len(blocks[s]) + 1 \in Nat
    BY <2>3
  <2>7. dispatchScheduled[s]
    BY <1>1, <2>1 DEF OneDispatch
  <2>8. QED
    BY <2>1, <2>5, <2>6, <2>7 DEF OneDispatch
<1>8. CASE /\ delay'[s] = delay[s] /\ dispatchScheduled'[s] = dispatchScheduled[s]
           /\ \E p \in Seq(BlocksOf(s)) :
                blocks'[s] = blocks[s] \o p /\ \A i \in DOMAIN p : p[i] # "dispatch"
  <2>1. \A i \in Nat : DispatchAt(s, i)' <=> DispatchAt(s, i)
    BY <1>1, <1>8, DispatchAppended
  <2>2. QED
    BY <1>1, <1>8, <2>1, SameDispatch
<1>9. CASE /\ delay'[s] = delay[s] /\ dispatchScheduled'[s] = dispatchScheduled[s]
           /\ \/ blocks'[s] \in {blocks[s], Append(blocks[s], "start")}
              \/ NotifyEventAdded
  <2>1. CASE blocks'[s] = blocks[s]
    BY <1>1, <1>9, <2>1, SameDispatch DEF DispatchAt
  <2>2. CASE blocks'[s] = Append(blocks[s], "start")
    <3>1. "start" \in BlocksOf(s)
      BY DEF BlocksOf
    <3>2. <<"start">> \in Seq(BlocksOf(s)) /\ blocks'[s] = blocks[s] \o <<"start">>
      BY <1>1, <2>2, <3>1
    <3>3. \A i \in DOMAIN <<"start">> : <<"start">>[i] # "dispatch"
      OBVIOUS
    <3>4. QED
      BY <1>8, <1>9, <3>2, <3>3
  <2>3. CASE NotifyEventAdded
    <3>1. PICK p \in Seq(BlocksOf(s)) :
            /\ blocks'[s] = blocks[s] \o p
            /\ \A i \in DOMAIN p : p[i] = Head(posting)
            /\ Head(posting) \in Kinds
      BY <2>3, NotifiedBlocks
    <3>2. \A i \in DOMAIN p : p[i] # "dispatch"
      BY <3>1, DispatchStrategiesAssumption DEF DispatchStrategiesAssumption
    <3>3. QED
      BY <1>8, <1>9, <3>1, <3>2
  <2>4. QED
    BY <1>9, <2>1, <2>2, <2>3
<1>10. QED
  BY <1>3, <1>4, <1>5, <1>6, <1>7, <1>9, CountingFrame DEF CountingBlock

LEMMA DelayHolds == Spec => []DelayInv
<1>1. Init => DelayInv
  BY DelayInit
<1>2. TypeInv /\ DelayInv /\ [Next]_vars => DelayInv'
  BY DelayStep
<1>3. QED
  BY <1>1, <1>2, TypeHolds, PTL DEF Spec

(* The flag dispatchScheduled of a counting strategy is set for exactly as long
   as its delayed dispatch runs its delay or waits on the executor: the strategy
   does not fall silent, and has not two of them. *)
THEOREM ScheduledComes == Spec => []ScheduledIsOnItsWay
<1>1. TypeInv /\ DelayInv => ScheduledIsOnItsWay
  <2> SUFFICES ASSUME TypeInv, DelayInv, NEW s \in Counting
               PROVE  dispatchScheduled[s] <=>
                        delay[s] \/ \E i \in DOMAIN blocks[s] : blocks[s][i] = "dispatch"
    BY DEF ScheduledIsOnItsWay
  <2>1. blocks[s] \in Seq(BlocksOf(s))
    BY TypeParts, CountingTypes DEF BlocksOK
  <2>2. \A i \in DOMAIN blocks[s] : i \in Nat
    BY <2>1
  <2>3. dispatchScheduled[s] <=> delay[s] \/ \E i \in Nat : DispatchAt(s, i)
    BY DEF DelayInv, OneDispatch
  <2>4. QED
    BY <2>2, <2>3 DEF DispatchAt
<1>2. QED
  BY <1>1, TypeHolds, DelayHolds, PTL


-----------------------------------------------------------------------------
(* The count of a counting strategy. *)

Counted(q, s) == {i \in DOMAIN q : q[i] \in Counts(s)}

LEMMA CountedFinite ==
  ASSUME NEW S, NEW q \in Seq(S), NEW s
  PROVE  /\ IsFiniteSet(Counted(q, s)) /\ Coming(q, s) = Cardinality(Counted(q, s))
         /\ Coming(q, s) \in Nat
<1>1. IsFiniteSet(DOMAIN q)
  <2>1. DOMAIN q = 1..Len(q) /\ Len(q) \in Nat
    OBVIOUS
  <2>2. QED
    BY <2>1, FS_Interval
<1>2. IsFiniteSet(Counted(q, s))
  BY <1>1, FS_Subset DEF Counted
<1>3. QED
  BY <1>2, CountInNat DEF Coming, Counted

\* Blocks appended to a queue do not lessen what comes in it.
LEMMA ComingAppended ==
  ASSUME NEW S, NEW q \in Seq(S), NEW p \in Seq(S), NEW s
  PROVE  /\ Coming(q \o p, s) >= Coming(q, s)
         /\ \A i \in DOMAIN p : p[i] \in Counts(s) => Coming(q \o p, s) >= Coming(q, s) + 1
<1> DEFINE r == q \o p
<1>1. /\ Len(q) \in Nat /\ Len(p) \in Nat /\ DOMAIN q = 1..Len(q) /\ DOMAIN p = 1..Len(p)
      /\ r \in Seq(S) /\ DOMAIN r = 1..(Len(q) + Len(p))
      /\ \A i \in 1..Len(q) : r[i] = q[i]
      /\ \A i \in 1..Len(p) : r[Len(q) + i] = p[i]
  OBVIOUS
<1> HIDE DEF r
<1>2. Counted(q, s) \subseteq Counted(r, s)
  BY <1>1 DEF Counted
<1>3. /\ IsFiniteSet(Counted(q, s)) /\ Coming(q, s) = Cardinality(Counted(q, s))
      /\ IsFiniteSet(Counted(r, s)) /\ Coming(r, s) = Cardinality(Counted(r, s))
      /\ Coming(q, s) \in Nat /\ Coming(r, s) \in Nat
  BY <1>1, CountedFinite
<1>4. Coming(r, s) >= Coming(q, s)
  <2>1. Cardinality(Counted(q, s)) <= Cardinality(Counted(r, s))
    BY <1>2, <1>3, FS_Subset
  <2>2. QED
    BY <1>3, <2>1
<1>5. ASSUME NEW i \in DOMAIN p, p[i] \in Counts(s)
      PROVE  Coming(r, s) >= Coming(q, s) + 1
  <2> DEFINE k == Len(q) + i
  <2>1. k \in Counted(r, s) /\ k \notin Counted(q, s)
    BY <1>1, <1>5 DEF Counted
  <2> HIDE DEF k
  <2>2. Counted(q, s) \cup {k} \subseteq Counted(r, s)
    BY <1>2, <2>1
  <2>3. Cardinality(Counted(q, s) \cup {k}) = Cardinality(Counted(q, s)) + 1
    BY <1>3, <2>1, FS_AddElement
  <2>4. Cardinality(Counted(q, s) \cup {k}) <= Cardinality(Counted(r, s))
    BY <1>3, <2>2, FS_Subset
  <2>5. QED
    BY <1>3, <2>3, <2>4
<1>6. QED
  BY <1>4, <1>5 DEF r

\* Nothing but the head is lost with the head.
LEMMA ComingBehindHead ==
  ASSUME NEW S, NEW q \in Seq(S), q # <<>>, NEW s
  PROVE  /\ Coming(q, s) <= Coming(Tail(q), s) + 1
         /\ Head(q) \notin Counts(s) => Coming(q, s) <= Coming(Tail(q), s)
<1> DEFINE t == Tail(q)
           A == Counted(q, s) \ {1}
           B == Counted(t, s)
           f == [i \in A |-> i - 1]
<1>1. /\ Head(q) = q[1] /\ t \in Seq(S) /\ Len(q) \in Nat
      /\ DOMAIN q = 1..Len(q) /\ DOMAIN t = 1..(Len(q) - 1)
      /\ \A i \in DOMAIN t : t[i] = q[i + 1]
  BY WithoutHeadBlocks
<1>2. /\ IsFiniteSet(Counted(q, s)) /\ Coming(q, s) = Cardinality(Counted(q, s))
      /\ IsFiniteSet(B) /\ Coming(t, s) = Cardinality(B)
      /\ Coming(q, s) \in Nat /\ Coming(t, s) \in Nat
  BY <1>1, CountedFinite
<1>3. \A i \in A : i \in Int /\ i - 1 \in B
  <2>1. ASSUME NEW i \in A PROVE i \in Int /\ i - 1 \in B
    <3>1. i \in 2..Len(q) /\ q[i] \in Counts(s)
      BY <1>1 DEF Counted
    <3>2. i - 1 \in DOMAIN t /\ (i - 1) + 1 = i
      BY <1>1, <3>1
    <3>3. t[i - 1] = q[i]
      BY <1>1, <3>2
    <3>4. QED
      BY <3>1, <3>2, <3>3 DEF Counted
  <2>2. QED
    BY <2>1
<1>4. f \in Injection(A, B)
  <2>1. f \in [A -> B]
    BY <1>3
  <2>2. \A i, j \in A : f[i] = f[j] => i = j
    BY <1>3
  <2> HIDE DEF f, A, B
  <2>3. QED
    BY <2>1, <2>2, Fun_IsInj
<1>5. Cardinality(A) <= Cardinality(B)
  <2> HIDE DEF f, A, B
  <2>1. QED
    BY <1>2, <1>4, FS_Injection
<1>6. Cardinality(A) = IF 1 \in Counted(q, s) THEN Cardinality(Counted(q, s)) - 1
                                              ELSE Cardinality(Counted(q, s))
  BY <1>2, FS_RemoveElement
<1>7. Head(q) \notin Counts(s) => 1 \notin Counted(q, s)
  BY <1>1 DEF Counted
<1>8. QED
  <2> DEFINE a == Cardinality(A)
             c == Cardinality(Counted(q, s))
             b == Cardinality(B)
  <2>1. a <= b /\ (a = c - 1 \/ a = c) /\ (Head(q) \notin Counts(s) => a = c)
    BY <1>5, <1>6, <1>7
  <2>2. Coming(q, s) = c /\ Coming(t, s) = b /\ c \in Nat /\ b \in Nat
    BY <1>2
  <2> HIDE DEF a, b, c, t
  <2>3. /\ Coming(q, s) <= Coming(t, s) + 1
        /\ Head(q) \notin Counts(s) => Coming(q, s) <= Coming(t, s)
    BY <2>1, <2>2
  <2>4. QED
    BY <2>3 DEF t


\* A new head hides nothing.
LEMMA ComingWithHead ==
  ASSUME NEW S, NEW q \in Seq(S), NEW b \in S, NEW s
  PROVE  Coming(q, s) <= Coming(<<b>> \o q, s)
<1> DEFINE r == <<b>> \o q
           f == [i \in Counted(q, s) |-> i + 1]
<1>1. /\ DOMAIN q = 1..Len(q) /\ Len(q) \in Nat /\ r \in Seq(S) /\ DOMAIN r = 1..(Len(q) + 1)
      /\ \A i \in 1..Len(q) : r[i + 1] = q[i]
  OBVIOUS
<1> HIDE DEF r
<1>2. \A i \in Counted(q, s) : i \in Int /\ i + 1 \in Counted(r, s)
  BY <1>1 DEF Counted
<1>3. f \in Injection(Counted(q, s), Counted(r, s))
  <2>1. f \in [Counted(q, s) -> Counted(r, s)]
    BY <1>2
  <2>2. \A i, j \in Counted(q, s) : f[i] = f[j] => i = j
    BY <1>2
  <2> HIDE DEF f
  <2>3. QED
    BY <2>1, <2>2, Fun_IsInj
<1>4. /\ IsFiniteSet(Counted(r, s)) /\ Coming(r, s) = Cardinality(Counted(r, s))
      /\ Coming(q, s) = Cardinality(Counted(q, s))
  BY <1>1, CountedFinite
<1> HIDE DEF f
<1>5. Coming(q, s) <= Coming(r, s)
  BY <1>3, <1>4, FS_Injection
<1>6. QED
  BY <1>5 DEF r

LEMMA CountingNotBlocks ==
  ASSUME NEW s
  PROVE  /\ Counts(s) \subseteq Kinds \cap {"urgent", "ordinary"}
         /\ \A b \in {"start", "recount", "dispatch", "cleanup"} : b \notin Counts(s)
  BY DispatchStrategiesAssumption DEF DispatchStrategiesAssumption, Counts

\* A notification on its way stands for one event.
LEMMA ComingPosted ==
  ASSUME NEW s
  PROVE  /\ Coming(<<>>, s) = 0
         /\ \A k \in Kinds : Coming(<<k>>, s) = IF k \in Counts(s) THEN 1 ELSE 0
<1>1. Coming(<<>>, s) = 0
  <2>1. {i \in DOMAIN <<>> : <<>>[i] \in Counts(s)} = {}
    OBVIOUS
  <2>2. QED
    BY <2>1, FS_EmptySet DEF Coming
<1>2. ASSUME NEW k \in Kinds PROVE Coming(<<k>>, s) = IF k \in Counts(s) THEN 1 ELSE 0
  <2>1. DOMAIN <<k>> = {1} /\ <<k>>[1] = k
    OBVIOUS
  <2>2. CASE k \in Counts(s)
    <3>1. {i \in DOMAIN <<k>> : <<k>>[i] \in Counts(s)} = {1}
      BY <2>1, <2>2
    <3>2. QED
      BY <2>2, <3>1, FS_Singleton DEF Coming
  <2>3. CASE k \notin Counts(s)
    <3>1. {i \in DOMAIN <<k>> : <<k>>[i] \in Counts(s)} = {}
      BY <2>1, <2>3
    <3>2. QED
      BY <2>3, <3>1, FS_EmptySet DEF Coming
  <2>4. QED
    BY <2>2, <2>3
<1>3. QED
  BY <1>1, <1>2

LEMMA CountTypes ==
  ASSUME TypeInv, NEW s \in Counting
  PROVE  /\ EventsCount(s) \in Nat /\ currentCount[s] \in Nat /\ maxCount[s] \in Nat
         /\ observers[s] \in Nat
         /\ blocks[s] \in Seq(BlocksOf(s)) /\ posting \in Seq(Kinds)
         /\ Coming(blocks[s], s) \in Nat /\ Coming(posting, s) \in Nat
<1>1. DataOK /\ BlocksOK
  BY TypeParts
<1>2. events \in [Kinds -> Nat]
  BY <1>1 DEF DataOK
<1>3. EventsCount(s) \in Nat
  BY <1>2, EventsCountInNat
<1>4. blocks[s] \in Seq(BlocksOf(s)) /\ posting \in Seq(Kinds)
  BY <1>1, CountingTypes DEF BlocksOK, DataOK
<1>5. Coming(blocks[s], s) \in Nat /\ Coming(posting, s) \in Nat
  BY <1>4, CountInNat
<1>6. QED
  BY <1>1, <1>3, <1>4, <1>5 DEF DataOK

\* An event is stored together with the notification that it posts.
LEMMA EventsArePosted ==
  ASSUME TypeInv, [Next]_vars, ~NotifyEventAdded, NEW s \in Counting
  PROVE  EventsCount(s)' + Coming(posting, s) <= EventsCount(s) + Coming(posting', s)
<1>0. DataOK /\ EventsCount(s) \in Nat /\ Coming(posting, s) \in Nat
  BY TypeParts, CountTypes
<1>1. CASE UNCHANGED <<events, posting, added>>
  BY <1>0, <1>1 DEF EventsCount
<1>2. CASE AddEvent
  <2>1. PICK k \in Kinds : events' = [events EXCEPT ![k] = @ + 1] /\ posting' = <<k>>
    BY <1>2 DEF AddEvent
  <2>2. posting = <<>>
    BY <1>2 DEF AddEvent
  <2>3. EventsCount(s)' = EventsCount(s) + (IF k \in Counts(s) THEN 1 ELSE 0)
    <3>1. Counts(s) \subseteq Kinds \cap {"urgent", "ordinary"}
      BY CountingNotBlocks
    <3>2. events \in [Kinds -> Nat]
      BY <1>0 DEF DataOK
    <3>3. \A j \in Kinds : events'[j] = events[j] + (IF j = k THEN 1 ELSE 0)
      BY <2>1, <3>2
    <3>4. QED
      BY <3>1, <3>2, <3>3 DEF EventsCount
  <2>4. Coming(posting, s) = 0 /\ Coming(posting', s) = IF k \in Counts(s) THEN 1 ELSE 0
    BY <2>1, <2>2, ComingPosted
  <2>5. QED
    BY <1>0, <2>3, <2>4
<1>3. CASE RoundEnds
  <2>1. PurgeSome /\ posting' = posting
    BY <1>3 DEF RoundEnds, RoundSucceeds, RoundFails
  <2>2. /\ events' \in [Kinds -> Nat] /\ events \in [Kinds -> Nat]
        /\ \A k \in Kinds : events'[k] <= events[k]
    BY <1>0, <2>1, PurgeType DEF DataOK
  <2>3. EventsCount(s)' <= EventsCount(s)
    <3>1. Counts(s) \subseteq Kinds
      BY CountingNotBlocks
    <3>2. QED
      BY <2>2, <3>1 DEF EventsCount
  <2>4. EventsCount(s)' \in Nat
    <3>1. Counts(s) \subseteq Kinds
      BY CountingNotBlocks
    <3>2. QED
      BY <2>2, <3>1 DEF EventsCount
  <2>5. QED
    BY <1>0, <2>1, <2>3, <2>4
<1>4. QED
  BY <1>1, <1>2, <1>3, Frame

\* A strategy whose count and queue do not lose an event stays covered.
LEMMA StaysCovered ==
  ASSUME TypeInv, [Next]_vars, ~NotifyEventAdded, NEW s \in Counting, Covered(s),
         currentCount[s] + Coming(blocks[s], s) <= currentCount'[s] + Coming(blocks'[s], s)
  PROVE  Covered(s)'
<1>1. /\ EventsCount(s) \in Nat /\ currentCount[s] \in Nat
      /\ Coming(blocks[s], s) \in Nat /\ Coming(posting, s) \in Nat
  BY CountTypes
<1>2. /\ EventsCount(s)' \in Nat /\ currentCount'[s] \in Nat
      /\ Coming(blocks'[s], s) \in Nat /\ Coming(posting', s) \in Nat
  <2>1. DataOK' /\ BlocksOK'
    BY BlocksStep, DataStep
  <2>2. events' \in [Kinds -> Nat]
    BY <2>1 DEF DataOK
  <2>3. \A k \in Counts(s) : k \in Kinds
    BY CountingNotBlocks
  <2>4. EventsCount(s)' \in Nat
    BY <2>2, <2>3 DEF EventsCount
  <2>5. blocks'[s] \in Seq(BlocksOf(s)) /\ posting' \in Seq(Kinds)
    BY <2>1, CountingTypes DEF BlocksOK, DataOK
  <2>6. QED
    BY <2>1, <2>4, <2>5, CountInNat DEF DataOK
<1>3. EventsCount(s)' + Coming(posting, s) <= EventsCount(s) + Coming(posting', s)
  BY EventsArePosted
<1>4. EventsCount(s) <= currentCount[s] + Coming(blocks[s], s) + Coming(posting, s)
  BY DEF Covered
<1>5. EventsCount(s)' <= currentCount'[s] + Coming(blocks'[s], s) + Coming(posting', s)
  BY <1>1, <1>2, <1>3, <1>4
<1>6. QED
  BY <1>5 DEF Covered


LEMMA CountInit == Init => CountInv
  BY DEF Init, CountInv

\* The notification of an event reaches a strategy that listens.
LEMMA NotifiedCovered ==
  ASSUME TypeInv, NotifyEventAdded, NEW s \in Counting, Covered(s), observers[s] # 0
  PROVE  Covered(s)'
<1>0. DataOK
  BY TypeParts
<1>1. PICK p \in Seq(BlocksOf(s)) :
        /\ blocks'[s] = blocks[s] \o p
        /\ Len(p) = observers[s]
        /\ \A i \in DOMAIN p : p[i] = Head(posting)
        /\ Head(posting) \in Kinds
  BY NotifiedBlocks
<1>2. /\ EventsCount(s) \in Nat /\ currentCount[s] \in Nat /\ observers[s] \in Nat
      /\ blocks[s] \in Seq(BlocksOf(s)) /\ Coming(blocks[s], s) \in Nat
  BY CountTypes
<1>3. Coming(blocks'[s], s) \in Nat
  <2>1. blocks'[s] \in Seq(BlocksOf(s))
    BY <1>1, <1>2
  <2>2. QED
    BY <2>1, CountInNat
<1>4. 1 \in DOMAIN p /\ p[1] = Head(posting)
  BY <1>1, <1>2
<1>5. posting = <<Head(posting)>> /\ posting' = <<>>
  <2>1. posting \in Seq(Kinds) /\ Len(posting) <= 1 /\ posting # <<>> /\ posting' = <<>>
    BY <1>0 DEF NotifyEventAdded, DataOK
  <2>2. Len(posting) = 1
    <3>1. /\ Len(posting) \in Nat /\ DOMAIN posting = 1..Len(posting)
          /\ 1 \in DOMAIN posting
      BY <2>1, WithoutHeadBlocks
    <3> DEFINE n == Len(posting)
    <3>2. n \in Nat /\ 1 \in 1..n /\ n <= 1
      BY <2>1, <3>1
    <3> HIDE DEF n
    <3>3. n = 1
      BY <3>2
    <3>4. QED
      BY <3>3 DEF n
  <2>3. posting = <<posting[1]>> /\ Head(posting) = posting[1]
    BY <2>1, <2>2
  <2>4. QED
    BY <2>1, <2>3
<1>6. Coming(posting, s) = IF Head(posting) \in Counts(s) THEN 1 ELSE 0
  BY <1>1, <1>5, ComingPosted
<1>7. Coming(posting', s) = 0
  BY <1>5, ComingPosted
<1>8. Coming(blocks'[s], s) >= Coming(blocks[s], s) + Coming(posting, s)
  <2>1. /\ Coming(blocks'[s], s) >= Coming(blocks[s], s)
        /\ p[1] \in Counts(s) => Coming(blocks'[s], s) >= Coming(blocks[s], s) + 1
    BY <1>1, <1>2, <1>4, ComingAppended
  <2>2. QED
    BY <1>2, <1>3, <1>4, <1>6, <2>1
<1>9. EventsCount(s)' = EventsCount(s) /\ currentCount'[s] = currentCount[s]
  BY DEF NotifyEventAdded, EventsCount, counters
<1>10. EventsCount(s) <= currentCount[s] + Coming(blocks[s], s) + Coming(posting, s)
  BY DEF Covered
<1>11. Coming(posting, s) \in Nat
  BY <1>6
<1>12. EventsCount(s)' <= currentCount'[s] + Coming(blocks'[s], s) + Coming(posting', s)
  BY <1>2, <1>3, <1>7, <1>8, <1>9, <1>10, <1>11
<1>13. QED
  BY <1>12 DEF Covered

LEMMA CountStep == ASSUME TypeInv, CountInv, [Next]_vars PROVE CountInv'
<1> USE CountingTypes
<1>0. BlocksOK /\ DataOK
  BY TypeParts
<1> SUFFICES ASSUME NEW s \in Counting
             PROVE  skipped' \/ observers'[s] = 0 \/ WillCount(s)' \/ Covered(s)'
  BY DEF CountInv
<1>1. skipped \/ observers[s] = 0 \/ WillCount(s) \/ Covered(s)
  BY DEF CountInv
<1>2. /\ EventsCount(s) \in Nat /\ currentCount[s] \in Nat /\ maxCount[s] \in Nat
      /\ blocks[s] \in Seq(BlocksOf(s))
      /\ Coming(blocks[s], s) \in Nat /\ Coming(posting, s) \in Nat
  BY CountTypes
<1>3. CASE skipped
  BY <1>3, Frame DEF CountingBlock, StartSubscribe, StartRecount, EventAdded, DelayedDispatch, DelayExpires
<1>4. ASSUME blocks[s] # <<>>, blocks' = WithoutHead(s)
      PROVE  /\ blocks'[s] = Tail(blocks[s])
             /\ Coming(blocks'[s], s) \in Nat
             /\ Coming(blocks[s], s) <= Coming(blocks'[s], s) + 1
             /\ Head(blocks[s]) \notin Counts(s) => Coming(blocks[s], s) <= Coming(blocks'[s], s)
  <2>1. blocks'[s] = Tail(blocks[s])
    BY <1>0, <1>4 DEF WithoutHead, BlocksOK
  <2>2. Tail(blocks[s]) \in Seq(BlocksOf(s))
    BY <1>2, <1>4, WithoutHeadBlocks
  <2>3. QED
    BY <1>2, <1>4, <2>1, <2>2, ComingBehindHead, CountInNat
<1>5. CASE ~skipped /\ StartSubscribe(s)
  <2>1. /\ blocks[s] # <<>> /\ Head(blocks[s]) = "start"
        /\ blocks'[s] = <<"recount">> \o Tail(blocks[s])
        /\ maxCount'[s] = Needed(s) /\ currentCount' = currentCount
        /\ Needed(s) > 0 \/ observers' = observers
    BY <1>0, <1>5 DEF StartSubscribe, IsHead, BlocksOK, DataOK
  <2>2. Tail(blocks[s]) \in Seq(BlocksOf(s))
    BY <1>2, <2>1, WithoutHeadBlocks
  <2>3. CASE Needed(s) > 0
    <3>1. Head(blocks'[s]) = "recount" /\ blocks'[s] # <<>>
      BY <2>1, <2>2
    <3>2. QED
      BY <2>1, <2>3, <3>1 DEF WillCount, IsHead
  <2>4. CASE ~(Needed(s) > 0)
    <3>1. observers[s] = 0 \/ Covered(s)
      BY <1>1, <1>5, <2>1 DEF WillCount, IsHead
    <3>2. Coming(blocks[s], s) <= Coming(blocks'[s], s)
      <4>1. "recount" \in BlocksOf(s)
        BY DEF BlocksOf
      <4>2. Coming(Tail(blocks[s]), s) <= Coming(blocks'[s], s)
        BY <2>1, <2>2, <4>1, ComingWithHead
      <4>3. "start" \notin Counts(s)
        BY CountingNotBlocks
      <4>4. Coming(blocks[s], s) <= Coming(Tail(blocks[s]), s)
        BY <1>2, <2>1, <4>3, ComingBehindHead
      <4>5. Coming(Tail(blocks[s]), s) \in Nat /\ Coming(blocks'[s], s) \in Nat
        <5>1. blocks'[s] \in Seq(BlocksOf(s))
          BY <2>1, <2>2, <4>1
        <5>2. QED
          BY <2>2, <5>1, CountInNat
      <4>6. QED
        BY <1>2, <4>2, <4>4, <4>5
    <3>3. Coming(blocks'[s], s) \in Nat
      <4>1. BlocksOK'
        BY BlocksStep
      <4>2. QED
        BY <4>1, CountInNat DEF BlocksOK
    <3>4. ~NotifyEventAdded
      BY <1>5, <2>1, <2>2 DEF StartSubscribe, NotifyEventAdded
    <3>5. currentCount[s] + Coming(blocks[s], s) <= currentCount'[s] + Coming(blocks'[s], s)
      BY <1>2, <2>1, <3>2, <3>3
    <3>6. Covered(s) => Covered(s)'
      BY <3>4, <3>5, StaysCovered
    <3>7. QED
      BY <2>1, <2>4, <3>1, <3>6
  <2>5. QED
    BY <2>3, <2>4

<1>6. CASE ~skipped /\ StartRecount(s)
  <2>1. /\ blocks[s] # <<>> /\ Head(blocks[s]) = "recount" /\ blocks' = WithoutHead(s)
        /\ observers' = observers /\ maxCount' = maxCount
        /\ UNCHANGED <<events, posting>>
    BY <1>6 DEF StartRecount, IsHead
  <2>2. CASE maxCount[s] > 0 /\ dispatchScheduled[s]
    BY <1>6, <2>2 DEF StartRecount
  <2>3. CASE maxCount[s] > 0 /\ ~dispatchScheduled[s]
    <3>1. currentCount'[s] = EventsCount(s) /\ EventsCount(s)' = EventsCount(s)
      BY <1>0, <1>6, <2>1, <2>3 DEF StartRecount, EventsCount, DataOK
    <3>2. Coming(blocks'[s], s) \in Nat /\ Coming(posting', s) \in Nat
      BY <1>2, <1>4, <2>1
    <3>3. EventsCount(s)' <= currentCount'[s] + Coming(blocks'[s], s) + Coming(posting', s)
      BY <1>2, <3>1, <3>2
    <3>4. QED
      BY <3>3 DEF Covered
  <2>4. CASE ~(maxCount[s] > 0)
    <3>1. observers[s] = 0 \/ Covered(s)
      BY <1>1, <1>6, <2>4 DEF WillCount
    <3>2. currentCount' = currentCount
      BY <1>6, <2>4 DEF StartRecount
    <3>3. Coming(blocks[s], s) <= Coming(blocks'[s], s) /\ Coming(blocks'[s], s) \in Nat
      BY <1>4, <2>1, CountingNotBlocks
    <3>4. ~NotifyEventAdded
      BY <2>1 DEF NotifyEventAdded
    <3>5. Covered(s) => Covered(s)'
      BY <1>2, <3>2, <3>3, <3>4, StaysCovered
    <3>6. QED
      BY <2>1, <3>1, <3>5
  <2>5. QED
    BY <2>2, <2>3, <2>4
<1>7. CASE ~skipped /\ EventAdded(s)
  <2>1. PICK k \in Kinds :
          /\ IsHead(s, k)
          /\ currentCount' = IF k \in Counts(s) THEN [currentCount EXCEPT ![s] = @ + 1] ELSE currentCount
    BY <1>7 DEF EventAdded
  <2>2. /\ blocks[s] # <<>> /\ Head(blocks[s]) = k /\ blocks' = WithoutHead(s)
        /\ observers' = observers /\ posting' = posting
    BY <1>7, <2>1 DEF EventAdded, IsHead
  <2>3. observers[s] = 0 \/ Covered(s)
    BY <1>1, <1>7, <2>2, DispatchStrategiesAssumption
       DEF WillCount, IsHead, DispatchStrategiesAssumption
  <2>4. currentCount'[s] = currentCount[s] + (IF k \in Counts(s) THEN 1 ELSE 0)
    BY <1>0, <1>2, <2>1 DEF DataOK
  <2>5. currentCount[s] + Coming(blocks[s], s) <= currentCount'[s] + Coming(blocks'[s], s)
    BY <1>2, <1>4, <2>2, <2>4
  <2>6. ~NotifyEventAdded
    BY <2>2 DEF NotifyEventAdded
  <2>7. Covered(s) => Covered(s)'
    BY <2>5, <2>6, StaysCovered
  <2>8. QED
    BY <2>2, <2>3, <2>7
<1>8. CASE ~skipped /\ DelayedDispatch(s)
  <2>1. /\ blocks[s] # <<>> /\ Head(blocks[s]) = "dispatch" /\ blocks' = WithoutHead(s)
        /\ observers' = observers /\ currentCount' = currentCount /\ posting' = posting
    BY <1>8 DEF DelayedDispatch, IsHead
  <2>2. observers[s] = 0 \/ Covered(s)
    BY <1>1, <1>8, <2>1 DEF WillCount, IsHead
  <2>3. Coming(blocks[s], s) <= Coming(blocks'[s], s) /\ Coming(blocks'[s], s) \in Nat
    BY <1>4, <2>1, CountingNotBlocks
  <2>4. ~NotifyEventAdded
    BY <2>1 DEF NotifyEventAdded
  <2>5. Covered(s) => Covered(s)'
    BY <1>2, <2>1, <2>3, <2>4, StaysCovered
  <2>6. QED
    BY <2>1, <2>2, <2>5
\* Steps that post a block of another kind, or none.
<1>9. ASSUME ~skipped, ~NotifyEventAdded, observers[s] # 0 => observers'[s] = 0 \/ WillCount(s) \/ Covered(s),
             currentCount'[s] = currentCount[s], maxCount'[s] = maxCount[s],
             blocks'[s] = blocks[s] \/ \E b \in BlocksOf(s) : blocks'[s] = Append(blocks[s], b),
             observers'[s] = observers[s] \/ observers'[s] = 0
      PROVE  observers'[s] = 0 \/ WillCount(s)' \/ Covered(s)'
  <2>1. WillCount(s) => WillCount(s)'
    <3>1. CASE blocks'[s] = blocks[s]
      BY <1>9, <3>1 DEF WillCount, IsHead
    <3>2. CASE \E b \in BlocksOf(s) : blocks'[s] = Append(blocks[s], b)
      <4>1. PICK b \in BlocksOf(s) : blocks'[s] = Append(blocks[s], b)
        BY <3>2
      <4>2. ASSUME blocks[s] # <<>>
            PROVE  Head(blocks'[s]) = Head(blocks[s]) /\ blocks'[s] # <<>>
        BY <1>2, <4>1, <4>2
      <4>3. QED
        BY <1>9, <4>2 DEF WillCount, IsHead
    <3>3. QED
      BY <1>9, <3>1, <3>2
  <2>2. Coming(blocks[s], s) <= Coming(blocks'[s], s) /\ Coming(blocks'[s], s) \in Nat
    <3>1. CASE blocks'[s] = blocks[s]
      BY <1>2, <3>1
    <3>2. CASE \E b \in BlocksOf(s) : blocks'[s] = Append(blocks[s], b)
      <4>1. PICK b \in BlocksOf(s) : blocks'[s] = Append(blocks[s], b)
        BY <3>2
      <4>2. /\ blocks'[s] = blocks[s] \o <<b>> /\ <<b>> \in Seq(BlocksOf(s))
            /\ blocks'[s] \in Seq(BlocksOf(s))
        <5> DEFINE q == blocks[s]
                   T == BlocksOf(s)
        <5>1. q \in Seq(T) /\ b \in T
          BY <1>2
        <5> HIDE DEF q, T
        <5>2. Append(q, b) = q \o <<b>> /\ <<b>> \in Seq(T) /\ Append(q, b) \in Seq(T)
          BY <5>1
        <5>3. QED
          BY <4>1, <5>2 DEF q, T
      <4>3. Coming(blocks'[s], s) \in Nat
        BY <4>2, CountInNat
      <4>4. Coming(blocks'[s], s) >= Coming(blocks[s], s)
        BY <1>2, <4>2, ComingAppended
      <4>5. QED
        BY <1>2, <4>3, <4>4
    <3>3. QED
      BY <1>9, <3>1, <3>2
  <2>3. Covered(s) => Covered(s)'
    BY <1>2, <1>9, <2>2, StaysCovered
  <2>4. QED
    BY <1>9, <2>1, <2>3
<1>10. CASE ~skipped /\ DelayExpires(s)
  <2>1. /\ blocks'[s] = Append(blocks[s], "dispatch") /\ observers' = observers
        /\ currentCount' = currentCount /\ maxCount' = maxCount /\ posting' = posting
    BY <1>0, <1>10 DEF DelayExpires, Posted, BlocksOK, counters
  <2>2. "dispatch" \in BlocksOf(s)
    BY DEF BlocksOf
  <2>3. ~NotifyEventAdded
    BY <2>1 DEF NotifyEventAdded
  <2>4. QED
    BY <1>1, <1>9, <1>10, <2>1, <2>2, <2>3
<1>11. CASE /\ ~skipped /\ ~NotifyEventAdded
            /\ maxCount'[s] = maxCount[s] /\ currentCount'[s] = currentCount[s]
            /\ \/ blocks'[s] = blocks[s] /\ observers'[s] = observers[s]
               \/ blocks'[s] \in {blocks[s], Append(blocks[s], "start")} /\ observers' = Unsubscribed
  <2>1. "start" \in BlocksOf(s)
    BY DEF BlocksOf
  <2>2. blocks'[s] = blocks[s] \/ \E b \in BlocksOf(s) : blocks'[s] = Append(blocks[s], b)
    BY <1>11, <2>1
  <2>3. observers'[s] = observers[s] \/ observers'[s] = 0
    BY <1>11 DEF Unsubscribed
  <2>4. QED
    BY <1>1, <1>9, <1>11, <2>2, <2>3
<1>12. CASE ~skipped /\ NotifyEventAdded
  <2>1. observers' = observers /\ maxCount' = maxCount
    BY <1>12 DEF NotifyEventAdded, counters
  <2>2. CASE observers[s] = 0
    BY <2>1, <2>2
  <2>3. CASE WillCount(s)
    <3>1. PICK p \in Seq(BlocksOf(s)) : blocks'[s] = blocks[s] \o p
      BY <1>12, NotifiedBlocks
    <3>2. ASSUME blocks[s] # <<>>
          PROVE  Head(blocks'[s]) = Head(blocks[s]) /\ blocks'[s] # <<>>
      BY <1>2, <3>1, <3>2
    <3>3. QED
      BY <2>1, <2>3, <3>2 DEF WillCount, IsHead
  <2>4. CASE observers[s] # 0 /\ Covered(s)
    BY <1>12, <2>4, NotifiedCovered
  <2>5. QED
    BY <1>1, <1>12, <2>2, <2>3, <2>4
<1>13. QED
  BY <1>3, <1>5, <1>6, <1>7, <1>8, <1>10, <1>11, <1>12, CountingFrame DEF CountingBlock

LEMMA CountHolds == Spec => []CountInv
<1>1. Init => CountInv
  BY CountInit
<1>2. TypeInv /\ CountInv /\ [Next]_vars => CountInv'
  BY CountStep
<1>3. QED
  BY <1>1, <1>2, TypeHolds, PTL DEF Spec

(* No event is missed by a counting strategy that listens: what the database
   holds is covered by its count and by the notifications on their way, through
   starts between whose two halves events are stored, restarts and purges. *)
THEOREM NoEventUncounted == Spec => []CountCoversEvents
<1>1. CountInv => CountCoversEvents
  BY DEF CountInv, CountCoversEvents, WillCount, Covered
<1>2. QED
  BY <1>1, CountHolds, PTL
====
