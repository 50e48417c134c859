---------------------- MODULE DispatchingControllerProofs ----------------------
(***************************************************************************)
(* Theorems about DispatchingController, for every set of keys and         *)
(* threads.                                                                *)
(***************************************************************************)
EXTENDS DispatchingController, SequenceTheorems, TLAPS

-----------------------------------------------------------------------------
(* The queues stay sequences of keys. *)

LEMMA AddObjectType ==
  ASSUME NEW q \in Seq(Keys), NEW k \in Keys
  PROVE  AddObject(q, k) \in Seq(Keys)
  BY DEF AddObject

LEMMA RemoveObjectType ==
  ASSUME NEW q \in Seq(Keys), NEW k
  PROVE  RemoveObject(q, k) \in Seq(Keys)
<1>1. CASE k \in Members(q)
  <2> DEFINE i == CHOOSE j \in DOMAIN q : q[j] = k
  <2>1. i \in DOMAIN q
    BY <1>1 DEF Members
  <2>2. i \in 1..Len(q)
    BY <2>1
  <2>3. SubSeq(q, 1, i - 1) \in Seq(Keys) /\ SubSeq(q, i + 1, Len(q)) \in Seq(Keys)
    <3>1. \A j \in 1..Len(q) : q[j] \in Keys
      OBVIOUS
    <3>2. SubSeq(q, 1, i - 1) \in Seq(Keys)
      <4>1. \A j \in 1..(i - 1) : q[j] \in Keys
        BY <2>2, <3>1
      <4>2. QED
        BY <2>2, <4>1, SubSeqProperties
    <3>3. SubSeq(q, i + 1, Len(q)) \in Seq(Keys)
      <4>1. \A j \in (i + 1)..Len(q) : q[j] \in Keys
        BY <2>2, <3>1
      <4>2. QED
        BY <2>2, <4>1, SubSeqProperties
    <3>4. QED
      BY <3>2, <3>3
  <2>4. QED
    BY <1>1, <2>3 DEF RemoveObject
<1>2. CASE k \notin Members(q)
  BY <1>2 DEF RemoveObject
<1>3. QED
  BY <1>1, <1>2

LEMMA PushType ==
  ASSUME NEW forced \in Seq(Keys), NEW regular \in Seq(Keys), NEW k \in Keys, NEW b \in BOOLEAN
  PROVE  /\ Push(forced, regular, k, b)[1] \in Seq(Keys)
         /\ Push(forced, regular, k, b)[2] \in Seq(Keys)
  BY AddObjectType, RemoveObjectType DEF Push

\* When the loop has a turn left there is a first key.
LEMMA FirstKeyType ==
  ASSUME TypeOK, NEW t \in Threads, TurnsLeft(t)
  PROVE  FirstKey \in Keys /\ PopsForced \in BOOLEAN
<1>1. hand[t].count \in Nat
  BY DEF TypeOK
<1>2. Len(forcedQueue) > 0 \/ Len(regularQueue) > 0
  BY <1>1 DEF TypeOK, TurnsLeft
<1>3. forcedQueue # <<>> \/ regularQueue # <<>>
  BY <1>2
<1>4. QED
  BY <1>3 DEF FirstKey, PopsForced, TypeOK

-----------------------------------------------------------------------------
LEMMA TypeOKInit == Init => TypeOK
<1> SUFFICES ASSUME Init PROVE TypeOK
  OBVIOUS
<1>1. EmptyHand \in [key : Keys \cup {None}, forced : BOOLEAN, count : Nat]
  BY DEF EmptyHand
<1>2. hand \in [Threads -> [key : Keys \cup {None}, forced : BOOLEAN, count : Nat]]
  BY <1>1 DEF Init
<1>3. pc \in [Threads -> Steps] /\ owed \in [Keys -> Nat]
  BY DEF Init, Steps
<1>4. forcedQueue \in Seq(Keys) /\ regularQueue \in Seq(Keys)
  BY DEF Init
<1>5. calls \in 0..MaxCalls
  BY DispatchingControllerAssumption DEF Init, DispatchingControllerAssumption
<1>6. dispatchers \subseteq Keys /\ wanted \subseteq Keys \X BOOLEAN
  BY DEF Init
<1>7. queueLock = None /\ {isWorking, started, doubled} \subseteq BOOLEAN
  BY DEF Init
<1>8. QED
  BY <1>2, <1>3, <1>4, <1>5, <1>6, <1>7 DEF TypeOK

LEMMA TypeOKStep ==
  ASSUME TypeOK, [Next]_vars
  PROVE  TypeOK'
<1> USE DispatchingControllerAssumption DEF DispatchingControllerAssumption, TypeOK
<1>1. CASE UNCHANGED vars
  BY <1>1 DEF vars, queues
<1>2. ASSUME NEW t \in Threads, Claim(t)
      PROVE  TypeOK'
  BY <1>2 DEF Claim, Goto, queues, Steps
<1>3. ASSUME NEW t \in Threads, FindKey(t)
      PROVE  TypeOK'
  <2>1. FirstKey \in Keys /\ PopsForced \in BOOLEAN
    BY <1>3, FirstKeyType DEF FindKey
  <2>2. forcedQueue' \in Seq(Keys) /\ regularQueue' \in Seq(Keys)
    BY <1>3, RemoveObjectType DEF FindKey, SetQueues, WithoutFirst
  <2>3. hand' \in [Threads -> [key : Keys \cup {None}, forced : BOOLEAN, count : Nat]]
    BY <1>3, <2>1 DEF FindKey
  <2>4. QED
    BY <1>3, <2>2, <2>3 DEF FindKey, Goto, Steps
<1>4. ASSUME NEW t \in Threads, PutBack(t)
      PROVE  TypeOK'
  <2>1. FirstKey \in Keys /\ PopsForced \in BOOLEAN
    BY <1>4, FirstKeyType DEF PutBack
  <2>2. WithoutFirst[1] \in Seq(Keys) /\ WithoutFirst[2] \in Seq(Keys)
    BY RemoveObjectType DEF WithoutFirst
  <2>3. forcedQueue' \in Seq(Keys) /\ regularQueue' \in Seq(Keys)
    BY <1>4, <2>1, <2>2, PushType DEF PutBack, SetQueues
  <2>4. hand' \in [Threads -> [key : Keys \cup {None}, forced : BOOLEAN, count : Nat]]
    <3>1. PICK n \in Nat : hand' = [hand EXCEPT ![t].count = n]
      <4>1. hand[t].count + 1 \in Nat
        OBVIOUS
      <4>2. hand' = [hand EXCEPT ![t].count = hand[t].count + 1]
        BY <1>4 DEF PutBack
      <4>3. QED
        BY <4>1, <4>2
    <3>2. QED
      BY <3>1
  <2>5. QED
    BY <1>4, <2>3, <2>4 DEF PutBack
<1>5. ASSUME NEW t \in Threads, FindNothing(t)
      PROVE  TypeOK'
  BY <1>5 DEF FindNothing, Goto, queues, Steps
<1>6. ASSUME NEW t \in Threads, Decide(t)
      PROVE  TypeOK'
  BY <1>6 DEF Decide, Goto, queues, Steps
<1>7. ASSUME NEW t \in Threads, PerformReport(t)
      PROVE  TypeOK'
  <2>1. PICK n \in IF hand[t].key \in TwoEnded THEN 1..2 ELSE {1} :
          /\ owed' = [owed EXCEPT ![hand[t].key] = @ + n]
          /\ doubled' = (doubled \/ n = 2)
    BY <1>7 DEF PerformReport
  <2>2. owed' \in [Keys -> Nat]
    <3>1. n \in Nat
      BY <2>1
    <3>2. \A k \in Keys : owed'[k] \in Nat
      BY <2>1, <3>1
    <3>3. QED
      BY <2>1, <3>2
  <2>3. hand' \in [Threads -> [key : Keys \cup {None}, forced : BOOLEAN, count : Nat]]
    BY <1>7 DEF PerformReport, EmptyHand
  <2>4. doubled' \in BOOLEAN
    BY <2>1
  <2>5. QED
    BY <1>7, <2>2, <2>3, <2>4 DEF PerformReport, Goto, queues, Steps
<1>8. ASSUME NEW t \in Threads, Release(t)
      PROVE  TypeOK'
  <2>1. hand' \in [Threads -> [key : Keys \cup {None}, forced : BOOLEAN, count : Nat]]
    BY <1>8 DEF Release, EmptyHand
  <2>2. QED
    BY <1>8, <2>1 DEF Release, Goto, queues, Steps
<1>9. ASSUME NEW t \in Callers, NEW k \in Keys, NEW b \in BOOLEAN,
             PerformReportForApiKey(t, k, b)
      PROVE  TypeOK'
  <2>1. forcedQueue' \in Seq(Keys) /\ regularQueue' \in Seq(Keys)
    BY <1>9, PushType DEF PerformReportForApiKey, SetQueues
  <2>2. wanted' \subseteq Keys \X BOOLEAN /\ calls' \in 0..MaxCalls
    BY <1>9 DEF PerformReportForApiKey
  <2>3. pc' \in [Threads -> Steps] /\ queueLock' = None
    BY <1>9 DEF PerformReportForApiKey, Goto, Steps, Threads
  <2>4. QED
    BY <1>9, <2>1, <2>2, <2>3 DEF PerformReportForApiKey
<1>10. ASSUME NEW k \in Keys, DispatcherCalledBack(k)
       PROVE  TypeOK'
  <2>1. owed' \in [Keys -> Nat]
    BY <1>10 DEF DispatcherCalledBack
  <2>2. QED
    BY <1>10, <2>1 DEF DispatcherCalledBack, Goto, queues, Steps, Threads
<1>11. ASSUME NEW k \in Keys, RegisterDispatcher(k)
       PROVE  TypeOK'
  BY <1>11 DEF RegisterDispatcher, queues
<1>12. CASE Start
  BY <1>12 DEF Start, queues
<1>13. CASE Shutdown
  BY <1>13 DEF Shutdown, queues
<1>14. QED
  BY <1>1, <1>2, <1>3, <1>4, <1>5, <1>6, <1>7, <1>8, <1>9, <1>10, <1>11, <1>12, <1>13
     DEF Next, PerformNextReport

(* The state of the controller keeps its shape; in particular queueLock is held
   only by a thread inside the loop of performNextReport. *)
THEOREM TypeCorrect == Spec => []TypeOK
<1>1. QED
  BY TypeOKInit, TypeOKStep, PTL DEF Spec

-----------------------------------------------------------------------------
(* OneChain is not inductive alone: a thread that is about to tell a dispatcher
   to report must have found one. *)
ChainHasKey == \A t \in Threads : pc[t] = "perform" => hand[t].key \in Keys

LEMMA ChainHasKeyStep ==
  ASSUME TypeOK, ChainHasKey, [Next]_vars
  PROVE  ChainHasKey'
<1> USE DEF ChainHasKey, TypeOK
<1> SUFFICES ASSUME NEW u \in Threads, pc'[u] = "perform"
             PROVE  hand'[u].key \in Keys
  OBVIOUS
<1>1. CASE UNCHANGED vars
  BY <1>1 DEF vars
<1>2. ASSUME NEW t \in Threads, Claim(t)
      PROVE  hand'[u].key \in Keys
  BY <1>2 DEF Claim, Goto
<1>3. ASSUME NEW t \in Threads, FindKey(t) \/ PutBack(t) \/ FindNothing(t)
      PROVE  hand'[u].key \in Keys
  BY <1>3, FirstKeyType DEF FindKey, PutBack, FindNothing, Goto
<1>4. ASSUME NEW t \in Threads, Decide(t)
      PROVE  hand'[u].key \in Keys
  BY <1>4 DEF Decide, Goto, IsAllowed
<1>5. ASSUME NEW t \in Threads, PerformReport(t) \/ Release(t)
      PROVE  hand'[u].key \in Keys
  BY <1>5 DEF PerformReport, Release, Goto
<1>6. ASSUME NEW t \in Callers, NEW k \in Keys, NEW b \in BOOLEAN,
             PerformReportForApiKey(t, k, b)
      PROVE  hand'[u].key \in Keys
  BY <1>6 DEF PerformReportForApiKey, Goto
<1>7. ASSUME NEW k \in Keys, DispatcherCalledBack(k) \/ RegisterDispatcher(k)
      PROVE  hand'[u].key \in Keys
  BY <1>7 DEF DispatcherCalledBack, RegisterDispatcher, Goto
<1>8. CASE Start \/ Shutdown
  BY <1>8 DEF Start, Shutdown
<1>9. QED
  BY <1>1, <1>2, <1>3, <1>4, <1>5, <1>6, <1>7, <1>8 DEF Next, PerformNextReport

LEMMA DoubledStays ==
  ASSUME TypeOK, [Next]_vars, doubled
  PROVE  doubled'
<1>1. CASE UNCHANGED vars
  BY <1>1 DEF vars
<1>2. ASSUME NEW t \in Threads, Claim(t) \/ FindKey(t) \/ PutBack(t) \/ FindNothing(t) \/ Release(t)
      PROVE  doubled'
  BY <1>2 DEF Claim, FindKey, PutBack, FindNothing, Release
<1>3. ASSUME NEW t \in Threads, Decide(t) \/ PerformReport(t)
      PROVE  doubled'
  BY <1>3 DEF Decide, PerformReport
<1>4. ASSUME NEW t \in Callers, NEW k \in Keys, NEW b \in BOOLEAN,
             PerformReportForApiKey(t, k, b)
      PROVE  doubled'
  BY <1>4 DEF PerformReportForApiKey
<1>5. ASSUME NEW k \in Keys, DispatcherCalledBack(k) \/ RegisterDispatcher(k)
      PROVE  doubled'
  BY <1>5 DEF DispatcherCalledBack, RegisterDispatcher
<1>6. CASE Start \/ Shutdown
  BY <1>6 DEF Start, Shutdown
<1>7. QED
  BY <1>1, <1>2, <1>3, <1>4, <1>5, <1>6 DEF Next, PerformNextReport

LEMMA OneChainStep ==
  ASSUME TypeOK, ChainHasKey, OneChain, [Next]_vars
  PROVE  OneChain'
\* A round that calls back twice stays on the record.
<1>0. CASE doubled'
  BY <1>0 DEF OneChain
<1> SUFFICES ASSUME ~doubled'
             PROVE  OneChain'
  BY <1>0
<1>a. ~doubled
  BY DoubledStays
<1> USE <1>a DEF TypeOK, OneChain, Chain
\* Steps that leave isWorking, owed and the set of threads in the chain alone.
<1>1. ASSUME isWorking' = isWorking, owed' = owed, Chain' = Chain
      PROVE  OneChain'
  BY <1>1
<1>2. CASE UNCHANGED vars
  BY <1>1, <1>2 DEF vars
<1>3. ASSUME NEW t \in Threads, Claim(t)
      PROVE  OneChain'
  <2>1. CASE isWorking
    <3>1. Chain' = Chain
      BY <1>3, <2>1 DEF Claim, Goto
    <3>2. QED
      BY <1>1, <1>3, <2>1, <3>1 DEF Claim
  <2>2. CASE ~isWorking
    <3>1. Chain' = {t} /\ isWorking' /\ owed' = owed
      BY <1>3, <2>2 DEF Claim, Goto
    <3>2. \A k \in Keys : ~(owed[k] > 0)
      BY <2>2
    <3>3. QED
      BY <3>1, <3>2
  <2>3. QED
    BY <2>1, <2>2
<1>4. ASSUME NEW t \in Threads, FindKey(t) \/ PutBack(t) \/ FindNothing(t) \/ Decide(t)
      PROVE  OneChain'
  <2>1. Chain' = Chain
    BY <1>4 DEF FindKey, PutBack, FindNothing, Decide, Goto
  <2>2. QED
    BY <1>1, <1>4, <2>1 DEF FindKey, PutBack, FindNothing, Decide
<1>5. ASSUME NEW t \in Threads, PerformReport(t)
      PROVE  OneChain'
  <2>1. hand[t].key \in Keys
    BY <1>5 DEF PerformReport, ChainHasKey
  <2>2. t \in Chain
    BY <1>5 DEF PerformReport
  <2>3. \A k \in Keys : owed[k] = 0
    BY <2>2
  <2>4. owed' = [owed EXCEPT ![hand[t].key] = 1]
    <3>1. PICK n \in IF hand[t].key \in TwoEnded THEN 1..2 ELSE {1} :
            /\ owed' = [owed EXCEPT ![hand[t].key] = @ + n]
            /\ doubled' = (doubled \/ n = 2)
      BY <1>5 DEF PerformReport
    <3>2. n = 1
      <4>1. n # 2
        BY <3>1, Zenon
      <4>2. n \in 1..2
        BY <3>1
      <4>3. QED
        BY <4>1, <4>2
    <3>3. owed[hand[t].key] = 0
      BY <2>1, <2>3
    <3>4. owed' = [owed EXCEPT ![hand[t].key] = @ + n]
      BY <3>1
    <3>5. QED
      BY <3>2, <3>3, <3>4
  <2>5. Chain' = {} /\ isWorking' = isWorking
    BY <1>5, <2>2 DEF PerformReport, Goto
  <2>6. QED
    BY <2>1, <2>2, <2>3, <2>4, <2>5
<1>6. ASSUME NEW t \in Threads, Release(t)
      PROVE  OneChain'
  <2>1. t \in Chain
    BY <1>6 DEF Release
  <2>2. Chain' = {} /\ ~isWorking' /\ owed' = owed
    BY <1>6, <2>1 DEF Release, Goto
  <2>3. \A k \in Keys : ~(owed[k] > 0)
    BY <2>1
  <2>4. QED
    BY <2>2, <2>3
<1>7. ASSUME NEW t \in Callers, NEW k \in Keys, NEW b \in BOOLEAN,
             PerformReportForApiKey(t, k, b)
      PROVE  OneChain'
  <2>1. Chain' = Chain
    BY <1>7 DEF PerformReportForApiKey, Goto, Threads
  <2>2. QED
    BY <1>1, <1>7, <2>1 DEF PerformReportForApiKey
<1>8. ASSUME NEW k \in Keys, DispatcherCalledBack(k)
      PROVE  OneChain'
  <2>1. owed[k] = 1 /\ Chain = {} /\ isWorking
    BY <1>8 DEF DispatcherCalledBack
  <2>2. \A m \in Keys : m # k => owed[m] = 0
    BY <2>1
  <2>3. \A m \in Keys : owed'[m] = 0
    BY <1>8, <2>1, <2>2 DEF DispatcherCalledBack
  <2>4. Chain' = {k} /\ isWorking' = isWorking
    BY <1>8, <2>1 DEF DispatcherCalledBack, Goto, Threads
  <2>5. \A m \in Keys : ~(owed'[m] > 0)
    BY <2>3
  <2>6. Chain' # {} /\ isWorking' /\ \A t, u \in Chain' : t = u
    BY <2>1, <2>4
  <2>7. QED
    BY <2>5, <2>6
<1>9. ASSUME NEW k \in Keys, RegisterDispatcher(k)
      PROVE  OneChain'
  BY <1>1, <1>9 DEF RegisterDispatcher
<1>10. CASE Start \/ Shutdown
  BY <1>1, <1>10 DEF Start, Shutdown
<1>11. QED
  <2> HIDE DEF TypeOK, OneChain, Chain
  <2> QED
    BY <1>2, <1>3, <1>4, <1>5, <1>6, <1>7, <1>8, <1>9, <1>10 DEF Next, PerformNextReport

(* One report at a time: whatever the callers, the keys without a dispatcher,
   start and shutdown, isWorking is set exactly while there is a chain, and
   there are never two, until a dispatcher calls back twice for one round. *)
THEOREM OneReportAtATime == Spec => []OneChain
<1> DEFINE IInv == TypeOK /\ ChainHasKey /\ OneChain
<1>1. Init => IInv
  <2> SUFFICES ASSUME Init PROVE ChainHasKey /\ OneChain
    BY TypeOKInit
  <2>1. Chain = {}
    BY DEF Init, Chain
  <2>2. QED
    BY <2>1 DEF Init, ChainHasKey, OneChain
<1>2. IInv /\ [Next]_vars => IInv'
  BY TypeOKStep, ChainHasKeyStep, OneChainStep
<1>3. QED
  BY <1>1, <1>2, PTL DEF Spec

-----------------------------------------------------------------------------
(* What the queues hold after -addObject:, -removeObject:, a push and a pop. *)

LEMMA AddObjectMembers ==
  ASSUME NEW q \in Seq(Keys), NEW k \in Keys
  PROVE  /\ Members(AddObject(q, k)) = Members(q) \cup {k}
         /\ Distinct(q) => Distinct(AddObject(q, k))
<1>1. CASE k \in Members(q)
  BY <1>1 DEF AddObject
<1>2. CASE k \notin Members(q)
  <2> DEFINE a == Append(q, k)
  <2>1. /\ Len(a) = Len(q) + 1 /\ a[Len(q) + 1] = k
        /\ \A i \in 1..Len(q) : a[i] = q[i]
        /\ DOMAIN a = 1..(Len(q) + 1) /\ DOMAIN q = 1..Len(q)
    OBVIOUS
  <2>2. AddObject(q, k) = a
    BY <1>2 DEF AddObject
  <2> HIDE DEF a
  <2>3. Members(a) = Members(q) \cup {k}
    <3>1. ASSUME NEW x \in Members(a) PROVE x \in Members(q) \cup {k}
      <4>1. PICK i \in 1..(Len(q) + 1) : x = a[i]
        BY <2>1 DEF Members
      <4>2. i \in 1..Len(q) \/ i = Len(q) + 1
        BY <4>1
      <4>3. QED
        BY <2>1, <4>1, <4>2 DEF Members
    <3>2. ASSUME NEW x \in Members(q) \cup {k} PROVE x \in Members(a)
      BY <2>1 DEF Members
    <3>3. QED
      BY <3>1, <3>2
  <2>4. ASSUME Distinct(q), NEW i \in DOMAIN a, NEW j \in DOMAIN a, a[i] = a[j]
        PROVE  i = j
    <3>1. \A m \in 1..Len(q) : a[m] # k
      BY <1>2, <2>1 DEF Members
    <3>2. CASE i \in 1..Len(q) /\ j \in 1..Len(q)
      BY <2>1, <2>4, <3>2 DEF Distinct
    <3>3. CASE i = Len(q) + 1 \/ j = Len(q) + 1
      BY <2>1, <2>4, <3>1, <3>3
    <3>4. QED
      BY <2>1, <3>2, <3>3
  <2>5. QED
    BY <2>2, <2>3, <2>4 DEF Distinct
<1>3. QED
  BY <1>1, <1>2

LEMMA RestLength ==
  ASSUME NEW n \in Nat, NEW i \in Nat, i <= n
  PROVE  (IF i + 1 <= n THEN n - (i + 1) + 1 ELSE 0) = n - i
  OBVIOUS

LEMMA RemoveObjectMembers ==
  ASSUME NEW q \in Seq(Keys), NEW k, Distinct(q)
  PROVE  /\ Members(RemoveObject(q, k)) = Members(q) \ {k}
         /\ Distinct(RemoveObject(q, k))
<1>1. CASE k \notin Members(q)
  BY <1>1 DEF RemoveObject
<1>2. CASE k \in Members(q)
  <2> DEFINE i == CHOOSE j \in DOMAIN q : q[j] = k
             r == SubSeq(q, 1, i - 1) \o SubSeq(q, i + 1, Len(q))
  <2>1. i \in 1..Len(q) /\ q[i] = k
    BY <1>2 DEF Members
  <2>2. RemoveObject(q, k) = r
    BY <1>2 DEF RemoveObject
  <2> HIDE DEF i
  <2>3. /\ DOMAIN r = 1..(Len(q) - 1) /\ DOMAIN q = 1..Len(q)
        /\ \A j \in 1..(i - 1) : r[j] = q[j]
        /\ \A j \in i..(Len(q) - 1) : r[j] = q[j + 1]
    <3> DEFINE left == SubSeq(q, 1, i - 1)
               right == SubSeq(q, i + 1, Len(q))
    <3>1. i \in Nat /\ Len(q) \in Nat /\ 1 <= i /\ i <= Len(q) /\ DOMAIN q = 1..Len(q)
      BY <2>1
    <3>2. /\ left \in Seq(Keys) /\ Len(left) = i - 1
          /\ \A j \in 1..(i - 1) : left[j] = q[j]
      <4>1. \A j \in 1..(i - 1) : q[j] \in Keys
        BY <3>1
      <4>2. QED
        BY <3>1, <4>1, SubSeqProperties
    <3>3. /\ right \in Seq(Keys) /\ Len(right) = Len(q) - i
          /\ \A j \in 1..(Len(q) - i) : right[j] = q[i + j]
      <4>1. \A j \in (i + 1)..Len(q) : q[j] \in Keys
        BY <3>1
      <4>2. i + 1 \in Int /\ Len(q) \in Int
        BY <3>1
      <4>3. /\ right \in Seq(Keys)
            /\ Len(right) = IF i + 1 <= Len(q) THEN Len(q) - (i + 1) + 1 ELSE 0
            /\ \A j \in 1..(Len(q) - (i + 1) + 1) : right[j] = q[(i + 1) + j - 1]
        BY <4>1, <4>2, SubSeqProperties
      <4>4. Len(q) - (i + 1) + 1 = Len(q) - i /\ \A j \in 1..(Len(q) - i) : (i + 1) + j - 1 = i + j
        BY <3>1
      <4>5. Len(right) = Len(q) - i
        BY <3>1, <4>3, RestLength
      <4>6. ASSUME NEW j \in 1..(Len(q) - i)
            PROVE  right[j] = q[i + j]
        <5>1. j \in 1..(Len(q) - (i + 1) + 1) /\ (i + 1) + j - 1 = i + j
          BY <3>1
        <5>2. right[j] = q[(i + 1) + j - 1]
          BY <4>3, <5>1
        <5>3. QED
          BY <5>1, <5>2
      <4>7. QED
        BY <4>3, <4>5, <4>6
    <3> HIDE DEF left, right
    <3>4. /\ Len(left \o right) = Len(q) - 1 /\ left \o right \in Seq(Keys)
          /\ \A j \in 1..(i - 1) : (left \o right)[j] = left[j]
          /\ \A j \in i..(Len(q) - 1) : (left \o right)[j] = right[j - (i - 1)]
      <4>1. /\ left \o right \in Seq(Keys) /\ Len(left \o right) = Len(left) + Len(right)
            /\ \A j \in 1..(Len(left) + Len(right)) : (left \o right)[j] =
                 IF j <= Len(left) THEN left[j] ELSE right[j - Len(left)]
        BY <3>2, <3>3, ConcatProperties
      <4>2. Len(left) + Len(right) = Len(q) - 1
        BY <3>1, <3>2, <3>3
      <4>3. ASSUME NEW j \in 1..(i - 1)
            PROVE  (left \o right)[j] = left[j]
        <5>1. j \in 1..(Len(left) + Len(right)) /\ j <= Len(left)
          BY <3>1, <3>2, <4>2
        <5>2. QED
          BY <4>1, <5>1
      <4>4. ASSUME NEW j \in i..(Len(q) - 1)
            PROVE  (left \o right)[j] = right[j - (i - 1)]
        <5>1. j \in 1..(Len(left) + Len(right)) /\ ~(j <= Len(left)) /\ Len(left) = i - 1
          BY <3>1, <3>2, <4>2
        <5>2. QED
          BY <4>1, <5>1
      <4>5. QED
        BY <4>1, <4>2, <4>3, <4>4
    <3>5. \A j \in i..(Len(q) - 1) : j - (i - 1) \in 1..(Len(q) - i) /\ i + (j - (i - 1)) = j + 1
      BY <3>1
    <3>6. r = left \o right
      BY DEF left, right
    <3>7. ASSUME NEW j \in i..(Len(q) - 1)
          PROVE  (left \o right)[j] = q[j + 1]
      <4>1. right[j - (i - 1)] = q[i + (j - (i - 1))]
        BY <3>3, <3>5
      <4>2. QED
        BY <3>4, <3>5, <4>1
    <3>8. DOMAIN (left \o right) = 1..(Len(q) - 1)
      <4>1. DOMAIN (left \o right) = 1..Len(left \o right)
        BY <3>4, LenProperties
      <4>2. QED
        BY <3>4, <4>1
    <3> HIDE DEF r
    <3>9. QED
      BY <3>1, <3>2, <3>4, <3>6, <3>7, <3>8
  <2> HIDE DEF r
  <2>4. \A j \in 1..Len(q) : q[j] = k => j = i
    BY <2>1, <2>3 DEF Distinct
  <2>5. Members(r) = Members(q) \ {k}
    <3>1. ASSUME NEW x \in Members(r) PROVE x \in Members(q) /\ x # k
      <4>1. PICK j \in 1..(Len(q) - 1) : x = r[j]
        BY <2>3 DEF Members
      <4>2. CASE j \in 1..(i - 1)
        BY <2>1, <2>3, <2>4, <4>1, <4>2 DEF Members
      <4>3. CASE j \in i..(Len(q) - 1)
        <5>1. j + 1 \in 1..Len(q) /\ j + 1 # i /\ x = q[j + 1]
          BY <2>1, <2>3, <4>1, <4>3
        <5>2. QED
          BY <2>3, <2>4, <5>1 DEF Members
      <4>4. QED
        BY <2>1, <4>1, <4>2, <4>3
    <3>2. ASSUME NEW x \in Members(q), x # k PROVE x \in Members(r)
      <4>1. PICK j \in 1..Len(q) : x = q[j] /\ j # i
        BY <2>1, <2>3, <3>2 DEF Members
      <4>2. CASE j < i
        BY <2>1, <2>3, <4>1, <4>2 DEF Members
      <4>3. CASE j > i
        <5>1. j - 1 \in i..(Len(q) - 1) /\ r[j - 1] = q[(j - 1) + 1]
          BY <2>1, <2>3, <4>1, <4>3
        <5>2. j - 1 \in DOMAIN r /\ r[j - 1] = x
          BY <2>1, <2>3, <4>1, <5>1
        <5>3. QED
          BY <5>2 DEF Members
      <4>4. QED
        BY <2>1, <4>1, <4>2, <4>3
    <3>3. QED
      BY <3>1, <3>2
  <2>6. ASSUME NEW m \in DOMAIN r, NEW n \in DOMAIN r, r[m] = r[n]
        PROVE  m = n
    <3> DEFINE At(j) == IF j < i THEN j ELSE j + 1
    <3>1. \A j \in DOMAIN r : At(j) \in DOMAIN q /\ r[j] = q[At(j)]
      BY <2>1, <2>3
    <3>2. At(m) = At(n)
      BY <2>6, <3>1 DEF Distinct
    <3>3. QED
      BY <2>1, <2>3, <3>2
  <2>7. QED
    BY <2>2, <2>5, <2>6 DEF Distinct
<1>3. QED
  BY <1>1, <1>2

\* What -push:prioritized: does with a prioritized key, and with an ordinary one.
LEMMA PushForced ==
  ASSUME NEW forced \in Seq(Keys), NEW regular \in Seq(Keys), NEW k \in Keys,
         Distinct(forced), Distinct(regular), Members(forced) \cap Members(regular) = {},
         NEW f, f = AddObject(forced, k), NEW r, r = RemoveObject(regular, k)
  PROVE  /\ Distinct(f) /\ Distinct(r) /\ Members(f) \cap Members(r) = {}
         /\ Members(f) = Members(forced) \cup {k}
         /\ Members(r) = Members(regular) \ {k}
<1>1. Members(f) = Members(forced) \cup {k} /\ Distinct(f)
  BY AddObjectMembers
<1>2. Members(r) = Members(regular) \ {k} /\ Distinct(r)
  BY RemoveObjectMembers
<1>3. QED
  BY <1>1, <1>2

LEMMA PushRegular ==
  ASSUME NEW forced \in Seq(Keys), NEW regular \in Seq(Keys), NEW k \in Keys,
         Distinct(forced), Distinct(regular), Members(forced) \cap Members(regular) = {},
         NEW r, r = IF k \in Members(forced) THEN regular ELSE AddObject(regular, k)
  PROVE  /\ Distinct(r) /\ Members(forced) \cap Members(r) = {}
         /\ Members(r) = Members(regular) \cup ({k} \ Members(forced))
<1>1. CASE k \in Members(forced)
  BY <1>1
<1>2. CASE k \notin Members(forced)
  <2>1. Members(r) = Members(regular) \cup {k} /\ Distinct(r)
    BY <1>2, AddObjectMembers
  <2>2. QED
    BY <1>2, <2>1
<1>3. QED
  BY <1>1, <1>2

LEMMA PopMembers ==
  ASSUME TypeOK, WaitsOnce, NEW f, f = WithoutFirst[1], NEW r, r = WithoutFirst[2]
  PROVE  /\ f \in Seq(Keys) /\ r \in Seq(Keys) /\ Distinct(f) /\ Distinct(r)
         /\ Members(f) = Members(forcedQueue) \ {FirstKey}
         /\ Members(r) = Members(regularQueue) \ {FirstKey}
<1>1. f = RemoveObject(forcedQueue, FirstKey) /\ r = RemoveObject(regularQueue, FirstKey)
  BY DEF WithoutFirst
<1>2. forcedQueue \in Seq(Keys) /\ regularQueue \in Seq(Keys)
  BY DEF TypeOK
<1>3. QED
  BY <1>1, <1>2, RemoveObjectType, RemoveObjectMembers DEF WaitsOnce

\* The first key is a member, and one of the forced queue unless that is empty.
LEMMA FirstKeyMember ==
  ASSUME TypeOK, NEW t \in Threads, TurnsLeft(t)
  PROVE  /\ PopsForced => FirstKey \in Members(forcedQueue)
         /\ ~PopsForced => FirstKey \in Members(regularQueue)
         /\ ~PopsForced => Members(forcedQueue) = {}
<1>1. /\ hand[t].count \in Nat /\ Len(forcedQueue) \in Nat /\ Len(regularQueue) \in Nat
      /\ DOMAIN forcedQueue = 1..Len(forcedQueue) /\ DOMAIN regularQueue = 1..Len(regularQueue)
  BY DEF TypeOK
<1>2. CASE PopsForced
  <2>1. 1 \in DOMAIN forcedQueue /\ FirstKey = forcedQueue[1]
    BY <1>1, <1>2 DEF PopsForced, FirstKey, TypeOK
  <2>2. QED
    BY <1>2, <2>1 DEF Members
<1>3. CASE ~PopsForced
  <2>1. forcedQueue = <<>> /\ Len(forcedQueue) = 0
    BY <1>3 DEF PopsForced
  <2>2. Len(regularQueue) > 0
    BY <1>1, <2>1 DEF TurnsLeft
  <2>3. 1 \in DOMAIN regularQueue /\ FirstKey = regularQueue[1]
    BY <1>1, <1>3, <2>2 DEF FirstKey, TypeOK
  <2>4. QED
    BY <1>1, <1>3, <2>1, <2>3 DEF Members
<1>4. QED
  BY <1>2, <1>3

-----------------------------------------------------------------------------
LEMMA WaitsOnceStep ==
  ASSUME TypeOK, WaitsOnce, [Next]_vars
  PROVE  WaitsOnce'
<1>1. ASSUME UNCHANGED queues
      PROVE  WaitsOnce'
  BY <1>1 DEF queues, WaitsOnce, Members, Distinct
<1>2. ASSUME NEW t \in Threads, FindKey(t)
      PROVE  WaitsOnce'
  <2>1. forcedQueue' = WithoutFirst[1] /\ regularQueue' = WithoutFirst[2]
    BY <1>2 DEF FindKey, SetQueues
  <2>2. /\ Distinct(forcedQueue') /\ Distinct(regularQueue')
        /\ Members(forcedQueue') = Members(forcedQueue) \ {FirstKey}
        /\ Members(regularQueue') = Members(regularQueue) \ {FirstKey}
    BY <2>1, PopMembers
  <2>3. QED
    BY <2>2 DEF WaitsOnce
<1>3. ASSUME NEW t \in Threads, PutBack(t)
      PROVE  WaitsOnce'
  <2> DEFINE f == WithoutFirst[1]
             r == WithoutFirst[2]
  <2>1. FirstKey \in Keys
    BY <1>3, FirstKeyType DEF PutBack
  <2>2. /\ f \in Seq(Keys) /\ r \in Seq(Keys) /\ Distinct(f) /\ Distinct(r)
        /\ Members(f) \cap Members(r) = {}
    BY PopMembers DEF WaitsOnce
  <2>3. /\ forcedQueue' = Push(f, r, FirstKey, PopsForced)[1]
        /\ regularQueue' = Push(f, r, FirstKey, PopsForced)[2]
    BY <1>3 DEF PutBack, SetQueues
  <2> HIDE DEF f, r
  <2>4. CASE PopsForced
    <3>1. forcedQueue' = AddObject(f, FirstKey) /\ regularQueue' = RemoveObject(r, FirstKey)
      BY <2>3, <2>4 DEF Push
    <3>2. QED
      BY <2>1, <2>2, <3>1, PushForced DEF WaitsOnce
  <2>5. CASE ~PopsForced
    <3>1. /\ forcedQueue' = f
          /\ regularQueue' = IF FirstKey \in Members(f) THEN r ELSE AddObject(r, FirstKey)
      BY <2>3, <2>5 DEF Push
    <3>2. QED
      BY <2>1, <2>2, <3>1, PushRegular DEF WaitsOnce
  <2>6. QED
    BY <2>4, <2>5
<1>4. ASSUME NEW t \in Callers, NEW k \in Keys, NEW b \in BOOLEAN, PerformReportForApiKey(t, k, b)
      PROVE  WaitsOnce'
  <2>1. /\ forcedQueue' = Push(forcedQueue, regularQueue, k, b)[1]
        /\ regularQueue' = Push(forcedQueue, regularQueue, k, b)[2]
    BY <1>4 DEF PerformReportForApiKey, SetQueues
  <2>2. /\ forcedQueue \in Seq(Keys) /\ regularQueue \in Seq(Keys)
        /\ Distinct(forcedQueue) /\ Distinct(regularQueue)
        /\ Members(forcedQueue) \cap Members(regularQueue) = {}
    BY DEF TypeOK, WaitsOnce
  <2>3. CASE b
    <3>1. forcedQueue' = AddObject(forcedQueue, k) /\ regularQueue' = RemoveObject(regularQueue, k)
      BY <2>1, <2>3 DEF Push
    <3>2. QED
      BY <2>2, <3>1, PushForced DEF WaitsOnce
  <2>4. CASE ~b
    <3>1. /\ forcedQueue' = forcedQueue
          /\ regularQueue' = IF k \in Members(forcedQueue) THEN regularQueue
                             ELSE AddObject(regularQueue, k)
      BY <2>1, <2>4 DEF Push
    <3>2. QED
      BY <2>2, <3>1, PushRegular DEF WaitsOnce
  <2>5. QED
    BY <2>3, <2>4
<1>5. ASSUME NEW t \in Threads,
             Claim(t) \/ FindNothing(t) \/ Decide(t) \/ PerformReport(t) \/ Release(t)
      PROVE  WaitsOnce'
  BY <1>1, <1>5 DEF Claim, FindNothing, Decide, PerformReport, Release
<1>6. ASSUME NEW k \in Keys, DispatcherCalledBack(k) \/ RegisterDispatcher(k)
      PROVE  WaitsOnce'
  BY <1>1, <1>6 DEF DispatcherCalledBack, RegisterDispatcher
<1>7. CASE Start \/ Shutdown \/ UNCHANGED vars
  BY <1>1, <1>7 DEF Start, Shutdown, vars
<1>8. QED
  BY <1>2, <1>3, <1>4, <1>5, <1>6, <1>7 DEF Next, PerformNextReport

(* A key waits once, whatever is pushed, popped and put back. *)
THEOREM NobodyWaitsTwice == Spec => []WaitsOnce
<1> DEFINE QInv == TypeOK /\ WaitsOnce
<1>1. Init => QInv
  <2> SUFFICES ASSUME Init PROVE WaitsOnce
    BY TypeOKInit
  <2>1. QED
    BY DEF Init, WaitsOnce, Members, Distinct
<1>2. QInv /\ [Next]_vars => QInv'
  BY TypeOKStep, WaitsOnceStep
<1>3. QED
  BY <1>1, <1>2, PTL DEF Spec

-----------------------------------------------------------------------------
(* RequestKept is not inductive: it does not say that a thread that is about to
   look at the queues has no key in hand, which it would lose by taking another. *)
HandFits == \A t \in Threads : pc[t] \in {"idle", "claim", "pop"} => hand[t].key = None

Holds(t, k) == pc[t] \in {"decide", "perform"} /\ hand[t].key = k

Kept ==
  \A k \in Keys :
    /\ <<k, TRUE>> \in wanted =>
         k \in Members(forcedQueue) \/ \E t \in Threads : Holds(t, k) /\ hand[t].forced = TRUE
    /\ <<k, FALSE>> \in wanted =>
         \/ k \in Members(forcedQueue) \/ k \in Members(regularQueue)
         \/ \E t \in Threads : Holds(t, k)

LEMMA HandFitsStep ==
  ASSUME TypeOK, HandFits, [Next]_vars
  PROVE  HandFits'
<1>1. pc \in [Threads -> Steps]
      /\ hand \in [Threads -> [key : Keys \cup {None}, forced : BOOLEAN, count : Nat]]
  BY DEF TypeOK
<1>2. CASE UNCHANGED <<pc, hand>>
  BY <1>2 DEF HandFits
<1>3. ASSUME NEW t \in Threads, Claim(t)
      PROVE  HandFits'
  BY <1>1, <1>3 DEF Claim, Goto, HandFits
<1>4. ASSUME NEW t \in Threads, FindKey(t)
      PROVE  HandFits'
  BY <1>1, <1>4 DEF FindKey, Goto, HandFits
<1>5. ASSUME NEW t \in Threads, PutBack(t)
      PROVE  HandFits'
  BY <1>1, <1>5 DEF PutBack, HandFits
<1>6. ASSUME NEW t \in Threads, FindNothing(t) \/ Decide(t)
      PROVE  HandFits'
  BY <1>1, <1>6 DEF FindNothing, Decide, Goto, HandFits
<1>7. ASSUME NEW t \in Threads, PerformReport(t) \/ Release(t)
      PROVE  HandFits'
  BY <1>1, <1>7 DEF PerformReport, Release, Goto, HandFits, EmptyHand
<1>8. ASSUME NEW t \in Callers, NEW k \in Keys, NEW b \in BOOLEAN, PerformReportForApiKey(t, k, b)
      PROVE  HandFits'
  BY <1>1, <1>8 DEF PerformReportForApiKey, Goto, HandFits, Threads
<1>9. ASSUME NEW k \in Keys, DispatcherCalledBack(k)
      PROVE  HandFits'
  BY <1>1, <1>9 DEF DispatcherCalledBack, Goto, HandFits, Threads
<1>10. CASE (\E k \in Keys : RegisterDispatcher(k)) \/ Start \/ Shutdown \/ UNCHANGED vars
  BY <1>2, <1>10 DEF RegisterDispatcher, Start, Shutdown, vars
<1>11. QED
  BY <1>3, <1>4, <1>5, <1>6, <1>7, <1>8, <1>9, <1>10 DEF Next, PerformNextReport

\* A step that takes no request from anywhere keeps them all.
LEMMA KeptByFrame ==
  ASSUME Kept, wanted' \subseteq wanted,
         Members(forcedQueue) \subseteq Members(forcedQueue'),
         Members(forcedQueue) \cup Members(regularQueue)
           \subseteq Members(forcedQueue') \cup Members(regularQueue'),
         \A t \in Threads, k \in Keys :
           Holds(t, k) => Holds(t, k)' /\ hand'[t].forced = hand[t].forced
  PROVE  Kept'
<1> SUFFICES ASSUME NEW k \in Keys
             PROVE  /\ <<k, TRUE>> \in wanted' =>
                         \/ k \in Members(forcedQueue')
                         \/ \E t \in Threads : Holds(t, k)' /\ hand'[t].forced = TRUE
                    /\ <<k, FALSE>> \in wanted' =>
                         \/ k \in Members(forcedQueue') \/ k \in Members(regularQueue')
                         \/ \E t \in Threads : Holds(t, k)'
  BY DEF Kept, Members
<1>1. ASSUME <<k, TRUE>> \in wanted'
      PROVE  \/ k \in Members(forcedQueue')
             \/ \E t \in Threads : Holds(t, k)' /\ hand'[t].forced = TRUE
  <2>1. k \in Members(forcedQueue) \/ \E t \in Threads : Holds(t, k) /\ hand[t].forced = TRUE
    BY <1>1 DEF Kept
  <2>2. QED
    BY <2>1
<1>2. ASSUME <<k, FALSE>> \in wanted'
      PROVE  \/ k \in Members(forcedQueue') \/ k \in Members(regularQueue')
             \/ \E t \in Threads : Holds(t, k)'
  <2>1. \/ k \in Members(forcedQueue) \/ k \in Members(regularQueue)
        \/ \E t \in Threads : Holds(t, k)
    BY <1>2 DEF Kept
  <2>2. QED
    BY <2>1
<1>3. QED
  BY <1>1, <1>2
LEMMA KeptStep ==
  ASSUME TypeOK, WaitsOnce, HandFits, Kept, [Next]_vars
  PROVE  Kept'
<1>1. /\ pc \in [Threads -> Steps]
      /\ hand \in [Threads -> [key : Keys \cup {None}, forced : BOOLEAN, count : Nat]]
      /\ forcedQueue \in Seq(Keys) /\ regularQueue \in Seq(Keys)
      /\ Distinct(forcedQueue) /\ Distinct(regularQueue)
      /\ Members(forcedQueue) \cap Members(regularQueue) = {}
      /\ None \notin Keys
  BY DispatchingControllerAssumption DEF TypeOK, WaitsOnce, Threads
<1>2. ASSUME UNCHANGED <<forcedQueue, regularQueue>>, wanted' \subseteq wanted,
             \A t \in Threads, k \in Keys :
               Holds(t, k) => Holds(t, k)' /\ hand'[t].forced = hand[t].forced
      PROVE  Kept'
  BY <1>2, KeptByFrame
<1>3. CASE UNCHANGED <<forcedQueue, regularQueue, wanted, pc, hand>>
  BY <1>2, <1>3 DEF Holds
<1>4. ASSUME NEW t \in Threads, Claim(t)
      PROVE  Kept'
  <2>1. \A u \in Threads, k \in Keys :
          Holds(u, k) => Holds(u, k)' /\ hand'[u].forced = hand[u].forced
    BY <1>1, <1>4 DEF Claim, Goto, Holds
  <2>2. QED
    BY <1>2, <1>4, <2>1 DEF Claim, queues
<1>5. ASSUME NEW t \in Threads, FindNothing(t)
      PROVE  Kept'
  <2>1. \A u \in Threads, k \in Keys :
          Holds(u, k) => Holds(u, k)' /\ hand'[u].forced = hand[u].forced
    BY <1>1, <1>5 DEF FindNothing, Goto, Holds
  <2>2. QED
    BY <1>2, <1>5, <2>1 DEF FindNothing, queues
<1>6. ASSUME NEW t \in Threads, Release(t)
      PROVE  Kept'
  <2>1. \A u \in Threads, k \in Keys :
          Holds(u, k) => Holds(u, k)' /\ hand'[u].forced = hand[u].forced
    BY <1>1, <1>6 DEF Release, Goto, Holds
  <2>2. QED
    BY <1>2, <1>6, <2>1 DEF Release, queues
<1>7. ASSUME NEW k \in Keys, DispatcherCalledBack(k)
      PROVE  Kept'
  <2>1. \A u \in Threads, m \in Keys :
          Holds(u, m) => Holds(u, m)' /\ hand'[u].forced = hand[u].forced
    BY <1>1, <1>7 DEF DispatcherCalledBack, Goto, Holds, Threads
  <2>2. QED
    BY <1>2, <1>7, <2>1 DEF DispatcherCalledBack, queues
\* A key without a dispatcher goes back to the queue it came from.
<1>8. ASSUME NEW t \in Threads, PutBack(t)
      PROVE  Kept'
  <2> DEFINE f == WithoutFirst[1]
             r == WithoutFirst[2]
  <2>1. /\ FirstKey \in Keys
        /\ PopsForced => FirstKey \in Members(forcedQueue)
        /\ ~PopsForced => FirstKey \in Members(regularQueue) /\ Members(forcedQueue) = {}
    BY <1>8, FirstKeyType, FirstKeyMember DEF PutBack
  <2>2. /\ f \in Seq(Keys) /\ r \in Seq(Keys) /\ Distinct(f) /\ Distinct(r)
        /\ Members(f) = Members(forcedQueue) \ {FirstKey}
        /\ Members(r) = Members(regularQueue) \ {FirstKey}
    BY PopMembers
  <2>3. /\ forcedQueue' = Push(f, r, FirstKey, PopsForced)[1]
        /\ regularQueue' = Push(f, r, FirstKey, PopsForced)[2]
    BY <1>8 DEF PutBack, SetQueues
  <2> HIDE DEF f, r
  <2>4. Members(f) \cap Members(r) = {}
    BY <1>1, <2>2
  <2>5. /\ Members(forcedQueue) \subseteq Members(forcedQueue')
        /\ Members(forcedQueue) \cup Members(regularQueue)
             \subseteq Members(forcedQueue') \cup Members(regularQueue')
    <3>1. CASE PopsForced
      <4>1. forcedQueue' = AddObject(f, FirstKey) /\ regularQueue' = RemoveObject(r, FirstKey)
        BY <2>3, <3>1 DEF Push
      <4>2. /\ Members(forcedQueue') = Members(f) \cup {FirstKey}
            /\ Members(regularQueue') = Members(r) \ {FirstKey}
        BY <2>1, <2>2, <2>4, <4>1, PushForced
      <4>3. QED
        BY <2>2, <4>2
    <3>2. CASE ~PopsForced
      <4>1. /\ forcedQueue' = f
            /\ regularQueue' = IF FirstKey \in Members(f) THEN r ELSE AddObject(r, FirstKey)
        BY <2>3, <3>2 DEF Push
      <4>2. Members(regularQueue') = Members(r) \cup ({FirstKey} \ Members(f))
        BY <2>1, <2>2, <2>4, <4>1, PushRegular
      <4>3. QED
        BY <2>1, <2>2, <3>2, <4>1, <4>2
    <3>3. QED
      BY <3>1, <3>2
  <2>6. \A u \in Threads, k \in Keys :
          Holds(u, k) => Holds(u, k)' /\ hand'[u].forced = hand[u].forced
    BY <1>1, <1>8 DEF PutBack, Holds
  <2>7. wanted' \subseteq wanted
    BY <1>8 DEF PutBack
  <2>8. QED
    BY <2>5, <2>6, <2>7, KeptByFrame
\* A key found goes into a hand that was empty, forced if it was.
<1>9. ASSUME NEW t \in Threads, FindKey(t)
      PROVE  Kept'
  <2>1. /\ PopsForced => FirstKey \in Members(forcedQueue)
        /\ ~PopsForced => Members(forcedQueue) = {}
        /\ FirstKey \in Keys /\ PopsForced \in BOOLEAN
    BY <1>9, FirstKeyType, FirstKeyMember DEF FindKey
  <2>2. forcedQueue' = WithoutFirst[1] /\ regularQueue' = WithoutFirst[2] /\ wanted' = wanted
    BY <1>9 DEF FindKey, SetQueues
  <2>3. /\ Members(forcedQueue') = Members(forcedQueue) \ {FirstKey}
        /\ Members(regularQueue') = Members(regularQueue) \ {FirstKey}
    BY <2>2, PopMembers
  <2>4. \A k \in Keys : k = FirstKey => Holds(t, k)' /\ (PopsForced => hand'[t].forced = TRUE)
    <3>1. pc'[t] = "decide" /\ hand'[t].key = FirstKey
      BY <1>1, <1>9 DEF FindKey, Goto
    <3>2. hand'[t].forced = PopsForced
      BY <1>1, <1>9 DEF FindKey
    <3>3. PopsForced => hand'[t].forced = TRUE
      BY <2>1, <3>2, Zenon
    <3>4. QED
      BY <3>1, <3>3 DEF Holds
  <2>5. \A u \in Threads, k \in Keys :
          Holds(u, k) => Holds(u, k)' /\ hand'[u].forced = hand[u].forced
    BY <1>1, <1>9 DEF FindKey, Goto, Holds
  <2>6. ASSUME NEW k \in Keys, <<k, TRUE>> \in wanted'
        PROVE  k \in Members(forcedQueue') \/ \E u \in Threads : Holds(u, k)' /\ hand'[u].forced = TRUE
    <3>1. k \in Members(forcedQueue) \/ \E u \in Threads : Holds(u, k) /\ hand[u].forced = TRUE
      BY <2>2, <2>6 DEF Kept
    <3>2. CASE k = FirstKey /\ k \in Members(forcedQueue)
      BY <2>1, <2>4, <3>2
    <3>3. CASE k # FirstKey /\ k \in Members(forcedQueue)
      BY <2>3, <3>3
    <3>4. CASE \E u \in Threads : Holds(u, k) /\ hand[u].forced = TRUE
      BY <2>5, <3>4
    <3>5. QED
      BY <3>1, <3>2, <3>3, <3>4
  <2>7. ASSUME NEW k \in Keys, <<k, FALSE>> \in wanted'
        PROVE  \/ k \in Members(forcedQueue') \/ k \in Members(regularQueue')
               \/ \E u \in Threads : Holds(u, k)'
    <3>1. \/ k \in Members(forcedQueue) \/ k \in Members(regularQueue)
          \/ \E u \in Threads : Holds(u, k)
      BY <2>2, <2>7 DEF Kept
    <3>2. CASE k = FirstKey
      BY <2>4, <3>2
    <3>3. CASE k # FirstKey /\ (k \in Members(forcedQueue) \/ k \in Members(regularQueue))
      BY <2>3, <3>3
    <3>4. CASE \E u \in Threads : Holds(u, k)
      BY <2>5, <3>4
    <3>5. QED
      BY <3>1, <3>2, <3>3, <3>4
  <2>8. QED
    BY <2>6, <2>7 DEF Kept, Members
\* What is released was not to be reported: no key, or an ordinary one while shut down.
<1>10. ASSUME NEW t \in Threads, Decide(t)
       PROVE  Kept'
  <2>1. hand' = hand /\ forcedQueue' = forcedQueue /\ regularQueue' = regularQueue
    BY <1>10 DEF Decide, queues
  <2>2. ASSUME NEW u \in Threads, NEW k \in Keys, Holds(u, k), u # t \/ IsAllowed(t)
        PROVE  Holds(u, k)'
    BY <1>1, <1>10, <2>2 DEF Decide, Goto, Holds
  <2>3. ASSUME NEW k \in Keys, <<k, TRUE>> \in wanted'
        PROVE  k \in Members(forcedQueue) \/ \E u \in Threads : Holds(u, k)' /\ hand[u].forced = TRUE
    <3>1. k \in Members(forcedQueue) \/ \E u \in Threads : Holds(u, k) /\ hand[u].forced = TRUE
      BY <1>10, <2>3 DEF Decide, Kept
    <3>2. ASSUME NEW u \in Threads, Holds(u, k), hand[u].forced = TRUE
          PROVE  Holds(u, k)'
      BY <1>1, <2>2, <3>2 DEF IsAllowed, Holds
    <3>3. QED
      BY <3>1, <3>2
  <2>4. ASSUME NEW k \in Keys, <<k, FALSE>> \in wanted'
        PROVE  \/ k \in Members(forcedQueue) \/ k \in Members(regularQueue)
               \/ \E u \in Threads : Holds(u, k)'
    <3>1. <<k, FALSE>> \in wanted
      BY <1>10, <2>4 DEF Decide
    <3>2. \/ k \in Members(forcedQueue) \/ k \in Members(regularQueue)
          \/ \E u \in Threads : Holds(u, k)
      BY <3>1 DEF Kept
    <3>3. ASSUME NEW u \in Threads, Holds(u, k)
          PROVE  Holds(u, k)'
      <4>1. CASE u # t \/ IsAllowed(t)
        BY <2>2, <3>3, <4>1
      <4>2. CASE u = t /\ ~IsAllowed(t)
        <5>1. hand[t].key = k /\ ~(hand[t].forced \/ started)
          BY <1>1, <3>3, <4>2 DEF Holds, IsAllowed
        <5>2. wanted' = wanted \ {<<k, FALSE>>}
          BY <1>10, <5>1 DEF Decide
        <5>3. QED
          BY <2>4, <5>2
      <4>3. QED
        BY <4>1, <4>2
    <3>4. QED
      BY <3>2, <3>3
  <2>5. QED
    BY <2>1, <2>3, <2>4 DEF Kept, Members
\* The key whose dispatcher is told to report is not wanted any more.
<1>11. ASSUME NEW t \in Threads, PerformReport(t)
       PROVE  Kept'
  <2>1. /\ forcedQueue' = forcedQueue /\ regularQueue' = regularQueue
        /\ wanted' = wanted \ ({hand[t].key} \X BOOLEAN)
    BY <1>11 DEF PerformReport, queues
  <2>2. ASSUME NEW u \in Threads, NEW k \in Keys, Holds(u, k), k # hand[t].key
        PROVE  Holds(u, k)' /\ hand'[u].forced = hand[u].forced
    <3>1. u # t
      BY <2>2 DEF Holds
    <3>2. QED
      BY <1>1, <1>11, <2>2, <3>1 DEF PerformReport, Goto, Holds
  <2>3. ASSUME NEW k \in Keys, NEW b \in BOOLEAN, <<k, b>> \in wanted'
        PROVE  k # hand[t].key /\ <<k, b>> \in wanted
    BY <2>1, <2>3
  <2>4. ASSUME NEW k \in Keys, <<k, TRUE>> \in wanted'
        PROVE  k \in Members(forcedQueue) \/ \E u \in Threads : Holds(u, k)' /\ hand'[u].forced = TRUE
    <3>1. k # hand[t].key /\ <<k, TRUE>> \in wanted
      BY <2>3, <2>4
    <3>2. k \in Members(forcedQueue) \/ \E u \in Threads : Holds(u, k) /\ hand[u].forced = TRUE
      BY <3>1 DEF Kept
    <3>3. QED
      BY <2>2, <3>1, <3>2
  <2>5. ASSUME NEW k \in Keys, <<k, FALSE>> \in wanted'
        PROVE  \/ k \in Members(forcedQueue) \/ k \in Members(regularQueue)
               \/ \E u \in Threads : Holds(u, k)'
    <3>1. k # hand[t].key /\ <<k, FALSE>> \in wanted
      BY <2>3, <2>5
    <3>2. QED
      BY <2>2, <3>1 DEF Kept
  <2>6. QED
    BY <2>1, <2>4, <2>5 DEF Kept, Members
\* A new request is pushed: it does not demote a forced key.
<1>12. ASSUME NEW t \in Callers, NEW k \in Keys, NEW b \in BOOLEAN, PerformReportForApiKey(t, k, b)
       PROVE  Kept'
  <2>1. /\ forcedQueue' = Push(forcedQueue, regularQueue, k, b)[1]
        /\ regularQueue' = Push(forcedQueue, regularQueue, k, b)[2]
        /\ hand' = hand
    BY <1>12 DEF PerformReportForApiKey, SetQueues
  <2>2. /\ Members(forcedQueue) \subseteq Members(forcedQueue')
        /\ Members(forcedQueue') \cup Members(regularQueue')
             = Members(forcedQueue) \cup Members(regularQueue) \cup {k}
        /\ <<k, TRUE>> \in wanted' /\ <<k, TRUE>> \notin wanted => k \in Members(forcedQueue')
    <3>1. CASE b
      <4>1. forcedQueue' = AddObject(forcedQueue, k) /\ regularQueue' = RemoveObject(regularQueue, k)
        BY <2>1, <3>1 DEF Push
      <4>2. /\ Members(forcedQueue') = Members(forcedQueue) \cup {k}
            /\ Members(regularQueue') = Members(regularQueue) \ {k}
        BY <1>1, <4>1, PushForced
      <4>3. QED
        BY <4>2
    <3>2. CASE ~b
      <4>1. /\ forcedQueue' = forcedQueue
            /\ regularQueue' = IF k \in Members(forcedQueue) THEN regularQueue
                               ELSE AddObject(regularQueue, k)
        BY <2>1, <3>2 DEF Push
      <4>2. Members(regularQueue') = Members(regularQueue) \cup ({k} \ Members(forcedQueue))
        BY <1>1, <4>1, PushRegular
      <4>3. wanted' = wanted \cup {<<k, FALSE>>}
        BY <1>12, <3>2 DEF PerformReportForApiKey
      <4>4. QED
        BY <4>1, <4>2, <4>3
    <3>3. QED
      BY <3>1, <3>2
  <2>3. \A u \in Threads, m \in Keys : Holds(u, m) => Holds(u, m)'
    BY <1>1, <1>12 DEF PerformReportForApiKey, Goto, Holds
  <2>4. ASSUME NEW m \in Keys, NEW c \in BOOLEAN, <<m, c>> \in wanted', <<m, c>> \notin wanted
        PROVE  m = k
    BY <1>12, <2>4 DEF PerformReportForApiKey
  <2>5. ASSUME NEW m \in Keys, <<m, TRUE>> \in wanted'
        PROVE  \/ m \in Members(forcedQueue')
               \/ \E u \in Threads : Holds(u, m)' /\ hand'[u].forced = TRUE
    <3>1. CASE <<m, TRUE>> \in wanted
      <4>1. m \in Members(forcedQueue) \/ \E u \in Threads : Holds(u, m) /\ hand[u].forced = TRUE
        BY <3>1 DEF Kept
      <4>2. QED
        BY <2>1, <2>2, <2>3, <4>1
    <3>2. CASE <<m, TRUE>> \notin wanted
      BY <2>2, <2>4, <2>5, <3>2
    <3>3. QED
      BY <3>1, <3>2
  <2>6. ASSUME NEW m \in Keys, <<m, FALSE>> \in wanted'
        PROVE  \/ m \in Members(forcedQueue') \/ m \in Members(regularQueue')
               \/ \E u \in Threads : Holds(u, m)'
    <3>1. CASE <<m, FALSE>> \in wanted
      <4>1. \/ m \in Members(forcedQueue) \/ m \in Members(regularQueue)
            \/ \E u \in Threads : Holds(u, m)
        BY <3>1 DEF Kept
      <4>2. QED
        BY <2>2, <2>3, <4>1
    <3>2. CASE <<m, FALSE>> \notin wanted
      BY <2>2, <2>4, <2>6, <3>2
    <3>3. QED
      BY <3>1, <3>2
  <2>7. QED
    BY <2>5, <2>6 DEF Kept, Members
<1>13. CASE (\E k \in Keys : RegisterDispatcher(k)) \/ Start \/ Shutdown \/ UNCHANGED vars
  BY <1>3, <1>13 DEF RegisterDispatcher, Start, Shutdown, vars, queues
<1>14. QED
  BY <1>4, <1>5, <1>6, <1>7, <1>8, <1>9, <1>10, <1>11, <1>12, <1>13 DEF Next, PerformNextReport

(* A request is forgotten only by being performed, or dropped as an ordinary one
   of a controller that is shut down: -performReportForApiKey:forced:, the loop of
   -performNextReport and AMAUniquePriorityQueue keep it, for any number of keys,
   callers and requests. *)
THEOREM NoRequestForgotten == Spec => []RequestKept
<1> DEFINE KInv == TypeOK /\ WaitsOnce /\ HandFits /\ Kept
<1>1. Init => KInv
  <2> SUFFICES ASSUME Init PROVE WaitsOnce /\ HandFits /\ Kept
    BY TypeOKInit
  <2>1. WaitsOnce
    BY DEF Init, WaitsOnce, Members, Distinct
  <2>2. HandFits
    BY DEF Init, HandFits, EmptyHand
  <2>3. Kept
    BY DEF Init, Kept
  <2>4. QED
    BY <2>1, <2>2, <2>3
<1>2. KInv /\ [Next]_vars => KInv'
  BY TypeOKStep, WaitsOnceStep, HandFitsStep, KeptStep
<1>3. KInv => RequestKept
  <2> SUFFICES ASSUME KInv, NEW k \in Keys
               PROVE  LET InHand == {t \in Chain : hand[t].key = k /\ pc[t] # "release"} IN
                      /\ <<k, TRUE>> \in wanted =>
                           k \in Members(forcedQueue) \/ \E t \in InHand : hand[t].forced
                      /\ <<k, FALSE>> \in wanted => k \in Queued \/ InHand # {}
    BY DEF RequestKept
  <2> DEFINE InHand == {t \in Chain : hand[t].key = k /\ pc[t] # "release"}
  <2>1. \A t \in Threads : Holds(t, k) => t \in InHand
    BY DEF Holds, Chain
  <2>2. <<k, TRUE>> \in wanted => k \in Members(forcedQueue) \/ \E t \in InHand : hand[t].forced
    BY <2>1 DEF Kept
  <2>3. <<k, FALSE>> \in wanted => k \in Queued \/ InHand # {}
    BY <2>1 DEF Kept, Queued
  <2>4. QED
    BY <2>2, <2>3
<1>4. QED
  BY <1>1, <1>2, <1>3, PTL DEF Spec
=============================================================================
