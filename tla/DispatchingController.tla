------------------------ MODULE DispatchingController ------------------------
(***************************************************************************)
(* AMADispatchingController and its AMAUniquePriorityQueue: the API keys   *)
(* whose events are to be reported wait in a forced and in a regular       *)
(* queue, and one chain of calls takes them one by one.  The chain is      *)
(* started by the caller that finds isWorking cleared, and goes on in the  *)
(* callbacks of the dispatchers, each on the executor of its own key.      *)
(*                                                                         *)
(* Every @synchronized block is a step, and the queue lock is a variable,  *)
(* since performNextReport holds it over several looks at the dispatchers. *)
(* What a dispatcher does between performReport and its callback is the    *)
(* subject of ReportDelivery; here it is a callback that is owed.          *)
(***************************************************************************)
EXTENDS Naturals, Sequences

CONSTANTS
  Keys,      \* API keys; the executor of a key's dispatcher has the key's name
  Callers,   \* other threads: the strategies' executor, the user's threads
  TwoEnded,  \* keys whose round may call back twice: both controllers of the proxy can fail
  None,      \* no key, no thread
  MaxCalls   \* bound: performReportForApiKey:forced: calls

Threads == Keys \cup Callers

ASSUME DispatchingControllerAssumption ==
  /\ Keys \cap Callers = {}
  /\ TwoEnded \subseteq Keys
  /\ None \notin Threads
  /\ MaxCalls \in Nat

VARIABLES
  dispatchers,   \* the keys that have a dispatcher
  forcedQueue,   \* forcedApiKeysQueue
  regularQueue,  \* regularApiKeysQueue
  queueLock,     \* the thread that holds queueLock between two steps
  isWorking,
  started,
  pc,            \* what each thread does next
  hand,          \* the locals of each thread in performNextReport
  owed,          \* callbacks each dispatcher is to make
  wanted,        \* history: requests <<key, forced>> that were neither performed nor dropped
  doubled,       \* history: a round was to call back twice
  calls          \* counter for the bound

queues == <<forcedQueue, regularQueue>>
vars   == <<dispatchers, queues, queueLock, isWorking, started, pc, hand, owed, wanted, doubled,
          calls>>

Members(q) == {q[i] : i \in DOMAIN q}
Queued     == Members(forcedQueue) \cup Members(regularQueue)

\* -addObject: and -removeObject: of an ordered set.
AddObject(q, k) == IF k \in Members(q) THEN q ELSE Append(q, k)

RemoveObject(q, k) ==
  IF k \in Members(q)
  THEN LET i == CHOOSE j \in DOMAIN q : q[j] = k
       IN  SubSeq(q, 1, i - 1) \o SubSeq(q, i + 1, Len(q))
  ELSE q

\* The queues <<forced, regular>> after -push:prioritized:, and what
\* -popPrioritized: takes from them.
PushDemoting(forced, regular, k, prioritized) ==
  IF prioritized
  THEN <<AddObject(forced, k), RemoveObject(regular, k)>>
  ELSE <<RemoveObject(forced, k), AddObject(regular, k)>>

PushTwice(forced, regular, k, prioritized) ==
  IF prioritized
  THEN <<AddObject(forced, k), regular>>
  ELSE <<forced, IF k \in Members(forced) THEN regular ELSE AddObject(regular, k)>>

Push(forced, regular, k, prioritized) ==
  IF prioritized
  THEN <<AddObject(forced, k), RemoveObject(regular, k)>>
  ELSE <<forced, IF k \in Members(forced) THEN regular ELSE AddObject(regular, k)>>

PopsForced    == forcedQueue # <<>>
FirstKey      == IF PopsForced THEN Head(forcedQueue) ELSE Head(regularQueue)
WithoutFirst  == <<RemoveObject(forcedQueue, FirstKey), RemoveObject(regularQueue, FirstKey)>>

EmptyHand == [key |-> None, forced |-> FALSE, count |-> 0]

Steps == {"idle", "claim", "pop", "decide", "perform", "release"}

Init ==
  /\ dispatchers = {}
  /\ forcedQueue = <<>> /\ regularQueue = <<>>
  /\ queueLock = None
  /\ isWorking = FALSE
  /\ started = FALSE
  /\ pc = [t \in Threads |-> "idle"]
  /\ hand = [t \in Threads |-> EmptyHand]
  /\ owed = [k \in Keys |-> 0]
  /\ wanted = {}
  /\ doubled = FALSE
  /\ calls = 0

SetQueues(q) == forcedQueue' = q[1] /\ regularQueue' = q[2]

Goto(t, step) == pc' = [pc EXCEPT ![t] = step]

-----------------------------------------------------------------------------
(* -performReportForApiKey:forced:, first the queue, then isWorking. *)
PerformReportForApiKey(t, k, forced) ==
  /\ pc[t] = "idle" /\ queueLock = None
  /\ calls < MaxCalls
  /\ calls' = calls + 1
  /\ SetQueues(Push(forcedQueue, regularQueue, k, forced))
  /\ wanted' = wanted \cup {<<k, forced>>}
  /\ Goto(t, "claim")
  /\ UNCHANGED <<dispatchers, queueLock, isWorking, started, hand, owed, doubled>>

ClaimAlways(t) ==
  /\ pc[t] = "claim"
  /\ isWorking' = TRUE
  /\ Goto(t, "pop")
  /\ UNCHANGED <<dispatchers, queues, queueLock, started, hand, owed, wanted, doubled, calls>>

Claim(t) ==
  /\ pc[t] = "claim"
  /\ isWorking' = TRUE
  /\ Goto(t, IF isWorking THEN "idle" ELSE "pop")
  /\ UNCHANGED <<dispatchers, queues, queueLock, started, hand, owed, wanted, doubled, calls>>

(* One turn of the loop of -performNextReport, under queueLock: it ends with
   a key that has a dispatcher, or when it has made as many turns as there
   are keys in the queues.  A key without a dispatcher goes back. *)
TurnsLeftButOne(t) == hand[t].count + 1 < Len(forcedQueue) + Len(regularQueue)
TurnsLeft(t)       == hand[t].count < Len(forcedQueue) + Len(regularQueue)

FindKey(t) ==
  /\ pc[t] = "pop" /\ queueLock \in {None, t}
  /\ TurnsLeft(t)
  /\ FirstKey \in dispatchers
  /\ SetQueues(WithoutFirst)
  /\ hand' = [hand EXCEPT ![t].key = FirstKey, ![t].forced = PopsForced]
  /\ queueLock' = None
  /\ Goto(t, "decide")
  /\ UNCHANGED <<dispatchers, isWorking, started, owed, wanted, doubled, calls>>

PutBackUncounted(t) ==
  /\ pc[t] = "pop" /\ queueLock \in {None, t}
  /\ TurnsLeft(t)
  /\ FirstKey \notin dispatchers
  /\ SetQueues(Push(WithoutFirst[1], WithoutFirst[2], FirstKey, PopsForced))
  /\ queueLock' = t
  /\ UNCHANGED <<dispatchers, isWorking, started, pc, hand, owed, wanted, doubled, calls>>

PutBack(t) ==
  /\ pc[t] = "pop" /\ queueLock \in {None, t}
  /\ TurnsLeft(t)
  /\ FirstKey \notin dispatchers
  /\ SetQueues(Push(WithoutFirst[1], WithoutFirst[2], FirstKey, PopsForced))
  /\ hand' = [hand EXCEPT ![t].count = @ + 1]
  /\ queueLock' = t
  /\ UNCHANGED <<dispatchers, isWorking, started, pc, owed, wanted, doubled, calls>>

FindNothingStillLocked(t) ==
  /\ pc[t] = "pop" /\ queueLock \in {None, t}
  /\ ~TurnsLeft(t)
  /\ Goto(t, "decide")
  /\ UNCHANGED <<dispatchers, queues, queueLock, isWorking, started, hand, owed, wanted, doubled,
                 calls>>

FindNothing(t) ==
  /\ pc[t] = "pop" /\ queueLock \in {None, t}
  /\ ~TurnsLeft(t)
  /\ queueLock' = None
  /\ Goto(t, "decide")
  /\ UNCHANGED <<dispatchers, queues, isWorking, started, hand, owed, wanted, doubled, calls>>

(* The rest of -performNextReport: a key that was not forced is dropped when
   the controller is shut down. *)
IsAllowed(t) == (hand[t].forced \/ started) /\ hand[t].key # None

Decide(t) ==
  /\ pc[t] = "decide"
  /\ Goto(t, IF IsAllowed(t) THEN "perform" ELSE "release")
  /\ wanted' = IF started \/ hand[t].forced THEN wanted ELSE wanted \ {<<hand[t].key, FALSE>>}
  /\ UNCHANGED <<dispatchers, queues, queueLock, isWorking, started, hand, owed, doubled, calls>>

PerformReport(t) ==
  /\ pc[t] = "perform"
  /\ \E n \in IF hand[t].key \in TwoEnded THEN 1..2 ELSE {1} :
       /\ owed' = [owed EXCEPT ![hand[t].key] = @ + n]
       /\ doubled' = (doubled \/ n = 2)
  /\ wanted' = wanted \ ({hand[t].key} \X BOOLEAN)
  /\ hand' = [hand EXCEPT ![t] = EmptyHand]
  /\ Goto(t, "idle")
  /\ UNCHANGED <<dispatchers, queues, queueLock, isWorking, started, calls>>

Release(t) ==
  /\ pc[t] = "release"
  /\ isWorking' = FALSE
  /\ hand' = [hand EXCEPT ![t] = EmptyHand]
  /\ Goto(t, "idle")
  /\ UNCHANGED <<dispatchers, queues, queueLock, started, owed, wanted, doubled, calls>>

(* The three AMADispatcherDelegate methods: each goes on with the queue, on
   the executor of its dispatcher. *)
DispatcherCalledBack(k) ==
  /\ pc[k] = "idle"
  /\ owed[k] > 0
  /\ owed' = [owed EXCEPT ![k] = @ - 1]
  /\ Goto(k, "pop")
  /\ UNCHANGED <<dispatchers, queues, queueLock, isWorking, started, hand, wanted, doubled, calls>>

-----------------------------------------------------------------------------
(* The calls of AMAAppMetricaImpl.  The cancelPending that -shutdown sends to
   every dispatcher is in ReportDelivery: it changes nothing here. *)
RegisterDispatcher(k) ==
  /\ k \notin dispatchers
  /\ dispatchers' = dispatchers \cup {k}
  /\ UNCHANGED <<queues, queueLock, isWorking, started, pc, hand, owed, wanted, doubled, calls>>

Start ==
  /\ ~started
  /\ started' = TRUE
  /\ UNCHANGED <<dispatchers, queues, queueLock, isWorking, pc, hand, owed, wanted, doubled, calls>>

Shutdown ==
  /\ started
  /\ started' = FALSE
  /\ UNCHANGED <<dispatchers, queues, queueLock, isWorking, pc, hand, owed, wanted, doubled, calls>>

PerformNextReport(t) ==
  FindKey(t) \/ PutBack(t) \/ FindNothing(t) \/ Decide(t) \/ PerformReport(t) \/ Release(t)

Next ==
  \/ \E t \in Threads : Claim(t) \/ PerformNextReport(t)
  \/ \E t \in Callers, k \in Keys, forced \in BOOLEAN : PerformReportForApiKey(t, k, forced)
  \/ \E k \in Keys : DispatcherCalledBack(k) \/ RegisterDispatcher(k)
  \/ Start
  \/ Shutdown

Spec == Init /\ [][Next]_vars

(* Threads run, and every dispatcher makes the callbacks it owes (which is
   ReportDelivery's RoundEnds). *)
Fairness ==
  /\ \A t \in Threads : WF_vars(Claim(t)) /\ WF_vars(PerformNextReport(t))
  /\ \A k \in Keys : WF_vars(DispatcherCalledBack(k))

FairSpec == Spec /\ Fairness

-----------------------------------------------------------------------------
TypeOK ==
  /\ dispatchers \subseteq Keys
  /\ forcedQueue \in Seq(Keys) /\ regularQueue \in Seq(Keys)
  /\ queueLock \in {None} \cup {t \in Threads : pc[t] = "pop"}
  /\ isWorking \in BOOLEAN
  /\ started \in BOOLEAN
  /\ pc \in [Threads -> Steps]
  /\ hand \in [Threads -> [key : Keys \cup {None}, forced : BOOLEAN, count : Nat]]
  /\ owed \in [Keys -> Nat]
  /\ wanted \subseteq Keys \X BOOLEAN
  /\ doubled \in BOOLEAN
  /\ calls \in 0..MaxCalls

\* The threads inside performNextReport.
Chain == {t \in Threads : pc[t] \in {"pop", "decide", "perform", "release"}}

(* One report at a time: as long as every round has called back once, isWorking
   is set exactly when a thread is inside performNextReport or a dispatcher owes
   its callback, and never two of these at once.  Two chains would report two
   keys in parallel, and the first to end would clear isWorking under the other:
   what a round that calls back twice leads to. *)
OneChain ==
  ~doubled =>
    /\ isWorking <=> Chain # {} \/ \E k \in Keys : owed[k] > 0
    /\ \A t, u \in Chain : t = u
    /\ \A k \in Keys : owed[k] > 0 => owed[k] = 1 /\ Chain = {}
    /\ \A k, m \in Keys : owed[k] > 0 /\ owed[m] > 0 => k = m

(* No request is forgotten: a key that was asked for stays in a queue or in the
   hand of a thread until its dispatcher is told to report; only a key that was
   not forced, found while the controller is shut down, is dropped.  In
   particular a key without a dispatcher is kept, and an ordinary request does
   not demote a forced one. *)
RequestKept ==
  \A k \in Keys :
    LET InHand == {t \in Chain : hand[t].key = k /\ pc[t] # "release"} IN
    /\ <<k, TRUE>> \in wanted =>
         k \in Members(forcedQueue) \/ \E t \in InHand : hand[t].forced
    /\ <<k, FALSE>> \in wanted => k \in Queued \/ InHand # {}

Distinct(q) == \A i, j \in DOMAIN q : q[i] = q[j] => i = j

(* A key waits once: it would be reported twice for one request otherwise, and
   the second time as an ordinary key after it was forced. *)
WaitsOnce ==
  /\ Members(forcedQueue) \cap Members(regularQueue) = {}
  /\ Distinct(forcedQueue) /\ Distinct(regularQueue)

(* The chain ends, whatever keys without a dispatcher are in the queues. *)
ChainEnds == isWorking ~> ~isWorking

(* A forced key that has a dispatcher and waits when the chain is about to look
   at the queues leaves them. *)
ChainServesForced ==
  \A k \in Keys :
    /\ k \in dispatchers \cap Members(forcedQueue)
    /\ queueLock = None
    /\ \E t \in Threads : pc[t] = "pop"
    ~> k \notin Members(forcedQueue)

(* What the test "Should perform forced if not started" says: a forced key that
   has a dispatcher is reported.  A request that comes after the chain has found
   the queues empty and before it clears isWorking wakes nobody. *)
ForcedIsPerformed ==
  \A k \in Keys :
    k \in dispatchers \cap Members(forcedQueue) ~> k \notin Members(forcedQueue)
=============================================================================
