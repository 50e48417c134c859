----------------------- MODULE StartupControllerProofs -----------------------
(***************************************************************************)
(* Theorems about StartupController, for every number of hosts, usable or  *)
(* not, every width of int and every bound.                                *)
(***************************************************************************)
EXTENDS StartupController, SequenceTheorems, TLAPS

\* What is in hand and in the inbox when n requestors were made.
Hands(n)   == [at : {"idle", "parsed", "failed", "accepted"}, from : 0..n, outcome : Outcomes]
Answers(n) == [from : 1..n, outcome : Outcomes]

USE DEF Hands, Answers

(* The inductive invariant.  An update is in one of these phases: nothing is
   under way, the block of the requestor waits, its task runs, its answer is on
   the executor or in hand, or its start did nothing. *)
Empty == delayed = {} /\ wire = {} /\ inbox = <<>>

Idle     == current = 0 /\ Empty /\ hand.at \in {"idle", "accepted"}
Waits    == /\ current # 0 /\ delayed = {current} /\ wire = {} /\ inbox = <<>>
            /\ hand.at \in {"idle", "accepted"}
Runs     == current # 0 /\ delayed = {} /\ wire = {current} /\ inbox = <<>> /\ hand.at = "idle"
Answered == /\ current # 0 /\ delayed = {} /\ wire = {} /\ hand.at = "idle"
            /\ Len(inbox) = 1 /\ inbox[1].from = current
Handled  == current # 0 /\ Empty /\ hand.at \in {"parsed", "failed"} /\ hand.from = current
Silent   == current # 0 /\ Empty /\ hand.at = "idle" /\ host \in Unusable

Phase == Idle \/ Waits \/ Runs \/ Answered \/ Handled \/ Silent

\* The hosts before the one of the current requestor have been given up.
InTurn == current # 0 => host \in Hosts /\ tried = 1..(host - 1)

\* What was accepted and not yet synchronized is what was dated.
AcceptedIsDated == hand.at = "accepted" => config = stamp

IInv == TypeOK /\ Phase /\ InTurn /\ OneOutcome /\ AcceptedIsDated /\ DatedIsStored

-----------------------------------------------------------------------------
LEMMA InitIInv == Init => IInv
<1> SUFFICES ASSUME Init PROVE IInv
  OBVIOUS
<1> USE StartupControllerAssumption DEF StartupControllerAssumption
<1>1. hand \in Hands(made)
  BY DEF Init, Nothing, Outcomes
<1>2. hand.at = "idle"
  BY DEF Init, Nothing
<1>3. inbox \in Seq(Answers(made))
  BY DEF Init
<1>4. TypeOK
  <2>1. current \in 0..made /\ made \in Nat /\ host \in 0..NHosts
    BY DEF Init
  <2>2. delayed \subseteq 1..made /\ wire \subseteq 1..made /\ tried \subseteq Hosts
    BY DEF Init
  <2>3. config \in 0..made /\ stored \in 0..made /\ stamp \in 0..made
    BY DEF Init
  <2>4. count \in Nat /\ backoff \in 0..MaxInterval
    BY DEF Init
  <2>5. begun \in 0..MaxUpdates /\ told \in 0..MaxUpdates
    BY DEF Init
  <2>6. expiries \in 0..MaxExpiries /\ deaths \in 0..MaxDeaths
    BY DEF Init
  <2>7. recent \in BOOLEAN /\ identified \in BOOLEAN /\ torn \in BOOLEAN
    BY DEF Init
  <2>8. QED
    BY <1>1, <1>3, <2>1, <2>2, <2>3, <2>4, <2>5, <2>6, <2>7 DEF TypeOK
<1>5. Phase
  BY <1>2 DEF Init, Phase, Idle, Empty
<1>6. InTurn /\ AcceptedIsDated /\ DatedIsStored
  BY <1>2 DEF Init, InTurn, AcceptedIsDated, DatedIsStored
<1>7. OneOutcome
  BY <1>2 DEF Init, OneOutcome
<1>8. QED
  BY <1>4, <1>5, <1>6, <1>7 DEF IInv

-----------------------------------------------------------------------------
(* Which phase each step leads to. *)

\* A requestor that waits, runs or has answered is the current one.
LEMMA PhaseFacts ==
  ASSUME TypeOK, Phase
  PROVE  /\ \A r \in delayed : Waits /\ r = current
         /\ \A r \in wire : Runs /\ r = current
         /\ inbox # <<>> => Answered
         /\ hand.at \in {"parsed", "failed"} => Handled
         /\ current = 0 => Idle
  BY DEF TypeOK, Phase, Empty, Idle, Waits, Runs, Answered, Handled, Silent

LEMMA AnswerTaken ==
  ASSUME TakeAnswer
  PROVE  hand.at = "idle" /\ hand'.at \in {"idle", "parsed", "failed"}
<1>1. hand = Nothing
  BY DEF TakeAnswer
<1>2. CASE Head(inbox).from # current
  BY <1>1, <1>2 DEF TakeAnswer, Nothing
<1>3. CASE Head(inbox).from = current
  <2>1. \E at \in {"parsed", "failed"} :
          hand' = [at |-> at, from |-> Head(inbox).from, outcome |-> Head(inbox).outcome]
    BY <1>3, Zenon DEF TakeAnswer
  <2>2. QED
    BY <1>1, <2>1 DEF Nothing
<1>4. QED
  BY <1>2, <1>3

LEMMA PhaseStep ==
  ASSUME TypeOK, Phase, [Next]_vars
  PROVE  Phase'
<1> USE DEF Phase, Empty, Idle, Waits, Runs, Answered, Handled, Silent
<1>0. made \in Nat
  BY DEF TypeOK
<1>1. CASE UNCHANGED vars
  BY <1>1 DEF vars, network
<1>2. CASE Update
  <2>1. Idle
    BY <1>2, PhaseFacts DEF Update
  <2>2. current' = made + 1 /\ delayed' = {made + 1} /\ wire' = {} /\ inbox' = <<>> /\ hand' = hand
    BY <1>2, <2>1 DEF Update, ExecuteRequest
  <2>3. Waits'
    BY <1>0, <2>1, <2>2
  <2>4. QED
    BY <2>3
<1>3. ASSUME NEW r \in 1..made, StartRequest(r)
      PROVE  Phase'
  <2>1. Waits /\ r = current /\ hand.at = "idle"
    BY <1>3, PhaseFacts DEF StartRequest, Nothing
  <2>2. current' = current /\ delayed' = {} /\ inbox' = <<>> /\ hand' = hand /\ host' = host
    BY <1>3, <2>1 DEF StartRequest
  <2>3. CASE host \in Unusable
    BY <1>3, <2>1, <2>2, <2>3 DEF StartRequest
  <2>4. CASE host \notin Unusable
    BY <1>3, <2>1, <2>2, <2>4 DEF StartRequest
  <2>5. QED
    BY <2>3, <2>4
<1>4. ASSUME NEW r \in 1..made, DenyRequest(r)
      PROVE  Phase'
  <2>1. Waits
    BY <1>4, PhaseFacts DEF DenyRequest
  <2>2. Idle'
    BY <1>4, <2>1 DEF DenyRequest, Cancel
  <2>3. QED
    BY <2>2
<1>5. ASSUME NEW r \in 1..made, Complete(r)
      PROVE  Phase'
  <2>1. Runs /\ r = current
    BY <1>5, PhaseFacts DEF Complete
  <2>2. PICK outcome \in Outcomes : inbox' = Append(inbox, [from |-> r, outcome |-> outcome])
    BY <1>5 DEF Complete
  <2>3. inbox' = <<[from |-> r, outcome |-> outcome]>>
    BY <2>1, <2>2
  <2>4. Len(inbox') = 1 /\ inbox'[1].from = current
    BY <2>1, <2>3
  <2>5. Answered'
    BY <1>5, <2>1, <2>4 DEF Complete
  <2>6. QED
    BY <2>5
<1>6. CASE TakeAnswer
  <2>1. Answered
    BY <1>6, PhaseFacts DEF TakeAnswer
  <2>2. inbox' = <<>>
    <3>1. inbox \in Seq(Answers(made)) /\ inbox # <<>> /\ Len(inbox) = 1
      BY <1>6, <2>1 DEF TakeAnswer, TypeOK
    <3>2. Tail(inbox) \in Seq(Answers(made)) /\ Len(Tail(inbox)) = 0
      BY <3>1, HeadTailProperties
    <3>3. Tail(inbox) = <<>>
      BY <3>2, EmptySeq
    <3>4. QED
      BY <1>6, <3>3 DEF TakeAnswer
  <2>3. Head(inbox).from = current
    BY <2>1 DEF TypeOK
  <2>4. hand'.at \in {"parsed", "failed"} /\ hand'.from = current
    <3>1. \E at \in {"parsed", "failed"} :
            hand' = [at |-> at, from |-> Head(inbox).from, outcome |-> Head(inbox).outcome]
      BY <1>6, <2>3, Zenon DEF TakeAnswer
    <3>2. QED
      BY <2>3, <3>1
  <2>5. Handled'
    BY <1>6, <2>1, <2>2, <2>4 DEF TakeAnswer, network
  <2>6. QED
    BY <2>5
<1>7. CASE FailOffline \/ FailOnLastHost
  <2>1. Handled
    BY <1>7, PhaseFacts DEF FailOffline, FailOnLastHost
  <2>2. Idle'
    BY <1>7, <2>1 DEF FailOffline, FailOnLastHost, Cancel, Nothing
  <2>3. QED
    BY <2>2
<1>8. CASE FailToNextHost
  <2>1. Handled
    BY <1>8, PhaseFacts DEF FailToNextHost
  <2>2. current' = made + 1 /\ delayed' = {made + 1} /\ wire' = {} /\ inbox' = <<>>
    BY <1>8, <2>1 DEF FailToNextHost, ExecuteRequest
  <2>3. Waits'
    BY <1>0, <1>8, <2>2 DEF FailToNextHost, Nothing
  <2>4. QED
    BY <2>3
<1>9. CASE Accept
  <2>1. Handled
    BY <1>9, PhaseFacts DEF Accept
  <2>2. hand'.at = "accepted"
    BY <1>9 DEF Accept, TypeOK
  <2>3. Idle'
    BY <1>9, <2>1, <2>2 DEF Accept, Cancel
  <2>4. QED
    BY <2>3
<1>10. CASE Synchronize
  <2>1. Idle \/ Waits
    BY <1>10 DEF Synchronize
  <2>2. QED
    BY <1>10, <2>1 DEF Synchronize, network, Nothing
<1>11. CASE Expire \/ BackoffEnds
  BY <1>11 DEF Expire, BackoffEnds, network
<1>12. CASE Die
  BY <1>12 DEF Die, Nothing
<1>13. QED
  <2> HIDE DEF Phase
  <2> QED
    BY <1>1, <1>2, <1>3, <1>4, <1>5, <1>6, <1>7, <1>8, <1>9, <1>10, <1>11, <1>12 DEF Next

-----------------------------------------------------------------------------
LEMMA InTurnStep ==
  ASSUME TypeOK, Phase, InTurn, [Next]_vars
  PROVE  InTurn'
<1> USE StartupControllerAssumption DEF StartupControllerAssumption, InTurn, Hosts
<1>1. CASE UNCHANGED vars
  BY <1>1 DEF vars, network, history
<1>2. CASE Update
  BY <1>2 DEF Update, ExecuteRequest
<1>3. ASSUME NEW r \in 1..made, StartRequest(r) \/ DenyRequest(r) \/ Complete(r)
      PROVE  InTurn'
  BY <1>3 DEF StartRequest, DenyRequest, Complete, Cancel, history
<1>4. CASE TakeAnswer \/ FailOffline \/ FailOnLastHost \/ Accept
  BY <1>4 DEF TakeAnswer, FailOffline, FailOnLastHost, Accept, Cancel, network, history
<1>5. CASE FailToNextHost
  <2>1. current # 0
    BY <1>5, PhaseFacts DEF FailToNextHost, Handled
  <2>2. host \in 1..NHosts /\ host < NHosts /\ tried = 1..(host - 1)
    BY <1>5, <2>1 DEF FailToNextHost
  <2>3. host' = host + 1 /\ tried' = tried \cup {host}
    BY <1>5 DEF FailToNextHost, ExecuteRequest
  <2>4. QED
    BY <2>2, <2>3
<1>6. CASE Synchronize \/ Expire \/ BackoffEnds \/ Die
  BY <1>6 DEF Synchronize, Expire, BackoffEnds, Die, network, history
<1>7. QED
  <2> HIDE DEF InTurn
  <2> QED
    BY <1>1, <1>2, <1>3, <1>4, <1>5, <1>6 DEF Next

-----------------------------------------------------------------------------
(* The outcome that an update still owes. *)
LEMMA OneOutcomeStep ==
  ASSUME TypeOK, Phase, OneOutcome, [Next]_vars
  PROVE  OneOutcome'
<1> USE DEF OneOutcome
<1>0. begun \in Nat /\ told \in Nat /\ made \in Nat
  BY StartupControllerAssumption DEF StartupControllerAssumption, TypeOK
<1>1. CASE UNCHANGED vars
  BY <1>1 DEF vars, network, history
<1>2. CASE Update
  <2>1. current = 0 /\ current' # 0 /\ begun' = begun + 1 /\ told' = told /\ hand' = hand
    BY <1>0, <1>2 DEF Update, ExecuteRequest
  <2>2. QED
    BY <1>0, <2>1
<1>3. ASSUME NEW r \in 1..made, StartRequest(r) \/ Complete(r)
      PROVE  OneOutcome'
  BY <1>3 DEF StartRequest, Complete, history
<1>4. ASSUME NEW r \in 1..made, DenyRequest(r)
      PROVE  OneOutcome'
  <2>1. current # 0 /\ current' = 0 /\ begun' = begun /\ told' = told + 1 /\ hand' = hand
    BY <1>0, <1>4 DEF DenyRequest, Cancel, TellFailure
  <2>2. QED
    BY <1>0, <2>1
<1>5. CASE TakeAnswer
  <2>1. hand.at # "accepted" /\ hand'.at # "accepted"
    BY <1>5, AnswerTaken
  <2>2. current' = current /\ begun' = begun /\ told' = told
    BY <1>5 DEF TakeAnswer, network, history
  <2>3. QED
    BY <2>1, <2>2
<1>6. CASE FailOffline \/ FailOnLastHost
  <2>1. current # 0
    BY <1>6, PhaseFacts DEF FailOffline, FailOnLastHost, Handled
  <2>2. /\ current' = 0 /\ begun' = begun /\ told' = told + 1
        /\ hand.at # "accepted" /\ hand'.at # "accepted"
    BY <1>6 DEF FailOffline, FailOnLastHost, Cancel, TellFailure, Nothing
  <2>3. QED
    BY <1>0, <2>1, <2>2
<1>7. CASE FailToNextHost
  <2>1. current # 0
    BY <1>7, PhaseFacts DEF FailToNextHost, Handled
  <2>2. /\ current' # 0 /\ begun' = begun /\ told' = told
        /\ hand.at # "accepted" /\ hand'.at # "accepted"
    BY <1>0, <1>7 DEF FailToNextHost, ExecuteRequest, Nothing
  <2>3. QED
    BY <1>0, <2>1, <2>2
<1>8. CASE Accept
  <2>1. current # 0
    BY <1>8, PhaseFacts DEF Accept, Handled
  <2>2. /\ current' = 0 /\ begun' = begun /\ told' = told
        /\ hand.at # "accepted" /\ hand'.at = "accepted"
    BY <1>8 DEF Accept, Cancel, history, TypeOK
  <2>3. QED
    BY <1>0, <2>1, <2>2
<1>9. CASE Synchronize
  <2>1. /\ current' = current /\ begun' = begun /\ told' = told + 1
        /\ hand.at = "accepted" /\ hand'.at # "accepted"
    BY <1>9 DEF Synchronize, network, Nothing
  <2>2. QED
    BY <1>0, <2>1
<1>10. CASE Expire \/ BackoffEnds
  BY <1>10 DEF Expire, BackoffEnds, network, history
<1>11. CASE Die
  <2>1. current' = 0 /\ begun' = begun /\ told' = begun /\ hand'.at # "accepted"
    BY <1>11 DEF Die, Nothing
  <2>2. QED
    BY <1>0, <2>1
<1>12. QED
  <2> HIDE DEF OneOutcome
  <2> QED
    BY <1>1, <1>2, <1>3, <1>4, <1>5, <1>6, <1>7, <1>8, <1>9, <1>10, <1>11 DEF Next

-----------------------------------------------------------------------------
LEMMA DatedStep ==
  ASSUME TypeOK, AcceptedIsDated, DatedIsStored, [Next]_vars
  PROVE  AcceptedIsDated' /\ DatedIsStored'
<1> USE DEF AcceptedIsDated, DatedIsStored
<1>1. CASE UNCHANGED vars
  BY <1>1 DEF vars, persist, history
<1>2. CASE Update
  BY <1>2 DEF Update, persist
<1>3. ASSUME NEW r \in 1..made, StartRequest(r) \/ DenyRequest(r) \/ Complete(r)
      PROVE  AcceptedIsDated' /\ DatedIsStored'
  BY <1>3 DEF StartRequest, DenyRequest, Complete, persist, history
<1>4. CASE TakeAnswer
  <2>1. hand.at # "accepted" /\ hand'.at # "accepted"
    BY <1>4, AnswerTaken
  <2>2. QED
    BY <1>4, <2>1 DEF TakeAnswer, persist, history
<1>5. CASE FailOffline \/ FailToNextHost \/ FailOnLastHost
  BY <1>5 DEF FailOffline, FailToNextHost, FailOnLastHost, persist, Nothing
<1>6. CASE Accept
  BY <1>6 DEF Accept, TypeOK
<1>7. CASE Synchronize
  BY <1>7 DEF Synchronize, Nothing
<1>8. CASE Expire \/ BackoffEnds
  BY <1>8 DEF Expire, BackoffEnds, persist, history
<1>9. CASE Die
  BY <1>9 DEF Die, persist, Nothing
<1>10. QED
  <2> HIDE DEF AcceptedIsDated, DatedIsStored
  <2> QED
    BY <1>1, <1>2, <1>3, <1>4, <1>5, <1>6, <1>7, <1>8, <1>9 DEF Next

-----------------------------------------------------------------------------
LEMMA SeqSubset ==
  ASSUME NEW S, NEW T, S \subseteq T, NEW q \in Seq(S)
  PROVE  q \in Seq(T)
  OBVIOUS

\* Sequences of answers stay that when another requestor is made.
LEMMA InboxType ==
  ASSUME TypeOK, NEW n \in Nat, made <= n
  PROVE  inbox \in Seq(Answers(n))
<1>1. inbox \in Seq(Answers(made)) /\ Answers(made) \subseteq Answers(n)
  BY DEF TypeOK
<1> HIDE DEF Answers
<1>2. QED
  BY <1>1, SeqSubset

LEMMA HandType ==
  ASSUME TypeOK, NEW n \in Nat, made <= n
  PROVE  hand \in Hands(n)
  BY DEF TypeOK

LEMMA NothingType ==
  ASSUME NEW n \in Nat
  PROVE  Nothing \in Hands(n)
  BY DEF Nothing, Outcomes

LEMMA Below ==
  ASSUME NEW m \in Nat, NEW b \in 0..m, NEW t \in Nat, NEW x \in {0, 1}, NEW y \in {0, 1},
         b = t + x + y
  PROVE  t \in 0..m
  OBVIOUS

\* told stays below begun, which its bound keeps below MaxUpdates.
LEMMA ToldType ==
  ASSUME begun' \in 0..MaxUpdates, told' \in Nat, OneOutcome'
  PROVE  told' \in 0..MaxUpdates
<1>1. PICK x \in {0, 1}, y \in {0, 1} : begun' = told' + x + y
  BY DEF OneOutcome
<1>2. MaxUpdates \in Nat
  BY StartupControllerAssumption DEF StartupControllerAssumption
<1>3. QED
  BY <1>1, <1>2, Below

LEMMA TypeOKStep ==
  ASSUME TypeOK, Phase, InTurn, OneOutcome', [Next]_vars
  PROVE  TypeOK'
<1> USE StartupControllerAssumption DEF StartupControllerAssumption, TypeOK
<1>0. made \in Nat /\ made + 1 \in Nat /\ begun \in Nat /\ told \in Nat
  OBVIOUS
<1>1. CASE UNCHANGED vars
  BY <1>1 DEF vars, network, persist, policy, history
<1>2. CASE Update
  <2>1. /\ made' = made + 1 /\ current' = made + 1 /\ host' = 1
        /\ delayed' \subseteq 1..made' /\ wire' \subseteq 1..made'
    BY <1>2 DEF Update, ExecuteRequest
  <2>2. inbox' \in Seq(Answers(made'))
    BY <1>0, <1>2, <2>1, InboxType DEF Update
  <2>3. hand' \in Hands(made')
    BY <1>0, <1>2, <2>1, HandType DEF Update
  <2>4. begun' \in 0..MaxUpdates /\ tried' = {}
    BY <1>2 DEF Update
  <2>5. QED
    BY <1>2, <2>1, <2>2, <2>3, <2>4 DEF Update, persist, policy
<1>3. ASSUME NEW r \in 1..made, StartRequest(r)
      PROVE  TypeOK'
  BY <1>3 DEF StartRequest, persist, policy, history
<1>4. ASSUME NEW r \in 1..made, DenyRequest(r)
      PROVE  TypeOK'
  <2>1. told' \in 0..MaxUpdates
    <3>1. told' \in Nat /\ begun' \in 0..MaxUpdates
      BY <1>0, <1>4 DEF DenyRequest, TellFailure
    <3>2. QED
      BY <3>1, ToldType
  <2>2. QED
    BY <1>4, <2>1 DEF DenyRequest, Cancel, persist, policy
<1>5. ASSUME NEW r \in 1..made, Complete(r)
      PROVE  TypeOK'
  <2>1. inbox' \in Seq(Answers(made))
    BY <1>5 DEF Complete
  <2>2. QED
    BY <1>5, <2>1 DEF Complete, persist, policy, history
<1>6. CASE TakeAnswer
  <2>1. inbox # <<>> /\ inbox' = Tail(inbox) /\ inbox' \in Seq(Answers(made))
    BY <1>6, HeadTailProperties DEF TakeAnswer
  <2>2. Head(inbox) \in Answers(made)
    BY <2>1, HeadTailProperties
  <2>3. hand' \in Hands(made)
    <3>1. CASE Head(inbox).from # current
      BY <1>6, <3>1 DEF TakeAnswer
    <3>2. CASE Head(inbox).from = current
      <4>1. \E at \in {"parsed", "failed"} :
              hand' = [at |-> at, from |-> Head(inbox).from, outcome |-> Head(inbox).outcome]
        BY <1>6, <3>2, Zenon DEF TakeAnswer
      <4>2. QED
        BY <2>2, <4>1
    <3>3. QED
      BY <3>1, <3>2
  <2>4. count' \in Nat /\ backoff' \in 0..MaxInterval
    BY <1>6 DEF TakeAnswer, ReportOfSuccess, policy
  <2>5. QED
    BY <1>6, <2>1, <2>3, <2>4 DEF TakeAnswer, network, persist, history
<1>7. CASE FailOffline
  <2>1. told' \in 0..MaxUpdates
    BY <1>0, <1>7, ToldType DEF FailOffline, TellFailure
  <2>2. hand' \in Hands(made)
    BY <1>0, <1>7, NothingType DEF FailOffline
  <2>3. QED
    BY <1>7, <2>1, <2>2 DEF FailOffline, Cancel, persist, policy
<1>8. CASE FailToNextHost
  <2>1. host \in Hosts /\ host + 1 \in 0..NHosts
    BY <1>8, PhaseFacts DEF FailToNextHost, InTurn, Handled, Hosts
  <2>2. /\ made' = made + 1 /\ current' = made + 1 /\ host' = host + 1
        /\ delayed' \subseteq 1..made' /\ wire' \subseteq 1..made'
    BY <1>8 DEF FailToNextHost, ExecuteRequest
  <2>3. inbox' \in Seq(Answers(made'))
    BY <1>0, <1>8, <2>2, InboxType DEF FailToNextHost
  <2>4. hand' \in Hands(made')
    BY <1>0, <1>8, <2>2, NothingType DEF FailToNextHost
  <2>5. tried' \subseteq Hosts
    BY <1>8, <2>1 DEF FailToNextHost
  <2>6. QED
    BY <1>8, <2>1, <2>2, <2>3, <2>4, <2>5 DEF FailToNextHost, persist, policy
<1>9. CASE FailOnLastHost
  <2>1. told' \in 0..MaxUpdates
    BY <1>0, <1>9, ToldType DEF FailOnLastHost, TellFailure
  <2>2. hand' \in Hands(made)
    BY <1>0, <1>9, NothingType DEF FailOnLastHost
  <2>3. tried' \subseteq Hosts
    BY <1>9, PhaseFacts DEF FailOnLastHost, InTurn, Handled
  <2>4. count' \in Nat /\ backoff' \in 0..MaxInterval
    BY <1>9 DEF FailOnLastHost, ReportOfFailure, Intervals
  <2>5. QED
    BY <1>9, <2>1, <2>2, <2>3, <2>4 DEF FailOnLastHost, Cancel, persist
<1>10. CASE Accept
  <2>1. hand.from \in 0..made /\ identified' \in BOOLEAN
    BY <1>10 DEF Accept
  <2>2. hand' \in Hands(made)
    BY <1>10 DEF Accept
  <2>3. current' = 0 /\ host' = host /\ made' = made /\ delayed' = {} /\ wire' = wire
    BY <1>10 DEF Accept, Cancel
  <2>4. config' = hand.from /\ stored' = stored /\ stamp' = hand.from /\ recent' = TRUE
    BY <1>10 DEF Accept
  <2>5. /\ inbox' = inbox
        /\ UNCHANGED <<count, backoff, tried, begun, told, torn, expiries, deaths>>
    BY <1>10 DEF Accept, policy, history
  <2>6. /\ inbox' \in Seq(Answers(made'))
        /\ hand' \in Hands(made')
    BY <2>2, <2>3, <2>5
  <2>7. QED
    BY <2>1, <2>3, <2>4, <2>5, <2>6
<1>11. CASE Synchronize
  <2>1. told' \in 0..MaxUpdates
    BY <1>0, <1>11, ToldType DEF Synchronize
  <2>2. hand' \in Hands(made)
    BY <1>0, <1>11, NothingType DEF Synchronize
  <2>3. stored' \in 0..made /\ torn' \in BOOLEAN
    BY <1>11 DEF Synchronize
  <2>4. QED
    BY <1>11, <2>1, <2>2, <2>3 DEF Synchronize, network, policy
<1>12. CASE Expire
  <2>1. expiries' \in 0..MaxExpiries /\ recent' = FALSE
    <3>1. MaxExpiries \in Nat /\ expiries \in 0..MaxExpiries
      OBVIOUS
    <3>2. expiries < MaxExpiries /\ expiries' = expiries + 1 /\ recent' = FALSE
      BY <1>12 DEF Expire
    <3> HIDE DEF TypeOK
    <3>3. QED
      BY <3>1, <3>2
  <2>2. QED
    BY <1>12, <2>1 DEF Expire, network, persist, policy
<1>13. CASE BackoffEnds
  BY <1>13 DEF BackoffEnds, network, persist, history
<1>14. CASE Die
  <2>1. hand' \in Hands(made)
    BY <1>0, <1>14, NothingType DEF Die
  <2>2. inbox' \in Seq(Answers(made)) /\ torn' \in BOOLEAN
    BY <1>14 DEF Die
  <2>3. QED
    BY <1>14, <2>1, <2>2 DEF Die, persist, policy
<1>15. QED
  BY <1>1, <1>2, <1>3, <1>4, <1>5, <1>6, <1>7, <1>8, <1>9, <1>10, <1>11, <1>12, <1>13, <1>14
     DEF Next

-----------------------------------------------------------------------------
LEMMA IInvStep ==
  ASSUME IInv, [Next]_vars
  PROVE  IInv'
<1> USE DEF IInv
<1>1. Phase' /\ InTurn' /\ OneOutcome'
  BY PhaseStep, InTurnStep, OneOutcomeStep
<1>2. TypeOK'
  BY <1>1, TypeOKStep
<1>3. QED
  BY <1>1, <1>2, DatedStep

LEMMA Invariance == Spec => []IInv
<1>1. QED
  BY InitIInv, IInvStep, PTL DEF Spec

\* A phase names the one place of the requestor.
LEMMA PhaseIsOneRequestor ==
  ASSUME TypeOK, Phase
  PROVE  OneRequestor
<1>1. inbox = <<>> => Answerers = {}
  BY DEF Answerers
<1>2. Len(inbox) = 1 /\ inbox[1].from = current => Answerers = {current}
  BY DEF TypeOK, Answerers
<1>3. /\ delayed \subseteq {current} \ {0} /\ wire \subseteq {current} \ {0}
      /\ Answerers \subseteq {current} \ {0} /\ InHand \subseteq {current} \ {0}
  BY <1>1, <1>2 DEF Phase, Empty, Idle, Waits, Runs, Answered, Handled, Silent, InHand
<1>4. /\ delayed # {} => wire = {} /\ Answerers = {} /\ InHand = {}
      /\ wire # {} => Answerers = {} /\ InHand = {}
      /\ Answerers # {} => InHand = {}
  BY <1>1, <1>2 DEF Phase, Empty, Idle, Waits, Runs, Answered, Handled, Silent, InHand
<1>5. inbox = <<>> \/ Len(inbox) = 1
  BY DEF Phase, Empty, Idle, Waits, Runs, Answered, Handled, Silent
<1>6. current # 0 /\ ~Stuck => current \in delayed \cup wire \cup Answerers \cup InHand
  BY <1>2 DEF Phase, Empty, Idle, Waits, Runs, Answered, Handled, Silent, InHand, Stuck
<1>7. DOMAIN Places = 1..4 /\ Places[1] = delayed /\ Places[2] = wire
      /\ Places[3] = Answerers /\ Places[4] = InHand
  BY DEF Places
<1>8. \A i \in DOMAIN Places : Places[i] \subseteq {current} \ {0}
  BY <1>3, <1>7
<1>9. \A i, j \in DOMAIN Places : Places[i] # {} /\ Places[j] # {} => i = j
  BY <1>4, <1>7
<1>10. current # 0 /\ ~Stuck => \E i \in DOMAIN Places : current \in Places[i]
  BY <1>6, <1>7
<1>11. Len(inbox) <= 1
  BY <1>5
<1>12. QED
  BY <1>8, <1>9, <1>10, <1>11 DEF OneRequestor

-----------------------------------------------------------------------------
(* The state of the controller keeps its shape; in particular the host of a
   requestor is always one of the provider's. *)
THEOREM TypeCorrect == Spec => []TypeOK
<1>1. QED
  BY Invariance, PTL DEF IInv

(* One requestor at a time, which is waiting, running, answered or in hand, or
   whose start did nothing: whatever the hosts answer and whenever update is
   called, the process dies or the configuration expires. *)
THEOREM OneRequestorAtATime == Spec => []OneRequestor
<1>1. IInv => OneRequestor
  BY PhaseIsOneRequestor DEF IInv
<1>2. QED
  BY <1>1, Invariance, PTL

(* Every update that begins is told to the delegate once. *)
THEOREM EveryUpdateToldOnce == Spec => []OneOutcome
<1>1. QED
  BY Invariance, PTL DEF IInv

(* A configuration that was dated is the stored one, but for a death or a failed
   save between the two. *)
THEOREM DatedConfigurationIsStored == Spec => []DatedIsStored
<1>1. QED
  BY Invariance, PTL DEF IInv

-----------------------------------------------------------------------------
LEMMA PositiveProduct ==
  ASSUME NEW m \in Nat \ {0}, NEW n \in Nat \ {0}
  PROVE  m * n > 0
  BY Z3

LEMMA CountStep ==
  ASSUME \A n \in Nat \ {0} : 2^n - 1 \in Nat \ {0},
         IInv, [Next]_vars, count' > count
  PROVE  tried' = Hosts /\ (Denies /\ count' < IntBits - 1 => backoff' > 0)
<1> USE StartupControllerAssumption DEF StartupControllerAssumption
<1>0. count \in Nat /\ ~(count > count) /\ ~(0 > count)
  BY DEF IInv, TypeOK
<1>1. count' # count /\ count' # 0
  BY <1>0
<1>2. FailOnLastHost
  <2>1. ASSUME NEW r \in 1..made, StartRequest(r) \/ DenyRequest(r) \/ Complete(r)
        PROVE  count' = count
    BY <2>1 DEF StartRequest, DenyRequest, Complete, policy
  <2>2. ASSUME UNCHANGED vars \/ Update \/ FailOffline \/ FailToNextHost
        PROVE  count' = count
    BY <2>2 DEF vars, Update, FailOffline, FailToNextHost, policy
  <2>3. ASSUME Accept \/ Synchronize \/ Expire \/ BackoffEnds \/ Die
        PROVE  count' = count
    BY <2>3 DEF Accept, Synchronize, Expire, BackoffEnds, Die, policy
  <2>4. CASE TakeAnswer
    <3>1. count' = 0 \/ count' = count
      BY <2>4 DEF TakeAnswer, ReportOfSuccess, policy
    <3>2. QED
      BY <1>1, <3>1
  <2>5. QED
    BY <1>1, <2>1, <2>2, <2>3, <2>4 DEF Next
<1>3. current # 0 /\ host >= NHosts /\ tried' = tried \cup {host}
  BY <1>2, PhaseFacts DEF IInv, FailOnLastHost, Handled
<1>4. tried' = Hosts
  BY <1>3 DEF IInv, InTurn, Hosts
<1>5. count' = count + 1 /\ backoff' \in Intervals(count + 1)
  BY <1>2 DEF FailOnLastHost, ReportOfFailure
<1>6. ASSUME Denies, count' < IntBits - 1 PROVE backoff' > 0
  <2>1. backoff' = Interval(count + 1)
    BY <1>0, <1>5, <1>6 DEF Intervals
  <2>2. PICK p \in Nat \ {0} : p = 2^(count + 1) - 1
    <3>1. count + 1 \in Nat \ {0}
      BY <1>0
    <3>2. QED
      BY <3>1
  <2>3. p * Multiplier > 0
    <3>1. p \in Nat \ {0} /\ Multiplier \in Nat \ {0}
      BY <1>6, <2>2 DEF Denies
    <3>2. QED
      BY <3>1, PositiveProduct
  <2>4. PICK q \in Nat \ {0} : q = p * Multiplier
    <3>1. p * Multiplier \in Nat
      BY <2>2
    <3>2. QED
      BY <2>3, <3>1
  <2>5. Interval(count + 1) = IF q > MaxInterval THEN MaxInterval ELSE q
    BY <2>2, <2>4 DEF Interval
  <2>6. QED
    BY <1>6, <2>1, <2>4, <2>5 DEF Denies
<1>7. QED
  BY <1>4, <1>6

(* A failed update denies the next ones only after every host was given up, and
   then for a while, unless the policy is configured with a zero or an int has too
   few bits for the failures in a row.
   That a power of two is greater than one is taken from arithmetic: it needs an
   induction. *)
THEOREM FailuresBackOff ==
  ASSUME \A n \in Nat \ {0} : 2^n - 1 \in Nat \ {0}
  PROVE  Spec => FailureBacksOff
<1>1. IInv /\ [Next]_vars =>
        [count' > count => tried' = Hosts /\ (Denies /\ count' < IntBits - 1 => backoff' > 0)]_vars
  BY CountStep
<1>2. QED
  BY <1>1, Invariance, PTL DEF Spec, FailureBacksOff
=============================================================================
