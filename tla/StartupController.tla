--------------------------- MODULE StartupController ---------------------------
(***************************************************************************)
(* AMAStartupController: one update of the startup configuration at a      *)
(* time, host after host, until one answers or all have failed, and the    *)
(* timeout policy of AMATimeoutRequestsController that denies an update    *)
(* for a while after a failed one.                                         *)
(*                                                                         *)
(* update is called on the executor of AMAAppMetricaImpl; the delayed      *)
(* block and the answers of the requestors run on the controller's own     *)
(* serial executor.  A block under @synchronized(self) is one step; what   *)
(* didFinishWithData: does before the lock and after it are steps of their *)
(* own, between which the process may die.                                 *)
(*                                                                         *)
(* A startup configuration is the number of the requestor that brought it. *)
(* Its contents, the identifiers but for their presence, the attribution   *)
(* model and the server time offset are left out.                          *)
(***************************************************************************)
EXTENDS Naturals, FiniteSets, Sequences

CONSTANTS
  NHosts,         \* the hosts of AMAStartupHostProvider after -reset
  Unusable,       \* hosts for which no URL request can be built
  Multiplier,     \* retryPolicyExponentialMultiplier
  MaxInterval,    \* retryPolicyMaxIntervalSeconds
  IntBits,        \* the width of int: 32
  MaxUpdates,     \* bound: updates that begin
  MaxExpiries,    \* bound: times the configuration becomes outdated
  MaxDeaths       \* bound: times the process dies

Hosts == 1..NHosts

ASSUME StartupControllerAssumption ==
  /\ NHosts \in Nat \ {0}
  /\ Unusable \subseteq Hosts
  /\ Multiplier \in Nat /\ MaxInterval \in Nat
  /\ IntBits \in Nat \ {0, 1}
  /\ MaxUpdates \in Nat /\ MaxExpiries \in Nat /\ MaxDeaths \in Nat

VARIABLES
  current,     \* currentHTTPRequestor, 0 for nil
  made,        \* the requestors made so far
  host,        \* hostProvider.current, 0 for nil
  delayed,     \* requestors whose block waits in the cancelable executor
  wire,        \* requestors with a task that has not completed
  inbox,       \* completion blocks on the executor
  hand,        \* what the executor is in the middle of
  config,      \* the startup configuration in memory
  stored,      \* the one in the database
  stamp,       \* the configuration for which startupUpdatedAt was saved
  recent,      \* that date is within the update interval
  identified,  \* the UUID and the hash of the device ID are known
  count,       \* failures in a row, persisted
  backoff,     \* seconds until limitDate, persisted
  tried,       \* history: hosts that were given up in this update
  begun, told, \* history: updates begun and delegate calls, in this process
  torn,        \* history: a configuration was dated and then not saved
  expiries, deaths  \* counters for the bounds

network == <<current, made, host, delayed, wire>>
persist == <<stored, stamp>>
policy  == <<count, backoff>>
history == <<tried, begun, told, torn, expiries, deaths>>
vars    == <<network, inbox, hand, config, persist, recent, identified, policy, history>>

Outcomes == {"configuration", "anonymous", "garbage", "status", "offline", "error"}
Nothing  == [at |-> "idle", from |-> 0, outcome |-> "error"]

Init ==
  /\ current = 0 /\ made = 0 /\ host = 0
  /\ delayed = {} /\ wire = {} /\ inbox = <<>>
  /\ hand = Nothing
  /\ config = 0 /\ stored = 0 /\ stamp = 0
  /\ recent = FALSE
  /\ identified = FALSE
  /\ count = 0 /\ backoff = 0
  /\ tried = {} /\ begun = 0 /\ told = 0 /\ torn = FALSE
  /\ expiries = 0 /\ deaths = 0

-----------------------------------------------------------------------------
UpToDate == stamp > 0 /\ recent /\ identified

(* intervalForAttempt: of AMATimeoutRequestsController shifts an int by the
   number of failures, which is not limited.  A shift into the sign bit or past
   the width has no defined value, whatever is left of it after the maximum.  The
   product with the multiplier, on 64 bits, does not overflow for the multipliers
   meant here. *)
Interval(attempt) ==
  LET seconds == (2^attempt - 1) * Multiplier
  IN  IF seconds > MaxInterval THEN MaxInterval ELSE seconds

Intervals(attempt) ==
  {seconds \in 0..MaxInterval : attempt < IntBits - 1 => seconds = Interval(attempt)}

ReportOfSuccess == count' = 0 /\ backoff' = 0

ReportOfFailure ==
  /\ count' = count + 1
  /\ backoff' \in Intervals(count + 1)

-----------------------------------------------------------------------------
(* executeRequestAfterDelay: with the host h *)
ExecuteRequest(h) ==
  /\ host' = h
  /\ made' = made + 1
  /\ current' = made + 1
  /\ delayed' = delayed \cup {made + 1}
  /\ wire' = wire

CancelRequestOnly ==
  /\ current' = current
  /\ delayed' = {}
  /\ UNCHANGED <<made, wire>>

(* -cancel.  The task of a cancelled requestor completes with an error. *)
Cancel ==
  /\ current' = 0
  /\ delayed' = {}
  /\ UNCHANGED <<made, wire>>

UpdateUnchecked ==
  /\ begun < MaxUpdates
  /\ ~UpToDate
  /\ ExecuteRequest(1)
  /\ begun' = begun + 1
  /\ tried' = {}
  /\ UNCHANGED <<inbox, hand, config, persist, recent, identified, policy, told, torn,
                 expiries, deaths>>

Update ==
  /\ begun < MaxUpdates
  /\ ~UpToDate
  /\ current = 0
  /\ ExecuteRequest(1)
  /\ begun' = begun + 1
  /\ tried' = {}
  /\ UNCHANGED <<inbox, hand, config, persist, recent, identified, policy, told, torn,
                 expiries, deaths>>

TellFailure == told' = told + 1

-----------------------------------------------------------------------------
(* The delayed block: the policy is asked, and the requestor started. *)
StartRequest(r) ==
  /\ hand = Nothing
  /\ r \in delayed
  /\ r = current
  /\ backoff = 0
  /\ delayed' = delayed \ {r}
  /\ wire' = IF host \in Unusable THEN wire ELSE wire \cup {r}
  /\ UNCHANGED <<current, made, host, inbox, hand, config, persist, recent, identified, policy,
                 history>>

DenyRequestSilently(r) ==
  /\ hand = Nothing
  /\ r \in delayed
  /\ r = current
  /\ backoff > 0
  /\ Cancel
  /\ host' = host
  /\ UNCHANGED <<inbox, hand, config, persist, recent, identified, policy, history>>

(* reportOfTimeoutWithRequest: *)
DenyRequest(r) ==
  /\ hand = Nothing
  /\ r \in delayed
  /\ r = current
  /\ backoff > 0
  /\ Cancel
  /\ host' = host
  /\ TellFailure
  /\ UNCHANGED <<inbox, hand, config, persist, recent, identified, policy, tried, begun, torn,
                 expiries, deaths>>

(* The task completes, and its block is posted to the executor. *)
Complete(r) ==
  /\ r \in wire
  /\ wire' = wire \ {r}
  /\ \E outcome \in Outcomes : inbox' = Append(inbox, [from |-> r, outcome |-> outcome])
  /\ UNCHANGED <<current, made, host, delayed, hand, config, persist, recent, identified, policy,
                 history>>

(* taskDidCompleteWithData:response:error: and the head of didFinishWithData:,
   before the lock.  An answer with status 200 is a success for the policy,
   whether or not it can be parsed. *)
TakeAnswer ==
  /\ hand = Nothing
  /\ inbox # <<>>
  /\ inbox' = Tail(inbox)
  /\ LET answer == Head(inbox) IN
       IF answer.from # current
       THEN UNCHANGED <<hand, policy>>
       ELSE /\ hand' = [at |-> IF answer.outcome \in {"configuration", "anonymous"}
                               THEN "parsed" ELSE "failed",
                        from |-> answer.from, outcome |-> answer.outcome]
            /\ IF answer.outcome \in {"configuration", "anonymous", "garbage"}
               THEN ReportOfSuccess ELSE UNCHANGED policy
  /\ UNCHANGED <<network, config, persist, recent, identified, history>>

(* reportErrorWithRequest:error:, for an error that is not the policy's.  Here
   and in Accept the requestor is compared with the current one once more. *)
FailOffline ==
  /\ hand.at = "failed"
  /\ hand.from = current
  /\ hand.outcome = "offline"
  /\ Cancel
  /\ host' = host
  /\ TellFailure
  /\ hand' = Nothing
  /\ UNCHANGED <<inbox, config, persist, recent, identified, policy, tried, begun, torn,
                 expiries, deaths>>

FailPastLastHost ==
  /\ hand.at = "failed"
  /\ hand.from = current
  /\ hand.outcome # "offline"
  /\ host <= NHosts
  /\ tried' = tried \cup {host}
  /\ ExecuteRequest(host + 1)
  /\ hand' = Nothing
  /\ UNCHANGED <<inbox, config, persist, recent, identified, policy, begun, told, torn,
                 expiries, deaths>>

FailToNextHost ==
  /\ hand.at = "failed"
  /\ hand.from = current
  /\ hand.outcome # "offline"
  /\ host < NHosts
  /\ tried' = tried \cup {host}
  /\ ExecuteRequest(host + 1)
  /\ hand' = Nothing
  /\ UNCHANGED <<inbox, config, persist, recent, identified, policy, begun, told, torn,
                 expiries, deaths>>

FailEarly ==
  /\ hand.at = "failed"
  /\ hand.from = current
  /\ hand.outcome # "offline"
  /\ host + 1 >= NHosts
  /\ tried' = tried \cup {host}
  /\ host' = 0
  /\ ReportOfFailure
  /\ Cancel
  /\ TellFailure
  /\ hand' = Nothing
  /\ UNCHANGED <<inbox, config, persist, recent, identified, begun, torn, expiries, deaths>>

FailOnLastHost ==
  /\ hand.at = "failed"
  /\ hand.from = current
  /\ hand.outcome # "offline"
  /\ host >= NHosts
  /\ tried' = tried \cup {host}
  /\ host' = 0
  /\ ReportOfFailure
  /\ Cancel
  /\ TellFailure
  /\ hand' = Nothing
  /\ UNCHANGED <<inbox, config, persist, recent, identified, begun, torn, expiries, deaths>>

(* handleStartupResponse: and -cancel, under the lock.  The date is saved at
   once, the configuration only replaced in memory. *)
Accept ==
  /\ hand.at = "parsed"
  /\ hand.from = current
  /\ identified' = (identified \/ hand.outcome = "configuration")
  /\ config' = hand.from
  /\ stamp' = hand.from
  /\ recent' = TRUE
  /\ Cancel
  /\ host' = host
  /\ hand' = [hand EXCEPT !.at = "accepted"]
  /\ UNCHANGED <<inbox, stored, policy, history>>

(* -synchronizeStartup, whose failure is only logged, and the delegates. *)
SynchronizeForgotten ==
  /\ hand.at = "accepted"
  /\ stored' = stored
  /\ torn' = torn
  /\ hand' = Nothing
  /\ told' = told + 1
  /\ UNCHANGED <<network, inbox, config, stamp, recent, identified, policy, tried, begun,
                 expiries, deaths>>

Synchronize ==
  /\ hand.at = "accepted"
  /\ \/ stored' = config /\ torn' = torn
     \/ stored' = stored /\ torn' = TRUE
  /\ hand' = Nothing
  /\ told' = told + 1
  /\ UNCHANGED <<network, inbox, config, stamp, recent, identified, policy, tried, begun,
                 expiries, deaths>>

-----------------------------------------------------------------------------
(* Time passes: the configuration gets old, the backoff ends. *)
Expire ==
  /\ recent
  /\ expiries < MaxExpiries
  /\ expiries' = expiries + 1
  /\ recent' = FALSE
  /\ UNCHANGED <<network, inbox, hand, config, persist, identified, policy, tried, begun, told,
                 torn, deaths>>

BackoffEnds ==
  /\ backoff > 0
  /\ backoff' = 0
  /\ UNCHANGED <<network, inbox, hand, config, persist, recent, identified, count, history>>

(* The process dies; the next one loads the startup configuration when it is
   first asked for. *)
Die ==
  /\ deaths < MaxDeaths
  /\ deaths' = deaths + 1
  /\ current' = 0 /\ host' = 0 /\ delayed' = {} /\ wire' = {} /\ inbox' = <<>>
  /\ hand' = Nothing
  /\ config' = stored
  /\ torn' = (torn \/ hand.at = "accepted")
  /\ tried' = {} /\ told' = begun
  /\ UNCHANGED <<made, persist, recent, identified, policy, begun, expiries>>

Next ==
  \/ Update
  \/ \E r \in 1..made : StartRequest(r) \/ DenyRequest(r) \/ Complete(r)
  \/ TakeAnswer
  \/ FailOffline \/ FailToNextHost \/ FailOnLastHost
  \/ Accept
  \/ Synchronize
  \/ Expire \/ BackoffEnds
  \/ Die

Spec == Init /\ [][Next]_vars

(* The executor runs its blocks, timers fire, and a task completes, at the
   latest with a timeout. *)
Executor ==
  \/ \E r \in 1..made : StartRequest(r) \/ DenyRequest(r)
  \/ TakeAnswer
  \/ FailOffline \/ FailToNextHost \/ FailOnLastHost
  \/ Accept
  \/ Synchronize

Fairness ==
  /\ WF_vars(Executor)
  /\ WF_vars(\E r \in 1..made : Complete(r))

FairSpec == Spec /\ Fairness
-----------------------------------------------------------------------------
TypeOK ==
  /\ current \in 0..made /\ made \in Nat
  /\ host \in 0..NHosts
  /\ delayed \subseteq 1..made /\ wire \subseteq 1..made
  /\ inbox \in Seq([from : 1..made, outcome : Outcomes])
  /\ hand \in [at : {"idle", "parsed", "failed", "accepted"}, from : 0..made, outcome : Outcomes]
  /\ config \in 0..made /\ stored \in 0..made /\ stamp \in 0..made
  /\ recent \in BOOLEAN /\ identified \in BOOLEAN
  /\ count \in Nat /\ backoff \in 0..MaxInterval
  /\ tried \subseteq Hosts
  /\ begun \in 0..MaxUpdates /\ told \in 0..MaxUpdates
  /\ torn \in BOOLEAN
  /\ expiries \in 0..MaxExpiries /\ deaths \in 0..MaxDeaths

\* The requestor that the executor has taken an answer of.
InHand == IF hand.at \in {"parsed", "failed"} THEN {hand.from} ELSE {}

\* start of a requestor whose URL request cannot be built does nothing at all.
Stuck == current # 0 /\ host \in Unusable /\ delayed = {}

\* The requestors that have answered, and all places where one can be.
Answerers == {inbox[i].from : i \in DOMAIN inbox}
Places    == <<delayed, wire, Answerers, InHand>>

(* One requestor at a time, and something left that will end it: either its
   block waits, or its task runs, or its answer is on the executor, and never
   two of these.  A requestor with nothing left keeps update from ever starting
   again; one that is not the current one could bring a configuration late. *)
OneRequestor ==
  /\ \A i \in DOMAIN Places : Places[i] \subseteq {current} \ {0}
  /\ \A i, j \in DOMAIN Places : Places[i] # {} /\ Places[j] # {} => i = j
  /\ Len(inbox) <= 1
  /\ current # 0 /\ ~Stuck => \E i \in DOMAIN Places : current \in Places[i]

(* Every update that begins is told to the delegate once, as a success or a
   failure: the observers that wait for identifiers hear nothing otherwise.  The
   success is told after the next update may have begun. *)
OneOutcome ==
  begun = told + (IF current # 0 THEN 1 ELSE 0) + (IF hand.at = "accepted" THEN 1 ELSE 0)

(* The configuration that was dated is the one a next launch loads, unless the
   process died or the database failed between the two saves.  Such a launch
   holds the old configuration, or none, for up to date, and asks for no other. *)
DatedIsStored == stamp = stored \/ hand.at = "accepted" \/ torn

(* The policy denies updates only after one in which every host was tried and
   failed, and then it does, unless it is configured not to, with a multiplier or
   a maximum of 0, or the failures in a row are as many as an int has value bits:
   from there on the backoff may be anything, none included. *)
Denies == Multiplier > 0 /\ MaxInterval > 0

FailureBacksOff ==
  [][count' > count =>
       tried' = Hosts /\ (Denies /\ count' < IntBits - 1 => backoff' > 0)]_vars

(* Every update ends, however the hosts answer. *)
UpdateEnds == current # 0 ~> current = 0
=============================================================================
