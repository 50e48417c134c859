------------------------------ MODULE EventOutbox ------------------------------
(***************************************************************************)
(* What the delivery of events promises, whatever its controllers, blocks  *)
(* and retries do: an event that was stored stays stored until some server *)
(* has given a definite answer to a request that carried it.  Nothing says *)
(* that an event is sent only once.                                        *)
(***************************************************************************)
CONSTANT Events   \* events the reporter may store

VARIABLES
  added,    \* events that were ever stored
  stored,   \* events that are stored
  settled   \* events that a server gave a definite answer to

vars == <<added, stored, settled>>

Init ==
  /\ added = {}
  /\ stored = {}
  /\ settled = {}

(* The reporter stores an event it had not stored before. *)
Add(e) ==
  /\ e \in Events \ added
  /\ added' = added \cup {e}
  /\ stored' = stored \cup {e}
  /\ UNCHANGED settled

(* A server answers a request that carries the events S. *)
Settle(S) ==
  /\ S \subseteq added
  /\ settled' = settled \cup S
  /\ UNCHANGED <<added, stored>>

(* The delivery deletes settled events. *)
Purge(S) ==
  /\ S \subseteq settled
  /\ stored' = stored \ S
  /\ UNCHANGED <<added, settled>>

Next ==
  \/ \E e \in Events : Add(e)
  \/ \E S \in SUBSET Events : Settle(S) \/ Purge(S)

Spec == Init /\ [][Next]_vars
=============================================================================
