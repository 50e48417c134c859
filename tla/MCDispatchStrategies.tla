--------------------------- MODULE MCDispatchStrategies ---------------------------
(* DispatchStrategies with one strategy at a time: they share nothing but the
   executor of AMAAppMetricaImpl, whose blocks restart all of them. *)
EXTENDS DispatchStrategies

MCTypeMasks == {{"count"}, {"urgent"}, {"timer"}}

\* Two events reach the limit of a counting strategy; for the timer one will do.
MCMaxEvents == [mask \in MCTypeMasks |-> IF mask = {"timer"} THEN 1 ELSE 2]
=============================================================================
