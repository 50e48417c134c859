--------------------------- MODULE MCReportDelivery ---------------------------
EXTENDS ReportDelivery

\* Oids 1 and 2 make the first request, in two batches; 3 makes the second.
\* Each event is in a session of its own.
MCEvents  == 1..3
TwoEvents == 1..2
MCGroupOf == [e \in Events |-> IF e = 3 THEN 2 ELSE 1]
MCSessionOf == [e \in Events |-> e]

\* The report hosts are never empty: no round begins without one.  The list of
\* tracking hosts may be.
OneHost   == [c \in Controllers |-> IF c = "tracking" THEN {0, 1} ELSE {1}]
TwoHosts  == [c \in Controllers |-> IF c = "tracking" THEN {0, 1} ELSE {1, 2}]
=============================================================================
