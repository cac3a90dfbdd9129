------------------------- MODULE MCMetricsCollector -------------------------
(* MetricsCollector for TLC.                                               *)
EXTENDS MetricsCollector

\* Attempts end well or not, quickly or slowly.
AllOutcomes == [ok : BOOLEAN, durationMs : {1, 3}]

\* A good attempt and one that exceeds both thresholds.
GoodOrBad == {[ok |-> TRUE, durationMs |-> 1], [ok |-> FALSE, durationMs |-> 3]}

Symmetry == Permutations(Refreshes)
=============================================================================
