--------------------------- MODULE MCHistoryRollup ---------------------------
(* Instances of HistoryRollup.  An hour is two instants and a day two      *)
(* hours; an hourly pass reaches back a day, a daily pass two days.        *)
EXTENDS HistoryRollup

MCLookback == [tier \in Tiers |-> 2]
=============================================================================
