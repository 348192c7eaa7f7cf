----------------------------- MODULE MCDrillDown -----------------------------
(* Instances of DrillDown.                                                 *)
EXTENDS DrillDown, TLC

MCUnderWay == [h \in {"agents", "metrics", "diagnostics"} |-> IF h = "metrics" THEN 2 ELSE 1]
==============================================================================
