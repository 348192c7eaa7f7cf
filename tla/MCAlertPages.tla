----------------------------- MODULE MCAlertPages -----------------------------
(* Instances of AlertPages: an alert of each of two agents.                *)
EXTENDS AlertPages, TLC

CONSTANTS a, b, x, y

MCOf   == x :> a @@ y :> a
MCRule == [id \in Alerts |-> "CPU_HIGH"]
===============================================================================
