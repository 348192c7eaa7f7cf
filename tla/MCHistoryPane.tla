---------------------------- MODULE MCHistoryPane ----------------------------
(* Instances of HistoryPane.  The second sample has a load over 100 %, no   *)
(* used disk, no services and a container without ports; the third neither *)
(* disks nor containers, and no memory total.                              *)
EXTENDS HistoryPane

MCWidth == [r \in Ranges |-> IF r = "7d" THEN 3 ELSE 2]
MCReading == [t \in Times |->
    CASE t = 1 -> [cpu |-> 40, used |-> 1, total |-> 3, disk |-> 90, containers |-> 2, lists |-> Lists]
      [] t = 2 -> [cpu |-> 130, used |-> 3, total |-> 3, disk |-> 0, containers |-> 7,
                   lists |-> Lists \ {"serviceInfos", "ports"}]
      [] t = 3 -> [cpu |-> 0, used |-> 1, total |-> 0, disk |-> 0, containers |-> 0,
                   lists |-> Lists \ {"diskUsage", "containers"}]]

\* Every list is there.
MCWhole == [t \in Times |-> [MCReading[t] EXCEPT !.lists = Lists]]
==============================================================================
