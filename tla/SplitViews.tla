----------------------------- MODULE SplitViews -----------------------------
(***************************************************************************)
(* What the master-detail views compute from the rows they are given: the  *)
(* rows a search leaves, their order, the tree of services by name, the    *)
(* links between services and processes, the cards of the diagnoses.       *)
(*                                                                         *)
(* A row carries in hits the searches its text includes, a process in      *)
(* links the names of the services that match its command line.  A service *)
(* name is the sequence of its segments.                                   *)
(***************************************************************************)
EXTENDS Integers, Sequences, FiniteSets, SequencesExt

CONSTANTS
    NoQuery,    \* an empty search field
    NoDetail    \* nothing selected; a detail an insight lacks

\* Array.filter.
Select(rows, Test(_)) ==
    FoldLeft(LAMBDA kept, r : IF Test(r) THEN Append(kept, r) ELSE kept, <<>>, rows)

Filter(rows, q) == IF q = NoQuery THEN rows ELSE Select(rows, LAMBDA r : q \in r.hits)

\* The first row with a property, like Array.find, NoDetail if there is none.
Find(rows, Test(_)) ==
    LET i == SelectInSeq(rows, Test) IN IF i = 0 THEN NoDetail ELSE rows[i]

\* Array.slice.
Take(rows, n) == SubSeq(rows, 1, IF Len(rows) < n THEN Len(rows) ELSE n)

\* Array.sort: stable.
SortBy(rows, Before(_, _)) ==
    FoldLeft(LAMBDA acc, r : InsertAt(acc, 1 + Cardinality({i \in DOMAIN acc : ~Before(r, acc[i])}), r),
             <<>>, rows)

SortProcesses(rows, key, asc) ==
    SortBy(rows, LAMBDA p, r : IF asc THEN p[key] < r[key] ELSE p[key] > r[key])

------------------------------------------------------------------------------
(* The tree of services.  toggled: the branches that are not as they open. *)

Nodes(list) == (UNION {Prefixes(list[i].name) : i \in DOMAIN list}) \ {<<>>}

Children(nodes, n) == {c \in nodes : Len(c) = Len(n) + 1 /\ IsPrefix(n, c)}

ServicesAt(list, n) == Select(list, LAMBDA s : s.name = n)

IsOpen(toggled, n) == (n \in toggled) # (Len(n) <= 2)

\* Mutated form of NodeRows: an open branch does not list the services of its own name.
NodeRowsLeaves(list, toggled, below, n) ==
    LET inner == Children(Nodes(list), n) # {}
    IN  CASE ~inner -> ServicesAt(list, n)
          [] inner /\ IsOpen(toggled, n) -> <<[branch |-> n]>> \o below[n]
          [] inner /\ ~IsOpen(toggled, n) -> <<[branch |-> n]>>

\* A node without children lists its services, one with children is a branch
\* that lists, when open, its own services first.
NodeRows(list, toggled, below, n) ==
    LET inner == Children(Nodes(list), n) # {}
    IN  CASE ~inner -> ServicesAt(list, n)
          [] inner /\ IsOpen(toggled, n) -> <<[branch |-> n]>> \o ServicesAt(list, n) \o below[n]
          [] inner /\ ~IsOpen(toggled, n) -> <<[branch |-> n]>>

\* The rows under the root.  The order of siblings (by name) is left open.
TreeRows(list, toggled) ==
    LET rows[n \in Nodes(list) \cup {<<>>}] ==
            LET kids == SetToSeq(Children(Nodes(list), n))
            IN  FlattenSeq([i \in DOMAIN kids |-> NodeRows(list, toggled, rows, kids[i])])
    IN  rows[<<>>]

------------------------------------------------------------------------------
(* The links between a service and a process. *)

\* Name and command line match well enough; the order of the matches and the
\* number that is listed are left out.
Linked(s, p) == s.name \in p.links

------------------------------------------------------------------------------
(* The cards of the diagnoses. *)

\* diagnosticDedupeKey: the values that fluctuate are no part of it.
Cause(i) ==
    CASE i.type \in {"DISK_FILLING", "CONNECTIVITY_FAIL"} -> <<i.type, i.subject>>
      [] i.type = "CONTAINER_FLAP" ->
            <<i.type, IF i.subject # NoDetail THEN i.subject ELSE i.name>>
      [] OTHER -> <<i.type>>

\* A Map from the cause to its newest insight, listed newest first.
Dedupe(items) ==
    SortBy(FoldLeft(LAMBDA seen, i :
                        IF \E k \in DOMAIN seen : Cause(seen[k]) = Cause(i)
                        THEN [k \in DOMAIN seen |->
                                IF Cause(seen[k]) = Cause(i) /\ i.detectedAt > seen[k].detectedAt
                                THEN i ELSE seen[k]]
                        ELSE Append(seen, i),
                    <<>>, items),
           LAMBDA i, j : i.detectedAt > j.detectedAt)
==============================================================================
