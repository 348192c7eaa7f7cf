----------------------------- MODULE MCHubIngest -----------------------------
(* Instances of HubIngest: the load rises with every snapshot.             *)
EXTENDS HubIngest, TLC

MCLoad == [t \in Times |-> 2 ^ t]
Symmetry == Permutations(Handlers) \cup Permutations(Agents)
=============================================================================
