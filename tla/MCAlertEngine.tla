---------------------------- MODULE MCAlertEngine ----------------------------
(* Instances of AlertEngine for TLC. *)
EXTENDS AlertEngine, TLC

CONSTANTS a1, cpu, disk, p1, p2

OneAgent == {a1}
OneType == {cpu}
TwoTypes == {cpu, disk}
OneProducer == {p1}
TwoProducers == {p1, p2}
None == {}
One == {1}
Two == {2}
OneTwo == {1, 2}
Symmetric == Permutations(TwoProducers)
=============================================================================
