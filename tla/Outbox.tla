------------------------------- MODULE Outbox -------------------------------
(***************************************************************************)
(* What the push path promises, with no queue, spool, worker or network:   *)
(* a snapshot that was offered stays pending until the hub has accepted it *)
(* or it is given up on the record.  The hub may accept a snapshot more    *)
(* than once, and after it was given up: delivery is at least once.        *)
(***************************************************************************)
EXTENDS Naturals

VARIABLES
    offered,    \* how many snapshots were handed to Enqueue: 1 .. offered
    pending,    \* those still held somewhere in the agent
    delivered,  \* those the hub has accepted at least once
    givenUp     \* those the agent dropped for a recorded reason

vars == <<offered, pending, delivered, givenUp>>

Init ==
    /\ offered = 0
    /\ pending = {}
    /\ delivered = {}
    /\ givenUp = {}

Offer ==
    /\ offered' = offered + 1
    /\ pending' = pending \cup {offered + 1}
    /\ UNCHANGED <<delivered, givenUp>>

Accept(s) ==
    /\ delivered' = delivered \cup {s}
    /\ UNCHANGED <<offered, pending, givenUp>>

\* The agent forgets snapshots it knows to be delivered.
Settle(S) ==
    /\ S \subseteq delivered
    /\ pending' = pending \ S
    /\ UNCHANGED <<offered, delivered, givenUp>>

GiveUp(S) ==
    /\ pending' = pending \ S
    /\ givenUp' = givenUp \cup S
    /\ UNCHANGED <<offered, delivered>>

Next ==
    \/ Offer
    \/ \E s \in 1 .. offered : Accept(s)
    \/ \E S \in SUBSET pending : Settle(S) \/ GiveUp(S)

Spec == Init /\ [][Next]_vars

(* No snapshot vanishes: each one offered is pending, delivered or on the  *)
(* record as given up.                                                     *)
Accounted == 1 .. offered = pending \cup delivered \cup givenUp
=============================================================================
