---------------------------- MODULE BlockSections ----------------------------
(***************************************************************************)
(* What block reservation promises: trains pass the sections of their      *)
(* routes in order, one block at a time and at most one train per block.   *)
(***************************************************************************)
EXTENDS Naturals, Sequences

CONSTANT None    \* the place of a train that is in no block

VARIABLES
    routes,      \* train -> tuple of sections, each a set of parallel blocks
    place,       \* train -> the block it is in, or None
    passed       \* train -> the number of sections it has entered

vars == <<routes, place, passed>>

Trains == DOMAIN routes

Init ==
    /\ place = [t \in Trains |-> None]
    /\ passed = [t \in Trains |-> 0]

Enter(t, block) ==
    /\ passed[t] < Len(routes[t])
    /\ block \in routes[t][passed[t] + 1]
    /\ \A u \in Trains : place[u] # block
    /\ place' = [place EXCEPT ![t] = block]
    /\ passed' = [passed EXCEPT ![t] = @ + 1]
    /\ UNCHANGED routes

Exit(t) ==
    /\ place[t] # None
    /\ passed[t] = Len(routes[t])
    /\ place' = [place EXCEPT ![t] = None]
    /\ UNCHANGED <<routes, passed>>

Next ==
    \/ \E t \in Trains : \E n \in DOMAIN routes[t] : \E block \in routes[t][n] : Enter(t, block)
    \/ \E t \in Trains : Exit(t)

Spec == Init /\ [][Next]_vars
=============================================================================
