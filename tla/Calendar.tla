------------------------------ MODULE Calendar ------------------------------
(***************************************************************************)
(* What the event loop promises its clients, without a heap or sequence    *)
(* numbers: a calendar with one first-come-first-served list of events per *)
(* instant.  Events are entered for the present or the future only, and    *)
(* are taken from the earliest list that is not empty.                     *)
(***************************************************************************)
EXTENDS Integers, Sequences, FiniteSets

CONSTANTS
    Instants,    \* the instants events can be entered for
    Kinds,
    NoLimit,
    MaxCalls     \* bound: the events one event enters

VARIABLES
    agenda,    \* instant -> the kinds of the events due then, in order
    clock,
    history,   \* the events taken so far, as <<instant, kind>>
    active,    \* a run is in progress
    limit      \* the last instant a run may reach, or NoLimit

vars == <<agenda, clock, history, active, limit>>

InLimit(t) == limit # NoLimit => t <= limit

Earliest(t) == agenda[t] # <<>> /\ \A u \in Instants : u < t => agenda[u] = <<>>

\* The calls <<instant, kind>> entered behind what each list of a holds, those
\* for one instant in their order.
Entered(a, calls) ==
    [t \in Instants |->
        LET due == {i \in DOMAIN calls : calls[i][1] = t}
            Nth(k) == CHOOSE i \in due : Cardinality({j \in due : j < i}) = k - 1
        IN a[t] \o [k \in 1..Cardinality(due) |-> calls[Nth(k)][2]]]

NotBefore(calls, t) == \A i \in DOMAIN calls : calls[i][1] >= t

Init ==
    /\ agenda = [t \in Instants |-> <<>>]
    /\ clock = 0
    /\ history = <<>>
    /\ active = FALSE
    /\ limit \in Instants \cup {NoLimit}

Enter(calls) ==
    /\ ~active
    /\ NotBefore(calls, clock)
    /\ agenda' = Entered(agenda, calls)
    /\ UNCHANGED <<clock, history, active, limit>>

Start == ~active /\ active' = TRUE /\ UNCHANGED <<agenda, clock, history, limit>>

\* The oldest event of the earliest instant happens and enters new ones; a
\* run may be abandoned then (an event for the past was refused).
Take(t, calls) ==
    /\ active
    /\ Earliest(t) /\ InLimit(t)
    /\ clock' = t
    /\ NotBefore(calls, t)
    /\ agenda' = Entered([agenda EXCEPT ![t] = Tail(@)], calls)
    /\ history' = Append(history, <<t, agenda[t][1]>>)
    /\ active' \in BOOLEAN
    /\ UNCHANGED limit

\* A run ends when nothing is left within the limit; it loses at most the one
\* event that showed it the limit.
End ==
    /\ active
    /\ active' = FALSE
    /\ \/ /\ \A t \in Instants : agenda[t] = <<>>
          /\ UNCHANGED agenda
       \/ \E t \in Instants :
            /\ Earliest(t) /\ ~InLimit(t)
            /\ agenda' = [agenda EXCEPT ![t] = Tail(@)]
    /\ UNCHANGED <<clock, history, limit>>

Calls(n) == UNION {[1..k -> Instants \X Kinds] : k \in 0..n}

Next ==
    \/ \E calls \in Calls(1) : Enter(calls)
    \/ Start
    \/ \E t \in Instants, calls \in Calls(MaxCalls) : Take(t, calls)
    \/ End

Spec == Init /\ [][Next]_vars
=============================================================================
