------------------------------ MODULE Coupling ------------------------------
(***************************************************************************)
(* dbsim.engine.coupling.couple_zone: macro arrivals at the boundary of    *)
(* the micro zone become trains of MicroMeet, and the result is read off   *)
(* the events of the finished micro run.                                   *)
(***************************************************************************)
EXTENDS MicroMeet

\* The entry time of a train is its macro arrival; it has no priority.
MacroArrival(t) == scenario.trains[t].entry

Times(t, action) == {events[n].time : n \in {m \in DOMAIN events :
                        events[m].train = t /\ events[m].action = action}}

\* enters[0] and exits[0]: the events are logged in the order of time.
First(times) == CHOOSE x \in times : \A y \in times : x <= y

HandedOff == {t \in Trains : Times(t, "enter") # {} /\ Times(t, "exit") # {}}

\* Mutant: a wait at the boundary is not seen.
HandOffMetInside(t) ==
    [train |-> t,
     entry |-> First(Times(t, "enter")),
     exit |-> First(Times(t, "exit")),
     arrival |-> MacroArrival(t),
     met |-> \E x \in Times(t, "wait") : x > First(Times(t, "enter"))]

HandOff(t) ==
    [train |-> t,
     entry |-> First(Times(t, "enter")),
     exit |-> First(Times(t, "exit")),
     arrival |-> MacroArrival(t),
     met |-> Times(t, "wait") # {}]

ZoneTime(h) == h.exit - h.arrival

Deadlocked == done # Trains

\* Mutant: a train may not enter at the very instant of its macro arrival.
ConsistentAfter ==
    /\ ~Deadlocked
    /\ HandedOff = Trains
    /\ \A t \in Trains : HandOff(t).entry > MacroArrival(t) /\ HandOff(t).exit > HandOff(t).entry

\* CoupledResult.consistent
Consistent ==
    /\ ~Deadlocked
    /\ HandedOff = Trains
    /\ \A t \in Trains : HandOff(t).entry >= MacroArrival(t) /\ HandOff(t).exit > HandOff(t).entry

-----------------------------------------------------------------------------
\* The boundary contract: the only way a hand-off can fail is a deadlock; no
\* train enters before macro delivers it or leaves before it entered.
OnlyDeadlocksAreInconsistent == heap = {} => (Consistent <=> ~Deadlocked)

\* The running time of the blocks a train passed.
FreeRunning(t) ==
    scenario.running["west_approach"] + scenario.running["east_approach"]
        + scenario.running[loopTrack[t]]

\* Micro contention reaches macro only through waiting: a train that never
\* waited spends exactly its running time in the zone, and no train spends
\* less, so every second of boundary or loop delay is a wait for a block.
DelayIsWaiting ==
    heap = {} =>
        \A t \in HandedOff :
            LET h == HandOff(t)
            IN /\ ZoneTime(h) >= FreeRunning(t)
               /\ ~h.met => ZoneTime(h) = FreeRunning(t)

Opposed(t, u) == scenario.trains[t].direction # scenario.trains[u].direction
Overlap(g, h) == g.entry < h.exit /\ h.entry < g.exit

\* Opposing trains that are in the zone together pass each other on the loop,
\* and nowhere else: they stand on different tracks of it.
PassesAreInTheLoop ==
    \A t, u \in HandedOff :
        Opposed(t, u) /\ Overlap(HandOff(t), HandOff(u)) => loopTrack[t] # loopTrack[u]
=============================================================================
