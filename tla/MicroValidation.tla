-------------------------- MODULE MicroValidation ---------------------------
(***************************************************************************)
(* dbsim.analysis.micro_validation: the meets, the peak occupancy and the  *)
(* spacing of a coupled run, swept from the windows in which its trains    *)
(* are in the zone.                                                        *)
(***************************************************************************)
EXTENDS Coupling, Basics, SequencesExt

HandOffs == {HandOff(t) : t \in HandedOff}

\* entry_boundary: trains from the west and trains from the east.
Boundary(h) == scenario.trains[h.train].direction
Opposite(boundary) == IF boundary = "WE" THEN "EW" ELSE "WE"

\* An entry counts up, an exit down.
ZoneEvents ==
    {[time |-> h.entry, delta |-> 1, of |-> h] : h \in HandOffs}
    \cup {[time |-> h.exit, delta |-> -1, of |-> h] : h \in HandOffs}

\* Mutant: at one instant a train enters before another has left.
EntersFirst(e, f) ==
    \/ e.time < f.time
    \/ e.time = f.time /\ e.delta > f.delta
    \/ e.time = f.time /\ e.delta = f.delta /\ e.of.train < f.of.train

\* The order of the sweep: at one instant those who leave come first.
LeavesFirst(e, f) ==
    \/ e.time < f.time
    \/ e.time = f.time /\ e.delta < f.delta
    \/ e.time = f.time /\ e.delta = f.delta /\ e.of.train < f.of.train

\* One step of the sweep over the trains in the zone, per boundary.
SweptOver(s, e) ==
    LET boundary == Boundary(e.of)
        active == [s.active EXCEPT ![boundary] = @ + e.delta]
        inside == active["WE"] + active["EW"]
    IN [active |-> active,
        meets |-> IF e.delta = 1 THEN s.meets + s.active[Opposite(boundary)] ELSE s.meets,
        peak |-> IF e.delta = 1 /\ inside > s.peak THEN inside ELSE s.peak]

SweepZone ==
    FoldLeft(SweptOver, [active |-> [WE |-> 0, EW |-> 0], meets |-> 0, peak |-> 0],
             Sorted(ZoneEvents, LeavesFirst))

\* The smallest gap between consecutive entries at one boundary, 0 without any.
MinObservedHeadway ==
    LET followers(g) == {h \in HandOffs \ {g} : Boundary(g) = Boundary(h) /\ g.entry <= h.entry}
        gaps == UNION {{h.entry - g.entry : h \in followers(g)} : g \in HandOffs}
    IN IF gaps = {} THEN 0 ELSE First(gaps)

\* MicroValidationReport, with its property `passes`.
ValidateMicroZone ==
    LET sweep == SweepZone
        capacity == Cardinality(Tracks)
    IN [nTrains |-> Cardinality(HandOffs),
        nMeets |-> sweep.meets,
        maxOccupancy |-> sweep.peak,
        minObservedHeadway |-> MinObservedHeadway,
        passes |-> Consistent /\ ~Deadlocked /\ sweep.peak <= capacity]

-----------------------------------------------------------------------------
\* What the report counts is what happened: its meets are the pairs of opposing
\* trains that were in the zone together, each of them passed the other on the
\* other loop track, and its peak is the greatest number of trains that were in
\* the zone at one instant.  (The peak counts the approaches, too: it can be
\* above the number of loop tracks although no track held two trains.)
MeetsAreInTheLoop ==
    heap = {} =>
        LET report == ValidateMicroZone
            meetings == {p \in HandOffs \X HandOffs :
                            Boundary(p[1]) = "WE" /\ Boundary(p[2]) = "EW" /\ Overlap(p[1], p[2])}
            Inside(time) == {h \in HandOffs : h.entry <= time /\ time < h.exit}
        IN /\ report.nMeets = Cardinality(meetings)
           /\ PassesAreInTheLoop
           /\ \A h \in HandOffs : Cardinality(Inside(h.entry)) <= report.maxOccupancy
           /\ HandOffs # {} =>
                \E h \in HandOffs : Cardinality(Inside(h.entry)) = report.maxOccupancy
=============================================================================
