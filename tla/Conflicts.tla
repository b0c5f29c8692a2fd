----------------------------- MODULE Conflicts -----------------------------
(***************************************************************************)
(* dbsim.analysis.conflicts: the conflicts the plan of a meso run would    *)
(* have if no train waited.                                                *)
(***************************************************************************)
EXTENDS Meso, Basics

\* When a train would enter the segment after each station of its path.
PlannedEntry(t) ==
    LET at[i \in DOMAIN Path(t)] ==
            IF i = 0 THEN scenario.trains[t].entry
            ELSE at[i - 1] + Segment(Ahead(t, i - 1)).running + scenario.trains[t].dwell
    IN at

PlannedOccupations ==
    UNION {{[train |-> t, seg |-> Ahead(t, i), dir |-> IF Path(t)[i + 1] > Path(t)[i] THEN 1 ELSE -1,
             enter |-> PlannedEntry(t)[i], exit |-> PlannedEntry(t)[i] + Segment(Ahead(t, i)).running] :
                i \in {j \in DOMAIN Path(t) : ~IsLast(t, j)}} : t \in Trains}

\* Mutant: at equal times starts are processed first.
SweptBeforeStartsFirst(a, b) ==
    \/ a.time < b.time
    \/ a.time = b.time /\ a.start /\ ~b.start
    \/ a.time = b.time /\ a.start = b.start /\ a.occ.train < b.occ.train

\* The order of the sweep: ends first; ties do not matter.
SweptBefore(a, b) ==
    \/ a.time < b.time
    \/ a.time = b.time /\ ~a.start /\ b.start
    \/ a.time = b.time /\ a.start = b.start /\ a.occ.train < b.occ.train

\* _make_conflict
MakeConflict(s, start, end, involved, peak) ==
    [seg |-> s, start |-> start, end |-> end, trains |-> {o.train : o \in involved}, peak |-> peak,
     kind |-> IF Segment(s).capacity = 1 /\ Cardinality({o.dir : o \in involved}) > 1
                THEN "single-track meet" ELSE "overcapacity"]

\* One turn of the sweep: an occupation of the segment begins or ends.
Swept(s, w, ev) ==
    LET active == IF ev.start THEN w.active \cup {ev.occ} ELSE w.active \ {ev.occ}
        over == Cardinality(active) > Segment(s).capacity
        closed == IF w.from = Never THEN {} ELSE {MakeConflict(s, w.from, ev.time, w.involved, w.peak)}
    IN IF over THEN [w EXCEPT !.active = active, !.involved = @ \cup active,
                              !.from = IF @ = Never THEN ev.time ELSE @,
                              !.peak = IF @ < Cardinality(active) THEN Cardinality(active) ELSE @]
       ELSE [active |-> active, from |-> Never, peak |-> 0, involved |-> {}, found |-> w.found \cup closed]

\* _detect_on_segment; a train blocks the segment until its headway is over.
DetectOnSegment(s, occs) ==
    LET begins == {[time |-> o.enter, start |-> TRUE, occ |-> o] : o \in occs}
        ends == {[time |-> o.exit + Segment(s).headway, start |-> FALSE, occ |-> o] : o \in occs}
        events == Sorted(begins \cup ends, SweptBefore)
        sweep[n \in 0..Len(events)] ==
            IF n = 0 THEN [active |-> {}, from |-> Never, peak |-> 0, involved |-> {}, found |-> {}]
            ELSE Swept(s, sweep[n - 1], events[n])
    IN sweep[Len(events)].found

DetectConflicts == UNION {DetectOnSegment(s, {o \in PlannedOccupations : o.seg = s}) : s \in Segments}

\* max_occupancy, from the records: at equal times trains leave first.
MaxOccupancy(s) ==
    LET recs == {n \in DOMAIN occupations : occupations[n].seg = s}
        present(x) == Cardinality({n \in recs : occupations[n].enter <= x /\ x < occupations[n].exit})
        peaks == {present(occupations[n].enter) : n \in recs}
    IN IF recs = {} THEN 0 ELSE CHOOSE p \in peaks : \A q \in peaks : q <= p

OvercapacitySegments == {s \in Segments : MaxOccupancy(s) > Segment(s).capacity}

-----------------------------------------------------------------------------
\* The conflicts say exactly when a segment would be claimed by more trains
\* than it has tracks, how many at most, and by whom; and they foretell the
\* run: on single tracks, or without headways, a plan without conflicts is
\* what the trains do, none ever waits.
ConflictsForetellWaiting ==
    LET planned == PlannedOccupations
        conflicts == DetectConflicts
        claim(s, x) == {o \in planned : o.seg = s /\ o.enter <= x /\ x < o.exit + Segment(s).headway}
        instants == {o.enter : o \in planned} \cup {o.exit + Segment(o.seg).headway : o \in planned}
        over(s) == {x \in instants : Cardinality(claim(s, x)) > Segment(s).capacity}
    IN /\ movements = <<>> => \A s \in Segments :
            LET found == {c \in conflicts : c.seg = s}
            IN /\ over(s) = {x \in instants : \E c \in found : c.start <= x /\ x < c.end}
               /\ \A c \in found : LET during == {x \in over(s) : c.start <= x /\ x < c.end}
                                   IN /\ c.start \in during /\ c.end \in instants
                                      /\ c.trains = {o.train : o \in UNION {claim(s, x) : x \in during}}
                                      /\ \A x \in during : Cardinality(claim(s, x)) <= c.peak
                                      /\ \E x \in during : Cardinality(claim(s, x)) = c.peak
       /\ heap = {} /\ ~raised /\ scenario.closures = <<>> /\ conflicts = {}
            /\ (\A s \in Segments : Segment(s).capacity = 1 \/ Segment(s).headway = 0) =>
                {<<r.train, r.seg, r.enter, r.exit>> : r \in Range(occupations)}
                    = {<<o.train, o.seg, o.enter, o.exit>> : o \in planned}
       /\ heap = {} => OvercapacitySegments = {}
=============================================================================
