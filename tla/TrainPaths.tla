----------------------------- MODULE TrainPaths -----------------------------
(***************************************************************************)
(* What is read off the timetable for a line of stations: the schedules of *)
(* the macro simulation, the paths of the Bildfahrplan (bildfahrplan.py),  *)
(* the UIC 406 occupancy (capacity.py) and the arrivals at the boundary of *)
(* the micro zone (__main__.py).  A stop's coordinates are one number, its *)
(* position along the line.                                                *)
(***************************************************************************)
EXTENDS TimetableGraph

CONSTANTS
    Names,      \* the stations of the corridor, in order
    Segments,   \* per segment [running, headway, capacity]
    Window,     \* window_s
    Day         \* the date looked at

\* There is a segment between each two stations.
LineAssumption ==
    /\ DOMAIN Names = 1..Len(Names) /\ Len(Names) \in Nat \ {0, 1}
    /\ DOMAIN Segments = 1..(Len(Names) - 1)
    /\ Window \in Int
ASSUME LineAssumption

\* load_schedules: trip -> its ScheduledStops, counted from 0.
LoadSchedules(d, date) ==
    LET on == CallsOn(d, date)
        calls(t) == Sorted({c \in on : c.trip = t}, LAMBDA c, e : c.seq < e.seq)
    IN [t \in {c.trip : c \in on} |-> [i \in 0..(Len(calls(t)) - 1) |-> calls(t)[i + 1]]]

Distance(a, b) == IF a <= b THEN b - a ELSE a - b

\* build_corridor; it fails unless each station is in the feed with a position.
Located(d, name) == {s \in d["stops"] : s.name = name /\ s.pos # Null}

CorridorIsFound(d) == \A i \in DOMAIN Names : Located(d, Names[i]) # {}

BuildCorridor(d) ==
    LET pos(i) == (CHOOSE s \in Located(d, Names[i]) : TRUE).pos
        km[i \in DOMAIN Names] == IF i = 1 THEN 0 ELSE km[i - 1] + Distance(pos(i - 1), pos(i))
    IN [i \in DOMAIN Names |->
           [name |-> Names[i], km |-> km[i], stops |-> {s.id : s \in {x \in d["stops"] : x.name = Names[i]}}]]

IndexOfStop(corridor, stop) ==
    Min({i \in DOMAIN corridor : stop \in corridor[i].stops} \cup {Len(corridor) + 1})

\* extract_train_paths: trains with calls at two places of the corridor.  The
\* direction compares the last call's place with the first one's.
ExtractTrainPaths(d, corridor, date) ==
    LET on == {c \in CallsOn(d, date) : IndexOfStop(corridor, c.stop) <= Len(corridor)}
        km(c) == corridor[IndexOfStop(corridor, c.stop)].km
        of(t) == {c \in on : c.trip = t}
        ends(t) == LET first == CHOOSE c \in of(t) : \A e \in of(t) : c.seq <= e.seq
                       final == CHOOSE c \in of(t) : \A e \in of(t) : c.seq >= e.seq
                   IN <<first, final>>
        points(t) == UNION {{[time |-> x, km |-> km(c)] : x \in {c.arr, c.dep} \ {Null}} : c \in of(t)}
    IN {[trip |-> t, points |-> points(t),
         direction |-> IF km(ends(t)[2]) > km(ends(t)[1]) THEN "down" ELSE "up"] :
            t \in {c.trip : c \in {x \in on : Cardinality({km(y) : y \in of(x.trip)}) >= 2}}}

\* _interp_time_at, and entry_time of the boundary arrivals: the first two
\* neighbouring points, by distance, that have the place between them.
InterpTimeAt(path, km) ==
    LET pts == Sorted(path.points, LAMBDA p, q : p.km < q.km \/ (p.km = q.km /\ p.time < q.time))
        around == {i \in 1..(Len(pts) - 1) : pts[i].km <= km /\ km <= pts[i + 1].km}
        p == pts[Min(around)]
        q == pts[Min(around) + 1]
    IN IF km < pts[1].km \/ km > pts[Len(pts)].km THEN Null
       ELSE IF around = {} THEN pts[Len(pts)].time
       ELSE IF p.km = q.km THEN p.time
       ELSE Round(p.time * (q.km - p.km) + (q.time - p.time) * (km - p.km), q.km - p.km)

\* It fails for a train that has no time at its stations of the corridor.
HaveTimes(paths) == \A p \in paths : p.points # {}

\* segment_entries_from_paths: the trains that pass both ends of a segment.
SegmentEntries(corridor, paths) ==
    LET passing(p, i) == {InterpTimeAt(p, corridor[k].km) : k \in {i, i + 1}}
    IN UNION {{[seg |-> i, trip |-> p.trip, time |-> Min(passing(p, i))] :
                  p \in {x \in paths : Null \notin passing(x, i)}} : i \in 1..(Len(corridor) - 1)}

During(entries, start) == {e \in entries : start <= e.time /\ e.time < start + Window}

\* Mutant: the window ends at an entry.
PeakWindowBefore(entries) ==
    LET count(s) == Cardinality(During(entries, s))
        starts == {e.time - Window : e \in entries}
    IN Min({s \in starts : \A x \in starts : count(x) <= count(s)} \cup IF starts = {} THEN {0} ELSE {})

\* _peak_window: the first entry from which a window holds the most entries.
PeakWindow(entries) ==
    LET count(s) == Cardinality(During(entries, s))
        starts == {e.time : e \in entries}
    IN Min({s \in starts : \A x \in starts : count(x) <= count(s)} \cup IF starts = {} THEN {0} ELSE {})

\* uic406_occupancy: per segment the occupied seconds, over its capacity.
Uic406Occupancy(entries) ==
    LET busiest == During(entries, PeakWindow(entries))
        n(i) == Cardinality({e \in busiest : e.seg = i})
    IN {[seg |-> i, trains |-> n(i), occupied |-> n(i) * (Segments[i].running + Segments[i].headway),
         capacity |-> Segments[i].capacity] : i \in DOMAIN Segments}

\* _zone_boundary_arrivals, for a zone between two stations of the corridor.
BoundaryArrivals(corridor, paths, west, east) ==
    LET at(p) == InterpTimeAt(p, corridor[IF p.direction = "down" THEN west ELSE east].km)
    IN {[train |-> p.trip, direction |-> IF p.direction = "down" THEN "WE" ELSE "EW", time |-> at(p)] :
           p \in {x \in paths : at(x) # Null}}

-----------------------------------------------------------------------------
Corridor == BuildCorridor(db)
Paths == ExtractTrainPaths(db, Corridor, Day)

Settled == next = 0 /\ journey = Null /\ Queryable(db) /\ CorridorIsFound(db) /\ HaveTimes(Paths)

\* A train that comes down the line, or up it, and does not turn round on it.
RunsOneWay(p) ==
    \A x, y \in p.points :
        x.time < y.time => IF p.direction = "down" THEN x.km <= y.km ELSE y.km <= x.km

CalledAt(p, km) == {x.time : x \in {y \in p.points : y.km = km}}

\* Where a train was last before it comes to a place, and where it is next.
LastBefore(p, km) ==
    LET behind == {x \in p.points : IF p.direction = "down" THEN x.km < km ELSE km < x.km}
    IN CHOOSE x \in behind : \A y \in behind :
            y.time < x.time \/ (y.time = x.time /\ Distance(x.km, km) <= Distance(y.km, km))

NextAfter(p, km) ==
    LET ahead == {x \in p.points : IF p.direction = "down" THEN km < x.km ELSE x.km < km}
    IN CHOOSE x \in ahead : \A y \in ahead :
            x.time < y.time \/ (x.time = y.time /\ Distance(x.km, km) <= Distance(y.km, km))

\* When a train reaches a place: it arrives there, or passes it at an even speed
\* between leaving the place before and arriving at the one after.
ReachedAt(p, km) ==
    LET a == LastBefore(p, km)
        b == NextAfter(p, km)
    IN IF CalledAt(p, km) # {} THEN Min(CalledAt(p, km))
       ELSE Round(a.time * Distance(b.km, km) + b.time * Distance(a.km, km), Distance(a.km, b.km))

\* _interp_time_at is wrong about a train that comes up the line and stands at
\* the place before or after one it passes: it takes the train to leave where
\* it arrives and to arrive where it leaves.
Misplaced(p, km) ==
    /\ p.direction = "up" /\ CalledAt(p, km) = {}
    /\ \E x \in {LastBefore(p, km), NextAfter(p, km)} : Cardinality(CalledAt(p, x.km)) > 1

\* A time of a train is between its times, and is when it reaches the place.
IsTimeAt(p, km, time) ==
    /\ \E x, y \in p.points : x.time <= time /\ time <= y.time
    /\ RunsOneWay(p) /\ ~Misplaced(p, km) => time = ReachedAt(p, km)

\* The analyses of the line count every train once and, unless it is misplaced
\* or turns round, where it is: a path has the times of the schedule that the
\* macro simulation would run and no other; a train enters a segment when it
\* reaches the nearer end, and a zone when it reaches its boundary; and no
\* window at all, beginning at an entry or not, holds more entries than the
\* report counts.
OccupancyIsOfTheBusiestHour ==
    Settled =>
        LET corridor == Corridor
            paths == Paths
            entries == SegmentEntries(corridor, paths)
            counted == MapThenSumSet(LAMBDA s : s.trains, Uic406Occupancy(entries))
        IN /\ \A p \in paths : \A x \in p.points :
                LET stops == LoadSchedules(db, Day)[p.trip]
                IN \E i \in DOMAIN stops : /\ x.time \in {stops[i].arr, stops[i].dep}
                                            /\ x.km = corridor[IndexOfStop(corridor, stops[i].stop)].km
           /\ \A e \in entries :
                /\ \A p \in paths : p.trip = e.trip =>
                        IsTimeAt(p, corridor[IF p.direction = "down" THEN e.seg ELSE e.seg + 1].km, e.time)
                /\ \A o \in entries : o.trip = e.trip /\ o.seg = e.seg => o = e
           /\ \A west, east \in DOMAIN corridor :
                LET arrivals == BoundaryArrivals(corridor, paths, west, east)
                IN \A a \in arrivals :
                    /\ \A p \in paths : p.trip = a.train =>
                        IsTimeAt(p, corridor[IF p.direction = "down" THEN west ELSE east].km, a.time)
                    /\ \A o \in arrivals : o.train = a.train => o = a
           /\ \A e \in entries : \A start \in {e.time - Window, e.time - Window + 1, e.time + 1} :
                Cardinality(During(entries, start)) <= counted
=============================================================================
