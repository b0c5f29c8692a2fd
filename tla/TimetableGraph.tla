--------------------------- MODULE TimetableGraph ---------------------------
(***************************************************************************)
(* dbsim.model.graph.TimetableGraph: the events of a date as the nodes of  *)
(* a graph whose edges are rides, dwell times and waiting at a station,    *)
(* and the journeys it finds.  The command `route` builds the graph from   *)
(* the database as it is and asks it once.                                 *)
(***************************************************************************)
EXTENDS Timetable

Graph == INSTANCE Graphs

CONSTANT Requests   \* what is asked: [date, from, to, after]

VARIABLE journey   \* the answer last printed: its request, legs and the feed loaded, or Null

vars == <<zip, manifest, db, next, loaded, journey>>

\* _station_of and _stop_to_station
Station(d, stop) ==
    LET rows == {s \in d["stops"] : s.id = stop}
    IN IF \E s \in rows : s.parent # Null THEN (CHOOSE s \in rows : TRUE).parent ELSE stop

\* _name_to_stations
StationsForName(d, name) == {Station(d, s.id) : s \in {x \in d["stops"] : x.name = name}}

\* The EventNodes of some calls.
EventNode(d, call, kind, time) ==
    [trip |-> call.trip, seq |-> call.seq, kind |-> kind, time |-> time, stop |-> call.stop,
     station |-> Station(d, call.stop)]

EventNodes(d, calls) ==
    {EventNode(d, c, "arr", c.arr) : c \in {x \in calls : x.arr # Null}}
      \cup {EventNode(d, c, "dep", c.dep) : c \in {x \in calls : x.dep # Null}}

\* The order of a station's timeline: a stable sort by time and _KIND_RANK.
TimelineOrder(u, v) ==
    \/ u.time < v.time
    \/ u.time = v.time /\ u.kind # v.kind /\ u.kind = "arr"
    \/ u.time = v.time /\ u.kind = v.kind /\ (u.trip < v.trip \/ (u.trip = v.trip /\ u.seq < v.seq))

Dwells(nodes) ==
    {e \in nodes \X nodes : e[1].trip = e[2].trip /\ e[1].seq = e[2].seq
        /\ e[1].kind = "arr" /\ e[2].kind = "dep" /\ e[2].time >= e[1].time}

\* From the last stop before that has a departure; a stop without times is
\* passed through.
Rides(nodes) ==
    LET before(v) == {u \in nodes : u.kind = "dep" /\ u.trip = v.trip /\ u.seq < v.seq}
    IN UNION {{<<u, v>> : u \in {x \in before(v) : x.time <= v.time /\ \A y \in before(v) : y.seq <= x.seq}} :
                 v \in {n \in nodes : n.kind = "arr"}}

\* _build_timelines: each event of a station is followed by the next one.
Waits(nodes) ==
    LET later(u) == {v \in nodes : v.station = u.station /\ TimelineOrder(u, v)}
    IN UNION {{<<u, v>> : v \in {x \in later(u) : \A y \in later(u) : y = x \/ TimelineOrder(x, y)}} :
                 u \in nodes}

\* _build_events: no services, no graph.
BuildGraph(d, date) ==
    LET nodes == EventNodes(d, CallsOn(d, date))
    IN [node |-> nodes, edge |-> Dwells(nodes) \cup Rides(nodes) \cup Waits(nodes)]

\* stats
Stats(d, date) ==
    LET g == BuildGraph(d, date)
        links == {<<e[1].station, e[2].station>> : e \in Rides(g.node)}
        linked == [node |-> {n.station : n \in g.node},
                   edge |-> links \cup {<<l[2], l[1]>> : l \in links}]
        components == {c \in SUBSET linked.node : c # {} /\ Graph!AllSuccessors(linked, c) \subseteq c}
        minimal == {c \in components : \A b \in components : b \subseteq c => b = c}
    IN [nodes |-> Cardinality(g.node), edges |-> Cardinality(g.edge),
        stations |-> Cardinality(linked.node), stationEdges |-> Cardinality(links),
        components |-> Cardinality(minimal),
        largest |-> Max({0} \cup {Cardinality(c) : c \in minimal})]

-----------------------------------------------------------------------------
\* Mutant: only events after the requested time are linked to the source.
ConnectSourceLater(g, stations, after) ==
    {n \in g.node : n.station \in stations /\ n.time > after /\
        \A m \in g.node : m.station = n.station /\ m.time > after => m = n \/ TimelineOrder(n, m)}

\* _connect_source: the first event at each origin that is not too early.
ConnectSource(g, stations, after) ==
    {n \in g.node : n.station \in stations /\ n.time >= after /\
        \A m \in g.node : m.station = n.station /\ m.time >= after => m = n \/ TimelineOrder(n, m)}

Reachable(g, first) ==
    LET more(S) == S \cup Graph!AllSuccessors(g, S)
        r[n \in 0..Cardinality(g.node)] == IF n = 0 THEN first ELSE more(r[n - 1])
    IN r[Cardinality(g.node)]

\* The node paths dijkstra_shortest_paths may return.  A node's distance is
\* its time less the requested one whichever way it is reached, and only a
\* shorter way replaces one found before: its predecessor is the source, or
\* the first node settled that has an edge to it.  That is one with the least
\* time, and no node before it on the path has an edge to it either.
ShortestPaths(g, first, targets) ==
    LET reached == Reachable(g, first)
        earliest(S) == {u \in S : \A v \in S : u.time <= v.time}
        back(p) == IF Head(p) \in first THEN {p}
                   ELSE {<<u>> \o p : u \in {w \in earliest(Graph!Predecessors(g, Head(p)) \cap reached) :
                                       w \notin ToSet(p) /\ \A k \in 2..Len(p) : <<w, p[k]>> \notin g.edge}}
        paths[n \in 0..Cardinality(g.node)] ==
            IF n = 0 THEN {<<v>> : v \in earliest(reached \cap targets)}
            ELSE UNION {back(p) : p \in paths[n - 1]}
    IN paths[Cardinality(g.node)]

\* _reconstruct: one leg per train boarded, up to its last arrival on the way;
\* a train that is only seen to depart while waiting is no leg.
Reconstruct(path) ==
    LET departs == {i \in DOMAIN path : path[i].kind = "dep"}
        before(i) == {j \in departs : j < i}
        boards == {i \in departs : before(i) # {} => path[Max(before(i))].trip # path[i].trip}
        until(i) == Min({Len(path) + 1} \cup {j \in boards : j > i}) - 1
        alights(i) == {j \in (i + 1)..until(i) : path[j].kind = "arr" /\ path[j].trip = path[i].trip}
        legs == Sorted({i \in boards : alights(i) # {}}, <)
    IN [n \in DOMAIN legs |-> [trip |-> path[legs[n]].trip, board |-> path[legs[n]],
                               alight |-> path[Max(alights(legs[n]))]]]

\* plan_journey; no legs stand for None.
PlanJourney(d, q) ==
    LET g == BuildGraph(d, q.date)
        targets == {n \in g.node : n.kind = "arr" /\ n.station \in StationsForName(d, q.to)}
        paths == ShortestPaths(g, ConnectSource(g, StationsForName(d, q.from), q.after), targets)
    IN IF paths = {} THEN {<<>>} ELSE {Reconstruct(p) : p \in paths}

Init == IngestInit /\ journey = Null

\* _run_route; the database is not opened while it is being written.
Route ==
    /\ journey = Null
    /\ next = 0 /\ Queryable(db)
    /\ \E q \in Requests : \E legs \in PlanJourney(db, q) : journey' = [request |-> q, legs |-> legs, feed |-> loaded]
    /\ UNCHANGED ingestVars

Next == Route \/ (Ingest /\ journey' = Null)

Spec == Init /\ [][Next]_vars

-----------------------------------------------------------------------------
\* What GTFS says of a feed, without the graph: a service runs on a date by
\* its exception for that date or else by its calendar, if it has any.
Runs(f, service, date) ==
    LET rows(t) == {r \in IF t \in DOMAIN f THEN f[t].rows ELSE {} : r.service = service}
        exceptions == {x.type : x \in {y \in rows("calendar_dates") : y.date = date}}
    IN IF exceptions # {} THEN 1 \in exceptions
       ELSE \E c \in rows("calendar") :
                c.start <= date /\ date <= c.end /\ Weekday(date) \in c.days

\* One ride on one train: from any of its departures to any later arrival.
RidesOf(f, date) ==
    LET calls == Select("stop_times", f["stop_times"])
        runs(t) == \E x \in f["trips"].rows : x.id = t /\ Runs(f, x.service, date)
        place(c) == CHOOSE p \in {s.parent : s \in {x \in f["stops"].rows : x.id = c.stop}} \cup {c.stop} :
                        p # Null /\ (p = c.stop => \A s \in f["stops"].rows : s.id = c.stop => s.parent = Null)
    IN {[trip |-> x[1].trip, from |-> place(x[1]), dep |-> x[1].dep, to |-> place(x[2]), arr |-> x[2].arr] :
           x \in {y \in calls \X calls : y[1].trip = y[2].trip /\ y[1].seq < y[2].seq
                      /\ y[1].dep # Null /\ y[2].arr # Null /\ runs(y[1].trip)}}

Named(f, name) == StationsForName([stops |-> f["stops"].rows], name)

\* The times at which a traveller can arrive at each station.
Arrivals(f, q) ==
    LET rides == RidesOf(f, q.date)
        more(S) == S \cup {[at |-> r.to, time |-> r.arr] :
                       r \in {x \in rides : \E a \in S : a.at = x.from /\ a.time <= x.dep}}
        after[n \in 0..4] == IF n = 0 THEN {[at |-> s, time |-> q.after] : s \in Named(f, q.from)}
                             ELSE more(after[n - 1])
    IN {a.time : a \in {x \in after[4] : x.at \in Named(f, q.to)}}

\* "The earliest-arrival Journey, or None if unreachable", for the feed that
\* was loaded last, whatever was in the database before and however often
\* earlier loads were cut short: no ride, change of train or waiting that the
\* feed allows gets there before.
JourneyIsEarliest ==
    journey # Null /\ journey.feed # Null =>
        LET legs == journey.legs
            times == Arrivals(journey.feed, journey.request)
        IN IF legs = <<>> THEN times = {} ELSE times # {} /\ legs[Len(legs)].alight.time = Min(times)

\* A journey can be travelled as it is printed: it starts at the origin not
\* before the requested time, each leg is a ride of a train that runs on the
\* date, the next one leaves from where and not before it ends, and no train
\* is left only to be boarded again.  The other queries know of it, too: the
\* trip's stops, the trains through the origin and the connected stations.
JourneyCanBeTravelled ==
    journey # Null /\ journey.legs # <<>> =>
        LET legs == journey.legs
            f == journey.feed
            q == journey.request
            ride(l) == [trip |-> l.trip, from |-> l.board.station, dep |-> l.board.time,
                        to |-> l.alight.station, arr |-> l.alight.time]
        IN /\ legs[1].board.time >= q.after
           /\ \A n \in 1..(Len(legs) - 1) :
                /\ legs[n + 1].board.station = legs[n].alight.station
                /\ legs[n + 1].board.time >= legs[n].alight.time
                /\ legs[n + 1].trip # legs[n].trip
           /\ \A n \in DOMAIN legs :
                LET calls == TripStopSequence(db, legs[n].trip)
                IN \E i, j \in DOMAIN calls : i < j /\ calls[i].stop = legs[n].board.stop
                                                   /\ calls[j].stop = legs[n].alight.stop
           /\ (\E o \in db["stops"] : o.name = q.from /\ o.parent = Null) =>
                \E call \in ToSet(TrainsThroughStation(db, q.from, q.date)) :
                    call.trip = legs[1].trip /\ call.dep = legs[1].board.time
           /\ Cardinality({l.board.station : l \in ToSet(legs)}) < Stats(db, q.date).largest
           /\ f # Null =>
                /\ legs[1].board.station \in Named(f, q.from)
                /\ legs[Len(legs)].alight.station \in Named(f, q.to)
                /\ \A n \in DOMAIN legs : ride(legs[n]) \in RidesOf(f, q.date)
=============================================================================
