---------------------------- MODULE ScenarioFile ----------------------------
(***************************************************************************)
(* dbsim.scenario: a scenario document is read and becomes the input of a  *)
(* meso run over a corridor that is built from track segments; and the run *)
(* of the command `meso`.  A document is a partial function, its trains    *)
(* and disruptions too, as JSON objects are.                               *)
(***************************************************************************)
EXTENDS Conflicts

\* dict.get
Get(d, key, default) == IF key \in DOMAIN d THEN d[key] ELSE default

Dispatchers == {"priority", "fifo"}

Accepted(doc) == Get(Get(doc, "dispatch", <<>>), "dispatcher", "priority") \in Dispatchers

\* from_dict, whose trains and disruptions are tuples.
FromDict(doc) ==
    LET disruptions == Get(doc, "disruptions", <<>>)
        train(d) == [from |-> d["from"], to |-> d["to"], entry |-> Get(d, "entry_time_s", 0),
                     priority |-> Get(d, "priority", 0), dwell |-> Get(d, "dwell_s", 30)]
        trains == Get(doc, "trains", <<>>)
    IN [stations |-> doc["corridor"]["stations"],
        headway |-> Get(doc["corridor"], "headway_s", 120),
        trains |-> [i \in DOMAIN trains |-> train(trains[i])],
        closures |-> Get(disruptions, "closures", <<>>),
        restrictions |-> Get(disruptions, "speed_restrictions", <<>>),
        dispatcher |-> Get(Get(doc, "dispatch", <<>>), "dispatcher", "priority")]

\* meso_corridor_from_segments: a Segment has a length in metres, a speed in
\* km/h or 0, and tracks.
MesoCorridorFromSegments(track, headway) ==
    LET speed(i) == IF track[i].speed = 0 THEN 80 ELSE track[i].speed
        running(i) == Round(track[i].length * 18, speed(i) * 5)
    IN [i \in 0..(Len(track) - 1) |->
           [running |-> IF running(i + 1) < 60 THEN 60 ELSE running(i + 1), headway |-> headway,
            capacity |-> IF track[i + 1].tracks < 1 THEN 1 ELSE track[i + 1].tracks]]

\* apply_speed_restrictions: of several for a segment the last one counts.  A
\* factor is a pair, its numerator and denominator.
ApplySpeedRestrictions(segments, restrictions) ==
    LET of(s) == {i \in DOMAIN restrictions : restrictions[i].seg = s}
        factor(s) == restrictions[CHOOSE i \in of(s) : \A j \in of(s) : j <= i].factor
    IN [s \in DOMAIN segments |->
           IF of(s) = {} THEN segments[s]
           ELSE [segments[s] EXCEPT !.running = Round(@ * factor(s)[1], factor(s)[2])]]

\* The stations from a to b, in either direction.
PathBetween(a, b) == [i \in 0..(IF a <= b THEN b - a ELSE a - b) |-> IF a <= b THEN a + i ELSE a - i]

\* scenario_trains
ScenarioTrains(s) ==
    LET index(name) == (CHOOSE i \in DOMAIN s.stations : s.stations[i] = name /\
                            \A j \in DOMAIN s.stations : s.stations[j] = name => i <= j) - 1
    IN [t \in DOMAIN s.trains |->
           [path |-> PathBetween(index(s.trains[t].from), index(s.trains[t].to)),
            entry |-> s.trains[t].entry, priority |-> s.trains[t].priority, dwell |-> s.trains[t].dwell]]

\* build_corridor_for_scenario and run_scenario, on the track found.
RunScenario(s, track) ==
    [segments |-> ApplySpeedRestrictions(MesoCorridorFromSegments(track, s.headway), s.restrictions),
     trains |-> ScenarioTrains(s), closures |-> s.closures, dispatcher |-> s.dispatcher, rank |-> <<>>]

\* _run_meso: one train each way, both ready at once.
RunMeso(track, headway, closures, dispatcher) ==
    LET n == Len(track)
        train(a, b, priority) == [path |-> PathBetween(a, b), entry |-> 0, priority |-> priority, dwell |-> 30]
    IN [segments |-> MesoCorridorFromSegments(track, headway),
        trains |-> <<train(0, n, 1), train(n, 0, 0)>>,
        closures |-> closures, dispatcher |-> dispatcher, rank |-> <<>>]

=============================================================================
