-------------------------- MODULE MCInfrastructure ---------------------------
(***************************************************************************)
(* Two processes on two cache files, over three versions of one map.       *)
(***************************************************************************)
EXTENDS Infrastructure

At(x, y) == [x |-> x, y |-> y]

WayAt(id, y, from, to, tags) ==
    [type |-> "way", id |-> id, geometry |-> <<At(from, y), At(to, y)>>, tags |-> tags]
NodeAt(id, x, tags) == [type |-> "node", id |-> id, at |-> At(x, 0), tags |-> tags]

Ref(name) == "ref" :> name
Maxspeed(chars) == "maxspeed" :> chars
TrackTag(chars) == "tracks" :> chars

Switch == "railway" :> "switch"
MainSignal == ("railway" :> "signal") @@ ("main" :> "yes") @@ ("direction" :> "forward")

\* The main line with a passing track in the middle, a double-track stretch in
\* the east that one way stands for, a siding of another line close by, a
\* parallel line beyond the buffer, a way without length and a relation.
First ==
    << WayAt(1, 1, 0, 8000, Ref("main") @@ Maxspeed(<<7, 0>>)),
       WayAt(2, 6, 3000, 3600, Maxspeed(<<5, 0>>)),
       WayAt(3, 1, 8000, 12000, Ref("main") @@ Maxspeed(<<1, 0, 0>>) @@ TrackTag(<<2>>)
                                    @@ ("electrified" :> "contact_line")),
       WayAt(4, 30, 5000, 9000, Ref("siding") @@ Maxspeed(<<0>>)),
       WayAt(5, 400, 0, 12000, Ref("other")),
       WayAt(6, 0, 100, 100, Ref("main")),
       [type |-> "way", id |-> 7, geometry |-> <<At(0, 0)>>, tags |-> Ref("main")],
       NodeAt(10, 3000, Switch), NodeAt(11, 3600, Switch), NodeAt(12, 2990, MainSignal),
       NodeAt(13, 3300, "railway" :> "milestone") >>

\* The line is doubled, a speed is mapped as a list of two, and a switch is
\* mapped again half a metre from the first.
Second ==
    << WayAt(1, 1, 0, 8000, Ref("main") @@ Maxspeed(<<8, 0, NotADigit, 6, 0>>)),
       WayAt(8, -40, 0, 8000, Ref("main")),
       WayAt(3, 1, 8000, 12000, Ref("main") @@ TrackTag(<<NotADigit>>)),
       NodeAt(10, 3000, Switch), NodeAt(11, 3005, Switch) >>

\* The line has been lifted west of the siding and renumbered; switches, too.
Third ==
    << WayAt(3, 1, 9000, 12000, Ref("siding") @@ Maxspeed(<<0>>) @@ TrackTag(<<0>>)),
       WayAt(4, 30, 5000, 9500, Ref("siding") @@ Maxspeed(<<3, 0>>)),
       NodeAt(10, 3000, Switch) >>

MCMaps == <<First, Second, Third>>

Station(name, x) == [name |-> name, at |-> At(x, 0)]
West == Station("west", 600)
Middle == Station("middle", 5400)
East == Station("east", 11400)

SegmentsCommand(stations, cache) ==
    [name |-> "segments", stations |-> stations, cache |-> cache]

StairwayCommand(route, cacheRail, cacheFeatures) ==
    [name |-> "stairway", route |-> route, cacheRail |-> cacheRail, cacheFeatures |-> cacheFeatures]

RouteOver(direction, track) ==
    CHOOSE r \in ZoneRoutes : r.direction = direction /\ r.loopTrack = track

MCCommands ==
    {SegmentsCommand(<<West, Middle, East>>, "rail.json"),
     StairwayCommand(RouteOver("WE", "loop_t1"), "rail.json", None),
     StairwayCommand(RouteOver("EW", "loop_t2"), None, "features.json")}

MCZoneBbox == [west |-> 2000, east |-> 9500, south |-> -1000, north |-> 1000]

\* The processes are interchangeable.
Interchangeable == Permutations(Processes)
=============================================================================
