--------------------------- MODULE Infrastructure ----------------------------
(***************************************************************************)
(* The commands that build infrastructure from OpenStreetMap, `segments`   *)
(* and `stairway`, as processes: each fetches its Overpass answers through *)
(* the cache files it is given and computes its report from them.  The map *)
(* is edited while they run, the server answers late, cut short or with an *)
(* error page, a process is stopped between any two steps, and two of them *)
(* may use one cache file.                                                 *)
(***************************************************************************)
EXTENDS BlockingTimes

CONSTANTS
    Partial,     \* the contents of a file that is being written
    Maps,        \* the versions of the map, each a sequence of elements
    Commands,    \* the command lines considered
    Processes,
    Paths,       \* the cache files
    Margin,      \* the margin of bbox_around
    ZoneBbox,    \* PFAFFINGEN_BBOX
    MaxRuns      \* bound: command lines run

VARIABLES
    map,         \* the version the server has
    files,       \* path -> None, Partial, or the answer written to it
    command,     \* process -> the command line it runs, or None
    step,        \* process -> what it does next
    raw,         \* process -> the answer it has received and not yet used
    got,         \* process -> the answers it has parsed
    printed,     \* the report the last step printed, with its process's answers, or None
    runs         \* command lines started

vars == <<map, files, command, step, raw, got, printed, runs>>

\* An answer, with the query and the version of the map it was made from.  A
\* "page" is no JSON; an answer "cut" short is JSON without elements.
Answer(query, version, kind) == [query |-> query, version |-> version, kind |-> kind]

Elements(answer) ==
    IF answer.kind = "full" THEN Extract(Maps[answer.version], answer.query) ELSE <<>>

Query(kind, bbox) == [kind |-> kind, bbox |-> bbox]

SegmentsQuery(c) == Query("rail", BboxAround({s.at : s \in ToSet(c.stations)}, Margin))

\* The queries of a command line, each with the file it is cached in.
Fetches(c) ==
    CASE c.name = "segments" -> << [query |-> SegmentsQuery(c), path |-> c.cache] >>
      [] c.name = "stairway" -> << [query |-> Query("rail", ZoneBbox), path |-> c.cacheRail],
                                   [query |-> Query("features", ZoneBbox), path |-> c.cacheFeatures] >>

Current(p) == Fetches(command[p])[Len(got[p]) + 1]

Init ==
    /\ map = 1
    /\ files = [path \in Paths |-> None]
    /\ command = [p \in Processes |-> None]
    /\ step = [p \in Processes |-> "idle"]
    /\ raw = [p \in Processes |-> None]
    /\ got = [p \in Processes |-> <<>>]
    /\ printed = None
    /\ runs = 0

Start(p) ==
    /\ step[p] = "idle" /\ runs < MaxRuns
    /\ \E c \in Commands : command' = [command EXCEPT ![p] = c]
    /\ step' = [step EXCEPT ![p] = "look"]
    /\ runs' = runs + 1
    /\ UNCHANGED <<map, files, raw, got>>

\* json.loads: the process goes on with the answer, or raises.
Parse(p, answer) ==
    IF answer.kind = "page"
    THEN /\ step' = [step EXCEPT ![p] = "raised"]
         /\ UNCHANGED got
    ELSE /\ got' = [got EXCEPT ![p] = Append(@, answer)]
         /\ step' = [step EXCEPT ![p] =
                        IF Len(got'[p]) = Len(Fetches(command[p])) THEN "compute" ELSE "look"]

\* Whether there is a cached answer: whatever query it answers.
Cached(path) == path # None /\ files[path] # None

ReadCache(p) ==
    /\ step[p] = "look"
    /\ LET path == Current(p).path
       IN /\ Cached(path)
          /\ IF files[path] = Partial
             THEN step' = [step EXCEPT ![p] = "raised"] /\ UNCHANGED got
             ELSE Parse(p, files[path])
    /\ UNCHANGED <<map, files, command, raw, runs>>

Request(p) ==
    /\ step[p] = "look" /\ ~Cached(Current(p).path)
    /\ step' = [step EXCEPT ![p] = "request"]
    /\ UNCHANGED <<map, files, command, raw, got, runs>>

Respond(p) ==
    /\ step[p] = "request"
    /\ \E kind \in {"full", "cut", "page"} :
        LET answer == Answer(Current(p).query, map, kind)
        IN IF Current(p).path = None
           THEN Parse(p, answer) /\ UNCHANGED raw
           ELSE /\ raw' = [raw EXCEPT ![p] = answer]
                /\ step' = [step EXCEPT ![p] = "open"]
                /\ UNCHANGED got
    /\ UNCHANGED <<map, files, command, runs>>

\* write_bytes truncates the file and then fills it.
OpenCache(p) ==
    /\ step[p] = "open"
    /\ files' = [files EXCEPT ![Current(p).path] = Partial]
    /\ step' = [step EXCEPT ![p] = "write"]
    /\ UNCHANGED <<map, command, raw, got, runs>>

\* The process goes on with what it received, not with what is in the file.
WriteCache(p) ==
    /\ step[p] = "write"
    /\ files' = [files EXCEPT ![Current(p).path] = raw[p]]
    /\ raw' = [raw EXCEPT ![p] = None]
    /\ Parse(p, raw[p])
    /\ UNCHANGED <<map, command, runs>>

\* The answers without an error, and the zones curated from two of them.
Answers ==
    [query : {SegmentsQuery(c) : c \in {d \in Commands : d.name = "segments"}}
                \cup {Query(kind, ZoneBbox) : kind \in {"rail", "features"}},
     version : DOMAIN Maps, kind : {"full", "cut"}]

ZoneOf(rail, features) ==
    CuratePfaffingenLoop(ParseOverpass(Elements(rail)), ParseRailwayFeatures(Elements(features)))

Speedy == 99900   \* 999 m/s: through at line speed

\* The trajectories over each zone and route: the one of _run_stairway, and one
\* from a standstill to a standstill.
Drives ==
    {[zone |-> zone, route |-> route,
      through |-> MicroTrajectory(zone, route, 0, Speedy, Speedy),
      shuttle |-> MicroTrajectory(zone, route, 0, 0, 0)] :
        zone \in {ZoneOf(rail, features) : rail, features \in Answers},
        route \in {c.route : c \in {d \in Commands : d.name = "stairway"}}}

DriveOver(zone, route) == CHOOSE d \in Drives : d.zone = zone /\ d.route = route

StairwayOf(zone, route, blocking) ==
    [zone |-> zone, route |-> route, blocking |-> blocking, headway |-> MinimumHeadway(blocking, blocking)]

\* _run_stairway.
Stairway(zone, route) == StairwayOf(zone, route, BlockingTimesOf(DriveOver(zone, route).through.traversals))

\* The report, and the process ends.
Compute(p) ==
    /\ step[p] = "compute"
    /\ LET c == command[p]
           answers == got[p]
           printout == [command |-> c, answers |-> answers]
       IN printed' = printout @@
            CASE c.name = "segments" -> 
                    [segments |-> BuildCorridorSegments(c.stations, ParseOverpass(Elements(answers[1])))]
              [] c.name = "stairway" ->
                    [stairway |-> Stairway(ZoneOf(answers[1], answers[2]), c.route)]
    /\ step' = [step EXCEPT ![p] = "idle"]
    /\ command' = [command EXCEPT ![p] = None]
    /\ got' = [got EXCEPT ![p] = <<>>]
    /\ UNCHANGED <<map, files, raw, runs>>

\* A process ends without a report: with an exception of json.loads, with a
\* request that fails, or interrupted at any step.
Fail(p) ==
    /\ step[p] # "idle"
    /\ step' = [step EXCEPT ![p] = "idle"]
    /\ command' = [command EXCEPT ![p] = None]
    /\ raw' = [raw EXCEPT ![p] = None]
    /\ got' = [got EXCEPT ![p] = <<>>]
    /\ UNCHANGED <<map, files, runs>>

EditMap ==
    /\ map < Len(Maps)
    /\ map' = map + 1
    /\ UNCHANGED <<files, command, step, raw, got, runs>>

Next ==
    \/ /\ \/ EditMap
          \/ \E p \in Processes :
                Start(p) \/ ReadCache(p) \/ Request(p) \/ Respond(p) \/ OpenCache(p)
                    \/ WriteCache(p) \/ Fail(p)
       /\ printed' = None
    \/ \E p \in Processes : Compute(p)

Spec == Init /\ [][Next]_vars

-----------------------------------------------------------------------------
\* A printed segment report is the report of the whole map, as of the version
\* its answer was made from: the box of the query loses no way that matters,
\* and an old answer, a partial file or another process's write never mixes
\* with it.  A file written for another corridor, or cut short by the server,
\* is believed, so those are excepted.
SegmentsAreOfTheMap ==
    (printed # None /\ printed.command.name = "segments") =>
        LET answer == printed.answers[1]
            stations == printed.command.stations
        IN (answer.kind = "full" /\ answer.query = SegmentsQuery(printed.command)) =>
            printed.segments = BuildCorridorSegments(stations, ParseOverpass(Maps[answer.version]))

\* The stairway just printed, if any.
Stairways == IF printed # None /\ printed.command.name = "stairway" THEN {printed.stairway} ELSE {}

DriveOf(s) == DriveOver(s.zone, s.route)

\* Speeds u at the beginning and v at the end of a step of a length: a train
\* can change from one to the other, and does so as fast as it can.
Attains(u, v, length) == Square(v) <= Square(u) + 2 * Accel * length
Stops(u, v, length) == Square(u) <= Square(v) + 2 * Decel * length
AllItCan(u, v, length) == Attains(u, v, length) /\ ~Attains(u, v + 1, length)
AllItMust(u, v, length) == Stops(u, v, length) /\ ~Stops(u + 1, v, length)

\* A drive is possible: it never changes speed faster than the dynamics allow,
\* and moves on in time with every step.
Possible(profile) ==
    LET v == profile.v
    IN \A k \in DOMAIN profile.grid :
        LET length == profile.grid[k].length
        IN /\ Attains(v[k], v[k + 1], length) /\ Stops(v[k], v[k + 1], length)
           /\ profile.t[k + 1] > profile.t[k]

\* A drive cannot be bettered: wherever two steps meet, the train is as fast as
\* both limits allow, has accelerated all it can or brakes all it must.
Fastest(profile) ==
    LET v == profile.v
        grid == profile.grid
    IN \A k \in DOMAIN grid \ {1} :
        \/ v[k] >= Min({grid[k - 1].limit, grid[k].limit})
        \/ AllItCan(v[k - 1], v[k], grid[k - 1].length)
        \/ AllItMust(v[k], v[k + 1], grid[k].length)

\* Whatever the map says (no ways, no switches, odd maxspeed tags, ways and
\* features of two versions), the curated zone is a valid passing loop, and the
\* blocking times rest on a drive that is possible and that no train within
\* the limits betters, although one pass knows nothing of braking and the
\* other nothing of accelerating.  That the drive itself is within the limits
\* is not claimed: it enters a slower block too fast.
DriveIsFastest ==
    \A s \in Stairways :
        /\ Validates(s.zone)
        /\ \A profile \in {DriveOf(s).through, DriveOf(s).shuttle} : Possible(profile) /\ Fastest(profile)

\* When the rear of the train has left the blocks up to node n: its front is
\* a train length farther, beyond the route at the speed it left it with.
RearPasses(profile, n) ==
    LET last == Len(profile.t)
        passed[<<m, ahead>> \in Nat \X Int] ==
            IF ahead <= 0 THEN profile.t[m]
            ELSE IF m = last THEN profile.t[last] + (1000 * ahead) \div profile.v[last]
            ELSE passed[<<m + 1, ahead - profile.grid[m].length>>]
    IN passed[<<n, 10 * TrainLength>>]

\* At the minimum headway no block is asked for, by the approach signal before
\* it, until the train ahead has physically left it; and one block decides: it
\* is asked for at the very moment it is released.
FollowerKeepsClear ==
    \A s \in Stairways :
        /\ LET through == DriveOf(s).through
           IN \A i \in DOMAIN through.traversals :
                LET tr == through.traversals[i]
                    signal == IF i = 1 THEN tr.enter ELSE through.traversals[i - 1].enter
                IN RearPasses(through, tr.exitNode) <= s.headway + signal - Setup
        /\ \E b \in ToSet(s.blocking) : s.headway + b.start = b.end
=============================================================================
