# dbsim in TLA+

dbsim is a discrete-event railway simulator. One single-threaded event loop
drives three simulations at different scales: trains over a timetable (macro),
trains over track segments (meso), and trains over the blocks of one passing
loop (micro). Around them stand the ingestion of timetables and maps, journey
planning, and analyses that run the simulations many times. This directory
models all of that, checks it with TLC and proves theorems about the core with
TLAPS. Paths below are relative to the repository's root.

## The system

| Component | Code (`src/dbsim/`) | State | Operations |
|---|---|---|---|
| Event loop | `engine/loop.py`, `events.py` | heap of `(time, sequence, event)`, sequence counter, clock, log | `schedule`, `schedule_at`, `run`, `max_time` |
| Macro simulation | `engine/trains.py` | movement records, feeder arrivals, held connectors, waiters per feeder | depart, arrive, connection deadline |
| Meso simulation | `engine/meso.py` | occupancy, last entry, waiting requests, open occupations per segment | ready, arrive, try |
| Dispatchers | `dispatch/base.py`, `priority.py`, `altgraph.py` | a fixed ranking, or none | `select` |
| Passing loop | `engine/micro_meet.py` | block holders, each train's block and loop track, queues per block | request, clear |
| Coupling, micro validation | `engine/coupling.py`, `analysis/micro_validation.py` | none: they read a finished zone run | `couple_zone`, `validate_micro_zone` |
| Alternative graph, AMCC | `dispatch/altgraph.py` | operations, arcs, selection | `solve_amcc`, `solve_by_priority` |
| CP-SAT baseline, strategy study | `dispatch/optimal.py`, `analysis/strategy_study.py` | a constraint model | `solve_optimal`, `clearance_delay_s` |
| Conflicts, capacity | `analysis/conflicts.py`, `capacity.py` | none | planned conflicts, UIC 406 occupancy |
| Recording | `record/` | a file; movement records per trip | write, load, position at a time |
| Monte Carlo, validation | `analysis/montecarlo.py`, `validation.py`, `ingest/gtfsrt.py` | outcomes and aggregates over replications | calibrate, sample, replicate, compare with a snapshot |
| Scenarios | `scenario/scenario.py` | a document | trains, closures, restrictions |
| GTFS ingestion | `ingest/gtfs.py` | a zip, its manifest, a database file | download, load table by table |
| Timetable, graph | `model/timetable.py`, `graph.py` | the database, event nodes | services of a day, station boards, journeys |
| Diagram data | `analysis/bildfahrplan.py` | none | corridor, train paths |
| OpenStreetMap ingestion | `ingest/osm.py` | cache files | fetch through the cache, parse |
| Infrastructure | `model/segments.py`, `micro.py`, `engine/blocking.py`, `analysis/stairway.py` | none | track counts, zone, speed profile, blocking times, headway |
| Seeds, rendering, CLI | `seed.py`, plots, `__main__.py` | - | seeding, plots, argument parsing and printing |

**How the parts interact.** The three simulations register handlers with the
loop and schedule events from their constructors and from their handlers; they
share no other state with it. A handler runs to its end before the next event
is popped. The meso simulation calls the dispatcher whenever a segment has a
free slot. `couple_zone` turns macro arrivals into trains of a zone run, runs it
to the end and reads the hand-offs from its events. `run_scenario` builds a meso
simulation; the Monte Carlo and validation studies build macro simulations and
read their records, as the recording does. The commands share files: `ingest`
replaces the tables of a database that the other commands query, and `segments`,
`meso` and `stairway` share cached Overpass answers.

**What is hard.** Inside a simulation there are no threads, and the hazards are
those of callbacks in simulated time: events of one instant whose order matters,
a timeout that races the event it guards against, a train that nobody will wake
again, a resource that is re-assigned between a wake-up and the event it
scheduled, circular waits, missing times, and runs that are cut short. Between
commands there are files: a load that stops between two tables, a cache that is
read while it is written, an answer that is cut short and kept. The analyses are
sweeps, interpolations and rankings whose hazards are ties and boundaries.
`PROJECT.json` lists each hazard at its line.

**What makes each component correct.**

* Loop: time order, FIFO order of one instant, no event lost or duplicated, no
  event before the clock.
* Macro: a train is never before its schedule, a protected transfer is kept, a
  hold ends exactly once and in bounded time, delay has a cause, all arrive.
* Meso: capacity, headway and closures hold; the bookkeeping of occupations is
  real; a waiting train is always woken; all complete under any dispatcher.
* Passing loop: a block has one holder and a train one block; a wake-up is not
  lost; if trains are stuck they are stuck in a circle; two trains always meet.
* Coupling: the hand-off is inconsistent only after a deadlock, zone delay is
  waiting time, and the report counts the meets that happened.
* Solvers: selections without cycles, schedules that can be driven, an optimum
  that is a lower bound.
* Conflicts: exactly the overlaps of the plan, and what the run will wait for.
* Recording: a train is where the run had it, and as many are under way.
* Studies: replications are independent and reproducible; recovery is slack.
* Journeys: earliest arrival in the feed loaded last, along real rides.
* Infrastructure: a report of one map, a zone that can be driven, a headway that
  keeps blocks clear.

## Modules

| Module | Models |
|---|---|
| `EventQueue` | the heap, counter and clock, with the steps `Push` and `Process` every layer is built from |
| `EventLoop` | `Simulation` with arbitrary clients, repeated runs and `max_time` |
| `Calendar` | abstract: one FIFO list of events per instant |
| `MacroSim` | `MacroSimulation` |
| `Playback` | over `MacroSim`: writing, loading and replaying a recording |
| `MonteCarlo` | over `Playback`: snapshots, calibration, sampling, replications and their aggregates |
| `Validation` | over `MonteCarlo`: the input from a snapshot, the compared pairs, the scores |
| `Meso` | `MesoSimulation` with the dispatchers |
| `Conflicts` | over `Meso`: planned conflicts and occupancy statistics |
| `ScenarioFile` | over `Conflicts`: scenario documents, the corridor from segments, the `meso` command |
| `MicroMeet` | `MicroMeetSimulation` |
| `BlockSections` | abstract: trains pass the sections of their routes in order, one train per block |
| `Coupling`, `MicroValidation` | `couple_zone` over `MicroMeet`; `validate_micro_zone` over that |
| `AltGraph` | `solve_amcc`, `solve_by_priority` and the schedules they return; the optimum as reference |
| `StrategyStudy` | over `AltGraph`: the constraint model of `solve_optimal`, clearance delays, the commands' instances |
| `Gtfs` | `download_feed` and `load_feed`, statement by statement |
| `Timetable`, `TimetableGraph` | over `Gtfs`: queries; the event graph and `plan_journey` |
| `TrainPaths` | over `TimetableGraph`: schedules, train paths, occupancy, boundary arrivals |
| `OpenStreetMap`, `TrackSegments`, `BlockingTimes` | parsing of map elements; track segments; zone, speed profile, blocking times |
| `Infrastructure` | over those: the commands as processes that share cache files |
| `Basics` | Python's `sorted` and `round` |
| `EventQueueProofs`, `EventLoopProofs` | theorems about the loop |
| `Extremes` | lemmas the proofs share: least elements, bounds, rankings, folds and sums |
| `MacroSimProofs`, `MesoProofs` | theorems about the macro and the meso simulation; the conflicts of a plan |
| `MicroMeetProofs` | theorems about the passing loop, its boundary and the report of a zone run |
| `AltGraphProofs` | theorems about the alternative graph |
| `TimetableProofs` | theorems about ingestions and about the analyses of a line |
| `MC...` | instances for TLC |

`MacroSim`, `Meso` and `MicroMeet` extend `EventQueue`: a handler is one action
that takes the head of the heap, changes the layer's state and pushes a batch of
events with consecutive sequence numbers. The refinement mappings stand at the
end of `EventLoop` (to `Calendar`) and of `MicroMeet` (to `BlockSections`). `raised` records that `schedule`
refused an event of the batch; the events before it stay pushed. A batch may
have gaps in its positions: the numbers are then not those of the code, but
their order is, and nothing else is looked at.

The analyses are operators over the variables of the simulation they read. They
are written the way the code computes them (a sweep over sorted events, the
predecessors Dijkstra settles, the two passes of a speed profile), and their
properties compare them with a definition that is not (claims at every instant,
all itineraries, what a driver may do).

`AltGraph` stands on its own: one turn of a solver's loop is one action, and the
two solvers run one after the other on the same problem. `Meso` follows a fixed
ranking of trains per segment, which is what a solution's `resource_order` is;
the ranking is an input there.

`Infrastructure` counts decimetres for positions, centimetres for grid steps,
cm/s for speeds and milliseconds for times. Ways run parallel to the line through
the stations.

The constructor's arguments are one record, the variable `scenario`, chosen by
`Init` from the constant `Scenarios`; only a Monte Carlo replication changes it.

Correspondence of state and actions: every definition that stands for code
carries the code's name in its comment, and `PROJECT.json` maps it to the lines.

| Action | Handler |
|---|---|
| `EventLoop!Schedule`, `StartRun`, `Fire`, `CutOff`, `Drained` | `schedule` outside `run`; the call of `run`; one turn of its loop; the `break` at `max_time`; the loop's end |
| `MacroSim!Depart`, `Arrive`, `ConnDeadline` | `_on_depart`; `_on_arrive` with `_release_waiters` and `_decide_departure`; `_on_conn_deadline` |
| `MonteCarlo!Replicate`, `Aggregate` | the end of one turn of `run_montecarlo`'s loop with the start of the next; the end of the last |
| `Meso!Ready`, `Arrive`, `Try` | `_on_ready` with `_request`; `_on_arrive` with `_release`; `_on_try`; each with `_process_queue` |
| `MicroMeet!Exit`, `Wait`, `Acquire`, `AtEnd` | the three outcomes of `_on_request`, with `_release`; `_on_clear` |
| `AltGraph!AvoidMostCritical`, `FollowPriority`, `Finalize` | a turn of `solve_amcc`; of `solve_by_priority`; `_finalize` |
| `Gtfs!Download`, `WriteManifest`, `BeginLoad`, `LoadTable`, `CutShort` | `download_feed` up to the zip and its end; `load_feed` up to the first statement; one turn of `_load_extracted`; the command's end at any point |
| `TimetableGraph!Route` | the command `route` |
| `Infrastructure!Start`, `ReadCache`, `Request`, `Respond`, `OpenCache`, `WriteCache`, `Compute` | the steps of a command: its arguments, the lookup in `_overpass`, the request, the answer, `write_bytes` (truncation, contents), the report |
| `Infrastructure!EditMap`, `Fail` | the world: the map changes; a process ends at any step |

A definition whose comment begins with "Mutant:" is a plausible wrong version of
the definition that follows it; no specification uses it. Each property is shown
to fail for one of them.

## Runs

| Run | Instance | What it shows |
|---|---|---|
| `loop` | times -1..2, at most 4 accepted events, 2 per handler, any `max_time` in 0..2 or none | order, causality, nothing lost, and that the loop implements `Calendar` |
| `macro` | 4 trains, 2 interchanges, all subsets of 5 connections, delays at origins and at an interchange, dwell 0 or 2, stop numbers from 0 or 1, a feeder that comes or not; experiments of 2 replications; 18 snapshots | every property of `MacroSim`, `Playback`, `MonteCarlo` and `Validation` |
| `meso` | 3 trains with 4 kinds of path, 2 segments with 1 or 2 tracks, headway 0, 1, 3, closures, 4 policies; documents with everything given or left out; the `meso` command | every property of `Meso` and `Conflicts` |
| `meet` | 2 to 4 trains in all directions, several entry times and priorities, both policies | every property of `MicroMeet`, `Coupling` and `MicroValidation`, and that reservations implement `BlockSections` |
| `altgraph` | 2 trains on 3 segments and 3 trains on 2, in both directions and turning round, several running times, releases, headways and priorities; the problems of `reschedule` and `optimal` | every property of `AltGraph` and `StrategyStudy` |
| `timetable` | three feeds (one incomplete, one without a calendar), 32 requests, 5 trains over 5 stations | every property of `TimetableGraph` and `TrainPaths` |
| `infrastructure` | 2 processes, 2 cache files, 3 versions of a map, 3 command lines, answers full, cut or an error page, 2 command lines run | every property of `Infrastructure` |
| `macro_punctual` | a feeder on time | **violation**: the connector waits until `max_wait` although its feeder has come |
| `macro_from_one` | stop numbers from 1, a connector with two feeders | **violation**: the connector leaves before the transfer of the second feeder it waited for is over |
| `playback` | a train that reaches its terminus within the second | **violation**: the recording reports it at its origin afterwards |
| `meet_third_train` | two trains one way, one the other, avoidance on | **violation**: a deadlock |
| `altgraph_worse` | three trains on two segments | **violation**: AMCC's makespan is longer than the priority rule's |

**Bounds and why they are enough.** Time is an integer, as it is in the three
simulations (whole seconds); only comparisons and sums matter, so a handful of
instants suffices to put every pair of events before, at and after each other.
Two interchanges are the least at which a delay spreads over two trains and at
which holds are mutual; two feeders at one stop are the least at which one hold
is updated twice. Two replications are the least of which one can influence the
other, and every sample of the model is drawn for both. Three trains are the
least that contend for a segment from both sides while one follows another;
three closures of which two overlap show reopening under another closure. Two
trains deadlock under the naive policy and three with avoidance.
AMCC is optimal for two trains and can be worse than the priority rule for
three, so both numbers are in `altgraph`. `loop` is exhaustive within its bounds; there
`Horizon`, `MaxBatch` and `MaxEvents` bound the clients, not the loop.

In `timetable` the trains meet in the same minute, overtake each other at a
station, pass one without a time, cross midnight and return to where they came
from; a load may stop after any table and any feed may follow. Downloads and
loads are unbounded; the state space is finite because the feeds are. In
`infrastructure` `MaxRuns` bounds the command lines: two are the least with one
that finds what another left, or that races it. The three map versions hold a
double track mapped as two ways and as a tag, a siding, a parallel line out of
reach, a way without length, a speed of `0`, a list of speeds and a single
switch. Processes are interchangeable and symmetry is used: all properties are
invariants that treat them alike.

**Fairness.** `WF_vars(Turn)`: the loop takes the next event as long as there is
one. `run()` is a `while` over the heap without any way to pause, so nothing
weaker would describe it. The liveness properties assume nothing else; `EventLoop`
states no fairness, since its clients may stop calling it, and neither do
`TimetableGraph` and `Infrastructure`, whose commands a user may or may not run.

**Deadlock** is checked in every run but `infrastructure`, which stops when all its
command lines have been run; a drained heap is the action `Finished`.

## Properties worth a note

* `ConnectionKept` has two parts, for `Regular` scenarios: a transfer is kept
  whichever train comes first and however many feeders are awaited
  (`TransferIsKept`), and no hold lasts longer than the longest connection of the
  stop allows (`HoldIsBounded`; the deadline is that maximum, `trains.py:270`). A
  scenario is not regular where stop sequences are not indices. Connections are
  filed under `stop_sequence` (`trains.py:260`) and looked up under the index when
  an awaited feeder comes (`trains.py:298`), so no connection is found, or one of
  another stop. Two things go wrong. If all feeders were awaited, `required_t` is
  still the base time, nothing is released, and the wait lasts until `max_wait`. If
  another feeder had come before, the connector is released at once and the transfer
  from the awaited one is lost: `macro_from_one` is that case. The instance of
  `macro` has both feeders with and without a transfer time, in either order.
* In `macro_punctual` everything is regular and the transfer is kept; what fails is
  the docstring's promise that the connector leaves when the transfer is over.
* Connections at a train's first stop are never looked at: `_decide_departure`
  runs only after an arrival.
* A stop without times is reached at once (`_running_time_s` returns 0), so the
  next one may be reached before its schedule, and in a recording its arrival
  comes before the departure it follows (`playback`). `NeverEarly` therefore
  speaks of the part of a trip up to its first untimed stop, and of a dwell of at
  least `min_dwell_s` wherever a departure is on record after an arrival.
* A negative origin delay, as validation produces, puts a departure before its
  schedule; if that were before midnight the loop would refuse it. `NeverEarly`
  excepts trains that start early, `ScenariosAssumption` the negative time.
* `max_time` loses the one event that showed it (`loop.py:109-111`), which only a
  second `run()` can notice. `NothingLost` and `Calendar` say exactly that.
* A dispatcher may answer `None` by its interface (`base.py`). The engine would
  then schedule a retry at the last entry plus the headway, which may be minus
  infinity. No dispatcher of the repository does it while trains wait.
* `ConflictsForetellWaiting`: with two tracks *and* a headway a plan without
  conflicts does not predict a run without waiting, since the engine keeps the
  headway between any two entries and the conflict sweep only between trains
  beyond the capacity. An occupation of no length would never leave the sweep.
* `Meso!NoLostWakeup` allows trains to wait for a segment only while it is full and a
  train on it will arrive, or until a pending try: the end of a closure or a headway
  retry. It also says that no such try is late.
* `Feasible`: an operation of no length may start together with the next one on
  its resource and be listed after it, so the claim about order and headways is
  made for operations with a positive running time.
* In `MicroMeet` a woken train may find its block taken by a train that asked in
  between. It queues again with a new number: priorities hold, the order of
  waiting does not. `NoLostWakeup` allows for it.
* `HandOff.met` is true after any wait, also one behind a train of the same
  direction (`coupling.py:108`); the meets of the micro validation are counted
  from windows instead. Its peak counts trains on the approaches, too, and is
  compared with the two loop tracks: a sound run can fail that comparison.
* `NeverForced` says that the solvers' check for cycles never overrules a
  choice when running times are positive (the corridor builder makes them at
  least `min_running_s`). For the arc on the longest path this is because its
  reverse would be longer if a path already led the other way; for priorities,
  because one order of the trains serves all resources.
* `TwoTrainsOptimal` is what the greedy choice does achieve. The constraint model
  asks a headway also between two operations of one train on a resource, which
  the alternative graph does not; `OptimalIsALowerBound` compares them where no
  train returns to one.
* A load that is cut short leaves tables of two feeds. Nothing marks the database,
  so `route` will answer from it; `JourneyIsEarliest` speaks of the feed that was
  loaded completely. A feed without `agency.txt` keeps the agencies of the last
  one, and on a new database the row counts at the end of `ingest` fail.
* The interpolation of `capacity.py` puts a train that skips a station there in
  proportion to the distance; a train all of whose corridor calls lack times
  would have no points and raises `IndexError`. `OccupancyIsOfTheBusiestHour`
  asks that an entry is the time at which the train reaches the nearer end
  (`capacity.py:83-85`), and **the code does not do that for every train**.
  `_interp_time_at` (`capacity.py:63-75`) orders the points by distance and, at one
  distance, by time. For a train that comes up the line this is the wrong order: if
  it stands at the station before or after one it passes, it is taken to leave where
  it arrives and to arrive where it leaves. In the instance a train that departs
  from H at minute 7, stands in A from 9 to 13 and passes Feld between them is put
  at Feld at 11.6, while it stands in A. `Misplaced` names these trains, and only
  for them, and for a train that turns round on the line, does the property ask no more than a
  time between the train's first and last. This contradicts the docstrings
  ("the time at which a train passes", "when it reaches the nearer end").
* The Overpass cache ignores query and box, is written before the answer is
  parsed, and keeps an error page or a truncated file until it is deleted.
  `SegmentsAreOfTheMap` excepts a file of another corridor and an answer cut
  short by the server, which nothing in the code can tell.
* `_parse_int` reads `80;60` as 8060. The zone then has the train's own limit.
* `DriveIsFastest` says of a drive that its accelerations and brakings are within
  the train's power and that it is nowhere slower than it must be: at each node it
  is at a limit, accelerates or brakes as hard as it can. **That it keeps the limits
  is not claimed, because it does not.** The backward pass brakes *into* a slower
  block, so the train enters it above its limit, by what it brakes within the first
  grid step of 5 m; the instance has such blocks and the code's grid. `blocking.py:4-5`
  ("honours each block's speed limit") and `blocking.py:99-101` ("respect every block's
  speed limit") say otherwise; the limit holds at the far end of each step only.
* The docstring of `calibrate` speaks of delays that exceed the threshold; the
  code counts those that reach it.

## Proofs

TLAPS checks every theorem for all values of the constants. The only assumptions
are the named ones of the modules: `LoopAssumption` (bounds are numbers),
`ScenariosAssumption` of `MacroSim`, `Meso` and `MicroMeet`, and
`ProblemsAssumption`, which say what the constructors are given: records of the
right types, paths of at least one station, segments for every leg of a path,
capacities and micro running times of at least one, times that are not negative.
`MacroSim` also needs that a negative
delay is one at a train's first stop and does not put its start before midnight,
where the loop would refuse it. `SamplesAssumption` of `MonteCarlo` says that a
sampled scenario is one of the scenarios, as `sample_primary` only draws delays.

**The loop** (`EventQueueProofs`, `EventLoopProofs`). `EventQueueProofs` holds what
`Push` and `Process` do to the heap; every layer's proof cites it.

* Order (`LogIsOrdered`, `LoopIsCausal`): the log's order is not inductive. `LoopInv`
  adds that pending numbers are below the counter and differ, and that all that is
  pending comes after all that was logged.
* `NoEventIsLost`: `NothingLost` counts, for each number given out, the places that
  have it. `Placed` says the same without counting: each number is in some place
  (`Complete`), and never in two (`Held`).
* `LoopIsACalendar`: the loop implements `Calendar`. The refinement mapping sorts the
  pending entries of each instant by number. `Lists(q, S, rank)` characterises such a
  list without counting, every finite set with distinct numbers has one (`Listed`), and
  the counting definitions of `DueAt` and `Calendar` are equal to it (`Ranks`,
  `TheRanked`). Then a batch appends to the lists, because its numbers are above all
  pending ones (`AgendaPushed`), and the head of the heap is the first of the first
  list (`AgendaTaken`). The invariant `Waiting` (the heap is finite, its times are
  within the horizon, its numbers differ) makes the lists exist.

**The macro simulation** (`MacroSimProofs`). `MacroInv` puts every train in one of
four places: it has a pending departure (`Departing`), a pending arrival (`Running`),
one hold with one deadline (`HeldAt`), or is over; and it relates the heap, the holds,
the waiters of each feeder and the records to that place. A deadline still pending
implies that its hold exists, and a hold is released once because every waiter list
has it once. `OneFuture` and `NeverEarly` follow (`FuturesAreUnique`,
`NothingIsEarly`), for connections that form circles as well, and that an empty queue
leaves no train behind (`NobodyIsLeftBehind`, the safety part of
`EveryTrainArrives`).

* `DelaysHaveCauses` is about trips that are `WellTimed`: times at all stops, none
  before its predecessor. A trip with an untimed stop may reach the next one before
  or after its time without any delay, and is late there by the code's definition.
  `CauseInv` says that no movement, recorded or pending, of a train that nothing has
  disturbed up to that stop is after the timetable, and that a train is held only where
  it has a connection.
* `ConnectionsAreKept` is about `Regular` scenarios, as the property is: the connections
  of a stop are found under its index as well as under its sequence number (the code
  asks under both keys; otherwise a transfer may be lost, `macro_from_one`, or a wait
  go on too long), the stop has a departure time, and a feeder calls once at the stop
  it feeds. `KeptInv` says for each hold which
  connections it still waits for, that the others are settled (the transfer is made or
  does not fit into its wait), and that its deadline is the end of the last wait; and
  that every departure, recorded or pending, has settled all of them.
* `DelaysAreRecovered` is about `Validated` scenarios, those `run_validation`
  builds: no connections, no minimum dwell, delays at origins only, trips with times in
  order and a snapshot that reports numbers.
  There the departure from each stop is the maximum of the schedule and the arrival,
  so a delay is the primary one less the slack of the stops so far (`RecoveryInv`); the
  sums over the compared pairs use the folds of `Extremes`.
* `EveryReplicationIsARun` carries all of this from `Spec` to `Experiment`, the
  specification the runs check: `Replicate` clears every variable of a run, so each
  of the invariants starts again (`ReplicationBegins`).

**The meso simulation** (`MesoProofs`). `MesoInv` puts every started train in one of
four places (at a station, in one queue, under way with one open occupation, at its
end), counts the trains on a segment (`Counted`), remembers the last entry (`Spaced`)
and has a wake-up for every queue and closure (`Awake`). `Admissions` describes what
one call of `_process_queue` may do under any dispatcher, so the theorems
(`OccupancyIsRecorded`, `HeadwaysAreKept`, `QueuesAreWoken`) do not depend on which
train a dispatcher prefers. The claim of `Awake` about time, that no instant between
now and the pending retry would have let a train in, is what the retry of the code
is computed for.

* `NobodyIsStuck`: with an empty queue nothing is pending for any place but the last,
  so all trains are at their ends, the safety part of `EveryTrainCompletes`. The
  theorem adds that `completed_trains` (`CompletedTrains`) then names exactly the trains
  with a journey. It looks for an arrival at the last station of the path, so a train
  whose path is one station is never named, and one that passes its last station
  earlier is named from then on; at the end of a run the second makes no difference.
* `RecordsFitTheTracks`: `max_occupancy` counts, at each recorded entry, the records
  that contain it. `History` bounds that count, together with the trains now on the
  segment, by the capacity; a record closes where an open occupation was counted.
* `ConflictsAreForetold` has two halves, and speaks of segments that `TakesTime`:
  `from_segments` gives each at least `min_running_s` (`meso.py:104`, `meso.py:117`), a
  minute by default, and an occupation of no length would never leave the sweep.
  *The sweep.* Its fold runs over the changes in the order of the code, that of a key
  with three parts; `Ranking` (`Extremes`) says that any finite set in a strict total
  order can be listed, and `Sequenced` that it is a list in which every occupation
  begins before it finishes. `SweepInv` then says, after each change, who is active
  and since when the segment is overclaimed (`Since`), what each conflict found so far
  `Tells`, and that every overclaimed stretch is told or still open. A stretch may begin
  and end among changes of one instant; what it tells of instants follows because at one
  instant all that finish come before all that begin.
  *The run.* `PlanInv` says that without conflicts every pending event and record is at
  the time of the plan, that whoever waits is due now, and that the last entry to a
  segment is one of the plan. A train that waited beyond its planned instant (`NobodyWaits`)
  would claim the segment together with all trains on it, or with the last to
  enter it if the headway keeps it out, and these are more claims at one instant than
  tracks. With two tracks and a headway that last step fails, as it should. Plans are
  recursive functions (`PlannedEntry`); `PlanTimes` gets the equations they satisfy
  by showing that a function with them exists, one index after the other.

**The passing loop and its boundary** (`MicroMeetProofs`), for any number of trains, both policies and all running times of at least one second, as
`_running_time_s` makes them.

* `MeetTypeOK`, `BlocksAreExclusive`: `MeetInv` is typing, block exclusion, `Queued`
  (waiters have distinct numbers and the priority of their train) and `Cleared` (a clear
  event is for a section of the route). `Queued` is needed because `_release` wakes the
  first of a queue: that there is a first follows from bounded priorities and distinct
  numbers, which is what `Extremes` is for (least elements, bounds of families).
* `OneFutureEach`, `WakeupsAreKept`, `StuckOnlyInACircle`: `FutureInv` ties each train's
  block to the number of sections its log says it has entered (`Position`), says that
  it moves, stands in exactly one queue or is gone, and that every queue that is
  not empty has a request pending now for a block that is free, and two requests if
  both loop tracks are free. The last clause is what a lost wake-up would break: one
  release wakes one train of the loop's queue, and a second release at the same
  instant must not rely on the first.
* `Refinement`: every step enters or leaves one section of `BlockSections` or maps to a
  stutter.
* `LogsAreTimely`: every logged exit, every pending event and the present of every
  waiting train is `Timely`: not before the arrival plus the running times of the
  sections so far, equal to it if the train never waited, and after its entry.
  `ZoneDelayIsWaiting` follows, and with `StuckOnlyInACircle` that hand-offs are
  consistent exactly when there is no deadlock (`HandOffsAreConsistent`).
* `MeetsEnd`: a drained zone with two trains and avoidance, or with any number of
  trains of one direction (`GetBy`), is empty. A circle of two would need a train at
  the loop that waits for an approach and one on that approach that waits for both
  loop tracks.
* `PassesAreOnTheLoop`: opposing trains whose windows in the zone overlap had different
  loop tracks. `PassInv` says that a train in its first block entered after every
  opposing train that is gone had left (`Follows`: the first block of the one is the
  last of the other), and that of two with the same track one had left before the other
  entered (`Apart`: whoever takes the track finds it free, so the other is on its last
  block, which is the way the first one came, or gone).
* `ReportsAreTrue`: the report of a coupled run sweeps over the entries and exits in
  order of time, exits first, and counts at each entry the opposing trains that are
  inside. The order exists for any finite set of windows (`Ranking`) and the fold over
  it is a function (`FoldsExist`, both in `Extremes`). `SweepCounts` is the invariant of
  the sweep: after the first k events the trains inside are those that entered and have
  not left, the meets are the opposing pairs whose windows overlap and that both have
  entered, and the peak is the largest number inside at an entry so far. Since exits come
  first at one instant, two windows overlap exactly if each entry is swept before the
  other's exit (`EntryMeets`), and the last entry of an instant sees all that are inside
  then.

**The alternative graph** (`AltGraphProofs`), for every problem.

* `AltTypeOK`, `SelectionAcyclic`: acyclicity is inductive together with typing.
  `_reachable` is stated by closed sets of nodes, so each step of the proof gives a set
  instead of a path: an arc `x -> y` is safe if some closed set holds `y` and not `x`,
  and that set, joined or intersected with the witness of any other arc, is closed in
  the larger graph. The case in which the preferred arc is refused needs that two nodes
  never reach each other (`OneWay`): the solvers check one arc of a pair only.
* `SchedulesAreFeasible`: the starts are a `CHOOSE` of a function that satisfies the
  longest-path equations; `LongestExist` shows that there is one for every finite graph
  without cycles: a largest set of nodes that has one is the set of all, since a
  node whose arcs all come from that set can be added.
* `SchedulesAreEarliest`: the starts satisfy the equations of longest paths, so any
  function that keeps the arcs' weights is nowhere below them: at a least node where
  it is, a predecessor would be, too.
* `OptimumIsOfAllSchedules`: any schedule that can be driven orders each pair one way;
  these arcs form a complete selection without cycles, and its longest path is no
  longer than the schedule.
* `LowerBound`: the constraint model has a solution below its horizon, the sum of
  releases, running times and headways, because a longest path meets each operation
  once (sums over finite sets, `Extremes`); a solution of the model is a schedule that
  can be driven and vice versa where no train returns to a resource.
* `NoChoiceIsForced`: in `solve_by_priority` all arcs follow one order of the trains
  (`OrderInv`); in `solve_amcc` a path against the arc on the longest path would make
  a longer one. Both need positive running times, and `NeverForced` says so.

**The timetable** (`TimetableProofs`), for all feeds, lines and windows. Two
assumptions say what the inputs are: `FeedsAssumption` (the trip and the position along it
identify a row of `stop_times`, as GTFS requires; positions and the given parts of times
are numbers) and `LineAssumption` (a line has two stations or more and a segment between
each two).

* `LoadsAreComplete`: `LoadInv` says that a load under way has put the tables before the
  next one in place, that whatever stands in a table is of some feed, and that a database
  recorded as loaded has the tables of one feed. Each table is replaced as a whole and the
  record is taken away before the first one, so a load cut short leaves no record; a table
  that the feed lacks is emptied, except agency, which no query reads.
* `BusiestHourIsFound`: the queries may run on a mixture of feeds, but each table is of
  some feed (`DatabaseWellFormed`). The distances of a corridor are running sums
  (`CorridorIsTyped`) and a path has finitely many points (`PathsTyped`).
  *When a train is there* (`ReachedAt`): for a train that runs one way, the pair of
  points between which `_interp_time_at` interpolates are the last of the place before
  and the first of the place after (`Neighbours`), unless the train is `Misplaced`;
  interpolating from either end is the same, rounding included (`RoundBetween`,
  `InterpolatedTime`), and a station called at gives its arrival (`Reached`). Of the two
  ends of a segment the nearer is reached first (`NearerFirst`), since a time farther on
  is not earlier (`LaterFurther`) and rounding keeps that order (`RoundMonotone`).
  *The window.* A window that holds entries holds no more than the one that begins with
  its first entry, and the report takes the best of these (`PeakIsMost`); the sum over
  the segments counts each of its entries once (`WindowCounted`). A train without any time
  at its stations of the corridor is excepted: `_interp_time_at` asks for its first point
  and fails (`HaveTimes`).

**Only model-checked.** Liveness under fairness (`EveryTrainArrives`,
`EveryTrainCompletes`, `MeetCompletes`) is out of the prover's reach; the theorems above
say that what stops has arrived. So is what recursive functions and sorts compute
for every input, an induction over data the installed provers cannot do:

* `PlaybackFollowsTheRun`: a merge over a sorted recording;
* `JourneyCanBeTravelled`, `JourneyIsEarliest`: the paths Dijkstra settles. The reference
  of the second takes at most four rides, enough for the instance and not for every feed;
  the first relies on the instance, too: a train that comes back to a station may be left
  and boarded again there;
* `SegmentsAreOfTheMap`, `DriveIsFastest`, `FollowerKeepsClear`: parsed lists of ways and
  the two passes of a speed profile;
* `TwoTrainsOptimal`: the optimality of a greedy choice depends on the shape of corridors
  of the instances, not on the graph alone.

`ReplicationsReproduce` compares two behaviours, of which an invariant sees one.

## Not modelled

Floating-point time (the layers use whole seconds; the micro zone is fixed
point), the bits of the random generator and the seeds derived for it (a draw is
any value of its range), event payloads beyond what handlers read, names and
identifiers (positions instead), checksums and run hashes, the Parquet encoding,
addresses of servers, the capture of live snapshots, correlation and other
moments of the validation, the averages of the strategy study, rendering of
diagrams, argument parsing and printing. Of external libraries the code's use is
modelled: the least makespan CP-SAT finds, the paths Dijkstra may return, the
intervals shapely computes for ways that are parallel to the line; bends are not.

## Plan

1. Done: `EventQueue`, `EventLoop` with `Calendar`; `MacroSim` with `Playback`,
   `MonteCarlo` and `Validation`; `Meso` with the dispatchers, `Conflicts` and
   `ScenarioFile`; `MicroMeet` with `BlockSections`, `Coupling` and
   `MicroValidation`; `AltGraph` with `StrategyStudy`; `Gtfs`, `Timetable`,
   `TimetableGraph`, `TrainPaths`; `OpenStreetMap`, `TrackSegments`,
   `BlockingTimes`, `Infrastructure`; first proofs for the loop, the passing loop and
   the alternative graph.
2. Done, theorems: the loop implements `Calendar` and loses nothing; `MacroSim` one
   future per train and no early train; `Meso` capacity, headway and wake-ups for every
   dispatcher; `MicroMeet` futures, wake-ups, circles, and that it implements
   `BlockSections`; `Coupling`; `AltGraph` schedules and choices.
3. Done, theorems: causes, connections and recovery in `MacroSim`, in every replication;
   trains left behind or stuck in no layer; the sweep of `Conflicts`, what it foretells,
   and recorded occupancy; meets
   in the loop and the report that counts them; loads and the occupancy of a line;
   `AltGraph` optimum and `StrategyStudy` lower bound.
4. Left to TLC: the properties listed under "Only model-checked".
