----------------------------- MODULE MonteCarlo -----------------------------
(***************************************************************************)
(* dbsim.analysis.montecarlo: replications of the macro simulation under   *)
(* primary delays drawn from a model, which is calibrated from a GTFS-RT   *)
(* snapshot (dbsim.ingest.gtfsrt).  A scenario has two fields more:        *)
(*   model   the DelayModel, or NoTime when the delays are given           *)
(*   reps    n_reps, 0 for a single run                                    *)
(* A draw of the pseudo-random generator may be any value of its range.    *)
(*                                                                         *)
(* A snapshot is [ts, entities]; an entity [trip, updates], where updates  *)
(* is NoTime without a trip_update and else a tuple of [seq, arr, dep].    *)
(***************************************************************************)
EXTENDS Playback

CONSTANTS
    HotspotTop,   \* hotspot_top
    Stations      \* the stations in the order of their names

VARIABLES
    outcomes,       \* RepOutcomes, in order
    stationDelay,   \* station_delay_sum: a partial function of stops
    hotspotCount    \* station_hotspot_count: a partial function of stops

experimentVars == <<outcomes, stationDelay, hotspotCount>>

\* parse_snapshot: the TripDelays in order, without the updates that say nothing.
ParseSnapshot(snapshot) ==
    LET delays(e) ==
            LET told == IF e.updates = NoTime THEN <<>>
                        ELSE SelectSeq(e.updates, LAMBDA u : {u.arr, u.dep} # {NoTime})
            IN [k \in DOMAIN told |-> [trip |-> e.trip, seq |-> told[k].seq, arr |-> told[k].arr, dep |-> told[k].dep]]
        all[n \in 0..Len(snapshot.entities)] ==
            IF n = 0 THEN <<>> ELSE all[n - 1] \o delays(snapshot.entities[n])
    IN all[Len(snapshot.entities)]

\* origin_delays_from_snapshot: of each trip, where it is first reported.
OriginDelays(snapshot) ==
    LET delays == ParseSnapshot(snapshot)
        first(k) == \A j \in DOMAIN delays : j # k /\ delays[j].trip = delays[k].trip =>
                        delays[k].seq < delays[j].seq \/ (delays[k].seq = delays[j].seq /\ k < j)
    IN [k \in {n \in DOMAIN delays : first(n)} |-> OrElse(delays[k].dep, delays[k].arr)]

\* calibrate: the share of late trains, <<late, all>>, and how late they were.
Calibrate(delays, threshold) ==
    LET late == {k \in DOMAIN delays : delays[k] >= threshold}
    IN [delayed |-> <<Cardinality(late), Cardinality(DOMAIN delays)>>, magnitudes |-> {delays[k] : k \in late}]

\* sample_primary: each train is late by itself, by a delay of the pool.
SamplePrimary(s) ==
    LET trips == DOMAIN s.stops
        late == CASE s.model.delayed[1] = 0 -> {{}}
                  [] s.model.delayed[1] = s.model.delayed[2] -> {trips}
                  [] OTHER -> SUBSET trips
    IN UNION {[{<<t, s.stops[t][0].seq>> : t \in ts} -> s.model.magnitudes] : ts \in late}

\* A replication is a scenario too: of the inputs only the delays are drawn.
ASSUME SamplesAssumption ==
    \A s \in Scenarios :
        /\ s.reps \in Int
        /\ s.reps > 1 => \A sample \in SamplePrimary(s) : [s EXCEPT !.primary = sample] \in Scenarios

-----------------------------------------------------------------------------
\* MovementRecord.deviation_s
Deviation(r) ==
    LET due == Movement(r).scheduled IN IF due = NoTime THEN NoTime ELSE r.time - due

Late == {n \in DOMAIN records : Deviation(records[n]) # NoTime /\ Deviation(records[n]) > 0}

DelayOf(ns) == MapThenSumSet(LAMBDA n : Deviation(records[n]), ns)

\* max_abs_deviation_s, delayed_event_count and total_delay_s
MaxAbsDeviation ==
    LET devs == {Deviation(r) : r \in Range(records)} \ {NoTime} IN Max({0} \cup devs \cup {-d : d \in devs})
DelayedEventCount == Cardinality(Late)
TotalDelay == DelayOf(Late)

\* per_station
StationsDelay == [s \in {Movement(records[n]).stop : n \in Late} |->
                    DelayOf({n \in Late : Movement(records[n]).stop = s})]

\* By descending value, then by name.
Ahead(value, s, u) ==
    value[s] > value[u] \/ (value[s] = value[u] /\ \E i, j \in DOMAIN Stations : i < j /\ Stations[i] = s /\ Stations[j] = u)

Top(value, k) == {s \in DOMAIN value : Cardinality({u \in DOMAIN value : Ahead(value, u, s)}) < k}

\* worst_trains: trip -> its largest delay, for the n worst.
WorstTrains(n) ==
    LET worst(t) == Max({0} \cup {Deviation(records[k]) : k \in {j \in Late : records[j].trip = t}})
        ahead(t, u) == worst(t) > worst(u) \/ (worst(t) = worst(u) /\ t < u)
    IN {[trip |-> t, delay |-> worst(t)] :
           t \in {u \in Trips : worst(u) > 0 /\ Cardinality({x \in Trips : ahead(x, u)}) < n}}

\* RepOutcome; the sample stands for the seed that draws it.
Outcome == [sample |-> scenario.primary, nPrimary |-> Cardinality(DOMAIN scenario.primary),
            total |-> TotalDelay, max |-> MaxAbsDeviation, delayed |-> DelayedEventCount]

Added(f, g) == [s \in DOMAIN f \cup DOMAIN g |->
                  (IF s \in DOMAIN f THEN f[s] ELSE 0) + (IF s \in DOMAIN g THEN g[s] ELSE 0)]

\* The end of run_montecarlo's loop body.
Collect ==
    /\ outcomes' = Append(outcomes, Outcome)
    /\ stationDelay' = Added(stationDelay, StationsDelay)
    /\ hotspotCount' = Added(hotspotCount, [s \in Top(StationsDelay, HotspotTop) |-> 1])

\* Mutant: the replications share one simulation.
RestartWithArrivals(s) ==
    /\ heap' = Entries(Origins(s), Len(s.stops), 0)
    /\ sequence' = Len(s.stops)
    /\ now' = 0
    /\ records' = <<>>
    /\ UNCHANGED <<raised, feederArrivals, waiting, waiters>>

\* A new MacroSimulation.
Restart(s) ==
    /\ heap' = Entries(Origins(s), Len(s.stops), 0)
    /\ sequence' = Len(s.stops)
    /\ now' = 0
    /\ records' = <<>> /\ feederArrivals' = <<>> /\ waiting' = <<>> /\ waiters' = <<>>
    /\ UNCHANGED raised

Replicate ==
    /\ Over
    /\ Len(outcomes) + 1 < scenario.reps
    /\ Collect
    /\ \E sample \in SamplePrimary(scenario) :
        LET s == [scenario EXCEPT !.primary = sample]
        IN scenario' = s /\ Restart(s)

Aggregate ==
    /\ Over
    /\ Len(outcomes) + 1 = scenario.reps
    /\ Collect
    /\ UNCHANGED vars

ExperimentInit == Init /\ outcomes = <<>> /\ stationDelay = <<>> /\ hotspotCount = <<>>

ExperimentNext == (Next /\ UNCHANGED experimentVars) \/ Replicate \/ Aggregate

Experiment ==
    ExperimentInit /\ [][ExperimentNext]_<<vars, experimentVars>> /\ WF_vars(Turn)

\* _percentile of the totals, times d, for the quantile n / d.
Percentile(n, d) ==
    LET totals == SortSeq([i \in DOMAIN outcomes |-> outcomes[i].total], <)
        pos == n * (Len(totals) - 1)
        lo == pos \div d + 1
    IN IF totals = <<>> THEN 0
       ELSE totals[lo] * (d - (pos % d)) + totals[Min({lo + 1, Len(totals)})] * (pos % d)

\* fragility: the most fragile stations, with their mean delay and their share
\* of hotspots, both times reps.
Fragility(top) ==
    {[stop |-> s, delay |-> stationDelay[s], hotspot |-> IF s \in DOMAIN hotspotCount THEN hotspotCount[s] ELSE 0] :
        s \in Top(stationDelay, top)}

-----------------------------------------------------------------------------
\* "The whole experiment is reproducible": replications that draw the same
\* delays come out the same, whatever ran before them; and the aggregates
\* belong to these outcomes: the delay of the stations adds up to that of the
\* runs, the percentiles rise from the least to the greatest total, each
\* replication has its hotspots, and the worst station was one of them.
ReplicationsReproduce ==
    outcomes # <<>> =>
        LET all == DOMAIN outcomes
            delays == MapThenSumSet(LAMBDA s : stationDelay[s], DOMAIN stationDelay)
            late == {i \in all : outcomes[i].total > 0}
        IN /\ \A i, j \in all : outcomes[i].sample = outcomes[j].sample => outcomes[i] = outcomes[j]
           /\ \A i \in all : outcomes[i].max <= outcomes[i].total \/ \E k \in DOMAIN outcomes[i].sample : outcomes[i].sample[k] < 0
           /\ delays = MapThenSumSet(LAMBDA i : outcomes[i].total, all)
           /\ \A n \in 0..3 : Percentile(n, 4) <= Percentile(n + 1, 4)
           /\ Percentile(4, 4) = 4 * Max({outcomes[i].total : i \in all})
           /\ \A f \in Fragility(1) : late # {} => f.delay * Cardinality(DOMAIN stationDelay) >= delays
           /\ \A f \in Fragility(Len(Stations)) :
                /\ f.hotspot <= Cardinality(late)
                /\ f.hotspot < Cardinality(late) => Cardinality(DOMAIN stationDelay) > HotspotTop \/ f.delay < delays
           /\ \A w \in WorstTrains(Len(scenario.stops)) : w.delay <= MaxAbsDeviation
=============================================================================
