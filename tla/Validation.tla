----------------------------- MODULE Validation -----------------------------
(***************************************************************************)
(* dbsim.analysis.validation: the observed delay at each train's origin is *)
(* put into the macro simulation and the delays it predicts downstream are *)
(* compared with the observed ones.  A validated scenario has two fields   *)
(* more, the snapshot and the trip ids of its schedules.                   *)
(***************************************************************************)
EXTENDS MonteCarlo

\* obs_arr and obs_dep: <<trip, seq>> -> the delay reported last.
Observed(snapshot, kind) ==
    LET delays == ParseSnapshot(snapshot)
        told == {k \in DOMAIN delays : delays[k][kind] # NoTime}
        key(k) == <<delays[k].trip, delays[k].seq>>
    IN [x \in {key(k) : k \in told} |-> delays[Max({k \in told : key(k) = x})][kind]]

\* build_schedules_for_trips, from a feed in the order of its trip ids.
BuildSchedules(feed, trips) == SelectSeq(feed, LAMBDA f : f.trip \in trips)

\* The observed delay at the first stop.
OriginDelay(snapshot, trip, seq) ==
    LET dep == Observed(snapshot, "dep")
        arr == Observed(snapshot, "arr")
    IN IF <<trip, seq>> \in DOMAIN dep THEN dep[trip, seq]
       ELSE IF <<trip, seq>> \in DOMAIN arr THEN arr[trip, seq] ELSE 0

\* What run_validation gives the simulation.
ValidationInput(feed, snapshot) ==
    LET delays == ParseSnapshot(snapshot)
        schedules == BuildSchedules(feed, {delays[k].trip : k \in DOMAIN delays})
        origin(t) == OriginDelay(snapshot, schedules[t].trip, schedules[t].stops[0].seq)
        delayed == {t \in DOMAIN schedules : origin(t) # 0}
    IN [stops |-> [t \in DOMAIN schedules |-> schedules[t].stops],
        primary |-> [k \in {<<t, schedules[t].stops[0].seq>> : t \in delayed} |-> origin(k[1])],
        conns |-> {}, minDwell |-> 0, model |-> NoTime, reps |-> 0,
        snapshot |-> snapshot, ids |-> [t \in DOMAIN schedules |-> schedules[t].trip]]

\* Mutant: departures overwrite the arrivals.
SimulatedLast(t, i) ==
    IF Moved(t, i, "depart") # {} THEN {Deviation(r) : r \in Moved(t, i, "depart")}
    ELSE {Deviation(r) : r \in Moved(t, i, "arrive")}

\* sim_arr, for a stop that has an arrival time.
Simulated(t, i) == {Deviation(r) : r \in Moved(t, i, "arrive")}

\* The ValidationPairs: downstream arrivals that are observed, simulated and
\* past by the time of the snapshot, which counts from midnight.
Pairs ==
    LET observed == Observed(scenario.snapshot, "arr")
        key(t, i) == <<scenario.ids[t], Stop(t, i).seq>>
        pairs(t, i) == {[trip |-> t, idx |-> i, origin |-> Primary(t, Stop(t, 0).seq),
                         observed |-> observed[key(t, i)], simulated |-> d] : d \in Simulated(t, i)}
        compared == {x \in UNION {{t} \X DOMAIN scenario.stops[t] : t \in Trips} :
                        /\ Stop(x[1], x[2]).seq # Stop(x[1], 0).seq
                        /\ Stop(x[1], x[2]).arr # NoTime
                        /\ key(x[1], x[2]) \in DOMAIN observed
                        /\ Stop(x[1], x[2]).arr + observed[key(x[1], x[2])] <= scenario.snapshot.ts}
    IN UNION {pairs(x[1], x[2]) : x \in compared}

Apart(a, b) == IF a >= b THEN a - b ELSE b - a

\* _mae, of the model and of the baseline, times the number of pairs.
Mae(pairs) == [model |-> MapThenSumSet(LAMBDA p : Apart(p.simulated, p.observed), pairs),
               baseline |-> MapThenSumSet(LAMBDA p : Apart(p.origin, p.observed), pairs)]

\* _score; beats_baseline is read off the delayed trains.
Score(pairs, threshold) ==
    LET delayed == {p \in pairs : Apart(p.origin, 0) >= threshold}
    IN [nPairs |-> Cardinality(pairs), nTrips |-> Cardinality({p.trip : p \in pairs}), mae |-> Mae(pairs),
        bias |-> MapThenSumSet(LAMBDA p : p.simulated - p.observed, pairs),
        maeDelayed |-> Mae(delayed), beatsBaseline |-> Mae(delayed).model < Mae(delayed).baseline]

-----------------------------------------------------------------------------
\* The dwell-recovery model against "the delay stays constant": downstream of
\* its origin a train is late by its origin delay less the slack of the dwell
\* times since, and no longer early once it has stood somewhere.  So where the
\* trains made up at least half of that slack the model beats the baseline.
RecoveryIsTheSlack ==
    Over /\ "snapshot" \in DOMAIN scenario =>
        LET slack(t, i) == MapThenSumSet(LAMBDA j : Stop(t, j).dep - Stop(t, j).arr, 1..(i - 1))
            recovering == {p \in Pairs : p.origin > 0 /\ 2 * p.observed <= p.origin + p.simulated}
        IN /\ \A p \in Pairs :
                p.simulated = IF p.idx = 1 THEN p.origin ELSE Larger(0, p.origin - slack(p.trip, p.idx))
           /\ (\E p \in recovering : p.simulated < p.origin /\ 2 * p.observed < p.origin + p.simulated)
                => Score(recovering, 1).beatsBaseline
=============================================================================
