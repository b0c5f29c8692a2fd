------------------------------ MODULE Playback ------------------------------
(***************************************************************************)
(* dbsim.record.recording: the movements of a run are written to a file    *)
(* and read back to say where each train is at any time.                   *)
(***************************************************************************)
EXTENDS MacroSim, TLC

\* A MovementRecord, with the stop's own sequence number.
Movement(r) ==
    LET stop == Stop(r.trip, r.idx)
    IN [time |-> r.time, trip |-> r.trip, seq |-> stop.seq, stop |-> stop.stop, event |-> r.event,
        scheduled |-> IF r.event = "depart" THEN stop.dep ELSE stop.arr]

\* write_recording and load_recording; the rows come back by time, trip and
\* sequence number, what ties is put in order by train_events.
WriteRecording == [nEvents |-> Len(records), movements |-> [n \in DOMAIN records |-> Movement(records[n])]]

LoadRecording(file) ==
    SortSeq(file.movements, LAMBDA a, b :
        \/ a.time < b.time
        \/ a.time = b.time /\ (a.trip < b.trip \/ (a.trip = b.trip /\ a.seq < b.seq)))

\* Mutant: departures come first at equal times.
TrainEventsDepartingFirst(movements, t) ==
    SortSeq(SelectSeq(movements, LAMBDA m : m.trip = t), LAMBDA a, b :
        \/ a.time < b.time
        \/ a.time = b.time /\ a.event = "depart" /\ b.event = "arrive"
        \/ a.time = b.time /\ a.event = b.event /\ a.seq < b.seq)

\* Recording.__init__ and train_events: arrivals come first at equal times.
TrainEvents(movements, t) ==
    SortSeq(SelectSeq(movements, LAMBDA m : m.trip = t), LAMBDA a, b :
        \/ a.time < b.time
        \/ a.time = b.time /\ a.event = "arrive" /\ b.event = "depart"
        \/ a.time = b.time /\ a.event = b.event /\ a.seq < b.seq)

\* position_at, from the train's events; the fraction is gone / span.
\* NoTime stands for None.
PositionAt(events, at) ==
    LET i == Max({0} \cup {k \in DOMAIN events : events[k].time <= at})
        cur == events[i]
        nxt == events[i + 1]
        dwelling == [atStop |-> TRUE, from |-> cur.stop, to |-> cur.stop, gone |-> 0, span |-> 1]
    IN IF i = 0 THEN NoTime
       ELSE IF i = Len(events) \/ cur.event # "depart" \/ nxt.event # "arrive" THEN dwelling
       ELSE [atStop |-> FALSE, from |-> cur.stop, to |-> nxt.stop,
             gone |-> at - cur.time, span |-> nxt.time - cur.time]

\* position_xy_at, along one axis and times the span.
PositionXyAt(events, at, coords) ==
    LET p == PositionAt(events, at)
    IN IF p = NoTime \/ ~({p.from, p.to} \subseteq DOMAIN coords) THEN NoTime
       ELSE coords[p.from] * p.span + (coords[p.to] - coords[p.from]) * p.gone

\* active_trip_count
ActiveTripCount(movements, at) ==
    LET position(t) == PositionAt(TrainEvents(movements, t), at)
    IN Cardinality({t \in {m.trip : m \in Range(movements)} : position(t) # NoTime /\ ~position(t).atStop})

-----------------------------------------------------------------------------
Over == heap = {} /\ ~raised

RunsTakeTime(t) ==
    ~NeverStarts(t) /\ \A i \in DOMAIN scenario.stops[t] : ~Last(t, i) => RunningTime(Stop(t, i), Stop(t, i + 1)) > 0

\* The recording puts every train where the simulation had it, at each instant
\* of a record and next to it: not yet started, under way between the two stops
\* it has left and not reached, in proportion to the time since, or at the stop
\* it has reached, if its every run takes time; and if that holds of all the
\* trains it counts as many under way as have departed and not arrived.
PlaybackFollowsTheRun ==
    Over =>
        LET movements == LoadRecording(WriteRecording)
            done(t, i, kind, at) == \E r \in Moved(t, i, kind) : r.time <= at
            coords == [s \in {m.stop : m \in Range(movements)} |-> Cardinality({m \in Range(movements) : m.stop = s})]
            instants == UNION {{r.time - 1, r.time} : r \in Range(records)}
            underWay(at) == {x \in UNION {{t} \X DOMAIN scenario.stops[t] : t \in Trips} :
                                ~Last(x[1], x[2]) /\ done(x[1], x[2], "depart", at)
                                /\ ~done(x[1], x[2] + 1, "arrive", at)}
        IN /\ \A t \in {x \in Trips : RunsTakeTime(x)} :
                LET events == TrainEvents(movements, t)
                IN \A at \in instants :
                    LET p == PositionAt(events, at)
                        moving == {x \in underWay(at) : x[1] = t}
                    IN IF ~done(t, 0, "depart", at) THEN p = NoTime
                       ELSE IF moving = {}
                         THEN p.atStop /\ \E i \in DOMAIN scenario.stops[t] :
                                /\ p.from = Stop(t, i).stop
                                /\ done(t, i, IF i = 0 THEN "depart" ELSE "arrive", at)
                                /\ ~Last(t, i) => ~done(t, i + 1, "arrive", at)
                       ELSE \A x \in moving :
                            /\ p.from = Stop(t, x[2]).stop /\ p.to = Stop(t, x[2] + 1).stop
                            /\ \A r \in Moved(t, x[2], "depart") : p.gone = at - r.time
                            /\ 0 <= p.gone /\ p.gone < p.span
                            /\ LET xy == PositionXyAt(events, at, coords)
                                   ends == {coords[p.from] * p.span, coords[p.to] * p.span}
                               IN Min(ends) <= xy /\ xy <= Max(ends) /\ (p.gone = 0 => xy = coords[p.from] * p.span)
           /\ (\A t \in Trips : NeverStarts(t) \/ RunsTakeTime(t)) =>
                \A at \in instants : ActiveTripCount(movements, at) = Cardinality(underWay(at))

\* recording.py: "After the final arrival it is reported dwelling at the
\* terminus", however short its runs are.
TerminusAfterFinalArrival ==
    Over => \A t \in Trips : \A r \in Range(records) :
        r.trip = t /\ r.event = "arrive" /\ Last(t, r.idx) =>
            PositionAt(TrainEvents(LoadRecording(WriteRecording), t), r.time).from = Stop(t, r.idx).stop
=============================================================================
