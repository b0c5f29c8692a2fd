------------------------------ MODULE Timetable ------------------------------
(***************************************************************************)
(* dbsim.model.timetable.Timetable: the queries over a loaded database d,  *)
(* a function from table to rows.  Dates are numbers; Weekday says on      *)
(* which day of the week a date falls.                                     *)
(***************************************************************************)
EXTENDS Gtfs, SequencesExt, Basics

Weekday(date) == date % 7

\* services_on: the calendar without the removals, and the additions.
ServicesOn(d, date) ==
    LET excepted(type) == {x.service : x \in {y \in d["calendar_dates"] : y.date = date /\ y.type = type}}
        regular == {c.service : c \in {x \in d["calendar"] :
                       x.start <= date /\ date <= x.end /\ Weekday(date) \in x.days}}
    IN (regular \ excepted(2)) \cup excepted(1)

\* resolve_station_stops: the stops of that name and all below them.
StationStops(d, name) ==
    LET below(S) == S \cup {s.id : s \in {x \in d["stops"] : x.parent \in S}}
        level[n \in 0..Cardinality(d["stops"])] ==
            IF n = 0 THEN {s.id : s \in {x \in d["stops"] : x.name = name}} ELSE below(level[n - 1])
    IN level[Cardinality(d["stops"])]

\* The rows of stop_times that run on a date.
CallsOn(d, date) ==
    LET services == ServicesOn(d, date)
        running == {t.id : t \in {x \in d["trips"] : x.service \in services}}
    IN {c \in d["stop_times"] : c.trip \in running}

\* NULLS LAST
NullsLast(a, b) == a # Null /\ (b = Null \/ a < b)

\* trains_through_station, by departure; the trip breaks ties.
TrainsThroughStation(d, name, date) ==
    LET stops == StationStops(d, name)
        first(c, e) == NullsLast(c.dep, e.dep) \/ (c.dep = e.dep /\ c.trip < e.trip)
    IN Sorted({[trip |-> c.trip, arr |-> c.arr, dep |-> c.dep] :
                     c \in {x \in CallsOn(d, date) : x.stop \in stops}}, first)

\* trip_stop_sequence
TripStopSequence(d, trip) ==
    Sorted({c \in d["stop_times"] : c.trip = trip}, LAMBDA c, e : c.seq < e.seq)

\* The tables the queries read; of agency only the rows are counted.
Queryable(d) == \A i \in DOMAIN Tables : Tables[i] # "agency" => Tables[i] \in DOMAIN d
=============================================================================
