---------------------------- MODULE MCTimetable -----------------------------
(***************************************************************************)
(* A station H with two platforms between A, B and K; a night train to K   *)
(* passes H without a time.  A second feed gives its days as exceptions    *)
(* only and comes without calendar.txt; a third one is incomplete.         *)
(***************************************************************************)
EXTENDS TrainPaths, TLC

Clock(minutes) == <<minutes \div 60, minutes % 60, 0>>
Call(trip, seq, stop, arr, dep) == [trip |-> trip, seq |-> seq, stop |-> stop, arr |-> arr, dep |-> dep]
Stop(id, parent, name, pos) == [id |-> id, parent |-> parent, name |-> name, pos |-> pos]
Trip(id, service) == [id |-> id, service |-> service]
File(columns, rows) == [columns |-> columns, rows |-> rows]

Stops == File({"stop_id", "stop_name", "parent_station"},
              {Stop("A", Null, "Astadt", 0), Stop("F", Null, "Feld", 1), Stop("H", Null, "Hbf", 5),
               Stop("H1", "H", "Hbf", 5), Stop("H2", "H", "Gleis 2", Null), Stop("B", Null, "Bdorf", 9),
               Stop("K", Null, "Kstadt", 20)})

TimeColumns == {"trip_id", "stop_id", "stop_sequence", "arrival_time", "departure_time"}

\* Train 1 meets train 2 at H at the very minute; train 3 overtakes it there.
\* Train 5 runs the other way, past F, and goes on from A; train 6 does not call
\* at H either.
Times(t) == File(TimeColumns,
    {Call(1, 1, "A", Clock(t - 1), Clock(t)), Call(1, 2, "H1", Clock(t + 2), Clock(t + 4)),
     Call(1, 4, "B", Clock(t + 8), <<>>),
     Call(2, 0, "H2", <<>>, Clock(t + 2)), Call(2, 1, "K", Clock(t + 9), Clock(t + 9)),
     Call(2, 2, "B", Clock(t + 9), <<>>),
     Call(3, 1, "A", Clock(t), Clock(t + 1)), Call(3, 2, "H", Clock(t + 3), Clock(t + 3)),
     Call(3, 3, "B", Clock(t + 7), <<>>),
     Call(4, 1, "A", <<>>, Clock(1439)), Call(4, 2, "H2", <<>>, <<24, Null, 0>>),
     Call(4, 3, "K", Clock(1441), <<>>),
     Call(5, 1, "B", <<>>, Clock(t + 4)), Call(5, 2, "H", Clock(t + 6), Clock(t + 7)),
     Call(5, 3, "A", Clock(t + 9), Clock(t + 13)), Call(5, 4, "K", Clock(t + 19), <<>>),
     Call(6, 1, "B", <<>>, Clock(t + 5)), Call(6, 2, "A", Clock(t + 12), <<>>)})

Trips == File({"trip_id", "service_id"}, {Trip(1, "daily"), Trip(2, "week"), Trip(3, "extra"), Trip(4, "daily"), Trip(5, "week"),
                                           Trip(6, "daily")})

\* week runs on the days 1..5 of the week, but not on date 8; extra runs on
\* date 8 only.
CalendarFile == File({}, {[service |-> "daily", days |-> 0..6, start |-> 7, end |-> 8],
                          [service |-> "week", days |-> 1..5, start |-> 0, end |-> 20]})
DatesFile == File({}, {[service |-> "week", date |-> 8, type |-> 2], [service |-> "extra", date |-> 8, type |-> 1]})
DatesOnly == File({}, {[service |-> "week", date |-> 8, type |-> 1], [service |-> "daily", date |-> 9, type |-> 1]})
Empty == File({}, {})

First == "agency" :> Empty @@ "stops" :> Stops @@ "routes" :> Empty @@ "trips" :> Trips
           @@ "stop_times" :> Times(600) @@ "calendar" :> CalendarFile @@ "calendar_dates" :> DatesFile
Second == "stops" :> Stops @@ "routes" :> Empty @@ "trips" :> Trips
            @@ "stop_times" :> Times(601) @@ "calendar_dates" :> DatesOnly
Broken == "agency" :> Empty @@ "stops" :> Stops

MCFeeds == {First, Second, Broken}

MCRequests ==
    {[date |-> date, from |-> from, to |-> to, after |-> after * 60] :
        date \in {8, 9}, from \in {"Astadt", "Hbf"}, to \in {"Bdorf", "Kstadt"},
        after \in {600, 601, 603, 1439}}

MCNames == <<"Astadt", "Feld", "Hbf", "Bdorf">>
MCSegments == [i \in 1..3 |-> [running |-> 60 * i, headway |-> 60, capacity |-> (i % 2) + 1]]
=============================================================================
