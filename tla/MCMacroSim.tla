----------------------------- MODULE MCMacroSim -----------------------------
(***************************************************************************)
(* Two interchanges, H and K.  Train 1 ends after H, train 2 calls at both *)
(* and train 3 joins at K, so that a delay can travel 1 -> 2 -> 3, or back *)
(* again when the connections are mutual.  Train 4 is a second feeder at   *)
(* H, or one without times, which never comes.  Replications draw the      *)
(* delays of trains 1 to 3; two snapshots are validated against a feed of  *)
(* which they know a part.                                                 *)
(***************************************************************************)
EXTENDS Validation

Call(seq, stop, arr, dep) == [seq |-> seq, stop |-> stop, arr |-> arr, dep |-> dep]

\* The trips, with stop sequences that count from b, and train 4 due at H at g.
Network(b, g) ==
    <<0 :> Call(b, "A", NoTime, 0) @@ 1 :> Call(b + 1, "H", 2, 3) @@ 2 :> Call(b + 2, "B", 5, NoTime),
      0 :> Call(b, "C", NoTime, 0) @@ 1 :> Call(b + 1, "H", 1, 3) @@ 2 :> Call(b + 2, "K", 4, 6)
        @@ 3 :> Call(b + 3, "D", 7, NoTime),
      0 :> Call(b, "E", NoTime, 1) @@ 1 :> Call(b + 1, "K", 4, 5) @@ 2 :> Call(b + 2, "F", 6, NoTime),
      0 :> Call(b, "G", NoTime, g) @@ 1 :> Call(b + 1, "H", g, NoTime)>>

Link(feeder, stop, connector, seq, transfer, wait) ==
    [feeder |-> feeder, feederStop |-> stop, connector |-> connector, seq |-> seq,
     minTransfer |-> transfer, maxWait |-> wait]

\* The connections that may be declared: each way at both interchanges, and
\* one from train 4, for which train 2 waits longer: the longest of its waits
\* is not that of every feeder.
Links(b, transfer, wait) ==
    {Link(1, "H", 2, b + 1, transfer, wait), Link(2, "H", 1, b + 1, transfer, wait),
     Link(2, "K", 3, b + 1, transfer, wait), Link(3, "K", 2, b + 2, transfer, wait),
     Link(4, "H", 2, b + 1, transfer, wait + 1)}

\* Delays at the origins of trains 1, 2, 3 and at train 2's first interchange.
Delays(b, d1, d2, d3, dh) ==
    (<<1, b>> :> d1) @@ (<<2, b>> :> d2) @@ (<<3, b>> :> d3) @@ (<<2, b + 1>> :> dh)

Inputs(b, g, d1, d2, d3, dh, dwell, conns) ==
    [stops |-> Network(b, g), primary |-> Delays(b, d1, d2, d3, dh), conns |-> conns,
     minDwell |-> dwell, model |-> NoTime, reps |-> 0]

SingleRuns ==
    UNION {{Inputs(x[1], g, d1, d[1], d[2], y[1], y[2], conns) :
                g \in {NoTime, 4}, d1 \in {0, 1, 3}, d \in {<<0, 0>>, <<2, 0>>, <<0, 3>>},
                y \in {<<0, 0>>, <<1, 0>>, <<0, 2>>},
                conns \in SUBSET Links(x[1], 2 * (x[2] - 1), x[2])} :
                    x \in {<<0, 1>>, <<0, 2>>, <<1, 2>>}}

Update(seq, arr, dep) == [seq |-> seq, arr |-> arr, dep |-> dep]
Entity(trip, updates) == [trip |-> trip, updates |-> updates]

\* Trip 20 is late and first reported at its second stop, 30 early or on time
\* and 40 an alert; the feed has no trip 50.
Snapshot(late, early, ts) ==
    [ts |-> ts, entities |-> <<
        Entity(20, <<Update(1, 4, 3), Update(2, 2, NoTime), Update(3, NoTime, NoTime)>>),
        Entity(10, <<Update(0, NoTime, late), Update(1, late, late), Update(2, 1, NoTime)>>),
        Entity(30, <<Update(0, NoTime, early), Update(1, 1, NoTime), Update(2, 2, NoTime)>>),
        Entity(40, NoTime), Entity(50, <<Update(0, 2, 2)>>),
        Entity(20, <<Update(0, 2, NoTime), Update(2, 3, 3)>>)>>]

Feed == [t \in 1..4 |-> [trip |-> 10 * t, stops |-> Network(0, 4)[t]]]

Validations ==
    {ValidationInput(Feed, Snapshot(late, early, ts)) : late \in {0, 2, 5}, early \in {-1, 0, 3}, ts \in {5, 60}}

\* At most two trains late, by what the snapshot shows.
Experiments ==
    LET base(conns, threshold) ==
            [Inputs(0, 4, 0, 0, 0, 0, 0, conns) EXCEPT
                !.stops = SubSeq(Network(0, 4), 1, 3),
                !.model = Calibrate(OriginDelays(Snapshot(4, 0, 60)), threshold), !.reps = 2]
    IN UNION {{[s EXCEPT !.primary = p] : p \in SamplePrimary(s)} :
                 s \in {base(Links(0, 0, 1) \ {Link(4, "H", 2, 1, 0, 2)}, 3), base({}, 2)}}

MCScenarios == SingleRuns \cup Validations \cup Experiments

MCStations == <<"A", "B", "C", "D", "E", "F", "G", "H", "K">>

\* Train 2 reaches H before its feeder, which comes on time and leaves enough
\* for the transfer: nobody is late.
PunctualFeeder == {Inputs(0, NoTime, 0, 0, 0, 0, 0, {Link(1, "H", 2, 1, 1, 4)})}

\* Stops are counted from 1, as GTFS feeds do.  Train 1 has come when train 2
\* decides to wait for it and for train 4, which arrives at 4 with a transfer
\* that takes until 6 and would fit into the wait.
CountedFromOne ==
    {Inputs(1, 4, 0, 2, 0, 0, 0, {Link(1, "H", 2, 2, 2, 2), Link(4, "H", 2, 2, 2, 3)})}

\* Train 4 runs to H within the minute.
ShortRun == {Inputs(0, 4, 0, 0, 0, 0, 0, {})}
=============================================================================
