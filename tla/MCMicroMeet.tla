---------------------------- MODULE MCMicroMeet -----------------------------
(***************************************************************************)
(* Up to four trains through the passing loop, in every combination of     *)
(* directions, entry times and priorities considered, under both policies. *)
(***************************************************************************)
EXTENDS MicroValidation, TLC

Train(direction, entry, priority) ==
    [direction |-> direction, entry |-> entry, priority |-> priority]

\* The passing track is slower than the through track.
Running == ("west_approach" :> 2) @@ ("east_approach" :> 2) @@ (Through :> 1) @@ (Passing :> 2)

Inputs(trains, avoid) == [trains |-> trains, avoid |-> avoid, running |-> Running]

Directions == {"WE", "EW"}

\* Two trains from the west fill the loop while one from the east holds the
\* approach they need; the running times have the ratios of build_passing_loop.
ThirdTrain ==
    {[Inputs(<<Train("WE", 0, 0), Train("WE", 2, 0), Train("EW", 6, 0)>>, TRUE) EXCEPT
        !.running = ("west_approach" :> 5) @@ ("east_approach" :> 5) @@ (Through :> 3)
                        @@ (Passing :> 4)]}

MCScenarios ==
    {Inputs(<<Train(d1, 0, p1), Train(d2, e2, 1)>>, avoid) :
        d1, d2 \in Directions, e2 \in 0..4, p1 \in {0, 2}, avoid \in BOOLEAN}
    \cup
    {Inputs(<<Train(d1, 0, 0), Train(d2, e2, 1), Train(d3, e3, p3)>>, avoid) :
        d1, d2, d3 \in Directions, e2 \in {0, 1}, e3 \in {0, 2, 3, 5}, p3 \in {0, 2},
        avoid \in BOOLEAN}
    \cup
    {Inputs(<<Train("WE", 0, 0), Train("WE", e2, 0), Train(d3, 1, p3), Train("WE", e4, 1)>>, TRUE) :
        e2 \in 0..1, d3 \in Directions, e4 \in 0..2, p3 \in {0, 2}}
    \cup ThirdTrain
=============================================================================
