----------------------------- MODULE MCAltGraph -----------------------------
(* AMCC and the priority rule on the problems of small corridors. *)
EXTENDS StrategyStudy, TLC

CONSTANTS Trains2, Trains3   \* whether problems of two, of three trains are considered

Segment(running, headway) == [running |-> running, headway |-> headway]
Train(path, entry, priority) == [path |-> path, entry |-> entry, priority |-> priority]

\* Three segments with different running times.
Corridor(a, b, headway) == 0 :> Segment(a, headway) @@ 1 :> Segment(b, headway)
                            @@ 2 :> Segment(1, headway)

TwoTrainProblems ==
    {ProblemFromMeso(Corridor(a, b, h), <<Train(p, e, 0), Train(q, f, z)>>) :
        a \in {1, 2}, b \in {1, 3}, h \in {0, 1}, e \in {0, 1}, f \in {0, 2}, z \in {0, 1},
        p \in {<<0, 1, 2>>, <<0, 1, 2, 3>>},
        q \in {<<2, 1, 0>>, <<0, 1, 2>>, <<3, 2, 1>>, <<1, 2, 1>>}}

\* Two more trains on the first train's way: the arcs that AMCC avoids while
\* it sees only two of them turn out to be on the best schedule.
ThreeTrainProblems ==
    {ProblemFromMeso(Corridor(1, 2, h),
                     <<Train(<<2, 1, 0>>, 2, z), Train(p, e, 0), Train(q, f, 2)>>) :
        h \in {0, 1}, z \in {1, 3}, e \in {0, 1}, f \in {0, 1},
        p \in {<<1, 2>>, <<0, 1, 2>>}, q \in {<<1, 2>>, <<1, 0>>}}

\* The commands' instances; the delays are around the length of the line.
CommandProblems == {BenchmarkProblem} \cup {RescheduleProblem(d) : d \in {0, 600, 1200, 1500}}

MCProblems ==
    (IF Trains2 THEN TwoTrainProblems \cup CommandProblems ELSE {})
    \cup (IF Trains3 THEN ThreeTrainProblems ELSE {})
=============================================================================
