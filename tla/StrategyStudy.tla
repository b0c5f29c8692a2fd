--------------------------- MODULE StrategyStudy ----------------------------
(***************************************************************************)
(* dbsim.dispatch.optimal and dbsim.analysis.strategy_study: the schedule  *)
(* CP-SAT proves optimal, and the clearance delays by which the study      *)
(* compares the three strategies; also the instances the `reschedule` and  *)
(* `optimal` commands solve.                                               *)
(***************************************************************************)
EXTENDS AltGraph

\* add_no_overlap holds between the operations of one train, too: a train
\* that comes back to a resource keeps the headway to itself.
Revisits == {a \in Operations \X Operations :
                a[1][1] = a[2][1] /\ a[1][2] < a[2][2] /\ Resource(a[1]) = Resource(a[2])}

IntervalWeight(a) ==
    IF a[1] # Source /\ a[2] # Sink /\ Resource(a[1]) = Resource(a[2])
    THEN Proc(a[1]) + problem.headway
    ELSE Weight(a)

\* The earliest schedule of the constraint model that orders the trains so.
EarliestMakespan(choice) ==
    LET arcs == FixedArcs \cup Revisits \cup choice
        r[n \in Nodes] ==
            Max({0} \cup {r[a[1]] + IntervalWeight(a) : a \in {b \in arcs : b[2] = n}})
    IN r[Sink]

SumOverOperations(Of(_)) ==
    LET sum[i \in 0..Cardinality(Operations)] ==
            IF i = 0 THEN 0 ELSE sum[i - 1] + Of(SetToSeq(Operations)[i])
    IN sum[Cardinality(Operations)]

LatestRelease == Max({0} \cup {problem.release[t] : t \in Trains})

\* Mutant: the horizon has no room for headways.
HorizonWithoutHeadways == LatestRelease + SumOverOperations(Proc)

\* The upper bound of every variable of the constraint model.
Horizon ==
    LatestRelease + SumOverOperations(Proc) + problem.headway * (Cardinality(Operations) + 1)

\* The makespans of the constraint model's solutions.
CpSatMakespans ==
    {m \in {EarliestMakespan(c) : c \in {d \in Orders : NoCycle(FixedArcs \cup d)}} : m <= Horizon}

\* solve_optimal(problem).makespan
SolveOptimal == Min(CpSatMakespans)

\* The latest completion of a train that is alone.
FreeRunMakespan ==
    Max({0} \cup {problem.release[t] + SumOverOperations(LAMBDA n : IF n[1] = t THEN Proc(n) ELSE 0) :
                    t \in Trains})

\* clearance_delay_s of each strategy on one replication's problem.
ClearanceDelay ==
    [priority |-> Makespan(solved["priority"]) - FreeRunMakespan,
     amcc |-> Makespan(solved["amcc"]) - FreeRunMakespan,
     optimal |-> SolveOptimal - FreeRunMakespan]

-----------------------------------------------------------------------------
(* The problems of the commands; a headway is added between two trains. *)

ProblemOf(ops, release, headway, priority) ==
    [ops |-> ops, release |-> release, headway |-> headway, priority |-> priority]

Op(resource, proc) == [resource |-> resource, proc |-> proc]

\* `optimal`: three trains on three resources, on which AMCC is greedy.
BenchmarkProblem ==
    ProblemOf(<< <<Op(2, 300), Op(1, 300), Op(3, 600)>>,
                 <<Op(1, 600), Op(3, 300)>>,
                 <<Op(1, 300), Op(2, 600)>> >>,
              <<200, 200, 200>>, 120, <<0, 0, 0>>)

\* `reschedule --delay`: a delayed train of high priority meets one on time.
RescheduleProblem(delay) ==
    ProblemOf(<< <<Op(0, 600), Op(1, 600)>>, <<Op(1, 600), Op(0, 600)>> >>,
              <<delay, 0>>, 120, <<10, 0>>)

-----------------------------------------------------------------------------
\* "A true lower bound on what any rule can achieve": the constraint model
\* always has a schedule below its horizon, none clears the trains sooner than
\* they would run alone, and, unless a train comes back to a resource, neither
\* rule beats it, so that the gap the study reports is never negative.
OptimalIsALowerBound ==
    strategy = "done" =>
        /\ CpSatMakespans # {}
        /\ ClearanceDelay.optimal >= 0
        /\ Revisits = {} =>
            /\ SolveOptimal = Optimum
            /\ ClearanceDelay.optimal <= ClearanceDelay.amcc
            /\ ClearanceDelay.optimal <= ClearanceDelay.priority
=============================================================================
