------------------------------ MODULE AltGraph ------------------------------
(***************************************************************************)
(* dbsim.dispatch.altgraph: dispatching as an alternative graph.  An       *)
(* operation <<train, i>> is a train on its i-th resource.  Two operations *)
(* of different trains on one resource are a pair, whose order is chosen   *)
(* by adding one of the two arcs between them.  solve_amcc and             *)
(* solve_by_priority choose one arc after another; the longest paths are   *)
(* the schedule.                                                           *)
(*                                                                         *)
(* A problem is what both solvers receive:                                 *)
(*   ops       train -> its operations, a tuple of [resource, proc]        *)
(*   release   train -> the time from which its first operation may start  *)
(*   headway   added between two trains on one resource                    *)
(*   priority  train -> its priority                                       *)
(* Trains are numbered in the order of train_ops, which is also that of    *)
(* their ids; operations count from 1 here, from 0 in the code.            *)
(***************************************************************************)
EXTENDS Integers, FiniteSetsExt, SequencesExt

CONSTANT Problems   \* the instances considered

VARIABLES
    problem,
    strategy,    \* which solver runs: "amcc", then "priority", then "done"
    remaining,   \* the pairs not decided yet
    selected,    \* the arcs chosen so far
    solved       \* strategy -> the arcs it chose, a partial function

vars == <<problem, strategy, remaining, selected, solved>>

Operation == [resource : Nat, proc : Nat]

ASSUME ProblemsAssumption ==
    \A p \in Problems :
        /\ p.ops \in Seq(Seq(Operation) \ {<<>>})
        /\ p.release \in [DOMAIN p.ops -> Nat]
        /\ p.priority \in [DOMAIN p.ops -> Int]
        /\ p.headway \in Nat

\* build_problem_from_meso: stations are numbered from 0, a segment by the
\* lower of its ends.  The first segment's headway holds for all of them.
ProblemFromMeso(segments, trains) ==
    LET segment(t, i) == Min({trains[t].path[i], trains[t].path[i + 1]})
    IN [ops |-> [t \in DOMAIN trains |->
                    [i \in 1..(Len(trains[t].path) - 1) |->
                        [resource |-> segment(t, i), proc |-> segments[segment(t, i)].running]]],
        release |-> [t \in DOMAIN trains |-> trains[t].entry],
        priority |-> [t \in DOMAIN trains |-> trains[t].priority],
        headway |-> segments[0].headway]

Trains == DOMAIN problem.ops
Operations == UNION {{t} \X DOMAIN problem.ops[t] : t \in Trains}
Resource(n) == problem.ops[n[1]][n[2]].resource
Proc(n) == problem.ops[n[1]][n[2]].proc
First(t) == <<t, 1>>
Final(t) == <<t, Len(problem.ops[t])>>

Source == <<0, 0>>
Sink == <<0, 1>>
Nodes == Operations \cup {Source, Sink}

\* The chain of each train's operations, from the source to the sink.
FixedArcs ==
    {<<Source, First(t)>> : t \in Trains} \cup {<<Final(t), Sink>> : t \in Trains}
    \cup {a \in Operations \X Operations : a[1][1] = a[2][1] /\ a[2][2] = a[1][2] + 1}

\* Mutant: the headway is left out between trains.
WeightWithoutHeadway(a) ==
    IF a[1] = Source THEN problem.release[a[2][1]] ELSE Proc(a[1])

Weight(a) ==
    IF a[1] = Source THEN problem.release[a[2][1]]
    ELSE IF a[2][1] \in {0, a[1][1]} THEN Proc(a[1]) ELSE Proc(a[1]) + problem.headway

\* A pair is named by the arc from the earlier train's operation to the
\* later one's; the other arc is its reverse.
Flip(a) == <<a[2], a[1]>>

Pairs == {a \in Operations \X Operations :
            a[1][1] < a[2][1] /\ Resource(a[1]) = Resource(a[2])}

\* Operations, and pairs, in the order the code lists them: resources by their
\* first use, then the operations.
Earlier(n, m) == n[1] < m[1] \/ (n[1] = m[1] /\ n[2] < m[2])

FirstUse(n) ==
    CHOOSE m \in Operations :
        /\ Resource(m) = Resource(n)
        /\ \A k \in Operations : Resource(k) = Resource(n) => ~Earlier(k, m)

PairBefore(a, b) ==
    LET use == FirstUse(a[1])
        other == FirstUse(b[1])
    IN \/ Earlier(use, other)
       \/ use = other /\ (Earlier(a[1], b[1]) \/ (a[1] = b[1] /\ Earlier(a[2], b[2])))

-----------------------------------------------------------------------------
\* _reachable: target belongs to every set of nodes that start belongs to and
\* no arc leaves.
Closed(S, arcs) == \A a \in arcs : a[1] \in S => a[2] \in S

Reaches(arcs, start, target) ==
    \A S \in SUBSET Nodes : start \in S /\ Closed(S, arcs) => target \in S

\* _longest_from_source
LongestFromSource(arcs) ==
    LET r[n \in Nodes] == Max({0} \cup {r[a[1]] + Weight(a) : a \in {b \in arcs : b[2] = n}})
    IN r

\* _longest_to_sink
LongestToSink(arcs) ==
    LET q[n \in Nodes] == Max({0} \cup {q[a[2]] + Weight(a) : a \in {b \in arcs : b[1] = n}})
    IN q

Graph == FixedArcs \cup selected

Init ==
    /\ problem \in Problems
    /\ strategy = "amcc"
    /\ remaining = Pairs
    /\ selected = {}
    /\ solved = <<>>

\* Mutant: the safe arc and the unsafe one change places.
SafeOrWorse(preferred, other) ==
    IF Reaches(Graph, preferred[2], preferred[1]) THEN preferred ELSE other

\* The preferred arc, unless it closes a cycle.
Safe(preferred, other) ==
    IF Reaches(Graph, preferred[2], preferred[1]) THEN other ELSE preferred

Undecided == remaining \cup {Flip(p) : p \in remaining}

\* Mutant: what follows the second operation is not counted.
PathSoFar ==
    LET r == LongestFromSource(Graph)
    IN [a \in Undecided |-> r[a[1]] + Weight(a)]

\* The longest path through each undecided arc.
PathThrough ==
    LET r == LongestFromSource(Graph)
        q == LongestToSink(Graph)
    IN [a \in Undecided |-> r[a[1]] + Weight(a) + q[a[2]]]

\* The arc the code sees first: by its pair, the pair's own direction first.
SeenBefore(a, b) ==
    LET pair(c) == IF c \in remaining THEN c ELSE Flip(c)
    IN PairBefore(pair(a), pair(b)) \/ (a \in remaining /\ b = Flip(a))

\* Mutant: the comparison is turned round.
LeastCritical ==
    LET path == PathThrough
        least == {a \in Undecided : \A b \in Undecided : path[b] >= path[a]}
    IN {a \in least : \A b \in least : b = a \/ SeenBefore(a, b)}

\* The undecided arc on the longest path, the first one if several are.
MostCritical ==
    LET path == PathThrough
        most == {a \in Undecided : \A b \in Undecided : path[b] <= path[a]}
    IN {a \in most : \A b \in most : b = a \/ SeenBefore(a, b)}

Decide(preferred) ==
    /\ remaining' = remaining \ {preferred, Flip(preferred)}
    /\ selected' = selected \cup {Safe(preferred, Flip(preferred))}
    /\ UNCHANGED <<problem, strategy, solved>>

\* One turn of solve_amcc's loop: avoid the most critical arc.
AvoidMostCritical ==
    /\ strategy = "amcc"
    /\ \E critical \in MostCritical : Decide(Flip(critical))

\* The arc solve_by_priority prefers for a pair.
ByPriority(p) ==
    IF problem.priority[p[1][1]] >= problem.priority[p[2][1]] THEN p ELSE Flip(p)

\* One turn of solve_by_priority's loop.
FollowPriority ==
    /\ strategy = "priority"
    /\ \E p \in remaining :
        /\ \A other \in remaining : other = p \/ PairBefore(p, other)
        /\ Decide(ByPriority(p))

\* Mutant: the second solver starts with the arcs of the first.
FinalizeAndKeep ==
    /\ strategy # "done"
    /\ remaining = {}
    /\ solved' = [s \in DOMAIN solved \cup {strategy} |->
                    IF s = strategy THEN selected ELSE solved[s]]
    /\ strategy' = IF strategy = "amcc" THEN "priority" ELSE "done"
    /\ remaining' = IF strategy = "amcc" THEN Pairs ELSE {}
    /\ UNCHANGED <<problem, selected>>

\* A solver returns; the next one starts anew.
Finalize ==
    /\ strategy # "done"
    /\ remaining = {}
    /\ solved' = [s \in DOMAIN solved \cup {strategy} |->
                    IF s = strategy THEN selected ELSE solved[s]]
    /\ strategy' = IF strategy = "amcc" THEN "priority" ELSE "done"
    /\ remaining' = IF strategy = "amcc" THEN Pairs ELSE {}
    /\ selected' = {}
    /\ UNCHANGED problem

Finished == strategy = "done" /\ UNCHANGED vars

Next == AvoidMostCritical \/ FollowPriority \/ Finalize \/ Finished

Spec == Init /\ [][Next]_vars

-----------------------------------------------------------------------------
(* What _finalize makes of a choice of arcs. *)

Start(choice) == LongestFromSource(FixedArcs \cup choice)
Makespan(choice) == Start(choice)[Sink]

\* resource_order: the operations of a resource by starting time.
Ahead(start, n, m) ==
    /\ Resource(n) = Resource(m)
    /\ start[n] < start[m] \/ (start[n] = start[m] /\ Earlier(n, m))

\* The order of the pairs is all there is to decide: an optimal schedule
\* (dispatch/optimal.py) is the earliest one of a choice without cycles.
Orders == {{IF p \in F THEN p ELSE Flip(p) : p \in Pairs} : F \in SUBSET Pairs}

NoCycle(arcs) == \A a \in arcs : ~Reaches(arcs, a[2], a[1])

Optimum == Min({Makespan(c) : c \in {d \in Orders : NoCycle(FixedArcs \cup d)}})

-----------------------------------------------------------------------------
\* Every pair is undecided or has exactly one of its arcs.
TypeOK ==
    /\ strategy \in {"amcc", "priority", "done"}
    /\ remaining \subseteq Pairs
    /\ DOMAIN solved \subseteq {"amcc", "priority"}
    /\ selected \subseteq Pairs \cup {Flip(p) : p \in Pairs}
    /\ strategy # "done" =>
        \A p \in Pairs : IF p \in remaining THEN p \notin selected /\ Flip(p) \notin selected
                                            ELSE p \in selected <=> Flip(p) \notin selected

\* "Cycle-safe": whatever the solver has chosen, the orders it gave to the
\* resources never close a cycle with the routes of the trains, so that every
\* operation has a starting time and no train waits for itself.
Acyclic == NoCycle(Graph)

\* The check for cycles never has to overrule a choice when running times are
\* positive: avoiding the longest path avoids cycles, and so does one priority
\* for all resources.  The priority rule hence orders every resource by it.
NeverForced ==
    (remaining # {} /\ \A n \in Operations : Proc(n) > 0) =>
        LET preferred == IF strategy = "amcc" THEN {Flip(a) : a \in MostCritical}
                                              ELSE {ByPriority(p) : p \in remaining}
        IN \A a \in preferred : ~Reaches(Graph, a[2], a[1])

\* The schedule of either solver can be driven: releases and running times are
\* kept, and a train ahead of another in a resource_order has left and the
\* headway is over when the other starts.  An operation that takes no time may
\* start together with the next one of its resource, and be listed after it.
Feasible ==
    \A s \in DOMAIN solved :
        LET start == Start(solved[s])
        IN /\ \A t \in Trains : start[First(t)] >= problem.release[t]
           /\ \A n, m \in Operations :
                n[1] = m[1] /\ m[2] = n[2] + 1 => start[m] >= start[n] + Proc(n)
           /\ (\A n \in Operations : Proc(n) > 0) =>
                \A n, m \in Operations :
                    n[1] # m[1] /\ Ahead(start, n, m)
                        => start[m] >= start[n] + Proc(n) + problem.headway

\* With two trains, AMCC is not only a heuristic: it finds the least makespan.
TwoTrainsOptimal ==
    ("amcc" \in DOMAIN solved /\ Cardinality(Trains) = 2)
        => Makespan(solved["amcc"]) = Optimum

\* altgraph.py: "Because v2 optimises the makespan and v1 does not, v2 is never
\* worse".
AmccNeverWorse ==
    strategy = "done" => Makespan(solved["amcc"]) <= Makespan(solved["priority"])
=============================================================================
