---------------------------- MODULE BlockingTimes ----------------------------
(***************************************************************************)
(* dbsim.model.micro, dbsim.engine.blocking and dbsim.analysis.stairway:   *)
(* the micro zone curated from map data, the speed profile of a train over *)
(* its blocks, the blocking times and the minimum headway they imply.      *)
(* Floating point becomes fixed point: positions in decimetres, lengths of *)
(* steps in centimetres, speeds in centimetres per second, times in        *)
(* milliseconds.                                                           *)
(***************************************************************************)
EXTENDS TrackSegments, Basics

CONSTANTS
    ApproachLength,   \* approach_length_m, in decimetres
    Dx,               \* dx_m, in decimetres: the longest step of the grid
    TrainLength,      \* TrainDynamics.length_m, in decimetres
    TrainSpeed,       \* TrainDynamics.max_speed_kmh
    Accel, Decel,     \* accel_ms2 and decel_ms2, in cm/s^2
    Setup, Release    \* setup_s and release_s, in milliseconds

\* A train moves, on a grid, and has a length; setup and release may take no time.
ASSUME DynamicsAssumption ==
    /\ {ApproachLength, Dx, TrainLength, TrainSpeed, Accel, Decel} \subseteq Nat \ {0}
    /\ {Setup, Release} \subseteq Nat

-----------------------------------------------------------------------------
Block(id, length, speed, platform, kind) ==
    [id |-> id, length |-> length, maxSpeed |-> speed, hasPlatform |-> platform, kind |-> kind]

\* The greatest distance between two switches.
MaxSwitchSpan(features) ==
    LET places == {s.at : s \in ToSet(features.switches)}
    IN Max({0} \cup {Isqrt(Square(p.x - q.x) + Square(p.y - q.y)) : p, q \in places})

\* Counter(speeds).most_common(1): the first of the most frequent.
MostCommon(speeds) ==
    LET Count(s) == Len(SelectSeq(speeds, LAMBDA t : t = s))
    IN speeds[CHOOSE i \in DOMAIN speeds : \A j \in DOMAIN speeds :
                \/ Count(speeds[i]) > Count(speeds[j])
                \/ Count(speeds[i]) = Count(speeds[j]) /\ i <= j]

\* The speeds that ways are tagged with.
\* Mutant: a tag that says 0 counts as a speed.
SpeedsWithZero(ways) ==
    SelectSeq(Mapped(ways, LAMBDA w : w.maxSpeed), LAMBDA s : s # None)

Speeds(ways) == SelectSeq(Mapped(ways, LAMBDA w : w.maxSpeed), LAMBDA s : s \notin {None, 0})

\* The routes of the zone: approach, loop track, approach.
ZoneRoutes ==
    {[direction |-> d, loopTrack |-> t,
      blocks |-> IF d = "WE" THEN <<"west_approach", t, "east_approach">>
                             ELSE <<"east_approach", t, "west_approach">>] :
        d \in {"WE", "EW"}, t \in {"loop_t1", "loop_t2"}}

\* A zone from the map: a span that rounds to no metre becomes 289 m.
CuratePfaffingenLoop(ways, features) ==
    LET metres == Round(MaxSwitchSpan(features), 10)
        loop == IF metres = 0 THEN 2890 ELSE 10 * metres
        speeds == Speeds(ways)
        through == IF speeds = <<>> THEN 70 ELSE MostCommon(speeds)
        passing == IF speeds = <<>> THEN 50 ELSE Min(ToSet(speeds))
    IN [blocks |-> {Block("west_approach", ApproachLength, through, FALSE, "approach"),
                    Block("loop_t1", loop, through, TRUE, "loop"),
                    Block("loop_t2", loop, passing, FALSE, "loop"),
                    Block("east_approach", ApproachLength, through, FALSE, "approach")},
        routes |-> ZoneRoutes,
        signals |-> features.signals,
        switches |-> features.switches]

BlockOf(zone, id) == CHOOSE b \in zone.blocks : b.id = id

\* MicroZone.validate: the zone has no structural problem.
Validates(zone) ==
    LET ids == {b.id : b \in zone.blocks}
    IN /\ \A kind \in {"loop", "approach"} : Cardinality({b \in zone.blocks : b.kind = kind}) = 2
       /\ \E b \in zone.blocks : b.hasPlatform
       /\ \A b \in zone.blocks : b.length > 0
       /\ \A r \in zone.routes :
            /\ ToSet(r.blocks) \subseteq ids
            /\ Mapped(r.blocks, LAMBDA id : BlockOf(zone, id).kind)
                 = <<"approach", "loop", "approach">>

-----------------------------------------------------------------------------
\* The speed limit of a block in cm/s, capped by the train.
Limit(block) == (Min({block.maxSpeed, TrainSpeed}) * 1000) \div 36

\* A block's part of the grid: its steps, each `length` cm long at one limit.
GridSteps(block) ==
    LET steps == Max({1, (block.length + Dx - 1) \div Dx})
    IN [i \in 1..steps |-> [length |-> (10 * block.length) \div steps, limit |-> Limit(block)]]

\* The fastest speed at the end of a step begun at v, and the fastest at the
\* beginning of a step from which the train can brake to v.
Reach(v, step) == Isqrt(Square(v) + 2 * Accel * step.length)
Brakeable(v, step) == Isqrt(Square(v) + 2 * Decel * step.length)

\* Scanned(seq, first, Op) is first followed by the running results of Op:
\* those of the n elements from the i-th are those of either half.
Scanned(seq, first, Op(_, _)) ==
    LET scan[<<i, n, x>> \in Nat \X Nat \X Int] ==
            IF n <= 1 THEN IF n = 0 THEN <<>> ELSE <<Op(x, seq[i])>>
            ELSE LET half == n \div 2
                     left == scan[<<i, half, x>>]
                 IN left \o scan[<<i + half, n - half, left[half]>>]
    IN <<first>> \o scan[<<1, Len(seq), first>>]

\* The forward pass: node k + 1 ends step k.
Accelerated(grid, entry) ==
    Scanned(grid, Min({entry, grid[1].limit}), LAMBDA v, step : Min({step.limit, Reach(v, step)}))

\* The backward pass, from the exit.
Braked(grid, v, exit) ==
    LET n == Len(grid)
        back == Scanned([i \in 1..n |-> n + 1 - i], Min({v[n + 1], exit}),
                        LAMBDA s, k : Min({v[k], Brakeable(s, grid[k])}))
    IN Reverse(back)

\* The times at the nodes; a step without speed takes no time.
Integrated(grid, v, start) ==
    Scanned([k \in 1..Len(grid) |-> k], start, LAMBDA t, k :
        t + (IF v[k] + v[k + 1] = 0 THEN 0 ELSE (2000 * grid[k].length) \div (v[k] + v[k + 1])))

\* The trajectory with its grid: the nodes' speeds and times, and per block
\* the nodes where it begins and ends.
MicroTrajectory(zone, route, start, entry, exit) ==
    LET blocks == Mapped(route.blocks, LAMBDA id : BlockOf(zone, id))
        grid == FlattenSeq(Mapped(blocks, GridSteps))
        v == Braked(grid, Accelerated(grid, entry), exit)
        ends == Scanned(blocks, 1, LAMBDA node, b : node + Len(GridSteps(b)))
        t == Integrated(grid, v, start)
    IN [grid |-> grid, v |-> v, t |-> t,
        traversals |->
            [i \in DOMAIN blocks |->
                [block |-> blocks[i].id,
                 enter |-> t[ends[i]], exit |-> t[ends[i + 1]],
                 enterNode |-> ends[i], exitNode |-> ends[i + 1],
                 exitSpeed |-> v[ends[i + 1]]]]]

\* Mutant: a block is reserved when the train reaches it.
BlockingTimesFromEntry(traversals) ==
    [i \in DOMAIN traversals |->
        LET tr == traversals[i]
        IN [block |-> tr.block, start |-> tr.enter - Setup,
            end |-> tr.exit + (10000 * TrainLength) \div Max({tr.exitSpeed, 100}) + Release]]

\* The blocking interval of each block: from the approach signal, which is the
\* entry of the previous block, until the train has cleared it.
BlockingTimesOf(traversals) ==
    [i \in DOMAIN traversals |->
        LET tr == traversals[i]
            approach == IF i > 1 THEN traversals[i - 1].enter ELSE tr.enter
            clearing == (10000 * TrainLength) \div Max({tr.exitSpeed, 100})
        IN [block |-> tr.block, start |-> approach - Setup, end |-> tr.exit + clearing + Release]]

\* minimum_headway_s: the most any shared block asks for.
MinimumHeadway(leader, follower) ==
    LET shared == {<<b, f>> \in ToSet(leader) \X ToSet(follower) : b.block = f.block}
    IN IF shared = {} THEN 0 ELSE Max({p[1].end - p[2].start : p \in shared})
=============================================================================
