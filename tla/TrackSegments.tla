---------------------------- MODULE TrackSegments ----------------------------
(***************************************************************************)
(* dbsim.model.segments: the tracks between consecutive stations, counted  *)
(* from the rail ways along the straight line between them.  That line is  *)
(* the x axis and every way runs beside it, at one y, so that shapely's    *)
(* buffers, projections and cross-sections are intervals.                  *)
(***************************************************************************)
EXTENDS OpenStreetMap, TLC

CONSTANTS
    CorridorBuffer,   \* corridor_buffer_m: ways farther from the line are not looked at
    HalfWidth,        \* half_width_m of a cross-section
    NSamples          \* n_samples: the cross-sections of a segment

\* The integer square root, bit by bit.
WithBit(r, b, n) == IF (r + b) * (r + b) <= n THEN r + b ELSE r

Isqrt(n) ==
    LET root[i \in 0..15] == IF i = 0 THEN 0 ELSE WithBit(root[i - 1], 2 ^ (15 - i), n)
    IN root[15]

Square(n) == n * n

\* A way with the line it is projected to; a line without length is dropped.
ProjectedWays(ways) ==
    LET Line(w) == LET xs == {p.x : p \in ToSet(w.geometry)}
                   IN [way |-> w, west |-> Min(xs), east |-> Max(xs), y |-> w.geometry[1].y]
    IN SelectSeq(Mapped(ways, Line), LAMBDA l : l.east > l.west)

\* The length of a line within the buffer of the chord; negative outside.
LengthWithin(line, a, b) ==
    IF Square(line.y) > Square(CorridorBuffer) THEN -1
    ELSE LET cap == Isqrt(Square(CorridorBuffer) - Square(line.y))
         IN Min({line.east, b + cap}) - Max({line.west, a - cap})

\* The ref with the most track in the buffer; the first one on the map of equals.
DominantRef(cands, a, b) ==
    LET refs == {l.way.ref : l \in ToSet(cands)} \ {None}
        length == [ref \in refs |-> FoldLeft(LAMBDA sum, l :
                      sum + (IF l.way.ref = ref THEN LengthWithin(l, a, b) ELSE 0), 0, cands)]
        FirstOf(ref) == SelectInSeq(cands, LAMBDA l : l.way.ref = ref)
    IN IF refs = {} THEN None
       ELSE CHOOSE ref \in refs : \A other \in refs :
                \/ length[ref] > length[other]
                \/ length[ref] = length[other] /\ FirstOf(ref) <= FirstOf(other)

\* Where a line is nearest to a point of the chord, and the square of how near.
NearestX(line, x) == Max({line.west, Min({line.east, x})})
Distance2(line, x) == Square(NearestX(line, x) - x) + Square(line.y)

Nearest(lines, x) ==
    CHOOSE i \in DOMAIN lines : \A j \in DOMAIN lines :
        \/ Distance2(lines[i], x) < Distance2(lines[j], x)
        \/ Distance2(lines[i], x) = Distance2(lines[j], x) /\ i <= j

\* The tracks a cross-section through a line at x meets; a way counts as its
\* `tracks` tag says, as one without it.
CrossSection(lines, line, x) ==
    FoldLeft(LAMBDA sum, l :
                IF x \in l.west..l.east /\ l.y - line.y \in -HalfWidth..HalfWidth
                THEN sum + (IF l.way.tracks \in {None, 0} THEN 1 ELSE l.way.tracks)
                ELSE sum, 0, lines)

\* int(statistics.median(...))
Median(counts) ==
    LET sorted == SortSeq(counts, <)
        n == Len(counts)
    IN IF n % 2 = 1 THEN sorted[(n + 1) \div 2]
                    ELSE (sorted[n \div 2] + sorted[n \div 2 + 1]) \div 2

CountTracks(a, b, lines) ==
    LET Sample(i) == a + ((b - a) * i) \div (NSamples + 1)
        Count(i) == LET line == lines[Nearest(lines, Sample(i))]
                    IN IF Distance2(line, Sample(i)) > Square(CorridorBuffer) THEN 0
                       ELSE CrossSection(lines, line, NearestX(line, Sample(i)))
        positive == SelectSeq([i \in 1..NSamples |-> Count(i)], LAMBDA c : c > 0)
    IN IF positive = <<>> THEN 0 ELSE Median(positive)

ClassifySegment(from, to, projected) ==
    LET a == from.at.x
        b == to.at.x
        cands == SelectSeq(projected, LAMBDA l : LengthWithin(l, a, b) >= 0)
        ref == DominantRef(cands, a, b)
        lines == SelectSeq(cands, LAMBDA l : l.way.ref = ref)
        speeds == {l.way.maxSpeed : l \in ToSet(lines)} \ {None, 0}
        segment == [from |-> from.name, to |-> to.name, length |-> b - a]
    IN IF cands = <<>>
       THEN segment @@ [tracks |-> 0, ref |-> None, electrified |-> FALSE, maxSpeed |-> None]
       ELSE segment @@
            [tracks |-> CountTracks(a, b, lines),
             ref |-> ref,
             electrified |-> \E l \in ToSet(lines) : l.way.electrified,
             maxSpeed |-> IF speeds = {} THEN None ELSE Max(speeds)]

\* The stations of a corridor are in the order of x.
BuildCorridorSegments(stations, ways) ==
    [i \in 1..(Len(stations) - 1) |->
        ClassifySegment(stations[i], stations[i + 1], ProjectedWays(ways))]
=============================================================================
