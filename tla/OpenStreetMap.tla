---------------------------- MODULE OpenStreetMap ----------------------------
(***************************************************************************)
(* dbsim.ingest.osm: Overpass elements become rail ways and point          *)
(* features.  A position is [x, y] on the plane the map is projected to, a *)
(* tag value that is a number is the sequence of its characters, a digit   *)
(* as itself and any other character as NotADigit.                         *)
(***************************************************************************)
EXTENDS Integers, Sequences, SequencesExt, FiniteSetsExt

CONSTANT None

NotADigit == -1

\* dict.get(key)
Tag(element, key) == IF key \in DOMAIN element.tags THEN element.tags[key] ELSE None

\* The digits of a value, whatever stands between them: "80;60" is 8060.
ParseInt(value) ==
    LET digits == IF value = None THEN <<>> ELSE SelectSeq(value, LAMBDA c : c # NotADigit)
    IN IF digits = <<>> THEN None ELSE FoldLeft(LAMBDA n, d : 10 * n + d, 0, digits)

IsWay(element) == element.type = "way" /\ Len(element.geometry) >= 2

ToRailway(element) ==
    [id |-> element.id,
     ref |-> Tag(element, "ref"),
     tracks |-> ParseInt(Tag(element, "tracks")),
     electrified |-> Tag(element, "electrified") \notin {"no", None},
     maxSpeed |-> ParseInt(Tag(element, "maxspeed")),
     geometry |-> element.geometry]

Mapped(seq, Op(_)) == [i \in DOMAIN seq |-> Op(seq[i])]

ParseOverpass(elements) == Mapped(SelectSeq(elements, IsWay), ToRailway)

-----------------------------------------------------------------------------
FeatureKinds ==
    {"signal", "switch", "buffer_stop", "railway_crossing", "crossing", "derail"}

SignalTypes == <<"main", "distant", "combined", "shunting", "crossing", "minor">>

\* The first of the types a signal is tagged with.
SignalType(element) ==
    LET tagged == {i \in DOMAIN SignalTypes : SignalTypes[i] \in DOMAIN element.tags}
    IN IF tagged = {} THEN None ELSE SignalTypes[Min(tagged)]

IsFeature(element) == element.type = "node" /\ Tag(element, "railway") \in FeatureKinds

ToFeature(element) ==
    LET signal == Tag(element, "railway") = "signal"
    IN [id |-> element.id,
        kind |-> Tag(element, "railway"),
        at |-> element.at,
        signalType |-> IF signal THEN SignalType(element) ELSE None,
        direction |-> IF signal THEN Tag(element, "direction") ELSE None]

OfKind(nodes, kinds) == SelectSeq(nodes, LAMBDA n : n.kind \in kinds)

ParseRailwayFeatures(elements) ==
    LET nodes == Mapped(SelectSeq(elements, IsFeature), ToFeature)
    IN [signals |-> OfKind(nodes, {"signal"}),
        switches |-> OfKind(nodes, {"switch"}),
        bufferStops |-> OfKind(nodes, {"buffer_stop"}),
        crossings |-> OfKind(nodes, {"crossing", "railway_crossing"})]

-----------------------------------------------------------------------------
\* Mutant: no margin around the stations.
BboxOfTheStations(places, margin) ==
    [west |-> Min({p.x : p \in places}), east |-> Max({p.x : p \in places}),
     south |-> Min({p.y : p \in places}), north |-> Max({p.y : p \in places})]

BboxAround(places, margin) ==
    [west |-> Min({p.x : p \in places}) - margin, east |-> Max({p.x : p \in places}) + margin,
     south |-> Min({p.y : p \in places}) - margin, north |-> Max({p.y : p \in places}) + margin]

Within(at, bbox) ==
    at.x \in bbox.west..bbox.east /\ at.y \in bbox.south..bbox.north

\* A way runs east and west: it is in the box when some stretch of it is.
Crosses(element, bbox) ==
    LET xs == {p.x : p \in ToSet(element.geometry)}
    IN /\ \E p \in ToSet(element.geometry) : p.y \in bbox.south..bbox.north
       /\ Max(xs) >= bbox.west /\ Min(xs) <= bbox.east

\* What the Overpass server answers to a query on a map: the rail ways that
\* cross the box, or the point features in it.
Extract(elements, query) ==
    SelectSeq(elements, LAMBDA e :
        IF query.kind = "rail" THEN e.type = "way" /\ Crosses(e, query.bbox)
                               ELSE e.type = "node" /\ Within(e.at, query.bbox))
=============================================================================
