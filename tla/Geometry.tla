------------------------------- MODULE Geometry -------------------------------
(* The polygons of a region snapshot: what the server accepts               *)
(* (region_geometry.py), what the page lets its user save                   *)
(* (regionGeometry.ts), and which overlaps it warns of.  Coordinates are    *)
(* integers, so every test is exact; a polygon is a sequence of vertices.   *)
(* Labels are not modelled.                                                 *)
EXTENDS Integers, Sequences, FiniteSets

CONSTANTS
    PpmMax,         \* coordinates are in 0..PpmMax
    MaxVertices,    \* of a region
    MaxRegions,     \* of a snapshot
    MinAreaTwice

ASSUME GeometryAssumption ==
    /\ {PpmMax, MaxVertices, MaxRegions} \subseteq Nat
    /\ MinAreaTwice \in Nat \ {0}    \* else a polygon without an inside is accepted

Grid == (0..PpmMax) \X (0..PpmMax)

Lesser(x, y) == IF x < y THEN x ELSE y
Greater(x, y) == IF x < y THEN y ELSE x

-----------------------------------------------------------------------------
Cross(a, b, c) == (b[1] - a[1]) * (c[2] - a[2]) - (b[2] - a[2]) * (c[1] - a[1])

Orientation(a, b, c) ==
    LET value == Cross(a, b, c) IN IF value > 0 THEN 1 ELSE IF value < 0 THEN -1 ELSE 0

OnSegment(a, b, point) ==
    /\ \A axis \in {1, 2} : /\ Lesser(a[axis], b[axis]) <= point[axis]
                            /\ point[axis] <= Greater(a[axis], b[axis])
    /\ Orientation(a, b, point) = 0

(* Faulty variant: a touching or collinear pair does not intersect.         *)
ProperlyCross(a, b, c, d) ==
    /\ Orientation(a, b, c) * Orientation(a, b, d) < 0
    /\ Orientation(c, d, a) * Orientation(c, d, b) < 0

SegmentsIntersect(a, b, c, d) ==
    \/ /\ Orientation(a, b, c) # Orientation(a, b, d)
       /\ Orientation(c, d, a) # Orientation(c, d, b)
    \/ OnSegment(a, b, c) \/ OnSegment(a, b, d) \/ OnSegment(c, d, a) \/ OnSegment(c, d, b)

-----------------------------------------------------------------------------
(* Edge i runs from vertex i to the next one, the last one to the first.    *)
Following(i, polygon) == IF i = Len(polygon) THEN 1 ELSE i + 1
Edges(polygon) == {<<polygon[i], polygon[Following(i, polygon)]>> : i \in DOMAIN polygon}

Intersect(e, f) == SegmentsIntersect(e[1], e[2], f[1], f[2])

AreaTwice(polygon) ==
    LET twice[i \in 0..Len(polygon)] ==
            IF i = 0 THEN 0
            ELSE LET p == polygon[i]  q == polygon[Following(i, polygon)]
                 IN  twice[i - 1] + p[1] * q[2] - q[1] * p[2]
    IN  IF twice[Len(polygon)] < 0 THEN -twice[Len(polygon)] ELSE twice[Len(polygon)]

(* The pairs of edges that are compared: neighbours are not.                *)
ComparedEdges(polygon) ==
    {pair \in (DOMAIN polygon) \X (DOMAIN polygon) :
        /\ pair[1] < pair[2]
        /\ Following(pair[1], polygon) # pair[2] /\ Following(pair[2], polygon) # pair[1]}

Crosses(polygon) ==
    \E pair \in ComparedEdges(polygon) :
        SegmentsIntersect(polygon[pair[1]], polygon[Following(pair[1], polygon)],
                          polygon[pair[2]], polygon[Following(pair[2], polygon)])

(* The first two checks of both sides.                                      *)
WellFormed(polygon) ==
    /\ Len(polygon) \in 3..MaxVertices
    /\ \A i \in DOMAIN polygon : polygon[i] \in Grid
    /\ \A i \in DOMAIN polygon : polygon[i] # polygon[Following(i, polygon)]

(* _validate_simple_polygon.                                                *)
ValidPolygon(polygon) ==
    /\ WellFormed(polygon)
    /\ \A i, j \in DOMAIN polygon : polygon[i] = polygon[j] => i = j
    /\ ~Crosses(polygon)
    /\ AreaTwice(polygon) >= MinAreaTwice

(* validateRegionDrafts: a vertex that is used twice is not looked for.     *)
PageAccepts(polygon) ==
    WellFormed(polygon) /\ ~Crosses(polygon) /\ AreaTwice(polygon) >= MinAreaTwice

-----------------------------------------------------------------------------
(* _point_in_polygon: on an edge, or an odd number of edges to its right.   *)
(* x < the abscissa of the edge at y, without the fraction.                 *)
LeftOf(point, e) ==
    LET rise == e[1][2] - e[2][2]
        run  == (e[1][1] - e[2][1]) * (point[2] - e[2][2])
    IN  IF rise > 0 THEN (point[1] - e[2][1]) * rise < run
                    ELSE (point[1] - e[2][1]) * rise > run

PointInPolygon(point, polygon) ==
    \/ \E e \in Edges(polygon) : OnSegment(e[1], e[2], point)
    \/ Cardinality({e \in Edges(polygon) :
           (e[2][2] > point[2]) # (e[1][2] > point[2]) /\ LeftOf(point, e)}) % 2 = 1

(* polygons_overlap: of each polygon only the first vertex is looked up.    *)
PolygonsOverlap(p, q) ==
    \/ \E e \in Edges(p), f \in Edges(q) : Intersect(e, f)
    \/ PointInPolygon(p[1], q) \/ PointInPolygon(q[1], p)

(* validate_region_snapshot.  A region has a stable key, a layer z and a    *)
(* polygon; the warnings name the lower region first.                       *)
ValidSnapshot(regions) ==
    /\ Len(regions) <= MaxRegions
    /\ \A i, j \in DOMAIN regions :
          regions[i].key = regions[j].key \/ regions[i].z = regions[j].z => i = j
    /\ \A i \in DOMAIN regions : ValidPolygon(regions[i].polygon)

OverlapWarnings(regions) ==
    LET drawn == {regions[i] : i \in DOMAIN regions}
        overlapping == {pair \in drawn \X drawn :
                           /\ pair[1].z < pair[2].z
                           /\ PolygonsOverlap(pair[1].polygon, pair[2].polygon)}
    IN  {<<pair[1].key, pair[2].key>> : pair \in overlapping}

-----------------------------------------------------------------------------
(* Reference definitions, in terms of points.  Two segments that meet in    *)
(* one point do so at multiples of 1/scale of their lengths; parallel ones  *)
(* of up to four steps on the grid meet at twelfths of them.                *)
Steps(e, f) ==
    LET slope == (e[2][1] - e[1][1]) * (f[2][2] - f[1][2])
                 - (e[2][2] - e[1][2]) * (f[2][1] - f[1][1])
    IN  IF slope = 0 THEN 12 ELSE IF slope < 0 THEN -slope ELSE slope

PointsOf(e, scale) ==
    {<<scale * e[1][1] + k * (e[2][1] - e[1][1]), scale * e[1][2] + k * (e[2][2] - e[1][2])>> :
        k \in 0..scale}

Common(e, f) == PointsOf(e, Steps(e, f)) \cap PointsOf(f, Steps(e, f))

(* A closed curve that does not touch itself: neighbouring edges have one   *)
(* point in common, all others none.                                        *)
Simple(polygon) ==
    LET edge(i) == <<polygon[i], polygon[Following(i, polygon)]>>
    IN  /\ \A i \in DOMAIN polygon : edge(i)[1] # edge(i)[2]
        /\ \A i, j \in DOMAIN polygon : i < j =>
              Cardinality(Common(edge(i), edge(j))) =
                  IF <<i, j>> \in ComparedEdges(polygon) THEN 0 ELSE 1

(* How often the curve winds around a point that is not on it.              *)
Winding(point, polygon) ==
    Cardinality({e \in Edges(polygon) : /\ e[1][2] <= point[2] /\ point[2] < e[2][2]
                                        /\ Cross(e[1], e[2], point) > 0})
    - Cardinality({e \in Edges(polygon) : /\ e[2][2] <= point[2] /\ point[2] < e[1][2]
                                          /\ Cross(e[1], e[2], point) < 0})

Inside(point, polygon) ==
    \/ \E e \in Edges(polygon) : Common(e, <<point, point>>) # {}
    \/ Winding(point, polygon) # 0

ShareAPoint(p, q) ==
    \/ \E e \in Edges(p), f \in Edges(q) : Common(e, f) # {}
    \/ \E i \in DOMAIN p : Inside(p[i], q)
    \/ \E i \in DOMAIN q : Inside(q[i], p)

-----------------------------------------------------------------------------
(* Bound: the polygons of SimpleCurves are drawn on nine points, and one    *)
(* starting vertex stands for its mirror images.                            *)
Drawn == (0..2) \X (0..2)
Starts == {<<0, 0>>, <<0, 1>>, <<1, 1>>}

SimpleCurves ==
    \A n \in 3..MaxVertices : \A start \in Starts, rest \in [1..(n - 1) -> Drawn] :
        LET p == <<start>> \o rest
        IN  /\ ValidPolygon(p) <=> Simple(p) /\ AreaTwice(p) >= MinAreaTwice
            /\ PageAccepts(p) <=> ValidPolygon(p)

Counterclockwise(n) == {p \in [1..n -> Drawn] :
                           ValidPolygon(p) /\ Cross(p[1], p[2], p[3]) > 0}

Placed(polygon, scale, shift) ==
    [i \in DOMAIN polygon |-> <<scale * polygon[i][1] + shift, scale * polygon[i][2] + shift>>]

Rank(point) == 3 * point[1] + point[2]

(* Bound: a triangle, in the corner or the middle of a grid of twenty-five  *)
(* points, and a polygon of four vertices twice as large.                   *)
Pairs ==
    {<<Placed(p, 1, shift), Placed(q, 2, 0)>> :
        p \in {t \in Counterclockwise(3) : \A i \in {2, 3} : Rank(t[1]) < Rank(t[i])},
        q \in {r \in Counterclockwise(4) : r[1] = <<0, 0>>}, shift \in {0, 1}}

Layered(p, q) == <<[key |-> 1, z |-> 2, polygon |-> p], [key |-> 2, z |-> 1, polygon |-> q]>>

ExactWarnings ==
    \A pair \in Pairs :
        LET regions == Layered(pair[1], pair[2])
        IN  /\ ValidSnapshot(regions)
            /\ OverlapWarnings(regions) =
                   IF ShareAPoint(pair[1], pair[2]) THEN {<<2, 1>>} ELSE {}
=============================================================================
