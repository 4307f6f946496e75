-------------------------- MODULE ZonalStatistics ---------------------------
(***************************************************************************)
(* geo-common and geo-raster: statistics of the cells of a raster whose    *)
(* centres lie in a zone, and the tools of geo-raster.  Coordinates are    *)
(* whole numbers of half cells, so the centres are odd; a grid maps its    *)
(* centres to values, and a zone is a sequence of polygons, which are      *)
(* sequences of rings, the first one outside and the others holes.         *)
(***************************************************************************)
EXTENDS CogReader, Functions

NoData == 0
\* The quotient is not rounded: <<sum, count>>, or nothing.
NoStatistic == <<>>

-----------------------------------------------------------------------------
(* geometry.py                                                             *)

\* An edge of a ring: to a vertex from the one before.
EdgeAt(ring, i) == <<ring[i], ring[IF i = 1 THEN Len(ring) ELSE i - 1]>>

\* A mistake: an end on the ray counts from both sides.
StraddlesBoth(e, y) == (e[1][2] >= y) # (e[2][2] > y)
\* An edge of which one end lies above the point, and which the ray from the
\* point to the right meets.
Straddles(e, y) == (e[1][2] > y) # (e[2][2] > y)
Crosses(e, x, y) ==
    LET rise == e[2][2] - e[1][2]
        left == (x - e[1][1]) * rise
        right == (e[2][1] - e[1][1]) * (y - e[1][2])
    IN  Straddles(e, y) /\ IF rise > 0 THEN left < right ELSE left > right

\* _ring_contains: an odd number of crossings.
RingContains(ring, p) == Cardinality({i \in DOMAIN ring : Crosses(EdgeAt(ring, i), p[1], p[2])}) % 2 = 1
PointInPolygon(rings, p) ==
    RingContains(rings[1], p) /\ \A i \in 2..Len(rings) : ~RingContains(rings[i], p)
PointInGeometry(polygons, p) == \E i \in DOMAIN polygons : PointInPolygon(polygons[i], p)

Vertices(polygons) == UNION {UNION {Range(polygons[i][j]) : j \in DOMAIN polygons[i]} :
                                i \in DOMAIN polygons}
GeometryBbox(polygons) ==
    LET xs == {v[1] : v \in Vertices(polygons)}
        ys == {v[2] : v \in Vertices(polygons)}
    IN  <<Min(xs), Min(ys), Max(xs), Max(ys)>>

-----------------------------------------------------------------------------
(* zonal.py, and zonal_fast.py with its candidates from the bounding box.  *)

Valid(grid) == {p \in DOMAIN grid : grid[p] # NoData}
OverlappingPure(grid, polygons) == {p \in Valid(grid) : PointInGeometry(polygons, p)}
OverlappingFast(grid, polygons) ==
    LET b == GeometryBbox(polygons)
        candidates == {p \in Valid(grid) : /\ p[1] \in b[1]..b[3]
                                           /\ p[2] \in b[2]..b[4]}
    IN  {p \in candidates : PointInGeometry(polygons, p)}

\* All but "std".
StatisticValue(name, grid, cells) ==
    LET values == {grid[p] : p \in cells}
        sum == FoldSet(LAMBDA p, so : so + grid[p], 0, cells)
    IN  CASE cells = {} -> NoStatistic
          [] name = "count" -> <<Cardinality(cells)>>
          [] name = "sum" -> <<sum>>
          [] name = "min" -> <<Min(values)>>
          [] name = "max" -> <<Max(values)>>
          [] name = "mean" -> <<sum, Cardinality(cells)>>
STATISTICS == {"count", "sum", "min", "max", "mean"}

ZoneStat(grid, polygons) ==
    LET cells == OverlappingFast(grid, polygons)
    IN  [cells |-> cells, no_data |-> cells = {},
         statistics |-> [name \in STATISTICS |-> StatisticValue(name, grid, cells)]]

\* _zones_bbox: one window of the raster, the whole cells that the box of all the
\* zones meets, is read for all of them.
ZonesBbox(zones) == GeometryBbox(FlattenSeq(zones))
WindowOf(grid, zones) ==
    LET b == ZonesBbox(zones)
    IN  Restrict(grid, {p \in DOMAIN grid : /\ b[1] < p[1] + 1 /\ p[1] - 1 < b[3]
                                            /\ b[2] < p[2] + 1 /\ p[2] - 1 < b[4]})
ZonalStatistics(grid, zones) == [i \in DOMAIN zones |-> ZoneStat(WindowOf(grid, zones), zones[i])]

-----------------------------------------------------------------------------
(* The tools of geo-raster.                                                *)

\* zonal_statistics: without a zone nothing is read.
ZonalCall(in) ==
    IF in.zones = 0 /\ "stats" \notin in.wrong THEN Returned(<<>>, <<>>)
    ELSE Staged(<<CheckOf(in, {"stats"}), CheckOf(in, {"zones"}), CheckOf(in, {"raster_href", "band"})>>
                \o ReadStages(in), <<ReadValue(in), in.zones>>)

ReadWindowCall(in) ==
    Staged(<<CheckOf(in, {"raster_href"}), CheckOf(in, {"window"})>> \o ReadWindowStages(in), "cells")
BandMathCall(in) ==
    Staged(<<CheckOf(in, {"raster_href"}), CheckOf(in, {"window"}), CheckOf(in, {"expression"})>>
           \o ReadWindowStages(in), "cells")

\* zonal_band_math reads every referenced band in order, and needs them aligned.
ZonalBandMathCall(in) ==
    IF in.zones = 0 /\ in.wrong \cap {"stats", "assets", "expression"} = {}
    THEN Returned(<<>>, <<>>)
    ELSE Staged(<<CheckOf(in, {"stats"}), CheckOf(in, {"assets"}), CheckOf(in, {"expression"}),
                  CheckOf(in, {"zones"}), CheckOf(in, {"raster_href"})>>
                \o ReadStages(in) \o ReadStages(in) \o <<CheckThat(in.aligned, "validation")>>,
                <<ReadValue(in), in.zones>>)

-----------------------------------------------------------------------------

\* The zones that are looked at: a rectangle that is cut along a border, from its lower
\* side to its upper, into a zone on the left and one on the right; or a rectangle with
\* a hole, and what fills the hole.
RingWithin(ring, low, high) ==
    ring \in [1..Len(ring) -> (low[1]..high[1]) \X (low[2]..high[2])] /\ Len(ring) \in Nat \ {0}
FrameOf(low, high) == <<low, <<high[1], low[2]>>, high, <<low[1], high[2]>>>>
CutOf(left, right, low, high) ==
    LET n == Len(left)
    IN  /\ RingWithin(left, low, high) /\ RingWithin(right, low, high) /\ n >= 4 /\ Len(right) = n
        /\ left[1] = low /\ left[n] = <<low[1], high[2]>>
        /\ left[2][2] = low[2] /\ left[n - 1][2] = high[2]
        /\ right[1] = left[2] /\ right[2] = <<high[1], low[2]>> /\ right[3] = high
        /\ \A i \in 4..n : right[i] = left[n + 3 - i]
SplitOf(split) ==
    LET low == split.frame[1][1][1]
        high == split.frame[1][1][3]
        frame == FrameOf(low, high)
        right == split.right[1][1]
    IN  /\ low \in Int \X Int /\ high \in Int \X Int /\ low[1] <= high[1] /\ low[2] <= high[2]
        /\ split.frame = <<<<frame>>>> /\ split.right = <<<<right>>>>
        /\ \/ split.left = <<<<frame, right>>>> /\ RingWithin(right, low, high)
           \/ split.left = <<<<split.left[1][1]>>>> /\ CutOf(split.left[1][1], right, low, high)

\* Of two zones that share an edge, a cell of the frame of both is in exactly one,
\* for a shared vertex and for a hole and what fills it as well; the statistics of
\* the two add up to those of the frame.
ZonesShareOut(grid, split, out) ==
    LET left == out[1].cells
        right == out[2].cells
        whole == OverlappingPure(grid, split.frame)
        Stat(i, name) == out[i].statistics[name]
        Whole(name) == StatisticValue(name, grid, whole)
    IN  /\ left \cap right = {} /\ left \cup right = whole
        /\ left = OverlappingPure(grid, split.left)
        /\ out[1].no_data /\ out[2].no_data <=> whole = {}
        /\ ~out[1].no_data /\ ~out[2].no_data =>
              /\ \A name \in {"count", "sum"} : Stat(1, name)[1] + Stat(2, name)[1] = Whole(name)[1]
              /\ Whole("min")[1] = Lesser(Stat(1, "min")[1], Stat(2, "min")[1])
              /\ Whole("max")[1] = Greater(Stat(1, "max")[1], Stat(2, "max")[1])

=============================================================================
