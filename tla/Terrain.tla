------------------------------- MODULE Terrain ------------------------------
(***************************************************************************)
(* geo-terrain: elevations of a point or of a grid of points, asked in     *)
(* batches, what is derived from such a grid, and statistics of published  *)
(* elevation tiles over zones.                                             *)
(***************************************************************************)
EXTENDS CogReader

\* The locations of a request (100 in the code).
CONSTANT Batch
ASSUME TerrainAssumption == Batch \in Nat \ {0}

-----------------------------------------------------------------------------
(* elevation.py                                                            *)

\* The order of the grid's points: rows from the north, each from the west.
GridPoints(width, height) == [k \in 1..(width * height) |-> <<(k - 1) \div width, (k - 1) % width>>]

\* A batch and what the reply to it is: an elevation for each location or, of a
\* source that breaks its word, for some.
Batches(points) == [b \in 1..CeilDiv(Len(points), Batch) |->
                       SubSeq(points, (b - 1) * Batch + 1, Lesser(b * Batch, Len(points)))]
ParseResults(batch, missing) == Take(batch, Len(batch) - missing)
SampleAll(points, missing) ==
    LET batch == Batches(points)
        sampled[b \in 0..Len(batch)] ==
          IF b = 0 THEN <<>>
          ELSE sampled[b - 1] \o ParseResults(batch[b], IF b = 1 THEN missing ELSE 0)
    IN  sampled[Len(batch)]
\* The flat list is cut into rows, of which the last may come out short.
GridRows(flat, width, height) ==
    [r \in 1..height |-> SubSeq(flat, (r - 1) * width + 1, Lesser(r * width, Len(flat)))]

SampleStages(in, n) ==
    [b \in 1..CeilDiv(n, Batch) |-> Ask(in.source, IF b = in.failing THEN Understood(in.answer) ELSE "ok")]
ElevationStages(in) ==
    <<CheckOf(in, {"source"}), CheckOf(in, {"location"})>> \o SampleStages(in, in.width * in.height)
\* A point without an elevation is an error, in a grid it is a hole.
Elevation(in) ==
    IF in.point THEN Staged(<<CheckOf(in, {"source"}), CheckOf(in, {"location"})>> \o SampleStages(in, 1)
                            \o <<CheckThat(in.known, "upstream")>>, "elevation")
    ELSE Staged(ElevationStages(in), GridRows(SampleAll(GridPoints(in.width, in.height), in.missing),
                                              in.width, in.height))
\* slope, aspect, hillshade
Derived(in) ==
    Staged(<<CheckOf(in, {"angles"})>>
           \o (IF in.point THEN Head(<<SampleStages(in, 1)>>) ELSE ElevationStages(in))
           \o <<CheckThat(~in.point /\ in.width >= 2 /\ in.height >= 2, "validation")>>, "grid")

-----------------------------------------------------------------------------
(* derivatives.py: the gradient is central inside and one-sided at the     *)
(* edges (given twofold); north is positive, rows count to the south.      *)

Slopes(v) ==
    LET n == Len(v)
    IN  [i \in 1..n |-> IF i = 1 THEN 2 * (v[2] - v[1]) ELSE IF i = n THEN 2 * (v[n] - v[n - 1])
                        ELSE v[i + 1] - v[i - 1]]
East(z, r, c) == Slopes(z[r])[c]
\* A mistake: rows are taken to count to the north.
NorthTurned(z, r, c) == Slopes([i \in DOMAIN z |-> z[i][c]])[r]
North(z, r, c) == 0 - Slopes([i \in DOMAIN z |-> z[i][c]])[r]
\* The quarter of the compass that the ground falls to.
FLAT_ASPECT == 0 - 1
Aspect(z, r, c) ==
    LET e == East(z, r, c)
        n == North(z, r, c)
    IN  IF e = 0 /\ n = 0 THEN FLAT_ASPECT
        ELSE IF e < 0 /\ n <= 0 THEN (IF n = 0 THEN 90 ELSE 45)
        ELSE IF e <= 0 /\ n > 0 THEN (IF e = 0 THEN 180 ELSE 135)
        ELSE IF e > 0 /\ n >= 0 THEN (IF n = 0 THEN 270 ELSE 225)
        ELSE IF e = 0 THEN 0 ELSE 315

-----------------------------------------------------------------------------
(* dem_sources.py: one published tile per degree, named by its south-west  *)
(* corner; box is in parts of a degree, of which there are per.            *)

ResolveTiles(box, per) ==
    LET Cells(low, high) == (low \div per)..(CeilDiv(high, per) - 1)
    IN  Cells(box[2], box[4]) \X Cells(box[1], box[3])

\* _mosaic: grids of one pixel size into one; of two values the later stays. A
\* grid is an origin and values by <<row, column>>; Lost is a nodata of its own.
Lost == 0 - 1
Top(grids) == Min({g.row : g \in ToSet(grids)})
Left(grids) == Min({g.col : g \in ToSet(grids)})
\* What a grid has at a place of the mosaic, and what the grids laid one upon the
\* other show there.
Held(g, place) == IF place \in DOMAIN g.values THEN g.values[place] ELSE Lost
PlaceIn(grids, g, p) == <<p[1] + Top(grids) - g.row, p[2] + Left(grids) - g.col>>
Stitched(grids, p) ==
    LET seen[k \in 0..Len(grids)] ==
          IF k = 0 THEN Lost
          ELSE IF Held(grids[k], PlaceIn(grids, grids[k], p)) = Lost THEN seen[k - 1]
          ELSE Held(grids[k], PlaceIn(grids, grids[k], p))
    IN  seen[Len(grids)]
Mosaic(grids) ==
    LET height == Max({g.row + g.height : g \in ToSet(grids)}) - Top(grids)
        width == Max({g.col + g.width : g \in ToSet(grids)}) - Left(grids)
    IN  [row |-> Top(grids), col |-> Left(grids), height |-> height, width |-> width,
         values |-> [p \in (0..(height - 1)) \X (0..(width - 1)) |-> Stitched(grids, p)]]

DemZonal(in) ==
    IF in.wrong \cap {"measure", "dem"} # {} THEN Refused
    ELSE IF in.zones = 0 THEN Returned(<<>>, <<>>)
    ELSE Staged(<<CheckOf(in, {"zones"})>> \o ReadStages(in)
                \o (IF in.published THEN ReadStages(in) \o <<CheckThat(in.aligned, "validation")>>
                    ELSE <<>>)
                \o <<CheckThat(in.measure = "elevation" \/ in.overlaps, "validation"),
                     CheckOf(in, {"pixel_size_m"}), CheckOf(in, {"stats"})>>, <<ReadValue(in), in.zones>>)

-----------------------------------------------------------------------------

TerrainInputs ==
    [wrong : WrongOne({"source", "location", "angles"}), source : {"srtm"}, point : BOOLEAN,
     known : BOOLEAN, width : 1..3, height : 1..2, missing : 0..1, failing : 0..2,
     answer : {"4xx", "shape", "network"}]

\* Where every reply has as many elevations as were asked for, each cell of the grid
\* is of its own point; a short reply moves those after it, and ends the grid short.
GridIsAligned(in, out) ==
    out.reply = "result" /\ ~in.point /\ (in.missing = 0 \/ in.width * in.height <= Batch) =>
      \A r \in 1..in.height, c \in 1..in.width :
         (in.missing = 0 \/ r * in.width < in.height * in.width) /\ c \in DOMAIN out.value[r]
            => out.value[r][c] = <<r - 1, c - 1>>

\* Ground that falls to the north looks north, and so on around: the aspect is the
\* side on which a neighbour is lower, where the ground is a plane.
Plane(e, n) == [r \in 1..3 |-> [c \in 1..3 |-> 10 + e * c - n * r]]
AspectLooksDown(e, n) ==
    LET a == Aspect(Plane(e, n), 2, 2)
    IN  /\ a = FLAT_ASPECT <=> e = 0 /\ n = 0
        /\ (a \in {0, 45, 315} <=> n < 0) /\ (a \in {135, 180, 225} <=> n > 0)
        /\ (a \in {45, 90, 135} <=> e < 0) /\ (a \in {225, 270, 315} <=> e > 0)

\* The published tiles cover a box that has an area, and none is read in vain.
TilesCover(box, per) ==
    LET Inside(p, t) == /\ t[2] * per <= p[1] /\ p[1] < (t[2] + 1) * per
                        /\ t[1] * per <= p[2] /\ p[2] < (t[1] + 1) * per
        cells == (box[1]..(box[3] - 1)) \X (box[2]..(box[4] - 1))
    IN  /\ \A p \in cells : \E t \in ResolveTiles(box, per) : Inside(p, t)
        /\ cells # {} => \A t \in ResolveTiles(box, per) : \E p \in cells : Inside(p, t)

\* Of grids that agree where they overlap, the mosaic is all of them.
MosaicIsWhole(grids) ==
    LET m == Mosaic(grids)
        At(g, p) == g.values[<<p[1] - g.row, p[2] - g.col>>]
    IN  \A g \in ToSet(grids), p \in (m.row..(m.row + m.height - 1)) \X (m.col..(m.col + m.width - 1)) :
          <<p[1] - g.row, p[2] - g.col>> \in DOMAIN g.values /\ At(g, p) # Lost =>
             m.values[<<p[1] - m.row, p[2] - m.col>>]
                \in {At(h, p) : h \in {h \in ToSet(grids) : <<p[1] - h.row, p[2] - h.col>> \in DOMAIN h.values}}
                    \ {Lost}

=============================================================================
