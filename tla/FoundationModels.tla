-------------------------- MODULE FoundationModels --------------------------
(***************************************************************************)
(* geo-foundation-models: embeddings of tiles and of windows of images,    *)
(* the change between two of them, as one number or as a grid, segments,   *)
(* and the published embeddings of an area.                                *)
(***************************************************************************)
EXTENDS CogReader

-----------------------------------------------------------------------------
(* Embedding.  A backend is the built-in stand-in, a remote endpoint or a  *)
(* function of the installation.                                           *)

StandIn == "deterministic-local"
\* A failing function is reported as a wrong argument.
BackendStage(in) ==
    CASE in.backend = StandIn -> Check("ok")
      [] in.backend = "remote" ->
             Ask("endpoint", IF in.vector = "ok" THEN "ok" ELSE "upstream")
      [] in.backend = "callable" ->
             Check(CASE in.vector = "ok" -> "ok" [] in.vector = "raises" -> "validation"
                     [] OTHER -> "upstream")

\* A vector of another length than the model's is refused as well.
EmbedStages(in) ==
    <<CheckOf(in, {"model"}), CheckOf(in, {"tile", "size"}), BackendStage(in),
      CheckThat(in.dimensionFits, "validation")>>
Embedding(in) == [backend |-> in.backend, structure_only |-> in.noPixels]
EmbedTile(in) == Staged(EmbedStages(in), Embedding(in))

\* embed_asset, embed_assets: the model and the size are looked at after the read.
ReadForEmbedding(in) == <<CheckOf(in, {"raster_href"}), CheckOf(in, {"bands"})>> \o ReadWindowStages(in)
EmbedAsset(in) == Staged(ReadForEmbedding(in) \o EmbedStages(in), Embedding(in))
ReadOneOf(in, first) ==
    <<Ask("head", RangeSays(in.head)), Check(OpenSays(in)), OutsideStage(in),
      CheckThat(first \/ in.aligned, "validation"), Ask("tiles", RangeSays(in.tiles))>>
EmbedAssets(in) ==
    Staged(<<CheckOf(in, {"assets"})>> \o ReadOneOf(in, TRUE) \o ReadOneOf(in, FALSE)
           \o EmbedStages(in), Embedding(in))

-----------------------------------------------------------------------------
(* Change.                                                                 *)

\* A number is no measurement where the stand-in embedded, or where there were no
\* pixels to embed.
Caveat(backend, structureOnly) == backend = StandIn \/ structureOnly
ChangeResult(in) ==
    [backend |-> in.backend, structure_only |-> in.noPixels,
     caveat |-> Caveat(in.backend, in.noPixels)]

\* The mode is one of hrefs and assets, and both dates are given in it.
DetectChangeFromAssets(in) ==
    Staged(<<CheckOf(in, {"mode"}), CheckOf(in, {"dates"})>>
           \o ReadForEmbedding(in) \o EmbedStages(in)
           \o ReadForEmbedding(in) \o EmbedStages(in), ChangeResult(in))

-----------------------------------------------------------------------------
(* change_map: the window is cut into tiles, the last ones smaller.        *)

GridCount(extent, size) == (extent + size - 1) \div size
ChangeGrid(win, size) ==
    {[col |-> win.col + c * size, row |-> win.row + r * size,
      width |-> Lesser(size, win.width - c * size), height |-> Lesser(size, win.height - r * size)] :
         c \in 0..(GridCount(win.width, size) - 1), r \in 0..(GridCount(win.height, size) - 1)}

Budget(in) ==
    GridCount(in.win.width, in.size) * GridCount(in.win.height, in.size) <= in.maxTiles
ChangeMap(in) ==
    Staged(<<CheckOf(in, {"raster_href", "tile_size", "max_tiles", "aoi_bbox", "bands"}),
             CheckThat(in.backend # StandIn \/ ~in.requireReal, "validation"),
             Ask("head", RangeSays(in.head)), Check(OpenSays(in)),
             Ask("head", RangeSays(in.head)), CheckThat(in.aligned, "validation"),
             CheckThat(in.bandExists, "validation"), OutsideStage(in),
             CheckThat(Budget(in), "validation"), Ask("tiles", RangeSays(in.tiles))>>
           \o EmbedStages(in),
           [caveat |-> Caveat(in.backend, in.noPixels), calibrated |-> in.backend # StandIn,
            cells |-> ChangeGrid(in.win, in.size)])

-----------------------------------------------------------------------------
(* segment                                                                 *)

InBox(b, x, y) == b.x1 <= x /\ x <= b.x2 /\ b.y1 <= y /\ y <= b.y2
\* A prompt labels with its number; the last box that holds a pixel wins, and a
\* pixel in no box goes to the nearest point, the first of several.
Label(prompts, x, y) ==
    LET boxes == {i \in DOMAIN prompts : prompts[i].type = "box" /\ InBox(prompts[i], x, y)}
        points == {i \in DOMAIN prompts : prompts[i].type = "point"}
        Dist(i) == (x - prompts[i].x1) * (x - prompts[i].x1) + (y - prompts[i].y1) * (y - prompts[i].y1)
    IN  IF boxes # {} THEN Max(boxes)
        ELSE IF points = {} THEN 0
        ELSE CHOOSE i \in points : \A j \in points : Dist(i) < Dist(j) \/ (Dist(i) = Dist(j) /\ i <= j)
\* Without a prompt: eight classes of intensity.
AutoSegments == 8
AutoLabel(v, low, high) ==
    IF high <= low THEN 1
    ELSE Lesser(((v - low) * AutoSegments) \div (high - low), AutoSegments - 1) + 1
\* _segment_with_prompts, _segment_automatic: data holds an intensity for each pixel.
Mask(data, prompts) ==
    LET values == {data[p] : p \in DOMAIN data}
    IN  [p \in DOMAIN data |-> IF prompts = <<>> THEN AutoLabel(data[p], Min(values), Max(values))
                               ELSE Label(prompts, p[1], p[2])]
SegmentTile(in) ==
    Staged(<<CheckOf(in, {"tile", "size"}), CheckOf(in, {"mask_size"}), CheckOf(in, {"prompts"})>>,
           "mask")

-----------------------------------------------------------------------------
(* lookup_embeddings: published files, one per month and, for scenes, one  *)
(* per cell of a grid of UTM zones (lon in degrees) and latitude bands.    *)

UtmZone(lon) == 1 + (((lon + 180) % 360) \div 6)
GzdZones(west, east) ==
    IF UtmZone(east) < UtmZone(west) THEN {UtmZone(west), UtmZone(east)}
    ELSE UtmZone(west)..UtmZone(east)

\* A partition that cannot be listed is passed over like one that is empty.
Listed(p) == IF p.listing = "ok" THEN p.rows ELSE 0
\* The rows of the i-th partition that there is still room for.
RowsOf(partitions, i, limit, so) ==
    [k \in 1..Lesser(Listed(partitions[i]), limit - Len(so)) |-> <<i, k>>]
LookupRows(partitions, limit) ==
    LET rows[i \in 0..Len(partitions)] ==
          IF i = 0 THEN <<>> ELSE rows[i - 1] \o RowsOf(partitions, i, limit, rows[i - 1])
    IN  rows[Len(partitions)]
LookupEmbeddings(in) ==
    IF in.partitions = <<>> /\ in.wrong = {} THEN Returned(<<>>, <<>>)
    ELSE Staged(<<CheckOf(in, {"product", "limit"}), CheckOf(in, {"bbox"}), CheckOf(in, {"dates"}),
                  CheckThat(in.pyarrow, Unclassified),
                  Ask("bucket", IF in.readable THEN "ok" ELSE Unclassified)>>,
                LookupRows(in.partitions, in.limit))

-----------------------------------------------------------------------------

\* The tiles of a change map partition its window and are no more than allowed; a
\* number of the stand-in is never given without its caveat, and not at all to a
\* caller who wants none.
ChangeMapIsWhole(in, out) ==
    LET Covers(t, p) == /\ t.col <= p[1] /\ p[1] < t.col + t.width
                        /\ t.row <= p[2] /\ p[2] < t.row + t.height
        cells == (in.win.col..(in.win.col + in.win.width - 1))
                    \X (in.win.row..(in.win.row + in.win.height - 1))
    IN  out.reply = "result" =>
          /\ \A p \in cells : Cardinality({t \in out.value.cells : Covers(t, p)}) = 1
          /\ Cardinality(out.value.cells) <= in.maxTiles
          /\ \A t \in out.value.cells : t.width \in 1..in.size /\ t.height \in 1..in.size
          /\ in.backend = StandIn => out.value.caveat /\ ~in.requireReal

\* Tiles of 3 by 2 pixels with at most two prompts.
Prompts == {p \in [type : {"box", "point"}, x1 : 0..2, y1 : 0..1, x2 : 0..2, y2 : 0..1] :
               p.x1 <= p.x2 /\ p.y1 <= p.y2 /\ (p.type = "point" => p.x1 = p.x2 /\ p.y1 = p.y2)}
MaskInputs ==
    [data : {[p \in (0..2) \X (0..1) |-> 0]}, prompts : UNION {[1..n -> Prompts] : n \in 1..2}]
    \cup [data : [(0..1) \X (0..1) -> {0, 3, 4, 20}], prompts : {<<>>}]
\* A pixel of a box has the number of a box that holds it, and where there are points
\* none is left out, the pixel of a point outside the boxes having a number of that
\* very place; without prompts a brighter pixel never has a lower number.
MaskIsWhole(data, prompts, mask) ==
    LET Boxed(p) == {i \in DOMAIN prompts : prompts[i].type = "box" /\ InBox(prompts[i], p[1], p[2])}
        Here(p) == {i \in DOMAIN prompts : prompts[i].type = "point"
                                            /\ <<prompts[i].x1, prompts[i].y1>> = p}
        points == \E i \in DOMAIN prompts : prompts[i].type = "point"
    IN  IF prompts = <<>>
        THEN \A p, q \in DOMAIN data : /\ mask[p] \in 1..AutoSegments
                                       /\ data[p] <= data[q] => mask[p] <= mask[q]
        ELSE \A p \in DOMAIN data :
                /\ Boxed(p) # {} => mask[p] \in Boxed(p)
                /\ Boxed(p) = {} /\ Here(p) # {} => mask[p] \in Here(p)
                /\ mask[p] = 0 => Boxed(p) = {} /\ ~points

\* The rows of a lookup are the first of those partitions that could be listed: in
\* their order, with none between them left out, and no fewer than the limit where
\* there are more.
RowsAreFirst(in, out) ==
    LET listed == UNION {{<<i, k>> : k \in 1..Listed(in.partitions[i])} : i \in DOMAIN in.partitions}
        Sooner(x, y) == x[1] < y[1] \/ (x[1] = y[1] /\ x[2] < y[2])
        given == {out.value[i] : i \in DOMAIN out.value}
    IN  out.reply = "result" =>
          /\ given \subseteq listed /\ Len(out.value) <= in.limit
          /\ \A i, j \in DOMAIN out.value : i < j => Sooner(out.value[i], out.value[j])
          /\ \A x \in listed \ given : Len(out.value) = in.limit /\ \A y \in given : Sooner(y, x)

\* Every zone that a box from west to east meets, which it does not leave.
ZonesCover(west, east) ==
    \A lon \in west..(east - 1) : UtmZone(lon) \in GzdZones(west, east)

=============================================================================
