------------------------------ MODULE Tiles3D -------------------------------
(***************************************************************************)
(* geo-3d: points into a tree of tiles, elevations into a mesh, the layout *)
(* of the files written, and the inspection of such files.  Two of the     *)
(* three axes are kept, of which each is halved like the others.           *)
(***************************************************************************)
EXTENDS ToolCall, Integers, SequencesExt

\* The caps of tiling.py and inspect.py: 16, 200000, 100000 and 1000 in the code.
CONSTANTS MaxDepth, MaxOctreeTiles, MaxTiles, MaxUris
ASSUME TilesAssumption == {MaxDepth, MaxOctreeTiles, MaxTiles, MaxUris} \subseteq Nat \ {0}

Axes == 1..2

-----------------------------------------------------------------------------
(* points_to_3d_tiles: perTile = 0 stands for no limit, one tile for all.  *)

\* A point's unit is halved MaxDepth times, exactly.
Halvings[d \in 0..MaxDepth] == IF d = 0 THEN 1 ELSE 2 * Halvings[d - 1]
Scaled(points) == [i \in DOMAIN points |-> [a \in Axes |-> points[i][a] * Halvings[MaxDepth]]]
\* The bounds of the points.
LowOf(points) == [a \in Axes |-> Min({points[i][a] : i \in DOMAIN points})]
HighOf(points) == [a \in Axes |-> Max({points[i][a] : i \in DOMAIN points})]

\* A node has the indices of its points, which the code lists in rising order.  A
\* tile keeps all of them, or perTile at even distances.
IsLeaf(node, perTile) == Cardinality(node.idx) <= perTile \/ node.depth >= MaxDepth
Place(i, idx) == Cardinality({k \in idx : k < i})
Sample(node, perTile) ==
    LET n == Cardinality(node.idx)
        positions == {(j * n) \div perTile : j \in 0..(perTile - 1)}
    IN  IF IsLeaf(node, perTile) THEN node.idx
        ELSE {i \in node.idx : Place(i, node.idx) \in positions}

\* A mistake: the tiles below repeat it all.
RemainingAll(idx, kept) == idx
\* What is left for the tiles below.
Remaining(idx, kept) == idx \ kept

\* _octants: a point on the middle belongs above it; a part without points is left out.
Middle(node) == [a \in Axes |-> (node.lo[a] + node.hi[a]) \div 2]
Octant(node, points, kept, up) ==
    [idx |-> {i \in Remaining(node.idx, kept) : up = {a \in Axes : points[i][a] >= Middle(node)[a]}},
     lo |-> [a \in Axes |-> IF a \in up THEN Middle(node)[a] ELSE node.lo[a]],
     hi |-> [a \in Axes |-> IF a \in up THEN node.hi[a] ELSE Middle(node)[a]],
     depth |-> node.depth + 1]
Octants(node, points, kept) ==
    {part \in {Octant(node, points, kept, up) : up \in SUBSET Axes} : part.idx # {}}

\* _build_octree, level by level: what is still to be split, and the tiles.
TileOf(node, perTile) ==
    [lo |-> node.lo, hi |-> node.hi, depth |-> node.depth, points |-> Sample(node, perTile)]
Level(so, points, perTile) ==
    [open |-> UNION {Octants(node, points, Sample(node, perTile)) : node \in so.open},
     tiles |-> so.tiles \cup {TileOf(node, perTile) : node \in so.open}]
RootOf(points) ==
    [idx |-> DOMAIN points, lo |-> LowOf(points), hi |-> HighOf(points), depth |-> 0]
Octree(points, perTile) ==
    LET limit == IF perTile = 0 THEN Len(points) ELSE perTile
        level[d \in 0..(MaxDepth + 1)] ==
          IF d = 0 THEN [open |-> {RootOf(points)}, tiles |-> {}]
          ELSE Level(level[d - 1], points, limit)
    IN  level[MaxDepth + 1].tiles

\* The tiles are written one by one, the index that names them after the last; over
\* the cap, or when a write fails, those written before stay.
PointsTo3dTiles(in) ==
    LET tiles == Octree(Scaled(in.points), in.perTile)
        many == Cardinality(tiles) > MaxOctreeTiles
        room == Lesser(in.disk, MaxOctreeTiles)
    IN  IF in.points = <<>> THEN Refused
        ELSE IF in.wrong # {} THEN Refused
        ELSE IF many \/ Cardinality(tiles) >= in.disk
        THEN [Failed(IF many /\ room = MaxOctreeTiles THEN "validation" ELSE "upstream", <<>>)
                 EXCEPT !.value = [tiles |-> Lesser(room, Cardinality(tiles)), index |-> {}]]
        ELSE Returned([tiles |-> Cardinality(tiles), index |-> tiles], <<>>)

-----------------------------------------------------------------------------
(* dem_to_mesh: a grid maps <<row, column>> to an elevation or to NoData.  *)

Hole == 0 - 1
Full(grid, corners) == \A i \in DOMAIN corners : grid[corners[i]] # Hole
\* The two triangles of a cell, each of which is left out when a corner has no data.
CellCorners(cell) ==
    LET r == cell[1]
        c == cell[2]
    IN  <<<<<<r, c>>, <<r + 1, c>>, <<r, c + 1>>>>,
          <<<<r, c + 1>>, <<r + 1, c>>, <<r + 1, c + 1>>>>>>
CellTriangles(grid, cell) ==
    LET Kept(corners) == IF Full(grid, corners) THEN <<corners>> ELSE <<>>
    IN  Kept(CellCorners(cell)[1]) \o Kept(CellCorners(cell)[2])
CellAt(k, width) == <<(k - 1) \div (width - 1), (k - 1) % (width - 1)>>
Triangles(grid, height, width) ==
    FlattenSeq([k \in 1..((height - 1) * (width - 1)) |-> CellTriangles(grid, CellAt(k, width))])
HasHoles(grid, height, width) ==
    \E cell \in (0..(height - 2)) \X (0..(width - 2)), k \in 1..2 : ~Full(grid, CellCorners(cell)[k])
\* A vertex gets its number when a triangle first needs it.
Numbered(triangles) == MetInOrder(FlattenSeq(triangles))
NumberOf(used, vertex) == FirstPos(used, LAMBDA v : v = vertex)
Mesh(grid, height, width) ==
    LET triangles == Triangles(grid, height, width)
        used == Numbered(triangles)
    IN  [indices |-> [i \in DOMAIN triangles |-> [k \in 1..3 |-> NumberOf(used, triangles[i][k])]],
         used |-> used, holes |-> HasHoles(grid, height, width)]

\* A mesh without a triangle is refused after the output's directory was made.
DemToMesh(in) ==
    LET mesh == Mesh(in.grid, in.height, in.width)
    IN  Staged(<<CheckOf(in, {"elevations"}), CheckOf(in, {"bbox", "exaggeration", "output_path"}),
                 CheckThat(mesh.indices # <<>>, "validation"),
                 CheckThat(in.disk > 0, "upstream")>>, mesh)

-----------------------------------------------------------------------------
(* The layout of a file: sections of bytes, each padded to a boundary.     *)

Padded(offset, length, boundary) ==
    IF (offset + length) % boundary = 0 THEN length
    ELSE length + boundary - ((offset + length) % boundary)

\* A .pnts file: 28 bytes, a table, then positions (12 bytes) and colours (3).
PntsHeader == 28
PntsLayout(table, n, colors) ==
    LET json == Padded(PntsHeader, table, 8)
        binary == Padded(PntsHeader + json, 12 * n + (IF colors THEN 3 * n ELSE 0), 8)
    IN  [json |-> json, binary |-> binary, total |-> PntsHeader + json + binary]
\* The buffer of a mesh, and a .glb file of two chunks.
IndexBytes(vertices) == IF vertices > 65535 THEN 4 ELSE 2
BufferLayout(vertices, indices) ==
    [normals |-> Padded(0, 12 * vertices, 4), indices |-> 2 * Padded(0, 12 * vertices, 4),
     total |-> 2 * Padded(0, 12 * vertices, 4) + Padded(0, IndexBytes(vertices) * indices, 4)]
GlbLayout(json, buffer) ==
    [json |-> Padded(0, json, 4), binary |-> Padded(0, buffer, 4),
     total |-> 28 + Padded(0, json, 4) + Padded(0, buffer, 4)]

-----------------------------------------------------------------------------
(* inspect_tileset and inspect_gltf.                                       *)

\* _walk_tiles: breadth first up to the cap; each tile of ours has one content.
WalkTiles(tiles) ==
    LET count == Lesser(Cardinality(tiles), MaxTiles)
        Above(d) == Cardinality({t \in tiles : t.depth <= d})
    IN  [tile_count |-> count, max_depth |-> Min({d \in 0..MaxDepth : Above(d) >= count}),
         content_count |-> Lesser(count, MaxUris), truncated |-> Cardinality(tiles) > MaxTiles]

\* A source is a document of the call, a file, or a URL.
Fetched3d(answer) == IF answer = "404" THEN "not-found" ELSE Understood(answer)
ResolveBytes(in) ==
    IF in.source = "url" THEN <<Ask("url", Fetched3d(in.answer))>>
    ELSE <<CheckThat(in.exists, "not-found")>>
\* _report_glb: a length that is not the file's is told of, and does no harm.
GltfValid(document) == document \in {"glb", "glb_of_other_length", "gltf"}
InspectTileset(in) ==
    Staged(<<CheckOf(in, {"source"})>>
           \o (IF in.source = "inline" THEN <<>>
               ELSE ResolveBytes(in) \o <<CheckThat(in.document # "text", "upstream")>>),
           [valid |-> in.document = "tileset"])
\* What is no JSON is reported on as well.
InspectGltf(in) ==
    Staged(<<CheckOf(in, {"source"})>> \o ResolveBytes(in), [valid |-> GltfValid(in.document)])

-----------------------------------------------------------------------------

TilesInputs ==
    [wrong : WrongOne({"colors", "output_dir"}), perTile : 0..2, disk : {1, 4, 9},
     points : UNION {[1..n -> (0..2) \X (0..1)] : n \in 0..3}]
MeshInputs ==
    [wrong : WrongOne({"elevations", "bbox"}), height : {2}, width : {3}, disk : {0, 1},
     grid : [(0..1) \X (0..2) -> {Hole, 1}]]
InspectInputs ==
    [wrong : WrongOne({"source"}), source : {"inline", "file", "url"}, exists : BOOLEAN,
     answer : {"ok", "404", "4xx", "network"},
     document : {"text", "json", "tileset", "gltf", "glb", "glb_of_other_length"}]

\* Every point is in one tile, which holds no more than it may unless it is at the
\* greatest depth, and lies in its tile's box; the index is there only when
\* every tile is, and the inspection counts the tiles that were written.
EveryPointIsOnce(in, out) ==
    LET tiles == out.value.index
        points == Scaled(in.points)
    IN  out.reply = "result" =>
          /\ UNION {t.points : t \in tiles} = DOMAIN points
          /\ \A t \in tiles, i \in DOMAIN points :
                i \in t.points => /\ \A s \in tiles \ {t} : i \notin s.points
                                 /\ \A a \in Axes : points[i][a] \in t.lo[a]..t.hi[a]
          /\ \A t \in tiles : /\ t.points # {}
                             /\ (in.perTile = 0 \/ t.depth = MaxDepth
                                    \/ Cardinality(t.points) <= in.perTile)
          /\ out.value.tiles = Cardinality(tiles)
          /\ ~WalkTiles(tiles).truncated => WalkTiles(tiles).tile_count = Cardinality(tiles)

\* Twice the area of a triangle, with its sense.
Turn(t) == (t[2][1] - t[1][1]) * (t[3][2] - t[1][2]) - (t[2][2] - t[1][2]) * (t[3][1] - t[1][1])
\* All triangles turn one way and have their corners' data; a hole is told of when
\* and only when a cell has no data; a number stands for one vertex, and every
\* vertex is used.
MeshIsSound(in, out) ==
    LET mesh == out.value
    IN  out.reply = "result" =>
          /\ \A t \in ToSet(mesh.indices) :
                /\ \A k \in 1..3 : t[k] \in DOMAIN mesh.used /\ in.grid[mesh.used[t[k]]] # Hole
                /\ Turn([k \in 1..3 |-> mesh.used[t[k]]]) > 0
          /\ mesh.holes <=> \E p \in DOMAIN in.grid : in.grid[p] = Hole
          /\ IsInjective(mesh.used)
          /\ \A i \in DOMAIN mesh.used : \E t \in ToSet(mesh.indices) : i \in Range(t)

\* Each section starts at a multiple of its boundary and no byte is lost.
LayoutFits(table, n, colors) ==
    LET pnts == PntsLayout(table, n, colors)
        buffer == BufferLayout(n, 3 * n)
        glb == GlbLayout(table, buffer.total)
    IN  /\ (PntsHeader + pnts.json) % 8 = 0 /\ pnts.total % 8 = 0
        /\ pnts.json \in table..(table + 7)
        /\ pnts.binary - (IF colors THEN 15 * n ELSE 12 * n) \in 0..7
        /\ buffer.normals % 4 = 0 /\ buffer.indices % 4 = 0
        /\ buffer.normals >= 12 * n /\ buffer.indices >= 24 * n
        /\ glb.total % 4 = 0 /\ glb.binary = buffer.total

=============================================================================
