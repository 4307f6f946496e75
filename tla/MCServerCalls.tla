---------------------------- MODULE MCServerCalls ---------------------------
(***************************************************************************)
(* ServerCalls with small limits, and with the inputs of its algorithms.   *)
(***************************************************************************)
EXTENDS ServerCalls

MCTools == {"geocode", "reverse_geocode", "route", "isochrone", "species_occurrences",
            "observations", "vector_features", "ogc_features", "spatial_sql",
            "plan_execution", "execute_or_delegate", "zonal_statistics", "read_window",
            "band_math", "zonal_band_math", "dem_zonal", "elevation", "slope",
            "embed_tile", "embed_asset", "embed_assets", "detect_change", "change_map",
            "segment", "lookup_embeddings", "read_pointcloud", "points_to_3d_tiles",
            "dem_to_mesh", "inspect_tileset", "inspect_gltf", "store_embedding",
            "search_embeddings",
            "pixels", "lzw", "row", "float_row", "window", "zones", "mosaic", "tiles",
            "utm", "layout", "range", "cdo_rows", "mask", "aspect"}

MCPageLimit == [gbif |-> 2, inaturalist |-> 1]

\* An image of 3 by 5 pixels in tiles of 2 by 3, and every window of it.
MCImage == [width : {3}, height : {5}, tileWidth : {2}, tileHeight : {3}, samples : {1, 2}, planar : BOOLEAN]
MCWindow == {w \in [col : 0..2, row : 0..4, width : 1..3, height : 1..5] :
                w.col + w.width <= 3 /\ w.row + w.height <= 5}
MCImages == {in \in [m : MCImage, win : MCWindow, band : 1..2] : in.band <= in.m.samples}

\* North up, both axes the other way, turned by a quarter, and sheared.
MCGeotransforms == {<<1, 2, 0, 9, 0, 0 - 3>>, <<8, 0 - 2, 0, 1, 0, 3>>, <<0, 0, 2, 0, 2, 0>>,
                    <<0, 2, 1, 8, 0, 0 - 2>>}
MCBoxes == {in \in [box : (0..9) \X (0..9) \X (0..9) \X (0..9), m : {[width |-> 3, height |-> 3]},
                    gt : MCGeotransforms] :
               /\ in.box[1] < in.box[3] /\ in.box[2] < in.box[4]
               /\ in.box[3] - in.box[1] \in {1, 2, 5} /\ in.box[4] - in.box[2] \in {1, 3}}

\* Every row of up to 6 of 2 symbols, and some that fill the table of 15 twice.
MCLzwData == UNION {[1..n -> 0..1] : n \in 1..6}
             \cup {[i \in 1..n |-> IF i % p = 0 \/ i % q = 1 THEN 1 ELSE 0] :
                      n \in {19, 44, 45, 60}, p \in 2..5, q \in 2..4}

MCPatternRows == [values : [1..3 -> 0..3], spp : {1}, bits : {2}, format : {"float"}]
MCRows == MCPatternRows
          \cup UNION {[values : [1..n -> 0..3], spp : 1..2, bits : {2}, format : {"unsigned"}] : n \in {2, 4}}
MCSignedRows == [values : [1..3 -> (0 - 2)..1], spp : {1}, bits : {2}, format : {"signed"}]
MCFloatRows == [samples : [1..2 -> [1..2 -> 0..2]], spp : 1..2]

\* A frame of 6 by 6 half cells cut along an edge, whose ends and bend may be on
\* centres of cells; and one with a hole that is filled.
MCFrame == <<<<<<<<0, 0>>, <<6, 0>>, <<6, 6>>, <<0, 6>>>>>>>>
MCSplit(a, b, c) ==
    [left |-> <<<<<<<<0, 0>>, <<a, 0>>, <<b, 3>>, <<c, 6>>, <<0, 6>>>>>>>>,
     right |-> <<<<<<<<a, 0>>, <<6, 0>>, <<6, 6>>, <<c, 6>>, <<b, 3>>>>>>>>, frame |-> MCFrame]
MCHole(p, q) ==
    LET ring == <<<<p, q>>, <<p + 3, q>>, <<p + 3, q + 2>>, <<p, q + 2>>>>
    IN  [left |-> <<<<MCFrame[1][1], ring>>>>, right |-> <<<<ring>>>>, frame |-> MCFrame]
MCSplits == {MCSplit(a, b, c) : a \in 0..6, b \in 0..6, c \in 0..6}
            \cup {MCHole(p, q) : p \in 0..3, q \in 0..4}
MCGrids == {[p \in {1, 3, 5} \X {1, 3, 5} |-> IF p = hole THEN NoData ELSE p[1] + 2 * p[2]] : hole \in {<<0, 0>>, <<3, 3>>}}

MCHistories == UNION {[kind : {k}, ops : StoreHistories(k, 2)] : k \in StoreKinds}
               \cup [kind : {"lancedb", "opensearch"},
                     ops : {ops \in StoreHistories("lancedb", 3) : Len(ops) = 3 /\ ops[2].fault # "none"
                                                                  /\ ops[1].fault = "none" /\ ops[1].id = 1}]

\* What was stored without a fault but that of a restart, and every choice of the engine.
MCSearches ==
    {in \in UNION {[kind : {k}, ops : {ops \in StoreHistories(k, 2) :
                                         \A i \in DOMAIN ops : ops[i].fault \in {"none", "crash"}},
                    q : {<<>>, <<1>>, <<2, 1>>}, k : 0..2, shown : SUBSET (1..2), answers : BOOLEAN] :
                      k \in StoreKinds} :
        /\ Cardinality(in.shown) <= CandidateMultiplier * in.k
        /\ in.kind # "opensearch" => in.shown = {} /\ in.answers
        /\ in.q = <<>> => in.k = 1}

MCPlanes == (0 - 2..2) \X (0 - 2..2)
MCGrid(row, col, value) == [row |-> row, col |-> col, height |-> 2, width |-> 2,
                            values |-> [p \in (0..1) \X (0..1) |-> IF p = value THEN Lost ELSE row + 3 * col]]
MCMosaics == {<<MCGrid(r, c, p), MCGrid(s, d, p)>> :
                 r \in 0..2, c \in {0, 1}, s \in {1}, d \in {0, 2}, p \in {<<0, 0>>, <<1, 1>>}}
MCAreas == {in \in [box : ((0 - 3)..3) \X ((0 - 3)..3) \X ((0 - 3)..4) \X ((0 - 3)..4), per : {2}] :
               in.box[1] <= in.box[3] /\ in.box[2] <= in.box[4]}
MCSpans == {s \in ((0 - 180)..179) \X ((0 - 180)..179) :
               s[1] < s[2] /\ s[1] % 3 = 0 /\ (s[2] - s[1]) \in {1, 5, 6, 13, 60, 357}}
MCLayouts == [table : 0..16, n : 1..5, colors : BOOLEAN]
=============================================================================
