----------------------------- MODULE ServerCalls ----------------------------
(***************************************************************************)
(* The tools of the servers that keep nothing between calls, behind one    *)
(* interface: a call with its arguments, and what the rest of the world    *)
(* will say, is served and answered.  Beside the tools stand the           *)
(* algorithms that they are built from, called on their own.               *)
(***************************************************************************)
EXTENDS GeocodeRoute, Occurrences, Observations, CogFormat, ZonalStatistics,
        PointCloud, FoundationModels, Tiles3D, Terrain, SpatialSql, Delegation, EmbeddingStore,
        FeatureServices

CONSTANTS
    Tools,        \* the tools and algorithms that are called
    Images,       \* images and windows of them to read: [m, win, band]
    Boxes,        \* boxes to turn into windows: [box, m, gt]
    LzwData,      \* rows of symbols to compress
    Rows,         \* rows of numbers, or bits of floats: [values, spp, bits, format]
    FloatRows,    \* rows of samples, each as its bytes: [samples, spp]
    Splits,       \* pairs of zones that share an edge, in a frame: [left, right, frame]
    Grids,        \* rasters
    Histories,    \* calls of an embedding store: [kind, ops]
    Searches,     \* searches of one after such calls: [kind, ops, q, k, shown, answers]
    Planes,       \* slopes of the ground: <<to the east, to the north>>
    Mosaics,      \* sequences of grids
    Areas,        \* boxes, in parts of a degree: [box, per]
    Spans,        \* degrees of longitude: <<west, east>>
    Layouts       \* the sizes of a file's parts: [table, n, colors]

\* What the inputs are, as far as the code refuses others or never meets them: grids
\* have a value at each of their places, windows lie in their images, boxes have
\* their corners in order and geotransforms can be inverted, values fit their width,
\* samples are of as many bytes, a span ends before the 180th meridian.
GridOf(g) == /\ {g.row, g.col} \subseteq Int /\ {g.height, g.width} \subseteq Nat \ {0}
             /\ DOMAIN g.values = (0..(g.height - 1)) \X (0..(g.width - 1))
             /\ \A place \in DOMAIN g.values : g.values[place] \in Int
ImageOf(m, win, band) ==
    /\ {m.width, m.height, m.tileWidth, m.tileHeight, m.samples, win.width, win.height} \subseteq Nat \ {0}
    /\ {win.col, win.row} \subseteq Nat /\ band \in 1..m.samples
    /\ win.col + win.width <= m.width /\ win.row + win.height <= m.height
BoxOf(box, m, gt) ==
    /\ {m.width, m.height} \subseteq Nat \ {0}
    /\ {box[i] : i \in 1..4} \subseteq Int /\ box[1] <= box[3] /\ box[2] <= box[4]
    /\ {gt[i] : i \in 1..6} \subseteq Int /\ Det(gt) # 0
DataOf(data) == data # <<>> /\ data \in Seq(0..(Symbols - 1))
RowOf(row) == /\ {row.spp, row.bits} \subseteq Nat \ {0} /\ Len(row.values) \in Nat
              /\ row.values \in [1..Len(row.values) -> Int]
              /\ row.format \in SampleFormats
              /\ row.format # "signed" =>
                    \A i \in DOMAIN row.values : row.values[i] \in 0..(PowerOf2(row.bits) - 1)
FloatRowOf(row) ==
    /\ {row.spp, Len(row.samples), Len(row.samples[1])} \subseteq Nat \ {0}
    /\ row.samples \in [1..Len(row.samples) -> [1..Len(row.samples[1]) -> 0..(Bytes - 1)]]
RasterOf(grid) == /\ IsFiniteSet(DOMAIN grid) /\ DOMAIN grid \subseteq Int \X Int
                  /\ grid \in [DOMAIN grid -> Int]
HistoryOf(kind, ops) ==
    /\ kind \in StoreKinds /\ DOMAIN ops = 1..Len(ops) /\ Len(ops) \in Nat \ {0}
    /\ \A i \in DOMAIN ops : /\ ops[i].vector \in Seq(Int)
                             /\ kind = "memory" => ops[i].fault = "none"
SearchOf(in) == /\ HistoryOf(in.kind, in.ops) /\ in.q \in Seq(Int) /\ in.k \in Int
                /\ Cardinality(in.shown) <= CandidateMultiplier * in.k
ASSUME CallsAssumption ==
    /\ \A in \in Areas : {in.box[i] : i \in 1..4} \subseteq Int /\ in.per \in Nat \ {0}
    /\ Planes \subseteq Int \X Int
    /\ \A span \in Spans : {span[1], span[2]} \subseteq (0 - 180)..179 /\ span[1] < span[2]
    /\ \A layout \in Layouts : {layout.table, layout.n} \subseteq Nat
    /\ \A grids \in Mosaics : /\ DOMAIN grids = 1..Len(grids) /\ Len(grids) \in Nat \ {0}
                              /\ \A i \in DOMAIN grids : GridOf(grids[i])
    /\ \A in \in Histories : HistoryOf(in.kind, in.ops)
    /\ \A in \in Searches : SearchOf(in)
    /\ \A split \in Splits : SplitOf(split)
    /\ \A grid \in Grids : RasterOf(grid)
    /\ \A in \in Images : ImageOf(in.m, in.win, in.band)
    /\ \A in \in Boxes : BoxOf(in.box, in.m, in.gt)
    /\ \A data \in LzwData : DataOf(data)
    /\ \A row \in Rows : RowOf(row)
    /\ \A row \in FloatRows : FloatRowOf(row)

VARIABLES call, out
callVars == <<call, out>>

Idle == [tool |-> "none", in |-> <<>>]
NoAnswer == <<>>

\* A tool may be called; it is called with one of the inputs, and answers.
Free == call = Idle
Serve(tool, inputs, Answer(_)) ==
    /\ tool \in Tools
    /\ \E in \in inputs : call' = [tool |-> tool, in |-> in] /\ out' = Answer(in)

-----------------------------------------------------------------------------
(* Inputs of the tools that read images: what differs from an ordinary     *)
(* call, in at most two ways.                                              *)

Altered(inputs, others) ==
    inputs \cup UNION {UNION {{[in EXCEPT ![f] = v] : v \in others[f]} : f \in DOMAIN others} :
                          in \in inputs}
Twice(in, others) == Altered(Altered({in}, others), others)

OrdinaryRaster == [wrong |-> {}, head |-> "ok", flaw |-> "none", bandExists |-> TRUE,
                   overlaps |-> TRUE, tiles |-> "ok", zones |-> 1, aligned |-> TRUE,
                   published |-> FALSE, measure |-> "elevation"]
RasterOthers == [wrong |-> {{p} : p \in {"raster_href", "band", "stats", "zones", "window",
                                         "expression", "assets", "measure", "dem", "pixel_size_m"}},
                 head |-> {"4xx", "network"}, flaw |-> {"bigtiff"}, bandExists |-> {FALSE},
                 overlaps |-> {FALSE}, tiles |-> {"4xx", "network"}, zones |-> {0},
                 aligned |-> {FALSE}, published |-> {TRUE}, measure |-> {"slope"}]
RasterInputs == Twice(OrdinaryRaster, RasterOthers)

OrdinaryTile == [wrong |-> {}, backend |-> StandIn, vector |-> "ok", dimensionFits |-> TRUE,
                 noPixels |-> FALSE, head |-> "ok", flaw |-> "none", bandExists |-> TRUE,
                 overlaps |-> TRUE, tiles |-> "ok", aligned |-> TRUE, size |-> 2, maxTiles |-> 9,
                 win |-> [col |-> 1, row |-> 0, width |-> 3, height |-> 4],
                 requireReal |-> FALSE, limit |-> 2, pyarrow |-> TRUE, readable |-> TRUE,
                 partitions |-> <<[listing |-> "ok", rows |-> 1], [listing |-> "ok", rows |-> 2]>>]
TileOthers == [wrong |-> {{p} : p \in {"model", "tile", "size", "raster_href", "bands", "mode",
                                       "dates", "aoi_bbox", "prompts", "product", "bbox"}},
               backend |-> {"remote", "callable"}, vector |-> {"raises", "shape"},
               dimensionFits |-> {FALSE}, noPixels |-> {TRUE}, head |-> {"4xx"},
               flaw |-> {"bigtiff"}, bandExists |-> {FALSE}, overlaps |-> {FALSE},
               tiles |-> {"network"}, aligned |-> {FALSE}, size |-> {1, 3}, maxTiles |-> {3},
               requireReal |-> {TRUE}, limit |-> {1, 5}, pyarrow |-> {FALSE},
               readable |-> {FALSE},
               partitions |-> {<<>>, <<[listing |-> "error", rows |-> 2], [listing |-> "ok", rows |-> 1]>>}]
TileInputs == Twice(OrdinaryTile, TileOthers)

-----------------------------------------------------------------------------

CallsInit == call = Idle /\ out = NoAnswer

CallGeocode == Free /\ Serve("geocode", GeocodeInputs, Geocode)
CallReverseGeocode == Free /\ Serve("reverse_geocode", GeocodeInputs, ReverseGeocode)
CallRoute == Free /\ Serve("route", RouteInputs, FindRoute)
CallIsochrone == Free /\ Serve("isochrone", RouteInputs, Isochrone)
CallOccurrences == Free /\ Serve("species_occurrences", OccurrenceInputs, SpeciesOccurrences)
CallObservations == Free /\ Serve("observations", ObservationInputs, ObservationsCall)
CallVectorFeatures == Free /\ Serve("vector_features", FeatureInputs, VectorFeatures)
CallOgcFeatures == Free /\ Serve("ogc_features", FeatureInputs, OgcFeatures)
CallSql == Free /\ Serve("spatial_sql", SqlInputs, SpatialSqlCall)
CallPlan == Free /\ Serve("plan_execution", DelegationInputs, PlanExecution)
CallDelegate == Free /\ Serve("execute_or_delegate", DelegationInputs, ExecuteOrDelegate)

CallZonal == Free /\ Serve("zonal_statistics", RasterInputs, ZonalCall)
CallReadWindow == Free /\ Serve("read_window", RasterInputs, ReadWindowCall)
CallBandMath == Free /\ Serve("band_math", RasterInputs, BandMathCall)
CallZonalBandMath == Free /\ Serve("zonal_band_math", RasterInputs, ZonalBandMathCall)
CallDemZonal == Free /\ Serve("dem_zonal", RasterInputs, DemZonal)
CallElevation == Free /\ Serve("elevation", TerrainInputs, Elevation)
CallDerived == Free /\ Serve("slope", TerrainInputs, Derived)

CallEmbedTile == Free /\ Serve("embed_tile", TileInputs, EmbedTile)
CallEmbedAsset == Free /\ Serve("embed_asset", TileInputs, EmbedAsset)
CallEmbedAssets == Free /\ Serve("embed_assets", TileInputs, EmbedAssets)
CallDetectChange == Free /\ Serve("detect_change", TileInputs, DetectChangeFromAssets)
CallChangeMap == Free /\ Serve("change_map", TileInputs, ChangeMap)
CallSegment == Free /\ Serve("segment", TileInputs, SegmentTile)
CallLookup == Free /\ Serve("lookup_embeddings", TileInputs, LookupEmbeddings)

CallReadPointcloud == Free /\ Serve("read_pointcloud", PointCloudInputs, ReadPointcloud)
CallTiles == Free /\ Serve("points_to_3d_tiles", TilesInputs, PointsTo3dTiles)
CallMesh == Free /\ Serve("dem_to_mesh", MeshInputs, DemToMesh)
CallInspect == Free /\ Serve("inspect_tileset", InspectInputs, InspectTileset)
CallInspectGltf == Free /\ Serve("inspect_gltf", InspectInputs, InspectGltf)
StoreEmbeddings ==
    Free /\ Serve("store_embedding", Histories, LAMBDA in : StoreAll(in.kind, in.ops))
CallSearch == Free /\ Serve("search_embeddings", Searches, SearchEmbeddings)

\* Answers of algorithms, of which the invariants say what they should be.
ReadPixels ==
    Free /\ Serve("pixels", Images, LAMBDA in : ReadWindowPixels(in.m, in.win, in.band))
Decompress == Free /\ Serve("lzw", LzwData, LAMBDA in : LzwDecode(LzwEncode(in)))
UndoPredictor ==
    Free /\ Serve("row", Rows, LAMBDA in : DecodeRow(Differenced(in), in))
UndoFloatPredictor ==
    Free /\ Serve("float_row", FloatRows,
                  LAMBDA in : UndoFloat(FloatDifferenced(in), Len(in.samples), in.spp, Len(in.samples[1])))
FindWindow == Free /\ Serve("window", Boxes, LAMBDA in : ResolveWindow(in.box, in.m, in.gt))
FindZones ==
    Free /\ Serve("zones", [split : Splits, grid : Grids],
                  LAMBDA in : ZonalStatistics(in.grid, <<in.split.left, in.split.right>>))
MakeMosaic == Free /\ Serve("mosaic", Mosaics, LAMBDA in : Mosaic(in))
FindTiles == Free /\ Serve("tiles", Areas, LAMBDA in : ResolveTiles(in.box, in.per))
FindUtmZones == Free /\ Serve("utm", Spans, LAMBDA in : GzdZones(in[1], in[2]))
LayOut == Free /\ Serve("layout", Layouts, LAMBDA in : PntsLayout(in.table, in.n, in.colors))
AskRange ==
    Free /\ Serve("range", {r \in [source : WeatherSources, start : Stamps, end : Stamps] :
                                ToRfc3339(r.start) <= ToRfc3339(r.end)},
                  LAMBDA in : AskedInstants(in.source, in.start, in.end))
GroupRows == Free /\ Serve("cdo_rows", RowsOfCdo, ReadingsOf)
LabelPixels == Free /\ Serve("mask", MaskInputs, LAMBDA in : Mask(in.data, in.prompts))
LookDown == Free /\ Serve("aspect", Planes, LAMBDA in : Aspect(Plane(in[1], in[2]), 2, 2))

Return == call # Idle /\ call' = Idle /\ out' = NoAnswer

CallSource == CallGeocode \/ CallReverseGeocode \/ CallRoute \/ CallIsochrone \/ CallOccurrences
              \/ CallObservations \/ CallVectorFeatures \/ CallOgcFeatures \/ CallSql
CallImage == CallZonal \/ CallReadWindow \/ CallBandMath \/ CallZonalBandMath \/ CallDemZonal
             \/ CallElevation \/ CallDerived \/ CallEmbedTile \/ CallEmbedAsset \/ CallEmbedAssets
             \/ CallDetectChange \/ CallChangeMap \/ CallSegment \/ CallLookup
CallFile == CallReadPointcloud \/ CallTiles \/ CallMesh \/ CallInspect \/ CallInspectGltf
            \/ StoreEmbeddings \/ CallSearch \/ CallPlan \/ CallDelegate
Compute == ReadPixels \/ Decompress \/ UndoPredictor \/ UndoFloatPredictor
           \/ FindWindow \/ FindZones \/ MakeMosaic \/ FindTiles \/ LookDown
           \/ FindUtmZones \/ LayOut \/ AskRange \/ GroupRows \/ LabelPixels

CallsNext == CallSource \/ CallImage \/ CallFile \/ Compute \/ Return
CallsSpec == CallsInit /\ [][CallsNext]_callVars

-----------------------------------------------------------------------------
(* Properties; the contracts stand with the modules of their servers.      *)

Called(tool) == call.tool = tool
Accepted == out.reply # "validation"

\* Where several sources may answer (geocoding.py, routing.py, isochrone.py), the
\* result is of the first that has one, no failure is hidden by a later absence
\* (geocoding.py:390: "At least one source was unavailable: surface the availability
\* error"), and a task is handed over exactly when this process may not run it.
FallbackIsHonest ==
    /\ Called("geocode") \/ Called("reverse_geocode") =>
          (Accepted /\ (call.in.source # "amazon-location" \/ call.in.key) =>
             ChainIsHonest(out, Chosen(call.in.source),
                           IF Called("geocode") THEN MatchesOf(call.in) ELSE PlacesOf(call.in),
                           "not-found"))
    /\ Called("route") /\ Accepted => ChainIsHonest(out, call.in.engines, RoutesOf(call.in), "not-found")
    /\ Called("isochrone") /\ Accepted =>
          ChainIsHonest(out, <<"valhalla">>, ZonesOf(call.in), "upstream")
    /\ Called("execute_or_delegate") => LimitsAreKept(call.in, out)

\* An answer put together from several replies (occurrences.py, observations.py,
\* features.py, athena_engine.py) is whole, or there is none.
AnswersAreWhole ==
    /\ Called("species_occurrences") => OccurrencesAreWhole(call.in, out)
    /\ Called("observations") => ObservationsAreWhole(call.in, out)
    /\ Called("vector_features") => AllOrNone(call.in, out)
    /\ Called("range") /\ call.in.start.offset = 0 /\ call.in.end.offset = 0 =>
          RangeIsCovered(call.in.source, call.in.start, call.in.end)
    /\ Called("cdo_rows") => ReadingsAreKept(Take(call.in, CdoLimit), out)
    /\ Called("spatial_sql") => ConnectionsAreClosed(call.in, out)

\* What is read of an image (cog.py) is what was written, at its own place.  Rows of
\* numbers with a sign are below; rows of floats under the predictor of integers do
\* not come back (cog.py:713), and nothing is said of them.
PixelsAreTheirOwn ==
    /\ Called("pixels") => PixelsAreRight(call.in, out)
    /\ Called("window") => WindowIsRight(call.in, out)
    /\ Called("lzw") => out = call.in
    /\ Called("row") /\ call.in.format = "unsigned" => out = call.in.values
    /\ Called("float_row") => out = FlattenSeq(call.in.samples)

\* cog.py:23, of what is read: "Integer (8/16/32-bit, signed or unsigned)"; all else
\* "raises an UpstreamError ..., so the failure is attributable rather than silent".
IntegersComeBack == Called("row") /\ call.in.format # "float" => out = call.in.values

\* Zones that share an edge share out the cells of a raster and its statistics, with
\* nothing counted twice or left out (geometry.py, zonal.py, zonal_fast.py).
EveryCellInOneZone == Called("zones") => ZonesShareOut(call.in.grid, call.in.split, out)

\* What was stored comes back: points from a file (pointcloud.py), embeddings from
\* a store (store.py, lancedb_store.py), the nearest first.
StoredComesBack ==
    /\ Called("read_pointcloud") => PointsComeBack(call.in, out)
    /\ Called("store_embedding") => StoreIsSound(call.in.kind, call.in.ops)
    /\ Called("search_embeddings") => SearchIsRight(call.in, out)

\* What is cut into parts is in one part each (tiling.py, dem.py, change_map.py,
\* segmentation.py).
EveryPartOnce ==
    /\ Called("points_to_3d_tiles") => EveryPointIsOnce(call.in, out)
    /\ Called("dem_to_mesh") => MeshIsSound(call.in, out)
    /\ Called("change_map") => ChangeMapIsWhole(call.in, out)
    /\ Called("mask") => MaskIsWhole(call.in.data, call.in.prompts, out)
    /\ Called("layout") => LayoutFits(call.in.table, call.in.n, call.in.colors)

\* The ground that is asked for is the ground that is told of (elevation.py,
\* dem_sources.py, derivatives.py, clay_embeddings.py).
GroundIsCovered ==
    /\ Called("elevation") => GridIsAligned(call.in, out)
    /\ Called("mosaic") => MosaicIsWhole(call.in)
    /\ Called("tiles") => TilesCover(call.in.box, call.in.per)
    /\ Called("aspect") => AspectLooksDown(call.in[1], call.in[2])
    /\ Called("utm") => ZonesCover(call.in[1], call.in[2])
    /\ Called("lookup_embeddings") => RowsAreFirst(call.in, out)

=============================================================================
