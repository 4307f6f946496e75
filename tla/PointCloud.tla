----------------------------- MODULE PointCloud -----------------------------
(***************************************************************************)
(* geo-pointcloud: write_pointcloud, and read_pointcloud of what it wrote, *)
(* perhaps on a machine where other libraries are installed.  x stands for *)
(* both horizontal axes, attr for all the optional dimensions.             *)
(***************************************************************************)
EXTENDS ToolCall, Integers, SequencesExt

\* The bits of a Morton code per axis, 21 in the code; and the step to which the
\* writer of PDAL rounds places, which the code leaves to PDAL.
CONSTANTS MortonBits, CopcStep
ASSUME PointCloudAssumption == {MortonBits, CopcStep} \subseteq Nat \ {0}

NoAttribute == 0 - 1
NoBound == 0 - 1
NoWindow == [min_x |-> 0, max_x |-> NoBound, min_z |-> NoBound, max_z |-> NoBound]
DefaultCrs == "EPSG:4326"

-----------------------------------------------------------------------------
(* The order of the local container.                                       *)

\* _norm, which rounds a half to the even number.
Normed(v, low, high) ==
    LET scale == PowerOf2(MortonBits) - 1
        doubled == (2 * (v - low) * scale + (high - low)) \div (2 * (high - low))
        half == (2 * (v - low) * scale + (high - low)) % (2 * (high - low)) = 0
    IN  IF high <= low THEN 0 ELSE IF half THEN doubled - (doubled % 2) ELSE doubled
Spread(value) ==
    LET Bit(i) == (value \div PowerOf2(i)) % 2
        spread[n \in 0..MortonBits] ==
          IF n = 0 THEN 0 ELSE spread[n - 1] + Bit(n - 1) * PowerOf2(3 * (n - 1))
    IN  spread[MortonBits]
MortonKey(points, i) ==
    LET xs == {points[j].x : j \in DOMAIN points}
        zs == {points[j].z : j \in DOMAIN points}
        cx == Spread(Normed(points[i].x, Min(xs), Max(xs)))
    IN  6 * cx + Spread(Normed(points[i].z, Min(zs), Max(zs)))
\* Points of one key stay in their order.
MortonOrder(points) ==
    LET Before(i, j) == \/ MortonKey(points, i) < MortonKey(points, j)
                        \/ MortonKey(points, i) = MortonKey(points, j) /\ i < j
        places == DOMAIN points
        order == InOrder(places, {p \in places \X places : Before(p[1], p[2])})
    IN  [k \in DOMAIN order |-> points[order[k]]]

-----------------------------------------------------------------------------
(* Backends.  env tells which libraries are installed.                     *)

\* SmartCopcBackend: PDAL writes COPC, else the container is written.
Writer(env) == IF env.pdal THEN "pdal" ELSE "local"
\* A gzip file that is there is a container whatever is installed.
ReaderFor(file, env) ==
    IF file.format = "container" THEN "local"
    ELSE IF env.laspy THEN "laspy" ELSE IF env.pdal THEN "pdal" ELSE "local"

\* COPC has places on its steps and a value of every dimension for every point; the
\* coordinate system is not handed to PDAL.  A write that is interrupted leaves the
\* file cut off.
OnStep(v) == ((2 * v + CopcStep) \div (2 * CopcStep)) * CopcStep
InCopc(point) == [x |-> OnStep(point.x), z |-> OnStep(point.z),
                  attr |-> IF point.attr = NoAttribute THEN 0 ELSE point.attr]
NoFile == [format |-> "none", points |-> <<>>, crs |-> DefaultCrs, whole |-> FALSE]
WrittenFile(chunk, writer, whole) ==
    IF writer = "local"
    THEN [format |-> "container", points |-> MortonOrder(chunk.points), crs |-> chunk.crs,
          whole |-> whole]
    ELSE [format |-> "COPC", points |-> [i \in DOMAIN chunk.points |-> InCopc(chunk.points[i])],
          crs |-> DefaultCrs, whole |-> whole]

\* GeoWindow.contains
Contains3(w, p) ==
    w = NoWindow \/ /\ w.min_x <= p.x /\ p.x <= w.max_x
                    /\ w.min_z = NoBound \/ w.min_z <= p.z
                    /\ w.max_z = NoBound \/ p.z <= w.max_z
\* _window_to_pdal_bounds: a height with one bound is no height.
PdalContains(w, p) ==
    Contains3(IF w.min_z = NoBound \/ w.max_z = NoBound
              THEN [w EXCEPT !.min_z = NoBound, !.max_z = NoBound] ELSE w, p)

\* What a reader makes of a file: PDAL does not look whether there is one, and gzip
\* raises an error of no category at the end of a container that is cut off.
Refusal(file, reader) ==
    IF file = NoFile THEN IF reader = "pdal" THEN "upstream" ELSE "not-found"
    ELSE IF reader = "local"
    THEN IF file.format # "container" THEN "upstream"
         ELSE IF file.whole THEN "ok" ELSE Unclassified
    ELSE IF file.whole THEN "ok" ELSE "upstream"
Clipped(file, reader, window) ==
    LET Meets(p) == IF reader = "pdal" THEN PdalContains(window, p) ELSE Contains3(window, p)
    IN  ElementsAt(file.points, {i \in DOMAIN file.points : Meets(file.points[i])})

ReadPointcloud(in) ==
    LET file == IF in.exists THEN WrittenFile(in.chunk, Writer(in.writing), in.whole) ELSE NoFile
        reader == ReaderFor(file, in.reading)
    IN  Staged(<<CheckOf(in, {"copc_href"}), Check(Refusal(file, reader))>>,
               [points |-> Clipped(file, reader, in.window), crs |-> file.crs])

-----------------------------------------------------------------------------

Points == [x : 0..2, z : 0..1, attr : {NoAttribute, 1}]
PointCloudInputs ==
    [wrong : WrongOne({"copc_href"}), exists : BOOLEAN, whole : BOOLEAN,
     writing : [pdal : BOOLEAN, laspy : {FALSE}], reading : [pdal : BOOLEAN, laspy : BOOLEAN],
     chunk : [points : SeqOf(Points, 2), crs : {DefaultCrs, "EPSG:32633"}],
     window : {NoWindow} \cup [min_x : {0}, max_x : {1}, min_z : {NoBound, 1}, max_z : {NoBound, 0}]]

\* The same elements, each as often.
SameBag(a, b) ==
    \A p \in Range(a) \cup Range(b) :
        Cardinality({i \in DOMAIN a : a[i] = p}) = Cardinality({i \in DOMAIN b : b[i] = p})

\* A container gives back the points in the window with everything they had; COPC
\* gives back where it kept them.  Two exceptions: PDAL, where it reads, ignores a
\* height with one bound, and a coordinate system does not come through PDAL.
PointsComeBack(in, out) ==
    LET given == in.chunk.points
        kept == IF in.writing.pdal THEN [i \in DOMAIN given |-> InCopc(given[i])] ELSE given
        asked == ElementsAt(kept, {i \in DOMAIN kept : Contains3(in.window, kept[i])})
        Where(points) == [i \in DOMAIN points |-> <<points[i].x, points[i].z>>]
        oneBound == (in.window.min_z = NoBound) # (in.window.max_z = NoBound)
    IN  out.reply = "result" =>
          IF ~in.writing.pdal
          THEN /\ SameBag(out.value.points, asked)
               /\ out.value.crs = in.chunk.crs
          ELSE (in.reading.laspy \/ ~oneBound) => SameBag(Where(out.value.points), Where(asked))

=============================================================================
