----------------------------- MODULE ServerProofs ----------------------------
(***************************************************************************)
(* The invariants of ServerCalls, for every input of its kind; first what  *)
(* remains to be said of tools: change maps and masks, stores of           *)
(* embeddings, clouds of points, pixels of images.                         *)
(*                                                                         *)
(* Sorting is by rank: the place of a record is the number of records      *)
(* before it (OrderSo).  A store keeps StoreGood through additions,        *)
(* failures, rollbacks and restarts, and a search is of the nearest,       *)
(* whatever the length of their vectors (FoundSo).  What is read of a      *)
(* cloud is taken of what was written, each place once (Taken).            *)
(*                                                                         *)
(* A ring comes back to where it began, so an even number of its edges     *)
(* straddles a level (StraddlesAreEven), and what it contains is in its    *)
(* box.  The border of a cut is crossed as often for the zone on the left  *)
(* as for the one on the right, which has one side more (CutSharesOut).    *)
(***************************************************************************)
EXTENDS ToolProofs

-----------------------------------------------------------------------------
(* geo-foundation-models: the tiles of a change map, and masks.             *)

\* An extent cut into parts of one size, of which the last may be smaller.
Part(n, size, c) == Lesser(size, n - c * size)
InPart(n, size, c, x) == c * size <= x /\ x < c * size + Part(n, size, c)
CutSo(n, size, count) ==
    /\ count \in Nat \ {0}
    /\ \A c \in 0..(count - 1) : Part(n, size, c) \in 1..size
    /\ \A x \in 0..(n - 1) : \E c \in 0..(count - 1) : InPart(n, size, c, x)
    /\ \A c, d \in 0..(count - 1), x \in 0..(n - 1) :
          InPart(n, size, c, x) /\ InPart(n, size, d, x) => c = d
LEMMA CutsMean ==
    ASSUME NEW n \in Nat \ {0}, NEW size \in Nat \ {0}
    PROVE  CutSo(n, size, GridCount(n, size))
<1> SUFFICES ASSUME NEW count, count = (n + size - 1) \div size PROVE CutSo(n, size, count)
  BY DEF GridCount
<1>1. count \in Int /\ (count - 1) * size < n /\ n <= count * size
  <2>1. n + size - 1 \in Int
    OBVIOUS
  <2>2. count \in Int /\ count * size <= n + size - 1 /\ n + size - 1 < (count + 1) * size
    BY <2>1, DivMeans
  <2> SUFFICES ASSUME NEW much \in Int, much = count * size
               PROVE  (count - 1) * size < n /\ n <= count * size
    BY <2>2
  <2>3. (count - 1) * size = much - size /\ (count + 1) * size = much + size
    BY <2>2
  <2> QED
    BY <2>2, <2>3
<1>2. count \in Nat \ {0}
  <2> SUFFICES ASSUME count <= 0 PROVE FALSE
    BY <1>1
  <2>1. count * size <= 0
    BY <1>1
  <2> QED
    BY <1>1, <2>1
<1>3. \A c \in 0..(count - 1) : c * size \in Nat /\ c * size < n
  <2> SUFFICES ASSUME NEW c \in 0..(count - 1) PROVE c * size \in Nat /\ c * size < n
    OBVIOUS
  <2>1. c * size \in Nat /\ c * size <= (count - 1) * size
    BY <1>2
  <2>2. (count - 1) * size \in Int
    BY <1>1
  <2> QED
    BY <1>1, <2>1, <2>2
<1>4. \A c \in 0..(count - 1) : Part(n, size, c) \in 1..size
  <2> SUFFICES ASSUME NEW c \in 0..(count - 1) PROVE Part(n, size, c) \in 1..size
    OBVIOUS
  <2> SUFFICES ASSUME NEW from \in Nat, from = c * size, from < n
               PROVE  Lesser(size, n - from) \in 1..size
    BY <1>3 DEF Part
  <2> QED
    BY DEF Lesser
<1>5. \A x \in 0..(n - 1) : \E c \in 0..(count - 1) : InPart(n, size, c, x)
  <2> SUFFICES ASSUME NEW x \in 0..(n - 1) PROVE \E c \in 0..(count - 1) : InPart(n, size, c, x)
    OBVIOUS
  <2> DEFINE c == x \div size
  <2>1. c \in Int /\ c * size <= x /\ x < (c + 1) * size
    BY DivMeans
  <2> HIDE DEF c
  <2>2. c >= 0
    <3> SUFFICES ASSUME c + 1 <= 0 PROVE FALSE
      BY <2>1
    <3>1. (c + 1) * size <= 0
      BY <2>1
    <3> QED
      BY <2>1, <3>1
  <2>3. c <= count - 1
    <3> SUFFICES ASSUME count <= c PROVE FALSE
      BY <1>1, <2>1
    <3>1. count * size <= c * size
      BY <1>1, <2>1
    <3>2. c * size \in Int /\ count * size \in Int
      BY <1>1, <2>1
    <3> QED
      BY <1>1, <2>1, <3>1, <3>2
  <2>4. x < c * size + Part(n, size, c)
    <3> SUFFICES ASSUME NEW from \in Int, from = c * size
                 PROVE  x < from + Lesser(size, n - from)
      BY <2>1 DEF Part
    <3>1. (c + 1) * size = from + size
      BY <2>1
    <3> QED
      BY <2>1, <3>1 DEF Lesser
  <2>5. c \in 0..(count - 1)
    BY <1>1, <2>1, <2>2, <2>3
  <2> QED
    BY <2>1, <2>4, <2>5 DEF InPart
<1>6. \A c, d \in 0..(count - 1), x \in 0..(n - 1) :
         InPart(n, size, c, x) /\ InPart(n, size, d, x) => c <= d
  <2> SUFFICES ASSUME NEW c \in 0..(count - 1), NEW d \in 0..(count - 1), NEW x \in 0..(n - 1),
                      InPart(n, size, c, x), InPart(n, size, d, x), d + 1 <= c
               PROVE  FALSE
    BY <1>2
  <2>1. (d + 1) * size <= c * size
    BY <1>2
  <2>2. (d + 1) * size = d * size + size /\ d * size \in Int /\ c * size \in Int
    BY <1>2
  <2>3. c * size <= x /\ x < d * size + Part(n, size, d)
    BY DEF InPart
  <2>4. Part(n, size, d) \in 1..size
    BY <1>4
  <2> QED
    BY <2>1, <2>2, <2>3, <2>4
<1>7. \A c, d \in 0..(count - 1), x \in 0..(n - 1) :
         InPart(n, size, c, x) /\ InPart(n, size, d, x) => c = d
  <2>1. \A c, d \in 0..(count - 1) : c <= d /\ d <= c => c = d
    OBVIOUS
  <2> QED
    BY <1>6, <2>1
<1> QED
  BY <1>2, <1>4, <1>5, <1>7 DEF CutSo

\* A pixel of a window in a tile of it.
TileHas(t, p) == /\ t.col <= p[1] /\ p[1] < t.col + t.width
                 /\ t.row <= p[2] /\ p[2] < t.row + t.height
SomeWindow(win) == {win.col, win.row} \subseteq Int /\ {win.width, win.height} \subseteq Nat \ {0}
Pixels(win) == (win.col..(win.col + win.width - 1)) \X (win.row..(win.row + win.height - 1))
LEMMA GridIsWhole ==
    ASSUME NEW win, SomeWindow(win), NEW size \in Nat \ {0}, NEW tiles, tiles = ChangeGrid(win, size)
    PROVE  /\ \A p \in Pixels(win) : Cardinality({t \in tiles : TileHas(t, p)}) = 1
           /\ Cardinality(tiles) \in Nat /\ GridCount(win.width, size) * GridCount(win.height, size) \in Nat
           /\ Cardinality(tiles) <= GridCount(win.width, size) * GridCount(win.height, size)
           /\ \A t \in tiles : t.width \in 1..size /\ t.height \in 1..size
<1>1. /\ win.col \in Int /\ win.row \in Int
      /\ win.width \in Nat \ {0} /\ win.height \in Nat \ {0}
  BY DEF SomeWindow
<1> SUFFICES ASSUME NEW across, across = GridCount(win.width, size),
                    NEW down, down = GridCount(win.height, size)
             PROVE  /\ \A p \in Pixels(win) : Cardinality({t \in tiles : TileHas(t, p)}) = 1
                    /\ Cardinality(tiles) \in Nat /\ across * down \in Nat
                    /\ Cardinality(tiles) <= across * down
                    /\ \A t \in tiles : t.width \in 1..size /\ t.height \in 1..size
  OBVIOUS
<1>2. CutSo(win.width, size, across) /\ CutSo(win.height, size, down)
  BY <1>1, CutsMean
<1> DEFINE C == 0..(across - 1)
           R == 0..(down - 1)
           Tile(c, r) == [col |-> win.col + c * size, row |-> win.row + r * size,
                          width |-> Part(win.width, size, c), height |-> Part(win.height, size, r)]
<1>3. tiles = {Tile(c, r) : c \in C, r \in R}
  BY DEF ChangeGrid, Part
<1>4. across \in Nat \ {0} /\ down \in Nat \ {0}
  BY <1>2 DEF CutSo
<1>5. \A c \in C, r \in R : Tile(c, r).width \in 1..size /\ Tile(c, r).height \in 1..size
  BY <1>2 DEF CutSo
<1>6. ASSUME NEW c \in C, NEW r \in R, NEW p \in Pixels(win)
      PROVE  TileHas(Tile(c, r), p) <=> /\ InPart(win.width, size, c, p[1] - win.col)
                                        /\ InPart(win.height, size, r, p[2] - win.row)
  <2> SUFFICES ASSUME NEW w \in Int, w = Part(win.width, size, c), NEW h \in Int, h = Part(win.height, size, r),
                      NEW a \in Int, a = c * size, NEW b \in Int, b = r * size
               PROVE  (/\ win.col + a <= p[1] /\ p[1] < win.col + a + w
                       /\ win.row + b <= p[2] /\ p[2] < win.row + b + h)
                      <=> (/\ a <= p[1] - win.col /\ p[1] - win.col < a + w
                           /\ b <= p[2] - win.row /\ p[2] - win.row < b + h)
    <3>1. Part(win.width, size, c) \in Int /\ Part(win.height, size, r) \in Int
      BY <1>5
    <3>2. c * size \in Int /\ r * size \in Int
      BY <1>4
    <3> QED
      BY <3>1, <3>2 DEF TileHas, InPart
  <2>1. p[1] \in Int /\ p[2] \in Int
    BY <1>1 DEF Pixels
  <2> QED
    BY <1>1, <2>1
<1>7. ASSUME NEW p \in Pixels(win) PROVE Cardinality({t \in tiles : TileHas(t, p)}) = 1
  <2>1. p[1] - win.col \in 0..(win.width - 1) /\ p[2] - win.row \in 0..(win.height - 1)
    BY <1>1 DEF Pixels
  <2>2. PICK c \in C : InPart(win.width, size, c, p[1] - win.col)
    BY <1>2, <2>1 DEF CutSo
  <2>3. PICK r \in R : InPart(win.height, size, r, p[2] - win.row)
    BY <1>2, <2>1 DEF CutSo
  <2>4. \A d \in C, s \in R : TileHas(Tile(d, s), p) => d = c /\ s = r
    BY <1>2, <1>6, <2>1, <2>2, <2>3 DEF CutSo
  <2>5. TileHas(Tile(c, r), p)
    BY <1>6, <2>2, <2>3
  <2> HIDE DEF Tile, C, R
  <2>6. {t \in tiles : TileHas(t, p)} = {Tile(c, r)}
    BY <1>3, <2>4, <2>5
  <2> QED
    BY <2>6, FS_Singleton
<1>8. /\ Cardinality(tiles) \in Nat /\ across * down \in Nat
      /\ Cardinality(tiles) <= across * down
  <2> DEFINE f == [x \in C \X R |-> Tile(x[1], x[2])]
  <2>1. f \in Surjection(C \X R, tiles)
    <3>1. \A x \in C \X R : f[x] = Tile(x[1], x[2]) /\ x[1] \in C /\ x[2] \in R
      OBVIOUS
    <3>2. \A c \in C, r \in R : <<c, r>> \in C \X R /\ f[<<c, r>>] = Tile(c, r)
      OBVIOUS
    <3>3. f = [x \in C \X R |-> f[x]]
      OBVIOUS
    <3> HIDE DEF f, Tile, C, R
    <3>4. f \in [C \X R -> tiles]
      BY <1>3, <3>1, <3>3
    <3>5. \A t \in tiles : \E x \in C \X R : f[x] = t
      <4> SUFFICES ASSUME NEW t \in tiles PROVE \E x \in C \X R : f[x] = t
        OBVIOUS
      <4>1. PICK c \in C, r \in R : t = Tile(c, r)
        BY <1>3
      <4>2. <<c, r>> \in C \X R /\ f[<<c, r>>] = t
        BY <3>2, <4>1
      <4> QED
        BY <4>2
    <3> QED
      BY <3>4, <3>5 DEF Surjection
  <2>2. IsFiniteSet(C) /\ Cardinality(C) = across /\ IsFiniteSet(R) /\ Cardinality(R) = down
    <3>1. \A k \in Nat \ {0} : IsFiniteSet(0..(k - 1)) /\ Cardinality(0..(k - 1)) = k
      <4> SUFFICES ASSUME NEW k \in Nat \ {0}
                   PROVE  IsFiniteSet(0..(k - 1)) /\ Cardinality(0..(k - 1)) = k
        OBVIOUS
      <4>1. 0 \in Int /\ k - 1 \in Int /\ ~(0 > k - 1) /\ (k - 1) - 0 + 1 = k
        OBVIOUS
      <4> HIDE DEF Tile, f
      <4> QED
        BY <4>1, FS_Interval
    <3> QED
      BY <1>4, <3>1
  <2> HIDE DEF f, C, R
  <2>3. IsFiniteSet(C \X R) /\ Cardinality(C \X R) = across * down
    BY <2>2, FS_Product
  <2>4. IsFiniteSet(tiles) /\ Cardinality(tiles) <= across * down
    BY <2>1, <2>3, FS_Surjection
  <2>5. across * down \in Nat
    BY <1>4
  <2> QED
    BY <2>4, <2>5, FS_CardinalityType
<1> HIDE DEF C, R, Tile
<1>9. \A t \in tiles : t.width \in 1..size /\ t.height \in 1..size
  BY <1>3, <1>5
<1> QED
  BY <1>7, <1>8, <1>9

\* Fields of inputs: each has one of the values that it may have.
FieldsOf(in, good) == DOMAIN good \subseteq DOMAIN in /\ \A g \in DOMAIN good : in[g] \in good[g]
LEMMA AlteredFields ==
    ASSUME NEW inputs, NEW others, NEW good, \A in \in inputs : FieldsOf(in, good),
           \A f \in DOMAIN others \cap DOMAIN good : others[f] \subseteq good[f]
    PROVE  \A in \in Altered(inputs, others) : FieldsOf(in, good)
<1> SUFFICES ASSUME NEW in \in inputs, NEW f \in DOMAIN others, NEW v \in others[f]
             PROVE  FieldsOf([in EXCEPT ![f] = v], good)
  BY DEF Altered
<1>1. DOMAIN good \subseteq DOMAIN in /\ \A g \in DOMAIN good : in[g] \in good[g]
  BY DEF FieldsOf
<1> DEFINE so == [in EXCEPT ![f] = v]
<1>2. DOMAIN so = DOMAIN in /\ \A g \in DOMAIN in : so[g] = IF g = f THEN v ELSE in[g]
  OBVIOUS
<1> HIDE DEF so
<1>3. \A g \in DOMAIN good : so[g] \in good[g]
  BY <1>1, <1>2
<1> QED
  BY <1>1, <1>2, <1>3 DEF FieldsOf, so

\* What a change map is made of.
Backends == {StandIn, "remote", "callable"}
Windows == {OrdinaryTile.win}
ChangeFields == [head |-> {"ok", "4xx"}, tiles |-> {"ok", "network"}, backend |-> Backends,
                 size |-> {1, 2, 3}, maxTiles |-> {3, 9}, win |-> Windows]
LEMMA ChangeInputsAre ==
    ASSUME NEW in \in TileInputs
    PROVE  /\ in.head \in {"ok", "4xx"} /\ in.tiles \in {"ok", "network"} /\ in.backend \in Backends
           /\ in.size \in Nat \ {0} /\ in.maxTiles \in Nat /\ SomeWindow(in.win)
<1>1. DOMAIN ChangeFields = {"head", "tiles", "backend", "size", "maxTiles", "win"}
  BY DEF ChangeFields
<1>2. \A x \in {OrdinaryTile} : FieldsOf(x, ChangeFields)
  <2>1. /\ {"head", "tiles", "backend", "size", "maxTiles", "win"} \subseteq DOMAIN OrdinaryTile
        /\ OrdinaryTile["head"] = "ok" /\ OrdinaryTile["tiles"] = "ok"
        /\ OrdinaryTile["backend"] = StandIn /\ OrdinaryTile["size"] = 2
        /\ OrdinaryTile["maxTiles"] = 9
    BY DEF OrdinaryTile
  <2>2. OrdinaryTile["win"] \in Windows
    BY DEF Windows
  <2>3. /\ ChangeFields["head"] = {"ok", "4xx"} /\ ChangeFields["tiles"] = {"ok", "network"}
        /\ ChangeFields["backend"] = Backends /\ ChangeFields["size"] = {1, 2, 3}
        /\ ChangeFields["maxTiles"] = {3, 9}
        /\ ChangeFields["win"] = Windows
    BY DEF ChangeFields
  <2>4. StandIn \in Backends
    BY DEF Backends
  <2> QED
    BY <1>1, <2>1, <2>2, <2>3, <2>4 DEF FieldsOf
<1>3. \A f \in DOMAIN TileOthers \cap DOMAIN ChangeFields : TileOthers[f] \subseteq ChangeFields[f]
  <2>1. /\ TileOthers["head"] = {"4xx"} /\ TileOthers["tiles"] = {"network"}
        /\ TileOthers["backend"] = {"remote", "callable"} /\ TileOthers["size"] = {1, 3}
        /\ TileOthers["maxTiles"] = {3}
        /\ "win" \notin DOMAIN TileOthers
    BY DEF TileOthers
  <2>3. /\ ChangeFields["head"] = {"ok", "4xx"} /\ ChangeFields["tiles"] = {"ok", "network"}
        /\ ChangeFields["backend"] = Backends /\ ChangeFields["size"] = {1, 2, 3}
        /\ ChangeFields["maxTiles"] = {3, 9}
    BY DEF ChangeFields
  <2>4. {"remote", "callable"} \subseteq Backends
    BY DEF Backends
  <2> QED
    BY <1>1, <2>1, <2>3, <2>4
<1>4. \A x \in Altered({OrdinaryTile}, TileOthers) : FieldsOf(x, ChangeFields)
  BY <1>2, <1>3, AlteredFields
<1>5. \A x \in TileInputs : FieldsOf(x, ChangeFields)
  BY <1>3, <1>4, AlteredFields DEF TileInputs, Twice
<1>6. /\ in["head"] \in {"ok", "4xx"} /\ in["tiles"] \in {"ok", "network"} /\ in["backend"] \in Backends
      /\ in["size"] \in {1, 2, 3}
      /\ in["maxTiles"] \in {3, 9} /\ in["win"] \in Windows
  <2>1. FieldsOf(in, ChangeFields)
    BY <1>5
  <2>3. /\ ChangeFields["head"] = {"ok", "4xx"} /\ ChangeFields["tiles"] = {"ok", "network"}
        /\ ChangeFields["backend"] = Backends /\ ChangeFields["size"] = {1, 2, 3}
        /\ ChangeFields["maxTiles"] = {3, 9}
        /\ ChangeFields["win"] = Windows
    BY DEF ChangeFields
  <2> QED
    BY <1>1, <2>1, <2>3 DEF FieldsOf
<1>7. \A win \in Windows : SomeWindow(win)
  BY DEF Windows, OrdinaryTile, SomeWindow
<1> QED
  BY <1>6, <1>7

\* A change map that is returned is one of the whole window, and within its budget.
ChangeStages(in) ==
    <<CheckOf(in, {"raster_href", "tile_size", "max_tiles", "aoi_bbox", "bands"}),
      CheckThat(in.backend # StandIn \/ ~in.requireReal, "validation"),
      Ask("head", RangeSays(in.head)), Check(OpenSays(in)),
      Ask("head", RangeSays(in.head)), CheckThat(in.aligned, "validation"),
      CheckThat(in.bandExists, "validation"), OutsideStage(in),
      CheckThat(Budget(in), "validation"), Ask("tiles", RangeSays(in.tiles))>>
ChangeWords == {"nobody", "head", "tiles", "endpoint", "ok", "validation", "upstream", "network"}
ChangeStagesSo(stages, in) ==
    /\ stages \in Seq(Stages(ChangeWords))
    /\ DOMAIN stages = 1..14
    /\ stages[2] = CheckThat(in.backend # StandIn \/ ~in.requireReal, "validation")
    /\ stages[9] = CheckThat(Budget(in), "validation")
LEMMA ChangeStagesAre ==
    ASSUME NEW in, in.head \in {"ok", "4xx"}, in.tiles \in {"ok", "network"}, in.backend \in Backends
    PROVE  ChangeStagesSo(ChangeStages(in) \o EmbedStages(in), in)
<1> DEFINE S == Stages(ChangeWords)
           first == ChangeStages(in)
           then == EmbedStages(in)
<1>1. /\ \A ps : CheckOf(in, ps) \in S
      /\ \A b \in BOOLEAN : CheckThat(b, "validation") \in S
      /\ Check(OpenSays(in)) \in S
      /\ Ask("head", RangeSays(in.head)) \in S /\ Ask("tiles", RangeSays(in.tiles)) \in S
  BY DEF Stages, ChangeWords, CheckOf, CheckThat, Check, Ask, OpenSays, RangeSays
<1>2. BackendStage(in) \in S
  BY DEF Stages, ChangeWords, Check, Ask, BackendStage, Backends
<1>3. /\ CheckThat(in.aligned, "validation") \in S /\ CheckThat(in.bandExists, "validation") \in S
      /\ OutsideStage(in) \in S /\ CheckThat(Budget(in), "validation") \in S
      /\ CheckThat(in.dimensionFits, "validation") \in S
      /\ CheckThat(in.backend # StandIn \/ ~in.requireReal, "validation") \in S
  BY DEF Stages, ChangeWords, CheckThat, Check, OutsideStage
<1> HIDE DEF S
<1>4. /\ first \in [1..10 -> S]
      /\ first[2] = CheckThat(in.backend # StandIn \/ ~in.requireReal, "validation")
      /\ first[9] = CheckThat(Budget(in), "validation")
  BY <1>1, <1>3 DEF ChangeStages
<1>5. then \in [1..4 -> S]
  BY <1>1, <1>2, <1>3 DEF EmbedStages
<1> HIDE DEF first, then
<1>6. first \in Seq(S) /\ Len(first) = 10 /\ then \in Seq(S) /\ Len(then) = 4
  BY <1>4, <1>5, FunctionIsSeq
<1>7. /\ first \o then \in Seq(S) /\ Len(first \o then) = Len(first) + Len(then)
      /\ \A i \in 1..(Len(first) + Len(then)) :
            (first \o then)[i] = IF i <= Len(first) THEN first[i] ELSE then[i - Len(first)]
  BY <1>6, ConcatProperties, Zenon
<1> SUFFICES ASSUME NEW all, all = first \o then
             PROVE  ChangeStagesSo(all, in)
  BY Zenon DEF first, then
<1>8. /\ all \in Seq(S) /\ Len(all) = Len(first) + Len(then)
      /\ \A i \in 1..(Len(first) + Len(then)) :
            all[i] = IF i <= Len(first) THEN first[i] ELSE then[i - Len(first)]
  BY <1>7, Zenon
<1>9. /\ Len(all) = 14 /\ all[2] = first[2] /\ all[9] = first[9]
  BY <1>6, <1>8
<1> QED
  BY <1>4, <1>8, <1>9, LenProperties DEF ChangeStagesSo, S

LEMMA ChangeMapsAreWhole ==
    ASSUME NEW in, in.head \in {"ok", "4xx"}, in.tiles \in {"ok", "network"}, in.backend \in Backends,
           in.size \in Nat \ {0}, in.maxTiles \in Nat, SomeWindow(in.win)
    PROVE  ChangeMapIsWhole(in, ChangeMap(in))
<1> DEFINE stages == ChangeStages(in) \o EmbedStages(in)
           value == [caveat |-> Caveat(in.backend, in.noPixels), calibrated |-> in.backend # StandIn,
                     cells |-> ChangeGrid(in.win, in.size)]
<1>1. ChangeMap(in) = Staged(stages, value)
  BY Zenon DEF ChangeMap, ChangeStages
<1>2. ChangeStagesSo(stages, in)
  BY ChangeStagesAre
<1>3. value.caveat = Caveat(in.backend, in.noPixels) /\ value.cells = ChangeGrid(in.win, in.size)
  OBVIOUS
<1> HIDE DEF stages, value
<1>4. \A i \in DOMAIN stages : stages[i].says # "result"
  <2>1. \A i \in DOMAIN stages : stages[i].says \in ChangeWords
    BY <1>2, StageWords DEF ChangeStagesSo
  <2> QED
    BY <2>1 DEF ChangeWords
<1>5. SUFFICES ASSUME NEW so, so = Staged(stages, value), so.reply = "result"
               PROVE  ChangeMapIsWhole(in, so)
  BY <1>1, Zenon DEF ChangeMapIsWhole
<1>6. so.value = value /\ \A i \in DOMAIN stages : stages[i].says = "ok"
  <2>1. /\ Staged(stages, value).reply = "result" <=>
                 \A i \in DOMAIN stages : stages[i].says = "ok"
        /\ Staged(stages, value).reply = "result" =>
                 /\ Staged(stages, value).value = value
                 /\ Staged(stages, value).sent = Asked(stages, Len(stages))
    BY <1>2, <1>4, StagedReturns DEF ChangeStagesSo
  <2> QED
    BY <1>5, <2>1, Zenon
<1>7. Budget(in) /\ (in.backend = StandIn => ~in.requireReal)
  <2>1. stages[2].says = "ok" /\ stages[9].says = "ok"
    BY <1>2, <1>6 DEF ChangeStagesSo
  <2> QED
    BY <1>2, <2>1 DEF ChangeStagesSo, CheckThat, Check
<1>8. in.backend = StandIn => value.caveat
  BY <1>3 DEF Caveat
<1> SUFFICES ASSUME NEW tiles, tiles = ChangeGrid(in.win, in.size)
             PROVE  ChangeMapIsWhole(in, so)
  OBVIOUS
<1>9. so.value.cells = tiles
  BY <1>3, <1>6
<1>10. /\ \A p \in Pixels(in.win) : Cardinality({t \in tiles : TileHas(t, p)}) = 1
       /\ Cardinality(tiles) \in Nat
       /\ GridCount(in.win.width, in.size) * GridCount(in.win.height, in.size) \in Nat
       /\ Cardinality(tiles) <= GridCount(in.win.width, in.size) * GridCount(in.win.height, in.size)
       /\ \A t \in tiles : t.width \in 1..in.size /\ t.height \in 1..in.size
  BY GridIsWhole
<1>11. Cardinality(tiles) <= in.maxTiles
  BY <1>7, <1>10 DEF Budget
<1> QED
  BY <1>6, <1>7, <1>8, <1>9, <1>10, <1>11, Zenon DEF ChangeMapIsWhole, TileHas, Pixels

\* A brighter pixel never has a lower class.
LEMMA ClassesRise ==
    ASSUME NEW low \in Int, NEW high \in Int, NEW v \in Int, NEW w \in Int,
           low <= v, v <= w, w <= high
    PROVE  AutoLabel(v, low, high) \in 1..AutoSegments /\ AutoLabel(v, low, high) <= AutoLabel(w, low, high)
<1>1. AutoSegments = 8
  BY DEF AutoSegments
<1>2. CASE high <= low
  BY <1>1, <1>2 DEF AutoLabel
<1>3. CASE high > low
  <2> SUFFICES ASSUME NEW n \in Nat \ {0}, n = high - low,
                      NEW x \in Nat, x = (v - low) * 8, NEW y \in Nat, y = (w - low) * 8, x <= y
               PROVE  /\ Lesser(x \div n, 7) + 1 \in 1..8
                      /\ Lesser(x \div n, 7) + 1 <= Lesser(y \div n, 7) + 1
    <3>1. high - low \in Nat \ {0} /\ (v - low) * 8 \in Nat /\ (w - low) * 8 \in Nat
          /\ (v - low) * 8 <= (w - low) * 8 /\ 8 - 1 = 7
      BY <1>3
    <3> QED
      BY <1>1, <1>3, <3>1 DEF AutoLabel
  <2>0. n \in Nat \ {0} /\ x \in Int /\ y \in Int
    OBVIOUS
  <2>1a. x \div n \in Int /\ (x \div n) * n <= x /\ x < (x \div n + 1) * n
    BY ONLY <2>0, DivMeans
  <2>1b. y \div n \in Int /\ (y \div n) * n <= y /\ y < (y \div n + 1) * n
    BY ONLY <2>0, DivMeans
  <2>1. x \div n \in Int /\ (x \div n) * n <= x /\ x < (x \div n + 1) * n
        /\ y \div n \in Int /\ (y \div n) * n <= y /\ y < (y \div n + 1) * n
    BY <2>1a, <2>1b, Zenon
  <2> SUFFICES ASSUME NEW a \in Int, a = x \div n, NEW b \in Int, b = y \div n
               PROVE  Lesser(a, 7) + 1 \in 1..8 /\ Lesser(a, 7) + 1 <= Lesser(b, 7) + 1
    BY <2>1
  <2>2. a >= 0
    <3> SUFFICES ASSUME a + 1 <= 0 PROVE FALSE
      OBVIOUS
    <3>1. (a + 1) * n <= 0
      OBVIOUS
    <3> QED
      BY <2>1, <3>1
  <2>3. a <= b
    <3> SUFFICES ASSUME b + 1 <= a PROVE FALSE
      OBVIOUS
    <3>1. (b + 1) * n <= a * n
      OBVIOUS
    <3> QED
      BY <2>1, <3>1
  <2> QED
    BY <2>2, <2>3 DEF Lesser
<1> QED
  BY <1>2, <1>3

\* Of some points one is the nearest, the first of several.
LEMMA NearestIsThere ==
    ASSUME NEW n \in Nat, NEW points \in SUBSET (1..n), points # {}, NEW far \in [1..n -> Nat]
    PROVE  \E i \in points : \A j \in points : far[i] < far[j] \/ (far[i] = far[j] /\ i <= j)
<1>1. \E i \in points : \A j \in points : far[i] <= far[j]
  <2> DEFINE T == {far[i] : i \in points}
  <2>1. T \in SUBSET Nat /\ T # {} /\ \A i \in points : far[i] \in T
    OBVIOUS
  <2>2. \A d \in T : \E i \in points : d = far[i]
    OBVIOUS
  <2> HIDE DEF T
  <2>3. PICK d \in T : \A e \in T : d <= e
    BY <2>1, LeastOf
  <2> QED
    BY <2>1, <2>2, <2>3
<1>2. PICK near \in points : \A j \in points : far[near] <= far[j]
  BY <1>1
<1> DEFINE First == {i \in points : far[i] = far[near]}
<1>3. First \in SUBSET Nat /\ First # {}
  <2>1. near \in First
    BY <1>2
  <2>2. \A i \in points : i \in Nat
    OBVIOUS
  <2> QED
    BY <2>1, <2>2
<1>4. PICK i \in First : \A j \in First : i <= j
  <2> HIDE DEF First
  <2> QED
    BY <1>3, LeastOf
<1>5. i \in points /\ far[i] = far[near] /\ far[i] \in Nat
  BY <1>4
<1>6. \A j \in points : far[i] < far[j] \/ (far[i] = far[j] /\ i <= j)
  <2> SUFFICES ASSUME NEW j \in points PROVE far[i] < far[j] \/ (far[i] = far[j] /\ i <= j)
    OBVIOUS
  <2>1. far[j] \in Nat /\ far[i] <= far[j]
    BY <1>2, <1>5
  <2>2. CASE far[i] = far[j]
    BY <1>4, <1>5, <2>2
  <2> QED
    BY <1>5, <2>1, <2>2
<1> QED
  BY <1>5, <1>6

\* A square is no negative number, and 0 only of 0.
LEMMA Squares ==
    ASSUME NEW x \in Int
    PROVE  x * x \in Nat /\ (x * x = 0 => x = 0)
<1>1. CASE x >= 0
  <2>1. CASE x = 0
    BY <2>1
  <2>2. CASE x # 0
    <3>1. x - 1 \in Nat /\ x \in Nat /\ (x - 1) * x \in Nat /\ (x - 1) * x = x * x - x
      BY <1>1, <2>2
    <3> QED
      BY <2>2, <3>1
  <2> QED
    BY <2>1, <2>2
<1>2. CASE x < 0
  <2> SUFFICES ASSUME NEW y \in Nat \ {0}, y = 0 - x PROVE x * x \in Nat \ {0}
    <3>1. 0 - x \in Nat \ {0}
      BY <1>2
    <3> QED
      BY <3>1
  <2>1. y - 1 \in Nat /\ (y - 1) * y \in Nat /\ (y - 1) * y = y * y - y /\ x * x = y * y
    OBVIOUS
  <2> QED
    BY <2>1
<1> QED
  BY <1>1, <1>2

Prompted(prompts, n) ==
    /\ DOMAIN prompts = 1..n
    /\ \A i \in 1..n : /\ prompts[i].type \in {"box", "point"}
                       /\ prompts[i].x1 \in Int /\ prompts[i].y1 \in Int
\* What the number of a pixel says.
LEMMA LabelMeans ==
    ASSUME NEW n \in Nat, NEW prompts, Prompted(prompts, n), NEW x \in Int, NEW y \in Int
    PROVE  LET boxed == {i \in DOMAIN prompts : prompts[i].type = "box" /\ InBox(prompts[i], x, y)}
               here == {i \in DOMAIN prompts : /\ prompts[i].type = "point"
                                     /\ prompts[i].x1 = x /\ prompts[i].y1 = y}
               label == Label(prompts, x, y)
           IN  /\ boxed # {} => label \in boxed
               /\ boxed = {} /\ here # {} => label \in here
               /\ label = 0 => boxed = {} /\ \A i \in DOMAIN prompts : prompts[i].type # "point"
<1> DEFINE boxed == {i \in DOMAIN prompts : prompts[i].type = "box" /\ InBox(prompts[i], x, y)}
           here == {i \in DOMAIN prompts : prompts[i].type = "point" /\ prompts[i].x1 = x /\ prompts[i].y1 = y}
           label == Label(prompts, x, y)
           points == {i \in DOMAIN prompts : prompts[i].type = "point"}
           Dist(i) == (x - prompts[i].x1) * (x - prompts[i].x1)
                      + (y - prompts[i].y1) * (y - prompts[i].y1)
           Near(i) == \A j \in points : Dist(i) < Dist(j) \/ (Dist(i) = Dist(j) /\ i <= j)
<1>1. label = IF boxed # {} THEN Max(boxed) ELSE IF points = {} THEN 0
              ELSE CHOOSE i \in points : Near(i)
  BY Zenon DEF Label
<1>12. DOMAIN prompts = 1..n
  BY DEF Prompted
<1>2. \A i \in 1..n : /\ Dist(i) \in Nat
                      /\ Dist(i) = 0 <=> prompts[i].x1 = x /\ prompts[i].y1 = y
  <2> SUFFICES ASSUME NEW i \in 1..n
               PROVE  Dist(i) \in Nat /\ (Dist(i) = 0 <=> prompts[i].x1 = x /\ prompts[i].y1 = y)
    OBVIOUS
  <2> SUFFICES ASSUME NEW a \in Int, a = x - prompts[i].x1, NEW b \in Int, b = y - prompts[i].y1
               PROVE  /\ a * a + b * b \in Nat
                      /\ a * a + b * b = 0 <=> prompts[i].x1 = x /\ prompts[i].y1 = y
    <3>1. prompts[i].x1 \in Int /\ prompts[i].y1 \in Int
      BY DEF Prompted
    <3>2. x - prompts[i].x1 \in Int /\ y - prompts[i].y1 \in Int
      BY <3>1
    <3> QED
      BY <3>2
  <2>1. a * a \in Nat /\ b * b \in Nat /\ (a * a = 0 <=> a = 0) /\ (b * b = 0 <=> b = 0)
    <3>1. \A c \in Int : c * c \in Nat /\ (c * c = 0 => c = 0)
      BY Squares
    <3>2. 0 * 0 = 0
      OBVIOUS
    <3> QED
      BY <3>1, <3>2, Zenon
  <2>2. a * a + b * b \in Nat /\ (a * a + b * b = 0 <=> a = 0 /\ b = 0)
    <3>1. \A s, t \in Nat : s + t \in Nat /\ (s + t = 0 <=> s = 0 /\ t = 0)
      OBVIOUS
    <3> QED
      BY ONLY <2>1, <3>1, Zenon
  <2>3. (a = 0 <=> prompts[i].x1 = x) /\ (b = 0 <=> prompts[i].y1 = y)
    BY DEF Prompted
  <2> QED
    BY <2>1, <2>2, <2>3
<1>3. /\ boxed \in SUBSET (1..n) /\ points \in SUBSET (1..n) /\ here \subseteq points
      /\ \A i \in points : i \in 1..n /\ prompts[i].type = "point"
      /\ \A i \in 1..n : i # 0 /\ (prompts[i].type = "point" => i \in points)
  BY <1>12
<1>4. \A i \in points : i \in here <=> Dist(i) = 0
  <2> HIDE DEF Dist
  <2> QED
    BY <1>2, <1>12
<1> DEFINE far == [i \in 1..n |-> Dist(i)]
<1>5. far \in [1..n -> Nat] /\ \A i \in 1..n : far[i] = Dist(i)
  BY <1>2
<1> HIDE DEF boxed, here, label, Dist, far, points
<1>6. points # {} => \E i \in points : Near(i)
  <2> SUFFICES ASSUME points # {} PROVE \E i \in points : Near(i)
    OBVIOUS
  <2>1. PICK i \in points : \A j \in points : far[i] < far[j] \/ (far[i] = far[j] /\ i <= j)
    BY <1>3, <1>5, NearestIsThere
  <2> QED
    BY <1>3, <1>5, <2>1
<1>7. boxed # {} => label \in boxed
  BY <1>1, <1>3, MaxIsThere
<1>8. boxed = {} /\ points # {} => label \in points /\ Near(label)
  BY <1>1, <1>6
<1>9. boxed = {} /\ here # {} => label \in here
  <2> SUFFICES ASSUME boxed = {}, NEW h \in here PROVE label \in here
    OBVIOUS
  <2>1. label \in points /\ Near(label) /\ h \in points
    BY <1>3, <1>8
  <2>2. Dist(h) = 0 /\ Dist(label) \in Nat
    BY <1>2, <1>3, <1>4, <2>1
  <2>3. Dist(label) = 0
    BY <2>1, <2>2
  <2> QED
    BY <1>4, <2>1, <2>3
<1>10. label = 0 => boxed = {} /\ points = {}
  BY <1>3, <1>7, <1>8
<1>11. label = 0 => \A i \in DOMAIN prompts : prompts[i].type # "point"
  BY <1>3, <1>10, <1>12
<1> HIDE DEF Near
<1> QED
  BY <1>7, <1>9, <1>10, <1>11 DEF boxed, here, label

\* With prompts: a mask says of each pixel what prompts hold it or are there.
LEMMA PromptedMaskIsWhole ==
    ASSUME NEW n \in Nat \ {0}, NEW prompts, Prompted(prompts, n), prompts # <<>>,
           NEW data, DOMAIN data \subseteq Int \X Int
    PROVE  MaskIsWhole(data, prompts, Mask(data, prompts))
<1> SUFFICES ASSUME NEW p \in DOMAIN data, NEW mask, mask = Mask(data, prompts)
             PROVE  LET boxed == {i \in DOMAIN prompts : prompts[i].type = "box" /\ InBox(prompts[i], p[1], p[2])}
                        here == {i \in DOMAIN prompts : prompts[i].type = "point"
                                            /\ <<prompts[i].x1, prompts[i].y1>> = p}
                        points == \E i \in DOMAIN prompts : prompts[i].type = "point"
                    IN  /\ boxed # {} => mask[p] \in boxed
                        /\ boxed = {} /\ here # {} => mask[p] \in here
                        /\ mask[p] = 0 => boxed = {} /\ ~points
  BY Zenon DEF MaskIsWhole
<1>1. mask[p] = Label(prompts, p[1], p[2])
  BY DEF Mask
<1>2. p[1] \in Int /\ p[2] \in Int /\ p = <<p[1], p[2]>>
  OBVIOUS
<1> DEFINE boxed == {i \in DOMAIN prompts : prompts[i].type = "box" /\ InBox(prompts[i], p[1], p[2])}
           here == {i \in DOMAIN prompts : prompts[i].type = "point" /\ <<prompts[i].x1, prompts[i].y1>> = p}
           there == {i \in DOMAIN prompts : /\ prompts[i].type = "point"
                                            /\ prompts[i].x1 = p[1] /\ prompts[i].y1 = p[2]}
           label == Label(prompts, p[1], p[2])
<1>3. here = there
  <2>1. \A i \in DOMAIN prompts : <<prompts[i].x1, prompts[i].y1>> = p
                                     <=> prompts[i].x1 = p[1] /\ prompts[i].y1 = p[2]
    BY <1>2
  <2> QED
    BY <2>1
<1>4. /\ boxed # {} => label \in boxed
      /\ boxed = {} /\ there # {} => label \in there
      /\ label = 0 => boxed = {} /\ \A i \in DOMAIN prompts : prompts[i].type # "point"
  BY <1>2, LabelMeans
<1> HIDE DEF boxed, there, here
<1>5. /\ boxed # {} => mask[p] \in boxed
      /\ boxed = {} /\ here # {} => mask[p] \in here
      /\ mask[p] = 0 => boxed = {} /\ ~\E i \in DOMAIN prompts : prompts[i].type = "point"
  BY <1>1, <1>3, <1>4
<1> QED
  BY <1>5 DEF boxed, here

\* Without: the classes rise with the intensity.
LEMMA AutomaticMaskIsWhole ==
    ASSUME NEW top \in Nat, NEW data, DOMAIN data # {}, \A p \in DOMAIN data : data[p] \in 0..top
    PROVE  MaskIsWhole(data, <<>>, Mask(data, <<>>))
<1> SUFFICES ASSUME NEW values, values = {data[p] : p \in DOMAIN data},
                    NEW low, low = Min(values), NEW high, high = Max(values),
                    NEW mask, mask = Mask(data, <<>>)
             PROVE  MaskIsWhole(data, <<>>, mask)
  OBVIOUS
<1>1. values \in SUBSET (0..top) /\ values \in SUBSET Nat /\ values # {}
  OBVIOUS
<1>2. \A p \in DOMAIN data : data[p] \in values
  OBVIOUS
<1>3. mask = [p \in DOMAIN data |-> AutoLabel(data[p], low, high)]
  <2>1. <<>> = <<>>
    OBVIOUS
  <2> QED
    BY <2>1 DEF Mask
<1>4. low \in Int /\ \A v \in values : low <= v
  <2>1. Min(values) \in values /\ \A v \in values : Min(values) <= v
    BY <1>1, MinIsLeast
  <2> QED
    BY <1>1, <2>1
<1>5. high \in Int /\ \A v \in values : v <= high
  <2>1. Max(values) \in values /\ \A v \in values : v <= Max(values)
    BY <1>1, MaxIsGreatest
  <2> QED
    BY <1>1, <2>1
<1>6. \A p, q \in DOMAIN data : data[p] <= data[q] =>
         /\ AutoLabel(data[p], low, high) \in 1..AutoSegments
         /\ AutoLabel(data[p], low, high) <= AutoLabel(data[q], low, high)
  <2> SUFFICES ASSUME NEW p \in DOMAIN data, NEW q \in DOMAIN data, data[p] <= data[q]
               PROVE  /\ AutoLabel(data[p], low, high) \in 1..AutoSegments
                      /\ AutoLabel(data[p], low, high) <= AutoLabel(data[q], low, high)
    OBVIOUS
  <2>1. /\ data[p] \in Int /\ data[q] \in Int
        /\ low <= data[p] /\ data[q] <= high
    BY <1>1, <1>2, <1>4, <1>5
  <2> QED
    BY <1>4, <1>5, <2>1, ClassesRise
<1>7. \A p \in DOMAIN data : data[p] <= data[p]
  OBVIOUS
<1>8. \A p, q \in DOMAIN data : /\ mask[p] \in 1..AutoSegments
                                /\ data[p] <= data[q] => mask[p] <= mask[q]
  BY <1>3, <1>6, <1>7
<1> QED
  BY <1>8, Zenon DEF MaskIsWhole

LEMMA MasksAreWhole ==
    ASSUME NEW in \in MaskInputs
    PROVE  MaskIsWhole(in.data, in.prompts, Mask(in.data, in.prompts))
<1> DEFINE Told == [data : {[p \in (0..2) \X (0..1) |-> 0]}, prompts : UNION {[1..n -> Prompts] : n \in 1..2}]
           Untold == [data : [(0..1) \X (0..1) -> {0, 3, 4, 20}], prompts : {<<>>}]
<1>3. in \in Told \/ in \in Untold
  BY DEF MaskInputs
<1>1. CASE in \in Untold
  <2>2. in.data \in [(0..1) \X (0..1) -> {0, 3, 4, 20}] /\ in.prompts = <<>>
    BY <1>1
  <2>3. /\ DOMAIN in.data = (0..1) \X (0..1) /\ <<0, 0>> \in (0..1) \X (0..1)
        /\ \A p \in DOMAIN in.data : in.data[p] \in 0..20
    BY <2>2
  <2> QED
    BY <2>2, <2>3, AutomaticMaskIsWhole
<1>2. CASE in \in Told
  <2>2. PICK n \in 1..2 : in.prompts \in [1..n -> Prompts]
    BY <1>2
  <2>3. DOMAIN in.data \subseteq Int \X Int
    BY <1>2
  <2>4. \A q \in Prompts : q.type \in {"box", "point"} /\ q.x1 \in Int /\ q.y1 \in Int
    BY DEF Prompts
  <2>5. Prompted(in.prompts, n) /\ n \in Nat \ {0}
    BY <2>2, <2>4 DEF Prompted
  <2>6. in.prompts # <<>>
    BY <2>2
  <2> QED
    BY <2>3, <2>5, <2>6, PromptedMaskIsWhole
<1> QED
  BY <1>1, <1>2, <1>3

-----------------------------------------------------------------------------
(* The steps of ServerCalls.                                                *)

\* A call bears the name of its tool.
LEMMA SourceNames ==
    /\ CallGeocode => call'.tool = "geocode"
    /\ CallReverseGeocode => call'.tool = "reverse_geocode"
    /\ CallRoute => call'.tool = "route"
    /\ CallIsochrone => call'.tool = "isochrone"
    /\ CallOccurrences => call'.tool = "species_occurrences"
    /\ CallObservations => call'.tool = "observations"
    /\ CallVectorFeatures => call'.tool = "vector_features"
    /\ CallOgcFeatures => call'.tool = "ogc_features"
    /\ CallSql => call'.tool = "spatial_sql"
<1>1. ASSUME CallGeocode PROVE call'.tool = "geocode"
  BY <1>1 DEF CallGeocode, Serve
<1>2. ASSUME CallReverseGeocode PROVE call'.tool = "reverse_geocode"
  BY <1>2 DEF CallReverseGeocode, Serve
<1>3. ASSUME CallRoute PROVE call'.tool = "route"
  BY <1>3 DEF CallRoute, Serve
<1>4. ASSUME CallIsochrone PROVE call'.tool = "isochrone"
  BY <1>4 DEF CallIsochrone, Serve
<1>5. ASSUME CallOccurrences PROVE call'.tool = "species_occurrences"
  BY <1>5 DEF CallOccurrences, Serve
<1>6. ASSUME CallObservations PROVE call'.tool = "observations"
  BY <1>6 DEF CallObservations, Serve
<1>7. ASSUME CallVectorFeatures PROVE call'.tool = "vector_features"
  BY <1>7 DEF CallVectorFeatures, Serve
<1>8. ASSUME CallOgcFeatures PROVE call'.tool = "ogc_features"
  BY <1>8 DEF CallOgcFeatures, Serve
<1>9. ASSUME CallSql PROVE call'.tool = "spatial_sql"
  BY <1>9 DEF CallSql, Serve
<1> QED
  BY <1>1, <1>2, <1>3, <1>4, <1>5, <1>6, <1>7, <1>8, <1>9

LEMMA ImageNames ==
    /\ CallZonal => call'.tool = "zonal_statistics"
    /\ CallReadWindow => call'.tool = "read_window"
    /\ CallBandMath => call'.tool = "band_math"
    /\ CallZonalBandMath => call'.tool = "zonal_band_math"
    /\ CallDemZonal => call'.tool = "dem_zonal"
    /\ CallElevation => call'.tool = "elevation"
    /\ CallDerived => call'.tool = "slope"
    /\ CallEmbedTile => call'.tool = "embed_tile"
    /\ CallEmbedAsset => call'.tool = "embed_asset"
    /\ CallEmbedAssets => call'.tool = "embed_assets"
    /\ CallDetectChange => call'.tool = "detect_change"
    /\ CallChangeMap => call'.tool = "change_map"
    /\ CallSegment => call'.tool = "segment"
    /\ CallLookup => call'.tool = "lookup_embeddings"
<1>1. ASSUME CallZonal PROVE call'.tool = "zonal_statistics"
  BY <1>1 DEF CallZonal, Serve
<1>2. ASSUME CallReadWindow PROVE call'.tool = "read_window"
  BY <1>2 DEF CallReadWindow, Serve
<1>3. ASSUME CallBandMath PROVE call'.tool = "band_math"
  BY <1>3 DEF CallBandMath, Serve
<1>4. ASSUME CallZonalBandMath PROVE call'.tool = "zonal_band_math"
  BY <1>4 DEF CallZonalBandMath, Serve
<1>5. ASSUME CallDemZonal PROVE call'.tool = "dem_zonal"
  BY <1>5 DEF CallDemZonal, Serve
<1>6. ASSUME CallElevation PROVE call'.tool = "elevation"
  BY <1>6 DEF CallElevation, Serve
<1>7. ASSUME CallDerived PROVE call'.tool = "slope"
  BY <1>7 DEF CallDerived, Serve
<1>8. ASSUME CallEmbedTile PROVE call'.tool = "embed_tile"
  BY <1>8 DEF CallEmbedTile, Serve
<1>9. ASSUME CallEmbedAsset PROVE call'.tool = "embed_asset"
  BY <1>9 DEF CallEmbedAsset, Serve
<1>10. ASSUME CallEmbedAssets PROVE call'.tool = "embed_assets"
  BY <1>10 DEF CallEmbedAssets, Serve
<1>11. ASSUME CallDetectChange PROVE call'.tool = "detect_change"
  BY <1>11 DEF CallDetectChange, Serve
<1>12. ASSUME CallChangeMap PROVE call'.tool = "change_map"
  BY <1>12 DEF CallChangeMap, Serve
<1>13. ASSUME CallSegment PROVE call'.tool = "segment"
  BY <1>13 DEF CallSegment, Serve
<1>14. ASSUME CallLookup PROVE call'.tool = "lookup_embeddings"
  BY <1>14 DEF CallLookup, Serve
<1> QED
  BY <1>1, <1>2, <1>3, <1>4, <1>5, <1>6, <1>7, <1>8, <1>9, <1>10, <1>11, <1>12, <1>13, <1>14

LEMMA FileNames ==
    /\ CallReadPointcloud => call'.tool = "read_pointcloud"
    /\ CallTiles => call'.tool = "points_to_3d_tiles"
    /\ CallMesh => call'.tool = "dem_to_mesh"
    /\ CallInspect => call'.tool = "inspect_tileset"
    /\ CallInspectGltf => call'.tool = "inspect_gltf"
    /\ StoreEmbeddings => call'.tool = "store_embedding"
    /\ CallSearch => call'.tool = "search_embeddings"
    /\ CallPlan => call'.tool = "plan_execution"
    /\ CallDelegate => call'.tool = "execute_or_delegate"
<1>1. ASSUME CallReadPointcloud PROVE call'.tool = "read_pointcloud"
  BY <1>1 DEF CallReadPointcloud, Serve
<1>2. ASSUME CallTiles PROVE call'.tool = "points_to_3d_tiles"
  BY <1>2 DEF CallTiles, Serve
<1>3. ASSUME CallMesh PROVE call'.tool = "dem_to_mesh"
  BY <1>3 DEF CallMesh, Serve
<1>4. ASSUME CallInspect PROVE call'.tool = "inspect_tileset"
  BY <1>4 DEF CallInspect, Serve
<1>5. ASSUME CallInspectGltf PROVE call'.tool = "inspect_gltf"
  BY <1>5 DEF CallInspectGltf, Serve
<1>6. ASSUME StoreEmbeddings PROVE call'.tool = "store_embedding"
  BY <1>6 DEF StoreEmbeddings, Serve
<1>7. ASSUME CallPlan PROVE call'.tool = "plan_execution"
  BY <1>7 DEF CallPlan, Serve
<1>8. ASSUME CallDelegate PROVE call'.tool = "execute_or_delegate"
  BY <1>8 DEF CallDelegate, Serve
<1>9. ASSUME CallSearch PROVE call'.tool = "search_embeddings"
  BY <1>9 DEF CallSearch, Serve
<1> QED
  BY <1>1, <1>2, <1>3, <1>4, <1>5, <1>6, <1>7, <1>8, <1>9

LEMMA ComputeNames ==
    /\ ReadPixels => call'.tool = "pixels"
    /\ Decompress => call'.tool = "lzw"
    /\ UndoPredictor => call'.tool = "row"
    /\ UndoFloatPredictor => call'.tool = "float_row"
    /\ FindWindow => call'.tool = "window"
    /\ FindZones => call'.tool = "zones"
    /\ MakeMosaic => call'.tool = "mosaic"
    /\ FindTiles => call'.tool = "tiles"
    /\ LookDown => call'.tool = "aspect"
    /\ FindUtmZones => call'.tool = "utm"
    /\ LayOut => call'.tool = "layout"
    /\ AskRange => call'.tool = "range"
    /\ GroupRows => call'.tool = "cdo_rows"
    /\ LabelPixels => call'.tool = "mask"
<1>1. ASSUME ReadPixels PROVE call'.tool = "pixels"
  <2>1. \E in \in Images : call' = [tool |-> "pixels", in |-> in]
    BY <1>1, Zenon DEF ReadPixels, Serve
  <2> QED
    BY <2>1
<1>2. ASSUME Decompress PROVE call'.tool = "lzw"
  BY <1>2 DEF Decompress, Serve
<1>3. ASSUME UndoPredictor PROVE call'.tool = "row"
  BY <1>3 DEF UndoPredictor, Serve
<1>4. ASSUME UndoFloatPredictor PROVE call'.tool = "float_row"
  BY <1>4 DEF UndoFloatPredictor, Serve
<1>5. ASSUME FindWindow PROVE call'.tool = "window"
  BY <1>5 DEF FindWindow, Serve
<1>6. ASSUME FindZones PROVE call'.tool = "zones"
  BY <1>6 DEF FindZones, Serve
<1>7. ASSUME MakeMosaic PROVE call'.tool = "mosaic"
  BY <1>7 DEF MakeMosaic, Serve
<1>8. ASSUME FindTiles PROVE call'.tool = "tiles"
  BY <1>8 DEF FindTiles, Serve
<1>9. ASSUME LookDown PROVE call'.tool = "aspect"
  BY <1>9 DEF LookDown, Serve
<1>10. ASSUME FindUtmZones PROVE call'.tool = "utm"
  BY <1>10 DEF FindUtmZones, Serve
<1>11. ASSUME LayOut PROVE call'.tool = "layout"
  BY <1>11 DEF LayOut, Serve
<1>12. ASSUME AskRange PROVE call'.tool = "range"
  BY <1>12 DEF AskRange, Serve
<1>13. ASSUME GroupRows PROVE call'.tool = "cdo_rows"
  BY <1>13 DEF GroupRows, Serve
<1>14. ASSUME LabelPixels PROVE call'.tool = "mask"
  BY <1>14 DEF LabelPixels, Serve
<1> QED
  BY <1>1, <1>2, <1>3, <1>4, <1>5, <1>6, <1>7, <1>8, <1>9, <1>10, <1>11, <1>12, <1>13, <1>14

\* No other tool falls back on anything.
LEMMA OthersNeverFallBack ==
    ASSUME call'.tool \notin {"geocode", "reverse_geocode", "route", "isochrone", "execute_or_delegate"}
    PROVE  FallbackIsHonest'
  BY DEF FallbackIsHonest, Called

\* The five tools that fall back on something.
LEMMA FallbackSteps ==
    /\ CallGeocode => FallbackIsHonest'
    /\ CallReverseGeocode => FallbackIsHonest'
    /\ CallRoute => FallbackIsHonest'
    /\ CallIsochrone => FallbackIsHonest'
    /\ CallDelegate => FallbackIsHonest'
<1>1. ASSUME CallGeocode PROVE FallbackIsHonest'
  <2>1. PICK in \in GeocodeInputs : call' = [tool |-> "geocode", in |-> in] /\ out' = Geocode(in)
    BY <1>1 DEF CallGeocode, Serve
  <2>2. call'.tool = "geocode" /\ call'.in = in
    BY <2>1
  <2> QED
    BY <2>1, <2>2, GeocodersAreHonest DEF FallbackIsHonest, Called, Accepted
<1>2. ASSUME CallReverseGeocode PROVE FallbackIsHonest'
  <2>1. PICK in \in GeocodeInputs :
           call' = [tool |-> "reverse_geocode", in |-> in] /\ out' = ReverseGeocode(in)
    BY <1>2 DEF CallReverseGeocode, Serve
  <2>2. call'.tool = "reverse_geocode" /\ call'.in = in
    BY <2>1
  <2> QED
    BY <2>1, <2>2, GeocodersAreHonest DEF FallbackIsHonest, Called, Accepted
<1>3. ASSUME CallRoute PROVE FallbackIsHonest'
  <2>1. PICK in \in RouteInputs : call' = [tool |-> "route", in |-> in] /\ out' = FindRoute(in)
    BY <1>3 DEF CallRoute, Serve
  <2>2. call'.tool = "route" /\ call'.in = in
    BY <2>1
  <2> QED
    BY <2>1, <2>2, RoutersAreHonest DEF FallbackIsHonest, Called, Accepted
<1>4. ASSUME CallIsochrone PROVE FallbackIsHonest'
  <2>1. PICK in \in RouteInputs : call' = [tool |-> "isochrone", in |-> in] /\ out' = Isochrone(in)
    BY <1>4 DEF CallIsochrone, Serve
  <2>2. call'.tool = "isochrone" /\ call'.in = in
    BY <2>1
  <2> QED
    BY <2>1, <2>2, RoutersAreHonest DEF FallbackIsHonest, Called, Accepted
<1>5. ASSUME CallDelegate PROVE FallbackIsHonest'
  <2>1. PICK in \in DelegationInputs :
           call' = [tool |-> "execute_or_delegate", in |-> in] /\ out' = ExecuteOrDelegate(in)
    BY <1>5 DEF CallDelegate, Serve
  <2>2. call'.tool = "execute_or_delegate" /\ call'.in = in
    BY <2>1
  <2>3. /\ in.size \in Nat /\ in.memory \in Nat /\ in.limit \in Nat
        /\ in.acceptor \in {"none", "accepts", "rejects", "raises", "late"}
        /\ in.raised \in {"upstream", "network"}
    BY DEF DelegationInputs
  <2> QED
    BY <2>1, <2>2, <2>3, DelegationKeepsLimits DEF FallbackIsHonest, Called
<1> QED
  BY <1>1, <1>2, <1>3, <1>4, <1>5

\* Whichever source answers and whichever fails, a chain of geocoders or routers gives
\* the first result there is and hides no failure behind an absence (geocoding.py,
\* routing.py, isochrone.py); a task is handed over exactly when this process may not
\* run it (delegation.py).
THEOREM FallbacksAreHonest == CallsSpec => []FallbackIsHonest
<1>1. CallsInit => FallbackIsHonest
  BY DEF CallsInit, Idle, FallbackIsHonest, Called
<1>2. CallsNext => FallbackIsHonest'
  <2>1. CallSource => FallbackIsHonest'
    BY SourceNames, FallbackSteps, OthersNeverFallBack DEF CallSource
  <2>2. CallImage => FallbackIsHonest'
    BY ImageNames, OthersNeverFallBack DEF CallImage
  <2>3. CallFile => FallbackIsHonest'
    BY FileNames, FallbackSteps, OthersNeverFallBack DEF CallFile
  <2>4. Compute => FallbackIsHonest'
    BY ComputeNames, OthersNeverFallBack DEF Compute
  <2>5. Return => FallbackIsHonest'
    BY OthersNeverFallBack DEF Return, Idle
  <2> QED
    BY <2>1, <2>2, <2>3, <2>4, <2>5 DEF CallsNext
<1>3. FallbackIsHonest /\ UNCHANGED callVars => FallbackIsHonest'
  BY DEF callVars, FallbackIsHonest, Called, Accepted
<1> QED
  BY <1>1, <1>2, <1>3, PTL DEF CallsSpec

\* The others tell nothing of the ground.
LEMMA OthersAreNotOfGround ==
    ASSUME call'.tool \notin {"elevation", "lookup_embeddings", "mosaic", "tiles", "utm", "aspect"}
    PROVE  GroundIsCovered'
  BY DEF GroundIsCovered, Called

\* The tools and algorithms that tell of ground.
LEMMA GroundSteps ==
    /\ CallElevation => GroundIsCovered'
    /\ CallLookup => GroundIsCovered'
    /\ MakeMosaic => GroundIsCovered'
    /\ FindTiles => GroundIsCovered'
    /\ FindUtmZones => GroundIsCovered'
    /\ LookDown => GroundIsCovered'
<1>1. ASSUME CallElevation PROVE GroundIsCovered'
  <2>1. PICK in \in TerrainInputs : call' = [tool |-> "elevation", in |-> in] /\ out' = Elevation(in)
    BY <1>1 DEF CallElevation, Serve
  <2>2. call'.tool = "elevation" /\ call'.in = in
    BY <2>1
  <2>3. GridIsAligned(in, Elevation(in))
    BY TerrainInputsAre, GridsAreAligned
  <2> QED
    BY <2>1, <2>2, <2>3 DEF GroundIsCovered, Called
<1>2. ASSUME CallLookup PROVE GroundIsCovered'
  <2>1. PICK in \in TileInputs :
           call' = [tool |-> "lookup_embeddings", in |-> in] /\ out' = LookupEmbeddings(in)
    BY <1>2 DEF CallLookup, Serve
  <2>2. call'.tool = "lookup_embeddings" /\ call'.in = in
    BY <2>1
  <2>3. RowsAreFirst(in, LookupEmbeddings(in))
    BY TileInputsAre, LookupsAreFirst DEF PartitionsOf
  <2> QED
    BY <2>1, <2>2, <2>3 DEF GroundIsCovered, Called
<1>3. ASSUME MakeMosaic PROVE GroundIsCovered'
  <2>1. PICK in \in Mosaics : call' = [tool |-> "mosaic", in |-> in]
    BY <1>3 DEF MakeMosaic, Serve
  <2>2. call'.tool = "mosaic" /\ call'.in = in
    BY <2>1
  <2>3. MosaicIsWhole(in)
    BY CallsAssumption, MosaicsAreWhole DEF MosaicInput
  <2> QED
    BY <2>2, <2>3 DEF GroundIsCovered, Called
<1>4. ASSUME FindTiles PROVE GroundIsCovered'
  <2>1. PICK in \in Areas : call' = [tool |-> "tiles", in |-> in]
    BY <1>4 DEF FindTiles, Serve
  <2>2. call'.tool = "tiles" /\ call'.in = in
    BY <2>1
  <2>3. in.per \in Nat \ {0} /\ in.box[1] \in Int /\ in.box[2] \in Int /\ in.box[3] \in Int
        /\ in.box[4] \in Int
    BY CallsAssumption
  <2>4. TilesCover(in.box, in.per)
    BY <2>3, TilesAreCovered
  <2> QED
    BY <2>2, <2>4 DEF GroundIsCovered, Called
<1>5. ASSUME FindUtmZones PROVE GroundIsCovered'
  <2>1. PICK in \in Spans : call' = [tool |-> "utm", in |-> in]
    BY <1>5 DEF FindUtmZones, Serve
  <2>2. call'.tool = "utm" /\ call'.in = in
    BY <2>1
  <2>3. ZonesCover(in[1], in[2])
    BY CallsAssumption, ZonesAreCovered
  <2> QED
    BY <2>2, <2>3 DEF GroundIsCovered, Called
<1>6. ASSUME LookDown PROVE GroundIsCovered'
  <2>1. PICK in \in Planes : call' = [tool |-> "aspect", in |-> in]
    BY <1>6 DEF LookDown, Serve
  <2>2. call'.tool = "aspect" /\ call'.in = in
    BY <2>1
  <2>3. AspectLooksDown(in[1], in[2])
    BY CallsAssumption, AspectIsRight
  <2> QED
    BY <2>2, <2>3 DEF GroundIsCovered, Called
<1> QED
  BY <1>1, <1>2, <1>3, <1>4, <1>5, <1>6

\* A grid of elevations is aligned, a mosaic has every value of its tiles, published
\* tiles and zones cover what is asked for, an aspect looks down and a lookup gives the
\* first rows there are: for batches, boxes, grids and slopes of any size
\* (elevation.py, dem_sources.py, derivatives.py, clay_embeddings.py).
THEOREM GroundIsAlwaysCovered == CallsSpec => []GroundIsCovered
<1>1. CallsInit => GroundIsCovered
  BY DEF CallsInit, Idle, GroundIsCovered, Called
<1>2. CallsNext => GroundIsCovered'
  <2>1. CallSource => GroundIsCovered'
    BY SourceNames, OthersAreNotOfGround DEF CallSource
  <2>2. CallImage => GroundIsCovered'
    BY ImageNames, GroundSteps, OthersAreNotOfGround DEF CallImage
  <2>3. CallFile => GroundIsCovered'
    BY FileNames, OthersAreNotOfGround DEF CallFile
  <2>4. Compute => GroundIsCovered'
    BY ComputeNames, GroundSteps, OthersAreNotOfGround DEF Compute
  <2>5. Return => GroundIsCovered'
    BY OthersAreNotOfGround DEF Return, Idle
  <2> QED
    BY <2>1, <2>2, <2>3, <2>4, <2>5 DEF CallsNext
<1>3. GroundIsCovered /\ UNCHANGED callVars => GroundIsCovered'
  BY DEF callVars, GroundIsCovered, Called
<1> QED
  BY <1>1, <1>2, <1>3, PTL DEF CallsSpec

\* The inputs of the tools that put several replies together.
LEMMA OccurrenceInputsAre == \A in \in OccurrenceInputs : OccurrenceCall(in)
<1> SUFFICES ASSUME NEW in \in OccurrenceInputs PROVE OccurrenceCall(in)
  OBVIOUS
<1>1. /\ in.limit \in 1..(MaxRecords + 1) /\ in.source \in {"omitted", "gbif", "iucn"}
      /\ in.holds \in [OccurrenceSources -> {0, 1, 3}]
      /\ in.answers \in [OccurrenceSources -> {"ok", "404", "network"}]
  BY DEF OccurrenceInputs, OccurrenceSources
<1>2. in.limit \in Nat
  BY <1>1, OccurrencesAssumption
<1>3. in.source \in OccurrenceSources \cup {"omitted"}
  BY <1>1 DEF OccurrenceSources
<1>4. \A s \in OccurrenceSources : in.holds[s] \in Nat /\ in.answers[s] # "result"
  <2> SUFFICES ASSUME NEW s \in OccurrenceSources PROVE in.holds[s] \in Nat /\ in.answers[s] # "result"
    OBVIOUS
  <2>1. in.holds[s] \in {0, 1, 3} /\ in.answers[s] \in {"ok", "404", "network"}
    BY <1>1
  <2> QED
    BY <2>1
<1> QED
  BY <1>2, <1>3, <1>4 DEF OccurrenceCall

FeatureSources == {"openstreetmap", "overture"}
FeatureKinds == {"node", "relation"}
LEMMA FeatureInputsAre == \A in \in FeatureInputs : FeatureCall(in, FeatureSources, FeatureKinds)
<1> SUFFICES ASSUME NEW in \in FeatureInputs PROVE FeatureCall(in, FeatureSources, FeatureKinds)
  OBVIOUS
<1>1. /\ in.sources \in {<<"openstreetmap">>, <<"openstreetmap", "overture">>}
      /\ in.holds \in [FeatureSources -> SeqOf(FeatureKinds, 2)]
      /\ in.answers \in [FeatureSources -> {"ok", "4xx", "shape", "network", "rate-limit"}]
  BY DEF FeatureInputs, FeatureSources, FeatureKinds
<1>2. in.sources \in Seq(FeatureSources)
  <2>1. <<"openstreetmap">> \in Seq(FeatureSources) /\ <<"openstreetmap", "overture">> \in Seq(FeatureSources)
    BY DEF FeatureSources
  <2> QED
    BY <1>1, <2>1
<1>3. \A seq \in SeqOf(FeatureKinds, 2) : seq \in Seq(FeatureKinds)
  <2> SUFFICES ASSUME NEW seq \in SeqOf(FeatureKinds, 2) PROVE seq \in Seq(FeatureKinds)
    OBVIOUS
  <2>1. PICK m \in 0..2 : seq \in [1..m -> FeatureKinds]
    BY DEF SeqOf
  <2>2. m \in Nat
    OBVIOUS
  <2> QED
    BY <2>1, <2>2, FunctionIsSeq
<1>4. \A s \in FeatureSources : in.holds[s] \in Seq(FeatureKinds) /\ Understood(in.answers[s]) # "result"
  <2> SUFFICES ASSUME NEW s \in FeatureSources
               PROVE  in.holds[s] \in Seq(FeatureKinds) /\ Understood(in.answers[s]) # "result"
    OBVIOUS
  <2>1. in.holds[s] \in SeqOf(FeatureKinds, 2)
    BY <1>1
  <2>2. in.answers[s] \in {"ok", "4xx", "shape", "network", "rate-limit"}
    BY <1>1
  <2> QED
    BY <1>3, <2>1, <2>2 DEF Understood
<1> QED
  BY <1>2, <1>4 DEF FeatureCall

\* One page, and two, as functions.
LEMMA SequencesAreFunctions ==
    ASSUME NEW S, NEW p \in S, NEW q \in S
    PROVE  <<p>> \in [1..1 -> S] /\ <<p, q>> \in [1..2 -> S]
  OBVIOUS

LEMMA SqlInputsAre == \A in \in SqlInputs : SqlCall(in)
<1> SUFFICES ASSUME NEW in \in SqlInputs PROVE SqlCall(in)
  OBVIOUS
<1>1. /\ in.engine \in SqlEngines
      /\ in.states \in {<<"RUNNING", "RUNNING", "SUCCEEDED">>, <<"SUCCEEDED">>, <<"FAILED">>,
                        <<"RUNNING", "RUNNING", "RUNNING", "SUCCEEDED">>, <<"RUNNING", "raises">>}
      /\ in.pages \in {<<<<Header>>>>, <<<<Header, 1>>, <<2, 3>>>>}
  BY DEF SqlInputs
<1>2. in.states \in Seq(PollStates)
  <2>1. /\ <<"RUNNING", "RUNNING", "SUCCEEDED">> \in Seq(PollStates)
        /\ <<"SUCCEEDED">> \in Seq(PollStates)
        /\ <<"FAILED">> \in Seq(PollStates)
        /\ <<"RUNNING", "RUNNING", "RUNNING", "SUCCEEDED">> \in Seq(PollStates)
        /\ <<"RUNNING", "raises">> \in Seq(PollStates)
    BY DEF PollStates
  <2> QED
    BY <1>1, <2>1
<1>3. /\ \E n \in Nat \ {0} : in.pages \in [1..n -> Seq(Nat)]
      /\ Len(in.pages[1]) # 0 /\ in.pages[1][1] = Header
  <2>1. Header \in Nat
    BY DEF Header
  <2>2. CASE in.pages = <<<<Header>>>>
    <3>1. <<Header>> \in Seq(Nat)
      BY <2>1
    <3>2. <<<<Header>>>> \in [1..1 -> Seq(Nat)]
      BY <3>1, SequencesAreFunctions, Zenon
    <3>3. Len(in.pages[1]) = 1 /\ in.pages[1][1] = Header
      BY <2>2
    <3>4. 1 \in Nat \ {0}
      OBVIOUS
    <3> QED
      BY <2>2, <3>2, <3>3, <3>4
  <2>3. CASE in.pages = <<<<Header, 1>>, <<2, 3>>>>
    <3>1. <<Header, 1>> \in Seq(Nat) /\ <<2, 3>> \in Seq(Nat)
      BY <2>1
    <3>2. <<<<Header, 1>>, <<2, 3>>>> \in [1..2 -> Seq(Nat)]
      BY <3>1, SequencesAreFunctions, Zenon
    <3>3. Len(in.pages[1]) = 2 /\ in.pages[1][1] = Header
      BY <2>3
    <3>4. 2 \in Nat \ {0}
      OBVIOUS
    <3> QED
      BY <2>3, <3>2, <3>3, <3>4
  <2> QED
    BY <1>1, <2>2, <2>3
<1>4. in.states # <<>> /\ in.states[Len(in.states)] # "RUNNING"
  <2>1. CASE in.states = <<"RUNNING", "RUNNING", "SUCCEEDED">>
    <3>1. Len(in.states) = 3 /\ in.states[3] = "SUCCEEDED"
      BY <2>1
    <3> QED
      BY <2>1, <3>1
  <2>2. CASE in.states = <<"SUCCEEDED">>
    <3>1. Len(in.states) = 1 /\ in.states[1] = "SUCCEEDED"
      BY <2>2
    <3> QED
      BY <2>2, <3>1
  <2>3. CASE in.states = <<"FAILED">>
    <3>1. Len(in.states) = 1 /\ in.states[1] = "FAILED"
      BY <2>3
    <3> QED
      BY <2>3, <3>1
  <2>4. CASE in.states = <<"RUNNING", "RUNNING", "RUNNING", "SUCCEEDED">>
    <3>1. Len(in.states) = 4 /\ in.states[4] = "SUCCEEDED"
      BY <2>4
    <3> QED
      BY <2>4, <3>1
  <2>5. CASE in.states = <<"RUNNING", "raises">>
    <3>1. Len(in.states) = 2 /\ in.states[2] = "raises"
      BY <2>5
    <3> QED
      BY <2>5, <3>1
  <2> QED
    BY <1>1, <2>1, <2>2, <2>3, <2>4, <2>5
<1> QED
  BY <1>1, <1>2, <1>3, <1>4 DEF SqlCall

\* The others put nothing together.
LEMMA OthersAreWhole ==
    ASSUME call'.tool \notin {"species_occurrences", "observations", "vector_features", "range",
                              "cdo_rows", "spatial_sql"}
    PROVE  AnswersAreWhole'
  BY DEF AnswersAreWhole, Called

\* The tools and algorithms that do.
LEMMA WholeSteps ==
    /\ CallOccurrences => AnswersAreWhole'
    /\ CallObservations => AnswersAreWhole'
    /\ CallVectorFeatures => AnswersAreWhole'
    /\ AskRange => AnswersAreWhole'
    /\ GroupRows => AnswersAreWhole'
    /\ CallSql => AnswersAreWhole'
<1>1. ASSUME CallOccurrences PROVE AnswersAreWhole'
  <2>1. PICK in \in OccurrenceInputs :
           call' = [tool |-> "species_occurrences", in |-> in] /\ out' = SpeciesOccurrences(in)
    BY <1>1 DEF CallOccurrences, Serve
  <2>2. call'.tool = "species_occurrences" /\ call'.in = in
    BY <2>1
  <2>3. OccurrencesAreWhole(in, SpeciesOccurrences(in))
    BY OccurrenceInputsAre, OccurrencesWhole
  <2> QED
    BY <2>1, <2>2, <2>3 DEF AnswersAreWhole, Called
<1>2. ASSUME CallObservations PROVE AnswersAreWhole'
  <2>1. PICK in \in ObservationInputs :
           call' = [tool |-> "observations", in |-> in] /\ out' = ObservationsCall(in)
    BY <1>2 DEF CallObservations, Serve
  <2>2. call'.tool = "observations" /\ call'.in = in
    BY <2>1
  <2>3. in.source \in WeatherSources /\ \A i \in 1..3 : in.answers[i] # "result"
    <3>1. /\ in.source \in WeatherSources
          /\ in.answers \in [1..3 -> ClientErrors \cup BadReplies \cup {"404", "none", "found"}]
      BY DEF ObservationInputs
    <3>2. "result" \notin ClientErrors \cup BadReplies \cup {"404", "none", "found"}
      BY DEF ClientErrors, BadReplies
    <3> QED
      BY <3>1, <3>2
  <2>4. ObservationsAreWhole(in, ObservationsCall(in))
    BY <2>3, ObservationsWhole
  <2> QED
    BY <2>1, <2>2, <2>4 DEF AnswersAreWhole, Called
<1>3. ASSUME CallVectorFeatures PROVE AnswersAreWhole'
  <2>1. PICK in \in FeatureInputs :
           call' = [tool |-> "vector_features", in |-> in] /\ out' = VectorFeatures(in)
    BY <1>3 DEF CallVectorFeatures, Serve
  <2>2. call'.tool = "vector_features" /\ call'.in = in
    BY <2>1
  <2>3. AllOrNone(in, VectorFeatures(in))
    BY FeatureInputsAre, FeaturesWhole
  <2> QED
    BY <2>1, <2>2, <2>3 DEF AnswersAreWhole, Called
<1>4. ASSUME AskRange PROVE AnswersAreWhole'
  <2>1. PICK in \in [source : WeatherSources, start : Stamps, end : Stamps] :
           call' = [tool |-> "range", in |-> in]
    BY <1>4 DEF AskRange, Serve
  <2>2. call'.tool = "range" /\ call'.in = in
    BY <2>1
  <2>3. in.start.local \in Nat /\ in.end.local \in Nat
    <3>1. in.start.local \in 0..(3 * DayLength - 1) /\ in.end.local \in 0..(3 * DayLength - 1)
      BY DEF Stamps
    <3>2. 3 * DayLength - 1 \in Int
      BY ObservationsAssumption
    <3> QED
      BY <3>1, <3>2
  <2>4. in.start.offset = 0 /\ in.end.offset = 0 => RangeIsCovered(in.source, in.start, in.end)
    BY <2>3, RangesCovered
  <2> QED
    BY <2>2, <2>4 DEF AnswersAreWhole, Called
<1>5. ASSUME GroupRows PROVE AnswersAreWhole'
  <2>1. PICK in \in RowsOfCdo : call' = [tool |-> "cdo_rows", in |-> in] /\ out' = ReadingsOf(in)
    BY <1>5 DEF GroupRows, Serve
  <2>2. call'.tool = "cdo_rows" /\ call'.in = in
    BY <2>1
  <2> DEFINE R == [date : 1..2, type : {"TMAX", "TMIN"}, value : 1..2]
             kept == Take(in, CdoLimit)
  <2>3. PICK n \in 0..3 : in \in [1..n -> R]
    BY DEF RowsOfCdo
  <2>4. kept \in Seq(R)
    <3>1. in \in Seq(R)
      <4> HIDE DEF R
      <4> QED
        BY <2>3, FunctionIsSeq
    <3> HIDE DEF R
    <3> QED
      BY <3>1, TakeMeans, ObservationsAssumption
  <2> HIDE DEF kept
  <2>5. Len(kept) \in Nat /\ CdoRows(kept, Len(kept), 1..2)
    <3>1. kept \in [1..Len(kept) -> R] /\ Len(kept) \in Nat
      <4> HIDE DEF R
      <4> QED
        BY <2>4
    <3>2. \A r \in R : r \in [date : 1..2, type : {"TMAX", "TMIN"}, value : Nat]
      OBVIOUS
    <3> QED
      BY <3>1, <3>2 DEF CdoRows
  <2>6. ReadingsAreKept(kept, ParseCdo(kept))
    BY <2>5, ReadingsKept
  <2>7. ReadingsAreKept(Take(in, CdoLimit), ReadingsOf(in))
    BY <2>6 DEF ReadingsOf, kept
  <2> QED
    BY <2>1, <2>2, <2>7 DEF AnswersAreWhole, Called
<1>6. ASSUME CallSql PROVE AnswersAreWhole'
  <2>1. PICK in \in SqlInputs : call' = [tool |-> "spatial_sql", in |-> in] /\ out' = SpatialSqlCall(in)
    BY <1>6 DEF CallSql, Serve
  <2>2. call'.tool = "spatial_sql" /\ call'.in = in
    BY <2>1
  <2>3. ConnectionsAreClosed(in, SpatialSqlCall(in))
    BY SqlInputsAre, ConnectionsClosed
  <2> QED
    BY <2>1, <2>2, <2>3 DEF AnswersAreWhole, Called
<1> QED
  BY <1>1, <1>2, <1>3, <1>4, <1>5, <1>6

\* An answer that is put together from several replies has all of them or is none: the
\* merged records, features and readings are whole, every instant that is asked about
\* is asked for, and a connection that was opened is closed (occurrences.py,
\* observations.py, features.py, athena_engine.py), however many there are of each.
THEOREM AnswersAreAlwaysWhole == CallsSpec => []AnswersAreWhole
<1>1. CallsInit => AnswersAreWhole
  BY DEF CallsInit, Idle, AnswersAreWhole, Called
<1>2. CallsNext => AnswersAreWhole'
  <2>1. CallSource => AnswersAreWhole'
    BY SourceNames, WholeSteps, OthersAreWhole DEF CallSource
  <2>2. CallImage => AnswersAreWhole'
    BY ImageNames, OthersAreWhole DEF CallImage
  <2>3. CallFile => AnswersAreWhole'
    BY FileNames, OthersAreWhole DEF CallFile
  <2>4. Compute => AnswersAreWhole'
    BY ComputeNames, WholeSteps, OthersAreWhole DEF Compute
  <2>5. Return => AnswersAreWhole'
    BY OthersAreWhole DEF Return, Idle
  <2> QED
    BY <2>1, <2>2, <2>3, <2>4, <2>5 DEF CallsNext
<1>3. AnswersAreWhole /\ UNCHANGED callVars => AnswersAreWhole'
  BY DEF callVars, AnswersAreWhole, Called
<1> QED
  BY <1>1, <1>2, <1>3, PTL DEF CallsSpec

\* The others cut nothing into parts.
LEMMA OthersCutNothing ==
    ASSUME call'.tool \notin {"points_to_3d_tiles", "dem_to_mesh", "change_map", "mask", "layout"}
    PROVE  EveryPartOnce'
  BY DEF EveryPartOnce, Called

\* The tools and algorithms that do.
LEMMA PartSteps ==
    /\ CallTiles => EveryPartOnce'
    /\ CallMesh => EveryPartOnce'
    /\ CallChangeMap => EveryPartOnce'
    /\ LabelPixels => EveryPartOnce'
    /\ LayOut => EveryPartOnce'
<1>1. ASSUME CallTiles PROVE EveryPartOnce'
  <2>1. PICK in \in TilesInputs :
           call' = [tool |-> "points_to_3d_tiles", in |-> in] /\ out' = PointsTo3dTiles(in)
    BY <1>1 DEF CallTiles, Serve
  <2>2. call'.tool = "points_to_3d_tiles" /\ call'.in = in
    BY <2>1
  <2>3. EveryPointIsOnce(in, PointsTo3dTiles(in))
    BY TilesInputsAreOnce
  <2> QED
    BY <2>1, <2>2, <2>3 DEF EveryPartOnce, Called
<1>2. ASSUME CallMesh PROVE EveryPartOnce'
  <2>1. PICK in \in MeshInputs : call' = [tool |-> "dem_to_mesh", in |-> in] /\ out' = DemToMesh(in)
    BY <1>2 DEF CallMesh, Serve
  <2>2. call'.tool = "dem_to_mesh" /\ call'.in = in
    BY <2>1
  <2>3. MeshIsSound(in, DemToMesh(in))
    BY MeshCallsAreSound
  <2> QED
    BY <2>1, <2>2, <2>3 DEF EveryPartOnce, Called
<1>3. ASSUME CallChangeMap PROVE EveryPartOnce'
  <2>1. PICK in \in TileInputs : call' = [tool |-> "change_map", in |-> in] /\ out' = ChangeMap(in)
    BY <1>3 DEF CallChangeMap, Serve
  <2>2. call'.tool = "change_map" /\ call'.in = in
    BY <2>1
  <2>3. ChangeMapIsWhole(in, ChangeMap(in))
    BY ChangeInputsAre, ChangeMapsAreWhole
  <2> QED
    BY <2>1, <2>2, <2>3 DEF EveryPartOnce, Called
<1>4. ASSUME LabelPixels PROVE EveryPartOnce'
  <2>1. PICK in \in MaskInputs :
           call' = [tool |-> "mask", in |-> in] /\ out' = Mask(in.data, in.prompts)
    BY <1>4 DEF LabelPixels, Serve
  <2>2. call'.tool = "mask" /\ call'.in = in
    BY <2>1
  <2>3. MaskIsWhole(in.data, in.prompts, Mask(in.data, in.prompts))
    BY MasksAreWhole
  <2> QED
    BY <2>1, <2>2, <2>3 DEF EveryPartOnce, Called
<1>5. ASSUME LayOut PROVE EveryPartOnce'
  <2>1. PICK in \in Layouts : call' = [tool |-> "layout", in |-> in]
    BY <1>5 DEF LayOut, Serve
  <2>2. call'.tool = "layout" /\ call'.in = in
    BY <2>1
  <2>3. LayoutFits(in.table, in.n, in.colors)
    BY CallsAssumption, LayoutsFit
  <2> QED
    BY <2>2, <2>3 DEF EveryPartOnce, Called
<1> QED
  BY <1>1, <1>2, <1>3, <1>4, <1>5

\* What is cut into parts is in one part each: a point in one tile of the tree, a pixel
\* in one tile of a change map, a vertex under one number of a mesh, a byte in one
\* section of a file; a mask has for each pixel what prompts say of it (tiling.py,
\* dem.py, change_map.py, segmentation.py).  However deep the tree and whatever the caps
\* and layouts; what it rests on (PointsAreOnce, MeshesAreSound, ChangeMapsAreWhole,
\* PromptedMaskIsWhole) holds for points, grids, windows and prompts of any number.
THEOREM EveryPartIsOnce == CallsSpec => []EveryPartOnce
<1>1. CallsInit => EveryPartOnce
  BY DEF CallsInit, Idle, EveryPartOnce, Called
<1>2. CallsNext => EveryPartOnce'
  <2>1. CallSource => EveryPartOnce'
    BY SourceNames, OthersCutNothing DEF CallSource
  <2>2. CallImage => EveryPartOnce'
    BY ImageNames, PartSteps, OthersCutNothing DEF CallImage
  <2>3. CallFile => EveryPartOnce'
    BY FileNames, PartSteps, OthersCutNothing DEF CallFile
  <2>4. Compute => EveryPartOnce'
    BY ComputeNames, PartSteps, OthersCutNothing DEF Compute
  <2>5. Return => EveryPartOnce'
    BY OthersCutNothing DEF Return, Idle
  <2> QED
    BY <2>1, <2>2, <2>3, <2>4, <2>5 DEF CallsNext
<1>3. EveryPartOnce /\ UNCHANGED callVars => EveryPartOnce'
  BY DEF callVars, EveryPartOnce, Called
<1> QED
  BY <1>1, <1>2, <1>3, PTL DEF CallsSpec

-----------------------------------------------------------------------------
(* Orders of a finite set by rank, and what is taken of a sequence at places. *)

\* n numbers that differ, from 0 up and below n, are all of them.
LEMMA RanksAreAll ==
    ASSUME NEW n \in Nat, NEW S, IsFiniteSet(S), Cardinality(S) = n, NEW rank \in [S -> 0..(n - 1)],
           \A i, k \in S : rank[i] = rank[k] => i = k
    PROVE  \A r \in 0..(n - 1) : \E i \in S : rank[i] = r
<1>1. IsFiniteSet(0..(n - 1)) /\ Cardinality(0..(n - 1)) = n
  BY FS_Interval
<1>2. rank \in Injection(S, 0..(n - 1))
  BY DEF Injection, IsInjective
<1>3. rank \in Surjection(S, 0..(n - 1))
  BY <1>1, <1>2, FS_Injection
<1> QED
  BY <1>3 DEF Surjection

\* A relation that orders a finite set.
Orders(before, S) ==
    /\ \A i \in S : <<i, i>> \notin before
    /\ \A i, j, k \in S : <<i, j>> \in before /\ <<j, k>> \in before => <<i, k>> \in before
    /\ \A i, j \in S : i = j \/ <<i, j>> \in before \/ <<j, i>> \in before

\* The members of a set, each once, in the order of a relation.
OrderSo(order, S, before, n) ==
    /\ order \in [1..n -> S]
    /\ \A i \in S : \E k \in 1..n : order[k] = i
    /\ \A k, l \in 1..n : k < l => <<order[k], order[l]>> \in before
    /\ \A k, l \in 1..n : order[k] = order[l] => k = l

\* InOrder, where the relation orders the set: every member once, each before those after it.
LEMMA InOrderMeans ==
    ASSUME NEW S, IsFiniteSet(S), NEW before, Orders(before, S)
    PROVE  Cardinality(S) \in Nat /\ OrderSo(InOrder(S, before), S, before, Cardinality(S))
<1> DEFINE Below(i) == {j \in S : <<j, i>> \in before}
           n == Cardinality(S)
           rank == [i \in S |-> Cardinality(Below(i))]
           order == InOrder(S, before)
<1>1. n \in Nat
  BY FS_CardinalityType
<1>2. \A i \in S : IsFiniteSet(Below(i)) /\ Cardinality(Below(i)) \in Nat /\ Cardinality(Below(i)) < n
  <2> SUFFICES ASSUME NEW i \in S
               PROVE  IsFiniteSet(Below(i)) /\ Cardinality(Below(i)) \in Nat /\ Cardinality(Below(i)) < n
    OBVIOUS
  <2>1. Below(i) \in SUBSET S /\ i \notin Below(i) /\ i \in S
    BY DEF Orders
  <2> HIDE DEF Below
  <2>2. IsFiniteSet(Below(i)) /\ Cardinality(Below(i)) <= n /\ (n = Cardinality(Below(i)) => S = Below(i))
    BY <2>1, FS_Subset
  <2>3. Cardinality(Below(i)) \in Nat
    BY <2>2, FS_CardinalityType
  <2> QED
    BY <1>1, <2>1, <2>2, <2>3
<1>3. ASSUME NEW i \in S, NEW k \in S, <<i, k>> \in before
      PROVE  Cardinality(Below(i)) < Cardinality(Below(k))
  <2>1. \A j \in S : <<j, i>> \in before => <<j, k>> \in before
    BY <1>3 DEF Orders
  <2>2. <<i, i>> \notin before
    BY DEF Orders
  <2>3. Below(i) \in SUBSET Below(k) /\ i \in Below(k) /\ i \notin Below(i)
    BY <1>3, <2>1, <2>2
  <2> HIDE DEF Below
  <2>4. Cardinality(Below(i)) <= Cardinality(Below(k))
        /\ (Cardinality(Below(k)) = Cardinality(Below(i)) => Below(k) = Below(i))
    BY <1>2, <2>3, FS_Subset
  <2> QED
    BY <1>2, <2>3, <2>4
<1>4. \A i, k \in S : i = k \/ <<i, k>> \in before \/ <<k, i>> \in before
  BY DEF Orders
<1> HIDE DEF Below
<1>5. rank \in [S -> 0..(n - 1)] /\ \A i \in S : rank[i] = Cardinality(Below(i))
  BY <1>1, <1>2
<1>6. order = [k \in 1..n |-> CHOOSE i \in S : Cardinality(Below(i)) = k - 1]
  BY Zenon DEF InOrder, Below
<1> HIDE DEF n, rank, order
<1>7. \A i, k \in S : rank[i] < rank[k] => <<i, k>> \in before
  <2> SUFFICES ASSUME NEW i \in S, NEW k \in S, rank[i] < rank[k] PROVE <<i, k>> \in before
    OBVIOUS
  <2>1. Cardinality(Below(i)) \in Nat /\ Cardinality(Below(k)) \in Nat
        /\ Cardinality(Below(i)) < Cardinality(Below(k))
    BY <1>2, <1>5
  <2>2. i # k /\ ~(Cardinality(Below(k)) < Cardinality(Below(i)))
    BY <2>1
  <2> QED
    BY <1>3, <1>4, <2>2
<1>8. \A i, k \in S : rank[i] = rank[k] => i = k
  <2> SUFFICES ASSUME NEW i \in S, NEW k \in S, rank[i] = rank[k] PROVE i = k
    OBVIOUS
  <2>1. Cardinality(Below(i)) \in Nat /\ Cardinality(Below(i)) = Cardinality(Below(k))
    BY <1>2, <1>5
  <2>2. ~(Cardinality(Below(i)) < Cardinality(Below(k))) /\ ~(Cardinality(Below(k)) < Cardinality(Below(i)))
    BY <2>1
  <2> QED
    BY <1>3, <1>4, <2>2
<1>9. \A r \in 0..(n - 1) : \E i \in S : rank[i] = r
  BY <1>1, <1>5, <1>8, RanksAreAll DEF n
<1>10. \A k \in 1..n : order[k] \in S /\ rank[order[k]] = k - 1
  <2> SUFFICES ASSUME NEW k \in 1..n PROVE order[k] \in S /\ rank[order[k]] = k - 1
    OBVIOUS
  <2>1. order[k] = CHOOSE i \in S : Cardinality(Below(i)) = k - 1
    BY <1>6, Zenon
  <2>2. k - 1 \in 0..(n - 1)
    BY <1>1
  <2>3. \E i \in S : Cardinality(Below(i)) = k - 1
    BY <1>5, <1>9, <2>2
  <2>4. order[k] \in S /\ Cardinality(Below(order[k])) = k - 1
    BY <2>1, <2>3, Zenon
  <2> QED
    BY <1>5, <2>4
<1>11. order \in [1..n -> S]
  <2> DEFINE Nth(k) == CHOOSE i \in S : Cardinality(Below(i)) = k - 1
  <2>1. order = [k \in 1..n |-> Nth(k)]
    BY <1>6
  <2> HIDE DEF Nth
  <2>2. \A k \in 1..n : order[k] = Nth(k)
    BY <2>1
  <2>3. \A k \in 1..n : Nth(k) \in S
    BY <1>10, <2>2
  <2> QED
    BY <2>1, <2>3
<1>12. \A i \in S : \E k \in 1..n : order[k] = i
  <2> SUFFICES ASSUME NEW i \in S PROVE \E k \in 1..n : order[k] = i
    OBVIOUS
  <2>1. PICK k \in 1..n : k - 1 = rank[i]
    <3> DEFINE k == rank[i] + 1
    <3>1. k \in 1..n /\ k - 1 = rank[i]
      BY <1>1, <1>5
    <3> HIDE DEF k
    <3> QED
      BY <3>1
  <2>2. order[k] \in S /\ rank[order[k]] = rank[i]
    BY <1>10, <2>1
  <2> QED
    BY <1>8, <2>2
<1>13. \A k, l \in 1..n : k < l => <<order[k], order[l]>> \in before
  <2> SUFFICES ASSUME NEW k \in 1..n, NEW l \in 1..n, k < l PROVE <<order[k], order[l]>> \in before
    OBVIOUS
  <2>1. rank[order[k]] < rank[order[l]]
    BY <1>10
  <2> QED
    BY <1>7, <1>10, <2>1
<1>14. \A k, l \in 1..n : order[k] = order[l] => k = l
  <2> SUFFICES ASSUME NEW k \in 1..n, NEW l \in 1..n, order[k] = order[l] PROVE k = l
    OBVIOUS
  <2>1. rank[order[k]] = k - 1 /\ rank[order[l]] = l - 1
    BY <1>10
  <2> QED
    BY <2>1
<1> QED
  BY <1>1, <1>11, <1>12, <1>13, <1>14 DEF OrderSo, n, order

\* The elements at some places of a sequence: the k-th stands at order[k].
ElementsSo(some, seq, places, m) ==
    \E order \in [1..m -> places] :
       /\ some = [k \in 1..m |-> seq[order[k]]]
       /\ \A i \in places : \E k \in 1..m : order[k] = i
       /\ \A k, l \in 1..m : order[k] = order[l] => k = l

\* What ElementsAt takes: as many, each from one of the places, the earlier before the later.
LEMMA ElementsAtMean ==
    ASSUME NEW n \in Nat, NEW seq, NEW places \in SUBSET (1..n)
    PROVE  \E m \in Nat : m <= n /\ ElementsSo(ElementsAt(seq, places), seq, places, m)
<1> DEFINE before == {p \in places \X places : p[1] < p[2]}
           order == InOrder(places, before)
           m == Cardinality(places)
<1>1. IsFiniteSet(1..n) /\ Cardinality(1..n) = n
  BY FS_Interval
<1>2. IsFiniteSet(places) /\ m <= n
  BY <1>1, FS_Subset
<1>3. \A i, j \in places : <<i, j>> \in before <=> i < j
  OBVIOUS
<1>4. \A i \in places : i \in Int
  OBVIOUS
<1>5. ElementsAt(seq, places) = [k \in DOMAIN order |-> seq[order[k]]]
  BY Zenon DEF ElementsAt
<1> HIDE DEF before
<1>6. Orders(before, places)
  BY <1>3, <1>4 DEF Orders
<1>7. m \in Nat /\ OrderSo(order, places, before, m)
  BY <1>2, <1>6, InOrderMeans
<1> HIDE DEF order, m
<1>8. DOMAIN order = 1..m /\ order \in [1..m -> places]
  BY <1>7 DEF OrderSo
<1>9. ElementsAt(seq, places) = [k \in 1..m |-> seq[order[k]]]
  BY <1>5, <1>8
<1>10. ElementsSo(ElementsAt(seq, places), seq, places, m)
  BY <1>7, <1>8, <1>9 DEF OrderSo, ElementsSo
<1> QED
  BY <1>2, <1>7, <1>10 DEF m

-----------------------------------------------------------------------------
(* geo-embedding-search: powers of two and products of vectors.             *)

\* A function that a power of two is a value of.
Powers(p, n) == p[0] = 1 /\ \A k \in 1..n : p[k] = 2 * p[k - 1]

\* PowerOf2 is the end of such a function.
LEMMA PowersAre ==
    ASSUME NEW n \in Nat
    PROVE  \E p \in [0..n -> Nat \ {0}] : Powers(p, n) /\ p[n] = PowerOf2(n)
<1> DEFINE All == Nat \ {0}
           next == [x \in All \X (1..n) |-> 2 * x[1]]
           Body(g) == [k \in 0..n |-> IF k = 0 THEN 1 ELSE 2 * g[k - 1]]
           so == CHOOSE g : g = Body(g)
<1>1. n = n /\ \A k \in 1..n : k - 1 \in 0..n /\ k \in 0..n /\ k # 0
  OBVIOUS
<1>2. PowerOf2(n) = so[n]
  <2>1. PowerOf2(n) = so[n]
    BY Zenon DEF PowerOf2
  <2> HIDE DEF so
  <2> QED
    BY <1>1, <2>1
<1>3. 1 \in All
  OBVIOUS
<1>4. \A s \in All, k \in 1..n : 2 * s \in All
  OBVIOUS
<1>5. next \in [All \X (1..n) -> All] /\ \A s \in All, k \in 1..n : next[<<s, k>>] = 2 * s
  <2> HIDE DEF All
  <2> QED
    BY <1>4
<1> HIDE DEF next
<1>6. PICK f \in [0..n -> All] : Recurs(f, n, 1, next)
  <2> HIDE DEF All
  <2> QED
    BY <1>3, <1>5, RecursionUpTo
<1>7. f[0] = 1 /\ \A k \in 1..n : f[k] = 2 * f[k - 1]
  <2> HIDE DEF All
  <2> QED
    BY <1>1, <1>5, <1>6 DEF Recurs
<1>8. f = Body(f)
  <2>1. \A k \in 0..n : k = 0 \/ k \in 1..n
    OBVIOUS
  <2>2. \A k \in 0..n : f[k] = Body(f)[k]
    BY <1>1, <1>7, <2>1
  <2>3. f = [k \in 0..n |-> f[k]] /\ Body(f) = [k \in 0..n |-> Body(f)[k]]
    BY <1>1, <1>6
  <2> HIDE DEF Body
  <2> QED
    BY <2>2, <2>3
<1>9. so = Body(so)
  BY <1>8, Zenon
<1> HIDE DEF so
<1>10. so[0] = 1 /\ \A k \in 1..n : so[k] = 2 * so[k - 1]
  <2>1. so[0] = Body(so)[0] /\ \A k \in 1..n : so[k] = Body(so)[k]
    BY <1>9
  <2>2. Body(so)[0] = 1 /\ \A k \in 1..n : Body(so)[k] = 2 * so[k - 1]
    BY <1>1
  <2> HIDE DEF Body
  <2> QED
    BY <2>1, <2>2
<1> DEFINE T == {k \in 0..n : so[k] \in All}
<1>11. 0 \in T
  <2> HIDE DEF All
  <2> QED
    BY <1>3, <1>10
<1>12. \A k \in 1..n : k - 1 \in T => k \in T
  <2> SUFFICES ASSUME NEW k \in 1..n, k - 1 \in T PROVE k \in T
    OBVIOUS
  <2> HIDE DEF All
  <2> QED
    BY <1>1, <1>4, <1>10
<1> HIDE DEF T
<1>13. 0..n \subseteq T
  BY <1>11, <1>12, UpToInduction
<1>14. \A k \in 0..n : so[k] \in All
  BY <1>13 DEF T
<1>15. so \in [0..n -> Nat \ {0}]
  <2>1. so = [k \in 0..n |-> so[k]]
    BY <1>9
  <2> QED
    BY <1>14, <2>1
<1> QED
  BY <1>2, <1>10, <1>15 DEF Powers

\* Powers of two double.
LEMMA PowersOf2Double ==
    /\ PowerOf2(0) = 1
    /\ \A n \in Nat : PowerOf2(n) \in Nat \ {0} /\ PowerOf2(n + 1) = 2 * PowerOf2(n)
<1>1. PowerOf2(0) = 1
  <2>1. PICK p \in [0..0 -> Nat \ {0}] : Powers(p, 0) /\ p[0] = PowerOf2(0)
    BY PowersAre, 0 \in Nat, Zenon
  <2> QED
    BY <2>1 DEF Powers
<1>2. ASSUME NEW n \in Nat PROVE PowerOf2(n) \in Nat \ {0} /\ PowerOf2(n + 1) = 2 * PowerOf2(n)
  <2>1. PICK p \in [0..n -> Nat \ {0}] : Powers(p, n) /\ p[n] = PowerOf2(n)
    BY PowersAre
  <2>2. PICK m \in Nat : m = n + 1
    OBVIOUS
  <2>3. PICK q \in [0..m -> Nat \ {0}] : Powers(q, m) /\ q[m] = PowerOf2(m)
    BY PowersAre
  <2> DEFINE T == {k \in 0..n : p[k] = q[k]}
  <2>4. 0 \in T
    BY <2>1, <2>3 DEF Powers
  <2>5. \A k \in 1..n : k - 1 \in T => k \in T
    BY <2>1, <2>2, <2>3 DEF Powers
  <2> HIDE DEF T
  <2>6. 0..n \subseteq T
    BY <2>4, <2>5, UpToInduction
  <2>7. p[n] = q[n]
    BY <2>6 DEF T
  <2>8. m \in 1..m /\ m - 1 = n
    BY <2>2
  <2>9. q[m] = 2 * q[n]
    BY <2>3, <2>8 DEF Powers
  <2> QED
    BY <2>1, <2>2, <2>3, <2>7, <2>9
<1> QED
  BY <1>1, <1>2

\* Vectors of numbers.
Vector(v) == v \in Seq(Int)

\* A function that a scalar product is a value of.
Products(p, a, b, n) == p[0] = 0 /\ \A k \in 1..n : p[k] = p[k - 1] + a[k] * b[k]
Overlap(a, b) == Lesser(Len(a), Len(b))

\* Overlap is the shorter length.
LEMMA OverlapIs ==
    ASSUME NEW a, Vector(a), NEW b, Vector(b)
    PROVE  /\ Overlap(a, b) \in Nat /\ Overlap(a, b) <= Len(a) /\ Overlap(a, b) <= Len(b)
           /\ \A k \in 1..Overlap(a, b) : a[k] \in Int /\ b[k] \in Int
<1>1. Len(a) \in Nat /\ Len(b) \in Nat /\ DOMAIN a = 1..Len(a) /\ DOMAIN b = 1..Len(b)
  BY LenProperties DEF Vector
<1>2. (\A k \in 1..Len(a) : a[k] \in Int) /\ (\A k \in 1..Len(b) : b[k] \in Int)
  BY <1>1, ElementOfSeq DEF Vector
<1> QED
  BY <1>1, <1>2 DEF Overlap, Lesser

\* The recursion of Dot is that of its products.
LEMMA DotIs ==
    ASSUME NEW a, Vector(a), NEW b, Vector(b)
    PROVE  \E p \in [0..Overlap(a, b) -> Int] : Products(p, a, b, Overlap(a, b)) /\ Dot(a, b) = p[Overlap(a, b)]
<1> SUFFICES ASSUME NEW n \in Nat, n = Overlap(a, b), \A k \in 1..n : a[k] \in Int /\ b[k] \in Int
             PROVE  \E p \in [0..n -> Int] : Products(p, a, b, n) /\ Dot(a, b) = p[n]
  BY OverlapIs
<1> DEFINE All == Int
           next == [x \in All \X (1..n) |-> x[1] + a[x[2]] * b[x[2]]]
           Body(g) == [k \in 0..Lesser(Len(a), Len(b)) |-> IF k = 0 THEN 0 ELSE g[k - 1] + a[k] * b[k]]
           so == CHOOSE g : g = Body(g)
<1>1. Lesser(Len(a), Len(b)) = n /\ \A k \in 1..n : k - 1 \in 0..n /\ k \in 0..n /\ k # 0
  BY DEF Overlap
<1>2. Dot(a, b) = so[n]
  <2>1. Dot(a, b) = so[Lesser(Len(a), Len(b))]
    BY Zenon DEF Dot
  <2> HIDE DEF so
  <2> QED
    BY <1>1, <2>1
<1>3. 0 \in All
  OBVIOUS
<1>4. \A s \in All, k \in 1..n : s + a[k] * b[k] \in All
  OBVIOUS
<1>5. next \in [All \X (1..n) -> All] /\ \A s \in All, k \in 1..n : next[<<s, k>>] = s + a[k] * b[k]
  <2> HIDE DEF All
  <2> QED
    BY <1>4
<1> HIDE DEF next
<1>6. PICK f \in [0..n -> All] : Recurs(f, n, 0, next)
  <2> HIDE DEF All
  <2> QED
    BY <1>3, <1>5, RecursionUpTo
<1>7. f[0] = 0 /\ \A k \in 1..n : f[k] = f[k - 1] + a[k] * b[k]
  <2> HIDE DEF All
  <2> QED
    BY <1>1, <1>5, <1>6 DEF Recurs
<1>8. f = Body(f)
  <2>1. \A k \in 0..n : k = 0 \/ k \in 1..n
    OBVIOUS
  <2>2. \A k \in 0..n : f[k] = Body(f)[k]
    BY <1>1, <1>7, <2>1
  <2>3. f = [k \in 0..n |-> f[k]] /\ Body(f) = [k \in 0..n |-> Body(f)[k]]
    BY <1>1, <1>6
  <2> HIDE DEF Body
  <2> QED
    BY <2>2, <2>3
<1>9. so = Body(so)
  BY <1>8, Zenon
<1> HIDE DEF so
<1>10. so[0] = 0 /\ \A k \in 1..n : so[k] = so[k - 1] + a[k] * b[k]
  <2>1. so[0] = Body(so)[0] /\ \A k \in 1..n : so[k] = Body(so)[k]
    BY <1>9
  <2>2. Body(so)[0] = 0 /\ \A k \in 1..n : Body(so)[k] = so[k - 1] + a[k] * b[k]
    BY <1>1
  <2> HIDE DEF Body
  <2> QED
    BY <2>1, <2>2
<1> DEFINE T == {k \in 0..n : so[k] \in All}
<1>11. 0 \in T
  <2> HIDE DEF All
  <2> QED
    BY <1>3, <1>10
<1>12. \A k \in 1..n : k - 1 \in T => k \in T
  <2> SUFFICES ASSUME NEW k \in 1..n, k - 1 \in T PROVE k \in T
    OBVIOUS
  <2> HIDE DEF All
  <2> QED
    BY <1>1, <1>4, <1>10
<1> HIDE DEF T
<1>13. 0..n \subseteq T
  BY <1>11, <1>12, UpToInduction
<1>14. \A k \in 0..n : so[k] \in All
  BY <1>13 DEF T
<1>15. so \in [0..n -> Int]
  <2>1. so = [k \in 0..n |-> so[k]]
    BY <1>1, <1>9
  <2> QED
    BY <1>14, <2>1
<1> QED
  BY <1>2, <1>10, <1>15 DEF Products

\* Dot of vectors of integers is an integer.
LEMMA DotIsInt ==
    ASSUME NEW a, Vector(a), NEW b, Vector(b)
    PROVE  Dot(a, b) \in Int
  BY DotIs, OverlapIs

\* The length of a vector is 0 only where all of it is.
LEMMA LengthOf ==
    ASSUME NEW v, Vector(v)
    PROVE  Dot(v, v) \in Nat /\ (Dot(v, v) = 0 => \A i \in 1..Len(v) : v[i] = 0)
<1>1. PICK n \in Nat : n = Len(v) /\ n = Overlap(v, v) /\ \A k \in 1..n : v[k] \in Int
  <2>1. Len(v) \in Nat
    BY LenProperties DEF Vector
  <2>2. Overlap(v, v) = Len(v)
    BY DEF Overlap, Lesser
  <2> QED
    BY <2>1, <2>2, OverlapIs
<1>2. PICK p \in [0..n -> Int] : Products(p, v, v, n) /\ Dot(v, v) = p[n]
  BY <1>1, DotIs
<1> DEFINE T == {k \in 0..n : p[k] >= 0 /\ (p[k] = 0 => \A i \in 1..k : v[i] = 0)}
<1>3. 0 \in T
  BY <1>2 DEF Products
<1>4. \A k \in 1..n : k - 1 \in T => k \in T
  <2> SUFFICES ASSUME NEW k \in 1..n, k - 1 \in T PROVE k \in T
    OBVIOUS
  <2>1. p[k] = p[k - 1] + v[k] * v[k] /\ v[k] \in Int /\ p[k - 1] \in Int /\ p[k - 1] >= 0
    BY <1>1, <1>2 DEF Products
  <2>2. v[k] * v[k] >= 0 /\ (v[k] * v[k] = 0 => v[k] = 0)
    BY <2>1
  <2>3. p[k] >= 0 /\ (p[k] = 0 => p[k - 1] = 0 /\ v[k] = 0)
    BY <2>1, <2>2
  <2>4. \A i \in 1..k : i = k \/ i \in 1..(k - 1)
    OBVIOUS
  <2>5. p[k - 1] = 0 => \A i \in 1..(k - 1) : v[i] = 0
    OBVIOUS
  <2>6. k \in 0..n
    OBVIOUS
  <2> QED
    BY <2>3, <2>4, <2>5, <2>6
<1> HIDE DEF T
<1>5. 0..n \subseteq T
  BY <1>3, <1>4, UpToInduction
<1>6. n \in T
  BY <1>5
<1> QED
  BY <1>1, <1>2, <1>6 DEF T

\* A vector that is t times as long has t times the product.
Stretched(w, v, t) == Len(w) = Len(v) /\ \A i \in 1..Len(v) : w[i] = t * v[i]

\* A vector three times as long has three times the product.
LEMMA DotStretches ==
    ASSUME NEW a, Vector(a), NEW c, Vector(c), NEW s \in Int, Stretched(c, a, s),
           NEW v, Vector(v), NEW w, Vector(w), NEW t \in Int, Stretched(w, v, t)
    PROVE  Dot(c, w) = (s * t) * Dot(a, v)
<1>1. PICK n \in Nat : n = Overlap(a, v) /\ n = Overlap(c, w) /\ n <= Len(v) /\ n <= Len(a)
                         /\ \A k \in 1..n : v[k] \in Int /\ a[k] \in Int
  BY OverlapIs DEF Overlap, Stretched
<1>2. PICK p \in [0..n -> Int] : Products(p, a, v, n) /\ Dot(a, v) = p[n]
  BY <1>1, DotIs
<1>3. PICK r \in [0..n -> Int] : Products(r, c, w, n) /\ Dot(c, w) = r[n]
  BY <1>1, DotIs
<1>4. \A k \in 1..n : c[k] = s * a[k] /\ w[k] = t * v[k]
  <2>1. Len(v) \in Nat /\ Len(a) \in Nat
    BY LenProperties DEF Vector
  <2> QED
    BY <1>1, <2>1 DEF Stretched
<1> DEFINE T == {k \in 0..n : r[k] = (s * t) * p[k]}
<1>5. 0 \in T
  BY <1>2, <1>3 DEF Products
<1>6. \A k \in 1..n : k - 1 \in T => k \in T
  <2> SUFFICES ASSUME NEW k \in 1..n, k - 1 \in T PROVE k \in T
    OBVIOUS
  <2>1. /\ r[k - 1] = (s * t) * p[k - 1] /\ r[k] = r[k - 1] + c[k] * w[k]
        /\ p[k] = p[k - 1] + a[k] * v[k]
    BY <1>2, <1>3 DEF Products
  <2>2. p[k - 1] \in Int /\ a[k] \in Int /\ v[k] \in Int /\ k \in 0..n
    BY <1>1, <1>2
  <2>5. c[k] = s * a[k] /\ w[k] = t * v[k]
    BY <1>4
  <2>3. (s * a[k]) * (t * v[k]) = (s * t) * (a[k] * v[k])
    BY <2>2
  <2>4. (s * t) * (p[k - 1] + a[k] * v[k]) = (s * t) * p[k - 1] + (s * t) * (a[k] * v[k])
    BY <2>2
  <2> QED
    BY <2>1, <2>2, <2>3, <2>4, <2>5
<1> HIDE DEF T
<1>7. 0..n \subseteq T
  BY <1>5, <1>6, UpToInduction
<1>8. n \in T
  BY <1>7
<1> QED
  BY <1>2, <1>3, <1>8 DEF T

-----------------------------------------------------------------------------
(* geo-embedding-search: a search finds the nearest records.                *)

\* Of three fractions in a row.
LEMMA FractionsInRow ==
    ASSUME NEW a \in Int, NEW c \in Int, NEW e \in Int,
           NEW b \in Nat \ {0}, NEW d \in Nat \ {0}, NEW f \in Nat \ {0},
           a * d <= c * b, c * f <= e * d
    PROVE  a * f <= e * b
<1>1. (a * d) * f <= (c * b) * f /\ (c * f) * b <= (e * d) * b
  OBVIOUS
<1>2. (a * d) * f = (a * f) * d /\ (e * d) * b = (e * b) * d /\ (c * b) * f = (c * f) * b
  OBVIOUS
<1>3. (a * f) * d <= (e * b) * d
  BY <1>1, <1>2
<1>4. a * f \in Int /\ e * b \in Int
  OBVIOUS
<1> HIDE <1>1, <1>2
<1>5. ASSUME NEW x \in Int, NEW y \in Int, x * d <= y * d PROVE x <= y
  BY <1>5
<1> QED
  BY <1>3, <1>4, <1>5

\* What nearness is made of.
LEMMA NearerMeans ==
    ASSUME NEW q, Vector(q), NEW v, Vector(v), NEW w, Vector(w)
    PROVE  /\ Signed(q, v) \in Int /\ Signed(q, w) \in Int
           /\ Greater(1, Dot(v, v)) \in Nat \ {0} /\ Greater(1, Dot(w, w)) \in Nat \ {0}
           /\ Nearer(q, v, w) <=> Signed(q, v) * Greater(1, Dot(w, w)) > Signed(q, w) * Greater(1, Dot(v, v))
<1>1. Dot(q, v) \in Int /\ Dot(q, w) \in Int /\ Dot(v, v) \in Nat /\ Dot(w, w) \in Nat
  BY DotIsInt, LengthOf
<1>2. Signed(q, v) \in Int /\ Signed(q, w) \in Int
  BY <1>1 DEF Signed
<1>3. Greater(1, Dot(v, v)) \in Nat \ {0} /\ Greater(1, Dot(w, w)) \in Nat \ {0}
  BY <1>1 DEF Greater
<1> QED
  BY <1>2, <1>3, Zenon DEF Nearer

\* Vectors that are not farther follow one another.
LEMMA NearnessOrders ==
    ASSUME NEW q, Vector(q), NEW u, Vector(u), NEW v, Vector(v), NEW w, Vector(w)
    PROVE  /\ ~Nearer(q, u, u)
           /\ Nearer(q, u, v) => ~Nearer(q, v, u)
           /\ ~Nearer(q, u, v) /\ ~Nearer(q, v, w) => ~Nearer(q, u, w)
<1>1. PICK a \in Int, b \in Nat \ {0} : a = Signed(q, u) /\ b = Greater(1, Dot(u, u))
  BY NearerMeans
<1>2. PICK c \in Int, d \in Nat \ {0} : c = Signed(q, v) /\ d = Greater(1, Dot(v, v))
  BY NearerMeans
<1>3. PICK e \in Int, f \in Nat \ {0} : e = Signed(q, w) /\ f = Greater(1, Dot(w, w))
  BY NearerMeans
<1>4. /\ Nearer(q, u, u) <=> a * b > a * b
      /\ Nearer(q, u, v) <=> a * d > c * b
      /\ Nearer(q, v, u) <=> c * b > a * d
      /\ Nearer(q, v, w) <=> c * f > e * d
      /\ Nearer(q, u, w) <=> a * f > e * b
  BY <1>1, <1>2, <1>3, NearerMeans
<1>5. a * b \in Int /\ a * d \in Int /\ c * b \in Int /\ c * f \in Int /\ e * d \in Int /\ a * f \in Int /\ e * b \in Int
  OBVIOUS
<1>6. a * d <= c * b /\ c * f <= e * d => a * f <= e * b
  BY FractionsInRow
<1> QED
  BY <1>4, <1>5, <1>6

\* Records of vectors.
VectorRecords(records, n) == DOMAIN records = 1..n /\ \A i \in 1..n : Vector(records[i].vector)

\* The order of a search is one.
LEMMA SearchOrderMeans ==
    ASSUME NEW q, NEW records, NEW i \in DOMAIN records, NEW j \in DOMAIN records
    PROVE  <<i, j>> \in SearchOrder(records, q) <=>
             \/ Nearer(q, records[i].vector, records[j].vector)
             \/ i < j /\ ~Nearer(q, records[j].vector, records[i].vector)
<1> DEFINE Close(p) == \/ Nearer(q, records[p[1]].vector, records[p[2]].vector)
                       \/ p[1] < p[2] /\ ~Nearer(q, records[p[2]].vector, records[p[1]].vector)
<1>1. SearchOrder(records, q) = {p \in (DOMAIN records) \X (DOMAIN records) : Close(p)}
  BY Zenon DEF SearchOrder
<1>2. Close(<<i, j>>) <=> \/ Nearer(q, records[i].vector, records[j].vector)
                          \/ i < j /\ ~Nearer(q, records[j].vector, records[i].vector)
  OBVIOUS
<1> HIDE DEF Close
<1>3. <<i, j>> \in (DOMAIN records) \X (DOMAIN records)
  OBVIOUS
<1>4. <<i, j>> \in SearchOrder(records, q) <=> Close(<<i, j>>)
  BY <1>1, <1>3
<1> QED
  BY <1>2, <1>4

\* SearchOrder puts any two records in order: it is one order of all of them.
LEMMA SearchOrders ==
    ASSUME NEW q, Vector(q), NEW n \in Nat, NEW records, VectorRecords(records, n)
    PROVE  Orders(SearchOrder(records, q), 1..n)
<1> DEFINE Near(i, j) == Nearer(q, records[i].vector, records[j].vector)
           before == SearchOrder(records, q)
<1>1. \A i, j \in 1..n : <<i, j>> \in before <=> Near(i, j) \/ (i < j /\ ~Near(j, i))
  <2> SUFFICES ASSUME NEW i \in 1..n, NEW j \in 1..n
               PROVE  <<i, j>> \in before <=> Near(i, j) \/ (i < j /\ ~Near(j, i))
    OBVIOUS
  <2> QED
    BY SearchOrderMeans DEF VectorRecords
<1>2. \A i, j, k \in 1..n : /\ ~Near(i, i)
                            /\ Near(i, j) => ~Near(j, i)
                            /\ ~Near(i, j) /\ ~Near(j, k) => ~Near(i, k)
  BY NearnessOrders DEF VectorRecords
<1> HIDE DEF Near, before
<1>3. \A i \in 1..n : <<i, i>> \notin before
  BY <1>1, <1>2
<1>4. \A i, j, k \in 1..n : <<i, j>> \in before /\ <<j, k>> \in before => <<i, k>> \in before
  <2> SUFFICES ASSUME NEW i \in 1..n, NEW j \in 1..n, NEW k \in 1..n,
                      Near(i, j) \/ (i < j /\ ~Near(j, i)), Near(j, k) \/ (j < k /\ ~Near(k, j))
               PROVE  Near(i, k) \/ (i < k /\ ~Near(k, i))
    BY <1>1
  <2> QED
    BY <1>2
<1>5. \A i, j \in 1..n : i = j \/ <<i, j>> \in before \/ <<j, i>> \in before
  <2> SUFFICES ASSUME NEW i \in 1..n, NEW j \in 1..n
               PROVE  i = j \/ <<i, j>> \in before \/ <<j, i>> \in before
    OBVIOUS
  <2>1. i = j \/ i < j \/ j < i
    OBVIOUS
  <2> QED
    BY <1>1, <2>1
<1> QED
  BY <1>3, <1>4, <1>5 DEF Orders, before

\* What a search finds: the record at order[i] is the i-th.
FoundSo(hits, records, q, k, n) ==
    \E order \in [1..n -> 1..n] :
       /\ order = InOrder(1..n, SearchOrder(records, q))
       /\ DOMAIN hits = 1..Lesser(k, n) /\ Len(hits) = Lesser(k, n)
       /\ \A i \in 1..Lesser(k, n) : hits[i] = records[order[i]]
       /\ OrderSo(order, 1..n, SearchOrder(records, q), n)

\* What a search finds are records, each once, none further away than one left out.
LEMMA SearchFinds ==
    ASSUME NEW q, Vector(q), NEW n \in Nat, NEW records, VectorRecords(records, n), NEW k \in Nat
    PROVE  FoundSo(Nearest(records, q, k), records, q, k, n)
<1> DEFINE order == InOrder(DOMAIN records, SearchOrder(records, q))
           some == [i \in DOMAIN order |-> records[order[i]]]
<1>1. DOMAIN records = 1..n
  BY DEF VectorRecords
<1>2. Nearest(records, q, k) = Take(some, k)
  BY Zenon DEF Nearest
<1>3. IsFiniteSet(1..n) /\ Cardinality(1..n) = n
  BY FS_Interval
<1>4. OrderSo(order, 1..n, SearchOrder(records, q), n)
  BY <1>1, <1>3, SearchOrders, InOrderMeans
<1>5. order \in [1..n -> 1..n] /\ DOMAIN order = 1..n
  BY <1>4 DEF OrderSo
<1> HIDE DEF order
<1>6. some \in [1..n -> {records[i] : i \in 1..n}] /\ \A i \in 1..n : some[i] = records[order[i]]
  BY <1>5
<1> HIDE DEF some
<1>7. some \in Seq({records[i] : i \in 1..n}) /\ Len(some) = n
  BY <1>6, FunctionIsSeq
<1>8. Lesser(k, n) \in Nat /\ Lesser(k, n) <= n
  BY DEF Lesser
<1>9. /\ Take(some, k) \in Seq({records[i] : i \in 1..n}) /\ Len(Take(some, k)) = Lesser(k, n)
      /\ \A i \in 1..Lesser(k, n) : Take(some, k)[i] = some[i]
  BY <1>7, TakeMeans
<1>10. DOMAIN Take(some, k) = 1..Lesser(k, n)
  BY <1>9, LenProperties
<1>11. \A i \in 1..Lesser(k, n) : Take(some, k)[i] = records[order[i]]
  <2> SUFFICES ASSUME NEW i \in 1..Lesser(k, n) PROVE Take(some, k)[i] = records[order[i]]
    OBVIOUS
  <2>1. i \in 1..n
    BY <1>8
  <2>2. Take(some, k)[i] = some[i]
    BY <1>9
  <2> QED
    BY <1>6, <2>1, <2>2
<1>12. order = InOrder(1..n, SearchOrder(records, q))
  BY <1>1 DEF order
<1> QED
  BY <1>2, <1>4, <1>5, <1>9, <1>10, <1>11, <1>12 DEF FoundSo

\* A vector that is three times as long is as near.
LEMMA FractionStretches ==
    ASSUME NEW q, Vector(q), NEW v, Vector(v), NEW w, Vector(w), NEW s \in {1, 3}, Stretched(w, v, s)
    PROVE  \E u \in Nat \ {0} : /\ Signed(q, w) = u * Signed(q, v)
                                /\ Greater(1, Dot(w, w)) = u * Greater(1, Dot(v, v))
<1>1. s \in Int /\ (s * s) \in Nat \ {0} /\ 1 \in Int /\ 0 \in Int
  OBVIOUS
<1>2. Dot(q, v) \in Int /\ Dot(v, v) \in Nat
  BY DotIsInt, LengthOf
<1>3. Stretched(q, q, 1)
  <2>1. \A i \in 1..Len(q) : q[i] \in Int
    BY ElementOfSeq DEF Vector
  <2> QED
    BY <2>1 DEF Stretched
<1>4. Dot(q, w) = s * Dot(q, v)
  <2>1. Dot(q, w) = (1 * s) * Dot(q, v)
    BY <1>1, <1>3, DotStretches
  <2> QED
    BY <1>1, <1>2, <2>1
<1>5. Dot(w, w) = (s * s) * Dot(v, v)
  BY <1>1, DotStretches
<1>6. CASE Dot(v, v) = 0
  <2>1. Stretched(v, v, 0)
    <3>1. \A i \in 1..Len(v) : v[i] = 0
      BY <1>6, LengthOf
    <3> QED
      BY <3>1 DEF Stretched
  <2>2. Dot(q, v) = (1 * 0) * Dot(q, v)
    BY <1>1, <1>3, <2>1, DotStretches
  <2>3. Dot(q, v) = 0 /\ Dot(q, w) = 0 /\ Dot(w, w) = 0
    BY <1>1, <1>2, <1>4, <1>5, <1>6, <2>2
  <2>4. Signed(q, v) = 0 /\ Signed(q, w) = 0
    BY <2>3 DEF Signed
  <2>5. Greater(1, Dot(v, v)) = 1 /\ Greater(1, Dot(w, w)) = 1
    BY <1>6, <2>3 DEF Greater
  <2>6. Signed(q, w) = 1 * Signed(q, v) /\ Greater(1, Dot(w, w)) = 1 * Greater(1, Dot(v, v))
    BY <2>4, <2>5
  <2> QED
    BY <2>6
<1>7. CASE Dot(v, v) # 0
  <2>1. PICK x \in Int : x = Dot(q, v)
    BY <1>2
  <2>2. PICK d \in Nat \ {0} : d = Dot(v, v)
    BY <1>2, <1>7
  <2>3. Signed(q, v) = IF x < 0 THEN 0 - x * x ELSE x * x
    BY <2>1 DEF Signed
  <2>4. Signed(q, w) = IF s * x < 0 THEN 0 - (s * x) * (s * x) ELSE (s * x) * (s * x)
    BY <1>4, <2>1 DEF Signed
  <2>5. Greater(1, Dot(v, v)) = d
    BY <2>2 DEF Greater
  <2>6. Greater(1, Dot(w, w)) = (s * s) * d
    <3>1. Dot(w, w) = (s * s) * d /\ (s * s) * d \in Nat \ {0}
      BY <1>5, <2>2
    <3> QED
      BY <3>1 DEF Greater
  <2>7. Signed(q, w) = (s * s) * Signed(q, v)
    <3>1. CASE s = 1
      BY <2>3, <2>4, <3>1
    <3>2. CASE s = 3
      <4>1. (3 * x) * (3 * x) = 9 * (x * x) /\ (3 * x < 0 <=> x < 0) /\ x * x \in Int
        OBVIOUS
      <4> QED
        BY <2>3, <2>4, <3>2, <4>1
    <3> QED
      BY <3>1, <3>2
  <2> QED
    BY <1>1, <2>5, <2>6, <2>7
<1> QED
  BY <1>6, <1>7

\* How near a record is does not depend on how long its vector is.
LEMMA NearnessStretches ==
    ASSUME NEW q, Vector(q), NEW v, Vector(v), NEW x, Vector(x), NEW s \in {1, 3}, Stretched(x, v, s),
           NEW w, Vector(w), NEW y, Vector(y), NEW t \in {1, 3}, Stretched(y, w, t)
    PROVE  Nearer(q, x, y) <=> Nearer(q, v, w)
<1>1. PICK a \in Int, b \in Nat \ {0} : a = Signed(q, v) /\ b = Greater(1, Dot(v, v))
  BY NearerMeans
<1>2. PICK c \in Int, d \in Nat \ {0} : c = Signed(q, w) /\ d = Greater(1, Dot(w, w))
  BY NearerMeans
<1>3. PICK u \in Nat \ {0} : Signed(q, x) = u * a /\ Greater(1, Dot(x, x)) = u * b
  BY <1>1, FractionStretches
<1>4. PICK z \in Nat \ {0} : Signed(q, y) = z * c /\ Greater(1, Dot(y, y)) = z * d
  BY <1>2, FractionStretches
<1>5. Nearer(q, v, w) <=> a * d > c * b
  BY <1>1, <1>2, NearerMeans
<1>6. Nearer(q, x, y) <=> (u * a) * (z * d) > (z * c) * (u * b)
  BY <1>3, <1>4, NearerMeans
<1>7. (u * a) * (z * d) = (u * z) * (a * d) /\ (z * c) * (u * b) = (u * z) * (c * b)
  OBVIOUS
<1>8. a * d \in Int /\ c * b \in Int /\ u * z \in Nat \ {0}
  OBVIOUS
<1>9. ASSUME NEW m \in Nat \ {0}, NEW i \in Int, NEW j \in Int PROVE m * i > m * j <=> i > j
  OBVIOUS
<1> QED
  BY <1>5, <1>6, <1>7, <1>8, <1>9

\* A record of a store.
IsRecord(r) == r \in [id : {r.id}, vector : Seq(Int)]
StoredRecords(records, n) == DOMAIN records = 1..n /\ Len(records) = n /\ \A i \in 1..n : IsRecord(records[i])
Longer(r) == [r EXCEPT !.vector = IF r.id = 1 THEN [i \in DOMAIN @ |-> 3 * @[i]] ELSE @]

\* A longer record is the record in every other respect.
LEMMA LongerMeans ==
    ASSUME NEW r, IsRecord(r)
    PROVE  /\ Longer(r).id = r.id /\ Vector(r.vector) /\ Vector(Longer(r).vector)
           /\ \E s \in {1, 3} : Stretched(Longer(r).vector, r.vector, s)
<1> DEFINE v == r.vector
           w == IF r.id = 1 THEN [i \in DOMAIN v |-> 3 * v[i]] ELSE v
<1>1. v \in Seq(Int) /\ Vector(v)
  BY DEF IsRecord, Vector
<1>2. Longer(r).id = r.id /\ Longer(r).vector = w
  BY DEF IsRecord, Longer
<1>3. PICK n \in Nat : n = Len(v) /\ DOMAIN v = 1..n /\ \A i \in 1..n : v[i] \in Int
  BY <1>1, LenProperties, ElementOfSeq
<1>4. CASE r.id = 1
  <2>1. w = [i \in 1..n |-> 3 * v[i]]
    BY <1>3, <1>4
  <2>2. w \in [1..n -> Int]
    BY <1>3, <2>1
  <2>3. w \in Seq(Int) /\ Len(w) = n
    BY <2>2, FunctionIsSeq
  <2>4. Stretched(w, v, 3)
    BY <1>3, <2>1, <2>3 DEF Stretched
  <2> HIDE DEF w, v
  <2> QED
    BY <1>1, <1>2, <2>3, <2>4 DEF Vector, v
<1>5. CASE r.id # 1
  <2>1. w = v
    BY <1>5
  <2>2. Stretched(w, v, 1)
    BY <1>3, <2>1 DEF Stretched
  <2> HIDE DEF w, v
  <2> QED
    BY <1>1, <1>2, <2>1, <2>2 DEF v
<1> QED
  BY <1>4, <1>5

\* The order of a search does not see lengths.
LEMMA OrderOfLonger ==
    ASSUME NEW q, Vector(q), NEW n \in Nat, NEW records, StoredRecords(records, n),
           NEW longer, longer = [i \in 1..n |-> Longer(records[i])]
    PROVE  VectorRecords(records, n) /\ VectorRecords(longer, n) /\ SearchOrder(longer, q) = SearchOrder(records, q)
<1>1. DOMAIN records = 1..n /\ DOMAIN longer = 1..n /\ \A i \in 1..n : longer[i] = Longer(records[i])
  BY DEF StoredRecords
<1>2. \A i \in 1..n : /\ Vector(records[i].vector) /\ Vector(longer[i].vector)
                      /\ \E s \in {1, 3} : Stretched(longer[i].vector, records[i].vector, s)
  BY <1>1, LongerMeans DEF StoredRecords
<1>3. \A i, j \in 1..n : Nearer(q, longer[i].vector, longer[j].vector)
                         <=> Nearer(q, records[i].vector, records[j].vector)
  <2> SUFFICES ASSUME NEW i \in 1..n, NEW j \in 1..n
               PROVE  Nearer(q, longer[i].vector, longer[j].vector)
                      <=> Nearer(q, records[i].vector, records[j].vector)
    OBVIOUS
  <2>1. PICK s \in {1, 3}, t \in {1, 3} : /\ Stretched(longer[i].vector, records[i].vector, s)
                                          /\ Stretched(longer[j].vector, records[j].vector, t)
    BY <1>2
  <2> QED
    BY <1>2, <2>1, NearnessStretches
<1>4. \A i, j \in 1..n : <<i, j>> \in SearchOrder(longer, q) <=> <<i, j>> \in SearchOrder(records, q)
  <2> SUFFICES ASSUME NEW i \in 1..n, NEW j \in 1..n
               PROVE  <<i, j>> \in SearchOrder(longer, q) <=> <<i, j>> \in SearchOrder(records, q)
    OBVIOUS
  <2>1. <<i, j>> \in SearchOrder(longer, q) <=>
             \/ Nearer(q, longer[i].vector, longer[j].vector)
             \/ i < j /\ ~Nearer(q, longer[j].vector, longer[i].vector)
    BY <1>1, SearchOrderMeans
  <2>2. <<i, j>> \in SearchOrder(records, q) <=>
             \/ Nearer(q, records[i].vector, records[j].vector)
             \/ i < j /\ ~Nearer(q, records[j].vector, records[i].vector)
    BY <1>1, SearchOrderMeans
  <2> QED
    BY <1>3, <2>1, <2>2
<1>5. SearchOrder(longer, q) \subseteq (1..n) \X (1..n) /\ SearchOrder(records, q) \subseteq (1..n) \X (1..n)
  <2>1. SearchOrder(longer, q) \subseteq (DOMAIN longer) \X (DOMAIN longer)
    BY Zenon DEF SearchOrder
  <2>2. SearchOrder(records, q) \subseteq (DOMAIN records) \X (DOMAIN records)
    BY Zenon DEF SearchOrder
  <2> QED
    BY <1>1, <2>1, <2>2
<1>6. SearchOrder(longer, q) = SearchOrder(records, q)
  <2>1. \A p \in (1..n) \X (1..n) : p \in SearchOrder(longer, q) <=> p \in SearchOrder(records, q)
    <3> SUFFICES ASSUME NEW p \in (1..n) \X (1..n)
                 PROVE  p \in SearchOrder(longer, q) <=> p \in SearchOrder(records, q)
      OBVIOUS
    <3>1. PICK i \in 1..n, j \in 1..n : p = <<i, j>>
      OBVIOUS
    <3> QED
      BY <1>4, <3>1
  <2> QED
    BY <1>5, <2>1
<1> QED
  BY <1>1, <1>2, <1>6 DEF VectorRecords

\* A search finds the best of what is stored.
LEMMA SearchIsBest ==
    ASSUME NEW q, Vector(q), NEW k \in Nat, NEW records, NEW n \in Nat, StoredRecords(records, n)
    PROVE  BestOfAll(records, q, k, Nearest(records, q, k))
<1> DEFINE Near(i, j) == Nearer(q, records[i].vector, records[j].vector)
           before == SearchOrder(records, q)
           hits == Nearest(records, q, k)
           longer == [i \in DOMAIN records |-> Longer(records[i])]
           m == Lesser(k, n)
           Found(some) == [i \in 1..Lesser(k, Len(some)) |-> Nearest(some, q, k)[i].id]
<1>1. longer = [i \in 1..n |-> Longer(records[i])] /\ DOMAIN records = 1..n /\ Len(records) = n
  BY DEF StoredRecords
<1>2. BestOfAll(records, q, k, hits) <=>
        /\ Len(hits) = Lesser(k, Len(records))
        /\ \A i, j \in DOMAIN hits : i < j => ~Nearer(q, hits[j].vector, hits[i].vector)
        /\ \A r \in ToSet(records) \ ToSet(hits), h \in ToSet(hits) : ~Nearer(q, r.vector, h.vector)
        /\ Found(longer) = Found(records)
  BY Zenon DEF BestOfAll, Longer
<1> HIDE DEF longer, hits, before, m
<1>3. VectorRecords(records, n) /\ VectorRecords(longer, n) /\ SearchOrder(longer, q) = before
  BY <1>1, OrderOfLonger DEF before
<1>4. PICK order \in [1..n -> 1..n] :
        /\ order = InOrder(1..n, before)
        /\ DOMAIN hits = 1..m /\ Len(hits) = m
        /\ \A i \in 1..m : hits[i] = records[order[i]]
        /\ OrderSo(order, 1..n, before, n)
  <2>1. FoundSo(hits, records, q, k, n)
    BY <1>3, SearchFinds DEF hits
  <2> QED
    BY <2>1 DEF FoundSo, before, m
<1>5. PICK other \in [1..n -> 1..n] :
        /\ other = InOrder(1..n, before)
        /\ \A i \in 1..m : Nearest(longer, q, k)[i] = longer[other[i]]
  <2>1. FoundSo(Nearest(longer, q, k), longer, q, k, n)
    BY <1>3, SearchFinds
  <2>2. PICK other \in [1..n -> 1..n] :
          /\ other = InOrder(1..n, SearchOrder(longer, q))
          /\ \A i \in 1..Lesser(k, n) : Nearest(longer, q, k)[i] = longer[other[i]]
    BY <2>1 DEF FoundSo
  <2> QED
    BY <1>3, <2>2 DEF m
<1>6. m \in Nat /\ m <= n
  BY DEF m, Lesser
<1>7. \A i, j \in 1..n : i < j => ~Near(order[j], order[i])
  <2> SUFFICES ASSUME NEW i \in 1..n, NEW j \in 1..n, i < j
               PROVE  ~Near(order[j], order[i])
    OBVIOUS
  <2>1. PICK a \in 1..n, b \in 1..n : a = order[i] /\ b = order[j]
    OBVIOUS
  <2>2. <<a, b>> \in before
    BY <1>4, <2>1 DEF OrderSo
  <2>3. Near(a, b) \/ (a < b /\ ~Near(b, a))
    BY <1>1, <2>2, SearchOrderMeans DEF before
  <2>4. Vector(records[a].vector) /\ Vector(records[b].vector)
    BY <1>3 DEF VectorRecords
  <2>5. Near(a, b) => ~Near(b, a)
    BY <2>4, NearnessOrders
  <2> QED
    BY <2>1, <2>3, <2>5
<1>8. Len(hits) = Lesser(k, Len(records))
  BY <1>1, <1>4 DEF m
<1>9. \A i, j \in DOMAIN hits : i < j => ~Nearer(q, hits[j].vector, hits[i].vector)
  <2> SUFFICES ASSUME NEW i \in 1..m, NEW j \in 1..m, i < j
               PROVE  ~Nearer(q, hits[j].vector, hits[i].vector)
    BY <1>4
  <2>1. i \in 1..n /\ j \in 1..n /\ hits[i] = records[order[i]] /\ hits[j] = records[order[j]]
    BY <1>4, <1>6
  <2> QED
    BY <1>7, <2>1
<1>10. \A r \in ToSet(records) \ ToSet(hits), h \in ToSet(hits) : ~Nearer(q, r.vector, h.vector)
  <2> SUFFICES ASSUME NEW r \in ToSet(records) \ ToSet(hits), NEW h \in ToSet(hits)
               PROVE  ~Nearer(q, r.vector, h.vector)
    OBVIOUS
  <2>1. PICK a \in 1..n : r = records[a]
    BY <1>1 DEF ToSet
  <2>2. PICK j \in 1..m : h = hits[j]
    BY <1>4 DEF ToSet
  <2>3. PICK b \in 1..n : order[b] = a
    BY <1>4 DEF OrderSo
  <2>4. ~(b \in 1..m)
    <3>1. \A i \in 1..m : hits[i] \in ToSet(hits)
      BY <1>4 DEF ToSet
    <3> QED
      BY <1>4, <2>1, <2>3, <3>1
  <2>5. j \in 1..n /\ j < b
    BY <1>6, <2>4
  <2>6. ~Near(order[b], order[j])
    BY <1>7, <2>5
  <2> QED
    BY <1>4, <2>1, <2>2, <2>3, <2>6
<1>11. Found(longer) = Found(records)
  <2>1. \A i \in 1..m : Nearest(longer, q, k)[i].id = Nearest(records, q, k)[i].id
    <3> SUFFICES ASSUME NEW i \in 1..m
                 PROVE  Nearest(longer, q, k)[i].id = hits[i].id
      BY DEF hits
    <3>1. PICK a \in 1..n : a = order[i] /\ a = other[i]
      BY <1>4, <1>5, <1>6
    <3>2. longer[a].id = records[a].id
      BY <1>1, LongerMeans DEF StoredRecords
    <3> QED
      BY <1>4, <1>5, <3>1, <3>2
  <2>2. Len(longer) = n
    <3>1. longer \in [1..n -> {longer[i] : i \in 1..n}]
      BY <1>1
    <3> QED
      BY <3>1, FunctionIsSeq
  <2>3. Found(longer) = [i \in 1..m |-> Nearest(longer, q, k)[i].id]
        /\ Found(records) = [i \in 1..m |-> Nearest(records, q, k)[i].id]
    BY <1>1, <2>2 DEF m
  <2> HIDE DEF Found
  <2> QED
    BY <2>1, <2>3
<1> HIDE DEF Found
<1>12. BestOfAll(records, q, k, hits)
  BY <1>2, <1>8, <1>9, <1>10, <1>11
<1> QED
  BY <1>12 DEF hits

-----------------------------------------------------------------------------
(* geo-embedding-search: one call on a store, and a history of them.        *)

\* What the records of a store are: no id is there twice.
Distinct(records) == \A i, j \in DOMAIN records : records[i].id = records[j].id => i = j

\* A sequence is the function of its places.
LEMMA SeqIsFunction ==
    ASSUME NEW R, NEW seq \in Seq(R)
    PROVE  \E n \in Nat : /\ n = Len(seq) /\ DOMAIN seq = 1..n /\ \A i \in 1..n : seq[i] \in R
                          /\ ToSet(seq) = {seq[i] : i \in 1..n}
<1>1. Len(seq) \in Nat /\ DOMAIN seq = 1..Len(seq) /\ \A i \in 1..Len(seq) : seq[i] \in R
  BY LenProperties, ElementOfSeq
<1> QED
  BY <1>1 DEF ToSet

\* Without keeps the other records, in order.
LEMMA WithoutMeans ==
    ASSUME NEW R, NEW records \in Seq(R), NEW id
    PROVE  /\ Without(records, id) \in Seq(R)
           /\ ToSet(Without(records, id)) = {r \in ToSet(records) : r.id # id}
           /\ Distinct(records) => Distinct(Without(records, id))
<1> DEFINE places == {i \in DOMAIN records : records[i].id # id}
           some == ElementsAt(records, places)
<1>1. PICK n \in Nat : /\ n = Len(records) /\ DOMAIN records = 1..n /\ \A i \in 1..n : records[i] \in R
                       /\ ToSet(records) = {records[i] : i \in 1..n}
  BY SeqIsFunction
<1>2. \A i : i \in places <=> i \in 1..n /\ records[i].id # id
  BY <1>1
<1>3. Without(records, id) = some
  BY Zenon DEF Without
<1> HIDE DEF places
<1>4. places \in SUBSET (1..n)
  BY <1>2
<1>5. PICK m \in Nat : ElementsSo(some, records, places, m)
  BY <1>4, ElementsAtMean
<1> HIDE DEF some
<1>6. PICK order \in [1..m -> places] :
         /\ some = [k \in 1..m |-> records[order[k]]]
         /\ \A i \in places : \E k \in 1..m : order[k] = i
         /\ \A k, l \in 1..m : order[k] = order[l] => k = l
  BY <1>5 DEF ElementsSo
<1>7. DOMAIN some = 1..m /\ \A k \in 1..m : order[k] \in 1..n /\ records[order[k]].id # id
                                            /\ some[k] = records[order[k]]
  BY <1>2, <1>6
<1>8. some \in [1..m -> R]
  BY <1>1, <1>6, <1>7
<1>9. some \in Seq(R)
  BY <1>8, FunctionIsSeq
<1>10. ToSet(some) = {r \in ToSet(records) : r.id # id}
  <2>1. ToSet(some) = {some[k] : k \in 1..m}
    BY <1>7 DEF ToSet
  <2>2. \A r \in ToSet(some) : r \in ToSet(records) /\ r.id # id
    BY <1>1, <1>7, <2>1
  <2>3. ASSUME NEW r \in ToSet(records), r.id # id PROVE r \in ToSet(some)
    <3>1. PICK i \in 1..n : r = records[i]
      BY <1>1
    <3>2. PICK k \in 1..m : order[k] = i
      BY <1>2, <1>6, <2>3, <3>1
    <3>3. some[k] = r
      BY <1>7, <3>1, <3>2
    <3> QED
      BY <2>1, <3>3
  <2> QED
    BY <2>2, <2>3
<1>11. ASSUME Distinct(records) PROVE Distinct(some)
  <2> SUFFICES ASSUME NEW k \in 1..m, NEW l \in 1..m, some[k].id = some[l].id PROVE k = l
    BY <1>7 DEF Distinct
  <2>1. PICK i \in 1..n, j \in 1..n : i = order[k] /\ j = order[l]
    BY <1>7
  <2>2. records[i].id = records[j].id
    BY <1>7, <2>1
  <2>3. i = j
    BY <1>1, <1>11, <2>2 DEF Distinct
  <2> QED
    BY <1>6, <2>1, <2>3
<1> QED
  BY <1>3, <1>9, <1>10, <1>11

\* Storing a record replaces that of its name, and no other.
LEMMA PutMeans ==
    ASSUME NEW R, NEW records \in Seq(R), NEW r \in R, NEW kind, Distinct(records)
    PROVE  /\ Put(kind, records, r) \in Seq(R)
           /\ ToSet(Put(kind, records, r)) = {s \in ToSet(records) : s.id # r.id} \cup {r}
           /\ Distinct(Put(kind, records, r))
<1> DEFINE places == {i \in DOMAIN records : records[i].id = r.id}
           at == IF places = {} THEN 0 ELSE Min(places)
           put == [records EXCEPT ![at] = r]
           rest == Without(records, r.id)
           end == Append(rest, r)
<1>1. PICK n \in Nat : /\ n = Len(records) /\ DOMAIN records = 1..n /\ \A i \in 1..n : records[i] \in R
                       /\ ToSet(records) = {records[i] : i \in 1..n}
  BY SeqIsFunction
<1>2. Put(kind, records, r) = IF kind = "memory" /\ at # 0 THEN put ELSE end
  BY Zenon DEF Put, FirstPos
<1>3. at # 0 => at \in 1..n /\ records[at].id = r.id
  <2>1. places \in SUBSET Nat /\ \A i \in places : i \in 1..n /\ records[i].id = r.id
    BY <1>1
  <2> HIDE DEF places
  <2>2. places # {} => Min(places) \in places
    BY <2>1, MinIsLeast
  <2> QED
    BY <2>1, <2>2
<1> HIDE DEF at
<1>4. ASSUME at # 0
      PROVE  put \in Seq(R) /\ ToSet(put) = {s \in ToSet(records) : s.id # r.id} \cup {r} /\ Distinct(put)
  <2>1. at \in 1..n /\ records[at].id = r.id
    BY <1>3, <1>4
  <2>2. DOMAIN put = 1..n /\ put[at] = r /\ \A i \in 1..n : i # at => put[i] = records[i]
    BY <1>1, <2>1
  <2>3. put \in [1..n -> R]
    BY <1>1, <2>1, <2>2
  <2> HIDE DEF put
  <2>4. put \in Seq(R) /\ ToSet(put) = {put[i] : i \in 1..n}
    BY <2>2, <2>3, FunctionIsSeq DEF ToSet
  <2>5. \A i \in 1..n : put[i].id = records[i].id
    BY <2>1, <2>2
  <2>6. Distinct(put)
    BY <1>1, <2>2, <2>5 DEF Distinct
  <2>7. \A i \in 1..n : records[i].id = r.id => i = at
    BY <1>1, <2>1 DEF Distinct
  <2>8. \A s \in ToSet(put) : s = r \/ (s \in ToSet(records) /\ s.id # r.id)
    BY <1>1, <2>2, <2>4, <2>7
  <2>9. \A s \in ToSet(records) : s.id # r.id => s \in ToSet(put)
    BY <1>1, <2>1, <2>2, <2>4
  <2>10. r \in ToSet(put)
    BY <2>1, <2>2, <2>4
  <2> QED
    BY <2>4, <2>6, <2>8, <2>9, <2>10
<1>5. end \in Seq(R) /\ ToSet(end) = {s \in ToSet(records) : s.id # r.id} \cup {r} /\ Distinct(end)
  <2>1. rest \in Seq(R) /\ ToSet(rest) = {s \in ToSet(records) : s.id # r.id} /\ Distinct(rest)
    BY WithoutMeans
  <2> HIDE DEF rest
  <2>2. PICK m \in Nat : /\ m = Len(rest) /\ DOMAIN rest = 1..m /\ \A i \in 1..m : rest[i] \in R
                         /\ ToSet(rest) = {rest[i] : i \in 1..m}
    BY <2>1, SeqIsFunction
  <2>3. PICK l \in Nat : l = m + 1
    OBVIOUS
  <2>4. /\ end \in Seq(R) /\ Len(end) = l /\ DOMAIN end = 1..l /\ end[l] = r
        /\ \A i \in 1..m : end[i] = rest[i]
    BY <2>1, <2>2, <2>3, AppendProperties, LenProperties
  <2> HIDE DEF end
  <2>5. \A i \in 1..l : i = l \/ i \in 1..m
    BY <2>3
  <2>6. \A i \in 1..m : i \in 1..l /\ i # l
    BY <2>3
  <2>6a. l \in 1..l
    BY <2>3
  <2>7. ToSet(end) = {end[i] : i \in 1..l}
    BY <2>4 DEF ToSet
  <2>8. ToSet(end) = ToSet(rest) \cup {r}
    <3>1. \A s \in ToSet(end) : s \in ToSet(rest) \/ s = r
      BY <2>2, <2>4, <2>5, <2>7
    <3>2. \A s \in ToSet(rest) : s \in ToSet(end)
      BY <2>2, <2>4, <2>6, <2>7
    <3>3. r \in ToSet(end)
      BY <2>4, <2>6a, <2>7
    <3> QED
      BY <3>1, <3>2, <3>3
  <2>9. \A i \in 1..m : end[i].id # r.id
    BY <2>1, <2>2, <2>4
  <2>10. Distinct(end)
    <3> SUFFICES ASSUME NEW i \in 1..l, NEW j \in 1..l, end[i].id = end[j].id PROVE i = j
      BY <2>4 DEF Distinct
    <3>1. CASE i \in 1..m /\ j \in 1..m
      BY <2>1, <2>2, <2>4, <3>1 DEF Distinct
    <3>2. CASE i = l \/ j = l
      BY <2>4, <2>5, <2>9, <3>2
    <3> QED
      BY <2>5, <3>1, <3>2
  <2> QED
    BY <2>1, <2>4, <2>8, <2>10
<1> QED
  BY <1>2, <1>4, <1>5

\* The records that a history of calls may store.
Storable(R) == \A r \in R : IsRecord(r) /\ Len(r.vector) \in Nat \ {0}
StoreTyped(st, R) ==
    st \in [records : Seq(R), dimension : Nat, table : Nat, confirmed : SUBSET R,
            disturbed : SUBSET {r.id : r \in R}, mistaken : SUBSET {r.id : r \in R},
            reply : {"result", "validation", "upstream", "none"}]
StoreGood(kind, st) ==
    /\ \A r \in st.confirmed :
          \/ r \in ToSet(st.records) \/ r.id \in st.disturbed
          \/ kind = "opensearch" /\ r.id \in st.mistaken /\ r.id \in Ids(st)
    /\ Distinct(st.records)
    /\ kind # "memory" => \A r \in ToSet(st.records) : Len(r.vector) = st.table
    /\ kind = "lancedb" => st.dimension = st.table

\* What a call does to the records: those under other ids stay.
Spares(kind, new, old, op) ==
    /\ \A s : s.id # op.id => (s \in ToSet(new.records) <=> s \in ToSet(old.records))
    /\ \A s \in ToSet(new.records) : s \in ToSet(old.records) \/ s = Record(kind, op)
    /\ Distinct(new.records)
\* The table gets the dimension of the first vector.
Made(new, old, op) == new.table = IF old.table = 0 THEN Len(op.vector) ELSE old.table
Fits(kind, st, op) == kind # "memory" => st.table = 0 \/ Len(op.vector) = st.table

\* What is kept of a vector is a vector of the same length.
LEMMA RecordMeans ==
    ASSUME NEW kind, NEW op, op.vector \in Seq(Int)
    PROVE  \E v \in Seq(Int) : Record(kind, op) = [id |-> op.id, vector |-> v] /\ Len(v) = Len(op.vector)
<1>1. PICK vector : vector = op.vector /\ vector \in Seq(Int)
  OBVIOUS
<1>2. Record(kind, op) = [id |-> op.id, vector |-> AsFloat32(kind, vector)]
  BY <1>1 DEF Record
<1>3. CASE kind = "lancedb"
  <2>1. PICK n \in Nat : n = Len(vector) /\ DOMAIN vector = 1..n /\ \A i \in 1..n : vector[i] \in Int
    BY <1>1, SeqIsFunction
  <2>2. \A x \in Int : x - (x % Grain) \in Int
    BY StoreAssumption
  <2>3. AsFloat32(kind, vector) = [i \in 1..n |-> vector[i] - (vector[i] % Grain)]
    BY <1>3, <2>1 DEF AsFloat32
  <2>4. AsFloat32(kind, vector) \in [1..n -> Int]
    BY <2>1, <2>2, <2>3
  <2> QED
    BY <1>1, <1>2, <2>1, <2>4, FunctionIsSeq
<1>4. CASE kind # "lancedb"
  BY <1>1, <1>2, <1>4 DEF AsFloat32
<1> QED
  BY <1>3, <1>4

\* What an addition does to a good store.
LEMMA AddedRecord ==
    ASSUME NEW R, Storable(R), NEW kind, NEW st, StoreTyped(st, R), StoreGood(kind, st),
           NEW op, Record(kind, op) \in R, op.vector \in Seq(Int)
    PROVE  /\ StoreTyped(AddRecord(kind, st, op), R)
           /\ Spares(kind, AddRecord(kind, st, op), st, op) /\ Made(AddRecord(kind, st, op), st, op)
           /\ AddRecord(kind, st, op).confirmed = st.confirmed
           /\ AddRecord(kind, st, op).disturbed = st.disturbed
           /\ AddRecord(kind, st, op).mistaken = st.mistaken
           /\ kind = "lancedb" => AddRecord(kind, st, op).dimension = AddRecord(kind, st, op).table
           /\ op.fault \notin {"before", "dropped", "crash"}
                => Record(kind, op) \in ToSet(AddRecord(kind, st, op).records)
           /\ op.fault = "dropped" /\ kind = "lancedb" => op.id \notin Ids(AddRecord(kind, st, op))
<1> DEFINE len == Len(op.vector)
           table == IF st.table = 0 THEN len ELSE st.table
           dimension == IF kind # "memory" /\ st.dimension = 0 THEN len ELSE st.dimension
           ready == [st EXCEPT !.table = table, !.dimension = dimension]
           spared == IF kind = "lancedb" THEN Without(st.records, op.id) ELSE st.records
           put == Put(kind, st.records, Record(kind, op))
           records == IF op.fault \in {"before", "dropped", "crash"} THEN spared ELSE put
           new == [ready EXCEPT !.records = records]
<1>1. AddRecord(kind, st, op) = IF op.fault \in {"before", "dropped", "crash"}
                                THEN [ready EXCEPT !.records = spared] ELSE [ready EXCEPT !.records = put]
  BY Zenon DEF AddRecord
<1>2. AddRecord(kind, st, op) = new
  <2> HIDE DEF ready, spared, put
  <2> QED
    BY <1>1
<1>3. len \in Nat
  BY LenProperties
<1>4. table \in Nat /\ dimension \in Nat
  BY <1>3 DEF StoreTyped
<1>5. Record(kind, op).id = op.id
  BY DEF Record
<1>5a. kind = "lancedb" => dimension = table
  BY DEF StoreGood
<1>6. st.records \in Seq(R) /\ Distinct(st.records)
  BY DEF StoreTyped, StoreGood
<1>6a. kind = "lancedb" => \A s \in ToSet(spared) : s.id # op.id
  BY <1>6, WithoutMeans
<1>7. /\ spared \in Seq(R) /\ Distinct(spared)
      /\ \A s : s \in ToSet(spared) => s \in ToSet(st.records)
      /\ \A s : s.id # op.id => (s \in ToSet(spared) <=> s \in ToSet(st.records))
  BY <1>6, WithoutMeans
<1>8. /\ put \in Seq(R) /\ Distinct(put)
      /\ ToSet(put) = {s \in ToSet(st.records) : s.id # op.id} \cup {Record(kind, op)}
  <2>1. /\ put \in Seq(R) /\ Distinct(put)
        /\ ToSet(put) = {s \in ToSet(st.records) : s.id # Record(kind, op).id} \cup {Record(kind, op)}
    BY <1>6, PutMeans
  <2> QED
    BY <1>5, <2>1
<1> HIDE DEF spared, put, table, dimension
<1>9. /\ records \in Seq(R) /\ Distinct(records)
      /\ \A s : s.id # op.id => (s \in ToSet(records) <=> s \in ToSet(st.records))
      /\ \A s \in ToSet(records) : s \in ToSet(st.records) \/ s = Record(kind, op)
      /\ op.fault \notin {"before", "dropped", "crash"} => Record(kind, op) \in ToSet(records)
      /\ op.fault = "dropped" /\ kind = "lancedb" => \A s \in ToSet(records) : s.id # op.id
  BY <1>5, <1>6a, <1>7, <1>8
<1> HIDE DEF records
<1>10. /\ StoreTyped(new, R) /\ new.records = records /\ new.table = table
       /\ new.confirmed = st.confirmed /\ new.disturbed = st.disturbed
       /\ new.mistaken = st.mistaken /\ new.dimension = dimension
  BY <1>4, <1>9 DEF StoreTyped
<1> HIDE DEF new
<1>11. Spares(kind, new, st, op) /\ Made(new, st, op)
  BY <1>9, <1>10 DEF Spares, Made, table
<1>12. op.fault = "dropped" /\ kind = "lancedb" => op.id \notin Ids(new)
  BY <1>9, <1>10 DEF Ids
<1> QED
  BY <1>2, <1>5a, <1>9, <1>10, <1>11, <1>12

\* A rollback puts back exactly what the call replaced.
LEMMA RollbackMeans ==
    ASSUME NEW R, NEW kind, NEW st, StoreTyped(st, R), NEW op, Record(kind, op) \in R, Distinct(st.records)
    PROVE  /\ StoreTyped(Rollback(kind, st, op), R) /\ Spares(kind, Rollback(kind, st, op), st, op)
           /\ \A s \in ToSet(Rollback(kind, st, op).records) : s \in ToSet(st.records)
           /\ Rollback(kind, st, op).table = st.table /\ Rollback(kind, st, op).confirmed = st.confirmed
           /\ Rollback(kind, st, op).disturbed = st.disturbed \cup {op.id}
           /\ Rollback(kind, st, op).mistaken = st.mistaken
           /\ Rollback(kind, st, op).dimension = st.dimension
           /\ Rollback(kind, st, op).reply = "upstream"
           /\ op.undone => op.id \notin Ids(Rollback(kind, st, op))
<1> DEFINE records == IF op.undone THEN Without(st.records, op.id) ELSE st.records
           new == Rollback(kind, st, op)
<1>1. new = [st EXCEPT !.records = records, !.reply = "upstream", !.disturbed = st.disturbed \cup {op.id}]
  BY Zenon DEF Rollback
<1>2. st.records \in Seq(R)
  BY DEF StoreTyped
<1>3. /\ records \in Seq(R) /\ Distinct(records) /\ \A s \in ToSet(records) : s \in ToSet(st.records)
      /\ \A s : s.id # op.id => (s \in ToSet(records) <=> s \in ToSet(st.records))
      /\ op.undone => \A s \in ToSet(records) : s.id # op.id
  BY <1>2, WithoutMeans
<1>4. op.id \in {r.id : r \in R}
  BY DEF Record
<1> HIDE DEF records
<1>5. /\ StoreTyped(new, R) /\ new.records = records /\ new.table = st.table /\ new.confirmed = st.confirmed
      /\ new.disturbed = st.disturbed \cup {op.id} /\ new.reply = "upstream"
      /\ new.mistaken = st.mistaken /\ new.dimension = st.dimension
  <2> HIDE DEF new
  <2> QED
    BY <1>1, <1>3, <1>4 DEF StoreTyped
<1> HIDE DEF new
<1>6. Spares(kind, new, st, op)
  BY <1>3, <1>5 DEF Spares
<1>7. op.undone => op.id \notin Ids(new)
  BY <1>3, <1>5 DEF Ids
<1> QED
  BY <1>3, <1>5, <1>6, <1>7 DEF new

\* The other ids stay.
LEMMA OthersStay ==
    ASSUME NEW kind, NEW new, NEW st, NEW op, Spares(kind, new, st, op), NEW id \in Ids(st), id # op.id
    PROVE  id \in Ids(new)
  BY DEF Ids, Spares

\* A call that fails, or ends with its process, leaves the store good.
LEMMA DisturbedStaysGood ==
    ASSUME NEW R, Storable(R), NEW kind, NEW st, StoreTyped(st, R), StoreGood(kind, st),
           NEW op, Record(kind, op) \in R, op.vector \in Seq(Int), NEW new, Spares(kind, new, st, op),
           new.confirmed = st.confirmed, new.disturbed = st.disturbed \cup {op.id},
           new.mistaken = st.mistaken, kind = "lancedb" => new.dimension = new.table,
           \/ new.table = st.table /\ \A s \in ToSet(new.records) : s \in ToSet(st.records)
           \/ Made(new, st, op) /\ Fits(kind, st, op)
    PROVE  StoreGood(kind, new)
<1>1. ASSUME NEW r \in new.confirmed
      PROVE  \/ r \in ToSet(new.records) \/ r.id \in new.disturbed
             \/ kind = "opensearch" /\ r.id \in new.mistaken /\ r.id \in Ids(new)
  <2>1. \/ r \in ToSet(st.records) \/ r.id \in st.disturbed
        \/ kind = "opensearch" /\ r.id \in st.mistaken /\ r.id \in Ids(st)
    BY <1>1 DEF StoreGood
  <2>2. r.id # op.id /\ r.id \in Ids(st) => r.id \in Ids(new)
    BY OthersStay
  <2> QED
    BY <2>1, <2>2 DEF Spares
<1>2. ASSUME kind # "memory", NEW r \in ToSet(new.records) PROVE Len(r.vector) = new.table
  <2>1. CASE new.table = st.table /\ \A s \in ToSet(new.records) : s \in ToSet(st.records)
    BY <1>2, <2>1 DEF StoreGood
  <2>2. CASE Made(new, st, op) /\ Fits(kind, st, op)
    <3>1. \A s \in ToSet(st.records) : Len(s.vector) = st.table /\ s \in R
      <4>1. ToSet(st.records) \subseteq R
        <5>1. st.records \in Seq(R)
          BY DEF StoreTyped
        <5> QED
          BY <5>1, SeqIsFunction
      <4> QED
        BY <1>2, <4>1 DEF StoreGood
    <3>2. r \in ToSet(st.records) => st.table # 0
      BY <3>1 DEF Storable
    <3>3. new.table = IF st.table = 0 THEN Len(op.vector) ELSE st.table
      BY <2>2 DEF Made
    <3>4. st.table = 0 \/ Len(op.vector) = st.table
      BY <1>2, <2>2 DEF Fits
    <3>5. r = Record(kind, op) => Len(r.vector) = Len(op.vector)
      BY RecordMeans
    <3> QED
      BY <1>2, <3>1, <3>2, <3>3, <3>4, <3>5 DEF Spares
  <2> QED
    BY <2>1, <2>2
<1> QED
  BY <1>1, <1>2 DEF StoreGood, Spares

\* What two steps spare, both spare.
LEMMA SparedTwice ==
    ASSUME NEW kind, NEW a, NEW b, NEW c, NEW op, Spares(kind, b, a, op), Spares(kind, c, b, op)
    PROVE  Spares(kind, c, a, op)
  BY DEF Spares

\* One call of store_embedding keeps the store good, whether it is confirmed or rolled back.
LEMMA CallStaysGood ==
    ASSUME NEW R, Storable(R), NEW kind, NEW st, StoreTyped(st, R), StoreGood(kind, st),
           NEW op, op.vector \in Seq(Int), op.vector # <<>> => Record(kind, op) \in R,
           kind \in StoreKinds, kind = "memory" => op.fault # "dropped"
    PROVE  /\ StoreTyped(StoreEmbedding(kind, st, op), R) /\ StoreGood(kind, StoreEmbedding(kind, st, op))
           /\ StoreEmbedding(kind, st, op).reply = "upstream" /\ op.undone
                => op.id \notin Ids(StoreEmbedding(kind, st, op))
<1> DEFINE new == StoreEmbedding(kind, st, op)
           added == AddRecord(kind, st, op)
           unfit == kind # "memory" /\ st.table # 0 /\ Len(op.vector) # st.table
           wrong == op.vector = <<>> \/ (kind # "memory" /\ st.dimension \notin {0, Len(op.vector)})
           refused == [st EXCEPT !.reply = "validation"]
           told == [st EXCEPT !.dimension = Len(op.vector)]
           noted == [added EXCEPT !.disturbed = st.disturbed \cup {op.id}]
           sure == {r \in st.confirmed : r.id # op.id} \cup {Record(kind, op)}
           stored == Confirmed(kind, added, op)
           lost == op.fault \in {"before", "after"} \/ op.id \notin Ids(added)
           Fine(s) == StoreTyped(s, R) /\ StoreGood(kind, s) /\ (s.reply = "upstream" /\ op.undone => op.id \notin Ids(s))
<1>1. new = IF wrong THEN refused
            ELSE IF unfit THEN Rollback(kind, told, op)
            ELSE IF op.fault = "crash" THEN Restarted(kind, noted)
            ELSE IF lost THEN Rollback(kind, added, op)
            ELSE stored
  BY Zenon DEF StoreEmbedding
<1>2. Len(op.vector) \in Nat
  BY LenProperties
<1>3. CASE wrong
  <2>1. StoreTyped(refused, R) /\ refused.records = st.records /\ refused.table = st.table
        /\ refused.confirmed = st.confirmed /\ refused.disturbed = st.disturbed /\ refused.reply = "validation"
        /\ refused.mistaken = st.mistaken /\ refused.dimension = st.dimension
    BY DEF StoreTyped
  <2>2. new = refused
    BY <1>1, <1>3
  <2> HIDE DEF refused, new, wrong
  <2>3. StoreGood(kind, refused)
    BY <2>1 DEF StoreGood, Ids
  <2>4. Fine(new)
    BY <2>1, <2>2, <2>3
  <2> QED
    BY <2>4 DEF new
<1>4. CASE ~wrong
  <2>1. Record(kind, op) \in R /\ Record(kind, op).id = op.id
    BY <1>4 DEF Record
  <2>2. /\ StoreTyped(added, R) /\ Spares(kind, added, st, op) /\ Made(added, st, op)
        /\ added.confirmed = st.confirmed /\ added.disturbed = st.disturbed
        /\ added.mistaken = st.mistaken /\ (kind = "lancedb" => added.dimension = added.table)
        /\ op.fault \notin {"before", "dropped", "crash"} => Record(kind, op) \in ToSet(added.records)
        /\ op.fault = "dropped" /\ kind = "lancedb" => op.id \notin Ids(added)
    BY <2>1, AddedRecord
  <2>3. ~unfit => Fits(kind, st, op)
    BY DEF Fits
  <2>4. new = IF unfit THEN Rollback(kind, told, op)
              ELSE IF op.fault = "crash" THEN Restarted(kind, noted)
              ELSE IF lost THEN Rollback(kind, added, op)
              ELSE stored
    <3> HIDE DEF new, wrong, unfit, told, noted, added, stored, lost
    <3> QED
      BY <1>1, <1>4
  <2>4a. unfit => kind # "lancedb"
    BY <1>4 DEF StoreGood
  <2> HIDE DEF new, wrong, unfit, added, lost
  <2>5. CASE unfit
    <3>1. StoreTyped(told, R) /\ told.records = st.records /\ told.table = st.table
          /\ told.confirmed = st.confirmed /\ told.disturbed = st.disturbed /\ told.mistaken = st.mistaken
      BY <1>2 DEF StoreTyped
    <3> HIDE DEF told
    <3> DEFINE back == Rollback(kind, told, op)
    <3>2. Distinct(told.records)
      BY <3>1 DEF StoreGood
    <3>2a. /\ StoreTyped(Rollback(kind, told, op), R) /\ Spares(kind, Rollback(kind, told, op), told, op)
           /\ \A r \in ToSet(Rollback(kind, told, op).records) : r \in ToSet(told.records)
           /\ Rollback(kind, told, op).table = told.table /\ Rollback(kind, told, op).confirmed = told.confirmed
           /\ Rollback(kind, told, op).disturbed = told.disturbed \cup {op.id}
           /\ Rollback(kind, told, op).mistaken = told.mistaken
           /\ Rollback(kind, told, op).dimension = told.dimension
           /\ Rollback(kind, told, op).reply = "upstream"
           /\ op.undone => op.id \notin Ids(Rollback(kind, told, op))
      BY <2>1, <3>1, <3>2, RollbackMeans, Zenon
    <3>3. /\ StoreTyped(back, R) /\ Spares(kind, back, told, op)
          /\ \A s \in ToSet(back.records) : s \in ToSet(told.records)
          /\ back.table = told.table /\ back.confirmed = told.confirmed
          /\ back.disturbed = told.disturbed \cup {op.id} /\ back.mistaken = told.mistaken
          /\ op.undone => op.id \notin Ids(back)
      BY <3>2a, Zenon
    <3>4. new = back
      BY <2>4, <2>5
    <3> HIDE DEF back
    <3>5. Spares(kind, back, st, op)
      BY <3>1, <3>3 DEF Spares
    <3>6. StoreGood(kind, back)
      BY <2>1, <2>4a, <2>5, <3>1, <3>3, <3>5, DisturbedStaysGood
    <3> QED
      BY <3>3, <3>4, <3>6 DEF new
  <2>6. CASE ~unfit /\ op.fault = "crash"
    <3> DEFINE again == Restarted(kind, noted)
    <3>1. op.id \in {r.id : r \in R}
      BY <2>1
    <3>2. StoreTyped(noted, R) /\ noted.records = added.records /\ noted.table = added.table
          /\ noted.confirmed = st.confirmed /\ noted.disturbed = st.disturbed \cup {op.id}
          /\ noted.mistaken = st.mistaken
      <4>1. st.disturbed \subseteq {r.id : r \in R}
        BY DEF StoreTyped
      <4> QED
        BY <2>2, <3>1, <4>1 DEF StoreTyped
    <3> HIDE DEF noted
    <3>3. StoreTyped(again, R) /\ again.records = added.records /\ again.table = added.table
          /\ again.confirmed = st.confirmed /\ again.disturbed = st.disturbed \cup {op.id}
          /\ again.reply = "none" /\ again.mistaken = st.mistaken
          /\ (kind = "lancedb" => again.dimension = again.table)
      BY <3>2 DEF Restarted, StoreTyped
    <3>4. new = again
      BY <2>4, <2>6
    <3> HIDE DEF again
    <3>5. Spares(kind, again, st, op) /\ Made(again, st, op)
      <4>1. Spares(kind, added, st, op) /\ Made(added, st, op)
            /\ again.records = added.records /\ again.table = added.table
        BY <2>2, <3>3
      <4> QED
        BY <4>1 DEF Spares, Made
    <3>6. StoreGood(kind, again)
      <4>1. again.confirmed = st.confirmed /\ again.disturbed = st.disturbed \cup {op.id}
        BY <3>3
      <4>2. again.mistaken = st.mistaken /\ (kind = "lancedb" => again.dimension = again.table)
        BY <3>3
      <4>3. Made(again, st, op) /\ Fits(kind, st, op) /\ Record(kind, op) \in R
        BY <2>1, <2>3, <2>6, <3>5
      <4> QED
        BY <3>5, <4>1, <4>2, <4>3, DisturbedStaysGood, Zenon
    <3>7. StoreTyped(again, R) /\ again.reply = "none"
      BY <3>3
    <3> QED
      BY <3>4, <3>6, <3>7 DEF new
  <2>7. CASE ~unfit /\ op.fault # "crash" /\ lost
    <3> DEFINE back == Rollback(kind, added, op)
    <3>1. Distinct(added.records)
      BY <2>2 DEF Spares
    <3>1a. /\ StoreTyped(Rollback(kind, added, op), R) /\ Spares(kind, Rollback(kind, added, op), added, op)
           /\ \A r \in ToSet(Rollback(kind, added, op).records) : r \in ToSet(added.records)
           /\ Rollback(kind, added, op).table = added.table /\ Rollback(kind, added, op).confirmed = added.confirmed
           /\ Rollback(kind, added, op).disturbed = added.disturbed \cup {op.id}
           /\ Rollback(kind, added, op).mistaken = added.mistaken
           /\ Rollback(kind, added, op).dimension = added.dimension
           /\ Rollback(kind, added, op).reply = "upstream"
           /\ op.undone => op.id \notin Ids(Rollback(kind, added, op))
      BY <2>1, <2>2, <3>1, RollbackMeans, Zenon
    <3>2. /\ StoreTyped(back, R) /\ Spares(kind, back, added, op)
          /\ back.table = added.table /\ back.confirmed = added.confirmed
          /\ back.disturbed = added.disturbed \cup {op.id} /\ back.mistaken = added.mistaken
          /\ back.dimension = added.dimension
          /\ op.undone => op.id \notin Ids(back)
      BY <3>1a, Zenon
    <3>3. new = back
      BY <2>4, <2>7
    <3> HIDE DEF back
    <3>4. Spares(kind, back, st, op) /\ Made(back, st, op)
      BY <2>2, <3>2, SparedTwice DEF Made
    <3>5. StoreGood(kind, back)
      BY <2>1, <2>2, <2>3, <2>7, <3>2, <3>4, DisturbedStaysGood
    <3> QED
      BY <3>2, <3>3, <3>5 DEF new
  <2>8. CASE ~unfit /\ op.fault # "crash" /\ ~lost
    <3> DEFINE mistaken == IF op.fault = "dropped" THEN st.mistaken \cup {op.id} ELSE st.mistaken \ {op.id}
    <3>0. op.id \in Ids(added) /\ op.fault \notin {"before", "after", "crash"}
      BY <2>8 DEF lost
    <3>1. StoreTyped(stored, R) /\ stored.records = added.records /\ stored.table = added.table
          /\ stored.confirmed = sure /\ stored.disturbed = st.disturbed \ {op.id} /\ stored.reply = "result"
          /\ stored.mistaken = mistaken /\ stored.dimension = added.dimension
      <4>1. sure \subseteq R /\ st.disturbed \ {op.id} \subseteq {r.id : r \in R}
            /\ mistaken \subseteq {r.id : r \in R}
        BY <2>1 DEF StoreTyped
      <4>2. stored = [added EXCEPT !.confirmed = sure, !.reply = "result", !.disturbed = st.disturbed \ {op.id},
                                   !.mistaken = mistaken]
        BY <2>2 DEF Confirmed
      <4> HIDE DEF sure, mistaken, stored
      <4> QED
        BY <2>2, <4>1, <4>2 DEF StoreTyped
    <3>2. new = stored
      BY <2>4, <2>8
    <3> HIDE DEF stored
    <3>3. ASSUME NEW r \in stored.confirmed
          PROVE  \/ r \in ToSet(stored.records) \/ r.id \in stored.disturbed
                 \/ kind = "opensearch" /\ r.id \in stored.mistaken /\ r.id \in Ids(stored)
      <4>0. r \in sure /\ Ids(stored) = Ids(added)
        BY <3>1, <3>3 DEF Ids
      <4>1. CASE r = Record(kind, op) /\ op.fault # "dropped"
        BY <2>2, <3>0, <3>1, <4>1
      <4>2. CASE r = Record(kind, op) /\ op.fault = "dropped"
        <5>1. kind = "opensearch"
          BY <2>2, <3>0, <4>2 DEF StoreKinds
        <5> QED
          BY <2>1, <3>0, <3>1, <4>0, <4>2, <5>1
      <4>3. CASE r \in st.confirmed /\ r.id # op.id
        <5>1. \/ r \in ToSet(st.records) \/ r.id \in st.disturbed
              \/ kind = "opensearch" /\ r.id \in st.mistaken /\ r.id \in Ids(st)
          BY <4>3 DEF StoreGood
        <5>2. r.id \in Ids(st) => r.id \in Ids(added)
          BY <2>2, <4>3, OthersStay
        <5>3. r \in ToSet(st.records) => r \in ToSet(added.records)
          BY <2>2, <4>3 DEF Spares
        <5> QED
          BY <3>1, <4>0, <4>3, <5>1, <5>2, <5>3
      <4> QED
        BY <4>0, <4>1, <4>2, <4>3
    <3>4. Distinct(stored.records)
      BY <2>2, <3>1 DEF Spares
    <3>5. kind # "memory" => \A r \in ToSet(stored.records) : Len(r.vector) = stored.table
      <4> DEFINE ended == [added EXCEPT !.disturbed = st.disturbed \cup {op.id}]
      <4>1. ended.records = added.records /\ ended.table = added.table
            /\ ended.confirmed = st.confirmed /\ ended.disturbed = st.disturbed \cup {op.id}
            /\ ended.mistaken = st.mistaken /\ ended.dimension = added.dimension
        BY <2>2 DEF StoreTyped
      <4> HIDE DEF ended
      <4>2. Spares(kind, ended, st, op) /\ Made(ended, st, op)
        BY <2>2, <4>1 DEF Spares, Made
      <4>3. StoreGood(kind, ended)
        <5>1. ended.confirmed = st.confirmed /\ ended.disturbed = st.disturbed \cup {op.id}
          BY <4>1
        <5>2. ended.mistaken = st.mistaken /\ (kind = "lancedb" => ended.dimension = ended.table)
          BY <2>2, <4>1
        <5>3. Made(ended, st, op) /\ Fits(kind, st, op) /\ Record(kind, op) \in R
          BY <2>1, <2>3, <2>8, <4>2
        <5> QED
          BY <4>2, <5>1, <5>2, <5>3, DisturbedStaysGood, Zenon
      <4> QED
        BY <3>1, <4>1, <4>3 DEF StoreGood
    <3>6. StoreGood(kind, stored)
      BY <2>2, <3>1, <3>3, <3>4, <3>5 DEF StoreGood
    <3> QED
      BY <3>1, <3>2, <3>6 DEF new
  <2> QED
    BY <2>5, <2>6, <2>7, <2>8
<1> QED
  BY <1>3, <1>4

\* A store is good after every history, and what it gives back is what is best.
LEMMA HistoriesAreSound ==
    ASSUME NEW kind, NEW ops, HistoryOf(kind, ops)
    PROVE  /\ StoreIsSound(kind, ops)
           /\ \E n \in Nat : StoredRecords(StoreAll(kind, ops).records, n)
           /\ kind = "lancedb" => LET st == StoreAll(kind, ops)
                                  IN  st.dimension = st.table /\ (st.table = 0 => st.records = <<>>)
<1> DEFINE R == {r \in {Record(kind, ops[i]) : i \in DOMAIN ops} : r.vector # <<>>}
           States == [records : Seq(R), dimension : Nat, table : Nat, confirmed : SUBSET R,
                      disturbed : SUBSET {r.id : r \in R}, mistaken : SUBSET {r.id : r \in R},
                      reply : {"result", "validation", "upstream", "none"}]
<1>a. PICK n \in Nat \ {0} : n = Len(ops) /\ DOMAIN ops = 1..n
  <2>1. DOMAIN ops = 1..Len(ops) /\ Len(ops) \in Nat \ {0}
    BY Zenon DEF HistoryOf
  <2> QED
    BY <2>1, Zenon
<1>b. Storable(R)
  <2> SUFFICES ASSUME NEW r \in R PROVE IsRecord(r) /\ Len(r.vector) \in Nat \ {0}
    BY Zenon DEF Storable
  <2>0. PICK i \in DOMAIN ops : r = Record(kind, ops[i]) /\ r.vector # <<>>
    OBVIOUS
  <2>1. ops[i].vector \in Seq(Int)
    BY DEF HistoryOf
  <2>3. PICK v \in Seq(Int) : Record(kind, ops[i]) = [id |-> ops[i].id, vector |-> v]
    BY <2>1, RecordMeans
  <2>2. Len(v) \in Nat \ {0}
    BY <2>0, <2>3, EmptySeq, LenProperties
  <2> QED
    BY <2>0, <2>1, <2>2, <2>3 DEF IsRecord
<1>c. \A k \in 1..n : ops[k].vector \in Seq(Int) /\ (ops[k].vector # <<>> => Record(kind, ops[k]) \in R)
  <2> SUFFICES ASSUME NEW k \in 1..n
               PROVE  ops[k].vector \in Seq(Int) /\ (ops[k].vector # <<>> => Record(kind, ops[k]) \in R)
    OBVIOUS
  <2>1. k \in DOMAIN ops /\ ops[k].vector \in Seq(Int)
    BY <1>a DEF HistoryOf
  <2>2. PICK v \in Seq(Int) : Record(kind, ops[k]) = [id |-> ops[k].id, vector |-> v] /\ Len(v) = Len(ops[k].vector)
    BY <2>1, RecordMeans
  <2>3. v = <<>> => ops[k].vector = <<>>
    BY <2>1, <2>2, EmptySeq
  <2> QED
    BY <2>1, <2>2, <2>3
<1>d. kind \in StoreKinds /\ \A k \in 1..n : kind = "memory" => ops[k].fault # "dropped"
  BY <1>a DEF HistoryOf
<1> HIDE DEF R
<1> DEFINE All == {s \in States : StoreGood(kind, s)}
           next == [x \in All \X (1..n) |-> StoreEmbedding(kind, x[1], ops[x[2]])]
           Body(g) == [k \in 0..Len(ops) |-> IF k = 0 THEN EmptyStore ELSE StoreEmbedding(kind, g[k - 1], ops[k])]
           so == CHOOSE g : g = Body(g)
<1>1. Len(ops) = n /\ \A k \in 1..n : k - 1 \in 0..n /\ k \in 0..n /\ k # 0
  BY <1>a
<1>2. StoreAll(kind, ops) = so[n]
  <2>1. StoreAll(kind, ops) = so[Len(ops)]
    BY Zenon DEF StoreAll
  <2> HIDE DEF so
  <2> QED
    BY <1>1, <2>1
<1>3. EmptyStore \in All
  <2>1. EmptyStore \in States
    <3>1. <<>> \in Seq(R)
      OBVIOUS
    <3> QED
      BY <3>1, Zenon DEF EmptyStore
  <2>2. StoreGood(kind, EmptyStore)
    <3>1. ToSet(<<>>) = {} /\ Distinct(<<>>)
      BY DEF ToSet, Distinct
    <3>2. /\ EmptyStore.records = <<>> /\ EmptyStore.confirmed = {}
          /\ EmptyStore.dimension = EmptyStore.table
      BY DEF EmptyStore
    <3> QED
      BY <3>1, <3>2 DEF StoreGood
  <2> QED
    BY <2>1, <2>2
<1>4. \A s \in All, k \in 1..n : StoreEmbedding(kind, s, ops[k]) \in All
  <2> SUFFICES ASSUME NEW s \in All, NEW k \in 1..n PROVE StoreEmbedding(kind, s, ops[k]) \in All
    OBVIOUS
  <2>1. StoreTyped(s, R) /\ StoreGood(kind, s)
    BY DEF StoreTyped
  <2>2. StoreTyped(StoreEmbedding(kind, s, ops[k]), R) /\ StoreGood(kind, StoreEmbedding(kind, s, ops[k]))
    BY <1>b, <1>c, <1>d, <2>1, CallStaysGood
  <2> QED
    BY <2>2 DEF StoreTyped
<1>5. next \in [All \X (1..n) -> All] /\ \A s \in All, k \in 1..n : next[<<s, k>>] = StoreEmbedding(kind, s, ops[k])
  <2> HIDE DEF All
  <2> QED
    BY <1>4
<1> HIDE DEF next
<1>6. PICK f \in [0..n -> All] : Recurs(f, n, EmptyStore, next)
  <2> HIDE DEF All
  <2> QED
    BY <1>3, <1>5, RecursionUpTo
<1>7. f[0] = EmptyStore /\ \A k \in 1..n : f[k] = StoreEmbedding(kind, f[k - 1], ops[k])
  <2> HIDE DEF All
  <2> QED
    BY <1>1, <1>5, <1>6 DEF Recurs
<1>8. f = Body(f)
  <2>1. \A k \in 0..n : k = 0 \/ k \in 1..n
    OBVIOUS
  <2>2. \A k \in 0..n : f[k] = Body(f)[k]
    BY <1>1, <1>7, <2>1
  <2>3. f = [k \in 0..n |-> f[k]] /\ Body(f) = [k \in 0..n |-> Body(f)[k]]
    BY <1>1, <1>6
  <2> HIDE DEF Body
  <2> QED
    BY <2>2, <2>3
<1>9. so = Body(so)
  BY <1>8, Zenon
<1> HIDE DEF so
<1>10. so[0] = EmptyStore /\ \A k \in 1..n : so[k] = StoreEmbedding(kind, so[k - 1], ops[k])
  <2>1. so[0] = Body(so)[0] /\ \A k \in 1..n : so[k] = Body(so)[k]
    BY <1>9
  <2>2. Body(so)[0] = EmptyStore /\ \A k \in 1..n : Body(so)[k] = StoreEmbedding(kind, so[k - 1], ops[k])
    BY <1>1
  <2> HIDE DEF Body
  <2> QED
    BY <2>1, <2>2
<1> DEFINE T == {k \in 0..n : so[k] \in All}
<1>11. 0 \in T
  <2> HIDE DEF All
  <2> QED
    BY <1>3, <1>10
<1>12. \A k \in 1..n : k - 1 \in T => k \in T
  <2> SUFFICES ASSUME NEW k \in 1..n, k - 1 \in T PROVE k \in T
    OBVIOUS
  <2> HIDE DEF All
  <2> QED
    BY <1>1, <1>4, <1>10
<1> HIDE DEF T
<1>13. 0..n \subseteq T
  BY <1>11, <1>12, UpToInduction
<1>14. \A k \in 0..n : so[k] \in All
  BY <1>13 DEF T
<1>15. PICK k \in 1..n : k = n /\ so[k] = StoreEmbedding(kind, so[k - 1], ops[k]) /\ so[k - 1] \in All /\ so[k] \in All
  <2>1. n \in 1..n
    OBVIOUS
  <2> HIDE DEF All
  <2> QED
    BY <1>1, <1>10, <1>14, <2>1
<1>16. PICK old, st : /\ old \in All /\ st = StoreEmbedding(kind, old, ops[n]) /\ st \in All
                      /\ StoreAll(kind, ops) = st
  <2> HIDE DEF All
  <2> QED
    BY <1>2, <1>15
<1>17. StoreTyped(old, R) /\ StoreGood(kind, old) /\ StoreTyped(st, R) /\ StoreGood(kind, st)
  BY <1>16 DEF StoreTyped
<1> HIDE DEF All
<1>18. st.reply = "upstream" /\ ops[n].undone => ops[n].id \notin Ids(st)
  <2>1. n \in 1..n
    OBVIOUS
  <2>2. ops[n].vector \in Seq(Int) /\ (ops[n].vector # <<>> => Record(kind, ops[n]) \in R)
    BY <1>c, <2>1
  <2>3. StoreEmbedding(kind, old, ops[n]).reply = "upstream" /\ ops[n].undone
                => ops[n].id \notin Ids(StoreEmbedding(kind, old, ops[n]))
    BY <1>b, <1>d, <1>17, <2>1, <2>2, CallStaysGood
  <2> QED
    BY <1>16, <2>3, Zenon
<1>19. StoreIsSound(kind, ops)
  <2>1. StoreIsSound(kind, ops) <=>
          /\ \A r \in st.confirmed :
                \/ r \in ToSet(st.records) \/ r.id \in st.disturbed
                \/ kind = "opensearch" /\ r.id \in st.mistaken /\ r.id \in Ids(st)
          /\ st.reply = "upstream" /\ ops[n].undone => ops[n].id \notin Ids(st)
          /\ \A i, j \in DOMAIN st.records : st.records[i].id = st.records[j].id => i = j
          /\ kind # "memory" => \A r \in ToSet(st.records) : Len(r.vector) = st.table
          /\ kind = "lancedb" => st.dimension = st.table
    <3>1. Len(ops) = n /\ StoreAll(kind, ops) = st
      BY <1>a, <1>16
    <3> QED
      BY <3>1, Zenon DEF StoreIsSound
  <2>2. Distinct(st.records)
    BY <1>17 DEF StoreGood
  <2>3. \A i, j \in DOMAIN st.records : st.records[i].id = st.records[j].id => i = j
    BY <2>2, Zenon DEF Distinct
  <2> QED
    BY <1>17, <1>18, <2>1, <2>3, Zenon DEF StoreGood
<1>20. \E m \in Nat : StoredRecords(st.records, m)
  <2>1. st.records \in Seq(R)
    BY <1>17 DEF StoreTyped
  <2>2. PICK m \in Nat : m = Len(st.records) /\ DOMAIN st.records = 1..m /\ \A i \in 1..m : st.records[i] \in R
    BY <2>1, SeqIsFunction
  <2>3. \A i \in 1..m : IsRecord(st.records[i])
    BY <1>b, <2>2 DEF Storable
  <2> QED
    BY <2>2, <2>3 DEF StoredRecords
<1>21. kind = "lancedb" => st.dimension = st.table /\ (st.table = 0 => st.records = <<>>)
  <2> SUFFICES ASSUME kind = "lancedb", st.table = 0, st.records # <<>> PROVE FALSE
    BY <1>17 DEF StoreGood
  <2>1. st.records \in Seq(R)
    BY <1>17 DEF StoreTyped
  <2>2. PICK m \in Nat : /\ m = Len(st.records) /\ \A i \in 1..m : st.records[i] \in R
                         /\ ToSet(st.records) = {st.records[i] : i \in 1..m}
    BY <2>1, SeqIsFunction
  <2>3. m # 0
    BY <2>1, <2>2, EmptySeq
  <2>4. PICK r \in R : r \in ToSet(st.records)
    BY <2>2, <2>3
  <2>5. Len(r.vector) \in Nat \ {0}
    BY <1>b DEF Storable
  <2> QED
    BY <1>17, <2>4, <2>5 DEF StoreGood
<1> QED
  BY <1>16, <1>19, <1>20, <1>21

\* A search after any history is right, whatever the engine shows.
LEMMA SearchesAreRight ==
    ASSUME NEW in, SearchOf(in)
    PROVE  SearchIsRight(in, SearchEmbeddings(in))
<1> DEFINE st == StoreAll(in.kind, in.ops)
           ranked == Ranked(in, st)
           hits == Nearest(ranked, in.q, in.k)
           told == SearchStore(in, st)
           asked == in.k \in MinK..MaxK /\ in.q # <<>>
           unmade == in.kind = "lancedb" /\ st.table = 0
           longer == in.kind # "memory" /\ st.dimension \notin {0, Len(in.q)}
           closed == in.kind = "opensearch" /\ (~in.answers \/ st.table # Len(in.q))
<1>1. HistoryOf(in.kind, in.ops) /\ in.q \in Seq(Int) /\ in.k \in Int
  BY DEF SearchOf
<1>2. PICK n \in Nat : StoredRecords(st.records, n)
  BY <1>1, HistoriesAreSound
<1>3. in.kind = "lancedb" => st.dimension = st.table /\ (st.table = 0 => st.records = <<>>)
  BY <1>1, HistoriesAreSound
<1>4. SearchEmbeddings(in) = told
  BY DEF SearchEmbeddings
<1>5. told = IF ~asked THEN [reply |-> "validation", hits |-> <<>>]
             ELSE IF unmade THEN [reply |-> "result", hits |-> <<>>]
             ELSE IF longer THEN [reply |-> "validation", hits |-> <<>>]
             ELSE IF closed THEN [reply |-> "upstream", hits |-> <<>>]
             ELSE [reply |-> "result", hits |-> hits]
  BY Zenon DEF SearchStore
<1> HIDE DEF st, hits, told
<1>6. PICK m \in Nat : StoredRecords(ranked, m)
  <2>1. CASE in.kind = "opensearch"
    <3> DEFINE places == {i \in DOMAIN st.records : i \in in.shown}
    <3>1. ranked = ElementsAt(st.records, places)
      BY <2>1 DEF Ranked, Shown
    <3>2. DOMAIN st.records = 1..n /\ \A i \in 1..n : IsRecord(st.records[i])
      BY <1>2 DEF StoredRecords
    <3>3. places \in SUBSET (1..n)
      BY <3>2
    <3> HIDE DEF places
    <3>4. PICK m \in Nat : ElementsSo(ElementsAt(st.records, places), st.records, places, m)
      BY <3>3, ElementsAtMean
    <3>5. PICK order \in [1..m -> places] : ranked = [k \in 1..m |-> st.records[order[k]]]
      BY <3>1, <3>4 DEF ElementsSo
    <3>6. DOMAIN ranked = 1..m /\ \A k \in 1..m : IsRecord(ranked[k])
      BY <3>2, <3>3, <3>5
    <3>7. ranked \in [1..m -> {ranked[k] : k \in 1..m}]
      BY <3>5
    <3>8. Len(ranked) = m
      BY <3>7, FunctionIsSeq
    <3> QED
      BY <3>6, <3>8 DEF StoredRecords
  <2>2. CASE in.kind # "opensearch"
    BY <1>2, <2>2 DEF Ranked
  <2> QED
    BY <2>1, <2>2
<1>7. asked => in.k \in Nat
  <2>1. \A x \in MinK..MaxK : x \in Nat
    BY DEF MinK, MaxK
  <2> QED
    BY <2>1, Zenon
<1>8. asked => BestOfAll(ranked, in.q, in.k, hits)
  BY <1>1, <1>6, <1>7, SearchIsBest DEF Vector, hits
<1> HIDE DEF ranked
<1>9. asked /\ unmade => BestOfAll(ranked, in.q, in.k, <<>>)
  <2> SUFFICES ASSUME asked, unmade PROVE BestOfAll(ranked, in.q, in.k, <<>>)
    OBVIOUS
  <2>1. ranked = <<>>
    BY <1>3 DEF Ranked, ranked
  <2>2. hits = <<>>
    <3>1. StoredRecords(ranked, 0)
      BY <2>1 DEF StoredRecords
    <3>2. VectorRecords(ranked, 0)
      BY <2>1 DEF VectorRecords
    <3>3. FoundSo(hits, ranked, in.q, in.k, 0)
      BY <1>1, <1>7, <3>2, SearchFinds DEF hits, Vector
    <3>4. DOMAIN hits = {} /\ Len(hits) = 0
      BY <1>7, <3>3 DEF FoundSo, Lesser
    <3> QED
      BY <3>4
  <2> QED
    BY <1>8, <2>2
<1>10. told.reply = "result" => BestOfAll(ranked, in.q, in.k, told.hits)
  <2> HIDE DEF asked, unmade, longer, closed
  <2>1. told.reply = "result" => asked /\ (told.hits = hits \/ (unmade /\ told.hits = <<>>))
    BY <1>5
  <2> QED
    BY <1>8, <1>9, <2>1
<1>11. asked => /\ in.kind = "memory" => told.reply = "result"
                /\ in.kind = "lancedb" /\ Len(in.q) = st.table => told.reply = "result"
  BY <1>3, <1>5
<1>12. SearchIsRight(in, told) <=>
          /\ told.reply = "result" => BestOfAll(ranked, in.q, in.k, told.hits)
          /\ asked => /\ in.kind = "memory" => told.reply = "result"
                      /\ in.kind = "lancedb" /\ Len(in.q) = st.table => told.reply = "result"
  BY Zenon DEF SearchIsRight, ranked, st
<1> QED
  BY <1>4, <1>10, <1>11, <1>12

-----------------------------------------------------------------------------
(* geo-pointcloud: Morton order, and what is read of a file.                *)

\* The greatest of some integers in a row, and the least.
LEMMA EndsOfRow ==
    ASSUME NEW n \in Nat \ {0}, NEW f \in [1..n -> Int]
    PROVE  Min({f[j] : j \in 1..n}) \in Int /\ Max({f[j] : j \in 1..n}) \in Int
<1> DEFINE T == {f[j] : j \in 1..n}
           g == [i \in 1..n |-> 0 - f[i]]
<1>1. \E x \in T : \A y \in T : x <= y
  <2>1. PICK i \in 1..n : \A j \in 1..n : f[i] <= f[j]
    BY LeastOfRow
  <2> QED
    BY <2>1
<1>2. \E x \in T : \A y \in T : x >= y
  <2>1. g \in [1..n -> Int]
    OBVIOUS
  <2>2. PICK i \in 1..n : \A j \in 1..n : g[i] <= g[j]
    BY <2>1, LeastOfRow
  <2>3. \A j \in 1..n : f[i] >= f[j]
    BY <2>2
  <2> QED
    BY <2>3
<1>3. T \subseteq Int
  OBVIOUS
<1> HIDE DEF T
<1>4. Min(T) \in T
  BY <1>1 DEF Min
<1>5. Max(T) \in T
  BY <1>2 DEF Max
<1> QED
  BY <1>3, <1>4, <1>5 DEF T

\* Spread of a number is a number.
LEMMA SpreadIsInt ==
    ASSUME NEW value \in Int
    PROVE  Spread(value) \in Int
<1>a. PICK n \in Nat : n = MortonBits
  BY PointCloudAssumption
<1> DEFINE All == Int
           next == [x \in All \X (1..n) |-> x[1] + ((value \div PowerOf2(x[2] - 1)) % 2) * PowerOf2(3 * (x[2] - 1))]
           Body(g) == [k \in 0..MortonBits |-> IF k = 0 THEN 0 ELSE g[k - 1] + ((value \div PowerOf2(k - 1)) % 2) * PowerOf2(3 * (k - 1))]
           so == CHOOSE g : g = Body(g)
<1>1. MortonBits = n /\ \A k \in 1..n : k - 1 \in 0..n /\ k \in 0..n /\ k # 0
  BY <1>a
<1>2. Spread(value) = so[n]
  <2>1. Spread(value) = so[MortonBits]
    BY Zenon DEF Spread
  <2> HIDE DEF so
  <2> QED
    BY <1>1, <2>1
<1>3. 0 \in All
  OBVIOUS
<1>4. \A s \in All, k \in 1..n : s + ((value \div PowerOf2(k - 1)) % 2) * PowerOf2(3 * (k - 1)) \in All
  <2> SUFFICES ASSUME NEW s \in Int, NEW k \in 1..n
               PROVE  s + ((value \div PowerOf2(k - 1)) % 2) * PowerOf2(3 * (k - 1)) \in Int
    OBVIOUS
  <2>1. k - 1 \in Nat /\ 3 * (k - 1) \in Nat
    OBVIOUS
  <2>2. PICK a \in Nat \ {0}, b \in Nat \ {0} : a = PowerOf2(k - 1) /\ b = PowerOf2(3 * (k - 1))
    BY <2>1, PowersOf2Double
  <2>3. value \div a \in Int
    BY DivMeans
  <2>4. (value \div a) % 2 \in Int
    BY <2>3
  <2>5. ((value \div a) % 2) * b \in Int
    BY <2>4
  <2> QED
    BY <2>2, <2>5
<1>5. next \in [All \X (1..n) -> All] /\ \A s \in All, k \in 1..n : next[<<s, k>>] = s + ((value \div PowerOf2(k - 1)) % 2) * PowerOf2(3 * (k - 1))
  <2> HIDE DEF All
  <2> QED
    BY <1>4
<1> HIDE DEF next
<1>6. PICK f \in [0..n -> All] : Recurs(f, n, 0, next)
  <2> HIDE DEF All
  <2> QED
    BY <1>3, <1>5, RecursionUpTo
<1>7. f[0] = 0 /\ \A k \in 1..n : f[k] = f[k - 1] + ((value \div PowerOf2(k - 1)) % 2) * PowerOf2(3 * (k - 1))
  <2> HIDE DEF All
  <2> QED
    BY <1>1, <1>5, <1>6 DEF Recurs
<1>8. f = Body(f)
  <2>1. \A k \in 0..n : k = 0 \/ k \in 1..n
    OBVIOUS
  <2>2. \A k \in 0..n : f[k] = Body(f)[k]
    BY <1>1, <1>7, <2>1
  <2>3. f = [k \in 0..n |-> f[k]] /\ Body(f) = [k \in 0..n |-> Body(f)[k]]
    BY <1>1, <1>6
  <2> HIDE DEF Body
  <2> QED
    BY <2>2, <2>3
<1>9. so = Body(so)
  BY <1>8, Zenon
<1> HIDE DEF so
<1>10. so[0] = 0 /\ \A k \in 1..n : so[k] = so[k - 1] + ((value \div PowerOf2(k - 1)) % 2) * PowerOf2(3 * (k - 1))
  <2>1. so[0] = Body(so)[0] /\ \A k \in 1..n : so[k] = Body(so)[k]
    BY <1>9
  <2>2. Body(so)[0] = 0 /\ \A k \in 1..n : Body(so)[k] = so[k - 1] + ((value \div PowerOf2(k - 1)) % 2) * PowerOf2(3 * (k - 1))
    BY <1>1
  <2> HIDE DEF Body
  <2> QED
    BY <2>1, <2>2
<1> DEFINE T == {k \in 0..n : so[k] \in All}
<1>11. 0 \in T
  <2> HIDE DEF All
  <2> QED
    BY <1>3, <1>10
<1>12. \A k \in 1..n : k - 1 \in T => k \in T
  <2> SUFFICES ASSUME NEW k \in 1..n, k - 1 \in T PROVE k \in T
    OBVIOUS
  <2> HIDE DEF All
  <2> QED
    BY <1>1, <1>4, <1>10
<1> HIDE DEF T
<1>13. 0..n \subseteq T
  BY <1>11, <1>12, UpToInduction
<1>14. \A k \in 0..n : so[k] \in All
  BY <1>13 DEF T
<1> QED
  BY <1>2, <1>14

\* A coordinate on the grid of the curve is a number.
LEMMA NormedIsInt ==
    ASSUME NEW v \in Int, NEW low \in Int, NEW high \in Int
    PROVE  Normed(v, low, high) \in Int
<1>1. PICK scale \in Int : scale = PowerOf2(MortonBits) - 1
  BY PowersOf2Double, PointCloudAssumption
<1> DEFINE over == 2 * (v - low) * scale + (high - low)
           wide == 2 * (high - low)
           doubled == over \div wide
<1>2. Normed(v, low, high) = IF high <= low THEN 0
                             ELSE IF over % wide = 0 THEN doubled - (doubled % 2) ELSE doubled
  BY <1>1, Zenon DEF Normed
<1>3. over \in Int
  BY <1>1
<1>4. high > low => wide \in Nat \ {0}
  OBVIOUS
<1> HIDE DEF over, wide
<1>5. high > low => doubled \in Int
  BY <1>3, <1>4, DivMeans
<1> HIDE DEF doubled
<1>6. high > low => doubled - (doubled % 2) \in Int
  BY <1>5
<1> QED
  BY <1>2, <1>5, <1>6

\* Points of a chunk.
PointRow(points, n) == points \in [1..n -> [x : Int, z : Int, attr : Int]]

\* The place on the curve is a number.
LEMMA MortonKeyIsInt ==
    ASSUME NEW n \in Nat, NEW points, PointRow(points, n), NEW i \in 1..n
    PROVE  MortonKey(points, i) \in Int
<1> DEFINE xs == {points[j].x : j \in DOMAIN points}
           zs == {points[j].z : j \in DOMAIN points}
           fx == [j \in 1..n |-> points[j].x]
           fz == [j \in 1..n |-> points[j].z]
<1>1. DOMAIN points = 1..n /\ n # 0 /\ \A j \in 1..n : points[j].x \in Int /\ points[j].z \in Int
  BY DEF PointRow
<1>2. fx \in [1..n -> Int] /\ fz \in [1..n -> Int]
  BY <1>1
<1>3. xs = {fx[j] : j \in 1..n} /\ zs = {fz[j] : j \in 1..n}
  BY <1>1
<1>4. MortonKey(points, i) = 6 * Spread(Normed(points[i].x, Min(xs), Max(xs)))
                             + Spread(Normed(points[i].z, Min(zs), Max(zs)))
  BY Zenon DEF MortonKey
<1> HIDE DEF fx, fz, xs, zs
<1>5. Min(xs) \in Int /\ Max(xs) \in Int /\ Min(zs) \in Int /\ Max(zs) \in Int
  BY <1>1, <1>2, <1>3, EndsOfRow
<1>6. PICK a \in Int, b \in Int : a = Normed(points[i].x, Min(xs), Max(xs)) /\ b = Normed(points[i].z, Min(zs), Max(zs))
  BY <1>1, <1>5, NormedIsInt
<1> QED
  BY <1>4, <1>6, SpreadIsInt

\* The Morton order has every point once.
Shuffled(some, points, n) ==
    \E order \in [1..n -> 1..n] :
       /\ some = [k \in 1..n |-> points[order[k]]]
       /\ \A i \in 1..n : \E k \in 1..n : order[k] = i
       /\ \A k, l \in 1..n : order[k] = order[l] => k = l

\* Morton order is the points in another order, none left out and none twice.
LEMMA MortonShuffles ==
    ASSUME NEW n \in Nat, NEW points, PointRow(points, n)
    PROVE  Shuffled(MortonOrder(points), points, n)
<1> DEFINE Key(i) == MortonKey(points, i)
           Before(i, j) == Key(i) < Key(j) \/ (Key(i) = Key(j) /\ i < j)
           places == DOMAIN points
           before == {p \in places \X places : Before(p[1], p[2])}
           order == InOrder(places, before)
<1>1. places = 1..n
  BY DEF PointRow
<1>2. \A i \in 1..n : Key(i) \in Int
  BY MortonKeyIsInt
<1>3. MortonOrder(points) = [k \in DOMAIN order |-> points[order[k]]]
  BY Zenon DEF MortonOrder
<1> HIDE DEF places
<1>4. \A i, j \in 1..n : <<i, j>> \in before <=> Before(i, j)
  <2> HIDE DEF Before
  <2> QED
    BY <1>1
<1> HIDE DEF Key, before
<1>5. Orders(before, 1..n)
  <2>1. \A i \in 1..n : <<i, i>> \notin before
    BY <1>2, <1>4
  <2>2. \A i, j, k \in 1..n : <<i, j>> \in before /\ <<j, k>> \in before => <<i, k>> \in before
    <3> SUFFICES ASSUME NEW i \in 1..n, NEW j \in 1..n, NEW k \in 1..n, Before(i, j), Before(j, k)
                 PROVE  Before(i, k)
      BY <1>4
    <3> QED
      BY <1>2
  <2>3. \A i, j \in 1..n : i = j \/ <<i, j>> \in before \/ <<j, i>> \in before
    <3> SUFFICES ASSUME NEW i \in 1..n, NEW j \in 1..n PROVE i = j \/ Before(i, j) \/ Before(j, i)
      BY <1>4
    <3> QED
      BY <1>2
  <2> QED
    BY <2>1, <2>2, <2>3 DEF Orders
<1>6. IsFiniteSet(1..n) /\ Cardinality(1..n) = n
  BY FS_Interval
<1>7. OrderSo(order, 1..n, before, n)
  BY <1>1, <1>5, <1>6, InOrderMeans
<1> HIDE DEF order
<1>8. order \in [1..n -> 1..n]
  BY <1>7 DEF OrderSo
<1>9. MortonOrder(points) = [k \in 1..n |-> points[order[k]]]
  BY <1>3, <1>8
<1> QED
  BY <1>7, <1>8, <1>9 DEF Shuffled, OrderSo

\* A sequence that takes the members of a set of places, each once.
TakenBy(some, s, J, m, f) ==
    /\ some = [k \in 1..m |-> s[f[k]]]
    /\ \A i \in J : \E k \in 1..m : f[k] = i
    /\ \A k, l \in 1..m : f[k] = f[l] => k = l
Taken(some, s, J) == \E m \in Nat : \E f \in [1..m -> J] : TakenBy(some, s, J, m, f)

\* Sequences that take the members of one set, each once, have the same elements.
Fibre(c, S, p) == {i \in S : c[i] = p}

\* One to one correspondence keeps how often a point is taken.
LEMMA AsOften ==
    ASSUME NEW J, NEW m \in Nat, NEW f \in [1..m -> J], NEW s, NEW p,
           NEW c, TakenBy(c, s, J, m, f)
    PROVE  Cardinality(Fibre(c, DOMAIN c, p)) = Cardinality(Fibre(s, J, p))
<1> DEFINE A == Fibre(c, DOMAIN c, p)
           B == Fibre(s, J, p)
           g == [k \in A |-> f[k]]
<1>a. A \subseteq 1..m /\ (\A k \in 1..m : k \in A <=> s[f[k]] = p) /\ B = {i \in J : s[i] = p}
  BY DEF Fibre, TakenBy
<1> HIDE DEF A, B
<1>1. IsFiniteSet(A)
  <2>1. IsFiniteSet(1..m) /\ A \in SUBSET (1..m)
    BY <1>a, FS_Interval
  <2> QED
    BY <2>1, FS_Subset
<1>2. g \in [A -> B]
  BY <1>a
<1>3. \A k, l \in A : g[k] = g[l] => k = l
  BY <1>a DEF TakenBy
<1>4. \A i \in B : \E k \in A : g[k] = i
  BY <1>a DEF TakenBy
<1>5. g \in Bijection(A, B)
  <2> HIDE DEF g
  <2> QED
    BY <1>2, <1>3, <1>4 DEF Bijection, Injection, IsInjective, Surjection
<1>6. ExistsBijection(A, B)
  BY <1>5 DEF ExistsBijection
<1>7. Cardinality(B) = Cardinality(A)
  BY <1>1, <1>6, FS_Bijection
<1> QED
  BY <1>7 DEF A, B

\* Two readings that take the points alike.
LEMMA TakenAlike ==
    ASSUME NEW n \in Nat, NEW J \in SUBSET (1..n), NEW s, NEW a, NEW b, Taken(a, s, J), Taken(b, s, J)
    PROVE  SameBag(a, b)
<1>1. ASSUME NEW c, NEW p, Taken(c, s, J)
      PROVE  Cardinality(Fibre(c, DOMAIN c, p)) = Cardinality(Fibre(s, J, p))
  <2>1a. PICK m \in Nat : \E f \in [1..m -> J] : TakenBy(c, s, J, m, f)
    BY <1>1 DEF Taken
  <2>1. PICK f \in [1..m -> J] : TakenBy(c, s, J, m, f)
    BY <2>1a
  <2> QED
    BY <2>1, AsOften
<1>2. \A p : Cardinality(Fibre(a, DOMAIN a, p)) = Cardinality(Fibre(b, DOMAIN b, p))
  BY <1>1
<1> QED
  BY <1>2, Zenon DEF SameBag, Fibre

\* What is taken of places is counted at the places.
LEMMA TakenOfPlaces ==
    ASSUME NEW n \in Nat, NEW s, NEW J \in SUBSET (1..n)
    PROVE  Taken(ElementsAt(s, J), s, J)
<1>1. PICK m \in Nat : ElementsSo(ElementsAt(s, J), s, J, m)
  BY ElementsAtMean
<1> QED
  BY <1>1 DEF ElementsSo, Taken, TakenBy

\* What is taken of a sequence that was shuffled is taken of the sequence.
LEMMA TakenOfShuffled ==
    ASSUME NEW n \in Nat, NEW s, NEW t, Shuffled(t, s, n), NEW J \in SUBSET (1..n), NEW K \in SUBSET (1..n),
           NEW some, Taken(some, t, K),
           \A order \in [1..n -> 1..n] :
              t = [k \in 1..n |-> s[order[k]]] => \A k \in 1..n : k \in K <=> order[k] \in J
    PROVE  Taken(some, s, J)
<1>1. PICK order \in [1..n -> 1..n] :
         /\ t = [k \in 1..n |-> s[order[k]]]
         /\ \A i \in 1..n : \E k \in 1..n : order[k] = i
         /\ \A k, l \in 1..n : order[k] = order[l] => k = l
  BY DEF Shuffled
<1>2. \A k \in 1..n : k \in K <=> order[k] \in J
  BY <1>1
<1>3a. PICK m \in Nat : \E f \in [1..m -> K] :
         /\ some = [k \in 1..m |-> t[f[k]]]
         /\ \A i \in K : \E k \in 1..m : f[k] = i
         /\ \A k, l \in 1..m : f[k] = f[l] => k = l
  BY DEF Taken, TakenBy
<1>3. PICK f \in [1..m -> K] :
         /\ some = [k \in 1..m |-> t[f[k]]]
         /\ \A i \in K : \E k \in 1..m : f[k] = i
         /\ \A k, l \in 1..m : f[k] = f[l] => k = l
  BY <1>3a
<1> DEFINE g == [k \in 1..m |-> order[f[k]]]
<1>4. \A k \in 1..m : f[k] \in 1..n /\ f[k] \in K
  OBVIOUS
<1>5. g \in [1..m -> J]
  BY <1>2, <1>4
<1>6. some = [k \in 1..m |-> s[g[k]]]
  BY <1>1, <1>3, <1>4
<1>7. \A i \in J : \E k \in 1..m : g[k] = i
  <2> SUFFICES ASSUME NEW i \in J PROVE \E k \in 1..m : g[k] = i
    OBVIOUS
  <2>1. PICK j \in 1..n : order[j] = i
    BY <1>1
  <2>2. PICK k \in 1..m : f[k] = j
    BY <1>2, <1>3, <2>1
  <2>3. g[k] = i
    BY <2>1, <2>2
  <2> QED
    BY <2>3
<1>8. \A k, l \in 1..m : g[k] = g[l] => k = l
  BY <1>1, <1>3, <1>4
<1> HIDE DEF g
<1> QED
  BY <1>5, <1>6, <1>7, <1>8 DEF Taken, TakenBy

\* The file that a call of read_pointcloud finds.
FileOf(in) == IF in.exists THEN WrittenFile(in.chunk, Writer(in.writing), in.whole) ELSE NoFile

\* What a call of read_pointcloud that succeeds gives back.
LEMMA PointsRead ==
    ASSUME NEW in, NEW file, file = FileOf(in),
           NEW reader, reader = ReaderFor(file, in.reading), ReadPointcloud(in).reply = "result"
    PROVE  /\ Refusal(file, reader) = "ok"
           /\ ReadPointcloud(in).value = [points |-> Clipped(file, reader, in.window), crs |-> file.crs]
<1> DEFINE stages == <<CheckOf(in, {"copc_href"}), Check(Refusal(file, reader))>>
           value == [points |-> Clipped(file, reader, in.window), crs |-> file.crs]
           W == {"nobody", "validation", "not-found", "ok", "upstream", Unclassified}
           S == {s \in Stages(W) : s.says # "result"}
<1>1. ReadPointcloud(in) = Staged(stages, value)
  BY Zenon DEF ReadPointcloud, FileOf
<1>2. stages \in Seq(S)
  <2>1. CheckOf(in, {"copc_href"}) \in S /\ Check(Refusal(file, reader)) \in S
    BY DEF Stages, CheckOf, Check, Refusal, Unclassified
  <2> HIDE DEF S
  <2> QED
    BY <2>1
<1>3. Len(stages) = 2 /\ stages[2] = Check(Refusal(file, reader))
  OBVIOUS
<1> HIDE DEF stages
<1>4. DOMAIN stages = 1..2 /\ \A i \in DOMAIN stages : stages[i].says # "result"
  <2>1. DOMAIN stages = 1..2 /\ \A i \in DOMAIN stages : stages[i] \in S
    <3> HIDE DEF S
    <3> QED
      BY <1>2, <1>3, ElementOfSeq, LenProperties
  <2> QED
    BY <2>1
<1>5. stages \in Seq(Stages(W))
  <2> HIDE DEF W
  <2> QED
    BY <1>2
<1> HIDE DEF W, value
<1>6. Staged(stages, value).reply = "result" =>
        (\A i \in DOMAIN stages : stages[i].says = "ok") /\ Staged(stages, value).value = value
  BY <1>4, <1>5, StagedReturns
<1>7. stages[2].says = "ok" /\ ReadPointcloud(in).value = value
  <2>1. 2 \in 1..2
    OBVIOUS
  <2> QED
    BY <1>1, <1>4, <1>6, <2>1
<1> QED
  BY <1>3, <1>7 DEF Check, value

\* The points of a chunk come back.
CloudWindows == [min_x : Int, max_x : Int, min_z : Int, max_z : Int]
AskedPlaces(points, w, n) == {i \in 1..n : Contains3(w, points[i])}

\* A container returns every point, or those of a window.
LEMMA ContainerComesBack ==
    ASSUME NEW n \in Nat, NEW points, PointRow(points, n), NEW w, NEW file,
           file.points = MortonOrder(points)
    PROVE  Taken(Clipped(file, "local", w), points, AskedPlaces(points, w, n))
<1> DEFINE t == MortonOrder(points)
           K == {i \in DOMAIN file.points : Contains3(w, file.points[i])}
           J == AskedPlaces(points, w, n)
<1>1. Clipped(file, "local", w) = ElementsAt(file.points, K)
  <2>1. "local" # "pdal"
    OBVIOUS
  <2> QED
    BY <2>1, Zenon DEF Clipped
<1>2. Shuffled(t, points, n)
  BY MortonShuffles
<1> HIDE DEF t
<1>3. DOMAIN t = 1..n
  BY <1>2 DEF Shuffled
<1>4. file.points = t
  BY DEF t
<1>5. \A i : i \in K <=> i \in 1..n /\ Contains3(w, t[i])
  BY <1>3, <1>4
<1> HIDE DEF K
<1>6. K \in SUBSET (1..n) /\ J \in SUBSET (1..n)
  BY <1>5 DEF AskedPlaces
<1>7. Taken(ElementsAt(t, K), t, K)
  BY <1>6, TakenOfPlaces
<1>8. ASSUME NEW order \in [1..n -> 1..n], t = [k \in 1..n |-> points[order[k]]]
      PROVE  \A k \in 1..n : k \in K <=> order[k] \in J
  BY <1>5, <1>8 DEF AskedPlaces
<1> HIDE DEF J
<1>9. Taken(ElementsAt(t, K), points, J)
  BY <1>2, <1>6, <1>7, <1>8, TakenOfShuffled
<1> QED
  BY <1>1, <1>4, <1>9 DEF J

\* A reader of COPC returns every point that was kept, or those of a window.
LEMMA CopcComesBack ==
    ASSUME NEW w \in CloudWindows, NEW reader, NEW file,
           reader = "pdal" => (w.min_z = NoBound <=> w.max_z = NoBound)
    PROVE  Clipped(file, reader, w)
             = ElementsAt(file.points, {i \in DOMAIN file.points : Contains3(w, file.points[i])})
<1> DEFINE Meets(p) == IF reader = "pdal" THEN PdalContains(w, p) ELSE Contains3(w, p)
<1>1. Clipped(file, reader, w) = ElementsAt(file.points, {i \in DOMAIN file.points : Meets(file.points[i])})
  BY Zenon DEF Clipped
<1>2. \A p : Meets(p) <=> Contains3(w, p)
  <2>1. w.min_z = NoBound /\ w.max_z = NoBound => [w EXCEPT !.min_z = NoBound, !.max_z = NoBound] = w
    BY DEF CloudWindows
  <2>2. reader = "pdal" => (IF w.min_z = NoBound \/ w.max_z = NoBound
                            THEN [w EXCEPT !.min_z = NoBound, !.max_z = NoBound] ELSE w) = w
    BY <2>1
  <2> QED
    BY <2>2 DEF PdalContains
<1> HIDE DEF Meets
<1>3. {i \in DOMAIN file.points : Meets(file.points[i])} = {i \in DOMAIN file.points : Contains3(w, file.points[i])}
  BY <1>2
<1> QED
  BY <1>1, <1>3

\* What is read of a point cloud, in whatever format and however ordered on disk, are its
\* points: each as often as it was written, and of those of a window only those inside it
\* (pointcloud.py).
THEOREM PointsAlwaysComeBack ==
    ASSUME NEW in, NEW n \in Nat, PointRow(in.chunk.points, n), in.window \in CloudWindows
    PROVE  PointsComeBack(in, ReadPointcloud(in))
<1> DEFINE given == in.chunk.points
           w == in.window
           kept == IF in.writing.pdal THEN [i \in DOMAIN given |-> InCopc(given[i])] ELSE given
           asked == ElementsAt(kept, {i \in DOMAIN kept : Contains3(w, kept[i])})
           oneBound == (w.min_z = NoBound) # (w.max_z = NoBound)
           Where(points) == [i \in DOMAIN points |-> <<points[i].x, points[i].z>>]
           out_ == ReadPointcloud(in)
           file == FileOf(in)
           reader == ReaderFor(file, in.reading)
<1>1. PointsComeBack(in, out_) <=>
        (out_.reply = "result" =>
          IF ~in.writing.pdal
          THEN SameBag(out_.value.points, asked) /\ out_.value.crs = in.chunk.crs
          ELSE (in.reading.laspy \/ ~oneBound) => SameBag(Where(out_.value.points), Where(asked)))
  BY Zenon DEF PointsComeBack
<1> HIDE DEF given, w, asked, out_, kept
<1>2. SUFFICES ASSUME out_.reply = "result"
               PROVE  IF ~in.writing.pdal
                      THEN SameBag(out_.value.points, asked) /\ out_.value.crs = in.chunk.crs
                      ELSE (in.reading.laspy \/ ~oneBound) => SameBag(Where(out_.value.points), Where(asked))
  BY <1>1 DEF out_
<1> HIDE DEF reader, file, Where
<1>3. Refusal(file, reader) = "ok" /\ out_.value = [points |-> Clipped(file, reader, w), crs |-> file.crs]
  BY <1>2, PointsRead DEF out_, w, file, reader
<1>4. out_.value.points = Clipped(file, reader, w) /\ out_.value.crs = file.crs
  BY <1>3
<1>5. file = WrittenFile(in.chunk, Writer(in.writing), in.whole)
  <2>1. file # NoFile
    BY <1>3 DEF Refusal
  <2> QED
    BY <2>1 DEF file, FileOf
<1>6. CASE ~in.writing.pdal
  <2>1. file.format = "container" /\ file.points = MortonOrder(given) /\ file.crs = in.chunk.crs
    BY <1>5, <1>6 DEF WrittenFile, Writer, given
  <2>2. reader = "local"
    BY <2>1 DEF reader, ReaderFor
  <2>3. kept = given /\ DOMAIN given = 1..n
    BY <1>6 DEF kept, given, PointRow
  <2> DEFINE J == AskedPlaces(given, w, n)
  <2>4. J \in SUBSET (1..n) /\ asked = ElementsAt(given, J)
    BY <2>3 DEF AskedPlaces, asked
  <2>5. Taken(Clipped(file, reader, w), given, J)
    BY <2>1, <2>2, ContainerComesBack DEF given
  <2> HIDE DEF J
  <2>6. Taken(asked, given, J)
    BY <2>4, TakenOfPlaces
  <2>7. SameBag(out_.value.points, asked)
    BY <1>4, <2>3, <2>4, <2>5, <2>6, TakenAlike
  <2> QED
    BY <1>4, <1>6, <2>1, <2>7
<1>7. CASE in.writing.pdal
  <2>1. file.format = "COPC" /\ file.points = kept
    BY <1>5, <1>7 DEF WrittenFile, Writer, given, kept
  <2>2. reader # "local" /\ (in.reading.laspy => reader # "pdal")
    <3>1. file # NoFile
      BY <2>1 DEF NoFile
    <3>2. reader = "local" => Refusal(file, reader) = "upstream"
      BY <2>1, <3>1 DEF Refusal
    <3> QED
      BY <1>3, <2>1, <3>2 DEF reader, ReaderFor
  <2>3. SUFFICES ASSUME in.reading.laspy \/ ~oneBound
                 PROVE  SameBag(Where(out_.value.points), Where(asked))
    BY <1>7
  <2>4. reader = "pdal" => (w.min_z = NoBound <=> w.max_z = NoBound)
    BY <2>2, <2>3
  <2>5. Clipped(file, reader, w) = asked
    BY <2>1, <2>4, CopcComesBack DEF asked, w
  <2> QED
    BY <1>4, <2>5 DEF SameBag
<1> QED
  BY <1>6, <1>7

\* The others store nothing.
LEMMA OthersStoreNothing ==
    ASSUME call'.tool \notin {"read_pointcloud", "store_embedding", "search_embeddings"}
    PROVE  StoredComesBack'
  BY DEF StoredComesBack, Called

\* The inputs of read_pointcloud are rows of points and windows.
LEMMA PointCloudInputsAre ==
    ASSUME NEW in \in PointCloudInputs
    PROVE  in.window \in CloudWindows /\ \E n \in Nat : PointRow(in.chunk.points, n)
<1>1. in.chunk.points \in SeqOf(Points, 2)
  BY DEF PointCloudInputs
<1>2. PICK n \in 0..2 : in.chunk.points \in [1..n -> Points]
  BY <1>1 DEF SeqOf
<1>3. Points \subseteq [x : Int, z : Int, attr : Int]
  BY DEF Points, NoAttribute
<1>4. PointRow(in.chunk.points, n)
  BY <1>2, <1>3 DEF PointRow
<1>5. in.window \in CloudWindows
  BY DEF PointCloudInputs, CloudWindows, NoWindow, NoBound
<1> QED
  BY <1>4, <1>5

\* The steps that StoredComesBack speaks of.
LEMMA StoreSteps ==
    /\ CallReadPointcloud => StoredComesBack'
    /\ StoreEmbeddings => StoredComesBack'
    /\ CallSearch => StoredComesBack'
<1>1. ASSUME CallReadPointcloud PROVE StoredComesBack'
  <2>1. PICK in \in PointCloudInputs :
           call' = [tool |-> "read_pointcloud", in |-> in] /\ out' = ReadPointcloud(in)
    BY <1>1 DEF CallReadPointcloud, Serve
  <2>2. call'.tool = "read_pointcloud" /\ call'.in = in
    BY <2>1
  <2>3. PointsComeBack(in, ReadPointcloud(in))
    BY PointCloudInputsAre, PointsAlwaysComeBack
  <2> QED
    BY <2>1, <2>2, <2>3 DEF StoredComesBack, Called
<1>2. ASSUME StoreEmbeddings PROVE StoredComesBack'
  <2>1. PICK in \in Histories :
           call' = [tool |-> "store_embedding", in |-> in] /\ out' = StoreAll(in.kind, in.ops)
    BY <1>2 DEF StoreEmbeddings, Serve
  <2>2. call'.tool = "store_embedding" /\ call'.in = in
    BY <2>1
  <2>3. HistoryOf(in.kind, in.ops)
    BY CallsAssumption
  <2>4. StoreIsSound(in.kind, in.ops)
    BY <2>3, HistoriesAreSound
  <2> QED
    BY <2>1, <2>2, <2>4 DEF StoredComesBack, Called
<1>3. ASSUME CallSearch PROVE StoredComesBack'
  <2>1. PICK in \in Searches :
           call' = [tool |-> "search_embeddings", in |-> in] /\ out' = SearchEmbeddings(in)
    BY <1>3 DEF CallSearch, Serve
  <2>2. call'.tool = "search_embeddings" /\ call'.in = in
    BY <2>1
  <2>3. SearchIsRight(in, SearchEmbeddings(in))
    BY CallsAssumption, SearchesAreRight
  <2> QED
    BY <2>1, <2>2, <2>3 DEF StoredComesBack, Called
<1> QED
  BY <1>1, <1>2, <1>3

\* What was stored comes back: the points of a cloud that was written and read, in the
\* window that is asked for, each as often (pointcloud.py); and after any history of
\* calls, with whatever faults, restarts and failed rollbacks, the embeddings that were
\* confirmed, the nearest first (store.py, lancedb_store.py).  For histories of any
\* length and vectors of any length and numbers; what it rests on holds for clouds,
\* windows and questions of any size (PointsAlwaysComeBack, HistoriesAreSound,
\* SearchIsBest).
THEOREM StoredAlwaysComesBack == CallsSpec => []StoredComesBack
<1>1. CallsInit => StoredComesBack
  BY DEF CallsInit, Idle, StoredComesBack, Called
<1>2. CallsNext => StoredComesBack'
  <2>1. CallSource => StoredComesBack'
    BY SourceNames, OthersStoreNothing DEF CallSource
  <2>2. CallImage => StoredComesBack'
    BY ImageNames, OthersStoreNothing DEF CallImage
  <2>3. CallFile => StoredComesBack'
    BY FileNames, StoreSteps, OthersStoreNothing DEF CallFile
  <2>4. Compute => StoredComesBack'
    BY ComputeNames, OthersStoreNothing DEF Compute
  <2>5. Return => StoredComesBack'
    BY OthersStoreNothing DEF Return, Idle
  <2> QED
    BY <2>1, <2>2, <2>3, <2>4, <2>5 DEF CallsNext
<1>3. StoredComesBack /\ UNCHANGED callVars => StoredComesBack'
  BY DEF callVars, StoredComesBack, Called
<1> QED
  BY <1>1, <1>2, <1>3, PTL DEF CallsSpec

-----------------------------------------------------------------------------
(* geo-common: the pixels of a window of an image.                          *)

\* The quotient of division is the number whose multiple is the last not above.
LEMMA DivUnique ==
    ASSUME NEW x \in Int, NEW n \in Nat \ {0}, NEW q \in Int, q * n <= x, x < (q + 1) * n
    PROVE  x \div n = q
<1>1. (x \div n) \in Int /\ (x \div n) * n <= x /\ x < (x \div n + 1) * n
  BY DivMeans
<1> DEFINE d == x \div n
<1>2. d < q + 1
  <2>1. SUFFICES ASSUME d >= q + 1 PROVE FALSE
    BY <1>1
  <2>2. d * n >= (q + 1) * n
    BY <1>1, <2>1
  <2> QED
    BY <1>1, <2>2
<1>3. q < d + 1
  <2>1. SUFFICES ASSUME q >= d + 1 PROVE FALSE
    BY <1>1
  <2>2. q * n >= (d + 1) * n
    BY <1>1, <2>1
  <2> QED
    BY <1>1, <2>2
<1> QED
  BY <1>1, <1>2, <1>3

\* The quotient and the rest of a number below a product.
LEMMA QuotientAndRest ==
    ASSUME NEW h \in Nat \ {0}, NEW w \in Nat \ {0}, NEW k \in 0..(w * h - 1)
    PROVE  k \div w \in 0..(h - 1) /\ k % w \in 0..(w - 1) /\ k = (k \div w) * w + (k % w)
<1>1. k \in Nat /\ w * h \in Nat /\ k < w * h
  OBVIOUS
<1>2. PICK q \in Int : q = k \div w /\ q * w <= k /\ k < (q + 1) * w
  BY <1>1, DivMeans
<1>3. PICK s \in Int : s = k - q * w
  BY <1>1
<1>4. (q + 1) * w = q * w + w /\ q * w \in Int
  OBVIOUS
<1>5. s \in 0..(w - 1) /\ k = q * w + s
  BY <1>1, <1>2, <1>3, <1>4
<1>6. q >= 0
  <2>1. SUFFICES ASSUME q + 1 <= 0 PROVE FALSE
    BY <1>2
  <2>2. (q + 1) * w <= 0
    BY <2>1
  <2> QED
    BY <1>1, <1>2, <2>2
<1>7. q < h
  <2>1. SUFFICES ASSUME h <= q PROVE FALSE
    BY <1>2
  <2>2. h * w <= q * w /\ h * w = w * h
    BY <2>1
  <2> QED
    BY <1>1, <1>2, <1>4, <2>2
<1>8. q \in Nat
  BY <1>6
<1>9. (q * w + s) % w = s
  BY <1>5, <1>8, DivOf
<1>10. k % w = s
  BY <1>5, <1>9
<1> QED
  BY <1>2, <1>5, <1>6, <1>7, <1>10

\* Numbers of tiles.
LEMMA CeilMeans ==
    ASSUME NEW a \in Int, NEW b \in Nat \ {0}
    PROVE  CeilDiv(a, b) \in Int /\ a <= CeilDiv(a, b) * b /\ (CeilDiv(a, b) - 1) * b < a
<1> DEFINE d == (0 - a) \div b
<1>1. d \in Int /\ d * b <= 0 - a /\ 0 - a < (d + 1) * b
  BY DivMeans
<1>2. CeilDiv(a, b) = 0 - d
  BY DEF CeilDiv
<1> HIDE DEF d
<1>3. (0 - d) * b = 0 - d * b /\ ((0 - d) - 1) * b = 0 - (d + 1) * b
  BY <1>1
<1>4. d * b \in Int /\ (d + 1) * b \in Int
  BY <1>1
<1> QED
  BY <1>1, <1>2, <1>3, <1>4

\* The tile and the place in it of a pixel along one axis.
LEMMA PlaceInTile ==
    ASSUME NEW p \in Nat, NEW tile \in Nat \ {0}, NEW extent \in Nat \ {0}, p < extent
    PROVE  /\ p \div tile \in 0..(CeilDiv(extent, tile) - 1)
           /\ CeilDiv(extent, tile) \in Nat \ {0}
           /\ \A t \in Int : t * tile <= p /\ p < (t + 1) * tile =>
                 t = p \div tile /\ p - t * tile \in 0..(tile - 1)
<1>1. PICK n \in Int : n = CeilDiv(extent, tile) /\ extent <= n * tile
  BY CeilMeans
<1>2. PICK q \in Int : q = p \div tile /\ q * tile <= p /\ p < (q + 1) * tile
  BY DivMeans
<1>3. q >= 0
  <2>1. SUFFICES ASSUME q + 1 <= 0 PROVE FALSE
    BY <1>2
  <2>2. (q + 1) * tile <= 0
    BY <2>1
  <2> QED
    BY <1>2, <2>2
<1>4. q < n
  <2>1. SUFFICES ASSUME n <= q PROVE FALSE
    BY <1>1, <1>2
  <2>2. n * tile <= q * tile
    BY <2>1
  <2> QED
    BY <1>1, <1>2, <2>2
<1>5. ASSUME NEW t \in Int, t * tile <= p, p < (t + 1) * tile
      PROVE  t = p \div tile /\ p - t * tile \in 0..(tile - 1)
  <2>1. t = p \div tile
    BY <1>5, DivUnique
  <2>2. (t + 1) * tile = t * tile + tile /\ t * tile \in Int
    OBVIOUS
  <2> QED
    BY <1>5, <2>1, <2>2
<1> QED
  BY <1>1, <1>2, <1>3, <1>4, <1>5

\* The sample of a pixel of a tile, found again.
LEMMA FoundAgain ==
    ASSUME NEW m, {m.width, m.height, m.tileWidth, m.tileHeight, m.samples} \subseteq Nat \ {0},
           NEW a \in 0..(TilesDown(m) - 1), NEW b \in 0..(TilesAcross(m) - 1),
           NEW r \in 0..(m.tileHeight - 1), NEW c \in 0..(m.tileWidth - 1), NEW band \in 1..m.samples
    PROVE  Stored(m, TileIndex(m, <<a, b>>, band), SampleIndex(m, r * m.tileWidth + c, band))
             = [row |-> a * m.tileHeight + r, col |-> b * m.tileWidth + c, band |-> band]
<1>1. PICK T \in Nat \ {0}, U \in Nat \ {0}, S \in Nat \ {0} :
        T = m.tileWidth /\ U = m.tileHeight /\ S = m.samples
  OBVIOUS
<1>2. TilesAcross(m) \in Int /\ TilesDown(m) \in Int
  <2>1. m.width \in Int /\ m.height \in Int /\ m.tileWidth \in Nat \ {0} /\ m.tileHeight \in Nat \ {0}
    OBVIOUS
  <2>2. CeilDiv(m.width, m.tileWidth) \in Int /\ CeilDiv(m.height, m.tileHeight) \in Int
    BY <2>1, CeilMeans
  <2> QED
    BY <2>2 DEF TilesAcross, TilesDown
<1>3. PICK A \in Nat \ {0}, D \in Nat \ {0} : A = TilesAcross(m) /\ D = TilesDown(m)
  BY <1>2
<1>4. PICK P \in Nat \ {0} : P = TilesPerPlane(m) /\ P = A * D
  BY <1>3 DEF TilesPerPlane
<1>5. PICK t \in Nat : t = a * A + b /\ t < P /\ t \div A = a /\ t % A = b
  <2>1. a \in Nat /\ b \in 0..(A - 1)
    BY <1>2, <1>3
  <2>2. a * A + b \in Nat
    BY <2>1
  <2>3. (a * A + b) \div A = a /\ (a * A + b) % A = b
    BY <2>1, DivOf
  <2>4. a * A + b < P
    <3>1. a + 1 <= D
      BY <1>2, <1>3
    <3>2. (a + 1) * A <= D * A
      BY <2>1, <3>1
    <3>3. (a + 1) * A = a * A + A /\ D * A = P
      BY <1>4, <2>1
    <3> QED
      BY <1>4, <2>1, <2>2, <3>2, <3>3
  <2> QED
    BY <2>2, <2>3, <2>4
<1>6. PICK x \in Nat : x = r * T + c /\ x \div T = r /\ x % T = c
  <2>1. r \in Nat /\ c \in 0..(T - 1)
    BY <1>1
  <2>2. r * T + c \in Nat
    BY <2>1
  <2> QED
    BY <2>1, <2>2, DivOf
<1>7. PICK s \in Nat : s = band - 1 /\ s \in 0..(S - 1) /\ 1 + s = band
  BY <1>1
<1>8. ASSUME NEW index, NEW sample,
             IF m.planar THEN index = t + s * P /\ sample = x ELSE index = t /\ sample = x * S + s
      PROVE  Stored(m, index, sample) = [row |-> a * U + r, col |-> b * T + c, band |-> band]
  <2>1. CASE m.planar
    <3>1. index = s * P + t /\ t \in 0..(P - 1)
      BY <1>5, <1>8, <2>1
    <3>2. index \div P = s /\ index % P = t
      BY <3>1, DivOf
    <3>3. Stored(m, index, sample) = [row |-> (t \div A) * U + (x \div T), col |-> (t % A) * T + (x % T),
                                      band |-> 1 + s]
      BY <1>1, <1>3, <1>4, <1>8, <2>1, <3>2 DEF Stored
    <3> QED
      BY <1>5, <1>6, <1>7, <3>3, Zenon
  <2>2. CASE ~m.planar
    <3>0. sample = x * S + s
      BY <1>8, <2>2
    <3>1. sample \div S = x /\ sample % S = s
      <4>1. (x * S + s) \div S = x /\ (x * S + s) % S = s
        <5>1. x \in Nat /\ S \in Nat \ {0} /\ s \in 0..(S - 1)
          BY <1>1, <1>6, <1>7
        <5> QED
          BY <5>1, DivOf
      <4> QED
        BY <3>0, <4>1, Zenon
    <3>2. Stored(m, index, sample) = [row |-> (t \div A) * U + (x \div T), col |-> (t % A) * T + (x % T),
                                      band |-> 1 + s]
      BY <1>1, <1>3, <1>4, <1>8, <2>2, <3>1 DEF Stored
    <3> QED
      BY <1>5, <1>6, <1>7, <3>2, Zenon
  <2> QED
    BY <2>1, <2>2
<1> DEFINE index == TileIndex(m, <<a, b>>, band)
           sample == SampleIndex(m, r * m.tileWidth + c, band)
<1>9. index = a * A + b + (IF m.planar THEN (band - 1) * P ELSE 0)
  BY <1>3, <1>4 DEF TileIndex
<1>10. sample = IF m.planar THEN x ELSE x * S + band - 1
  BY <1>1, <1>6 DEF SampleIndex
<1> HIDE DEF index, sample
<1>11. IF m.planar THEN index = t + s * P /\ sample = x ELSE index = t /\ sample = x * S + s
  <2>1. x * S \in Int
    OBVIOUS
  <2> QED
    BY <1>5, <1>7, <1>9, <1>10, <2>1
<1>12. Stored(m, index, sample) = [row |-> a * U + r, col |-> b * T + c, band |-> band]
  BY <1>8, <1>11
<1> QED
  BY <1>1, <1>12 DEF index, sample

\* A quotient is bounded as its number is.
LEMMA DivBounds ==
    ASSUME NEW x \in Int, NEW n \in Nat \ {0}, NEW q \in Int
    PROVE  /\ q * n <= x <=> q <= x \div n
           /\ x < q * n <=> x \div n < q
<1>1. PICK d \in Int : d = x \div n /\ d * n <= x /\ x < (d + 1) * n
  BY DivMeans
<1>2. ASSUME q <= d PROVE q * n <= x
  <2>1. q * n <= d * n
    BY <1>2
  <2> QED
    BY <1>1, <2>1
<1>3. ASSUME d + 1 <= q PROVE x < q * n
  <2>1. (d + 1) * n <= q * n
    BY <1>3
  <2> QED
    BY <1>1, <2>1
<1>4. q * n \in Int /\ (q <= d \/ d + 1 <= q)
  OBVIOUS
<1> QED
  BY <1>1, <1>2, <1>3, <1>4

\* Along one axis: every pixel of the window lies in the tile it is looked for in, and every
\* tile that is fetched holds some of the window.
LEMMA AxisOfTiles ==
    ASSUME NEW off \in Nat, NEW extent \in Nat \ {0}, NEW tile \in Nat \ {0}
    PROVE  /\ \A p \in off..(off + extent - 1) :
                 /\ p \div tile \in (off \div tile)..LastTile(off, extent, tile)
                 /\ p \in InTile(off, extent, tile, p \div tile)
                 /\ \A t \in Int : p \in InTile(off, extent, tile, t) => t * tile <= p /\ p < (t + 1) * tile
           /\ (off \div tile)..LastTile(off, extent, tile) \subseteq Int
           /\ \A t \in (off \div tile)..LastTile(off, extent, tile) : InTile(off, extent, tile, t) # {}
<1> DEFINE end == off + extent - 1
<1>1. PICK d \in Int : d = off \div tile /\ d * tile <= off /\ off < (d + 1) * tile
  BY DivMeans
<1>2. PICK e \in Int : e = LastTile(off, extent, tile) /\ e = end \div tile /\ e * tile <= end /\ end < (e + 1) * tile
  BY DivMeans DEF LastTile
<1>3. ASSUME NEW p \in off..end
      PROVE  /\ p \div tile \in d..e
             /\ p \in InTile(off, extent, tile, p \div tile)
             /\ \A t \in Int : p \in InTile(off, extent, tile, t) => t * tile <= p /\ p < (t + 1) * tile
  <2>1. PICK q \in Int : q = p \div tile /\ q * tile <= p /\ p < (q + 1) * tile
    BY DivMeans
  <2>2. p \in Int /\ d * tile <= p /\ p < (e + 1) * tile
    <3>1. d * tile \in Int /\ (e + 1) * tile \in Int
      OBVIOUS
    <3> QED
      BY <1>1, <1>2, <3>1
  <2>3. d <= q /\ q < e + 1
    BY <2>1, <2>2, DivBounds
  <2>4. p \in InTile(off, extent, tile, q)
    <3>1. q * tile \in Int /\ (q + 1) * tile \in Int
      OBVIOUS
    <3> QED
      BY <2>1, <3>1 DEF InTile, Greater, Lesser
  <2>5. ASSUME NEW t \in Int, p \in InTile(off, extent, tile, t)
        PROVE  t * tile <= p /\ p < (t + 1) * tile
    <3>1. t * tile \in Int /\ (t + 1) * tile \in Int
      OBVIOUS
    <3> QED
      BY <2>5, <3>1 DEF InTile, Greater, Lesser
  <2> QED
    BY <2>1, <2>3, <2>4, <2>5
<1>4. ASSUME NEW t \in d..e PROVE InTile(off, extent, tile, t) # {}
  <2>1. PICK low \in Int, high \in Int : low = t * tile /\ high = (t + 1) * tile /\ high = low + tile
    OBVIOUS
  <2>2. low <= end
    <3>1. low <= e * tile /\ e * tile \in Int
      BY <2>1
    <3> QED
      BY <1>2, <3>1
  <2>3. off < high
    <3>1. (d + 1) * tile <= high /\ (d + 1) * tile \in Int
      BY <2>1
    <3> QED
      BY <1>1, <3>1
  <2>4. Greater(off, low) \in InTile(off, extent, tile, t)
    BY <2>1, <2>2, <2>3 DEF InTile, Greater, Lesser
  <2> QED
    BY <2>4
<1> QED
  BY <1>1, <1>2, <1>3, <1>4

\* Each cell of a window is the sample of its own pixel and band, and only tiles that
\* the window meets are fetched: for an image and a window of any size, samples in one
\* plane or pixel by pixel.
THEOREM PixelsAlwaysRight ==
    ASSUME NEW in, ImageOf(in.m, in.win, in.band)
    PROVE  PixelsAreRight(in, ReadWindowPixels(in.m, in.win, in.band))
<1> DEFINE m == in.m
           win == in.win
           pixels == ReadWindowPixels(in.m, in.win, in.band)
           P(k) == <<win.row + (k \div win.width), win.col + (k % win.width)>>
           Hits(k) == {t \in TilesOf(m, win) : P(k) \in Blitted(m, win, t)}
           Hit(k) == CHOOSE t \in Hits(k) : TRUE
           PixelPlace(k, t) == (P(k)[1] - t[1] * m.tileHeight) * m.tileWidth + P(k)[2] - t[2] * m.tileWidth
           Nth(k) == IF Hits(k) = {} THEN <<"fill">>
                     ELSE <<TileIndex(m, Hit(k), in.band), SampleIndex(m, PixelPlace(k, Hit(k)), in.band)>>
<1>1. PICK W \in Nat \ {0}, H \in Nat \ {0}, T \in Nat \ {0}, U \in Nat \ {0} :
        W = win.width /\ H = win.height /\ T = m.tileWidth /\ U = m.tileHeight
  BY DEF ImageOf
<1>2. PICK r0 \in Nat, c0 \in Nat : r0 = win.row /\ c0 = win.col
  BY DEF ImageOf
<1>3. {m.width, m.height, m.tileWidth, m.tileHeight, m.samples} \subseteq Nat \ {0} /\ in.band \in 1..m.samples
      /\ c0 + W <= m.width /\ r0 + H <= m.height
  BY <1>1, <1>2 DEF ImageOf
<1>4. \A t : Blitted(m, win, t) = InTile(r0, H, U, t[1]) \X InTile(c0, W, T, t[2])
  BY <1>1, <1>2 DEF Blitted, InTile
<1>5. TilesOf(m, win) = ((r0 \div U)..LastTile(r0, H, U)) \X ((c0 \div T)..LastTile(c0, W, T))
  BY <1>1, <1>2 DEF TilesOf
<1>6. pixels = [k \in 0..(win.width * win.height - 1) |-> Nth(k)]
  BY Zenon DEF ReadWindowPixels
<1>7. DOMAIN pixels = 0..(W * H - 1) /\ \A k \in 0..(W * H - 1) : pixels[k] = Nth(k)
  <2> HIDE DEF Nth
  <2> QED
    BY <1>1, <1>6
<1>8. ASSUME NEW k \in 0..(W * H - 1)
      PROVE  Stored(m, pixels[k][1], pixels[k][2]) =
                [row |-> win.row + (k \div win.width), col |-> win.col + (k % win.width), band |-> in.band]
  <2>1. PICK i \in 0..(H - 1), j \in 0..(W - 1) : i = k \div W /\ j = k % W
    BY QuotientAndRest
  <2>2. PICK p \in Nat, q \in Nat : p = r0 + i /\ q = c0 + j
    OBVIOUS
  <2>3. P(k) = <<p, q>> /\ p \in r0..(r0 + H - 1) /\ q \in c0..(c0 + W - 1)
    BY <1>1, <1>2, <2>1, <2>2
  <2>4. <<p \div U, q \div T>> \in Hits(k)
    <3>1. /\ p \div U \in (r0 \div U)..LastTile(r0, H, U) /\ p \in InTile(r0, H, U, p \div U)
          /\ q \div T \in (c0 \div T)..LastTile(c0, W, T) /\ q \in InTile(c0, W, T, q \div T)
      BY <2>3, AxisOfTiles
    <3> QED
      BY <1>4, <1>5, <2>3, <3>1
  <2>5. PICK t \in Hits(k) : t = Hit(k)
    BY <2>4
  <2> HIDE DEF Hit
  <2>6. PICK a \in Int, b \in Int : t = <<a, b>>
    <3>1. (r0 \div U)..LastTile(r0, H, U) \subseteq Int /\ (c0 \div T)..LastTile(c0, W, T) \subseteq Int
      BY AxisOfTiles
    <3>2. t \in ((r0 \div U)..LastTile(r0, H, U)) \X ((c0 \div T)..LastTile(c0, W, T))
      BY <1>5, <2>5
    <3> QED
      BY <3>1, <3>2
  <2>7. p \in InTile(r0, H, U, a) /\ q \in InTile(c0, W, T, b)
    BY <1>4, <2>3, <2>5, <2>6
  <2>8. a * U <= p /\ p < (a + 1) * U /\ b * T <= q /\ q < (b + 1) * T
    BY <2>3, <2>7, AxisOfTiles
  <2>9. /\ a \in 0..(TilesDown(m) - 1) /\ b \in 0..(TilesAcross(m) - 1)
        /\ p - a * U \in 0..(U - 1) /\ q - b * T \in 0..(T - 1)
    <3>1. m.height \in Nat \ {0} /\ m.width \in Nat \ {0} /\ p < m.height /\ q < m.width
      BY <1>3, <2>3
    <3>2. a = p \div U /\ p - a * U \in 0..(U - 1) /\ p \div U \in 0..(CeilDiv(m.height, U) - 1)
      BY <2>8, <3>1, PlaceInTile
    <3>3. b = q \div T /\ q - b * T \in 0..(T - 1) /\ q \div T \in 0..(CeilDiv(m.width, T) - 1)
      BY <2>8, <3>1, PlaceInTile
    <3> QED
      BY <1>1, <3>2, <3>3 DEF TilesDown, TilesAcross
  <2>10. PICK r \in 0..(U - 1), c \in 0..(T - 1) : r = p - a * U /\ c = q - b * T
    BY <2>9
  <2>11. PixelPlace(k, t) = r * T + c
    <3>1. PixelPlace(k, t) = (p - a * U) * T + q - b * T
      BY <1>1, <2>3, <2>6
    <3>2. PICK x \in Int, y \in Int : x = (p - a * U) * T /\ y = b * T
      OBVIOUS
    <3>3. PixelPlace(k, t) = x + q - y /\ c = q - y /\ x = r * T
      BY <2>10, <3>1, <3>2
    <3> QED
      BY <3>2, <3>3
  <2>12. pixels[k] = <<TileIndex(m, <<a, b>>, in.band), SampleIndex(m, r * T + c, in.band)>>
    <3>1. pixels[k] = <<TileIndex(m, t, in.band), SampleIndex(m, PixelPlace(k, t), in.band)>>
      BY <1>7, <2>4, <2>5, Zenon
    <3> QED
      BY <2>6, <2>11, <3>1, Zenon
  <2>13. Stored(m, TileIndex(m, <<a, b>>, in.band), SampleIndex(m, r * T + c, in.band))
           = [row |-> a * U + r, col |-> b * T + c, band |-> in.band]
    BY <1>1, <1>3, <2>9, FoundAgain
  <2>14. a * U + r = p /\ b * T + c = q
    BY <2>10
  <2>15. pixels[k][1] = TileIndex(m, <<a, b>>, in.band) /\ pixels[k][2] = SampleIndex(m, r * T + c, in.band)
    BY <2>12
  <2>16. win.row + (k \div win.width) = p /\ win.col + (k % win.width) = q
    BY <1>1, <1>2, <2>1, <2>2
  <2> QED
    BY <2>13, <2>14, <2>15, <2>16, Zenon
<1>9. ASSUME NEW t \in TilesOf(m, win) PROVE Blitted(m, win, t) # {}
  <2>1. t[1] \in (r0 \div U)..LastTile(r0, H, U) /\ t[2] \in (c0 \div T)..LastTile(c0, W, T)
    BY <1>5
  <2>2. InTile(r0, H, U, t[1]) # {} /\ InTile(c0, W, T, t[2]) # {}
    BY <2>1, AxisOfTiles
  <2>3. PICK x \in InTile(r0, H, U, t[1]), y \in InTile(c0, W, T, t[2]) : TRUE
    BY <2>2
  <2>4. <<x, y>> \in Blitted(m, win, t)
    BY <1>4, <2>3
  <2> QED
    BY <2>4
<1> HIDE DEF pixels
<1>10. /\ \A k \in DOMAIN pixels :
             Stored(m, pixels[k][1], pixels[k][2]) =
                [row |-> win.row + (k \div win.width), col |-> win.col + (k % win.width), band |-> in.band]
       /\ \A t \in TilesOf(m, win) : Blitted(m, win, t) # {}
  BY <1>7, <1>8, <1>9
<1> QED
  BY <1>10, Zenon DEF PixelsAreRight, pixels

-----------------------------------------------------------------------------
(* geo-common: the window of a box.                                         *)

\* The least and the greatest of four numbers.
LEMMA EndsOfFour ==
    ASSUME NEW a \in Int, NEW b \in Int, NEW c \in Int, NEW d \in Int
    PROVE  /\ Min({a, b, c, d}) \in {a, b, c, d} /\ \A y \in {a, b, c, d} : Min({a, b, c, d}) <= y
           /\ Max({a, b, c, d}) \in {a, b, c, d} /\ \A y \in {a, b, c, d} : y <= Max({a, b, c, d})
<1>1. \E x \in {a, b, c, d} : \A y \in {a, b, c, d} : x <= y
  OBVIOUS
<1>2. \E x \in {a, b, c, d} : \A y \in {a, b, c, d} : x >= y
  OBVIOUS
<1>3. Min({a, b, c, d}) \in {a, b, c, d} /\ \A y \in {a, b, c, d} : Min({a, b, c, d}) <= y
  BY <1>1 DEF Min
<1>4. Max({a, b, c, d}) \in {a, b, c, d} /\ \A y \in {a, b, c, d} : Max({a, b, c, d}) >= y
  BY <1>2 DEF Max
<1> QED
  BY <1>3, <1>4

\* Of an interval one end is below a multiple of a number in it, and one above.
LEMMA EndsBound ==
    ASSUME NEW a \in Int, NEW low \in Int, NEW high \in Int, NEW x \in Int, 2 * low <= x, x <= 2 * high
    PROVE  /\ \E e \in {low, high} : 2 * (a * e) <= a * x
           /\ \E e \in {low, high} : a * x <= 2 * (a * e)
<1>1. 2 * (a * low) = a * (2 * low) /\ 2 * (a * high) = a * (2 * high)
  OBVIOUS
<1>2. CASE a >= 0
  <2>1. a * (2 * low) <= a * x /\ a * x <= a * (2 * high)
    BY <1>2
  <2> QED
    BY <1>1, <2>1
<1>3. CASE a < 0
  <2>1. a * (2 * high) <= a * x /\ a * x <= a * (2 * low)
    BY <1>3
  <2> QED
    BY <1>1, <2>1
<1> QED
  BY <1>2, <1>3

\* Along one axis of the image: a linear function of a place in the world, its values at the
\* corners of a box, and the first cell and the last that a window has of them.
Linear(a, b, c, x, y) == a * x + b * y + c
AtCorners(box, a, b, c) ==
    {Linear(a, b, c, box[1], box[2]), Linear(a, b, c, box[1], box[4]),
     Linear(a, b, c, box[3], box[2]), Linear(a, b, c, box[3], box[4])}
FirstCell(S, d) == Greater(0, Min(S) \div d)
PastCells(S, d, extent) == Lesser(extent, CeilDiv(Max(S), d))
Box(box) == /\ box[1] \in Int /\ box[2] \in Int /\ box[3] \in Int /\ box[4] \in Int
            /\ box[1] <= box[3] /\ box[2] <= box[4]

\* A place in the box lies between the values at its corners.
LEMMA CornersBound ==
    ASSUME NEW box, Box(box), NEW a \in Int, NEW b \in Int, NEW c \in Int, NEW x \in Int, NEW y \in Int,
           2 * box[1] <= x, x <= 2 * box[3], 2 * box[2] <= y, y <= 2 * box[4]
    PROVE  /\ \E v \in AtCorners(box, a, b, c) : 2 * v <= a * x + b * y + 2 * c
           /\ \E v \in AtCorners(box, a, b, c) : a * x + b * y + 2 * c <= 2 * v
<1>1. box[1] \in Int /\ box[2] \in Int /\ box[3] \in Int /\ box[4] \in Int
  BY DEF Box
<1>2. /\ \E e \in {box[1], box[3]} : 2 * (a * e) <= a * x
      /\ \E e \in {box[1], box[3]} : a * x <= 2 * (a * e)
  BY <1>1, EndsBound
<1>3. /\ \E e \in {box[2], box[4]} : 2 * (b * e) <= b * y
      /\ \E e \in {box[2], box[4]} : b * y <= 2 * (b * e)
  BY <1>1, EndsBound
<1>4. \A e \in {box[1], box[3]}, f \in {box[2], box[4]} : Linear(a, b, c, e, f) \in AtCorners(box, a, b, c)
  BY DEF AtCorners
<1>5. ASSUME NEW e \in Int, NEW f \in Int
      PROVE  /\ a * e \in Int /\ b * f \in Int /\ a * x \in Int /\ b * y \in Int
             /\ Linear(a, b, c, e, f) = a * e + b * f + c
  BY DEF Linear
<1>6. \E v \in AtCorners(box, a, b, c) : 2 * v <= a * x + b * y + 2 * c
  <2>1. PICK e \in {box[1], box[3]} : 2 * (a * e) <= a * x
    BY <1>2
  <2>2. PICK f \in {box[2], box[4]} : 2 * (b * f) <= b * y
    BY <1>3
  <2>3. e \in Int /\ f \in Int
    BY <1>1
  <2>4. 2 * Linear(a, b, c, e, f) <= a * x + b * y + 2 * c
    <3>1. PICK p \in Int, q \in Int, r \in Int, s \in Int : p = a * e /\ q = b * f /\ r = a * x /\ s = b * y
      BY <1>5, <2>3
    <3>2. 2 * p <= r /\ 2 * q <= s /\ Linear(a, b, c, e, f) = p + q + c
      BY <1>5, <2>1, <2>2, <2>3, <3>1
    <3>3. 2 * (p + q + c) <= r + s + 2 * c
      BY <3>2
    <3> QED
      BY <3>1, <3>2, <3>3
  <2> QED
    BY <1>4, <2>4
<1>7. \E v \in AtCorners(box, a, b, c) : a * x + b * y + 2 * c <= 2 * v
  <2>1. PICK e \in {box[1], box[3]} : a * x <= 2 * (a * e)
    BY <1>2
  <2>2. PICK f \in {box[2], box[4]} : b * y <= 2 * (b * f)
    BY <1>3
  <2>3. e \in Int /\ f \in Int
    BY <1>1
  <2>4. a * x + b * y + 2 * c <= 2 * Linear(a, b, c, e, f)
    <3>1. PICK p \in Int, q \in Int, r \in Int, s \in Int : p = a * e /\ q = b * f /\ r = a * x /\ s = b * y
      BY <1>5, <2>3
    <3>2. r <= 2 * p /\ s <= 2 * q /\ Linear(a, b, c, e, f) = p + q + c
      BY <1>5, <2>1, <2>2, <2>3, <3>1
    <3>3. r + s + 2 * c <= 2 * (p + q + c)
      BY <3>2
    <3> QED
      BY <3>1, <3>2, <3>3
  <2> QED
    BY <1>4, <2>4
<1> QED
  BY <1>6, <1>7

\* Each cell whose centre is in the box is in the window; the first and the last of the
\* window are next to values at corners.
LEMMA CellsOfBox ==
    ASSUME NEW box, Box(box), NEW a \in Int, NEW b \in Int, NEW c \in Int, NEW d \in Nat \ {0},
           NEW extent \in Nat \ {0}
    PROVE  LET S == AtCorners(box, a, b, c)
               first == FirstCell(S, d)
               past == PastCells(S, d, extent)
           IN  /\ first \in Nat /\ past \in Int /\ past <= extent
               /\ \A k \in 0..(extent - 1), x, y \in Int :
                     /\ 2 * box[1] <= x /\ x <= 2 * box[3] /\ 2 * box[2] <= y /\ y <= 2 * box[4]
                     /\ a * x + b * y + 2 * c = d * (2 * k + 1)
                     => first <= k /\ k < past
               /\ \A k \in Int : k < past => \E v \in S : k * d < v
               /\ \A k \in Int : first <= k => \E v \in S : v < (k + 1) * d
<1> DEFINE S == AtCorners(box, a, b, c)
           first == FirstCell(S, d)
           past == PastCells(S, d, extent)
<1>1. S \subseteq Int
  BY DEF AtCorners, Linear, Box
<1>2. PICK low \in S, high \in S : low = Min(S) /\ high = Max(S) /\ \A v \in S : low <= v /\ v <= high
  <2>1. \A x, y \in Int : Linear(a, b, c, x, y) \in Int
    BY DEF Linear
  <2>2. box[1] \in Int /\ box[2] \in Int /\ box[3] \in Int /\ box[4] \in Int
    BY DEF Box
  <2>3. PICK p \in Int, q \in Int, r \in Int, s \in Int : S = {p, q, r, s}
    <3>1. S = {Linear(a, b, c, box[1], box[2]), Linear(a, b, c, box[1], box[4]),
               Linear(a, b, c, box[3], box[2]), Linear(a, b, c, box[3], box[4])}
      BY DEF AtCorners
    <3> HIDE DEF S
    <3> QED
      BY <2>1, <2>2, <3>1
  <2> HIDE DEF S
  <2>4. /\ Min({p, q, r, s}) \in {p, q, r, s} /\ \A v \in {p, q, r, s} : Min({p, q, r, s}) <= v
        /\ Max({p, q, r, s}) \in {p, q, r, s} /\ \A v \in {p, q, r, s} : v <= Max({p, q, r, s})
    BY EndsOfFour
  <2>5. Min(S) \in S /\ Max(S) \in S /\ \A v \in S : Min(S) <= v /\ v <= Max(S)
    BY <2>3, <2>4
  <2> QED
    BY <2>5
<1>3. low \in Int /\ high \in Int
  BY <1>1
<1>4. PICK f \in Int : f = low \div d
  BY <1>3, DivMeans
<1>5. PICK g \in Int : g = CeilDiv(high, d) /\ high <= g * d /\ (g - 1) * d < high
  BY <1>3, CeilMeans
<1>6. first = (IF 0 < f THEN f ELSE 0) /\ past = (IF extent < g THEN extent ELSE g)
  BY <1>2, <1>4, <1>5 DEF FirstCell, PastCells, Greater, Lesser
<1>7. ASSUME NEW k \in 0..(extent - 1), NEW x \in Int, NEW y \in Int,
             2 * box[1] <= x, x <= 2 * box[3], 2 * box[2] <= y, y <= 2 * box[4],
             a * x + b * y + 2 * c = d * (2 * k + 1)
      PROVE  first <= k /\ k < past
  <2>0. /\ \E v \in AtCorners(box, a, b, c) : 2 * v <= a * x + b * y + 2 * c
        /\ \E v \in AtCorners(box, a, b, c) : a * x + b * y + 2 * c <= 2 * v
    BY <1>7, CornersBound
  <2>1. PICK v \in S : 2 * v <= d * (2 * k + 1)
    BY <1>7, <2>0
  <2>2. PICK w \in S : d * (2 * k + 1) <= 2 * w
    BY <1>7, <2>0
  <2>3. PICK e \in Int : e = k * d /\ d * (2 * k + 1) = 2 * e + d /\ (k + 1) * d = e + d
    OBVIOUS
  <2>4. low < (k + 1) * d
    BY <1>1, <1>2, <1>3, <2>1, <2>3
  <2>5. f < k + 1
    <3>1. k + 1 \in Int
      OBVIOUS
    <3> QED
      BY <1>3, <1>4, <2>4, <3>1, DivBounds
  <2>6. k * d < high
    BY <1>1, <1>2, <1>3, <2>2, <2>3
  <2>7. k < g
    <3>1. SUFFICES ASSUME g <= k PROVE FALSE
      OBVIOUS
    <3>2. g * d <= k * d
      BY <3>1
    <3> QED
      BY <1>3, <1>5, <2>3, <2>6, <3>2
  <2> QED
    BY <1>6, <2>5, <2>7
<1>8. ASSUME NEW k \in Int, k < past PROVE \E v \in S : k * d < v
  <2>1. k <= g - 1
    BY <1>6, <1>8
  <2>2. k * d <= (g - 1) * d /\ k * d \in Int /\ (g - 1) * d \in Int
    BY <2>1
  <2> QED
    BY <1>3, <1>5, <2>2
<1>9. ASSUME NEW k \in Int, first <= k PROVE \E v \in S : v < (k + 1) * d
  <2>1. f < k + 1
    BY <1>6, <1>9
  <2>2. low < (k + 1) * d
    BY <1>3, <1>4, <2>1, DivBounds
  <2> QED
    BY <2>2
<1> HIDE DEF S, first, past
<1>10. first \in Nat /\ past \in Int /\ past <= extent
  BY <1>6
<1>11. \A k \in 0..(extent - 1), x, y \in Int :
                     /\ 2 * box[1] <= x /\ x <= 2 * box[3] /\ 2 * box[2] <= y /\ y <= 2 * box[4]
                     /\ a * x + b * y + 2 * c = d * (2 * k + 1)
                     => first <= k /\ k < past
  BY <1>7
<1> QED
  BY <1>8, <1>9, <1>10, <1>11 DEF S, first, past

\* One factor of a comparison.
LEMMA FactorOut ==
    ASSUME NEW s \in Int, NEW u \in Int, NEW v \in Int, s * u < s * v
    PROVE  (s > 0 => u < v) /\ (s < 0 => v < u)
<1>1. ASSUME s > 0, v <= u PROVE s * v <= s * u
  BY <1>1
<1>2. ASSUME s < 0, u <= v PROVE s * v <= s * u
  BY <1>2
<1>3. s * u \in Int /\ s * v \in Int
  OBVIOUS
<1> QED
  BY <1>1, <1>2, <1>3

\* A cell of an axis that is not turned meets the box, whichever way the axis runs.
CellMeets(from, size, i, low, high) ==
    /\ Lesser(from + size * i, from + size * (i + 1)) < high
    /\ low < Greater(from + size * i, from + size * (i + 1))

\* Cells between the values at two corners meet what lies between the corners.
LEMMA AxisMeets ==
    ASSUME NEW s \in Int, NEW g \in Int, NEW from \in Int, s * g > 0,
           NEW low \in Int, NEW high \in Int, low <= high, NEW k \in Int,
           NEW x \in {low, high}, NEW y \in {low, high},
           k * (s * g) < s * (x - from), s * (y - from) < (k + 1) * (s * g)
    PROVE  CellMeets(from, g, k, low, high)
<1>1. PICK p \in Int, q \in Int : p = g * k /\ q = g * (k + 1) /\ q = p + g
  OBVIOUS
<1>2. k * (s * g) = s * p /\ (k + 1) * (s * g) = s * q
  BY <1>1
<1>3. x - from \in Int /\ y - from \in Int /\ s * p < s * (x - from) /\ s * (y - from) < s * q
  BY <1>2
<1>4. s > 0 => p < x - from
  BY <1>3, FactorOut
<1>5. s < 0 => x - from < p
  BY <1>3, FactorOut
<1>6. s > 0 => y - from < q
  BY <1>3, FactorOut
<1>7. s < 0 => q < y - from
  BY <1>3, FactorOut
<1>8. (s > 0 /\ g > 0) \/ (s < 0 /\ g < 0)
  <2>1. s # 0 /\ g # 0
    OBVIOUS
  <2>2. s > 0 /\ g < 0 => s * g < 0
    OBVIOUS
  <2>3. s < 0 /\ g > 0 => s * g < 0
    OBVIOUS
  <2> QED
    BY <2>1, <2>2, <2>3
<1>9. x \in Int /\ y \in Int /\ low <= x /\ x <= high /\ low <= y /\ y <= high
  OBVIOUS
<1>10. Lesser(from + p, from + q) < high /\ low < Greater(from + p, from + q)
  BY <1>1, <1>4, <1>5, <1>6, <1>7, <1>8, <1>9 DEF Lesser, Greater
<1> QED
  BY <1>1, <1>10 DEF CellMeets

\* The two coordinates of a pixel are linear in the place.
Sign(gt) == IF Det(gt) < 0 THEN 0 - 1 ELSE 1
Transform(gt) == \A i \in 1..6 : gt[i] \in Int
ColA(gt) == Sign(gt) * gt[6]
ColB(gt) == 0 - Sign(gt) * gt[3]
ColC(gt) == Sign(gt) * (gt[3] * gt[4] - gt[6] * gt[1])
RowA(gt) == 0 - Sign(gt) * gt[5]
RowB(gt) == Sign(gt) * gt[2]
RowC(gt) == Sign(gt) * (gt[5] * gt[1] - gt[2] * gt[4])
Scale(gt) == IF Det(gt) < 0 THEN 0 - Det(gt) ELSE Det(gt)

\* Both coordinates are linear, and the scale is the determinant, made positive.
LEMMA PlacesAreLinear ==
    ASSUME NEW gt, Transform(gt), Det(gt) # 0
    PROVE  /\ ColA(gt) \in Int /\ ColB(gt) \in Int /\ ColC(gt) \in Int
           /\ RowA(gt) \in Int /\ RowB(gt) \in Int /\ RowC(gt) \in Int
           /\ Scale(gt) \in Nat \ {0} /\ Scale(gt) = Sign(gt) * (gt[2] * gt[6] - gt[3] * gt[5])
           /\ Sign(gt) \in {1, 0 - 1}
           /\ \A x, y \in Int : WorldToPixel(x, y, gt) = <<Linear(ColA(gt), ColB(gt), ColC(gt), x, y),
                                                          Linear(RowA(gt), RowB(gt), RowC(gt), x, y)>>
<1>1. PICK a \in Int, b \in Int, c \in Int, d \in Int, e \in Int, f \in Int :
        a = gt[1] /\ b = gt[2] /\ c = gt[3] /\ d = gt[4] /\ e = gt[5] /\ f = gt[6]
  <2>1. /\ gt[1] \in Int /\ gt[2] \in Int /\ gt[3] \in Int
        /\ gt[4] \in Int /\ gt[5] \in Int /\ gt[6] \in Int
    BY DEF Transform
  <2> QED
    BY <2>1
<1>2. PICK s \in {1, 0 - 1} : s = Sign(gt)
  BY DEF Sign
<1>3. Det(gt) = b * f - c * e /\ Det(gt) \in Int
  BY <1>1 DEF Det
<1>4. /\ ColA(gt) = s * f /\ ColB(gt) = 0 - s * c /\ ColC(gt) = s * (c * d - f * a)
      /\ RowA(gt) = 0 - s * e /\ RowB(gt) = s * b /\ RowC(gt) = s * (e * a - b * d)
  BY <1>1, <1>2 DEF ColA, ColB, ColC, RowA, RowB, RowC
<1>5. Scale(gt) = s * (b * f - c * e) /\ Scale(gt) \in Nat \ {0}
  BY <1>2, <1>3 DEF Scale, Sign
<1>6. ASSUME NEW x \in Int, NEW y \in Int
      PROVE  WorldToPixel(x, y, gt) = <<Linear(ColA(gt), ColB(gt), ColC(gt), x, y),
                                        Linear(RowA(gt), RowB(gt), RowC(gt), x, y)>>
  <2>1. WorldToPixel(x, y, gt) = <<s * (f * (x - a) - c * (y - d)), s * (b * (y - d) - e * (x - a))>>
    BY <1>1, <1>2 DEF WorldToPixel, Sign
  <2>2. s * (f * (x - a) - c * (y - d)) = (s * f) * x + (0 - s * c) * y + s * (c * d - f * a)
    BY <1>2
  <2>3. s * (b * (y - d) - e * (x - a)) = (0 - s * e) * x + (s * b) * y + s * (e * a - b * d)
    BY <1>2
  <2> QED
    BY <1>4, <2>1, <2>2, <2>3 DEF Linear
<1>7. /\ ColA(gt) \in Int /\ ColB(gt) \in Int /\ ColC(gt) \in Int
      /\ RowA(gt) \in Int /\ RowB(gt) \in Int /\ RowC(gt) \in Int
  BY <1>4
<1> QED
  BY <1>1, <1>2, <1>5, <1>6, <1>7

\* The centre of a cell is in the middle of it.
LEMMA CentresAreInTheMiddle ==
    ASSUME NEW gt, Transform(gt), Det(gt) # 0, NEW col \in Int, NEW row \in Int
    PROVE  LET x == CellCenter(gt, col, row)[1]
               y == CellCenter(gt, col, row)[2]
           IN  /\ x \in Int /\ y \in Int
               /\ ColA(gt) * x + ColB(gt) * y + 2 * ColC(gt) = Scale(gt) * (2 * col + 1)
               /\ RowA(gt) * x + RowB(gt) * y + 2 * RowC(gt) = Scale(gt) * (2 * row + 1)
<1>1. PICK a \in Int, b \in Int, c \in Int, d \in Int, e \in Int, f \in Int :
        a = gt[1] /\ b = gt[2] /\ c = gt[3] /\ d = gt[4] /\ e = gt[5] /\ f = gt[6]
  <2>1. /\ gt[1] \in Int /\ gt[2] \in Int /\ gt[3] \in Int
        /\ gt[4] \in Int /\ gt[5] \in Int /\ gt[6] \in Int
    BY DEF Transform
  <2> QED
    BY <2>1
<1>2. PICK s \in {1, 0 - 1} : s = Sign(gt)
  BY DEF Sign
<1>3. /\ ColA(gt) = s * f /\ ColB(gt) = 0 - s * c /\ ColC(gt) = s * (c * d - f * a)
      /\ RowA(gt) = 0 - s * e /\ RowB(gt) = s * b /\ RowC(gt) = s * (e * a - b * d)
      /\ Scale(gt) = s * (b * f - c * e)
  BY <1>1, <1>2, PlacesAreLinear DEF ColA, ColB, ColC, RowA, RowB, RowC
<1>4. PICK u \in Int, v \in Int : u = 2 * col + 1 /\ v = 2 * row + 1
  OBVIOUS
<1>5. PICK x \in Int, y \in Int : x = 2 * a + b * u + c * v /\ y = 2 * d + e * u + f * v
  OBVIOUS
<1>6. CellCenter(gt, col, row)[1] = x /\ CellCenter(gt, col, row)[2] = y
  BY <1>1, <1>4, <1>5 DEF CellCenter
<1>7. (s * f) * x + (0 - s * c) * y + 2 * (s * (c * d - f * a)) = (s * (b * f - c * e)) * u
  BY <1>2, <1>5
<1>8. (0 - s * e) * x + (s * b) * y + 2 * (s * (e * a - b * d)) = (s * (b * f - c * e)) * v
  BY <1>2, <1>5
<1> QED
  BY <1>3, <1>4, <1>6, <1>7, <1>8

\* The corners of a box in pixels are the values of the two linear functions.
LEMMA CornersAre ==
    ASSUME NEW gt, Transform(gt), Det(gt) # 0, NEW box, Box(box)
    PROVE  /\ {c[1] : c \in Corners(box, gt)} = AtCorners(box, ColA(gt), ColB(gt), ColC(gt))
           /\ {c[2] : c \in Corners(box, gt)} = AtCorners(box, RowA(gt), RowB(gt), RowC(gt))
<1> DEFINE F(x, y) == Linear(ColA(gt), ColB(gt), ColC(gt), x, y)
           G(x, y) == Linear(RowA(gt), RowB(gt), RowC(gt), x, y)
<1>1. box[1] \in Int /\ box[2] \in Int /\ box[3] \in Int /\ box[4] \in Int
  BY DEF Box
<1>2. \A x \in {box[1], box[3]}, y \in {box[2], box[4]} : WorldToPixel(x, y, gt) = <<F(x, y), G(x, y)>>
  BY <1>1, PlacesAreLinear
<1>3. Corners(box, gt) = {<<F(x, y), G(x, y)>> : x \in {box[1], box[3]}, y \in {box[2], box[4]}}
  BY <1>2 DEF Corners
<1>4. AtCorners(box, ColA(gt), ColB(gt), ColC(gt)) = {F(box[1], box[2]), F(box[1], box[4]), F(box[3], box[2]), F(box[3], box[4])}
  BY DEF AtCorners
<1>5. AtCorners(box, RowA(gt), RowB(gt), RowC(gt)) = {G(box[1], box[2]), G(box[1], box[4]), G(box[3], box[2]), G(box[3], box[4])}
  BY DEF AtCorners
<1> HIDE DEF F, G
<1>6. ASSUME NEW p, NEW q, NEW r, NEW s, NEW t, NEW u, NEW v, NEW w,
             Corners(box, gt) = {<<p, t>>, <<q, u>>, <<r, v>>, <<s, w>>}
      PROVE  {c[1] : c \in Corners(box, gt)} = {p, q, r, s} /\ {c[2] : c \in Corners(box, gt)} = {t, u, v, w}
  <2> DEFINE C == Corners(box, gt)
  <2>1. <<p, t>> \in C /\ <<q, u>> \in C /\ <<r, v>> \in C /\ <<s, w>> \in C
    BY <1>6
  <2>2. \A c \in C : c = <<p, t>> \/ c = <<q, u>> \/ c = <<r, v>> \/ c = <<s, w>>
    BY <1>6
  <2> HIDE DEF C
  <2>3. {c[1] : c \in C} = {p, q, r, s}
    <3>1. \A c \in C : c[1] \in {p, q, r, s}
      BY <2>2
    <3>2. \A e \in {p, q, r, s} : \E c \in C : c[1] = e
      BY <2>1
    <3> QED
      BY <3>1, <3>2
  <2>4. {c[2] : c \in C} = {t, u, v, w}
    <3>1. \A c \in C : c[2] \in {t, u, v, w}
      BY <2>2
    <3>2. \A e \in {t, u, v, w} : \E c \in C : c[2] = e
      BY <2>1
    <3> QED
      BY <3>1, <3>2
  <2> QED
    BY <2>3, <2>4 DEF C
<1>7. Corners(box, gt) = {<<F(box[1], box[2]), G(box[1], box[2])>>, <<F(box[1], box[4]), G(box[1], box[4])>>,
                          <<F(box[3], box[2]), G(box[3], box[2])>>, <<F(box[3], box[4]), G(box[3], box[4])>>}
  <2> DEFINE K(x, y) == <<F(x, y), G(x, y)>>
             C == Corners(box, gt)
  <2>1. C = {K(x, y) : x \in {box[1], box[3]}, y \in {box[2], box[4]}}
    BY <1>3
  <2> HIDE DEF K, C
  <2>2. C = {K(box[1], box[2]), K(box[1], box[4]), K(box[3], box[2]), K(box[3], box[4])}
    <3>1. \A c \in C : c \in {K(box[1], box[2]), K(box[1], box[4]), K(box[3], box[2]), K(box[3], box[4])}
      BY <2>1
    <3>2. \A c \in {K(box[1], box[2]), K(box[1], box[4]), K(box[3], box[2]), K(box[3], box[4])} : c \in C
      BY <2>1
    <3> QED
      BY <3>1, <3>2
  <2> QED
    BY <2>2 DEF K, C
<1>8. /\ {c[1] : c \in Corners(box, gt)} = {F(box[1], box[2]), F(box[1], box[4]), F(box[3], box[2]), F(box[3], box[4])}
      /\ {c[2] : c \in Corners(box, gt)} = {G(box[1], box[2]), G(box[1], box[4]), G(box[3], box[2]), G(box[3], box[4])}
  BY <1>6, <1>7
<1> QED
  BY <1>4, <1>5, <1>8

\* The window of a box.
LEMMA WindowOfBox ==
    ASSUME NEW gt, Transform(gt), Det(gt) # 0, NEW box, Box(box), NEW m,
           m.width \in Nat \ {0}, m.height \in Nat \ {0}
    PROVE  LET S == AtCorners(box, ColA(gt), ColB(gt), ColC(gt))
               R == AtCorners(box, RowA(gt), RowB(gt), RowC(gt))
               left == FirstCell(S, Scale(gt))
               right == PastCells(S, Scale(gt), m.width)
               top == FirstCell(R, Scale(gt))
               bottom == PastCells(R, Scale(gt), m.height)
               empty == right - left <= 0 \/ bottom - top <= 0
           IN  ResolveWindow(box, m, gt)
                 = [col |-> left, row |-> top, width |-> IF empty THEN 0 ELSE right - left,
                    height |-> IF empty THEN 0 ELSE bottom - top]
<1> DEFINE S == AtCorners(box, ColA(gt), ColB(gt), ColC(gt))
           R == AtCorners(box, RowA(gt), RowB(gt), RowC(gt))
           U == {c[1] : c \in Corners(box, gt)}
           V == {c[2] : c \in Corners(box, gt)}
           left == FirstCell(U, Scale(gt))
           right == PastCells(U, Scale(gt), m.width)
           top == FirstCell(V, Scale(gt))
           bottom == PastCells(V, Scale(gt), m.height)
           empty == right - left <= 0 \/ bottom - top <= 0
<1>1. U = S /\ V = R
  BY CornersAre
<1>2. ResolveWindow(box, m, gt)
        = [col |-> left, row |-> top, width |-> IF empty THEN 0 ELSE right - left,
           height |-> IF empty THEN 0 ELSE bottom - top]
  BY Zenon DEF ResolveWindow, FirstCell, PastCells, Scale
<1> HIDE DEF S, R, U, V
<1>3. QED
  BY <1>1, <1>2, Zenon DEF S, R

\* The window of a box holds every cell whose centre is in the box, lies in the image, and
\* where the image is not turned all its rows and columns meet the box: for a geotransform
\* of any numbers and a box of any size.
THEOREM WindowAlwaysRight ==
    ASSUME NEW in, BoxOf(in.box, in.m, in.gt)
    PROVE  WindowIsRight(in, ResolveWindow(in.box, in.m, in.gt))
<1> DEFINE m == in.m
           gt == in.gt
           box == in.box
           win == ResolveWindow(in.box, in.m, in.gt)
           S == AtCorners(box, ColA(gt), ColB(gt), ColC(gt))
           R == AtCorners(box, RowA(gt), RowB(gt), RowC(gt))
           left == FirstCell(S, Scale(gt))
           right == PastCells(S, Scale(gt), m.width)
           top == FirstCell(R, Scale(gt))
           bottom == PastCells(R, Scale(gt), m.height)
           Inside(x, y) == 2 * box[1] <= x /\ x <= 2 * box[3] /\ 2 * box[2] <= y /\ y <= 2 * box[4]
<1>1. Transform(gt) /\ Det(gt) # 0
  BY DEF BoxOf, Transform
<1>2. Box(box)
  BY DEF BoxOf, Box
<1>3. m.width \in Nat \ {0} /\ m.height \in Nat \ {0}
  BY DEF BoxOf
<1>4. PICK d \in Nat \ {0} : d = Scale(gt)
  BY <1>1, PlacesAreLinear
<1>5. /\ ColA(gt) \in Int /\ ColB(gt) \in Int /\ ColC(gt) \in Int
      /\ RowA(gt) \in Int /\ RowB(gt) \in Int /\ RowC(gt) \in Int
  BY <1>1, PlacesAreLinear
<1>6. /\ left \in Nat /\ right \in Int /\ right <= m.width
      /\ \A k \in 0..(m.width - 1), x, y \in Int :
            Inside(x, y) /\ ColA(gt) * x + ColB(gt) * y + 2 * ColC(gt) = d * (2 * k + 1) => left <= k /\ k < right
      /\ \A k \in Int : k < right => \E v \in S : k * d < v
      /\ \A k \in Int : left <= k => \E v \in S : v < (k + 1) * d
  BY <1>2, <1>3, <1>4, <1>5, CellsOfBox
<1>7. /\ top \in Nat /\ bottom \in Int /\ bottom <= m.height
      /\ \A k \in 0..(m.height - 1), x, y \in Int :
            Inside(x, y) /\ RowA(gt) * x + RowB(gt) * y + 2 * RowC(gt) = d * (2 * k + 1) => top <= k /\ k < bottom
      /\ \A k \in Int : k < bottom => \E v \in R : k * d < v
      /\ \A k \in Int : top <= k => \E v \in R : v < (k + 1) * d
  BY <1>2, <1>3, <1>4, <1>5, CellsOfBox
<1> DEFINE empty == right - left <= 0 \/ bottom - top <= 0
<1>8. /\ win.col = left /\ win.row = top
      /\ win.width = (IF empty THEN 0 ELSE right - left) /\ win.height = (IF empty THEN 0 ELSE bottom - top)
  BY <1>1, <1>2, <1>3, WindowOfBox
<1> HIDE DEF left, right, top, bottom, S, R, win, gt, m, box
<1>9. ASSUME NEW col \in 0..(m.width - 1), NEW row \in 0..(m.height - 1),
             Inside(CellCenter(gt, col, row)[1], CellCenter(gt, col, row)[2])
      PROVE  /\ win.col <= col /\ col < win.col + win.width
             /\ win.row <= row /\ row < win.row + win.height
  <2>1. PICK x \in Int, y \in Int : x = CellCenter(gt, col, row)[1] /\ y = CellCenter(gt, col, row)[2]
    BY <1>1, CentresAreInTheMiddle
  <2>2. /\ ColA(gt) * x + ColB(gt) * y + 2 * ColC(gt) = d * (2 * col + 1)
        /\ RowA(gt) * x + RowB(gt) * y + 2 * RowC(gt) = d * (2 * row + 1)
    BY <1>1, <1>4, <2>1, CentresAreInTheMiddle
  <2>3. left <= col /\ col < right
    BY <1>6, <1>9, <2>1, <2>2
  <2>4. top <= row /\ row < bottom
    BY <1>7, <1>9, <2>1, <2>2
  <2> QED
    BY <1>6, <1>7, <1>8, <2>3, <2>4
<1>10. ASSUME win.width > 0
       PROVE  /\ win.col + win.width = right /\ win.row + win.height = bottom
              /\ win.col + win.width <= m.width /\ win.row + win.height <= m.height
              /\ win.col \in Int /\ win.row \in Int
  BY <1>6, <1>7, <1>8, <1>10
<1>11. ASSUME win.width > 0
       PROVE  WindowGeotransform(gt, win)[1] + gt[3] * (0 - win.row) = gt[1] + gt[2] * win.col
  <2>3. gt[1] \in Int /\ gt[2] \in Int /\ gt[3] \in Int
    BY <1>1 DEF Transform
  <2>4. win.col \in Int /\ win.row \in Int
    BY <1>10, <1>11
  <2>1. PICK a \in Int, b \in Int, c \in Int, p \in Int, q \in Int :
          a = gt[1] /\ b = gt[2] /\ c = gt[3] /\ p = win.col /\ q = win.row
    BY <2>3, <2>4
  <2>2. a + b * p + c * q + c * (0 - q) = a + b * p
    OBVIOUS
  <2> QED
    BY <2>1, <2>2 DEF WindowGeotransform
<1>12. ASSUME gt[3] = 0, gt[5] = 0, win.width > 0
       PROVE  /\ \A c \in win.col..(win.col + win.width - 1) : CellMeets(gt[1], gt[2], c, box[1], box[3])
              /\ \A r \in win.row..(win.row + win.height - 1) : CellMeets(gt[4], gt[6], r, box[2], box[4])
  <2>1. PICK a \in Int, b \in Int, e \in Int, f \in Int : a = gt[1] /\ b = gt[2] /\ e = gt[4] /\ f = gt[6]
    BY <1>1 DEF Transform
  <2>2. PICK s \in {1, 0 - 1} : s = Sign(gt)
    BY DEF Sign
  <2>3. /\ box[1] \in Int /\ box[2] \in Int /\ box[3] \in Int /\ box[4] \in Int
        /\ box[1] <= box[3] /\ box[2] <= box[4]
    BY <1>2 DEF Box
  <2>4. d = s * (b * f - 0 * 0)
    BY <1>1, <1>4, <1>12, <2>1, <2>2, PlacesAreLinear
  <2>5. d = (s * f) * b /\ d = (s * b) * f
    BY <2>4
  <2>6. /\ ColA(gt) = s * f /\ ColB(gt) = 0 /\ ColC(gt) = s * (0 - f * a)
        /\ RowA(gt) = 0 /\ RowB(gt) = s * b /\ RowC(gt) = s * (0 - b * e)
    BY <1>12, <2>1, <2>2 DEF ColA, ColB, ColC, RowA, RowB, RowC
  <2>7. \A v \in S : \E x \in {box[1], box[3]} : v = (s * f) * (x - a)
    <3>1. ASSUME NEW x \in Int, NEW y \in Int
          PROVE  Linear(ColA(gt), ColB(gt), ColC(gt), x, y) = (s * f) * (x - a)
      <4>1. (s * f) * x + 0 * y + s * (0 - f * a) = (s * f) * (x - a)
        BY <2>2
      <4> QED
        BY <2>6, <4>1 DEF Linear
    <3> QED
      BY <2>3, <3>1 DEF S, AtCorners
  <2>8. \A v \in R : \E y \in {box[2], box[4]} : v = (s * b) * (y - e)
    <3>1. ASSUME NEW x \in Int, NEW y \in Int
          PROVE  Linear(RowA(gt), RowB(gt), RowC(gt), x, y) = (s * b) * (y - e)
      <4>1. 0 * x + (s * b) * y + s * (0 - b * e) = (s * b) * (y - e)
        BY <2>2
      <4> QED
        BY <2>6, <4>1 DEF Linear
    <3> QED
      BY <2>3, <3>1 DEF R, AtCorners
  <2>9. PICK g \in Int, h \in Int : g = s * f /\ h = s * b
    BY <2>2
  <2>10. g * b > 0 /\ h * f > 0 /\ d = g * b /\ d = h * f
    BY <2>5, <2>9
  <2>11. ASSUME NEW c \in win.col..(win.col + win.width - 1)
         PROVE  CellMeets(gt[1], gt[2], c, box[1], box[3])
    <3>1. c \in Int /\ left <= c /\ c < right
      BY <1>6, <1>8, <1>10, <1>12, <2>11
    <3>2. PICK x \in {box[1], box[3]} : c * d < g * (x - a)
      BY <1>6, <2>7, <2>9, <3>1
    <3>3. PICK y \in {box[1], box[3]} : g * (y - a) < (c + 1) * d
      BY <1>6, <2>7, <2>9, <3>1
    <3>4. c * (g * b) < g * (x - a) /\ g * (y - a) < (c + 1) * (g * b)
      BY <2>10, <3>2, <3>3
    <3>5. CellMeets(a, b, c, box[1], box[3])
      BY <2>3, <2>10, <3>1, <3>4, AxisMeets
    <3> QED
      BY <2>1, <3>5
  <2>12. ASSUME NEW r \in win.row..(win.row + win.height - 1)
         PROVE  CellMeets(gt[4], gt[6], r, box[2], box[4])
    <3>1. r \in Int /\ top <= r /\ r < bottom
      BY <1>7, <1>8, <1>10, <1>12, <2>12
    <3>2. PICK x \in {box[2], box[4]} : r * d < h * (x - e)
      BY <1>7, <2>8, <2>9, <3>1
    <3>3. PICK y \in {box[2], box[4]} : h * (y - e) < (r + 1) * d
      BY <1>7, <2>8, <2>9, <3>1
    <3>4. r * (h * f) < h * (x - e) /\ h * (y - e) < (r + 1) * (h * f)
      BY <2>10, <3>2, <3>3
    <3>5. CellMeets(e, f, r, box[2], box[4])
      BY <2>3, <2>10, <3>1, <3>4, AxisMeets
    <3> QED
      BY <2>1, <3>5
  <2> QED
    BY <2>11, <2>12
<1>13. WindowIsRight(in, win) <=>
         /\ \A col \in 0..(m.width - 1), row \in 0..(m.height - 1) :
               Inside(CellCenter(gt, col, row)[1], CellCenter(gt, col, row)[2]) =>
                  /\ win.col <= col /\ col < win.col + win.width
                  /\ win.row <= row /\ row < win.row + win.height
         /\ win.width > 0 =>
              /\ win.col + win.width <= m.width /\ win.row + win.height <= m.height
              /\ WindowGeotransform(gt, win)[1] + gt[3] * (0 - win.row) = gt[1] + gt[2] * win.col
              /\ gt[3] = 0 /\ gt[5] = 0 =>
                   /\ \A c \in win.col..(win.col + win.width - 1) : CellMeets(gt[1], gt[2], c, box[1], box[3])
                   /\ \A r \in win.row..(win.row + win.height - 1) : CellMeets(gt[4], gt[6], r, box[2], box[4])
  BY Zenon DEF WindowIsRight, CellMeets, gt, m, box
<1>14. WindowIsRight(in, win)
  BY <1>9, <1>10, <1>11, <1>12, <1>13
<1> QED
  BY <1>14 DEF win

-----------------------------------------------------------------------------
(* geo-common: predictors.                                                  *)

\* The rest is what a multiple leaves.
LEMMA RestOf ==
    ASSUME NEW n \in Nat \ {0}, NEW s \in 0..(n - 1)
    PROVE  s % n = s /\ (s - n) % n = s /\ (s + n) % n = s
  OBVIOUS

\* A difference kept modulo n is undone by adding modulo n.
LEMMA RestsAddUp ==
    ASSUME NEW n \in Nat \ {0}, NEW a \in 0..(n - 1), NEW b \in 0..(n - 1)
    PROVE  /\ (a - b) % n \in 0..(n - 1)
           /\ (((a - b) % n) + b) % n = a
<1>1. CASE a >= b
  <2>1. (a - b) % n = a - b
    <3>1. a - b \in 0..(n - 1)
      BY <1>1
    <3> QED
      BY <3>1, RestOf
  <2>2. a - b + b = a /\ a % n = a
    BY RestOf
  <2> QED
    BY <1>1, <2>1, <2>2
<1>2. CASE a < b
  <2>1. PICK s \in 0..(n - 1) : s = a - b + n /\ s - n = a - b /\ s + b = a + n
    BY <1>2
  <2>2. (s - n) % n = s /\ (a + n) % n = a
    BY RestOf
  <2> QED
    BY <2>1, <2>2
<1> QED
  BY <1>1, <1>2

\* Sums along a row, each with the one a few places before, modulo n: the row itself is
\* what adding up its differences gives.
Sums(f, v, lag, n) ==
    f = [i \in DOMAIN v |-> IF i <= lag THEN v[i] ELSE (v[i] + f[i - lag]) % n]
Differences(row, v, lag, n, len) ==
    /\ DOMAIN row = 1..len /\ DOMAIN v = 1..len
    /\ \A i \in 1..len : row[i] \in 0..(n - 1)
    /\ \A i \in 1..len : v[i] = IF i <= lag THEN row[i] ELSE (row[i] - row[i - lag]) % n

\* The row is the one function whose sums these are.
LEMMA SumsOfDifferences ==
    ASSUME NEW len \in Nat, NEW n \in Nat \ {0}, NEW lag \in Nat \ {0}, NEW row, NEW v,
           Differences(row, v, lag, n, len)
    PROVE  /\ Sums([i \in 1..len |-> row[i]], v, lag, n)
           /\ \A f : Sums(f, v, lag, n) => f = [i \in 1..len |-> row[i]]
<1> DEFINE g == [i \in 1..len |-> row[i]]
<1>1. /\ DOMAIN v = 1..len /\ \A i \in 1..len : row[i] \in 0..(n - 1)
      /\ \A i \in 1..len : v[i] = IF i <= lag THEN row[i] ELSE (row[i] - row[i - lag]) % n
  BY DEF Differences
<1>2. \A i \in 1..len : i > lag => i - lag \in 1..len /\ (v[i] + row[i - lag]) % n = row[i]
  <2> SUFFICES ASSUME NEW i \in 1..len, i > lag
               PROVE  i - lag \in 1..len /\ (v[i] + row[i - lag]) % n = row[i]
    OBVIOUS
  <2>1. i - lag \in 1..len /\ ~(i <= lag)
    OBVIOUS
  <2>2. PICK a \in 0..(n - 1), b \in 0..(n - 1) : a = row[i] /\ b = row[i - lag]
    BY <1>1, <2>1
  <2>3. v[i] = (a - b) % n
    BY <1>1, <2>1, <2>2
  <2>4. (((a - b) % n) + b) % n = a
    BY RestsAddUp
  <2> QED
    BY <2>1, <2>2, <2>3, <2>4
<1>3. Sums(g, v, lag, n)
  <2>1. \A i \in 1..len : g[i] = IF i <= lag THEN v[i] ELSE (v[i] + g[i - lag]) % n
    <3> SUFFICES ASSUME NEW i \in 1..len
                 PROVE  g[i] = IF i <= lag THEN v[i] ELSE (v[i] + g[i - lag]) % n
      OBVIOUS
    <3>1. CASE i <= lag
      BY <1>1, <3>1
    <3>2. CASE ~(i <= lag)
      <4>1. i > lag
        BY <3>2
      <4>2. i - lag \in 1..len /\ (v[i] + row[i - lag]) % n = row[i]
        BY <1>2, <4>1
      <4> QED
        BY <3>2, <4>2
    <3> QED
      BY <3>1, <3>2
  <2> HIDE DEF g
  <2>2. g = [i \in 1..len |-> IF i <= lag THEN v[i] ELSE (v[i] + g[i - lag]) % n]
    <3>1. DOMAIN g = 1..len /\ g = [i \in DOMAIN g |-> g[i]]
      BY DEF g
    <3> QED
      BY <2>1, <3>1, Zenon
  <2> QED
    BY <1>1, <2>2 DEF Sums
<1>4. ASSUME NEW f, Sums(f, v, lag, n) PROVE f = g
  <2>1. DOMAIN f = 1..len /\ f = [i \in 1..len |-> f[i]]
    BY <1>1, <1>4 DEF Sums
  <2>2. \A i \in 1..len : f[i] = IF i <= lag THEN v[i] ELSE (v[i] + f[i - lag]) % n
    BY <1>1, <1>4 DEF Sums
  <2> DEFINE T == {k \in 0..len : \A i \in 1..k : f[i] = row[i]}
  <2>3. 0 \in T
    OBVIOUS
  <2>4. ASSUME NEW k \in 1..len, k - 1 \in T PROVE k \in T
    <3>1. \A i \in 1..(k - 1) : f[i] = row[i]
      BY <2>4
    <3>2. f[k] = row[k]
      <4>1. CASE k <= lag
        BY <1>1, <2>2, <4>1
      <4>2. CASE ~(k <= lag)
        <5>1. k - lag \in 1..(k - 1) /\ k > lag
          BY <4>2
        <5>2. f[k - lag] = row[k - lag] /\ (v[k] + row[k - lag]) % n = row[k]
          BY <1>2, <3>1, <5>1
        <5> QED
          BY <2>2, <4>2, <5>2
      <4> QED
        BY <4>1, <4>2
    <3>3. \A i \in 1..k : i = k \/ i \in 1..(k - 1)
      OBVIOUS
    <3> QED
      BY <3>1, <3>2, <3>3
  <2> HIDE DEF T
  <2>5. len \in T
    <3>1. 0..len \subseteq T
      BY <2>3, <2>4, UpToInduction
    <3> QED
      BY <3>1
  <2>6. \A i \in 1..len : f[i] = row[i]
    BY <2>5 DEF T
  <2> QED
    BY <2>1, <2>6
<1> QED
  BY <1>3, <1>4

\* The horizontal predictor of a row of numbers without sign is undone.
LEMMA HorizontalUndone ==
    ASSUME NEW row, RowOf(row), row.format = "unsigned", NEW n \in Nat \ {0}, n = PowerOf2(row.bits)
    PROVE  DecodeRow(Differenced(row), row) = [i \in DOMAIN row.values |-> row.values[i]]
<1> DEFINE len == Len(row.values)
           v == Differenced(row)
           so == CHOOSE f : Sums(f, v, row.spp, PowerOf2(row.bits))
           given == [i \in 1..len |-> row.values[i]]
<1>1. /\ row.spp \in Nat \ {0} /\ len \in Nat /\ DOMAIN row.values = 1..len
      /\ \A i \in 1..len : row.values[i] \in 0..(n - 1)
  BY DEF RowOf
<1>2. DOMAIN v = 1..len
  BY <1>1 DEF Differenced
<1>3. \A i \in 1..len : v[i] = IF i <= row.spp THEN row.values[i] ELSE (row.values[i] - row.values[i - row.spp]) % n
  BY <1>1 DEF Differenced, Wrapped
<1> HIDE DEF v
<1>4. Differences(row.values, v, row.spp, n, len)
  BY <1>1, <1>2, <1>3 DEF Differences
<1>5. DecodeRow(v, row) = so
  <2>1. row.format # "float"
    OBVIOUS
  <2>2. Unpacked(v, row.format) = v
    BY <2>1 DEF Unpacked
  <2>3. UndoHorizontal(v, row.spp, row.bits, row.format) = so
    BY <2>1, Zenon DEF UndoHorizontal, Sums
  <2> QED
    BY <2>2, <2>3 DEF DecodeRow
<1>6. Sums(given, v, row.spp, n) /\ \A f : Sums(f, v, row.spp, n) => f = given
  <2>0. PICK values : values = row.values
    OBVIOUS
  <2>1. PICK k \in Nat, s \in Nat \ {0} : values = row.values /\ k = len /\ s = row.spp
    BY <1>1, <2>0
  <2>2. Differences(values, v, s, n, k) /\ given = [i \in 1..k |-> values[i]]
    BY <1>4, <2>1
  <2> HIDE DEF given
  <2>3. /\ Sums([i \in 1..k |-> values[i]], v, s, n)
        /\ \A f : Sums(f, v, s, n) => f = [i \in 1..k |-> values[i]]
    BY <2>2, SumsOfDifferences
  <2> QED
    BY <2>1, <2>2, <2>3
<1> HIDE DEF given
<1>7. so = given
  BY <1>6
<1> QED
  BY <1>1, <1>5, <1>7 DEF v, given

\* Rows of one length, put together.
EvenlyFlat(flat, rows, n, b) ==
    /\ Len(flat) = n * b /\ DOMAIN flat = 1..(n * b)
    /\ \A x \in 0..(n - 1), y \in 0..(b - 1) : flat[x * b + y + 1] = rows[x + 1][y + 1]

\* The places of rows put together.
LEMMA PlaceBelow ==
    ASSUME NEW n \in Nat, NEW b \in Nat \ {0}, NEW x \in 0..(n - 1), NEW y \in 0..(b - 1)
    PROVE  x * b + y + 1 \in 1..(n * b)
<1>1. (x + 1) * b <= n * b
  OBVIOUS
<1>2. (x + 1) * b = x * b + b /\ x * b \in Nat /\ n * b \in Nat
  OBVIOUS
<1> QED
  BY <1>1, <1>2

\* FlattenSeq of rows of one length has each value at its place.
LEMMA EvenlyFlattened ==
    ASSUME NEW S, NEW n \in Nat, NEW b \in Nat \ {0}, NEW rows \in [1..n -> Seq(S)],
           \A i \in 1..n : Len(rows[i]) = b
    PROVE  EvenlyFlat(FlattenSeq(rows), rows, n, b)
<1>1. PICK f \in [0..n -> Seq(S)] : Flattened(f, rows, n) /\ FlattenSeq(rows) = f[n]
  BY FlattenMeans
<1>2. f[0] = <<>> /\ \A k \in 1..n : f[k] = f[k - 1] \o rows[k]
  BY <1>1, Zenon DEF Flattened
<1> DEFINE T == {k \in 0..n : EvenlyFlat(f[k], rows, k, b)}
<1>3. 0 \in T
  <2>1. Len(<<>>) = 0 * b /\ DOMAIN <<>> = 1..(0 * b)
    OBVIOUS
  <2>2. EvenlyFlat(<<>>, rows, 0, b)
    BY <2>1 DEF EvenlyFlat
  <2> QED
    BY <1>2, <2>2
<1>4. ASSUME NEW k \in 1..n, k - 1 \in T PROVE k \in T
  <2>1. PICK so, more, then : so = f[k - 1] /\ more = rows[k] /\ then = f[k]
    OBVIOUS
  <2>2. so \in Seq(S) /\ more \in Seq(S) /\ then = so \o more /\ Len(more) = b
    <3>0. k - 1 \in 0..n
      OBVIOUS
    <3>1. f[k] = f[k - 1] \o rows[k]
      BY <1>2
    <3>2. f[k - 1] \in Seq(S) /\ rows[k] \in Seq(S) /\ Len(rows[k]) = b
      BY <3>0
    <3> QED
      BY <2>1, <3>1, <3>2, Zenon
  <2>3. PICK l \in Nat : l = (k - 1) * b /\ k * b = l + b
    <3>1. (k - 1) * b \in Nat /\ k * b = (k - 1) * b + b
      OBVIOUS
    <3> QED
      BY <3>1
  <2>4. Len(so) = l /\ \A x \in 0..(k - 2), y \in 0..(b - 1) : so[x * b + y + 1] = rows[x + 1][y + 1]
    BY <1>4, <2>1, <2>3 DEF EvenlyFlat
  <2>5. /\ then \in Seq(S) /\ Len(then) = l + b
        /\ \A i \in 1..(l + b) : then[i] = IF i <= l THEN so[i] ELSE more[i - l]
    BY <2>2, <2>4, ConcatProperties
  <2>6. DOMAIN then = 1..(l + b)
    BY <2>5
  <2>7. ASSUME NEW x \in 0..(k - 1), NEW y \in 0..(b - 1)
        PROVE  then[x * b + y + 1] = rows[x + 1][y + 1]
    <3>1. PICK i \in Nat : i = x * b + y + 1
      <4>1. x * b \in Nat
        OBVIOUS
      <4>2. y \in Nat
        OBVIOUS
      <4>3. PICK p \in Nat : p = x * b
        BY <4>1
      <4>4. p + y + 1 \in Nat
        BY <4>2
      <4> QED
        BY <4>3, <4>4
    <3>2. CASE x = k - 1
      <4>1. i = l + y + 1
        BY <2>3, <3>1, <3>2
      <4>2. i \in 1..(l + b) /\ ~(i <= l) /\ i - l = y + 1
        BY <4>1
      <4>3. then[i] = more[y + 1]
        BY <2>5, <4>2
      <4> QED
        BY <2>1, <3>1, <3>2, <4>3
    <3>3. CASE x # k - 1
      <4>1. x \in 0..(k - 2) /\ x \in 0..((k - 1) - 1) /\ k - 1 \in Nat
        BY <3>3
      <4>2. i \in 1..l
        BY <2>3, <3>1, <4>1, PlaceBelow
      <4>3. then[i] = so[i]
        <5>1. i \in 1..(l + b) /\ i <= l
          BY <4>2
        <5> QED
          BY <2>5, <5>1
      <4>4. so[x * b + y + 1] = rows[x + 1][y + 1]
        BY <2>4, <4>1
      <4> QED
        BY <3>1, <4>3, <4>4
    <3> QED
      BY <3>2, <3>3
  <2>8. EvenlyFlat(then, rows, k, b)
    BY <2>3, <2>5, <2>6, <2>7 DEF EvenlyFlat
  <2> QED
    BY <2>1, <2>8
<1> HIDE DEF T
<1>5. n \in T
  <2>1. 0..n \subseteq T
    BY <1>3, <1>4, UpToInduction
  <2> QED
    BY <2>1
<1> QED
  BY <1>1, <1>5 DEF T

\* The predictor of floating point numbers is undone: the bytes of the samples come back,
\* in order.
THEOREM FloatUndone ==
    ASSUME NEW row, FloatRowOf(row)
    PROVE  UndoFloat(FloatDifferenced(row), Len(row.samples), row.spp, Len(row.samples[1]))
             = FlattenSeq(row.samples)
<1>1. PICK n \in Nat \ {0}, b \in Nat \ {0}, lag \in Nat \ {0} :
        n = Len(row.samples) /\ b = Len(row.samples[1]) /\ lag = row.spp
  BY DEF FloatRowOf
<1>2. PICK samples \in [1..n -> [1..b -> 0..(Bytes - 1)]] : samples = row.samples
  BY <1>1 DEF FloatRowOf
<1>3. Bytes \in Nat \ {0}
  BY CogAssumption DEF CogAssumption
<1>4. PICK len \in Nat : len = n * b
  OBVIOUS
<1> DEFINE plane == [i \in 1..(n * b) |-> samples[((i - 1) % n) + 1][((i - 1) \div n) + 1]]
           v == FloatDifferenced(row)
           undone == CHOOSE f : Sums(f, v, lag, Bytes)
<1>5. v = [i \in DOMAIN plane |-> IF i <= lag THEN plane[i] ELSE (plane[i] - plane[i - lag]) % Bytes]
  <2> DEFINE raw == [i \in 1..(Len(row.samples) * Len(row.samples[1])) |->
                        row.samples[((i - 1) % Len(row.samples)) + 1][((i - 1) \div Len(row.samples)) + 1]]
  <2>1. v = [i \in DOMAIN raw |-> IF i <= row.spp THEN raw[i] ELSE (raw[i] - raw[i - row.spp]) % Bytes]
    BY Zenon DEF FloatDifferenced
  <2>2. raw = plane
    BY <1>1, <1>2
  <2> HIDE DEF raw, plane, v
  <2> QED
    BY <1>1, <2>1, <2>2
<1>6. DOMAIN plane = 1..len /\ \A i \in 1..len : plane[i] = samples[((i - 1) % n) + 1][((i - 1) \div n) + 1]
  BY <1>4
<1>7. \A x \in 0..(n - 1), y \in 0..(b - 1) :
         y * n + x + 1 \in 1..len /\ plane[y * n + x + 1] = samples[x + 1][y + 1]
  <2> SUFFICES ASSUME NEW x \in 0..(n - 1), NEW y \in 0..(b - 1)
               PROVE  y * n + x + 1 \in 1..len /\ plane[y * n + x + 1] = samples[x + 1][y + 1]
    OBVIOUS
  <2>0. y * n + x + 1 \in 1..(b * n)
    BY PlaceBelow
  <2>1. y * n + x + 1 \in 1..(b * n) /\ b * n = len
    BY <1>4, <2>0
  <2>2. (y * n + x) \div n = y /\ (y * n + x) % n = x
    <3>1. y \in Nat
      OBVIOUS
    <3> QED
      BY <3>1, DivOf
  <2>3. PICK i \in 1..len : i = y * n + x + 1 /\ i - 1 = y * n + x
    BY <2>1
  <2> HIDE DEF plane
  <2>4. plane[i] = samples[x + 1][y + 1]
    BY <1>6, <2>2, <2>3
  <2> QED
    BY <2>3, <2>4
<1>8. \A i \in 1..len : plane[i] \in 0..(Bytes - 1)
  <2> SUFFICES ASSUME NEW i \in 1..len PROVE plane[i] \in 0..(Bytes - 1)
    OBVIOUS
  <2>1. i - 1 \in 0..(n * b - 1)
    BY <1>4
  <2>2. (i - 1) \div n \in 0..(b - 1) /\ (i - 1) % n \in 0..(n - 1)
    BY <2>1, QuotientAndRest
  <2>3. samples[((i - 1) % n) + 1][((i - 1) \div n) + 1] \in 0..(Bytes - 1)
    <3>0. PICK u \in 0..(n - 1), w \in 0..(b - 1) : u = (i - 1) % n /\ w = (i - 1) \div n
      BY <2>2
    <3>1. PICK x \in 1..n, y \in 1..b : x = u + 1 /\ y = w + 1
      OBVIOUS
    <3>2. samples[x][y] \in 0..(Bytes - 1)
      OBVIOUS
    <3> QED
      BY <3>0, <3>1, <3>2
  <2> HIDE DEF plane
  <2> QED
    BY <1>6, <2>3
<1> HIDE DEF plane
<1>9. DOMAIN v = 1..len /\ \A i \in 1..len : v[i] = IF i <= lag THEN plane[i] ELSE (plane[i] - plane[i - lag]) % Bytes
  BY <1>5, <1>6
<1> HIDE DEF v
<1>10. Differences(plane, v, lag, Bytes, len)
  BY <1>6, <1>8, <1>9 DEF Differences
<1>11. undone = [i \in 1..len |-> plane[i]]
  <2>1. Sums([i \in 1..len |-> plane[i]], v, lag, Bytes)
        /\ \A f : Sums(f, v, lag, Bytes) => f = [i \in 1..len |-> plane[i]]
    BY <1>3, <1>10, SumsOfDifferences
  <2> QED
    BY <2>1
<1>12. UndoFloat(v, n, lag, b) = [k \in DOMAIN v |-> undone[((k - 1) % b) * n + ((k - 1) \div b) + 1]]
  BY Zenon DEF UndoFloat, Sums
<1> HIDE DEF undone
<1>13. EvenlyFlat(FlattenSeq(samples), samples, n, b) /\ FlattenSeq(samples) \in Seq(0..(Bytes - 1))
  <2>1. /\ \A i \in 1..n : samples[i] \in Seq(0..(Bytes - 1)) /\ Len(samples[i]) = b
    <3> SUFFICES ASSUME NEW i \in 1..n
                 PROVE  samples[i] \in Seq(0..(Bytes - 1)) /\ Len(samples[i]) = b
      OBVIOUS
    <3>1. samples[i] \in [1..b -> 0..(Bytes - 1)]
      OBVIOUS
    <3> QED
      BY <3>1, FunctionIsSeq
  <2>2. samples \in [1..n -> Seq(0..(Bytes - 1))]
    BY <2>1
  <2> QED
    BY <2>1, <2>2, EvenlyFlattened, FlatElements
<1> DEFINE flat == FlattenSeq(samples)
<1> HIDE DEF flat
<1>14. DOMAIN flat = 1..len /\ flat = [k \in 1..len |-> flat[k]]
  <2>1. DOMAIN flat = 1..len /\ flat \in Seq(0..(Bytes - 1))
    BY <1>4, <1>13 DEF EvenlyFlat, flat
  <2> QED
    BY <2>1
<1>15. ASSUME NEW k \in 1..len PROVE undone[((k - 1) % b) * n + ((k - 1) \div b) + 1] = flat[k]
  <2>1. k - 1 \in 0..(b * n - 1) /\ k - 1 \in Nat
    BY <1>4
  <2>2. PICK x \in 0..(n - 1), y \in 0..(b - 1) : x = (k - 1) \div b /\ y = (k - 1) % b /\ k - 1 = x * b + y
    <3>1. /\ (k - 1) \div b \in 0..(n - 1) /\ (k - 1) % b \in 0..(b - 1)
          /\ k - 1 = ((k - 1) \div b) * b + ((k - 1) % b)
      BY <2>1, QuotientAndRest
    <3> QED
      BY <3>1
  <2>3. y * n + x + 1 \in 1..len /\ plane[y * n + x + 1] = samples[x + 1][y + 1]
    BY <1>7
  <2>4. undone[y * n + x + 1] = samples[x + 1][y + 1]
    BY <1>11, <2>3
  <2>5. flat[x * b + y + 1] = samples[x + 1][y + 1]
    BY <1>13 DEF EvenlyFlat, flat
  <2>6. x * b + y + 1 = k
    BY <2>2
  <2> QED
    BY <2>2, <2>4, <2>5, <2>6
<1>16. UndoFloat(v, n, lag, b) = flat
  BY <1>9, <1>12, <1>14, <1>15, Zenon
<1> QED
  BY <1>1, <1>2, <1>16 DEF v, flat

-----------------------------------------------------------------------------
(* geo-common: LZW.                                                         *)

\* Powers of two grow.
LEMMA PowersOf2Grow ==
    ASSUME NEW a \in Nat, NEW b \in Nat, a <= b
    PROVE  PowerOf2(a) \in Nat \ {0} /\ PowerOf2(b) \in Nat \ {0} /\ PowerOf2(a) <= PowerOf2(b)
<1>1. \A n \in Nat : PowerOf2(n) \in Nat \ {0} /\ PowerOf2(n + 1) = 2 * PowerOf2(n)
  BY PowersOf2Double
<1> DEFINE T == {k \in 0..b : k < a \/ PowerOf2(a) <= PowerOf2(k)}
<1>2. 0 \in T
  <2>1. 0 < a \/ a = 0
    OBVIOUS
  <2>2. PowerOf2(a) <= PowerOf2(a)
    BY <1>1
  <2> QED
    BY <2>1, <2>2
<1>3. ASSUME NEW k \in 1..b, k - 1 \in T PROVE k \in T
  <2>1. PICK j \in Nat : j = k - 1 /\ k = j + 1
    OBVIOUS
  <2>2. PICK p \in Nat, q \in Nat, r \in Nat : p = PowerOf2(a) /\ q = PowerOf2(j) /\ r = PowerOf2(k) /\ r = 2 * q
    BY <1>1, <2>1
  <2>3. j < a \/ p <= q
    BY <1>3, <2>1, <2>2
  <2>4. k < a \/ k = a \/ p <= r
    BY <2>1, <2>2, <2>3
  <2>5. k = a => p = r
    BY <2>2
  <2>6. k < a \/ p <= r
    BY <2>2, <2>4, <2>5
  <2>7. k \in 0..b
    OBVIOUS
  <2>8. k < a \/ PowerOf2(a) <= PowerOf2(k)
    BY <2>2, <2>6
  <2> QED
    BY <2>7, <2>8
<1> HIDE DEF T
<1>4. b \in T
  <2>1. 0..b \subseteq T
    BY <1>2, <1>3, UpToInduction
  <2> QED
    BY <2>1
<1> QED
  BY <1>1, <1>4 DEF T

\* The first of a string.
LEMMA TakeOne ==
    ASSUME NEW S, NEW s \in Seq(S), s # <<>>
    PROVE  Take(s, 1) = <<s[1]>> /\ s[1] \in S /\ Len(s) >= 1
<1>1. Len(s) \in Nat /\ Len(s) >= 1
  OBVIOUS
<1>2. Take(s, 1) \in Seq(S) /\ Len(Take(s, 1)) = 1 /\ \A i \in 1..Len(Take(s, 1)) : Take(s, 1)[i] = s[i]
  <2>1. Lesser(1, Len(s)) = 1
    BY <1>1 DEF Lesser
  <2> QED
    BY <2>1, TakeMeans
<1>3. Take(s, 1)[1] = s[1]
  BY <1>2
<1> HIDE DEF Take
<1> QED
  BY <1>1, <1>2, <1>3

\* Where a string is first in a table.
PlaceOf(table, s) == FirstPos(table, LAMBDA x : x = s)

\* The place is a number up to the length, and of a string that the table has, its own.
LEMMA PlaceInTable ==
    ASSUME NEW S, NEW table \in Seq(S), NEW s
    PROVE  /\ PlaceOf(table, s) \in 0..Len(table)
           /\ (\E i \in 1..Len(table) : table[i] = s)
                 => PlaceOf(table, s) \in 1..Len(table) /\ table[PlaceOf(table, s)] = s
<1> DEFINE hits == {i \in DOMAIN table : table[i] = s}
           p == IF hits = {} THEN 0 ELSE Min(hits)
<1>1. Len(table) \in Nat /\ DOMAIN table = 1..Len(table)
  OBVIOUS
<1>2. PlaceOf(table, s) = p
  BY DEF FirstPos, PlaceOf
<1>3. CASE hits = {}
  BY <1>1, <1>2, <1>3
<1>4. CASE hits # {}
  <2>1. hits \in SUBSET Nat
    BY <1>1
  <2>2. p \in hits
    <3> HIDE DEF hits
    <3> QED
      BY <1>4, <2>1, MinIsLeast
  <2>3. p \in 1..Len(table) /\ table[p] = s
    BY <1>1, <2>2
  <2> HIDE DEF p
  <2> QED
    BY <1>1, <1>2, <2>3
<1> QED
  BY <1>3, <1>4

Strings == Seq(0..(Symbols - 1))

\* A writer and a reader in step: the reader's table is one entry behind, and that
\* entry is the string that the reader had last and the first of what comes next.
InStep(e, d) ==
    /\ e.table \in Seq(Strings)
    /\ Symbols + 2 <= Len(e.table) /\ Len(e.table) < PowerOf2(LastWidth) - 1
    /\ \A i \in 1..(Symbols + 2) : e.table[i] = FirstTable[i]
    /\ e.width \in FirstWidth..LastWidth /\ d.width = e.width
    /\ e.prefix \in Strings /\ e.prefix # <<>>
    /\ \E p \in 1..Len(e.table) : e.table[p] = e.prefix
    /\ d.out \in Strings /\ d.fresh \in BOOLEAN
Behind(e, d) ==
    /\ d.old \in Strings /\ d.old # <<>>
    /\ d.table \in Seq(Strings) /\ Len(d.table) + 1 = Len(e.table)
    /\ \A i \in 1..Len(d.table) : d.table[i] = e.table[i]
    /\ e.table[Len(e.table)] = d.old \o <<e.prefix[1]>>
Synced(e, d) ==
    /\ InStep(e, d)
    /\ d.fresh => d.table = e.table /\ e.table = FirstTable /\ e.width = FirstWidth
    /\ ~d.fresh => Behind(e, d)

\* What the code of a writer's string is.
LEMMA CodeIs ==
    ASSUME NEW e, NEW d, InStep(e, d)
    PROVE  \E p \in 1..Len(e.table) : /\ p - 1 # Symbols /\ e.table[p] = e.prefix
                                      /\ CodeOf(e) = [code |-> p - 1, width |-> d.width]
<1>1. e.table \in Seq(Strings) /\ Len(e.table) \in Nat
  BY DEF InStep
<1>2. PICK p : p = PlaceOf(e.table, e.prefix)
  OBVIOUS
<1>3. p \in 1..Len(e.table) /\ e.table[p] = e.prefix
  BY <1>1, <1>2, PlaceInTable DEF InStep
<1>4. CodeOf(e) = [code |-> p - 1, width |-> d.width]
  BY <1>2 DEF CodeOf, PlaceOf, InStep
<1>5. p # Symbols + 1
  <2>1. Symbols \in Nat /\ Symbols + 1 \in 1..(Symbols + 2) /\ ~(Symbols + 1 <= Symbols)
    BY CogAssumption
  <2>2. FirstTable[Symbols + 1] = <<>>
    BY <2>1 DEF FirstTable
  <2>3. e.table[Symbols + 1] = <<>> /\ e.prefix # <<>>
    BY <2>1, <2>2 DEF InStep
  <2> QED
    BY <1>3, <2>3
<1>6. p - 1 # Symbols
  BY <1>3, <1>5, CogAssumption
<1> QED
  BY <1>3, <1>4, <1>6

\* A string of symbols is not what a garbled one looks like.
LEMMA NotGarbled ==
    ASSUME NEW s \in Strings
    PROVE  s # Garbled
<1>1. SUFFICES ASSUME s = Garbled PROVE FALSE
  OBVIOUS
<1>2. s = <<Symbols>> /\ Symbols \in Nat
  BY <1>1, CogAssumption DEF Garbled
<1>3. Len(s) = 1 /\ s[1] = Symbols
  BY <1>2
<1>4. s[1] \in 0..(Symbols - 1)
  <2>1. PICK B : B = 0..(Symbols - 1)
    OBVIOUS
  <2>2. s \in Seq(B) /\ 1 \in 1..Len(s)
    BY <1>3, <2>1 DEF Strings
  <2>3. s[1] \in B
    BY <2>2
  <2> QED
    BY <2>1, <2>3
<1> QED
  BY <1>2, <1>3, <1>4

\* A reader in step reads the writer's string, and has the writer's table.
LEMMA OneCode ==
    ASSUME NEW e, NEW d, Synced(e, d)
    PROVE  LzwStep(d, CodeOf(e)) =
             [table |-> e.table, old |-> e.prefix, fresh |-> FALSE,
              width |-> IF d.fresh THEN d.width ELSE Grown(e.table, d.width),
              out |-> d.out \o e.prefix]
<1>1. InStep(e, d)
  BY DEF Synced
<1>2. PICK p \in 1..Len(e.table) : /\ p - 1 # Symbols /\ e.table[p] = e.prefix
                                   /\ CodeOf(e) = [code |-> p - 1, width |-> d.width]
  BY <1>1, CodeIs
<1>3. d.out # Garbled
  BY <1>1, NotGarbled DEF InStep
<1>4. /\ e.table \in Seq(Strings) /\ e.prefix \in Strings /\ e.prefix # <<>>
      /\ Len(e.table) \in Nat /\ d.fresh \in BOOLEAN
  BY <1>1 DEF InStep
<1>5. Take(e.prefix, 1) = <<e.prefix[1]>>
  BY <1>4, TakeOne DEF Strings
<1> DEFINE entry == IF p - 1 < Len(d.table) THEN d.table[p - 1 + 1] ELSE d.old \o Take(d.old, 1)
           table == IF d.fresh THEN d.table ELSE Append(d.table, d.old \o Take(entry, 1))
<1>6. LzwStep(d, CodeOf(e)) =
        [table |-> table, old |-> entry, fresh |-> FALSE,
         width |-> IF d.fresh THEN d.width ELSE Grown(table, d.width), out |-> d.out \o entry]
  <2>1. CodeOf(e).code = p - 1 /\ CodeOf(e).width = d.width
    BY <1>2
  <2>2. ~(d.out = Garbled \/ CodeOf(e).width # d.width) /\ ~(CodeOf(e).code = LzwClear)
    BY <1>2, <1>3, <2>1 DEF LzwClear
  <2> QED
    BY <2>1, <2>2 DEF LzwStep
<1>7. entry = e.prefix
  <2>1. CASE d.fresh
    <3>1. d.table = e.table
      BY <2>1 DEF Synced
    <3> QED
      BY <1>2, <1>4, <3>1
  <2>2. CASE ~d.fresh
    <3>1. Behind(e, d)
      BY <2>2 DEF Synced
    <3>2. Len(d.table) \in Nat /\ Len(d.table) + 1 = Len(e.table)
      BY <3>1 DEF Behind
    <3>3. CASE p - 1 < Len(d.table)
      <4>1. p \in 1..Len(d.table) /\ p - 1 + 1 = p
        BY <1>2, <1>4, <3>2, <3>3
      <4>2. d.table[p] = e.table[p]
        BY <3>1, <4>1 DEF Behind
      <4> QED
        BY <1>2, <3>3, <4>1, <4>2
    <3>4. CASE ~(p - 1 < Len(d.table))
      <4>1. p = Len(e.table)
        BY <1>2, <1>4, <3>2, <3>4
      <4>2. e.prefix = d.old \o <<e.prefix[1]>>
        BY <1>2, <3>1, <4>1 DEF Behind
      <4>3. d.old \in Seq(0..(Symbols - 1)) /\ d.old # <<>>
        BY <3>1 DEF Behind, Strings
      <4>4. Take(d.old, 1) = <<d.old[1]>> /\ Len(d.old) >= 1 /\ Len(d.old) \in Nat
        BY <4>3, TakeOne
      <4>5. (d.old \o <<e.prefix[1]>>)[1] = d.old[1]
        BY <4>3, <4>4
      <4>6. e.prefix[1] = d.old[1]
        BY <4>2, <4>5
      <4> QED
        BY <3>4, <4>2, <4>4, <4>6
    <3> QED
      BY <3>3, <3>4
  <2> QED
    BY <1>4, <2>1, <2>2
<1> HIDE DEF entry
<1>8. table = e.table
  <2>1. CASE d.fresh
    BY <2>1 DEF Synced
  <2>2. CASE ~d.fresh
    <3>1. Behind(e, d)
      BY <2>2 DEF Synced
    <3>2. PICK n \in Nat : n = Len(d.table) /\ Len(e.table) = n + 1
      BY <3>1 DEF Behind
    <3>3. table = Append(d.table, e.table[n + 1])
      BY <1>5, <1>7, <2>2, <3>1, <3>2 DEF Behind
    <3>4. d.table \in Seq(Strings) /\ e.table[n + 1] \in Strings
      BY <1>4, <3>1, <3>2 DEF Behind
    <3>5. \A i \in 1..n : d.table[i] = e.table[i]
      BY <3>1, <3>2 DEF Behind
    <3> HIDE DEF table
    <3>6. table \in Seq(Strings) /\ Len(table) = n + 1 /\ table[n + 1] = e.table[n + 1]
      BY <3>2, <3>3, <3>4
    <3>7. \A i \in 1..n : table[i] = e.table[i]
      BY <3>2, <3>3, <3>4, <3>5
    <3>8. \A i \in 1..(n + 1) : table[i] = e.table[i]
      <4>1. \A i \in 1..(n + 1) : i = n + 1 \/ i \in 1..n
        OBVIOUS
      <4> QED
        BY <3>6, <3>7, <4>1
    <3>9. table = [i \in 1..(n + 1) |-> table[i]]
      BY <3>2, <3>6
    <3>10. e.table = [i \in 1..(n + 1) |-> e.table[i]]
      BY <1>4, <3>2
    <3> QED
      BY <3>8, <3>9, <3>10
  <2> QED
    BY <1>4, <2>1, <2>2
<1> HIDE DEF table
<1> QED
  BY <1>6, <1>7, <1>8

\* The codes as read one after the other, up to state d of the reader.
ReadSoFar(codes, r) ==
    r = [n \in 0..Len(codes) |-> IF n = 0 THEN LzwStart ELSE LzwStep(r[n - 1], codes[n])]
Decoded(codes, d) == \E r : ReadSoFar(codes, r) /\ r[Len(codes)] = d
CodesWritten == [code : Int, width : Nat]

\* There is one way to read.
LEMMA DecodedIs ==
    ASSUME NEW codes \in Seq(CodesWritten), NEW d, Decoded(codes, d)
    PROVE  LzwDecode(codes) = d.out
<1> DEFINE len == Len(codes)
           Body(g) == [n \in 0..Len(codes) |-> IF n = 0 THEN LzwStart ELSE LzwStep(g[n - 1], codes[n])]
           so == CHOOSE g : g = Body(g)
<1>1. PICK r : r = Body(r) /\ r[Len(codes)] = d
  BY DEF Decoded, ReadSoFar
<1>2. LzwDecode(codes) = so[Len(codes)].out
  BY Zenon DEF LzwDecode
<1>3. so = Body(so)
  BY <1>1, Zenon
<1> HIDE DEF so
<1>4. PICK l \in Nat : l = Len(codes)
  OBVIOUS
<1>5. \A k \in 0..l : so[k] = Body(so)[k] /\ r[k] = Body(r)[k]
  BY <1>1, <1>3
<1>6. \A k \in 1..l : Body(so)[k] = LzwStep(so[k - 1], codes[k]) /\ Body(r)[k] = LzwStep(r[k - 1], codes[k])
  BY <1>4
<1>7. Body(so)[0] = LzwStart /\ Body(r)[0] = LzwStart
  BY <1>4
<1> HIDE DEF Body
<1> DEFINE T == {k \in 0..l : so[k] = r[k]}
<1>8. 0 \in T
  BY <1>5, <1>7
<1>9. \A k \in 1..l : k - 1 \in T => k \in T
  <2> SUFFICES ASSUME NEW k \in 1..l, k - 1 \in T PROVE k \in T
    OBVIOUS
  <2>1. so[k - 1] = r[k - 1] /\ k \in 0..l
    OBVIOUS
  <2>2. so[k] = LzwStep(so[k - 1], codes[k]) /\ r[k] = LzwStep(r[k - 1], codes[k])
    BY <1>5, <1>6, <2>1
  <2> QED
    BY <2>1, <2>2
<1> HIDE DEF T
<1>10. l \in T
  <2>1. 0..l \subseteq T
    BY <1>8, <1>9, UpToInduction
  <2> QED
    BY <2>1
<1>11. so[l] = r[l]
  BY <1>10 DEF T
<1> QED
  BY <1>1, <1>2, <1>4, <1>11

\* One more code is read.
LEMMA DecodedMore ==
    ASSUME NEW codes \in Seq(CodesWritten), NEW d, Decoded(codes, d), NEW item \in CodesWritten
    PROVE  Decoded(Append(codes, item), LzwStep(d, item))
<1> DEFINE more == Append(codes, item)
<1>1. PICK l \in Nat : l = Len(codes) /\ Len(more) = l + 1
  OBVIOUS
<1>2. more[l + 1] = item /\ \A k \in 1..l : more[k] = codes[k]
  BY <1>1
<1> HIDE DEF more
<1>3. PICK r : ReadSoFar(codes, r) /\ r[l] = d
  BY <1>1 DEF Decoded
<1>4. r[0] = LzwStart /\ \A k \in 1..l : r[k] = LzwStep(r[k - 1], codes[k])
  <2> DEFINE body == [n \in 0..l |-> IF n = 0 THEN LzwStart ELSE LzwStep(r[n - 1], codes[n])]
  <2>1. r = body
    BY <1>1, <1>3 DEF ReadSoFar
  <2>2. body[0] = LzwStart /\ \A k \in 1..l : body[k] = LzwStep(r[k - 1], codes[k])
    OBVIOUS
  <2> HIDE DEF body
  <2> QED
    BY <2>1, <2>2
<1> DEFINE s == [n \in 0..(l + 1) |-> IF n = l + 1 THEN LzwStep(d, item) ELSE r[n]]
           Body(g) == [n \in 0..(l + 1) |-> IF n = 0 THEN LzwStart ELSE LzwStep(g[n - 1], more[n])]
<1>5. s = [n \in 0..(l + 1) |-> s[n]] /\ Body(s) = [n \in 0..(l + 1) |-> Body(s)[n]]
  OBVIOUS
<1>6. s[l + 1] = LzwStep(d, item) /\ \A k \in 0..l : s[k] = r[k]
  OBVIOUS
<1>7. Body(s)[0] = LzwStart /\ \A k \in 1..(l + 1) : Body(s)[k] = LzwStep(s[k - 1], more[k])
  OBVIOUS
<1> HIDE DEF Body, s
<1>8. \A k \in 0..(l + 1) : s[k] = Body(s)[k]
  <2> SUFFICES ASSUME NEW k \in 0..(l + 1) PROVE s[k] = Body(s)[k]
    OBVIOUS
  <2>1. CASE k = 0
    BY <1>4, <1>6, <1>7, <2>1
  <2>2. CASE k \in 1..l
    <3>1. s[k] = r[k] /\ s[k - 1] = r[k - 1] /\ more[k] = codes[k]
      BY <1>2, <1>6, <2>2
    <3>2. r[k] = LzwStep(r[k - 1], codes[k]) /\ Body(s)[k] = LzwStep(s[k - 1], more[k])
      BY <1>4, <1>7, <2>2
    <3> QED
      BY <3>1, <3>2
  <2>3. CASE k = l + 1
    <3>1. s[k - 1] = d /\ more[k] = item
      BY <1>2, <1>3, <1>6, <2>3
    <3>2. Body(s)[k] = LzwStep(s[k - 1], more[k])
      BY <1>7, <2>3
    <3> QED
      BY <1>6, <2>3, <3>1, <3>2
  <2> QED
    BY <2>1, <2>2, <2>3
<1>9. s = Body(s)
  BY <1>5, <1>8
<1>10. ReadSoFar(more, s)
  BY <1>1, <1>9 DEF ReadSoFar, Body
<1>11. Decoded(more, LzwStep(d, item))
  BY <1>1, <1>6, <1>10 DEF Decoded
<1> QED
  BY <1>11 DEF more

\* The table that both begin with.
LEMMA FirstTableIs ==
    /\ FirstTable \in Seq(Strings) /\ Len(FirstTable) = Symbols + 2
    /\ Symbols + 3 < PowerOf2(FirstWidth) /\ Symbols + 2 < PowerOf2(LastWidth) - 1
    /\ \A symbol \in 0..(Symbols - 1) :
          /\ <<symbol>> \in Strings /\ symbol + 1 \in 1..(Symbols + 2)
          /\ FirstTable[symbol + 1] = <<symbol>>
<1>1. /\ {Symbols, FirstWidth, LastWidth} \subseteq Nat \ {0} /\ FirstWidth <= LastWidth
      /\ Symbols + 3 < PowerOf2(FirstWidth)
  BY CogAssumption
<1>2. \A i \in 1..(Symbols + 2) : FirstTable[i] \in Strings
  <2> SUFFICES ASSUME NEW i \in 1..(Symbols + 2) PROVE FirstTable[i] \in Strings
    OBVIOUS
  <2>1. CASE i <= Symbols
    <3>1. FirstTable[i] = <<i - 1>>
      BY <2>1 DEF FirstTable
    <3>2. i - 1 \in 0..(Symbols - 1)
      BY <1>1, <2>1
    <3>3. <<i - 1>> \in Seq(0..(Symbols - 1))
      BY <3>2
    <3> QED
      BY <3>1, <3>3 DEF Strings
  <2>2. CASE ~(i <= Symbols)
    <3>1. FirstTable[i] = <<>>
      BY <2>2 DEF FirstTable
    <3> QED
      BY <3>1 DEF Strings
  <2> QED
    BY <2>1, <2>2
<1>3. FirstTable \in [1..(Symbols + 2) -> Strings]
  <2>1. FirstTable = [i \in 1..(Symbols + 2) |-> FirstTable[i]]
    BY DEF FirstTable
  <2> QED
    BY <1>2, <2>1
<1>4. FirstTable \in Seq(Strings) /\ Len(FirstTable) = Symbols + 2
  <2>1. PICK n \in Nat : n = Symbols + 2
    BY <1>1
  <2>2. FirstTable \in [1..n -> Strings]
    BY <1>3, <2>1
  <2> QED
    BY <2>1, <2>2, FunctionIsSeq
<1>5. Symbols + 2 < PowerOf2(LastWidth) - 1
  <2>1. PowerOf2(FirstWidth) \in Nat /\ PowerOf2(LastWidth) \in Nat /\ PowerOf2(FirstWidth) <= PowerOf2(LastWidth)
    BY <1>1, PowersOf2Grow
  <2> QED
    BY <1>1, <2>1
<1>6. ASSUME NEW symbol \in 0..(Symbols - 1)
      PROVE  <<symbol>> \in Strings /\ symbol + 1 \in 1..(Symbols + 2) /\ FirstTable[symbol + 1] = <<symbol>>
  <2>1. symbol + 1 \in 1..(Symbols + 2) /\ symbol + 1 <= Symbols /\ symbol + 1 - 1 = symbol
    BY <1>1
  <2>2. FirstTable[symbol + 1] = <<symbol>>
    BY <2>1 DEF FirstTable
  <2> QED
    BY <1>2, <2>1, <2>2
<1> QED
  BY <1>1, <1>4, <1>5, <1>6

\* After a clear the two are in step.
LEMMA InStepAfresh ==
    ASSUME NEW e, NEW symbol \in 0..(Symbols - 1), NEW given \in Strings,
           e.table = FirstTable, e.width = FirstWidth, e.prefix = <<symbol>>
    PROVE  Synced(e, [LzwStart EXCEPT !.out = given, !.fresh = TRUE])
<1> DEFINE d == [LzwStart EXCEPT !.out = given, !.fresh = TRUE]
<1>1. d.out = given /\ d.fresh = TRUE /\ d.table = FirstTable /\ d.width = FirstWidth
  BY DEF LzwStart
<1> HIDE DEF d
<1>2. FirstWidth \in FirstWidth..LastWidth
  BY CogAssumption
<1>3. e.prefix \in Strings /\ e.prefix # <<>> /\ symbol + 1 \in 1..Len(e.table) /\ e.table[symbol + 1] = e.prefix
  BY FirstTableIs
<1>4. Symbols + 2 <= Len(e.table)
  BY CogAssumption, FirstTableIs
<1>5. InStep(e, d)
  BY <1>1, <1>2, <1>3, <1>4, FirstTableIs DEF InStep
<1>6. Synced(e, d)
  BY <1>1, <1>5 DEF Synced
<1> QED
  BY <1>6 DEF d

\* The widths of the next code are the same.
WidthOnward(e) == IF Len(e.table) + 1 = PowerOf2(e.width) THEN e.width + 1 ELSE e.width

\* The reader, one entry behind, grows its width when the writer does.
LEMMA WidthsAgree ==
    ASSUME NEW e, NEW d, Synced(e, d)
    PROVE  /\ (IF d.fresh THEN d.width ELSE Grown(e.table, d.width)) = WidthOnward(e)
           /\ WidthOnward(e) \in FirstWidth..LastWidth
<1>1. /\ e.width \in FirstWidth..LastWidth /\ d.width = e.width /\ d.fresh \in BOOLEAN
      /\ Len(e.table) \in Nat /\ Len(e.table) < PowerOf2(LastWidth) - 1
  BY DEF Synced, InStep
<1>2. {FirstWidth, LastWidth} \subseteq Nat
  BY CogAssumption
<1>3. PowerOf2(e.width) \in Nat /\ PowerOf2(LastWidth) \in Nat
  BY <1>1, <1>2, PowersOf2Grow
<1>4. Len(e.table) + 1 = PowerOf2(e.width) => e.width < LastWidth
  <2>1. e.width = LastWidth => PowerOf2(e.width) = PowerOf2(LastWidth)
    OBVIOUS
  <2> QED
    BY <1>1, <1>2, <1>3, <2>1
<1>5. WidthOnward(e) \in FirstWidth..LastWidth
  BY <1>1, <1>2, <1>4 DEF WidthOnward
<1>6. CASE d.fresh
  <2>1. e.width = FirstWidth /\ Len(e.table) = Symbols + 2
    BY <1>6, FirstTableIs DEF Synced
  <2>2. Len(e.table) + 1 < PowerOf2(e.width)
    BY <2>1, CogAssumption, FirstTableIs
  <2>3. ~(Len(e.table) + 1 = PowerOf2(e.width))
    BY <1>1, <1>3, <2>2
  <2> QED
    BY <1>1, <1>5, <1>6, <2>3 DEF WidthOnward
<1>7. CASE ~d.fresh
  <2>1. Len(e.table) = PowerOf2(e.width) - 1 <=> Len(e.table) + 1 = PowerOf2(e.width)
    BY <1>1, <1>3
  <2> QED
    BY <1>1, <1>4, <1>5, <1>7, <2>1 DEF WidthOnward, Grown
<1> QED
  BY <1>1, <1>6, <1>7

\* A code is written and read, and the two are in step again.
WritesOn(e, d) == e.codes \in Seq(CodesWritten) /\ Synced(e, d) /\ Decoded(e.codes, d)

\* A code of the writer is read as its string.
LEMMA CodeRead ==
    ASSUME NEW e, NEW d, WritesOn(e, d)
    PROVE  /\ CodeOf(e) \in CodesWritten
           /\ Append(e.codes, CodeOf(e)) \in Seq(CodesWritten)
           /\ Decoded(Append(e.codes, CodeOf(e)), LzwStep(d, CodeOf(e)))
           /\ LzwStep(d, CodeOf(e)).table = e.table
           /\ LzwStep(d, CodeOf(e)).old = e.prefix
           /\ LzwStep(d, CodeOf(e)).fresh = FALSE
           /\ LzwStep(d, CodeOf(e)).width = WidthOnward(e)
           /\ LzwStep(d, CodeOf(e)).out = d.out \o e.prefix
           /\ d.out \o e.prefix \in Strings
<1>1. Synced(e, d) /\ InStep(e, d) /\ e.codes \in Seq(CodesWritten) /\ Decoded(e.codes, d)
  BY DEF WritesOn, Synced
<1>2. CodeOf(e) \in CodesWritten
  <2>1. PICK p \in 1..Len(e.table) : CodeOf(e) = [code |-> p - 1, width |-> d.width]
    BY <1>1, CodeIs
  <2>2. p - 1 \in Int
    OBVIOUS
  <2>3. d.width \in Nat
    BY <1>1, CogAssumption DEF InStep
  <2> QED
    BY <2>1, <2>2, <2>3 DEF CodesWritten
<1>3. Append(e.codes, CodeOf(e)) \in Seq(CodesWritten)
  BY <1>1, <1>2
<1>4. Decoded(Append(e.codes, CodeOf(e)), LzwStep(d, CodeOf(e)))
  BY <1>1, <1>2, DecodedMore
<1>5. LzwStep(d, CodeOf(e)) = [table |-> e.table, old |-> e.prefix, fresh |-> FALSE,
                               width |-> WidthOnward(e), out |-> d.out \o e.prefix]
  <2>1. LzwStep(d, CodeOf(e)) =
             [table |-> e.table, old |-> e.prefix, fresh |-> FALSE,
              width |-> IF d.fresh THEN d.width ELSE Grown(e.table, d.width),
              out |-> d.out \o e.prefix]
    BY <1>1, OneCode
  <2>2. (IF d.fresh THEN d.width ELSE Grown(e.table, d.width)) = WidthOnward(e)
    BY <1>1, WidthsAgree
  <2> QED
    BY <2>1, <2>2, Zenon
<1>6. d.out \o e.prefix \in Strings
  <2>1. d.out \in Seq(0..(Symbols - 1)) /\ e.prefix \in Seq(0..(Symbols - 1))
    BY <1>1 DEF InStep, Strings
  <2>2. d.out \o e.prefix \in Seq(0..(Symbols - 1))
    BY <2>1, ConcatProperties
  <2> QED
    BY <2>2 DEF Strings
<1>7. LzwStep(d, CodeOf(e)).table = e.table
  BY <1>5
<1>8. LzwStep(d, CodeOf(e)).old = e.prefix
  BY <1>5
<1>9. LzwStep(d, CodeOf(e)).fresh = FALSE
  BY <1>5
<1>10. LzwStep(d, CodeOf(e)).width = WidthOnward(e)
  BY <1>5
<1>11. LzwStep(d, CodeOf(e)).out = d.out \o e.prefix
  <2>1. PICK read : read = d.out \o e.prefix
    OBVIOUS
  <2>2. LzwStep(d, CodeOf(e)) = [table |-> e.table, old |-> e.prefix, fresh |-> FALSE,
                                 width |-> WidthOnward(e), out |-> read]
    BY <1>5, <2>1, Zenon
  <2>3. LzwStep(d, CodeOf(e)).out = read
    BY <2>2
  <2> QED
    BY <2>1, <2>3
<1> QED
  BY <1>2, <1>3, <1>4, <1>6, <1>7, <1>8, <1>9, <1>10, <1>11

\* What a writer has after it wrote a code and the table grew, or was cleared.
WroteMore(e, symbol) ==
    [table |-> Append(e.table, Append(e.prefix, symbol)), prefix |-> <<symbol>>,
     width |-> WidthOnward(e), codes |-> Append(e.codes, CodeOf(e))]
WroteClear(e, symbol) ==
    [table |-> FirstTable, prefix |-> <<symbol>>, width |-> FirstWidth,
     codes |-> Append(Append(e.codes, CodeOf(e)), [code |-> LzwClear, width |-> WidthOnward(e)])]

\* Writing a code does one of the two.
LEMMA EmitIs ==
    ASSUME NEW e, e.table \in Seq(Strings), NEW symbol \in 0..(Symbols - 1), e.prefix \in Strings
    PROVE  /\ Append(e.prefix, symbol) \in Strings
           /\ Append(e.table, Append(e.prefix, symbol)) \in Seq(Strings)
           /\ Len(Append(e.table, Append(e.prefix, symbol))) = Len(e.table) + 1
           /\ LzwEmit(e, symbol) = IF Len(e.table) + 1 = PowerOf2(LastWidth) - 1
                                   THEN WroteClear(e, symbol) ELSE WroteMore(e, symbol)
<1>1. Append(e.prefix, symbol) \in Strings
  <2>1. e.prefix \in Seq(0..(Symbols - 1))
    BY DEF Strings
  <2>2. Append(e.prefix, symbol) \in Seq(0..(Symbols - 1))
    BY <2>1, AppendProperties
  <2> QED
    BY <2>2 DEF Strings
<1>2. /\ Append(e.table, Append(e.prefix, symbol)) \in Seq(Strings)
      /\ Len(Append(e.table, Append(e.prefix, symbol))) = Len(e.table) + 1
  BY <1>1, AppendProperties
<1>3. LzwEmit(e, symbol) = IF Len(e.table) + 1 = PowerOf2(LastWidth) - 1
                           THEN WroteClear(e, symbol) ELSE WroteMore(e, symbol)
  <2> DEFINE table == Append(e.table, Append(e.prefix, symbol))
             width == IF Len(table) = PowerOf2(e.width) THEN e.width + 1 ELSE e.width
             codes == Append(e.codes, CodeOf(e))
  <2>1. Len(table) = Len(e.table) + 1
    BY <1>2
  <2>2. LzwEmit(e, symbol) =
          IF Len(table) = PowerOf2(LastWidth) - 1
          THEN [table |-> FirstTable, prefix |-> <<symbol>>, width |-> FirstWidth,
                codes |-> Append(codes, [code |-> LzwClear, width |-> width])]
          ELSE [table |-> table, prefix |-> <<symbol>>, width |-> width, codes |-> codes]
    BY Zenon DEF LzwEmit
  <2>3. width = WidthOnward(e)
    BY <2>1, Zenon DEF WidthOnward
  <2> QED
    BY <2>1, <2>2, <2>3, Zenon DEF WroteClear, WroteMore
<1> QED
  BY <1>1, <1>2, <1>3

\* Where the table grew, the reader comes to be one entry behind again.
LEMMA GrownInStep ==
    ASSUME NEW e, NEW d, WritesOn(e, d), NEW symbol \in 0..(Symbols - 1),
           Len(e.table) + 1 # PowerOf2(LastWidth) - 1
    PROVE  WritesOn(WroteMore(e, symbol), LzwStep(d, CodeOf(e)))
<1> DEFINE e2 == WroteMore(e, symbol)
           d2 == LzwStep(d, CodeOf(e))
<1>1. /\ Append(e.codes, CodeOf(e)) \in Seq(CodesWritten) /\ Decoded(Append(e.codes, CodeOf(e)), d2)
      /\ d2.table = e.table /\ d2.old = e.prefix /\ d2.fresh = FALSE
      /\ d2.width = WidthOnward(e) /\ d2.out = d.out \o e.prefix /\ d2.out \in Strings
  <2>1. /\ Append(e.codes, CodeOf(e)) \in Seq(CodesWritten)
        /\ Decoded(Append(e.codes, CodeOf(e)), LzwStep(d, CodeOf(e)))
        /\ LzwStep(d, CodeOf(e)).table = e.table
        /\ LzwStep(d, CodeOf(e)).old = e.prefix
        /\ LzwStep(d, CodeOf(e)).fresh = FALSE
        /\ LzwStep(d, CodeOf(e)).width = WidthOnward(e)
        /\ LzwStep(d, CodeOf(e)).out = d.out \o e.prefix
        /\ d.out \o e.prefix \in Strings
    BY CodeRead
  <2> QED
    BY <2>1, Zenon
<1>2. /\ e2.table = Append(e.table, Append(e.prefix, symbol)) /\ e2.prefix = <<symbol>>
      /\ e2.width = WidthOnward(e) /\ e2.codes = Append(e.codes, CodeOf(e))
  BY DEF WroteMore
<1> HIDE DEF e2, d2
<1>3. /\ e.table \in Seq(Strings) /\ Symbols + 2 <= Len(e.table) /\ Len(e.table) < PowerOf2(LastWidth) - 1
      /\ \A i \in 1..(Symbols + 2) : e.table[i] = FirstTable[i]
      /\ e.prefix \in Strings /\ e.prefix # <<>>
  BY DEF WritesOn, Synced, InStep
<1>4. PICK n \in Nat, q \in Nat : n = Len(e.table) /\ q = PowerOf2(LastWidth)
  <2>1. LastWidth \in Nat
    BY CogAssumption
  <2>2. PowerOf2(LastWidth) \in Nat
    BY <2>1, PowersOf2Grow
  <2>3. Len(e.table) \in Nat
    BY <1>3, LenProperties
  <2> QED
    BY <2>2, <2>3
<1>5. e2.table \in Seq(Strings) /\ Len(e2.table) = n + 1
  BY <1>2, <1>3, <1>4, EmitIs
<1>6. \A i \in 1..n : e2.table[i] = e.table[i]
  <2>1. Append(e.prefix, symbol) \in Strings
    BY <1>3, EmitIs
  <2> QED
    BY <1>2, <1>3, <1>4, <2>1, AppendProperties
<1>7. e2.table[n + 1] = Append(e.prefix, symbol)
  <2>1. Append(e.prefix, symbol) \in Strings
    BY <1>3, EmitIs
  <2> QED
    BY <1>2, <1>3, <1>4, <2>1, AppendProperties
<1>8. \A i \in 1..(Symbols + 2) : i \in 1..n /\ e2.table[i] = FirstTable[i]
  <2>1. \A i \in 1..(Symbols + 2) : i \in 1..n
    BY <1>3, <1>4, CogAssumption
  <2> QED
    BY <1>3, <1>6, <2>1
<1>9. /\ <<symbol>> \in Strings /\ <<symbol>> # <<>>
      /\ symbol + 1 \in 1..(n + 1) /\ e2.table[symbol + 1] = <<symbol>>
  <2>1. symbol + 1 \in 1..(Symbols + 2) /\ FirstTable[symbol + 1] = <<symbol>> /\ <<symbol>> \in Strings
    BY FirstTableIs
  <2>2. symbol + 1 \in 1..n /\ e2.table[symbol + 1] = FirstTable[symbol + 1]
    BY <1>8, <2>1
  <2> QED
    BY <2>1, <2>2
<1>10. InStep(e2, d2)
  <2>1. Symbols + 2 <= n + 1 /\ n + 1 < q - 1
    <3>1. Symbols \in Nat /\ Symbols + 2 <= n /\ n < q - 1
      BY <1>3, <1>4, CogAssumption
    <3>2. n + 1 # q - 1
      BY <1>4
    <3> QED
      BY <3>1, <3>2
  <2>2. Symbols + 2 <= Len(e2.table) /\ Len(e2.table) < PowerOf2(LastWidth) - 1
    BY <1>4, <1>5, <2>1
  <2>3. e2.width \in FirstWidth..LastWidth /\ d2.width = e2.width
    BY <1>1, <1>2, WidthsAgree DEF WritesOn
  <2>4. \E p \in 1..Len(e2.table) : e2.table[p] = e2.prefix
    BY <1>2, <1>5, <1>9
  <2> QED
    BY <1>1, <1>2, <1>5, <1>8, <1>9, <2>2, <2>3, <2>4 DEF InStep
<1>11. Behind(e2, d2)
  <2>1. \A i \in 1..Len(d2.table) : d2.table[i] = e2.table[i]
    BY <1>1, <1>4, <1>6
  <2>2. Append(e.prefix, symbol) = e.prefix \o <<e2.prefix[1]>>
    <3>1. e2.prefix[1] = symbol
      BY <1>2
    <3>2. e.prefix \in Seq(0..(Symbols - 1))
      BY <1>3 DEF Strings
    <3>3. Append(e.prefix, symbol) = e.prefix \o <<symbol>>
      BY <3>2, AppendIsConcat
    <3> QED
      BY <3>1, <3>3
  <2>3. e2.table[Len(e2.table)] = d2.old \o <<e2.prefix[1]>>
    BY <1>1, <1>5, <1>7, <2>2
  <2>4. d2.old \in Strings /\ d2.old # <<>> /\ d2.table \in Seq(Strings) /\ Len(d2.table) + 1 = Len(e2.table)
    BY <1>1, <1>3, <1>4, <1>5
  <2> QED
    BY <2>1, <2>3, <2>4 DEF Behind
<1>12. WritesOn(e2, d2)
  BY <1>1, <1>2, <1>10, <1>11 DEF WritesOn, Synced
<1> QED
  BY <1>12 DEF e2, d2

\* Where the table was cleared, the reader reads the clear and is fresh.
LEMMA ClearedInStep ==
    ASSUME NEW e, NEW d, WritesOn(e, d), NEW symbol \in 0..(Symbols - 1)
    PROVE  \E d2 : WritesOn(WroteClear(e, symbol), d2) /\ d2.out = d.out \o e.prefix
<1> DEFINE e2 == WroteClear(e, symbol)
           d1 == LzwStep(d, CodeOf(e))
           clear == [code |-> LzwClear, width |-> WidthOnward(e)]
           d2 == LzwStep(d1, clear)
           codes == Append(e.codes, CodeOf(e))
<1>1. codes \in Seq(CodesWritten) /\ Decoded(codes, d1)
  BY CodeRead
<1>2. d1.width = WidthOnward(e) /\ d1.out = d.out \o e.prefix /\ d1.out \in Strings
  <2>1. /\ LzwStep(d, CodeOf(e)).width = WidthOnward(e)
        /\ LzwStep(d, CodeOf(e)).out = d.out \o e.prefix
        /\ d.out \o e.prefix \in Strings
    BY CodeRead
  <2> QED
    BY <2>1, Zenon
<1>3. /\ e2.table = FirstTable /\ e2.prefix = <<symbol>>
      /\ e2.width = FirstWidth /\ e2.codes = Append(codes, clear)
  BY DEF WroteClear
<1>4. clear \in CodesWritten
  <2>1. WidthOnward(e) \in Nat /\ LzwClear \in Int
    BY WidthsAgree, CogAssumption DEF WritesOn, LzwClear
  <2> QED
    BY <2>1 DEF CodesWritten
<1>5. clear.code = LzwClear /\ clear.width = d1.width
  BY <1>2
<1> HIDE DEF e2, d1, clear, codes
<1>6. e2.codes \in Seq(CodesWritten) /\ Decoded(e2.codes, d2)
  BY <1>1, <1>3, <1>4, DecodedMore, AppendProperties
<1>7. d2 = [LzwStart EXCEPT !.out = d1.out, !.fresh = TRUE]
  BY <1>2, <1>5, NotGarbled DEF LzwStep
<1>8. Synced(e2, d2)
  BY <1>2, <1>3, <1>7, InStepAfresh
<1>9. d2.out = d1.out
  BY <1>7 DEF LzwStart
<1>10. WritesOn(e2, d2) /\ d2.out = d.out \o e.prefix
  BY <1>2, <1>6, <1>8, <1>9 DEF WritesOn
<1> QED
  BY <1>10 DEF e2

Writers == [table : Seq(Strings), prefix : Strings, width : Nat, codes : Seq(CodesWritten)]

\* The first symbol: it is a string of the first table.
LEMMA BeginIs ==
    ASSUME NEW symbol \in 0..(Symbols - 1)
    PROVE  \E d : /\ WritesOn(LzwAdd(LzwBegin, symbol), d)
                  /\ d.out \o LzwAdd(LzwBegin, symbol).prefix = <<symbol>>
<1> DEFINE e == [LzwBegin EXCEPT !.prefix = <<symbol>>]
           clear == [code |-> LzwClear, width |-> FirstWidth]
           d == LzwStep(LzwStart, clear)
<1>1. LzwAdd(LzwBegin, symbol) = e
  <2>1. LzwBegin.table = FirstTable /\ LzwBegin.prefix = <<>>
    BY DEF LzwBegin
  <2>2. Append(<<>>, symbol) = <<symbol>>
    OBVIOUS
  <2>3. symbol + 1 \in 1..Len(FirstTable) /\ FirstTable[symbol + 1] = <<symbol>>
    BY FirstTableIs
  <2>4. Contains(LzwBegin.table, Append(LzwBegin.prefix, symbol))
    BY <2>1, <2>2, <2>3 DEF Contains
  <2> QED
    BY <2>1, <2>2, <2>4 DEF LzwAdd
<1>2. /\ e.table = FirstTable /\ e.prefix = <<symbol>> /\ e.width = FirstWidth
      /\ e.codes = Append(<<>>, clear)
  BY DEF LzwBegin
<1>3. clear \in CodesWritten
  BY CogAssumption DEF CodesWritten, LzwClear
<1>4. Decoded(<<>>, LzwStart)
  <2> DEFINE r == [n \in 0..0 |-> LzwStart]
  <2>1. r = [n \in 0..0 |-> IF n = 0 THEN LzwStart ELSE LzwStep(r[n - 1], <<>>[n])]
    OBVIOUS
  <2>2. r[0] = LzwStart /\ Len(<<>>) = 0
    OBVIOUS
  <2> HIDE DEF r
  <2>3. ReadSoFar(<<>>, r) /\ r[Len(<<>>)] = LzwStart
    BY <2>1, <2>2 DEF ReadSoFar
  <2> QED
    BY <2>3 DEF Decoded
<1>5. clear.code = LzwClear /\ clear.width = LzwStart.width /\ LzwStart.out = <<>>
  BY DEF LzwStart
<1> HIDE DEF e, clear, d
<1>6. <<>> \in Seq(CodesWritten) /\ <<>> \in Strings
  BY DEF Strings
<1>7. e.codes \in Seq(CodesWritten) /\ Decoded(e.codes, d)
  BY <1>2, <1>3, <1>4, <1>6, DecodedMore, AppendProperties DEF d
<1>8. d = [LzwStart EXCEPT !.out = <<>>, !.fresh = TRUE]
  BY <1>5, <1>6, NotGarbled DEF d, LzwStep
<1>9. Synced(e, d)
  BY <1>2, <1>6, <1>8, InStepAfresh
<1>10. WritesOn(e, d)
  BY <1>7, <1>9 DEF WritesOn
<1>11. d.out \o e.prefix = <<symbol>>
  <2>1. d.out = <<>>
    BY <1>8 DEF LzwStart
  <2> QED
    BY <1>2, <2>1
<1> QED
  BY <1>1, <1>10, <1>11

\* A string that the table has is extended; nothing is written.
LEMMA ExtendedInStep ==
    ASSUME NEW e \in Writers, NEW d, WritesOn(e, d), NEW symbol \in 0..(Symbols - 1),
           Contains(e.table, Append(e.prefix, symbol))
    PROVE  WritesOn([e EXCEPT !.prefix = Append(e.prefix, symbol)], d)
<1> DEFINE e2 == [e EXCEPT !.prefix = Append(e.prefix, symbol)]
<1>1. e2.table = e.table /\ e2.width = e.width /\ e2.codes = e.codes
  BY DEF Writers
<1>2. e2.prefix = Append(e.prefix, symbol)
  BY DEF Writers
<1> HIDE DEF e2
<1>3. Synced(e, d) /\ InStep(e, d) /\ e.codes \in Seq(CodesWritten) /\ Decoded(e.codes, d)
  BY DEF WritesOn, Synced
<1>4. e2.prefix \in Strings /\ e2.prefix # <<>> /\ e2.prefix[1] = e.prefix[1]
  <2>1. PICK B : B = 0..(Symbols - 1)
    OBVIOUS
  <2>2. e.prefix \in Seq(B) /\ e.prefix # <<>> /\ symbol \in B
    BY <1>3, <2>1 DEF InStep, Strings
  <2>3. e2.prefix \in Seq(B) /\ e2.prefix # <<>>
    BY <1>2, <2>2, AppendProperties
  <2>4. 1 \in 1..Len(e.prefix)
    BY <2>2
  <2>5. e2.prefix[1] = e.prefix[1]
    BY <1>2, <2>2, <2>4, AppendProperties
  <2> QED
    BY <2>1, <2>3, <2>5 DEF Strings
<1>5. \E p \in 1..Len(e2.table) : e2.table[p] = e2.prefix
  BY <1>1, <1>2 DEF Contains
<1>6. InStep(e2, d)
  BY <1>1, <1>3, <1>4, <1>5 DEF InStep
<1>7. d.fresh => d.table = e2.table /\ e2.table = FirstTable /\ e2.width = FirstWidth
  BY <1>1, <1>3 DEF Synced
<1>8. ~d.fresh => Behind(e2, d)
  <2>1. SUFFICES ASSUME ~d.fresh PROVE Behind(e2, d)
    OBVIOUS
  <2>2. Behind(e, d)
    BY <1>3, <2>1 DEF Synced
  <2> QED
    BY <1>1, <1>4, <2>2 DEF Behind
<1>9. WritesOn(e2, d)
  BY <1>1, <1>3, <1>6, <1>7, <1>8 DEF WritesOn, Synced
<1> QED
  BY <1>9 DEF e2

\* One more symbol: the reader has read, and the writer still holds, all so far.
LEMMA AddIs ==
    ASSUME NEW e \in Writers, NEW d, WritesOn(e, d), NEW symbol \in 0..(Symbols - 1)
    PROVE  \E d2 : /\ WritesOn(LzwAdd(e, symbol), d2)
                   /\ d2.out \o LzwAdd(e, symbol).prefix = Append(d.out \o e.prefix, symbol)
<1>1. PICK B : B = 0..(Symbols - 1)
  OBVIOUS
<1>2. d.out \in Seq(B) /\ e.prefix \in Seq(B) /\ symbol \in B /\ e.table \in Seq(Strings) /\ e.prefix \in Strings
  BY <1>1 DEF WritesOn, Synced, InStep, Strings
<1>3. d.out \o e.prefix \in Seq(B)
  BY <1>2, ConcatProperties
<1>4. Append(d.out \o e.prefix, symbol) = (d.out \o e.prefix) \o <<symbol>>
  BY <1>2, <1>3, AppendIsConcat
<1>5. CASE Contains(e.table, Append(e.prefix, symbol))
  <2>1. LzwAdd(e, symbol) = [e EXCEPT !.prefix = Append(e.prefix, symbol)]
    BY <1>5 DEF LzwAdd
  <2>2. LzwAdd(e, symbol).prefix = Append(e.prefix, symbol)
    BY <2>1 DEF Writers
  <2>3. WritesOn(LzwAdd(e, symbol), d)
    BY <1>5, <2>1, ExtendedInStep
  <2>4. Append(e.prefix, symbol) = e.prefix \o <<symbol>> /\ <<symbol>> \in Seq(B)
    BY <1>2, AppendIsConcat
  <2>5. d.out \o (e.prefix \o <<symbol>>) = (d.out \o e.prefix) \o <<symbol>>
    <3>1. PICK last : last = <<symbol>>
      OBVIOUS
    <3>2. PICK a, b : a = d.out /\ b = e.prefix
      OBVIOUS
    <3>3. a \in Seq(B) /\ b \in Seq(B) /\ last \in Seq(B)
      BY <1>2, <2>4, <3>1, <3>2
    <3>4. (a \o b) \o last = a \o (b \o last)
      BY <3>3, ConcatAssociative
    <3> QED
      BY <3>1, <3>2, <3>4
  <2> QED
    BY <1>4, <2>2, <2>3, <2>4, <2>5
<1>6. CASE ~Contains(e.table, Append(e.prefix, symbol))
  <2>1. LzwAdd(e, symbol) = LzwEmit(e, symbol)
    BY <1>6 DEF LzwAdd
  <2>2. CASE Len(e.table) + 1 = PowerOf2(LastWidth) - 1
    <3>1. LzwAdd(e, symbol) = WroteClear(e, symbol)
      BY <1>2, <2>1, <2>2, EmitIs
    <3>2. LzwAdd(e, symbol).prefix = <<symbol>>
      BY <3>1 DEF WroteClear
    <3>3. PICK d2 : WritesOn(WroteClear(e, symbol), d2) /\ d2.out = d.out \o e.prefix
      BY ClearedInStep
    <3> QED
      BY <1>4, <3>1, <3>2, <3>3
  <2>3. CASE ~(Len(e.table) + 1 = PowerOf2(LastWidth) - 1)
    <3>1. LzwAdd(e, symbol) = WroteMore(e, symbol)
      BY <1>2, <2>1, <2>3, EmitIs
    <3>2. LzwAdd(e, symbol).prefix = <<symbol>>
      BY <3>1 DEF WroteMore
    <3>3. WritesOn(WroteMore(e, symbol), LzwStep(d, CodeOf(e)))
      BY <2>3, GrownInStep
    <3>4. LzwStep(d, CodeOf(e)).out = d.out \o e.prefix
      <4>1. LzwStep(d, CodeOf(e)).out = d.out \o e.prefix
        BY CodeRead
      <4> QED
        BY <4>1
    <3> QED
      BY <1>4, <3>1, <3>2, <3>3, <3>4
  <2> QED
    BY <2>2, <2>3
<1> QED
  BY <1>5, <1>6

\* What the writer may have.
LEMMA WritersAre ==
    /\ LzwBegin \in Writers
    /\ \A e \in Writers, symbol \in 0..(Symbols - 1) : LzwAdd(e, symbol) \in Writers
<1>1. LzwBegin \in Writers
  <2>1. FirstTable \in Seq(Strings) /\ <<>> \in Strings /\ FirstWidth \in Nat
    BY FirstTableIs, CogAssumption DEF Strings
  <2>2. <<[code |-> LzwClear, width |-> FirstWidth]>> \in Seq(CodesWritten)
    <3>1. [code |-> LzwClear, width |-> FirstWidth] \in CodesWritten
      BY CogAssumption DEF CodesWritten, LzwClear
    <3> QED
      BY <3>1
  <2> QED
    BY <2>1, <2>2 DEF LzwBegin, Writers
<1>2. ASSUME NEW e \in Writers, NEW symbol \in 0..(Symbols - 1) PROVE LzwAdd(e, symbol) \in Writers
  <2>1. e.table \in Seq(Strings) /\ e.prefix \in Strings /\ e.width \in Nat /\ e.codes \in Seq(CodesWritten)
    BY DEF Writers
  <2>2. Append(e.prefix, symbol) \in Strings /\ Append(e.table, Append(e.prefix, symbol)) \in Seq(Strings)
    BY <2>1, EmitIs
  <2>3. [e EXCEPT !.prefix = Append(e.prefix, symbol)] \in Writers
    BY <2>2 DEF Writers
  <2>4. CodeOf(e) \in CodesWritten
    <3>1. PICK p : p = PlaceOf(e.table, e.prefix)
      OBVIOUS
    <3>2. p \in 0..Len(e.table)
      BY <2>1, <3>1, PlaceInTable
    <3>4. Len(e.table) \in Nat
      BY <2>1, LenProperties
    <3>5. p - 1 \in Int
      BY <3>2, <3>4
    <3>3. CodeOf(e) = [code |-> p - 1, width |-> e.width]
      BY <3>1 DEF CodeOf, PlaceOf
    <3> QED
      BY <2>1, <3>3, <3>5 DEF CodesWritten
  <2>5. WidthOnward(e) \in Nat
    BY <2>1 DEF WidthOnward
  <2>6. Append(e.codes, CodeOf(e)) \in Seq(CodesWritten)
    BY <2>1, <2>4, AppendProperties
  <2>7. <<symbol>> \in Strings /\ FirstTable \in Seq(Strings) /\ FirstWidth \in Nat
    BY FirstTableIs, CogAssumption
  <2>8. [code |-> LzwClear, width |-> WidthOnward(e)] \in CodesWritten
    BY <2>5, CogAssumption DEF CodesWritten, LzwClear
  <2>9. Append(Append(e.codes, CodeOf(e)), [code |-> LzwClear, width |-> WidthOnward(e)]) \in Seq(CodesWritten)
    BY <2>6, <2>8, AppendProperties
  <2>10. WroteMore(e, symbol) \in Writers
    BY <2>2, <2>5, <2>6, <2>7 DEF WroteMore, Writers
  <2>11. WroteClear(e, symbol) \in Writers
    BY <2>7, <2>9 DEF WroteClear, Writers
  <2>12. LzwEmit(e, symbol) \in Writers
    BY <2>1, <2>10, <2>11, EmitIs
  <2> QED
    BY <2>3, <2>12 DEF LzwAdd
<1> QED
  BY <1>1, <1>2

\* All that was written is read.
AllRead(e, data, k) ==
    \E d : WritesOn(e, d) /\ d.out \o e.prefix = [i \in 1..k |-> data[i]]

\* What LZW made of a row of symbols is undone, however long the row: through every
\* growth of the width, every clear of the table, and every code that the reader has not
\* entered yet (cog.py, _lzw_decode).
THEOREM LzwUndone ==
    ASSUME NEW data, DataOf(data)
    PROVE  LzwDecode(LzwEncode(data)) = data
<1> DEFINE next == [x \in Writers \X (1..Len(data)) |-> LzwAdd(x[1], data[x[2]])]
           Body(g) == [k \in 0..Len(data) |-> IF k = 0 THEN LzwBegin ELSE LzwAdd(g[k - 1], data[k])]
           so == CHOOSE g : g = Body(g)
<1>1. PICK n \in Nat : n = Len(data) /\ n # 0
  BY DEF DataOf
<1>2. \A k \in 1..n : data[k] \in 0..(Symbols - 1)
  <2>1. PICK B : B = 0..(Symbols - 1)
    OBVIOUS
  <2>2. data \in Seq(B)
    BY <2>1 DEF DataOf
  <2>3. \A k \in 1..n : data[k] \in B
    BY <1>1, <2>2
  <2> QED
    BY <2>1, <2>3
<1>3. LzwEncode(data) = Append(so[n].codes, CodeOf(so[n]))
  <2>1. LzwEncode(data) = Append(so[Len(data)].codes, CodeOf(so[Len(data)]))
    BY Zenon DEF LzwEncode
  <2> HIDE DEF so
  <2> QED
    BY <1>1, <2>1
<1>4. \A k \in 1..n : k - 1 \in 0..n /\ k \in 0..n /\ k # 0
  OBVIOUS
<1>5. /\ next \in [Writers \X (1..n) -> Writers]
      /\ \A s \in Writers, k \in 1..n : next[<<s, k>>] = LzwAdd(s, data[k])
  BY <1>1, <1>2, WritersAre
<1> HIDE DEF next
<1>6. PICK f \in [0..n -> Writers] : Recurs(f, n, LzwBegin, next)
  BY <1>5, WritersAre, RecursionUpTo
<1>7. f[0] = LzwBegin /\ \A k \in 1..n : f[k] = LzwAdd(f[k - 1], data[k])
  BY <1>4, <1>5, <1>6 DEF Recurs
<1>8. f = Body(f)
  <2>1. \A k \in 0..n : k = 0 \/ k \in 1..n
    OBVIOUS
  <2>2. \A k \in 0..n : f[k] = Body(f)[k]
    BY <1>1, <1>4, <1>7, <2>1
  <2>3. f = [k \in 0..n |-> f[k]] /\ Body(f) = [k \in 0..n |-> Body(f)[k]]
    BY <1>1, <1>6
  <2> HIDE DEF Body
  <2> QED
    BY <2>2, <2>3
<1>9. so = Body(so)
  BY <1>8, Zenon
<1> HIDE DEF so
<1>10. so[0] = LzwBegin /\ \A k \in 1..n : so[k] = LzwAdd(so[k - 1], data[k])
  <2>1. so[0] = Body(so)[0] /\ \A k \in 1..n : so[k] = Body(so)[k]
    BY <1>9
  <2>2. Body(so)[0] = LzwBegin /\ \A k \in 1..n : Body(so)[k] = LzwAdd(so[k - 1], data[k])
    BY <1>1, <1>4
  <2> HIDE DEF Body
  <2> QED
    BY <2>1, <2>2
<1> HIDE DEF Body
<1> DEFINE T == {k \in 0..n : so[k] \in Writers /\ (k # 0 => AllRead(so[k], data, k))}
<1>11. 0 \in T
  BY <1>10, WritersAre
<1>12. \A k \in 1..n : k - 1 \in T => k \in T
  <2> SUFFICES ASSUME NEW k \in 1..n, k - 1 \in T PROVE k \in T
    OBVIOUS
  <2>1. PICK e, symbol : e = so[k - 1] /\ symbol = data[k] /\ symbol \in 0..(Symbols - 1)
    BY <1>2
  <2>2. e \in Writers /\ (k - 1 # 0 => AllRead(e, data, k - 1)) /\ so[k] = LzwAdd(e, symbol)
    BY <1>10, <2>1
  <2>3. so[k] \in Writers
    BY <2>1, <2>2, WritersAre
  <2>4. CASE k = 1
    <3>1. so[k] = LzwAdd(LzwBegin, symbol)
      BY <1>10, <2>1, <2>2, <2>4
    <3>2. PICK d : WritesOn(so[k], d) /\ d.out \o so[k].prefix = <<symbol>>
      BY <2>1, <3>1, BeginIs
    <3>3. <<symbol>> = [i \in 1..k |-> data[i]]
      BY <2>1, <2>4
    <3>4. AllRead(so[k], data, k)
      BY <3>2, <3>3 DEF AllRead
    <3> QED
      BY <2>3, <3>4
  <2>5. CASE k # 1
    <3>1. PICK j \in Nat : j = k - 1 /\ k = j + 1
      OBVIOUS
    <3>2. PICK d : WritesOn(e, d) /\ d.out \o e.prefix = [i \in 1..j |-> data[i]]
      BY <2>2, <2>5, <3>1 DEF AllRead
    <3>3. PICK d2 : WritesOn(so[k], d2) /\ d2.out \o so[k].prefix = Append(d.out \o e.prefix, symbol)
      <4>1. symbol \in 0..(Symbols - 1) /\ e \in Writers /\ WritesOn(e, d)
        BY <2>1, <2>2, <3>2
      <4>2. \E d2 : /\ WritesOn(LzwAdd(e, symbol), d2)
                    /\ d2.out \o LzwAdd(e, symbol).prefix = Append(d.out \o e.prefix, symbol)
        BY <4>1, AddIs
      <4>3. so[k] = LzwAdd(e, symbol)
        BY <2>2
      <4> QED
        BY <4>2, <4>3, Zenon
    <3>4. Append([i \in 1..j |-> data[i]], symbol) = [i \in 1..k |-> data[i]]
      <4> DEFINE some == [i \in 1..j |-> data[i]]
                 more == Append(some, symbol)
      <4>1. PICK B : B = 0..(Symbols - 1)
        OBVIOUS
      <4>2. some \in [1..j -> B] /\ \A i \in 1..j : some[i] = data[i]
        BY <1>2, <3>1, <4>1
      <4> HIDE DEF some
      <4>3. some \in Seq(B) /\ Len(some) = j
        BY <4>2, FunctionIsSeq
      <4>4. /\ more \in Seq(B) /\ Len(more) = j + 1 /\ more[j + 1] = symbol
            /\ \A i \in 1..j : more[i] = some[i]
        BY <2>1, <4>1, <4>3, AppendProperties
      <4> HIDE DEF more
      <4>5. \A i \in 1..k : more[i] = data[i]
        <5>1. \A i \in 1..k : i = j + 1 \/ i \in 1..j
          BY <3>1
        <5> QED
          BY <2>1, <3>1, <4>2, <4>4, <5>1
      <4>6. more = [i \in 1..k |-> more[i]]
        BY <3>1, <4>4
      <4>7. more = [i \in 1..k |-> data[i]]
        BY <4>5, <4>6
      <4> QED
        BY <4>7 DEF more, some
    <3>5. AllRead(so[k], data, k)
      BY <3>2, <3>3, <3>4 DEF AllRead
    <3> QED
      BY <2>3, <3>5
  <2> QED
    BY <2>4, <2>5
<1> HIDE DEF T
<1>13. n \in T
  <2>1. 0..n \subseteq T
    BY <1>11, <1>12, UpToInduction
  <2> QED
    BY <2>1
<1>14. PICK d : WritesOn(so[n], d) /\ d.out \o so[n].prefix = [i \in 1..n |-> data[i]]
  BY <1>1, <1>13 DEF T, AllRead
<1>15. /\ LzwEncode(data) \in Seq(CodesWritten)
       /\ Decoded(LzwEncode(data), LzwStep(d, CodeOf(so[n])))
       /\ LzwStep(d, CodeOf(so[n])).out = d.out \o so[n].prefix
  <2>1. /\ Append(so[n].codes, CodeOf(so[n])) \in Seq(CodesWritten)
        /\ Decoded(Append(so[n].codes, CodeOf(so[n])), LzwStep(d, CodeOf(so[n])))
        /\ LzwStep(d, CodeOf(so[n])).out = d.out \o so[n].prefix
    BY <1>14, CodeRead
  <2> QED
    BY <1>3, <2>1
<1>16. LzwDecode(LzwEncode(data)) = [i \in 1..n |-> data[i]]
  BY <1>14, <1>15, DecodedIs
<1>17. data = [i \in 1..n |-> data[i]]
  BY <1>1 DEF DataOf
<1> QED
  BY <1>16, <1>17

-----------------------------------------------------------------------------
(* PixelsAreTheirOwn.                                                       *)

\* A row of numbers without sign that the horizontal predictor differenced comes back,
\* of any length, samples per pixel and width of a sample.
THEOREM RowsComeBack ==
    ASSUME NEW row, RowOf(row), row.format = "unsigned"
    PROVE  DecodeRow(Differenced(row), row) = row.values
<1>1. row.bits \in Nat
  BY DEF RowOf
<1>2. PICK n \in Nat \ {0} : n = PowerOf2(row.bits)
  BY <1>1, PowersOf2Grow
<1>3. DecodeRow(Differenced(row), row) = [i \in DOMAIN row.values |-> row.values[i]]
  BY <1>2, HorizontalUndone
<1>4. row.values = [i \in DOMAIN row.values |-> row.values[i]]
  BY DEF RowOf
<1> QED
  BY <1>3, <1>4

\* The others read nothing.
LEMMA OthersReadNothing ==
    ASSUME call'.tool \notin {"pixels", "window", "lzw", "row", "float_row"}
    PROVE  PixelsAreTheirOwn'
  BY DEF PixelsAreTheirOwn, Called

\* The five steps that PixelsAreTheirOwn speaks of.
LEMMA PixelSteps ==
    /\ ReadPixels => PixelsAreTheirOwn'
    /\ FindWindow => PixelsAreTheirOwn'
    /\ Decompress => PixelsAreTheirOwn'
    /\ UndoPredictor => PixelsAreTheirOwn'
    /\ UndoFloatPredictor => PixelsAreTheirOwn'
<1>1. ASSUME ReadPixels PROVE PixelsAreTheirOwn'
  <2>1. PICK in \in Images :
           call' = [tool |-> "pixels", in |-> in] /\ out' = ReadWindowPixels(in.m, in.win, in.band)
    BY <1>1, Zenon DEF ReadPixels, Serve
  <2>2. call'.tool = "pixels" /\ call'.in = in
    BY <2>1
  <2>3. PixelsAreRight(in, ReadWindowPixels(in.m, in.win, in.band))
    BY CallsAssumption, PixelsAlwaysRight
  <2> QED
    BY <2>1, <2>2, <2>3 DEF PixelsAreTheirOwn, Called
<1>2. ASSUME FindWindow PROVE PixelsAreTheirOwn'
  <2>1. PICK in \in Boxes :
           call' = [tool |-> "window", in |-> in] /\ out' = ResolveWindow(in.box, in.m, in.gt)
    BY <1>2, Zenon DEF FindWindow, Serve
  <2>2. call'.tool = "window" /\ call'.in = in
    BY <2>1
  <2>3. WindowIsRight(in, ResolveWindow(in.box, in.m, in.gt))
    BY CallsAssumption, WindowAlwaysRight
  <2> QED
    BY <2>1, <2>2, <2>3 DEF PixelsAreTheirOwn, Called
<1>3. ASSUME Decompress PROVE PixelsAreTheirOwn'
  <2>1. PICK data \in LzwData :
           call' = [tool |-> "lzw", in |-> data] /\ out' = LzwDecode(LzwEncode(data))
    BY <1>3, Zenon DEF Decompress, Serve
  <2>2. call'.tool = "lzw" /\ call'.in = data
    BY <2>1
  <2>3. out' = data
    BY <2>1, CallsAssumption, LzwUndone
  <2> QED
    BY <2>2, <2>3 DEF PixelsAreTheirOwn, Called
<1>4. ASSUME UndoPredictor PROVE PixelsAreTheirOwn'
  <2>1. PICK row \in Rows :
           call' = [tool |-> "row", in |-> row] /\ out' = DecodeRow(Differenced(row), row)
    BY <1>4, Zenon DEF UndoPredictor, Serve
  <2>2. call'.tool = "row" /\ call'.in = row
    BY <2>1
  <2>3. RowOf(row)
    BY CallsAssumption
  <2>4. row.format = "unsigned" => out' = row.values
    BY <2>1, <2>3, RowsComeBack
  <2> QED
    BY <2>2, <2>4 DEF PixelsAreTheirOwn, Called
<1>5. ASSUME UndoFloatPredictor PROVE PixelsAreTheirOwn'
  <2>1. PICK row \in FloatRows :
           /\ call' = [tool |-> "float_row", in |-> row]
           /\ out' = UndoFloat(FloatDifferenced(row), Len(row.samples), row.spp, Len(row.samples[1]))
    BY <1>5, Zenon DEF UndoFloatPredictor, Serve
  <2>2. call'.tool = "float_row" /\ call'.in = row
    BY <2>1
  <2>3. out' = FlattenSeq(row.samples)
    BY <2>1, CallsAssumption, FloatUndone
  <2> QED
    BY <2>2, <2>3 DEF PixelsAreTheirOwn, Called
<1> QED
  BY <1>1, <1>2, <1>3, <1>4, <1>5

\* What is read of an image (cog.py) is what was written, at its own place: each cell
\* of a window is the sample of its own pixel and band, from a tile the window meets;
\* the window of a box holds every cell whose centre is in the box; and what the
\* predictors and LZW made of rows of any length is undone.  For images, windows and
\* tiles of any size, any geotransform that can be inverted, and any symbols.
THEOREM PixelsAreAlwaysTheirOwn == CallsSpec => []PixelsAreTheirOwn
<1>1. CallsInit => PixelsAreTheirOwn
  BY DEF CallsInit, Idle, PixelsAreTheirOwn, Called
<1>2. CallsNext => PixelsAreTheirOwn'
  <2>1. CallSource => PixelsAreTheirOwn'
    BY SourceNames, OthersReadNothing DEF CallSource
  <2>2. CallImage => PixelsAreTheirOwn'
    BY ImageNames, OthersReadNothing DEF CallImage
  <2>3. CallFile => PixelsAreTheirOwn'
    BY FileNames, OthersReadNothing DEF CallFile
  <2>4. Compute => PixelsAreTheirOwn'
    BY ComputeNames, PixelSteps, OthersReadNothing DEF Compute
  <2>5. Return => PixelsAreTheirOwn'
    BY OthersReadNothing DEF Return, Idle
  <2> QED
    BY <2>1, <2>2, <2>3, <2>4, <2>5 DEF CallsNext
<1>3. PixelsAreTheirOwn /\ UNCHANGED callVars => PixelsAreTheirOwn'
  BY DEF callVars, PixelsAreTheirOwn, Called
<1> QED
  BY <1>1, <1>2, <1>3, PTL DEF CallsSpec

-----------------------------------------------------------------------------
(* geo-common: where an edge is crossed, and how often a ring is.           *)

\* Products of the smaller are smaller.
LEMMA ProductsInOrder ==
    ASSUME NEW a \in Int, NEW b \in Int, NEW c \in Nat, a <= b
    PROVE  a * c <= b * c
<1>1. PICK d \in Nat : b = a + d
  <2>1. b - a \in Nat /\ b = a + (b - a)
    OBVIOUS
  <2> QED
    BY <2>1
<1>2. b * c = a * c + d * c
  BY <1>1
<1>3. a * c \in Int /\ d * c \in Nat
  BY <1>1
<1> QED
  BY <1>2, <1>3

\* An edge that is walked the other way is crossed alike; one on a level is not crossed.
OfPlane(v) == v[1] \in Int /\ v[2] \in Int
LEMMA CrossedAlike ==
    ASSUME NEW a, NEW b, OfPlane(a), OfPlane(b), NEW x \in Int, NEW y \in Int
    PROVE  /\ Crosses(<<a, b>>, x, y) <=> Crosses(<<b, a>>, x, y)
           /\ a[2] = b[2] => ~Crosses(<<a, b>>, x, y)
<1>1. PICK a1 \in Int, a2 \in Int, b1 \in Int, b2 \in Int : a1 = a[1] /\ a2 = a[2] /\ b1 = b[1] /\ b2 = b[2]
  BY DEF OfPlane
<1> DEFINE l == (x - a1) * (b2 - a2)
           r == (b1 - a1) * (y - a2)
           k == (x - b1) * (a2 - b2)
           s == (a1 - b1) * (y - b2)
           all == (b1 - a1) * (b2 - a2)
<1>2. l \in Int /\ r \in Int /\ k \in Int /\ s \in Int /\ all \in Int
  OBVIOUS
<1>3. k = all - l
  <2>1. (x - b1) * (a2 - b2) = (b1 - a1) * (b2 - a2) - (x - a1) * (b2 - a2)
    OBVIOUS
  <2> QED
    BY <2>1
<1>4. s = all - r
  <2>1. (a1 - b1) * (y - b2) = (b1 - a1) * (b2 - a2) - (b1 - a1) * (y - a2)
    OBVIOUS
  <2> QED
    BY <2>1
<1>5. Crosses(<<a, b>>, x, y) <=> (a2 > y) # (b2 > y) /\ IF b2 - a2 > 0 THEN l < r ELSE l > r
  BY <1>1 DEF Crosses, Straddles
<1>6. Crosses(<<b, a>>, x, y) <=> (b2 > y) # (a2 > y) /\ IF a2 - b2 > 0 THEN k < s ELSE k > s
  BY <1>1 DEF Crosses, Straddles
<1> HIDE DEF l, r, k, s, all
<1>7. (a2 > y) # (b2 > y) => b2 - a2 > 0 \/ a2 - b2 > 0
  OBVIOUS
<1>8. l < r <=> k > s
  BY <1>2, <1>3, <1>4
<1>9. l > r <=> k < s
  BY <1>2, <1>3, <1>4
<1>10. b2 - a2 > 0 => ~(a2 - b2 > 0)
  OBVIOUS
<1> QED
  BY <1>1, <1>5, <1>6, <1>7, <1>8, <1>9, <1>10

\* From a point to the left of both ends an edge is crossed if it straddles; to the right
\* of both it is not.
LEMMA CrossedFromLeft ==
    ASSUME NEW a, NEW b, OfPlane(a), OfPlane(b), NEW x \in Int, NEW y \in Int
    PROVE  /\ Crosses(<<a, b>>, x, y) => Straddles(<<a, b>>, y)
           /\ x < a[1] /\ x < b[1] => (Crosses(<<a, b>>, x, y) <=> Straddles(<<a, b>>, y))
           /\ a[1] <= x /\ b[1] <= x => ~Crosses(<<a, b>>, x, y)
<1>1. PICK a1 \in Int, a2 \in Int, b1 \in Int, b2 \in Int : a1 = a[1] /\ a2 = a[2] /\ b1 = b[1] /\ b2 = b[2]
  BY DEF OfPlane
<1> DEFINE d == x - a1
           e == b1 - a1
           h == b2 - a2
           t == y - a2
<1>2. Crosses(<<a, b>>, x, y) <=> (a2 > y) # (b2 > y) /\ IF h > 0 THEN d * h < e * t ELSE d * h > e * t
  BY <1>1 DEF Crosses, Straddles
<1>3. Straddles(<<a, b>>, y) <=> (a2 > y) # (b2 > y)
  BY <1>1 DEF Straddles
<1>4. d \in Int /\ e \in Int /\ h \in Int /\ t \in Int
  OBVIOUS
<1>5. (a2 > y) # (b2 > y) => \/ h > 0 /\ 0 <= t /\ t < h
                             \/ h < 0 /\ t < 0 /\ h <= t
  OBVIOUS
<1>6. x < a1 /\ x < b1 <=> d < 0 /\ d < e
  OBVIOUS
<1>7. a1 <= x /\ b1 <= x <=> d >= 0 /\ d >= e
  OBVIOUS
<1> HIDE DEF d, e, h, t
<1>8. d * h \in Int /\ e * t \in Int /\ d * t \in Int
  BY <1>4
<1>9. ASSUME d < 0, d < e, h > 0, 0 <= t, t < h PROVE d * h < e * t
  <2>1. d * t <= e * t
    BY <1>4, <1>9, ProductsInOrder
  <2>2. d * h < d * t
    <3>1. PICK m \in Nat, g \in Nat : m = 0 - d /\ m > 0 /\ g = h - t /\ g > 0
      BY <1>4, <1>9
    <3>2. d * t - d * h = m * g
      BY <1>4, <3>1
    <3>3. m * g > 0
      BY <3>1
    <3> QED
      BY <1>8, <3>2, <3>3
  <2> QED
    BY <1>8, <2>1, <2>2
<1>10. ASSUME d < 0, d < e, h < 0, t < 0, h <= t PROVE d * h > e * t
  <2>1. PICK m \in Nat, g \in Nat, u \in Nat : m = 0 - d /\ m > 0 /\ g = 0 - h /\ u = 0 - t /\ u > 0 /\ u <= g
    BY <1>4, <1>10
  <2>2. d * h = m * g /\ e * t = (0 - e) * u /\ 0 - e < m
    BY <1>4, <1>10, <2>1
  <2>3. (0 - e) * u < m * u
    <3>1. PICK w \in Nat : m = 0 - e + w /\ w > 0
      <4>1. m + e \in Nat /\ m + e > 0 /\ m = 0 - e + (m + e)
        BY <1>4, <2>1, <2>2
      <4> QED
        BY <4>1
    <3>2. m * u = (0 - e) * u + w * u
      BY <1>4, <2>1, <3>1
    <3>3. w * u > 0 /\ (0 - e) * u \in Int /\ w * u \in Int
      BY <1>4, <2>1, <3>1
    <3> QED
      BY <3>2, <3>3
  <2>4. u * m <= g * m
    BY <2>1, ProductsInOrder
  <2>5. u * m = m * u /\ g * m = m * g /\ m * u \in Int /\ m * g \in Int /\ (0 - e) * u \in Int
    BY <1>4, <2>1
  <2> QED
    BY <1>8, <2>2, <2>3, <2>4, <2>5
<1>11. ASSUME d >= 0, d >= e, h > 0, 0 <= t, t < h PROVE ~(d * h < e * t)
  <2>1. e * t <= d * t
    BY <1>4, <1>11, ProductsInOrder
  <2>2. t * d <= h * d
    BY <1>4, <1>11, ProductsInOrder
  <2>3. t * d = d * t /\ h * d = d * h
    BY <1>4
  <2> QED
    BY <1>8, <2>1, <2>2, <2>3
<1>12. ASSUME d >= 0, d >= e, h < 0, t < 0, h <= t PROVE ~(d * h > e * t)
  <2>1. PICK g \in Nat, u \in Nat : g = 0 - h /\ u = 0 - t /\ u <= g
    BY <1>4, <1>12
  <2>2. e * u <= d * u
    BY <1>4, <1>12, <2>1, ProductsInOrder
  <2>3. u * d <= g * d
    BY <1>4, <1>12, <2>1, ProductsInOrder
  <2>4. e * t = 0 - e * u /\ d * h = 0 - d * g /\ u * d = d * u /\ g * d = d * g
    BY <1>4, <2>1
  <2>5. e * u \in Int /\ d * u \in Int /\ d * g \in Int
    BY <1>4, <2>1
  <2> QED
    BY <1>8, <2>2, <2>3, <2>4, <2>5
<1>13. Crosses(<<a, b>>, x, y) => Straddles(<<a, b>>, y)
  BY <1>2, <1>3
<1>14. ASSUME x < a1, x < b1 PROVE Crosses(<<a, b>>, x, y) <=> Straddles(<<a, b>>, y)
  <2>1. d < 0 /\ d < e
    BY <1>6, <1>14
  <2>2. h > 0 => ~(h < 0)
    BY <1>4
  <2>3. h < 0 => ~(h > 0)
    BY <1>4
  <2> QED
    BY <1>2, <1>3, <1>5, <1>9, <1>10, <2>1, <2>2, <2>3
<1>15. ASSUME a1 <= x, b1 <= x PROVE ~Crosses(<<a, b>>, x, y)
  <2>1. d >= 0 /\ d >= e
    BY <1>7, <1>15
  <2>2. h < 0 => ~(h > 0)
    BY <1>4
  <2> QED
    BY <1>2, <1>5, <1>11, <1>12, <2>1, <2>2
<1> QED
  BY <1>1, <1>13, <1>14, <1>15

\* Two sets that have no member in common have as many members together.
LEMMA ApartAdd ==
    ASSUME NEW S, NEW T, IsFiniteSet(S), IsFiniteSet(T), S \cap T = {}
    PROVE  /\ IsFiniteSet(S \cup T) /\ Cardinality(S) \in Nat /\ Cardinality(T) \in Nat
           /\ Cardinality(S \cup T) = Cardinality(S) + Cardinality(T)
<1>1. Cardinality(S) \in Nat /\ Cardinality(T) \in Nat
  BY FS_CardinalityType
<1>2. Cardinality(S \cap T) = 0
  BY FS_EmptySet
<1>3. IsFiniteSet(S \cup T)
  BY FS_Union
<1>4. Cardinality(S \cup T) = Cardinality(S) + Cardinality(T) - Cardinality(S \cap T)
  BY FS_Union
<1>5. Cardinality(S \cup T) = Cardinality(S) + Cardinality(T)
  BY <1>1, <1>2, <1>4
<1> QED
  BY <1>1, <1>3, <1>5

\* A ring of points of the plane.
RingOf(ring, m) == m \in Nat \ {0} /\ Len(ring) = m /\ DOMAIN ring = 1..m /\ \A i \in 1..m : OfPlane(ring[i])
StraddlesOf(ring, y) == {i \in DOMAIN ring : Straddles(EdgeAt(ring, i), y)}
CrossedOf(ring, p) == {i \in DOMAIN ring : Crosses(EdgeAt(ring, i), p[1], p[2])}
Above(ring, y, i) == ring[i][2] > y

\* A ring comes back to where it began: an even number of edges straddles a level.
LEMMA StraddlesAreEven ==
    ASSUME NEW ring, NEW m, RingOf(ring, m), NEW y \in Int
    PROVE  IsFiniteSet(StraddlesOf(ring, y)) /\ Cardinality(StraddlesOf(ring, y)) % 2 = 0
<1> DEFINE C(k) == {i \in 2..k : Above(ring, y, i) # Above(ring, y, i - 1)}
           T == {j \in 0..(m - 1) : Cardinality(C(j + 1)) % 2 = IF Above(ring, y, j + 1) # Above(ring, y, 1) THEN 1 ELSE 0}
<1>1. m \in Nat \ {0} /\ Len(ring) = m /\ DOMAIN ring = 1..m /\ m - 1 \in Nat
  BY DEF RingOf
<1>2. \A k \in 0..m : IsFiniteSet(C(k)) /\ Cardinality(C(k)) \in Nat
  <2> SUFFICES ASSUME NEW k \in 0..m PROVE IsFiniteSet(C(k)) /\ Cardinality(C(k)) \in Nat
    OBVIOUS
  <2>1. IsFiniteSet(2..k) /\ C(k) \in SUBSET (2..k)
    BY FS_Interval
  <2>2. IsFiniteSet(C(k))
    BY <2>1, FS_Subset
  <2> QED
    BY <2>2, FS_CardinalityType
<1>3. 0 \in T
  <2>1. C(1) = {} /\ 0 + 1 = 1
    OBVIOUS
  <2>2. Cardinality(C(0 + 1)) = 0
    BY <2>1, FS_EmptySet
  <2> HIDE DEF C
  <2>3. Cardinality(C(0 + 1)) % 2 = 0 /\ (Above(ring, y, 0 + 1) <=> Above(ring, y, 1))
    BY <2>2
  <2> QED
    BY <1>1, <2>3
<1>4. ASSUME NEW j \in 1..(m - 1), j - 1 \in T PROVE j \in T
  <2>1. PICK k \in Nat : k = j /\ k - 1 + 1 = k /\ k + 1 \in 2..m /\ k \in 0..m /\ k + 1 \in 0..m /\ k + 1 - 1 = k
    BY <1>1
  <2>2. Cardinality(C(k)) % 2 = IF Above(ring, y, k) # Above(ring, y, 1) THEN 1 ELSE 0
    BY <1>4, <2>1
  <2>3. CASE Above(ring, y, k + 1) # Above(ring, y, k)
    <3>1. C(k + 1) = C(k) \cup {k + 1} /\ k + 1 \notin C(k)
      BY <2>1, <2>3
    <3>2. Cardinality(C(k + 1)) = Cardinality(C(k)) + 1
      <4> HIDE DEF C
      <4> QED
        BY <1>2, <2>1, <3>1, FS_AddElement
    <3>3. Above(ring, y, k) \in BOOLEAN /\ Above(ring, y, k + 1) \in BOOLEAN /\ Above(ring, y, 1) \in BOOLEAN
      BY DEF Above
    <3>4. (Cardinality(C(k)) + 1) % 2 = IF Cardinality(C(k)) % 2 = 1 THEN 0 ELSE 1
      <4>1. PICK c \in Nat : c = Cardinality(C(k))
        BY <1>2, <2>1
      <4>2. (c + 1) % 2 = IF c % 2 = 1 THEN 0 ELSE 1
        OBVIOUS
      <4> QED
        BY <4>1, <4>2
    <3>5. Cardinality(C(k + 1)) % 2 = IF Above(ring, y, k + 1) # Above(ring, y, 1) THEN 1 ELSE 0
      <4> HIDE DEF C
      <4> QED
        BY <2>2, <2>3, <3>2, <3>3, <3>4
    <3> QED
      BY <1>1, <2>1, <3>5
  <2>4. CASE Above(ring, y, k + 1) = Above(ring, y, k)
    <3>1. C(k + 1) = C(k)
      BY <2>1, <2>4
    <3>2. Cardinality(C(k + 1)) % 2 = IF Above(ring, y, k + 1) # Above(ring, y, 1) THEN 1 ELSE 0
      <4> HIDE DEF C
      <4> QED
        BY <2>2, <2>4, <3>1
    <3> QED
      BY <1>1, <2>1, <3>2
  <2> QED
    BY <2>3, <2>4
<1> HIDE DEF T
<1>5. m - 1 \in T
  <2>1. 0..(m - 1) \subseteq T
    BY <1>1, <1>3, <1>4, UpToInduction
  <2> QED
    BY <1>1, <2>1
<1>6. Cardinality(C(m)) % 2 = IF Above(ring, y, m) # Above(ring, y, 1) THEN 1 ELSE 0
  <2>1. m - 1 + 1 = m
    BY <1>1
  <2> QED
    BY <1>5, <2>1 DEF T
<1>7. \A i \in 1..m : i \in StraddlesOf(ring, y) <=> IF i = 1 THEN Above(ring, y, 1) # Above(ring, y, m)
                                                   ELSE i \in C(m)
  <2> SUFFICES ASSUME NEW i \in 1..m
               PROVE  i \in StraddlesOf(ring, y) <=> IF i = 1 THEN Above(ring, y, 1) # Above(ring, y, m)
                                                     ELSE i \in C(m)
    OBVIOUS
  <2>1. i \in StraddlesOf(ring, y) <=> Straddles(EdgeAt(ring, i), y)
    BY <1>1 DEF StraddlesOf
  <2>2. CASE i = 1
    BY <1>1, <2>1, <2>2 DEF EdgeAt, Straddles, Above
  <2>3. CASE i # 1
    <3>1. i \in 2..m
      BY <2>3
    <3>2. i \in C(m) <=> Above(ring, y, i) # Above(ring, y, i - 1)
      BY <3>1
    <3> QED
      BY <1>1, <2>1, <2>3, <3>2 DEF EdgeAt, Straddles, Above
  <2> QED
    BY <2>2, <2>3
<1>8. C(m) \subseteq 2..m /\ StraddlesOf(ring, y) \subseteq 1..m
  BY <1>1 DEF StraddlesOf
<1>9. IsFiniteSet(C(m)) /\ Cardinality(C(m)) \in Nat
  BY <1>1, <1>2
<1>10. Above(ring, y, 1) \in BOOLEAN /\ Above(ring, y, m) \in BOOLEAN
  BY DEF Above
<1> HIDE DEF C
<1>11. CASE Above(ring, y, 1) = Above(ring, y, m)
  <2>1. \A i \in StraddlesOf(ring, y) : i \in C(m)
    BY <1>7, <1>8, <1>11
  <2>2. \A i \in C(m) : i \in StraddlesOf(ring, y)
    <3>1. \A i \in 2..m : i \in 1..m /\ i # 1
      OBVIOUS
    <3> QED
      BY <1>7, <1>8, <3>1
  <2>3. StraddlesOf(ring, y) = C(m)
    BY <2>1, <2>2
  <2> QED
    BY <1>6, <1>9, <1>11, <2>3
<1>12. CASE Above(ring, y, 1) # Above(ring, y, m)
  <2>1. \A i \in StraddlesOf(ring, y) : i \in C(m) \cup {1}
    BY <1>7, <1>8
  <2>2. \A i \in C(m) \cup {1} : i \in StraddlesOf(ring, y)
    <3>1. \A i \in 2..m : i \in 1..m /\ i # 1
      OBVIOUS
    <3>2. 1 \in 1..m
      BY <1>1
    <3> QED
      BY <1>7, <1>8, <1>12, <3>1, <3>2
  <2>3. StraddlesOf(ring, y) = C(m) \cup {1}
    BY <2>1, <2>2
  <2>4. 1 \notin C(m)
    BY <1>8
  <2>5. IsFiniteSet(StraddlesOf(ring, y)) /\ Cardinality(StraddlesOf(ring, y)) = Cardinality(C(m)) + 1
    BY <1>9, <2>3, <2>4, FS_AddElement
  <2>6. Cardinality(C(m)) % 2 = 1
    BY <1>6, <1>10, <1>12
  <2>7. (Cardinality(C(m)) + 1) % 2 = 0
    <3>1. PICK c \in Nat : c = Cardinality(C(m)) /\ c % 2 = 1
      BY <1>9, <2>6
    <3>2. (c + 1) % 2 = 0
      BY <3>1
    <3> QED
      BY <3>1, <3>2
  <2> QED
    BY <2>5, <2>7
<1> QED
  BY <1>10, <1>11, <1>12

\* The vertices of a ring lie in a rectangle, and a point in its half-open inside.
RingInBox(ring, m, low, high) ==
    /\ RingOf(ring, m) /\ OfPlane(low) /\ OfPlane(high)
    /\ \A i \in 1..m : /\ low[1] <= ring[i][1] /\ ring[i][1] <= high[1]
                       /\ low[2] <= ring[i][2] /\ ring[i][2] <= high[2]
InsideOf(low, high, p) == low[1] <= p[1] /\ p[1] < high[1] /\ low[2] <= p[2] /\ p[2] < high[2]

\* The ends of an edge of a ring are vertices of it.
LEMMA EdgeEnds ==
    ASSUME NEW ring, NEW m, RingOf(ring, m), NEW i \in 1..m
    PROVE  \E j \in 1..m : EdgeAt(ring, i) = <<ring[i], ring[j]>>
<1>1. m \in Nat \ {0} /\ Len(ring) = m
  BY DEF RingOf
<1>2. CASE i = 1
  <2>1. EdgeAt(ring, i) = <<ring[i], ring[m]>> /\ m \in 1..m
    BY <1>1, <1>2 DEF EdgeAt
  <2> QED
    BY <2>1
<1>3. CASE i # 1
  <2>1. EdgeAt(ring, i) = <<ring[i], ring[i - 1]>> /\ i - 1 \in 1..m
    BY <1>1, <1>3 DEF EdgeAt
  <2> QED
    BY <2>1
<1> QED
  BY <1>2, <1>3

\* A point that a ring contains is inside every rectangle that the ring is in.
LEMMA ContainedInBox ==
    ASSUME NEW ring, NEW m, NEW low, NEW high, RingInBox(ring, m, low, high),
           NEW p, OfPlane(p), RingContains(ring, p)
    PROVE  InsideOf(low, high, p)
<1>1. RingOf(ring, m) /\ DOMAIN ring = 1..m /\ \A i \in 1..m : OfPlane(ring[i])
  BY DEF RingInBox, RingOf
<1>2. PICK x \in Int, y \in Int : x = p[1] /\ y = p[2]
  BY DEF OfPlane
<1>3. Cardinality(CrossedOf(ring, p)) % 2 = 1
  BY DEF RingContains, CrossedOf
<1>4. PICK i \in 1..m : Crosses(EdgeAt(ring, i), x, y)
  <2>1. CrossedOf(ring, p) # {}
    <3>1. Cardinality({}) % 2 = 0
      BY FS_EmptySet
    <3> QED
      BY <1>3, <3>1
  <2> QED
    BY <1>1, <1>2, <2>1 DEF CrossedOf
<1>5. PICK j \in 1..m : EdgeAt(ring, i) = <<ring[i], ring[j]>>
  BY <1>1, EdgeEnds
<1>6. PICK a, b : a = ring[i] /\ b = ring[j] /\ OfPlane(a) /\ OfPlane(b)
  BY <1>1
<1>7. /\ low[1] <= a[1] /\ a[1] <= high[1] /\ low[2] <= a[2] /\ a[2] <= high[2]
      /\ low[1] <= b[1] /\ b[1] <= high[1] /\ low[2] <= b[2] /\ b[2] <= high[2]
  BY <1>6 DEF RingInBox
<1>8. OfPlane(low) /\ OfPlane(high)
  BY DEF RingInBox
<1>9. Crosses(<<a, b>>, x, y)
  BY <1>4, <1>5, <1>6
<1>10. low[2] <= y /\ y < high[2]
  <2>1. Straddles(<<a, b>>, y)
    BY <1>6, <1>9, CrossedFromLeft
  <2>2. (a[2] > y) # (b[2] > y)
    BY <2>1 DEF Straddles
  <2> QED
    BY <1>6, <1>7, <1>8, <2>2 DEF OfPlane
<1>11. x < high[1]
  <2>1. ~(a[1] <= x /\ b[1] <= x)
    BY <1>6, <1>9, CrossedFromLeft
  <2> QED
    BY <1>6, <1>7, <1>8, <2>1 DEF OfPlane
<1>12. low[1] <= x
  <2>1. SUFFICES ASSUME x < low[1] PROVE FALSE
    BY <1>8 DEF OfPlane
  <2>2. ASSUME NEW k \in 1..m PROVE Crosses(EdgeAt(ring, k), x, y) <=> Straddles(EdgeAt(ring, k), y)
    <3>1. PICK l \in 1..m : EdgeAt(ring, k) = <<ring[k], ring[l]>>
      BY <1>1, EdgeEnds
    <3>2. PICK c, d : c = ring[k] /\ d = ring[l] /\ OfPlane(c) /\ OfPlane(d)
      BY <1>1
    <3>3. low[1] <= c[1] /\ low[1] <= d[1]
      BY <3>2 DEF RingInBox
    <3>4. x < c[1] /\ x < d[1]
      BY <1>8, <2>1, <3>2, <3>3 DEF OfPlane
    <3>5. Crosses(<<c, d>>, x, y) <=> Straddles(<<c, d>>, y)
      BY <3>2, <3>4, CrossedFromLeft
    <3> QED
      BY <3>1, <3>2, <3>5
  <2>3. CrossedOf(ring, p) = StraddlesOf(ring, y)
    BY <1>1, <1>2, <2>2 DEF CrossedOf, StraddlesOf
  <2>4. Cardinality(StraddlesOf(ring, y)) % 2 = 0
    BY <1>1, StraddlesAreEven
  <2> QED
    BY <1>3, <2>3, <2>4
<1> QED
  BY <1>2, <1>10, <1>11, <1>12 DEF InsideOf

\* A side of a rectangle that stands is crossed from its left, at its heights.
LEMMA StandingSide ==
    ASSUME NEW a, NEW b, OfPlane(a), OfPlane(b), a[1] = b[1], a[2] <= b[2], NEW x \in Int, NEW y \in Int
    PROVE  /\ Crosses(<<a, b>>, x, y) <=> x < a[1] /\ a[2] <= y /\ y < b[2]
           /\ Crosses(<<b, a>>, x, y) <=> x < a[1] /\ a[2] <= y /\ y < b[2]
<1>1. PICK c \in Int, l \in Int, h \in Int : c = a[1] /\ c = b[1] /\ l = a[2] /\ h = b[2] /\ l <= h
  BY DEF OfPlane
<1>2. Straddles(<<a, b>>, y) <=> l <= y /\ y < h
  BY <1>1 DEF Straddles
<1>3. Crosses(<<a, b>>, x, y) <=> x < c /\ l <= y /\ y < h
  <2>1. CASE x < c
    <3>1. x < a[1] /\ x < b[1]
      BY <1>1, <2>1
    <3> QED
      BY <1>2, <2>1, <3>1, CrossedFromLeft
  <2>2. CASE ~(x < c)
    <3>1. a[1] <= x /\ b[1] <= x
      BY <1>1, <2>2
    <3> QED
      BY <2>2, <3>1, CrossedFromLeft
  <2> QED
    BY <2>1, <2>2
<1>4. Crosses(<<b, a>>, x, y) <=> Crosses(<<a, b>>, x, y)
  BY CrossedAlike
<1> QED
  BY <1>1, <1>3, <1>4

\* Members of a small set of places.
OneOf(S, i, c) == S = IF c THEN {i} ELSE {}
LEMMA OneOrNone ==
    ASSUME NEW i, NEW c \in BOOLEAN, NEW S, OneOf(S, i, c)
    PROVE  IsFiniteSet(S) /\ Cardinality(S) = IF c THEN 1 ELSE 0
<1>1. c => S = {i}
  BY DEF OneOf
<1>2. ~c => S = {}
  BY DEF OneOf
<1>3. CASE c
  <2>1. IsFiniteSet({i}) /\ Cardinality({i}) = 1
    BY FS_Singleton
  <2> QED
    BY <1>1, <1>3, <2>1
<1>4. CASE ~c
  BY <1>2, <1>4, FS_EmptySet
<1> QED
  BY <1>3, <1>4

\* A frame contains its half-open inside.
LEMMA FrameHolds ==
    ASSUME NEW low, NEW high, OfPlane(low), OfPlane(high), low[1] <= high[1], low[2] <= high[2],
           low \in Int \X Int, high \in Int \X Int, NEW p, OfPlane(p)
    PROVE  /\ RingContains(FrameOf(low, high), p) <=> InsideOf(low, high, p)
           /\ RingInBox(FrameOf(low, high), 4, low, high)
<1> DEFINE ring == FrameOf(low, high)
           sw == <<low[1], high[2]>>
           ne == <<high[1], low[2]>>
           W == low[2] <= p[2] /\ p[2] < high[2]
<1>1. PICK x \in Int, y \in Int : x = p[1] /\ y = p[2]
  BY DEF OfPlane
<1>2. /\ ring[1] = low /\ ring[2] = ne /\ ring[3] = high /\ ring[4] = sw
      /\ Len(ring) = 4 /\ DOMAIN ring = 1..4
  BY DEF FrameOf
<1>3. /\ ne[1] = high[1] /\ ne[2] = low[2] /\ sw[1] = low[1] /\ sw[2] = high[2]
      /\ OfPlane(ne) /\ OfPlane(sw)
  BY DEF OfPlane
<1> HIDE DEF ring, sw, ne
<1>4. /\ EdgeAt(ring, 1) = <<low, sw>> /\ EdgeAt(ring, 2) = <<ne, low>>
      /\ EdgeAt(ring, 3) = <<high, ne>> /\ EdgeAt(ring, 4) = <<sw, high>>
  BY <1>2 DEF EdgeAt
<1>5. Crosses(<<low, sw>>, x, y) <=> x < low[1] /\ W
  <2>1. Crosses(<<low, sw>>, x, y) <=> x < low[1] /\ low[2] <= y /\ y < sw[2]
    BY <1>3, StandingSide
  <2> QED
    BY <1>1, <1>3, <2>1
<1>6. Crosses(<<high, ne>>, x, y) <=> x < high[1] /\ W
  <2>1. Crosses(<<high, ne>>, x, y) <=> x < ne[1] /\ ne[2] <= y /\ y < high[2]
    BY <1>3, StandingSide
  <2> QED
    BY <1>1, <1>3, <2>1
<1>7. ~Crosses(<<ne, low>>, x, y) /\ ~Crosses(<<sw, high>>, x, y)
  BY <1>3, CrossedAlike
<1>8. \A i \in 1..4 : i = 1 \/ i = 2 \/ i = 3 \/ i = 4
  OBVIOUS
<1>9. CrossedOf(ring, p) = {i \in {1, 3} : (i = 1 /\ x < low[1] /\ W) \/ (i = 3 /\ x < high[1] /\ W)}
  <2>1. \A i \in 1..4 : i \in CrossedOf(ring, p) <=> (i = 1 /\ x < low[1] /\ W) \/ (i = 3 /\ x < high[1] /\ W)
    BY <1>1, <1>2, <1>4, <1>5, <1>6, <1>7, <1>8 DEF CrossedOf
  <2>2. CrossedOf(ring, p) \subseteq 1..4 /\ {1, 3} \subseteq 1..4
    BY <1>2 DEF CrossedOf
  <2> QED
    BY <2>1, <2>2
<1>16. InsideOf(low, high, p) <=> ~(x < low[1]) /\ x < high[1] /\ W
  BY <1>1 DEF InsideOf, OfPlane
<1>17. x < low[1] => x < high[1]
  BY DEF OfPlane
<1> HIDE DEF W
<1>10. IsFiniteSet({1}) /\ Cardinality({1}) = 1
  BY FS_Singleton
<1>11. ASSUME x < low[1] /\ W PROVE RingContains(ring, p) <=> InsideOf(low, high, p)
  <2>1. x < high[1]
    BY <1>11 DEF OfPlane
  <2>2. CrossedOf(ring, p) = {1} \cup {3} /\ 3 \notin {1}
    BY <1>9, <1>11, <2>1
  <2>3. Cardinality(CrossedOf(ring, p)) = 2
    BY <1>10, <2>2, FS_AddElement
  <2>4. ~RingContains(ring, p)
    BY <2>3 DEF RingContains, CrossedOf
  <2> QED
    BY <1>11, <1>16, <2>4
<1>12. ASSUME ~(x < low[1]) /\ x < high[1] /\ W
       PROVE  RingContains(ring, p) <=> InsideOf(low, high, p)
  <2>1. CrossedOf(ring, p) = {3}
    BY <1>9, <1>12
  <2>2. Cardinality(CrossedOf(ring, p)) = 1
    BY <2>1, FS_Singleton
  <2>3. RingContains(ring, p)
    BY <2>2 DEF RingContains, CrossedOf
  <2> QED
    BY <1>12, <1>16, <2>3
<1>13. ASSUME ~W \/ ~(x < high[1]) PROVE RingContains(ring, p) <=> InsideOf(low, high, p)
  <2>1. ~(x < high[1]) => ~(x < low[1])
    BY DEF OfPlane
  <2>2. CrossedOf(ring, p) = {}
    BY <1>9, <1>13, <2>1
  <2>3. Cardinality(CrossedOf(ring, p)) = 0
    BY <2>2, FS_EmptySet
  <2>4. ~RingContains(ring, p)
    BY <2>3 DEF RingContains, CrossedOf
  <2> QED
    BY <1>13, <1>16, <2>4
<1>14. RingContains(ring, p) <=> InsideOf(low, high, p)
  BY <1>11, <1>12, <1>13
<1>15. RingInBox(ring, 4, low, high)
  <2>1. RingOf(ring, 4)
    BY <1>2, <1>3, <1>8 DEF RingOf
  <2>2. ASSUME NEW i \in 1..4
        PROVE  /\ low[1] <= ring[i][1] /\ ring[i][1] <= high[1]
               /\ low[2] <= ring[i][2] /\ ring[i][2] <= high[2]
    BY <1>2, <1>3, <1>8 DEF OfPlane
  <2> QED
    BY <2>1, <2>2 DEF RingInBox
<1> QED
  BY <1>14, <1>15 DEF ring

-----------------------------------------------------------------------------
(* geo-common: zones that share out a frame.                                *)

\* A ring of a split lies in the frame.
LEMMA RingIsInBox ==
    ASSUME NEW ring, NEW low, NEW high, low \in Int \X Int, high \in Int \X Int, RingWithin(ring, low, high)
    PROVE  RingInBox(ring, Len(ring), low, high)
<1>1. PICK m \in Nat \ {0} : m = Len(ring)
  BY DEF RingWithin
<1>2. ring \in [1..m -> (low[1]..high[1]) \X (low[2]..high[2])]
  BY <1>1 DEF RingWithin
<1>3. low[1] \in Int /\ low[2] \in Int /\ high[1] \in Int /\ high[2] \in Int
  OBVIOUS
<1>4. ASSUME NEW i \in 1..m
      PROVE  /\ OfPlane(ring[i]) /\ low[1] <= ring[i][1] /\ ring[i][1] <= high[1]
             /\ low[2] <= ring[i][2] /\ ring[i][2] <= high[2]
  <2>1. ring[i] \in (low[1]..high[1]) \X (low[2]..high[2])
    BY <1>2
  <2>2. ring[i][1] \in low[1]..high[1] /\ ring[i][2] \in low[2]..high[2]
    BY <2>1
  <2> QED
    BY <1>3, <2>2 DEF OfPlane
<1>5. DOMAIN ring = 1..m
  BY <1>2
<1> QED
  BY <1>1, <1>3, <1>4, <1>5 DEF RingInBox, RingOf, OfPlane

\* An edge on a level is not crossed.
LEMMA LevelEdge ==
    ASSUME NEW a, NEW b, OfPlane(a), OfPlane(b), NEW h, h = a[2], h = b[2], NEW x \in Int, NEW y \in Int
    PROVE  ~Crosses(<<a, b>>, x, y)
<1>1. a[2] = b[2]
  OBVIOUS
<1>2. a[2] = b[2] => ~Crosses(<<a, b>>, x, y)
  BY CrossedAlike
<1> QED
  BY <1>1, <1>2

\* The border of a cut: its edges as the zone on the left has them.
BorderCrossed(left, p) ==
    {j \in 3..(Len(left) - 1) : Crosses(<<left[j], left[j - 1]>>, p[1], p[2])}

\* The other edges of the zone on the left are to the left of the point, or level.
LEMMA LeftOfCut ==
    ASSUME NEW left, NEW right, NEW low, NEW high, low \in Int \X Int, high \in Int \X Int,
           low[2] <= high[2], CutOf(left, right, low, high), NEW p, OfPlane(p), InsideOf(low, high, p)
    PROVE  CrossedOf(left, p) = BorderCrossed(left, p)
<1>1. PICK n \in Nat : n = Len(left) /\ n >= 4
  BY DEF CutOf, RingWithin
<1>2. RingInBox(left, n, low, high)
  BY <1>1, RingIsInBox DEF CutOf
<1>3. DOMAIN left = 1..n /\ \A i \in 1..n : OfPlane(left[i])
  BY <1>2 DEF RingInBox, RingOf
<1>4. PICK x \in Int, y \in Int : x = p[1] /\ y = p[2]
  BY DEF OfPlane
<1>5. PICK nw : nw = <<low[1], high[2]>>
  OBVIOUS
<1>6. /\ left[1] = low /\ left[n] = nw /\ left[2][2] = low[2] /\ left[n - 1][2] = high[2]
  BY <1>1, <1>5 DEF CutOf
<1>7. OfPlane(low) /\ OfPlane(nw) /\ nw[1] = low[1] /\ nw[2] = high[2]
  BY <1>5 DEF OfPlane
<1>8. ~Crosses(EdgeAt(left, 1), x, y)
  <2>1. EdgeAt(left, 1) = <<low, nw>>
    BY <1>1, <1>6 DEF EdgeAt
  <2>2. Crosses(<<low, nw>>, x, y) <=> x < low[1] /\ low[2] <= y /\ y < nw[2]
    BY <1>7, StandingSide
  <2>3. ~(x < low[1])
    BY <1>4 DEF InsideOf
  <2> QED
    BY <2>1, <2>2, <2>3
<1>9. \A i \in 2..n : EdgeAt(left, i) = <<left[i], left[i - 1]>>
  BY DEF EdgeAt
<1>10. ~Crosses(EdgeAt(left, 2), x, y)
  <2>1. EdgeAt(left, 2) = <<left[2], low>>
    BY <1>1, <1>6, <1>9
  <2>2. PICK v : v = left[2] /\ OfPlane(v) /\ v[2] = low[2]
    BY <1>1, <1>3, <1>6
  <2>3. ~Crosses(<<v, low>>, x, y)
    BY <1>7, <2>2, LevelEdge
  <2> QED
    BY <2>1, <2>2, <2>3
<1>11. ~Crosses(EdgeAt(left, n), x, y)
  <2>1. EdgeAt(left, n) = <<nw, left[n - 1]>>
    BY <1>1, <1>6, <1>9
  <2>2. PICK v : v = left[n - 1] /\ OfPlane(v) /\ v[2] = high[2]
    BY <1>1, <1>3, <1>6
  <2>3. ~Crosses(<<nw, v>>, x, y)
    BY <1>7, <2>2, LevelEdge
  <2> QED
    BY <2>1, <2>2, <2>3
<1>12. ASSUME NEW i \in 1..n
       PROVE  Crosses(EdgeAt(left, i), x, y) <=> i \in BorderCrossed(left, p)
  <2>1. i = 1 \/ i = 2 \/ i = n \/ i \in 3..(n - 1)
    BY <1>1
  <2>2. i \in 3..(n - 1) => i \in 2..n
    BY <1>1
  <2>3. i = 1 \/ i = 2 \/ i = n => i \notin 3..(n - 1)
    BY <1>1
  <2> QED
    BY <1>1, <1>4, <1>8, <1>9, <1>10, <1>11, <2>1, <2>2, <2>3 DEF BorderCrossed
<1>13. BorderCrossed(left, p) \subseteq 1..n
  BY <1>1 DEF BorderCrossed
<1>14. CrossedOf(left, p) = {i \in 1..n : Crosses(EdgeAt(left, i), x, y)}
  BY <1>3, <1>4 DEF CrossedOf
<1> QED
  BY <1>12, <1>13, <1>14

\* The zone on the right has the border the other way round, and the far side.
FarPlace(n, j) == IF j = 3 THEN 1 ELSE n + 4 - j
LEMMA RightOfCut ==
    ASSUME NEW left, NEW right, NEW low, NEW high, low \in Int \X Int, high \in Int \X Int,
           low[2] <= high[2], CutOf(left, right, low, high), NEW p, OfPlane(p), InsideOf(low, high, p)
    PROVE  CrossedOf(right, p) = {FarPlace(Len(left), j) : j \in BorderCrossed(left, p)} \cup {3}
<1>1. PICK n \in Nat : n = Len(left) /\ n >= 4 /\ n = Len(right)
  BY DEF CutOf, RingWithin
<1>2. RingInBox(left, n, low, high) /\ RingInBox(right, n, low, high)
  BY <1>1, RingIsInBox DEF CutOf
<1>3. /\ DOMAIN right = 1..n /\ \A i \in 1..n : OfPlane(right[i]) /\ OfPlane(left[i])
  BY <1>2 DEF RingInBox, RingOf
<1>4. PICK x \in Int, y \in Int : x = p[1] /\ y = p[2]
  BY DEF OfPlane
<1>5. PICK se : se = <<high[1], low[2]>>
  OBVIOUS
<1>6. right[1] = left[2] /\ right[2] = se /\ right[3] = high /\ left[2][2] = low[2] /\ left[n - 1][2] = high[2]
  BY <1>1, <1>5 DEF CutOf
<1>7. \A i \in 4..n : right[i] = left[n + 3 - i]
  BY <1>1 DEF CutOf
<1>8. OfPlane(high) /\ OfPlane(se) /\ se[1] = high[1] /\ se[2] = low[2]
  BY <1>5 DEF OfPlane
<1>9. \A i \in 2..n : EdgeAt(right, i) = <<right[i], right[i - 1]>>
  BY DEF EdgeAt
<1>10. BorderCrossed(left, p) = {j \in 3..(n - 1) : Crosses(<<left[j], left[j - 1]>>, x, y)}
  BY <1>1, <1>4 DEF BorderCrossed
<1>11. \A j \in 3..(n - 1) : /\ j \in BorderCrossed(left, p) <=> Crosses(<<left[j - 1], left[j]>>, x, y)
  <2> SUFFICES ASSUME NEW j \in 3..(n - 1)
               PROVE  j \in BorderCrossed(left, p) <=> Crosses(<<left[j - 1], left[j]>>, x, y)
    OBVIOUS
  <2>1. j \in 1..n /\ j - 1 \in 1..n
    OBVIOUS
  <2>2. OfPlane(left[j]) /\ OfPlane(left[j - 1])
    BY <1>3, <2>1
  <2>3. Crosses(<<left[j], left[j - 1]>>, x, y) <=> Crosses(<<left[j - 1], left[j]>>, x, y)
    BY <2>2, CrossedAlike
  <2> QED
    BY <1>10, <2>3
<1>12. Crosses(EdgeAt(right, 1), x, y) <=> 3 \in BorderCrossed(left, p)
  <2>1. n \in 4..n /\ n + 3 - n = 3 /\ 3 \in 3..(n - 1) /\ 3 - 1 = 2
    BY <1>1
  <2>2. right[n] = left[3]
    BY <1>7, <2>1
  <2>3. EdgeAt(right, 1) = <<left[2], left[3]>>
    BY <1>1, <1>6, <2>2 DEF EdgeAt
  <2>4. 3 \in BorderCrossed(left, p) <=> Crosses(<<left[2], left[3]>>, x, y)
    BY <1>11, <2>1
  <2> QED
    BY <2>3, <2>4
<1>13. ~Crosses(EdgeAt(right, 2), x, y)
  <2>1. EdgeAt(right, 2) = <<se, left[2]>>
    BY <1>1, <1>6, <1>9
  <2>2. PICK v : v = left[2] /\ OfPlane(v) /\ v[2] = low[2]
    BY <1>1, <1>3, <1>6
  <2>3. ~Crosses(<<se, v>>, x, y)
    BY <1>8, <2>2, LevelEdge
  <2> QED
    BY <2>1, <2>2, <2>3
<1>14. Crosses(EdgeAt(right, 3), x, y)
  <2>1. EdgeAt(right, 3) = <<high, se>>
    BY <1>1, <1>6, <1>9
  <2>2. Crosses(<<high, se>>, x, y) <=> x < se[1] /\ se[2] <= y /\ y < high[2]
    BY <1>8, StandingSide
  <2>3. x < se[1] /\ se[2] <= y /\ y < high[2]
    BY <1>4, <1>8 DEF InsideOf
  <2> QED
    BY <2>1, <2>2, <2>3
<1>15. ~Crosses(EdgeAt(right, 4), x, y)
  <2>1. 4 \in 4..n /\ n + 3 - 4 = n - 1 /\ n - 1 \in 1..n /\ 4 \in 2..n /\ 4 - 1 = 3
    BY <1>1
  <2>2. right[4] = left[n - 1] /\ OfPlane(left[n - 1])
    BY <1>3, <1>7, <2>1
  <2>3. EdgeAt(right, 4) = <<left[n - 1], high>>
    BY <1>6, <1>9, <2>1, <2>2
  <2>4. PICK v : v = left[n - 1] /\ OfPlane(v) /\ v[2] = high[2]
    BY <1>6, <2>2
  <2>5. ~Crosses(<<v, high>>, x, y)
    BY <1>8, <2>4, LevelEdge
  <2> QED
    BY <2>3, <2>4, <2>5
<1>16. ASSUME NEW i \in 5..n PROVE Crosses(EdgeAt(right, i), x, y) <=> n + 4 - i \in BorderCrossed(left, p)
  <2>1. /\ i \in 4..n /\ i - 1 \in 4..n /\ i \in 2..n /\ n + 4 - i \in 3..(n - 1)
        /\ n + 3 - i = n + 4 - i - 1 /\ n + 3 - (i - 1) = n + 4 - i
    BY <1>1
  <2>2. right[i] = left[n + 4 - i - 1] /\ right[i - 1] = left[n + 4 - i]
    BY <1>7, <2>1
  <2>3. EdgeAt(right, i) = <<left[n + 4 - i - 1], left[n + 4 - i]>>
    BY <1>9, <2>1, <2>2
  <2> QED
    BY <1>11, <2>1, <2>3
<1> DEFINE far == {FarPlace(n, j) : j \in BorderCrossed(left, p)} \cup {3}
<1>17. ASSUME NEW i \in 1..n PROVE Crosses(EdgeAt(right, i), x, y) <=> i \in far
  <2>1. i = 1 \/ i = 2 \/ i = 3 \/ i = 4 \/ i \in 5..n
    BY <1>1
  <2>2. \A j \in BorderCrossed(left, p) : j \in 3..(n - 1)
    BY <1>10
  <2>3. \A j \in 3..(n - 1) : IF j = 3 THEN FarPlace(n, j) = 1 ELSE FarPlace(n, j) = n + 4 - j /\ n + 4 - j \in 5..n
    BY DEF FarPlace
  <2>4. i = 1 => (i \in far <=> 3 \in BorderCrossed(left, p))
    <3>1. SUFFICES ASSUME i = 1 PROVE i \in far <=> 3 \in BorderCrossed(left, p)
      OBVIOUS
    <3>2. 3 \in BorderCrossed(left, p) => i \in far
      BY <3>1 DEF FarPlace
    <3>3. ASSUME i \in far PROVE 3 \in BorderCrossed(left, p)
      <4>1. PICK j \in BorderCrossed(left, p) : FarPlace(n, j) = 1
        BY <3>1, <3>3
      <4>2. j = 3
        BY <2>2, <2>3, <4>1
      <4> QED
        BY <4>1, <4>2
    <3> QED
      BY <3>2, <3>3
  <2>5. i \in {2, 4} => i \notin far
    BY <2>2, <2>3
  <2>6. i \in 5..n => (i \in far <=> n + 4 - i \in BorderCrossed(left, p))
    <3>1. SUFFICES ASSUME i \in 5..n PROVE i \in far <=> n + 4 - i \in BorderCrossed(left, p)
      OBVIOUS
    <3>2. n + 4 - i # 3 /\ n + 4 - (n + 4 - i) = i
      BY <3>1
    <3>3. n + 4 - i \in BorderCrossed(left, p) => i \in far
      <4>1. FarPlace(n, n + 4 - i) = i
        BY <3>2 DEF FarPlace
      <4> QED
        BY <4>1
    <3>4. ASSUME i \in far PROVE n + 4 - i \in BorderCrossed(left, p)
      <4>1. PICK j \in BorderCrossed(left, p) : FarPlace(n, j) = i
        BY <3>1, <3>4
      <4>2. j \in 3..(n - 1) /\ j # 3 /\ i = n + 4 - j
        BY <2>2, <2>3, <3>1, <4>1
      <4>3. j = n + 4 - i
        BY <4>2
      <4> QED
        BY <4>1, <4>3
    <3> QED
      BY <3>3, <3>4
  <2>7. 3 \in far
    OBVIOUS
  <2> HIDE DEF far
  <2> QED
    BY <1>12, <1>13, <1>14, <1>15, <1>16, <2>1, <2>4, <2>5, <2>6, <2>7
<1>18. far \subseteq 1..n
  <2>1. \A j \in BorderCrossed(left, p) : FarPlace(n, j) \in 1..n
    BY <1>10 DEF FarPlace
  <2> QED
    BY <1>1, <2>1
<1>19. CrossedOf(right, p) = {i \in 1..n : Crosses(EdgeAt(right, i), x, y)}
  BY <1>3, <1>4 DEF CrossedOf
<1> HIDE DEF far
<1>20. CrossedOf(right, p) = far
  BY <1>17, <1>18, <1>19
<1> QED
  BY <1>1, <1>20 DEF far

\* Half of a cut contains a point of the frame, as often as the border is crossed an odd
\* number of times from it, and the other half contains it otherwise.
LEMMA CutSharesOut ==
    ASSUME NEW left, NEW right, NEW low, NEW high, low \in Int \X Int, high \in Int \X Int,
           low[2] <= high[2], CutOf(left, right, low, high), NEW p, OfPlane(p)
    PROVE  /\ RingContains(left, p) \/ RingContains(right, p) <=> InsideOf(low, high, p)
           /\ ~(RingContains(left, p) /\ RingContains(right, p))
<1>1. PICK n \in Nat : n = Len(left) /\ n >= 4 /\ n = Len(right)
  BY DEF CutOf, RingWithin
<1>2. RingInBox(left, n, low, high) /\ RingInBox(right, n, low, high)
  BY <1>1, RingIsInBox DEF CutOf
<1>3. RingContains(left, p) => InsideOf(low, high, p)
  BY <1>2, ContainedInBox
<1>4. RingContains(right, p) => InsideOf(low, high, p)
  BY <1>2, ContainedInBox
<1>5. ASSUME InsideOf(low, high, p) PROVE RingContains(left, p) <=> ~RingContains(right, p)
  <2>1. PICK B : B = BorderCrossed(left, p)
    OBVIOUS
  <2>2. CrossedOf(left, p) = B
    BY <1>5, <2>1, LeftOfCut
  <2>3. CrossedOf(right, p) = {FarPlace(n, j) : j \in B} \cup {3}
    <3>1. CrossedOf(right, p) = {FarPlace(Len(left), j) : j \in BorderCrossed(left, p)} \cup {3}
      BY <1>5, RightOfCut
    <3> QED
      BY <1>1, <2>1, <3>1, Zenon
  <2>4. B \subseteq 3..(n - 1)
    BY <1>1, <2>1 DEF BorderCrossed
  <2>5. IsFiniteSet(B)
    <3>1. IsFiniteSet(3..(n - 1)) /\ B \in SUBSET (3..(n - 1))
      BY <1>1, <2>4, FS_Interval
    <3> QED
      BY <3>1, FS_Subset
  <2> DEFINE far == {FarPlace(n, j) : j \in B}
             f == [j \in B |-> FarPlace(n, j)]
  <2>6. \A j \in 3..(n - 1) : FarPlace(n, j) = (IF j = 3 THEN 1 ELSE n + 4 - j) /\ (j # 3 => n + 4 - j \in 5..n)
    BY DEF FarPlace
  <2>7. \A j, k \in 3..(n - 1) : FarPlace(n, j) = FarPlace(n, k) => j = k
    BY <1>1, <2>6
  <2>8. f \in [B -> far]
    OBVIOUS
  <2>9. \A j, k \in B : f[j] = f[k] => j = k
    BY <2>4, <2>7
  <2>10. \A i \in far : \E j \in B : f[j] = i
    OBVIOUS
  <2>11. 3 \notin far
    BY <2>4, <2>6
  <2>12. f \in Bijection(B, far)
    <3> HIDE DEF f, far
    <3> QED
      BY <2>8, <2>9, <2>10 DEF Bijection, Injection, IsInjective, Surjection
  <2> HIDE DEF f, far
  <2>13. ExistsBijection(B, far)
    BY <2>12 DEF ExistsBijection
  <2>14. IsFiniteSet(far) /\ Cardinality(far) = Cardinality(B)
    BY <2>5, <2>13, FS_Bijection
  <2>15. Cardinality(far \cup {3}) = Cardinality(B) + 1
    BY <2>11, <2>14, FS_AddElement
  <2>16. PICK c \in Nat : c = Cardinality(B)
    BY <2>5, FS_CardinalityType
  <2>17. c % 2 = 1 <=> ~((c + 1) % 2 = 1)
    OBVIOUS
  <2>18. RingContains(left, p) <=> c % 2 = 1
    BY <2>2, <2>16 DEF RingContains, CrossedOf
  <2>19. CrossedOf(right, p) = far \cup {3}
    BY <2>3 DEF far
  <2>20. RingContains(right, p) <=> (c + 1) % 2 = 1
    BY <2>15, <2>16, <2>19 DEF RingContains, CrossedOf
  <2> QED
    BY <2>17, <2>18, <2>20
<1> QED
  BY <1>3, <1>4, <1>5

\* What a split is made of: the corners of the frame, and the ring on the right.
SplitMeans(split, low, high, right) ==
    /\ low \in Int \X Int /\ high \in Int \X Int /\ low[1] <= high[1] /\ low[2] <= high[2]
    /\ split.frame = <<<<FrameOf(low, high)>>>> /\ split.right = <<<<right>>>>
    /\ \/ split.left = <<<<FrameOf(low, high), right>>>> /\ RingWithin(right, low, high)
       \/ \E ring : split.left = <<<<ring>>>> /\ CutOf(ring, right, low, high)
LEMMA SplitIs ==
    ASSUME NEW split, SplitOf(split)
    PROVE  \E low, high, right : SplitMeans(split, low, high, right)
<1>1. PICK low, high, right : /\ low = split.frame[1][1][1] /\ high = split.frame[1][1][3]
                              /\ right = split.right[1][1]
  OBVIOUS
<1>2. SplitMeans(split, low, high, right)
  BY <1>1, Zenon DEF SplitOf, SplitMeans
<1> QED
  BY <1>2

\* A zone of one ring.
LEMMA ZoneOfRing ==
    ASSUME NEW ring, NEW p
    PROVE  PointInGeometry(<<<<ring>>>>, p) <=> RingContains(ring, p)
<1>1. PointInPolygon(<<ring>>, p) <=> RingContains(ring, p)
  BY DEF PointInPolygon
<1>2. DOMAIN <<<<ring>>>> = 1..1 /\ <<<<ring>>>>[1] = <<ring>>
  OBVIOUS
<1> QED
  BY <1>1, <1>2 DEF PointInGeometry

\* A zone with a hole.
LEMMA ZoneWithHole ==
    ASSUME NEW ring, NEW hole, NEW p
    PROVE  PointInGeometry(<<<<ring, hole>>>>, p) <=> RingContains(ring, p) /\ ~RingContains(hole, p)
<1>1. PointInPolygon(<<ring, hole>>, p) <=> RingContains(ring, p) /\ ~RingContains(hole, p)
  BY DEF PointInPolygon
<1>2. DOMAIN <<<<ring, hole>>>> = 1..1 /\ <<<<ring, hole>>>>[1] = <<ring, hole>>
  OBVIOUS
<1> QED
  BY <1>1, <1>2 DEF PointInGeometry

\* Whatever the border, a point of the frame is in one of the two zones, and no other
\* point is in any.
THEOREM PointsAreShared ==
    ASSUME NEW split, SplitOf(split), NEW p, OfPlane(p)
    PROVE  /\ PointInGeometry(split.frame, p) <=> PointInGeometry(split.left, p) \/ PointInGeometry(split.right, p)
           /\ ~(PointInGeometry(split.left, p) /\ PointInGeometry(split.right, p))
<1>1. PICK low, high, right : SplitMeans(split, low, high, right)
  BY SplitIs
<1>2. OfPlane(low) /\ OfPlane(high) /\ low \in Int \X Int /\ high \in Int \X Int
      /\ low[1] <= high[1] /\ low[2] <= high[2]
  BY <1>1 DEF SplitMeans, OfPlane
<1>3. PointInGeometry(split.frame, p) <=> InsideOf(low, high, p)
  BY <1>1, <1>2, FrameHolds, ZoneOfRing DEF SplitMeans
<1>4. PointInGeometry(split.right, p) <=> RingContains(right, p)
  BY <1>1, ZoneOfRing DEF SplitMeans
<1>5. ASSUME split.left = <<<<FrameOf(low, high), right>>>>, RingWithin(right, low, high)
      PROVE  /\ PointInGeometry(split.frame, p) <=> PointInGeometry(split.left, p) \/ PointInGeometry(split.right, p)
             /\ ~(PointInGeometry(split.left, p) /\ PointInGeometry(split.right, p))
  <2>1. PointInGeometry(split.left, p) <=> InsideOf(low, high, p) /\ ~RingContains(right, p)
    BY <1>2, <1>5, FrameHolds, ZoneWithHole
  <2>2. RingInBox(right, Len(right), low, high)
    BY <1>2, <1>5, RingIsInBox
  <2>3. RingContains(right, p) => InsideOf(low, high, p)
    BY <2>2, ContainedInBox
  <2> QED
    BY <1>3, <1>4, <2>1, <2>3
<1>6. ASSUME NEW ring, split.left = <<<<ring>>>>, CutOf(ring, right, low, high)
      PROVE  /\ PointInGeometry(split.frame, p) <=> PointInGeometry(split.left, p) \/ PointInGeometry(split.right, p)
             /\ ~(PointInGeometry(split.left, p) /\ PointInGeometry(split.right, p))
  <2>1. PointInGeometry(split.left, p) <=> RingContains(ring, p)
    BY <1>6, ZoneOfRing
  <2>2. /\ RingContains(ring, p) \/ RingContains(right, p) <=> InsideOf(low, high, p)
        /\ ~(RingContains(ring, p) /\ RingContains(right, p))
    BY <1>2, <1>6, CutSharesOut
  <2> QED
    BY <1>3, <1>4, <2>1, <2>2
<1> QED
  BY <1>1, <1>5, <1>6 DEF SplitMeans

-----------------------------------------------------------------------------
(* geo-common: the cells of a zone, and their statistics.                   *)

\* The least and the greatest of integers in a row.
RowValues(f, n) == {f[j] : j \in 1..n}
LEMMA EndsOfValues ==
    ASSUME NEW n \in Nat \ {0}, NEW f \in [1..n -> Int], NEW S, S = RowValues(f, n)
    PROVE  /\ Min(S) \in S /\ Max(S) \in S
           /\ \A v \in S : Min(S) <= v /\ v <= Max(S)
<1>1. PICK i \in 1..n : \A j \in 1..n : f[i] <= f[j]
  BY LeastOfRow
<1>2. PICK g \in [1..n -> Int] : \A j \in 1..n : g[j] = 0 - f[j]
  <2> DEFINE g == [j \in 1..n |-> 0 - f[j]]
  <2>1. g \in [1..n -> Int] /\ \A j \in 1..n : g[j] = 0 - f[j]
    OBVIOUS
  <2> QED
    BY <2>1
<1>3. PICK k \in 1..n : \A j \in 1..n : g[k] <= g[j]
  BY LeastOfRow
<1>4. \A j \in 1..n : f[k] >= f[j] /\ f[j] \in Int
  BY <1>2, <1>3
<1>5. f[i] \in S /\ \A v \in S : f[i] <= v
  BY <1>1 DEF RowValues
<1>6. f[k] \in S /\ \A v \in S : f[k] >= v
  BY <1>4 DEF RowValues
<1>7. S \subseteq Int
  BY DEF RowValues
<1>8. Min(S) \in S /\ \A v \in S : Min(S) <= v
  BY <1>5 DEF Min
<1>9. Max(S) \in S /\ \A v \in S : Max(S) >= v
  BY <1>6 DEF Max
<1>10. \A v \in S : v <= Max(S)
  BY <1>7, <1>9
<1> QED
  BY <1>8, <1>9, <1>10

\* The same of a finite set of integers.
LEMMA EndsOfSet ==
    ASSUME NEW S \in SUBSET Int, IsFiniteSet(S), S # {}
    PROVE  /\ Min(S) \in S /\ Max(S) \in S
           /\ \A v \in S : Min(S) <= v /\ v <= Max(S)
<1>1. PICK seq \in Seq(S) : \A v \in S : \E i \in 1..Len(seq) : seq[i] = v
  BY DEF IsFiniteSet
<1>2. PICK n \in Nat : n = Len(seq) /\ seq \in [1..n -> S]
  OBVIOUS
<1>3. n # 0
  <2>1. PICK v \in S : TRUE
    OBVIOUS
  <2>2. PICK i \in 1..n : seq[i] = v
    BY <1>1, <1>2
  <2> QED
    BY <2>2
<1>4. S = RowValues(seq, n)
  <2>1. \A v \in S : \E i \in 1..n : seq[i] = v
    BY <1>1, <1>2
  <2>2. \A i \in 1..n : seq[i] \in S
    BY <1>2
  <2> QED
    BY <2>1, <2>2 DEF RowValues
<1>5. seq \in [1..n -> Int] /\ n \in Nat \ {0}
  BY <1>2, <1>3
<1> QED
  BY <1>4, <1>5, EndsOfValues

\* All vertices lie between two corners.
VerticesIn(polygons, low, high) ==
    /\ Vertices(polygons) # {}
    /\ \A v \in Vertices(polygons) : /\ OfPlane(v)
                                     /\ low[1] <= v[1] /\ v[1] <= high[1]
                                     /\ low[2] <= v[2] /\ v[2] <= high[2]

\* The box of a geometry is one such pair of corners.
LEMMA BboxSpans ==
    ASSUME NEW polygons, NEW low, NEW high, OfPlane(low), OfPlane(high), VerticesIn(polygons, low, high),
           NEW b, b = GeometryBbox(polygons)
    PROVE  /\ b[1] \in Int /\ b[2] \in Int /\ b[3] \in Int /\ b[4] \in Int
           /\ \A v \in Vertices(polygons) : b[1] <= v[1] /\ v[1] <= b[3] /\ b[2] <= v[2] /\ v[2] <= b[4]
<1> DEFINE V == Vertices(polygons)
           xs == {v[1] : v \in V}
           ys == {v[2] : v \in V}
<1>1. /\ xs \subseteq low[1]..high[1] /\ xs # {}
      /\ ys \subseteq low[2]..high[2] /\ ys # {}
  BY DEF VerticesIn, OfPlane
<1>2. /\ b[1] = Min(xs) /\ b[2] = Min(ys) /\ b[3] = Max(xs) /\ b[4] = Max(ys)
  BY DEF GeometryBbox
<1>3. \A v \in V : v[1] \in xs /\ v[2] \in ys
  OBVIOUS
<1> HIDE DEF xs, ys, V
<1>4. low[1] \in Int /\ high[1] \in Int /\ low[2] \in Int /\ high[2] \in Int
  BY DEF OfPlane
<1>5. IsFiniteSet(xs) /\ xs \subseteq Int
  <2>1. IsFiniteSet(low[1]..high[1]) /\ xs \in SUBSET (low[1]..high[1])
    BY <1>1, <1>4, FS_Interval
  <2>2. IsFiniteSet(xs)
    BY <2>1, FS_Subset
  <2> QED
    BY <1>4, <2>1, <2>2
<1>6. IsFiniteSet(ys) /\ ys \subseteq Int
  <2>1. IsFiniteSet(low[2]..high[2]) /\ ys \in SUBSET (low[2]..high[2])
    BY <1>1, <1>4, FS_Interval
  <2>2. IsFiniteSet(ys)
    BY <2>1, FS_Subset
  <2> QED
    BY <1>4, <2>1, <2>2
<1>7. Min(xs) \in xs /\ Max(xs) \in xs /\ \A v \in xs : Min(xs) <= v /\ v <= Max(xs)
  BY <1>1, <1>5, EndsOfSet
<1>8. Min(ys) \in ys /\ Max(ys) \in ys /\ \A v \in ys : Min(ys) <= v /\ v <= Max(ys)
  BY <1>1, <1>6, EndsOfSet
<1>9. b[1] \in Int /\ b[2] \in Int /\ b[3] \in Int /\ b[4] \in Int
  BY <1>2, <1>5, <1>6, <1>7, <1>8
<1>10. \A v \in V : b[1] <= v[1] /\ v[1] <= b[3] /\ b[2] <= v[2] /\ v[2] <= b[4]
  BY <1>2, <1>3, <1>7, <1>8
<1> QED
  BY <1>9, <1>10 DEF V

\* A zone of one ring or of a ring with a hole, all of it between two corners.
RingIn(ring, low, high) == \E m : RingInBox(ring, m, low, high)
ZoneIn(zone, low, high) ==
    \/ \E ring : zone = <<<<ring>>>> /\ RingIn(ring, low, high)
    \/ \E ring, hole : zone = <<<<ring, hole>>>> /\ RingIn(ring, low, high) /\ RingIn(hole, low, high)

\* The vertices of a ring.
LEMMA RingVertices ==
    ASSUME NEW ring, NEW low, NEW high, RingIn(ring, low, high)
    PROVE  /\ Range(ring) # {}
           /\ \A v \in Range(ring) : /\ OfPlane(v)
                                     /\ low[1] <= v[1] /\ v[1] <= high[1]
                                     /\ low[2] <= v[2] /\ v[2] <= high[2]
<1>1. PICK m : RingInBox(ring, m, low, high)
  BY DEF RingIn
<1>2. m \in Nat \ {0} /\ DOMAIN ring = 1..m /\ \A i \in 1..m : OfPlane(ring[i])
  BY <1>1 DEF RingInBox, RingOf
<1>3. Range(ring) = {ring[i] : i \in 1..m}
  BY <1>2 DEF Range
<1>4. 1 \in 1..m
  BY <1>2
<1> QED
  BY <1>1, <1>2, <1>3, <1>4 DEF RingInBox

\* The vertices of a zone.
LEMMA ZoneVertices ==
    ASSUME NEW zone, NEW low, NEW high, ZoneIn(zone, low, high)
    PROVE  /\ Len(zone) = 1 /\ DOMAIN zone = 1..1 /\ zone = <<zone[1]>>
           /\ Vertices(zone) = UNION {Range(zone[1][j]) : j \in DOMAIN zone[1]}
           /\ VerticesIn(zone, low, high)
           /\ RingIn(zone[1][1], low, high) /\ Range(zone[1][1]) \subseteq Vertices(zone)
<1> DEFINE goal == /\ Len(zone) = 1 /\ DOMAIN zone = 1..1 /\ zone = <<zone[1]>>
                   /\ Vertices(zone) = UNION {Range(zone[1][j]) : j \in DOMAIN zone[1]}
                   /\ VerticesIn(zone, low, high)
                   /\ RingIn(zone[1][1], low, high) /\ Range(zone[1][1]) \subseteq Vertices(zone)
<1>1. ASSUME NEW ring, zone = <<<<ring>>>>, RingIn(ring, low, high)
      PROVE  goal
  <2>1. Len(zone) = 1 /\ DOMAIN zone = 1..1 /\ zone = <<zone[1]>> /\ zone[1] = <<ring>>
        /\ DOMAIN zone[1] = 1..1 /\ zone[1][1] = ring
    BY <1>1
  <2>2. Vertices(zone) = Range(ring)
    BY <2>1 DEF Vertices
  <2>3. UNION {Range(zone[1][j]) : j \in DOMAIN zone[1]} = Range(ring)
    BY <2>1
  <2> QED
    BY <1>1, <2>1, <2>2, <2>3, RingVertices DEF VerticesIn
<1>2. ASSUME NEW ring, NEW hole, zone = <<<<ring, hole>>>>, RingIn(ring, low, high), RingIn(hole, low, high)
      PROVE  goal
  <2>1. Len(zone) = 1 /\ DOMAIN zone = 1..1 /\ zone = <<zone[1]>> /\ zone[1] = <<ring, hole>>
        /\ DOMAIN zone[1] = 1..2 /\ zone[1][1] = ring /\ zone[1][2] = hole
    BY <1>2
  <2>2. Vertices(zone) = UNION {Range(zone[1][j]) : j \in DOMAIN zone[1]}
    BY <2>1 DEF Vertices
  <2>3. UNION {Range(zone[1][j]) : j \in DOMAIN zone[1]} = Range(ring) \cup Range(hole)
    BY <2>1
  <2> QED
    BY <1>2, <2>1, <2>2, <2>3, RingVertices DEF VerticesIn
<1> HIDE DEF goal
<1>3. goal
  BY <1>1, <1>2 DEF ZoneIn
<1> QED
  BY <1>3 DEF goal

\* The vertices of two zones together are those of each.
LEMMA ZonesTogether ==
    ASSUME NEW left, NEW right, NEW low, NEW high, ZoneIn(left, low, high), ZoneIn(right, low, high),
           NEW both, both = FlattenSeq(<<left, right>>)
    PROVE  VerticesIn(both, low, high) /\ Vertices(left) \subseteq Vertices(both)
           /\ Vertices(right) \subseteq Vertices(both)
<1>1. PICK a, b : left = <<a>> /\ right = <<b>>
  BY ZoneVertices
<1> DEFINE S == {a, b}
<1>2. <<left, right>> \in [1..2 -> Seq(S)]
  <2>1. <<a>> \in Seq(S) /\ <<b>> \in Seq(S)
    OBVIOUS
  <2> QED
    BY <1>1, <2>1
<1>3. PICK f \in [0..2 -> Seq(S)] : Flattened(f, <<left, right>>, 2) /\ both = f[2]
  BY <1>2, FlattenMeans
<1>4. f[0] = <<>> /\ f[1] = f[0] \o <<a>> /\ f[2] = f[1] \o <<b>>
  BY <1>1, <1>3 DEF Flattened
<1>5. <<a>> \in Seq(S) /\ <<b>> \in Seq(S) /\ <<>> \in Seq(S)
  OBVIOUS
<1>6. DOMAIN both = 1..2 /\ both[1] = a /\ both[2] = b
  <2>1. f[1] = <<a>>
    BY <1>4, <1>5, ConcatEmptySeq, Zenon
  <2>2. PICK u, v : u = <<a>> /\ v = <<b>> /\ u \in Seq(S) /\ v \in Seq(S)
    BY <1>5
  <2>3. Len(u) = 1 /\ Len(v) = 1 /\ u[1] = a /\ v[1] = b
    BY <2>2
  <2>4. both = u \o v
    BY <1>3, <1>4, <2>1, <2>2, Zenon
  <2>5. /\ u \o v \in Seq(S) /\ Len(u \o v) = Len(u) + Len(v)
        /\ \A i \in 1..(Len(u) + Len(v)) : (u \o v)[i] = IF i <= Len(u) THEN u[i] ELSE v[i - Len(u)]
    BY <2>2, ConcatProperties, Zenon
  <2> HIDE DEF S
  <2>8. both \in Seq(S) /\ Len(both) = 1 + 1
    BY <2>3, <2>4, <2>5, Zenon
  <2>6. Len(both) = 2 /\ both \in Seq(S)
    BY <2>8
  <2>9. \A i \in 1..(1 + 1) : both[i] = IF i <= 1 THEN u[i] ELSE v[i - 1]
    BY <2>3, <2>4, <2>5, Zenon
  <2>7. both[1] = a /\ both[2] = b
    <3>1. both[1] = u[1]
      BY <2>9
    <3>2. both[2] = v[2 - 1] /\ 2 - 1 = 1
      BY <2>9
    <3> QED
      BY <2>3, <3>1, <3>2
  <2> QED
    BY <2>6, <2>7
<1>7. Vertices(left) = UNION {Range(a[j]) : j \in DOMAIN a} /\ Vertices(right) = UNION {Range(b[j]) : j \in DOMAIN b}
  <2>1. left[1] = a /\ right[1] = b
    BY <1>1
  <2>2. Vertices(left) = UNION {Range(left[1][j]) : j \in DOMAIN left[1]}
    BY ZoneVertices
  <2>3. Vertices(right) = UNION {Range(right[1][j]) : j \in DOMAIN right[1]}
    BY ZoneVertices
  <2> QED
    BY <2>1, <2>2, <2>3, Zenon
<1>8. Vertices(both) = Vertices(left) \cup Vertices(right)
  <2>1. Vertices(both) = UNION {UNION {Range(both[i][j]) : j \in DOMAIN both[i]} : i \in 1..2}
    BY <1>6, Zenon DEF Vertices
  <2>2. UNION {Range(both[1][j]) : j \in DOMAIN both[1]} = Vertices(left)
    BY <1>6, <1>7
  <2>3. UNION {Range(both[2][j]) : j \in DOMAIN both[2]} = Vertices(right)
    BY <1>6, <1>7
  <2> DEFINE V(i) == UNION {Range(both[i][j]) : j \in DOMAIN both[i]}
  <2>4. V(1) = Vertices(left) /\ V(2) = Vertices(right) /\ Vertices(both) = UNION {V(i) : i \in 1..2}
    BY <2>1, <2>2, <2>3
  <2>5. \A i \in 1..2 : i = 1 \/ i = 2
    OBVIOUS
  <2> HIDE DEF V
  <2>6. \A x : x \in Vertices(both) <=> x \in Vertices(left) \/ x \in Vertices(right)
    <3>1. \A x : x \in UNION {V(i) : i \in 1..2} <=> \E i \in 1..2 : x \in V(i)
      OBVIOUS
    <3>2. 1 \in 1..2 /\ 2 \in 1..2
      OBVIOUS
    <3> QED
      BY <2>4, <2>5, <3>1, <3>2, Zenon
  <2> QED
    BY <2>6
<1>9. VerticesIn(left, low, high) /\ VerticesIn(right, low, high)
  BY ZoneVertices
<1> QED
  BY <1>8, <1>9 DEF VerticesIn

\* What lies in a zone lies in the box of any geometry that has its vertices.
LEMMA ZoneInBbox ==
    ASSUME NEW zone, NEW low, NEW high, ZoneIn(zone, low, high), OfPlane(low), OfPlane(high),
           NEW both, VerticesIn(both, low, high), Vertices(zone) \subseteq Vertices(both),
           NEW b, b = GeometryBbox(both), NEW p, OfPlane(p), PointInGeometry(zone, p)
    PROVE  /\ b[1] \in Int /\ b[2] \in Int /\ b[3] \in Int /\ b[4] \in Int
           /\ b[1] <= p[1] /\ p[1] < b[3] /\ b[2] <= p[2] /\ p[2] < b[4]
<1>1. /\ b[1] \in Int /\ b[2] \in Int /\ b[3] \in Int /\ b[4] \in Int
      /\ \A v \in Vertices(both) : b[1] <= v[1] /\ v[1] <= b[3] /\ b[2] <= v[2] /\ v[2] <= b[4]
  BY BboxSpans
<1>2. DOMAIN zone = 1..1 /\ RingIn(zone[1][1], low, high) /\ Range(zone[1][1]) \subseteq Vertices(both)
  BY ZoneVertices
<1>3. PICK ring : ring = zone[1][1]
  OBVIOUS
<1>4. RingContains(ring, p)
  BY <1>2, <1>3 DEF PointInGeometry, PointInPolygon
<1>5. PICK m : RingInBox(ring, m, low, high)
  BY <1>2, <1>3 DEF RingIn
<1>6. RingOf(ring, m) /\ DOMAIN ring = 1..m
  BY <1>5 DEF RingInBox, RingOf
<1>7. PICK sw, ne : sw = <<b[1], b[2]>> /\ ne = <<b[3], b[4]>>
  OBVIOUS
<1>8. OfPlane(sw) /\ OfPlane(ne) /\ sw[1] = b[1] /\ sw[2] = b[2] /\ ne[1] = b[3] /\ ne[2] = b[4]
  BY <1>1, <1>7 DEF OfPlane
<1>9. \A i \in 1..m : ring[i] \in Vertices(both)
  BY <1>2, <1>3, <1>6 DEF Range
<1>10. RingInBox(ring, m, sw, ne)
  BY <1>1, <1>6, <1>8, <1>9 DEF RingInBox
<1>11. InsideOf(sw, ne, p)
  BY <1>4, <1>10, ContainedInBox
<1> QED
  BY <1>1, <1>8, <1>11 DEF InsideOf

\* Reading the window of both zones and looking in the box of one finds what the
\* whole raster has.
LEMMA FastIsPure ==
    ASSUME NEW grid, RasterOf(grid), NEW left, NEW right, NEW low, NEW high, OfPlane(low), OfPlane(high),
           ZoneIn(left, low, high), ZoneIn(right, low, high), NEW zone \in {left, right},
           NEW window, window = WindowOf(grid, <<left, right>>)
    PROVE  /\ OverlappingFast(window, zone) = OverlappingPure(grid, zone)
           /\ \A p \in OverlappingPure(grid, zone) : window[p] = grid[p]
<1>1. PICK both : both = FlattenSeq(<<left, right>>)
  OBVIOUS
<1>2. VerticesIn(both, low, high) /\ Vertices(zone) \subseteq Vertices(both)
  BY <1>1, ZonesTogether
<1>3. ZoneIn(zone, low, high) /\ VerticesIn(zone, low, high)
  BY ZoneVertices
<1>4. PICK a, b : a = GeometryBbox(both) /\ b = GeometryBbox(zone)
  OBVIOUS
<1> DEFINE read == {p \in DOMAIN grid : /\ a[1] < p[1] + 1 /\ p[1] - 1 < a[3]
                                        /\ a[2] < p[2] + 1 /\ p[2] - 1 < a[4]}
<1>5. window = [p \in read |-> grid[p]]
  BY <1>1, <1>4 DEF WindowOf, ZonesBbox, Restrict
<1>6. DOMAIN window = read /\ \A p \in read : window[p] = grid[p]
  BY <1>5
<1>7. \A p \in DOMAIN grid : OfPlane(p)
  BY DEF RasterOf, OfPlane
<1>8. ASSUME NEW p \in DOMAIN grid, PointInGeometry(zone, p)
      PROVE  p \in read /\ p[1] \in b[1]..b[3] /\ p[2] \in b[2]..b[4]
  <2>1. OfPlane(p) /\ p[1] \in Int /\ p[2] \in Int
    BY <1>7 DEF OfPlane
  <2>2. /\ a[1] \in Int /\ a[2] \in Int /\ a[3] \in Int /\ a[4] \in Int
        /\ a[1] <= p[1] /\ p[1] < a[3] /\ a[2] <= p[2] /\ p[2] < a[4]
    BY <1>2, <1>3, <1>4, <1>8, <2>1, ZoneInBbox
  <2>3. /\ b[1] \in Int /\ b[2] \in Int /\ b[3] \in Int /\ b[4] \in Int
        /\ b[1] <= p[1] /\ p[1] < b[3] /\ b[2] <= p[2] /\ p[2] < b[4]
    BY <1>3, <1>4, <1>8, <2>1, ZoneInBbox
  <2> QED
    BY <2>1, <2>2, <2>3
<1>9. read \subseteq DOMAIN grid
  OBVIOUS
<1> HIDE DEF read
<1>10. Valid(window) = {p \in read : grid[p] # NoData}
  BY <1>6 DEF Valid
<1>11. OverlappingFast(window, zone) = {p \in {q \in Valid(window) : q[1] \in b[1]..b[3] /\ q[2] \in b[2]..b[4]} :
                                          PointInGeometry(zone, p)}
  BY <1>4, Zenon DEF OverlappingFast
<1>12. OverlappingPure(grid, zone) = {p \in Valid(grid) : PointInGeometry(zone, p)}
  BY Zenon DEF OverlappingPure
<1>13. \A p : p \in OverlappingFast(window, zone) => p \in OverlappingPure(grid, zone)
  BY <1>9, <1>10, <1>11, <1>12 DEF Valid
<1>14. \A p : p \in OverlappingPure(grid, zone) => p \in OverlappingFast(window, zone) /\ window[p] = grid[p]
  BY <1>6, <1>8, <1>10, <1>11, <1>12 DEF Valid
<1> QED
  BY <1>13, <1>14

\* What is added up, whatever the order.
Weighs(w, f, S) ==
    /\ w \in [SUBSET S -> Int] /\ w[{}] = 0
    /\ \A s \in SUBSET S, x \in S : x \in s => w[s] = w[s \ {x}] + f[x]
    /\ \A s, t \in SUBSET S : s \cap t = {} => w[s \cup t] = w[s] + w[t]

\* A finite set has a weighing: its members in a row, one after the other.
LEMMA WeightsExist ==
    ASSUME NEW S, IsFiniteSet(S), NEW f, \A x \in S : f[x] \in Int
    PROVE  \E w : Weighs(w, f, S)
<1>1. PICK n \in Nat : \E e : e \in Bijection(1..n, S)
  <2>1. PICK n \in Nat : ExistsBijection(1..n, S)
    BY FS_NatBijection
  <2> QED
    BY <2>1 DEF ExistsBijection
<1>2. PICK e : e \in Bijection(1..n, S)
  BY <1>1
<1>3. /\ e \in [1..n -> S] /\ \A j, k \in 1..n : e[j] = e[k] => j = k
      /\ \A x \in S : \E j \in 1..n : e[j] = x
  BY <1>2 DEF Bijection, Injection, IsInjective, Surjection
<1> DEFINE W == [SUBSET S -> Int]
           next == [a \in W \X (1..n) |-> [s \in SUBSET S |-> a[1][s] + IF e[a[2]] \in s THEN f[e[a[2]]] ELSE 0]]
           none == [s \in SUBSET S |-> 0]
<1>4. next \in [W \X (1..n) -> W]
  <2>1. ASSUME NEW w \in W, NEW k \in 1..n
        PROVE  [s \in SUBSET S |-> w[s] + IF e[k] \in s THEN f[e[k]] ELSE 0] \in W
    <3>1. f[e[k]] \in Int
      BY <1>3
    <3>2. \A s \in SUBSET S : w[s] + (IF e[k] \in s THEN f[e[k]] ELSE 0) \in Int
      BY <3>1
    <3> QED
      BY <3>2
  <2>2. \A a \in W \X (1..n) : a[1] \in W /\ a[2] \in 1..n
    OBVIOUS
  <2> QED
    BY <2>1, <2>2
<1>5. none \in W
  OBVIOUS
<1>6. \A w \in W, k \in 1..n, s \in SUBSET S :
         next[<<w, k>>][s] = w[s] + IF e[k] \in s THEN f[e[k]] ELSE 0
  OBVIOUS
<1>7. \A s \in SUBSET S : none[s] = 0
  OBVIOUS
<1> HIDE DEF next, none, W
<1>8. PICK F \in [0..n -> W] : Recurs(F, n, none, next)
  BY <1>4, <1>5, RecursionUpTo
<1>9. /\ \A s \in SUBSET S : F[0][s] = 0
      /\ \A k \in 1..n, s \in SUBSET S : F[k][s] = F[k - 1][s] + IF e[k] \in s THEN f[e[k]] ELSE 0
  <2>1. \A k \in 1..n : F[k - 1] \in W /\ F[k] = next[<<F[k - 1], k>>]
    <3>1. \A k \in 1..n : k - 1 \in 0..n
      OBVIOUS
    <3> QED
      BY <1>8, <3>1 DEF Recurs
  <2>2. F[0] = none
    BY <1>8 DEF Recurs
  <2>3. \A s \in SUBSET S : F[0][s] = 0
    BY <1>7, <2>2
  <2>4. ASSUME NEW k \in 1..n, NEW s \in SUBSET S
        PROVE  F[k][s] = F[k - 1][s] + IF e[k] \in s THEN f[e[k]] ELSE 0
    <3>1. PICK u \in W : u = F[k - 1] /\ F[k] = next[<<u, k>>]
      BY <2>1
    <3>2. next[<<u, k>>][s] = u[s] + IF e[k] \in s THEN f[e[k]] ELSE 0
      BY <1>6
    <3> QED
      BY <3>1, <3>2, Zenon
  <2> QED
    BY <2>3, <2>4
<1>10. \A k \in 0..n, s \in SUBSET S : F[k][s] \in Int
  BY DEF W
<1>11. \A k \in 0..n : F[k][{}] = 0
  <2> DEFINE T == {k \in 0..n : F[k][{}] = 0}
  <2>1. 0 \in T
    BY <1>9
  <2>2. \A k \in 1..n : k - 1 \in T => k \in T
    BY <1>9
  <2> HIDE DEF T
  <2>3. 0..n \subseteq T
    BY <2>1, <2>2, UpToInduction
  <2> QED
    BY <2>3 DEF T
<1>12. ASSUME NEW s \in SUBSET S, NEW t \in SUBSET S, s \cap t = {}
       PROVE  \A k \in 0..n : F[k][s \cup t] = F[k][s] + F[k][t]
  <2> DEFINE T == {k \in 0..n : F[k][s \cup t] = F[k][s] + F[k][t]}
  <2>1. 0 \in T
    <3>1. F[0][s \cup t] = 0 /\ F[0][s] = 0 /\ F[0][t] = 0
      BY <1>9
    <3> QED
      BY <3>1
  <2>2. ASSUME NEW k \in 1..n, k - 1 \in T PROVE k \in T
    <3>1. /\ F[k][s \cup t] = F[k - 1][s \cup t] + (IF e[k] \in s \cup t THEN f[e[k]] ELSE 0)
          /\ F[k][s] = F[k - 1][s] + (IF e[k] \in s THEN f[e[k]] ELSE 0)
          /\ F[k][t] = F[k - 1][t] + (IF e[k] \in t THEN f[e[k]] ELSE 0)
      BY <1>9
    <3>2. k - 1 \in 0..n /\ F[k - 1][s] \in Int /\ F[k - 1][t] \in Int /\ f[e[k]] \in Int
      BY <1>3, <1>10
    <3>3. F[k - 1][s \cup t] = F[k - 1][s] + F[k - 1][t]
      BY <2>2
    <3>4. ~(e[k] \in s /\ e[k] \in t)
      BY <1>12
    <3>5. F[k][s \cup t] = F[k][s] + F[k][t]
      <4>1. PICK u \in Int, v \in Int, z \in Int : u = F[k - 1][s] /\ v = F[k - 1][t] /\ z = f[e[k]]
        BY <3>2
      <4>2. CASE e[k] \in s
        <5>1. F[k][s \cup t] = u + v + z /\ F[k][s] = u + z /\ F[k][t] = v + 0
          BY <3>1, <3>3, <3>4, <4>1, <4>2
        <5> QED
          BY <5>1
      <4>3. CASE e[k] \in t
        <5>1. F[k][s \cup t] = u + v + z /\ F[k][s] = u + 0 /\ F[k][t] = v + z
          BY <3>1, <3>3, <3>4, <4>1, <4>3
        <5> QED
          BY <5>1
      <4>4. CASE e[k] \notin s /\ e[k] \notin t
        <5>1. F[k][s \cup t] = u + v + 0 /\ F[k][s] = u + 0 /\ F[k][t] = v + 0
          BY <3>1, <3>3, <4>1, <4>4
        <5> QED
          BY <5>1
      <4> QED
        BY <4>2, <4>3, <4>4
    <3> QED
      BY <3>5
  <2> HIDE DEF T
  <2>3. 0..n \subseteq T
    BY <2>1, <2>2, UpToInduction
  <2> QED
    BY <2>3 DEF T
<1>13. ASSUME NEW x \in S PROVE F[n][{x}] = f[x]
  <2>1. PICK j \in 1..n : e[j] = x
    BY <1>3
  <2> DEFINE T == {k \in 0..n : F[k][{x}] = IF j <= k THEN f[x] ELSE 0}
  <2>2. 0 \in T
    BY <1>9
  <2>3. ASSUME NEW k \in 1..n, k - 1 \in T PROVE k \in T
    <3>1. F[k][{x}] = F[k - 1][{x}] + IF e[k] \in {x} THEN f[e[k]] ELSE 0
      BY <1>9
    <3>2. e[k] \in {x} <=> j = k
      BY <1>3, <2>1
    <3>3. f[x] \in Int
      OBVIOUS
    <3>4. F[k - 1][{x}] = IF j <= k - 1 THEN f[x] ELSE 0
      BY <2>3
    <3>5. F[k][{x}] = IF j <= k THEN f[x] ELSE 0
      <4>1. CASE j = k
        <5>1. F[k][{x}] = 0 + f[x]
          BY <2>1, <3>1, <3>2, <3>4, <4>1
        <5> QED
          BY <3>3, <4>1, <5>1
      <4>2. CASE j # k
        <5>1. F[k][{x}] = F[k - 1][{x}] + 0
          BY <3>1, <3>2, <4>2
        <5>2. j <= k - 1 <=> j <= k
          BY <4>2
        <5> QED
          BY <3>3, <3>4, <5>1, <5>2
      <4> QED
        BY <4>1, <4>2
    <3> QED
      BY <3>5
  <2> HIDE DEF T
  <2>4. 0..n \subseteq T
    BY <2>2, <2>3, UpToInduction
  <2>5. n \in 0..n /\ j <= n
    OBVIOUS
  <2> QED
    BY <2>4, <2>5 DEF T
<1>20. n \in 0..n
  OBVIOUS
<1> DEFINE w == F[n]
<1>14. w \in [SUBSET S -> Int] /\ w[{}] = 0
  <2>1. F[n] \in W /\ F[n][{}] = 0
    BY <1>11, <1>20
  <2> QED
    BY <2>1 DEF W
<1>15. \A s, t \in SUBSET S : s \cap t = {} => w[s \cup t] = w[s] + w[t]
  BY <1>12, <1>20
<1>16. \A x \in S : w[{x}] = f[x]
  BY <1>13
<1> HIDE DEF w
<1>17. ASSUME NEW s \in SUBSET S, NEW x \in S, x \in s PROVE w[s] = w[s \ {x}] + f[x]
  <2>1. s \ {x} \in SUBSET S /\ {x} \in SUBSET S /\ (s \ {x}) \cap {x} = {} /\ (s \ {x}) \cup {x} = s
    BY <1>17
  <2>2. w[(s \ {x}) \cup {x}] = w[s \ {x}] + w[{x}]
    BY <1>15, <2>1
  <2> QED
    BY <1>16, <2>1, <2>2
<1> QED
  BY <1>14, <1>15, <1>17 DEF Weighs

\* FoldSet with + is such a sum, of every part.
SumOver(f, A) == FoldSet(LAMBDA p, so : so + f[p], 0, A)
Adds(w, f, A) == w[{}] = 0 /\ \A s \in SUBSET A : \A x \in s : w[s] = w[s \ {x}] + f[x]
LEMMA SumIsWeight ==
    ASSUME NEW A, IsFiniteSet(A), NEW f, NEW w, Adds(w, f, A)
    PROVE  SumOver(f, A) = w[A]
<1>a. w[{}] = 0 /\ \A s \in SUBSET A : \A x \in s : w[s] = w[s \ {x}] + f[x]
  BY DEF Adds
<1> DEFINE first(s) == CHOOSE x \in s : TRUE
           Body(g) == [s \in SUBSET A |-> IF s = {} THEN 0 ELSE g[s \ {first(s)}] + f[first(s)]]
           v == [s \in SUBSET A |-> w[s]]
           sum == CHOOSE g : g = Body(g)
<1>1. SumOver(f, A) = sum[A]
  BY Zenon DEF SumOver, FoldSet, MapThenFoldSet
<1>2. v = Body(v)
  <2>1. ASSUME NEW s \in SUBSET A
        PROVE  v[s] = IF s = {} THEN 0 ELSE v[s \ {first(s)}] + f[first(s)]
    <3>1. s # {} => first(s) \in s /\ s \ {first(s)} \in SUBSET A
      OBVIOUS
    <3> HIDE DEF first
    <3> QED
      BY <1>a, <3>1
  <2> HIDE DEF first
  <2> QED
    BY <2>1
<1>3. sum = Body(sum)
  <2> HIDE DEF Body
  <2> QED
    BY <1>2
<1> HIDE DEF sum
<1>4. \A s \in SUBSET A : sum[s] = IF s = {} THEN 0 ELSE sum[s \ {first(s)}] + f[first(s)]
  <2> HIDE DEF first
  <2> QED
    BY <1>3
<1>5. PICK n \in Nat : n = Cardinality(A)
  BY FS_CardinalityType
<1> DEFINE T == {k \in 0..n : \A s \in SUBSET A : Cardinality(s) = k => sum[s] = w[s]}
<1>6. \A s \in SUBSET A : IsFiniteSet(s) /\ Cardinality(s) \in 0..n
  <2> SUFFICES ASSUME NEW s \in SUBSET A PROVE IsFiniteSet(s) /\ Cardinality(s) \in 0..n
    OBVIOUS
  <2>1. IsFiniteSet(s) /\ Cardinality(s) <= Cardinality(A)
    BY FS_Subset
  <2>2. Cardinality(s) \in Nat
    BY <2>1, FS_CardinalityType
  <2> QED
    BY <1>5, <2>1, <2>2
<1>7. 0 \in T
  <2>1. ASSUME NEW s \in SUBSET A, Cardinality(s) = 0 PROVE sum[s] = w[s]
    <3>1. s = {}
      BY <1>6, <2>1, FS_EmptySet
    <3> QED
      BY <1>4, <1>a, <3>1
  <2> QED
    BY <2>1
<1>8. ASSUME NEW k \in 1..n, k - 1 \in T PROVE k \in T
  <2>1. ASSUME NEW s \in SUBSET A, Cardinality(s) = k PROVE sum[s] = w[s]
    <3>1. s # {}
      <4>1. Cardinality({}) = 0
        BY FS_EmptySet
      <4> QED
        BY <2>1, <4>1
    <3>2. PICK x : x = first(s)
      OBVIOUS
    <3>3. x \in s
      BY <3>1, <3>2
    <3> HIDE DEF first
    <3>4. s \ {x} \in SUBSET A
      OBVIOUS
    <3>5. Cardinality(s \ {x}) = k - 1
      BY <1>6, <2>1, <3>3, FS_RemoveElement
    <3>6. sum[s \ {x}] = w[s \ {x}]
      BY <1>8, <3>4, <3>5
    <3>7. sum[s] = sum[s \ {x}] + f[x]
      BY <1>4, <3>1, <3>2
    <3>8. w[s] = w[s \ {x}] + f[x]
      BY <1>a, <3>3
    <3> QED
      BY <3>6, <3>7, <3>8
  <2> QED
    BY <2>1
<1> HIDE DEF T, Body, v
<1>9. n \in T
  <2>1. 0..n \subseteq T
    BY <1>7, <1>8, UpToInduction
  <2> QED
    BY <2>1
<1>10. sum[A] = w[A]
  BY <1>5, <1>9 DEF T
<1> QED
  BY <1>1, <1>10

\* The sum over two parts, each with its own values, is that over both.
LEMMA SumsAdd ==
    ASSUME NEW S, IsFiniteSet(S), NEW f, \A x \in S : f[x] \in Int,
           NEW A, NEW B, A \cap B = {}, A \cup B = S,
           NEW g, \A x \in A : g[x] = f[x], NEW h, \A x \in B : h[x] = f[x]
    PROVE  SumOver(f, S) = SumOver(g, A) + SumOver(h, B)
<1>1. PICK w : Weighs(w, f, S)
  BY WeightsExist
<1>2. /\ w[{}] = 0
      /\ \A s \in SUBSET S, x \in S : x \in s => w[s] = w[s \ {x}] + f[x]
      /\ \A s, t \in SUBSET S : s \cap t = {} => w[s \cup t] = w[s] + w[t]
  BY <1>1 DEF Weighs
<1>3. A \in SUBSET S /\ B \in SUBSET S /\ IsFiniteSet(A) /\ IsFiniteSet(B)
  <2>1. A \in SUBSET S /\ B \in SUBSET S
    OBVIOUS
  <2>2. IsFiniteSet(A)
    BY <2>1, FS_Subset
  <2>3. IsFiniteSet(B)
    BY <2>1, FS_Subset
  <2> QED
    BY <2>1, <2>2, <2>3
<1>4. SumOver(f, S) = w[S]
  <2>1. ASSUME NEW s \in SUBSET S, NEW x \in s PROVE w[s] = w[s \ {x}] + f[x]
    <3>1. x \in S
      OBVIOUS
    <3> QED
      BY <1>2, <3>1, Zenon
  <2> QED
    <3>1. Adds(w, f, S)
      BY <1>2, <2>1 DEF Adds
    <3> QED
      BY <3>1, SumIsWeight
<1>5. SumOver(g, A) = w[A]
  <2>1. ASSUME NEW s \in SUBSET A, NEW x \in s PROVE w[s] = w[s \ {x}] + g[x]
    <3>1. s \in SUBSET S /\ x \in S /\ g[x] = f[x]
      BY <1>3
    <3>2. w[s] = w[s \ {x}] + f[x]
      BY <1>2, <3>1, Zenon
    <3> QED
      BY <3>1, <3>2
  <2> QED
    <3>1. Adds(w, g, A)
      BY <1>2, <2>1 DEF Adds
    <3> QED
      BY <1>3, <3>1, SumIsWeight
<1>6. SumOver(h, B) = w[B]
  <2>1. ASSUME NEW s \in SUBSET B, NEW x \in s PROVE w[s] = w[s \ {x}] + h[x]
    <3>1. s \in SUBSET S /\ x \in S /\ h[x] = f[x]
      BY <1>3
    <3>2. w[s] = w[s \ {x}] + f[x]
      BY <1>2, <3>1, Zenon
    <3> QED
      BY <3>1, <3>2
  <2> QED
    <3>1. Adds(w, h, B)
      BY <1>2, <2>1 DEF Adds
    <3> QED
      BY <1>3, <3>1, SumIsWeight
<1>7. w[A \cup B] = w[A] + w[B]
  BY <1>2, <1>3
<1> QED
  BY <1>4, <1>5, <1>6, <1>7

-----------------------------------------------------------------------------
(* EveryCellInOneZone.                                                      *)

\* The two zones of a split, and what they are between.
LEMMA SplitZones ==
    ASSUME NEW split, SplitOf(split)
    PROVE  \E low, high : /\ OfPlane(low) /\ OfPlane(high)
                          /\ ZoneIn(split.left, low, high) /\ ZoneIn(split.right, low, high)
<1>1. PICK low, high, right : SplitMeans(split, low, high, right)
  BY SplitIs
<1>2. /\ low \in Int \X Int /\ high \in Int \X Int /\ OfPlane(low) /\ OfPlane(high)
      /\ low[1] <= high[1] /\ low[2] <= high[2] /\ split.right = <<<<right>>>>
  BY <1>1 DEF SplitMeans, OfPlane
<1>3. RingIn(FrameOf(low, high), low, high)
  <2>1. OfPlane(low)
    BY <1>2
  <2>2. RingInBox(FrameOf(low, high), 4, low, high)
    BY <1>2, <2>1, FrameHolds
  <2> QED
    BY <2>2 DEF RingIn
<1>4. ASSUME NEW ring, RingWithin(ring, low, high) PROVE RingIn(ring, low, high)
  <2>1. RingInBox(ring, Len(ring), low, high)
    BY <1>2, <1>4, RingIsInBox
  <2> QED
    BY <2>1 DEF RingIn
<1>5. CASE split.left = <<<<FrameOf(low, high), right>>>> /\ RingWithin(right, low, high)
  <2>1. RingIn(right, low, high)
    BY <1>4, <1>5
  <2>2. ZoneIn(split.left, low, high) /\ ZoneIn(split.right, low, high)
    BY <1>2, <1>3, <1>5, <2>1 DEF ZoneIn
  <2> QED
    BY <1>2, <2>2
<1>6. ASSUME NEW ring, split.left = <<<<ring>>>>, CutOf(ring, right, low, high)
      PROVE  ZoneIn(split.left, low, high) /\ ZoneIn(split.right, low, high)
  <2>1. RingWithin(ring, low, high) /\ RingWithin(right, low, high)
    BY <1>6 DEF CutOf
  <2>2. RingIn(ring, low, high) /\ RingIn(right, low, high)
    BY <1>4, <2>1
  <2> QED
    BY <1>2, <1>6, <2>2 DEF ZoneIn
<1> QED
  BY <1>1, <1>2, <1>5, <1>6 DEF SplitMeans

\* The statistics of cells, and the values they are of.
ValuesOf(f, C) == {f[p] : p \in C}
LEMMA StatisticsAre ==
    ASSUME NEW f, NEW C, C # {}
    PROVE  /\ StatisticValue("count", f, C)[1] = Cardinality(C)
           /\ StatisticValue("sum", f, C)[1] = SumOver(f, C)
           /\ StatisticValue("min", f, C)[1] = Min(ValuesOf(f, C))
           /\ StatisticValue("max", f, C)[1] = Max(ValuesOf(f, C))
<1>1. StatisticValue("count", f, C) = <<Cardinality(C)>>
  BY DEF StatisticValue
<1>2. StatisticValue("sum", f, C) = <<SumOver(f, C)>>
  BY DEF StatisticValue, SumOver
<1>3. StatisticValue("min", f, C) = <<Min(ValuesOf(f, C))>>
  BY DEF StatisticValue, ValuesOf
<1>4. StatisticValue("max", f, C) = <<Max(ValuesOf(f, C))>>
  BY DEF StatisticValue, ValuesOf
<1> QED
  BY <1>1, <1>2, <1>3, <1>4

\* The least and the greatest value of a finite set of cells.
LEMMA EndsOfCells ==
    ASSUME NEW C, IsFiniteSet(C), C # {}, NEW f, \A p \in C : f[p] \in Int,
           NEW V, V = ValuesOf(f, C)
    PROVE  /\ V \subseteq Int /\ Min(V) \in V /\ Max(V) \in V
           /\ \A v \in V : Min(V) <= v /\ v <= Max(V)
<1>1. PICK seq \in Seq(C) : \A p \in C : \E i \in 1..Len(seq) : seq[i] = p
  BY DEF IsFiniteSet
<1>2. PICK n \in Nat : n = Len(seq) /\ seq \in [1..n -> C]
  OBVIOUS
<1>3. n # 0
  <2>1. PICK p \in C : TRUE
    OBVIOUS
  <2>2. PICK i \in 1..n : seq[i] = p
    BY <1>1, <1>2
  <2> QED
    BY <2>2
<1>4. PICK row \in [1..n -> Int] : \A i \in 1..n : row[i] = f[seq[i]]
  <2> DEFINE row == [i \in 1..n |-> f[seq[i]]]
  <2>1. row \in [1..n -> Int] /\ \A i \in 1..n : row[i] = f[seq[i]]
    BY <1>2
  <2> QED
    BY <2>1
<1>5. V = RowValues(row, n)
  <2>1. ASSUME NEW v \in V PROVE v \in RowValues(row, n)
    <3>1. PICK p \in C : v = f[p]
      BY DEF ValuesOf
    <3>2. PICK i \in 1..n : seq[i] = p
      BY <1>1, <1>2
    <3> QED
      BY <1>4, <3>1, <3>2 DEF RowValues
  <2>2. ASSUME NEW i \in 1..n PROVE row[i] \in V
    <3>1. seq[i] \in C /\ row[i] = f[seq[i]]
      BY <1>2, <1>4
    <3> QED
      BY <3>1 DEF ValuesOf
  <2> QED
    BY <2>1, <2>2 DEF RowValues
<1>6. V \subseteq Int
  BY DEF ValuesOf
<1>7. n \in Nat \ {0}
  BY <1>3
<1> QED
  BY <1>5, <1>6, <1>7, EndsOfValues

\* The least and the greatest of two sets of cells together.
LEMMA EndsOfParts ==
    ASSUME NEW A, NEW B, IsFiniteSet(A), IsFiniteSet(B), A # {}, B # {},
           NEW f, \A p \in A \cup B : f[p] \in Int,
           NEW g, \A p \in A \cup B : g[p] = f[p]
    PROVE  /\ Min(ValuesOf(f, A \cup B)) = Lesser(Min(ValuesOf(g, A)), Min(ValuesOf(g, B)))
           /\ Max(ValuesOf(f, A \cup B)) = Greater(Max(ValuesOf(g, A)), Max(ValuesOf(g, B)))
<1>1. PICK U, V, W : U = ValuesOf(g, A) /\ V = ValuesOf(g, B) /\ W = ValuesOf(f, A \cup B)
  OBVIOUS
<1>2. W = U \cup V
  <2>1. \A v : v \in W <=> \E p \in A \cup B : v = f[p]
    BY <1>1 DEF ValuesOf
  <2>2. \A v : v \in U <=> \E p \in A : v = f[p]
    BY <1>1 DEF ValuesOf
  <2>3. \A v : v \in V <=> \E p \in B : v = f[p]
    BY <1>1 DEF ValuesOf
  <2> QED
    BY <2>1, <2>2, <2>3
<1>3. IsFiniteSet(A \cup B) /\ A \cup B # {}
  BY FS_Union
<1>4. /\ U \subseteq Int /\ Min(U) \in U /\ Max(U) \in U
      /\ \A v \in U : Min(U) <= v /\ v <= Max(U)
  <2>1. \A p \in A : g[p] \in Int
    OBVIOUS
  <2> QED
    BY <1>1, <2>1, EndsOfCells
<1>5. /\ V \subseteq Int /\ Min(V) \in V /\ Max(V) \in V
      /\ \A v \in V : Min(V) <= v /\ v <= Max(V)
  <2>1. \A p \in B : g[p] \in Int
    OBVIOUS
  <2> QED
    BY <1>1, <2>1, EndsOfCells
<1>6. /\ W \subseteq Int /\ Min(W) \in W /\ Max(W) \in W
      /\ \A v \in W : Min(W) <= v /\ v <= Max(W)
  BY <1>1, <1>3, EndsOfCells
<1>7. PICK a, b, c \in Int : a = Min(U) /\ b = Min(V) /\ c = Min(W)
  BY <1>4, <1>5, <1>6
<1>8. PICK x, y, z \in Int : x = Max(U) /\ y = Max(V) /\ z = Max(W)
  BY <1>4, <1>5, <1>6
<1>9. a \in W /\ b \in W /\ x \in W /\ y \in W /\ (c \in U \/ c \in V) /\ (z \in U \/ z \in V)
  BY <1>2, <1>4, <1>5, <1>6, <1>7, <1>8
<1>10. c <= a /\ c <= b /\ x <= z /\ y <= z
  BY <1>6, <1>7, <1>8, <1>9
<1>11. (a <= c \/ b <= c) /\ (z <= x \/ z <= y)
  BY <1>4, <1>5, <1>7, <1>8, <1>9
<1>12. c = Lesser(a, b) /\ z = Greater(x, y)
  BY <1>10, <1>11 DEF Lesser, Greater
<1> QED
  BY <1>1, <1>7, <1>8, <1>12

\* Of any raster the two zones of a split have each cell of the frame once, and their
\* counts, sums and ends make those of the frame.
THEOREM ZonesAlwaysShareOut ==
    ASSUME NEW grid, RasterOf(grid), NEW split, SplitOf(split)
    PROVE  ZonesShareOut(grid, split, ZonalStatistics(grid, <<split.left, split.right>>))
<1>1. PICK low, high : /\ OfPlane(low) /\ OfPlane(high)
                       /\ ZoneIn(split.left, low, high) /\ ZoneIn(split.right, low, high)
  BY SplitZones
<1>2. PICK window : window = WindowOf(grid, <<split.left, split.right>>)
  OBVIOUS
<1>3. PICK zs : zs = ZonalStatistics(grid, <<split.left, split.right>>)
  OBVIOUS
<1>4. PICK A, B, S : A = OverlappingPure(grid, split.left) /\ B = OverlappingPure(grid, split.right)
                     /\ S = OverlappingPure(grid, split.frame)
  OBVIOUS
<1>5. OverlappingFast(window, split.left) = A /\ \A p \in A : window[p] = grid[p]
  BY <1>1, <1>2, <1>4, FastIsPure
<1>6. OverlappingFast(window, split.right) = B /\ \A p \in B : window[p] = grid[p]
  BY <1>1, <1>2, <1>4, FastIsPure
<1>7. /\ zs[1] = ZoneStat(window, split.left) /\ zs[2] = ZoneStat(window, split.right)
  <2>1. DOMAIN <<split.left, split.right>> = 1..2
    OBVIOUS
  <2>2. zs = [i \in 1..2 |-> ZoneStat(window, <<split.left, split.right>>[i])]
    BY <1>2, <1>3, <2>1 DEF ZonalStatistics
  <2> QED
    BY <2>2
<1>8. /\ zs[1].cells = A /\ (zs[1].no_data <=> A = {})
      /\ \A name \in STATISTICS : zs[1].statistics[name] = StatisticValue(name, window, A)
  <2>1. zs[1] = [cells |-> A, no_data |-> A = {},
                 statistics |-> [name \in STATISTICS |-> StatisticValue(name, window, A)]]
    BY <1>5, <1>7, Zenon DEF ZoneStat
  <2>2. PICK stats, none : stats = [name \in STATISTICS |-> StatisticValue(name, window, A)]
                           /\ none = (A = {})
    OBVIOUS
  <2>3. zs[1] = [cells |-> A, no_data |-> none, statistics |-> stats]
    BY <2>1, <2>2, Zenon
  <2>4. zs[1].cells = A /\ zs[1].no_data = none /\ zs[1].statistics = stats
    BY <2>3
  <2>5. \A name \in STATISTICS : stats[name] = StatisticValue(name, window, A)
    BY <2>2
  <2>6. zs[1].no_data <=> A = {}
    BY <2>2, <2>4, Zenon
  <2> QED
    BY <2>4, <2>5, <2>6
<1>9. /\ zs[2].cells = B /\ (zs[2].no_data <=> B = {})
      /\ \A name \in STATISTICS : zs[2].statistics[name] = StatisticValue(name, window, B)
  <2>1. zs[2] = [cells |-> B, no_data |-> B = {},
                 statistics |-> [name \in STATISTICS |-> StatisticValue(name, window, B)]]
    BY <1>6, <1>7, Zenon DEF ZoneStat
  <2>2. PICK stats, none : stats = [name \in STATISTICS |-> StatisticValue(name, window, B)]
                           /\ none = (B = {})
    OBVIOUS
  <2>3. zs[2] = [cells |-> B, no_data |-> none, statistics |-> stats]
    BY <2>1, <2>2, Zenon
  <2>4. zs[2].cells = B /\ zs[2].no_data = none /\ zs[2].statistics = stats
    BY <2>3
  <2>5. \A name \in STATISTICS : stats[name] = StatisticValue(name, window, B)
    BY <2>2
  <2>6. zs[2].no_data <=> B = {}
    BY <2>2, <2>4, Zenon
  <2> QED
    BY <2>4, <2>5, <2>6
<1>10. A \cap B = {} /\ A \cup B = S
  <2>1. \A p \in Valid(grid) : OfPlane(p)
    BY DEF Valid, RasterOf, OfPlane
  <2>2. \A p \in Valid(grid) :
          /\ PointInGeometry(split.frame, p) <=> PointInGeometry(split.left, p) \/ PointInGeometry(split.right, p)
          /\ ~(PointInGeometry(split.left, p) /\ PointInGeometry(split.right, p))
    BY <2>1, PointsAreShared
  <2>3. \A p : p \in A <=> p \in Valid(grid) /\ PointInGeometry(split.left, p)
    BY <1>4 DEF OverlappingPure
  <2>4. \A p : p \in B <=> p \in Valid(grid) /\ PointInGeometry(split.right, p)
    BY <1>4 DEF OverlappingPure
  <2>5. \A p : p \in S <=> p \in Valid(grid) /\ PointInGeometry(split.frame, p)
    BY <1>4 DEF OverlappingPure
  <2> QED
    BY <2>2, <2>3, <2>4, <2>5
<1>11. /\ IsFiniteSet(S) /\ IsFiniteSet(A) /\ IsFiniteSet(B)
       /\ \A p \in S : grid[p] \in Int /\ window[p] = grid[p]
  <2>1. S \subseteq DOMAIN grid /\ A \subseteq DOMAIN grid /\ B \subseteq DOMAIN grid
    BY <1>4 DEF OverlappingPure, Valid
  <2>2. IsFiniteSet(DOMAIN grid) /\ \A p \in DOMAIN grid : grid[p] \in Int
    BY DEF RasterOf
  <2>3. S \in SUBSET DOMAIN grid /\ A \in SUBSET DOMAIN grid /\ B \in SUBSET DOMAIN grid
    BY <2>1
  <2>4. IsFiniteSet(S)
    BY <2>2, <2>3, FS_Subset
  <2>5. IsFiniteSet(A)
    BY <2>2, <2>3, FS_Subset
  <2>6. IsFiniteSet(B)
    BY <2>2, <2>3, FS_Subset
  <2> QED
    BY <1>5, <1>6, <1>10, <2>1, <2>2, <2>4, <2>5, <2>6
<1>12. ASSUME A # {}, B # {}
       PROVE  /\ \A name \in {"count", "sum"} :
                    zs[1].statistics[name][1] + zs[2].statistics[name][1] = StatisticValue(name, grid, S)[1]
              /\ StatisticValue("min", grid, S)[1]
                     = Lesser(zs[1].statistics["min"][1], zs[2].statistics["min"][1])
              /\ StatisticValue("max", grid, S)[1]
                     = Greater(zs[1].statistics["max"][1], zs[2].statistics["max"][1])
  <2>1. S # {}
    BY <1>10, <1>12
  <2>2. {"count", "sum", "min", "max"} \subseteq STATISTICS
    BY DEF STATISTICS
  <2>3. /\ StatisticValue("count", grid, S)[1] = Cardinality(S)
        /\ StatisticValue("sum", grid, S)[1] = SumOver(grid, S)
        /\ StatisticValue("min", grid, S)[1] = Min(ValuesOf(grid, S))
        /\ StatisticValue("max", grid, S)[1] = Max(ValuesOf(grid, S))
    BY <2>1, StatisticsAre
  <2>4. /\ zs[1].statistics["count"][1] = Cardinality(A)
        /\ zs[1].statistics["sum"][1] = SumOver(window, A)
        /\ zs[1].statistics["min"][1] = Min(ValuesOf(window, A))
        /\ zs[1].statistics["max"][1] = Max(ValuesOf(window, A))
    BY <1>8, <1>12, <2>2, StatisticsAre
  <2>5. /\ zs[2].statistics["count"][1] = Cardinality(B)
        /\ zs[2].statistics["sum"][1] = SumOver(window, B)
        /\ zs[2].statistics["min"][1] = Min(ValuesOf(window, B))
        /\ zs[2].statistics["max"][1] = Max(ValuesOf(window, B))
    BY <1>9, <1>12, <2>2, StatisticsAre
  <2>6. Cardinality(S) = Cardinality(A) + Cardinality(B)
    BY <1>10, <1>11, ApartAdd
  <2>7. SumOver(grid, S) = SumOver(window, A) + SumOver(window, B)
    BY <1>5, <1>6, <1>10, <1>11, SumsAdd
  <2>8. /\ Min(ValuesOf(grid, S)) = Lesser(Min(ValuesOf(window, A)), Min(ValuesOf(window, B)))
        /\ Max(ValuesOf(grid, S)) = Greater(Max(ValuesOf(window, A)), Max(ValuesOf(window, B)))
    <3>1. /\ \A p \in A \cup B : grid[p] \in Int
          /\ \A p \in A \cup B : window[p] = grid[p]
      BY <1>10, <1>11
    <3>2. /\ Min(ValuesOf(grid, A \cup B)) = Lesser(Min(ValuesOf(window, A)), Min(ValuesOf(window, B)))
          /\ Max(ValuesOf(grid, A \cup B)) = Greater(Max(ValuesOf(window, A)), Max(ValuesOf(window, B)))
      BY <1>11, <1>12, <3>1, EndsOfParts
    <3> QED
      BY <1>10, <3>2
  <2> QED
    BY <2>3, <2>4, <2>5, <2>6, <2>7, <2>8
<1>13. zs[1].no_data /\ zs[2].no_data <=> S = {}
  BY <1>8, <1>9, <1>10
<1>14. ZonesShareOut(grid, split, zs)
  BY <1>4, <1>8, <1>9, <1>10, <1>12, <1>13 DEF ZonesShareOut
<1> QED
  BY <1>3, <1>14

\* The others share out nothing.
LEMMA OthersShareNothing ==
    ASSUME call'.tool # "zones"
    PROVE  EveryCellInOneZone'
  BY DEF EveryCellInOneZone, Called

\* Two zones that share an edge, or a zone with a hole and what fills the hole, share
\* out the cells of a raster and their statistics, with nothing counted twice or left
\* out (geometry.py, zonal.py, zonal_fast.py): for a border of any number of vertices,
\* wherever they lie in the frame, and rasters of any size and values.
THEOREM CellsAreInOneZone == CallsSpec => []EveryCellInOneZone
<1>1. CallsInit => EveryCellInOneZone
  BY DEF CallsInit, Idle, EveryCellInOneZone, Called
<1>2. CallsNext => EveryCellInOneZone'
  <2>1. CallSource => EveryCellInOneZone'
    BY SourceNames, OthersShareNothing DEF CallSource
  <2>2. CallImage => EveryCellInOneZone'
    BY ImageNames, OthersShareNothing DEF CallImage
  <2>3. CallFile => EveryCellInOneZone'
    BY FileNames, OthersShareNothing DEF CallFile
  <2>4. FindZones => EveryCellInOneZone'
    <3> SUFFICES ASSUME FindZones PROVE EveryCellInOneZone'
      OBVIOUS
    <3>1. PICK in \in [split : Splits, grid : Grids] :
             /\ call' = [tool |-> "zones", in |-> in]
             /\ out' = ZonalStatistics(in.grid, <<in.split.left, in.split.right>>)
      BY Zenon DEF FindZones, Serve
    <3>2. call'.tool = "zones" /\ call'.in = in
      BY <3>1
    <3>3. RasterOf(in.grid) /\ SplitOf(in.split)
      BY CallsAssumption
    <3>4. ZonesShareOut(in.grid, in.split, out')
      BY <3>1, <3>3, ZonesAlwaysShareOut
    <3> QED
      BY <3>2, <3>4 DEF EveryCellInOneZone, Called
  <2>5. Compute => EveryCellInOneZone'
    BY <2>4, ComputeNames, OthersShareNothing DEF Compute
  <2>6. Return => EveryCellInOneZone'
    BY OthersShareNothing DEF Return, Idle
  <2> QED
    BY <2>1, <2>2, <2>3, <2>5, <2>6 DEF CallsNext
<1>3. EveryCellInOneZone /\ UNCHANGED callVars => EveryCellInOneZone'
  BY DEF callVars, EveryCellInOneZone, Called
<1> QED
  BY <1>1, <1>2, <1>3, PTL DEF CallsSpec

=============================================================================
