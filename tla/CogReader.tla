----------------------------- MODULE CogReader ------------------------------
(***************************************************************************)
(* geo-common: reading windows of a Cloud-Optimized GeoTIFF by byte ranges *)
(* (cog.py).  A window is turned into pixels, the tiles it meets are       *)
(* fetched, decompressed, their predictor is undone, and their samples are *)
(* copied.  Pixels are counted from 0.                                     *)
(***************************************************************************)
EXTENDS ToolCall, Integers, SequencesExt

\* The number of values of a byte, 256 in the code; the table of the LZW decoder
\* holds Symbols strings, then the two codes below, and its codes start with
\* FirstWidth bits, 256 and 9 in the code; no width ends with the first entry.
CONSTANTS Bytes, Symbols, FirstWidth, LastWidth
ASSUME CogAssumption == /\ {Bytes, Symbols, FirstWidth, LastWidth} \subseteq Nat \ {0}
                        /\ Symbols + 3 < PowerOf2(FirstWidth) /\ FirstWidth <= LastWidth
LzwClear == Symbols

-----------------------------------------------------------------------------
(* Opening: each of these in the header or in the tags is refused.         *)

CogFlaws == {"too_small", "byte_order", "bigtiff", "magic", "no_dimensions", "striped",
             "mixed_bits", "compression", "predictor", "predictor3_of_integers",
             "sample_format", "bit_depth", "tile_index"}
OpenSays(in) == IF in.flaw \in CogFlaws THEN "upstream" ELSE "ok"

-----------------------------------------------------------------------------
(* Geometry: m describes the image, win a window of it, both in pixels.    *)

CeilDiv(a, b) == 0 - ((0 - a) \div b)
TilesAcross(m) == CeilDiv(m.width, m.tileWidth)
TilesDown(m) == CeilDiv(m.height, m.tileHeight)
TilesPerPlane(m) == TilesAcross(m) * TilesDown(m)

\* The tiles that read_window_pixels fetches, as <<row, column>>.
LastTile(off, extent, tile) == (off + extent - 1) \div tile
TilesOf(m, win) ==
    ((win.row \div m.tileHeight)..LastTile(win.row, win.height, m.tileHeight))
        \X ((win.col \div m.tileWidth)..LastTile(win.col, win.width, m.tileWidth))

\* Where _read_tile finds the tile, and the sample of a pixel in it.
TileIndex(m, t, band) ==
    t[1] * TilesAcross(m) + t[2] + (IF m.planar THEN (band - 1) * TilesPerPlane(m) ELSE 0)
SampleIndex(m, pixel, band) ==
    IF m.planar THEN pixel ELSE pixel * m.samples + band - 1

\* _blit_tile: what of the window lies in a tile, and the copy.
InTile(off, extent, tile, t) ==
    Greater(off, t * tile)..(Lesser(off + extent, (t + 1) * tile) - 1)
Blitted(m, win, t) == InTile(win.row, win.height, m.tileHeight, t[1])
                      \X InTile(win.col, win.width, m.tileWidth, t[2])
\* Of each pixel of the window: the tile it is read from, and the sample of that.
ReadWindowPixels(m, win, band) ==
    [k \in 0..(win.width * win.height - 1) |->
        LET p == <<win.row + (k \div win.width), win.col + (k % win.width)>>
            hits == {t \in TilesOf(m, win) : p \in Blitted(m, win, t)}
            t == CHOOSE t \in hits : TRUE
            pixel == (p[1] - t[1] * m.tileHeight) * m.tileWidth + p[2] - t[2] * m.tileWidth
        IN  IF hits = {} THEN <<"fill">>
            ELSE <<TileIndex(m, t, band), SampleIndex(m, pixel, band)>>]

-----------------------------------------------------------------------------
(* From the world to pixels; gt is <<x, dx per column, dx per row, y, dy   *)
(* per column, dy per row>>.                                               *)

Det(gt) == gt[2] * gt[6] - gt[3] * gt[5]
\* The column and the row of a point, times the determinant, made positive.
WorldToPixel(x, y, gt) ==
    LET dx == x - gt[1]
        dy == y - gt[4]
        sign == IF Det(gt) < 0 THEN 0 - 1 ELSE 1
    IN  <<sign * (gt[6] * dx - gt[3] * dy), sign * (gt[2] * dy - gt[5] * dx)>>

Corners(box, gt) == {WorldToPixel(x, y, gt) : x \in {box[1], box[3]}, y \in {box[2], box[4]}}
ResolveWindow(box, m, gt) ==
    LET det == IF Det(gt) < 0 THEN 0 - Det(gt) ELSE Det(gt)
        Low(i) == Greater(0, Min({c[i] : c \in Corners(box, gt)}) \div det)
        High(i, extent) == Lesser(extent, CeilDiv(Max({c[i] : c \in Corners(box, gt)}), det))
        width == High(1, m.width) - Low(1)
        height == High(2, m.height) - Low(2)
        empty == width <= 0 \/ height <= 0
    IN  [col |-> Low(1), row |-> Low(2), width |-> IF empty THEN 0 ELSE width,
         height |-> IF empty THEN 0 ELSE height]
WindowGeotransform(gt, win) ==
    <<gt[1] + gt[2] * win.col + gt[3] * win.row, gt[2], gt[3],
      gt[4] + gt[5] * win.col + gt[6] * win.row, gt[5], gt[6]>>
\* The centre of a cell, in half units.
CellCenter(gt, col, row) ==
    <<2 * gt[1] + gt[2] * (2 * col + 1) + gt[3] * (2 * row + 1),
      2 * gt[4] + gt[5] * (2 * col + 1) + gt[6] * (2 * row + 1)>>

-----------------------------------------------------------------------------
(* Decoding: LZW.                                                          *)

FirstTable == [i \in 1..(Symbols + 2) |-> IF i <= Symbols THEN <<i - 1>> ELSE <<>>]
LzwStart == [table |-> FirstTable, old |-> <<>>, fresh |-> FALSE, width |-> FirstWidth,
             out |-> <<>>]

\* A mistake: the width grows when the table is full.
GrownLate(table, width) ==
    IF Len(table) = PowerOf2(width) /\ width < LastWidth THEN width + 1 ELSE width
\* The table is one entry behind the encoder's, so the width grows one entry early.
Grown(table, width) ==
    IF Len(table) = PowerOf2(width) - 1 /\ width < LastWidth THEN width + 1 ELSE width

\* One code of the stream; it was written with item.width bits, and is read as
\* another code with another number of them: what comes out is then garbled, for
\* which a symbol stands that is none.
Garbled == <<Symbols>>
LzwStep(so, item) ==
    IF so.out = Garbled \/ item.width # so.width THEN [so EXCEPT !.out = Garbled]
    ELSE IF item.code = LzwClear
    THEN [LzwStart EXCEPT !.out = so.out, !.fresh = TRUE]
    ELSE LET entry == IF item.code < Len(so.table) THEN so.table[item.code + 1]
                      ELSE so.old \o Take(so.old, 1)
             table == IF so.fresh THEN so.table ELSE Append(so.table, so.old \o Take(entry, 1))
         IN  [table |-> table, old |-> entry, fresh |-> FALSE,
              width |-> IF so.fresh THEN so.width ELSE Grown(table, so.width),
              out |-> so.out \o entry]
LzwDecode(codes) ==
    LET read[n \in 0..Len(codes)] ==
          IF n = 0 THEN LzwStart ELSE LzwStep(read[n - 1], codes[n])
    IN  read[Len(codes)].out

-----------------------------------------------------------------------------
(* Decoding: predictors, on one row of a tile; cols pixels of spp samples. *)
(* A float stands for itself as a number: FloatOf its bits, of which the   *)
(* lowest is its fraction and the others are its exponent.                 *)

SampleFormats == {"unsigned", "signed", "float"}
FloatOf(pattern) == IF pattern = 0 THEN 0 ELSE (2 + (pattern % 2)) * PowerOf2(pattern \div 2)

\* Samples are unpacked as they are told to be, whatever the predictor.
Unpacked(patterns, format) ==
    IF format = "float" THEN [i \in DOMAIN patterns |-> FloatOf(patterns[i])] ELSE patterns

\* Predictor 2: values are added up along the row; integers are masked to their
\* width, floats are not.
UndoHorizontal(values, spp, bits, format) ==
    LET Masked(v) == IF format = "float" THEN v ELSE v % PowerOf2(bits)
        undone[i \in DOMAIN values] ==
            IF i <= spp THEN values[i] ELSE Masked(values[i] + undone[i - spp])
    IN  undone
DecodeRow(stored, row) ==
    UndoHorizontal(Unpacked(stored, row.format), row.spp, row.bits, row.format)

\* Predictor 3: the bytes are added up, then gathered from one plane per byte.
UndoFloat(row, values, spp, bps) ==
    LET undone[i \in DOMAIN row] ==
            IF i <= spp THEN row[i] ELSE (row[i] + undone[i - spp]) % Bytes
    IN  [k \in DOMAIN row |-> undone[((k - 1) % bps) * values + ((k - 1) \div bps) + 1]]

-----------------------------------------------------------------------------
(* Reading a raster, for all that need one (raster_read.py).               *)

\* An error page is taken for the bytes of the file, which it fails to be.
RangeSays(answer) == IF answer = "4xx" THEN "upstream" ELSE answer
ReadStages(in) ==
    <<Ask("head", RangeSays(in.head)), Check(OpenSays(in)),
      CheckThat(in.bandExists, "validation")>>
    \o (IF in.overlaps THEN <<Ask("tiles", RangeSays(in.tiles))>> ELSE <<>>)
ReadValue(in) == IF in.overlaps THEN "cells" ELSE "no cells"

\* read_window and band_math: a window beside the image is an error.
OutsideStage(in) == CheckThat(in.overlaps, "validation")
ReadWindowStages(in) ==
    <<Ask("head", RangeSays(in.head)), Check(OpenSays(in)),
      CheckThat(in.bandExists, "validation"), OutsideStage(in),
      Ask("tiles", RangeSays(in.tiles))>>

=============================================================================
