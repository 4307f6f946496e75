------------------------------ MODULE CogFormat -----------------------------
(***************************************************************************)
(* What the TIFF format says of the files that CogReader reads (external:  *)
(* it is not in the repository): where a sample is stored, how a row is    *)
(* differenced, how bytes are compressed.                                  *)
(***************************************************************************)
EXTENDS CogReader

\* The pixel and band of a sample of a tile.
Stored(m, index, sample) ==
    LET t == IF m.planar THEN index % TilesPerPlane(m) ELSE index
        pixel == IF m.planar THEN sample ELSE sample \div m.samples
    IN  [row |-> (t \div TilesAcross(m)) * m.tileHeight + (pixel \div m.tileWidth),
         col |-> (t % TilesAcross(m)) * m.tileWidth + (pixel % m.tileWidth),
         band |-> 1 + (IF m.planar THEN index \div TilesPerPlane(m) ELSE sample % m.samples)]

\* Horizontal differences, kept in as many bits, with a sign or without; of floats,
\* their bits are differenced.
Wrapped(d, bits, format) ==
    IF format = "signed" THEN ((d + PowerOf2(bits - 1)) % PowerOf2(bits)) - PowerOf2(bits - 1)
    ELSE d % PowerOf2(bits)
Differenced(row) ==
    [i \in DOMAIN row.values |->
        IF i <= row.spp THEN row.values[i]
        ELSE Wrapped(row.values[i] - row.values[i - row.spp], row.bits, row.format)]

\* The bytes of the samples, plane by plane, then differenced.
FloatDifferenced(row) ==
    LET n == Len(row.samples)
        bps == Len(row.samples[1])
        plane == [i \in 1..(n * bps) |-> row.samples[((i - 1) % n) + 1][((i - 1) \div n) + 1]]
    IN  [i \in DOMAIN plane |-> IF i <= row.spp THEN plane[i]
                                ELSE (plane[i] - plane[i - row.spp]) % Bytes]

\* LZW: the longest string in the table is written; the width grows when the table
\* is full, and at the last width the table starts anew one entry earlier.
CodeOf(so) == [code |-> FirstPos(so.table, LAMBDA s : s = so.prefix) - 1, width |-> so.width]
LzwEmit(so, symbol) ==
    LET table == Append(so.table, Append(so.prefix, symbol))
        width == IF Len(table) = PowerOf2(so.width) THEN so.width + 1 ELSE so.width
        codes == Append(so.codes, CodeOf(so))
    IN  IF Len(table) = PowerOf2(LastWidth) - 1
        THEN [table |-> FirstTable, prefix |-> <<symbol>>, width |-> FirstWidth,
              codes |-> Append(codes, [code |-> LzwClear, width |-> width])]
        ELSE [table |-> table, prefix |-> <<symbol>>, width |-> width, codes |-> codes]
LzwAdd(so, symbol) ==
    IF Contains(so.table, Append(so.prefix, symbol))
    THEN [so EXCEPT !.prefix = Append(so.prefix, symbol)] ELSE LzwEmit(so, symbol)
LzwBegin == [table |-> FirstTable, prefix |-> <<>>, width |-> FirstWidth,
             codes |-> <<[code |-> LzwClear, width |-> FirstWidth]>>]
LzwEncode(data) ==
    LET wrote[n \in 0..Len(data)] ==
          IF n = 0 THEN LzwBegin ELSE LzwAdd(wrote[n - 1], data[n])
        end == wrote[Len(data)]
    IN  Append(end.codes, CodeOf(end))

-----------------------------------------------------------------------------

\* Each cell of a window is the sample of its own pixel and band, and only tiles
\* that the window meets were fetched.
PixelsAreRight(in, pixels) ==
    /\ \A k \in DOMAIN pixels :
          Stored(in.m, pixels[k][1], pixels[k][2]) =
             [row |-> in.win.row + (k \div in.win.width), col |-> in.win.col + (k % in.win.width),
              band |-> in.band]
    /\ \A t \in TilesOf(in.m, in.win) : Blitted(in.m, in.win, t) # {}

\* A cell of the image whose centre is in the box is in its window, which lies in
\* the image; where the image is not turned, the window's rows and columns all
\* meet the box, whichever way they run.
WindowIsRight(in, win) ==
    LET Holds(col, row) == /\ win.col <= col /\ col < win.col + win.width
                           /\ win.row <= row /\ row < win.row + win.height
        InBox2(c) == /\ 2 * in.box[1] <= c[1] /\ c[1] <= 2 * in.box[3]
                     /\ 2 * in.box[2] <= c[2] /\ c[2] <= 2 * in.box[4]
        Meets(from, size, i, low, high) ==
            /\ Lesser(from + size * i, from + size * (i + 1)) < high
            /\ low < Greater(from + size * i, from + size * (i + 1))
    IN  /\ \A col \in 0..(in.m.width - 1), row \in 0..(in.m.height - 1) :
              InBox2(CellCenter(in.gt, col, row)) => Holds(col, row)
        /\ win.width > 0 =>
              /\ win.col + win.width <= in.m.width /\ win.row + win.height <= in.m.height
              /\ WindowGeotransform(in.gt, win)[1] + in.gt[3] * (0 - win.row) =
                    in.gt[1] + in.gt[2] * win.col
              /\ in.gt[3] = 0 /\ in.gt[5] = 0 =>
                    /\ \A c \in win.col..(win.col + win.width - 1) :
                          Meets(in.gt[1], in.gt[2], c, in.box[1], in.box[3])
                    /\ \A r \in win.row..(win.row + win.height - 1) :
                          Meets(in.gt[4], in.gt[6], r, in.box[2], in.box[4])

=============================================================================
