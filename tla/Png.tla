-------------------------------- MODULE Png --------------------------------
(***************************************************************************)
(* What pnglite.c and image.c of csf_assign02 do to the bytes of a picture *)
(* on their way from the rows of a PNG file to the pixels of an image, and *)
(* back.  A row is a sequence of bytes; the row above the first one is     *)
(* NoRow.  A pixel is the record of ImgProc, r its highest byte.           *)
(***************************************************************************)
EXTENDS Integers, Sequences, SequencesExt

NoRow == << >>

FilterTypes == 0..4

AbsDiff(x, y) == IF x < y THEN y - x ELSE x - y

\* Mutant: of two that are equally near, the later one.
png_paeth_later(a, b, c) ==
    LET pa == AbsDiff(b, c)
        pb == AbsDiff(a, c)
        pc == AbsDiff(a + b, 2 * c)
    IN  IF pa < pb /\ pa < pc THEN a ELSE IF pb < pc THEN b ELSE c

\* Of left, above and above left the one nearest to a + b - c.
png_paeth(a, b, c) ==
    LET pa == AbsDiff(b, c)
        pb == AbsDiff(a, c)
        pc == AbsDiff(a + b, 2 * c)
    IN  IF pa <= pb /\ pa <= pc THEN a ELSE IF pb <= pc THEN b ELSE c

\* What a filter added to a byte, from the bytes left, above and above left.
Predicted(filter, a, b, c) ==
    CASE filter = 0 -> 0
      [] filter = 1 -> a
      [] filter = 2 -> b
      [] filter = 3 -> (a + b) \div 2
      [] filter = 4 -> png_paeth(a, b, c)

\* png_filter_sub, ..., png_filter_paeth: the row they write, from the row of
\* the file and the one they wrote before it.
unfiltered(filter, stride, in, prev_line) ==
    LET Above(k) == IF prev_line = NoRow THEN 0 ELSE prev_line[k]
        out[k \in DOMAIN in] ==
            (in[k] + Predicted(filter, IF k > stride THEN out[k - stride] ELSE 0, Above(k),
                               IF k > stride THEN Above(k - stride) ELSE 0)) % 256
    IN  [k \in DOMAIN in |-> out[k]]

\* Bytes in the order of memory, as the uint32_t the processor sees there.
LoadWord(little_endian, bytes) ==
    LET b == IF little_endian THEN Reverse(bytes) ELSE bytes
    IN  [r |-> b[1], g |-> b[2], b |-> b[3], a |-> b[4]]

StoreWord(little_endian, p) ==
    LET b == <<p.r, p.g, p.b, p.a>>
    IN  IF little_endian THEN Reverse(b) ELSE b

byteswap(p) == [r |-> p.a, g |-> p.b, b |-> p.g, a |-> p.r]

BytesAt(bytes, n, k) == SubSeq(bytes, n * k + 1, n * k + n)

\* img_read: the pixels of a picture of three bytes a pixel, and of four.
ExpandTruecolor(raw, num_pixels) ==
    [k \in 0..(num_pixels - 1) |->
        LET b == BytesAt(raw, 3, k)
        IN  [r |-> b[1], g |-> b[2], b |-> b[3], a |-> 255]]

SwapTruecolorAlpha(little_endian, raw, num_pixels) ==
    [k \in 0..(num_pixels - 1) |->
        LET word == LoadWord(little_endian, BytesAt(raw, 4, k))
        IN  IF little_endian THEN byteswap(word) ELSE word]

\* img_write and png_set_data: the rows of the file, none of them filtered, as
\* the bytes that the pixels to write have in memory.
RowsToWrite(little_endian, img) ==
    LET data_to_write(k) == IF little_endian THEN byteswap(img.data[k]) ELSE img.data[k]
    IN  [row \in 1..img.height |->
            [n \in 1..(4 * img.width) |->
                StoreWord(little_endian,
                          data_to_write((row - 1) * img.width + (n - 1) \div 4))
                    [((n - 1) % 4) + 1]]]

-----------------------------------------------------------------------------
(* What the PNG format says of a file: what filters subtract from a byte.  *)
(* The row of a picture that the file shows, and the same row filtered.    *)

ShownRow(img, bpp, row) ==
    [n \in 1..(bpp * img.width) |->
        LET p == img.data[row * img.width + (n - 1) \div bpp]
        IN  <<p.r, p.g, p.b, p.a>>[((n - 1) % bpp) + 1]]

Nearest(a, b, c) ==
    LET p == a + b - c
        d(x) == AbsDiff(x, p)
        best == {x \in {a, b, c} : \A y \in {a, b, c} : d(x) <= d(y)}
    IN  IF a \in best THEN a ELSE IF b \in best THEN b ELSE c

Filtered(filter, bpp, shown, above) ==
    [k \in DOMAIN shown |->
        LET a == IF k > bpp THEN shown[k - bpp] ELSE 0
            b == IF above = NoRow THEN 0 ELSE above[k]
            c == IF k > bpp /\ above # NoRow THEN above[k - bpp] ELSE 0
        IN  (shown[k] - <<0, a, b, (a + b) \div 2, Nearest(a, b, c)>>[filter + 1]) % 256]
=============================================================================
