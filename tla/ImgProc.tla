------------------------------ MODULE ImgProc -------------------------------
(***************************************************************************)
(* The image transformations of csf_assign02 in C (c_imgproc_fns.c): one   *)
(* call of one of them, a step per turn of its loop over the pixels.  A    *)
(* pixel is the record of its four components; shifts and masks of         *)
(* get_r, ..., get_a and make_pixel take a pixel apart and put it together *)
(* as long as no component is larger than a byte (GrayIsBetween,           *)
(* FadesFromTheMiddle).                                                    *)
(*                                                                         *)
(* Scaled: Unit stands for the 1000 of gradient, whose square times its    *)
(* square is the DENOM of imgproc_fade.                                    *)
(***************************************************************************)
EXTENDS Integers, FiniteSetsExt

CONSTANTS Images,   \* the input images: width, height, and data from 0 on
          Unit

Functions == {"rgb", "grayscale", "fade", "kaleidoscope"}

Pixel == [r : 0..255, g : 0..255, b : 0..255, a : 0..255]

ASSUME ImagesAssumption ==
    /\ Unit \in Nat \ {0}
    /\ \A img \in Images :
        /\ img.width \in Nat /\ img.height \in Nat
        /\ img.data \in [0..(img.width * img.height - 1) -> Pixel]

VARIABLES
    fn,          \* the function called
    input_img,
    output_img,  \* data: the pixels written so far
    i,           \* the pixels of the input the loop has done
    pc           \* "call", "loop", "success" or "failure"

vars == <<fn, input_img, output_img, i, pc>>

\* The image main creates for the output; nothing has been written to its
\* opaque black pixels yet.
create_output_img(img, transformation) ==
    LET k == IF transformation = "rgb" THEN 2 ELSE 1
    IN  [width |-> k * img.width, height |-> k * img.height, data |-> << >>]

TypeOK ==
    /\ fn \in Functions /\ input_img \in Images
    /\ pc \in {"call", "loop", "success", "failure"}
    /\ i \in 0..(input_img.width * input_img.height)
    /\ DOMAIN output_img.data \subseteq 0..(output_img.width * output_img.height - 1)
    /\ \A k \in DOMAIN output_img.data : output_img.data[k] \in Pixel

Init ==
    /\ pc = "call" /\ i = 0
    /\ fn \in Functions /\ input_img \in Images
    /\ output_img = create_output_img(input_img, fn)

-----------------------------------------------------------------------------
(* The helpers                                                             *)

make_pixel(r, g, b, a) == [r |-> r, g |-> g, b |-> b, a |-> a]

\* Mutant: the weights add up to less than one.
to_grayscale_darker(pixel) ==
    LET gray == (79 * pixel.r + 128 * pixel.g + 48 * pixel.b) \div 256
    IN  make_pixel(gray, gray, gray, pixel.a)

to_grayscale(pixel) ==
    LET gray == (79 * pixel.r + 128 * pixel.g + 49 * pixel.b) \div 256
    IN  make_pixel(gray, gray, gray, pixel.a)

compute_index(img, col, row) == row * img.width + col

\* The pixels written, once p has been stored as the k-th.
Put(data, k, p) == [n \in DOMAIN data \cup {k} |-> IF n = k THEN p ELSE data[n]]

Square(x) == x * x

\* Mutant: the division rounds up.
gradient_up(x, max) ==
    Square(Unit) - Square(((2 * Unit * x + max - 1) \div max) - Unit)

\* 0 at the first row or column, Unit^2 in the middle.
gradient(x, max) == Square(Unit) - Square(((2 * Unit * x) \div max) - Unit)

fade(img, k) ==
    LET tr == gradient(k \div img.width, img.height)
        tc == gradient(k % img.width, img.width)
        faded(c) == (tr * tc * c) \div Square(Square(Unit))
        pixel == img.data[k]
    IN  make_pixel(faded(pixel.r), faded(pixel.g), faded(pixel.b), pixel.a)

\* A row or column in the second half is mapped to the first; an odd width
\* counts as one more (fake_width).
Mirror(x, width) ==
    LET fake_width == width + (width % 2)
    IN  IF x >= fake_width \div 2 THEN fake_width - x - 1 ELSE x

\* Mutant: the wedge below the diagonal is the one kept.
in_idx_below(width, k) ==
    LET folded == {Mirror(k \div width, width), Mirror(k % width, width)}
    IN  Max(folded) * width + Min(folded)

\* The pixel of wedge A that pixel k of the output shows.
in_idx(width, k) ==
    LET folded == {Mirror(k \div width, width), Mirror(k % width, width)}
    IN  Min(folded) * width + Max(folded)

\* Mutant: the red and the green replica change places.
replicas_exchanged(img, out, k) ==
    LET row == k \div img.width
        col == k % img.width
        p == img.data[compute_index(img, col, row)]
        A == Put(out.data, compute_index(out, col, row), p)
        B == Put(A, compute_index(out, col, row + img.height), make_pixel(p.r, 0, 0, p.a))
        C == Put(B, compute_index(out, col + img.width, row), make_pixel(0, p.g, 0, p.a))
    IN  Put(C, compute_index(out, col + img.width, row + img.height),
            make_pixel(0, 0, p.b, p.a))

\* The four pixels of the output that show pixel k of the input, one for each
\* quadrant.
replicas(img, out, k) ==
    LET row == k \div img.width
        col == k % img.width
        p == img.data[compute_index(img, col, row)]
        A == Put(out.data, compute_index(out, col, row), p)
        B == Put(A, compute_index(out, col + img.width, row), make_pixel(p.r, 0, 0, p.a))
        C == Put(B, compute_index(out, col, row + img.height), make_pixel(0, p.g, 0, p.a))
    IN  Put(C, compute_index(out, col + img.width, row + img.height),
            make_pixel(0, 0, p.b, p.a))

-----------------------------------------------------------------------------
(* The transformations                                                     *)

\* Each function sets the dimensions of the output, rgb to twice those of the
\* input (c_imgproc_fns.c:147); kaleidoscope refuses what is not square.
Call ==
    /\ pc = "call"
    /\ LET k == IF fn = "rgb" THEN 2 ELSE 1
       IN  IF fn = "kaleidoscope" /\ input_img.width # input_img.height
           THEN pc' = "failure" /\ UNCHANGED output_img
           ELSE /\ pc' = "loop"
                /\ output_img' = [output_img EXCEPT !.width = k * input_img.width,
                                                    !.height = k * input_img.height]
    /\ UNCHANGED <<fn, input_img, i>>

Turn(f, data) ==
    /\ fn = f /\ pc = "loop"
    /\ i < input_img.width * input_img.height
    /\ output_img' = [output_img EXCEPT !.data = data]
    /\ i' = i + 1
    /\ UNCHANGED <<fn, input_img, pc>>

imgproc_grayscale ==
    Turn("grayscale", Put(output_img.data, i, to_grayscale(input_img.data[i])))

imgproc_rgb == Turn("rgb", replicas(input_img, output_img, i))

imgproc_fade == Turn("fade", Put(output_img.data, i, fade(input_img, i)))

imgproc_kaleidoscope ==
    Turn("kaleidoscope",
         Put(output_img.data, i, input_img.data[in_idx(input_img.width, i)]))

Return ==
    /\ pc = "loop" /\ i = input_img.width * input_img.height
    /\ pc' = "success"
    /\ UNCHANGED <<fn, input_img, output_img, i>>

Next ==
    \/ Call \/ imgproc_grayscale \/ imgproc_rgb \/ imgproc_fade
    \/ imgproc_kaleidoscope \/ Return

Spec == Init /\ [][Next]_vars

-----------------------------------------------------------------------------
Done(f) == fn = f /\ pc = "success"

At(img, col, row) == img.data[row * img.width + col]

\* c_imgproc_fns.c:129, the output is twice as wide and high and shows the
\* input four times: as it is, in red, in green and in blue, in this order.
\* Every pixel of the output is written once, whatever the loop's order.
FourReplicas ==
    Done("rgb") =>
        LET w == input_img.width
            h == input_img.height
        IN  /\ output_img.width = 2 * w /\ output_img.height = 2 * h
            /\ DOMAIN output_img.data = 0..(4 * w * h - 1)
            /\ \A col \in 0..(2 * w - 1), row \in 0..(2 * h - 1) :
                LET p == At(input_img, col % w, row % h)
                IN  At(output_img, col, row) =
                        make_pixel(IF row < h THEN p.r ELSE 0,
                                   IF col < w THEN p.g ELSE 0,
                                   IF (row < h) = (col < w) THEN p.b ELSE 0, p.a)

\* Gray is between the darkest and the brightest component, so it fits a byte
\* and a gray pixel stays as it is.
GrayIsBetween ==
    Done("grayscale") =>
        \A k \in DOMAIN input_img.data :
            LET p == input_img.data[k]
                q == output_img.data[k]
            IN  /\ Min({p.r, p.g, p.b}) <= q.r /\ q.r <= Max({p.r, p.g, p.b})
                /\ q.r = q.g /\ q.g = q.b /\ q.a = p.a

\* Row or column y of n is at least as near to the middle of the image, n / 2, as
\* x.  Of two at the same distance the one after the middle is the nearer: that
\* way gradient rounds, so the brightest row of an odd height is not the middle
\* one but the next (two of 0, 1, 2), and a picture of one pixel goes black.
Nearer(y, x, n) == IF 2 * x <= n THEN x <= y /\ x + y <= n ELSE n <= 2 * y /\ y <= x

\* Fading brightens no pixel and leaves its alpha alone, dims the first row and
\* column to black, and keeps the pixel in the middle, where there is one.  Of
\* two pixels the one nearer to the middle in both directions stays the brighter
\* one: rounding never turns them round.
FadesFromTheMiddle ==
    Done("fade") =>
        LET w == input_img.width
            h == input_img.height
        IN  \A k \in DOMAIN input_img.data :
                LET p == input_img.data[k]
                    q == output_img.data[k]
                IN  /\ q.a = p.a
                    /\ k < w \/ k % w = 0 => q = make_pixel(0, 0, 0, p.a)
                    /\ 2 * (k \div w) = h /\ 2 * (k % w) = w => q = p
                    /\ \A c \in {"r", "g", "b"} :
                        /\ q[c] <= p[c]
                        /\ \A l \in DOMAIN input_img.data :
                            /\ Nearer(l \div w, k \div w, h) /\ Nearer(l % w, k % w, w)
                            /\ p[c] <= input_img.data[l][c]
                            => q[c] <= output_img.data[l][c]

\* c_imgproc_fns.c:256, "the overall image is symmetrical across all four lines
\* dividing the image".  That is so for every even width.
FourSymmetries ==
    Done("kaleidoscope") =>
        LET w == input_img.width
        IN  \A col, row \in 0..(w - 1) :
                LET p == At(output_img, col, row)
                IN  /\ p = At(output_img, w - 1 - col, row)
                    /\ p = At(output_img, col, w - 1 - row)
                    /\ p = At(output_img, row, col)
                    /\ p = At(output_img, w - 1 - row, w - 1 - col)

\* c_imgproc_fns.c:249, wedge A of the output has "exactly the same pixels as
\* wedge A in the input image, in the same positions", and the rest of an output
\* of even width mirrors it.
WedgesMirrorA ==
    /\ Done("kaleidoscope") =>
        LET w == input_img.width
        IN  \A col, row \in 0..(w - 1) :
                row <= col /\ col < (w + 1) \div 2 =>
                    At(output_img, col, row) = At(input_img, col, row)
    /\ input_img.width % 2 = 0 => FourSymmetries
=============================================================================
