------------------------------ MODULE Pictures ------------------------------
(* Pictures for TLC: no two pixels of one are alike. *)
EXTENDS Integers

Picture(size, seed) ==
    [width |-> size[1], height |-> size[2],
     data |-> [k \in 0..(size[1] * size[2] - 1) |->
        [r |-> (255 - 5 * k + seed) % 256, g |-> (7 * k + 3 * seed) % 256,
         b |-> (31 * k + 11 * seed) % 256, a |-> k]]]

Sizes == {<<1, 1>>, <<2, 2>>, <<3, 3>>, <<4, 4>>, <<5, 5>>, <<2, 3>>, <<3, 1>>,
          <<5, 2>>, <<1, 6>>}

\* White pictures too: the largest sums of gray and of fade.
White(size) ==
    [width |-> size[1], height |-> size[2],
     data |-> [k \in 0..(size[1] * size[2] - 1) |->
        [r |-> 255, g |-> 255, b |-> 255, a |-> 255]]]

\* The last pixel has neighbours that are equally near to what png_paeth
\* predicts: the left and the upper left one in red, the upper and the upper
\* left one in green, the left and the upper one in blue.
Ties ==
    [width |-> 2, height |-> 2,
     data |-> [k \in 0..3 |-> [r |-> <<100, 110, 80, 33>>[k + 1], g |-> <<100, 80, 110, 44>>[k + 1],
                              b |-> <<100, 110, 110, 55>>[k + 1], a |-> k]]]

FullPictures == {Picture(s, seed) : s \in Sizes, seed \in {0, 90, 200}}
                \cup {White(s) : s \in Sizes} \cup {Ties}

\* Files whose header says that a side is zero pixels long.
EmptyPictures == {Picture(s, 0) : s \in {<<0, 0>>, <<0, 2>>, <<3, 0>>}}

OddPictures == {Picture(<<w, w>>, 0) : w \in {1, 3, 5}}
=============================================================================
