----------------------------- MODULE MCImgMain ------------------------------
(* The program on the pictures of Pictures. *)
EXTENDS ImgMain, Pictures

InputPictures == FullPictures \cup EmptyPictures

LeftoverPixels == {[r |-> 1, g |-> 2, b |-> 3, a |-> 4]}
=============================================================================
