---------------------------- MODULE MCAsmImgProc ----------------------------
(* The assembly functions on the pictures of Pictures. *)
EXTENDS AsmImgProc, Pictures
=============================================================================
