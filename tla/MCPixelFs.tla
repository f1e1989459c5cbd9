------------------------------- MODULE MCPixelFs -------------------------------
(***************************************************************************)
(* PixelFs with every image, blank or with a file or tickets kept from an  *)
(* earlier drive.                                                          *)
(***************************************************************************)
EXTENDS PixelFs

MCContents == {[d0 |-> 6, d1 |-> 9, d2 |-> 4, d3 |-> 2]}
===============================================================================
