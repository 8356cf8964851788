---------------------------- MODULE MCVideoBuffer ----------------------------
(***************************************************************************)
(* VideoBuffer for TLC: sizes are in units of the smallest chunk, so that  *)
(* a buffer of two or three holds one chunk, two, or one and a half.       *)
(***************************************************************************)
EXTENDS VideoBuffer

SmallAndLarge == {1, 2}
=============================================================================
