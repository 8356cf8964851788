---------------------------- MODULE MCSinkInputs ----------------------------
(***************************************************************************)
(* SinkInputs for TLC: two programs, between which the capture moves.      *)
(***************************************************************************)
EXTENDS SinkInputs, TLC

CONSTANTS i1, i2

TwoInputs == {i1, i2}
=============================================================================
