---------------------------- MODULE MCDataBuffer ----------------------------
(* Instances of DataBuffer for TLC.                                        *)
EXTENDS DataBuffer, TLC

CONSTANTS b0, b1

SomeBytes == {b0, b1}
=============================================================================
