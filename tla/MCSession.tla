------------------------------ MODULE MCSession ------------------------------
EXTENDS Session, TLC

CONSTANTS c1, c2

TwoConns == {c1, c2}

AllWorkers == {"source", "muxer"}
MuxerOnly  == {"muxer"}

\* Connections are interchangeable (safety runs only).
ConnSymmetry == Permutations(Conns)
=============================================================================
