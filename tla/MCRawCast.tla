------------------------------ MODULE MCRawCast ------------------------------
EXTENDS RawCast

\* Everything is there, or the recorder is not.
MCOffers == {Globals, {"wl_shm", "wl_output"}}
=============================================================================
