----------------------------- MODULE MCEventLoop -----------------------------
(***************************************************************************)
(* Two producers (the HTTP thread and a caster thread), the loop thread    *)
(* whose handler also sends, and a stop by a producer or by the handler.   *)
(***************************************************************************)
EXTENDS EventLoop

CONSTANTS http, worker, loop, none

MCProducers == {http, worker}
MCStoppers  == {worker, loop}
=============================================================================
