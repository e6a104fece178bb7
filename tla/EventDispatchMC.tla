--------------------------- MODULE EventDispatchMC ---------------------------
(* EventDispatch with three callbacks, two of them of one subscriber.       *)
EXTENDS EventDispatch, TLC

CONSTANTS main, runtime, controller

MCCallback == {main, runtime, controller}
MCKeyOf == main :> 2 @@ runtime :> 1 @@ controller :> 1
=============================================================================
