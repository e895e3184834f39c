---------------------------- MODULE MCRasterThreads ----------------------------
(***************************************************************************)
(* The raster threads on a small instance: frames and lifecycle calls come *)
(* to MaxSteps at most, and the last frame before the first call.  Shells  *)
(* are alike, so that the first event may be taken to be one of First.     *)
(***************************************************************************)
EXTENDS RasterThreads

CONSTANTS First, MaxSteps

Narrow ==
    /\ produced' + calls' <= MaxSteps
    /\ produced' > produced /\ calls > 0 => produced' < MaxProduced
    /\ produced' + calls' = 1 => {commit'.shell, call'.shell} \subseteq {First, NoShell}

MCSpec == RasterInit /\ [][RasterNext /\ Narrow]_threadVars /\ RasterFairness
=============================================================================
