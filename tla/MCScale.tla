------------------------------ MODULE MCScale ------------------------------
(* ScaleServer for TLC.  Every behaviour is finite, so it is enough that   *)
(* the system moves while it can; signals and timeouts are not fair.       *)
EXTENDS ScaleServer

FairScaleSpec == ScaleSpec /\ WF_scaleVars(ScaleProgress)
=============================================================================
