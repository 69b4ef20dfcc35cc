----------------------------- MODULE MCTracking -----------------------------
(***************************************************************************)
(* TrackingSerial for TLC: one picture Field that a save may clear.         *)
(***************************************************************************)
EXTENDS TrackingSerial

CONSTANTS s1, t1, f1

MCParent == (t1 :> s1) @@ (f1 :> t1)
=============================================================================
