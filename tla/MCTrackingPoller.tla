-------------------------- MODULE MCTrackingPoller --------------------------
(* Model-checking instances of TrackingPoller: the bounds are in the .cfg.  *)
EXTENDS TrackingPoller

=============================================================================
