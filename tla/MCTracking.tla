---------------------------- MODULE MCTracking -----------------------------
(* Small instances of the tracking control for TLC.                        *)
EXTENDS Tracking
=============================================================================
