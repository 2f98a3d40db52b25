--------------------------- MODULE MCAcquisition ---------------------------
(* Small instances of the acquisition engine for TLC.  The grid of a dwell *)
(* is any function from the cells to 0..MaxMag, so every ordering of peaks *)
(* across bins, indices and dwells is reached.                             *)
EXTENDS Acquisition

=============================================================================
