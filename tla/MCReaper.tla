------------------------------ MODULE MCReaper ------------------------------
(* Model checking the reaper: the constants come from reaper.cfg, and no   *)
(* definition has to be bounded for TLC.                                   *)
EXTENDS Reaper
=============================================================================
