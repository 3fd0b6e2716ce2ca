--------------------------- MODULE MCVestingQueries ---------------------------
(* Instance of VestingQueries for TLC; the widths are given in the cfg.    *)
EXTENDS VestingQueries
=============================================================================
