---------------------------- MODULE MCCrewRetry -----------------------------
(***************************************************************************)
(* One trial of each case on one ledger: every subject may use all its     *)
(* attempts, and what an earlier one left on the wire meets a later one.   *)
(***************************************************************************)
EXTENDS CrewRetry, TLC

Marked == {Marker}
EachCase == 1 .. TrialCount
==============================================================================
