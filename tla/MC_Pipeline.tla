----------------------------- MODULE MC_Pipeline -----------------------------
(* Small instances of the publish path for TLC: a bus of capacity 1,      *)
(* three or four BookStates, two-tick buckets, a flush every two ticks.   *)
EXTENDS Pipeline
=============================================================================
