---------------------------- MODULE MCStateStore ----------------------------
(* Small instances of StateStore for TLC. *)
EXTENDS StateStore

CONSTANTS r1, r2

TwoRuns == {r1, r2}
=============================================================================
