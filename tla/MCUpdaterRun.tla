---------------------------- MODULE MCUpdaterRun ----------------------------
(* Small instances of UpdaterRun for TLC.  A behaviour has a server that   *)
(* may revert or selections that may change; with both, MarkerTruthful     *)
(* does not hold (see the README).                                         *)
EXTENDS UpdaterRun

CONSTANTS a, b

TwoBundles == {a, b}
OneRaw == {a}

VARIABLE world_kind    \* "reverts" or "reselects"

MCInit == Init /\ world_kind \in {"reverts", "reselects"}

MCNext ==
  /\ Next
  /\ world_kind' = world_kind
  /\ world_kind = "reverts" => UNCHANGED <<selection, scope>>
  /\ world_kind = "reselects" => \A c \in Bundles : server'[c] >= server[c]

MCSpec ==
  /\ MCInit /\ [][MCNext]_<<vars, world_kind>>
  /\ WF_<<vars, world_kind>>(RunStep /\ world_kind' = world_kind)
=============================================================================
