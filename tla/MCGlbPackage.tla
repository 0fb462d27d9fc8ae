---------------------------- MODULE MCGlbPackage ----------------------------
(* A small instance of GlbPackage for TLC: three bundles, of which one may *)
(* be excluded.                                                            *)
EXTENDS GlbPackage, TLC

\* The exclusions and the switches that matter for three bundles: the last
\* bundle may be excluded, and the switches are on or off
\* together.
MCInit ==
  /\ GlbInit
  /\ \A b \in Bundles : b # 3 => profile.exclusion[b] = "none"
  /\ profile.missing_fatal = profile.cycles_fatal
  /\ ~profile.expand_dependencies => profile.cycles_fatal /\ queue = <<1>>

MCSpec == MCInit /\ [][GlbNext]_glbVars
=============================================================================
