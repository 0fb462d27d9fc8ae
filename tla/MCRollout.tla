----------------------------- MODULE MCRollout -----------------------------
(* A small instance of Rollout for TLC: two candidates, one index that may *)
(* be published and one that may not.                                      *)
EXTENDS Rollout, TLC

CONSTANTS a, b, x, y, bad, s, t

Symmetry == Permutations({a, b}) \cup Permutations({x, y}) \cup Permutations({s, t})
=============================================================================
