--------------------------- MODULE MCRunLifecycle ---------------------------
(***************************************************************************)
(* RunLifecycle for TLC: run and flow ids are model values, and nothing    *)
(* tells one from another, so they may be permuted.                        *)
(***************************************************************************)
EXTENDS RunLifecycle, TLC

Symmetry == Permutations(Runs) \cup Permutations(Flows)
=============================================================================
