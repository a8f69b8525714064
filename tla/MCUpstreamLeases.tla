-------------------------- MODULE MCUpstreamLeases --------------------------
(* Small instances of UpstreamLeases for TLC.                               *)
EXTENDS UpstreamLeases, TLC

CONSTANTS r1, r2, r3, a1, a2

RequestSymmetry == Permutations({r1, r2, r3}) \cup Permutations({a1, a2})
=============================================================================
