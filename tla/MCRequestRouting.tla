-------------------------- MODULE MCRequestRouting --------------------------
(* Instances of RequestRouting for TLC.                                     *)
EXTENDS RequestRouting, TLC

MCUpstreamOf == [r \in Routes |-> IF r = "r3" THEN "u2" ELSE "u1"]
=============================================================================
