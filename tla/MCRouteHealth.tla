--------------------------- MODULE MCRouteHealth ---------------------------
(* Small instances of RouteHealth for TLC.                                  *)
EXTENDS RouteHealth, TLC

CONSTANTS r1, r2, r3, k1, k2, u1, u2

(* Every class cools one instant at first and two from the second step on.  *)
Curve == [s \in 1 .. ScheduleLen |-> s]

BaseTuning ==
    [ttl |-> 2, window |-> 1, maxStep |-> 2, transientMax |-> 2,
     capacityCooldown |-> FALSE, enforced |-> TRUE,
     routeDelay |-> [c \in RouteCooldownClasses |-> Curve],
     keyDelay |-> [c \in KeyCooldownClasses |-> Curve]]

Symmetry == Permutations(Requests)

OneRouteKey == [r \in {r1} |-> k1]
OneKeyUpstream == [k \in {k1} |-> u1]

TwoUpstreamKey == (r1 :> k1) @@ (r2 :> k1) @@ (r3 :> k2)
TwoUpstreams == (k1 :> u1) @@ (k2 :> u2)

OneTuning == {BaseTuning}

(* An operator stops enforcing cooldowns and lets capacity failures cool,   *)
(* or shortens the TTL of a probe.                                          *)
Unenforced == {BaseTuning, [BaseTuning EXCEPT !.enforced = FALSE, !.capacityCooldown = TRUE]}
ShortenedTtl == {BaseTuning, [BaseTuning EXCEPT !.ttl = 1]}
=============================================================================
