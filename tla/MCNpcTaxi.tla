----------------------------- MODULE MCNpcTaxi -----------------------------
(* Model values for checking NpcTaxi: a route of two bots and one of one bot, *)
(* in any order, two of them during the life of the server.                   *)
EXTENDS NpcTaxi, TLC

CONSTANTS r1, r2, v1, v2, v3

MCRouteIds == {r1, r2}
MCRoutes   == {"pair", "single"}
MCCount    == [d \in MCRoutes |-> IF d = "pair" THEN 2 ELSE 1]
MCVehicles == {v1, v2, v3}

Interchangeable == Permutations(MCRouteIds) \cup Permutations(MCVehicles)
=============================================================================
