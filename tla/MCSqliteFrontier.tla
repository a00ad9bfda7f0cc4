-------------------------- MODULE MCSqliteFrontier --------------------------
(* SqliteFrontier on two workers and three requests of two origins.        *)
EXTENDS SqliteFrontier, TLC

CONSTANTS r1, r2, r3, o1, o2, c1, c2

MCOrigin == (r1 :> o1) @@ (r2 :> o1) @@ (r3 :> o2)
MCRank == (r1 :> 1) @@ (r2 :> 0) @@ (r3 :> 1)
=============================================================================
