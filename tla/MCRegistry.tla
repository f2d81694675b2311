----------------------------- MODULE MCRegistry -----------------------------
(* An instance of Registry for TLC: the seeded tool and a second one, whose  *)
(* specs share provider names with it or among their own operations.         *)
EXTENDS Registry, TLC

CONSTANTS g, w, g1, g2, w1, w2, P, Q, R, c1, c2

MCTool == (g1 :> g) @@ (g2 :> g) @@ (w1 :> w) @@ (w2 :> w)
MCOperations == (g1 :> {1}) @@ (g2 :> {2}) @@ (w1 :> {3}) @@ (w2 :> {4, 5})
MCProviderName == [op \in 1..5 |-> CASE op \in {1, 3} -> P
                                     [] op = 2 -> Q
                                     [] OTHER -> R]
=============================================================================
