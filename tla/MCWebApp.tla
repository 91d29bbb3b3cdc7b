------------------------------- MODULE MCWebApp --------------------------------
(***************************************************************************)
(* p1 is seeded and its farmer's, p2 is registered by the wizard or not at *)
(* all.  A page beside which nothing else happens is looked at alone, and  *)
(* pages that meet in the tables together.                                 *)
(***************************************************************************)
EXTENDS WebApp, TLC

CONSTANTS p1, p2, farmer, other, bank

Bounds(requests, changes) == [requests |-> requests, changes |-> changes]

MCSeededRows == p1 :> farmer

MCScenes ==
    {"farmer", "lender", farmer, p1, p2} :> Bounds(1, 1)
    @@ {"farmer", "dashboard", farmer, p1} :> Bounds(1, 1)
    @@ {"dashboard", bank, farmer, p1} :> Bounds(2, 1)
    @@ {"lender", farmer, p1} :> Bounds(1, 2)
    @@ {"dashboard", farmer, other} :> Bounds(0, 3)
    @@ {"lender", "liens", p1} :> Bounds(1, 0)
    @@ {"detail", "liens", p1, p2} :> Bounds(2, 0)
=============================================================================
