------------------------------ MODULE PledgeLock ------------------------------
(***************************************************************************)
(* What the lien registry promises: a parcel is collateral for at most one *)
(* lender at a time.  A pledge is taken when the parcel is free, and only  *)
(* the pledge that was taken is given back.                                *)
(***************************************************************************)
CONSTANTS Parcels, Lenders

VARIABLE pledged    \* the pairs <<parcel, lender>> in force

Free(p) == \A l \in Lenders : <<p, l>> \notin pledged

Init == pledged = {}

Pledge(p, l) ==
    /\ Free(p)
    /\ pledged' = pledged \cup {<<p, l>>}

Redeem(p, l) ==
    /\ <<p, l>> \in pledged
    /\ pledged' = pledged \ {<<p, l>>}

Next == \E p \in Parcels, l \in Lenders : Pledge(p, l) \/ Redeem(p, l)

Spec == Init /\ [][Next]_pledged
=============================================================================
