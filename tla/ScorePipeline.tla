----------------------------- MODULE ScorePipeline ----------------------------
(***************************************************************************)
(* Scores from the satellite to the chain: the keeper, the credit profile  *)
(* and its background computations, all writing the same two tables, and   *)
(* the farmers, who register parcels and mint certificates on chain.       *)
(***************************************************************************)
EXTENDS Keeper, CreditProfile

CONSTANT Farmers    \* wallets that register parcels

ASSUME FarmersAssumption == Farmers \subseteq Wallets

vars == <<tokenVars, storeVars, keeperVars, profileVars>>

Init == TokenInit /\ StoreInit /\ KeeperInit /\ ProfileInit

FarmerStep ==
    /\ \E w \in Farmers, p \in Parcels :
         \/ \E survey \in Surveys : RegisterParcel(w, p, survey)
         \/ MintCertificate(w, p, w)
    /\ UNCHANGED <<storeVars, keeperVars, profileVars>>

\* The indexer gives the row of a registered parcel its address.
IndexAddress(p) ==
    /\ Registered(p)
    /\ addressed' = addressed \cup {p}
    /\ UNCHANGED <<tokenVars, storeVars, keeper, agent_decisions, profileVars>>

TimePasses ==
    /\ \/ Tick /\ UNCHANGED storeVars
       \/ \E p \in Parcels : RowAges(p) /\ UNCHANGED tokenVars
    /\ UNCHANGED <<keeperVars, profileVars>>

ProfileStep ==
    /\ \/ \E r \in Requests : RequestStep(r)
       \/ \E g \in Workers : WorkerStep(g) \/ Overwrite(g)
    /\ UNCHANGED <<tokenVars, keeperVars>>

Next ==
    \/ FarmerStep
    \/ \E p \in Parcels : IndexAddress(p)
    \/ TimePasses
    \/ ProfileStep
    \/ KeeperStep /\ UNCHANGED profileVars

Spec == Init /\ [][Next]_vars

\* The ticker fires and every call the keeper makes returns: the interval is a
\* positive duration and the HTTP clients it uses have timeouts.
Fairness == WF_vars(KeeperStep /\ UNCHANGED profileVars)

FairSpec == Spec /\ Fairness

-----------------------------------------------------------------------------

\* Values have their types; in particular what the scorers hand to the table
\* and to the program fits the table's columns and the program's bounds.
TypeOK ==
    /\ ParcelTypeOK
    /\ StoreTypeOK
    /\ KeeperTypeOK
    /\ ProfileTypeOK

OnChain(p) ==
    [ ai_score         |-> parcel_config[p].ai_score,
      collateral_grade |-> parcel_config[p].collateral_grade,
      recommended_ltv  |-> parcel_config[p].recommended_ltv ]

Unassessed == [ai_score |-> 0, collateral_grade |-> 3, recommended_ltv |-> 0]

\* README: "Regulators can verify exactly what score was assigned".  The newest
\* decision about a parcel is what the chain holds, unless the keeper is about
\* to record it, whoever else rewrote the score's row in between.  It is of
\* interest where the keeper's check can land (MissingOptionals): in the build
\* as it is, no assessment is sent and no decision recorded.
AuditTrail ==
    \A p \in DOMAIN parcel_config :
        \/ keeper.pc = "record" /\ keeper.parcel = p
        \/ IF p \in DOMAIN agent_decisions
           THEN OnChain(p) = agent_decisions[p]
           ELSE OnChain(p) = Unassessed

\* Every parcel with an address is worked on again and again, whatever becomes
\* of the others: as long as the query's LIMIT covers them all.
KeeperReaches ==
    \A p \in Parcels : p \in addressed ~> keeper.pc = "check" /\ keeper.parcel = p
=============================================================================
