---------------------------- MODULE MCClientLedger -----------------------------
EXTENDS ClientLedger
CONSTANTS p1, p2, pLong, farmer, visitor, key1, key2

MCCadastralLen == [p \in Parcels |-> IF p = pLong THEN 21 ELSE 13]
MCAREA == [area_ha |-> 1, land_class |-> 2]
MCSurveys == {MCAREA, [area_ha |-> 0, land_class |-> 2], [area_ha |-> 1, land_class |-> 9]}
MCAssessments == { [ai_score |-> 10, collateral_grade |-> 3, recommended_ltv |-> 0],
                   [ai_score |-> 101, collateral_grade |-> 3, recommended_ltv |-> 0] }
MCLenderKeys == <<key1, key2>>
MCPARCELS == <<p1, p2>>
MCCertificates == <<1, 2>>

\* Nothing reads the last event here, and no property is about it.
MCLedgerView == <<slot, parcel_config, encumbrance, lien_index, script>>
=============================================================================
