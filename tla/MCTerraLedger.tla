---------------------------- MODULE MCTerraLedger -----------------------------
(* Values of TerraLedger's constants for TLC. *)
EXTENDS TerraLedger

CONSTANT LongParcel     \* a cadastral number that is too long, if in Parcels

\* One valid survey, and one for each way register_parcel rejects its arguments.
MCSurveys == {[area_ha |-> 10, land_class |-> 3], [area_ha |-> 0, land_class |-> 3],
              [area_ha |-> 10, land_class |-> 0], [area_ha |-> 10, land_class |-> 9]}

MCCadastralLen == [p \in Parcels |-> IF p = LongParcel THEN 21 ELSE 15]

Assessment(s, g, l) == [ai_score |-> s, collateral_grade |-> g, recommended_ltv |-> l]

\* Both sides of both thresholds of the risk flag, and the three rejections.
MCAssessments == {Assessment(19, 3, 1000), Assessment(20, 3, 1000),
                  Assessment(39, 3, 1000), Assessment(40, 2, 3000),
                  Assessment(101, 0, 7000), Assessment(80, 4, 7000),
                  Assessment(80, 0, 10001)}

\* The same thresholds with fewer scores, for the runs about liens.
MCFewAssessments == {Assessment(10, 3, 1000), Assessment(60, 1, 5000)}

=============================================================================
