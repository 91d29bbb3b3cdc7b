---------------------------- MODULE MCScorePipeline ---------------------------
(* Values of ScorePipeline's constants for TLC. *)
EXTENDS ScorePipeline

MCSurveys == {[area_ha |-> 10, land_class |-> 3]}
MCCadastralLen == [p \in Parcels |-> 15]
MCLandClass == [p \in Parcels |-> 5]

\* A field in a drought; or nothing is ever observed.
MCDry == {[ndvi |-> 3, ndwi |-> -4, evi |-> 2, trend |-> "declining"]}
MCNoReadings == {}

\* Numbers out of range and a grade that is no letter; or no API key.
MCWild == {[ai_score |-> 120, recommended_ltv |-> 12000, grade |-> 9]}
MCNoAnswers == {}
=============================================================================
