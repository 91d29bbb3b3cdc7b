------------------------------ MODULE MCLienSync ------------------------------
(* Values of LienSync's constants for TLC. *)
EXTENDS LienSync, TLC

CONSTANTS
    w1, w2, t1, t2,     \* two wallets, each connected in its own tab
    bank1, bank2        \* two lenders

MCSurveys == {[area_ha |-> 10, land_class |-> 3]}
MCCadastralLen == [p \in Parcels |-> 15]
MCAssessments == {}
MCWalletOf == [c \in Clients |-> IF c = t1 THEN w1 ELSE w2]

\* The web client is built with one API key, so every tab is the same lender.
MCOneLender == [c \in Clients |-> bank1]

\* Two builds of the web client, with a key each.
MCTwoLenders == [c \in Clients |-> IF c = t1 THEN bank1 ELSE bank2]

=============================================================================
