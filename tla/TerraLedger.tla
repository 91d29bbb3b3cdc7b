----------------------------- MODULE TerraLedger ------------------------------
(***************************************************************************)
(* The on-chain ledger: terra_token, lien_registry and transfer_hook under *)
(* transactions of any wallet in any order.  Transactions on the same      *)
(* accounts are serialised by the runtime, so the hazard is a long legal   *)
(* sequence of calls to two programs, not an interleaving inside one.      *)
(***************************************************************************)
EXTENDS LienRegistry, FiniteSets

vars == <<slot, parcel_config, event, encumbrance, lien_index>>

Init == TokenInit /\ LienInit

TerraTokenStep ==
    /\ \E w \in Wallets, p \in Parcels :
         \/ \E survey \in Surveys : RegisterParcel(w, p, survey)
         \/ \E owner \in Wallets : MintCertificate(w, p, owner)
         \/ \E a \in Assessments : UpdateRiskAssessment(w, p, a)
         \/ \E read \in {FALSE} \cup {ResolveActiveLien(q) : q \in Parcels} :
              SeasonalCheck(p, read)
    /\ UNCHANGED lienVars

LienRegistryStep ==
    \E lender \in Wallets, p \in Parcels :
        \/ \E amount \in Amounts : RegisterEncumbrance(lender, p, amount)
        \/ ReleaseEncumbrance(lender, p)

Next ==
    \/ TerraTokenStep
    \/ LienRegistryStep
    \/ Tick /\ UNCHANGED lienVars

Spec == Init /\ [][Next]_vars

-----------------------------------------------------------------------------
(* Types *)

EncumbranceTypeOK ==
    /\ DOMAIN encumbrance \subseteq Parcels \X Wallets
    /\ encumbrance \in [DOMAIN encumbrance -> EncumbranceAccount]

LienIndexTypeOK ==
    /\ DOMAIN lien_index \subseteq Parcels
    /\ lien_index \in [DOMAIN lien_index -> LienIndex]

\* Every account holds values of its declared integer widths and PDAs exist
\* only for known seeds.
TypeOK ==
    /\ slot \in 1 .. MaxSlot
    /\ ParcelTypeOK
    /\ EncumbranceTypeOK
    /\ LienIndexTypeOK
-----------------------------------------------------------------------------
(* The lien registry *)

Active(p, l) ==
    /\ <<p, l>> \in DOMAIN encumbrance
    /\ encumbrance[<<p, l>>].status = STATUS_ACTIVE

OpenLiens(p) == {l \in Wallets : Active(p, l)}

\* A parcel secures at most one loan (README: "Atomic double-pledge
\* prevention").  The handler never compares lenders: it relies on the counter.
NoDoublePledge ==
    \A p \in Parcels : \A l1, l2 \in OpenLiens(p) : l1 = l2

\* The counter the guard reads is the number of open encumbrance accounts,
\* through any sequence of registrations, releases, closed and recreated
\* accounts.
IndexCountsEncumbrances ==
    \A p \in Parcels :
        IndexOrZero(p).active_lien_count = Cardinality(OpenLiens(p))

\* The inductive invariant behind both.  A parcel's index is either clear of an
\* active lien and no account is open, or it counts one and exactly one account
\* is open; every account carries the lender of its seeds.
OneLenderOrNone(p) ==
    \/ IndexOrZero(p).active_lien_count = 0 /\ OpenLiens(p) = {}
    \/ /\ IndexOrZero(p).active_lien_count = 1
       /\ \E l \in Wallets : OpenLiens(p) = {l}

LienInv == \A p \in Parcels : OneLenderOrNone(p)

Lock == INSTANCE PledgeLock WITH
            Lenders <- Wallets,
            pledged <- {e \in DOMAIN encumbrance :
                            encumbrance[e].status = STATUS_ACTIVE}

\* The two accounts together implement a lock per parcel: a pledge is only
\* taken on a free parcel and only the pledge taken is given back.
PledgeLockImplemented == Lock!Spec

\* What the index says of the past: liens registered and no longer active.
ClosedLiens(p) ==
    IndexOrZero(p).total_lien_count - IndexOrZero(p).active_lien_count

\* The index forgets no lien: its count of closed liens moves with the
\* encumbrance accounts that close, and only then, although those accounts
\* and their statuses are destroyed.
HistoryKept ==
    [][\A p \in Parcels :
         ClosedLiens(p)' - ClosedLiens(p)
           = Cardinality(OpenLiens(p) \ OpenLiens(p)')]_vars

\* After a release every lender, the one who released included, can pledge the
\* parcel again (release_encumbrance.rs: "This allows the same lender to
\* re-register"), until the u16 history counter is used up.
FreeParcelCanBePledged ==
    \A p \in DOMAIN parcel_config :
        OpenLiens(p) = {} /\ IndexOrZero(p).total_lien_count < MaxU16
          => \A l \in Wallets : RegisterAllowed(l, p, 1)

-----------------------------------------------------------------------------
(* Risk and dormancy *)

\* The flag is a hysteresis over all past assessments: never up at a score of
\* 40 or more, never down at a score below 20 once the parcel was assessed.
\* (A new parcel has score 0, grade D and the flag down.)
Unassessed(c) == c.ai_score = 0 /\ c.collateral_grade = 3 /\ c.recommended_ltv = 0

FlagFollowsScore ==
    \A p \in DOMAIN parcel_config :
        LET c == parcel_config[p] IN
        /\ c.risk_flag = 1 => c.ai_score < 40
        /\ c.risk_flag = 0 => c.ai_score >= 20 \/ Unassessed(c)

\* The latest certificate of the parcel is younger than a season.
CertifiedWithinSeason(p) ==
    /\ parcel_config[p].cert_count > 0
    /\ slot - parcel_config[p].last_cert_epoch < EPOCHS_PER_SEASON

\* The transfer hook closes for a parcel only with an announced assessment below
\* 20, or with an announced check, the third in a row to find no certificate
\* since the one before, of a parcel without a certificate of this season.  It
\* reopens only with a score of 40, or with a check after new certificates that
\* comes a full season after the latest of them: minting alone never reopens it.
\* A season without certificates is NOT needed to close it: the three checks may
\* follow each other in one slot (see DormantSeasonsPassed).
TransferGuardMoves ==
    [][\A p \in DOMAIN parcel_config :
         LET c == parcel_config[p]
             d == parcel_config[p]'
             assessed == event'.type = "RiskAssessmentUpdated" /\ event'.parcel = p
             dormant  == event'.type = "ParcelDormant" /\ event'.parcel = p
         IN  /\ TransferAllowed(p) /\ ~TransferAllowed(p)' =>
                  \/ assessed /\ d.ai_score < 20
                  \/ /\ dormant /\ d.dormant_seasons = 3
                     /\ c.ndvi_submissions_this_season = 0
                     /\ ~CertifiedWithinSeason(p)
             /\ ~TransferAllowed(p) /\ TransferAllowed(p)' =>
                  \/ assessed /\ d.ai_score >= 40
                  \/ /\ c.cert_count > 0 /\ c.ndvi_submissions_this_season > 0
                     /\ ~CertifiedWithinSeason(p)]_vars

-----------------------------------------------------------------------------
(* What the documentation says and the programs do not do *)

\* seasonal_check.rs: "On-chain timing constraints prevent abuse" of the
\* permissionless crank.  A parcel is not counted dormant for more seasons than
\* have passed since its registration.
DormantSeasonsPassed ==
    \A p \in DOMAIN parcel_config :
        parcel_config[p].dormant_seasons * EPOCHS_PER_SEASON
            <= slot - parcel_config[p].registered_at

\* README: the CPI "ensures parcel exists and is not fraud-flagged".  A new
\* encumbrance is never taken on a flagged parcel.
FlaggedParcelNotPledged ==
    [][\A p \in Parcels :
         OpenLiens(p)' \subseteq OpenLiens(p) \/ parcel_config[p].risk_flag = 0]_vars
=============================================================================
