------------------------------ MODULE TerraToken ------------------------------
(***************************************************************************)
(* The terra_token program: one ParcelConfig account (a PDA seeded by the  *)
(* cadastral number) per registered parcel, productivity certificates,     *)
(* the permissionless seasonal check and the AI risk assessment.           *)
(*                                                                         *)
(* A transaction either runs to its end or changes nothing, so every       *)
(* instruction is one action and each `require!`, account constraint or    *)
(* checked operation of its handler is a conjunct of the action.  The      *)
(* Token-2022 calls of mint_certificate may fail, which aborts the         *)
(* transaction: that is the action not happening.                          *)
(***************************************************************************)
EXTENDS Integers

CONSTANTS
    Parcels,            \* cadastral numbers; each derives one ParcelConfig PDA
    Wallets,            \* the keys that sign transactions
    CadastralLen,       \* CadastralLen[p]: the length of the string p
    Surveys,            \* arguments of register_parcel tried: [area_ha, land_class]
    Assessments,        \* arguments of update_risk_assessment tried
    MAX_CADASTRAL_LEN,  \* 20 in the code
    EPOCHS_PER_SEASON,  \* slots in a season (216000 * 90 in the code)
    MaxU8,              \* the largest u8
    MaxU16,             \* the largest u16
    MaxSlot             \* bound on the clock

ASSUME TerraTokenAssumption ==
    /\ CadastralLen \in [Parcels -> Nat]
    /\ Surveys \subseteq [area_ha : Nat, land_class : Nat]
    /\ Assessments \subseteq
         [ai_score : Nat, collateral_grade : Nat, recommended_ltv : Nat]
    /\ MAX_CADASTRAL_LEN \in Nat
    /\ EPOCHS_PER_SEASON \in Nat \ {0}
    /\ MaxU8 \in Nat \ {0}
    /\ MaxU16 \in Nat \ {0}
    /\ MaxSlot \in Nat \ {0}

VARIABLES
    slot,           \* Clock::get()?.slot
    parcel_config,  \* the ParcelConfig accounts; its domain is the parcels that have one
    event           \* what the last successful transaction emitted

tokenVars == <<slot, parcel_config, event>>

U8 == 0 .. MaxU8
U16 == 0 .. MaxU16
Scores == 0 .. 100      \* update_risk_assessment.rs bounds the three
Grades == 0 .. 3        \* collateral_grade: A, B, C, D
Ratios == 0 .. 10000    \* recommended_ltv, in basis points

ParcelConfig ==
    [ owner                        : Wallets,
      mint_authority               : Wallets,
      kyc_verified                 : BOOLEAN,
      last_cert_epoch              : Nat,
      cert_count                   : U16,
      ndvi_submissions_this_season : U8,
      dormant_seasons              : U8,
      risk_flag                    : {0, 1},
      registered_at                : Nat,
      ai_score                     : Scores,
      collateral_grade             : Grades,
      recommended_ltv              : Ratios ]

ParcelTypeOK ==
    /\ DOMAIN parcel_config \subseteq Parcels
    /\ parcel_config \in [DOMAIN parcel_config -> ParcelConfig]

Registered(p) == p \in DOMAIN parcel_config

TokenInit ==
    /\ slot = 1
    /\ parcel_config = [p \in {} |-> {}]
    /\ event = [type |-> "None"]

-----------------------------------------------------------------------------
(* Instructions *)

ValidRegistration(p, survey) ==
    /\ CadastralLen[p] <= MAX_CADASTRAL_LEN
    /\ survey.area_ha > 0
    /\ survey.land_class \in 1 .. 8

NewParcel(owner) ==
    [ owner |-> owner, mint_authority |-> owner, kyc_verified |-> TRUE,
      last_cert_epoch |-> 0, cert_count |-> 0,
      ndvi_submissions_this_season |-> 0, dormant_seasons |-> 0,
      risk_flag |-> 0, registered_at |-> slot,
      ai_score |-> 0, collateral_grade |-> 3, recommended_ltv |-> 0 ]

\* `init` on the PDA: the instruction fails when the parcel has an account.
RegisterParcel(owner, p, survey) ==
    /\ ~Registered(p)
    /\ ValidRegistration(p, survey)
    /\ parcel_config' = [q \in DOMAIN parcel_config \cup {p} |->
                           IF q = p THEN NewParcel(owner) ELSE parcel_config[q]]
    /\ event' = [type |-> "ParcelRegistered", parcel |-> p, owner |-> owner]
    /\ UNCHANGED slot

MayMint(authority, p, owner) ==
    /\ parcel_config[p].mint_authority = authority
    /\ parcel_config[p].kyc_verified
    /\ parcel_config[p].risk_flag = 0
    /\ parcel_config[p].owner = owner

\* The two checked_add(1).unwrap() panic, and so abort, at the top of their type.
MintCertificate(authority, p, owner) ==
    /\ Registered(p)
    /\ MayMint(authority, p, owner)
    /\ parcel_config[p].cert_count < MaxU16
    /\ parcel_config[p].ndvi_submissions_this_season < MaxU8
    /\ parcel_config' = [parcel_config EXCEPT
         ![p].last_cert_epoch = slot,
         ![p].cert_count = @ + 1,
         ![p].ndvi_submissions_this_season = @ + 1]
    /\ event' = [type |-> "CertificateMinted", parcel |-> p]
    /\ UNCHANGED slot

\* Mutant: the check only waits for the next slot.
SeasonOverAtOnce(p) == slot > parcel_config[p].last_cert_epoch

SeasonOver(p) ==
    \/ parcel_config[p].last_cert_epoch = 0
    \/ slot >= parcel_config[p].last_cert_epoch + EPOCHS_PER_SEASON

SaturatingIncU8(n) == IF n < MaxU8 THEN n + 1 ELSE MaxU8

\* Any wallet may crank it.  `has_active_lien` is what the handler reads from
\* the optional lien index account; the lien registry's module supplies it.
SeasonalCheck(p, has_active_lien) ==
    /\ Registered(p)
    /\ SeasonOver(p)
    /\ LET idle    == parcel_config[p].ndvi_submissions_this_season = 0
           dormant == IF idle THEN SaturatingIncU8(parcel_config[p].dormant_seasons)
                              ELSE 0
       IN  /\ parcel_config' = [parcel_config EXCEPT
                 ![p].dormant_seasons = dormant,
                 ![p].ndvi_submissions_this_season = 0]
           /\ event' = IF idle
                       THEN [type |-> "ParcelDormant", parcel |-> p,
                             seasons_dormant |-> dormant,
                             has_active_lien |-> has_active_lien]
                       ELSE [type |-> "None"]
    /\ UNCHANGED slot

\* Mutant: the relay's numbers are stored as they come.
AnyAssessment(a) == TRUE

ValidAssessment(a) ==
    /\ a.ai_score \in Scores
    /\ a.collateral_grade \in Grades
    /\ a.recommended_ltv \in Ratios

\* Mutant: a raised flag is never lowered.
StickyRiskFlag(score, flag) == IF score < 20 THEN 1 ELSE flag

\* Raised below 20, lowered from 40, kept in between.
NextRiskFlag(score, flag) ==
    IF score < 20 THEN 1 ELSE IF score >= 40 THEN 0 ELSE flag

UpdateRiskAssessment(authority, p, a) ==
    /\ Registered(p)
    /\ parcel_config[p].mint_authority = authority
    /\ ValidAssessment(a)
    /\ parcel_config' = [parcel_config EXCEPT
         ![p].ai_score = a.ai_score,
         ![p].collateral_grade = a.collateral_grade,
         ![p].recommended_ltv = a.recommended_ltv,
         ![p].risk_flag = NextRiskFlag(a.ai_score, @)]
    /\ event' = [type |-> "RiskAssessmentUpdated", parcel |-> p,
                 ai_score |-> a.ai_score]
    /\ UNCHANGED slot

\* The CPI the lien registry makes before it reads the account itself.
VerifyParcel(p) == Registered(p)

\* Slots pass; MaxSlot bounds the model.
Tick ==
    /\ slot < MaxSlot
    /\ slot' = slot + 1
    /\ UNCHANGED <<parcel_config, event>>

\* transfer_hook::execute, which reads a ParcelConfig and changes nothing.
TransferAllowed(p) ==
    /\ parcel_config[p].risk_flag = 0
    /\ parcel_config[p].dormant_seasons <= 2
=============================================================================
