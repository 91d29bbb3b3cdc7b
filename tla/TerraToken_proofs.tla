---------------------------- MODULE TerraToken_proofs ---------------------------
(***************************************************************************)
(* Lemmas about the instructions of terra_token, for every module that has *)
(* the program in it, whoever sends the instruction and with what.         *)
(***************************************************************************)
EXTENDS TerraToken, TLAPS

\* Every ParcelConfig holds values of its declared widths.
TokenTypeOK == slot \in Nat /\ ParcelTypeOK

\* The zero every counter starts from is a value of its type, and a guarded or
\* saturating increment stays in the type.
LEMMA CounterTypes ==
    /\ 0 \in U8 /\ 0 \in U16
    /\ \A n \in U8 : SaturatingIncU8(n) \in U8 /\ (n < MaxU8 => n + 1 \in U8)
    /\ \A n \in U16 : n < MaxU16 => n + 1 \in U16
BY TerraTokenAssumption DEF U8, U16, SaturatingIncU8

\* register_parcel writes a well-typed ParcelConfig and touches no other.
LEMMA RegisterParcelType ==
    ASSUME TokenTypeOK, NEW w \in Wallets, NEW p \in Parcels, NEW survey,
           RegisterParcel(w, p, survey)
    PROVE  TokenTypeOK'
<1>1. NewParcel(w) \in ParcelConfig
  <2>1. slot \in Nat /\ 0 \in Scores /\ 3 \in Grades /\ 0 \in Ratios
    BY TerraTokenAssumption DEF TokenTypeOK, Scores, Grades, Ratios
  <2>2. QED
    BY <2>1, CounterTypes DEF NewParcel, ParcelConfig
<1>2. ParcelTypeOK'
  BY <1>1 DEF TokenTypeOK, ParcelTypeOK, RegisterParcel
<1>3. QED
  BY <1>2 DEF TokenTypeOK, RegisterParcel

\* The counters of mint_certificate are guarded, so they stay in their type.
LEMMA MintCertificateType ==
    ASSUME TokenTypeOK, NEW w, NEW p, NEW owner,
           MintCertificate(w, p, owner)
    PROVE  TokenTypeOK'
<1>1. parcel_config[p] \in ParcelConfig
  BY DEF TokenTypeOK, ParcelTypeOK, MintCertificate, Registered
<1>2. parcel_config'[p] \in ParcelConfig
  <2>1. parcel_config'[p] =
          [parcel_config[p] EXCEPT
             !.last_cert_epoch = slot,
             !.cert_count = @ + 1,
             !.ndvi_submissions_this_season = @ + 1]
    BY DEF MintCertificate, Registered, TokenTypeOK, ParcelTypeOK
  <2>2. /\ parcel_config[p].cert_count \in U16
        /\ parcel_config[p].ndvi_submissions_this_season \in U8
    BY <1>1 DEF ParcelConfig
  <2>3. /\ parcel_config[p].cert_count + 1 \in U16
        /\ parcel_config[p].ndvi_submissions_this_season + 1 \in U8
    BY <2>2, CounterTypes DEF MintCertificate
  <2>4. slot \in Nat
    BY TerraTokenAssumption DEF TokenTypeOK
  <2>5. QED
    BY <1>1, <2>1, <2>3, <2>4 DEF ParcelConfig
<1>3. ParcelTypeOK'
  BY <1>2 DEF TokenTypeOK, ParcelTypeOK, MintCertificate
<1>4. QED
  BY <1>3 DEF TokenTypeOK, MintCertificate

\* dormant_seasons saturates instead of overflowing.
LEMMA SeasonalCheckType ==
    ASSUME TokenTypeOK, NEW p, NEW read,
           SeasonalCheck(p, read)
    PROVE  TokenTypeOK'
<1>1. parcel_config[p] \in ParcelConfig
  BY DEF TokenTypeOK, ParcelTypeOK, SeasonalCheck, Registered
<1>2. parcel_config'[p] \in ParcelConfig
  <2>1. PICK d \in U8 :
          parcel_config'[p] =
            [parcel_config[p] EXCEPT !.dormant_seasons = d,
                                     !.ndvi_submissions_this_season = 0]
    <3>1. parcel_config[p].dormant_seasons \in U8
      BY <1>1 DEF ParcelConfig
    <3>2. QED
      BY <3>1, CounterTypes DEF SeasonalCheck, Registered, TokenTypeOK, ParcelTypeOK
  <2>2. QED
    BY <1>1, <2>1, CounterTypes DEF ParcelConfig
<1>3. ParcelTypeOK'
  BY <1>2 DEF TokenTypeOK, ParcelTypeOK, SeasonalCheck
<1>4. QED
  BY <1>3 DEF TokenTypeOK, SeasonalCheck

\* The three range checks of update_risk_assessment are what keeps the stored
\* score, grade and ratio in range.
LEMMA UpdateRiskAssessmentType ==
    ASSUME TokenTypeOK, NEW w, NEW p, NEW a,
           UpdateRiskAssessment(w, p, a)
    PROVE  TokenTypeOK'
<1>1. parcel_config[p] \in ParcelConfig
  BY DEF TokenTypeOK, ParcelTypeOK, UpdateRiskAssessment, Registered
<1>2. a.ai_score \in Scores /\ a.collateral_grade \in Grades /\ a.recommended_ltv \in Ratios
  BY DEF UpdateRiskAssessment, ValidAssessment
<1>3. parcel_config'[p] \in ParcelConfig
  <2>1. parcel_config'[p] =
          [parcel_config[p] EXCEPT
             !.ai_score = a.ai_score,
             !.collateral_grade = a.collateral_grade,
             !.recommended_ltv = a.recommended_ltv,
             !.risk_flag = NextRiskFlag(a.ai_score, @)]
    BY DEF UpdateRiskAssessment, Registered, TokenTypeOK, ParcelTypeOK
  <2>2. NextRiskFlag(a.ai_score, parcel_config[p].risk_flag) \in {0, 1}
    BY <1>1 DEF NextRiskFlag, ParcelConfig
  <2>3. QED
    BY <1>1, <1>2, <2>1, <2>2 DEF ParcelConfig
<1>4. ParcelTypeOK'
  BY <1>3 DEF TokenTypeOK, ParcelTypeOK, UpdateRiskAssessment
<1>5. QED
  BY <1>4 DEF TokenTypeOK, UpdateRiskAssessment

\* A slot passes.
LEMMA TickType ==
    ASSUME TokenTypeOK, Tick
    PROVE  TokenTypeOK'
BY DEF TokenTypeOK, ParcelTypeOK, Tick
================================================================================
