-------------------------- MODULE TerraLedger_proofs --------------------------
(***************************************************************************)
(* Proofs about the on-chain ledger, for any set of parcels, wallets,      *)
(* surveys, assessments and amounts and any widths of the counters.        *)
(***************************************************************************)
EXTENDS TerraLedger, TerraToken_proofs, FiniteSetTheorems

-----------------------------------------------------------------------------
(* Types *)

\* The instructions of terra_token keep the types and the registry's accounts.
LEMMA TokenStepType ==
    ASSUME TypeOK, TerraTokenStep
    PROVE  TypeOK'
<1>1. TokenTypeOK
  BY TerraTokenAssumption DEF TypeOK, TokenTypeOK
<1>2. TokenTypeOK'
  <2>1. PICK w \in Wallets, p \in Parcels :
          \/ \E survey : RegisterParcel(w, p, survey)
          \/ \E owner : MintCertificate(w, p, owner)
          \/ \E a : UpdateRiskAssessment(w, p, a)
          \/ \E read : SeasonalCheck(p, read)
    BY DEF TerraTokenStep
  <2>2. CASE \E survey : RegisterParcel(w, p, survey)
    BY <1>1, <2>2, RegisterParcelType
  <2>3. CASE \E owner : MintCertificate(w, p, owner)
    BY <1>1, <2>3, MintCertificateType
  <2>4. CASE \E a : UpdateRiskAssessment(w, p, a)
    BY <1>1, <2>4, UpdateRiskAssessmentType
  <2>5. CASE \E read : SeasonalCheck(p, read)
    BY <1>1, <2>5, SeasonalCheckType
  <2>6. QED
    BY <2>1, <2>2, <2>3, <2>4, <2>5
<1>3. UNCHANGED <<slot, lienVars>>
  <2>1. \A w, p, x :
          \/ RegisterParcel(w, p, x) \/ MintCertificate(w, p, x)
          \/ UpdateRiskAssessment(w, p, x) \/ SeasonalCheck(p, x)
          => UNCHANGED slot
    BY DEF RegisterParcel, MintCertificate, UpdateRiskAssessment, SeasonalCheck
  <2>2. QED
    BY <2>1 DEF TerraTokenStep
<1>4. QED
  BY <1>2, <1>3 DEF TypeOK, TokenTypeOK, lienVars, EncumbranceTypeOK, LienIndexTypeOK

\* An index, or the zeroed one init_if_needed creates, is well typed.
LEMMA IndexOrZeroType ==
    ASSUME TypeOK, NEW p \in Parcels
    PROVE  IndexOrZero(p) \in LienIndex
BY CounterTypes DEF IndexOrZero, LienIndex, TypeOK, LienIndexTypeOK

\* A lien is registered with accounts of the declared widths.
LEMMA RegisterEncumbranceType ==
    ASSUME TypeOK, NEW l \in Wallets, NEW p \in Parcels, NEW amount \in Amounts,
           RegisterEncumbrance(l, p, amount)
    PROVE  TypeOK'
<1>1. EncumbranceTypeOK'
  BY LienRegistryAssumption
     DEF TypeOK, EncumbranceTypeOK, RegisterEncumbrance, RegisterAllowed, EncumbranceAccount,
         STATUS_ACTIVE
<1>2. LienIndexTypeOK'
  <2>1. IndexOrZero(p) \in LienIndex
    BY IndexOrZeroType
  <2>2. /\ IndexOrZero(p).active_lien_count + 1 \in U8
        /\ IndexOrZero(p).total_lien_count + 1 \in U16
    BY <2>1, CounterTypes, TerraTokenAssumption
       DEF RegisterEncumbrance, RegisterAllowed, NoActiveLien, LienIndex
  <2>3. QED
    BY <2>2 DEF TypeOK, LienIndexTypeOK, RegisterEncumbrance, RegisterAllowed, LienIndex
<1>3. QED
  BY <1>1, <1>2 DEF TypeOK, RegisterEncumbrance, RegisterAllowed, ParcelTypeOK

\* Closing an account and saturating the counter keep the types.
LEMMA ReleaseEncumbranceType ==
    ASSUME TypeOK, NEW l \in Wallets, NEW p \in Parcels, ReleaseEncumbrance(l, p)
    PROVE  TypeOK'
<1>1. EncumbranceTypeOK'
  BY DEF TypeOK, EncumbranceTypeOK, ReleaseEncumbrance, ReleaseAllowed, Closed
<1>2. LienIndexTypeOK'
  <2>1. \A n \in U8 : SaturatingDec(n) \in U8
    BY TerraTokenAssumption DEF U8, SaturatingDec
  <2>2. QED
    BY <2>1 DEF TypeOK, LienIndexTypeOK, ReleaseEncumbrance, ReleaseAllowed, LienIndex
<1>3. QED
  BY <1>1, <1>2 DEF TypeOK, ReleaseEncumbrance, ReleaseAllowed, ParcelTypeOK

\* No instruction and no tick of the clock leaves the declared widths.
LEMMA TypeStep == TypeOK /\ [Next]_vars => TypeOK'
<1> SUFFICES ASSUME TypeOK, [Next]_vars PROVE TypeOK'
  OBVIOUS
<1>1. CASE TerraTokenStep
  BY <1>1, TokenStepType
<1>2. CASE LienRegistryStep
  BY <1>2, RegisterEncumbranceType, ReleaseEncumbranceType DEF LienRegistryStep
<1>3. CASE Tick /\ UNCHANGED lienVars
  BY <1>3, TerraTokenAssumption
     DEF Tick, lienVars, TypeOK, ParcelTypeOK, EncumbranceTypeOK, LienIndexTypeOK
<1>4. CASE UNCHANGED vars
  BY <1>4 DEF vars, TypeOK, ParcelTypeOK, EncumbranceTypeOK, LienIndexTypeOK
<1>5. QED
  BY <1>1, <1>2, <1>3, <1>4 DEF Next

\* Every reachable account holds values of its declared widths, whatever the
\* transactions and their order.
THEOREM TypeCorrect == Spec => []TypeOK
<1>1. Init => TypeOK
  BY TerraTokenAssumption
     DEF Init, TokenInit, LienInit, TypeOK, ParcelTypeOK, EncumbranceTypeOK, LienIndexTypeOK
<1>2. QED
  BY <1>1, TypeStep, PTL DEF Spec

-----------------------------------------------------------------------------
(* The lien registry *)

\* Steps that leave the registry's accounts alone keep its invariant.
LEMMA LienInvFrame == LienInv /\ UNCHANGED lienVars => LienInv'
BY DEF LienInv, OneLenderOrNone, OpenLiens, Active, IndexOrZero, lienVars

\* An open account is one that exists: no instruction stores another status.
LEMMA ActiveIsOpen ==
    ASSUME TypeOK, NEW p \in Parcels, NEW l \in Wallets
    PROVE  Active(p, l) <=> <<p, l>> \in DOMAIN encumbrance
BY DEF Active, TypeOK, EncumbranceTypeOK, EncumbranceAccount

\* What each registry instruction does to the open liens of every parcel.
LEMMA RegisterEncumbranceEffect ==
    ASSUME TypeOK, NEW l \in Wallets, NEW p \in Parcels, NEW amount \in Amounts,
           RegisterEncumbrance(l, p, amount)
    PROVE  /\ OpenLiens(p)' = OpenLiens(p) \cup {l}
           /\ IndexOrZero(p)'.active_lien_count = IndexOrZero(p).active_lien_count + 1
           /\ IndexOrZero(p)'.total_lien_count = IndexOrZero(p).total_lien_count + 1
           /\ \A q \in Parcels \ {p} :
                /\ OpenLiens(q)' = OpenLiens(q)
                /\ IndexOrZero(q)' = IndexOrZero(q)
<1>1. DOMAIN encumbrance' = DOMAIN encumbrance \cup {<<p, l>>}
  BY DEF RegisterEncumbrance, RegisterAllowed
<1>2. \A q \in Parcels, k \in Wallets :
        Active(q, k)' <=> (Active(q, k) \/ (q = p /\ k = l))
  BY <1>1 DEF RegisterEncumbrance, RegisterAllowed, Active, STATUS_ACTIVE
<1>3. OpenLiens(p)' = OpenLiens(p) \cup {l}
  BY <1>2 DEF OpenLiens
<1>4. \A q \in Parcels \ {p} : OpenLiens(q)' = OpenLiens(q)
  BY <1>2 DEF OpenLiens
<1>5. /\ IndexOrZero(p)' = [active_lien_count |-> IndexOrZero(p).active_lien_count + 1,
                            total_lien_count |-> IndexOrZero(p).total_lien_count + 1]
      /\ \A q \in Parcels \ {p} : IndexOrZero(q)' = IndexOrZero(q)
  BY DEF RegisterEncumbrance, RegisterAllowed, IndexOrZero
<1>6. QED
  BY <1>3, <1>4, <1>5

\* A release takes the lender's account out and counts it down; other parcels
\* are not touched.
LEMMA ReleaseEncumbranceEffect ==
    ASSUME TypeOK, NEW l \in Wallets, NEW p \in Parcels, ReleaseEncumbrance(l, p)
    PROVE  /\ l \in OpenLiens(p)
           /\ OpenLiens(p)' = OpenLiens(p) \ {l}
           /\ IndexOrZero(p)'.active_lien_count
                = SaturatingDec(IndexOrZero(p).active_lien_count)
           /\ IndexOrZero(p)'.total_lien_count = IndexOrZero(p).total_lien_count
           /\ \A q \in Parcels \ {p} :
                /\ OpenLiens(q)' = OpenLiens(q)
                /\ IndexOrZero(q)' = IndexOrZero(q)
<1>1. DOMAIN encumbrance' = DOMAIN encumbrance \ {<<p, l>>}
  BY DEF ReleaseEncumbrance, ReleaseAllowed, Closed
<1>2. \A q \in Parcels, k \in Wallets :
        Active(q, k)' <=> (Active(q, k) /\ ~(q = p /\ k = l))
  BY <1>1 DEF ReleaseEncumbrance, ReleaseAllowed, Closed, Active
<1>3. /\ l \in OpenLiens(p)
      /\ OpenLiens(p)' = OpenLiens(p) \ {l}
  BY <1>2 DEF OpenLiens, ReleaseEncumbrance, ReleaseAllowed, Active
<1>4. \A q \in Parcels \ {p} : OpenLiens(q)' = OpenLiens(q)
  BY <1>2 DEF OpenLiens
<1>5. /\ p \in DOMAIN lien_index
      /\ lien_index \in [DOMAIN lien_index -> LienIndex]
  BY DEF ReleaseEncumbrance, ReleaseAllowed, TypeOK, LienIndexTypeOK
<1>6. /\ IndexOrZero(p)' = [lien_index[p] EXCEPT !.active_lien_count = SaturatingDec(@)]
      /\ IndexOrZero(p) = lien_index[p]
      /\ \A q \in Parcels \ {p} : IndexOrZero(q)' = IndexOrZero(q)
  BY <1>5 DEF ReleaseEncumbrance, ReleaseAllowed, IndexOrZero
<1>7. QED
  BY <1>3, <1>4, <1>5, <1>6 DEF LienIndex

\* The check of the index lets a lien in only where none is open, so that
\* index and accounts agree on one lender afterwards.
LEMMA RegisterEncumbranceInv ==
    ASSUME TypeOK, LienInv,
           NEW l \in Wallets, NEW p \in Parcels, NEW amount \in Amounts,
           RegisterEncumbrance(l, p, amount)
    PROVE  LienInv'
<1>1. OpenLiens(p) = {} /\ IndexOrZero(p).active_lien_count = 0
  BY DEF LienInv, OneLenderOrNone, RegisterEncumbrance, RegisterAllowed, NoActiveLien
<1>2. OneLenderOrNone(p)'
  BY <1>1, RegisterEncumbranceEffect DEF OneLenderOrNone
<1>3. \A q \in Parcels \ {p} : OneLenderOrNone(q)'
  BY RegisterEncumbranceEffect DEF LienInv, OneLenderOrNone
<1>4. QED
  BY <1>2, <1>3 DEF LienInv

\* The lender who releases is the only one there is, and the index goes back to
\* zero with her account.
LEMMA ReleaseEncumbranceInv ==
    ASSUME TypeOK, LienInv, NEW l \in Wallets, NEW p \in Parcels,
           ReleaseEncumbrance(l, p)
    PROVE  LienInv'
<1>1. OpenLiens(p) = {l} /\ IndexOrZero(p).active_lien_count = 1
  BY ReleaseEncumbranceEffect DEF LienInv, OneLenderOrNone
<1>2. OneLenderOrNone(p)'
  BY <1>1, ReleaseEncumbranceEffect DEF OneLenderOrNone, SaturatingDec
<1>3. \A q \in Parcels \ {p} : OneLenderOrNone(q)'
  BY ReleaseEncumbranceEffect DEF LienInv, OneLenderOrNone
<1>4. QED
  BY <1>2, <1>3 DEF LienInv

\* Every step keeps the agreement of index and accounts.
LEMMA LienStep == TypeOK /\ LienInv /\ [Next]_vars => LienInv'
<1> SUFFICES ASSUME TypeOK, LienInv, [Next]_vars PROVE LienInv'
  OBVIOUS
<1>1. CASE LienRegistryStep
  BY <1>1, RegisterEncumbranceInv, ReleaseEncumbranceInv DEF LienRegistryStep
<1>2. CASE UNCHANGED lienVars
  BY <1>2, LienInvFrame
<1>3. QED
  BY <1>1, <1>2 DEF Next, TerraTokenStep, vars, lienVars

\* The counter and the accounts agree in every reachable state.
THEOREM LienInvariant == Spec => []LienInv
<1>1. Init => LienInv
  BY DEF Init, LienInit, LienInv, OneLenderOrNone, OpenLiens, Active, IndexOrZero
<1>2. QED
  BY <1>1, LienStep, TypeCorrect, PTL DEF Spec

\* No parcel is ever pledged to two lenders, for any number of parcels and
\* lenders and any history.
THEOREM DoublePledgePrevented == Spec => []NoDoublePledge
<1>1. LienInv => NoDoublePledge
  BY DEF LienInv, OneLenderOrNone, NoDoublePledge
<1>2. QED
  BY <1>1, LienInvariant, PTL

\* The index's counter is the number of open accounts.
THEOREM IndexIsExact == Spec => []IndexCountsEncumbrances
<1>1. LienInv => IndexCountsEncumbrances
  BY FS_EmptySet, FS_Singleton DEF LienInv, OneLenderOrNone, IndexCountsEncumbrances
<1>2. QED
  BY <1>1, LienInvariant, PTL

-----------------------------------------------------------------------------
(* The registry implements a lock per parcel *)

Pledged == {e \in DOMAIN encumbrance : encumbrance[e].status = STATUS_ACTIVE}

\* The lock's pledges are the open liens.
LEMMA PledgedIsOpen ==
    ASSUME NEW p \in Parcels, NEW l \in Wallets
    PROVE  <<p, l>> \in Pledged <=> l \in OpenLiens(p)
BY DEF Pledged, OpenLiens, Active

\* A registration is the lock's Pledge, a release its Redeem, and every other
\* step a stutter of it.
LEMMA LockStep ==
    TypeOK /\ LienInv /\ [Next]_vars => [Lock!Next]_Pledged
<1> SUFFICES ASSUME TypeOK, LienInv, [Next]_vars PROVE [Lock!Next]_Pledged
  OBVIOUS
<1>1. ASSUME NEW l \in Wallets, NEW p \in Parcels, NEW amount \in Amounts,
             RegisterEncumbrance(l, p, amount)
      PROVE  Lock!Pledge(p, l)
  <2>1. OpenLiens(p) = {}
    BY <1>1 DEF LienInv, OneLenderOrNone, RegisterEncumbrance, RegisterAllowed, NoActiveLien
  <2>2. Lock!Free(p)
    BY <2>1, PledgedIsOpen DEF Lock!Free, Pledged
  <2>3. Pledged' = Pledged \cup {<<p, l>>}
    BY <1>1 DEF Pledged, RegisterEncumbrance, RegisterAllowed, STATUS_ACTIVE
  <2>4. QED
    BY <2>2, <2>3 DEF Lock!Pledge, Pledged
<1>2. ASSUME NEW l \in Wallets, NEW p \in Parcels, ReleaseEncumbrance(l, p)
      PROVE  Lock!Redeem(p, l)
  <2>1. <<p, l>> \in Pledged
    BY <1>2 DEF Pledged, ReleaseEncumbrance, ReleaseAllowed
  <2>2. Pledged' = Pledged \ {<<p, l>>}
    BY <1>2 DEF Pledged, ReleaseEncumbrance, ReleaseAllowed, Closed
  <2>3. QED
    BY <2>1, <2>2 DEF Lock!Redeem, Pledged
<1>3. CASE LienRegistryStep
  BY <1>1, <1>2, <1>3 DEF LienRegistryStep, Lock!Next
<1>4. CASE UNCHANGED lienVars
  BY <1>4 DEF lienVars, Pledged
<1>5. QED
  BY <1>3, <1>4 DEF Next, TerraTokenStep, vars, lienVars

\* Seen through its open accounts, the registry is the lock of PledgeLock: it
\* takes a pledge only on a free parcel and gives back only what was taken.
THEOREM RegistryImplementsLock == Spec => PledgeLockImplemented
<1>1. Init => Lock!Init
  BY DEF Init, LienInit, Lock!Init
<1>2. QED
  BY <1>1, LockStep, TypeCorrect, LienInvariant, PTL
     DEF Spec, PledgeLockImplemented, Lock!Spec, Pledged

-----------------------------------------------------------------------------
(* A free parcel is free for everyone *)

\* What a registration verified stays verified: no instruction takes it back.
ParcelsVerified == \A p \in DOMAIN parcel_config : parcel_config[p].kyc_verified

\* Every instruction keeps it.
LEMMA VerifiedStep == TypeOK /\ ParcelsVerified /\ [Next]_vars => ParcelsVerified'
<1> SUFFICES ASSUME TypeOK, ParcelsVerified, [Next]_vars PROVE ParcelsVerified'
  OBVIOUS
<1>1. ASSUME NEW w \in Wallets, NEW p \in Parcels, NEW survey \in Surveys,
             RegisterParcel(w, p, survey)
      PROVE  ParcelsVerified'
  BY <1>1 DEF RegisterParcel, ParcelsVerified, NewParcel
<1>2. ASSUME NEW w \in Wallets, NEW p \in Parcels, NEW owner \in Wallets,
             MintCertificate(w, p, owner)
      PROVE  ParcelsVerified'
  BY <1>2 DEF MintCertificate, ParcelsVerified, TypeOK, ParcelTypeOK, ParcelConfig
<1>3. ASSUME NEW w \in Wallets, NEW p \in Parcels, NEW a \in Assessments,
             UpdateRiskAssessment(w, p, a)
      PROVE  ParcelsVerified'
  BY <1>3 DEF UpdateRiskAssessment, ParcelsVerified, TypeOK, ParcelTypeOK, ParcelConfig
<1>4. ASSUME NEW p \in Parcels, NEW read, SeasonalCheck(p, read)
      PROVE  ParcelsVerified'
  BY <1>4 DEF SeasonalCheck, ParcelsVerified, TypeOK, ParcelTypeOK, ParcelConfig
<1>5. CASE UNCHANGED parcel_config
  BY <1>5 DEF ParcelsVerified
<1>6. QED
  BY <1>1, <1>2, <1>3, <1>4, <1>5
     DEF Next, TerraTokenStep, LienRegistryStep, RegisterEncumbrance,
         ReleaseEncumbrance, Tick, vars

\* So every registered parcel is verified.
LEMMA VerifiedInvariant == Spec => []ParcelsVerified
<1>1. Init => ParcelsVerified
  BY DEF Init, TokenInit, ParcelsVerified
<1>2. QED
  BY <1>1, VerifiedStep, TypeCorrect, PTL DEF Spec

\* A parcel without an open lien refuses no lender, not the last one either, as
\* long as its history counter has room: nothing a released lien leaves behind,
\* in the accounts or in the index, stands in the way of the next.
THEOREM FreeParcelIsFree == Spec => []FreeParcelCanBePledged
<1>1. TypeOK /\ LienInv /\ ParcelsVerified => FreeParcelCanBePledged
  <2> SUFFICES ASSUME TypeOK, LienInv, ParcelsVerified, NEW p \in DOMAIN parcel_config,
                      OpenLiens(p) = {}, IndexOrZero(p).total_lien_count < MaxU16,
                      NEW l \in Wallets
               PROVE  RegisterAllowed(l, p, 1)
    BY DEF FreeParcelCanBePledged
  <2>1. p \in Parcels
    BY DEF TypeOK, ParcelTypeOK
  <2>2. <<p, l>> \notin DOMAIN encumbrance
    BY <2>1, ActiveIsOpen DEF OpenLiens
  <2>3. IndexOrZero(p).active_lien_count = 0
    BY <2>1 DEF LienInv, OneLenderOrNone
  <2>4. QED
    BY <2>2, <2>3 DEF RegisterAllowed, VerifyParcel, Registered, ParcelsVerified,
       NoActiveLien
<1>2. QED
  BY <1>1, TypeCorrect, LienInvariant, VerifiedInvariant, PTL

-----------------------------------------------------------------------------
(* The risk flag *)

\* Every step keeps flag and score within the hysteresis band of each other.
LEMMA FlagStep == TypeOK /\ FlagFollowsScore /\ [Next]_vars => FlagFollowsScore'
<1> SUFFICES ASSUME TypeOK, FlagFollowsScore, [Next]_vars PROVE FlagFollowsScore'
  OBVIOUS
<1> DEFINE Ok(c) == /\ c.risk_flag = 1 => c.ai_score < 40
                    /\ c.risk_flag = 0 => c.ai_score >= 20 \/ Unassessed(c)
<1>1. ASSUME NEW w \in Wallets, NEW p \in Parcels, NEW survey \in Surveys,
             RegisterParcel(w, p, survey)
      PROVE  FlagFollowsScore'
  BY <1>1 DEF RegisterParcel, FlagFollowsScore, NewParcel, Unassessed
<1>2. ASSUME NEW w \in Wallets, NEW p \in Parcels, NEW owner \in Wallets,
             MintCertificate(w, p, owner)
      PROVE  FlagFollowsScore'
  BY <1>2 DEF MintCertificate, FlagFollowsScore, Unassessed, TypeOK, ParcelTypeOK,
              ParcelConfig
<1>3. ASSUME NEW w \in Wallets, NEW p \in Parcels, NEW a \in Assessments,
             UpdateRiskAssessment(w, p, a)
      PROVE  FlagFollowsScore'
  <2>1. parcel_config[p] \in ParcelConfig
    BY <1>3 DEF UpdateRiskAssessment, Registered, TypeOK, ParcelTypeOK
  <2>2. /\ parcel_config'[p].ai_score = a.ai_score
        /\ parcel_config'[p].risk_flag
             = NextRiskFlag(a.ai_score, parcel_config[p].risk_flag)
    BY <1>3, <2>1 DEF UpdateRiskAssessment, Registered, TypeOK, ParcelTypeOK, ParcelConfig
  <2>3. a.ai_score \in Nat /\ parcel_config[p].risk_flag \in {0, 1}
    BY <1>3, <2>1 DEF UpdateRiskAssessment, ValidAssessment, Scores, ParcelConfig
  <2>4. Ok(parcel_config'[p])
    BY <2>2, <2>3 DEF NextRiskFlag
  <2>5. QED
    BY <1>3, <2>4 DEF UpdateRiskAssessment, FlagFollowsScore, TypeOK, ParcelTypeOK
<1>4. ASSUME NEW p \in Parcels, NEW read, SeasonalCheck(p, read)
      PROVE  FlagFollowsScore'
  BY <1>4 DEF SeasonalCheck, FlagFollowsScore, Unassessed, TypeOK, ParcelTypeOK,
              ParcelConfig
<1>5. CASE UNCHANGED parcel_config
  BY <1>5 DEF FlagFollowsScore, Unassessed
<1>6. QED
  BY <1>1, <1>2, <1>3, <1>4, <1>5
     DEF Next, TerraTokenStep, LienRegistryStep, RegisterEncumbrance,
         ReleaseEncumbrance, Tick, vars

\* The risk flag never contradicts the score beyond the hysteresis band.
THEOREM FlagConsistent == Spec => []FlagFollowsScore
<1>1. Init => FlagFollowsScore
  BY DEF Init, TokenInit, FlagFollowsScore
<1>2. QED
  BY <1>1, FlagStep, TypeCorrect, PTL DEF Spec

-----------------------------------------------------------------------------
(* What the index keeps of the past *)

\* A parcel whose index and liens stay has the same history.
LEMMA HistoryFrame ==
    ASSUME NEW p \in Parcels, IndexOrZero(p) \in LienIndex,
           IndexOrZero(p)' = IndexOrZero(p), OpenLiens(p)' = OpenLiens(p)
    PROVE  ClosedLiens(p)' - ClosedLiens(p) = Cardinality(OpenLiens(p) \ OpenLiens(p)')
<1>1. ClosedLiens(p) \in Int /\ ClosedLiens(p)' = ClosedLiens(p)
  BY DEF ClosedLiens, LienIndex, U8, U16
<1>2. OpenLiens(p) \ OpenLiens(p)' = {}
  OBVIOUS
<1>3. QED
  BY <1>1, <1>2, FS_EmptySet

\* A registration closes nothing, a release closes exactly the releaser's lien.
LEMMA HistoryStep ==
    TypeOK /\ LienInv /\ [Next]_vars =>
        \A p \in Parcels :
            ClosedLiens(p)' - ClosedLiens(p) = Cardinality(OpenLiens(p) \ OpenLiens(p)')
<1> SUFFICES ASSUME TypeOK, LienInv, [Next]_vars, NEW q \in Parcels
             PROVE  ClosedLiens(q)' - ClosedLiens(q) =
                      Cardinality(OpenLiens(q) \ OpenLiens(q)')
  OBVIOUS
<1>0. IndexOrZero(q) \in LienIndex
  BY IndexOrZeroType
<1>1. ASSUME NEW l \in Wallets, NEW p \in Parcels, NEW amount \in Amounts,
             RegisterEncumbrance(l, p, amount)
      PROVE  ClosedLiens(q)' - ClosedLiens(q) = Cardinality(OpenLiens(q) \ OpenLiens(q)')
  <2>1. CASE q = p
    <3>1. ClosedLiens(q)' = ClosedLiens(q) /\ ClosedLiens(q) \in Int
      BY <1>0, <1>1, <2>1, RegisterEncumbranceEffect
         DEF ClosedLiens, LienIndex, U8, U16
    <3>2. OpenLiens(q) \ OpenLiens(q)' = {}
      BY <1>1, <2>1, RegisterEncumbranceEffect
    <3>3. Cardinality(OpenLiens(q) \ OpenLiens(q)') = 0
      BY <3>2, FS_EmptySet
    <3>4. QED
      BY <3>1, <3>3
  <2>2. CASE q # p
    BY <1>0, <1>1, <2>2, RegisterEncumbranceEffect, HistoryFrame
  <2>3. QED
    BY <2>1, <2>2
<1>2. ASSUME NEW l \in Wallets, NEW p \in Parcels, ReleaseEncumbrance(l, p)
      PROVE  ClosedLiens(q)' - ClosedLiens(q) = Cardinality(OpenLiens(q) \ OpenLiens(q)')
  <2>1. CASE q = p
    <3>1. IndexOrZero(q).active_lien_count = 1
      BY <1>2, <2>1, ReleaseEncumbranceEffect DEF LienInv, OneLenderOrNone
    <3>2. ClosedLiens(q)' - ClosedLiens(q) = 1
      BY <1>0, <1>2, <2>1, <3>1, ReleaseEncumbranceEffect
         DEF ClosedLiens, LienIndex, U8, U16, SaturatingDec
    <3>3. OpenLiens(q) \ OpenLiens(q)' = {l}
      BY <1>2, <2>1, ReleaseEncumbranceEffect
    <3>4. QED
      BY <3>2, <3>3, FS_Singleton
  <2>2. CASE q # p
    BY <1>0, <1>2, <2>2, ReleaseEncumbranceEffect, HistoryFrame
  <2>3. QED
    BY <2>1, <2>2
<1>3. CASE LienRegistryStep
  BY <1>1, <1>2, <1>3 DEF LienRegistryStep
<1>4. CASE UNCHANGED lienVars
  <2>1. IndexOrZero(q)' = IndexOrZero(q) /\ OpenLiens(q)' = OpenLiens(q)
    BY <1>4 DEF lienVars, IndexOrZero, OpenLiens, Active
  <2>2. QED
    BY <1>0, <2>1, HistoryFrame
<1>5. QED
  BY <1>3, <1>4 DEF Next, TerraTokenStep, vars, lienVars

\* The index forgets no lien: the registrations it has counted less the active
\* ones grow by one for each lien a release closes, and by nothing else, so a
\* second pledge of a parcel does not erase the first.
THEOREM HistoryNeverForgotten == Spec => HistoryKept
<1> DEFINE Kept == \A p \in Parcels :
        ClosedLiens(p)' - ClosedLiens(p) = Cardinality(OpenLiens(p) \ OpenLiens(p)')
<1>1. TypeOK /\ LienInv /\ [Next]_vars => [Kept]_vars
  BY HistoryStep
<1> HIDE DEF Kept
<1>2. Spec => [][Kept]_vars
  BY <1>1, TypeCorrect, LienInvariant, PTL DEF Spec
<1>3. QED
  BY <1>2 DEF Kept, HistoryKept

-----------------------------------------------------------------------------
(* What the transfer hook lets through *)

\* Every certificate is dated and every submission of the season came with one.
CertsCounted ==
    \A p \in DOMAIN parcel_config :
        LET c == parcel_config[p] IN
        /\ c.cert_count > 0 => c.last_cert_epoch > 0
        /\ c.ndvi_submissions_this_season > 0 => c.cert_count > 0

\* Only a certificate moves its count and its date, both at once, and the check
\* only clears the submissions.
LEMMA CertsCountedStep ==
    TypeOK /\ CertsCounted /\ [Next]_vars => CertsCounted'
<1> SUFFICES ASSUME TypeOK, CertsCounted, [Next]_vars,
                    NEW q \in DOMAIN parcel_config'
             PROVE  LET c == parcel_config'[q] IN
                    /\ c.cert_count > 0 => c.last_cert_epoch > 0
                    /\ c.ndvi_submissions_this_season > 0 => c.cert_count > 0
  BY DEF CertsCounted
<1>0. /\ \A r \in DOMAIN parcel_config : parcel_config[r] \in ParcelConfig
      /\ slot \in Int /\ slot > 0
  BY TerraTokenAssumption DEF TypeOK, ParcelTypeOK
<1>1. ASSUME NEW w \in Wallets, NEW p \in Parcels, NEW survey \in Surveys,
             RegisterParcel(w, p, survey)
      PROVE  \/ q \in DOMAIN parcel_config /\ parcel_config'[q] = parcel_config[q]
             \/ parcel_config'[q] = NewParcel(w)
  BY <1>1 DEF RegisterParcel
<1>2. ASSUME NEW w \in Wallets, NEW p \in Parcels, NEW owner \in Wallets,
             MintCertificate(w, p, owner)
      PROVE  LET c == parcel_config'[q] IN
             /\ c.cert_count > 0 => c.last_cert_epoch > 0
             /\ c.ndvi_submissions_this_season > 0 => c.cert_count > 0
  <2>1. CASE q = p
    <3>1. /\ parcel_config'[q].last_cert_epoch = slot
          /\ parcel_config'[q].cert_count = parcel_config[q].cert_count + 1
          /\ parcel_config[q].cert_count \in Nat
      <4>1. q \in DOMAIN parcel_config /\ parcel_config[q] \in ParcelConfig
        BY <1>0, <1>2, <2>1 DEF MintCertificate, Registered
      <4>2. parcel_config[q].cert_count \in Nat
        BY <4>1, TerraTokenAssumption DEF ParcelConfig, U16
      <4>3. parcel_config'[q] = [parcel_config[q] EXCEPT
                !.last_cert_epoch = slot,
                !.cert_count = @ + 1,
                !.ndvi_submissions_this_season = @ + 1]
        BY <1>2, <2>1, <4>1 DEF MintCertificate
      <4>4. QED
        BY <4>1, <4>2, <4>3 DEF ParcelConfig
    <3>2. QED
      BY <1>0, <3>1
  <2>2. CASE q # p
    BY <1>2, <2>2 DEF MintCertificate, CertsCounted, TypeOK, ParcelTypeOK
  <2>3. QED
    BY <2>1, <2>2
<1>3. ASSUME NEW w \in Wallets, NEW p \in Parcels, NEW a \in Assessments,
             UpdateRiskAssessment(w, p, a)
      PROVE  /\ q \in DOMAIN parcel_config
             /\ parcel_config'[q].cert_count = parcel_config[q].cert_count
             /\ parcel_config'[q].last_cert_epoch = parcel_config[q].last_cert_epoch
             /\ parcel_config'[q].ndvi_submissions_this_season
                  = parcel_config[q].ndvi_submissions_this_season
  BY <1>0, <1>3
     DEF UpdateRiskAssessment, Registered, TypeOK, ParcelTypeOK, ParcelConfig
<1>4. ASSUME NEW p \in Parcels, NEW read, SeasonalCheck(p, read)
      PROVE  /\ q \in DOMAIN parcel_config
             /\ parcel_config'[q].cert_count = parcel_config[q].cert_count
             /\ parcel_config'[q].last_cert_epoch = parcel_config[q].last_cert_epoch
             /\ parcel_config'[q].ndvi_submissions_this_season
                  \in {0, parcel_config[q].ndvi_submissions_this_season}
  <2>1. PICK d : parcel_config' = [parcel_config EXCEPT
                   ![p].dormant_seasons = d, ![p].ndvi_submissions_this_season = 0]
    BY <1>4 DEF SeasonalCheck
  <2>2. QED
    BY <1>0, <2>1 DEF TypeOK, ParcelTypeOK, ParcelConfig
<1>5. CASE \E w \in Wallets, p \in Parcels, survey \in Surveys : RegisterParcel(w, p, survey)
  BY <1>1, <1>5 DEF CertsCounted, NewParcel
<1>6. CASE \E w \in Wallets, p \in Parcels, a \in Assessments : UpdateRiskAssessment(w, p, a)
  BY <1>3, <1>6 DEF CertsCounted
<1>7. CASE \E p \in Parcels : \E read : SeasonalCheck(p, read)
  BY <1>4, <1>7 DEF CertsCounted
<1>8. CASE UNCHANGED parcel_config
  BY <1>8 DEF CertsCounted
<1>9. QED
  BY <1>2, <1>5, <1>6, <1>7, <1>8
     DEF Next, TerraTokenStep, LienRegistryStep, RegisterEncumbrance,
         ReleaseEncumbrance, Tick, vars

\* Certificates are counted and dated in every reachable state.
LEMMA CertsAlwaysCounted == Spec => []CertsCounted
<1>1. Init => CertsCounted
  BY DEF Init, TokenInit, CertsCounted
<1>2. QED
  BY <1>1, CertsCountedStep, TypeCorrect, PTL DEF Spec

\* TransferGuardMoves of one parcel: what may close the transfer hook to it, and
\* what may open it again.
GuardMoves(p) ==
    LET c == parcel_config[p]
        d == parcel_config[p]'
        assessed == event'.type = "RiskAssessmentUpdated" /\ event'.parcel = p
        dormant  == event'.type = "ParcelDormant" /\ event'.parcel = p
    IN  /\ TransferAllowed(p) /\ ~TransferAllowed(p)' =>
             \/ assessed /\ d.ai_score < 20
             \/ /\ dormant /\ d.dormant_seasons = 3
                /\ c.ndvi_submissions_this_season = 0
                /\ ~CertifiedWithinSeason(p)
        /\ ~TransferAllowed(p) /\ TransferAllowed(p)' =>
             \/ assessed /\ d.ai_score >= 40
             \/ /\ c.cert_count > 0 /\ c.ndvi_submissions_this_season > 0
                /\ ~CertifiedWithinSeason(p)

\* A parcel account that stays moves no guard.
LEMMA GuardFrame ==
    ASSUME NEW p, parcel_config[p]' = parcel_config[p]
    PROVE  GuardMoves(p)
BY DEF GuardMoves, TransferAllowed

\* Only an assessment and a seasonal check change what the hook reads.
LEMMA GuardStep ==
    TypeOK /\ CertsCounted /\ [Next]_vars => \A p \in DOMAIN parcel_config : GuardMoves(p)
<1> SUFFICES ASSUME TypeOK, CertsCounted, [Next]_vars, NEW q \in DOMAIN parcel_config
             PROVE  GuardMoves(q)
  OBVIOUS
<1>0. parcel_config[q] \in ParcelConfig
  BY DEF TypeOK, ParcelTypeOK
<1>1. ASSUME NEW w \in Wallets, NEW p \in Parcels, NEW survey \in Surveys,
             RegisterParcel(w, p, survey)
      PROVE  GuardMoves(q)
  BY <1>1, GuardFrame DEF RegisterParcel, Registered
<1>2. ASSUME NEW w \in Wallets, NEW p \in Parcels, NEW owner \in Wallets,
             MintCertificate(w, p, owner)
      PROVE  GuardMoves(q)
  <2>1. /\ parcel_config'[q].risk_flag = parcel_config[q].risk_flag
        /\ parcel_config'[q].dormant_seasons = parcel_config[q].dormant_seasons
    BY <1>0, <1>2 DEF MintCertificate, TypeOK, ParcelTypeOK, ParcelConfig
  <2>2. QED
    BY <2>1 DEF GuardMoves, TransferAllowed
<1>3. ASSUME NEW w \in Wallets, NEW p \in Parcels, NEW a \in Assessments,
             UpdateRiskAssessment(w, p, a)
      PROVE  GuardMoves(q)
  <2>1. CASE q = p
    <3>1. /\ parcel_config'[q].ai_score = a.ai_score
          /\ parcel_config'[q].risk_flag
               = NextRiskFlag(a.ai_score, parcel_config[q].risk_flag)
          /\ parcel_config'[q].dormant_seasons = parcel_config[q].dormant_seasons
          /\ event'.type = "RiskAssessmentUpdated" /\ event'.parcel = q
      BY <1>0, <1>3, <2>1 DEF UpdateRiskAssessment, TypeOK, ParcelTypeOK, ParcelConfig
    <3>2. a.ai_score \in Nat
      BY <1>3 DEF UpdateRiskAssessment, ValidAssessment, Scores
    <3>3. QED
      BY <3>1, <3>2 DEF GuardMoves, TransferAllowed, NextRiskFlag
  <2>2. CASE q # p
    BY <1>3, <2>2, GuardFrame DEF UpdateRiskAssessment, TypeOK, ParcelTypeOK
  <2>3. QED
    BY <2>1, <2>2
<1>4. ASSUME NEW p \in Parcels, NEW read, SeasonalCheck(p, read)
      PROVE  GuardMoves(q)
  <2>1. CASE q = p
    <3>1. PICK d \in U8 :
            /\ parcel_config' = [parcel_config EXCEPT
                 ![q].dormant_seasons = d, ![q].ndvi_submissions_this_season = 0]
            /\ parcel_config[q].ndvi_submissions_this_season # 0 => d = 0
            /\ parcel_config[q].ndvi_submissions_this_season = 0 =>
                 d = SaturatingIncU8(parcel_config[q].dormant_seasons)
      <4>1. SaturatingIncU8(parcel_config[q].dormant_seasons) \in U8 /\ 0 \in U8
        BY <1>0, CounterTypes DEF ParcelConfig
      <4>2. QED
        BY <1>4, <2>1, <4>1 DEF SeasonalCheck
    <3>2. /\ parcel_config'[q].risk_flag = parcel_config[q].risk_flag
          /\ parcel_config'[q].dormant_seasons = d
          /\ parcel_config'[q].ndvi_submissions_this_season = 0
      BY <1>0, <3>1 DEF TypeOK, ParcelTypeOK, ParcelConfig
    <3>3. /\ slot \in Int /\ parcel_config[q].last_cert_epoch \in Nat
          /\ parcel_config[q].cert_count \in Nat
          /\ parcel_config[q].dormant_seasons \in U8
          /\ parcel_config[q].ndvi_submissions_this_season \in U8
      BY <1>0, TerraTokenAssumption DEF TypeOK, ParcelConfig, U16
    <3>4. ~CertifiedWithinSeason(q)
      BY <1>4, <2>1, <3>3, TerraTokenAssumption
         DEF SeasonalCheck, SeasonOver, CertifiedWithinSeason, CertsCounted
    <3>5. ASSUME ~TransferAllowed(q), TransferAllowed(q)'
          PROVE  /\ parcel_config[q].ndvi_submissions_this_season > 0
                 /\ parcel_config[q].cert_count > 0
      <4>1. parcel_config[q].ndvi_submissions_this_season > 0
        BY <3>1, <3>2, <3>3, <3>5, TerraTokenAssumption
           DEF TransferAllowed, SaturatingIncU8, U8
      <4>2. QED
        BY <4>1 DEF CertsCounted
    <3>6. ASSUME TransferAllowed(q), ~TransferAllowed(q)'
          PROVE  /\ parcel_config'[q].dormant_seasons = 3
                 /\ parcel_config[q].ndvi_submissions_this_season = 0
                 /\ event'.type = "ParcelDormant" /\ event'.parcel = q
      <4>1. /\ d > 2 /\ parcel_config[q].dormant_seasons <= 2
        BY <3>2, <3>3, <3>6 DEF TransferAllowed, U8
      <4>2. parcel_config[q].ndvi_submissions_this_season = 0
        BY <3>1, <4>1
      <4>3. d = 3
        BY <3>1, <3>3, <4>1, <4>2, TerraTokenAssumption DEF SaturatingIncU8, U8
      <4>4. event'.type = "ParcelDormant" /\ event'.parcel = q
        BY <1>4, <2>1, <4>2 DEF SeasonalCheck
      <4>5. QED
        BY <3>2, <4>2, <4>3, <4>4
    <3>7. QED
      BY <3>4, <3>5, <3>6 DEF GuardMoves
  <2>2. CASE q # p
    BY <1>4, <2>2, GuardFrame DEF SeasonalCheck, TypeOK, ParcelTypeOK
  <2>3. QED
    BY <2>1, <2>2
<1>5. CASE UNCHANGED parcel_config
  BY <1>5, GuardFrame
<1>6. QED
  BY <1>1, <1>2, <1>3, <1>4, <1>5
     DEF Next, TerraTokenStep, LienRegistryStep, RegisterEncumbrance,
         ReleaseEncumbrance, Tick, vars

\* The certificates of a parcel stop moving only with an announced score below 20
\* or with the check that makes it dormant for the third time, which finds no
\* certificate since the check before and none younger than a season; they move
\* again only with a score of 40 or more, or with a check that ends new
\* submissions a full season after the latest certificate.  No other instruction
\* touches the guard.  Nothing is claimed of the time between two checks.
THEOREM TransferGuardHolds == Spec => TransferGuardMoves
<1> DEFINE Moves == \A p \in DOMAIN parcel_config : GuardMoves(p)
<1>1. TypeOK /\ CertsCounted /\ [Next]_vars => [Moves]_vars
  BY GuardStep
<1> HIDE DEF Moves
<1>2. Spec => [][Moves]_vars
  BY <1>1, TypeCorrect, CertsAlwaysCounted, PTL DEF Spec
<1>3. QED
  BY <1>2 DEF Moves, GuardMoves, TransferGuardMoves

=============================================================================
