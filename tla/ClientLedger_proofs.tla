--------------------------- MODULE ClientLedger_proofs --------------------------
(***************************************************************************)
(* Proofs about the ledger as its clients use it, for any visitors, any    *)
(* parcels and certificates of the script and any number of its runs.      *)
(***************************************************************************)
EXTENDS ClientLedger, TerraLedger_proofs, SequenceTheorems,
        WellFoundedInduction

-----------------------------------------------------------------------------
(* What the programs make of an instruction *)

\* An instruction is carried out by the handler its discriminator names, and
\* only with the signatures it asks for.
LEMMA Dispatch ==
    ASSUME NEW ix, NEW keys, Process(ix, keys)
    PROVE  /\ SignedBy(ix, keys)
           /\ ix.data[1] = "register_parcel" => ProcessRegisterParcel(ix)
           /\ ix.data[1] = "mint_certificate" => ProcessMintCertificate(ix)
           /\ ix.data[1] = "seasonal_check" => ProcessSeasonalCheck(ix)
           /\ ix.data[1] = "update_risk_assessment" => ProcessUpdateRiskAssessment(ix)
           /\ ix.data[1] = "register_encumbrance" => ProcessRegisterEncumbrance(ix)
           /\ ix.data[1] = "release_encumbrance" => ProcessReleaseEncumbrance(ix)
BY DEF Process, ProcessRegisterParcel, ProcessMintCertificate, ProcessSeasonalCheck,
       ProcessUpdateRiskAssessment, ProcessRegisterEncumbrance, ProcessReleaseEncumbrance

\* Both builders of register_parcel register the parcel they are given.
LEMMA RegisterParcelSent ==
    ASSUME NEW owner, NEW p, NEW keys,
           NEW survey \in [area_ha : Nat, land_class : Nat],
           \/ Process(buildRegisterParcelInstruction(owner, p, survey), keys)
           \/ Process(webBuildRegisterParcel(owner, p, survey), keys)
    PROVE  RegisterParcel(owner, p, survey) /\ UNCHANGED lienVars
<1> DEFINE ix == buildRegisterParcelInstruction(owner, p, survey)
<1>1. webBuildRegisterParcel(owner, p, survey) = ix
  BY DEF webBuildRegisterParcel, buildRegisterParcelInstruction
<1>2. /\ ix.data[1] = "register_parcel" /\ ix.data[2] = p
      /\ ix.data[3] = survey.area_ha /\ ix.data[4] = survey.land_class
      /\ At(ix, 2) = owner
  BY DEF buildRegisterParcelInstruction, Instruction, At
<1>3. ProcessRegisterParcel(ix)
  <2>1. Process(ix, keys)
    BY <1>1
  <2> HIDE DEF ix
  <2>2. QED
    BY <1>2, <2>1, Dispatch
<1>4. [area_ha |-> survey.area_ha, land_class |-> survey.land_class] = survey
  OBVIOUS
<1> HIDE DEF ix
<1>5. QED
  BY <1>2, <1>3, <1>4 DEF ProcessRegisterParcel

\* The two flags say what the role says.
LEMMA FlagsKeepRole ==
    \A role \in {READONLY, WRITABLE, READONLY_SIGNER, WRITABLE_SIGNER} :
        RoleOf(Flags(role)) = role
BY DEF RoleOf, Flags, READONLY, WRITABLE, READONLY_SIGNER, WRITABLE_SIGNER

\* The two of register_encumbrance pledge the parcel to the lender who signs,
\* and Phantom's serialisation changes nothing of that.
LEMMA RegisterEncumbranceSent ==
    ASSUME NEW lender, NEW p, NEW amount, NEW keys,
           \/ Process(buildRegisterEncumbranceInstruction(lender, getParcelPda(p), p, amount),
                      keys)
           \/ Process(serializeTransactionB58(
                        webBuildRegisterEncumbrance(lender, getParcelPda(p), p, amount)), keys)
    PROVE  RegisterEncumbrance(lender, p, amount) /\ lender \in keys
<1> DEFINE ix == buildRegisterEncumbranceInstruction(lender, getParcelPda(p), p, amount)
<1>1. webBuildRegisterEncumbrance(lender, getParcelPda(p), p, amount) = ix
  BY DEF webBuildRegisterEncumbrance, buildRegisterEncumbranceInstruction
<1>2. PICK sent : Process(sent, keys) /\ sent \in {ix, serializeTransactionB58(ix)}
  BY <1>1
<1>3. /\ ix.data = <<"register_encumbrance", p, amount, "notary_sig", "notary_cert">>
      /\ DOMAIN ix.accounts = 1 .. 6
      /\ ix.accounts[4] = <<lender, WRITABLE_SIGNER>>
  BY DEF buildRegisterEncumbranceInstruction, Instruction
<1>4. /\ serializeTransactionB58(ix).data = ix.data
      /\ serializeTransactionB58(ix).accounts[4] = <<lender, WRITABLE_SIGNER>>
      /\ 4 \in DOMAIN serializeTransactionB58(ix).accounts
  <2>1. /\ ix = [program |-> ix.program, accounts |-> ix.accounts, data |-> ix.data]
        /\ 4 \in DOMAIN ix.accounts
    BY <1>3 DEF buildRegisterEncumbranceInstruction, Instruction
  <2> HIDE DEF ix
  <2>2. RoleOf(Flags(WRITABLE_SIGNER)) = WRITABLE_SIGNER
    BY FlagsKeepRole
  <2>3. QED
    BY <1>3, <2>1, <2>2 DEF serializeTransactionB58
<1>5. PICK role : /\ "signer" \in role
                  /\ sent.data[1] = "register_encumbrance"
                  /\ sent.data[2] = p /\ sent.data[3] = amount
                  /\ 4 \in DOMAIN sent.accounts
                  /\ sent.accounts[4] = <<lender, role>>
  BY <1>2, <1>3, <1>4 DEF WRITABLE_SIGNER
<1> HIDE DEF ix
<1>6. SignedBy(sent, keys) /\ ProcessRegisterEncumbrance(sent)
  BY <1>2, <1>5, Dispatch
<1>7. QED
  BY <1>5, <1>6 DEF ProcessRegisterEncumbrance, SignedBy, At

\* A release gives back the signer's own lien on the parcel it names.
LEMMA ReleaseEncumbranceSent ==
    ASSUME NEW lender, NEW p, NEW keys,
           Process(buildReleaseEncumbranceInstruction(lender, getParcelPda(p)), keys)
    PROVE  ReleaseEncumbrance(lender, p) /\ lender \in keys
<1> DEFINE ix == buildReleaseEncumbranceInstruction(lender, getParcelPda(p))
<1>1. /\ ix.data[1] = "release_encumbrance"
      /\ DOMAIN ix.accounts = 1 .. 4
      /\ ix.accounts[3][1][2] = p
      /\ ix.accounts[4] = <<lender, WRITABLE_SIGNER>>
  BY DEF buildReleaseEncumbranceInstruction, Instruction, getParcelPda
<1>2. Process(ix, keys)
  OBVIOUS
<1> HIDE DEF ix
<1>3. SignedBy(ix, keys) /\ ProcessReleaseEncumbrance(ix)
  BY <1>1, <1>2, Dispatch
<1>4. QED
  BY <1>1, <1>3 DEF ProcessReleaseEncumbrance, SignedBy, At, WRITABLE_SIGNER

\* A seasonal check that leaves the lien index out reports no lien.
LEMMA SeasonalCheckSent ==
    ASSUME NEW keeper, NEW p, NEW keys, Process(webBuildSeasonalCheck(keeper, p), keys)
    PROVE  SeasonalCheck(p, FALSE) /\ UNCHANGED lienVars
<1> DEFINE ix == webBuildSeasonalCheck(keeper, p)
<1>1. ix.data[1] = "seasonal_check" /\ ix.data[2] = p
  BY DEF webBuildSeasonalCheck, Instruction
<1>2. Process(ix, keys)
  OBVIOUS
<1> HIDE DEF ix
<1>3. ProcessSeasonalCheck(ix)
  BY <1>1, <1>2, Dispatch
<1>4. QED
  BY <1>1, <1>3 DEF ProcessSeasonalCheck

\* An assessment reaches the program with the three numbers it was built from.
LEMMA UpdateRiskAssessmentSent ==
    ASSUME NEW authority, NEW p, NEW keys,
           NEW a \in [ai_score : Nat, collateral_grade : Nat, recommended_ltv : Nat],
           Process(buildUpdateRiskAssessmentInstruction(getParcelPda(p), authority, p, a), keys)
    PROVE  UpdateRiskAssessment(authority, p, a) /\ UNCHANGED lienVars
<1> DEFINE ix == buildUpdateRiskAssessmentInstruction(getParcelPda(p), authority, p, a)
<1>1. /\ ix.data[1] = "update_risk_assessment" /\ ix.data[2] = p
      /\ ix.data[3] = a.ai_score /\ ix.data[4] = a.collateral_grade
      /\ ix.data[5] = a.recommended_ltv
      /\ ix.accounts[2][1] = authority
  BY DEF buildUpdateRiskAssessmentInstruction, Instruction
<1>2. Process(ix, keys)
  OBVIOUS
<1>3. a = [ ai_score |-> a.ai_score, collateral_grade |-> a.collateral_grade,
            recommended_ltv |-> a.recommended_ltv ]
  OBVIOUS
<1> HIDE DEF ix
<1>4. ProcessUpdateRiskAssessment(ix)
  BY <1>1, <1>2, Dispatch
<1>5. QED
  BY <1>1, <1>3, <1>4 DEF ProcessUpdateRiskAssessment, At

\* The script mints to the farmer on the farmer's own authority.
LEMMA MintCertificateSent ==
    ASSUME NEW p, NEW mint, NEW keys, Process(MintInstruction(p, mint), keys)
    PROVE  MintCertificate(Farmer, p, Farmer) /\ UNCHANGED lienVars
<1> DEFINE ix == MintInstruction(p, mint)
<1>1. /\ ix.data[1] = "mint_certificate" /\ ix.data[2] = p
      /\ ix.accounts[4][1] = Farmer /\ ix.accounts[5][1] = Farmer
  BY DEF MintInstruction, Instruction
<1>2. Process(ix, keys)
  OBVIOUS
<1> HIDE DEF ix
<1>3. ProcessMintCertificate(ix)
  BY <1>1, <1>2, Dispatch
<1>4. QED
  BY <1>1, <1>3 DEF ProcessMintCertificate, At

-----------------------------------------------------------------------------
(* The clients' steps are transactions of the ledger *)

\* What a visitor's step does: one instruction, and whoever it is about, a lien
\* is taken or given back in the name of the visitor who signs.
VisitorDoes ==
    \/ /\ \E w \in Wallets, p \in Parcels :
            \/ \E survey \in Surveys : RegisterParcel(w, p, survey)
            \/ \E a \in Assessments : UpdateRiskAssessment(w, p, a)
            \/ SeasonalCheck(p, FALSE)
       /\ UNCHANGED lienVars
    \/ \E lender \in Visitors, p \in Parcels :
         \/ \E amount \in Amounts : RegisterEncumbrance(lender, p, amount)
         \/ ReleaseEncumbrance(lender, p)

\* Visitors can do no more than that, whomever they name.
LEMMA VisitorDoesNoMore == VisitorStep => VisitorDoes /\ UNCHANGED script
<1> SUFFICES ASSUME VisitorStep PROVE VisitorDoes /\ UNCHANGED script
  OBVIOUS
<1>1. PICK w \in Visitors, owner \in Wallets, p \in Contested :
        \/ \E survey \in Surveys : Sends(w, webBuildRegisterParcel(owner, p, survey))
        \/ Sends(w, webBuildSeasonalCheck(owner, p))
        \/ \E a \in Assessments :
             Sends(w, buildUpdateRiskAssessmentInstruction(getParcelPda(p), owner, p, a))
        \/ \E amount \in Amounts :
             \/ Sends(w, buildRegisterEncumbranceInstruction(owner, getParcelPda(p), p, amount))
             \/ Sends(w, serializeTransactionB58(
                           webBuildRegisterEncumbrance(owner, getParcelPda(p), p, amount)))
        \/ Sends(w, buildReleaseEncumbranceInstruction(owner, getParcelPda(p)))
  BY DEF VisitorStep
<1>2. p \in Parcels /\ w \in Visitors
  BY ClientLedgerAssumption
<1>3. ASSUME NEW survey \in Surveys, Sends(w, webBuildRegisterParcel(owner, p, survey))
      PROVE  VisitorDoes /\ UNCHANGED script
  BY <1>2, <1>3, RegisterParcelSent, TerraTokenAssumption DEF Sends, VisitorDoes
<1>4. CASE Sends(w, webBuildSeasonalCheck(owner, p))
  BY <1>2, <1>4, SeasonalCheckSent DEF Sends, VisitorDoes
<1>5. ASSUME NEW a \in Assessments,
             Sends(w, buildUpdateRiskAssessmentInstruction(getParcelPda(p), owner, p, a))
      PROVE  VisitorDoes /\ UNCHANGED script
  BY <1>2, <1>5, UpdateRiskAssessmentSent, TerraTokenAssumption DEF Sends, VisitorDoes
<1>6. ASSUME NEW amount \in Amounts,
             \/ Sends(w, buildRegisterEncumbranceInstruction(owner, getParcelPda(p), p, amount))
             \/ Sends(w, serializeTransactionB58(
                           webBuildRegisterEncumbrance(owner, getParcelPda(p), p, amount)))
      PROVE  VisitorDoes /\ UNCHANGED script
  <2>1. RegisterEncumbrance(owner, p, amount) /\ owner \in {w} /\ UNCHANGED script
    BY <1>6, RegisterEncumbranceSent DEF Sends
  <2>2. QED
    BY <1>2, <2>1 DEF VisitorDoes
<1>7. CASE Sends(w, buildReleaseEncumbranceInstruction(owner, getParcelPda(p)))
  <2>1. ReleaseEncumbrance(owner, p) /\ owner \in {w} /\ UNCHANGED script
    BY <1>7, ReleaseEncumbranceSent DEF Sends
  <2>2. QED
    BY <1>2, <2>1 DEF VisitorDoes
<1>8. QED
  BY <1>1, <1>3, <1>4, <1>5, <1>6, <1>7

-----------------------------------------------------------------------------
(* The script's place in its data *)

Runs == 0 .. Len(LenderKeys)
Counts == Nat \ {0}

ScriptState ==
    [ pc   : {"exited", "fund", "register", "mint", "lien", "done"},
      run  : Runs,
      item : DOMAIN PARCELS,
      cert : Counts,
      errs : BOOLEAN ]

\* A run under way has a key, and counts no certificate it is not to mint.
ScriptOK ==
    /\ script \in ScriptState
    /\ script.pc # "exited" => script.run >= 1
    /\ script.pc = "mint" => script.cert <= Certificates[script.item]

\* The data of the script: at least one parcel, each with a certificate.
LEMMA ScriptData ==
    /\ Len(PARCELS) \in Nat \ {0}
    /\ DOMAIN PARCELS = 1 .. Len(PARCELS)
    /\ \A i \in 1 .. Len(PARCELS) : PARCELS[i] \in Parcels /\ Certificates[i] \in Nat \ {0}
    /\ Len(LenderKeys) \in Nat
    /\ \A r \in 1 .. Len(LenderKeys) : LenderKeys[r] \in Wallets
    /\ DOMAIN LenderKeys = 1 .. Len(LenderKeys)
<1>1. Len(PARCELS) # 0
  BY SeedScriptAssumption, EmptySeq, LenProperties
<1>2. QED
  BY <1>1, SeedScriptAssumption

\* On to the next parcel, or to the next part of the script after the last.
LEMMA NextParcelIs ==
    ASSUME ScriptOK, NEW pc \in {"mint", "lien"}
    PROVE  /\ NextParcel(pc) \in ScriptState
           /\ NextParcel(pc).run = script.run /\ NextParcel(pc).errs = script.errs
           /\ NextParcel(pc).cert = 1
           /\ script.item < Len(PARCELS) => /\ NextParcel(pc).pc = script.pc
                                            /\ NextParcel(pc).item = script.item + 1
           /\ script.item >= Len(PARCELS) => /\ NextParcel(pc).pc = pc
                                             /\ NextParcel(pc).item = 1
<1>0. 1 \in Counts
  BY DEF Counts
<1>1. script \in ScriptState /\ script.item \in 1 .. Len(PARCELS)
  BY ScriptData DEF ScriptOK, ScriptState
<1>2. CASE script.item < Len(PARCELS)
  <2>1. script.item + 1 \in DOMAIN PARCELS
    BY <1>1, <1>2, ScriptData
  <2>2. NextParcel(pc) = [script EXCEPT !.item = script.item + 1, !.cert = 1]
    BY <1>2 DEF NextParcel
  <2>3. [script EXCEPT !.item = script.item + 1, !.cert = 1] \in ScriptState
    BY <1>0, <1>1, <2>1 DEF ScriptState
  <2>4. /\ NextParcel(pc).run = script.run /\ NextParcel(pc).errs = script.errs
        /\ NextParcel(pc).cert = 1 /\ NextParcel(pc).pc = script.pc
        /\ NextParcel(pc).item = script.item + 1
    BY <1>1, <2>2 DEF ScriptState
  <2>5. ~(script.item >= Len(PARCELS))
    BY <1>1, <1>2, ScriptData
  <2>6. QED
    BY <1>2, <2>2, <2>3, <2>4, <2>5
<1>3. CASE script.item >= Len(PARCELS)
  <2>1. ~(script.item < Len(PARCELS)) /\ 1 \in DOMAIN PARCELS
    BY <1>1, <1>3, ScriptData
  <2>2. NextParcel(pc) = [script EXCEPT !.pc = pc, !.item = 1, !.cert = 1]
    BY <2>1 DEF NextParcel
  <2>3. [script EXCEPT !.pc = pc, !.item = 1, !.cert = 1] \in ScriptState
    BY <1>0, <1>1, <2>1 DEF ScriptState
  <2>4. /\ NextParcel(pc).run = script.run /\ NextParcel(pc).errs = script.errs
        /\ NextParcel(pc).cert = 1 /\ NextParcel(pc).pc = pc
        /\ NextParcel(pc).item = 1
    BY <1>1, <2>2 DEF ScriptState
  <2>5. QED
    BY <1>3, <2>1, <2>2, <2>3, <2>4
<1>4. QED
  BY <1>1, <1>2, <1>3, ScriptData

\* A logged error is all that a record of the script gains by it.
LEMMA LoggedIs ==
    ASSUME NEW next \in ScriptState
    PROVE  /\ [next EXCEPT !.errs = TRUE] \in ScriptState
           /\ [next EXCEPT !.errs = TRUE].pc = next.pc
           /\ [next EXCEPT !.errs = TRUE].run = next.run
           /\ [next EXCEPT !.errs = TRUE].item = next.item
           /\ [next EXCEPT !.errs = TRUE].cert = next.cert
           /\ [next EXCEPT !.errs = TRUE].errs = TRUE
BY DEF ScriptState

\* The first step of the script registers a parcel, or does nothing.
LEMMA SeedRegisterDoes ==
    ASSUME ScriptOK, SeedRegister
    PROVE  /\ \/ \E p \in Parcels : RegisterParcel(Farmer, p, AREA) /\ UNCHANGED lienVars
              \/ UNCHANGED seedVars
           /\ ScriptOK'
           /\ script'.pc = "register" \/ (script'.pc = "mint" /\ script'.item = 1 /\ script'.cert = 1)
<1> DEFINE p == PARCELS[script.item]
           next == NextParcel("mint")
<1>1. /\ script.pc = "register" /\ script.run >= 1
      /\ script \in ScriptState /\ script.item \in 1 .. Len(PARCELS)
  BY ScriptData DEF SeedRegister, ScriptOK, ScriptState
<1>2. p \in Parcels /\ AREA \in Surveys /\ AREA \in [area_ha : Nat, land_class : Nat]
  BY <1>1, ScriptData, SeedScriptAssumption, TerraTokenAssumption
<1>3. /\ \/ Process(buildRegisterParcelInstruction(Farmer, p, AREA), {Farmer})
         \/ UNCHANGED seedVars
      /\ script' \in {next, [next EXCEPT !.errs = TRUE]}
  BY DEF SeedRegister, Try
<1>4. \/ RegisterParcel(Farmer, p, AREA) /\ UNCHANGED lienVars
      \/ UNCHANGED seedVars
  BY <1>2, <1>3, RegisterParcelSent
<1>5. /\ next \in ScriptState /\ next.run = script.run
      /\ next.pc = "register" \/ (next.pc = "mint" /\ next.item = 1 /\ next.cert = 1)
  BY <1>1, NextParcelIs, ScriptData
<1> HIDE DEF next
<1>6. /\ script' \in ScriptState /\ script'.run = script.run
      /\ script'.pc = "register" \/ (script'.pc = "mint" /\ script'.item = 1 /\ script'.cert = 1)
  BY <1>3, <1>5, LoggedIs
<1>7. script'.pc = "mint" => script'.cert <= Certificates[script'.item]
  <2>1. Certificates[1] \in Nat \ {0}
    BY ScriptData
  <2>2. QED
    BY <1>6, <2>1
<1>8. ScriptOK'
  BY <1>1, <1>6, <1>7 DEF ScriptOK
<1>9. QED
  BY <1>2, <1>4, <1>6, <1>8

\* A certificate is minted or an error logged, and the script goes on to the
\* parcel's next certificate, to the next parcel, or to the lien.
LEMMA SeedMintDoes ==
    ASSUME ScriptOK, SeedMint,
           NEW p, NEW n, p = PARCELS[script.item], n = Certificates[script.item]
    PROVE  /\ p \in Parcels /\ script.pc = "mint" /\ script.cert \in 1 .. n
           /\ \/ MintCertificate(Farmer, p, Farmer) /\ UNCHANGED lienVars
              \/ UNCHANGED seedVars /\ script'.errs = TRUE
           /\ script'.errs = TRUE \/ script'.errs = script.errs
           /\ ScriptOK'
           /\ \/ /\ script.cert < n
                 /\ script'.pc = "mint" /\ script'.item = script.item
                 /\ script'.cert = script.cert + 1
              \/ /\ script.cert = n /\ script'.cert = 1
                 /\ \/ script.item < Len(PARCELS) /\ script'.pc = "mint"
                                                  /\ script'.item = script.item + 1
                    \/ script.item = Len(PARCELS) /\ script'.pc = "lien"
<1> DEFINE certMint == <<"mint", script.run, script.item, script.cert>>
           next == IF script.cert < Certificates[script.item]
                   THEN [script EXCEPT !.cert = @ + 1] ELSE NextParcel("lien")
<1>1. /\ script.pc = "mint" /\ script.run >= 1
      /\ script \in ScriptState /\ script.item \in 1 .. Len(PARCELS)
  BY ScriptData DEF SeedMint, ScriptOK, ScriptState
<1>2. p \in Parcels /\ n \in Nat \ {0} /\ script.cert \in 1 .. n
  BY <1>1, ScriptData DEF ScriptOK, ScriptState, Counts
<1>3. /\ \/ Process(MintInstruction(p, certMint), {Farmer, certMint})
         \/ UNCHANGED seedVars /\ script' = [next EXCEPT !.errs = TRUE]
      /\ script' \in {next, [next EXCEPT !.errs = TRUE]}
  BY DEF SeedMint, Try
<1>4. \/ MintCertificate(Farmer, p, Farmer) /\ UNCHANGED lienVars
      \/ UNCHANGED seedVars /\ script' = [next EXCEPT !.errs = TRUE]
  BY <1>3, MintCertificateSent
<1>5. /\ next \in ScriptState /\ next.run = script.run /\ next.errs = script.errs
      /\ \/ /\ script.cert < n
            /\ next.pc = "mint" /\ next.item = script.item /\ next.cert = script.cert + 1
         \/ /\ script.cert = n /\ next.cert = 1
            /\ \/ script.item < Len(PARCELS) /\ next.pc = "mint"
                                             /\ next.item = script.item + 1
               \/ script.item = Len(PARCELS) /\ next.pc = "lien"
  <2>1. CASE script.cert < n
    <3>1. next = [script EXCEPT !.cert = script.cert + 1] /\ script.cert + 1 \in Counts
      BY <1>2, <2>1 DEF Counts
    <3>2. next \in ScriptState
      BY <1>1, <3>1 DEF ScriptState
    <3>3. /\ next.run = script.run /\ next.errs = script.errs
          /\ next.pc = "mint" /\ next.item = script.item /\ next.cert = script.cert + 1
      BY <1>1, <3>1 DEF ScriptState
    <3>4. QED
      BY <2>1, <3>2, <3>3
  <2>2. CASE ~(script.cert < n)
    <3>1. next = NextParcel("lien") /\ script.cert = n
      BY <1>2, <2>2
    <3>2. script.item < Len(PARCELS) \/ script.item = Len(PARCELS)
      BY <1>1, ScriptData
    <3>3. QED
      BY <1>1, <3>1, <3>2, NextParcelIs, ScriptData
  <2>3. QED
    BY <2>1, <2>2
<1> HIDE DEF next
<1>6. /\ script' \in ScriptState /\ script'.run = script.run
      /\ script'.errs = TRUE \/ script'.errs = script.errs
      /\ script'.pc = next.pc /\ script'.item = next.item /\ script'.cert = next.cert
  BY <1>3, <1>5, LoggedIs
<1>7. script'.pc = "mint" => script'.cert <= Certificates[script'.item]
  <2>1. CASE script.cert < n /\ script'.item = script.item /\ script'.cert = script.cert + 1
    BY <1>2, <2>1
  <2>2. CASE script'.cert = 1 /\ script'.pc = "mint"
    <3>1. script'.item \in 1 .. Len(PARCELS)
      BY <1>6, ScriptData DEF ScriptState
    <3>2. Certificates[script'.item] \in Nat \ {0}
      BY <3>1, ScriptData
    <3>3. QED
      BY <2>2, <3>2
  <2>3. QED
    BY <1>5, <1>6, <2>1, <2>2
<1>8. ScriptOK'
  BY <1>1, <1>5, <1>6, <1>7 DEF ScriptOK
<1>9. script' = [next EXCEPT !.errs = TRUE] => script'.errs = TRUE
  BY <1>5, LoggedIs
<1>10. QED
  BY <1>1, <1>2, <1>4, <1>5, <1>6, <1>8, <1>9

\* The lien is the run's own, or was there already, or an error is logged.
LEMMA SeedLienDoes ==
    ASSUME ScriptOK, SeedLien
    PROVE  /\ script.pc = "lien" /\ PARCELS[1] \in Parcels /\ Lender \in Wallets
           /\ script'.pc = "done" /\ script'.run = script.run
           /\ script'.errs = TRUE \/ script'.errs = script.errs
           /\ \/ RegisterEncumbrance(Lender, PARCELS[1], 1)
              \/ /\ UNCHANGED seedVars
                 /\ script'.errs = TRUE \/ <<PARCELS[1], Lender>> \in DOMAIN encumbrance
           /\ ScriptOK'
<1> DEFINE p == PARCELS[1]
           next == [script EXCEPT !.pc = "done"]
<1>1. /\ script.pc = "lien" /\ script.run \in 1 .. Len(LenderKeys) /\ script \in ScriptState
  BY ScriptData DEF SeedLien, ScriptOK, ScriptState, Runs
<1>2. p \in Parcels /\ Lender \in Wallets
  BY <1>1, ScriptData DEF Lender
<1>3. /\ \/ Process(buildRegisterEncumbranceInstruction(Lender, getParcelPda(p), p, 1), {Lender})
         \/ /\ UNCHANGED seedVars
            /\ \/ RegisterEncumbranceError(Lender, p, 1) = ALREADY_IN_USE
               \/ script' = [next EXCEPT !.errs = TRUE]
      /\ script' \in {next, [next EXCEPT !.errs = TRUE]}
  BY DEF SeedLien, Try
<1>4. RegisterEncumbranceError(Lender, p, 1) = ALREADY_IN_USE =>
        <<p, Lender>> \in DOMAIN encumbrance
  BY DEF RegisterEncumbranceError, ALREADY_IN_USE, None
<1>5. /\ next \in ScriptState /\ next.pc = "done" /\ next.run = script.run
      /\ next.errs = script.errs
  BY <1>1 DEF ScriptState
<1> HIDE DEF next
<1>6. /\ script' \in ScriptState /\ script'.pc = "done" /\ script'.run = script.run
      /\ script'.errs = TRUE \/ script'.errs = script.errs
      /\ script' = [next EXCEPT !.errs = TRUE] => script'.errs = TRUE
  BY <1>3, <1>5, LoggedIs
<1>7. ScriptOK'
  BY <1>1, <1>6 DEF ScriptOK
<1>8. Process(buildRegisterEncumbranceInstruction(Lender, getParcelPda(p), p, 1), {Lender})
        => RegisterEncumbrance(Lender, p, 1)
  BY RegisterEncumbranceSent
<1>9. QED
  BY <1>1, <1>2, <1>3, <1>4, <1>6, <1>7, <1>8

\* Starting, funding and ending touch no account of the programs.
LEMMA ProcessDoes ==
    ASSUME ScriptOK, StartRun \/ Exit \/ FundLender
    PROVE  /\ UNCHANGED seedVars
           /\ ScriptOK'
           /\ script'.pc \in {"exited", "fund", "register"}
<1>0. script \in ScriptState
  BY DEF ScriptOK
<1>1. CASE StartRun
  <2>1. script.run + 1 \in Runs /\ script.run + 1 >= 1 /\ 1 \in Counts /\ 1 \in DOMAIN PARCELS
    BY <1>0, <1>1, ScriptData DEF StartRun, ScriptState, Runs, Counts
  <2>2. script' = [pc |-> "fund", run |-> script.run + 1, item |-> 1, cert |-> 1,
                   errs |-> FALSE]
    BY <1>1 DEF StartRun
  <2>3. script' \in ScriptState /\ script'.pc = "fund" /\ script'.run >= 1
    BY <2>1, <2>2 DEF ScriptState
  <2>4. QED
    BY <1>1, <2>3 DEF StartRun, ScriptOK
<1>2. CASE Exit
  <2>1. script' \in ScriptState /\ script'.pc = "exited"
    BY <1>0, <1>2 DEF Exit, ScriptState
  <2>2. QED
    BY <1>2, <2>1 DEF Exit, ScriptOK
<1>3. CASE FundLender
  <2>1. script' \in ScriptState /\ script'.pc = "register" /\ script'.run = script.run
    BY <1>0, <1>3 DEF FundLender, ScriptState
  <2>2. script.pc # "exited"
    BY <1>3 DEF FundLender
  <2>3. QED
    BY <1>3, <2>1, <2>2 DEF FundLender, ScriptOK
<1>4. QED
  BY <1>1, <1>2, <1>3

\* What the script's step does to the accounts: it pledges nothing but the
\* first parcel, to the lender of its run, and releases nothing.
ScriptDoes ==
    \/ /\ \E p \in Parcels : RegisterParcel(Farmer, p, AREA) \/ MintCertificate(Farmer, p, Farmer)
       /\ UNCHANGED lienVars
    \/ Lender \in Wallets /\ RegisterEncumbrance(Lender, PARCELS[1], 1)
    \/ UNCHANGED seedVars

\* The script does no more than that.
LEMMA ScriptDoesNoMore == ScriptOK /\ SeedStep => ScriptDoes /\ ScriptOK'
<1> SUFFICES ASSUME ScriptOK, SeedStep PROVE ScriptDoes /\ ScriptOK'
  OBVIOUS
<1>1. CASE StartRun \/ Exit \/ FundLender
  BY <1>1, ProcessDoes DEF ScriptDoes
<1>2. CASE SeedRegister
  BY <1>2, SeedRegisterDoes DEF ScriptDoes
<1>3. CASE SeedMint
  <2>1. PICK p, n : p = PARCELS[script.item] /\ n = Certificates[script.item]
    OBVIOUS
  <2>2. /\ p \in Parcels
        /\ \/ MintCertificate(Farmer, p, Farmer) /\ UNCHANGED lienVars
           \/ UNCHANGED seedVars
        /\ ScriptOK'
    BY <1>3, <2>1, SeedMintDoes
  <2>3. QED
    BY <2>2 DEF ScriptDoes
<1>4. CASE SeedLien
  BY <1>4, SeedLienDoes DEF ScriptDoes
<1>5. QED
  BY <1>1, <1>2, <1>3, <1>4 DEF SeedStep

\* Every step of the clients is a step of the ledger.
LEMMA ClientStep == ScriptOK /\ [ClientNext]_clientVars => [Next]_vars /\ ScriptOK'
<1> SUFFICES ASSUME ScriptOK, [ClientNext]_clientVars PROVE [Next]_vars /\ ScriptOK'
  OBVIOUS
<1>1. UNCHANGED script => ScriptOK'
  BY DEF ScriptOK
<1>2. CASE VisitorStep
  <2>1. VisitorDoes /\ UNCHANGED script
    BY <1>2, VisitorDoesNoMore
  <2>2. Next
    BY <2>1, ClientLedgerAssumption
       DEF VisitorDoes, Next, TerraTokenStep, LienRegistryStep
  <2>3. QED
    BY <1>1, <2>1, <2>2
<1>3. CASE SeedStep
  <2>1. ScriptDoes /\ ScriptOK'
    BY <1>3, ScriptDoesNoMore
  <2>2. Farmer \in Wallets /\ AREA \in Surveys /\ 1 \in Amounts /\ PARCELS[1] \in Parcels
    BY SeedScriptAssumption, ScriptData
  <2>3. CASE /\ \E p \in Parcels :
                  RegisterParcel(Farmer, p, AREA) \/ MintCertificate(Farmer, p, Farmer)
             /\ UNCHANGED lienVars
    BY <2>1, <2>2, <2>3 DEF Next, TerraTokenStep
  <2>4. CASE Lender \in Wallets /\ RegisterEncumbrance(Lender, PARCELS[1], 1)
    BY <2>1, <2>2, <2>4 DEF Next, LienRegistryStep
  <2>5. CASE UNCHANGED seedVars
    BY <2>1, <2>5 DEF seedVars, vars
  <2>6. QED
    BY <2>1, <2>3, <2>4, <2>5 DEF ScriptDoes
<1>4. CASE Tick /\ UNCHANGED <<encumbrance, lien_index, script>>
  BY <1>1, <1>4 DEF Next, lienVars
<1>5. CASE UNCHANGED clientVars
  BY <1>1, <1>5 DEF clientVars, vars
<1>6. QED
  BY <1>2, <1>3, <1>4, <1>5 DEF ClientNext

\* The script starts with nothing under way.
LEMMA ScriptStarts == SeedInit => ScriptOK
<1>1. 0 \in Runs /\ 1 \in Counts /\ 1 \in DOMAIN PARCELS
  BY ScriptData DEF Runs, Counts
<1>2. QED
  BY <1>1 DEF SeedInit, ScriptOK, ScriptState

\* A run of the script always knows where it is in its data.
THEOREM ScriptTypeCorrect == ClientSpec => []ScriptOK
  BY ScriptStarts, ClientStep, PTL DEF ClientSpec, ClientInit

\* Whatever the SDK, the web application and the seeding script build and send,
\* wrong accounts and foreign names included, is one instruction of the two
\* programs as the ledger's module has them: all that is proved of the ledger
\* holds of the ledger that these clients use.
THEOREM ClientsUseTheLedger == ClientSpec => Spec
<1>1. ClientInit => Init
  BY DEF ClientInit, Init
<1>2. QED
  BY <1>1, ClientStep, ScriptTypeCorrect, PTL DEF ClientSpec, Spec

\* In particular no client gets a parcel pledged twice.
THEOREM ClientsNeverDoublePledge == ClientSpec => []NoDoublePledge
  BY ClientsUseTheLedger, DoublePledgePrevented, PTL

-----------------------------------------------------------------------------
(* The lost key *)

\* A lien whose lender signs nothing any more stays, and no other joins it.
LEMMA ForeignLienStays ==
    ASSUME TypeOK, LienInv, ScriptOK, [ClientNext]_clientVars,
           NEW key \in Wallets \ Visitors, NEW p \in Parcels, key \in OpenLiens(p)
    PROVE  OpenLiens(p)' = {key}
<1>1. OpenLiens(p) = {key} /\ IndexOrZero(p).active_lien_count = 1
  BY DEF LienInv, OneLenderOrNone
<1>2. UNCHANGED lienVars => OpenLiens(p)' = OpenLiens(p)
  BY DEF lienVars, OpenLiens, Active
<1>3. ASSUME NEW l \in Wallets, NEW q \in Parcels, NEW amount \in Amounts,
             RegisterEncumbrance(l, q, amount)
      PROVE  OpenLiens(p)' = OpenLiens(p)
  <2>1. q # p
    BY <1>1, <1>3 DEF RegisterEncumbrance, RegisterAllowed, NoActiveLien
  <2>2. QED
    BY <1>3, <2>1, RegisterEncumbranceEffect
<1>4. ASSUME NEW l \in Visitors, NEW q \in Parcels, ReleaseEncumbrance(l, q)
      PROVE  OpenLiens(p)' = OpenLiens(p)
  <2>1. l \in Wallets /\ l # key
    BY ClientLedgerAssumption
  <2>2. l \in OpenLiens(q) /\ (q # p => OpenLiens(p)' = OpenLiens(p))
    BY <1>4, <2>1, ReleaseEncumbranceEffect
  <2>3. QED
    BY <1>1, <2>1, <2>2
<1>5. CASE VisitorStep
  BY <1>2, <1>3, <1>4, <1>5, <1>1, VisitorDoesNoMore, ClientLedgerAssumption DEF VisitorDoes
<1>6. CASE SeedStep
  <2>1. ScriptDoes
    BY <1>6, ScriptDoesNoMore
  <2>2. PARCELS[1] \in Parcels /\ 1 \in Amounts
    BY SeedScriptAssumption, ScriptData
  <2>3. UNCHANGED seedVars => UNCHANGED lienVars
    BY DEF seedVars, lienVars
  <2>4. QED
    BY <1>1, <1>2, <1>3, <2>1, <2>2, <2>3 DEF ScriptDoes
<1>7. CASE UNCHANGED <<encumbrance, lien_index>>
  BY <1>1, <1>2, <1>7 DEF lienVars
<1>8. QED
  BY <1>5, <1>6, <1>7 DEF ClientNext, clientVars

\* The key that could release a seeded lien is gone with its process: the lien
\* stays for ever, whatever visitors send and however often the script runs.
THEOREM LostKeyLocksParcelProved == ClientSpec => LostKeyLocksParcel
<1> DEFINE Stays == \A r \in DOMAIN LenderKeys :
        LenderKeys[r] \in OpenLiens(PARCELS[1]) =>
            OpenLiens(PARCELS[1])' = {LenderKeys[r]}
<1>1. TypeOK /\ LienInv /\ ScriptOK /\ [ClientNext]_clientVars => [Stays]_clientVars
  <2> SUFFICES ASSUME TypeOK, LienInv, ScriptOK, [ClientNext]_clientVars,
                      NEW r \in DOMAIN LenderKeys, LenderKeys[r] \in OpenLiens(PARCELS[1])
               PROVE  OpenLiens(PARCELS[1])' = {LenderKeys[r]}
    OBVIOUS
  <2>1. LenderKeys[r] \in Wallets \ Visitors /\ PARCELS[1] \in Parcels
    BY ScriptData, ClientLedgerAssumption
  <2>2. QED
    BY <2>1, ForeignLienStays
<1> HIDE DEF Stays
<1>2. ClientSpec => [][Stays]_clientVars
  BY <1>1, ClientsUseTheLedger, TypeCorrect, LienInvariant, ScriptTypeCorrect, PTL
     DEF ClientSpec
<1>3. QED
  BY <1>2 DEF Stays, LostKeyLocksParcel

-----------------------------------------------------------------------------
(* The clean run *)

\* PARCELS[i] is the farmer's and has its certificates.
Certified(i) ==
    /\ Registered(PARCELS[i])
    /\ parcel_config[PARCELS[i]].owner = Farmer
    /\ parcel_config[PARCELS[i]].cert_count >= Certificates[i]

\* The inductive invariant behind CleanRunSeeds: what a run without an error has
\* done by the time it is where it is.  Before the certificates it has shown
\* nothing: a parcel it passes over may be anybody's.
CleanSoFar ==
    ~script.errs =>
        /\ script.pc = "mint" =>
             /\ \A i \in 1 .. script.item - 1 : Certified(i)
             /\ script.cert > 1 =>
                  /\ Registered(PARCELS[script.item])
                  /\ parcel_config[PARCELS[script.item]].cert_count >= script.cert - 1
        /\ script.pc \in {"lien", "done"} => \A i \in DOMAIN PARCELS : Certified(i)
        /\ script.pc = "done" => OpenLiens(PARCELS[1]) = {Lender}

\* A parcel keeps its owner and its certificates.
LEMMA ParcelKept ==
    ASSUME TypeOK, [Next]_vars, NEW p, Registered(p)
    PROVE  /\ Registered(p)'
           /\ parcel_config'[p].owner = parcel_config[p].owner
           /\ parcel_config'[p].cert_count >= parcel_config[p].cert_count
<1>1. /\ parcel_config[p] \in ParcelConfig
      /\ parcel_config[p].cert_count \in Nat
  BY TerraTokenAssumption DEF TypeOK, ParcelTypeOK, Registered, ParcelConfig, U16
<1>2. ASSUME NEW w, NEW q, NEW survey, RegisterParcel(w, q, survey)
      PROVE  Registered(p)' /\ parcel_config'[p] = parcel_config[p]
  BY <1>2 DEF RegisterParcel, Registered
<1>3. ASSUME NEW w, NEW q, NEW owner, MintCertificate(w, q, owner)
      PROVE  /\ Registered(p)'
             /\ parcel_config'[p].owner = parcel_config[p].owner
             /\ \/ parcel_config'[p].cert_count = parcel_config[p].cert_count
                \/ parcel_config'[p].cert_count = parcel_config[p].cert_count + 1
  BY <1>1, <1>3 DEF MintCertificate, Registered, ParcelConfig
<1>4. ASSUME NEW w, NEW q, NEW a, UpdateRiskAssessment(w, q, a)
      PROVE  /\ Registered(p)'
             /\ parcel_config'[p].owner = parcel_config[p].owner
             /\ parcel_config'[p].cert_count = parcel_config[p].cert_count
  BY <1>1, <1>4 DEF UpdateRiskAssessment, Registered, ParcelConfig
<1>5. ASSUME NEW q, NEW read, SeasonalCheck(q, read)
      PROVE  /\ Registered(p)'
             /\ parcel_config'[p].owner = parcel_config[p].owner
             /\ parcel_config'[p].cert_count = parcel_config[p].cert_count
  BY <1>1, <1>5 DEF SeasonalCheck, Registered, ParcelConfig
<1>6. CASE UNCHANGED parcel_config
  BY <1>1, <1>6 DEF Registered
<1>7. CASE TerraTokenStep
  <2>1. PICK w \in Wallets, q \in Parcels :
          \/ \E survey \in Surveys : RegisterParcel(w, q, survey)
          \/ \E owner \in Wallets : MintCertificate(w, q, owner)
          \/ \E a \in Assessments : UpdateRiskAssessment(w, q, a)
          \/ \E read \in {FALSE} \cup {ResolveActiveLien(r) : r \in Parcels} :
               SeasonalCheck(q, read)
    BY <1>7 DEF TerraTokenStep
  <2>2. CASE \E survey \in Surveys : RegisterParcel(w, q, survey)
    BY <1>1, <1>2, <2>2
  <2>3. CASE \E owner \in Wallets : MintCertificate(w, q, owner)
    BY <1>1, <1>3, <2>3
  <2>4. CASE \E a \in Assessments : UpdateRiskAssessment(w, q, a)
    BY <1>1, <1>4, <2>4
  <2>5. CASE \E read \in {FALSE} \cup {ResolveActiveLien(r) : r \in Parcels} :
               SeasonalCheck(q, read)
    BY <1>1, <1>5, <2>5
  <2>6. QED
    BY <2>1, <2>2, <2>3, <2>4, <2>5
<1>8. QED
  BY <1>6, <1>7 DEF Next, LienRegistryStep, RegisterEncumbrance, ReleaseEncumbrance, Tick, vars

\* What is certified stays so.
LEMMA CertifiedStays ==
    ASSUME TypeOK, [Next]_vars, NEW i \in DOMAIN PARCELS, Certified(i)
    PROVE  Certified(i)'
<1>1. /\ Registered(PARCELS[i])'
      /\ parcel_config'[PARCELS[i]].owner = Farmer
      /\ parcel_config'[PARCELS[i]].cert_count >= parcel_config[PARCELS[i]].cert_count
  BY ParcelKept DEF Certified
<1>2. /\ parcel_config[PARCELS[i]].cert_count \in Int
      /\ parcel_config'[PARCELS[i]].cert_count \in Int
      /\ Certificates[i] \in Int
  <2>1. TypeOK'
    BY TypeStep
  <2>2. QED
    BY <1>1, <2>1, ScriptData
       DEF TypeOK, ParcelTypeOK, Registered, ParcelConfig, U16, Certified
<1>3. QED
  BY <1>1, <1>2 DEF Certified

\* The step that counts: a certificate minted for the farmer shows the parcel to
\* be the farmer's.
LEMMA MintShows ==
    ASSUME TypeOK, NEW p \in Parcels, MintCertificate(Farmer, p, Farmer)
    PROVE  /\ Registered(p) /\ Registered(p)'
           /\ parcel_config'[p].owner = Farmer
           /\ parcel_config[p].cert_count \in Nat
           /\ parcel_config'[p].cert_count = parcel_config[p].cert_count + 1
<1>1. /\ parcel_config[p] \in ParcelConfig
      /\ parcel_config[p].cert_count \in Nat
      /\ Registered(p) /\ parcel_config[p].owner = Farmer
  BY TerraTokenAssumption
     DEF TypeOK, ParcelTypeOK, Registered, ParcelConfig, U16, MintCertificate, MayMint
<1>2. parcel_config'[p] =
        [parcel_config[p] EXCEPT
           !.last_cert_epoch = slot,
           !.cert_count = @ + 1,
           !.ndvi_submissions_this_season = @ + 1]
  BY <1>1 DEF MintCertificate, Registered
<1>3. /\ parcel_config'[p].owner = parcel_config[p].owner
      /\ parcel_config'[p].cert_count = parcel_config[p].cert_count + 1
  BY <1>1, <1>2 DEF ParcelConfig
<1>4. Registered(p)'
  BY <1>1 DEF MintCertificate, Registered
<1>5. QED
  BY <1>1, <1>3, <1>4

\* A step of another wallet, or a slot that passes.
LEMMA CleanKept ==
    ASSUME TypeOK, LienInv, ScriptOK, CleanSoFar, [ClientNext]_clientVars, UNCHANGED script
    PROVE  CleanSoFar'
<1>0. /\ [Next]_vars /\ script \in ScriptState
      /\ script.item \in DOMAIN PARCELS /\ DOMAIN PARCELS = 1 .. Len(PARCELS)
      /\ Len(PARCELS) \in Nat
  BY ClientStep, ScriptData DEF ScriptOK, ScriptState
<1> SUFFICES ASSUME ~script.errs PROVE CleanSoFar'
  BY DEF CleanSoFar
<1>1. \A i \in DOMAIN PARCELS : Certified(i) => Certified(i)'
  BY <1>0, CertifiedStays
<1>2. CASE script.pc = "mint"
  <2>1. \A i \in 1 .. script.item - 1 : Certified(i) /\ i \in DOMAIN PARCELS
    BY <1>0, <1>2 DEF CleanSoFar
  <2>2. ASSUME script.cert > 1
        PROVE  /\ Registered(PARCELS[script.item])'
               /\ parcel_config'[PARCELS[script.item]].cert_count >= script.cert - 1
    <3> DEFINE p == PARCELS[script.item]
    <3>1. Registered(p) /\ parcel_config[p].cert_count >= script.cert - 1
      BY <1>2, <2>2 DEF CleanSoFar
    <3>2. PICK q : q = p
      OBVIOUS
    <3>3. /\ Registered(q)'
          /\ parcel_config'[q].cert_count >= parcel_config[q].cert_count
      BY <1>0, <3>1, <3>2, ParcelKept
    <3>4. /\ parcel_config[q].cert_count \in Int /\ parcel_config'[q].cert_count \in Int
          /\ script.cert \in Int
      <4>1. TypeOK'
        BY <1>0, TypeStep
      <4>2. QED
        BY <1>0, <3>1, <3>2, <3>3, <4>1
           DEF TypeOK, ParcelTypeOK, Registered, ParcelConfig, U16, ScriptState, Counts
    <3>5. QED
      BY <3>1, <3>2, <3>3, <3>4 DEF Registered
  <2>3. QED
    BY <1>1, <1>2, <2>1, <2>2 DEF CleanSoFar
<1>3. CASE script.pc \in {"lien", "done"}
  <2>1. \A i \in DOMAIN PARCELS : Certified(i)'
    BY <1>1, <1>3 DEF CleanSoFar
  <2>2. script.pc = "done" => OpenLiens(PARCELS[1])' = {Lender}
    <3>1. SUFFICES ASSUME script.pc = "done" PROVE OpenLiens(PARCELS[1])' = {Lender}
      OBVIOUS
    <3>2. PICK key, p : key = Lender /\ p = PARCELS[1]
      OBVIOUS
    <3>3. script.run \in DOMAIN LenderKeys
      BY <3>1, ScriptData DEF ScriptOK, ScriptState, Runs
    <3>4. key \in Wallets \ Visitors /\ p \in Parcels /\ key \in OpenLiens(p)
      BY <3>1, <3>2, <3>3, ScriptData, ClientLedgerAssumption DEF CleanSoFar, Lender
    <3>5. OpenLiens(p)' = {key}
      BY <3>4, ForeignLienStays
    <3>6. QED
      BY <3>2, <3>5
  <2>3. Lender' = Lender
    BY DEF Lender
  <2>4. QED
    BY <1>3, <2>1, <2>2, <2>3 DEF CleanSoFar
<1>4. CASE script.pc \notin {"mint", "lien", "done"}
  BY <1>4 DEF CleanSoFar
<1>5. QED
  BY <1>2, <1>3, <1>4

\* A step of the script itself.
LEMMA CleanStep ==
    ASSUME TypeOK, LienInv, ScriptOK, CleanSoFar, SeedStep
    PROVE  CleanSoFar'
<1>0. /\ script \in ScriptState /\ script.item \in 1 .. Len(PARCELS)
      /\ DOMAIN PARCELS = 1 .. Len(PARCELS) /\ Len(PARCELS) \in Nat \ {0}
      /\ [Next]_vars
  BY ClientStep, ScriptData DEF ScriptOK, ScriptState, ClientNext
<1>1. \A i \in DOMAIN PARCELS : Certified(i) => Certified(i)'
  BY <1>0, CertifiedStays
<1>2. CASE StartRun \/ Exit \/ FundLender
  <2>1. script'.pc \in {"exited", "fund", "register"}
    BY <1>2, ProcessDoes
  <2>2. QED
    BY <2>1 DEF CleanSoFar
<1>3. CASE SeedRegister
  <2>1. script'.pc = "register" \/ (script'.pc = "mint" /\ script'.item = 1 /\ script'.cert = 1)
    BY <1>3, SeedRegisterDoes
  <2>2. QED
    BY <2>1 DEF CleanSoFar
<1>4. ASSUME SeedMint, ~script'.errs
      PROVE  CleanSoFar'
  <2>1. PICK p, n : p = PARCELS[script.item] /\ n = Certificates[script.item]
    OBVIOUS
  <2>2. /\ p \in Parcels /\ script.pc = "mint" /\ script.cert \in 1 .. n /\ n \in Nat
        /\ MintCertificate(Farmer, p, Farmer)
        /\ ~script.errs
        /\ \/ /\ script.cert < n
              /\ script'.pc = "mint" /\ script'.item = script.item
              /\ script'.cert = script.cert + 1
           \/ /\ script.cert = n /\ script'.cert = 1
              /\ \/ script.item < Len(PARCELS) /\ script'.pc = "mint"
                                               /\ script'.item = script.item + 1
                 \/ script.item = Len(PARCELS) /\ script'.pc = "lien"
    <3>1. script.errs \in BOOLEAN /\ n \in Nat
      BY <1>0, <2>1, ScriptData DEF ScriptState
    <3>2. QED
      BY <1>4, <2>1, <3>1, SeedMintDoes
  <2>3. /\ Registered(p) /\ Registered(p)'
        /\ parcel_config'[p].owner = Farmer
        /\ parcel_config[p].cert_count \in Nat
        /\ parcel_config'[p].cert_count = parcel_config[p].cert_count + 1
    BY <2>2, MintShows
  <2>4. parcel_config'[p].cert_count >= script.cert
    <3>1. CASE script.cert > 1
      BY <2>1, <2>2, <2>3, <3>1 DEF CleanSoFar
    <3>2. CASE script.cert = 1
      BY <2>3, <3>2
    <3>3. QED
      BY <2>2, <3>1, <3>2
  <2>5. \A i \in 1 .. script.item - 1 : Certified(i)'
    <3>1. \A i \in 1 .. script.item - 1 : Certified(i) /\ i \in DOMAIN PARCELS
      BY <1>0, <2>2 DEF CleanSoFar
    <3>2. QED
      BY <1>1, <3>1
  <2>6. CASE script.cert < n
    <3>1. script'.pc = "mint" /\ script'.item = script.item /\ script'.cert = script.cert + 1
      BY <2>2, <2>6
    <3>2. script'.cert - 1 = script.cert
      BY <2>2, <3>1
    <3>3. QED
      BY <2>1, <2>3, <2>4, <2>5, <3>1, <3>2 DEF CleanSoFar, Registered
  <2>7. CASE script.cert = n
    <3>1. \A i \in 1 .. script.item : Certified(i)'
      <4> SUFFICES ASSUME NEW i \in 1 .. script.item PROVE Certified(i)'
        OBVIOUS
      <4>1. CASE i = script.item
        BY <2>1, <2>3, <2>4, <2>7, <4>1 DEF Certified, Registered
      <4>2. CASE i # script.item
        BY <1>0, <2>5, <4>2
      <4>3. QED
        BY <4>1, <4>2
    <3>2. CASE script'.pc = "mint" /\ script'.item = script.item + 1
      <4>1. script'.cert = 1 /\ script'.item - 1 = script.item
        BY <1>0, <2>2, <2>7, <3>2
      <4>2. QED
        BY <3>1, <3>2, <4>1 DEF CleanSoFar
    <3>3. CASE script'.pc = "lien" /\ script.item = Len(PARCELS)
      BY <1>0, <3>1, <3>3 DEF CleanSoFar
    <3>4. QED
      BY <2>2, <2>7, <3>2, <3>3
  <2>8. QED
    BY <2>2, <2>6, <2>7
<1>5. ASSUME SeedLien, ~script'.errs
      PROVE  CleanSoFar'
  <2>1. PICK key, p : key = Lender /\ p = PARCELS[1]
    OBVIOUS
  <2>2. /\ script.pc = "lien" /\ p \in Parcels /\ key \in Wallets /\ 1 \in Amounts
        /\ script'.pc = "done" /\ script'.run = script.run
        /\ ~script.errs
        /\ \/ RegisterEncumbrance(key, p, 1)
           \/ UNCHANGED seedVars /\ <<p, key>> \in DOMAIN encumbrance
    <3>1. script.errs \in BOOLEAN
      BY <1>0 DEF ScriptState
    <3>2. QED
      BY <1>5, <2>1, <3>1, SeedLienDoes, SeedScriptAssumption
  <2>3. OpenLiens(p)' = {key}
    <3>1. CASE RegisterEncumbrance(key, p, 1)
      <4>1. OpenLiens(p) = {}
        BY <2>2, <3>1
           DEF LienInv, OneLenderOrNone, RegisterEncumbrance, RegisterAllowed, NoActiveLien
      <4>2. QED
        BY <2>2, <3>1, <4>1, RegisterEncumbranceEffect
    <3>2. CASE UNCHANGED seedVars /\ <<p, key>> \in DOMAIN encumbrance
      <4>1. key \in OpenLiens(p)
        BY <2>2, <3>2, ActiveIsOpen DEF OpenLiens
      <4>2. OpenLiens(p) = {key}
        BY <2>2, <4>1 DEF LienInv, OneLenderOrNone
      <4>3. QED
        BY <3>2, <4>2 DEF seedVars, OpenLiens, Active
    <3>3. QED
      BY <2>2, <3>1, <3>2
  <2>4. \A i \in DOMAIN PARCELS : Certified(i)'
    BY <1>1, <2>2 DEF CleanSoFar
  <2>5. Lender' = key
    BY <2>1, <2>2 DEF Lender
  <2>6. QED
    BY <2>1, <2>2, <2>3, <2>4, <2>5 DEF CleanSoFar
<1>6. QED
  BY <1>2, <1>3, <1>4, <1>5 DEF SeedStep, CleanSoFar

\* A run of the script that ends without having logged an error has done what it
\* announces, whatever earlier runs, a kill between two transactions and other
\* wallets have left on the ledger or do meanwhile.
THEOREM CleanRunSeedsProved == ClientSpec => []CleanRunSeeds
<1>1. ClientInit => CleanSoFar
  BY DEF ClientInit, SeedInit, CleanSoFar
<1>2. TypeOK /\ LienInv /\ ScriptOK /\ CleanSoFar /\ [ClientNext]_clientVars => CleanSoFar'
  BY CleanKept, CleanStep, VisitorDoesNoMore DEF ClientNext, clientVars
<1>3. CleanSoFar => CleanRunSeeds
  BY DEF CleanSoFar, CleanRunSeeds, Certified
<1>4. QED
  BY <1>1, <1>2, <1>3, ClientsUseTheLedger, TypeCorrect, LienInvariant,
     ScriptTypeCorrect, PTL DEF ClientSpec

-----------------------------------------------------------------------------
(* Reading accounts back: where the cells of an account begin *)

\* A set of numbers that is not empty has a least one: induction over the cells of
\* an account rests on it.
LEMMA LeastElement ==
    ASSUME NEW T \in SUBSET Nat, T # {}
    PROVE  \E x \in T : \A y \in T : x <= y
<1>1. PICK x \in T : \A y \in T : ~(<<y, x>> \in OpToRel(<, Nat))
  BY NatLessThanWellFounded, WFMin
<1>2. \A y \in T : y < x => <<y, x>> \in OpToRel(<, Nat)
  BY DEF OpToRel
<1>3. ASSUME NEW y \in T PROVE x <= y
  <2>1. x \in Nat /\ y \in Nat /\ ~(y < x)
    BY <1>1, <1>2
  <2>2. QED
    BY <2>1
<1>4. QED
  BY <1>3

\* A set of numbers with 0 and with the successor of each of its own has them all.
LEMMA SuccessorsReachAll ==
    ASSUME NEW S \in SUBSET Nat, 0 \in S, \A n \in S : n + 1 \in S
    PROVE  S = Nat
<1> SUFFICES ASSUME S # Nat PROVE FALSE
  OBVIOUS
<1>1. PICK x \in Nat \ S : \A y \in Nat \ S : x <= y
  BY LeastElement
<1>2. x - 1 \in Nat /\ x - 1 \in S
  BY <1>1
<1>3. QED
  BY <1>1, <1>2

\* The same up to a bound, as the positions of a sequence need it.
LEMMA InductionUpTo ==
    ASSUME NEW n \in Nat, NEW S, 0 \in S,
           \A i \in 1 .. n : i - 1 \in S => i \in S
    PROVE  0 .. n \subseteq S
<1> DEFINE T == {i \in Nat : i <= n => i \in S}
<1>1. 0 \in T
  OBVIOUS
<1>2. \A i \in T : i + 1 \in T
  <2> SUFFICES ASSUME NEW i \in Nat, i <= n => i \in S, i + 1 <= n
               PROVE  i + 1 \in S
    OBVIOUS
  <2>1. i + 1 \in 1 .. n /\ (i + 1) - 1 = i /\ i \in S
    OBVIOUS
  <2>2. QED
    BY <2>1
<1>3. T = Nat
  <2>1. T \in SUBSET Nat
    OBVIOUS
  <2> HIDE DEF T
  <2>2. QED
    BY <1>1, <1>2, <2>1, SuccessorsReachAll
<1>4. QED
  BY <1>3

\* g is where each cell ends.
Ends(cells, g) ==
    /\ g \in [0 .. Len(cells) -> Nat]
    /\ g[0] = 0
    /\ \A i \in 1 .. Len(cells) : g[i] = g[i - 1] + cells[i][2]

\* A sequence of pairs whose second component is a width.
Widths(cells) ==
    /\ Len(cells) \in Nat /\ DOMAIN cells = 1 .. Len(cells)
    /\ \A i \in DOMAIN cells : cells[i][2] \in Nat

\* The recursive function in Bytes is the one list of ends there is.
LEMMA BytesAre ==
    ASSUME NEW cells, Widths(cells), NEW g, Ends(cells, g)
    PROVE  Bytes(cells) = [ size  |-> g[Len(cells)],
                            cells |-> {<<g[i - 1], cells[i]>> : i \in DOMAIN cells} ]
<1> DEFINE n == Len(cells)
           Sums(f) == f = [i \in 0 .. n |-> IF i = 0 THEN 0 ELSE f[i - 1] + cells[i][2]]
<1>1. Sums(g)
  <2>1. g = [i \in 0 .. n |-> g[i]]
    BY DEF Ends
  <2>2. \A i \in 0 .. n : i = 0 \/ i \in 1 .. n
    OBVIOUS
  <2>3. QED
    BY <2>1, <2>2 DEF Ends
<1>2. ASSUME NEW f, Sums(f) PROVE f = g
  <2>1. f[0] = 0 /\ \A i \in 1 .. n : f[i] = f[i - 1] + cells[i][2]
    BY <1>2 DEF Widths
  <2>2. DOMAIN f = 0 .. n /\ f = [i \in 0 .. n |-> f[i]]
    BY <1>2
  <2> DEFINE S == {i \in 0 .. n : f[i] = g[i]}
  <2>3. 0 \in S /\ \A i \in 1 .. n : i - 1 \in S => i \in S
    BY <2>1 DEF Ends, Widths
  <2>4. 0 .. n \subseteq S
    <3> HIDE DEF S
    <3>1. QED
      BY <2>3, InductionUpTo DEF Widths
  <2>5. QED
    BY <2>2, <2>4 DEF Ends
<1>3. (CHOOSE f : Sums(f)) = g
  BY <1>1, <1>2
<1>4. QED
  BY <1>3 DEF Bytes

\* The ends of the cells are sums over the cells before: there is such a list.
LEMMA EndsExist ==
    ASSUME NEW cells, Widths(cells)
    PROVE  \E g : Ends(cells, g)
<1> DEFINE n == Len(cells)
           Sums(k, f) == /\ f \in [0 .. k -> Nat]
                         /\ f[0] = 0
                         /\ \A i \in 1 .. k : f[i] = f[i - 1] + cells[i][2]
           S == {k \in 0 .. n : \E f : Sums(k, f)}
<1>1. 0 \in S
  <2>1. Sums(0, [i \in 0 .. 0 |-> 0])
    OBVIOUS
  <2>2. 0 \in 0 .. n
    BY DEF Widths
  <2> HIDE DEF Sums
  <2>3. QED
    BY <2>1, <2>2
<1>2. ASSUME NEW k \in 1 .. n, k - 1 \in S PROVE k \in S
  <2>1. PICK f : Sums(k - 1, f)
    BY <1>2
  <2> DEFINE h == [i \in 0 .. k |-> IF i = k THEN f[k - 1] + cells[k][2] ELSE f[i]]
  <2>2. k \in DOMAIN cells /\ cells[k][2] \in Nat /\ k \in Nat /\ k > 0 /\ k \in 0 .. n
    BY DEF Widths
  <2>3. h \in [0 .. k -> Nat]
    <3>1. ASSUME NEW i \in 0 .. k, i # k PROVE i \in 0 .. k - 1
      BY <2>2, <3>1
    <3>2. k - 1 \in 0 .. k - 1
      BY <2>2
    <3>3. f[k - 1] + cells[k][2] \in Nat
      BY <2>1, <2>2, <3>2
    <3>4. QED
      BY <2>1, <3>1, <3>3
  <2>4. h[0] = 0 /\ \A i \in 1 .. k : h[i] = h[i - 1] + cells[i][2]
    BY <2>1, <2>2
  <2> HIDE DEF h
  <2>5. QED
    BY <2>2, <2>3, <2>4
<1>3. n \in S
  <2>1. n \in Nat /\ n \in 0 .. n
    BY DEF Widths
  <2> HIDE DEF S
  <2>2. QED
    BY <1>1, <1>2, <2>1, InductionUpTo
<1>4. QED
  BY <1>3 DEF Ends

\* A later cell ends no earlier.
LEMMA EndsGrow ==
    ASSUME NEW cells, Widths(cells), NEW g, Ends(cells, g),
           NEW i \in 0 .. Len(cells), NEW j \in i .. Len(cells)
    PROVE  g[i] <= g[j]
<1> DEFINE n == Len(cells)
           S == {k \in 0 .. n : i <= k => g[i] <= g[k]}
<1>1. n \in Nat /\ \A k \in 0 .. n : g[k] \in Nat
  BY DEF Widths, Ends
<1>2. 0 \in S
  BY <1>1
<1>3. ASSUME NEW k \in 1 .. n, k - 1 \in S PROVE k \in S
  <2>1. g[k] = g[k - 1] + cells[k][2] /\ cells[k][2] \in Nat
    BY DEF Ends, Widths
  <2>2. g[k] \in Nat /\ g[k - 1] \in Nat /\ g[i] \in Nat
    BY <1>1
  <2>3. CASE i <= k - 1
    BY <1>3, <2>1, <2>2, <2>3
  <2>4. CASE i = k
    BY <2>2, <2>4
  <2>5. CASE i > k
    BY <2>5
  <2>6. QED
    BY <2>3, <2>4, <2>5
<1>4. 0 .. n \subseteq S
  <2> HIDE DEF S
  <2>1. QED
    BY <1>1, <1>2, <1>3, InductionUpTo
<1>5. j \in S
  BY <1>1, <1>4
<1>6. QED
  BY <1>5

\* A cell is found where it begins by who asks for its width, unless it is one of
\* several without any.
LEMMA CellRead ==
    ASSUME NEW cells, Widths(cells), NEW g, Ends(cells, g), NEW i \in DOMAIN cells,
           \A j \in DOMAIN cells \ {i} : cells[i][2] > 0 \/ cells[j][2] > 0,
           NEW otherwise
    PROVE  CellAt(Bytes(cells), g[i - 1], cells[i][2], otherwise) = cells[i][1]
<1> DEFINE data == Bytes(cells)
           values == {cell[2][1] : cell \in {c \in data.cells : c[1] = g[i - 1]
                                                                /\ c[2][2] = cells[i][2]}}
<1>1. data.cells = {<<g[j - 1], cells[j]>> : j \in DOMAIN cells}
  BY BytesAre
<1>2. ASSUME NEW j \in DOMAIN cells, g[j - 1] = g[i - 1], cells[j][2] = cells[i][2]
      PROVE  j = i
  <2>1. /\ i \in 1 .. Len(cells) /\ j \in 1 .. Len(cells)
        /\ g[i] = g[i - 1] + cells[i][2] /\ g[j] = g[j - 1] + cells[j][2]
        /\ g[i - 1] \in Nat /\ cells[i][2] \in Nat /\ cells[j][2] \in Nat
    <3>1. i - 1 \in 0 .. Len(cells)
      BY DEF Widths
    <3>2. QED
      BY <3>1 DEF Widths, Ends
  <2>2. cells[i][2] > 0 \/ j = i
    BY <1>2
  <2>3. CASE i < j
    <3>1. g[i] <= g[j - 1]
      <4>1. i \in 0 .. Len(cells) /\ j - 1 \in i .. Len(cells)
        BY <2>1, <2>3 DEF Widths
      <4>2. QED
        BY <4>1, EndsGrow
    <3>2. QED
      BY <1>2, <2>1, <2>2, <3>1
  <2>4. CASE j < i
    <3>1. g[j] <= g[i - 1]
      <4>1. j \in 0 .. Len(cells) /\ i - 1 \in j .. Len(cells)
        BY <2>1, <2>4 DEF Widths
      <4>2. QED
        BY <4>1, EndsGrow
    <3>2. QED
      BY <1>2, <2>1, <2>2, <3>1
  <2>5. QED
    BY <2>1, <2>3, <2>4
<1>3. values = {cells[i][1]}
  <2> DEFINE cell == <<g[i - 1], cells[i]>>
             C == {c \in data.cells : c[1] = g[i - 1] /\ c[2][2] = cells[i][2]}
  <2>1. cell \in C
    BY <1>1
  <2>2. \A c \in C : c = cell
    BY <1>1, <1>2
  <2>3. C = {cell}
    BY <2>1, <2>2
  <2>4. values = {c[2][1] : c \in C}
    OBVIOUS
  <2> HIDE DEF C, values
  <2>5. QED
    BY <2>3, <2>4
<1>4. CellAt(data, g[i - 1], cells[i][2], otherwise)
        = IF values = {} THEN otherwise ELSE CHOOSE v \in values : TRUE
  <2> HIDE DEF data
  <2>1. QED
    BY Zenon DEF CellAt
<1> HIDE DEF values, data
<1>5. (CHOOSE v \in {cells[i][1]} : TRUE) = cells[i][1]
  OBVIOUS
<1>6. QED
  BY <1>3, <1>4, <1>5 DEF data

\* Nothing is found where no cell of that width begins.
LEMMA NoCellRead ==
    ASSUME NEW cells, Widths(cells), NEW g, Ends(cells, g), NEW offset, NEW width,
           \A j \in DOMAIN cells : ~(g[j - 1] = offset /\ cells[j][2] = width),
           NEW otherwise
    PROVE  CellAt(Bytes(cells), offset, width, otherwise) = otherwise
<1> DEFINE data == Bytes(cells)
<1>1. data.cells = {<<g[j - 1], cells[j]>> : j \in DOMAIN cells}
  BY BytesAre
<1> HIDE DEF data
<1> DEFINE C == {c \in data.cells : c[1] = offset /\ c[2][2] = width}
           values == {cell[2][1] : cell \in C}
<1>2. C = {}
  BY <1>1
<1>3. CellAt(data, offset, width, otherwise)
        = IF values = {} THEN otherwise ELSE CHOOSE v \in values : TRUE
  BY Zenon DEF CellAt
<1>4. values = {}
  BY <1>2
<1> HIDE DEF values
<1>5. QED
  BY <1>3, <1>4 DEF data

-----------------------------------------------------------------------------
(* Decoding: fields laid over cells *)

\* Where the field after one that is read at `from` is read.
After(fields, data, i, from) ==
    from + (IF fields[i][2] = PREFIXED THEN 4 + ReadAt(data, from, 4) ELSE fields[i][2])

\* h is where each field is read.
Offsets(fields, data, h) ==
    h = [i \in DOMAIN fields |-> IF i = 1 THEN ANCHOR_DISCRIMINATOR_SIZE
                                 ELSE After(fields, data, i - 1, h[i - 1])]

\* What is read as one field.
FieldRead(fields, data, h, i) ==
    IF fields[i][2] = PREFIXED THEN ReadString(data, h[i])
                               ELSE ReadAt(data, h[i], fields[i][2])

\* What is read as the whole account.
AccountRead(fields, data, h) ==
    [f \in {fields[i][1] : i \in DOMAIN fields} |->
        FieldRead(fields, data, h, CHOOSE i \in DOMAIN fields : fields[i][1] = f)]

\* The fields of a layout have names of their own.
Fields(fields) ==
    /\ Widths(fields)
    /\ \A i, j \in DOMAIN fields : fields[i][1] = fields[j][1] => i = j

\* Two ways to choose the places of the fields are one.
LEMMA OffsetsUnique ==
    ASSUME NEW fields, Widths(fields), NEW data, NEW h, NEW k,
           Offsets(fields, data, h), Offsets(fields, data, k)
    PROVE  h = k
<1> DEFINE n == Len(fields)
           S == {i \in 0 .. n : i > 0 => h[i] = k[i]}
<1>1. n \in Nat /\ DOMAIN fields = 1 .. n
  BY DEF Widths
<1>2. 0 \in S
  BY <1>1
<1>3. ASSUME NEW i \in 1 .. n, i - 1 \in S PROVE i \in S
  <2>1. /\ h[i] = IF i = 1 THEN ANCHOR_DISCRIMINATOR_SIZE
                  ELSE After(fields, data, i - 1, h[i - 1])
        /\ k[i] = IF i = 1 THEN ANCHOR_DISCRIMINATOR_SIZE
                  ELSE After(fields, data, i - 1, k[i - 1])
    BY <1>1 DEF Offsets
  <2>2. i = 1 \/ h[i - 1] = k[i - 1]
    BY <1>3
  <2>3. QED
    BY <2>1, <2>2
<1>4. 0 .. n \subseteq S
  <2> HIDE DEF S
  <2>1. QED
    BY <1>1, <1>2, <1>3, InductionUpTo
<1>5. \A i \in DOMAIN fields : h[i] = k[i]
  BY <1>1, <1>4
<1>6. /\ h = [i \in DOMAIN fields |-> h[i]]
      /\ k = [i \in DOMAIN fields |-> k[i]]
  BY DEF Offsets
<1>7. QED
  BY <1>5, <1>6

\* What Deserialize answers, once it is known where it reads each field.
LEMMA DeserializeAt ==
    ASSUME NEW fields, Widths(fields), NEW data, NEW h, Offsets(fields, data, h)
    PROVE  Deserialize(fields, data) =
             IF \E f \in DOMAIN AccountRead(fields, data, h) :
                    AccountRead(fields, data, h)[f] = Thrown
             THEN Thrown ELSE AccountRead(fields, data, h)
<1> DEFINE off == CHOOSE k : Offsets(fields, data, k)
<1>1. off = h
  BY OffsetsUnique
<1>2. Deserialize(fields, data) =
             IF \E f \in DOMAIN AccountRead(fields, data, off) :
                    AccountRead(fields, data, off)[f] = Thrown
             THEN Thrown ELSE AccountRead(fields, data, off)
  BY Zenon DEF Deserialize, AccountRead, FieldRead, Offsets, After
<1>3. QED
  BY <1>1, <1>2

\* The cells of an account, one of them at most of no width.
Cells(cells) ==
    /\ Widths(cells)
    /\ \A i, j \in DOMAIN cells : i # j => cells[i][2] > 0 \/ cells[j][2] > 0

\* The cell that holds what a field is read from.
HeldBy(fields, cells, c, i) ==
    IF fields[i][2] = PREFIXED THEN cells[c[i] + 1] ELSE cells[c[i]]

\* The layout fits the account: each field is at the cell c gives it, of its width,
\* and the next field follows without a gap, a string taking the cell of its length
\* and the one of its characters.
LaidOut(fields, cells, c) ==
    /\ Fields(fields) /\ Cells(cells)
    /\ c \in [DOMAIN fields -> DOMAIN cells]
    /\ c[1] = 2 /\ cells[1][2] = ANCHOR_DISCRIMINATOR_SIZE
    /\ \A i \in DOMAIN fields :
         \/ /\ fields[i][2] # PREFIXED
            /\ cells[c[i]][2] = fields[i][2]
            /\ i + 1 \in DOMAIN fields => c[i + 1] = c[i] + 1
         \/ /\ fields[i][2] = PREFIXED
            /\ cells[c[i]][2] = 4
            /\ c[i] + 1 \in DOMAIN cells
            /\ cells[c[i] + 1][2] = cells[c[i]][1]
            /\ i + 1 \in DOMAIN fields => c[i + 1] = c[i] + 2

\* The same for ReadAt, in an account with at most one cell of no width.
LEMMA CellReadAt ==
    ASSUME NEW cells, Cells(cells), NEW g, Ends(cells, g), NEW i \in DOMAIN cells
    PROVE  ReadAt(Bytes(cells), g[i - 1], cells[i][2]) = cells[i][1]
<1>1. \A j \in DOMAIN cells \ {i} : cells[i][2] > 0 \/ cells[j][2] > 0
  BY DEF Cells
<1>2. QED
  BY <1>1, CellRead DEF ReadAt, Cells

\* Then every field is read where its cell begins, and is what the cell holds.
LEMMA LaidOutRead ==
    ASSUME NEW fields, NEW cells, NEW c, LaidOut(fields, cells, c), NEW g, Ends(cells, g)
    PROVE  LET h == [i \in DOMAIN fields |-> g[c[i] - 1]] IN
           /\ Offsets(fields, Bytes(cells), h)
           /\ \A i \in DOMAIN fields :
                FieldRead(fields, Bytes(cells), h, i) = HeldBy(fields, cells, c, i)[1]
<1> DEFINE h == [i \in DOMAIN fields |-> g[c[i] - 1]]
           data == Bytes(cells)
<1>0. /\ Widths(cells) /\ Widths(fields) /\ Cells(cells)
      /\ DOMAIN cells = 1 .. Len(cells) /\ Len(cells) \in Nat
      /\ DOMAIN fields = 1 .. Len(fields) /\ Len(fields) \in Nat
      /\ \A i \in DOMAIN fields : c[i] \in DOMAIN cells /\ h[i] = g[c[i] - 1]
  BY DEF LaidOut, Fields, Cells, Widths
<1>1. ASSUME NEW j \in DOMAIN cells
      PROVE  /\ ReadAt(data, g[j - 1], cells[j][2]) = cells[j][1]
             /\ g[j] = g[j - 1] + cells[j][2]
             /\ g[j] \in Nat /\ g[j - 1] \in Nat /\ cells[j][2] \in Nat
  <2>1. j \in 1 .. Len(cells) /\ j \in 0 .. Len(cells) /\ j - 1 \in 0 .. Len(cells)
    BY <1>0
  <2>2. ReadAt(data, g[j - 1], cells[j][2]) = cells[j][1]
    BY <1>0, CellReadAt
  <2>3. QED
    BY <1>0, <2>1, <2>2 DEF Ends, Widths
<1> HIDE DEF data, h
<1>2. ASSUME NEW i \in DOMAIN fields, fields[i][2] = PREFIXED
      PROVE  /\ ReadAt(data, h[i], 4) = cells[c[i]][1]
             /\ cells[c[i] + 1][2] = cells[c[i]][1]
             /\ c[i] + 1 \in DOMAIN cells
             /\ h[i] + 4 = g[c[i]]
             /\ i + 1 \in DOMAIN fields => c[i + 1] = c[i] + 2
  <2>1. /\ cells[c[i]][2] = 4 /\ c[i] + 1 \in DOMAIN cells
        /\ cells[c[i] + 1][2] = cells[c[i]][1]
        /\ i + 1 \in DOMAIN fields => c[i + 1] = c[i] + 2
    BY <1>2 DEF LaidOut
  <2>2. QED
    BY <1>0, <1>1, <2>1
<1>3. ASSUME NEW i \in DOMAIN fields, fields[i][2] # PREFIXED
      PROVE  /\ cells[c[i]][2] = fields[i][2]
             /\ i + 1 \in DOMAIN fields => c[i + 1] = c[i] + 1
  BY <1>3 DEF LaidOut
<1>4. ASSUME NEW i \in DOMAIN fields
      PROVE  FieldRead(fields, data, h, i) = HeldBy(fields, cells, c, i)[1]
  <2>1. CASE fields[i][2] # PREFIXED
    <3>1. ReadAt(data, h[i], fields[i][2]) = cells[c[i]][1]
      BY <1>0, <1>1, <1>3, <2>1
    <3>2. QED
      BY <2>1, <3>1 DEF FieldRead, HeldBy
  <2>2. CASE fields[i][2] = PREFIXED
    <3>1. PICK j \in DOMAIN cells : j = c[i] + 1 /\ j - 1 = c[i]
      BY <1>0, <1>2, <2>2
    <3>2. ReadAt(data, g[c[i]], cells[j][2]) = cells[j][1]
      BY <1>1, <3>1
    <3>3. ReadAt(data, h[i] + 4, ReadAt(data, h[i], 4)) = cells[j][1]
      BY <1>2, <2>2, <3>1, <3>2
    <3>4. QED
      BY <2>2, <3>1, <3>3 DEF FieldRead, HeldBy, ReadString
  <2>3. QED
    BY <2>1, <2>2
<1>5. ASSUME NEW i \in DOMAIN fields
      PROVE  h[i] = IF i = 1 THEN ANCHOR_DISCRIMINATOR_SIZE
                    ELSE After(fields, data, i - 1, h[i - 1])
  <2>1. CASE i = 1
    <3>1. 1 \in DOMAIN cells /\ g[1 - 1] = 0
      BY <1>0 DEF Ends
    <3>2. g[1] = ANCHOR_DISCRIMINATOR_SIZE
      BY <1>1, <3>1 DEF LaidOut
    <3>3. c[i] = 2
      BY <2>1 DEF LaidOut
    <3>4. h[i] = g[1]
      BY <1>0, <3>3
    <3>5. QED
      BY <2>1, <3>2, <3>4
  <2>2. CASE i # 1
    <3>1. PICK k \in DOMAIN fields : k = i - 1 /\ k + 1 = i
      BY <1>0, <2>2
    <3>2. CASE fields[k][2] # PREFIXED
      <4>1. c[i] - 1 = c[k] /\ c[k] \in DOMAIN cells /\ cells[c[k]][2] = fields[k][2]
        BY <1>0, <1>3, <3>1, <3>2
      <4>2. h[i] = h[k] + fields[k][2]
        BY <1>0, <1>1, <4>1
      <4>3. QED
        BY <2>2, <3>1, <3>2, <4>2 DEF After
    <3>3. CASE fields[k][2] = PREFIXED
      <4>0. c[i] = c[k] + 2 /\ c[k] + 1 \in DOMAIN cells /\ c[k] \in Nat
        BY <1>0, <1>2, <3>1, <3>3
      <4>1. PICK j \in DOMAIN cells : j = c[k] + 1 /\ j - 1 = c[k] /\ c[i] - 1 = j
        BY <4>0
      <4>2. g[j] = g[c[k]] + cells[j][2] /\ g[c[k]] \in Nat /\ cells[j][2] \in Nat
        BY <1>1, <4>1
      <4>3. g[c[k]] = h[k] + 4 /\ ReadAt(data, h[k], 4) = cells[j][2] /\ h[k] \in Nat
        BY <1>0, <1>1, <1>2, <3>1, <3>3, <4>1
      <4>4. h[i] = h[k] + (4 + ReadAt(data, h[k], 4))
        <5>1. h[i] = g[j]
          BY <1>0, <4>1
        <5>2. QED
          BY <4>2, <4>3, <5>1
      <4>5. QED
        BY <2>2, <3>1, <3>3, <4>4 DEF After
    <3>4. QED
      BY <3>2, <3>3
  <2>3. QED
    BY <2>1, <2>2
<1>6. Offsets(fields, data, h)
  <2>1. h = [i \in DOMAIN fields |-> h[i]]
    BY DEF h
  <2>2. QED
    BY <1>5, <2>1, Zenon DEF Offsets
<1>7. QED
  BY <1>4, <1>6 DEF h, data

\* Who knows the layout reads every field as it was written.
LEMMA ReadAsWritten ==
    ASSUME NEW fields, NEW cells, NEW c, LaidOut(fields, cells, c),
           \A i \in DOMAIN fields : HeldBy(fields, cells, c, i)[1] # Thrown
    PROVE  LET account == Deserialize(fields, Bytes(cells)) IN
           /\ account = [f \in {fields[i][1] : i \in DOMAIN fields} |-> account[f]]
           /\ \A i \in DOMAIN fields : account[fields[i][1]] = HeldBy(fields, cells, c, i)[1]
<1>0. Widths(fields) /\ Widths(cells) /\ Fields(fields)
  BY DEF LaidOut, Fields, Cells
<1>1. PICK g : Ends(cells, g)
  BY <1>0, EndsExist
<1> DEFINE data == Bytes(cells)
           h == [i \in DOMAIN fields |-> g[c[i] - 1]]
           account == AccountRead(fields, data, h)
<1>2. Offsets(fields, data, h) /\ \A i \in DOMAIN fields :
          FieldRead(fields, data, h, i) = HeldBy(fields, cells, c, i)[1]
  BY <1>1, LaidOutRead
<1> HIDE DEF data, h
<1>3. ASSUME NEW i \in DOMAIN fields
      PROVE  account[fields[i][1]] = HeldBy(fields, cells, c, i)[1]
  <2>1. (CHOOSE j \in DOMAIN fields : fields[j][1] = fields[i][1]) = i
    BY <1>0 DEF Fields
  <2>2. account[fields[i][1]] = FieldRead(fields, data, h, i)
    BY <2>1 DEF AccountRead
  <2>3. QED
    BY <1>2, <2>2
<1>4. DOMAIN account = {fields[i][1] : i \in DOMAIN fields}
  BY DEF AccountRead
<1>8. account = [f \in {fields[i][1] : i \in DOMAIN fields} |-> account[f]]
  BY DEF AccountRead
<1> HIDE DEF account
<1>5. \A f \in DOMAIN account : account[f] # Thrown
  BY <1>3, <1>4
<1>6. Deserialize(fields, data) = account
  BY <1>0, <1>2, <1>5, DeserializeAt DEF account
<1>7. QED
  BY <1>3, <1>6, <1>8 DEF data

-----------------------------------------------------------------------------
(* The three accounts of the programs *)

\* Field i is in the cell after cell i: the first holds the discriminator.
Plain(n) == [i \in 1 .. n |-> i + 1]

\* The cells hold values of the ledger.
Typed(cells) == Cells(cells) /\ \A i \in DOMAIN cells : cells[i] \in Values \X Nat

\* The kinds of values an account holds.
LEMMA ValuesHold ==
    /\ Nat \subseteq Values /\ FieldNames \subseteq Values /\ BOOLEAN \subseteq Values
    /\ Wallets \subseteq Values /\ Parcels \subseteq Values
    /\ \A p \in Parcels : getParcelPda(p) \in Values
BY DEF Values

\* The decoder of a lien index fits the account the program writes.
LEMMA LienIndexLaidOut ==
    ASSUME NEW p \in DOMAIN lien_index, LienIndexTypeOK
    PROVE  LaidOut(LienIndexData, LienIndexCells(p), Plain(4)) /\ Typed(LienIndexCells(p))
<1>1. p \in Parcels /\ lien_index[p] \in LienIndex
  BY DEF LienIndexTypeOK
<1>2. Cells(LienIndexCells(p))
  BY DEF Cells, Widths, LienIndexCells
<1>3. Fields(LienIndexData)
  BY DEF Fields, Widths, LienIndexData
<1>4. LaidOut(LienIndexData, LienIndexCells(p), Plain(4))
  BY <1>2, <1>3
     DEF LaidOut, Plain, LienIndexData, LienIndexCells, PREFIXED, ANCHOR_DISCRIMINATOR_SIZE
<1>5. \A i \in DOMAIN LienIndexCells(p) : LienIndexCells(p)[i] \in Values \X Nat
  <2>1. /\ getParcelPda(p) \in Values
        /\ lien_index[p].active_lien_count \in Values
        /\ lien_index[p].total_lien_count \in Values
        /\ "LienIndex" \in Values /\ "bump" \in Values
    <3>1. /\ lien_index[p].active_lien_count \in Nat /\ lien_index[p].total_lien_count \in Nat
          /\ "LienIndex" \in FieldNames /\ "bump" \in FieldNames
      BY <1>1, TerraTokenAssumption DEF LienIndex, U8, U16, FieldNames
    <3>2. QED
      BY <1>1, <3>1, ValuesHold
  <2>2. QED
    BY <2>1 DEF LienIndexCells
<1>6. QED
  BY <1>2, <1>4, <1>5 DEF Typed

\* So does the decoder of an encumbrance.
LEMMA EncumbranceLaidOut ==
    ASSUME NEW p, NEW l, <<p, l>> \in DOMAIN encumbrance, EncumbranceTypeOK
    PROVE  /\ LaidOut(EncumbranceAccountData, EncumbranceCells(p, l), Plain(10))
           /\ Typed(EncumbranceCells(p, l))
<1>1. p \in Parcels /\ l \in Wallets /\ encumbrance[<<p, l>>] \in EncumbranceAccount
  BY DEF EncumbranceTypeOK
<1>2. Cells(EncumbranceCells(p, l))
  BY DEF Cells, Widths, EncumbranceCells
<1>3. Fields(EncumbranceAccountData)
  BY DEF Fields, Widths, EncumbranceAccountData
<1>4. LaidOut(EncumbranceAccountData, EncumbranceCells(p, l), Plain(10))
  BY <1>2, <1>3
     DEF LaidOut, Plain, EncumbranceAccountData, EncumbranceCells, PREFIXED,
         ANCHOR_DISCRIMINATOR_SIZE
<1>5. \A i \in DOMAIN EncumbranceCells(p, l) : EncumbranceCells(p, l)[i] \in Values \X Nat
  <2>1. /\ getParcelPda(p) \in Values
        /\ encumbrance[<<p, l>>].lender \in Values
        /\ encumbrance[<<p, l>>].amount \in Values
        /\ encumbrance[<<p, l>>].status \in Values
        /\ "EncumbranceAccount" \in Values /\ "bump" \in Values
        /\ "notary_sig_hash" \in Values /\ "notary_cert_hash" \in Values
        /\ "egiss_snapshot_hash" \in Values /\ "registered_at" \in Values
        /\ "released_at" \in Values
    <3>1. /\ encumbrance[<<p, l>>].lender \in Wallets
          /\ encumbrance[<<p, l>>].amount \in Nat /\ encumbrance[<<p, l>>].status \in Nat
      BY <1>1 DEF EncumbranceAccount, STATUS_ACTIVE
    <3>2. /\ "EncumbranceAccount" \in FieldNames /\ "bump" \in FieldNames
          /\ "notary_sig_hash" \in FieldNames /\ "notary_cert_hash" \in FieldNames
          /\ "egiss_snapshot_hash" \in FieldNames /\ "registered_at" \in FieldNames
          /\ "released_at" \in FieldNames
      BY DEF FieldNames
    <3>3. QED
      BY <1>1, <3>1, <3>2, ValuesHold
  <2>2. QED
    BY <2>1 DEF EncumbranceCells
<1>6. QED
  BY <1>2, <1>4, <1>5 DEF Typed

\* In a parcel's account the cadastral number takes two cells.
Shifted == [i \in 1 .. 15 |-> IF i <= 3 THEN i + 1 ELSE i + 2]

\* The decoder of a parcel fits its account, as far as it reads: three cells that
\* follow the last field are left.
LEMMA ParcelLaidOut ==
    ASSUME NEW p \in DOMAIN parcel_config, ParcelTypeOK
    PROVE  /\ LaidOut(ParcelConfigAccount, ParcelConfigCells(p), Shifted)
           /\ Typed(ParcelConfigCells(p))
<1>1. p \in Parcels /\ parcel_config[p] \in ParcelConfig /\ CadastralLen[p] \in Nat
  BY TerraTokenAssumption DEF ParcelTypeOK
<1>2. Cells(ParcelConfigCells(p))
  BY <1>1 DEF Cells, Widths, ParcelConfigCells
<1>3. Fields(ParcelConfigAccount)
  BY DEF Fields, Widths, ParcelConfigAccount, PREFIXED
<1>4. LaidOut(ParcelConfigAccount, ParcelConfigCells(p), Shifted)
  BY <1>2, <1>3
     DEF LaidOut, Shifted, ParcelConfigAccount, ParcelConfigCells, PREFIXED,
         ANCHOR_DISCRIMINATOR_SIZE
<1>5. \A i \in DOMAIN ParcelConfigCells(p) : ParcelConfigCells(p)[i] \in Values \X Nat
  <2>1. /\ parcel_config[p].owner \in Values /\ parcel_config[p].mint_authority \in Values
        /\ CadastralLen[p] \in Values /\ p \in Values
        /\ parcel_config[p].kyc_verified \in Values
        /\ parcel_config[p].last_cert_epoch \in Values
        /\ parcel_config[p].cert_count \in Values
        /\ parcel_config[p].ndvi_submissions_this_season \in Values
        /\ parcel_config[p].dormant_seasons \in Values
        /\ parcel_config[p].risk_flag \in Values
        /\ parcel_config[p].registered_at \in Values
        /\ parcel_config[p].ai_score \in Values
        /\ parcel_config[p].collateral_grade \in Values
        /\ parcel_config[p].recommended_ltv \in Values
    <3>1. /\ parcel_config[p].owner \in Wallets /\ parcel_config[p].mint_authority \in Wallets
          /\ parcel_config[p].kyc_verified \in BOOLEAN
          /\ parcel_config[p].last_cert_epoch \in Nat
          /\ parcel_config[p].cert_count \in U16
          /\ parcel_config[p].ndvi_submissions_this_season \in U8
          /\ parcel_config[p].dormant_seasons \in U8
          /\ parcel_config[p].risk_flag \in {0, 1}
          /\ parcel_config[p].registered_at \in Nat
          /\ parcel_config[p].ai_score \in Scores
          /\ parcel_config[p].collateral_grade \in Grades
          /\ parcel_config[p].recommended_ltv \in Ratios
      BY <1>1 DEF ParcelConfig
    <3>2. /\ U16 \subseteq Nat /\ U8 \subseteq Nat /\ {0, 1} \subseteq Nat
          /\ Scores \subseteq Nat /\ Grades \subseteq Nat /\ Ratios \subseteq Nat
      BY TerraTokenAssumption DEF U8, U16, Scores, Grades, Ratios
    <3>3. QED
      BY <1>1, <3>1, <3>2, ValuesHold
  <2>2. /\ "ParcelConfig" \in Values /\ "area_ha" \in Values /\ "land_class" \in Values
        /\ "kyc_method" \in Values /\ "egiss_snapshot_hash" \in Values
        /\ "bump" \in Values
    <3>1. /\ "ParcelConfig" \in FieldNames /\ "area_ha" \in FieldNames
          /\ "land_class" \in FieldNames
          /\ "kyc_method" \in FieldNames /\ "egiss_snapshot_hash" \in FieldNames
          /\ "bump" \in FieldNames
      BY DEF FieldNames
    <3>2. QED
      BY <3>1, ValuesHold
  <2>3. QED
    BY <1>1, <2>1, <2>2 DEF ParcelConfigCells
<1>6. QED
  BY <1>2, <1>4, <1>5 DEF Typed

\* The accounts the node sends are no answers of another kind.
LEMMA AccountSent ==
    ASSUME NEW cells, Typed(cells)
    PROVE  Bytes(cells) \in AccountData /\ Bytes(cells) \notin {Null, Thrown}
<1>1. Widths(cells) /\ DOMAIN cells = 1 .. Len(cells) /\ Len(cells) \in Nat
  BY DEF Typed, Cells, Widths
<1>2. PICK g : Ends(cells, g)
  BY <1>1, EndsExist
<1>3. g[Len(cells)] \in Nat /\ \A i \in DOMAIN cells : g[i - 1] \in Nat
  BY <1>1, <1>2 DEF Ends
<1>4. {<<g[i - 1], cells[i]>> : i \in DOMAIN cells} \in SUBSET (Nat \X (Values \X Nat))
  BY <1>3 DEF Typed
<1>5. Bytes(cells) = [ size  |-> g[Len(cells)],
                       cells |-> {<<g[i - 1], cells[i]>> : i \in DOMAIN cells} ]
  BY <1>1, <1>2, BytesAre
<1>6. Bytes(cells) \in AccountData
  BY <1>3, <1>4, <1>5 DEF AccountData
<1>7. QED
  BY <1>6, AccountReadersAssumption

\* A decoder that fits the account answers with its fields.
LEMMA DecodedAsWritten ==
    ASSUME NEW fields, NEW cells, NEW c, LaidOut(fields, cells, c), Typed(cells)
    PROVE  LET read == Decoded(fields, Bytes(cells)) IN
           /\ read = Deserialize(fields, Bytes(cells))
           /\ read \in Decodings(fields)
           /\ \A i \in DOMAIN fields :
                read[fields[i][1]] = HeldBy(fields, cells, c, i)[1]
<1>1. ASSUME NEW i \in DOMAIN fields
      PROVE  HeldBy(fields, cells, c, i)[1] \in Values
  <2>1. c[i] \in DOMAIN cells /\ (fields[i][2] = PREFIXED => c[i] + 1 \in DOMAIN cells)
    BY DEF LaidOut
  <2>2. HeldBy(fields, cells, c, i) \in Values \X Nat
    BY <2>1 DEF HeldBy, Typed
  <2>3. QED
    BY <2>2
<1>2. \A i \in DOMAIN fields : HeldBy(fields, cells, c, i)[1] # Thrown
  BY <1>1, AccountReadersAssumption
<1>3. Decoded(fields, Bytes(cells)) = Deserialize(fields, Bytes(cells))
  BY AccountSent DEF Decoded
<1>4. LET account == Deserialize(fields, Bytes(cells)) IN
           /\ account = [f \in {fields[i][1] : i \in DOMAIN fields} |-> account[f]]
           /\ \A i \in DOMAIN fields : account[fields[i][1]] = HeldBy(fields, cells, c, i)[1]
  BY <1>2, ReadAsWritten, ZenonT(40)
<1> DEFINE account == Deserialize(fields, Bytes(cells))
<1> HIDE DEF account
<1>5. account \in Decodings(fields)
  <2>1. \A f \in {fields[i][1] : i \in DOMAIN fields} : account[f] \in Values
    BY <1>1, <1>4 DEF account
  <2>2. account = [f \in {fields[i][1] : i \in DOMAIN fields} |-> account[f]]
    BY <1>4 DEF account
  <2>3. QED
    BY <2>1, <2>2 DEF Decodings
<1>6. QED
  BY <1>3, <1>4, <1>5 DEF account

\* Addresses of different seeds are different, so the node has an account for a
\* parcel, a lien or an index exactly when the ledger has it.
LEMMA AccountFound ==
    ASSUME NEW p \in Parcels, NEW l \in Wallets, TypeOK
    PROVE  LET known == TerraTokenAccounts \cup LienRegistryAccounts
               parcel == getParcelPda(p)
           IN  /\ parcel \in known <=> p \in DOMAIN parcel_config
               /\ getEncumbrancePda(parcel, l) \in known <=> <<p, l>> \in DOMAIN encumbrance
               /\ getLienIndexPda(parcel) \in known <=> p \in DOMAIN lien_index
               /\ AccountBytes(parcel) = Bytes(ParcelConfigCells(p))
               /\ AccountBytes(getEncumbrancePda(parcel, l)) = Bytes(EncumbranceCells(p, l))
               /\ AccountBytes(getLienIndexPda(parcel)) = Bytes(LienIndexCells(p))
<1> DEFINE parcel == getParcelPda(p)
           known == TerraTokenAccounts \cup LienRegistryAccounts
<1>1. parcel \in known <=> p \in DOMAIN parcel_config
  BY DEF TerraTokenAccounts, LienRegistryAccounts, getParcelPda, getEncumbrancePda,
         getLienIndexPda
<1>2. getEncumbrancePda(parcel, l) \in known <=> <<p, l>> \in DOMAIN encumbrance
  <2>1. \A e \in DOMAIN encumbrance : e = <<e[1], e[2]>>
    BY DEF TypeOK, EncumbranceTypeOK
  <2>2. \A e \in DOMAIN encumbrance :
          getEncumbrancePda(getParcelPda(e[1]), e[2]) = getEncumbrancePda(parcel, l)
            => e = <<p, l>>
    BY <2>1 DEF getParcelPda, getEncumbrancePda
  <2>3. QED
    BY <2>1, <2>2 DEF TerraTokenAccounts, LienRegistryAccounts, getParcelPda,
       getEncumbrancePda, getLienIndexPda
<1>3. getLienIndexPda(parcel) \in known <=> p \in DOMAIN lien_index
  BY DEF TerraTokenAccounts, LienRegistryAccounts, getParcelPda, getEncumbrancePda,
         getLienIndexPda
<1>4. AccountBytes(parcel) = Bytes(ParcelConfigCells(p))
  BY DEF AccountBytes, getParcelPda
<1>5. AccountBytes(getEncumbrancePda(parcel, l)) = Bytes(EncumbranceCells(p, l))
  BY DEF AccountBytes, getParcelPda, getEncumbrancePda
<1>6. AccountBytes(getLienIndexPda(parcel)) = Bytes(LienIndexCells(p))
  BY DEF AccountBytes, getParcelPda, getLienIndexPda
<1>7. QED
  BY <1>1, <1>2, <1>3, <1>4, <1>5, <1>6

-----------------------------------------------------------------------------
(* What the readers of one account return *)

\* An encumbrance account carries the lender its address is derived from.
LenderOfSeeds == \A e \in DOMAIN encumbrance : encumbrance[e].lender = e[2]

\* register_encumbrance writes the lender of the seeds, and nothing changes it.
LEMMA LenderOfSeedsInvariant == Spec => []LenderOfSeeds
<1>1. Init => LenderOfSeeds
  BY DEF Init, LienInit, LenderOfSeeds
<1>2. LenderOfSeeds /\ [Next]_vars => LenderOfSeeds'
  <2> SUFFICES ASSUME LenderOfSeeds, [Next]_vars PROVE LenderOfSeeds'
    OBVIOUS
  <2>1. ASSUME NEW l \in Wallets, NEW p \in Parcels, NEW amount \in Amounts,
               RegisterEncumbrance(l, p, amount)
        PROVE  LenderOfSeeds'
    BY <2>1 DEF RegisterEncumbrance, RegisterAllowed, LenderOfSeeds
  <2>2. ASSUME NEW l \in Wallets, NEW p \in Parcels, ReleaseEncumbrance(l, p)
        PROVE  LenderOfSeeds'
    BY <2>2 DEF ReleaseEncumbrance, ReleaseAllowed, Closed, LenderOfSeeds
  <2>3. CASE UNCHANGED encumbrance
    BY <2>3 DEF LenderOfSeeds
  <2>4. QED
    BY <2>1, <2>2, <2>3 DEF Next, TerraTokenStep, LienRegistryStep, lienVars, vars
<1>3. QED
  BY <1>1, <1>2, PTL DEF Spec

\* The SDK's reader of a parcel returns what the program stored, or `null`.
LEMMA ParcelReadBack ==
    ASSUME TypeOK, NEW p \in Parcels
    PROVE  ReadsParcel(fetchParcelConfig(TRUE, p), p)
<1> DEFINE fields == ParcelConfigAccount
           cells == ParcelConfigCells(p)
           read == fetchParcelConfig(TRUE, p)
<1>2. /\ getParcelPda(p) \in TerraTokenAccounts \cup LienRegistryAccounts
           <=> p \in DOMAIN parcel_config
      /\ AccountBytes(getParcelPda(p)) = Bytes(cells)
  BY DEF TerraTokenAccounts, LienRegistryAccounts, getParcelPda, getEncumbrancePda,
         getLienIndexPda, AccountBytes
<1>3. CASE p \notin DOMAIN parcel_config
  <2>1. read = Null
    BY <1>2, <1>3 DEF fetchParcelConfig, fetchParcelConfigByPda, getAccountData, Decoded
  <2>2. QED
    BY <1>3, <2>1 DEF ReadsParcel, Registered
<1>4. CASE p \in DOMAIN parcel_config
  <2>1. read = Decoded(fields, Bytes(cells))
    BY <1>2, <1>4 DEF fetchParcelConfig, fetchParcelConfigByPda, getAccountData
  <2>2. LaidOut(fields, cells, Shifted) /\ Typed(cells)
    BY <1>4, ParcelLaidOut DEF TypeOK
  <2> HIDE DEF read, fields, cells
  <2>3. \A i \in DOMAIN fields : read[fields[i][1]] = HeldBy(fields, cells, Shifted, i)[1]
    BY <2>1, <2>2, DecodedAsWritten
  <2>4. DOMAIN fields = 1 .. 15
    BY DEF fields, ParcelConfigAccount
  <2>5. /\ fields[1] = <<"owner", 32>> /\ fields[2] = <<"mintAuthority", 32>>
        /\ fields[3] = <<"cadastralStr", PREFIXED>> /\ fields[6] = <<"kycVerified", 1>>
        /\ fields[8] = <<"lastCertEpoch", 8>> /\ fields[9] = <<"certCount", 2>>
        /\ fields[10] = <<"ndviSubmissionsThisSeason", 1>>
        /\ fields[11] = <<"dormantSeasons", 1>>
        /\ fields[13] = <<"riskFlag", 1>> /\ fields[14] = <<"registeredAt", 8>>
    BY DEF fields, ParcelConfigAccount
  <2>6. /\ cells[2][1] = parcel_config[p].owner
        /\ cells[3][1] = parcel_config[p].mint_authority
        /\ cells[5][1] = p
        /\ cells[8][1] = parcel_config[p].kyc_verified
        /\ cells[10][1] = parcel_config[p].last_cert_epoch
        /\ cells[11][1] = parcel_config[p].cert_count
        /\ cells[12][1] = parcel_config[p].ndvi_submissions_this_season
        /\ cells[13][1] = parcel_config[p].dormant_seasons
        /\ cells[15][1] = parcel_config[p].risk_flag
        /\ cells[16][1] = parcel_config[p].registered_at
    BY DEF cells, ParcelConfigCells
  <2>7. /\ Shifted[1] = 2 /\ Shifted[2] = 3 /\ Shifted[3] + 1 = 5 /\ Shifted[6] = 8
        /\ Shifted[8] = 10 /\ Shifted[9] = 11 /\ Shifted[10] = 12 /\ Shifted[11] = 13
        /\ Shifted[13] = 15 /\ Shifted[14] = 16
    BY DEF Shifted
  <2>8. /\ read.owner = parcel_config[p].owner
        /\ read.mintAuthority = parcel_config[p].mint_authority
        /\ read.cadastralStr = p
        /\ read.kycVerified = parcel_config[p].kyc_verified
        /\ read.lastCertEpoch = parcel_config[p].last_cert_epoch
    BY <2>3, <2>4, <2>5, <2>6, <2>7 DEF HeldBy, PREFIXED
  <2>9. /\ read.certCount = parcel_config[p].cert_count
        /\ read.ndviSubmissionsThisSeason = parcel_config[p].ndvi_submissions_this_season
        /\ read.dormantSeasons = parcel_config[p].dormant_seasons
        /\ read.riskFlag = parcel_config[p].risk_flag
        /\ read.registeredAt = parcel_config[p].registered_at
    BY <2>3, <2>4, <2>5, <2>6, <2>7 DEF HeldBy, PREFIXED
  <2>10. QED
    BY <1>4, <2>8, <2>9 DEF ReadsParcel, Registered, read
<1>5. QED
  BY <1>3, <1>4

\* The SDK's reader of a lien returns what the program stored, or `null`.
LEMMA LienReadBack ==
    ASSUME TypeOK, LenderOfSeeds, NEW p \in Parcels, NEW l \in Wallets
    PROVE  ReadsLien(fetchEncumbrance(TRUE, getParcelPda(p), l), p, l)
<1> DEFINE fields == EncumbranceAccountData
           cells == EncumbranceCells(p, l)
           read == fetchEncumbrance(TRUE, getParcelPda(p), l)
           pda == getEncumbrancePda(getParcelPda(p), l)
<1>2. /\ pda \in TerraTokenAccounts \cup LienRegistryAccounts <=> <<p, l>> \in DOMAIN encumbrance
      /\ AccountBytes(pda) = Bytes(cells)
  BY AccountFound
<1>3. CASE <<p, l>> \notin DOMAIN encumbrance
  <2>1. read = Null
    BY <1>2, <1>3 DEF fetchEncumbrance, getAccountData, Decoded
  <2>2. QED
    BY <1>3, <2>1 DEF ReadsLien
<1>4. CASE <<p, l>> \in DOMAIN encumbrance
  <2>1. read = Decoded(fields, Bytes(cells))
    BY <1>2, <1>4 DEF fetchEncumbrance, getAccountData
  <2>2. LaidOut(fields, cells, Plain(10)) /\ Typed(cells)
    BY <1>4, EncumbranceLaidOut DEF TypeOK
  <2> HIDE DEF read, fields, cells
  <2>3. \A i \in DOMAIN fields : read[fields[i][1]] = HeldBy(fields, cells, Plain(10), i)[1]
    BY <2>1, <2>2, DecodedAsWritten
  <2>4. DOMAIN fields = 1 .. 10
    BY DEF fields, EncumbranceAccountData
  <2>5. /\ fields[1] = <<"parcelPda", 32>> /\ fields[2] = <<"lender", 32>>
        /\ fields[3] = <<"amount", 8>> /\ fields[9] = <<"status", 1>>
    BY DEF fields, EncumbranceAccountData
  <2>6. /\ cells[2][1] = getParcelPda(p) /\ cells[3][1] = encumbrance[<<p, l>>].lender
        /\ cells[4][1] = encumbrance[<<p, l>>].amount
        /\ cells[10][1] = encumbrance[<<p, l>>].status
    BY DEF cells, EncumbranceCells
  <2>7. Plain(10)[1] = 2 /\ Plain(10)[2] = 3 /\ Plain(10)[3] = 4 /\ Plain(10)[9] = 10
    BY DEF Plain
  <2>8. /\ read.parcelPda = getParcelPda(p)
        /\ read.lender = encumbrance[<<p, l>>].lender
        /\ read.amount = encumbrance[<<p, l>>].amount
        /\ read.status = encumbrance[<<p, l>>].status
    BY <2>3, <2>4, <2>5, <2>6, <2>7 DEF HeldBy, PREFIXED
  <2>9. encumbrance[<<p, l>>] \in EncumbranceAccount
    BY <1>4 DEF TypeOK, EncumbranceTypeOK
  <2>10. /\ encumbrance[<<p, l>>].lender = l
         /\ encumbrance[<<p, l>>].status = STATUS_ACTIVE
    BY <1>4, <2>9 DEF LenderOfSeeds, EncumbranceAccount
  <2>11. QED
    BY <1>4, <2>8, <2>10 DEF ReadsLien, read
<1>5. QED
  BY <1>3, <1>4

\* The web application's copies of the layouts have not drifted.
LEMMA WebDecodersSame ==
    /\ WebParcelConfigAccount = ParcelConfigAccount
    /\ WebEncumbranceAccountData = EncumbranceAccountData
    /\ WebLienIndexData = LienIndexData
BY DEF WebParcelConfigAccount, ParcelConfigAccount, WebEncumbranceAccountData,
       EncumbranceAccountData, WebLienIndexData, LienIndexData

\* So its readers answer as the SDK's do.
LEMMA WebReadsSame ==
    ASSUME NEW p, NEW l, NEW parcel
    PROVE  /\ webFetchParcelConfig(TRUE, p) = fetchParcelConfig(TRUE, p)
           /\ webFetchEncumbrance(TRUE, parcel, l) = fetchEncumbrance(TRUE, parcel, l)
           /\ webFetchLienIndex(TRUE, parcel) = fetchLienIndex(TRUE, parcel)
           /\ webFetchAllEncumbrances(TRUE) = fetchAllEncumbrances(TRUE)
           /\ webFetchEncumbrancesByParcel(TRUE, parcel)
                = fetchEncumbrancesByParcel(TRUE, parcel)
BY WebDecodersSame
   DEF webFetchParcelConfig, webFetchParcelConfigByPda, fetchParcelConfig,
       fetchParcelConfigByPda, webGetAccountData, webFetchEncumbrance, fetchEncumbrance,
       webFetchLienIndex, fetchLienIndex, webFetchAllEncumbrances, fetchAllEncumbrances,
       webFetchEncumbrancesByParcel, fetchEncumbrancesByParcel

\* What the two hand-written decoders of sdk/src/accounts.ts and
\* web/src/solana/accounts.ts return is what the programs stored, for every length
\* of the cadastral numbers and every value the accounts can hold.
THEOREM ReadersSeeTheLedgerProved == ClientSpec => []ReadersSeeTheLedger
<1>1. TypeOK /\ LenderOfSeeds => ReadersSeeTheLedger
  <2> SUFFICES ASSUME TypeOK, LenderOfSeeds, NEW p \in Parcels
               PROVE  LET parcel == getParcelPda(p) IN
                      /\ ReadsParcel(fetchParcelConfig(TRUE, p), p)
                      /\ ReadsParcel(webFetchParcelConfig(TRUE, p), p)
                      /\ \A l \in Wallets :
                           /\ ReadsLien(fetchEncumbrance(TRUE, parcel, l), p, l)
                           /\ ReadsLien(webFetchEncumbrance(TRUE, parcel, l), p, l)
                           /\ accountExists(TRUE, getEncumbrancePda(parcel, l)) = Active(p, l)
    BY DEF ReadersSeeTheLedger
  <2>1. /\ ReadsParcel(fetchParcelConfig(TRUE, p), p)
        /\ ReadsParcel(webFetchParcelConfig(TRUE, p), p)
    BY ParcelReadBack, WebReadsSame
  <2>2. ASSUME NEW l \in Wallets
        PROVE  /\ ReadsLien(fetchEncumbrance(TRUE, getParcelPda(p), l), p, l)
               /\ ReadsLien(webFetchEncumbrance(TRUE, getParcelPda(p), l), p, l)
    BY LienReadBack, WebReadsSame
  <2>3. ASSUME NEW l \in Wallets
        PROVE  accountExists(TRUE, getEncumbrancePda(getParcelPda(p), l)) = Active(p, l)
    <3>1. <<p, l>> \in DOMAIN encumbrance => encumbrance[<<p, l>>].status = STATUS_ACTIVE
      BY DEF TypeOK, EncumbranceTypeOK, EncumbranceAccount
    <3>2. getEncumbrancePda(getParcelPda(p), l) \in TerraTokenAccounts \cup LienRegistryAccounts
            <=> <<p, l>> \in DOMAIN encumbrance
      BY AccountFound
    <3> DEFINE exists == accountExists(TRUE, getEncumbrancePda(getParcelPda(p), l))
    <3>3. exists \in BOOLEAN /\ Active(p, l) \in BOOLEAN
      BY DEF accountExists, Active
    <3>4. exists <=> <<p, l>> \in DOMAIN encumbrance
      BY <3>2 DEF accountExists
    <3>5. Active(p, l) <=> <<p, l>> \in DOMAIN encumbrance
      BY <3>1 DEF Active
    <3> HIDE DEF exists
    <3>6. exists = Active(p, l)
      BY <3>3, <3>4, <3>5
    <3>7. QED
      BY <3>6 DEF exists
  <2>4. QED
    BY <2>1, <2>2, <2>3
<1>2. ClientSpec => Spec
  BY ClientsUseTheLedger
<1>3. QED
  BY <1>1, <1>2, TypeCorrect, LenderOfSeedsInvariant, PTL

-----------------------------------------------------------------------------
(* The lists *)

\* Every cell has a width.
Wide(cells) == Cells(cells) /\ \A i \in DOMAIN cells : cells[i][2] > 0

\* What a memcmp filter asks of an account.
Finds(data, offset, value) ==
    \E cell \in data.cells : cell[1] = offset /\ cell[2][1] = value

\* In an account without empty cells each cell has a place of its own: what a
\* filter finds at the first or the second is what was written there.
LEMMA AtStart ==
    ASSUME NEW cells, Wide(cells), Len(cells) >= 2, cells[1][2] = 8, NEW value
    PROVE  /\ Finds(Bytes(cells), 0, value) <=> cells[1][1] = value
           /\ Finds(Bytes(cells), 8, value) <=> cells[2][1] = value
<1>1. Widths(cells) /\ DOMAIN cells = 1 .. Len(cells) /\ Len(cells) \in Nat
  BY DEF Wide, Cells, Widths
<1>2. PICK g : Ends(cells, g)
  BY <1>1, EndsExist
<1>3. Bytes(cells).cells = {<<g[i - 1], cells[i]>> : i \in DOMAIN cells}
  BY <1>1, <1>2, BytesAre
<1>4. 1 \in DOMAIN cells /\ 2 \in DOMAIN cells
  BY <1>1
<1>5. g[0] = 0 /\ g[1] = 8
  BY <1>1, <1>2, <1>4 DEF Ends
<1>6. ASSUME NEW i \in DOMAIN cells PROVE g[i - 1] >= 8 \/ i = 1
  <2>1. CASE i # 1
    <3>1. 1 \in 0 .. Len(cells) /\ i - 1 \in 1 .. Len(cells)
      BY <1>1, <2>1
    <3>2. QED
      BY <1>1, <1>2, <1>5, <3>1, EndsGrow
  <2>2. QED
    BY <2>1
<1>7. ASSUME NEW i \in DOMAIN cells PROVE g[i - 1] > 8 \/ i \in {1, 2}
  <2>1. CASE i \notin {1, 2}
    <3>1. 2 \in 0 .. Len(cells) /\ i - 1 \in 2 .. Len(cells)
      BY <1>1, <2>1
    <3>2. g[2] <= g[i - 1]
      BY <1>1, <1>2, <3>1, EndsGrow
    <3>3. g[2] = 8 + cells[2][2] /\ cells[2][2] > 0 /\ cells[2][2] \in Nat
      BY <1>1, <1>2, <1>4, <1>5 DEF Ends, Wide, Widths
    <3>4. g[i - 1] \in Nat
      BY <1>1, <1>2, <3>1 DEF Ends
    <3>5. QED
      BY <3>2, <3>3, <3>4
  <2>2. QED
    BY <2>1
<1>8. \A i \in DOMAIN cells : g[i - 1] = 0 <=> i = 1
  BY <1>5, <1>6
<1>9. \A i \in DOMAIN cells : g[i - 1] = 8 <=> i = 2
  BY <1>1, <1>4, <1>5, <1>7
<1>13. ASSUME NEW offset
       PROVE  (\E cell \in Bytes(cells).cells : cell[1] = offset /\ cell[2][1] = value)
                <=> \E i \in DOMAIN cells : g[i - 1] = offset /\ cells[i][1] = value
  <2> DEFINE S == Bytes(cells).cells
             At1(i) == <<g[i - 1], cells[i]>>
  <2>1. S = {At1(i) : i \in DOMAIN cells}
    BY <1>3
  <2>2. \A i : At1(i)[1] = g[i - 1] /\ At1(i)[2] = cells[i]
    OBVIOUS
  <2> HIDE DEF S, At1
  <2>3. (\E cell \in S : cell[1] = offset /\ cell[2][1] = value)
          <=> \E i \in DOMAIN cells : g[i - 1] = offset /\ cells[i][1] = value
    BY <2>1, <2>2
  <2>4. QED
    BY <2>3 DEF S
<1>10. (\E cell \in Bytes(cells).cells : cell[1] = 0 /\ cell[2][1] = value)
         <=> cells[1][1] = value
  BY <1>4, <1>8, <1>13, ZenonT(40)
<1>11. (\E cell \in Bytes(cells).cells : cell[1] = 8 /\ cell[2][1] = value)
         <=> cells[2][1] = value
  BY <1>4, <1>9, <1>13, ZenonT(40)
<1>12. QED
  BY <1>10, <1>11 DEF Finds

\* What begins the registry's two kinds of accounts.
LEMMA RegistryAccountsBegin ==
    ASSUME NEW p, NEW l
    PROVE  /\ Wide(EncumbranceCells(p, l)) /\ Wide(LienIndexCells(p))
           /\ Len(EncumbranceCells(p, l)) >= 2 /\ Len(LienIndexCells(p)) >= 2
           /\ EncumbranceCells(p, l)[1] = <<"EncumbranceAccount", 8>>
           /\ EncumbranceCells(p, l)[2] = <<getParcelPda(p), 32>>
           /\ LienIndexCells(p)[1] = <<"LienIndex", 8>>
           /\ LienIndexCells(p)[2] = <<getParcelPda(p), 32>>
<1>1. Wide(EncumbranceCells(p, l)) /\ Len(EncumbranceCells(p, l)) = 11
  BY DEF Wide, Cells, Widths, EncumbranceCells
<1>2. Wide(LienIndexCells(p)) /\ Len(LienIndexCells(p)) = 5
  BY DEF Wide, Cells, Widths, LienIndexCells
<1>3. /\ EncumbranceCells(p, l)[1] = <<"EncumbranceAccount", 8>>
      /\ EncumbranceCells(p, l)[2] = <<getParcelPda(p), 32>>
  BY DEF EncumbranceCells
<1>4. /\ LienIndexCells(p)[1] = <<"LienIndex", 8>>
      /\ LienIndexCells(p)[2] = <<getParcelPda(p), 32>>
  BY DEF LienIndexCells
<1>5. QED
  BY <1>1, <1>2, <1>3, <1>4

\* The address of an encumbrance account.
Pda(e) == getEncumbrancePda(getParcelPda(e[1]), e[2])

\* The filter on the discriminator finds the encumbrance accounts; the one on the
\* parcel finds those of the parcel, and its index.
LEMMA Found ==
    ASSUME TypeOK, NEW p \in Parcels
    PROVE  /\ Memcmp(LienRegistryAccounts, 0, "EncumbranceAccount")
                = {Pda(e) : e \in DOMAIN encumbrance}
           /\ Memcmp(LienRegistryAccounts, ANCHOR_DISCRIMINATOR_SIZE, getParcelPda(p))
                = {Pda(e) : e \in {x \in DOMAIN encumbrance : x[1] = p}}
                    \cup {getLienIndexPda(getParcelPda(q)) : q \in DOMAIN lien_index \cap {p}}
<1> DEFINE parcel == getParcelPda(p)
           Index(q) == getLienIndexPda(getParcelPda(q))
<1>1. ASSUME NEW e \in DOMAIN encumbrance
      PROVE  /\ Finds(AccountBytes(Pda(e)), 0, "EncumbranceAccount")
             /\ Finds(AccountBytes(Pda(e)), 8, parcel) <=> e[1] = p
  <2>1. e[1] \in Parcels /\ e[2] \in Wallets /\ e = <<e[1], e[2]>>
    BY DEF TypeOK, EncumbranceTypeOK
  <2>2. AccountBytes(Pda(e)) = Bytes(EncumbranceCells(e[1], e[2]))
    BY <2>1, AccountFound DEF Pda
  <2>3. getParcelPda(e[1]) = parcel <=> e[1] = p
    BY DEF getParcelPda
  <2> DEFINE cells == EncumbranceCells(e[1], e[2])
  <2>4. /\ Wide(cells) /\ Len(cells) >= 2
        /\ cells[1] = <<"EncumbranceAccount", 8>> /\ cells[2] = <<getParcelPda(e[1]), 32>>
    BY RegistryAccountsBegin
  <2> HIDE DEF cells, parcel
  <2>5. /\ cells[1][1] = "EncumbranceAccount" /\ cells[1][2] = 8
        /\ cells[2][1] = getParcelPda(e[1])
    BY <2>4
  <2>6. AccountBytes(Pda(e)) = Bytes(cells)
    BY <2>2 DEF cells
  <2>7. \A value : /\ Finds(Bytes(cells), 0, value) <=> cells[1][1] = value
                   /\ Finds(Bytes(cells), 8, value) <=> cells[2][1] = value
    BY <2>4, <2>5, AtStart
  <2>8. QED
    BY <2>3, <2>5, <2>6, <2>7
<1>2. ASSUME NEW q \in DOMAIN lien_index
      PROVE  /\ ~Finds(AccountBytes(Index(q)), 0, "EncumbranceAccount")
             /\ Finds(AccountBytes(Index(q)), 8, parcel) <=> q = p
  <2>1. AccountBytes(Index(q)) = Bytes(LienIndexCells(q))
    BY DEF AccountBytes, getParcelPda, getLienIndexPda
  <2>3. getParcelPda(q) = parcel <=> q = p
    BY DEF getParcelPda
  <2> DEFINE cells == LienIndexCells(q)
  <2>4. /\ Wide(cells) /\ Len(cells) >= 2
        /\ cells[1] = <<"LienIndex", 8>> /\ cells[2] = <<getParcelPda(q), 32>>
    BY RegistryAccountsBegin
  <2> HIDE DEF cells, parcel
  <2>5. /\ cells[1][1] = "LienIndex" /\ cells[1][2] = 8 /\ cells[2][1] = getParcelPda(q)
    BY <2>4
  <2>6. AccountBytes(Index(q)) = Bytes(cells)
    BY <2>1 DEF cells
  <2>7. \A value : /\ Finds(Bytes(cells), 0, value) <=> cells[1][1] = value
                   /\ Finds(Bytes(cells), 8, value) <=> cells[2][1] = value
    BY <2>4, <2>5, AtStart
  <2>8. QED
    BY <2>3, <2>5, <2>6, <2>7
<1>3. LienRegistryAccounts = {Pda(e) : e \in DOMAIN encumbrance}
                               \cup {Index(q) : q \in DOMAIN lien_index}
  BY DEF LienRegistryAccounts, Pda
<1>4. \A offset, value : Memcmp(LienRegistryAccounts, offset, value)
                           = {pda \in LienRegistryAccounts :
                                  Finds(AccountBytes(pda), offset, value)}
  BY DEF Memcmp, Finds
<1> HIDE DEF parcel, Index
<1>5. Memcmp(LienRegistryAccounts, 0, "EncumbranceAccount")
        = {Pda(e) : e \in DOMAIN encumbrance}
  BY <1>1, <1>2, <1>3, <1>4
<1>6. Memcmp(LienRegistryAccounts, 8, parcel)
        = {Pda(e) : e \in {x \in DOMAIN encumbrance : x[1] = p}}
            \cup {Index(q) : q \in DOMAIN lien_index \cap {p}}
  BY <1>1, <1>2, <1>3, <1>4
<1>7. QED
  BY <1>5, <1>6 DEF parcel, Index, ANCHOR_DISCRIMINATOR_SIZE

\* What is read of one open lien.
LienRead(e) == Deserialize(EncumbranceAccountData, Bytes(EncumbranceCells(e[1], e[2])))

\* An encumbrance account is decoded, and to one of its own parcel.
LEMMA LienDecoded ==
    ASSUME TypeOK, NEW e \in DOMAIN encumbrance
    PROVE  /\ LienRead(e) # Thrown
           /\ LienRead(e).parcelPda = getParcelPda(e[1])
           /\ AccountBytes(Pda(e)) = Bytes(EncumbranceCells(e[1], e[2]))
<1>1. e[1] \in Parcels /\ e[2] \in Wallets /\ e = <<e[1], e[2]>>
  BY DEF TypeOK, EncumbranceTypeOK
<1> DEFINE fields == EncumbranceAccountData
           cells == EncumbranceCells(e[1], e[2])
           read == Deserialize(fields, Bytes(cells))
<1>2. LaidOut(fields, cells, Plain(10)) /\ Typed(cells)
  BY <1>1, EncumbranceLaidOut DEF TypeOK
<1>3. DOMAIN fields = 1 .. 10 /\ fields[1] = <<"parcelPda", 32>>
  BY DEF EncumbranceAccountData
<1>4. cells[2][1] = getParcelPda(e[1])
  BY DEF EncumbranceCells
<1>5. AccountBytes(Pda(e)) = Bytes(cells)
  BY <1>1, AccountFound DEF Pda
<1> HIDE DEF fields, cells, read
<1>6. read \in Decodings(fields)
      /\ \A i \in DOMAIN fields : read[fields[i][1]] = HeldBy(fields, cells, Plain(10), i)[1]
  BY <1>2, DecodedAsWritten DEF read
<1>7. read.parcelPda = getParcelPda(e[1])
  BY <1>3, <1>4, <1>6 DEF HeldBy, PREFIXED, Plain
<1>8. read # Thrown
  BY <1>6, AccountReadersAssumption DEF fields
<1>9. QED
  BY <1>5, <1>7, <1>8 DEF LienRead, read, fields, cells

\* A lien index is read as it is kept, or as `null`.
LEMMA IndexReadBack ==
    ASSUME TypeOK, NEW p \in Parcels
    PROVE  LET index == fetchLienIndex(TRUE, getParcelPda(p)) IN
           IF p \in DOMAIN lien_index
           THEN index # Null /\ index.activeLienCount = lien_index[p].active_lien_count
           ELSE index = Null
<1> DEFINE fields == LienIndexData
           cells == LienIndexCells(p)
           read == fetchLienIndex(TRUE, getParcelPda(p))
           pda == getLienIndexPda(getParcelPda(p))
<1>1. pda \in TerraTokenAccounts \cup LienRegistryAccounts <=> p \in DOMAIN lien_index
  BY DEF TerraTokenAccounts, LienRegistryAccounts, getParcelPda, getEncumbrancePda,
         getLienIndexPda
<1>2. AccountBytes(pda) = Bytes(cells)
  BY DEF AccountBytes, getParcelPda, getLienIndexPda
<1>3. CASE p \notin DOMAIN lien_index
  BY <1>1, <1>3 DEF fetchLienIndex, getAccountData, Decoded
<1>4. CASE p \in DOMAIN lien_index
  <2>1. read = Decoded(fields, Bytes(cells))
    BY <1>1, <1>2, <1>4 DEF fetchLienIndex, getAccountData
  <2>2. LaidOut(fields, cells, Plain(4)) /\ Typed(cells)
    BY <1>4, LienIndexLaidOut DEF TypeOK
  <2>3. DOMAIN fields = 1 .. 4 /\ fields[2] = <<"activeLienCount", 1>>
    BY DEF LienIndexData
  <2>4. cells[3][1] = lien_index[p].active_lien_count
    BY DEF LienIndexCells
  <2> HIDE DEF read, fields, cells
  <2>5. read \in Decodings(fields)
        /\ \A i \in DOMAIN fields : read[fields[i][1]] = HeldBy(fields, cells, Plain(4), i)[1]
    BY <2>1, <2>2, DecodedAsWritten
  <2>6. read.activeLienCount = lien_index[p].active_lien_count
    BY <2>3, <2>4, <2>5 DEF HeldBy, PREFIXED, Plain
  <2>7. read # Null
    BY <2>5, AccountReadersAssumption DEF fields
  <2>8. QED
    BY <1>4, <2>6, <2>7 DEF read
<1>5. QED
  BY <1>3, <1>4

\* The index ends before the lender of an encumbrance would.
LEMMA IndexTooShort ==
    ASSUME NEW p
    PROVE  Deserialize(EncumbranceAccountData, Bytes(LienIndexCells(p))) = Thrown
<1> DEFINE fields == EncumbranceAccountData
           cells == LienIndexCells(p)
           data == Bytes(cells)
<1>1. /\ Widths(cells) /\ DOMAIN cells = 1 .. 5 /\ Len(cells) = 5
      /\ cells[1][2] = 8 /\ cells[2][2] = 32 /\ cells[3][2] = 1 /\ cells[4][2] = 2
      /\ cells[5][2] = 1
  BY DEF Widths, LienIndexCells
<1>2. /\ Widths(fields) /\ DOMAIN fields = 1 .. 10 /\ Len(fields) = 10
      /\ fields[1] = <<"parcelPda", 32>> /\ fields[2] = <<"lender", 32>>
      /\ \A i \in 1 .. 10 : fields[i][2] # PREFIXED
      /\ \A i \in 1 .. 10 : fields[i][1] = "lender" => i = 2
  BY DEF Widths, EncumbranceAccountData, PREFIXED
<1>3. PICK g : Ends(cells, g)
  BY <1>1, EndsExist
<1>4. PICK e : Ends(fields, e)
  BY <1>2, EndsExist
<1> HIDE DEF fields, cells
<1>5. g[0] = 0 /\ g[1] = 8 /\ g[2] = 40 /\ g[3] = 41 /\ g[4] = 43 /\ g[5] = 44
  <2>1. \A i \in 1 .. 5 : g[i] = g[i - 1] + cells[i][2]
    BY <1>1, <1>3 DEF Ends
  <2>2. g[0] = 0 /\ g[1] = g[0] + 8 /\ g[2] = g[1] + 32 /\ g[3] = g[2] + 1
    BY <1>1, <1>3, <2>1 DEF Ends
  <2>3. g[4] = g[3] + 2 /\ g[5] = g[4] + 1
    BY <1>1, <2>1
  <2>4. QED
    BY <2>2, <2>3
<1>6. data.size = 44
  <2>1. data = [ size  |-> g[Len(cells)],
                 cells |-> {<<g[i - 1], cells[i]>> : i \in DOMAIN cells} ]
    BY <1>1, <1>3, BytesAre
  <2>2. QED
    BY <1>1, <1>5, <2>1
<1>7. \A j \in DOMAIN cells : ~(g[j - 1] = 40 /\ cells[j][2] = 32)
  BY <1>1, <1>5
<1>8. ReadAt(data, 40, 32) = Thrown
  <2> DEFINE otherwise == IF 40 + 32 > data.size THEN Thrown ELSE Garbled
  <2>1. otherwise = Thrown
    BY <1>6
  <2>2. CellAt(data, 40, 32, otherwise) = otherwise
    BY <1>1, <1>3, <1>7, NoCellRead
  <2>3. QED
    BY <2>1, <2>2 DEF ReadAt
<1> DEFINE h == [i \in DOMAIN fields |-> 8 + e[i - 1]]
<1> HIDE DEF data
<1>9. Offsets(fields, data, h)
  <2>1. ASSUME NEW i \in DOMAIN fields
        PROVE  h[i] = IF i = 1 THEN ANCHOR_DISCRIMINATOR_SIZE
                      ELSE After(fields, data, i - 1, h[i - 1])
    <3>1. i \in 1 .. 10 /\ h[i] = 8 + e[i - 1]
      BY <1>2
    <3>2. CASE i = 1
      BY <1>4, <3>1, <3>2 DEF Ends, ANCHOR_DISCRIMINATOR_SIZE
    <3>3. CASE i # 1
      <4>1. PICK k \in 1 .. 10 : k = i - 1
        BY <3>1, <3>3
      <4>2. /\ e[k] = e[k - 1] + fields[k][2] /\ h[k] = 8 + e[k - 1]
            /\ e[k - 1] \in Nat /\ fields[k][2] \in Nat
        <5>1. k - 1 \in 0 .. 10
          BY <4>1
        <5>2. QED
          BY <1>2, <1>4, <5>1 DEF Ends, Widths
      <4>3. After(fields, data, k, h[k]) = h[k] + fields[k][2]
        BY <1>2 DEF After
      <4>4. h[i] = After(fields, data, k, h[k])
        BY <3>1, <4>1, <4>2, <4>3
      <4>5. QED
        BY <3>3, <4>1, <4>4
    <3>4. QED
      BY <3>2, <3>3
  <2>2. h = [i \in DOMAIN fields |-> h[i]]
    OBVIOUS
  <2> HIDE DEF h
  <2>3. QED
    BY <2>1, <2>2, Zenon DEF Offsets
<1>10. h[2] = 40
  <2>1. e[0] = 0 /\ e[1] = e[0] + fields[1][2] /\ fields[1][2] = 32
    BY <1>2, <1>4 DEF Ends
  <2>2. h[2] = 8 + e[1]
    BY <1>2
  <2>3. QED
    BY <2>1, <2>2
<1> HIDE DEF h
<1>11. FieldRead(fields, data, h, 2) = Thrown
  BY <1>2, <1>8, <1>10 DEF FieldRead
<1>12. /\ "lender" \in DOMAIN AccountRead(fields, data, h)
       /\ AccountRead(fields, data, h)["lender"] = Thrown
  <2>1. (CHOOSE i \in DOMAIN fields : fields[i][1] = "lender") = 2
    BY <1>2
  <2>2. 2 \in DOMAIN fields /\ fields[2][1] = "lender"
    BY <1>2
  <2>3. "lender" \in {fields[i][1] : i \in DOMAIN fields}
    BY <2>2
  <2>4. QED
    BY <1>11, <2>1, <2>3 DEF AccountRead
<1>13. Deserialize(fields, data) = Thrown
  BY <1>2, <1>9, <1>12, DeserializeAt
<1>14. QED
  BY <1>13 DEF data, fields, cells

\* A parcel's account, once pledged, is among those its index counts.
LEMMA LiensOf ==
    ASSUME TypeOK, LienInv, NEW p \in Parcels
    PROVE  LET liens == {e \in DOMAIN encumbrance : e[1] = p} IN
           \/ IndexOrZero(p).active_lien_count = 0 /\ liens = {}
           \/ /\ IndexOrZero(p).active_lien_count = 1
              /\ p \in DOMAIN lien_index
              /\ \E e \in DOMAIN encumbrance : liens = {e}
<1>1. \A e \in DOMAIN encumbrance :
          e = <<e[1], e[2]>> /\ e[2] \in Wallets /\ encumbrance[e].status = STATUS_ACTIVE
  BY DEF TypeOK, EncumbranceTypeOK, EncumbranceAccount
<1>2. \A l \in Wallets : l \in OpenLiens(p) <=> <<p, l>> \in DOMAIN encumbrance
  BY <1>1 DEF OpenLiens, Active
<1> DEFINE liens == {e \in DOMAIN encumbrance : e[1] = p}
<1>3. CASE IndexOrZero(p).active_lien_count = 0 /\ OpenLiens(p) = {}
  BY <1>1, <1>2, <1>3
<1>4. CASE /\ IndexOrZero(p).active_lien_count = 1
           /\ \E l \in Wallets : OpenLiens(p) = {l}
  <2>1. PICK l \in Wallets : OpenLiens(p) = {l}
    BY <1>4
  <2>2. <<p, l>> \in DOMAIN encumbrance /\ \A e \in liens : e = <<p, l>>
    BY <1>1, <1>2, <2>1
  <2>3. liens = {<<p, l>>}
    BY <2>2
  <2>4. p \in DOMAIN lien_index
    BY <1>4 DEF IndexOrZero
  <2>5. QED
    BY <1>4, <2>2, <2>3, <2>4
<1>5. QED
  BY <1>3, <1>4 DEF LienInv, OneLenderOrNone

\* The list of all encumbrances, as one of the two clients reads it.
LEMMA AllLiensRead ==
    ASSUME TypeOK, NEW p \in Parcels
    PROVE  {e \in fetchAllEncumbrances(TRUE) : e.parcelPda = getParcelPda(p)}
             = {LienRead(e) : e \in {x \in DOMAIN encumbrance : x[1] = p}}
<1> DEFINE parcel == getParcelPda(p)
           entries == {LienRead(e) : e \in DOMAIN encumbrance}
           pdas == Memcmp(LienRegistryAccounts, 0, "EncumbranceAccount")
<1>1. pdas = {Pda(e) : e \in DOMAIN encumbrance}
  BY Found
<1>2. {Deserialize(EncumbranceAccountData, AccountBytes(pda)) : pda \in pdas} = entries
  <2>1. \A e \in DOMAIN encumbrance :
            Deserialize(EncumbranceAccountData, AccountBytes(Pda(e))) = LienRead(e)
    BY LienDecoded DEF LienRead
  <2> HIDE DEF pdas
  <2>2. QED
    BY <1>1, <2>1
<1>3. Thrown \notin entries
  BY LienDecoded
<1>4. Listed(EncumbranceAccountData, pdas) = entries
  <2> HIDE DEF entries, pdas
  <2>1. QED
    BY <1>2, <1>3 DEF Listed
<1>5. fetchAllEncumbrances(TRUE) = entries
  BY <1>4 DEF fetchAllEncumbrances
<1>6. \A e \in DOMAIN encumbrance : LienRead(e).parcelPda = parcel <=> e[1] = p
  BY LienDecoded DEF getParcelPda
<1> HIDE DEF parcel
<1>7. {e \in entries : e.parcelPda = parcel}
        = {LienRead(e) : e \in {x \in DOMAIN encumbrance : x[1] = p}}
  BY <1>6
<1>8. QED
  BY <1>5, <1>7 DEF parcel

\* As many encumbrances are listed for a parcel as its index counts, in both
\* clients: the filter on the discriminator finds the encumbrance accounts and no
\* other, all of them can be decoded, and the registry keeps the counter exact.
THEOREM ListedAsIndexedProved == ClientSpec => []ListedAsIndexed
<1>1. TypeOK /\ LienInv => ListedAsIndexed
  <2> SUFFICES ASSUME TypeOK, LienInv, NEW p \in Parcels
               PROVE  LET parcel == getParcelPda(p)
                          Agree(list, index) ==
                              Cardinality({e \in list : e.parcelPda = parcel})
                                = IF index = Null THEN 0 ELSE index.activeLienCount
                      IN  /\ Agree(fetchAllEncumbrances(TRUE), fetchLienIndex(TRUE, parcel))
                          /\ Agree(webFetchAllEncumbrances(TRUE),
                                   webFetchLienIndex(TRUE, parcel))
    BY Zenon DEF ListedAsIndexed
  <2> DEFINE parcel == getParcelPda(p)
             index == fetchLienIndex(TRUE, parcel)
             list == fetchAllEncumbrances(TRUE)
             liens == {e \in DOMAIN encumbrance : e[1] = p}
             listed == {e \in list : e.parcelPda = parcel}
  <2>1. listed = {LienRead(e) : e \in liens}
    BY AllLiensRead
  <2>2. (IF index = Null THEN 0 ELSE index.activeLienCount)
          = IndexOrZero(p).active_lien_count
    BY IndexReadBack DEF IndexOrZero
  <2>3. webFetchAllEncumbrances(TRUE) = list /\ webFetchLienIndex(TRUE, parcel) = index
    BY WebReadsSame
  <2> HIDE DEF listed
  <2>4. ASSUME liens = {} PROVE Cardinality(listed) = 0
    <3>1. listed = {}
      BY <2>1, <2>4
    <3>2. QED
      BY <3>1, FS_EmptySet
  <2>5. ASSUME NEW e \in DOMAIN encumbrance, liens = {e} PROVE Cardinality(listed) = 1
    <3>1. listed = {LienRead(e)}
      BY <2>1, <2>5
    <3>2. QED
      BY <3>1, FS_Singleton
  <2>6. Cardinality(listed) = IndexOrZero(p).active_lien_count
    <3>1. \/ IndexOrZero(p).active_lien_count = 0 /\ liens = {}
          \/ /\ IndexOrZero(p).active_lien_count = 1
             /\ \E e \in DOMAIN encumbrance : liens = {e}
      BY LiensOf
    <3> HIDE DEF liens
    <3>2. QED
      BY <2>4, <2>5, <3>1
  <2>7. QED
    BY <2>2, <2>3, <2>6, Zenon DEF listed
<1>2. ClientSpec => Spec
  BY ClientsUseTheLedger
<1>3. QED
  BY <1>1, <1>2, TypeCorrect, LienInvariant, PTL

\* fetchEncumbrancesByParcel throws for every parcel that was ever pledged, and
\* lists nothing for the others: the filter also finds the index, whose 44 bytes end
\* before the lender of an encumbrance would.
THEOREM ByParcelOnlyBeforeFirstLienProved == ClientSpec => []ByParcelOnlyBeforeFirstLien
<1>1. TypeOK /\ LienInv => ByParcelOnlyBeforeFirstLien
  <2> SUFFICES ASSUME TypeOK, LienInv, NEW p \in Parcels
               PROVE  LET parcel == getParcelPda(p)
                          Expected == IF p \in DOMAIN lien_index THEN Thrown ELSE {}
                      IN  /\ fetchEncumbrancesByParcel(TRUE, parcel) = Expected
                          /\ webFetchEncumbrancesByParcel(TRUE, parcel) = Expected
    BY DEF ByParcelOnlyBeforeFirstLien
  <2> DEFINE parcel == getParcelPda(p)
             liens == {e \in DOMAIN encumbrance : e[1] = p}
             index == {getLienIndexPda(getParcelPda(q)) : q \in DOMAIN lien_index \cap {p}}
             pdas == Memcmp(LienRegistryAccounts, ANCHOR_DISCRIMINATOR_SIZE, parcel)
             entries == {Deserialize(EncumbranceAccountData, AccountBytes(pda)) : pda \in pdas}
  <2>1. pdas = {Pda(e) : e \in liens} \cup index
    BY Found
  <2>2. fetchEncumbrancesByParcel(TRUE, parcel)
          = IF Thrown \in entries THEN Thrown ELSE entries
    BY DEF fetchEncumbrancesByParcel, Listed
  <2>3. webFetchEncumbrancesByParcel(TRUE, parcel) = fetchEncumbrancesByParcel(TRUE, parcel)
    BY WebReadsSame
  <2>4. CASE p \in DOMAIN lien_index
    <3> DEFINE pda == getLienIndexPda(parcel)
    <3>1. pda \in pdas
      BY <2>1, <2>4
    <3>2. AccountBytes(pda) = Bytes(LienIndexCells(p))
      BY DEF AccountBytes, getParcelPda, getLienIndexPda
    <3>3. Deserialize(EncumbranceAccountData, AccountBytes(pda)) = Thrown
      BY <3>2, IndexTooShort
    <3> HIDE DEF pdas, pda
    <3>4. Thrown \in entries
      BY <3>1, <3>3
    <3> HIDE DEF entries
    <3>5. QED
      BY <2>2, <2>3, <2>4, <3>4
  <2>5. CASE p \notin DOMAIN lien_index
    <3>1. liens = {} /\ index = {}
      BY <2>5, LiensOf DEF IndexOrZero
    <3>2. pdas = {}
      <4> HIDE DEF pdas, liens, index
      <4>1. QED
        BY <2>1, <3>1
    <3> HIDE DEF pdas
    <3>3. entries = {}
      BY <3>2
    <3> HIDE DEF entries
    <3>4. QED
      BY <2>2, <2>3, <2>5, <3>3
  <2>6. QED
    BY <2>4, <2>5
<1>2. ClientSpec => Spec
  BY ClientsUseTheLedger
<1>3. QED
  BY <1>1, <1>2, TypeCorrect, LienInvariant, PTL
-----------------------------------------------------------------------------
(* Refusals *)

\* With the logs the page names the error, or says whose account exists.
LEMMA NamedRefusal ==
    ASSUME NEW program, NEW error, error # None
    PROVE  Tells(parseTransactionError(Raised(program, error, TRUE)), error)
<1> DEFINE raised == Raised(program, error, TRUE)
           table == IF program = LIEN_REGISTRY_PROGRAM_ID THEN LienRegistryErrors
                                                          ELSE TerraTokenErrors
<1>1. raised.name = error
  BY DEF Raised
<1>2. CASE error = ALREADY_IN_USE
  <2>1. raised.code = 0
    BY <1>2 DEF Raised
  <2> HIDE DEF raised
  <2>2. parseTransactionError(raised) \in {"LienAlreadyRegistered", "AccountExists"}
    BY <2>1 DEF parseTransactionError
  <2>3. Tells(parseTransactionError(raised), error)
    BY <1>2, <2>2 DEF Tells
  <2>4. QED
    BY <2>3 DEF raised
<1>3. CASE error # ALREADY_IN_USE
  <2>1. DOMAIN table \subseteq Nat
    <3>1. DOMAIN LienRegistryErrors = 1 .. 5 /\ DOMAIN TerraTokenErrors = 1 .. 12
      BY DEF LienRegistryErrors, TerraTokenErrors
    <3>2. QED
      BY <3>1
  <2>2. raised.code = IF \E i \in DOMAIN table : table[i] = error
                      THEN 5999 + CHOOSE i \in DOMAIN table : table[i] = error
                      ELSE 1
    BY <1>3 DEF Raised
  <2> HIDE DEF table, raised
  <2>3. raised.code # 0
    <3>1. CASE \E i \in DOMAIN table : table[i] = error
      <4> DEFINE j == CHOOSE i \in DOMAIN table : table[i] = error
      <4>1. j \in DOMAIN table
        BY <3>1
      <4>2. raised.code = 5999 + j
        BY <2>2, <3>1
      <4> HIDE DEF j
      <4>3. QED
        BY <2>1, <4>1, <4>2
    <3>2. CASE ~ \E i \in DOMAIN table : table[i] = error
      BY <2>2, <3>2
    <3>3. QED
      BY <3>1, <3>2
  <2>4. Tells(parseTransactionError(raised), error)
    BY <1>1, <2>3 DEF parseTransactionError, Tells
  <2>5. QED
    BY <2>4 DEF raised
<1>4. QED
  BY <1>2, <1>3

\* By its number alone an error of the lien registry is found again: the page's
\* table follows the order of the program's.
LEMMA NumberedRefusal ==
    ASSUME NEW i \in DOMAIN LienRegistryErrors
    PROVE  LET error == LienRegistryErrors[i]
           IN  parseTransactionError(Raised(LIEN_REGISTRY_PROGRAM_ID, error, FALSE)) = error
<1> DEFINE error == LienRegistryErrors[i]
           raised == Raised(LIEN_REGISTRY_PROGRAM_ID, error, FALSE)
           j == CHOOSE k \in DOMAIN LienRegistryErrors : LienRegistryErrors[k] = error
<1>1. DOMAIN LienRegistryErrors = 1 .. 5
  BY DEF LienRegistryErrors
<1>2. /\ \A k, m \in 1 .. 5 : LienRegistryErrors[k] = LienRegistryErrors[m] => k = m
      /\ error # ALREADY_IN_USE
  BY <1>1 DEF LienRegistryErrors, ALREADY_IN_USE
<1>3. j = i
  <2>1. j \in DOMAIN LienRegistryErrors /\ LienRegistryErrors[j] = error
    OBVIOUS
  <2> HIDE DEF j
  <2>2. QED
    BY <1>1, <1>2, <2>1
<1>4. raised.name = None /\ raised.code = 5999 + j
  BY <1>2 DEF Raised
<1> HIDE DEF j, raised, error
<1>5. /\ raised.code \in 6000 .. 6004 /\ raised.code # 0
      /\ raised.code - 5999 = i
  BY <1>1, <1>3, <1>4
<1>6. knownCodes[raised.code] = LienRegistryErrors[i] /\ raised.code \in DOMAIN knownCodes
  BY <1>5 DEF knownCodes
<1>7. parseTransactionError(raised) = LienRegistryErrors[i]
  BY <1>4, <1>5, <1>6 DEF parseTransactionError
<1>8. QED
  BY <1>7 DEF raised, error

\* Each list of refusals is complete and holds no refusal too many.
LEMMA RefusedRegistration ==
    ASSUME NEW p \in Parcels, NEW survey \in Surveys
    PROVE  RegisterParcelError(p, survey) = None
             <=> ~Registered(p) /\ ValidRegistration(p, survey)
<1>1. /\ survey.area_ha \in Nat /\ CadastralLen[p] \in Nat /\ MAX_CADASTRAL_LEN \in Nat
  BY TerraTokenAssumption
<1>2. QED
  BY <1>1 DEF RegisterParcelError, ValidRegistration, None, ALREADY_IN_USE

\* The same of an assessment.
LEMMA RefusedAssessment ==
    ASSUME NEW p, NEW w, NEW a \in Assessments
    PROVE  UpdateRiskAssessmentError(w, p, a) = None
             <=> /\ Registered(p)
                 /\ parcel_config[p].mint_authority = w
                 /\ ValidAssessment(a)
<1>1. /\ a.ai_score \in Nat /\ a.collateral_grade \in Nat /\ a.recommended_ltv \in Nat
  BY TerraTokenAssumption
<1>2. /\ a.ai_score \in Scores <=> ~(a.ai_score > 100)
      /\ a.collateral_grade \in Grades <=> ~(a.collateral_grade > 3)
      /\ a.recommended_ltv \in Ratios <=> ~(a.recommended_ltv > 10000)
  <2> DEFINE x == a.ai_score
             y == a.collateral_grade
             z == a.recommended_ltv
  <2>1. x \in Nat /\ y \in Nat /\ z \in Nat
    BY <1>1
  <2> HIDE DEF x, y, z
  <2>2. x \in Scores <=> ~(x > 100)
    BY <2>1 DEF Scores
  <2>3. y \in Grades <=> ~(y > 3)
    BY <2>1 DEF Grades
  <2>4. ASSUME z \in Ratios PROVE ~(z > 10000)
    BY <2>1, <2>4 DEF Ratios
  <2>5. ASSUME ~(z > 10000) PROVE z \in Ratios
    BY <2>1, <2>5, SMTT(30) DEF Ratios
  <2>6. QED
    BY <2>2, <2>3, <2>4, <2>5 DEF x, y, z
<1>3. UpdateRiskAssessmentError(w, p, a) = None
        <=> /\ Registered(p)
            /\ parcel_config[p].mint_authority = w
            /\ ~(a.ai_score > 100)
            /\ ~(a.collateral_grade > 3)
            /\ ~(a.recommended_ltv > 10000)
  BY DEF UpdateRiskAssessmentError, None
<1>4. QED
  BY <1>2, <1>3 DEF ValidAssessment

\* The same of a pledge; that the counter is at its limit and not beyond is the
\* width of the index.
LEMMA RefusedPledge ==
    ASSUME TypeOK, NEW p \in Parcels, NEW w, NEW amount \in Amounts
    PROVE  RegisterEncumbranceError(w, p, amount) = None <=> RegisterAllowed(w, p, amount)
<1>1. IndexOrZero(p).total_lien_count \in 0 .. MaxU16 /\ MaxU16 \in Nat
  BY IndexOrZeroType, TerraTokenAssumption DEF LienIndex, U16
<1>2. amount \in Nat
  BY LienRegistryAssumption
<1>3. QED
  BY <1>1, <1>2
     DEF RegisterEncumbranceError, RegisterAllowed, VerifyParcel, None, ALREADY_IN_USE

\* The same of a release: an account that exists is open, is its lender's, and
\* has an index that counts it, so it can always be given back.
LEMMA RefusedRelease ==
    ASSUME TypeOK, LienInv, LenderOfSeeds, NEW p \in Parcels, NEW w \in Wallets
    PROVE  ReleaseEncumbranceError(w, p) = None <=> ReleaseAllowed(w, p)
<1>1. ASSUME <<p, w>> \in DOMAIN encumbrance PROVE ReleaseAllowed(w, p)
  <2>1. w \in OpenLiens(p)
    BY <1>1, ActiveIsOpen DEF OpenLiens
  <2>2. IndexOrZero(p).active_lien_count = 1
    BY <2>1 DEF LienInv, OneLenderOrNone
  <2>3. p \in DOMAIN lien_index
    BY <2>2 DEF IndexOrZero
  <2>4. encumbrance[<<p, w>>].lender = w
    BY <1>1 DEF LenderOfSeeds
  <2>5. encumbrance[<<p, w>>].status = STATUS_ACTIVE
    BY <2>1 DEF OpenLiens, Active
  <2>6. QED
    BY <1>1, <2>3, <2>4, <2>5 DEF ReleaseAllowed
<1>2. ReleaseEncumbranceError(w, p) = None <=> <<p, w>> \in DOMAIN encumbrance
  BY DEF ReleaseEncumbranceError, None
<1>3. ReleaseAllowed(w, p) => <<p, w>> \in DOMAIN encumbrance
  BY DEF ReleaseAllowed
<1>4. QED
  BY <1>1, <1>2, <1>3

\* A refusal has a reason, one of the program's own, and the page shows it: in
\* every state the clients bring about, for any arguments and any wallet.
THEOREM RefusalsExplainedProved == ClientSpec => []RefusalsExplained
<1>1. TypeOK /\ LienInv /\ LenderOfSeeds => RefusalsExplained
  <2> SUFFICES ASSUME TypeOK, LienInv, LenderOfSeeds, NEW w \in Visitors, NEW p \in Parcels
               PROVE  RefusalsExplained!(w, p)
    BY DEF RefusalsExplained
  <2>0. w \in Wallets
    BY ClientLedgerAssumption
  <2>1. \A ix, error : Told(ix, error)
    BY NamedRefusal DEF Told
  <2>2. \A survey \in Surveys :
          Explained(webBuildRegisterParcel(w, p, survey), RegisterParcelError(p, survey),
                    ~Registered(p) /\ ValidRegistration(p, survey))
    BY <2>1, RefusedRegistration DEF Explained
  <2>3. \A a \in Assessments :
          Explained(buildUpdateRiskAssessmentInstruction(getParcelPda(p), w, p, a),
                    UpdateRiskAssessmentError(w, p, a),
                    /\ Registered(p)
                    /\ parcel_config[p].mint_authority = w
                    /\ ValidAssessment(a))
    BY <2>1, RefusedAssessment DEF Explained
  <2>4. ASSUME NEW amount \in Amounts,
               NEW ix \in {buildRegisterEncumbranceInstruction(w, getParcelPda(p), p, amount),
                           webBuildRegisterEncumbrance(w, getParcelPda(p), p, amount)}
        PROVE  /\ Explained(ix, RegisterEncumbranceError(w, p, amount),
                            RegisterAllowed(w, p, amount))
               /\ Numbered(ix, RegisterEncumbranceError(w, p, amount))
    <3>1. ix.program = LIEN_REGISTRY_PROGRAM_ID
      BY DEF buildRegisterEncumbranceInstruction, webBuildRegisterEncumbrance, Instruction
    <3>2. Numbered(ix, RegisterEncumbranceError(w, p, amount))
      BY <3>1, NumberedRefusal DEF Numbered
    <3>3. Explained(ix, RegisterEncumbranceError(w, p, amount), RegisterAllowed(w, p, amount))
      BY <2>1, RefusedPledge DEF Explained
    <3>4. QED
      BY <3>2, <3>3
  <2>5. \A ix : Explained(ix, ReleaseEncumbranceError(w, p), ReleaseAllowed(w, p))
    BY <2>0, <2>1, RefusedRelease DEF Explained
  <2>6. QED
    BY <2>2, <2>3, <2>4, <2>5
<1>2. ClientSpec => [](TypeOK /\ LienInv /\ LenderOfSeeds)
  BY ClientsUseTheLedger, TypeCorrect, LienInvariant, LenderOfSeedsInvariant, PTL
<1>3. QED
  BY <1>1, <1>2, PTL
-----------------------------------------------------------------------------
(* What is built is what is done *)

\* Each builder's accounts are as many as the program declares, in its order and
\* with its privileges, its arguments fill the handler's, and the one signature
\* asked for is the caller's.
LEMMA RegistrationReaches ==
    ASSUME NEW w, NEW p, NEW survey \in [area_ha : Nat, land_class : Nat],
           RegisterParcel(w, p, survey), UNCHANGED lienVars
    PROVE  Process(buildRegisterParcelInstruction(w, p, survey), {w})
<1> DEFINE ix == buildRegisterParcelInstruction(w, p, survey)
<1>1. /\ ix.data = <<"register_parcel", p, survey.area_ha, survey.land_class, "egiss">>
      /\ ix.accounts = << <<getParcelPda(p), WRITABLE>>, <<w, WRITABLE_SIGNER>>,
                          <<SYSTEM_PROGRAM, READONLY>> >>
  BY DEF buildRegisterParcelInstruction, Instruction
<1> HIDE DEF ix
<1>2. [area_ha |-> survey.area_ha, land_class |-> survey.land_class] = survey
  OBVIOUS
<1>3. SignedBy(ix, {w})
  BY <1>1 DEF SignedBy, At, WRITABLE, WRITABLE_SIGNER, READONLY
<1>4. Declared(ix, <<WRITABLE, WRITABLE_SIGNER, READONLY>>, 4)
  BY <1>1 DEF Declared
<1>5. /\ ix.data[1] = "register_parcel" /\ ix.data[2] = p
      /\ ix.data[3] = survey.area_ha /\ ix.data[4] = survey.land_class
      /\ At(ix, 1) = getParcelPda(p) /\ At(ix, 2) = w
  BY <1>1 DEF At
<1>6. ProcessRegisterParcel(ix)
  BY <1>2, <1>4, <1>5 DEF ProcessRegisterParcel
<1>7. QED
  BY <1>3, <1>6 DEF Process, ix

\* The same of an assessment.
LEMMA AssessmentReaches ==
    ASSUME NEW w, NEW p,
           NEW a \in [ai_score : Nat, collateral_grade : Nat, recommended_ltv : Nat],
           UpdateRiskAssessment(w, p, a), UNCHANGED lienVars
    PROVE  Process(buildUpdateRiskAssessmentInstruction(getParcelPda(p), w, p, a), {w})
<1> DEFINE ix == buildUpdateRiskAssessmentInstruction(getParcelPda(p), w, p, a)
<1>1. /\ ix.data = <<"update_risk_assessment", p,
                     a.ai_score, a.collateral_grade, a.recommended_ltv>>
      /\ ix.accounts = << <<getParcelPda(p), WRITABLE>>, <<w, WRITABLE_SIGNER>> >>
  BY DEF buildUpdateRiskAssessmentInstruction, Instruction
<1> HIDE DEF ix
<1>2. a = [ ai_score |-> a.ai_score, collateral_grade |-> a.collateral_grade,
            recommended_ltv |-> a.recommended_ltv ]
  OBVIOUS
<1>3. SignedBy(ix, {w})
  BY <1>1 DEF SignedBy, At, WRITABLE, WRITABLE_SIGNER
<1>4. Declared(ix, <<WRITABLE, READONLY_SIGNER>>, 4)
  BY <1>1 DEF Declared, READONLY_SIGNER, WRITABLE_SIGNER
<1>5. /\ ix.data[1] = "update_risk_assessment" /\ ix.data[2] = p
      /\ ix.data[3] = a.ai_score /\ ix.data[4] = a.collateral_grade
      /\ ix.data[5] = a.recommended_ltv
      /\ At(ix, 1) = getParcelPda(p) /\ At(ix, 2) = w
  BY <1>1 DEF At
<1>6. ProcessUpdateRiskAssessment(ix)
  BY <1>2, <1>4, <1>5 DEF ProcessUpdateRiskAssessment
<1>7. QED
  BY <1>3, <1>6 DEF Process, ix

\* The same of a pledge.
LEMMA PledgeReaches ==
    ASSUME NEW w, NEW p, NEW amount, RegisterEncumbrance(w, p, amount)
    PROVE  Process(buildRegisterEncumbranceInstruction(w, getParcelPda(p), p, amount), {w})
<1> DEFINE parcel == getParcelPda(p)
           ix == buildRegisterEncumbranceInstruction(w, parcel, p, amount)
<1>1. /\ ix.data = <<"register_encumbrance", p, amount, "notary_sig", "notary_cert">>
      /\ ix.accounts = << <<getEncumbrancePda(parcel, w), WRITABLE>>,
                          <<getLienIndexPda(parcel), WRITABLE>>,
                          <<parcel, READONLY>>, <<w, WRITABLE_SIGNER>>,
                          <<SYSTEM_PROGRAM, READONLY>>,
                          <<TERRA_TOKEN_PROGRAM_ID, READONLY>> >>
  BY DEF buildRegisterEncumbranceInstruction, Instruction
<1> HIDE DEF ix, parcel
<1>2. SignedBy(ix, {w})
  BY <1>1 DEF SignedBy, At, WRITABLE, WRITABLE_SIGNER, READONLY
<1>3. Declared(ix, <<WRITABLE, WRITABLE, READONLY, WRITABLE_SIGNER, READONLY, READONLY>>, 4)
  BY <1>1 DEF Declared
<1>4. /\ ix.data[1] = "register_encumbrance" /\ ix.data[2] = p /\ ix.data[3] = amount
      /\ At(ix, 1) = getEncumbrancePda(parcel, w)
      /\ At(ix, 2) = getLienIndexPda(parcel)
      /\ At(ix, 3) = parcel /\ At(ix, 4) = w
  BY <1>1 DEF At
<1>5. ProcessRegisterEncumbrance(ix)
  BY <1>3, <1>4 DEF ProcessRegisterEncumbrance, parcel
<1>6. QED
  BY <1>2, <1>5 DEF Process, ix, parcel

\* The same of a release.
LEMMA ReleaseReaches ==
    ASSUME NEW w, NEW p, ReleaseEncumbrance(w, p)
    PROVE  Process(buildReleaseEncumbranceInstruction(w, getParcelPda(p)), {w})
<1> DEFINE parcel == getParcelPda(p)
           ix == buildReleaseEncumbranceInstruction(w, parcel)
<1>1. /\ ix.data = <<"release_encumbrance">>
      /\ ix.accounts = << <<getEncumbrancePda(parcel, w), WRITABLE>>,
                          <<getLienIndexPda(parcel), WRITABLE>>,
                          <<parcel, READONLY>>, <<w, WRITABLE_SIGNER>> >>
      /\ parcel[2] = p
  BY DEF buildReleaseEncumbranceInstruction, Instruction, getParcelPda
<1> HIDE DEF ix, parcel
<1>2. SignedBy(ix, {w})
  BY <1>1 DEF SignedBy, At, WRITABLE, WRITABLE_SIGNER, READONLY
<1>3. Declared(ix, <<WRITABLE, WRITABLE, READONLY, WRITABLE_SIGNER>>, 0)
  BY <1>1 DEF Declared
<1>4. /\ ix.data[1] = "release_encumbrance"
      /\ At(ix, 1) = getEncumbrancePda(parcel, w)
      /\ At(ix, 2) = getLienIndexPda(parcel)
      /\ At(ix, 3) = parcel /\ At(ix, 4) = w
  BY <1>1 DEF At
<1>5. ProcessReleaseEncumbrance(ix)
  BY <1>1, <1>3, <1>4 DEF ProcessReleaseEncumbrance
<1>6. QED
  BY <1>2, <1>5 DEF Process, ix, parcel

\* The same of a seasonal check, where the build reads the account left off the
\* end as none.
LEMMA CheckReaches ==
    ASSUME NEW w, NEW p, MissingOptionals, SeasonalCheck(p, FALSE), UNCHANGED lienVars
    PROVE  Process(webBuildSeasonalCheck(w, p), {w})
<1> DEFINE ix == webBuildSeasonalCheck(w, p)
<1>1. /\ ix.data = <<"seasonal_check", p>>
      /\ ix.accounts = << <<getParcelPda(p), WRITABLE>>, <<w, READONLY_SIGNER>> >>
  BY DEF webBuildSeasonalCheck, Instruction
<1> HIDE DEF ix
<1>2. SignedBy(ix, {w})
  BY <1>1 DEF SignedBy, At, WRITABLE, READONLY_SIGNER
<1>3. Declared(ix, <<WRITABLE, READONLY_SIGNER>>, 1)
  BY <1>1 DEF Declared
<1>4. ix.data[1] = "seasonal_check" /\ ix.data[2] = p /\ At(ix, 1) = getParcelPda(p)
  BY <1>1 DEF At
<1>5. ProcessSeasonalCheck(ix)
  BY <1>3, <1>4 DEF ProcessSeasonalCheck
<1>6. QED
  BY <1>2, <1>5 DEF Process, ix

\* Phantom's serialisation gives back the instruction it was given.
LEMMA SerializedSame ==
    ASSUME NEW ix, NEW n \in Nat, NEW program, NEW accounts, NEW data,
           ix = Instruction(program, accounts, data),
           accounts = [i \in 1 .. n |-> <<accounts[i][1], accounts[i][2]>>],
           \A i \in 1 .. n :
               accounts[i][2] \in {READONLY, WRITABLE, READONLY_SIGNER, WRITABLE_SIGNER}
    PROVE  serializeTransactionB58(ix) = ix
<1>1. /\ ix.accounts = accounts /\ DOMAIN accounts = 1 .. n
      /\ ix = [program |-> program, accounts |-> accounts, data |-> data]
  BY DEF Instruction
<1>2. [i \in DOMAIN accounts |-> <<accounts[i][1], RoleOf(Flags(accounts[i][2]))>>]
        = [i \in 1 .. n |-> <<accounts[i][1], accounts[i][2]>>]
  BY <1>1, FlagsKeepRole
<1> DEFINE Rewritten(list) ==
               [i \in DOMAIN list |-> <<list[i][1], RoleOf(Flags(list[i][2]))>>]
<1>3. serializeTransactionB58(ix) = [ix EXCEPT !.accounts = Rewritten(ix.accounts)]
  BY DEF serializeTransactionB58
<1>4. Rewritten(ix.accounts) = accounts
  BY <1>1, <1>2
<1> HIDE DEF Rewritten
<1>5. [ix EXCEPT !.accounts = accounts] = ix
  BY <1>1
<1>6. QED
  BY <1>3, <1>4, <1>5

\* That of a pledge, then.
LEMMA PledgeSerialized ==
    ASSUME NEW w, NEW p, NEW amount
    PROVE  LET ix == buildRegisterEncumbranceInstruction(w, getParcelPda(p), p, amount)
           IN  serializeTransactionB58(ix) = ix
<1> DEFINE parcel == getParcelPda(p)
           ix == buildRegisterEncumbranceInstruction(w, parcel, p, amount)
           accounts == << <<getEncumbrancePda(parcel, w), WRITABLE>>,
                          <<getLienIndexPda(parcel), WRITABLE>>,
                          <<parcel, READONLY>>, <<w, WRITABLE_SIGNER>>,
                          <<SYSTEM_PROGRAM, READONLY>>,
                          <<TERRA_TOKEN_PROGRAM_ID, READONLY>> >>
           data == <<"register_encumbrance", p, amount, "notary_sig", "notary_cert">>
<1>1. ix = Instruction(LIEN_REGISTRY_PROGRAM_ID, accounts, data)
  BY DEF buildRegisterEncumbranceInstruction
<1>2. \A i \in 1 .. 6 :
          accounts[i][2] \in {READONLY, WRITABLE, READONLY_SIGNER, WRITABLE_SIGNER}
  OBVIOUS
<1>3. accounts = [i \in 1 .. 6 |-> <<accounts[i][1], accounts[i][2]>>]
  OBVIOUS
<1> HIDE DEF ix, accounts, data
<1>4. serializeTransactionB58(ix) = ix
  BY <1>1, <1>2, <1>3, SerializedSame
<1>5. QED
  BY <1>4 DEF ix

\* An instruction of any builder but mint_certificate's, signed by the wallet it
\* is built for, is carried out exactly when the handler it names may be, with
\* the arguments the builder was given: nothing is lost, added or swapped between
\* them, whether the SDK or the web application built it or Phantom serialised
\* it.  A seasonal check also needs the build to read the account left off as
\* none; the mint_certificate that both copies build is never carried out.
THEOREM BuildersReachTheHandlers ==
    ASSUME NEW w, NEW p, NEW amount,
           NEW survey \in [area_ha : Nat, land_class : Nat],
           NEW a \in [ai_score : Nat, collateral_grade : Nat, recommended_ltv : Nat]
    PROVE  LET parcel == getParcelPda(p)
               pledges == {buildRegisterEncumbranceInstruction(w, parcel, p, amount),
                           webBuildRegisterEncumbrance(w, parcel, p, amount)}
           IN  /\ \A ix \in {buildRegisterParcelInstruction(w, p, survey),
                             webBuildRegisterParcel(w, p, survey)} :
                    Process(ix, {w}) <=> RegisterParcel(w, p, survey) /\ UNCHANGED lienVars
               /\ Process(buildUpdateRiskAssessmentInstruction(parcel, w, p, a), {w}) <=>
                    UpdateRiskAssessment(w, p, a) /\ UNCHANGED lienVars
               /\ \A ix \in pledges :
                    \A sent \in {ix, serializeTransactionB58(ix)} :
                        Process(sent, {w}) <=> RegisterEncumbrance(w, p, amount)
               /\ \A ix \in {buildReleaseEncumbranceInstruction(w, parcel),
                             webBuildReleaseEncumbrance(w, parcel)} :
                    Process(ix, {w}) <=> ReleaseEncumbrance(w, p)
               /\ \A ix \in {buildSeasonalCheckInstruction(w, p), webBuildSeasonalCheck(w, p)} :
                    Process(ix, {w}) <=>
                        MissingOptionals /\ SeasonalCheck(p, FALSE) /\ UNCHANGED lienVars
               /\ \A ix \in {buildMintCertificateInstruction(w, p),
                             webBuildMintCertificate(w, p)} :
                    ~Process(ix, {w})
<1> DEFINE parcel == getParcelPda(p)
           register == buildRegisterParcelInstruction(w, p, survey)
           assess == buildUpdateRiskAssessmentInstruction(parcel, w, p, a)
           pledge == buildRegisterEncumbranceInstruction(w, parcel, p, amount)
           release == buildReleaseEncumbranceInstruction(w, parcel)
           check == webBuildSeasonalCheck(w, p)
           mint == buildMintCertificateInstruction(w, p)
<1>1. /\ webBuildRegisterParcel(w, p, survey) = register
      /\ webBuildRegisterEncumbrance(w, parcel, p, amount) = pledge
      /\ webBuildReleaseEncumbrance(w, parcel) = release
      /\ buildSeasonalCheckInstruction(w, p) = check
      /\ webBuildMintCertificate(w, p) = mint
  BY DEF webBuildRegisterParcel, buildRegisterParcelInstruction,
         webBuildRegisterEncumbrance, buildRegisterEncumbranceInstruction,
         webBuildReleaseEncumbrance, buildReleaseEncumbranceInstruction,
         buildSeasonalCheckInstruction, webBuildSeasonalCheck,
         webBuildMintCertificate, buildMintCertificateInstruction
<1>2. serializeTransactionB58(pledge) = pledge
  BY PledgeSerialized
<1>3. Process(register, {w}) <=> RegisterParcel(w, p, survey) /\ UNCHANGED lienVars
  BY RegisterParcelSent, RegistrationReaches
<1>4. Process(assess, {w}) <=> UpdateRiskAssessment(w, p, a) /\ UNCHANGED lienVars
  BY UpdateRiskAssessmentSent, AssessmentReaches
<1>5. Process(pledge, {w}) <=> RegisterEncumbrance(w, p, amount)
  BY RegisterEncumbranceSent, PledgeReaches
<1>6. Process(release, {w}) <=> ReleaseEncumbrance(w, p)
  BY ReleaseEncumbranceSent, ReleaseReaches
<1>7. Process(check, {w}) <=>
          MissingOptionals /\ SeasonalCheck(p, FALSE) /\ UNCHANGED lienVars
  <2>1. ASSUME Process(check, {w})
        PROVE  MissingOptionals /\ SeasonalCheck(p, FALSE) /\ UNCHANGED lienVars
    <3>1. check.data[1] = "seasonal_check"
      BY DEF webBuildSeasonalCheck, Instruction
    <3>2. ProcessSeasonalCheck(check)
      BY <2>1, <3>1, Dispatch
    <3>3. MissingOptionals
      BY <3>2 DEF ProcessSeasonalCheck
    <3>4. QED
      BY <2>1, <3>3, SeasonalCheckSent
  <2>2. QED
    BY <2>1, CheckReaches
<1>8. ~Process(mint, {w})
  <2>1. SUFFICES ASSUME Process(mint, {w}) PROVE FALSE
    OBVIOUS
  <2>2. mint.data[1] = "mint_certificate" /\ Len(mint.accounts) = 2
    BY DEF buildMintCertificateInstruction, Instruction
  <2>3. ProcessMintCertificate(mint)
    BY <2>1, <2>2, Dispatch
  <2>4. Len(mint.accounts) >= 8
    BY <2>3 DEF ProcessMintCertificate, Declared
  <2>5. QED
    BY <2>2, <2>4
<1> HIDE DEF parcel, register, assess, pledge, release, check, mint
<1>9. /\ \A ix \in {register, webBuildRegisterParcel(w, p, survey)} :
           Process(ix, {w}) <=> RegisterParcel(w, p, survey) /\ UNCHANGED lienVars
      /\ \A ix \in {release, webBuildReleaseEncumbrance(w, parcel)} :
           Process(ix, {w}) <=> ReleaseEncumbrance(w, p)
      /\ \A ix \in {buildSeasonalCheckInstruction(w, p), check} :
           Process(ix, {w}) <=>
               MissingOptionals /\ SeasonalCheck(p, FALSE) /\ UNCHANGED lienVars
      /\ \A ix \in {mint, webBuildMintCertificate(w, p)} : ~Process(ix, {w})
  BY <1>1, <1>3, <1>6, <1>7, <1>8
<1>10. \A ix \in {pledge, webBuildRegisterEncumbrance(w, parcel, p, amount)} :
           \A sent \in {ix, serializeTransactionB58(ix)} :
               Process(sent, {w}) <=> RegisterEncumbrance(w, p, amount)
  BY <1>1, <1>2, <1>5
<1>11. QED
  BY <1>4, <1>9, <1>10 DEF parcel, register, assess, pledge, release, check, mint
=============================================================================
