-------------------------- MODULE ClientInstructions ---------------------------
(***************************************************************************)
(* The instruction builders of the SDK (sdk/src/program.ts) and of the web *)
(* application (web/src/solana/program.ts), and what the programs make of  *)
(* an instruction: accounts are taken by position, checked against the     *)
(* Accounts struct, and the arguments decoded in order.                    *)
(***************************************************************************)
EXTENDS WebReaders, Sequences

CONSTANT
    MissingOptionals    \* whether the Anchor build reads an optional account
                        \* left off the end as None (allow-missing-optionals)

ASSUME ClientInstructionsAssumption == MissingOptionals \in BOOLEAN

TERRA_TOKEN_PROGRAM_ID == <<"program", "terra_token">>
LIEN_REGISTRY_PROGRAM_ID == <<"program", "lien_registry">>
SYSTEM_PROGRAM == <<"program", "system">>

READONLY == {}
WRITABLE == {"writable"}
READONLY_SIGNER == {"signer"}
WRITABLE_SIGNER == {"writable", "signer"}

Instruction(program, accounts, data) ==
    [program |-> program, accounts |-> accounts, data |-> data]

-----------------------------------------------------------------------------
(* The SDK's builders *)

buildRegisterParcelInstruction(owner, p, survey) ==
    Instruction(TERRA_TOKEN_PROGRAM_ID,
        << <<getParcelPda(p), WRITABLE>>, <<owner, WRITABLE_SIGNER>>,
           <<SYSTEM_PROGRAM, READONLY>> >>,
        <<"register_parcel", p, survey.area_ha, survey.land_class, "egiss">>)

\* No mint, no token account and no crop type: see ProcessMintCertificate.
buildMintCertificateInstruction(mintAuthority, p) ==
    Instruction(TERRA_TOKEN_PROGRAM_ID,
        << <<getParcelPda(p), WRITABLE>>, <<mintAuthority, READONLY_SIGNER>> >>,
        <<"mint_certificate", p, "season", "ndvi_score">>)

buildSeasonalCheckInstruction(keeper, p) ==
    Instruction(TERRA_TOKEN_PROGRAM_ID,
        << <<getParcelPda(p), WRITABLE>>, <<keeper, READONLY_SIGNER>> >>,
        <<"seasonal_check", p>>)

buildVerifyParcelInstruction(p) ==
    Instruction(TERRA_TOKEN_PROGRAM_ID, << <<getParcelPda(p), READONLY>> >>,
                <<"verify_parcel", p>>)

buildUpdateRiskAssessmentInstruction(parcel, authority, p, a) ==
    Instruction(TERRA_TOKEN_PROGRAM_ID,
        << <<parcel, WRITABLE>>, <<authority, WRITABLE_SIGNER>> >>,
        <<"update_risk_assessment", p,
          a.ai_score, a.collateral_grade, a.recommended_ltv>>)

buildRegisterEncumbranceInstruction(lender, parcel, p, amount) ==
    Instruction(LIEN_REGISTRY_PROGRAM_ID,
        << <<getEncumbrancePda(parcel, lender), WRITABLE>>,
           <<getLienIndexPda(parcel), WRITABLE>>,
           <<parcel, READONLY>>, <<lender, WRITABLE_SIGNER>>,
           <<SYSTEM_PROGRAM, READONLY>>, <<TERRA_TOKEN_PROGRAM_ID, READONLY>> >>,
        <<"register_encumbrance", p, amount, "notary_sig", "notary_cert">>)

\* Mutant: the lender, who gets the rent back, is not declared writable.
ReleaseReadonly(lender, parcel) ==
    Instruction(LIEN_REGISTRY_PROGRAM_ID,
        << <<getEncumbrancePda(parcel, lender), WRITABLE>>,
           <<getLienIndexPda(parcel), WRITABLE>>,
           <<parcel, READONLY>>, <<lender, READONLY_SIGNER>> >>,
        <<"release_encumbrance">>)

buildReleaseEncumbranceInstruction(lender, parcel) ==
    Instruction(LIEN_REGISTRY_PROGRAM_ID,
        << <<getEncumbrancePda(parcel, lender), WRITABLE>>,
           <<getLienIndexPda(parcel), WRITABLE>>,
           <<parcel, READONLY>>, <<lender, WRITABLE_SIGNER>> >>,
        <<"release_encumbrance">>)

-----------------------------------------------------------------------------
(* The web application's copy, which has no update_risk_assessment.  A page *)
(* hands it to the wallet, or serialises it for Phantom's deeplink: there   *)
(* the four roles become two flags, which say the same.                     *)

webBuildRegisterParcel(owner, p, survey) ==
    Instruction(TERRA_TOKEN_PROGRAM_ID,
        << <<getParcelPda(p), WRITABLE>>, <<owner, WRITABLE_SIGNER>>,
           <<SYSTEM_PROGRAM, READONLY>> >>,
        <<"register_parcel", p, survey.area_ha, survey.land_class, "egiss">>)

webBuildMintCertificate(mintAuthority, p) ==
    Instruction(TERRA_TOKEN_PROGRAM_ID,
        << <<getParcelPda(p), WRITABLE>>, <<mintAuthority, READONLY_SIGNER>> >>,
        <<"mint_certificate", p, "season", "ndvi_score">>)

webBuildSeasonalCheck(keeper, p) ==
    Instruction(TERRA_TOKEN_PROGRAM_ID,
        << <<getParcelPda(p), WRITABLE>>, <<keeper, READONLY_SIGNER>> >>,
        <<"seasonal_check", p>>)

webBuildVerifyParcel(p) ==
    Instruction(TERRA_TOKEN_PROGRAM_ID, << <<getParcelPda(p), READONLY>> >>,
                <<"verify_parcel", p>>)

webBuildRegisterEncumbrance(lender, parcel, p, amount) ==
    Instruction(LIEN_REGISTRY_PROGRAM_ID,
        << <<getEncumbrancePda(parcel, lender), WRITABLE>>,
           <<getLienIndexPda(parcel), WRITABLE>>,
           <<parcel, READONLY>>, <<lender, WRITABLE_SIGNER>>,
           <<SYSTEM_PROGRAM, READONLY>>, <<TERRA_TOKEN_PROGRAM_ID, READONLY>> >>,
        <<"register_encumbrance", p, amount, "notary_sig", "notary_cert">>)

webBuildReleaseEncumbrance(lender, parcel) ==
    Instruction(LIEN_REGISTRY_PROGRAM_ID,
        << <<getEncumbrancePda(parcel, lender), WRITABLE>>,
           <<getLienIndexPda(parcel), WRITABLE>>,
           <<parcel, READONLY>>, <<lender, WRITABLE_SIGNER>> >>,
        <<"release_encumbrance">>)

Flags(role) ==
    [ isSigner   |-> role \in {WRITABLE_SIGNER, READONLY_SIGNER},
      isWritable |-> role \in {WRITABLE, WRITABLE_SIGNER} ]

RoleOf(flags) ==
    {f \in {"signer", "writable"} :
       \/ f = "signer" /\ flags.isSigner
       \/ f = "writable" /\ flags.isWritable}

serializeTransactionB58(ix) ==
    [ix EXCEPT !.accounts =
        [i \in DOMAIN @ |-> <<@[i][1], RoleOf(Flags(@[i][2]))>>]]

-----------------------------------------------------------------------------
(* The programs' side *)

At(ix, i) == ix.accounts[i][1]

\* Enough accounts, each with the privileges its declaration asks for, and
\* enough bytes for every argument.
Declared(ix, roles, args) ==
    /\ Len(ix.accounts) >= Len(roles)
    /\ \A i \in DOMAIN roles : roles[i] \subseteq ix.accounts[i][2]
    /\ Len(ix.data) >= 1 + args

ProcessRegisterParcel(ix) ==
    /\ ix.data[1] = "register_parcel"
    /\ Declared(ix, <<WRITABLE, WRITABLE_SIGNER, READONLY>>, 4)
    /\ At(ix, 1) = getParcelPda(ix.data[2])
    /\ RegisterParcel(At(ix, 2), ix.data[2],
                      [area_ha |-> ix.data[3], land_class |-> ix.data[4]])
    /\ UNCHANGED lienVars

ProcessMintCertificate(ix) ==
    /\ ix.data[1] = "mint_certificate"
    /\ Declared(ix, <<WRITABLE, WRITABLE_SIGNER, WRITABLE, READONLY,
                      WRITABLE_SIGNER, READONLY, READONLY, READONLY>>, 4)
    /\ At(ix, 1) = getParcelPda(ix.data[2])
    /\ MintCertificate(At(ix, 5), ix.data[2], At(ix, 4))
    /\ UNCHANGED lienVars

\* Without the third account no lien is read.
ProcessSeasonalCheck(ix) ==
    /\ ix.data[1] = "seasonal_check"
    /\ MissingOptionals
    /\ Declared(ix, <<WRITABLE, READONLY_SIGNER>>, 1)
    /\ At(ix, 1) = getParcelPda(ix.data[2])
    /\ SeasonalCheck(ix.data[2], FALSE)
    /\ UNCHANGED lienVars

ProcessUpdateRiskAssessment(ix) ==
    /\ ix.data[1] = "update_risk_assessment"
    /\ Declared(ix, <<WRITABLE, READONLY_SIGNER>>, 4)
    /\ At(ix, 1) = getParcelPda(ix.data[2])
    /\ UpdateRiskAssessment(At(ix, 2), ix.data[2],
           [ai_score |-> ix.data[3], collateral_grade |-> ix.data[4],
            recommended_ltv |-> ix.data[5]])
    /\ UNCHANGED lienVars

ProcessRegisterEncumbrance(ix) ==
    /\ ix.data[1] = "register_encumbrance"
    /\ Declared(ix, <<WRITABLE, WRITABLE, READONLY, WRITABLE_SIGNER,
                      READONLY, READONLY>>, 4)
    /\ At(ix, 1) = getEncumbrancePda(At(ix, 3), At(ix, 4))
    /\ At(ix, 2) = getLienIndexPda(At(ix, 3))
    /\ At(ix, 3) = getParcelPda(ix.data[2])     \* verify_parcel's seeds
    /\ RegisterEncumbrance(At(ix, 4), ix.data[2], ix.data[3])

ProcessReleaseEncumbrance(ix) ==
    /\ ix.data[1] = "release_encumbrance"
    /\ Declared(ix, <<WRITABLE, WRITABLE, READONLY, WRITABLE_SIGNER>>, 0)
    /\ At(ix, 1) = getEncumbrancePda(At(ix, 3), At(ix, 4))
    /\ At(ix, 2) = getLienIndexPda(At(ix, 3))
    /\ ReleaseEncumbrance(At(ix, 4), At(ix, 3)[2])

\* The runtime refuses a transaction whose signers did not all sign.
SignedBy(ix, keys) ==
    \A i \in DOMAIN ix.accounts :
        "signer" \in ix.accounts[i][2] => At(ix, i) \in keys

Process(ix, keys) ==
    /\ SignedBy(ix, keys)
    /\ \/ ProcessRegisterParcel(ix)
       \/ ProcessMintCertificate(ix)
       \/ ProcessSeasonalCheck(ix)
       \/ ProcessUpdateRiskAssessment(ix)
       \/ ProcessRegisterEncumbrance(ix)
       \/ ProcessReleaseEncumbrance(ix)
=============================================================================
