------------------------------ MODULE WebReaders -------------------------------
(***************************************************************************)
(* web/src/solana/accounts.ts: the web application does not use the SDK    *)
(* but keeps a copy of its readers, with the node fixed (RPC_URL) and the  *)
(* base64 loops written out.  The layouts are written down a second time,  *)
(* because they can drift; the primitives are those of AccountReaders.     *)
(***************************************************************************)
EXTENDS AccountReaders

WebParcelConfigAccount ==
    << <<"owner", 32>>, <<"mintAuthority", 32>>, <<"cadastralStr", PREFIXED>>,
       <<"areaHa", 4>>, <<"landClass", 1>>, <<"kycVerified", 1>>, <<"kycMethod", 1>>,
       <<"lastCertEpoch", 8>>, <<"certCount", 2>>,
       <<"ndviSubmissionsThisSeason", 1>>, <<"dormantSeasons", 1>>,
       <<"egissSnapshotHash", 32>>, <<"riskFlag", 1>>, <<"registeredAt", 8>>,
       <<"bump", 1>> >>

WebEncumbranceAccountData ==
    << <<"parcelPda", 32>>, <<"lender", 32>>, <<"amount", 8>>,
       <<"notarySigHash", 32>>, <<"notaryCertHash", 32>>, <<"egissSnapshotHash", 32>>,
       <<"registeredAt", 8>>, <<"releasedAt", 8>>, <<"status", 1>>, <<"bump", 1>> >>

WebLienIndexData ==
    << <<"parcelPda", 32>>, <<"activeLienCount", 1>>, <<"totalLienCount", 2>>,
       <<"bump", 1>> >>

\* The same call as the SDK's, to the node of the build.
webGetAccountData(answered, pda) == getAccountData(answered, pda)

webFetchParcelConfigByPda(answered, pda) ==
    Decoded(WebParcelConfigAccount, webGetAccountData(answered, pda))

webFetchParcelConfig(answered, p) ==
    webFetchParcelConfigByPda(answered, getParcelPda(p))

webFetchEncumbrance(answered, parcel, lender) ==
    Decoded(WebEncumbranceAccountData,
            webGetAccountData(answered, getEncumbrancePda(parcel, lender)))

webFetchLienIndex(answered, parcel) ==
    Decoded(WebLienIndexData, webGetAccountData(answered, getLienIndexPda(parcel)))

webFetchAllParcels(answered) ==
    IF ~answered THEN {}
    ELSE Listed(WebParcelConfigAccount, Memcmp(TerraTokenAccounts, 0, "ParcelConfig"))

webFetchAllEncumbrances(answered) ==
    IF ~answered THEN {}
    ELSE Listed(WebEncumbranceAccountData,
                Memcmp(LienRegistryAccounts, 0, "EncumbranceAccount"))

webFetchEncumbrancesByParcel(answered, parcel) ==
    IF ~answered THEN {}
    ELSE Listed(WebEncumbranceAccountData,
                Memcmp(LienRegistryAccounts, ANCHOR_DISCRIMINATOR_SIZE, parcel))
=============================================================================
