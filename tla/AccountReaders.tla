---------------------------- MODULE AccountReaders -----------------------------
(***************************************************************************)
(* The accounts of the two programs as bytes, and the functions of the SDK *)
(* (sdk/src/accounts.ts) and of the web application's copy of it           *)
(* (web/src/solana/accounts.ts) that read them back by hand, at offsets    *)
(* they compute themselves.                                                *)
(*                                                                         *)
(* Bytes are kept as the cells Borsh writes, <<value, width>>, laid out    *)
(* one after the other: reading finds a value only when offset and width   *)
(* are those of one cell.  Fields the ledger's model leaves out are cells  *)
(* that hold their own name.                                               *)
(***************************************************************************)
EXTENDS TerraLedger, Sequences

CONSTANTS
    Null,       \* the answer that there is no such account
    Garbled,    \* what is read where no cell begins, or one of another width
    Thrown      \* a call that ends in an exception

-----------------------------------------------------------------------------
(* Addresses *)

getParcelPda(p) == <<"parcel", p>>
getEncumbrancePda(parcel, lender) == <<"encumbrance", parcel, lender>>
getLienIndexPda(parcel) == <<"lien_index", parcel>>

-----------------------------------------------------------------------------
(* The accounts as the programs write them *)

Bytes(cells) ==
    LET end[i \in 0 .. Len(cells)] == IF i = 0 THEN 0 ELSE end[i - 1] + cells[i][2]
    IN  [size  |-> end[Len(cells)],
         cells |-> {<<end[i - 1], cells[i]>> : i \in DOMAIN cells}]

ParcelConfigCells(p) ==
    LET c == parcel_config[p] IN
    << <<"ParcelConfig", 8>>, <<c.owner, 32>>, <<c.mint_authority, 32>>,
       <<CadastralLen[p], 4>>, <<p, CadastralLen[p]>>, <<"area_ha", 4>>,
       <<"land_class", 1>>, <<c.kyc_verified, 1>>, <<"kyc_method", 1>>,
       <<c.last_cert_epoch, 8>>, <<c.cert_count, 2>>,
       <<c.ndvi_submissions_this_season, 1>>, <<c.dormant_seasons, 1>>,
       <<"egiss_snapshot_hash", 32>>, <<c.risk_flag, 1>>, <<c.registered_at, 8>>,
       <<"bump", 1>>, <<c.ai_score, 1>>, <<c.collateral_grade, 1>>,
       <<c.recommended_ltv, 2>> >>

EncumbranceCells(p, lender) ==
    LET e == encumbrance[<<p, lender>>] IN
    << <<"EncumbranceAccount", 8>>, <<getParcelPda(p), 32>>, <<e.lender, 32>>,
       <<e.amount, 8>>, <<"notary_sig_hash", 32>>, <<"notary_cert_hash", 32>>,
       <<"egiss_snapshot_hash", 32>>, <<"registered_at", 8>>, <<"released_at", 8>>,
       <<e.status, 1>>, <<"bump", 1>> >>

LienIndexCells(p) ==
    LET i == lien_index[p] IN
    << <<"LienIndex", 8>>, <<getParcelPda(p), 32>>, <<i.active_lien_count, 1>>,
       <<i.total_lien_count, 2>>, <<"bump", 1>> >>

\* The discriminators, and the fields that hold their own name.
FieldNames ==
    { "ParcelConfig", "EncumbranceAccount", "LienIndex", "area_ha", "land_class",
      "kyc_method", "egiss_snapshot_hash", "notary_sig_hash", "notary_cert_hash",
      "registered_at", "released_at", "bump" }

\* What the cells hold, and the accounts as the node sends them.
Values ==
    FieldNames \cup Wallets \cup Parcels \cup Nat \cup BOOLEAN
      \cup {getParcelPda(p) : p \in Parcels}

AccountData == [size : Nat, cells : SUBSET (Nat \X (Values \X Nat))]

-----------------------------------------------------------------------------
(* The RPC node: it knows every account by its address and its program, and *)
(* may answer any call with an error instead (answered = FALSE).            *)

TerraTokenAccounts == {getParcelPda(p) : p \in DOMAIN parcel_config}

LienRegistryAccounts ==
    {getEncumbrancePda(getParcelPda(e[1]), e[2]) : e \in DOMAIN encumbrance}
      \cup {getLienIndexPda(getParcelPda(p)) : p \in DOMAIN lien_index}

AccountBytes(pda) ==
    CASE pda[1] = "parcel"      -> Bytes(ParcelConfigCells(pda[2]))
      [] pda[1] = "encumbrance" -> Bytes(EncumbranceCells(pda[2][2], pda[3]))
      [] pda[1] = "lien_index"  -> Bytes(LienIndexCells(pda[2][2]))

\* The memcmp filter of getProgramAccounts.
Memcmp(accounts, offset, value) ==
    {pda \in accounts : \E cell \in AccountBytes(pda).cells :
                           cell[1] = offset /\ cell[2][1] = value}

-----------------------------------------------------------------------------
(* Reading fields *)

ANCHOR_DISCRIMINATOR_SIZE == 8
PREFIXED == 0     \* the width of a string is in the four bytes before it

\* The value of the cell of that width that begins there, if there is one.
CellAt(data, offset, width, otherwise) ==
    LET values == {cell[2][1] : cell \in {c \in data.cells : c[1] = offset
                                                            /\ c[2][2] = width}}
    IN  IF values = {} THEN otherwise ELSE CHOOSE v \in values : TRUE

\* Mutant: data that ends too early is read all the same.
ReadBeyond(data, offset, width) == CellAt(data, offset, width, Garbled)

\* An address or a longer number that would end beyond the data is an exception, a
\* byte there is not.  readBytes and readString cut off in silence, but in every
\* layout that has one a number follows, which is an exception then.
ReadAt(data, offset, width) ==
    CellAt(data, offset, width,
           IF width > 1 /\ offset + width > data.size THEN Thrown ELSE Garbled)

\* A string is preceded by its length, and takes it with it.
ReadString(data, offset) == ReadAt(data, offset + 4, ReadAt(data, offset, 4))

\* Each field in its turn, from the end of the one before it; an exception in
\* one field is the call's.
Deserialize(fields, data) ==
    LET off[i \in DOMAIN fields] ==
            IF i = 1 THEN ANCHOR_DISCRIMINATOR_SIZE
            ELSE LET from == off[i - 1] IN
                 from + (IF fields[i - 1][2] = PREFIXED
                         THEN 4 + ReadAt(data, from, 4) ELSE fields[i - 1][2])
        Read(i) == IF fields[i][2] = PREFIXED THEN ReadString(data, off[i])
                                              ELSE ReadAt(data, off[i], fields[i][2])
        account == [f \in {fields[i][1] : i \in DOMAIN fields} |->
                       Read(CHOOSE i \in DOMAIN fields : fields[i][1] = f)]
    IN  IF \E f \in DOMAIN account : account[f] = Thrown THEN Thrown ELSE account

\* Mutant: two counters of a byte change places.
ParcelConfigSwapped ==
    << <<"owner", 32>>, <<"mintAuthority", 32>>, <<"cadastralStr", PREFIXED>>,
       <<"areaHa", 4>>, <<"landClass", 1>>, <<"kycVerified", 1>>, <<"kycMethod", 1>>,
       <<"lastCertEpoch", 8>>, <<"certCount", 2>>, <<"dormantSeasons", 1>>,
       <<"ndviSubmissionsThisSeason", 1>>, <<"egissSnapshotHash", 32>>,
       <<"riskFlag", 1>>, <<"registeredAt", 8>>, <<"bump", 1>> >>

\* The score, the grade and the ratio, which follow the bump, are not read.
ParcelConfigAccount ==
    << <<"owner", 32>>, <<"mintAuthority", 32>>, <<"cadastralStr", PREFIXED>>,
       <<"areaHa", 4>>, <<"landClass", 1>>, <<"kycVerified", 1>>, <<"kycMethod", 1>>,
       <<"lastCertEpoch", 8>>, <<"certCount", 2>>,
       <<"ndviSubmissionsThisSeason", 1>>, <<"dormantSeasons", 1>>,
       <<"egissSnapshotHash", 32>>, <<"riskFlag", 1>>, <<"registeredAt", 8>>,
       <<"bump", 1>> >>

EncumbranceAccountData ==
    << <<"parcelPda", 32>>, <<"lender", 32>>, <<"amount", 8>>,
       <<"notarySigHash", 32>>, <<"notaryCertHash", 32>>, <<"egissSnapshotHash", 32>>,
       <<"registeredAt", 8>>, <<"releasedAt", 8>>, <<"status", 1>>, <<"bump", 1>> >>

LienIndexData ==
    << <<"parcelPda", 32>>, <<"activeLienCount", 1>>, <<"totalLienCount", 2>>,
       <<"bump", 1>> >>

\* What a layout's accounts are decoded to.
Decodings(fields) == [{fields[i][1] : i \in DOMAIN fields} -> Values]

\* The answers that are no account are told from accounts, their fields and what
\* they are decoded to.
ASSUME AccountReadersAssumption ==
    /\ Null \notin AccountData \cup Decodings(LienIndexData)
    /\ Thrown \notin AccountData \cup Decodings(EncumbranceAccountData) \cup Values

-----------------------------------------------------------------------------
(* The SDK's functions *)

getAccountData(answered, pda) ==
    IF ~answered THEN Thrown
    ELSE IF pda \in TerraTokenAccounts \cup LienRegistryAccounts
         THEN AccountBytes(pda) ELSE Null

Decoded(fields, data) ==
    IF data \in {Null, Thrown} THEN data ELSE Deserialize(fields, data)

fetchParcelConfigByPda(answered, pda) ==
    Decoded(ParcelConfigAccount, getAccountData(answered, pda))

fetchParcelConfig(answered, p) == fetchParcelConfigByPda(answered, getParcelPda(p))

fetchEncumbrance(answered, parcel, lender) ==
    Decoded(EncumbranceAccountData,
            getAccountData(answered, getEncumbrancePda(parcel, lender)))

fetchLienIndex(answered, parcel) ==
    Decoded(LienIndexData, getAccountData(answered, getLienIndexPda(parcel)))

accountExists(answered, pda) ==
    IF answered THEN pda \in TerraTokenAccounts \cup LienRegistryAccounts ELSE Thrown

\* A list with one undecodable entry is an exception.
Listed(fields, pdas) ==
    LET entries == {Deserialize(fields, AccountBytes(pda)) : pda \in pdas}
    IN  IF Thrown \in entries THEN Thrown ELSE entries

\* An error that the node answers with reads as an empty list.  A call without any
\* answer is an exception, which is not modelled for the lists.
fetchAllParcels(answered) ==
    IF ~answered THEN {}
    ELSE Listed(ParcelConfigAccount, Memcmp(TerraTokenAccounts, 0, "ParcelConfig"))

fetchAllEncumbrances(answered) ==
    IF ~answered THEN {}
    ELSE Listed(EncumbranceAccountData,
                Memcmp(LienRegistryAccounts, 0, "EncumbranceAccount"))

\* The filter is on the parcel only, which a LienIndex holds at the same place.
fetchEncumbrancesByParcel(answered, parcel) ==
    IF ~answered THEN {}
    ELSE Listed(EncumbranceAccountData,
                Memcmp(LienRegistryAccounts, ANCHOR_DISCRIMINATOR_SIZE, parcel))
=============================================================================
