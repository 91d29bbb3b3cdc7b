----------------------------- MODULE ClientLedger ------------------------------
(***************************************************************************)
(* The ledger as its clients use it: visitors who send the instructions of *)
(* the SDK or of the web application, the seeding script, run again and    *)
(* again, and anyone reading the accounts back.                            *)
(***************************************************************************)
EXTENDS SeedScript

CONSTANTS
    Visitors,   \* wallets other than the script's
    Contested   \* the parcels they send instructions about

\* Keypair.generate(): nobody else has a key that the script has generated.
ASSUME ClientLedgerAssumption ==
    /\ Visitors \subseteq Wallets
    /\ \A r \in DOMAIN LenderKeys : LenderKeys[r] \notin Visitors
    /\ Contested \subseteq Parcels

clientVars == <<slot, parcel_config, event, encumbrance, lien_index, script>>

ClientInit == TokenInit /\ LienInit /\ SeedInit

\* A visitor may name anyone in an instruction, but signs with one key only.
Sends(w, ix) == Process(ix, {w}) /\ UNCHANGED script

VisitorStep ==
    \E w \in Visitors, owner \in Wallets, p \in Contested :
        LET parcel == getParcelPda(p) IN
        \/ \E survey \in Surveys :
               Sends(w, webBuildRegisterParcel(owner, p, survey))
        \/ Sends(w, webBuildSeasonalCheck(owner, p))
        \/ \E a \in Assessments :
               Sends(w, buildUpdateRiskAssessmentInstruction(parcel, owner, p, a))
        \/ \E amount \in Amounts :
               \/ Sends(w, buildRegisterEncumbranceInstruction(owner, parcel, p, amount))
               \/ Sends(w, serializeTransactionB58(
                              webBuildRegisterEncumbrance(owner, parcel, p, amount)))
        \/ Sends(w, buildReleaseEncumbranceInstruction(owner, parcel))

ClientNext ==
    \/ VisitorStep
    \/ SeedStep
    \/ Tick /\ UNCHANGED <<encumbrance, lien_index, script>>

ClientSpec == ClientInit /\ [][ClientNext]_clientVars

-----------------------------------------------------------------------------
(* The script *)

\* A run that logged no [ERR] leaves what it announces, whatever earlier runs
\* and other wallets did: every parcel the farmer's and certified, the first
\* pledged to the lender of this run.  A parcel skipped as registered by
\* someone else shows up as an error of its certificates.
CleanRunSeeds ==
    script.pc = "done" /\ ~script.errs =>
        /\ \A i \in DOMAIN PARCELS :
             /\ Registered(PARCELS[i])
             /\ parcel_config[PARCELS[i]].owner = Farmer
             /\ parcel_config[PARCELS[i]].cert_count >= Certificates[i]
        /\ OpenLiens(PARCELS[1]) = {Lender}

\* The key that could release a seeded lien is gone with its process: once
\* there, the lien stays, no later run or visitor gets the parcel free, and no
\* later run is clean.
LostKeyLocksParcel ==
    [][\A r \in DOMAIN LenderKeys :
         LenderKeys[r] \in OpenLiens(PARCELS[1]) =>
             OpenLiens(PARCELS[1])' = {LenderKeys[r]}]_clientVars

-----------------------------------------------------------------------------
(* Readers *)

ReadsParcel(read, p) ==
    IF Registered(p)
    THEN LET c == parcel_config[p] IN
         /\ read.owner = c.owner /\ read.mintAuthority = c.mint_authority
         /\ read.cadastralStr = p /\ read.kycVerified = c.kyc_verified
         /\ read.lastCertEpoch = c.last_cert_epoch /\ read.certCount = c.cert_count
         /\ read.ndviSubmissionsThisSeason = c.ndvi_submissions_this_season
         /\ read.dormantSeasons = c.dormant_seasons
         /\ read.riskFlag = c.risk_flag /\ read.registeredAt = c.registered_at
    ELSE read = Null

ReadsLien(read, p, l) ==
    IF <<p, l>> \in DOMAIN encumbrance
    THEN /\ read.parcelPda = getParcelPda(p) /\ read.lender = l
         /\ read.amount = encumbrance[<<p, l>>].amount
         /\ read.status = STATUS_ACTIVE
    ELSE read = Null

\* What the two hand-written decoders return is what the programs stored, and
\* `null` is returned for an account that does not exist and for no other.
ReadersSeeTheLedger ==
    \A p \in Parcels :
        LET parcel == getParcelPda(p) IN
        /\ ReadsParcel(fetchParcelConfig(TRUE, p), p)
        /\ ReadsParcel(webFetchParcelConfig(TRUE, p), p)
        /\ \A l \in Wallets :
             /\ ReadsLien(fetchEncumbrance(TRUE, parcel, l), p, l)
             /\ ReadsLien(webFetchEncumbrance(TRUE, parcel, l), p, l)
             /\ accountExists(TRUE, getEncumbrancePda(parcel, l)) =
                    Active(p, l)

\* The two ways of asking whether a parcel is free agree: as many encumbrances
\* are listed for it as its index counts, although closed accounts leave the
\* list and not the index.
ListedAsIndexed ==
    \A p \in Parcels :
        LET parcel == getParcelPda(p)
            Agree(list, index) ==
                Cardinality({e \in list : e.parcelPda = parcel})
                  = IF index = Null THEN 0 ELSE index.activeLienCount
        IN  /\ Agree(fetchAllEncumbrances(TRUE), fetchLienIndex(TRUE, parcel))
            /\ Agree(webFetchAllEncumbrances(TRUE), webFetchLienIndex(TRUE, parcel))

\* fetchEncumbrancesByParcel is of use only before a parcel's first lien: it
\* also gets the index, which is kept for ever and is too short to decode.
ByParcelOnlyBeforeFirstLien ==
    \A p \in Parcels :
        LET parcel == getParcelPda(p)
            Expected == IF p \in DOMAIN lien_index THEN Thrown ELSE {}
        IN  /\ fetchEncumbrancesByParcel(TRUE, parcel) = Expected
            /\ webFetchEncumbrancesByParcel(TRUE, parcel) = Expected

-----------------------------------------------------------------------------
(* Builders and refusals *)

Tells(message, error) ==
    \/ message = error
    \/ error = ALREADY_IN_USE /\ message \in {"LienAlreadyRegistered", "AccountExists"}

\* With the logs the page shows the error the program raised.
Told(ix, error) ==
    error # None =>
        Tells(parseTransactionError(Raised(ix.program, error, TRUE)), error)

\* And the program raises one exactly when one of its conditions fails.
Explained(ix, error, allowed) ==
    /\ error = None <=> allowed
    /\ Told(ix, error)

\* Without the logs, too, where the lien registry numbered it.
Numbered(ix, error) ==
    \A i \in DOMAIN LienRegistryErrors :
        error = LienRegistryErrors[i] =>
            parseTransactionError(Raised(ix.program, error, FALSE)) = error

\* The reason the page gives for a refusal is the one the program had, and the
\* program has one exactly when its conditions fail: no lien that is open is
\* refused its release, no counter has run past its limit.  Not in this: which of
\* the two texts number 0 gets, which depends on words in the logs, the errors of
\* mint_certificate and seasonal_check, and the wording of a panic's message.
RefusalsExplained ==
    \A w \in Visitors, p \in Parcels :
        LET parcel == getParcelPda(p) IN
        /\ \A survey \in Surveys :
             Explained(webBuildRegisterParcel(w, p, survey),
                       RegisterParcelError(p, survey),
                       ~Registered(p) /\ ValidRegistration(p, survey))
        /\ \A a \in Assessments :
             Explained(buildUpdateRiskAssessmentInstruction(parcel, w, p, a),
                       UpdateRiskAssessmentError(w, p, a),
                       /\ Registered(p)
                       /\ parcel_config[p].mint_authority = w
                       /\ ValidAssessment(a))
        /\ \A amount \in Amounts :
             LET error == RegisterEncumbranceError(w, p, amount) IN
             \A ix \in {buildRegisterEncumbranceInstruction(w, parcel, p, amount),
                        webBuildRegisterEncumbrance(w, parcel, p, amount)} :
                 /\ Explained(ix, error, RegisterAllowed(w, p, amount))
                 /\ Numbered(ix, error)
        /\ \A ix \in {buildReleaseEncumbranceInstruction(w, parcel),
                      webBuildReleaseEncumbrance(w, parcel)} :
             Explained(ix, ReleaseEncumbranceError(w, p), ReleaseAllowed(w, p))

\* What a builder makes is carried out exactly when the program has no reason to
\* refuse it: no account, signature or argument is out of place, in either copy.
\* Two builders are the exception.  mint_certificate's leaves out six accounts
\* and is never carried out.  seasonal_check's leaves out an optional account: it
\* is refused in a build without MissingOptionals, the repository's among them,
\* and otherwise carried out once a season has passed.
DoneUnlessRefused ==
    \A w \in Visitors, p \in Parcels :
        LET parcel == getParcelPda(p)
            Done(ix, allowed) == ENABLED Process(ix, {w}) <=> allowed
        IN  /\ \A survey \in Surveys :
                 \A ix \in {buildRegisterParcelInstruction(w, p, survey),
                            webBuildRegisterParcel(w, p, survey)} :
                     Done(ix, RegisterParcelError(p, survey) = None)
            /\ \A a \in Assessments :
                 Done(buildUpdateRiskAssessmentInstruction(parcel, w, p, a),
                      UpdateRiskAssessmentError(w, p, a) = None)
            /\ \A amount \in Amounts :
                 \A ix \in {buildRegisterEncumbranceInstruction(w, parcel, p, amount),
                            webBuildRegisterEncumbrance(w, parcel, p, amount)} :
                     Done(ix, RegisterEncumbranceError(w, p, amount) = None)
            /\ \A ix \in {buildReleaseEncumbranceInstruction(w, parcel),
                          webBuildReleaseEncumbrance(w, parcel)} :
                 Done(ix, ReleaseEncumbranceError(w, p) = None)
            /\ \A ix \in {buildMintCertificateInstruction(w, p),
                          webBuildMintCertificate(w, p)} :
                 Done(ix, FALSE)
            /\ \A ix \in {buildSeasonalCheckInstruction(w, p),
                          webBuildSeasonalCheck(w, p)} :
                 Done(ix, MissingOptionals /\ Registered(p) /\ SeasonOver(p))
=============================================================================
