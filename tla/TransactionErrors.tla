--------------------------- MODULE TransactionErrors ---------------------------
(***************************************************************************)
(* Why a program refuses an instruction, and what parseTransactionError    *)
(* (web/src/solana/transaction.ts) tells the user: a refusal arrives as    *)
(* the error's name, when the wallet passes the logs on, or only as a      *)
(* number, and the numbers of every Anchor program begin at 6000.          *)
(***************************************************************************)
EXTENDS ClientInstructions

None == "None"
ALREADY_IN_USE == "AlreadyInUse"    \* the system program's error 0

-----------------------------------------------------------------------------
(* Refusals, in the order the programs check *)

RegisterParcelError(p, survey) ==
    IF Registered(p) THEN ALREADY_IN_USE
    ELSE IF CadastralLen[p] > MAX_CADASTRAL_LEN THEN "CadastralTooLong"
    ELSE IF survey.area_ha = 0 THEN "InvalidArea"
    ELSE IF survey.land_class \notin 1 .. 8 THEN "InvalidLandClass"
    ELSE None

UpdateRiskAssessmentError(authority, p, a) ==
    IF ~Registered(p) THEN "AccountNotInitialized"
    ELSE IF parcel_config[p].mint_authority # authority THEN "UnauthorizedAuthority"
    ELSE IF a.ai_score > 100 THEN "InvalidAIScore"
    ELSE IF a.collateral_grade > 3 THEN "InvalidCollateralGrade"
    ELSE IF a.recommended_ltv > 10000 THEN "InvalidLTV"
    ELSE None

\* A counter at its limit panics, which is no error of the program's own.
RegisterEncumbranceError(lender, p, amount) ==
    IF <<p, lender>> \in DOMAIN encumbrance THEN ALREADY_IN_USE
    ELSE IF ~Registered(p) THEN "ConstraintOwner"
    ELSE IF amount = 0 THEN "InvalidAmount"
    ELSE IF ~parcel_config[p].kyc_verified THEN "ParcelNotVerified"
    ELSE IF ~NoActiveLien(p) THEN "ActiveLienExists"
    ELSE IF IndexOrZero(p).total_lien_count = MaxU16 THEN "ProgramFailedToComplete"
    ELSE None

ReleaseEncumbranceError(lender, p) ==
    IF <<p, lender>> \notin DOMAIN encumbrance THEN "AccountNotInitialized" ELSE None

TerraTokenErrors ==
    << "CadastralTooLong", "ParcelNotVerified", "TooEarlyForSeasonalCheck",
       "RiskFlagSet", "InvalidLandClass", "InvalidArea", "OwnerMismatch",
       "MintSpaceCalculation", "UnauthorizedAuthority", "InvalidAIScore",
       "InvalidCollateralGrade", "InvalidLTV" >>

LienRegistryErrors ==
    << "ActiveLienExists", "ParcelNotVerified", "UnauthorizedRelease",
       "EncumbranceNotActive", "InvalidAmount" >>

\* How a refusal reaches the page: with the logs, or with its number only.
\* Anchor's own errors and a panic have numbers no table here holds.  A panic has
\* no name in the logs either: the page shows the runtime's own message, cut off
\* after 200 characters, which "ProgramFailedToComplete" stands for.
Raised(program, error, logs) ==
    LET table == IF program = LIEN_REGISTRY_PROGRAM_ID THEN LienRegistryErrors
                                                       ELSE TerraTokenErrors
    IN  [ name |-> IF logs THEN error ELSE None,
          program |-> IF logs THEN program ELSE None,
          code |-> IF error = ALREADY_IN_USE THEN 0
                   ELSE IF \E i \in DOMAIN table : table[i] = error
                        THEN 5999 + CHOOSE i \in DOMAIN table : table[i] = error
                        ELSE 1 ]

-----------------------------------------------------------------------------
(* What the page says; a message is named by the error it describes *)

\* Mutant: the table begins one number late.
KnownCodesShifted == [code \in 6001 .. 6005 |-> LienRegistryErrors[code - 6000]]

knownCodes == [code \in 6000 .. 6004 |-> LienRegistryErrors[code - 5999]]

\* The system program's error has no Anchor name: whose account it was is read
\* off the logs.  A name found in them is explained, or shown as it is; a number
\* is looked up in the lien registry's table whichever program raised it.
parseTransactionError(raised) ==
    IF raised.code = 0
    THEN IF raised.program = LIEN_REGISTRY_PROGRAM_ID
         THEN "LienAlreadyRegistered" ELSE "AccountExists"
    ELSE IF raised.name # None THEN raised.name
    ELSE IF raised.code \in DOMAIN knownCodes THEN knownCodes[raised.code]
    ELSE "Unexplained"
=============================================================================
