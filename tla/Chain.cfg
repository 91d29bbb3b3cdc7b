\* One parcel through certificates, checks, assessments and liens, over seasons.
SPECIFICATION Spec
CONSTANTS
    Parcels = {p0, p1}
    Wallets = {w1, w2}
    CadastralLen <- MCCadastralLen
    Surveys <- MCSurveys
    Assessments <- MCAssessments
    Amounts = {0, 1}
    MAX_CADASTRAL_LEN = 20
    EPOCHS_PER_SEASON = 2
    MaxU8 = 3
    MaxU16 = 4
    LongParcel = p0
    MaxSlot = 5
INVARIANTS
    TypeOK
    FlagFollowsScore
    NoDoublePledge
    IndexCountsEncumbrances
    FreeParcelCanBePledged
PROPERTIES
    PledgeLockImplemented
    HistoryKept
    TransferGuardMoves
