\* Checks of one parcel by any wallet, repeated within a season.
SPECIFICATION Spec
CONSTANTS
    Parcels = {p1}
    Wallets = {w1, w2}
    CadastralLen <- MCCadastralLen
    Surveys <- MCSurveys
    Assessments <- MCFewAssessments
    Amounts = {1}
    MAX_CADASTRAL_LEN = 20
    EPOCHS_PER_SEASON = 2
    MaxU8 = 3
    MaxU16 = 4
    LongParcel = p0
    MaxSlot = 6
INVARIANT
    DormantSeasonsPassed
