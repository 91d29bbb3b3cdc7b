\* A lien on a parcel whose risk flag is up.
SPECIFICATION Spec
CONSTANTS
    Parcels = {p1}
    Wallets = {w1, w2}
    CadastralLen <- MCCadastralLen
    Surveys <- MCSurveys
    Assessments <- MCFewAssessments
    Amounts = {1}
    MAX_CADASTRAL_LEN = 20
    EPOCHS_PER_SEASON = 2
    MaxU8 = 3
    MaxU16 = 4
    LongParcel = p0
    MaxSlot = 6
PROPERTY
    FlaggedParcelNotPledged
