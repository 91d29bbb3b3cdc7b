\* One parcel: the keeper, one profile request, one background goroutine.
\* The keeper's check may land, which takes a build with allow-missing-optionals.
SPECIFICATION Spec
CONSTANTS
    Parcels = {p1}
    Wallets = {w1, w2}
    Relay = w1
    Farmers = {w1}
    CadastralLen <- MCCadastralLen
    Surveys <- MCSurveys
    LandClass <- MCLandClass
    Assessments = {}
    MAX_CADASTRAL_LEN = 20
    EPOCHS_PER_SEASON = 1
    MaxU8 = 1
    MaxU16 = 1
    MaxSlot = 2
    LIMIT = 2
    MissingOptionals = TRUE
    Readings <- MCDry
    ModelAnswers <- MCWild
    MaxLiens = 0
    Faulty = FALSE
    Requests = {r1}
    Workers = {g1}
    None = none
INVARIANTS
    TypeOK
    AuditTrail
