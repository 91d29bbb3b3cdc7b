\* Two parcels, a node that answers wrongly, inserts that fail.
\* The check may land or be refused: the build that refuses every check is included.
SPECIFICATION FairSpec
CONSTANTS
    Parcels = {p1, p2}
    Wallets = {w1, w2}
    Relay = w1
    Farmers = {w1}
    CadastralLen <- MCCadastralLen
    Surveys <- MCSurveys
    LandClass <- MCLandClass
    Assessments = {}
    MAX_CADASTRAL_LEN = 20
    EPOCHS_PER_SEASON = 2
    MaxU8 = 1
    MaxU16 = 1
    MaxSlot = 1
    LIMIT = 2
    MissingOptionals = TRUE
    Readings <- MCNoReadings
    ModelAnswers <- MCNoAnswers
    MaxLiens = 0
    Faulty = TRUE
    Requests = {}
    Workers = {}
    None = none
PROPERTY
    KeeperReaches
