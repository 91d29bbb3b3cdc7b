\* Two runs of the seeding script beside one other wallet.  It stops when the
\* runs are used up and the visitor has nothing left that is accepted.
\* The repository's build has MissingOptionals = FALSE and refuses the visitor's
\* seasonal check; with TRUE it is carried out, and nothing else changes.
SPECIFICATION ClientSpec
CHECK_DEADLOCK FALSE
CONSTANTS
    p1 = p1
    p2 = p2
    pLong = pLong
    farmer = farmer
    visitor = visitor
    key1 = key1
    key2 = key2
    Parcels = {p1, p2, pLong}
    Wallets = {farmer, visitor, key1, key2}
    Farmer = farmer
    Visitors = {visitor}
    Contested = {p1, pLong}
    LenderKeys <- MCLenderKeys
    PARCELS <- MCPARCELS
    Certificates <- MCCertificates
    AREA <- MCAREA
    CadastralLen <- MCCadastralLen
    Surveys <- MCSurveys
    Assessments <- MCAssessments
    Amounts = {0, 1}
    MAX_CADASTRAL_LEN = 20
    EPOCHS_PER_SEASON = 1
    MaxU8 = 2
    MaxU16 = 2
    MaxSlot = 2
    MissingOptionals = TRUE
    Null = Null
    Garbled = Garbled
    Thrown = Thrown
VIEW MCLedgerView
INVARIANTS
    CleanRunSeeds
    ReadersSeeTheLedger
    ListedAsIndexed
    ByParcelOnlyBeforeFirstLien
    RefusalsExplained
    DoneUnlessRefused
PROPERTIES
    LostKeyLocksParcel
