\* Each scene (MCScenes) is a behaviour of its own: the wizard alone on each path,
\* the pages that meet in the consent tables two at a time, the page of a parcel.
SPECIFICATION WebSpec
CONSTANTS
    p1 = p1
    p2 = p2
    farmer = farmer
    other = other
    bank = bank
    APP = APP
    DEMO_WALLET = DEMO_WALLET
    ESTIMATED = ESTIMATED
    None = None
    Parcels = {p1, p2}
    Wallets = {farmer, other}
    Lenders = {APP, bank}
    SeededRows <- MCSeededRows
    LOG_LIMIT = 2
    MAX_RETRIES = 1
    Scenes <- MCScenes
INVARIANTS
    EveryReadAppears
    MaskedUnlessReadFailed
    DashboardTells
    AssessmentCoherent
    CleanBadge
    DetailCoherent
PROPERTIES
    WaitsEnd
CHECK_DEADLOCK FALSE
