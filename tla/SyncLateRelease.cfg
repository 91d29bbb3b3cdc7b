\* A release event processed after the next registration.
SPECIFICATION Spec
CONSTANTS
    Parcels = {p1}
    Wallets = {w1, w2}
    w1 = w1
    w2 = w2
    t1 = t1
    t2 = t2
    bank1 = bank1
    bank2 = bank2
    CadastralLen <- MCCadastralLen
    Surveys <- MCSurveys
    Assessments <- MCAssessments
    Amounts = {1}
    MAX_CADASTRAL_LEN = 20
    EPOCHS_PER_SEASON = 2
    MaxU8 = 1
    MaxU16 = 2
    MaxSlot = 1
    LenderNames = {bank1, bank2}
    Nil = nil
    Clients = {t1}
    WalletOf <- MCWalletOf
    NameOf <- MCOneLender
    DeeplinkTabs = {}
    Farmers = {w1}
    DirectWallets = {}
    MaxRows = 0
    Lossy = FALSE
PROPERTIES
    WebhookReleasesOnlyEnded
