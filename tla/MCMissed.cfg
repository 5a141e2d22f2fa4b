INIT EdgesInit
NEXT EdgesNext
CONSTANTS
    Parts = {"logs"}
    Applications = {"web", "api"}
    NameClaims = {"email", "sub"}
    NameOf <- MCNameOf
    DomainOf <- MCDomainOf
    Groups = {"ops", "dev"}
    RuleChoices <- MCRules
    TokenChoices <- MCTokens
    TokenValues = {"t1", "t2"}
    Codes = {"c1"}
    SignIns = {"a1", "a2"}
    Requests = {"r1", "r2"}
    ProviderKeys = {"k1", "k2"}
    Templated = TRUE
    Tenants = {"T1", "T2"}
    IDTokens <- MCIDTokens
    MaxAge = 1
    CacheFor = 2
    RefetchEvery = 1
    NonceKeptFor = 3
    CodeLife = 2
    SessionLifetime = 2
    SessionsKeptFor = 1
    MaxRules = 3
    FailedLimit = 2
    FailedWindow = 1
    Budgets <- MCAccessBudgets
    Refresh = 2
    Wait = 1
    Keep = 4
    Dial = 1
    Rest = 5
    ForgottenRest = 1
    RestAttempts = 3
    LastTick = 5
    AddressBudgets <- MCAddressBudgets
    MaxId = 1
    MaxLives = 2
    MaxLines = 2
    TrafficBudgets <- MCTrafficBudgets
    QueueSize = 2
    Retries = 2
    MaxEvents = 3
    Entries = 3
    Afters <- MCAfters
    Selections <- MCSelections
    Limits = {1, 2}
    MaxPollFailures = 2
    ManyBudgets = {2}
    OwnTag = "own"
    OtherTags = {"t1", "t2"}
    Stocks <- MCStocks
    Built <- MCBuilt
    Archives <- MCArchives
    SendBudgets = {2}
    Replicas = {1, 2}
    TailLines = 1
    Buffer = 1
    FollowRetries = 1
    MaxTime = 3
    FollowBudgets <- MCFollowBudgets
    Releases <- MCReleases
    Dev <- MCDev
    FirstSigned <- MCFirst
    Settings <- MCSettings
    ImageArchives <- MCImageArchives
    Own <- MCOwn
    ManifestConfig <- MCManifestConfig
    ManifestLayers <- MCManifestLayers
    DiffIDs <- MCDiffIDs
    Blocks = 2
    Commands = {c1}
    Overlap = FALSE
    ReleaseBudgets <- MCReleaseBudgets
    Hosts = {"h"}
    Names = {"h", "default"}
    Hostnames = {"a", "b"}
    Typed = {"t"}
    RootToken <- MCRoot
    Terminals = {t1}
    Overlapping = FALSE
    ServerBudgets <- MCServerBudgets
INVARIANTS NothingMissed
CHECK_DEADLOCK FALSE
