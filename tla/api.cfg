SPECIFICATION ApiSpec
CONSTANTS
    Workers = {w1, w2}
    a1 = a1
    a2 = a2
    a3 = a3
    AuthorsOf <- MCAuthorsOf
    MaxPosts = 4
    Limit = 3
    PageSize = 2
    Attempts = 2
    Answers = {1, 2}
    MaxLookup = 2
    None = None
    Tokens = {environment, older, new1, new2}
    EnvTokens = {environment}
    LegacyTokens = {older}
    Limits = {1, 2}
    DefaultLimit = 1
    MaxUpdates = 3
    MaxCrashes = 2
    NoFile = NoFile
    Keys = {k1, k2, k3}
    Rates <- MCRates
    Minute = 2
    MaxEntries = 2
    MaxTime = 3
    MaxAsked = 4
INVARIANTS ApiTypesOK AsAnswered NewestFirst NothingSkipped EveryAuthorAsked BudgetKept
PROPERTIES Termination RefusedForCause
CHECK_DEADLOCK FALSE
