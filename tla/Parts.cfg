CONSTANTS
    turn = turn
    turn2 = turn2
    m1 = m1
    m2 = m2
    Turns <- TwoTurns
    MaxFocuses = 3
    MaxIntentions = 1
    MaxOps = 3
    MaxCrashes = 1
    Inputs <- SomeInputs
    Settings <- SomeSettings
    MaxBuilds = 3
    Memories <- FourMemories
    FactsOf <- TheFacts
    Surfaces <- TheSurfaces
    SurfaceLimit = 3
    SparseRoutes <- TheSparse
    GraphRoutes <- TheGraph
    PoolLimit = 3
    TopN = 3
    SelectedLimit = 2
    BaseChoices <- TheBase
    RerankScores <- TheScores
    MinimumScore = 1
    RelativeFloor = 60
    Modes <- TheModes
    MaxRecalls = 1
    MaxDeprecations = 1
    TurnChars = {1, 4, 12}
    SystemChars = {2, 6}
    SummaryChars = {1}
    Reported = {0, 2, 4, 26}
    Usable = {2, 4}
    FallbackRatio = 4
    Recent = 2
    Trigger = 6
    Limit = 8
    Window = 8
    SummaryTokens = 2
    VerbatimTokens = 4
    SafetyTokens = 1
    MaxUnits = 4
    Rows <- FourNumbersTwoTwins
    BatchLimit = 3
    Ids <- SomeIds
    MaxAttempts = 2
    Indexed <- TwoIndexed
    MaxIndexOps = 3
    MaxIndexCrashes = 1
    s1 = s1
    s2 = s2
    Savers <- TwoSavers
    Preferences <- TwoPreferences
    GoodValues = {"it", "en"}
    BadValues = {"xx"}
    DefaultValue = "it"
    MaxSaves = 3
    MaxSaveCrashes = 1
    MaxReviewTurns = 3
    MaxReviews = 1
    p1 = p1
    p2 = p2
    Legacy <- TwoLegacy
    LegacyRows <- AnyRows
    WrittenMemory = written
    Contents = {"x", "y"}
    MaxRepairs = 2
    MaxRepairCrashes = 1
SPECIFICATION PartsSpec
SYMMETRY PartsSymmetry
INVARIANTS OrgansAgree  RecallIsJudged PlanIsRight ReducerIsExact
      PreferencesSound ReviewIsWhole RepairIsReviewed
PROPERTIES FocusSteps BudgetSteps ComputesReduce OnlyNamedChange
CHECK_DEADLOCK FALSE
