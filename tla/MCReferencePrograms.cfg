SPECIFICATION ProgramsSpec
CONSTANTS
    Letters <- MCLetters
    Spelling <- MCSpelling
    Zipf <- MCZipf
    Variants <- MCVariants
    Edge <- MCEdge
    Seen <- MCSeen
    Ln <- MCLn
    Requests <- MCRequests
    PairGrammar <- MCPairGrammar
    StartScore <- MCStartScore
    EndScore <- MCEndScore
    Normalize <- MCNormalize
    Structure <- MCStructure
    QualityCore = 2
    PoolExtra = 4
    MaxPool = 8
    Strength = 12
    Recognized = {1, 2, 4}
    FamilyWord <- MCFamilyWord
    NormalizePotential <- MCNormalize
    Collocation <- MCCollocation
    Phrase <- MCPhrase
    PhraseCount <- MCPhraseCount
    Arrivals <- MCArrivals
    Settings <- MCSettings
    Dumps <- MCDumps
    MinWords = 2
    MaxWords = 4
    MaxNgram = 3
    FlushUnique = 3
    CacheLimit = 4
    Frequency10 <- MCFrequency10
    MaxBuilds = 2
    Orders <- MCOrders
    Callers = {c1, c2}
    Workers = {w1, w2}
    Nobody = nobody
    DefaultWidth = 3
    MainWidth = 5
    RawWidth <- MCRawWidth
    MaxCalls = 4
    TextLetters <- MCTextLetters
    Blank = {"", " "}
    Absent = "absent"
    DefaultSuites = {"ordering", "phrase_ordering", "normal_user_cli", "full", "performance", "refinement", "feature_ranker"}
    DefaultMaxWords = 6
    Registries <- MCRegistries
    NewCases <- MCNewCases
    MaxEdits = 4
    Cases <- MCCases
    Malformed <- MCMalformed
    Gate <- MCGate
    PhraseEvidence <- MCEvidence
    Bonuses = {0, 10}
    RetainedOrders = 4
    Refinements <- MCRefinements
    RefinedLengths = {4, 5}
    ExactWords = 4
    Folds = 3
    FoldOf <- MCFoldOf
    ModelScore <- MCModelScore
    Texts <- MCTexts
    Class <- MCClass
    Features <- MCFeatures
    Frames <- MCFrames
    Bases <- MCBases
    Subordinators = {"before"}
    ComparativeWords = {"more", "less", "better"}
    IrregularWords = {"further"}
    FiniteBe = {"is", "are"}
    Mismatched <- MCMismatched
    Power <- MCPower
INVARIANTS
    AnswersObeyTheRequest
    TruncationIsTheTruth
    OrdersAreBest
    KBestKeepsTheBest
    RetainedOrdersAreDiverse
    RankingIsCanonical
    CompletedBuildsCount
    EvidenceIsTheBest
    FacadeLeavesNoTrace
    CallersDoNotMeet
    SuitesStayRunnable
    MeasurementsAgree
    RefinementOnlyAdds
    HeldOutBagsAreUnseen
    ChainsAreLicensed
    ClausesHaveSubjects
PROPERTIES
    EvidenceNeverLowers
CHECK_DEADLOCK FALSE
