SPECIFICATION CampaignSpec
CONSTANTS
    Argvs <- GoodArgvs
    Follow = {"queue", "die", "libfuzzer", "nezha"}
    \* AflDet
    SeedLens = {1, 2, 5}
    Checksums = {0, 1, 2}
    Original = 0
    MinAutoExtra = 2
    MaxAutoExtra = 3
    BlockSize = 2
    EffMaxPerc = 70
    EffMinLen = 2
    \* AflDict
    Offered <- MCOffered
    Builtin <- MCBuiltin
    UserDicts <- MCUserDicts
    Lower <- MCLower
    FuzzedSeed <- MCFuzzedSeed
    EffPositions = {1, 2, 4}
    MaxAutoExtras = 4
    UseAutoExtras = 2
    MaxDetExtras = 2
    MaxFileLen = 7
    MaxHits = 1
    \* AflPrune
    Originals <- MCOriginals
    ArithMax = 35
    Interesting8 <- MCInteresting8
    Interesting16Only <- MCInteresting16Only
    \* Mutator
    SourceLens = {1, 4, 8}
    TargetLens = {3, 8}
    HavocBlk <- MCHavocBlk
    MaxFile = 8
    ExtraLens = {2}
    AExtraLens = {}
    HavocStackPow2 = 1
    StageMax = 2
    PerfLimit = 2
    SpliceCycles = 2
    \* Walker
    Weights <- MCWeights
    \* ExecInput
    Seeds = {1, 2}
    SeedLists <- SomeSeedLists
    OldFinds <- MCOldFinds
    SeedLen = 2
    FindLens = {3}
    MaxObjects = 2
    MaxSessions = 2
    \* NautilusTree
    Grammars <- SomeGrammars
    Nonterminals <- Nonterms3
    Start = "START"
    MaxTreeSize = 3
    SizeMax = 15
    ChunkSize = 3
    MaxNodes = 7
    MaxRecursion = 4
    MaxChunkTrees = 1
    \* Nautilus
    Bit = {c1, c2}
    Code = {c3}
    MaxSize = 2
    MinimizeStep = 1
    DetMutations = 1
    RingSize = 1
    \* Vuzzer
    b1 = b1
    b2 = b2
    Blocks <- TwoBlocks
    BbWeights <- UnitWeights
    InitSizes = {0, 2, 3}
    PopSize = 4
    NextGenRange = 2
    KeepNum = 2
    GenNum = 10
    EhbStart = 0
    BbSlide0 = 1
    KeepSlide0 = 1
    Hashes = {h1}
    MaxInputs = 6
    \* LibFuzzer and Nezha
    Contents <- ThreeContents
    SizeOf <- ThreeSizes
    InitialInputs <- OneOrTwo
    Features = {0, 1}
    ModuleSize = 2
    FeatureSetSize = 3
    Shrink = TRUE
    ReduceInputs = TRUE
    RetryCount = 2
    MaxLength = 6
    LenControl = 1
    ReduceDepth = FALSE
    TotalCycles = 4
    NezhaCycles = 1
    Targets = 2
    UseOutput = TRUE
    Results = {0, 1}
    \* LfMutation
    LmSeeds <- MCLmSeeds
    LmCrossovers <- MCLmCrossovers
    ManualWords <- MCManualWords
    Base = 3
    Word = 32
    IntSizes = {1, 2, 8}
    MinRepeat = 1
    MaxRepeat = 4
    MaxShuffle = 2
    LmMaxLength = 3
    DictCapacity = 2
    MutationDepth = 2
    LmRetries = 2
    \* VuzzerMutator
    VmLens = {3, 5}
    TaintOffsets = {1, 4}
    Denominator = 3
    RandomLens = {4, 6}
    WordLens = {1, 2}
    VmMaxLen = 7
    MaxCalls = 3
    MaxSlide = 6
    \* Ijon
    MaxSlots = {0, 1}
    Inputs = {"a", "b", "c", "d", "e"}
    InputLen <- MCInputLen
    Reached <- MCReached
    MinifyLen = 2
    MaxTries = 2
    \* AflFast
    FastBytes = {0, 1}
    FastPaths = {{0}, {0, 1}}
    BaseScores = {50}
    Schedule = "FAST"
    MaxFactor = 32
    MaxScore = 100
    ManyPaths = 2
    CalChances = 2
    MaxLevel = 2
    MaxCount = 2
    MaxPaths = 3
    MaxExecs = 1
    \* Die
    DiePaths = {{1}, {2}}
    MutCnt = 1
    KeepUnique = 1
    MaxRounds = 2
    MaxScripts = 3
    \* Executors
    FuzzerPlans <- AllPlans
    \* HierarFlow
    MaxHfNodes = 3
    MaxKids = 2
    MaxActs = 5
    MaxHfCalls = 2
    \* PyFuzzer
    PyContents = {"a", "b", "c"}
    PyFault <- MCPyFault
    PyInDir = {"a", "b"}
    MaxPyIds = 4
    MaxPySessions = 1
PROPERTIES
    NobodyStarves
    
CHECK_DEADLOCK FALSE
