SPECIFICATION MCSpec
CONSTANTS
    general = general
    math = math
    code = code
    writing = writing
    unknown = unknown
    Caps = {general, math, code, writing}
    General = general
    HighScores = {80, 100}
    MediumScores = {50, 75}
    LowScores = {10, 45}
    NeedEntries <- MCNeedEntries
    MaxNeeds = 4
    PairEntries <- MCPairEntries
    MaxPairNeeds = 2
    Failures = {0, 1, 3, 5}
    Latencies = {0, 99, 100, 400}
    Candidates <- MCCandidates
    ConfigNames <- MCConfigNames
    MaxNames = 3
    ConfigScores = {0, 40, 90}
    MaxScores = 2
    ReplyShapes <- MCReplyShapes
    WordSets <- MCWordSets
    MessageSizes <- MCMessageSizes
    MaxMessages = 4
    Prompts <- MCPrompts
    Settings <- MCSettings
INVARIANTS
    MixesCorrect
    QualityDominates
    ProfilesCorrect
    RepliesCorrect
    WindowCorrect
PROPERTIES
    WorseContactNeverHelps
\* An input that is written to its bounds is the end.
CHECK_DEADLOCK FALSE
