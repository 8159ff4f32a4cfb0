\* Every algorithm once on every input of a bounded set; a case ends when it is computed.
SPECIFICATION Spec
CONSTANTS
    ChunkChars = 4
    OverlapChars = 1
    NoHeader = NoHeader
    RrfK = 60
    RrfTopN = 3
    RerankTopK = 2
    None = None
    Epsilon = 1
    MinSignificantDigits = 3
    Texts <- MCTexts
    Documents <- MCDocuments
    Rankings <- MCRankings
    CrossScores <- MCCrossScores
    Values <- MCValues
    Scales <- MCScales
    Surroundings <- MCSurroundings
    Answers <- MCAnswers
    Shelves <- MCShelves
    Golds <- MCGolds
    PageTexts <- MCPageTexts
    Replies <- MCReplies
    Replays <- MCReplays
CHECK_DEADLOCK FALSE
INVARIANTS
    PhrasesKeptWhole
    ParagraphsKept
    GroupsTight
    FusionRespectsRankers
    BestAreServed
    TruthIsFound
    PassedIsGrounded
    KeptNegativesRefused
    GradedByQuantity
    ConfigsNested
    SweepCoversAll
