\* Three questions on a page, up to two text chunks each; every failure and every departure.
SPECIFICATION PageSpec
CONSTANTS
    NDeltas = 2
    MaxTurns = 3
CHECK_DEADLOCK FALSE
INVARIANTS
    PageTypeOK
    GatedTextIsWhole
    FramesInOrder
    CleanEndIsDone
    AnswerIsOwn
PROPERTIES
    ResponseEnds
    TurnSettles
