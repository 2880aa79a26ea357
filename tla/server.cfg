SPECIFICATION FairSpec
CONSTANTS
    Messages <- AllTexts
    MAX_REQUEST_SIZE <- MaxRequest
    BraceLengths <- TooLongWithBrace
INVARIANTS
    RequestIntact
    BufferBounded
    NobodyLeftWaiting
    TimeoutJustified
PROPERTY
    ConnectionEnds
CHECK_DEADLOCK FALSE
