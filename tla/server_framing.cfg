SPECIFICATION Spec
CONSTANTS
    Messages <- RawMessages
    MAX_REQUEST_SIZE <- MaxRequest
    BraceLengths <- TooLongWithBrace
INVARIANT AnswerInClientFraming
CHECK_DEADLOCK FALSE
