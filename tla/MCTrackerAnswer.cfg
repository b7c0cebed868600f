CONSTANTS
    Byte <- MCByte
    Statuses = {200, 404}
    Answers <- MCAnswers
    Text <- MCText
    Trailers <- MCTrailers
    Others <- MCOthers
SPECIFICATION Spec
INVARIANTS
    ReadBack
    PeersReported
CHECK_DEADLOCK FALSE
