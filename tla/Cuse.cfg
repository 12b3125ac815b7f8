SPECIFICATION FairSpec
CONSTANTS
    READ_QUEUE_DEPTH = 2
    WRITE_QUEUE_DEPTH = 1
    RECORD_QUEUE_DEPTH = 1
    BufferSizes <- ShortAndLong
    UserRecords <- Written
    Arriving <- PacketAndCode
    Modes = {TRUE, FALSE}
    Opens = 2
    Requests = 2
    Polls = 1
    Faults = 2
INVARIANTS
    AnsweredOnce
    
    
    PollersWoken

    
CHECK_DEADLOCK FALSE
