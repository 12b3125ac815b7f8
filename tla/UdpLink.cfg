CONSTANTS
    WORD = 2
    capacity = 2
    fragment_payload_size = 1
    RECENT_MESSAGE_DEPTH = 2
    RETIRED_SESSION_DEPTH = 2
    TIME_CODE_QUEUE_DEPTH = 1
    COUNTER_MODULUS = 1
    MaxLag = 2
    Settings <- Exploring
SPECIFICATION Spec
INVARIANTS
    DeliveredOnceIntact
    
PROPERTIES
    ImplementsChannel
    AckedWasAccepted
