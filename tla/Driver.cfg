SPECIFICATION Spec
CONSTANTS
    tx_slot_count = 2
    rx_slot_count = 1
    TxToken <- Transmit
    RxToken <- Receive
    Failing = {"sync", "submit", "release", "reset"}
    MaxEpoch = 2
    Reopens = 1
INVARIANTS
    TokensDistinct
    HandlesOwned
    LedgersAgree
    SyncedWhenHandedOver
