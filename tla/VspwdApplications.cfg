\* Applications on both ports, or on one beside a bridge.
CONSTANTS
    VSPWD_PACKET_QUEUE_DEPTH = 1
    VSPWD_TIME_CODE_QUEUE_DEPTH = 1
    ID_MODULUS = 32
    Device = {"A", "B", "C"}
    PortOf <- Ports
    DEVICE_TIME_CODE_QUEUE_DEPTH = 1
    VSPD_MANAGEMENT_EVENT_QUEUE_DEPTH = 8
    Capacities = {65536}
    Codes = {1, 2}
    Limits = {TRUE}
    Settings <- Applications
SPECIFICATION Spec
INVARIANTS
    OkMeansAccepted
    
    StateOnItsWay
    RunIsMutual
    OwnersAgree
    SessionRestored
    BridgeKeepsAll

    
\* The applications make a bounded number of calls.
CHECK_DEADLOCK FALSE
