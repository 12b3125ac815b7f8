\* Management tools, and the liveness of lifecycle calls.
CONSTANTS
    VSPWD_PACKET_QUEUE_DEPTH = 1
    VSPWD_TIME_CODE_QUEUE_DEPTH = 1
    ID_MODULUS = 32
    Device = {"A", "B"}
    PortOf <- Ports
    DEVICE_TIME_CODE_QUEUE_DEPTH = 1
    VSPD_MANAGEMENT_EVENT_QUEUE_DEPTH = 8
    Capacities = {65536}
    Codes = {1, 2}
    Limits = {TRUE}
    Settings <- Services
SPECIFICATION FairSpec

    
PROPERTIES
    LifecycleCallsReturn
    MonitorCatchesUp
\* The applications make a bounded number of calls.
CHECK_DEADLOCK FALSE
