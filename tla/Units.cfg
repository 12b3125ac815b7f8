SPECIFICATION UnitSpec
CONSTANTS
    Packet <- MCPacket
    TimeCode = {1, 2}
    Capacity = {0, 2}
    Zero = Zero
    MAX_PACKET_SIZE = 2
    PACKET_QUEUE_DEPTH = 3
    TIME_CODE_QUEUE_DEPTH = 2
    COUNTER_MODULUS = 4
    WORD = 2
    capacity = 4
    Fragment <- Fragments
    SIZE_MODULUS = 128
    PORT_SIZE = 7
    PORT_ALIGNMENT = 2
    BACKEND_SIZE = 6
    SLOT_SIZE = 5
    Alignment = {1, 4, 8}
    SlotCount = {0, 1, 2, 9, 16, 25, 100, 127}
    Address = {8, 10, 12}
    WorkspaceSize <- StorageSize
INVARIANTS
    CodecsRoundTrip
    ValidatorsAgree
    Replay
    OkAccountedFor
    WorkspaceSound
PROPERTIES
    ImplementsFifos
    ImplementsAssembly
\* A codec is done after one record.
CHECK_DEADLOCK FALSE
