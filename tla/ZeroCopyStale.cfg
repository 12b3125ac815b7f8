\* Pre-reset handles, used against the documentation.
CONSTANTS
    Port = {"A", "B"}
    link_id <- PairLinkId
    endpoint_index <- PairEndpoint
    MAX_LOCAL_LINKS = 1
    Depth <- MCDepth
    Length = {1, 2}
    Capacity = {1}
    MAX_PACKET_SIZE = 1
    Timeout = {"finite"}
    Traffic = {"packet"}
    MODULUS <- NotCounted
    ZeroCopyPort = {"A"}
    TX_BUFFERS = 2
    UsesStaleHandles = TRUE
    MaxEpoch = 2
SPECIFICATION ZSpec
PROPERTIES StaleHandlesRejected
