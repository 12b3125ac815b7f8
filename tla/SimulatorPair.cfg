\* Both ends of one link with all calls and timeouts, and five ports that
\* compete for a registry of two slots.
CONSTANTS
    Port = {"A1", "A1bis", "B1", "A2", "B3"}
    link_id <- PortLinkId
    endpoint_index <- PortSide
    MAX_LOCAL_LINKS = 2
    Depth <- MCDepth
    Length = {1, 2}
    Capacity = {0, 1}
    MAX_PACKET_SIZE = 1
    Timeout = {"immediate", "finite", "infinite"}
    Traffic = {"packet", "time_code"}
    MODULUS <- NotCounted
    Scenes = {"pair", "registry"}
SPECIFICATION SceneSpec
INVARIANTS
    LinkStateCorrect
    RegistryCorrect
    NoLostWakeup
PROPERTIES
    
    WaiterReturns
\* Both applications may block for ever in infinite waits.
CHECK_DEADLOCK FALSE
