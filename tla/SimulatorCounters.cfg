\* Both ends of one link, with the packet counters; no call waits.
CONSTANTS
    Port = {"A1", "B1"}
    link_id <- PortLinkId
    endpoint_index <- PortSide
    MAX_LOCAL_LINKS = 1
    Depth <- MCDepth
    Length = {1}
    Capacity = {1}
    MAX_PACKET_SIZE = 1
    Timeout = {"immediate"}
    Traffic = {"packet"}
    MODULUS <- PacketsCounted
    Scenes = {"pair"}
SPECIFICATION SceneSpec
PROPERTIES PacketsAccountedFor
