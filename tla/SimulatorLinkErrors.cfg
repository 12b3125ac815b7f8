\* What docs/simulator.md says of the link error counter.
CONSTANTS
    Port = {"A1", "B1"}
    link_id <- PortLinkId
    endpoint_index <- PortSide
    MAX_LOCAL_LINKS = 1
    Depth <- MCDepth
    Length = {1}
    Capacity = {1}
    MAX_PACKET_SIZE = 1
    Timeout = {}
    Traffic = {"packet", "time_code"}
    MODULUS <- ErrorsCounted
    Scenes = {"pair"}
SPECIFICATION SceneSpec
PROPERTIES LinkErrorsOnlyFromRun
