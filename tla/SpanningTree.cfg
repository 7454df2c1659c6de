SPECIFICATION FairSpec
CONSTANTS
    Bridges <- MCBridges
    Ports <- MCPorts
    Links <- MCLinks
    PathCost <- MCPathCost
    HelloTime = 2
    MaxAge = 6
    ForwardDelay = 4
    HoldTime = 1
    BigEndian = FALSE
    MaxFaults = 2

    
PROPERTIES
    TreeIsBuilt
    ChangeReachesRoot
