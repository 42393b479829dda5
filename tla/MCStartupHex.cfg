SPECIFICATION SSpec
CONSTANTS
    none = none
    ArgSets <- MCArgSets
    Boots <- MCBoots
    Uri <- MCUri
    NoBind = none
    Machines <- HexBuses
    Temps <- MCTemps
    tempStop = 75
    tempStart = 50
    URISchemes <- MCSchemes
    Names <- MCNames
    Hosts <- MCHosts
    Ports <- MCPorts
    Paths <- MCPaths
    B = 2
    WIDTH = 8
    CompactSizes <- MCCompactSizes
    Samples <- MCSamples
CHECK_DEADLOCK FALSE
INVARIANT HeatHwmonOfDevice
