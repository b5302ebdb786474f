CONSTANTS
    eth0 = eth0
    eth0v10 = eth0v10
    net1 = net1
    rPort = rPort
    rSub = rSub
    rVlan = rVlan
    rLag = rLag
    rBridge = rBridge
    rNoTap = rNoTap
    NoDev = NoDev
    Devs <- MCDevs
    Prefixes <- MCPrefixes
    HostIds <- MCHostIds
    Rifs <- MCRifs
    RifDev <- MCRifDev
    RifType <- MCRifType
    RifPortType <- MCRifPortType
    DpMayFail = FALSE
SPECIFICATION Spec
INVARIANT StoreMatchesDataplane
INVARIANT NoLeakedAddress
