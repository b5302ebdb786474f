CONSTANTS
    p1 = p1
    p3 = p3
    pVlan = pVlan
    vr0 = vr0
    vr1 = vr1
    vr2 = vr2
    rP = rP
    rS = rS
    rVlanObj = rVlanObj
    rSubNoVlan = rSubNoVlan
    NoPort = NoPort
    NoVlan = NoVlan
    Ports <- MCPorts
    PortObjType <- MCPortObjType
    TapPorts = {p1}
    Vlans = {10}
    Vrs <- MCVrs
    DefaultVr = vr0
    VrTable <- MCVrTable
    Tables = {0, 1, 2}
    RifType <- MCRifType
    RifPort <- MCRifPort
    RifVlan <- MCRifVlan
    RifVrf <- MCRifVrf
    Mtus = {9100}
    DefaultMtu = 1500
    IpNbrActive = TRUE
    Rifs <- MCRifsCore
    ExecMayFail = TRUE
    VrfAddMayFail = FALSE
SPECIFICATION Spec
INVARIANT BindingTableExists
