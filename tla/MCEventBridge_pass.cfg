CONSTANTS
    bobm0 = bobm0
    bobm1 = bobm1
    loop0 = loop0
    eth0 = eth0
    eth1 = eth1
    lo0 = lo0
    port0 = port0
    port1 = port1
    NullOid = NullOid
    HwIfs <- MCHwIfs
    Taps <- MCTaps
    Ports <- MCPorts
    TapOf <- MCTapOf
    PortOfName <- MCPortOfName
    MaxEvents = 4
SPECIFICATION Spec
INVARIANT NotificationsMatchLink
PROPERTY LinkEventsDelivered
