\* Two host loopbacks (Loopback0, Loopback1), two destinations.
CONSTANTS
    v4 = v4
    v6 = v6
    v4b = v4b
    Dests <- MCDests
    LbSuffixes = {0, 1}
    MaxInstance = 2
SPECIFICATION Spec
INVARIANT InstanceSafe
