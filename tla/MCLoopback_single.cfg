\* One host loopback (Loopback0), three destinations, two instances.
CONSTANTS
    v4 = v4
    v6 = v6
    v4b = v4b
    Dests <- MCDests
    LbSuffixes = {0}
    MaxInstance = 2
SPECIFICATION Spec
INVARIANT TypeOK
INVARIANT InstanceSafe
INVARIANT ParallelMapsAgree
INVARIANT NoOrphanLoopback
PROPERTY FreedWithItsLoopback
