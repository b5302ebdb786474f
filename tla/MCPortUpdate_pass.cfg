CONSTANTS
    p1 = p1
    p2 = p2
    a1 = a1
    a2 = a2
    Ports <- MCPorts
    TapPorts = {p1}
    Acls <- MCAcls
    NullOid = NullOid
    NoAttr = NoAttr
    Absent = Absent
    Mtus = {9100}
    DefaultMtu = 1500
    IpNbrActive = TRUE
SPECIFICATION Spec
INVARIANT TypeOK
INVARIANT AclBoundOnlyWhereSet
