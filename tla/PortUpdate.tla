------------------------------ MODULE PortUpdate ------------------------------
(***************************************************************************)
(* UpdatePort of SwitchStateBaseRif.cpp: a set of port attributes binds or *)
(* unbinds the port's ingress and egress ACLs, then, while the IP neighbour *)
(* subsystem is active, pushes the admin state and the MTU to the port's    *)
(* hardware interface (vpp_set_interface_state, vpp_set_port_mtu, both via *)
(* vpp_get_hwif_name with VLAN 0).                                         *)
(*                                                                         *)
(* A NULL ACL unbinds the ACL the object store holds: the code reads it    *)
(* with get() and calls aclBindUnbindPort(port, acl, is_input, is_bind).  *)
(* aclBindUnbindPort and the caller that stores the attributes after       *)
(* UpdatePort are not in this file; they are modelled from the spec.       *)
(***************************************************************************)
EXTENDS FiniteSets

CONSTANTS
    Ports,        \* port objects
    TapPorts,     \* ports with a host tap (vpp_get_hwif_name finds them)
    Acls,         \* ACL table / group objects
    NullOid,      \* SAI_NULL_OBJECT_ID
    NoAttr,       \* the object store has no value for the attribute
    Absent,       \* the set request does not carry the attribute
    Mtus,         \* MTU values the caller sets
    DefaultMtu,   \* MTU of a hardware interface nobody has set
    IpNbrActive   \* is_ip_nbr_active()

ASSUME PortAssumption ==
    /\ TapPorts \subseteq Ports
    /\ NullOid \notin Acls /\ NoAttr \notin Acls \cup {NullOid}
    /\ Absent \notin Acls \cup {NullOid, NoAttr}
    /\ IpNbrActive \in BOOLEAN

VARIABLES
    aclAttr,      \* the object store's INGRESS_ACL / EGRESS_ACL of each port
    aclBound,     \* the ACLs bound in the dataplane, per port and direction
    everSet,      \* history: the ACLs ever set per port and direction
    portUp,       \* admin state of each tap port's hardware interface
    portMtu       \* hardware MTU of each tap port's hardware interface

vars == <<aclAttr, aclBound, everSet, portUp, portMtu>>

Dirs == {"ingress", "egress"}

\* aclBindUnbindPort(port, acl, is_input, is_bind)
AclBindUnbindPort(b, p, acl, isInput, isBind) ==
    LET d == IF isInput THEN "ingress" ELSE "egress" IN
    [b EXCEPT ![p][d] = IF isBind THEN @ \cup ({acl} \cap Acls)
                                  ELSE @ \ {acl}]

\* What get(SAI_OBJECT_TYPE_PORT, port, 1, &attr) leaves in attr.value.oid:
\* the stored value when it succeeds; attr is a stack variable of which only
\* attr.id was set, so when it fails the oid is any value.
GetAclOid(p, d) ==
    IF aclAttr[p][d] # NoAttr THEN {aclAttr[p][d]} ELSE Acls \cup {NullOid}
GetSucceeds(p, d) == aclAttr[p][d] # NoAttr

\* Mutant: the egress bind is issued for the ingress direction.
EgressAcl_bindIngress(b, p, val) ==
    IF val = Absent THEN {b}
    ELSE IF val = NullOid
         THEN IF GetSucceeds(p, "egress") THEN {b}
              ELSE {AclBindUnbindPort(b, p, g, TRUE, FALSE) : g \in GetAclOid(p, "egress")}
    ELSE {AclBindUnbindPort(b, p, val, TRUE, TRUE)}

\* The ingress branch: a NULL value unbinds the oid get() read, but only
\* when get() failed; another value is bound for input.
IngressAcl(b, p, val) ==
    IF val = Absent THEN {b}
    ELSE IF val = NullOid
         THEN IF GetSucceeds(p, "ingress") THEN {b}
              ELSE {AclBindUnbindPort(b, p, g, TRUE, FALSE) : g \in GetAclOid(p, "ingress")}
    ELSE {AclBindUnbindPort(b, p, val, TRUE, TRUE)}

\* The egress branch: the same, except that the unbind is issued with
\* is_input = true and the bind with is_input = false.
EgressAcl(b, p, val) ==
    IF val = Absent THEN {b}
    ELSE IF val = NullOid
         THEN IF GetSucceeds(p, "egress") THEN {b}
              ELSE {AclBindUnbindPort(b, p, g, TRUE, FALSE) : g \in GetAclOid(p, "egress")}
    ELSE {AclBindUnbindPort(b, p, val, FALSE, TRUE)}

\* Mutant: the hardware interface is looked up without checking for a tap.
vpp_get_hwif_name_noCheck(p) == p \in Ports

\* getTapNameFromPortId finds the port's tap
vpp_get_hwif_name(p) == p \in TapPorts

\* vpp_set_interface_state(port, 0, up) and vpp_set_port_mtu(port, 0, mtu)
vpp_set_interface_state(p, up) ==
    IF vpp_get_hwif_name(p) THEN [x \in DOMAIN portUp \cup {p} |->
                                    IF x = p THEN up ELSE portUp[x]]
    ELSE portUp
vpp_set_port_mtu(p, mtu) ==
    IF vpp_get_hwif_name(p) THEN [x \in DOMAIN portMtu \cup {p} |->
                                    IF x = p THEN mtu ELSE portMtu[x]]
    ELSE portMtu

\* UpdatePort with the request's INGRESS_ACL, EGRESS_ACL, ADMIN_STATE and
\* MTU (each possibly Absent), followed by the caller storing the ACLs.
\* The caller sets a non-NULL ACL only on a direction that holds none
\* (orchagent unbinds before it binds another).
UpdatePort(p, in, out, adm, mtu) ==
    /\ in \in Acls => aclAttr[p]["ingress"] \in {NoAttr, NullOid}
    /\ out \in Acls => aclAttr[p]["egress"] \in {NoAttr, NullOid}
    /\ \E b \in IngressAcl(aclBound, p, in) : aclBound' \in EgressAcl(b, p, out)
    /\ IF IpNbrActive
       THEN /\ portUp' = IF adm = Absent THEN portUp
                         ELSE vpp_set_interface_state(p, adm)
            /\ portMtu' = IF mtu = Absent THEN portMtu
                          ELSE vpp_set_port_mtu(p, mtu)
       ELSE UNCHANGED <<portUp, portMtu>>
    /\ aclAttr' = [aclAttr EXCEPT ![p]["ingress"] = IF in = Absent THEN @ ELSE in,
                                  ![p]["egress"] = IF out = Absent THEN @ ELSE out]
    /\ everSet' = [everSet EXCEPT ![p]["ingress"] = @ \cup ({in} \cap Acls),
                                  ![p]["egress"] = @ \cup ({out} \cap Acls)]

Init ==
    /\ aclAttr = [p \in Ports |-> [d \in Dirs |-> NoAttr]]
    /\ aclBound = [p \in Ports |-> [d \in Dirs |-> {}]]
    /\ everSet = [p \in Ports |-> [d \in Dirs |-> {}]]
    /\ portUp = [p \in TapPorts |-> FALSE]
    /\ portMtu = [p \in TapPorts |-> DefaultMtu]

Next ==
    \E p \in Ports, in, out \in Acls \cup {NullOid, Absent},
       adm \in {Absent, TRUE, FALSE}, mtu \in Mtus \cup {Absent} :
        UpdatePort(p, in, out, adm, mtu)

Spec == Init /\ [][Next]_vars

(***************************************************************************)
(* Properties                                                              *)
(***************************************************************************)

\* Every variable has its type; the hardware settings exist for tap ports.
TypeOK ==
    /\ aclAttr \in [Ports -> [Dirs -> Acls \cup {NullOid, NoAttr}]]
    /\ aclBound \in [Ports -> [Dirs -> SUBSET Acls]]
    /\ everSet \in [Ports -> [Dirs -> SUBSET Acls]]
    /\ portUp \in [TapPorts -> BOOLEAN]
    /\ portMtu \in [TapPorts -> Mtus \cup {DefaultMtu}]

\* An ACL is bound to a port in a direction only if the caller once set it
\* on that port in that direction: the ingress and egress binds of UpdatePort
\* go to their own directions, and unbinds never bind.
AclBoundOnlyWhereSet ==
    \A p \in Ports, d \in Dirs : aclBound[p][d] \subseteq everSet[p][d]

\* The dataplane binds, per port and direction, exactly the ACL the object
\* store holds: setting an ACL attribute to NULL unbinds the ACL bound
\* before (the NULL branches of UpdatePort).
AclBindingsMatchStore ==
    \A p \in Ports, d \in Dirs :
        aclBound[p][d] = ({aclAttr[p][d]} \cap Acls)

====
