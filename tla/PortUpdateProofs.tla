--------------------------- MODULE PortUpdateProofs ---------------------------
(***************************************************************************)
(* Proof that UpdatePort binds an ACL only in the direction it was set.   *)
(***************************************************************************)
EXTENDS PortUpdate, TLAPS

\* the type of the dataplane bindings
BoundType == [Ports -> [Dirs -> SUBSET Acls]]

IInv == TypeOK /\ AclBoundOnlyWhereSet

\* What one aclBindUnbindPort call can add: only a bind adds, and only the
\* ACL it names, in the direction is_input names.
LEMMA AclBindUnbindBounds ==
    ASSUME NEW b \in BoundType, NEW p \in Ports, NEW acl,
           NEW isInput \in BOOLEAN, NEW isBind \in BOOLEAN
    PROVE  LET c == AclBindUnbindPort(b, p, acl, isInput, isBind)
               d0 == IF isInput THEN "ingress" ELSE "egress"
           IN  /\ c \in BoundType
               /\ \A q \in Ports, d \in Dirs :
                    c[q][d] \subseteq b[q][d] \cup
                        (IF isBind /\ q = p /\ d = d0 THEN {acl} \cap Acls ELSE {})
BY DEF AclBindUnbindPort, BoundType, Dirs

\* The ingress branch adds at most the requested ACL, on ingress.
LEMMA IngressBounds ==
    ASSUME TypeOK, NEW b \in BoundType, NEW p \in Ports, NEW val,
           NEW c \in IngressAcl(b, p, val)
    PROVE  /\ c \in BoundType
           /\ \A q \in Ports, d \in Dirs :
                c[q][d] \subseteq b[q][d] \cup
                    (IF q = p /\ d = "ingress" THEN {val} \cap Acls ELSE {})
<1>1. CASE val = Absent
  BY <1>1 DEF IngressAcl
<1>2. CASE val # Absent /\ val = NullOid
  <2>1. CASE GetSucceeds(p, "ingress")
    BY <1>2, <2>1 DEF IngressAcl
  <2>2. CASE ~GetSucceeds(p, "ingress")
    <3>1. PICK g \in GetAclOid(p, "ingress") : c = AclBindUnbindPort(b, p, g, TRUE, FALSE)
      BY <1>2, <2>2 DEF IngressAcl
    <3>. QED  BY <3>1, AclBindUnbindBounds
  <2>. QED  BY <2>1, <2>2
<1>3. CASE val # Absent /\ val # NullOid
  <2>1. c = AclBindUnbindPort(b, p, val, TRUE, TRUE)
    BY <1>3 DEF IngressAcl
  <2>. QED  BY <2>1, AclBindUnbindBounds
<1>. QED  BY <1>1, <1>2, <1>3

\* The egress branch adds at most the requested ACL, on egress; its unbind,
\* whatever direction it names, only removes.
LEMMA EgressBounds ==
    ASSUME TypeOK, NEW b \in BoundType, NEW p \in Ports, NEW val,
           NEW c \in EgressAcl(b, p, val)
    PROVE  /\ c \in BoundType
           /\ \A q \in Ports, d \in Dirs :
                c[q][d] \subseteq b[q][d] \cup
                    (IF q = p /\ d = "egress" THEN {val} \cap Acls ELSE {})
<1>1. CASE val = Absent
  BY <1>1 DEF EgressAcl
<1>2. CASE val # Absent /\ val = NullOid
  <2>1. CASE GetSucceeds(p, "egress")
    BY <1>2, <2>1 DEF EgressAcl
  <2>2. CASE ~GetSucceeds(p, "egress")
    <3>1. PICK g \in GetAclOid(p, "egress") : c = AclBindUnbindPort(b, p, g, TRUE, FALSE)
      BY <1>2, <2>2 DEF EgressAcl
    <3>. QED  BY <3>1, AclBindUnbindBounds
  <2>. QED  BY <2>1, <2>2
<1>3. CASE val # Absent /\ val # NullOid
  <2>1. c = AclBindUnbindPort(b, p, val, FALSE, TRUE)
    BY <1>3 DEF EgressAcl
  <2>. QED  BY <2>1, AclBindUnbindBounds
<1>. QED  BY <1>1, <1>2, <1>3

LEMMA InitIInv == Init => IInv
BY DEF Init, IInv, TypeOK, AclBoundOnlyWhereSet, Dirs

\* One UpdatePort keeps the invariant.
LEMMA UpdatePortStep ==
    ASSUME IInv, NEW p \in Ports, NEW in \in Acls \cup {NullOid, Absent},
           NEW out \in Acls \cup {NullOid, Absent},
           NEW adm \in {Absent, TRUE, FALSE}, NEW mtu \in Mtus \cup {Absent},
           UpdatePort(p, in, out, adm, mtu)
    PROVE  IInv'
<1>0. aclBound \in BoundType
  BY DEF IInv, TypeOK, BoundType
<1>1. PICK b \in IngressAcl(aclBound, p, in) : aclBound' \in EgressAcl(b, p, out)
  BY DEF UpdatePort
<1>2. /\ b \in BoundType
      /\ \A q \in Ports, d \in Dirs :
           b[q][d] \subseteq aclBound[q][d] \cup
               (IF q = p /\ d = "ingress" THEN {in} \cap Acls ELSE {})
  BY <1>0, IngressBounds DEF IInv
<1>3. /\ aclBound' \in BoundType
      /\ \A q \in Ports, d \in Dirs :
           aclBound'[q][d] \subseteq b[q][d] \cup
               (IF q = p /\ d = "egress" THEN {out} \cap Acls ELSE {})
  BY <1>1, <1>2, EgressBounds DEF IInv
<1>4. /\ everSet' = [everSet EXCEPT ![p]["ingress"] = @ \cup ({in} \cap Acls),
                                    ![p]["egress"] = @ \cup ({out} \cap Acls)]
      /\ aclAttr' = [aclAttr EXCEPT ![p]["ingress"] = IF in = Absent THEN @ ELSE in,
                                    ![p]["egress"] = IF out = Absent THEN @ ELSE out]
  BY DEF UpdatePort
<1>5. portUp' \in [TapPorts -> BOOLEAN] /\ portMtu' \in [TapPorts -> Mtus \cup {DefaultMtu}]
  <2>0. portUp \in [TapPorts -> BOOLEAN] /\ portMtu \in [TapPorts -> Mtus \cup {DefaultMtu}]
    BY DEF IInv, TypeOK
  <2>1. CASE ~IpNbrActive
    BY <2>0, <2>1 DEF UpdatePort
  <2>2. CASE IpNbrActive
    <3>1. portUp' = IF adm = Absent THEN portUp ELSE vpp_set_interface_state(p, adm)
      BY <2>2 DEF UpdatePort
    <3>2. portMtu' = IF mtu = Absent THEN portMtu ELSE vpp_set_port_mtu(p, mtu)
      BY <2>2 DEF UpdatePort
    <3>3. adm # Absent => vpp_set_interface_state(p, adm) \in [TapPorts -> BOOLEAN]
      BY <2>0 DEF vpp_set_interface_state, vpp_get_hwif_name
    <3>4. mtu # Absent => vpp_set_port_mtu(p, mtu) \in [TapPorts -> Mtus \cup {DefaultMtu}]
      BY <2>0 DEF vpp_set_port_mtu, vpp_get_hwif_name
    <3>. QED  BY <2>0, <3>1, <3>2, <3>3, <3>4
  <2>. QED  BY <2>1, <2>2, PortAssumption
<1>6. TypeOK'
  BY <1>3, <1>4, <1>5 DEF IInv, TypeOK, BoundType, Dirs
<1>7. AclBoundOnlyWhereSet'
  BY <1>2, <1>3, <1>4 DEF IInv, TypeOK, AclBoundOnlyWhereSet, Dirs
<1>. QED  BY <1>6, <1>7 DEF IInv

\* For every set of ports, taps, ACLs and MTUs: an ACL is bound to a port in
\* a direction only if the caller once set it there, whatever UpdatePort's
\* NULL branches unbind (the uninitialised oid and the egress unbind issued
\* for input included).
THEOREM AclBoundOnlyWhereSetInvariant == Spec => [](TypeOK /\ AclBoundOnlyWhereSet)
<1>1. Init => IInv
  BY InitIInv
<1>2. IInv /\ [Next]_vars => IInv'
  <2>. SUFFICES ASSUME IInv, [Next]_vars PROVE IInv'
    OBVIOUS
  <2>1. CASE Next
    BY <2>1, UpdatePortStep DEF Next
  <2>2. CASE UNCHANGED vars
    BY <2>2 DEF vars, IInv, TypeOK, AclBoundOnlyWhereSet
  <2>. QED  BY <2>1, <2>2
<1>. QED  BY <1>1, <1>2, PTL DEF Spec, IInv

\* For every set of ports, taps, ACLs and MTUs, the port attributes, the
\* ACL bindings and the tap settings keep their types.
THEOREM PortUpdateTypeInvariant == Spec => []TypeOK
BY AclBoundOnlyWhereSetInvariant, PTL
====
