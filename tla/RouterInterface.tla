--------------------------- MODULE RouterInterface ---------------------------
(***************************************************************************)
(* The router interface state machine and the VRF lifecycle of            *)
(* SwitchStateBaseRif.cpp: createRouterif (vpp_create_router_interface or, *)
(* for an object that already exists, vpp_update_router_interface),        *)
(* removeRouterif (vpp_remove_router_interface), removeVrf                 *)
(* (vpp_del_ip_vrf), with vpp_add_ip_vrf, vpp_get_vrf_id,                  *)
(* vpp_router_interface_remove_vrf, vpp_set_interface_mtu and              *)
(* vpp_set_interface_state as the steps they take.                         *)
(*                                                                         *)
(* A dataplane interface is <<port, vlan>>: the hardware interface of the *)
(* port's tap (vlan 0) or its sub-interface "hwif.vlan".  The linux        *)
(* interface "tap" or "tap.vlan" corresponds to it one to one and is       *)
(* written as the same value.  The attributes of a router interface are    *)
(* fixed per object (RifType, RifPort, ...): the attribute list of its     *)
(* create, and what get() returns from the object store once created.      *)
(***************************************************************************)
EXTENDS Naturals, FiniteSets, Functions

CONSTANTS
    Ports,         \* object ids a SAI_ROUTER_INTERFACE_ATTR_PORT_ID can name
    NoPort,        \* the attribute is absent (loopback or VLAN router interfaces)
    PortObjType,   \* objectTypeQuery of a port id: "port", "vlan" or "other"
    TapPorts,      \* ports for which getTapNameFromPortId finds a host tap
    Vlans,         \* outer VLAN ids, all non-zero
    NoVlan,        \* SAI_ROUTER_INTERFACE_ATTR_OUTER_VLAN_ID absent
    Vrs,           \* virtual router objects
    DefaultVr,     \* the switch's default virtual router
    VrTable,       \* VrTable[v]: table id of v's linux VRF device (0: default)
    Tables,        \* the uint32 table ids the model tells apart, 0 included
    Rifs,          \* router interface objects
    RifType,       \* SAI_ROUTER_INTERFACE_ATTR_TYPE
    RifPort,       \* SAI_ROUTER_INTERFACE_ATTR_PORT_ID, or NoPort
    RifVlan,       \* SAI_ROUTER_INTERFACE_ATTR_OUTER_VLAN_ID, or NoVlan
    RifVrf,        \* SAI_ROUTER_INTERFACE_ATTR_VIRTUAL_ROUTER_ID
    Mtus,          \* SAI_ROUTER_INTERFACE_ATTR_MTU values, all non-zero
    DefaultMtu,    \* the MTU of a dataplane interface nobody has set
    IpNbrActive,   \* is_ip_nbr_active(): MTU and admin state are pushed
    ExecMayFail,   \* whether an "ip link show" of vpp_get_vrf_id may fail
    VrfAddMayFail  \* whether ip_vrf_add may return non-zero

ASSUME PortAssumption ==
    /\ NoPort \notin Ports
    /\ PortObjType \in [Ports -> {"port", "vlan", "other"}]
    /\ TapPorts \subseteq {p \in Ports : PortObjType[p] = "port"}
ASSUME TableAssumption ==
    /\ Tables \subseteq Nat /\ 0 \in Tables
    /\ Vlans \subseteq Nat \ {0} /\ NoVlan \notin Vlans
    /\ DefaultVr \in Vrs
    /\ VrTable \in [Vrs -> Tables] /\ VrTable[DefaultVr] = 0
    \* each linux VRF device has a table of its own
    /\ \A v, w \in Vrs : VrTable[v] = VrTable[w] /\ VrTable[v] # 0 => v = w
ASSUME RifAssumption ==
    /\ RifType \in [Rifs -> {"port", "sub_port", "loopback", "other"}]
    /\ RifPort \in [Rifs -> Ports \cup {NoPort}]
    /\ RifVlan \in [Rifs -> Vlans \cup {NoVlan}]
    /\ RifVrf \in [Rifs -> Vrs]
    \* an outer VLAN is passed only with a sub-port (validonly in SAI)
    /\ \A r \in Rifs : RifVlan[r] # NoVlan => RifType[r] = "sub_port"
    \* port, sub-port: the port id is passed (mandatory on create)
    /\ \A r \in Rifs : RifType[r] \in {"port", "sub_port"} => RifPort[r] # NoPort
    \* one router interface per port or sub-port
    /\ \A r, s \in Rifs : /\ RifPort[r] # NoPort /\ RifPort[s] # NoPort
                         /\ RifPort[r] = RifPort[s] /\ RifVlan[r] = RifVlan[s]
                         => r = s
ASSUME FlagAssumption ==
    /\ Mtus \subseteq Nat \ {0} /\ DefaultMtu \in Nat \ {0}
    /\ {IpNbrActive, ExecMayFail, VrfAddMayFail} \subseteq BOOLEAN

VARIABLES
    rifStore,      \* router interface objects in the object store
    vrAlive,       \* virtual router objects the caller has not removed
    vrfObjMap,     \* vrf_objMap: virtual router object -> m_vrf_id
    dpTables,      \* non-default dataplane tables (ip_vrf_add / ip_vrf_del)
    flowHash,      \* tables whose flow hash vpp_ip_flow_hash_set programmed
    dpSubifs,      \* dataplane sub-interfaces <<port, vlan>>
    ifTable,       \* table each dataplane interface is bound to (v4)
    ifMtu,         \* MTU of each dataplane interface
    ifUp,          \* admin state of each dataplane interface
    osTable,       \* vrf_slave table of each linux interface (0: none)
    lastStatus     \* status returned by the last call

dpVars == <<vrfObjMap, dpTables, flowHash, dpSubifs, ifTable, ifMtu, ifUp>>
vars == <<rifStore, vrAlive, vrfObjMap, dpTables, flowHash, dpSubifs,
          ifTable, ifMtu, ifUp, osTable, lastStatus>>

Intfs == Ports \X ({0} \cup Vlans)
NoMtu == 0
AdminAttrs == {"none", "up", "down"}

\* vlan_id: 0 when the attribute is absent
VlanId(r) == IF RifVlan[r] = NoVlan THEN 0 ELSE RifVlan[r]
\* hw_ifname of vpp_get_hwif_name, and the linux_ifname of create
Intf(r) == <<RifPort[r], VlanId(r)>>

\* the interfaces the dataplane has: each tap's hardware interface and the
\* sub-interfaces created on them
DpIntfs(subifs) == {<<p, 0>> : p \in TapPorts} \cup subifs

MapSet(m, k, v) == [x \in DOMAIN m \cup {k} |-> IF x = k THEN v ELSE m[x]]
MapErase(m, k) == Restrict(m, DOMAIN m \ {k})

(***************************************************************************)
(* Steps of the handlers.                                                  *)
(***************************************************************************)

\* vpp_get_vrf_id: <<ret, vrf_id>>.  On a failed command vrf_id is left
\* uninitialised by the caller, so any table id can come out.
VrfLookup(i) ==
    {<<0, osTable[i]>>} \cup (IF ExecMayFail THEN {-1} \X Tables ELSE {})

\* Mutant: the return code of ip_vrf_add is recorded as the VRF id.
vpp_add_ip_vrf_storesRet(v, t) ==
    \/ /\ v \in DOMAIN vrfObjMap
       /\ UNCHANGED <<vrfObjMap, dpTables, flowHash>>
    \/ /\ v \notin DOMAIN vrfObjMap
       /\ vrfObjMap' = MapSet(vrfObjMap, v, -1)
       /\ UNCHANGED <<dpTables, flowHash>>

\* An existing entry is kept.  Table 0 is registered without a dataplane
\* call; another id is registered only when ip_vrf_add succeeds.  The flow
\* hash is programmed for every id registered.
vpp_add_ip_vrf(v, t) ==
    \/ /\ v \in DOMAIN vrfObjMap
       /\ UNCHANGED <<vrfObjMap, dpTables, flowHash>>
    \/ /\ v \notin DOMAIN vrfObjMap
       /\ vrfObjMap' = MapSet(vrfObjMap, v, t)
       /\ dpTables' = dpTables \cup ({t} \ {0})
       /\ flowHash' = flowHash \cup {t}
    \/ /\ v \notin DOMAIN vrfObjMap /\ t # 0 /\ VrfAddMayFail
       /\ UNCHANGED <<vrfObjMap, dpTables, flowHash>>

\* set_interface_vrf (v4): the dataplane refuses an interface it does not
\* have and a table that does not exist.
SetInterfaceVrf(i, t) ==
    IF i \in DpIntfs(dpSubifs') /\ t \in dpTables' \cup {0}
    THEN [ifTable EXCEPT ![i] = t] ELSE ifTable

\* vpp_set_interface_mtu (both families) and vpp_set_interface_state with
\* the combined v4/v6 admin state; both need a dataplane interface.
SetMtu(i, mtu) ==
    IF mtu # NoMtu /\ IpNbrActive /\ i \in DpIntfs(dpSubifs')
    THEN [ifMtu EXCEPT ![i] = mtu] ELSE ifMtu
SetState(i, adm) ==
    IF adm # "none" /\ IpNbrActive /\ i \in DpIntfs(dpSubifs')
    THEN [ifUp EXCEPT ![i] = (adm = "up")] ELSE ifUp

\* the early returns of vpp_create_router_interface, in the code's order
CreateCheck(r) ==
    IF RifType[r] \notin {"port", "sub_port"} THEN "SUCCESS"
    ELSE IF PortObjType[RifPort[r]] = "vlan" THEN "SUCCESS"
    ELSE IF PortObjType[RifPort[r]] # "port" THEN "FAILURE"
    ELSE IF RifType[r] = "sub_port" /\ RifVlan[r] = NoVlan THEN "FAILURE"
    ELSE IF RifPort[r] \notin TapPorts THEN "FAILURE"
    ELSE "CONTINUE"

\* Mutant: the VRF of a sub-port is read from the port's linux interface.
vpp_create_router_interface_portName(r, mtu, adm) ==
    LET i == Intf(r) IN
    \/ /\ CreateCheck(r) # "CONTINUE"
       /\ UNCHANGED dpVars
    \/ /\ CreateCheck(r) = "CONTINUE"
       /\ dpSubifs' = IF RifType[r] = "sub_port" THEN dpSubifs \cup {i}
                                                 ELSE dpSubifs
       /\ \E res \in VrfLookup(<<RifPort[r], 0>>) :
            /\ vpp_add_ip_vrf(RifVrf[r], res[2])
            /\ ifTable' = IF res[1] = 0 /\ res[2] # 0
                          THEN SetInterfaceVrf(i, res[2]) ELSE ifTable
       /\ ifMtu' = SetMtu(i, mtu)
       /\ ifUp' = SetState(i, adm)

\* Sub-port: the sub-interface pair is created first.  The VRF id is read
\* from the linux interface, the VRF entry acquired with it, and the
\* interface bound when the lookup succeeded with a non-default id.
vpp_create_router_interface(r, mtu, adm) ==
    LET i == Intf(r) IN
    \/ /\ CreateCheck(r) # "CONTINUE"
       /\ UNCHANGED dpVars
    \/ /\ CreateCheck(r) = "CONTINUE"
       /\ dpSubifs' = IF RifType[r] = "sub_port" THEN dpSubifs \cup {i}
                                                 ELSE dpSubifs
       /\ \E res \in VrfLookup(i) :
            /\ vpp_add_ip_vrf(RifVrf[r], res[2])
            /\ ifTable' = IF res[1] = 0 /\ res[2] # 0
                          THEN SetInterfaceVrf(i, res[2]) ELSE ifTable
       /\ ifMtu' = SetMtu(i, mtu)
       /\ ifUp' = SetState(i, adm)

\* Mutant: the unbinding of vpp_router_interface_remove_vrf is dropped.
vpp_router_interface_remove_vrf_noReset(p) ==
    UNCHANGED dpVars

\* reset the port's hardware interface to the default table
vpp_router_interface_remove_vrf(p) ==
    /\ ifTable' = IF p \in TapPorts THEN [ifTable EXCEPT ![<<p, 0>>] = 0]
                                    ELSE ifTable
    /\ UNCHANGED <<vrfObjMap, dpTables, flowHash, dpSubifs, ifMtu, ifUp>>

\* the attributes come from the object store; no port id: get() fails
UpdateCheck(r) ==
    IF RifPort[r] = NoPort THEN "FAILURE"
    ELSE IF PortObjType[RifPort[r]] = "vlan" THEN "SUCCESS"
    ELSE IF PortObjType[RifPort[r]] # "port" THEN "FAILURE"
    ELSE "CONTINUE"

\* Not a sub-port: only the VRF is reset.  Sub-port: MTU and admin state.
vpp_update_router_interface(r, mtu, adm) ==
    \/ /\ UpdateCheck(r) # "CONTINUE"
       /\ UNCHANGED dpVars
    \/ /\ UpdateCheck(r) = "CONTINUE"
       /\ RifType[r] # "sub_port"
       /\ vpp_router_interface_remove_vrf(RifPort[r])
    \/ /\ UpdateCheck(r) = "CONTINUE"
       /\ RifType[r] = "sub_port"
       /\ UNCHANGED <<vrfObjMap, dpTables, flowHash, dpSubifs, ifTable>>
       /\ ifMtu' = IF RifVlan[r] = NoVlan THEN ifMtu ELSE SetMtu(Intf(r), mtu)
       /\ ifUp' = IF RifVlan[r] = NoVlan THEN ifUp ELSE SetState(Intf(r), adm)

\* delete_sub_interface: the interface goes with its binding and settings
DeleteSubif(i) ==
    /\ dpSubifs' = dpSubifs \ {i}
    /\ ifTable' = [ifTable EXCEPT ![i] = 0]
    /\ ifMtu' = [ifMtu EXCEPT ![i] = DefaultMtu]
    /\ ifUp' = [ifUp EXCEPT ![i] = FALSE]
    /\ UNCHANGED <<vrfObjMap, dpTables, flowHash>>

\* Mutant: every router interface is removed as a port (VRF reset only).
vpp_remove_router_interface_asPort(r) ==
    \/ /\ UpdateCheck(r) # "CONTINUE"
       /\ UNCHANGED dpVars
    \/ /\ UpdateCheck(r) = "CONTINUE"
       /\ vpp_router_interface_remove_vrf(RifPort[r])

\* Not a sub-port: VRF reset.  Sub-port: the sub-interface is deleted.
vpp_remove_router_interface(r) ==
    \/ /\ UpdateCheck(r) # "CONTINUE"
       /\ UNCHANGED dpVars
    \/ /\ UpdateCheck(r) = "CONTINUE"
       /\ RifType[r] # "sub_port"
       /\ vpp_router_interface_remove_vrf(RifPort[r])
    \/ /\ UpdateCheck(r) = "CONTINUE"
       /\ RifType[r] = "sub_port"
       /\ \/ /\ RifVlan[r] = NoVlan \/ RifPort[r] \notin TapPorts
             /\ UNCHANGED dpVars
          \/ /\ RifVlan[r] # NoVlan /\ RifPort[r] \in TapPorts
             /\ DeleteSubif(Intf(r))

\* ip_vrf_del of the stored id (the dataplane keeps table 0), erase
vpp_del_ip_vrf(v) ==
    /\ v \in DOMAIN vrfObjMap
    /\ dpTables' = dpTables \ {vrfObjMap[v]}
    /\ flowHash' = flowHash \ ({vrfObjMap[v]} \ {0})
    /\ vrfObjMap' = MapErase(vrfObjMap, v)
    /\ UNCHANGED <<dpSubifs, ifTable, ifMtu, ifUp>>
(***************************************************************************)
(* The SAI entry points.  The status of the vpp_* step is dropped: what  *)
(* the caller gets is that of create_internal / remove_internal.          *)
(***************************************************************************)

\* The object is created when get() finds no type, updated otherwise; on
\* an existing object create_internal fails (the object already exists).
\* The caller names a live virtual router (checked by the SAI metadata).
createRouterif(r) ==
    /\ RifVrf[r] \in vrAlive
    /\ \E mtu \in {NoMtu} \cup Mtus, adm \in AdminAttrs :
         \/ /\ r \notin rifStore
            /\ vpp_create_router_interface(r, mtu, adm)
            /\ rifStore' = rifStore \cup {r}
            /\ lastStatus' = "SUCCESS"
         \/ /\ r \in rifStore
            /\ vpp_update_router_interface(r, mtu, adm)
            /\ lastStatus' = "FAILURE"
            /\ UNCHANGED rifStore
    /\ UNCHANGED <<vrAlive, osTable>>

\* The caller removes an object that exists (checked by the SAI metadata).
removeRouterif(r) ==
    /\ r \in rifStore
    /\ vpp_remove_router_interface(r)
    /\ rifStore' = rifStore \ {r}
    /\ lastStatus' = "SUCCESS"
    /\ UNCHANGED <<vrAlive, osTable>>

\* The caller removes a virtual router no router interface refers to
\* (reference counting of the SAI metadata); the default one stays.
removeVrf(v) ==
    /\ v \in vrAlive \ {DefaultVr}
    /\ \A r \in rifStore : RifVrf[r] # v
    /\ \/ vpp_del_ip_vrf(v)
       \/ v \notin DOMAIN vrfObjMap /\ UNCHANGED dpVars
    /\ vrAlive' = vrAlive \ {v}
    /\ lastStatus' = "SUCCESS"
    /\ UNCHANGED <<rifStore, osTable>>

\* The host enslaves a router interface's linux interface to the linux VRF
\* of its virtual router, or releases it, at any time (intfmgrd).
OsEnslave(r) ==
    /\ RifPort[r] # NoPort
    /\ osTable' = [osTable EXCEPT ![Intf(r)] = VrTable[RifVrf[r]]]
    /\ UNCHANGED <<rifStore, vrAlive, lastStatus>> /\ UNCHANGED dpVars
OsRelease(r) ==
    /\ RifPort[r] # NoPort
    /\ osTable' = [osTable EXCEPT ![Intf(r)] = 0]
    /\ UNCHANGED <<rifStore, vrAlive, lastStatus>> /\ UNCHANGED dpVars

Init ==
    /\ rifStore = {}
    /\ vrAlive = Vrs
    /\ vrfObjMap = <<>>
    /\ dpTables = {}
    /\ flowHash = {}
    /\ dpSubifs = {}
    /\ ifTable = [i \in Intfs |-> 0]
    /\ ifMtu = [i \in Intfs |-> DefaultMtu]
    /\ ifUp = [i \in Intfs |-> FALSE]
    /\ osTable = [i \in Intfs |-> 0]
    /\ lastStatus = "NONE"

Next ==
    \/ \E r \in Rifs : createRouterif(r) \/ removeRouterif(r)
                       \/ OsEnslave(r) \/ OsRelease(r)
    \/ \E v \in Vrs : removeVrf(v)

Spec == Init /\ [][Next]_vars

(***************************************************************************)
(* Properties                                                              *)
(***************************************************************************)

\* the router interfaces that route: a port, or a sub-port with its outer
\* VLAN, whose port id is a port object with a tap
Routed(r) ==
    /\ RifType[r] \in {"port", "sub_port"}
    /\ RifType[r] = "sub_port" => RifVlan[r] # NoVlan
    /\ RifPort[r] \in TapPorts

\* Every variable has its type; a VRF entry holds a table id.
TypeOK ==
    /\ rifStore \subseteq Rifs /\ vrAlive \subseteq Vrs
    /\ DOMAIN vrfObjMap \subseteq Vrs
    /\ \A v \in DOMAIN vrfObjMap : vrfObjMap[v] \in Tables
    /\ dpTables \subseteq Tables \ {0} /\ flowHash \subseteq Tables
    /\ dpSubifs \subseteq TapPorts \X Vlans
    /\ ifTable \in [Intfs -> Tables] /\ osTable \in [Intfs -> Tables]
    /\ ifMtu \in [Intfs -> Mtus \cup {DefaultMtu}]
    /\ ifUp \in [Intfs -> BOOLEAN]
    /\ lastStatus \in {"NONE", "SUCCESS", "FAILURE"}

\* No dataplane interface is bound to a table that does not exist: removeVrf
\* deletes only the table of the virtual router being removed, once none of
\* its router interfaces is left (vpp_del_ip_vrf with the id create stored).
BindingTableExists == \A i \in Intfs : ifTable[i] \in dpTables \cup {0}

\* The dataplane sub-interfaces are exactly those of the routed sub-port
\* router interfaces in the object store: create makes one, remove deletes
\* it, and a repeated create (the update path) leaves it.
SubifsMatchStore ==
    dpSubifs = {Intf(r) : r \in {s \in rifStore :
                                  Routed(s) /\ RifType[s] = "sub_port"}}

\* An interface is bound to a non-default table only while a routed router
\* interface on it is in the object store: remove unbinds a port
\* (vpp_router_interface_remove_vrf) and deletes a sub-port.
BindingsBelongToLiveRifs ==
    \A i \in Intfs : ifTable[i] # 0 =>
        \E r \in rifStore : Routed(r) /\ Intf(r) = i

====

