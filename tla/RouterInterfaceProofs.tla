------------------------ MODULE RouterInterfaceProofs ------------------------
(***************************************************************************)
(* Proofs about RouterInterface when every vpp_get_vrf_id succeeds.       *)
(***************************************************************************)
EXTENDS RouterInterface, TLAPS

\* a non-zero vrf_slave table of a linux interface is the table of the
\* virtual router of the router interface on it
OsOwned ==
    \A i \in Intfs : osTable[i] # 0 =>
        \E r \in Rifs : RifPort[r] # NoPort /\ Intf(r) = i
                        /\ osTable[i] = VrTable[RifVrf[r]]

\* a VRF entry holds 0 or the table of its virtual router
DescriptorOK ==
    \A v \in DOMAIN vrfObjMap : vrfObjMap[v] \in {0, VrTable[v]}

\* a bound interface belongs to a live routed router interface and is bound
\* to the table of that router interface's virtual router
BoundOwned ==
    \A i \in Intfs : ifTable[i] # 0 =>
        \E r \in rifStore : /\ Routed(r) /\ Intf(r) = i
                            /\ ifTable[i] = VrTable[RifVrf[r]]

\* the virtual routers of live router interfaces are alive
StoreVrsAlive == \A r \in rifStore : RifVrf[r] \in vrAlive

IInv == /\ TypeOK /\ OsOwned /\ DescriptorOK /\ BoundOwned /\ StoreVrsAlive
        /\ BindingTableExists /\ SubifsMatchStore
-----------------------------------------------------------------------------
(* Facts about the constants.                                              *)

\* A router interface routes exactly when create gets past its early returns.
LEMMA RoutedContinue ==
    ASSUME NEW r \in Rifs
    PROVE  Routed(r) <=> CreateCheck(r) = "CONTINUE"
BY PortAssumption, RifAssumption DEF Routed, CreateCheck

\* What a routed router interface's interface is, and that update and
\* remove get past their checks for it.
LEMMA RoutedShape ==
    ASSUME NEW r \in Rifs, Routed(r)
    PROVE  /\ RifPort[r] \in TapPorts
           /\ UpdateCheck(r) = "CONTINUE"
           /\ RifType[r] = "sub_port" => Intf(r) \in TapPorts \X Vlans
           /\ RifType[r] # "sub_port" => Intf(r) = <<RifPort[r], 0>>
BY PortAssumption, RifAssumption, TableAssumption
   DEF Routed, UpdateCheck, Intf, VlanId

\* A router interface with a port id has an interface of the model.
LEMMA IntfType ==
    ASSUME NEW r \in Rifs, RifPort[r] # NoPort
    PROVE  Intf(r) \in Intfs
BY RifAssumption, TableAssumption DEF Intf, VlanId, Intfs

\* Two router interfaces with port ids never share an interface.
LEMMA IntfInjective ==
    ASSUME NEW r \in Rifs, NEW s \in Rifs, RifPort[r] # NoPort,
           RifPort[s] # NoPort, Intf(r) = Intf(s)
    PROVE  r = s
<1>1. RifPort[r] = RifPort[s] /\ VlanId(r) = VlanId(s)
  BY DEF Intf
<1>2. RifVlan[r] = RifVlan[s]
  BY <1>1, RifAssumption, TableAssumption DEF VlanId
<1>. QED  BY <1>1, <1>2, RifAssumption

\* The host table of a router interface's linux interface is 0 or the table
\* of its virtual router.
LEMMA OsTableOfRif ==
    ASSUME TypeOK, OsOwned, NEW r \in Rifs, RifPort[r] # NoPort
    PROVE  osTable[Intf(r)] \in {0, VrTable[RifVrf[r]]}
<1>1. CASE osTable[Intf(r)] # 0
  <2>1. PICK s \in Rifs : RifPort[s] # NoPort /\ Intf(s) = Intf(r)
                          /\ osTable[Intf(r)] = VrTable[RifVrf[s]]
    BY <1>1, IntfType DEF OsOwned
  <2>. QED  BY <2>1, IntfInjective
<1>. QED  BY <1>1
-----------------------------------------------------------------------------
(* The invariant holds initially and is kept by the host's steps.          *)

LEMMA InitIInv == Init => IInv
<1>. SUFFICES ASSUME Init PROVE IInv
  OBVIOUS
<1>1. DOMAIN vrfObjMap = {}
  BY DEF Init
<1>2. TypeOK
  BY <1>1, TableAssumption DEF Init, TypeOK
<1>3. OsOwned /\ BoundOwned /\ StoreVrsAlive /\ BindingTableExists
  BY DEF Init, OsOwned, BoundOwned, StoreVrsAlive, BindingTableExists
<1>4. DescriptorOK /\ SubifsMatchStore
  BY <1>1 DEF Init, DescriptorOK, SubifsMatchStore
<1>. QED  BY <1>2, <1>3, <1>4 DEF IInv

\* The host only writes a router interface's own VRF table, or 0.
LEMMA OsStep ==
    ASSUME IInv, NEW r \in Rifs, OsEnslave(r) \/ OsRelease(r)
    PROVE  IInv'
<1>. USE DEF IInv
<1>1. RifPort[r] # NoPort /\ Intf(r) \in Intfs
  BY IntfType DEF OsEnslave, OsRelease
<1>2. osTable' \in [Intfs -> Tables]
  BY <1>1, TableAssumption, RifAssumption DEF OsEnslave, OsRelease, TypeOK
<1>3. TypeOK'
  BY <1>2 DEF OsEnslave, OsRelease, TypeOK, dpVars
<1>0. osTable \in [Intfs -> Tables]
  BY DEF TypeOK
<1>4. OsOwned'
  <2>. SUFFICES ASSUME NEW i \in Intfs, osTable'[i] # 0
                PROVE  \E s \in Rifs : RifPort[s] # NoPort /\ Intf(s) = i
                                       /\ osTable'[i] = VrTable[RifVrf[s]]
    BY DEF OsOwned
  <2>1. CASE i = Intf(r)
    BY <1>0, <1>1, <2>1 DEF OsEnslave, OsRelease
  <2>2. CASE i # Intf(r)
    <3>1. osTable'[i] = osTable[i]
      BY <1>0, <2>2 DEF OsEnslave, OsRelease
    <3>. QED  BY <3>1 DEF OsOwned
  <2>. QED  BY <2>1, <2>2
<1>5. UNCHANGED <<rifStore, vrAlive, vrfObjMap, dpTables, dpSubifs, ifTable>>
  BY DEF OsEnslave, OsRelease, dpVars
<1>. QED
  BY <1>3, <1>4, <1>5
     DEF DescriptorOK, BoundOwned, StoreVrsAlive, BindingTableExists,
         SubifsMatchStore, Routed
\* removeVrf deletes 0 or its own table; no live router interface is bound
\* to the latter, since tables of distinct virtual routers differ.
LEMMA RemoveVrfStep ==
    ASSUME IInv, NEW v \in Vrs, removeVrf(v)
    PROVE  IInv'
<1>. USE DEF IInv
<1>1. /\ v \in vrAlive \ {DefaultVr}
      /\ \A r \in rifStore : RifVrf[r] # v
      /\ vrAlive' = vrAlive \ {v} /\ lastStatus' = "SUCCESS"
      /\ UNCHANGED <<rifStore, osTable, dpSubifs, ifTable, ifMtu, ifUp>>
  BY DEF removeVrf, vpp_del_ip_vrf, dpVars
<1>2. CASE vpp_del_ip_vrf(v)
  <2>1. /\ v \in DOMAIN vrfObjMap
        /\ dpTables' = dpTables \ {vrfObjMap[v]}
        /\ flowHash' = flowHash \ ({vrfObjMap[v]} \ {0})
        /\ vrfObjMap' = [x \in DOMAIN vrfObjMap \ {v} |-> vrfObjMap[x]]
    BY <1>2 DEF vpp_del_ip_vrf, MapErase, Restrict
  <2>2. vrfObjMap[v] \in {0, VrTable[v]}
    BY <2>1 DEF DescriptorOK
  <2>3. TypeOK'
    BY <1>1, <2>1 DEF TypeOK
  <2>4. DescriptorOK'
    BY <2>1 DEF DescriptorOK
  <2>5. BindingTableExists'
    <3>. SUFFICES ASSUME NEW i \in Intfs, ifTable[i] # 0
                  PROVE  ifTable[i] \in dpTables'
      BY <1>1 DEF BindingTableExists
    <3>1. PICK r \in rifStore : Routed(r) /\ Intf(r) = i
                                /\ ifTable[i] = VrTable[RifVrf[r]]
      BY DEF BoundOwned
    <3>2. RifVrf[r] # v /\ RifVrf[r] \in Vrs
      BY <1>1, <3>1, RifAssumption DEF TypeOK
    <3>3. ifTable[i] # vrfObjMap[v]
      BY <2>2, <3>1, <3>2, TableAssumption
    <3>. QED  BY <2>1, <3>3 DEF BindingTableExists
  <2>6. StoreVrsAlive'
    BY <1>1 DEF StoreVrsAlive
  <2>. QED
    BY <1>1, <2>3, <2>4, <2>5, <2>6
       DEF OsOwned, BoundOwned, SubifsMatchStore, Routed
<1>3. CASE v \notin DOMAIN vrfObjMap /\ UNCHANGED dpVars
  <2>1. UNCHANGED <<vrfObjMap, dpTables, flowHash>>
    BY <1>3 DEF dpVars
  <2>. QED
    BY <1>1, <2>1 DEF TypeOK, OsOwned, DescriptorOK, BoundOwned,
       StoreVrsAlive, BindingTableExists, SubifsMatchStore, Routed
<1>. QED  BY <1>2, <1>3 DEF removeVrf
-----------------------------------------------------------------------------
(* removeRouterif                                                          *)

\* Dropping a router interface that does not route, with the dataplane
\* untouched, keeps the invariant.
LEMMA DropUnroutedKeeps ==
    ASSUME IInv, NEW r \in rifStore, ~Routed(r),
           rifStore' = rifStore \ {r}, lastStatus' = "SUCCESS",
           UNCHANGED <<vrAlive, osTable>>, UNCHANGED dpVars
    PROVE  IInv'
<1>. USE DEF IInv
<1>1. UNCHANGED <<vrfObjMap, dpTables, flowHash, dpSubifs, ifTable, ifMtu, ifUp>>
  BY DEF dpVars
<1>2. TypeOK' /\ OsOwned' /\ DescriptorOK' /\ StoreVrsAlive'
      /\ BindingTableExists'
  BY <1>1 DEF TypeOK, OsOwned, DescriptorOK, StoreVrsAlive, BindingTableExists
<1>3. BoundOwned'
  BY <1>1 DEF BoundOwned
<1>4. SubifsMatchStore'
  <2>1. {x \in rifStore' : Routed(x) /\ RifType[x] = "sub_port"}
        = {x \in rifStore : Routed(x) /\ RifType[x] = "sub_port"}
    OBVIOUS
  <2>. QED  BY <1>1, <2>1 DEF SubifsMatchStore
<1>. QED  BY <1>2, <1>3, <1>4

\* Removing a port router interface resets its interface to table 0.
LEMMA RemovePortKeeps ==
    ASSUME IInv, NEW r \in rifStore, RifType[r] # "sub_port",
           RifPort[r] \in Ports,
           rifStore' = rifStore \ {r}, lastStatus' = "SUCCESS",
           UNCHANGED <<vrAlive, osTable>>,
           vpp_router_interface_remove_vrf(RifPort[r])
    PROVE  IInv'
<1>. USE DEF IInv
<1>. DEFINE p == RifPort[r]
<1>1. UNCHANGED <<vrfObjMap, dpTables, flowHash, dpSubifs, ifMtu, ifUp>>
  BY DEF vpp_router_interface_remove_vrf
<1>2. p \in TapPorts => <<p, 0>> \in Intfs
  BY DEF Intfs
<1>3. \A i \in Intfs : ifTable'[i] \in {0, ifTable[i]}
      /\ (p \in TapPorts /\ i = <<p, 0>> => ifTable'[i] = 0)
  BY <1>2 DEF vpp_router_interface_remove_vrf, TypeOK
<1>4. ifTable' \in [Intfs -> Tables]
  BY <1>2, TableAssumption DEF vpp_router_interface_remove_vrf, TypeOK
<1>5. TypeOK'
  BY <1>1, <1>4 DEF TypeOK
<1>6. BoundOwned'
  <2>. SUFFICES ASSUME NEW i \in Intfs, ifTable'[i] # 0
                PROVE  \E x \in rifStore' : /\ Routed(x) /\ Intf(x) = i
                                            /\ ifTable'[i] = VrTable[RifVrf[x]]
    BY DEF BoundOwned
  <2>1. ifTable'[i] = ifTable[i]
    BY <1>3
  <2>2. PICK x \in rifStore : Routed(x) /\ Intf(x) = i
                              /\ ifTable[i] = VrTable[RifVrf[x]]
    BY <2>1 DEF BoundOwned
  <2>3. x # r
    <3>. SUFFICES ASSUME x = r PROVE FALSE
      OBVIOUS
    <3>1. p \in TapPorts /\ i = <<p, 0>>
      BY <2>2, RoutedShape DEF TypeOK
    <3>. QED  BY <1>3, <3>1
  <2>. QED  BY <2>1, <2>2, <2>3
<1>7. BindingTableExists'
  BY <1>1, <1>3 DEF BindingTableExists
<1>8. SubifsMatchStore'
  <2>1. {x \in rifStore' : Routed(x) /\ RifType[x] = "sub_port"}
        = {x \in rifStore : Routed(x) /\ RifType[x] = "sub_port"}
    OBVIOUS
  <2>. QED  BY <1>1, <2>1 DEF SubifsMatchStore
<1>. QED
  BY <1>1, <1>5, <1>6, <1>7, <1>8 DEF OsOwned, DescriptorOK, StoreVrsAlive

\* Removing a routed sub-port deletes its sub-interface, which no other
\* router interface shares.
LEMMA RemoveSubKeeps ==
    ASSUME IInv, NEW r \in rifStore, Routed(r), RifType[r] = "sub_port",
           rifStore' = rifStore \ {r}, lastStatus' = "SUCCESS",
           UNCHANGED <<vrAlive, osTable>>, DeleteSubif(Intf(r))
    PROVE  IInv'
<1>. USE DEF IInv
<1>. DEFINE i == Intf(r)
<1>0. r \in Rifs
  BY DEF TypeOK
<1>1. i \in TapPorts \X Vlans /\ i \in Intfs /\ RifPort[r] # NoPort
  <2>1. i \in TapPorts \X Vlans /\ RifPort[r] \in TapPorts
    BY <1>0, RoutedShape
  <2>2. TapPorts \subseteq Ports /\ Vlans \subseteq {0} \cup Vlans
    BY PortAssumption
  <2>. QED  BY <2>1, <2>2, PortAssumption DEF Intfs
<1>2. UNCHANGED <<vrfObjMap, dpTables, flowHash>>
      /\ dpSubifs' = dpSubifs \ {i}
      /\ ifTable' = [ifTable EXCEPT ![i] = 0]
      /\ ifMtu' = [ifMtu EXCEPT ![i] = DefaultMtu]
      /\ ifUp' = [ifUp EXCEPT ![i] = FALSE]
  BY DEF DeleteSubif
<1>3. TypeOK'
  BY <1>1, <1>2, TableAssumption DEF TypeOK
<1>4. \A j \in Intfs : ifTable'[j] = IF j = i THEN 0 ELSE ifTable[j]
  BY <1>1, <1>2 DEF TypeOK
<1>5. \A x \in rifStore : Routed(x) /\ Intf(x) = i => x = r
  <2>. SUFFICES ASSUME NEW x \in rifStore, Routed(x), Intf(x) = i PROVE x = r
    OBVIOUS
  <2>1. RifPort[x] # NoPort
    BY RoutedShape, PortAssumption DEF TypeOK
  <2>. QED  BY <1>1, <2>1, IntfInjective DEF TypeOK
<1>6. BoundOwned'
  <2>. SUFFICES ASSUME NEW j \in Intfs, ifTable'[j] # 0
                PROVE  \E x \in rifStore' : /\ Routed(x) /\ Intf(x) = j
                                            /\ ifTable'[j] = VrTable[RifVrf[x]]
    BY DEF BoundOwned
  <2>1. j # i /\ ifTable'[j] = ifTable[j]
    BY <1>4
  <2>2. PICK x \in rifStore : Routed(x) /\ Intf(x) = j
                              /\ ifTable[j] = VrTable[RifVrf[x]]
    BY <2>1 DEF BoundOwned
  <2>. QED  BY <2>1, <2>2
<1>7. BindingTableExists'
  BY <1>2, <1>4 DEF BindingTableExists
<1>8. SubifsMatchStore'
  <2>. DEFINE S == {x \in rifStore : Routed(x) /\ RifType[x] = "sub_port"}
  <2>1. {x \in rifStore' : Routed(x) /\ RifType[x] = "sub_port"} = S \ {r}
    OBVIOUS
  <2>2. {Intf(x) : x \in S \ {r}} = {Intf(x) : x \in S} \ {i}
    BY <1>5
  <2>. QED  BY <1>2, <2>1, <2>2 DEF SubifsMatchStore
<1>. QED
  BY <1>2, <1>3, <1>6, <1>7, <1>8 DEF OsOwned, DescriptorOK, StoreVrsAlive

\* removeRouterif keeps the invariant.
LEMMA RemoveRifStep ==
    ASSUME IInv, NEW r \in Rifs, removeRouterif(r)
    PROVE  IInv'
<1>1. /\ r \in rifStore /\ rifStore' = rifStore \ {r}
      /\ lastStatus' = "SUCCESS" /\ UNCHANGED <<vrAlive, osTable>>
  BY DEF removeRouterif
<1>2. CASE UpdateCheck(r) # "CONTINUE" /\ UNCHANGED dpVars
  BY <1>1, <1>2, RoutedShape, DropUnroutedKeeps
<1>3. CASE UpdateCheck(r) = "CONTINUE" /\ RifType[r] # "sub_port"
           /\ vpp_router_interface_remove_vrf(RifPort[r])
  <2>1. RifPort[r] \in Ports
    BY <1>3, RifAssumption DEF UpdateCheck
  <2>. QED  BY <1>1, <1>3, <2>1, RemovePortKeeps
<1>4. CASE UpdateCheck(r) = "CONTINUE" /\ RifType[r] = "sub_port"
           /\ (RifVlan[r] = NoVlan \/ RifPort[r] \notin TapPorts)
           /\ UNCHANGED dpVars
  <2>1. ~Routed(r)
    BY <1>4 DEF Routed
  <2>. QED  BY <1>1, <1>4, <2>1, DropUnroutedKeeps
<1>5. CASE UpdateCheck(r) = "CONTINUE" /\ RifType[r] = "sub_port"
           /\ RifVlan[r] # NoVlan /\ RifPort[r] \in TapPorts
           /\ DeleteSubif(Intf(r))
  <2>1. Routed(r)
    BY <1>5 DEF Routed
  <2>. QED  BY <1>1, <1>5, <2>1, RemoveSubKeeps
<1>. QED  BY <1>2, <1>3, <1>4, <1>5 DEF removeRouterif, vpp_remove_router_interface
-----------------------------------------------------------------------------
(* createRouterif                                                          *)

\* MTU and admin state writes keep their types.
LEMMA SettingsTyped ==
    ASSUME TypeOK, dpSubifs' \subseteq TapPorts \X Vlans, NEW i,
           NEW mtu \in {NoMtu} \cup Mtus, NEW adm \in AdminAttrs
    PROVE  /\ SetMtu(i, mtu) \in [Intfs -> Mtus \cup {DefaultMtu}]
           /\ SetState(i, adm) \in [Intfs -> BOOLEAN]
<1>1. DpIntfs(dpSubifs') \subseteq Intfs
  BY PortAssumption DEF DpIntfs, Intfs
<1>. QED  BY <1>1 DEF SetMtu, SetState, TypeOK

\* A step that writes only dataplane settings and resets bindings to 0
\* keeps the invariant.
LEMMA UnbindKeeps ==
    ASSUME IInv,
           UNCHANGED <<rifStore, vrAlive, osTable, vrfObjMap, dpTables,
                       flowHash, dpSubifs>>,
           lastStatus' \in {"NONE", "SUCCESS", "FAILURE"},
           ifTable' \in [Intfs -> Tables],
           \A j \in Intfs : ifTable'[j] \in {0, ifTable[j]},
           ifMtu' \in [Intfs -> Mtus \cup {DefaultMtu}],
           ifUp' \in [Intfs -> BOOLEAN]
    PROVE  IInv'
<1>. USE DEF IInv
<1>1. TypeOK'
  BY DEF TypeOK
<1>2. BoundOwned'
  <2>. SUFFICES ASSUME NEW j \in Intfs, ifTable'[j] # 0
                PROVE  \E x \in rifStore' : /\ Routed(x) /\ Intf(x) = j
                                            /\ ifTable'[j] = VrTable[RifVrf[x]]
    BY DEF BoundOwned
  <2>1. ifTable'[j] = ifTable[j]
    OBVIOUS
  <2>. QED  BY <2>1 DEF BoundOwned
<1>3. BindingTableExists'
  BY DEF BindingTableExists
<1>. QED
  BY <1>1, <1>2, <1>3
     DEF OsOwned, DescriptorOK, StoreVrsAlive, SubifsMatchStore, Routed

\* The update path of createRouterif (the object exists) keeps the invariant.
LEMMA UpdateRifStep ==
    ASSUME IInv, NEW r \in Rifs, r \in rifStore,
           NEW mtu \in {NoMtu} \cup Mtus, NEW adm \in AdminAttrs,
           vpp_update_router_interface(r, mtu, adm),
           lastStatus' = "FAILURE", UNCHANGED <<rifStore, vrAlive, osTable>>
    PROVE  IInv'
<1>. USE DEF IInv
<1>0. ifTable \in [Intfs -> Tables] /\ ifMtu \in [Intfs -> Mtus \cup {DefaultMtu}]
      /\ ifUp \in [Intfs -> BOOLEAN]
  BY DEF TypeOK
<1>1. CASE UpdateCheck(r) # "CONTINUE" /\ UNCHANGED dpVars
  BY <1>0, <1>1, UnbindKeeps DEF dpVars
<1>2. CASE UpdateCheck(r) = "CONTINUE" /\ RifType[r] # "sub_port"
           /\ vpp_router_interface_remove_vrf(RifPort[r])
  <2>. DEFINE p == RifPort[r]
  <2>1. p \in TapPorts => <<p, 0>> \in Intfs
    BY PortAssumption DEF Intfs
  <2>2. ifTable' \in [Intfs -> Tables]
        /\ \A j \in Intfs : ifTable'[j] \in {0, ifTable[j]}
    BY <1>0, <1>2, <2>1, TableAssumption DEF vpp_router_interface_remove_vrf
  <2>. QED  BY <1>0, <1>2, <2>2, UnbindKeeps DEF vpp_router_interface_remove_vrf
<1>3. CASE UpdateCheck(r) = "CONTINUE" /\ RifType[r] = "sub_port"
           /\ UNCHANGED <<vrfObjMap, dpTables, flowHash, dpSubifs, ifTable>>
           /\ ifMtu' = (IF RifVlan[r] = NoVlan THEN ifMtu ELSE SetMtu(Intf(r), mtu))
           /\ ifUp' = (IF RifVlan[r] = NoVlan THEN ifUp ELSE SetState(Intf(r), adm))
  <2>1. dpSubifs' \subseteq TapPorts \X Vlans
    BY <1>3 DEF TypeOK
  <2>2. /\ SetMtu(Intf(r), mtu) \in [Intfs -> Mtus \cup {DefaultMtu}]
        /\ SetState(Intf(r), adm) \in [Intfs -> BOOLEAN]
    BY <2>1, SettingsTyped
  <2>3. ifMtu' \in [Intfs -> Mtus \cup {DefaultMtu}] /\ ifUp' \in [Intfs -> BOOLEAN]
    <3>1. CASE RifVlan[r] = NoVlan
      <4>1. ifMtu' = ifMtu /\ ifUp' = ifUp
        BY <1>3, <3>1
      <4>. QED  BY <1>0, <4>1
    <3>2. CASE RifVlan[r] # NoVlan
      <4>1. ifMtu' = SetMtu(Intf(r), mtu) /\ ifUp' = SetState(Intf(r), adm)
        BY <1>3, <3>2
      <4>. QED  BY <2>2, <4>1
    <3>. QED  BY <3>1, <3>2
  <2>. QED  BY <1>0, <1>3, <2>3, UnbindKeeps
<1>. QED  BY <1>1, <1>2, <1>3, Zenon DEF vpp_update_router_interface

\* Acquiring a VRF entry with 0 or the virtual router's own table keeps the
\* entries well formed and never drops a dataplane table.
LEMMA AddVrfKeeps ==
    ASSUME TypeOK, DescriptorOK, NEW v \in Vrs, NEW t \in {0, VrTable[v]},
           vpp_add_ip_vrf(v, t)
    PROVE  /\ DOMAIN vrfObjMap' \subseteq Vrs
           /\ \A w \in DOMAIN vrfObjMap' : vrfObjMap'[w] \in Tables
           /\ DescriptorOK'
           /\ dpTables \subseteq dpTables'
           /\ dpTables' \subseteq Tables \ {0} /\ flowHash' \subseteq Tables
<1>1. t \in Tables
  BY TableAssumption
<1>2. CASE v \in DOMAIN vrfObjMap /\ UNCHANGED <<vrfObjMap, dpTables, flowHash>>
  BY <1>2 DEF TypeOK, DescriptorOK
<1>3. CASE /\ v \notin DOMAIN vrfObjMap
           /\ vrfObjMap' = MapSet(vrfObjMap, v, t)
           /\ dpTables' = dpTables \cup ({t} \ {0})
           /\ flowHash' = flowHash \cup {t}
  <2>1. DOMAIN vrfObjMap' = DOMAIN vrfObjMap \cup {v}
        /\ \A w \in DOMAIN vrfObjMap' :
             vrfObjMap'[w] = IF w = v THEN t ELSE vrfObjMap[w]
    BY <1>3 DEF MapSet
  <2>. QED  BY <1>1, <1>3, <2>1 DEF TypeOK, DescriptorOK
<1>4. CASE /\ v \notin DOMAIN vrfObjMap /\ t # 0 /\ VrfAddMayFail
           /\ UNCHANGED <<vrfObjMap, dpTables, flowHash>>
  BY <1>4 DEF TypeOK, DescriptorOK
<1>. QED  BY <1>2, <1>3, <1>4 DEF vpp_add_ip_vrf

\* A create that stops at an early return stores a router interface that
\* does not route and leaves the dataplane alone.
LEMMA AddUnroutedKeeps ==
    ASSUME IInv, NEW r \in Rifs, ~Routed(r), RifVrf[r] \in vrAlive,
           rifStore' = rifStore \cup {r}, lastStatus' = "SUCCESS",
           UNCHANGED <<vrAlive, osTable>>, UNCHANGED dpVars
    PROVE  IInv'
<1>. USE DEF IInv
<1>1. UNCHANGED <<vrfObjMap, dpTables, flowHash, dpSubifs, ifTable, ifMtu, ifUp>>
  BY DEF dpVars
<1>2. TypeOK' /\ OsOwned' /\ DescriptorOK' /\ StoreVrsAlive'
      /\ BindingTableExists'
  BY <1>1 DEF TypeOK, OsOwned, DescriptorOK, StoreVrsAlive, BindingTableExists
<1>3. BoundOwned'
  BY <1>1 DEF BoundOwned
<1>4. SubifsMatchStore'
  <2>1. {x \in rifStore' : Routed(x) /\ RifType[x] = "sub_port"}
        = {x \in rifStore : Routed(x) /\ RifType[x] = "sub_port"}
    OBVIOUS
  <2>. QED  BY <1>1, <2>1 DEF SubifsMatchStore
<1>. QED  BY <1>2, <1>3, <1>4

\* A create that gets past its early returns binds the interface to the
\* table the host gave it, which is 0 or the virtual router's own table,
\* and only when that table exists.
LEMMA CreateRoutedKeeps ==
    ASSUME IInv, ~ExecMayFail, NEW r \in Rifs, r \notin rifStore,
           Routed(r), RifVrf[r] \in vrAlive,
           NEW mtu \in {NoMtu} \cup Mtus, NEW adm \in AdminAttrs,
           vpp_create_router_interface(r, mtu, adm),
           rifStore' = rifStore \cup {r}, lastStatus' = "SUCCESS",
           UNCHANGED <<vrAlive, osTable>>
    PROVE  IInv'
<1>. USE DEF IInv
<1>. DEFINE i == Intf(r)
            v == RifVrf[r]
            t == osTable[i]
<1>0. CreateCheck(r) = "CONTINUE"
  BY RoutedContinue
<1>1. RifPort[r] # NoPort /\ i \in Intfs /\ v \in Vrs
  BY RoutedShape, IntfType, PortAssumption, RifAssumption
<1>2. t \in {0, VrTable[v]}
  BY <1>1, OsTableOfRif
<1>3. VrfLookup(i) = {<<0, t>>}
  BY DEF VrfLookup
<1>4. /\ dpSubifs' = IF RifType[r] = "sub_port" THEN dpSubifs \cup {i}
                                                ELSE dpSubifs
      /\ vpp_add_ip_vrf(v, t)
      /\ ifTable' = IF t # 0 THEN SetInterfaceVrf(i, t) ELSE ifTable
      /\ ifMtu' = SetMtu(i, mtu)
      /\ ifUp' = SetState(i, adm)
  BY <1>0, <1>3 DEF vpp_create_router_interface
<1>5. dpSubifs' \subseteq TapPorts \X Vlans
  BY <1>4, RoutedShape DEF TypeOK
<1>6. /\ DOMAIN vrfObjMap' \subseteq Vrs
      /\ \A w \in DOMAIN vrfObjMap' : vrfObjMap'[w] \in Tables
      /\ DescriptorOK'
      /\ dpTables \subseteq dpTables'
      /\ dpTables' \subseteq Tables \ {0} /\ flowHash' \subseteq Tables
  BY <1>1, <1>2, <1>4, AddVrfKeeps
<1>7. /\ ifTable' \in [Intfs -> Tables]
      /\ \A j \in Intfs : \/ ifTable'[j] = ifTable[j]
                          \/ j = i /\ ifTable'[j] = t /\ t \in dpTables' \cup {0}
  BY <1>1, <1>2, <1>4, TableAssumption DEF SetInterfaceVrf, TypeOK
<1>8. ifMtu' \in [Intfs -> Mtus \cup {DefaultMtu}] /\ ifUp' \in [Intfs -> BOOLEAN]
  BY <1>4, <1>5, SettingsTyped
<1>9. TypeOK'
  BY <1>5, <1>6, <1>7, <1>8 DEF TypeOK
<1>10. BoundOwned'
  <2>. SUFFICES ASSUME NEW j \in Intfs, ifTable'[j] # 0
                PROVE  \E x \in rifStore' : /\ Routed(x) /\ Intf(x) = j
                                            /\ ifTable'[j] = VrTable[RifVrf[x]]
    BY DEF BoundOwned
  <2>1. CASE ifTable'[j] = ifTable[j]
    BY <2>1 DEF BoundOwned
  <2>2. CASE j = i /\ ifTable'[j] = t
    BY <1>2, <2>2
  <2>. QED  BY <1>7, <2>1, <2>2
<1>11. BindingTableExists'
  BY <1>6, <1>7 DEF BindingTableExists
<1>12. SubifsMatchStore'
  <2>. DEFINE S == {x \in rifStore : Routed(x) /\ RifType[x] = "sub_port"}
  <2>1. CASE RifType[r] = "sub_port"
    <3>1. {x \in rifStore' : Routed(x) /\ RifType[x] = "sub_port"} = S \cup {r}
      BY <2>1
    <3>2. {Intf(x) : x \in S \cup {r}} = {Intf(x) : x \in S} \cup {i}
      OBVIOUS
    <3>. QED  BY <1>4, <2>1, <3>1, <3>2 DEF SubifsMatchStore
  <2>2. CASE RifType[r] # "sub_port"
    <3>1. {x \in rifStore' : Routed(x) /\ RifType[x] = "sub_port"} = S
      BY <2>2
    <3>. QED  BY <1>4, <2>2, <3>1 DEF SubifsMatchStore
  <2>. QED  BY <2>1, <2>2
<1>13. StoreVrsAlive'
  BY DEF StoreVrsAlive
<1>. QED  BY <1>6, <1>9, <1>10, <1>11, <1>12, <1>13 DEF OsOwned

\* createRouterif keeps the invariant when every VRF lookup succeeds.
LEMMA CreateRifStep ==
    ASSUME IInv, ~ExecMayFail, NEW r \in Rifs, createRouterif(r)
    PROVE  IInv'
<1>1. RifVrf[r] \in vrAlive /\ UNCHANGED <<vrAlive, osTable>>
  BY DEF createRouterif
<1>2. PICK mtu \in {NoMtu} \cup Mtus, adm \in AdminAttrs :
        \/ /\ r \notin rifStore
           /\ vpp_create_router_interface(r, mtu, adm)
           /\ rifStore' = rifStore \cup {r}
           /\ lastStatus' = "SUCCESS"
        \/ /\ r \in rifStore
           /\ vpp_update_router_interface(r, mtu, adm)
           /\ lastStatus' = "FAILURE"
           /\ UNCHANGED rifStore
  BY DEF createRouterif
<1>3. CASE r \notin rifStore /\ vpp_create_router_interface(r, mtu, adm)
           /\ rifStore' = rifStore \cup {r} /\ lastStatus' = "SUCCESS"
  <2>1. CASE Routed(r)
    BY <1>1, <1>3, <2>1, CreateRoutedKeeps
  <2>2. CASE ~Routed(r)
    <3>0. CreateCheck(r) # "CONTINUE"
      BY <2>2, RoutedContinue
    <3>1. UNCHANGED dpVars
      BY <1>3, <3>0 DEF vpp_create_router_interface
    <3>. QED  BY <1>1, <1>3, <2>2, <3>1, AddUnroutedKeeps
  <2>. QED  BY <2>1, <2>2
<1>4. CASE r \in rifStore /\ vpp_update_router_interface(r, mtu, adm)
           /\ lastStatus' = "FAILURE" /\ UNCHANGED rifStore
  BY <1>1, <1>4, UpdateRifStep
<1>. QED  BY <1>2, <1>3, <1>4
-----------------------------------------------------------------------------
(* The invariant.                                                          *)

\* Every step of Next, and a stutter, keeps the invariant.
LEMMA StepIInv ==
    ASSUME ~ExecMayFail
    PROVE  IInv /\ [Next]_vars => IInv'
<1>. SUFFICES ASSUME IInv, [Next]_vars PROVE IInv'
  OBVIOUS
<1>1. ASSUME NEW r \in Rifs, createRouterif(r) PROVE IInv'
  BY <1>1, CreateRifStep
<1>2. ASSUME NEW r \in Rifs, removeRouterif(r) PROVE IInv'
  BY <1>2, RemoveRifStep
<1>3. ASSUME NEW r \in Rifs, OsEnslave(r) \/ OsRelease(r) PROVE IInv'
  BY <1>3, OsStep
<1>4. ASSUME NEW v \in Vrs, removeVrf(v) PROVE IInv'
  BY <1>4, RemoveVrfStep
<1>5. CASE UNCHANGED vars
  BY <1>5 DEF vars, IInv, TypeOK, OsOwned, DescriptorOK, BoundOwned,
     StoreVrsAlive, BindingTableExists, SubifsMatchStore, Routed
<1>. QED  BY <1>1, <1>2, <1>3, <1>4, <1>5 DEF Next

\* The invariant gives the properties the run rif checks.
LEMMA IInvProperties ==
    IInv => BindingTableExists /\ BindingsBelongToLiveRifs /\ SubifsMatchStore
BY DEF IInv, BoundOwned, BindingsBelongToLiveRifs

\* When every vpp_get_vrf_id succeeds, for every set of ports, VLANs,
\* virtual routers, tables and router interfaces: no dataplane interface is
\* bound to a table removeVrf deleted, only live routed router interfaces
\* have bindings, and the sub-interfaces are those of the stored sub-ports.
\* This is what create, update (the repeated create), remove and removeVrf
\* keep, with the host changing the linux VRFs at any time.
THEOREM RouterInterfaceBindingsInvariant ==
    ASSUME ~ExecMayFail
    PROVE  Spec => [](BindingTableExists /\ BindingsBelongToLiveRifs
                      /\ SubifsMatchStore)
<1>1. Init => IInv
  BY InitIInv
<1>2. IInv /\ [Next]_vars => IInv'
  BY StepIInv
<1>3. IInv => BindingTableExists /\ BindingsBelongToLiveRifs /\ SubifsMatchStore
  BY IInvProperties
<1>. QED  BY <1>1, <1>2, <1>3, PTL DEF Spec

\* When every vpp_get_vrf_id succeeds, an interface is bound to a
\* non-default table only while a routed router interface on it is in the
\* object store: remove unbinds a port and deletes a sub-port.
THEOREM BindingsBelongToLiveRifsInvariant ==
    ASSUME ~ExecMayFail
    PROVE  Spec => []BindingsBelongToLiveRifs
BY RouterInterfaceBindingsInvariant, PTL
====
