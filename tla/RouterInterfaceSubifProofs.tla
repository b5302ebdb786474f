---------------------- MODULE RouterInterfaceSubifProofs ----------------------
(***************************************************************************)
(* Proofs about RouterInterface for every outcome of vpp_get_vrf_id and of *)
(* ip_vrf_add: the types of the state, and that the dataplane             *)
(* sub-interfaces follow the object store.  Neither depends on the VRF id *)
(* create reads, so no assumption on ExecMayFail or VrfAddMayFail is made. *)
(***************************************************************************)
EXTENDS RouterInterfaceProofs

SInv == TypeOK /\ SubifsMatchStore

\* the routed sub-ports of a store
RoutedSubs(S) == {s \in S : Routed(s) /\ RifType[s] = "sub_port"}
-----------------------------------------------------------------------------
(* Lemmas about the helpers.                                               *)

\* vpp_add_ip_vrf with a table id keeps the VRF entries and tables typed.
LEMMA AddVrfTyped ==
    ASSUME TypeOK, NEW v \in Vrs, NEW t \in Tables, vpp_add_ip_vrf(v, t)
    PROVE  /\ DOMAIN vrfObjMap' \subseteq Vrs
           /\ \A w \in DOMAIN vrfObjMap' : vrfObjMap'[w] \in Tables
           /\ dpTables' \subseteq Tables \ {0} /\ flowHash' \subseteq Tables
<1>1. CASE UNCHANGED <<vrfObjMap, dpTables, flowHash>>
  BY <1>1 DEF TypeOK
<1>2. CASE /\ vrfObjMap' = MapSet(vrfObjMap, v, t)
           /\ dpTables' = dpTables \cup ({t} \ {0})
           /\ flowHash' = flowHash \cup {t}
  BY <1>2 DEF TypeOK, MapSet
<1>. QED  BY <1>1, <1>2 DEF vpp_add_ip_vrf

\* Every table id a VRF lookup can return, successful or not, is a table.
LEMMA VrfLookupTyped ==
    ASSUME TypeOK, NEW i \in Intfs, NEW res \in VrfLookup(i)
    PROVE  res[2] \in Tables
BY DEF VrfLookup, TypeOK

\* A step that leaves the store's routed sub-ports and the sub-interfaces
\* as they are keeps SubifsMatchStore.
LEMMA SubsKeep ==
    ASSUME SubifsMatchStore, RoutedSubs(rifStore') = RoutedSubs(rifStore),
           UNCHANGED dpSubifs
    PROVE  SubifsMatchStore'
BY DEF SubifsMatchStore, RoutedSubs

\* The dataplane-only part of TypeOK after a step that keeps the rest.
LEMMA TypeFromDp ==
    ASSUME TypeOK, rifStore' \subseteq Rifs,
           UNCHANGED <<vrAlive, osTable>>,
           lastStatus' \in {"NONE", "SUCCESS", "FAILURE"},
           DOMAIN vrfObjMap' \subseteq Vrs,
           \A w \in DOMAIN vrfObjMap' : vrfObjMap'[w] \in Tables,
           dpTables' \subseteq Tables \ {0}, flowHash' \subseteq Tables,
           dpSubifs' \subseteq TapPorts \X Vlans,
           ifTable' \in [Intfs -> Tables],
           ifMtu' \in [Intfs -> Mtus \cup {DefaultMtu}],
           ifUp' \in [Intfs -> BOOLEAN]
    PROVE  TypeOK'
BY DEF TypeOK
-----------------------------------------------------------------------------
(* The host and removeVrf.                                                 *)

\* The host writes a table of the model into one linux interface.
LEMMA OsStepS ==
    ASSUME SInv, NEW r \in Rifs, OsEnslave(r) \/ OsRelease(r)
    PROVE  SInv'
<1>1. RifPort[r] # NoPort /\ Intf(r) \in Intfs /\ RifVrf[r] \in Vrs
  BY IntfType, RifAssumption DEF OsEnslave, OsRelease
<1>2. osTable' \in [Intfs -> Tables]
  BY <1>1, TableAssumption DEF OsEnslave, OsRelease, SInv, TypeOK
<1>3. UNCHANGED <<rifStore, vrAlive, lastStatus, vrfObjMap, dpTables,
                  flowHash, dpSubifs, ifTable, ifMtu, ifUp>>
  BY DEF OsEnslave, OsRelease, dpVars
<1>. QED  BY <1>2, <1>3 DEF SInv, TypeOK, SubifsMatchStore

\* removeVrf erases one VRF entry and drops tables.
LEMMA RemoveVrfStepS ==
    ASSUME SInv, NEW v \in Vrs, removeVrf(v)
    PROVE  SInv'
<1>1. /\ vrAlive' = vrAlive \ {v} /\ lastStatus' = "SUCCESS"
      /\ UNCHANGED <<rifStore, osTable, dpSubifs, ifTable, ifMtu, ifUp>>
  BY DEF removeVrf, vpp_del_ip_vrf, dpVars
<1>2. /\ DOMAIN vrfObjMap' \subseteq Vrs
      /\ \A w \in DOMAIN vrfObjMap' : vrfObjMap'[w] \in Tables
      /\ dpTables' \subseteq Tables \ {0} /\ flowHash' \subseteq Tables
  <2>1. CASE vpp_del_ip_vrf(v)
    BY <2>1 DEF vpp_del_ip_vrf, MapErase, Restrict, SInv, TypeOK
  <2>2. CASE UNCHANGED dpVars
    BY <2>2 DEF dpVars, SInv, TypeOK
  <2>. QED  BY <2>1, <2>2 DEF removeVrf
<1>. QED  BY <1>1, <1>2 DEF SInv, TypeOK, SubifsMatchStore
-----------------------------------------------------------------------------
(* removeRouterif                                                          *)

\* Removing a routed sub-port deletes exactly its own sub-interface.
LEMMA RemoveSubS ==
    ASSUME SInv, NEW r \in rifStore, Routed(r), RifType[r] = "sub_port",
           rifStore' = rifStore \ {r}, DeleteSubif(Intf(r))
    PROVE  /\ SubifsMatchStore'
           /\ dpSubifs' \subseteq TapPorts \X Vlans
           /\ ifTable' \in [Intfs -> Tables]
           /\ ifMtu' \in [Intfs -> Mtus \cup {DefaultMtu}]
           /\ ifUp' \in [Intfs -> BOOLEAN]
           /\ UNCHANGED <<vrfObjMap, dpTables, flowHash>>
<1>. DEFINE i == Intf(r)
<1>0. r \in Rifs /\ TypeOK
  BY DEF SInv, TypeOK
<1>1. RifPort[r] # NoPort
  BY <1>0, RoutedShape, PortAssumption
<1>2. \A x \in rifStore : Routed(x) /\ Intf(x) = i => x = r
  <2>. SUFFICES ASSUME NEW x \in rifStore, Routed(x), Intf(x) = i PROVE x = r
    OBVIOUS
  <2>1. x \in Rifs /\ RifPort[x] # NoPort
    BY <1>0, RoutedShape, PortAssumption DEF TypeOK
  <2>. QED  BY <1>0, <1>1, <2>1, IntfInjective
<1>3. RoutedSubs(rifStore') = RoutedSubs(rifStore) \ {r}
  BY DEF RoutedSubs
<1>4. {Intf(x) : x \in RoutedSubs(rifStore) \ {r}}
      = {Intf(x) : x \in RoutedSubs(rifStore)} \ {i}
  BY <1>2 DEF RoutedSubs
<1>5. SubifsMatchStore'
  BY <1>3, <1>4 DEF DeleteSubif, SubifsMatchStore, SInv, RoutedSubs
<1>. QED
  BY <1>0, <1>5, TableAssumption, FlagAssumption DEF DeleteSubif, TypeOK

\* removeRouterif keeps the invariant.
LEMMA RemoveRifStepS ==
    ASSUME SInv, NEW r \in Rifs, removeRouterif(r)
    PROVE  SInv'
<1>0. TypeOK
  BY DEF SInv
<1>1. /\ r \in rifStore /\ rifStore' = rifStore \ {r}
      /\ lastStatus' = "SUCCESS" /\ UNCHANGED <<vrAlive, osTable>>
  BY DEF removeRouterif
<1>2. rifStore' \subseteq Rifs
  BY <1>0, <1>1 DEF TypeOK
<1>3. ASSUME ~Routed(r), UNCHANGED dpVars PROVE SInv'
  <2>1. RoutedSubs(rifStore') = RoutedSubs(rifStore)
    BY <1>1, <1>3 DEF RoutedSubs
  <2>2. SubifsMatchStore'
    BY <1>3, <2>1, SubsKeep DEF SInv, dpVars
  <2>. QED  BY <1>0, <1>1, <1>2, <1>3, <2>2 DEF SInv, TypeOK, dpVars
<1>4. CASE UpdateCheck(r) # "CONTINUE" /\ UNCHANGED dpVars
  BY <1>3, <1>4, RoutedShape
<1>5. CASE UpdateCheck(r) = "CONTINUE" /\ RifType[r] # "sub_port"
           /\ vpp_router_interface_remove_vrf(RifPort[r])
  <2>1. ifTable' \in [Intfs -> Tables]
    BY <1>0, <1>5, TableAssumption, PortAssumption, RifAssumption
       DEF vpp_router_interface_remove_vrf, TypeOK, Intfs
  <2>2. RoutedSubs(rifStore') = RoutedSubs(rifStore)
    BY <1>1, <1>5 DEF RoutedSubs
  <2>3. SubifsMatchStore'
    BY <1>5, <2>2, SubsKeep DEF SInv, vpp_router_interface_remove_vrf
  <2>. QED
    BY <1>0, <1>1, <1>2, <1>5, <2>1, <2>3, TypeFromDp
       DEF SInv, vpp_router_interface_remove_vrf, TypeOK
<1>6. CASE UpdateCheck(r) = "CONTINUE" /\ RifType[r] = "sub_port"
           /\ (RifVlan[r] = NoVlan \/ RifPort[r] \notin TapPorts)
           /\ UNCHANGED dpVars
  BY <1>3, <1>6 DEF Routed
<1>7. CASE UpdateCheck(r) = "CONTINUE" /\ RifType[r] = "sub_port"
           /\ RifVlan[r] # NoVlan /\ RifPort[r] \in TapPorts
           /\ DeleteSubif(Intf(r))
  <2>1. Routed(r)
    BY <1>7 DEF Routed
  <2>2. /\ SubifsMatchStore'
        /\ dpSubifs' \subseteq TapPorts \X Vlans
        /\ ifTable' \in [Intfs -> Tables]
        /\ ifMtu' \in [Intfs -> Mtus \cup {DefaultMtu}]
        /\ ifUp' \in [Intfs -> BOOLEAN]
        /\ UNCHANGED <<vrfObjMap, dpTables, flowHash>>
    BY <1>1, <1>7, <2>1, RemoveSubS
  <2>. QED  BY <1>0, <1>1, <1>2, <2>2, TypeFromDp DEF SInv, TypeOK
<1>. QED
  BY <1>4, <1>5, <1>6, <1>7 DEF removeRouterif, vpp_remove_router_interface
-----------------------------------------------------------------------------
(* createRouterif                                                          *)

\* The update path (the object exists) leaves the store and the
\* sub-interfaces, and writes typed settings.
LEMMA UpdateRifStepS ==
    ASSUME SInv, NEW r \in Rifs, r \in rifStore,
           NEW mtu \in {NoMtu} \cup Mtus, NEW adm \in AdminAttrs,
           vpp_update_router_interface(r, mtu, adm),
           lastStatus' = "FAILURE", UNCHANGED <<rifStore, vrAlive, osTable>>
    PROVE  SInv'
<1>0. TypeOK
  BY DEF SInv
<1>1. /\ UNCHANGED <<vrfObjMap, dpTables, flowHash, dpSubifs>>
      /\ ifTable' \in [Intfs -> Tables]
      /\ ifMtu' \in [Intfs -> Mtus \cup {DefaultMtu}]
      /\ ifUp' \in [Intfs -> BOOLEAN]
  <2>1. CASE UpdateCheck(r) # "CONTINUE" /\ UNCHANGED dpVars
    BY <1>0, <2>1 DEF dpVars, TypeOK
  <2>2. CASE UpdateCheck(r) = "CONTINUE" /\ RifType[r] # "sub_port"
             /\ vpp_router_interface_remove_vrf(RifPort[r])
    BY <1>0, <2>2, TableAssumption, PortAssumption
       DEF vpp_router_interface_remove_vrf, TypeOK, Intfs
  <2>3. CASE UpdateCheck(r) = "CONTINUE" /\ RifType[r] = "sub_port"
             /\ UNCHANGED <<vrfObjMap, dpTables, flowHash, dpSubifs, ifTable>>
             /\ ifMtu' = (IF RifVlan[r] = NoVlan THEN ifMtu
                          ELSE SetMtu(Intf(r), mtu))
             /\ ifUp' = (IF RifVlan[r] = NoVlan THEN ifUp
                         ELSE SetState(Intf(r), adm))
    <3>1. /\ SetMtu(Intf(r), mtu) \in [Intfs -> Mtus \cup {DefaultMtu}]
          /\ SetState(Intf(r), adm) \in [Intfs -> BOOLEAN]
      BY <1>0, <2>3, SettingsTyped DEF TypeOK
    <3>. QED  BY <1>0, <2>3, <3>1 DEF TypeOK
  <2>. QED  BY <2>1, <2>2, <2>3, Zenon DEF vpp_update_router_interface
<1>2. SubifsMatchStore'
  BY <1>1, SubsKeep DEF SInv
<1>. QED  BY <1>0, <1>1, <1>2, TypeFromDp DEF SInv, TypeOK

\* A create that gets past its early returns adds its sub-interface (for a
\* sub-port), whatever table id the VRF lookup gives.
LEMMA CreateRoutedS ==
    ASSUME SInv, NEW r \in Rifs, r \notin rifStore,
           CreateCheck(r) = "CONTINUE",
           NEW mtu \in {NoMtu} \cup Mtus, NEW adm \in AdminAttrs,
           vpp_create_router_interface(r, mtu, adm),
           rifStore' = rifStore \cup {r}, lastStatus' = "SUCCESS",
           UNCHANGED <<vrAlive, osTable>>
    PROVE  SInv'
<1>. DEFINE i == Intf(r)
            v == RifVrf[r]
<1>0. TypeOK /\ Routed(r)
  BY RoutedContinue DEF SInv
<1>1. RifPort[r] # NoPort /\ i \in Intfs /\ v \in Vrs
  BY <1>0, RoutedShape, IntfType, PortAssumption, RifAssumption
<1>2. dpSubifs' = IF RifType[r] = "sub_port" THEN dpSubifs \cup {i}
                                             ELSE dpSubifs
  BY DEF vpp_create_router_interface
<1>3. dpSubifs' \subseteq TapPorts \X Vlans
  BY <1>0, <1>2, RoutedShape DEF TypeOK
<1>4. PICK res \in VrfLookup(i) :
        /\ vpp_add_ip_vrf(v, res[2])
        /\ ifTable' = IF res[1] = 0 /\ res[2] # 0
                      THEN SetInterfaceVrf(i, res[2]) ELSE ifTable
  BY DEF vpp_create_router_interface
<1>5. res[2] \in Tables
  BY <1>0, <1>1, VrfLookupTyped
<1>6. /\ DOMAIN vrfObjMap' \subseteq Vrs
      /\ \A w \in DOMAIN vrfObjMap' : vrfObjMap'[w] \in Tables
      /\ dpTables' \subseteq Tables \ {0} /\ flowHash' \subseteq Tables
  BY <1>0, <1>1, <1>4, <1>5, AddVrfTyped
<1>7. ifTable' \in [Intfs -> Tables]
  BY <1>0, <1>1, <1>4, <1>5 DEF SetInterfaceVrf, TypeOK
<1>8. ifMtu' \in [Intfs -> Mtus \cup {DefaultMtu}] /\ ifUp' \in [Intfs -> BOOLEAN]
  <2>1. ifMtu' = SetMtu(i, mtu) /\ ifUp' = SetState(i, adm)
    BY DEF vpp_create_router_interface
  <2>. QED  BY <1>0, <1>3, <2>1, SettingsTyped
<1>9. rifStore' \subseteq Rifs
  BY <1>0 DEF TypeOK
<1>10. SubifsMatchStore'
  <2>1. CASE RifType[r] = "sub_port"
    <3>1. RoutedSubs(rifStore') = RoutedSubs(rifStore) \cup {r}
      BY <1>0, <2>1 DEF RoutedSubs
    <3>2. {Intf(x) : x \in RoutedSubs(rifStore) \cup {r}}
          = {Intf(x) : x \in RoutedSubs(rifStore)} \cup {i}
      OBVIOUS
    <3>. QED  BY <1>2, <2>1, <3>1, <3>2 DEF SubifsMatchStore, SInv, RoutedSubs
  <2>2. CASE RifType[r] # "sub_port"
    <3>1. RoutedSubs(rifStore') = RoutedSubs(rifStore)
      BY <2>2 DEF RoutedSubs
    <3>. QED  BY <1>2, <2>2, <3>1 DEF SubifsMatchStore, SInv, RoutedSubs
  <2>. QED  BY <2>1, <2>2
<1>. QED  BY <1>0, <1>3, <1>6, <1>7, <1>8, <1>9, <1>10, TypeFromDp DEF SInv

\* createRouterif keeps the invariant, whatever vpp_get_vrf_id returns.
LEMMA CreateRifStepS ==
    ASSUME SInv, NEW r \in Rifs, createRouterif(r)
    PROVE  SInv'
<1>1. UNCHANGED <<vrAlive, osTable>>
  BY DEF createRouterif
<1>2. PICK mtu \in {NoMtu} \cup Mtus, adm \in AdminAttrs :
        \/ /\ r \notin rifStore
           /\ vpp_create_router_interface(r, mtu, adm)
           /\ rifStore' = rifStore \cup {r}
           /\ lastStatus' = "SUCCESS"
        \/ /\ r \in rifStore
           /\ vpp_update_router_interface(r, mtu, adm)
           /\ lastStatus' = "FAILURE"
           /\ UNCHANGED rifStore
  BY DEF createRouterif
<1>3. CASE r \notin rifStore /\ vpp_create_router_interface(r, mtu, adm)
           /\ rifStore' = rifStore \cup {r} /\ lastStatus' = "SUCCESS"
  <2>1. CASE CreateCheck(r) = "CONTINUE"
    BY <1>1, <1>3, <2>1, CreateRoutedS
  <2>2. CASE CreateCheck(r) # "CONTINUE"
    <3>1. UNCHANGED dpVars /\ ~Routed(r)
      BY <1>3, <2>2, RoutedContinue DEF vpp_create_router_interface
    <3>2. RoutedSubs(rifStore') = RoutedSubs(rifStore)
      BY <1>3, <3>1 DEF RoutedSubs
    <3>3. SubifsMatchStore'
      BY <3>1, <3>2, SubsKeep DEF SInv, dpVars
    <3>. QED  BY <1>1, <1>3, <3>1, <3>3 DEF SInv, TypeOK, dpVars
  <2>. QED  BY <2>1, <2>2
<1>4. CASE r \in rifStore /\ vpp_update_router_interface(r, mtu, adm)
           /\ lastStatus' = "FAILURE" /\ UNCHANGED rifStore
  BY <1>1, <1>4, UpdateRifStepS
<1>. QED  BY <1>2, <1>3, <1>4
-----------------------------------------------------------------------------
(* The invariant.                                                          *)

\* Every step of Next, and a stutter, keeps the invariant.
LEMMA StepSInv == SInv /\ [Next]_vars => SInv'
<1>. SUFFICES ASSUME SInv, [Next]_vars PROVE SInv'
  OBVIOUS
<1>1. ASSUME NEW r \in Rifs, createRouterif(r) PROVE SInv'
  BY <1>1, CreateRifStepS
<1>2. ASSUME NEW r \in Rifs, removeRouterif(r) PROVE SInv'
  BY <1>2, RemoveRifStepS
<1>3. ASSUME NEW r \in Rifs, OsEnslave(r) \/ OsRelease(r) PROVE SInv'
  BY <1>3, OsStepS
<1>4. ASSUME NEW v \in Vrs, removeVrf(v) PROVE SInv'
  BY <1>4, RemoveVrfStepS
<1>5. CASE UNCHANGED vars
  BY <1>5 DEF vars, SInv, TypeOK, SubifsMatchStore, Routed
<1>. QED  BY <1>1, <1>2, <1>3, <1>4, <1>5 DEF Next

\* For every set of ports, VLANs, virtual routers, tables and router
\* interfaces, and whether or not vpp_get_vrf_id and ip_vrf_add fail: the
\* dataplane sub-interfaces are exactly those of the routed sub-ports in
\* the object store.  Create adds one, remove deletes exactly that one
\* (the interface names of two router interfaces differ), and the update
\* path of a repeated create leaves them, whatever VRF id create read.
THEOREM SubifsMatchStoreInvariant ==
    Spec => [](TypeOK /\ SubifsMatchStore)
<1>1. Init => SInv
  BY InitIInv DEF IInv, SInv
<1>. QED  BY <1>1, StepSInv, PTL DEF Spec, SInv

\* For every value of the constants and flags, every variable keeps its
\* type: VRF entries and bindings hold table ids even when vpp_get_vrf_id
\* fails and create reads an uninitialised id.
THEOREM RouterInterfaceTypeInvariant == Spec => []TypeOK
BY SubifsMatchStoreInvariant, PTL
====
