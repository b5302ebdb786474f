------------------------------ MODULE Loopback ------------------------------
(***************************************************************************)
(* The route-driven loopback engine of SwitchStateBaseRif.cpp:            *)
(* process_interface_loopback, vpp_add_del_lpb_intf_ip_addr,               *)
(* eraseDualStackEntries and the instance allocator (LoopbackAllocator).   *)
(*                                                                         *)
(* A route to a destination IP is created or removed by the control plane. *)
(* On create the engine asks the OS which host interface owns the prefix;  *)
(* if its name is a loopback ("Loopback<k>") it either merges the          *)
(* destination onto the existing dataplane loopback "loop<k>" (dual stack) *)
(* or creates a new dataplane loopback "loop<instance>" with a freshly     *)
(* allocated instance, puts the address on it, pairs it with the host      *)
(* interface through a linux-cp tap, and recreates the host address around *)
(* the tap creation.  On remove it deletes the dataplane loopback recorded *)
(* for the destination, sweeps every map entry sharing its names and frees *)
(* the instance.                                                           *)
(*                                                                         *)
(* Names are pairs <<prefix, number>>: the host name "Loopback3" is        *)
(* <<"Loopback", 3>>, the dataplane name "loop3" is <<"loop", 3>>, and the *)
(* empty std::string that operator[] inserts is NoIfName.  The three       *)
(* std::maps are TLA+ functions whose DOMAIN is the set of keys present.   *)
(***************************************************************************)
EXTENDS Naturals, FiniteSets, Functions

CONSTANTS
    Dests,          \* destination IPs of routes (model values)
    LbSuffixes,     \* the k of the host loopback interfaces "Loopback<k>"
    MaxInstance     \* bound on the allocator's high-water mark

ASSUME DestsAssumption == Dests # {}
ASSUME LbSuffixesAssumption == LbSuffixes \subseteq Nat
ASSUME MaxInstanceAssumption == MaxInstance \in Nat \ {0}

VARIABLES
    lpbInstMap,          \* dataplane loopback name -> instance
    lpbIpToIfMap,        \* destination IP -> dataplane loopback name
    lpbIpToHostIfMap,    \* destination IP -> host interface name
    availableInstances,  \* allocator free set
    currentMaxInstance,  \* allocator high-water mark
    dpLoops,             \* instances of the loopbacks that exist in the dataplane
    dpLoopAddrs,         \* <<instance, dest>>: addresses on dataplane loopbacks
    dpLcpPairs,          \* <<instance, host name>>: linux-cp tap pairs
    osAddrs,             \* <<host name, dest>>: addresses the OS holds
    routes               \* destinations whose route object exists

engineVars == <<lpbInstMap, lpbIpToIfMap, lpbIpToHostIfMap>>
allocVars == <<availableInstances, currentMaxInstance>>
dpVars == <<dpLoops, dpLoopAddrs, dpLcpPairs>>
vars == <<lpbInstMap, lpbIpToIfMap, lpbIpToHostIfMap, availableInstances,
          currentMaxInstance, dpLoops, dpLoopAddrs, dpLcpPairs, osAddrs, routes>>

Alloc == INSTANCE LoopbackAllocator WITH held <- {}

Instances == Alloc!Instances

-----------------------------------------------------------------------------
(* Names.                                                                  *)

NoIfName == <<"", 0>>
LoopName(n) == <<"loop", n>>
HostLoopbacks == {<<"Loopback", k>> : k \in LbSuffixes}
PortIfName == <<"Ethernet", 0>>
HostNames == HostLoopbacks \cup {PortIfName}
LoopNames == {LoopName(i) : i \in Instances}

\* interfaceName.find("Loopback") != std::string::npos
IsLoopbackName(h) == h[1] = "Loopback"

\* getInstanceFromHostIfname: std::stoi of what follows "Loopback".
getInstanceFromHostIfname(h) == h[2]

\* get_intf_name_for_prefix: "ip addr show to <prefix> scope global", the
\* first interface listed, or the empty name when none holds the prefix.
get_intf_name_for_prefix(d) ==
    IF \E h \in HostNames : <<h, d>> \in osAddrs
      THEN CHOOSE h \in HostNames : <<h, d>> \in osAddrs
      ELSE NoIfName

-----------------------------------------------------------------------------
(* std::map helpers.                                                       *)

\* m[k] = v
MapSet(m, k, v) == [x \in DOMAIN m \cup {k} |-> IF x = k THEN v ELSE m[x]]

\* m[k] used as an rvalue: inserts a value-initialised entry if k is absent.
MapTouch(m, k, dflt) == IF k \in DOMAIN m THEN m ELSE MapSet(m, k, dflt)

\* m.erase(k)
MapErase(m, k) == Restrict(m, DOMAIN m \ {k})

\* erase every entry whose value is v
MapEraseValue(m, v) == Restrict(m, {k \in DOMAIN m : m[k] # v})

-----------------------------------------------------------------------------
(* Dataplane and OS side effects.                                          *)

\* delete_loopback: removes the loopback of that name with its addresses and
\* its linux-cp pair; a name no loopback has is a failed, harmless call.
DeleteLoopback(name) ==
    LET gone == {i \in dpLoops : LoopName(i) = name} IN
    /\ dpLoops' = dpLoops \ gone
    /\ dpLoopAddrs' = {a \in dpLoopAddrs : a[1] \notin gone}
    /\ dpLcpPairs' = {p \in dpLcpPairs : p[1] \notin gone}

\* configureLoopbackInterface(false, h) is "ip link delete dev h", which
\* drops every address of h; configure_lcp_interface recreates h as the tap
\* of the pair; configureLoopbackInterface(true, h, d) adds d back on it.
RecreateHostLoopback(h, d) ==
    osAddrs' = {a \in osAddrs : a[1] # h} \cup {<<h, d>>}

-----------------------------------------------------------------------------
(* The engine.                                                             *)

\* vpp_add_del_lpb_intf_ip_addr(is_add = true) for destination d whose host
\* interface is h.
vpp_add_lpb_intf_ip_addr(d, h) ==
    LET inst == Alloc!NextLoopbackInstance
        name == LoopName(inst)
        hostIfname == get_intf_name_for_prefix(d)
    IN
    /\ Alloc!getNextLoopbackInstance(inst)
    /\ lpbInstMap' = MapSet(lpbInstMap, name, inst)
    /\ lpbIpToIfMap' = MapSet(lpbIpToIfMap, d, name)
    \* create_loopback_instance fails, logged only, if inst already exists
    /\ dpLoops' = dpLoops \cup {inst}
    /\ dpLoopAddrs' = dpLoopAddrs \cup {<<inst, d>>}
    /\ lpbIpToHostIfMap' = MapSet(lpbIpToHostIfMap, d, hostIfname)
    /\ RecreateHostLoopback(hostIfname, d)
    /\ dpLcpPairs' = dpLcpPairs \cup {<<inst, hostIfname>>}

\* Mutant: the instance map entry is kept after the loopback is deleted.
vpp_del_lpb_intf_ip_addr_keepInst(d) ==
    LET ifMap == MapTouch(lpbIpToIfMap, d, NoIfName)
        hostMap == MapTouch(lpbIpToHostIfMap, d, NoIfName)
        name == ifMap[d]
        instMap == MapTouch(lpbInstMap, name, 0)
    IN
    /\ DeleteLoopback(name)
    /\ lpbInstMap' = IF name \in DOMAIN lpbInstMap THEN lpbInstMap ELSE MapErase(instMap, name)
    /\ lpbIpToIfMap' = MapEraseValue(ifMap, ifMap[d])
    /\ lpbIpToHostIfMap' = MapEraseValue(hostMap, hostMap[d])
    /\ Alloc!markLoopbackInstanceDeleted(instMap[name])

\* Mutant: the maps and the instance are released but delete_loopback is
\* never issued to the dataplane.
vpp_del_lpb_intf_ip_addr_noDelete(d) ==
    LET ifMap == MapTouch(lpbIpToIfMap, d, NoIfName)
        hostMap == MapTouch(lpbIpToHostIfMap, d, NoIfName)
        name == ifMap[d]
        instMap == MapTouch(lpbInstMap, name, 0)
    IN
    /\ UNCHANGED dpVars
    /\ lpbInstMap' = MapErase(instMap, name)
    /\ lpbIpToIfMap' = MapEraseValue(ifMap, ifMap[d])
    /\ lpbIpToHostIfMap' = MapEraseValue(hostMap, hostMap[d])
    /\ Alloc!markLoopbackInstanceDeleted(instMap[name])

\* vpp_add_del_lpb_intf_ip_addr(is_add = false) for destination d.
vpp_del_lpb_intf_ip_addr(d) ==
    LET ifMap == MapTouch(lpbIpToIfMap, d, NoIfName)
        hostMap == MapTouch(lpbIpToHostIfMap, d, NoIfName)
        name == ifMap[d]
        instMap == MapTouch(lpbInstMap, name, 0)
        inst == instMap[name]
    IN
    /\ DeleteLoopback(name)
    /\ lpbInstMap' = MapErase(instMap, name)
    \* eraseDualStackEntries(d): both maps now hold d
    /\ lpbIpToIfMap' = MapEraseValue(ifMap, ifMap[d])
    /\ lpbIpToHostIfMap' = MapEraseValue(hostMap, hostMap[d])
    /\ Alloc!markLoopbackInstanceDeleted(inst)

\* Mutant: no dual-stack check, every loopback route creates a loopback.
process_interface_loopback_add_noMerge(d) ==
    LET h == get_intf_name_for_prefix(d) IN
    \/ /\ ~IsLoopbackName(h)
       /\ UNCHANGED <<engineVars, allocVars, dpVars, osAddrs>>
    \/ /\ IsLoopbackName(h)
       /\ vpp_add_lpb_intf_ip_addr(d, h)

\* process_interface_loopback(is_add = true)
process_interface_loopback_add(d) ==
    LET h == get_intf_name_for_prefix(d)
        vppIfName == LoopName(getInstanceFromHostIfname(h))
    IN
    \/ /\ ~IsLoopbackName(h)
       /\ UNCHANGED <<engineVars, allocVars, dpVars, osAddrs>>
    \/ /\ IsLoopbackName(h)
       /\ vppIfName \in DOMAIN lpbInstMap
       \* interface already exists - store dual stack IP
       /\ lpbIpToIfMap' = MapSet(lpbIpToIfMap, d, vppIfName)
       /\ lpbIpToHostIfMap' = MapSet(lpbIpToHostIfMap, d, h)
       /\ UNCHANGED <<lpbInstMap, allocVars, dpVars, osAddrs>>
    \/ /\ IsLoopbackName(h)
       /\ vppIfName \notin DOMAIN lpbInstMap
       /\ vpp_add_lpb_intf_ip_addr(d, h)

\* process_interface_loopback(is_add = false)
process_interface_loopback_remove(d) ==
    LET hostMap == MapTouch(lpbIpToHostIfMap, d, NoIfName)
        h == hostMap[d]
    IN
    \/ /\ ~IsLoopbackName(h)
       /\ lpbIpToHostIfMap' = hostMap
       /\ UNCHANGED <<lpbInstMap, lpbIpToIfMap, allocVars, dpVars, osAddrs>>
    \/ /\ IsLoopbackName(h)
       /\ vpp_del_lpb_intf_ip_addr(d)
       /\ UNCHANGED osAddrs

-----------------------------------------------------------------------------
(* The caller: a route object is created once and removed once.           *)

RouteCreate(d) ==
    /\ d \notin routes
    /\ routes' = routes \cup {d}
    /\ process_interface_loopback_add(d)

RouteRemove(d) ==
    /\ d \in routes
    /\ routes' = routes \ {d}
    /\ process_interface_loopback_remove(d)

(* The host configuration changes addresses independently of the engine.  *)
OsAddrAdd(h, d) ==
    /\ <<h, d>> \notin osAddrs
    /\ osAddrs' = osAddrs \cup {<<h, d>>}
    /\ UNCHANGED <<engineVars, allocVars, dpVars, routes>>

OsAddrDel(h, d) ==
    /\ <<h, d>> \in osAddrs
    /\ osAddrs' = osAddrs \ {<<h, d>>}
    /\ UNCHANGED <<engineVars, allocVars, dpVars, routes>>

Init ==
    /\ lpbInstMap = <<>>
    /\ lpbIpToIfMap = <<>>
    /\ lpbIpToHostIfMap = <<>>
    /\ availableInstances = {}
    /\ currentMaxInstance = 0
    /\ dpLoops = {}
    /\ dpLoopAddrs = {}
    /\ dpLcpPairs = {}
    /\ osAddrs = {}
    /\ routes = {}

Next ==
    \/ \E d \in Dests : RouteCreate(d)
    \/ \E d \in Dests : RouteRemove(d)
    \/ \E h \in HostNames, d \in Dests : OsAddrAdd(h, d)
    \/ \E h \in HostNames, d \in Dests : OsAddrDel(h, d)

Spec == Init /\ [][Next]_vars

-----------------------------------------------------------------------------
(* Properties.                                                             *)

TypeOK ==
    /\ DOMAIN lpbInstMap \subseteq LoopNames
    /\ lpbInstMap \in [DOMAIN lpbInstMap -> Instances]
    /\ DOMAIN lpbIpToIfMap \subseteq Dests
    /\ lpbIpToIfMap \in [DOMAIN lpbIpToIfMap -> LoopNames]
    /\ DOMAIN lpbIpToHostIfMap \subseteq Dests
    /\ lpbIpToHostIfMap \in [DOMAIN lpbIpToHostIfMap -> HostNames \cup {NoIfName}]
    /\ availableInstances \subseteq Instances
    /\ currentMaxInstance \in 0..MaxInstance
    /\ dpLoops \subseteq Instances
    /\ dpLoopAddrs \subseteq Instances \X Dests
    /\ dpLcpPairs \subseteq Instances \X (HostNames \cup {NoIfName})
    /\ osAddrs \subseteq HostNames \X Dests
    /\ routes \subseteq Dests

(* Spec section 3: instance numbers are unique while allocated.  No        *)
(* dataplane loopback the engine records holds a number that is also in    *)
(* the free set, and no two recorded loopbacks share a number.  It breaks  *)
(* when a removal frees a number twice (the default 0 that                 *)
(* lpbInstMap[interfaceName] inserts for a missing name) or frees a        *)
(* number still in use.                                                    *)
InstanceSafe ==
    /\ \A n \in DOMAIN lpbInstMap : lpbInstMap[n] \notin availableInstances
    /\ \A n, m \in DOMAIN lpbInstMap : n # m => lpbInstMap[n] # lpbInstMap[m]

(* Spec sections 3 and 4.5: the two destination maps agree.  Two           *)
(* destinations share a dataplane loopback exactly when they share the     *)
(* host loopback interface, so a dual-stack pair is merged onto one        *)
(* construct and distinct host loopbacks never are.                        *)
ParallelMapsAgree ==
    \A d, e \in DOMAIN lpbIpToIfMap \cap DOMAIN lpbIpToHostIfMap :
        (lpbIpToIfMap[d] = lpbIpToIfMap[e]) <=> (lpbIpToHostIfMap[d] = lpbIpToHostIfMap[e])

(* Every loopback the engine created in the dataplane can still be torn    *)
(* down: some live route records it under a loopback host name, so that    *)
(* route's removal reaches delete_loopback for it.  A sweep in             *)
(* eraseDualStackEntries that drops the last such entry leaks the          *)
(* dataplane loopback and its instance number forever.                     *)
NoOrphanLoopback ==
    \A i \in dpLoops :
        \E d \in routes \cap DOMAIN lpbIpToIfMap \cap DOMAIN lpbIpToHostIfMap :
            /\ lpbIpToIfMap[d] = LoopName(i)
            /\ IsLoopbackName(lpbIpToHostIfMap[d])

(* A number goes back to the free set only in the step that deletes the    *)
(* dataplane loopback holding it: markLoopbackInstanceDeleted in           *)
(* vpp_add_del_lpb_intf_ip_addr releases the instance of the loopback      *)
(* delete_loopback removes, never one whose loopback lives on (so a later  *)
(* getNextLoopbackInstance would hand out a number the dataplane still     *)
(* uses), and never one with no loopback at all.                           *)
FreedWithItsLoopback ==
    [][\A i \in availableInstances' \ availableInstances :
          i \in dpLoops /\ i \notin dpLoops']_vars
=============================================================================
