------------------------------ MODULE IntfAddr ------------------------------
(***************************************************************************)
(* Interface address synchronisation of SwitchStateBaseRif.cpp:            *)
(* vpp_add_del_intf_ip_addr (an address of a router interface object),     *)
(* vpp_add_del_intf_ip_addr_norif (an address found from a route, no       *)
(* router interface object), the prefix state store m_intf_prefix_map      *)
(* (vpp_intf_get_prefix_entry, vpp_intf_remove_prefix_entry) and the two   *)
(* OS queries vpp_get_intf_ip_address and vpp_get_intf_name_for_prefix.    *)
(*                                                                         *)
(* The control plane only knows the requested network p; the address      *)
(* really configured on a device is found in the OS on add, stored under   *)
(* a composite key, pushed to the dataplane, and read back from the store  *)
(* on remove so that the same address is withdrawn.                        *)
(*                                                                         *)
(* An address is <<p, n>>: host n of network p.  A device is a linux       *)
(* interface name, "Ethernet0" or the sub-interface "Ethernet0.10"; its    *)
(* dataplane name (tap_to_hwif_name, with the same ".vlan" suffix) is in   *)
(* one-to-one correspondence with it and is written as the same value.     *)
(***************************************************************************)
EXTENDS Naturals, FiniteSets, Functions

CONSTANTS
    Devs,         \* linux interface names (model values)
    Prefixes,     \* requested networks, one address family each
    HostIds,      \* host parts of the addresses of a network
    Rifs,         \* router interface objects
    RifDev,       \* RifDev[r]: the linux name of r's port (with ".vlan"), or NoDev
    RifType,      \* RifType[r]: SAI_ROUTER_INTERFACE_ATTR_TYPE
    RifPortType,  \* RifPortType[r]: object type of SAI_ROUTER_INTERFACE_ATTR_PORT_ID
    NoDev,        \* getTapNameFromPortId finds no host interface
    DpMayFail     \* whether interface_ip_address_add_del may return non-zero

ASSUME DevsAssumption == Devs # {} /\ NoDev \notin Devs
ASSUME RifAssumption ==
    /\ RifDev \in [Rifs -> Devs \cup {NoDev}]
    /\ RifType \in [Rifs -> {"port", "sub_port", "loopback", "other"}]
    /\ RifPortType \in [Rifs -> {"port", "vlan", "other"}]
    \* one router interface per port or sub-port
    /\ \A r, s \in Rifs : RifDev[r] = RifDev[s] /\ RifDev[r] # NoDev => r = s
ASSUME DpMayFailAssumption == DpMayFail \in BOOLEAN

VARIABLES
    osAddrs,      \* <<dev, addr>>: addresses configured in the OS
    prefixMap,    \* m_intf_prefix_map: key -> stored record
    dpAddrs,      \* <<dev, addr>>: addresses on dataplane interfaces
    lastStatus,   \* sai_status_t returned by the last handler call
    rifAdded,     \* caller: <<r, p>> whose add was issued and not removed
    routeAdded    \* caller: routes p whose norif add was issued and not removed

storeVars == <<prefixMap, dpAddrs, lastStatus>>
callerVars == <<rifAdded, routeAdded>>
vars == <<osAddrs, prefixMap, dpAddrs, lastStatus, rifAdded, routeAdded>>

Addrs == Prefixes \X HostIds
Statuses == {"NONE", "SUCCESS", "FAILURE"}

\* ip_prefix_key = linux_ifname + addr_family + sai_serialize_ip_prefix(ip_prefix)
RifKey(dev, p) == <<"rif", dev, p>>
\* the ip_prefix_key the route code passes to the norif variant
NorifKey(p) == <<"norif", p>>
Keys == {RifKey(d, p) : d \in Devs, p \in Prefixes} \cup {NorifKey(p) : p \in Prefixes}

\* The record stored under a key: the resolved prefix for a router
\* interface, "<dev>@<resolved prefix>" (vpp_serialize_intf_data) otherwise.
StoredDev(k) == IF k[1] = "rif" THEN k[2] ELSE prefixMap[k][1]
StoredAddr(k) == IF k[1] = "rif" THEN prefixMap[k] ELSE prefixMap[k][2]

\* m[k] = v
MapSet(m, k, v) == [x \in DOMAIN m \cup {k} |-> IF x = k THEN v ELSE m[x]]
\* m.erase(k)
MapErase(m, k) == Restrict(m, DOMAIN m \ {k})

-----------------------------------------------------------------------------
(* OS queries.                                                             *)

\* vpp_get_intf_ip_address: "ip addr show dev <dev> to <p> scope global";
\* IpPrefix parses the first line of the output, so any one of them.
ResolveAddr(dev, p) == {a \in Addrs : a[1] = p /\ <<dev, a>> \in osAddrs}

\* vpp_get_intf_name_for_prefix: "ip addr show to <p>"; the first device
\* listed, so any of the devices that hold an address in p.
ResolveDev(p) == {dev \in Devs : ResolveAddr(dev, p) # {}}

\* interface_ip_address_add_del and its return code.
DpAddDel(dev, a, isAdd) ==
    \/ /\ dpAddrs' = IF isAdd THEN dpAddrs \cup {<<dev, a>>}
                              ELSE dpAddrs \ {<<dev, a>>}
       /\ lastStatus' = "SUCCESS"
    \/ /\ DpMayFail
       /\ UNCHANGED dpAddrs
       /\ lastStatus' = "FAILURE"

-----------------------------------------------------------------------------
(* vpp_add_del_intf_ip_addr                                                *)

\* The attribute checks before the address work: a VLAN port is skipped, a
\* port id that is not a port fails, a type other than sub-port, port or
\* loopback is skipped, a port without a host tap fails.
RifCheck(r) ==
    IF RifPortType[r] = "vlan" THEN "SUCCESS"
    ELSE IF RifPortType[r] = "other" THEN "FAILURE"
    ELSE IF RifType[r] = "other" THEN "SUCCESS"
    ELSE IF RifDev[r] = NoDev THEN "FAILURE"
    ELSE "CONTINUE"

RifEarlyReturn(r) ==
    /\ RifCheck(r) # "CONTINUE"
    /\ lastStatus' = RifCheck(r)
    /\ UNCHANGED <<prefixMap, dpAddrs>>

\* Mutant: the requested prefix is stored instead of the resolved one.
vpp_add_intf_ip_addr_storeRequest(r, p) ==
    LET dev == RifDev[r] IN
    \/ RifEarlyReturn(r)
    \/ /\ RifCheck(r) = "CONTINUE"
       /\ \E a \in ResolveAddr(dev, p) :
            /\ prefixMap' = MapSet(prefixMap, RifKey(dev, p), p)
            /\ DpAddDel(dev, a, TRUE)

\* is_add = true
vpp_add_intf_ip_addr(r, p) ==
    LET dev == RifDev[r] IN
    \/ RifEarlyReturn(r)
    \/ /\ RifCheck(r) = "CONTINUE"
       /\ ResolveAddr(dev, p) = {}
       /\ lastStatus' = "SUCCESS"
       /\ UNCHANGED <<prefixMap, dpAddrs>>
    \/ /\ RifCheck(r) = "CONTINUE"
       /\ \E a \in ResolveAddr(dev, p) :
            \* m_intf_prefix_map[ip_prefix_key] is written before the
            \* dataplane call, whatever that call returns
            /\ prefixMap' = MapSet(prefixMap, RifKey(dev, p), a)
            /\ DpAddDel(dev, a, TRUE)

\* Mutant: vpp_intf_remove_prefix_entry is not called.
vpp_del_intf_ip_addr_keepEntry(r, p) ==
    LET dev == RifDev[r]
        key == RifKey(dev, p)
    IN
    \/ RifEarlyReturn(r)
    \/ /\ RifCheck(r) = "CONTINUE"
       /\ key \notin DOMAIN prefixMap
       /\ lastStatus' = "SUCCESS"
       /\ UNCHANGED <<prefixMap, dpAddrs>>
    \/ /\ RifCheck(r) = "CONTINUE"
       /\ key \in DOMAIN prefixMap
       /\ UNCHANGED prefixMap
       /\ DpAddDel(dev, prefixMap[key], FALSE)

\* Mutant: the address withdrawn is resolved again from the OS instead of
\* read from the store.
vpp_del_intf_ip_addr_reresolve(r, p) ==
    LET dev == RifDev[r]
        key == RifKey(dev, p)
    IN
    \/ RifEarlyReturn(r)
    \/ /\ RifCheck(r) = "CONTINUE"
       /\ \/ key \notin DOMAIN prefixMap
          \/ ResolveAddr(dev, p) = {}
       /\ lastStatus' = "SUCCESS"
       /\ UNCHANGED <<prefixMap, dpAddrs>>
    \/ /\ RifCheck(r) = "CONTINUE"
       /\ key \in DOMAIN prefixMap
       /\ \E a \in ResolveAddr(dev, p) :
            /\ prefixMap' = MapErase(prefixMap, key)
            /\ DpAddDel(dev, a, FALSE)

\* is_add = false
vpp_del_intf_ip_addr(r, p) ==
    LET dev == RifDev[r]
        key == RifKey(dev, p)
    IN
    \/ RifEarlyReturn(r)
    \/ /\ RifCheck(r) = "CONTINUE"
       /\ key \notin DOMAIN prefixMap
       /\ lastStatus' = "SUCCESS"
       /\ UNCHANGED <<prefixMap, dpAddrs>>
    \/ /\ RifCheck(r) = "CONTINUE"
       /\ key \in DOMAIN prefixMap
       /\ prefixMap' = MapErase(prefixMap, key)
       /\ DpAddDel(dev, prefixMap[key], FALSE)

-----------------------------------------------------------------------------
(* vpp_add_del_intf_ip_addr_norif                                          *)

\* is_add = true
vpp_add_intf_ip_addr_norif(p) ==
    \/ /\ ResolveDev(p) = {}
       /\ lastStatus' = "FAILURE"
       /\ UNCHANGED <<prefixMap, dpAddrs>>
    \/ \E dev \in ResolveDev(p), a \in Addrs :
          /\ a \in ResolveAddr(dev, p)
          /\ prefixMap' = MapSet(prefixMap, NorifKey(p), <<dev, a>>)
          /\ DpAddDel(dev, a, TRUE)

\* is_add = false: the device and the prefix come from the stored record.
vpp_del_intf_ip_addr_norif(p) ==
    LET key == NorifKey(p) IN
    \/ /\ key \notin DOMAIN prefixMap
       /\ lastStatus' = "SUCCESS"
       /\ UNCHANGED <<prefixMap, dpAddrs>>
    \/ /\ key \in DOMAIN prefixMap
       /\ prefixMap' = MapErase(prefixMap, key)
       /\ DpAddDel(prefixMap[key][1], prefixMap[key][2], FALSE)

-----------------------------------------------------------------------------
(* The callers: an address of a router interface is added once and        *)
(* removed once; a route with no router interface for its network is      *)
(* added once and removed once.                                            *)

RifAddrAdd(r, p) ==
    /\ <<r, p>> \notin rifAdded
    /\ p \notin routeAdded
    /\ rifAdded' = rifAdded \cup {<<r, p>>}
    /\ vpp_add_intf_ip_addr(r, p)
    /\ UNCHANGED <<osAddrs, routeAdded>>

RifAddrRemove(r, p) ==
    /\ <<r, p>> \in rifAdded
    /\ rifAdded' = rifAdded \ {<<r, p>>}
    /\ vpp_del_intf_ip_addr(r, p)
    /\ UNCHANGED <<osAddrs, routeAdded>>

RouteAdd(p) ==
    /\ p \notin routeAdded
    /\ \A r \in Rifs : <<r, p>> \notin rifAdded
    /\ routeAdded' = routeAdded \cup {p}
    /\ vpp_add_intf_ip_addr_norif(p)
    /\ UNCHANGED <<osAddrs, rifAdded>>

RouteRemove(p) ==
    /\ p \in routeAdded
    /\ routeAdded' = routeAdded \ {p}
    /\ vpp_del_intf_ip_addr_norif(p)
    /\ UNCHANGED <<osAddrs, rifAdded>>

(* The host configuration changes addresses independently of the engine.  *)
OsAddrAdd(dev, a) ==
    /\ <<dev, a>> \notin osAddrs
    /\ osAddrs' = osAddrs \cup {<<dev, a>>}
    /\ UNCHANGED <<storeVars, callerVars>>

OsAddrDel(dev, a) ==
    /\ <<dev, a>> \in osAddrs
    /\ osAddrs' = osAddrs \ {<<dev, a>>}
    /\ UNCHANGED <<storeVars, callerVars>>

Init ==
    /\ osAddrs = {}
    /\ prefixMap = <<>>
    /\ dpAddrs = {}
    /\ lastStatus = "NONE"
    /\ rifAdded = {}
    /\ routeAdded = {}

Next ==
    \/ \E r \in Rifs, p \in Prefixes : RifAddrAdd(r, p)
    \/ \E r \in Rifs, p \in Prefixes : RifAddrRemove(r, p)
    \/ \E p \in Prefixes : RouteAdd(p)
    \/ \E p \in Prefixes : RouteRemove(p)
    \/ \E dev \in Devs, a \in Addrs : OsAddrAdd(dev, a)
    \/ \E dev \in Devs, a \in Addrs : OsAddrDel(dev, a)

Spec == Init /\ [][Next]_vars

-----------------------------------------------------------------------------
(* Properties.                                                             *)

TypeOK ==
    /\ osAddrs \subseteq Devs \X Addrs
    /\ DOMAIN prefixMap \subseteq Keys
    /\ \A k \in DOMAIN prefixMap :
         IF k[1] = "rif" THEN prefixMap[k] \in Addrs
                         ELSE prefixMap[k] \in Devs \X Addrs
    /\ dpAddrs \subseteq Devs \X Addrs
    /\ lastStatus \in Statuses
    /\ rifAdded \subseteq Rifs \X Prefixes
    /\ routeAdded \subseteq Prefixes

(* Spec section 4.2: the store records the addresses the engine has       *)
(* pushed to the dataplane.  Every stored record names an address that is  *)
(* on that dataplane interface, so the matching remove withdraws a real    *)
(* address.  It breaks when an entry outlives its address or is written    *)
(* for an address the dataplane refused.                                   *)
StoreMatchesDataplane ==
    \A k \in DOMAIN prefixMap : <<StoredDev(k), StoredAddr(k)>> \in dpAddrs

(* Spec section 7, symmetric add/remove: no dataplane address is left      *)
(* behind.  Every address on a dataplane interface is recorded in the      *)
(* store, so some remove will withdraw it, even after the OS address it    *)
(* was resolved from has changed.                                          *)
NoLeakedAddress ==
    \A x \in dpAddrs :
        \E k \in DOMAIN prefixMap : <<StoredDev(k), StoredAddr(k)>> = x

=============================================================================
