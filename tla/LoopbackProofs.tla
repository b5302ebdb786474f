---------------------------- MODULE LoopbackProofs ----------------------------
(***************************************************************************)
(* Proofs about the loopback engine when the host has the one loopback     *)
(* interface Loopback0 (LbSuffixes = {0}), for every set of destinations   *)
(* and every MaxInstance.  With a second host loopback the dual-stack      *)
(* check of process_interface_loopback names the loopback by the host      *)
(* suffix while creation names it by the allocated instance, and the       *)
(* properties fail (the runs loopback_multi and loopback_reuse).           *)
(***************************************************************************)
EXTENDS Loopback, TLAPS

L0 == LoopName(0)
H0 == <<"Loopback", 0>>

\* While Loopback0 is the only host loopback, the engine has at most the one
\* dataplane loopback loop0 with instance 0, and the allocator state says
\* which: loop0 exists exactly when 0 is handed out.
InstOK ==
    /\ DOMAIN lpbInstMap \subseteq {L0}
    /\ \A n \in DOMAIN lpbInstMap : lpbInstMap[n] = 0
    /\ availableInstances \subseteq {0} /\ currentMaxInstance \in {0, 1}
    /\ availableInstances = {0} => currentMaxInstance = 1
    /\ (L0 \in DOMAIN lpbInstMap) <=> (availableInstances = {} /\ currentMaxInstance = 1)
    /\ dpLoops = IF L0 \in DOMAIN lpbInstMap THEN {0} ELSE {}

\* Every destination mapped to a dataplane loopback is a live route mapped to
\* loop0 and to Loopback0, and a destination mapped to Loopback0 is mapped to
\* a dataplane loopback; the host map otherwise holds the empty name that
\* operator[] inserts.
MapsOK ==
    /\ \A d \in DOMAIN lpbIpToIfMap :
         /\ lpbIpToIfMap[d] = L0 /\ d \in routes
         /\ d \in DOMAIN lpbIpToHostIfMap /\ lpbIpToHostIfMap[d] = H0
    /\ \A d \in DOMAIN lpbIpToHostIfMap :
         /\ lpbIpToHostIfMap[d] \in {H0, NoIfName}
         /\ lpbIpToHostIfMap[d] = H0 => d \in DOMAIN lpbIpToIfMap
    /\ (L0 \in DOMAIN lpbInstMap) <=> (DOMAIN lpbIpToIfMap # {})

IInv == InstOK /\ MapsOK
-----------------------------------------------------------------------------
(* Names, with Loopback0 the only host loopback.                           *)

\* The interface the OS names for a prefix is Loopback0, the port or none,
\* and only Loopback0 passes the "Loopback" test.
LEMMA HostNameCases ==
    ASSUME LbSuffixes = {0}, NEW d
    PROVE  /\ get_intf_name_for_prefix(d) \in {H0, PortIfName, NoIfName}
           /\ \A h \in {H0, PortIfName, NoIfName} : IsLoopbackName(h) <=> h = H0
<1>1. HostNames = {H0, PortIfName}
  BY DEF HostNames, HostLoopbacks, H0
<1>2. get_intf_name_for_prefix(d) \in HostNames \cup {NoIfName}
  BY DEF get_intf_name_for_prefix
<1>3. /\ IsLoopbackName(H0)
      /\ ~IsLoopbackName(PortIfName) /\ ~IsLoopbackName(NoIfName)
  BY DEF IsLoopbackName, PortIfName, NoIfName, H0
<1>. QED  BY <1>1, <1>2, <1>3

-----------------------------------------------------------------------------
(* The invariant holds initially.                                          *)

LEMMA InitIInv == Init => IInv
BY DEF Init, IInv, InstOK, MapsOK
-----------------------------------------------------------------------------
(* The host's address changes touch none of the engine's state.            *)

LEMMA OsAddrStep ==
    ASSUME IInv, NEW h, NEW d, OsAddrAdd(h, d) \/ OsAddrDel(h, d)
    PROVE  IInv'
BY DEF OsAddrAdd, OsAddrDel, IInv, InstOK, MapsOK, engineVars, allocVars,
       dpVars
-----------------------------------------------------------------------------
(* A route is created.                                                     *)

\* With loop0 absent the allocator hands out 0 and then has used it.
LEMMA AllocZero ==
    ASSUME InstOK, L0 \notin DOMAIN lpbInstMap, NEW inst,
           Alloc!getNextLoopbackInstance(inst)
    PROVE  /\ inst = 0
           /\ availableInstances' = {} /\ currentMaxInstance' = 1
<1>1. \/ availableInstances = {0} /\ currentMaxInstance = 1
      \/ availableInstances = {} /\ currentMaxInstance = 0
  BY DEF InstOK
<1>2. Alloc!NextLoopbackInstance = 0
  BY <1>1 DEF Alloc!NextLoopbackInstance, Alloc!SetBegin
<1>. QED  BY <1>1, <1>2 DEF Alloc!getNextLoopbackInstance

\* The dual-stack branch: a second destination of Loopback0 is recorded on
\* the existing loop0.
LEMMA MergeKeeps ==
    ASSUME IInv, NEW d, d \notin DOMAIN lpbIpToIfMap,
           routes' = routes \cup {d}, L0 \in DOMAIN lpbInstMap,
           lpbIpToIfMap' = MapSet(lpbIpToIfMap, d, L0),
           lpbIpToHostIfMap' = MapSet(lpbIpToHostIfMap, d, H0),
           UNCHANGED <<lpbInstMap, allocVars, dpVars>>
    PROVE  IInv'
<1>1. InstOK'
  BY DEF IInv, InstOK, allocVars, dpVars
<1>2. /\ DOMAIN lpbIpToIfMap' = DOMAIN lpbIpToIfMap \cup {d}
      /\ \A x \in DOMAIN lpbIpToIfMap' :
           lpbIpToIfMap'[x] = IF x = d THEN L0 ELSE lpbIpToIfMap[x]
      /\ DOMAIN lpbIpToHostIfMap' = DOMAIN lpbIpToHostIfMap \cup {d}
      /\ \A x \in DOMAIN lpbIpToHostIfMap' :
           lpbIpToHostIfMap'[x] = IF x = d THEN H0 ELSE lpbIpToHostIfMap[x]
  BY DEF MapSet
<1>3. MapsOK'
  BY <1>2 DEF IInv, MapsOK
<1>. QED  BY <1>1, <1>3 DEF IInv

\* The creating branch: loop0 is made with instance 0 for Loopback0.
LEMMA CreateLoopKeeps ==
    ASSUME IInv, NEW d, d \notin DOMAIN lpbIpToIfMap,
           routes' = routes \cup {d}, L0 \notin DOMAIN lpbInstMap,
           get_intf_name_for_prefix(d) = H0, vpp_add_lpb_intf_ip_addr(d, H0)
    PROVE  IInv'
<1>0. InstOK /\ MapsOK
  BY DEF IInv
<1>1. PICK inst : /\ Alloc!getNextLoopbackInstance(inst)
                  /\ inst = Alloc!NextLoopbackInstance
                  /\ lpbInstMap' = MapSet(lpbInstMap, LoopName(inst), inst)
                  /\ lpbIpToIfMap' = MapSet(lpbIpToIfMap, d, LoopName(inst))
                  /\ dpLoops' = dpLoops \cup {inst}
                  /\ lpbIpToHostIfMap' = MapSet(lpbIpToHostIfMap, d, H0)
  BY DEF vpp_add_lpb_intf_ip_addr
<1>2. inst = 0 /\ availableInstances' = {} /\ currentMaxInstance' = 1
  BY <1>0, <1>1, AllocZero
<1>3. DOMAIN lpbInstMap = {} /\ DOMAIN lpbIpToIfMap = {} /\ dpLoops = {}
  BY <1>0 DEF InstOK, MapsOK
<1>4. /\ DOMAIN lpbInstMap' = {L0} /\ lpbInstMap'[L0] = 0
      /\ DOMAIN lpbIpToIfMap' = {d} /\ lpbIpToIfMap'[d] = L0
      /\ DOMAIN lpbIpToHostIfMap' = DOMAIN lpbIpToHostIfMap \cup {d}
      /\ \A x \in DOMAIN lpbIpToHostIfMap' :
           lpbIpToHostIfMap'[x] = IF x = d THEN H0 ELSE lpbIpToHostIfMap[x]
      /\ dpLoops' = {0}
  BY <1>1, <1>2, <1>3 DEF MapSet, L0
<1>5. InstOK'
  BY <1>2, <1>4 DEF InstOK
<1>6. MapsOK'
  <2>1. \A x \in DOMAIN lpbIpToHostIfMap : lpbIpToHostIfMap[x] # H0
    BY <1>0, <1>3 DEF MapsOK
  <2>. QED  BY <1>0, <1>4, <2>1 DEF MapsOK
<1>. QED  BY <1>5, <1>6 DEF IInv

\* RouteCreate keeps the invariant.
LEMMA CreateStep ==
    ASSUME LbSuffixes = {0}, IInv, NEW d \in Dests, RouteCreate(d)
    PROVE  IInv'
<1>. DEFINE h == get_intf_name_for_prefix(d)
            vppIfName == LoopName(getInstanceFromHostIfname(h))
<1>1. d \notin DOMAIN lpbIpToIfMap /\ routes' = routes \cup {d}
  BY DEF RouteCreate, IInv, MapsOK
<1>2. h \in {H0, PortIfName, NoIfName} /\ (IsLoopbackName(h) <=> h = H0)
  BY HostNameCases
<1>3. CASE ~IsLoopbackName(h) /\ UNCHANGED <<engineVars, allocVars, dpVars, osAddrs>>
  BY <1>1, <1>3 DEF IInv, InstOK, MapsOK, engineVars, allocVars, dpVars
<1>4. CASE /\ IsLoopbackName(h) /\ vppIfName \in DOMAIN lpbInstMap
           /\ lpbIpToIfMap' = MapSet(lpbIpToIfMap, d, vppIfName)
           /\ lpbIpToHostIfMap' = MapSet(lpbIpToHostIfMap, d, h)
           /\ UNCHANGED <<lpbInstMap, allocVars, dpVars, osAddrs>>
  <2>1. h = H0 /\ vppIfName = L0
    BY <1>2, <1>4 DEF getInstanceFromHostIfname, H0, L0
  <2>. QED  BY <1>1, <1>4, <2>1, MergeKeeps
<1>5. CASE /\ IsLoopbackName(h) /\ vppIfName \notin DOMAIN lpbInstMap
           /\ vpp_add_lpb_intf_ip_addr(d, h)
  <2>1. h = H0 /\ vppIfName = L0
    BY <1>2, <1>5 DEF getInstanceFromHostIfname, H0, L0
  <2>. QED  BY <1>1, <1>5, <2>1, CreateLoopKeeps
<1>. QED  BY <1>3, <1>4, <1>5 DEF RouteCreate, process_interface_loopback_add
-----------------------------------------------------------------------------
(* A route is removed.                                                     *)

\* A destination not recorded for Loopback0: only the empty host name that
\* operator[] inserts is added.
LEMMA RemoveUnmappedKeeps ==
    ASSUME IInv, NEW d,
           routes' = routes \ {d},
           lpbIpToHostIfMap' = MapTouch(lpbIpToHostIfMap, d, NoIfName),
           lpbIpToHostIfMap'[d] # H0,
           UNCHANGED <<lpbInstMap, lpbIpToIfMap, allocVars, dpVars>>
    PROVE  IInv'
<1>0. InstOK /\ MapsOK
  BY DEF IInv
<1>1. /\ DOMAIN lpbIpToHostIfMap' = DOMAIN lpbIpToHostIfMap \cup {d}
      /\ \A x \in DOMAIN lpbIpToHostIfMap :
           lpbIpToHostIfMap'[x] = lpbIpToHostIfMap[x]
      /\ d \notin DOMAIN lpbIpToHostIfMap => lpbIpToHostIfMap'[d] = NoIfName
  BY DEF MapTouch, MapSet
<1>2. d \notin DOMAIN lpbIpToIfMap
  BY <1>0, <1>1 DEF MapsOK
<1>3. InstOK'
  BY <1>0 DEF InstOK, allocVars, dpVars
<1>4. MapsOK'
  BY <1>0, <1>1, <1>2 DEF MapsOK
<1>. QED  BY <1>3, <1>4 DEF IInv

\* A destination of Loopback0: loop0 is deleted, every destination swept
\* from both maps, and instance 0 goes back to the free set.
LEMMA RemoveLoopKeeps ==
    ASSUME IInv, NEW d, d \in DOMAIN lpbIpToHostIfMap,
           lpbIpToHostIfMap[d] = H0, routes' = routes \ {d},
           vpp_del_lpb_intf_ip_addr(d)
    PROVE  IInv'
<1>0. InstOK /\ MapsOK
  BY DEF IInv
<1>1. /\ d \in DOMAIN lpbIpToIfMap /\ lpbIpToIfMap[d] = L0
      /\ \A e \in DOMAIN lpbIpToIfMap : lpbIpToIfMap[e] = L0
      /\ L0 \in DOMAIN lpbInstMap /\ lpbInstMap[L0] = 0
      /\ availableInstances = {} /\ currentMaxInstance = 1 /\ dpLoops = {0}
  BY <1>0 DEF MapsOK, InstOK
<1>2. /\ MapTouch(lpbIpToIfMap, d, NoIfName) = lpbIpToIfMap
      /\ MapTouch(lpbIpToHostIfMap, d, NoIfName) = lpbIpToHostIfMap
      /\ MapTouch(lpbInstMap, L0, 0) = lpbInstMap
  BY <1>1 DEF MapTouch
<1>3. /\ DeleteLoopback(L0)
      /\ lpbInstMap' = MapErase(lpbInstMap, L0)
      /\ lpbIpToIfMap' = MapEraseValue(lpbIpToIfMap, L0)
      /\ lpbIpToHostIfMap' = MapEraseValue(lpbIpToHostIfMap, H0)
      /\ Alloc!markLoopbackInstanceDeleted(0)
  BY <1>1, <1>2 DEF vpp_del_lpb_intf_ip_addr
<1>4. dpLoops' = {}
  <2>1. {i \in dpLoops : LoopName(i) = L0} = {0}
    BY <1>1 DEF L0
  <2>. QED  BY <1>1, <1>3, <2>1 DEF DeleteLoopback
<1>5. /\ DOMAIN lpbInstMap' = {}
      /\ DOMAIN lpbIpToIfMap' = {}
      /\ DOMAIN lpbIpToHostIfMap' =
           {k \in DOMAIN lpbIpToHostIfMap : lpbIpToHostIfMap[k] # H0}
      /\ \A x \in DOMAIN lpbIpToHostIfMap' :
           lpbIpToHostIfMap'[x] = lpbIpToHostIfMap[x]
  BY <1>0, <1>1, <1>3 DEF MapErase, MapEraseValue, Restrict, InstOK
<1>6. availableInstances' = {0} /\ currentMaxInstance' = 1
  BY <1>1, <1>3 DEF Alloc!markLoopbackInstanceDeleted
<1>7. InstOK'
  BY <1>4, <1>5, <1>6 DEF InstOK, L0
<1>8. MapsOK'
  BY <1>0, <1>5 DEF MapsOK
<1>. QED  BY <1>7, <1>8 DEF IInv

\* RouteRemove keeps the invariant.
LEMMA RemoveStep ==
    ASSUME LbSuffixes = {0}, IInv, NEW d \in Dests, RouteRemove(d)
    PROVE  IInv'
<1>. DEFINE hostMap == MapTouch(lpbIpToHostIfMap, d, NoIfName)
            h == hostMap[d]
<1>1. h = IF d \in DOMAIN lpbIpToHostIfMap THEN lpbIpToHostIfMap[d]
                                           ELSE NoIfName
  BY DEF MapTouch, MapSet
<1>2. h \in {H0, NoIfName}
  BY <1>1 DEF IInv, MapsOK
<1>3. IsLoopbackName(h) <=> h = H0
  BY <1>2, HostNameCases
<1>4. routes' = routes \ {d}
  BY DEF RouteRemove
<1>5. CASE /\ ~IsLoopbackName(h) /\ lpbIpToHostIfMap' = hostMap
           /\ UNCHANGED <<lpbInstMap, lpbIpToIfMap, allocVars, dpVars, osAddrs>>
  BY <1>3, <1>4, <1>5, RemoveUnmappedKeeps
<1>6. CASE IsLoopbackName(h) /\ vpp_del_lpb_intf_ip_addr(d) /\ UNCHANGED osAddrs
  <2>0. h = H0
    BY <1>3, <1>6
  <2>1. NoIfName # H0
    BY DEF H0, NoIfName
  <2>2. d \in DOMAIN lpbIpToHostIfMap /\ lpbIpToHostIfMap[d] = H0
    BY <1>1, <2>0, <2>1
  <2>. QED  BY <1>4, <1>6, <2>2, RemoveLoopKeeps
<1>. QED  BY <1>5, <1>6 DEF RouteRemove, process_interface_loopback_remove
-----------------------------------------------------------------------------
(* The invariant and the properties.                                       *)

\* Every step of Next, and a stutter, keeps the invariant.
LEMMA StepIInv ==
    ASSUME LbSuffixes = {0}
    PROVE  IInv /\ [Next]_vars => IInv'
<1>. SUFFICES ASSUME IInv, [Next]_vars PROVE IInv'
  OBVIOUS
<1>1. ASSUME NEW d \in Dests, RouteCreate(d) PROVE IInv'
  BY <1>1, CreateStep
<1>2. ASSUME NEW d \in Dests, RouteRemove(d) PROVE IInv'
  BY <1>2, RemoveStep
<1>3. ASSUME NEW h, NEW d, OsAddrAdd(h, d) \/ OsAddrDel(h, d) PROVE IInv'
  BY <1>3, OsAddrStep
<1>4. CASE UNCHANGED vars
  BY <1>4 DEF vars, IInv, InstOK, MapsOK
<1>. QED  BY <1>1, <1>2, <1>3, <1>4 DEF Next

\* The invariant gives the three properties the run loopback_single checks.
LEMMA IInvProperties ==
    IInv => InstanceSafe /\ ParallelMapsAgree /\ NoOrphanLoopback
<1>. SUFFICES ASSUME IInv PROVE InstanceSafe /\ ParallelMapsAgree /\ NoOrphanLoopback
  OBVIOUS
<1>1. InstanceSafe
  BY DEF IInv, InstOK, InstanceSafe
<1>2. ParallelMapsAgree
  BY DEF IInv, MapsOK, ParallelMapsAgree
<1>3. NoOrphanLoopback
  <2>. SUFFICES ASSUME NEW i \in dpLoops
                PROVE  \E d \in routes \cap DOMAIN lpbIpToIfMap
                                       \cap DOMAIN lpbIpToHostIfMap :
                         /\ lpbIpToIfMap[d] = LoopName(i)
                         /\ IsLoopbackName(lpbIpToHostIfMap[d])
    BY DEF NoOrphanLoopback
  <2>1. i = 0 /\ L0 \in DOMAIN lpbInstMap
    BY DEF IInv, InstOK
  <2>2. PICK d \in DOMAIN lpbIpToIfMap : TRUE
    BY <2>1 DEF IInv, MapsOK
  <2>. QED  BY <2>1, <2>2 DEF IInv, MapsOK, IsLoopbackName, H0, L0
<1>. QED  BY <1>1, <1>2, <1>3

\* With Loopback0 the only host loopback, for every set of destinations and
\* every bound on the instances: no instance a recorded loopback holds is
\* free and no two share one; two destinations share a dataplane loopback
\* exactly when they share the host loopback; and every dataplane loopback
\* can still be torn down by the removal of a live route.  This is what
\* process_interface_loopback keeps across route creates (new loopback or
\* dual-stack merge), route removes (delete_loopback, the sweep of
\* eraseDualStackEntries, markLoopbackInstanceDeleted) and the host's
\* address changes in between.
THEOREM LoopbackSingleHostInvariant ==
    ASSUME LbSuffixes = {0}
    PROVE  Spec => [](InstanceSafe /\ ParallelMapsAgree /\ NoOrphanLoopback)
<1>1. Init => IInv
  BY InitIInv
<1>2. IInv /\ [Next]_vars => IInv'
  BY StepIInv
<1>3. IInv => InstanceSafe /\ ParallelMapsAgree /\ NoOrphanLoopback
  BY IInvProperties
<1>. QED  BY <1>1, <1>2, <1>3, PTL DEF Spec
(* With Loopback0 the only host loopback: two destinations share a         *)
(* dataplane loopback exactly when they share the host loopback, the      *)
(* dual-stack merge of process_interface_loopback and the sweep of         *)
(* eraseDualStackEntries keeping lpbIpToIfMap and lpbIpToHostIfMap in      *)
(* step.                                                                   *)
COROLLARY ParallelMapsAgreeInvariant ==
    ASSUME LbSuffixes = {0}
    PROVE  Spec => []ParallelMapsAgree
BY LoopbackSingleHostInvariant, PTL

(* With Loopback0 the only host loopback: every dataplane loopback         *)
(* vpp_add_del_lpb_intf_ip_addr created is recorded for a live route under *)
(* the host loopback name, so that route's removal reaches delete_loopback. *)
COROLLARY NoOrphanLoopbackInvariant ==
    ASSUME LbSuffixes = {0}
    PROVE  Spec => []NoOrphanLoopback
BY LoopbackSingleHostInvariant, PTL
====
