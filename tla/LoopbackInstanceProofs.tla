------------------------- MODULE LoopbackInstanceProofs -------------------------
(***************************************************************************)
(* Proofs about the loopback engine that hold for every set of host        *)
(* loopback suffixes, or for one host loopback Loopback<k> with any k:     *)
(*   - LoopbackTypeInvariant: TypeOK holds in every reachable state, for   *)
(*     all constants;                                                      *)
(*   - InstanceSafeSingleHost: with one host loopback Loopback<k>, no      *)
(*     recorded loopback's instance is free and no two share one.          *)
(***************************************************************************)
EXTENDS Loopback, TLAPS

\* The allocator's proofs, for the least element of the free set.
AP == INSTANCE LoopbackAllocatorProofs WITH held <- {}

\* Every recorded dataplane loopback is named by its own instance, as
\* vpp_add_del_lpb_intf_ip_addr names "loop" + std::to_string(instance).
LoopsNamedByInstance ==
    \A n \in DOMAIN lpbInstMap : n = LoopName(lpbInstMap[n])

\* Every recorded instance was handed out by getNextLoopbackInstance and
\* not given back: it is below the high-water mark and not free; the free
\* set holds only numbers below the mark.
InstancesHandedOut ==
    /\ \A n \in DOMAIN lpbInstMap :
         lpbInstMap[n] \notin availableInstances /\ lpbInstMap[n] < currentMaxInstance
    /\ availableInstances \subseteq 0..(currentMaxInstance - 1)

\* A destination recorded for a host loopback is recorded on a dataplane
\* loopback that the instance map holds, so its removal frees that
\* loopback's instance and not the default 0 of lpbInstMap[""].
HostLoopbackRecorded ==
    \A d \in DOMAIN lpbIpToHostIfMap :
        IsLoopbackName(lpbIpToHostIfMap[d]) =>
            /\ d \in DOMAIN lpbIpToIfMap
            /\ lpbIpToIfMap[d] \in DOMAIN lpbInstMap

\* The dataplane holds exactly the loopbacks the instance map records.
DpLoopsRecorded ==
    dpLoops = {lpbInstMap[n] : n \in DOMAIN lpbInstMap}

SInv == /\ TypeOK /\ LoopsNamedByInstance /\ InstancesHandedOut
        /\ HostLoopbackRecorded /\ DpLoopsRecorded
-----------------------------------------------------------------------------
(* The allocator and the host names.                                       *)

\* getNextLoopbackInstance hands out a valid instance: the least free one,
\* which leaves the free set, or the high-water mark, which advances.
LEMMA AllocStep ==
    ASSUME TypeOK, NEW inst, Alloc!getNextLoopbackInstance(inst)
    PROVE  /\ inst \in Instances
           /\ currentMaxInstance' \in 0..MaxInstance
           /\ \/ /\ inst \in availableInstances
                 /\ availableInstances' = availableInstances \ {inst}
                 /\ currentMaxInstance' = currentMaxInstance
              \/ /\ availableInstances = {} /\ inst = currentMaxInstance
                 /\ availableInstances' = {}
                 /\ currentMaxInstance' = currentMaxInstance + 1
<1>. USE MaxInstanceAssumption DEF TypeOK, Instances, Alloc!Instances
<1>1. CASE availableInstances # {}
  <2>1. Alloc!SetBegin(availableInstances) \in availableInstances
    BY <1>1, AP!SetBeginIsLeast DEF Alloc!SetBegin, AP!SetBegin
  <2>. QED
    BY <1>1, <2>1 DEF Alloc!getNextLoopbackInstance, Alloc!NextLoopbackInstance
<1>2. CASE availableInstances = {}
  BY <1>2 DEF Alloc!getNextLoopbackInstance, Alloc!NextLoopbackInstance,
              Alloc!CanAllocate
<1>. QED  BY <1>1, <1>2

\* The OS names a host interface or none; the empty name is no loopback.
LEMMA HostNameTyped ==
    ASSUME NEW d
    PROVE  /\ get_intf_name_for_prefix(d) \in HostNames \cup {NoIfName}
           /\ ~IsLoopbackName(NoIfName)
BY DEF get_intf_name_for_prefix, IsLoopbackName, NoIfName

-----------------------------------------------------------------------------
(* TypeOK is inductive.                                                    *)

LEMMA InitTypeOK == Init => TypeOK
BY MaxInstanceAssumption DEF Init, TypeOK

\* A new dataplane loopback for a host loopback destination.
LEMMA AddTyped ==
    ASSUME TypeOK, NEW d \in Dests, NEW h, IsLoopbackName(h),
           h = get_intf_name_for_prefix(d), vpp_add_lpb_intf_ip_addr(d, h),
           routes' \subseteq Dests
    PROVE  TypeOK'
<1>1. PICK inst : /\ Alloc!getNextLoopbackInstance(inst)
                  /\ lpbInstMap' = MapSet(lpbInstMap, LoopName(inst), inst)
                  /\ lpbIpToIfMap' = MapSet(lpbIpToIfMap, d, LoopName(inst))
                  /\ dpLoops' = dpLoops \cup {inst}
                  /\ dpLoopAddrs' = dpLoopAddrs \cup {<<inst, d>>}
                  /\ lpbIpToHostIfMap' = MapSet(lpbIpToHostIfMap, d, h)
                  /\ osAddrs' = {a \in osAddrs : a[1] # h} \cup {<<h, d>>}
                  /\ dpLcpPairs' = dpLcpPairs \cup {<<inst, h>>}
  BY DEF vpp_add_lpb_intf_ip_addr, RecreateHostLoopback
<1>2. inst \in Instances /\ currentMaxInstance' \in 0..MaxInstance
      /\ availableInstances' \subseteq availableInstances
  BY <1>1, AllocStep
<1>3. h \in HostNames
  BY HostNameTyped
<1>4. LoopName(inst) \in LoopNames
  BY <1>2 DEF LoopNames
<1>. QED
  BY <1>1, <1>2, <1>3, <1>4 DEF TypeOK, MapSet

\* RouteCreate keeps TypeOK.
LEMMA CreateTyped ==
    ASSUME TypeOK, NEW d \in Dests, RouteCreate(d)
    PROVE  TypeOK'
<1>. DEFINE h == get_intf_name_for_prefix(d)
            vppIfName == LoopName(getInstanceFromHostIfname(h))
<1>1. h \in HostNames \cup {NoIfName}
  BY HostNameTyped
<1>2. CASE ~IsLoopbackName(h) /\ UNCHANGED <<engineVars, allocVars, dpVars, osAddrs>>
  BY <1>2 DEF RouteCreate, TypeOK, engineVars, allocVars, dpVars
<1>3. CASE /\ IsLoopbackName(h) /\ vppIfName \in DOMAIN lpbInstMap
           /\ lpbIpToIfMap' = MapSet(lpbIpToIfMap, d, vppIfName)
           /\ lpbIpToHostIfMap' = MapSet(lpbIpToHostIfMap, d, h)
           /\ UNCHANGED <<lpbInstMap, allocVars, dpVars, osAddrs>>
  BY <1>1, <1>3 DEF RouteCreate, TypeOK, MapSet, allocVars, dpVars
<1>4. CASE IsLoopbackName(h) /\ vpp_add_lpb_intf_ip_addr(d, h)
  <2>1. routes' \subseteq Dests
    BY DEF RouteCreate, TypeOK
  <2>. QED  BY <1>4, <2>1, AddTyped DEF TypeOK
<1>. QED  BY <1>2, <1>3, <1>4 DEF RouteCreate, process_interface_loopback_add
\* operator[] on an absent key and the sweep of eraseDualStackEntries: the
\* swept map keeps only entries the map had, minus the one for the key.
LEMMA SweepTyped ==
    ASSUME NEW m, NEW k, NEW dflt, NEW K, NEW V,
           DOMAIN m \subseteq K, m \in [DOMAIN m -> V], k \in K
    PROVE  LET t == MapTouch(m, k, dflt)
               r == MapEraseValue(t, t[k])
           IN  /\ DOMAIN r \subseteq DOMAIN m \ {k}
               /\ \A x \in DOMAIN r : r[x] = m[x]
               /\ r \in [DOMAIN r -> V]
<1>. DEFINE t == MapTouch(m, k, dflt)
<1>1. /\ DOMAIN t = DOMAIN m \cup {k}
      /\ \A x \in DOMAIN m \ {k} : t[x] = m[x]
  BY DEF MapTouch, MapSet
<1>2. MapEraseValue(t, t[k]) = [x \in {y \in DOMAIN t : t[y] # t[k]} |-> t[x]]
  BY DEF MapEraseValue, Restrict
<1>. QED  BY <1>1, <1>2

\* The loopback of a host loopback destination is deleted.
LEMMA DelTyped ==
    ASSUME TypeOK, NEW d \in Dests, vpp_del_lpb_intf_ip_addr(d),
           routes' \subseteq Dests, UNCHANGED osAddrs
    PROVE  TypeOK'
<1>. DEFINE ifMap == MapTouch(lpbIpToIfMap, d, NoIfName)
            hostMap == MapTouch(lpbIpToHostIfMap, d, NoIfName)
            name == ifMap[d]
            instMap == MapTouch(lpbInstMap, name, 0)
<1>1. /\ DeleteLoopback(name)
      /\ lpbInstMap' = MapErase(instMap, name)
      /\ lpbIpToIfMap' = MapEraseValue(ifMap, ifMap[d])
      /\ lpbIpToHostIfMap' = MapEraseValue(hostMap, hostMap[d])
      /\ availableInstances' = availableInstances \cup {instMap[name]}
      /\ currentMaxInstance' = currentMaxInstance
  BY DEF vpp_del_lpb_intf_ip_addr, Alloc!markLoopbackInstanceDeleted
<1>2. /\ DOMAIN lpbIpToIfMap' \subseteq Dests
      /\ lpbIpToIfMap' \in [DOMAIN lpbIpToIfMap' -> LoopNames]
  BY <1>1, SweepTyped DEF TypeOK
<1>3. /\ DOMAIN lpbIpToHostIfMap' \subseteq Dests
      /\ lpbIpToHostIfMap' \in [DOMAIN lpbIpToHostIfMap' -> HostNames \cup {NoIfName}]
  BY <1>1, SweepTyped DEF TypeOK
<1>4. /\ instMap[name] \in Instances
      /\ DOMAIN lpbInstMap' \subseteq LoopNames
      /\ lpbInstMap' \in [DOMAIN lpbInstMap' -> Instances]
  <2>1. /\ instMap[name] \in Instances
        /\ DOMAIN MapErase(instMap, name) = DOMAIN lpbInstMap \ {name}
        /\ \A x \in DOMAIN MapErase(instMap, name) :
             MapErase(instMap, name)[x] = lpbInstMap[x]
    <3>1. 0 \in Instances
      BY MaxInstanceAssumption DEF Instances, Alloc!Instances
    <3>. QED  BY <3>1 DEF TypeOK, MapTouch, MapSet, MapErase, Restrict
  <2>. QED  BY <1>1, <2>1 DEF TypeOK, MapErase, Restrict
<1>5. /\ dpLoops' \subseteq dpLoops
      /\ dpLoopAddrs' \subseteq dpLoopAddrs
      /\ dpLcpPairs' \subseteq dpLcpPairs
  BY <1>1 DEF DeleteLoopback
<1>. QED  BY <1>1, <1>2, <1>3, <1>4, <1>5 DEF TypeOK

\* RouteRemove keeps TypeOK.
LEMMA RemoveTyped ==
    ASSUME TypeOK, NEW d \in Dests, RouteRemove(d)
    PROVE  TypeOK'
<1>. DEFINE hostMap == MapTouch(lpbIpToHostIfMap, d, NoIfName)
<1>1. routes' \subseteq Dests
  BY DEF RouteRemove, TypeOK
<1>2. CASE /\ lpbIpToHostIfMap' = hostMap
           /\ UNCHANGED <<lpbInstMap, lpbIpToIfMap, allocVars, dpVars, osAddrs>>
  BY <1>1, <1>2 DEF TypeOK, MapTouch, MapSet, allocVars, dpVars
<1>3. CASE vpp_del_lpb_intf_ip_addr(d) /\ UNCHANGED osAddrs
  BY <1>1, <1>3, DelTyped
<1>. QED  BY <1>2, <1>3 DEF RouteRemove, process_interface_loopback_remove

\* Every step keeps TypeOK.
LEMMA StepTypeOK == TypeOK /\ [Next]_vars => TypeOK'
<1>. SUFFICES ASSUME TypeOK, [Next]_vars PROVE TypeOK'
  OBVIOUS
<1>1. ASSUME NEW d \in Dests, RouteCreate(d) PROVE TypeOK'
  BY <1>1, CreateTyped
<1>2. ASSUME NEW d \in Dests, RouteRemove(d) PROVE TypeOK'
  BY <1>2, RemoveTyped
<1>3. ASSUME NEW h \in HostNames, NEW d \in Dests, OsAddrAdd(h, d) \/ OsAddrDel(h, d)
      PROVE  TypeOK'
  BY <1>3 DEF OsAddrAdd, OsAddrDel, TypeOK, engineVars, allocVars, dpVars
<1>4. CASE UNCHANGED vars
  BY <1>4 DEF vars, TypeOK
<1>. QED  BY <1>1, <1>2, <1>3, <1>4 DEF Next

(* For every set of destinations, every set of host loopback suffixes and  *)
(* every bound on the instances, the engine's maps, the allocator and the  *)
(* dataplane, linux-cp and OS state stay well typed: operator[] on an      *)
(* absent key in vpp_add_del_lpb_intf_ip_addr never leaves the empty name  *)
(* or the default instance behind in a map, and getNextLoopbackInstance    *)
(* only hands out numbers below MaxInstance.                               *)
THEOREM LoopbackTypeInvariant == Spec => []TypeOK
BY InitTypeOK, StepTypeOK, PTL DEF Spec
-----------------------------------------------------------------------------
(* One host loopback Loopback<k>: SInv is inductive.                       *)

LbName(k) == <<"Loopback", k>>

\* With Loopback<k> the only host loopback, it is the only name of the host
\* maps that passes the "Loopback" test.
LEMMA SingleHostNames ==
    ASSUME NEW k, LbSuffixes = {k}
    PROVE  /\ HostNames = {LbName(k), PortIfName}
           /\ \A h \in HostNames \cup {NoIfName} : IsLoopbackName(h) <=> h = LbName(k)
<1>1. HostNames = {LbName(k), PortIfName}
  BY DEF HostNames, HostLoopbacks, LbName
<1>2. /\ IsLoopbackName(LbName(k))
      /\ ~IsLoopbackName(PortIfName) /\ ~IsLoopbackName(NoIfName)
  BY DEF IsLoopbackName, LbName, PortIfName, NoIfName
<1>. QED  BY <1>1, <1>2

LEMMA InitSInv == Init => SInv
BY InitTypeOK
   DEF Init, SInv, LoopsNamedByInstance, InstancesHandedOut, HostLoopbackRecorded,
       DpLoopsRecorded

LEMMA OsStepS ==
    ASSUME SInv, NEW h \in HostNames, NEW d \in Dests,
           OsAddrAdd(h, d) \/ OsAddrDel(h, d)
    PROVE  SInv'
<1>1. TypeOK'
  BY StepTypeOK DEF SInv, Next
<1>. QED
  BY <1>1 DEF OsAddrAdd, OsAddrDel, SInv, LoopsNamedByInstance,
              InstancesHandedOut, HostLoopbackRecorded, DpLoopsRecorded,
              engineVars, allocVars, dpVars

\* The dual-stack merge records d on a loopback the instance map holds.
LEMMA MergeS ==
    ASSUME SInv, TypeOK', NEW d, NEW v, NEW h, v \in DOMAIN lpbInstMap,
           lpbIpToIfMap' = MapSet(lpbIpToIfMap, d, v),
           lpbIpToHostIfMap' = MapSet(lpbIpToHostIfMap, d, h),
           UNCHANGED <<lpbInstMap, allocVars, dpVars>>
    PROVE  SInv'
BY DEF SInv, LoopsNamedByInstance, InstancesHandedOut, HostLoopbackRecorded,
       DpLoopsRecorded, MapSet, allocVars, dpVars

\* A new loopback gets a number no recorded loopback holds and is named by
\* it.
LEMMA AddS ==
    ASSUME SInv, TypeOK', NEW d, NEW h, vpp_add_lpb_intf_ip_addr(d, h)
    PROVE  SInv'
<1>0. TypeOK
  BY DEF SInv
<1>1. PICK inst : /\ Alloc!getNextLoopbackInstance(inst)
                  /\ lpbInstMap' = MapSet(lpbInstMap, LoopName(inst), inst)
                  /\ lpbIpToIfMap' = MapSet(lpbIpToIfMap, d, LoopName(inst))
                  /\ lpbIpToHostIfMap' = MapSet(lpbIpToHostIfMap, d,
                                                get_intf_name_for_prefix(d))
                  /\ dpLoops' = dpLoops \cup {inst}
  BY DEF vpp_add_lpb_intf_ip_addr
<1>2. /\ inst \in Instances
      /\ \/ /\ inst \in availableInstances
            /\ availableInstances' = availableInstances \ {inst}
            /\ currentMaxInstance' = currentMaxInstance
         \/ /\ availableInstances = {} /\ inst = currentMaxInstance
            /\ availableInstances' = {}
            /\ currentMaxInstance' = currentMaxInstance + 1
  BY <1>0, <1>1, AllocStep
<1>3. /\ inst \notin availableInstances' /\ inst < currentMaxInstance'
      /\ availableInstances' \subseteq 0..(currentMaxInstance' - 1)
      /\ \A n \in DOMAIN lpbInstMap :
           lpbInstMap[n] \notin availableInstances' /\ lpbInstMap[n] < currentMaxInstance'
  BY <1>0, <1>2 DEF SInv, InstancesHandedOut, TypeOK, Instances, Alloc!Instances
<1>4. /\ DOMAIN lpbInstMap' = DOMAIN lpbInstMap \cup {LoopName(inst)}
      /\ \A n \in DOMAIN lpbInstMap' :
           lpbInstMap'[n] = IF n = LoopName(inst) THEN inst ELSE lpbInstMap[n]
  BY <1>1 DEF MapSet
<1>5. LoopsNamedByInstance' /\ InstancesHandedOut'
  BY <1>3, <1>4 DEF SInv, LoopsNamedByInstance, InstancesHandedOut
<1>6. HostLoopbackRecorded'
  BY <1>1, <1>4 DEF SInv, HostLoopbackRecorded, MapSet
<1>7. DpLoopsRecorded'
  <2>1. LoopName(inst) \in DOMAIN lpbInstMap => lpbInstMap[LoopName(inst)] = inst
    BY DEF SInv, LoopsNamedByInstance, LoopName
  <2>2. {lpbInstMap'[n] : n \in DOMAIN lpbInstMap'}
          = {lpbInstMap[n] : n \in DOMAIN lpbInstMap} \cup {inst}
    BY <1>4, <2>1
  <2>. QED  BY <1>1, <2>2 DEF SInv, DpLoopsRecorded
<1>. QED  BY <1>5, <1>6, <1>7 DEF SInv

\* RouteCreate keeps SInv.
LEMMA CreateS ==
    ASSUME SInv, NEW d \in Dests, RouteCreate(d)
    PROVE  SInv'
<1>. DEFINE h == get_intf_name_for_prefix(d)
            vppIfName == LoopName(getInstanceFromHostIfname(h))
<1>1. TypeOK'
  BY CreateTyped DEF SInv
<1>2. CASE ~IsLoopbackName(h) /\ UNCHANGED <<engineVars, allocVars, dpVars, osAddrs>>
  BY <1>1, <1>2 DEF SInv, LoopsNamedByInstance, InstancesHandedOut,
                    HostLoopbackRecorded, DpLoopsRecorded, engineVars, allocVars,
                    dpVars
<1>3. CASE /\ IsLoopbackName(h) /\ vppIfName \in DOMAIN lpbInstMap
           /\ lpbIpToIfMap' = MapSet(lpbIpToIfMap, d, vppIfName)
           /\ lpbIpToHostIfMap' = MapSet(lpbIpToHostIfMap, d, h)
           /\ UNCHANGED <<lpbInstMap, allocVars, dpVars, osAddrs>>
  BY <1>1, <1>3, MergeS
<1>4. CASE IsLoopbackName(h) /\ vpp_add_lpb_intf_ip_addr(d, h)
  BY <1>1, <1>4, AddS
<1>. QED  BY <1>2, <1>3, <1>4 DEF RouteCreate, process_interface_loopback_add

\* The removal of a destination of Loopback<k>: its loopback is one the
\* instance map holds, so the number freed is that loopback's own; the
\* sweep of the host map drops every destination of Loopback<k>.
LEMMA DelS ==
    ASSUME NEW k, LbSuffixes = {k}, SInv, TypeOK', NEW d,
           d \in DOMAIN lpbIpToHostIfMap, lpbIpToHostIfMap[d] = LbName(k),
           vpp_del_lpb_intf_ip_addr(d)
    PROVE  SInv'
<1>0. /\ TypeOK /\ LoopsNamedByInstance /\ InstancesHandedOut
      /\ HostLoopbackRecorded /\ DpLoopsRecorded
  BY DEF SInv
<1>. DEFINE name == lpbIpToIfMap[d]
            inst == lpbInstMap[name]
<1>1. d \in DOMAIN lpbIpToIfMap /\ name \in DOMAIN lpbInstMap
  BY <1>0, SingleHostNames DEF HostLoopbackRecorded
<1>2. /\ MapTouch(lpbIpToIfMap, d, NoIfName) = lpbIpToIfMap
      /\ MapTouch(lpbIpToHostIfMap, d, NoIfName) = lpbIpToHostIfMap
      /\ MapTouch(lpbInstMap, name, 0) = lpbInstMap
  BY <1>1 DEF MapTouch
<1>3. /\ DeleteLoopback(name)
      /\ lpbInstMap' = MapErase(lpbInstMap, name)
      /\ lpbIpToHostIfMap' = MapEraseValue(lpbIpToHostIfMap, LbName(k))
      /\ availableInstances' = availableInstances \cup {inst}
      /\ currentMaxInstance' = currentMaxInstance
  BY <1>2 DEF vpp_del_lpb_intf_ip_addr, Alloc!markLoopbackInstanceDeleted
<1>4. /\ DOMAIN lpbInstMap' = DOMAIN lpbInstMap \ {name}
      /\ \A n \in DOMAIN lpbInstMap' : lpbInstMap'[n] = lpbInstMap[n]
  BY <1>3 DEF MapErase, Restrict
<1>5. \A n \in DOMAIN lpbInstMap \ {name} : lpbInstMap[n] # inst
  BY <1>0, <1>1 DEF LoopsNamedByInstance
<1>6. LoopsNamedByInstance' /\ InstancesHandedOut'
  BY <1>0, <1>1, <1>3, <1>4, <1>5 DEF LoopsNamedByInstance, InstancesHandedOut,
                                       TypeOK, Instances, Alloc!Instances
<1>7. HostLoopbackRecorded'
  <2>1. \A x \in DOMAIN lpbIpToHostIfMap' :
          lpbIpToHostIfMap'[x] \in HostNames \cup {NoIfName}
          /\ lpbIpToHostIfMap'[x] # LbName(k)
    BY <1>0, <1>3 DEF MapEraseValue, Restrict, TypeOK
  <2>. QED  BY <2>1, SingleHostNames DEF HostLoopbackRecorded
<1>8. DpLoopsRecorded'
  <2>1. name = LoopName(inst) /\ inst \in dpLoops
    BY <1>0, <1>1 DEF LoopsNamedByInstance, DpLoopsRecorded
  <2>2. {i \in dpLoops : LoopName(i) = name} = {inst}
    BY <2>1 DEF LoopName
  <2>3. dpLoops' = dpLoops \ {inst}
    BY <1>3, <2>2 DEF DeleteLoopback
  <2>. QED  BY <1>0, <1>4, <1>5, <2>3 DEF DpLoopsRecorded
<1>. QED  BY <1>6, <1>7, <1>8 DEF SInv

\* RouteRemove keeps SInv.
LEMMA RemoveS ==
    ASSUME NEW k, LbSuffixes = {k}, SInv, NEW d \in Dests, RouteRemove(d)
    PROVE  SInv'
<1>. DEFINE hostMap == MapTouch(lpbIpToHostIfMap, d, NoIfName)
            h == hostMap[d]
<1>1. TypeOK'
  BY RemoveTyped DEF SInv
<1>2. h = IF d \in DOMAIN lpbIpToHostIfMap THEN lpbIpToHostIfMap[d] ELSE NoIfName
  BY DEF MapTouch, MapSet
<1>3. h \in HostNames \cup {NoIfName}
  BY <1>2 DEF SInv, TypeOK
<1>4. CASE /\ ~IsLoopbackName(h) /\ lpbIpToHostIfMap' = hostMap
           /\ UNCHANGED <<lpbInstMap, lpbIpToIfMap, allocVars, dpVars, osAddrs>>
  <2>1. /\ DOMAIN lpbIpToHostIfMap' = DOMAIN lpbIpToHostIfMap \cup {d}
        /\ \A x \in DOMAIN lpbIpToHostIfMap' :
             lpbIpToHostIfMap'[x] = IF x = d THEN h ELSE lpbIpToHostIfMap[x]
    BY <1>4 DEF MapTouch, MapSet
  <2>. QED
    BY <1>1, <1>4, <2>1 DEF SInv, LoopsNamedByInstance, InstancesHandedOut,
                            HostLoopbackRecorded, DpLoopsRecorded, allocVars,
                            dpVars
<1>5. CASE IsLoopbackName(h) /\ vpp_del_lpb_intf_ip_addr(d) /\ UNCHANGED osAddrs
  <2>1. h = LbName(k)
    BY <1>3, <1>5, SingleHostNames
  <2>2. NoIfName # LbName(k)
    BY DEF NoIfName, LbName
  <2>3. d \in DOMAIN lpbIpToHostIfMap /\ lpbIpToHostIfMap[d] = LbName(k)
    BY <1>2, <2>1, <2>2
  <2>. QED  BY <1>1, <1>5, <2>3, DelS
<1>. QED  BY <1>4, <1>5 DEF RouteRemove, process_interface_loopback_remove

\* Every step keeps SInv while Loopback<k> is the only host loopback.
LEMMA StepSInv ==
    ASSUME NEW k, LbSuffixes = {k}
    PROVE  SInv /\ [Next]_vars => SInv'
<1>. SUFFICES ASSUME SInv, [Next]_vars PROVE SInv'
  OBVIOUS
<1>1. ASSUME NEW d \in Dests, RouteCreate(d) PROVE SInv'
  BY <1>1, CreateS
<1>2. ASSUME NEW d \in Dests, RouteRemove(d) PROVE SInv'
  BY <1>2, RemoveS
<1>3. ASSUME NEW h \in HostNames, NEW d \in Dests, OsAddrAdd(h, d) \/ OsAddrDel(h, d)
      PROVE  SInv'
  BY <1>3, OsStepS
<1>4. CASE UNCHANGED vars
  BY <1>4 DEF vars, SInv, TypeOK, LoopsNamedByInstance, InstancesHandedOut,
              HostLoopbackRecorded, DpLoopsRecorded
<1>. QED  BY <1>1, <1>2, <1>3, <1>4 DEF Next

\* Loops named by their instance never share one.
LEMMA SInvInstanceSafe == SInv => InstanceSafe
BY DEF SInv, InstancesHandedOut, LoopsNamedByInstance, InstanceSafe

(* With one host loopback Loopback<k>, whatever k is and for every set of  *)
(* destinations and every bound on the instances: no instance a recorded   *)
(* dataplane loopback holds is in the free set, and no two recorded        *)
(* loopbacks share one.  The number markLoopbackInstanceDeleted gets back  *)
(* in vpp_add_del_lpb_intf_ip_addr is always the removed loopback's own,   *)
(* never the default 0 that lpbInstMap[interfaceName] inserts, because     *)
(* the sweep of eraseDualStackEntries drops every destination of           *)
(* Loopback<k> from the host map along with the loopback.  The k need not  *)
(* match the instance: with k >= MaxInstance no route is ever merged.      *)
THEOREM InstanceSafeSingleHost ==
    ASSUME NEW k, LbSuffixes = {k}
    PROVE  Spec => []InstanceSafe
<1>1. Init => SInv
  BY InitSInv
<1>2. SInv /\ [Next]_vars => SInv'
  BY StepSInv
<1>3. SInv => InstanceSafe
  BY SInvInstanceSafe
<1>. QED  BY <1>1, <1>2, <1>3, PTL DEF Spec
-----------------------------------------------------------------------------
(* One host loopback Loopback<k>: a freed number's loopback is deleted.    *)

\* The step formula of FreedWithItsLoopback.
FreedWithLoopStep ==
    \A i \in availableInstances' \ availableInstances :
        i \in dpLoops /\ i \notin dpLoops'

\* The removal of a destination of Loopback<k> frees the instance of the
\* loopback it deletes, and only that one.
LEMMA DelFreesOwn ==
    ASSUME NEW k, LbSuffixes = {k}, SInv, NEW d,
           d \in DOMAIN lpbIpToHostIfMap, lpbIpToHostIfMap[d] = LbName(k),
           vpp_del_lpb_intf_ip_addr(d)
    PROVE  FreedWithLoopStep
<1>. DEFINE name == lpbIpToIfMap[d]
            inst == lpbInstMap[name]
<1>1. d \in DOMAIN lpbIpToIfMap /\ name \in DOMAIN lpbInstMap
  BY SingleHostNames DEF SInv, HostLoopbackRecorded
<1>2. /\ MapTouch(lpbIpToIfMap, d, NoIfName) = lpbIpToIfMap
      /\ MapTouch(lpbInstMap, name, 0) = lpbInstMap
  BY <1>1 DEF MapTouch
<1>3. DeleteLoopback(name) /\ availableInstances' = availableInstances \cup {inst}
  BY <1>2 DEF vpp_del_lpb_intf_ip_addr, Alloc!markLoopbackInstanceDeleted
<1>4. name = LoopName(inst) /\ inst \in dpLoops
  BY <1>1 DEF SInv, LoopsNamedByInstance, DpLoopsRecorded
<1>5. {i \in dpLoops : LoopName(i) = name} = {inst}
  BY <1>4 DEF LoopName
<1>6. dpLoops' = dpLoops \ {inst}
  BY <1>3, <1>5 DEF DeleteLoopback
<1>. QED  BY <1>3, <1>4, <1>6 DEF FreedWithLoopStep

\* RouteRemove frees at most the number of the loopback it deletes.
LEMMA RemoveFreesOwn ==
    ASSUME NEW k, LbSuffixes = {k}, SInv, NEW d \in Dests, RouteRemove(d)
    PROVE  FreedWithLoopStep
<1>. DEFINE hostMap == MapTouch(lpbIpToHostIfMap, d, NoIfName)
            h == hostMap[d]
<1>1. h = IF d \in DOMAIN lpbIpToHostIfMap THEN lpbIpToHostIfMap[d] ELSE NoIfName
  BY DEF MapTouch, MapSet
<1>2. h \in HostNames \cup {NoIfName}
  BY <1>1 DEF SInv, TypeOK
<1>3. CASE ~IsLoopbackName(h) /\ UNCHANGED allocVars
  BY <1>3 DEF FreedWithLoopStep, allocVars
<1>4. CASE IsLoopbackName(h) /\ vpp_del_lpb_intf_ip_addr(d)
  <2>1. h = LbName(k)
    BY <1>2, <1>4, SingleHostNames
  <2>2. NoIfName # LbName(k)
    BY DEF NoIfName, LbName
  <2>3. d \in DOMAIN lpbIpToHostIfMap /\ lpbIpToHostIfMap[d] = LbName(k)
    BY <1>1, <2>1, <2>2
  <2>. QED  BY <1>4, <2>3, DelFreesOwn
<1>. QED  BY <1>3, <1>4 DEF RouteRemove, process_interface_loopback_remove

\* RouteCreate frees nothing: getNextLoopbackInstance only takes numbers.
LEMMA CreateFreesNothing ==
    ASSUME SInv, NEW d \in Dests, RouteCreate(d)
    PROVE  FreedWithLoopStep
<1>1. ASSUME NEW h, vpp_add_lpb_intf_ip_addr(d, h)
      PROVE  availableInstances' \subseteq availableInstances
  <2>1. PICK inst : Alloc!getNextLoopbackInstance(inst)
    BY <1>1 DEF vpp_add_lpb_intf_ip_addr
  <2>. QED  BY <2>1, AllocStep DEF SInv
<1>. QED
  BY <1>1 DEF RouteCreate, process_interface_loopback_add, FreedWithLoopStep,
              allocVars

\* Every step frees only numbers whose loopback it deletes.
LEMMA StepFreed ==
    ASSUME NEW k, LbSuffixes = {k}
    PROVE  SInv /\ [Next]_vars => [FreedWithLoopStep]_vars
<1>. SUFFICES ASSUME SInv, [Next]_vars PROVE [FreedWithLoopStep]_vars
  OBVIOUS
<1>1. ASSUME NEW d \in Dests, RouteCreate(d) PROVE FreedWithLoopStep
  BY <1>1, CreateFreesNothing
<1>2. ASSUME NEW d \in Dests, RouteRemove(d) PROVE FreedWithLoopStep
  BY <1>2, RemoveFreesOwn
<1>3. ASSUME NEW h \in HostNames, NEW d \in Dests, OsAddrAdd(h, d) \/ OsAddrDel(h, d)
      PROVE  FreedWithLoopStep
  BY <1>3 DEF OsAddrAdd, OsAddrDel, FreedWithLoopStep, allocVars
<1>4. CASE UNCHANGED vars
  BY <1>4 DEF vars
<1>. QED  BY <1>1, <1>2, <1>3, <1>4 DEF Next

(* With one host loopback Loopback<k>, for every k, every set of           *)
(* destinations and every bound on the instances: a step that returns a    *)
(* number to the free set through markLoopbackInstanceDeleted also         *)
(* deletes, through delete_loopback, the dataplane loopback holding that   *)
(* number.  The instance released is read from lpbInstMap under the name   *)
(* lpbIpToIfMap records, and the invariant SInv makes that name the        *)
(* loopback's own "loop<instance>" and makes the dataplane hold exactly    *)
(* the recorded loopbacks.                                                 *)
THEOREM FreedWithItsLoopbackSingleHost ==
    ASSUME NEW k, LbSuffixes = {k}
    PROVE  Spec => FreedWithItsLoopback
<1>1. Spec => []SInv
  BY InitSInv, StepSInv, PTL DEF Spec
<1>2. SInv /\ [Next]_vars => [FreedWithLoopStep]_vars
  BY StepFreed
<1>. QED  BY <1>1, <1>2, PTL DEF Spec, FreedWithItsLoopback, FreedWithLoopStep
=============================================================================
