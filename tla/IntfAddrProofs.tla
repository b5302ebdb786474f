--------------------------- MODULE IntfAddrProofs ---------------------------
(***************************************************************************)
(* Proofs about the prefix state store of vpp_add_del_intf_ip_addr and     *)
(* vpp_add_del_intf_ip_addr_norif, for every set of devices, networks,     *)
(* hosts and router interfaces: when interface_ip_address_add_del does    *)
(* not fail, the store and the dataplane addresses stay in one-to-one      *)
(* correspondence (StoreMatchesDataplane and NoLeakedAddress).             *)
(***************************************************************************)
EXTENDS IntfAddr, TLAPS

\* A router interface key is present only while the add that wrote it is
\* outstanding, for the one router interface on that device, and its record
\* is an address of the key's network.
RifOwned ==
    \A d \in Devs, p \in Prefixes :
        RifKey(d, p) \in DOMAIN prefixMap =>
            /\ prefixMap[RifKey(d, p)][1] = p
            /\ \E r \in Rifs : /\ RifCheck(r) = "CONTINUE"
                               /\ RifDev[r] = d
                               /\ <<r, p>> \in rifAdded

\* A route key is present only while its route is, with an address of its
\* network.
RouteOwned ==
    \A p \in Prefixes :
        NorifKey(p) \in DOMAIN prefixMap =>
            /\ prefixMap[NorifKey(p)][2][1] = p
            /\ p \in routeAdded

\* The caller never has a route and a router interface address of the same
\* network outstanding.
Exclusive ==
    \A p \in routeAdded, r \in Rifs : <<r, p>> \notin rifAdded

IInv ==
    /\ TypeOK
    /\ RifOwned
    /\ RouteOwned
    /\ Exclusive
    /\ StoreMatchesDataplane
    /\ NoLeakedAddress

\* The record a key stands for: the dataplane interface and the address.
Rec(k) == <<StoredDev(k), StoredAddr(k)>>

\* No two keys of the store stand for the same dataplane address.
DistinctRecords ==
    \A k1, k2 \in DOMAIN prefixMap : k1 # k2 => Rec(k1) # Rec(k2)

-----------------------------------------------------------------------------
(* std::map operations.                                                    *)

LEMMA MapSetFacts ==
    ASSUME NEW m, NEW k, NEW v
    PROVE  /\ DOMAIN MapSet(m, k, v) = DOMAIN m \cup {k}
           /\ MapSet(m, k, v)[k] = v
           /\ \A j \in DOMAIN m \ {k} : MapSet(m, k, v)[j] = m[j]
BY DEF MapSet

LEMMA MapEraseFacts ==
    ASSUME NEW m, NEW k
    PROVE  /\ DOMAIN MapErase(m, k) = DOMAIN m \ {k}
           /\ \A j \in DOMAIN m \ {k} : MapErase(m, k)[j] = m[j]
BY DEF MapErase, Restrict

\* A router interface that passes the attribute checks has a host device.
LEMMA ContinueHasDev ==
    ASSUME NEW r \in Rifs, RifCheck(r) = "CONTINUE"
    PROVE  RifDev[r] \in Devs
BY RifAssumption, DevsAssumption DEF RifCheck

\* Every key of the store is a router interface key or a route key.
LEMMA KeyShape ==
    ASSUME TypeOK, NEW k \in DOMAIN prefixMap
    PROVE  \/ \E d \in Devs, p \in Prefixes : k = RifKey(d, p)
           \/ \E p \in Prefixes : k = NorifKey(p)
BY DEF TypeOK, Keys


\* Under the invariant no two keys stand for the same dataplane address: two
\* router interface keys differ in device or in network, two route keys in
\* network, and a route and a router interface address of one network are
\* never outstanding together.
LEMMA RecordsDistinct ==
    ASSUME IInv
    PROVE  DistinctRecords
<1>. SUFFICES ASSUME NEW k1 \in DOMAIN prefixMap, NEW k2 \in DOMAIN prefixMap,
                     Rec(k1) = Rec(k2)
              PROVE  k1 = k2
  BY DEF DistinctRecords
<1>. USE DEF IInv
<1>1. CASE \E d \in Devs, p \in Prefixes : k1 = RifKey(d, p)
  <2>1. PICK d1 \in Devs, p1 \in Prefixes : k1 = RifKey(d1, p1)
    BY <1>1
  <2>2. CASE \E d \in Devs, p \in Prefixes : k2 = RifKey(d, p)
    <3>1. PICK d2 \in Devs, p2 \in Prefixes : k2 = RifKey(d2, p2)
      BY <2>2
    <3>. QED
      BY <2>1, <3>1 DEF RifOwned, Rec, StoredDev, StoredAddr, RifKey
  <2>3. CASE \E p \in Prefixes : k2 = NorifKey(p)
    <3>1. PICK p2 \in Prefixes : k2 = NorifKey(p2)
      BY <2>3
    <3>2. p1 = p2
      BY <2>1, <3>1 DEF RifOwned, RouteOwned, Rec, StoredDev, StoredAddr, RifKey, NorifKey
    <3>. QED
      BY <2>1, <3>1, <3>2 DEF RifOwned, RouteOwned, Exclusive
  <2>. QED
    BY <2>2, <2>3, KeyShape
<1>2. CASE \E p \in Prefixes : k1 = NorifKey(p)
  <2>1. PICK p1 \in Prefixes : k1 = NorifKey(p1)
    BY <1>2
  <2>2. CASE \E d \in Devs, p \in Prefixes : k2 = RifKey(d, p)
    <3>1. PICK d2 \in Devs, p2 \in Prefixes : k2 = RifKey(d2, p2)
      BY <2>2
    <3>2. p1 = p2
      BY <2>1, <3>1 DEF RifOwned, RouteOwned, Rec, StoredDev, StoredAddr, RifKey, NorifKey
    <3>. QED
      BY <2>1, <3>1, <3>2 DEF RifOwned, RouteOwned, Exclusive
  <2>3. CASE \E p \in Prefixes : k2 = NorifKey(p)
    <3>1. PICK p2 \in Prefixes : k2 = NorifKey(p2)
      BY <2>3
    <3>. QED
      BY <2>1, <3>1 DEF RouteOwned, Rec, StoredDev, StoredAddr, NorifKey
  <2>. QED
    BY <2>2, <2>3, KeyShape
<1>. QED
  BY <1>1, <1>2, KeyShape

\* Writing a new key and adding the address it stands for keeps the store
\* and the dataplane in correspondence.
LEMMA StoreAddKeeps ==
    ASSUME StoreMatchesDataplane, NoLeakedAddress,
           NEW K, K \notin DOMAIN prefixMap, NEW v,
           prefixMap' = MapSet(prefixMap, K, v),
           dpAddrs' = dpAddrs \cup {Rec(K)'}
    PROVE  StoreMatchesDataplane' /\ NoLeakedAddress'
<1>1. DOMAIN prefixMap' = DOMAIN prefixMap \cup {K}
  BY MapSetFacts
<1>2. ASSUME NEW k \in DOMAIN prefixMap PROVE Rec(k)' = Rec(k)
  <2>1. k \in DOMAIN prefixMap \ {K}
    OBVIOUS
  <2>2. MapSet(prefixMap, K, v)[k] = prefixMap[k]
    BY <2>1 DEF MapSet
  <2>3. prefixMap'[k] = prefixMap[k]
    BY <2>2
  <2>. QED
    BY <2>3 DEF Rec, StoredDev, StoredAddr
<1>3. StoreMatchesDataplane'
  BY <1>1, <1>2 DEF StoreMatchesDataplane, Rec
<1>4. NoLeakedAddress'
  BY <1>1, <1>2 DEF NoLeakedAddress, Rec
<1>. QED
  BY <1>3, <1>4

\* Erasing a key and withdrawing the address it stands for keeps the store
\* and the dataplane in correspondence, because no other key stands for it.
LEMMA StoreEraseKeeps ==
    ASSUME StoreMatchesDataplane, NoLeakedAddress, DistinctRecords,
           NEW K \in DOMAIN prefixMap,
           prefixMap' = MapErase(prefixMap, K),
           dpAddrs' = dpAddrs \ {Rec(K)}
    PROVE  StoreMatchesDataplane' /\ NoLeakedAddress'
<1>1. DOMAIN prefixMap' = DOMAIN prefixMap \ {K}
  BY MapEraseFacts
<1>2. ASSUME NEW k \in DOMAIN prefixMap \ {K} PROVE Rec(k)' = Rec(k)
  <2>1. prefixMap'[k] = prefixMap[k]
    BY MapEraseFacts
  <2>. QED
    BY <2>1 DEF Rec, StoredDev, StoredAddr
<1>3. StoreMatchesDataplane'
  <2>. SUFFICES ASSUME NEW k \in DOMAIN prefixMap' PROVE Rec(k)' \in dpAddrs'
    BY DEF StoreMatchesDataplane, Rec
  <2>1. k \in DOMAIN prefixMap \ {K}
    BY <1>1
  <2>2. Rec(k) \in dpAddrs /\ Rec(k) # Rec(K)
    BY <2>1 DEF StoreMatchesDataplane, DistinctRecords, Rec
  <2>. QED
    BY <2>1, <2>2, <1>2
<1>4. NoLeakedAddress'
  BY <1>1, <1>2 DEF NoLeakedAddress, Rec
<1>. QED
  BY <1>3, <1>4


\* A step that leaves the store and the dataplane alone keeps them in
\* correspondence.
LEMMA StoreUnchangedKeeps ==
    ASSUME StoreMatchesDataplane, NoLeakedAddress,
           UNCHANGED <<prefixMap, dpAddrs>>
    PROVE  StoreMatchesDataplane' /\ NoLeakedAddress'
BY DEF StoreMatchesDataplane, NoLeakedAddress, StoredDev, StoredAddr

-----------------------------------------------------------------------------
(* One lemma per action of Next.                                           *)

LEMMA RifAddrAddStep ==
    ASSUME IInv, ~DpMayFail, NEW r \in Rifs, NEW p \in Prefixes, RifAddrAdd(r, p)
    PROVE  IInv'
<1>1. /\ <<r, p>> \notin rifAdded
      /\ p \notin routeAdded
      /\ rifAdded' = rifAdded \cup {<<r, p>>}
      /\ UNCHANGED <<osAddrs, routeAdded>>
      /\ vpp_add_intf_ip_addr(r, p)
  BY DEF RifAddrAdd
<1>2. Exclusive'
  BY <1>1 DEF IInv, Exclusive
<1>. DEFINE dev == RifDev[r]
            K == RifKey(dev, p)
<1>3. CASE RifCheck(r) # "CONTINUE" \/ ResolveAddr(dev, p) = {}
  <2>1. /\ UNCHANGED <<prefixMap, dpAddrs>>
        /\ lastStatus' \in Statuses
    BY <1>1, <1>3 DEF vpp_add_intf_ip_addr, RifEarlyReturn, RifCheck, Statuses
  <2>2. TypeOK'
    BY <1>1, <2>1 DEF IInv, TypeOK
  <2>3. RifOwned'
    BY <1>1, <2>1 DEF IInv, RifOwned
  <2>4. RouteOwned'
    BY <1>1, <2>1 DEF IInv, RouteOwned
  <2>5. StoreMatchesDataplane' /\ NoLeakedAddress'
    BY <2>1, StoreUnchangedKeeps DEF IInv
  <2>. QED
    BY <1>2, <2>2, <2>3, <2>4, <2>5 DEF IInv
<1>4. CASE RifCheck(r) = "CONTINUE" /\ ResolveAddr(dev, p) # {}
  <2>1. dev \in Devs
    BY <1>4, ContinueHasDev
  <2>2. PICK a \in ResolveAddr(dev, p) :
            /\ prefixMap' = MapSet(prefixMap, K, a)
            /\ DpAddDel(dev, a, TRUE)
    BY <1>1, <1>4 DEF vpp_add_intf_ip_addr, RifEarlyReturn
  <2>3. a \in Addrs /\ a[1] = p
    BY DEF ResolveAddr
  <2>4. dpAddrs' = dpAddrs \cup {<<dev, a>>} /\ lastStatus' = "SUCCESS"
    BY <2>2 DEF DpAddDel
  <2>5. K \notin DOMAIN prefixMap
    <3>. SUFFICES ASSUME K \in DOMAIN prefixMap PROVE FALSE
      OBVIOUS
    <3>1. PICK s \in Rifs : /\ RifDev[s] = dev
                            /\ <<s, p>> \in rifAdded
      BY <2>1 DEF IInv, RifOwned
    <3>2. s = r
      BY <2>1, <3>1, RifAssumption, DevsAssumption
    <3>. QED
      BY <1>1, <3>1, <3>2
  <2>6. Rec(K)' = <<dev, a>>
    BY <2>2 DEF Rec, StoredDev, StoredAddr, MapSet, RifKey
  <2>7. StoreMatchesDataplane' /\ NoLeakedAddress'
    BY <2>2, <2>4, <2>5, <2>6, StoreAddKeeps DEF IInv
  <2>8. DOMAIN prefixMap' = DOMAIN prefixMap \cup {K}
    BY <2>2, MapSetFacts
  <2>9. \A k \in DOMAIN prefixMap : prefixMap'[k] = prefixMap[k]
    BY <2>2, <2>5 DEF MapSet
  <2>10. prefixMap'[K] = a
    BY <2>2 DEF MapSet
  <2>11. TypeOK'
    <3>1. K \in Keys
      BY <2>1 DEF Keys
    <3>2. \A k \in DOMAIN prefixMap' :
             IF k[1] = "rif" THEN prefixMap'[k] \in Addrs
                             ELSE prefixMap'[k] \in Devs \X Addrs
      <4>. SUFFICES ASSUME NEW k \in DOMAIN prefixMap'
                    PROVE  IF k[1] = "rif" THEN prefixMap'[k] \in Addrs
                                           ELSE prefixMap'[k] \in Devs \X Addrs
        OBVIOUS
      <4>1. CASE k = K
        BY <2>3, <2>10, <4>1 DEF RifKey
      <4>2. CASE k # K
        BY <2>8, <2>9, <4>2 DEF IInv, TypeOK
      <4>. QED
        BY <4>1, <4>2
    <3>3. DOMAIN prefixMap' \subseteq Keys
      BY <2>8, <3>1 DEF IInv, TypeOK
    <3>. QED
      BY <1>1, <2>1, <2>3, <2>4, <3>2, <3>3 DEF IInv, TypeOK, Statuses
  <2>12. RifOwned'
    <3>. SUFFICES ASSUME NEW d \in Devs, NEW q \in Prefixes, RifKey(d, q) \in DOMAIN prefixMap'
                  PROVE  /\ prefixMap'[RifKey(d, q)][1] = q
                         /\ \E s \in Rifs : /\ RifCheck(s) = "CONTINUE"
                                            /\ RifDev[s] = d
                                            /\ <<s, q>> \in rifAdded'
      BY DEF RifOwned
    <3>1. CASE RifKey(d, q) = K
      BY <1>1, <1>4, <2>3, <2>10, <3>1 DEF RifKey
    <3>2. CASE RifKey(d, q) # K
      BY <1>1, <2>8, <2>9, <3>2 DEF IInv, RifOwned
    <3>. QED
      BY <3>1, <3>2
  <2>13. RouteOwned'
    <3>1. \A q \in Prefixes : NorifKey(q) # K
      BY DEF NorifKey, RifKey
    <3>. QED
      BY <1>1, <2>8, <2>9, <3>1 DEF IInv, RouteOwned
  <2>. QED
    BY <1>2, <2>7, <2>11, <2>12, <2>13 DEF IInv
<1>. QED
  BY <1>3, <1>4


\* Erasing one key keeps the store well typed.
LEMMA EraseKeepsType ==
    ASSUME TypeOK, NEW K, prefixMap' = MapErase(prefixMap, K)
    PROVE  /\ DOMAIN prefixMap' \subseteq Keys
           /\ \A k \in DOMAIN prefixMap' :
                IF k[1] = "rif" THEN prefixMap'[k] \in Addrs
                                ELSE prefixMap'[k] \in Devs \X Addrs
<1>1. DOMAIN prefixMap' = DOMAIN prefixMap \ {K}
  BY DEF MapErase, Restrict
<1>2. \A k \in DOMAIN prefixMap' : prefixMap'[k] = prefixMap[k]
  BY DEF MapErase, Restrict
<1>. QED
  BY <1>1, <1>2 DEF TypeOK

LEMMA RifAddrRemoveStep ==
    ASSUME IInv, ~DpMayFail, NEW r \in Rifs, NEW p \in Prefixes, RifAddrRemove(r, p)
    PROVE  IInv'
<1>1. /\ <<r, p>> \in rifAdded
      /\ rifAdded' = rifAdded \ {<<r, p>>}
      /\ UNCHANGED <<osAddrs, routeAdded>>
      /\ vpp_del_intf_ip_addr(r, p)
  BY DEF RifAddrRemove
<1>2. Exclusive'
  BY <1>1 DEF IInv, Exclusive
<1>. DEFINE dev == RifDev[r]
            K == RifKey(dev, p)
\* A key other than K keeps its owner when <<r, p>> is withdrawn.
<1>3. ASSUME NEW d \in Devs, NEW q \in Prefixes, RifKey(d, q) \in DOMAIN prefixMap,
             RifKey(d, q) # K \/ RifCheck(r) # "CONTINUE"
      PROVE  \E s \in Rifs : /\ RifCheck(s) = "CONTINUE"
                             /\ RifDev[s] = d
                             /\ <<s, q>> \in rifAdded'
  <2>1. PICK s \in Rifs : /\ RifCheck(s) = "CONTINUE"
                          /\ RifDev[s] = d
                          /\ <<s, q>> \in rifAdded
    BY <1>3 DEF IInv, RifOwned
  <2>2. <<s, q>> # <<r, p>>
    BY <1>3, <2>1 DEF RifKey
  <2>. QED
    BY <1>1, <2>1, <2>2
<1>4. CASE RifCheck(r) # "CONTINUE" \/ K \notin DOMAIN prefixMap
  <2>1. /\ UNCHANGED <<prefixMap, dpAddrs>>
        /\ lastStatus' \in Statuses
    BY <1>1, <1>4 DEF vpp_del_intf_ip_addr, RifEarlyReturn, RifCheck, Statuses
  <2>2. TypeOK'
    BY <1>1, <2>1 DEF IInv, TypeOK
  <2>3. RifOwned'
    <3>. SUFFICES ASSUME NEW d \in Devs, NEW q \in Prefixes, RifKey(d, q) \in DOMAIN prefixMap'
                  PROVE  /\ prefixMap'[RifKey(d, q)][1] = q
                         /\ \E s \in Rifs : /\ RifCheck(s) = "CONTINUE"
                                            /\ RifDev[s] = d
                                            /\ <<s, q>> \in rifAdded'
      BY DEF RifOwned
    <3>1. RifKey(d, q) # K \/ RifCheck(r) # "CONTINUE"
      BY <1>4, <2>1
    <3>. QED
      BY <1>3, <2>1, <3>1 DEF IInv, RifOwned
  <2>4. RouteOwned'
    BY <1>1, <2>1 DEF IInv, RouteOwned
  <2>5. StoreMatchesDataplane' /\ NoLeakedAddress'
    BY <2>1, StoreUnchangedKeeps DEF IInv
  <2>. QED
    BY <1>2, <2>2, <2>3, <2>4, <2>5 DEF IInv
<1>5. CASE RifCheck(r) = "CONTINUE" /\ K \in DOMAIN prefixMap
  <2>1. dev \in Devs
    BY <1>5, ContinueHasDev
  <2>2. /\ prefixMap' = MapErase(prefixMap, K)
        /\ DpAddDel(dev, prefixMap[K], FALSE)
    BY <1>1, <1>5 DEF vpp_del_intf_ip_addr, RifEarlyReturn
  <2>3. dpAddrs' = dpAddrs \ {Rec(K)} /\ lastStatus' = "SUCCESS"
    BY <2>2 DEF DpAddDel, Rec, StoredDev, StoredAddr, RifKey
  <2>4. StoreMatchesDataplane' /\ NoLeakedAddress'
    BY <1>5, <2>2, <2>3, StoreEraseKeeps, RecordsDistinct DEF IInv
  <2>5. DOMAIN prefixMap' = DOMAIN prefixMap \ {K}
    BY <2>2 DEF MapErase, Restrict
  <2>6. \A k \in DOMAIN prefixMap \ {K} : prefixMap'[k] = prefixMap[k]
    BY <2>2 DEF MapErase, Restrict
  <2>7. TypeOK'
    <3>1. dpAddrs' \subseteq Devs \X Addrs
      BY <2>3 DEF IInv, TypeOK
    <3>. QED
      BY <1>1, <2>2, <2>3, <3>1, EraseKeepsType DEF IInv, TypeOK, Statuses
  <2>8. RifOwned'
    <3>. SUFFICES ASSUME NEW d \in Devs, NEW q \in Prefixes, RifKey(d, q) \in DOMAIN prefixMap'
                  PROVE  /\ prefixMap'[RifKey(d, q)][1] = q
                         /\ \E s \in Rifs : /\ RifCheck(s) = "CONTINUE"
                                            /\ RifDev[s] = d
                                            /\ <<s, q>> \in rifAdded'
      BY DEF RifOwned
    <3>1. RifKey(d, q) \in DOMAIN prefixMap \ {K}
      BY <2>5
    <3>. QED
      BY <1>3, <2>6, <3>1 DEF IInv, RifOwned
  <2>9. RouteOwned'
    <3>1. \A q \in Prefixes : NorifKey(q) # K
      BY DEF NorifKey, RifKey
    <3>. QED
      BY <1>1, <2>5, <2>6, <3>1 DEF IInv, RouteOwned
  <2>. QED
    BY <1>2, <2>4, <2>7, <2>8, <2>9 DEF IInv
<1>. QED
  BY <1>4, <1>5


LEMMA RouteAddStep ==
    ASSUME IInv, ~DpMayFail, NEW p \in Prefixes, RouteAdd(p)
    PROVE  IInv'
<1>1. /\ p \notin routeAdded
      /\ \A r \in Rifs : <<r, p>> \notin rifAdded
      /\ routeAdded' = routeAdded \cup {p}
      /\ UNCHANGED <<osAddrs, rifAdded>>
      /\ vpp_add_intf_ip_addr_norif(p)
  BY DEF RouteAdd
<1>2. Exclusive'
  BY <1>1 DEF IInv, Exclusive
<1>. DEFINE K == NorifKey(p)
<1>3. CASE ResolveDev(p) = {}
  <2>1. /\ UNCHANGED <<prefixMap, dpAddrs>>
        /\ lastStatus' \in Statuses
    BY <1>1, <1>3 DEF vpp_add_intf_ip_addr_norif, Statuses
  <2>2. TypeOK'
    BY <1>1, <2>1 DEF IInv, TypeOK
  <2>3. RifOwned'
    BY <1>1, <2>1 DEF IInv, RifOwned
  <2>4. RouteOwned'
    BY <1>1, <2>1 DEF IInv, RouteOwned
  <2>5. StoreMatchesDataplane' /\ NoLeakedAddress'
    BY <2>1, StoreUnchangedKeeps DEF IInv
  <2>. QED
    BY <1>2, <2>2, <2>3, <2>4, <2>5 DEF IInv
<1>4. CASE ResolveDev(p) # {}
  <2>1. PICK dev \in ResolveDev(p), a \in Addrs :
            /\ a \in ResolveAddr(dev, p)
            /\ prefixMap' = MapSet(prefixMap, K, <<dev, a>>)
            /\ DpAddDel(dev, a, TRUE)
    BY <1>1, <1>4 DEF vpp_add_intf_ip_addr_norif
  <2>2. dev \in Devs /\ a[1] = p
    BY <2>1 DEF ResolveDev, ResolveAddr
  <2>3. dpAddrs' = dpAddrs \cup {<<dev, a>>} /\ lastStatus' = "SUCCESS"
    BY <2>1 DEF DpAddDel
  <2>4. K \notin DOMAIN prefixMap
    BY <1>1 DEF IInv, RouteOwned
  <2>5. Rec(K)' = <<dev, a>>
    BY <2>1 DEF Rec, StoredDev, StoredAddr, MapSet, NorifKey
  <2>6. StoreMatchesDataplane' /\ NoLeakedAddress'
    BY <2>1, <2>3, <2>4, <2>5, StoreAddKeeps DEF IInv
  <2>7. DOMAIN prefixMap' = DOMAIN prefixMap \cup {K}
    BY <2>1 DEF MapSet
  <2>8. \A k \in DOMAIN prefixMap : prefixMap'[k] = prefixMap[k]
    BY <2>1, <2>4 DEF MapSet
  <2>9. prefixMap'[K] = <<dev, a>>
    BY <2>1 DEF MapSet
  <2>10. TypeOK'
    <3>1. K \in Keys
      BY DEF Keys
    <3>2. \A k \in DOMAIN prefixMap' :
             IF k[1] = "rif" THEN prefixMap'[k] \in Addrs
                             ELSE prefixMap'[k] \in Devs \X Addrs
      <4>. SUFFICES ASSUME NEW k \in DOMAIN prefixMap'
                    PROVE  IF k[1] = "rif" THEN prefixMap'[k] \in Addrs
                                           ELSE prefixMap'[k] \in Devs \X Addrs
        OBVIOUS
      <4>1. CASE k = K
        BY <2>1, <2>2, <2>9, <4>1 DEF NorifKey
      <4>2. CASE k # K
        BY <2>7, <2>8, <4>2 DEF IInv, TypeOK
      <4>. QED
        BY <4>1, <4>2
    <3>3. DOMAIN prefixMap' \subseteq Keys
      BY <2>7, <3>1 DEF IInv, TypeOK
    <3>. QED
      BY <1>1, <2>1, <2>2, <2>3, <3>2, <3>3 DEF IInv, TypeOK, Statuses
  <2>11. RifOwned'
    <3>1. \A d \in Devs, q \in Prefixes : RifKey(d, q) # K
      BY DEF NorifKey, RifKey
    <3>. QED
      BY <1>1, <2>7, <2>8, <3>1 DEF IInv, RifOwned
  <2>12. RouteOwned'
    <3>. SUFFICES ASSUME NEW q \in Prefixes, NorifKey(q) \in DOMAIN prefixMap'
                  PROVE  /\ prefixMap'[NorifKey(q)][2][1] = q
                         /\ q \in routeAdded'
      BY DEF RouteOwned
    <3>1. CASE q = p
      BY <1>1, <2>2, <2>9, <3>1
    <3>2. CASE q # p
      BY <1>1, <2>7, <2>8, <3>2 DEF IInv, RouteOwned, NorifKey
    <3>. QED
      BY <3>1, <3>2
  <2>. QED
    BY <1>2, <2>6, <2>10, <2>11, <2>12 DEF IInv
<1>. QED
  BY <1>3, <1>4

LEMMA RouteRemoveStep ==
    ASSUME IInv, ~DpMayFail, NEW p \in Prefixes, RouteRemove(p)
    PROVE  IInv'
<1>1. /\ p \in routeAdded
      /\ routeAdded' = routeAdded \ {p}
      /\ UNCHANGED <<osAddrs, rifAdded>>
      /\ vpp_del_intf_ip_addr_norif(p)
  BY DEF RouteRemove
<1>2. Exclusive'
  BY <1>1 DEF IInv, Exclusive
<1>. DEFINE K == NorifKey(p)
<1>3. CASE K \notin DOMAIN prefixMap
  <2>1. /\ UNCHANGED <<prefixMap, dpAddrs>>
        /\ lastStatus' \in Statuses
    BY <1>1, <1>3 DEF vpp_del_intf_ip_addr_norif, Statuses
  <2>2. TypeOK'
    BY <1>1, <2>1 DEF IInv, TypeOK
  <2>3. RifOwned'
    BY <1>1, <2>1 DEF IInv, RifOwned
  <2>4. RouteOwned'
    BY <1>1, <1>3, <2>1 DEF IInv, RouteOwned, NorifKey
  <2>5. StoreMatchesDataplane' /\ NoLeakedAddress'
    BY <2>1, StoreUnchangedKeeps DEF IInv
  <2>. QED
    BY <1>2, <2>2, <2>3, <2>4, <2>5 DEF IInv
<1>4. CASE K \in DOMAIN prefixMap
  <2>1. /\ prefixMap' = MapErase(prefixMap, K)
        /\ DpAddDel(prefixMap[K][1], prefixMap[K][2], FALSE)
    BY <1>1, <1>4 DEF vpp_del_intf_ip_addr_norif
  <2>2. dpAddrs' = dpAddrs \ {Rec(K)} /\ lastStatus' = "SUCCESS"
    BY <2>1 DEF DpAddDel, Rec, StoredDev, StoredAddr, NorifKey
  <2>3. StoreMatchesDataplane' /\ NoLeakedAddress'
    BY <1>4, <2>1, <2>2, StoreEraseKeeps, RecordsDistinct DEF IInv
  <2>4. DOMAIN prefixMap' = DOMAIN prefixMap \ {K}
    BY <2>1 DEF MapErase, Restrict
  <2>5. \A k \in DOMAIN prefixMap \ {K} : prefixMap'[k] = prefixMap[k]
    BY <2>1 DEF MapErase, Restrict
  <2>6. TypeOK'
    <3>1. dpAddrs' \subseteq Devs \X Addrs
      BY <2>2 DEF IInv, TypeOK
    <3>. QED
      BY <1>1, <2>1, <2>2, <3>1, EraseKeepsType DEF IInv, TypeOK, Statuses
  <2>7. RifOwned'
    <3>1. \A d \in Devs, q \in Prefixes : RifKey(d, q) # K
      BY DEF NorifKey, RifKey
    <3>. QED
      BY <1>1, <2>4, <2>5, <3>1 DEF IInv, RifOwned
  <2>8. RouteOwned'
    BY <1>1, <2>4, <2>5 DEF IInv, RouteOwned, NorifKey
  <2>. QED
    BY <1>2, <2>3, <2>6, <2>7, <2>8 DEF IInv
<1>. QED
  BY <1>3, <1>4


\* The OS changes only its own addresses; the engine's state is untouched.
LEMMA OsStep ==
    ASSUME IInv,
           \/ \E dev \in Devs, a \in Addrs : OsAddrAdd(dev, a)
           \/ \E dev \in Devs, a \in Addrs : OsAddrDel(dev, a)
    PROVE  IInv'
<1>1. /\ osAddrs' \subseteq Devs \X Addrs
      /\ UNCHANGED <<prefixMap, dpAddrs, lastStatus, rifAdded, routeAdded>>
  <2>1. CASE \E dev \in Devs, a \in Addrs : OsAddrAdd(dev, a)
    <3>1. PICK dev \in Devs, a \in Addrs : OsAddrAdd(dev, a)
      BY <2>1
    <3>. QED
      BY <3>1 DEF IInv, TypeOK, OsAddrAdd, storeVars, callerVars
  <2>2. CASE \E dev \in Devs, a \in Addrs : OsAddrDel(dev, a)
    <3>1. PICK dev \in Devs, a \in Addrs : OsAddrDel(dev, a)
      BY <2>2
    <3>. QED
      BY <3>1 DEF IInv, TypeOK, OsAddrDel, storeVars, callerVars
  <2>. QED
    BY <2>1, <2>2
<1>2. StoreMatchesDataplane' /\ NoLeakedAddress'
  BY <1>1, StoreUnchangedKeeps DEF IInv
<1>. QED
  BY <1>1, <1>2 DEF IInv, TypeOK, RifOwned, RouteOwned, Exclusive

LEMMA InitIInv == Init => IInv
BY DEF Init, IInv, TypeOK, RifOwned, RouteOwned, Exclusive,
       StoreMatchesDataplane, NoLeakedAddress, Statuses

LEMMA StepIInv ==
    ASSUME ~DpMayFail
    PROVE  IInv /\ [Next]_vars => IInv'
<1>. SUFFICES ASSUME IInv, [Next]_vars PROVE IInv'
  OBVIOUS
<1>1. CASE \E r \in Rifs, p \in Prefixes : RifAddrAdd(r, p)
  BY <1>1, RifAddrAddStep
<1>2. CASE \E r \in Rifs, p \in Prefixes : RifAddrRemove(r, p)
  BY <1>2, RifAddrRemoveStep
<1>3. CASE \E p \in Prefixes : RouteAdd(p)
  BY <1>3, RouteAddStep
<1>4. CASE \E p \in Prefixes : RouteRemove(p)
  BY <1>4, RouteRemoveStep
<1>5. CASE \/ \E dev \in Devs, a \in Addrs : OsAddrAdd(dev, a)
           \/ \E dev \in Devs, a \in Addrs : OsAddrDel(dev, a)
  BY <1>5, OsStep
<1>6. CASE UNCHANGED vars
  BY <1>6 DEF vars, IInv, TypeOK, RifOwned, RouteOwned, Exclusive,
              StoreMatchesDataplane, NoLeakedAddress, StoredDev, StoredAddr
<1>. QED
  BY <1>1, <1>2, <1>3, <1>4, <1>5, <1>6 DEF Next

(* For every set of devices, networks, host addresses and router           *)
(* interfaces: when interface_ip_address_add_del never fails, every record *)
(* of m_intf_prefix_map names an address on that dataplane interface, and  *)
(* every dataplane address the engine pushed is recorded, so the remove     *)
(* paths of vpp_add_del_intf_ip_addr and its norif variant withdraw exactly *)
(* what the add paths installed, across OS address changes.                *)
THEOREM StoreMatchesDataplaneInvariant ==
    ASSUME ~DpMayFail
    PROVE  Spec => [](StoreMatchesDataplane /\ NoLeakedAddress)
<1>1. Init => IInv
  BY InitIInv
<1>2. IInv /\ [Next]_vars => IInv'
  BY StepIInv
<1>3. IInv => StoreMatchesDataplane /\ NoLeakedAddress
  BY DEF IInv
<1>. QED
  BY <1>1, <1>2, <1>3, PTL DEF Spec


-----------------------------------------------------------------------------
(* Typing, whether or not the dataplane calls fail.                        *)

\* the record shape TypeOK asks of the store
StoreTyped(m) ==
    /\ DOMAIN m \subseteq Keys
    /\ \A k \in DOMAIN m :
         IF k[1] = "rif" THEN m[k] \in Addrs ELSE m[k] \in Devs \X Addrs

LEMMA MapSetTyped ==
    ASSUME NEW m, StoreTyped(m), NEW k \in Keys, NEW v,
           k[1] = "rif" => v \in Addrs, k[1] # "rif" => v \in Devs \X Addrs
    PROVE  StoreTyped(MapSet(m, k, v))
BY DEF StoreTyped, MapSet

LEMMA MapEraseTyped ==
    ASSUME NEW m, StoreTyped(m), NEW k
    PROVE  StoreTyped(MapErase(m, k))
BY DEF StoreTyped, MapErase, Restrict

\* interface_ip_address_add_del of a typed address keeps dpAddrs typed
LEMMA DpAddDelTyped ==
    ASSUME dpAddrs \subseteq Devs \X Addrs, NEW dev \in Devs, NEW a \in Addrs,
           NEW isAdd \in BOOLEAN, DpAddDel(dev, a, isAdd)
    PROVE  dpAddrs' \subseteq Devs \X Addrs /\ lastStatus' \in Statuses
BY DEF DpAddDel, Statuses

LEMMA TypeStep == TypeOK /\ [Next]_vars => TypeOK'
<1> SUFFICES ASSUME TypeOK, [Next]_vars PROVE TypeOK'
  OBVIOUS
<1>0. StoreTyped(prefixMap) /\ dpAddrs \subseteq Devs \X Addrs
  BY DEF TypeOK, StoreTyped
<1>a. TypeOK' <=> /\ osAddrs' \subseteq Devs \X Addrs
                  /\ StoreTyped(prefixMap')
                  /\ dpAddrs' \subseteq Devs \X Addrs
                  /\ lastStatus' \in Statuses
                  /\ rifAdded' \subseteq Rifs \X Prefixes
                  /\ routeAdded' \subseteq Prefixes
  BY DEF TypeOK, StoreTyped
<1>1. ASSUME NEW r \in Rifs, NEW p \in Prefixes, RifAddrAdd(r, p) PROVE TypeOK'
  <2> DEFINE dev == RifDev[r]
  <2>1. CASE RifEarlyReturn(r)
    BY <1>1, <2>1, <1>a, <1>0 DEF RifAddrAdd, RifEarlyReturn, RifCheck, Statuses, TypeOK
  <2>2. CASE RifCheck(r) = "CONTINUE" /\ ResolveAddr(dev, p) = {}
             /\ lastStatus' = "SUCCESS" /\ UNCHANGED <<prefixMap, dpAddrs>>
    BY <1>1, <2>2, <1>a, <1>0 DEF RifAddrAdd, Statuses, TypeOK
  <2>3. CASE RifCheck(r) = "CONTINUE"
             /\ \E a \in ResolveAddr(dev, p) :
                  /\ prefixMap' = MapSet(prefixMap, RifKey(dev, p), a)
                  /\ DpAddDel(dev, a, TRUE)
    <3>1. PICK a \in ResolveAddr(dev, p) :
                  /\ prefixMap' = MapSet(prefixMap, RifKey(dev, p), a)
                  /\ DpAddDel(dev, a, TRUE)
      BY <2>3
    <3>2. dev \in Devs /\ a \in Addrs /\ RifKey(dev, p) \in Keys /\ RifKey(dev, p)[1] = "rif"
      BY <2>3, ContinueHasDev DEF ResolveAddr, Keys, RifKey
    <3>3. StoreTyped(prefixMap')
      BY <1>0, <3>1, <3>2, MapSetTyped
    <3>4. dpAddrs' \subseteq Devs \X Addrs /\ lastStatus' \in Statuses
      BY <1>0, <3>1, <3>2, DpAddDelTyped
    <3>. QED  BY <1>1, <1>a, <3>3, <3>4 DEF RifAddrAdd, TypeOK
  <2>. QED  BY <1>1, <2>1, <2>2, <2>3 DEF RifAddrAdd, vpp_add_intf_ip_addr
<1>2. ASSUME NEW r \in Rifs, NEW p \in Prefixes, RifAddrRemove(r, p) PROVE TypeOK'
  <2> DEFINE dev == RifDev[r]
             key == RifKey(dev, p)
  <2>1. CASE RifEarlyReturn(r)
    BY <1>2, <2>1, <1>a, <1>0 DEF RifAddrRemove, RifEarlyReturn, RifCheck, Statuses, TypeOK
  <2>2. CASE RifCheck(r) = "CONTINUE" /\ key \notin DOMAIN prefixMap
             /\ lastStatus' = "SUCCESS" /\ UNCHANGED <<prefixMap, dpAddrs>>
    BY <1>2, <2>2, <1>a, <1>0 DEF RifAddrRemove, Statuses, TypeOK
  <2>3. CASE RifCheck(r) = "CONTINUE" /\ key \in DOMAIN prefixMap
             /\ prefixMap' = MapErase(prefixMap, key)
             /\ DpAddDel(dev, prefixMap[key], FALSE)
    <3>1. dev \in Devs /\ prefixMap[key] \in Addrs
      BY <2>3, ContinueHasDev DEF TypeOK, RifKey
    <3>2. StoreTyped(prefixMap')
      BY <1>0, <2>3, MapEraseTyped
    <3>3. dpAddrs' \subseteq Devs \X Addrs /\ lastStatus' \in Statuses
      BY <1>0, <2>3, <3>1, DpAddDelTyped
    <3>. QED  BY <1>2, <1>a, <3>2, <3>3 DEF RifAddrRemove, TypeOK
  <2>. QED  BY <1>2, <2>1, <2>2, <2>3 DEF RifAddrRemove, vpp_del_intf_ip_addr
<1>3. ASSUME NEW p \in Prefixes, RouteAdd(p) PROVE TypeOK'
  <2>1. CASE ResolveDev(p) = {} /\ lastStatus' = "FAILURE" /\ UNCHANGED <<prefixMap, dpAddrs>>
    BY <1>3, <2>1, <1>a, <1>0 DEF RouteAdd, Statuses, TypeOK
  <2>2. CASE \E dev \in ResolveDev(p), a \in Addrs :
               /\ a \in ResolveAddr(dev, p)
               /\ prefixMap' = MapSet(prefixMap, NorifKey(p), <<dev, a>>)
               /\ DpAddDel(dev, a, TRUE)
    <3>1. PICK dev \in ResolveDev(p), a \in Addrs :
               /\ prefixMap' = MapSet(prefixMap, NorifKey(p), <<dev, a>>)
               /\ DpAddDel(dev, a, TRUE)
      BY <2>2
    <3>2. dev \in Devs /\ NorifKey(p) \in Keys /\ NorifKey(p)[1] # "rif"
      BY DEF ResolveDev, Keys, NorifKey
    <3>3. StoreTyped(prefixMap')
      BY <1>0, <3>1, <3>2, MapSetTyped
    <3>4. dpAddrs' \subseteq Devs \X Addrs /\ lastStatus' \in Statuses
      BY <1>0, <3>1, <3>2, DpAddDelTyped
    <3>. QED  BY <1>3, <1>a, <3>3, <3>4 DEF RouteAdd, TypeOK
  <2>. QED  BY <1>3, <2>1, <2>2 DEF RouteAdd, vpp_add_intf_ip_addr_norif
<1>4. ASSUME NEW p \in Prefixes, RouteRemove(p) PROVE TypeOK'
  <2> DEFINE key == NorifKey(p)
  <2>1. CASE key \notin DOMAIN prefixMap /\ lastStatus' = "SUCCESS"
             /\ UNCHANGED <<prefixMap, dpAddrs>>
    BY <1>4, <2>1, <1>a, <1>0 DEF RouteRemove, Statuses, TypeOK
  <2>2. CASE key \in DOMAIN prefixMap /\ prefixMap' = MapErase(prefixMap, key)
             /\ DpAddDel(prefixMap[key][1], prefixMap[key][2], FALSE)
    <3>1. prefixMap[key] \in Devs \X Addrs
      BY <2>2 DEF TypeOK, NorifKey
    <3>2. StoreTyped(prefixMap')
      BY <1>0, <2>2, MapEraseTyped
    <3>3. dpAddrs' \subseteq Devs \X Addrs /\ lastStatus' \in Statuses
      BY <1>0, <2>2, <3>1, DpAddDelTyped
    <3>. QED  BY <1>4, <1>a, <3>2, <3>3 DEF RouteRemove, TypeOK
  <2>. QED  BY <1>4, <2>1, <2>2 DEF RouteRemove, vpp_del_intf_ip_addr_norif
<1>5. CASE \/ \E dev \in Devs, a \in Addrs : OsAddrAdd(dev, a)
           \/ \E dev \in Devs, a \in Addrs : OsAddrDel(dev, a)
  <2>1. CASE \E dev \in Devs, a \in Addrs : OsAddrAdd(dev, a)
    <3>1. PICK dev \in Devs, a \in Addrs : OsAddrAdd(dev, a)
      BY <2>1
    <3>2. osAddrs' \subseteq Devs \X Addrs
      BY <3>1 DEF OsAddrAdd, TypeOK
    <3>. QED  BY <3>1, <3>2 DEF OsAddrAdd, storeVars, callerVars, TypeOK
  <2>2. CASE \E dev \in Devs, a \in Addrs : OsAddrDel(dev, a)
    <3>1. PICK dev \in Devs, a \in Addrs : OsAddrDel(dev, a)
      BY <2>2
    <3>. QED  BY <3>1 DEF OsAddrDel, storeVars, callerVars, TypeOK
  <2>. QED  BY <1>5, <2>1, <2>2
<1>6. CASE UNCHANGED vars
  BY <1>6 DEF vars, TypeOK
<1>. QED  BY <1>1, <1>2, <1>3, <1>4, <1>5, <1>6 DEF Next

(* For every set of devices, networks, host addresses and router           *)
(* interfaces, and whether or not interface_ip_address_add_del fails: every *)
(* key of m_intf_prefix_map is a router interface key or a route key, and   *)
(* its record decodes to an address, or a device and an address, that the  *)
(* remove paths can pass back to the dataplane.                             *)
THEOREM IntfAddrTypeInvariant == Spec => []TypeOK
<1>1. Init => TypeOK
  BY DEF Init, TypeOK, Statuses
<1>. QED  BY <1>1, TypeStep, PTL DEF Spec

\* With dataplane address calls that succeed, no address is left on a
\* dataplane interface after its prefix has left the store: the remove
\* and the failure paths of the add handler both clean up.
THEOREM NoLeakedAddressInvariant ==
    ASSUME ~DpMayFail
    PROVE  Spec => []NoLeakedAddress
BY StoreMatchesDataplaneInvariant, PTL
=============================================================================
