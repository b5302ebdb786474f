--------------------------- MODULE EventBridgeProofs ---------------------------
(***************************************************************************)
(* Proof that the event bridge's notifications follow the link: whenever   *)
(* no event is in flight, each mapped port's last oper status notification *)
(* is its hardware interface's link state (NotificationsMatchLink).        *)
(*                                                                         *)
(* The events in flight are the client queue followed by the messages the *)
(* dataplane sent and vpp_sync_for_events has not read: Flight.  The sync  *)
(* moves messages from one end to the other and leaves Flight as it was;  *)
(* the drain takes Flight's head; a link change appends to it.  Per       *)
(* hardware interface, the events of Flight alternate, the first one      *)
(* flips the port's notified state and the last one is the link's state.  *)
(***************************************************************************)
EXTENDS EventBridge, SequenceTheorems, TLAPS

Flight == queue \o pending

\* the i-th event of s is one of interface h
IsEv(s, h, i) == s[i].hwif = h

\* no event of h in s at the indices lo..hi
NoEv(s, h, lo, hi) == \A k \in lo..hi : ~IsEv(s, h, k)

\* two successive events of the same interface carry opposite states
Alternate(s) ==
    \A h \in HwIfs, i, j \in 1..Len(s) :
        (i < j /\ IsEv(s, h, i) /\ IsEv(s, h, j) /\ NoEv(s, h, i + 1, j - 1))
            => s[j].up = ~s[i].up

\* the last event of each interface is its link's state
LastIsLink(s, lk) ==
    \A h \in HwIfs, i \in 1..Len(s) :
        (IsEv(s, h, i) /\ NoEv(s, h, i + 1, Len(s))) => s[i].up = lk[h]

\* the first event of each mapped interface flips its port's notified state
FirstFlips(s, op) ==
    \A h \in Mapped, i \in 1..Len(s) :
        (IsEv(s, h, i) /\ NoEv(s, h, 1, i - 1)) => s[i].up = ~op[PortOfHwIf(h)]

\* a mapped interface with no event in flight has its link state notified
Settled(s, lk, op) ==
    \A h \in Mapped : NoEv(s, h, 1, Len(s)) => op[PortOfHwIf(h)] = lk[h]

FlightInv(s, lk, op) ==
    Alternate(s) /\ LastIsLink(s, lk) /\ FirstFlips(s, op) /\ Settled(s, lk, op)

IInv == TypeOK /\ FlightInv(Flight, link, operStatus)

\* Distinct mapped hardware interfaces notify distinct ports.
LEMMA PortInjective ==
    \A g, h \in Mapped : PortOfHwIf(g) = PortOfHwIf(h) => g = h
BY NameAssumption DEF Mapped, PortOfHwIf

\* A link change of h appends an event carrying h's new state; the
\* invariant holds of the longer sequence and the flipped link.
LEMMA AppendKeeps ==
    ASSUME NEW s \in Seq(Events), NEW lk \in [HwIfs -> BOOLEAN], NEW op,
           NEW h \in HwIfs, FlightInv(s, lk, op)
    PROVE  FlightInv(Append(s, [hwif |-> h, up |-> ~lk[h]]),
                     [lk EXCEPT ![h] = ~lk[h]], op)
<1> DEFINE e == [hwif |-> h, up |-> ~lk[h]]
           t == Append(s, e)
           lk2 == [lk EXCEPT ![h] = ~lk[h]]
           n == Len(s)
<1>1. e \in Events
  BY DEF Events
<1>2. /\ t \in Seq(Events) /\ Len(t) = n + 1
      /\ \A i \in 1..n : t[i] = s[i]
      /\ t[n + 1] = e
  BY <1>1, AppendProperties
<1>3. Alternate(t)
  <2> SUFFICES ASSUME NEW g \in HwIfs, NEW i \in 1..Len(t), NEW j \in 1..Len(t),
                      i < j, IsEv(t, g, i), IsEv(t, g, j), NoEv(t, g, i + 1, j - 1)
               PROVE  t[j].up = ~t[i].up
    BY DEF Alternate
  <2>1. CASE j <= n
    BY <1>2, <2>1 DEF FlightInv, Alternate, IsEv, NoEv
  <2>2. CASE j = n + 1
    <3>1. g = h /\ i \in 1..n
      BY <1>2, <2>2 DEF IsEv
    <3>2. IsEv(s, h, i) /\ NoEv(s, h, i + 1, n)
      BY <1>2, <2>2, <3>1 DEF IsEv, NoEv
    <3>3. s[i].up = lk[h]
      BY <3>1, <3>2 DEF FlightInv, LastIsLink
    <3>. QED  BY <1>2, <2>2, <3>1, <3>3
  <2>. QED  BY <1>2, <2>1, <2>2
<1>4. LastIsLink(t, lk2)
  <2> SUFFICES ASSUME NEW g \in HwIfs, NEW i \in 1..Len(t),
                      IsEv(t, g, i), NoEv(t, g, i + 1, Len(t))
               PROVE  t[i].up = lk2[g]
    BY DEF LastIsLink
  <2>1. CASE i = n + 1
    BY <1>2, <2>1 DEF IsEv
  <2>2. CASE i <= n
    <3>1. g # h
      BY <1>2, <2>2 DEF IsEv, NoEv
    <3>2. IsEv(s, g, i) /\ NoEv(s, g, i + 1, n)
      BY <1>2, <2>2 DEF IsEv, NoEv
    <3>. QED  BY <1>2, <2>2, <3>1, <3>2 DEF FlightInv, LastIsLink
  <2>. QED  BY <1>2, <2>1, <2>2
<1>5. FirstFlips(t, op)
  <2> SUFFICES ASSUME NEW g \in Mapped, NEW i \in 1..Len(t),
                      IsEv(t, g, i), NoEv(t, g, 1, i - 1)
               PROVE  t[i].up = ~op[PortOfHwIf(g)]
    BY DEF FirstFlips
  <2>0. g \in HwIfs
    BY DEF Mapped
  <2>1. CASE i <= n
    BY <1>2, <2>1 DEF FlightInv, FirstFlips, IsEv, NoEv
  <2>2. CASE i = n + 1
    <3>1. g = h /\ NoEv(s, h, 1, n)
      BY <1>2, <2>2 DEF IsEv, NoEv
    <3>2. op[PortOfHwIf(h)] = lk[h]
      BY <3>1 DEF FlightInv, Settled
    <3>. QED  BY <1>2, <2>2, <3>1, <3>2
  <2>. QED  BY <1>2, <2>1, <2>2
<1>6. Settled(t, lk2, op)
  <2> SUFFICES ASSUME NEW g \in Mapped, NoEv(t, g, 1, Len(t))
               PROVE  op[PortOfHwIf(g)] = lk2[g]
    BY DEF Settled
  <2>0. g \in HwIfs
    BY DEF Mapped
  <2>1. g # h /\ NoEv(s, g, 1, n)
    BY <1>2 DEF IsEv, NoEv
  <2>. QED  BY <2>0, <2>1 DEF FlightInv, Settled
<1>. QED  BY <1>3, <1>4, <1>5, <1>6 DEF FlightInv

\* No event of g at lo..hi of Tail(s) is none at lo+1..hi+1 of s.
LEMMA ShiftNoEv ==
    ASSUME NEW s \in Seq(Events), s # << >>, NEW g, NEW lo \in Nat \ {0},
           NEW hi \in Int, hi <= Len(s) - 1, NoEv(Tail(s), g, lo, hi)
    PROVE  NoEv(s, g, lo + 1, hi + 1)
<1>1. Len(Tail(s)) = Len(s) - 1 /\ \A i \in 1..Len(Tail(s)) : Tail(s)[i] = s[i + 1]
  BY HeadTailProperties
<1> SUFFICES ASSUME NEW k \in lo + 1..hi + 1 PROVE ~IsEv(s, g, k)
  BY DEF NoEv
<1>2. k - 1 \in lo..hi /\ k - 1 \in 1..Len(Tail(s)) /\ (k - 1) + 1 = k
  BY <1>1
<1>3. ~IsEv(Tail(s), g, k - 1)
  BY <1>2 DEF NoEv
<1>. QED  BY <1>1, <1>2, <1>3 DEF IsEv

\* The port status a handled event leaves (asyncIntfStateUpdate)
Notified(op, ev) ==
    IF PortOfHwIf(ev.hwif) = NullOid THEN op
    ELSE [op EXCEPT ![PortOfHwIf(ev.hwif)] = ev.up]

\* The drain handles the head of the events in flight: the invariant holds
\* of the rest and the notified status.
LEMMA TailKeeps ==
    ASSUME NEW s \in Seq(Events), s # << >>, NEW lk \in [HwIfs -> BOOLEAN],
           NEW op \in [Ports -> BOOLEAN], FlightInv(s, lk, op)
    PROVE  FlightInv(Tail(s), lk, Notified(op, s[1]))
<1> DEFINE t == Tail(s)
           n == Len(s)
           h0 == s[1].hwif
           op2 == Notified(op, s[1])
<1>1. /\ t \in Seq(Events) /\ Len(t) = n - 1 /\ n \in Nat \ {0}
      /\ \A i \in 1..Len(t) : t[i] = s[i + 1]
  BY HeadTailProperties, EmptySeq, LenProperties
<1>2. s[1] \in Events /\ h0 \in HwIfs
  <2>1. s[1] \in Events
    BY <1>1, ElementOfSeq
  <2>. QED  BY <2>1 DEF Events
<1>3. ASSUME NEW g \in Mapped
      PROVE  /\ g = h0 => op2[PortOfHwIf(g)] = s[1].up
             /\ g # h0 => op2[PortOfHwIf(g)] = op[PortOfHwIf(g)]
  <2>1. PortOfHwIf(g) \in Ports
    BY NameAssumption DEF Mapped, PortOfHwIf
  <2>2. g # h0 /\ PortOfHwIf(h0) # NullOid => PortOfHwIf(g) # PortOfHwIf(h0)
    BY <1>2, PortInjective DEF Mapped
  <2>. QED  BY <2>1, <2>2 DEF Notified, Mapped
<1>4. Alternate(t)
  <2> SUFFICES ASSUME NEW g \in HwIfs, NEW i \in 1..Len(t), NEW j \in 1..Len(t),
                      i < j, IsEv(t, g, i), IsEv(t, g, j), NoEv(t, g, i + 1, j - 1)
               PROVE  t[j].up = ~t[i].up
    BY DEF Alternate
  <2>1. IsEv(s, g, i + 1) /\ IsEv(s, g, j + 1) /\ NoEv(s, g, i + 2, j)
    <3>1. IsEv(s, g, i + 1) /\ IsEv(s, g, j + 1)
      BY <1>1 DEF IsEv
    <3>2. NoEv(s, g, (i + 1) + 1, (j - 1) + 1)
      BY <1>1, ShiftNoEv
    <3>. QED  BY <3>1, <3>2
  <2>2. s[j + 1].up = ~s[i + 1].up
    <3>1. i + 1 \in 1..n /\ j + 1 \in 1..n /\ i + 1 < j + 1 /\ (i + 1) + 1 = i + 2
          /\ (j + 1) - 1 = j
      BY <1>1
    <3>. QED  BY <2>1, <3>1 DEF FlightInv, Alternate
  <2>. QED  BY <1>1, <2>2
<1>5. LastIsLink(t, lk)
  <2> SUFFICES ASSUME NEW g \in HwIfs, NEW i \in 1..Len(t),
                      IsEv(t, g, i), NoEv(t, g, i + 1, Len(t))
               PROVE  t[i].up = lk[g]
    BY DEF LastIsLink
  <2>1. IsEv(s, g, i + 1) /\ NoEv(s, g, i + 2, n)
    <3>1. NoEv(s, g, (i + 1) + 1, (n - 1) + 1)
      BY <1>1, ShiftNoEv
    <3>. QED  BY <1>1, <3>1 DEF IsEv
  <2>2. i + 1 \in 1..n /\ (i + 1) + 1 = i + 2
    BY <1>1
  <2>. QED  BY <1>1, <2>1, <2>2 DEF FlightInv, LastIsLink
<1>6. FirstFlips(t, op2)
  <2> SUFFICES ASSUME NEW g \in Mapped, NEW i \in 1..Len(t),
                      IsEv(t, g, i), NoEv(t, g, 1, i - 1)
               PROVE  t[i].up = ~op2[PortOfHwIf(g)]
    BY DEF FirstFlips
  <2>0. g \in HwIfs /\ IsEv(s, g, i + 1) /\ NoEv(s, g, 2, i) /\ i + 1 \in 1..n
    <3>1. NoEv(s, g, 1 + 1, (i - 1) + 1)
      BY <1>1, ShiftNoEv
    <3>. QED  BY <1>1, <3>1 DEF Mapped, IsEv
  <2>1. CASE g = h0
    <3>1. s[i + 1].up = ~s[1].up
      <4>1. 1 < i + 1 /\ IsEv(s, g, 1) /\ 1 + 1 = 2 /\ (i + 1) - 1 = i
        BY <1>1, <2>1 DEF IsEv
      <4>. QED  BY <2>0, <4>1 DEF FlightInv, Alternate
    <3>. QED  BY <1>1, <1>3, <2>1, <3>1
  <2>2. CASE g # h0
    <3>1. NoEv(s, g, 1, (i + 1) - 1)
      BY <2>0, <2>2 DEF NoEv, IsEv
    <3>2. s[i + 1].up = ~op[PortOfHwIf(g)]
      BY <2>0, <3>1 DEF FlightInv, FirstFlips
    <3>. QED  BY <1>1, <1>3, <2>2, <3>2
  <2>. QED  BY <2>1, <2>2
<1>7. Settled(t, lk, op2)
  <2> SUFFICES ASSUME NEW g \in Mapped, NoEv(t, g, 1, Len(t))
               PROVE  op2[PortOfHwIf(g)] = lk[g]
    BY DEF Settled
  <2>0. g \in HwIfs /\ NoEv(s, g, 2, n)
    <3>1. NoEv(s, g, 1 + 1, (n - 1) + 1)
      BY <1>1, ShiftNoEv
    <3>. QED  BY <1>1, <3>1 DEF Mapped
  <2>1. CASE g = h0
    <3>1. IsEv(s, g, 1) /\ NoEv(s, g, 1 + 1, n) /\ 1 \in 1..n
      BY <1>1, <2>0, <2>1 DEF IsEv
    <3>2. s[1].up = lk[g]
      BY <2>0, <3>1 DEF FlightInv, LastIsLink
    <3>. QED  BY <1>3, <2>1, <3>2
  <2>2. CASE g # h0
    <3>1. NoEv(s, g, 1, n)
      BY <2>0, <2>2 DEF NoEv, IsEv
    <3>2. op[PortOfHwIf(g)] = lk[g]
      BY <3>1 DEF FlightInv, Settled
    <3>. QED  BY <1>3, <2>2, <3>2
  <2>. QED  BY <2>1, <2>2
<1>. QED  BY <1>4, <1>5, <1>6, <1>7 DEF FlightInv

\* Draining the queue's head takes the head of the events in flight.
LEMMA TailConcat ==
    ASSUME NEW S, NEW q \in Seq(S), NEW p \in Seq(S), q # << >>
    PROVE  /\ Tail(q) \o p = Tail(q \o p)
           /\ Head(q) = (q \o p)[1]
           /\ q \o p # << >>
<1>1. /\ Tail(q) \in Seq(S) /\ Len(Tail(q)) = Len(q) - 1
      /\ \A i \in 1..Len(Tail(q)) : Tail(q)[i] = q[i + 1]
      /\ Len(q) \in Nat \ {0}
  BY HeadTailProperties, EmptySeq, LenProperties
<1>2. /\ q \o p \in Seq(S) /\ Len(q \o p) = Len(q) + Len(p)
      /\ \A i \in 1..Len(q) + Len(p) :
            (q \o p)[i] = IF i <= Len(q) THEN q[i] ELSE p[i - Len(q)]
  BY ConcatProperties
<1>3. q \o p # << >>
  BY <1>1, <1>2, EmptySeq
<1>4. /\ Tail(q \o p) \in Seq(S) /\ Len(Tail(q \o p)) = Len(q \o p) - 1
      /\ \A i \in 1..Len(Tail(q \o p)) : Tail(q \o p)[i] = (q \o p)[i + 1]
  BY <1>2, <1>3, HeadTailProperties
<1>5. /\ Tail(q) \o p \in Seq(S) /\ Len(Tail(q) \o p) = Len(Tail(q)) + Len(p)
      /\ \A i \in 1..Len(Tail(q)) + Len(p) :
            (Tail(q) \o p)[i] = IF i <= Len(Tail(q)) THEN Tail(q)[i]
                                ELSE p[i - Len(Tail(q))]
  BY <1>1, ConcatProperties
<1>6. Tail(q) \o p = Tail(q \o p)
  <2>1. Len(Tail(q) \o p) = Len(Tail(q \o p))
    BY <1>1, <1>2, <1>4, <1>5
  <2>2. \A i \in 1..Len(Tail(q) \o p) : (Tail(q) \o p)[i] = Tail(q \o p)[i]
    BY <1>1, <1>2, <1>4, <1>5
  <2>. QED  BY <1>4, <1>5, <2>1, <2>2, SeqEqual
<1>7. Head(q) = (q \o p)[1]
  BY <1>1, <1>2
<1>. QED  BY <1>3, <1>6, <1>7

LEMMA InitIInv == Init => IInv
<1> SUFFICES ASSUME Init PROVE IInv
  OBVIOUS
<1>1. Flight = << >>
  BY ConcatEmptySeq DEF Init, Flight
<1>2. TypeOK
  <2>1. << >> \in Seq(Events)
    BY EmptySeq
  <2>2. link \in [HwIfs -> BOOLEAN] /\ operStatus \in [Ports -> BOOLEAN]
    BY DEF Init
  <2>3. pc \in {"none", "check", "sync", "drain"} /\ started \in BOOLEAN
    BY DEF Init
  <2>4. changes \in 0..MaxEvents
    BY BoundAssumption DEF Init
  <2>. QED  BY <2>1, <2>2, <2>3, <2>4 DEF Init, TypeOK
<1>3. FlightInv(Flight, link, operStatus)
  <2>1. Len(Flight) = 0
    BY <1>1, EmptySeq
  <2>2. Alternate(Flight) /\ LastIsLink(Flight, link) /\ FirstFlips(Flight, operStatus)
    BY <2>1 DEF Alternate, LastIsLink, FirstFlips
  <2>3. \A h \in Mapped : PortOfHwIf(h) \in Ports
    BY NameAssumption DEF Mapped, PortOfHwIf
  <2>4. Settled(Flight, link, operStatus)
    BY <2>3 DEF Init, Settled, Mapped
  <2>. QED  BY <2>2, <2>4 DEF FlightInv
<1>. QED  BY <1>2, <1>3 DEF IInv

\* The steps that leave the events in flight, the links and the status alone.
LEMMA QuietKeeps ==
    ASSUME IInv, UNCHANGED <<link, pending, queue, operStatus, changes>>,
           pc' \in {"none", "check", "sync", "drain"}, started' \in BOOLEAN
    PROVE  IInv'
BY DEF IInv, TypeOK, Flight

LEMMA SyncStep ==
    ASSUME IInv, SyncForEvents
    PROVE  IInv'
<1>1. queue \in Seq(Events) /\ pending \in Seq(Events)
  BY DEF IInv, TypeOK
<1>2. Flight' = Flight
  <2>1. queue' \o pending' = (queue \o pending) \o << >>
    BY DEF SyncForEvents
  <2>2. queue \o pending \in Seq(Events)
    BY <1>1, ConcatProperties
  <2>. QED  BY <2>1, <2>2, ConcatEmptySeq DEF Flight
<1>3. TypeOK'
  BY <1>1, ConcatProperties DEF IInv, TypeOK, SyncForEvents
<1>. QED  BY <1>2, <1>3 DEF IInv, SyncForEvents

LEMMA DrainStep ==
    ASSUME IInv, DrainOne
    PROVE  IInv'
<1>1. queue \in Seq(Events) /\ pending \in Seq(Events) /\ operStatus \in [Ports -> BOOLEAN]
      /\ link \in [HwIfs -> BOOLEAN]
  BY DEF IInv, TypeOK
<1>2. CASE queue # << >> /\ asyncIntfStateUpdate(Head(queue)) /\ queue' = Tail(queue)
           /\ UNCHANGED <<pc, link, pending, started, changes>>
  <2>1. Flight' = Tail(Flight) /\ Head(queue) = Flight[1] /\ Flight # << >>
    BY <1>1, <1>2, TailConcat DEF Flight
  <2>2. operStatus' = Notified(operStatus, Flight[1])
    BY <1>2, <2>1 DEF asyncIntfStateUpdate, Notified
  <2>3. Flight \in Seq(Events)
    BY <1>1, ConcatProperties DEF Flight
  <2>4. FlightInv(Flight', link', operStatus')
    BY <1>1, <1>2, <2>1, <2>2, <2>3, TailKeeps DEF IInv
  <2>5. TypeOK'
    <3>1. Head(queue) \in Events /\ Tail(queue) \in Seq(Events)
      BY <1>1, <1>2, HeadTailProperties
    <3>2. operStatus' \in [Ports -> BOOLEAN]
      BY <1>1, <1>2, <3>1 DEF asyncIntfStateUpdate, Events
    <3>. QED  BY <1>2, <3>1, <3>2 DEF IInv, TypeOK
  <2>. QED  BY <2>4, <2>5 DEF IInv
<1>3. CASE queue = << >> /\ pc' = "check" /\ UNCHANGED <<queue, operStatus>>
           /\ UNCHANGED <<link, pending, started, changes>>
  BY <1>3, QuietKeeps DEF IInv, TypeOK
<1>. QED  BY <1>2, <1>3 DEF DrainOne

LEMMA LinkStep ==
    ASSUME IInv, NEW h \in HwIfs, LinkChange(h)
    PROVE  IInv'
<1> DEFINE e == [hwif |-> h, up |-> ~link[h]]
<1>1. queue \in Seq(Events) /\ pending \in Seq(Events) /\ link \in [HwIfs -> BOOLEAN]
  BY DEF IInv, TypeOK
<1>2. e \in Events
  BY <1>1 DEF Events
<1>3. Flight' = Append(Flight, e)
  <2>1. Flight' = queue \o (pending \o << e >>)
    BY <1>1, <1>2, AppendIsConcat DEF LinkChange, Flight
  <2>2. queue \o pending \in Seq(Events) /\ << e >> \in Seq(Events)
    BY <1>1, <1>2, ConcatProperties
  <2>3. Flight' = (queue \o pending) \o << e >>
    BY <1>1, <1>2, <2>1, ConcatAssociative
  <2>. QED  BY <2>2, <2>3, AppendIsConcat DEF Flight
<1>4. FlightInv(Flight', link', operStatus')
  <2>1. Flight \in Seq(Events)
    BY <1>1, ConcatProperties DEF Flight
  <2>. QED  BY <1>1, <1>3, <2>1, AppendKeeps DEF IInv, LinkChange
<1>5. TypeOK'
  BY <1>1, <1>2, AppendProperties, BoundAssumption DEF IInv, TypeOK, LinkChange
<1>. QED  BY <1>4, <1>5 DEF IInv

LEMMA StepIInv == IInv /\ [Next]_vars => IInv'
<1> SUFFICES ASSUME IInv, [Next]_vars PROVE IInv'
  OBVIOUS
<1>1. CASE vpp_dp_initialize
  BY <1>1, QuietKeeps DEF vpp_dp_initialize
<1>2. CASE LoopCheck
  BY <1>2, QuietKeeps DEF LoopCheck, IInv, TypeOK
<1>3. CASE SyncForEvents
  BY <1>3, SyncStep
<1>4. CASE DrainOne
  BY <1>4, DrainStep
<1>5. CASE \E h \in HwIfs : LinkChange(h)
  BY <1>5, LinkStep
<1>6. CASE UNCHANGED vars
  BY <1>6 DEF vars, IInv, TypeOK, Flight
<1>. QED  BY <1>1, <1>2, <1>3, <1>4, <1>5, <1>6 DEF Next, ThreadStep

\* For all hardware interfaces, taps, ports and bounds: whenever no event
\* is in flight, every mapped port's last oper status notification from
\* asyncIntfStateUpdate is its link's state, however the link changes
\* interleave with vppProcessEvents' syncs and drains.
THEOREM NotificationsMatchLinkInvariant == Spec => [](TypeOK /\ NotificationsMatchLink)
<1>1. IInv => TypeOK /\ NotificationsMatchLink
  <2> SUFFICES ASSUME IInv, pending = << >>, queue = << >>
               PROVE  \A h \in Mapped : operStatus[PortOfHwIf(h)] = link[h]
    BY DEF IInv, NotificationsMatchLink
  <2>1. Flight = << >>
    BY ConcatEmptySeq DEF Flight
  <2>. QED  BY <2>1 DEF IInv, FlightInv, Settled, NoEv
<1>. QED  BY <1>1, InitIInv, StepIInv, PTL DEF Spec
====
