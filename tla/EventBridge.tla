----------------------------- MODULE EventBridge -----------------------------
(***************************************************************************)
(* The event bridge of SwitchStateBaseRif.cpp: vpp_dp_initialize starts   *)
(* the thread vppProcessEvents, which, while m_run_vpp_events_thread is    *)
(* set, sleeps, calls vpp_sync_for_events and drains the client's event    *)
(* queue with vpp_ev_dequeue; each link status event goes through          *)
(* asyncIntfStateUpdate, which maps the hardware interface name to its     *)
(* tap (hwif_to_tap_name) and the tap to its port (getPortIdFromIfName)    *)
(* and sends a port oper status notification.                              *)
(*                                                                         *)
(* The dataplane side (link changes, the event messages not yet read by   *)
(* vpp_sync_for_events) is not in this file and is modelled from the spec. *)
(* Nothing in this file clears m_run_vpp_events_thread, so the loop        *)
(* condition always holds and the thread runs for the switch's lifetime.   *)
(***************************************************************************)
EXTENDS Naturals, Sequences

CONSTANTS
    HwIfs,        \* dataplane hardware interface names
    Taps,         \* host tap names
    Ports,        \* port objects
    NullOid,      \* SAI_NULL_OBJECT_ID
    TapOf,        \* hwif_to_tap_name
    PortOfName,   \* getPortIdFromIfName, over every name it can be given
    MaxEvents     \* bound on the link changes of a behaviour

ASSUME NameAssumption ==
    /\ NullOid \notin Ports
    /\ TapOf \in [HwIfs -> Taps]
    /\ PortOfName \in [HwIfs \cup Taps -> Ports \cup {NullOid}]
    \* each port has one tap, each tap one hardware interface
    /\ \A h, g \in HwIfs : TapOf[h] = TapOf[g] => h = g
    /\ \A s, t \in Taps : PortOfName[s] = PortOfName[t] /\ PortOfName[s] # NullOid
                          => s = t
ASSUME BoundAssumption == MaxEvents \in Nat

VARIABLES
    link,         \* link state of each hardware interface in the dataplane
    pending,      \* link events the dataplane sent and the client has not read
    queue,        \* the client's event queue (vpp_ev_dequeue)
    pc,           \* the thread: "none", "check", "sync" or "drain"
    started,      \* VppEventsThreadStarted
    operStatus,   \* oper status of each port, as the notifications told it
    changes       \* link changes so far (bounded by MaxEvents)

vars == <<link, pending, queue, pc, started, operStatus, changes>>

Events == [hwif : HwIfs, up : BOOLEAN]

\* the port whose tap is the hardware interface's, or NullOid
PortOfHwIf(h) == PortOfName[TapOf[h]]

(***************************************************************************)
(* The thread.                                                             *)
(***************************************************************************)

\* Mutant: the thread is never created.
vpp_dp_initialize_noThread ==
    /\ pc = "none"
    /\ started' = TRUE
    /\ UNCHANGED <<link, pending, queue, pc, operStatus, changes>>

\* init_vpp_client, then the thread is created and starts its loop
vpp_dp_initialize ==
    /\ pc = "none"
    /\ pc' = "check"
    /\ started' = TRUE
    /\ UNCHANGED <<link, pending, queue, operStatus, changes>>

\* while (m_run_vpp_events_thread): the flag is set
LoopCheck ==
    /\ pc = "check"
    /\ pc' = "sync"
    /\ UNCHANGED <<link, pending, queue, started, operStatus, changes>>

\* nanosleep, then vpp_sync_for_events reads the pending messages into the
\* client queue in the order they were sent
SyncForEvents ==
    /\ pc = "sync"
    /\ queue' = queue \o pending
    /\ pending' = <<>>
    /\ pc' = "drain"
    /\ UNCHANGED <<link, started, operStatus, changes>>

\* Mutant: the port is looked up by the hardware interface name.
asyncIntfStateUpdate_noTapName(ev) ==
    LET port == PortOfName[ev.hwif] IN
    operStatus' = IF port = NullOid THEN operStatus
                  ELSE [operStatus EXCEPT ![port] = ev.up]

\* An unknown port is logged and the event dropped; otherwise the port's
\* oper status notification carries the event's state.
asyncIntfStateUpdate(ev) ==
    LET port == PortOfHwIf(ev.hwif) IN
    operStatus' = IF port = NullOid THEN operStatus
                  ELSE [operStatus EXCEPT ![port] = ev.up]

\* one turn of the inner loop: dequeue, handle a link event, free it; an
\* empty queue ends the inner loop
DrainOne ==
    /\ pc = "drain"
    /\ \/ /\ queue # <<>>
          /\ asyncIntfStateUpdate(Head(queue))
          /\ queue' = Tail(queue)
          /\ UNCHANGED pc
       \/ /\ queue = <<>>
          /\ pc' = "check"
          /\ UNCHANGED <<queue, operStatus>>
    /\ UNCHANGED <<link, pending, started, changes>>

ThreadStep == LoopCheck \/ SyncForEvents \/ DrainOne

(***************************************************************************)
(* The environment.                                                        *)
(***************************************************************************)

\* A link goes up or down and the dataplane sends an event for it.
LinkChange(h) ==
    /\ changes < MaxEvents
    /\ link' = [link EXCEPT ![h] = ~link[h]]
    /\ pending' = Append(pending, [hwif |-> h, up |-> ~link[h]])
    /\ changes' = changes + 1
    /\ UNCHANGED <<queue, pc, started, operStatus>>

Init ==
    /\ link = [h \in HwIfs |-> FALSE]
    /\ pending = <<>>
    /\ queue = <<>>
    /\ pc = "none"
    /\ started = FALSE
    /\ operStatus = [p \in Ports |-> FALSE]
    /\ changes = 0

Next ==
    \/ vpp_dp_initialize
    \/ ThreadStep
    \/ \E h \in HwIfs : LinkChange(h)

\* The switch initialisation calls vpp_dp_initialize, and the thread, once
\* running, is scheduled: both are weakly fair.  The dataplane's link
\* changes are not.
Fairness == WF_vars(vpp_dp_initialize) /\ WF_vars(ThreadStep)

Spec == Init /\ [][Next]_vars /\ Fairness

(***************************************************************************)
(* Properties                                                              *)
(***************************************************************************)

TypeOK ==
    /\ link \in [HwIfs -> BOOLEAN]
    /\ pending \in Seq(Events) /\ queue \in Seq(Events)
    /\ pc \in {"none", "check", "sync", "drain"}
    /\ started \in BOOLEAN
    /\ operStatus \in [Ports -> BOOLEAN]
    /\ changes \in 0..MaxEvents

\* the hardware interfaces whose events reach a port
Mapped == {h \in HwIfs : PortOfHwIf(h) # NullOid}

\* Whenever no event is in flight, every mapped port's last notification is
\* its link's state: events are handled in the order they were sent and
\* each reaches the port its tap belongs to.
NotificationsMatchLink ==
    (pending = <<>> /\ queue = <<>>) =>
        \A h \in Mapped : operStatus[PortOfHwIf(h)] = link[h]

\* A port whose notified state differs from its link is eventually told the
\* link's state (spec §9: link events are delivered at least once).
LinkEventsDelivered ==
    \A h \in Mapped :
        (operStatus[PortOfHwIf(h)] # link[h]) ~> (operStatus[PortOfHwIf(h)] = link[h])
====
