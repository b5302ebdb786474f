---------------------------- MODULE MCEventBridge ----------------------------
(* Two hardware interfaces whose taps belong to ports and one (a loopback's *)
(* hardware interface) whose tap belongs to no port.                        *)
EXTENDS EventBridge

CONSTANTS bobm0, bobm1, loop0, eth0, eth1, lo0, port0, port1

MCHwIfs == {bobm0, bobm1, loop0}
MCTaps == {eth0, eth1, lo0}
MCPorts == {port0, port1}
MCTapOf == [h \in MCHwIfs |-> CASE h = bobm0 -> eth0
                                [] h = bobm1 -> eth1
                                [] OTHER -> lo0]
MCPortOfName == [n \in MCHwIfs \cup MCTaps |-> CASE n = eth0 -> port0
                                                 [] n = eth1 -> port1
                                                 [] OTHER -> NullOid]
=============================================================================
