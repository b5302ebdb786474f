----------------------------- MODULE MCIntfAddr -----------------------------
(* A small instance of IntfAddr: a port and a sub-port with their router   *)
(* interfaces, one router interface for each early return of               *)
(* vpp_add_del_intf_ip_addr, one network with two host addresses.          *)
EXTENDS IntfAddr

CONSTANTS eth0, eth0v10, net1, rPort, rSub, rVlan, rLag, rBridge, rNoTap

MCDevs == {eth0, eth0v10}
MCPrefixes == {net1}
MCHostIds == {1, 2}
MCRifs == {rPort, rSub, rVlan, rLag, rBridge, rNoTap}

\* rLag's port id is not a port object; rBridge has a type the handler skips;
\* rNoTap's port has no host interface.
MCRifDev == [r \in MCRifs |-> CASE r = rPort -> eth0
                                [] r = rSub -> eth0v10
                                [] OTHER -> NoDev]
MCRifType == [r \in MCRifs |-> CASE r = rSub -> "sub_port"
                                 [] r = rBridge -> "other"
                                 [] OTHER -> "port"]
MCRifPortType == [r \in MCRifs |-> CASE r = rVlan -> "vlan"
                                     [] r = rLag -> "other"
                                     [] OTHER -> "port"]
=============================================================================
