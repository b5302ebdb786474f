-------------------------- MODULE MCRouterInterface --------------------------
(* A small instance of RouterInterface.  Port p1 has a tap and carries a   *)
(* port router interface rP in vr1 and a sub-port rS (VLAN 10) in vr2.     *)
(* Two more router interfaces take the early returns of the handlers: rVlanObj,  *)
(* whose port id is a VLAN object, and rSubNoVlan, a sub-port with no outer VLAN *)
(* on the tap port p3.                                                     *)
EXTENDS RouterInterface

CONSTANTS p1, p3, pVlan, vr0, vr1, vr2, rP, rS, rVlanObj, rSubNoVlan

MCPorts == {p1, p3, pVlan}
MCPortObjType == [p \in MCPorts |-> IF p = pVlan THEN "vlan" ELSE "port"]
MCVrs == {vr0, vr1, vr2}
MCVrTable == [v \in MCVrs |-> CASE v = vr1 -> 1 [] v = vr2 -> 2 [] OTHER -> 0]

MCRifsCore == {rP, rS}
MCRifsAll == MCRifsCore \cup {rSubNoVlan, rVlanObj}

MCRifType == [r \in Rifs |-> IF r \in {rS, rSubNoVlan} THEN "sub_port" ELSE "port"]
MCRifPort == [r \in Rifs |->
                CASE r \in {rP, rS} -> p1
                  [] r = rSubNoVlan -> p3
                  [] OTHER -> pVlan]
MCRifVlan == [r \in Rifs |-> IF r = rS THEN 10 ELSE NoVlan]
MCRifVrf == [r \in Rifs |-> IF r = rS THEN vr2 ELSE vr1]
=============================================================================
