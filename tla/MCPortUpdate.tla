----------------------------- MODULE MCPortUpdate -----------------------------
(* A tap port and a port without a tap, with ACLs and one MTU value.       *)
EXTENDS PortUpdate

CONSTANTS p1, p2, a1, a2

MCPorts == {p1, p2}
MCAcls == {a1, a2}
====
