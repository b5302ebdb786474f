----------------------------- MODULE MCLoopback -----------------------------
(* Small instances of the loopback engine for TLC: one IPv4 and one IPv6   *)
(* destination (the dual-stack pair of spec section 8) and a third one.    *)
EXTENDS Loopback

CONSTANTS v4, v6, v4b

MCDests == {v4, v6, v4b}
MCDualDests == {v4, v6}
=============================================================================
