---------------------------- MODULE InstancePool ----------------------------
(***************************************************************************)
(* What the loopback instance allocator of SwitchStateBaseRif.cpp promises *)
(* (spec section 3, "Loopback Instance Map"): instance numbers in use are  *)
(* unique, and a new request is always given the lowest number that is not *)
(* in use.  The allocator's free list and high-water mark are an           *)
(* implementation of this pool; LoopbackAllocator shows it.                *)
(***************************************************************************)
EXTENDS Naturals

CONSTANT MaxInstance         \* bound on the instance numbers handed out

VARIABLE inUse               \* the instance numbers currently handed out

\* The lowest instance number not in use, searched in 0..MaxInstance.
LowestUnused(S) ==
    CHOOSE i \in 0..MaxInstance : i \notin S /\ \A j \in 0..(i - 1) : j \in S

PoolInit == inUse = {}

\* A request is given the lowest unused number, while one is left.
Acquire ==
    /\ LowestUnused(inUse) < MaxInstance
    /\ inUse' = inUse \cup {LowestUnused(inUse)}

\* A number in use is given back.
Release(i) ==
    /\ i \in inUse
    /\ inUse' = inUse \ {i}

PoolNext == Acquire \/ \E i \in inUse : Release(i)

PoolSpec == PoolInit /\ [][PoolNext]_inUse
=============================================================================
